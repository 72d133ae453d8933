SPECIFICATION FairSpec
CONSTANTS
    Node = {1, 2}
    Mirror = {1, 2}
    InitCatalog = {1}
    ExpireSec = 2
    ChanCap = 2
    FaultBudget = 2
    ChangeBudget = 1
INVARIANTS
    AgreedPartition
    MirrorListsFollow
PROPERTIES
    NoSpuriousExpiry
    ClusterSettles
