SPECIFICATION FairSpec
CONSTANTS
    Mirror = {m1}
    Path = {p1}
    Reader = {r1}
    Monitor = monitor
    Absent = {3}
    ChanCap = 1
    InvalCap = 1
    MaxVersion = 3
    UpdateBudget = 2
    FaultBudget = 1
INVARIANTS StaleHasCause CopyHasCause
PROPERTY EvictionArrives
CHECK_DEADLOCK FALSE
