SPECIFICATION FairLock
CONSTANTS
    Session = {s1, s2, s3}
    NoSession = NoSession
    LockTTL = 6
    LockRefresh = 3
    MaxDelay = 1
INVARIANTS
    FreshExclusion
PROPERTIES
    DeletesOwnKey
    AbandonedKeyFreed
