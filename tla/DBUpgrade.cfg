SPECIFICATION FairUpgrade
CONSTANTS
    Node = {n1, n2}
    NoNode = NoNode
    Orphan = Orphan
    a = a
    b = b
    f = f
    g = g
    gone = gone
    day = day
    month = month
    Name = {a, b}
    Removed = {gone}
    File = {f, g}
    FilesOf <- MCFilesOf
    Repository = {f}
    Period = {day, month}
    Counted <- MCCounted
    MaxId = 8
    CrashBudget = 1
    StallBudget = 1
INVARIANTS OldDataIntact UpgradeConverts
PROPERTY Starts
CHECK_DEADLOCK FALSE
