SPECIFICATION FairSpec
CONSTANTS
    Mirror = {m1}
    NoMirror = NoMirror
    Checker = {c1}
    Syncer = {y1}
    CheckCap = 1
    ChangeBudget = 1
INVARIANTS CheckingHasCause ScanningHasWorker
PROPERTIES CheckedInTurn StopEnds
CHECK_DEADLOCK FALSE
