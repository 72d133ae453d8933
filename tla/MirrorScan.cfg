SPECIFICATION Spec
CONSTANTS
    File = {f1, f2}
    Session = {s1, s2}
    NoSession = NoSession
    MaxRefresh = 1
INVARIANTS
    InfoMatchesIndex
    IndexReachable
    RemovalIsFinal
SYMMETRY Symmetry
CHECK_DEADLOCK FALSE
