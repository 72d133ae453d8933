SPECIFICATION FairLifecycle
CONSTANTS
    Pid = {p1, p2, p3}
    First = p1
    NoPid = NoPid
    MaxSignal = 3
INVARIANT PidFileAlive
PROPERTIES NeverRefused HandsOver
CHECK_DEADLOCK FALSE
