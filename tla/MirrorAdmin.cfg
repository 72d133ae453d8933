SPECIFICATION Spec
CONSTANTS
    c1 = c1
    c2 = c2
    g1 = g1
    g2 = g2
    n1 = n1
    n2 = n2
    Client <- MCClient
    Goroutine <- MCGoroutine
    Name <- MCName
    NoName = NoName
    MaxId = 2
    MaxCommand = 4
SYMMETRY Symmetry
INVARIANTS UniqueNames RecordsAgree LogsTell
CHECK_DEADLOCK FALSE
