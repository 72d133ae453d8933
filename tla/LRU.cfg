SPECIFICATION LRUSpec
SYMMETRY Symmetry
CONSTANTS
    Key = {k1, k2, k3}
    empty = empty
    small = small
    large = large
    Value = {empty, small, large}
    SizeOf <- MCSizeOf
    Capacities = {2, 4}
    Modulus = 16
    MaxClock = 8
INVARIANTS Accounted
PROPERTY ImplementsMap
CHECK_DEADLOCK FALSE
