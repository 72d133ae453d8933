SPECIFICATION Spec
CONSTANTS
    m1 = m1
    m2 = m2
    m3 = m3
    f1 = f1
    f2 = f2
    Mirror <- MCMirror
    Profile <- MCProfile
    Fallback = {f1, f2}
    Rank <- MCRank
    Size = {1, 2}
    Limit = 2
    MaxChange = 1
SYMMETRY Symmetry
INVARIANTS DuplicatesAgree NonePassedOver OwnStatistics
CHECK_DEADLOCK FALSE
