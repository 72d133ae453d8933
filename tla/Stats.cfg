SPECIFICATION FairSpec
CONSTANTS
    f1 = f1
    f2 = f2
    File <- MCFile
    Mirror = {m1}
    Size <- MCSize
    MaxDay = 6
    MonthLength = 3
    YearLength = 2
    ChanCap = 1
    MaxDownload = 2
    FaultBudget = 2
INVARIANTS NothingLost TotalsAgree RangeAgrees
PROPERTY DownloadsSaved
CHECK_DEADLOCK FALSE
