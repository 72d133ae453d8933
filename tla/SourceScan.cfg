SPECIFICATION FairRepository
CONSTANTS
    SecondDir = {"ISO", "img"}
    ThirdDir = {"arm"}
    SourcePath <- MCSourcePath
    Endings = {}
    Beginnings <- MCBeginnings
    Iso = {"a.iso"}
    PreReleaseVersion = "v2"
    Maintained = 3
    p1 = p1
    t1 = t1
    r1 = r1
    Process = {p1}
    Ticker = {t1}
    Rpc = {r1}
    ProcessOf <- MCProcessOf
    NoScanner = NoScanner
    Orphan = Orphan
    Lists <- MCLists
    MaxRetry = 1
    MaxFaults = 1
INVARIANTS FilesWhole IndexAgrees TreeWhole SelectsFiles
PROPERTY Converges
CHECK_DEADLOCK FALSE
