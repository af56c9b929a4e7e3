SPECIFICATION FairSpec
CONSTANTS
    Key <- MCKey
    Pair <- MCPair
    PairOf <- MCPairOf
    Tmo = {"t1", "t2"}
    NoTmo = NoTmo
    FileName = {"f1"}
    Contents <- MCContents
    Absent = Absent
    Bad = Bad
    Short = Short
    Refused = {"a2"}
    NoJson = NoJson
    AutoDetect = TRUE
    AutoFile = "f1"
    AutoLines <- MCAutoLines
    SaveMayFail = TRUE
    MaxClock = 1
    MaxUser = 1
    MaxReferral = 2
    MaxCrash = 1
INVARIANTS
    NoDuplicates
    EntriesMatchConnections
    NoLostNotification
    ReferralsKept
PROPERTIES
    ImplementsFeed
    RestoresSavedList
    ServiceConverges
    FileIsListed
CHECK_DEADLOCK FALSE
