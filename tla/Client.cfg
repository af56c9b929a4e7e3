SPECIFICATION FairSpec
CONSTANTS
    IdSpace = 8
    MaxEvent = 2
    Cases <- MCSession
    MayFail = TRUE
INVARIANTS RepliesReachSender EventIsAwaited 
PROPERTIES LossReported EventReported DiscoverEnds
CHECK_DEADLOCK FALSE
