SPECIFICATION Spec
CONSTANTS
    IdSpace = 5
    MaxEvent = 1
    Cases <- MCStop
    MayFail = FALSE
INVARIANTS NoSendOnClosed StopReturns
CHECK_DEADLOCK FALSE
