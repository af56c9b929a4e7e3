SPECIFICATION Spec
CONSTANTS
    Key = {"k1", "k2"}
    MaxCalls = 3
INVARIANT DuplicatesIgnored
CHECK_DEADLOCK FALSE
