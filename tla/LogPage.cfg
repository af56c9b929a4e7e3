SPECIFICATION FairSpec
CONSTANTS
    Entry = {e1, e2}
    Zero = zero
    PageUnits = 4
    MaxLen = 5
    MaxVersion = 2
INVARIANT ReturnsOneVersion
PROPERTY ReadingEnds
CHECK_DEADLOCK FALSE
