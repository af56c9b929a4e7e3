SPECIFICATION FairSpec
CONSTANTS
  Capacities = {0, 1, 2, 3, 4, 5}
  BufferLens = {0, 1, 2, 3}
  MaxStream = 5
  MaxOut = 5
PROPERTY ImplementsBytes
CHECK_DEADLOCK FALSE
