SPECIFICATION MCSpec
CONSTANTS
  Ep <- MCEp
  Cluster = {"A"}
  ClusterOf <- MCOneCluster
  SelfRef <- MCSelf
  Addr <- MCEp
  AddrOf <- MCSelf
  None = None
  AggCap = 1
  Slots = 3
  MaxGen = 1
  Budget <- MCBudget
  Owners = {"app", "caller"}
  MaxSignal = 1
CHECK_DEADLOCK FALSE
INVARIANT CountsMultiplexers
PROPERTIES StopEnds MainLoopEnds SignalEnds
