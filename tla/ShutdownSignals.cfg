SPECIFICATION ShutdownSpec
CONSTANTS
  Ep <- MCEp
  Cluster = {"A"}
  ClusterOf <- MCOneCluster
  SelfRef <- MCSelf
  Addr <- MCEp
  AddrOf <- MCSelf
  None = None
  AggCap = 1
  Slots = 1
  MaxGen = 1
  Budget = {}
  Owners = {"app"}
  MaxSignal = 2
CHECK_DEADLOCK FALSE
PROPERTY SignalsEnd
