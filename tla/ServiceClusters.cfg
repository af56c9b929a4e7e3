SPECIFICATION Spec
CONSTANTS
  Ep <- MCEp2
  Cluster = {"A", "B"}
  ClusterOf <- MCTwoClusters
  SelfRef <- MCSelf
  Addr <- MCEp2
  AddrOf <- MCSelf
  None = None
  AggCap = 2
  Slots = 3
  MaxGen = 1
  Budget <- MCClusters
CHECK_DEADLOCK FALSE
INVARIANT ReconnectIsScheduled
