SPECIFICATION MCFairSpec
CONSTANTS
  Ep <- MCEp2
  Cluster = {"A"}
  ClusterOf <- MCOneCluster
  SelfRef <- MCSelf
  Addr <- MCEp2
  AddrOf <- MCSelf
  None = None
  AggCap = 1
  Slots = 5
  MaxGen = 2
  Budget <- MCLive
INVARIANTS
  WorksWithOpenObjects
  RunningClientsAreInTable
  EverySenderHasReceiver
  ReconnectIsScheduled
PROPERTIES
  Reconnected
  ImplementsFeed
CHECK_DEADLOCK FALSE
