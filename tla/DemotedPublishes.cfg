SPECIFICATION Spec
CONSTANTS
  a = a
  b = b
  c = c
  k1 = k1
  k2 = k2
  Node <- Two
  MaxPriority = 3
  Priority <- TwoRanked
  NameOrder <- TwoByName
  ClusterId = {k1}
  NoNode = NoNode
  NoCluster = NoCluster
  NodeTimeout = 1
  FailureThreshold = 1
  MaxGap = 1
  Horizon = 6
  LastFault = 100
  Calls = {"status", "well_known", "worker", "create", "join"}
  SeedPeers <- Everybody
  SeedCluster = k1
  Faults = {"crash", "drop"}
  FaultBudget = 2
PROPERTIES
  DemotedStaysQuiet
