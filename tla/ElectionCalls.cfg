SPECIFICATION Spec
CONSTANTS
  a = a
  b = b
  c = c
  k1 = k1
  k2 = k2
  Node <- Two
  MaxPriority = 3
  Priority <- TwoRanked
  NameOrder <- TwoByName
  ClusterId = {k1, k2}
  NoNode = NoNode
  NoCluster = NoCluster
  NodeTimeout = 2
  FailureThreshold = 2
  MaxGap = 1
  Horizon = 100
  LastFault = 100
  Calls = {"status", "well_known", "worker", "create", "join"}
  SeedPeers <- Nobody
  SeedCluster = NoCluster
  Faults = {"crash", "drop"}
  FaultBudget = 1
VIEW AgeView
INVARIANTS
  TypeOK
  ReloadLosesOnlyVerdicts
PROPERTIES
  ImplementsGossip
  HeartbeatsOnlyMoveForward
