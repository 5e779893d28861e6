SPECIFICATION Spec
CONSTANTS
  a = a
  b = b
  c = c
  k1 = k1
  k2 = k2
  Node <- Three
  MaxPriority = 3
  Priority <- Ranked
  NameOrder <- ByName
  ClusterId = {k1}
  NoNode = NoNode
  NoCluster = NoCluster
  NodeTimeout = 1
  FailureThreshold = 1
  MaxGap = 1
  Horizon = 100
  LastFault = 100
  Calls = {}
  SeedPeers <- Everybody
  SeedCluster = k1
  Faults = {"crash", "split", "drop"}
  FaultBudget = 1
VIEW AgeView

  
  
PROPERTIES
  HeartbeatsOnlyMoveForward
  CrashedNodesFallSilent
  ImplementsGossip
