SPECIFICATION Spec
CONSTANTS
  w1 = w1
  w2 = w2
  Worker = {w1, w2}
  NoWorker = NoWorker
  MaxTasks = 3
  Faults = {"revoke", "die", "publish", "commit", "swap"}
  FaultBudget = 3
INVARIANTS
  CommittedWasStored
CHECK_DEADLOCK FALSE
