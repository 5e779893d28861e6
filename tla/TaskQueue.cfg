SPECIFICATION FairSpec
CONSTANTS
  w1 = w1
  w2 = w2
  Worker = {w1, w2}
  NoWorker = NoWorker
  MaxTasks = 3
  Faults = {"revoke", "die", "publish", "unsent", "commit", "swap"}
  FaultBudget = 3
INVARIANTS
  TypeOK
  InFlightStaysUncommitted
  LossIsConfined
  AtMostOncePerTenure
PROPERTIES
  ImplementsQueue
  DrainedIfStaffed
CHECK_DEADLOCK FALSE
