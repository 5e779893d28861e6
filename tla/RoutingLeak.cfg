SPECIFICATION Spec
CONSTANTS
  r1 = r1
  r2 = r2
  Request = {r1, r2}
  Streams = {}
  NoRequest = NoRequest
  MaxRuns = 1
INVARIANTS
  TimedOutLeavesNothing
CHECK_DEADLOCK FALSE
