SPECIFICATION FairSpec
CONSTANTS
  r1 = r1
  r2 = r2
  Request = {r1, r2}
  Streams = {r2}
  NoRequest = NoRequest
  MaxRuns = 2
INVARIANTS
  TypeOK
  ResultBehindEvent
  OneHandOver
  LeaksAreConfined
PROPERTIES
  AskEnds
  StreamEnds
  ImplementsLifecycle
CHECK_DEADLOCK FALSE
