SPECIFICATION Spec
CONSTANTS
    n1 = n1
    n2 = n2
    b1 = b1
    b2 = b2
    w1 = w1
    coding = coding
    writing = writing
    Node = {n1, n2}
    NoNode = NoNode
    Worker = {w1}
    Skill = {coding, writing}
    NoSkill = NoSkill
    NoBroker = NoBroker
    Broker <- TwoBrokers
    Fallback <- FallbackFirst
    RamGb <- MidRange
    Skills <- Codes
    SweepLimit = 3
    FailureThreshold = 3
    Faults = {"crash", "die", "move", "stray", "lose", "swap"}
    FaultBudget = 2
INVARIANTS
    TypeOK
    DeadWorkersFade
    DispatchFindsAReader
PROPERTIES
    ImplementsMembership
    WorkersFollow
