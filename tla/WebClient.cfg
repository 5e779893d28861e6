SPECIFICATION Spec
CONSTANTS
    n1 = n1
    n2 = n2
    c1 = c1
    c2 = c2
    c3 = c3
    t1 = t1
    t2 = t2
    ann = ann
    bob = bob
    Node = {n1, n2}
    NoNode = NoNode
    Call = {c1, c2, c3}
    Founder = Founder
    NoUser = NoUser
    Address = {ann, bob}
    FounderAddress = bob
    Tab = {t1, t2}
    Scenes <- Encounters
    Faults = {"crash", "move", "lose", "hang", "db", "send", "busy", "worker", "stale"}
    FaultBudget <- Mishaps
    FallbackNode = n1
INVARIANTS
    TypeOK
    DuplicatesOverlapped
    LockedOutOnlyByRace
    RemovedStaysOut
    HistoriesAgree
    TwiceOnlyInDoubt
    CalmCallsFindTheLeader
PROPERTIES
    ImplementsUserCall
    NothingGoesRound
    CallsEnd
CHECK_DEADLOCK FALSE
