-------------------------- MODULE WorkerPool_proofs -------------------------
(***************************************************************************)
(* Proofs about Dispatch and WorkerPool for any nodes, workers, skills,    *)
(* RAM sizes, thresholds and faults: the walk over tiers finds a topic     *)
(* that is read, and a registry forgets a dead worker in time.             *)
(***************************************************************************)
EXTENDS WorkerPool, TLAPS

USE DispatchAssumption, PoolAssumption

-----------------------------------------------------------------------------
(* The tiers and the walk over them.                                       *)

LEMMA Tiers ==
    /\ Len(TIER_ORDER) = 3
    /\ TIER_ORDER[1] = "high-ram" /\ TIER_ORDER[2] = "low-ram"
    /\ TIER_ORDER[3] = "general"
    /\ Tier = {"high-ram", "low-ram", "general"}
    /\ NoTier \notin Tier
BY DEF TIER_ORDER, Tier, TIER_RAM_GB, NoTier

LEMMA Indices ==
    ASSUME NEW tier \in Tier
    PROVE  /\ IndexOf(tier) \in 1..3 /\ TIER_ORDER[IndexOf(tier)] = tier
           /\ \A i \in 1..3 : TIER_ORDER[i] = tier => i = IndexOf(tier)
<1>1. \E i \in 1..3 : TIER_ORDER[i] = tier
  BY Tiers
<1>2. IndexOf(tier) \in 1..3 /\ TIER_ORDER[IndexOf(tier)] = tier
  BY <1>1, Tiers DEF IndexOf
<1>3. \A i, j \in 1..3 : TIER_ORDER[i] = TIER_ORDER[j] => i = j
  BY Tiers
<1> QED  BY <1>2, <1>3

\* What Walk looks for, by tier instead of index.
Found(reg, requested, skill) ==
    {tier \in Tier : /\ IndexOf(tier) >= IndexOf(requested)
                     /\ Eligible(reg, TIER_RAM_GB[tier], skill) # {}}

LEMMA CandidatesAreFound ==
    ASSUME NEW reg, NEW requested \in Tier, NEW skill
    PROVE  /\ Candidates(reg, requested, skill) \subseteq 1..3
           /\ \A i \in Candidates(reg, requested, skill) :
                  /\ TIER_ORDER[i] \in Found(reg, requested, skill)
                  /\ IndexOf(TIER_ORDER[i]) = i
           /\ \A tier \in Found(reg, requested, skill) :
                  IndexOf(tier) \in Candidates(reg, requested, skill)
<1>1. IndexOf(requested) \in 1..3
  BY Indices
<1>2. \A i \in 1..3 : TIER_ORDER[i] \in Tier /\ IndexOf(TIER_ORDER[i]) = i
  BY Tiers, Indices
<1>3. \A tier \in Tier : IndexOf(tier) \in 1..3 /\ TIER_ORDER[IndexOf(tier)] = tier
  BY Indices
<1>4. Candidates(reg, requested, skill)
        = {i \in IndexOf(requested)..3 : Eligible(reg, TIER_RAM_GB[TIER_ORDER[i]], skill) # {}}
  BY Tiers DEF Candidates
<1>5. Candidates(reg, requested, skill) \subseteq 1..3
  BY <1>1, <1>4
<1>6. ASSUME NEW i \in Candidates(reg, requested, skill)
      PROVE  TIER_ORDER[i] \in Found(reg, requested, skill) /\ IndexOf(TIER_ORDER[i]) = i
  BY <1>1, <1>2, <1>4 DEF Found
<1>7. ASSUME NEW tier \in Found(reg, requested, skill)
      PROVE  IndexOf(tier) \in Candidates(reg, requested, skill)
  BY <1>1, <1>3, <1>4 DEF Found
<1> QED  BY <1>5, <1>6, <1>7

LEMMA LeastOfThree ==
    ASSUME NEW S, S \subseteq 1..3, S # {}
    PROVE  \E i \in S : \A j \in S : i <= j
<1>1. CASE 1 \in S
  BY <1>1
<1>2. CASE 1 \notin S /\ 2 \in S
  BY <1>2
<1>3. CASE 1 \notin S /\ 2 \notin S
  <2>1. \A j \in S : j = 3
    BY <1>3
  <2>2. 3 \in S
    BY <2>1
  <2> QED  BY <2>1, <2>2
<1> QED  BY <1>1, <1>2, <1>3

LEMMA WalkFinds ==
    ASSUME NEW reg, NEW requested \in Tier, NEW skill
    PROVE  LET hit == Walk(reg, requested, skill) IN
           /\ hit = NoTier <=> Found(reg, requested, skill) = {}
           /\ hit # NoTier => /\ hit \in Found(reg, requested, skill)
                              /\ \A tier \in Found(reg, requested, skill) :
                                     IndexOf(hit) <= IndexOf(tier)
<1> DEFINE C == Candidates(reg, requested, skill)
           F == Found(reg, requested, skill)
           least == CHOOSE i \in C : \A j \in C : i <= j
<1>1. /\ C \subseteq 1..3
      /\ \A i \in C : TIER_ORDER[i] \in F /\ IndexOf(TIER_ORDER[i]) = i
      /\ \A tier \in F : IndexOf(tier) \in C
  BY CandidatesAreFound
<1>2. F \subseteq Tier
  BY DEF Found
<1>3. CASE C = {}
  <2>1. Walk(reg, requested, skill) = NoTier
    BY <1>3 DEF Walk
  <2> QED  BY <2>1, <1>1, <1>3
<1>4. CASE C # {}
  <2>1. \E i \in C : \A j \in C : i <= j
    BY <1>1, <1>4, LeastOfThree
  <2>2. least \in C /\ \A j \in C : least <= j
    BY <2>1
  <2>3. Walk(reg, requested, skill) = TIER_ORDER[least]
    BY <1>4 DEF Walk
  <2> HIDE DEF least, C, F
  <2>4. TIER_ORDER[least] \in F /\ TIER_ORDER[least] # NoTier
    BY <2>2, <1>1, <1>2, Tiers
  <2>5. \A tier \in F : IndexOf(TIER_ORDER[least]) <= IndexOf(tier)
    BY <2>2, <1>1
  <2> QED  BY <2>3, <2>4, <2>5 DEF F
<1> QED  BY <1>3, <1>4

\* The two sets that DispatchFindsAReader speaks of.
Readers(n, tier, s) ==
    {w \in Worker : /\ registry[n][w].status = "online"
                    /\ tier \in Topics(w)
                    /\ s = NoSkill \/ s \in Skills[w]}

Allowed(n, requested, s) ==
    {tier \in Tier : /\ IndexOf(tier) >= IndexOf(requested)
                     /\ Readers(n, tier, s) # {}}

LEMMA ReaderFound == DispatchFindsAReader
<1> SUFFICES ASSUME NEW n \in serving, NEW requested \in Tier,
                    NEW skill \in Skill \cup {NoSkill}, NEW strict \in BOOLEAN
             PROVE
        LET task == Dispatched(registry[n], requested, skill, strict) IN
        /\ task.tier = NoTier <=>
               /\ Allowed(n, requested, skill) = {}
               /\ strict \/ Allowed(n, requested, NoSkill) = {}
        /\ task.tier # NoTier =>
               /\ task.tier \in Allowed(n, requested, task.skill)
               /\ \A tier \in Allowed(n, requested, task.skill) :
                      IndexOf(task.tier) <= IndexOf(tier)
        /\ task.skill # skill => ~strict /\ Allowed(n, requested, skill) = {}
  BY Zenon DEF DispatchFindsAReader, Readers, Allowed
<1> DEFINE A(s)    == Allowed(n, requested, s)
           hit(s)  == Walk(registry[n], requested, s)
           task    == Dispatched(registry[n], requested, skill, strict)
<1>1. ASSUME NEW s PROVE A(s) = Found(registry[n], requested, s)
  <2>1. \A tier \in Tier : Eligible(registry[n], TIER_RAM_GB[tier], s) = Readers(n, tier, s)
    BY DEF Eligible, Topics, Readers
  <2> QED  BY <2>1 DEF Found, Allowed
<1>2. ASSUME NEW s
      PROVE  /\ hit(s) = NoTier <=> A(s) = {}
             /\ hit(s) # NoTier => /\ hit(s) \in A(s)
                                   /\ \A tier \in A(s) : IndexOf(hit(s)) <= IndexOf(tier)
  BY <1>1, WalkFinds
<1>3. CASE hit(skill) # NoTier \/ strict \/ skill = NoSkill
  <2>1. task.tier = hit(skill) /\ task.skill = skill
    BY <1>3 DEF Dispatched
  <2> HIDE DEF A, hit, task
  <2>2. /\ task.tier = NoTier <=> A(skill) = {} /\ (strict \/ A(NoSkill) = {})
        /\ task.tier # NoTier =>
               /\ task.tier \in A(task.skill)
               /\ \A tier \in A(task.skill) : IndexOf(task.tier) <= IndexOf(tier)
        /\ task.skill # skill => ~strict /\ A(skill) = {}
    BY <2>1, <1>2, <1>3
  <2> QED  BY <2>2 DEF A, task
<1>4. CASE ~(hit(skill) # NoTier \/ strict \/ skill = NoSkill)
  <2>1. task.tier = hit(NoSkill) /\ task.skill = NoSkill
    BY <1>4 DEF Dispatched
  <2> HIDE DEF A, hit, task
  <2>2. /\ task.tier = NoTier <=> A(skill) = {} /\ (strict \/ A(NoSkill) = {})
        /\ task.tier # NoTier =>
               /\ task.tier \in A(task.skill)
               /\ \A tier \in A(task.skill) : IndexOf(task.tier) <= IndexOf(tier)
        /\ task.skill # skill => ~strict /\ A(skill) = {}
    BY <2>1, <1>2, <1>4
  <2> QED  BY <2>2 DEF A, task
<1> QED  BY <1>3, <1>4

\* Whatever the registries hold, dispatch accepts a task exactly if an online
\* worker reads a topic the task may go to, and picks the most capable of them
\* (TaskProducer.publish).
THEOREM DispatchReaches == Spec => []DispatchFindsAReader
BY ReaderFound, PTL

-----------------------------------------------------------------------------
(* Types.                                                                  *)

LEMMA RegistryTypes ==
    ASSUME NEW reg \in [Worker -> NodeInfo]
    PROVE  /\ \A w \in Worker : /\ Register(reg, w) \in [Worker -> NodeInfo]
                                /\ Heartbeat(reg, w) \in [Worker -> NodeInfo]
           /\ CheckTimeouts(reg) \in [Worker -> NodeInfo]
<1>1. Fresh \in NodeInfo
  BY DEF Fresh, NodeInfo, Status
<1>2. ASSUME NEW v \in Worker PROVE CheckTimeouts(reg)[v] \in NodeInfo
  <2>0. reg[v] \in NodeInfo /\ reg[v].sweeps \in 0..SweepLimit
    BY DEF NodeInfo
  <2>1. CASE reg[v].status # "online"
    BY <2>0, <2>1 DEF CheckTimeouts
  <2>2. CASE reg[v].status = "online" /\ reg[v].sweeps < SweepLimit
    <3>1. CheckTimeouts(reg)[v] = [reg[v] EXCEPT !.sweeps = reg[v].sweeps + 1]
      BY <2>2 DEF CheckTimeouts
    <3>2. reg[v].sweeps + 1 \in 0..SweepLimit
      BY <2>0, <2>2
    <3> QED  BY <2>0, <3>1, <3>2 DEF NodeInfo
  <2>3. CASE reg[v].status = "online" /\ ~(reg[v].sweeps < SweepLimit)
    <3>1. CheckTimeouts(reg)[v] = [status |-> "offline", sweeps |-> 0]
      BY <2>3 DEF CheckTimeouts
    <3> QED  BY <3>1 DEF NodeInfo, Status
  <2> QED  BY <2>1, <2>2, <2>3
<1> QED  BY <1>1, <1>2 DEF Register, Heartbeat, CheckTimeouts

LEMMA TypeInit == Init => TypeOK
<1>1. NoRegistry \in [Worker -> NodeInfo]
  BY DEF NoRegistry, Unknown, NodeInfo, Status
<1> QED  BY <1>1 DEF Init, TypeOK

\* The disturbance of a call that does no good leaves registries and budget typed.
LEMMA FruitlessTypes ==
    ASSUME TypeOK, NEW n \in Node, NEW handled \in [Worker -> NodeInfo],
           Fruitless(n, handled)
    PROVE  registry' \in [Node -> [Worker -> NodeInfo]] /\ budget' \in Nat
<1>1. budget' \in Nat
  BY DEF TypeOK, Fruitless, Fails
<1>2. registry' = registry \/ registry' = [registry EXCEPT ![n] = handled]
  BY DEF Fruitless
<1>3. registry \in [Node -> [Worker -> NodeInfo]]
  BY DEF TypeOK
<1>4. registry' \in [Node -> [Worker -> NodeInfo]]
  BY <1>2, <1>3
<1> QED  BY <1>1, <1>4

LEMMA TypeStep == TypeOK /\ [Next]_vars => TypeOK'
<1> SUFFICES ASSUME TypeOK, [Next]_vars PROVE TypeOK'
  OBVIOUS
<1> USE DEF TypeOK, leaders, talk, kafka, SetLeaderUrl, RequestReconnect
<1>0. \A n \in Node : Broker[n] \in Brokers
  BY DEF Brokers
<1>1. ASSUME NEW w \in Worker, Resolve(w) PROVE TypeOK'
  <2>1. url' \in [Worker -> Node]
    BY <1>1 DEF Resolve
  <2>2. budget' \in Nat
    BY <1>1 DEF Resolve, Fails
  <2> QED  BY <1>1, <2>1, <2>2 DEF Resolve, Goto
<1>2. ASSUME NEW w \in Worker, Registered(w) PROVE TypeOK'
  <2>1. Register(registry[url[w]], w) \in [Worker -> NodeInfo]
    BY RegistryTypes
  <2>2. registry' \in [Node -> [Worker -> NodeInfo]]
    BY <1>2, <2>1 DEF Registered
  <2>0. Broker[url[w]] \in Brokers
    BY <1>0
  <2>3. /\ bootstrap' \in [Worker -> Brokers \cup {NoBroker}]
        /\ pending' \in [Worker -> Brokers \cup {NoBroker}]
    <3>1. CASE proc[w] = "starting"
      BY <1>2, <2>0, <3>1 DEF Registered
    <3>2. CASE proc[w] # "starting"
      BY <1>2, <2>0, <3>2 DEF Registered
    <3> QED  BY <3>1, <3>2
  <2>4. failures' \in [Worker -> 0..FailureThreshold]
    BY <1>2 DEF Registered
  <2>5. connected' \in [Worker -> BOOLEAN]
    <3>1. connected' = connected \/ connected' = [connected EXCEPT ![w] = TRUE]
      BY <1>2 DEF Registered
    <3> QED  BY <3>1
  <2> QED  BY <1>2, <2>2, <2>3, <2>4, <2>5 DEF Registered, Goto
<1>3. ASSUME NEW w \in Worker, RegisterHinted(w) PROVE TypeOK'
  BY <1>3, <1>0 DEF RegisterHinted, Goto, Hints
<1>4. ASSUME NEW w \in Worker, RegisterFails(w) PROVE TypeOK'
  <2>1. Register(registry[url[w]], w) \in [Worker -> NodeInfo]
    BY RegistryTypes
  <2>2. registry' \in [Node -> [Worker -> NodeInfo]] /\ budget' \in Nat
    BY <1>4, <2>1, FruitlessTypes DEF RegisterFails
  <2> QED  BY <1>4, <2>2 DEF RegisterFails, Goto, Few
<1>5. ASSUME NEW w \in Worker, Beat(w) PROVE TypeOK'
  <2>1. Heartbeat(registry[url[w]], w) \in [Worker -> NodeInfo]
    BY RegistryTypes
  <2>2. registry' \in [Node -> [Worker -> NodeInfo]]
    BY <1>5, <2>1 DEF Beat
  <2>0. Broker[url[w]] \in Brokers
    BY <1>0
  <2>3. pending' \in [Worker -> Brokers \cup {NoBroker}]
    <3>1. pending' = pending \/ pending' = [pending EXCEPT ![w] = Broker[url[w]]]
      BY <1>5 DEF Beat
    <3> QED  BY <2>0, <3>1
  <2>4. hb' \in [Worker -> {"resolve", "post", "beat"}]
    BY <1>5 DEF Beat, Goto
  <2>5. failures' \in [Worker -> 0..FailureThreshold]
    BY <1>5 DEF Beat
  <2> QED  BY <1>5, <2>2, <2>3, <2>4, <2>5 DEF Beat
<1>6. ASSUME NEW w \in Worker, BeatHinted(w) PROVE TypeOK'
  BY <1>6, <1>0 DEF BeatHinted, Beats, Goto, Hints
<1>7. ASSUME NEW w \in Worker, BeatMissed(w) PROVE TypeOK'
  <2>1. Heartbeat(registry[url[w]], w) \in [Worker -> NodeInfo]
    BY RegistryTypes
  <2>2. registry' \in [Node -> [Worker -> NodeInfo]] /\ budget' \in Nat
    BY <1>7, <2>1, FruitlessTypes DEF BeatMissed, Missed
  <2> QED  BY <1>7, <2>2 DEF BeatMissed, Goto, Few
<1>8. ASSUME NEW w \in Worker, BeatGivesUp(w) PROVE TypeOK'
  <2>1. Heartbeat(registry[url[w]], w) \in [Worker -> NodeInfo]
    BY RegistryTypes
  <2>2. registry' \in [Node -> [Worker -> NodeInfo]] /\ budget' \in Nat
    BY <1>8, <2>1, FruitlessTypes DEF BeatGivesUp, Missed
  <2>3. failures' \in [Worker -> 0..FailureThreshold]
    <3>1. failures' = failures \/ failures' = [failures EXCEPT ![w] = FailureThreshold]
      BY <1>8 DEF BeatGivesUp
    <3>2. FailureThreshold \in 0..FailureThreshold
      BY PoolAssumption
    <3> QED  BY <3>1, <3>2
  <2>5. url' \in [Worker -> Node]
    <3>1. url' = url \/ (discovery \in Node /\ url' = [url EXCEPT ![w] = discovery])
      BY <1>8 DEF BeatGivesUp
    <3> QED  BY <3>1
  <2>4. hb' \in [Worker -> {"resolve", "post", "beat"}]
    BY <1>8 DEF BeatGivesUp, Goto
  <2> QED  BY <1>8, <2>2, <2>3, <2>4, <2>5 DEF BeatGivesUp
<1>9. ASSUME NEW w \in Worker, TakeBroker(w) PROVE TypeOK'
  BY <1>9, <1>0 DEF TakeBroker
<1>10. ASSUME NEW w \in Worker, ClearPending(w) PROVE TypeOK'
  BY <1>10, <1>0 DEF ClearPending
<1>11. ASSUME NEW w \in Worker, Reconnect(w) \/ CloseFails(w) \/ MakeFails(w) PROVE TypeOK'
  <2>1. bootstrap' \in [Worker -> Brokers \cup {NoBroker}]
    BY <1>11 DEF Reconnect, CloseFails, MakeFails
  <2>2. budget' \in Nat
    BY <1>11 DEF Reconnect, CloseFails, MakeFails, Fails
  <2>3. connected' \in [Worker -> BOOLEAN]
    <3>1. \E usable \in BOOLEAN : connected' = [connected EXCEPT ![w] = usable]
      BY <1>11 DEF Reconnect, CloseFails, MakeFails
    <3> QED  BY <3>1
  <2>4. Swapped(w)
    BY <1>11 DEF Reconnect, CloseFails, MakeFails
  <2> QED  BY <2>1, <2>2, <2>3, <2>4 DEF Swapped
<1>26. ASSUME NEW w \in Worker, BeatUnresolved(w) PROVE TypeOK'
  <2>1. Heartbeat(registry[url[w]], w) \in [Worker -> NodeInfo]
    BY RegistryTypes
  <2>2. registry' \in [Node -> [Worker -> NodeInfo]]
    BY <1>26, <2>1 DEF BeatUnresolved
  <2>3. failures' \in [Worker -> 0..FailureThreshold] /\ budget' \in Nat
    <3>1. FailureThreshold \in 0..FailureThreshold
      BY PoolAssumption
    <3> QED  BY <1>26, <3>1 DEF BeatUnresolved, Fails
  <2> QED  BY <1>26, <2>2, <2>3 DEF BeatUnresolved
<1>12. ASSUME NEW w \in Worker, Die(w) PROVE TypeOK'
  BY <1>12, <1>0 DEF Die, Fails, Silence
<1>13. ASSUME NEW w \in Worker, Start(w) PROVE TypeOK'
  BY <1>13, <1>0 DEF Start, Silence
<1>14. ASSUME NEW n \in Node, Sweep(n) PROVE TypeOK'
  <2>1. CheckTimeouts(registry[n]) \in [Worker -> NodeInfo]
    BY RegistryTypes
  <2>2. registry' \in [Node -> [Worker -> NodeInfo]]
    BY <1>14, <2>1 DEF Sweep
  <2>3. silent' \in [Node -> [Worker -> 0..(SweepLimit + 1)]]
    BY <1>14 DEF Sweep
  <2> QED  BY <1>14, <2>2, <2>3 DEF Sweep
<1>15. ASSUME NEW n \in Node, Crash(n) PROVE TypeOK'
  <2>1. NoRegistry \in [Worker -> NodeInfo]
    BY DEF NoRegistry, Unknown, NodeInfo, Status
  <2> QED  BY <1>15, <2>1 DEF Crash, Fails
<1>16. ASSUME NEW n \in Node, Restart(n) PROVE TypeOK'
  BY <1>16 DEF Restart
<1>17. ASSUME NEW n \in Node, Win(n) PROVE TypeOK'
  BY <1>17 DEF Win, Leads
<1>18. ASSUME NEW n \in Node, Rival(n) PROVE TypeOK'
  BY <1>18 DEF Rival, Leads, Fails
<1>19. ASSUME NEW n \in Node, StepDown(n) PROVE TypeOK'
  BY <1>19 DEF StepDown
<1>20. ASSUME NEW n \in Node, LoseQuorum(n) PROVE TypeOK'
  BY <1>20 DEF LoseQuorum, Fails
<1>21. ASSUME NEW n \in Node, Learn(n) PROVE TypeOK'
  BY <1>21 DEF Learn
<1>22. ASSUME NEW n \in Node, Publish(n) PROVE TypeOK'
  BY <1>22 DEF Publish, Publishes
<1>23. ASSUME NEW n \in Node, StrayPublish(n) PROVE TypeOK'
  BY <1>23 DEF StrayPublish, Publishes, Fails
<1>24. CASE Expire
  BY <1>24 DEF Expire, Fails
<1>25. CASE UNCHANGED vars
  BY <1>25 DEF vars
<1> QED
  BY <1>1, <1>2, <1>3, <1>4, <1>5, <1>6, <1>7, <1>8, <1>9, <1>10, <1>11,
     <1>12, <1>13, <1>14, <1>15, <1>16, <1>17, <1>18, <1>19, <1>20, <1>21,
     <1>22, <1>23, <1>24, <1>25, <1>26
     DEF Next, Registration, HeartbeatLoop, ApplyReconnect

\* Every variable keeps its type; in particular no failure count passes the
\* threshold, and no entry of a registry ages beyond the limit.
THEOREM PoolTypeCorrect == Spec => []TypeOK
BY TypeInit, TypeStep, PTL DEF Spec

-----------------------------------------------------------------------------
(* Dead workers.  A node that still calls a dead worker online has swept   *)
(* the entry at least as often as the worker has been silent: what it      *)
(* counts up with every sweep is bounded by the limit, so is the silence.  *)

Aged == \A n \in Node, w \in Worker :
            proc[w] = "down" /\ registry[n][w].status = "online"
                => silent[n][w] <= registry[n][w].sweeps

LEMMA AgedFade == TypeOK /\ Aged => DeadWorkersFade
BY DEF TypeOK, Aged, DeadWorkersFade, NodeInfo

LEMMA AgedInit == Init => Aged
BY DEF Init, Aged, NoRegistry, Unknown

\* A step that keeps the processes and the silence, and lets nobody but a live
\* worker change an entry, keeps the ages.
LEMMA AgedUnlessTouched ==
    ASSUME TypeOK, Aged, proc' = proc, silent' = silent,
           \A n \in Node, w \in Worker :
               proc[w] = "down" => registry'[n][w] = registry[n][w]
    PROVE  Aged'
BY DEF Aged

\* A call of worker w touches the entry of w alone.
LEMMA CallTouches ==
    ASSUME TypeOK, NEW n \in Node, NEW w \in Worker,
           \/ registry' = registry
           \/ registry' = [registry EXCEPT ![n] = Register(registry[n], w)]
           \/ registry' = [registry EXCEPT ![n] = Heartbeat(registry[n], w)]
    PROVE  \A m \in Node, v \in Worker : v # w => registry'[m][v] = registry[m][v]
<1> SUFFICES ASSUME NEW m \in Node, NEW v \in Worker, v # w
             PROVE  registry'[m][v] = registry[m][v]
  OBVIOUS
<1>1. registry \in [Node -> [Worker -> NodeInfo]]
  BY DEF TypeOK
<1>2. /\ Register(registry[n], w)[v] = registry[n][v]
      /\ Heartbeat(registry[n], w)[v] = registry[n][v]
  BY <1>1 DEF Register, Heartbeat
<1>3. registry'[m] = registry[m] \/ (m = n /\ registry'[n][v] = registry[n][v])
  BY <1>1, <1>2
<1> QED  BY <1>3

LEMMA AgedStep == TypeOK /\ Aged /\ [Next]_vars => Aged'
<1> SUFFICES ASSUME TypeOK, Aged, [Next]_vars PROVE Aged'
  OBVIOUS
<1> USE DEF leaders, talk, kafka
<1>1. ASSUME NEW w \in Worker, Registration(w) \/ HeartbeatLoop(w) PROVE Aged'
  <2>1. url[w] \in Node /\ proc[w] # "down"
    BY <1>1 DEF TypeOK, Registration, Resolve, Registered, RegisterHinted,
                RegisterFails, HeartbeatLoop, Beat, BeatHinted, BeatMissed,
                BeatGivesUp, BeatUnresolved, Missed, Beats
  <2>2. \/ registry' = registry
        \/ registry' = [registry EXCEPT ![url[w]] = Register(registry[url[w]], w)]
        \/ registry' = [registry EXCEPT ![url[w]] = Heartbeat(registry[url[w]], w)]
    BY <1>1 DEF Registration, Resolve, Registered, RegisterHinted, RegisterFails,
                HeartbeatLoop, Beat, BeatHinted, BeatMissed, BeatGivesUp,
                BeatUnresolved, Missed, Fruitless
  <2>3. silent' = silent
    BY <1>1 DEF Registration, Resolve, Registered, RegisterHinted, RegisterFails,
                HeartbeatLoop, Beat, BeatHinted, BeatMissed, BeatGivesUp,
                BeatUnresolved
  <2>4. \A v \in Worker : proc'[v] = "down" <=> proc[v] = "down"
    BY <1>1, <2>1 DEF TypeOK, Registration, Resolve, Registered, RegisterHinted,
                RegisterFails, HeartbeatLoop, Beat, BeatHinted, BeatMissed,
                BeatGivesUp, BeatUnresolved
  <2>5. \A n \in Node, v \in Worker : v # w => registry'[n][v] = registry[n][v]
    BY <2>1, <2>2, CallTouches
  <2> QED  BY <2>1, <2>3, <2>4, <2>5 DEF Aged
<1>2. ASSUME NEW w \in Worker, ApplyReconnect(w) PROVE Aged'
  BY <1>2, AgedUnlessTouched
     DEF ApplyReconnect, TakeBroker, ClearPending, Reconnect, CloseFails, MakeFails,
         Swapped
<1>3. ASSUME NEW w \in Worker, Die(w) PROVE Aged'
  <2> SUFFICES ASSUME NEW n \in Node, NEW v \in Worker, proc'[v] = "down",
                      registry'[n][v].status = "online"
               PROVE  silent'[n][v] <= registry'[n][v].sweeps
    BY DEF Aged
  <2>1. registry' = registry /\ registry[n][v].sweeps \in Nat
    BY <1>3 DEF Die, TypeOK, NodeInfo
  <2>2. CASE v = w
    <3>1. silent'[n][w] = 0
      BY <1>3 DEF Die, Silence, TypeOK
    <3> QED  BY <2>1, <2>2, <3>1
  <2>3. CASE v # w
    <3>1. silent'[n][v] = silent[n][v] /\ proc[v] = "down"
      BY <1>3, <2>3 DEF Die, Silence, TypeOK
    <3> QED  BY <2>1, <3>1 DEF Aged
  <2> QED  BY <2>2, <2>3
<1>4. ASSUME NEW w \in Worker, Start(w) PROVE Aged'
  <2> SUFFICES ASSUME NEW n \in Node, NEW v \in Worker, proc'[v] = "down",
                      registry'[n][v].status = "online"
               PROVE  silent'[n][v] <= registry'[n][v].sweeps
    BY DEF Aged
  <2>1. v # w /\ registry' = registry
    BY <1>4 DEF Start, TypeOK
  <2>2. silent'[n][v] = silent[n][v] /\ proc[v] = "down"
    BY <1>4, <2>1 DEF Start, Silence, TypeOK
  <2> QED  BY <2>1, <2>2 DEF Aged
<1>5. ASSUME NEW m \in Node, Sweep(m) PROVE Aged'
  <2> SUFFICES ASSUME NEW n \in Node, NEW v \in Worker, proc'[v] = "down",
                      registry'[n][v].status = "online"
               PROVE  silent'[n][v] <= registry'[n][v].sweeps
    BY DEF Aged
  <2>0. proc[v] = "down"
    BY <1>5 DEF Sweep
  <2>1. CASE n # m
    <3>1. registry'[n] = registry[n] /\ silent'[n] = silent[n]
      BY <1>5, <2>1 DEF Sweep, TypeOK
    <3> QED  BY <2>0, <3>1 DEF Aged
  <2>2. CASE n = m
    <3>1. registry'[n][v] = CheckTimeouts(registry[n])[v]
      BY <1>5, <2>2 DEF Sweep, TypeOK
    <3>2. registry[n][v].status = "online" /\ registry[n][v].sweeps < SweepLimit
      BY <3>1 DEF CheckTimeouts
    <3>3. registry[n][v] \in NodeInfo /\ silent[n][v] \in Nat
      BY DEF TypeOK
    <3>4. registry'[n][v].sweeps = registry[n][v].sweeps + 1
      BY <3>1, <3>2, <3>3 DEF CheckTimeouts, NodeInfo
    <3>5. silent[n][v] <= registry[n][v].sweeps
      BY <2>0, <3>2 DEF Aged
    <3>6. silent'[n][v] <= silent[n][v] + 1
      <4>1. silent'[n][v] = IF proc[v] = "down" /\ silent[n][v] <= SweepLimit
                            THEN silent[n][v] + 1 ELSE silent[n][v]
        BY <1>5, <2>2 DEF Sweep, TypeOK
      <4> QED  BY <3>3, <4>1
    <3>7. registry[n][v].sweeps \in Nat /\ silent'[n][v] \in Nat
      <4>1. silent' \in [Node -> [Worker -> 0..(SweepLimit + 1)]]
        BY TypeStep DEF TypeOK
      <4> QED  BY <3>3, <4>1 DEF NodeInfo
    <3> QED  BY <3>3, <3>4, <3>5, <3>6, <3>7
  <2> QED  BY <2>1, <2>2
<1>6. ASSUME NEW m \in Node, Crash(m) PROVE Aged'
  <2> SUFFICES ASSUME NEW n \in Node, NEW v \in Worker, proc'[v] = "down",
                      registry'[n][v].status = "online"
               PROVE  silent'[n][v] <= registry'[n][v].sweeps
    BY DEF Aged
  <2>1. n # m
    BY <1>6 DEF Crash, TypeOK, NoRegistry, Unknown
  <2>2. registry'[n] = registry[n] /\ silent' = silent /\ proc' = proc
    BY <1>6, <2>1 DEF Crash, TypeOK
  <2> QED  BY <2>2 DEF Aged
<1>7. ASSUME NEW n \in Node,
             \/ Restart(n) \/ Win(n) \/ Rival(n) \/ StepDown(n) \/ LoseQuorum(n)
             \/ Learn(n) \/ Publish(n) \/ StrayPublish(n)
      PROVE  Aged'
  BY <1>7, AgedUnlessTouched
     DEF Restart, Win, Rival, Leads, StepDown, LoseQuorum, Learn, Publish,
         StrayPublish, Publishes
<1>8. CASE Expire
  BY <1>8, AgedUnlessTouched DEF Expire
<1>9. CASE UNCHANGED vars
  BY <1>9, AgedUnlessTouched DEF vars
<1> QED  BY <1>1, <1>2, <1>3, <1>4, <1>5, <1>6, <1>7, <1>8, <1>9 DEF Next

\* However a worker died and whichever nodes it registered with, check_timeouts
\* takes it out of every registry within the sweeps of the time-out.
THEOREM DeadWorkersLeave == Spec => []DeadWorkersFade
<1>1. Init => TypeOK /\ Aged
  BY TypeInit, AgedInit
<1>2. TypeOK /\ Aged /\ [Next]_vars => (TypeOK /\ Aged)'
  BY TypeStep, AgedStep
<1>3. TypeOK /\ Aged => DeadWorkersFade
  BY AgedFade
<1> QED  BY <1>1, <1>2, <1>3, PTL DEF Spec

-----------------------------------------------------------------------------
(* The pool implements PoolMembership.  The variables of that module are   *)
(* running, silence and offered, as defined here, and bootstrap.           *)

running == {w \in Worker : proc[w] # "down"}

Row(reg) == [w \in Worker |-> Unheard(reg[w])]
silence  == [n \in Node |-> Row(registry[n])]

Held(w) == {pending[w], taken[w]} \ {NoBroker}
offered == [w \in Worker |-> Held(w)]

membership == <<running, silence, offered, bootstrap>>

\* The main thread holds a broker exactly from reading the request to the end of
\* the swap, and a process that has not registered yet was named none.
HandOver ==
    \A w \in Worker :
        /\ taken[w] = NoBroker <=> main[w] = "poll"
        /\ proc[w] # "up" => /\ main[w] = "poll"
                             /\ pending[w] = NoBroker /\ bootstrap[w] = NoBroker

LEMMA HandOverInit == Init => HandOver
BY ZenonT(60) DEF Init, HandOver

LEMMA HandOverStep == TypeOK /\ HandOver /\ [Next]_vars => HandOver'
<1> SUFFICES ASSUME TypeOK, HandOver, [Next]_vars, NEW v \in Worker
             PROVE  /\ taken'[v] = NoBroker <=> main'[v] = "poll"
                    /\ proc'[v] # "up" => /\ main'[v] = "poll"
                                          /\ pending'[v] = NoBroker
                                          /\ bootstrap'[v] = NoBroker
  BY DEF HandOver
<1> USE DEF leaders, talk, kafka, RequestReconnect
<1>0. /\ taken[v] = NoBroker <=> main[v] = "poll"
      /\ proc[v] # "up" => /\ main[v] = "poll"
                           /\ pending[v] = NoBroker /\ bootstrap[v] = NoBroker
  BY DEF HandOver
<1>a. /\ proc \in [Worker -> {"down", "starting", "up"}]
      /\ main \in [Worker -> {"poll", "taken", "closing"}]
      /\ taken \in [Worker -> Brokers \cup {NoBroker}]
      /\ pending \in [Worker -> Brokers \cup {NoBroker}]
      /\ bootstrap \in [Worker -> Brokers \cup {NoBroker}]
  BY DEF TypeOK
<1>1. ASSUME NEW w \in Worker, Resolve(w) \/ RegisterHinted(w) \/ RegisterFails(w)
      PROVE  UNCHANGED <<proc, main, taken, pending, bootstrap>>
  BY <1>1 DEF Resolve, RegisterHinted, RegisterFails
<1>2. ASSUME NEW w \in Worker, Registered(w)
      PROVE  /\ proc' = [proc EXCEPT ![w] = "up"] /\ UNCHANGED <<main, taken>>
             /\ \A u \in Worker \ {w} : pending'[u] = pending[u] /\ bootstrap'[u] = bootstrap[u]
  <2>1. CASE proc[w] = "starting"
    BY <1>2, <1>a, <2>1 DEF Registered
  <2>2. CASE proc[w] # "starting"
    BY <1>2, <1>a, <2>2 DEF Registered
  <2> QED  BY <2>1, <2>2
<1>3. ASSUME NEW w \in Worker, Beat(w)
      PROVE  /\ proc[w] = "up" /\ UNCHANGED <<proc, main, taken, bootstrap>>
             /\ \A u \in Worker \ {w} : pending'[u] = pending[u]
  BY <1>3, <1>a DEF Beat, Beats
<1>4. ASSUME NEW w \in Worker,
             BeatHinted(w) \/ BeatMissed(w) \/ BeatGivesUp(w) \/ BeatUnresolved(w)
      PROVE  UNCHANGED <<proc, main, taken, pending, bootstrap>>
  BY <1>4 DEF BeatHinted, BeatMissed, BeatGivesUp, BeatUnresolved
<1>5. ASSUME NEW w \in Worker, TakeBroker(w)
      PROVE  /\ proc[w] = "up" /\ pending[w] # NoBroker
             /\ main' = [main EXCEPT ![w] = "taken"]
             /\ taken' = [taken EXCEPT ![w] = pending[w]]
             /\ UNCHANGED <<proc, pending, bootstrap>>
  BY <1>5 DEF TakeBroker
<1>6. ASSUME NEW w \in Worker, ClearPending(w)
      PROVE  /\ main[w] = "taken" /\ main' = [main EXCEPT ![w] = "closing"]
             /\ pending' = [pending EXCEPT ![w] = NoBroker]
             /\ UNCHANGED <<proc, taken, bootstrap>>
  BY <1>6 DEF ClearPending
<1>7. ASSUME NEW w \in Worker, Reconnect(w) \/ CloseFails(w) \/ MakeFails(w)
      PROVE  /\ main[w] = "closing" /\ main' = [main EXCEPT ![w] = "poll"]
             /\ taken' = [taken EXCEPT ![w] = NoBroker]
             /\ \A u \in Worker \ {w} : bootstrap'[u] = bootstrap[u]
             /\ UNCHANGED <<proc, pending>>
  <2>1. Swapped(w)
    BY <1>7 DEF Reconnect, CloseFails, MakeFails
  <2>2. bootstrap' = bootstrap \/ bootstrap' = [bootstrap EXCEPT ![w] = taken[w]]
    BY <1>7 DEF Reconnect, CloseFails, MakeFails
  <2> QED  BY <2>1, <2>2, <1>a DEF Swapped
<1>8. ASSUME NEW w \in Worker, Die(w)
      PROVE  /\ proc' = [proc EXCEPT ![w] = "down"]
             /\ main' = [main EXCEPT ![w] = "poll"]
             /\ taken' = [taken EXCEPT ![w] = NoBroker]
             /\ pending' = [pending EXCEPT ![w] = NoBroker]
             /\ bootstrap' = [bootstrap EXCEPT ![w] = NoBroker]
  BY <1>8 DEF Die
<1>9. ASSUME NEW w \in Worker, Start(w)
      PROVE  /\ proc[w] = "down" /\ proc' = [proc EXCEPT ![w] = "starting"]
             /\ UNCHANGED <<main, taken, pending, bootstrap>>
  BY <1>9 DEF Start
<1>10. ASSUME NEW n \in Node,
              \/ Sweep(n) \/ Crash(n) \/ Restart(n) \/ Win(n) \/ Rival(n) \/ StepDown(n)
              \/ LoseQuorum(n) \/ Learn(n) \/ Publish(n) \/ StrayPublish(n)
       PROVE  UNCHANGED <<proc, main, taken, pending, bootstrap>>
  BY <1>10 DEF Sweep, Crash, Restart, Win, Rival, Leads, StepDown, LoseQuorum, Learn,
               Publish, StrayPublish, Publishes
<1>11. Expire \/ UNCHANGED vars => UNCHANGED <<proc, main, taken, pending, bootstrap>>
  BY DEF Expire, vars
<1>12. CASE UNCHANGED <<proc, main, taken, pending, bootstrap>>
  BY <1>0, <1>12
<1>13. ASSUME NEW w \in Worker, ApplyReconnect(w) \/ Die(w) \/ Start(w)
       PROVE  /\ taken'[v] = NoBroker <=> main'[v] = "poll"
              /\ proc'[v] # "up" => /\ main'[v] = "poll"
                                    /\ pending'[v] = NoBroker /\ bootstrap'[v] = NoBroker
  <2>1. CASE TakeBroker(w)
    BY <1>0, <1>a, <2>1, <1>5
  <2>2. CASE ClearPending(w)
    BY <1>0, <1>a, <2>2, <1>6
  <2>3. CASE Reconnect(w) \/ CloseFails(w) \/ MakeFails(w)
    BY <1>0, <1>a, <2>3, <1>7
  <2>4. CASE Die(w)
    BY <1>0, <1>a, <2>4, <1>8
  <2>5. CASE Start(w)
    BY <1>0, <1>a, <2>5, <1>9
  <2> QED  BY <1>13, <2>1, <2>2, <2>3, <2>4, <2>5 DEF ApplyReconnect
<1>14. ASSUME NEW w \in Worker, Registered(w)
       PROVE  /\ taken'[v] = NoBroker <=> main'[v] = "poll"
              /\ proc'[v] # "up" => /\ main'[v] = "poll"
                                    /\ pending'[v] = NoBroker /\ bootstrap'[v] = NoBroker
  BY <1>0, <1>a, <1>2, <1>14
<1>15. ASSUME NEW w \in Worker, Beat(w)
       PROVE  /\ taken'[v] = NoBroker <=> main'[v] = "poll"
              /\ proc'[v] # "up" => /\ main'[v] = "poll"
                                    /\ pending'[v] = NoBroker /\ bootstrap'[v] = NoBroker
  BY <1>0, <1>a, <1>3, <1>15
<1> QED
  BY <1>1, <1>4, <1>10, <1>11, <1>12, <1>13, <1>14, <1>15
     DEF Next, Registration, HeartbeatLoop

-----------------------------------------------------------------------------
(* What the calls of a worker and the handlers of a node do to a Row.      *)

LEMMA RowsOf ==
    ASSUME NEW reg \in [Worker -> NodeInfo], NEW w \in Worker
    PROVE  /\ Row(Register(reg, w)) = [Row(reg) EXCEPT ![w] = 0]
           /\ IsKnown(reg, w) => Row(Heartbeat(reg, w)) = [Row(reg) EXCEPT ![w] = 0]
           /\ ~IsKnown(reg, w) => Heartbeat(reg, w) = reg
<1>1. Unheard(Fresh) = 0
  BY DEF Unheard, Fresh
<1>2. Row(Register(reg, w)) = [Row(reg) EXCEPT ![w] = 0]
  BY <1>1 DEF Row, Register
<1>3. IsKnown(reg, w) => Heartbeat(reg, w) = Register(reg, w)
  BY DEF Heartbeat, Register
<1>4. ~IsKnown(reg, w) => Heartbeat(reg, w) = reg
  BY DEF Heartbeat
<1> QED  BY <1>2, <1>3, <1>4

LEMMA RowSwept ==
    ASSUME NEW reg \in [Worker -> NodeInfo]
    PROVE  Row(CheckTimeouts(reg))
             = [w \in Worker |-> IF Row(reg)[w] = Membership!Gone THEN Membership!Gone
                                 ELSE Row(reg)[w] + 1]
<1> SUFFICES ASSUME NEW w \in Worker
             PROVE  Unheard(CheckTimeouts(reg)[w])
                      = IF Unheard(reg[w]) = SweepLimit + 1 THEN SweepLimit + 1
                        ELSE Unheard(reg[w]) + 1
  BY DEF Row, Membership!Gone
<1>1. reg[w] \in NodeInfo /\ reg[w].sweeps \in 0..SweepLimit
  BY DEF NodeInfo
<1>2. CASE reg[w].status # "online"
  <2>1. CheckTimeouts(reg)[w] = reg[w]
    BY <1>2 DEF CheckTimeouts
  <2> QED  BY <1>2, <2>1 DEF Unheard
<1>3. CASE reg[w].status = "online" /\ reg[w].sweeps < SweepLimit
  <2>1. CheckTimeouts(reg)[w] = [reg[w] EXCEPT !.sweeps = reg[w].sweeps + 1]
    BY <1>3 DEF CheckTimeouts
  <2>2. /\ CheckTimeouts(reg)[w].status = "online"
        /\ CheckTimeouts(reg)[w].sweeps = reg[w].sweeps + 1
    BY <1>1, <1>3, <2>1 DEF NodeInfo
  <2> QED  BY <1>1, <1>3, <2>2 DEF Unheard
<1>4. CASE reg[w].status = "online" /\ ~(reg[w].sweeps < SweepLimit)
  <2>1. CheckTimeouts(reg)[w].status = "offline" /\ reg[w].sweeps = SweepLimit
    BY <1>1, <1>4 DEF CheckTimeouts
  <2> QED  BY <1>1, <1>4, <2>1 DEF Unheard
<1> QED  BY <1>2, <1>3, <1>4

LEMMA RegistryChanged ==
    ASSUME TypeOK, NEW n \in Node, NEW reg, registry' = [registry EXCEPT ![n] = reg]
    PROVE  silence' = [silence EXCEPT ![n] = Row(reg)]
<1>1. registry \in [Node -> [Worker -> NodeInfo]]
  BY DEF TypeOK
<1> QED  BY <1>1 DEF silence

LEMMA SameRegistry == registry' = registry => silence' = silence
BY DEF silence, Row

LEMMA SameOffer == pending' = pending /\ taken' = taken => offered' = offered
BY DEF offered, Held

\* A call that reached the handler of a worker that the node knows, or came to
\* know, ends the silence between them.
LEMMA Heard ==
    ASSUME TypeOK, NEW n \in Node, NEW w \in Worker,
           \/ registry' = [registry EXCEPT ![n] = Register(registry[n], w)]
           \/ /\ IsKnown(registry[n], w)
              /\ registry' = [registry EXCEPT ![n] = Heartbeat(registry[n], w)]
    PROVE  silence' = [silence EXCEPT ![n][w] = 0]
<1>1. registry[n] \in [Worker -> NodeInfo]
  BY DEF TypeOK
<1>2. silence' = [silence EXCEPT ![n] = [Row(registry[n]) EXCEPT ![w] = 0]]
  BY <1>1, RowsOf, RegistryChanged
<1>3. silence[n] = Row(registry[n])
  BY DEF silence
<1> QED  BY <1>2, <1>3

LEMMA NotKnown ==
    ASSUME TypeOK, NEW n \in Node, NEW w \in Worker, ~IsKnown(registry[n], w),
           registry' = [registry EXCEPT ![n] = Heartbeat(registry[n], w)]
    PROVE  silence' = silence
<1>1. registry[n] \in [Worker -> NodeInfo] /\ registry \in [Node -> [Worker -> NodeInfo]]
  BY DEF TypeOK
<1>2. registry' = registry
  BY <1>1, RowsOf
<1> QED  BY <1>2, SameRegistry

\* Contact, in the words of this module: the request pending for the main thread
\* is the one there was, or the broker of the node.
LEMMA InContact ==
    ASSUME TypeOK, NEW n \in Node, NEW w \in Worker, w \in running,
           running' = running, silence' = [silence EXCEPT ![n][w] = 0],
           \/ pending' = pending
           \/ pending' = [pending EXCEPT ![w] = Broker[n]],
           taken' = taken, bootstrap' = bootstrap
    PROVE  Membership!Contact(n, w)
<1>1. pending \in [Worker -> Brokers \cup {NoBroker}]
  BY DEF TypeOK
<1>2. PICK still \in SUBSET (Held(w) \cup {Broker[n]}) : still = Held(w)'
  <2>1. Held(w)' \subseteq Held(w) \cup {Broker[n]}
    BY <1>1 DEF Held
  <2> QED  BY <2>1
<1>3. \A v \in Worker \ {w} : Held(v)' = Held(v)
  BY <1>1 DEF Held
<1>4. offered' = [offered EXCEPT ![w] = still]
  <2>1. \A v \in Worker : Held(v)' = IF v = w THEN still ELSE Held(v)
    BY <1>2, <1>3
  <2> HIDE DEF Held
  <2> QED  BY <2>1 DEF offered
<1>5. offered[w] = Held(w)
  BY DEF offered
<1>6. \E s \in SUBSET (offered[w] \cup {Broker[n]}) : offered' = [offered EXCEPT ![w] = s]
  BY <1>4, <1>5
<1> QED
  BY <1>6 DEF Membership!Contact, running, silence, offered, Row, Held

-----------------------------------------------------------------------------
(* Every step of the pool is a step of PoolMembership or changes nothing   *)
(* of what it speaks about.                                                *)

LEMMA FruitlessContact ==
    ASSUME TypeOK, NEW w \in Worker, w \in running,
           \/ registry' = registry
           \/ registry' = [registry EXCEPT ![url[w]] = Register(registry[url[w]], w)]
           \/ registry' = [registry EXCEPT ![url[w]] = Heartbeat(registry[url[w]], w)],
           UNCHANGED <<proc, main, taken, pending, bootstrap>>
    PROVE  Membership!Contact(url[w], w) \/ UNCHANGED membership
<1>0. url[w] \in Node /\ running' = running /\ offered' = offered
  BY SameOffer DEF TypeOK, running
<1>1. CASE registry' = registry
  BY <1>0, <1>1, SameRegistry DEF membership
<1>2. CASE \/ registry' = [registry EXCEPT ![url[w]] = Register(registry[url[w]], w)]
           \/ /\ IsKnown(registry[url[w]], w)
              /\ registry' = [registry EXCEPT ![url[w]] = Heartbeat(registry[url[w]], w)]
  <2>1. silence' = [silence EXCEPT ![url[w]][w] = 0]
    BY <1>0, <1>2, Heard
  <2> QED  BY <1>0, <2>1, InContact
<1>3. CASE /\ ~IsKnown(registry[url[w]], w)
           /\ registry' = [registry EXCEPT ![url[w]] = Heartbeat(registry[url[w]], w)]
  <2>1. silence' = silence
    BY <1>0, <1>3, NotKnown
  <2> QED  BY <1>0, <2>1 DEF membership
<1> QED  BY <1>1, <1>2, <1>3

LEMMA RegistrationMaps ==
    ASSUME TypeOK, HandOver, NEW w \in Worker, Registration(w)
    PROVE  Membership!Next \/ UNCHANGED membership
<1> USE DEF leaders, talk, kafka
<1>1. CASE Resolve(w) \/ RegisterHinted(w)
  <2>1. UNCHANGED <<proc, registry, taken, pending, bootstrap>>
    BY <1>1 DEF Resolve, RegisterHinted
  <2>2. running' = running
    BY <2>1 DEF running
  <2> QED  BY <2>1, <2>2, SameRegistry, SameOffer DEF membership
<1>2. CASE RegisterFails(w)
  <2>1. w \in running /\ UNCHANGED <<proc, main, taken, pending, bootstrap>>
    BY <1>2 DEF RegisterFails, running
  <2>2. Membership!Contact(url[w], w) \/ UNCHANGED membership
    BY <1>2, <2>1, FruitlessContact DEF RegisterFails, Fruitless
  <2>3. url[w] \in Node
    BY DEF TypeOK
  <2> QED  BY <2>2, <2>3 DEF Membership!Next
<1>3. CASE Registered(w)
  <2>0. url[w] \in Node /\ proc \in [Worker -> {"down", "starting", "up"}]
    BY DEF TypeOK
  <2>1. silence' = [silence EXCEPT ![url[w]][w] = 0]
    BY <1>3, <2>0, Heard DEF Registered
  <2>2. w \in running /\ running' = running
    <3>1. proc[w] # "down" /\ proc' = [proc EXCEPT ![w] = "up"]
      BY <1>3 DEF Registered
    <3> QED  BY <2>0, <3>1 DEF running
  <2>3. CASE proc[w] = "starting"
    <3>1. bootstrap[w] = NoBroker
      BY <2>3 DEF HandOver
    <3>2. bootstrap' = [bootstrap EXCEPT ![w] = Broker[url[w]]]
      BY <1>3, <2>3 DEF Registered
    <3>3. offered' = offered
      BY <1>3, <2>3, SameOffer DEF Registered
    <3>4. Membership!Enrol(url[w], w)
      BY <2>1, <2>2, <3>1, <3>2, <3>3
         DEF Membership!Enrol, running, silence, offered, Row, Held
    <3> QED  BY <2>0, <3>4 DEF Membership!Next
  <2>4. CASE proc[w] # "starting"
    <3>1. pending' = [pending EXCEPT ![w] = Broker[url[w]]] /\ UNCHANGED <<taken, bootstrap>>
      BY <1>3, <2>4 DEF Registered, RequestReconnect
    <3>2. Membership!Contact(url[w], w)
      BY <2>0, <2>1, <2>2, <3>1, InContact
    <3> QED  BY <2>0, <3>2 DEF Membership!Next
  <2> QED  BY <2>3, <2>4
<1> QED
  BY <1>1, <1>2, <1>3 DEF Registration

LEMMA HeartbeatMaps ==
    ASSUME TypeOK, NEW w \in Worker, HeartbeatLoop(w)
    PROVE  Membership!Next \/ UNCHANGED membership
<1> USE DEF leaders, talk, kafka
<1>0. /\ url[w] \in Node /\ proc' = proc /\ w \in running
      /\ taken' = taken /\ bootstrap' = bootstrap
  BY DEF TypeOK, HeartbeatLoop, Beat, BeatHinted, BeatMissed, BeatGivesUp,
         BeatUnresolved, Missed, Beats, running
<1>1. running' = running
  BY <1>0 DEF running
<1>2. CASE BeatHinted(w)
  <2>1. registry' = registry /\ pending' = pending
    BY <1>2 DEF BeatHinted
  <2> QED  BY <1>0, <1>1, <2>1, SameRegistry, SameOffer DEF membership
<1>3. CASE BeatMissed(w) \/ BeatGivesUp(w) \/ BeatUnresolved(w)
  <2>1. /\ \/ registry' = registry
           \/ registry' = [registry EXCEPT ![url[w]] = Heartbeat(registry[url[w]], w)]
        /\ UNCHANGED <<proc, main, taken, pending, bootstrap>>
    BY <1>3 DEF BeatMissed, BeatGivesUp, BeatUnresolved, Missed, Fruitless
  <2>2. Membership!Contact(url[w], w) \/ UNCHANGED membership
    BY <1>0, <2>1, FruitlessContact
  <2> QED  BY <1>0, <2>2 DEF Membership!Next
<1>4. CASE Beat(w)
  <2>1. registry' = [registry EXCEPT ![url[w]] = Heartbeat(registry[url[w]], w)]
    BY <1>4 DEF Beat
  <2>2. CASE IsKnown(registry[url[w]], w)
    <3>1. silence' = [silence EXCEPT ![url[w]][w] = 0]
      BY <1>0, <2>1, <2>2, Heard
    <3>2. pending' = pending \/ pending' = [pending EXCEPT ![w] = Broker[url[w]]]
      BY <1>4 DEF Beat, RequestReconnect
    <3>3. Membership!Contact(url[w], w)
      BY <1>0, <1>1, <3>1, <3>2, InContact
    <3> QED  BY <1>0, <3>3 DEF Membership!Next
  <2>3. CASE ~IsKnown(registry[url[w]], w)
    <3>1. silence' = silence
      BY <1>0, <2>1, <2>3, NotKnown
    <3>2. offered' = offered
      BY <1>0, <1>4, <2>3, SameOffer DEF Beat
    <3> QED  BY <1>0, <1>1, <3>1, <3>2 DEF membership
  <2> QED  BY <2>2, <2>3
<1> QED
  BY <1>2, <1>3, <1>4 DEF HeartbeatLoop

\* The main thread shrinks what is on offer to w, and changes to it or does not.
LEMMA Shrinks ==
    ASSUME TypeOK, NEW w \in Worker, Held(w)' \subseteq Held(w),
           \A v \in Worker \ {w} : Held(v)' = Held(v)
    PROVE  \E still \in SUBSET offered[w] : offered' = [offered EXCEPT ![w] = still]
<1>1. PICK still \in SUBSET Held(w) : still = Held(w)'
  OBVIOUS
<1>2. \A v \in Worker : Held(v)' = IF v = w THEN still ELSE Held(v)
  BY <1>1
<1> HIDE DEF Held
<1>3. offered' = [offered EXCEPT ![w] = still] /\ offered[w] = Held(w)
  BY <1>2 DEF offered
<1> QED  BY <1>3

LEMMA ApplyReconnectMaps ==
    ASSUME TypeOK, HandOver, NEW w \in Worker, ApplyReconnect(w)
    PROVE  Membership!Next \/ UNCHANGED membership
<1> USE DEF leaders, talk, kafka
<1>0. /\ pending \in [Worker -> Brokers \cup {NoBroker}]
      /\ taken \in [Worker -> Brokers \cup {NoBroker}]
      /\ bootstrap \in [Worker -> Brokers \cup {NoBroker}]
  BY DEF TypeOK
<1>1. UNCHANGED <<proc, registry>>
  BY DEF ApplyReconnect, TakeBroker, ClearPending, Reconnect, CloseFails, MakeFails,
         Swapped
<1>2. running' = running /\ silence' = silence
  BY <1>1, SameRegistry DEF running
<1>3. /\ Held(w)' \subseteq Held(w)
      /\ \A v \in Worker \ {w} : Held(v)' = Held(v)
  BY <1>0 DEF ApplyReconnect, TakeBroker, ClearPending, Reconnect, CloseFails, MakeFails,
              Swapped, Held
<1>4. \E still \in SUBSET offered[w] : offered' = [offered EXCEPT ![w] = still]
  BY <1>3, Shrinks
<1>5. CASE bootstrap' = bootstrap
  <2>1. Membership!Decline(w)
    BY <1>2, <1>4, <1>5 DEF Membership!Decline, running, silence, offered, Row, Held
  <2> QED  BY <2>1 DEF Membership!Next
<1>6. CASE bootstrap' # bootstrap
  <2>1. main[w] = "closing" /\ bootstrap' = [bootstrap EXCEPT ![w] = taken[w]]
    BY <1>6 DEF ApplyReconnect, TakeBroker, ClearPending, Reconnect, CloseFails, MakeFails,
                Swapped
  <2>2. taken[w] \in offered[w]
    BY <2>1 DEF HandOver, offered, Held
  <2>3. \E broker \in offered[w] : bootstrap' = [bootstrap EXCEPT ![w] = broker]
    BY <2>1, <2>2
  <2>4. Membership!Change(w)
    BY <1>2, <1>4, <2>3 DEF Membership!Change, running, silence, offered, Row, Held
  <2> QED  BY <2>4 DEF Membership!Next
<1> QED  BY <1>5, <1>6

LEMMA ProcessesMap ==
    ASSUME TypeOK, HandOver, NEW w \in Worker, Die(w) \/ Start(w)
    PROVE  Membership!Next
<1> USE DEF leaders, talk, kafka
<1>0. /\ proc \in [Worker -> {"down", "starting", "up"}]
      /\ pending \in [Worker -> Brokers \cup {NoBroker}]
      /\ taken \in [Worker -> Brokers \cup {NoBroker}]
  BY DEF TypeOK
<1>1. silence' = silence
  BY SameRegistry DEF Die, Start
<1>2. CASE Die(w)
  <2>1. w \in running /\ running' = running \ {w}
    BY <1>0, <1>2 DEF Die, running
  <2>2. /\ pending' = [pending EXCEPT ![w] = NoBroker]
        /\ taken' = [taken EXCEPT ![w] = NoBroker]
        /\ bootstrap' = [bootstrap EXCEPT ![w] = NoBroker]
    BY <1>2 DEF Die
  <2>3. \A v \in Worker : Held(v)' = IF v = w THEN {} ELSE Held(v)
    BY <1>0, <2>2 DEF Held
  <2>4. offered' = [offered EXCEPT ![w] = {}]
    <3> HIDE DEF Held
    <3> QED  BY <2>3 DEF offered
  <2>5. Membership!Stop(w)
    BY <1>1, <2>1, <2>2, <2>4 DEF Membership!Stop, running, silence, offered, Row, Held
  <2> QED  BY <2>5 DEF Membership!Next
<1>3. CASE Start(w)
  <2>1. w \notin running /\ running' = running \cup {w}
    BY <1>0, <1>3 DEF Start, running
  <2>2. offered' = offered /\ bootstrap' = bootstrap
    BY <1>3, SameOffer DEF Start
  <2>3. Membership!Launch(w)
    BY <1>1, <2>1, <2>2 DEF Membership!Launch, running, silence, offered, Row, Held
  <2> QED  BY <2>3 DEF Membership!Next
<1> QED  BY <1>2, <1>3

LEMMA NodesMap ==
    ASSUME TypeOK, NEW n \in Node, Sweep(n) \/ Crash(n)
    PROVE  Membership!Next
<1> USE DEF leaders, talk, kafka
<1>1. UNCHANGED <<proc, taken, pending, bootstrap>>
  BY DEF Sweep, Crash
<1>2. running' = running /\ offered' = offered
  BY <1>1, SameOffer DEF running
<1>3. registry[n] \in [Worker -> NodeInfo] /\ silence[n] = Row(registry[n])
  BY DEF TypeOK, silence
<1>4. CASE Sweep(n)
  <2>1. silence' = [silence EXCEPT ![n] = Row(CheckTimeouts(registry[n]))]
    BY <1>4, RegistryChanged DEF Sweep
  <2>2. Row(CheckTimeouts(registry[n]))
          = [w \in Worker |-> IF silence[n][w] = Membership!Gone THEN Membership!Gone
                              ELSE silence[n][w] + 1]
    BY <1>3, RowSwept
  <2>3. Membership!Sweep(n)
    BY <1>1, <1>2, <2>1, <2>2 DEF Membership!Sweep, running, silence, offered, Row, Held
  <2> QED  BY <2>3 DEF Membership!Next
<1>5. CASE Crash(n)
  <2>1. silence' = [silence EXCEPT ![n] = Row(NoRegistry)]
    BY <1>5, RegistryChanged DEF Crash
  <2>2. Row(NoRegistry) = [w \in Worker |-> Membership!Gone]
    BY DEF Row, NoRegistry, Unknown, Unheard, Membership!Gone
  <2>3. Membership!Forget(n)
    BY <1>1, <1>2, <2>1, <2>2 DEF Membership!Forget, running, silence, offered, Row, Held
  <2> QED  BY <2>3 DEF Membership!Next
<1> QED  BY <1>4, <1>5

LEMMA StepIsMembershipStep ==
    TypeOK /\ HandOver /\ [Next]_vars => [Membership!Next]_membership
<1> SUFFICES ASSUME TypeOK, HandOver, [Next]_vars
             PROVE  Membership!Next \/ UNCHANGED membership
  OBVIOUS
<1> USE DEF leaders, talk, kafka
<1>1. ASSUME NEW w \in Worker, Registration(w) PROVE Membership!Next \/ UNCHANGED membership
  BY <1>1, RegistrationMaps
<1>2. ASSUME NEW w \in Worker, HeartbeatLoop(w) PROVE Membership!Next \/ UNCHANGED membership
  BY <1>2, HeartbeatMaps
<1>3. ASSUME NEW w \in Worker, ApplyReconnect(w) PROVE Membership!Next \/ UNCHANGED membership
  BY <1>3, ApplyReconnectMaps
<1>4. ASSUME NEW w \in Worker, Die(w) \/ Start(w) PROVE Membership!Next
  BY <1>4, ProcessesMap
<1>5. ASSUME NEW n \in Node, Sweep(n) \/ Crash(n) PROVE Membership!Next
  BY <1>5, NodesMap
<1>6. ASSUME NEW n \in Node,
             \/ Restart(n) \/ Win(n) \/ Rival(n) \/ StepDown(n) \/ LoseQuorum(n)
             \/ Learn(n) \/ Publish(n) \/ StrayPublish(n)
      PROVE  UNCHANGED <<proc, registry, taken, pending, bootstrap>>
  BY <1>6 DEF Restart, Win, Rival, Leads, StepDown, LoseQuorum, Learn, Publish,
              StrayPublish, Publishes
<1>7. Expire \/ UNCHANGED vars => UNCHANGED <<proc, registry, taken, pending, bootstrap>>
  BY DEF Expire, vars
<1>8. CASE UNCHANGED <<proc, registry, taken, pending, bootstrap>>
  <2>1. running' = running
    BY <1>8 DEF running
  <2> QED  BY <1>8, <2>1, SameRegistry, SameOffer DEF membership
<1> QED
  BY <1>1, <1>2, <1>3, <1>4, <1>5, <1>6, <1>7, <1>8 DEF Next

LEMMA StartsMembership == Init => Membership!Init
<1> SUFFICES ASSUME Init PROVE Membership!Init
  OBVIOUS
<1>1. Row(NoRegistry) = [w \in Worker |-> Membership!Gone]
  BY DEF Row, NoRegistry, Unknown, Unheard, Membership!Gone
<1>2. silence = [n \in Node |-> Row(NoRegistry)]
  BY DEF Init, silence
<1>3. \A w \in Worker : Held(w) = {}
  BY DEF Init, Held
<1>4. running \subseteq Worker /\ offered = [w \in Worker |-> {}]
  BY <1>3 DEF running, offered
<1>5. bootstrap = [w \in Worker |-> NoBroker]
  BY DEF Init
<1> QED
  BY <1>1, <1>2, <1>4, <1>5 DEF Membership!Init, running, silence, offered, Row, Held

\* Whatever is lost, overtaken or restarted: a node calls a worker online exactly
\* if they were in contact within the time-out, and a worker changes to no broker
\* but one a node named to this very process, although two of its threads hand
\* the broker over without a lock.
THEOREM MembershipImplemented == Spec => ImplementsMembership
<1>1. Init => TypeOK /\ HandOver
  BY TypeInit, HandOverInit
<1>2. TypeOK /\ HandOver /\ [Next]_vars => (TypeOK /\ HandOver)'
  BY TypeStep, HandOverStep
<1>3. Spec => [][Membership!Next]_membership
  BY <1>1, <1>2, StepIsMembershipStep, PTL DEF Spec
<1> QED
  BY <1>3, StartsMembership, PTL
     DEF Spec, ImplementsMembership, Membership!Spec, membership, running, silence,
         offered, Row, Held
=============================================================================
