--------------------------- MODULE PoolMembership ---------------------------
(***************************************************************************)
(* What the leaders know of the pool and the workers of the leaders,       *)
(* without urls, hints, discovery, registration or threads: a node knows   *)
(* for how many sweeps each worker has been silent, and takes it for gone  *)
(* after SweepLimit; a worker uses one broker, which a node offered it     *)
(* when they were in contact.                                              *)
(***************************************************************************)
EXTENDS Naturals

CONSTANTS Node, Worker, Broker, NoBroker, SweepLimit

VARIABLES running,  \* the workers whose process runs
          silence,  \* for each node, sweeps since it was in contact with a worker
          offered,  \* brokers a worker was told of and may still change to
          using     \* the broker each worker uses

Gone == SweepLimit + 1

\* A later offer may displace what was offered before, or be lost.
Contact(n, w) ==
    /\ w \in running
    /\ silence' = [silence EXCEPT ![n][w] = 0]
    /\ \E still \in SUBSET (offered[w] \cup {Broker[n]}) :
           offered' = [offered EXCEPT ![w] = still]
    /\ UNCHANGED <<running, using>>

\* The first node that a worker is in contact with names its first broker.
Enrol(n, w) ==
    /\ w \in running /\ using[w] = NoBroker
    /\ silence' = [silence EXCEPT ![n][w] = 0]
    /\ using'   = [using   EXCEPT ![w] = Broker[n]]
    /\ UNCHANGED <<running, offered>>

Change(w) ==
    /\ \E broker \in offered[w] : using' = [using EXCEPT ![w] = broker]
    /\ \E still \in SUBSET offered[w] : offered' = [offered EXCEPT ![w] = still]
    /\ UNCHANGED <<running, silence>>

Decline(w) ==
    /\ \E still \in SUBSET offered[w] : offered' = [offered EXCEPT ![w] = still]
    /\ UNCHANGED <<running, silence, using>>

Stop(w) ==
    /\ w \in running
    /\ running' = running \ {w}
    /\ offered' = [offered EXCEPT ![w] = {}]
    /\ using'   = [using   EXCEPT ![w] = NoBroker]
    /\ UNCHANGED silence

Launch(w) ==
    /\ w \notin running
    /\ running' = running \cup {w}
    /\ UNCHANGED <<silence, offered, using>>

Sweep(n) ==
    /\ silence' = [silence EXCEPT ![n] =
                     [w \in Worker |-> IF @[w] = Gone THEN Gone ELSE @[w] + 1]]
    /\ UNCHANGED <<running, offered, using>>

\* A node that dies takes what it knew with it.
Forget(n) ==
    /\ silence' = [silence EXCEPT ![n] = [w \in Worker |-> Gone]]
    /\ UNCHANGED <<running, offered, using>>

Init ==
    /\ running \subseteq Worker
    /\ silence = [n \in Node |-> [w \in Worker |-> Gone]]
    /\ offered = [w \in Worker |-> {}]
    /\ using   = [w \in Worker |-> NoBroker]

Next ==
    \/ \E w \in Worker : \/ Change(w) \/ Decline(w) \/ Stop(w) \/ Launch(w)
                         \/ \E n \in Node : Contact(n, w) \/ Enrol(n, w)
    \/ \E n \in Node : Sweep(n) \/ Forget(n)

Spec == Init /\ [][Next]_<<running, silence, offered, using>>
=============================================================================
