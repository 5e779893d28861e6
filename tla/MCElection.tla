----------------------------- MODULE MCElection -----------------------------
(* Small instances of LeaderElection for TLC: laptops whose config lists    *)
(* the priorities 3, 2 and 1, and whose first state files list everybody    *)
(* (a copied cluster_state.yaml) or nobody (a fresh install).               *)
EXTENDS LeaderElection, TLC

CONSTANTS a, b, c, k1, k2

Three       == {a, b, c}
Two         == {a, b}
ByName      == (a :> 1) @@ (b :> 2) @@ (c :> 3)
Ranked      == (a :> 3) @@ (b :> 2) @@ (c :> 1)
TwoByName   == (a :> 1) @@ (b :> 2)
TwoRanked   == (a :> 1) @@ (b :> 1)
Everybody   == [n \in Node |-> Node]
Nobody      == [n \in Node |-> {}]

-----------------------------------------------------------------------------
\* Only differences of times matter, and none beyond the time-out does, so TLC
\* identifies states that agree on the ages of their heartbeats.  Nothing here
\* reads the discovery key, which the view leaves out.
Age(entry) ==
    IF entry.last_heartbeat = 0 THEN NodeTimeout + 2
    ELSE IF Stale(entry, now) THEN NodeTimeout + 1 ELSE now - entry.last_heartbeat

Aged(nodes) == [n \in Node |-> <<nodes[n].status, Age(nodes[n])>>]

AgedView(view) ==
    <<view.cluster_id, view.join_token, view.current_leader, Aged(view.known_nodes)>>

AgeView ==
    <<up, [n \in Node |-> AgedView(mem[n])], [n \in Node |-> AgedView(disk[n])],
      monitor, {<<m.from, m.to, m.cluster_id, Aged(m.known_nodes)>> : m \in net},
      side, budget>>

\* The liveness run keeps its clock and leaves out the discovery key only.
NoDiscoveryView ==
    <<now, up, mem, disk, monitor, net, side, budget>>
=============================================================================
