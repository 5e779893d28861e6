----------------------- MODULE LeaderElection_proofs -----------------------
(***************************************************************************)
(* Proofs about LeaderElection for any set of nodes, priorities, seed      *)
(* files, time-outs and faults.  IInv is inductive; the safety properties  *)
(* of the specification follow from it.                                    *)
(***************************************************************************)
EXTENDS LeaderElection, ClusterState_proofs

\* Grows is a preorder on states, and harmless reloads do not lose anything.
LEMMA GrowsTransitive ==
    ASSUME NEW u \in View, NEW v \in View, NEW w \in View, Grows(u, v), Grows(v, w)
    PROVE  Grows(u, w)
<1>1. \A m \in Node : /\ u.known_nodes[m].last_heartbeat \in Nat
                      /\ v.known_nodes[m].last_heartbeat \in Nat
                      /\ w.known_nodes[m].last_heartbeat \in Nat
  BY DEF View, Entry
<1>2. ASSUME NEW m \in Node
      PROVE  u.known_nodes[m].last_heartbeat <= w.known_nodes[m].last_heartbeat
  <2>1. /\ u.known_nodes[m].last_heartbeat <= v.known_nodes[m].last_heartbeat
        /\ v.known_nodes[m].last_heartbeat <= w.known_nodes[m].last_heartbeat
    BY DEF Grows
  <2> QED  BY <1>1, <2>1
<1> QED
  BY <1>2 DEF Grows

LEMMA ReloadGrows ==
    ASSUME NEW inMem \in View, NEW onDisk \in View, SameRecord(inMem, onDisk)
    PROVE  Grows(inMem, onDisk)
<1>1. \A m \in Node : inMem.known_nodes[m].last_heartbeat \in Nat
  BY DEF View, Entry
<1> QED
  BY <1>1 DEF SameRecord, Grows, Known

LEMMA SameNodesGrow ==
    ASSUME NEW v \in View, NEW w \in View,
           w.known_nodes = v.known_nodes, w.cluster_id = v.cluster_id
    PROVE  Grows(v, w)
<1>1. \A m \in Node : v.known_nodes[m].last_heartbeat \in Nat
  BY DEF View, Entry
<1> QED
  BY <1>1 DEF Grows, Known

\* An election of n, in a state that holds n alive and freshly stamped, leaves
\* a good state: the step from "n is eligible" to "n follows a better node".
LEMMA ElectIsGood ==
    ASSUME NEW n \in Node, NEW view \in View, NEW at \in Nat,
           view.known_nodes[n].status = "alive",
           at <= view.known_nodes[n].last_heartbeat + MaxGap
    PROVE  GoodView(n, ElectLeader(view, at), at)
<1>1. at <= view.known_nodes[n].last_heartbeat + NodeTimeout
  BY TimingAssumption, NodeAssumption DEF View, Entry
<1>2. ElectLeader(view, at).known_nodes = view.known_nodes
  BY ElectLeaderType
<1> QED
  BY <1>1, <1>2, ElectLeaderBeats DEF GoodView

\* The stamp at the top of a tick keeps a good state good, and current.
LEMMA StampIsGood ==
    ASSUME NEW n \in Node, NEW view \in View, NEW at \in Nat, NEW was \in Nat,
           GoodView(n, view, was), Past(view.known_nodes, at)
    PROVE  /\ UpdateHeartbeat(view, n, at) \in View
           /\ GoodView(n, UpdateHeartbeat(view, n, at), at)
           /\ Past(UpdateHeartbeat(view, n, at).known_nodes, at)
<1>1. UpdateHeartbeat(view, n, at) \in View
  BY UpdateHeartbeatType
<1>2. /\ UpdateHeartbeat(view, n, at).known_nodes
           = [view.known_nodes EXCEPT ![n] = Alive(at)]
      /\ UpdateHeartbeat(view, n, at).current_leader = view.current_leader
  BY DEF UpdateHeartbeat, View
<1>3. GoodView(n, UpdateHeartbeat(view, n, at), at)
  BY <1>2, TimingAssumption DEF GoodView, Alive, View
<1>4. ASSUME NEW m \in Node
      PROVE  UpdateHeartbeat(view, n, at).known_nodes[m].last_heartbeat <= at
  <2>1. CASE m = n
    BY <1>2, <2>1 DEF Alive, View
  <2>2. CASE m # n
    BY <1>2, <2>2 DEF Past, View
  <2> QED  BY <2>1, <2>2
<1> QED
  BY <1>1, <1>3, <1>4 DEF Past

\* mark_dead_nodes spares the node that has just stamped itself, and what it
\* changes is what a reload may change back.
LEMMA ReapIsGood ==
    ASSUME NEW n \in Node, NEW view \in View, NEW at \in Nat,
           GoodView(n, view, at), Past(view.known_nodes, at)
    PROVE  /\ MarkDeadNodes(view, at) \in View
           /\ GoodView(n, MarkDeadNodes(view, at), at)
           /\ Past(MarkDeadNodes(view, at).known_nodes, at)
           /\ SameRecord(MarkDeadNodes(view, at), view)
<1> DEFINE reaped == MarkDeadNodes(view, at)
<1>1. reaped \in View
  BY MarkDeadNodesType
<1>2. /\ reaped.cluster_id = view.cluster_id
      /\ reaped.join_token = view.join_token
      /\ reaped.current_leader = view.current_leader
  BY DEF MarkDeadNodes, View
<1>3. ASSUME NEW m \in Node
      PROVE  reaped.known_nodes[m] =
               IF m \in Known(view) /\ Stale(view.known_nodes[m], at)
               THEN [view.known_nodes[m] EXCEPT !.status = "dead"]
               ELSE view.known_nodes[m]
  BY DEF MarkDeadNodes, View
<1>4. ~Stale(view.known_nodes[n], at)
  BY TimingAssumption, NodeAssumption DEF GoodView, Stale, View, Entry
<1>5. GoodView(n, reaped, at)
  BY <1>2, <1>3, <1>4 DEF GoodView
<1>6. ASSUME NEW m \in Node
      PROVE  /\ reaped.known_nodes[m].last_heartbeat = view.known_nodes[m].last_heartbeat
             /\ view.known_nodes[m].status # reaped.known_nodes[m].status =>
                  /\ reaped.known_nodes[m].status = "dead"
                  /\ view.known_nodes[m].status  = "alive"
  BY <1>3 DEF Known, View, Entry, Status
<1> QED
  BY <1>1, <1>2, <1>5, <1>6 DEF Past, SameRecord

\* add_or_update_node followed by an election, of a node j into the state of n.
LEMMA JoinIsGood ==
    ASSUME NEW n \in Node, NEW j \in Node, NEW view \in View, NEW at \in Nat,
           NEW heartbeat \in 0..at, Past(view.known_nodes, at),
           \/ j = n /\ heartbeat = at
           \/ j # n /\ GoodView(n, view, at)
    PROVE  LET joined == AddOrUpdateNode(view, j, Alive(heartbeat)) IN
           /\ ElectLeader(joined, at) \in View
           /\ ElectLeader(joined, at).cluster_id = view.cluster_id
           /\ ElectLeader(joined, at).join_token = view.join_token
           /\ ElectLeader(joined, at).known_nodes =
                [view.known_nodes EXCEPT
                    ![j] = MergeEntry(view.known_nodes[j], Alive(heartbeat))]
           /\ GoodView(n, ElectLeader(joined, at), at)
           /\ Past(ElectLeader(joined, at).known_nodes, at)
<1> DEFINE joined == AddOrUpdateNode(view, j, Alive(heartbeat))
           merged == MergeEntry(view.known_nodes[j], Alive(heartbeat))
<1>1. Alive(heartbeat) \in Entry /\ view.known_nodes[j] \in Entry
  BY DEF Alive, Entry, Status, View
<1>2. joined \in View
  BY <1>1, AddOrUpdateNodeType
<1>3. /\ joined.known_nodes = [view.known_nodes EXCEPT ![j] = merged]
      /\ joined.cluster_id = view.cluster_id
      /\ joined.join_token = view.join_token
  BY DEF AddOrUpdateNode, View
<1>4. /\ merged \in Entry
      /\ merged.status = "alive"
      /\ heartbeat <= merged.last_heartbeat
      /\ merged.last_heartbeat <= at
  BY <1>1, MergeEntryType DEF Alive, Past
<1>5. joined.known_nodes[n].status = "alive"
  BY <1>3, <1>4 DEF GoodView, View
<1>6. at <= joined.known_nodes[n].last_heartbeat + MaxGap
  <2>1. CASE j = n /\ heartbeat = at
    BY <1>3, <1>4, <2>1, TimingAssumption DEF View, Entry
  <2>2. CASE j # n /\ GoodView(n, view, at)
    BY <1>3, <2>2 DEF GoodView, View
  <2> QED  BY <2>1, <2>2
<1>7. GoodView(n, ElectLeader(joined, at), at)
  BY <1>2, <1>5, <1>6, ElectIsGood
<1>8. Past(joined.known_nodes, at)
  BY <1>3, <1>4 DEF Past, View
<1> QED
  BY <1>2, <1>3, <1>7, <1>8, ElectLeaderType

LEMMA MergeIsGood ==
    ASSUME NEW n \in Node, NEW view \in View, NEW at \in Nat, NEW cid \in ClusterId,
           NEW nodes \in [Node -> Entry], nodes[n].status = "alive",
           GoodView(n, view, at), Past(view.known_nodes, at), Past(nodes, at)
    PROVE  LET merged == MergeClusterState(view, cid, nodes, at) IN
           /\ merged \in View
           /\ merged.cluster_id = cid
           /\ GoodView(n, merged, at)
           /\ Past(merged.known_nodes, at)
           /\ Known(view) \subseteq Known(merged)
           /\ \A m \in Node :
                /\ view.known_nodes[m].last_heartbeat <= merged.known_nodes[m].last_heartbeat
                /\ merged.known_nodes[m].last_heartbeat
                     \in {view.known_nodes[m].last_heartbeat, nodes[m].last_heartbeat}
<1> DEFINE known  == [m \in Node |-> IF nodes[m].status = "absent"
                                     THEN view.known_nodes[m]
                                     ELSE MergeEntry(view.known_nodes[m], nodes[m])]
           before == [view EXCEPT !.cluster_id = cid, !.known_nodes = known]
           merged == MergeClusterState(view, cid, nodes, at)
<1>1. ASSUME NEW m \in Node
      PROVE  /\ known[m] \in Entry
             /\ view.known_nodes[m].last_heartbeat <= known[m].last_heartbeat
             /\ known[m].last_heartbeat
                  \in {view.known_nodes[m].last_heartbeat, nodes[m].last_heartbeat}
             /\ view.known_nodes[m].status # "absent" => known[m].status # "absent"
             /\ nodes[m].status = "alive" =>
                  /\ known[m].status = "alive"
                  /\ nodes[m].last_heartbeat <= known[m].last_heartbeat
  <2>1. view.known_nodes[m] \in Entry /\ nodes[m] \in Entry
    BY DEF View
  <2>2. view.known_nodes[m].last_heartbeat \in Nat
    BY <2>1 DEF Entry
  <2>3. CASE nodes[m].status = "absent"
    BY <2>1, <2>2, <2>3
  <2>4. CASE nodes[m].status # "absent"
    BY <2>1, <2>4, MergeEntryType
  <2> QED  BY <2>3, <2>4
<1>2. /\ before \in View
      /\ before.known_nodes = known
      /\ before.cluster_id = cid
  BY <1>1 DEF View
<1>3. merged = ElectLeader(before, at)
  BY DEF MergeClusterState
<1>4. /\ merged \in View
      /\ merged.known_nodes = known
      /\ merged.cluster_id = cid
  <2> HIDE DEF before, merged, known
  <2> QED  BY <1>2, <1>3, ElectLeaderType
<1>5. at <= known[n].last_heartbeat + MaxGap
  <2>1. /\ view.known_nodes[n].last_heartbeat <= known[n].last_heartbeat
        /\ known[n].last_heartbeat \in Nat
        /\ view.known_nodes[n].last_heartbeat \in Nat
    BY <1>1 DEF Entry, View
  <2> QED  BY <2>1, TimingAssumption DEF GoodView
<1>6. GoodView(n, merged, at)
  <2>1. known[n].status = "alive"
    BY <1>1
  <2> HIDE DEF before, merged, known
  <2> QED  BY <1>2, <1>3, <1>5, <2>1, ElectIsGood
<1>7. Past(known, at)
  BY <1>1 DEF Past
<1>8. Known(view) \subseteq Known(merged)
  BY <1>1, <1>4 DEF Known
<1> HIDE DEF known
<1>9. Past(merged.known_nodes, at)
  BY <1>4, <1>7
<1>10. \A m \in Node :
         /\ view.known_nodes[m].last_heartbeat <= merged.known_nodes[m].last_heartbeat
         /\ merged.known_nodes[m].last_heartbeat
              \in {view.known_nodes[m].last_heartbeat, nodes[m].last_heartbeat}
  BY <1>1, <1>4
<1> QED
  BY <1>4, <1>6, <1>8, <1>9, <1>10

\* The first state file is a state, and none of its heartbeats is ahead.
LEMMA SeedIsGood ==
    ASSUME NEW n \in Node
    PROVE  Seed(n) \in View /\ Past(Seed(n).known_nodes, 1)
<1> DEFINE known == [m \in Node |-> IF m \in SeedPeers[n] THEN Alive(1) ELSE Absent]
<1>1. \A m \in Node : known[m] \in Entry /\ known[m].last_heartbeat <= 1
  BY DEF Alive, Absent, Entry, Status
<1>2. Seed(n) = [cluster_id     |-> SeedCluster,
                 join_token     |-> SeedCluster # NoCluster,
                 known_nodes    |-> known,
                 current_leader |-> NoNode]
  BY DEF Seed
<1> HIDE DEF known
<1>3. known \in [Node -> Entry]
  BY <1>1 DEF known
<1> QED
  BY <1>1, <1>2, <1>3, SeedAssumption DEF View, Past

-----------------------------------------------------------------------------
(* Steps of the nodes.  The part of IInv about the copies of the state:     *)
Copies ==
    /\ mem \in [Node -> View]
    /\ disk \in [Node -> View]
    /\ \A n \in Node : /\ Past(mem[n].known_nodes, now)
                       /\ Past(disk[n].known_nodes, now)
                       /\ GoodNode(n)

\* What IInv says of a running node, spelt out.
LEMMA RunningNode ==
    ASSUME IInv, NEW n \in Node
    PROVE  /\ mem[n] \in View /\ disk[n] \in View /\ now \in Nat
           /\ Past(mem[n].known_nodes, now) /\ Past(disk[n].known_nodes, now)
           /\ up[n] => /\ SameRecord(mem[n], disk[n])
                       /\ GoodView(n, mem[n], now)
                       /\ GoodView(n, disk[n], now)
BY DEF IInv, TypeOK, NoFutureHeartbeat, GoodNode

\* A handler that ends by saving a good state.
LEMMA SaveStep ==
    ASSUME IInv, NEW n \in Node, NEW view \in View,
           GoodView(n, view, now), Past(view.known_nodes, now),
           Save(n, view), UNCHANGED now, \A m \in Node \ {n} : up'[m] = up[m]
    PROVE  Copies'
<1>1. /\ mem'  = [mem  EXCEPT ![n] = view]
      /\ disk' = [disk EXCEPT ![n] = view]
      /\ mem \in [Node -> View] /\ disk \in [Node -> View]
  BY DEF Save, IInv, TypeOK
<1>2. mem' \in [Node -> View] /\ disk' \in [Node -> View]
  BY <1>1
<1>3. SameRecord(view, view)
  BY DEF SameRecord
<1>4. ASSUME NEW m \in Node
      PROVE  /\ Past(mem'[m].known_nodes, now') /\ Past(disk'[m].known_nodes, now')
             /\ GoodNode(m)'
  <2>1. CASE m = n
    BY <1>1, <1>3, <2>1 DEF GoodNode
  <2>2. CASE m # n
    BY <1>1, <2>2, RunningNode DEF GoodNode
  <2> QED  BY <2>1, <2>2
<1> QED
  BY <1>2, <1>4 DEF Copies

\* A handler that leaves in memory a good state it could reload.
LEMMA KeepStep ==
    ASSUME IInv, NEW n \in Node, NEW view \in View,
           GoodView(n, view, now), Past(view.known_nodes, now),
           SameRecord(view, disk[n]), Keep(n, view), UNCHANGED <<now, up>>, up[n]
    PROVE  Copies'
<1>1. /\ mem'  = [mem  EXCEPT ![n] = view]
      /\ disk' = disk
      /\ mem \in [Node -> View] /\ disk \in [Node -> View]
  BY DEF Keep, IInv, TypeOK
<1>2. mem' \in [Node -> View] /\ disk' \in [Node -> View]
  BY <1>1
<1>3. ASSUME NEW m \in Node
      PROVE  /\ Past(mem'[m].known_nodes, now') /\ Past(disk'[m].known_nodes, now')
             /\ GoodNode(m)'
  <2>1. CASE m = n
    BY <1>1, <2>1, RunningNode DEF GoodNode
  <2>2. CASE m # n
    BY <1>1, <2>2, RunningNode DEF GoodNode
  <2> QED  BY <2>1, <2>2
<1> QED
  BY <1>2, <1>3 DEF Copies

LEMMA IdleStep ==
    ASSUME IInv, UNCHANGED <<now, up, mem, disk>>
    PROVE  Copies'
<1>1. ASSUME NEW m \in Node
      PROVE  /\ Past(mem'[m].known_nodes, now') /\ Past(disk'[m].known_nodes, now')
             /\ GoodNode(m)'
  BY RunningNode DEF GoodNode
<1> QED
  BY <1>1 DEF Copies, IInv, TypeOK

\* An election in either copy of a running node, and what boot does to its file.
LEMMA RunningElects ==
    ASSUME IInv, NEW n \in Node, up[n], NEW view \in {mem[n], disk[n]}
    PROVE  /\ ElectLeader(view, now) \in View
           /\ GoodView(n, ElectLeader(view, now), now)
           /\ Past(ElectLeader(view, now).known_nodes, now)
           /\ SameRecord(ElectLeader(view, now), disk[n])
           /\ ElectLeader(view, now).known_nodes = view.known_nodes
           /\ ElectLeader(view, now).cluster_id = view.cluster_id
<1>1. /\ view \in View /\ now \in Nat
      /\ GoodView(n, view, now) /\ Past(view.known_nodes, now)
      /\ SameRecord(view, disk[n])
  BY RunningNode DEF SameRecord
<1>2. GoodView(n, ElectLeader(view, now), now)
  BY <1>1, ElectIsGood DEF GoodView
<1> QED
  BY <1>1, <1>2, ElectLeaderType DEF SameRecord

LEMMA BootIsGood ==
    ASSUME NEW n \in Node, NEW view \in View, NEW at \in Nat, Past(view.known_nodes, at)
    PROVE  /\ Boot(n, view, at) \in View
           /\ Boot(n, view, at).cluster_id = view.cluster_id
           /\ GoodView(n, Boot(n, view, at), at)
           /\ Past(Boot(n, view, at).known_nodes, at)
           /\ Boot(n, view, at).known_nodes =
                [view.known_nodes EXCEPT ![n] = MergeEntry(view.known_nodes[n], Alive(at))]
BY JoinIsGood DEF Boot

-----------------------------------------------------------------------------
(* The other two parts of IInv: the messages, and everything else.          *)
Messages ==
    /\ net \subseteq Message
    /\ NetSparesReceiver
    /\ \A s \in net : Past(s.known_nodes, now)

Rest ==
    /\ now \in Nat
    /\ up \in [Node -> BOOLEAN]
    /\ pc \in [Node -> {"sleep", "ping", "announce", "quorum", "publish"}]
    /\ asked \in [Node -> SUBSET Node]
    /\ failures \in [Node -> 0..(FailureThreshold - 1)]
    /\ demoted \in [Node -> BOOLEAN]
    /\ discovery \in Node \cup {NoNode}
    /\ side \in [Node -> Sides]
    /\ budget \in Nat
    /\ SuspendedOnlyIfUp

LEMMA IInvParts == IInv <=> Copies /\ Messages /\ Rest
BY DEF IInv, Copies, Messages, Rest, TypeOK, NoFutureHeartbeat

LEMMA IInvPartsNext == IInv' <=> Copies' /\ Messages' /\ Rest'
BY DEF IInv, Copies, Messages, Rest, TypeOK, NoFutureHeartbeat,
       GoodNode, NetSparesReceiver, SuspendedOnlyIfUp

\* Messages only leave the network while the clock stands still.
LEMMA FewerMessages ==
    ASSUME IInv, net' \subseteq net, UNCHANGED now
    PROVE  Messages'
BY DEF IInv, TypeOK, Messages, NetSparesReceiver, NoFutureHeartbeat

\* The coroutine of a running node moves on, or the process starts to sleep.
LEMMA SuspendStep ==
    ASSUME Rest, NEW n \in Node,
           NEW where \in {"sleep", "ping", "announce", "quorum", "publish"},
           NEW awaiting \in SUBSET Node,
           up[n] \/ where = "sleep", Suspend(n, where, awaiting)
    PROVE  /\ pc' \in [Node -> {"sleep", "ping", "announce", "quorum", "publish"}]
           /\ asked' \in [Node -> SUBSET Node]
           /\ \A m \in Node : pc'[m] # "sleep" => up[m]
BY DEF Rest, Suspend, SuspendedOnlyIfUp

\* A fault uses up part of the budget.
LEMMA FailsStep ==
    ASSUME NEW kind, budget \in Nat, Fails(kind)
    PROVE  budget' \in Nat
BY DEF Fails

-----------------------------------------------------------------------------
(* One lemma per group of actions: each keeps the three parts.              *)

LEMMA LeaderTickStep ==
    ASSUME IInv, NEW n \in Node, LeaderTick(n)
    PROVE  IInv'
<1> DEFINE stamped == Stamped(n)
<1>0. Rest /\ up[n]
  BY IInvParts DEF LeaderTick
<1>1. /\ stamped \in View
      /\ GoodView(n, stamped, now)
      /\ Past(stamped.known_nodes, now)
  BY <1>0, RunningNode, StampIsGood DEF Stamped
<1>2. Copies'
  <2>1. Save(n, stamped) /\ UNCHANGED <<now, up>>
    BY DEF LeaderTick, env
  <2> HIDE DEF stamped
  <2> QED  BY <1>1, <2>1, SaveStep
<1>3. Messages'
  BY FewerMessages DEF LeaderTick, env
<1>4. Rest'
  <2>1. Peers(stamped, n) \in SUBSET Node
    BY DEF Peers, Known
  <2>2. /\ pc' \in [Node -> {"sleep", "ping", "announce", "quorum", "publish"}]
        /\ asked' \in [Node -> SUBSET Node]
        /\ \A m \in Node : pc'[m] # "sleep" => up[m]
    <3> HIDE DEF stamped
    <3>1. \/ Suspend(n, "publish", {})
          \/ Suspend(n, "quorum", Peers(stamped, n))
      BY DEF LeaderTick, stamped
    <3> QED  BY <1>0, <2>1, <3>1, SuspendStep
  <2>3. failures' \in [Node -> 0..(FailureThreshold - 1)]
    BY <1>0, TimingAssumption DEF LeaderTick, Rest
  <2>4. UNCHANGED <<now, up, side, budget, demoted, discovery>>
    BY DEF LeaderTick, env
  <2> QED  BY <1>0, <2>2, <2>3, <2>4 DEF Rest, SuspendedOnlyIfUp
<1> QED
  BY <1>2, <1>3, <1>4, IInvPartsNext

LEMMA FollowTickStep ==
    ASSUME IInv, NEW n \in Node, FollowTick(n)
    PROVE  IInv'
<1> DEFINE stamped == Stamped(n)
           reaped  == Reaped(n)
<1>0. Rest /\ up[n] /\ mem \in [Node -> View] /\ disk \in [Node -> View]
  BY IInvParts DEF FollowTick, Copies
<1>1. /\ stamped \in View
      /\ GoodView(n, stamped, now)
      /\ Past(stamped.known_nodes, now)
  BY <1>0, RunningNode, StampIsGood DEF Stamped
<1>2. /\ reaped \in View
      /\ GoodView(n, reaped, now)
      /\ Past(reaped.known_nodes, now)
      /\ SameRecord(reaped, stamped)
  BY <1>1, RunningNode, ReapIsGood DEF Reaped
<1>3. /\ mem'  = [mem  EXCEPT ![n] = reaped]
      /\ disk' = [disk EXCEPT ![n] = stamped]
      /\ UNCHANGED <<now, up, side, budget, failures, demoted, net, discovery>>
      /\ Suspend(n, "ping", {reaped.current_leader})
  <2>1. Consulted(n) = reaped
    BY <1>2, NodeAssumption DEF Consulted, GetLeader, GoodView
  <2> QED  BY <2>1 DEF FollowTick, env
<1> HIDE DEF stamped, reaped
<1>4. Copies'
  <2>1. ASSUME NEW m \in Node
        PROVE  /\ Past(mem'[m].known_nodes, now') /\ Past(disk'[m].known_nodes, now')
               /\ GoodNode(m)'
    <3>1. CASE m = n
      BY <1>0, <1>1, <1>2, <1>3, <3>1 DEF GoodNode
    <3>2. CASE m # n
      BY <1>0, <1>3, <3>2, RunningNode DEF GoodNode
    <3> QED  BY <3>1, <3>2
  <2>2. mem' \in [Node -> View] /\ disk' \in [Node -> View]
    BY <1>0, <1>1, <1>2, <1>3
  <2> QED  BY <2>1, <2>2 DEF Copies
<1>5. Messages'
  BY <1>3, FewerMessages
<1>6. Rest'
  <2>1. {reaped.current_leader} \in SUBSET Node
    BY <1>2 DEF GoodView
  <2>2. /\ pc' \in [Node -> {"sleep", "ping", "announce", "quorum", "publish"}]
        /\ asked' \in [Node -> SUBSET Node]
        /\ \A m \in Node : pc'[m] # "sleep" => up[m]
    BY <1>0, <1>3, <2>1, SuspendStep
  <2> QED  BY <1>0, <1>3, <2>2 DEF Rest, SuspendedOnlyIfUp
<1> QED
  BY <1>4, <1>5, <1>6, IInvPartsNext

\* The continuations that touch neither copy of the state.
LEMMA ContinuationStep ==
    ASSUME IInv, NEW n \in Node,
           \/ LeaderAnswers(n) \/ LeaderMissed(n)
           \/ QuorumLost(n) \/ QuorumHeld(n) \/ Publish(n)
    PROVE  IInv'
<1>0. Rest
  BY IInvParts
<1>1. UNCHANGED <<now, up, side, mem, disk, net>>
  BY DEF LeaderAnswers, LeaderMissed, QuorumLost, QuorumHeld, Publish, env
<1>2. Copies'
  BY <1>1, IdleStep
<1>3. Messages'
  BY <1>1, FewerMessages
<1>4. Rest'
  <2>1. up[n]
    BY <1>0 DEF LeaderAnswers, LeaderMissed, Missed, QuorumLost, QuorumHeld, Counted,
                Publish, Rest, SuspendedOnlyIfUp
  <2>2. Suspend(n, "sleep", {}) \/ Suspend(n, "publish", {})
    BY DEF LeaderAnswers, LeaderMissed, QuorumLost, QuorumHeld, Publish
  <2>3. /\ pc' \in [Node -> {"sleep", "ping", "announce", "quorum", "publish"}]
        /\ asked' \in [Node -> SUBSET Node]
        /\ \A m \in Node : pc'[m] # "sleep" => up[m]
    BY <1>0, <2>1, <2>2, SuspendStep
  <2>4. failures' \in [Node -> 0..(FailureThreshold - 1)]
    <3>1. CASE LeaderMissed(n)
      BY <1>0, <3>1, TimingAssumption DEF LeaderMissed, Rest
    <3>2. CASE ~LeaderMissed(n)
      BY <1>0, <3>2, TimingAssumption
         DEF LeaderAnswers, QuorumLost, QuorumHeld, Publish, Rest
    <3> QED  BY <3>1, <3>2
  <2>5. demoted' \in [Node -> BOOLEAN] /\ discovery' \in Node \cup {NoNode}
    BY <1>0 DEF LeaderAnswers, LeaderMissed, QuorumLost, QuorumHeld, Publish, Rest
  <2>6. budget' \in Nat
    <3>1. UNCHANGED budget \/ Drop
      BY DEF LeaderAnswers, LeaderMissed, Missed, QuorumLost, QuorumHeld, Counted,
             Publish, env
    <3> QED  BY <1>0, <3>1, FailsStep DEF Drop, Rest
  <2> QED  BY <1>0, <1>1, <2>3, <2>4, <2>5, <2>6 DEF Rest, SuspendedOnlyIfUp
<1> QED
  BY <1>2, <1>3, <1>4, IInvPartsNext

LEMMA TriggerElectionStep ==
    ASSUME IInv, NEW n \in Node, TriggerElection(n)
    PROVE  IInv'
<1> DEFINE elected == ElectLeader(mem[n], now)
<1>0. Rest
  BY IInvParts
<1>1. up[n]
  BY <1>0 DEF TriggerElection, Missed, Rest, SuspendedOnlyIfUp
<1>2. /\ elected \in View
      /\ GoodView(n, elected, now)
      /\ Past(elected.known_nodes, now)
  BY <1>1, RunningElects
<1>3. /\ Save(n, elected)
      /\ Suspend(n, "announce", {}) \/ Suspend(n, "sleep", {})
      /\ failures' = [failures EXCEPT ![n] = 0]
      /\ UNCHANGED <<now, up, side, demoted, net, discovery>>
      /\ UNCHANGED budget \/ Drop
  BY DEF TriggerElection, Missed
<1> HIDE DEF elected
<1>4. Copies'
  BY <1>2, <1>3, SaveStep
<1>5. Messages'
  BY <1>3, FewerMessages
<1>6. Rest'
  <2>1. /\ pc' \in [Node -> {"sleep", "ping", "announce", "quorum", "publish"}]
        /\ asked' \in [Node -> SUBSET Node]
        /\ \A m \in Node : pc'[m] # "sleep" => up[m]
    BY <1>0, <1>1, <1>3, SuspendStep
  <2>2. failures' \in [Node -> 0..(FailureThreshold - 1)]
    BY <1>0, <1>3, TimingAssumption DEF Rest
  <2>3. budget' \in Nat
    BY <1>0, <1>3, FailsStep DEF Drop, Rest
  <2> QED  BY <1>0, <1>3, <2>1, <2>2, <2>3 DEF Rest, SuspendedOnlyIfUp
<1> QED
  BY <1>4, <1>5, <1>6, IInvPartsNext

\* What is posted is the sender's own state, and only to nodes alive in it.
LEMMA AnnounceStep ==
    ASSUME IInv, NEW n \in Node, Announce(n)
    PROVE  IInv'
<1> DEFINE view == ElectLeader(disk[n], now)
<1>0. Rest /\ Messages
  BY IInvParts
<1>1. up[n]
  BY <1>0 DEF Announce, Rest, SuspendedOnlyIfUp
<1>2. /\ view \in View
      /\ GoodView(n, view, now)
      /\ Past(view.known_nodes, now)
      /\ SameRecord(view, disk[n])
  BY <1>1, RunningElects
<1>3. /\ Keep(n, view)
      /\ Suspend(n, "publish", {})
      /\ UNCHANGED <<now, up, side, budget, failures, demoted, discovery>>
  BY DEF Announce, env
<1>4. ASSUME NEW s \in net', s \notin net
      PROVE  /\ s \in Message
             /\ s.known_nodes[s.to].status = "alive"
             /\ Past(s.known_nodes, now)
  <2>1. PICK m \in Peers(view, n) :
              /\ view.known_nodes[m].status # "dead"
              /\ view.cluster_id # NoCluster
              /\ s = [from |-> n, to |-> m, cluster_id |-> view.cluster_id,
                      known_nodes |-> view.known_nodes]
    BY <1>4 DEF Announce
  <2> HIDE DEF view
  <2>2. m \in Node /\ view.known_nodes[m].status = "alive"
    BY <1>2, <2>1 DEF Peers, Known, View, Entry, Status
  <2> QED  BY <1>2, <2>1, <2>2 DEF Message, View
<1> HIDE DEF view
<1>5. Copies'
  BY <1>1, <1>2, <1>3, KeepStep
<1>6. Messages'
  BY <1>0, <1>3, <1>4 DEF Messages, NetSparesReceiver
<1>7. Rest'
  <2>1. /\ pc' \in [Node -> {"sleep", "ping", "announce", "quorum", "publish"}]
        /\ asked' \in [Node -> SUBSET Node]
        /\ \A m \in Node : pc'[m] # "sleep" => up[m]
    BY <1>0, <1>1, <1>3, SuspendStep
  <2> QED  BY <1>0, <1>3, <2>1 DEF Rest, SuspendedOnlyIfUp
<1> QED
  BY <1>5, <1>6, <1>7, IInvPartsNext

\* An endpoint leaves the monitor and the environment alone.
LEMMA EndpointRest ==
    ASSUME IInv, UNCHANGED <<env, monitor, discovery>>
    PROVE  Rest'
BY IInvParts DEF Rest, SuspendedOnlyIfUp, env, monitor

LEMMA ClusterSyncStep ==
    ASSUME IInv, NEW s \in net, ClusterSync(s)
    PROVE  IInv'
<1> DEFINE n == s.to
           merged == MergeClusterState(disk[n], s.cluster_id, s.known_nodes, now)
<1>0. /\ n \in Node /\ s.cluster_id \in ClusterId /\ s.known_nodes \in [Node -> Entry]
      /\ s.known_nodes[n].status = "alive"
      /\ Past(s.known_nodes, now)
  BY DEF IInv, TypeOK, Message, NetSparesReceiver, NoFutureHeartbeat
<1>1. up[n] /\ UNCHANGED <<env, monitor, discovery>> /\ net' \subseteq net
  BY DEF ClusterSync, Reach
<1>2. /\ disk[n] \in View /\ now \in Nat
      /\ GoodView(n, disk[n], now) /\ Past(disk[n].known_nodes, now)
      /\ SameRecord(disk[n], disk[n])
  BY <1>0, <1>1, RunningNode DEF SameRecord
<1>3. Copies'
  <2>1. CASE disk[n].cluster_id \in {NoCluster, s.cluster_id}
    <3>1. /\ merged \in View
          /\ GoodView(n, merged, now)
          /\ Past(merged.known_nodes, now)
      BY <1>0, <1>2, MergeIsGood
    <3>2. Save(n, merged) /\ UNCHANGED <<now, up>>
      BY <2>1 DEF ClusterSync, env
    <3> HIDE DEF merged, n
    <3> QED  BY <1>0, <3>1, <3>2, SaveStep
  <2>2. CASE disk[n].cluster_id \notin {NoCluster, s.cluster_id}
    <3>1. Keep(n, disk[n]) /\ UNCHANGED <<now, up>>
      BY <2>2 DEF ClusterSync, env
    <3> HIDE DEF n
    <3> QED  BY <1>0, <1>1, <1>2, <3>1, KeepStep
  <2> QED  BY <2>1, <2>2
<1>4. Messages'
  BY <1>1, FewerMessages DEF env
<1> QED
  BY <1>1, <1>3, <1>4, EndpointRest, IInvPartsNext

LEMMA EndpointStep ==
    ASSUME IInv, NEW n \in Node, Endpoint(n)
    PROVE  IInv'
<1>1. /\ UNCHANGED <<env, monitor, net, discovery>>
      /\ UNCHANGED <<now, up>>
      /\ up[n]
  BY DEF Endpoint, ClusterStatus, WellKnown, WorkerCall, ClusterCreate, ClusterJoin,
         Serving, env
<1>2. /\ mem[n] \in View /\ disk[n] \in View /\ now \in Nat
      /\ SameRecord(mem[n], disk[n])
      /\ Past(mem[n].known_nodes, now) /\ Past(disk[n].known_nodes, now)
      /\ GoodView(n, mem[n], now) /\ GoodView(n, disk[n], now)
  BY <1>1, RunningNode
<1>3. Copies'
  <2>1. CASE ClusterStatus(n)
    <3> DEFINE elected == ElectLeader(mem[n], now)
    <3>1. Keep(n, elected)
      BY <2>1 DEF ClusterStatus
    <3>2. /\ elected \in View
          /\ GoodView(n, elected, now)
          /\ Past(elected.known_nodes, now)
          /\ SameRecord(elected, disk[n])
      BY <1>1, RunningElects
    <3> HIDE DEF elected
    <3> QED  BY <1>1, <3>1, <3>2, KeepStep
  <2>2. CASE WellKnown(n)
    <3>1. Keep(n, disk[n])
      BY <2>2 DEF WellKnown
    <3>2. SameRecord(disk[n], disk[n])
      BY DEF SameRecord
    <3> QED  BY <1>1, <1>2, <3>1, <3>2, KeepStep
  <2>3. CASE WorkerCall(n)
    <3> DEFINE elected == ElectLeader(mem[n], now)
    <3>1. Save(n, elected)
      BY <2>3 DEF WorkerCall
    <3>2. /\ elected \in View
          /\ GoodView(n, elected, now)
          /\ Past(elected.known_nodes, now)
      BY <1>1, RunningElects
    <3> HIDE DEF elected
    <3> QED  BY <1>1, <3>1, <3>2, SaveStep
  <2>4. CASE ClusterCreate(n)
    <3> DEFINE booted == Boot(n, disk[n], now)
    <3>1. PICK cid \in ClusterId :
            Save(n, [booted EXCEPT !.cluster_id = cid, !.join_token = TRUE])
      BY <2>4 DEF ClusterCreate
    <3>2. booted \in View /\ GoodView(n, booted, now) /\ Past(booted.known_nodes, now)
      BY <1>2, BootIsGood
    <3> HIDE DEF booted
    <3> DEFINE created == [booted EXCEPT !.cluster_id = cid, !.join_token = TRUE]
    <3>3. /\ created \in View
          /\ GoodView(n, created, now)
          /\ Past(created.known_nodes, now)
      BY <3>2 DEF View, GoodView
    <3> HIDE DEF created
    <3> QED  BY <1>1, <3>1, <3>3, SaveStep DEF created
  <2>5. ASSUME NEW j \in Node, ClusterJoin(j, n)  PROVE Copies'
    <3>1. PICK heartbeat \in {0, now} :
            Save(n, ElectLeader(AddOrUpdateNode(disk[n], j, Alive(heartbeat)), now))
      BY <2>5 DEF ClusterJoin
    <3> DEFINE joined == ElectLeader(AddOrUpdateNode(disk[n], j, Alive(heartbeat)), now)
    <3>2. heartbeat \in 0..now /\ j # n
      BY <1>2, <2>5 DEF ClusterJoin
    <3>3. joined \in View /\ GoodView(n, joined, now) /\ Past(joined.known_nodes, now)
      BY <1>2, <3>2, JoinIsGood
    <3>4. Save(n, joined)
      BY <3>1
    <3> HIDE DEF joined
    <3> QED  BY <1>1, <3>3, <3>4, SaveStep
  <2> QED  BY <2>1, <2>2, <2>3, <2>4, <2>5 DEF Endpoint
<1>4. Messages'
  BY <1>1, FewerMessages
<1> QED
  BY <1>1, <1>3, <1>4, EndpointRest, IInvPartsNext

\* A crash takes the memory and perhaps the file, of a node that promised nothing.
LEMMA CrashStep ==
    ASSUME IInv, NEW n \in Node, Crash(n)
    PROVE  IInv'
<1>0. Rest /\ Copies
  BY IInvParts
<1>1. PICK file \in {disk[n], EmptyView} : disk' = [disk EXCEPT ![n] = file]
  BY DEF Crash
<1>2. /\ mem' = [mem EXCEPT ![n] = EmptyView]
      /\ up' = [up EXCEPT ![n] = FALSE]
      /\ UNCHANGED <<now, net, discovery, side>>
  BY DEF Crash
<1>3. EmptyView \in View /\ Past(EmptyView.known_nodes, now)
  BY <1>0, EmptyViewType DEF Past, EmptyView, Absent, Rest
<1>4. file \in View /\ Past(file.known_nodes, now)
  BY <1>0, <1>3, RunningNode
<1>5. Copies'
  <2>1. mem' \in [Node -> View] /\ disk' \in [Node -> View]
    BY <1>0, <1>1, <1>2, <1>3, <1>4 DEF Copies
  <2>2. ASSUME NEW m \in Node
        PROVE  /\ Past(mem'[m].known_nodes, now') /\ Past(disk'[m].known_nodes, now')
               /\ GoodNode(m)'
    <3>1. CASE m = n
      BY <1>0, <1>1, <1>2, <1>3, <1>4, <3>1 DEF GoodNode, Copies, Rest
    <3>2. CASE m # n
      BY <1>0, <1>1, <1>2, <3>2, RunningNode DEF GoodNode, Copies, Rest
    <3> QED  BY <3>1, <3>2
  <2> QED  BY <2>1, <2>2 DEF Copies
<1>6. Messages'
  BY <1>2, FewerMessages
<1>7. Rest'
  <2>1. budget' \in Nat
    BY <1>0, FailsStep DEF Crash, Rest
  <2>2. /\ failures' = [failures EXCEPT ![n] = 0]
        /\ demoted'  = [demoted EXCEPT ![n] = FALSE]
        /\ pc'       = [pc EXCEPT ![n] = "sleep"]
        /\ asked'    = [asked EXCEPT ![n] = {}]
    BY DEF Crash, Suspend
  <2>3. 0 \in 0..(FailureThreshold - 1)
    BY TimingAssumption
  <2> QED  BY <1>0, <1>2, <2>1, <2>2, <2>3 DEF Rest, SuspendedOnlyIfUp
<1> QED
  BY <1>5, <1>6, <1>7, IInvPartsNext

LEMMA RestartStep ==
    ASSUME IInv, NEW n \in Node, Restart(n)
    PROVE  IInv'
<1> DEFINE booted == Boot(n, disk[n], now)
<1>0. Rest
  BY IInvParts
<1>1. booted \in View /\ GoodView(n, booted, now) /\ Past(booted.known_nodes, now)
  BY RunningNode, BootIsGood
<1>2. /\ Save(n, booted)
      /\ up' = [up EXCEPT ![n] = TRUE]
      /\ UNCHANGED <<now, monitor, net, discovery, side, budget>>
  BY DEF Restart
<1> HIDE DEF booted
<1>3. Copies'
  BY <1>0, <1>1, <1>2, SaveStep DEF Rest
<1>4. Messages'
  BY <1>2, FewerMessages
<1>5. Rest'
  BY <1>0, <1>2 DEF Rest, SuspendedOnlyIfUp, monitor
<1> QED
  BY <1>3, <1>4, <1>5, IInvPartsNext

LEMMA NetworkStep ==
    ASSUME IInv, Split \/ Heal \/ \E s \in net : SyncFails(s)
    PROVE  IInv'
<1>0. Rest
  BY IInvParts
<1>1. /\ UNCHANGED <<now, up, mem, disk, monitor, discovery>>
      /\ net' \subseteq net
      /\ UNCHANGED budget \/ \E kind \in Fault : Fails(kind)
      /\ side' \in [Node -> Sides]
  BY <1>0 DEF Split, Heal, SyncFails, env, Fault, Sides, Rest
<1>2. Copies'
  BY <1>1, IdleStep
<1>3. Messages'
  BY <1>1, FewerMessages
<1>4. Rest'
  <2>1. budget' \in Nat
    BY <1>0, <1>1, FailsStep DEF Rest
  <2> QED  BY <1>0, <1>1, <2>1 DEF Rest, SuspendedOnlyIfUp, monitor
<1> QED
  BY <1>2, <1>3, <1>4, IInvPartsNext

\* The clock moves only while every running node can still tick in time.
LEMMA AdvanceStep ==
    ASSUME IInv, Advance
    PROVE  IInv'
<1>0. Rest /\ Messages /\ Copies /\ now \in Nat
  BY IInvParts DEF Rest
<1>1. /\ now' = now + 1
      /\ UNCHANGED <<up, mem, disk, monitor, net, discovery, side, budget>>
  BY DEF Advance
<1>2. ASSUME NEW nodes \in [Node -> Entry], Past(nodes, now)
      PROVE  Past(nodes, now')
  BY <1>0, <1>1, <1>2 DEF Past, Entry
<1>3. ASSUME NEW n \in Node
      PROVE  /\ Past(mem[n].known_nodes, now') /\ Past(disk[n].known_nodes, now')
             /\ GoodNode(n)'
  <2>1. mem[n].known_nodes \in [Node -> Entry] /\ disk[n].known_nodes \in [Node -> Entry]
    BY RunningNode DEF View
  <2>2. up[n] => /\ now + 1 <= mem[n].known_nodes[n].last_heartbeat + MaxGap
                 /\ now + 1 <= disk[n].known_nodes[n].last_heartbeat + MaxGap
    <3>1. mem[n].known_nodes[n].last_heartbeat \in Nat
      BY <2>1 DEF Entry
    <3> QED  BY <1>0, <3>1, RunningNode, TimingAssumption
                DEF Advance, OwnHeartbeat, SameRecord
  <2> QED  BY <1>1, <1>2, <2>1, <2>2, RunningNode DEF GoodNode, GoodView
<1>4. Copies'
  BY <1>0, <1>1, <1>3 DEF Copies
<1>5. Messages'
  <2>1. \A s \in net : s.known_nodes \in [Node -> Entry]
    BY <1>0 DEF Messages, Message
  <2> QED  BY <1>0, <1>1, <1>2, <2>1 DEF Messages, NetSparesReceiver
<1>6. Rest'
  BY <1>0, <1>1 DEF Rest, SuspendedOnlyIfUp, monitor
<1> QED
  BY <1>4, <1>5, <1>6, IInvPartsNext

-----------------------------------------------------------------------------
(* The inductive invariant and what follows from it.                        *)

LEMMA InitIInv == Init => IInv
<1> SUFFICES ASSUME Init PROVE IInv
  OBVIOUS
<1>1. ASSUME NEW n \in Node
      PROVE  /\ mem[n] \in View
             /\ GoodView(n, mem[n], now)
             /\ Past(mem[n].known_nodes, now)
             /\ disk[n] = mem[n]
  <2>1. mem[n] = Boot(n, Seed(n), 1) /\ disk[n] = mem[n] /\ now = 1
    BY DEF Init
  <2> DEFINE seed == Seed(n)
  <2>2. seed \in View /\ Past(seed.known_nodes, 1)
    BY SeedIsGood
  <2> HIDE DEF seed
  <2>3. /\ Boot(n, seed, 1) \in View
        /\ GoodView(n, Boot(n, seed, 1), 1)
        /\ Past(Boot(n, seed, 1).known_nodes, 1)
    BY <2>2, BootIsGood
  <2> QED  BY <2>1, <2>3 DEF seed
<1>2. mem \in [Node -> View] /\ disk \in [Node -> View]
  <2>1. mem = [n \in Node |-> Boot(n, Seed(n), 1)] /\ disk = mem
    BY DEF Init
  <2> QED  BY <1>1, <2>1
<1>3. Copies
  BY <1>1, <1>2 DEF Copies, GoodNode, SameRecord
<1>4. Messages
  BY DEF Init, Messages, NetSparesReceiver
<1>5. Rest
  BY TimingAssumption DEF Init, Rest, SuspendedOnlyIfUp, Sides
<1> QED
  BY <1>3, <1>4, <1>5, IInvParts

LEMMA NextIInv == IInv /\ [Next]_vars => IInv'
<1> SUFFICES ASSUME IInv, [Next]_vars PROVE IInv'
  OBVIOUS
<1>1. ASSUME NEW n \in Node, Tick(n)  PROVE IInv'
  BY <1>1, LeaderTickStep, FollowTickStep, ContinuationStep, TriggerElectionStep,
     AnnounceStep DEF Tick
<1>2. ASSUME NEW n \in Node, Endpoint(n)  PROVE IInv'
  BY <1>2, EndpointStep
<1>3. ASSUME NEW n \in Node, Crash(n) \/ Restart(n)  PROVE IInv'
  BY <1>3, CrashStep, RestartStep
<1>4. ASSUME NEW s \in net, ClusterSync(s) \/ SyncFails(s)  PROVE IInv'
  BY <1>4, ClusterSyncStep, NetworkStep
<1>5. CASE Split \/ Heal
  BY <1>5, NetworkStep
<1>6. CASE Advance
  BY <1>6, AdvanceStep
<1>7. CASE UNCHANGED vars
  <2>1. UNCHANGED <<env, monitor, discovery, net, mem, disk, now, up>>
    BY <1>7 DEF vars, env, monitor
  <2> QED  BY <2>1, IdleStep, FewerMessages, EndpointRest, IInvPartsNext
<1> QED
  BY <1>1, <1>2, <1>3, <1>4, <1>5, <1>6, <1>7 DEF Next

\* The inductive invariant holds in every reachable state.
THEOREM InductiveInvariant == Spec => []IInv
BY InitIInv, NextIInv, PTL DEF Spec

\* Every variable keeps its type.
THEOREM TypeCorrect == Spec => []TypeOK
<1>1. IInv => TypeOK
  BY DEF IInv
<1> QED
  BY <1>1, InductiveInvariant, PTL

\* A reload from cluster_state.yaml loses dead marks and elections at most.
THEOREM ReloadIsHarmless == Spec => []ReloadLosesOnlyVerdicts
<1>1. IInv => ReloadLosesOnlyVerdicts
  BY DEF IInv, GoodNode, ReloadLosesOnlyVerdicts
<1> QED
  BY <1>1, InductiveInvariant, PTL

\* No running node comes to hold itself dead, whatever its peers believe.
THEOREM NobodyBuriesItself == Spec => []NeverSelfDead
<1>1. IInv => NeverSelfDead
  BY DEF IInv, GoodNode, GoodView, NetSparesReceiver, NeverSelfDead
<1> QED
  BY <1>1, InductiveInvariant, PTL

\* Followers follow better nodes, so no ring of live nodes waits on itself.
THEOREM FollowersClimb == Spec => []NoFollowCycle
<1>1. NoNode \notin Node
  BY NodeAssumption
<1>2. IInv => NoFollowCycle
  BY <1>1 DEF IInv, GoodNode, GoodView, NoFollowCycle
<1> QED
  BY <1>2, InductiveInvariant, PTL

-----------------------------------------------------------------------------
(* The action property: what a running node knows only grows.               *)

\* Each function that changes a state makes it grow.
LEMMA SaveGrows ==
    ASSUME NEW n \in Node, NEW view \in View, mem \in [Node -> View],
           mem' = [mem EXCEPT ![n] = view], Grows(mem[n], view)
    PROVE  \A m \in Node : Grows(mem[m], mem'[m])
<1>1. ASSUME NEW m \in Node, m # n  PROVE Grows(mem[m], mem'[m])
  BY <1>1, SameNodesGrow
<1> QED
  BY <1>1

LEMMA BootGrows ==
    ASSUME NEW n \in Node, NEW j \in Node, NEW view \in View, NEW at \in Nat,
           NEW heartbeat \in Nat, NEW after \in View,
           after.cluster_id = view.cluster_id \/ view.cluster_id = NoCluster,
           after.known_nodes = [view.known_nodes EXCEPT
               ![j] = MergeEntry(view.known_nodes[j], Alive(heartbeat))]
    PROVE  Grows(view, after)
<1>1. ASSUME NEW m \in Node
      PROVE  /\ view.known_nodes[m].last_heartbeat <= after.known_nodes[m].last_heartbeat
             /\ m \in Known(view) => m \in Known(after)
  <2>1. /\ view.known_nodes[m] \in Entry
        /\ view.known_nodes[m].last_heartbeat \in Nat
        /\ Alive(heartbeat) \in Entry
        /\ Alive(heartbeat).status # "absent"
    BY DEF View, Entry, Alive, Status
  <2>2. CASE m = j
    BY <2>1, <2>2, MergeEntryType DEF Known, View
  <2>3. CASE m # j
    BY <2>1, <2>3 DEF Known, View
  <2> QED  BY <2>2, <2>3
<1> QED
  BY <1>1 DEF Grows, Known

LEMMA StampGrows ==
    ASSUME NEW n \in Node, NEW view \in View, NEW at \in Nat, Past(view.known_nodes, at)
    PROVE  Grows(view, UpdateHeartbeat(view, n, at))
<1> DEFINE stamped == UpdateHeartbeat(view, n, at)
<1>1. /\ stamped.known_nodes = [view.known_nodes EXCEPT ![n] = Alive(at)]
      /\ stamped.cluster_id = view.cluster_id
  BY DEF UpdateHeartbeat, View
<1> HIDE DEF stamped
<1>2. ASSUME NEW m \in Node
      PROVE  /\ view.known_nodes[m].last_heartbeat <= stamped.known_nodes[m].last_heartbeat
             /\ m \in Known(view) => m \in Known(stamped)
  <2>1. view.known_nodes[m].last_heartbeat \in Nat
    BY DEF View, Entry
  <2>2. CASE m = n
    BY <1>1, <2>1, <2>2 DEF Past, Alive, Known, View
  <2>3. CASE m # n
    BY <1>1, <2>1, <2>3 DEF Known, View
  <2> QED  BY <2>2, <2>3
<1> QED
  BY <1>1, <1>2 DEF Grows, Known, stamped

LEMMA ReapGrows ==
    ASSUME NEW view \in View, NEW at \in Nat
    PROVE  Grows(view, MarkDeadNodes(view, at))
<1> DEFINE reaped == MarkDeadNodes(view, at)
<1>1. reaped.cluster_id = view.cluster_id
  BY DEF MarkDeadNodes, View
<1>2. ASSUME NEW m \in Node
      PROVE  /\ view.known_nodes[m].last_heartbeat <= reaped.known_nodes[m].last_heartbeat
             /\ m \in Known(view) => m \in Known(reaped)
  <2>1. reaped.known_nodes[m] =
          IF m \in Known(view) /\ Stale(view.known_nodes[m], at)
          THEN [view.known_nodes[m] EXCEPT !.status = "dead"]
          ELSE view.known_nodes[m]
    BY DEF MarkDeadNodes, View
  <2>2. view.known_nodes[m] \in Entry /\ view.known_nodes[m].last_heartbeat \in Nat
    BY DEF View, Entry
  <2> HIDE DEF reaped
  <2> QED  BY <2>1, <2>2 DEF Known, Entry
<1> HIDE DEF reaped
<1>3. Grows(view, reaped)
  BY <1>1, <1>2 DEF Grows, Known
<1> QED
  BY <1>3 DEF reaped

LEMMA ElectGrows ==
    ASSUME NEW view \in View, NEW at \in Nat
    PROVE  Grows(view, ElectLeader(view, at))
BY ElectLeaderType, SameNodesGrow

LEMMA NextGrows ==
    ASSUME IInv, Next, NEW n \in Node, up[n], up'[n]
    PROVE  Grows(mem[n], mem'[n])
<1>0. /\ mem \in [Node -> View] /\ now \in Nat
      /\ \A m \in Node : mem[m] \in View /\ disk[m] \in View
  BY DEF IInv, TypeOK
<1>1. \A m \in Node : up[m] => Grows(mem[m], disk[m])
  BY RunningNode, ReloadGrows
<1>2. ASSUME NEW m \in Node, NEW view \in View,
             mem' = [mem EXCEPT ![m] = view], up[m], Grows(disk[m], view)
      PROVE  Grows(mem[n], mem'[n])
  <2>1. Grows(mem[m], view)
    BY <1>0, <1>1, <1>2, GrowsTransitive
  <2> QED  BY <1>0, <1>2, <2>1, SaveGrows
<1>3. ASSUME UNCHANGED mem
      PROVE  Grows(mem[n], mem'[n])
  BY <1>0, <1>3, SameNodesGrow
<1>4. ASSUME NEW m \in Node, Tick(m)
      PROVE  Grows(mem[n], mem'[n])
  <2>0. m \in Node /\ mem[m] \in View /\ disk[m] \in View /\ Past(mem[m].known_nodes, now)
    BY <1>4, RunningNode
  <2>1. up[m]
    BY <1>4 DEF Tick, LeaderTick, FollowTick, LeaderAnswers, LeaderMissed, TriggerElection,
                Missed, Announce, QuorumLost, QuorumHeld, Counted, Publish,
                IInv, SuspendedOnlyIfUp
  <2>2. Stamped(m) \in View /\ Grows(mem[m], Stamped(m))
    BY <1>0, <2>0, UpdateHeartbeatType, StampGrows DEF Stamped
  <2>3. Reaped(m) \in View /\ Grows(mem[m], Reaped(m))
    BY <1>0, <2>0, <2>2, MarkDeadNodesType, ReapGrows, GrowsTransitive DEF Reaped
  <2>4. CASE LeaderTick(m)
    <3>1. mem' = [mem EXCEPT ![m] = Stamped(m)]
      BY <2>4 DEF LeaderTick, Save
    <3> QED  BY <1>0, <2>2, <3>1, SaveGrows
  <2>5. CASE FollowTick(m)
    <3>1. mem' = [mem EXCEPT ![m] = Consulted(m)]
      BY <2>5 DEF FollowTick
    <3>2. Consulted(m) \in View /\ Grows(mem[m], Consulted(m))
      BY <1>0, <2>0, <2>3, ElectLeaderType, ElectGrows, GrowsTransitive
         DEF Consulted, GetLeader
    <3> QED  BY <1>0, <3>1, <3>2, SaveGrows
  <2>6. CASE TriggerElection(m)
    <3>1. mem' = [mem EXCEPT ![m] = ElectLeader(mem[m], now)]
      BY <2>6 DEF TriggerElection, Save
    <3>2. ElectLeader(mem[m], now) \in View /\ Grows(mem[m], ElectLeader(mem[m], now))
      BY <1>0, <2>0, ElectLeaderType, ElectGrows
    <3> QED  BY <1>0, <3>1, <3>2, SaveGrows
  <2>7. CASE Announce(m)
    <3>1. mem' = [mem EXCEPT ![m] = ElectLeader(disk[m], now)]
      BY <2>7 DEF Announce, Keep
    <3>2. ElectLeader(disk[m], now) \in View /\ Grows(disk[m], ElectLeader(disk[m], now))
      BY <1>0, <2>0, ElectLeaderType, ElectGrows
    <3> QED  BY <1>2, <2>1, <3>1, <3>2
  <2>8. CASE LeaderAnswers(m) \/ LeaderMissed(m) \/ QuorumLost(m) \/ QuorumHeld(m)
             \/ Publish(m)
    BY <1>3, <2>8 DEF LeaderAnswers, LeaderMissed, QuorumLost, QuorumHeld, Publish
  <2> QED  BY <1>4, <2>4, <2>5, <2>6, <2>7, <2>8 DEF Tick
<1>5. ASSUME NEW m \in Node, Endpoint(m)
      PROVE  Grows(mem[n], mem'[n])
  <2>0. /\ mem[m] \in View /\ disk[m] \in View
        /\ Past(mem[m].known_nodes, now) /\ Past(disk[m].known_nodes, now)
    BY <1>5, RunningNode
  <2>1. up[m]
    BY <1>5 DEF Endpoint, ClusterStatus, WellKnown, WorkerCall, ClusterCreate, ClusterJoin,
                Serving
  <2>2. CASE ClusterStatus(m) \/ WorkerCall(m)
    <3>1. mem' = [mem EXCEPT ![m] = ElectLeader(mem[m], now)]
      BY <2>2 DEF ClusterStatus, WorkerCall, Save, Keep
    <3>2. ElectLeader(mem[m], now) \in View /\ Grows(mem[m], ElectLeader(mem[m], now))
      BY <1>0, <2>0, ElectLeaderType, ElectGrows
    <3> QED  BY <1>0, <3>1, <3>2, SaveGrows
  <2>3. CASE WellKnown(m)
    <3>1. mem' = [mem EXCEPT ![m] = disk[m]]
      BY <2>3 DEF WellKnown, Keep
    <3>2. Grows(disk[m], disk[m])
      BY <2>0, SameNodesGrow
    <3> QED  BY <1>2, <2>0, <2>1, <3>1, <3>2
  <2>4. CASE ClusterCreate(m)
    <3> DEFINE booted == Boot(m, disk[m], now)
    <3>1. PICK cid \in ClusterId :
            /\ mem' = [mem EXCEPT ![m] =
                        [booted EXCEPT !.cluster_id = cid, !.join_token = TRUE]]
            /\ disk[m].cluster_id \in {NoCluster, cid}
      BY <2>4 DEF ClusterCreate, Save
    <3>2. /\ booted \in View
          /\ booted.known_nodes = [disk[m].known_nodes EXCEPT
                 ![m] = MergeEntry(disk[m].known_nodes[m], Alive(now))]
      BY <1>0, <2>0, BootIsGood
    <3> HIDE DEF booted
    <3> DEFINE created == [booted EXCEPT !.cluster_id = cid, !.join_token = TRUE]
    <3>3. /\ created \in View
          /\ created.known_nodes = booted.known_nodes
          /\ created.cluster_id = cid
      BY <3>2 DEF View
    <3> HIDE DEF created
    <3>4. Grows(disk[m], created)
      <4>1. /\ created.known_nodes = [disk[m].known_nodes EXCEPT
                  ![m] = MergeEntry(disk[m].known_nodes[m], Alive(now))]
            /\ created.cluster_id = disk[m].cluster_id \/ disk[m].cluster_id = NoCluster
        BY <3>1, <3>2, <3>3
      <4> QED  BY <1>0, <2>0, <3>3, <4>1, BootGrows
    <3> QED  BY <1>2, <2>1, <3>1, <3>3, <3>4 DEF created
  <2>5. ASSUME NEW j \in Node, ClusterJoin(j, m)  PROVE Grows(mem[n], mem'[n])
    <3>1. PICK heartbeat \in {0, now} :
            Save(m, ElectLeader(AddOrUpdateNode(disk[m], j, Alive(heartbeat)), now))
      BY <2>5 DEF ClusterJoin
    <3> DEFINE joined == ElectLeader(AddOrUpdateNode(disk[m], j, Alive(heartbeat)), now)
    <3>2. heartbeat \in 0..now /\ heartbeat \in Nat /\ j # m /\ GoodView(m, disk[m], now)
      BY <1>0, <2>1, <2>5, RunningNode DEF ClusterJoin
    <3>3. /\ joined \in View
          /\ joined.cluster_id = disk[m].cluster_id
          /\ joined.known_nodes = [disk[m].known_nodes EXCEPT
                 ![j] = MergeEntry(disk[m].known_nodes[j], Alive(heartbeat))]
      <4>1. disk[m] \in View /\ Past(disk[m].known_nodes, now) /\ now \in Nat
        BY <1>0, <2>0
      <4> QED  BY <4>1, <3>2, JoinIsGood
    <3>4. mem' = [mem EXCEPT ![m] = joined]
      BY <3>1 DEF Save
    <3> HIDE DEF joined
    <3>5. Grows(disk[m], joined)
      BY <1>0, <2>0, <3>2, <3>3, BootGrows
    <3> QED  BY <1>2, <2>1, <3>3, <3>4, <3>5
  <2> QED  BY <1>5, <2>2, <2>3, <2>4, <2>5 DEF Endpoint
<1>6. ASSUME NEW m \in Node, Crash(m) \/ Restart(m)
      PROVE  Grows(mem[n], mem'[n])
  <2>1. m # n
    BY <1>6 DEF Crash, Restart, IInv, TypeOK
  <2>2. mem'[n] = mem[n]
    BY <1>0, <1>6, <2>1 DEF Crash, Restart, Save
  <2> QED  BY <1>0, <2>2, SameNodesGrow
<1>7. ASSUME NEW s \in net, ClusterSync(s)
      PROVE  Grows(mem[n], mem'[n])
  <2> DEFINE m == s.to
             merged == MergeClusterState(disk[m], s.cluster_id, s.known_nodes, now)
  <2>0. /\ m \in Node /\ s.cluster_id \in ClusterId
        /\ s.known_nodes \in [Node -> Entry]
        /\ s.known_nodes[m].status = "alive" /\ Past(s.known_nodes, now)
    BY <1>7 DEF IInv, TypeOK, Message, NetSparesReceiver, NoFutureHeartbeat
  <2>1. up[m]
    BY <1>7 DEF ClusterSync, Reach
  <2>2. disk[m] \in View /\ Past(disk[m].known_nodes, now) /\ GoodView(m, disk[m], now)
    BY <2>0, <2>1, RunningNode
  <2>3. CASE disk[m].cluster_id \in {NoCluster, s.cluster_id}
    <3>1. mem' = [mem EXCEPT ![m] = merged]
      BY <1>7, <2>3 DEF ClusterSync, Save
    <3>2. /\ merged \in View
          /\ merged.cluster_id = s.cluster_id
          /\ Known(disk[m]) \subseteq Known(merged)
          /\ \A k \in Node : disk[m].known_nodes[k].last_heartbeat
                                <= merged.known_nodes[k].last_heartbeat
      BY <1>0, <2>0, <2>2, MergeIsGood
    <3>3. Grows(disk[m], merged)
      BY <2>3, <3>2 DEF Grows
    <3> HIDE DEF merged, m
    <3> QED  BY <1>2, <2>0, <2>1, <3>1, <3>2, <3>3
  <2>4. CASE disk[m].cluster_id \notin {NoCluster, s.cluster_id}
    <3>1. mem' = [mem EXCEPT ![m] = disk[m]]
      BY <1>7, <2>4 DEF ClusterSync, Keep
    <3>2. Grows(disk[m], disk[m])
      BY <2>2, SameNodesGrow
    <3> HIDE DEF m
    <3> QED  BY <1>2, <2>0, <2>1, <2>2, <3>1, <3>2
  <2> QED  BY <2>3, <2>4
<1>8. CASE Split \/ Heal \/ Advance \/ \E s \in net : SyncFails(s)
  BY <1>3, <1>8 DEF Split, Heal, Advance, SyncFails
<1> QED
  BY <1>4, <1>5, <1>6, <1>7, <1>8 DEF Next

THEOREM KnowledgeOnlyGrows == Spec => HeartbeatsOnlyMoveForward
<1> DEFINE A == \A n \in Node : up[n] /\ up'[n] => Grows(mem[n], mem'[n])
<1>1. IInv /\ Next => A
  BY NextGrows
<1>2. IInv /\ [Next]_vars => [A]_vars
  BY <1>1
<1> QED
  BY <1>2, InductiveInvariant, PTL DEF Spec, HeartbeatsOnlyMoveForward

-----------------------------------------------------------------------------
(* The second action property: nobody vouches for a node that is down.      *)

\* Whatever one node's copies and the messages become, they hold no heartbeat
\* of m above the bound.
Quiet(nodes, m, at) == nodes[m].last_heartbeat <= at

LEMMA CopiesStayQuiet ==
    ASSUME TypeOK, NEW m \in Node, NEW at \in Nat, HeardBy(m, at), NEW n \in Node,
           NEW inMem \in View, NEW onDisk \in View,
           Quiet(inMem.known_nodes, m, at), Quiet(onDisk.known_nodes, m, at),
           mem'  \in {mem,  [mem  EXCEPT ![n] = inMem]},
           disk' \in {disk, [disk EXCEPT ![n] = onDisk]},
           \A s \in net' \ net : Quiet(s.known_nodes, m, at)
    PROVE  HeardBy(m, at)'
<1>1. ASSUME NEW k \in Node
      PROVE  /\ mem'[k].known_nodes[m].last_heartbeat <= at
             /\ disk'[k].known_nodes[m].last_heartbeat <= at
  BY DEF TypeOK, HeardBy, Quiet
<1>2. \A s \in net' : s.known_nodes[m].last_heartbeat <= at
  BY DEF HeardBy, Quiet
<1> QED
  BY <1>1, <1>2 DEF HeardBy

\* What the functions of cluster_state.py do to the entry of another node.
LEMMA StampSparesOthers ==
    ASSUME NEW view \in View, NEW n \in Node, NEW m \in Node, m # n, NEW time
    PROVE  UpdateHeartbeat(view, n, time).known_nodes[m] = view.known_nodes[m]
BY DEF UpdateHeartbeat, View

LEMMA BootSparesOthers ==
    ASSUME NEW n \in Node, NEW view \in View, NEW time \in Nat,
           Past(view.known_nodes, time), NEW m \in Node, m # n
    PROVE  /\ Boot(n, view, time) \in View
           /\ Boot(n, view, time).known_nodes[m] = view.known_nodes[m]
<1>1. view.known_nodes \in [Node -> Entry]
  BY DEF View
<1>2. /\ Boot(n, view, time) \in View
      /\ Boot(n, view, time).known_nodes =
           [view.known_nodes EXCEPT ![n] = MergeEntry(view.known_nodes[n], Alive(time))]
  BY BootIsGood
<1> QED
  BY <1>1, <1>2

LEMMA ReapKeepsHeartbeats ==
    ASSUME NEW view \in View, NEW m \in Node, NEW time \in Nat
    PROVE  MarkDeadNodes(view, time).known_nodes[m].last_heartbeat
             = view.known_nodes[m].last_heartbeat
<1>1. MarkDeadNodes(view, time).known_nodes[m] =
        IF m \in Known(view) /\ Stale(view.known_nodes[m], time)
        THEN [view.known_nodes[m] EXCEPT !.status = "dead"]
        ELSE view.known_nodes[m]
  BY DEF MarkDeadNodes, View
<1>2. view.known_nodes[m] \in Entry
  BY DEF View
<1> QED
  BY <1>1, <1>2 DEF Entry

LEMMA TickIsQuiet ==
    ASSUME IInv, NEW m \in Node, ~up[m], NEW at \in Nat, HeardBy(m, at),
           NEW n \in Node, Tick(n)
    PROVE  HeardBy(m, at)'
<1>0. TypeOK /\ now \in Nat /\ mem[n] \in View /\ disk[n] \in View
  BY RunningNode DEF IInv
<1>1. m # n
  BY DEF Tick, LeaderTick, FollowTick, LeaderAnswers, LeaderMissed, TriggerElection,
         Missed, Announce, QuorumLost, QuorumHeld, Counted, Publish,
         IInv, SuspendedOnlyIfUp
<1>2. Quiet(mem[n].known_nodes, m, at) /\ Quiet(disk[n].known_nodes, m, at)
  BY DEF HeardBy, Quiet
<1>3. Stamped(n) \in View /\ Quiet(Stamped(n).known_nodes, m, at)
  BY <1>0, <1>1, <1>2, UpdateHeartbeatType, StampSparesOthers DEF Stamped, Quiet
<1>4. CASE LeaderTick(n)
  <2>1. /\ mem' = [mem EXCEPT ![n] = Stamped(n)]
        /\ disk' = [disk EXCEPT ![n] = Stamped(n)] /\ net' = net
    BY <1>4 DEF LeaderTick, Save
  <2> QED  BY <1>0, <1>3, <2>1, CopiesStayQuiet
<1>5. CASE FollowTick(n)
  <2>1. Reaped(n) \in View /\ Quiet(Reaped(n).known_nodes, m, at)
    BY <1>0, <1>3, MarkDeadNodesType, ReapKeepsHeartbeats DEF Reaped, Quiet
  <2>2. Consulted(n) \in View /\ Quiet(Consulted(n).known_nodes, m, at)
    BY <1>0, <2>1, ElectLeaderType DEF Consulted, GetLeader, Quiet
  <2>3. /\ mem' = [mem EXCEPT ![n] = Consulted(n)]
        /\ disk' = [disk EXCEPT ![n] = Stamped(n)] /\ net' = net
    BY <1>5 DEF FollowTick
  <2> QED  BY <1>0, <1>3, <2>2, <2>3, CopiesStayQuiet
<1>6. CASE TriggerElection(n)
  <2> DEFINE elected == ElectLeader(mem[n], now)
  <2>1. elected \in View /\ Quiet(elected.known_nodes, m, at)
    BY <1>0, <1>2, ElectLeaderType DEF Quiet
  <2>2. /\ mem' = [mem EXCEPT ![n] = elected]
        /\ disk' = [disk EXCEPT ![n] = elected] /\ net' = net
    BY <1>6 DEF TriggerElection, Save
  <2> HIDE DEF elected
  <2> QED  BY <1>0, <2>1, <2>2, CopiesStayQuiet
<1>7. CASE Announce(n)
  <2> DEFINE view == ElectLeader(disk[n], now)
  <2>1. view \in View /\ Quiet(view.known_nodes, m, at)
    BY <1>0, <1>2, ElectLeaderType DEF Quiet
  <2>2. mem' = [mem EXCEPT ![n] = view] /\ disk' = disk
    BY <1>7 DEF Announce, Keep
  <2>3. \A s \in net' \ net : s.known_nodes = view.known_nodes
    BY <1>7 DEF Announce
  <2>4. \A s \in net' \ net : Quiet(s.known_nodes, m, at)
    BY <2>1, <2>3 DEF Quiet
  <2> HIDE DEF view
  <2> QED  BY <1>0, <2>1, <2>2, <2>4, CopiesStayQuiet
<1>8. CASE LeaderAnswers(n) \/ LeaderMissed(n) \/ QuorumLost(n) \/ QuorumHeld(n)
           \/ Publish(n)
  BY <1>8 DEF LeaderAnswers, LeaderMissed, QuorumLost, QuorumHeld, Publish, HeardBy
<1> QED
  BY <1>4, <1>5, <1>6, <1>7, <1>8 DEF Tick

LEMMA EndpointIsQuiet ==
    ASSUME IInv, NEW m \in Node, ~up[m], NEW at \in Nat, HeardBy(m, at),
           NEW n \in Node, Endpoint(n)
    PROVE  HeardBy(m, at)'
<1>0. TypeOK /\ now \in Nat /\ mem[n] \in View /\ disk[n] \in View
      /\ Past(disk[n].known_nodes, now)
  BY RunningNode DEF IInv
<1>1. m # n
  BY DEF Endpoint, ClusterStatus, WellKnown, WorkerCall, ClusterCreate, ClusterJoin, Serving
<1>2. Quiet(mem[n].known_nodes, m, at) /\ Quiet(disk[n].known_nodes, m, at)
  BY DEF HeardBy, Quiet
<1>3. CASE ClusterStatus(n) \/ WorkerCall(n)
  <2> DEFINE elected == ElectLeader(mem[n], now)
  <2>1. elected \in View /\ Quiet(elected.known_nodes, m, at)
    BY <1>0, <1>2, ElectLeaderType DEF Quiet
  <2>2. /\ mem' = [mem EXCEPT ![n] = elected]
        /\ disk' \in {disk, [disk EXCEPT ![n] = elected]} /\ net' = net
    BY <1>3 DEF ClusterStatus, WorkerCall, Save, Keep
  <2> HIDE DEF elected
  <2> QED  BY <1>0, <2>1, <2>2, CopiesStayQuiet
<1>4. CASE WellKnown(n)
  <2>1. mem' = [mem EXCEPT ![n] = disk[n]] /\ disk' = disk /\ net' = net
    BY <1>4 DEF WellKnown, Keep
  <2> QED  BY <1>0, <1>2, <2>1, CopiesStayQuiet
<1>5. CASE ClusterCreate(n)
  <2> DEFINE booted == Boot(n, disk[n], now)
  <2>1. PICK cid \in ClusterId :
          Save(n, [booted EXCEPT !.cluster_id = cid, !.join_token = TRUE])
    BY <1>5 DEF ClusterCreate
  <2>2. booted \in View /\ booted.known_nodes[m] = disk[n].known_nodes[m]
    BY <1>0, <1>1, BootSparesOthers
  <2> HIDE DEF booted
  <2> DEFINE created == [booted EXCEPT !.cluster_id = cid, !.join_token = TRUE]
  <2>3. created \in View /\ Quiet(created.known_nodes, m, at)
    BY <1>2, <2>2 DEF View, Quiet
  <2>4. /\ mem' = [mem EXCEPT ![n] = created]
        /\ disk' = [disk EXCEPT ![n] = created] /\ net' = net
    BY <1>5, <2>1 DEF ClusterCreate, Save
  <2> HIDE DEF created
  <2> QED  BY <1>0, <2>3, <2>4, CopiesStayQuiet
<1>6. ASSUME NEW j \in Node, ClusterJoin(j, n)  PROVE HeardBy(m, at)'
  <2>1. PICK heartbeat \in {0, now} :
          Save(n, ElectLeader(AddOrUpdateNode(disk[n], j, Alive(heartbeat)), now))
    BY <1>6 DEF ClusterJoin
  <2> DEFINE added  == AddOrUpdateNode(disk[n], j, Alive(heartbeat))
             joined == ElectLeader(added, now)
  <2>2. m # j /\ Alive(heartbeat) \in Entry
    BY <1>0, <1>6 DEF ClusterJoin, Alive, Entry, Status
  <2>3. added \in View /\ added.known_nodes[m] = disk[n].known_nodes[m]
    BY <1>0, <2>2, AddOrUpdateNodeType DEF AddOrUpdateNode, View
  <2> HIDE DEF added
  <2>4. joined \in View /\ Quiet(joined.known_nodes, m, at)
    BY <1>0, <1>2, <2>3, ElectLeaderType DEF Quiet
  <2>5. /\ mem' = [mem EXCEPT ![n] = joined]
        /\ disk' = [disk EXCEPT ![n] = joined] /\ net' = net
    BY <1>6, <2>1 DEF ClusterJoin, Save, added
  <2> HIDE DEF joined
  <2> QED  BY <1>0, <2>4, <2>5, CopiesStayQuiet
<1> QED
  BY <1>3, <1>4, <1>5, <1>6 DEF Endpoint

LEMMA SyncIsQuiet ==
    ASSUME IInv, NEW m \in Node, NEW at \in Nat, HeardBy(m, at),
           NEW s \in net, ClusterSync(s)
    PROVE  HeardBy(m, at)'
<1> DEFINE n == s.to
           merged == MergeClusterState(disk[n], s.cluster_id, s.known_nodes, now)
<1>0. /\ TypeOK /\ n \in Node /\ s.cluster_id \in ClusterId
      /\ s.known_nodes \in [Node -> Entry]
      /\ s.known_nodes[n].status = "alive" /\ Past(s.known_nodes, now)
  BY DEF IInv, TypeOK, Message, NetSparesReceiver, NoFutureHeartbeat
<1>1. /\ up[n] /\ now \in Nat /\ disk[n] \in View
      /\ Past(disk[n].known_nodes, now) /\ GoodView(n, disk[n], now)
  BY <1>0, RunningNode DEF ClusterSync, Reach
<1>2. Quiet(disk[n].known_nodes, m, at) /\ Quiet(s.known_nodes, m, at)
  BY <1>0 DEF HeardBy, Quiet
<1>3. merged \in View /\ Quiet(merged.known_nodes, m, at)
  <2>1. /\ merged \in View
        /\ merged.known_nodes[m].last_heartbeat
             \in {disk[n].known_nodes[m].last_heartbeat, s.known_nodes[m].last_heartbeat}
    BY <1>0, <1>1, MergeIsGood
  <2> HIDE DEF merged
  <2> QED  BY <1>2, <2>1 DEF Quiet
<1>4. /\ \/ /\ mem' = [mem EXCEPT ![n] = merged]
            /\ disk' = [disk EXCEPT ![n] = merged]
         \/ /\ mem' = [mem EXCEPT ![n] = disk[n]]
            /\ disk' = disk
      /\ net' \subseteq net
  BY DEF ClusterSync, Save, Keep
<1> HIDE DEF n, merged
<1> QED
  BY <1>0, <1>1, <1>2, <1>3, <1>4, CopiesStayQuiet

LEMMA NextIsQuiet ==
    ASSUME IInv, Next, NEW m \in Node, ~up[m], ~up'[m], NEW at \in Nat, HeardBy(m, at)
    PROVE  HeardBy(m, at)'
<1>0. TypeOK
  BY DEF IInv
<1>1. ASSUME NEW n \in Node, Crash(n)  PROVE HeardBy(m, at)'
  <2>1. EmptyView \in View /\ Quiet(EmptyView.known_nodes, m, at)
    BY EmptyViewType DEF EmptyView, Absent, Quiet
  <2>2. /\ mem' = [mem EXCEPT ![n] = EmptyView] /\ net' = net
        /\ disk' = disk \/ disk' = [disk EXCEPT ![n] = EmptyView]
    BY <1>0, <1>1, ZenonT(60) DEF Crash, TypeOK
  <2> QED  BY <1>0, <2>1, <2>2, CopiesStayQuiet
<1>2. ASSUME NEW n \in Node, Restart(n)  PROVE HeardBy(m, at)'
  <2> DEFINE booted == Boot(n, disk[n], now)
  <2>1. m # n
    BY <1>0, <1>2 DEF Restart, TypeOK
  <2>2. booted \in View /\ booted.known_nodes[m] = disk[n].known_nodes[m]
    BY <2>1, RunningNode, BootSparesOthers
  <2>3. Quiet(booted.known_nodes, m, at)
    BY <2>2 DEF HeardBy, Quiet
  <2>4. /\ mem' = [mem EXCEPT ![n] = booted]
        /\ disk' = [disk EXCEPT ![n] = booted] /\ net' = net
    BY <1>2 DEF Restart, Save
  <2> HIDE DEF booted
  <2> QED  BY <1>0, <2>2, <2>3, <2>4, CopiesStayQuiet
<1>3. CASE Split \/ Heal \/ Advance \/ \E s \in net : SyncFails(s)
  BY <1>3 DEF Split, Heal, Advance, SyncFails, HeardBy
<1> QED
  BY <1>1, <1>2, <1>3, TickIsQuiet, EndpointIsQuiet, SyncIsQuiet DEF Next

\* No exchange of states, reload or restart of other nodes makes a node that is
\* down look more recent than the most recent record of it.
THEOREM GossipRevivesNobody == Spec => CrashedNodesFallSilent
<1> DEFINE A == \A m \in Node : ~up[m] /\ ~up'[m] =>
                  \A at \in 0..now : HeardBy(m, at) => HeardBy(m, at)'
<1>1. IInv /\ Next => A
  BY NextIsQuiet DEF IInv, TypeOK
<1>2. IInv /\ [Next]_vars => [A]_vars
  BY <1>1
<1> QED
  BY <1>2, InductiveInvariant, PTL DEF Spec, CrashedNodesFallSilent

=============================================================================
