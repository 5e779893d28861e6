----------------------- MODULE ClusterGossip_proofs -----------------------
(***************************************************************************)
(* LeaderElection implements ClusterGossip: what each handler of the node  *)
(* does to its state file is one exchange of heartbeats, or nothing.  The  *)
(* cluster's records are those of the files, and the inductive invariant   *)
(* of LeaderElection keeps the state in memory close enough to its file    *)
(* for every handler that saves what it had in memory.                     *)
(***************************************************************************)
EXTENDS LeaderElection_proofs

\* A missing entry stands for "never heard from": what merge_cluster_state
\* skips would not have changed a heartbeat.
Silent(nodes) ==
    \A m \in Node : nodes[m].status = "absent" => nodes[m].last_heartbeat = 0

AbsentIsSilent ==
    /\ \A n \in Node : Silent(mem[n].known_nodes) /\ Silent(disk[n].known_nodes)
    /\ \A s \in net : Silent(s.known_nodes)

-----------------------------------------------------------------------------
(* What the functions of cluster_state.py do to the heartbeats.             *)

LEMMA StampHeard ==
    ASSUME NEW view \in View, NEW n \in Node, NEW at \in Nat
    PROVE  LET stamped == UpdateHeartbeat(view, n, at) IN
           /\ stamped \in View
           /\ stamped.cluster_id = view.cluster_id
           /\ Heartbeats(stamped.known_nodes)
                = [Heartbeats(view.known_nodes) EXCEPT ![n] = at]
           /\ Silent(view.known_nodes) => Silent(stamped.known_nodes)
<1> DEFINE stamped == UpdateHeartbeat(view, n, at)
<1>1. stamped \in View
  BY UpdateHeartbeatType
<1>2. /\ stamped.cluster_id = view.cluster_id
      /\ stamped.known_nodes = [view.known_nodes EXCEPT ![n] = Alive(at)]
      /\ view.known_nodes \in [Node -> Entry]
  BY DEF UpdateHeartbeat, View
<1> DEFINE entry == Alive(at)
<1>3. entry.last_heartbeat = at
  BY DEF Alive
<1> HIDE DEF stamped
<1>4. Heartbeats(stamped.known_nodes) = [Heartbeats(view.known_nodes) EXCEPT ![n] = at]
  <2>1. stamped.known_nodes = [view.known_nodes EXCEPT ![n] = entry]
    BY <1>2
  <2> HIDE DEF entry
  <2> QED  BY <1>2, <1>3, <2>1 DEF Heartbeats
<1>5. Silent(view.known_nodes) => Silent(stamped.known_nodes)
  BY <1>2 DEF Silent, Alive
<1> QED
  BY <1>1, <1>2, <1>4, <1>5 DEF stamped

LEMMA AddHeard ==
    ASSUME NEW view \in View, NEW j \in Node, NEW at \in Nat
    PROVE  LET added == AddOrUpdateNode(view, j, Alive(at)) IN
           /\ added \in View
           /\ added.cluster_id = view.cluster_id
           /\ Heartbeats(added.known_nodes)
                = [Heartbeats(view.known_nodes) EXCEPT ![j] = Gossip!Later(@, at)]
           /\ Silent(view.known_nodes) => Silent(added.known_nodes)
<1> DEFINE added  == AddOrUpdateNode(view, j, Alive(at))
           merged == MergeEntry(view.known_nodes[j], Alive(at))
<1>1. Alive(at) \in Entry /\ view.known_nodes \in [Node -> Entry]
  BY DEF Alive, Entry, Status, View
<1>2. added \in View
  BY <1>1, AddOrUpdateNodeType
<1>3. /\ added.cluster_id = view.cluster_id
      /\ added.known_nodes = [view.known_nodes EXCEPT ![j] = merged]
  BY DEF AddOrUpdateNode, View
<1>4. /\ merged.last_heartbeat = Gossip!Later(view.known_nodes[j].last_heartbeat, at)
      /\ merged.status = "alive"
  BY DEF MergeEntry, Alive, Gossip!Later
<1> HIDE DEF added, merged
<1>5. Heartbeats(added.known_nodes)
        = [Heartbeats(view.known_nodes) EXCEPT ![j] = Gossip!Later(@, at)]
  BY <1>1, <1>3, <1>4 DEF Heartbeats
<1>6. Silent(view.known_nodes) => Silent(added.known_nodes)
  BY <1>1, <1>3, <1>4 DEF Silent
<1> QED
  BY <1>2, <1>3, <1>5, <1>6 DEF added

\* Boot, where no heartbeat is ahead of the clock, is a stamp.
LEMMA BootHeard ==
    ASSUME NEW view \in View, NEW n \in Node, NEW at \in Nat, Past(view.known_nodes, at)
    PROVE  /\ Boot(n, view, at) \in View
           /\ Boot(n, view, at).cluster_id = view.cluster_id
           /\ Heartbeats(Boot(n, view, at).known_nodes)
                = [Heartbeats(view.known_nodes) EXCEPT ![n] = at]
           /\ Silent(view.known_nodes) => Silent(Boot(n, view, at).known_nodes)
<1> DEFINE added == AddOrUpdateNode(view, n, Alive(at))
<1>1. /\ added \in View
      /\ added.cluster_id = view.cluster_id
      /\ Heartbeats(added.known_nodes)
           = [Heartbeats(view.known_nodes) EXCEPT ![n] = Gossip!Later(@, at)]
      /\ Silent(view.known_nodes) => Silent(added.known_nodes)
  BY AddHeard
<1>2. Gossip!Later(Heartbeats(view.known_nodes)[n], at) = at
  BY DEF Gossip!Later, Heartbeats, Past, View, Entry
<1>3. Boot(n, view, at) = ElectLeader(added, at)
  BY DEF Boot
<1> HIDE DEF added
<1>4. /\ Boot(n, view, at) \in View
      /\ Boot(n, view, at).cluster_id = added.cluster_id
      /\ Boot(n, view, at).known_nodes = added.known_nodes
  BY <1>1, <1>3, ElectLeaderType
<1> QED
  BY <1>1, <1>2, <1>4

LEMMA MergeHeard ==
    ASSUME NEW view \in View, NEW cid \in ClusterId, NEW nodes \in [Node -> Entry],
           NEW at \in Nat, Silent(nodes)
    PROVE  LET merged == MergeClusterState(view, cid, nodes, at) IN
           /\ merged \in View
           /\ merged.cluster_id = cid
           /\ Heartbeats(merged.known_nodes)
                = Gossip!Merged(Heartbeats(view.known_nodes), Heartbeats(nodes))
           /\ Silent(view.known_nodes) => Silent(merged.known_nodes)
<1> DEFINE known  == [m \in Node |-> IF nodes[m].status = "absent"
                                     THEN view.known_nodes[m]
                                     ELSE MergeEntry(view.known_nodes[m], nodes[m])]
           before == [view EXCEPT !.cluster_id = cid, !.known_nodes = known]
           merged == MergeClusterState(view, cid, nodes, at)
<1>0. view.known_nodes \in [Node -> Entry]
  BY DEF View
<1>1. ASSUME NEW m \in Node
      PROVE  /\ known[m] \in Entry
             /\ known[m].last_heartbeat
                  = Gossip!Later(view.known_nodes[m].last_heartbeat,
                                 nodes[m].last_heartbeat)
             /\ Silent(view.known_nodes) /\ known[m].status = "absent" =>
                  known[m].last_heartbeat = 0
  <2>1. view.known_nodes[m] \in Entry /\ nodes[m] \in Entry
    BY <1>0
  <2>2. CASE nodes[m].status = "absent"
    <3>1. nodes[m].last_heartbeat = 0
      BY <2>2 DEF Silent
    <3>2. known[m] = view.known_nodes[m]
      BY <2>2
    <3> HIDE DEF known
    <3> QED  BY <2>1, <3>1, <3>2 DEF Gossip!Later, Silent, Entry
  <2>3. CASE nodes[m].status # "absent"
    <3>1. known[m] = MergeEntry(view.known_nodes[m], nodes[m])
      BY <2>3
    <3> HIDE DEF known
    <3>2. known[m] \in Entry /\ known[m].status # "absent"
      BY <2>1, <2>3, <3>1, MergeEntryType
    <3>3. known[m].last_heartbeat
            = Gossip!Later(view.known_nodes[m].last_heartbeat, nodes[m].last_heartbeat)
      BY <3>1 DEF MergeEntry, Gossip!Later
    <3> QED  BY <3>2, <3>3
  <2> QED  BY <2>2, <2>3
<1>2. /\ before \in View
      /\ before.known_nodes = known
      /\ before.cluster_id = cid
  BY <1>1 DEF View
<1>3. merged = ElectLeader(before, at)
  BY DEF MergeClusterState
<1>4. /\ merged \in View
      /\ merged.known_nodes = known
      /\ merged.cluster_id = cid
  <2> HIDE DEF before, merged, known
  <2> QED  BY <1>2, <1>3, ElectLeaderType
<1> HIDE DEF known, merged
<1>5. Heartbeats(merged.known_nodes)
        = Gossip!Merged(Heartbeats(view.known_nodes), Heartbeats(nodes))
  BY <1>1, <1>4 DEF Heartbeats, Gossip!Merged
<1>6. Silent(view.known_nodes) => Silent(merged.known_nodes)
  BY <1>1, <1>4 DEF Silent
<1> QED
  BY <1>4, <1>5, <1>6 DEF merged

\* mark_dead_nodes changes no heartbeat and buries no entry that is missing.
LEMMA ReapHeard ==
    ASSUME NEW view \in View, NEW at \in Nat
    PROVE  LET reaped == MarkDeadNodes(view, at) IN
           /\ reaped \in View
           /\ Silent(view.known_nodes) => Silent(reaped.known_nodes)
<1> DEFINE reaped == MarkDeadNodes(view, at)
<1>1. reaped \in View
  BY MarkDeadNodesType
<1>2. ASSUME NEW m \in Node
      PROVE  reaped.known_nodes[m] =
               IF m \in Known(view) /\ Stale(view.known_nodes[m], at)
               THEN [view.known_nodes[m] EXCEPT !.status = "dead"]
               ELSE view.known_nodes[m]
  BY DEF MarkDeadNodes, View
<1>3. \A m \in Node : view.known_nodes[m] \in Entry
  BY DEF View
<1> HIDE DEF reaped
<1>4. Silent(view.known_nodes) => Silent(reaped.known_nodes)
  BY <1>2, <1>3 DEF Silent, Entry
<1> QED
  BY <1>1, <1>4 DEF reaped
-----------------------------------------------------------------------------
(* A missing entry is silent, in every copy and every message.              *)

LEMMA CopiesStaySilent ==
    ASSUME TypeOK, AbsentIsSilent, NEW n \in Node,
           NEW inMem \in View, NEW onDisk \in View,
           Silent(inMem.known_nodes), Silent(onDisk.known_nodes),
           mem'  \in {mem,  [mem  EXCEPT ![n] = inMem]},
           disk' \in {disk, [disk EXCEPT ![n] = onDisk]},
           \A s \in net' \ net : Silent(s.known_nodes)
    PROVE  AbsentIsSilent'
<1>1. ASSUME NEW k \in Node
      PROVE  Silent(mem'[k].known_nodes) /\ Silent(disk'[k].known_nodes)
  <2>1. mem'[k] \in {mem[k], inMem}
    BY DEF TypeOK
  <2>2. disk'[k] \in {disk[k], onDisk}
    BY DEF TypeOK
  <2> QED  BY <2>1, <2>2 DEF AbsentIsSilent
<1>2. \A s \in net' : Silent(s.known_nodes)
  BY DEF AbsentIsSilent
<1> QED
  BY <1>1, <1>2 DEF AbsentIsSilent, Silent

LEMMA TickIsSilent ==
    ASSUME IInv, AbsentIsSilent, NEW n \in Node, Tick(n)
    PROVE  AbsentIsSilent'
<1>0. /\ TypeOK /\ now \in Nat /\ mem[n] \in View /\ disk[n] \in View
      /\ Silent(mem[n].known_nodes) /\ Silent(disk[n].known_nodes)
  BY RunningNode DEF IInv, AbsentIsSilent
<1>1. Stamped(n) \in View /\ Silent(Stamped(n).known_nodes)
  BY <1>0, StampHeard DEF Stamped
<1>2. CASE LeaderTick(n)
  <2>1. /\ mem' = [mem EXCEPT ![n] = Stamped(n)]
        /\ disk' = [disk EXCEPT ![n] = Stamped(n)] /\ net' = net
    BY <1>2 DEF LeaderTick, Save
  <2> QED  BY <1>0, <1>1, <2>1, CopiesStaySilent
<1>3. CASE FollowTick(n)
  <2>1. Reaped(n) \in View /\ Silent(Reaped(n).known_nodes)
    BY <1>0, <1>1, ReapHeard DEF Reaped
  <2>2. Consulted(n) \in View /\ Silent(Consulted(n).known_nodes)
    BY <1>0, <2>1, ElectLeaderType DEF Consulted, GetLeader
  <2>3. /\ mem' = [mem EXCEPT ![n] = Consulted(n)]
        /\ disk' = [disk EXCEPT ![n] = Stamped(n)] /\ net' = net
    BY <1>3 DEF FollowTick
  <2> QED  BY <1>0, <1>1, <2>2, <2>3, CopiesStaySilent
<1>4. CASE TriggerElection(n)
  <2> DEFINE elected == ElectLeader(mem[n], now)
  <2>1. elected \in View /\ Silent(elected.known_nodes)
    BY <1>0, ElectLeaderType
  <2>2. /\ mem' = [mem EXCEPT ![n] = elected]
        /\ disk' = [disk EXCEPT ![n] = elected] /\ net' = net
    BY <1>4 DEF TriggerElection, Save
  <2> HIDE DEF elected
  <2> QED  BY <1>0, <2>1, <2>2, CopiesStaySilent
<1>5. CASE Announce(n)
  <2> DEFINE view == ElectLeader(disk[n], now)
  <2>1. view \in View /\ Silent(view.known_nodes)
    BY <1>0, ElectLeaderType
  <2>2. mem' = [mem EXCEPT ![n] = view] /\ disk' = disk
    BY <1>5 DEF Announce, Keep
  <2>3. \A s \in net' \ net : s.known_nodes = view.known_nodes
    BY <1>5 DEF Announce
  <2> HIDE DEF view
  <2>4. \A s \in net' \ net : Silent(s.known_nodes)
    BY <2>1, <2>3
  <2> QED  BY <1>0, <2>1, <2>2, <2>4, CopiesStaySilent
<1>6. CASE LeaderAnswers(n) \/ LeaderMissed(n) \/ QuorumLost(n) \/ QuorumHeld(n)
           \/ Publish(n)
  BY <1>6 DEF LeaderAnswers, LeaderMissed, QuorumLost, QuorumHeld, Publish,
              AbsentIsSilent, Silent
<1> QED
  BY <1>2, <1>3, <1>4, <1>5, <1>6 DEF Tick

LEMMA EndpointIsSilent ==
    ASSUME IInv, AbsentIsSilent, NEW n \in Node, Endpoint(n)
    PROVE  AbsentIsSilent'
<1>0. /\ TypeOK /\ now \in Nat /\ mem[n] \in View /\ disk[n] \in View
      /\ Past(disk[n].known_nodes, now)
      /\ Silent(mem[n].known_nodes) /\ Silent(disk[n].known_nodes)
  BY RunningNode DEF IInv, AbsentIsSilent
<1>1. CASE ClusterStatus(n) \/ WorkerCall(n)
  <2> DEFINE elected == ElectLeader(mem[n], now)
  <2>1. elected \in View /\ Silent(elected.known_nodes)
    BY <1>0, ElectLeaderType
  <2>2. /\ mem' = [mem EXCEPT ![n] = elected]
        /\ disk' \in {disk, [disk EXCEPT ![n] = elected]} /\ net' = net
    BY <1>1 DEF ClusterStatus, WorkerCall, Save, Keep
  <2> HIDE DEF elected
  <2> QED  BY <1>0, <2>1, <2>2, CopiesStaySilent
<1>2. CASE WellKnown(n)
  <2>1. mem' = [mem EXCEPT ![n] = disk[n]] /\ disk' = disk /\ net' = net
    BY <1>2 DEF WellKnown, Keep
  <2> QED  BY <1>0, <2>1, CopiesStaySilent
<1>3. CASE ClusterCreate(n)
  <2> DEFINE booted == Boot(n, disk[n], now)
  <2>1. PICK cid \in ClusterId :
          Save(n, [booted EXCEPT !.cluster_id = cid, !.join_token = TRUE])
    BY <1>3 DEF ClusterCreate
  <2>2. booted \in View /\ Silent(booted.known_nodes)
    BY <1>0, BootHeard
  <2> HIDE DEF booted
  <2> DEFINE created == [booted EXCEPT !.cluster_id = cid, !.join_token = TRUE]
  <2>3. created \in View /\ created.known_nodes = booted.known_nodes
    BY <2>2 DEF View
  <2>4. /\ mem' = [mem EXCEPT ![n] = created]
        /\ disk' = [disk EXCEPT ![n] = created] /\ net' = net
    BY <1>3, <2>1 DEF ClusterCreate, Save
  <2> HIDE DEF created
  <2> QED  BY <1>0, <2>2, <2>3, <2>4, CopiesStaySilent
<1>4. ASSUME NEW j \in Node, ClusterJoin(j, n)  PROVE AbsentIsSilent'
  <2>1. PICK at \in {0, now} :
          Save(n, ElectLeader(AddOrUpdateNode(disk[n], j, Alive(at)), now))
    BY <1>4 DEF ClusterJoin
  <2> DEFINE added  == AddOrUpdateNode(disk[n], j, Alive(at))
             joined == ElectLeader(added, now)
  <2>2. added \in View /\ Silent(added.known_nodes)
    BY <1>0, AddHeard
  <2> HIDE DEF added
  <2>3. joined \in View /\ Silent(joined.known_nodes)
    BY <1>0, <2>2, ElectLeaderType
  <2>4. /\ mem' = [mem EXCEPT ![n] = joined]
        /\ disk' = [disk EXCEPT ![n] = joined] /\ net' = net
    BY <1>4, <2>1 DEF ClusterJoin, Save, added
  <2> HIDE DEF joined
  <2> QED  BY <1>0, <2>3, <2>4, CopiesStaySilent
<1> QED
  BY <1>1, <1>2, <1>3, <1>4 DEF Endpoint

LEMMA SyncIsSilent ==
    ASSUME IInv, AbsentIsSilent, NEW s \in net, ClusterSync(s)
    PROVE  AbsentIsSilent'
<1> DEFINE n == s.to
           merged == MergeClusterState(disk[n], s.cluster_id, s.known_nodes, now)
<1>0. /\ TypeOK /\ n \in Node /\ s.cluster_id \in ClusterId
      /\ s.known_nodes \in [Node -> Entry] /\ Silent(s.known_nodes)
  BY DEF IInv, TypeOK, Message, AbsentIsSilent
<1>1. now \in Nat /\ disk[n] \in View /\ Silent(disk[n].known_nodes)
  BY <1>0, RunningNode DEF AbsentIsSilent
<1>2. merged \in View /\ Silent(merged.known_nodes)
  BY <1>0, <1>1, MergeHeard
<1>3. /\ \/ /\ mem' = [mem EXCEPT ![n] = merged]
            /\ disk' = [disk EXCEPT ![n] = merged]
         \/ /\ mem' = [mem EXCEPT ![n] = disk[n]]
            /\ disk' = disk
      /\ net' \subseteq net
  BY DEF ClusterSync, Save, Keep
<1> HIDE DEF n, merged
<1> QED
  BY <1>0, <1>1, <1>2, <1>3, CopiesStaySilent

LEMMA NextIsSilent == IInv /\ AbsentIsSilent /\ [Next]_vars => AbsentIsSilent'
<1> SUFFICES ASSUME IInv, AbsentIsSilent, [Next]_vars
             PROVE  AbsentIsSilent'
  OBVIOUS
<1>0. TypeOK
  BY DEF IInv
<1>1. ASSUME NEW n \in Node, Crash(n)  PROVE AbsentIsSilent'
  <2>1. EmptyView \in View /\ Silent(EmptyView.known_nodes)
    BY EmptyViewType DEF EmptyView, Absent, Silent
  <2>2. PICK file \in {disk[n], EmptyView} : disk' = [disk EXCEPT ![n] = file]
    BY <1>1 DEF Crash
  <2>3. file \in View /\ Silent(file.known_nodes)
    BY <2>1, RunningNode DEF AbsentIsSilent
  <2>4. mem' = [mem EXCEPT ![n] = EmptyView] /\ net' = net
    BY <1>1 DEF Crash
  <2> QED  BY <1>0, <2>1, <2>2, <2>3, <2>4, CopiesStaySilent
<1>2. ASSUME NEW n \in Node, Restart(n)  PROVE AbsentIsSilent'
  <2> DEFINE booted == Boot(n, disk[n], now)
  <2>1. booted \in View /\ Silent(booted.known_nodes)
    BY RunningNode, BootHeard DEF AbsentIsSilent
  <2>2. /\ mem' = [mem EXCEPT ![n] = booted]
        /\ disk' = [disk EXCEPT ![n] = booted] /\ net' = net
    BY <1>2 DEF Restart, Save
  <2> HIDE DEF booted
  <2> QED  BY <1>0, <2>1, <2>2, CopiesStaySilent
<1>3. CASE Split \/ Heal \/ Advance \/ \E s \in net : SyncFails(s)
  BY <1>3 DEF Split, Heal, Advance, SyncFails, AbsentIsSilent, Silent
<1>4. CASE UNCHANGED vars
  BY <1>4 DEF vars, AbsentIsSilent, Silent
<1> QED
  BY <1>1, <1>2, <1>3, <1>4, TickIsSilent, EndpointIsSilent, SyncIsSilent DEF Next

LEMMA InitIsSilent == Init => AbsentIsSilent
<1> SUFFICES ASSUME Init PROVE AbsentIsSilent
  OBVIOUS
<1>1. ASSUME NEW n \in Node  PROVE Silent(mem[n].known_nodes)
  <2>1. Seed(n) \in View /\ Past(Seed(n).known_nodes, 1)
    BY SeedIsGood
  <2>2. Silent(Seed(n).known_nodes)
    BY DEF Seed, Alive, Absent, Silent
  <2>3. Silent(Boot(n, Seed(n), 1).known_nodes)
    BY <2>1, <2>2, BootHeard
  <2> QED  BY <2>3 DEF Init
<1> QED
  BY <1>1 DEF Init, AbsentIsSilent
-----------------------------------------------------------------------------
(* The variables of ClusterGossip.                                          *)
clusters == [n \in Node |-> disk[n].cluster_id]
recorded == [n \in Node |-> Heartbeats(disk[n].known_nodes)]

Letter(s) == [to      |-> s.to,
              cluster |-> s.cluster_id,
              heard   |-> Heartbeats(s.known_nodes)]
posted == {Letter(s) : s \in net}

gossip == <<now, up, clusters, recorded, posted>>

\* What a new file means to the cluster.
LEMMA FileSaved ==
    ASSUME TypeOK, NEW n \in Node, NEW view \in View,
           disk' = [disk EXCEPT ![n] = view]
    PROVE  /\ clusters' = [clusters EXCEPT ![n] = view.cluster_id]
           /\ recorded' = [recorded EXCEPT ![n] = Heartbeats(view.known_nodes)]
<1>1. disk \in [Node -> View]
  BY DEF TypeOK
<1>2. clusters' = [clusters EXCEPT ![n] = view.cluster_id]
  BY <1>1 DEF clusters
<1>3. recorded' = [recorded EXCEPT ![n] = Heartbeats(view.known_nodes)]
  <2>1. recorded' = [k \in Node |-> Heartbeats(disk'[k].known_nodes)]
    BY DEF recorded, Heartbeats
  <2>2. \A k \in Node : disk'[k] = IF k = n THEN view ELSE disk[k]
    BY <1>1
  <2>3. \A k \in Node : Heartbeats(disk'[k].known_nodes)
                            = IF k = n THEN Heartbeats(view.known_nodes) ELSE recorded[k]
    BY <2>2 DEF recorded
  <2>4. recorded' = [k \in Node |-> IF k = n THEN Heartbeats(view.known_nodes)
                                    ELSE recorded[k]]
    BY <2>1, <2>3
  <2> QED  BY <2>4 DEF recorded
<1> QED
  BY <1>2, <1>3

\* A file that says what the one before it said of clusters and heartbeats.
LEMMA SameFile ==
    ASSUME TypeOK, NEW n \in Node, NEW view \in View,
           disk' = [disk EXCEPT ![n] = view],
           view.cluster_id = disk[n].cluster_id,
           Heartbeats(view.known_nodes) = Heartbeats(disk[n].known_nodes)
    PROVE  clusters' = clusters /\ recorded' = recorded
<1>1. /\ clusters' = [clusters EXCEPT ![n] = view.cluster_id]
      /\ recorded' = [recorded EXCEPT ![n] = Heartbeats(view.known_nodes)]
  BY FileSaved
<1>2. clusters[n] = view.cluster_id /\ recorded[n] = Heartbeats(view.known_nodes)
  BY DEF clusters, recorded
<1> QED
  BY <1>1, <1>2 DEF clusters, recorded

LEMMA SameDisk ==
    ASSUME disk' = disk
    PROVE  clusters' = clusters /\ recorded' = recorded
BY DEF clusters, recorded, Heartbeats

LEMMA SameNet ==
    ASSUME net' = net
    PROVE  posted' = posted
BY DEF posted, Letter, Heartbeats

\* A node that runs records in its file what it has in memory.
LEMMA FileAgrees ==
    ASSUME IInv, NEW n \in Node, up[n]
    PROVE  /\ mem[n].cluster_id = disk[n].cluster_id
           /\ Heartbeats(mem[n].known_nodes) = Heartbeats(disk[n].known_nodes)
BY RunningNode DEF SameRecord, Heartbeats

\* Handlers that change neither.
LEMMA NothingSaid ==
    ASSUME clusters' = clusters, recorded' = recorded, UNCHANGED <<now, up, net>>
    PROVE  UNCHANGED gossip
BY SameNet DEF gossip

LEMMA TickGossips ==
    ASSUME IInv, NEW n \in Node, Tick(n)
    PROVE  Gossip!Next \/ UNCHANGED gossip
<1>0. /\ TypeOK /\ now \in Nat /\ up[n] /\ mem[n] \in View /\ disk[n] \in View
      /\ clusters[n] = disk[n].cluster_id
      /\ recorded[n] = Heartbeats(disk[n].known_nodes)
  <2>1. up[n]
    BY DEF Tick, LeaderTick, FollowTick, LeaderAnswers, LeaderMissed, TriggerElection,
           Missed, Announce, QuorumLost, QuorumHeld, Counted, Publish,
           IInv, SuspendedOnlyIfUp
  <2> QED  BY <2>1, RunningNode DEF IInv, clusters, recorded
<1>1. CASE LeaderTick(n) \/ FollowTick(n)
  <2>1. /\ disk' = [disk EXCEPT ![n] = Stamped(n)]
        /\ UNCHANGED <<now, up, net>>
    BY <1>1 DEF LeaderTick, FollowTick, Save, env
  <2>2. /\ Stamped(n) \in View
        /\ Stamped(n).cluster_id = disk[n].cluster_id
        /\ Heartbeats(Stamped(n).known_nodes)
             = [Heartbeats(disk[n].known_nodes) EXCEPT ![n] = now]
    BY <1>0, StampHeard, FileAgrees DEF Stamped
  <2>3. /\ clusters' = [clusters EXCEPT ![n] = Stamped(n).cluster_id]
        /\ recorded' = [recorded EXCEPT ![n] = Heartbeats(Stamped(n).known_nodes)]
    BY <1>0, <2>1, <2>2, FileSaved
  <2>4. clusters' = clusters
    BY <1>0, <2>2, <2>3 DEF clusters
  <2>5. recorded' = [recorded EXCEPT ![n][n] = now]
    BY <1>0, <2>2, <2>3
  <2>6. Gossip!Beat(n)
    BY <1>0, <2>1, <2>4, <2>5, SameNet DEF Gossip!Beat, clusters, recorded, posted, Letter
  <2> QED  BY <2>6 DEF Gossip!Next
<1>2. CASE TriggerElection(n)
  <2> DEFINE elected == ElectLeader(mem[n], now)
  <2>1. /\ elected \in View
        /\ elected.cluster_id = disk[n].cluster_id
        /\ Heartbeats(elected.known_nodes) = Heartbeats(disk[n].known_nodes)
    BY <1>0, ElectLeaderType, FileAgrees
  <2>2. disk' = [disk EXCEPT ![n] = elected] /\ UNCHANGED <<now, up, net>>
    BY <1>2 DEF TriggerElection, Save
  <2> HIDE DEF elected
  <2> QED  BY <1>0, <2>1, <2>2, SameFile, NothingSaid
<1>3. CASE Announce(n)
  <2> DEFINE view == ElectLeader(disk[n], now)
             receivers == {p \in Peers(view, n) : /\ view.known_nodes[p].status # "dead"
                                                  /\ view.cluster_id # NoCluster}
             sent == {[from |-> n, to |-> m, cluster_id |-> view.cluster_id,
                       known_nodes |-> view.known_nodes] : m \in receivers}
  <2>1. /\ view.cluster_id = disk[n].cluster_id
        /\ view.known_nodes = disk[n].known_nodes
    BY <1>0, ElectLeaderType
  <2>2. disk' = disk /\ UNCHANGED <<now, up>> /\ net' = net \cup sent
    BY <1>3 DEF Announce, Keep, env
  <2>3. receivers \in SUBSET Node
    BY DEF Peers, Known
  <2>4. clusters[n] = NoCluster => receivers = {}
    BY <1>0, <2>1
  <2>5. {Letter(s) : s \in sent} =
          {[to |-> m, cluster |-> clusters[n], heard |-> recorded[n]] : m \in receivers}
    <3> DEFINE message(m) == [from |-> n, to |-> m, cluster_id |-> view.cluster_id,
                              known_nodes |-> view.known_nodes]
               letter(m)  == [to |-> m, cluster |-> clusters[n], heard |-> recorded[n]]
    <3>1. ASSUME NEW m PROVE Letter(message(m)) = letter(m)
      BY <1>0, <2>1 DEF Letter
    <3>2. sent = {message(m) : m \in receivers}
      OBVIOUS
    <3> HIDE DEF view, receivers, sent, message, letter
    <3>3. {Letter(s) : s \in sent} = {letter(m) : m \in receivers}
      BY <3>1, <3>2
    <3> QED  BY <3>3 DEF letter
  <2> HIDE DEF view, receivers, sent
  <2>6. posted' = posted \cup {Letter(s) : s \in sent}
    <3>1. posted' = {Letter(s) : s \in net'}
      BY DEF posted, Letter, Heartbeats
    <3> QED  BY <2>2, <3>1 DEF posted
  <2>7. clusters' = clusters /\ recorded' = recorded
    BY <2>2, SameDisk
  <2>8. CASE clusters[n] = NoCluster
    <3>1. posted' = posted
      BY <2>4, <2>5, <2>6, <2>8
    <3> QED  BY <2>2, <2>7, <3>1 DEF gossip
  <2>9. CASE clusters[n] # NoCluster
    <3>1. PICK group \in SUBSET Node : group = receivers
      BY <2>3
    <3>2. Gossip!Post(n, group)
      BY <1>0, <2>2, <2>5, <2>6, <2>7, <2>9, <3>1
         DEF Gossip!Post, clusters, recorded, posted, Letter
    <3> QED  BY <3>2 DEF Gossip!Next
  <2> QED  BY <2>8, <2>9
<1>4. CASE LeaderAnswers(n) \/ LeaderMissed(n) \/ QuorumLost(n) \/ QuorumHeld(n)
           \/ Publish(n)
  <2>1. UNCHANGED <<now, up, disk, net>>
    BY <1>4 DEF LeaderAnswers, LeaderMissed, QuorumLost, QuorumHeld, Publish, env
  <2> QED  BY <2>1, SameDisk, NothingSaid
<1> QED
  BY <1>1, <1>2, <1>3, <1>4 DEF Tick
\* The endpoints that answer from memory or from the file.
LEMMA ReadGossips ==
    ASSUME IInv, NEW n \in Node,
           ClusterStatus(n) \/ WellKnown(n) \/ WorkerCall(n)
    PROVE  UNCHANGED gossip
<1>0. TypeOK /\ now \in Nat /\ mem[n] \in View
  BY RunningNode DEF IInv
<1>1. CASE ClusterStatus(n) \/ WellKnown(n)
  <2>1. UNCHANGED <<now, up, disk, net>>
    BY <1>1 DEF ClusterStatus, WellKnown, Keep, env
  <2> QED  BY <2>1, SameDisk, NothingSaid
<1>2. CASE WorkerCall(n)
  <2> DEFINE elected == ElectLeader(mem[n], now)
  <2>1. up[n]
    BY <1>2 DEF WorkerCall
  <2>2. /\ elected \in View
        /\ elected.cluster_id = disk[n].cluster_id
        /\ Heartbeats(elected.known_nodes) = Heartbeats(disk[n].known_nodes)
    BY <1>0, <2>1, ElectLeaderType, FileAgrees
  <2>3. disk' = [disk EXCEPT ![n] = elected] /\ UNCHANGED <<now, up, net>>
    BY <1>2 DEF WorkerCall, Save, env
  <2> HIDE DEF elected
  <2> QED  BY <1>0, <2>2, <2>3, SameFile, NothingSaid
<1> QED
  BY <1>1, <1>2

\* A cluster that is founded is new to everybody; founded twice, it is the same
\* one, and only the founder's heartbeat moves.
LEMMA CreateGossips ==
    ASSUME IInv, NEW n \in Node, ClusterCreate(n)
    PROVE  Gossip!Next
<1>0. /\ TypeOK /\ now \in Nat /\ up[n] /\ disk[n] \in View
      /\ Past(disk[n].known_nodes, now)
      /\ UNCHANGED <<now, up, net>>
      /\ clusters[n] = disk[n].cluster_id
      /\ recorded[n] = Heartbeats(disk[n].known_nodes)
  BY RunningNode DEF IInv, ClusterCreate, env, clusters, recorded
<1> DEFINE booted == Boot(n, disk[n], now)
<1>1. PICK cid \in ClusterId :
        /\ IF disk[n].cluster_id = NoCluster
           THEN /\ \A m \in Node : cid \notin {mem[m].cluster_id, disk[m].cluster_id}
                /\ \A s \in net : cid # s.cluster_id
           ELSE cid = disk[n].cluster_id
        /\ Save(n, [booted EXCEPT !.cluster_id = cid, !.join_token = TRUE])
  BY DEF ClusterCreate
<1>2. /\ booted \in View
      /\ Heartbeats(booted.known_nodes)
           = [Heartbeats(disk[n].known_nodes) EXCEPT ![n] = now]
  BY <1>0, BootHeard
<1> HIDE DEF booted
<1> DEFINE created == [booted EXCEPT !.cluster_id = cid, !.join_token = TRUE]
<1>3. /\ created \in View
      /\ created.cluster_id = cid
      /\ created.known_nodes = booted.known_nodes
  BY <1>2 DEF View
<1>4. disk' = [disk EXCEPT ![n] = created]
  BY <1>1 DEF Save
<1> HIDE DEF created
<1>5. /\ clusters' = [clusters EXCEPT ![n] = cid]
      /\ recorded' = [recorded EXCEPT ![n] = Heartbeats(created.known_nodes)]
  BY <1>0, <1>3, <1>4, FileSaved
<1>6. recorded' = [recorded EXCEPT ![n][n] = now]
  BY <1>0, <1>2, <1>3, <1>5
<1>7. posted' = posted
  BY <1>0, SameNet
<1>8. CASE disk[n].cluster_id = NoCluster
  <2>1. \A m \in Node : clusters[m] # cid
    BY <1>1, <1>8 DEF clusters
  <2>2. \A letter \in posted : letter.cluster # cid
    BY <1>1, <1>8 DEF posted, Letter
  <2>3. Gossip!Found(n, cid)
    BY <1>0, <1>5, <1>6, <1>7, <1>8, <2>1, <2>2
       DEF Gossip!Found, clusters, recorded, posted, Letter
  <2> QED  BY <2>3 DEF Gossip!Next
<1>9. CASE disk[n].cluster_id # NoCluster
  <2>1. clusters' = clusters
    BY <1>0, <1>1, <1>5, <1>9 DEF clusters
  <2>2. Gossip!Beat(n)
    BY <1>0, <1>6, <1>7, <2>1 DEF Gossip!Beat, clusters, recorded, posted, Letter
  <2> QED  BY <2>2 DEF Gossip!Next
<1> QED
  BY <1>8, <1>9

LEMMA JoinGossips ==
    ASSUME IInv, NEW n \in Node, NEW j \in Node, ClusterJoin(j, n)
    PROVE  Gossip!Next
<1>0. /\ TypeOK /\ now \in Nat /\ up[n] /\ up[j] /\ j # n /\ disk[n] \in View
      /\ UNCHANGED <<now, up, net>>
      /\ clusters[n] = disk[n].cluster_id
      /\ recorded[n] = Heartbeats(disk[n].known_nodes)
  BY RunningNode DEF IInv, ClusterJoin, env, clusters, recorded
<1>1. PICK at \in {0, now} :
        Save(n, ElectLeader(AddOrUpdateNode(disk[n], j, Alive(at)), now))
  BY DEF ClusterJoin
<1> DEFINE added  == AddOrUpdateNode(disk[n], j, Alive(at))
           joined == ElectLeader(added, now)
<1>2. /\ added \in View
      /\ added.cluster_id = disk[n].cluster_id
      /\ Heartbeats(added.known_nodes)
           = [Heartbeats(disk[n].known_nodes) EXCEPT ![j] = Gossip!Later(@, at)]
  BY <1>0, AddHeard
<1> HIDE DEF added
<1>3. /\ joined \in View
      /\ joined.cluster_id = added.cluster_id
      /\ joined.known_nodes = added.known_nodes
  BY <1>0, <1>2, ElectLeaderType
<1>4. disk' = [disk EXCEPT ![n] = joined]
  BY <1>1 DEF Save, added
<1> HIDE DEF joined
<1>5. /\ clusters' = [clusters EXCEPT ![n] = joined.cluster_id]
      /\ recorded' = [recorded EXCEPT ![n] = Heartbeats(joined.known_nodes)]
  BY <1>0, <1>3, <1>4, FileSaved
<1>6. clusters' = clusters
  BY <1>0, <1>2, <1>3, <1>5 DEF clusters
<1>7. recorded' = [recorded EXCEPT ![n][j] = Gossip!Later(@, at)]
  <2>1. recorded' = [recorded EXCEPT
                        ![n] = [recorded[n] EXCEPT ![j] = Gossip!Later(@, at)]]
    BY <1>0, <1>2, <1>3, <1>5
  <2> QED  BY <2>1
<1>8. Gossip!Meet(n, j, at)
  BY <1>0, <1>6, <1>7, SameNet DEF Gossip!Meet, clusters, recorded, posted, Letter
<1> QED
  BY <1>8 DEF Gossip!Next
\* A state that arrives is merged or refused; as two nodes may have posted the
\* same, its letter may remain.
LEMMA SyncGossips ==
    ASSUME IInv, AbsentIsSilent, NEW s \in net, ClusterSync(s)
    PROVE  Gossip!Next
<1> DEFINE n == s.to
           merged == MergeClusterState(disk[n], s.cluster_id, s.known_nodes, now)
<1>0. /\ TypeOK /\ now \in Nat /\ n \in Node /\ s.cluster_id \in ClusterId
      /\ s.known_nodes \in [Node -> Entry] /\ Silent(s.known_nodes)
      /\ up[n] /\ UNCHANGED <<now, up>> /\ net' = net \ {s}
  BY DEF IInv, TypeOK, Message, AbsentIsSilent, ClusterSync, Reach, env
<1>1. /\ disk[n] \in View
      /\ clusters[n] = disk[n].cluster_id
      /\ recorded[n] = Heartbeats(disk[n].known_nodes)
  BY <1>0, RunningNode DEF clusters, recorded
<1>2. Letter(s) \in posted /\ posted' \in {posted, posted \ {Letter(s)}}
  <2>1. posted' = {Letter(other) : other \in net \ {s}}
    BY <1>0 DEF posted, Letter, Heartbeats
  <2>2. Letter(s) \in posted
    BY DEF posted
  <2> QED  BY <2>1, <2>2 DEF posted
<1>3. CASE disk[n].cluster_id \in {NoCluster, s.cluster_id}
  <2>1. disk' = [disk EXCEPT ![n] = merged]
    BY <1>3 DEF ClusterSync, Save
  <2>2. /\ merged \in View
        /\ merged.cluster_id = s.cluster_id
        /\ Heartbeats(merged.known_nodes)
             = Gossip!Merged(Heartbeats(disk[n].known_nodes), Heartbeats(s.known_nodes))
    BY <1>0, <1>1, MergeHeard
  <2> HIDE DEF n, merged
  <2>3. /\ clusters' = [clusters EXCEPT ![n] = s.cluster_id]
        /\ recorded' = [recorded EXCEPT ![n] = Heartbeats(merged.known_nodes)]
    BY <1>0, <2>1, <2>2, FileSaved
  <2> DEFINE letter == Letter(s)
  <2>4. /\ letter.to = n
        /\ letter.cluster = s.cluster_id
        /\ letter.heard = Heartbeats(s.known_nodes)
    BY DEF Letter, n
  <2>5. recorded' = [recorded EXCEPT ![n] = Gossip!Merged(@, letter.heard)]
    BY <1>1, <2>2, <2>3, <2>4
  <2> HIDE DEF letter
  <2>6. PICK arrived \in posted : arrived = letter
    BY <1>2 DEF letter
  <2>7. Gossip!Receive(arrived)
    <3>1. posted' \in {posted, posted \ {arrived}}
      BY <1>2, <2>6 DEF letter
    <3>2. /\ up[n] /\ clusters[n] \in {NoCluster, s.cluster_id}
          /\ UNCHANGED <<now, up>>
      BY <1>0, <1>1, <1>3
    <3> QED  BY <2>3, <2>4, <2>5, <2>6, <3>1, <3>2
                DEF Gossip!Receive, clusters, recorded, posted, Letter
  <2> QED  BY <2>7 DEF Gossip!Next, posted, Letter
<1>4. CASE disk[n].cluster_id \notin {NoCluster, s.cluster_id}
  <2>1. disk' = disk
    BY <1>4 DEF ClusterSync, Keep
  <2>2. posted' \subseteq posted
    BY <1>2
  <2>3. Gossip!Lose
    BY <1>0, <2>1, <2>2, SameDisk DEF Gossip!Lose, clusters, recorded, posted, Letter
  <2> QED  BY <2>3 DEF Gossip!Next
<1> QED
  BY <1>3, <1>4

LEMMA ProcessGossips ==
    ASSUME IInv, NEW n \in Node, Crash(n) \/ Restart(n)
    PROVE  Gossip!Next
<1>0. /\ TypeOK /\ now \in Nat /\ disk[n] \in View
      /\ UNCHANGED <<now, net>> /\ posted' = posted
      /\ clusters[n] = disk[n].cluster_id
      /\ recorded[n] = Heartbeats(disk[n].known_nodes)
  BY RunningNode, SameNet DEF IInv, Crash, Restart, clusters, recorded
<1>1. CASE Crash(n)
  <2>0. up[n] /\ up' = [up EXCEPT ![n] = FALSE]
    BY <1>1 DEF Crash
  <2>1. PICK file \in {disk[n], EmptyView} : disk' = [disk EXCEPT ![n] = file]
    BY <1>1 DEF Crash
  <2>2. CASE file = disk[n]
    <3>1. clusters' = clusters /\ recorded' = recorded
      BY <1>0, <2>1, <2>2, SameFile
    <3>2. Gossip!Crash(n)
      BY <1>0, <2>0, <3>1 DEF Gossip!Crash, clusters, recorded, posted, Letter
    <3> QED  BY <3>2 DEF Gossip!Next
  <2>3. CASE file = EmptyView
    <3>1. /\ EmptyView.cluster_id = NoCluster
          /\ Heartbeats(EmptyView.known_nodes) = Gossip!Never
      BY DEF EmptyView, Absent, Heartbeats, Gossip!Never
    <3>2. /\ clusters' = [clusters EXCEPT ![n] = NoCluster]
          /\ recorded' = [recorded EXCEPT ![n] = Gossip!Never]
      BY <1>0, <2>1, <2>3, <3>1, EmptyViewType, FileSaved
    <3>3. Gossip!Crash(n)
      BY <1>0, <2>0, <3>2 DEF Gossip!Crash, clusters, recorded, posted, Letter
    <3> QED  BY <3>3 DEF Gossip!Next
  <2> QED  BY <2>1, <2>2, <2>3
<1>2. CASE Restart(n)
  <2> DEFINE booted == Boot(n, disk[n], now)
  <2>1. /\ booted \in View
        /\ booted.cluster_id = disk[n].cluster_id
        /\ Heartbeats(booted.known_nodes)
             = [Heartbeats(disk[n].known_nodes) EXCEPT ![n] = now]
    BY <1>0, RunningNode, BootHeard
  <2>2. /\ ~up[n] /\ up' = [up EXCEPT ![n] = TRUE]
        /\ disk' = [disk EXCEPT ![n] = booted]
    BY <1>2 DEF Restart, Save
  <2> HIDE DEF booted
  <2>3. /\ clusters' = [clusters EXCEPT ![n] = booted.cluster_id]
        /\ recorded' = [recorded EXCEPT ![n] = Heartbeats(booted.known_nodes)]
    BY <1>0, <2>1, <2>2, FileSaved
  <2>4. clusters' = clusters
    BY <1>0, <2>1, <2>3 DEF clusters
  <2>5. recorded' = [recorded EXCEPT ![n][n] = now]
    BY <1>0, <2>1, <2>3
  <2>6. Gossip!Restart(n)
    BY <1>0, <2>2, <2>4, <2>5 DEF Gossip!Restart, clusters, recorded, posted, Letter
  <2> QED  BY <2>6 DEF Gossip!Next
<1> QED
  BY <1>1, <1>2

LEMMA StepIsGossipStep ==
    IInv /\ AbsentIsSilent /\ [Next]_vars => [Gossip!Next]_gossip
<1> SUFFICES ASSUME IInv, AbsentIsSilent, [Next]_vars
             PROVE  Gossip!Next \/ UNCHANGED gossip
  OBVIOUS
<1>1. CASE UNCHANGED vars
  <2>1. UNCHANGED <<now, up, disk, net>>
    BY <1>1 DEF vars
  <2> QED  BY <2>1, SameDisk, NothingSaid
<1>2. CASE Split \/ Heal
  <2>1. UNCHANGED <<now, up, disk, net>>
    BY <1>2 DEF Split, Heal
  <2> QED  BY <2>1, SameDisk, NothingSaid
<1>3. CASE Advance
  <2>1. now' = now + 1 /\ UNCHANGED <<up, disk, net>>
    BY <1>3 DEF Advance
  <2>2. Gossip!Pass
    BY <2>1, SameDisk, SameNet DEF Gossip!Pass, clusters, recorded, posted, Letter
  <2> QED  BY <2>2 DEF Gossip!Next
<1>4. ASSUME NEW s \in net, SyncFails(s)  PROVE Gossip!Next
  <2>1. UNCHANGED <<now, up, disk>> /\ net' \subseteq net
    BY <1>4 DEF SyncFails, env
  <2>2. posted' \subseteq posted
    BY <2>1 DEF posted, Letter, Heartbeats
  <2>3. Gossip!Lose
    BY <2>1, <2>2, SameDisk DEF Gossip!Lose, clusters, recorded, posted, Letter
  <2> QED  BY <2>3 DEF Gossip!Next
<1>5. ASSUME NEW n \in Node, Endpoint(n)  PROVE Gossip!Next \/ UNCHANGED gossip
  BY <1>5, ReadGossips, CreateGossips, JoinGossips DEF Endpoint
<1> QED
  BY <1>1, <1>2, <1>3, <1>4, <1>5, TickGossips, SyncGossips, ProcessGossips DEF Next

LEMMA StartsGossip == Init => Gossip!Init
<1> SUFFICES ASSUME Init PROVE Gossip!Init
  OBVIOUS
<1>1. ASSUME NEW n \in Node
      PROVE  /\ clusters[n] \in ClusterId \cup {NoCluster}
             /\ recorded[n] \in [Node -> {0, now}]
  <2>1. Seed(n) \in View /\ Past(Seed(n).known_nodes, 1)
    BY SeedIsGood
  <2>2. disk[n] = Boot(n, Seed(n), 1) /\ now = 1
    BY DEF Init
  <2>3. /\ disk[n].cluster_id = Seed(n).cluster_id
        /\ recorded[n] = [Heartbeats(Seed(n).known_nodes) EXCEPT ![n] = 1]
    BY <2>1, <2>2, BootHeard DEF recorded
  <2>4. Heartbeats(Seed(n).known_nodes) \in [Node -> {0, 1}]
    BY DEF Seed, Alive, Absent, Heartbeats
  <2>5. recorded[n] \in [Node -> {0, now}]
    BY <2>2, <2>3, <2>4
  <2> QED  BY <2>1, <2>3, <2>5 DEF clusters, View
<1>2. /\ clusters \in [Node -> ClusterId \cup {NoCluster}]
      /\ recorded \in [Node -> [Node -> {0, now}]]
  BY <1>1 DEF clusters, recorded
<1>3. posted = {} /\ now \in Nat /\ up = [n \in Node |-> TRUE]
  BY DEF Init, posted
<1> QED
  BY <1>2, <1>3 DEF Gossip!Init, clusters, recorded, posted, Letter

\* The cluster's knowledge only changes as in ClusterGossip: a heartbeat comes
\* from its owner's clock or from a record of it, merges take the newer, and two
\* clusters never mix, although half of the handlers throw away the state in
\* memory for the one in the file.
THEOREM GossipImplemented == Spec => ImplementsGossip
<1>1. Spec => [][Gossip!Next]_gossip
  BY StepIsGossipStep, InductiveInvariant, InitIsSilent, NextIsSilent, PTL DEF Spec
<1> QED
  BY <1>1, StartsGossip, PTL
     DEF Spec, ImplementsGossip, Gossip!Spec, gossip, clusters, recorded, posted, Letter
-----------------------------------------------------------------------------
\* Broadcasts of one cluster may arrive in any order and any number of times:
\* the heartbeats that merge_cluster_state ends with are the same.  (The statuses
\* are not: the incoming one wins, however old.)
THEOREM DeliveryOrderIsIrrelevant ==
    ASSUME NEW view \in View, NEW cid \in ClusterId, NEW s \in Nat, NEW t \in Nat,
           NEW one \in [Node -> Entry], NEW other \in [Node -> Entry],
           Silent(one), Silent(other)
    PROVE  LET After(state, nodes, at) == MergeClusterState(state, cid, nodes, at)
               Heard(state)            == Heartbeats(state.known_nodes)
           IN  /\ Heard(After(After(view, one, s), other, t))
                    = Heard(After(After(view, other, s), one, t))
               /\ Heard(After(After(view, one, s), one, t)) = Heard(After(view, one, s))
<1> DEFINE After(state, nodes, at) == MergeClusterState(state, cid, nodes, at)
           Heard(state)            == Heartbeats(state.known_nodes)
           Row == [Node -> Nat]
<1>1. ASSUME NEW state \in View, NEW nodes \in [Node -> Entry], Silent(nodes), NEW at \in Nat
      PROVE  /\ After(state, nodes, at) \in View
             /\ Heard(After(state, nodes, at))
                  = Gossip!Merged(Heard(state), Heartbeats(nodes))
  BY <1>1, MergeHeard
<1>2. Heard(view) \in Row /\ Heartbeats(one) \in Row /\ Heartbeats(other) \in Row
  BY DEF Heartbeats, View, Entry
<1>3. ASSUME NEW f \in Row, NEW g \in Row, NEW h \in Row
      PROVE  /\ Gossip!Merged(Gossip!Merged(f, g), h) = Gossip!Merged(Gossip!Merged(f, h), g)
             /\ Gossip!Merged(Gossip!Merged(f, g), g) = Gossip!Merged(f, g)
  BY DEF Gossip!Merged, Gossip!Later
<1> HIDE DEF After, Heard, Row
<1>4. /\ After(view, one, s) \in View /\ After(view, other, s) \in View
      /\ Heard(After(view, one, s)) = Gossip!Merged(Heard(view), Heartbeats(one))
      /\ Heard(After(view, other, s)) = Gossip!Merged(Heard(view), Heartbeats(other))
  BY <1>1
<1>5. /\ Heard(After(After(view, one, s), other, t))
           = Gossip!Merged(Gossip!Merged(Heard(view), Heartbeats(one)), Heartbeats(other))
      /\ Heard(After(After(view, other, s), one, t))
           = Gossip!Merged(Gossip!Merged(Heard(view), Heartbeats(other)), Heartbeats(one))
      /\ Heard(After(After(view, one, s), one, t))
           = Gossip!Merged(Gossip!Merged(Heard(view), Heartbeats(one)), Heartbeats(one))
  BY <1>1, <1>4
<1>6. /\ Heard(After(After(view, one, s), other, t))
           = Heard(After(After(view, other, s), one, t))
      /\ Heard(After(After(view, one, s), one, t)) = Heard(After(view, one, s))
  BY <1>2, <1>3, <1>4, <1>5
<1> QED
  BY <1>6 DEF After, Heard
=============================================================================
