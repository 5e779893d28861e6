------------------------ MODULE ClusterState_proofs ------------------------
(***************************************************************************)
(* What the functions of cluster_state.py return and preserve, for every   *)
(* set of nodes and every priorities.  The proofs about LeaderElection     *)
(* cite these lemmas by name.                                              *)
(***************************************************************************)
EXTENDS ClusterState, WellFoundedInduction, TLAPS

\* A non-empty set of naturals has a least element.
LEMMA LeastNat ==
    ASSUME NEW S \in SUBSET Nat, S # {}
    PROVE  \E x \in S : \A y \in S : x <= y
<1> DEFINE R == {ss \in Nat \X Nat : ss[1] < ss[2]}
<1>1. IsWellFoundedOn(R, Nat)
  BY NatLessThanWellFounded DEF OpToRel
<1>2. PICK x \in S : \A y \in S : ~(<<y, x>> \in R)
  <2> HIDE DEF R
  <2> QED  BY <1>1, WFMin
<1>3. \A y \in S : ~(y < x)
  BY <1>2
<1> QED
  BY <1>3
-----------------------------------------------------------------------------
\* The sort of elect_leader has a first element, which beats all the others:
\* the choice that Winner makes exists.
LEMMA WinnerBeatsAll ==
    ASSUME NEW E \in SUBSET Node, E # {}
    PROVE  /\ Winner(E) \in E
           /\ \A n \in E \ {Winner(E)} : Beats(Winner(E), n)
<1> USE OrderAssumption
<1> DEFINE Below == {MaxPriority - Priority[n] : n \in E}
<1>1. Below \in SUBSET Nat /\ Below # {}
  OBVIOUS
<1>2. PICK k \in Below : \A l \in Below : k <= l
  <2> HIDE DEF Below
  <2> QED  BY <1>1, LeastNat
<1>3. PICK m \in E : \A n \in E : Priority[n] <= Priority[m]
  <2>1. PICK m \in E : k = MaxPriority - Priority[m]
    BY <1>2
  <2>2. ASSUME NEW n \in E  PROVE  Priority[n] <= Priority[m]
    <3>1. MaxPriority - Priority[n] \in Below
      OBVIOUS
    <3>2. k <= MaxPriority - Priority[n]
      BY <1>2, <3>1
    <3>3. Priority[n] \in 0..MaxPriority /\ Priority[m] \in 0..MaxPriority
      OBVIOUS
    <3> QED  BY <2>1, <3>2, <3>3
  <2> QED  BY <2>2
<1> DEFINE Top   == {n \in E : Priority[n] = Priority[m]}
           Names == {NameOrder[n] : n \in Top}
<1>4. Names \in SUBSET Nat /\ Names # {}
  BY <1>3
<1>5. PICK x \in Names : \A y \in Names : x <= y
  <2> HIDE DEF Names
  <2> QED  BY <1>4, LeastNat
<1>6. PICK w \in Top : NameOrder[w] = x
  BY <1>5
<1>7. \A n \in E \ {w} : Beats(w, n)
  <2> TAKE n \in E \ {w}
  <2>1. CASE n \in Top
    <3>1. NameOrder[w] <= NameOrder[n] /\ NameOrder[w] # NameOrder[n]
      BY <1>5, <1>6, <2>1
    <3> QED  BY <1>6, <2>1, <3>1 DEF Beats
  <2>2. CASE n \notin Top
    BY <1>3, <1>6, <2>2 DEF Beats
  <2> QED  BY <2>1, <2>2
<1> QED
  BY <1>6, <1>7 DEF Winner

-----------------------------------------------------------------------------
\* An election only changes the cached leader, and to a member of the view.
LEMMA ElectLeaderType ==
    ASSUME NEW view \in View, NEW at \in Nat
    PROVE  /\ ElectLeader(view, at) \in View
           /\ ElectLeader(view, at).cluster_id  = view.cluster_id
           /\ ElectLeader(view, at).join_token  = view.join_token
           /\ ElectLeader(view, at).known_nodes = view.known_nodes
<1> DEFINE E == Eligible(view, at)
<1>1. E \in SUBSET Node
  BY DEF Eligible, Known
<1>2. E # {} => Winner(E) \in Node
  <2> HIDE DEF E
  <2> QED  BY <1>1, WinnerBeatsAll
<1>3. (IF E = {} THEN NoNode ELSE Winner(E)) \in Node \cup {NoNode}
  BY <1>2
<1>4. ElectLeader(view, at) =
        [view EXCEPT !.current_leader = IF E = {} THEN NoNode ELSE Winner(E)]
  BY DEF ElectLeader
<1> HIDE DEF E
<1> QED
  BY <1>3, <1>4 DEF View

\* A node that its own state holds alive and recently stamped elects itself or a
\* node that beats it, and always elects somebody.
LEMMA ElectLeaderBeats ==
    ASSUME NEW view \in View, NEW at \in Nat, NEW n \in Node,
           view.known_nodes[n].status = "alive",
           at <= view.known_nodes[n].last_heartbeat + NodeTimeout
    PROVE  LET leader == ElectLeader(view, at).current_leader IN
           /\ leader \in Node
           /\ leader # n => Beats(leader, n)
<1> DEFINE E == Eligible(view, at)
<1>1. E \in SUBSET Node
  BY DEF Eligible, Known
<1>2. n \in E
  BY NodeAssumption DEF Eligible, Known, Stale, View, Entry
<1>3. ElectLeader(view, at).current_leader = Winner(E)
  BY <1>2 DEF ElectLeader, View
<1> HIDE DEF E
<1> QED
  BY <1>1, <1>2, <1>3, WinnerBeatsAll

\* add_or_update_node keeps the type of the entry and the newer heartbeat.
LEMMA MergeEntryType ==
    ASSUME NEW existing \in Entry, NEW incoming \in Entry
    PROVE  /\ MergeEntry(existing, incoming) \in Entry
           /\ existing.last_heartbeat <= MergeEntry(existing, incoming).last_heartbeat
           /\ incoming.last_heartbeat <= MergeEntry(existing, incoming).last_heartbeat
           /\ MergeEntry(existing, incoming).last_heartbeat
                \in {existing.last_heartbeat, incoming.last_heartbeat}
           /\ incoming.status # "absent" =>
                MergeEntry(existing, incoming).status # "absent"
           /\ incoming.status = "alive" =>
                MergeEntry(existing, incoming).status = "alive"
BY DEF MergeEntry, Entry, Status

\* Each function of the module returns a state of the right shape.
LEMMA AddOrUpdateNodeType ==
    ASSUME NEW view \in View, NEW n \in Node, NEW entry \in Entry
    PROVE  AddOrUpdateNode(view, n, entry) \in View
<1>1. MergeEntry(view.known_nodes[n], entry) \in Entry
  BY MergeEntryType DEF View
<1> QED
  BY <1>1 DEF AddOrUpdateNode, View

LEMMA UpdateHeartbeatType ==
    ASSUME NEW view \in View, NEW n \in Node, NEW at \in Nat
    PROVE  UpdateHeartbeat(view, n, at) \in View
BY DEF UpdateHeartbeat, Alive, View, Entry, Status

LEMMA MarkDeadNodesType ==
    ASSUME NEW view \in View, NEW at \in Nat
    PROVE  MarkDeadNodes(view, at) \in View
<1>1. \A n \in Node : [view.known_nodes[n] EXCEPT !.status = "dead"] \in Entry
  BY DEF View, Entry, Status
<1> QED
  BY <1>1 DEF MarkDeadNodes, View

LEMMA EmptyViewType == EmptyView \in View
BY DEF EmptyView, View, Absent, Entry, Status

=============================================================================
