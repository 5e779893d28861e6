---------------------------- MODULE ClusterState ----------------------------
(***************************************************************************)
(* cluster_state.py: what one leader-eligible node believes of the cluster *)
(* and how each function of the module changes that belief.                *)
(*                                                                         *)
(* The code keeps one ClusterState object per process.  Here it is a value *)
(* (a "view") and every function is an operator from views to views, so    *)
(* that LeaderElection can hold one view in memory and one on disk for     *)
(* each node.  Only gateway/both nodes are in Node: a worker entry in      *)
(* known_nodes is never eligible and changes no decision made here.        *)
(***************************************************************************)
EXTENDS Naturals

CONSTANTS Node,         \* leader-eligible nodes, one per node_id
          MaxPriority,  \* the highest priority any node is configured with
          Priority,     \* the priority each node was configured with
          NameOrder,    \* position of each node_id in lexicographic order
          ClusterId,    \* the ids create_cluster may draw
          NoNode,       \* Python's None where a node is expected
          NoCluster,    \* Python's None where a cluster_id is expected
          NodeTimeout   \* timeout_seconds of mark_dead_nodes and elect_leader

ASSUME NodeAssumption ==
    /\ NoNode \notin Node
    /\ NoCluster \notin ClusterId
    /\ NodeTimeout \in Nat

\* node_id is the key of known_nodes, so two nodes never share a name.
ASSUME OrderAssumption ==
    /\ MaxPriority \in Nat
    /\ Priority \in [Node -> 0..MaxPriority]
    /\ NameOrder \in [Node -> Nat]
    /\ \A m, n \in Node : NameOrder[m] = NameOrder[n] => m = n

-----------------------------------------------------------------------------
\* The entry of a node in known_nodes; "absent" stands for a missing key.
Status == {"absent", "alive", "dead"}
Entry  == [status : Status, last_heartbeat : Nat]
Absent == [status |-> "absent", last_heartbeat |-> 0]

View == [cluster_id     : ClusterId \cup {NoCluster},
         join_token     : BOOLEAN,
         known_nodes    : [Node -> Entry],
         current_leader : Node \cup {NoNode}]

\* ClusterState(): also what an absent, empty or torn state file loads as.
EmptyView == [cluster_id     |-> NoCluster,
              join_token     |-> FALSE,
              known_nodes    |-> [n \in Node |-> Absent],
              current_leader |-> NoNode]

Alive(at) == [status |-> "alive", last_heartbeat |-> at]

Known(view) == {n \in Node : view.known_nodes[n].status # "absent"}

\* Mutant of Stale: >= for >.
StaleAtTimeout(entry, at) ==
    /\ entry.last_heartbeat # 0
    /\ at >= entry.last_heartbeat + NodeTimeout

\* "last and (now - last) > timeout": a heartbeat of 0 never times out.
Stale(entry, at) ==
    /\ entry.last_heartbeat # 0
    /\ at > entry.last_heartbeat + NodeTimeout

-----------------------------------------------------------------------------
\* elect_leader's sort key: priority descending, then node_id ascending.
Beats(m, n) ==
    \/ Priority[m] > Priority[n]
    \/ Priority[m] = Priority[n] /\ NameOrder[m] < NameOrder[n]

Winner(candidates) ==
    CHOOSE m \in candidates : \A n \in candidates \ {m} : Beats(m, n)

Eligible(view, at) ==
    {n \in Known(view) : /\ view.known_nodes[n].status # "dead"
                         /\ ~Stale(view.known_nodes[n], at)}

ElectLeader(view, at) ==
    [view EXCEPT !.current_leader =
        IF Eligible(view, at) = {} THEN NoNode ELSE Winner(Eligible(view, at))]

\* get_leader: the cached leader, alive or not; an election only without one.
GetLeader(view, at) ==
    IF view.current_leader # NoNode THEN view ELSE ElectLeader(view, at)

-----------------------------------------------------------------------------
\* Mutant of MergeEntry: the last writer wins, however old its heartbeat.
LastWriterWins(existing, incoming) == incoming

\* One entry of add_or_update_node: the newer heartbeat wins, but the status
\* of the incoming entry wins whichever heartbeat is the newer.
MergeEntry(existing, incoming) ==
    [status |-> IF existing.status = "dead" /\ incoming.status # "alive"
                THEN "dead" ELSE incoming.status,
     last_heartbeat |-> IF existing.last_heartbeat > incoming.last_heartbeat
                        THEN existing.last_heartbeat ELSE incoming.last_heartbeat]

AddOrUpdateNode(view, n, entry) ==
    [view EXCEPT !.known_nodes[n] = MergeEntry(@, entry)]

\* update_heartbeat, as LeaderMonitor calls it: status "alive", stamped now.
UpdateHeartbeat(view, n, at) ==
    [view EXCEPT !.known_nodes[n] = Alive(at)]

MarkDeadNodes(view, at) ==
    [view EXCEPT !.known_nodes =
        [n \in Node |-> IF n \in Known(view) /\ Stale(view.known_nodes[n], at)
                        THEN [view.known_nodes[n] EXCEPT !.status = "dead"]
                        ELSE view.known_nodes[n]]]

\* Mutant of MergeClusterState: a node the sender calls alive counts as heard
\* from at the time of receipt.
MergeStampsOnReceipt(view, cid, nodes, at) ==
    ElectLeader(
        [view EXCEPT
            !.cluster_id  = cid,
            !.known_nodes =
                [n \in Node |-> IF nodes[n].status = "alive" THEN Alive(at)
                                ELSE view.known_nodes[n]]],
        at)

\* merge_cluster_state up to its save, for a payload of the same cluster or
\* one received by a node that has none: adopt the id, merge every entry the
\* payload lists, elect.
MergeClusterState(view, cid, nodes, at) ==
    ElectLeader(
        [view EXCEPT
            !.cluster_id  = cid,
            !.known_nodes =
                [n \in Node |-> IF nodes[n].status = "absent"
                                THEN view.known_nodes[n]
                                ELSE MergeEntry(view.known_nodes[n], nodes[n])]],
        at)
=============================================================================
