--------------------------- MODULE LeaderElection ---------------------------
(***************************************************************************)
(* Leader election across the leader-eligible nodes: every node runs the   *)
(* LeaderMonitor loop of leader_monitor.py and serves the cluster          *)
(* endpoints of main.py over its own ClusterState, one copy in memory      *)
(* (mem) and one in cluster_state.yaml (disk).                             *)
(*                                                                         *)
(* A step of a node is the code between two awaits of its event loop; the  *)
(* handlers of the other endpoints interleave at the awaits.  Nodes        *)
(* crash, tear the file they were writing, restart, and are split by the   *)
(* network; calls between nodes fail or time out.                          *)
(***************************************************************************)
EXTENDS ClusterState, FiniteSets

CONSTANTS FailureThreshold,  \* FAILURE_THRESHOLD
          MaxGap,            \* longest time between two ticks of a live loop
          Horizon,           \* bound of the clock
          LastFault,         \* bound of the time at which anything fails
          Calls,             \* the endpoints that are called
          SeedPeers,         \* what each node's first cluster_state.yaml lists
          SeedCluster,       \* and the cluster_id in it, or NoCluster
          Faults,            \* the kinds of fault that happen
          FaultBudget        \* bound on how many of them do

Fault == {"crash", "split", "drop"}
Call  == {"status", "well_known", "worker", "create", "join"}

\* POLL_INTERVAL_S + HEALTH_TIMEOUT_S < POLL_INTERVAL_S * FAILURE_THRESHOLD: a
\* node whose event loop is not stalled never finds itself timed out.
ASSUME TimingAssumption ==
    /\ FailureThreshold \in Nat \ {0}
    /\ MaxGap \in Nat
    /\ MaxGap <= NodeTimeout
    /\ Horizon \in Nat
    /\ LastFault \in Nat
    /\ Faults \subseteq Fault
    /\ FaultBudget \in Nat

ASSUME SeedAssumption ==
    /\ Calls \subseteq Call
    /\ SeedPeers \in [Node -> SUBSET Node]
    /\ SeedCluster \in ClusterId \cup {NoCluster}

VARIABLES now,        \* int(time.time()), in units of NodeTimeout / 2 or so
          up,         \* is the process running
          mem,        \* _STATE of each process
          disk,       \* cluster_state.yaml of each node
          pc,         \* where each LeaderMonitor coroutine is suspended
          asked,      \* the nodes whose /health it is awaiting
          failures,   \* LeaderMonitor._failures
          demoted,    \* LeaderMonitor._demoted
          net,        \* POST /cluster/sync requests in flight
          discovery,  \* whose url the discovery key holds
          side,       \* which side of a network split each node is on
          budget      \* faults left

monitor == <<pc, asked, failures, demoted>>
env     == <<now, up, side, budget>>
vars    == <<now, up, mem, disk, pc, asked, failures, demoted, net, discovery,
             side, budget>>

Message == [from : Node, to : Node, cluster_id : ClusterId,
            known_nodes : [Node -> Entry]]

Sides == {"left", "right"}

-----------------------------------------------------------------------------
Reach(m, n) == up[m] /\ up[n] /\ side[m] = side[n]

Peers(view, n) == Known(view) \ {n}

\* is_local_leader, which require_leader asks before every user-facing call.
Serving(n) ==
    /\ up[n]
    /\ GetLeader(mem[n], now).current_leader = n
    /\ ~demoted[n]

OwnHeartbeat(n) == mem[n].known_nodes[n].last_heartbeat

\* A handler that changes the state and saves it.
Save(n, view) ==
    /\ mem'  = [mem  EXCEPT ![n] = view]
    /\ disk' = [disk EXCEPT ![n] = view]

\* A handler that changes the state and does not save it.
Keep(n, view) ==
    /\ mem' = [mem EXCEPT ![n] = view]
    /\ UNCHANGED disk

Suspend(n, where, awaiting) ==
    /\ pc'    = [pc    EXCEPT ![n] = where]
    /\ asked' = [asked EXCEPT ![n] = awaiting]

\* A fault of the environment.  Those of kind "drop" are calls that are lost
\* or come too late although the callee is up and connected.
Fails(kind) ==
    /\ kind \in Faults
    /\ budget > 0 /\ now <= LastFault
    /\ budget' = budget - 1

Drop == Fails("drop")

-----------------------------------------------------------------------------
(* lifespan: load the file, add this node, elect, save, start the monitor. *)
Boot(n, file, at) ==
    ElectLeader(AddOrUpdateNode(file, n, Alive(at)), at)

Seed(n) ==
    [cluster_id     |-> SeedCluster,
     join_token     |-> SeedCluster # NoCluster,
     known_nodes    |-> [m \in Node |-> IF m \in SeedPeers[n] THEN Alive(1)
                                       ELSE Absent],
     current_leader |-> NoNode]

Init ==
    /\ now       = 1
    /\ up        = [n \in Node |-> TRUE]
    /\ mem       = [n \in Node |-> Boot(n, Seed(n), 1)]
    /\ disk      = mem
    /\ pc        = [n \in Node |-> "sleep"]
    /\ asked     = [n \in Node |-> {}]
    /\ failures  = [n \in Node |-> 0]
    /\ demoted   = [n \in Node |-> FALSE]
    /\ net       = {}
    /\ discovery = NoNode
    /\ side      = [n \in Node |-> "left"]
    /\ budget    = FaultBudget

-----------------------------------------------------------------------------
(* LeaderMonitor._tick up to its first await: stamp this node, save, mark  *)
(* the silent nodes dead (in memory only), look up the leader.             *)
Stamped(n) == UpdateHeartbeat(mem[n], n, now)
Reaped(n)  == MarkDeadNodes(Stamped(n), now)

\* After get_leader.  A leader is always found, since a node that has just
\* stamped itself is eligible: the branch of _tick that elects for want of one
\* is dead code, and has no action.
Consulted(n) == GetLeader(Reaped(n), now)

\* _leader_tick: _leader_eligible_peers reloads the file just written, so the
\* marks of mark_dead_nodes are gone again before the peers are counted.
LeaderTick(n) ==
    /\ up[n] /\ pc[n] = "sleep"
    /\ Consulted(n).current_leader = n
    /\ Save(n, Stamped(n))
    /\ failures' = [failures EXCEPT ![n] = 0]
    /\ IF Peers(Stamped(n), n) = {} THEN Suspend(n, "publish", {})
       ELSE Suspend(n, "quorum", Peers(Stamped(n), n))
    /\ UNCHANGED <<env, demoted, net, discovery>>

\* The leader is another node: ask for its /health.
FollowTick(n) ==
    /\ up[n] /\ pc[n] = "sleep"
    /\ Consulted(n).current_leader \notin {n, NoNode}
    /\ mem'  = [mem  EXCEPT ![n] = Consulted(n)]
    /\ disk' = [disk EXCEPT ![n] = Stamped(n)]
    /\ Suspend(n, "ping", {Consulted(n).current_leader})
    /\ UNCHANGED <<env, failures, demoted, net, discovery>>

LeaderAnswers(n) ==
    /\ pc[n] = "ping"
    /\ \A leader \in asked[n] : Reach(n, leader)
    /\ failures' = [failures EXCEPT ![n] = 0]
    /\ Suspend(n, "sleep", {})
    /\ UNCHANGED <<env, mem, disk, demoted, net, discovery>>

\* _ping returned False: nobody answered, or the answer came too late.
Missed(n) ==
    /\ pc[n] = "ping"
    /\ \/ /\ \A leader \in asked[n] : ~Reach(n, leader)
          /\ UNCHANGED budget
       \/ /\ \A leader \in asked[n] : Reach(n, leader)
          /\ Drop

\* Mutant of LeaderMissed: misses go on being counted at the threshold.
MissedForEver(n) ==
    /\ Missed(n)
    /\ failures' = [failures EXCEPT ![n] = @ + 1]
    /\ Suspend(n, "sleep", {})
    /\ UNCHANGED <<now, up, side, mem, disk, demoted, net, discovery>>

LeaderMissed(n) ==
    /\ Missed(n)
    /\ failures[n] + 1 < FailureThreshold
    /\ failures' = [failures EXCEPT ![n] = @ + 1]
    /\ Suspend(n, "sleep", {})
    /\ UNCHANGED <<now, up, side, mem, disk, demoted, net, discovery>>

\* Mutant of TriggerElection: it saves the leader it has, and elects nobody.
TriggerElectionKeeps(n) ==
    /\ Missed(n)
    /\ failures[n] + 1 >= FailureThreshold
    /\ failures' = [failures EXCEPT ![n] = 0]
    /\ Save(n, mem[n])
    /\ Suspend(n, "sleep", {})
    /\ UNCHANGED <<now, up, side, demoted, net, discovery>>

\* _trigger_election: elect and save; only the winner goes on to broadcast.
TriggerElection(n) ==
    LET elected == ElectLeader(mem[n], now) IN
    /\ Missed(n)
    /\ failures[n] + 1 >= FailureThreshold
    /\ failures' = [failures EXCEPT ![n] = 0]
    /\ Save(n, elected)
    /\ Suspend(n, IF elected.current_leader = n THEN "announce" ELSE "sleep", {})
    /\ UNCHANGED <<now, up, side, demoted, net, discovery>>

\* Mutant of Announce: the state goes to the nodes marked dead as well.
AnnounceToAll(n) ==
    LET view == ElectLeader(disk[n], now) IN
    /\ pc[n] = "announce"
    /\ Keep(n, view)
    /\ net' = net \cup
         {[from |-> n, to |-> m, cluster_id |-> view.cluster_id,
           known_nodes |-> view.known_nodes] :
             m \in {p \in Peers(view, n) : view.cluster_id # NoCluster}}
    /\ Suspend(n, "publish", {})
    /\ UNCHANGED <<env, failures, demoted, discovery>>

\* _broadcast_state: reload, elect, and post the result to every known peer
\* that is not marked dead; the discovery publish runs beside it.  A payload
\* without a cluster_id fails SyncRequest's validation on arrival (422), so
\* it is not sent here.
Announce(n) ==
    LET view == ElectLeader(disk[n], now) IN
    /\ pc[n] = "announce"
    /\ Keep(n, view)
    /\ net' = net \cup
         {[from |-> n, to |-> m, cluster_id |-> view.cluster_id,
           known_nodes |-> view.known_nodes] :
             m \in {p \in Peers(view, n) : /\ view.known_nodes[p].status # "dead"
                                           /\ view.cluster_id # NoCluster}}
    /\ Suspend(n, "publish", {})
    /\ UNCHANGED <<env, failures, demoted, discovery>>

-----------------------------------------------------------------------------
(* _leader_tick after _count_reachable: the count covers every eligible    *)
(* peer of the file, dead or alive; some answers may be lost.              *)
\* Mutant of HasQuorum: half of the nodes is enough.
HalfIsQuorum(n, answered) ==
    Cardinality(answered) + 1 >= (Cardinality(asked[n]) + 1) \div 2

HasQuorum(n, answered) ==
    Cardinality(answered) + 1 >= (Cardinality(asked[n]) + 1) \div 2 + 1

Counted(n, answered) ==
    LET reachable == {p \in asked[n] : Reach(n, p)} IN
    /\ pc[n] = "quorum"
    /\ \/ answered = reachable /\ UNCHANGED budget
       \/ \E lost \in reachable : answered = reachable \ {lost} /\ Drop

QuorumLost(n) ==
    /\ \E answered \in SUBSET asked[n] :
           Counted(n, answered) /\ ~HasQuorum(n, answered)
    /\ demoted' = [demoted EXCEPT ![n] = TRUE]
    /\ Suspend(n, "sleep", {})
    /\ UNCHANGED <<now, up, side, mem, disk, failures, net, discovery>>

QuorumHeld(n) ==
    /\ \E answered \in SUBSET asked[n] :
           Counted(n, answered) /\ HasQuorum(n, answered)
    /\ demoted' = [demoted EXCEPT ![n] = FALSE]
    /\ Suspend(n, "publish", {})
    /\ UNCHANGED <<now, up, side, mem, disk, failures, net, discovery>>

\* DiscoveryClient.publish, which never raises: a failed call changes nothing.
\* Nothing between the quorum check and here looks at the leader again.
Publish(n) ==
    /\ pc[n] = "publish"
    /\ \/ discovery' = n /\ UNCHANGED budget
       \/ Drop /\ UNCHANGED discovery
    /\ Suspend(n, "sleep", {})
    /\ UNCHANGED <<now, up, side, mem, disk, failures, demoted, net>>

-----------------------------------------------------------------------------
(* The endpoints of main.py that read or change the cluster state.         *)

\* POST /cluster/sync: reload, refuse another cluster, merge, elect, save.
\* A refused request has reloaded the state all the same.
ClusterSync(m) ==
    /\ m \in net /\ Reach(m.from, m.to)
    /\ net' = net \ {m}
    /\ IF disk[m.to].cluster_id \in {NoCluster, m.cluster_id}
       THEN Save(m.to, MergeClusterState(disk[m.to], m.cluster_id,
                                         m.known_nodes, now))
       ELSE Keep(m.to, disk[m.to])
    /\ UNCHANGED <<env, monitor, discovery>>

\* _sync_peer swallows every error, and never retries.
SyncFails(m) ==
    /\ m \in net
    /\ net' = net \ {m}
    /\ UNCHANGED <<env, mem, disk, monitor, discovery>>

\* GET /cluster/status, /leader and /server/status elect and do not save.
ClusterStatus(n) ==
    /\ up[n]
    /\ Keep(n, ElectLeader(mem[n], now))
    /\ UNCHANGED <<env, monitor, net, discovery>>

\* GET /.well-known/ai-gateway, and a refused /cluster/join: reload only.
WellKnown(n) ==
    /\ up[n]
    /\ Keep(n, disk[n])
    /\ UNCHANGED <<env, monitor, net, discovery>>

\* POST /heartbeat and /register of a worker, behind require_leader: the worker
\* entry decides nothing here, but every call elects again and saves.  The node
\* may have been deposed meanwhile: require_leader looks in another thread, and
\* the registry's lock is awaited after that.
WorkerCall(n) ==
    /\ up[n]
    /\ Save(n, ElectLeader(mem[n], now))
    /\ UNCHANGED <<env, monitor, net, discovery>>

\* Mutant of ClusterCreate: a second create draws another id.
CreateAlwaysDraws(n) ==
    /\ up[n]
    /\ \E cid \in ClusterId :
         Save(n, [Boot(n, disk[n], now) EXCEPT !.cluster_id = cid,
                                               !.join_token = TRUE])
    /\ UNCHANGED <<env, monitor, net, discovery>>

\* POST /cluster/create: reload, draw an id if there is none, add this node,
\* elect, mint a join token, save.
ClusterCreate(n) ==
    /\ up[n]
    /\ \E cid \in ClusterId :
         /\ IF disk[n].cluster_id = NoCluster
            THEN /\ \A m \in Node : cid \notin {mem[m].cluster_id, disk[m].cluster_id}
                 /\ \A s \in net : cid # s.cluster_id
            ELSE cid = disk[n].cluster_id
         /\ Save(n, [Boot(n, disk[n], now) EXCEPT !.cluster_id = cid,
                                                  !.join_token = TRUE])
    /\ UNCHANGED <<env, monitor, net, discovery>>

\* Mutant of ClusterJoin: the joiner is not saved.
JoinUnsaved(j, n) ==
    /\ up[j] /\ up[n] /\ j # n
    /\ disk[n].join_token
    /\ Keep(n, ElectLeader(AddOrUpdateNode(disk[n], j, Alive(now)), now))
    /\ UNCHANGED <<env, monitor, net, discovery>>

\* POST /cluster/join of node j at node n with n's own join code.  The body's
\* last_heartbeat is the joiner's clock, or 0 when the caller left it out.
\* Nothing is sent back to j beyond the response: its own state is unchanged.
ClusterJoin(j, n) ==
    /\ up[j] /\ up[n] /\ j # n
    /\ disk[n].join_token
    /\ \E heartbeat \in {0, now} :
         Save(n, ElectLeader(AddOrUpdateNode(disk[n], j, Alive(heartbeat)), now))
    /\ UNCHANGED <<env, monitor, net, discovery>>

-----------------------------------------------------------------------------
(* Faults and time.                                                        *)

\* The process dies.  _safe_dump_yaml truncates the file before it writes, so a
\* node that dies inside a save leaves nothing behind.
Crash(n) ==
    /\ up[n] /\ Fails("crash")
    /\ up'     = [up EXCEPT ![n] = FALSE]
    /\ \E file \in {disk[n], EmptyView} : disk' = [disk EXCEPT ![n] = file]
    /\ mem'      = [mem EXCEPT ![n] = EmptyView]
    /\ failures' = [failures EXCEPT ![n] = 0]
    /\ demoted'  = [demoted EXCEPT ![n] = FALSE]
    /\ Suspend(n, "sleep", {})
    /\ UNCHANGED <<now, net, discovery, side>>

Restart(n) ==
    /\ ~up[n]
    /\ up' = [up EXCEPT ![n] = TRUE]
    /\ Save(n, Boot(n, disk[n], now))
    /\ UNCHANGED <<now, monitor, net, discovery, side, budget>>

Split ==
    /\ Fails("split")
    /\ side' \in [Node -> Sides]
    /\ side' # side
    /\ UNCHANGED <<now, up, mem, disk, monitor, net, discovery>>

Heal ==
    /\ side' = [n \in Node |-> "left"]
    /\ side' # side
    /\ UNCHANGED <<now, up, mem, disk, monitor, net, discovery, budget>>

\* Time passes, but no live loop goes longer than MaxGap between two ticks: 5 s of
\* sleep, 3 s for the probes, and 4 s and 5 s for a broadcast and a publish that go
\* on together.  That no call blocks the loop for longer is assumed; a send or a
\* flush of the Kafka client could.
Advance ==
    /\ now < Horizon
    /\ \A n \in Node : up[n] => now < OwnHeartbeat(n) + MaxGap
    /\ now' = now + 1
    /\ UNCHANGED <<up, mem, disk, monitor, net, discovery, side, budget>>

-----------------------------------------------------------------------------
Tick(n) ==
    \/ LeaderTick(n)
    \/ FollowTick(n)
    \/ LeaderAnswers(n)
    \/ LeaderMissed(n)
    \/ TriggerElection(n)
    \/ Announce(n)
    \/ QuorumLost(n)
    \/ QuorumHeld(n)
    \/ Publish(n)

Endpoint(n) ==
    \/ "status"     \in Calls /\ ClusterStatus(n)
    \/ "well_known" \in Calls /\ WellKnown(n)
    \/ "worker"     \in Calls /\ WorkerCall(n)
    \/ "create"     \in Calls /\ ClusterCreate(n)
    \/ "join"       \in Calls /\ \E j \in Node : ClusterJoin(j, n)

Next ==
    \/ \E n \in Node : Tick(n) \/ Endpoint(n) \/ Crash(n) \/ Restart(n)
    \/ \E m \in net : ClusterSync(m) \/ SyncFails(m)
    \/ Split \/ Heal \/ Advance

Spec == Init /\ [][Next]_vars

\* LeaderMonitor.run loops for ever and its awaits have timeouts.
Fairness ==
    /\ WF_vars(Advance)
    /\ \A n \in Node : WF_vars(Tick(n))

FairSpec == Spec /\ Fairness

-----------------------------------------------------------------------------
(* Properties.                                                             *)

TypeOK ==
    /\ now \in Nat
    /\ up \in [Node -> BOOLEAN]
    /\ mem \in [Node -> View]
    /\ disk \in [Node -> View]
    /\ pc \in [Node -> {"sleep", "ping", "announce", "quorum", "publish"}]
    /\ asked \in [Node -> SUBSET Node]
    /\ failures \in [Node -> 0..(FailureThreshold - 1)]
    /\ demoted \in [Node -> BOOLEAN]
    /\ net \subseteq Message
    /\ discovery \in Node \cup {NoNode}
    /\ side \in [Node -> Sides]
    /\ budget \in Nat

\* What a reload from the file may change in memory: a dead mark that was not
\* saved comes off, and the cached leader may be an older one.
SameRecord(inMem, onDisk) ==
    /\ onDisk.cluster_id = inMem.cluster_id
    /\ onDisk.join_token = inMem.join_token
    /\ \A m \in Node :
         /\ onDisk.known_nodes[m].last_heartbeat = inMem.known_nodes[m].last_heartbeat
         /\ onDisk.known_nodes[m].status # inMem.known_nodes[m].status =>
              /\ inMem.known_nodes[m].status  = "dead"
              /\ onDisk.known_nodes[m].status = "alive"

\* load_cluster_state is called from six places, some of them read-only
\* endpoints, and replaces the state in memory.  It never loses a member, a
\* heartbeat or the cluster's identity: at most a dead mark or an election that
\* was not saved yet.
ReloadLosesOnlyVerdicts ==
    \A n \in Node : up[n] => SameRecord(mem[n], disk[n])

\* A running node never believes itself dead, although every peer comes to
\* believe it: in memory, on disk, or through a state broadcast by a peer that
\* does, since a peer posts its state only to the nodes it does not mark dead.
NeverSelfDead ==
    /\ \A n \in Node : up[n] =>
           /\ mem[n].known_nodes[n].status = "alive"
           /\ disk[n].known_nodes[n].status = "alive"
    /\ \A s \in net : s.known_nodes[s.to].status = "alive"

\* A node that follows another follows one that beats it in the election
\* order, in memory and after any reload.  So two live nodes never follow each
\* other, each content with the other's /health and neither serving: the best
\* node that is up either follows a dead one, and will notice, or itself.
NoFollowCycle ==
    \A n \in Node : up[n] =>
        \A leader \in {mem[n].current_leader, disk[n].current_leader} :
            /\ leader # NoNode
            /\ leader # n => Beats(leader, n)

\* One state knows at least what the other did: same cluster, if there was one,
\* no node forgotten, no heartbeat older.
Grows(before, after) ==
    /\ before.cluster_id \in {NoCluster, after.cluster_id}
    /\ Known(before) \subseteq Known(after)
    /\ \A m \in Node : before.known_nodes[m].last_heartbeat
                         <= after.known_nodes[m].last_heartbeat

\* What a running node knows only grows: no reload, merge or election takes
\* back a heartbeat, forgets a node or leaves a cluster, although half of the
\* handlers throw the state in memory away and start from the file.
HeartbeatsOnlyMoveForward ==
    [][\A n \in Node : up[n] /\ up'[n] => Grows(mem[n], mem'[n])]_vars

\* The newest heartbeat of m held anywhere, in a process, a file or a message.
HeardBy(m, at) ==
    /\ \A n \in Node : /\ mem[n].known_nodes[m].last_heartbeat  <= at
                       /\ disk[n].known_nodes[m].last_heartbeat <= at
    /\ \A s \in net : s.known_nodes[m].last_heartbeat <= at

\* Nobody vouches for a node that is down: while m is down, no exchange of
\* states, reload or restart of others makes m look more recent than the most
\* recent record of it, so a crashed leader cannot be kept alive by gossip.
CrashedNodesFallSilent ==
    [][\A m \in Node : ~up[m] /\ ~up'[m] =>
         \A at \in 0..now : HeardBy(m, at) => HeardBy(m, at)']_vars

\* The two copies of the state, of which half of the handlers throw one away, are
\* one record to the rest of the cluster, that of its file: whatever is elected,
\* marked or reloaded, a node's knowledge of the members only changes as in
\* ClusterGossip, and two clusters never mix.
Heartbeats(nodes) == [m \in Node |-> nodes[m].last_heartbeat]

Gossip == INSTANCE ClusterGossip
          WITH clock   <- now,
               cluster <- [n \in Node |-> disk[n].cluster_id],
               heard   <- [n \in Node |-> Heartbeats(disk[n].known_nodes)],
               letters <- {[to      |-> s.to,
                            cluster |-> s.cluster_id,
                            heard   |-> Heartbeats(s.known_nodes)] : s \in net}

ImplementsGossip == Gossip!Spec

-----------------------------------------------------------------------------
(* The inductive invariant behind the safety properties.                   *)

\* What every copy of the state that node n holds says of n itself: it is
\* alive, it stamped itself less than MaxGap ago, and the leader is n or beats
\* n.  The stamp is what makes n eligible in every election n holds.
GoodView(n, view, at) ==
    /\ view.known_nodes[n].status = "alive"
    /\ at <= view.known_nodes[n].last_heartbeat + MaxGap
    /\ view.current_leader \in Node
    /\ view.current_leader # n => Beats(view.current_leader, n)

\* A running node's two copies are good, and a reload is harmless.
GoodNode(n) ==
    up[n] => /\ SameRecord(mem[n], disk[n])
             /\ GoodView(n, mem[n], now)
             /\ GoodView(n, disk[n], now)

\* No copy of the state holds a heartbeat from the future.
Past(nodes, at) == \A m \in Node : nodes[m].last_heartbeat <= at

NoFutureHeartbeat ==
    /\ \A n \in Node : /\ Past(mem[n].known_nodes, now)
                       /\ Past(disk[n].known_nodes, now)
    /\ \A s \in net : Past(s.known_nodes, now)

\* The coroutine of a process that is down is not suspended anywhere.
SuspendedOnlyIfUp == \A n \in Node : pc[n] # "sleep" => up[n]

\* A broadcast state never calls its receiver dead.
NetSparesReceiver == \A s \in net : s.known_nodes[s.to].status = "alive"

IInv ==
    /\ TypeOK
    /\ SuspendedOnlyIfUp
    /\ NoFutureHeartbeat
    /\ NetSparesReceiver
    /\ \A n \in Node : GoodNode(n)

-----------------------------------------------------------------------------
\* A node cut off for good from a majority of the nodes it knows stops serving
\* for good, whatever its endpoints are asked meanwhile: the split-brain leader
\* on the small side of a partition goes quiet.
HoldsQuorum(n) ==
    2 * Cardinality({m \in Known(mem[n]) : Reach(n, m)})
      > Cardinality(Known(mem[n]))

IsolatedLeaderStopsServing ==
    \A n \in Node : <>[](up[n] /\ ~HoldsQuorum(n)) => <>[]~Serving(n)

\* When a majority of the nodes, each knowing all of them, stays up and
\* connected, some node of it serves again and again: a failed, cut-off or
\* demoted leader is replaced or comes back.
MajoritySide(n) ==
    LET together == {m \in Node : Reach(n, m)} IN
    /\ 2 * Cardinality(together) > Cardinality(Node)
    /\ \A m \in together : Known(mem[m]) = Node

MajorityIsServed ==
    \A n \in Node : <>[]MajoritySide(n) =>
        []<>(\E m \in Node : Serving(m) /\ Reach(n, m))

-----------------------------------------------------------------------------
(* What the repository says of the election and the code does not do.      *)

\* leader_monitor.py:6 says that a node's self-heartbeat keeps its peers from
\* marking it dead.  It is written to the node's own state only.
LivePeersStayAlive ==
    \A m, n \in Node : Reach(m, n) => mem[n].known_nodes[m].status # "dead"

\* TESTING_PRODUCTION.md:251 says that the preferred leader, restarted after a
\* failover, rejoins as a peer since its successor holds a valid quorum.
HolderKeepsLeadership ==
    [][\A m, n \in Node :
         /\ Serving(m) /\ HoldsQuorum(m) /\ discovery = m
         /\ ~up[n] /\ up'[n] /\ Peers(disk[n], n) # {} /\ Beats(n, m)
         => ~Serving(n)']_vars

\* leader_monitor.py:54 says that a demoted node does not publish itself.
DemotedStaysQuiet ==
    [][\A n \in Node : demoted[n] /\ discovery' # discovery => discovery' # n]_vars
=============================================================================
