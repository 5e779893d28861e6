----------------------------- MODULE WorkerPool -----------------------------
(***************************************************************************)
(* Workers that follow the leader: the registration loop and the heartbeat *)
(* thread of worker.py, the broker that thread hands over to the main      *)
(* thread (worker/kafka_client.py), and the registry behind /register and  *)
(* /heartbeat of every leader-eligible node (main.py, registry.py).        *)
(*                                                                         *)
(* Who leads is decided elsewhere (LeaderElection): here leadership moves, *)
(* overlaps and lapses as it likes, and nothing obliges it to come to      *)
(* rest, or two leaders to become one.  A request and its reply are one    *)
(* step: what the worker does with a reply touches nothing another thread  *)
(* reads before the next step.                                             *)
(***************************************************************************)
EXTENDS Dispatch, FiniteSets

CONSTANTS Node,              \* the leader-eligible nodes
          NoNode,
          Broker,            \* the KAFKA_BROKER each of them was started with
          NoBroker,
          Fallback,          \* LEADER_URL of each worker
          FailureThreshold,  \* HEARTBEAT_FAILURE_THRESHOLD
          Faults,            \* the kinds of fault that happen
          FaultBudget        \* bound on how many of them do

Fault == {"crash", "die", "move", "stray", "lose", "swap"}

ASSUME PoolAssumption ==
    /\ NoNode \notin Node
    /\ Fallback \in [Worker -> Node]
    /\ \A n \in Node : Broker[n] # NoBroker
    /\ FailureThreshold \in Nat \ {0}
    /\ Faults \subseteq Fault
    /\ FaultBudget \in Nat

VARIABLES up,         \* is the leader process running
          serving,    \* the nodes that require_leader lets answer
          current,    \* whom each node takes for the leader
          discovery,  \* whose url the discovery key holds
          registry,   \* the registry in the memory of each node
          proc,       \* each worker: down, registering for the first time, up
          hb,         \* where the thread that talks to the leader is
          url,        \* _leader_url
          failures,   \* consecutive failed heartbeats
          main,       \* where the main thread is in apply_reconnect_if_needed
          taken,      \* its local variable broker
          pending,    \* _pending_broker
          bootstrap,  \* _bootstrap
          connected,  \* can its consumer and its producer be used
          silent,     \* sweeps of each node since a worker died
          budget      \* faults left

leaders == <<up, serving, current, discovery>>
talk    == <<proc, hb, url, failures>>
kafka   == <<main, taken, pending, bootstrap, connected>>
vars    == <<up, serving, current, discovery, registry, proc, hb, url, failures,
             main, taken, pending, bootstrap, connected, silent, budget>>

Brokers == {Broker[n] : n \in Node}

Fails(kind) ==
    /\ kind \in Faults
    /\ budget > 0
    /\ budget' = budget - 1

Init ==
    /\ up        = [n \in Node |-> TRUE]
    /\ serving   = {}
    /\ current   = [n \in Node |-> n]
    /\ discovery = NoNode
    /\ registry  = [n \in Node |-> NoRegistry]
    /\ proc      = [w \in Worker |-> "starting"]
    /\ hb        = [w \in Worker |-> "resolve"]
    /\ url       = Fallback
    /\ failures  = [w \in Worker |-> 0]
    /\ main      = [w \in Worker |-> "poll"]
    /\ taken     = [w \in Worker |-> NoBroker]
    /\ pending   = [w \in Worker |-> NoBroker]
    /\ bootstrap = [w \in Worker |-> NoBroker]
    /\ connected = [w \in Worker |-> FALSE]
    /\ silent    = [n \in Node |-> [w \in Worker |-> 0]]
    /\ budget    = FaultBudget

-----------------------------------------------------------------------------
(* What a node answers: its handlers run behind require_leader.            *)

Serves(n) == up[n] /\ n \in serving

\* The X-Leader-URL of a 503.  A node that serves no longer may still name
\* itself.
Hints(n, other) == up[n] /\ n \notin serving /\ current[n] = other

\* A call that does no good: nobody listens there; the node refuses and hints at
\* the very url that was called, or at nobody; or the request is lost, or the reply after the
\* handler has run and left the registry "handled".
Fruitless(n, handled) ==
    \/ ~up[n] /\ UNCHANGED <<registry, budget>>
    \/ Hints(n, n) /\ UNCHANGED <<registry, budget>>
    \/ up[n] /\ Fails("lose") /\ UNCHANGED registry
    \/ Serves(n) /\ Fails("lose") /\ registry' = [registry EXCEPT ![n] = handled]

Goto(w, where)     == hb'  = [hb  EXCEPT ![w] = where]
SetLeaderUrl(w, n) == url' = [url EXCEPT ![w] = n]

RequestReconnect(w, broker) == pending' = [pending EXCEPT ![w] = broker]

-----------------------------------------------------------------------------
(* register(): the discovery key first, then POST /register.  The main     *)
(* thread runs it at start-up, the heartbeat thread later on.              *)

Resolve(w) ==
    /\ proc[w] # "down" /\ hb[w] = "resolve"
    /\ \/ discovery # NoNode /\ SetLeaderUrl(w, discovery) /\ UNCHANGED budget
       \/ discovery = NoNode /\ UNCHANGED <<url, budget>>
       \/ Fails("lose") /\ UNCHANGED url
    /\ Goto(w, "post")
    /\ UNCHANGED <<leaders, registry, proc, failures, kafka, silent>>

\* The broker in the reply is the first one of a new WorkerKafka (a process that
\* cannot connect to it dies), or is handed to the main thread by
\* request_reconnect.
Registered(w) ==
    /\ proc[w] # "down" /\ hb[w] = "post" /\ Serves(url[w])
    /\ registry' = [registry EXCEPT ![url[w]] = Register(@, w)]
    /\ IF proc[w] = "starting"
       THEN /\ bootstrap' = [bootstrap EXCEPT ![w] = Broker[url[w]]]
            /\ connected' = [connected EXCEPT ![w] = TRUE]
            /\ UNCHANGED pending
       ELSE /\ RequestReconnect(w, Broker[url[w]])
            /\ UNCHANGED <<bootstrap, connected>>
    /\ proc'     = [proc     EXCEPT ![w] = "up"]
    /\ failures' = [failures EXCEPT ![w] = 0]
    /\ Goto(w, "beat")
    /\ UNCHANGED <<leaders, url, main, taken, silent, budget>>

\* Every other outcome starts the loop over, at once after a hint and 5 s later
\* otherwise: the url of the hint lasts until the next resolve.
RegisterHinted(w) ==
    /\ proc[w] # "down" /\ hb[w] = "post"
    /\ \E n \in Node \ {url[w]} : Hints(url[w], n) /\ SetLeaderUrl(w, n)
    /\ Goto(w, "resolve")
    /\ UNCHANGED <<leaders, registry, proc, failures, kafka, silent, budget>>

RegisterFails(w) ==
    /\ proc[w] # "down" /\ hb[w] = "post"
    /\ Fruitless(url[w], Register(registry[url[w]], w))
    /\ Goto(w, "resolve")
    /\ UNCHANGED <<leaders, proc, url, failures, kafka, silent>>

-----------------------------------------------------------------------------
(* heartbeat_loop.                                                         *)
Beats(w) == proc[w] = "up" /\ hb[w] = "beat"

\* Mutants of Beat: a leader that does not know the worker is not obeyed; a
\* changed broker is looked for only when registering.
BeatIgnoresReregister(w) ==
    LET n == url[w] IN
    /\ Beats(w) /\ Serves(n)
    /\ registry' = [registry EXCEPT ![n] = Heartbeat(@, w)]
    /\ failures' = [failures EXCEPT ![w] = 0]
    /\ IF Broker[n] = bootstrap[w] THEN UNCHANGED pending
       ELSE RequestReconnect(w, Broker[n])
    /\ UNCHANGED <<leaders, proc, hb, url, main, taken, bootstrap, connected, silent,
                   budget>>

BeatIgnoresBroker(w) ==
    LET n == url[w] IN
    /\ Beats(w) /\ Serves(n)
    /\ registry' = [registry EXCEPT ![n] = Heartbeat(@, w)]
    /\ failures' = [failures EXCEPT ![w] = 0]
    /\ Goto(w, IF IsKnown(registry[n], w) THEN "beat" ELSE "resolve")
    /\ UNCHANGED <<leaders, proc, url, kafka, silent, budget>>

\* A 200: register again if the leader asks for it, else see whether it names
\* another broker than the one in use.
Beat(w) ==
    LET n == url[w] IN
    /\ Beats(w) /\ Serves(n)
    /\ registry' = [registry EXCEPT ![n] = Heartbeat(@, w)]
    /\ failures' = [failures EXCEPT ![w] = 0]
    /\ \/ ~IsKnown(registry[n], w) /\ Goto(w, "resolve") /\ UNCHANGED pending
       \/ /\ IsKnown(registry[n], w) /\ Broker[n] # bootstrap[w]
          /\ RequestReconnect(w, Broker[n])
          /\ UNCHANGED hb
       \/ /\ IsKnown(registry[n], w) /\ Broker[n] = bootstrap[w]
          /\ UNCHANGED <<hb, pending>>
    /\ UNCHANGED <<leaders, proc, url, main, taken, bootstrap, connected, silent,
                   budget>>

\* A 503 that names another node: switch and register there, without waiting
\* for the threshold.
BeatHinted(w) ==
    /\ Beats(w)
    /\ \E n \in Node \ {url[w]} : Hints(url[w], n) /\ SetLeaderUrl(w, n)
    /\ Goto(w, "resolve")
    /\ UNCHANGED <<leaders, registry, proc, failures, kafka, silent, budget>>

Missed(w) == Beats(w) /\ Fruitless(url[w], Heartbeat(registry[url[w]], w))

Few(w) == failures[w] + 1 < FailureThreshold

\* Mutant of BeatMissed: the count passes the threshold.
BeatMissedForEver(w) ==
    /\ Missed(w)
    /\ failures' = [failures EXCEPT ![w] = @ + 1]
    /\ UNCHANGED <<leaders, proc, hb, url, kafka, silent>>

BeatMissed(w) ==
    /\ Missed(w) /\ Few(w)
    /\ failures' = [failures EXCEPT ![w] = @ + 1]
    /\ UNCHANGED <<leaders, proc, hb, url, kafka, silent>>

\* Mutant of BeatGivesUp: discovery is asked once, at the threshold.
BeatGivesUpOnce(w) ==
    /\ Missed(w) /\ failures[w] + 1 = FailureThreshold
    /\ IF discovery \in {NoNode, url[w]}
       THEN /\ failures' = [failures EXCEPT ![w] = FailureThreshold]
            /\ UNCHANGED <<hb, url>>
       ELSE /\ SetLeaderUrl(w, discovery)
            /\ Goto(w, "resolve")
            /\ UNCHANGED failures
    /\ UNCHANGED <<leaders, proc, kafka, silent>>

\* At the threshold, and at every failure after it, ask discovery; what it
\* names is followed if it is another node.  (The count is capped: only its
\* being at the threshold matters.)
BeatGivesUp(w) ==
    /\ Missed(w) /\ ~Few(w)
    /\ IF discovery \in {NoNode, url[w]}
       THEN /\ failures' = [failures EXCEPT ![w] = FailureThreshold]
            /\ UNCHANGED <<hb, url>>
       ELSE /\ SetLeaderUrl(w, discovery)
            /\ Goto(w, "resolve")
            /\ UNCHANGED failures
    /\ UNCHANGED <<leaders, proc, kafka, silent>>

\* As BeatGivesUp, but discovery cannot be asked: one fault of the worker's
\* network takes the heartbeat, or its reply, and the look-up.
BeatUnresolved(w) ==
    /\ Beats(w) /\ ~Few(w) /\ Fails("lose")
    /\ \/ UNCHANGED registry
       \/ /\ Serves(url[w])
          /\ registry' = [registry EXCEPT ![url[w]] = Heartbeat(@, w)]
    /\ failures' = [failures EXCEPT ![w] = FailureThreshold]
    /\ UNCHANGED <<leaders, proc, hb, url, kafka, silent>>

-----------------------------------------------------------------------------
(* apply_reconnect_if_needed, between two polls of the main thread, cut    *)
(* where request_reconnect may come in between.                            *)
TakeBroker(w) ==
    /\ proc[w] = "up" /\ main[w] = "poll"
    /\ pending[w] \notin {NoBroker, bootstrap[w]}
    /\ main'  = [main  EXCEPT ![w] = "taken"]
    /\ taken' = [taken EXCEPT ![w] = pending[w]]
    /\ UNCHANGED <<leaders, registry, talk, pending, bootstrap, connected, silent,
                   budget>>

\* Clears whatever has been requested since the broker was read.
ClearPending(w) ==
    /\ main[w] = "taken"
    /\ main'    = [main    EXCEPT ![w] = "closing"]
    /\ pending' = [pending EXCEPT ![w] = NoBroker]
    /\ UNCHANGED <<leaders, registry, talk, taken, bootstrap, connected, silent, budget>>

\* Back to polling, whatever became of the swap: main catches what it raises.
Swapped(w) ==
    /\ main[w] = "closing"
    /\ main'  = [main  EXCEPT ![w] = "poll"]
    /\ taken' = [taken EXCEPT ![w] = NoBroker]
    /\ UNCHANGED <<leaders, registry, talk, pending, silent>>

\* Mutant of Reconnect: the swap forgets to note which broker it is for.
ReconnectForgets(w) ==
    Swapped(w) /\ UNCHANGED <<bootstrap, connected, budget>>

\* Mutant of Reconnect: it reads the request again, which it has cleared.
ReconnectRereads(w) ==
    /\ Swapped(w)
    /\ bootstrap' = [bootstrap EXCEPT ![w] = pending[w]]
    /\ connected' = [connected EXCEPT ![w] = TRUE]
    /\ UNCHANGED budget

\* The old clients are closed, the broker is noted, and the new ones are made.
Reconnect(w) ==
    /\ Swapped(w)
    /\ bootstrap' = [bootstrap EXCEPT ![w] = taken[w]]
    /\ connected' = [connected EXCEPT ![w] = TRUE]
    /\ UNCHANGED budget

\* If the old clients cannot be closed the request is lost, until the next
\* heartbeat.
CloseFails(w) ==
    /\ Swapped(w) /\ Fails("swap")
    /\ \E usable \in {FALSE, connected[w]} : connected' = [connected EXCEPT ![w] = usable]
    /\ UNCHANGED bootstrap

\* If the new ones cannot be made the broker stays noted: no heartbeat that
\* names it asks for a swap again.
MakeFails(w) ==
    /\ Swapped(w) /\ Fails("swap")
    /\ bootstrap' = [bootstrap EXCEPT ![w] = taken[w]]
    /\ connected' = [connected EXCEPT ![w] = FALSE]

-----------------------------------------------------------------------------
(* The processes.                                                          *)
Silence(w) == silent' = [n \in Node |-> [silent[n] EXCEPT ![w] = 0]]

Die(w) ==
    /\ proc[w] # "down" /\ Fails("die")
    /\ proc'      = [proc      EXCEPT ![w] = "down"]
    /\ hb'        = [hb        EXCEPT ![w] = "resolve"]
    /\ url'       = [url       EXCEPT ![w] = Fallback[w]]
    /\ failures'  = [failures  EXCEPT ![w] = 0]
    /\ main'      = [main      EXCEPT ![w] = "poll"]
    /\ taken'     = [taken     EXCEPT ![w] = NoBroker]
    /\ pending'   = [pending   EXCEPT ![w] = NoBroker]
    /\ bootstrap' = [bootstrap EXCEPT ![w] = NoBroker]
    /\ connected' = [connected EXCEPT ![w] = FALSE]
    /\ Silence(w)
    /\ UNCHANGED <<leaders, registry>>

Start(w) ==
    /\ proc[w] = "down"
    /\ proc' = [proc EXCEPT ![w] = "starting"]
    /\ Silence(w)
    /\ UNCHANGED <<leaders, registry, hb, url, failures, kafka, budget>>

\* One round of check_timeouts on a node.
Sweep(n) ==
    /\ up[n]
    /\ registry' = [registry EXCEPT ![n] = CheckTimeouts(@)]
    /\ silent'   = [silent EXCEPT ![n] = [w \in Worker |->
                      IF proc[w] = "down" /\ @[w] <= SweepLimit THEN @[w] + 1 ELSE @[w]]]
    /\ UNCHANGED <<leaders, talk, kafka, budget>>

\* A leader process dies, and its registry with it.
Crash(n) ==
    /\ up[n] /\ Fails("crash")
    /\ up'       = [up       EXCEPT ![n] = FALSE]
    /\ serving'  = serving \ {n}
    /\ registry' = [registry EXCEPT ![n] = NoRegistry]
    /\ UNCHANGED <<current, discovery, talk, kafka, silent>>

\* It boots with an empty registry, and elects from what its file still says.
Restart(n) ==
    /\ ~up[n]
    /\ up' = [up EXCEPT ![n] = TRUE]
    /\ \E m \in Node : current' = [current EXCEPT ![n] = m]
    /\ UNCHANGED <<serving, discovery, registry, talk, kafka, silent, budget>>

-----------------------------------------------------------------------------
(* Leadership, as LeaderElection lets it move.                             *)

Leads(n) ==
    /\ serving' = serving \cup {n}
    /\ current' = [current EXCEPT ![n] = n]
    /\ UNCHANGED <<up, discovery, registry, talk, kafka, silent>>

\* Somebody wins when nobody serves.  While another still serves, that is a
\* disturbance: a partition, or a node that came back with a higher priority.
Win(n)   == up[n] /\ serving = {} /\ Leads(n) /\ UNCHANGED budget
Rival(n) == up[n] /\ n \notin serving /\ serving # {} /\ Fails("move") /\ Leads(n)

\* Of two leaders one is told of the other's election, gives way, and names it
\* from then on.  Only an election is broadcast, and only to nodes not marked
\* dead: two leaders may well last.
StepDown(n) ==
    /\ n \in serving
    /\ \E other \in serving \ {n} : current' = [current EXCEPT ![n] = other]
    /\ serving' = serving \ {n}
    /\ UNCHANGED <<up, discovery, registry, talk, kafka, silent, budget>>

\* A leader that loses its quorum still names itself.
LoseQuorum(n) ==
    /\ n \in serving /\ Fails("move")
    /\ serving' = serving \ {n}
    /\ UNCHANGED <<up, current, discovery, registry, talk, kafka, silent>>

Learn(n) ==
    /\ up[n] /\ n \notin serving /\ current[n] \notin serving
    /\ \E other \in serving : current' = [current EXCEPT ![n] = other]
    /\ UNCHANGED <<up, serving, discovery, registry, talk, kafka, silent, budget>>

\* DiscoveryClient.publish, which a node that does not serve may reach too.
Publishes(n) ==
    /\ up[n] /\ discovery # n
    /\ discovery' = n
    /\ UNCHANGED <<up, serving, current, registry, talk, kafka, silent>>

Publish(n)      == n \in serving    /\ Publishes(n) /\ UNCHANGED budget
StrayPublish(n) == n \notin serving /\ Publishes(n) /\ Fails("stray")

\* LEADER_KEY_TTL_S after the last publish.
Expire ==
    /\ discovery \notin serving \cup {NoNode} /\ Fails("stray")
    /\ discovery' = NoNode
    /\ UNCHANGED <<up, serving, current, registry, talk, kafka, silent>>

-----------------------------------------------------------------------------
Registration(w) ==
    Resolve(w) \/ Registered(w) \/ RegisterHinted(w) \/ RegisterFails(w)

HeartbeatLoop(w) ==
    \/ Beat(w) \/ BeatHinted(w) \/ BeatMissed(w) \/ BeatGivesUp(w) \/ BeatUnresolved(w)

ApplyReconnect(w) ==
    TakeBroker(w) \/ ClearPending(w) \/ Reconnect(w) \/ CloseFails(w) \/ MakeFails(w)

Next ==
    \/ \E w \in Worker : Registration(w) \/ HeartbeatLoop(w) \/ ApplyReconnect(w)
                         \/ Die(w) \/ Start(w)
    \/ \E n \in Node : \/ Sweep(n) \/ Crash(n) \/ Restart(n)
                       \/ Win(n) \/ Rival(n) \/ StepDown(n) \/ LoseQuorum(n)
                       \/ Learn(n) \/ Publish(n) \/ StrayPublish(n)
    \/ Expire

\* Both threads of a worker that is up keep going, whatever their calls return:
\* every one of them has a time-out.
WorkerFairness ==
    \A w \in Worker : /\ WF_vars(Registration(w))
                      /\ WF_vars(HeartbeatLoop(w))
                      /\ WF_vars(ApplyReconnect(w))

\* A leader publishes itself at every tick of its monitor, and every node sweeps
\* its registry.  Nothing is assumed of who leads, for how long, and who knows.
LeaderFairness ==
    \A n \in Node : WF_vars(Publish(n)) /\ WF_vars(Sweep(n))

Fairness == WorkerFairness /\ LeaderFairness

Spec == Init /\ [][Next]_vars /\ Fairness

-----------------------------------------------------------------------------
(* Properties.                                                             *)

\* The types of the variables; silent is counted up to where it stops to matter.
TypeOK ==
    /\ up        \in [Node -> BOOLEAN]
    /\ serving   \in SUBSET Node
    /\ current   \in [Node -> Node]
    /\ discovery \in Node \cup {NoNode}
    /\ registry  \in [Node -> [Worker -> NodeInfo]]
    /\ proc      \in [Worker -> {"down", "starting", "up"}]
    /\ hb        \in [Worker -> {"resolve", "post", "beat"}]
    /\ url       \in [Worker -> Node]
    /\ failures  \in [Worker -> 0..FailureThreshold]
    /\ main      \in [Worker -> {"poll", "taken", "closing"}]
    /\ taken     \in [Worker -> Brokers \cup {NoBroker}]
    /\ pending   \in [Worker -> Brokers \cup {NoBroker}]
    /\ bootstrap \in [Worker -> Brokers \cup {NoBroker}]
    /\ connected \in [Worker -> BOOLEAN]
    /\ silent    \in [Node -> [Worker -> 0..(SweepLimit + 1)]]
    /\ budget    \in Nat

\* A worker that died takes no task for longer than the sweeps of the time-out
\* (registry.py, check_timeouts): whatever it did before, and whichever nodes
\* it had registered with.
DeadWorkersFade ==
    \A n \in Node, w \in Worker :
        proc[w] = "down" /\ registry[n][w].status = "online"
            => silent[n][w] <= SweepLimit

\* A task is accepted exactly if some worker that counts as online would read
\* its topic (by the one table of tiers that leader and worker each have a copy
\* of), with the skill it asks for unless that may be dropped; and it goes to the
\* most capable of those topics that the request allows.
DispatchFindsAReader ==
    \A n \in serving, requested \in Tier, skill \in Skill \cup {NoSkill},
       strict \in BOOLEAN :
        LET Readers(tier, s) ==
                {w \in Worker : /\ registry[n][w].status = "online"
                                /\ tier \in Topics(w)
                                /\ s = NoSkill \/ s \in Skills[w]}
            Allowed(s) == {tier \in Tier : /\ IndexOf(tier) >= IndexOf(requested)
                                           /\ Readers(tier, s) # {}}
            task == Dispatched(registry[n], requested, skill, strict)
        IN /\ task.tier = NoTier <=>
                  Allowed(skill) = {} /\ (strict \/ Allowed(NoSkill) = {})
           /\ task.tier # NoTier =>
                  /\ task.tier \in Allowed(task.skill)
                  /\ \A tier \in Allowed(task.skill) :
                         IndexOf(task.tier) <= IndexOf(tier)
           /\ task.skill # skill => ~strict /\ Allowed(skill) = {}

\* Registries, urls and the hand-over between a worker's two threads amount to
\* PoolMembership: whatever is lost or overtaken, a node calls a worker online
\* exactly for as long as they were in contact within the time-out, and a worker
\* turns to no broker but one that a node named to this very process.
Unheard(entry) == IF entry.status = "online" THEN entry.sweeps ELSE SweepLimit + 1

Membership == INSTANCE PoolMembership
              WITH running <- {w \in Worker : proc[w] # "down"},
                   silence <- [n \in Node |-> [w \in Worker |-> Unheard(registry[n][w])]],
                   offered <- [w \in Worker |-> {pending[w], taken[w]} \ {NoBroker}],
                   using   <- bootstrap

ImplementsMembership == Membership!Spec

\* A worker that talks to a leader, is known there and reads its broker.
Follows(w) ==
    \E n \in serving : /\ hb[w] = "beat" /\ url[w] = n
                       /\ IsKnown(registry[n], w)
                       /\ bootstrap[w] = Broker[n] /\ connected[w]

\* A worker whose swap failed when the broker of its leader had been noted.
Stranded(w) ==
    \E n \in serving : url[w] = n /\ bootstrap[w] = Broker[n] /\ ~connected[w]

\* Whenever the set of serving nodes comes to rest, one or several, and whatever
\* leadership, discovery and hints did before, although a broker request may be
\* wiped out by the swap before it: a worker that stays up settles with one of
\* them, registered and on its broker, and is online there again and again.  The
\* exception is the worker that a failed swap left without its clients.
WorkersFollow ==
    \A w \in Worker, rest \in SUBSET Node \ {{}} :
        <>[](serving = rest) =>
            /\ <>[](proc[w] = "down" \/ Stranded(w) \/ Follows(w))
            /\ []<>(\/ proc[w] = "down"
                    \/ \E n \in serving : registry[n][w].status = "online")
=============================================================================
