----------------------------- MODULE TaskQueue -----------------------------
(***************************************************************************)
(* One partition of a tasks-* topic and the workers that drain it: the     *)
(* main loop of worker.py over the consumer and producer of                *)
(* worker/kafka_client.py.  All workers share the consumer group           *)
(* "workers"; the group gives the partition to one of them at a time, and  *)
(* a worker commits by hand, after it has published the result.            *)
(*                                                                         *)
(* Kafka is external: it appends what the leader sends, takes the          *)
(* partition away from a member at any moment (a session time-out, another *)
(* member that joins), refuses commits of members that lost it, and starts *)
(* the next owner at the committed offset.                                 *)
(***************************************************************************)
EXTENDS Naturals

CONSTANTS Worker,
          NoWorker,    \* nobody owns the partition
          MaxTasks,    \* bound of the tasks the leader publishes
          Faults,      \* the kinds of fault that happen
          FaultBudget  \* bound on how many of them do

Fault == {"revoke", "die", "publish", "unsent", "commit", "swap"}

ASSUME QueueAssumption ==
    /\ NoWorker \notin Worker
    /\ MaxTasks \in Nat
    /\ Faults \subseteq Fault
    /\ FaultBudget \in Nat

VARIABLES end,        \* tasks in the partition; offsets are 0..(end - 1)
          committed,  \* the group's committed offset: the next to be read
          owner,      \* the member the partition is assigned to
          loop,       \* where each worker's main loop is
          position,   \* each consumer's position, past the last yielded task
          fetched,    \* end of the batch its iterator is going through
          stored,     \* tasks with a result or an error on completed-tasks
          unsent,     \* tasks whose publish_result returned without storing one
          dropped,    \* tasks for which publish_result raised twice
          runs,       \* how often each worker processed each task
          tenures,    \* how often each worker was given the partition
          budget      \* faults left

kafka == <<end, committed, owner>>
batch == <<position, fetched>>
fate  == <<stored, unsent, dropped>>
count == <<runs, tenures>>
vars  == <<end, committed, owner, loop, position, fetched, stored, unsent, dropped,
           runs, tenures, budget>>

Offset == 0..(MaxTasks - 1)

Loop == {"down", "poll", "working", "failing", "commit", "retry", "closed"}

\* The task of the last iteration: the iterator moves the position past a
\* record before it yields it.
Current(w) == position[w] - 1

Goto(w, where) == loop' = [loop EXCEPT ![w] = where]

Fails(kind) ==
    /\ kind \in Faults
    /\ budget > 0
    /\ budget' = budget - 1

Release(w) == owner' = IF owner = w THEN NoWorker ELSE owner

-----------------------------------------------------------------------------
Init ==
    /\ end       = 0
    /\ committed = 0
    /\ owner     = NoWorker
    /\ loop      = [w \in Worker |-> "poll"]
    /\ position  = [w \in Worker |-> 0]
    /\ fetched   = [w \in Worker |-> 0]
    /\ stored    = {}
    /\ unsent    = {}
    /\ dropped   = {}
    /\ runs      = [w \in Worker |-> [o \in Offset |-> 0]]
    /\ tenures   = [w \in Worker |-> 0]
    /\ budget    = FaultBudget

-----------------------------------------------------------------------------
(* for task in kafka.poll(): the iterator of the consumer.                 *)

\* Mutant of Join: auto_offset_reset="latest", with nothing committed.
JoinLatest(w) ==
    /\ loop[w] = "poll" /\ position[w] = fetched[w]
    /\ owner = NoWorker
    /\ owner'    = w
    /\ position' = [position EXCEPT ![w] = end]
    /\ fetched'  = [fetched  EXCEPT ![w] = end]
    /\ tenures'  = [tenures  EXCEPT ![w] = @ + 1]
    /\ UNCHANGED <<end, committed, loop, fate, runs, budget>>

\* With its batch used up, the iterator polls Kafka: it joins the group again
\* if it has to, and then reads from the committed offset on.
Join(w) ==
    /\ loop[w] = "poll" /\ position[w] = fetched[w]
    /\ owner = NoWorker
    /\ owner'    = w
    /\ position' = [position EXCEPT ![w] = committed]
    /\ fetched'  = [fetched  EXCEPT ![w] = committed]
    /\ tenures'  = [tenures  EXCEPT ![w] = @ + 1]
    /\ UNCHANGED <<end, committed, loop, fate, runs, budget>>

Fetch(w) ==
    /\ loop[w] = "poll" /\ position[w] = fetched[w]
    /\ owner = w
    /\ \E upto \in (position[w] + 1)..end : fetched' = [fetched EXCEPT ![w] = upto]
    /\ UNCHANGED <<kafka, loop, position, fate, count, budget>>

\* Mutant of Yield: enable_auto_commit=True.
YieldAutoCommits(w) ==
    /\ loop[w] = "poll" /\ position[w] < fetched[w]
    /\ Goto(w, "working")
    /\ position'  = [position EXCEPT ![w] = @ + 1]
    /\ runs'      = [runs     EXCEPT ![w][position[w]] = @ + 1]
    /\ committed' = IF owner = w THEN position[w] + 1 ELSE committed
    /\ UNCHANGED <<end, owner, fetched, fate, tenures, budget>>

\* The rest of a batch is yielded without another look at the group, even when
\* the partition has been taken away meanwhile.
Yield(w) ==
    /\ loop[w] = "poll" /\ position[w] < fetched[w]
    /\ Goto(w, "working")
    /\ position' = [position EXCEPT ![w] = @ + 1]
    /\ runs'     = [runs     EXCEPT ![w][position[w]] = @ + 1]
    /\ UNCHANGED <<kafka, fetched, fate, tenures, budget>>

-----------------------------------------------------------------------------
(* process_task.  generate never raises: it answers with a stand-in when   *)
(* Ollama fails.                                                           *)

\* send() only queues the record and its future is dropped; flush() waits for
\* the record and does not say that it could not be stored.
PublishReturns(w) ==
    /\ \/ /\ stored' = stored \cup {Current(w)}
          /\ UNCHANGED <<unsent, budget>>
       \/ /\ Fails("unsent")
          /\ unsent' = unsent \cup {Current(w)}
          /\ UNCHANGED stored
    /\ UNCHANGED dropped

\* Buffer full, no metadata, a flush that timed out: in the last case the record
\* may still be stored.
PublishRaises(w) ==
    /\ Fails("publish")
    /\ stored' \in {stored, stored \cup {Current(w)}}
    /\ UNCHANGED unsent

Report(w) ==
    /\ loop[w] = "working"
    /\ Goto(w, "commit")
    /\ PublishReturns(w)
    /\ UNCHANGED <<kafka, batch, count>>

ReportRaises(w) ==
    /\ loop[w] = "working"
    /\ Goto(w, "failing")
    /\ PublishRaises(w)
    /\ UNCHANGED <<kafka, batch, dropped, count>>

\* except Exception: publish an error in place of the answer.
ReportError(w) ==
    /\ loop[w] = "failing"
    /\ Goto(w, "commit")
    /\ PublishReturns(w)
    /\ UNCHANGED <<kafka, batch, count>>

\* The handler of the exception raises in its turn, out of process_task.
ReportErrorRaises(w) ==
    /\ loop[w] = "failing"
    /\ Goto(w, "retry")
    /\ PublishRaises(w)
    /\ dropped' = dropped \cup {Current(w)}
    /\ UNCHANGED <<kafka, batch, count>>

\* Mutant of Commit: the offset after the next one.
CommitOneTooFar(w) ==
    /\ loop[w] = "commit" /\ owner = w
    /\ committed' = position[w] + 1
    /\ Goto(w, "poll")
    /\ UNCHANGED <<end, owner, batch, fate, count, budget>>

\* Mutant of Commit: a broker that does not fence a member which lost the
\* partition.
CommitUnfenced(w) ==
    /\ loop[w] = "commit"
    /\ committed' = position[w]
    /\ Goto(w, "poll")
    /\ UNCHANGED <<end, owner, batch, fate, count, budget>>

\* consumer.commit() commits the position, and with it every task before.
Commit(w) ==
    /\ loop[w] = "commit" /\ owner = w
    /\ committed' = position[w]
    /\ Goto(w, "poll")
    /\ UNCHANGED <<end, owner, batch, fate, count, budget>>

\* A member that lost the partition is refused; the owner's commit may be lost,
\* or applied with its answer lost.
CommitRaises(w) ==
    /\ loop[w] = "commit"
    /\ \/ owner # w /\ UNCHANGED <<committed, budget>>
       \/ owner = w /\ Fails("commit") /\ committed' \in {committed, position[w]}
    /\ Goto(w, "retry")
    /\ UNCHANGED <<end, owner, batch, fate, count>>

\* Mutants of Retry: the task that failed is yielded again; the rest of its
\* batch is thrown away.
RetrySeeksBack(w) ==
    /\ loop[w] = "retry"
    /\ Goto(w, "poll")
    /\ position' = [position EXCEPT ![w] = @ - 1]
    /\ UNCHANGED <<kafka, fetched, fate, count, budget>>

RetryDropsBatch(w) ==
    /\ loop[w] = "retry"
    /\ Goto(w, "poll")
    /\ position' = [position EXCEPT ![w] = fetched[w]]
    /\ UNCHANGED <<kafka, fetched, fate, count, budget>>

\* "Consumer error: ... Retrying in 2 s": the loop starts over, and the iterator
\* goes on where it was.  Nothing seeks back to the task that failed.
Retry(w) ==
    /\ loop[w] = "retry"
    /\ Goto(w, "poll")
    /\ UNCHANGED <<kafka, batch, fate, count, budget>>

\* apply_reconnect_if_needed, once the iterator has been silent for a second:
\* close both clients and make new ones for the same cluster.  If that raises,
\* the closed consumer stays and its iterator ends at once, until yet another
\* broker is asked for.  (If only the producer cannot be made, every publish
\* raises from then on.)
SwapBroker(w) ==
    /\ loop[w] \in {"poll", "closed"} /\ position[w] = fetched[w] /\ Fails("swap")
    /\ \E where \in {"poll", "closed"} : Goto(w, where)
    /\ Release(w)
    /\ UNCHANGED <<end, committed, batch, fate, count>>

-----------------------------------------------------------------------------
\* A signal or a crash, at any point of the loop.  Neither commits.
Die(w) ==
    /\ loop[w] # "down" /\ Fails("die")
    /\ Goto(w, "down")
    /\ Release(w)
    /\ fetched' = [fetched EXCEPT ![w] = position[w]]
    /\ UNCHANGED <<end, committed, position, fate, count>>

Start(w) ==
    /\ loop[w] = "down"
    /\ Goto(w, "poll")
    /\ UNCHANGED <<kafka, batch, fate, count, budget>>

\* TaskProducer.publish on the leader.
Append ==
    /\ end < MaxTasks
    /\ end' = end + 1
    /\ UNCHANGED <<committed, owner, loop, batch, fate, count, budget>>

\* The group coordinator gives up on the owner, or rebalances.
Revoke ==
    /\ owner # NoWorker /\ Fails("revoke")
    /\ owner' = NoWorker
    /\ UNCHANGED <<end, committed, loop, batch, fate, count>>

-----------------------------------------------------------------------------
Main(w) ==
    \/ Join(w)
    \/ Fetch(w)
    \/ Yield(w)
    \/ Report(w)
    \/ ReportRaises(w)
    \/ ReportError(w)
    \/ ReportErrorRaises(w)
    \/ Commit(w)
    \/ CommitRaises(w)
    \/ Retry(w)

Next ==
    \/ \E w \in Worker : Main(w) \/ SwapBroker(w) \/ Die(w) \/ Start(w)
    \/ Append
    \/ Revoke

Spec == Init /\ [][Next]_vars

\* The main loop goes on as long as its process runs.
Fairness == \A w \in Worker : WF_vars(Main(w))

FairSpec == Spec /\ Fairness

-----------------------------------------------------------------------------
(* Properties.                                                             *)

TypeOK ==
    /\ end \in 0..MaxTasks
    /\ committed \in 0..end
    /\ owner \in Worker \cup {NoWorker}
    /\ loop \in [Worker -> Loop]
    /\ position \in [Worker -> 0..end]
    /\ fetched \in [Worker -> 0..end]
    /\ stored \subseteq Offset
    /\ unsent \subseteq Offset
    /\ dropped \subseteq Offset
    /\ runs \in [Worker -> [Offset -> Nat]]
    /\ tenures \in [Worker -> Nat]
    /\ budget \in Nat

\* worker.py:343-345: if the owner crashes in the middle of a task, the task's
\* offset is not committed and Kafka redelivers it, whatever became of the
\* tasks before it.
InFlightStaysUncommitted ==
    \A w \in Worker :
        owner = w /\ loop[w] \in {"working", "failing"} => committed <= Current(w)

\* What became of a task: a result, or a publish that failed.
Settled(o) == o \in stored \cup unsent \cup dropped

\* A commit covers every task before it, also those the loop ran away from.
\* It only ever buries one without a result if a publish_result for it returned
\* although its send had failed, or if both its publish and its error publish
\* raised: no crash, rebalance, failed commit or swap loses a task.
LossIsConfined == \A o \in 0..(committed - 1) : Settled(o)

\* Two runs of a task by one worker need two tenures: an error and its retry
\* never process a task again, and a batch that outlives its tenure is not
\* started over.
AtMostOncePerTenure ==
    \A w \in Worker, o \in Offset : runs[w][o] <= tenures[w]

Staffed(w) == loop[w] \notin {"down", "closed"}

\* With one worker that stays, every published task eventually has a result, or
\* a publish that failed as above, whoever else comes, goes, or holds the
\* partition meanwhile.  (It need not be committed: a last commit that fails is
\* not tried again.)
DrainedIfStaffed ==
    (\E w \in Worker : <>[]Staffed(w)) =>
        \A o \in Offset : end > o ~> Settled(o)

\* Group, batches, tenures and faults implement the queue of AtLeastOnce: a
\* commit only ever moves forward, over tasks that were answered or given up,
\* also when a member that lost the partition is still at work.
Queue == INSTANCE AtLeastOnce
         WITH accepted  <- end,
              answered  <- stored,
              abandoned <- unsent \cup dropped,
              forgotten <- committed

ImplementsQueue == Queue!Spec

-----------------------------------------------------------------------------
(* The inductive invariant behind the safety properties.                   *)

Processing(w) == loop[w] \in {"working", "failing"}

\* The owner is past no task that has neither a result nor a failed publish
\* to show for it, except the one it is at; and the commit is behind it.
OwnerAccounts(w) ==
    owner = w =>
        /\ \A o \in 0..(position[w] - 1) :
              Settled(o) \/ (Processing(w) /\ o = Current(w))
        /\ committed <= IF Processing(w) THEN Current(w) ELSE position[w]

\* A worker that may still yield a task has a tenure to spend on it.
TenureAhead(w) ==
    /\ owner = w \/ position[w] < fetched[w] => tenures[w] > 0
    /\ tenures[w] > 0 =>
         \A o \in Offset : o >= position[w] => runs[w][o] < tenures[w]

WorkerInv(w) ==
    /\ position[w] <= fetched[w]
    /\ Processing(w) \/ loop[w] = "commit" => position[w] > 0
    /\ OwnerAccounts(w)
    /\ TenureAhead(w)

QInv ==
    /\ TypeOK
    /\ LossIsConfined
    /\ AtMostOncePerTenure
    /\ \A w \in Worker : WorkerInv(w)

-----------------------------------------------------------------------------
(* What the repository says of the queue and the code does not do.         *)

\* worker/kafka_client.py:122-125 says that commit is called only after
\* publish_result has flushed successfully, as committing earlier loses the
\* task.  But the commit of the next task covers one whose publish_result raised
\* twice, and a publish_result that returns has not always stored the result,
\* although lines 81-83 say that the producer fails fast.
CommittedWasStored == \A o \in 0..(committed - 1) : o \in stored
=============================================================================
