--------------------------- MODULE ResultRouting ---------------------------
(***************************************************************************)
(* How a worker's result finds the request that waits for it on the        *)
(* elected leader: the /ask and /ask/stream handlers of main.py on the     *)
(* event loop, and the ResultConsumer thread of leader/kafka_client.py.    *)
(* The two share the dictionaries _pending and _results without a lock;    *)
(* each dictionary call is one step here, and so is the code of a handler  *)
(* between two awaits.                                                     *)
(***************************************************************************)
EXTENDS Naturals

CONSTANTS Request,   \* request ids (uuid4, never reused)
          Streams,   \* those that came through /ask/stream
          NoRequest, \* the thread holds no result
          MaxRuns    \* bound of the results workers publish for one task

ASSUME RequestAssumption ==
    /\ Streams \subseteq Request
    /\ NoRequest \notin Request
    /\ MaxRuns \in Nat

Kind       == {"ok", "error"}
Unanswered == {"refused", "timeout", "failed", "gone"}

VARIABLES handler,   \* where each handler is suspended
          outcome,   \* what its client was told
          pending,   \* ResultConsumer._pending: requests with a live Event
          results,   \* ResultConsumer._results
          thread,    \* the record the consumer thread works on, and where
          callbacks, \* event.set calls queued by call_soon_threadsafe
          events,    \* the Events that are set
          assigned,  \* the consumer's partitions are assigned
          tasks,     \* tasks that reached a tasks-* topic
          topic,     \* completed-tasks records the thread has not read
          produced   \* every result a worker published, for the properties

loop   == <<handler, outcome>>
shared == <<pending, results>>
signal == <<callbacks, events>>
kafka  == <<assigned, tasks, topic, produced>>
vars   == <<handler, outcome, pending, results, thread, callbacks, events,
            assigned, tasks, topic, produced>>

Record == [request_id : Request, kind : Kind, run : 1..MaxRuns]
Polling == [at |-> "poll", rid |-> NoRequest, kind |-> "ok"]
Dead    == [Polling EXCEPT !.at = "dead"]

-----------------------------------------------------------------------------
Init ==
    /\ handler   = [r \in Request |-> "new"]
    /\ outcome   = [r \in Request |-> "none"]
    /\ pending   = {}
    /\ results   = [r \in Request |-> "none"]
    /\ thread    = Polling
    /\ callbacks = {}
    /\ events    = {}
    /\ assigned  = FALSE
    /\ tasks     = {}
    /\ topic     = {}
    /\ produced  = {}

Goto(r, where) ==
    /\ handler' = [handler EXCEPT ![r] = where]
    /\ UNCHANGED outcome

Close(r, told) ==
    /\ handler' = [handler EXCEPT ![r] = "closed"]
    /\ outcome' = [outcome EXCEPT ![r] = told]

\* ResultConsumer.cancel.
Cancel(r) ==
    /\ pending' = pending \ {r}
    /\ results' = [results EXCEPT ![r] = "none"]

\* ResultConsumer.pop_result.
Pop(r) ==
    /\ results' = [results EXCEPT ![r] = "none"]
    /\ UNCHANGED pending

-----------------------------------------------------------------------------
(* The handlers.  Both register the Event before they publish the task.    *)
Ask(r) ==
    /\ handler[r] = "new"
    /\ Goto(r, "publishing")
    /\ pending' = pending \cup {r}
    /\ UNCHANGED <<results, thread, signal, kafka>>

\* TaskProducer.publish raised NoEligibleWorker: 503.
Refuse(r) ==
    /\ handler[r] = "publishing"
    /\ Close(r, "refused")
    /\ Cancel(r)
    /\ UNCHANGED <<thread, signal, kafka>>

\* publish returned.  flush() waits for the send but does not report a failed
\* one: the handler waits although no task may have reached the topic.
Publish(r) ==
    /\ handler[r] = "publishing"
    /\ Goto(r, "waiting")
    /\ tasks' \in {tasks, tasks \cup {r}}
    /\ UNCHANGED <<shared, thread, signal, assigned, topic, produced>>

\* Any other exception of publish (a broker that is away, a flush that times
\* out) is a 500; only NoEligibleWorker is caught, so nothing is cancelled.
PublishRaises(r) ==
    /\ handler[r] = "publishing"
    /\ Close(r, "failed")
    /\ tasks' \in {tasks, tasks \cup {r}}
    /\ UNCHANGED <<shared, thread, signal, assigned, topic, produced>>

\* /ask: the Event is set, take the result.  A successful one is saved first.
WakeAsk(r) ==
    /\ handler[r] = "waiting" /\ r \notin Streams /\ r \in events
    /\ \/ results[r] = "ok"    /\ Goto(r, "saving")
       \/ results[r] = "error" /\ Close(r, "error")
       \/ results[r] = "none"  /\ Close(r, "missing")
    /\ Pop(r)
    /\ UNCHANGED <<thread, signal, kafka>>

\* await save_request: its insert may raise, and the answer is lost with it.
SaveRequest(r) ==
    /\ handler[r] = "saving"
    /\ \E told \in {"ok", "failed"} : Close(r, told)
    /\ UNCHANGED <<shared, thread, signal, kafka>>

\* Mutants of Timeout: the request is not cancelled; the wait has no time-out.
TimeoutUncancelled(r) ==
    /\ handler[r] = "waiting" /\ r \notin Streams
    /\ Close(r, "timeout")
    /\ UNCHANGED <<shared, thread, signal, kafka>>

NoTimeout(r) == FALSE /\ Close(r, "timeout")

\* asyncio.wait_for gave up: 504.  It may do so although the Event has just
\* been set, when the time-out and the wake-up meet in one pass of the loop.
Timeout(r) ==
    /\ handler[r] = "waiting" /\ r \notin Streams
    /\ Close(r, "timeout")
    /\ Cancel(r)
    /\ UNCHANGED <<thread, signal, kafka>>

\* /ask/stream waits for ever, one second at a time, and sends what it finds.
WakeStream(r) ==
    /\ handler[r] = "waiting" /\ r \in Streams /\ r \in events
    /\ \/ results[r] # "none" /\ Close(r, results[r])
       \/ results[r] = "none" /\ Close(r, "missing")
    /\ Pop(r)
    /\ UNCHANGED <<thread, signal, kafka>>

\* The client of a stream goes away: the generator is closed where it waits,
\* and nothing removes the request.
Disconnect(r) ==
    /\ handler[r] = "waiting" /\ r \in Streams
    /\ Close(r, "gone")
    /\ UNCHANGED <<shared, thread, signal, kafka>>

\* The loop runs a callback of call_soon_threadsafe.
RunCallback(r) ==
    /\ r \in callbacks
    /\ callbacks' = callbacks \ {r}
    /\ events'    = events \cup {r}
    /\ UNCHANGED <<loop, shared, thread, kafka>>

-----------------------------------------------------------------------------
(* The consumer thread: read a record, pop the Event, store the result,    *)
(* queue the wake-up.                                                      *)
(* Mutants of PopPending.                                                  *)

\* Without pop's default, a record nobody waits for kills the thread on it.
PopRaises(m) ==
    /\ thread = Polling /\ m \in topic
    /\ topic' = topic \ {m}
    /\ pending' = pending \ {m.request_id}
    /\ thread' = [at   |-> IF m.request_id \in pending THEN "store" ELSE "dead",
                  rid  |-> m.request_id, kind |-> m.kind]
    /\ UNCHANGED <<loop, results, signal, assigned, tasks, produced>>

\* The wake-up is queued before the result is stored.
PopAndSignal(m) ==
    /\ thread = Polling /\ m \in topic
    /\ topic' = topic \ {m}
    /\ IF m.request_id \in pending
       THEN /\ pending'   = pending \ {m.request_id}
            /\ callbacks' = callbacks \cup {m.request_id}
            /\ thread'    = [at |-> "store", rid |-> m.request_id, kind |-> m.kind]
       ELSE UNCHANGED <<pending, callbacks, thread>>
    /\ UNCHANGED <<loop, results, events, assigned, tasks, produced>>

\* get instead of pop: the Event stays registered.
GetPending(m) ==
    /\ thread = Polling /\ m \in topic
    /\ topic' = topic \ {m}
    /\ thread' = IF m.request_id \in pending
                 THEN [at |-> "store", rid |-> m.request_id, kind |-> m.kind]
                 ELSE thread
    /\ UNCHANGED <<loop, shared, signal, assigned, tasks, produced>>

\* The record goes to any request that waits, not to its own.
PopAnyPending(m) ==
    /\ thread = Polling /\ m \in topic
    /\ topic' = topic \ {m}
    /\ \E r \in pending :
         /\ pending' = pending \ {r}
         /\ thread'  = [at |-> "store", rid |-> r, kind |-> m.kind]
    /\ UNCHANGED <<loop, results, signal, assigned, tasks, produced>>

PopPending(m) ==
    /\ thread = Polling /\ m \in topic
    /\ topic' = topic \ {m}
    /\ IF m.request_id \in pending
       THEN /\ pending' = pending \ {m.request_id}
            /\ thread'  = [at |-> "store", rid |-> m.request_id, kind |-> m.kind]
       ELSE UNCHANGED <<pending, thread>>
    /\ UNCHANGED <<loop, results, signal, assigned, tasks, produced>>

StoreResult ==
    /\ thread.at = "store"
    /\ results' = [results EXCEPT ![thread.rid] = thread.kind]
    /\ thread'  = [thread EXCEPT !.at = "signal"]
    /\ UNCHANGED <<loop, pending, signal, kafka>>

\* Mutant of SignalEvent: the loop is not told.
SignalLost ==
    /\ thread.at = "signal"
    /\ thread' = Polling
    /\ UNCHANGED <<loop, shared, signal, kafka>>

SignalEvent ==
    /\ thread.at = "signal"
    /\ callbacks' = callbacks \cup {thread.rid}
    /\ thread'    = Polling
    /\ UNCHANGED <<loop, shared, events, kafka>>

\* _consume catches nothing and start() is called once: a KafkaConsumer that
\* cannot be built, a poll that raises or a record that is no JSON object ends
\* the thread for good, while the node goes on serving.
ThreadDies ==
    /\ thread = Polling
    /\ thread' = Dead
    /\ UNCHANGED <<loop, shared, signal, kafka>>

-----------------------------------------------------------------------------
(* Kafka and the workers, as the leader sees them.                         *)

\* The consumer group of a node that has none starts at the latest record.
Assign ==
    /\ ~assigned /\ thread = Polling
    /\ assigned' = TRUE
    /\ UNCHANGED <<loop, shared, thread, signal, tasks, topic, produced>>

\* A worker publishes a result.  A task may be run again after a rebalance, and
\* process_task publishes an error after a result whose flush raised, so there
\* may be several; a record written before the assignment is never read.
WorkerPublishes(r, kind, run) ==
    LET m == [request_id |-> r, kind |-> kind, run |-> run] IN
    /\ r \in tasks
    /\ \A k \in Kind : <<r, k, run>> \notin produced
    /\ \A earlier \in 1..(run - 1) : \E k \in Kind : <<r, k, earlier>> \in produced
    /\ produced' = produced \cup {<<r, kind, run>>}
    /\ topic' = IF assigned THEN topic \cup {m} ELSE topic
    /\ UNCHANGED <<loop, shared, thread, signal, assigned, tasks>>

-----------------------------------------------------------------------------
Handler(r) ==
    \/ Ask(r)
    \/ Refuse(r)
    \/ Publish(r)
    \/ PublishRaises(r)
    \/ WakeAsk(r)
    \/ SaveRequest(r)
    \/ Timeout(r)
    \/ WakeStream(r)
    \/ Disconnect(r)
    \/ RunCallback(r)

Consumer ==
    \/ \E m \in topic : PopPending(m)
    \/ StoreResult
    \/ SignalEvent

Next ==
    \/ \E r \in Request : Handler(r)
    \/ Consumer
    \/ ThreadDies
    \/ Assign
    \/ \E r \in Request, kind \in Kind, run \in 1..MaxRuns :
           WorkerPublishes(r, kind, run)

Spec == Init /\ [][Next]_vars

\* The loop keeps running, and so does the thread as long as it has not died;
\* wait_for's time-out fires; the handlers' other awaits return or raise.  Nobody
\* must ask, answer or leave.
Fairness ==
    /\ WF_vars(Consumer)
    /\ \A r \in Request :
         /\ WF_vars(RunCallback(r))
         /\ WF_vars(Refuse(r) \/ Publish(r) \/ PublishRaises(r))
         /\ WF_vars(WakeAsk(r) \/ Timeout(r))
         /\ WF_vars(WakeStream(r))
         /\ WF_vars(SaveRequest(r))

FairSpec == Spec /\ Fairness

-----------------------------------------------------------------------------
(* Properties.                                                             *)

\* Every variable keeps its type; the thread never dies with a request in hand.
TypeOK ==
    /\ handler \in [Request -> {"new", "publishing", "waiting", "saving", "closed"}]
    /\ outcome \in [Request -> {"none", "missing"} \cup Kind \cup Unanswered]
    /\ pending \subseteq Request
    /\ results \in [Request -> {"none"} \cup Kind]
    /\ \/ thread \in {Polling, Dead}
       \/ thread \in [at : {"store", "signal"}, rid : Request, kind : Kind]
    /\ callbacks \subseteq Request
    /\ events \subseteq Request
    /\ assigned \in BOOLEAN
    /\ tasks \subseteq Request
    /\ topic \subseteq Record
    /\ produced \subseteq Request \X Kind \X (1..MaxRuns)

\* "Result missing after event fired." (main.py:462) cannot happen, nor can a
\* stream send an empty response: an Event that is set has its result behind it
\* for as long as its handler waits, whatever the thread, a second result for
\* the same request or another request's time-out do meanwhile.
ResultBehindEvent ==
    \A r \in Request :
        /\ handler[r] = "waiting" /\ r \in events => results[r] # "none"
        /\ outcome[r] # "missing"

\* One registration gets one result: the thread takes a request out of
\* _pending before it hands anything over, so two results of one task never
\* meet in the hand-over, and nobody waits for a request it has not registered.
HandOver(r) ==
    /\ r \in pending => /\ results[r] = "none"
                        /\ r \notin events \cup callbacks
                        /\ thread.rid # r
    /\ thread.rid = r => r \notin events \cup callbacks
    /\ r \in callbacks => r \notin events
    /\ handler[r] = "waiting" =>
         \/ r \in pending \/ thread.rid = r \/ r \in callbacks \/ r \in events

OneHandOver == \A r \in Request : HandOver(r)

\* The dictionaries only ever keep an entry of a closed request on three paths:
\* an exception of publish, a stream whose client left, and a result that the
\* thread was storing while its request timed out.  Every other way out of a
\* handler leaves nothing behind.
LeaksAreConfined ==
    \A r \in Request : handler[r] = "closed" =>
        /\ r \in pending => outcome[r] \in {"failed", "gone"}
        /\ results[r] # "none" => outcome[r] \in {"failed", "gone", "timeout"}

\* An /ask handler always returns: no lost task, lost result, race with the
\* consumer thread or death of that thread keeps its client waiting for ever.
AskEnds ==
    \A r \in Request \ Streams : handler[r] = "publishing" ~> handler[r] = "closed"

\* A stream ends too, once a result for it is on the topic, unless the consumer
\* thread has died and left it registered: a result that the thread has taken is
\* delivered even if the thread dies next.
StreamEnds ==
    \A r \in Streams :
        handler[r] = "waiting" /\ (\E m \in topic : m.request_id = r)
            ~> handler[r] = "closed" \/ (thread = Dead /\ r \in pending)

-----------------------------------------------------------------------------
(* The handlers implement the lifecycle a client is promised.              *)
Phase(r) ==
    IF handler[r] = "new" THEN "idle"
    ELSE IF handler[r] = "closed" THEN outcome[r] ELSE "open"

Lifecycle == INSTANCE RequestLifecycle
             WITH phase    <- [r \in Request |-> Phase(r)],
                  produced <- {<<p[1], p[2]>> : p \in produced}

ImplementsLifecycle == Lifecycle!Spec

-----------------------------------------------------------------------------
(* The inductive invariant behind the safety properties and the refinement. *)

Answered(r, kind) == \E run \in 1..MaxRuns : <<r, kind, run>> \in produced

\* Whatever is on its way to a client was published by a worker for it, and
\* nothing was published for a task that is not out.
Provenance ==
    /\ \A m \in topic : <<m.request_id, m.kind, m.run>> \in produced
    /\ \A p \in produced : p[1] \in tasks
    /\ thread \in {Polling, Dead} \/ Answered(thread.rid, thread.kind)
    /\ \A r \in Request :
         /\ results[r] # "none" => Answered(r, results[r])
         /\ handler[r] = "saving" => Answered(r, "ok")

Untouched(r) == results[r] = "none" /\ r \notin events \cup callbacks /\ thread.rid # r

\* Where a request's result can be, by the state of its handler.
HandlerInv(r) ==
    /\ handler[r] \in {"new", "publishing"} =>
         /\ Untouched(r) /\ r \notin tasks
         /\ (r \in pending) <=> (handler[r] = "publishing")
    /\ /\ handler[r] = "waiting"
       /\ \/ thread.at = "signal" /\ thread.rid = r
          \/ r \in callbacks \cup events
       => results[r] # "none"
    /\ handler[r] = "saving" => r \in events /\ results[r] = "none"
    /\ handler[r] = "closed" =>
         \/ outcome[r] \in {"failed", "gone"}
         \/ outcome[r] = "timeout" /\ r \notin pending
         \/ /\ outcome[r] \in {"ok", "error", "refused"}
            /\ r \notin pending /\ results[r] = "none" /\ thread.rid # r
    /\ handler[r] # "closed" => outcome[r] = "none"

RInv ==
    /\ TypeOK
    /\ Provenance
    /\ \A r \in Request : HandOver(r) /\ HandlerInv(r)

-----------------------------------------------------------------------------
(* What the repository says of the hand-over and the code does not do.     *)

\* kafka_client.py:12-15 finds no lock necessary, and cancel (line 260) is there
\* so that the thread does not touch a timed-out request: once a request has
\* timed out and the thread is back at its poll, nothing of it is left.
TimedOutLeavesNothing ==
    \A r \in Request :
        outcome[r] = "timeout" /\ thread = Polling => results[r] = "none"
=============================================================================
