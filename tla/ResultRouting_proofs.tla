------------------------ MODULE ResultRouting_proofs ------------------------
(***************************************************************************)
(* Proofs about ResultRouting for any requests, plain and streamed, and    *)
(* any number of results per task.  RInv is inductive: one lemma per       *)
(* action.  From RInv follow the safety properties, and that each step of  *)
(* the handlers and the thread is a step of RequestLifecycle or a stutter. *)
(***************************************************************************)
EXTENDS ResultRouting, TLAPS

USE RequestAssumption DEF loop, shared, signal, kafka, Dead

LEMMA RInvInit == Init => RInv
<1> SUFFICES ASSUME Init PROVE RInv
  OBVIOUS
<1>1. TypeOK
  BY DEF Init, TypeOK, Polling, Kind
<1>2. Provenance
  BY DEF Init, Provenance, Polling
<1>3. ASSUME NEW r \in Request PROVE HandOver(r) /\ HandlerInv(r)
  BY DEF Init, HandOver, HandlerInv, Untouched, Polling
<1> QED
  BY <1>1, <1>2, <1>3 DEF RInv

-----------------------------------------------------------------------------
LEMMA AskStep ==
    ASSUME RInv, NEW r \in Request, Ask(r)
    PROVE  RInv'
<1>1. TypeOK'
  BY DEF Ask, Goto, RInv, TypeOK, Kind, Unanswered
<1>2. Provenance'
  BY DEF Ask, Goto, RInv, TypeOK, Provenance, Answered, Polling, HandlerInv
<1>3. ASSUME NEW q \in Request PROVE HandOver(q)'
  BY DEF Ask, Goto, RInv, TypeOK, HandOver, HandlerInv, Untouched, Provenance, Polling
<1>4. ASSUME NEW q \in Request PROVE HandlerInv(q)'
  BY DEF Ask, Goto, RInv, TypeOK, HandOver, HandlerInv, Untouched, Provenance, Polling
<1> QED
  BY <1>1, <1>2, <1>3, <1>4 DEF RInv

LEMMA RefuseStep ==
    ASSUME RInv, NEW r \in Request, Refuse(r)
    PROVE  RInv'
<1>1. TypeOK'
  BY DEF Refuse, Close, Cancel, RInv, TypeOK, Kind, Unanswered
<1>2. Provenance'
  BY ZenonT(60) DEF Refuse, Close, Cancel, RInv, TypeOK, Provenance, Answered, Polling, HandlerInv
<1>3. ASSUME NEW q \in Request PROVE HandOver(q)'
  BY DEF Refuse, Close, Cancel, RInv, TypeOK, HandOver, HandlerInv, Untouched, Provenance, Polling
<1>4. ASSUME NEW q \in Request PROVE HandlerInv(q)'
  BY DEF Refuse, Close, Cancel, RInv, TypeOK, HandOver, HandlerInv, Untouched, Provenance, Polling
<1> QED
  BY <1>1, <1>2, <1>3, <1>4 DEF RInv

LEMMA PublishStep ==
    ASSUME RInv, NEW r \in Request, Publish(r)
    PROVE  RInv'
<1>1. TypeOK'
  BY DEF Publish, Goto, RInv, TypeOK, Kind, Unanswered
<1>2. Provenance'
  BY DEF Publish, Goto, RInv, TypeOK, Provenance, Answered, Polling, HandlerInv
<1>3. ASSUME NEW q \in Request PROVE HandOver(q)'
  BY DEF Publish, Goto, RInv, TypeOK, HandOver, HandlerInv, Untouched, Provenance, Polling
<1>4. ASSUME NEW q \in Request PROVE HandlerInv(q)'
  BY DEF Publish, Goto, RInv, TypeOK, HandOver, HandlerInv, Untouched, Provenance, Polling
<1> QED
  BY <1>1, <1>2, <1>3, <1>4 DEF RInv

LEMMA PublishRaisesStep ==
    ASSUME RInv, NEW r \in Request, PublishRaises(r)
    PROVE  RInv'
<1>1. TypeOK'
  BY DEF PublishRaises, Close, RInv, TypeOK, Kind, Unanswered
<1>2. Provenance'
  BY DEF PublishRaises, Close, RInv, TypeOK, Provenance, Answered, Polling, HandlerInv
<1>3. ASSUME NEW q \in Request PROVE HandOver(q)'
  BY DEF PublishRaises, Close, RInv, TypeOK, HandOver, HandlerInv, Untouched, Provenance, Polling
<1>4. ASSUME NEW q \in Request PROVE HandlerInv(q)'
  BY DEF PublishRaises, Close, RInv, TypeOK, HandOver, HandlerInv, Untouched, Provenance, Polling
<1> QED
  BY <1>1, <1>2, <1>3, <1>4 DEF RInv

LEMMA WakeAskStep ==
    ASSUME RInv, NEW r \in Request, WakeAsk(r)
    PROVE  RInv'
<1>1. TypeOK'
  BY DEF WakeAsk, Goto, Close, Pop, RInv, TypeOK, Kind, Unanswered
<1>2. Provenance'
  BY ZenonT(60) DEF WakeAsk, Goto, Close, Pop, RInv, TypeOK, Provenance, Answered, Polling, HandlerInv
<1>3. ASSUME NEW q \in Request PROVE HandOver(q)'
  BY DEF WakeAsk, Goto, Close, Pop, RInv, TypeOK, HandOver, HandlerInv, Untouched, Provenance, Polling
<1>4. ASSUME NEW q \in Request PROVE HandlerInv(q)'
  BY DEF WakeAsk, Goto, Close, Pop, RInv, TypeOK, HandOver, HandlerInv, Untouched, Provenance, Polling
<1> QED
  BY <1>1, <1>2, <1>3, <1>4 DEF RInv

LEMMA SaveRequestStep ==
    ASSUME RInv, NEW r \in Request, SaveRequest(r)
    PROVE  RInv'
<1>1. TypeOK'
  BY DEF SaveRequest, Close, RInv, TypeOK, Kind, Unanswered
<1>2. Provenance'
  BY DEF SaveRequest, Close, RInv, TypeOK, Provenance, Answered, Polling, HandlerInv
<1>3. ASSUME NEW q \in Request PROVE HandOver(q)'
  BY DEF SaveRequest, Close, RInv, TypeOK, HandOver, HandlerInv, Untouched, Provenance, Polling
<1>4. ASSUME NEW q \in Request PROVE HandlerInv(q)'
  BY DEF SaveRequest, Close, RInv, TypeOK, HandOver, HandlerInv, Untouched, Provenance, Polling
<1> QED
  BY <1>1, <1>2, <1>3, <1>4 DEF RInv

LEMMA TimeoutStep ==
    ASSUME RInv, NEW r \in Request, Timeout(r)
    PROVE  RInv'
<1>1. TypeOK'
  BY DEF Timeout, Close, Cancel, RInv, TypeOK, Kind, Unanswered
<1>2. Provenance'
  BY ZenonT(60) DEF Timeout, Close, Cancel, RInv, TypeOK, Provenance, Answered, Polling, HandlerInv
<1>3. ASSUME NEW q \in Request PROVE HandOver(q)'
  BY DEF Timeout, Close, Cancel, RInv, TypeOK, HandOver, HandlerInv, Untouched, Provenance, Polling
<1>4. ASSUME NEW q \in Request PROVE HandlerInv(q)'
  BY DEF Timeout, Close, Cancel, RInv, TypeOK, HandOver, HandlerInv, Untouched, Provenance, Polling
<1> QED
  BY <1>1, <1>2, <1>3, <1>4 DEF RInv

LEMMA WakeStreamStep ==
    ASSUME RInv, NEW r \in Request, WakeStream(r)
    PROVE  RInv'
<1>1. TypeOK'
  BY DEF WakeStream, Close, Pop, RInv, TypeOK, Kind, Unanswered
<1>2. Provenance'
  <2>1. /\ UNCHANGED <<topic, produced, tasks, thread>>
        /\ \A q \in Request : results'[q] \in {results[q], "none"}
        /\ \A q \in Request : handler'[q] \in {handler[q], "closed"}
    BY DEF WakeStream, Close, Pop, RInv, TypeOK
  <2> QED  BY <2>1 DEF RInv, Provenance, Answered
<1>3. ASSUME NEW q \in Request PROVE HandOver(q)'
  BY DEF WakeStream, Close, Pop, RInv, TypeOK, HandOver, HandlerInv, Untouched, Provenance, Polling
<1>4. ASSUME NEW q \in Request PROVE HandlerInv(q)'
  <2>1. results[r] \in Kind /\ r \in events /\ handler[r] = "waiting"
    BY DEF WakeStream, RInv, HandlerInv, TypeOK
  <2>2. r \notin pending /\ thread.rid # r
    BY <2>1 DEF RInv, HandOver
  <2>3. CASE q = r
    <3>1. /\ handler'[r] = "closed" /\ outcome'[r] \in Kind
          /\ r \notin pending' /\ results'[r] = "none" /\ thread'.rid # r
      BY <2>1, <2>2 DEF WakeStream, Close, Pop, RInv, TypeOK, Kind
    <3> QED  BY <2>3, <3>1 DEF HandlerInv, Kind
  <2>4. CASE q # r
    BY <2>4 DEF WakeStream, Close, Pop, RInv, TypeOK, HandlerInv, Untouched
  <2> QED  BY <2>3, <2>4
<1> QED
  BY <1>1, <1>2, <1>3, <1>4 DEF RInv

LEMMA DisconnectStep ==
    ASSUME RInv, NEW r \in Request, Disconnect(r)
    PROVE  RInv'
<1>1. TypeOK'
  BY DEF Disconnect, Close, RInv, TypeOK, Kind, Unanswered
<1>2. Provenance'
  BY DEF Disconnect, Close, RInv, TypeOK, Provenance, Answered, Polling, HandlerInv
<1>3. ASSUME NEW q \in Request PROVE HandOver(q)'
  BY DEF Disconnect, Close, RInv, TypeOK, HandOver, HandlerInv, Untouched, Provenance, Polling
<1>4. ASSUME NEW q \in Request PROVE HandlerInv(q)'
  BY DEF Disconnect, Close, RInv, TypeOK, HandOver, HandlerInv, Untouched, Provenance, Polling
<1> QED
  BY <1>1, <1>2, <1>3, <1>4 DEF RInv

LEMMA RunCallbackStep ==
    ASSUME RInv, NEW r \in Request, RunCallback(r)
    PROVE  RInv'
<1>1. TypeOK'
  BY DEF RunCallback, RInv, TypeOK, Kind, Unanswered
<1>2. Provenance'
  BY DEF RunCallback, RInv, TypeOK, Provenance, Answered, Polling, HandlerInv
<1>3. ASSUME NEW q \in Request PROVE HandOver(q)'
  BY DEF RunCallback, RInv, TypeOK, HandOver, HandlerInv, Untouched, Provenance, Polling
<1>4. ASSUME NEW q \in Request PROVE HandlerInv(q)'
  BY DEF RunCallback, RInv, TypeOK, HandOver, HandlerInv, Untouched, Provenance, Polling
<1> QED
  BY <1>1, <1>2, <1>3, <1>4 DEF RInv

LEMMA PopPendingStep ==
    ASSUME RInv, NEW m \in topic, PopPending(m)
    PROVE  RInv'
<1>1. TypeOK'
  BY DEF PopPending, Record, RInv, TypeOK, Kind, Unanswered
<1>2. Provenance'
  <2>1. /\ Provenance /\ <<m.request_id, m.kind, m.run>> \in produced
        /\ m.run \in 1..MaxRuns
    BY DEF PopPending, RInv, TypeOK, Record, Provenance
  <2>2. /\ UNCHANGED <<produced, tasks, results, handler>> /\ topic' \subseteq topic
        /\ \/ UNCHANGED thread
           \/ thread'.rid = m.request_id /\ thread'.kind = m.kind
    BY DEF PopPending
  <2>3. Answered(m.request_id, m.kind)
    BY <2>1 DEF Answered
  <2>4. (thread \in {Polling, Dead} \/ Answered(thread.rid, thread.kind))'
    <3>1. Answered(m.request_id, m.kind)'
      BY <2>2, <2>3 DEF Answered
    <3>2. CASE UNCHANGED thread
      BY <2>1, <2>2, <3>2 DEF Provenance, Answered, Polling
    <3>3. CASE thread'.rid = m.request_id /\ thread'.kind = m.kind
      BY <3>1, <3>3 DEF Answered
    <3> QED  BY <2>2, <3>2, <3>3
  <2> QED  BY <2>1, <2>2, <2>4 DEF Provenance, Answered
<1>3. ASSUME NEW q \in Request PROVE HandOver(q)'
  BY DEF PopPending, Record, RInv, TypeOK, HandOver, HandlerInv, Untouched, Provenance, Polling
<1>4. ASSUME NEW q \in Request PROVE HandlerInv(q)'
  <2>1. m.request_id \in tasks /\ thread.at = "poll" /\ thread.rid = NoRequest
    BY DEF PopPending, RInv, Provenance, Polling
  <2>2. HandlerInv(q) /\ HandOver(q)
    BY DEF RInv
  <2>3. CASE m.request_id \notin pending
    BY <2>2, <2>3 DEF PopPending, HandlerInv, Untouched
  <2>4. CASE m.request_id \in pending
    <3>1. /\ pending' = pending \ {m.request_id}
          /\ thread'.at = "store" /\ thread'.rid = m.request_id
          /\ UNCHANGED <<handler, outcome, results, callbacks, events, tasks>>
      BY <2>4 DEF PopPending
    <3>2. CASE q = m.request_id
      BY <2>1, <2>2, <2>4, <3>1, <3>2 DEF HandlerInv, HandOver
    <3>3. CASE q # m.request_id
      BY <2>1, <2>2, <3>1, <3>3 DEF HandlerInv, Untouched
    <3> QED  BY <3>2, <3>3
  <2> QED  BY <2>3, <2>4
<1> QED
  BY <1>1, <1>2, <1>3, <1>4 DEF RInv

LEMMA StoreResultStep ==
    ASSUME RInv, StoreResult
    PROVE  RInv'
<1>0. /\ thread \in [at : {"store", "signal"}, rid : Request, kind : Kind]
      /\ thread.rid \in Request /\ thread.kind \in Kind
      /\ thread' = [thread EXCEPT !.at = "signal"]
      /\ results' = [results EXCEPT ![thread.rid] = thread.kind]
      /\ UNCHANGED <<loop, pending, signal, kafka>>
  <2>1. thread \in [at : {"store", "signal"}, rid : Request, kind : Kind]
    BY DEF StoreResult, RInv, TypeOK, Polling
  <2>2. thread.rid \in Request /\ thread.kind \in Kind
    BY <2>1
  <2> QED  BY <2>1, <2>2 DEF StoreResult
<1>1. TypeOK'
  BY <1>0 DEF RInv, TypeOK, Kind
<1>2. Provenance'
  <2>1. Provenance /\ Answered(thread.rid, thread.kind)
    BY <1>0 DEF StoreResult, RInv, Provenance, Polling
  <2>2. /\ thread'.rid = thread.rid /\ thread'.kind = thread.kind
        /\ \A r \in Request : results'[r] = IF r = thread.rid THEN thread.kind
                                           ELSE results[r]
    BY <1>0 DEF RInv, TypeOK
  <2> QED  BY <1>0, <2>1, <2>2 DEF Provenance, Answered
<1>3. ASSUME NEW q \in Request PROVE HandOver(q)'
  BY DEF StoreResult, RInv, TypeOK, HandOver, HandlerInv, Untouched, Provenance, Polling
<1>4. ASSUME NEW q \in Request PROVE HandlerInv(q)'
  <2>1. /\ thread.rid \in Request /\ thread.kind \in Kind
        /\ results' = [results EXCEPT ![thread.rid] = thread.kind]
        /\ thread'.at = "signal" /\ thread'.rid = thread.rid
        /\ UNCHANGED <<handler, outcome, pending, callbacks, events, tasks>>
    BY <1>0
  <2>2. HandlerInv(q) /\ HandOver(q) /\ results \in [Request -> {"none"} \cup Kind]
    BY DEF RInv, TypeOK
  <2>3. CASE q = thread.rid
    <3>1. results'[q] \in Kind /\ q \notin events
      BY <2>1, <2>2, <2>3 DEF HandOver
    <3> QED  BY <2>1, <2>2, <2>3, <3>1 DEF HandlerInv, Untouched, Kind
  <2>4. CASE q # thread.rid
    BY <2>1, <2>2, <2>4 DEF HandlerInv, Untouched
  <2> QED  BY <2>3, <2>4
<1> QED
  BY <1>1, <1>2, <1>3, <1>4 DEF RInv

LEMMA SignalEventStep ==
    ASSUME RInv, SignalEvent
    PROVE  RInv'
<1>1. TypeOK'
  BY DEF SignalEvent, Polling, RInv, TypeOK, Provenance, Kind
<1>2. Provenance'
  BY DEF SignalEvent, Polling, RInv, TypeOK, Provenance, Answered, Polling, HandlerInv
<1>3. ASSUME NEW q \in Request PROVE HandOver(q)'
  BY DEF SignalEvent, Polling, RInv, TypeOK, HandOver, HandlerInv, Untouched, Provenance, Polling
<1>4. ASSUME NEW q \in Request PROVE HandlerInv(q)'
  BY DEF SignalEvent, Polling, RInv, TypeOK, HandOver, HandlerInv, Untouched, Provenance, Polling
<1> QED
  BY <1>1, <1>2, <1>3, <1>4 DEF RInv

LEMMA ThreadDiesStep ==
    ASSUME RInv, ThreadDies
    PROVE  RInv'
<1>1. /\ thread' = Dead /\ thread'.at = "dead" /\ thread'.rid = NoRequest
      /\ UNCHANGED <<loop, shared, signal, kafka>>
  BY DEF ThreadDies, Polling
<1>2. TypeOK'
  BY <1>1 DEF RInv, TypeOK
<1>3. Provenance'
  BY <1>1 DEF RInv, Provenance, Answered
<1>4. ASSUME NEW q \in Request PROVE HandOver(q)'
  BY <1>1 DEF ThreadDies, Polling, RInv, HandOver
<1>5. ASSUME NEW q \in Request PROVE HandlerInv(q)'
  BY <1>1 DEF ThreadDies, Polling, RInv, HandlerInv, Untouched
<1> QED
  BY <1>2, <1>3, <1>4, <1>5 DEF RInv

LEMMA AssignStep ==
    ASSUME RInv, Assign
    PROVE  RInv'
<1>1. TypeOK'
  BY DEF Assign, RInv, TypeOK, Kind, Unanswered
<1>2. Provenance'
  BY DEF Assign, RInv, TypeOK, Provenance, Answered, Polling, HandlerInv
<1>3. ASSUME NEW q \in Request PROVE HandOver(q)'
  BY DEF Assign, RInv, TypeOK, HandOver, HandlerInv, Untouched, Provenance, Polling
<1>4. ASSUME NEW q \in Request PROVE HandlerInv(q)'
  BY DEF Assign, RInv, TypeOK, HandOver, HandlerInv, Untouched, Provenance, Polling
<1> QED
  BY <1>1, <1>2, <1>3, <1>4 DEF RInv

LEMMA WorkerPublishesStep ==
    ASSUME RInv, NEW r \in Request, NEW kind \in Kind, NEW run \in 1..MaxRuns,
           WorkerPublishes(r, kind, run)
    PROVE  RInv'
<1>1. TypeOK'
  BY DEF WorkerPublishes, Record, RInv, TypeOK, Kind, Unanswered
<1>2. Provenance'
  <2>1. /\ UNCHANGED <<thread, tasks, results, handler>> /\ r \in tasks
        /\ produced' = produced \cup {<<r, kind, run>>}
        /\ topic' \subseteq topic \cup {[request_id |-> r, kind |-> kind, run |-> run]}
    BY DEF WorkerPublishes
  <2>2. \A p \in produced' : p[1] \in tasks'
    BY <2>1 DEF RInv, Provenance
  <2>3. \A m \in topic' : <<m.request_id, m.kind, m.run>> \in produced'
    <3>1. ASSUME NEW m \in topic PROVE <<m.request_id, m.kind, m.run>> \in produced'
      BY <2>1 DEF RInv, Provenance
    <3> DEFINE n == [request_id |-> r, kind |-> kind, run |-> run]
    <3>2. <<n.request_id, n.kind, n.run>> \in produced'
      BY <2>1
    <3>3. \A m \in topic' : m \in topic \/ m = n
      BY <2>1
    <3> HIDE DEF n
    <3> QED  BY <3>1, <3>2, <3>3
  <2> QED  BY <2>1, <2>2, <2>3 DEF RInv, Provenance, Answered
<1>3. ASSUME NEW q \in Request PROVE HandOver(q)'
  BY DEF WorkerPublishes, Record, RInv, TypeOK, HandOver, HandlerInv, Untouched, Provenance, Polling
<1>4. ASSUME NEW q \in Request PROVE HandlerInv(q)'
  BY DEF WorkerPublishes, Record, RInv, TypeOK, HandOver, HandlerInv, Untouched, Provenance, Polling
<1> QED
  BY <1>1, <1>2, <1>3, <1>4 DEF RInv

LEMMA RInvNext == RInv /\ [Next]_vars => RInv'
<1> SUFFICES ASSUME RInv, [Next]_vars PROVE RInv'
  OBVIOUS
<1>1. CASE UNCHANGED vars
  BY <1>1 DEF vars, RInv, TypeOK, Record, HandOver, HandlerInv, Untouched,
              Provenance, Answered, Polling
<1>2. ASSUME NEW r \in Request, Handler(r) PROVE RInv'
  BY <1>2, AskStep, RefuseStep, PublishStep, PublishRaisesStep, WakeAskStep,
     SaveRequestStep, TimeoutStep, WakeStreamStep, DisconnectStep,
     RunCallbackStep DEF Handler
<1>3. CASE Consumer
  BY <1>3, PopPendingStep, StoreResultStep, SignalEventStep DEF Consumer
<1>4. ASSUME NEW r \in Request, NEW kind \in Kind, NEW run \in 1..MaxRuns,
             WorkerPublishes(r, kind, run)
      PROVE  RInv'
  BY <1>4, WorkerPublishesStep
<1> QED
  BY <1>1, <1>2, <1>3, <1>4, ThreadDiesStep, AssignStep DEF Next

-----------------------------------------------------------------------------
\* The inductive invariant holds in every reachable state.
THEOREM RoutingInvariant == Spec => []RInv
<1> QED
  BY RInvInit, RInvNext, PTL DEF Spec

\* Every variable keeps its type; in particular the consumer thread, which may
\* die, does so only at its poll: a request it has taken off _pending is never
\* left in its hands.
THEOREM RoutingTypeCorrect == Spec => []TypeOK
<1>1. RInv => TypeOK
  BY DEF RInv
<1> QED
  BY RoutingInvariant, <1>1, PTL

\* A handler that finds its Event set finds its result too.
THEOREM NoResultIsMissing == Spec => []ResultBehindEvent
<1>1. RInv => ResultBehindEvent
  BY DEF RInv, HandlerInv, ResultBehindEvent
<1> QED
  BY RoutingInvariant, <1>1, PTL

\* A registration receives at most one result, and is never lost.
THEOREM HandedOverOnce == Spec => []OneHandOver
<1>1. RInv => OneHandOver
  BY DEF RInv, OneHandOver
<1> QED
  BY RoutingInvariant, <1>1, PTL

\* Only the three known paths leave an entry of a closed request behind.
THEOREM OnlyKnownLeaks == Spec => []LeaksAreConfined
<1>1. RInv => LeaksAreConfined
  BY DEF RInv, HandlerInv, LeaksAreConfined
<1> QED
  BY RoutingInvariant, <1>1, PTL

-----------------------------------------------------------------------------
(* The refinement.                                                         *)

phases  == [r \in Request |-> Phase(r)]
answers == {<<p[1], p[2]>> : p \in produced}

\* A step of handler r changes no other request's phase.
LEMMA OtherPhases ==
    ASSUME TypeOK, NEW r \in Request, NEW where,
           \/ Goto(r, where)
           \/ Close(r, where)
    PROVE  phases' = [phases EXCEPT ![r] = Phase(r)']
BY DEF TypeOK, Goto, Close, phases, Phase

LEMMA StartsIdle == Init => Lifecycle!Init
BY DEF Init, Lifecycle!Init, Phase

\* What the abstract actions ask of a step.
LEMMA OpensRequest ==
    ASSUME NEW r \in Request, phases[r] = "idle",
           phases' = [phases EXCEPT ![r] = "open"], answers' = answers
    PROVE  Lifecycle!Next
BY DEF Lifecycle!Next, Lifecycle!Open, phases, answers

LEMMA DeliversAnswer ==
    ASSUME NEW r \in Request, NEW kind \in Kind, phases[r] = "open",
           <<r, kind>> \in answers,
           phases' = [phases EXCEPT ![r] = kind], answers' = answers
    PROVE  Lifecycle!Next
BY DEF Lifecycle!Next, Lifecycle!Deliver, Lifecycle!Kind, Kind, phases, answers

LEMMA AbandonsRequest ==
    ASSUME NEW r \in Request, NEW told \in Unanswered, phases[r] = "open",
           phases' = [phases EXCEPT ![r] = told], answers' = answers
    PROVE  Lifecycle!Next
BY DEF Lifecycle!Next, Lifecycle!Abandon, Lifecycle!Unanswered, Unanswered,
       phases, answers

LEMMA ProducesAnswer ==
    ASSUME NEW r \in Request, NEW kind \in Kind, phases' = phases,
           answers' = answers \cup {<<r, kind>>}
    PROVE  Lifecycle!Next
BY DEF Lifecycle!Next, Lifecycle!Produce, Lifecycle!Kind, Kind, phases, answers

LEMMA AnsweredIsProduced ==
    ASSUME NEW r, NEW kind, Answered(r, kind)
    PROVE  <<r, kind>> \in answers
<1>1. PICK run \in 1..MaxRuns : <<r, kind, run>> \in produced
  BY DEF Answered
<1> DEFINE p == <<r, kind, run>>
<1>2. p[1] = r /\ p[2] = kind
  OBVIOUS
<1> HIDE DEF p
<1>3. p \in produced
  BY <1>1 DEF p
<1> QED
  BY <1>2, <1>3 DEF answers

LEMMA ProducedIsAnswered ==
    ASSUME NEW r, NEW kind, NEW run, produced' = produced \cup {<<r, kind, run>>}
    PROVE  answers' = answers \cup {<<r, kind>>}
<1> DEFINE p == <<r, kind, run>>
<1>1. p[1] = r /\ p[2] = kind
  OBVIOUS
<1> HIDE DEF p
<1>2. produced' = produced \cup {p}
  BY DEF p
<1> QED
  BY <1>1, <1>2 DEF answers

LEMMA HandlerStep ==
    ASSUME RInv, NEW r \in Request, Handler(r)
    PROVE  Lifecycle!Next \/ UNCHANGED <<phases, answers>>
<1>0. TypeOK /\ HandlerInv(r) /\ Provenance
  BY DEF RInv
<1>1. answers' = answers
  BY DEF Handler, Ask, Refuse, Publish, PublishRaises, WakeAsk, SaveRequest, Timeout,
         WakeStream, Disconnect, RunCallback, answers
<1>2. ASSUME NEW where, Goto(r, where), handler[r] \in {"publishing", "waiting"},
             where \in {"waiting", "saving"}
      PROVE  UNCHANGED <<phases, answers>>
  <2>1. phases' = [phases EXCEPT ![r] = Phase(r)']
    BY <1>0, <1>2, OtherPhases
  <2>2. Phase(r)' = "open" /\ phases[r] = "open"
    BY <1>0, <1>2 DEF Goto, Phase, TypeOK, phases
  <2> QED  BY <1>1, <2>1, <2>2 DEF phases
<1>3. ASSUME NEW told, Close(r, told), handler[r] \in {"publishing", "waiting", "saving"}
      PROVE  phases[r] = "open" /\ phases' = [phases EXCEPT ![r] = told]
  <2>1. phases' = [phases EXCEPT ![r] = Phase(r)']
    BY <1>0, <1>3, OtherPhases
  <2>2. Phase(r)' = told /\ phases[r] = "open"
    BY <1>0, <1>3 DEF Close, Phase, TypeOK, phases
  <2> QED  BY <2>1, <2>2
<1>4. CASE Ask(r)
  <2>1. phases' = [phases EXCEPT ![r] = Phase(r)']
    BY <1>0, <1>4, OtherPhases DEF Ask
  <2>2. Phase(r)' = "open" /\ phases[r] = "idle"
    BY <1>0, <1>4 DEF Ask, Goto, Phase, TypeOK, phases
  <2> QED  BY <1>1, <2>1, <2>2, OpensRequest
<1>5. CASE Refuse(r) \/ PublishRaises(r) \/ Timeout(r) \/ Disconnect(r)
  <2>1. PICK told \in Unanswered : Close(r, told)
    BY <1>5 DEF Refuse, PublishRaises, Timeout, Disconnect, Unanswered
  <2>2. handler[r] \in {"publishing", "waiting"}
    BY <1>5 DEF Refuse, PublishRaises, Timeout, Disconnect
  <2> QED  BY <1>1, <1>3, <2>1, <2>2, AbandonsRequest
<1>6. CASE Publish(r)
  BY <1>2, <1>6 DEF Publish
<1>7. CASE WakeAsk(r)
  <2>1. CASE results[r] = "ok"
    BY <1>2, <1>7, <2>1 DEF WakeAsk
  <2>2. CASE results[r] = "error"
    <3>1. <<r, "error">> \in answers /\ "error" \in Kind
      BY <1>0, <2>2, AnsweredIsProduced DEF Provenance, Kind
    <3>2. Close(r, "error") /\ handler[r] = "waiting"
      BY <1>7, <2>2 DEF WakeAsk
    <3> QED  BY <1>1, <1>3, <3>1, <3>2, DeliversAnswer
  <2> QED  BY <1>0, <1>7, <2>1, <2>2 DEF WakeAsk, HandlerInv
<1>8. CASE SaveRequest(r)
  <2>1. <<r, "ok">> \in answers /\ "ok" \in Kind /\ "failed" \in Unanswered
    BY <1>0, <1>8, AnsweredIsProduced DEF SaveRequest, Provenance, Kind, Unanswered
  <2>2. handler[r] = "saving" /\ (Close(r, "ok") \/ Close(r, "failed"))
    BY <1>8 DEF SaveRequest
  <2> QED  BY <1>1, <1>3, <2>1, <2>2, DeliversAnswer, AbandonsRequest
<1>9. CASE WakeStream(r)
  <2>1. results[r] \in Kind /\ Close(r, results[r]) /\ handler[r] = "waiting"
    BY <1>0, <1>9 DEF WakeStream, HandlerInv, TypeOK
  <2>2. <<r, results[r]>> \in answers
    BY <1>0, <2>1, AnsweredIsProduced DEF Provenance, Kind
  <2> QED  BY <1>1, <1>3, <2>1, <2>2, DeliversAnswer
<1>10. CASE RunCallback(r)
  BY <1>1, <1>10 DEF RunCallback, phases, Phase
<1> QED
  BY <1>4, <1>5, <1>6, <1>7, <1>8, <1>9, <1>10 DEF Handler

LEMMA StepIsLifecycleStep ==
    RInv /\ [Next]_vars => [Lifecycle!Next]_<<phases, answers>>
<1> SUFFICES ASSUME RInv, [Next]_vars
             PROVE  Lifecycle!Next \/ UNCHANGED <<phases, answers>>
  OBVIOUS
<1>1. CASE UNCHANGED vars
  BY <1>1 DEF vars, phases, answers, Phase
<1>2. CASE Consumer \/ ThreadDies \/ Assign
  BY <1>2 DEF Consumer, ThreadDies, PopPending, StoreResult, SignalEvent, Assign,
              phases, answers, Phase
<1>3. ASSUME NEW r \in Request, NEW kind \in Kind, NEW run \in 1..MaxRuns,
             WorkerPublishes(r, kind, run)
      PROVE  Lifecycle!Next
  <2>1. phases' = phases
    BY <1>3 DEF WorkerPublishes, phases, Phase
  <2>2. answers' = answers \cup {<<r, kind>>}
    BY <1>3, ProducedIsAnswered DEF WorkerPublishes
  <2> QED  BY <2>1, <2>2, ProducesAnswer
<1> QED
  BY <1>1, <1>2, <1>3, HandlerStep DEF Next

\* Every behaviour of the handlers, the loop and the consumer thread is one of
\* the lifecycle: a request is closed once, and what a worker's answer closes it
\* with was published for this very request.
THEOREM LifecycleImplemented == Spec => ImplementsLifecycle
<1>1. Init => Lifecycle!Init
  BY StartsIdle
<1>2. RInv /\ [Next]_vars => [Lifecycle!Next]_<<phases, answers>>
  BY StepIsLifecycleStep
<1>3. Spec => []RInv
  BY RoutingInvariant
<1> QED
  BY <1>1, <1>2, <1>3, PTL DEF Spec, ImplementsLifecycle, Lifecycle!Spec, phases, answers
=============================================================================
