-------------------------- MODULE WebClient_proofs --------------------------
(***************************************************************************)
(* Proofs about WebClient and the handlers of Accounts: the types, and the *)
(* safety invariants, for any nodes, calls, browsers and faults.           *)
(***************************************************************************)
EXTENDS WebClient, FiniteSetTheorems, TLAPS

USE AccountsAssumption, ClientAssumption DEF Stages, Stops, Looking

\* What a handler may leave its attempt at.
Outcomes == {"admitted", "checked", "waiting", "half", "streaming", "raised"}
            \cup Replies

\* A call that has not been sent, or is about to be sent again, has sends left.
Tried ==
    \A c \in Call :
        /\ pc[c] = "idle" => tries[c] = 0
        /\ pc[c] = "joins" => tries[c] = 0
        /\ pc[c] \in Looking => tries[c] < MaxTries
        /\ pc[c] \notin {"idle"} \cup Looking => tries[c] > 0

\* What has not been sent has no handler.
Unsent ==
    \A c \in Call, k \in 1..3 : k > tries[c] => at[<<c, k>>] = "none"

\* A call about a user has been told which.
Aimed ==
    \A c \in Call : pc[c] # "idle" /\ scene[c].op \in {"login", "role", "delete"}
                     => subject[c] \in User

Base == TypeOK /\ Tried /\ Unsent /\ Aimed

-----------------------------------------------------------------------------
(* What the steps have in common.                                          *)

LEMMA AttemptParts ==
    ASSUME NEW h \in Attempt
    PROVE  /\ h[1] \in Call /\ h[2] \in 1..3 /\ h = <<h[1], h[2]>>
           /\ h # Founder /\ h \in User /\ h # NoUser
BY DEF Attempt, MaxTries, User

LEMMA TurnedOutcome ==
    ASSUME NEW h
    PROVE  Turned(h) \in {"noconn", "admitted", "unavailable"}
BY DEF Turned

\* A handler moves its own attempt and nobody else's.
LEMMA HandlerMoves ==
    ASSUME TypeOK, NEW h \in Attempt, Handler(h) \/ Answer(h)
    PROVE  /\ at' = [at EXCEPT ![h] = at'[h]]
           /\ at'[h] \in Outcomes
           /\ UNCHANGED <<up, serving, scene, subject, dest>>
           /\ budget' \in Nat
<1> USE DEF Reaches, Fails, leaders, requests, users, logs
<1>0. at \in [Attempt -> Stages] /\ budget \in Nat
  BY DEF TypeOK
<1>1. CASE Arrive(h)
  <2>1. Turned(h) \in Outcomes
    BY TurnedOutcome DEF Outcomes, Replies
  <2> QED  BY <1>0, <1>1, <2>1 DEF Arrive
<1>2. CASE Login(h)
  BY <1>0, <1>2 DEF Login, Outcomes, Replies
<1>3. CASE SignupCheck(h)
  BY <1>0, <1>3 DEF SignupCheck, Outcomes, Replies
<1>4. CASE SignupInsert(h)
  BY <1>0, <1>4 DEF SignupInsert, Outcomes, Replies
<1>5. CASE UpdateRole(h)
  BY <1>0, <1>5 DEF UpdateRole, Outcomes, Replies
<1>6. CASE DeleteUser(h)
  BY <1>0, <1>6 DEF DeleteUser, Outcomes, Replies
<1>7. CASE Publish(h)
  <2>1. Turned(h) \in Outcomes
    BY TurnedOutcome DEF Outcomes, Replies
  <2>2. (IF Op(h) = "ask" THEN "waiting" ELSE "streaming") \in Outcomes
    BY DEF Outcomes
  <2> QED  BY <1>0, <1>7, <2>1, <2>2 DEF Publish, Outcomes, Replies
<1>8. CASE AskTimeout(h)
  BY <1>0, <1>8 DEF AskTimeout, Outcomes, Replies
<1>9. CASE SaveForAdmin(h)
  BY <1>0, <1>9 DEF SaveForAdmin, Outcomes, Replies
<1>10. CASE AskError(h)
  BY <1>0, <1>10 DEF AskError, Outcomes, Replies
<1>11. CASE AskAnswered(h)
  BY <1>0, <1>11 DEF AskAnswered, Outcomes, Replies
<1>12. CASE StreamAnswered(h)
  BY <1>0, <1>12 DEF StreamAnswered, Outcomes, Replies
<1> QED
  BY <1>1, <1>2, <1>3, <1>4, <1>5, <1>6, <1>7, <1>8, <1>9, <1>10, <1>11, <1>12
     DEF Handler, Answer

\* A handler runs for a call that has been sent.
LEMMA HandledWasSent ==
    ASSUME Base, NEW h \in Attempt, at[h] # "none"
    PROVE  /\ tries[h[1]] >= h[2] /\ pc[h[1]] # "idle"
           /\ Op(h) \in {"login", "role", "delete"} => subject[h[1]] \in User
<1>1. h[1] \in Call /\ h[2] \in 1..3 /\ h = <<h[1], h[2]>> /\ tries[h[1]] \in Nat
  BY AttemptParts DEF Base, TypeOK, MaxTries
<1>2. tries[h[1]] >= h[2]
  <2>1. h[2] > tries[h[1]] => at[<<h[1], h[2]>>] = "none"
    BY <1>1 DEF Base, Unsent
  <2> QED  BY <1>1, <2>1
<1>3. pc[h[1]] # "idle"
  BY <1>1, <1>2 DEF Base, Tried
<1> QED  BY <1>1, <1>2, <1>3 DEF Base, Aimed, Op

\* Where a handler leaves the tables and the log of what took effect.
LEMMA HandlerTables ==
    ASSUME Base, NEW h \in Attempt, Handler(h) \/ Answer(h)
    PROVE  /\ rows' \in SUBSET User /\ ghosts' \in SUBSET User
           /\ userLog' \in SUBSET Attempt /\ adminLog' \in SUBSET Attempt
           /\ executed' \in SUBSET Attempt /\ together' \in SUBSET SUBSET Attempt
<1> USE DEF users, logs, SetRole, DeleteRow
<1>0. /\ subject[h[1]] \in User \cup {NoUser} /\ h \in User
      /\ rows \in SUBSET User /\ ghosts \in SUBSET User
      /\ userLog \in SUBSET Attempt /\ adminLog \in SUBSET Attempt
      /\ executed \in SUBSET Attempt /\ together \in SUBSET SUBSET Attempt
  BY AttemptParts DEF Base, TypeOK
<1>1. CASE Arrive(h) \/ Login(h) \/ AskTimeout(h) \/ AskError(h) \/ StreamAnswered(h)
  BY <1>0, <1>1 DEF Arrive, Login, AskTimeout, AskError, StreamAnswered
<1>2. CASE SignupCheck(h)
  BY <1>0, <1>2 DEF SignupCheck
<1>3. CASE SignupInsert(h)
  BY <1>0, <1>3 DEF SignupInsert
<1>4. CASE UpdateRole(h)
  <2>1. subject[h[1]] \in User
    BY <1>4, HandledWasSent DEF UpdateRole
  <2> QED  BY <1>0, <1>4, <2>1 DEF UpdateRole
<1>5. CASE DeleteUser(h)
  BY <1>0, <1>5 DEF DeleteUser
<1>6. CASE Publish(h)
  BY <1>0, <1>6 DEF Publish
<1>7. CASE SaveForAdmin(h) \/ AskAnswered(h)
  BY <1>0, <1>7 DEF SaveForAdmin, AskAnswered
<1> QED
  BY <1>1, <1>2, <1>3, <1>4, <1>5, <1>6, <1>7 DEF Handler, Answer

-----------------------------------------------------------------------------
(* The browser sends.                                                      *)

LEMMA SendMoves ==
    ASSUME Base, NEW c \in Call, NEW n \in Node, tries[c] < MaxTries, Send(c, n)
    PROVE  LET h == <<c, tries[c] + 1>> IN
           /\ h \in Attempt /\ at[h] = "none"
           /\ at' = [at EXCEPT ![h] = "sent"] /\ dest' = [dest EXCEPT ![h] = n]
           /\ tries' = [tries EXCEPT ![c] = tries[c] + 1]
           /\ pc' = [pc EXCEPT ![c] = "sent"]
<1>1. tries[c] \in Nat /\ tries[c] + 1 \in 1..3
  BY DEF Base, TypeOK, MaxTries
<1>2. at[<<c, tries[c] + 1>>] = "none"
  <2>1. tries[c] + 1 > tries[c]
    BY <1>1
  <2> QED  BY <1>1, <2>1, Zenon DEF Base, Unsent
<1> QED  BY <1>1, <1>2 DEF Send, Goes, Attempt, MaxTries

LEMMA ChoiceIsNode ==
    ASSUME TypeOK, NEW c \in Call, NEW healthy \in SUBSET Alive
    PROVE  Choice(c, healthy) \in Node
BY DEF TypeOK, Choice, FirstOf, Alive

LEMMA AgainHasSends ==
    ASSUME TypeOK, NEW c \in Call, NEW answered, Again(c, answered)
    PROVE  tries[c] < MaxTries
BY DEF TypeOK, Again, MaxTries

-----------------------------------------------------------------------------
(* Types.                                                                  *)

LEMMA BaseInit == Init => Base
<1> SUFFICES ASSUME Init PROVE Base
  OBVIOUS
<1>1. TypeOK
  BY DEF Init, AccountsInit, TypeOK, User, MaxTries
<1>2. Unsent
  BY DEF Init, AccountsInit, Unsent, Attempt, MaxTries
<1>3. Tried /\ Aimed
  BY DEF Init, Tried, Aimed
<1> QED  BY <1>1, <1>2, <1>3 DEF Base

LEMMA BaseHandlers ==
    ASSUME Base, NEW h \in Attempt, at[h] \in Running, Handler(h) \/ Answer(h),
           UNCHANGED <<browser, calm, discovery>>
    PROVE  Base'
<1>0. at[h] # "none" /\ at \in [Attempt -> Stages]
  BY DEF Base, TypeOK, Running
<1>1. at' \in [Attempt -> Stages]
  BY <1>0, HandlerMoves DEF Base, Outcomes, Running
<1>2. TypeOK'
  BY <1>1, HandlerMoves, HandlerTables DEF Base, TypeOK, browser
<1>3. Tried' /\ Aimed'
  BY HandlerMoves DEF Base, Tried, Aimed, browser
<1>4. Unsent'
  <2> SUFFICES ASSUME NEW c \in Call, NEW k \in 1..3, k > tries[c]
               PROVE  at'[<<c, k>>] = "none"
    BY DEF Unsent, browser
  <2>1. at[<<c, k>>] = "none"
    BY DEF Base, Unsent
  <2>2. <<c, k>> # h /\ <<c, k>> \in Attempt
    BY <1>0, <2>1 DEF Attempt, MaxTries
  <2> QED  BY <1>0, <2>1, <2>2, HandlerMoves DEF Base
<1> QED  BY <1>2, <1>3, <1>4 DEF Base

LEMMA BaseProcesses ==
    ASSUME Base, Processes, calm' = [c \in Call |-> FALSE],
           UNCHANGED <<browser, discovery>>
    PROVE  Base'
<1> USE DEF requests, users, logs, Fails
<1>1. PICK n \in Node : Crash(n) \/ Restart(n) \/ Win(n) \/ StepDown(n)
  BY DEF Processes
<1>2. UNCHANGED <<scene, subject, dest, rows, ghosts, userLog, adminLog, executed,
                  together>>
  BY <1>1 DEF Crash, Restart, Win, StepDown
<1>3. at' \in [Attempt -> Stages]
  BY <1>1 DEF Crash, Restart, Win, StepDown, Base, TypeOK, Replies
<1>4. up' \in [Node -> BOOLEAN] /\ serving' \in SUBSET Node /\ budget' \in Nat
  <2>1. up \in [Node -> BOOLEAN] /\ serving \in SUBSET Node /\ budget \in Nat
    BY DEF Base, TypeOK
  <2>2. CASE Crash(n)
    BY <2>1, <2>2 DEF Crash
  <2>3. CASE Restart(n)
    BY <2>1, <2>3 DEF Restart
  <2>4. CASE Win(n)
    BY <2>1, <2>4 DEF Win
  <2>5. CASE StepDown(n)
    BY <2>1, <2>5 DEF StepDown
  <2> QED  BY <1>1, <2>2, <2>3, <2>4, <2>5
<1>5. \A h \in Attempt : at[h] = "none" => at'[h] = "none"
  BY <1>1 DEF Crash, Restart, Win, StepDown, Base, TypeOK, Requests, Running
<1>6. TypeOK'
  BY <1>2, <1>3, <1>4 DEF Base, TypeOK, browser
<1>7. Unsent'
  <2>1. \A c \in Call, k \in 1..3 : <<c, k>> \in Attempt
    BY DEF Attempt, MaxTries
  <2> QED  BY <1>5, <2>1 DEF Base, Unsent, browser
<1> QED  BY <1>2, <1>6, <1>7 DEF Base, Tried, Aimed, browser

LEMMA BaseSend ==
    ASSUME Base, NEW c \in Call, NEW n \in Node, tries[c] < MaxTries, Send(c, n)
    PROVE  /\ at' \in [Attempt -> Stages]
           /\ dest' \in [Attempt -> Node \cup {NoNode}]
           /\ tries' \in [Call -> 0..MaxTries]
           /\ pc' \in [Call -> Stops \cup Replies]
           /\ Tried' /\ Unsent'
<1> DEFINE g == <<c, tries[c] + 1>>
<1>1. /\ g \in Attempt
      /\ at' = [at EXCEPT ![g] = "sent"] /\ dest' = [dest EXCEPT ![g] = n]
      /\ tries' = [tries EXCEPT ![c] = tries[c] + 1]
      /\ pc' = [pc EXCEPT ![c] = "sent"]
  BY SendMoves
<1>2. tries[c] + 1 \in 0..MaxTries /\ tries[c] \in Nat /\ tries \in [Call -> 0..MaxTries]
  BY DEF Base, TypeOK, MaxTries
<1>3. tries' \in [Call -> 0..MaxTries] /\ dest' \in [Attempt -> Node \cup {NoNode}]
  BY <1>1, <1>2 DEF Base, TypeOK
<1>4. at' \in [Attempt -> Stages]
  BY <1>1 DEF Base, TypeOK, Running
<1>5. pc' \in [Call -> Stops \cup Replies]
  BY <1>1 DEF Base, TypeOK
<1>6. Tried'
  BY <1>1, <1>2 DEF Base, Tried, TypeOK
<1>7. Unsent'
  <2> SUFFICES ASSUME NEW d \in Call, NEW k \in 1..3, k > tries'[d]
               PROVE  at'[<<d, k>>] = "none"
    BY DEF Unsent
  <2>1. k > tries[d]
    BY <1>1, <1>2
  <2>2. <<d, k>> # g /\ <<d, k>> \in Attempt
    BY <1>1, <1>2 DEF Attempt, MaxTries
  <2>3. at[<<d, k>>] = "none"
    BY <2>1 DEF Base, Unsent
  <2> QED  BY <1>1, <2>2, <2>3 DEF Base, TypeOK
<1> QED  BY <1>3, <1>4, <1>5, <1>6, <1>7

\* A step that sends nothing and starts nothing.
LEMMA BaseGoes ==
    ASSUME Base, NEW c \in Call, NEW where, Goes(c, where), pc[c] # "idle",
           where \in (Stops \ {"idle", "joins"}) \cup Replies,
           where \in Looking => tries[c] < MaxTries,
           where \notin Looking => pc[c] \notin Looking,
           UNCHANGED <<scene, subject, at, tries>>
    PROVE  /\ pc' \in [Call -> Stops \cup Replies]
           /\ Tried' /\ Unsent' /\ Aimed'
<1>1. pc \in [Call -> Stops \cup Replies]
  BY DEF Base, TypeOK
<1>2. pc' = [pc EXCEPT ![c] = where]
  BY DEF Goes
<1>3. where \notin {"idle", "joins"}
  BY DEF Replies
<1>4. Tried'
  BY <1>1, <1>2, <1>3 DEF Base, Tried
<1>5. Unsent' /\ Aimed'
  BY <1>1, <1>2, <1>3 DEF Base, Unsent, Aimed
<1> QED  BY <1>1, <1>2, <1>4, <1>5

LEMMA BaseStart ==
    ASSUME Base, NEW c \in Call, Start(c)
    PROVE  Base'
<1> USE DEF leaders, users, logs
<1>1. c \in DOMAIN scene /\ pc[c] = "idle" /\ tries[c] = 0
  BY DEF Start, Base, Tried
<1>2. PICK u \in Subjects(c) : subject' = [subject EXCEPT ![c] = u]
  BY DEF Start
<1>3. /\ u \in User \cup {NoUser}
      /\ scene[c].op \in {"login", "role", "delete"} => u \in User
  BY DEF Base, TypeOK, Subjects, Listed
<1>4. /\ subject' \in [Call -> User \cup {NoUser}]
      /\ calm' \in [Call -> BOOLEAN]
  BY <1>2, <1>3 DEF Base, TypeOK, Start, Settled
<1>5. Aimed'
  <2> SUFFICES ASSUME NEW d \in Call, pc'[d] # "idle",
                      scene[d].op \in {"login", "role", "delete"}
               PROVE  subject'[d] \in User
    BY DEF Aimed, Start
  <2>1. CASE d = c
    BY <1>2, <1>3, <2>1 DEF Base, TypeOK
  <2>2. CASE d # c
    <3>1. pc'[d] = pc[d]
      BY <2>2 DEF Base, TypeOK, Start, Goes, Send
    <3> QED  BY <1>2, <2>2, <3>1 DEF Base, TypeOK, Aimed
  <2> QED  BY <2>1, <2>2
<1>6. CASE leaderUrl[scene[c].tab] # NoNode
  <2>1. Send(c, leaderUrl[scene[c].tab])
    BY <1>6 DEF Start
  <2>2. leaderUrl[scene[c].tab] \in Node
    BY <1>1, <1>6 DEF Base, TypeOK, Click
  <2>3. tries[c] < MaxTries
    BY <1>1 DEF MaxTries
  <2> QED  BY <1>4, <1>5, <2>1, <2>2, <2>3, BaseSend DEF Base, TypeOK, Start
<1>7. CASE leaderUrl[scene[c].tab] = NoNode
  <2>1. UNCHANGED <<tries, at, dest>>
    BY <1>7 DEF Start
  <2>2. PICK where \in Looking : pc' = [pc EXCEPT ![c] = where]
    BY <1>7 DEF Start, Goes
  <2>3. TypeOK'
    BY <1>4, <2>1, <2>2 DEF Base, TypeOK, Start
  <2>4. Tried' /\ Unsent'
    BY <1>1, <2>1, <2>2 DEF Base, TypeOK, Tried, Unsent, MaxTries
  <2> QED  BY <1>5, <2>3, <2>4 DEF Base
<1> QED  BY <1>6, <1>7

\* A probe sends its call to some node and stores the url.
LEMMA ProbeSettles ==
    ASSUME TypeOK, NEW c \in Call, Probe(c)
    PROVE  \E healthy \in SUBSET Alive :
               /\ Choice(c, healthy) \in Node /\ Settles(c, Choice(c, healthy))
               /\ \/ healthy = Alive /\ UNCHANGED <<budget, calm>>
                  \/ Fails("lose") /\ calm' = [calm EXCEPT ![c] = FALSE]
<1>1. CASE Settles(c, Choice(c, Alive)) /\ UNCHANGED <<budget, calm>>
  BY <1>1, ChoiceIsNode
<1>2. CASE /\ \E healthy \in SUBSET Alive : Settles(c, Choice(c, healthy))
           /\ Fails("lose") /\ calm' = [calm EXCEPT ![c] = FALSE]
  BY <1>2, ChoiceIsNode
<1> QED  BY <1>1, <1>2 DEF Probe

LEMMA BaseEnsure ==
    ASSUME Base, NEW c \in Call, Ensure(c)
    PROVE  Base'
<1> USE DEF leaders, users, logs, requests
<1>1. CASE Resolve(c)
  <2>1. pc[c] = "resolve" /\ tries[c] < MaxTries
    BY <1>1 DEF Resolve, Base, Tried
  <2>2. PICK where \in {"probe", "unheard"} : Goes(c, where)
    BY <1>1 DEF Resolve
  <2>3. /\ pc' \in [Call -> Stops \cup Replies]
        /\ Tried' /\ Unsent' /\ Aimed'
    BY <1>1, <2>1, <2>2, BaseGoes DEF Resolve
  <2>4. found' \in [Call -> Node \cup {NoNode}] /\ budget' \in Nat
    BY <1>1 DEF Resolve, Fails, Base, TypeOK
  <2>5. calm' \in [Call -> BOOLEAN]
    BY <1>1 DEF Resolve, Base, TypeOK
  <2> QED  BY <1>1, <2>3, <2>4, <2>5 DEF Resolve, Base, TypeOK
<1>2. CASE Probe(c)
  <2>1. pc[c] = "probe" /\ tries[c] < MaxTries
    BY <1>2 DEF Probe, Base, Tried
  <2>2. PICK n \in Node : Settles(c, n) /\ (calm' = calm \/ calm' = [calm EXCEPT ![c] = FALSE])
                         /\ (budget' = budget \/ Fails("lose"))
    BY <1>2, ProbeSettles DEF Base
  <2>3. /\ leaderUrl' \in [Tab -> Node \cup {NoNode}]
        /\ cached' \in [Tab -> Node \cup {NoNode}]
        /\ found' \in [Call -> Node \cup {NoNode}]
    BY <1>2, <2>2 DEF Probe, Settles, Base, TypeOK
  <2>4. Send(c, n) /\ pc' = [pc EXCEPT ![c] = "sent"]
    BY <2>2 DEF Settles, Send, Goes
  <2>5. Aimed'
    BY <1>2, <2>1, <2>4 DEF Probe, Base, TypeOK, Aimed
  <2>6. calm' \in [Call -> BOOLEAN]
    BY <2>2 DEF Base, TypeOK
  <2>7. budget' \in Nat
    BY <2>2 DEF Base, TypeOK, Fails
  <2>8. TypeOK'
    BY <1>2, <2>1, <2>3, <2>4, <2>6, <2>7, BaseSend DEF Probe, Base, TypeOK
  <2> QED  BY <2>1, <2>4, <2>5, <2>8, BaseSend DEF Base
<1>3. CASE Join(c)
  <2>1. pc[c] = "joins" /\ tries[c] < MaxTries
    BY <1>3 DEF Join, Base, Tried
  <2>2. PICK n \in Node : Send(c, n)
    <3>1. c \in DOMAIN scene /\ scene[c].tab \in Tab
      BY <1>3 DEF Join, Base, TypeOK, Click
    <3> QED  BY <1>3, <3>1 DEF Join, Base, TypeOK
  <2>3. pc' = [pc EXCEPT ![c] = "sent"]
    BY <2>2 DEF Send, Goes
  <2>4. Aimed'
    BY <1>3, <2>1, <2>3 DEF Join, Base, TypeOK, Aimed
  <2>5. TypeOK'
    BY <1>3, <2>1, <2>2, BaseSend DEF Join, Base, TypeOK
  <2> QED  BY <2>1, <2>2, <2>4, <2>5, BaseSend DEF Base
<1> QED  BY <1>1, <1>2, <1>3 DEF Ensure

LEMMA BaseOutcome ==
    ASSUME Base, NEW c \in Call, Outcome(c)
    PROVE  Base'
<1> USE DEF leaders, users, logs, requests
<1> DEFINE h == Current(c)
<1>1. pc[c] \in {"sent", "reading"} /\ tries[c] \in 1..3 /\ h \in Attempt
  <2>1. pc[c] \in {"sent", "reading"}
    BY DEF Outcome, NoReply, Refused, Replied, Head, ReadOn, FallsSilent, Sent
  <2>2. tries[c] \in 1..3
    BY <2>1 DEF Base, Tried, TypeOK, MaxTries
  <2> QED  BY <2>1, <2>2 DEF Current, Attempt, MaxTries
<1>2. /\ lost' \in SUBSET Attempt /\ calm' \in [Call -> BOOLEAN] /\ budget' \in Nat
      /\ UNCHANGED <<up, serving, scene, subject, at, dest, rows, ghosts, userLog,
                     adminLog, executed, together, leaderUrl, cached, tries, found,
                     discovery>>
  <2>0. /\ lost \in SUBSET Attempt /\ calm \in [Call -> BOOLEAN] /\ budget \in Nat
    BY DEF Base, TypeOK
  <2>1. CASE NoReply(c)
    <3>1. lost' = lost \cup {h} /\ (budget' = budget \/ Fails("lose"))
      BY <2>1 DEF NoReply
    <3>2. calm' \in [Call -> BOOLEAN]
      BY <2>0, <2>1 DEF NoReply
    <3>3. budget' \in Nat
      BY <2>0, <3>1 DEF Fails
    <3> QED  BY <1>1, <2>0, <2>1, <3>1, <3>2, <3>3 DEF NoReply
  <2>2. CASE Refused(c) \/ Replied(c) \/ Head(c)
    BY <2>0, <2>2 DEF Refused, Replied, Head
  <2>3. CASE ReadOn(c)
    <3>1. /\ calm' = calm \/ calm' = [calm EXCEPT ![c] = FALSE]
          /\ budget' = budget \/ Fails("lose")
      BY <2>3 DEF ReadOn
    <3>2. calm' \in [Call -> BOOLEAN]
      BY <2>0, <3>1
    <3>3. budget' \in Nat
      BY <2>0, <3>1 DEF Fails
    <3> QED  BY <2>0, <2>3, <3>2, <3>3 DEF ReadOn
  <2>4. CASE FallsSilent(c)
    BY <2>0, <2>4 DEF FallsSilent, Fails
  <2> QED  BY <2>1, <2>2, <2>3, <2>4 DEF Outcome
<1>3. PICK where \in {"resolve", "reading", "hung"} \cup Replies :
          Goes(c, where) /\ (where = "resolve" => tries[c] < MaxTries)
  <2>1. CASE NoReply(c)
    <3>1. Goes(c, IF Again(c, FALSE) THEN "resolve" ELSE "noconn")
      BY <2>1 DEF NoReply
    <3>2. CASE Again(c, FALSE)
      BY <3>1, <3>2, AgainHasSends DEF Base
    <3>3. CASE ~Again(c, FALSE)
      BY <3>1, <3>3 DEF Replies
    <3> QED  BY <3>2, <3>3
  <2>2. CASE Refused(c)
    <3>1. /\ Goes(c, IF Again(c, TRUE) THEN "resolve" ELSE at[h])
          /\ at[h] \in AwayFromLeader
      BY <2>2 DEF Refused
    <3>2. CASE Again(c, TRUE)
      BY <3>1, <3>2, AgainHasSends DEF Base
    <3>3. CASE ~Again(c, TRUE)
      BY <3>1, <3>3 DEF Replies, AwayFromLeader
    <3> QED  BY <3>2, <3>3
  <2>3. CASE Replied(c)
    BY <2>3 DEF Replied, Replies
  <2>4. CASE Head(c)
    BY <2>4 DEF Head
  <2>5. CASE ReadOn(c)
    BY <2>5 DEF ReadOn, Replies
  <2>6. CASE FallsSilent(c)
    BY <2>6 DEF FallsSilent
  <2> QED  BY <2>1, <2>2, <2>3, <2>4, <2>5, <2>6 DEF Outcome
<1>4. where \in Looking => where = "resolve"
  BY DEF Replies
<1>5. /\ pc' \in [Call -> Stops \cup Replies]
      /\ Tried' /\ Unsent' /\ Aimed'
  BY <1>1, <1>2, <1>3, <1>4, BaseGoes
<1> QED  BY <1>2, <1>5 DEF Base, TypeOK

LEMMA BaseStep == Base /\ [Next]_vars => Base'
<1> SUFFICES ASSUME Base, [Next]_vars PROVE Base'
  OBVIOUS
<1>1. ASSUME NEW h \in Requests, Handler(h) \/ Answer(h),
             UNCHANGED <<browser, calm, discovery>>
      PROVE  Base'
  BY <1>1, BaseHandlers DEF Requests
<1>2. CASE /\ Processes /\ calm' = [c \in Call |-> FALSE]
           /\ UNCHANGED <<browser, discovery>>
  BY <1>2, BaseProcesses
<1>3. ASSUME NEW n \in Node, Announce(n) PROVE Base'
  <2>1. budget' \in Nat
    BY <1>3 DEF Announce, Fails, Base, TypeOK
  <2> QED
    BY <1>3, <2>1 DEF Announce, Base, TypeOK, Tried, Unsent, Aimed, leaders,
                      requests, users, logs, browser
<1>4. ASSUME NEW c \in Call, Start(c) \/ Ensure(c) \/ Outcome(c) PROVE Base'
  BY <1>4, BaseStart, BaseEnsure, BaseOutcome
<1>5. CASE UNCHANGED vars
  BY <1>5 DEF vars, Base, TypeOK, Tried, Unsent, Aimed
<1> QED  BY <1>1, <1>2, <1>3, <1>4, <1>5 DEF Next, Handlers

\* Every variable keeps its type; in particular no call is sent more than three
\* times.
THEOREM ClientTypeCorrect == Spec => []TypeOK
<1>1. Base => TypeOK
  BY DEF Base
<1> QED  BY <1>1, BaseInit, BaseStep, PTL DEF Spec

-----------------------------------------------------------------------------
(* Two kinds of steps: of a handler, or of everybody else, who touch no    *)
(* table and move attempts to "sent" or to "noconn" only.                  *)

Handled(h) ==
    /\ at[h] \in Running
    /\ Handler(h) \/ Answer(h)
    /\ UNCHANGED <<browser, calm, discovery>>

Quiet ==
    /\ UNCHANGED <<scene, rows, ghosts, together, userLog, adminLog, executed>>
    /\ \A h \in Attempt : \/ at'[h] = at[h]
                          \/ at[h] = "none" /\ at'[h] = "sent"
                          \/ at[h] \in Running /\ at'[h] = "noconn"
    /\ \A c \in Call : \/ subject'[c] = subject[c]
                       \/ pc[c] = "idle" /\ subject'[c] \in rows \cup ghosts \cup {NoUser}

LEMMA SendIsQuiet ==
    ASSUME Base, NEW c \in Call, NEW n \in Node, tries[c] < MaxTries, Send(c, n)
    PROVE  \A h \in Attempt : at'[h] = at[h] \/ (at[h] = "none" /\ at'[h] = "sent")
<1> DEFINE g == <<c, tries[c] + 1>>
<1>1. g \in Attempt /\ at[g] = "none" /\ at' = [at EXCEPT ![g] = "sent"]
  BY SendMoves
<1>2. at \in [Attempt -> Stages]
  BY DEF Base, TypeOK
<1> HIDE DEF g
<1> QED  BY <1>1, <1>2

LEMMA StepKinds ==
    ASSUME Base, [Next]_vars
    PROVE  Quiet \/ \E h \in Attempt : Handled(h)
<1>1. CASE Handlers /\ UNCHANGED <<browser, calm, discovery>>
  BY <1>1 DEF Handlers, Requests, Handled
<1>2. CASE Processes /\ UNCHANGED <<browser, discovery>>
  <2>1. PICK n \in Node : Crash(n) \/ Restart(n) \/ Win(n) \/ StepDown(n)
    BY <1>2 DEF Processes
  <2>2. UNCHANGED <<scene, subject, rows, ghosts, together, userLog, adminLog, executed>>
    BY <2>1 DEF Crash, Restart, Win, StepDown, requests, users, logs
  <2>3. \A h \in Attempt : at'[h] = at[h] \/ (at[h] \in Running /\ at'[h] = "noconn")
    BY <2>1 DEF Crash, Restart, Win, StepDown, Requests
  <2> QED  BY <2>2, <2>3 DEF Quiet
<1>3. ASSUME NEW n \in Node, Announce(n) PROVE Quiet
  BY <1>3 DEF Announce, Quiet, requests, users, logs
<1>4. ASSUME NEW c \in Call, Start(c) PROVE Quiet
  <2>1. PICK u \in Subjects(c) : subject' = [subject EXCEPT ![c] = u]
    BY <1>4 DEF Start
  <2>2. u \in rows \cup ghosts \cup {NoUser} /\ pc[c] = "idle" /\ tries[c] < MaxTries
    BY <1>4 DEF Start, Subjects, Listed, Base, Tried, MaxTries
  <2>3. \A h \in Attempt : at'[h] = at[h] \/ (at[h] = "none" /\ at'[h] = "sent")
    <3>1. CASE leaderUrl[scene[c].tab] # NoNode
      <4>1. leaderUrl[scene[c].tab] \in Node
        BY <1>4, <3>1 DEF Start, Base, TypeOK, Click
      <4> QED  BY <1>4, <2>2, <3>1, <4>1, SendIsQuiet DEF Start
    <3>2. CASE leaderUrl[scene[c].tab] = NoNode
      BY <1>4, <3>2 DEF Start
    <3> QED  BY <3>1, <3>2
  <2>4. \A d \in Call : subject'[d] = subject[d] \/ (d = c /\ subject'[d] = u)
    <3>1. subject \in [Call -> User \cup {NoUser}]
      BY DEF Base, TypeOK
    <3> QED  BY <2>1, <3>1
  <2> QED  BY <1>4, <2>2, <2>3, <2>4 DEF Start, Quiet, users, logs
<1>5. ASSUME NEW c \in Call, Ensure(c) PROVE Quiet
  <2>1. CASE Resolve(c)
    BY <2>1 DEF Resolve, Quiet, requests, users, logs
  <2>2. CASE Probe(c)
    <3>1. \A h \in Attempt : at'[h] = at[h] \/ (at[h] = "none" /\ at'[h] = "sent")
      <4>1. PICK n \in Node : Settles(c, n)
        BY <2>2, ProbeSettles DEF Base
      <4> QED  BY <2>2, <4>1, SendIsQuiet DEF Probe, Settles, Base, Tried
    <3> QED  BY <2>2, <3>1 DEF Probe, Quiet, users, logs
  <2>3. CASE Join(c)
    <3>1. \A h \in Attempt : at'[h] = at[h] \/ (at[h] = "none" /\ at'[h] = "sent")
      <4>1. leaderUrl[scene[c].tab] \in Node
        BY <2>3 DEF Join, Base, TypeOK, Click
      <4> QED  BY <2>3, <4>1, SendIsQuiet DEF Join, Base, Tried
    <3> QED  BY <2>3, <3>1 DEF Join, Quiet, users, logs
  <2> QED  BY <1>5, <2>1, <2>2, <2>3 DEF Ensure
<1>6. ASSUME NEW c \in Call, Outcome(c) PROVE Quiet
  BY <1>6 DEF Outcome, NoReply, Refused, Replied, Head, ReadOn, FallsSilent, Quiet, requests,
              users, logs
<1>7. CASE UNCHANGED vars
  BY <1>7 DEF vars, Quiet
<1> QED  BY <1>1, <1>2, <1>3, <1>4, <1>5, <1>6, <1>7 DEF Next

-----------------------------------------------------------------------------
(* Which operation an attempt is, by the place of its handler; and no user *)
(* row, ghost or subject is of a signup that has not inserted yet.         *)

Early == {"none", "sent", "admitted", "checked"}

Places ==
    \A h \in Attempt : /\ at[h] = "checked" => Op(h) = "signup"
                       /\ at[h] \in {"waiting", "half", "late"} => Op(h) = "ask"
                       /\ at[h] = "streaming" => Op(h) = "stream"

Old == {u \in User : u = Founder \/ at[u] \notin Early}

Known == rows \cup ghosts \subseteq Old /\ \A c \in Call : subject[c] \in Old \cup {NoUser}

LEMMA OthersStay ==
    ASSUME Base, NEW h \in Attempt, Handled(h)
    PROVE  \A g \in Attempt : g # h => at'[g] = at[g]
<1>1. at' = [at EXCEPT ![h] = at'[h]]
  BY HandlerMoves DEF Base, Handled
<1>2. at \in [Attempt -> Stages]
  BY DEF Base, TypeOK
<1> DEFINE x == at'[h]
<1>3. at' = [at EXCEPT ![h] = x]
  BY <1>1
<1> HIDE DEF x
<1> QED  BY <1>2, <1>3

\* What the handlers do to their attempt, one by one.
LEMMA HandlerPaths ==
    ASSUME Base, Places, NEW h \in Attempt, Handled(h)
    PROVE  /\ at[h] = "checked" \/ at[h] \in {"waiting", "half", "streaming"}
                => at'[h] \notin Early
           /\ at'[h] # at[h] /\ at'[h] \notin {"none", "sent"}
           /\ at'[h] = "checked" => Op(h) = "signup"
           /\ at'[h] \in {"waiting", "half", "late"} => Op(h) = "ask"
           /\ at'[h] = "streaming" => Op(h) = "stream"
<1>0. /\ at' = [at EXCEPT ![h] = at'[h]] /\ at'[h] \in Outcomes
      /\ at[h] \in Running /\ at \in [Attempt -> Stages]
  BY HandlerMoves DEF Handled, Base, TypeOK
<1> USE DEF Reaches, Early
<1>1. CASE Arrive(h)
  BY <1>0, <1>1, TurnedOutcome DEF Arrive
<1>2. CASE Login(h) \/ SignupCheck(h)
  BY <1>0, <1>2 DEF Login, SignupCheck
<1>3. CASE SignupInsert(h) \/ UpdateRole(h) \/ DeleteUser(h)
  BY <1>0, <1>3 DEF SignupInsert, UpdateRole, DeleteUser
<1>4. CASE Publish(h)
  BY <1>0, <1>4, TurnedOutcome DEF Publish
<1>5. CASE AskTimeout(h) \/ SaveForAdmin(h) \/ AskError(h) \/ AskAnswered(h)
           \/ StreamAnswered(h)
  BY <1>0, <1>5 DEF AskTimeout, SaveForAdmin, AskError, AskAnswered, StreamAnswered,
                    Places
<1> QED  BY <1>1, <1>2, <1>3, <1>4, <1>5 DEF Handled, Handler, Answer

\* ... and to the tables of users.
LEMMA HandlerRows ==
    ASSUME Base, NEW h \in Attempt, Handled(h)
    PROVE  /\ rows' \subseteq rows \/ (at[h] = "checked" /\ rows' = rows \cup {h})
           /\ ghosts' \subseteq ghosts \cup ({subject[h[1]]} \cap User)
           /\ together \subseteq together'
           /\ UNCHANGED <<scene, subject>>
<1> USE DEF users, SetRole, DeleteRow
<1>0. UNCHANGED <<scene, subject>>
  BY HandlerMoves DEF Handled, Base
<1>1. CASE Arrive(h) \/ Login(h) \/ Publish(h) \/ AskTimeout(h) \/ SaveForAdmin(h)
           \/ AskError(h) \/ AskAnswered(h) \/ StreamAnswered(h)
  BY <1>0, <1>1 DEF Arrive, Login, Publish, AskTimeout, SaveForAdmin, AskError,
                    AskAnswered, StreamAnswered
<1>2. CASE SignupCheck(h)
  BY <1>0, <1>2 DEF SignupCheck
<1>3. CASE SignupInsert(h)
  BY <1>0, <1>3 DEF SignupInsert
<1>4. CASE UpdateRole(h)
  <2>1. subject[h[1]] \in User
    BY <1>4, HandledWasSent DEF UpdateRole
  <2> QED  BY <1>0, <1>4, <2>1 DEF UpdateRole
<1>5. CASE DeleteUser(h)
  BY <1>0, <1>5 DEF DeleteUser
<1> QED  BY <1>1, <1>2, <1>3, <1>4, <1>5 DEF Handled, Handler, Answer

LEMMA PlacesStep ==
    ASSUME Base, Places, [Next]_vars
    PROVE  Places'
<1>1. CASE Quiet
  BY <1>1 DEF Quiet, Places, Op
<1>2. ASSUME NEW h \in Attempt, Handled(h) PROVE Places'
  <2> SUFFICES ASSUME NEW g \in Attempt
               PROVE  /\ at'[g] = "checked" => Op(g) = "signup"
                      /\ at'[g] \in {"waiting", "half", "late"} => Op(g) = "ask"
                      /\ at'[g] = "streaming" => Op(g) = "stream"
    BY <1>2, HandlerRows DEF Places, Op
  <2>1. CASE g = h
    BY <1>2, <2>1, HandlerPaths
  <2>2. CASE g # h
    BY <1>2, <2>2, OthersStay DEF Places
  <2> QED  BY <2>1, <2>2
<1> QED  BY <1>1, <1>2, StepKinds

LEMMA OldStays ==
    ASSUME Base, Places, [Next]_vars
    PROVE  Old \subseteq Old'
<1> SUFFICES ASSUME NEW u \in User, u # Founder, at[u] \notin Early
             PROVE  at'[u] \notin Early
  BY DEF Old
<1>0. u \in Attempt
  BY DEF User
<1>1. CASE Quiet
  BY <1>0, <1>1 DEF Quiet, Early
<1>2. ASSUME NEW h \in Attempt, Handled(h) PROVE at'[u] \notin Early
  <2>1. CASE u = h
    BY <1>2, <2>1, HandlerPaths DEF Early, Running, Handled
  <2>2. CASE u # h
    BY <1>0, <1>2, <2>2, OthersStay
  <2> QED  BY <2>1, <2>2
<1> QED  BY <1>1, <1>2, StepKinds

LEMMA KnownStep ==
    ASSUME Base, Places, Known, [Next]_vars
    PROVE  Known'
<1>1. CASE Quiet
  BY <1>1, OldStays DEF Quiet, Known
<1>2. ASSUME NEW h \in Attempt, Handled(h) PROVE Known'
  <2>1. at[h] = "checked" => h \in Old'
    BY <1>2, HandlerPaths, AttemptParts DEF Old
  <2>2. subject[h[1]] \in Old \cup {NoUser} /\ NoUser \notin User
    BY AttemptParts DEF Known
  <2> QED  BY <1>2, <2>1, <2>2, OldStays, HandlerRows DEF Known
<1> QED  BY <1>1, <1>2, StepKinds

-----------------------------------------------------------------------------
(* Accounts of one address.                                                *)

\* Two rows, a row and a signup on its way to its insert, or two such signups,
\* if they are of one address, were on their way together.
Overlapping ==
    LET Inserting == {h \in Attempt : at[h] = "checked"} IN
    \A u, v \in rows \cup Inserting :
        u # v /\ AddressOf(u) = AddressOf(v) => {u, v} \in together

LEMMA OverlappingStep ==
    ASSUME Base, Places, Overlapping, [Next]_vars
    PROVE  Overlapping'
<1> DEFINE Inserting == {h \in Attempt : at[h] = "checked"}
<1>1. CASE Quiet
  <2>1. Inserting' \subseteq Inserting
    BY <1>1 DEF Quiet
  <2>2. \A u : AddressOf(u)' = AddressOf(u)
    BY <1>1 DEF Quiet, AddressOf
  <2> QED  BY <1>1, <2>1, <2>2 DEF Quiet, Overlapping
<1>2. ASSUME NEW h \in Attempt, Handled(h) PROVE Overlapping'
  <2>0. \A u : AddressOf(u)' = AddressOf(u)
    BY <1>2, HandlerRows DEF AddressOf
  <2>1. \A g \in Attempt : g # h => at'[g] = at[g]
    BY <1>2, OthersStay
  <2>2. Inserting' \subseteq Inserting \cup {h}
    BY <2>1
  <2>3. CASE at'[h] # "checked"
    <3>1. Inserting' \subseteq Inserting
      BY <2>1, <2>3
    <3>2. rows' \subseteq rows \cup Inserting
      BY <1>2, HandlerRows
    <3> QED  BY <1>2, <2>0, <3>1, <3>2, HandlerRows DEF Overlapping
  <2>4. CASE at'[h] = "checked"
    <3>1. SignupCheck(h)
      BY <1>2, <2>4, HandlerMoves, TurnedOutcome
         DEF Handled, Handler, Answer, Arrive, Login, SignupCheck, SignupInsert,
             UpdateRole, DeleteUser, Publish, AskTimeout, SaveForAdmin, AskError,
             AskAnswered, StreamAnswered, Reaches, Base, TypeOK
    <3>2. /\ rows' = rows /\ Rows(AddressOf(h)) = {}
          /\ together' = together \cup
                {{g, h} : g \in {g \in Attempt : at[g] = "checked"
                                                /\ AddressOf(g) = AddressOf(h)}}
      BY <2>4, <3>1 DEF SignupCheck, Reaches, Base, TypeOK
    <3>3. \A u \in rows : AddressOf(u) # AddressOf(h)
      BY <3>2 DEF Rows
    <3>4. \A g \in Inserting : AddressOf(g) = AddressOf(h) => {g, h} \in together'
      BY <3>2
    <3>5. \A u, v \in rows \cup Inserting :
              u # v /\ AddressOf(u) = AddressOf(v) => {u, v} \in together'
      BY <3>2 DEF Overlapping
    <3>6. \A g : {g, h} = {h, g}
      OBVIOUS
    <3> QED  BY <2>0, <2>2, <3>2, <3>3, <3>4, <3>5, <3>6 DEF Overlapping
  <2> QED  BY <2>3, <2>4
<1> QED  BY <1>1, <1>2, StepKinds

-----------------------------------------------------------------------------
(* What an answer says about its user stays true.                          *)

Outcast(u) == u \notin rows \/ \E pair \in together : u \in pair

Answered ==
    \A h \in Attempt :
        /\ at[h] = "denied" => Outcast(subject[h[1]])
        /\ at[h] = "ok" /\ Op(h) = "delete" => subject[h[1]] \notin rows

LEMMA GoneStaysGone ==
    ASSUME Base, Known, [Next]_vars, NEW u \in Old \cup {NoUser}
    PROVE  /\ u \notin rows => u \notin rows'
           /\ Outcast(u) => Outcast(u)'
<1>1. CASE Quiet
  BY <1>1 DEF Quiet, Outcast
<1>2. ASSUME NEW h \in Attempt, Handled(h)
      PROVE  (u \notin rows => u \notin rows') /\ (Outcast(u) => Outcast(u)')
  <2>1. u \notin rows => u \notin rows'
    <3>1. at[h] = "checked" => u # h
      BY AttemptParts DEF Old, Early
    <3> QED  BY <1>2, <3>1, HandlerRows
  <2> QED  BY <1>2, <2>1, HandlerRows DEF Outcast
<1> QED  BY <1>1, <1>2, StepKinds

LEMMA SubjectStays ==
    ASSUME Base, [Next]_vars, NEW c \in Call, pc[c] # "idle"
    PROVE  subject'[c] = subject[c]
BY StepKinds, HandlerRows DEF Quiet

LEMMA SceneStays ==
    ASSUME Base, [Next]_vars
    PROVE  scene' = scene
BY StepKinds, HandlerRows DEF Quiet

LEMMA AnsweredStep ==
    ASSUME Base, Places, Known, Overlapping, Answered, [Next]_vars
    PROVE  Answered'
<1> SUFFICES ASSUME NEW g \in Attempt
             PROVE  /\ at'[g] = "denied" => Outcast(subject[g[1]])'
                    /\ at'[g] = "ok" /\ Op(g)' = "delete" => subject'[g[1]] \notin rows'
  BY DEF Answered
<1> DEFINE u == subject[g[1]]
<1>0. g[1] \in Call /\ u \in Old \cup {NoUser} /\ Op(g)' = Op(g)
  BY AttemptParts, SceneStays DEF Known, Op
<1>1. CASE at'[g] = at[g]
  <2>1. at[g] # "none" => subject'[g[1]] = u
    BY <1>0, HandledWasSent, SubjectStays
  <2> QED  BY <1>0, <1>1, <2>1, GoneStaysGone DEF Answered, Outcast
<1>2. CASE at'[g] # at[g] /\ Quiet
  BY <1>2 DEF Quiet
<1>3. ASSUME at'[g] # at[g], NEW h \in Attempt, Handled(h)
      PROVE  /\ at'[g] = "denied" => Outcast(subject[g[1]])'
             /\ at'[g] = "ok" /\ Op(g) = "delete" => subject'[g[1]] \notin rows'
  <2>1. g = h /\ subject' = subject
    BY <1>3, OthersStay, HandlerRows
  <2>2. ASSUME at'[h] = "denied" PROVE Outcast(subject[h[1]])'
    <3>1. Login(h)
      BY <1>3, <2>2, HandlerMoves, TurnedOutcome
         DEF Handled, Handler, Answer, Arrive, SignupCheck, SignupInsert, UpdateRole,
             DeleteUser, Publish, AskTimeout, SaveForAdmin, AskError, AskAnswered,
             StreamAnswered, Reaches, Base, TypeOK
    <3>2. UNCHANGED <<rows, together, subject>>
      BY <3>1 DEF Login, requests, users
    <3>3. CASE Rows(AddressOf(u)) = {}
      BY <2>1, <3>2, <3>3 DEF Rows, Outcast
    <3>4. CASE \E v \in Rows(AddressOf(u)) : Owner(v) # Owner(u)
      <4>1. PICK v \in rows : AddressOf(v) = AddressOf(u) /\ v # u
        BY <3>4 DEF Rows
      <4>2. u \in rows => {u, v} \in together
        BY <4>1 DEF Overlapping
      <4> QED  BY <2>1, <3>2, <4>2 DEF Outcast
    <3>5. Rows(AddressOf(u)) = {} \/ \E v \in Rows(AddressOf(u)) : Owner(v) # Owner(u)
      BY <2>1, <2>2, <3>1 DEF Login, Reaches, Base, TypeOK
    <3> QED  BY <3>3, <3>4, <3>5
  <2>3. ASSUME at'[h] = "ok", Op(h) = "delete" PROVE subject'[h[1]] \notin rows'
    <3>1. DeleteUser(h)
      BY <1>3, <2>3, HandlerMoves, TurnedOutcome
         DEF Handled, Handler, Answer, Arrive, Login, SignupCheck, SignupInsert,
             UpdateRole, Publish, AskTimeout, SaveForAdmin, AskError, AskAnswered,
             StreamAnswered, Places, Reaches, Base, TypeOK
    <3> QED  BY <2>1, <2>3, <3>1 DEF DeleteUser, DeleteRow
  <2> QED  BY <2>1, <2>2, <2>3
<1> QED  BY <1>0, <1>1, <1>2, <1>3, StepKinds

-----------------------------------------------------------------------------
(* The two histories.                                                      *)

Logged ==
    /\ adminLog \subseteq userLog /\ userLog \subseteq executed
    /\ \A h \in userLog \ adminLog : at[h] \in {"half", "raised", "noconn"}
    /\ \A h \in Attempt : /\ at[h] \in {"waiting", "half"} => h \in executed
                          /\ at[h] = "half" => h \in userLog
                          /\ at[h] = "ok" /\ Op(h) = "ask" => h \in adminLog

LEMMA LoggedStep ==
    ASSUME Base, Places, Logged, [Next]_vars
    PROVE  Logged'
<1>1. CASE Quiet
  BY <1>1 DEF Quiet, Logged, Op, Base, TypeOK
<1>2. ASSUME NEW h \in Attempt, Handled(h) PROVE Logged'
  <2>0. /\ \A g \in Attempt : g # h => at'[g] = at[g]
        /\ \A g : Op(g)' = Op(g)
        /\ at[h] \in Running /\ userLog \subseteq Attempt
    BY <1>2, OthersStay, SceneStays DEF Handled, Op, Base, TypeOK
  <2>1. CASE AskAnswered(h)
    <3>1. /\ at[h] = "waiting" /\ at'[h] \in {"half", "raised"}
          /\ UNCHANGED <<adminLog, executed>>
          /\ userLog' = userLog \cup {h} \/ (at'[h] = "raised" /\ userLog' = userLog)
      BY <2>1 DEF AskAnswered, Reaches, Base, TypeOK
    <3> QED  BY <2>0, <3>1 DEF Logged
  <2>2. CASE SaveForAdmin(h)
    <3>1. /\ at[h] = "half" /\ at'[h] \in {"ok", "raised"}
          /\ UNCHANGED <<userLog, executed>>
          /\ adminLog' = adminLog \cup {h} \/ (at'[h] = "raised" /\ adminLog' = adminLog)
      BY <2>2 DEF SaveForAdmin, Reaches, Base, TypeOK
    <3> QED  BY <2>0, <3>1 DEF Logged
  <2>3. CASE Publish(h)
    <3>1. /\ at[h] = "sent" /\ at'[h] \notin {"half", "ok"}
          /\ UNCHANGED <<userLog, adminLog>>
          /\ executed' = executed \cup {h} \/ (at'[h] # "waiting" /\ executed' = executed)
      BY <2>3, TurnedOutcome DEF Publish, Reaches, Base, TypeOK, logs
    <3> QED  BY <2>0, <3>1 DEF Logged
  <2>4. CASE Arrive(h) \/ Login(h) \/ SignupCheck(h) \/ SignupInsert(h)
             \/ UpdateRole(h) \/ DeleteUser(h) \/ AskTimeout(h) \/ AskError(h)
             \/ StreamAnswered(h)
    <3>1. /\ at[h] # "half" /\ at'[h] \notin {"waiting", "half"}
          /\ at'[h] = "ok" => Op(h) # "ask"
          /\ UNCHANGED <<userLog, adminLog>> /\ executed \subseteq executed'
      <4>1. CASE Arrive(h) \/ Login(h) \/ SignupCheck(h)
        BY <4>1, TurnedOutcome DEF Arrive, Login, SignupCheck, Reaches, Base, TypeOK, logs
      <4>2. CASE SignupInsert(h)
        BY <4>2 DEF SignupInsert, Places, Reaches, Base, TypeOK, logs
      <4>3. CASE UpdateRole(h) \/ DeleteUser(h)
        BY <4>3 DEF UpdateRole, DeleteUser, Reaches, Base, TypeOK, logs
      <4>4. CASE AskTimeout(h) \/ AskError(h) \/ StreamAnswered(h)
        BY <4>4 DEF AskTimeout, AskError, StreamAnswered, Places, Reaches, Base, TypeOK,
                    logs
      <4> QED  BY <2>4, <4>1, <4>2, <4>3, <4>4
    <3>2. h \in userLog => h \in adminLog
      BY <2>0, <3>1 DEF Logged, Running
    <3> QED  BY <2>0, <3>1, <3>2 DEF Logged
  <2> QED  BY <1>2, <2>1, <2>2, <2>3, <2>4 DEF Handled, Handler, Answer
<1> QED  BY <1>1, <1>2, StepKinds

-----------------------------------------------------------------------------
(* What the browser has been told.                                         *)

Heard ==
    \A c \in Call :
        /\ pc[c] = "denied" => Outcast(subject[c])
        /\ pc[c] = "ok" /\ scene[c].op = "delete" => subject[c] \notin rows
        /\ pc[c] = "ok" /\ scene[c].op = "ask" => Current(c) \in adminLog

\* A call that gets a reply gets it from its present attempt, and keeps it.
LEMMA CallMoves ==
    ASSUME Base, [Next]_vars, NEW d \in Call
    PROVE  \/ pc'[d] = pc[d] /\ (pc[d] \in Replies => tries'[d] = tries[d])
           \/ pc'[d] \notin {"ok", "denied"}
           \/ /\ pc[d] \in {"sent", "reading"} /\ pc'[d] = at[Current(d)]
              /\ tries'[d] = tries[d]
<1> DEFINE Goal == \/ pc'[d] = pc[d] /\ (pc[d] \in Replies => tries'[d] = tries[d])
                   \/ pc'[d] \notin {"ok", "denied"}
                   \/ /\ pc[d] \in {"sent", "reading"} /\ pc'[d] = at[Current(d)]
                      /\ tries'[d] = tries[d]
<1>0. /\ tries \in [Call -> 0..MaxTries]
      /\ pc \in [Call -> Stops \cup Replies]
  BY DEF Base, TypeOK
<1>1. CASE UNCHANGED browser \/ UNCHANGED vars
  BY <1>1 DEF browser, vars
<1>2. ASSUME NEW c \in Call, Start(c) \/ Ensure(c) PROVE Goal
  <2>1. \/ \E where \in Looking : pc' = [pc EXCEPT ![c] = where] /\ tries' = tries
        \/ pc' = [pc EXCEPT ![c] = "sent"] /\ tries' = [tries EXCEPT ![c] = @ + 1]
    BY <1>2 DEF Start, Ensure, Resolve, Join, Probe, Settles, Goes, Send
  <2>2. \A where \in Looking : where \notin {"ok", "denied"} \cup Replies
    BY DEF Replies
  <2> QED  BY <1>0, <2>1, <2>2
<1>3. ASSUME NEW c \in Call, Outcome(c) PROVE Goal
  <2>1. pc[c] \in {"sent", "reading"} /\ tries' = tries
    BY <1>3 DEF Outcome, NoReply, Refused, Replied, Head, ReadOn, FallsSilent, Sent
  <2>2. \E where : /\ pc' = [pc EXCEPT ![c] = where]
                   /\ where \notin {"ok", "denied"} \/ where = at[Current(c)]
    BY <1>3 DEF Outcome, NoReply, Refused, Replied, Head, ReadOn, FallsSilent, Goes, AwayFromLeader
  <2>3. PICK where : /\ pc' = [pc EXCEPT ![c] = where]
                     /\ where \notin {"ok", "denied"} \/ where = at[Current(c)]
    BY <2>2
  <2>4. CASE d = c
    BY <1>0, <2>1, <2>3, <2>4
  <2>5. CASE d # c
    BY <1>0, <2>1, <2>3, <2>5
  <2> QED  BY <2>4, <2>5
<1>4. \/ UNCHANGED browser \/ UNCHANGED vars
      \/ \E c \in Call : Start(c) \/ Ensure(c) \/ Outcome(c)
  BY DEF Next, Announce
<1> QED  BY <1>1, <1>2, <1>3, <1>4

LEMMA AdminLogGrows ==
    ASSUME Base, [Next]_vars
    PROVE  adminLog \subseteq adminLog'
<1>1. CASE Quiet
  BY <1>1 DEF Quiet
<1>2. ASSUME NEW h \in Attempt, Handled(h) PROVE adminLog \subseteq adminLog'
  BY <1>2 DEF Handled, Handler, Answer, Arrive, Login, SignupCheck, SignupInsert,
              UpdateRole, DeleteUser, Publish, AskTimeout, SaveForAdmin, AskError,
              AskAnswered, StreamAnswered, logs
<1> QED  BY <1>1, <1>2, StepKinds

LEMMA HeardStep ==
    ASSUME Base, Places, Known, Answered, Logged, Heard, [Next]_vars
    PROVE  Heard'
<1> SUFFICES ASSUME NEW c \in Call
             PROVE  /\ pc'[c] = "denied" => Outcast(subject[c])'
                    /\ pc'[c] = "ok" /\ scene[c].op = "delete" => subject'[c] \notin rows'
                    /\ pc'[c] = "ok" /\ scene[c].op = "ask" => Current(c)' \in adminLog'
  BY SceneStays DEF Heard
<1>1. CASE pc'[c] \notin {"ok", "denied"}
  BY <1>1
<1>2. CASE pc[c] # "idle" /\ subject[c] \in Old \cup {NoUser}
  <2>1. subject'[c] = subject[c]
    BY <1>2, SubjectStays
  <2>2. /\ subject[c] \notin rows => subject'[c] \notin rows'
        /\ Outcast(subject[c]) => Outcast(subject[c])'
    BY <1>2, <2>1, GoneStaysGone DEF Outcast
  <2>3. CASE pc'[c] = pc[c] /\ (pc[c] \in Replies => tries'[c] = tries[c])
    BY <2>2, <2>3, AdminLogGrows DEF Heard, Current, Replies
  <2>4. CASE /\ pc[c] \in {"sent", "reading"} /\ pc'[c] = at[Current(c)]
             /\ tries'[c] = tries[c]
    <3>1. Current(c) \in Attempt /\ Current(c)[1] = c
      BY <2>4 DEF Base, Tried, TypeOK, Current, Attempt, MaxTries
    <3>2. Op(Current(c)) = scene[c].op /\ Current(c)' = Current(c)
      BY <2>4, <3>1 DEF Op, Current
    <3> QED  BY <2>2, <2>4, <3>1, <3>2, AdminLogGrows DEF Answered, Logged
  <2> QED  BY <1>1, <2>3, <2>4, CallMoves
<1>3. subject[c] \in Old \cup {NoUser}
  BY DEF Known
<1>4. pc[c] = "idle" => pc'[c] \notin {"ok", "denied"}
  BY CallMoves
<1> QED  BY <1>1, <1>2, <1>3, <1>4

-----------------------------------------------------------------------------
(* The safety invariants.                                                  *)

Told == Base /\ Places /\ Known /\ Overlapping /\ Answered /\ Logged /\ Heard

LEMMA ToldInit == Init => Told
<1> SUFFICES ASSUME Init PROVE Told
  OBVIOUS
<1>1. /\ rows = {Founder} /\ ghosts = {} /\ userLog = {} /\ adminLog = {}
      /\ executed = {}
      /\ \A h \in Attempt : at[h] = "none"
      /\ \A c \in Call : subject[c] = NoUser /\ pc[c] = "idle"
  BY DEF Init, AccountsInit
<1>2. Places /\ Known
  BY <1>1 DEF Places, Known, Old, User
<1>3. Overlapping /\ Answered /\ Logged /\ Heard
  BY <1>1 DEF Overlapping, Answered, Logged, Heard
<1> QED  BY <1>2, <1>3, BaseInit DEF Told

LEMMA ToldAlways == Spec => []Told
<1>1. Told /\ [Next]_vars => Told'
  BY BaseStep, PlacesStep, KnownStep, OverlappingStep, AnsweredStep, LoggedStep,
     HeardStep DEF Told
<1> QED  BY <1>1, ToldInit, PTL DEF Spec

LEMMA SceneOfCalls == ASSUME TypeOK PROVE DOMAIN scene \subseteq Call
BY DEF TypeOK

\* Two accounts of one address come only from signups that were both between
\* check and insert at one time.
THEOREM AccountsAreUnique == Spec => []DuplicatesOverlapped
<1>1. Told => DuplicatesOverlapped
  BY DEF Told, Overlapping, DuplicatesOverlapped
<1> QED  BY <1>1, ToldAlways, PTL

\* A password is refused only if its account is gone or shares its address.
THEOREM PasswordsWork == Spec => []LockedOutOnlyByRace
<1>1. Told => LockedOutOnlyByRace
  BY SceneOfCalls DEF Told, Base, Heard, Outcast, LockedOutOnlyByRace
<1> QED  BY <1>1, ToldAlways, PTL

\* A user whose removal the admin has seen confirmed stays removed.
THEOREM RemovalIsFinal == Spec => []RemovedStaysOut
<1>1. Told => RemovedStaysOut
  BY SceneOfCalls DEF Told, Base, Heard, RemovedStaysOut
<1> QED  BY <1>1, ToldAlways, PTL

\* The histories differ only by prompts whose handler was cut between its inserts.
THEOREM HistoriesMatch == Spec => []HistoriesAgree
<1>1. Told => HistoriesAgree
  BY SceneOfCalls DEF Told, Base, Logged, Heard, HistoriesAgree
<1> QED  BY <1>1, ToldAlways, PTL

-----------------------------------------------------------------------------
(* Calls while leader and discovery agree: once such a call has asked      *)
(* discovery it is sent to the leader.                                     *)

Sure(c) ==
    /\ Settled
    /\ pc[c] \notin {"unavailable", "noconn"}
    /\ pc[c] = "probe" => found[c] = discovery
    /\ pc[c] = "sent" /\ tries[c] > 1 =>
           dest[Current(c)] = discovery /\ at[Current(c)] \notin {"unavailable", "noconn"}
    /\ pc[c] = "reading" => at[Current(c)] \notin {"sent", "noconn"}

Assured == /\ \A n \in serving : up[n]
           /\ \A c \in Call : calm[c] => Sure(c)

LEMMA CurrentIsAttempt ==
    ASSUME Base, NEW c \in Call, pc[c] \in {"sent", "reading"}
    PROVE  Current(c) \in Attempt /\ at[Current(c)] \in Stages
<1>1. tries[c] \in 1..3
  BY DEF Base, Tried, TypeOK, MaxTries
<1> QED  BY <1>1 DEF Base, TypeOK, Current, Attempt, MaxTries

\* Only require_leader turns a request away.
LEMMA HandlerTurns ==
    ASSUME Base, NEW h \in Attempt, Handled(h), at'[h] \in {"noconn", "unavailable"}
    PROVE  at[h] = "sent" /\ at'[h] = Turned(h)
BY HandlerMoves DEF Handled, Handler, Answer, Arrive, Login, SignupCheck, SignupInsert,
   UpdateRole, DeleteUser, Publish, AskTimeout, SaveForAdmin, AskError, AskAnswered,
   StreamAnswered, Reaches, Base, TypeOK

LEMMA AssuredHandled ==
    ASSUME Base, Places, Assured, NEW h \in Attempt, Handled(h)
    PROVE  Assured'
<1>1. UNCHANGED <<up, serving, scene, dest, pc, tries, found, calm, discovery>>
  BY HandlerMoves DEF Handled, browser, Base
<1>2. \A g \in Attempt : g # h => at'[g] = at[g]
  BY OthersStay
<1>3. at'[h] # "sent"
  BY HandlerPaths
<1> SUFFICES ASSUME NEW c \in Call, calm[c] PROVE Sure(c)'
  BY <1>1 DEF Assured
<1>4. Sure(c) /\ serving = {discovery} /\ up[discovery]
  BY DEF Assured, Sure, Settled
<1>5. CASE pc[c] \notin {"sent", "reading"}
  BY <1>1, <1>4, <1>5 DEF Sure, Settled
<1>6. CASE pc[c] \in {"sent", "reading"}
  <2>1. Current(c) \in Attempt /\ Current(c)' = Current(c)
    BY <1>1, <1>6, CurrentIsAttempt DEF Current
  <2>2. CASE Current(c) # h
    BY <1>1, <1>2, <1>4, <2>1, <2>2 DEF Sure, Settled
  <2>3. CASE Current(c) = h
    <3>1. dest[h] = discovery => Turned(h) = "admitted"
      BY <1>4 DEF Turned
    <3>2. dest[h] = discovery => at'[h] \notin {"noconn", "unavailable"}
      BY <3>1, HandlerTurns
    <3>3. at[h] # "sent" => at'[h] \notin {"noconn", "unavailable"}
      BY HandlerTurns
    <3> QED  BY <1>1, <1>3, <1>4, <2>1, <2>3, <3>2, <3>3 DEF Sure, Settled
  <2> QED  BY <2>2, <2>3
<1> QED  BY <1>5, <1>6

\* What one call does leaves the others as they are.
LEMMA CallsApart ==
    ASSUME Base, Assured, NEW d \in Call, Start(d) \/ Ensure(d) \/ Outcome(d),
           NEW c \in Call, c # d, calm'[c]
    PROVE  Sure(c)'
<1>0. /\ tries \in [Call -> 0..MaxTries] /\ calm \in [Call -> BOOLEAN]
      /\ pc \in [Call -> Stops \cup Replies]
      /\ found \in [Call -> Node \cup {NoNode}]
      /\ at \in [Attempt -> Stages]
      /\ dest \in [Attempt -> Node \cup {NoNode}]
  BY DEF Base, TypeOK
<1>1. UNCHANGED <<serving, discovery>>
  BY DEF Start, Ensure, Resolve, Join, Probe, Settles, Outcome, NoReply, Refused, Replied, Head, ReadOn, FallsSilent,
         leaders
<1>2. pc'[c] = pc[c] /\ tries'[c] = tries[c]
  BY <1>0, ZenonT(60) DEF Start, Ensure, Resolve, Join, Probe, Settles, Outcome, NoReply, Refused, Replied, Head,
              ReadOn, FallsSilent, Goes, Send
<1>3. found'[c] = found[c]
  BY <1>0 DEF Start, Ensure, Resolve, Join, Probe, Settles, Outcome, NoReply, Refused, Replied, Head,
              ReadOn, FallsSilent
<1>4. calm'[c] = calm[c]
  <2>1. calm' = calm \/ \E b : calm' = [calm EXCEPT ![d] = b]
    <3>1. CASE Start(d) \/ Ensure(d)
      BY <3>1, Zenon DEF Start, Ensure, Resolve, Join, Probe, Settles
    <3>2. CASE NoReply(d)
      BY <3>2, Zenon DEF NoReply
    <3>3. CASE Refused(d) \/ Replied(d) \/ Head(d) \/ ReadOn(d)
      BY <3>3, Zenon DEF Refused, Replied, Head, ReadOn
    <3>4. CASE FallsSilent(d)
      BY <3>4, Zenon DEF FallsSilent
    <3> QED  BY <3>1, <3>2, <3>3, <3>4 DEF Outcome
  <2>2. ASSUME NEW b, calm' = [calm EXCEPT ![d] = b] PROVE calm'[c] = calm[c]
    BY <1>0, <2>2
  <2> QED  BY <2>1, <2>2
<1>5. \A h \in Attempt : h[1] = c => at'[h] = at[h] /\ dest'[h] = dest[h]
  <2>1. CASE UNCHANGED <<at, dest>>
    BY <2>1
  <2>2. ASSUME NEW n, Send(d, n)
        PROVE  \A h \in Attempt : h[1] = c => at'[h] = at[h] /\ dest'[h] = dest[h]
    <3> DEFINE g == <<d, tries[d] + 1>>
    <3>1. at' = [at EXCEPT ![g] = "sent"] /\ dest' = [dest EXCEPT ![g] = n] /\ g[1] = d
      BY <2>2 DEF Send
    <3> HIDE DEF g
    <3> QED  BY <1>0, <3>1
  <2>3. UNCHANGED <<at, dest>> \/ \E n : Send(d, n)
    BY DEF Start, Ensure, Resolve, Join, Probe, Settles, Outcome, NoReply, Refused, Replied, Head,
           ReadOn, FallsSilent, requests
  <2> QED  BY <2>1, <2>2, <2>3
<1>6. Sure(c)
  BY <1>4 DEF Assured
<1>7. Current(c)' = Current(c) /\ Current(c)[1] = c
  BY <1>2 DEF Current
<1>8. pc[c] \in {"sent", "reading"} =>
          at'[Current(c)] = at[Current(c)] /\ dest'[Current(c)] = dest[Current(c)]
  BY <1>5, <1>7, CurrentIsAttempt
<1> QED  BY <1>1, <1>2, <1>3, <1>6, <1>7, <1>8 DEF Sure, Settled

\* A first send may go anywhere, a later one goes to the leader.
LEMMA SureSend ==
    ASSUME Base, NEW c \in Call, NEW n \in Node, tries[c] < MaxTries, Send(c, n),
           Settled', tries[c] > 0 => n = discovery'
    PROVE  Sure(c)'
<1>1. /\ at' = [at EXCEPT ![<<c, tries[c] + 1>>] = "sent"]
      /\ dest' = [dest EXCEPT ![<<c, tries[c] + 1>>] = n]
      /\ tries' = [tries EXCEPT ![c] = tries[c] + 1] /\ pc' = [pc EXCEPT ![c] = "sent"]
      /\ <<c, tries[c] + 1>> \in Attempt
  BY SendMoves
<1>2. tries'[c] = tries[c] + 1 /\ pc'[c] = "sent" /\ tries[c] \in Nat
  BY <1>1 DEF Base, TypeOK, MaxTries
<1>3. Current(c)' = <<c, tries[c] + 1>>
  BY <1>2 DEF Current
<1>4. at'[Current(c)'] = "sent" /\ dest'[Current(c)'] = n
  BY <1>1, <1>3 DEF Base, TypeOK
<1>5. tries'[c] > 1 => n = discovery'
  BY <1>2
<1> QED  BY <1>2, <1>4, <1>5 DEF Sure

LEMMA SureStart ==
    ASSUME Base, NEW c \in Call, Start(c), calm'[c]
    PROVE  Sure(c)'
<1>1. calm[c] \in BOOLEAN /\ Settled /\ UNCHANGED <<serving, discovery>>
  BY DEF Start, Base, TypeOK, leaders
<1>2. Settled' /\ tries[c] = 0 /\ c \in DOMAIN scene
  BY <1>1 DEF Settled, Start, Base, Tried
<1>3. CASE leaderUrl[scene[c].tab] # NoNode
  <2>1. leaderUrl[scene[c].tab] \in Node
    BY <1>2, <1>3 DEF Base, TypeOK, Click
  <2>2. Send(c, leaderUrl[scene[c].tab]) /\ tries[c] < MaxTries
    BY <1>2, <1>3 DEF Start, MaxTries
  <2> QED  BY <1>2, <2>1, <2>2, SureSend
<1>4. CASE leaderUrl[scene[c].tab] = NoNode
  <2>1. pc'[c] \in {"resolve", "joins"}
    BY <1>4 DEF Start, Goes, Base, TypeOK
  <2> QED  BY <1>2, <2>1 DEF Sure
<1> QED  BY <1>3, <1>4

LEMMA SureEnsure ==
    ASSUME Base, Assured, NEW c \in Call, Ensure(c), calm'[c]
    PROVE  Sure(c)'
<1>0. calm \in [Call -> BOOLEAN] /\ found \in [Call -> Node \cup {NoNode}]
  BY DEF Base, TypeOK
<1>1. calm[c] /\ UNCHANGED <<serving, discovery>>
  BY <1>0 DEF Ensure, Resolve, Join, Probe, Settles, leaders
<1>2. Sure(c) /\ Settled /\ Settled' /\ up[discovery]
  BY <1>1 DEF Assured, Sure, Settled
<1>3. CASE Resolve(c)
  <2>1. \/ pc'[c] = "probe" /\ found'[c] = discovery
        \/ pc'[c] = "unheard"
    BY <1>0, <1>3 DEF Resolve, Goes, Base, TypeOK
  <2> QED  BY <1>1, <1>2, <2>1 DEF Sure
<1>4. CASE Probe(c)
  <2>1. found[c] = discovery /\ tries[c] < MaxTries
    BY <1>2, <1>4 DEF Probe, Sure, Base, Tried
  <2>2. Settles(c, Choice(c, Alive))
    BY <1>0, <1>4 DEF Probe
  <2>3. Choice(c, Alive) = discovery /\ discovery \in Node
    BY <1>2, <2>1 DEF Choice, FirstOf, Alive, Base, TypeOK
  <2> QED  BY <1>1, <1>2, <1>4, <2>1, <2>2, <2>3, SureSend DEF Settles
<1>5. CASE Join(c)
  <2>1. tries[c] = 0 /\ tries[c] < MaxTries
    BY <1>5 DEF Join, Base, Tried, MaxTries
  <2>2. leaderUrl[scene[c].tab] \in Node
    BY <1>5 DEF Join, Base, TypeOK, Click
  <2> QED  BY <1>2, <1>5, <2>1, <2>2, SureSend DEF Join
<1> QED  BY <1>3, <1>4, <1>5 DEF Ensure

LEMMA SureOutcome ==
    ASSUME Base, Assured, NEW c \in Call, Outcome(c), calm'[c]
    PROVE  Sure(c)'
<1>0. /\ calm \in [Call -> BOOLEAN] /\ tries[c] \in 0..MaxTries
      /\ pc \in [Call -> Stops \cup Replies]
  BY DEF Base, TypeOK
<1>1. /\ UNCHANGED <<serving, discovery, tries, at, dest>>
      /\ pc[c] \in {"sent", "reading"} /\ calm[c]
  BY <1>0 DEF Outcome, NoReply, Refused, Replied, Head, ReadOn, FallsSilent, leaders, requests, Sent
<1>2. Sure(c) /\ Settled' /\ tries[c] > 0 /\ Current(c)' = Current(c)
  BY <1>1 DEF Assured, Sure, Settled, Base, Tried, Current
<1>3. tries[c] > 1 \/ (Again(c, FALSE) /\ Again(c, TRUE))
  BY <1>0, <1>2 DEF Again, MaxTries
<1>4. CASE NoReply(c)
  <2>1. at[Current(c)] = "noconn" /\ pc[c] = "sent"
    BY <1>0, <1>4 DEF NoReply, Sent
  <2>2. pc'[c] = "resolve"
    BY <1>0, <1>2, <1>3, <1>4, <2>1 DEF NoReply, Goes, Sure
  <2> QED  BY <1>2, <2>2 DEF Sure
<1>5. CASE Refused(c)
  <2>1. pc'[c] \in {"resolve", "busy", "late"}
    BY <1>0, <1>2, <1>3, <1>5 DEF Refused, Sent, Goes, Sure, AwayFromLeader
  <2> QED  BY <1>2, <2>1 DEF Sure
<1>6. CASE Replied(c)
  <2>1. pc'[c] \in {"ok", "denied", "conflict", "fault"}
    BY <1>0, <1>6 DEF Replied, Goes
  <2> QED  BY <1>2, <2>1 DEF Sure
<1>7. CASE Head(c)
  <2>1. pc'[c] = "reading" /\ at'[Current(c)'] = "streaming"
    BY <1>0, <1>1, <1>2, <1>7 DEF Head, Goes
  <2> QED  BY <1>2, <2>1 DEF Sure
<1>8. CASE ReadOn(c)
  <2>1. pc'[c] \in {"ok", "fault"}
    BY <1>0, <1>2, <1>8 DEF ReadOn, Goes, Sure
  <2> QED  BY <1>2, <2>1 DEF Sure
<1>9. CASE FallsSilent(c)
  <2>1. pc'[c] = "hung"
    BY <1>0, <1>9 DEF FallsSilent, Goes
  <2> QED  BY <1>2, <2>1 DEF Sure
<1> QED  BY <1>4, <1>5, <1>6, <1>7, <1>8, <1>9 DEF Outcome

LEMMA AssuredStep ==
    ASSUME Base, Places, Assured, [Next]_vars
    PROVE  Assured'
<1>1. CASE Handlers /\ UNCHANGED <<browser, calm, discovery>>
  BY <1>1, AssuredHandled DEF Handlers, Requests, Handled
<1>2. CASE Processes /\ calm' = [c \in Call |-> FALSE]
  <2>1. \A n \in serving' : up'[n]
    BY <1>2 DEF Processes, Crash, Restart, Win, StepDown, Assured, Base, TypeOK
  <2> QED  BY <1>2, <2>1 DEF Assured
<1>3. ASSUME NEW n \in Node, Announce(n) PROVE Assured'
  BY <1>3 DEF Announce, leaders, Assured
<1>4. ASSUME NEW d \in Call, Start(d) \/ Ensure(d) \/ Outcome(d) PROVE Assured'
  <2>1. UNCHANGED <<up, serving>>
    BY <1>4 DEF Start, Ensure, Resolve, Join, Probe, Settles, Outcome, NoReply, Refused, Replied, Head,
                ReadOn, FallsSilent, leaders
  <2>2. ASSUME NEW c \in Call, calm'[c] PROVE Sure(c)'
    <3>1. CASE c # d
      BY <1>4, <2>2, <3>1, CallsApart
    <3>2. CASE c = d
      BY <1>4, <2>2, <3>2, SureStart, SureEnsure, SureOutcome
    <3> QED  BY <3>1, <3>2
  <2> QED  BY <2>1, <2>2 DEF Assured
<1>5. CASE UNCHANGED vars
  BY <1>5 DEF vars, Assured, Sure, Settled, Current
<1> QED  BY <1>1, <1>2, <1>3, <1>4, <1>5 DEF Next

\* While the one node that serves is the one discovery names, no call fails for
\* want of a leader.
THEOREM CallsReachTheLeader == Spec => []CalmCallsFindTheLeader
<1>1. Init => Assured
  BY DEF Init, AccountsInit, Assured
<1>2. Told /\ Assured /\ [Next]_vars => Assured'
  BY AssuredStep DEF Told
<1>3. Assured => CalmCallsFindTheLeader
  BY DEF Assured, Sure, CalmCallsFindTheLeader
<1> QED  BY <1>1, <1>2, <1>3, ToldAlways, PTL DEF Spec

-----------------------------------------------------------------------------
(* How often a click takes effect.                                         *)

\* An attempt that took effect got past require_leader and the look for workers.
Effective == \A h \in executed : at[h] \notin Early \cup {"unavailable", "busy"}

GivenUp(c, k) == k < tries[c] \/ (k = tries[c] /\ pc[c] \in Looking)

\* What is sent again had no answer or one that says to try elsewhere, and what
\* is sent a third time had the latter.
Doubted ==
    \A c \in Call, k \in 1..3 : GivenUp(c, k) =>
        /\ <<c, k>> \in lost \/ at[<<c, k>>] \in AwayFromLeader
        /\ k = 2 => at[<<c, k>>] \in {"unavailable", "busy"}

LEMMA HandlerEffects ==
    ASSUME Base, Places, NEW h \in Attempt, Handled(h)
    PROVE  /\ executed' \subseteq executed \cup {h}
           /\ h \in executed' => h \in executed
                                 \/ at'[h] \notin Early \cup {"unavailable", "busy"}
           /\ at'[h] \in {"unavailable", "busy"} => at[h] = "sent"
<1> USE DEF Reaches, Early, Base, TypeOK
<1>1. CASE Arrive(h) \/ Login(h) \/ SignupCheck(h)
  BY <1>1, TurnedOutcome DEF Arrive, Login, SignupCheck
<1>2. CASE SignupInsert(h) \/ UpdateRole(h) \/ DeleteUser(h)
  BY <1>2 DEF SignupInsert, UpdateRole, DeleteUser
<1>3. CASE Publish(h)
  BY <1>3, TurnedOutcome DEF Publish
<1>4. CASE AskTimeout(h) \/ SaveForAdmin(h) \/ AskError(h) \/ AskAnswered(h)
           \/ StreamAnswered(h)
  BY <1>4 DEF AskTimeout, SaveForAdmin, AskError, AskAnswered, StreamAnswered
<1> QED  BY <1>1, <1>2, <1>3, <1>4 DEF Handled, Handler, Answer

LEMMA EffectiveStep ==
    ASSUME Base, Places, Effective, [Next]_vars
    PROVE  Effective'
<1>0. executed \subseteq Attempt
  BY DEF Base, TypeOK
<1>1. CASE Quiet
  BY <1>0, <1>1 DEF Quiet, Effective, Early
<1>2. ASSUME NEW h \in Attempt, Handled(h) PROVE Effective'
  <2>1. at[h] \notin Early => at'[h] \notin Early
    BY <1>2, HandlerPaths DEF Handled, Running, Early
  <2>2. h \in executed => at'[h] \notin Early \cup {"unavailable", "busy"}
    BY <1>2, <2>1, HandlerEffects DEF Effective, Early
  <2>3. \A g \in executed' : g # h => g \in executed /\ at'[g] = at[g]
    BY <1>0, <1>2, HandlerEffects, OthersStay
  <2>4. h \in executed' => at'[h] \notin Early \cup {"unavailable", "busy"}
    BY <1>2, <2>2, HandlerEffects
  <2> QED  BY <2>3, <2>4 DEF Effective, Early
<1> QED  BY <1>1, <1>2, StepKinds

\* A reply is final.
LEMMA RepliesStay ==
    ASSUME Base, [Next]_vars, NEW g \in Attempt, at[g] \in Replies
    PROVE  at'[g] = at[g]
<1>1. at[g] \notin Running /\ at[g] # "none"
  BY DEF Replies, Running
<1>2. CASE Quiet
  BY <1>1, <1>2 DEF Quiet
<1>3. ASSUME NEW h \in Attempt, Handled(h) PROVE at'[g] = at[g]
  BY <1>1, <1>3, OthersStay DEF Handled
<1> QED  BY <1>2, <1>3, StepKinds

\* An attempt is given up for want of an answer, or on an answer.
LEMMA GivingUp ==
    ASSUME Base, [Next]_vars, NEW c \in Call, NEW k \in 1..3, GivenUp(c, k)',
           ~GivenUp(c, k)
    PROVE  /\ k = tries[c]
           /\ \/ NoReply(c) /\ Again(c, FALSE)
              \/ Refused(c) /\ Again(c, TRUE)
<1>0. /\ tries \in [Call -> 0..MaxTries] /\ tries[c] \in Nat
      /\ pc \in [Call -> Stops \cup Replies]
  BY DEF Base, TypeOK, MaxTries
<1>1. ~(pc'[c] = pc[c] /\ tries'[c] = tries[c])
  BY DEF GivenUp
<1>2. PICK d \in Call : Start(d) \/ Ensure(d) \/ Outcome(d)
  BY <1>1 DEF Next, Announce, browser, vars
<1>3. d = c
  BY <1>0, <1>1, <1>2 DEF Start, Ensure, Resolve, Join, Probe, Settles, Outcome, NoReply, Refused,
                          Replied, Head, ReadOn, FallsSilent, Goes, Send
<1>4. ~Start(c)
  <2> SUFFICES ASSUME Start(c) PROVE FALSE
    OBVIOUS
  <2>1. tries[c] = 0 /\ tries'[c] \in {0, 1} /\ (tries'[c] = 1 => pc'[c] = "sent")
    BY <1>0 DEF Start, Base, Tried, Send, Goes
  <2> QED  BY <1>0, <2>1 DEF GivenUp
<1>5. ~Ensure(c)
  <2>1. ~Resolve(c)
    BY <1>0 DEF Resolve, GivenUp
  <2>2. ~Probe(c) /\ ~Join(c)
    <3> SUFFICES ASSUME Probe(c) \/ Join(c) PROVE FALSE
      OBVIOUS
    <3>1. pc[c] \in Looking /\ pc'[c] = "sent" /\ tries'[c] = tries[c] + 1
      BY <1>0 DEF Probe, Settles, Join, Send, Goes
    <3>2. k < tries[c] + 1
      BY <3>1 DEF GivenUp
    <3>3. k < tries[c] \/ k = tries[c]
      BY <1>0, <3>2
    <3> QED  BY <3>1, <3>3 DEF GivenUp
  <2> QED  BY <2>1, <2>2 DEF Ensure
<1>6. Outcome(c)
  BY <1>2, <1>3, <1>4, <1>5
<1>7. tries'[c] = tries[c] /\ pc[c] \in {"sent", "reading"}
  BY <1>6 DEF Outcome, NoReply, Refused, Replied, Head, ReadOn, FallsSilent, Sent
<1>8. k = tries[c] /\ pc'[c] \in Looking
  BY <1>0, <1>7 DEF GivenUp
<1>9. /\ ~Replied(c) /\ ~Head(c) /\ ~ReadOn(c) /\ ~FallsSilent(c)
      /\ NoReply(c) => Again(c, FALSE)
      /\ Refused(c) => Again(c, TRUE)
  BY <1>0, <1>8 DEF NoReply, Refused, Replied, Head, ReadOn, FallsSilent, Goes, AwayFromLeader
<1> QED  BY <1>6, <1>8, <1>9 DEF Outcome

LEMMA DoubtedStep ==
    ASSUME Base, Places, Doubted, [Next]_vars
    PROVE  Doubted'
<1> SUFFICES ASSUME NEW c \in Call, NEW k \in 1..3, GivenUp(c, k)'
             PROVE  /\ <<c, k>> \in lost' \/ at'[<<c, k>>] \in AwayFromLeader
                    /\ k = 2 => at'[<<c, k>>] \in {"unavailable", "busy"}
  BY DEF Doubted, AwayFromLeader
<1>0. <<c, k>> \in Attempt
  BY DEF Attempt, MaxTries
<1>1. at[<<c, k>>] \in AwayFromLeader => at'[<<c, k>>] = at[<<c, k>>]
  BY <1>0, RepliesStay DEF AwayFromLeader, Replies
<1>2. CASE GivenUp(c, k)
  <2>1. lost \subseteq lost'
    BY DEF Next, Announce, vars, browser, Start, Ensure, Resolve, Join, Probe, Settles, Outcome, NoReply,
           Refused, Replied, Head, ReadOn, FallsSilent
  <2>2. /\ <<c, k>> \in lost \/ at[<<c, k>>] \in AwayFromLeader
        /\ k = 2 => at[<<c, k>>] \in {"unavailable", "busy"}
    BY <1>2 DEF Doubted
  <2> QED  BY <1>1, <2>1, <2>2 DEF AwayFromLeader
<1>3. CASE ~GivenUp(c, k)
  <2>1. k = tries[c] /\ \/ NoReply(c) /\ Again(c, FALSE)
                        \/ Refused(c) /\ Again(c, TRUE)
    BY <1>3, GivingUp
  <2>2. CASE NoReply(c) /\ Again(c, FALSE)
    BY <2>1, <2>2 DEF NoReply, Again, Current
  <2>3. CASE Refused(c) /\ Again(c, TRUE)
    <3>1. at[<<c, k>>] \in AwayFromLeader
      BY <2>1, <2>3 DEF Refused, Current
    <3>2. k = 2 => Op(<<c, k>>) = "stream"
      BY <2>1, <2>3 DEF Again, Streams, Op
    <3>3. k = 2 => at[<<c, k>>] # "late"
      BY <1>0, <3>2 DEF Places
    <3> QED  BY <1>1, <3>1, <3>3 DEF AwayFromLeader
  <2> QED  BY <2>1, <2>2, <2>3
<1> QED  BY <1>2, <1>3

Twice == Effective /\ Doubted

LEMMA TwiceMeansInDoubt == Base /\ Twice => TwiceOnlyInDoubt
<1> SUFFICES ASSUME Base, Twice, NEW c \in Call,
                    Cardinality({h \in executed : h[1] = c}) > 1
             PROVE  /\ Cardinality({h \in executed : h[1] = c}) = 2
                    /\ \E h \in {h \in executed : h[1] = c} : h \in lost \/ at[h] = "late"
  BY DEF TwiceOnlyInDoubt, Effects
<1> DEFINE done == {h \in executed : h[1] = c}
<1>0. tries[c] \in 0..3 /\ executed \subseteq Attempt
  BY DEF Base, TypeOK, MaxTries
<1>1. \A h \in done : h = <<c, h[2]>> /\ h[2] \in 1..3 /\ h[2] <= tries[c]
  <2> SUFFICES ASSUME NEW h \in done
               PROVE  h = <<c, h[2]>> /\ h[2] \in 1..3 /\ h[2] <= tries[c]
    OBVIOUS
  <2>1. h[1] = c /\ h[2] \in 1..3 /\ h = <<h[1], h[2]>>
    BY <1>0, AttemptParts
  <2>2. at[h] # "none"
    BY DEF Twice, Effective, Early
  <2>3. tries[h[1]] >= h[2]
    BY <1>0, <2>2, HandledWasSent
  <2> QED  BY <1>0, <2>1, <2>3
<1>2. tries[c] = 3 => <<c, 2>> \notin done
  <2>1. tries[c] = 3 => GivenUp(c, 2)
    BY DEF GivenUp
  <2>2. \A k \in 1..3 : GivenUp(c, k) /\ k = 2
                          => at[<<c, k>>] \in {"unavailable", "busy"}
    BY DEF Twice, Doubted
  <2>3. GivenUp(c, 2) => at[<<c, 2>>] \in {"unavailable", "busy"}
    BY <2>2, 2 \in 1..3, Zenon
  <2> QED  BY <2>1, <2>3 DEF Twice, Effective
<1>3. PICK last \in {<<c, 2>>, <<c, 3>>} : done \subseteq {<<c, 1>>, last}
  <2>1. CASE tries[c] = 3
    BY <1>1, <1>2, <2>1
  <2>2. CASE tries[c] \in 0..2
    BY <1>1, <2>2
  <2> QED  BY <1>0, <2>1, <2>2
<1>4. <<c, 1>> # last /\ last[2] > 1
  OBVIOUS
<1>5. IsFiniteSet({<<c, 1>>, last}) /\ Cardinality({<<c, 1>>, last}) = 2
  <2>1. {<<c, 1>>} \cup {last} = {<<c, 1>>, last}
    OBVIOUS
  <2>2. IsFiniteSet({<<c, 1>>}) /\ Cardinality({<<c, 1>>}) = 1
    BY FS_Singleton, Zenon
  <2>3. last \notin {<<c, 1>>}
    BY <1>4
  <2>4. /\ IsFiniteSet({<<c, 1>>} \cup {last})
        /\ Cardinality({<<c, 1>>} \cup {last}) = Cardinality({<<c, 1>>}) + 1
    BY <2>2, <2>3, FS_AddElement, Zenon
  <2> QED  BY <2>1, <2>2, <2>4
<1>6. IsFiniteSet(done) /\ Cardinality(done) \in Nat /\ Cardinality(done) <= 2
  BY <1>3, <1>5, FS_Subset, FS_CardinalityType
<1>7. Cardinality(done) = 2
  BY <1>6
<1>8. done = {<<c, 1>>, last}
  BY <1>3, <1>5, <1>7, FS_Subset
<1>9. <<c, 1>> \in lost \/ at[<<c, 1>>] \in AwayFromLeader
  <2>1. tries[c] > 1
    BY <1>0, <1>1, <1>4, <1>8
  <2>2. GivenUp(c, 1)
    BY <1>0, <2>1 DEF GivenUp
  <2>3. \A k \in 1..3 :
            GivenUp(c, k) => <<c, k>> \in lost \/ at[<<c, k>>] \in AwayFromLeader
    BY DEF Twice, Doubted
  <2> QED  BY <2>2, <2>3, 1 \in 1..3, Zenon
<1>10. <<c, 1>> \in lost \/ at[<<c, 1>>] = "late"
  BY <1>8, <1>9 DEF Twice, Effective, AwayFromLeader
<1> QED  BY <1>7, <1>8, <1>10

\* One click takes effect twice at the most, and then only if its first attempt
\* had no answer or a 504.
THEOREM NoThirdEffect == Spec => []TwiceOnlyInDoubt
<1>1. Init => Twice
  <2>1. Init => executed = {} /\ \A c \in Call : tries[c] = 0 /\ pc[c] = "idle"
    BY DEF Init, AccountsInit
  <2> QED  BY <2>1 DEF Twice, Effective, Doubted, GivenUp
<1>2. Told /\ Twice /\ [Next]_vars => Twice'
  BY EffectiveStep, DoubtedStep DEF Told, Twice
<1>3. Told /\ Twice => TwiceOnlyInDoubt
  BY TwiceMeansInDoubt DEF Told
<1> QED  BY <1>1, <1>2, <1>3, ToldAlways, PTL DEF Spec
=============================================================================
