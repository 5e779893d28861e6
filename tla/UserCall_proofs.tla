-------------------------- MODULE UserCall_proofs --------------------------
(***************************************************************************)
(* Proofs about the calls of WebClient, on the lemmas of WebClient_proofs: *)
(* every step takes from what is left to do, and a call is for its user    *)
(* the call of UserCall.                                                   *)
(***************************************************************************)
EXTENDS WebClient_proofs

USE AccountsAssumption, ClientAssumption DEF Stages, Stops, Looking

-----------------------------------------------------------------------------
(* A measure of what is left to do.                                        *)

\* A reply comes from the present attempt, or says that there is no connection.
LEMMA OutcomeGoes ==
    ASSUME NEW c \in Call, Outcome(c)
    PROVE  \E where \in {"resolve", "reading", "hung"} \cup Replies :
               /\ Goes(c, where) /\ tries' = tries
               /\ pc[c] = "sent" \/ (pc[c] = "reading" /\ where \in {"hung"} \cup Replies)
               /\ where \in {"resolve", "reading", "hung", "noconn"} \/ where = at[Current(c)]
<1>1. CASE NoReply(c)
  <2> DEFINE x == IF Again(c, FALSE) THEN "resolve" ELSE "noconn"
  <2>1. x \in {"resolve"} \cup Replies
    BY DEF Replies
  <2>2. Goes(c, x) /\ tries' = tries /\ pc[c] = "sent"
    BY <1>1 DEF NoReply, Sent
  <2> QED  BY <2>1, <2>2
<1>2. CASE Refused(c)
  <2> DEFINE x == IF Again(c, TRUE) THEN "resolve" ELSE at[Current(c)]
  <2>1. x \in {"resolve"} \cup Replies
    BY <1>2 DEF Refused, AwayFromLeader, Replies
  <2>2. Goes(c, x) /\ tries' = tries /\ pc[c] = "sent"
    BY <1>2 DEF Refused, Sent
  <2> QED  BY <2>1, <2>2
<1>3. CASE Replied(c)
  BY <1>3 DEF Replied, Sent, Replies
<1>4. CASE Head(c)
  BY <1>4 DEF Head, Sent
<1>5. CASE ReadOn(c)
  <2>1. /\ tries' = tries /\ pc[c] = "reading"
        /\ (at[Current(c)] \in {"ok", "fault", "noconn"} /\ Goes(c, at[Current(c)]))
           \/ Goes(c, "noconn")
    BY <1>5 DEF ReadOn
  <2> QED  BY <2>1 DEF Replies
<1>6. CASE FallsSilent(c)
  BY <1>6 DEF FallsSilent
<1> QED  BY <1>1, <1>2, <1>3, <1>4, <1>5, <1>6 DEF Outcome

\* A step of a call takes from what is left of it, and of no other call.
LEMMA CallGetsOn ==
    ASSUME Base, NEW c \in Call, Start(c) \/ Ensure(c) \/ Outcome(c)
    PROVE  /\ StepsOf(c)' < StepsOf(c)
           /\ \A d \in Call : d # c => StepsOf(d)' = StepsOf(d)
<1>0. /\ tries \in [Call -> 0..3] /\ tries[c] \in Nat
      /\ pc \in [Call -> Stops \cup Replies]
  BY DEF Base, TypeOK, MaxTries
<1>1. ASSUME NEW where, Goes(c, where), tries' = tries
      PROVE  /\ pc'[c] = where /\ tries'[c] = tries[c]
             /\ \A d \in Call : d # c => StepsOf(d)' = StepsOf(d)
  BY <1>0, <1>1 DEF Goes, StepsOf
<1>2. ASSUME NEW n, Send(c, n)
      PROVE  /\ pc'[c] = "sent" /\ tries'[c] = tries[c] + 1
             /\ \A d \in Call : d # c => StepsOf(d)' = StepsOf(d)
  BY <1>0, <1>2 DEF Send, Goes, StepsOf
<1>3. CASE Start(c)
  <2>1. pc[c] = "idle"
    BY <1>3 DEF Start
  <2>2. CASE leaderUrl[scene[c].tab] # NoNode
    BY <1>0, <1>2, <1>3, <2>1, <2>2 DEF Start, StepsOf, MaxTries
  <2>3. CASE leaderUrl[scene[c].tab] = NoNode
    BY <1>0, <1>1, <1>3, <2>1, <2>3 DEF Start, StepsOf, MaxTries
  <2> QED  BY <2>2, <2>3
<1>4. CASE Resolve(c)
  BY <1>0, <1>1, <1>4 DEF Resolve, StepsOf, MaxTries
<1>5. CASE Probe(c)
  <2>1. PICK n \in Node : Settles(c, n)
    BY <1>5, ProbeSettles DEF Base
  <2> QED  BY <1>0, <1>2, <1>5, <2>1 DEF Probe, Settles, StepsOf, MaxTries
<1>6. CASE Outcome(c)
  <2>1. PICK where \in {"resolve", "reading", "hung"} \cup Replies :
            /\ Goes(c, where) /\ tries' = tries
            /\ pc[c] = "sent" \/ (pc[c] = "reading" /\ where \in {"hung"} \cup Replies)
    BY <1>6, OutcomeGoes
  <2> QED  BY <1>0, <1>1, <2>1 DEF StepsOf, MaxTries, Replies
<1>7. CASE Join(c)
  BY <1>0, <1>2, <1>7 DEF Join, StepsOf, MaxTries
<1> QED  BY <1>3, <1>4, <1>5, <1>6, <1>7 DEF Ensure

\* A step of a handler takes from what is left of its attempt.
LEMMA HandlerGetsOn ==
    ASSUME Base, NEW h \in Attempt, Handled(h)
    PROVE  StagesOf(h)' < StagesOf(h)
<1>0. at \in [Attempt -> Stages]
  BY DEF Base, TypeOK
<1> USE DEF Reaches, StagesOf
<1>1. CASE Arrive(h) \/ Publish(h)
  BY <1>0, <1>1, TurnedOutcome DEF Arrive, Publish
<1>2. CASE Login(h) \/ SignupCheck(h)
  BY <1>0, <1>2 DEF Login, SignupCheck
<1>3. CASE SignupInsert(h) \/ UpdateRole(h) \/ DeleteUser(h)
  BY <1>0, <1>3 DEF SignupInsert, UpdateRole, DeleteUser
<1>4. CASE AskTimeout(h) \/ SaveForAdmin(h) \/ AskError(h) \/ AskAnswered(h)
           \/ StreamAnswered(h)
  BY <1>0, <1>4 DEF AskTimeout, SaveForAdmin, AskError, AskAnswered, StreamAnswered
<1> QED  BY <1>1, <1>2, <1>3, <1>4 DEF Handled, Handler, Answer

LEMMA StagesOnlyFall ==
    ASSUME Base, [Next]_vars, NEW h \in Attempt
    PROVE  StagesOf(h)' <= StagesOf(h)
<1>0. at[h] \in Stages
  BY DEF Base, TypeOK
<1>1. CASE at'[h] = at[h]
  BY <1>1 DEF StagesOf
<1>2. CASE Quiet
  BY <1>0, <1>1, <1>2 DEF Quiet, StagesOf, Running
<1>3. ASSUME NEW g \in Attempt, Handled(g) PROVE StagesOf(h)' <= StagesOf(h)
  <2>1. CASE g = h
    <3>1. StagesOf(h)' < StagesOf(h)
      BY <1>3, <2>1, HandlerGetsOn
    <3> QED  BY <3>1 DEF StagesOf
  <2>2. CASE g # h
    BY <1>1, <1>3, <2>2, OthersStay
  <2> QED  BY <2>1, <2>2
<1> QED  BY <1>2, <1>3, StepKinds

LEMMA StepsOnlyFall ==
    ASSUME Base, [Next]_vars, NEW d \in Call
    PROVE  StepsOf(d)' <= StepsOf(d)
<1>0. tries[d] \in Nat /\ StepsOf(d) \in Int
  BY DEF Base, TypeOK, MaxTries, StepsOf
<1>1. CASE UNCHANGED browser \/ UNCHANGED vars
  BY <1>0, <1>1 DEF browser, vars, StepsOf
<1>2. ASSUME NEW c \in Call, Start(c) \/ Ensure(c) \/ Outcome(c)
      PROVE  StepsOf(d)' <= StepsOf(d)
  <2>1. CASE d = c
    <3>1. StepsOf(d)' < StepsOf(d)
      BY <1>2, <2>1, CallGetsOn
    <3>2. tries'[d] \in Int /\ StepsOf(d)' \in Int
      <4>1. tries' \in [Call -> 0..MaxTries]
        BY BaseStep DEF Base, TypeOK
      <4> QED  BY <4>1 DEF MaxTries, StepsOf
    <3> QED  BY <1>0, <3>1, <3>2
  <2>2. CASE d # c
    BY <1>0, <1>2, <2>2, CallGetsOn
  <2> QED  BY <2>1, <2>2
<1> QED  BY <1>1, <1>2 DEF Next, Announce

\* Calls and handlers run down a measure that nothing winds up again: each makes
\* at most fifteen, or four, steps, whatever the nodes and the others do.
THEOREM NothingRepeats == Spec => NothingGoesRound
<1> DEFINE Down == /\ \A c \in Call    : StepsOf(c)' <= StepsOf(c)
                   /\ \A h \in Attempt : StagesOf(h)' <= StagesOf(h)
                   /\ ServersGoOn  => \E h \in Attempt : StagesOf(h)' < StagesOf(h)
                   /\ BrowsersGoOn => \E c \in Call    : StepsOf(c)' < StepsOf(c)
<1>1. Told /\ [Next]_vars => Down
  <2> SUFFICES ASSUME Base, [Next]_vars PROVE Down
    BY DEF Told
  <2>1. ServersGoOn => \E h \in Attempt : StagesOf(h)' < StagesOf(h)
    <3> SUFFICES ASSUME ServersGoOn PROVE \E h \in Attempt : StagesOf(h)' < StagesOf(h)
      OBVIOUS
    <3>1. PICK h \in Attempt : Handled(h)
      BY DEF ServersGoOn, Requests, Handled
    <3> QED  BY <3>1, HandlerGetsOn
  <2>2. BrowsersGoOn => \E c \in Call : StepsOf(c)' < StepsOf(c)
    BY CallGetsOn DEF BrowsersGoOn
  <2> QED  BY <2>1, <2>2, StepsOnlyFall, StagesOnlyFall
<1> HIDE DEF Down
<1>2. Spec => [][Down]_vars
  BY <1>1, ToldAlways, PTL DEF Spec
<1> QED  BY <1>2 DEF Down, NothingGoesRound

-----------------------------------------------------------------------------
(* What the replies vouch for.                                             *)

Vouched ==
    /\ \A c \in Call : pc[c] # "idle" => c \in DOMAIN scene
    /\ \A h \in Attempt :
          /\ at[h] = "ok" /\ Op(h) # "login" => h \in executed
          /\ at[h] \in {"streaming", "late"} => h \in executed
          /\ at[h] = "denied" => Op(h) = "login"

\* What a handler does to the log of effects, and what it has done when it says so.
LEMMA HandlerExecutes ==
    ASSUME Base, Places, Logged, Vouched, NEW h \in Attempt, Handled(h)
    PROVE  /\ executed' = executed \/ (executed' = executed \cup {h} /\ Op(h) # "login")
           /\ at'[h] = "ok" /\ Op(h) # "login" => h \in executed'
           /\ at'[h] \in {"streaming", "late"} => h \in executed'
           /\ at'[h] = "denied" => Op(h) = "login"
<1>0. at \in [Attempt -> Stages]
  BY DEF Base, TypeOK
<1> USE DEF Reaches
<1>1. CASE Arrive(h) \/ Login(h) \/ SignupCheck(h)
  BY <1>0, <1>1, TurnedOutcome DEF Arrive, Login, SignupCheck
<1>2. CASE SignupInsert(h)
  BY <1>0, <1>2 DEF SignupInsert, Places
<1>3. CASE UpdateRole(h) \/ DeleteUser(h)
  BY <1>0, <1>3 DEF UpdateRole, DeleteUser
<1>4. CASE Publish(h)
  BY <1>0, <1>4, TurnedOutcome DEF Publish
<1>5. CASE AskTimeout(h) \/ SaveForAdmin(h)
  BY <1>0, <1>5 DEF AskTimeout, SaveForAdmin, Logged
<1>6. CASE AskError(h) \/ AskAnswered(h) \/ StreamAnswered(h)
  BY <1>0, <1>6 DEF AskError, AskAnswered, StreamAnswered, Vouched
<1> QED  BY <1>1, <1>2, <1>3, <1>4, <1>5, <1>6 DEF Handled, Handler, Answer

LEMMA VouchedStep ==
    ASSUME Base, Places, Logged, Vouched, [Next]_vars
    PROVE  Vouched'
<1>1. ASSUME NEW c \in Call, pc'[c] # "idle" PROVE c \in DOMAIN scene
  <2>0. pc \in [Call -> Stops \cup Replies]
    BY DEF Base, TypeOK
  <2>1. CASE UNCHANGED browser \/ UNCHANGED vars
    BY <1>1, <2>1 DEF browser, vars, Vouched
  <2>2. ASSUME NEW d \in Call, Start(d) PROVE c \in DOMAIN scene
    BY <1>1, <2>0, <2>2 DEF Start, Goes, Send, Vouched
  <2>3. ASSUME NEW d \in Call, Ensure(d) \/ Outcome(d) PROVE c \in DOMAIN scene
    <3>1. pc[d] # "idle"
      BY <2>3 DEF Ensure, Resolve, Join, Probe, Settles, Outcome, NoReply, Refused, Replied, Head,
                  ReadOn, FallsSilent, Sent
    <3>2. PICK where : pc' = [pc EXCEPT ![d] = where]
      BY <2>3, OutcomeGoes DEF Ensure, Resolve, Join, Probe, Settles, Send, Goes
    <3> QED  BY <1>1, <2>0, <3>1, <3>2 DEF Vouched
  <2> QED  BY <2>1, <2>2, <2>3 DEF Next, Announce
<1>2. ASSUME NEW g \in Attempt
      PROVE  /\ at'[g] = "ok" /\ Op(g) # "login" => g \in executed'
             /\ at'[g] \in {"streaming", "late"} => g \in executed'
             /\ at'[g] = "denied" => Op(g) = "login"
  <2>1. CASE Quiet
    BY <2>1 DEF Quiet, Vouched
  <2>2. ASSUME NEW h \in Attempt, Handled(h)
        PROVE  /\ at'[g] = "ok" /\ Op(g) # "login" => g \in executed'
               /\ at'[g] \in {"streaming", "late"} => g \in executed'
               /\ at'[g] = "denied" => Op(g) = "login"
    <3>1. CASE g = h
      BY <2>2, <3>1, HandlerExecutes
    <3>2. CASE g # h
      <4>1. at'[g] = at[g] /\ executed \subseteq executed'
        BY <2>2, <3>2, OthersStay, HandlerExecutes
      <4> QED  BY <4>1 DEF Vouched
    <3> QED  BY <3>1, <3>2
  <2> QED  BY <2>1, <2>2, StepKinds
<1>3. scene' = scene
  BY SceneStays
<1> QED  BY <1>1, <1>2, <1>3 DEF Vouched, Op

-----------------------------------------------------------------------------
(* The refinement of UserCall.                                             *)

CallInv == Told /\ Twice /\ TwiceOnlyInDoubt /\ Vouched

LEMMA CallInvariant == Spec => []CallInv
<1>1. Init => Twice /\ Vouched
  <2> SUFFICES ASSUME Init PROVE Twice /\ Vouched
    OBVIOUS
  <2>1. /\ executed = {} /\ \A h \in Attempt : at[h] = "none"
        /\ \A c \in Call : tries[c] = 0 /\ pc[c] = "idle"
    BY DEF Init, AccountsInit
  <2> QED  BY <2>1 DEF Twice, Effective, Doubted, GivenUp, Vouched
<1>2. Twice /\ Told /\ [Next]_vars => Twice'
  BY EffectiveStep, DoubtedStep DEF Told, Twice
<1>3. Told /\ Vouched /\ [Next]_vars => Vouched'
  BY VouchedStep DEF Told
<1> QED  BY <1>1, <1>2, <1>3, ToldAlways, NoThirdEffect, PTL DEF Spec, CallInv

\* The variables of UserCall.
writing == {c \in DOMAIN scene : scene[c].op # "login"}
phases  == [c \in Call |-> Phase(c)]
counts  == [c \in Call |-> Cardinality(Effects(c))]

LEMMA EffectsFinite ==
    ASSUME Base, NEW c \in Call
    PROVE  IsFiniteSet(Effects(c)) /\ Cardinality(Effects(c)) \in Nat
<1>1. IsFiniteSet({c}) /\ IsFiniteSet(1..3)
  <2>1. IsFiniteSet({c})
    BY FS_Singleton, Zenon
  <2>2. IsFiniteSet(1..3)
    BY 1 \in Int, 3 \in Int, FS_Interval, Zenon
  <2> QED  BY <2>1, <2>2
<1>2. IsFiniteSet({c} \X (1..3))
  BY <1>1, FS_Product, Zenon
<1>3. Effects(c) \in SUBSET ({c} \X (1..3))
  <2> SUFFICES ASSUME NEW h \in Effects(c) PROVE h \in {c} \X (1..3)
    OBVIOUS
  <2>1. h \in Attempt /\ h[1] = c
    BY DEF Effects, Base, TypeOK
  <2> QED  BY <2>1 DEF Attempt, MaxTries
<1>4. IsFiniteSet(Effects(c))
  BY <1>2, <1>3, FS_Subset, Zenon
<1> QED  BY <1>4, FS_CardinalityType, Zenon

\* A step that nothing executes in leaves all counts alone.
LEMMA SameCounts == ASSUME executed' = executed PROVE counts' = counts
BY DEF counts, Effects

LEMMA StartsUnasked == Init => AsSeen!Init
<1> SUFFICES ASSUME Init PROVE AsSeen!Init
  OBVIOUS
<1>1. writing \subseteq Call
  BY BaseInit, SceneOfCalls DEF Base, writing
<1>2. phases = [c \in Call |-> "idle"]
  BY DEF Init, phases, Phase
<1>3. counts = [c \in Call |-> 0]
  <2>1. \A c \in Call : Effects(c) = {}
    BY DEF Init, AccountsInit, Effects
  <2> QED  BY <2>1, FS_EmptySet DEF counts
<1> QED  BY <1>1, <1>2, <1>3 DEF AsSeen!Init, writing, phases, counts

\* A handler takes effect or does nothing the user can see.
LEMMA HandlerSeen ==
    ASSUME CallInv, CallInv', NEW h \in Attempt, Handled(h)
    PROVE  AsSeen!Next \/ UNCHANGED <<writing, phases, counts>>
<1> DEFINE c == h[1]
<1>0. /\ c \in Call /\ executed \in SUBSET Attempt /\ Base /\ Base'
      /\ UNCHANGED <<writing, phases>>
  BY AttemptParts, HandlerMoves
     DEF CallInv, Told, Base, TypeOK, Handled, browser, writing, phases, Phase
<1>1. CASE executed' = executed \/ h \in executed
  <2>1. executed' = executed
    BY <1>1, HandlerExecutes DEF CallInv, Told
  <2> QED  BY <1>0, <2>1, SameCounts
<1>2. CASE executed' = executed \cup {h} /\ h \notin executed /\ Op(h) # "login"
  <2>1. Effects(c)' = Effects(c) \cup {h} /\ h \notin Effects(c)
    BY <1>2 DEF Effects
  <2>2. \A d \in Call : d # c => Effects(d)' = Effects(d)
    BY <1>2 DEF Effects
  <2>3. Cardinality(Effects(c)') = Cardinality(Effects(c)) + 1
    <3> HIDE DEF c
    <3>1. IsFiniteSet(Effects(c))
      BY <1>0, EffectsFinite
    <3>2. Cardinality(Effects(c) \cup {h}) = Cardinality(Effects(c)) + 1
      BY <2>1, <3>1, FS_AddElement, Zenon
    <3> QED  BY <2>1, <3>2
  <2>4. Cardinality(Effects(c)') <= 2
    <3>1. TwiceOnlyInDoubt'
      BY DEF CallInv
    <3>2. Cardinality(Effects(c)') > 1 => Cardinality(Effects(c)') = 2
      BY <1>0, <3>1 DEF TwiceOnlyInDoubt
    <3>3. Cardinality(Effects(c)) \in Nat
      BY <1>0, EffectsFinite
    <3> QED  BY <2>3, <3>2, <3>3
  <2>5. counts' = [counts EXCEPT ![c] = counts[c] + 1]
    BY <1>0, <2>2, <2>3 DEF counts
  <2>6. counts[c] < 2
    <3>1. counts[c] = Cardinality(Effects(c)) /\ counts[c] \in Nat
      BY <1>0, EffectsFinite DEF counts
    <3> QED  BY <2>3, <2>4, <3>1
  <2>7. at[h] # "none" /\ pc[c] # "idle"
    BY <1>0, HandledWasSent DEF Handled, Running
  <2>8. c \in writing /\ phases[c] # "idle"
    BY <1>0, <1>2, <2>7 DEF writing, phases, Phase, CallInv, Vouched, Op
  <2>9. AsSeen!TakeEffect(c)
    BY <1>0, <2>5, <2>6, <2>8 DEF AsSeen!TakeEffect, writing, phases, counts
  <2> QED  BY <1>0, <2>9 DEF AsSeen!Next
<1> QED  BY <1>1, <1>2, HandlerExecutes DEF CallInv, Told

\* A call that moves shows its own phase.
LEMMA PhaseMoves ==
    ASSUME Base, NEW c \in Call, NEW where, pc' = [pc EXCEPT ![c] = where]
    PROVE  phases' = [phases EXCEPT ![c] = Phase(c)'] /\ pc'[c] = where
BY ZenonT(60) DEF Base, TypeOK, phases, Phase

LEMMA CallSeen ==
    ASSUME CallInv, NEW c \in Call, Start(c) \/ Ensure(c) \/ Outcome(c)
    PROVE  AsSeen!Next \/ UNCHANGED <<writing, phases, counts>>
<1>0. Base /\ pc \in [Call -> Stops \cup Replies]
  BY DEF CallInv, Told, Base, TypeOK
<1>1. UNCHANGED <<writing, counts, executed>>
  <2>1. UNCHANGED <<scene, executed>>
    BY DEF Start, Ensure, Resolve, Join, Probe, Settles, Outcome, NoReply, Refused, Replied, Head, ReadOn, FallsSilent,
           requests
  <2> QED  BY <2>1, SameCounts DEF writing
<1>2. CASE Start(c)
  <2>1. PICK where \in {"resolve", "joins", "sent"} : pc' = [pc EXCEPT ![c] = where]
    BY <1>2 DEF Start, Send, Goes
  <2>2. phases[c] = "idle" /\ phases' = [phases EXCEPT ![c] = "open"]
    BY <1>0, <1>2, <2>1, PhaseMoves DEF Start, phases, Phase
  <2>3. AsSeen!Click(c)
    BY <1>1, <2>2 DEF AsSeen!Click, writing, phases, counts
  <2> QED  BY <2>3 DEF AsSeen!Next
<1>3. CASE Ensure(c)
  <2>1. /\ pc[c] \in Looking
        /\ \E where \in {"probe", "unheard", "sent"} : pc' = [pc EXCEPT ![c] = where]
    BY <1>3 DEF Ensure, Resolve, Join, Probe, Settles, Send, Goes
  <2>2. phases' = phases
    BY <1>0, <2>1 DEF phases, Phase
  <2> QED  BY <1>1, <2>2
<1>4. CASE Outcome(c)
  <2>1. PICK where \in {"resolve", "reading", "hung"} \cup Replies :
            /\ pc' = [pc EXCEPT ![c] = where]
            /\ pc[c] \in {"sent", "reading"}
            /\ where \in {"resolve", "reading", "hung", "noconn"} \/ where = at[Current(c)]
    BY <1>4, OutcomeGoes DEF Goes
  <2>2. phases[c] = "open"
    BY <2>1 DEF phases, Phase
  <2>3. CASE where \in {"resolve", "reading", "hung"}
    <3>1. phases' = phases
      BY <1>0, <2>1, <2>3 DEF phases, Phase
    <3> QED  BY <1>1, <3>1
  <2>4. CASE where \in Replies
    <3>1. phases' = [phases EXCEPT ![c] = where]
      <4>1. Phase(c)' = where
        BY <1>0, <2>1, <2>4, PhaseMoves DEF Phase, Replies
      <4> QED  BY <1>0, <2>1, <4>1, PhaseMoves
    <3>2. /\ Current(c) \in Attempt /\ Current(c)[1] = c
          /\ Op(Current(c)) = scene[c].op /\ c \in DOMAIN scene
      <4>1. tries[c] \in 1..3
        BY <1>0, <2>1 DEF Base, Tried, TypeOK, MaxTries
      <4>2. Current(c) \in Attempt /\ Current(c)[1] = c
        BY <4>1 DEF Current, Attempt, MaxTries
      <4> QED  BY <2>1, <4>2 DEF Op, CallInv, Vouched
    <3>3. at[Current(c)] \in {"ok", "late"} /\ scene[c].op # "login" => counts[c] > 0
      <4> SUFFICES ASSUME at[Current(c)] \in {"ok", "late"}, scene[c].op # "login"
                   PROVE  counts[c] > 0
        OBVIOUS
      <4>1. Current(c) \in Effects(c)
        BY <3>2 DEF CallInv, Vouched, Effects
      <4>2. Cardinality(Effects(c)) # 0
        BY <1>0, <4>1, EffectsFinite, FS_EmptySet
      <4> QED  BY <1>0, <4>2, EffectsFinite DEF counts
    <3>4. CASE where = "ok"
      <4>1. c \in writing => counts[c] > 0
        BY <2>1, <3>3, <3>4 DEF writing
      <4>2. AsSeen!Confirm(c)
        BY <1>1, <2>2, <3>1, <3>4, <4>1 DEF AsSeen!Confirm, writing, phases, counts
      <4> QED  BY <4>2 DEF AsSeen!Next
    <3>5. CASE where # "ok"
      <4>1. where \in AsSeen!Failures
        BY <2>4, <3>5 DEF Replies, AsSeen!Failures
      <4>2. where = "denied" => c \notin writing
        BY <2>1, <3>2 DEF CallInv, Vouched, writing
      <4>3. where = "late" => counts[c] > 0
        <5>1. at[Current(c)] = "late" => scene[c].op # "login"
          BY <3>2 DEF CallInv, Told, Places
        <5> QED  BY <2>1, <3>3, <5>1
      <4>4. AsSeen!Fail(c, where)
        BY <1>1, <2>2, <3>1, <4>2, <4>3 DEF AsSeen!Fail, writing, phases, counts
      <4> QED  BY <4>1, <4>4 DEF AsSeen!Next
    <3> QED  BY <3>4, <3>5
  <2> QED  BY <2>1, <2>3, <2>4
<1> QED  BY <1>2, <1>3, <1>4

\* The other steps concern the nodes and discovery.
LEMMA NobodySeen ==
    ASSUME UNCHANGED browser, UNCHANGED <<scene, executed>>
    PROVE  UNCHANGED <<writing, phases, counts>>
BY SameCounts DEF browser, writing, phases, Phase

LEMMA StepIsUserStep ==
    CallInv /\ CallInv' /\ [Next]_vars => [AsSeen!Next]_<<writing, phases, counts>>
<1> SUFFICES ASSUME CallInv, CallInv', [Next]_vars
             PROVE  AsSeen!Next \/ UNCHANGED <<writing, phases, counts>>
  OBVIOUS
<1>1. CASE UNCHANGED vars
  BY <1>1, NobodySeen DEF vars, browser
<1>2. CASE Handlers /\ UNCHANGED <<browser, calm, discovery>>
  BY <1>2, HandlerSeen DEF Handlers, Requests, Handled
<1>3. CASE Processes /\ UNCHANGED browser
  <2>1. UNCHANGED <<scene, executed>>
    BY <1>3 DEF Processes, Crash, Restart, Win, StepDown, requests
  <2> QED  BY <1>3, <2>1, NobodySeen
<1>4. ASSUME NEW n \in Node, Announce(n) PROVE UNCHANGED <<writing, phases, counts>>
  BY <1>4, NobodySeen DEF Announce, requests
<1>5. ASSUME NEW c \in Call, Start(c) \/ Ensure(c) \/ Outcome(c)
      PROVE  AsSeen!Next \/ UNCHANGED <<writing, phases, counts>>
  BY <1>5, CallSeen
<1> QED  BY <1>1, <1>2, <1>3, <1>4, <1>5 DEF Next

\* However often a call is sent, wherever it goes and whatever crashes: it is
\* answered once, it takes effect twice at the most, and a user who is told that
\* something was done, or is on its way, is told the truth.
THEOREM UserCallImplemented == Spec => ImplementsUserCall
<1>1. Spec => [][AsSeen!Next]_<<writing, phases, counts>>
  BY StepIsUserStep, CallInvariant, PTL DEF Spec
<1> QED
  BY <1>1, StartsUnasked, PTL
     DEF Spec, ImplementsUserCall, AsSeen!Spec, writing, phases, counts
=============================================================================
