----------------------------- MODULE WebClient ------------------------------
(***************************************************************************)
(* The web client (client/src/api/index.js) against the handlers of module *)
(* Accounts: how a call finds the leader, and what it sends again when an  *)
(* answer is missing or says that the node does not lead.                  *)
(*                                                                         *)
(* A page keeps one url, _leaderUrl, and writes it to localStorage too.  A *)
(* reload forgets the first and keeps the second.  /health is given 1.2 s  *)
(* and axios 15 s; the look-up in discovery and the stream are given for   *)
(* ever, so that a connection that falls silent there ends nothing.        *)
(***************************************************************************)
EXTENDS Accounts

CONSTANT FallbackNode   \* FALLBACK_LEADER_URL of the build

ASSUME ClientAssumption == FallbackNode \in Node

VARIABLES leaderUrl,  \* of each browser's page
          cached,     \* what its localStorage holds
          pc,         \* where each call is, or how it ended
          tries,      \* how often it has been sent
          found,      \* the url discovery gave to its ensureLeader
          lost,       \* attempts whose answer the browser never saw
          calm,       \* leader and discovery have agreed since it started
          discovery   \* whose url the discovery key holds

browser == <<leaderUrl, cached, pc, tries, found, lost>>
vars == <<up, serving, scene, subject, at, dest, rows, ghosts, userLog, adminLog,
          executed, together, budget, leaderUrl, cached, pc, tries, found,
          lost, calm, discovery>>

Current(c) == <<c, tries[c]>>
Streams(c) == scene[c].op = "stream"

\* The one node that serves is the one discovery names.
Settled == serving = {discovery}

Init ==
    /\ AccountsInit
    /\ cached    \in [Tab -> Node \cup {NoNode}]
    /\ \A t \in Tab : (\A c \in DOMAIN scene : scene[c].tab # t) => cached[t] = NoNode
    /\ leaderUrl \in [Tab -> Node \cup {NoNode}]
    /\ \A t \in Tab : leaderUrl[t] \in {cached[t], NoNode}
    /\ pc        = [c \in Call |-> "idle"]
    /\ tries     = [c \in Call |-> 0]
    /\ found     = [c \in Call |-> NoNode]
    /\ lost      = {}
    /\ calm      = [c \in Call |-> FALSE]
    /\ discovery \in serving

\* Where a call may be before it ends; looking for a leader, to begin with.
Looking == {"resolve", "unheard", "probe", "joins"}
Stops   == {"idle", "sent", "reading", "hung"} \cup Looking

Goes(c, where) == pc' = [pc EXCEPT ![c] = where]

Send(c, n) ==
    LET h == <<c, tries[c] + 1>> IN
    /\ tries' = [tries EXCEPT ![c] = @ + 1]
    /\ at'    = [at    EXCEPT ![h] = "sent"]
    /\ dest'  = [dest  EXCEPT ![h] = n]
    /\ Goes(c, "sent")

-----------------------------------------------------------------------------
\* What the screen offers: accounts to log in to, the admin's list of users.
Subjects(c) ==
    CASE scene[c].op = "login"               -> rows
      [] scene[c].op \in {"role", "delete"}  -> Listed
      [] OTHER                               -> {NoUser}

\* _leaderPromise: while a page has no url, its calls share one search for it.
SearchGoesOn(t) ==
    \E d \in DOMAIN scene :
        scene[d].tab = t /\ pc[d] \in Looking \ {"joins"}

\* A call goes to the url at hand; without one it looks for one first.
Start(c) ==
    LET t == scene[c].tab IN
    /\ c \in DOMAIN scene /\ pc[c] = "idle"
    /\ \E u \in Subjects(c) : subject' = [subject EXCEPT ![c] = u]
    /\ calm' = [calm EXCEPT ![c] = Settled]
    /\ IF leaderUrl[t] # NoNode THEN Send(c, leaderUrl[t])
       ELSE /\ Goes(c, IF SearchGoesOn(t) THEN "joins" ELSE "resolve")
            /\ UNCHANGED <<tries, at, dest>>
    /\ UNCHANGED <<leaders, scene, users, logs, executed, budget, leaderUrl, cached,
                   found, lost, discovery>>

-----------------------------------------------------------------------------
(* ensureLeader({forceRefresh}).                                           *)
Resolve(c) ==
    /\ pc[c] = "resolve"
    /\ \/ /\ Goes(c, "probe") /\ found' = [found EXCEPT ![c] = discovery]
          /\ UNCHANGED <<budget, calm>>
       \/ /\ Goes(c, "probe") /\ found' = [found EXCEPT ![c] = NoNode]
          /\ Fails("lose") /\ calm' = [calm EXCEPT ![c] = FALSE]
       \/ /\ Goes(c, "unheard") /\ UNCHANGED <<found, calm>>
          /\ Fails("hang")
    /\ UNCHANGED <<leaders, requests, at, users, logs, executed, leaderUrl, cached,
                   tries, lost, discovery>>

Join(c) ==
    LET n == leaderUrl[scene[c].tab] IN
    /\ c \in DOMAIN scene /\ pc[c] = "joins" /\ n # NoNode
    /\ Send(c, n)
    /\ UNCHANGED <<leaders, scene, subject, users, logs, executed, budget, leaderUrl,
                   cached, found, lost, calm, discovery>>

\* The first of some urls that answers /health, else the fallback.
FirstOf(first, second, healthy) ==
    IF first \in healthy THEN first
    ELSE IF second \in healthy THEN second ELSE FallbackNode

\* Mutant of Choice: the cached url first.
ChoiceCached(c, healthy) == FirstOf(cached[scene[c].tab], found[c], healthy)

\* What discovery gave comes first.  A node that does not lead answers too.
Choice(c, healthy) == FirstOf(found[c], cached[scene[c].tab], healthy)

Alive == {n \in Node : up[n]}

\* The url is stored for all calls of the browser, and the request goes there:
\* no other callback runs in between.
Settles(c, n) ==
    /\ leaderUrl' = [leaderUrl EXCEPT ![scene[c].tab] = n]
    /\ cached'    = [cached    EXCEPT ![scene[c].tab] = n]
    /\ Send(c, n)

\* Mutant of Probe: no fallback, the search goes on until somebody is healthy.
ProbeInsists(c) ==
    LET n == Choice(c, Alive) IN
    /\ pc[c] = "probe"
    /\ found' = [found EXCEPT ![c] = NoNode]
    /\ IF up[n] THEN Settles(c, n)
       ELSE Goes(c, "resolve") /\ UNCHANGED <<leaderUrl, cached, tries, at, dest>>
    /\ UNCHANGED <<leaders, scene, subject, users, logs, executed, budget, lost,
                   calm, discovery>>

\* An answer to /health may be lost, or come after 1.2 s.
Probe(c) ==
    /\ pc[c] = "probe"
    /\ found' = [found EXCEPT ![c] = NoNode]
    /\ \/ /\ Settles(c, Choice(c, Alive))
          /\ UNCHANGED <<budget, calm>>
       \/ /\ \E healthy \in SUBSET Alive : Settles(c, Choice(c, healthy))
          /\ Fails("lose") /\ calm' = [calm EXCEPT ![c] = FALSE]
    /\ UNCHANGED <<leaders, scene, subject, users, logs, executed, lost, discovery>>

-----------------------------------------------------------------------------
(* What comes of an attempt.                                               *)
AwayFromLeader == {"unavailable", "busy", "late"}   \* 503, 503, 504

\* Mutants of Again: the stream's second send may fail like its first; nothing
\* marks what has been sent again.
AgainAlways(c, answered)  == tries[c] < MaxTries
AgainForEver(c, answered) == TRUE

\* axios' interceptor marks the request it has retried.  A stream is sent again
\* after a lost connection, and then once more after a 503.
Again(c, answered) ==
    \/ tries[c] = 1
    \/ /\ Streams(c) /\ answered /\ tries[c] = 2
       /\ <<c, 1>> \in lost

Sent(c) == pc[c] = "sent"

\* The connection breaks, an exception's 500 is not shown, or axios' 15 s are over
\* while an /ask waits longer.
NoReply(c) ==
    LET h == Current(c) IN
    /\ Sent(c)
    /\ \/ at[h] \in {"noconn", "raised", "waiting"} /\ UNCHANGED budget
       \/ at[h] \notin {"noconn", "raised"} /\ Fails("lose")
    /\ lost' = lost \cup {h}
    /\ Goes(c, IF Again(c, FALSE) THEN "resolve" ELSE "noconn")
    /\ calm' = [calm EXCEPT ![c] = @ /\ at[h] = "noconn"]
    /\ UNCHANGED <<leaders, requests, at, users, logs, executed, leaderUrl, cached,
                   tries, found, discovery>>

Refused(c) ==
    LET h == Current(c) IN
    /\ Sent(c) /\ at[h] \in AwayFromLeader
    /\ Goes(c, IF Again(c, TRUE) THEN "resolve" ELSE at[h])
    /\ UNCHANGED <<leaders, requests, at, users, logs, executed, budget, leaderUrl,
                   cached, tries, found, lost, calm, discovery>>

Replied(c) ==
    LET h == Current(c) IN
    /\ Sent(c) /\ at[h] \in {"ok", "denied", "conflict", "fault"}
    /\ Goes(c, at[h])
    /\ UNCHANGED <<leaders, requests, at, users, logs, executed, budget, leaderUrl,
                   cached, tries, found, lost, calm, discovery>>

\* The head of a stream; what follows is read to its end, and a connection that
\* breaks then ends the call.
Head(c) ==
    /\ Sent(c) /\ at[Current(c)] = "streaming"
    /\ Goes(c, "reading")
    /\ UNCHANGED <<leaders, requests, at, users, logs, executed, budget, leaderUrl,
                   cached, tries, found, lost, calm, discovery>>

ReadOn(c) ==
    LET h == Current(c) IN
    /\ pc[c] = "reading"
    /\ \/ /\ at[h] \in {"ok", "fault", "noconn"} /\ Goes(c, at[h])
          /\ UNCHANGED <<calm, budget>>
       \/ Fails("lose") /\ Goes(c, "noconn") /\ calm' = [calm EXCEPT ![c] = FALSE]
    /\ UNCHANGED <<leaders, requests, at, users, logs, executed, leaderUrl, cached,
                   tries, found, lost, discovery>>

\* fetch and reader.read() wait for as long as they hear nothing.
FallsSilent(c) ==
    /\ pc[c] \in {"sent", "reading"} /\ Streams(c)
    /\ Goes(c, "hung")
    /\ Fails("hang")
    /\ UNCHANGED <<leaders, requests, at, users, logs, executed, leaderUrl, cached,
                   tries, found, lost, calm, discovery>>

-----------------------------------------------------------------------------
\* DiscoveryClient.publish by a node that serves; or the key of one that does not.
Announce(n) ==
    /\ up[n] /\ discovery # n
    /\ discovery' = n
    /\ IF n \in serving THEN UNCHANGED budget ELSE Fails("stale")
    /\ calm' = [c \in Call |-> FALSE]
    /\ UNCHANGED <<leaders, requests, at, users, logs, executed, browser>>

Ensure(c)  == Resolve(c) \/ Join(c) \/ Probe(c)
Outcome(c) == \/ NoReply(c) \/ Refused(c) \/ Replied(c)
              \/ Head(c) \/ ReadOn(c) \/ FallsSilent(c)

Next ==
    \/ Handlers /\ UNCHANGED <<browser, calm, discovery>>
    \/ Processes /\ calm' = [c \in Call |-> FALSE] /\ UNCHANGED <<browser, discovery>>
    \/ \E n \in Node : Announce(n)
    \/ \E c \in Call : Start(c) \/ Ensure(c) \/ Outcome(c)

ServersGoOn  == (\E h \in Requests : Handler(h)) /\ UNCHANGED <<browser, calm, discovery>>
BrowsersGoOn == \E c \in Call : Ensure(c) \/ Outcome(c)

\* The event loops of the servers and of the browsers go on, and a connection that
\* is not silent for good ends its wait; one that is (FallsSilent, Resolve) leaves
\* its call where no step is enabled.  No handler and no call takes steps for ever,
\* so that it need not be said of each.
Fairness == WF_vars(ServersGoOn) /\ WF_vars(BrowsersGoOn)

Spec == Init /\ [][Next]_vars /\ Fairness

-----------------------------------------------------------------------------
(* Properties.                                                             *)

\* The types of the variables.
TypeOK ==
    /\ up        \in [Node -> BOOLEAN]
    /\ serving   \in SUBSET Node
    /\ scene     \in Scenes
    /\ subject   \in [Call -> User \cup {NoUser}]
    /\ at        \in [Attempt -> Stages]
    /\ dest      \in [Attempt -> Node \cup {NoNode}]
    /\ rows      \in SUBSET User
    /\ ghosts    \in SUBSET User
    /\ userLog   \in SUBSET Attempt
    /\ adminLog  \in SUBSET Attempt
    /\ executed  \in SUBSET Attempt
    /\ together  \in SUBSET SUBSET Attempt
    /\ budget    \in Nat
    /\ leaderUrl \in [Tab -> Node \cup {NoNode}]
    /\ cached    \in [Tab -> Node \cup {NoNode}]
    /\ pc        \in [Call -> Stops \cup Replies]
    /\ tries     \in [Call -> 0..MaxTries]
    /\ found     \in [Call -> Node \cup {NoNode}]
    /\ lost      \in SUBSET Attempt
    /\ calm      \in [Call -> BOOLEAN]
    /\ discovery \in Node

\* Signup promises one account per address (main.py:420) and checks before it
\* inserts: two accounts of one address come only from two signups, of two people
\* or of one whose browser sent it again, that were both in between at one time.
DuplicatesOverlapped ==
    \A u, v \in rows : u # v /\ AddressOf(u) = AddressOf(v) => {u, v} \in together

\* A password is refused only if its account is gone or shares its address: who
\* gets a row of get_user_by_email is left to chance then, but it never comes to
\* that unless signups overlapped.
LockedOutOnlyByRace ==
    \A c \in DOMAIN scene :
        scene[c].op = "login" /\ pc[c] = "denied" =>
            subject[c] \notin rows \/ \E pair \in together : subject[c] \in pair

\* An admin who was told that a user is removed (main.py, admin_delete_user) can
\* rely on it: no role change that was on its way, and no delete or change that
\* is sent again, brings back the account with its address and password.
RemovedStaysOut ==
    \A c \in DOMAIN scene :
        scene[c].op = "delete" /\ pc[c] = "ok" => subject[c] \notin rows

\* The two history tables (database.py, save_request) differ only by prompts
\* whose handler is between its inserts, failed there or died there, and never by
\* one whose answer the user has seen.
HistoriesAgree ==
    /\ adminLog \subseteq userLog /\ userLog \subseteq executed
    /\ \A h \in userLog \ adminLog : at[h] \in {"half", "raised", "noconn"}
    /\ \A c \in DOMAIN scene :
           scene[c].op = "ask" /\ pc[c] = "ok" => Current(c) \in adminLog

\* The attempts of a call that took effect.
Effects(c) == {h \in executed : h[1] = c}

\* One click takes effect twice at the most, although a stream may be sent three
\* times (index.js, sendPromptStream); and only once unless an attempt that took
\* effect was given up without an answer or answered with a 504.
TwiceOnlyInDoubt ==
    \A c \in Call :
        Cardinality(Effects(c)) > 1 =>
            /\ Cardinality(Effects(c)) = 2
            /\ \E h \in Effects(c) : h \in lost \/ at[h] = "late"

\* While the one node that serves is the one discovery names, no connection or
\* probe of a call is lost and no handler of it raises, it does not fail for want
\* of a leader, whatever url its browser had stored and whatever other calls store
\* meanwhile (index.js, ensureLeader).
CalmCallsFindTheLeader ==
    \A c \in Call : calm[c] => pc[c] \notin {"unavailable", "noconn"}

\* For its user, a call is one of UserCall, however often and wherever it is sent:
\* it is answered once, nothing is confirmed or reported as still under way that
\* has not taken effect, and nothing takes effect a third time, also late.
Phase(c) == IF pc[c] \in Stops \ {"idle"} THEN "open" ELSE pc[c]

AsSeen == INSTANCE UserCall
          WITH writes  <- {c \in DOMAIN scene : scene[c].op # "login"},
               told    <- [c \in Call |-> Phase(c)],
               effects <- [c \in Call |-> Cardinality(Effects(c))]

ImplementsUserCall == AsSeen!Spec

\* What a call or a handler may still do, at the most.  Whatever happens only
\* takes from it, and every step of a server or of a browser does: no retry, no
\* search for a leader and no redirect goes round for ever, which is why fairness
\* need not be stated call by call.
StepsOf(c) ==
    4 * (MaxTries - tries[c])
    + CASE pc[c] \in {"idle", "sent"}       -> 3
        [] pc[c] \in {"resolve", "joins", "reading"} -> 2
        [] pc[c] = "probe"                  -> 1
        [] OTHER                            -> 0

StagesOf(h) ==
    CASE at[h] = "none"                            -> 4
      [] at[h] = "sent"                            -> 3
      [] at[h] \in {"admitted", "waiting"}         -> 2
      [] at[h] \in {"checked", "half", "streaming"} -> 1
      [] OTHER                                     -> 0

NothingGoesRound ==
    [][/\ \A c \in Call    : StepsOf(c)' <= StepsOf(c)
       /\ \A h \in Attempt : StagesOf(h)' <= StagesOf(h)
       /\ ServersGoOn  => \E h \in Attempt : StagesOf(h)' < StagesOf(h)
       /\ BrowsersGoOn => \E c \in Call    : StepsOf(c)' < StepsOf(c)]_vars

\* A call that hears nothing and has nothing that gives it up: neither its look-up
\* in discovery, or the one it shares, nor its stream is bounded in time.
Silent(c) ==
    \/ pc[c] \in {"unheard", "hung"}
    \/ /\ pc[c] = "joins"
       /\ \E d \in DOMAIN scene : scene[d].tab = scene[c].tab /\ pc[d] = "unheard"

\* Every call ends, with all nodes down as well, but for the waits that nothing in
\* the client or in the server bounds: a stream whose prompt no worker answers, and
\* a silent connection of a stream or of a look-up in discovery.
CallsEnd ==
    \A c \in Call :
        pc[c] # "idle" ~> \/ pc[c] \in Replies
                          \/ pc[c] = "reading" /\ at[Current(c)] = "streaming"
                          \/ Silent(c)
=============================================================================
