------------------------------ MODULE Accounts ------------------------------
(***************************************************************************)
(* The user-facing handlers of main.py over the tables of database.py, on  *)
(* every leader-eligible node.  The nodes share one database, and only     *)
(* require_leader keeps a node that does not lead from writing to it: it   *)
(* looks once, when a request arrives.  A handler is cut at its awaits.    *)
(*                                                                         *)
(* A request is an attempt <<c, k>>: the k-th time the web client sends    *)
(* the call c (module WebClient).  What a task goes through on its way to  *)
(* a result is ResultRouting's business: here it has one or has not.       *)
(***************************************************************************)
EXTENDS Naturals, FiniteSets

CONSTANTS Node,
          NoNode,
          Call,         \* what users ask for, each click a call of its own
          Founder,      \* an account that exists from the start
          NoUser,
          Address,
          FounderAddress,
          Tab,          \* the browsers
          Scenes,       \* the calls of one behaviour; each may occur once
          Faults,       \* the kinds of fault that happen
          FaultBudget   \* bound on how many of them do, for each scene

Operation == {"signup", "login", "role", "delete", "ask", "stream"}
Fault     == {"crash", "move", "lose", "hang", "db", "send", "busy", "worker",
              "stale"}
MaxTries  == 3
Click     == [op : Operation, address : Address, tab : Tab]
Attempt   == Call \X (1..MaxTries)
User      == Attempt \cup {Founder}   \* the user_id: who inserted the row

ASSUME AccountsAssumption ==
    /\ NoNode \notin Node
    /\ Founder \notin Attempt /\ Founder \notin Call
    /\ NoUser \notin User
    /\ FounderAddress \in Address
    /\ \A s \in Scenes :
          /\ DOMAIN s \subseteq Call
          /\ \A c \in DOMAIN s : s[c] \in Click
    /\ Faults \subseteq Fault
    /\ FaultBudget \in [Scenes -> Nat]

VARIABLES up,        \* is the leader process running
          serving,   \* the nodes that require_leader lets answer
          scene,     \* what the calls of this behaviour are
          subject,   \* the user a call is about, as its screen showed it
          at,        \* where the handler of each attempt is, or what it replied
          dest,      \* the node it was sent to
          rows,      \* users: the complete rows
          ghosts,    \* users: rows that hold a role and nothing else
          userLog,   \* requests
          adminLog,  \* cluster_requests_by_month
          executed,  \* attempts that took effect, for the properties
          together,  \* pairs of signups between check and insert at one time
          budget     \* faults left

leaders  == <<up, serving>>
requests == <<scene, subject, dest>>
users    == <<rows, ghosts, together>>
logs     == <<userLog, adminLog>>

Replies == {"ok", "denied", "conflict", "fault", "busy", "unavailable", "late",
            "noconn"}
Running == {"sent", "admitted", "checked", "waiting", "half", "streaming"}

\* "raised" is an exception nobody catches.  The 500 it makes is built outside of
\* the CORS middleware, and a browser shows it to no script.
Stages  == {"none"} \cup Running \cup Replies \cup {"raised"}

Op(h) == scene[h[1]].op

AddressOf(u) == IF u = Founder THEN FounderAddress ELSE scene[u[1]].address

\* Whose password the row holds: all attempts of a signup have the same.
Owner(u) == IF u = Founder THEN Founder ELSE u[1]

\* get_user_by_email and get_all_users.
Rows(address) == {u \in rows : AddressOf(u) = address}
Listed        == rows \cup ghosts

Fails(kind) ==
    /\ kind \in Faults
    /\ budget > 0
    /\ budget' = budget - 1

Reaches(h, where) == at' = [at EXCEPT ![h] = where]

Requests == {h \in Attempt : at[h] \in Running}

AccountsInit ==
    /\ up       = [n \in Node |-> TRUE]
    /\ serving \in {{n} : n \in Node}
    /\ scene   \in Scenes
    /\ subject  = [c \in Call |-> NoUser]
    /\ at       = [h \in Attempt |-> "none"]
    /\ dest     = [h \in Attempt |-> NoNode]
    /\ rows     = {Founder}
    /\ ghosts   = {}
    /\ userLog  = {}
    /\ adminLog = {}
    /\ executed = {}
    /\ together = {}
    /\ budget   = FaultBudget[scene]

-----------------------------------------------------------------------------
(* Arrival: nobody listens, or require_leader decides.                     *)
Turned(h) == IF ~up[dest[h]] THEN "noconn"
             ELSE IF dest[h] \in serving THEN "admitted" ELSE "unavailable"

Arrive(h) ==
    /\ at[h] = "sent" /\ Op(h) \notin {"ask", "stream"}
    /\ Reaches(h, Turned(h))
    /\ UNCHANGED <<leaders, requests, users, logs, executed, budget>>

-----------------------------------------------------------------------------
(* Accounts.  A statement that raises may have been applied all the same.  *)

\* get_user_by_email takes any one row of the address.
Login(h) ==
    /\ at[h] = "admitted" /\ Op(h) = "login"
    /\ LET user == subject[h[1]]
           found == Rows(AddressOf(user)) IN
       \/ /\ \E u \in found : Reaches(h, IF Owner(u) = Owner(user) THEN "ok"
                                         ELSE "denied")
          /\ UNCHANGED budget
       \/ found = {} /\ Reaches(h, "denied") /\ UNCHANGED budget
       \/ Reaches(h, "raised") /\ Fails("db")
    /\ UNCHANGED <<leaders, requests, users, logs, executed>>

\* Mutant of SignupCheck: no look at the table.
SignupUnchecked(h) ==
    /\ at[h] = "admitted" /\ Op(h) = "signup"
    /\ Reaches(h, "checked")
    /\ UNCHANGED <<leaders, requests, users, logs, executed, budget>>

SignupCheck(h) ==
    LET Others == {g \in Attempt : at[g] = "checked"
                                   /\ AddressOf(g) = AddressOf(h)} IN
    /\ at[h] = "admitted" /\ Op(h) = "signup"
    /\ \/ /\ Rows(AddressOf(h)) # {}
          /\ Reaches(h, "conflict")
          /\ UNCHANGED <<together, budget>>
       \/ /\ Rows(AddressOf(h)) = {}
          /\ Reaches(h, "checked")
          /\ together' = together \cup {{g, h} : g \in Others}
          /\ UNCHANGED budget
       \/ Reaches(h, "raised") /\ Fails("db") /\ UNCHANGED together
    /\ UNCHANGED <<leaders, requests, rows, ghosts, logs, executed>>

SignupInsert(h) ==
    /\ at[h] = "checked"
    /\ \/ Reaches(h, "ok") /\ UNCHANGED budget
       \/ Reaches(h, "raised") /\ Fails("db")
    /\ \/ rows' = rows \cup {h} /\ executed' = executed \cup {h}
       \/ at'[h] = "raised" /\ UNCHANGED <<rows, executed>>
    /\ UNCHANGED <<leaders, requests, ghosts, together, logs>>

\* update_user_role and delete_user.  An UPDATE inserts what it does not find: a
\* row without name or address.
SetRole(u) == ghosts' = ghosts \cup ({u} \ rows) /\ UNCHANGED rows

DeleteRow(u) == rows' = rows \ {u} /\ ghosts' = ghosts \ {u}

\* Mutant of UpdateRole: the role is written back with the rest of the user.
UpdateRoleSaves(h) ==
    /\ at[h] = "admitted" /\ Op(h) = "role"
    /\ Reaches(h, "ok")
    /\ rows' = rows \cup {subject[h[1]]} /\ executed' = executed \cup {h}
    /\ UNCHANGED <<leaders, requests, ghosts, together, logs, budget>>

UpdateRole(h) ==
    /\ at[h] = "admitted" /\ Op(h) = "role"
    /\ \/ Reaches(h, "ok") /\ UNCHANGED budget
       \/ Reaches(h, "raised") /\ Fails("db")
    /\ \/ SetRole(subject[h[1]]) /\ executed' = executed \cup {h}
       \/ at'[h] = "raised" /\ UNCHANGED <<rows, ghosts, executed>>
    /\ UNCHANGED <<leaders, requests, together, logs>>

\* Mutant of DeleteUser: an exception of the statement is swallowed.
DeleteUserMaybe(h) ==
    /\ at[h] = "admitted" /\ Op(h) = "delete"
    /\ Reaches(h, "ok")
    /\ \/ DeleteRow(subject[h[1]]) /\ executed' = executed \cup {h} /\ UNCHANGED budget
       \/ UNCHANGED <<rows, ghosts, executed>> /\ Fails("db")
    /\ UNCHANGED <<leaders, requests, together, logs>>

DeleteUser(h) ==
    /\ at[h] = "admitted" /\ Op(h) = "delete"
    /\ \/ Reaches(h, "ok") /\ UNCHANGED budget
       \/ Reaches(h, "raised") /\ Fails("db")
    /\ \/ DeleteRow(subject[h[1]]) /\ executed' = executed \cup {h}
       \/ at'[h] = "raised" /\ UNCHANGED <<rows, ghosts, executed>>
    /\ UNCHANGED <<leaders, requests, together, logs>>

-----------------------------------------------------------------------------
(* Prompts.                                                                *)

\* Arrival and TaskProducer.publish, with nothing of interest in between;
\* NoEligibleWorker is another kind of 503.  Nothing else that it raises is
\* caught, be it before the task is sent or, from flush, after.
Publish(h) ==
    /\ at[h] = "sent" /\ Op(h) \in {"ask", "stream"}
    /\ \/ /\ Turned(h) # "admitted" /\ Reaches(h, Turned(h))
          /\ UNCHANGED <<executed, budget>>
       \/ /\ Turned(h) = "admitted"
          /\ Reaches(h, IF Op(h) = "ask" THEN "waiting" ELSE "streaming")
          /\ executed' = executed \cup {h}
          /\ UNCHANGED budget
       \/ /\ Turned(h) = "admitted" /\ Fails("busy")
          /\ Reaches(h, "busy")
          /\ UNCHANGED executed
       \/ /\ Turned(h) = "admitted" /\ Fails("send")
          /\ Reaches(h, "raised")
          /\ executed' \in {executed, executed \cup {h}}
    /\ UNCHANGED <<leaders, requests, users, logs>>

\* TASK_TIMEOUT.
AskTimeout(h) ==
    /\ at[h] = "waiting"
    /\ Reaches(h, "late")
    /\ UNCHANGED <<leaders, requests, users, logs, executed, budget>>

\* The worker reports an error.
AskError(h) ==
    /\ at[h] = "waiting" /\ Fails("worker")
    /\ Reaches(h, "fault")
    /\ UNCHANGED <<leaders, requests, users, logs, executed>>

\* The first insert of save_request, as soon as the result is there.
AskAnswered(h) ==
    /\ at[h] = "waiting"
    /\ \/ Reaches(h, "half") /\ UNCHANGED budget
       \/ Reaches(h, "raised") /\ Fails("db")
    /\ \/ userLog' = userLog \cup {h}
       \/ at'[h] = "raised" /\ UNCHANGED userLog
    /\ UNCHANGED <<leaders, requests, users, adminLog, executed>>

\* Mutant of SaveForAdmin: an exception of the second insert is swallowed.
SaveForAdminMaybe(h) ==
    /\ at[h] = "half"
    /\ Reaches(h, "ok")
    /\ \/ adminLog' = adminLog \cup {h} /\ UNCHANGED budget
       \/ UNCHANGED adminLog /\ Fails("db")
    /\ UNCHANGED <<leaders, requests, users, userLog, executed>>

SaveForAdmin(h) ==
    /\ at[h] = "half"
    /\ \/ Reaches(h, "ok") /\ UNCHANGED budget
       \/ Reaches(h, "raised") /\ Fails("db")
    /\ \/ adminLog' = adminLog \cup {h}
       \/ at'[h] = "raised" /\ UNCHANGED adminLog
    /\ UNCHANGED <<leaders, requests, users, userLog, executed>>

\* The generator of /ask/stream ends with a result or an error, and waits for
\* as long as there is neither.  It saves nothing.
StreamAnswered(h) ==
    /\ at[h] = "streaming"
    /\ \/ Reaches(h, "ok") /\ UNCHANGED budget
       \/ Reaches(h, "fault") /\ Fails("worker")
    /\ UNCHANGED <<leaders, requests, users, logs, executed>>

-----------------------------------------------------------------------------
(* The nodes.  A demotion stops no handler, a crash stops them all.        *)
Crash(n) ==
    /\ up[n] /\ Fails("crash")
    /\ up'      = [up EXCEPT ![n] = FALSE]
    /\ serving' = serving \ {n}
    /\ at'      = [h \in Attempt |->
                     IF h \in Requests /\ dest[h] = n THEN "noconn" ELSE at[h]]
    /\ UNCHANGED <<requests, users, logs, executed>>

Restart(n) ==
    /\ ~up[n]
    /\ up' = [up EXCEPT ![n] = TRUE]
    /\ UNCHANGED <<serving, requests, at, users, logs, executed, budget>>

\* Somebody wins when nobody serves; a second leader, or none, is a disturbance.
Win(n) ==
    /\ up[n] /\ n \notin serving
    /\ serving' = serving \cup {n}
    /\ IF serving = {} THEN UNCHANGED budget ELSE Fails("move")
    /\ UNCHANGED <<up, requests, at, users, logs, executed>>

StepDown(n) ==
    /\ n \in serving
    /\ serving' = serving \ {n}
    /\ IF serving # {n} THEN UNCHANGED budget ELSE Fails("move")
    /\ UNCHANGED <<up, requests, at, users, logs, executed>>

-----------------------------------------------------------------------------
\* A stream need not ever be answered, and an /ask either way.
Handler(h) ==
    \/ Arrive(h) \/ Login(h) \/ SignupCheck(h) \/ SignupInsert(h)
    \/ UpdateRole(h) \/ DeleteUser(h)
    \/ Publish(h) \/ AskTimeout(h) \/ SaveForAdmin(h)

Answer(h) == AskError(h) \/ AskAnswered(h) \/ StreamAnswered(h)

Handlers  == \E h \in Requests : Handler(h) \/ Answer(h)
Processes == \E n \in Node : Crash(n) \/ Restart(n) \/ Win(n) \/ StepDown(n)
=============================================================================
