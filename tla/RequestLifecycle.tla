-------------------------- MODULE RequestLifecycle --------------------------
(***************************************************************************)
(* What POST /ask and POST /ask/stream promise the client of one request,  *)
(* without threads, queues or events: a request is opened, and closed once *)
(* with one outcome; an answer or an error of a worker is only ever handed *)
(* on if a worker produced it for this very request.                       *)
(***************************************************************************)
CONSTANTS Request

Kind == {"ok", "error"}

\* How a request can end without a worker's result: no eligible worker (503),
\* TASK_TIMEOUT (504), an exception in the handler (500), the client went away.
Unanswered == {"refused", "timeout", "failed", "gone"}

VARIABLES phase,     \* "idle", "open", or how the request ended
          produced   \* the results workers have published

Open(r) ==
    /\ phase[r] = "idle"
    /\ phase' = [phase EXCEPT ![r] = "open"]
    /\ UNCHANGED produced

\* A worker publishes a result, whether or not anybody still waits for it.
Produce(r, kind) ==
    /\ produced' = produced \cup {<<r, kind>>}
    /\ UNCHANGED phase

\* The client gets the response, or the error, that a worker published.
Deliver(r, kind) ==
    /\ phase[r] = "open"
    /\ <<r, kind>> \in produced
    /\ phase' = [phase EXCEPT ![r] = kind]
    /\ UNCHANGED produced

Abandon(r, outcome) ==
    /\ phase[r] = "open"
    /\ outcome \in Unanswered
    /\ phase' = [phase EXCEPT ![r] = outcome]
    /\ UNCHANGED produced

Init ==
    /\ phase = [r \in Request |-> "idle"]
    /\ produced = {}

Next ==
    \E r \in Request :
        \/ Open(r)
        \/ \E kind \in Kind : Produce(r, kind) \/ Deliver(r, kind)
        \/ \E outcome \in Unanswered : Abandon(r, outcome)

Spec == Init /\ [][Next]_<<phase, produced>>
=============================================================================
