----------------------------- MODULE UserCall ------------------------------
(***************************************************************************)
(* What one click comes to for the user who made it, without nodes,        *)
(* leaders, connections or attempts: it takes effect, perhaps twice and    *)
(* perhaps after its answer, and it is answered once.  An answer that says *)
(* that something was done is only given when something was done.          *)
(***************************************************************************)
EXTENDS Naturals

CONSTANTS Call

Failures == {"denied", "conflict", "fault", "busy", "unavailable", "late", "noconn"}

VARIABLES writes,   \* the calls that change something
          told,     \* "idle", "open", or the answer
          effects   \* how often each call took effect

Click(c) ==
    /\ told[c] = "idle"
    /\ told' = [told EXCEPT ![c] = "open"]
    /\ UNCHANGED <<writes, effects>>

TakeEffect(c) ==
    /\ c \in writes /\ told[c] # "idle"
    /\ effects[c] < 2
    /\ effects' = [effects EXCEPT ![c] = @ + 1]
    /\ UNCHANGED <<writes, told>>

Confirm(c) ==
    /\ told[c] = "open"
    /\ c \in writes => effects[c] > 0
    /\ told' = [told EXCEPT ![c] = "ok"]
    /\ UNCHANGED <<writes, effects>>

\* Nobody is denied what would have changed something; a 504 is not an empty
\* promise: the prompt was queued for the workers.
Fail(c, why) ==
    /\ told[c] = "open"
    /\ why = "denied" => c \notin writes
    /\ why = "late" => effects[c] > 0
    /\ told' = [told EXCEPT ![c] = why]
    /\ UNCHANGED <<writes, effects>>

Init ==
    /\ writes \subseteq Call
    /\ told = [c \in Call |-> "idle"]
    /\ effects = [c \in Call |-> 0]

Next ==
    \E c \in Call :
        \/ Click(c) \/ TakeEffect(c) \/ Confirm(c)
        \/ \E why \in Failures : Fail(c, why)

Spec == Init /\ [][Next]_<<writes, told, effects>>
=============================================================================
