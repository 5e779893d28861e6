---------------------------- MODULE AtLeastOnce ----------------------------
(***************************************************************************)
(* What a tasks-* topic and its workers promise the leader that publishes  *)
(* to it, without workers, consumer groups, batches or rebalances: a task  *)
(* is accepted, it is answered or given up on any number of times, and it  *)
(* is only forgotten once one of the two has happened to it and to every   *)
(* task before it.  A task that is forgotten stays so.                     *)
(***************************************************************************)
EXTENDS Naturals

VARIABLES accepted,   \* number of tasks taken in, numbered from 0
          answered,   \* tasks with an answer or an error on its way back
          abandoned,  \* tasks a worker left without knowing of one
          forgotten   \* the tasks below it are never handed out again

outcomes == <<answered, abandoned>>

Accept ==
    /\ accepted' = accepted + 1
    /\ UNCHANGED <<outcomes, forgotten>>

\* More than once: a worker that lost its task still answers it, also after
\* another worker has, and one whose answer seemed to fail sends an error too.
Answer(task) ==
    /\ task < accepted
    /\ answered' = answered \cup {task}
    /\ UNCHANGED <<accepted, abandoned, forgotten>>

\* Its last attempt to answer may have come through unnoticed.
GiveUp(task) ==
    /\ task < accepted
    /\ abandoned' = abandoned \cup {task}
    /\ answered' \in {answered, answered \cup {task}}
    /\ UNCHANGED <<accepted, forgotten>>

Forget(upto) ==
    /\ forgotten < upto /\ upto <= accepted
    /\ \A task \in forgotten..(upto - 1) : task \in answered \cup abandoned
    /\ forgotten' = upto
    /\ UNCHANGED <<accepted, outcomes>>

Init ==
    /\ accepted = 0
    /\ answered = {} /\ abandoned = {}
    /\ forgotten = 0

Next ==
    \/ Accept
    \/ \E task \in 0..accepted : Answer(task) \/ GiveUp(task) \/ Forget(task)

Spec == Init /\ [][Next]_<<accepted, answered, abandoned, forgotten>>
=============================================================================
