------------------------------ MODULE Dispatch ------------------------------
(***************************************************************************)
(* The registry of workers that each leader process keeps (registry.py)    *)
(* and the choice of a topic for a task (TaskProducer.publish), as         *)
(* operators on one registry.                                              *)
(*                                                                         *)
(* The age of an entry is counted in sweeps of check_timeouts since the    *)
(* last word of the worker: sweeps are 5 s apart, so that the k-th sweep   *)
(* after it finds an age of more than 5(k - 1) and at most 5k seconds.     *)
(* "idle" and "busy" are one status here: no decision tells them apart.    *)
(***************************************************************************)
EXTENDS Naturals, Sequences

CONSTANTS Worker,
          Skill,
          NoSkill,      \* the task asks for no skill
          RamGb,        \* what each worker registers, and subscribes by
          Skills,
          SweepLimit    \* HEARTBEAT_TIMEOUT_S / 5: sweeps that find it in time

ASSUME DispatchAssumption ==
    /\ NoSkill \notin Skill
    /\ RamGb  \in [Worker -> Nat]
    /\ Skills \in [Worker -> SUBSET Skill]
    /\ SweepLimit \in Nat

TIER_ORDER == <<"high-ram", "low-ram", "general">>

TIER_RAM_GB == [tier \in {"high-ram", "low-ram", "general"} |->
                  CASE tier = "high-ram" -> 16
                    [] tier = "low-ram"  -> 8
                    [] tier = "general"  -> 0]

Tier   == DOMAIN TIER_RAM_GB
NoTier == "none"

\* _topics_for_ram, by which a worker subscribes.
Topics(w) == {tier \in Tier : RamGb[w] >= TIER_RAM_GB[tier]}

-----------------------------------------------------------------------------
(* The registry: one entry per worker that registered with this process.   *)
Status     == {"absent", "online", "offline"}
NodeInfo   == [status : Status, sweeps : 0..SweepLimit]
Unknown    == [status |-> "absent", sweeps |-> 0]
Fresh      == [status |-> "online", sweeps |-> 0]
NoRegistry == [w \in Worker |-> Unknown]

IsKnown(reg, w) == reg[w].status # "absent"

Register(reg, w) == [reg EXCEPT ![w] = Fresh]

\* A heartbeat of a worker this process does not know changes nothing; one of a
\* worker marked offline brings it back.
Heartbeat(reg, w) == IF IsKnown(reg, w) THEN [reg EXCEPT ![w] = Fresh] ELSE reg

\* Mutant of CheckTimeouts: a sweep that marks whoever it finds in time.
CheckTimeoutsNever(reg) ==
    [w \in Worker |->
       IF reg[w].status = "online" /\ reg[w].sweeps < SweepLimit
       THEN [reg[w] EXCEPT !.sweeps = @ + 1] ELSE reg[w]]

CheckTimeouts(reg) ==
    [w \in Worker |->
       IF reg[w].status # "online" THEN reg[w]
       ELSE IF reg[w].sweeps < SweepLimit THEN [reg[w] EXCEPT !.sweeps = @ + 1]
       ELSE [status |-> "offline", sweeps |-> 0]]

\* Mutant of Eligible: the status is not looked at.
EligibleEvenOffline(reg, ram, skill) ==
    {w \in Worker : /\ IsKnown(reg, w)
                    /\ RamGb[w] >= ram
                    /\ skill = NoSkill \/ skill \in Skills[w]}

Eligible(reg, ram, skill) ==
    {w \in Worker : /\ reg[w].status = "online"
                    /\ RamGb[w] >= ram
                    /\ skill = NoSkill \/ skill \in Skills[w]}

-----------------------------------------------------------------------------
(* TaskProducer.publish.  The caller has resolved the requested tier (an   *)
(* override or the length of the prompt) and, for a task that names none,  *)
(* a skill by keywords: both are inputs.  Nothing suspends between the     *)
(* lookups of a walk, as the registry's lock is never held over an await.  *)
IndexOf(tier) == CHOOSE i \in 1..Len(TIER_ORDER) : TIER_ORDER[i] = tier

Candidates(reg, requested, skill) ==
    {i \in IndexOf(requested)..Len(TIER_ORDER) :
        Eligible(reg, TIER_RAM_GB[TIER_ORDER[i]], skill) # {}}

\* The first tier, from the requested one downwards, with an eligible worker.
Walk(reg, requested, skill) ==
    LET found == Candidates(reg, requested, skill) IN
    IF found = {} THEN NoTier
    ELSE TIER_ORDER[CHOOSE i \in found : \A j \in found : i <= j]

Dispatched(reg, requested, skill, strict) ==
    LET hit == Walk(reg, requested, skill) IN
    IF hit # NoTier \/ strict \/ skill = NoSkill
    THEN [tier |-> hit, skill |-> skill]
    ELSE [tier |-> Walk(reg, requested, NoSkill), skill |-> NoSkill]
=============================================================================
