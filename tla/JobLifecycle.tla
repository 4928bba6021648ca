---------------------------- MODULE JobLifecycle ----------------------------
(***************************************************************************)
(* What the engine promises about the durable record of a job              *)
(* (docs/ARCHITECTURE.md, "State machine"): one job at a time, release     *)
(* sequences that only grow, the state machine, and at most one            *)
(* installation per release, requested only while Installing is on record. *)
(* There are no crashes here: a crash of the engine is no step at all.     *)
(***************************************************************************)
EXTENDS Naturals

CONSTANT JobIDs

VARIABLES stage,    \* the state of each job, "absent" before and after its time
          sequence, \* the release sequence of each job
          high,     \* the highest release sequence accepted so far
          written   \* the sequences whose installation has been requested

vars == <<stage, sequence, high, written>>

Done == {"committed", "rolled_back", "failed"}

\* The states that may follow each state.
Edges ==
    [accepted         |-> {"downloading", "failed"},
     downloading      |-> {"verified", "failed"},
     verified         |-> {"installing", "committed", "failed"},
     installing       |-> {"awaiting_reboot", "needs_recovery"},
     awaiting_reboot  |-> {"checking_health", "rolled_back", "needs_recovery"},
     checking_health  |-> {"committing", "rollback_pending", "rolled_back",
                           "needs_recovery"},
     committing       |-> {"committed", "checking_health", "rolled_back",
                           "needs_recovery"},
     rollback_pending |-> {"rolled_back", "needs_recovery"},
     needs_recovery   |-> {"failed"}]

Init ==
    /\ stage = [id \in JobIDs |-> "absent"]
    /\ sequence = [id \in JobIDs |-> 0]
    /\ high = 0
    /\ written = {}

\* A new job with a new sequence.  Records of finished jobs may be retired.
Accept(id, n) ==
    /\ \A other \in JobIDs : stage[other] \in Done \cup {"absent"}
    /\ n > high
    /\ high' = n
    /\ stage' \in [JobIDs -> Done \cup {"absent", "accepted"}]
    /\ stage'[id] = "accepted"
    /\ \A other \in JobIDs \ {id} : stage'[other] \in {stage[other], "absent"}
    /\ sequence' = [other \in JobIDs |-> IF other = id THEN n
                                         ELSE IF stage'[other] = "absent" THEN 0
                                         ELSE sequence[other]]
    /\ UNCHANGED written

Move(id) ==
    /\ stage[id] \in DOMAIN Edges
    /\ \E next \in Edges[stage[id]] : stage' = [stage EXCEPT ![id] = next]
    /\ UNCHANGED <<sequence, high, written>>

Install(id) ==
    /\ stage[id] = "installing"
    /\ sequence[id] \notin written
    /\ written' = written \cup {sequence[id]}
    /\ UNCHANGED <<stage, sequence, high>>

Next ==
    \E id \in JobIDs : Move(id) \/ Install(id) \/ Accept(id, sequence'[id])

Spec == Init /\ [][Next]_vars
=============================================================================
