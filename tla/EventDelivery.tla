--------------------------- MODULE EventDelivery ---------------------------
(***************************************************************************)
(* What event reporting promises (docs/FLEET.md): the agent numbers its    *)
(* events one after the other, the controller may receive any of them at   *)
(* any time and more than once, and the agent lets go of an event on its   *)
(* own only when the controller has received it and every event before it. *)
(* An operator may make it let go of more (docs/LAB.md, otactl ack); what  *)
(* comes after an event that was dropped before the controller had it then *)
(* stays with the agent (docs/PRODUCTION.md: a gap freezes the outbox).    *)
(***************************************************************************)
EXTENDS Naturals, Sequences

CONSTANT Kinds      \* what an event may say

VARIABLES log,      \* the events recorded so far, in order
          held,     \* the numbers of the events the controller has received
          released, \* the agent has let go of the first so many events
          waived    \* the highest number the operator made it let go of

vars == <<log, held, released, waived>>

Init == log = <<>> /\ held = {} /\ released = 0 /\ waived = 0

Record(k) == log' = Append(log, k) /\ UNCHANGED <<held, released, waived>>

Receive ==
    /\ held' \subseteq 1..Len(log)
    /\ held \subseteq held'
    /\ UNCHANGED <<log, released, waived>>

LetGo ==
    /\ released' \in released..Len(log)
    /\ 1..released' \subseteq held
    /\ UNCHANGED <<log, held, waived>>

Waive(n) ==
    /\ released' = IF n > released THEN n ELSE released
    /\ waived' = IF n > waived THEN n ELSE waived
    /\ UNCHANGED <<log, held>>

Next ==
    \/ \E k \in Kinds : Record(k)
    \/ Receive
    \/ LetGo
    \/ \E n \in 1..Len(log) : Waive(n)

Spec == Init /\ [][Next]_vars
=============================================================================
