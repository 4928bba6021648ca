----------------------------- MODULE TargetOrder -----------------------------
(***************************************************************************)
(* The order of a release's targets: the dependency check when a release   *)
(* is verified (topoTargets in internal/ota/verify.go) and the order of    *)
(* all the targets that orderedTargets (payload.go) computes, one after    *)
(* the other over the same counts of unmet dependencies.                   *)
(* applySidePayloads follows this order, but passes over an os.rauc target *)
(* (payload.go:67), which the engine installs after all side payloads: the *)
(* order says nothing of when the system image comes.                      *)
(*                                                                         *)
(* DependsOn is any list: it may name a target twice, the target itself,   *)
(* or one the release does not have.  The check collects its first targets *)
(* in the order of a Go map, which is any order.  orderedTargets repeats   *)
(* the check before it sorts; it is the same walk and is taken once.       *)
(***************************************************************************)
EXTENDS Naturals, Sequences, FiniteSets, SequencesExt

CONSTANTS
    TargetSeq,   \* the target ids, in the order of the release
    Unknown,     \* an id no target has
    MaxDepends   \* bound on the length of a DependsOn list

Ids == {TargetSeq[i] : i \in DOMAIN TargetSeq}

ASSUME TargetsAssumption ==
    /\ TargetSeq \in Seq(Ids)
    /\ Unknown \notin Ids
    /\ Cardinality(Ids) = Len(TargetSeq)   \* VerifyEnvelope refuses an id used twice
    /\ MaxDepends \in Nat

VARIABLES
    dependsOn,   \* Target.DependsOn
    pc,          \* the part that runs, or how it ended
    incoming,    \* unmet dependencies of each target
    ready,       \* the queue of topoTargets
    seen,        \* how many targets topoTargets has taken from it
    left,        \* the targets orderedTargets has not placed; it keeps the release's order
    out          \* the order it returns

vars == <<dependsOn, pc, incoming, ready, seen, left, out>>

\* What a release may give as the DependsOn lists of its targets.
Dependencies == [Ids -> BoundedSeq(Ids \cup {Unknown}, MaxDepends)]

Ends == {"missing", "cycle", "stuck", "ordered"}

TypeOK ==
    /\ dependsOn \in Dependencies
    /\ pc \in {"count", "walk", "sort"} \cup Ends
    /\ incoming \in [Ids -> 0..MaxDepends]
    /\ ready \in Seq(Ids) /\ left \subseteq Ids /\ out \in Seq(Ids)
    /\ seen \in 0..Len(TargetSeq)

Init ==
    /\ dependsOn \in Dependencies
    /\ pc = "count"
    /\ incoming = [t \in Ids |-> 0]
    /\ ready = <<>> /\ seen = 0
    /\ left = {} /\ out = <<>>

-----------------------------------------------------------------------------
\* How often t names id.
Names(t, id) == Cardinality({i \in DOMAIN dependsOn[t] : dependsOn[t][i] = id})

Unmet == [t \in Ids |-> Len(dependsOn[t])]

Position(t) == CHOOSE i \in DOMAIN TargetSeq : TargetSeq[i] = t

\* What a loop over the targets appends when it keeps those in S: one sequence.
InReleaseOrder(S) ==
    {s \in SetToSeqs(S) :
        \A i, j \in DOMAIN s : i < j => Position(s[i]) < Position(s[j])}

\* Dependencies are counted, and the targets without any are collected.
CountIncoming ==
    /\ pc = "count"
    /\ IF \E t \in Ids : Names(t, Unknown) > 0
       THEN pc' = "missing" /\ UNCHANGED <<incoming, ready>>
       ELSE /\ pc' = "walk"
            /\ incoming' = Unmet
            /\ ready' \in SetToSeqs({t \in Ids : Unmet[t] = 0})
    /\ UNCHANGED <<dependsOn, seen, left, out>>

\* Seeded fault: a dependency counts once, however often it is named.
WalkOnce ==
    /\ pc = "walk" /\ ready # <<>>
    /\ LET id == Head(ready)
           met == [t \in Ids |-> IF Names(t, id) > 0 THEN incoming[t] - 1 ELSE incoming[t]]
       IN  /\ incoming' = met
           /\ \E more \in InReleaseOrder({t \in Ids : Names(t, id) > 0 /\ met[t] = 0}) :
                  ready' = Tail(ready) \o more
    /\ seen' = seen + 1
    /\ UNCHANGED <<dependsOn, pc, left, out>>

\* Seeded fault: every target without unmet dependencies is queued again.
WalkAgain ==
    /\ pc = "walk" /\ ready # <<>>
    /\ LET id == Head(ready)
           met == [t \in Ids |-> incoming[t] - Names(t, id)]
       IN  /\ incoming' = met
           /\ \E more \in InReleaseOrder({t \in Ids : t # id /\ met[t] = 0}) :
                  ready' = Tail(ready) \o more
    /\ seen' = seen + 1
    /\ UNCHANGED <<dependsOn, pc, left, out>>

\* A target is taken from the queue; those that waited for it last follow.
Walk ==
    /\ pc = "walk" /\ ready # <<>>
    /\ LET id == Head(ready)
           met == [t \in Ids |-> incoming[t] - Names(t, id)]
       IN  /\ incoming' = met
           /\ \E more \in InReleaseOrder({t \in Ids : Names(t, id) > 0 /\ met[t] = 0}) :
                  ready' = Tail(ready) \o more
    /\ seen' = seen + 1
    /\ UNCHANGED <<dependsOn, pc, left, out>>

\* The release is refused unless every target was seen; orderedTargets starts over.
WalkEnd ==
    /\ pc = "walk" /\ ready = <<>>
    /\ IF seen = Len(TargetSeq)
       THEN pc' = "sort" /\ incoming' = Unmet /\ left' = Ids
       ELSE pc' = "cycle" /\ UNCHANGED <<incoming, left>>
    /\ UNCHANGED <<dependsOn, ready, seen, out>>

Placed == {t \in left : incoming[t] = 0}

\* Seeded fault: dependencies on the batch stay open, and an empty batch is not an end.
BatchWaits ==
    /\ pc = "sort" /\ Len(out) < Len(TargetSeq)
    /\ \E batch \in InReleaseOrder(Placed) : out' = out \o batch
    /\ left' = left \ Placed
    /\ UNCHANGED <<dependsOn, pc, ready, seen, incoming>>

\* Seeded fault: the targets that remain are placed in the order of the release.
BatchOfRest ==
    /\ pc = "sort" /\ Len(out) < Len(TargetSeq)
    /\ \E batch \in InReleaseOrder(left) : out' = out \o batch
    /\ left' = {}
    /\ UNCHANGED <<dependsOn, pc, ready, seen, incoming>>

\* One batch: the targets without unmet dependencies, in the order of the release.
Batch ==
    /\ pc = "sort" /\ Len(out) < Len(TargetSeq)
    /\ pc' = IF Placed = {} THEN "stuck" ELSE pc
    /\ \E batch \in InReleaseOrder(Placed) : out' = out \o batch
    /\ left' = left \ Placed
    /\ incoming' = [t \in Ids |->
           IF t \in left \ Placed
           THEN incoming[t] - Cardinality({i \in DOMAIN dependsOn[t] : dependsOn[t][i] \in Placed})
           ELSE incoming[t]]
    /\ UNCHANGED <<dependsOn, ready, seen>>

SortEnd ==
    /\ pc = "sort" /\ Len(out) = Len(TargetSeq)
    /\ pc' = "ordered"
    /\ UNCHANGED <<dependsOn, incoming, ready, seen, left, out>>

Next == CountIncoming \/ Walk \/ WalkEnd \/ Batch \/ SortEnd

\* Both functions run to their end.
Spec == Init /\ [][Next]_vars /\ WF_vars(Next)

-----------------------------------------------------------------------------
Complete == \A t \in Ids : Unknown \notin ToSet(dependsOn[t])

\* The targets can be put in some order in which dependencies come first.
Orderable ==
    \E rank \in [Ids -> 1..Len(TargetSeq)] :
        \A t \in Ids : \A d \in ToSet(dependsOn[t]) : rank[d] < rank[t]

\* A release passes the check exactly if it has all the targets it names and they
\* can be ordered, in whatever order the map gives the first ones and however often
\* a dependency is named; and a release that passed never stops orderedTargets.
VerdictIsRight ==
    /\ pc = "missing" => ~Complete
    /\ pc = "cycle" => Complete /\ ~Orderable
    /\ pc \in {"sort", "ordered"} => Complete /\ Orderable
    /\ pc # "stuck"

\* orderedTargets places every target once, and none before a target it depends on,
\* after each batch as well as at its end.  Side payloads are applied in this order;
\* one that depends on the os.rauc target of its release is placed after it and still
\* applied before the image is installed.
DependenciesFirst ==
    /\ \A i, j \in DOMAIN out : out[i] = out[j] => i = j
    /\ \A i \in DOMAIN out : \A d \in ToSet(dependsOn[out[i]]) :
          \E j \in 1..(i - 1) : out[j] = d
    /\ pc = "ordered" => ToSet(out) = Ids

\* Neither loop goes on for ever, on a cycle least of all.
EndsReached == <>(pc \in Ends)
=============================================================================
