-------------------------- MODULE TargetOrderProofs --------------------------
(***************************************************************************)
(* The order of a release's targets is right for any number of targets and *)
(* any dependency lists.                                                   *)
(*                                                                         *)
(* Both loops count: the count of a target is the number of places in its  *)
(* DependsOn list that name a target not yet taken (placed).  From that    *)
(* and from the uniqueness of what is queued it follows that the number of *)
(* targets seen is the size of the set taken, that a rank grows with it,   *)
(* and that targets which are left over all wait for one another: the one  *)
(* of least rank could not.                                                *)
(***************************************************************************)
EXTENDS TargetOrder, FiniteSetTheorems, TLAPS

\* The places of a DependsOn list that name a target outside P.
Open(d, P) == {i \in DOMAIN d : d[i] \notin P}

\* The places that name a target in Q.
Naming(d, Q) == {i \in DOMAIN d : d[i] \in Q}

Distinct(s) == \A i, j \in DOMAIN s : s[i] = s[j] => i = j

-----------------------------------------------------------------------------
\* Facts about the operators

\* A release has finitely many targets, as many as its list.
LEMMA IdsFinite ==
    /\ IsFiniteSet(Ids)
    /\ Len(TargetSeq) \in Nat
    /\ Cardinality(Ids) = Len(TargetSeq)
<1>1. TargetSeq \in Seq(Ids) /\ Len(TargetSeq) \in Nat
      /\ DOMAIN TargetSeq = 1..Len(TargetSeq)
  BY TargetsAssumption
<1>2. IsFiniteSet(1..Len(TargetSeq))
  BY <1>1, FS_Interval
<1>3. TargetSeq \in Surjection(1..Len(TargetSeq), Ids)
  BY <1>1 DEF Surjection, Ids
<1>4. IsFiniteSet(Ids)
  BY <1>2, <1>3, FS_Surjection
<1> QED
  BY <1>1, <1>4, TargetsAssumption

\* A listing of a set of targets has each of them once.
LEMMA Listing ==
    ASSUME NEW S \in SUBSET Ids, NEW s \in SetToSeqs(S)
    PROVE  /\ s \in Seq(S) /\ DOMAIN s = 1..Len(s) /\ Len(s) \in Nat
           /\ ToSet(s) = S
           /\ Distinct(s)
<1>1. IsFiniteSet(S) /\ Cardinality(S) \in Nat
  BY IdsFinite, FS_Subset, FS_CardinalityType
<1> DEFINE n == Cardinality(S)
<1>2. s \in [1..n -> S] /\ \A i, j \in 1..n : i # j => s[i] # s[j]
  BY DEF SetToSeqs
<1>3. s \in Seq(S) /\ DOMAIN s = 1..Len(s) /\ Len(s) = n
  BY <1>1, <1>2
<1>4. s \in Injection(1..n, S)
  BY <1>2 DEF Injection, IsInjective
<1>5. IsFiniteSet(1..n) /\ Cardinality(1..n) = n
  BY <1>1, FS_Interval
<1>6. s \in Surjection(1..n, S)
  BY <1>1, <1>4, <1>5, FS_Injection
<1>7. ToSet(s) = S
  BY <1>2, <1>6 DEF Surjection, ToSet
<1> QED
  BY <1>1, <1>2, <1>3, <1>7 DEF Distinct

\* A sequence that repeats nothing is as long as its set is large.
LEMMA DistinctLength ==
    ASSUME NEW s \in Seq(Ids), Distinct(s)
    PROVE  /\ IsFiniteSet(ToSet(s)) /\ ToSet(s) \subseteq Ids
           /\ Cardinality(ToSet(s)) = Len(s)
<1>1. Len(s) \in Nat /\ DOMAIN s = 1..Len(s)
  OBVIOUS
<1>2. ToSet(s) \subseteq Ids /\ s \in Surjection(1..Len(s), ToSet(s))
  BY <1>1 DEF ToSet, Surjection
<1>3. s \in Injection(1..Len(s), ToSet(s))
  BY <1>1, <1>2 DEF Distinct, Injection, IsInjective, Surjection
<1>4. IsFiniteSet(1..Len(s)) /\ Cardinality(1..Len(s)) = Len(s)
  BY <1>1, FS_Interval
<1>5. /\ IsFiniteSet(ToSet(s))
      /\ Cardinality(ToSet(s)) = Cardinality(1..Len(s)) <=> s \in Injection(1..Len(s), ToSet(s))
  BY <1>2, <1>4, FS_Surjection
<1> QED
  BY <1>2, <1>3, <1>4, <1>5

\* Among some targets one has the least rank.
LEMMA LeastRank ==
    ASSUME NEW S \in SUBSET Ids, S # {}, NEW n \in Nat, NEW rank \in [Ids -> 1..n]
    PROVE  \E t \in S : \A u \in S : ~(rank[u] < rank[t])
<1> DEFINE Below(t) == {u \in S : rank[u] < rank[t]}
           Sets == {Below(t) : t \in S}
<1>1. IsFiniteSet(S)
  BY IdsFinite, FS_Subset
<1>2. Sets \subseteq FiniteSubsetsOf(S) /\ Sets # {}
  <2>1. FiniteSubsetsOf(S) = SUBSET S
    BY <1>1, FS_FiniteSubsetsOfFinite
  <2>2. \A t \in S : Below(t) \in SUBSET S
    OBVIOUS
  <2> HIDE DEF Below
  <2>3. Sets \subseteq SUBSET S /\ Sets # {}
    BY <2>2
  <2> QED
    BY <2>1, <2>3
<1>3. IsWellFoundedOn(StrictSubsetOrdering(S), FiniteSubsetsOf(S))
  BY FS_StrictSubsetOrderingWellFounded
<1>4. PICK x \in Sets : \A y \in Sets : <<y, x>> \notin StrictSubsetOrdering(S)
  <2> HIDE DEF Sets
  <2> QED
    BY <1>2, <1>3, WFMin
<1>5. PICK t \in S : x = Below(t)
  BY <1>4
<1>6. ASSUME NEW u \in S, rank[u] < rank[t] PROVE FALSE
  <2>1. Below(u) \subseteq Below(t) /\ u \in Below(t) /\ u \notin Below(u)
    BY <1>6
  <2>2. <<Below(u), Below(t)>> \in StrictSubsetOrdering(S)
    BY <2>1 DEF StrictSubsetOrdering
  <2> QED
    BY <1>4, <1>5, <2>2
<1> QED
  BY <1>6

\* A DependsOn list has finitely many places.
LEMMA Places ==
    ASSUME NEW deps \in Dependencies, NEW t \in Ids
    PROVE  /\ deps[t] \in Seq(Ids \cup {Unknown})
           /\ Len(deps[t]) \in 0..MaxDepends
           /\ DOMAIN deps[t] = 1..Len(deps[t])
           /\ IsFiniteSet(DOMAIN deps[t])
           /\ Cardinality(DOMAIN deps[t]) = Len(deps[t])
<1>1. MaxDepends \in Nat
  BY TargetsAssumption
<1>2. PICK m \in 0..MaxDepends : deps[t] \in [1..m -> Ids \cup {Unknown}]
  BY DEF Dependencies, BoundedSeq, SeqOf
<1>3. deps[t] \in Seq(Ids \cup {Unknown}) /\ Len(deps[t]) = m
  BY <1>1, <1>2
<1> QED
  BY <1>1, <1>2, <1>3, FS_Interval

\* The open places can be counted, and none is open exactly if the count is zero.
LEMMA OpenCount ==
    ASSUME NEW deps \in Dependencies, NEW t \in Ids, NEW P
    PROVE  /\ IsFiniteSet(Open(deps[t], P))
           /\ Cardinality(Open(deps[t], P)) \in 0..MaxDepends
           /\ Cardinality(Open(deps[t], P)) = 0 <=> ToSet(deps[t]) \subseteq P
<1> DEFINE D == DOMAIN deps[t]
           O == Open(deps[t], P)
<1>1. IsFiniteSet(D) /\ Cardinality(D) \in 0..MaxDepends /\ O \in SUBSET D
  BY Places DEF Open
<1>2. IsFiniteSet(O) /\ Cardinality(O) <= Cardinality(D) /\ Cardinality(O) \in Nat
  BY <1>1, FS_Subset, FS_CardinalityType
<1>3. Cardinality(O) = 0 <=> O = {}
  BY <1>2, FS_EmptySet
<1>4. O = {} <=> ToSet(deps[t]) \subseteq P
  BY DEF Open, ToSet
<1>5. MaxDepends \in Nat
  BY TargetsAssumption
<1> QED
  BY <1>1, <1>2, <1>3, <1>4, <1>5

\* Taking the targets in Q closes the places that name them.
LEMMA OpenLess ==
    ASSUME NEW d, NEW P, NEW Q, IsFiniteSet(Open(d, P)), \A x \in Q : x \notin P
    PROVE  Cardinality(Open(d, P \cup Q)) =
               Cardinality(Open(d, P)) - Cardinality(Naming(d, Q))
<1> DEFINE O == Open(d, P)
           C == Naming(d, Q)
<1>1. IsFiniteSet(O)
  OBVIOUS
<1>2. Open(d, P \cup Q) = O \ C /\ O \cap C = C
  BY DEF Open, Naming
<1> HIDE DEF O, C
<1>3. Cardinality(O \ C) = Cardinality(O) - Cardinality(O \cap C)
  BY <1>1, FS_Difference, Zenon
<1> QED
  BY <1>2, <1>3, Zenon DEF O, C

-----------------------------------------------------------------------------
\* The invariant

\* The targets taken from the queue of topoTargets.
Taken == {t \in Ids : incoming[t] = 0} \ ToSet(ready)

\* A rank that puts the dependencies of what is taken first.
Ranked(rank, P, n) ==
    \A t \in P : rank[t] <= n /\ \A d \in ToSet(dependsOn[t]) : rank[d] < rank[t]

Walking ==
    /\ Complete
    /\ \A t \in Ids : incoming[t] = Cardinality(Open(dependsOn[t], Taken))
    /\ \A t \in ToSet(ready) : incoming[t] = 0
    /\ Distinct(ready)
    /\ seen = Cardinality(Taken)
    /\ \E rank \in [Ids -> 1..Len(TargetSeq)] : Ranked(rank, Taken, seen)

Sorting ==
    /\ Complete /\ Orderable
    /\ left = Ids \ ToSet(out)
    /\ \A t \in left : incoming[t] = Cardinality(Open(dependsOn[t], ToSet(out)))

Inv ==
    /\ TypeOK
    /\ pc = "count" => seen = 0
    /\ pc \notin {"sort", "ordered"} => out = <<>>
    /\ pc = "walk" => Walking
    /\ pc = "sort" => Sorting
    /\ VerdictIsRight
    /\ DependenciesFirst

\* What a target of a complete release depends on are targets.
LEMMA Known ==
    ASSUME TypeOK, Complete, NEW t \in Ids
    PROVE  ToSet(dependsOn[t]) \subseteq Ids
<1>1. dependsOn \in Dependencies
  BY Zenon DEF TypeOK
<1>2. dependsOn[t] \in Seq(Ids \cup {Unknown})
  BY <1>1, Places
<1>3. ToSet(dependsOn[t]) \subseteq Ids \cup {Unknown}
  BY <1>2 DEF ToSet
<1> QED
  BY <1>3 DEF Complete

\* How often a target names another is the number of places that do.
LEMMA NamesCount ==
    ASSUME TypeOK, NEW t \in Ids, NEW id
    PROVE  /\ Names(t, id) \in Nat
           /\ Names(t, id) = Cardinality(Naming(dependsOn[t], {id}))
           /\ Names(t, id) > 0 <=> id \in ToSet(dependsOn[t])
<1> DEFINE C == {i \in DOMAIN dependsOn[t] : dependsOn[t][i] = id}
<1>1. dependsOn \in Dependencies
  BY Zenon DEF TypeOK
<1>2. IsFiniteSet(DOMAIN dependsOn[t]) /\ C \in SUBSET DOMAIN dependsOn[t]
  BY <1>1, Places
<1>3. IsFiniteSet(C) /\ Cardinality(C) \in Nat
  BY <1>2, FS_Subset, FS_CardinalityType
<1>4. Cardinality(C) = 0 <=> C = {}
  BY <1>3, FS_EmptySet
<1>5. C = {} <=> id \notin ToSet(dependsOn[t])
  BY DEF ToSet
<1>6. C = Naming(dependsOn[t], {id})
  BY DEF Naming
<1> HIDE DEF C
<1>7. Names(t, id) = Cardinality(C)
  BY DEF Names, C
<1> QED
  BY <1>3, <1>4, <1>5, <1>6, <1>7

\* The count of a target, and what taking one more target does to it.
LEMMA Counted ==
    ASSUME TypeOK, NEW t \in Ids, NEW P, NEW id, id \notin P
    PROVE  /\ Cardinality(Open(dependsOn[t], P)) \in Nat
           /\ Cardinality(Open(dependsOn[t], P)) = 0 => ToSet(dependsOn[t]) \subseteq P
           /\ Cardinality(Open(dependsOn[t], P \cup {id})) \in 0..MaxDepends
           /\ Cardinality(Open(dependsOn[t], P \cup {id})) =
                  Cardinality(Open(dependsOn[t], P)) - Names(t, id)
<1>1. dependsOn \in Dependencies /\ MaxDepends \in Nat
  BY TargetsAssumption DEF TypeOK
<1>2. /\ Cardinality(Open(dependsOn[t], P)) \in 0..MaxDepends
      /\ Cardinality(Open(dependsOn[t], P)) = 0 => ToSet(dependsOn[t]) \subseteq P
      /\ IsFiniteSet(Open(dependsOn[t], P))
  BY <1>1, OpenCount, Zenon
<1>3. Cardinality(Open(dependsOn[t], P \cup {id})) \in 0..MaxDepends
  BY <1>1, OpenCount, Zenon
<1>4. Cardinality(Open(dependsOn[t], P \cup {id})) =
          Cardinality(Open(dependsOn[t], P))
          - Cardinality(Naming(dependsOn[t], {id}))
  <2> DEFINE Q == {id}
  <2>1. \A x \in Q : x \notin P
    OBVIOUS
  <2> HIDE DEF Q
  <2>2. Cardinality(Open(dependsOn[t], P \cup Q)) =
            Cardinality(Open(dependsOn[t], P)) - Cardinality(Naming(dependsOn[t], Q))
    BY <1>2, <2>1, OpenLess
  <2> QED
    BY <2>2 DEF Q
<1>5. Names(t, id) = Cardinality(Naming(dependsOn[t], {id}))
  BY NamesCount
<1> QED
  BY <1>1, <1>2, <1>3, <1>4, <1>5

\* The head of a queue that repeats nothing is not in the rest of it.
LEMMA TailOf ==
    ASSUME NEW s \in Seq(Ids), s # <<>>, Distinct(s)
    PROVE  /\ Head(s) \in ToSet(s) /\ Head(s) \in Ids
           /\ Tail(s) \in Seq(Ids) /\ Distinct(Tail(s))
           /\ ToSet(Tail(s)) = ToSet(s) \ {Head(s)}
<1>1. /\ Len(s) \in Nat /\ Len(s) > 0 /\ DOMAIN s = 1..Len(s) /\ Head(s) = s[1]
      /\ Tail(s) \in Seq(Ids) /\ Len(Tail(s)) = Len(s) - 1
      /\ DOMAIN Tail(s) = 1..(Len(s) - 1)
      /\ \A i \in 1..(Len(s) - 1) : Tail(s)[i] = s[i + 1]
  OBVIOUS
<1>2. Distinct(Tail(s))
  BY <1>1 DEF Distinct
<1>3. ToSet(Tail(s)) \subseteq ToSet(s) \ {Head(s)}
  BY <1>1 DEF Distinct, ToSet
<1>4. ASSUME NEW x \in ToSet(s) \ {Head(s)} PROVE x \in ToSet(Tail(s))
  <2>1. PICK i \in 1..Len(s) : x = s[i]
    BY <1>1 DEF ToSet
  <2>2. i - 1 \in 1..(Len(s) - 1) /\ Tail(s)[i - 1] = x
    BY <1>1, <2>1
  <2> QED
    BY <1>1, <2>2, Zenon DEF ToSet
<1>5. Head(s) \in ToSet(s) /\ Head(s) \in Ids
  BY <1>1 DEF ToSet
<1>6. ToSet(Tail(s)) = ToSet(s) \ {Head(s)}
  BY <1>3, <1>4, Zenon
<1> QED
  BY <1>1, <1>2, <1>5, <1>6

\* Two sequences without a common element, one after the other.
LEMMA Joined ==
    ASSUME NEW s \in Seq(Ids), NEW u \in Seq(Ids), Distinct(s), Distinct(u),
           ToSet(s) \cap ToSet(u) = {}
    PROVE  /\ s \o u \in Seq(Ids) /\ Distinct(s \o u)
           /\ ToSet(s \o u) = ToSet(s) \cup ToSet(u)
<1> DEFINE w == s \o u
<1>1. /\ Len(s) \in Nat /\ Len(u) \in Nat
      /\ DOMAIN s = 1..Len(s) /\ DOMAIN u = 1..Len(u)
      /\ w \in Seq(Ids) /\ DOMAIN w = 1..(Len(s) + Len(u))
      /\ \A i \in 1..Len(s) : w[i] = s[i]
      /\ \A i \in (Len(s) + 1)..(Len(s) + Len(u)) : w[i] = u[i - Len(s)]
  OBVIOUS
<1>2. \A i \in DOMAIN s : i \in DOMAIN w /\ w[i] = s[i]
  BY <1>1
<1>3. ASSUME NEW k \in DOMAIN u
      PROVE  Len(s) + k \in DOMAIN w /\ w[Len(s) + k] = u[k]
  <2>1. Len(s) + k \in (Len(s) + 1)..(Len(s) + Len(u)) /\ (Len(s) + k) - Len(s) = k
    BY <1>1
  <2> QED
    BY <1>1, <2>1
<1>4. ASSUME NEW i \in DOMAIN w, i \notin DOMAIN s
      PROVE  \E k \in DOMAIN u : i = Len(s) + k /\ w[i] = u[k]
  <2>1. i - Len(s) \in DOMAIN u /\ i = Len(s) + (i - Len(s))
    BY <1>1, <1>4
  <2> QED
    BY <1>3, <2>1
<1> HIDE DEF w
<1>5. ToSet(w) \subseteq ToSet(s) \cup ToSet(u)
  <2> SUFFICES ASSUME NEW i \in DOMAIN w PROVE w[i] \in ToSet(s) \cup ToSet(u)
    BY Zenon DEF ToSet
  <2> QED
    BY <1>2, <1>4, Zenon DEF ToSet
<1>6. ToSet(s) \cup ToSet(u) \subseteq ToSet(w)
  <2>1. ASSUME NEW i \in DOMAIN s PROVE s[i] \in ToSet(w)
    BY <1>2, Zenon DEF ToSet
  <2>2. ASSUME NEW k \in DOMAIN u PROVE u[k] \in ToSet(w)
    BY <1>3, Zenon DEF ToSet
  <2> QED
    BY <2>1, <2>2, Zenon DEF ToSet
<1>7. ASSUME NEW i \in DOMAIN w, NEW j \in DOMAIN w, w[i] = w[j] PROVE i = j
  <2>1. ASSUME NEW k \in DOMAIN s, NEW l \in DOMAIN u PROVE s[k] # u[l]
    BY <2>1, Zenon DEF ToSet
  <2>2. CASE i \in DOMAIN s /\ j \in DOMAIN s
    BY <1>2, <1>7, <2>2, Zenon DEF Distinct
  <2>3. CASE i \notin DOMAIN s /\ j \notin DOMAIN s
    BY <1>4, <1>7, <2>3, Zenon DEF Distinct
  <2> QED
    BY <1>2, <1>4, <1>7, <2>1, <2>2, <2>3, Zenon
<1> QED
  BY <1>1, <1>5, <1>6, <1>7, Zenon DEF Distinct, w

\* A rank is over when everything is taken.
LEMMA AllTaken ==
    ASSUME TypeOK, Walking, seen = Len(TargetSeq)
    PROVE  Orderable
<1>1. Taken \in SUBSET Ids /\ Cardinality(Taken) = Cardinality(Ids)
  BY IdsFinite DEF Walking, Taken
<1>2. Taken = Ids
  BY <1>1, IdsFinite, FS_Subset
<1> QED
  BY <1>2 DEF Walking, Ranked, Orderable

\* Targets that can be ordered and are not all in P have one among the others whose
\* dependencies are all in P.
LEMMA SomeoneNext ==
    ASSUME TypeOK, Complete, Orderable, NEW P \in SUBSET Ids, P # Ids
    PROVE  \E t \in Ids \ P : ToSet(dependsOn[t]) \subseteq P
<1>1. PICK rank \in [Ids -> 1..Len(TargetSeq)] :
          \A t \in Ids : \A d \in ToSet(dependsOn[t]) : rank[d] < rank[t]
  BY DEF Orderable
<1>2. PICK t \in Ids \ P : \A u \in Ids \ P : ~(rank[u] < rank[t])
  <2>1. Ids \ P \in SUBSET Ids /\ Ids \ P # {}
    BY Zenon
  <2> QED
    BY <2>1, LeastRank, IdsFinite, Zenon
<1>3. ToSet(dependsOn[t]) \subseteq Ids
  BY Known
<1> QED
  BY <1>1, <1>2, <1>3

-----------------------------------------------------------------------------
\* Every step keeps the invariant

\* No target is placed before the two loops start.
LEMMA InitInv == Init => Inv
<1> SUFFICES ASSUME Init PROVE Inv
  OBVIOUS
<1>1. MaxDepends \in Nat /\ Len(TargetSeq) \in Nat
  BY TargetsAssumption, IdsFinite
<1>2. TypeOK
  <2>1. [t \in Ids |-> 0] \in [Ids -> 0..MaxDepends] /\ 0 \in 0..Len(TargetSeq)
    BY <1>1
  <2> QED
    BY <2>1 DEF Init, TypeOK
<1> QED
  BY <1>2 DEF Init, Inv, VerdictIsRight, DependenciesFirst

\* topoTargets refuses a name it does not know, or starts with nothing taken.
LEMMA CountKeeps == ASSUME Inv, CountIncoming PROVE Inv'
<1>1. TypeOK /\ pc = "count" /\ seen = 0 /\ out = <<>> /\ dependsOn \in Dependencies
  BY DEF Inv, CountIncoming, TypeOK
<1>2. UNCHANGED <<dependsOn, seen, left, out>>
  BY DEF CountIncoming
<1>3. (\E t \in Ids : Names(t, Unknown) > 0) <=> ~Complete
  BY <1>1, NamesCount, Zenon DEF Complete
<1>4. CASE ~Complete
  <2>1. pc' = "missing" /\ UNCHANGED <<incoming, ready>>
    BY <1>3, <1>4 DEF CountIncoming
  <2>2. TypeOK' /\ ~Complete'
    BY <1>1, <1>2, <1>4, <2>1 DEF TypeOK, Ends, Complete
  <2> QED
    BY <1>1, <1>2, <2>1, <2>2 DEF Inv, VerdictIsRight, DependenciesFirst
<1>5. CASE Complete
  <2> DEFINE S == {t \in Ids : Unmet[t] = 0}
  <2>1. pc' = "walk" /\ incoming' = Unmet /\ ready' \in SetToSeqs(S)
    BY <1>3, <1>5 DEF CountIncoming
  <2>2. ready' \in Seq(Ids) /\ ToSet(ready') = S /\ Distinct(ready')
    <3>1. S \in SUBSET Ids
      OBVIOUS
    <3> HIDE DEF S
    <3>2. ready' \in Seq(S) /\ ToSet(ready') = S /\ Distinct(ready')
      BY <2>1, <3>1, Listing
    <3> QED
      BY <3>1, <3>2
  <2>3. ASSUME NEW t \in Ids
        PROVE  /\ Unmet[t] \in 0..MaxDepends
               /\ Unmet[t] = Cardinality(Open(dependsOn[t], {}))
    <3>1. Open(dependsOn[t], {}) = DOMAIN dependsOn[t] /\ Unmet[t] = Len(dependsOn[t])
      BY DEF Open, Unmet
    <3> QED
      BY <1>1, <3>1, Places
  <2>4. Unmet \in [Ids -> 0..MaxDepends]
    BY <2>3 DEF Unmet
  <2>5. TypeOK'
    BY <1>1, <1>2, <2>1, <2>2, <2>4 DEF TypeOK
  <2>6. Taken' = {}
    BY <2>1, <2>2 DEF Taken
  <2>7. \E rank \in [Ids -> 1..Len(TargetSeq)] : TRUE
    <3>1. \A t \in Ids : Len(TargetSeq) >= 1
      BY IdsFinite, FS_EmptySet
    <3>2. [t \in Ids |-> 1] \in [Ids -> 1..Len(TargetSeq)]
      BY <3>1, IdsFinite
    <3> QED
      BY <3>2, Zenon
  <2>8. Walking'
    <3>1. Complete'
      BY <1>2, <1>5 DEF Complete
    <3>2. \A t \in Ids : incoming'[t] = Cardinality(Open(dependsOn'[t], Taken'))
      BY <1>2, <2>1, <2>3, <2>6
    <3>3. \A t \in ToSet(ready') : incoming'[t] = 0
      BY <2>1, <2>2
    <3>4. seen' = Cardinality(Taken')
      BY <1>1, <1>2, <2>6, FS_EmptySet
    <3>5. \E rank \in [Ids -> 1..Len(TargetSeq)] : Ranked(rank, Taken, seen)'
      BY <2>6, <2>7 DEF Ranked
    <3> QED
      BY <2>2, <3>1, <3>2, <3>3, <3>4, <3>5 DEF Walking
  <2> QED
    BY <1>1, <1>2, <2>1, <2>5, <2>8 DEF Inv, VerdictIsRight, DependenciesFirst
<1> QED
  BY <1>4, <1>5

\* What is taken from the queue has its dependencies taken: the count of the others
\* goes down by the places that name it, those that reach zero are queued, once, and
\* the rank of the target is the next one.
LEMMA WalkKeeps == ASSUME Inv, Walk PROVE Inv'
<1> DEFINE id == Head(ready)
           met == [t \in Ids |-> incoming[t] - Names(t, id)]
           M == {t \in Ids : Names(t, id) > 0 /\ met[t] = 0}
           T == Taken \cup {id}
<1>1. /\ TypeOK /\ Walking /\ pc = "walk" /\ out = <<>>
      /\ ready # <<>> /\ ready \in Seq(Ids) /\ Distinct(ready)
      /\ dependsOn \in Dependencies /\ seen \in Nat
  BY DEF Inv, Walk, Walking, TypeOK
<1>2. /\ id \in ToSet(ready) /\ id \in Ids
      /\ Tail(ready) \in Seq(Ids) /\ Distinct(Tail(ready))
      /\ ToSet(Tail(ready)) = ToSet(ready) \ {id}
  BY <1>1, TailOf
<1>3. /\ UNCHANGED <<dependsOn, pc, left, out>> /\ seen' = seen + 1 /\ incoming' = met
      /\ \E more \in InReleaseOrder(M) : ready' = Tail(ready) \o more
  BY Zenon DEF Walk
<1>4. PICK more \in SetToSeqs(M) : ready' = Tail(ready) \o more
  BY <1>3, Zenon DEF InReleaseOrder
<1> HIDE DEF id
<1>5. id \notin Taken /\ incoming[id] = 0 /\ Taken \subseteq Ids
  BY <1>1, <1>2 DEF Taken, Walking
<1>6. ASSUME NEW t \in Ids
      PROVE  /\ incoming[t] \in Nat /\ Names(t, id) \in Nat
             /\ Names(t, id) > 0 <=> id \in ToSet(dependsOn[t])
             /\ incoming[t] = 0 => ToSet(dependsOn[t]) \subseteq Taken
             /\ met[t] = Cardinality(Open(dependsOn[t], T)) /\ met[t] \in 0..MaxDepends
  <2>1. incoming[t] = Cardinality(Open(dependsOn[t], Taken))
    BY <1>1 DEF Walking
  <2>2. /\ Cardinality(Open(dependsOn[t], Taken)) \in Nat
        /\ Cardinality(Open(dependsOn[t], Taken)) = 0 => ToSet(dependsOn[t]) \subseteq Taken
        /\ Cardinality(Open(dependsOn[t], T)) \in 0..MaxDepends
        /\ Cardinality(Open(dependsOn[t], T)) =
               Cardinality(Open(dependsOn[t], Taken)) - Names(t, id)
    BY <1>1, <1>5, Counted, Zenon
  <2>3. Names(t, id) \in Nat /\ (Names(t, id) > 0 <=> id \in ToSet(dependsOn[t]))
    BY <1>1, NamesCount, Zenon
  <2> QED
    BY <2>1, <2>2, <2>3
<1>7. \A t \in Ids : incoming[t] = 0 => Names(t, id) = 0 /\ met[t] = 0
  <2> SUFFICES ASSUME NEW t \in Ids, incoming[t] = 0
               PROVE  Names(t, id) = 0 /\ met[t] = 0
    OBVIOUS
  <2>1. ~(Names(t, id) > 0)
    BY <1>5, <1>6
  <2> QED
    BY <1>6, <2>1
<1>8. M \in SUBSET Ids /\ M \cap ToSet(ready) = {}
  BY <1>1, <1>7 DEF Walking
<1>9. more \in Seq(Ids) /\ ToSet(more) = M /\ Distinct(more)
  <2> HIDE DEF M
  <2>1. more \in Seq(M) /\ ToSet(more) = M /\ Distinct(more)
    BY <1>8, Listing
  <2> QED
    BY <1>8, <2>1
<1>10. /\ ready' \in Seq(Ids) /\ Distinct(ready')
       /\ ToSet(ready') = (ToSet(ready) \ {id}) \cup M
  <2>1. ToSet(Tail(ready)) \cap ToSet(more) = {}
    BY <1>2, <1>8, <1>9, Zenon
  <2> QED
    BY <1>2, <1>4, <1>9, <2>1, Joined, Zenon
<1>11. Taken' = T
  <2>1. ASSUME NEW t \in T PROVE t \in Taken'
    <3>1. t \in Ids /\ incoming[t] = 0 /\ (t = id \/ t \notin ToSet(ready))
      BY <1>2, <1>5 DEF Taken
    <3>2. met[t] = 0 /\ t \notin M
      BY <1>7, <3>1
    <3> QED
      BY <1>3, <1>10, <3>1, <3>2, Zenon DEF Taken
  <2>2. ASSUME NEW t \in Taken', t # id PROVE t \in Taken
    <3>1. t \in Ids /\ met[t] = 0 /\ t \notin ToSet(ready) /\ t \notin M
      BY <1>3, <1>10, <2>2, Zenon DEF Taken
    <3>2. Names(t, id) = 0
      BY <1>6, <3>1
    <3>3. incoming[t] = 0
      BY <1>6, <3>1, <3>2
    <3> QED
      BY <3>1, <3>3 DEF Taken
  <2> QED
    BY <2>1, <2>2
<1>12. /\ seen' = Cardinality(T) /\ seen' \in 0..Len(TargetSeq) /\ T \subseteq Ids
  <2>1. IsFiniteSet(Taken) /\ T \in SUBSET Ids
    BY <1>2, <1>5, IdsFinite, FS_Subset
  <2>2. Cardinality(T) = seen + 1
    BY <1>1, <1>5, <2>1, FS_AddElement, Zenon DEF Walking
  <2>3. Cardinality(T) <= Len(TargetSeq)
    BY <2>1, IdsFinite, FS_Subset
  <2> QED
    BY <1>1, <1>3, <2>1, <2>2, <2>3
<1>13. TypeOK'
  <2>1. met \in [Ids -> 0..MaxDepends]
    BY <1>6
  <2> QED
    BY <1>1, <1>3, <1>10, <1>12, <2>1 DEF TypeOK
<1>14. \E rank \in [Ids -> 1..Len(TargetSeq)] : Ranked(rank, T, seen + 1)
  <2>1. PICK rank \in [Ids -> 1..Len(TargetSeq)] : Ranked(rank, Taken, seen)
    BY <1>1 DEF Walking
  <2> DEFINE next == [rank EXCEPT ![id] = seen + 1]
  <2>2. seen + 1 \in 1..Len(TargetSeq)
    BY <1>1, <1>3, <1>12
  <2>3. next \in [Ids -> 1..Len(TargetSeq)]
    BY <2>2, Zenon
  <2>4. /\ next[id] = seen + 1
        /\ \A t \in Ids : t # id => next[t] = rank[t]
        /\ \A t \in Ids : rank[t] \in Nat
    BY <1>2, IdsFinite
  <2> HIDE DEF next
  <2>5. ASSUME NEW t \in T
        PROVE  next[t] <= seen + 1 /\ \A d \in ToSet(dependsOn[t]) : next[d] < next[t]
    <3>1. ToSet(dependsOn[t]) \subseteq Taken
      BY <1>5, <1>6, <1>12, Zenon DEF Taken
    <3>2. \A d \in Taken : d \in Ids /\ d # id /\ next[d] = rank[d] /\ rank[d] <= seen
      BY <1>5, <2>1, <2>4 DEF Ranked
    <3>3. CASE t = id
      BY <1>1, <2>4, <3>1, <3>2, <3>3
    <3>4. CASE t \in Taken
      BY <1>1, <2>1, <2>4, <3>1, <3>2, <3>4 DEF Ranked
    <3> QED
      BY <3>3, <3>4
  <2> QED
    BY <2>3, <2>5 DEF Ranked
<1>15. Walking'
  <2>1. Complete'
    BY <1>1, <1>3 DEF Complete, Walking
  <2>2. \A t \in Ids : incoming'[t] = Cardinality(Open(dependsOn'[t], Taken'))
    BY <1>3, <1>6, <1>11, Zenon
  <2>3. \A t \in ToSet(ready') : incoming'[t] = 0
    <3>1. \A t \in ToSet(ready) : t \in Ids /\ incoming[t] = 0
      BY <1>1 DEF Walking, ToSet
    <3>2. \A t \in ToSet(ready) \cup M : met[t] = 0
      BY <1>7, <3>1
    <3> QED
      BY <1>3, <1>10, <3>2, Zenon
  <2>4. \E rank \in [Ids -> 1..Len(TargetSeq)] : Ranked(rank, Taken, seen)'
    BY <1>3, <1>11, <1>14 DEF Ranked
  <2> QED
    BY <1>10, <1>11, <1>12, <2>1, <2>2, <2>3, <2>4, Zenon DEF Walking
<1> QED
  BY <1>1, <1>3, <1>13, <1>15 DEF Inv, VerdictIsRight, DependenciesFirst

\* When the queue is empty either every target was taken, and has a rank, or those
\* that were not each wait for one of them.
LEMMA WalkEndKeeps == ASSUME Inv, WalkEnd PROVE Inv'
<1>1. /\ TypeOK /\ Walking /\ pc = "walk" /\ out = <<>> /\ ready = <<>>
      /\ UNCHANGED <<dependsOn, ready, seen, out>>
      /\ dependsOn \in Dependencies
  BY Zenon DEF Inv, WalkEnd, TypeOK
<1>2. (Complete' <=> Complete) /\ (Orderable' <=> Orderable) /\ Complete
  BY <1>1 DEF Complete, Orderable, Walking
<1>3. CASE seen = Len(TargetSeq)
  <2>1. pc' = "sort" /\ incoming' = Unmet /\ left' = Ids
    BY <1>3, Zenon DEF WalkEnd
  <2>2. Orderable
    BY <1>1, <1>3, AllTaken
  <2>3. ToSet(out') = {}
    BY <1>1 DEF ToSet
  <2>4. ASSUME NEW t \in Ids
        PROVE  /\ Unmet[t] \in 0..MaxDepends
               /\ Unmet[t] = Cardinality(Open(dependsOn[t], {}))
    <3>1. Open(dependsOn[t], {}) = DOMAIN dependsOn[t] /\ Unmet[t] = Len(dependsOn[t])
      BY DEF Open, Unmet
    <3> QED
      BY <1>1, <3>1, Places
  <2>5. Unmet \in [Ids -> 0..MaxDepends]
    BY <2>4 DEF Unmet
  <2>6. TypeOK'
    BY <1>1, <2>1, <2>5 DEF TypeOK
  <2>7. Sorting'
    <3>1. \A t \in left' : incoming'[t] = Cardinality(Open(dependsOn'[t], ToSet(out')))
      BY <1>1, <2>1, <2>3, <2>4, Zenon
    <3> QED
      BY <1>2, <2>1, <2>2, <2>3, <3>1 DEF Sorting
  <2>8. VerdictIsRight' /\ DependenciesFirst'
    BY <1>1, <1>2, <2>1, <2>2 DEF VerdictIsRight, DependenciesFirst
  <2> QED
    BY <1>1, <2>1, <2>6, <2>7, <2>8 DEF Inv
<1>4. CASE seen # Len(TargetSeq)
  <2>1. pc' = "cycle" /\ UNCHANGED <<incoming, left>>
    BY <1>4, Zenon DEF WalkEnd
  <2>2. Taken \in SUBSET Ids /\ Taken # Ids
    BY <1>1, <1>4, IdsFinite, Zenon DEF Taken, Walking
  <2>3. ASSUME Orderable PROVE FALSE
    <3>1. PICK t \in Ids \ Taken : ToSet(dependsOn[t]) \subseteq Taken
      BY <1>1, <1>2, <2>2, <2>3, SomeoneNext
    <3>2. incoming[t] = 0
      BY <1>1, <3>1, OpenCount DEF Walking
    <3>3. ToSet(ready) = {}
      BY <1>1 DEF ToSet
    <3> QED
      BY <3>1, <3>2, <3>3 DEF Taken
  <2>4. TypeOK'
    BY <1>1, <2>1 DEF TypeOK, Ends
  <2>5. VerdictIsRight' /\ DependenciesFirst'
    BY <1>1, <1>2, <2>1, <2>3 DEF VerdictIsRight, DependenciesFirst
  <2> QED
    BY <1>1, <2>1, <2>4, <2>5 DEF Inv
<1> QED
  BY <1>3, <1>4

\* A batch is never empty, and what it places depends on what was placed before.
LEMMA BatchKeeps == ASSUME Inv, Batch PROVE Inv'
<1> DEFINE P == ToSet(out)
<1>1. /\ TypeOK /\ Sorting /\ DependenciesFirst /\ pc = "sort"
      /\ Len(out) < Len(TargetSeq)
      /\ out \in Seq(Ids) /\ Distinct(out) /\ left = Ids \ P
      /\ dependsOn \in Dependencies /\ UNCHANGED <<dependsOn, ready, seen>>
  BY DEF Inv, Batch, Sorting, DependenciesFirst, Distinct, TypeOK
<1>2. /\ pc' = IF Placed = {} THEN "stuck" ELSE pc
      /\ left' = left \ Placed
      /\ incoming' = [t \in Ids |->
             IF t \in left \ Placed
             THEN incoming[t] - Cardinality(Naming(dependsOn[t], Placed))
             ELSE incoming[t]]
  BY Zenon DEF Batch, Naming
<1>3. PICK batch \in SetToSeqs(Placed) : out' = out \o batch
  BY Zenon DEF Batch, InReleaseOrder
<1>4. (Complete' <=> Complete) /\ (Orderable' <=> Orderable) /\ Complete /\ Orderable
  BY <1>1 DEF Complete, Orderable, Sorting
<1>5. Placed \in SUBSET Ids /\ Placed \subseteq left /\ Placed \cap P = {}
  BY <1>1 DEF Placed
<1>6. ASSUME NEW t \in left
      PROVE  /\ incoming[t] = Cardinality(Open(dependsOn[t], P))
             /\ incoming[t] = 0 <=> ToSet(dependsOn[t]) \subseteq P
             /\ IsFiniteSet(Open(dependsOn[t], P))
  <2>1. t \in Ids /\ incoming[t] = Cardinality(Open(dependsOn[t], P))
    BY <1>1 DEF Sorting
  <2> QED
    BY <1>1, <2>1, OpenCount, Zenon
<1>7. Placed # {}
  <2>1. P \in SUBSET Ids /\ P # Ids
    BY <1>1, DistinctLength, IdsFinite
  <2>2. PICK t \in Ids \ P : ToSet(dependsOn[t]) \subseteq P
    <3> HIDE DEF P
    <3> QED
      BY <1>1, <1>4, <2>1, SomeoneNext
  <2> QED
    BY <1>1, <1>6, <2>2 DEF Placed
<1>8. /\ batch \in Seq(Ids) /\ DOMAIN batch = 1..Len(batch) /\ Len(batch) \in Nat
      /\ ToSet(batch) = Placed /\ Distinct(batch)
  <2>1. /\ batch \in Seq(Placed) /\ DOMAIN batch = 1..Len(batch) /\ Len(batch) \in Nat
        /\ ToSet(batch) = Placed /\ Distinct(batch)
    BY <1>5, Listing, Zenon
  <2> QED
    BY <1>5, <2>1
<1>9. out' \in Seq(Ids) /\ Distinct(out') /\ ToSet(out') = P \cup Placed
  BY <1>1, <1>3, <1>5, <1>8, Joined, Zenon
<1>10. ASSUME NEW t \in left'
       PROVE  incoming'[t] = Cardinality(Open(dependsOn[t], P \cup Placed))
  <2>1. t \in Ids /\ t \in left /\ t \in left \ Placed
    BY <1>1, <1>2
  <2>2. \A x \in Placed : x \notin P
    BY <1>5
  <2>3. Cardinality(Open(dependsOn[t], P \cup Placed)) =
            Cardinality(Open(dependsOn[t], P)) - Cardinality(Naming(dependsOn[t], Placed))
    BY <1>6, <2>1, <2>2, OpenLess, Zenon
  <2>4. incoming'[t] = incoming[t] - Cardinality(Naming(dependsOn[t], Placed))
    BY <1>2, <2>1
  <2> QED
    BY <1>6, <2>1, <2>3, <2>4
<1>11. TypeOK'
  <2>1. \A t \in left' : incoming'[t] \in 0..MaxDepends
    <3> SUFFICES ASSUME NEW t \in left' PROVE incoming'[t] \in 0..MaxDepends
      OBVIOUS
    <3>1. t \in Ids
      BY <1>1, <1>2
    <3>2. Cardinality(Open(dependsOn[t], P \cup Placed)) \in 0..MaxDepends
      BY <1>1, <3>1, OpenCount, Zenon
    <3> QED
      BY <1>10, <3>2
  <2>2. \A t \in Ids : t \notin left' => incoming'[t] = incoming[t]
    BY <1>2
  <2>3. incoming' \in [Ids -> 0..MaxDepends]
    <3>1. \A t \in Ids : incoming'[t] \in 0..MaxDepends
      BY <1>1, <2>1, <2>2 DEF TypeOK
    <3>2. incoming' = [t \in Ids |-> incoming'[t]]
      BY <1>2
    <3> QED
      BY <3>1, <3>2
  <2>4. left' \subseteq Ids /\ pc' = "sort"
    BY <1>1, <1>2, <1>7
  <2> QED
    BY <1>1, <1>9, <2>3, <2>4 DEF TypeOK
<1>12. pc' = "sort"
  BY <1>1, <1>2, <1>7
<1>13. Sorting'
  <2>1. left' = Ids \ ToSet(out')
    BY <1>1, <1>2, <1>9
  <2>2. \A t \in left' : incoming'[t] = Cardinality(Open(dependsOn'[t], ToSet(out')))
    BY <1>1, <1>9, <1>10, Zenon
  <2> QED
    BY <1>4, <2>1, <2>2 DEF Sorting
<1>14. DependenciesFirst'
  <2>1. ASSUME NEW i \in DOMAIN out', NEW d \in ToSet(dependsOn[out'[i]])
        PROVE  \E j \in 1..(i - 1) : out'[j] = d
    <3>1. /\ Len(out) \in Nat /\ DOMAIN out = 1..Len(out)
          /\ DOMAIN out' = 1..(Len(out) + Len(batch))
          /\ \A k \in 1..Len(out) : out'[k] = out[k]
          /\ \A k \in (Len(out) + 1)..(Len(out) + Len(batch)) : out'[k] = batch[k - Len(out)]
      BY <1>1, <1>3, <1>8
    <3>2. CASE i \in 1..Len(out)
      <4>1. PICK j \in 1..(i - 1) : out[j] = d
        BY <1>1, <2>1, <3>1, <3>2, Zenon DEF DependenciesFirst
      <4> QED
        BY <3>1, <3>2, <4>1
    <3>3. CASE i \in (Len(out) + 1)..(Len(out) + Len(batch))
      <4>1. i - Len(out) \in DOMAIN batch
        BY <1>8, <3>1, <3>3
      <4>2. out'[i] \in Placed
        BY <1>8, <3>1, <3>3, <4>1 DEF ToSet
      <4>3. d \in P
        BY <1>5, <1>6, <2>1, <4>2 DEF Placed
      <4>4. PICK j \in 1..Len(out) : out[j] = d
        BY <3>1, <4>3 DEF ToSet
      <4> QED
        BY <3>1, <3>3, <4>4
    <3> QED
      BY <2>1, <3>1, <3>2, <3>3
  <2> QED
    BY <1>1, <1>9, <1>12, <2>1 DEF DependenciesFirst, Distinct
<1>15. VerdictIsRight'
  BY <1>4, <1>12 DEF VerdictIsRight
<1> QED
  BY <1>11, <1>12, <1>13, <1>14, <1>15 DEF Inv

\* When as many targets are placed as the release has, all are.
LEMMA SortEndKeeps == ASSUME Inv, SortEnd PROVE Inv'
<1>1. /\ TypeOK /\ Sorting /\ DependenciesFirst /\ pc = "sort" /\ pc' = "ordered"
      /\ Len(out) = Len(TargetSeq) /\ out \in Seq(Ids) /\ Distinct(out)
      /\ UNCHANGED <<dependsOn, incoming, ready, seen, left, out>>
  BY DEF Inv, SortEnd, TypeOK, DependenciesFirst, Distinct
<1>2. ToSet(out) = Ids
  <2>1. ToSet(out) \in SUBSET Ids /\ Cardinality(ToSet(out)) = Cardinality(Ids)
    BY <1>1, DistinctLength, IdsFinite
  <2> QED
    BY <2>1, IdsFinite, FS_Subset
<1>3. TypeOK'
  BY <1>1 DEF TypeOK, Ends
<1>4. VerdictIsRight'
  BY <1>1 DEF Sorting, VerdictIsRight, Complete, Orderable
<1>5. DependenciesFirst'
  BY <1>1, <1>2 DEF DependenciesFirst
<1> QED
  BY <1>1, <1>3, <1>4, <1>5 DEF Inv

\* Every step keeps the invariant.
LEMMA NextInv == Inv /\ [Next]_vars => Inv'
<1> SUFFICES ASSUME Inv, [Next]_vars PROVE Inv'
  OBVIOUS
<1>1. CASE UNCHANGED vars
  <2>0. UNCHANGED <<dependsOn, pc, incoming, ready, seen, left, out>>
    BY <1>1 DEF vars
  <2>1. (Complete' <=> Complete) /\ (Orderable' <=> Orderable) /\ Taken' = Taken
    BY <2>0 DEF Complete, Orderable, Taken
  <2>2. Walking => Walking'
    BY <2>0, <2>1 DEF Walking, Ranked
  <2>3. Sorting => Sorting'
    BY <2>0, <2>1 DEF Sorting
  <2>4. VerdictIsRight' /\ DependenciesFirst' /\ TypeOK'
    BY <2>0, <2>1 DEF Inv, VerdictIsRight, DependenciesFirst, TypeOK
  <2> QED
    BY <2>0, <2>2, <2>3, <2>4, Zenon DEF Inv
<1> QED
  BY <1>1, CountKeeps, WalkKeeps, WalkEndKeeps, BatchKeeps, SortEndKeeps DEF Next

-----------------------------------------------------------------------------
\* What follows

\* The counts, the queue and the order stay what they are; no count goes below zero
\* or above the length of the longest list.
THEOREM OrderTypes == Spec => []TypeOK
<1>1. Inv => TypeOK
  BY DEF Inv
<1> QED
  BY <1>1, InitInv, NextInv, PTL DEF Spec

\* topoTargets accepts exactly the releases whose targets can be ordered, for any
\* number of targets, and orderedTargets never stops on one it accepted.
THEOREM VerdictStands == Spec => []VerdictIsRight
<1>1. Inv => VerdictIsRight
  BY DEF Inv
<1> QED
  BY <1>1, InitInv, NextInv, PTL DEF Spec

\* orderedTargets places every target once, after all it depends on.
THEOREM OrderStands == Spec => []DependenciesFirst
<1>1. Inv => DependenciesFirst
  BY DEF Inv
<1> QED
  BY <1>1, InitInv, NextInv, PTL DEF Spec
=============================================================================
