-------------------------- MODULE SupplyChainProofs --------------------------
(***************************************************************************)
(* What a submission has read stays true of the journal until it commits,  *)
(* for any set of documents and releases: the journal's root and snapshot  *)
(* only move forward, and the release accepted last is bound to them.      *)
(***************************************************************************)
EXTENDS SupplyChain, TLAPS

\* What loadRoot lets follow a stored root.
RootFollows(stored, payload) ==
    \/ payload = stored
    \/ stored = None /\ payload = Pinned
    \/ stored # None /\ payload \in Successors(stored)

SnapshotSigned ==
    \E d \in SnapshotDocs :
        d.payload = got.snap /\ verifyThreshold(d, got.root.roles.snapshot)

\* A database whose newest release is bound to its metadata.
Sound(d) ==
    /\ \A r \in d.jobs : r.seq <= d.high
    /\ \A r \in d.jobs : r.seq = d.high => Bound(d.root, d.snap, r)

\* What the submission under way has established, point by point.
Established ==
    /\ pc # "idle" =>
          /\ rel \in Releases
          /\ got.root # None /\ RootFollows(db.root, got.root)
    /\ pc \in {"targets", "update", "sync", "persist"} =>
          got.snap # None /\ Follows(db.snap, got.snap) /\ SnapshotSigned
    /\ pc \in {"update", "sync", "persist"} => Bound(got.root, got.snap, rel)
    /\ pc \in {"sync", "persist"} => ~poisoned /\ rel.seq > db.high /\ rel \in Lines

\* The inductive invariant.  Memory and disk differ only in a poisoned process,
\* and a poisoned process commits nothing.
IInv ==
    /\ TypeOK
    /\ ~poisoned => db = disk
    /\ Sound(db) /\ Sound(disk)
    /\ Established

\* An empty journal satisfies the invariant.
LEMMA InitIInv == Init => IInv
<1> SUFFICES ASSUME Init PROVE IInv
  OBVIOUS
<1>1. NewDatabase \in Database
  BY DEF NewDatabase, Database
<1>2. TypeOK
  <2>1. log \in Seq(Releases) /\ synced \in 0..Len(log)
    BY DEF Init
  <2>2. got \in [root : Payloads(RootDocs) \cup {None}, ts : Payloads(TimestampDocs) \cup {None},
                 snap : Payloads(SnapshotDocs) \cup {None}]
    BY DEF Init, Nothing
  <2> QED
    BY <1>1, <2>1, <2>2 DEF Init, TypeOK
<1>3. Sound(NewDatabase)
  BY DEF Sound, NewDatabase
<1> QED
  BY <1>2, <1>3 DEF Init, IInv, Established

\* A root that loadRoot accepts follows the stored one.
LEMMA LoadRootFollows ==
    ASSUME NEW stored, NEW doc \in RootDocs, loadRoot(stored, doc)
    PROVE  RootFollows(stored, doc.payload)
BY DEF loadRoot, RootFollows, Successors

\* A release that passes the last checks is bound to what was read before.
LEMMA ListedIsBound ==
    ASSUME NEW root, NEW snap, NEW doc \in TargetsDocs, NEW r,
           Listed(root, snap, doc, r),
           \E d \in SnapshotDocs :
               d.payload = snap /\ verifyThreshold(d, root.roles.snapshot)
    PROVE  Bound(root, snap, r)
BY DEF Listed, Bound, authorizeReleaseKey

\* The types of the files and of their payloads.
LEMMA TrustTypes ==
    ASSUME TypeOK
    PROVE  /\ trust.root \in RootDocs /\ trust.ts \in TimestampDocs
           /\ trust.snap \in SnapshotDocs /\ trust.targets \in TargetsDocs
           /\ trust.root.payload \in Payloads(RootDocs)
           /\ trust.ts.payload \in Payloads(TimestampDocs)
           /\ trust.snap.payload \in Payloads(SnapshotDocs)
           /\ trust.root.payload # None /\ trust.snap.payload # None
BY NoneAssumption DEF TypeOK, Payloads

\* A submission that ends without a change leaves the invariant as it was.
LEMMA RefusedKeeps ==
    ASSUME IInv, Refused
    PROVE  IInv'
<1>1. TypeOK'
  BY DEF Refused, Refuse, logVars, IInv, TypeOK, Nothing
<1>2. Established'
  BY DEF Refused, Refuse, Established
<1> QED
  BY <1>1, <1>2 DEF Refused, Refuse, IInv, Sound

\* The first read: loadRoot.
LEMMA SubmitKeeps ==
    ASSUME IInv, NEW r \in Releases, Submit(r)
    PROVE  IInv'
<1>1. TypeOK'
  BY TrustTypes DEF Submit, logVars, IInv, TypeOK, Nothing
<1>2. RootFollows(db.root, trust.root.payload)
  BY TrustTypes, LoadRootFollows DEF IInv, Submit
<1>3. got'.root = trust.root.payload
  BY DEF Submit, Nothing
<1>4. Established'
  BY <1>2, <1>3, TrustTypes DEF Submit, IInv, Established
<1> QED
  BY <1>1, <1>4 DEF Submit, IInv, Sound

\* The second read keeps the first.
LEMMA TimestampKeeps ==
    ASSUME IInv, ReadTimestamp
    PROVE  IInv'
<1> DEFINE kept == [got EXCEPT !.ts = trust.ts.payload]
<1>1. CASE Refused
  BY <1>1, RefusedKeeps
<1>2. CASE /\ pc' = "snapshot" /\ got' = kept
           /\ UNCHANGED <<trust, db, disk, poisoned, logVars, rel, wanted>>
  <2>1. TypeOK'
    BY <1>2, TrustTypes DEF logVars, IInv, TypeOK
  <2>2. got'.root = got.root
    BY <1>2 DEF IInv, TypeOK
  <2>3. Established'
    BY <1>2, <2>2 DEF ReadTimestamp, IInv, Established
  <2> QED
    BY <1>2, <2>1, <2>3 DEF IInv, Sound
<1> QED
  BY <1>1, <1>2 DEF ReadTimestamp, Read

\* The third read: a snapshot that follows the stored one and is signed.
LEMMA SnapshotKeeps ==
    ASSUME IInv, ReadSnapshot
    PROVE  IInv'
<1> DEFINE kept == [got EXCEPT !.ts = None, !.snap = trust.snap.payload]
<1>1. CASE Refused
  BY <1>1, RefusedKeeps
<1>2. CASE /\ Follows(db.snap, trust.snap.payload)
           /\ verifyThreshold(trust.snap, got.root.roles.snapshot)
           /\ pc' = "targets" /\ got' = kept
           /\ UNCHANGED <<trust, db, disk, poisoned, logVars, rel, wanted>>
  <2>1. TypeOK'
    BY <1>2, TrustTypes DEF logVars, IInv, TypeOK
  <2>2. got'.root = got.root /\ got'.snap = trust.snap.payload
    BY <1>2 DEF IInv, TypeOK
  <2>3. SnapshotSigned'
    BY <1>2, <2>2, TrustTypes DEF SnapshotSigned, IInv
  <2>4. Established'
    BY <1>2, <2>2, <2>3, TrustTypes DEF ReadSnapshot, IInv, Established
  <2> QED
    BY <1>2, <2>1, <2>4 DEF IInv, Sound
<1> QED
  BY <1>1, <1>2 DEF ReadSnapshot, Read

\* The last read: the release is bound to what was read before.
LEMMA TargetsKeeps ==
    ASSUME IInv, ReadTargets
    PROVE  IInv'
<1>1. CASE Refused
  BY <1>1, RefusedKeeps
<1>2. CASE /\ Listed(got.root, got.snap, trust.targets, rel)
           /\ pc' = "update" /\ got' = got
           /\ UNCHANGED <<trust, db, disk, poisoned, logVars, rel, wanted>>
  <2>1. TypeOK'
    BY <1>2 DEF logVars, IInv, TypeOK
  <2>2. SnapshotSigned
    BY DEF ReadTargets, IInv, Established
  <2>3. Bound(got.root, got.snap, rel)
    BY <1>2, <2>2, TrustTypes, ListedIsBound DEF SnapshotSigned, IInv
  <2>4. Established'
    BY <1>2, <2>3 DEF ReadTargets, IInv, Established, SnapshotSigned
  <2> QED
    BY <1>2, <2>1, <2>4 DEF IInv, Sound
<1> QED
  BY <1>1, <1>2 DEF ReadTargets, Read

\* The transaction starts in a process that is not poisoned, with a newer release,
\* and leaves the line in the log.
LEMMA UpdateKeeps ==
    ASSUME IInv, Update
    PROVE  IInv'
<1>1. CASE Refused
  BY <1>1, RefusedKeeps
<1>2. CASE /\ ~poisoned /\ ~(rel.seq <= db.high)
           /\ Record
           /\ UNCHANGED <<trust, db, disk, poisoned, rel, got, wanted>>
  <2>1. rel \in Releases /\ rel.seq > db.high
    BY <1>2, NumbersAssumption DEF Update, IInv, Established, TypeOK, Database
  <2>2. /\ log' \in Seq(Releases) /\ synced' \in 0..Len(log')
        /\ torn' = torn /\ rel \in Lines' /\ pc' \in {"sync", "persist"}
    <3>1. CASE rel \in Lines
      BY <1>2, <3>1 DEF Record, logVars, IInv, TypeOK, Lines
    <3>2. CASE rel \notin Lines
      <4>1. log' = Append(log, rel) /\ synced' = synced /\ torn' = torn /\ pc' = "sync"
        BY <1>2, <3>2 DEF Record
      <4>2. log \in Seq(Releases) /\ synced \in 0..Len(log)
        BY DEF IInv, TypeOK
      <4>3. log' \in Seq(Releases) /\ Len(log') = Len(log) + 1 /\ log'[Len(log) + 1] = rel
        BY <2>1, <4>1, <4>2
      <4>4. synced' \in 0..Len(log')
        BY <4>1, <4>2, <4>3
      <4>5. rel \in Lines'
        BY <4>2, <4>3 DEF Lines
      <4> QED
        BY <4>1, <4>3, <4>4, <4>5
    <3> QED
      BY <3>1, <3>2
  <2>3. TypeOK'
    BY <1>2, <2>2 DEF IInv, TypeOK
  <2>4. Established'
    BY <1>2, <2>1, <2>2 DEF Update, IInv, Established, SnapshotSigned
  <2> QED
    BY <1>2, <2>3, <2>4 DEF IInv, Sound
<1>3. CASE /\ torn' = TRUE /\ Refuse
           /\ UNCHANGED <<trust, db, disk, poisoned, log, synced, wanted>>
  <2>1. TypeOK'
    BY <1>3 DEF Refuse, Nothing, IInv, TypeOK
  <2>2. Established'
    BY <1>3 DEF Refuse, Established
  <2> QED
    BY <1>3, <2>1, <2>2 DEF IInv, Sound
<1> QED
  BY <1>1, <1>2, <1>3 DEF Update

\* The sync changes only what is known to be on stable storage.
LEMMA SyncKeeps ==
    ASSUME IInv, Sync
    PROVE  IInv'
<1>1. CASE Refused
  BY <1>1, RefusedKeeps
<1>2. CASE /\ synced' = Len(log) /\ pc' = "persist"
           /\ UNCHANGED <<trust, db, disk, poisoned, log, torn, rel, got, wanted>>
  <2>1. synced' \in 0..Len(log')
    BY <1>2 DEF IInv, TypeOK
  <2>2. TypeOK'
    BY <1>2, <2>1 DEF IInv, TypeOK
  <2>3. Established'
    BY <1>2 DEF Sync, IInv, Established, SnapshotSigned, Lines
  <2> QED
    BY <1>2, <2>2, <2>3 DEF IInv, Sound
<1> QED
  BY <1>1, <1>2 DEF Sync

\* The database a submission commits is of the right type and sound.
LEMMA AcceptingSound ==
    ASSUME IInv, pc = "persist"
    PROVE  Accepting \in Database /\ Sound(Accepting)
<1>1. /\ rel \in Releases /\ got.root # None /\ got.snap # None
      /\ Bound(got.root, got.snap, rel) /\ rel.seq > db.high
  BY DEF IInv, Established
<1>2. /\ db.jobs \in SUBSET Releases /\ db.high \in Nat
      /\ got.root \in Payloads(RootDocs) \cup {None}
      /\ got.snap \in Payloads(SnapshotDocs) \cup {None}
  BY DEF IInv, TypeOK, Database
<1>3. rel.seq \in Nat
  BY <1>1, NumbersAssumption
<1>4. /\ Accepting.jobs = db.jobs \cup {rel} /\ Accepting.high = rel.seq
      /\ Accepting.root = got.root /\ Accepting.snap = got.snap
  BY DEF Accepting
<1>5. Accepting \in Database
  BY <1>1, <1>2, <1>3 DEF Accepting, Database
<1>6. \A r \in db.jobs : r.seq \in Nat /\ r.seq <= db.high
  BY <1>2, NumbersAssumption DEF IInv, Sound
<1>7. \A r \in db.jobs : r.seq < rel.seq
  BY <1>1, <1>2, <1>3, <1>6
<1>8. ASSUME NEW r \in Accepting.jobs
      PROVE  r.seq <= Accepting.high
             /\ (r.seq = Accepting.high => Bound(Accepting.root, Accepting.snap, r))
  <2>1. CASE r = rel
    BY <2>1, <1>1, <1>3, <1>4
  <2>2. CASE r \in db.jobs
    <3>1. r.seq \in Nat /\ r.seq < rel.seq
      BY <2>2, <1>6, <1>7
    <3>2. r.seq <= rel.seq /\ r.seq # rel.seq
      BY <3>1, <1>3
    <3> QED
      BY <3>2, <1>4
  <2> QED
    BY <1>4, <1>8, <2>1, <2>2
<1> QED
  BY <1>5, <1>8 DEF Sound

\* The commit.
LEMMA PersistKeeps ==
    ASSUME IInv, Persist
    PROVE  IInv'
<1>1. Accepting \in Database /\ Sound(Accepting)
  BY AcceptingSound DEF Persist
<1>2. ~poisoned /\ db = disk
  BY DEF Persist, IInv, Established
<1>3. /\ db' \in {db, Accepting} /\ disk' \in {disk, Accepting}
      /\ poisoned' \in BOOLEAN /\ (~poisoned' => db' = disk')
  BY <1>2 DEF Persist, IInv, TypeOK
<1>4. TypeOK'
  BY <1>1, <1>3 DEF Persist, Refuse, Nothing, logVars, IInv, TypeOK
<1>5. Established'
  BY DEF Persist, Refuse, Established
<1>6. Sound(db') /\ Sound(disk')
  BY <1>1, <1>3 DEF IInv
<1> QED
  BY <1>3, <1>4, <1>5, <1>6 DEF IInv, Sound

\* The end of a job changes neither the metadata nor the releases.
LEMMA FinishKeeps ==
    ASSUME IInv, Finish
    PROVE  IInv'
<1>1. db \in Database
  BY DEF IInv, TypeOK
<1>2. /\ db' = [db EXCEPT !.active = None] /\ disk' = db'
  BY DEF Finish
<1>3. db' \in Database
  BY <1>1, <1>2 DEF Database
<1>4. db'.jobs = db.jobs /\ db'.high = db.high /\ db'.root = db.root /\ db'.snap = db.snap
  BY <1>1, <1>2 DEF Database
<1>5. Sound(db') /\ Sound(disk')
  BY <1>2, <1>4 DEF IInv, Sound
<1>6. TypeOK'
  BY <1>2, <1>3 DEF Finish, logVars, IInv, TypeOK
<1>7. Established'
  BY DEF Finish, Established
<1> QED
  BY <1>2, <1>5, <1>6, <1>7 DEF IInv, Sound

\* What is published while a submission runs does not touch what it has read.
LEMMA PublishKeeps ==
    ASSUME IInv, Publish
    PROVE  IInv'
<1>1. UNCHANGED <<db, disk, poisoned, log, synced, torn, pc, rel, got, wanted>>
  BY DEF Publish, logVars
<1>2. trust' \in [root : RootDocs, ts : TimestampDocs, snap : SnapshotDocs, targets : TargetsDocs]
  BY DEF Publish, IInv, TypeOK
<1>3. TypeOK'
  BY <1>1, <1>2 DEF IInv, TypeOK
<1>4. Established'
  BY <1>1 DEF IInv, Established, SnapshotSigned, Lines
<1> QED
  BY <1>1, <1>3, <1>4 DEF IInv, Sound

\* A stop ends the submission, and the journal is read from disk again.
LEMMA StopKeeps ==
    ASSUME IInv, Restart \/ LosePower
    PROVE  IInv'
<1>1. db' = disk /\ disk' = disk /\ poisoned' = FALSE /\ trust' = trust /\ wanted' = wanted /\ Refuse
  BY DEF Restart, LosePower
<1>2. log' \in Seq(Releases) /\ synced' \in 0..Len(log') /\ torn' \in BOOLEAN
  <2>1. log \in Seq(Releases) /\ synced \in 0..Len(log) /\ torn \in BOOLEAN
    BY DEF IInv, TypeOK
  <2>2. CASE Restart
    BY <2>1, <2>2 DEF Restart, logVars
  <2>3. CASE LosePower
    <3>1. PICK n \in synced..Len(log) :
              /\ log' = SubSeq(log, 1, n) /\ synced' = n
              /\ torn' \in IF n < Len(log) THEN {torn, TRUE} ELSE {torn}
      BY <2>3 DEF LosePower
    <3>2. n \in Nat /\ n <= Len(log)
      BY <2>1, <3>1
    <3>3. log' \in Seq(Releases) /\ Len(log') = n
      BY <2>1, <3>1, <3>2
    <3>4. synced' \in 0..Len(log')
      BY <3>1, <3>2, <3>3
    <3>5. torn' = torn \/ torn' = TRUE
      BY <3>1
    <3>6. torn' \in BOOLEAN
      BY <2>1, <3>5
    <3> QED
      BY <3>3, <3>4, <3>6
  <2> QED
    BY <2>2, <2>3
<1>3. TypeOK'
  BY <1>1, <1>2 DEF Refuse, Nothing, IInv, TypeOK
<1>4. Established'
  BY <1>1 DEF Refuse, Established
<1> QED
  BY <1>1, <1>3, <1>4 DEF IInv, Sound

\* Every step keeps the invariant.
LEMMA NextKeeps == IInv /\ [Next]_vars => IInv'
<1> SUFFICES ASSUME IInv, [Next]_vars PROVE IInv'
  OBVIOUS
<1>1. CASE UNCHANGED vars \/ Settle
  <2>1. /\ UNCHANGED <<trust, db, disk, poisoned, log, synced, torn, pc, rel, got>>
        /\ wanted' \in Releases \cup {None}
    BY <1>1 DEF vars, logVars, Settle, IInv, TypeOK
  <2>2. TypeOK'
    BY <2>1 DEF IInv, TypeOK
  <2>3. Established'
    BY <2>1 DEF IInv, Established, SnapshotSigned, Lines
  <2> QED
    BY <2>1, <2>2, <2>3 DEF IInv, Sound
<1>2. CASE Submission
  BY <1>2, SubmitKeeps, TimestampKeeps, SnapshotKeeps, TargetsKeeps, UpdateKeeps,
     SyncKeeps, PersistKeeps DEF Submission
<1> QED
  BY <1>1, <1>2, FinishKeeps, PublishKeeps, StopKeeps DEF Next

\* IInv is an invariant.
THEOREM Invariance == Spec => []IInv
BY InitIInv, NextKeeps, PTL DEF Spec

\* Whatever is refused, fails or is cut off, the journal holds metadata of the four
\* kinds, and no more lines count as synced than the log has.
THEOREM AdmissionTypes == Spec => []TypeOK
<1>1. IInv => TypeOK
  BY DEF IInv
<1> QED
  BY <1>1, Invariance, PTL

\* The release accepted last is bound to the metadata in the journal.
THEOREM AcceptedBound == Spec => []AcceptedIsBound
<1>1. IInv => AcceptedIsBound
  BY DEF IInv, Sound, AcceptedIsBound
<1> QED
  BY <1>1, Invariance, PTL

\* What a step does to the journal: nothing, the end of a job, or the commit of a
\* release whose line is in the log.
LEMMA JournalStep ==
    ASSUME IInv, [Next]_vars
    PROVE  \/ /\ disk'.root = disk.root /\ disk'.snap = disk.snap
              /\ disk'.jobs = disk.jobs
           \/ /\ pc = "persist" /\ db = disk
              /\ disk'.root = got.root /\ disk'.snap = got.snap
              /\ disk'.jobs = disk.jobs \cup {rel} /\ Lines' = Lines
<1>1. CASE Persist
  <2>1. db = disk
    BY <1>1 DEF Persist, IInv, Established
  <2>2. Lines' = Lines
    BY <1>1 DEF Persist, logVars, Lines
  <2>3. disk' = disk \/ disk' = Accepting
    BY <1>1 DEF Persist
  <2> QED
    BY <1>1, <2>1, <2>2, <2>3 DEF Persist, Accepting
<1>2. CASE Finish
  <2>1. db \in Database /\ db = disk
    BY <1>2 DEF Finish, IInv, TypeOK
  <2> QED
    BY <1>2, <2>1 DEF Finish, Database
<1>3. CASE disk' = disk
  BY <1>3
<1>4. Persist \/ Finish \/ disk' = disk
  BY DEF Next, Submission, Submit, ReadTimestamp, ReadSnapshot, ReadTargets, Read, Refused,
         Update, Sync, Publish, Restart, LosePower, Settle, vars
<1> QED
  BY <1>1, <1>2, <1>3, <1>4

\* The stored root changes only to a newer one that the stored root's keys signed.
THEOREM RootMovesForward == Spec => RootSucceeds
<1>1. IInv /\ [Next]_vars =>
        [disk'.root # disk.root =>
             IF disk.root = None THEN disk'.root = Pinned
                                 ELSE disk'.root \in Successors(disk.root)]_vars
  <2> SUFFICES ASSUME IInv, [Next]_vars, disk'.root # disk.root
               PROVE  IF disk.root = None THEN disk'.root = Pinned
                                          ELSE disk'.root \in Successors(disk.root)
    OBVIOUS
  <2>1. pc = "persist" /\ db = disk /\ disk'.root = got.root
    BY JournalStep
  <2>2. RootFollows(db.root, got.root)
    BY <2>1 DEF IInv, Established
  <2> QED
    BY <2>1, <2>2 DEF RootFollows
<1> QED
  BY <1>1, Invariance, PTL DEF Spec, RootSucceeds

\* The stored snapshot never goes back and never changes under its version.
THEOREM SnapshotMovesForward == Spec => SnapshotMonotone
<1>1. IInv /\ [Next]_vars =>
        [disk.snap # None =>
             disk'.snap = disk.snap \/ disk'.snap.version > disk.snap.version]_vars
  <2> SUFFICES ASSUME IInv, [Next]_vars, disk.snap # None, disk'.snap # disk.snap
               PROVE  disk'.snap.version > disk.snap.version
    OBVIOUS
  <2>1. pc = "persist" /\ db = disk /\ disk'.snap = got.snap
    BY JournalStep
  <2>2. Follows(db.snap, got.snap)
    BY <2>1 DEF IInv, Established
  <2> QED
    BY <2>1, <2>2 DEF Follows
<1> QED
  BY <1>1, Invariance, PTL DEF Spec, SnapshotMonotone

\* A release is in the journal only after its line is in the log.
THEOREM LineFirst == Spec => LineBeforeJob
<1>1. IInv /\ [Next]_vars => [disk'.jobs \subseteq disk.jobs \cup Lines']_vars
  <2> SUFFICES ASSUME IInv, [Next]_vars
               PROVE  disk'.jobs \subseteq disk.jobs \cup Lines'
    OBVIOUS
  <2>1. CASE disk'.jobs = disk.jobs
    BY <2>1
  <2>2. CASE pc = "persist" /\ disk'.jobs = disk.jobs \cup {rel} /\ Lines' = Lines
    BY <2>2 DEF IInv, Established
  <2> QED
    BY <2>1, <2>2, JournalStep
<1> QED
  BY <1>1, Invariance, PTL DEF Spec, LineBeforeJob

\* What a step does to the log: nothing, a line for a release that has none, or the
\* loss of the lines at its end.
LEMMA LogStep ==
    ASSUME IInv, [Next]_vars
    PROVE  \/ log' = log
           \/ rel \notin Lines /\ log' = Append(log, rel)
           \/ \E n \in 0..Len(log) : log' = SubSeq(log, 1, n)
<1>1. CASE Update
  BY <1>1 DEF Update, Refused, logVars, Record
<1>2. CASE LosePower
  <2>1. PICK n \in synced..Len(log) : log' = SubSeq(log, 1, n)
    BY <1>2 DEF LosePower
  <2>2. n \in 0..Len(log)
    BY DEF IInv, TypeOK
  <2> QED
    BY <2>1, <2>2
<1>3. CASE \E r \in Releases : Submit(r)
  BY <1>3 DEF Submit, logVars
<1>4. CASE \/ ReadTimestamp \/ ReadSnapshot \/ ReadTargets \/ Sync \/ Persist
           \/ Finish \/ Publish \/ Restart \/ Settle \/ UNCHANGED vars
  BY <1>4 DEF ReadTimestamp, ReadSnapshot, ReadTargets, Read, Refused, Sync, Persist, Finish,
     Publish, Restart, Settle, logVars, vars
<1> QED
  BY <1>1, <1>2, <1>3, <1>4 DEF Next, Submission

\* A release has at most one line in transparency.log: appendTransparency looks for
\* it before it writes, whichever attempt failed at whichever point.
THEOREM OneLine == Spec => []LoggedOnce
<1>1. Init => LoggedOnce
  BY DEF Init, LoggedOnce
<1>2. IInv /\ LoggedOnce /\ [Next]_vars => LoggedOnce'
  <2> SUFFICES ASSUME IInv, LoggedOnce, [Next]_vars,
                      NEW i \in DOMAIN log', NEW j \in DOMAIN log', log'[i] = log'[j]
               PROVE  i = j
    BY DEF LoggedOnce
  <2>1. log \in Seq(Releases) /\ Len(log) \in Nat /\ DOMAIN log = 1..Len(log)
    BY DEF IInv, TypeOK
  <2>2. CASE log' = log
    BY <2>2 DEF LoggedOnce
  <2>3. CASE rel \notin Lines /\ log' = Append(log, rel)
    <3>1. /\ DOMAIN log' = 1..(Len(log) + 1)
          /\ log'[Len(log) + 1] = rel
          /\ \A n \in DOMAIN log : log'[n] = log[n]
      BY <2>1, <2>3
    <3>2. \A n \in DOMAIN log : log'[n] # rel
      BY <2>3, <3>1 DEF Lines
    <3>3. \A n \in DOMAIN log' : n \in DOMAIN log \/ n = Len(log) + 1
      BY <2>1, <3>1
    <3> QED
      BY <3>1, <3>2, <3>3 DEF LoggedOnce
  <2>4. CASE \E n \in 0..Len(log) : log' = SubSeq(log, 1, n)
    <3>1. PICK n \in 0..Len(log) : log' = SubSeq(log, 1, n)
      BY <2>4
    <3>2. /\ DOMAIN log' \subseteq DOMAIN log
          /\ \A k \in DOMAIN log' : log'[k] = log[k]
      BY <2>1, <3>1
    <3> QED
      BY <3>2 DEF LoggedOnce
  <2> QED
    BY <2>2, <2>3, <2>4, LogStep
<1> QED
  BY <1>1, <1>2, Invariance, PTL DEF Spec
=============================================================================
