----------------------------- MODULE BootProofs -----------------------------
(***************************************************************************)
(* Proofs about which slot the device boots, for every set of jobs and     *)
(* releases, every limit and any number of faults: confirmNormalBoot       *)
(* recognizes the slot that runs, as long as the journal still holds the   *)
(* latest completed job and that job replaced an image; and some slot      *)
(* stays bootable, as long as no installation begins on a device that runs *)
(* from a slot it could not boot again.                                    *)
(*                                                                         *)
(* Neither property says anything about a job under way, so neither is     *)
(* inductive.  The argument: while no job is under way each slot holds     *)
(* what the latest completed job vouches for, or no boot leads to it any   *)
(* more (Lost); while a job is under way this is known of its old slot     *)
(* (Trusted), and the state of the job tells where the boot selection      *)
(* stands (Stage).  A write that fails leaves the disk ahead of the        *)
(* memory by one save of the active job (Kin), and the engine goes on      *)
(* driving the device from memory; so all of this is claimed of both.      *)
(***************************************************************************)
EXTENDS DeviceProofs

\* The prover of every leaf that names no other.
USE Zenon

\* The completed jobs of a database, and the latest of them.
Ended(b) == {id \in JobIDs : b.jobs[id].state \in {"committed", "rolled_back"}}

Newest(b, id) ==
    /\ id \in Ended(b)
    /\ \A other \in Ended(b) : b.jobs[other].asg.seq <= b.jobs[id].asg.seq

HasNewest(b) == Ended(b) # {} => \E id \in JobIDs : Newest(b, id)

\* The archive arc holds a job that is at least as new.
Overtaken(b, arc, id) ==
    \E old \in JobIDs : arc[old].state # "absent" /\ arc[old].asg.seq >= b.jobs[id].asg.seq

\* The job confirmNormalBoot goes by, provided that it replaced an image and that
\* no newer one has left the journal.
Witness(b, arc, id) == Newest(b, id) /\ b.jobs[id].asg.os /\ ~Overtaken(b, arc, id)

\* The version a completed job vouches for on a slot (KnownVersion).
Known(j, s) ==
    IF j.state = "committed" /\ j.targetSlot = s THEN j.asg.version
    ELSE IF j.oldSlot = s THEN j.oldVersion ELSE ""

Vouches(j, s, d) == Known(j, s) = d.version[s]

\* No boot leads to this slot any more.
Lost(s, d) ==
    /\ s # d.booted /\ s # d.primary
    /\ d.mark[s] # "good"
    /\ Backend = "rauc" => d.mark[s] = "bad"

Running(b) == HasActive(b) /\ Active(b).state \in Underway

Trusted(b, arc, d) ==
    \A id \in JobIDs : Witness(b, arc, id) =>
        IF Running(b)
        THEN Vouches(b.jobs[id], Active(b).oldSlot, d)
        ELSE \A s \in Slots : Vouches(b.jobs[id], s, d) \/ Lost(s, d)

\* The boot selection once the image is installed, and from the next boot on.
Switched(j, d) ==
    d.booted = j.oldSlot /\ d.primary = j.targetSlot /\ d.mark[j.targetSlot] # "good"

Tried(j, d) ==
    \/ /\ d.booted = j.targetSlot
       /\ \/ d.primary = j.targetSlot
          \/ j.state = "rollback_pending" /\ d.mark[j.targetSlot] = "bad"
    \/ d.booted # j.targetSlot /\ Lost(j.targetSlot, d)

Stage(j, d) ==
    /\ j.state = "awaiting_reboot" =>
          IF j.bootID = d.bootID THEN Switched(j, d) ELSE Tried(j, d)
    /\ j.state \in {"checking_health", "committing", "rollback_pending"} => Tried(j, d)

\* The active job is newer than every other job of the journal.
Ahead(b) ==
    HasActive(b) =>
        \A id \in JobIDs \ {b.active} :
            b.jobs[id].state # "absent" => b.jobs[id].asg.seq < Active(b).asg.seq

\* What holds of each copy of the database.
Fit(b, arc, d) ==
    /\ Trusted(b, arc, d)
    /\ \A id \in JobIDs : Stage(b.jobs[id], d)
    /\ \A id \in JobIDs : b.jobs[id].state \in Underway => b.jobs[id].asg.os
    /\ Ahead(b)
    /\ d.operation = "installing" => Running(b)

\* Archived jobs are as old as the high-water mark and a reused identifier say.
Archived(b, arc) ==
    \A id \in JobIDs :
        arc[id].state # "absent" =>
            /\ arc[id].asg.seq <= b.high
            /\ b.jobs[id].state # "absent" => arc[id].asg.seq <= b.jobs[id].asg.seq

\* The record k is the record j, or what a save makes of it.
Heir(j, k) ==
    /\ Follows(j.state, k.state)
    /\ j.state \in Underway => k.oldSlot = j.oldSlot /\ k.targetSlot = j.targetSlot

\* The database c is b, or b after one more transaction.
Kin(b, c, d) ==
    /\ HasActive(b) =>
          /\ \A id \in JobIDs : c.jobs[id].state \in Waiting \cup Underway => id = b.active
          /\ Heir(Active(b), c.jobs[b.active])
          /\ Active(b).state \in Underway /\ c.jobs[b.active].state \in {"rolled_back", "failed"}
                => Lost(Active(b).targetSlot, d)
    /\ ~HasActive(b) => \A id \in JobIDs : c.jobs[id].state \notin Underway

Related(b, c, arc, d) ==
    Fit(b, arc, d) /\ Fit(c, arc, d) /\ Archived(c, arc) /\ Kin(b, c, d)

\* The save w of the active job j that is about to be written.
Due(w, j, d) ==
    /\ Heir(j, w.job)
    /\ j.state \in Underway => w.job.oldVersion = j.oldVersion
    /\ Stage(w.job, d)
    /\ w.job.state \in Underway => w.job.asg.os
    /\ w.job.state \notin Underway => d.operation = "idle"
    /\ w.job.state = "rolled_back" \/ (w.job.state = "committed" /\ w.job.asg.os) =>
          j.state \in Underway
    /\ w.job.state \in {"rolled_back", "failed"} /\ j.state \in Underway =>
          Lost(j.targetSlot, d)
    /\ w.job.state = "awaiting_reboot" =>
          j.state = "awaiting_reboot" \/ d.booted = j.oldSlot
    /\ IF w.next = "install" THEN w.job.bootID = d.bootID
       ELSE w.job.oldSlot = j.oldSlot /\ w.job.oldVersion = j.oldVersion

\* The device at each point of an operation on the active job j.
At(point, j, d) ==
    /\ point = "preinstall" => j.asg.os
    /\ point \in {"install", "flashing", "inspect"} =>
          j.bootID = d.bootID /\ d.booted = j.oldSlot
    /\ point \in {"flashing", "inspect"} => d.mark[j.targetSlot] # "good"
    /\ point = "rollback" => d.booted = j.targetSlot
    /\ point = "abort" => d.booted = j.oldSlot
    /\ point \in {"rollback", "abort"} => d.mark[j.targetSlot] = "bad"
    /\ point = "aborted" => Lost(j.targetSlot, d)
    /\ point = "fallback" => GoodOf(d, Other(d))
    /\ point \in {"rollback", "abort", "aborted", "fallback"} => d.operation = "idle"

Pending ==
    /\ pc = "write" => Due(write, Active(db), dev)
    /\ At(pc, Active(db), dev)
    /\ pc = "fallback" => ~HasActive(db)

BInv == JInv /\ DInv /\ Related(db, disk, archive, dev) /\ Pending

-----------------------------------------------------------------------------
\* Slots, records and points of an operation

\* There are two slots.
LEMMA TwoSlots ==
    ASSUME NEW s \in Slots, NEW t \in Slots, s # t
    PROVE  \A u \in Slots : u = s \/ u = t
BY DEF Slots

\* What a boot changes.
LEMMA BootFields ==
    ASSUME NEW d \in DeviceState, NEW s \in Slots
    PROVE  LET e == BootedInto(d, s) IN
           /\ e.bootID = d.bootID + 1 /\ e.bootID > d.bootID
           /\ e.booted = s /\ e.primary = s
           /\ e.operation = "idle" /\ e.version = d.version
           /\ \A t \in Slots :
                 e.mark[t] = IF Backend = "rauc" /\ t = d.primary /\ s # t THEN "bad" ELSE d.mark[t]
<1>1. d.bootID \in Nat /\ d.bootID + 1 > d.bootID
  BY SMT DEF DeviceState
<1>2. LET e == BootedInto(d, s) IN
      /\ e.bootID = d.bootID + 1
      /\ e.booted = s /\ e.primary = s
      /\ e.operation = "idle" /\ e.version = d.version
      /\ e.mark = [d.mark EXCEPT ![d.primary] =
                     IF Backend = "rauc" /\ s # d.primary THEN "bad" ELSE d.mark[d.primary]]
  BY DEF BootedInto, DeviceState
<1>3. d.mark \in [Slots -> Marks] /\ d.primary \in Slots
  BY DEF DeviceState
<1>. QED  BY <1>1, <1>2, <1>3

\* The databases and the device have their types.
LEMMA BootTypes ==
    ASSUME BInv
    PROVE  /\ db \in Database /\ disk \in Database /\ dev \in DeviceState
           /\ archive \in [JobIDs -> Job]
           /\ WellFormed(db) /\ WellFormed(disk)
           /\ ~poisoned => disk = db
           /\ SafeAll(db, dev, proven) /\ SafeAll(disk, dev, proven)
BY DEF BInv, JInv, DInv, Inv, TypeOK, Core, InStep, Guarded

\* A record has a sequence number, 0 if there is no job.
LEMMA JobSeq == \A j \in Job : j.asg.seq \in Nat
<1>1. \A a \in Assignments : a.seq \in Nat
  BY AssignmentsAssumption DEF Assignment
<1>2. NoAssignment.seq = 0
  BY DEF NoAssignment
<1>3. \A j \in Job : j.asg \in Assignments \/ j.asg = NoAssignment
  BY DEF Job
<1>. QED  BY <1>1, <1>2, <1>3, SMT

\* A job that has not finished is the active one.
LEMMA Unfinished ==
    ASSUME NEW b, WellFormed(b), NEW id \in JobIDs, b.jobs[id].state \in Waiting \cup Underway
    PROVE  HasActive(b) /\ b.active = id /\ Active(b) = b.jobs[id]
<1>1. b.jobs[id].state # "absent" /\ ~Terminal(b.jobs[id].state)
  BY DEF Waiting, Underway, Terminal, Finished
<1>. QED  BY <1>1, JobsAssumption DEF WellFormed, HasActive, Active

\* The records that may be under way beside the active job.
LEMMA Twins ==
    ASSUME BInv, NEW c \in {db, disk}, NEW id \in JobIDs, c.jobs[id].state \in Underway
    PROVE  /\ HasActive(db) /\ id = db.active
           /\ Follows(Active(db).state, c.jobs[id].state)
           /\ Active(db).state \in Underway => c.jobs[id].targetSlot = Active(db).targetSlot
<1>1. CASE c = db
  <2>1. HasActive(db) /\ id = db.active /\ Active(db) = db.jobs[id]
    BY <1>1, BootTypes, Unfinished
  <2>. QED  BY <1>1, <2>1 DEF Follows
<1>2. CASE c = disk
  <2>1. Kin(db, disk, dev)
    BY DEF BInv, Related
  <2>2. HasActive(db) /\ id = db.active
    BY <1>2, <2>1 DEF Kin
  <2>. QED  BY <1>2, <2>1, <2>2 DEF Kin, Heir
<1>. QED  BY <1>1, <1>2

\* States that say nothing about the boot selection.
LEMMA NoStage ==
    ASSUME NEW j, NEW d,
           j.state \notin {"awaiting_reboot", "checking_health", "committing", "rollback_pending"}
    PROVE  Stage(j, d)
BY DEF Stage

\* A factory device and an empty journal.
LEMMA InitBInv == Init => BInv
<1>. SUFFICES ASSUME Init
              PROVE  BInv
  OBVIOUS
<1>1. JInv /\ DInv
  BY InitJInv, InitDInv
<1>2. /\ db = EmptyDatabase /\ disk = EmptyDatabase /\ dev = FactoryDevice /\ pc = "idle"
      /\ \A id \in JobIDs : EmptyDatabase.jobs[id] = NoJob /\ archive[id] = NoJob
      /\ NoJob.state = "absent" /\ ~HasActive(EmptyDatabase)
  BY DEF Init, EmptyDatabase, NoJob, HasActive
<1>3. dev.operation = "idle"
  BY <1>2 DEF FactoryDevice
<1>4. Trusted(db, archive, dev)
  BY <1>2 DEF Trusted, Witness, Newest, Ended
<1>5. \A id \in JobIDs : Stage(db.jobs[id], dev) /\ db.jobs[id].state \notin Underway
  BY <1>2, NoStage DEF Underway
<1>6. Fit(db, archive, dev)
  BY <1>2, <1>3, <1>4, <1>5 DEF Fit, Ahead
<1>7. Archived(disk, archive) /\ Kin(db, disk, dev)
  BY <1>2, <1>5 DEF Archived, Kin
<1>8. Pending
  BY <1>2 DEF Pending, At
<1>. QED  BY <1>1, <1>2, <1>6, <1>7, <1>8 DEF BInv, Related

-----------------------------------------------------------------------------
\* BInv is inductive

\* Every step keeps the invariant.
LEMMA NextBInv == BInv /\ [Next]_vars => BInv'
\* A step that leaves memory, disk and device alone.
<1>Calm.
    ASSUME BInv, UNCHANGED <<db, disk, archive, dev>>
    PROVE  Related(db', disk', archive', dev')
  BY <1>Calm DEF BInv
\* Points that say nothing about the device.
<1>MovePending.
    ASSUME pc' \in {"idle", "apply", "copy", "reboot", "commit", "rebootJob", "confirm"}
    PROVE  Pending'
  BY <1>MovePending DEF Pending, At
\* An operation that stays where it is.
<1>KeepPending.
    ASSUME BInv, UNCHANGED <<pc, write, dev>>, db'.jobs = db.jobs, db'.active = db.active
    PROVE  Pending'
  <2>. USE <1>KeepPending
  <2>1. Active(db') = Active(db) /\ (HasActive(db') <=> HasActive(db))
    BY DEF Active, HasActive
  <2>. QED  BY <2>1 DEF BInv, Pending
\* A database is related to itself.
<1>SelfKin.
    ASSUME NEW b \in Database, WellFormed(b), NEW d
    PROVE  Kin(b, b, d)
  <2>. USE <1>SelfKin
  <2>1. ASSUME NEW id \in JobIDs, b.jobs[id].state \in Waiting \cup Underway
        PROVE  b.active = id /\ HasActive(b)
    <3>1. b.jobs[id].state # "absent" /\ ~Terminal(b.jobs[id].state)
      BY <2>1 DEF Waiting, Underway, Terminal, Finished
    <3>. QED  BY <3>1, JobsAssumption DEF WellFormed, HasActive
  <2>2. HasActive(b) => Active(b).state \in Waiting \cup Underway /\ Active(b) = b.jobs[b.active]
    BY DEF WellFormed, Active
  <2>3. {"rolled_back", "failed"} \cap (Waiting \cup Underway) = {}
    BY DEF Waiting, Underway
  <2>. QED  BY <2>1, <2>2, <2>3 DEF Kin, Heir, Follows
\* Where a state of a job comes from.
<1>Origins.
    ASSUME NEW s, NEW t, Follows(s, t)
    PROVE  /\ t \in Waiting => s \in Waiting
           /\ s = "committing" => t # "rollback_pending"
           /\ s = "needs_recovery" => t \in {"needs_recovery", "failed"}
           /\ s = "rollback_pending" => t \in {"rollback_pending", "rolled_back", "needs_recovery"}
           /\ s \in Waiting /\ t \in Underway => t = "installing"
  BY <1>Origins, SMT DEF Follows, Lifecycle!Edges, Waiting, Underway
\* What a transaction leaves an operation at.
<1>TransactionPending.
    ASSUME BInv, DInv',
           \/ WriteJournal \/ (\E a \in Assignments : Submit(a)) \/ Ack
           \/ NormalBootSeen \/ ConfirmBoot
    PROVE  Related(db', disk', archive', dev') /\ Pending'
  <2>. USE <1>TransactionPending
  \* A transaction that fits keeps memory and disk related, whether it succeeds or not.
  <2>UpdateRelated.
      ASSUME BInv, NEW b \in Database, WellFormed(b), NEW arc, NEW next, Update(b, arc, next),
             dev' = dev,
             ~poisoned => /\ Fit(b, arc, dev) /\ Fit(db, arc, dev)
                          /\ Archived(b, arc) /\ Kin(db, b, dev)
      PROVE  Related(db', disk', archive', dev')
    <3>. USE <2>UpdateRelated
    <3>1. Kin(b, b, dev)
      BY <1>SelfKin
    <3>2. CASE ~poisoned /\ db' = b /\ disk' = b /\ archive' = arc
      BY <3>1, <3>2 DEF Related
    <3>3. CASE ~poisoned /\ db' = db /\ disk' = b /\ archive' = arc
      BY <3>3 DEF Related
    <3>4. CASE UNCHANGED <<db, disk, archive>>
      BY <3>4 DEF BInv
    <3>. QED  BY <3>2, <3>3, <3>4, UpdateOutcomes
  \* WriteJournal.
  <2>WriteRelated.
      ASSUME BInv, WriteJournal
      PROVE  Related(db', disk', archive', dev')
    <3>. USE <2>WriteRelated
    \* Two sequence numbers are in one order only.
    <3>NotBoth.
        ASSUME NEW m \in Nat, NEW n \in Nat, m < n
        PROVE  ~(n <= m)
      BY <3>NotBoth, SMT
    \* The database a save writes.
    <3>SavedFit.
        ASSUME NEW b \in Database, WellFormed(b), HasActive(b), NEW arc, NEW d \in DeviceState,
               Fit(b, arc, d), NEW p, Safe(Active(b), d, p),
               NEW w, w.job \in Job, w.job.asg = Active(b).asg, Due(w, Active(b), d),
               Outcome(w.job, d, p),
               w.next = "install" => w.job.oldSlot = d.booted,
               w.job.state \in Underway /\ w.next # "install" => Active(b).state \in Underway,
               NEW e, e.jobs = [b.jobs EXCEPT ![b.active] = w.job],
               e.active = IF Terminal(w.job.state) THEN "" ELSE b.active,
               w.job.state \in States
        PROVE  Fit(e, arc, d) /\ Kin(b, e, d)
      <4>. USE <3>SavedFit
      <4>. DEFINE act == b.active
                  j == Active(b)
                  k == w.job
      <4>1. /\ act \in JobIDs /\ j = b.jobs[act] /\ j.state \in Waiting \cup Underway
            /\ b.jobs \in [JobIDs -> Job]
            /\ j.state \in Underway => j.oldSlot \in Slots /\ j.targetSlot \in Slots
        BY ActiveJob DEF Active, Database
      <4>2. e.jobs[act] = k /\ \A id \in JobIDs \ {act} : e.jobs[id] = b.jobs[id]
        BY <4>1
      <4>3. ASSUME NEW id \in JobIDs \ {act}
            PROVE  b.jobs[id].state \notin Waiting \cup Underway
        <5>1. Terminal(b.jobs[id].state) \/ b.jobs[id].state = "absent"
          BY <4>3 DEF WellFormed
        <5>. QED  BY <5>1 DEF Terminal, Finished, Waiting, Underway
      <4>4. Running(e) <=> k.state \in Underway
        BY <4>1, <4>2, JobsAssumption
           DEF Running, HasActive, Active, Terminal, Finished, Underway
      <4>5. k.state \in Underway => Active(e) = k
        BY <4>2 DEF Active, Terminal, Finished, Underway
      <4>6. j.state \in Underway => j.oldSlot # j.targetSlot /\ d.version[j.oldSlot] = j.oldVersion
        BY DEF Safe
      <4>7. /\ Follows(j.state, k.state)
            /\ j.state \in Underway => /\ k.oldSlot = j.oldSlot /\ k.targetSlot = j.targetSlot
                                       /\ k.oldVersion = j.oldVersion
            /\ k.state \in {"rolled_back", "failed"} /\ j.state \in Underway => Lost(j.targetSlot, d)
            /\ k.state = "rolled_back" \/ (k.state = "committed" /\ k.asg.os) => j.state \in Underway
        BY DEF Due, Heir
      <4>. HIDE DEF act, j, k
      <4>8. Trusted(e, arc, d)
        <5>1. SUFFICES ASSUME NEW id \in JobIDs, Witness(e, arc, id)
                       PROVE  IF Running(e)
                              THEN Vouches(e.jobs[id], Active(e).oldSlot, d)
                              ELSE \A s \in Slots : Vouches(e.jobs[id], s, d) \/ Lost(s, d)
          BY DEF Trusted
        <5>2. CASE k.state \in {"committed", "rolled_back"}
          <6>1. id = act
            <7>1. SUFFICES ASSUME id # act
                           PROVE  FALSE
              OBVIOUS
            <7>2. act \in Ended(e) /\ id \in Ended(e)
              BY <4>1, <4>2, <5>1, <5>2 DEF Ended, Witness, Newest
            <7>3. k.asg.seq <= b.jobs[id].asg.seq
              BY <4>1, <4>2, <5>1, <7>1, <7>2 DEF Witness, Newest
            <7>4. b.jobs[id].state # "absent"
              BY <4>2, <7>1, <7>2 DEF Ended
            <7>5. b.jobs[id].asg.seq < j.asg.seq
              BY <7>1, <7>4 DEF Fit, Ahead, act, j
            <7>6. k.asg = j.asg
              BY DEF j, k
            <7>7. j.asg.seq \in Nat
              BY ActiveJob, AssignmentsAssumption DEF Assignment, j
            <7>8. j.asg.seq <= b.jobs[id].asg.seq
              BY <7>3, <7>6
            <7>9. b.jobs[id].asg.seq \in Nat
              BY <7>4, AssignmentsAssumption DEF WellFormed, Assignment
            <7>. QED  BY <7>5, <7>7, <7>8, <7>9, <3>NotBoth
          <6>2. e.jobs[id] = k /\ k.asg.os
            BY <4>2, <5>1, <6>1 DEF Witness
          <6>3. /\ j.state \in Underway /\ ~Running(e)
                /\ k.oldSlot \in Slots /\ k.targetSlot \in Slots /\ k.oldSlot # k.targetSlot
                /\ d.version[k.oldSlot] = k.oldVersion
            BY <4>1, <4>4, <4>6, <4>7, <5>2, <6>2 DEF Underway
          <6>4. Vouches(k, k.oldSlot, d)
            BY <6>3 DEF Vouches, Known
          <6>5. Vouches(k, k.targetSlot, d) \/ Lost(k.targetSlot, d)
            <7>1. CASE k.state = "committed"
              BY <6>2, <7>1 DEF Vouches, Known, Outcome, Proved, k
            <7>2. CASE k.state = "rolled_back"
              BY <4>7, <6>3, <7>2
            <7>. QED  BY <5>2, <7>1, <7>2
          <6>6. \A s \in Slots : s = k.oldSlot \/ s = k.targetSlot
            BY <6>3, TwoSlots
          <6>. QED  BY <6>2, <6>3, <6>4, <6>5, <6>6
        <5>3. CASE k.state \notin {"committed", "rolled_back"}
          <6>1. act \notin Ended(e) /\ act \notin Ended(b)
            BY <4>1, <4>2, <5>3 DEF Ended, Waiting, Underway
          <6>2. Ended(e) = Ended(b)
            BY <4>2, <6>1 DEF Ended
          <6>3. id # act /\ e.jobs[id] = b.jobs[id]
            BY <4>2, <5>1, <6>1 DEF Witness, Newest
          <6>4. \A other \in Ended(b) : e.jobs[other] = b.jobs[other]
            BY <4>2, <6>1 DEF Ended
          <6>5. Newest(b, id)
            BY <5>1, <6>2, <6>3, <6>4 DEF Witness, Newest
          <6>6. Witness(b, arc, id)
            BY <5>1, <6>3, <6>5 DEF Witness, Overtaken
          <6>7. IF j.state \in Underway
                THEN Vouches(b.jobs[id], j.oldSlot, d)
                ELSE \A s \in Slots : Vouches(b.jobs[id], s, d) \/ Lost(s, d)
            BY <6>6 DEF Fit, Trusted, Running, j
          <6>8. CASE k.state \in Underway
            <7>1. CASE j.state \in Underway
              BY <4>4, <4>5, <4>7, <6>3, <6>7, <6>8, <7>1
            <7>2. CASE j.state \notin Underway
              <8>1. k.oldSlot = d.booted /\ d.booted \in Slots /\ ~Lost(d.booted, d)
                BY <6>8, <7>2 DEF DeviceState, Lost, j, k
              <8>. QED  BY <4>4, <4>5, <6>3, <6>7, <6>8, <7>2, <8>1
            <7>. QED  BY <7>1, <7>2
          <6>9. CASE k.state \notin Underway
            <7>1. CASE j.state \notin Underway
              BY <4>4, <6>3, <6>7, <6>9, <7>1
            <7>2. CASE j.state \in Underway
              <8>1. k.state = "failed"
                <9>1. k.state \notin Waiting
                  <10>1. j.state \notin Waiting
                    BY <7>2 DEF Waiting, Underway
                  <10>. QED  BY <4>7, <10>1, <1>Origins
                <9>. QED  BY <5>3, <6>9, <9>1 DEF States, Finished, k
              <8>2. \A s \in Slots : s = j.oldSlot \/ s = j.targetSlot
                BY <4>1, <4>6, <7>2, TwoSlots
              <8>3. Vouches(b.jobs[id], j.oldSlot, d) /\ Lost(j.targetSlot, d)
                BY <4>7, <6>7, <7>2, <8>1
              <8>. QED  BY <4>4, <6>3, <6>9, <8>2, <8>3
            <7>. QED  BY <7>1, <7>2
          <6>. QED  BY <6>8, <6>9
        <5>. QED  BY <5>2, <5>3
      <4>9. \A id \in JobIDs : /\ Stage(e.jobs[id], d)
                               /\ e.jobs[id].state \in Underway => e.jobs[id].asg.os
        BY <4>2, <4>3 DEF Fit, Due, k
      <4>10. Ahead(e)
        <5>1. SUFFICES ASSUME HasActive(e)
                       PROVE  \A id \in JobIDs \ {act} :
                                  e.jobs[id].state # "absent" => e.jobs[id].asg.seq < Active(e).asg.seq
          BY DEF Ahead, HasActive, act
        <5>2. Active(e).asg = j.asg
          BY <4>2, <5>1 DEF Active, HasActive, j, k, act
        <5>. QED  BY <4>2, <5>2 DEF Fit, Ahead, act, j
      <4>11. d.operation = "installing" => Running(e)
        BY <4>4 DEF Due, k
      <4>12. Kin(b, e, d)
        BY <4>2, <4>3, <4>7 DEF Kin, Heir, act, j
      <4>. QED  BY <4>8, <4>9, <4>10, <4>11, <4>12 DEF Fit
    <3>. DEFINE e == Recorded(db, write.id, write.job)
    <3>1. pc = "write" /\ dev' = dev
      BY DEF WriteJournal
    <3>2. CASE OutboxFull(db)
      <4>1. UNCHANGED <<db, disk, archive>>
        BY <3>2 DEF WriteJournal, storeVars
      <4>. QED  BY <3>1, <4>1 DEF BInv
    <3>3. CASE ~OutboxFull(db)
      <4>1. Update(e, archive, write.next)
        BY <3>3 DEF WriteJournal
      <4>2. /\ e \in Database /\ WellFormed(e) /\ e.high = db.high
            /\ e.jobs = [db.jobs EXCEPT ![db.active] = write.job]
        BY <3>1, <3>3, RecordedSound DEF BInv
      <4>3. /\ HasActive(db) /\ write.id = db.active /\ write.job.asg = Active(db).asg
            /\ write.job.state \in States /\ write.job \in Job
        BY <3>1 DEF BInv, JInv, Inv, TypeOK, Core, Writing
      <4>4. e.active = IF Terminal(write.job.state) THEN "" ELSE db.active
        BY BootTypes DEF Recorded, AddEvent, Database
      <4>5. /\ Outcome(write.job, dev, proven)
            /\ write.next = "install" => write.job.oldSlot = dev.booted
            /\ write.job.state \in Underway /\ write.next # "install" => Active(db).state \in Underway
        BY <3>1 DEF BInv, DInv, Guarded, SafeWrite
      <4>6. Safe(Active(db), dev, proven)
        BY <4>3, ActiveSafe DEF BInv
      <4>7. Due(write, Active(db), dev) /\ Fit(db, archive, dev)
        BY <3>1 DEF BInv, Pending, Related
      <4>. HIDE DEF e
      <4>8. Fit(e, archive, dev) /\ Kin(db, e, dev)
        BY <4>2, <4>3, <4>4, <4>5, <4>6, <4>7, BootTypes, <3>SavedFit
      <4>9. ~poisoned => Archived(e, archive)
        <5>1. db.active \in JobIDs /\ db.jobs \in [JobIDs -> Job] /\ Active(db) = db.jobs[db.active]
              /\ Active(db).state # "absent"
          BY <4>3, BootTypes, ActiveJob DEF Database, Active, Waiting, Underway
        <5>2. \A id \in JobIDs : /\ e.jobs[id].asg = db.jobs[id].asg
                                 /\ e.jobs[id].state # "absent" => db.jobs[id].state # "absent"
          BY <4>2, <4>3, <5>1
        <5>3. ~poisoned => Archived(db, archive)
          BY BootTypes DEF BInv, Related
        <5>. QED  BY <4>2, <5>2, <5>3 DEF Archived
      <4>. QED  BY <3>1, <4>1, <4>2, <4>7, <4>8, <4>9, <2>UpdateRelated
    <3>. QED  BY <3>2, <3>3
  \* Submit.
  <2>SubmitRelated.
      ASSUME BInv, NEW a \in Assignments, Submit(a)
      PROVE  Related(db', disk', archive', dev')
    <3>. USE <2>SubmitRelated
    \* A record moves to the archive.
    <3>ArchivedFit.
        ASSUME NEW b \in Database, WellFormed(b), NEW arc \in [JobIDs -> Job], NEW d,
               Fit(b, arc, d), Archived(b, arc),
               NEW id \in JobIDs, id # b.active, b.jobs[id].state # "absent",
               NEW e, e.jobs = [b.jobs EXCEPT ![id] = NoJob], e.active = b.active, e.high = b.high,
               NEW arc2, arc2 = [arc EXCEPT ![id] = b.jobs[id]]
        PROVE  Fit(b, arc2, d) /\ Fit(e, arc2, d) /\ Archived(e, arc2)
      <4>. USE <3>ArchivedFit
      <4>1. /\ b.jobs \in [JobIDs -> Job] /\ b.active \in JobIDs \cup {""} /\ b.high \in Nat
            /\ NoJob.state = "absent"
        BY DEF Database, NoJob
      <4>2. /\ e.jobs[id] = NoJob /\ \A other \in JobIDs \ {id} : e.jobs[other] = b.jobs[other]
            /\ arc2[id] = b.jobs[id] /\ \A other \in JobIDs \ {id} : arc2[other] = arc[other]
        BY <4>1
      <4>3. /\ \A other \in JobIDs : b.jobs[other].state # "absent" =>
                   b.jobs[other].asg.seq \in Nat /\ b.jobs[other].asg.seq <= b.high
            /\ \A other \in JobIDs : arc[other].asg.seq \in Nat
        BY <4>1, JobSeq DEF WellFormed
      <4>4. ASSUME NEW w \in JobIDs, Witness(b, arc2, w)
            PROVE  Witness(b, arc, w)
        <5>1. SUFFICES ASSUME NEW old \in JobIDs, arc[old].state # "absent",
                              arc[old].asg.seq >= b.jobs[w].asg.seq
                       PROVE  Overtaken(b, arc2, w)
          BY <4>4 DEF Witness, Overtaken
        <5>2. CASE old # id
          BY <4>2, <5>1, <5>2 DEF Overtaken
        <5>3. CASE old = id
          <6>1. arc[id].asg.seq <= b.jobs[id].asg.seq
            BY <5>1, <5>3 DEF Archived
          <6>2. b.jobs[w].state # "absent"
            BY <4>4 DEF Witness, Newest, Ended
          <6>3. b.jobs[id].asg.seq >= b.jobs[w].asg.seq
            BY <4>3, <5>1, <5>3, <6>1, <6>2, SMT
          <6>. QED  BY <4>2, <6>3 DEF Overtaken
        <5>. QED  BY <5>2, <5>3
      <4>5. Trusted(b, arc2, d)
        BY <4>4 DEF Fit, Trusted
      <4>6. Fit(b, arc2, d)
        BY <4>5 DEF Fit
      <4>7. ASSUME NEW w \in JobIDs, Witness(e, arc2, w)
            PROVE  Witness(b, arc2, w) /\ e.jobs[w] = b.jobs[w]
        <5>1. w # id /\ e.jobs[w] = b.jobs[w] /\ b.jobs[w].state # "absent" /\ w \in Ended(b)
          BY <4>1, <4>2, <4>7 DEF Witness, Newest, Ended
        <5>2. ASSUME NEW other \in Ended(b)
              PROVE  b.jobs[other].asg.seq <= b.jobs[w].asg.seq
          <6>1. CASE other # id
            BY <4>2, <4>7, <5>1, <6>1 DEF Witness, Newest, Ended
          <6>2. CASE other = id
            <7>1. ~(b.jobs[id].asg.seq >= b.jobs[w].asg.seq)
              BY <4>2, <4>7, <5>1 DEF Witness, Overtaken
            <7>. QED  BY <4>3, <5>1, <6>2, <7>1, SMT
          <6>. QED  BY <6>1, <6>2
        <5>. QED  BY <4>7, <5>1, <5>2 DEF Witness, Newest, Overtaken
      <4>8. /\ Running(e) <=> Running(b)
            /\ HasActive(e) <=> HasActive(b)
            /\ HasActive(b) => Active(e) = Active(b)
        <5>1. e.active = b.active /\ (HasActive(e) <=> HasActive(b))
          BY <4>2 DEF HasActive
        <5>2. HasActive(b) => Active(e) = Active(b)
          <6>1. HasActive(b) => b.active \in JobIDs \ {id}
            BY <4>1 DEF HasActive
          <6>2. HasActive(b) => e.jobs[b.active] = b.jobs[b.active]
            BY <4>2, <6>1
          <6>. QED  BY <5>1, <6>2 DEF Active
        <5>. QED  BY <5>1, <5>2 DEF Running
      <4>9. Trusted(e, arc2, d)
        BY <4>5, <4>7, <4>8 DEF Trusted, Running
      <4>10. Fit(e, arc2, d)
        <5>1. \A other \in JobIDs : /\ Stage(e.jobs[other], d)
                                    /\ e.jobs[other].state \in Underway => e.jobs[other].asg.os
          <6>1. Stage(NoJob, d) /\ NoJob.state \notin Underway
            BY <4>1 DEF Stage, Underway
          <6>. QED  BY <4>2, <6>1 DEF Fit
        <5>2. Ahead(e)
          BY <4>1, <4>2, <4>8 DEF Fit, Ahead
        <5>. QED  BY <4>8, <4>9, <5>1, <5>2 DEF Fit
      <4>11. Archived(e, arc2)
        BY <4>1, <4>2, <4>3 DEF Archived
      <4>. QED  BY <4>6, <4>10, <4>11
    <3>. DEFINE b == Accepted(db, a)
    <3>1. /\ ~HasActive(db) /\ db.jobs[a.job].state = "absent" /\ a.seq > db.high /\ dev' = dev
          /\ \/ OverHotLimit(b) /\ \E id \in Oldest(b) :
                   Update(Without(b, id), [archive EXCEPT ![id] = b.jobs[id]], "idle")
             \/ ~OverHotLimit(b) /\ Update(b, archive, "idle")
      BY DEF Submit
    <3>2. /\ b \in Database /\ WellFormed(b) /\ b.high = a.seq /\ b.active = a.job
          /\ b.jobs = [db.jobs EXCEPT ![a.job] = NewJob(a)] /\ a.job \in JobIDs
      BY <3>1, BootTypes, AcceptedOK
    <3>. HIDE DEF b
    <3>3. NewJob(a).state = "accepted" /\ NewJob(a).asg = a
      BY DEF NewJob, NoJob
    <3>4. /\ db.jobs \in [JobIDs -> Job] /\ db.high \in Nat /\ a.seq \in Nat
          /\ archive \in [JobIDs -> Job] /\ HasActive(b) /\ Active(b) = NewJob(a)
      <4>1. /\ db.jobs \in [JobIDs -> Job] /\ db.high \in Nat /\ archive \in [JobIDs -> Job]
        BY BootTypes DEF Database
      <4>2. a.seq \in Nat
        BY AssignmentsAssumption DEF Assignment
      <4>. QED  BY <3>2, <4>1, <4>2, JobsAssumption DEF HasActive, Active
    <3>5. b.jobs[a.job] = NewJob(a) /\ \A id \in JobIDs \ {a.job} : b.jobs[id] = db.jobs[id]
      BY <3>2, <3>4
    <3>6. ~Running(b) /\ ~Running(db)
      BY <3>1, <3>3, <3>4 DEF Running, Underway
    <3>7. \A id \in JobIDs : db.jobs[id].state \notin Underway
      <4>1. \A id \in JobIDs : db.jobs[id].state \in Underway => id = ""
        BY <3>1, BootTypes DEF WellFormed, HasActive, Terminal, Finished, Underway
      <4>. QED  BY <4>1, JobsAssumption
    <3>8. Fit(db, archive, dev) /\ (~poisoned => Archived(db, archive))
      BY BootTypes DEF BInv, Related
    <3>9. Trusted(b, archive, dev)
      <4>1. Ended(b) = Ended(db) /\ \A id \in Ended(db) : b.jobs[id] = db.jobs[id]
        BY <3>1, <3>3, <3>5 DEF Ended
      <4>2. \A id \in JobIDs : Witness(b, archive, id) =>
                Witness(db, archive, id) /\ b.jobs[id] = db.jobs[id]
        BY <4>1 DEF Witness, Newest, Overtaken
      <4>. QED  BY <3>6, <3>8, <4>2 DEF Fit, Trusted
    <3>10. Fit(b, archive, dev)
      <4>1. \A id \in JobIDs : /\ Stage(b.jobs[id], dev)
                               /\ b.jobs[id].state \in Underway => b.jobs[id].asg.os
        <5>1. Stage(NewJob(a), dev) /\ NewJob(a).state \notin Underway
          BY <3>3 DEF Stage, Underway
        <5>. QED  BY <3>5, <3>8, <5>1 DEF Fit
      <4>2. Ahead(b)
        <5>1. ASSUME NEW id \in JobIDs \ {a.job}, db.jobs[id].state # "absent"
              PROVE  db.jobs[id].asg.seq < a.seq
          <6>1. db.jobs[id].asg.seq \in Nat /\ db.jobs[id].asg.seq <= db.high
            BY <5>1, BootTypes, AssignmentsAssumption, SMT DEF WellFormed, Assignment
          <6>. QED  BY <3>1, <3>4, <6>1, SMT
        <5>. QED  BY <3>2, <3>3, <3>4, <3>5, <5>1 DEF Ahead
      <4>3. dev.operation # "installing"
        BY <3>6, <3>8 DEF Fit
      <4>. QED  BY <3>9, <4>1, <4>2, <4>3 DEF Fit
    <3>11. ~poisoned => Archived(b, archive)
      <4>1. SUFFICES ASSUME ~poisoned, NEW id \in JobIDs, archive[id].state # "absent"
                     PROVE  /\ archive[id].asg.seq <= b.high
                            /\ b.jobs[id].state # "absent" => archive[id].asg.seq <= b.jobs[id].asg.seq
        BY DEF Archived
      <4>2. /\ archive[id].asg.seq <= db.high
            /\ db.jobs[id].state # "absent" => archive[id].asg.seq <= db.jobs[id].asg.seq
        BY <3>8, <4>1 DEF Archived
      <4>3. archive[id].asg.seq \in Nat
        BY <3>4, JobSeq
      <4>4. archive[id].asg.seq <= a.seq
        BY <3>1, <3>4, <4>2, <4>3, SMT
      <4>. QED  BY <3>2, <3>3, <3>5, <4>2, <4>4
    <3>12. Kin(db, b, dev)
      BY <3>1, <3>3, <3>5, <3>7 DEF Kin, Underway
    <3>13. CASE Update(b, archive, "idle")
      BY <3>1, <3>2, <3>8, <3>10, <3>11, <3>12, <3>13, <2>UpdateRelated
    <3>14. CASE \E id \in Oldest(b) :
                    Update(Without(b, id), [archive EXCEPT ![id] = b.jobs[id]], "idle")
      <4>1. PICK id \in Oldest(b) :
                Update(Without(b, id), [archive EXCEPT ![id] = b.jobs[id]], "idle")
        BY <3>14
      <4>. DEFINE e == Without(b, id)
                  arc == [archive EXCEPT ![id] = b.jobs[id]]
      <4>2. /\ e \in Database /\ WellFormed(e) /\ e.high = b.high /\ e.active = b.active
            /\ e.jobs = [b.jobs EXCEPT ![id] = NoJob] /\ id \in JobIDs
        BY <3>2, <4>1, WithoutOK
      <4>3. id # a.job /\ b.jobs[id].state # "absent" /\ b.jobs[id] = db.jobs[id]
        BY <3>2, <3>5, <4>1 DEF Oldest, Hot
      <4>4. id # db.active /\ NoJob.state = "absent"
        BY <3>1, <4>2, JobsAssumption DEF HasActive, NoJob
      <4>. HIDE DEF e
      <4>5. ~poisoned => Fit(db, arc, dev)
        <5>1. \E x : x.jobs = [db.jobs EXCEPT ![id] = NoJob] /\ x.active = db.active /\ x.high = db.high
          <6>1. LET x == [jobs |-> [db.jobs EXCEPT ![id] = NoJob], active |-> db.active,
                          high |-> db.high]
                IN  /\ x.jobs = [db.jobs EXCEPT ![id] = NoJob]
                    /\ x.active = db.active /\ x.high = db.high
            OBVIOUS
          <6>. QED  BY <6>1
        <5>. HIDE DEF arc
        <5>2. arc = [archive EXCEPT ![id] = db.jobs[id]]
          BY <4>3 DEF arc
        <5>. QED  BY <3>4, <3>8, <4>2, <4>3, <4>4, <5>1, <5>2, BootTypes, <3>ArchivedFit
      <4>6. ~poisoned => Fit(e, arc, dev) /\ Archived(e, arc)
        <5>1. arc = [archive EXCEPT ![id] = b.jobs[id]] /\ id # b.active
          BY <3>2, <4>3
        <5>. HIDE DEF arc
        <5>. QED  BY <3>2, <3>4, <3>10, <3>11, <4>2, <4>3, <5>1, <3>ArchivedFit
      <4>7. Kin(db, e, dev)
        <5>1. \A x \in JobIDs : e.jobs[x].state \notin Underway
          BY <3>2, <3>3, <3>4, <3>5, <3>7, <4>2, <4>4, SMT DEF Underway
        <5>. QED  BY <3>1, <5>1 DEF Kin
      <4>8. Update(e, arc, "idle")
        BY <4>1 DEF e
      <4>. HIDE DEF arc
      <4>. QED  BY <3>1, <4>2, <4>5, <4>6, <4>7, <4>8, <2>UpdateRelated
    <3>. QED  BY <3>1, <3>13, <3>14
  \* Ack, and what confirmNormalBoot puts on record.
  <2>CheckRelated.
      ASSUME BInv, Ack \/ NormalBootSeen \/ ConfirmBoot
      PROVE  /\ Related(db', disk', archive', dev') /\ dev' = dev
             /\ db'.jobs = db.jobs /\ db'.active = db.active
    <3>. USE <2>CheckRelated
    \* The relation is about the records, the active reference and the high-water mark.
    <3>SameRelated.
        ASSUME NEW b, NEW c, NEW arc, NEW d, Related(b, c, arc, d),
               NEW e, e.jobs = b.jobs, e.active = b.active,
               NEW f, f.jobs = c.jobs, f.active = c.active, f.high = c.high
        PROVE  Related(e, f, arc, d)
      <4>. USE <3>SameRelated
      <4>1. Active(e) = Active(b) /\ Active(f) = Active(c)
        BY DEF Active
      <4>2. /\ HasActive(e) <=> HasActive(b)
            /\ HasActive(f) <=> HasActive(c)
            /\ Running(e) <=> Running(b)
            /\ Running(f) <=> Running(c)
        BY <4>1 DEF HasActive, Running
      <4>3. Ended(e) = Ended(b) /\ Ended(f) = Ended(c)
        BY DEF Ended
      <4>4. \A id : /\ Witness(e, arc, id) <=> Witness(b, arc, id)
                    /\ Witness(f, arc, id) <=> Witness(c, arc, id)
        BY <4>3 DEF Witness, Newest, Overtaken
      <4>5. Trusted(e, arc, d) /\ Trusted(f, arc, d)
        BY <4>1, <4>2, <4>4 DEF Related, Fit, Trusted
      <4>6. Ahead(e) /\ Ahead(f)
        BY <4>1, <4>2 DEF Related, Fit, Ahead
      <4>7. Fit(e, arc, d) /\ Fit(f, arc, d)
        BY <4>2, <4>5, <4>6 DEF Related, Fit
      <4>8. Archived(f, arc) /\ Kin(e, f, d)
        BY <4>1, <4>2 DEF Related, Archived, Kin
      <4>. QED  BY <4>7, <4>8 DEF Related
    <3>. DEFINE Alike(x) == x.jobs = db.jobs /\ x.active = db.active /\ x.high = db.high
    <3>1. /\ \A n : Alike([db EXCEPT !.outbox = n])
          /\ \A c : Alike([db EXCEPT !.bootCheck = c])
          /\ Alike([db EXCEPT !.bootCheck.confirmed = TRUE])
      BY BootTypes DEF Database
    <3>. HIDE DEF Alike
    <3>2. /\ archive' = archive /\ dev' = dev
          /\ db' = db \/ Alike(db')
          /\ disk' = disk \/ (Alike(disk') /\ ~poisoned)
      <4>1. CASE Ack
        BY <3>1, <4>1 DEF Ack
      <4>2. CASE NormalBootSeen
        BY <3>1, <4>2, UpdateOutcomes DEF NormalBootSeen
      <4>3. CASE ConfirmBoot
        BY <3>1, <4>3, UpdateOutcomes DEF ConfirmBoot
      <4>. QED  BY <4>1, <4>2, <4>3
    <3>3. db'.jobs = db.jobs /\ db'.active = db.active
      BY <3>2 DEF Alike
    <3>4. disk'.jobs = disk.jobs /\ disk'.active = disk.active /\ disk'.high = disk.high
      BY <3>2, BootTypes DEF Alike
    <3>5. Related(db', disk', archive, dev)
      BY <3>3, <3>4, <3>SameRelated DEF BInv
    <3>. QED  BY <3>2, <3>3, <3>5
  <2>1. CASE WriteJournal
    <3>1. pc = "write" /\ dev' = dev /\ pc' \in {"idle", write.next}
      BY <2>1, UpdateOutcomes DEF WriteJournal
    <3>2. write.next \in {"idle", "install", "rebootJob"}
      BY <3>1 DEF BInv, JInv, Inv, Core, Writing
    <3>3. CASE pc' # "install"
      BY <2>1, <3>1, <3>2, <3>3, <2>WriteRelated, <1>MovePending
    <3>4. CASE pc' = "install"
      <4>. DEFINE e == Recorded(db, write.id, write.job)
      <4>1. ~OutboxFull(db) /\ db' = e /\ write.next = "install"
        BY <3>1, <3>2, <3>4, <2>1, UpdateOutcomes DEF WriteJournal
      <4>2. /\ write.job.bootID = dev.bootID /\ write.job.state = "installing"
            /\ write.job.oldSlot = dev.booted
        BY <3>1, <4>1 DEF BInv, Pending, Due, JInv, DInv, Inv, Core, Writing, Guarded, SafeWrite
      <4>3. Active(db') = write.job
        <5>1. /\ e.jobs = [db.jobs EXCEPT ![db.active] = write.job] /\ db.active \in JobIDs
              /\ e.active = db.active
          <6>1. ~Terminal(write.job.state)
            BY <4>2 DEF Terminal, Finished
          <6>. QED  BY <3>1, <4>1, <6>1, RecordedSound DEF BInv
        <5>2. db.jobs \in [JobIDs -> Job]
          BY BootTypes DEF Database
        <5>. HIDE DEF e
        <5>. QED  BY <4>1, <5>1, <5>2 DEF Active
      <4>. HIDE DEF e
      <4>. QED  BY <2>1, <3>1, <3>4, <4>2, <4>3, <2>WriteRelated DEF Pending, At
    <3>. QED  BY <3>3, <3>4
  <2>2. CASE \E a \in Assignments : Submit(a)
    <3>1. pc' = "idle"
      BY <2>2, UpdateOutcomes DEF Submit
    <3>. QED  BY <2>2, <3>1, <2>SubmitRelated, <1>MovePending
  <2>3. CASE Ack
    <3>1. UNCHANGED <<pc, write, dev>>
      BY <2>3 DEF Ack
    <3>. QED  BY <2>3, <3>1, <2>CheckRelated, <1>KeepPending
  <2>4. CASE NormalBootSeen \/ ConfirmBoot
    <3>1. pc' = "idle"
      BY <2>4, UpdateOutcomes DEF NormalBootSeen, ConfirmBoot
    <3>. QED  BY <2>4, <3>1, <2>CheckRelated, <1>MovePending
  <2>. QED  BY <2>1, <2>2, <2>3, <2>4
\* What Mark changes.
<1>MarkFields.
    ASSUME NEW d \in DeviceState, NEW s \in Slots
    PROVE  /\ \A m \in {"good", "bad"} :
                 LET e == Mark(d, m, s) IN
                 Same(d, e) /\ e.primary = d.primary /\ e.mark = [d.mark EXCEPT ![s] = m]
           /\ LET e == Mark(d, "active", s) IN
              /\ Same(d, e) /\ e.primary = s
              /\ \A t \in Slots \ {s} : e.mark[t] = d.mark[t]
              /\ e.mark[s] = IF d.mark[s] = "bad" THEN "fresh" ELSE d.mark[s]
           /\ \A t \in Slots : d.mark[t] \in Marks
           /\ d.mark \in [Slots -> Marks]
  BY <1>MarkFields DEF Mark, DeviceState, Same
\* No boot leads to a slot that is lost, and a slot stays lost while it is not
\* activated.
<1>StaysLost.
    ASSUME NEW d \in DeviceState, NEW s \in Slots, Lost(s, d)
    PROVE  /\ \A t \in Slots : Lost(s, Mark(d, "bad", t))
           /\ Lost(s, Mark(d, "good", d.booted))
           /\ \A t \in Slots \ {s} : Lost(s, Mark(d, "active", t))
           /\ \A t \in BootChoices(d) : Lost(s, BootedInto(d, t))
  <2>. USE <1>StaysLost
  <2>1. d.booted \in Slots /\ d.primary \in Slots
    BY DEF DeviceState
  <2>2. ASSUME NEW t \in Slots
        PROVE  /\ Lost(s, Mark(d, "bad", t))
               /\ t # s => Lost(s, Mark(d, "good", t)) /\ Lost(s, Mark(d, "active", t))
    <3>. DEFINE b == Mark(d, "bad", t)
                g == Mark(d, "good", t)
                a == Mark(d, "active", t)
    <3>1. /\ b.booted = d.booted /\ b.primary = d.primary /\ b.mark = [d.mark EXCEPT ![t] = "bad"]
          /\ g.booted = d.booted /\ g.primary = d.primary /\ g.mark = [d.mark EXCEPT ![t] = "good"]
          /\ a.booted = d.booted /\ a.primary = t
          /\ t # s => a.mark[s] = d.mark[s]
          /\ d.mark \in [Slots -> Marks]
      BY <1>MarkFields, SMT DEF Same
    <3>. HIDE DEF b, g, a
    <3>2. Lost(s, b) /\ (t # s => Lost(s, g) /\ Lost(s, a))
      BY <3>1 DEF Lost
    <3>. QED  BY <3>2 DEF b, g, a
  <2>3. d.booted # s
    BY DEF Lost
  <2>5. ASSUME NEW t \in BootChoices(d)
        PROVE  Lost(s, BootedInto(d, t))
    <3>1. t \in Slots /\ t # s
      BY <2>1, DeviceAssumption DEF BootChoices, Bootable, Lost
    <3>. QED  BY <3>1, BootFields, SMT DEF Lost
  <2>. QED  BY <2>1, <2>2, <2>3, <2>5
\* A change of the device that leaves images alone and finds no lost slot again, or
\* that comes while a job is under way and leaves its old slot alone.
<1>DeviceMoves.
    ASSUME NEW b \in Database, NEW c \in Database, NEW arc, NEW d, NEW e, Related(b, c, arc, d),
           WellFormed(b),
           \A id \in JobIDs : Stage(b.jobs[id], e) /\ Stage(c.jobs[id], e),
           e.operation = "installing" => Running(b) /\ Running(c),
           \/ /\ e.version = d.version
              /\ \A s \in Slots : Lost(s, d) => Lost(s, e)
           \/ /\ Running(b) /\ e.version[Active(b).oldSlot] = d.version[Active(b).oldSlot]
              /\ Running(c) /\ e.version[Active(c).oldSlot] = d.version[Active(c).oldSlot]
    PROVE  Related(b, c, arc, e)
  <2>. USE <1>DeviceMoves
  <2>1. Trusted(b, arc, e) /\ Trusted(c, arc, e)
    BY DEF Related, Fit, Trusted, Vouches
  <2>2. Fit(b, arc, e) /\ Fit(c, arc, e)
    BY <2>1 DEF Related, Fit
  <2>3. Kin(b, c, e)
    <3>1. SUFFICES ASSUME HasActive(b), Active(b).state \in Underway,
                          c.jobs[b.active].state \in {"rolled_back", "failed"}
                   PROVE  Lost(Active(b).targetSlot, e)
      BY DEF Related, Kin
    <3>2. Lost(Active(b).targetSlot, d)
      BY <3>1 DEF Related, Kin
    <3>3. ~Running(c)
      <4>1. SUFFICES ASSUME Running(c)
                     PROVE  FALSE
        OBVIOUS
      <4>2. c.active \in JobIDs /\ c.jobs[c.active].state \in Underway
        BY <4>1 DEF Running, HasActive, Active, Database
      <4>3. c.active = b.active
        BY <3>1, <4>2 DEF Related, Kin
      <4>. QED  BY <3>1, <4>2, <4>3 DEF Underway
    <3>4. Active(b).targetSlot \in Slots
      BY <3>1, ActiveJob
    <3>. QED  BY <3>2, <3>3, <3>4
  <2>. QED  BY <2>2, <2>3 DEF Related
\* A boot of the device.
<1>BootRelated.
    ASSUME BInv, NEW b \in {db, disk}, Related(b, disk, archive, dev),
           NEW t \in BootChoices(dev)
    PROVE  Related(b, disk, archive, BootedInto(dev, t))
  <2>. USE <1>BootRelated
  \* A boot takes a job that waits for it, or that has been booted, where Stage says.
  <2>BootStage.
      ASSUME NEW d \in DeviceState, NEW u \in BootChoices(d), NEW j,
             j.bootID \in Nat, j.bootID <= d.bootID,
             j.state \in Underway => /\ j.oldSlot \in Slots /\ j.targetSlot \in Slots
                                     /\ j.oldSlot # j.targetSlot,
             Stage(j, d)
      PROVE  Stage(j, BootedInto(d, u))
    <3>. USE <2>BootStage
    <3>. DEFINE e == BootedInto(d, u)
    <3>1. /\ d.booted \in Slots /\ d.primary \in Slots /\ u \in Slots /\ d.bootID \in Nat
          /\ \A s \in Slots : d.mark[s] \in Marks
      BY DEF DeviceState, BootChoices
    <3>2. SUFFICES ASSUME j.state \in {"awaiting_reboot", "checking_health", "committing",
                                       "rollback_pending"}
                   PROVE  Tried(j, e)
      <4>1. e.bootID > d.bootID /\ e.bootID = d.bootID + 1
        BY <3>1, BootFields
      <4>2. j.bootID # e.bootID
        BY <3>1, <4>1, SMT
      <4>. QED  BY <3>2, <4>2 DEF Stage
    <3>3. j.oldSlot \in Slots /\ j.targetSlot \in Slots /\ j.oldSlot # j.targetSlot
      BY <3>2 DEF Underway
    <3>4. /\ e.booted = u /\ e.primary = u
          /\ \A s \in Slots :
                e.mark[s] = IF Backend = "rauc" /\ s = d.primary /\ u # s THEN "bad" ELSE d.mark[s]
      BY <3>1, BootFields, SMT
    <3>5. CASE u = j.targetSlot
      BY <3>4, <3>5 DEF Tried
    <3>6. CASE u # j.targetSlot
      <4>1. Switched(j, d) \/ Tried(j, d)
        BY <3>2 DEF Stage
      <4>2. CASE Lost(j.targetSlot, d)
        BY <3>3, <3>4, <3>6, <4>2, <1>StaysLost DEF Tried
      <4>3. CASE ~Lost(j.targetSlot, d)
        <5>1. \/ d.primary = j.targetSlot /\ (d.booted = j.targetSlot \/ d.mark[j.targetSlot] # "good")
              \/ d.mark[j.targetSlot] = "bad"
          BY <4>1, <4>3 DEF Switched, Tried
        <5>2. Backend = "simulator" => u \in {d.primary, d.booted}
          BY DEF BootChoices
        <5>3. Backend = "rauc" => e.mark[j.targetSlot] = "bad"
          BY <3>3, <3>4, <3>6, <5>1
        <5>4. e.mark[j.targetSlot] # "good"
          BY <3>3, <3>4, <3>6, <5>1, <5>2, <5>3, DeviceAssumption DEF Marks
        <5>. HIDE DEF e
        <5>. QED  BY <3>4, <3>6, <5>3, <5>4 DEF Tried, Lost
      <4>. QED  BY <4>2, <4>3
    <3>. QED  BY <3>5, <3>6
  <2>. DEFINE e == BootedInto(dev, t)
  <2>1. /\ dev \in DeviceState /\ b \in Database /\ disk \in Database /\ WellFormed(b)
        /\ t \in Slots
    BY BootTypes DEF BootChoices, DeviceState
  <2>2. e.version = dev.version /\ e.operation = "idle"
    BY <2>1, BootFields
  <2>3. ASSUME NEW c \in {db, disk}, NEW id \in JobIDs, Stage(c.jobs[id], dev)
        PROVE  Stage(c.jobs[id], e)
    <3>. DEFINE j == c.jobs[id]
    <3>1. j \in Job /\ Safe(j, dev, proven) /\ WellFormed(c)
      BY BootTypes DEF SafeAll, Database
    <3>2. j.bootID \in Nat /\ j.bootID <= dev.bootID
      BY <3>1 DEF Safe, Job
    <3>3. j.state \in Underway => /\ j.oldSlot \in Slots /\ j.targetSlot \in Slots
                                  /\ j.oldSlot # j.targetSlot
      BY <3>1 DEF Safe, WellFormed, Underway
    <3>. HIDE DEF j
    <3>4. Stage(j, dev)
      BY <2>3 DEF j
    <3>5. Stage(j, BootedInto(dev, t))
      BY <2>1, <3>2, <3>3, <3>4, <2>BootStage
    <3>. QED  BY <3>5 DEF j
  <2>4. \A id \in JobIDs : Stage(b.jobs[id], e) /\ Stage(disk.jobs[id], e)
    BY <2>3 DEF Related, Fit
  <2>5. \A s \in Slots : Lost(s, dev) => Lost(s, e)
    BY <2>1, <1>StaysLost
  <2>. HIDE DEF e
  <2>6. Related(b, disk, archive, e)
    BY <2>1, <2>2, <2>4, <2>5, <1>DeviceMoves
  <2>. QED  BY <2>6 DEF e
\* A new process.
<1>FreshPending.
    ASSUME BInv, Restart \/ Boot
    PROVE  Related(db', disk', archive', dev') /\ Pending'
  <2>. USE <1>FreshPending
  \* What a new process reads back is related to what is on disk.
  <2>FreshRelated.
      ASSUME BInv
      PROVE  Related(disk, disk, archive, dev)
    BY <2>FreshRelated, BootTypes, <1>SelfKin DEF BInv, Related
  <2>1. db' = disk /\ disk' = disk /\ archive' = archive /\ pc' = "idle"
    BY DEF Restart, Boot, FreshProcess
  <2>2. CASE Restart
    <3>1. dev' = dev
      BY <2>2 DEF Restart
    <3>. QED  BY <2>1, <3>1, <2>FreshRelated, <1>MovePending
  <2>3. CASE Boot
    <3>1. PICK t \in BootChoices(dev) : dev' = BootedInto(dev, t)
      BY <2>3 DEF Boot
    <3>2. Related(disk, disk, archive, dev')
      BY <3>1, <2>FreshRelated, <1>BootRelated
    <3>. QED  BY <2>1, <3>2, <1>MovePending
  <2>. QED  BY <2>2, <2>3
\* A slot is given up.
<1>BadPending.
    ASSUME BInv, StepMarkBad \/ RecoverAbort \/ NormalBootDeadline
    PROVE  Related(db', disk', archive', dev') /\ Pending'
  <2>. USE <1>BadPending
  \* A slot is marked bad.
  <2>BadRelated.
      ASSUME BInv, NEW s \in Slots
      PROVE  Related(db, disk, archive, Mark(dev, "bad", s))
    <3>. USE <2>BadRelated
    <3>. DEFINE e == Mark(dev, "bad", s)
    <3>1. dev \in DeviceState /\ db \in Database /\ disk \in Database /\ WellFormed(db)
      BY BootTypes
    <3>2. /\ Same(dev, e) /\ e.primary = dev.primary /\ e.mark = [dev.mark EXCEPT ![s] = "bad"]
          /\ dev.mark \in [Slots -> Marks]
          /\ \A t \in Slots : Lost(t, dev) => Lost(t, e)
      BY <3>1, <1>MarkFields, <1>StaysLost
    <3>. HIDE DEF e
    <3>3. ASSUME NEW c \in {db, disk}, NEW id \in JobIDs
          PROVE  Stage(c.jobs[id], e)
      <4>. DEFINE j == c.jobs[id]
      <4>1. /\ Stage(j, dev)
            /\ j.state \in Underway => j.targetSlot \in Slots
        BY BootTypes DEF BInv, Related, Fit, WellFormed, Underway
      <4>. HIDE DEF j
      <4>2. j.state \in Underway =>
                /\ Switched(j, dev) => Switched(j, e)
                /\ Tried(j, dev) => Tried(j, e)
        BY <3>2, <4>1 DEF Switched, Tried, Same
      <4>3. Stage(j, e)
        BY <3>2, <4>1, <4>2 DEF Stage, Same, Underway
      <4>. QED  BY <4>3 DEF j
    <3>4. Related(db, disk, archive, e)
      <4>1. e.operation = "installing" => Running(db) /\ Running(disk)
        BY <3>2 DEF Same, BInv, Related, Fit
      <4>. QED  BY <3>1, <3>2, <3>3, <4>1, <1>DeviceMoves DEF BInv, Same
    <3>. QED  BY <3>4 DEF e
  <2>. DEFINE j == Active(db)
              s == IF NormalBootDeadline THEN dev.booted ELSE j.targetSlot
  <2>1. UNCHANGED <<db, disk, archive>> /\ dev.operation = "idle"
    BY DEF StepMarkBad, RecoverAbort, NormalBootDeadline, Confirming, storeVars
  <2>2. StepMarkBad \/ RecoverAbort => HasActive(db) /\ j.state \in Underway
    BY DEF StepMarkBad, RecoverAbort, Stepping, Underway
  <2>3. NormalBootDeadline => ~HasActive(db)
    BY DEF NormalBootDeadline, Confirming
  <2>4. s \in Slots /\ dev.booted \in Slots
    BY <2>2, BootTypes, ActiveJob DEF DeviceState
  <2>5. dev' = Mark(dev, "bad", s)
    BY <2>2, <2>3 DEF StepMarkBad, RecoverAbort, NormalBootDeadline
  <2>6. /\ StepMarkBad \/ RecoverAbort => s = j.targetSlot
        /\ NormalBootDeadline => s = dev.booted
    BY <2>2, <2>3
  <2>. HIDE DEF s
  <2>7. /\ dev'.booted = dev.booted /\ dev'.operation = "idle"
        /\ dev'.mark = [dev.mark EXCEPT ![s] = "bad"] /\ dev.mark \in [Slots -> Marks]
    <3>1. dev \in DeviceState
      BY BootTypes
    <3>2. Same(dev, Mark(dev, "bad", s))
      BY <2>4, <3>1, MarkSame
    <3>3. /\ Mark(dev, "bad", s).mark = [dev.mark EXCEPT ![s] = "bad"]
          /\ dev.mark \in [Slots -> Marks]
      BY <3>1 DEF Mark, DeviceState
    <3>. QED  BY <2>1, <2>5, <3>2, <3>3 DEF Same
  <2>8. Related(db, disk, archive, dev')
    BY <2>4, <2>5, <2>BadRelated
  <2>9. CASE StepMarkBad
    <3>1. pc' = "rollback" /\ dev.booted = j.targetSlot /\ s = j.targetSlot
      <4>1. pc' = "rollback" /\ dev.booted = j.targetSlot
        BY <2>9 DEF StepMarkBad
      <4>. QED  BY <2>6, <2>9, <4>1
    <3>. QED  BY <2>1, <2>4, <2>7, <2>8, <3>1 DEF Pending, At
  <2>10. CASE RecoverAbort
    <3>1. pc' = "abort" /\ dev.booted = j.oldSlot /\ s = j.targetSlot
      <4>1. pc' = "abort" /\ dev.booted = j.oldSlot
        BY <2>10 DEF RecoverAbort
      <4>. QED  BY <2>6, <2>10, <4>1
    <3>. QED  BY <2>1, <2>4, <2>7, <2>8, <3>1 DEF Pending, At
  <2>11. CASE NormalBootDeadline
    <3>1. pc' = "fallback" /\ GoodOf(dev, Other(dev)) /\ s = dev.booted
      <4>1. pc' = "fallback" /\ GoodOf(dev, Other(dev))
        BY <2>11 DEF NormalBootDeadline
      <4>. QED  BY <2>6, <2>11, <4>1
    <3>2. Other(dev') = Other(dev) /\ Other(dev) \in Slots /\ Other(dev) # dev.booted
      BY <2>4, <2>7 DEF Other, Opposite, Slots
    <3>3. GoodOf(dev', Other(dev'))
      BY <2>7, <3>1, <3>2 DEF GoodOf
    <3>. QED  BY <2>1, <2>3, <2>7, <2>8, <2>11, <3>1, <3>3 DEF Pending, At
  <2>. QED  BY <2>9, <2>10, <2>11
\* A slot is confirmed.
<1>GoodPending.
    ASSUME BInv, StepMarkGood \/ NormalBootHealthy
    PROVE  Related(db', disk', archive', dev') /\ Pending'
  <2>. USE <1>GoodPending
  \* The slot that runs is marked good.
  <2>GoodRelated.
      ASSUME BInv,
             \A c \in {db, disk}, id \in JobIDs : c.jobs[id].state # "rollback_pending"
      PROVE  Related(db, disk, archive, Mark(dev, "good", dev.booted))
    <3>. USE <2>GoodRelated
    <3>. DEFINE s == dev.booted
                e == Mark(dev, "good", s)
    <3>1. /\ dev \in DeviceState /\ db \in Database /\ disk \in Database /\ WellFormed(db)
          /\ s \in Slots
      BY BootTypes DEF DeviceState
    <3>2. /\ Same(dev, e) /\ e.primary = dev.primary /\ e.mark = [dev.mark EXCEPT ![s] = "good"]
          /\ dev.mark \in [Slots -> Marks]
          /\ \A t \in Slots : Lost(t, dev) => Lost(t, e)
      BY <3>1, <1>MarkFields, <1>StaysLost
    <3>. HIDE DEF e
    <3>3. ASSUME NEW c \in {db, disk}, NEW id \in JobIDs
          PROVE  Stage(c.jobs[id], e)
      <4>. DEFINE j == c.jobs[id]
      <4>1. /\ Stage(j, dev) /\ j.state # "rollback_pending"
            /\ j.state \in Underway => j.targetSlot \in Slots
        BY BootTypes DEF BInv, Related, Fit, WellFormed, Underway
      <4>2. Safe(j, dev, proven)
        BY BootTypes DEF SafeAll
      <4>. HIDE DEF j
      <4>3. j.state \in Underway =>
                /\ Switched(j, dev) => Switched(j, e)
                /\ Tried(j, dev) => Tried(j, e)
        BY <3>2, <4>1, <4>2 DEF Switched, Tried, Same, Safe
      <4>4. Stage(j, e)
        BY <3>2, <4>1, <4>3 DEF Stage, Same, Underway
      <4>. QED  BY <4>4 DEF j
    <3>4. Related(db, disk, archive, e)
      <4>1. e.operation = "installing" => Running(db) /\ Running(disk)
        BY <3>2 DEF Same, BInv, Related, Fit
      <4>. QED  BY <3>1, <3>2, <3>3, <4>1, <1>DeviceMoves DEF BInv, Same
    <3>. QED  BY <3>4 DEF e
  <2>1. /\ UNCHANGED <<db, disk, archive, write>>
        /\ \/ dev' = Mark(dev, "good", dev.booted) /\ pc' \in {"commit", "confirm"}
           \/ NormalBootHealthy /\ UNCHANGED <<dev, pc>>
    BY DEF StepMarkGood, NormalBootHealthy, Checking, RunsTarget, storeVars
  <2>2. \A c \in {db, disk}, id \in JobIDs : c.jobs[id].state # "rollback_pending"
    <3>1. SUFFICES ASSUME NEW c \in {db, disk}, NEW id \in JobIDs,
                          c.jobs[id].state = "rollback_pending"
                   PROVE  FALSE
      OBVIOUS
    <3>2. HasActive(db) /\ Follows(Active(db).state, "rollback_pending")
      BY <3>1, Twins DEF Underway
    <3>3. HasActive(db) => Active(db).state = "committing"
      BY DEF StepMarkGood, NormalBootHealthy, Checking, Stepping, Confirming
    <3>. QED  BY <3>2, <3>3, <1>Origins
  <2>3. CASE dev' = Mark(dev, "good", dev.booted) /\ pc' \in {"commit", "confirm"}
    <3>1. Related(db, disk, archive, dev')
      BY <2>2, <2>3, <2>GoodRelated
    <3>. QED  BY <2>1, <2>3, <3>1, <1>MovePending
  <2>4. CASE UNCHANGED <<dev, pc>>
    BY <2>1, <2>4, <1>Calm, <1>KeepPending
  <2>. QED  BY <2>1, <2>3, <2>4
\* A slot is activated.
<1>ActivePending.
    ASSUME BInv, ActivateOldSlot \/ AbortActivate \/ ActivateFallback
    PROVE  Related(db', disk', archive', dev') /\ Pending'
  <2>. USE <1>ActivePending
  \* A slot becomes the primary one: a slot that is not lost, or while both copies of
  \* the journal know of a job under way.
  <2>ActiveRelated.
      ASSUME BInv, NEW s \in Slots,
             ~Lost(s, dev) \/ (Running(db) /\ Running(disk)),
             \A c \in {db, disk}, id \in JobIDs :
                 LET j == c.jobs[id] IN
                 j.state \in Underway \ {"installing", "needs_recovery"} =>
                     /\ j.state = "rollback_pending"
                     /\ dev.booted = j.targetSlot /\ dev.mark[j.targetSlot] = "bad"
                     /\ s # j.targetSlot
      PROVE  Related(db, disk, archive, Mark(dev, "active", s))
    <3>. USE <2>ActiveRelated
    <3>. DEFINE e == Mark(dev, "active", s)
    <3>1. dev \in DeviceState /\ db \in Database /\ disk \in Database /\ WellFormed(db)
      BY BootTypes
    <3>2. /\ Same(dev, e)
          /\ \A t \in Slots \ {s} : e.mark[t] = dev.mark[t]
          /\ \A t \in Slots \ {s} : Lost(t, dev) => Lost(t, e)
      <4>1. Same(dev, e) /\ \A t \in Slots \ {s} : e.mark[t] = dev.mark[t]
        BY <3>1 DEF Mark, DeviceState, Same
      <4>2. ASSUME NEW t \in Slots \ {s}, Lost(t, dev)
            PROVE  Lost(t, e)
        <5>1. t \in Slots /\ s \in Slots \ {t}
          OBVIOUS
        <5>. QED  BY <3>1, <4>2, <5>1, <1>StaysLost
      <4>. QED  BY <4>1, <4>2
    <3>. HIDE DEF e
    <3>3. ASSUME NEW c \in {db, disk}, NEW id \in JobIDs
          PROVE  Stage(c.jobs[id], e)
      <4>. DEFINE j == c.jobs[id]
      <4>1. j.state \in Underway => j.targetSlot \in Slots
        BY BootTypes DEF WellFormed, Underway
      <4>2. j.state \in Underway \ {"installing", "needs_recovery"} =>
                       /\ j.state = "rollback_pending"
                       /\ dev.booted = j.targetSlot /\ dev.mark[j.targetSlot] = "bad"
                       /\ s # j.targetSlot
        OBVIOUS
      <4>. HIDE DEF j
      <4>3. Stage(j, e)
        BY <3>2, <4>1, <4>2 DEF Stage, Tried, Same, Underway
      <4>. QED  BY <4>3 DEF j
    <3>4. Related(db, disk, archive, e)
      <4>1. e.operation = "installing" => Running(db) /\ Running(disk)
        BY <3>2 DEF Same, BInv, Related, Fit
      <4>2. e.version = dev.version
        BY <3>2 DEF Same
      <4>. QED  BY <3>1, <3>2, <3>3, <4>1, <4>2, <1>DeviceMoves DEF BInv
    <3>. QED  BY <3>4 DEF e
  <2>. DEFINE j == Active(db)
  <2>1. UNCHANGED <<db, disk, archive>>
    BY DEF ActivateOldSlot, AbortActivate, ActivateFallback, storeVars
  <2>2. At(pc, j, dev)
    BY DEF BInv, Pending
  <2>3. CASE UNCHANGED dev /\ pc' = "idle"
    BY <2>1, <2>3, <1>Calm, <1>MovePending
  <2>4. CASE pc = "rollback" /\ dev' = Mark(dev, "active", j.oldSlot) /\ pc' = "reboot"
    <3>1. /\ HasActive(db) /\ j.state = "rollback_pending" /\ j.state \in Underway
          /\ dev.booted = j.targetSlot /\ dev.mark[j.targetSlot] = "bad"
      BY <2>2, <2>4 DEF At, BInv, JInv, Inv, Core, Holding, Point, PointState
    <3>2. /\ j.oldSlot \in Slots /\ j.oldSlot # j.targetSlot
          /\ db.active \in JobIDs /\ j = db.jobs[db.active]
      BY <3>1, ActiveSafe DEF BInv, Safe
    <3>3. Running(db) /\ Running(disk)
      <4>1. Kin(db, disk, dev) /\ ~Lost(j.targetSlot, dev)
        BY <3>1 DEF BInv, Related, Lost
      <4>2. disk.jobs[db.active].state \in {"rollback_pending", "needs_recovery"}
        <5>1. Follows("rollback_pending", disk.jobs[db.active].state)
          BY <3>1, <4>1 DEF Kin, Heir
        <5>2. disk.jobs[db.active].state # "rolled_back"
          BY <3>1, <4>1 DEF Kin
        <5>. QED  BY <5>1, <5>2, <1>Origins
      <4>3. HasActive(disk) /\ Active(disk).state \in Underway
        <5>1. disk.jobs[db.active].state \in Underway
          BY <4>2 DEF Underway
        <5>. QED  BY <3>2, <5>1, BootTypes, Unfinished
      <4>. QED  BY <3>1, <4>3 DEF Running
    <3>4. \A c \in {db, disk}, id \in JobIDs :
              LET k == c.jobs[id] IN
              k.state \in Underway \ {"installing", "needs_recovery"} =>
                  /\ k.state = "rollback_pending"
                  /\ dev.booted = k.targetSlot /\ dev.mark[k.targetSlot] = "bad"
                  /\ j.oldSlot # k.targetSlot
      <4>1. SUFFICES ASSUME NEW c \in {db, disk}, NEW id \in JobIDs,
                            c.jobs[id].state \in Underway \ {"installing", "needs_recovery"}
                     PROVE  /\ c.jobs[id].state = "rollback_pending"
                            /\ c.jobs[id].targetSlot = j.targetSlot
        BY <3>1, <3>2
      <4>2. Follows(j.state, c.jobs[id].state) /\ c.jobs[id].targetSlot = j.targetSlot
        BY <3>1, <4>1, Twins
      <4>3. c.jobs[id].state # "rolled_back"
        BY <4>1 DEF Underway
      <4>. QED  BY <3>1, <4>1, <4>2, <4>3, <1>Origins
    <3>5. Related(db, disk, archive, dev')
      <4>. HIDE DEF j
      <4>. QED  BY <2>4, <3>2, <3>3, <3>4, <2>ActiveRelated
    <3>. QED  BY <2>1, <2>4, <3>5, <1>MovePending
  <2>5. CASE pc = "abort" /\ dev' = Mark(dev, "active", j.oldSlot) /\ pc' = "aborted"
    <3>1. /\ HasActive(db) /\ j.state = "needs_recovery" /\ j.state \in Underway
          /\ dev.booted = j.oldSlot /\ dev.mark[j.targetSlot] = "bad" /\ dev.operation = "idle"
      BY <2>2, <2>5 DEF At, BInv, JInv, Inv, Core, Holding, Point, PointState
    <3>2. j.oldSlot \in Slots /\ j.targetSlot \in Slots /\ j.oldSlot # j.targetSlot
      BY <3>1, ActiveSafe DEF BInv, Safe
    <3>3. \A c \in {db, disk}, id \in JobIDs :
              c.jobs[id].state \notin Underway \ {"installing", "needs_recovery"}
      <4>1. SUFFICES ASSUME NEW c \in {db, disk}, NEW id \in JobIDs,
                            c.jobs[id].state \in Underway \ {"installing", "needs_recovery"}
                     PROVE  FALSE
        OBVIOUS
      <4>2. Follows(j.state, c.jobs[id].state)
        BY <4>1, Twins
      <4>3. c.jobs[id].state # "failed"
        BY <4>1 DEF Underway
      <4>. QED  BY <3>1, <4>1, <4>2, <4>3, <1>Origins
    <3>4. ~Lost(j.oldSlot, dev)
      BY <3>1 DEF Lost
    <3>5. Related(db, disk, archive, dev')
      <4>. HIDE DEF j
      <4>. QED  BY <2>5, <3>2, <3>3, <3>4, <2>ActiveRelated
    <3>6. /\ dev'.booted = dev.booted /\ dev'.operation = dev.operation /\ dev'.primary = j.oldSlot
          /\ dev'.mark[j.targetSlot] = dev.mark[j.targetSlot]
      <4>1. dev \in DeviceState
        BY BootTypes
      <4>. HIDE DEF j
      <4>. QED  BY <2>5, <3>2, <4>1 DEF Mark, DeviceState
    <3>7. Lost(j.targetSlot, dev')
      BY <3>1, <3>2, <3>6 DEF Lost
    <3>. QED  BY <2>1, <2>5, <3>1, <3>5, <3>6, <3>7 DEF Pending, At
  <2>6. CASE pc = "fallback" /\ dev' = Mark(dev, "active", Other(dev)) /\ pc' = "reboot"
    <3>1. ~HasActive(db) /\ GoodOf(dev, Other(dev)) /\ Other(dev) \in Slots
      BY <2>2, <2>6, BootTypes, DeviceTypes DEF At, BInv, Pending
    <3>2. \A c \in {db, disk}, id \in JobIDs : c.jobs[id].state \notin Underway
      BY <3>1, Twins
    <3>3. ~Lost(Other(dev), dev)
      BY <3>1 DEF Lost, GoodOf
    <3>4. Related(db, disk, archive, dev')
      BY <2>6, <3>1, <3>2, <3>3, <2>ActiveRelated
    <3>. QED  BY <2>1, <2>6, <3>4, <1>MovePending
  <2>. QED  BY <2>3, <2>4, <2>5, <2>6 DEF ActivateOldSlot, AbortActivate, ActivateFallback
\* The installer writes the slot that does not run.
<1>WrittenRelated.
    ASSUME BInv, NEW e,
           \E v : e \in {Installed(dev, v), Flashing(dev, v), Flashed(dev), FlashFailed(dev)},
           \A c \in {db, disk} :
               /\ Running(c) /\ Active(c).oldSlot = dev.booted
               /\ Active(c).state \in {"installing", "needs_recovery"}
    PROVE  Related(db, disk, archive, e)
  <2>. USE <1>WrittenRelated
  <2>1. /\ dev \in DeviceState /\ db \in Database /\ disk \in Database
        /\ WellFormed(db) /\ WellFormed(disk)
    BY BootTypes
  <2>2. PICK v : e \in {Installed(dev, v), Flashing(dev, v), Flashed(dev), FlashFailed(dev)}
    OBVIOUS
  <2>3. e.version[dev.booted] = dev.version[dev.booted]
    BY <2>1, <2>2, InstalledOther, SMT
  <2>4. ASSUME NEW c \in {db, disk}, NEW id \in JobIDs
        PROVE  Stage(c.jobs[id], e)
    <3>1. c.jobs[id].state \in Underway => c.jobs[id].state \in {"installing", "needs_recovery"}
      <4>1. c.jobs[id].state \in Underway => c.jobs[id] = Active(c)
        BY <2>1, Unfinished
      <4>. QED  BY <4>1
    <3>. QED  BY <3>1 DEF Stage, Underway
  <2>. QED  BY <2>1, <2>3, <2>4, <1>DeviceMoves DEF BInv
\* The installation begins.
<1>BackendPending.
    ASSUME BInv, SimulatorInstall \/ InstallBundle
    PROVE  Related(db', disk', archive', dev') /\ Pending'
  <2>. USE <1>BackendPending
  <2>. DEFINE j == Active(db)
  <2>1. /\ pc = "install" /\ UNCHANGED storeVars
        /\ \E v : dev' \in {Installed(dev, v), Flashing(dev, v)}
        /\ pc' \in {"inspect", "flashing"}
    BY DEF SimulatorInstall, InstallBundle
  <2>2. /\ HasActive(db) /\ j.state = "installing"
        /\ disk.jobs = db.jobs /\ disk.active = db.active
        /\ j.oldSlot = dev.booted /\ j.bootID = dev.bootID
    BY <2>1 DEF BInv, JInv, DInv, Inv, Core, Holding, Guarded, SafePoint, Pending, At
  <2>3. Active(disk) = j /\ HasActive(disk) /\ j.state \in Underway
    BY <2>2 DEF Active, HasActive, Underway
  <2>4. \A c \in {db, disk} : /\ Running(c) /\ Active(c).oldSlot = dev.booted
                              /\ Active(c).state \in {"installing", "needs_recovery"}
    BY <2>2, <2>3 DEF Running
  <2>5. Related(db, disk, archive, dev')
    <3>1. \E v : dev' \in {Installed(dev, v), Flashing(dev, v), Flashed(dev), FlashFailed(dev)}
      BY <2>1
    <3>. QED  BY <2>4, <3>1, <1>WrittenRelated
  <2>6. /\ dev'.bootID = dev.bootID /\ dev'.booted = dev.booted
        /\ dev'.mark[Other(dev)] # "good"
    <3>1. PICK v : dev' \in {Installed(dev, v), Flashing(dev, v)}
      BY <2>1
    <3>2. dev'.bootID = dev.bootID /\ dev'.booted = dev.booted
      BY <3>1, BootTypes, InstalledOther, SMT
    <3>3. dev'.mark[Other(dev)] # "good"
      <4>1. dev \in DeviceState /\ Other(dev) \in Slots
        BY BootTypes, DeviceTypes
      <4>2. dev.mark \in [Slots -> Marks]
        BY <4>1 DEF DeviceState
      <4>3. Installed(dev, v).mark = [dev.mark EXCEPT ![Other(dev)] = "fresh"]
        BY <4>1 DEF Installed, DeviceState
      <4>4. Flashing(dev, v).mark = [dev.mark EXCEPT ![Other(dev)] = "bad"]
        BY <4>1 DEF Flashing, DeviceState
      <4>. QED  BY <3>1, <4>1, <4>2, <4>3, <4>4
    <3>. QED  BY <3>2, <3>3
  <2>7. j.targetSlot = Other(dev)
    <3>1. /\ Safe(j, dev, proven) /\ j.targetSlot \in Slots
      BY <2>2, <2>3, ActiveSafe DEF BInv
    <3>2. j.targetSlot # dev.booted
      BY <2>2, <2>3, <3>1 DEF Safe
    <3>. QED  BY <3>1, <3>2, BootTypes DEF Other, Opposite, Slots, DeviceState
  <2>8. Pending'
    BY <2>1, <2>2, <2>6, <2>7 DEF Pending, At, storeVars
  <2>. QED  BY <2>1, <2>5, <2>8 DEF storeVars
\* RAUC finishes on its own.
<1>FlashPending.
    ASSUME BInv, FlashDone
    PROVE  Related(db', disk', archive', dev') /\ Pending'
  <2>. USE <1>FlashPending
  <2>. DEFINE j == Active(db)
  <2>1. /\ dev.operation = "installing" /\ dev' \in {Flashed(dev), FlashFailed(dev)}
        /\ UNCHANGED <<db, disk, archive, pc, write>>
    BY DEF FlashDone, storeVars
  <2>2. Running(db) /\ Running(disk)
    BY <2>1 DEF BInv, Related, Fit
  <2>3. ASSUME NEW c \in {db, disk}
        PROVE  /\ Active(c).oldSlot = dev.booted
               /\ Active(c).state \in {"installing", "needs_recovery"}
    <3>1. /\ c.active \in JobIDs /\ Active(c) = c.jobs[c.active] /\ Active(c).state \in Underway
      BY <2>2, BootTypes, ActiveJob DEF Running, Active
    <3>2. Safe(Active(c), dev, proven)
      BY <3>1, BootTypes DEF SafeAll
    <3>. QED  BY <2>1, <3>1, <3>2 DEF Safe
  <2>4. Related(db, disk, archive, dev')
    <3>1. \E v : dev' \in {Installed(dev, v), Flashing(dev, v), Flashed(dev), FlashFailed(dev)}
      BY <2>1
    <3>. QED  BY <2>2, <2>3, <3>1, <1>WrittenRelated
  <2>5. /\ dev'.bootID = dev.bootID /\ dev'.booted = dev.booted
        /\ \A t \in Slots : dev'.mark[t] = "good" => dev.mark[t] = "good"
    <3>1. \E v : dev' \in {Installed(dev, v), Flashing(dev, v), Flashed(dev), FlashFailed(dev)}
      BY <2>1
    <3>. QED  BY <3>1, InstallMarks DEF BInv, GoodOf
  <2>6. j.targetSlot \in Slots /\ j.state \in Underway
    BY <2>2, BootTypes, ActiveJob DEF Running
  <2>7. At(pc, j, dev) /\ (pc = "write" => Due(write, j, dev))
    BY DEF BInv, Pending
  <2>8. At(pc, j, dev')
    BY <2>1, <2>5, <2>6, <2>7 DEF At
  <2>9. ASSUME pc = "write"
        PROVE  Due(write, j, dev')
    <3>1. write.job.state \in Underway
      BY <2>1, <2>7, <2>9 DEF Due
    <3>2. write.job.state \in {"installing", "needs_recovery"}
      BY <2>1, <2>9, <3>1 DEF BInv, DInv, Guarded, SafeWrite, Safe
    <3>3. Stage(write.job, dev')
      BY <3>2, NoStage
    <3>. QED  BY <2>5, <2>7, <2>9, <3>1, <3>2, <3>3 DEF Due
  <2>10. Pending'
    <3>1. pc # "fallback"
      BY <2>1, <2>7 DEF At
    <3>. QED  BY <2>1, <2>8, <2>9, <3>1 DEF Pending
  <2>. QED  BY <2>1, <2>4, <2>10
\* A save of the active job, except for the start of an installation.
<1>SavePending.
    ASSUME BInv, JInv', DInv', HasActive(db), NEW j \in Job, NEW state, NEW next,
           SaveRecord(j, state, next), next # "install",
           j.asg = Active(db).asg, j.oldSlot = Active(db).oldSlot,
           j.oldVersion = Active(db).oldVersion, j.targetSlot = Active(db).targetSlot,
           UNCHANGED <<dev, storeVars>>,
           Stage(write'.job, dev),
           state = "committed" /\ j.asg.os => Active(db).state \in Underway,
           state = "awaiting_reboot" =>
               Active(db).state = "awaiting_reboot" \/ dev.booted = Active(db).oldSlot,
           Active(db).state \in Underway =>
               /\ state \in {"rolled_back", "failed"} => Lost(Active(db).targetSlot, dev)
               /\ state = "failed" => dev.operation = "idle"
    PROVE  Related(db', disk', archive', dev') /\ Pending'
  <2>. USE <1>SavePending
  <2>. DEFINE act == Active(db)
              k == write'.job
  <2>1. /\ pc' = "write" /\ write'.next = next
        /\ k.state = state /\ k.asg = act.asg
        /\ k.oldSlot = act.oldSlot /\ k.oldVersion = act.oldVersion
        /\ k.targetSlot = act.targetSlot
    BY SavedRecord, SMT
  <2>2. db' = db /\ disk' = disk /\ archive' = archive /\ dev' = dev
    BY DEF storeVars
  <2>3. Follows(act.state, k.state)
    BY <2>1, <2>2 DEF JInv, Point, WriteFollows
  <2>4. /\ Outcome(k, dev, proven')
        /\ k.state \in Underway => act.state \in Underway
    BY <2>1, <2>2 DEF DInv, Guarded, SafeWrite
  <2>5. act.state \in Waiting \cup Underway /\ act = db.jobs[db.active] /\ db.active \in JobIDs
    BY ActiveRecord DEF BInv, JInv
  <2>6. act.state \in Underway => act.asg.os
    BY <2>5 DEF BInv, Related, Fit
  <2>7. act.state \notin Underway => dev.operation = "idle"
    <3>1. act.state \notin Underway => dev.operation # "installing"
      BY DEF BInv, Related, Fit, Running
    <3>. QED  BY <3>1, DeviceFacts DEF BInv, JInv
  <2>8. k.state \in States
    BY <2>1 DEF JInv, Inv, Core, Writing
  <2>. HIDE DEF act, k
  <2>9. k.state = "rolled_back" => act.state \in Underway
    BY <2>3, <2>5, SMT DEF Follows, Lifecycle!Edges, Waiting
  <2>10. k.state \notin Underway /\ act.state \in Underway => dev.operation = "idle"
    <3>1. SUFFICES ASSUME act.state \in Underway, k.state \notin Underway
                   PROVE  dev.operation = "idle"
      OBVIOUS
    <3>2. k.state \notin Waiting
      <4>1. act.state \notin Waiting
        BY <3>1 DEF Waiting, Underway
      <4>. QED  BY <2>3, <4>1, <1>Origins
    <3>3. k.state \in {"committed", "rolled_back", "failed"}
      BY <2>8, <3>1, <3>2 DEF States, Finished
    <3>4. k.state = "failed" => dev.operation = "idle"
      BY <2>1, <3>1 DEF act
    <3>. QED  BY <2>1, <2>4, <2>6, <3>1, <3>3, <3>4 DEF Outcome, Proved, Returned
  <2>11. Stage(k, dev)
    BY DEF k
  <2>12. Heir(act, k)
    BY <2>1, <2>3 DEF Heir
  <2>13. /\ k.state = "rolled_back" \/ (k.state = "committed" /\ k.asg.os) => act.state \in Underway
         /\ k.state \in {"rolled_back", "failed"} /\ act.state \in Underway =>
               Lost(act.targetSlot, dev)
    BY <2>1, <2>9 DEF act
  <2>14. k.state \in Underway => k.asg.os
    BY <2>1, <2>4, <2>6
  <2>15. k.state \notin Underway => dev.operation = "idle"
    BY <2>7, <2>10
  <2>16. Due(write', act, dev)
    <3>1. k.state = "awaiting_reboot" => act.state = "awaiting_reboot" \/ dev.booted = act.oldSlot
      BY <2>1 DEF act
    <3>. QED  BY <2>1, <2>11, <2>12, <2>13, <2>14, <2>15, <3>1 DEF Due, k
  <2>17. Pending'
    BY <2>1, <2>2, <2>16 DEF Pending, At, act
  <2>. QED  BY <2>2, <2>17, <1>Calm
\* Before the installation.
<1>WaitingPending.
    ASSUME BInv, JInv', DInv',
           \/ StepExpired \/ StepRejected \/ StepAccepted \/ StepDeferred
           \/ StepDownloaded \/ StepVerified
    PROVE  Related(db', disk', archive', dev') /\ Pending'
  <2>. USE <1>WaitingPending
  <2>1. HasActive(db) /\ Active(db) \in Job /\ Active(db).state \in Waiting
    <3>1. HasActive(db) /\ Active(db).state \in Waiting
      BY DEF StepExpired, StepRejected, StepAccepted, StepDeferred, StepDownloaded,
             StepVerified, Stepping, Waiting
    <3>. QED  BY <3>1, ActiveRecord DEF BInv, JInv
  <2>2. Active(db).state \notin Underway
    BY <2>1 DEF Waiting, Underway
  <2>3. UNCHANGED <<dev, storeVars>>
    BY DEF StepExpired, StepRejected, StepAccepted, StepDeferred, StepDownloaded,
           StepVerified
  <2>4. CASE StepVerified
    <3>1. pc' = "apply"
      BY <2>4 DEF StepVerified
    <3>. QED  BY <2>3, <3>1, <1>Calm, <1>MovePending DEF storeVars
  <2>5. ASSUME NEW j \in Job, NEW state \in {"failed", "downloading", "verified"},
               SaveRecord(j, state, "idle"),
               j.asg = Active(db).asg, j.oldSlot = Active(db).oldSlot,
               j.oldVersion = Active(db).oldVersion, j.targetSlot = Active(db).targetSlot
        PROVE  Related(db', disk', archive', dev') /\ Pending'
    <3>1. Stage(write'.job, dev)
      BY <2>5, SavedRecord, NoStage
    <3>. QED  BY <2>1, <2>2, <2>3, <2>5, <3>1, <1>SavePending
  <2>6. CASE StepExpired \/ StepRejected
    BY <2>1, <2>5, <2>6 DEF StepExpired, StepRejected, BeginSave
  <2>7. CASE StepAccepted
    <3>1. /\ Armed(Active(db)) \in Job /\ Armed(Active(db)).asg = Active(db).asg
          /\ Armed(Active(db)).oldSlot = Active(db).oldSlot
          /\ Armed(Active(db)).oldVersion = Active(db).oldVersion
          /\ Armed(Active(db)).targetSlot = Active(db).targetSlot
      <4>1. now + Jitter \in Nat
        <5>1. now \in Nat
          BY Types DEF BInv, JInv
        <5>. QED  BY <5>1, EngineAssumption, SMT
      <4>2. ASSUME NEW n \in Nat
            PROVE  LET k == [Active(db) EXCEPT !.downloadAfter = n] IN
                   /\ k \in Job /\ k.asg = Active(db).asg
                   /\ k.oldSlot = Active(db).oldSlot /\ k.oldVersion = Active(db).oldVersion
                   /\ k.targetSlot = Active(db).targetSlot
        BY <2>1 DEF Job
      <4>. QED  BY <2>1, <4>1, <4>2 DEF Armed
    <3>. QED  BY <2>5, <2>7, <3>1 DEF StepAccepted, BeginSave
  <2>8. CASE StepDeferred \/ StepDownloaded
    <3>. DEFINE a(f) == [Active(db) EXCEPT !.deferred = f]
    <3>1. \A f \in BOOLEAN :
             /\ a(f) \in Job /\ a(f).asg = Active(db).asg
             /\ a(f).oldSlot = Active(db).oldSlot
             /\ a(f).oldVersion = Active(db).oldVersion
             /\ a(f).targetSlot = Active(db).targetSlot
      BY <2>1 DEF Job
    <3>2. \/ SaveRecord(a(TRUE), "downloading", "idle")
          \/ SaveRecord(a(FALSE), "verified", "idle")
      BY <2>8 DEF StepDeferred, StepDownloaded, BeginSave
    <3>. HIDE DEF a
    <3>. QED  BY <2>5, <3>1, <3>2
  <2>. QED  BY <2>4, <2>6, <2>7, <2>8
\* Side payloads and the checks before the installation.
<1>PayloadPending.
    ASSUME BInv, JInv', DInv',
           \/ \E t \in Targets : ReplacePayload(t)
           \/ PayloadCopied \/ PayloadFailed \/ PayloadsInPlace \/ PreinstallError
           \/ PreinstallRejected \/ BeginInstall
    PROVE  Related(db', disk', archive', dev') /\ Pending'
  <2>. USE <1>PayloadPending
  <2>. DEFINE j == Active(db)
  <2>1. pc \in {"apply", "copy", "preinstall"} /\ UNCHANGED <<dev, storeVars>>
    BY DEF ReplacePayload, PayloadCopied, PayloadFailed, PayloadsInPlace, PreinstallError,
           PreinstallRejected, BeginInstall
  <2>2. HasActive(db) /\ j.state = "verified" /\ j \in Job
    <3>1. HasActive(db) /\ j.state = "verified"
      BY <2>1 DEF BInv, JInv, Inv, Core, Holding
    <3>. QED  BY <3>1, ActiveRecord DEF BInv, JInv
  <2>3. Related(db', disk', archive', dev') /\ db' = db /\ dev' = dev
    BY <2>1, <1>Calm DEF storeVars
  <2>4. \A b \in BOOLEAN :
            LET k == [j EXCEPT !.payloadsApplied = b]
            IN  /\ k \in Job /\ k.asg = j.asg /\ k.oldSlot = j.oldSlot
                /\ k.oldVersion = j.oldVersion /\ k.targetSlot = j.targetSlot
    BY <2>2 DEF Job
  <2>5. LET k == WithPayloads
        IN  /\ k \in Job /\ k.asg = j.asg /\ k.oldSlot = j.oldSlot
            /\ k.oldVersion = j.oldVersion /\ k.targetSlot = j.targetSlot
    BY <2>4 DEF WithPayloads
  <2>6. ASSUME NEW k \in {j, WithPayloads}, NEW state \in {"failed", "committed"},
               SaveRecord(k, state, "idle"), state = "committed" => ~j.asg.os
        PROVE  Pending'
    <3>1. /\ k \in Job /\ k.asg = j.asg /\ k.oldSlot = j.oldSlot
          /\ k.oldVersion = j.oldVersion /\ k.targetSlot = j.targetSlot
      BY <2>2, <2>5, <2>6
    <3>2. Stage(write'.job, dev)
      BY <2>6, <3>1, SavedRecord, NoStage
    <3>3. j.state \notin Underway
      BY <2>2 DEF Underway
    <3>. HIDE DEF j
    <3>. QED  BY <2>1, <2>2, <2>6, <3>1, <3>2, <3>3, <1>SavePending DEF j
  <2>7. CASE (\E t \in Targets : ReplacePayload(t)) \/ PayloadCopied \/ PreinstallError
    <3>1. pc' \in {"copy", "apply", "idle"}
      BY <2>7 DEF ReplacePayload, PayloadCopied, PreinstallError
    <3>. QED  BY <2>3, <3>1, <1>MovePending
  <2>8. CASE PayloadFailed
    BY <2>3, <2>6, <2>8 DEF PayloadFailed
  <2>9. CASE PayloadsInPlace
    <3>1. CASE Release.os
      BY <2>3, <2>9, <3>1 DEF PayloadsInPlace, Release, Pending, At
    <3>2. CASE ~Release.os
      <4>1. SaveRecord(WithPayloads, "committed", "idle") /\ ~j.asg.os
        BY <2>9, <3>2 DEF PayloadsInPlace, BeginSave, Release
      <4>. QED  BY <2>3, <2>6, <4>1
    <3>. QED  BY <3>1, <3>2
  <2>10. CASE PreinstallRejected
    BY <2>3, <2>6, <2>10 DEF PreinstallRejected, BeginSave
  <2>11. CASE BeginInstall
    <3>. DEFINE k == [WithPayloads EXCEPT !.oldSlot = dev.booted,
                                          !.oldVersion = dev.version[dev.booted],
                                          !.targetSlot = Other(dev),
                                          !.bootID = dev.bootID]
                w == write'.job
    <3>1. SaveRecord(k, "installing", "install") /\ pc = "preinstall"
      BY <2>11 DEF BeginInstall, BeginSave
    <3>2. k.asg = j.asg /\ k.bootID = dev.bootID
      BY <2>5 DEF Job
    <3>. HIDE DEF k
    <3>3. /\ pc' = "write" /\ w.state = "installing" /\ w.asg = k.asg /\ w.bootID = k.bootID
          /\ write'.next = "install"
      <4>1. /\ pc' = "write" /\ write'.next = "install"
            /\ w = [k EXCEPT !.state = "installing",
                             !.updated = IF Terminal("installing") THEN now ELSE @]
        BY <3>1 DEF SaveRecord
      <4>2. k \in Job
        <5>1. /\ dev.booted \in Slots /\ dev.bootID \in Nat
              /\ dev.version[dev.booted] \in Versions \cup {"torn"} /\ Other(dev) \in Slots
          BY BootTypes, DeviceTypes DEF DeviceState
        <5>2. WithPayloads \in Job
          BY <2>5
        <5>. HIDE DEF j
        <5>. QED  BY <5>1, <5>2 DEF Job, k
      <4>. QED  BY <4>1, <4>2 DEF Job
    <3>. HIDE DEF w
    <3>4. j.asg.os
      BY <3>1 DEF BInv, Pending, At
    <3>5. Heir(j, w) /\ j.state \notin Underway
      BY <2>2, <3>3, Moves DEF Heir, Underway
    <3>6. Stage(w, dev) /\ w.state \in Underway
      BY <3>3, NoStage DEF Underway
    <3>7. Due(write', j, dev)
      BY <3>2, <3>3, <3>4, <3>5, <3>6 DEF Due, w
    <3>. QED  BY <2>3, <3>3, <3>7 DEF Pending, At
  <2>. QED  BY <2>7, <2>8, <2>9, <2>10, <2>11
\* A save of a job that is under way.
<1>UnderwayPending.
    ASSUME BInv, JInv', DInv', HasActive(db), Active(db).state \in Underway,
           NEW state, NEW next, next # "install", UNCHANGED <<dev, storeVars>>,
           \/ SaveRecord(Active(db), state, next)
           \/ \E f \in BOOLEAN :
                 SaveRecord([Active(db) EXCEPT !.rebootRequested = f], state, next)
           \/ /\ state = "checking_health"
              /\ \/ SaveRecord([Active(db) EXCEPT !.healthStarted = now, !.bootID = dev.bootID],
                               state, next)
                 \/ SaveRecord([Active(db) EXCEPT !.bootID = dev.bootID], state, next),
           state = "awaiting_reboot" =>
               \/ Active(db).state = "awaiting_reboot"
               \/ Active(db).bootID = dev.bootID /\ Switched(Active(db), dev),
           state \in {"checking_health", "committing", "rollback_pending"} =>
               dev.booted = Active(db).targetSlot /\ dev.primary = Active(db).targetSlot,
           state \in {"rolled_back", "failed"} => Lost(Active(db).targetSlot, dev),
           state = "failed" => dev.operation = "idle"
    PROVE  Related(db', disk', archive', dev') /\ Pending'
  <2>. USE <1>UnderwayPending
  \* The boot selection as the next state of a job has it.
  <2>SavedStage.
      ASSUME NEW j, NEW k, NEW d, k.oldSlot = j.oldSlot, k.targetSlot = j.targetSlot,
             k.state = "awaiting_reboot" =>
                 \/ k.bootID = j.bootID /\ j.state = "awaiting_reboot" /\ Stage(j, d)
                 \/ k.bootID = d.bootID /\ Switched(j, d),
             k.state \in {"checking_health", "committing", "rollback_pending"} =>
                 d.booted = j.targetSlot /\ d.primary = j.targetSlot
      PROVE  Stage(k, d)
    <3>. USE <2>SavedStage
    <3>1. Switched(k, d) <=> Switched(j, d)
      BY DEF Switched
    <3>2. j.state = "awaiting_reboot" /\ Tried(j, d) => Tried(k, d)
      BY DEF Tried
    <3>3. d.booted = j.targetSlot /\ d.primary = j.targetSlot => Tried(k, d)
      BY DEF Tried
    <3>. QED  BY <3>1, <3>2, <3>3 DEF Stage
  <2>. DEFINE j == Active(db)
  <2>1. j \in Job /\ j = db.jobs[db.active] /\ db.active \in JobIDs
    BY ActiveRecord DEF BInv, JInv
  <2>2. Stage(j, dev)
    BY <2>1 DEF BInv, Related, Fit
  <2>3. dev.bootID \in Nat /\ now \in Nat
    BY DeviceFacts DEF BInv, JInv
  <2>4. PICK k \in Job :
          /\ SaveRecord(k, state, next)
          /\ k.asg = j.asg /\ k.oldSlot = j.oldSlot
          /\ k.oldVersion = j.oldVersion /\ k.targetSlot = j.targetSlot
          /\ state # "checking_health" => k.bootID = j.bootID
    <3>1. \A f \in BOOLEAN :
            LET k == [j EXCEPT !.rebootRequested = f] IN
            /\ k \in Job /\ k.asg = j.asg /\ k.oldSlot = j.oldSlot
            /\ k.oldVersion = j.oldVersion /\ k.targetSlot = j.targetSlot
            /\ k.bootID = j.bootID
      BY <2>1 DEF Job
    <3>2. LET k == [j EXCEPT !.healthStarted = now, !.bootID = dev.bootID] IN
            /\ k \in Job /\ k.asg = j.asg /\ k.oldSlot = j.oldSlot
            /\ k.oldVersion = j.oldVersion /\ k.targetSlot = j.targetSlot
      BY <2>1, <2>3 DEF Job
    <3>3. LET k == [j EXCEPT !.bootID = dev.bootID] IN
            /\ k \in Job /\ k.asg = j.asg /\ k.oldSlot = j.oldSlot
            /\ k.oldVersion = j.oldVersion /\ k.targetSlot = j.targetSlot
      BY <2>1, <2>3 DEF Job
    <3>4. \/ SaveRecord(j, state, next)
          \/ \E f \in BOOLEAN : SaveRecord([j EXCEPT !.rebootRequested = f], state, next)
          \/ /\ state = "checking_health"
             /\ \/ SaveRecord([j EXCEPT !.healthStarted = now, !.bootID = dev.bootID], state, next)
                \/ SaveRecord([j EXCEPT !.bootID = dev.bootID], state, next)
      OBVIOUS
    <3>. HIDE DEF j
    <3>5. CASE SaveRecord(j, state, next)
      BY <2>1, <3>5
    <3>6. CASE \E f \in BOOLEAN : SaveRecord([j EXCEPT !.rebootRequested = f], state, next)
      BY <3>1, <3>6
    <3>7. CASE /\ state = "checking_health"
               /\ SaveRecord([j EXCEPT !.healthStarted = now, !.bootID = dev.bootID], state, next)
      BY <3>2, <3>7
    <3>8. CASE /\ state = "checking_health"
               /\ SaveRecord([j EXCEPT !.bootID = dev.bootID], state, next)
      BY <3>3, <3>8
    <3>. QED  BY <3>4, <3>5, <3>6, <3>7, <3>8
  <2>5. Stage(write'.job, dev)
    <3>1. /\ write'.job.state = state /\ write'.job.oldSlot = j.oldSlot
          /\ write'.job.targetSlot = j.targetSlot
          /\ state # "checking_health" => write'.job.bootID = j.bootID
      BY <2>4, SavedRecord
    <3>2. state = "awaiting_reboot" => state # "checking_health"
      OBVIOUS
    <3>. QED  BY <2>2, <3>1, <3>2, <2>SavedStage, SMT
  <2>6. state = "awaiting_reboot" => j.state = "awaiting_reboot" \/ dev.booted = j.oldSlot
    BY DEF Switched
  <2>. QED  BY <2>4, <2>5, <2>6, <1>SavePending
\* The installation ends, one way or the other.
<1>InstalledPending.
    ASSUME BInv, JInv', DInv', InstallCompleted \/ InstallError \/ Inspect \/ StepInstalling
    PROVE  Related(db', disk', archive', dev') /\ Pending'
  <2>. USE <1>InstalledPending
  <2>. DEFINE j == Active(db)
  <2>1. UNCHANGED <<dev, storeVars>> /\ HasActive(db) /\ j.state \in Underway
    <3>1. UNCHANGED <<dev, storeVars>>
      BY DEF InstallCompleted, InstallError, Inspect, StepInstalling
    <3>2. pc \in {"install", "flashing", "inspect"} \/ Stepping({"installing"})
      BY DEF InstallCompleted, InstallError, Inspect, StepInstalling
    <3>3. HasActive(db) /\ j.state \in Underway
      BY <3>2 DEF BInv, JInv, Inv, Core, Holding, Stepping, Underway
    <3>. QED  BY <3>1, <3>3
  <2>2. CASE InstallCompleted
    <3>1. db' = db /\ dev' = dev /\ pc = "flashing" /\ pc' = "inspect"
      BY <2>1, <2>2 DEF InstallCompleted, storeVars
    <3>2. Pending'
      BY <3>1 DEF BInv, Pending, At
    <3>. QED  BY <2>1, <3>2, <1>Calm DEF storeVars
  <2>3. CASE SaveRecord(j, "needs_recovery", "idle")
    BY <2>1, <2>3, <1>UnderwayPending, SMT
  <2>4. CASE /\ Inspect /\ SaveRecord(j, "awaiting_reboot", "idle")
             /\ dev.booted = j.oldSlot /\ dev.primary = j.targetSlot
    <3>1. j.bootID = dev.bootID /\ Switched(j, dev)
      BY <2>4 DEF Inspect, BInv, Pending, At, Switched
    <3>. QED  BY <2>1, <2>4, <3>1, <1>UnderwayPending, SMT
  <2>5. InstallError \/ StepInstalling => SaveRecord(j, "needs_recovery", "idle")
    BY DEF InstallError, StepInstalling, BeginSave
  <2>6. Inspect => \/ SaveRecord(j, "needs_recovery", "idle")
                   \/ /\ SaveRecord(j, "awaiting_reboot", "idle")
                      /\ dev.booted = j.oldSlot /\ dev.primary = j.targetSlot
    BY DEF Inspect, BeginSave
  <2>. QED  BY <2>2, <2>3, <2>4, <2>5, <2>6
\* Reboots.
<1>RebootPending.
    ASSUME BInv, JInv', DInv', StepAutoReboot \/ RequestReboot \/ Reboot \/ RebootJob
    PROVE  Related(db', disk', archive', dev') /\ Pending'
  <2>. USE <1>RebootPending
  \* A reboot that the backend accepts.
  <2>RebootedRelated.
      ASSUME BInv, Rebooted
      PROVE  Related(db, disk, archive, dev')
    <3>. USE <2>RebootedRelated
    <3>1. CASE Backend = "rauc"
      <4>1. dev' = [dev EXCEPT !.rebooting = TRUE]
        BY <3>1 DEF Rebooted
      <4>2. /\ dev'.bootID = dev.bootID /\ dev'.booted = dev.booted
            /\ dev'.primary = dev.primary /\ dev'.mark = dev.mark
            /\ dev'.version = dev.version /\ dev'.operation = dev.operation
        BY <4>1, BootTypes DEF DeviceState
      <4>3. \A s \in Slots : Lost(s, dev) => Lost(s, dev')
        BY <4>2 DEF Lost
      <4>4. \A c \in {db, disk}, id \in JobIDs : Stage(c.jobs[id], dev')
        <5>1. \A j : /\ Switched(j, dev) => Switched(j, dev')
                     /\ Tried(j, dev) => Tried(j, dev')
          BY <4>2 DEF Switched, Tried, Lost
        <5>2. \A j : Stage(j, dev) => Stage(j, dev')
          BY <4>2, <5>1 DEF Stage
        <5>. QED  BY <5>2 DEF BInv, Related, Fit
      <4>5. dev'.operation = "installing" => Running(db) /\ Running(disk)
        BY <4>2 DEF BInv, Related, Fit
      <4>. QED  BY <4>2, <4>3, <4>4, <4>5, BootTypes, <1>DeviceMoves DEF BInv
    <3>2. CASE Backend # "rauc"
      <4>1. PICK t \in BootChoices(dev) : dev' = BootedInto(dev, t)
        BY <3>2 DEF Rebooted
      <4>2. Related(db, disk, archive, dev)
        BY DEF BInv
      <4>. QED  BY <4>1, <4>2, <1>BootRelated
    <3>. QED  BY <3>1, <3>2
  <2>. DEFINE j == Active(db)
  <2>1. db' = db /\ disk' = disk /\ archive' = archive /\ UNCHANGED storeVars
    BY DEF StepAutoReboot, RequestReboot, Reboot, RebootJob, storeVars
  <2>2. CASE /\ UNCHANGED dev /\ HasActive(db) /\ j.state = "awaiting_reboot"
             /\ \E f \in BOOLEAN, next \in {"idle", "rebootJob"} :
                   SaveRecord([j EXCEPT !.rebootRequested = f], "awaiting_reboot", next)
    <3>1. j.state \in Underway
      BY <2>2 DEF Underway
    <3>. QED  BY <2>1, <2>2, <3>1, <1>UnderwayPending
  <2>3. CASE Rebooted /\ pc' = "idle"
    BY <2>1, <2>3, <2>RebootedRelated, <1>MovePending
  <2>4. CASE UNCHANGED dev /\ pc' = "idle"
    BY <2>1, <2>4, <1>Calm, <1>MovePending
  <2>5. CASE StepAutoReboot
    BY <2>2, <2>5 DEF StepAutoReboot, Stepping, BeginReboot, BeginSave
  <2>6. CASE RequestReboot
    BY <2>2, <2>6 DEF RequestReboot, BeginReboot, BeginSave
  <2>7. CASE Reboot
    BY <2>3, <2>4, <2>7 DEF Reboot
  <2>8. CASE RebootJob
    <3>1. HasActive(db) /\ j.state = "awaiting_reboot"
      BY <2>8 DEF RebootJob, BInv, JInv, Inv, Core, Holding, Point, PointState
    <3>2. \/ Rebooted /\ pc' = "idle"
          \/ /\ UNCHANGED dev
             /\ SaveRecord([j EXCEPT !.rebootRequested = FALSE], "awaiting_reboot", "idle")
      BY <2>8 DEF RebootJob, BeginSave
    <3>. HIDE DEF j
    <3>. QED  BY <2>2, <2>3, <3>1, <3>2
  <2>. QED  BY <2>5, <2>6, <2>7, <2>8
\* A boot shows where the device ended up.
<1>BootedPending.
    ASSUME BInv, JInv', DInv', StepBooted \/ StepBootedAgain
    PROVE  Related(db', disk', archive', dev') /\ Pending'
  <2>. USE <1>BootedPending
  <2>. DEFINE j == Active(db)
              outcome == BootOutcome(j, "checking_health")
  <2>1. /\ UNCHANGED <<dev, storeVars>> /\ HasActive(db)
        /\ j.state \in {"awaiting_reboot", "checking_health", "committing"}
    BY DEF StepBooted, StepBootedAgain, Stepping
  <2>2. j.state \in Underway /\ j.oldSlot # j.targetSlot /\ Stage(j, dev)
    <3>1. j.state \in Underway
      BY <2>1 DEF Underway
    <3>. QED  BY <2>1, <3>1, ActiveSafe DEF Safe, BInv, Related, Fit
  <2>3. /\ outcome \in {"rolled_back", "checking_health", "needs_recovery"}
        /\ outcome = "rolled_back" => dev.booted = j.oldSlot
        /\ outcome = "checking_health" => dev.booted = j.targetSlot
    BY DEF BootOutcome, RunsTarget
  <2>4. \/ SaveRecord(j, "needs_recovery", "idle")
        \/ /\ j.state = "awaiting_reboot" => dev.bootID # j.bootID
           /\ \/ SaveRecord(j, outcome, "idle") /\ outcome # "checking_health"
              \/ /\ outcome = "checking_health"
                 /\ \/ SaveRecord([j EXCEPT !.healthStarted = now, !.bootID = dev.bootID],
                                  outcome, "idle")
                    \/ SaveRecord([j EXCEPT !.bootID = dev.bootID], outcome, "idle")
    <3>1. CASE StepBooted
      BY <3>1 DEF StepBooted, BeginSave
    <3>2. CASE StepBootedAgain
      BY <3>2 DEF StepBootedAgain, Stepping, BeginSave
    <3>. QED  BY <3>1, <3>2
  <2>. HIDE DEF outcome
  <2>5. CASE SaveRecord(j, "needs_recovery", "idle")
    BY <2>1, <2>2, <2>5, <1>UnderwayPending, SMT
  <2>6. CASE j.state = "awaiting_reboot" => dev.bootID # j.bootID
    <3>1. Tried(j, dev) /\ j.state # "rollback_pending"
      BY <2>1, <2>2, <2>6 DEF Stage
    <3>2. outcome = "checking_health" => dev.booted = j.targetSlot /\ dev.primary = j.targetSlot
      BY <2>3, <3>1 DEF Tried
    <3>3. outcome = "rolled_back" => Lost(j.targetSlot, dev)
      BY <2>2, <2>3, <3>1 DEF Tried
    <3>4. CASE SaveRecord(j, outcome, "idle") /\ outcome # "checking_health"
      BY <2>1, <2>2, <2>3, <3>3, <3>4, <1>UnderwayPending
    <3>5. CASE /\ outcome = "checking_health"
               /\ \/ SaveRecord([j EXCEPT !.healthStarted = now, !.bootID = dev.bootID],
                                outcome, "idle")
                  \/ SaveRecord([j EXCEPT !.bootID = dev.bootID], outcome, "idle")
      BY <2>1, <2>2, <3>2, <3>5, <1>UnderwayPending, SMT
    <3>. QED  BY <2>4, <2>5, <3>4, <3>5
  <2>. QED  BY <2>4, <2>5, <2>6
\* The health window, and the ends of a job.
<1>HealthPending.
    ASSUME BInv, JInv', DInv',
           \/ StepHealthDeadline \/ StepUnhealthy \/ StepHealthy \/ SaveCommitted
           \/ StepRolledBack \/ AbortSave \/ NormalBootUnhealthy
    PROVE  Related(db', disk', archive', dev') /\ Pending'
  <2>. USE <1>HealthPending
  <2>. DEFINE j == Active(db)
  <2>1. UNCHANGED <<dev, storeVars>> /\ db' = db /\ disk' = disk /\ archive' = archive
    BY DEF StepHealthDeadline, StepUnhealthy, StepHealthy, SaveCommitted, StepRolledBack,
           AbortSave, NormalBootUnhealthy, storeVars
  <2>2. CASE UNCHANGED <<pc, write>>
    BY <2>1, <2>2, <1>Calm, <1>KeepPending
  <2>3. CASE ~UNCHANGED <<pc, write>>
    <3>1. /\ StepHealthDeadline \/ StepHealthy =>
                /\ Checking("checking_health")
                /\ \E state \in {"rollback_pending", "committing"} : SaveRecord(j, state, "idle")
          /\ SaveCommitted => pc = "commit" /\ SaveRecord(j, "committed", "idle")
          /\ AbortSave => pc = "aborted" /\ SaveRecord(j, "failed", "idle")
          /\ StepRolledBack =>
                /\ Stepping({"rollback_pending"}) /\ dev.booted # j.targetSlot
                /\ \E state \in {"rolled_back", "needs_recovery"} : SaveRecord(j, state, "idle")
      BY <2>3 DEF StepHealthDeadline, StepHealthy, SaveCommitted, AbortSave, StepRolledBack,
                  BeginSave
    <3>2. ~StepUnhealthy /\ ~NormalBootUnhealthy
      BY <2>3 DEF StepUnhealthy, NormalBootUnhealthy
    <3>3. HasActive(db) /\ j.state \in Underway
      BY <3>1, <3>2 DEF BInv, JInv, Inv, Core, Holding, Checking, Stepping, Underway
    <3>4. Stage(j, dev) /\ At(pc, j, dev)
      BY <3>3, ActiveSafe DEF BInv, Related, Fit, Pending
    <3>5. CASE StepHealthDeadline \/ StepHealthy
      <4>1. dev.booted = j.targetSlot /\ j.state = "checking_health"
        BY <3>1, <3>5 DEF Checking, Stepping, RunsTarget
      <4>2. dev.primary = j.targetSlot
        BY <3>4, <4>1 DEF Stage, Tried
      <4>. QED  BY <2>1, <3>1, <3>3, <3>5, <4>1, <4>2, <1>UnderwayPending
    <3>6. CASE SaveCommitted
      BY <2>1, <3>1, <3>3, <3>6, <1>UnderwayPending, SMT
    <3>7. CASE AbortSave
      <4>1. Lost(j.targetSlot, dev) /\ dev.operation = "idle"
        BY <3>1, <3>4, <3>7 DEF At
      <4>. QED  BY <2>1, <3>1, <3>3, <3>7, <4>1, <1>UnderwayPending, SMT
    <3>8. CASE StepRolledBack
      <4>1. Lost(j.targetSlot, dev)
        BY <3>1, <3>4, <3>8 DEF Stepping, Stage, Tried
      <4>. QED  BY <2>1, <3>1, <3>3, <3>8, <4>1, <1>UnderwayPending
    <3>. QED  BY <3>2, <3>5, <3>6, <3>7, <3>8
  <2>. QED  BY <2>2, <2>3
<1>. SUFFICES ASSUME BInv, [Next]_vars
              PROVE  BInv'
  OBVIOUS
<1>1. JInv' /\ DInv'
  BY NextJInv, NextDInv DEF BInv
<1>2. SUFFICES Related(db', disk', archive', dev') /\ Pending'
  BY <1>1 DEF BInv
<1>3. CASE GC \/ Tick \/ UNCHANGED vars
  <2>1. UNCHANGED <<db, disk, archive, dev, pc, write>>
    BY <1>3 DEF GC, Tick, vars, storeVars
  <2>. QED  BY <2>1, <1>Calm, <1>KeepPending
<1>4. CASE Step
  BY <1>1, <1>4, <1>WaitingPending, <1>InstalledPending, <1>RebootPending, <1>BootedPending,
     <1>HealthPending, <1>GoodPending, <1>BadPending, <1>TransactionPending DEF Step
<1>5. CASE Continue
  BY <1>1, <1>5, <1>PayloadPending, <1>BackendPending, <1>InstalledPending, <1>RebootPending,
     <1>HealthPending, <1>ActivePending, <1>TransactionPending DEF Continue
<1>6. CASE Request
  BY <1>1, <1>3, <1>6, <1>TransactionPending, <1>RebootPending, <1>BadPending DEF Request
<1>7. CASE Environment
  BY <1>3, <1>7, <1>FlashPending, <1>FreshPending DEF Environment
<1>. QED  BY <1>3, <1>4, <1>5, <1>6, <1>7 DEF Next

-----------------------------------------------------------------------------
\* Some slot stays bootable

\* The old slot of a job under way can be booted again: always once the image is
\* installed, and before that while the device still runs from it.
Returnable(j, d) ==
    /\ j.state \in Underway /\ (Backend = "simulator" \/ d.booted = j.oldSlot) =>
          Bootable(d, j.oldSlot)
    /\ j.state \in Underway \ {"installing", "needs_recovery"} => Bootable(d, j.oldSlot)
    /\ j.oldVersion # "torn"

Recoverable(b, d) == \A id \in JobIDs : Returnable(b.jobs[id], d)

RInv ==
    /\ SomeSlotBootable
    /\ Recoverable(db, dev) /\ Recoverable(disk, dev)
    /\ pc = "write" => Returnable(write.job, dev)

\* Whatever happens to the device, some slot and every old slot that matters stay
\* bootable.
LEMMA DeviceRecoverable ==
    ASSUME BInv, RInv, HasNewest(db), [Next]_vars
    PROVE  (\E t \in Slots : Bootable(dev', t)) /\ Recoverable(db, dev') /\ Recoverable(disk, dev')
\* A change of the device without a boot that leaves bootable slots bootable, except
\* perhaps one that no job under way falls back to while the other one is bootable.
<1>StillRecoverable.
    ASSUME RInv, NEW e, e.booted = dev.booted, NEW t \in Slots,
           \A s \in Slots \ {t} : Bootable(dev, s) => Bootable(e, s),
           \/ Bootable(dev, t) => Bootable(e, t)
           \/ /\ \E r \in Slots \ {t} : Bootable(dev, r)
              /\ \A c \in {db, disk}, id \in JobIDs :
                    c.jobs[id].state \in Underway => c.jobs[id].oldSlot # t
    PROVE  /\ \E s \in Slots : Bootable(e, s)
           /\ \A c \in {db, disk} : WellFormed(c) => Recoverable(c, e)
  <2>. USE <1>StillRecoverable
  <2>1. \E s \in Slots : Bootable(e, s)
    BY DEF RInv, SomeSlotBootable
  <2>2. ASSUME NEW c \in {db, disk}, WellFormed(c), NEW id \in JobIDs
        PROVE  Returnable(c.jobs[id], e)
    <3>. DEFINE j == c.jobs[id]
    <3>1. Returnable(j, dev)
      BY DEF RInv, Recoverable
    <3>2. j.state \in Underway => j.oldSlot \in Slots
      BY <2>2 DEF WellFormed, Underway
    <3>3. j.state \in Underway /\ Bootable(dev, j.oldSlot) => Bootable(e, j.oldSlot)
      BY <3>2
    <3>. HIDE DEF j
    <3>4. Returnable(j, e)
      BY <3>1, <3>3 DEF Returnable
    <3>. QED  BY <3>4 DEF j
  <2>. QED  BY <2>1, <2>2 DEF Recoverable
\* Marking a slot good, or activating it, makes no slot unbootable; marking one bad
\* does so to this slot only.
<1>MarkBootable.
    ASSUME NEW d \in DeviceState, NEW s \in Slots
    PROVE  /\ \A m \in {"good", "active"}, t \in Slots :
                 Bootable(d, t) => Bootable(Mark(d, m, s), t)
           /\ \A t \in Slots \ {s} : Bootable(d, t) => Bootable(Mark(d, "bad", s), t)
           /\ \A m \in {"good", "bad", "active"} : Mark(d, m, s).booted = d.booted
  BY <1>MarkBootable DEF Mark, DeviceState, Bootable
\* The steps that change the device.
<1>MovingSteps.
    ASSUME [Next]_vars
    PROVE  \/ dev' = dev
           \/ StepMarkGood \/ NormalBootHealthy \/ StepMarkBad \/ RecoverAbort
           \/ NormalBootDeadline \/ ActivateOldSlot \/ AbortActivate \/ ActivateFallback
           \/ SimulatorInstall \/ InstallBundle \/ FlashDone \/ Reboot \/ RebootJob \/ Boot
  <2>. USE <1>MovingSteps
  <2>1. CASE Step
    BY <2>1 DEF Step, StepExpired, StepRejected, StepAccepted, StepDeferred, StepDownloaded,
                StepVerified, StepInstalling, StepAutoReboot, StepBooted, StepBootedAgain,
                StepHealthDeadline, StepUnhealthy, StepHealthy, StepRolledBack,
                NormalBootSeen, NormalBootUnhealthy
  <2>2. CASE Continue
    BY <2>2 DEF Continue, WriteJournal, AbortSave, ReplacePayload, PayloadCopied, PayloadFailed,
                PayloadsInPlace, PreinstallError, PreinstallRejected, BeginInstall,
                InstallCompleted, InstallError, Inspect, SaveCommitted, ConfirmBoot
  <2>3. CASE Request
    BY <2>3 DEF Request, Submit, Ack, GC, RequestReboot
  <2>4. CASE Environment
    BY <2>4 DEF Environment, Tick, Restart
  <2>5. CASE UNCHANGED vars
    BY <2>5 DEF vars
  <2>6. Next \/ UNCHANGED vars
    OBVIOUS
  <2>. QED  BY <2>1, <2>2, <2>3, <2>4, <2>5, <2>6 DEF Next
\* A slot is marked good or activated.
<1>RaisedRecoverable.
    ASSUME BInv, RInv, NEW s \in Slots, NEW m \in {"good", "active"}
    PROVE  LET e == Mark(dev, m, s) IN
           (\E t \in Slots : Bootable(e, t)) /\ Recoverable(db, e) /\ Recoverable(disk, e)
  <2>. USE <1>RaisedRecoverable
  <2>. DEFINE e == Mark(dev, m, s)
  <2>1. e.booted = dev.booted /\ \A t \in Slots : Bootable(dev, t) => Bootable(e, t)
    BY BootTypes, <1>MarkBootable
  <2>. HIDE DEF e
  <2>2. (\E t \in Slots : Bootable(e, t)) /\ Recoverable(db, e) /\ Recoverable(disk, e)
    BY <2>1, BootTypes, <1>StillRecoverable
  <2>. QED  BY <2>2 DEF e
\* The old slot of the active job, on either copy of the journal.
<1>OldSlot.
    ASSUME BInv, HasActive(db), Active(db).state \in Underway,
           NEW c \in {db, disk}, NEW id \in JobIDs, c.jobs[id].state \in Underway
    PROVE  c.jobs[id].oldSlot = Active(db).oldSlot
  <2>. USE <1>OldSlot
  <2>1. CASE c = db
    BY <2>1, BootTypes, Unfinished
  <2>2. CASE c = disk
    <3>1. Kin(db, disk, dev)
      BY DEF BInv, Related
    <3>2. id = db.active
      BY <2>2, Twins
    <3>. QED  BY <2>2, <3>1, <3>2 DEF Kin, Heir
  <2>. QED  BY <2>1, <2>2
\* The target of the active job is given up.
<1>TargetGivenUp.
    ASSUME BInv, RInv, StepMarkBad \/ RecoverAbort
    PROVE  (\E t \in Slots : Bootable(dev', t)) /\ Recoverable(db, dev') /\ Recoverable(disk, dev')
  <2>. USE <1>TargetGivenUp
  <2>. DEFINE j == Active(db)
  <2>1. /\ HasActive(db) /\ dev' = Mark(dev, "bad", j.targetSlot)
        /\ \/ j.state = "rollback_pending"
           \/ j.state = "needs_recovery" /\ dev.booted = j.oldSlot
    BY DEF StepMarkBad, RecoverAbort, Stepping
  <2>2. j.state \in Underway
    BY <2>1 DEF Underway
  <2>3. /\ j.oldSlot \in Slots /\ j.targetSlot \in Slots /\ j.oldSlot # j.targetSlot
        /\ db.active \in JobIDs /\ j = db.jobs[db.active]
    BY <2>1, <2>2, ActiveSafe DEF BInv, Safe
  <2>4. Bootable(dev, j.oldSlot)
    <3>1. Returnable(j, dev)
      BY <2>3 DEF RInv, Recoverable
    <3>. QED  BY <2>1, <2>2, <3>1 DEF Returnable
  <2>5. \A c \in {db, disk}, id \in JobIDs :
            c.jobs[id].state \in Underway => c.jobs[id].oldSlot # j.targetSlot
    BY <2>1, <2>2, <2>3, <1>OldSlot
  <2>6. /\ dev'.booted = dev.booted
        /\ \A t \in Slots \ {j.targetSlot} : Bootable(dev, t) => Bootable(dev', t)
    BY <2>1, <2>3, BootTypes, <1>MarkBootable
  <2>. HIDE DEF j
  <2>. QED  BY <2>3, <2>4, <2>5, <2>6, BootTypes, <1>StillRecoverable
\* confirmNormalBoot gives up the slot that runs, for one that is complete.
<1>RunningGivenUp.
    ASSUME BInv, RInv, HasNewest(db), NormalBootDeadline
    PROVE  (\E t \in Slots : Bootable(dev', t)) /\ Recoverable(db, dev') /\ Recoverable(disk, dev')
  <2>. USE <1>RunningGivenUp
  <2>. DEFINE o == Other(dev)
  <2>1. /\ ~HasActive(db) /\ Completed # {} /\ Recognized(o) /\ GoodOf(dev, o)
        /\ dev' = Mark(dev, "bad", dev.booted)
    BY DEF NormalBootDeadline, Confirming
  <2>2. dev \in DeviceState /\ dev.booted \in Slots /\ o \in Slots /\ o # dev.booted
    BY BootTypes DEF DeviceState, Other, Opposite, Slots
  <2>3. dev.version[o] # "torn"
    <3>1. \E id \in Completed :
              \A other \in Completed : db.jobs[other].asg.seq <= db.jobs[id].asg.seq
      BY <2>1 DEF HasNewest, Newest, Completed, Ended, Hot
    <3>2. Latest \in JobIDs /\ db.jobs[Latest].state # "absent"
      BY <3>1 DEF Latest, Completed, Hot
    <3>. DEFINE k == db.jobs[Latest]
    <3>3. k.oldVersion # "torn" /\ k.asg.version \in Versions
      <4>1. k.asg \in Assignments
        BY <3>2, BootTypes DEF WellFormed
      <4>2. k.asg.version \in Versions
        BY <4>1, AssignmentsAssumption DEF Assignment
      <4>. QED  BY <3>2, <4>2 DEF RInv, Recoverable, Returnable
    <3>4. KnownVersion(o) \in {k.asg.version, k.oldVersion, ""}
      BY DEF KnownVersion
    <3>. HIDE DEF k
    <3>. QED  BY <2>1, <3>3, <3>4, VersionsAssumption DEF Recognized
  <2>4. Bootable(dev, o)
    BY <2>1, <2>3 DEF Bootable, GoodOf
  <2>5. \A c \in {db, disk}, id \in JobIDs : c.jobs[id].state \notin Underway
    BY <2>1, Twins
  <2>6. /\ dev'.booted = dev.booted
        /\ \A t \in Slots \ {dev.booted} : Bootable(dev, t) => Bootable(dev', t)
    BY <2>1, <2>2, <1>MarkBootable
  <2>. HIDE DEF o
  <2>. QED  BY <2>2, <2>4, <2>5, <2>6, BootTypes, <1>StillRecoverable
\* The slot that does not run is written.
<1>WrittenRecoverable.
    ASSUME BInv, RInv, SimulatorInstall \/ InstallBundle \/ FlashDone
    PROVE  (\E t \in Slots : Bootable(dev', t)) /\ Recoverable(db, dev') /\ Recoverable(disk, dev')
  <2>. USE <1>WrittenRecoverable
  \* The installer makes no slot unbootable but the one it writes.
  <2>InstallBootable.
      ASSUME NEW d \in DeviceState, NEW v,
             NEW e \in {Installed(d, v), Flashing(d, v), Flashed(d), FlashFailed(d)}
      PROVE  /\ e.booted = d.booted /\ Other(d) \in Slots /\ Other(d) # d.booted
             /\ \A t \in Slots \ {Other(d)} : Bootable(d, t) => Bootable(e, t)
    <3>. USE <2>InstallBootable
    <3>1. Other(d) \in Slots /\ Other(d) # d.booted /\ e.booted = d.booted
      BY InstalledOther, SMT
    <3>2. d.version \in [Slots -> Versions \cup {"torn"}] /\ d.mark \in [Slots -> Marks]
      BY DEF DeviceState
    <3>3. \A t \in Slots \ {Other(d)} : e.version[t] = d.version[t] /\ e.mark[t] = d.mark[t]
      <4>. DEFINE o == Other(d)
      <4>1. CASE e = Installed(d, v)
        BY <3>1, <3>2, <4>1 DEF Installed, DeviceState
      <4>2. CASE e = Flashing(d, v)
        BY <3>1, <3>2, <4>2 DEF Flashing, DeviceState
      <4>3. CASE e = Flashed(d)
        BY <3>1, <3>2, <4>3 DEF Flashed, Installed, DeviceState
      <4>4. CASE e = FlashFailed(d)
        BY <3>1, <3>2, <4>4 DEF FlashFailed, DeviceState
      <4>. QED  BY <4>1, <4>2, <4>3, <4>4
    <3>. QED  BY <3>1, <3>3 DEF Bootable
  <2>. DEFINE j == Active(db)
  <2>1. PICK v : dev' \in {Installed(dev, v), Flashing(dev, v), Flashed(dev), FlashFailed(dev)}
    BY DEF SimulatorInstall, InstallBundle, FlashDone
  <2>2. HasActive(db) /\ j.state \in Underway /\ j.oldSlot = dev.booted
    <3>1. CASE SimulatorInstall \/ InstallBundle
      <4>1. pc = "install"
        BY <3>1 DEF SimulatorInstall, InstallBundle
      <4>. QED  BY <4>1 DEF BInv, JInv, DInv, Inv, Core, Holding, Guarded, SafePoint, Underway
    <3>2. CASE FlashDone
      <4>1. dev.operation = "installing"
        BY <3>2 DEF FlashDone
      <4>2. HasActive(db) /\ j.state \in Underway
        BY <4>1 DEF BInv, Related, Fit, Running
      <4>. QED  BY <4>1, <4>2, ActiveSafe DEF BInv, Safe
    <3>. QED  BY <3>1, <3>2
  <2>3. /\ dev'.booted = dev.booted /\ Other(dev) \in Slots /\ Other(dev) # dev.booted
        /\ \A t \in Slots \ {Other(dev)} : Bootable(dev, t) => Bootable(dev', t)
    BY <2>1, BootTypes, <2>InstallBootable, SMT
  <2>4. dev.booted \in Slots /\ Bootable(dev, dev.booted)
    <3>1. db.active \in JobIDs /\ j = db.jobs[db.active]
      BY <2>2, ActiveSafe DEF BInv
    <3>2. Returnable(j, dev)
      BY <3>1 DEF RInv, Recoverable
    <3>. QED  BY <2>2, <3>2, BootTypes DEF Returnable, DeviceState
  <2>5. \A c \in {db, disk}, id \in JobIDs :
            c.jobs[id].state \in Underway => c.jobs[id].oldSlot # Other(dev)
    BY <2>2, <2>3, <1>OldSlot
  <2>. HIDE DEF j
  <2>. QED  BY <2>3, <2>4, <2>5, BootTypes, <1>StillRecoverable
\* A boot.
<1>BootRecoverable.
    ASSUME BInv, RInv, NEW s \in BootChoices(dev), dev' = BootedInto(dev, s)
    PROVE  (\E t \in Slots : Bootable(dev', t)) /\ Recoverable(db, dev') /\ Recoverable(disk, dev')
  <2>. USE <1>BootRecoverable
  \* A boot keeps the slot it boots bootable, and the old slot of a job that is done
  \* with its installation.
  <2>BootReturnable.
      ASSUME NEW d \in DeviceState, NEW t \in BootChoices(d), NEW j,
             j.state \in Underway => /\ j.oldSlot \in Slots /\ j.targetSlot \in Slots
                                     /\ j.oldSlot # j.targetSlot,
             Stage(j, d), Returnable(j, d)
      PROVE  Returnable(j, BootedInto(d, t))
    <3>. USE <2>BootReturnable
    <3>. DEFINE e == BootedInto(d, t)
    <3>1. d.booted \in Slots /\ d.primary \in Slots /\ t \in Slots
      BY DEF DeviceState, BootChoices
    <3>2. /\ e.booted = t /\ e.version = d.version
          /\ \A u \in Slots :
                e.mark[u] = IF Backend = "rauc" /\ u = d.primary /\ t # u THEN "bad" ELSE d.mark[u]
      BY <3>1, BootFields, SMT
    <3>. HIDE DEF e
    <3>3. CASE Backend = "simulator"
      <4>1. \A u \in Slots : Bootable(e, u) <=> Bootable(d, u)
        BY <3>2, <3>3 DEF Bootable
      <4>2. Returnable(j, e)
        BY <3>3, <4>1 DEF Returnable, Underway
      <4>. QED  BY <4>2 DEF e
    <3>4. CASE Backend = "rauc"
      <4>1. Bootable(d, t) /\ Bootable(e, t)
        BY <3>1, <3>2, <3>4 DEF BootChoices, Bootable
      <4>2. ASSUME j.state \in Underway \ {"installing", "needs_recovery"}
            PROVE  Bootable(e, j.oldSlot)
        <5>1. Bootable(d, j.oldSlot) /\ j.oldSlot \in Slots /\ j.oldSlot # j.targetSlot
          BY <4>2 DEF Returnable
        <5>2. d.primary # j.oldSlot \/ t = j.oldSlot
          <6>1. SUFFICES ASSUME d.primary = j.oldSlot, t = j.targetSlot
                         PROVE  FALSE
            BY <3>1, <4>2, TwoSlots
          <6>2. Switched(j, d) \/ Tried(j, d)
            BY <4>2 DEF Stage, Underway
          <6>3. d.mark[j.targetSlot] = "bad"
            BY <3>4, <5>1, <6>1, <6>2 DEF Switched, Tried, Lost
          <6>. QED  BY <4>1, <6>1, <6>3 DEF Bootable
        <5>. QED  BY <3>2, <4>1, <5>1, <5>2 DEF Bootable
      <4>3. Returnable(j, e)
        BY <3>2, <3>4, <4>1, <4>2 DEF Returnable
      <4>. QED  BY <4>3 DEF e
    <3>. QED  BY <3>3, <3>4, DeviceAssumption
  <2>1. dev \in DeviceState /\ s \in Slots
    BY BootTypes DEF BootChoices, DeviceState
  <2>2. ASSUME NEW c \in {db, disk}, NEW id \in JobIDs
        PROVE  Returnable(c.jobs[id], dev')
    <3>. DEFINE j == c.jobs[id]
    <3>1. WellFormed(c) /\ Safe(j, dev, proven) /\ Stage(j, dev) /\ Returnable(j, dev)
      BY BootTypes DEF SafeAll, BInv, Related, Fit, RInv, Recoverable
    <3>2. j.state \in Underway => /\ j.oldSlot \in Slots /\ j.targetSlot \in Slots
                                  /\ j.oldSlot # j.targetSlot
      BY <3>1 DEF Safe, WellFormed, Underway
    <3>. HIDE DEF j
    <3>3. Returnable(j, dev')
      BY <2>1, <3>1, <3>2, <2>BootReturnable
    <3>. QED  BY <3>3 DEF j
  <2>3. \E t \in Slots : Bootable(dev', t)
    <3>1. /\ dev'.version = dev.version
          /\ \A t \in Slots : dev'.mark[t] = IF Backend = "rauc" /\ t = dev.primary /\ s # t
                                             THEN "bad" ELSE dev.mark[t]
      BY <2>1, BootFields
    <3>2. CASE Backend = "simulator"
      <4>1. \A t \in Slots : Bootable(dev, t) => Bootable(dev', t)
        BY <3>1, <3>2 DEF Bootable
      <4>. QED  BY <4>1 DEF RInv, SomeSlotBootable
    <3>3. CASE Backend = "rauc"
      <4>1. Bootable(dev, s)
        BY <3>3 DEF BootChoices
      <4>. QED  BY <2>1, <3>1, <4>1 DEF Bootable
    <3>. QED  BY <3>2, <3>3, DeviceAssumption
  <2>. QED  BY <2>2, <2>3 DEF Recoverable
<1>1. CASE dev' = dev
  BY <1>1 DEF RInv, SomeSlotBootable
<1>2. CASE \E s \in Slots, m \in {"good", "active"} : dev' = Mark(dev, m, s)
  BY <1>2, <1>RaisedRecoverable
<1>3. CASE StepMarkBad \/ RecoverAbort
  BY <1>3, <1>TargetGivenUp
<1>4. CASE NormalBootDeadline
  BY <1>4, <1>RunningGivenUp
<1>5. CASE SimulatorInstall \/ InstallBundle \/ FlashDone
  BY <1>5, <1>WrittenRecoverable
<1>6. CASE \E s \in BootChoices(dev) : dev' = BootedInto(dev, s)
  BY <1>6, <1>BootRecoverable
<1>7. CASE dev' = [dev EXCEPT !.rebooting = TRUE]
  <2>1. dev'.booted = dev.booted /\ dev'.mark = dev.mark /\ dev'.version = dev.version
    BY <1>7, BootTypes DEF DeviceState
  <2>2. \A t \in Slots : Bootable(dev, t) => Bootable(dev', t)
    BY <2>1 DEF Bootable
  <2>3. dev.booted \in Slots
    BY BootTypes DEF DeviceState
  <2>. QED  BY <2>1, <2>2, <2>3, BootTypes, <1>StillRecoverable
<1>8. StepMarkGood \/ NormalBootHealthy =>
          dev' = dev \/ \E s \in Slots : dev' = Mark(dev, "good", s)
  <2>1. dev.booted \in Slots
    BY BootTypes DEF DeviceState
  <2>. QED  BY <2>1 DEF StepMarkGood, Checking, RunsTarget, NormalBootHealthy
<1>9. ActivateOldSlot \/ AbortActivate =>
          dev' = dev \/ \E s \in Slots : dev' = Mark(dev, "active", s)
  <2>1. SUFFICES ASSUME pc \in {"rollback", "abort"}
                 PROVE  Active(db).oldSlot \in Slots
    BY DEF ActivateOldSlot, AbortActivate
  <2>2. HasActive(db) /\ Active(db).state \in Underway
    BY <2>1 DEF BInv, JInv, Inv, Core, Holding
  <2>. QED  BY <2>2, ActiveSafe DEF BInv
<1>10. ActivateFallback => dev' = dev \/ \E s \in Slots : dev' = Mark(dev, "active", s)
  <2>1. dev.booted \in Slots
    BY BootTypes DEF DeviceState
  <2>2. Other(dev) \in Slots
    BY <2>1 DEF Other, Opposite, Slots
  <2>. QED  BY <2>2 DEF ActivateFallback
<1>11. Reboot \/ RebootJob \/ Boot =>
           \/ dev' = dev \/ dev' = [dev EXCEPT !.rebooting = TRUE]
           \/ \E s \in BootChoices(dev) : dev' = BootedInto(dev, s)
  BY DEF Reboot, RebootJob, Boot, Rebooted
<1>. QED  BY <1>1, <1>2, <1>3, <1>4, <1>5, <1>6, <1>7, <1>8, <1>9, <1>10, <1>11, <1>MovingSteps

\* Where the records of a step come from.
LEMMA Records ==
    ASSUME BInv, [Next]_vars
    PROVE  /\ \A id \in JobIDs :
                 \/ disk'.jobs[id] = disk.jobs[id] \/ disk'.jobs[id] = NoJob
                 \/ \E a \in Assignments : disk'.jobs[id] = NewJob(a)
                 \/ pc = "write" /\ disk'.jobs[id] = write.job /\ dev' = dev
           /\ db'.jobs = db.jobs \/ db'.jobs = disk'.jobs
<1>1. CASE WriteJournal
  <2>. DEFINE e == Recorded(db, write.id, write.job)
  <2>1. pc = "write" /\ dev' = dev
    BY <1>1 DEF WriteJournal
  <2>2. CASE OutboxFull(db)
    BY <1>1, <2>2 DEF WriteJournal, storeVars
  <2>3. CASE ~OutboxFull(db)
    <3>1. Update(e, archive, write.next)
      BY <1>1, <2>3 DEF WriteJournal
    <3>2. e.jobs = [db.jobs EXCEPT ![db.active] = write.job] /\ db.active \in JobIDs
      BY <2>1, <2>3, RecordedSound DEF BInv
    <3>3. db.jobs \in [JobIDs -> Job] /\ (~poisoned => disk = db)
      BY BootTypes DEF Database
    <3>. HIDE DEF e
    <3>4. \A id \in JobIDs : e.jobs[id] = db.jobs[id] \/ e.jobs[id] = write.job
      BY <3>2, <3>3
    <3>. QED  BY <2>1, <3>1, <3>3, <3>4, UpdateOutcomes
  <2>. QED  BY <2>2, <2>3
<1>2. CASE \E a \in Assignments : Submit(a)
  <2>1. PICK a \in Assignments : Submit(a)
    BY <1>2
  <2>. DEFINE b == Accepted(db, a)
              Made(x) == \A id \in JobIDs :
                            x.jobs[id] = db.jobs[id] \/ x.jobs[id] = NoJob \/ x.jobs[id] = NewJob(a)
  <2>2. /\ b \in Database /\ WellFormed(b)
        /\ b.jobs = [db.jobs EXCEPT ![a.job] = NewJob(a)] /\ a.job \in JobIDs
    BY <2>1, BootTypes, AcceptedOK DEF Submit
  <2>3. db.jobs \in [JobIDs -> Job] /\ (~poisoned => disk = db)
    BY BootTypes DEF Database
  <2>. HIDE DEF b
  <2>4. Made(b)
    BY <2>2, <2>3
  <2>5. ASSUME NEW id \in Oldest(b)
        PROVE  Made(Without(b, id))
    <3>1. Without(b, id).jobs = [b.jobs EXCEPT ![id] = NoJob] /\ id \in JobIDs
      BY <2>2, WithoutOK
    <3>2. b.jobs \in [JobIDs -> Job]
      BY <2>2 DEF Database
    <3>. QED  BY <2>4, <3>1, <3>2
  <2>6. \E x, arc : Made(x) /\ Update(x, arc, "idle")
    BY <2>1, <2>4, <2>5 DEF Submit, b
  <2>. QED  BY <2>3, <2>6, UpdateOutcomes
<1>3. CASE Ack \/ NormalBootSeen \/ ConfirmBoot
  <2>1. /\ \A n : [db EXCEPT !.outbox = n].jobs = db.jobs
        /\ \A c : [db EXCEPT !.bootCheck = c].jobs = db.jobs
        /\ [db EXCEPT !.bootCheck.confirmed = TRUE].jobs = db.jobs
        /\ ~poisoned => disk = db
    BY BootTypes DEF Database
  <2>2. ASSUME NEW x, NEW n, x.jobs = db.jobs, Update(x, archive, n)
        PROVE  db'.jobs = db.jobs /\ disk'.jobs = disk.jobs
    BY <2>1, <2>2, UpdateOutcomes
  <2>3. CASE Ack
    BY <2>1, <2>3 DEF Ack
  <2>4. CASE NormalBootSeen
    BY <2>1, <2>2, <2>4 DEF NormalBootSeen
  <2>5. CASE ConfirmBoot
    BY <2>1, <2>2, <2>5 DEF ConfirmBoot
  <2>. QED  BY <1>3, <2>3, <2>4, <2>5
<1>4. CASE Quiet \/ Restart \/ Boot \/ GC \/ UNCHANGED vars
  BY <1>4 DEF Quiet, Restart, Boot, FreshProcess, GC, vars, storeVars
<1>. QED  BY <1>1, <1>2, <1>3, <1>4, NextQuiet DEF BInv, JInv

\* A record that is new or not there.
LEMMA NewReturnable ==
    ASSUME NEW d
    PROVE  Returnable(NoJob, d) /\ \A a \in Assignments : Returnable(NewJob(a), d)
<1>1. /\ NoJob.state = "absent" /\ NoJob.oldVersion = ""
      /\ \A a \in Assignments : NewJob(a).state = "accepted" /\ NewJob(a).oldVersion = ""
  BY DEF NoJob, NewJob
<1>2. "absent" \notin Underway /\ "accepted" \notin Underway
  BY DEF Underway
<1>. QED  BY <1>1, <1>2 DEF Returnable

\* The record of a save that is about to be written.
LEMMA WriteReturnable ==
    ASSUME NEW w, NEW j, NEW d, NEW p, Due(w, j, d), Safe(w.job, d, p), Returnable(j, d),
           w.next = "install" =>
               w.job.state = "installing" /\ w.job.oldSlot = d.booted /\ Bootable(d, d.booted),
           w.job.state \in Underway /\ w.next # "install" => j.state \in Underway
    PROVE  Returnable(w.job, d)
<1>. DEFINE k == w.job
<1>1. CASE w.next = "install"
  <2>1. k.oldVersion # "torn"
    BY <1>1 DEF Safe, Bootable, Underway
  <2>. QED  BY <1>1, <2>1 DEF Returnable
<1>2. CASE w.next # "install"
  <2>1. /\ k.oldSlot = j.oldSlot /\ k.oldVersion = j.oldVersion
        /\ Follows(j.state, k.state)
        /\ k.state = "awaiting_reboot" => j.state = "awaiting_reboot" \/ d.booted = j.oldSlot
    BY <1>2 DEF Due, Heir
  <2>2. k.state \in {"checking_health", "committing", "rollback_pending"} /\ j.state \in Underway =>
            j.state \notin {"installing", "needs_recovery"}
    BY <2>1, SMT DEF Follows, Lifecycle!Edges, Underway
  <2>3. k.state \in Underway => j.state \in Underway
    BY <1>2
  <2>4. k.state \in Underway /\ (Backend = "simulator" \/ d.booted = j.oldSlot) =>
            Bootable(d, j.oldSlot)
    BY <2>3 DEF Returnable
  <2>5. k.state \in {"checking_health", "committing", "rollback_pending"} =>
            Bootable(d, j.oldSlot)
    BY <2>2, <2>3 DEF Returnable, Underway
  <2>6. k.state = "awaiting_reboot" => Bootable(d, j.oldSlot)
    BY <2>1, <2>3, <2>4 DEF Returnable, Underway
  <2>7. k.state \in Underway \ {"installing", "needs_recovery"} => Bootable(d, j.oldSlot)
    BY <2>5, <2>6 DEF Underway
  <2>. QED  BY <2>1, <2>4, <2>7 DEF Returnable
<1>. QED  BY <1>1, <1>2

\* Only BeginInstall starts a save that goes on to the installation.
LEMMA InstallSave ==
    ASSUME [Next]_vars, pc' = "write", write'.next = "install"
    PROVE  \/ BeginInstall
           \/ pc = "write" /\ write' = write /\ (dev' = dev \/ dev.operation = "installing")
<1>1. NoWrite.next # "install"
  BY DEF NoWrite
<1>2. \A j, state : ~SaveRecord(j, state, "idle") /\ ~SaveRecord(j, state, "rebootJob")
  BY SMT DEF SaveRecord
<1>3. \A j, state : ~BeginSave(j, state, "idle") /\ ~BeginSave(j, state, "rebootJob")
  BY <1>2 DEF BeginSave
<1>4. \A d, arc : ~Update(d, arc, "idle")
  BY DEF Update
<1>5. CASE StepExpired \/ StepRejected \/ StepAccepted \/ StepDeferred \/ StepDownloaded
           \/ StepVerified \/ StepInstalling
  BY <1>3, <1>5 DEF StepExpired, StepRejected, StepAccepted, StepDeferred, StepDownloaded,
                    StepVerified, StepInstalling, Stepping
<1>6. CASE StepAutoReboot \/ StepBooted \/ StepBootedAgain \/ RequestReboot
  BY <1>3, <1>6 DEF StepAutoReboot, StepBooted, StepBootedAgain, RequestReboot, BeginReboot,
                    Stepping
<1>7. CASE StepHealthDeadline \/ StepUnhealthy \/ StepHealthy \/ StepMarkGood
           \/ StepRolledBack \/ StepMarkBad
  BY <1>3, <1>7 DEF StepHealthDeadline, StepUnhealthy, StepHealthy, StepMarkGood,
                    StepRolledBack, StepMarkBad, Checking, Stepping
<1>8. CASE NormalBootSeen \/ NormalBootDeadline \/ NormalBootUnhealthy \/ NormalBootHealthy
  BY <1>4, <1>8 DEF NormalBootSeen, NormalBootDeadline, NormalBootUnhealthy,
                    NormalBootHealthy, Confirming
<1>9. CASE WriteJournal
  BY <1>1, <1>9 DEF WriteJournal
<1>10. CASE AbortActivate \/ AbortSave \/ PayloadCopied \/ PayloadFailed \/ PayloadsInPlace
            \/ PreinstallError \/ PreinstallRejected
  BY <1>2, <1>3, <1>10 DEF AbortActivate, AbortSave, PayloadCopied, PayloadFailed,
                           PayloadsInPlace, PreinstallError, PreinstallRejected
<1>11. CASE \E t \in Targets : ReplacePayload(t)
  <2>1. pc' = "copy"
    BY <1>11 DEF ReplacePayload
  <2>. QED  BY <2>1
<1>12. CASE SimulatorInstall \/ InstallBundle \/ InstallCompleted \/ InstallError \/ Inspect
  BY <1>3, <1>12 DEF SimulatorInstall, InstallBundle, InstallCompleted, InstallError, Inspect
<1>13. CASE SaveCommitted \/ ActivateOldSlot \/ Reboot \/ RebootJob \/ ActivateFallback
            \/ ConfirmBoot
  BY <1>3, <1>4, <1>13 DEF SaveCommitted, ActivateOldSlot, Reboot, RebootJob,
                           ActivateFallback, ConfirmBoot
<1>14. CASE (\E a \in Assignments : Submit(a)) \/ GC \/ RecoverAbort
  BY <1>4, <1>14 DEF Submit, GC, RecoverAbort
<1>15. CASE Ack
  BY <1>15 DEF Ack
<1>16. CASE Environment \/ UNCHANGED vars
  BY <1>16 DEF Environment, FlashDone, Tick, Restart, Boot, FreshProcess, vars
<1>. QED  BY <1>5, <1>6, <1>7, <1>8, <1>9, <1>10, <1>11, <1>12, <1>13, <1>14, <1>15, <1>16
          DEF Next, Step, Continue, Request

\* Every step keeps the invariant.
LEMMA NextRInv ==
    ASSUME BInv, RInv, HasNewest(db), [Next]_vars, BeginInstall => Bootable(dev, dev.booted)
    PROVE  RInv'
<1>1. /\ \E t \in Slots : Bootable(dev', t)
      /\ Recoverable(db, dev') /\ Recoverable(disk, dev')
  BY DeviceRecoverable
<1>2. BInv'
  BY NextBInv
<1>3. \A j : j = NoJob \/ (\E a \in Assignments : j = NewJob(a)) => Returnable(j, dev')
  BY NewReturnable
<1>4. Recoverable(disk', dev')
  <2>1. SUFFICES ASSUME NEW id \in JobIDs
                 PROVE  Returnable(disk'.jobs[id], dev')
    BY DEF Recoverable
  <2>2. CASE disk'.jobs[id] = disk.jobs[id]
    BY <1>1, <2>2 DEF Recoverable
  <2>3. CASE pc = "write" /\ disk'.jobs[id] = write.job /\ dev' = dev
    BY <2>3 DEF RInv
  <2>. QED  BY <1>3, <2>2, <2>3, Records
<1>5. Recoverable(db', dev')
  BY <1>1, <1>4, Records DEF Recoverable
<1>6. ASSUME pc' = "write"
      PROVE  Returnable(write'.job, dev')
  <2>. DEFINE j == db'.jobs[db'.active]
  <2>1. /\ Due(write', j, dev') /\ Safe(write'.job, dev', proven')
        /\ write'.job.state \in Underway /\ write'.next # "install" => j.state \in Underway
    BY <1>2, <1>6 DEF BInv, Pending, DInv, Guarded, SafeWrite, Active
  <2>2. /\ db'.active \in JobIDs
        /\ write'.next = "install" =>
              write'.job.state = "installing" /\ write'.job.oldSlot = dev'.booted
    BY <1>2, <1>6 DEF BInv, DInv, Guarded, SafeWrite, Inv, Core, Writing, HasActive,
                      TypeOK, Database
  <2>3. Returnable(j, dev')
    BY <1>5, <2>2 DEF Recoverable
  <2>4. write'.next = "install" => Bootable(dev', dev'.booted)
    <3>1. SUFFICES ASSUME write'.next = "install"
                   PROVE  Bootable(dev', dev'.booted)
      OBVIOUS
    <3>2. CASE BeginInstall
      <4>1. dev' = dev
        BY <3>2 DEF BeginInstall
      <4>. QED  BY <3>2, <4>1
    <3>3. CASE pc = "write" /\ write' = write /\ (dev' = dev \/ dev.operation = "installing")
      <4>1. /\ dev.operation = "idle" /\ write.job.oldSlot = dev.booted
            /\ write.job.state = "installing"
        BY <3>1, <3>3 DEF BInv, DInv, Guarded, SafeWrite, Inv, Core, Writing
      <4>2. Bootable(dev, dev.booted)
        BY <3>3, <4>1 DEF RInv, Returnable, Underway
      <4>. QED  BY <3>3, <4>1, <4>2
    <3>. QED  BY <1>6, <3>1, <3>2, <3>3, InstallSave
  <2>. HIDE DEF j
  <2>. QED  BY <2>1, <2>2, <2>3, <2>4, WriteReturnable
<1>. QED  BY <1>1, <1>4, <1>5, <1>6 DEF RInv, SomeSlotBootable

\* A new device.
LEMMA InitRInv == Init => RInv
<1>. SUFFICES ASSUME Init
              PROVE  RInv
  OBVIOUS
<1>1. /\ dev.version["rootfs.0"] = Factory /\ dev.mark["rootfs.0"] = "good"
      /\ "rootfs.0" \in Slots
      /\ pc = "idle" /\ \A id \in JobIDs : db.jobs[id] = NoJob /\ disk.jobs[id] = NoJob
  BY DEF Init, FactoryDevice, EmptyDatabase, Slots
<1>2. Factory # "torn"
  BY DeviceAssumption, VersionsAssumption
<1>3. SomeSlotBootable
  BY <1>1, <1>2 DEF SomeSlotBootable, Bootable
<1>4. Recoverable(db, dev) /\ Recoverable(disk, dev)
  BY <1>1, NewReturnable DEF Recoverable
<1>. QED  BY <1>1, <1>3, <1>4 DEF RInv

-----------------------------------------------------------------------------
\* The latest completed job

LOCAL INSTANCE WellFoundedInduction

\* A set of natural numbers has a least element.
LEMMA Least ==
    ASSUME NEW T \in SUBSET Nat, T # {}
    PROVE  \E x \in T : \A y \in T : x <= y
<1>. DEFINE R == {ss \in Nat \X Nat : ss[1] < ss[2]}
<1>1. IsWellFoundedOn(R, Nat)
  BY NatLessThanWellFounded DEF OpToRel
<1>. HIDE DEF R
<1>2. PICK x \in T : \A y \in T : ~(<<y, x>> \in R)
  BY <1>1, WFMin
<1>3. \A y \in T : ~(y < x)
  BY <1>2 DEF R
<1>. QED  BY <1>3, SMT

\* A journal with completed jobs has a latest one.
LEMMA NewestExists ==
    ASSUME NEW b \in Database, WellFormed(b)
    PROVE  HasNewest(b)
<1>. SUFFICES ASSUME Ended(b) # {}
              PROVE  \E id \in JobIDs : Newest(b, id)
  BY DEF HasNewest
<1>. DEFINE q(id) == b.jobs[id].asg.seq
            T == {b.high - q(id) : id \in Ended(b)}
<1>1. b.high \in Nat
  BY DEF Database
<1>2. \A id \in Ended(b) : id \in JobIDs /\ q(id) \in Nat /\ q(id) <= b.high
  BY AssignmentsAssumption DEF Ended, WellFormed, Assignment
<1>3. \A id \in Ended(b) : b.high - q(id) \in Nat
  BY <1>1, <1>2, SMT
<1>4. T \in SUBSET Nat /\ T # {}
  BY <1>3
<1>5. PICK x \in T : \A y \in T : x <= y
  BY <1>4, Least
<1>6. PICK id \in Ended(b) : x = b.high - q(id)
  BY <1>5
<1>7. \A other \in Ended(b) : b.high - q(id) <= b.high - q(other)
  BY <1>5, <1>6
<1>8. \A other \in Ended(b) : q(other) <= q(id)
  BY <1>1, <1>2, <1>7, SMT
<1>. QED  BY <1>2, <1>6, <1>8 DEF Newest

-----------------------------------------------------------------------------
\* The slot that runs is recognized, and some slot stays bootable

\* The journal holds a completed job newer than every job in the archive.
LatestKept ==
    \A id \in JobIDs : archive[id].state # "absent" =>
        \E other \in Completed : archive[id].asg.seq < db.jobs[other].asg.seq

\* The latest completed job replaced an image.
LatestImage == db.jobs[Latest].asg.os

\* What the invariant says once no job is active.
LEMMA Recognition ==
    ASSUME BInv, LatestKept, LatestImage
    PROVE  NormalBootRecognized
<1>1. SUFFICES ASSUME ~HasActive(db), Completed # {}
               PROVE  Recognized(dev.booted)
  BY DEF NormalBootRecognized
<1>2. Completed = Ended(db)
  BY DEF Completed, Ended, Hot
<1>3. Newest(db, Latest)
  <2>1. \E id \in Completed :
            \A other \in Completed : db.jobs[other].asg.seq <= db.jobs[id].asg.seq
    BY <1>1, <1>2, BootTypes, NewestExists DEF HasNewest, Newest
  <2>. QED  BY <1>2, <2>1 DEF Newest, Latest
<1>. DEFINE last == Latest
<1>4. last \in JobIDs /\ db.jobs[last].asg.os
  BY <1>3 DEF Newest, Ended, LatestImage
<1>. HIDE DEF last
<1>5. ~Overtaken(db, archive, last)
  <2>1. SUFFICES ASSUME NEW old \in JobIDs, archive[old].state # "absent",
                        archive[old].asg.seq >= db.jobs[last].asg.seq
                 PROVE  FALSE
    BY DEF Overtaken
  <2>2. PICK other \in Completed : archive[old].asg.seq < db.jobs[other].asg.seq
    BY <2>1 DEF LatestKept
  <2>3. db.jobs[other].asg.seq <= db.jobs[last].asg.seq
    BY <1>2, <1>3, <2>2 DEF Newest, last
  <2>4. /\ archive[old].asg.seq \in Nat /\ db.jobs[other].asg.seq \in Nat
        /\ db.jobs[last].asg.seq \in Nat
    BY <1>2, <1>4, <2>2, BootTypes, JobSeq DEF Database, Ended
  <2>. QED  BY <2>1, <2>2, <2>3, <2>4, SMT
<1>6. Witness(db, archive, last)
  BY <1>3, <1>4, <1>5 DEF Witness, last
<1>7. \A s \in Slots : Vouches(db.jobs[last], s, dev) \/ Lost(s, dev)
  BY <1>1, <1>4, <1>6 DEF BInv, Related, Fit, Trusted, Running
<1>8. dev.booted \in Slots /\ ~Lost(dev.booted, dev)
  BY BootTypes DEF DeviceState, Lost
<1>9. Vouches(db.jobs[last], dev.booted, dev)
  BY <1>7, <1>8
<1>. QED  BY <1>9 DEF Vouches, Known, Recognized, KnownVersion, last

\* NormalBootRecognized, whenever the latest completed job replaced an image and is
\* still in the journal: confirmNormalBoot then knows the image of the slot that
\* runs, whatever boots, rollbacks, recoveries, restarts, failed writes and power
\* losses came before.  Without the two conditions the code does not promise it
\* (CommittedImageRecognized; compactHot archives by time, not by sequence).
THEOREM BootsRecognized == Spec => [](LatestKept /\ LatestImage => NormalBootRecognized)
<1>1. BInv => (LatestKept /\ LatestImage => NormalBootRecognized)
  BY Recognition
<1>. QED  BY <1>1, InitBInv, NextBInv, PTL DEF Spec

\* Nothing is archived while the journal has room for every job.
LEMMA RoomForAll ==
    ASSUME \A d \in Database : ~OverHotLimit(d), BInv, [Next]_vars
    PROVE  archive' = archive
<1>1. CASE \E a \in Assignments : Submit(a)
  <2>1. PICK a \in Assignments : Submit(a)
    BY <1>1
  <2>2. Accepted(db, a) \in Database
    BY <2>1, BootTypes, AcceptedOK DEF Submit
  <2>3. Update(Accepted(db, a), archive, "idle")
    BY <2>1, <2>2 DEF Submit
  <2>. QED  BY <2>3, UpdateOutcomes
<1>2. CASE WriteJournal
  <2>1. \/ archive' = archive
        \/ Update(Recorded(db, write.id, write.job), archive, write.next)
    BY <1>2 DEF WriteJournal, storeVars
  <2>. QED  BY <2>1, UpdateOutcomes
<1>3. CASE NormalBootSeen \/ ConfirmBoot
  BY <1>3, UpdateOutcomes DEF NormalBootSeen, ConfirmBoot
<1>4. CASE Quiet \/ Ack \/ Restart \/ Boot \/ GC \/ UNCHANGED vars
  BY <1>4 DEF Quiet, Ack, Restart, Boot, GC, vars, storeVars
<1>. QED  BY <1>1, <1>2, <1>3, <1>4, NextQuiet DEF BInv, JInv

\* NormalBootRecognized without conditions on the state, for a journal with room for
\* every job and releases that all carry an image.
THEOREM BootsAlwaysRecognized ==
    ASSUME \A d \in Database : ~OverHotLimit(d), \A a \in Assignments : a.os
    PROVE  Spec => []NormalBootRecognized
<1>. DEFINE NoneArchived == \A id \in JobIDs : archive[id].state = "absent"
<1>1. Init => NoneArchived
  <2>1. NoJob.state = "absent"
    BY DEF NoJob
  <2>2. Init => \A id \in JobIDs : archive[id] = NoJob
    BY DEF Init
  <2>. QED  BY <2>1, <2>2
<1>2. BInv /\ NoneArchived /\ [Next]_vars => NoneArchived'
  BY RoomForAll
<1>3. BInv /\ NoneArchived => NormalBootRecognized
  <2>1. SUFFICES ASSUME BInv, NoneArchived
                 PROVE  NormalBootRecognized
    OBVIOUS
  <2>2. CASE Completed = {}
    BY <2>2 DEF NormalBootRecognized
  <2>3. CASE Completed # {}
    <3>1. \E id \in Completed :
              \A other \in Completed : db.jobs[other].asg.seq <= db.jobs[id].asg.seq
      BY <2>1, <2>3, BootTypes, NewestExists DEF HasNewest, Newest, Completed, Ended, Hot
    <3>2. Latest \in Completed
      BY <3>1 DEF Latest
    <3>3. \A id \in Completed : db.jobs[id].asg \in Assignments
      BY <2>1, BootTypes DEF Completed, Hot, WellFormed
    <3>4. LatestImage
      BY <3>2, <3>3 DEF LatestImage
    <3>5. LatestKept
      BY <2>1 DEF LatestKept
    <3>. QED  BY <2>1, <3>4, <3>5, Recognition
  <2>. QED  BY <2>2, <2>3
<1>. QED  BY <1>1, <1>2, <1>3, InitBInv, NextBInv, PTL DEF Spec

\* SomeSlotBootable, as long as no installation starts from a slot that is itself
\* marked bad: between any two changes of the boot selection a complete image
\* remains that the bootloader may start, whatever installations fail, boots fall
\* back and rollbacks or recoveries are cut short.
THEOREM SomeSlotStaysBootable ==
    Spec /\ [][BeginInstall => Bootable(dev, dev.booted)]_vars => []SomeSlotBootable
<1>1. RInv => SomeSlotBootable
  BY DEF RInv
<1>2. BInv /\ RInv /\ [Next]_vars /\ [BeginInstall => Bootable(dev, dev.booted)]_vars => RInv'
  <2>1. SUFFICES ASSUME BInv, RInv, [Next]_vars,
                        [BeginInstall => Bootable(dev, dev.booted)]_vars
                 PROVE  RInv'
    OBVIOUS
  <2>2. CASE BeginInstall => Bootable(dev, dev.booted)
    BY <2>1, <2>2, BootTypes, NewestExists, NextRInv
  <2>3. CASE UNCHANGED vars
    BY <2>1, <2>3 DEF vars, storeVars, RInv, SomeSlotBootable, Recoverable, Returnable
  <2>. QED  BY <2>1, <2>2, <2>3
<1>. QED  BY <1>1, <1>2, InitBInv, InitRInv, NextBInv, PTL DEF Spec
=============================================================================
