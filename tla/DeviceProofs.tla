---------------------------- MODULE DeviceProofs ----------------------------
(***************************************************************************)
(* Proofs about what the engine does to the device, for every set of jobs  *)
(* and releases, every limit and any number of faults: the old slot keeps  *)
(* its image while a job is under way, a job is only recorded as committed *)
(* or rolled back on evidence, and a slot is only marked good after a      *)
(* stable run of health checks in this boot.  If no journal write fails, a *)
(* boot that is confirmed stays good.                                      *)
(*                                                                         *)
(* The journal, the device and the health counters are changed by          *)
(* different steps, so the invariant relates them pairwise: every record,  *)
(* in memory, on disk or on its way there, is true of the device (Safe),   *)
(* and the engine's counter of passing checks never runs ahead of what     *)
(* this process has observed in this boot (Observed).                      *)
(***************************************************************************)
EXTENDS EngineProofs

\* The prover of every leaf that names no other.
USE Zenon

\* What a record says of the device d, where p tells whether health has held
\* through the stable period of this boot.
Safe(j, d, p) ==
    /\ j.bootID <= d.bootID
    /\ j.state \in Underway =>
          /\ j.oldSlot # j.targetSlot
          /\ d.version[j.oldSlot] = j.oldVersion
          /\ d.operation = "installing" =>
                j.state \in {"installing", "needs_recovery"} /\ j.oldSlot = d.booted
    /\ j.state = "committing" /\ j.bootID = d.bootID => p

\* The evidence for a committed image and for a rollback.
Proved(j, d, p) ==
    /\ d.operation = "idle"
    /\ d.booted = j.targetSlot
    /\ d.version[j.targetSlot] = j.asg.version
    /\ GoodOf(d, j.targetSlot)
    /\ p

Returned(j, d) ==
    /\ d.operation = "idle"
    /\ d.booted = j.oldSlot
    /\ d.version[j.oldSlot] = j.oldVersion

Outcome(j, d, p) ==
    /\ j.state = "committed" /\ j.asg.os => Proved(j, d, p)
    /\ j.state = "rolled_back" => Returned(j, d)

SafeAll(b, d, p) ==
    /\ \A id \in JobIDs : Safe(b.jobs[id], d, p)
    /\ b.bootCheck.bootID <= d.bootID

\* The record a save is about to write.
SafeWrite ==
    pc = "write" =>
        /\ Safe(write.job, dev, proven)
        /\ Outcome(write.job, dev, proven)
        /\ write.next = "install" => dev.operation = "idle" /\ write.job.oldSlot = dev.booted
        /\ write.job.state \in Underway /\ write.next # "install" =>
              Active(db).state \in Underway /\ write.job.targetSlot = Active(db).targetSlot

\* What the holder of the mutex knows of the device at each point.
SafePoint ==
    /\ pc = "install" => dev.operation = "idle" /\ Active(db).oldSlot = dev.booted
    /\ pc = "commit" => Proved(Active(db), dev, proven)
    /\ pc = "rebootJob" => Active(db).state = "awaiting_reboot"
    /\ pc = "confirm" => GoodOf(dev, dev.booted) /\ SeenThisBoot

Guarded ==
    /\ SafeAll(db, dev, proven)
    /\ SafeAll(disk, dev, proven)
    /\ SafeWrite
    /\ SafePoint

\* A health window of this boot is open: for a job, for a job whose save is under
\* way, or for a normal boot.
Judged(j, d) == j.state = "checking_health" /\ j.bootID = d.bootID

Judging ==
    \/ SeenThisBoot
    \/ \E id \in JobIDs : Judged(db.jobs[id], dev)
    \/ pc = "write" /\ Judged(write.job, dev)

\* Within such a window the engine counts no check that this process has not seen.
Observed ==
    /\ okSince <= now
    /\ Judging /\ healthySince # 0 => okSince # 0 /\ okSince <= healthySince

DInv == Inv /\ Guarded /\ Observed

-----------------------------------------------------------------------------
\* Records and devices

\* Two devices that differ at most in marks, primary slot and requested reboot.
Same(d, e) ==
    /\ e.bootID = d.bootID /\ e.booted = d.booted
    /\ e.version = d.version /\ e.operation = d.operation

\* Mark changes neither what runs nor what is installed, and it makes no slot good
\* but the one it is asked to.
LEMMA MarkSame ==
    ASSUME NEW d \in DeviceState, NEW m \in {"good", "bad", "active"}, NEW s \in Slots
    PROVE  /\ Same(d, Mark(d, m, s))
           /\ \A t \in Slots : GoodOf(Mark(d, m, s), t) => GoodOf(d, t) \/ (m = "good" /\ t = s)
           /\ \A t \in Slots : GoodOf(d, t) => GoodOf(Mark(d, m, s), t) \/ (m = "bad" /\ t = s)
           /\ m = "good" => GoodOf(Mark(d, m, s), s)
BY DEF Mark, DeviceState, Same, GoodOf, Marks

\* An installation writes the slot that does not run.
LEMMA InstalledOther ==
    ASSUME NEW d \in DeviceState, NEW v,
           NEW e \in {Installed(d, v), Flashing(d, v), Flashed(d), FlashFailed(d)}
    PROVE  /\ Other(d) # d.booted /\ Other(d) \in Slots
           /\ e.bootID = d.bootID /\ e.booted = d.booted
           /\ e.version[d.booted] = d.version[d.booted]
           /\ \A t \in Slots : GoodOf(e, t) => GoodOf(d, t)
           /\ GoodOf(d, d.booted) => GoodOf(e, d.booted)
<1>1. Other(d) # d.booted /\ Other(d) \in Slots /\ d.booted \in Slots
  BY DEF Other, Opposite, Slots, DeviceState
<1>2. ASSUME NEW w
      PROVE  LET f == Installed(d, w) IN
             /\ f.bootID = d.bootID /\ f.booted = d.booted
             /\ f.version[d.booted] = d.version[d.booted]
             /\ \A t \in Slots : f.mark[t] = "good" => d.mark[t] = "good"
             /\ f.mark[d.booted] = d.mark[d.booted]
  BY <1>1 DEF Installed, DeviceState
<1>3. LET f == Flashing(d, v) IN
      /\ f.bootID = d.bootID /\ f.booted = d.booted
      /\ f.version[d.booted] = d.version[d.booted]
      /\ \A t \in Slots : f.mark[t] = "good" => d.mark[t] = "good"
      /\ f.mark[d.booted] = d.mark[d.booted]
  BY <1>1 DEF Flashing, DeviceState
<1>4. \A f \in DeviceState : 
          LET g == [f EXCEPT !.operation = "idle"] IN
          g.bootID = f.bootID /\ g.booted = f.booted /\ g.version = f.version /\ g.mark = f.mark
  BY DEF DeviceState
<1>5. d.bundle \in Versions /\ Installed(d, d.bundle) \in DeviceState
  BY DeviceTypes DEF DeviceState
<1>6. CASE e \in {Installed(d, v), Flashing(d, v)}
  BY <1>1, <1>2, <1>3, <1>6 DEF GoodOf
<1>7. CASE e = FlashFailed(d)
  BY <1>1, <1>4, <1>7 DEF FlashFailed, GoodOf
<1>8. CASE e = Flashed(d)
  <2>. DEFINE f == Installed(d, d.bundle)
  <2>1. e.bootID = f.bootID /\ e.booted = f.booted /\ e.version = f.version /\ e.mark = f.mark
    BY <1>4, <1>5, <1>8 DEF Flashed
  <2>2. /\ f.bootID = d.bootID /\ f.booted = d.booted
        /\ f.version[d.booted] = d.version[d.booted]
        /\ \A t \in Slots : f.mark[t] = "good" => d.mark[t] = "good"
        /\ f.mark[d.booted] = d.mark[d.booted]
    BY <1>2
  <2>. HIDE DEF f
  <2>. QED  BY <1>1, <2>1, <2>2 DEF GoodOf
<1>. QED  BY <1>6, <1>7, <1>8

\* A boot changes no image, ends an installation and begins a new boot.
LEMMA BootedOther ==
    ASSUME NEW d \in DeviceState, NEW s \in Slots
    PROVE  LET e == BootedInto(d, s) IN
           /\ e.bootID = d.bootID + 1 /\ e.bootID > d.bootID
           /\ e.version = d.version /\ e.operation = "idle"
           /\ \A t \in Slots : GoodOf(e, t) => GoodOf(d, t)
<1>1. d.bootID \in Nat
  BY DEF DeviceState
<1>2. LET e == BootedInto(d, s) IN
      /\ e.bootID = d.bootID + 1
      /\ e.version = d.version /\ e.operation = "idle"
      /\ \A t \in Slots : e.mark[t] \in {d.mark[t], "bad"}
  BY DEF BootedInto, DeviceState
<1>. QED  BY <1>1, <1>2, SMT DEF GoodOf

-----------------------------------------------------------------------------
\* Steps of the holder of the mutex that leave journal and device alone

\* Everything the proofs need of the types.
LEMMA DeviceFacts ==
    ASSUME Inv
    PROVE  /\ dev.bootID \in Nat /\ dev.booted \in Slots /\ dev.primary \in Slots
           /\ dev.operation \in {"idle", "installing"}
           /\ now \in Nat /\ okSince \in Nat /\ healthySince \in Nat
           /\ HealthStable \in Nat
           /\ db.jobs \in [JobIDs -> Job] /\ disk.jobs \in [JobIDs -> Job]
           /\ db.bootCheck.bootID \in Nat /\ disk.bootCheck.bootID \in Nat
<1>1. HealthStable \in Nat
  BY EngineAssumption, SMT
<1>2. dev.bootID \in Nat /\ dev.booted \in Slots /\ dev.primary \in Slots
      /\ dev.operation \in {"idle", "installing"}
  BY DEF Inv, TypeOK, DeviceState
<1>3. \A d \in Database : d.jobs \in [JobIDs -> Job] /\ d.bootCheck.bootID \in Nat
  BY DEF Database, BootCheck
<1>. QED  BY <1>1, <1>2, <1>3 DEF Inv, TypeOK

\* The active job is one of the records.
LEMMA ActiveSafe ==
    ASSUME DInv, HasActive(db)
    PROVE  /\ db.active \in JobIDs /\ Active(db) = db.jobs[db.active]
           /\ Active(db) \in Job /\ Active(db).bootID \in Nat
           /\ Safe(Active(db), dev, proven)
           /\ Active(db).state \in Underway =>
                 Active(db).oldSlot \in Slots /\ Active(db).targetSlot \in Slots
           /\ Active(db).state \in Underway \ {"installing", "needs_recovery"} =>
                 dev.operation = "idle"
<1>1. /\ db.active \in JobIDs /\ Active(db) \in Job
      /\ Active(db).state \in Underway =>
            Active(db).oldSlot \in Slots /\ Active(db).targetSlot \in Slots
  BY ActiveJob, Types DEF DInv
<1>2. Active(db) = db.jobs[db.active] /\ Safe(Active(db), dev, proven)
  BY <1>1 DEF Active, DInv, Guarded, SafeAll
<1>3. dev.operation \in {"idle", "installing"}
  BY DeviceFacts DEF DInv
<1>. QED  BY <1>1, <1>2, <1>3 DEF Safe, Job

\* The record that a save writes.
LEMMA SavedRecord ==
    ASSUME NEW j \in Job, NEW state, NEW next, SaveRecord(j, state, next)
    PROVE  /\ pc' = "write" /\ write'.next = next
           /\ write'.job.state = state /\ write'.job.asg = j.asg
           /\ write'.job.oldSlot = j.oldSlot /\ write'.job.oldVersion = j.oldVersion
           /\ write'.job.targetSlot = j.targetSlot /\ write'.job.bootID = j.bootID
BY DEF SaveRecord, Job

\* A step of the installer changes neither what runs nor its mark.
LEMMA InstallMarks ==
    ASSUME DInv,
           \E v : dev' \in {Installed(dev, v), Flashing(dev, v), Flashed(dev), FlashFailed(dev)}
    PROVE  /\ dev'.bootID = dev.bootID /\ dev'.booted = dev.booted
           /\ \A t \in Slots : GoodOf(dev', t) => GoodOf(dev, t)
           /\ GoodOf(dev, dev.booted) => GoodOf(dev', dev.booted)
<1>1. dev \in DeviceState
  BY Types DEF DInv
<1>2. PICK v : dev' \in {Installed(dev, v), Flashing(dev, v), Flashed(dev), FlashFailed(dev)}
  OBVIOUS
<1>3. ASSUME NEW e \in {Installed(dev, v), Flashing(dev, v), Flashed(dev), FlashFailed(dev)}
      PROVE  /\ e.bootID = dev.bootID /\ e.booted = dev.booted
             /\ \A t \in Slots : GoodOf(e, t) => GoodOf(dev, t)
             /\ GoodOf(dev, dev.booted) => GoodOf(e, dev.booted)
  BY <1>1, InstalledOther, SMT
<1>. QED  BY <1>2, <1>3, Zenon

\* Only the active job is under way.
LEMMA UnderwayActive ==
    ASSUME NEW d \in Database, WellFormed(d), NEW id \in JobIDs, d.jobs[id].state \in Underway
    PROVE  d.active = id
<1>1. d.jobs[id].state # "absent" /\ ~Terminal(d.jobs[id].state)
  BY DEF Underway, Terminal, Finished
<1>. QED  BY <1>1 DEF WellFormed

\* A slot the agent may mark bad: one that does not run, one whose boot it has not
\* confirmed, or the target of a job under way.
Doubted(s) ==
    \/ s # dev.booted
    \/ ~(SeenThisBoot /\ db.bootCheck.confirmed)
    \/ \E id \in JobIDs : db.jobs[id].state \in Underway /\ db.jobs[id].targetSlot = s

Unmarked ==
    \/ dev' = dev
    \/ \E s \in Slots : dev' = Mark(dev, "active", s)
    \/ \E s \in Slots : dev' = Mark(dev, "bad", s) /\ Doubted(s)

\* What a step may do to the device: a mark other than good, a request to reboot, the
\* mark good after a proof of health, a step of the installer, or a boot.
Touched ==
    \/ Unmarked
    \/ dev' = [dev EXCEPT !.rebooting = TRUE]
    \/ dev' = Mark(dev, "good", dev.booted) /\ proven'
    \/ \E v : dev' \in {Installed(dev, v), Flashing(dev, v), Flashed(dev), FlashFailed(dev)}
    \/ \E s \in Slots : dev' = BootedInto(dev, s)

-----------------------------------------------------------------------------
\* Transactions of the journal

\* A transaction that succeeds, that fails after or before the commit, or that is
\* refused.
LEMMA Transaction ==
    ASSUME NEW d, NEW arc, NEW next, Update(d, arc, next)
    PROVE  \/ db' = d /\ disk' = d /\ pc' = next /\ ~poisoned
           \/ db' = db /\ disk' = d /\ pc' = "idle" /\ ~poisoned
           \/ db' = db /\ disk' = disk /\ pc' = "idle"
BY DEF Update, storeVars

\* What a step does to the journal on disk: nothing, it writes the record of a save or
\* of a normal boot, or it accepts a job and may take an archived one away.  Only a
\* storage fault poisons the process.
Entered ==
    /\ \A id \in JobIDs :
          \/ disk'.jobs[id] = disk.jobs[id]
          \/ pc = "write" /\ disk'.jobs[id] = write.job
          \/ disk'.jobs[id].state \in {"accepted", "absent"}
    /\ disk'.bootCheck = disk.bootCheck \/ NormalBootSeen \/ ConfirmBoot
    /\ poisoned' => poisoned \/ "storage" \in Faults

-----------------------------------------------------------------------------
\* The invariant and the theorems

\* The factory state.
LEMMA InitDInv == Init => DInv
<1>. SUFFICES ASSUME Init PROVE DInv
  OBVIOUS
<1>1. Inv
  BY InitInv
<1>2. /\ db = EmptyDatabase /\ disk = EmptyDatabase /\ dev = FactoryDevice
      /\ pc = "idle" /\ healthySince = 0 /\ okSince = 0 /\ now = 1
  BY DEF Init
<1>3. NoJob.state = "absent" /\ NoJob.bootID = 0 /\ dev.bootID = 1
  BY <1>2 DEF NoJob, FactoryDevice
<1>4. Safe(NoJob, dev, proven)
  <2>1. 0 <= dev.bootID
    BY <1>3, SMT
  <2>. QED  BY <1>3, <2>1 DEF Safe, Underway
<1>5. SafeAll(EmptyDatabase, dev, proven)
  <2>1. EmptyDatabase.bootCheck.bootID <= dev.bootID
    <3>1. EmptyDatabase.bootCheck.bootID = 0
      BY DEF EmptyDatabase
    <3>. QED  BY <1>3, <3>1, SMT
  <2>2. \A id \in JobIDs : EmptyDatabase.jobs[id] = NoJob
    BY DEF EmptyDatabase
  <2>. QED  BY <1>4, <2>1, <2>2 DEF SafeAll
<1>6. Guarded
  BY <1>2, <1>5 DEF Guarded, SafeWrite, SafePoint
<1>7. okSince <= now
  BY <1>2, SMT
<1>. QED  BY <1>1, <1>2, <1>6, <1>7 DEF DInv, Observed

\* Every step keeps the invariant; and what it does to the disk and to the device.
LEMMA NextDInv == DInv /\ [Next]_vars => DInv' /\ Entered /\ Touched
\* A record that is true of a device stays true while only marks change.
<1>SameSafe.
    ASSUME NEW d, NEW e, Same(d, e), NEW p, NEW q, p => q, NEW b, SafeAll(b, d, p)
    PROVE  SafeAll(b, e, q)
  BY <1>SameSafe DEF Same, SafeAll, Safe
\* The start of a save of the active job, except for the start of an installation
\* and of a health window.
<1>SaveGuarded.
    ASSUME DInv, HasActive(db), NEW j \in Job, NEW state, NEW next,
           SaveRecord(j, state, next), next # "install",
           j.asg = Active(db).asg, j.oldSlot = Active(db).oldSlot,
           j.oldVersion = Active(db).oldVersion, j.targetSlot = Active(db).targetSlot,
           j.bootID = Active(db).bootID \/ (j.bootID = dev.bootID /\ state # "committing"),
           UNCHANGED <<dev, db, disk>>, proven => proven',
           state \in Underway =>
               /\ Active(db).state \in Underway
               /\ state \in {"installing", "needs_recovery"} \/ dev.operation = "idle",
           state = "committing" => proven',
           state = "committed" /\ j.asg.os => Proved(Active(db), dev, proven'),
           state = "rolled_back" => Returned(Active(db), dev)
    PROVE  Guarded'
  <2>. USE <1>SaveGuarded
  <2>1. Same(dev, dev') /\ (proven => proven')
    BY DEF Same
  <2>2. SafeAll(db, dev', proven') /\ SafeAll(disk, dev', proven')
    BY <2>1, <1>SameSafe DEF DInv, Guarded
  <2>3. /\ pc' = "write" /\ write'.next = next
        /\ write'.job.state = state /\ write'.job.asg = j.asg
        /\ write'.job.oldSlot = j.oldSlot /\ write'.job.oldVersion = j.oldVersion
        /\ write'.job.targetSlot = j.targetSlot /\ write'.job.bootID = j.bootID
    BY SavedRecord
  <2>4. Safe(Active(db), dev, proven) /\ dev.bootID \in Nat /\ dev.bootID <= dev.bootID
    BY ActiveSafe, DeviceFacts, SMT DEF DInv
  <2>5. dev.operation = "installing" /\ state \in Underway =>
            state \in {"installing", "needs_recovery"} /\ j.oldSlot = dev.booted
    BY <2>4 DEF Safe
  <2>6. Safe(write'.job, dev, proven')
    BY <2>3, <2>4, <2>5 DEF Safe
  <2>7. Outcome(write'.job, dev, proven')
    BY <2>3 DEF Outcome, Proved, Returned
  <2>8. SafeWrite'
    BY <2>3, <2>6, <2>7 DEF SafeWrite, Active
  <2>9. SafePoint'
    BY <2>3 DEF SafePoint
  <2>. QED  BY <2>2, <2>8, <2>9 DEF Guarded
\* A step to a point where nothing more is known of the device.
<1>MoveGuarded.
    ASSUME DInv, UNCHANGED <<db, disk>>, Same(dev, dev'), proven => proven',
           pc' \notin {"write", "install", "commit", "rebootJob", "confirm"}
    PROVE  Guarded'
  <2>. USE <1>MoveGuarded
  <2>1. SafeAll(db, dev', proven') /\ SafeAll(disk, dev', proven')
    BY <1>SameSafe DEF DInv, Guarded
  <2>. QED  BY <2>1 DEF Guarded, SafeWrite, SafePoint
\* While no time passes the clock stays a natural number.
<1>ClockStands.
    ASSUME DInv, now' = now
    PROVE  now' \in Nat /\ now' >= now
  <2>. USE <1>ClockStands
  <2>1. now \in Nat
    BY DeviceFacts DEF DInv
  <2>. QED  BY <2>1, SMT
\* A step that leaves the device alone.
<1>DeviceStands.
    ASSUME DInv, dev' = dev
    PROVE  Same(dev, dev') /\ dev'.bootID = dev.bootID /\ dev.bootID \in Nat
  <2>. USE <1>DeviceStands
  <2>1. dev.bootID \in Nat
    BY DeviceFacts DEF DInv
  <2>. QED  BY <2>1 DEF Same
\* A step that opens no health window and observes no check.
<1>SameObserved.
    ASSUME DInv, UNCHANGED <<okSince, healthySince>>, now' \in Nat, now' >= now,
           db' = db, dev'.bootID = dev.bootID,
           \/ pc' # "write"
           \/ pc' = pc /\ write' = write
           \/ write'.job.state # "checking_health"
    PROVE  Observed'
  <2>. USE <1>SameObserved
  <2>1. Judging' => Judging
    BY DEF Judging, Judged, SeenThisBoot
  <2>2. okSince <= now'
    BY DeviceFacts, SMT DEF DInv, Observed
  <2>. QED  BY <2>1, <2>2 DEF DInv, Observed
\* Step while the job waits.
<1>WaitingGuarded.
    ASSUME DInv,
           \/ StepExpired \/ StepRejected \/ StepAccepted \/ StepDeferred
           \/ StepDownloaded \/ StepVerified
    PROVE  Guarded' /\ Observed'
  <2>. USE <1>WaitingGuarded
  <2>. DEFINE j == Active(db)
  <2>1. /\ HasActive(db) /\ pc = "idle"
        /\ UNCHANGED <<now, dev, db, disk, okSince, healthySince, proven>>
    BY DEF StepExpired, StepRejected, StepAccepted, StepDeferred, StepDownloaded,
           StepVerified, Stepping, storeVars, history
  <2>2. j \in Job
    BY <2>1, ActiveSafe
  <2>3. now' \in Nat /\ now' >= now /\ dev'.bootID = dev.bootID /\ Same(dev, dev')
    <3>1. now' = now /\ dev' = dev
      BY <2>1, Zenon
    <3>. QED  BY <3>1, <1>ClockStands, <1>DeviceStands
  <2>4. ASSUME NEW k \in Job, k.asg = j.asg, k.oldSlot = j.oldSlot,
               k.oldVersion = j.oldVersion, k.targetSlot = j.targetSlot,
               k.bootID = j.bootID, NEW state \in {"downloading", "verified", "failed"},
               SaveRecord(k, state, "idle")
        PROVE  Guarded' /\ Observed'
    <3>1. Guarded'
      <4>1. state \notin Underway \cup {"committing", "committed", "rolled_back"}
        BY DEF Underway
      <4>. QED  BY <2>1, <2>4, <4>1, <1>SaveGuarded
    <3>2. write'.job.state # "checking_health"
      BY <2>4, SavedRecord
    <3>. QED  BY <2>1, <2>3, <3>1, <3>2, <1>SameObserved
  <2>5. CASE StepExpired \/ StepRejected
    <3>1. SaveRecord(j, "failed", "idle")
      BY <2>5 DEF StepExpired, StepRejected, BeginSave
    <3>. QED  BY <2>2, <2>4, <3>1
  <2>6. CASE StepAccepted
    <3>1. SaveRecord(Armed(j), "downloading", "idle")
      BY <2>6 DEF StepAccepted, BeginSave
    <3>2. now + Jitter \in Nat
      <4>1. now \in Nat
        BY Types DEF DInv
      <4>. QED  BY <4>1, EngineAssumption, SMT
    <3>3. ASSUME NEW n \in Nat
          PROVE  LET k == [j EXCEPT !.downloadAfter = n] IN
                 /\ k \in Job /\ k.asg = j.asg /\ k.oldSlot = j.oldSlot
                 /\ k.oldVersion = j.oldVersion /\ k.targetSlot = j.targetSlot
                 /\ k.bootID = j.bootID
      BY <2>2 DEF Job
    <3>4. LET k == Armed(j) IN
          /\ k \in Job /\ k.asg = j.asg /\ k.oldSlot = j.oldSlot
          /\ k.oldVersion = j.oldVersion /\ k.targetSlot = j.targetSlot
          /\ k.bootID = j.bootID
      <4>. HIDE DEF j
      <4>. QED  BY <2>2, <3>2, <3>3 DEF Armed
    <3>. HIDE DEF j
    <3>. QED  BY <2>4, <3>1, <3>4
  <2>7. CASE StepDeferred \/ StepDownloaded
    <3>1. PICK f \in BOOLEAN, state \in {"downloading", "verified"} :
              SaveRecord([j EXCEPT !.deferred = f], state, "idle")
      BY <2>7 DEF StepDeferred, StepDownloaded, BeginSave
    <3>2. LET k == [j EXCEPT !.deferred = f] IN
          /\ k \in Job /\ k.asg = j.asg /\ k.oldSlot = j.oldSlot
          /\ k.oldVersion = j.oldVersion /\ k.targetSlot = j.targetSlot
          /\ k.bootID = j.bootID
      BY <2>2 DEF Job
    <3>. HIDE DEF j
    <3>. QED  BY <2>4, <3>1, <3>2
  <2>8. CASE StepVerified
    <3>1. pc' = "apply"
      BY <2>8 DEF StepVerified
    <3>. QED  BY <2>1, <2>3, <3>1, <1>MoveGuarded, <1>SameObserved
  <2>. QED  BY <2>5, <2>6, <2>7, <2>8
\* applySidePayloads and the checks before an installation.
<1>PayloadGuarded.
    ASSUME DInv,
           \/ \E t \in Targets : ReplacePayload(t)
           \/ PayloadCopied \/ PayloadFailed \/ PayloadsInPlace \/ PreinstallError
           \/ PreinstallRejected \/ BeginInstall
    PROVE  Guarded' /\ Observed'
  <2>. USE <1>PayloadGuarded
  <2>. DEFINE j == Active(db)
  <2>1. /\ HasActive(db) /\ j.state = "verified"
        /\ UNCHANGED <<now, dev, db, disk, okSince, healthySince, proven>>
    BY DEF DInv, Inv, Core, Holding, ReplacePayload, PayloadCopied, PayloadFailed,
           PayloadsInPlace, PreinstallError, PreinstallRejected, BeginInstall,
           storeVars, history
  <2>2. j \in Job
    BY <2>1, ActiveSafe
  <2>3. now' \in Nat /\ now' >= now /\ dev'.bootID = dev.bootID /\ Same(dev, dev')
    <3>1. now' = now /\ dev' = dev
      BY <2>1, Zenon
    <3>. QED  BY <3>1, <1>ClockStands, <1>DeviceStands
  <2>4. /\ WithPayloads \in Job /\ WithPayloads.asg = j.asg
        /\ WithPayloads.oldSlot = j.oldSlot /\ WithPayloads.oldVersion = j.oldVersion
        /\ WithPayloads.targetSlot = j.targetSlot /\ WithPayloads.bootID = j.bootID
    BY <2>2 DEF WithPayloads, Job
  <2>5. ASSUME NEW k \in {j, WithPayloads}, NEW state \in {"failed", "committed"},
               state = "committed" => ~j.asg.os, SaveRecord(k, state, "idle")
        PROVE  Guarded' /\ Observed'
    <3>1. /\ k \in Job /\ k.asg = j.asg /\ k.oldSlot = j.oldSlot
          /\ k.oldVersion = j.oldVersion /\ k.targetSlot = j.targetSlot
          /\ k.bootID = j.bootID
      BY <2>2, <2>4
    <3>2. Guarded'
      <4>1. state \notin Underway \cup {"committing", "rolled_back"}
        BY DEF Underway
      <4>. QED  BY <2>1, <2>5, <3>1, <4>1, <1>SaveGuarded
    <3>3. write'.job.state # "checking_health"
      BY <2>5, <3>1, SavedRecord
    <3>. QED  BY <2>1, <2>3, <3>2, <3>3, <1>SameObserved
  <2>6. CASE \/ \E t \in Targets : ReplacePayload(t)
             \/ PayloadCopied \/ PreinstallError
             \/ PayloadsInPlace /\ Release.os
    <3>1. pc' \in {"copy", "apply", "idle", "preinstall"}
      BY <2>6 DEF ReplacePayload, PayloadCopied, PreinstallError, PayloadsInPlace
    <3>. QED  BY <2>1, <2>3, <3>1, <1>MoveGuarded, <1>SameObserved
  <2>7. CASE \/ PayloadFailed \/ PreinstallRejected
             \/ PayloadsInPlace /\ ~Release.os
    BY <2>5, <2>7 DEF PayloadFailed, PreinstallRejected, PayloadsInPlace, BeginSave, Release
  <2>8. CASE BeginInstall
    <3>. DEFINE k == [WithPayloads EXCEPT !.oldSlot = dev.booted,
                                          !.oldVersion = dev.version[dev.booted],
                                          !.targetSlot = Other(dev),
                                          !.bootID = dev.bootID]
    <3>1. dev.operation = "idle" /\ SaveRecord(k, "installing", "install")
      BY <2>8 DEF BeginInstall, BeginSave
    <3>2. /\ dev \in DeviceState /\ dev.booted \in Slots /\ Other(dev) \in Slots
          /\ dev.bootID \in Nat /\ Other(dev) # dev.booted
      <4>1. dev \in DeviceState
        BY Types DEF DInv
      <4>. QED  BY <4>1, InstalledOther DEF DeviceState
    <3>3. dev.version[dev.booted] \in Versions \cup {"", "torn"}
      BY <3>2 DEF DeviceState
    <3>4. /\ k \in Job /\ k.oldSlot = dev.booted /\ k.targetSlot = Other(dev)
          /\ k.oldVersion = dev.version[dev.booted] /\ k.bootID = dev.bootID
      <4>. HIDE DEF j
      <4>. QED  BY <2>4, <3>2, <3>3 DEF Job
    <3>. HIDE DEF k
    <3>5. /\ pc' = "write" /\ write'.next = "install" /\ write'.job.state = "installing"
          /\ write'.job.oldSlot = dev.booted /\ write'.job.targetSlot = Other(dev)
          /\ write'.job.oldVersion = dev.version[dev.booted]
          /\ write'.job.bootID = dev.bootID
      BY <3>1, <3>4, SavedRecord
    <3>6. dev.bootID <= dev.bootID
      BY <3>2, SMT
    <3>7. Safe(write'.job, dev, proven) /\ Outcome(write'.job, dev, proven)
      BY <3>1, <3>2, <3>5, <3>6 DEF Safe, Outcome
    <3>8. SafeAll(db, dev', proven') /\ SafeAll(disk, dev', proven')
      BY <2>1 DEF DInv, Guarded
    <3>9. Guarded'
      BY <2>1, <3>1, <3>5, <3>7, <3>8 DEF Guarded, SafeWrite, SafePoint
    <3>. QED  BY <2>1, <2>3, <3>5, <3>9, <1>SameObserved
  <2>. QED  BY <2>6, <2>7, <2>8
\* Writing the slot that does not run keeps every record true, because the only
\* record under way names the running slot as the old one.
<1>OtherSafe.
    ASSUME NEW d \in DeviceState, NEW e, e.bootID = d.bootID, e.booted = d.booted,
           e.version[d.booted] = d.version[d.booted], NEW p, NEW b, SafeAll(b, d, p),
           \A id \in JobIDs : b.jobs[id].state \in Underway =>
               /\ b.jobs[id].oldSlot = d.booted
               /\ e.operation = "installing" =>
                     b.jobs[id].state \in {"installing", "needs_recovery"}
    PROVE  SafeAll(b, e, p)
  BY <1>OtherSafe DEF SafeAll, Safe
\* The backend is called on the slot that does not run.
<1>BackendGuarded.
    ASSUME DInv, SimulatorInstall \/ InstallBundle
    PROVE  Guarded' /\ Observed'
  <2>. USE <1>BackendGuarded
  <2>1. /\ pc = "install" /\ pc' \in {"inspect", "flashing"}
        /\ UNCHANGED <<now, db, disk, okSince, healthySince, proven>>
        /\ \E v : dev' \in {Installed(dev, v), Flashing(dev, v)}
    BY DEF SimulatorInstall, InstallBundle, storeVars
  <2>2. /\ HasActive(db) /\ Active(db).state = "installing"
        /\ disk.jobs = db.jobs
        /\ db \in Database /\ WellFormed(db) /\ dev \in DeviceState
    BY <2>1, Types DEF DInv, Inv, Core, Holding
  <2>3. Active(db).oldSlot = dev.booted
    BY <2>1 DEF DInv, Guarded, SafePoint
  <2>4. /\ dev'.bootID = dev.bootID /\ dev'.booted = dev.booted
        /\ dev'.version[dev.booted] = dev.version[dev.booted]
    BY <2>1, <2>2, InstalledOther, SMT
  <2>5. \A id \in JobIDs : db.jobs[id].state \in Underway =>
            db.jobs[id].oldSlot = dev.booted /\ db.jobs[id].state = "installing"
    BY <2>2, <2>3, UnderwayActive DEF Active
  <2>6. SafeAll(db, dev', proven) /\ SafeAll(disk, dev', proven)
    <3>1. SafeAll(db, dev, proven) /\ SafeAll(disk, dev, proven)
      BY DEF DInv, Guarded
    <3>2. SafeAll(db, dev', proven)
      BY <2>2, <2>4, <2>5, <3>1, <1>OtherSafe
    <3>3. SafeAll(disk, dev', proven)
      BY <2>2, <2>4, <2>5, <3>1, <1>OtherSafe
    <3>. QED  BY <3>2, <3>3
  <2>7. Guarded'
    BY <2>1, <2>6 DEF Guarded, SafeWrite, SafePoint
  <2>8. now' \in Nat /\ now' >= now
    <3>1. now' = now
      BY <2>1, Zenon
    <3>. QED  BY <3>1, <1>ClockStands
  <2>. QED  BY <2>1, <2>4, <2>7, <2>8, <1>SameObserved
\* The installation ends, or its installer is lost.
<1>InstalledGuarded.
    ASSUME DInv, InstallCompleted \/ InstallError \/ Inspect \/ StepInstalling
    PROVE  Guarded' /\ Observed'
  <2>. USE <1>InstalledGuarded
  <2>1. /\ HasActive(db) /\ Active(db).state \in Underway
        /\ UNCHANGED <<now, dev, db, disk, okSince, healthySince, proven>>
    <3>1. "installing" \in Underway
      BY DEF Underway
    <3>. QED  BY <3>1 DEF DInv, Inv, Core, Holding, InstallCompleted, InstallError, Inspect,
                 StepInstalling, Stepping, storeVars, history
  <2>2. Active(db) \in Job
    BY <2>1, ActiveSafe
  <2>3. now' \in Nat /\ now' >= now /\ dev'.bootID = dev.bootID /\ Same(dev, dev')
    <3>1. now' = now /\ dev' = dev
      BY <2>1, Zenon
    <3>. QED  BY <3>1, <1>ClockStands, <1>DeviceStands
  <2>4. CASE InstallCompleted
    <3>1. pc' = "inspect"
      BY <2>4 DEF InstallCompleted
    <3>. QED  BY <2>1, <2>3, <3>1, <1>MoveGuarded, <1>SameObserved
  <2>5. CASE InstallError \/ Inspect \/ StepInstalling
    <3>1. PICK state \in {"needs_recovery", "awaiting_reboot"} :
              /\ SaveRecord(Active(db), state, "idle")
              /\ state = "awaiting_reboot" => dev.operation = "idle"
      BY <2>5 DEF InstallError, Inspect, StepInstalling, BeginSave
    <3>2. Guarded'
      BY <2>1, <2>2, <3>1, <1>SaveGuarded
    <3>3. write'.job.state # "checking_health"
      BY <2>2, <3>1, SavedRecord
    <3>. QED  BY <2>1, <2>3, <3>2, <3>3, <1>SameObserved
  <2>. QED  BY <2>4, <2>5
\* RAUC ends an installation: no record is on its way that claims the device rests.
<1>FlashGuarded.
    ASSUME DInv, FlashDone
    PROVE  Guarded' /\ Observed'
  <2>. USE <1>FlashGuarded
  <2>1. /\ dev.operation = "installing" /\ dev' \in {Flashed(dev), FlashFailed(dev)}
        /\ UNCHANGED <<now, db, disk, pc, write, okSince, healthySince, proven>>
    BY DEF FlashDone, storeVars, history
  <2>2. dev \in DeviceState
    BY Types DEF DInv
  <2>3. /\ dev'.bootID = dev.bootID /\ dev'.booted = dev.booted
        /\ dev'.version[dev.booted] = dev.version[dev.booted]
        /\ GoodOf(dev, dev.booted) => GoodOf(dev', dev.booted)
    <3>1. \A v : {Flashed(dev), FlashFailed(dev)} \subseteq
                    {Installed(dev, v), Flashing(dev, v), Flashed(dev), FlashFailed(dev)}
      OBVIOUS
    <3>. QED  BY <2>1, <2>2, <3>1, InstalledOther, SMT
  <2>4. dev'.operation = "idle"
    <3>1. dev.bundle \in Versions /\ Installed(dev, dev.bundle) \in DeviceState
      BY <2>2, DeviceTypes DEF DeviceState
    <3>2. \A f \in DeviceState : [f EXCEPT !.operation = "idle"].operation = "idle"
      BY DEF DeviceState
    <3>. QED  BY <2>1, <2>2, <3>1, <3>2 DEF Flashed, FlashFailed
  <2>5. ASSUME NEW j, Safe(j, dev, proven)
        PROVE  Safe(j, dev', proven')
    BY <2>1, <2>3, <2>4, <2>5 DEF Safe
  <2>6. SafeAll(db, dev', proven') /\ SafeAll(disk, dev', proven')
    BY <2>3, <2>5 DEF DInv, Guarded, SafeAll
  <2>7. SafeWrite'
    <3>1. SUFFICES ASSUME pc = "write"
                   PROVE  /\ Safe(write.job, dev', proven')
                          /\ Outcome(write.job, dev', proven')
                          /\ write.next # "install"
      BY <2>1 DEF DInv, Guarded, SafeWrite
    <3>2. /\ Safe(write.job, dev, proven) /\ Outcome(write.job, dev, proven)
          /\ write.next # "install"
      BY <2>1, <3>1 DEF DInv, Guarded, SafeWrite
    <3>3. Outcome(write.job, dev', proven')
      BY <2>1, <3>2 DEF Outcome, Proved, Returned
    <3>. QED  BY <2>5, <3>2, <3>3
  <2>8. SafePoint'
    BY <2>1, <2>3 DEF DInv, Guarded, SafePoint, Proved, SeenThisBoot
  <2>9. now' \in Nat /\ now' >= now
    <3>1. now' = now
      BY <2>1, Zenon
    <3>. QED  BY <3>1, <1>ClockStands
  <2>. QED  BY <2>1, <2>3, <2>6, <2>7, <2>8, <2>9, <1>SameObserved DEF Guarded
\* No record knows the new boot yet, so whatever it claims of a boot is not of this one.
<1>BootSafe.
    ASSUME NEW d \in DeviceState, NEW s \in Slots, NEW b \in Database,
           NEW p, SafeAll(b, d, p), NEW q
    PROVE  LET e == BootedInto(d, s) IN
           /\ SafeAll(b, e, q)
           /\ \A id \in JobIDs : ~Judged(b.jobs[id], e)
           /\ b.bootCheck.bootID # e.bootID
  <2>. USE <1>BootSafe
  <2>. DEFINE e == BootedInto(d, s)
  <2>1. /\ e.bootID = d.bootID + 1 /\ e.version = d.version /\ e.operation = "idle"
        /\ d.bootID \in Nat
    BY BootedOther DEF DeviceState
  <2>. HIDE DEF e
  <2>2. b.bootCheck.bootID \in Nat /\ \A id \in JobIDs : b.jobs[id].bootID \in Nat
    <3>1. b.bootCheck \in BootCheck /\ \A id \in JobIDs : b.jobs[id] \in Job
      BY DEF Database
    <3>. QED  BY <3>1 DEF BootCheck, Job
  <2>3. \A n \in Nat : n <= d.bootID => n <= e.bootID /\ n # e.bootID
    BY <2>1, SMT
  <2>4. b.bootCheck.bootID <= d.bootID /\ \A id \in JobIDs : b.jobs[id].bootID <= d.bootID
    BY DEF SafeAll, Safe
  <2>5. /\ b.bootCheck.bootID <= e.bootID /\ b.bootCheck.bootID # e.bootID
        /\ \A id \in JobIDs : b.jobs[id].bootID <= e.bootID /\ b.jobs[id].bootID # e.bootID
    BY <2>2, <2>3, <2>4
  <2>6. SafeAll(b, e, q)
    BY <2>1, <2>5 DEF SafeAll, Safe
  <2>. QED  BY <2>5, <2>6 DEF Judged, e
\* The device boots under a process that holds the mutex no longer, or with a new one.
<1>BootGuarded.
    ASSUME DInv, NEW s \in Slots, dev' = BootedInto(dev, s), pc' = "idle",
           db' = db \/ db' = disk, disk' = disk, okSince' = 0, now' \in Nat
    PROVE  Guarded' /\ Observed'
  <2>. USE <1>BootGuarded
  <2>1. /\ dev \in DeviceState /\ db \in Database /\ disk \in Database
        /\ SafeAll(db, dev, proven) /\ SafeAll(disk, dev, proven)
    BY DEF DInv, Inv, TypeOK, Guarded
  <2>2. /\ SafeAll(db, dev', proven') /\ SafeAll(disk, dev', proven')
        /\ \A id \in JobIDs : ~Judged(db.jobs[id], dev') /\ ~Judged(disk.jobs[id], dev')
        /\ db.bootCheck.bootID # dev'.bootID /\ disk.bootCheck.bootID # dev'.bootID
    BY <2>1, <1>BootSafe
  <2>3. Guarded'
    BY <2>2 DEF Guarded, SafeWrite, SafePoint
  <2>4. ~Judging'
    BY <2>2 DEF Judging, SeenThisBoot
  <2>5. okSince' <= now'
    BY SMT
  <2>. QED  BY <2>3, <2>4, <2>5 DEF Observed
\* A requested reboot: its record before, the request itself, and taking it back.
<1>RebootGuarded.
    ASSUME DInv, RequestReboot \/ StepAutoReboot \/ Reboot \/ RebootJob
    PROVE  Guarded' /\ Observed'
  <2>. USE <1>RebootGuarded
  <2>. DEFINE j == Active(db)
  <2>1. UNCHANGED <<now, db, disk, healthySince>> /\ now \in Nat /\ dev \in DeviceState
    BY Types DEF DInv, RequestReboot, StepAutoReboot, Reboot, RebootJob, storeVars
  <2>2. now' \in Nat /\ now' >= now
    BY <2>1, SMT
  <2>3. ASSUME NEW f \in BOOLEAN, NEW next \in {"idle", "rebootJob"},
               HasActive(db), j.state = "awaiting_reboot",
               SaveRecord([j EXCEPT !.rebootRequested = f], "awaiting_reboot", next),
               UNCHANGED <<dev, okSince, proven>>
        PROVE  Guarded' /\ Observed'
    <3>1. j \in Job /\ dev.operation = "idle" /\ "awaiting_reboot" \in Underway
      <4>1. "awaiting_reboot" \in Underway \ {"installing", "needs_recovery"}
        BY DEF Underway
      <4>. QED  BY <2>3, <4>1, ActiveSafe
    <3>. DEFINE k == [j EXCEPT !.rebootRequested = f]
    <3>2. /\ k \in Job /\ k.asg = j.asg /\ k.oldSlot = j.oldSlot
          /\ k.oldVersion = j.oldVersion /\ k.targetSlot = j.targetSlot
          /\ k.bootID = j.bootID
      BY <3>1 DEF Job
    <3>3. SaveRecord(k, "awaiting_reboot", next)
      BY <2>3
    <3>. HIDE DEF k
    <3>4. Guarded'
      BY <2>1, <2>3, <3>1, <3>2, <3>3, <1>SaveGuarded
    <3>5. write'.job.state # "checking_health"
      BY <3>2, <3>3, SavedRecord
    <3>. QED  BY <2>1, <2>2, <2>3, <3>4, <3>5, <1>SameObserved
  <2>4. CASE RequestReboot \/ StepAutoReboot
    <3>1. /\ HasActive(db) /\ j.state = "awaiting_reboot"
          /\ SaveRecord([j EXCEPT !.rebootRequested = TRUE], "awaiting_reboot", "rebootJob")
          /\ UNCHANGED <<dev, okSince, proven>>
      BY <2>4 DEF RequestReboot, StepAutoReboot, Stepping, BeginReboot, BeginSave, history
    <3>. QED  BY <2>3, <3>1
  <2>5. CASE /\ RebootJob
             /\ BeginSave([j EXCEPT !.rebootRequested = FALSE], "awaiting_reboot", "idle")
             /\ UNCHANGED <<dev, okSince, proven>>
    <3>1. HasActive(db) /\ j.state = "awaiting_reboot"
      BY <2>5 DEF RebootJob, DInv, Inv, Core, Holding, Guarded, SafePoint
    <3>. QED  BY <2>3, <2>5, <3>1 DEF BeginSave
  <2>6. CASE pc' = "idle" /\ UNCHANGED <<dev, okSince, proven>>
    BY <2>1, <2>2, <2>6, <1>MoveGuarded, <1>SameObserved DEF Same
  <2>7. CASE Rebooted /\ pc' = "idle"
    <3>1. CASE Backend = "rauc"
      <4>1. dev' = [dev EXCEPT !.rebooting = TRUE] /\ UNCHANGED <<okSince, proven>>
        BY <2>7, <3>1 DEF Rebooted
      <4>2. Same(dev, dev') /\ dev'.bootID = dev.bootID
        BY <2>1, <4>1 DEF Same, DeviceState
      <4>. QED  BY <2>1, <2>2, <2>7, <4>1, <4>2, <1>MoveGuarded, <1>SameObserved
    <3>2. CASE Backend # "rauc"
      <4>1. PICK s \in BootChoices(dev) : dev' = BootedInto(dev, s)
        BY <2>7, <3>2 DEF Rebooted
      <4>2. s \in Slots /\ okSince' = 0
        BY <2>1, <2>7, <3>2, <4>1, DeviceTypes DEF Rebooted
      <4>. QED  BY <2>1, <2>2, <2>7, <4>1, <4>2, <1>BootGuarded
    <3>. QED  BY <3>1, <3>2
  <2>. QED  BY <2>4, <2>5, <2>6, <2>7 DEF Reboot, RebootJob
\* A new process, with or without a new boot.
<1>FreshGuarded.
    ASSUME DInv, Restart \/ Boot
    PROVE  Guarded' /\ Observed'
  <2>. USE <1>FreshGuarded
  <2>1. /\ db' = disk /\ disk' = disk /\ pc' = "idle" /\ healthySince' = 0 /\ okSince' = 0
    BY DEF Restart, Boot, FreshProcess
  <2>2. now' \in Nat
    <3>1. now \in Nat /\ (now' = now \/ now' = 1)
      BY Types DEF DInv, Restart, Boot
    <3>. QED  BY <3>1, SMT
  <2>3. CASE Restart
    <3>1. dev' = dev /\ proven' = proven
      BY <2>3 DEF Restart
    <3>2. Guarded'
      BY <2>1, <3>1 DEF DInv, Guarded, SafeWrite, SafePoint
    <3>3. okSince' <= now'
      BY <2>1, <2>2, SMT
    <3>. QED  BY <2>1, <3>2, <3>3 DEF Observed
  <2>4. CASE Boot
    <3>1. PICK s \in BootChoices(dev) : dev' = BootedInto(dev, s)
      BY <2>4 DEF Boot
    <3>2. s \in Slots
      BY <3>1, Types, DeviceTypes DEF DInv
    <3>. QED  BY <2>1, <2>2, <3>1, <3>2, <1>BootGuarded
  <2>. QED  BY <2>3, <2>4
\* What a step finds after a boot.
<1>BootedGuarded.
    ASSUME DInv, StepBooted \/ StepBootedAgain
    PROVE  Guarded' /\ Observed'
  <2>. USE <1>BootedGuarded
  <2>. DEFINE j == Active(db)
  <2>1. /\ HasActive(db) /\ j.state \in {"awaiting_reboot", "checking_health", "committing"}
        /\ UNCHANGED <<now, dev, db, disk, okSince, proven>>
    BY DEF StepBooted, StepBootedAgain, Stepping, storeVars, history
  <2>2. /\ j \in Job /\ Safe(j, dev, proven) /\ dev.operation = "idle" /\ j.state \in Underway
    <3>1. j.state \in Underway \ {"installing", "needs_recovery"}
      BY <2>1 DEF Underway
    <3>. QED  BY <2>1, <3>1, ActiveSafe
  <2>3. now' \in Nat /\ now' >= now /\ dev'.bootID = dev.bootID
        /\ dev.bootID \in Nat /\ okSince' <= now'
    <3>1. now' = now /\ dev' = dev /\ okSince' = okSince
      BY <2>1, Zenon
    <3>2. okSince <= now
      BY DEF DInv, Observed
    <3>. QED  BY <3>1, <3>2, <1>ClockStands, <1>DeviceStands
  <2>4. CASE \E state \in {"rolled_back", "needs_recovery"} :
                /\ SaveRecord(j, state, "idle") /\ healthySince' = healthySince
                /\ state = "rolled_back" => dev.booted = j.oldSlot
    <3>1. PICK state \in {"rolled_back", "needs_recovery"} :
                /\ SaveRecord(j, state, "idle") /\ healthySince' = healthySince
                /\ state = "rolled_back" => dev.booted = j.oldSlot
      BY <2>4
    <3>2. state = "rolled_back" => Returned(j, dev)
      BY <2>2, <3>1 DEF Returned, Safe
    <3>3. Guarded'
      BY <2>1, <2>2, <3>1, <3>2, <1>SaveGuarded
    <3>4. write'.job.state # "checking_health"
      BY <2>2, <3>1, SavedRecord
    <3>. QED  BY <2>1, <2>3, <3>1, <3>3, <3>4, <1>SameObserved
  <2>5. CASE /\ healthySince' = 0
             /\ \E n \in Nat : SaveRecord([j EXCEPT !.healthStarted = n, !.bootID = dev.bootID],
                                          "checking_health", "idle")
    <3>1. PICK n \in Nat : SaveRecord([j EXCEPT !.healthStarted = n, !.bootID = dev.bootID],
                                      "checking_health", "idle")
      BY <2>5
    <3>. DEFINE k == [j EXCEPT !.healthStarted = n, !.bootID = dev.bootID]
    <3>2. /\ k \in Job /\ k.asg = j.asg /\ k.oldSlot = j.oldSlot
          /\ k.oldVersion = j.oldVersion /\ k.targetSlot = j.targetSlot
          /\ k.bootID = dev.bootID
      BY <2>2, <2>3 DEF Job
    <3>3. SaveRecord(k, "checking_health", "idle")
      BY <3>1
    <3>. HIDE DEF k
    <3>4. Guarded'
      BY <2>1, <2>2, <3>2, <3>3, <1>SaveGuarded
    <3>. QED  BY <2>3, <2>5, <3>4 DEF Observed
  <2>6. CASE StepBooted
    <3>1. now \in Nat
      BY DeviceFacts DEF DInv
    <3>. QED  BY <2>4, <2>5, <2>6, <3>1 DEF StepBooted, BootOutcome, BeginSave
  <2>7. CASE StepBootedAgain
    <3>1. [j EXCEPT !.bootID = dev.bootID] =
          [j EXCEPT !.healthStarted = j.healthStarted, !.bootID = dev.bootID]
      BY <2>2 DEF Job
    <3>2. j.healthStarted \in Nat
      BY <2>2 DEF Job
    <3>. QED  BY <2>4, <2>5, <2>7, <3>1, <3>2 DEF StepBootedAgain, BootOutcome, BeginSave
  <2>. QED  BY <2>6, <2>7
\* One observed check: the engine's counter stays behind what has been observed, so
\* that a stable counter proves a stable run.
<1>CheckObserved.
    ASSUME DInv, Judging, UNCHANGED <<now>>, healthySince' = Since, ObservePass
    PROVE  /\ okSince' <= now'
           /\ healthySince' # 0 => okSince' # 0 /\ okSince' <= healthySince'
           /\ Stable => proven'
           /\ proven => proven'
  <2>. USE <1>CheckObserved
  <2>1. /\ now \in Nat /\ okSince \in Nat /\ healthySince \in Nat /\ HealthStable \in Nat
        /\ okSince <= now /\ (healthySince # 0 => okSince # 0 /\ okSince <= healthySince)
    BY DeviceFacts DEF DInv, Observed
  <2>. DEFINE since == IF okSince = 0 THEN now ELSE okSince
  <2>2. okSince' = since /\ proven' = (proven \/ now - since >= HealthStable)
    BY DEF ObservePass
  <2>3. /\ since <= now
        /\ Since # 0 => since # 0 /\ since <= Since
        /\ Stable => now - since >= HealthStable
    BY <2>1, SMT DEF Since, Stable
  <2>. HIDE DEF since
  <2>4. /\ okSince' <= now'
        /\ healthySince' # 0 => okSince' # 0 /\ okSince' <= healthySince'
    BY <2>2, <2>3
  <2>5. (Stable => proven') /\ (proven => proven')
    BY <2>2, <2>3, Zenon
  <2>. QED  BY <2>4, <2>5
\* The health window of a job.
<1>HealthGuarded.
    ASSUME DInv, StepHealthDeadline \/ StepUnhealthy \/ StepHealthy
    PROVE  Guarded' /\ Observed'
  <2>. USE <1>HealthGuarded
  <2>. DEFINE j == Active(db)
  <2>1. /\ HasActive(db) /\ j.state = "checking_health" /\ j.bootID = dev.bootID
        /\ pc = "idle" /\ UNCHANGED <<now, dev, db, disk>>
    BY DEF StepHealthDeadline, StepUnhealthy, StepHealthy, Checking, Stepping, storeVars
  <2>2. /\ j \in Job /\ dev.operation = "idle" /\ j.state \in Underway
        /\ db.active \in JobIDs /\ j = db.jobs[db.active]
    <3>1. j.state \in Underway \ {"installing", "needs_recovery"}
      BY <2>1 DEF Underway
    <3>. QED  BY <2>1, <3>1, ActiveSafe
  <2>3. Judging
    BY <2>1, <2>2 DEF Judging, Judged
  <2>4. now' \in Nat /\ now' >= now /\ dev'.bootID = dev.bootID /\ Same(dev, dev')
    <3>1. now' = now /\ dev' = dev
      BY <2>1, Zenon
    <3>. QED  BY <3>1, <1>ClockStands, <1>DeviceStands
  <2>5. CASE StepHealthDeadline
    <3>1. /\ SaveRecord(j, "rollback_pending", "idle")
          /\ UNCHANGED <<okSince, healthySince, proven>>
      BY <2>5 DEF StepHealthDeadline, BeginSave, history
    <3>2. Guarded'
      <4>1. "rollback_pending" \in Underway \ {"committing", "committed", "rolled_back"}
        BY DEF Underway
      <4>. QED  BY <2>1, <2>2, <3>1, <4>1, <1>SaveGuarded
    <3>3. write'.job.state # "checking_health"
      BY <2>2, <3>1, SavedRecord
    <3>. QED  BY <2>1, <2>4, <3>1, <3>2, <3>3, <1>SameObserved
  <2>6. CASE StepUnhealthy
    <3>1. pc' = "idle" /\ healthySince' = 0 /\ okSince' = 0 /\ proven' = proven
      BY <2>1, <2>6 DEF StepUnhealthy, ObserveFail
    <3>2. Guarded'
      BY <2>1, <2>4, <3>1, <1>MoveGuarded
    <3>3. okSince' <= now'
      BY <2>4, <3>1, SMT
    <3>. QED  BY <3>1, <3>2, <3>3 DEF Observed
  <2>7. CASE StepHealthy
    <3>1. /\ healthySince' = Since /\ ObservePass
          /\ IF Stable THEN SaveRecord(j, "committing", "idle") ELSE pc' = pc
      BY <2>7 DEF StepHealthy, BeginSave
    <3>2. /\ okSince' <= now'
          /\ healthySince' # 0 => okSince' # 0 /\ okSince' <= healthySince'
          /\ Stable => proven'
          /\ proven => proven'
      BY <2>1, <2>3, <3>1, <1>CheckObserved
    <3>3. CASE Stable
      BY <2>1, <2>2, <3>1, <3>2, <3>3, <1>SaveGuarded DEF Observed
    <3>4. CASE ~Stable
      BY <2>1, <2>4, <3>1, <3>2, <3>4, <1>MoveGuarded DEF Observed
    <3>. QED  BY <3>3, <3>4
  <2>. QED  BY <2>5, <2>6, <2>7
\* The calls of Mark that make no slot good.
<1>UnmarkGuarded.
    ASSUME DInv,
           \/ StepMarkBad \/ ActivateOldSlot \/ RecoverAbort \/ AbortActivate
           \/ NormalBootDeadline \/ ActivateFallback
    PROVE  Guarded' /\ Observed' /\ Unmarked
  <2>. USE <1>UnmarkGuarded
  <2>1. /\ UNCHANGED <<now, db, disk, okSince, healthySince, proven>>
        /\ pc' \in {"rollback", "reboot", "abort", "aborted", "fallback", "idle"}
    BY DEF StepMarkBad, ActivateOldSlot, RecoverAbort, AbortActivate, NormalBootDeadline,
           ActivateFallback, storeVars, history
  <2>2. dev \in DeviceState /\ dev.booted \in Slots /\ Other(dev) \in Slots
    BY Types, DeviceTypes DEF DInv, DeviceState
  <2>3. Unmarked
    <3>1. CASE StepMarkBad \/ ActivateOldSlot \/ RecoverAbort \/ AbortActivate
      <4>1. HasActive(db) /\ Active(db).state \in Underway
        BY <3>1 DEF StepMarkBad, ActivateOldSlot, RecoverAbort, AbortActivate, Stepping,
                    Underway, DInv, Inv, Core, Holding
      <4>2. /\ Active(db).oldSlot \in Slots /\ Active(db).targetSlot \in Slots
            /\ db.active \in JobIDs /\ Active(db) = db.jobs[db.active]
        BY <4>1, ActiveSafe
      <4>3. Doubted(Active(db).targetSlot)
        BY <4>1, <4>2 DEF Doubted
      <4>4. \/ dev' = dev \/ dev' = Mark(dev, "active", Active(db).oldSlot)
            \/ dev' = Mark(dev, "bad", Active(db).targetSlot)
        BY <3>1 DEF StepMarkBad, ActivateOldSlot, RecoverAbort, AbortActivate
      <4>. QED  BY <4>2, <4>3, <4>4 DEF Unmarked
    <3>2. CASE NormalBootDeadline
      <4>1. Doubted(dev.booted) /\ dev' = Mark(dev, "bad", dev.booted)
        BY <3>2 DEF NormalBootDeadline, Confirming, Doubted, SeenThisBoot
      <4>. QED  BY <2>2, <4>1 DEF Unmarked
    <3>3. CASE ActivateFallback
      BY <2>2, <3>3 DEF ActivateFallback, Unmarked
    <3>. QED  BY <3>1, <3>2, <3>3
  <2>4. Same(dev, dev') /\ dev'.bootID = dev.bootID
    BY <2>2, <2>3, MarkSame, SMT DEF Same, Unmarked
  <2>5. now' \in Nat /\ now' >= now
    <3>1. now' = now
      BY <2>1, Zenon
    <3>. QED  BY <3>1, <1>ClockStands
  <2>. QED  BY <2>1, <2>3, <2>4, <2>5, <1>MoveGuarded, <1>SameObserved
\* The target is marked good, on the evidence a commit needs.
<1>MarkGoodGuarded.
    ASSUME DInv, StepMarkGood
    PROVE  /\ Guarded' /\ Observed'
           /\ dev' = Mark(dev, "good", dev.booted) /\ dev.booted \in Slots /\ proven'
  <2>. USE <1>MarkGoodGuarded
  <2>. DEFINE j == Active(db)
  <2>1. /\ HasActive(db) /\ j.state = "committing" /\ j.bootID = dev.bootID
        /\ dev.booted = j.targetSlot /\ dev.version[j.targetSlot] = j.asg.version
        /\ dev' = Mark(dev, "good", j.targetSlot) /\ pc' = "commit"
        /\ UNCHANGED <<now, db, disk, okSince, healthySince, proven>>
    BY DEF StepMarkGood, Checking, Stepping, RunsTarget, storeVars, history
  <2>2. dev.operation = "idle" /\ proven /\ j.targetSlot \in Slots
    <3>1. j.state \in Underway \ {"installing", "needs_recovery"}
      BY <2>1 DEF Underway
    <3>. QED  BY <2>1, <3>1, ActiveSafe DEF Safe
  <2>3. Same(dev, dev') /\ GoodOf(dev', j.targetSlot) /\ dev'.bootID = dev.bootID
    <3>1. dev \in DeviceState
      BY Types DEF DInv
    <3>2. Same(dev, dev') /\ GoodOf(dev', j.targetSlot)
      BY <2>1, <2>2, <3>1, MarkSame
    <3>. QED  BY <3>2 DEF Same
  <2>4. SafeAll(db, dev', proven') /\ SafeAll(disk, dev', proven')
    BY <2>1, <2>3, <1>SameSafe DEF DInv, Guarded
  <2>5. Proved(j, dev', proven')
    BY <2>1, <2>2, <2>3 DEF Proved, Same
  <2>6. SafePoint'
    BY <2>1, <2>5 DEF SafePoint, Active
  <2>7. Guarded'
    BY <2>1, <2>4, <2>6 DEF Guarded, SafeWrite
  <2>8. now' \in Nat /\ now' >= now
    <3>1. now' = now
      BY <2>1, Zenon
    <3>. QED  BY <3>1, <1>ClockStands
  <2>9. Observed'
    BY <2>1, <2>3, <2>8, <1>SameObserved
  <2>10. dev.booted \in Slots /\ proven'
    BY <2>1, <2>2, Zenon
  <2>. QED  BY <2>1, <2>7, <2>9, <2>10
\* A job ends.
<1>EndGuarded.
    ASSUME DInv, SaveCommitted \/ StepRolledBack \/ AbortSave
    PROVE  Guarded' /\ Observed'
  <2>. USE <1>EndGuarded
  <2>. DEFINE j == Active(db)
  <2>1. /\ HasActive(db) /\ j.state \in Underway
        /\ UNCHANGED <<now, dev, db, disk, okSince, healthySince, proven>>
    BY DEF SaveCommitted, StepRolledBack, AbortSave, Stepping, Underway,
           DInv, Inv, Core, Holding, storeVars, history
  <2>2. j \in Job /\ Safe(j, dev, proven)
    BY <2>1, ActiveSafe
  <2>3. now' \in Nat /\ now' >= now /\ dev'.bootID = dev.bootID
    <3>1. now' = now /\ dev' = dev
      BY <2>1, Zenon
    <3>. QED  BY <3>1, <1>ClockStands, <1>DeviceStands
  <2>4. PICK state \in {"committed", "rolled_back", "needs_recovery", "failed"} :
            /\ SaveRecord(j, state, "idle")
            /\ state = "committed" => pc = "commit"
            /\ state = "rolled_back" => dev.operation = "idle" /\ dev.booted = j.oldSlot
    BY DEF SaveCommitted, StepRolledBack, AbortSave, BeginSave
  <2>5. state = "committed" => Proved(j, dev, proven')
    BY <2>1, <2>4 DEF DInv, Guarded, SafePoint
  <2>6. state = "rolled_back" => Returned(j, dev)
    BY <2>1, <2>2, <2>4 DEF Returned, Safe
  <2>7. Guarded'
    <3>1. state # "committing" /\ (state \in Underway => state = "needs_recovery")
      BY DEF Underway
    <3>. QED  BY <2>1, <2>2, <2>4, <2>5, <2>6, <3>1, <1>SaveGuarded
  <2>8. write'.job.state # "checking_health"
    BY <2>2, <2>4, SavedRecord
  <2>. QED  BY <2>1, <2>3, <2>7, <2>8, <1>SameObserved
\* The health window of a normal boot.
<1>NormalGuarded.
    ASSUME DInv, NormalBootUnhealthy \/ NormalBootHealthy
    PROVE  /\ Guarded' /\ Observed'
           /\ \/ dev' = dev
              \/ dev' = Mark(dev, "good", dev.booted) /\ dev.booted \in Slots /\ proven'
  <2>. USE <1>NormalGuarded
  <2>1. /\ SeenThisBoot /\ pc = "idle" /\ UNCHANGED <<now, db, disk>>
        /\ dev \in DeviceState /\ dev.booted \in Slots /\ now \in Nat
    BY Types, DeviceFacts DEF DInv, NormalBootUnhealthy, NormalBootHealthy, Confirming, storeVars
  <2>2. CASE NormalBootUnhealthy
    <3>1. /\ pc' = "idle" /\ healthySince' = 0 /\ okSince' = 0 /\ proven' = proven
          /\ dev' = dev
      BY <2>1, <2>2 DEF NormalBootUnhealthy, ObserveFail
    <3>2. Guarded'
      BY <2>1, <3>1, <1>MoveGuarded DEF Same
    <3>3. okSince' <= now'
      BY <2>1, <3>1, SMT
    <3>. QED  BY <3>1, <3>2, <3>3 DEF Observed
  <2>3. CASE NormalBootHealthy
    <3>1. /\ healthySince' = Since /\ ObservePass
          /\ IF Stable THEN dev' = Mark(dev, "good", dev.booted) /\ pc' = "confirm"
             ELSE dev' = dev /\ pc' = pc
      BY <2>3 DEF NormalBootHealthy
    <3>2. /\ okSince' <= now'
          /\ healthySince' # 0 => okSince' # 0 /\ okSince' <= healthySince'
          /\ Stable => proven'
          /\ proven => proven'
      BY <2>1, <3>1, <1>CheckObserved DEF Judging
    <3>3. Observed'
      BY <3>2 DEF Observed
    <3>4. CASE ~Stable
      BY <2>1, <3>1, <3>2, <3>3, <3>4, <1>MoveGuarded DEF Same
    <3>5. CASE Stable
      <4>1. /\ Same(dev, dev') /\ GoodOf(dev', dev.booted)
            /\ dev'.booted = dev.booted /\ dev'.bootID = dev.bootID
        <5>1. dev' = Mark(dev, "good", dev.booted) /\ dev \in DeviceState /\ dev.booted \in Slots
          BY <2>1, <3>1, <3>5
        <5>2. Same(dev, dev') /\ GoodOf(dev', dev.booted)
          BY <5>1, MarkSame
        <5>. QED  BY <5>2 DEF Same
      <4>2. SafeAll(db, dev', proven') /\ SafeAll(disk, dev', proven')
        BY <3>2, <4>1, <1>SameSafe DEF DInv, Guarded
      <4>3. SafePoint'
        BY <2>1, <3>1, <3>5, <4>1 DEF SafePoint, SeenThisBoot
      <4>4. Guarded'
        BY <2>1, <3>1, <3>5, <4>2, <4>3 DEF Guarded, SafeWrite
      <4>. QED  BY <2>1, <3>1, <3>2, <3>3, <3>5, <4>4
    <3>. QED  BY <3>4, <3>5
  <2>. QED  BY <2>2, <2>3
\* Only a storage fault poisons the process.
<1>Poisoning.
    ASSUME NEW d, NEW arc, NEW next, Update(d, arc, next)
    PROVE  poisoned' => poisoned \/ "storage" \in Faults
  BY <1>Poisoning, Zenon DEF Update, storeVars
\* A transaction that writes records which are true of the device.
<1>UpdateGuarded.
    ASSUME DInv, NEW d, SafeAll(d, dev, proven), NEW arc,
           NEW next \in {"idle", "install", "rebootJob"}, Update(d, arc, next),
           UNCHANGED <<dev, proven>>,
           next = "install" => dev.operation = "idle" /\ Active(d).oldSlot = dev.booted,
           next = "rebootJob" => Active(d).state = "awaiting_reboot"
    PROVE  Guarded'
  <2>. USE <1>UpdateGuarded
  <2>1. SafeAll(db, dev, proven) /\ SafeAll(disk, dev, proven)
    BY DEF DInv, Guarded
  <2>2. SafeAll(db', dev', proven') /\ SafeAll(disk', dev', proven')
    BY <2>1, Transaction
  <2>3. SafeWrite' /\ SafePoint'
    BY Transaction DEF SafeWrite, SafePoint, Active
  <2>. QED  BY <2>2, <2>3 DEF Guarded
\* A transaction that opens no health window.
<1>UpdateObserved.
    ASSUME DInv, UNCHANGED <<now, dev, okSince, healthySince>>, Judging' => Judging
    PROVE  Observed'
  BY <1>UpdateObserved DEF DInv, Observed
\* The transaction of a save.
<1>WriteGuarded.
    ASSUME DInv, WriteJournal
    PROVE  Guarded' /\ Observed' /\ Entered
  <2>. USE <1>WriteGuarded
  <2>. DEFINE d == Recorded(db, write.id, write.job)
  <2>1. /\ pc = "write" /\ UNCHANGED <<now, dev, okSince, healthySince, proven>>
    BY DEF WriteJournal, history
  <2>2. /\ db \in Database /\ WellFormed(db) /\ HasActive(db) /\ write.id = db.active
        /\ write.job \in Job /\ write.job.state \in States
        /\ write.job.asg = Active(db).asg
        /\ write.job.state \in Underway =>
              write.job.oldSlot \in Slots /\ write.job.targetSlot \in Slots
        /\ write.next \in {"idle", "install", "rebootJob"}
        /\ write.next = "install" => write.job.state = "installing"
        /\ write.next = "rebootJob" => write.job.state = "awaiting_reboot"
    BY <2>1 DEF DInv, Inv, TypeOK, Core, Writing
  <2>3. /\ d.jobs = [db.jobs EXCEPT ![db.active] = write.job]
        /\ ~Terminal(write.job.state) => d.active = db.active
        /\ d.bootCheck = db.bootCheck
    <3>1. d.bootCheck = db.bootCheck
      BY <2>2 DEF Recorded, AddEvent, Database
    <3>. QED  BY <2>2, <3>1, RecordedOK
  <2>4. db.active \in JobIDs /\ db.jobs \in [JobIDs -> Job]
    BY <2>2, ActiveSafe, DeviceFacts DEF DInv
  <2>. HIDE DEF d
  <2>5. /\ d.jobs[db.active] = write.job
        /\ \A id \in JobIDs : id # db.active => d.jobs[id] = db.jobs[id]
    BY <2>3, <2>4
  <2>6. CASE OutboxFull(db)
    <3>1. pc' = "idle" /\ db' = db /\ disk' = disk
      BY <2>6 DEF WriteJournal, storeVars
    <3>2. Same(dev, dev') /\ (proven => proven') /\ now' \in Nat /\ now' >= now
          /\ dev'.bootID = dev.bootID
      <4>1. now' = now /\ dev' = dev /\ (proven => proven')
        BY <2>1, Zenon
      <4>. QED  BY <4>1, <1>ClockStands, <1>DeviceStands
    <3>3. Entered
      <4>1. poisoned' => poisoned
        BY <2>6, Zenon DEF WriteJournal, storeVars
      <4>. QED  BY <3>1, <4>1 DEF Entered
    <3>. QED  BY <2>1, <3>1, <3>2, <3>3, <1>MoveGuarded, <1>SameObserved
  <2>7. CASE ~OutboxFull(db)
    <3>1. Update(d, archive, write.next)
      BY <2>7 DEF WriteJournal, d
    <3>2. /\ Safe(write.job, dev, proven)
          /\ write.next = "install" => dev.operation = "idle" /\ write.job.oldSlot = dev.booted
          /\ SafeAll(db, dev, proven)
      BY <2>1 DEF DInv, Guarded, SafeWrite
    <3>3. SafeAll(d, dev, proven)
      BY <2>3, <2>5, <3>2 DEF SafeAll
    <3>4. write.next \in {"install", "rebootJob"} => Active(d) = write.job
      BY <2>2, <2>3, <2>5 DEF Active, Terminal, Finished
    <3>5. Guarded'
      BY <2>1, <2>2, <3>1, <3>2, <3>3, <3>4, <1>UpdateGuarded
    <3>6. Judging' => Judging
      <4>1. (db' = d \/ db' = db) /\ pc' # "write"
        BY <2>2, <3>1, Transaction
      <4>2. CASE db' = db
        BY <2>1, <4>1, <4>2 DEF Judging, Judged, SeenThisBoot
      <4>3. CASE db' = d
        <5>1. \A id \in JobIDs : db'.jobs[id] = db.jobs[id] \/ db'.jobs[id] = write.job
          BY <2>5, <4>3, Zenon
        <5>2. SeenThisBoot' => SeenThisBoot
          BY <2>1, <2>3, <4>3 DEF SeenThisBoot
        <5>. QED  BY <2>1, <4>1, <5>1, <5>2 DEF Judging, Judged
      <4>. QED  BY <4>1, <4>2, <4>3
    <3>7. Entered
      <4>1. disk' = disk \/ (disk' = d /\ db = disk)
        BY <3>1, Transaction DEF DInv, Inv, Core, InStep
      <4>2. poisoned' => poisoned \/ "storage" \in Faults
        BY <3>1, <1>Poisoning
      <4>. QED  BY <2>1, <2>3, <2>5, <4>1, <4>2 DEF Entered
    <3>. QED  BY <2>1, <3>5, <3>6, <3>7, <1>UpdateObserved
  <2>. QED  BY <2>6, <2>7
\* The transaction of a submission: a new record claims nothing of the device.
<1>SubmitGuarded.
    ASSUME DInv, NEW a \in Assignments, Submit(a)
    PROVE  Guarded' /\ Observed' /\ Entered
  <2>. USE <1>SubmitGuarded
  <2>1. /\ ~HasActive(db) /\ a.seq > db.high
        /\ UNCHANGED <<now, dev, okSince, healthySince, proven>>
        /\ db \in Database /\ WellFormed(db) /\ dev.bootID \in Nat
    BY Types, DeviceFacts DEF Submit, history, DInv
  <2>2. PICK d, arc : /\ Update(d, arc, "idle")
                      /\ \/ d = Accepted(db, a)
                         \/ \E id \in Oldest(Accepted(db, a)) : d = Without(Accepted(db, a), id)
    BY DEF Submit
  <2>3. /\ Accepted(db, a).jobs = [db.jobs EXCEPT ![a.job] = NewJob(a)]
        /\ Accepted(db, a) \in Database /\ WellFormed(Accepted(db, a))
        /\ Accepted(db, a).bootCheck = db.bootCheck
    <3>1. Accepted(db, a).bootCheck = db.bootCheck
      BY <2>1 DEF Accepted, AddEvent, Database
    <3>. QED  BY <2>1, <3>1, AcceptedOK
  <2>4. ASSUME NEW id \in Oldest(Accepted(db, a))
        PROVE  /\ Without(Accepted(db, a), id).jobs = [Accepted(db, a).jobs EXCEPT ![id] = NoJob]
               /\ Without(Accepted(db, a), id).bootCheck = db.bootCheck
    <3>1. \A e \in Database : Without(e, id).bootCheck = e.bootCheck
      BY DEF Without, Database
    <3>. QED  BY <2>3, <3>1, WithoutOK
  <2>5. db.jobs \in [JobIDs -> Job]
    BY DeviceFacts DEF DInv
  <2>6. /\ d.bootCheck = db.bootCheck
        /\ \A id \in JobIDs : d.jobs[id] \in {db.jobs[id], NewJob(a), NoJob}
    <3>1. ASSUME NEW f \in [JobIDs -> Job], NEW x, NEW j
          PROVE  \A id \in JobIDs : [f EXCEPT ![x] = j][id] \in {f[id], j}
      OBVIOUS
    <3>2. /\ \A id \in JobIDs : Accepted(db, a).jobs[id] \in {db.jobs[id], NewJob(a)}
          /\ Accepted(db, a).jobs \in [JobIDs -> Job]
      <4>1. Accepted(db, a).jobs \in [JobIDs -> Job]
        BY <2>3 DEF Database
      <4>. QED  BY <2>3, <2>5, <3>1, <4>1
    <3>3. CASE d = Accepted(db, a)
      BY <2>3, <3>2, <3>3
    <3>4. CASE d # Accepted(db, a)
      <4>1. PICK id \in Oldest(Accepted(db, a)) : d = Without(Accepted(db, a), id)
        BY <2>2, <3>4
      <4>2. d.jobs = [Accepted(db, a).jobs EXCEPT ![id] = NoJob] /\ d.bootCheck = db.bootCheck
        BY <2>4, <4>1
      <4>. QED  BY <3>1, <3>2, <4>2
    <3>. QED  BY <3>3, <3>4
  <2>7. /\ NewJob(a).state = "accepted" /\ NoJob.state = "absent"
        /\ NewJob(a).bootID = 0 /\ NoJob.bootID = 0
    BY DEF NewJob, NoJob
  <2>8. 0 <= dev.bootID
    BY <2>1, SMT
  <2>9. Safe(NewJob(a), dev, proven) /\ Safe(NoJob, dev, proven)
    BY <2>7, <2>8 DEF Safe, Underway
  <2>10. SafeAll(d, dev, proven)
    <3>1. SafeAll(db, dev, proven)
      BY DEF DInv, Guarded
    <3>2. \A id \in JobIDs : Safe(d.jobs[id], dev, proven)
      BY <2>6, <2>9, <3>1, Zenon DEF SafeAll
    <3>. QED  BY <2>6, <3>1, <3>2 DEF SafeAll
  <2>11. Guarded'
    BY <2>1, <2>2, <2>10, <1>UpdateGuarded
  <2>12. Judging' => Judging
    <3>1. (db' = d \/ db' = db) /\ pc' # "write"
      BY <2>2, Transaction
    <3>. QED  BY <2>1, <2>6, <2>7, <3>1 DEF Judging, Judged, SeenThisBoot
  <2>13. Entered
    <3>1. disk' = disk \/ (disk' = d /\ db = disk)
      BY <2>2, Transaction DEF DInv, Inv, Core, InStep
    <3>2. poisoned' => poisoned \/ "storage" \in Faults
      BY <2>2, <1>Poisoning
    <3>. QED  BY <2>6, <2>7, <3>1, <3>2 DEF Entered
  <2>. QED  BY <2>1, <2>11, <2>12, <2>13, <1>UpdateObserved
\* An acknowledgement changes no record.
<1>AckGuarded.
    ASSUME DInv, Ack
    PROVE  Guarded' /\ Observed' /\ Entered
  <2>. USE <1>AckGuarded
  <2>1. UNCHANGED <<now, dev, pc, write, okSince, healthySince, proven>>
    BY DEF Ack, history
  <2>2. PICK left : db' \in {db, [db EXCEPT !.outbox = left]}
                    /\ disk' \in {disk, [db EXCEPT !.outbox = left]}
    BY SMT DEF Ack
  <2>. DEFINE e == [db EXCEPT !.outbox = left]
  <2>3. e.jobs = db.jobs /\ e.active = db.active /\ e.bootCheck = db.bootCheck
    BY Types DEF DInv, Database
  <2>. HIDE DEF e
  <2>4. /\ db'.jobs = db.jobs /\ db'.active = db.active /\ db'.bootCheck = db.bootCheck
        /\ disk' = disk \/ (disk'.jobs = db.jobs /\ disk'.bootCheck = db.bootCheck)
    BY <2>2, <2>3 DEF e
  <2>5. SafeAll(db', dev', proven') /\ SafeAll(disk', dev', proven')
    BY <2>1, <2>4 DEF DInv, Guarded, SafeAll
  <2>6. Active(db') = Active(db)
    BY <2>4 DEF Active
  <2>7. SafeWrite' /\ SafePoint'
    BY <2>1, <2>4, <2>6 DEF DInv, Guarded, SafeWrite, SafePoint, SeenThisBoot
  <2>8. Judging' => Judging
    BY <2>1, <2>4 DEF Judging, SeenThisBoot
  <2>9. Entered
    <3>1. db = disk
      BY DEF Ack, DInv, Inv, Core, InStep
    <3>2. poisoned' => poisoned \/ "storage" \in Faults
      BY Zenon DEF Ack
    <3>. QED  BY <2>4, <3>1, <3>2 DEF Entered
  <2>. QED  BY <2>1, <2>5, <2>7, <2>8, <2>9, <1>UpdateObserved DEF Guarded
\* A normal boot is seen, and confirmed.
<1>BootCheckGuarded.
    ASSUME DInv, NormalBootSeen \/ ConfirmBoot
    PROVE  Guarded' /\ Observed' /\ Entered
  <2>. USE <1>BootCheckGuarded
  <2>1. /\ UNCHANGED <<now, dev, okSince, proven>> /\ db \in Database
        /\ dev.bootID \in Nat /\ dev.bootID <= dev.bootID
    <3>1. dev.bootID \in Nat /\ db \in Database
      BY Types, DeviceFacts DEF DInv
    <3>2. dev.bootID <= dev.bootID
      BY <3>1, SMT
    <3>. QED  BY <3>1, <3>2 DEF NormalBootSeen, ConfirmBoot, history
  <2>2. SafeAll(db, dev, proven)
    BY DEF DInv, Guarded
  <2>3. ASSUME NEW e, e.jobs = db.jobs, Update(e, archive, "idle")
        PROVE  Entered
    <3>1. disk' = disk \/ (disk' = e /\ db = disk)
      BY <2>3, Transaction DEF DInv, Inv, Core, InStep
    <3>2. poisoned' => poisoned \/ "storage" \in Faults
      BY <2>3, <1>Poisoning
    <3>. QED  BY <2>3, <3>1, <3>2 DEF Entered
  <2>4. CASE NormalBootSeen
    <3>. DEFINE b == [bootID |-> dev.bootID, started |-> now, confirmed |-> FALSE]
                e == [db EXCEPT !.bootCheck = b]
    <3>1. Update(e, archive, "idle") /\ healthySince' = 0
      BY <2>4 DEF NormalBootSeen
    <3>2. e.jobs = db.jobs /\ e.bootCheck.bootID = dev.bootID
      BY <2>1 DEF Database
    <3>. HIDE DEF e
    <3>3. SafeAll(e, dev, proven)
      BY <2>1, <2>2, <3>2 DEF SafeAll
    <3>4. Guarded'
      BY <2>1, <3>1, <3>3, <1>UpdateGuarded
    <3>5. Entered
      BY <2>3, <3>1, <3>2
    <3>. QED  BY <2>1, <3>1, <3>4, <3>5 DEF DInv, Observed
  <2>5. CASE ConfirmBoot
    <3>. DEFINE e == [db EXCEPT !.bootCheck.confirmed = TRUE]
    <3>1. Update(e, archive, "idle") /\ healthySince' = healthySince
      BY <2>5 DEF ConfirmBoot
    <3>2. e.jobs = db.jobs /\ e.bootCheck.bootID = db.bootCheck.bootID
      BY <2>1 DEF Database, BootCheck
    <3>. HIDE DEF e
    <3>3. SafeAll(e, dev, proven)
      BY <2>1, <2>2, <3>2 DEF SafeAll
    <3>4. Guarded'
      BY <2>1, <3>1, <3>3, <1>UpdateGuarded
    <3>5. Judging' => Judging
      <4>1. (db' = e \/ db' = db) /\ pc' # "write"
        BY <3>1, Transaction
      <4>. QED  BY <2>1, <3>2, <4>1 DEF Judging, SeenThisBoot
    <3>6. Entered
      BY <2>3, <3>1, <3>2
    <3>. QED  BY <2>1, <3>1, <3>4, <3>5, <3>6, <1>UpdateObserved
  <2>. QED  BY <2>4, <2>5
\* The cache and the clock.
<1>AsideGuarded.
    ASSUME DInv, GC \/ Tick \/ UNCHANGED vars
    PROVE  Guarded' /\ Observed'
  <2>. USE <1>AsideGuarded
  <2>1. UNCHANGED <<dev, db, disk, pc, write, okSince, healthySince, proven>>
    BY DEF GC, Tick, storeVars, history, vars
  <2>2. now' \in Nat /\ now' >= now /\ dev'.bootID = dev.bootID
    <3>1. now \in Nat
      BY DeviceFacts DEF DInv
    <3>2. now' = now \/ now' = now + 1
      BY DEF GC, Tick, vars
    <3>. QED  BY <2>1, <3>1, <3>2, SMT
  <2>3. Guarded'
    BY <2>1 DEF DInv, Guarded, SafeWrite, SafePoint, SeenThisBoot
  <2>. QED  BY <2>1, <2>2, <2>3, <1>SameObserved
\* The steps that write the journal, and what the others leave on disk.
<1>DiskEntered.
    ASSUME DInv, [Next]_vars
    PROVE  Entered
  <2>. USE <1>DiskEntered
  <2>1. CASE WriteJournal \/ (\E a \in Assignments : Submit(a)) \/ Ack
             \/ NormalBootSeen \/ ConfirmBoot
    BY <2>1, <1>WriteGuarded, <1>SubmitGuarded, <1>AckGuarded, <1>BootCheckGuarded
  <2>2. CASE disk' = disk /\ (poisoned' = poisoned \/ poisoned' = FALSE)
    <3>1. poisoned' => poisoned
      BY <2>2, Zenon
    <3>2. disk'.bootCheck = disk.bootCheck /\ disk'.jobs = disk.jobs
      BY <2>2
    <3>. QED  BY <3>1, <3>2, Zenon DEF Entered
  <2>3. CASE UNCHANGED vars \/ Environment
    <3>1. CASE UNCHANGED vars
      BY <2>2, <3>1 DEF vars
    <3>2. CASE FlashDone \/ Tick
      BY <2>2, <3>2 DEF FlashDone, Tick, storeVars
    <3>3. CASE Restart \/ Boot
      BY <2>2, <3>3 DEF Restart, Boot, FreshProcess
    <3>. QED  BY <2>3, <3>1, <3>2, <3>3 DEF Environment
  <2>4. CASE Step
    BY <2>1, <2>2, <2>4, ZenonT(40) DEF Step, StepExpired, StepRejected, StepAccepted, StepDeferred,
       StepDownloaded, StepVerified, StepInstalling, StepAutoReboot, StepBooted,
       StepBootedAgain, StepHealthDeadline, StepUnhealthy, StepHealthy, StepMarkGood,
       StepRolledBack, StepMarkBad, NormalBootDeadline, NormalBootUnhealthy,
       NormalBootHealthy, storeVars
  <2>5. CASE Continue
    BY <2>1, <2>2, <2>5, ZenonT(40) DEF Continue, AbortActivate, AbortSave, ReplacePayload,
       PayloadCopied, PayloadFailed, PayloadsInPlace, PreinstallError, PreinstallRejected,
       BeginInstall, SimulatorInstall, InstallBundle, InstallCompleted, InstallError,
       Inspect, SaveCommitted, ActivateOldSlot, Reboot, RebootJob, ActivateFallback,
       storeVars
  <2>6. CASE Request
    BY <2>1, <2>2, <2>6 DEF Request, GC, RequestReboot, RecoverAbort, storeVars
  <2>. QED  BY <2>3, <2>4, <2>5, <2>6 DEF Next
\* What a step does to the device.
<1>DeviceStep.
    ASSUME DInv, [Next]_vars
    PROVE  Touched
  <2>. USE <1>DeviceStep DEF Touched
  <2>1. CASE \/ StepMarkBad \/ ActivateOldSlot \/ RecoverAbort \/ AbortActivate
             \/ NormalBootDeadline \/ ActivateFallback
    BY <2>1, <1>UnmarkGuarded
  <2>2. CASE StepMarkGood \/ NormalBootUnhealthy \/ NormalBootHealthy
    BY <2>2, <1>MarkGoodGuarded, <1>NormalGuarded DEF Unmarked
  <2>3. CASE SimulatorInstall \/ InstallBundle \/ FlashDone
    BY <2>3 DEF SimulatorInstall, InstallBundle, FlashDone
  <2>4. CASE Reboot \/ RebootJob \/ Boot
    <3>1. \/ dev' = dev \/ dev' = [dev EXCEPT !.rebooting = TRUE]
          \/ \E s \in BootChoices(dev) : dev' = BootedInto(dev, s)
      BY <2>4 DEF Reboot, RebootJob, Boot, Rebooted
    <3>2. BootChoices(dev) \subseteq Slots
      BY Types, DeviceTypes DEF DInv
    <3>. QED  BY <3>1, <3>2 DEF Unmarked
  <2>5. CASE dev' = dev
    BY <2>5 DEF Unmarked
  <2>6. CASE UNCHANGED vars \/ Environment \/ Request
    BY <2>1, <2>3, <2>4, <2>5, <2>6 DEF vars, Environment, Request, Tick, Restart, Submit, Ack, GC,
       RequestReboot
  <2>7. CASE Step
    BY <2>1, <2>2, <2>5, <2>7, ZenonT(40) DEF Step, StepExpired, StepRejected, StepAccepted,
       StepDeferred, StepDownloaded, StepVerified, StepInstalling, StepAutoReboot, StepBooted,
       StepBootedAgain, StepHealthDeadline, StepUnhealthy, StepHealthy, StepRolledBack,
       NormalBootSeen
  <2>8. CASE Continue
    BY <2>1, <2>3, <2>4, <2>5, <2>8, ZenonT(40) DEF Continue, WriteJournal, AbortSave,
       ReplacePayload, PayloadCopied, PayloadFailed, PayloadsInPlace, PreinstallError,
       PreinstallRejected, BeginInstall, InstallCompleted, InstallError, Inspect,
       SaveCommitted, ConfirmBoot
  <2>. QED  BY <2>6, <2>7, <2>8 DEF Next
<1>. SUFFICES ASSUME DInv, [Next]_vars
              PROVE  DInv' /\ Entered /\ Touched
  OBVIOUS
<1>1. Inv'
  BY NextInv DEF DInv
<1>2. Guarded' /\ Observed'
  <2>1. CASE Step
    BY <2>1, <1>WaitingGuarded, <1>InstalledGuarded, <1>RebootGuarded, <1>BootedGuarded,
       <1>HealthGuarded, <1>MarkGoodGuarded, <1>EndGuarded, <1>UnmarkGuarded, <1>BootCheckGuarded,
       <1>NormalGuarded DEF Step
  <2>2. CASE Continue
    BY <2>2, <1>WriteGuarded, <1>UnmarkGuarded, <1>EndGuarded, <1>PayloadGuarded, <1>BackendGuarded,
       <1>InstalledGuarded, <1>RebootGuarded, <1>BootCheckGuarded DEF Continue
  <2>3. CASE Request
    BY <2>3, <1>SubmitGuarded, <1>AckGuarded, <1>AsideGuarded, <1>RebootGuarded,
       <1>UnmarkGuarded DEF Request
  <2>4. CASE Environment
    BY <2>4, <1>FlashGuarded, <1>AsideGuarded, <1>FreshGuarded DEF Environment
  <2>5. CASE UNCHANGED vars
    BY <2>5, <1>AsideGuarded
  <2>. QED  BY <2>1, <2>2, <2>3, <2>4, <2>5 DEF Next
<1>. QED  BY <1>1, <1>2, <1>DiskEntered, <1>DeviceStep DEF DInv

\* While a job is under way its old slot holds the version it recorded, whatever
\* crashes, power losses, failed writes and repeated boots happen: neither a late
\* installer nor a later step writes the slot a rollback returns to.
THEOREM FallbackKept == Spec => []FallbackPreserved
<1>1. DInv => FallbackPreserved
  BY DEF DInv, Guarded, SafeAll, Safe, FallbackPreserved
<1>. QED  BY <1>1, InitDInv, NextDInv, PTL DEF Spec

\* A job with an image is recorded as committed only while its target runs the
\* version of the release, is marked good and has proved healthy in this boot, and as
\* rolled back only while the old version runs on the old slot.
THEOREM OutcomesProved == Spec => OutcomeEvidence
<1>. DEFINE Evidence ==
       \A id \in JobIDs :
          LET j == disk'.jobs[id] IN
            disk.jobs[id].state \notin Finished /\ disk'.jobs[id].asg.seq > 0 =>
              /\ j.state = "committed" /\ j.asg.os =>
                    RunsTarget(j) /\ GoodOf(dev, j.targetSlot) /\ proven
              /\ j.state = "rolled_back" =>
                    dev.booted = j.oldSlot /\ dev.version[j.oldSlot] = j.oldVersion
<1>1. ASSUME DInv, [Next]_vars PROVE [Evidence]_vars
  <2>. SUFFICES ASSUME NEW id \in JobIDs, disk.jobs[id].state \notin Finished
                PROVE  LET j == disk'.jobs[id] IN
                       /\ j.state = "committed" /\ j.asg.os =>
                             RunsTarget(j) /\ GoodOf(dev, j.targetSlot) /\ proven
                       /\ j.state = "rolled_back" =>
                             dev.booted = j.oldSlot /\ dev.version[j.oldSlot] = j.oldVersion
    BY Zenon
  <2>1. CASE disk'.jobs[id].state \notin {"committed", "rolled_back"}
    BY <2>1
  <2>2. CASE pc = "write" /\ disk'.jobs[id] = write.job
    <3>1. Outcome(write.job, dev, proven)
      BY <1>1, <2>2 DEF DInv, Guarded, SafeWrite
    <3>. QED  BY <2>2, <3>1 DEF Outcome, Proved, Returned, RunsTarget
  <2>3. \/ disk'.jobs[id] = disk.jobs[id]
        \/ pc = "write" /\ disk'.jobs[id] = write.job
        \/ disk'.jobs[id].state \in {"accepted", "absent"}
    BY <1>1, NextDInv DEF Entered
  <2>. QED  BY <2>1, <2>2, <2>3 DEF Finished
<1>. QED  BY <1>1, InitDInv, NextDInv, PTL DEF Spec, OutcomeEvidence

\* The agent marks a slot good only while that slot runs and after one process saw the
\* health checks hold through the stable period of this boot, also when a crash or a
\* failed write makes it repeat the call.
THEOREM GoodProved == Spec => MarkGoodProven
<1>. DEFINE Earned ==
       \A s \in Slots :
          dev.mark[s] # "good" /\ dev'.mark[s] = "good" => s = dev.booted /\ proven'
<1>1. ASSUME DInv, [Next]_vars PROVE [Earned]_vars
  <2>. SUFFICES ASSUME NEW s \in Slots, ~GoodOf(dev, s), GoodOf(dev', s)
                PROVE  s = dev.booted /\ proven'
    BY DEF GoodOf
  <2>1. dev \in DeviceState /\ dev.booted \in Slots
    BY <1>1, Types, DeviceFacts DEF DInv
  <2>2. dev' # [dev EXCEPT !.rebooting = TRUE]
    BY <2>1 DEF GoodOf, DeviceState
  <2>3. ~Unmarked
    BY <2>1, MarkSame, SMT DEF Unmarked
  <2>4. ~ \E v : dev' \in {Installed(dev, v), Flashing(dev, v), Flashed(dev), FlashFailed(dev)}
    BY <1>1, InstallMarks
  <2>5. ~ \E t \in Slots : dev' = BootedInto(dev, t)
    BY <2>1, BootedOther
  <2>6. dev' = Mark(dev, "good", dev.booted) /\ proven'
    BY <1>1, <2>2, <2>3, <2>4, <2>5, NextDInv, Zenon DEF Touched
  <2>7. s = dev.booted
    BY <2>1, <2>6, MarkSame
  <2>. QED  BY <2>6, <2>7
<1>. QED  BY <1>1, InitDInv, NextDInv, PTL DEF Spec, MarkGoodProven

-----------------------------------------------------------------------------
\* Confirmed boots

\* While no write fails, the boot on record is judged by no job: a target that runs
\* under a job has not been seen by confirmNormalBoot in this boot.
Unseen(j) ==
    j.state \in Underway /\ j.targetSlot = dev.booted => disk.bootCheck.bootID # dev.bootID

Confirmed ==
    /\ ~poisoned
    /\ ConfirmedIsGood
    /\ \A id \in JobIDs : Unseen(disk.jobs[id])

\* Every step keeps the confirmed boot good if no write can fail.
LEMMA NextConfirmed ==
    ASSUME "storage" \notin Faults, DInv, Confirmed, [Next]_vars
    PROVE  Confirmed'
\* A boot makes the one on record an earlier one.
<1>BootUnseen.
    ASSUME DInv, [Next]_vars, NEW s \in Slots, dev' = BootedInto(dev, s)
    PROVE  disk'.bootCheck.bootID # dev'.bootID
  <2>. USE <1>BootUnseen
  <2>1. /\ dev \in DeviceState /\ dev.bootID \in Nat /\ disk.bootCheck.bootID \in Nat
        /\ disk.bootCheck.bootID <= dev.bootID
    <3>1. dev \in DeviceState
      BY Types DEF DInv
    <3>2. dev.bootID \in Nat /\ disk.bootCheck.bootID \in Nat
      BY DeviceFacts DEF DInv
    <3>3. disk.bootCheck.bootID <= dev.bootID
      BY DEF DInv, Guarded, SafeAll
    <3>. QED  BY <3>1, <3>2, <3>3
  <2>2. dev'.bootID = dev.bootID + 1
    BY <2>1, BootedOther
  <2>3. dev' # dev /\ disk.bootCheck.bootID # dev'.bootID
    BY <2>1, <2>2, SMT
  <2>4. ~NormalBootSeen /\ ~ConfirmBoot
    BY <2>3 DEF NormalBootSeen, ConfirmBoot
  <2>5. disk'.bootCheck = disk.bootCheck
    BY <2>4, NextDInv DEF Entered
  <2>. QED  BY <2>3, <2>5
\* A step within a boot takes the mark of the running slot only if it is in doubt.
<1>RunningSlot.
    ASSUME DInv, [Next]_vars, \A s \in Slots : dev' # BootedInto(dev, s)
    PROVE  /\ dev'.bootID = dev.bootID /\ dev'.booted = dev.booted
           /\ GoodOf(dev, dev.booted) => GoodOf(dev', dev.booted) \/ Doubted(dev.booted)
  <2>. USE <1>RunningSlot
  <2>1. dev \in DeviceState /\ dev.booted \in Slots
    BY Types, DeviceFacts DEF DInv
  <2>2. CASE Unmarked
    <3>1. CASE dev' = dev
      BY <3>1
    <3>2. ASSUME NEW s \in Slots, NEW m \in {"active", "bad"}, dev' = Mark(dev, m, s)
          PROVE  /\ Same(dev, dev')
                 /\ GoodOf(dev, dev.booted) => GoodOf(dev', dev.booted) \/ (m = "bad" /\ dev.booted = s)
      BY <2>1, <3>2, MarkSame
    <3>3. ASSUME Same(dev, dev')
          PROVE  dev'.bootID = dev.bootID /\ dev'.booted = dev.booted
      BY <3>3 DEF Same
    <3>4. CASE \E s \in Slots : dev' = Mark(dev, "active", s)
      BY <3>2, <3>3, <3>4
    <3>5. CASE \E s \in Slots : dev' = Mark(dev, "bad", s) /\ Doubted(s)
      BY <3>2, <3>3, <3>5
    <3>. QED  BY <2>2, <3>1, <3>4, <3>5 DEF Unmarked
  <2>3. CASE dev' = [dev EXCEPT !.rebooting = TRUE]
    BY <2>1, <2>3 DEF GoodOf, DeviceState
  <2>4. CASE dev' = Mark(dev, "good", dev.booted)
    BY <2>1, <2>4, MarkSame DEF Same
  <2>5. CASE \E v : dev' \in {Installed(dev, v), Flashing(dev, v), Flashed(dev),
                              FlashFailed(dev)}
    BY <2>5, InstallMarks
  <2>. QED  BY <2>2, <2>3, <2>4, <2>5, NextDInv DEF Touched
\* The record that a save is about to write is in doubt only if the active job is.
<1>WriteUnseen.
    ASSUME DInv, Confirmed, pc = "write"
    PROVE  Unseen(write.job)
  <2>. USE <1>WriteUnseen
  <2>1. HasActive(db) /\ db = disk
    BY DEF DInv, Inv, Core, Writing, InStep, Confirmed
  <2>2. Active(db) = disk.jobs[db.active] /\ db.active \in JobIDs
    BY <2>1, ActiveSafe
  <2>3. /\ Safe(write.job, dev, proven)
        /\ write.next = "install" => write.job.oldSlot = dev.booted
        /\ write.job.state \in Underway /\ write.next # "install" =>
              Active(db).state \in Underway /\ write.job.targetSlot = Active(db).targetSlot
    BY DEF DInv, Guarded, SafeWrite
  <2>4. write.job.state \in Underway => write.job.oldSlot # write.job.targetSlot
    BY <2>3 DEF Safe
  <2>5. Unseen(disk.jobs[db.active])
    BY <2>2 DEF Confirmed
  <2>. QED  BY <2>2, <2>3, <2>4, <2>5 DEF Unseen
<1>1. Entered /\ Inv' /\ db = disk
  BY NextDInv, NextInv, Zenon DEF DInv, Confirmed, Inv, Core, InStep
<1>2. ~poisoned'
  BY <1>1, Zenon DEF Entered, Confirmed
<1>3. CASE \E s \in Slots : dev' = BootedInto(dev, s)
  <2>1. disk'.bootCheck.bootID # dev'.bootID
    BY <1>3, <1>BootUnseen
  <2>. QED  BY <1>2, <2>1 DEF Confirmed, ConfirmedIsGood, Unseen
<1>4. CASE \A s \in Slots : dev' # BootedInto(dev, s)
  <2>1. /\ dev'.bootID = dev.bootID /\ dev'.booted = dev.booted
        /\ GoodOf(dev, dev.booted) => GoodOf(dev', dev.booted) \/ Doubted(dev.booted)
    BY <1>4, <1>RunningSlot
  <2>2. disk.bootCheck.bootID = dev.bootID /\ disk.bootCheck.confirmed =>
            ~Doubted(dev.booted) /\ GoodOf(dev, dev.booted)
    BY <1>1 DEF Doubted, SeenThisBoot, Confirmed, ConfirmedIsGood, Unseen
  <2>3. CASE disk'.bootCheck = disk.bootCheck
    <3>1. ConfirmedIsGood'
      BY <2>1, <2>2, <2>3 DEF ConfirmedIsGood
    <3>2. ASSUME NEW id \in JobIDs
          PROVE  Unseen(disk.jobs[id])'
      <4>1. CASE disk'.jobs[id] = disk.jobs[id]
        BY <2>1, <2>3, <4>1 DEF Unseen, Confirmed
      <4>2. CASE pc = "write" /\ disk'.jobs[id] = write.job
        BY <2>1, <2>3, <4>2, <1>WriteUnseen DEF Unseen
      <4>3. CASE disk'.jobs[id].state \in {"accepted", "absent"}
        BY <4>3 DEF Unseen, Underway
      <4>. QED  BY <1>1, <4>1, <4>2, <4>3 DEF Entered
    <3>. QED  BY <1>2, <3>1, <3>2 DEF Confirmed
  <2>4. CASE NormalBootSeen
    <3>1. ~HasActive(db) /\ dev' = dev /\ db \in Database /\ WellFormed(db)
      BY <2>4, Types DEF NormalBootSeen, Confirming, DInv
    <3>. DEFINE b == [bootID |-> dev.bootID, started |-> now, confirmed |-> FALSE]
                e == [db EXCEPT !.bootCheck = b]
    <3>2. disk' = e \/ disk' = disk
      BY <2>4, Transaction DEF NormalBootSeen
    <3>3. e.jobs = db.jobs /\ ~e.bootCheck.confirmed
      BY <3>1 DEF Database
    <3>. HIDE DEF e
    <3>4. \A id \in JobIDs : disk.jobs[id].state \notin Underway
      BY <1>1, <3>1, UnderwayActive, JobsAssumption DEF HasActive
    <3>5. disk'.jobs = disk.jobs /\ (disk' = disk \/ ~disk'.bootCheck.confirmed)
      BY <1>1, <3>2, <3>3
    <3>. QED  BY <1>2, <2>3, <3>4, <3>5 DEF Confirmed, ConfirmedIsGood, Unseen
  <2>5. CASE ConfirmBoot
    <3>1. /\ pc = "confirm" /\ dev' = dev /\ db \in Database /\ GoodOf(dev, dev.booted)
      BY <2>5, Types DEF ConfirmBoot, DInv, Guarded, SafePoint
    <3>. DEFINE e == [db EXCEPT !.bootCheck.confirmed = TRUE]
    <3>2. disk' = e \/ disk' = disk
      BY <2>5, Transaction DEF ConfirmBoot
    <3>3. e.jobs = db.jobs /\ e.bootCheck.bootID = db.bootCheck.bootID
      BY <3>1 DEF Database, BootCheck
    <3>. HIDE DEF e
    <3>4. disk'.jobs = disk.jobs /\ disk'.bootCheck.bootID = disk.bootCheck.bootID
      BY <1>1, <3>2, <3>3
    <3>. QED  BY <1>2, <3>1, <3>4 DEF Confirmed, ConfirmedIsGood, Unseen
  <2>. QED  BY <1>1, <2>3, <2>4, <2>5 DEF Entered
<1>. QED  BY <1>3, <1>4

\* If no journal write fails, a boot on record as confirmed stays marked good for as
\* long as it lasts: neither the end of the window, nor a later job and its rollback,
\* takes the mark of the running slot away.
THEOREM ConfirmedStaysGood ==
    ASSUME "storage" \notin Faults
    PROVE  Spec => []ConfirmedIsGood
<1>1. Init => Confirmed
  <2>. SUFFICES ASSUME Init PROVE Confirmed
    OBVIOUS
  <2>1. ~poisoned
    BY Zenon DEF Init
  <2>2. disk.bootCheck.bootID # dev.bootID
    <3>1. disk = EmptyDatabase /\ dev = FactoryDevice
      BY Zenon DEF Init
    <3>2. EmptyDatabase.bootCheck.bootID = 0
      BY DEF EmptyDatabase
    <3>3. FactoryDevice.bootID = 1
      BY DEF FactoryDevice
    <3>. QED  BY <3>1, <3>2, <3>3, SMT
  <2>. QED  BY <2>1, <2>2 DEF Confirmed, ConfirmedIsGood, Unseen
<1>2. DInv /\ Confirmed /\ [Next]_vars => Confirmed'
  BY NextConfirmed
<1>3. Confirmed => ConfirmedIsGood
  BY DEF Confirmed
<1>. QED  BY <1>1, <1>2, <1>3, InitDInv, NextDInv, PTL DEF Spec
=============================================================================
