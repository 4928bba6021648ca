---------------------------- MODULE EngineProofs ----------------------------
(***************************************************************************)
(* Proofs about Engine, for every set of jobs and releases, every limit    *)
(* and any number of faults: the type invariant, that at most one          *)
(* installation is ever requested for a release, that a finished record    *)
(* stays as it is, that a verified job keeps its artifacts, and that what  *)
(* is on disk follows JobLifecycle.                                        *)
(*                                                                         *)
(* AtMostOneInstall says nothing about the journal, so it is not           *)
(* inductive.  The argument is: no release above the high-water mark on    *)
(* disk has been installed (Reserved); no release whose job still waits    *)
(* has been installed, in memory or on disk (Untouched); and when the      *)
(* backend is called the journal on disk says Installing (Holding).  The   *)
(* memory and the disk may differ once a write has failed (InStep), which  *)
(* is why Untouched is needed for both.                                    *)
(*                                                                         *)
(* For the journal: at each point of an operation the active job is in one *)
(* known state (PointState), and the record a save is about to write is a  *)
(* successor of it (WriteFollows).  A write that fails leaves the journal  *)
(* on disk at most one record ahead of memory, and nothing is written      *)
(* after it until a restart reads the disk back.                           *)
(***************************************************************************)
EXTENDS Engine, TLAPS

\* The prover of every leaf that names no other.
USE Zenon

\* The part of validateDatabase the argument rests on.
WellFormed(d) ==
    /\ \A id \in JobIDs :
          d.jobs[id].state # "absent" =>
              /\ d.jobs[id].asg \in Assignments
              /\ d.jobs[id].asg.job = id
              /\ d.jobs[id].asg.seq <= d.high
              /\ ~Terminal(d.jobs[id].state) => d.active = id
              /\ d.jobs[id].state \in Underway =>
                    d.jobs[id].oldSlot \in Slots /\ d.jobs[id].targetSlot \in Slots
    /\ HasActive(d) => Active(d).state \in Waiting \cup Underway

\* Memory and disk agree until a write has failed.
InStep == ~poisoned => db = disk

\* A release is not installed before its sequence number is reserved on disk.
Reserved == \A q \in SeqNumbers : q > disk.high => installs[q] = 0

\* A job that waits has not been installed.
Untouched(d) ==
    \A id \in JobIDs : d.jobs[id].state \in Waiting => installs[d.jobs[id].asg.seq] = 0

\* The record a save is about to write belongs to the active job.
Writing ==
    pc = "write" =>
        /\ HasActive(db)
        /\ write.id = db.active
        /\ write.job.asg = Active(db).asg
        /\ write.job.state \in States
        /\ write.job.state \in Underway =>
              write.job.oldSlot \in Slots /\ write.job.targetSlot \in Slots
        /\ write.job.state \in Waiting \cup {"installing"} =>
              installs[write.job.asg.seq] = 0
        /\ write.next \in {"idle", "install", "rebootJob"}
        /\ write.next = "install" => write.job.state = "installing"
        /\ write.next = "rebootJob" => write.job.state = "awaiting_reboot"

\* What the holder of the mutex knows of the active job at each point.
Holding ==
    /\ pc \in {"apply", "copy", "preinstall"} =>
          HasActive(db) /\ Active(db).state = "verified"
    /\ pc = "copy" => applying.cur \in Targets
    /\ pc = "install" =>
          /\ HasActive(db) /\ Active(db).state = "installing"
          /\ installs[Release.seq] = 0
          /\ disk.jobs = db.jobs /\ disk.active = db.active
    /\ pc \in {"flashing", "inspect", "commit", "rollback", "rebootJob", "abort",
               "aborted"} =>
          HasActive(db) /\ Active(db).state \in Underway

\* Everything but the types.
Core ==
    /\ WellFormed(db) /\ WellFormed(disk)
    /\ InStep
    /\ Reserved
    /\ Untouched(db) /\ Untouched(disk)
    /\ Writing
    /\ Holding
    /\ AtMostOneInstall

Inv == TypeOK /\ Core
-----------------------------------------------------------------------------
\* The device operators keep the type of the device.
LEMMA DeviceTypes ==
    ASSUME NEW d \in DeviceState
    PROVE  /\ Other(d) \in Slots
           /\ \A s \in Slots, m \in {"good", "bad", "active"} : Mark(d, m, s) \in DeviceState
           /\ \A v \in Versions : Installed(d, v) \in DeviceState
           /\ \A v \in Versions : Flashing(d, v) \in DeviceState
           /\ Flashed(d) \in DeviceState
           /\ FlashFailed(d) \in DeviceState
           /\ \A s \in Slots : BootedInto(d, s) \in DeviceState
           /\ BootChoices(d) \subseteq Slots
<1>1. Other(d) \in Slots
  BY DEF Other, Opposite, Slots
<1>2. ASSUME NEW s \in Slots, NEW m \in {"good", "bad", "active"}
      PROVE  Mark(d, m, s) \in DeviceState
  BY DEF Mark, DeviceState, Marks
<1>3. ASSUME NEW v \in Versions
      PROVE  Installed(d, v) \in DeviceState
  BY <1>1 DEF Installed, DeviceState, Marks
<1>4. ASSUME NEW v \in Versions
      PROVE  Flashing(d, v) \in DeviceState
  BY <1>1 DEF Flashing, DeviceState, Marks
<1>5. Flashed(d) \in DeviceState
  <2>1. d.bundle \in Versions
    BY DEF DeviceState
  <2>2. Installed(d, d.bundle) \in DeviceState
    BY <1>3, <2>1
  <2>. QED  BY <2>2 DEF Flashed, DeviceState
<1>6. FlashFailed(d) \in DeviceState
  BY DEF FlashFailed, DeviceState
<1>7. ASSUME NEW s \in Slots
      PROVE  BootedInto(d, s) \in DeviceState
  <2>. DEFINE m == IF Backend = "rauc" /\ s # d.primary THEN "bad" ELSE d.mark[d.primary]
              n == d.bootID + 1
  <2>1. m \in Marks /\ n \in Nat
    BY SMT DEF DeviceState, Marks
  <2>. DEFINE e == [d EXCEPT !.bootID = n, !.booted = s, !.primary = s]
              f == [e EXCEPT !.operation = "idle", !.rebooting = FALSE]
  <2>2. BootedInto(d, s) = [f EXCEPT !.mark[d.primary] = m]
    BY DEF BootedInto, DeviceState
  <2>. HIDE DEF m, n
  <2>3. e \in DeviceState
    BY <2>1 DEF DeviceState
  <2>. HIDE DEF e
  <2>4. f \in DeviceState
    BY <2>3 DEF DeviceState
  <2>. HIDE DEF f
  <2>. QED  BY <2>1, <2>2, <2>4, SMT DEF DeviceState
<1>8. BootChoices(d) \subseteq Slots
  BY DEF BootChoices, DeviceState
<1>. QED  BY <1>1, <1>2, <1>3, <1>4, <1>5, <1>6, <1>7, <1>8

\* The record of an active job: its assignment is a real one.
LEMMA ActiveJob ==
    ASSUME NEW d \in Database, WellFormed(d), HasActive(d)
    PROVE  /\ d.active \in JobIDs
           /\ Active(d) \in Job
           /\ Active(d).asg \in Assignments
           /\ Active(d).asg \in Assignment
           /\ Active(d).asg.job = d.active
           /\ Active(d).asg.seq \in SeqNumbers
           /\ Active(d).asg.seq <= d.high
           /\ Active(d).state \in Waiting \cup Underway
           /\ Active(d).state \in Underway =>
                 Active(d).oldSlot \in Slots /\ Active(d).targetSlot \in Slots
<1>1. d.active \in JobIDs /\ Active(d) \in Job
  BY DEF HasActive, Active, Database
<1>2. Active(d).state \in Waiting \cup Underway
  BY DEF WellFormed
<1>3. Active(d).state # "absent"
  BY <1>2 DEF Waiting, Underway
<1>. QED  BY <1>1, <1>2, <1>3, AssignmentsAssumption DEF WellFormed, Active, SeqNumbers

\* save replaces the record of the active job.
LEMMA RecordedOK ==
    ASSUME NEW d \in Database, WellFormed(d), HasActive(d),
           NEW j \in Job, j.state \in States, j.asg = Active(d).asg,
           j.state \in Underway => j.oldSlot \in Slots /\ j.targetSlot \in Slots
    PROVE  /\ Recorded(d, d.active, j) \in Database
           /\ WellFormed(Recorded(d, d.active, j))
           /\ Recorded(d, d.active, j).high = d.high
           /\ Recorded(d, d.active, j).jobs = [d.jobs EXCEPT ![d.active] = j]
           /\ ~Terminal(j.state) => Recorded(d, d.active, j).active = d.active
<1>. DEFINE e == Recorded(d, d.active, j)
            act == IF Terminal(j.state) THEN "" ELSE d.active
            jobs == [d.jobs EXCEPT ![d.active] = j]
            events == d.outbox + 1
<1>1. act \in JobIDs \cup {""} /\ jobs \in [JobIDs -> Job] /\ events \in Nat
  <2>1. d.outbox \in Nat
    BY DEF Database
  <2>2. act \in JobIDs \cup {""} /\ jobs \in [JobIDs -> Job]
    BY DEF Database
  <2>3. events \in Nat
    BY <2>1, SMT
  <2>. QED  BY <2>2, <2>3
<1>. DEFINE g == [[d EXCEPT !.jobs = jobs] EXCEPT !.active = act]
<1>2. e = [g EXCEPT !.outbox = events]
  <2>1. g.outbox = d.outbox
    BY DEF Database
  <2>2. e = [g EXCEPT !.outbox = g.outbox + 1]
    BY DEF Recorded, AddEvent, Database
  <2>. QED  BY <2>1, <2>2
<1>. HIDE DEF e, act, jobs, events
<1>3. e \in Database /\ e.high = d.high /\ e.jobs = jobs /\ e.active = act
  BY <1>1, <1>2 DEF Database
<1>4. d.active \in JobIDs /\ d.jobs \in [JobIDs -> Job]
  BY ActiveJob DEF Database
<1>5. WellFormed(e)
  <2>1. ASSUME NEW id \in JobIDs, e.jobs[id].state # "absent"
        PROVE  /\ e.jobs[id].asg \in Assignments
               /\ e.jobs[id].asg.job = id
               /\ e.jobs[id].asg.seq <= e.high
               /\ ~Terminal(e.jobs[id].state) => e.active = id
               /\ e.jobs[id].state \in Underway =>
                     e.jobs[id].oldSlot \in Slots /\ e.jobs[id].targetSlot \in Slots
    <3>1. CASE id = d.active
      <4>1. e.jobs[id] = j
        BY <3>1, <1>3, <1>4 DEF jobs
      <4>2. /\ j.asg \in Assignments /\ j.asg.job = id /\ j.asg.seq <= d.high
        BY <3>1, ActiveJob
      <4>3. ~Terminal(j.state) => e.active = id
        BY <3>1, <1>3 DEF act
      <4>. QED  BY <4>1, <4>2, <4>3, <1>3
    <3>2. CASE id # d.active
      <4>1. e.jobs[id] = d.jobs[id]
        BY <3>2, <1>3, <1>4 DEF jobs
      <4>. QED  BY <4>1, <3>2, <2>1, <1>3 DEF WellFormed, act
    <3>. QED  BY <3>1, <3>2
  <2>2. HasActive(e) => Active(e).state \in Waiting \cup Underway
    BY <1>3, <1>4 DEF HasActive, Active, Terminal, States, jobs, act
  <2>. QED  BY <2>1, <2>2 DEF WellFormed
<1>. QED  BY <1>3, <1>5 DEF e, jobs, act

\* A submission makes its job the active one.
LEMMA AcceptedOK ==
    ASSUME NEW d \in Database, WellFormed(d), ~HasActive(d),
           NEW a \in Assignments, a.seq > d.high
    PROVE  /\ Accepted(d, a) \in Database
           /\ WellFormed(Accepted(d, a))
           /\ Accepted(d, a).high = a.seq
           /\ Accepted(d, a).active = a.job
           /\ Accepted(d, a).jobs = [d.jobs EXCEPT ![a.job] = NewJob(a)]
           /\ a.job \in JobIDs
<1>. DEFINE e == Accepted(d, a)
            jobs == [d.jobs EXCEPT ![a.job] = NewJob(a)]
            events == d.outbox + 1
<1>1. a.job \in JobIDs /\ a.seq \in Nat
  BY AssignmentsAssumption DEF Assignment
<1>2. NewJob(a) \in Job /\ NewJob(a).asg = a /\ NewJob(a).state = "accepted"
  BY DEF NewJob, NoJob, Job, States, Waiting
<1>3. d.high \in Nat /\ d.outbox \in Nat
  BY DEF Database
<1>4. events \in Nat
  BY <1>3, SMT
<1>5. d.jobs \in [JobIDs -> Job]
  BY DEF Database
<1>6. jobs \in [JobIDs -> Job]
  BY <1>2, <1>5
<1>. DEFINE g == [[[d EXCEPT !.high = a.seq] EXCEPT !.active = a.job] EXCEPT !.jobs = jobs]
<1>7. e = [g EXCEPT !.outbox = events]
  <2>1. g.outbox = d.outbox
    BY DEF Database
  <2>2. e = [g EXCEPT !.outbox = g.outbox + 1]
    BY DEF Accepted, AddEvent, Database
  <2>. QED  BY <2>1, <2>2
<1>. HIDE DEF e, jobs, events
<1>8. e \in Database /\ e.high = a.seq /\ e.active = a.job /\ e.jobs = jobs
  BY <1>1, <1>4, <1>6, <1>7 DEF Database
<1>. HIDE DEF g
<1>9. ASSUME NEW id \in JobIDs, e.jobs[id].state # "absent"
      PROVE  /\ e.jobs[id].asg \in Assignments
             /\ e.jobs[id].asg.job = id
             /\ e.jobs[id].asg.seq <= e.high
             /\ ~Terminal(e.jobs[id].state) => e.active = id
             /\ e.jobs[id].state \in Underway =>
                   e.jobs[id].oldSlot \in Slots /\ e.jobs[id].targetSlot \in Slots
  <2>1. CASE id = a.job
    <3>1. e.jobs[id] = NewJob(a)
      BY <2>1, <1>1, <1>5, <1>8 DEF jobs
    <3>2. e.jobs[id].state \notin Underway
      BY <3>1, <1>2 DEF Underway
    <3>. QED  BY <2>1, <3>1, <3>2, <1>1, <1>2, <1>8, SMT
  <2>2. CASE id # a.job
    <3>1. e.jobs[id] = d.jobs[id]
      BY <2>2, <1>5, <1>8 DEF jobs
    <3>2. /\ d.jobs[id].asg \in Assignments
          /\ d.jobs[id].asg.job = id
          /\ d.jobs[id].asg.seq <= d.high
          /\ ~Terminal(d.jobs[id].state) => d.active = id
          /\ d.jobs[id].state \in Underway =>
                d.jobs[id].oldSlot \in Slots /\ d.jobs[id].targetSlot \in Slots
      BY <1>9, <3>1 DEF WellFormed
    <3>3. Terminal(d.jobs[id].state)
      BY <3>2, JobsAssumption DEF HasActive
    <3>4. d.jobs[id].asg.seq \in Nat
      BY <3>2, AssignmentsAssumption DEF Assignment
    <3>5. d.jobs[id].asg.seq <= e.high
      BY <3>2, <3>4, <1>1, <1>3, <1>8, SMT
    <3>. QED  BY <3>1, <3>2, <3>3, <3>5
  <2>. QED  BY <2>1, <2>2
<1>10. Active(e).state \in Waiting
  BY <1>1, <1>2, <1>5, <1>8 DEF Active, jobs, Waiting
<1>. QED  BY <1>1, <1>8, <1>9, <1>10 DEF WellFormed, e, jobs

\* compactHot takes a finished job out of the journal.
LEMMA WithoutOK ==
    ASSUME NEW d \in Database, WellFormed(d), NEW id \in Oldest(d)
    PROVE  /\ Without(d, id) \in Database
           /\ WellFormed(Without(d, id))
           /\ Without(d, id).high = d.high
           /\ Without(d, id).active = d.active
           /\ Without(d, id).jobs = [d.jobs EXCEPT ![id] = NoJob]
           /\ id \in JobIDs
<1>. DEFINE e == Without(d, id)
<1>1. id \in JobIDs /\ id # d.active
  BY DEF Oldest, Hot
<1>2. NoJob \in Job /\ NoJob.state = "absent"
  BY DEF NoJob, Job
<1>3. d.jobs \in [JobIDs -> Job]
  BY DEF Database
<1>4. [d.jobs EXCEPT ![id] = NoJob] \in [JobIDs -> Job]
  BY <1>2, <1>3
<1>5. /\ e \in Database /\ e.high = d.high /\ e.active = d.active
      /\ e.jobs = [d.jobs EXCEPT ![id] = NoJob]
  BY <1>4 DEF Without, Database
<1>. HIDE DEF e
<1>6. \A other \in JobIDs : other # id => e.jobs[other] = d.jobs[other]
  BY <1>3, <1>5
<1>7. e.jobs[id].state = "absent"
  BY <1>1, <1>2, <1>3, <1>5
<1>8. HasActive(e) => Active(e) = Active(d) /\ HasActive(d)
  <2>1. d.active \in JobIDs \cup {""}
    BY DEF Database
  <2>. QED  BY <2>1, <1>1, <1>5, <1>6 DEF HasActive, Active
<1>9. WellFormed(e)
  BY <1>5, <1>6, <1>7, <1>8 DEF WellFormed
<1>. QED  BY <1>1, <1>5, <1>9 DEF e

-----------------------------------------------------------------------------

\* The types of the variables that most steps leave alone.
LEMMA Types ==
    ASSUME Inv
    PROVE  /\ now \in Nat /\ dev \in DeviceState /\ losses \in Nat
           /\ payload \in [Targets -> [current : Content, previous : Content]]
           /\ applying \in [done : SUBSET Targets, cur : Targets \cup {""}]
           /\ NotApplying \in [done : SUBSET Targets, cur : Targets \cup {""}]
           /\ cache \subseteq SeqNumbers
           /\ healthySince \in Nat /\ okSince \in Nat /\ proven \in BOOLEAN
           /\ db \in Database /\ WellFormed(db)
BY DEF Inv, TypeOK, Core, NotApplying

-----------------------------------------------------------------------------

-----------------------------------------------------------------------------

\* The outbox and the boot check play no part in the argument.
LEMMA SideFields ==
    ASSUME NEW d \in Database, WellFormed(d)
    PROVE  /\ \A n \in Nat :
                 LET e == [d EXCEPT !.outbox = n] IN
                 /\ e \in Database /\ WellFormed(e)
                 /\ e.high = d.high /\ e.jobs = d.jobs /\ e.active = d.active
           /\ \A b \in BootCheck :
                 LET e == [d EXCEPT !.bootCheck = b] IN
                 /\ e \in Database /\ WellFormed(e)
                 /\ e.high = d.high /\ e.jobs = d.jobs /\ e.active = d.active
<1>1. ASSUME NEW e \in Database, e.high = d.high, e.jobs = d.jobs, e.active = d.active
      PROVE  WellFormed(e)
  BY <1>1 DEF WellFormed, HasActive, Active
<1>2. ASSUME NEW n \in Nat
      PROVE  LET e == [d EXCEPT !.outbox = n] IN
             e \in Database /\ e.high = d.high /\ e.jobs = d.jobs /\ e.active = d.active
  BY DEF Database
<1>3. ASSUME NEW b \in BootCheck
      PROVE  LET e == [d EXCEPT !.bootCheck = b] IN
             e \in Database /\ e.high = d.high /\ e.jobs = d.jobs /\ e.active = d.active
  BY DEF Database
<1>. QED  BY <1>1, <1>2, <1>3

-----------------------------------------------------------------------------
\* The factory state.
LEMMA InitInv ==
    ASSUME Init
    PROVE  Inv
<1>1. NoJob \in Job /\ NoJob.state = "absent"
  BY DEF NoJob, Job
<1>2. EmptyDatabase \in Database /\ WellFormed(EmptyDatabase)
  BY <1>1 DEF EmptyDatabase, Database, BootCheck, WellFormed, HasActive
<1>3. FactoryDevice \in DeviceState
  BY DeviceAssumption DEF FactoryDevice, DeviceState, Slots, Marks
<1>4. \A id \in JobIDs : EmptyDatabase.jobs[id].state \notin Waiting
  BY <1>1 DEF EmptyDatabase, Waiting
<1>5. Core
  <2>1. \A q \in SeqNumbers : installs[q] = 0
    BY DEF Init
  <2>2. Reserved /\ AtMostOneInstall
    BY <2>1, SMT DEF Reserved, AtMostOneInstall
  <2>3. Untouched(db) /\ Untouched(disk)
    BY <1>4 DEF Init, Untouched
  <2>4. InStep /\ Writing /\ Holding
    BY DEF Init, InStep, Writing, Holding
  <2>. QED  BY <1>2, <2>2, <2>3, <2>4 DEF Init, Core
<1>6. payload \in [Targets -> [current : Content, previous : Content]]
  BY DeviceAssumption DEF Init, Content
<1>7. TypeOK
  <2>1. NoWrite.files \in [Targets -> [current : Content, previous : Content]]
    BY DEF NoWrite, Content
  <2>. QED  BY <1>1, <1>2, <1>3, <1>6, <2>1 DEF Init, TypeOK, PCs, NoWrite, NotApplying
<1>. QED  BY <1>5, <1>7 DEF Inv

\* Every step keeps the invariant.
LEMMA NextInv == Inv /\ [Next]_vars => Inv'
\* What a job's save does to the payload files keeps their type.
<1>FilesTypes.
    ASSUME TypeOK, NEW j, NEW state, NEW targets
    PROVE  /\ Restored(payload, targets) \in [Targets -> [current : Content, previous : Content]]
           /\ FilesAfter(j, state) \in [Targets -> [current : Content, previous : Content]]
  <2>. USE <1>FilesTypes
  <2>1. "" \in Content
    BY DEF Content
  <2>2. \A t \in Targets : payload[t] \in [current : Content, previous : Content]
    BY DEF TypeOK
  <2>3. \A which : Restored(payload, which) \in [Targets -> [current : Content, previous : Content]]
    BY <2>1, <2>2 DEF Restored
  <2>4. \A which : Kept(payload, which) \in [Targets -> [current : Content, previous : Content]]
    BY <2>1, <2>2 DEF Kept
  <2>. QED  BY <2>3, <2>4 DEF FilesAfter, TypeOK
\* Journal and history stay: the rest of Core is about the holder of the mutex.
<1>Steady.
    ASSUME Inv, UNCHANGED <<db, disk, poisoned, installs>>, Writing', Holding'
    PROVE  Core'
  BY <1>Steady DEF Inv, Core, InStep, Reserved, Untouched, AtMostOneInstall
\* The start of a save.
<1>SaveStep.
    ASSUME Inv, NEW j \in Job, NEW state \in States,
           NEW next \in {"idle", "install", "rebootJob"},
           HasActive(db), j.asg = Active(db).asg,
           state \in Underway => j.oldSlot \in Slots /\ j.targetSlot \in Slots,
           state \in Waiting \cup {"installing"} => Active(db).state \in Waiting,
           next = "install" => state = "installing",
           next = "rebootJob" => state = "awaiting_reboot",
           SaveRecord(j, state, next), UNCHANGED <<storeVars, installs>>
    PROVE  /\ Core'
           /\ pc' \in PCs
           /\ write' \in [id : JobIDs \cup {""}, job : Job, next : PCs,
                          files : [Targets -> [current : Content, previous : Content]]]
  <2>. USE <1>SaveStep
  <2>. DEFINE time == IF Terminal(state) THEN now ELSE j.updated
              rec == [j EXCEPT !.state = state, !.updated = time]
  <2>1. time \in Nat
    BY DEF Inv, TypeOK, Job
  <2>2. /\ write' = [id |-> j.asg.job, job |-> rec, next |-> next, files |-> payload]
        /\ pc' = "write"
    BY DEF SaveRecord, Job
  <2>. HIDE DEF time
  <2>3. /\ rec \in Job /\ rec.asg = j.asg /\ rec.state = state
        /\ rec.oldSlot = j.oldSlot /\ rec.targetSlot = j.targetSlot
    BY <2>1 DEF Job
  <2>. HIDE DEF rec
  <2>4. /\ db.active \in JobIDs /\ Active(db).asg.job = db.active
        /\ db' = db /\ disk' = disk /\ poisoned' = poisoned /\ installs' = installs
    BY ActiveJob DEF Inv, Core, TypeOK, storeVars
  <2>5. pc' \in PCs
    BY <2>2 DEF PCs
  <2>6. write' \in [id : JobIDs \cup {""}, job : Job, next : PCs,
                    files : [Targets -> [current : Content, previous : Content]]]
    BY <2>2, <2>3, <2>4, Types DEF PCs
  <2>7. Active(db).state \in Waiting => installs[Active(db).asg.seq] = 0
    BY <2>4 DEF Inv, Core, Untouched, Active
  <2>8. Writing'
    <3>1. /\ write'.id = db.active /\ write'.job = rec /\ write'.next = next
      BY <2>2, <2>4
    <3>2. HasActive(db') /\ Active(db') = Active(db)
      BY <2>4
    <3>. QED  BY <3>1, <3>2, <2>3, <2>4, <2>7 DEF Writing
  <2>9. Holding'
    BY <2>2 DEF Holding
  <2>. QED  BY <2>4, <2>5, <2>6, <2>8, <2>9, <1>Steady
\* A transaction of the journal.
<1>UpdateStep.
    ASSUME Inv, NEW d \in Database, WellFormed(d), NEW arc \in [JobIDs -> Job],
           NEW next \in PCs, Update(d, arc, next), installs' = installs,
           ~poisoned => d.high >= disk.high /\ Untouched(d)
    PROVE  /\ db' \in Database /\ disk' \in Database /\ archive' \in [JobIDs -> Job]
           /\ poisoned' \in BOOLEAN /\ pc' \in PCs
           /\ WellFormed(db') /\ WellFormed(disk')
           /\ InStep' /\ Reserved' /\ Untouched(db)' /\ Untouched(disk)'
           /\ AtMostOneInstall'
  <2>. USE <1>UpdateStep
  <2>1. AtMostOneInstall'
    BY DEF Inv, Core, AtMostOneInstall
  <2>2. \A q \in SeqNumbers : q \in Nat
    BY AssignmentsAssumption DEF SeqNumbers, Assignment
  <2>3. d.high \in Nat /\ disk.high \in Nat
    BY DEF Inv, TypeOK, Database
  <2>4. /\ db \in Database /\ disk \in Database /\ archive \in [JobIDs -> Job]
        /\ poisoned \in BOOLEAN /\ WellFormed(db) /\ WellFormed(disk)
        /\ InStep /\ Reserved /\ Untouched(db) /\ Untouched(disk)
    BY DEF Inv, TypeOK, Core
  <2>5. ~poisoned => \A q \in SeqNumbers : q > d.high => installs[q] = 0
    BY <2>2, <2>3, <2>4, SMT DEF Reserved
  <2>6. CASE /\ ~poisoned
             /\ db' = d /\ disk' = d /\ archive' = arc
             /\ pc' = next
             /\ UNCHANGED poisoned
    BY <2>1, <2>4, <2>5, <2>6 DEF InStep, Reserved, Untouched
  <2>7. CASE /\ ~poisoned
             /\ disk' = d /\ archive' = arc
             /\ poisoned' = TRUE
             /\ pc' = "idle"
             /\ UNCHANGED db
    BY <2>1, <2>4, <2>5, <2>7 DEF InStep, Reserved, Untouched, PCs
  <2>8. CASE /\ ~poisoned
             /\ UNCHANGED <<disk, archive>>
             /\ poisoned' = TRUE
             /\ pc' = "idle"
             /\ UNCHANGED db
    BY <2>1, <2>4, <2>8 DEF InStep, Reserved, Untouched, PCs
  <2>9. CASE /\ poisoned
             /\ pc' = "idle"
             /\ UNCHANGED storeVars
    BY <2>1, <2>4, <2>9 DEF InStep, Reserved, Untouched, PCs, storeVars
  <2>. QED  BY <2>6, <2>7, <2>8, <2>9 DEF Update
\* A step that begins a save keeps the invariant.
<1>SaveInv.
    ASSUME Inv, NEW j \in Job, NEW state \in States,
           NEW next \in {"idle", "install", "rebootJob"},
           HasActive(db), j.asg = Active(db).asg,
           state \in Underway => j.oldSlot \in Slots /\ j.targetSlot \in Slots,
           state \in Waiting \cup {"installing"} => Active(db).state \in Waiting,
           next = "install" => state = "installing",
           next = "rebootJob" => state = "awaiting_reboot",
           SaveRecord(j, state, next),
           payload' \in [Targets -> [current : Content, previous : Content]],
           applying' \in [done : SUBSET Targets, cur : Targets \cup {""}],
           cache' \subseteq SeqNumbers,
           healthySince' \in Nat, okSince' \in Nat, proven' \in BOOLEAN,
           UNCHANGED <<now, dev, storeVars, losses, installs>>
    PROVE  Inv'
  <2>. USE <1>SaveInv
  <2>1. /\ Core'
        /\ pc' \in PCs
        /\ write' \in [id : JobIDs \cup {""}, job : Job, next : PCs,
                       files : [Targets -> [current : Content, previous : Content]]]
    <3>1. UNCHANGED <<storeVars, installs>>
      OBVIOUS
    <3>. QED  BY <3>1, <1>SaveStep, ZenonT(30)
  <2>2. /\ now \in Nat /\ dev \in DeviceState /\ db \in Database /\ disk \in Database
        /\ archive \in [JobIDs -> Job] /\ poisoned \in BOOLEAN /\ losses \in Nat
        /\ installs \in [SeqNumbers -> Nat]
    BY DEF Inv, TypeOK
  <2>3. UNCHANGED <<now, dev, db, disk, archive, poisoned, losses, installs>>
    BY DEF storeVars
  <2>4. TypeOK'
    BY <2>1, <2>2, <2>3 DEF TypeOK
  <2>. QED  BY <2>1, <2>4 DEF Inv
\* The saves of a job as it stands: it moves on or finishes.
<1>PlainSave.
    ASSUME Inv, HasActive(db),
           NEW state \in States, state \notin Waiting \cup {"installing"},
           state \in Underway => Active(db).state \in Underway,
           BeginSave(Active(db), state, "idle"),
           healthySince' \in Nat, okSince' \in Nat, proven' \in BOOLEAN,
           UNCHANGED <<now, dev, storeVars, applying, cache, losses, installs>>
    PROVE  Inv'
  <2>. USE <1>PlainSave
  <2>. DEFINE j == Active(db)
  <2>1. /\ j \in Job
        /\ j.state \in Underway => j.oldSlot \in Slots /\ j.targetSlot \in Slots
    BY ActiveJob DEF Inv, TypeOK, Core
  <2>2. payload' \in [Targets -> [current : Content, previous : Content]]
    BY <1>FilesTypes DEF Inv, BeginSave
  <2>3. SaveRecord(j, state, "idle")
    BY DEF BeginSave
  <2>4. /\ applying' \in [done : SUBSET Targets, cur : Targets \cup {""}]
        /\ cache' \subseteq SeqNumbers
    BY DEF Inv, TypeOK
  <2>. HIDE DEF j
  <2>. QED  BY <2>1, <2>2, <2>3, <2>4, <1>SaveInv DEF j
\* A step of the holder of the mutex that leaves journal and history alone.
<1>MoveInv.
    ASSUME Inv, pc' \in PCs, pc' # "write", Holding',
           dev' \in DeviceState, now' \in Nat,
           payload' \in [Targets -> [current : Content, previous : Content]],
           applying' \in [done : SUBSET Targets, cur : Targets \cup {""}],
           cache' \subseteq SeqNumbers, losses' \in Nat,
           healthySince' \in Nat, okSince' \in Nat, proven' \in BOOLEAN,
           UNCHANGED <<storeVars, write, installs>>
    PROVE  Inv'
  <2>. USE <1>MoveInv
  <2>1. Writing'
    BY DEF Writing
  <2>2. UNCHANGED <<db, disk, poisoned, installs>>
    BY DEF storeVars
  <2>3. Core'
    BY <2>1, <2>2, <1>Steady
  <2>4. TypeOK'
    BY DEF Inv, TypeOK, storeVars
  <2>. QED  BY <2>3, <2>4 DEF Inv
\* Step while the job waits.
<1>WaitingInv.
    ASSUME Inv,
           \/ StepExpired \/ StepRejected \/ StepAccepted \/ StepDeferred
           \/ StepDownloaded \/ StepVerified
    PROVE  Inv'
  <2>. USE <1>WaitingInv
  <2>. DEFINE j == Active(db)
  <2>1. /\ pc = "idle" /\ HasActive(db) /\ j.state \in Waiting
    BY DEF StepExpired, StepRejected, StepAccepted, StepDeferred, StepDownloaded,
           StepVerified, Stepping, Waiting
  <2>2. j \in Job /\ j.asg.seq \in SeqNumbers
    BY <2>1, Types, ActiveJob
  <2>3. CASE StepExpired \/ StepRejected
    <3>1. /\ BeginSave(Active(db), "failed", "idle")
          /\ UNCHANGED <<now, dev, storeVars, applying, cache, healthySince, losses, history>>
      BY <2>3 DEF StepExpired, StepRejected
    <3>2. /\ healthySince' \in Nat /\ okSince' \in Nat /\ proven' \in BOOLEAN
          /\ UNCHANGED <<now, dev, storeVars, applying, cache, losses, installs>>
      BY <3>1, Types DEF history
    <3>3. /\ "failed" \in States /\ "failed" \notin Waiting \cup {"installing"}
          /\ "failed" \notin Underway
      BY DEF States, Waiting, Underway, Finished
    <3>. QED  BY <2>1, <3>1, <3>2, <3>3, <1>PlainSave
  <2>4. ASSUME NEW k \in Job, k.asg = j.asg, NEW state \in {"downloading", "verified"},
               BeginSave(k, state, "idle"), cache' \subseteq SeqNumbers,
               UNCHANGED <<now, dev, storeVars, applying, healthySince, losses, history>>
        PROVE  Inv'
    <3>1. payload' \in [Targets -> [current : Content, previous : Content]]
      BY <2>4, <1>FilesTypes DEF Inv, BeginSave
    <3>2. SaveRecord(k, state, "idle")
      BY <2>4 DEF BeginSave
    <3>3. /\ applying' \in [done : SUBSET Targets, cur : Targets \cup {""}]
          /\ healthySince' \in Nat /\ okSince' \in Nat /\ proven' \in BOOLEAN
          /\ UNCHANGED <<now, dev, storeVars, losses, installs>>
      BY <2>4, Types DEF history
    <3>4. state \in States /\ state \notin Underway
      BY DEF States, Waiting, Underway
    <3>. QED  BY <2>1, <2>4, <3>1, <3>2, <3>3, <3>4, <1>SaveInv
  <2>5. CASE StepAccepted
    <3>1. Armed(j) \in Job /\ Armed(j).asg = j.asg
      <4>1. now + Jitter \in Nat
        <5>1. now \in Nat
          BY Types
        <5>. QED  BY <5>1, EngineAssumption, SMT
      <4>2. \A n \in Nat : /\ [j EXCEPT !.downloadAfter = n] \in Job
                           /\ [j EXCEPT !.downloadAfter = n].asg = j.asg
        BY <2>2 DEF Job
      <4>. HIDE DEF j
      <4>. QED  BY <2>2, <4>1, <4>2 DEF Armed
    <3>2. /\ BeginSave(Armed(j), "downloading", "idle")
          /\ UNCHANGED <<now, dev, storeVars, applying, cache, healthySince, losses, history>>
      BY <2>5 DEF StepAccepted
    <3>. QED  BY <3>1, <3>2, <2>4, Types
  <2>6. CASE StepDeferred
    <3>1. /\ [j EXCEPT !.deferred = TRUE] \in Job
          /\ [j EXCEPT !.deferred = TRUE].asg = j.asg
      BY <2>2 DEF Job
    <3>2. /\ BeginSave([j EXCEPT !.deferred = TRUE], "downloading", "idle")
          /\ UNCHANGED <<now, dev, storeVars, applying, cache, healthySince, losses, history>>
      BY <2>6 DEF StepDeferred
    <3>. QED  BY <3>1, <3>2, <2>4, Types
  <2>7. CASE StepDownloaded
    <3>1. /\ [j EXCEPT !.deferred = FALSE] \in Job
          /\ [j EXCEPT !.deferred = FALSE].asg = j.asg
      BY <2>2 DEF Job
    <3>2. /\ BeginSave([j EXCEPT !.deferred = FALSE], "verified", "idle")
          /\ cache' = cache \cup {j.asg.seq}
          /\ UNCHANGED <<now, dev, storeVars, applying, healthySince, losses, history>>
      BY <2>7 DEF StepDownloaded, Fetched
    <3>3. cache' \subseteq SeqNumbers
      BY <3>2, <2>2, Types
    <3>. QED  BY <3>1, <3>2, <3>3, <2>4
  <2>8. CASE StepVerified
    <3>1. /\ j.state = "verified" /\ pc' = "apply" /\ applying' = NotApplying
          /\ UNCHANGED <<now, dev, storeVars, write, payload, cache, healthySince,
                         losses, history>>
      BY <2>8 DEF StepVerified, Stepping
    <3>2. Holding'
      BY <3>1, <2>1 DEF Holding, storeVars
    <3>. QED  BY <3>1, <3>2, Types, <1>MoveInv DEF history, PCs
  <2>. QED  BY <2>3, <2>5, <2>6, <2>7, <2>8
\* applySidePayloads and the checks before an installation.
<1>PayloadInv.
    ASSUME Inv,
           \/ \E t \in Targets : ReplacePayload(t)
           \/ PayloadCopied \/ PayloadFailed \/ PayloadsInPlace \/ PreinstallError
           \/ PreinstallRejected \/ BeginInstall
    PROVE  Inv'
  <2>. USE <1>PayloadInv
  <2>. DEFINE j == Active(db)
  <2>1. /\ pc \in {"apply", "copy", "preinstall"}
        /\ HasActive(db) /\ j.state = "verified"
        /\ pc = "copy" => applying.cur \in Targets
    BY DEF Inv, Core, Holding, ReplacePayload, PayloadCopied, PayloadFailed,
           PayloadsInPlace, PreinstallError, PreinstallRejected, BeginInstall
  <2>2. /\ j \in Job /\ j.asg.version \in Content
    BY <2>1, Types, ActiveJob DEF Assignment, Content
  <2>3. /\ WithPayloads \in Job /\ WithPayloads.asg = j.asg
    BY <2>2 DEF WithPayloads, Job
  <2>4. ASSUME NEW t \in Targets, ReplacePayload(t)
        PROVE  Inv'
    <3>1. PICK partial \in {"", "torn"} :
              payload' = [payload EXCEPT ![t] =
                             [current |-> partial,
                              previous |-> IF @.current # "" THEN @.current ELSE @.previous]]
      BY <2>4 DEF ReplacePayload
    <3>2. payload' \in [Targets -> [current : Content, previous : Content]]
      BY <3>1, Types DEF Content
    <3>3. /\ applying' = [applying EXCEPT !.cur = t] /\ pc' = "copy"
          /\ UNCHANGED <<now, dev, storeVars, write, cache, healthySince, losses, history>>
      BY <2>4 DEF ReplacePayload
    <3>4. /\ applying' \in [done : SUBSET Targets, cur : Targets \cup {""}]
          /\ applying'.cur = t
      BY <3>3, Types
    <3>5. Holding'
      BY <3>3, <3>4, <2>1 DEF Holding, storeVars
    <3>. QED  BY <3>2, <3>3, <3>4, <3>5, Types, <1>MoveInv DEF history, PCs
  <2>5. CASE PayloadCopied
    <3>1. /\ payload' = [payload EXCEPT ![applying.cur].current = j.asg.version]
          /\ applying' = [done |-> applying.done \cup {applying.cur}, cur |-> ""]
          /\ pc = "copy" /\ pc' = "apply"
          /\ UNCHANGED <<now, dev, storeVars, write, cache, healthySince, losses, history>>
      BY <2>5 DEF PayloadCopied, Release
    <3>2. applying.cur \in Targets
      BY <3>1, <2>1
    <3>3. payload' \in [Targets -> [current : Content, previous : Content]]
      <4>. HIDE DEF j
      <4>. QED  BY <3>1, <3>2, <2>2, Types
    <3>4. applying' \in [done : SUBSET Targets, cur : Targets \cup {""}]
      BY <3>1, <3>2, Types
    <3>5. Holding'
      BY <3>1, <2>1 DEF Holding, storeVars
    <3>. QED  BY <3>1, <3>3, <3>4, <3>5, Types, <1>MoveInv DEF history, PCs
  <2>6. CASE PayloadFailed
    <3>1. /\ SaveRecord(j, "failed", "idle")
          /\ applying' = NotApplying
          /\ payload' = Restored(payload, (applying.done \cup {applying.cur}) \ {""})
          /\ UNCHANGED <<now, dev, storeVars, cache, healthySince, losses, history>>
      BY <2>6 DEF PayloadFailed
    <3>2. payload' \in [Targets -> [current : Content, previous : Content]]
      BY <3>1, <1>FilesTypes DEF Inv
    <3>3. /\ applying' \in [done : SUBSET Targets, cur : Targets \cup {""}]
          /\ cache' \subseteq SeqNumbers
          /\ healthySince' \in Nat /\ okSince' \in Nat /\ proven' \in BOOLEAN
          /\ UNCHANGED <<now, dev, storeVars, losses, installs>>
      BY <3>1, Types DEF history
    <3>4. "failed" \in States /\ "failed" \notin Waiting \cup {"installing"} \cup Underway
      BY DEF States, Waiting, Underway, Finished
    <3>. QED  BY <2>1, <2>2, <3>1, <3>2, <3>3, <3>4, <1>SaveInv
  <2>7. ASSUME NEW state \in Finished, BeginSave(WithPayloads, state, "idle"),
               applying' \in [done : SUBSET Targets, cur : Targets \cup {""}],
               UNCHANGED <<now, dev, storeVars, cache, healthySince, losses, history>>
        PROVE  Inv'
    <3>1. payload' \in [Targets -> [current : Content, previous : Content]]
      BY <2>7, <1>FilesTypes DEF Inv, BeginSave
    <3>2. SaveRecord(WithPayloads, state, "idle")
      BY <2>7 DEF BeginSave
    <3>3. /\ cache' \subseteq SeqNumbers
          /\ healthySince' \in Nat /\ okSince' \in Nat /\ proven' \in BOOLEAN
          /\ UNCHANGED <<now, dev, storeVars, losses, installs>>
      BY <2>7, Types DEF history
    <3>4. state \in States /\ state \notin Waiting \cup {"installing"} \cup Underway
      BY DEF States, Waiting, Underway, Finished
    <3>. QED  BY <2>1, <2>3, <2>7, <3>1, <3>2, <3>3, <3>4, <1>SaveInv
  <2>8. CASE PayloadsInPlace
    <3>1. /\ applying' = NotApplying
          /\ UNCHANGED <<now, dev, storeVars, cache, healthySince, losses, history>>
      BY <2>8 DEF PayloadsInPlace
    <3>2. CASE pc' = "preinstall" /\ UNCHANGED <<write, payload>>
      <4>1. Holding'
        BY <3>1, <3>2, <2>1 DEF Holding, storeVars
      <4>. QED  BY <3>1, <3>2, <4>1, Types, <1>MoveInv DEF history, PCs
    <3>3. CASE BeginSave(WithPayloads, "committed", "idle")
      BY <3>1, <3>3, <2>7, Types DEF Finished
    <3>. QED  BY <2>8, <3>2, <3>3 DEF PayloadsInPlace
  <2>9. CASE PreinstallError
    <3>1. /\ pc' = "idle"
          /\ UNCHANGED <<now, dev, storeVars, write, applying, payload, cache,
                         healthySince, losses, history>>
      BY <2>9 DEF PreinstallError
    <3>2. Holding'
      BY <3>1 DEF Holding
    <3>. QED  BY <3>1, <3>2, Types, <1>MoveInv DEF history, PCs
  <2>10. CASE PreinstallRejected
    BY <2>10, <2>7, Types DEF PreinstallRejected, Finished
  <2>11. CASE BeginInstall
    <3>. DEFINE k == [WithPayloads EXCEPT !.oldSlot = dev.booted,
                                          !.oldVersion = dev.version[dev.booted],
                                          !.targetSlot = Other(dev),
                                          !.bootID = dev.bootID]
    <3>1. /\ BeginSave(k, "installing", "install")
          /\ UNCHANGED <<now, dev, storeVars, applying, cache, healthySince, losses, history>>
      BY <2>11 DEF BeginInstall
    <3>2. /\ dev.booted \in Slots /\ Other(dev) \in Slots /\ dev.bootID \in Nat
          /\ dev.version[dev.booted] \in Versions \cup {"", "torn"}
      <4>1. dev \in DeviceState
        BY Types
      <4>2. Other(dev) \in Slots
        BY <4>1, DeviceTypes
      <4>3. dev.booted \in Slots /\ dev.bootID \in Nat
        BY <4>1 DEF DeviceState
      <4>4. dev.version[dev.booted] \in Versions \cup {"torn"}
        BY <4>1 DEF DeviceState
      <4>. QED  BY <4>2, <4>3, <4>4
    <3>3. /\ k \in Job /\ k.asg = j.asg /\ k.oldSlot \in Slots /\ k.targetSlot \in Slots
      <4>. HIDE DEF j
      <4>. QED  BY <2>3, <3>2 DEF Job
    <3>. HIDE DEF k
    <3>4. payload' \in [Targets -> [current : Content, previous : Content]]
      BY <3>1, <1>FilesTypes DEF Inv, BeginSave
    <3>5. /\ applying' \in [done : SUBSET Targets, cur : Targets \cup {""}]
          /\ cache' \subseteq SeqNumbers
          /\ healthySince' \in Nat /\ okSince' \in Nat /\ proven' \in BOOLEAN
          /\ UNCHANGED <<now, dev, storeVars, losses, installs>>
      BY <3>1, Types DEF history
    <3>6. "installing" \in States /\ j.state \in Waiting
      BY <2>1 DEF States, Waiting, Underway
    <3>7. SaveRecord(k, "installing", "install")
      BY <3>1 DEF BeginSave
    <3>. QED  BY <2>1, <3>3, <3>4, <3>5, <3>6, <3>7, <1>SaveInv
  <2>. QED  BY <2>4, <2>5, <2>6, <2>8, <2>9, <2>10, <2>11
\* The call of the backend: here the journal on disk says Installing already, so
\* that the release can be installed no second time.
<1>BackendInstallInv.
    ASSUME Inv, SimulatorInstall \/ InstallBundle
    PROVE  Inv'
  <2>. USE <1>BackendInstallInv
  <2>. DEFINE q == Release.seq
  <2>1. /\ HasActive(db) /\ Active(db).state = "installing"
        /\ installs[q] = 0
        /\ disk.jobs = db.jobs /\ disk.active = db.active
    BY DEF Inv, Core, Holding, SimulatorInstall, InstallBundle
  <2>2. /\ UNCHANGED <<now, storeVars, write, applying, payload, cache, healthySince,
                       losses, okSince, proven>>
        /\ pc' \in {"inspect", "flashing"}
        /\ CountInstall
    BY DEF SimulatorInstall, InstallBundle
  <2>3. /\ q \in SeqNumbers /\ q <= db.high /\ db.active \in JobIDs
        /\ Release \in Assignment
    BY <2>1, Types, ActiveJob DEF Release
  <2>4. dev' \in DeviceState
    <3>1. Release.version \in Versions /\ Release.bundle \in Versions /\ dev \in DeviceState
      BY <2>3, Types DEF Assignment
    <3>. QED  BY <3>1, DeviceTypes DEF SimulatorInstall, InstallBundle
  <2>5. /\ installs \in [SeqNumbers -> Nat]
        /\ installs' = [installs EXCEPT ![q] = @ + 1]
    BY <2>2 DEF Inv, TypeOK, CountInstall
  <2>. HIDE DEF q
  <2>6. /\ installs' \in [SeqNumbers -> Nat]
        /\ installs'[q] = 1
        /\ \A r \in SeqNumbers : r # q => installs'[r] = installs[r]
    BY <2>1, <2>3, <2>5, SMT
  <2>7. AtMostOneInstall'
    BY <2>6, SMT DEF Inv, Core, AtMostOneInstall
  <2>8. ASSUME NEW d \in Database, WellFormed(d), Untouched(d),
               d.jobs = db.jobs, d.active = db.active
        PROVE  \A id \in JobIDs : d.jobs[id].state \notin Waiting
    <3>1. SUFFICES ASSUME NEW id \in JobIDs, d.jobs[id].state \in Waiting PROVE FALSE
      OBVIOUS
    <3>2. d.jobs[id].state # "absent" /\ ~Terminal(d.jobs[id].state)
      BY <3>1 DEF Waiting, Terminal, Finished
    <3>3. d.active = id
      BY <2>8, <3>2 DEF WellFormed
    <3>. QED  BY <2>1, <2>8, <3>1, <3>3 DEF Active, Waiting
  <2>9. Untouched(db)' /\ Untouched(disk)'
    <3>1. /\ \A id \in JobIDs : db.jobs[id].state \notin Waiting
          /\ \A id \in JobIDs : disk.jobs[id].state \notin Waiting
      BY <2>1, <2>8 DEF Inv, TypeOK, Core
    <3>. QED  BY <2>2, <3>1 DEF Untouched, storeVars
  <2>10. Reserved'
    <3>1. q <= disk.high
      <4>1. disk \in Database /\ WellFormed(disk)
        BY DEF Inv, TypeOK, Core
      <4>2. HasActive(disk) /\ Active(disk).asg.seq = q
        BY <2>1 DEF HasActive, Active, Release, q
      <4>. QED  BY <4>1, <4>2, ActiveJob
    <3>2. disk.high \in Nat
      BY DEF Inv, TypeOK, Database
    <3>3. q \in Nat
      BY <2>3 DEF Assignment, q
    <3>4. ASSUME NEW r \in SeqNumbers, r > disk.high
          PROVE  installs'[r] = 0
      <4>1. r # q
        BY <3>1, <3>2, <3>3, <3>4, SMT
      <4>. QED  BY <4>1, <3>4, <2>6 DEF Inv, Core, Reserved
    <3>. QED  BY <2>2, <3>4 DEF Reserved, storeVars
  <2>11. Writing' /\ Holding'
    BY <2>1, <2>2 DEF Writing, Holding, storeVars, Underway
  <2>12. Core'
    BY <2>2, <2>7, <2>9, <2>10, <2>11 DEF Inv, Core, InStep, storeVars
  <2>13. TypeOK'
    <3>1. pc' \in PCs /\ dev' \in DeviceState /\ installs' \in [SeqNumbers -> Nat]
      BY <2>2, <2>4, <2>6 DEF PCs
    <3>2. TypeOK /\ UNCHANGED <<now, db, disk, archive, poisoned, write, applying, payload, cache,
                                healthySince, losses, okSince, proven>>
      BY <2>2 DEF Inv, storeVars
    <3>. QED  BY <3>1, <3>2 DEF TypeOK
  <2>. QED  BY <2>12, <2>13 DEF Inv
\* The states that follow an installation, as PlainSave wants them.
<1>LaterStates.
    \A state \in (Underway \ {"installing"}) \cup Finished :
        state \in States /\ state \notin Waiting \cup {"installing"}
  BY <1>LaterStates DEF States, Waiting, Underway, Finished
\* Saves of a job as it stands, from the installation on.
<1>UnderwaySaveInv.
    ASSUME Inv,
           \/ InstallError \/ Inspect \/ StepInstalling \/ StepHealthDeadline
           \/ SaveCommitted \/ StepRolledBack \/ AbortSave
    PROVE  Inv'
  <2>. USE <1>UnderwaySaveInv
  <2>1. /\ HasActive(db) /\ Active(db).state \in Underway
        /\ UNCHANGED <<now, dev, storeVars, applying, cache, healthySince, losses, history>>
    BY DEF Inv, Core, Holding, Underway, InstallError, Inspect, StepInstalling, Checking,
           StepHealthDeadline, SaveCommitted, StepRolledBack, AbortSave, Stepping
  <2>2. /\ healthySince' \in Nat /\ okSince' \in Nat /\ proven' \in BOOLEAN
        /\ UNCHANGED <<now, dev, storeVars, applying, cache, losses, installs>>
    BY <2>1, Types DEF history
  <2>3. \E state \in (Underway \ {"installing"}) \cup Finished :
            BeginSave(Active(db), state, "idle")
    BY DEF InstallError, Inspect, StepInstalling, StepHealthDeadline, SaveCommitted,
           StepRolledBack, AbortSave, Underway, Finished
  <2>. QED  BY <2>1, <2>2, <2>3, <1>LaterStates, <1>PlainSave
\* Saves that record a boot.
<1>BootedInv.
    ASSUME Inv, StepBooted \/ StepBootedAgain
    PROVE  Inv'
  <2>. USE <1>BootedInv
  <2>. DEFINE j == Active(db)
  <2>1. /\ HasActive(db) /\ j.state \in Underway
        /\ UNCHANGED <<now, dev, storeVars, applying, cache, losses, history>>
    BY DEF Underway, StepBooted, StepBootedAgain, Stepping
  <2>2. /\ okSince' \in Nat /\ proven' \in BOOLEAN
        /\ applying' \in [done : SUBSET Targets, cur : Targets \cup {""}]
        /\ cache' \subseteq SeqNumbers
        /\ UNCHANGED <<now, dev, storeVars, applying, cache, losses, installs>>
    BY <2>1, Types DEF history
  <2>3. j \in Job /\ j.oldSlot \in Slots /\ j.targetSlot \in Slots
    BY <2>1, Types, ActiveJob
  <2>4. ASSUME NEW outcome \in {"rolled_back", "needs_recovery"},
               BeginSave(j, outcome, "idle"), UNCHANGED healthySince
        PROVE  Inv'
    <3>1. outcome \in (Underway \ {"installing"}) \cup Finished
      BY DEF Underway, Finished
    <3>2. healthySince' \in Nat
      BY <2>4, Types
    <3>. QED  BY <2>1, <2>2, <2>4, <3>1, <3>2, <1>LaterStates, <1>PlainSave
  <2>5. ASSUME NEW k \in Job, k.asg = j.asg, k.oldSlot \in Slots, k.targetSlot \in Slots,
               BeginSave(k, "checking_health", "idle"), healthySince' = 0
        PROVE  Inv'
    <3>1. payload' \in [Targets -> [current : Content, previous : Content]]
      BY <2>5, <1>FilesTypes DEF Inv, BeginSave
    <3>2. SaveRecord(k, "checking_health", "idle")
      BY <2>5 DEF BeginSave
    <3>3. "checking_health" \in States /\ "checking_health" \notin Waiting \cup {"installing"}
      BY <1>LaterStates DEF Underway
    <3>4. healthySince' \in Nat
      BY <2>5
    <3>. QED  BY <2>1, <2>2, <2>5, <3>1, <3>2, <3>3, <3>4, <1>SaveInv
  <2>6. /\ now \in Nat /\ dev.bootID \in Nat
    <3>1. dev \in DeviceState /\ now \in Nat
      BY Types
    <3>. QED  BY <3>1 DEF DeviceState
  <2>7. /\ [j EXCEPT !.bootID = dev.bootID] \in Job
        /\ [j EXCEPT !.bootID = dev.bootID].asg = j.asg
        /\ [j EXCEPT !.bootID = dev.bootID].oldSlot \in Slots
        /\ [j EXCEPT !.bootID = dev.bootID].targetSlot \in Slots
    <3>. HIDE DEF j
    <3>. QED  BY <2>3, <2>6 DEF Job
  <2>8. /\ [j EXCEPT !.healthStarted = now, !.bootID = dev.bootID] \in Job
        /\ [j EXCEPT !.healthStarted = now, !.bootID = dev.bootID].asg = j.asg
        /\ [j EXCEPT !.healthStarted = now, !.bootID = dev.bootID].oldSlot \in Slots
        /\ [j EXCEPT !.healthStarted = now, !.bootID = dev.bootID].targetSlot \in Slots
    <3>. HIDE DEF j
    <3>. QED  BY <2>3, <2>6 DEF Job
  <2>9. BootOutcome(j, "checking_health") \in {"rolled_back", "needs_recovery", "checking_health"}
    BY DEF BootOutcome
  <2>10. CASE StepBooted
    <3>. DEFINE o == IF dev.bootID = j.bootID THEN "needs_recovery"
                     ELSE BootOutcome(j, "checking_health")
    <3>1. IF o = "checking_health"
          THEN /\ healthySince' = 0
               /\ BeginSave([j EXCEPT !.healthStarted = now, !.bootID = dev.bootID], o, "idle")
          ELSE BeginSave(j, o, "idle") /\ UNCHANGED healthySince
      BY <2>10 DEF StepBooted
    <3>2. o \in {"rolled_back", "needs_recovery", "checking_health"}
      BY <2>9
    <3>. HIDE DEF o, j
    <3>. QED  BY <3>1, <3>2, <2>4, <2>5, <2>8
  <2>11. CASE StepBootedAgain
    <3>. DEFINE o == BootOutcome(j, "checking_health")
    <3>1. IF o = "checking_health"
          THEN /\ healthySince' = 0
               /\ BeginSave([j EXCEPT !.bootID = dev.bootID], o, "idle")
          ELSE BeginSave(j, o, "idle") /\ UNCHANGED healthySince
      BY <2>11 DEF StepBootedAgain
    <3>2. o \in {"rolled_back", "needs_recovery", "checking_health"}
      BY <2>9
    <3>. HIDE DEF o, j
    <3>. QED  BY <3>1, <3>2, <2>4, <2>5, <2>7
  <2>. QED  BY <2>10, <2>11
\* The health checks leave types alone.
<1>ObserveTypes.
    ASSUME Inv
    PROVE  /\ Since \in Nat
           /\ ObservePass => okSince' \in Nat /\ proven' \in BOOLEAN
           /\ ObserveFail => okSince' \in Nat /\ proven' \in BOOLEAN
  <2>. USE <1>ObserveTypes
  <2>1. now \in Nat /\ healthySince \in Nat /\ okSince \in Nat
    BY Types
  <2>2. proven \in BOOLEAN
    BY Types
  <2>3. ObservePass => okSince' \in Nat
    BY <2>1 DEF ObservePass
  <2>4. ObservePass => proven' \in BOOLEAN
    BY Zenon DEF ObservePass
  <2>5. ObserveFail => okSince' \in Nat /\ proven' \in BOOLEAN
    BY <2>2, SMT DEF ObserveFail
  <2>6. Since \in Nat
    BY <2>1 DEF Since
  <2>. QED  BY <2>3, <2>4, <2>5, <2>6
\* Health checks of a job or of a normal boot.
<1>HealthInv.
    ASSUME Inv, StepUnhealthy \/ StepHealthy \/ NormalBootUnhealthy \/ NormalBootHealthy
    PROVE  Inv'
  <2>. USE <1>HealthInv
  <2>1. healthySince' \in Nat /\ okSince' \in Nat /\ proven' \in BOOLEAN
    <3>1. healthySince' \in {0, Since} /\ (ObservePass \/ ObserveFail)
      BY DEF StepUnhealthy, StepHealthy, NormalBootUnhealthy, NormalBootHealthy
    <3>. QED  BY <3>1, <1>ObserveTypes, SMT
  <2>2. CASE StepUnhealthy \/ NormalBootUnhealthy
    <3>1. /\ pc = "idle"
          /\ UNCHANGED <<now, dev, storeVars, pc, write, applying, payload, cache, losses,
                         installs>>
      BY <2>2 DEF StepUnhealthy, NormalBootUnhealthy, Checking, Confirming, Stepping
    <3>2. Holding'
      BY <3>1 DEF Holding
    <3>. QED  BY <3>1, <3>2, <2>1, Types, <1>MoveInv DEF PCs
  <2>3. CASE StepHealthy
    <3>1. /\ pc = "idle" /\ HasActive(db) /\ Active(db).state \in Underway
          /\ UNCHANGED <<now, dev, storeVars, applying, cache, losses, installs>>
      BY <2>3 DEF StepHealthy, Checking, Stepping, Underway
    <3>2. CASE BeginSave(Active(db), "committing", "idle")
      <4>1. /\ "committing" \in States /\ "committing" \notin Waiting \cup {"installing"}
        BY <1>LaterStates DEF Underway
      <4>. QED  BY <3>1, <3>2, <4>1, <2>1, <1>PlainSave
    <3>3. CASE UNCHANGED <<pc, write, payload>>
      <4>1. Holding'
        BY <3>1, <3>3 DEF Holding
      <4>. QED  BY <3>1, <3>3, <4>1, <2>1, Types, <1>MoveInv DEF PCs
    <3>. QED  BY <2>3, <3>2, <3>3 DEF StepHealthy
  <2>4. CASE NormalBootHealthy
    <3>1. /\ pc = "idle"
          /\ UNCHANGED <<now, storeVars, write, applying, payload, cache, losses, installs>>
          /\ \/ dev' = Mark(dev, "good", dev.booted) /\ pc' = "confirm"
             \/ UNCHANGED <<dev, pc>>
      BY <2>4 DEF NormalBootHealthy, Confirming
    <3>2. dev' \in DeviceState
      <4>1. dev \in DeviceState
        BY Types
      <4>2. dev.booted \in Slots
        BY <4>1 DEF DeviceState
      <4>. QED  BY <3>1, <4>1, <4>2, DeviceTypes
    <3>3. Holding' /\ pc' \in {"idle", "confirm"}
      BY <3>1 DEF Holding
    <3>. QED  BY <3>1, <3>2, <3>3, <2>1, Types, <1>MoveInv DEF PCs
  <2>. QED  BY <2>2, <2>3, <2>4
\* Calls of Backend.Mark and what follows an installation that completed.
<1>MarkInv.
    ASSUME Inv,
           \/ StepMarkGood \/ StepMarkBad \/ ActivateOldSlot \/ RecoverAbort
           \/ AbortActivate \/ NormalBootDeadline \/ ActivateFallback \/ InstallCompleted
    PROVE  Inv'
  <2>. USE <1>MarkInv
  <2>1. UNCHANGED <<now, storeVars, write, applying, payload, cache, healthySince,
                    losses, history>>
    BY DEF StepMarkGood, StepMarkBad, ActivateOldSlot, RecoverAbort, AbortActivate,
           NormalBootDeadline, ActivateFallback, InstallCompleted
  <2>2. \/ pc' \in {"idle", "reboot", "fallback"}
        \/ /\ pc' \in {"commit", "rollback", "abort", "aborted", "inspect"}
           /\ HasActive(db) /\ Active(db).state \in Underway
    BY DEF Inv, Core, Holding, StepMarkGood, StepMarkBad, ActivateOldSlot, RecoverAbort,
           AbortActivate, NormalBootDeadline, ActivateFallback, InstallCompleted,
           Checking, Stepping, Underway
  <2>3. Holding' /\ pc' \in PCs /\ pc' # "write"
    BY <2>1, <2>2 DEF Holding, PCs, storeVars
  <2>4. dev' \in DeviceState
    <3>1. dev \in DeviceState
      BY Types
    <3>2. dev.booted \in Slots /\ Other(dev) \in Slots
      BY <3>1, DeviceTypes DEF DeviceState
    <3>3. HasActive(db) /\ Active(db).state \in Underway =>
              Active(db).oldSlot \in Slots /\ Active(db).targetSlot \in Slots
      BY Types, ActiveJob
    <3>4. StepMarkGood \/ StepMarkBad \/ RecoverAbort =>
              /\ HasActive(db) /\ Active(db).state \in Underway
              /\ \E m \in {"good", "bad"} : dev' = Mark(dev, m, Active(db).targetSlot)
      BY DEF StepMarkGood, StepMarkBad, RecoverAbort, Checking, Stepping, Underway
    <3>5. ActivateOldSlot \/ AbortActivate =>
              /\ HasActive(db) /\ Active(db).state \in Underway
              /\ dev' = Mark(dev, "active", Active(db).oldSlot) \/ dev' = dev
      BY DEF ActivateOldSlot, AbortActivate, Inv, Core, Holding
    <3>6. NormalBootDeadline => dev' = Mark(dev, "bad", dev.booted)
      BY DEF NormalBootDeadline
    <3>7. ActivateFallback => dev' = Mark(dev, "active", Other(dev)) \/ dev' = dev
      BY DEF ActivateFallback
    <3>8. InstallCompleted => dev' = dev
      BY DEF InstallCompleted
    <3>. QED  BY <3>1, <3>2, <3>3, <3>4, <3>5, <3>6, <3>7, <3>8, DeviceTypes
  <2>. QED  BY <2>1, <2>3, <2>4, Types, <1>MoveInv DEF history
\* A reboot keeps the type of the device.
<1>RebootedTypes.
    ASSUME Inv, Rebooted \/ UNCHANGED <<dev, losses, okSince, proven>>
    PROVE  dev' \in DeviceState /\ losses' \in Nat /\ okSince' \in Nat /\ proven' \in BOOLEAN
  <2>. USE <1>RebootedTypes
  <2>1. dev \in DeviceState
    BY Types
  <2>2. losses \in Nat /\ losses + 1 \in Nat
    <3>1. losses \in Nat
      BY Types
    <3>. QED  BY <3>1, SMT
  <2>3. okSince \in Nat /\ proven \in BOOLEAN
    BY Types
  <2>4. CASE UNCHANGED <<dev, losses, okSince, proven>>
    BY <2>1, <2>2, <2>3, <2>4
  <2>5. CASE dev' = [dev EXCEPT !.rebooting = TRUE] /\ UNCHANGED <<losses, okSince, proven>>
    <3>1. dev' \in DeviceState
      BY <2>1, <2>5 DEF DeviceState
    <3>. QED  BY <3>1, <2>2, <2>3, <2>5
  <2>6. CASE /\ \E slot \in BootChoices(dev) :
                  /\ dev' = BootedInto(dev, slot)
                  /\ losses' = IF slot = dev.primary THEN losses ELSE losses + 1
             /\ okSince' = 0 /\ proven' = FALSE
    <3>1. PICK slot \in BootChoices(dev) :
               /\ dev' = BootedInto(dev, slot)
               /\ losses' = IF slot = dev.primary THEN losses ELSE losses + 1
      BY <2>6
    <3>2. dev' \in DeviceState
      BY <3>1, <2>1, DeviceTypes
    <3>3. losses' \in Nat
      BY <3>1, <2>2
    <3>. QED  BY <3>2, <3>3, <2>6
  <2>. QED  BY <2>4, <2>5, <2>6 DEF Rebooted
\* The two halves of reboot.
<1>RebootInv.
    ASSUME Inv, StepAutoReboot \/ RequestReboot \/ Reboot \/ RebootJob
    PROVE  Inv'
  <2>. USE <1>RebootInv
  <2>. DEFINE j == Active(db)
  <2>1. CASE Reboot \/ (RebootJob /\ Rebooted /\ pc' = "idle" /\ UNCHANGED <<write, payload>>)
    <3>1. /\ Rebooted \/ UNCHANGED <<dev, losses, okSince, proven>>
          /\ pc' = "idle"
          /\ UNCHANGED <<now, storeVars, write, applying, payload, cache, healthySince,
                         installs>>
      BY <2>1 DEF Reboot, RebootJob
    <3>2. dev' \in DeviceState /\ losses' \in Nat /\ okSince' \in Nat /\ proven' \in BOOLEAN
      BY <3>1, <1>RebootedTypes
    <3>3. Holding'
      BY <3>1 DEF Holding
    <3>. QED  BY <3>1, <3>2, <3>3, Types, <1>MoveInv DEF PCs
  <2>2. ASSUME HasActive(db), j.state \in Underway, NEW asked \in BOOLEAN,
               NEW next \in {"idle", "rebootJob"},
               BeginSave([j EXCEPT !.rebootRequested = asked], "awaiting_reboot", next),
               UNCHANGED <<now, dev, storeVars, applying, cache, healthySince, losses, history>>
        PROVE  Inv'
    <3>. DEFINE k == [j EXCEPT !.rebootRequested = asked]
    <3>1. j \in Job /\ j.oldSlot \in Slots /\ j.targetSlot \in Slots
      BY <2>2, Types, ActiveJob
    <3>2. k \in Job /\ k.asg = j.asg /\ k.oldSlot \in Slots /\ k.targetSlot \in Slots
      <4>. HIDE DEF j
      <4>. QED  BY <3>1 DEF Job
    <3>3. payload' \in [Targets -> [current : Content, previous : Content]]
      BY <2>2, <1>FilesTypes DEF Inv, BeginSave
    <3>4. SaveRecord(k, "awaiting_reboot", next)
      BY <2>2 DEF BeginSave
    <3>. HIDE DEF k
    <3>5. "awaiting_reboot" \in States /\ "awaiting_reboot" \notin Waiting \cup {"installing"}
      BY <1>LaterStates DEF Underway
    <3>6. /\ applying' \in [done : SUBSET Targets, cur : Targets \cup {""}]
          /\ cache' \subseteq SeqNumbers
          /\ healthySince' \in Nat /\ okSince' \in Nat /\ proven' \in BOOLEAN
          /\ UNCHANGED <<now, dev, storeVars, losses, installs>>
      BY <2>2, Types DEF history
    <3>7. HasActive(db) /\ k.asg = Active(db).asg
      BY <2>2, <3>2
    <3>. HIDE DEF j
    <3>8. CASE next = "idle"
      BY <3>2, <3>3, <3>4, <3>5, <3>6, <3>7, <3>8, <1>SaveInv
    <3>9. CASE next = "rebootJob"
      BY <3>2, <3>3, <3>4, <3>5, <3>6, <3>7, <3>9, <1>SaveInv
    <3>. QED  BY <3>8, <3>9
  <2>3. CASE StepAutoReboot \/ RequestReboot
    <3>1. /\ HasActive(db) /\ j.state \in Underway
          /\ BeginSave([j EXCEPT !.rebootRequested = TRUE], "awaiting_reboot", "rebootJob")
          /\ UNCHANGED <<now, dev, storeVars, applying, cache, healthySince, losses, history>>
      BY <2>3 DEF StepAutoReboot, RequestReboot, BeginReboot, Stepping, Underway
    <3>. QED  BY <3>1, <2>2
  <2>4. CASE /\ RebootJob
             /\ BeginSave([j EXCEPT !.rebootRequested = FALSE], "awaiting_reboot", "idle")
             /\ UNCHANGED <<dev, losses, okSince, proven>>
    <3>1. /\ HasActive(db) /\ j.state \in Underway
          /\ UNCHANGED <<now, dev, storeVars, applying, cache, healthySince, losses, history>>
      BY <2>4 DEF RebootJob, Inv, Core, Holding, history
    <3>. QED  BY <3>1, <2>2, <2>4
  <2>. QED  BY <2>1, <2>3, <2>4 DEF RebootJob
\* The transaction of a save: the only place where a job leaves Waiting.
<1>WriteJournalInv.
    ASSUME Inv, WriteJournal
    PROVE  Inv'
  <2>. USE <1>WriteJournalInv
  <2>. DEFINE e == Recorded(db, write.id, write.job)
  <2>1. /\ pc = "write" /\ write' = NoWrite
        /\ UNCHANGED <<now, dev, applying, payload, cache, healthySince, losses, history>>
    BY DEF WriteJournal
  <2>2. /\ HasActive(db) /\ write.id = db.active
        /\ write.job.asg = Active(db).asg /\ write.job.state \in States
        /\ write.job.state \in Underway =>
              write.job.oldSlot \in Slots /\ write.job.targetSlot \in Slots
        /\ write.job.state \in Waiting \cup {"installing"} =>
              installs[write.job.asg.seq] = 0
        /\ write.next \in {"idle", "install", "rebootJob"}
        /\ write.next = "install" => write.job.state = "installing"
        /\ write.next = "rebootJob" => write.job.state = "awaiting_reboot"
    BY <2>1 DEF Inv, Core, Writing
  <2>3. /\ write.job \in Job /\ db \in Database /\ WellFormed(db) /\ disk \in Database
        /\ archive \in [JobIDs -> Job]
    BY DEF Inv, TypeOK, Core
  <2>4. /\ e \in Database /\ WellFormed(e) /\ e.high = db.high
        /\ e.jobs = [db.jobs EXCEPT ![db.active] = write.job]
        /\ ~Terminal(write.job.state) => e.active = db.active
    <3>1. e = Recorded(db, db.active, write.job)
      BY <2>2
    <3>. HIDE DEF e
    <3>. QED  BY <3>1, <2>2, <2>3, RecordedOK
  <2>5. db.active \in JobIDs /\ db.jobs \in [JobIDs -> Job]
    BY <2>2, <2>3, ActiveJob DEF Database
  <2>. HIDE DEF e
  <2>6. Untouched(e)
    <3>1. SUFFICES ASSUME NEW id \in JobIDs, e.jobs[id].state \in Waiting
                   PROVE  installs[e.jobs[id].asg.seq] = 0
      BY DEF Untouched
    <3>2. CASE id = db.active
      BY <3>1, <3>2, <2>2, <2>4, <2>5
    <3>3. CASE id # db.active
      BY <3>1, <3>3, <2>4, <2>5 DEF Inv, Core, Untouched
    <3>. QED  BY <3>2, <3>3
  <2>7. ~poisoned => e.high >= disk.high
    <3>1. ~poisoned => e.high = disk.high
      BY <2>4 DEF Inv, Core, InStep
    <3>2. disk.high \in Nat
      BY <2>3 DEF Database
    <3>. QED  BY <3>1, <3>2, SMT
  <2>8. write' \in [id : JobIDs \cup {""}, job : Job, next : PCs,
                    files : [Targets -> [current : Content, previous : Content]]]
    BY <2>1 DEF NoWrite, NoJob, Job, PCs, Content
  <2>9. pc' # "write"
    BY <2>2 DEF WriteJournal, Update
  <2>10. Writing'
    BY <2>9 DEF Writing
  <2>11. CASE pc' = "idle" /\ UNCHANGED storeVars
    <3>1. Holding'
      BY <2>11 DEF Holding
    <3>2. Core'
      BY <2>1, <2>10, <2>11, <3>1, <1>Steady DEF storeVars, history
    <3>3. TypeOK'
      BY <2>1, <2>8, <2>11 DEF Inv, TypeOK, storeVars, history, PCs
    <3>. QED  BY <3>2, <3>3 DEF Inv
  <2>12. CASE Update(e, archive, write.next)
    <3>1. write.next \in PCs /\ installs' = installs
      BY <2>1, <2>2 DEF PCs, history
    <3>2. /\ db' \in Database /\ disk' \in Database /\ archive' \in [JobIDs -> Job]
          /\ poisoned' \in BOOLEAN /\ pc' \in PCs
          /\ WellFormed(db') /\ WellFormed(disk')
          /\ InStep' /\ Reserved' /\ Untouched(db)' /\ Untouched(disk)'
          /\ AtMostOneInstall'
      BY <2>3, <2>4, <2>6, <2>7, <2>12, <3>1, <1>UpdateStep
    <3>3. Holding'
      <4>1. CASE pc' = "idle"
        BY <4>1 DEF Holding
      <4>2. CASE pc' # "idle"
        <5>0. pc' = write.next /\ db' = e /\ disk' = e
          BY <4>2, <2>12 DEF Update
        <5>1. /\ pc' = write.next /\ db' = e /\ disk' = e
              /\ write.next \in {"install", "rebootJob"}
          BY <5>0, <4>2, <2>2
        <5>2. ~Terminal(write.job.state)
          BY <5>1, <2>2 DEF Terminal, Finished
        <5>3. HasActive(e) /\ Active(e) = write.job
          BY <5>2, <2>2, <2>4, <2>5 DEF HasActive, Active
        <5>4. write.next = "install" => installs'[Active(e).asg.seq] = 0
          BY <5>3, <3>1, <2>2
        <5>. QED  BY <5>1, <5>3, <5>4, <2>2 DEF Holding, Release, Underway
      <4>. QED  BY <4>1, <4>2
    <3>4. TypeOK'
      BY <2>1, <2>8, <3>2 DEF Inv, TypeOK, history
    <3>. QED  BY <2>10, <3>2, <3>3, <3>4 DEF Inv, Core
  <2>. QED  BY <2>11, <2>12 DEF WriteJournal, e
\* Submit: a sequence number above the mark has not been installed yet.
<1>SubmitInv.
    ASSUME Inv, NEW a \in Assignments, Submit(a)
    PROVE  Inv'
  <2>. USE <1>SubmitInv
  <2>. DEFINE d == Accepted(db, a)
  <2>1. /\ pc = "idle" /\ ~HasActive(db) /\ a.seq > db.high
        /\ UNCHANGED <<now, dev, write, applying, payload, cache, healthySince,
                       losses, history>>
    BY DEF Submit
  <2>2. /\ db \in Database /\ WellFormed(db) /\ disk \in Database
        /\ archive \in [JobIDs -> Job]
    BY DEF Inv, TypeOK, Core
  <2>3. /\ d \in Database /\ WellFormed(d) /\ d.high = a.seq
        /\ d.jobs = [db.jobs EXCEPT ![a.job] = NewJob(a)]
        /\ a.job \in JobIDs
    BY <2>1, <2>2, AcceptedOK
  <2>4. db.jobs \in [JobIDs -> Job] /\ NewJob(a).asg = a
    BY <2>2 DEF Database, NewJob, NoJob
  <2>. HIDE DEF d
  <2>5. ~poisoned => d.high >= disk.high /\ installs[a.seq] = 0
    <3>1. a.seq \in SeqNumbers
      BY DEF SeqNumbers
    <3>2. a.seq \in Nat
      BY AssignmentsAssumption DEF Assignment
    <3>3. db.high \in Nat
      BY <2>2 DEF Database
    <3>4. ~poisoned => a.seq > disk.high
      BY <2>1 DEF Inv, Core, InStep
    <3>5. ~poisoned => installs[a.seq] = 0
      BY <3>1, <3>4 DEF Inv, Core, Reserved
    <3>6. ~poisoned => a.seq >= disk.high
      <4>1. disk.high \in Nat
        BY <2>2 DEF Database
      <4>. QED  BY <3>2, <3>4, <4>1, SMT
    <3>. QED  BY <3>5, <3>6, <2>3
  <2>6. ~poisoned => Untouched(d)
    <3>1. SUFFICES ASSUME ~poisoned, NEW id \in JobIDs, d.jobs[id].state \in Waiting
                   PROVE  installs[d.jobs[id].asg.seq] = 0
      BY DEF Untouched
    <3>2. CASE id = a.job
      BY <3>1, <3>2, <2>3, <2>4, <2>5
    <3>3. CASE id # a.job
      BY <3>1, <3>3, <2>3, <2>4 DEF Inv, Core, Untouched
    <3>. QED  BY <3>2, <3>3
  <2>7. ASSUME NEW e \in Database, WellFormed(e), NEW arc \in [JobIDs -> Job],
               Update(e, arc, "idle"), ~poisoned => e.high >= disk.high /\ Untouched(e)
        PROVE  Inv'
    <3>1. "idle" \in PCs /\ installs' = installs /\ pc' = "idle"
      BY <2>1, <2>7 DEF PCs, history, Update
    <3>2. /\ db' \in Database /\ disk' \in Database /\ archive' \in [JobIDs -> Job]
          /\ poisoned' \in BOOLEAN /\ pc' \in PCs
          /\ WellFormed(db') /\ WellFormed(disk')
          /\ InStep' /\ Reserved' /\ Untouched(db)' /\ Untouched(disk)'
          /\ AtMostOneInstall'
      BY <2>7, <3>1, <1>UpdateStep
    <3>3. Writing' /\ Holding'
      BY <3>1 DEF Writing, Holding
    <3>4. TypeOK'
      BY <2>1, <3>2 DEF Inv, TypeOK, history
    <3>. QED  BY <3>2, <3>3, <3>4 DEF Inv, Core
  <2>8. CASE \E id \in Oldest(d) :
                 Update(Without(d, id), [archive EXCEPT ![id] = d.jobs[id]], "idle")
    <3>1. PICK id \in Oldest(d) :
              Update(Without(d, id), [archive EXCEPT ![id] = d.jobs[id]], "idle")
      BY <2>8
    <3>. DEFINE e == Without(d, id)
    <3>2. /\ e \in Database /\ WellFormed(e) /\ e.high = d.high
          /\ e.jobs = [d.jobs EXCEPT ![id] = NoJob] /\ id \in JobIDs
      BY <2>3, WithoutOK
    <3>3. d.jobs \in [JobIDs -> Job]
      BY <2>3 DEF Database
    <3>4. [archive EXCEPT ![id] = d.jobs[id]] \in [JobIDs -> Job]
      BY <2>2, <3>2, <3>3
    <3>. HIDE DEF e
    <3>5. ~poisoned => Untouched(e)
      <4>1. SUFFICES ASSUME ~poisoned, NEW other \in JobIDs, e.jobs[other].state \in Waiting
                     PROVE  installs[e.jobs[other].asg.seq] = 0
        BY DEF Untouched
      <4>2. other # id
        <5>1. e.jobs[id] = NoJob
          BY <3>2, <3>3
        <5>2. NoJob.state \notin Waiting
          BY DEF NoJob, Waiting
        <5>. QED  BY <4>1, <5>1, <5>2
      <4>. QED  BY <4>1, <4>2, <3>2, <3>3, <2>6 DEF Untouched
    <3>. QED  BY <2>5, <2>7, <3>1, <3>2, <3>4, <3>5 DEF e
  <2>9. CASE Update(d, archive, "idle")
    BY <2>2, <2>3, <2>5, <2>6, <2>7, <2>9
  <2>. QED  BY <2>8, <2>9 DEF Submit, d
\* Ack comes at any point of an operation and changes neither job nor mark.
<1>AckInv.
    ASSUME Inv, Ack
    PROVE  Inv'
  <2>. USE <1>AckInv
  <2>1. /\ db \in Database /\ WellFormed(db) /\ disk \in Database /\ WellFormed(disk)
        /\ poisoned \in BOOLEAN
    BY DEF Inv, TypeOK, Core
  <2>2. PICK left \in 0..db.outbox :
            \/ /\ ~poisoned
               /\ db' = [db EXCEPT !.outbox = left]
               /\ disk' = [db EXCEPT !.outbox = left]
               /\ UNCHANGED poisoned
            \/ /\ ~poisoned
               /\ disk' \in {disk, [db EXCEPT !.outbox = left]}
               /\ poisoned' = TRUE
               /\ UNCHANGED db
    BY DEF Ack
  <2>3. UNCHANGED <<now, dev, archive, pc, write, applying, payload, cache,
                    healthySince, losses, history>>
    BY DEF Ack
  <2>4. left \in Nat
    BY <2>2, SMT
  <2>. DEFINE e == [db EXCEPT !.outbox = left]
  <2>5. /\ e \in Database /\ WellFormed(e)
        /\ e.high = db.high /\ e.jobs = db.jobs /\ e.active = db.active
    BY <2>1, <2>4, SideFields
  <2>6. db = disk
    BY <2>2 DEF Inv, Core, InStep
  <2>. HIDE DEF e
  <2>7. /\ db' \in Database /\ WellFormed(db') /\ disk' \in Database /\ WellFormed(disk')
        /\ poisoned' \in BOOLEAN /\ InStep'
        /\ db'.high = db.high /\ db'.jobs = db.jobs /\ db'.active = db.active
        /\ disk'.high = db.high /\ disk'.jobs = db.jobs /\ disk'.active = db.active
    BY <2>1, <2>2, <2>5, <2>6 DEF InStep, e
  <2>8. installs' = installs /\ HasActive(db') = HasActive(db) /\ Active(db') = Active(db)
    BY <2>3, <2>7 DEF history, HasActive, Active
  <2>9. Reserved' /\ Untouched(db)' /\ Untouched(disk)' /\ AtMostOneInstall'
    BY <2>6, <2>7, <2>8 DEF Inv, Core, Reserved, Untouched, AtMostOneInstall
  <2>10. Writing'
    BY <2>3, <2>7, <2>8 DEF Inv, Core, Writing
  <2>11. Holding'
    BY <2>3, <2>7, <2>8 DEF Inv, Core, Holding, Release
  <2>12. TypeOK'
    BY <2>3, <2>7 DEF Inv, TypeOK, history
  <2>. QED  BY <2>7, <2>9, <2>10, <2>11, <2>12 DEF Inv, Core
\* The two transactions of confirmNormalBoot.
<1>BootCheckInv.
    ASSUME Inv, NormalBootSeen \/ ConfirmBoot
    PROVE  Inv'
  <2>. USE <1>BootCheckInv
  <2>1. /\ db \in Database /\ WellFormed(db) /\ disk \in Database
        /\ archive \in [JobIDs -> Job]
    BY DEF Inv, TypeOK, Core
  <2>2. \E b \in BootCheck : Update([db EXCEPT !.bootCheck = b], archive, "idle")
    <3>1. CASE NormalBootSeen
      <4>1. dev \in DeviceState /\ now \in Nat
        BY Types
      <4>2. [bootID |-> dev.bootID, started |-> now, confirmed |-> FALSE] \in BootCheck
        BY <4>1 DEF BootCheck, DeviceState
      <4>. QED  BY <3>1, <4>2 DEF NormalBootSeen
    <3>2. CASE ConfirmBoot
      <4>1. db.bootCheck \in BootCheck
        BY <2>1 DEF Database
      <4>2. [db.bootCheck EXCEPT !.confirmed = TRUE] \in BootCheck
        BY <4>1 DEF BootCheck
      <4>3. Update([db EXCEPT !.bootCheck = [db.bootCheck EXCEPT !.confirmed = TRUE]],
                   archive, "idle")
        BY <3>2 DEF ConfirmBoot
      <4>. QED  BY <4>2, <4>3
    <3>. QED  BY <3>1, <3>2
  <2>3. PICK b \in BootCheck : Update([db EXCEPT !.bootCheck = b], archive, "idle")
    BY <2>2
  <2>. DEFINE e == [db EXCEPT !.bootCheck = b]
  <2>4. /\ e \in Database /\ WellFormed(e)
        /\ e.high = db.high /\ e.jobs = db.jobs /\ e.active = db.active
    BY <2>1, SideFields
  <2>. HIDE DEF e
  <2>5. /\ healthySince' \in Nat
        /\ UNCHANGED <<now, dev, write, applying, payload, cache, losses, history>>
    <3>1. healthySince \in Nat
      BY Types
    <3>2. /\ healthySince' = 0 \/ healthySince' = healthySince
          /\ UNCHANGED <<now, dev, write, applying, payload, cache, losses, history>>
      BY DEF NormalBootSeen, ConfirmBoot
    <3>. QED  BY <3>1, <3>2, SMT
  <2>6. "idle" \in PCs /\ installs' = installs /\ pc' = "idle"
    BY <2>3, <2>5 DEF PCs, history, Update
  <2>7. Untouched(e)
    BY <2>4 DEF Inv, Core, Untouched
  <2>8. ~poisoned => e.high >= disk.high
    <3>1. ~poisoned => e.high = disk.high
      BY <2>4 DEF Inv, Core, InStep
    <3>2. disk.high \in Nat
      BY <2>1 DEF Database
    <3>. QED  BY <3>1, <3>2, SMT
  <2>9. Update(e, archive, "idle")
    BY <2>3 DEF e
  <2>10. /\ db' \in Database /\ disk' \in Database /\ archive' \in [JobIDs -> Job]
         /\ poisoned' \in BOOLEAN /\ pc' \in PCs
         /\ WellFormed(db') /\ WellFormed(disk')
         /\ InStep' /\ Reserved' /\ Untouched(db)' /\ Untouched(disk)'
         /\ AtMostOneInstall'
    BY <2>1, <2>4, <2>6, <2>7, <2>8, <2>9, <1>UpdateStep
  <2>11. Writing' /\ Holding'
    BY <2>6 DEF Writing, Holding
  <2>12. TypeOK'
    BY <2>5, <2>10 DEF Inv, TypeOK, history
  <2>. QED  BY <2>10, <2>11, <2>12 DEF Inv, Core
\* The cache, the clock and the installer of RAUC.
<1>AsideInv.
    ASSUME Inv, GC \/ Tick \/ FlashDone
    PROVE  Inv'
  <2>. USE <1>AsideInv
  <2>1. UNCHANGED <<storeVars, pc, write, applying, payload, healthySince, losses, history>>
    BY DEF GC, Tick, FlashDone
  <2>2. Writing' /\ Holding'
    BY <2>1 DEF Inv, Core, Writing, Holding, Release, storeVars, history
  <2>3. Core'
    BY <2>1, <2>2, <1>Steady DEF storeVars, history
  <2>4. now' \in Nat
    <3>1. now \in Nat
      BY Types
    <3>2. now' = now \/ now' = now + 1
      BY DEF GC, Tick, FlashDone
    <3>. QED  BY <3>1, <3>2, SMT
  <2>5. dev' \in DeviceState
    <3>1. dev \in DeviceState
      BY Types
    <3>2. dev' \in {dev, Flashed(dev), FlashFailed(dev)}
      BY DEF GC, Tick, FlashDone
    <3>. QED  BY <3>1, <3>2, DeviceTypes
  <2>6. cache' \subseteq SeqNumbers
    BY Types DEF GC, Tick, FlashDone
  <2>7. TypeOK'
    BY <2>1, <2>4, <2>5, <2>6 DEF Inv, TypeOK, storeVars, history
  <2>. QED  BY <2>3, <2>7 DEF Inv
\* A new process knows what is on disk and nothing else.
<1>FreshInv.
    ASSUME Inv, Restart \/ Boot
    PROVE  Inv'
  <2>. USE <1>FreshInv
  <2>1. /\ FreshProcess
        /\ UNCHANGED <<disk, archive, cache, installs>>
    BY DEF Restart, Boot
  <2>2. /\ db' = disk /\ disk' = disk /\ poisoned' = FALSE /\ pc' = "idle"
        /\ write' = NoWrite /\ applying' = NotApplying
        /\ healthySince' = 0 /\ okSince' = 0 /\ installs' = installs
    BY <2>1 DEF FreshProcess
  <2>3. Core'
    BY <2>2 DEF Inv, Core, InStep, Reserved, Untouched, Writing, Holding, AtMostOneInstall
  <2>4. write' \in [id : JobIDs \cup {""}, job : Job, next : PCs,
                    files : [Targets -> [current : Content, previous : Content]]]
    BY <2>2 DEF NoWrite, NoJob, Job, PCs, Content
  <2>5. now' \in Nat
    <3>1. now \in Nat
      BY Types
    <3>2. now' = now \/ now' = 1
      BY DEF Restart, Boot
    <3>. QED  BY <3>1, <3>2, SMT
  <2>6. losses' \in Nat
    <3>1. losses \in Nat
      BY Types
    <3>2. losses' = losses \/ losses' = losses + 1
      BY DEF Restart, Boot
    <3>. QED  BY <3>1, <3>2, SMT
  <2>7. dev' \in DeviceState
    <3>1. dev \in DeviceState
      BY Types
    <3>2. dev' = dev \/ \E slot \in BootChoices(dev) : dev' = BootedInto(dev, slot)
      BY DEF Restart, Boot
    <3>. QED  BY <3>1, <3>2, DeviceTypes
  <2>8. proven' \in BOOLEAN
    <3>1. proven \in BOOLEAN
      BY Types
    <3>2. proven' = proven \/ proven' = FALSE
      BY DEF Restart, Boot
    <3>. QED  BY <3>1, <3>2
  <2>9. payload' \in [Targets -> [current : Content, previous : Content]]
    <3>1. /\ payload \in [Targets -> [current : Content, previous : Content]]
          /\ write.files \in [Targets -> [current : Content, previous : Content]]
      BY DEF Inv, TypeOK
    <3>2. \A begun : \A t \in Targets :
             NotYetSettled(t, begun) \in [current : Content, previous : Content]
      BY <3>1 DEF NotYetSettled, Content
    <3>3. CASE \E ahead, begun : payload' =
                [t \in Targets |-> IF t \in ahead THEN NotYetSettled(t, begun) ELSE payload[t]]
      <4>1. PICK ahead, begun : payload' =
                [t \in Targets |-> IF t \in ahead THEN NotYetSettled(t, begun) ELSE payload[t]]
        BY <3>3
      <4>. QED  BY <3>1, <3>2, <4>1
    <3>4. CASE payload' = payload
      BY <3>1, <3>4
    <3>. QED  BY <3>3, <3>4 DEF Restart, Boot, FilesLeft
  <2>10. TypeOK'
    BY <2>1, <2>2, <2>4, <2>5, <2>6, <2>7, <2>8, <2>9, Types DEF Inv, TypeOK, PCs
  <2>. QED  BY <2>3, <2>10 DEF Inv
<1>. SUFFICES ASSUME Inv, [Next]_vars
              PROVE  Inv'
  OBVIOUS
<1>1. CASE Step
  BY <1>1, <1>WaitingInv, <1>UnderwaySaveInv, <1>RebootInv, <1>BootedInv, <1>HealthInv, <1>MarkInv,
     <1>BootCheckInv DEF Step
<1>2. CASE Continue
  BY <1>2, <1>WriteJournalInv, <1>MarkInv, <1>UnderwaySaveInv, <1>PayloadInv, <1>BackendInstallInv,
     <1>RebootInv, <1>BootCheckInv DEF Continue
<1>3. CASE Request
  BY <1>3, <1>SubmitInv, <1>AckInv, <1>AsideInv, <1>RebootInv, <1>MarkInv DEF Request
<1>4. CASE Environment
  BY <1>4, <1>AsideInv, <1>FreshInv DEF Environment
<1>5. CASE UNCHANGED vars
  <2>1. Writing' /\ Holding'
    BY <1>5 DEF Inv, Core, Writing, Holding, Release, vars
  <2>2. Core'
    BY <1>5, <2>1, <1>Steady DEF vars
  <2>3. TypeOK'
    BY <1>5 DEF Inv, TypeOK, vars
  <2>. QED  BY <2>2, <2>3 DEF Inv
<1>. QED  BY <1>1, <1>2, <1>3, <1>4, <1>5 DEF Next

\* Every variable keeps its type, for every set of jobs and releases, every limit
\* and any number of faults.
THEOREM TypeCorrect == Spec => []TypeOK
<1>1. Init => Inv
  BY InitInv
<1>2. Inv /\ [Next]_vars => Inv'
  BY NextInv
<1>3. Inv => TypeOK
  BY DEF Inv
<1>. QED  BY <1>1, <1>2, <1>3, PTL DEF Spec

\* The engine asks the backend at most once to install a release: no crash,
\* restart, power loss or failed journal write makes Step install it again.
THEOREM InstallsOnce == Spec => []AtMostOneInstall
<1>1. Init => Inv
  BY InitInv
<1>2. Inv /\ [Next]_vars => Inv'
  BY NextInv
<1>3. Inv => AtMostOneInstall
  BY DEF Inv, Core
<1>. QED  BY <1>1, <1>2, <1>3, PTL DEF Spec

-----------------------------------------------------------------------------
\* The journal

\* The state of the active job while the mutex is held at these points.
PointState ==
    /\ pc \in {"flashing", "inspect"} => Active(db).state = "installing"
    /\ pc = "commit" => Active(db).state = "committing"
    /\ pc = "rollback" => Active(db).state = "rollback_pending"
    /\ pc = "rebootJob" => Active(db).state = "awaiting_reboot"
    /\ pc \in {"abort", "aborted"} => Active(db).state = "needs_recovery"

\* One state may follow another in the state machine of a job, or is the same.
Follows(s, t) ==
    s = t \/ (s \in DOMAIN Lifecycle!Edges /\ t \in Lifecycle!Edges[s])

WriteFollows == pc = "write" => Follows(Active(db).state, write.job.state)

\* What is not in the journal has no sequence.
Vacant(d) == \A id \in JobIDs : d.jobs[id].state = "absent" => d.jobs[id].asg.seq = 0

\* The outbox limit validateDatabase checks.
Within(d) == d.outbox <= EventLimit

Cached(d) == \A id \in JobIDs : d.jobs[id].state = "verified" => d.jobs[id].asg.seq \in cache

WriteCached == pc = "write" /\ write.job.state = "verified" => write.job.asg.seq \in cache

\* A job that is verified on disk is the active one in memory, also after a failed write.
Behind == \A id \in JobIDs : disk.jobs[id].state = "verified" => db.active = id

Point == PointState /\ WriteFollows /\ WriteCached

Sound(d) == Vacant(d) /\ Within(d) /\ Cached(d)

JInv == Inv /\ Point /\ Sound(db) /\ Sound(disk) /\ Behind

-----------------------------------------------------------------------------
\* The steps that leave the journal alone

\* Such a step leaves the cache as large as it was and the operation at a point the
\* invariant knows.
Quiet ==
    /\ UNCHANGED <<db, disk, archive, poisoned>>
    /\ cache \subseteq cache'
    /\ Point'

\* The moves of the state machine.
LEMMA Moves ==
    /\ \A s \in Waiting : Follows(s, "failed")
    /\ Follows("accepted", "downloading")
    /\ Follows("downloading", "verified")
    /\ \A t \in {"installing", "committed"} : Follows("verified", t)
    /\ \A t \in {"awaiting_reboot", "needs_recovery"} : Follows("installing", t)
    /\ \A t \in {"checking_health", "rolled_back", "needs_recovery"} :
          Follows("awaiting_reboot", t)
    /\ \A t \in {"checking_health", "committing", "rollback_pending", "rolled_back",
                 "needs_recovery"} : Follows("checking_health", t)
    /\ \A t \in {"committed", "checking_health", "rolled_back", "needs_recovery"} :
          Follows("committing", t)
    /\ \A t \in {"rolled_back", "needs_recovery"} : Follows("rollback_pending", t)
    /\ Follows("needs_recovery", "failed")
    /\ \A s \in States : Follows(s, s)
BY SMT DEF Follows, Waiting, Lifecycle!Edges

\* The active job is in the journal.
LEMMA ActiveRecord ==
    ASSUME Inv, HasActive(db)
    PROVE  /\ Active(db) \in Job /\ db.active \in JobIDs
           /\ Active(db).state \in Waiting \cup Underway
           /\ Active(db) = db.jobs[db.active]
BY ActiveJob, Types DEF Active

-----------------------------------------------------------------------------
\* The steps that write the journal

\* The three outcomes of Store.Update.
LEMMA UpdateOutcomes ==
    ASSUME NEW d, NEW arc, NEW next, Update(d, arc, next)
    PROVE  \/ ~poisoned /\ db' = d /\ disk' = d /\ archive' = arc /\ pc' = next
           \/ ~poisoned /\ db' = db /\ disk' = d /\ archive' = arc /\ pc' = "idle"
           \/ UNCHANGED <<db, disk, archive>> /\ pc' = "idle"
BY DEF Update, storeVars

\* A verified job is the active one.
LEMMA VerifiedActive ==
    ASSUME NEW d, WellFormed(d), NEW id \in JobIDs, d.jobs[id].state = "verified"
    PROVE  d.active = id
BY DEF WellFormed, Terminal, Finished

\* What a save makes of a sound database.
LEMMA RecordedSound ==
    ASSUME JInv, pc = "write", ~OutboxFull(db)
    PROVE  LET d == Recorded(db, write.id, write.job) IN
           /\ d \in Database /\ WellFormed(d) /\ Sound(d)
           /\ d.high = db.high /\ db.active \in JobIDs
           /\ d.jobs = [db.jobs EXCEPT ![db.active] = write.job]
           /\ ~Terminal(write.job.state) => d.active = db.active
           /\ \A id \in JobIDs : d.jobs[id].state = "verified" => db.active = id
<1> DEFINE d == Recorded(db, write.id, write.job)
<1>1. /\ HasActive(db) /\ write.id = db.active /\ write.job.asg = Active(db).asg
      /\ write.job.state \in States /\ write.job \in Job
      /\ write.job.state \in Underway =>
            write.job.oldSlot \in Slots /\ write.job.targetSlot \in Slots
  BY DEF JInv, Inv, TypeOK, Core, Writing
<1>2. db \in Database /\ WellFormed(db) /\ Sound(db)
  BY DEF JInv, Inv, TypeOK, Core
<1>3. /\ db.active \in JobIDs /\ db.jobs \in [JobIDs -> Job] /\ db.outbox \in Nat
      /\ db.jobs[db.active].state # "absent"
  <2>1. Active(db).state \in Waiting \cup Underway
    BY <1>1, <1>2, ActiveJob
  <2> QED
    BY <1>1, <1>2, <2>1 DEF Database, HasActive, Active, Waiting, Underway
<1>4. /\ d \in Database /\ WellFormed(d) /\ d.high = db.high
      /\ d.jobs = [db.jobs EXCEPT ![db.active] = write.job]
  <2> DEFINE e == Recorded(db, db.active, write.job)
  <2>1. /\ e \in Database /\ WellFormed(e) /\ e.high = db.high
        /\ e.jobs = [db.jobs EXCEPT ![db.active] = write.job]
    BY <1>1, <1>2, RecordedOK
  <2>2. d = e
    BY <1>1
  <2> HIDE DEF d, e
  <2> QED
    BY <2>1, <2>2
<1>5. d.outbox = db.outbox + 1 /\ (~Terminal(write.job.state) => d.active = db.active)
  BY <1>1, <1>2 DEF Recorded, AddEvent, Database
<1> HIDE DEF d
<1>6. write.job.state # "absent"
  BY <1>1 DEF States, Waiting, Underway, Finished
<1>7. Within(d)
  BY <1>3, <1>5, LimitsAssumption, SMT DEF OutboxFull, Within
<1>8. Vacant(d)
  BY <1>2, <1>3, <1>4, <1>6 DEF Sound, Vacant
<1>9. Cached(d)
  <2>1. write.job.state = "verified" => write.job.asg.seq \in cache
    BY DEF JInv, Point, WriteCached
  <2> QED
    BY <1>2, <1>3, <1>4, <2>1 DEF Sound, Cached
<1>10. \A id \in JobIDs : d.jobs[id].state = "verified" => db.active = id
  BY <1>2, <1>3, <1>4, VerifiedActive, SMT
<1> QED
  BY <1>3, <1>4, <1>5, <1>7, <1>8, <1>9, <1>10 DEF Sound, d

\* A submission adds a job.
LEMMA AcceptedSound ==
    ASSUME JInv, NEW a \in Assignments, ~HasActive(db), ~OutboxFull(db), a.seq > db.high
    PROVE  LET d == Accepted(db, a) IN
           /\ d \in Database /\ WellFormed(d) /\ Sound(d)
           /\ \A id \in JobIDs : d.jobs[id].state # "verified"
<1> DEFINE d == Accepted(db, a)
<1>1. db \in Database /\ WellFormed(db) /\ Sound(db)
  BY DEF JInv, Inv, TypeOK, Core
<1>2. /\ d \in Database /\ WellFormed(d) /\ a.job \in JobIDs
      /\ d.jobs = [db.jobs EXCEPT ![a.job] = NewJob(a)]
  BY <1>1, AcceptedOK
<1>3. db.jobs \in [JobIDs -> Job] /\ db.outbox \in Nat
  BY <1>1 DEF Database
<1>4. NewJob(a).state = "accepted"
  BY DEF NewJob, NoJob
<1>5. d.outbox = db.outbox + 1
  BY <1>1 DEF Accepted, AddEvent, Database
<1> HIDE DEF d
<1>6. \A id \in JobIDs : d.jobs[id].state # "verified"
  <2>1. \A id \in JobIDs : db.jobs[id].state # "verified"
    BY <1>1, VerifiedActive, JobsAssumption DEF HasActive
  <2> QED
    BY <1>2, <1>3, <1>4, <2>1
<1>7. Within(d)
  BY <1>3, <1>5, LimitsAssumption, SMT DEF OutboxFull, Within
<1>8. Vacant(d) /\ Cached(d)
  BY <1>1, <1>2, <1>3, <1>4, <1>6 DEF Sound, Vacant, Cached
<1> QED
  BY <1>2, <1>6, <1>7, <1>8 DEF Sound, d

-----------------------------------------------------------------------------
\* The invariant

\* What writes the journal, and everything else.
LEMMA NextQuiet ==
    Inv /\ Point /\ Next =>
        \/ Quiet
        \/ WriteJournal \/ (\E a \in Assignments : Submit(a)) \/ Ack
        \/ NormalBootSeen \/ ConfirmBoot \/ Restart \/ Boot \/ GC
\* The start of a save.
<1>SaveQuiet.
    ASSUME NEW j \in Job, NEW state, NEW next, SaveRecord(j, state, next),
           UNCHANGED storeVars, cache \subseteq cache',
           Follows(Active(db).state, state),
           state = "verified" => j.asg.seq \in cache'
    PROVE  Quiet
  <2>. USE <1>SaveQuiet
  <2>1. /\ pc' = "write" /\ write'.job.state = state /\ write'.job.asg = j.asg
    BY DEF SaveRecord, Job
  <2>2. Active(db)' = Active(db)
    BY DEF storeVars, Active
  <2>3. PointState' /\ WriteFollows' /\ WriteCached'
    BY <2>1, <2>2 DEF PointState, WriteFollows, WriteCached
  <2> QED
    BY <2>3 DEF Quiet, Point, storeVars
\* Step while the job waits.
<1>WaitingQuiet.
    ASSUME Inv,
           \/ StepExpired \/ StepRejected \/ StepAccepted \/ StepDeferred
           \/ StepDownloaded \/ StepVerified
    PROVE  Quiet
  <2>. USE <1>WaitingQuiet
  <2>1. pc = "idle" /\ HasActive(db) /\ UNCHANGED storeVars
    BY DEF StepExpired, StepRejected, StepAccepted, StepDeferred, StepDownloaded,
       StepVerified, Stepping
  <2>2. Active(db) \in Job
    BY <2>1, ActiveRecord
  <2>3. CASE StepExpired \/ StepRejected
    <3>1. SaveRecord(Active(db), "failed", "idle") /\ Active(db).state \in Waiting
          /\ cache' = cache
      BY <2>3 DEF StepExpired, StepRejected, BeginSave, Stepping
    <3> QED
      BY <2>1, <2>2, <3>1, Moves, <1>SaveQuiet
  <2>4. CASE StepAccepted
    <3>1. SaveRecord(Armed(Active(db)), "downloading", "idle")
          /\ Active(db).state = "accepted" /\ cache' = cache
      BY <2>4 DEF StepAccepted, BeginSave, Stepping
    <3>2. Armed(Active(db)) \in Job
      <4>1. now + Jitter \in Nat
        <5>1. now \in Nat
          BY Types
        <5> QED
          BY <5>1, EngineAssumption, SMT
      <4>2. \A n \in Nat : [Active(db) EXCEPT !.downloadAfter = n] \in Job
        BY <2>2 DEF Job
      <4> QED
        BY <2>2, <4>1, <4>2 DEF Armed
    <3> QED
      BY <2>1, <3>1, <3>2, Moves, <1>SaveQuiet
  <2>5. CASE StepDeferred
    <3>1. SaveRecord([Active(db) EXCEPT !.deferred = TRUE], "downloading", "idle")
          /\ Active(db).state = "downloading" /\ cache' = cache
      BY <2>5 DEF StepDeferred, BeginSave, Stepping
    <3>2. [Active(db) EXCEPT !.deferred = TRUE] \in Job
      BY <2>2 DEF Job
    <3>3. Follows("downloading", "downloading")
      BY DEF Follows
    <3> QED
      BY <2>1, <3>1, <3>2, <3>3, <1>SaveQuiet
  <2>6. CASE StepDownloaded
    <3>1. SaveRecord([Active(db) EXCEPT !.deferred = FALSE], "verified", "idle")
          /\ Active(db).state = "downloading" /\ cache' = cache \cup {Active(db).asg.seq}
      BY <2>6 DEF StepDownloaded, BeginSave, Stepping, Fetched
    <3>2. /\ [Active(db) EXCEPT !.deferred = FALSE] \in Job
          /\ [Active(db) EXCEPT !.deferred = FALSE].asg = Active(db).asg
      BY <2>2 DEF Job
    <3>3. cache \subseteq cache' /\ Active(db).asg.seq \in cache'
      BY <3>1
    <3>4. Follows(Active(db).state, "verified")
      BY <3>1, Moves
    <3> QED
      BY <2>1, <3>1, <3>2, <3>3, <3>4, <1>SaveQuiet
  <2>7. CASE StepVerified
    <3>1. pc' = "apply" /\ cache' = cache
      BY <2>7 DEF StepVerified
    <3> QED
      BY <2>1, <3>1 DEF Quiet, Point, PointState, WriteFollows, WriteCached, storeVars
  <2> QED
    BY <2>3, <2>4, <2>5, <2>6, <2>7
\* The payloads, and the checks before an installation.
<1>PayloadQuiet.
    ASSUME Inv,
           \/ \E t \in Targets : ReplacePayload(t)
           \/ PayloadCopied \/ PayloadFailed \/ PayloadsInPlace
           \/ PreinstallError \/ PreinstallRejected \/ BeginInstall
    PROVE  Quiet
  <2>. USE <1>PayloadQuiet
  <2>1. /\ pc \in {"apply", "copy", "preinstall"}
        /\ UNCHANGED storeVars /\ cache' = cache
    BY DEF ReplacePayload, PayloadCopied, PayloadFailed, PayloadsInPlace, PreinstallError,
       PreinstallRejected, BeginInstall
  <2>2. HasActive(db) /\ Active(db).state = "verified"
    BY <2>1 DEF Inv, Core, Holding
  <2>3. Active(db) \in Job
    BY <2>2, ActiveRecord
  <2>4. WithPayloads \in Job
    <3>1. \A j \in Job, b \in BOOLEAN : [j EXCEPT !.payloadsApplied = b] \in Job
      BY DEF Job
    <3>2. (Release.targets # {}) \in BOOLEAN
      OBVIOUS
    <3> QED
      BY <2>3, <3>1, <3>2 DEF WithPayloads
  <2>5. \A t \in {"failed", "installing", "committed"} : Follows("verified", t)
    BY Moves DEF Waiting
  <2>6. ASSUME NEW j \in Job, NEW state \in {"failed", "installing", "committed"}, NEW next,
               SaveRecord(j, state, next)
        PROVE  Quiet
    BY <2>1, <2>2, <2>5, <2>6, <1>SaveQuiet
  <2>7. CASE pc' \in {"copy", "apply", "preinstall", "idle"}
    BY <2>1, <2>7 DEF Quiet, Point, PointState, WriteFollows, WriteCached, storeVars
  <2>8. CASE PayloadFailed \/ PreinstallRejected
    BY <2>3, <2>4, <2>6, <2>8 DEF PayloadFailed, PreinstallRejected, BeginSave
  <2>9. CASE PayloadsInPlace
    BY <2>4, <2>6, <2>7, <2>9 DEF PayloadsInPlace, BeginSave
  <2>10. CASE BeginInstall
    <3> DEFINE j == [WithPayloads EXCEPT !.oldSlot = dev.booted,
                                         !.oldVersion = dev.version[dev.booted],
                                         !.targetSlot = Other(dev),
                                         !.bootID = dev.bootID]
    <3>1. /\ dev.booted \in Slots /\ Other(dev) \in Slots /\ dev.bootID \in Nat
          /\ dev.version[dev.booted] \in Versions \cup {"torn"}
      BY Types, DeviceTypes DEF DeviceState
    <3>2. j \in Job
      BY <2>4, <3>1 DEF Job
    <3> QED
      BY <2>6, <2>10, <3>2 DEF BeginInstall, BeginSave
  <2>11. CASE (\E t \in Targets : ReplacePayload(t)) \/ PayloadCopied \/ PreinstallError
    BY <2>7, <2>11 DEF ReplacePayload, PayloadCopied, PreinstallError
  <2> QED
    BY <2>8, <2>9, <2>10, <2>11
\* The installation and the inspection of its result.
<1>InstallQuiet.
    ASSUME Inv, Point,
           \/ SimulatorInstall \/ InstallBundle \/ InstallCompleted \/ InstallError
           \/ Inspect \/ StepInstalling
    PROVE  Quiet
  <2>. USE <1>InstallQuiet
  <2>1. UNCHANGED storeVars /\ cache' = cache
    BY DEF SimulatorInstall, InstallBundle, InstallCompleted, InstallError, Inspect,
       StepInstalling
  <2>2. HasActive(db) /\ Active(db).state = "installing"
    <3>1. CASE pc \in {"install", "flashing", "inspect"}
      BY <3>1 DEF Inv, Core, Holding, Point, PointState
    <3>2. CASE StepInstalling
      BY <3>2 DEF StepInstalling, Stepping
    <3> QED
      BY <3>1, <3>2 DEF SimulatorInstall, InstallBundle, InstallCompleted, InstallError, Inspect
  <2>3. Active(db) \in Job
    BY <2>2, ActiveRecord
  <2>4. CASE SimulatorInstall \/ InstallBundle \/ InstallCompleted
    <3>1. pc' \in {"flashing", "inspect"}
      BY <2>4 DEF SimulatorInstall, InstallBundle, InstallCompleted
    <3>2. Active(db)' = Active(db)
      BY <2>1 DEF storeVars, Active
    <3> QED
      BY <2>1, <2>2, <3>1, <3>2 DEF Quiet, Point, PointState, WriteFollows, WriteCached, storeVars
  <2>5. CASE InstallError \/ Inspect \/ StepInstalling
    <3>1. \E t \in {"awaiting_reboot", "needs_recovery"} : SaveRecord(Active(db), t, "idle")
      BY <2>5 DEF InstallError, Inspect, StepInstalling, BeginSave
    <3>2. PICK t \in {"awaiting_reboot", "needs_recovery"} : SaveRecord(Active(db), t, "idle")
      BY <3>1
    <3> QED
      BY <2>1, <2>2, <2>3, <3>2, Moves, <1>SaveQuiet
  <2> QED
    BY <2>4, <2>5
\* Reboots and what they show.
<1>BootQuiet.
    ASSUME Inv, Point,
           \/ StepAutoReboot \/ RequestReboot \/ Reboot \/ RebootJob
           \/ StepBooted \/ StepBootedAgain
    PROVE  Quiet
  <2>. USE <1>BootQuiet
  <2> DEFINE j == Active(db)
  <2>1. UNCHANGED storeVars /\ cache' = cache
    BY DEF StepAutoReboot, RequestReboot, Reboot, RebootJob, StepBooted, StepBootedAgain
  <2>2. CASE pc' = "idle"
    BY <2>1, <2>2 DEF Quiet, Point, PointState, WriteFollows, WriteCached, storeVars
  <2>3. ASSUME HasActive(db)
        PROVE  /\ j \in Job
               /\ \A b \in BOOLEAN : [j EXCEPT !.rebootRequested = b] \in Job
               /\ [j EXCEPT !.bootID = dev.bootID] \in Job
               /\ [j EXCEPT !.healthStarted = now, !.bootID = dev.bootID] \in Job
    <3>1. j \in Job
      BY <2>3, ActiveRecord
    <3>2. now \in Nat /\ dev.bootID \in Nat
      BY Types DEF DeviceState
    <3> HIDE DEF j
    <3> QED
      BY <3>1, <3>2 DEF Job
  <2>4. CASE StepAutoReboot \/ RequestReboot \/ RebootJob
    <3>1. HasActive(db) /\ j.state = "awaiting_reboot"
      BY <2>4 DEF StepAutoReboot, RequestReboot, RebootJob, Stepping, Inv, Core, Holding,
         Point, PointState
    <3>2. \/ pc' = "idle"
          \/ \E b \in BOOLEAN, next \in PCs :
                SaveRecord([j EXCEPT !.rebootRequested = b], "awaiting_reboot", next)
      BY <2>4 DEF StepAutoReboot, RequestReboot, RebootJob, BeginReboot, BeginSave, PCs
    <3>3. Follows("awaiting_reboot", "awaiting_reboot")
      BY DEF Follows
    <3> QED
      BY <2>1, <2>2, <2>3, <3>1, <3>2, <3>3, <1>SaveQuiet
  <2>5. CASE StepBooted \/ StepBootedAgain
    <3>1. /\ HasActive(db)
          /\ j.state \in {"awaiting_reboot", "checking_health", "committing"}
      BY <2>5 DEF StepBooted, StepBootedAgain, Stepping
    <3>2. BootOutcome(j, "checking_health") \in {"rolled_back", "checking_health", "needs_recovery"}
      BY DEF BootOutcome
    <3>3. \E k \in Job, t \in {"rolled_back", "checking_health", "needs_recovery"} :
              SaveRecord(k, t, "idle")
      BY <2>3, <2>5, <3>1, <3>2 DEF StepBooted, StepBootedAgain, BeginSave
    <3>4. PICK k \in Job, t \in {"rolled_back", "checking_health", "needs_recovery"} :
              SaveRecord(k, t, "idle")
      BY <3>3
    <3>5. Follows(j.state, t)
      BY <3>1, Moves
    <3> QED
      BY <2>1, <3>4, <3>5, <1>SaveQuiet
  <2> QED
    BY <2>2, <2>4, <2>5 DEF Reboot
\* Health, marks and what follows them, with a job and without.
<1>HealthQuiet.
    ASSUME Inv, Point,
           \/ StepHealthDeadline \/ StepUnhealthy \/ StepHealthy \/ StepMarkGood
           \/ SaveCommitted \/ StepRolledBack \/ StepMarkBad \/ ActivateOldSlot
           \/ RecoverAbort \/ AbortActivate \/ AbortSave
           \/ NormalBootDeadline \/ ActivateFallback \/ NormalBootUnhealthy
           \/ NormalBootHealthy
    PROVE  Quiet
  <2>. USE <1>HealthQuiet
  <2> DEFINE j == Active(db)
  <2>1. UNCHANGED storeVars /\ cache' = cache
    BY DEF StepHealthDeadline, StepUnhealthy, StepHealthy, StepMarkGood, SaveCommitted,
       StepRolledBack, StepMarkBad, ActivateOldSlot, RecoverAbort, AbortActivate, AbortSave,
       NormalBootDeadline, ActivateFallback, NormalBootUnhealthy, NormalBootHealthy
  <2>2. Active(db)' = Active(db)
    BY <2>1 DEF storeVars, Active
  <2>3. CASE pc' \in {"idle", "reboot", "fallback", "confirm"}
    BY <2>1, <2>3 DEF Quiet, Point, PointState, WriteFollows, WriteCached, storeVars
  <2>4. ASSUME HasActive(db), NEW t, Follows(j.state, t), t # "verified",
               SaveRecord(j, t, "idle")
        PROVE  Quiet
    <3>1. j \in Job
      BY <2>4, ActiveRecord
    <3> QED
      BY <2>1, <2>4, <3>1, <1>SaveQuiet
  <2>5. CASE StepMarkGood \/ StepMarkBad \/ RecoverAbort
    <3>1. \/ pc' = "commit" /\ j.state = "committing"
          \/ pc' = "rollback" /\ j.state = "rollback_pending"
          \/ pc' = "abort" /\ j.state = "needs_recovery"
      BY <2>5 DEF StepMarkGood, StepMarkBad, RecoverAbort, Checking, Stepping
    <3> QED
      BY <2>1, <2>2, <3>1 DEF Quiet, Point, PointState, WriteFollows, WriteCached, storeVars
  <2>6. CASE StepUnhealthy \/ ActivateOldSlot \/ NormalBootDeadline \/ ActivateFallback
             \/ NormalBootUnhealthy \/ NormalBootHealthy
    <3>1. pc' \in {"idle", "reboot", "fallback", "confirm"}
      BY <2>6 DEF StepUnhealthy, ActivateOldSlot, NormalBootDeadline, ActivateFallback,
         NormalBootUnhealthy, NormalBootHealthy, Checking, Stepping, Confirming
    <3> QED
      BY <3>1, <2>3
  <2>7. CASE AbortActivate
    <3>1. j.state = "needs_recovery" /\ pc' \in {"aborted", "idle"}
      BY <2>7 DEF AbortActivate, Point, PointState
    <3> QED
      BY <2>1, <2>2, <3>1 DEF Quiet, Point, PointState, WriteFollows, WriteCached, storeVars
  <2>8. CASE StepHealthDeadline \/ StepHealthy \/ StepRolledBack
    <3>1. HasActive(db) /\ j.state \in {"checking_health", "rollback_pending"}
      BY <2>8 DEF StepHealthDeadline, StepHealthy, StepRolledBack, Checking, Stepping
    <3>2. CASE StepHealthDeadline
      <4>1. j.state = "checking_health" /\ SaveRecord(j, "rollback_pending", "idle")
        BY <3>2 DEF StepHealthDeadline, BeginSave, Checking, Stepping
      <4> QED
        BY <2>4, <3>1, <4>1, Moves
    <3>3. CASE StepHealthy
      <4>1. /\ j.state = "checking_health"
            /\ pc' = "idle" \/ SaveRecord(j, "committing", "idle")
        BY <3>3 DEF StepHealthy, BeginSave, Checking, Stepping
      <4> QED
        BY <2>3, <2>4, <3>1, <4>1, Moves
    <3>4. CASE StepRolledBack
      <4>1. /\ j.state = "rollback_pending"
            /\ \E t \in {"rolled_back", "needs_recovery"} : SaveRecord(j, t, "idle")
        BY <3>4 DEF StepRolledBack, BeginSave, Stepping
      <4> QED
        BY <2>4, <3>1, <4>1, Moves
    <3> QED
      BY <2>8, <3>2, <3>3, <3>4
  <2>9. CASE SaveCommitted \/ AbortSave
    <3>1. /\ HasActive(db)
          /\ \/ j.state = "committing" /\ SaveRecord(j, "committed", "idle")
             \/ j.state = "needs_recovery" /\ SaveRecord(j, "failed", "idle")
      BY <2>9 DEF SaveCommitted, AbortSave, BeginSave, Inv, Core, Holding, Point, PointState
    <3> QED
      BY <2>4, <3>1, Moves
  <2> QED
    BY <2>5, <2>6, <2>7, <2>8, <2>9
<1>. SUFFICES ASSUME Inv, Point, Next
              PROVE  \/ Quiet
                     \/ WriteJournal \/ (\E a \in Assignments : Submit(a)) \/ Ack
                     \/ NormalBootSeen \/ ConfirmBoot \/ Restart \/ Boot \/ GC
  OBVIOUS
<1>1. CASE Step
  BY <1>1, <1>WaitingQuiet, <1>InstallQuiet, <1>BootQuiet, <1>HealthQuiet DEF Step
<1>2. CASE Continue
  BY <1>2, <1>PayloadQuiet, <1>InstallQuiet, <1>BootQuiet, <1>HealthQuiet DEF Continue
<1>3. CASE Request
  BY <1>3, <1>BootQuiet, <1>HealthQuiet DEF Request
<1>4. CASE Environment
  <2>1. CASE FlashDone \/ Tick
    <3>1. UNCHANGED <<db, disk, archive, poisoned, pc, write, cache>>
      BY <2>1 DEF FlashDone, Tick, storeVars
    <3>2. Active(db)' = Active(db)
      BY <3>1 DEF Active
    <3>3. Point'
      BY <3>1, <3>2 DEF Point, PointState, WriteFollows, WriteCached
    <3> QED
      BY <3>1, <3>3 DEF Quiet
  <2> QED
    BY <1>4, <2>1 DEF Environment
<1> QED
  BY <1>1, <1>2, <1>3, <1>4 DEF Next

\* A new journal.
LEMMA InitJInv == Init => JInv
<1> SUFFICES ASSUME Init PROVE JInv
  OBVIOUS
<1>1. NoJob.state = "absent" /\ NoJob.asg.seq = 0
  BY DEF NoJob, NoAssignment
<1>2. /\ db = EmptyDatabase /\ disk = EmptyDatabase
      /\ \A id \in JobIDs : EmptyDatabase.jobs[id] = NoJob
      /\ EmptyDatabase.outbox = 0
  BY DEF Init, EmptyDatabase
<1>4. Within(EmptyDatabase)
  BY <1>2, LimitsAssumption, SMT DEF Within
<1>5. Vacant(EmptyDatabase) /\ Cached(EmptyDatabase)
  BY <1>1, <1>2 DEF Vacant, Cached
<1>6. Behind
  BY <1>1, <1>2 DEF Behind
<1>7. Point
  BY DEF Init, Point, PointState, WriteFollows, WriteCached
<1> QED
  BY <1>2, <1>4, <1>5, <1>6, <1>7, InitInv DEF JInv, Sound

\* Every step keeps the invariant.
LEMMA NextJInv == JInv /\ [Next]_vars => JInv'
\* A transaction with a sound database keeps the invariant, whether it succeeds or not.
<1>UpdateSound.
    ASSUME JInv, NEW d, WellFormed(d), Sound(d), NEW arc, NEW next, Update(d, arc, next),
           cache' = cache,
           \/ next \in {"idle", "install"}
           \/ next = "rebootJob" /\ Active(d).state = "awaiting_reboot",
           \A id \in JobIDs : d.jobs[id].state = "verified" => db.active = id
    PROVE  Point' /\ Sound(db)' /\ Sound(disk)' /\ Behind'
  <2>. USE <1>UpdateSound
  <2>2. Sound(db)' /\ Sound(disk)'
    <3>1. Sound(db) /\ Sound(disk)
      BY DEF JInv
    <3> QED
      BY <3>1, UpdateOutcomes DEF Sound, Vacant, Within, Cached
  <2>3. Behind'
    <3>1. \A id \in JobIDs : d.jobs[id].state = "verified" => d.active = id
      BY VerifiedActive
    <3> QED
      BY <3>1, UpdateOutcomes DEF JInv, Behind
  <2>4. Point'
    BY UpdateOutcomes DEF Point, PointState, WriteFollows, WriteCached, Active
  <2> QED
    BY <2>2, <2>3, <2>4
\* A database with the same jobs and an outbox within its limit is as sound.
<1>SameJobs.
    ASSUME NEW d, Sound(d), NEW e, e.jobs = d.jobs, e.outbox <= EventLimit
    PROVE  Sound(e)
  BY <1>SameJobs DEF Sound, Vacant, Within, Cached
\* The transaction of a save.
<1>WriteSound.
    ASSUME JInv, WriteJournal
    PROVE  Point' /\ Sound(db)' /\ Sound(disk)' /\ Behind'
  <2>. USE <1>WriteSound
  <2>1. pc = "write" /\ cache' = cache
    BY DEF WriteJournal
  <2>2. CASE OutboxFull(db)
    <3>1. pc' = "idle" /\ UNCHANGED <<db, disk>>
      BY <2>2 DEF WriteJournal, storeVars
    <3> QED
      BY <2>1, <3>1 DEF JInv, Point, PointState, WriteFollows, WriteCached, Sound, Vacant,
         Within, Cached, Behind
  <2>3. CASE ~OutboxFull(db)
    <3> DEFINE d == Recorded(db, write.id, write.job)
    <3>1. Update(d, archive, write.next)
      BY <2>3 DEF WriteJournal
    <3>2. /\ WellFormed(d) /\ Sound(d) /\ db.active \in JobIDs
          /\ d.jobs = [db.jobs EXCEPT ![db.active] = write.job]
          /\ ~Terminal(write.job.state) => d.active = db.active
          /\ \A id \in JobIDs : d.jobs[id].state = "verified" => db.active = id
      BY <2>1, <2>3, RecordedSound
    <3> HIDE DEF d
    <3>3. \/ write.next \in {"idle", "install"}
          \/ write.next = "rebootJob" /\ Active(d).state = "awaiting_reboot"
      <4>1. /\ write.next \in {"idle", "install", "rebootJob"}
            /\ write.next = "rebootJob" => write.job.state = "awaiting_reboot"
            /\ db.jobs \in [JobIDs -> Job]
        BY <2>1 DEF JInv, Inv, Core, Writing, TypeOK, Database
      <4>2. write.job.state = "awaiting_reboot" => Active(d) = write.job
        BY <3>2, <4>1 DEF Active, Terminal, Finished
      <4> QED
        BY <4>1, <4>2
    <3> QED
      BY <2>1, <3>1, <3>2, <3>3, <1>UpdateSound
  <2> QED
    BY <2>2, <2>3
\* compactHot takes a job out.
<1>WithoutSound.
    ASSUME NEW d \in Database, WellFormed(d), Sound(d), NEW id \in Oldest(d)
    PROVE  Sound(Without(d, id))
  <2>. USE <1>WithoutSound
  <2> DEFINE e == Without(d, id)
  <2>1. /\ e.jobs = [d.jobs EXCEPT ![id] = NoJob] /\ id \in JobIDs
        /\ d.jobs \in [JobIDs -> Job]
    BY WithoutOK DEF Database
  <2>2. e.outbox = d.outbox
    BY DEF Without, Database
  <2>3. NoJob.state = "absent" /\ NoJob.asg.seq = 0
    BY DEF NoJob, NoAssignment
  <2> HIDE DEF e
  <2>4. Vacant(e) /\ Cached(e)
    BY <2>1, <2>3 DEF Sound, Vacant, Cached
  <2> QED
    BY <2>2, <2>4 DEF Sound, Within, e
\* Submit.
<1>SubmitSound.
    ASSUME JInv, NEW a \in Assignments, Submit(a)
    PROVE  Point' /\ Sound(db)' /\ Sound(disk)' /\ Behind'
  <2>. USE <1>SubmitSound
  <2> DEFINE d == Accepted(db, a)
  <2>1. ~HasActive(db) /\ ~OutboxFull(db) /\ a.seq > db.high /\ cache' = cache
    BY DEF Submit
  <2>2. /\ d \in Database /\ WellFormed(d) /\ Sound(d)
        /\ \A id \in JobIDs : d.jobs[id].state # "verified"
    BY <2>1, AcceptedSound
  <2>3. \/ OverHotLimit(d) /\ \E id \in Oldest(d) :
               Update(Without(d, id), [archive EXCEPT ![id] = d.jobs[id]], "idle")
        \/ ~OverHotLimit(d) /\ Update(d, archive, "idle")
    BY DEF Submit
  <2> HIDE DEF d
  <2>4. CASE ~OverHotLimit(d) /\ Update(d, archive, "idle")
    BY <2>1, <2>2, <2>4, <1>UpdateSound
  <2>5. CASE \E id \in Oldest(d) :
                 Update(Without(d, id), [archive EXCEPT ![id] = d.jobs[id]], "idle")
    <3>1. PICK id \in Oldest(d) :
              Update(Without(d, id), [archive EXCEPT ![id] = d.jobs[id]], "idle")
      BY <2>5
    <3> DEFINE e == Without(d, id)
    <3>2. Sound(e)
      BY <2>2, <1>WithoutSound
    <3>3. WellFormed(e) /\ e.jobs = [d.jobs EXCEPT ![id] = NoJob] /\ id \in JobIDs
      BY <2>2, WithoutOK
    <3> HIDE DEF e
    <3>4. \A other \in JobIDs : e.jobs[other].state # "verified"
      <4>1. NoJob.state # "verified" /\ d.jobs \in [JobIDs -> Job]
        BY <2>2 DEF NoJob, Database
      <4> QED
        BY <2>2, <3>3, <4>1
    <3> QED
      BY <2>1, <3>1, <3>2, <3>3, <3>4, <1>UpdateSound DEF e
  <2> QED
    BY <2>3, <2>4, <2>5
\* Ack changes the outbox only, in the middle of any operation.
<1>AckSound.
    ASSUME JInv, Ack
    PROVE  Point' /\ Sound(db)' /\ Sound(disk)' /\ Behind'
  <2>. USE <1>AckSound
  <2>1. db \in Database /\ Sound(db) /\ Sound(disk) /\ Behind
    BY DEF JInv, Inv, TypeOK
  <2>2. ~poisoned /\ db = disk
    BY DEF Ack, JInv, Inv, Core, InStep
  <2>3. PICK left \in 0..db.outbox :
            /\ db' \in {db, [db EXCEPT !.outbox = left]}
            /\ disk' \in {disk, [db EXCEPT !.outbox = left]}
    BY DEF Ack
  <2> DEFINE e == [db EXCEPT !.outbox = left]
  <2>4. /\ e.jobs = db.jobs /\ e.active = db.active /\ e.outbox = left
    BY <2>1 DEF Database
  <2>5. left <= EventLimit
    <3>1. db.outbox \in Nat /\ db.outbox <= EventLimit
      BY <2>1 DEF Database, Sound, Within
    <3> QED
      BY <3>1, LimitsAssumption, SMT
  <2>6. Sound(e)
    BY <2>1, <2>4, <2>5, <1>SameJobs
  <2>7. /\ db' \in {db, e} /\ disk' \in {db, e}
    BY <2>2, <2>3
  <2> HIDE DEF e
  <2>8. UNCHANGED <<pc, write, cache>>
    BY DEF Ack
  <2>9. /\ db'.jobs = db.jobs /\ db'.active = db.active /\ disk'.jobs = disk.jobs
    BY <2>2, <2>4, <2>7
  <2>10. Sound(db)' /\ Sound(disk)'
    BY <2>1, <2>6, <2>7, <2>8 DEF Sound, Vacant, Within, Cached
  <2>11. Behind' /\ Point'
    BY <2>1, <2>8, <2>9 DEF JInv, Behind, Point, PointState, WriteFollows, WriteCached, Active
  <2> QED
    BY <2>10, <2>11
\* confirmNormalBoot changes the boot check only.
<1>BootCheckSound.
    ASSUME JInv, NormalBootSeen \/ ConfirmBoot
    PROVE  Point' /\ Sound(db)' /\ Sound(disk)' /\ Behind'
  <2>. USE <1>BootCheckSound
  <2>1. db \in Database /\ WellFormed(db) /\ Sound(db)
    BY DEF JInv, Inv, TypeOK, Core
  <2>2. \E b \in BootCheck : Update([db EXCEPT !.bootCheck = b], archive, "idle")
    <3>1. CASE NormalBootSeen
      <4>1. [bootID |-> dev.bootID, started |-> now, confirmed |-> FALSE] \in BootCheck
        BY Types DEF JInv, DeviceState, BootCheck
      <4> QED
        BY <3>1, <4>1 DEF NormalBootSeen
    <3>2. CASE ConfirmBoot
      <4> DEFINE b == [db.bootCheck EXCEPT !.confirmed = TRUE]
      <4>1. db.bootCheck \in BootCheck
        BY <2>1 DEF Database
      <4>2. b \in BootCheck
        BY <4>1 DEF BootCheck
      <4>3. [db EXCEPT !.bootCheck.confirmed = TRUE] = [db EXCEPT !.bootCheck = b]
        OBVIOUS
      <4> QED
        BY <3>2, <4>2, <4>3 DEF ConfirmBoot
    <3> QED
      BY <3>1, <3>2
  <2>3. PICK b \in BootCheck : Update([db EXCEPT !.bootCheck = b], archive, "idle")
    BY <2>2
  <2> DEFINE e == [db EXCEPT !.bootCheck = b]
  <2>4. WellFormed(e) /\ e.jobs = db.jobs /\ e.active = db.active
    BY <2>1, SideFields
  <2>5. e.outbox = db.outbox
    BY <2>1 DEF Database
  <2>6. Update(e, archive, "idle") /\ cache' = cache
    BY <2>3 DEF NormalBootSeen, ConfirmBoot
  <2> HIDE DEF e
  <2>7. Sound(e)
    BY <2>1, <2>4, <2>5, <1>SameJobs DEF Sound, Within
  <2>8. \A id \in JobIDs : e.jobs[id].state = "verified" => db.active = id
    BY <2>1, <2>4, VerifiedActive
  <2> QED
    BY <2>4, <2>6, <2>7, <2>8, <1>UpdateSound
\* A new process reads the disk back; a cleanup finds no verified job.
<1>FreshSound.
    ASSUME JInv, Restart \/ Boot \/ GC
    PROVE  Point' /\ Sound(db)' /\ Sound(disk)' /\ Behind'
  <2>. USE <1>FreshSound
  <2>1. WellFormed(db) /\ WellFormed(disk) /\ Sound(db) /\ Sound(disk) /\ Behind
    BY DEF JInv, Inv, Core
  <2>2. pc' = "idle" /\ disk' = disk
    BY DEF Restart, Boot, FreshProcess, GC, storeVars
  <2>3. Point'
    BY <2>2 DEF Point, PointState, WriteFollows, WriteCached
  <2>4. CASE Restart \/ Boot
    <3>1. db' = disk /\ cache' = cache
      BY <2>4 DEF Restart, Boot, FreshProcess
    <3>2. Behind'
      BY <2>1, <2>2, <3>1, VerifiedActive DEF Behind
    <3>3. Sound(db)' /\ Sound(disk)'
      BY <2>1, <2>2, <3>1 DEF Sound, Vacant, Within, Cached
    <3> QED
      BY <2>3, <3>2, <3>3
  <2>5. CASE GC
    <3>1. db' = db /\ ~HasActive(db)
      BY <2>5 DEF GC, storeVars
    <3>2. \A id \in JobIDs : db.jobs[id].state # "verified" /\ disk.jobs[id].state # "verified"
      BY <2>1, <3>1, VerifiedActive, JobsAssumption DEF Behind, HasActive
    <3>3. Behind'
      BY <2>1, <2>2, <3>1 DEF Behind
    <3>4. Sound(db)' /\ Sound(disk)'
      BY <2>1, <2>2, <3>1, <3>2 DEF Sound, Vacant, Within, Cached
    <3> QED
      BY <2>3, <3>3, <3>4
  <2> QED
    BY <2>4, <2>5
<1>. SUFFICES ASSUME JInv, [Next]_vars
              PROVE  JInv'
  OBVIOUS
<1>1. Inv' /\ Inv /\ Point /\ Sound(db) /\ Sound(disk) /\ Behind
  BY NextInv DEF JInv
<1>2. CASE Quiet
  BY <1>1, <1>2 DEF JInv, Quiet, Sound, Vacant, Within, Cached, Behind
<1>3. CASE UNCHANGED vars
  BY <1>1, <1>3 DEF vars, JInv, Sound, Vacant, Within, Cached, Behind, Point,
     PointState, WriteFollows, WriteCached, Active
<1>4. CASE WriteJournal \/ (\E a \in Assignments : Submit(a)) \/ Ack
           \/ NormalBootSeen \/ ConfirmBoot \/ Restart \/ Boot \/ GC
  BY <1>1, <1>4, <1>WriteSound, <1>SubmitSound, <1>AckSound, <1>BootCheckSound,
     <1>FreshSound DEF JInv
<1> QED
  BY <1>1, <1>2, <1>3, <1>4, NextQuiet

\* The artifacts of a verified job are in the cache until the job is over: no cleanup
\* takes them away, also not after a write whose outcome the process does not know.
THEOREM ArtifactsStay == Spec => []VerifiedIsCached
<1>1. JInv => VerifiedIsCached
  BY DEF JInv, Sound, Cached, VerifiedIsCached
<1> QED
  BY <1>1, InitJInv, NextJInv, PTL DEF Spec

-----------------------------------------------------------------------------
\* What a step does to the journal on disk

DiskSame == disk'.jobs = disk.jobs /\ disk'.high = disk.high

DiskSaved ==
    \E id \in JobIDs, j \in Job :
        /\ disk.jobs[id].state \in Waiting \cup Underway
        /\ j.asg = disk.jobs[id].asg
        /\ Follows(disk.jobs[id].state, j.state)
        /\ disk'.jobs = [disk.jobs EXCEPT ![id] = j]
        /\ disk'.high = disk.high

\* A job is accepted, and perhaps a finished one is archived.
DiskAccepted ==
    \E a \in Assignments :
        /\ a.job \in JobIDs /\ a.seq > disk.high
        /\ disk.jobs[a.job].state = "absent"
        /\ \A id \in JobIDs : disk.jobs[id].state \in Finished \cup {"absent"}
        /\ disk'.high = a.seq
        /\ disk'.jobs[a.job] = NewJob(a)
        /\ \A id \in JobIDs \ {a.job} :
              \/ disk'.jobs[id] = disk.jobs[id]
              \/ disk'.jobs[id] = NoJob /\ archive'[id] = disk.jobs[id]

\* Every other step leaves the jobs on disk as they are.
LEMMA DiskStep ==
    JInv /\ Next =>
        \/ DiskSame
        \/ WriteJournal /\ DiskSaved
        \/ (\E a \in Assignments : Submit(a)) /\ DiskAccepted
\* The transaction of a save either reaches the disk or does not.
<1>WriteOnDisk.
    ASSUME JInv, WriteJournal
    PROVE  DiskSame \/ DiskSaved
  <2>. USE <1>WriteOnDisk
  <2> DEFINE d == Recorded(db, write.id, write.job)
  <2>1. pc = "write"
    BY DEF WriteJournal
  <2>2. CASE disk' = disk
    BY <2>2 DEF DiskSame
  <2>3. CASE disk' # disk
    <3>1. ~OutboxFull(db) /\ Update(d, archive, write.next)
      BY <2>3 DEF WriteJournal, storeVars
    <3>2. ~poisoned /\ disk' = d
      BY <2>3, <3>1, UpdateOutcomes
    <3>3. db = disk
      BY <3>2 DEF JInv, Inv, Core, InStep
    <3>4. /\ d.high = db.high /\ db.active \in JobIDs
          /\ d.jobs = [db.jobs EXCEPT ![db.active] = write.job]
      BY <2>1, <3>1, RecordedSound
    <3> HIDE DEF d
    <3>5. /\ HasActive(db) /\ write.job.asg = Active(db).asg /\ write.job \in Job
          /\ Follows(Active(db).state, write.job.state)
      BY <2>1 DEF JInv, Inv, TypeOK, Core, Writing, Point, WriteFollows
    <3>6. Active(db).state \in Waiting \cup Underway /\ Active(db) = db.jobs[db.active]
      BY <3>5, ActiveRecord DEF JInv
    <3>7. /\ disk.jobs[db.active].state \in Waiting \cup Underway
          /\ write.job.asg = disk.jobs[db.active].asg
          /\ Follows(disk.jobs[db.active].state, write.job.state)
      BY <3>3, <3>5, <3>6
    <3>8. disk'.jobs = [disk.jobs EXCEPT ![db.active] = write.job] /\ disk'.high = disk.high
      BY <3>2, <3>3, <3>4
    <3> QED
      BY <3>4, <3>5, <3>7, <3>8 DEF DiskSaved
  <2> QED
    BY <2>2, <2>3
\* So does the transaction of a submission.
<1>SubmitOnDisk.
    ASSUME JInv, NEW a \in Assignments, Submit(a)
    PROVE  DiskSame \/ DiskAccepted
  <2>. USE <1>SubmitOnDisk
  <2> DEFINE d == Accepted(db, a)
  <2>1. /\ ~HasActive(db) /\ ~OutboxFull(db) /\ a.seq > db.high
        /\ db.jobs[a.job].state = "absent"
    BY DEF Submit
  <2>2. CASE disk' = disk
    BY <2>2 DEF DiskSame
  <2>3. CASE disk' # disk
    <3>1. db \in Database /\ WellFormed(db) /\ archive \in [JobIDs -> Job]
      BY DEF JInv, Inv, TypeOK, Core
    <3>2. /\ d \in Database /\ WellFormed(d) /\ d.high = a.seq /\ d.active = a.job
          /\ d.jobs = [db.jobs EXCEPT ![a.job] = NewJob(a)] /\ a.job \in JobIDs
      BY <2>1, <3>1, AcceptedOK
    <3>3. db.jobs \in [JobIDs -> Job]
      BY <3>1 DEF Database
    <3>4. \A id \in JobIDs : db.jobs[id].state \in Finished \cup {"absent"}
      BY <2>1, <3>1, JobsAssumption DEF WellFormed, HasActive, Terminal
    <3>5. \/ \E id \in Oldest(d) :
                 Update(Without(d, id), [archive EXCEPT ![id] = d.jobs[id]], "idle")
          \/ Update(d, archive, "idle")
      BY DEF Submit
    <3>6. ~poisoned /\ db = disk
      <4>1. ~poisoned
        BY <2>3, <3>5, UpdateOutcomes
      <4> QED
        BY <4>1 DEF JInv, Inv, Core, InStep
    <3> HIDE DEF d
    <3>7. CASE Update(d, archive, "idle")
      <4>1. disk' = d
        BY <2>3, <3>7, UpdateOutcomes
      <4>2. \A id \in JobIDs \ {a.job} : disk'.jobs[id] = disk.jobs[id]
        BY <3>2, <3>3, <3>6, <4>1
      <4>3. disk'.jobs[a.job] = NewJob(a) /\ disk'.high = a.seq
        BY <3>2, <3>3, <4>1
      <4> QED
        BY <2>1, <3>2, <3>4, <3>6, <4>2, <4>3 DEF DiskAccepted
    <3>8. ASSUME NEW id \in Oldest(d),
                 Update(Without(d, id), [archive EXCEPT ![id] = d.jobs[id]], "idle")
          PROVE  DiskAccepted
      <4> DEFINE e == Without(d, id)
      <4>1. disk' = e /\ archive' = [archive EXCEPT ![id] = d.jobs[id]]
        BY <2>3, <3>8, UpdateOutcomes
      <4>2. /\ e.high = d.high /\ e.jobs = [d.jobs EXCEPT ![id] = NoJob] /\ id \in JobIDs
        BY <3>2, WithoutOK
      <4>3. id # a.job
        BY <3>2 DEF Oldest
      <4> HIDE DEF e
      <4>4. \A other \in JobIDs \ {a.job, id} : disk'.jobs[other] = disk.jobs[other]
        BY <3>2, <3>3, <3>6, <4>1, <4>2
      <4>5. disk'.jobs[a.job] = NewJob(a) /\ disk'.high = a.seq
        BY <3>2, <3>3, <4>1, <4>2, <4>3
      <4>6. disk'.jobs[id] = NoJob /\ archive'[id] = disk.jobs[id]
        <5>1. d.jobs[id] = db.jobs[id]
          BY <3>2, <3>3, <4>2, <4>3
        <5>2. d.jobs \in [JobIDs -> Job]
          BY <3>2 DEF Database
        <5> QED
          BY <3>1, <3>6, <4>1, <4>2, <5>1, <5>2
      <4> QED
        BY <2>1, <3>2, <3>4, <3>6, <4>4, <4>5, <4>6 DEF DiskAccepted
    <3> QED
      BY <3>5, <3>7, <3>8
  <2> QED
    BY <2>2, <2>3
<1>. SUFFICES ASSUME JInv, Next
              PROVE  \/ DiskSame
                     \/ WriteJournal /\ DiskSaved
                     \/ (\E a \in Assignments : Submit(a)) /\ DiskAccepted
  OBVIOUS
<1>1. db \in Database /\ Inv /\ Point /\ (~poisoned => db = disk)
  BY DEF JInv, Inv, TypeOK, Core, InStep
<1>2. CASE Quiet \/ Restart \/ Boot \/ GC
  BY <1>2 DEF Quiet, Restart, Boot, GC, storeVars, DiskSame
<1>3. CASE Ack
  <2>1. ~poisoned /\ \E left \in 0..db.outbox : disk' \in {disk, [db EXCEPT !.outbox = left]}
    BY <1>3 DEF Ack
  <2>2. \A left : /\ [db EXCEPT !.outbox = left].jobs = db.jobs
                  /\ [db EXCEPT !.outbox = left].high = db.high
    BY <1>1 DEF Database
  <2> QED
    BY <1>1, <2>1, <2>2 DEF DiskSame
<1>4. CASE NormalBootSeen \/ ConfirmBoot
  <2>1. ASSUME NEW e, Update(e, archive, "idle"), e.jobs = db.jobs, e.high = db.high
        PROVE  DiskSame
    <3>1. disk' = disk \/ (~poisoned /\ disk' = e)
      BY <2>1, UpdateOutcomes
    <3> QED
      BY <1>1, <2>1, <3>1 DEF DiskSame
  <2>2. CASE NormalBootSeen
    <3> DEFINE e == [db EXCEPT !.bootCheck =
                        [bootID |-> dev.bootID, started |-> now, confirmed |-> FALSE]]
    <3>1. Update(e, archive, "idle")
      BY <2>2 DEF NormalBootSeen
    <3>2. e.jobs = db.jobs /\ e.high = db.high
      BY <1>1 DEF Database
    <3> HIDE DEF e
    <3> QED
      BY <2>1, <3>1, <3>2
  <2>3. CASE ConfirmBoot
    <3> DEFINE e == [db EXCEPT !.bootCheck.confirmed = TRUE]
    <3>1. Update(e, archive, "idle")
      BY <2>3 DEF ConfirmBoot
    <3>2. e.jobs = db.jobs /\ e.high = db.high
      BY <1>1 DEF Database
    <3> HIDE DEF e
    <3> QED
      BY <2>1, <3>1, <3>2
  <2> QED
    BY <1>4, <2>2, <2>3
<1>5. CASE WriteJournal \/ \E a \in Assignments : Submit(a)
  BY <1>5, <1>WriteOnDisk, <1>SubmitOnDisk
<1> QED
  BY <1>1, <1>2, <1>3, <1>4, <1>5, NextQuiet

\* A finished record never changes again, except that it moves to the archive in the
\* transaction that removes it, whatever transactions fail.
THEOREM FinishedKept == Spec => FinishedStays
<1> DEFINE Stays ==
      \A id \in JobIDs :
          Terminal(disk.jobs[id].state) =>
              \/ disk'.jobs[id] = disk.jobs[id]
              \/ disk'.jobs[id].state = "absent" /\ archive'[id] = disk.jobs[id]
<1>1. ASSUME JInv, [Next]_vars PROVE [Stays]_vars
  <2> SUFFICES ASSUME Next, NEW id \in JobIDs, Terminal(disk.jobs[id].state)
               PROVE  \/ disk'.jobs[id] = disk.jobs[id]
                      \/ disk'.jobs[id].state = "absent" /\ archive'[id] = disk.jobs[id]
    BY <1>1
  <2>1. disk.jobs[id].state \notin Waiting \cup Underway \cup {"absent"}
    BY DEF Terminal, Finished, Waiting, Underway
  <2>2. disk.jobs \in [JobIDs -> Job]
    BY <1>1 DEF JInv, Inv, TypeOK, Database
  <2>3. CASE DiskSame
    BY <2>3 DEF DiskSame
  <2>4. CASE DiskSaved
    <3>1. PICK other \in JobIDs, j \in Job :
              /\ disk.jobs[other].state \in Waiting \cup Underway
              /\ disk'.jobs = [disk.jobs EXCEPT ![other] = j]
      BY <2>4 DEF DiskSaved
    <3>2. other # id
      BY <2>1, <3>1
    <3> QED
      BY <2>2, <3>1, <3>2
  <2>5. CASE DiskAccepted
    <3>1. PICK a \in Assignments :
            /\ disk.jobs[a.job].state = "absent"
            /\ \A other \in JobIDs \ {a.job} :
                  \/ disk'.jobs[other] = disk.jobs[other]
                  \/ disk'.jobs[other] = NoJob /\ archive'[other] = disk.jobs[other]
      BY <2>5 DEF DiskAccepted
    <3>2. a.job # id
      BY <2>1, <3>1
    <3>3. NoJob.state = "absent"
      BY DEF NoJob
    <3> QED
      BY <3>1, <3>2, <3>3
  <2> QED
    BY <1>1, <2>3, <2>4, <2>5, DiskStep
<1> QED
  BY <1>1, InitJInv, NextJInv, PTL DEF Spec, FinishedStays

-----------------------------------------------------------------------------
\* The engine implements JobLifecycle

\* The journal on disk and the installations follow JobLifecycle: the state machine,
\* one job at a time, growing sequences and one installation per release, while the
\* process crashes and transactions fail at any point.
THEOREM EngineImplements == Spec => LifecycleSpec
\* Installations are counted where the backend is called and nowhere else.
<1>InstallsStep.
    ASSUME Next
    PROVE  installs' = installs \/ SimulatorInstall \/ InstallBundle
  <2>. USE <1>InstallsStep
  <2>1. CASE Step
    BY <2>1 DEF Step, StepExpired, StepRejected, StepAccepted, StepDeferred, StepDownloaded,
       StepVerified, StepInstalling, StepAutoReboot, StepBooted, StepBootedAgain,
       StepHealthDeadline, StepUnhealthy, StepHealthy, StepMarkGood, StepRolledBack,
       StepMarkBad, NormalBootSeen, NormalBootDeadline, NormalBootUnhealthy,
       NormalBootHealthy, history
  <2>2. CASE Continue
    BY <2>2 DEF Continue, WriteJournal, AbortActivate, AbortSave, ReplacePayload,
       PayloadCopied, PayloadFailed, PayloadsInPlace, PreinstallError, PreinstallRejected,
       BeginInstall, InstallCompleted, InstallError, Inspect, SaveCommitted,
       ActivateOldSlot, Reboot, RebootJob, ActivateFallback, ConfirmBoot, history
  <2>3. CASE Request
    BY <2>3 DEF Request, Submit, Ack, GC, RequestReboot, RecoverAbort, history
  <2>4. CASE Environment
    BY <2>4 DEF Environment, FlashDone, Tick, Restart, Boot, history
  <2> QED
    BY <2>1, <2>2, <2>3, <2>4 DEF Next
\* An installation: Installing is on disk, and the release is not yet among those
\* whose installation was requested.
<1>InstallImplements.
    ASSUME JInv, SimulatorInstall \/ InstallBundle
    PROVE  \E id \in JobIDs : Lifecycle!Install(id)
  <2>. USE <1>InstallImplements
  <2> DEFINE id == db.active
             q == Release.seq
  <2>1. /\ HasActive(db) /\ Active(db).state = "installing" /\ installs[q] = 0
        /\ disk.jobs = db.jobs /\ disk.active = db.active
    BY DEF SimulatorInstall, InstallBundle, JInv, Inv, Core, Holding
  <2>2. /\ id \in JobIDs /\ Active(db) = db.jobs[id] /\ q \in SeqNumbers
        /\ installs \in [SeqNumbers -> Nat]
    <3>1. db \in Database /\ WellFormed(db)
      BY DEF JInv, Inv, TypeOK, Core
    <3> QED
      BY <2>1, <3>1, ActiveJob DEF Release, Active, JInv, Inv, TypeOK
  <2>3. disk' = disk /\ installs' = [installs EXCEPT ![q] = @ + 1]
    BY DEF SimulatorInstall, InstallBundle, CountInstall, storeVars
  <2>4. disk.jobs[id].state = "installing" /\ disk.jobs[id].asg.seq = q
    BY <2>1, <2>2 DEF Release
  <2> HIDE DEF q, id
  <2>5. {r \in SeqNumbers : installs'[r] > 0} = {r \in SeqNumbers : installs[r] > 0} \cup {q}
    BY <2>2, <2>3, SMT
  <2>6. q \notin {r \in SeqNumbers : installs[r] > 0}
    BY <2>1, SMT
  <2> QED
    BY <2>2, <2>3, <2>4, <2>5, <2>6 DEF Lifecycle!Install
\* A save moves one job along an edge of the state machine, or leaves it where it is.
<1>SaveImplements.
    ASSUME JInv, DiskSaved, installs' = installs
    PROVE  (\E id \in JobIDs : Lifecycle!Move(id)) \/ UNCHANGED Lifecycle!vars
  <2>. USE <1>SaveImplements
  <2>1. PICK id \in JobIDs, j \in Job :
            /\ j.asg = disk.jobs[id].asg
            /\ Follows(disk.jobs[id].state, j.state)
            /\ disk'.jobs = [disk.jobs EXCEPT ![id] = j]
            /\ disk'.high = disk.high
    BY DEF DiskSaved
  <2>2. disk.jobs \in [JobIDs -> Job]
    BY DEF JInv, Inv, TypeOK, Database
  <2> DEFINE st == [i \in JobIDs |-> disk.jobs[i].state]
             sn == [i \in JobIDs |-> disk'.jobs[i].state]
  <2>3. sn = [st EXCEPT ![id] = j.state]
    BY <2>1, <2>2
  <2>4. [i \in JobIDs |-> disk'.jobs[i].asg.seq] = [i \in JobIDs |-> disk.jobs[i].asg.seq]
    BY <2>1, <2>2
  <2>5. CASE disk.jobs[id].state = j.state
    <3>1. sn = st
      BY <2>3, <2>5
    <3> QED
      BY <2>1, <2>4, <3>1 DEF Lifecycle!vars
  <2>6. CASE /\ disk.jobs[id].state \in DOMAIN Lifecycle!Edges
             /\ j.state \in Lifecycle!Edges[disk.jobs[id].state]
    <3>1. st[id] \in DOMAIN Lifecycle!Edges /\ j.state \in Lifecycle!Edges[st[id]]
      BY <2>6
    <3> HIDE DEF st, sn
    <3>2. Lifecycle!Move(id)
      BY <2>1, <2>3, <2>4, <3>1 DEF Lifecycle!Move, st, sn
    <3> QED
      BY <3>2
  <2> QED
    BY <2>1, <2>5, <2>6 DEF Follows
\* A submission takes a new sequence while every other job is finished.
<1>AcceptImplements.
    ASSUME JInv, JInv', DiskAccepted, installs' = installs
    PROVE  Lifecycle!Next
  <2>. USE <1>AcceptImplements
  <2>1. PICK a \in Assignments :
          /\ a.job \in JobIDs /\ a.seq > disk.high
          /\ \A id \in JobIDs : disk.jobs[id].state \in Finished \cup {"absent"}
          /\ disk'.high = a.seq
          /\ disk'.jobs[a.job] = NewJob(a)
          /\ \A id \in JobIDs \ {a.job} :
                disk'.jobs[id] = disk.jobs[id] \/ disk'.jobs[id] = NoJob
    BY DEF DiskAccepted
  <2>2. /\ NewJob(a).asg = a /\ NewJob(a).state = "accepted"
        /\ NoJob.state = "absent" /\ NoJob.asg.seq = 0
    BY DEF NewJob, NoJob, NoAssignment
  <2>3. \A id \in JobIDs : disk.jobs[id].state = "absent" => disk.jobs[id].asg.seq = 0
    BY DEF JInv, Sound, Vacant
  <2> DEFINE st == [i \in JobIDs |-> disk.jobs[i].state]
             sn == [i \in JobIDs |-> disk'.jobs[i].state]
             sq == [i \in JobIDs |-> disk.jobs[i].asg.seq]
             sqn == [i \in JobIDs |-> disk.jobs[i].asg.seq]'
  <2>4. \A other \in JobIDs : st[other] \in Lifecycle!Done \cup {"absent"}
    BY <2>1 DEF Lifecycle!Done, Finished
  <2>5. sn \in [JobIDs -> Lifecycle!Done \cup {"absent", "accepted"}] /\ sn[a.job] = "accepted"
    BY <2>1, <2>2, <2>4
  <2>6. \A other \in JobIDs \ {a.job} : sn[other] \in {st[other], "absent"}
    BY <2>1, <2>2
  <2>7. sqn = [other \in JobIDs |-> IF other = a.job THEN a.seq
                                    ELSE IF sn[other] = "absent" THEN 0 ELSE sq[other]]
    BY <2>1, <2>2, <2>3
  <2>8. sqn[a.job] = a.seq
    BY <2>1, <2>2
  <2> HIDE DEF st, sn, sq, sqn
  <2>9. Lifecycle!Accept(a.job, sqn[a.job])
    BY <2>1, <2>4, <2>5, <2>6, <2>7, <2>8 DEF Lifecycle!Accept, st, sn, sq, sqn
  <2> QED
    BY <2>1, <2>9, ZenonT(60) DEF Lifecycle!Next, Lifecycle!Accept, sqn
<1>1. Init => Lifecycle!Init
  <2> SUFFICES ASSUME Init PROVE Lifecycle!Init
    OBVIOUS
  <2>1. /\ \A id \in JobIDs : disk.jobs[id] = NoJob
        /\ disk.high = 0 /\ \A q \in SeqNumbers : installs[q] = 0
    BY DEF Init, EmptyDatabase
  <2>2. NoJob.state = "absent" /\ NoJob.asg.seq = 0
    BY DEF NoJob, NoAssignment
  <2>3. {q \in SeqNumbers : installs[q] > 0} = {}
    BY <2>1, SMT
  <2> QED
    BY <2>1, <2>2, <2>3 DEF Lifecycle!Init
<1>2. ASSUME JInv, JInv', [Next]_vars PROVE [Lifecycle!Next]_(Lifecycle!vars)
  <2>1. CASE UNCHANGED vars
    BY <2>1 DEF vars, Lifecycle!vars
  <2>2. CASE Next /\ DiskSame /\ installs' = installs
    BY <2>2 DEF DiskSame, Lifecycle!vars
  <2>3. CASE SimulatorInstall \/ InstallBundle
    BY <1>2, <2>3, <1>InstallImplements DEF Lifecycle!Next
  <2>4. CASE DiskSaved /\ installs' = installs
    BY <1>2, <2>4, <1>SaveImplements DEF Lifecycle!Next
  <2>5. CASE DiskAccepted /\ installs' = installs
    BY <1>2, <2>5, <1>AcceptImplements
  <2> QED
    BY <1>2, <2>1, <2>2, <2>3, <2>4, <2>5, DiskStep, <1>InstallsStep
<1> QED
  BY <1>1, <1>2, InitJInv, NextJInv, PTL DEF Spec, LifecycleSpec, Lifecycle!Spec
=============================================================================
