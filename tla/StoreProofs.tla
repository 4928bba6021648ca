---------------------------- MODULE StoreProofs ----------------------------
(***************************************************************************)
(* Proofs about what the agent keeps in its state directory, for every set *)
(* of jobs and releases and every limit: once no job is active each        *)
(* payload is the one the last committed release set, and the journal      *)
(* always passes validateDatabase.                                         *)
(*                                                                         *)
(* Payloads.  The files follow the journal on disk (InOrder): they hold    *)
(* what the active job put in place if its record says so, and what the    *)
(* committed jobs set if not; while an operation replaces them, the ones   *)
(* already replaced can go back (Midway).  The code does not promise this  *)
(* across a crash between the two, a save that fails or the archiving of   *)
(* the job that set a payload: Undisturbed names exactly those, and the    *)
(* theorem holds of the behaviours without them.                           *)
(*                                                                         *)
(* Limits.  What remains to be shown beyond EngineProofs is the number of  *)
(* jobs in the journal: only a submission adds one, and compactHot takes   *)
(* one out when that is one too many.                                      *)
(***************************************************************************)
EXTENDS EngineProofs, FiniteSetTheorems

\* The prover of every leaf that names no other.
USE Zenon

\* The jobs whose release set the payload of a target, and the latest of them.
Setters(b, t) ==
    {id \in JobIDs : b.jobs[id].state = "committed" /\ t \in b.jobs[id].asg.targets}

LastSetter(b, t, id) ==
    /\ id \in Setters(b, t)
    /\ \A other \in Setters(b, t) : b.jobs[other].asg.seq <= b.jobs[id].asg.seq

\* The version v is the one the target should hold.
Set(b, t, v) ==
    IF Setters(b, t) = {} THEN v = Factory
    ELSE /\ \E id \in JobIDs : LastSetter(b, t, id)
         /\ \A id \in JobIDs : LastSetter(b, t, id) => v = b.jobs[id].asg.version

\* In the files f the targets in done hold version v and can go back to what they
\* should hold; the others hold that, but for those in open, which can go back.
Files(b, f, done, open, v) ==
    \A t \in Targets :
        /\ t \in done => f[t].current = v
        /\ Set(b, t, IF t \in done \cup open THEN f[t].previous ELSE f[t].current)

\* The payloads that the record of a job says are in place.
Taken(j) == IF j.payloadsApplied THEN j.asg.targets ELSE {}

\* What the record of a job says of its payloads.
Tells(j) ==
    /\ j.state \in Waiting => ~j.payloadsApplied
    /\ j.state \in Underway => (j.payloadsApplied <=> j.asg.targets # {})

\* The database b in memory and the one on disk, c, agree on an active job with
\* payloads and on whether its payloads are in place.
Agree(b, c) ==
    HasActive(b) /\ Active(b).asg.targets # {} =>
        /\ c.active = b.active /\ Active(c).asg = Active(b).asg
        /\ Active(c).state \in Waiting <=> Active(b).state \in Waiting

\* The active job is the newest of the journal.
Newer(b) ==
    HasActive(b) =>
        \A id \in JobIDs \ {b.active} :
            b.jobs[id].state # "absent" => b.jobs[id].asg.seq < Active(b).asg.seq

\* The operation under way is about the payloads of the active job.
Window == {"apply", "copy", "preinstall", "write"}

Replacing(point, b) == point \in Window /\ Active(b).asg.targets # {}

\* Where applySidePayloads stands.
Progress(point, ap, a) ==
    /\ point \in {"apply", "copy"} => ap.done \subseteq a.targets
    /\ point = "copy" => ap.cur \in a.targets
    /\ point = "apply" => ap.cur = ""

\* The files f at each point of an operation on the payloads of release a.
Midway(point, c, w, ap, a, f) ==
    /\ point = "apply" => Files(c, f, ap.done, {}, a.version)
    /\ point = "copy" => Files(c, f, ap.done, {ap.cur}, a.version)
    /\ point = "preinstall" => Files(c, f, a.targets, {}, a.version)
    /\ point = "write" =>
          IF w.job.state = "committed"
          THEN \A t \in Targets : IF t \in a.targets THEN f[t].current = a.version
                                  ELSE Set(c, t, f[t].current)
          ELSE IF w.job.state \in {"failed", "rolled_back"} THEN Files(c, f, {}, {}, "")
          ELSE Files(c, f, Taken(w.job), {}, a.version)

\* The files f while no such operation is under way.
Rest(c, f) ==
    IF HasActive(c) THEN Files(c, f, Taken(Active(c)), {}, Active(c).asg.version)
    ELSE Files(c, f, {}, {}, "")

Telling(b) == \A id \in JobIDs : Tells(b.jobs[id])

\* The records and the files when the holder of the mutex is at this point.
InOrder(point, b, c, w, ap, f) ==
    /\ Telling(b) /\ Telling(c) /\ (point = "write" => Tells(w.job))
    /\ Newer(c) /\ Agree(b, c)
    /\ Progress(point, ap, Active(b).asg)
    /\ IF Replacing(point, b) THEN Midway(point, c, w, ap, Active(b).asg, f)
       ELSE Rest(c, f)

PInv == JInv /\ InOrder(pc, db, disk, write, applying, payload)

\* A payload has been replaced and the journal does not say so yet.
Replaced ==
    \/ pc = "copy"
    \/ pc = "apply" /\ applying.done # {}
    \/ pc = "preinstall" /\ Release.targets # {}

\* The save under way says what has become of the payloads of its job.
Settling ==
    pc = "write" /\ write.job.asg.targets # {}
    /\ write.job.state \in Finished \cup {"installing"}

\* Nothing interrupts the operation between the first payload it replaces and the
\* save that says so, that save succeeds, and what set a payload stays in the journal.
Undisturbed ==
    /\ Replaced => pc' # "idle"
    /\ Settling /\ pc' # "write" =>
          db' = Recorded(db, write.id, write.job) /\ disk' = db'
    /\ \A id \in JobIDs :
          disk.jobs[id].state = "committed" /\ disk.jobs[id].asg.targets # {} =>
              disk'.jobs[id].state = "committed"

-----------------------------------------------------------------------------
\* The same jobs set the payload of a target in both databases.
SameSetters(b, c, t) ==
    \A id \in JobIDs :
        id \in Setters(b, t) \cup Setters(c, t) =>
            /\ id \in Setters(b, t) /\ id \in Setters(c, t)
            /\ c.jobs[id].asg = b.jobs[id].asg

\* What a target should hold depends on those jobs only.
LEMMA SameSet ==
    ASSUME NEW b, NEW c, NEW t \in Targets, SameSetters(b, c, t), NEW v
    PROVE  Set(c, t, v) <=> Set(b, t, v)
<1>1. Setters(b, t) = Setters(c, t) /\ Setters(b, t) \subseteq JobIDs
  BY DEF SameSetters, Setters
<1>2. \A id \in JobIDs : LastSetter(c, t, id) <=> LastSetter(b, t, id)
  BY <1>1, SMT DEF SameSetters, LastSetter
<1>3. \A id \in JobIDs : LastSetter(b, t, id) => c.jobs[id].asg = b.jobs[id].asg
  BY DEF SameSetters, LastSetter
<1>. QED  BY <1>1, <1>2, <1>3 DEF Set

\* So does what Files says of the files.
LEMMA SameFiles ==
    ASSUME NEW b, NEW c, \A t \in Targets : SameSetters(b, c, t),
           NEW f, NEW done, NEW open, NEW v, Files(b, f, done, open, v)
    PROVE  Files(c, f, done, open, v)
BY SameSet DEF Files

\* Where nothing is replaced the version does not matter.
LEMMA NoneReplaced ==
    ASSUME NEW b, NEW f, NEW v, NEW w, Files(b, f, {}, {}, v)
    PROVE  Files(b, f, {}, {}, w)
BY DEF Files

\* A target should hold a version.
LEMMA SetVersion ==
    ASSUME NEW b \in Database, WellFormed(b), NEW t \in Targets, NEW v, Set(b, t, v)
    PROVE  v \in Versions
<1>1. Factory \in Versions
  BY DeviceAssumption
<1>2. ASSUME NEW id \in JobIDs, LastSetter(b, t, id)
      PROVE  b.jobs[id].asg.version \in Versions
  <2>1. b.jobs[id].asg \in Assignments
    BY <1>2 DEF LastSetter, Setters, WellFormed
  <2>. QED  BY <2>1, AssignmentsAssumption DEF Assignment
<1>. QED  BY <1>1, <1>2 DEF Set

\* No job waits again once it is under way, and it gets under way by an installation.
LEMMA FollowsKind ==
    ASSUME NEW s \in Waiting \cup Underway, NEW t, Follows(s, t)
    PROVE  /\ t \in Waiting => s \in Waiting
           /\ t \in Underway \ {"installing"} => s \in Underway
           /\ t \in States
BY SMT DEF Follows, Lifecycle!Edges, Waiting, Underway, States, Finished

\* What the invariant says of the files settles them once no job is active.
LEMMA Settled ==
    ASSUME PInv
    PROVE  PayloadsSettled
<1>1. SUFFICES ASSUME pc = "idle", ~HasActive(disk), NEW t \in Targets
               PROVE  payload[t].current = SettledPayload(t)
  BY DEF PayloadsSettled
<1>2. Set(disk, t, payload[t].current)
  BY <1>1 DEF PInv, InOrder, Replacing, Window, Rest, Files
<1>. DEFINE S == {id \in Hot(disk) : disk.jobs[id].state = "committed"
                                     /\ t \in disk.jobs[id].asg.targets}
            last == CHOOSE id \in S :
                        \A other \in S : disk.jobs[other].asg.seq <= disk.jobs[id].asg.seq
<1>3. SettledPayload(t) = IF S = {} THEN Factory ELSE disk.jobs[last].asg.version
  BY DEF SettledPayload
<1>4. S = Setters(disk, t)
  BY DEF Hot, Setters
<1>. HIDE DEF S
<1>5. ASSUME S # {}
      PROVE  LastSetter(disk, t, last)
  <2>1. \E id \in S : \A other \in S : disk.jobs[other].asg.seq <= disk.jobs[id].asg.seq
    BY <1>2, <1>4, <1>5 DEF Set, LastSetter
  <2>. QED  BY <1>4, <2>1 DEF LastSetter
<1>6. S # {} => last \in JobIDs
  BY <1>5 DEF LastSetter, Setters
<1>. HIDE DEF last
<1>. QED  BY <1>2, <1>3, <1>4, <1>5, <1>6 DEF Set

-----------------------------------------------------------------------------
\* Steps that leave the files alone

\* The types of what the argument is about.
LEMMA PayloadTypes ==
    ASSUME PInv
    PROVE  /\ db \in Database /\ WellFormed(db) /\ disk \in Database /\ WellFormed(disk)
           /\ ~poisoned => db = disk
           /\ payload \in [Targets -> [current : Content, previous : Content]]
           /\ applying \in [done : SUBSET Targets, cur : Targets \cup {""}]
           /\ write.job \in Job
           /\ HasActive(db) =>
                 /\ db.active \in JobIDs /\ Active(db) = db.jobs[db.active]
                 /\ Active(db) \in Job /\ Active(db).asg \in Assignments
                 /\ Active(db).asg \in Assignment
                 /\ Active(db).state \in Waiting \cup Underway
           /\ HasActive(disk) =>
                 /\ disk.active \in JobIDs /\ Active(disk) = disk.jobs[disk.active]
                 /\ Active(disk) \in Job /\ Active(disk).asg \in Assignments
                 /\ Active(disk).state \in Waiting \cup Underway
<1>1. /\ db \in Database /\ WellFormed(db) /\ disk \in Database /\ WellFormed(disk)
      /\ ~poisoned => db = disk
      /\ payload \in [Targets -> [current : Content, previous : Content]]
      /\ applying \in [done : SUBSET Targets, cur : Targets \cup {""}]
      /\ write.job \in Job
  BY DEF PInv, JInv, Inv, TypeOK, Core, InStep
<1>2. ASSUME NEW b \in Database, WellFormed(b), HasActive(b)
      PROVE  /\ b.active \in JobIDs /\ Active(b) = b.jobs[b.active]
             /\ Active(b) \in Job /\ Active(b).asg \in Assignments
             /\ Active(b).asg \in Assignment
             /\ Active(b).state \in Waiting \cup Underway
  BY <1>2, ActiveJob DEF Active, WellFormed
<1>. QED  BY <1>1, <1>2

\* The databases keep their jobs, and the operation either stays where it is or is
\* not about payloads.
LEMMA Alike ==
    ASSUME NEW b, NEW c, NEW d, NEW e, d.jobs = b.jobs, d.active = b.active,
           e.jobs = c.jobs, e.active = c.active,
           NEW p, NEW q, NEW w, NEW x, NEW ap, NEW aq, NEW f,
           InOrder(p, b, c, w, ap, f),
           \/ q = p /\ x = w /\ aq = ap
           \/ p \notin Window /\ q \notin Window
    PROVE  InOrder(q, d, e, x, aq, f)
<1>1. Active(d) = Active(b) /\ Active(e) = Active(c)
  BY DEF Active
<1>2. /\ HasActive(d) <=> HasActive(b)
      /\ HasActive(e) <=> HasActive(c)
  BY DEF HasActive
<1>3. Telling(d) /\ Telling(e) /\ (q = "write" => Tells(x.job))
  BY DEF InOrder, Telling, Window
<1>4. Newer(e) /\ Agree(d, e)
  BY <1>1, <1>2 DEF InOrder, Newer, Agree
<1>5. Progress(q, aq, Active(d).asg)
  BY <1>1 DEF InOrder, Progress, Window
<1>6. \A t \in Targets : SameSetters(c, e, t)
  BY DEF SameSetters, Setters
<1>7. \A g, done, open, v : Files(c, g, done, open, v) => Files(e, g, done, open, v)
  BY <1>6, SameFiles
<1>8. ASSUME Rest(c, f)
      PROVE  Rest(e, f)
  BY <1>1, <1>2, <1>7, <1>8 DEF Rest
<1>9. ASSUME Midway(p, c, w, ap, Active(b).asg, f), q = p, x = w, aq = ap
      PROVE  Midway(q, e, x, aq, Active(d).asg, f)
  <2>1. \A t \in Targets : Set(c, t, f[t].current) => Set(e, t, f[t].current)
    BY <1>6, SameSet
  <2>. QED  BY <1>1, <1>7, <1>9, <2>1 DEF Midway
<1>10. IF Replacing(q, d) THEN Midway(q, e, x, aq, Active(d).asg, f) ELSE Rest(e, f)
  BY <1>1, <1>8, <1>9 DEF InOrder, Replacing
<1>. QED  BY <1>3, <1>4, <1>5, <1>10 DEF InOrder

-----------------------------------------------------------------------------
\* The saves

\* Memory and disk agree on which payloads of the active job are in place.
LEMMA SameTaken ==
    ASSUME PInv, HasActive(db), Active(db).asg.targets # {}
    PROVE  /\ HasActive(disk) /\ Active(disk).asg = Active(db).asg
           /\ Taken(Active(disk)) = Taken(Active(db))
           /\ Active(db).state \in Waiting => Taken(Active(db)) = {}
           /\ Active(db).state \in Underway => Taken(Active(db)) = Active(db).asg.targets
<1>1. /\ disk.active = db.active /\ Active(disk).asg = Active(db).asg
      /\ Active(disk).state \in Waiting <=> Active(db).state \in Waiting
  BY DEF PInv, InOrder, Agree
<1>2. HasActive(disk)
  BY <1>1 DEF HasActive
<1>3. Tells(Active(db)) /\ Tells(Active(disk))
  BY <1>2, PayloadTypes DEF PInv, InOrder, Telling
<1>4. Waiting \cap Underway = {}
  BY DEF Waiting, Underway
<1>. QED  BY <1>1, <1>2, <1>3, <1>4, PayloadTypes DEF Tells, Taken

\* What a save does to the files.
LEMMA SavedFiles ==
    ASSUME PInv
    PROVE  \A T : \A t \in Targets :
               /\ Kept(payload, T)[t].current = payload[t].current
               /\ t \in T => Restored(payload, T)[t].current = payload[t].previous
               /\ t \notin T => Restored(payload, T)[t] = payload[t]
<1>. TAKE T
<1>. TAKE t \in Targets
<1>1. payload[t] \in [current : Content, previous : Content]
  BY PayloadTypes
<1>2. Kept(payload, T)[t].current = payload[t].current
  BY <1>1 DEF Kept
<1>3. t \in T => Restored(payload, T)[t].current = payload[t].previous
  BY DEF Restored
<1>4. t \notin T => Restored(payload, T)[t] = payload[t]
  BY DEF Restored
<1>. QED  BY <1>2, <1>3, <1>4

\* Without targets it does nothing.
LEMMA NoFiles ==
    ASSUME NEW f \in [Targets -> [current : Content, previous : Content]]
    PROVE  Kept(f, {}) = f /\ Restored(f, {}) = f
BY DEF Kept, Restored

\* A save outside the payload steps: the files are those the record speaks of.
LEMMA SavePayloads ==
    ASSUME PInv, pc \notin Window, HasActive(db), UNCHANGED storeVars,
           NEW k \in Job, NEW st, NEW nx, BeginSave(k, st, nx),
           k.asg = Active(db).asg, k.payloadsApplied = Active(db).payloadsApplied,
           st \in Waiting => Active(db).state \in Waiting,
           st \in Underway \cup {"committed"} => Active(db).state \in Underway
    PROVE  InOrder(pc', db', disk', write', applying', payload')
<1>. DEFINE j == Active(db)  a == Active(db).asg
<1>1. /\ pc' = "write" /\ write'.job.state = st /\ write'.job.asg = a
      /\ write'.job.payloadsApplied = j.payloadsApplied
      /\ payload' = FilesAfter(k, st) /\ db' = db /\ disk' = disk
  BY DEF BeginSave, SaveRecord, storeVars, Job
<1>2. /\ Telling(db) /\ Telling(disk) /\ Newer(disk) /\ Agree(db, disk)
      /\ Rest(disk, payload)
  BY DEF PInv, InOrder, Replacing
<1>3. j.state \in Waiting \cup Underway /\ Tells(j) /\ a \in Assignment
  BY <1>2, PayloadTypes DEF Telling
<1>4. Tells(write'.job) /\ Taken(write'.job) = Taken(j)
  BY <1>1, <1>3 DEF Tells, Taken
<1>5. Progress(pc', applying', a)
  BY <1>1 DEF Progress
<1>6. CASE a.targets = {}
  <2>1. payload' = payload
    BY <1>1, <1>6, NoFiles, PayloadTypes DEF FilesAfter
  <2>2. ~Replacing(pc', db')
    BY <1>1, <1>6 DEF Replacing
  <2>. QED  BY <1>1, <1>2, <1>4, <1>5, <2>1, <2>2 DEF InOrder
<1>7. CASE a.targets # {}
  <2>1. /\ Files(disk, payload, Taken(j), {}, a.version)
        /\ j.state \in Underway => Taken(j) = a.targets
    BY <1>2, <1>7, SameTaken DEF Rest
  <2>2. ASSUME st = "committed", NEW t \in Targets
        PROVE  IF t \in a.targets THEN payload'[t].current = a.version
               ELSE Set(disk, t, payload'[t].current)
    <3>0. payload' = Kept(payload, a.targets)
      BY <1>1, <2>2 DEF FilesAfter
    <3>1. payload'[t].current = payload[t].current
      BY <3>0, SavedFiles
    <3>2. Taken(j) = a.targets
      BY <2>1, <2>2
    <3>. QED  BY <2>1, <3>1, <3>2 DEF Files
  <2>3. ASSUME st \in {"failed", "rolled_back"}, NEW t \in Targets
        PROVE  Set(disk, t, payload'[t].current)
    <3>1. payload' = Restored(payload, Taken(j)) \/ (payload' = payload /\ Taken(j) = {})
      BY <1>1, <2>3 DEF FilesAfter, Taken
    <3>2. payload'[t].current = IF t \in Taken(j) THEN payload[t].previous
                                ELSE payload[t].current
      <4>1. /\ t \in Taken(j) => Restored(payload, Taken(j))[t].current = payload[t].previous
            /\ t \notin Taken(j) => Restored(payload, Taken(j))[t] = payload[t]
        BY SavedFiles
      <4>. QED  BY <3>1, <4>1
    <3>. QED  BY <2>1, <3>2 DEF Files
  <2>4. ASSUME st \notin Finished
        PROVE  payload' = payload
    BY <1>1, <2>4 DEF FilesAfter, Finished
  <2>5. Midway(pc', disk, write', applying', a, payload')
    <3>1. ASSUME st \in {"failed", "rolled_back"}
          PROVE  Files(disk, payload', {}, {}, "")
      BY <2>3, <3>1 DEF Files
    <3>2. CASE st = "committed"
      BY <1>1, <2>2, <3>2 DEF Midway
    <3>3. CASE st \in {"failed", "rolled_back"}
      BY <1>1, <3>1, <3>3 DEF Midway
    <3>4. CASE st \notin Finished
      BY <1>1, <1>4, <2>1, <2>4, <3>4 DEF Midway, Finished
    <3>. QED  BY <3>2, <3>3, <3>4 DEF Finished
  <2>. QED  BY <1>1, <1>2, <1>4, <1>5, <1>7, <2>5 DEF InOrder, Replacing, Window
<1>. QED  BY <1>6, <1>7

-----------------------------------------------------------------------------
\* applySidePayloads and the steps up to the installation

\* A verified job begins with its payloads.
LEMMA VerifiedPayloads ==
    ASSUME PInv, StepVerified
    PROVE  InOrder(pc', db', disk', write', applying', payload')
<1>. DEFINE a == Active(db).asg
<1>1. /\ pc = "idle" /\ HasActive(db) /\ Active(db).state \in Waiting
      /\ pc' = "apply" /\ applying'.done = {} /\ applying'.cur = "" /\ write' = write
      /\ db' = db /\ disk' = disk /\ payload' = payload
  BY DEF StepVerified, Stepping, NotApplying, storeVars, Waiting
<1>2. /\ Telling(db) /\ Telling(disk) /\ Newer(disk) /\ Agree(db, disk)
      /\ Rest(disk, payload)
  BY <1>1 DEF PInv, InOrder, Replacing, Window
<1>3. Progress(pc', applying', a)
  BY <1>1 DEF Progress
<1>4. CASE a.targets = {}
  BY <1>1, <1>2, <1>3, <1>4 DEF InOrder, Replacing
<1>5. CASE a.targets # {}
  <2>1. Files(disk, payload, {}, {}, a.version)
    BY <1>1, <1>2, <1>5, SameTaken DEF Rest
  <2>2. Midway(pc', disk, write', applying', a, payload)
    BY <1>1, <2>1 DEF Midway
  <2>. QED  BY <1>1, <1>2, <1>3, <1>5, <2>2 DEF InOrder, Replacing, Window
<1>. QED  BY <1>4, <1>5

\* The current file of a target steps aside.
LEMMA ReplacePayloads ==
    ASSUME PInv, NEW u \in Targets, ReplacePayload(u)
    PROVE  InOrder(pc', db', disk', write', applying', payload')
<1>. DEFINE a == Active(db).asg
<1>1. /\ pc = "apply" /\ u \in a.targets /\ u \notin applying.done
      /\ pc' = "copy" /\ applying'.done = applying.done /\ applying'.cur = u /\ write' = write
      /\ db' = db /\ disk' = disk
  BY PayloadTypes DEF ReplacePayload, storeVars, Release
<1>2. /\ Telling(db) /\ Telling(disk) /\ Newer(disk) /\ Agree(db, disk)
      /\ applying.done \subseteq a.targets
      /\ Files(disk, payload, applying.done, {}, a.version)
  BY <1>1 DEF PInv, InOrder, Replacing, Window, Midway, Progress
<1>3. /\ payload[u].current # ""
      /\ Set(disk, u, payload[u].current)
  <2>1. Set(disk, u, payload[u].current)
    BY <1>1, <1>2 DEF Files
  <2>2. payload[u].current \in Versions
    BY <2>1, SetVersion, PayloadTypes
  <2>. QED  BY <2>1, <2>2, VersionsAssumption
<1>4. /\ payload'[u].previous = payload[u].current
      /\ \A t \in Targets \ {u} : payload'[t] = payload[t]
  <2>1. PICK partial \in {"", "torn"} :
            payload' = [payload EXCEPT ![u] = [current |-> partial,
                           previous |-> IF @.current # "" THEN @.current ELSE @.previous]]
    BY DEF ReplacePayload
  <2>2. DOMAIN payload = Targets
    BY PayloadTypes
  <2>. QED  BY <1>3, <2>1, <2>2
<1>5. Files(disk, payload', applying.done, {u}, a.version)
  <2>1. SUFFICES ASSUME NEW t \in Targets
                 PROVE  /\ t \in applying.done => payload'[t].current = a.version
                        /\ Set(disk, t, IF t \in applying.done \cup {u}
                                        THEN payload'[t].previous ELSE payload'[t].current)
    BY DEF Files
  <2>2. CASE t = u
    BY <1>1, <1>3, <1>4, <2>2
  <2>3. CASE t # u
    BY <1>2, <1>4, <2>3, SMT DEF Files
  <2>. QED  BY <2>2, <2>3
<1>6. Midway(pc', disk, write', applying', a, payload')
  BY <1>1, <1>5 DEF Midway
<1>7. Progress(pc', applying', a)
  BY <1>1, <1>2 DEF Progress
<1>. QED  BY <1>1, <1>2, <1>6, <1>7 DEF InOrder, Replacing, Window

\* The copy is complete.
LEMMA CopiedPayloads ==
    ASSUME PInv, PayloadCopied
    PROVE  InOrder(pc', db', disk', write', applying', payload')
<1>. DEFINE a == Active(db).asg
            u == applying.cur
<1>1. /\ pc = "copy"
      /\ pc' = "apply" /\ applying'.done = applying.done \cup {u} /\ applying'.cur = ""
      /\ write' = write /\ db' = db /\ disk' = disk
  BY PayloadTypes DEF PayloadCopied, storeVars
<1>2. /\ Telling(db) /\ Telling(disk) /\ Newer(disk) /\ Agree(db, disk)
      /\ applying.done \subseteq a.targets /\ u \in a.targets
      /\ Files(disk, payload, applying.done, {u}, a.version)
  BY <1>1 DEF PInv, InOrder, Replacing, Window, Midway, Progress
<1>3. /\ u \in Targets => payload'[u].current = a.version
      /\ u \in Targets => payload'[u].previous = payload[u].previous
      /\ \A t \in Targets \ {u} : payload'[t] = payload[t]
  BY PayloadTypes DEF PayloadCopied, Release
<1>. HIDE DEF u
<1>4. Files(disk, payload', applying.done \cup {u}, {}, a.version)
  BY <1>2, <1>3, SMT DEF Files
<1>5. Midway(pc', disk, write', applying', a, payload')
  BY <1>1, <1>4 DEF Midway
<1>6. Progress(pc', applying', a)
  BY <1>1, <1>2 DEF Progress
<1>. QED  BY <1>1, <1>2, <1>5, <1>6 DEF InOrder, Replacing, Window

\* A payload that fails takes back those before it.
LEMMA FailedPayloads ==
    ASSUME PInv, PayloadFailed
    PROVE  InOrder(pc', db', disk', write', applying', payload')
<1>. DEFINE a == Active(db).asg
            T == (applying.done \cup {applying.cur}) \ {""}
<1>1. /\ pc \in {"apply", "copy"} /\ HasActive(db)
      /\ pc = "apply" => applying.done # a.targets
      /\ payload' = Restored(payload, T) /\ db' = db /\ disk' = disk
  BY DEF PayloadFailed, storeVars, Release, PInv, JInv, Inv, Core, Holding
<1>2. pc' = "write" /\ write'.job.state = "failed"
  BY <1>1, PayloadTypes DEF PayloadFailed, SaveRecord, Job
<1>3. /\ Telling(db) /\ Telling(disk) /\ Newer(disk) /\ Agree(db, disk)
      /\ Progress(pc, applying, a)
  BY DEF PInv, InOrder
<1>4. a.targets # {} /\ a.targets \subseteq Targets
  BY <1>1, <1>3, PayloadTypes DEF Progress, Assignment
<1>5. /\ pc = "apply" => Files(disk, payload, applying.done, {}, a.version)
      /\ pc = "copy" => Files(disk, payload, applying.done, {applying.cur}, a.version)
  BY <1>1, <1>4 DEF PInv, InOrder, Replacing, Window, Midway
<1>6. \A t \in Targets : Set(disk, t, IF t \in T THEN payload[t].previous
                                      ELSE payload[t].current)
  BY <1>1, <1>3, <1>5, TargetsAssumption DEF Files, Progress
<1>. HIDE DEF T
<1>7. \A t \in Targets : Set(disk, t, payload'[t].current)
  BY <1>1, <1>6, SavedFiles
<1>8. Files(disk, payload', {}, {}, "")
  BY <1>7 DEF Files
<1>9. Midway(pc', disk, write', applying', a, payload')
  BY <1>2, <1>8 DEF Midway
<1>10. Tells(write'.job) /\ Progress(pc', applying', a)
  BY <1>2 DEF Tells, Waiting, Underway, Progress
<1>. QED  BY <1>1, <1>2, <1>3, <1>4, <1>9, <1>10 DEF InOrder, Replacing, Window

\* All payloads are in place.
LEMMA InPlacePayloads ==
    ASSUME PInv, PayloadsInPlace
    PROVE  InOrder(pc', db', disk', write', applying', payload')
<1>. DEFINE a == Active(db).asg
<1>1. /\ pc = "apply" /\ HasActive(db) /\ applying.done = a.targets
      /\ db' = db /\ disk' = disk
  BY DEF PayloadsInPlace, storeVars, Release, PInv, JInv, Inv, Core, Holding
<1>2. \/ pc' = "preinstall" /\ payload' = payload
      \/ pc' = "write" /\ write'.job.state = "committed" /\ payload' = Kept(payload, a.targets)
  <2>1. Active(db) \in Job
    BY <1>1, PayloadTypes
  <2>2. WithPayloads \in Job /\ WithPayloads.asg = a
    BY <2>1 DEF WithPayloads, Job
  <2>3. CASE pc' = "preinstall" /\ UNCHANGED <<write, payload>>
    BY <2>3
  <2>4. CASE BeginSave(WithPayloads, "committed", "idle")
    <3>1. SaveRecord(WithPayloads, "committed", "idle") /\ payload' = Kept(payload, a.targets)
      BY <2>2, <2>4 DEF BeginSave, FilesAfter
    <3>. HIDE DEF WithPayloads
    <3>2. pc' = "write" /\ write'.job.state = "committed"
      BY <2>2, <3>1 DEF SaveRecord, Job
    <3>. QED  BY <3>1, <3>2
  <2>. QED  BY <2>3, <2>4 DEF PayloadsInPlace
<1>3. /\ Telling(db) /\ Telling(disk) /\ Newer(disk) /\ Agree(db, disk)
  BY DEF PInv, InOrder
<1>4. Tells(write'.job) \/ pc' # "write"
  BY <1>2 DEF Tells, Waiting, Underway
<1>5. Progress(pc', applying', a)
  BY <1>2 DEF Progress
<1>6. CASE a.targets = {}
  <2>1. payload' = payload
    BY <1>2, <1>6, NoFiles, PayloadTypes
  <2>2. Rest(disk, payload)
    BY <1>6 DEF PInv, InOrder, Replacing
  <2>. QED  BY <1>1, <1>3, <1>4, <1>5, <1>6, <2>1, <2>2 DEF InOrder, Replacing
<1>7. CASE a.targets # {}
  <2>1. Files(disk, payload, a.targets, {}, a.version)
    BY <1>1, <1>7 DEF PInv, InOrder, Replacing, Window, Midway
  <2>2. \A t \in Targets : Kept(payload, a.targets)[t].current = payload[t].current
    BY SavedFiles
  <2>3. CASE pc' = "preinstall" /\ payload' = payload
    BY <1>1, <1>3, <1>5, <1>7, <2>1, <2>3 DEF InOrder, Replacing, Window, Midway
  <2>4. CASE /\ pc' = "write" /\ write'.job.state = "committed"
             /\ payload' = Kept(payload, a.targets)
    <3>1. \A t \in Targets : IF t \in a.targets THEN payload'[t].current = a.version
                             ELSE Set(disk, t, payload'[t].current)
      BY <2>1, <2>2, <2>4 DEF Files
    <3>2. Midway(pc', disk, write', applying', a, payload')
      BY <2>4, <3>1 DEF Midway
    <3>. QED  BY <1>1, <1>3, <1>4, <1>5, <1>7, <2>4, <3>2 DEF InOrder, Replacing, Window
  <2>. QED  BY <1>2, <2>3, <2>4
<1>. QED  BY <1>6, <1>7

\* The job is rejected before the installation, or the installation begins.
LEMMA PreinstallPayloads ==
    ASSUME PInv, PreinstallRejected \/ BeginInstall
    PROVE  InOrder(pc', db', disk', write', applying', payload')
<1>. DEFINE a == Active(db).asg
            k == WithPayloads
<1>1. /\ pc = "preinstall" /\ HasActive(db) /\ db' = db /\ disk' = disk
  BY DEF PreinstallRejected, BeginInstall, storeVars, PInv, JInv, Inv, Core, Holding
<1>2. k \in Job /\ k.asg = a /\ (k.payloadsApplied <=> a.targets # {})
  <2>1. Active(db) \in Job
    BY <1>1, PayloadTypes
  <2>. QED  BY <2>1 DEF WithPayloads, Release, Job
<1>. HIDE DEF k
<1>3. \/ /\ pc' = "write" /\ write'.job.state = "failed"
         /\ payload' = IF a.targets # {} THEN Restored(payload, a.targets) ELSE payload
      \/ /\ pc' = "write" /\ write'.job.state = "installing" /\ payload' = payload
         /\ write'.job.asg = a /\ (write'.job.payloadsApplied <=> a.targets # {})
  <2>1. CASE PreinstallRejected
    BY <1>2, <2>1 DEF PreinstallRejected, BeginSave, SaveRecord, FilesAfter, Job, k
  <2>2. CASE BeginInstall
    <3>. DEFINE m == [k EXCEPT !.oldSlot = dev.booted, !.oldVersion = dev.version[dev.booted],
                               !.targetSlot = Other(dev), !.bootID = dev.bootID]
    <3>1. BeginSave(m, "installing", "install")
      BY <2>2 DEF BeginInstall, k
    <3>2. /\ m.asg = a /\ (m.payloadsApplied <=> a.targets # {})
          /\ \A s, n : /\ [m EXCEPT !.state = s, !.updated = n].asg = a
                       /\ [m EXCEPT !.state = s, !.updated = n].state = s
                       /\ [m EXCEPT !.state = s, !.updated = n].payloadsApplied =
                             m.payloadsApplied
      BY <1>2 DEF Job
    <3>. HIDE DEF m
    <3>3. /\ pc' = "write" /\ payload' = FilesAfter(m, "installing")
          /\ \E n : write'.job = [m EXCEPT !.state = "installing", !.updated = n]
      BY <3>1 DEF BeginSave, SaveRecord
    <3>4. payload' = payload
      BY <3>3 DEF FilesAfter
    <3>. QED  BY <3>2, <3>3, <3>4, SMT
  <2>. QED  BY <2>1, <2>2
<1>4. /\ Telling(db) /\ Telling(disk) /\ Newer(disk) /\ Agree(db, disk)
  BY DEF PInv, InOrder
<1>5. Tells(write'.job) /\ Progress(pc', applying', a)
  BY <1>3 DEF Tells, Waiting, Underway, Progress
<1>6. CASE a.targets = {}
  <2>1. payload' = payload
    BY <1>3, <1>6
  <2>2. Rest(disk, payload)
    BY <1>6 DEF PInv, InOrder, Replacing
  <2>. QED  BY <1>1, <1>4, <1>5, <1>6, <2>1, <2>2 DEF InOrder, Replacing
<1>7. CASE a.targets # {}
  <2>1. Files(disk, payload, a.targets, {}, a.version)
    BY <1>1, <1>7 DEF PInv, InOrder, Replacing, Window, Midway
  <2>2. ASSUME payload' = Restored(payload, a.targets)
        PROVE  Files(disk, payload', {}, {}, "")
    BY <2>1, <2>2, SavedFiles DEF Files
  <2>3. Midway(pc', disk, write', applying', a, payload')
    BY <1>3, <1>7, <2>1, <2>2 DEF Midway, Taken
  <2>. QED  BY <1>1, <1>3, <1>4, <1>5, <1>7, <2>3 DEF InOrder, Replacing, Window
<1>. QED  BY <1>6, <1>7

-----------------------------------------------------------------------------
\* The journal

\* The database d is b after the save w of its active job.
Saved(b, w, d) ==
    /\ d.jobs = [b.jobs EXCEPT ![b.active] = w.job]
    /\ d.active = IF Terminal(w.job.state) THEN "" ELSE b.active

\* A release that is committed sets its payloads, as the newest one.
LEMMA CommitSets ==
    ASSUME NEW b \in Database, WellFormed(b), HasActive(b), Newer(b), NEW w, NEW d,
           Saved(b, w, d), w.job.asg = Active(b).asg, w.job.state = "committed",
           NEW t \in Active(b).asg.targets
    PROVE  Set(d, t, Active(b).asg.version)
<1>. DEFINE id == b.active  a == Active(b).asg
<1>1. /\ id \in JobIDs /\ a \in Assignments
      /\ \A x \in JobIDs : b.jobs[x].state # "absent" => b.jobs[x].asg.seq \in Nat
  <2>1. \A x \in JobIDs : b.jobs[x].state # "absent" => b.jobs[x].asg \in Assignment
    BY AssignmentsAssumption DEF WellFormed
  <2>2. id \in JobIDs /\ a \in Assignments
    BY ActiveJob
  <2>. QED  BY <2>1, <2>2 DEF Assignment
<1>2. a.seq \in Nat
  BY <1>1, AssignmentsAssumption DEF Assignment
<1>3. /\ d.jobs[id] = w.job
      /\ \A x \in JobIDs \ {id} : d.jobs[x] = b.jobs[x]
  BY <1>1 DEF Saved, Database
<1>4. \A x \in JobIDs \ {id} : b.jobs[x].state # "absent" => b.jobs[x].asg.seq < a.seq
  BY DEF Newer
<1>. HIDE DEF id, a
<1>5. id \in Setters(d, t)
  BY <1>1, <1>3 DEF Setters, a
<1>6. w.job.asg = a
  BY DEF a
<1>7. \A x \in Setters(d, t) : x = id \/ d.jobs[x].asg.seq < d.jobs[id].asg.seq
  BY <1>3, <1>4, <1>6 DEF Setters
<1>8. \A x \in Setters(d, t) : d.jobs[x].asg.seq \in Nat
  BY <1>1, <1>2, <1>3, <1>6 DEF Setters
<1>9. LastSetter(d, t, id)
  BY <1>2, <1>3, <1>5, <1>6, <1>7, <1>8, SMT DEF LastSetter
<1>10. \A x \in JobIDs : LastSetter(d, t, x) => x = id
  BY <1>5, <1>7, <1>8, SMT DEF LastSetter
<1>. QED  BY <1>1, <1>3, <1>5, <1>6, <1>9, <1>10 DEF Set, a

\* Any other target, and any target if the save does not commit, is set as before.
LEMMA SaveSetters ==
    ASSUME NEW b \in Database, WellFormed(b), HasActive(b), NEW w, NEW d,
           Saved(b, w, d), w.job.asg = Active(b).asg, NEW t,
           w.job.state = "committed" => t \notin Active(b).asg.targets
    PROVE  SameSetters(b, d, t)
<1>1. /\ b.active \in JobIDs /\ Active(b) = b.jobs[b.active]
      /\ Active(b).state # "committed"
  BY ActiveJob DEF Active, WellFormed, Waiting, Underway
<1>2. /\ d.jobs[b.active] = w.job
      /\ \A x \in JobIDs \ {b.active} : d.jobs[x] = b.jobs[x]
  BY <1>1 DEF Saved, Database
<1>3. b.active \notin Setters(b, t) /\ b.active \notin Setters(d, t)
  BY <1>1, <1>2 DEF Setters
<1>4. \A x \in JobIDs \ {b.active} : x \in Setters(b, t) <=> x \in Setters(d, t)
  BY <1>2 DEF Setters
<1>. QED  BY <1>2, <1>3, <1>4 DEF SameSetters

\* The save under way, by what the invariant says of its record.
LEMMA SaveUnderway ==
    ASSUME PInv, pc = "write"
    PROVE  /\ HasActive(db) /\ write.id = db.active /\ write.job.asg = Active(db).asg
           /\ write.job.state \in States /\ Tells(write.job)
           /\ Follows(Active(db).state, write.job.state)
           /\ write.next \in {"idle", "install", "rebootJob"}
           /\ Active(db).asg.targets # {} /\ ~Settling =>
                 /\ write.job.state \notin Finished
                 /\ write.job.state \in Waiting <=> Active(db).state \in Waiting
                 /\ Taken(write.job) = Taken(Active(db))
<1>1. /\ HasActive(db) /\ write.id = db.active /\ write.job.asg = Active(db).asg
      /\ write.job.state \in States /\ Tells(write.job)
      /\ Follows(Active(db).state, write.job.state)
      /\ write.next \in {"idle", "install", "rebootJob"}
  BY DEF PInv, InOrder, JInv, Inv, Core, Writing, Point, WriteFollows
<1>2. Active(db).state \in Waiting \cup Underway /\ Tells(Active(db))
  BY <1>1, PayloadTypes DEF PInv, InOrder, Telling
<1>3. ASSUME Active(db).asg.targets # {}, ~Settling
      PROVE  /\ write.job.state \notin Finished
             /\ write.job.state \in Waiting <=> Active(db).state \in Waiting
             /\ Taken(write.job) = Taken(Active(db))
  <2>1. write.job.state \in Waiting \cup (Underway \ {"installing"})
    BY <1>1, <1>3 DEF Settling, States
  <2>2. /\ write.job.state \in Waiting => Active(db).state \in Waiting
        /\ write.job.state \in Underway => Active(db).state \in Underway
    BY <1>1, <1>2, <2>1, FollowsKind, SMT DEF Waiting, Underway
  <2>3. Waiting \cap Underway = {} /\ Waiting \cap Finished = {} /\ Underway \cap Finished = {}
    BY DEF Waiting, Underway, Finished
  <2>4. /\ write.job.state \notin Finished
        /\ write.job.state \in Waiting <=> Active(db).state \in Waiting
    BY <2>1, <2>2, <2>3
  <2>5. write.job.payloadsApplied <=> Active(db).payloadsApplied
    BY <1>1, <1>2, <2>1, <2>2 DEF Tells
  <2>. QED  BY <1>1, <2>4, <2>5 DEF Taken
<1>. QED  BY <1>1, <1>3

\* The files once the save is on disk.
LEMMA SavedRest ==
    ASSUME PInv, pc = "write", db = disk, NEW d, Saved(db, write, d)
    PROVE  Rest(d, payload)
<1>. DEFINE a == Active(db).asg
<1>1. /\ HasActive(db) /\ write.job.asg = a /\ write.job.state \in States
  BY SaveUnderway
<1>2. /\ Active(d) = write.job \/ Terminal(write.job.state)
      /\ HasActive(d) <=> ~Terminal(write.job.state)
  BY <1>1, PayloadTypes DEF Saved, Active, HasActive, Database
<1>3. ASSUME NEW t \in Targets, write.job.state = "committed" => t \notin a.targets
      PROVE  SameSetters(disk, d, t)
  BY <1>1, <1>3, PayloadTypes, SaveSetters
<1>4. CASE a.targets = {}
  <2>1. Rest(disk, payload)
    BY <1>4 DEF PInv, InOrder, Replacing
  <2>2. Files(disk, payload, {}, {}, "")
    BY <1>1, <1>4, <2>1 DEF Rest, Taken, Files
  <2>3. Files(d, payload, {}, {}, "")
    BY <1>3, <1>4, <2>2, SameFiles
  <2>4. HasActive(d) => Taken(Active(d)) = {}
    BY <1>1, <1>2, <1>4 DEF Taken
  <2>. QED  BY <2>3, <2>4, NoneReplaced DEF Rest
<1>5. CASE a.targets # {}
  <2>1. Midway("write", disk, write, applying, a, payload)
    BY <1>5 DEF PInv, InOrder, Replacing, Window
  <2>2. CASE write.job.state = "committed"
    <3>1. ASSUME NEW t \in Targets
          PROVE  Set(d, t, payload[t].current)
      <4>1. CASE t \in a.targets
        <5>1. Set(d, t, a.version)
          BY <1>1, <2>2, <4>1, CommitSets, PayloadTypes DEF PInv, InOrder
        <5>. QED  BY <2>1, <2>2, <4>1, <5>1 DEF Midway
      <4>2. CASE t \notin a.targets
        <5>1. Set(disk, t, payload[t].current)
          BY <2>1, <2>2, <4>2 DEF Midway
        <5>. QED  BY <1>3, <4>2, <5>1, SameSet
      <4>. QED  BY <4>1, <4>2
    <3>2. ~HasActive(d)
      BY <1>2, <2>2 DEF Terminal, Finished
    <3>. QED  BY <3>1, <3>2 DEF Rest, Files
  <2>3. CASE write.job.state \in {"failed", "rolled_back"}
    <3>1. Files(disk, payload, {}, {}, "")
      BY <2>1, <2>3 DEF Midway
    <3>2. ~HasActive(d)
      BY <1>2, <2>3 DEF Terminal, Finished
    <3>3. Files(d, payload, {}, {}, "")
      BY <1>3, <2>3, <3>1, SameFiles
    <3>. QED  BY <3>2, <3>3 DEF Rest
  <2>4. CASE write.job.state \notin Finished
    <3>1. Files(disk, payload, Taken(write.job), {}, a.version)
      BY <2>1, <2>4 DEF Midway, Finished
    <3>2. HasActive(d) /\ Active(d) = write.job
      BY <1>2, <2>4 DEF Terminal
    <3>3. Files(d, payload, Taken(write.job), {}, a.version)
      BY <1>3, <2>4, <3>1, SameFiles DEF Finished
    <3>. QED  BY <1>1, <3>2, <3>3 DEF Rest
  <2>. QED  BY <2>2, <2>3, <2>4 DEF Finished
<1>. QED  BY <1>4, <1>5

\* The transaction of a save.
LEMMA WritePayloads ==
    ASSUME PInv, Undisturbed, WriteJournal
    PROVE  InOrder(pc', db', disk', write', applying', payload')
<1>. DEFINE d == Recorded(db, write.id, write.job)
<1>1. pc = "write" /\ payload' = payload
  BY DEF WriteJournal
<1>2. /\ HasActive(db) /\ write.id = db.active /\ write.job.asg = Active(db).asg
      /\ Tells(write.job) /\ write.next \in {"idle", "install", "rebootJob"}
  BY <1>1, SaveUnderway
<1>3. Saved(db, write, d) /\ d # db
  <2>1. db \in Database /\ db.active \in JobIDs
    BY <1>2, PayloadTypes
  <2>2. Saved(db, write, d)
    BY <1>2, <2>1 DEF Saved, Recorded, AddEvent, Database
  <2>3. d.outbox = db.outbox + 1 /\ db.outbox \in Nat
    BY <2>1 DEF Recorded, AddEvent, Database
  <2>. QED  BY <2>2, <2>3, SMT
<1>4. \/ /\ db' = db /\ disk' = disk /\ pc' = "idle"
      \/ /\ db = disk /\ disk' = d /\ db' \in {db, d} /\ pc' \in {"idle", "install", "rebootJob"}
  <2>1. CASE OutboxFull(db)
    BY <2>1 DEF WriteJournal, storeVars
  <2>2. CASE ~OutboxFull(db)
    <3>1. Update(d, archive, write.next)
      BY <2>2 DEF WriteJournal
    <3>. HIDE DEF d
    <3>. QED  BY <1>2, <3>1, UpdateOutcomes, PayloadTypes
  <2>. QED  BY <2>1, <2>2
<1>5. /\ pc' \notin Window /\ pc' # "write"
      /\ Telling(db) /\ Telling(disk) /\ Newer(disk) /\ Agree(db, disk)
  BY <1>4 DEF Window, PInv, InOrder
<1>6. db' # d => ~Settling
  BY <1>5 DEF Undisturbed
<1>. HIDE DEF d
<1>7. Progress(pc', applying', Active(db').asg) /\ ~Replacing(pc', db')
  BY <1>5 DEF Progress, Replacing, Window
<1>8. CASE db' = db /\ disk' = disk
  <2>1. ~Settling
    BY <1>3, <1>6, <1>8
  <2>2. CASE Active(db).asg.targets = {}
    <3>1. Rest(disk, payload)
      BY <2>2 DEF PInv, InOrder, Replacing
    <3>. QED  BY <1>1, <1>5, <1>7, <1>8, <3>1 DEF InOrder
  <2>3. CASE Active(db).asg.targets # {}
    <3>1. write.job.state \notin Finished /\ Taken(write.job) = Taken(Active(db))
      BY <1>1, <2>1, <2>3, SaveUnderway
    <3>2. Files(disk, payload, Taken(write.job), {}, Active(db).asg.version)
      BY <1>1, <2>3, <3>1 DEF PInv, InOrder, Replacing, Window, Midway, Finished
    <3>3. Rest(disk, payload)
      BY <1>2, <2>3, <3>1, <3>2, SameTaken DEF Rest
    <3>. QED  BY <1>1, <1>5, <1>7, <1>8, <3>3 DEF InOrder
  <2>. QED  BY <2>2, <2>3
<1>9. CASE db = disk /\ disk' = d /\ db' \in {db, d}
  <2>1. /\ d.jobs[db.active] = write.job /\ db.active \in JobIDs
        /\ \A id \in JobIDs \ {db.active} : d.jobs[id] = db.jobs[id]
    BY <1>2, <1>3, PayloadTypes DEF Saved, Database
  <2>2. Telling(d)
    BY <1>2, <1>5, <2>1 DEF Telling
  <2>3. Newer(d)
    <3>1. SUFFICES ASSUME HasActive(d), NEW id \in JobIDs \ {d.active},
                          d.jobs[id].state # "absent"
                   PROVE  d.jobs[id].asg.seq < Active(d).asg.seq
      BY DEF Newer
    <3>2. d.active = db.active
      BY <1>3, <3>1 DEF Saved, HasActive
    <3>3. Active(d).asg = Active(db).asg /\ d.jobs[id] = db.jobs[id]
      BY <1>2, <2>1, <3>1, <3>2 DEF Active
    <3>. QED  BY <1>2, <1>5, <1>9, <3>1, <3>2, <3>3 DEF Newer
  <2>4. Agree(db', d)
    <3>1. CASE db' = d
      BY <3>1 DEF Agree
    <3>2. CASE db' = db
      <4>1. SUFFICES ASSUME Active(db).asg.targets # {}
                     PROVE  /\ d.active = db.active /\ Active(d).asg = Active(db).asg
                            /\ Active(d).state \in Waiting <=> Active(db).state \in Waiting
        BY <3>2 DEF Agree
      <4>2. /\ write.job.state \notin Finished
            /\ write.job.state \in Waiting <=> Active(db).state \in Waiting
        BY <1>1, <1>3, <1>6, <3>2, <4>1, SaveUnderway
      <4>3. d.active = db.active /\ Active(d) = write.job
        BY <1>3, <2>1, <4>2 DEF Saved, Terminal, Active
      <4>. QED  BY <1>2, <4>2, <4>3
    <3>. QED  BY <1>9, <3>1, <3>2
  <2>5. Rest(d, payload)
    BY <1>1, <1>3, <1>9, SavedRest
  <2>6. Telling(db')
    BY <1>5, <1>9, <2>2
  <2>. QED  BY <1>1, <1>5, <1>7, <1>9, <2>2, <2>3, <2>4, <2>5, <2>6 DEF InOrder
<1>. QED  BY <1>4, <1>8, <1>9

\* The transaction of a submission.
LEMMA SubmitPayloads ==
    ASSUME PInv, Undisturbed, NEW a \in Assignments, Submit(a)
    PROVE  InOrder(pc', db', disk', write', applying', payload')
<1>. DEFINE b == Accepted(db, a)
            Made(x) == /\ x.active = a.job /\ x.jobs[a.job] = NewJob(a)
                       /\ \A id \in JobIDs \ {a.job} :
                             x.jobs[id] = db.jobs[id] \/ x.jobs[id] = NoJob
<1>1. /\ pc = "idle" /\ payload' = payload /\ ~HasActive(db) /\ a.seq > db.high
      /\ db.jobs[a.job].state = "absent" /\ ~OutboxFull(db)
  BY DEF Submit
<1>2. /\ db \in Database /\ WellFormed(db) /\ (~poisoned => db = disk)
  BY PayloadTypes
<1>3. /\ b \in Database /\ WellFormed(b) /\ b.active = a.job
      /\ b.jobs = [db.jobs EXCEPT ![a.job] = NewJob(a)] /\ a.job \in JobIDs
  BY <1>1, <1>2, AcceptedOK
<1>. HIDE DEF b
<1>4. Made(b)
  BY <1>2, <1>3 DEF Database
<1>5. ASSUME NEW id \in Oldest(b)
      PROVE  Made(Without(b, id))
  <2>1. /\ Without(b, id).jobs = [b.jobs EXCEPT ![id] = NoJob] /\ id \in JobIDs
        /\ Without(b, id).active = b.active
    BY <1>3, WithoutOK DEF Without, Database
  <2>2. id # a.job /\ b.jobs \in [JobIDs -> Job]
    BY <1>3 DEF Oldest, Database
  <2>. QED  BY <1>4, <2>1, <2>2, SMT
<1>6. \E x, arc : Made(x) /\ Update(x, arc, "idle")
  BY <1>4, <1>5 DEF Submit, b
<1>7. /\ Telling(db) /\ Telling(disk) /\ Newer(disk) /\ Agree(db, disk)
      /\ Rest(disk, payload)
  BY <1>1 DEF PInv, InOrder, Replacing, Window
<1>8. pc' = "idle"
  BY <1>6, UpdateOutcomes
<1>9. CASE db' = db /\ disk' = disk
  BY <1>1, <1>8, <1>9, Alike DEF PInv, Window
<1>10. ASSUME NEW x, Made(x), disk' = x, db' \in {db, x}, db = disk
       PROVE  InOrder(pc', db', disk', write', applying', payload')
  <2>1. Telling(x)
    <3>1. Tells(NoJob) /\ Tells(NewJob(a))
      BY DEF Tells, NoJob, NewJob, Waiting, Underway
    <3>. QED  BY <1>7, <1>10, <3>1 DEF Telling
  <2>2. HasActive(x) /\ Active(x) = NewJob(a)
    BY <1>3, <1>10, JobsAssumption DEF HasActive, Active
  <2>3. /\ NewJob(a).asg = a /\ NewJob(a).state = "accepted" /\ ~NewJob(a).payloadsApplied
        /\ NoJob.state = "absent"
    BY DEF NewJob, NoJob
  <2>4. Newer(x)
    <3>1. ASSUME NEW id \in JobIDs \ {a.job}, x.jobs[id].state # "absent"
          PROVE  x.jobs[id].asg.seq < a.seq
      <4>1. x.jobs[id] = db.jobs[id]
        BY <1>10, <2>3, <3>1
      <4>2. /\ db.jobs[id].asg \in Assignments /\ db.jobs[id].asg.seq <= db.high
        BY <1>2, <3>1, <4>1, SMT DEF WellFormed
      <4>3. db.jobs[id].asg.seq \in Nat /\ a.seq \in Nat /\ db.high \in Nat
        BY <1>2, <4>2, AssignmentsAssumption DEF Assignment, Database
      <4>. QED  BY <1>1, <4>1, <4>2, <4>3, SMT
    <3>. QED  BY <1>10, <2>2, <2>3, <3>1 DEF Newer
  <2>5. Agree(db', x)
    BY <1>1, <1>10 DEF Agree
  <2>6. ASSUME NEW t \in Targets
        PROVE  SameSetters(disk, x, t)
    <3>1. ASSUME NEW id \in JobIDs, id \in Setters(disk, t)
          PROVE  x.jobs[id] = disk.jobs[id]
      <4>1. disk.jobs[id].state = "committed" /\ disk.jobs[id].asg.targets # {}
        BY <3>1 DEF Setters
      <4>2. x.jobs[id].state = "committed"
        BY <1>10, <4>1 DEF Undisturbed
      <4>. QED  BY <1>1, <1>10, <2>3, <4>1, <4>2
    <3>2. ASSUME NEW id \in JobIDs, id \in Setters(x, t)
          PROVE  x.jobs[id] = disk.jobs[id]
      BY <1>10, <2>3, <3>2 DEF Setters
    <3>. QED  BY <3>1, <3>2 DEF SameSetters, Setters
  <2>7. Rest(x, payload)
    <3>1. Files(disk, payload, {}, {}, "")
      BY <1>1, <1>7, <1>10 DEF Rest
    <3>2. Files(x, payload, {}, {}, "")
      BY <2>6, <3>1, SameFiles
    <3>3. Taken(NewJob(a)) = {}
      BY <2>3 DEF Taken
    <3>. QED  BY <2>2, <3>2, <3>3, NoneReplaced DEF Rest
  <2>8. Progress(pc', applying', Active(db').asg) /\ ~Replacing(pc', db')
    BY <1>8 DEF Progress, Replacing, Window
  <2>. QED  BY <1>1, <1>7, <1>8, <1>10, <2>1, <2>4, <2>5, <2>7, <2>8 DEF InOrder
<1>11. PICK x, arc : Made(x) /\ Update(x, arc, "idle")
  BY <1>6
<1>. HIDE DEF Made
<1>12. \/ db' = db /\ disk' = disk
       \/ disk' = x /\ db' \in {db, x} /\ db = disk
  BY <1>2, <1>11, UpdateOutcomes
<1>. QED  BY <1>9, <1>10, <1>11, <1>12

\* A restart or a boot reads the disk back.
LEMMA FreshPayloads ==
    ASSUME PInv, Undisturbed, Restart \/ Boot
    PROVE  InOrder(pc', db', disk', write', applying', payload')
<1>. DEFINE a == Active(db).asg
<1>1. db' = disk /\ disk' = disk /\ pc' = "idle" /\ FilesLeft
  BY DEF Restart, Boot, FreshProcess
<1>2. Telling(disk) /\ Newer(disk) /\ Agree(disk, disk)
  BY DEF PInv, InOrder, Agree
<1>3. Rest(disk, payload) /\ payload' = payload
  <2>0. /\ pc # "write" \/ write.job.state \notin Finished => payload' = payload
        /\ write.job.asg.targets = {} => payload' = payload
    <3>1. payload = [t \in Targets |-> payload[t]]
      BY PayloadTypes
    <3>2. write.job.asg.targets = {} =>
             \A ahead \in SUBSET write.job.asg.targets : ahead = {}
      OBVIOUS
    <3>. QED  BY <1>1, <3>1, <3>2 DEF FilesLeft, Terminal
  <2>1. CASE ~Replacing(pc, db)
    <3>1. pc = "write" => write.job.asg.targets = {}
      BY <2>1, SaveUnderway DEF Replacing, Window
    <3>. QED  BY <2>0, <2>1, <3>1 DEF PInv, InOrder
  <2>2. CASE Replacing(pc, db)
    <3>1. /\ pc \in {"apply", "write"} /\ a.targets # {} /\ HasActive(db)
          /\ Midway(pc, disk, write, applying, a, payload)
          /\ pc = "apply" => applying.done = {} /\ Active(db).state \in Waiting
      BY <1>1, <2>2 DEF Replacing, Window, Undisturbed, Replaced, Release, PInv, InOrder,
         JInv, Inv, Core, Holding, Writing, Waiting
    <3>2. /\ HasActive(disk) /\ Active(disk).asg = a
          /\ Taken(Active(disk)) = Taken(Active(db))
          /\ Active(db).state \in Waiting => Taken(Active(db)) = {}
      BY <3>1, SameTaken
    <3>3. CASE pc = "apply"
      BY <2>0, <3>1, <3>2, <3>3 DEF Midway, Rest
    <3>4. CASE pc = "write" /\ ~Settling
      <4>1. write.job.state \notin Finished /\ Taken(write.job) = Taken(Active(db))
        BY <3>1, <3>4, SaveUnderway
      <4>2. Files(disk, payload, Taken(write.job), {}, a.version)
        BY <3>1, <3>4, <4>1 DEF Midway, Finished
      <4>. QED  BY <2>0, <3>2, <4>1, <4>2 DEF Rest
    <3>5. CASE pc = "write" /\ Settling
      <4>. DEFINE d == Recorded(db, write.id, write.job)
      <4>1. disk = d /\ write.id = db.active /\ db.active \in JobIDs
        BY <1>1, <3>1, <3>5, SaveUnderway, PayloadTypes DEF Undisturbed
      <4>2. /\ d.active = IF Terminal(write.job.state) THEN "" ELSE db.active
            /\ d.jobs[db.active] = write.job
        <5>1. db \in Database
          BY PayloadTypes
        <5>. QED  BY <4>1, <5>1 DEF Recorded, AddEvent, Database
      <4>. HIDE DEF d
      <4>3. write.job.state \notin Finished /\ Active(disk) = write.job
        BY <3>2, <4>1, <4>2 DEF HasActive, Terminal, Active
      <4>4. Files(disk, payload, Taken(write.job), {}, a.version)
        BY <3>1, <3>5, <4>3 DEF Midway, Finished
      <4>. QED  BY <2>0, <3>2, <4>3, <4>4 DEF Rest
    <3>. QED  BY <3>1, <3>3, <3>4, <3>5
  <2>. QED  BY <2>1, <2>2
<1>4. Progress(pc', applying', Active(db').asg) /\ ~Replacing(pc', db')
  BY <1>1 DEF Progress, Replacing, Window
<1>. QED  BY <1>1, <1>2, <1>3, <1>4 DEF InOrder

-----------------------------------------------------------------------------
\* The other steps

\* Acknowledgements and the record of a boot leave the jobs alone.
LEMMA BesidePayloads ==
    ASSUME PInv, Ack \/ NormalBootSeen \/ ConfirmBoot
    PROVE  InOrder(pc', db', disk', write', applying', payload')
<1>1. db \in Database /\ (~poisoned => db = disk)
  BY PayloadTypes
<1>. DEFINE Same(x) == x.jobs = db.jobs /\ x.active = db.active
<1>2. /\ \A n : Same([db EXCEPT !.outbox = n])
      /\ \A c : Same([db EXCEPT !.bootCheck = c])
      /\ Same([db EXCEPT !.bootCheck.confirmed = TRUE])
  BY <1>1 DEF Database
<1>3. ASSUME NEW x, Same(x), NEW n, Update(x, archive, n)
      PROVE  Same(db') /\ disk'.jobs = disk.jobs /\ disk'.active = disk.active
  BY <1>1, <1>3, UpdateOutcomes
<1>4. Same(db') /\ disk'.jobs = disk.jobs /\ disk'.active = disk.active
  <2>1. CASE Ack
    BY <1>1, <1>2, <2>1 DEF Ack
  <2>2. CASE NormalBootSeen
    BY <1>2, <1>3, <2>2 DEF NormalBootSeen
  <2>3. CASE ConfirmBoot
    BY <1>2, <1>3, <2>3 DEF ConfirmBoot
  <2>. QED  BY <2>1, <2>2, <2>3
<1>5. /\ payload' = payload
      /\ \/ pc' = pc /\ write' = write /\ applying' = applying
         \/ pc \in {"idle", "confirm"} /\ pc' = "idle"
  <2>1. CASE Ack
    BY <2>1 DEF Ack
  <2>2. CASE NormalBootSeen
    BY <2>2, UpdateOutcomes DEF NormalBootSeen, Confirming
  <2>3. CASE ConfirmBoot
    BY <2>3, UpdateOutcomes DEF ConfirmBoot
  <2>. QED  BY <2>1, <2>2, <2>3
<1>. QED  BY <1>4, <1>5, Alike DEF PInv, Window

\* So do the clock, the device and the steps that only call the backend.
LEMMA BackendPayloads ==
    ASSUME PInv,
           \/ UNCHANGED vars \/ Tick \/ FlashDone \/ GC \/ StepUnhealthy \/ StepMarkGood \/ StepMarkBad
           \/ ActivateOldSlot \/ Reboot \/ RecoverAbort \/ AbortActivate
           \/ NormalBootDeadline \/ ActivateFallback \/ NormalBootUnhealthy
           \/ NormalBootHealthy \/ SimulatorInstall \/ InstallBundle \/ InstallCompleted
    PROVE  InOrder(pc', db', disk', write', applying', payload')
<1>1. db' = db /\ disk' = disk /\ payload' = payload
  BY DEF vars, Tick, FlashDone, GC, StepUnhealthy, StepMarkGood, StepMarkBad, ActivateOldSlot,
     Reboot, RecoverAbort, AbortActivate, NormalBootDeadline, ActivateFallback,
     NormalBootUnhealthy, NormalBootHealthy, SimulatorInstall, InstallBundle,
     InstallCompleted, storeVars
<1>2. \/ pc' = pc /\ write' = write /\ applying' = applying
      \/ pc \notin Window /\ pc' \notin Window
  <2>1. CASE UNCHANGED vars \/ Tick \/ FlashDone \/ GC \/ StepUnhealthy \/ NormalBootUnhealthy
    BY <2>1 DEF vars, Tick, FlashDone, GC, StepUnhealthy, NormalBootUnhealthy
  <2>2. CASE StepMarkGood \/ StepMarkBad \/ ActivateOldSlot \/ Reboot \/ RecoverAbort
             \/ AbortActivate \/ NormalBootDeadline \/ ActivateFallback
    BY <2>2 DEF StepMarkGood, Checking, Stepping, StepMarkBad, ActivateOldSlot, Reboot,
       RecoverAbort, AbortActivate, NormalBootDeadline, Confirming, ActivateFallback, Window
  <2>3. CASE NormalBootHealthy \/ SimulatorInstall \/ InstallBundle \/ InstallCompleted
    BY <2>3 DEF NormalBootHealthy, Confirming, SimulatorInstall, InstallBundle,
       InstallCompleted, Window
  <2>. QED  BY <2>1, <2>2, <2>3
<1>. QED  BY <1>1, <1>2, Alike DEF PInv

\* A record that is the active one as far as its release and its payloads go.
Like(k) ==
    k \in Job /\ k.asg = Active(db).asg /\ k.payloadsApplied = Active(db).payloadsApplied

\* The saves of a job that waits.
LEMMA WaitingPayloads ==
    ASSUME PInv,
           StepExpired \/ StepRejected \/ StepAccepted \/ StepDeferred \/ StepDownloaded
    PROVE  InOrder(pc', db', disk', write', applying', payload')
<1>. DEFINE j == Active(db)
<1>1. /\ pc = "idle" /\ HasActive(db) /\ j.state \in Waiting /\ UNCHANGED storeVars
  BY DEF StepExpired, StepRejected, StepAccepted, StepDeferred, StepDownloaded, Stepping,
     Waiting
<1>2. j \in Job
  BY <1>1, PayloadTypes
<1>3. /\ Like(j) /\ Like([j EXCEPT !.deferred = TRUE]) /\ Like([j EXCEPT !.deferred = FALSE])
      /\ Like(Armed(j))
  <2>1. now + Jitter \in Nat
    <3>1. now \in Nat
      BY DEF PInv, JInv, Inv, TypeOK
    <3>. QED  BY <3>1, EngineAssumption, SMT
  <2>2. \A n \in Nat : Like([j EXCEPT !.downloadAfter = n])
    BY <1>2 DEF Like, Job
  <2>3. Like(j) /\ Like([j EXCEPT !.deferred = TRUE]) /\ Like([j EXCEPT !.deferred = FALSE])
    BY <1>2 DEF Like, Job
  <2>. QED  BY <2>1, <2>2, <2>3 DEF Armed
<1>. HIDE DEF j
<1>4. \E k, st : Like(k) /\ BeginSave(k, st, "idle") /\ st \in Waiting \cup {"failed"}
  <2>1. CASE StepExpired \/ StepRejected
    BY <1>3, <2>1 DEF StepExpired, StepRejected, j
  <2>2. CASE StepAccepted
    <3>1. BeginSave(Armed(j), "downloading", "idle")
      BY <2>2 DEF StepAccepted, j
    <3>. QED  BY <1>3, <3>1 DEF Waiting
  <2>3. CASE StepDeferred
    BY <1>3, <2>3 DEF StepDeferred, Waiting, j
  <2>4. CASE StepDownloaded
    BY <1>3, <2>4 DEF StepDownloaded, Waiting, j
  <2>. QED  BY <2>1, <2>2, <2>3, <2>4
<1>5. "failed" \notin Underway \cup {"committed"} /\ "committed" \notin Waiting
      /\ Waiting \cap Underway = {}
  BY DEF Underway, Waiting
<1>. QED  BY <1>1, <1>4, <1>5, SavePayloads DEF Like, Window, j

\* The saves of a job under way.
LEMMA UnderwayPayloads ==
    ASSUME PInv,
           \/ StepInstalling \/ StepAutoReboot \/ RequestReboot \/ RebootJob
           \/ StepBooted \/ StepBootedAgain \/ StepHealthDeadline \/ StepHealthy
           \/ SaveCommitted \/ StepRolledBack \/ AbortSave \/ InstallError \/ Inspect
    PROVE  InOrder(pc', db', disk', write', applying', payload')
<1>. DEFINE j == Active(db)
<1>1. pc \notin Window /\ UNCHANGED storeVars
  BY DEF StepInstalling, StepAutoReboot, RequestReboot, RebootJob, StepBooted,
     StepBootedAgain, StepHealthDeadline, StepHealthy, Checking, SaveCommitted,
     StepRolledBack, AbortSave, InstallError, Inspect, Stepping, Window
<1>2. HasActive(db) /\ j.state \in Underway
  <2>1. CASE StepInstalling \/ StepAutoReboot \/ RequestReboot \/ StepBooted \/ StepBootedAgain
             \/ StepHealthDeadline \/ StepHealthy \/ StepRolledBack
    BY <2>1 DEF StepInstalling, StepAutoReboot, RequestReboot, StepBooted, StepBootedAgain,
       StepHealthDeadline, StepHealthy, Checking, StepRolledBack, Stepping, Underway
  <2>2. CASE RebootJob \/ SaveCommitted \/ AbortSave \/ InstallError \/ Inspect
    <3>1. pc \in {"rebootJob", "commit", "aborted", "install", "flashing", "inspect"}
      BY <2>2 DEF RebootJob, SaveCommitted, AbortSave, InstallError, Inspect
    <3>. QED  BY <3>1 DEF PInv, JInv, Inv, Core, Holding, Underway
  <2>. QED  BY <2>1, <2>2
<1>3. j \in Job /\ now \in Nat /\ dev.bootID \in Nat
  <2>1. dev \in DeviceState /\ now \in Nat
    BY DEF PInv, JInv, Inv, TypeOK
  <2>. QED  BY <1>2, <2>1, PayloadTypes DEF DeviceState
<1>4. /\ Like(j) /\ Like([j EXCEPT !.rebootRequested = TRUE])
      /\ Like([j EXCEPT !.rebootRequested = FALSE])
      /\ Like([j EXCEPT !.healthStarted = now, !.bootID = dev.bootID])
      /\ Like([j EXCEPT !.bootID = dev.bootID])
  BY <1>3 DEF Like, Job
<1>. HIDE DEF j
<1>5. \/ pc' \notin Window /\ payload' = payload
      \/ \E k, st, nx : Like(k) /\ BeginSave(k, st, nx) /\ st \notin Waiting
  <2>1. CASE StepInstalling \/ StepHealthDeadline \/ SaveCommitted \/ AbortSave \/ InstallError
    BY <1>4, <2>1, SMT DEF StepInstalling, StepHealthDeadline, SaveCommitted, AbortSave,
       InstallError, Waiting, j
  <2>2. CASE StepAutoReboot \/ RequestReboot
    BY <1>4, <2>2 DEF StepAutoReboot, RequestReboot, BeginReboot, Waiting, j
  <2>3. CASE RebootJob
    <3>1. \/ pc' = "idle" /\ payload' = payload
          \/ BeginSave([j EXCEPT !.rebootRequested = FALSE], "awaiting_reboot", "idle")
      BY <2>3 DEF RebootJob, j
    <3>. QED  BY <1>4, <3>1, SMT DEF Waiting, Window
  <2>4. CASE StepBooted
    BY <1>4, <2>4, SMT DEF StepBooted, BootOutcome, Waiting, j
  <2>5. CASE StepBootedAgain
    <3>1. BootOutcome(j, "checking_health") \notin Waiting
      BY DEF BootOutcome, Waiting
    <3>2. \/ BeginSave(j, BootOutcome(j, "checking_health"), "idle")
          \/ BeginSave([j EXCEPT !.bootID = dev.bootID], BootOutcome(j, "checking_health"), "idle")
      BY <2>5 DEF StepBootedAgain, j
    <3>. QED  BY <1>4, <3>1, <3>2
  <2>6. CASE StepHealthy
    BY <1>1, <1>4, <2>6, SMT DEF StepHealthy, Waiting, j
  <2>7. CASE StepRolledBack \/ Inspect
    BY <1>4, <2>7, SMT DEF StepRolledBack, Inspect, Waiting, j
  <2>. QED  BY <2>1, <2>2, <2>3, <2>4, <2>5, <2>6, <2>7
<1>6. CASE pc' \notin Window /\ payload' = payload
  BY <1>1, <1>6, Alike DEF PInv, storeVars
<1>7. CASE \E k, st, nx : Like(k) /\ BeginSave(k, st, nx) /\ st \notin Waiting
  BY <1>1, <1>2, <1>7, SavePayloads DEF Like, j
<1>. QED  BY <1>5, <1>6, <1>7

-----------------------------------------------------------------------------
\* The theorem

\* The initial state.
LEMMA InitPInv == Init => PInv
<1>. SUFFICES ASSUME Init
              PROVE  PInv
  OBVIOUS
<1>1. /\ pc = "idle" /\ db = disk /\ ~HasActive(disk)
      /\ \A id \in JobIDs : disk.jobs[id] = NoJob
      /\ \A t \in Targets : payload[t].current = Factory
  BY DEF Init, EmptyDatabase, HasActive
<1>2. NoJob.state = "absent" /\ Tells(NoJob)
  BY DEF NoJob, Tells, Waiting, Underway
<1>3. \A t \in Targets : Setters(disk, t) = {}
  BY <1>1, <1>2 DEF Setters
<1>4. Rest(disk, payload)
  BY <1>1, <1>3 DEF Rest, Files, Set
<1>5. /\ Telling(disk) /\ Newer(disk) /\ Agree(db, disk)
      /\ Progress(pc, applying, Active(db).asg) /\ ~Replacing(pc, db)
  BY <1>1, <1>2 DEF Telling, Newer, Agree, Progress, Replacing, Window
<1>. QED  BY <1>1, <1>4, <1>5, InitJInv DEF PInv, InOrder

\* Every undisturbed step keeps the invariant.
LEMMA NextPInv ==
    ASSUME PInv, Next, Undisturbed
    PROVE  PInv'
<1>1. JInv'
  BY NextJInv DEF PInv
<1>2. CASE PreinstallError
  <2>1. /\ pc = "preinstall" /\ pc' = "idle" /\ db' = db /\ disk' = disk /\ payload' = payload
    BY <1>2 DEF PreinstallError, storeVars
  <2>2. Active(db).asg.targets = {}
    BY <2>1 DEF Undisturbed, Replaced, Release
  <2>3. InOrder("idle", db, disk, write', applying', payload)
    BY <2>2 DEF PInv, InOrder, Replacing, Progress
  <2>. QED  BY <1>1, <2>1, <2>3 DEF PInv, InOrder
<1>3. CASE Step
  BY <1>1, <1>3, VerifiedPayloads, WaitingPayloads, UnderwayPayloads, BackendPayloads,
     BesidePayloads DEF Step, PInv
<1>4. CASE Request
  BY <1>1, <1>4, SubmitPayloads, BesidePayloads, BackendPayloads, UnderwayPayloads
     DEF Request, PInv
<1>5. CASE Environment
  BY <1>1, <1>5, FreshPayloads, BackendPayloads DEF Environment, PInv
<1>6. CASE Continue
  BY <1>1, <1>2, <1>6, WritePayloads, BackendPayloads, BesidePayloads, UnderwayPayloads,
     ReplacePayloads, CopiedPayloads, FailedPayloads, InPlacePayloads, PreinstallPayloads
     DEF Continue, PInv
<1>. QED  BY <1>3, <1>4, <1>5, <1>6 DEF Next

\* PayloadsSettled, as long as nothing interrupts applySidePayloads once it has
\* replaced a file, the save that follows succeeds, and compactHot archives no job
\* that set a payload: the payloads of a release commit or roll back as one set,
\* whatever boots, rollbacks, recoveries, restarts and failed writes happen otherwise.
THEOREM PayloadsSettle ==
    Spec /\ [][Undisturbed]_vars => []PayloadsSettled
<1>1. PInv => PayloadsSettled
  BY Settled
<1>2. PInv /\ [Next]_vars /\ [Undisturbed]_vars => PInv'
  <2>1. SUFFICES ASSUME PInv, [Next]_vars, [Undisturbed]_vars
                 PROVE  PInv'
    OBVIOUS
  <2>2. CASE UNCHANGED vars
    BY <2>1, <2>2, NextJInv, BackendPayloads DEF PInv
  <2>3. CASE Next /\ Undisturbed
    BY <2>1, <2>3, NextPInv
  <2>. QED  BY <2>1, <2>2, <2>3
<1>. QED  BY <1>1, <1>2, InitPInv, PTL DEF Spec

-----------------------------------------------------------------------------
\* The jobs of a journal are within the limit of hot jobs.
Fits(jobs) == IsFiniteSet(jobs) /\ Cardinality(jobs) <= HotJobLimit

LInv == JInv /\ Fits(Hot(db)) /\ Fits(Hot(disk))

\* Every step other than a submission leaves the sets of jobs as they are, in memory
\* and on disk, or makes them the other one.
LEMMA HotStep ==
    ASSUME JInv, [Next]_vars
    PROVE  \/ Hot(db)' \in {Hot(db), Hot(disk)} /\ Hot(disk)' \in {Hot(db), Hot(disk)}
           \/ \E a \in Assignments : Submit(a)
<1>1. CASE Quiet \/ UNCHANGED vars \/ Restart \/ Boot \/ GC
  <2>1. db' \in {db, disk} /\ disk' = disk
    BY <1>1 DEF Quiet, vars, Restart, Boot, FreshProcess, GC, storeVars
  <2> QED
    BY <2>1 DEF Hot
<1>2. ASSUME NEW d, db' \in {db, d}, disk' \in {disk, d}, Hot(d) = Hot(db)
      PROVE  Hot(db)' \in {Hot(db), Hot(disk)} /\ Hot(disk)' \in {Hot(db), Hot(disk)}
  BY <1>2 DEF Hot
<1>3. CASE WriteJournal
  <2>1. pc = "write"
    BY <1>3 DEF WriteJournal
  <2>2. CASE OutboxFull(db)
    BY <1>2, <1>3, <2>2 DEF WriteJournal, storeVars
  <2>3. CASE ~OutboxFull(db)
    <3> DEFINE d == Recorded(db, write.id, write.job)
    <3>1. Update(d, archive, write.next)
      BY <1>3, <2>3 DEF WriteJournal
    <3>2. d.jobs = [db.jobs EXCEPT ![db.active] = write.job] /\ db.active \in JobIDs
      BY <2>1, <2>3, RecordedSound
    <3> HIDE DEF d
    <3>3. /\ db \in Database /\ WellFormed(db) /\ HasActive(db)
          /\ write.job.state \in States /\ db.jobs \in [JobIDs -> Job]
      BY <2>1 DEF JInv, Inv, TypeOK, Core, Writing, Database
    <3>4. Active(db).state \in Waiting \cup Underway
      BY <3>3, ActiveJob
    <3>5. db.jobs[db.active].state # "absent" /\ write.job.state # "absent"
      BY <3>3, <3>4 DEF Active, States, Waiting, Underway, Finished
    <3>6. Hot(d) = Hot(db)
      BY <3>2, <3>3, <3>5 DEF Hot
    <3>7. db' \in {db, d} /\ disk' \in {disk, d}
      BY <3>1, UpdateOutcomes
    <3> QED
      BY <1>2, <3>6, <3>7
  <2> QED
    BY <2>2, <2>3
<1>4. db \in Database
  BY DEF JInv, Inv, TypeOK
<1>5. CASE Ack
  <2>1. PICK left \in 0..db.outbox :
            /\ db' \in {db, [db EXCEPT !.outbox = left]}
            /\ disk' \in {disk, [db EXCEPT !.outbox = left]}
    BY <1>5 DEF Ack
  <2>2. Hot([db EXCEPT !.outbox = left]) = Hot(db)
    BY <1>4 DEF Hot, Database
  <2> QED
    BY <1>2, <2>1, <2>2
<1>6. CASE NormalBootSeen
  <2> DEFINE d == [db EXCEPT !.bootCheck =
                      [bootID |-> dev.bootID, started |-> now, confirmed |-> FALSE]]
  <2>1. Update(d, archive, "idle")
    BY <1>6 DEF NormalBootSeen
  <2>2. Hot(d) = Hot(db)
    BY <1>4 DEF Hot, Database
  <2> HIDE DEF d
  <2> QED
    BY <1>2, <2>1, <2>2, UpdateOutcomes
<1>7. CASE ConfirmBoot
  <2> DEFINE d == [db EXCEPT !.bootCheck.confirmed = TRUE]
  <2>1. Update(d, archive, "idle")
    BY <1>7 DEF ConfirmBoot
  <2>2. Hot(d) = Hot(db)
    BY <1>4 DEF Hot, Database
  <2> HIDE DEF d
  <2> QED
    BY <1>2, <2>1, <2>2, UpdateOutcomes
<1> QED
  BY <1>1, <1>3, <1>5, <1>6, <1>7, NextQuiet DEF JInv

\* A submission adds one job; where that is one too many, compactHot archives another.
LEMMA SubmitFits ==
    ASSUME LInv, NEW a \in Assignments, Submit(a)
    PROVE  Fits(Hot(db)') /\ Fits(Hot(disk)')
<1> DEFINE d == Accepted(db, a)
<1>1. JInv /\ ~HasActive(db) /\ ~OutboxFull(db) /\ a.seq > db.high
  BY DEF LInv, Submit
<1>2. /\ d \in Database /\ WellFormed(d) /\ d.jobs \in [JobIDs -> Job]
  BY <1>1, AcceptedSound DEF Database
<1>3. /\ d.jobs = [db.jobs EXCEPT ![a.job] = NewJob(a)] /\ a.job \in JobIDs
      /\ db.jobs \in [JobIDs -> Job]
  BY <1>1, AcceptedOK DEF JInv, Inv, TypeOK, Core, Database
<1>4. \/ OverHotLimit(d) /\ \E id \in Oldest(d) :
             Update(Without(d, id), [archive EXCEPT ![id] = d.jobs[id]], "idle")
      \/ ~OverHotLimit(d) /\ Update(d, archive, "idle")
  BY DEF Submit
<1> HIDE DEF d
<1>5. Hot(d) = Hot(db) \cup {a.job}
  <2>1. NewJob(a).state = "accepted"
    BY DEF NewJob, NoJob
  <2> QED
    BY <1>3, <2>1 DEF Hot
<1>6. IsFiniteSet(Hot(d)) /\ Cardinality(Hot(d)) <= HotJobLimit + 1
  <2>1. IsFiniteSet(Hot(db)) /\ Cardinality(Hot(db)) <= HotJobLimit
    BY DEF LInv, Fits
  <2>2. /\ IsFiniteSet(Hot(d))
        /\ \/ Cardinality(Hot(d)) = Cardinality(Hot(db))
           \/ Cardinality(Hot(d)) = Cardinality(Hot(db)) + 1
    BY <1>5, <2>1, FS_AddElement
  <2>3. Cardinality(Hot(db)) \in Nat
    BY <2>1, FS_CardinalityType
  <2> QED
    BY <2>1, <2>2, <2>3, LimitsAssumption, SMT
<1>7. Cardinality(Hot(d)) \in Nat
  BY <1>6, FS_CardinalityType
<1>8. ASSUME NEW e, Fits(Hot(e)), NEW arc, Update(e, arc, "idle")
      PROVE  Fits(Hot(db)') /\ Fits(Hot(disk)')
  <2>1. db' \in {db, e} /\ disk' \in {disk, e}
    BY <1>8, UpdateOutcomes
  <2>2. Hot(db)' \in {Hot(db), Hot(e)} /\ Hot(disk)' \in {Hot(disk), Hot(e)}
    BY <2>1 DEF Hot
  <2>3. Fits(Hot(db)) /\ Fits(Hot(disk))
    BY DEF LInv
  <2> QED
    BY <1>8, <2>2, <2>3
<1>9. CASE ~OverHotLimit(d) /\ Update(d, archive, "idle")
  <2>1. Fits(Hot(d))
    BY <1>6, <1>7, <1>9, LimitsAssumption, SMT DEF OverHotLimit, Fits
  <2> QED
    BY <1>8, <1>9, <2>1
<1>10. CASE \E id \in Oldest(d) :
               Update(Without(d, id), [archive EXCEPT ![id] = d.jobs[id]], "idle")
  <2>1. PICK id \in Oldest(d) :
            Update(Without(d, id), [archive EXCEPT ![id] = d.jobs[id]], "idle")
    BY <1>10
  <2> DEFINE e == Without(d, id)
  <2>2. e.jobs = [d.jobs EXCEPT ![id] = NoJob] /\ id \in Hot(d)
    BY <1>2, WithoutOK DEF Oldest
  <2>3. Update(e, [archive EXCEPT ![id] = d.jobs[id]], "idle")
    BY <2>1
  <2> HIDE DEF e
  <2>4. Hot(e) = Hot(d) \ {id}
    <3>1. NoJob.state = "absent"
      BY DEF NoJob
    <3> QED
      BY <1>2, <2>2, <3>1 DEF Hot
  <2>5. IsFiniteSet(Hot(e)) /\ Cardinality(Hot(e)) = Cardinality(Hot(d)) - 1
    BY <1>6, <2>2, <2>4, FS_RemoveElement
  <2>6. Fits(Hot(e))
    BY <1>6, <1>7, <2>5, LimitsAssumption, SMT DEF Fits
  <2> QED
    BY <1>8, <2>3, <2>6
<1> QED
  BY <1>4, <1>9, <1>10

\* A new journal holds no job.
LEMMA InitLInv == Init => LInv
<1> SUFFICES ASSUME Init PROVE LInv
  OBVIOUS
<1>1. NoJob.state = "absent"
  BY DEF NoJob
<1>2. Hot(db) = {} /\ Hot(disk) = {}
  BY <1>1 DEF Init, EmptyDatabase, Hot
<1>3. Fits({})
  BY FS_EmptySet, LimitsAssumption, SMT DEF Fits
<1> QED
  BY <1>2, <1>3, InitJInv DEF LInv

\* Every step keeps the number of jobs within the limit.
LEMMA NextLInv ==
    ASSUME LInv, [Next]_vars
    PROVE  LInv'
<1>1. JInv /\ JInv' /\ Fits(Hot(db)) /\ Fits(Hot(disk))
  BY NextJInv DEF LInv
<1>2. Fits(Hot(db)') /\ Fits(Hot(disk)')
  BY <1>1, HotStep, SubmitFits
<1>3. Fits(Hot(db))' /\ Fits(Hot(disk))'
  BY <1>2 DEF Fits, Hot
<1> QED
  BY <1>1, <1>3 DEF LInv

\* The journal in memory and on disk passes validateDatabase at all times: no update is
\* refused and no start fails because of what the engine itself has written.
THEOREM JournalStaysValid == Spec => []JournalValid
<1>1. LInv => JournalValid
  <2>1. ASSUME NEW d, WellFormed(d), Sound(d), Fits(Hot(d)) PROVE ValidDatabase(d)
    <3>1. Cardinality(Hot(d)) \in Nat
      BY <2>1, FS_CardinalityType DEF Fits
    <3>2. Cardinality(Hot(d)) <= HotJobLimit + 1
      BY <2>1, <3>1, LimitsAssumption, SMT DEF Fits
    <3> QED
      BY <2>1, <3>2 DEF WellFormed, Sound, Within, ValidDatabase, Hot
  <2> QED
    BY <2>1 DEF LInv, JInv, Inv, Core, JournalValid
<1> QED
  BY <1>1, InitLInv, NextLInv, PTL DEF Spec
=============================================================================
