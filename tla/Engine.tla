------------------------------- MODULE Engine -------------------------------
(***************************************************************************)
(* The update engine of the agent (internal/ota/engine.go, boot.go), its   *)
(* journal (store.go), the side payload files (payload.go) and the device  *)
(* it drives (modules Journal and Device).                                 *)
(*                                                                         *)
(* One operation holds the engine mutex at a time; pc is the point it has  *)
(* reached and Idle means that the mutex is free.  An action ends wherever *)
(* the code makes a durable effect (a journal transaction, a backend call, *)
(* a change of the payload files), so an acknowledgement, the clock, the   *)
(* installer, a restart of the process or a power loss can come between    *)
(* any two of them.  save is two actions: BeginSave for the payload files, *)
(* which the code changes first, and WriteJournal for the transaction.     *)
(* The files of a release are changed target by target; a process that     *)
(* dies before the transaction has ended leaves those of any of them as    *)
(* they were (FilesLeft).                                                  *)
(*                                                                         *)
(* A call that fails and changes nothing (a status error, a failed fetch,  *)
(* a refused request) is a stuttering step and has no action of its own.   *)
(***************************************************************************)
EXTENDS Device

CONSTANTS
    HealthTimeout,     \* Config.HealthTimeoutSeconds
    HealthStable,      \* Config.HealthStableSeconds
    Jitter,            \* Config.DownloadJitter()
    DownloadWindow,    \* the times at which DownloadAllowed returns nil
    LocalMedia,        \* sequences of the releases in Config.LocalMediaDir
    Faults,            \* the faults that may happen: a subset of FaultKinds
    MaxPowerLoss,      \* bound on power losses, and on failed boots of the simulator
    MaxNow             \* bound on the clock

FaultKinds == {"restart", "storage", "backend", "clock"}

ASSUME EngineAssumption ==
    /\ HealthTimeout \in Nat
    /\ HealthStable \in 0..(HealthTimeout - 1)
    /\ Jitter \in Nat
    /\ Faults \subseteq FaultKinds

VARIABLES
    now,           \* the wall clock, from 1
    dev,           \* the device
    db,            \* Store.data: the database in memory
    disk,          \* the snapshot row of the SQLite database
    archive,       \* its archive_jobs table
    poisoned,      \* Store.poisoned
    pc,            \* the point the holder of Engine.mu has reached
    write,         \* the save under way: the record, the files before, what follows it
    applying,      \* applySidePayloads: targets replaced, target being copied
    payload,       \* payloads/<id>/current and previous
    cache,         \* sequences of the releases whose artifacts are in cache/
    healthySince,  \* Engine.healthySince
    losses,        \* power losses and failed boots of the simulator so far
    installs,      \* history: installations requested, by release sequence
    okSince,       \* history: when this process's run of passing checks began
    proven         \* history: such a run held through HealthStable in this boot

storeVars == <<db, disk, archive, poisoned>>
history == <<installs, okSince, proven>>
vars == <<now, dev, db, disk, archive, poisoned, pc, write, applying, payload,
          cache, healthySince, losses, installs, okSince, proven>>

SeqNumbers == {a.seq : a \in Assignments}

Content == Versions \cup {"", "torn"}

PCs == {"idle", "write", "apply", "copy", "preinstall", "install", "flashing",
        "inspect", "commit", "rollback", "reboot", "rebootJob", "abort",
        "aborted", "confirm", "fallback"}

NoWrite ==
    [id |-> "", job |-> NoJob, next |-> "idle",
     files |-> [t \in Targets |-> [current |-> "", previous |-> ""]]]

NotApplying == [done |-> {}, cur |-> ""]

TypeOK ==
    /\ now \in Nat
    /\ dev \in DeviceState
    /\ db \in Database
    /\ disk \in Database
    /\ archive \in [JobIDs -> Job]
    /\ poisoned \in BOOLEAN
    /\ pc \in PCs
    /\ write \in [id : JobIDs \cup {""}, job : Job, next : PCs,
                  files : [Targets -> [current : Content, previous : Content]]]
    /\ applying \in [done : SUBSET Targets, cur : Targets \cup {""}]
    /\ payload \in [Targets -> [current : Content, previous : Content]]
    /\ cache \subseteq SeqNumbers
    /\ healthySince \in Nat
    /\ losses \in Nat
    /\ installs \in [SeqNumbers -> Nat]
    /\ okSince \in Nat
    /\ proven \in BOOLEAN

Init ==
    /\ now = 1
    /\ dev = FactoryDevice
    /\ db = EmptyDatabase
    /\ disk = EmptyDatabase
    /\ archive = [id \in JobIDs |-> NoJob]
    /\ poisoned = FALSE
    /\ pc = "idle"
    /\ write = NoWrite
    /\ applying = NotApplying
    /\ payload = [t \in Targets |-> [current |-> Factory, previous |-> ""]]
    /\ cache = {}
    /\ healthySince = 0
    /\ losses = 0
    /\ installs = [q \in SeqNumbers |-> 0]
    /\ okSince = 0
    /\ proven = FALSE

-----------------------------------------------------------------------------
\* Store.Update

\* The database d, and with it the archive table arc, is written in one
\* transaction and the operation goes on at next; or the transaction fails,
\* which poisons the process although the commit may have reached the disk; or
\* the process is poisoned already.  The integrity check Update makes on d has
\* no branch here: ValidDatabase holds of every database that is written
\* (JournalValid).  Nor has compactHot: only Submit adds a record, so only there
\* the journal can be over its limit.
Update(d, arc, next) ==
    \/ /\ ~poisoned
       /\ db' = d /\ disk' = d /\ archive' = arc
       /\ pc' = next
       /\ UNCHANGED poisoned
    \/ /\ ~poisoned /\ "storage" \in Faults
       /\ \/ disk' = d /\ archive' = arc
          \/ UNCHANGED <<disk, archive>>
       /\ poisoned' = TRUE
       /\ pc' = "idle"
       /\ UNCHANGED db
    \/ /\ poisoned
       /\ pc' = "idle"
       /\ UNCHANGED storeVars

-----------------------------------------------------------------------------
\* Side payload files

\* rollbackSidePayloads: previous takes the place of current, and a current
\* file without a previous one is removed.
Restored(files, targets) ==
    [t \in Targets |->
        IF t \in targets
        THEN [current |-> files[t].previous, previous |-> ""]
        ELSE files[t]]

\* commitSidePayloads
Kept(files, targets) ==
    [t \in Targets |->
        IF t \in targets THEN [files[t] EXCEPT !.previous = ""] ELSE files[t]]

\* What save does to the files before it writes the journal.
FilesAfter(j, state) ==
    CASE state = "committed" -> Kept(payload, j.asg.targets)
      [] state \in {"rolled_back", "failed"} /\ j.payloadsApplied ->
            Restored(payload, j.asg.targets)
      [] OTHER -> payload

-----------------------------------------------------------------------------
\* Engine.save

\* The record j is about to be saved in this state; next is where a successful
\* save continues, and files is what the payload files were like before.
SaveRecord(j, state, next) ==
    /\ write' = [id |-> j.asg.job,
                 job |-> [j EXCEPT !.state = state,
                                   !.updated = IF Terminal(state) THEN now ELSE @],
                 next |-> next,
                 files |-> payload]
    /\ pc' = "write"

BeginSave(j, state, next) ==
    /\ SaveRecord(j, state, next)
    /\ payload' = FilesAfter(j, state)

\* A target that save has not come to the end of: between the two steps of a
\* rollback it has no current file.
NotYetSettled(t, begun) ==
    IF t = begun /\ payload[t] # write.files[t] /\ write.job.state # "committed"
    THEN [write.files[t] EXCEPT !.current = ""]
    ELSE write.files[t]

\* What a process that dies leaves of the payload files: a rollback and a commit go
\* from target to target.
FilesLeft ==
    IF pc = "write" /\ Terminal(write.job.state)
    THEN \E ahead \in SUBSET write.job.asg.targets, begun \in Targets \cup {""} :
            payload' = [t \in Targets |->
                           IF t \in ahead THEN NotYetSettled(t, begun) ELSE payload[t]]
    ELSE UNCHANGED payload

\* The transaction of save.  A full outbox refuses it before anything is written.
WriteJournal ==
    /\ pc = "write"
    /\ IF OutboxFull(db)
       THEN pc' = "idle" /\ UNCHANGED storeVars
       ELSE Update(Recorded(db, write.id, write.job), archive, write.next)
    /\ write' = NoWrite
    /\ UNCHANGED <<now, dev, applying, payload, cache, healthySince, losses, history>>

-----------------------------------------------------------------------------
\* Requests that take the mutex only if it is free, and Ack

\* Seeded fault: a record leaves the journal without reaching the archive.
ForgetsArchive(a) ==
    /\ pc = "idle"
    /\ db.jobs[a.job].state = "absent"
    /\ a.deadline > now /\ a.deadline > a.notBefore
    /\ ~HasActive(db)
    /\ db.outbox <= HotEventLimit /\ ~OutboxFull(db)
    /\ a.seq > db.high
    /\ LET d == Accepted(db, a)
       IN  IF OverHotLimit(d)
           THEN \E id \in Oldest(d) :
                   Update(Without(d, id), archive, "idle")
           ELSE Update(d, archive, "idle")
    /\ UNCHANGED <<now, dev, write, applying, payload, cache, healthySince,
                   losses, history>>

\* Seeded fault: the high-water mark is not checked.
AcceptsReplay(a) ==
    /\ pc = "idle"
    /\ db.jobs[a.job].state = "absent"
    /\ a.deadline > now /\ a.deadline > a.notBefore
    /\ ~HasActive(db)
    /\ db.outbox <= HotEventLimit /\ ~OutboxFull(db)
    /\ LET d == Accepted(db, a)
       IN  IF OverHotLimit(d)
           THEN \E id \in Oldest(d) :
                   Update(Without(d, id), [archive EXCEPT ![id] = d.jobs[id]], "idle")
           ELSE Update(d, archive, "idle")
    /\ UNCHANGED <<now, dev, write, applying, payload, cache, healthySince,
                   losses, history>>

\* Submit accepts an assignment.  Everything it refuses leaves the state alone.
Submit(a) ==
    /\ pc = "idle"
    /\ db.jobs[a.job].state = "absent"
    /\ a.deadline > now /\ a.deadline > a.notBefore
    /\ ~HasActive(db)
    /\ db.outbox <= HotEventLimit /\ ~OutboxFull(db)
    /\ a.seq > db.high
    /\ LET d == Accepted(db, a)
       IN  IF OverHotLimit(d)
           THEN \E id \in Oldest(d) :
                   Update(Without(d, id), [archive EXCEPT ![id] = d.jobs[id]], "idle")
           ELSE Update(d, archive, "idle")
    /\ UNCHANGED <<now, dev, write, applying, payload, cache, healthySince,
                   losses, history>>

\* Seeded fault: one event too many is dropped.
AckOneTooMany ==
    /\ \E left \in {db.outbox - 1} :
          \/ /\ ~poisoned
             /\ db' = [db EXCEPT !.outbox = left]
             /\ disk' = [db EXCEPT !.outbox = left]
             /\ UNCHANGED poisoned
          \/ /\ ~poisoned /\ "storage" \in Faults
             /\ disk' \in {disk, [db EXCEPT !.outbox = left]}
             /\ poisoned' = TRUE
             /\ UNCHANGED db
    /\ UNCHANGED <<now, dev, archive, pc, write, applying, payload, cache,
                   healthySince, losses, history>>

\* Ack drops a prefix of the outbox.  It does not take the engine mutex.
Ack ==
    /\ \E left \in 0..db.outbox :
          \/ /\ ~poisoned
             /\ db' = [db EXCEPT !.outbox = left]
             /\ disk' = [db EXCEPT !.outbox = left]
             /\ UNCHANGED poisoned
          \/ /\ ~poisoned /\ "storage" \in Faults
             /\ disk' \in {disk, [db EXCEPT !.outbox = left]}
             /\ poisoned' = TRUE
             /\ UNCHANGED db
    /\ UNCHANGED <<now, dev, archive, pc, write, applying, payload, cache,
                   healthySince, losses, history>>

\* Seeded fault: the cache is cleaned under an active job.
GCWithActiveJob ==
    /\ pc = "idle"
    /\ cache # {}
    /\ \E left \in SUBSET cache : left # cache /\ cache' = left
    /\ UNCHANGED <<now, dev, storeVars, pc, write, applying, payload,
                   healthySince, losses, history>>

\* GC stops at the first file it cannot remove.
GC ==
    /\ pc = "idle"
    /\ ~HasActive(db)
    /\ cache # {}
    /\ \E left \in SUBSET cache : left # cache /\ cache' = left
    /\ UNCHANGED <<now, dev, storeVars, pc, write, applying, payload,
                   healthySince, losses, history>>

InWindow(a) == now >= a.notBefore /\ now < a.deadline

\* The first half of reboot: the request is on record before it is made.
BeginReboot(j) ==
    BeginSave([j EXCEPT !.rebootRequested = TRUE], "awaiting_reboot", "rebootJob")

RequestReboot ==
    /\ pc = "idle"
    /\ HasActive(db)
    /\ LET j == Active(db) IN
          /\ j.state = "awaiting_reboot"
          /\ InWindow(j.asg)
          /\ dev.bootID = j.bootID /\ dev.booted = j.oldSlot
          /\ dev.operation = "idle"
          /\ BeginReboot(j)
    /\ UNCHANGED <<now, dev, storeVars, applying, cache, healthySince, losses, history>>

\* Seeded fault: the wrong slot is given up.
AbortMarksOldSlot ==
    /\ pc = "idle"
    /\ HasActive(db)
    /\ LET j == Active(db) IN
          /\ j.state = "needs_recovery"
          /\ dev.operation = "idle" /\ dev.booted = j.oldSlot
          /\ j.targetSlot # "" /\ j.targetSlot # j.oldSlot
          /\ dev' = Mark(dev, "bad", j.oldSlot)
    /\ pc' = "abort"
    /\ UNCHANGED <<now, storeVars, write, applying, payload, cache, healthySince,
                   losses, history>>

\* RecoverAbort: mark the target bad, activate the old slot, save Failed.
RecoverAbort ==
    /\ pc = "idle"
    /\ HasActive(db)
    /\ LET j == Active(db) IN
          /\ j.state = "needs_recovery"
          /\ dev.operation = "idle" /\ dev.booted = j.oldSlot
          /\ j.targetSlot # "" /\ j.targetSlot # j.oldSlot
          /\ dev' = Mark(dev, "bad", j.targetSlot)
    /\ pc' = "abort"
    /\ UNCHANGED <<now, storeVars, write, applying, payload, cache, healthySince,
                   losses, history>>

AbortActivate ==
    /\ pc = "abort"
    /\ \/ /\ dev' = Mark(dev, "active", Active(db).oldSlot)
          /\ pc' = "aborted"
       \/ /\ "backend" \in Faults
          /\ pc' = "idle"
          /\ UNCHANGED dev
    /\ UNCHANGED <<now, storeVars, write, applying, payload, cache, healthySince,
                   losses, history>>

AbortSave ==
    /\ pc = "aborted"
    /\ BeginSave(Active(db), "failed", "idle")
    /\ UNCHANGED <<now, dev, storeVars, applying, cache, healthySince, losses, history>>

-----------------------------------------------------------------------------
\* Engine.Step, before the installation

\* Step begins with the job that is active and in one of these states.
Stepping(states) == pc = "idle" /\ HasActive(db) /\ Active(db).state \in states

\* Seeded fault: a download or a verified job never expires.
ExpiresAcceptedOnly ==
    /\ Stepping({"accepted"})
    /\ now >= Active(db).asg.deadline
    /\ BeginSave(Active(db), "failed", "idle")
    /\ UNCHANGED <<now, dev, storeVars, applying, cache, healthySince, losses, history>>

\* The assignment expired before the installation.
StepExpired ==
    /\ Stepping(Waiting)
    /\ now >= Active(db).asg.deadline
    /\ BeginSave(Active(db), "failed", "idle")
    /\ UNCHANGED <<now, dev, storeVars, applying, cache, healthySince, losses, history>>

\* The envelope does not verify any more (the configuration may change at a
\* restart), or the SBOM of a verified job is missing or wrong.
StepRejected ==
    /\ Stepping(Waiting)
    /\ InWindow(Active(db).asg)
    /\ BeginSave(Active(db), "failed", "idle")
    /\ UNCHANGED <<now, dev, storeVars, applying, cache, healthySince, losses, history>>

\* artifactsLocal.  A release that an earlier fetch put in the cache is not local.
Local(j) == j.asg.seq \in LocalMedia

\* armDownload: the start is delayed unless the artifacts are on local media.
Armed(j) ==
    IF j.downloadAfter # 0 \/ Jitter = 0 \/ Local(j)
    THEN j
    ELSE [j EXCEPT !.downloadAfter = now + Jitter]

StepAccepted ==
    /\ Stepping({"accepted"})
    /\ InWindow(Active(db).asg)
    /\ BeginSave(Armed(Active(db)), "downloading", "idle")
    /\ UNCHANGED <<now, dev, storeVars, applying, cache, healthySince, losses, history>>

Deferred(j) ==
    /\ ~Local(j)
    /\ \/ j.downloadAfter # 0 /\ now < j.downloadAfter
       \/ now \notin DownloadWindow

\* noteDeferred records the first deferral only.
StepDeferred ==
    /\ Stepping({"downloading"})
    /\ InWindow(Active(db).asg)
    /\ Deferred(Active(db))
    /\ ~Active(db).deferred
    /\ BeginSave([Active(db) EXCEPT !.deferred = TRUE], "downloading", "idle")
    /\ UNCHANGED <<now, dev, storeVars, applying, cache, healthySince, losses, history>>

\* fetchAll: every artifact of the release is in the cache (module Download).
Fetched(j) == cache \cup {j.asg.seq}

\* A fetch that fails leaves the job where it is.
StepDownloaded ==
    /\ Stepping({"downloading"})
    /\ InWindow(Active(db).asg)
    /\ ~Deferred(Active(db))
    /\ cache' = Fetched(Active(db))
    /\ BeginSave([Active(db) EXCEPT !.deferred = FALSE], "verified", "idle")
    /\ UNCHANGED <<now, dev, storeVars, applying, healthySince, losses, history>>

\* A verified job: the SBOM has been accepted, the payloads come next.
StepVerified ==
    /\ Stepping({"verified"})
    /\ InWindow(Active(db).asg)
    /\ pc' = "apply"
    /\ applying' = NotApplying
    /\ UNCHANGED <<now, dev, storeVars, write, payload, cache, healthySince,
                   losses, history>>

-----------------------------------------------------------------------------
\* applySidePayloads and the checks that precede an installation

Release == Active(db).asg

\* The local copy of the job once the payloads are in place.  Nothing has been
\* saved yet.
WithPayloads == [Active(db) EXCEPT !.payloadsApplied = Release.targets # {}]

\* The current file of a target steps aside and the copy of the new one begins.
\* The file may not exist yet, or hold only a part of the payload.
ReplacePayload(t) ==
    /\ pc = "apply"
    /\ t \in Release.targets \ applying.done
    /\ \E partial \in {"", "torn"} :
          payload' = [payload EXCEPT ![t] =
                         [current |-> partial,
                          previous |-> IF @.current # "" THEN @.current ELSE @.previous]]
    /\ applying' = [applying EXCEPT !.cur = t]
    /\ pc' = "copy"
    /\ UNCHANGED <<now, dev, storeVars, write, cache, healthySince, losses, history>>

\* The copy is complete and the health check of the target passes.
PayloadCopied ==
    /\ pc = "copy"
    /\ payload' = [payload EXCEPT ![applying.cur].current = Release.version]
    /\ applying' = [done |-> applying.done \cup {applying.cur}, cur |-> ""]
    /\ pc' = "apply"
    /\ UNCHANGED <<now, dev, storeVars, write, cache, healthySince, losses, history>>

\* Seeded fault: targets that were never reached are restored too.
RestoresEveryTarget ==
    /\ \/ pc = "copy"
       \/ pc = "apply" /\ applying.done # Release.targets
    /\ payload' = Restored(payload, Release.targets)
    /\ applying' = NotApplying
    /\ SaveRecord(Active(db), "failed", "idle")
    /\ UNCHANGED <<now, dev, storeVars, cache, healthySince, losses, history>>

\* A copy, a health check or a check before the next target fails: the targets
\* touched so far are restored and the job fails.
PayloadFailed ==
    /\ \/ pc = "copy"
       \/ pc = "apply" /\ applying.done # Release.targets
    /\ payload' = Restored(payload, (applying.done \cup {applying.cur}) \ {""})
    /\ applying' = NotApplying
    /\ SaveRecord(Active(db), "failed", "idle")
    /\ UNCHANGED <<now, dev, storeVars, cache, healthySince, losses, history>>

PayloadsInPlace ==
    /\ pc = "apply"
    /\ applying.done = Release.targets
    /\ applying' = NotApplying
    /\ IF Release.os
       THEN pc' = "preinstall" /\ UNCHANGED <<write, payload>>
       ELSE BeginSave(WithPayloads, "committed", "idle")
    /\ UNCHANGED <<now, dev, storeVars, cache, healthySince, losses, history>>

\* Step returns because the status cannot be read or the backend is busy.
PreinstallError ==
    /\ pc = "preinstall"
    /\ "backend" \in Faults \/ dev.operation # "idle"
    /\ pc' = "idle"
    /\ UNCHANGED <<now, dev, storeVars, write, applying, payload, cache,
                   healthySince, losses, history>>

VersionOnDevice == \E s \in Slots : dev.version[s] = Release.version

\* The backend is not compatible, a slot holds this version already, the cached
\* artifact does not match its digest, or the window closed meanwhile.
PreinstallRejected ==
    /\ pc = "preinstall"
    /\ dev.operation = "idle"
    /\ BeginSave(WithPayloads, "failed", "idle")
    /\ UNCHANGED <<now, dev, storeVars, applying, cache, healthySince, losses, history>>

\* Seeded fault: the two slots are exchanged in the record.
SwapsSlots ==
    /\ pc = "preinstall"
    /\ dev.operation = "idle"
    /\ ~VersionOnDevice
    /\ Release.seq \in cache
    /\ now < Release.deadline
    /\ BeginSave([WithPayloads EXCEPT !.oldSlot = Other(dev),
                                      !.oldVersion = dev.version[dev.booted],
                                      !.targetSlot = dev.booted,
                                      !.bootID = dev.bootID],
                 "installing", "install")
    /\ UNCHANGED <<now, dev, storeVars, applying, cache, healthySince, losses, history>>

\* Installing is on record before the backend is asked to write.
BeginInstall ==
    /\ pc = "preinstall"
    /\ dev.operation = "idle"
    /\ ~VersionOnDevice
    /\ Release.seq \in cache
    /\ now < Release.deadline
    /\ BeginSave([WithPayloads EXCEPT !.oldSlot = dev.booted,
                                      !.oldVersion = dev.version[dev.booted],
                                      !.targetSlot = Other(dev),
                                      !.bootID = dev.bootID],
                 "installing", "install")
    /\ UNCHANGED <<now, dev, storeVars, applying, cache, healthySince, losses, history>>

-----------------------------------------------------------------------------
\* Backend.Install and the inspection of its result

CountInstall == installs' = [installs EXCEPT ![Release.seq] = @ + 1]

SimulatorInstall ==
    /\ pc = "install" /\ Backend = "simulator"
    /\ CountInstall
    /\ dev' = Installed(dev, Release.version)
    /\ pc' = "inspect"
    /\ UNCHANGED <<now, storeVars, write, applying, payload, cache, healthySince,
                   losses, okSince, proven>>

\* InstallBundle is accepted; from here RAUC works on its own.
InstallBundle ==
    /\ pc = "install" /\ Backend = "rauc"
    /\ dev.operation = "idle"
    /\ CountInstall
    /\ dev' = Flashing(dev, Release.bundle)
    /\ pc' = "flashing"
    /\ UNCHANGED <<now, storeVars, write, applying, payload, cache, healthySince,
                   losses, okSince, proven>>

\* RAUC writes the slot, whoever still waits for it.
FlashDone ==
    /\ dev.operation = "installing"
    /\ dev' \in {Flashed(dev), FlashFailed(dev)}
    /\ UNCHANGED <<now, storeVars, pc, write, applying, payload, cache, healthySince,
                   losses, history>>

\* The Completed signal arrives with code 0.
InstallCompleted ==
    /\ pc = "flashing"
    /\ dev.operation = "idle"
    /\ dev.version[Active(db).targetSlot] # "torn"
    /\ pc' = "inspect"
    /\ UNCHANGED <<now, dev, storeVars, write, applying, payload, cache, healthySince,
                   losses, history>>

\* The request is refused, the installation fails, the signal is lost, or the
\* wait times out while RAUC may still be installing.
InstallError ==
    /\ pc \in {"install", "flashing"}
    /\ BeginSave(Active(db), "needs_recovery", "idle")
    /\ UNCHANGED <<now, dev, storeVars, applying, cache, healthySince, losses, history>>

RunsTarget(j) ==
    dev.booted = j.targetSlot /\ dev.version[j.targetSlot] = j.asg.version

Inspect ==
    /\ pc = "inspect"
    /\ LET j == Active(db)
           evidence == /\ dev.operation = "idle"
                       /\ dev.booted = j.oldSlot
                       /\ dev.primary = j.targetSlot
                       /\ dev.version[j.targetSlot] = j.asg.version
       IN  \/ BeginSave(j, IF evidence THEN "awaiting_reboot" ELSE "needs_recovery", "idle")
           \/ "backend" \in Faults /\ BeginSave(j, "needs_recovery", "idle")
    /\ UNCHANGED <<now, dev, storeVars, applying, cache, healthySince, losses, history>>

\* Seeded fault: the installation is repeated after a restart.
InstallsAgain ==
    /\ Stepping({"installing"})
    /\ pc' = "install"
    /\ UNCHANGED <<now, dev, storeVars, write, applying, payload, cache, healthySince,
                   losses, history>>

\* Seeded fault: an installed version counts as a completed installation.
TrustsVersion ==
    /\ Stepping({"installing"})
    /\ LET j == Active(db)
       IN  BeginSave(j, IF dev.version[j.targetSlot] = j.asg.version
                        THEN "checking_health" ELSE "needs_recovery", "idle")
    /\ UNCHANGED <<now, dev, storeVars, applying, cache, healthySince, losses, history>>

\* A job found in this state at the start of a step lost its installer.
StepInstalling ==
    /\ Stepping({"installing"})
    /\ BeginSave(Active(db), "needs_recovery", "idle")
    /\ UNCHANGED <<now, dev, storeVars, applying, cache, healthySince, losses, history>>

-----------------------------------------------------------------------------
\* Engine.Step, after the installation

StepAutoReboot ==
    /\ Stepping({"awaiting_reboot"})
    /\ LET j == Active(db) IN
          /\ dev.bootID = j.bootID /\ dev.booted = j.oldSlot
          /\ ~j.rebootRequested /\ j.asg.autoReboot /\ InWindow(j.asg)
          /\ BeginReboot(j)
    /\ UNCHANGED <<now, dev, storeVars, applying, cache, healthySince, losses, history>>

\* What a boot shows about a job whose target may be running.
BootOutcome(j, running) ==
    CASE dev.booted = j.oldSlot -> "rolled_back"
      [] dev.booted # j.oldSlot /\ RunsTarget(j) -> running
      [] OTHER -> "needs_recovery"

\* Seeded fault: the run of passing checks survives the boot.
KeepsHealthySince ==
    /\ Stepping({"awaiting_reboot"})
    /\ LET j == Active(db)
           outcome == IF dev.bootID = j.bootID THEN "needs_recovery"
                      ELSE BootOutcome(j, "checking_health")
       IN  /\ dev.bootID # j.bootID \/ dev.booted # j.oldSlot
           /\ IF outcome = "checking_health"
              THEN /\ UNCHANGED healthySince
                   /\ BeginSave([j EXCEPT !.healthStarted = now, !.bootID = dev.bootID],
                                outcome, "idle")
              ELSE BeginSave(j, outcome, "idle") /\ UNCHANGED healthySince
    /\ UNCHANGED <<now, dev, storeVars, applying, cache, losses, history>>

\* The device has booted since the installation, or its slot changed without that.
StepBooted ==
    /\ Stepping({"awaiting_reboot"})
    /\ LET j == Active(db)
           outcome == IF dev.bootID = j.bootID THEN "needs_recovery"
                      ELSE BootOutcome(j, "checking_health")
       IN  /\ dev.bootID # j.bootID \/ dev.booted # j.oldSlot
           /\ IF outcome = "checking_health"
              THEN /\ healthySince' = 0
                   /\ BeginSave([j EXCEPT !.healthStarted = now, !.bootID = dev.bootID],
                                outcome, "idle")
              ELSE BeginSave(j, outcome, "idle") /\ UNCHANGED healthySince
    /\ UNCHANGED <<now, dev, storeVars, applying, cache, losses, history>>

\* During the health window or the commit the target stopped running, or it
\* was booted once more.
StepBootedAgain ==
    /\ Stepping({"checking_health", "committing"})
    /\ LET j == Active(db)
           outcome == BootOutcome(j, "checking_health")
       IN  /\ outcome # "checking_health" \/ dev.bootID # j.bootID
           /\ IF outcome = "checking_health"
              THEN /\ healthySince' = 0
                   /\ BeginSave([j EXCEPT !.bootID = dev.bootID], outcome, "idle")
              ELSE BeginSave(j, outcome, "idle") /\ UNCHANGED healthySince
    /\ UNCHANGED <<now, dev, storeVars, applying, cache, losses, history>>

InHealthWindow(started) == now >= started /\ now < started + HealthTimeout

\* The target that was installed runs, in the boot the job knows.
Checking(state) ==
    /\ Stepping({state})
    /\ RunsTarget(Active(db)) /\ dev.bootID = Active(db).bootID

StepHealthDeadline ==
    /\ Checking("checking_health")
    /\ ~InHealthWindow(Active(db).healthStarted)
    /\ BeginSave(Active(db), "rollback_pending", "idle")
    /\ UNCHANGED <<now, dev, storeVars, applying, cache, healthySince, losses, history>>

Since == IF healthySince = 0 THEN now ELSE healthySince
Stable == now - Since >= HealthStable

\* A passing and a failing health check, as the history variables see them.
ObservePass ==
    LET since == IF okSince = 0 THEN now ELSE okSince
    IN  /\ okSince' = since
        /\ proven' = (proven \/ now - since >= HealthStable)
ObserveFail == okSince' = 0 /\ UNCHANGED proven

StepUnhealthy ==
    /\ Checking("checking_health")
    /\ InHealthWindow(Active(db).healthStarted)
    /\ healthySince' = 0
    /\ ObserveFail
    /\ UNCHANGED <<now, dev, storeVars, pc, write, applying, payload, cache, losses,
                   installs>>

\* Seeded fault: the stable period is not waited for.
CommitsAtFirstPass ==
    /\ Checking("checking_health")
    /\ InHealthWindow(Active(db).healthStarted)
    /\ healthySince' = Since
    /\ ObservePass
    /\ IF TRUE
       THEN BeginSave(Active(db), "committing", "idle")
       ELSE UNCHANGED <<pc, write, payload>>
    /\ UNCHANGED <<now, dev, storeVars, applying, cache, losses, installs>>

StepHealthy ==
    /\ Checking("checking_health")
    /\ InHealthWindow(Active(db).healthStarted)
    /\ healthySince' = Since
    /\ ObservePass
    /\ IF Stable
       THEN BeginSave(Active(db), "committing", "idle")
       ELSE UNCHANGED <<pc, write, payload>>
    /\ UNCHANGED <<now, dev, storeVars, applying, cache, losses, installs>>

StepMarkGood ==
    /\ Checking("committing")
    /\ dev' = Mark(dev, "good", Active(db).targetSlot)
    /\ pc' = "commit"
    /\ UNCHANGED <<now, storeVars, write, applying, payload, cache, healthySince,
                   losses, history>>

SaveCommitted ==
    /\ pc = "commit"
    /\ BeginSave(Active(db), "committed", "idle")
    /\ UNCHANGED <<now, dev, storeVars, applying, cache, healthySince, losses, history>>

\* The rollback has taken the device back to the old slot, or to no known one.
StepRolledBack ==
    /\ Stepping({"rollback_pending"})
    /\ dev.operation = "idle"
    /\ dev.booted # Active(db).targetSlot
    /\ BeginSave(Active(db), IF dev.booted = Active(db).oldSlot
                             THEN "rolled_back" ELSE "needs_recovery", "idle")
    /\ UNCHANGED <<now, dev, storeVars, applying, cache, healthySince, losses, history>>

\* The target still runs: mark it bad, activate the old slot, reboot.
StepMarkBad ==
    /\ Stepping({"rollback_pending"})
    /\ dev.operation = "idle"
    /\ dev.booted = Active(db).targetSlot
    /\ dev' = Mark(dev, "bad", Active(db).targetSlot)
    /\ pc' = "rollback"
    /\ UNCHANGED <<now, storeVars, write, applying, payload, cache, healthySince,
                   losses, history>>

ActivateOldSlot ==
    /\ pc = "rollback"
    /\ \/ /\ dev' = Mark(dev, "active", Active(db).oldSlot)
          /\ pc' = "reboot"
       \/ /\ "backend" \in Faults
          /\ pc' = "idle"
          /\ UNCHANGED dev
    /\ UNCHANGED <<now, storeVars, write, applying, payload, cache, healthySince,
                   losses, history>>

-----------------------------------------------------------------------------
\* Backend.Reboot

\* login1 accepts the request and the process goes on until it is killed; the
\* simulator boots at once and the process survives.
Rebooted ==
    IF Backend = "rauc"
    THEN dev' = [dev EXCEPT !.rebooting = TRUE] /\ UNCHANGED <<losses, okSince, proven>>
    ELSE /\ \E slot \in BootChoices(dev) :
               /\ dev' = BootedInto(dev, slot)
               /\ losses' = IF slot = dev.primary THEN losses ELSE losses + 1
         /\ losses' <= MaxPowerLoss
         /\ okSince' = 0 /\ proven' = FALSE

Reboot ==
    /\ pc = "reboot"
    /\ \/ Rebooted
       \/ "backend" \in Faults /\ UNCHANGED <<dev, losses, okSince, proven>>
    /\ pc' = "idle"
    /\ UNCHANGED <<now, storeVars, write, applying, payload, cache, healthySince,
                   installs>>

\* The second half of reboot: a refused request is taken back.
RebootJob ==
    /\ pc = "rebootJob"
    /\ \/ Rebooted /\ pc' = "idle" /\ UNCHANGED <<write, payload>>
       \/ /\ "backend" \in Faults
          /\ BeginSave([Active(db) EXCEPT !.rebootRequested = FALSE],
                       "awaiting_reboot", "idle")
          /\ UNCHANGED <<dev, losses, okSince, proven>>
    /\ UNCHANGED <<now, storeVars, applying, cache, healthySince, installs>>

-----------------------------------------------------------------------------
\* confirmNormalBoot: boots that no job is waiting for

Completed == {id \in Hot(db) : db.jobs[id].state \in {"committed", "rolled_back"}}

\* Seeded fault: the first completed job counts, not the latest.
FirstCompleted ==
    CHOOSE id \in Completed :
        \A other \in Completed : db.jobs[id].asg.seq <= db.jobs[other].asg.seq

Latest ==
    CHOOSE id \in Completed :
        \A other \in Completed : db.jobs[other].asg.seq <= db.jobs[id].asg.seq

\* The version the latest completed job vouches for on this slot.
KnownVersion(slot) ==
    LET j == db.jobs[Latest]
    IN  IF j.state = "committed" /\ j.targetSlot = slot THEN j.asg.version
        ELSE IF j.oldSlot = slot THEN j.oldVersion ELSE ""

Recognized(slot) == KnownVersion(slot) = dev.version[slot]

\* Seeded fault: a confirmed boot is judged again.
ConfirmsForever ==
    /\ pc = "idle" /\ ~HasActive(db)
    /\ dev.operation = "idle"
    /\ Completed # {}
    /\ Recognized(dev.booted)

\* No job is active and the slot that runs awaits its confirmation.
Confirming ==
    /\ pc = "idle" /\ ~HasActive(db)
    /\ dev.operation = "idle"
    /\ ~(db.bootCheck.bootID = dev.bootID /\ db.bootCheck.confirmed)
    /\ Completed # {}
    /\ Recognized(dev.booted)

SeenThisBoot == db.bootCheck.bootID = dev.bootID

NormalBootSeen ==
    /\ Confirming /\ ~SeenThisBoot
    /\ healthySince' = 0
    /\ Update([db EXCEPT !.bootCheck =
                  [bootID |-> dev.bootID, started |-> now, confirmed |-> FALSE]],
              archive, "idle")
    /\ UNCHANGED <<now, dev, write, applying, payload, cache, losses, history>>

\* The window is over: fall back to the other slot if it is known to be good.
NormalBootDeadline ==
    /\ Confirming /\ SeenThisBoot
    /\ ~InHealthWindow(db.bootCheck.started)
    /\ Recognized(Other(dev)) /\ GoodOf(dev, Other(dev))
    /\ dev' = Mark(dev, "bad", dev.booted)
    /\ pc' = "fallback"
    /\ UNCHANGED <<now, storeVars, write, applying, payload, cache, healthySince,
                   losses, history>>

ActivateFallback ==
    /\ pc = "fallback"
    /\ \/ dev' = Mark(dev, "active", Other(dev)) /\ pc' = "reboot"
       \/ "backend" \in Faults /\ pc' = "idle" /\ UNCHANGED dev
    /\ UNCHANGED <<now, storeVars, write, applying, payload, cache, healthySince,
                   losses, history>>

NormalBootUnhealthy ==
    /\ Confirming /\ SeenThisBoot
    /\ InHealthWindow(db.bootCheck.started)
    /\ healthySince' = 0
    /\ ObserveFail
    /\ UNCHANGED <<now, dev, storeVars, pc, write, applying, payload, cache, losses,
                   installs>>

NormalBootHealthy ==
    /\ Confirming /\ SeenThisBoot
    /\ InHealthWindow(db.bootCheck.started)
    /\ healthySince' = Since
    /\ ObservePass
    /\ IF Stable
       THEN dev' = Mark(dev, "good", dev.booted) /\ pc' = "confirm"
       ELSE UNCHANGED <<dev, pc>>
    /\ UNCHANGED <<now, storeVars, write, applying, payload, cache, losses, installs>>

ConfirmBoot ==
    /\ pc = "confirm"
    /\ Update([db EXCEPT !.bootCheck.confirmed = TRUE], archive, "idle")
    /\ UNCHANGED <<now, dev, write, applying, payload, cache, healthySince, losses,
                   history>>

-----------------------------------------------------------------------------
\* The clock, the process and the power supply

Tick ==
    /\ now < MaxNow
    /\ now' = now + 1
    /\ UNCHANGED <<dev, storeVars, pc, write, applying, payload, cache, healthySince,
                   losses, history>>

\* What a new process starts from: OpenStore reads the snapshot back.
FreshProcess ==
    /\ db' = disk
    /\ poisoned' = FALSE
    /\ pc' = "idle"
    /\ write' = NoWrite
    /\ applying' = NotApplying
    /\ healthySince' = 0
    /\ okSince' = 0

\* The process dies at any point and is started again.  A poisoned process has
\* to be restarted.
Restart ==
    /\ "restart" \in Faults \/ poisoned
    /\ FreshProcess
    /\ FilesLeft
    /\ UNCHANGED <<now, dev, disk, archive, cache, losses, installs, proven>>

\* The reboot that was asked for, or a power loss at any point.  A board without
\* a battery-backed clock may start in the past.
Boot ==
    /\ Backend = "rauc"
    /\ dev.rebooting \/ losses < MaxPowerLoss
    /\ losses' = IF dev.rebooting THEN losses ELSE losses + 1
    /\ \E slot \in BootChoices(dev) : dev' = BootedInto(dev, slot)
    /\ \/ UNCHANGED now
       \/ "clock" \in Faults /\ now' = 1
    /\ FreshProcess
    /\ FilesLeft
    /\ proven' = FALSE
    /\ UNCHANGED <<disk, archive, cache, installs>>

-----------------------------------------------------------------------------
\* The tick of the agent's update loop takes one of these.
Step ==
    \/ StepExpired \/ StepRejected \/ StepAccepted \/ StepDeferred \/ StepDownloaded
    \/ StepVerified \/ StepInstalling \/ StepAutoReboot \/ StepBooted
    \/ StepBootedAgain \/ StepHealthDeadline \/ StepUnhealthy \/ StepHealthy
    \/ StepMarkGood \/ StepRolledBack \/ StepMarkBad
    \/ NormalBootSeen \/ NormalBootDeadline \/ NormalBootUnhealthy \/ NormalBootHealthy

\* The operation that holds the mutex goes on.
Continue ==
    \/ WriteJournal \/ AbortActivate \/ AbortSave
    \/ \E t \in Targets : ReplacePayload(t)
    \/ PayloadCopied \/ PayloadFailed \/ PayloadsInPlace
    \/ PreinstallError \/ PreinstallRejected \/ BeginInstall
    \/ SimulatorInstall \/ InstallBundle \/ InstallCompleted \/ InstallError \/ Inspect
    \/ SaveCommitted \/ ActivateOldSlot \/ Reboot \/ RebootJob
    \/ ActivateFallback \/ ConfirmBoot

Request ==
    \/ \E a \in Assignments : Submit(a)
    \/ Ack \/ GC \/ RequestReboot \/ RecoverAbort

Environment == FlashDone \/ Tick \/ Restart \/ Boot

Next == Step \/ Continue \/ Request \/ Environment

Spec == Init /\ [][Next]_vars

-----------------------------------------------------------------------------
\* Safety

\* At most one installation is ever requested for a release, whatever crashes,
\* restarts and write failures happen: Installing is durable before Install is
\* called, and a job found installing is never installed again.
AtMostOneInstall == \A q \in SeqNumbers : installs[q] <= 1

\* From the moment an installation may have begun until the job has finished,
\* the slot recorded as the old one still holds the version recorded with it.
\* This is what every rollback and recover-abort relies on.
FallbackPreserved ==
    \A id \in JobIDs :
        disk.jobs[id].state \in Underway =>
            /\ disk.jobs[id].oldSlot # disk.jobs[id].targetSlot
            /\ dev.version[disk.jobs[id].oldSlot] = disk.jobs[id].oldVersion

\* The database in memory and the one on disk always pass validateDatabase, so
\* the check in Store.Update never refuses an update and a restart never
\* refuses the snapshot.
JournalValid == ValidDatabase(db) /\ ValidDatabase(disk)

\* A job with an image is recorded as committed only while the target runs the
\* version of the release, is marked good, and health held through the stable
\* period of this boot; it is recorded as rolled back only while the device runs
\* the old version on the old slot.
OutcomeEvidence ==
    [][\A id \in JobIDs :
        LET j == disk'.jobs[id] IN
          disk.jobs[id].state \notin Finished /\ disk'.jobs[id].asg.seq > 0 =>
            /\ j.state = "committed" /\ j.asg.os =>
                  RunsTarget(j) /\ GoodOf(dev, j.targetSlot) /\ proven
            /\ j.state = "rolled_back" =>
                  dev.booted = j.oldSlot /\ dev.version[j.oldSlot] = j.oldVersion]_vars

\* The agent marks a slot good only if that slot is running and, in this boot, one
\* process saw the health checks hold without a failure through the stable period.
MarkGoodProven ==
    [][\A s \in Slots :
        dev.mark[s] # "good" /\ dev'.mark[s] = "good" => s = dev.booted /\ proven']_vars

\* A finished job never changes again: its record stays as it is, or moves to
\* the archive in the transaction that removes it.
FinishedStays ==
    [][\A id \in JobIDs :
        Terminal(disk.jobs[id].state) =>
            \/ disk'.jobs[id] = disk.jobs[id]
            \/ disk'.jobs[id].state = "absent" /\ archive'[id] = disk.jobs[id]]_vars

\* The artifacts of a verified job stay in the cache: GC and Submit exclude each
\* other, so cleaning up never takes a file away from a job.
VerifiedIsCached ==
    \A id \in JobIDs : disk.jobs[id].state = "verified" => disk.jobs[id].asg.seq \in cache

\* While no job is active, the version that runs is one the latest completed job
\* vouches for, so that confirmNormalBoot confirms the boot and its boot-attempt
\* counter is reset.
NormalBootRecognized ==
    ~HasActive(db) /\ Completed # {} => Recognized(dev.booted)

\* A boot that is on record as confirmed stays good while it lasts: neither
\* confirmNormalBoot nor a later job takes the mark of the running slot away.
ConfirmedIsGood ==
    disk.bootCheck.bootID = dev.bootID /\ disk.bootCheck.confirmed =>
        GoodOf(dev, dev.booted)

\* Whatever fails between two changes of the boot selection, some slot holds a
\* complete image that the bootloader may start.
SomeSlotBootable == \E s \in Slots : Bootable(dev, s)

\* The payload a target should hold: that of the last committed release with
\* this target, and before the first one what the device came with.
SettledPayload(t) ==
    LET setters == {id \in Hot(disk) : disk.jobs[id].state = "committed"
                                       /\ t \in disk.jobs[id].asg.targets}
    IN  IF setters = {} THEN Factory
        ELSE disk.jobs[CHOOSE id \in setters :
                \A other \in setters :
                    disk.jobs[other].asg.seq <= disk.jobs[id].asg.seq].asg.version

\* When no job is active every target holds the payload of the last committed
\* release: the targets of a release commit or roll back as one set.
PayloadsSettled ==
    pc = "idle" /\ ~HasActive(disk) =>
        \A t \in Targets : payload[t].current = SettledPayload(t)

\* An image that a job committed and that is running is one confirmNormalBoot
\* recognizes while no job is active.
CommittedImageRecognized ==
    ~HasActive(db) /\ (\E id \in Hot(db) : /\ db.jobs[id].state = "committed"
                                           /\ db.jobs[id].asg.os
                                           /\ RunsTarget(db.jobs[id]))
        => Recognized(dev.booted)

\* A job identifier keeps its meaning: an archived job and a later job with the
\* same identifier carry the same assignment.  The code does not promise this:
\* Submit compares identifiers with hot jobs only.
ArchivedIDsStay ==
    \A id \in JobIDs :
        archive[id].state # "absent" /\ disk.jobs[id].state # "absent" =>
            disk.jobs[id].asg = archive[id].asg

Lifecycle == INSTANCE JobLifecycle WITH
    stage <- [id \in JobIDs |-> disk.jobs[id].state],
    sequence <- [id \in JobIDs |-> disk.jobs[id].asg.seq],
    high <- disk.high,
    written <- {q \in SeqNumbers : installs[q] > 0}

\* The journal on disk and the installations requested follow JobLifecycle,
\* whatever crashes and write failures come between.
LifecycleSpec == Lifecycle!Spec

-----------------------------------------------------------------------------
\* Liveness

\* The steps the update loop takes whatever the network and the health checks do.
OwnStep ==
    \/ StepExpired \/ StepAccepted \/ StepVerified \/ StepInstalling \/ StepAutoReboot
    \/ StepBooted \/ StepBootedAgain \/ StepHealthDeadline \/ StepMarkGood
    \/ StepRolledBack \/ StepMarkBad

\* The update loop keeps running, an operation that holds the mutex goes on, RAUC
\* ends an installation, the fleet acknowledges events, time passes and a reboot
\* that was requested happens.
FairSpec ==
    /\ Spec
    /\ WF_vars(OwnStep)
    /\ WF_vars(Continue)
    /\ WF_vars(FlashDone)
    /\ WF_vars(Ack)
    /\ WF_vars(Tick)
    /\ WF_vars(Boot /\ dev.rebooting)

\* A job that waits for nobody, and whose health window ends within the bound of
\* the clock.
Moving(j) ==
    /\ j.state \in Waiting \cup {"installing", "checking_health", "committing",
                                 "rollback_pending"}
    /\ j.healthStarted + HealthTimeout <= MaxNow

\* No job hangs: every job that is under way ends, or reaches one of the two
\* states that wait for a reboot or for the operator.
UpdateEnds ==
    \A id \in JobIDs :
        Moving(disk.jobs[id]) ~>
            disk.jobs[id].state \in Finished \cup {"awaiting_reboot", "needs_recovery"}
=============================================================================
