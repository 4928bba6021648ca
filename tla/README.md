# Verification of the Zyvor OTA agent

TLA+ specifications of the over-the-air update agent in this repository, the TLC
configurations that check them on small instances, and theorems that TLAPS checks
for every value of the constants. Paths below are relative to the root of the
repository; line numbers of every modelled function are in `PROJECT.json` (`map`).

## 1. The system

A device has two root file system slots. The agent (`cmd/zyvor-otad`) accepts a
signed assignment, downloads its artifacts, has the other slot written, reboots,
watches the health checks and either commits or goes back. Everything it has to
remember is in one SQLite journal. A site may run a relay (`cmd/zyvor-relay`) that
caches artifacts for its agents, and an agent may demand signed supply-chain
metadata and a line in a transparency log for each release it accepts.

| Part | Code | State | Operations | Module |
|---|---|---|---|---|
| Update engine | `internal/ota/engine.go` | active job, `healthySince`, the mutex | `Submit`, `Step`, `RequestReboot`, `RecoverAbort`, `Ack`, `GC` | `Engine` |
| Normal boots | `internal/ota/boot.go` | `BootCheck` | `confirmNormalBoot` | `Engine` |
| Journal | `internal/ota/store.go`, `model.go` | memory copy, snapshot row, archive table, `poisoned` | `Update`, `compactHot`, `validateDatabase`, `load`, `Backup` | `Journal`, `Engine`, `FleetSync` |
| A/B backend | `internal/ota/backend.go`, `rauc.go` | slots, marks, primary, installer | `Install`, `Mark`, `Reboot`, `Status` | `Device` |
| Side payloads | `internal/ota/payload.go` | `current` and `previous` file of each target | apply, roll back, commit, order | `Engine`, `TargetOrder` |
| Downloader | `internal/ota/download.go` | cached file, partial file | `fetch` from media, relay, URL | `Download`, `Site` |
| Site relay | `internal/relay/relay.go` | cache, `.part` files, the lock, open requests | `get`, `store`, `origin` | `SiteRelay`, `Site` |
| Supply chain | `internal/ota/trustmeta.go` | trust directory, stored root and snapshot, `transparency.log` | `evaluateSupplyChain`, `applySupplyChain`, `appendTransparency` | `SupplyChain` |
| Dependencies | `internal/ota/verify.go`, `payload.go` | counts of unmet dependencies, the queue | `topoTargets`, `orderedTargets` | `TargetOrder` |
| Fleet client | `internal/ota/fleet.go` | the exchange under way | `sync` | `FleetSync` |
| Reference controller | `internal/fleetref/server.go` | events held, acknowledged sequence, assignment | `postEvents`, `getAssignment`, `SetAssignment` | `FleetSync` |
| Local API, daemon | `internal/ota/api.go`, `cmd/zyvor-otad` | none of their own | the requests and the two loops | `Engine` (`Request`, `Step`), `FleetSync` |
| Health probes, metrics, tracing, client and tools | see `PROJECT.json` | | | not modelled, section 7 |

How they interact. The update loop calls `Engine.Step` every second; it holds the
engine mutex while it changes the journal, the payload files, the cache and the
backend. API requests take the mutex only if it is free. `Ack` does not take it.
The fleet loop posts the outbox, applies the answer with `Ack`, polls for an
assignment and calls `Submit`. An operator may call `Ack` too (`otactl ack`), and the
reference controller keeps everything in memory. RAUC, the bootloader, the clock and the power supply
act on their own. A fetch asks the relay first and the signed URL when the relay
has nothing; the relay serves several peers at once and fills its cache under one
lock.

What makes it hard: the journal, the payload files and the backend cannot be
changed in one transaction, so a crash can fall between any two of their changes;
a failed transaction may have reached the disk; RAUC goes on installing when the
agent is gone; a reboot may end in either slot; the clock may start in the past;
the network delays requests past later ones; the metadata files are replaced while
they are read; the log and the journal are two files. The hazards, each at its line, are in
`PROJECT.json`.

## 2. Modules

- **`Journal`** — operators on a database value: job records, the active job, the
  high-water mark, the size of the outbox, compaction and `validateDatabase`.
- **`Device`** — operators on a device value: marks, installation, boots. The
  simulator is translated from `backend.go`; what RAUC and the bootloader do is
  external and taken from how `rauc.go` and `engine.go` use them.
- **`Engine`** — the state machine. `pc` is the point the holder of the mutex has
  reached. An action ends at each durable effect. `save` is `BeginSave` (payload
  files) and `WriteJournal` (the transaction). The files go target by target, so a
  process that dies before the transaction has ended may have changed those of some
  targets only (`FilesLeft`). `Update` has the three outcomes of `Store.Update`. Failing calls that change nothing are stuttering steps.
- **`MCEngine`** — the releases the runs of `Engine` submit.
- **`JobLifecycle`** — the abstract specification of the durable record of a job:
  the state machine, one job at a time, growing sequences, one installation per
  release. It knows no crash. `Engine` implements it under the mapping `Lifecycle`,
  which reads the journal *on disk*.
- **`FleetSync`** — outbox, exchange, network and reference controller, with
  acknowledgements on the device (`LocalAck`) and restarts of the controller
  (`ServerRestart`). `received` and `waived` are history: what the controller has ever
  stored, and up to where the operator has acknowledged.
- **`EventDelivery`** — the abstract contract of reporting; `FleetSync` implements
  it under the mapping `Delivery`.
- **`Download`** — one artifact, its cached file and its partial file.
- **`SiteRelay`** — the relay: requests that run at the same time, the lock, the
  origin, the `.part` file and the cache; restarts and power loss.
- **`Site`** — `Download` and `SiteRelay` together: what `Download` leaves open about
  the relay is what the relay does. Every action is an action of one part and an
  action or a stutter of the other.
- **`SupplyChain`**, **`MCSupplyChain`** — the part of `Submit` that reads root,
  timestamp, snapshot and targets one after the other while they are replaced, and
  writes the line in the log inside the transaction. `MCSupplyChain` has the
  documents and releases.
- **`TargetOrder`**, **`MCTargetOrder`** — the dependency check and the order of the
  payloads, step by step, against the definition of an order.
- **`EngineProofs`** (installations and the journal), **`DeviceProofs`** and
  **`BootProofs`** (each extends the one before), **`StoreProofs`** (payload files and
  the limits of the journal; extends `EngineProofs`), **`FleetSyncProofs`**,
  **`SiteProofs`** (downloader, relay and site), **`SupplyChainProofs`**,
  **`TargetOrderProofs`** — the theorems.

Composition. `Engine` is journal, device, payloads and cache together, since its
operations change all of them. `FleetSync` refines one aspect of it: where `Engine`
counts the events in the outbox, `FleetSync` has the events; where `Engine` lets
`Submit` take any assignment, `FleetSync` has the one the controller offers. `Ack` may
drop any prefix in both; `FleetSync` tells the acknowledgements of the controller,
which it derives from what that has stored, from those of the operator.
`Download` refines the one step `Fetched` of `Engine`, and `SupplyChain` one guard of
its `Submit`. `Site` composes the agent and the relay. Each of its actions is written
as an action of one part beside an action or a stutter of the other, so in the
composition each part still behaves as its own specification allows; the lemma
`SiteKeepsParts` records it, and the theorems about the parts hold of the site.

Definitions marked "Seeded fault" are not part of the models. Each is a plausible
mistake in the code of the definition that follows it; with it in place of that
definition TLC finds the property named in `PROJECT.json` (`mutants`) violated,
which shows that the property can fail.

### Abstractions

- A signature, a digest and an envelope are their verdicts. `StepRejected` and
  `PreinstallRejected` may happen whenever the code could find a reason.
- A release is a record of what the engine looks at. `version` is what the release
  says, `bundle` what the artifact contains; RAUC installs the latter.
- The zero time and the empty boot identifier are 0; the clock starts at 1.
- `Job.Updated` is recorded when a job finishes, the only case in which it is read.
- Only `Submit` adds a record, so only there `compactHot` can have work; and since
  it removes one record at a time from a journal that was within its limit, one
  removal is enough.
- `known` in `confirmNormalBoot` is `KnownVersion`; the empty string stands for a
  slot the map does not have.
- A mark is "good", "fresh" (bootable, not confirmed) or "bad". `Slot.Good` is
  "good". An interrupted installation leaves the version "torn".
- In `Download` a file is its length and whether its bytes are right. A digest
  matches exactly the right bytes at the right length.
- In `SiteRelay` a file is "right", "wrong" (another digest) or "damaged" (a name that
  survived a power loss without its bytes). The `Upstream` function of the relay is
  for tests and left out.
- In `SupplyChain` a document is its payload and the keys with a valid signature on
  it; a key identifier is the key, so that one identifier for two keys, which the
  trust files of a device would have to contain, is not represented; a digest is the payload it is computed from; a file that is missing, malformed
  or expired is a refusal that can happen at each read.
- In `Engine` the files of the targets of a job are restored or committed one target
  after the other, and a process that dies may leave any of them untouched and one of
  them without its current file. A rename or remove that fails there, which the code
  ignores, is left out.
- In `TargetOrder` the order is the one `orderedTargets` returns. `applySidePayloads`
  passes over `os.rauc` in it (`payload.go:67`), and the image is installed after all
  payloads; that a payload named before or after the image is applied in that order
  relative to the image is therefore not claimed.
- In `FleetSync` an event is its number and its kind (job and state, the two fields
  the controller compares).

## 3. Runs

All bounds are named constants of the `.cfg` files. Times are small because only
the order of the clock, the deadline, the health window (2) and the stable period
(1) matters. The outbox holds one event in most runs, so that it is full after
each save and every save can be refused; `payloads` gives it room for all events,
since a refused save is a different question there (hazard at `engine.go:109`).

| Run | Instance | Checks |
|---|---|---|
| `install` | one image on RAUC, in three variants (right, artifact of another version, reboot by the operator); restarts, one power loss, failing writes and backend calls, clock reset | `AtMostOneInstall`, `FallbackPreserved`, `SomeSlotBootable`, `VerifiedIsCached`, `OutcomeEvidence`, `LifecycleSpec`, `TypeOK` |
| `boots` | two images in a row on RAUC, two power losses | `NormalBootRecognized`, `ConfirmedIsGood` |
| `simulator` | two images, the process survives reboots, the journal holds one job; restarts and failing writes | `JournalValid`, `MarkGoodProven`, `FinishedStays`, `LifecycleSpec` |
| `payloads` | an image with a payload, then two payloads alone; failing copies and health checks, no restart | `PayloadsSettled` |
| `progress` | one late image, jitter, a download window, one power loss with clock reset | `UpdateEnds` |
| `reporting` | two events, batches of up to two, two requests in flight, acknowledgements on the device, restarts of the controller, one restore from a backup | `TypeOK`, `NoEventLost`, `DeliverySpec`, `EventsDelivered` |
| `site` | an artifact of three bytes; the relay with two requests, one of them possibly the agent's; crashes, power loss, cleanups | `OkIsRight`, `CompleteStays`, `CutOffsDoNotMatter`, `FetchSucceeds`, `OneUpstreamRead`, `CacheIsRight`, `SiteTypeOK` |
| `supply` | a pinned root, two rival successors and a root only one of them leads to; two snapshots of one version; releases of a targets key, of a delegated key and of one that may not sign; failing writes, restarts, power loss | `AcceptedIsBound`, `RootSucceeds`, `SnapshotMonotone`, `LineBeforeJob`, `LoggedOnce`, `RetryAccepted`, `TypeOK` |
| `targets` | every dependency list of three targets with up to two names each | `VerdictIsRight`, `DependenciesFirst`, `EndsReached`, `TypeOK` |

Why the bounds are enough to meet the cases: one job reaches every state of the
state machine; a second one is what archiving, the latest completed job and the
high-water mark need; two power losses allow a failed boot of the target and one
more boot after it; two requests in flight are the least with which one can
overtake another; with two events and batches of up to two a late batch is shorter
than what has been accepted since, and an event can be missing before one that is
not. Longer outboxes are left to the theorems. Two requests at the relay are the least that can find
the same file missing, and with one of them the agent's the other can hold the lock
for ever. Three targets allow a cycle of every length, a chain and a fork. An artifact of three bytes has a first, a middle and
a last byte, and one byte too many can follow. TLC stops at the bounds of the
clock, so the runs of `Engine`, `FleetSync` and `SupplyChain` do not check deadlock:
an agent whose last job has finished really has nothing to do. `TargetOrder` ends
with its verdict. `site` checks deadlock.

### Disagreements

The code does something else than a document of the repository says, in three runs.
Each checks one property and TLC finds it violated; the quotes are in `PROJECT.json`
(`findings`).

| Run | Property | What happens |
|---|---|---|
| `payload_set` | `PayloadsSettled` | A restart after payloads were replaced and before the next save: the record does not say that they were applied (`engine.go:258`), so a job that then fails leaves them in place. |
| `payload_boot` | `CommittedImageRecognized` | A job of payloads alone becomes the latest completed job; it has no slots (`boot.go:39`), so the image committed before it is not recognized any more. |
| `bootable` | `SomeSlotBootable` | A restart between "mark bad" and "mark active" of the normal-boot fallback (`boot.go:59`): the device goes on from a slot marked bad, and the next installation makes the only good slot unbootable while it runs. |

`SomeSlotBootable` holds in `install`, where no normal-boot fallback meets a second
job, and `PayloadsSettled` holds in `payloads`, where the process is not restarted:
the pairs of runs show what the disagreement depends on. `SomeSlotStaysBootable`,
`PayloadsSettle` and `BootsRecognized` (section 5) prove the properties under conditions
that exclude just this.

Others have no run of their own. The first five are reproduced by changing one
instance:

- `Submit` compares job IDs with hot jobs only (`engine.go:42`), so the ID of an
  archived job is accepted with other content. `ArchivedIDsStay` is violated with
  `Assignments <- ReusedID` and `HotJobLimit = 1`.
- `save` restores the payload files before it writes the journal (`engine.go:109`).
  When the write is refused, the retried save restores again and removes the file it
  had restored. `payloads` with `EventLimit = 1` and `HotEventLimit = 0` violates
  `PayloadsSettled` in this way, in 17 states.
- A line of the transparency log whose sync failed satisfies the next attempt, which
  does not sync it (`trustmeta.go:371`); a power loss after the release was accepted
  takes the line. `docs/SUPPLY-CHAIN.md:15` says "Records each accepted release
  payload in `transparency.log`". `AcceptedLogged` as an invariant of `supply` is
  violated, in 14 states. What the code does promise is `LineBeforeJob`.
- `confirmNormalBoot` gives up on a boot whose health window has passed
  (`boot.go:51`) by the record in memory. When the transaction that records the
  confirmation reaches the disk and then reports an error, memory still says
  unconfirmed, and the running slot is marked bad although the journal says it is
  confirmed. `boots` with `"storage"` in `Faults` violates `ConfirmedIsGood` in this
  way; `ConfirmedStaysGood` proves that nothing else does.
- The journal archives the terminal job whose `Updated` time is the earliest
  (`store.go:222`), while `confirmNormalBoot` takes the latest completed job by
  sequence and among the hot jobs only (`boot.go:32`). After a boot with the clock
  set back the two orders differ: the job that committed the running image can be
  archived first, and the boot is not recognized any more.
  `docs/ARCHITECTURE.md:87` says that later boots are confirmed for versions of "the
  latest completed OTA transaction". `boots` violates `NormalBootRecognized` in this
  way with a third job (`JobIDs` and `Versions` to match, `Assignments <-
  ThreeImages`), `"clock"` in `Faults` and `MaxPowerLoss = 0`. The shortest trace has
  two jobs with the same time, which the coarse clock of the model makes likely;
  leaving out ties, TLC still finds one, in 70 states, and without the clock fault
  (`MaxNow = 3`) it finds none. The real limit is 10,000 jobs (`store.go:23`), so
  the device must have a history of that length.
- The acknowledged sequence of the reference controller goes down when a late older
  batch arrives (`server.go:164`), although `AckedSequence` is described as the
  highest contiguous one. No event is lost by it (`NoEventLost`).
- `AckedSequence` and `docs/FLEET.md:47` speak of events that are "durably accepted",
  but the reference controller keeps them in memory (`server.go:18`). After its
  restart the agent, which has let go of what was acknowledged, posts later events
  only, the first of them is not contiguous with 0, and the outbox stays as it is:
  `EventsDelivered` without `Gap` is violated. `docs/PRODUCTION.md:75` describes the
  freeze ("a gap freezes the outbox until repaired"), and the agent lets go of nothing
  because of it (`DeliverySpec`). An `otactl ack` of events the controller does not
  have, which `docs/LAB.md:110` warns of, leaves the same gap.
- The relay path of the downloader truncates the partial file and removes it after a
  break (`download.go:360`, `368`), although `docs/OPERATIONS.md:20` says that a
  transient failure retains it. `CutOffsDoNotMatter` is about transfers from the URL.

## 4. Fairness

- `Engine!FairSpec`: the update loop ticks every second (`main.go:102`), so its own
  steps and the continuation of an operation are weakly fair. RAUC ends an
  installation, a requested reboot happens, time passes and the controller goes on
  acknowledging: weakly fair. Nothing is assumed of downloads, health checks,
  requests, restarts and power losses. `UpdateEnds` is stated for jobs whose health
  window ends within the bound of the clock, because time stops there.
- `FleetSync!FairSpec`: `Sync` is called every ten seconds, so posting is weakly
  fair. A request that is sent again and again is answered at last: strong fairness
  of delivery, of the reply and of the poll, since a timeout disables them each
  time. A restored journal can meet a conflict, and the outbox then stays where it
  is; `EventsDelivered` and `DeliverySpec` therefore speak of behaviours up to the
  restore, which are all of them when nothing is restored. An event that neither side
  has (`Gap`) stops the contiguous acknowledgement; `EventsDelivered` names this case
  and says that nothing else stops it.
- `Site!FairSite`: weak fairness of the agent's steps and of nothing else. No request
  of another peer is assumed to end, and the relay is not assumed to answer: the
  agent's own limit on a request is what lets it go on. `settled` stands for the
  moment from which sources, disk and power give no more trouble; `FetchSucceeds`
  speaks of what follows. `CutOffsDoNotMatter` speaks of behaviours in which this
  moment need not come: every transfer may be cut off, as long as bytes go on arriving
  from the URL and nothing takes away what has arrived (`OnlyCutOffs`).
- `SupplyChain!FairSpec`: the controller offers an assignment at each poll until it
  is accepted, so submission is weakly fair. The update loop shares the lock with
  `Submit` and brings the active job to an end: strong fairness of `Finish`. A
  poisoned process is restarted: weak fairness of `Restart`. `Settle` is the
  moment from which on nothing fails any more, and it needs a log that is whole: a torn
  one refuses every release until somebody repairs it. `RetryAccepted` speaks of the
  release that is wanted then.
- `TargetOrder!Spec`: the function runs to its end, weak fairness of `Next`.

## 5. What is proved

Constants are restricted only by the named assumptions of the modules (identifiers
are not the empty string, assignments are well-formed, limits are natural numbers,
the stable period is shorter than the health window, versions of metadata are
positive, the value that stands for "none" is no document). TLC evaluates them in
each run.

| Theorem | States | Argument |
|---|---|---|
| `EngineProofs!TypeCorrect` | `Spec => []TypeOK` | with the invariant below, since the type of an updated record depends on the active job |
| `EngineProofs!InstallsOnce` | `Spec => []AtMostOneInstall` | invariant `Inv` |
| `EngineProofs!EngineImplements` | `Spec => LifecycleSpec` | invariant `JInv`, and what a step may do to the journal on disk (`DiskStep`) |
| `EngineProofs!FinishedKept` | `Spec => FinishedStays` | invariant `JInv` and `DiskStep` |
| `EngineProofs!ArtifactsStay` | `Spec => []VerifiedIsCached` | invariant `JInv` |
| `StoreProofs!JournalStaysValid` | `Spec => []JournalValid` | invariant `LInv`, which is `JInv` and the number of jobs |
| `DeviceProofs!FallbackKept` | `Spec => []FallbackPreserved` | invariant `DInv` |
| `DeviceProofs!OutcomesProved` | `Spec => OutcomeEvidence` | invariant `DInv`, and that a record reaches the disk only through a save (`DiskEntered`) |
| `DeviceProofs!GoodProved` | `Spec => MarkGoodProven` | invariant `DInv` and one case per action that marks |
| `DeviceProofs!ConfirmedStaysGood` | `Spec => []ConfirmedIsGood` if no journal write fails | invariants `DInv` and `Confirmed` |
| `BootProofs!BootsRecognized` | `Spec => []NormalBootRecognized` whenever the latest completed job replaced an image (`LatestImage`) and has not left the journal (`LatestKept`) | invariant `BInv` |
| `BootProofs!BootsAlwaysRecognized` | `Spec => []NormalBootRecognized` if the journal has room for every job and every release carries an image | invariant `BInv`, and that nothing is archived |
| `BootProofs!SomeSlotStaysBootable` | `Spec => []SomeSlotBootable` if no installation begins while the running slot could not be booted again | invariants `BInv` and `RInv` |
| `StoreProofs!PayloadsSettle` | `Spec => []PayloadsSettled` if every step is `Undisturbed` | invariant `PInv` |
| `FleetSyncProofs!ReportingTypes`, `EventsSafe` | `Spec => []TypeOK`, `Spec => []NoEventLost` | invariant `Inv` |
| `FleetSyncProofs!ReportingDelivers` | `Spec => DeliverySpec` | invariant `Inv`, and that the outbox is a suffix of the log (`Suffix`) |
| `SiteProofs!FetchChecked` | `Spec => []OkIsRight` of `Download` | invariant `Inv` |
| `SiteProofs!CacheKept` | `Spec => CompleteStays` of `Download` | invariant `Inv` and one case per action |
| `SiteProofs!UpstreamReadOnce`, `CacheStaysRight` | `RelaySpec => []OneUpstreamRead`, `RelaySpec => []CacheIsRight` | invariant `RelayInv` |
| `SiteProofs!SiteTypes` | `SiteSpec => []SiteTypeOK` | types of both parts, and the connection between them |
| `SiteProofs!SiteIsSafe` | `OkIsRight`, `CompleteStays`, `OneUpstreamRead` and `CacheIsRight` of `SiteSpec` | every step of the site is a step of each part (lemma `SiteKeepsParts`), and the theorems about the parts |
| `SupplyChainProofs!AdmissionTypes` | `Spec => []TypeOK` | invariant `IInv` |
| `SupplyChainProofs!AcceptedBound` | `Spec => []AcceptedIsBound` | invariant `IInv` |
| `SupplyChainProofs!RootMovesForward`, `SnapshotMovesForward`, `LineFirst` | `RootSucceeds`, `SnapshotMonotone`, `LineBeforeJob` | invariant `IInv` and the steps that write the journal |
| `SupplyChainProofs!OneLine` | `Spec => []LoggedOnce` | a line is added only when the log has none for the release |
| `TargetOrderProofs!OrderTypes`, `VerdictStands`, `OrderStands` | `Spec => []TypeOK`, `Spec => []VerdictIsRight`, `Spec => []DependenciesFirst` | invariant `Inv` |

**At most one installation.** The property only counts calls, so it is not
inductive. `Core` adds why a second call cannot happen: a release above the
high-water mark on disk has not been installed (`Reserved`); a release whose job
still waits has not been installed, neither according to the journal in memory nor
to the one on disk (`Untouched`), since after a failed write they differ and a
restart goes back to the disk (`InStep`); the record a save is about to write
belongs to the active job (`Writing`); and when the backend is called the journal on
disk already says Installing (`Holding`). `WellFormed` is the part of
`validateDatabase` this needs. `NextInv` has one step per group of actions, each
with a lemma; `SaveStep`, `UpdateStep` and `SaveInv` carry what all saves share.

**The journal and the state machine.** An operation reads the active job, then writes
the device or the cache, and only then saves the job in a later step. That the save
is a move of the state machine needs what is known of the job in between:
`PointState` gives its state at each point where the mutex is held, and
`WriteFollows` says that the record about to be written succeeds the one in memory.
A failed write leaves the disk at most that one record ahead of memory, and nothing
is written after it before a restart reads the disk back (`InStep`); so `DiskStep`
can say of every step that the disk stays as it is, that one unfinished record moves
along an edge, or that a submission adds a job while all others are finished.
`EngineImplements` and `FinishedKept` follow from these three cases. A cleanup is
refused while memory has an active job; that it spares what a record on disk relies
on after a failed write needs `Behind`: a job verified on disk is the active one in
memory. `JournalStaysValid` adds the cardinalities: only a submission enlarges the journal
(`HotStep`), and archiving one finished job makes room for it (`SubmitFits`).

**The device.** The journal, the device and the health counters are changed by
different steps, with power losses between any two of them. `Guarded` says what a
record in memory, on disk, or on its way to the disk claims about the device
(`Safe`): the old slot is not the target, it still has the old version, and only the
job that installs can find the device writing. `SafePoint` and `SafeWrite` carry the
evidence a step has read from the device (the target runs, is good and proved itself)
to the later step that records it; nothing can change the device in between but a
power loss, which also drops the step. `Observed` relates the counter of passing
checks in the engine to the ghost variables that say what this process has seen in
this boot; it is limited to windows that are open, because a counter left over from a
window that has ended is reset before the next one is judged. `FallbackPreserved`,
`OutcomeEvidence` and `MarkGoodProven` follow. `ConfirmedIsGood` needs in addition
that memory and disk agree (`Confirmed`), which is why it is proved for journals whose
writes do not fail; section 3 shows what happens otherwise. Power losses and restarts
are not excluded.

**Which slot boots.** `NormalBootRecognized` and `SomeSlotBootable` speak of the moments
without a job, or of the marks alone; what makes them true happens while a job is
under way. `BInv` says of a database and the device: if no job is under way, each slot
is vouched for by the latest completed job, or no boot leads to it any more (`Lost`:
it does not run, is not the primary one and is not good, on RAUC bad); if one is, the same is
known of its old slot (`Trusted`), and the state of the job tells where the boot
selection stands (`Stage`): the old slot runs until the reboot, the target is primary
or has been tried, and a job that ends without a commit leaves the target `Lost`. The
active job has the highest sequence, so that it becomes the latest when it ends. All
of this is claimed of the journal in memory and of the one on disk, because after a
write that fails the engine goes on driving the device from memory while a restart
goes back to the disk; `Kin` says that the two are one save of the active job apart.
`RInv` adds that some slot is bootable and that a job under way has a way back
(`Recoverable`).

The conditions are those the code needs. A job of payloads alone has no slots
(`LatestImage`; run `payload_boot`), and the journal archives by time (`LatestKept`;
section 3). They are conditions on the state in which the boot is judged, not on the
history before it. `BootsAlwaysRecognized` replaces them by conditions on the
configuration, which the run `boots` meets. The normal-boot fallback marks the running
slot bad before it activates the other (run `bootable`); an installation that begins
in between is what `SomeSlotStaysBootable` excludes, and the run `install` has no such
step, as TLC confirms.

**Payloads.** The files follow the journal on disk. `Files` says of each target that
it holds the version of the active job if the record of the job says that its payloads
are in place, with the version before it still at hand, and otherwise the version of
the last committed job that has the target. Between two records `Midway` says the same
with the set of targets replaced so far in place of the record; the failure of one copy
or one health check goes back from any such point. `Agree` relates memory and disk
after a failed write. `Undisturbed` has one condition for each way in which the code
loses track: no restart or power loss between the first replaced file and the save
that records it (run `payload_set`), success of the saves that record an installation
or an end (the second visit to `engine.go:109`, section 3), and no archiving of a
committed job with payloads, since `SettledPayload` goes by the jobs in the journal.
Restarts, power losses and failed writes at all other moments are not excluded. TLC
confirms that every step of the run `payloads` is `Undisturbed`, so the theorem covers
that run, and that the invariant holds there.

**The order of targets.** Both loops count, and the invariant says what: the count of
a target is the number of places in its list that name a target not yet taken. A
target is queued when its count becomes zero, so at most once (`Distinct`), and the
number seen is the size of the set taken. If all are taken, the order of taking is a
rank. If some are left while the queue is empty, each of them waits for one of them;
a rank would give one of least rank among them (`LeastRank`, by the well-foundedness
of the strict subset order on finite sets), which could not wait (`SomeoneNext`). The
same argument shows that the sort is never stuck on a release the check accepted.

**No event is lost.** The batch in hand is a prefix of the outbox
(`SentIsPrefix`), there is one live request at a time and it carries that batch
(`OneExchange`), the controller acknowledges only runs without a gap (`AckedIsHeld`),
and an answer that accepts a batch means that it has stored all of it and every number
up to the one it names (`AnsweredIsHeld`). An acknowledgement within the batch
therefore drops only events that were received. Operator and controller can move at
any point: an acknowledgement on the device only shortens the outbox, and what a
restart of the controller loses has been received nevertheless. For restores the
backup has to satisfy the same property (`BackupComplete`), and a number used twice is
refused as a conflict, never taken for a duplicate, as long as the controller has it.

**The cache.** A call is at a remote source only if the cached file is not complete
(`RemoteIsNeeded`), so no transfer can overwrite a complete one.

**Reporting implements its contract.** What the agent has let go of is the log
without its outbox. That this is a prefix of the log, and that it only grows, needs
that the outbox is a suffix of the log (`Suffix`); that the controller makes it grow
only over a prefix that was received is `AnsweredIsHeld` again. The steps of the network and of the backup leave
the abstract state alone.

**The relay and the site.** A request between its second look at the cache and the
rename holds the lock and its artifact is still missing (`RelayInv`), whatever other
requests, restarts and removals do in between. `SiteIsSafe` rests on the composition
argument: every step of the site is a step of each part or leaves that part alone,
so what is proved of a part needs no second proof.

**Supply chain.** Root, snapshot and targets are read at different times. What each
read has established (`Established`) stays true until the journal is written because
the submission holds the engine lock, so root and snapshot in the journal do not
move, and because what it compared are payloads and not file names: files that are
replaced later cannot undo a signature that was checked. A poisoned process, whose
memory may differ from the disk, commits nothing.

## 6. What is only model-checked

- Liveness (`UpdateEnds`, `EventsDelivered`, `CutOffsDoNotMatter`, `FetchSucceeds`, `RetryAccepted`,
  `EndsReached`): fairness is out of the prover's reach.
- `NormalBootRecognized`, `SomeSlotBootable` and `PayloadsSettled` beyond the conditions
  of their theorems: they are not true of every instance, and the runs `payload_boot`,
  `bootable` and `payload_set` and the instances of section 3 show it. `FallbackKept` is
  what does hold always: while a job is under way its old slot still has the old
  version, whatever the marks say.
- `CommittedImageRecognized` and `ArchivedIDsStay` state what a document says and the
  code does not do.

## 7. What is not modelled

- Cryptography, parsing and configuration checks (`verify.go`, the validation in
  `model.go`, reading a metadata file): their verdict is nondeterministic. The rules
  that relate verified documents to each other are modelled (`SupplyChain`).
- The hash chain inside the transparency log: a log that does not parse is torn.
- The clock arithmetic of the download window: the window is any set of times, which
  includes all a configuration can describe.
- The campaign file, a format that ends in `Submit`; copying onto the media is
  `ChangeMedia` of `Download`.
- The legacy `state.json` migration and the archive export, which change nothing an
  operation reads.
- Health probes, metrics, tracing, the client library and the command line tools,
  which keep no state the agent reads.
- Directory entries that are lost because a directory was not synced, and payload
  renames that are lost in that way.

## 8. Plan

In this order: a property for the health window of a normal boot that a job
interrupts (`boot.go:51`) and one for a reboot that is recorded and never requested
(`engine.go:411`), which need a statement of what the code intends first.
