------------------------------ MODULE Journal ------------------------------
(***************************************************************************)
(* The database of the agent (internal/ota/model.go, store.go): the job    *)
(* records, the single active job, the release-sequence high-water mark,   *)
(* the event outbox and the record of the last normal boot.  Everything    *)
(* here is an operator on a database value; module Engine owns the copy in *)
(* memory (Store.data) and the copy on disk (the SQLite snapshot).         *)
(*                                                                         *)
(* Data abstractions: the outbox is the number of unacknowledged events    *)
(* (module FleetSync models the events themselves); a fingerprint is the   *)
(* assignment it is computed from; messages, spans and metrics are left    *)
(* out; Job.Updated, which only compactHot reads and only on finished      *)
(* jobs, is recorded when a job finishes.  The zero time is 0.             *)
(***************************************************************************)
EXTENDS Naturals, FiniteSets

CONSTANTS
    JobIDs,         \* job identifiers
    Versions,       \* image and payload versions
    Targets,        \* identifiers of side payload targets
    Assignments,    \* the assignments a controller or an operator may submit
    HotJobLimit,    \* store.go hotJobLimit
    HotEventLimit,  \* store.go hotEventLimit
    EventLimit      \* the outbox capacity in addEvent

Slots == {"rootfs.0", "rootfs.1"}

\* One assignment with the release inside its envelope.  bundle is the version
\* the artifact really contains, targets its side payloads, os whether it
\* replaces the root file system (Release.HasOS).
Assignment ==
    [job : JobIDs, seq : Nat \ {0}, version : Versions, bundle : Versions,
     os : BOOLEAN, targets : SUBSET Targets,
     notBefore : Nat, deadline : Nat, autoReboot : BOOLEAN]

ASSUME JobsAssumption == "" \notin JobIDs
ASSUME TargetsAssumption == "" \notin Targets
ASSUME VersionsAssumption == Versions \cap {"", "torn"} = {}
ASSUME AssignmentsAssumption == Assignments \subseteq Assignment
ASSUME LimitsAssumption ==
    /\ HotJobLimit \in Nat
    /\ HotEventLimit \in Nat
    /\ EventLimit \in Nat

-----------------------------------------------------------------------------
\* Job states

Waiting == {"accepted", "downloading", "verified"}

Underway == {"installing", "awaiting_reboot", "checking_health", "committing",
             "rollback_pending", "needs_recovery"}

Finished == {"committed", "rolled_back", "failed"}

States == Waiting \cup Underway \cup Finished

Terminal(state) == state \in Finished

-----------------------------------------------------------------------------
\* Job records and the database

NoAssignment == [job |-> "", seq |-> 0]

Job == [asg : Assignments \cup {NoAssignment},
        state : States \cup {"absent"},
        oldSlot : Slots \cup {""}, oldVersion : Versions \cup {"", "torn"},
        targetSlot : Slots \cup {""}, bootID : Nat, healthStarted : Nat,
        rebootRequested : BOOLEAN, deferred : BOOLEAN, downloadAfter : Nat,
        payloadsApplied : BOOLEAN, updated : Nat]

NoJob == [asg |-> NoAssignment, state |-> "absent",
          oldSlot |-> "", oldVersion |-> "", targetSlot |-> "",
          bootID |-> 0, healthStarted |-> 0,
          rebootRequested |-> FALSE, deferred |-> FALSE, downloadAfter |-> 0,
          payloadsApplied |-> FALSE, updated |-> 0]

NewJob(a) == [NoJob EXCEPT !.asg = a, !.state = "accepted"]

BootCheck == [bootID : Nat, started : Nat, confirmed : BOOLEAN]

Database == [high : Nat, active : JobIDs \cup {""}, jobs : [JobIDs -> Job],
             outbox : Nat, bootCheck : BootCheck]

\* Boot identifiers start at 1; 0 is the empty string of a fresh database.
EmptyDatabase ==
    [high |-> 0, active |-> "", jobs |-> [id \in JobIDs |-> NoJob],
     outbox |-> 0, bootCheck |-> [bootID |-> 0, started |-> 0, confirmed |-> FALSE]]

Hot(d) == {id \in JobIDs : d.jobs[id].state # "absent"}

HasActive(d) == d.active # ""

Active(d) == d.jobs[d.active]

OutboxFull(d) == d.outbox >= EventLimit

AddEvent(d) == [d EXCEPT !.outbox = @ + 1]

\* Seeded fault: a finished job stays the active one.
KeepsActive(d, id, j) == AddEvent([d EXCEPT !.jobs[id] = j])

\* The update a save makes: record the job, release the active reference when
\* it has finished, add one event.
Recorded(d, id, j) ==
    AddEvent([d EXCEPT !.jobs[id] = j,
                       !.active = IF Terminal(j.state) THEN "" ELSE @])

\* The update a submission makes.
Accepted(d, a) ==
    AddEvent([d EXCEPT !.high = a.seq, !.active = a.job, !.jobs[a.job] = NewJob(a)])

\* compactHot: the finished jobs that may be archived next.  Map order decides
\* between jobs finished at the same time.
Oldest(d) ==
    LET idle == {id \in Hot(d) : id # d.active /\ Terminal(d.jobs[id].state)}
    IN  {id \in idle : \A other \in idle : d.jobs[id].updated <= d.jobs[other].updated}

OverHotLimit(d) == Cardinality(Hot(d)) > HotJobLimit

Without(d, id) == [d EXCEPT !.jobs[id] = NoJob]

\* validateDatabase: what a start checks on the snapshot and what every update
\* checks on the database it is about to write.
ValidDatabase(d) ==
    /\ Cardinality(Hot(d)) <= HotJobLimit + 1
    /\ d.outbox <= EventLimit
    /\ \A id \in Hot(d) :
          /\ d.jobs[id].asg.job = id
          /\ d.jobs[id].asg.seq <= d.high
          /\ ~Terminal(d.jobs[id].state) => d.active = id
    /\ HasActive(d) => Active(d).state \in Waiting \cup Underway
=============================================================================
