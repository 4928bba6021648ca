----------------------------- MODULE SupplyChain -----------------------------
(***************************************************************************)
(* What Submit asks of a release beyond its envelope when trust_dir is set *)
(* (internal/ota/trustmeta.go): a root that follows the stored one, a      *)
(* timestamp, snapshot and targets metadata bound to each other and signed *)
(* under that root, a release they list, a key that may sign it, and a     *)
(* line in transparency.log.                                               *)
(*                                                                         *)
(* The four files of trust_dir are read one after the other while a        *)
(* publisher replaces them one at a time.  The line is written and synced  *)
(* inside the transaction that accepts the release, before the journal is. *)
(*                                                                         *)
(* A document is its payload and the keys with a valid signature on it; a  *)
(* digest is the payload it is computed from.  A file that is missing,     *)
(* malformed or expired is a refusal that can happen at each read.  The    *)
(* hash chain of the log is left out: a log that does not parse is torn.   *)
(*                                                                         *)
(* A key is its identifier.  The envelope is checked with the key that     *)
(* Config.TrustKeys has under that identifier (verify.go:17), the metadata *)
(* with the keys of the root (trustmeta.go:271); the model takes what the  *)
(* two call by one identifier for one key.                                 *)
(***************************************************************************)
EXTENDS Naturals, Sequences, FiniteSets

CONSTANTS
    RootDocs,        \* root.json documents that are ever published
    TimestampDocs,   \* timestamp.json
    SnapshotDocs,    \* snapshot.json
    TargetsDocs,     \* targets.json
    Releases,        \* releases with a valid envelope, each in one assignment
    Pinned,          \* Config.RootSHA256: the payload of the first root
    None             \* no document and no release

ASSUME NoneAssumption ==
    /\ None \notin Releases
    /\ \A d \in RootDocs \cup SnapshotDocs : d.payload # None
ASSUME NumbersAssumption ==
    /\ \A d \in RootDocs \cup SnapshotDocs : d.payload.version \in Nat \ {0}
    /\ \A r \in Releases : r.seq \in Nat \ {0}

VARIABLES
    trust,      \* the files of trust_dir
    db,         \* Store.data: root, snapshot, high sequence, accepted jobs, active
    disk,       \* the same on disk
    poisoned,   \* Store.poisoned
    log,        \* the lines of transparency.log
    synced,     \* how many of them are on stable storage
    torn,       \* the log does not end in a whole line
    pc,         \* the point Submit has reached
    rel,        \* the release it is about
    got,        \* what it has read and still needs
    wanted      \* the release that is submitted again and again, once all is well

vars == <<trust, db, disk, poisoned, log, synced, torn, pc, rel, got, wanted>>

logVars == <<log, synced, torn>>

Settled == wanted # None

\* The releases transparency.log has a line for.
Lines == {log[i] : i \in DOMAIN log}

Payloads(docs) == {d.payload : d \in docs}

Database ==
    [root : Payloads(RootDocs) \cup {None}, snap : Payloads(SnapshotDocs) \cup {None},
     high : Nat, jobs : SUBSET Releases, active : Releases \cup {None}]

NewDatabase == [root |-> None, snap |-> None, high |-> 0, jobs |-> {}, active |-> None]

Nothing == [root |-> None, ts |-> None, snap |-> None]

TypeOK ==
    /\ trust \in [root : RootDocs, ts : TimestampDocs, snap : SnapshotDocs, targets : TargetsDocs]
    /\ db \in Database /\ disk \in Database
    /\ poisoned \in BOOLEAN
    /\ log \in Seq(Releases)
    /\ synced \in 0..Len(log)
    /\ torn \in BOOLEAN
    /\ pc \in {"idle", "timestamp", "snapshot", "targets", "update", "sync", "persist"}
    /\ rel \in Releases \cup {None}
    /\ got \in [root : Payloads(RootDocs) \cup {None}, ts : Payloads(TimestampDocs) \cup {None},
                snap : Payloads(SnapshotDocs) \cup {None}]
    /\ wanted \in Releases \cup {None}

Init ==
    /\ trust \in [root : RootDocs, ts : TimestampDocs, snap : SnapshotDocs, targets : TargetsDocs]
    /\ db = NewDatabase /\ disk = NewDatabase
    /\ poisoned = FALSE
    /\ log = <<>> /\ synced = 0 /\ torn = FALSE
    /\ pc = "idle" /\ rel = None /\ got = Nothing
    /\ wanted = None

-----------------------------------------------------------------------------
\* The rules

\* A key counts once, and only if the role names it.
verifyThreshold(doc, role) ==
    /\ role.threshold >= 1
    /\ Cardinality(doc.signers \cap role.keys) >= role.threshold

\* Seeded fault: the new root vouches for itself.
SelfSigned(stored, doc) ==
    \/ stored = None /\ doc.payload = Pinned /\ verifyThreshold(doc, doc.payload.roles.root)
    \/ stored = doc.payload
    \/ /\ stored # None /\ doc.payload.version > stored.version
       /\ verifyThreshold(doc, doc.payload.roles.root)

\* loadRoot: the pinned root first, then the stored one or a newer one that both
\* the stored root's keys and its own have signed.
loadRoot(stored, doc) ==
    \/ stored = None /\ doc.payload = Pinned /\ verifyThreshold(doc, doc.payload.roles.root)
    \/ stored = doc.payload
    \/ /\ stored # None /\ doc.payload.version > stored.version
       /\ verifyThreshold(doc, stored.roles.root)
       /\ verifyThreshold(doc, doc.payload.roles.root)

\* Seeded fault: only an older version counts as a rollback.
OlderIsRollback(stored, snap) == stored # None => snap.version >= stored.version

\* No rollback, and no version that comes with other contents.
Follows(stored, snap) ==
    stored # None => snap.version > stored.version \/ snap = stored

\* authorizeReleaseKey: the first delegation that names the key decides.  r.key is the
\* KeyID of the envelope.
authorizeReleaseKey(root, r) ==
    \/ r.key \in root.roles.targets.keys
    \/ \E i \in DOMAIN root.delegations :
          /\ r.key \in root.delegations[i].keys
          /\ \A k \in 1..(i - 1) : r.key \notin root.delegations[k].keys
          /\ r.types \subseteq root.delegations[i].types

\* Seeded fault: the targets file is not compared with the snapshot.
TargetsUnbound(root, snap, doc, r) ==
    /\ verifyThreshold(doc, root.roles.targets)
    /\ r.id \in doc.payload.releases
    /\ r.artifacts \cap doc.payload.reject = {}
    /\ authorizeReleaseKey(root, r)

\* The last part of evaluateSupplyChain.
Listed(root, snap, doc, r) ==
    /\ doc.payload = snap.targets
    /\ doc.payload.version = snap.targetsVersion
    /\ verifyThreshold(doc, root.roles.targets)
    /\ r.id \in doc.payload.releases
    /\ r.artifacts \cap doc.payload.reject = {}
    /\ authorizeReleaseKey(root, r)

-----------------------------------------------------------------------------
\* Submit

Refuse == pc' = "idle" /\ rel' = None /\ got' = Nothing

\* A refusal before the transaction changes nothing.
Refused == Refuse /\ UNCHANGED <<trust, db, disk, poisoned, logVars, wanted>>

\* The next file passes its checks, and what is still needed is kept; or it does
\* not, cannot be read or has expired.
Read(ok, next, kept) ==
    \/ /\ ok
       /\ pc' = next /\ got' = kept
       /\ UNCHANGED <<trust, db, disk, poisoned, logVars, rel, wanted>>
    \/ (~ok \/ ~Settled) /\ Refused

\* Seeded fault: the envelope is kept in place of what it holds.
KeepsEnvelope(r) ==
    /\ pc = "idle" /\ r \notin db.jobs
    /\ Settled => r = wanted
    /\ loadRoot(db.root, trust.root)
    /\ pc' = "timestamp" /\ rel' = r
    /\ got' = [Nothing EXCEPT !.root = trust.root]
    /\ UNCHANGED <<trust, db, disk, poisoned, logVars, wanted>>

\* A job that is in the journal is returned as it is.  Root first: loadRoot.
Submit(r) ==
    /\ pc = "idle" /\ r \notin db.jobs
    /\ Settled => r = wanted
    /\ loadRoot(db.root, trust.root)
    /\ pc' = "timestamp" /\ rel' = r
    /\ got' = [Nothing EXCEPT !.root = trust.root.payload]
    /\ UNCHANGED <<trust, db, disk, poisoned, logVars, wanted>>

ReadTimestamp ==
    /\ pc = "timestamp"
    /\ Read(verifyThreshold(trust.ts, got.root.roles.timestamp),
            "snapshot", [got EXCEPT !.ts = trust.ts.payload])

ReadSnapshot ==
    /\ pc = "snapshot"
    /\ Read(/\ trust.snap.payload = got.ts.snapshot
            /\ trust.snap.payload.version = got.ts.snapshotVersion
            /\ Follows(db.snap, trust.snap.payload)
            /\ verifyThreshold(trust.snap, got.root.roles.snapshot),
            "targets", [got EXCEPT !.ts = None, !.snap = trust.snap.payload])

ReadTargets ==
    /\ pc = "targets"
    /\ Read(Listed(got.root, got.snap, trust.targets, rel), "update", got)

\* Seeded fault: the line is left for later.
RecordLater == pc' = "persist" /\ UNCHANGED logVars

\* Seeded fault: a line that is there already is an error.
LineIsError ==
    IF rel \in Lines
    THEN pc' = "idle" /\ UNCHANGED logVars
    ELSE /\ log' = Append(log, rel)
         /\ pc' = "sync"
         /\ UNCHANGED <<synced, torn>>

\* Seeded fault: a line is written for every attempt.
RecordAlways ==
    /\ log' = Append(log, rel)
    /\ pc' = "sync"
    /\ UNCHANGED <<synced, torn>>

\* appendTransparency up to the sync: a release that has its line needs no other.
Record ==
    IF rel \in Lines
    THEN pc' = "persist" /\ UNCHANGED logVars
    ELSE /\ log' = Append(log, rel)
         /\ pc' = "sync"
         /\ UNCHANGED <<synced, torn>>

\* The transaction refuses, or sets the metadata and writes the line.
Update ==
    /\ pc = "update"
    /\ IF poisoned \/ db.active # None \/ rel.seq <= db.high \/ torn
       THEN Refused
       ELSE \/ /\ Record
               /\ UNCHANGED <<trust, db, disk, poisoned, rel, got, wanted>>
            \/ /\ ~Settled /\ rel \notin Lines   \* a short write
               /\ torn' = TRUE /\ Refuse
               /\ UNCHANGED <<trust, db, disk, poisoned, log, synced, wanted>>
            \/ ~Settled /\ Refused                    \* nothing is written

\* Sync fails: the line stays, the release is not accepted.
Sync ==
    /\ pc = "sync"
    /\ \/ /\ synced' = Len(log) /\ pc' = "persist"
          /\ UNCHANGED <<trust, db, disk, poisoned, log, torn, rel, got, wanted>>
       \/ ~Settled /\ Refused

Accepting ==
    [root |-> got.root, snap |-> got.snap, high |-> rel.seq,
     jobs |-> db.jobs \cup {rel}, active |-> rel]

\* The rest of the transaction: the commit, which may fail after it has reached the
\* disk; or the event does not fit the outbox.
Persist ==
    /\ pc = "persist"
    /\ \/ /\ db' = Accepting /\ disk' = Accepting /\ UNCHANGED poisoned
       \/ /\ ~Settled /\ poisoned' = TRUE
          /\ disk' \in {disk, Accepting} /\ UNCHANGED db
       \/ ~Settled /\ UNCHANGED <<db, disk, poisoned>>
    /\ Refuse
    /\ UNCHANGED <<trust, logVars, wanted>>

\* The active job comes to its end.
Finish ==
    /\ pc = "idle" /\ ~poisoned /\ db.active # None
    /\ db' = [db EXCEPT !.active = None] /\ disk' = db'
    /\ UNCHANGED <<trust, poisoned, logVars, pc, rel, got, wanted>>

-----------------------------------------------------------------------------
\* The surroundings

\* One file is replaced, by any document that was ever signed: an older one too.
Publish ==
    /\ ~Settled
    /\ \/ \E d \in RootDocs : trust' = [trust EXCEPT !.root = d]
       \/ \E d \in TimestampDocs : trust' = [trust EXCEPT !.ts = d]
       \/ \E d \in SnapshotDocs : trust' = [trust EXCEPT !.snap = d]
       \/ \E d \in TargetsDocs : trust' = [trust EXCEPT !.targets = d]
    /\ UNCHANGED <<db, disk, poisoned, logVars, pc, rel, got, wanted>>

\* The process stops and starts again: what it wrote is still there.
Restart ==
    /\ ~Settled \/ poisoned
    /\ db' = disk /\ poisoned' = FALSE
    /\ Refuse
    /\ UNCHANGED <<trust, disk, logVars, wanted>>

\* Lines that were not synced may be gone, the last of them in part.
LosePower ==
    /\ ~Settled
    /\ \E n \in synced..Len(log) :
          /\ log' = SubSeq(log, 1, n) /\ synced' = n
          /\ torn' \in IF n < Len(log) THEN {torn, TRUE} ELSE {torn}
    /\ db' = disk /\ poisoned' = FALSE
    /\ Refuse
    /\ UNCHANGED <<trust, disk, wanted>>

\* The files are those of one publication that lists r, the device can go there,
\* and from now on nothing fails.
Acceptable(r) ==
    /\ loadRoot(disk.root, trust.root)
    /\ verifyThreshold(trust.ts, trust.root.payload.roles.timestamp)
    /\ trust.snap.payload = trust.ts.payload.snapshot
    /\ trust.snap.payload.version = trust.ts.payload.snapshotVersion
    /\ Follows(disk.snap, trust.snap.payload)
    /\ verifyThreshold(trust.snap, trust.root.payload.roles.snapshot)
    /\ Listed(trust.root.payload, trust.snap.payload, trust.targets, r)
    /\ r.seq > disk.high

Settle ==
    /\ ~Settled /\ pc = "idle" /\ ~torn
    /\ \E r \in Releases : Acceptable(r) /\ wanted' = r
    /\ UNCHANGED <<trust, db, disk, poisoned, logVars, pc, rel, got>>

-----------------------------------------------------------------------------
Submission ==
    \/ \E r \in Releases : Submit(r)
    \/ ReadTimestamp \/ ReadSnapshot \/ ReadTargets \/ Update \/ Sync \/ Persist

Next == Submission \/ Finish \/ Publish \/ Restart \/ LosePower \/ Settle

Spec == Init /\ [][Next]_vars

\* The assignment is submitted again after each refusal, and a poisoned process is
\* restarted.  The update loop, which shares the engine's lock with Submit, gets it
\* again and again and brings the active job to its end.
FairSpec ==
    /\ Spec
    /\ WF_vars(Submission)
    /\ SF_vars(Finish)
    /\ WF_vars(Restart)

-----------------------------------------------------------------------------
\* The roots that the keys of a root have signed as newer ones.
Successors(payload) ==
    {d.payload : d \in {e \in RootDocs : e.payload.version > payload.version
                                         /\ verifyThreshold(e, payload.roles.root)}}

\* The first root the journal holds is the pinned one, and it changes only to a newer
\* one that the threshold of the stored root's keys has signed, whatever files come
\* and go in trust_dir and wherever a write fails or the process stops.
RootSucceeds ==
    [][disk'.root # disk.root =>
           IF disk.root = None THEN disk'.root = Pinned
                               ELSE disk'.root \in Successors(disk.root)]_vars

\* The journal never goes back to an older snapshot, and never takes another one of
\* the same version.
SnapshotMonotone ==
    [][disk.snap # None =>
           disk'.snap = disk.snap \/ disk'.snap.version > disk.snap.version]_vars

\* A release is listed, and none of its artifacts is rejected, in the targets
\* metadata that a snapshot names; that metadata and the snapshot are signed under
\* a root, and the root lets the key of the release sign all that is in it.
Bound(root, snap, r) ==
    /\ r.id \in snap.targets.releases
    /\ r.artifacts \cap snap.targets.reject = {}
    /\ \E d \in SnapshotDocs :
          d.payload = snap /\ verifyThreshold(d, root.roles.snapshot)
    /\ \E d \in TargetsDocs :
          d.payload = snap.targets /\ verifyThreshold(d, root.roles.targets)
    /\ \/ r.key \in root.roles.targets.keys
       \/ \E i \in DOMAIN root.delegations :
             /\ r.key \in root.delegations[i].keys
             /\ r.types \subseteq root.delegations[i].types

\* The release that was accepted last is bound to the root and the snapshot in the
\* journal, although the four files were read one after the other.
AcceptedIsBound ==
    \A r \in disk.jobs : r.seq = disk.high => Bound(disk.root, disk.snap, r)

\* A release reaches the journal only when it has its line in transparency.log,
\* whichever attempt wrote the line.
LineBeforeJob == [][disk'.jobs \subseteq disk.jobs \cup Lines']_vars

\* transparency.log has a line for every release in the journal.  The code does not
\* promise this across a loss of power: a line whose sync failed is found by the next
\* attempt and is not synced again.
AcceptedLogged == disk.jobs \subseteq Lines

\* However often a release is submitted again after a failure it has one line.
LoggedOnce == \A i, j \in DOMAIN log : log[i] = log[j] => i = j

\* No failure before keeps a release from being accepted once its metadata is
\* published as a whole, the log is whole and nothing else fails: neither a line
\* without a job nor a commit the process does not know of, nor metadata stored with
\* another release.  A log that ends in the middle of a line is not repaired by the
\* agent and refuses every release; Settle starts from one that is not torn.
RetryAccepted == Settled ~> wanted \in disk.jobs
=============================================================================
