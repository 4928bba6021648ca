------------------------------ MODULE SiteRelay ------------------------------
(***************************************************************************)
(* The site relay (internal/relay/relay.go), configured as cmd/zyvor-relay *)
(* does, without an Upstream of its own: a directory of artifacts named by *)
(* their digests.  A request for a file that is not there takes the lock   *)
(* fill, looks again, reads the artifact from its origin into a .part      *)
(* file, checks the digest of what it has read and renames the file.  The  *)
(* lock is kept until the file has been served.                            *)
(*                                                                         *)
(* A file is "right" or "wrong" against its name, or "damaged": a rename   *)
(* is not synced, so a power loss can leave the name with other bytes.     *)
(* Tokens, digest syntax and the host list end in refusals that change     *)
(* nothing; a request here is one that has passed them.                    *)
(***************************************************************************)
EXTENDS Naturals

CONSTANTS
    Requests,   \* the requests the relay can have open at a time
    Artifacts,  \* the digests that are asked for
    NoOne       \* no request

ASSUME RelayAssumption == NoOne \notin Requests \cup Artifacts

VARIABLES
    cache,   \* Dir/<digest>, for each artifact
    spool,   \* Dir/<digest>.part: "wrong" once two requests have written it together
    fill,    \* the request that holds Server.fill
    at,      \* the point the handler of each request has reached
    wants    \* the artifact each request is about, or NoOne

relayVars == <<cache, spool, fill, at, wants>>

RelayTypeOK ==
    /\ cache \in [Artifacts -> {"none", "right", "wrong", "damaged"}]
    /\ spool \in [Artifacts -> {"right", "wrong"}]
    /\ fill \in Requests \cup {NoOne}
    /\ at \in [Requests -> {"idle", "waiting", "origin", "copy", "serve", "missed"}]
    /\ wants \in [Requests -> Artifacts \cup {NoOne}]
    /\ \A q \in Requests : at[q] # "idle" => wants[q] \in Artifacts

RelayInit ==
    /\ cache = [a \in Artifacts |-> "none"]
    /\ spool = [a \in Artifacts |-> "right"]
    /\ fill = NoOne
    /\ at = [q \in Requests |-> "idle"]
    /\ wants = [q \in Requests |-> NoOne]

Cached(q) == cache[wants[q]] # "none"

\* The handler returns: the deferred unlock, if it holds the lock.
Unlock(q) == fill' = IF fill = q THEN NoOne ELSE fill

\* get, up to the first look at the file.
Get(q, a) ==
    /\ at[q] = "idle"
    /\ wants' = [wants EXCEPT ![q] = a]
    /\ at' = [at EXCEPT ![q] = IF cache[a] = "none" THEN "waiting" ELSE "serve"]
    /\ UNCHANGED <<cache, spool, fill>>

\* Seeded fault: the origin is asked without a second look.
LockBlindly(q) ==
    /\ at[q] = "waiting" /\ fill = NoOne
    /\ fill' = q
    /\ at' = [at EXCEPT ![q] = "origin"]
    /\ UNCHANGED <<cache, spool, wants>>

\* The lock is free: the request takes it and looks again.
Lock(q) ==
    /\ at[q] = "waiting" /\ fill = NoOne
    /\ fill' = q
    /\ at' = [at EXCEPT ![q] = IF Cached(q) THEN "serve" ELSE "origin"]
    /\ UNCHANGED <<cache, spool, wants>>

\* The request ends without the artifact.
Miss(q) ==
    /\ at' = [at EXCEPT ![q] = "missed"]
    /\ Unlock(q)
    /\ UNCHANGED <<cache, wants>>

\* No origin is allowed, it does not answer with a body, or the .part file cannot be
\* opened.
OriginFails(q) == at[q] = "origin" /\ Miss(q) /\ UNCHANGED spool

\* store opens the .part file.  Two handlers that write it together spoil it.
OriginAnswers(q) ==
    /\ at[q] = "origin"
    /\ at' = [at EXCEPT ![q] = "copy"]
    /\ spool' = [spool EXCEPT ![wants[q]] =
           IF \E r \in Requests : at[r] = "copy" /\ wants[r] = wants[q]
           THEN "wrong" ELSE "right"]
    /\ UNCHANGED <<cache, fill, wants>>

\* The transfer breaks off, the digest is not the one asked for (the .part file is
\* removed), or the file cannot be renamed (it stays, and is truncated when it is
\* opened again).
StoreFails(q) == at[q] = "copy" /\ Miss(q) /\ UNCHANGED spool

\* Seeded fault: the name goes to whatever was received.
StoredUnchecked(q) ==
    /\ at[q] = "copy"
    /\ at' = [at EXCEPT ![q] = "serve"]
    /\ \E file \in {spool[wants[q]], "wrong"} : cache' = [cache EXCEPT ![wants[q]] = file]
    /\ UNCHANGED <<spool, fill, wants>>

\* The digest of the bytes received is right: the file gets its name.
Stored(q) ==
    /\ at[q] = "copy"
    /\ at' = [at EXCEPT ![q] = "serve"]
    /\ cache' = [cache EXCEPT ![wants[q]] = spool[wants[q]]]
    /\ UNCHANGED <<spool, fill, wants>>

\* ServeFile has written the file, its client is gone, or the error is sent.
Done(q) ==
    /\ at[q] \in {"serve", "missed"}
    /\ at' = [at EXCEPT ![q] = "idle"]
    /\ wants' = [wants EXCEPT ![q] = NoOne]
    /\ Unlock(q)
    /\ UNCHANGED <<cache, spool>>

-----------------------------------------------------------------------------
\* The surroundings

\* The process is gone, and every request with it.
Stopped ==
    /\ at' = [q \in Requests |-> "idle"]
    /\ wants' = [q \in Requests |-> NoOne]
    /\ fill' = NoOne

\* The process is restarted: files stay.
RelayRestart ==
    /\ Stopped
    /\ UNCHANGED <<cache, spool>>

\* The board loses power: a file whose bytes or name were not written back yet is
\* gone or damaged.
RelayPowerLoss ==
    /\ Stopped
    /\ \E lost \in [Artifacts -> {"none", "damaged", "kept"}] :
          cache' = [a \in Artifacts |->
                       IF cache[a] = "right" /\ lost[a] # "kept" THEN lost[a] ELSE cache[a]]
    /\ UNCHANGED spool

\* The operator removes a file.
Remove(a) ==
    /\ cache' = [cache EXCEPT ![a] = "none"]
    /\ UNCHANGED <<spool, fill, at, wants>>

-----------------------------------------------------------------------------
Handler(q) ==
    \/ \E a \in Artifacts : Get(q, a)
    \/ Lock(q) \/ OriginFails(q) \/ OriginAnswers(q)
    \/ StoreFails(q) \/ Stored(q) \/ Done(q)

RelayNext ==
    \/ \E q \in Requests : Handler(q)
    \/ RelayRestart \/ RelayPowerLoss
    \/ \E a \in Artifacts : Remove(a)

RelaySpec == RelayInit /\ [][RelayNext]_relayVars

-----------------------------------------------------------------------------
\* The origin is read for an artifact only while the relay does not have it, and
\* by one request at a time, however many arrive together: the site reads each
\* artifact once.
OneUpstreamRead ==
    \A q, r \in Requests :
        at[q] = "copy" => ~Cached(q) /\ (at[r] = "copy" => r = q)

\* A file in the cache has the bytes its name promises, whatever origins send and
\* wherever the process stops; only a power loss can damage it.
CacheIsRight == \A a \in Artifacts : cache[a] # "wrong"
=============================================================================
