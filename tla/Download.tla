------------------------------ MODULE Download ------------------------------
(***************************************************************************)
(* Fetching one artifact into the cache (internal/ota/download.go): local  *)
(* media first, then the cache, the site relay and the signed URL, with a  *)
(* partial file that a later call resumes.  The engine calls fetch again   *)
(* and again until it succeeds, and after that too when another artifact   *)
(* of the release has failed.                                              *)
(*                                                                         *)
(* A file is its length and whether every byte of it is the byte the       *)
(* signed artifact has at that place; that is all the size and digest      *)
(* check tells apart.  A missing file and an empty one behave alike and    *)
(* are one value.  Sources may send wrong bytes, too few or too many.  A   *)
(* crash loses bytes that were not synced; a rename is taken as durable.   *)
(* URL policy, redirects and the bandwidth cap are left out.               *)
(***************************************************************************)
EXTENDS Naturals

CONSTANTS Size,   \* Artifact.Size
          Relay   \* Config.RelayURL is set

ASSUME DownloadAssumption == Size \in Nat \ {0} /\ Relay \in BOOLEAN

VARIABLES
    scheme,   \* the scheme of Artifact.URL
    media,    \* the file in Config.LocalMediaDir
    final,    \* cache/<sha256>.raucb
    part,     \* cache/<sha256>.raucb.part
    pc,       \* the point fetch has reached
    result,   \* what the last call returned
    settled   \* from now on the network, the media and the power are no trouble

vars == <<scheme, media, final, part, pc, result, settled>>

File == {f \in [len : 0..(Size + 1), right : BOOLEAN] : f.len = 0 => f.right}

Empty == [len |-> 0, right |-> TRUE]

Complete == [len |-> Size, right |-> TRUE]

\* CheckArtifact
CheckArtifact(f) == f = Complete

\* One more byte arrives; a source that is no trouble sends the right one.
Longer(f) ==
    {[len |-> f.len + 1, right |-> f.right /\ ok] :
        ok \in IF settled THEN {TRUE} ELSE BOOLEAN}

TypeOK ==
    /\ scheme \in {"https", "file"}
    /\ media \in {"missing", "match", "mismatch"}
    /\ final \in File
    /\ part \in File
    /\ pc \in {"idle", "stage", "relay", "relayBody", "origin", "request", "body"}
    /\ result \in {"none", "ok", "error"}
    /\ settled \in BOOLEAN

Init ==
    /\ scheme \in {"https", "file"}
    /\ media \in {"missing", "match", "mismatch"}
    /\ final = Empty /\ part = Empty
    /\ pc = "idle" /\ result = "none"
    /\ settled = FALSE

Return(r) == pc' = "idle" /\ result' = r

\* fetchAll calls fetch again until every artifact of the release has been fetched.
Calling == pc = "idle"

-----------------------------------------------------------------------------
\* Local media and the cache

\* The media file does not match, or the URL names a file that is not there.
FetchRefused ==
    /\ Calling
    /\ media = "mismatch" \/ (media = "missing" /\ scheme = "file")
    /\ Return("error")
    /\ UNCHANGED <<scheme, media, final, part, settled>>

FetchCached ==
    /\ Calling
    /\ media = "match" \/ (media = "missing" /\ scheme = "https")
    /\ CheckArtifact(final)
    /\ Return("ok")
    /\ UNCHANGED <<scheme, media, final, part, settled>>

\* Seeded fault: the cached copy is overwritten without a look at it.
StagesAlways ==
    /\ Calling
    /\ media = "match"
    /\ final' = Empty
    /\ pc' = "stage"
    /\ UNCHANGED <<scheme, media, part, result, settled>>

\* stageLocal: copyFile truncates the cached file and copies the media over it.
FetchLocal ==
    /\ Calling
    /\ media = "match"
    /\ ~CheckArtifact(final)
    /\ final' = Empty
    /\ pc' = "stage"
    /\ UNCHANGED <<scheme, media, part, result, settled>>

StageByte ==
    /\ pc = "stage"
    /\ final.len < Size
    /\ final' \in Longer(final)
    /\ UNCHANGED <<scheme, media, part, pc, result, settled>>

\* The copy ends, early if the media fails, and is checked once more.
StageEnd ==
    /\ pc = "stage"
    /\ final.len = Size \/ ~settled
    /\ Return(IF CheckArtifact(final) THEN "ok" ELSE "error")
    /\ UNCHANGED <<scheme, media, final, part, settled>>

-----------------------------------------------------------------------------
\* The site relay

\* Neither the media nor the cache has the artifact.
FetchRemote ==
    /\ Calling
    /\ media = "missing" /\ scheme = "https"
    /\ ~CheckArtifact(final)
    /\ pc' = IF Relay THEN "relay" ELSE "origin"
    /\ UNCHANGED <<scheme, media, final, part, result, settled>>

\* Seeded fault: a miss ends the call.
MissIsError ==
    /\ pc = "relay"
    /\ Return("error")
    /\ UNCHANGED <<scheme, media, final, part, settled>>

\* No connection, or a status other than success and refusal: on to the URL.
RelayMiss ==
    /\ pc = "relay"
    /\ pc' = "origin"
    /\ UNCHANGED <<scheme, media, final, part, result, settled>>

\* The token cannot be read, the relay refuses it, or the partial file cannot be
\* opened.
RelayRefused ==
    /\ pc = "relay" /\ ~settled
    /\ Return("error")
    /\ UNCHANGED <<scheme, media, final, part, settled>>

\* The relay has the artifact: the partial file is truncated.
RelayHit ==
    /\ pc = "relay"
    /\ part' = Empty
    /\ pc' = "relayBody"
    /\ UNCHANGED <<scheme, media, final, result, settled>>

RelayByte ==
    /\ pc = "relayBody"
    /\ part.len < Size \/ (part.len = Size /\ ~settled)
    /\ part' \in Longer(part)
    /\ UNCHANGED <<scheme, media, final, pc, result, settled>>

\* The body ends.  Anything but the artifact is removed, as is an artifact that
\* cannot be renamed, and the URL is not tried.
RelayEnd ==
    /\ pc = "relayBody"
    /\ part.len >= Size \/ ~settled
    /\ part' = Empty
    /\ \/ CheckArtifact(part) /\ final' = part /\ Return("ok")
       \/ (CheckArtifact(part) => ~settled) /\ Return("error") /\ UNCHANGED final
    /\ UNCHANGED <<scheme, media, settled>>

-----------------------------------------------------------------------------
\* The signed URL

\* finishDownload, after the cached file that did not match has been removed.  The
\* file or the directory may fail to sync, before or after the rename.
Finish ==
    \/ /\ final' = part
       /\ part' = Empty
       /\ Return("ok") \/ (~settled /\ Return("error"))
    \/ ~settled /\ Return("error") /\ final' = Empty /\ UNCHANGED part

\* The cached file cannot be removed, or the partial file not be opened or truncated.
ResumeFails ==
    /\ pc = "origin" /\ ~settled
    /\ final' \in {final, Empty}
    /\ Return("error")
    /\ UNCHANGED <<scheme, media, part, settled>>

\* The partial file turns out to be the whole artifact.
ResumeFull ==
    /\ pc = "origin"
    /\ CheckArtifact(part)
    /\ Finish
    /\ UNCHANGED <<scheme, media, settled>>

\* The cached file, which did not match, is removed; a partial file that is too
\* long or wrong is truncated; the space that is left may not suffice.
Resume ==
    /\ pc = "origin"
    /\ ~CheckArtifact(part)
    /\ final' = Empty
    /\ part' = IF part.len >= Size THEN Empty ELSE part
    /\ \/ pc' = "request" /\ UNCHANGED result
       \/ ~settled /\ Return("error")
    /\ UNCHANGED <<scheme, media, settled>>

\* No answer, an error status, or a Content-Range that was not asked for.
RequestFails ==
    /\ pc = "request" /\ ~settled
    /\ Return("error")
    /\ UNCHANGED <<scheme, media, final, part, settled>>

\* 200 starts again from the first byte, 206 goes on where the file ends.
Answer ==
    /\ pc = "request"
    /\ part' \in {Empty, part}
    /\ pc' = "body"
    /\ UNCHANGED <<scheme, media, final, result, settled>>

\* Seeded fault: the body is read to its end, however long it is.
Unlimited ==
    /\ pc = "body"
    /\ part.len < Size \/ ~settled
    /\ part' \in Longer(part)
    /\ UNCHANGED <<scheme, media, final, pc, result, settled>>

\* At most one byte more than the artifact has is read.
BodyByte ==
    /\ pc = "body"
    /\ part.len < Size \/ (part.len = Size /\ ~settled)
    /\ part' \in Longer(part)
    /\ UNCHANGED <<scheme, media, final, pc, result, settled>>

\* Seeded fault: a partial file is not kept.
CutDropsPart ==
    /\ pc = "body" /\ ~settled
    /\ part.len <= Size
    /\ part' = Empty
    /\ Return("error")
    /\ UNCHANGED <<scheme, media, final, settled>>

\* The transfer is cut off or ends early: the partial file stays.
BodyCut ==
    /\ pc = "body" /\ ~settled
    /\ part.len <= Size
    /\ Return("error")
    /\ UNCHANGED <<scheme, media, final, part, settled>>

\* Seeded fault: a body of the right length is taken as it is.
BodyUnchecked ==
    /\ pc = "body"
    /\ part.len >= Size
    /\ IF part.len = Size
       THEN Finish
       ELSE part' = Empty /\ Return("error") /\ UNCHANGED final
    /\ UNCHANGED <<scheme, media, settled>>

\* The whole body has arrived: it becomes the cached file, or it is too long or
\* wrong and the partial file is truncated.
BodyEnd ==
    /\ pc = "body"
    /\ part.len >= Size
    /\ IF CheckArtifact(part)
       THEN Finish
       ELSE part' = Empty /\ Return("error") /\ UNCHANGED final
    /\ UNCHANGED <<scheme, media, settled>>

-----------------------------------------------------------------------------
\* The surroundings

\* What a crash may leave of a file that was being written.
Torn(f) == {g \in File : g.len < f.len \/ (g.len = f.len /\ (g.right => f.right))}

Crash ==
    /\ pc # "idle" /\ ~settled
    /\ final' \in IF pc = "stage" THEN Torn(final) ELSE {final}
    /\ part' \in IF pc \in {"body", "relayBody"} THEN Torn(part) ELSE {part}
    /\ Return("none")
    /\ UNCHANGED <<scheme, media, settled>>

\* The operator changes the media.  CopyToMedia writes the file in place, so that it
\* does not match from the start of the copy to its end, or for good if it breaks off.
ChangeMedia ==
    /\ ~settled
    /\ media' \in {"missing", "match", "mismatch"}
    /\ UNCHANGED <<scheme, final, part, pc, result, settled>>

\* The job is over, the cache is cleaned, and the artifact is wanted again.
GC ==
    /\ pc = "idle" /\ result = "ok"
    /\ final' = Empty /\ part' = Empty
    /\ result' = "none"
    /\ UNCHANGED <<scheme, media, pc, settled>>

Settle ==
    /\ ~settled
    /\ media = "match" \/ (media = "missing" /\ scheme = "https")
    /\ settled' = TRUE
    /\ UNCHANGED <<scheme, media, final, part, pc, result>>

-----------------------------------------------------------------------------
Fetch ==
    \/ FetchRefused \/ FetchCached \/ FetchLocal \/ FetchRemote
    \/ StageByte \/ StageEnd
    \/ RelayMiss \/ RelayRefused \/ RelayHit \/ RelayByte \/ RelayEnd
    \/ ResumeFails \/ ResumeFull \/ Resume \/ RequestFails \/ Answer \/ BodyByte \/ BodyCut \/ BodyEnd

Next == Fetch \/ Crash \/ ChangeMedia \/ GC \/ Settle

Spec == Init /\ [][Next]_vars

\* The update loop calls Step, and with it fetch, every second.
FairSpec == Spec /\ WF_vars(Fetch)

-----------------------------------------------------------------------------
\* fetch returns without an error only when the cached file is the signed artifact,
\* whatever the sources sent and whatever crashes left in the cache.
OkIsRight == pc = "idle" /\ result = "ok" => final = Complete

\* Nothing but a cleanup takes a complete artifact out of the cache, once it is
\* written: a further call, from whichever source, neither removes nor rewrites
\* it, and no crash damages it.
CompleteStays == [][pc # "stage" /\ final = Complete => final' = Complete \/ GC]_vars

\* A byte arrives from the URL.
ByteArrives == pc = "body" /\ part'.len = part.len + 1

\* Transfers may be cut off, requests fail and the space run out, but nothing takes
\* away what has arrived: no crash, no relay that starts from the first byte, no 200
\* in the place of a 206, no wrong byte and none too many.  A file that is complete
\* can be given its name.
OnlyCutOffs ==
    /\ part.right => part'.right
    /\ pc \in {"relay", "request"} \/ Crash => part' = part
    /\ part'.len <= Size
    /\ pc = "origin" /\ CheckArtifact(part) => result' = "ok"

\* A download whose transfers are all cut off succeeds if bytes keep arriving, however
\* few in each: a call resumes where the one before was cut off, and checks what is
\* whole without asking for more.
CutOffsDoNotMatter ==
    <>[][OnlyCutOffs]_vars /\ []<><<ByteArrives>>_vars => []<>(result = "ok")

\* No state of the cache keeps a download from succeeding once the sources serve
\* the artifact: neither a torn cached file nor a partial file that is wrong or
\* too long, and a relay that has nothing does not stand in the way.
FetchSucceeds == settled ~> result = "ok"
=============================================================================
