----------------------------- MODULE SiteProofs -----------------------------
(***************************************************************************)
(* Proofs about the agent that fetches an artifact (Download), the relay   *)
(* of its site (SiteRelay) and the two together (Site), for every artifact *)
(* size and any number of requests, artifacts and peers.                   *)
(*                                                                         *)
(* That a complete artifact stays in the cache does not follow from the    *)
(* single steps: Resume removes the cached file.  It needs the fact that   *)
(* every call that goes on to the relay or to the URL has seen the cached  *)
(* file fail its check, and that nothing repairs the file in the meantime  *)
(* (RemoteIsNeeded).                                                       *)
(*                                                                         *)
(* Every step of Site is a step of Download or leaves the agent as it is,  *)
(* and is a step of SiteRelay or leaves the relay as it is.  The theorems  *)
(* about the parts, which do not use SiteAssumption, are then theorems     *)
(* about the site.                                                         *)
(***************************************************************************)
EXTENDS Site, TLAPS

-----------------------------------------------------------------------------
\* The agent

Remote == {"relay", "relayBody", "origin", "request", "body"}

\* A call that talks to a remote source does so without a complete cached file.
RemoteIsNeeded == pc \in Remote => final # Complete

Inv ==
    /\ pc \in Remote \cup {"idle", "stage"}
    /\ result = "ok" => pc = "idle"
    /\ OkIsRight
    /\ RemoteIsNeeded

\* A device without a cache satisfies the invariant.
LEMMA InitInv == Init => Inv
BY DEF Init, Inv, OkIsRight, RemoteIsNeeded, Remote

\* Local media and the cache: a call succeeds on a checked file only, and goes on
\* to a remote source only without one.
LEMMA LocalInv ==
    ASSUME Inv, FetchRefused \/ FetchCached \/ FetchLocal \/ FetchRemote
                \/ StageByte \/ StageEnd
    PROVE  Inv'
BY DEF Inv, OkIsRight, RemoteIsNeeded, Remote, FetchRefused, FetchCached, FetchLocal,
   FetchRemote, StageByte, StageEnd, Calling, Return, CheckArtifact

\* The relay: only a checked body becomes the cached file.
LEMMA RelayFetchInv ==
    ASSUME Inv, RelayMiss \/ RelayRefused \/ RelayHit \/ RelayByte \/ RelayEnd
    PROVE  Inv'
BY DEF Inv, OkIsRight, RemoteIsNeeded, Remote, RelayMiss, RelayRefused, RelayHit,
   RelayByte, RelayEnd, Return, CheckArtifact

\* The signed URL: only a checked partial file becomes the cached file.
LEMMA OriginInv ==
    ASSUME Inv, ResumeFails \/ ResumeFull \/ Resume \/ RequestFails \/ Answer \/ BodyByte
                \/ BodyCut \/ BodyEnd
    PROVE  Inv'
<1>1. Empty # Complete
  BY DownloadAssumption DEF Empty, Complete
<1> QED
  BY <1>1 DEF Inv, OkIsRight, RemoteIsNeeded, Remote, ResumeFails, ResumeFull, Resume,
     RequestFails, Answer, BodyByte, BodyCut, BodyEnd, Finish, Return, CheckArtifact

\* Crashes, the media and the cleanup preserve it too.
LEMMA SurroundingsInv ==
    ASSUME Inv, Crash \/ ChangeMedia \/ GC \/ Settle
    PROVE  Inv'
BY DEF Inv, OkIsRight, RemoteIsNeeded, Remote, Crash, ChangeMedia, GC, Settle, Return

\* Every step preserves the invariant.
LEMMA NextInv == Inv /\ [Next]_vars => Inv'
<1> SUFFICES ASSUME Inv, [Next]_vars PROVE Inv'
  OBVIOUS
<1>1. CASE Fetch
  BY <1>1, LocalInv, RelayFetchInv, OriginInv DEF Fetch
<1>2. CASE Crash \/ ChangeMedia \/ GC \/ Settle
  BY <1>2, SurroundingsInv
<1>3. CASE UNCHANGED vars
  BY <1>3 DEF vars, Inv, OkIsRight, RemoteIsNeeded
<1> QED
  BY <1>1, <1>2, <1>3 DEF Next

\* fetch succeeds only with the signed artifact in the cache, for every size of
\* the artifact and whatever the sources and the crashes do.
THEOREM FetchChecked == Spec => []OkIsRight
<1>1. Inv => OkIsRight
  BY DEF Inv
<1> QED
  BY <1>1, InitInv, NextInv, PTL DEF Spec

\* A complete artifact leaves the cache by a cleanup only.
THEOREM CacheKept == Spec => CompleteStays
<1> DEFINE Kept == pc # "stage" /\ final = Complete => final' = Complete \/ GC
<1>1. Inv /\ [Next]_vars => [Kept]_vars
  <2> SUFFICES ASSUME Inv, Next, pc # "stage", final = Complete
               PROVE  final' = Complete \/ GC
    OBVIOUS
  <2>1. CASE Fetch
    <3>1. pc = "idle"
      BY DEF Inv, RemoteIsNeeded
    <3> QED
      BY <2>1, <3>1 DEF Fetch, FetchRefused, FetchCached, FetchLocal, FetchRemote,
         StageByte, StageEnd, RelayMiss, RelayRefused, RelayHit, RelayByte, RelayEnd,
         ResumeFails, ResumeFull, Resume, RequestFails, Answer, BodyByte, BodyCut,
         BodyEnd, CheckArtifact
  <2>2. CASE Crash
    BY <2>2 DEF Crash
  <2>3. CASE ChangeMedia \/ Settle
    BY <2>3 DEF ChangeMedia, Settle
  <2> QED
    BY <2>1, <2>2, <2>3 DEF Next
<1> QED
  BY <1>1, InitInv, NextInv, PTL DEF Spec, CompleteStays

\* A file with one more byte is a file.
LEMMA LongerIsFile ==
    ASSUME NEW f \in File, f.len <= Size, settled \in BOOLEAN
    PROVE  Longer(f) \subseteq File
<1>1. Size \in Nat /\ f.len \in 0..(Size + 1) /\ f.right \in BOOLEAN
  BY DownloadAssumption DEF File
<1>2. ASSUME NEW ok \in BOOLEAN
      PROVE  [len |-> f.len + 1, right |-> f.right /\ ok] \in File
  <2>1. f.len + 1 \in 0..(Size + 1) /\ f.len + 1 # 0
    BY <1>1
  <2>2. (f.right /\ ok) \in BOOLEAN
    OBVIOUS
  <2> QED
    BY <2>1, <2>2 DEF File
<1> QED
  BY <1>2 DEF Longer

\* The files, the place fetch has reached and what it returned stay what they are;
\* no file grows beyond the artifact by more than the one byte that shows it too long.
THEOREM DownloadTypes == Spec => []TypeOK
<1>1. Empty \in File
  BY DownloadAssumption DEF Empty, File
<1>2. Init => TypeOK
  BY <1>1 DEF Init, TypeOK
<1>3. TypeOK /\ [Next]_vars => TypeOK'
  <2> SUFFICES ASSUME TypeOK, [Next]_vars PROVE TypeOK'
    OBVIOUS
  <2>1. Size \in Nat /\ final.len \in Nat /\ part.len \in Nat
    BY DownloadAssumption DEF TypeOK, File
  <2>2. CASE FetchRefused \/ FetchCached \/ FetchLocal \/ FetchRemote \/ StageEnd
    BY <1>1, <2>2 DEF TypeOK, FetchRefused, FetchCached, FetchLocal, FetchRemote,
       StageEnd, Return
  <2>3. CASE StageByte \/ RelayByte \/ BodyByte
    <3>1. \/ final' \in File /\ UNCHANGED part
          \/ part' \in File /\ UNCHANGED final
      BY <2>1, <2>3, LongerIsFile DEF TypeOK, StageByte, RelayByte, BodyByte
    <3> QED
      BY <2>3, <3>1 DEF TypeOK, StageByte, RelayByte, BodyByte
  <2>4. CASE RelayMiss \/ RelayRefused \/ RelayHit \/ RelayEnd
    BY <1>1, <2>4 DEF TypeOK, RelayMiss, RelayRefused, RelayHit, RelayEnd, Return
  <2>5. CASE ResumeFails \/ ResumeFull \/ Resume \/ RequestFails \/ Answer \/ BodyCut
             \/ BodyEnd
    BY <1>1, <2>5 DEF TypeOK, ResumeFails, ResumeFull, Resume, RequestFails, Answer,
       BodyCut, BodyEnd, Finish, Return
  <2>6. CASE Crash
    <3>1. final' \in File /\ part' \in File
      BY <2>6 DEF Crash, Torn, TypeOK
    <3> QED
      BY <2>6, <3>1 DEF TypeOK, Crash, Return
  <2>7. CASE ChangeMedia \/ GC \/ Settle \/ UNCHANGED vars
    BY <1>1, <2>7 DEF TypeOK, ChangeMedia, GC, Settle, vars
  <2> QED
    BY <2>2, <2>3, <2>4, <2>5, <2>6, <2>7 DEF Next, Fetch
<1> QED
  BY <1>2, <1>3, PTL DEF Spec

-----------------------------------------------------------------------------
\* The relay

\* A request between its second look at the cache and the rename holds the lock,
\* and the artifact is not in the cache.
Filling(q) == at[q] \in {"origin", "copy"}

\* The inductive invariant: the lock keeps the .part file to one writer and the
\* second look true until the rename.
RelayInv ==
    /\ RelayTypeOK
    /\ \A q \in Requests : Filling(q) => fill = q /\ cache[wants[q]] = "none"
    /\ \A a \in Artifacts : spool[a] = "right" /\ cache[a] # "wrong"

\* The empty cache satisfies the invariant.
LEMMA RelayInvInit == RelayInit => RelayInv
BY RelayAssumption DEF RelayInit, RelayInv, RelayTypeOK, Filling

\* Every step of a handler keeps the invariant.
LEMMA HandlerKeeps ==
    ASSUME RelayInv, NEW q \in Requests, Handler(q)
    PROVE  RelayInv'
<1> USE RelayAssumption DEF RelayInv, RelayTypeOK, Filling
<1>1. ASSUME NEW a \in Artifacts, Get(q, a) PROVE RelayInv'
  BY <1>1 DEF Get
<1>2. CASE Lock(q)
  BY <1>2 DEF Lock, Cached
<1>3. CASE OriginFails(q)
  BY <1>3 DEF OriginFails, Miss, Unlock
<1>4. CASE OriginAnswers(q)
  <2>1. ~\E r \in Requests : at[r] = "copy" /\ wants[r] = wants[q]
    BY <1>4 DEF OriginAnswers
  <2> QED
    BY <1>4, <2>1 DEF OriginAnswers
<1>5. CASE StoreFails(q)
  BY <1>5 DEF StoreFails, Miss, Unlock
<1>6. CASE Stored(q)
  <2>1. \A r \in Requests : r # q => ~Filling(r)
    BY <1>6 DEF Stored
  <2> QED
    BY <1>6, <2>1 DEF Stored
<1>7. CASE Done(q)
  BY <1>7 DEF Done, Unlock
<1> QED
  BY <1>1, <1>2, <1>3, <1>4, <1>5, <1>6, <1>7 DEF Handler

\* Restarts, power losses and the operator keep the invariant.
LEMMA SurroundingsKeep ==
    ASSUME RelayInv,
           RelayRestart \/ RelayPowerLoss \/ \E a \in Artifacts : Remove(a)
    PROVE  RelayInv'
<1> USE RelayAssumption DEF RelayInv, RelayTypeOK, Filling
<1>1. CASE RelayRestart
  BY <1>1 DEF RelayRestart, Stopped
<1>2. CASE RelayPowerLoss
  BY <1>2 DEF RelayPowerLoss, Stopped
<1>3. ASSUME NEW a \in Artifacts, Remove(a) PROVE RelayInv'
  BY <1>3 DEF Remove
<1> QED
  BY <1>1, <1>2, <1>3

\* RelayInv is an invariant of the relay.
THEOREM RelayInvariant == RelaySpec => []RelayInv
<1>1. RelayInv /\ [RelayNext]_relayVars => RelayInv'
  <2> SUFFICES ASSUME RelayInv, [RelayNext]_relayVars PROVE RelayInv'
    OBVIOUS
  <2>1. CASE UNCHANGED relayVars
    BY <2>1 DEF relayVars, RelayInv, RelayTypeOK, Filling
  <2>2. CASE RelayNext
    BY <2>2, HandlerKeeps, SurroundingsKeep DEF RelayNext
  <2> QED
    BY <2>1, <2>2
<1> QED
  BY <1>1, RelayInvInit, PTL DEF RelaySpec

\* The origin is read for an artifact by one request at a time, and only while the
\* relay does not have it (get and the lock fill).
THEOREM UpstreamReadOnce == RelaySpec => []OneUpstreamRead
<1>1. RelayInv => OneUpstreamRead
  BY RelayAssumption DEF RelayInv, Filling, OneUpstreamRead, Cached
<1> QED
  BY <1>1, RelayInvariant, PTL

\* No request, restart or failing origin puts a file under a digest it does not
\* have (store).
THEOREM CacheStaysRight == RelaySpec => []CacheIsRight
<1>1. RelayInv => CacheIsRight
  BY DEF RelayInv, CacheIsRight
<1> QED
  BY <1>1, RelayInvariant, PTL

-----------------------------------------------------------------------------
\* The site

\* What the agent waits for is a request.
MineIsOpen == mine \in Requests \cup {NoOne}

\* What it is sent is a file of the relay.
BodyIsFile == body \in {"none", "right", "wrong", "damaged"}

\* The agent's steps are those of fetch, of its crashes and of its surroundings.
LEMMA AgentPart == ASSUME SiteNext PROVE [Next]_vars
<1>1. CASE Agent
  <2>1. Next \/ UNCHANGED vars
    BY <1>1 DEF Agent, AgentAsks, AgentMisses, AgentRefused, AgentHits, AgentReceives,
       AgentEnds, AgentElsewhere, Next, Fetch
  <2> QED
    BY <2>1
<1>2. CASE AgentCrashes \/ AgentSurroundings \/ SiteSettles
  BY <1>2 DEF AgentCrashes, AgentSurroundings, SiteSettles, Next
<1>3. CASE RelayServes \/ RelayStops \/ OperatorRemoves
  BY <1>3 DEF RelayServes, RelayStops, OperatorRemoves
<1> QED
  BY <1>1, <1>2, <1>3 DEF SiteNext

\* The relay's steps are those of its handlers and of its surroundings.
LEMMA RelayPart == ASSUME MineIsOpen, SiteNext PROVE [RelayNext]_relayVars
<1>1. CASE AgentAsks
  BY <1>1, SiteAssumption DEF AgentAsks, RelayNext, Handler
<1>2. CASE AgentMisses \/ AgentRefused \/ AgentEnds
  <2>1. (mine # NoOne /\ Done(mine)) \/ UNCHANGED relayVars
    BY <1>2 DEF AgentMisses, AgentRefused, AgentEnds
  <2>2. mine \in Requests \cup {NoOne}
    BY DEF MineIsOpen
  <2> QED
    BY <2>1, <2>2 DEF RelayNext, Handler
<1>3. CASE \/ AgentHits \/ AgentReceives \/ AgentElsewhere
           \/ AgentCrashes \/ AgentSurroundings \/ SiteSettles
  BY <1>3 DEF AgentHits, AgentReceives, AgentElsewhere, AgentCrashes,
     AgentSurroundings, SiteSettles
<1>4. CASE RelayServes \/ RelayStops \/ OperatorRemoves
  BY <1>4 DEF RelayServes, RelayStops, OperatorRemoves, RelayNext, Handler
<1> QED
  BY <1>1, <1>2, <1>3, <1>4 DEF SiteNext, Agent

\* Every step keeps it so.
LEMMA MineKept == MineIsOpen /\ [SiteNext]_siteVars => MineIsOpen'
<1> SUFFICES ASSUME MineIsOpen, [SiteNext]_siteVars PROVE MineIsOpen'
  OBVIOUS
<1>1. CASE AgentAsks
  BY <1>1 DEF AgentAsks, MineIsOpen
<1>2. CASE AgentMisses \/ AgentRefused \/ AgentEnds \/ AgentCrashes \/ RelayStops
  BY <1>2 DEF AgentMisses, AgentRefused, AgentEnds, AgentCrashes, RelayStops, Hangup,
     MineIsOpen
<1>3. CASE \/ AgentHits \/ AgentReceives \/ AgentElsewhere
           \/ AgentSurroundings \/ SiteSettles \/ RelayServes \/ OperatorRemoves
           \/ UNCHANGED siteVars
  BY <1>3 DEF AgentHits, AgentReceives, AgentElsewhere, AgentSurroundings, SiteSettles,
     RelayServes, OperatorRemoves, siteVars, MineIsOpen
<1> QED
  BY <1>1, <1>2, <1>3 DEF SiteNext, Agent

\* The behaviours of a site are behaviours of its parts.
LEMMA SiteKeepsParts == SiteSpec => Spec /\ RelaySpec
<1>1. SiteInit => Init /\ RelayInit /\ MineIsOpen
  BY DEF SiteInit, MineIsOpen
<1>2. MineIsOpen /\ [SiteNext]_siteVars => [Next]_vars /\ [RelayNext]_relayVars
  BY AgentPart, RelayPart DEF siteVars
<1> QED
  BY <1>1, <1>2, MineKept, PTL DEF SiteSpec, Spec, RelaySpec

\* At a site with any number of peers, restarts and power losses, fetch succeeds only
\* with the signed artifact, a complete one stays in the cache, and each artifact is
\* read from its origin by one request of the relay at a time.
THEOREM SiteIsSafe ==
    SiteSpec => /\ []OkIsRight /\ CompleteStays
                /\ []OneUpstreamRead /\ []CacheIsRight
BY SiteKeepsParts, FetchChecked, CacheKept, UpstreamReadOnce, CacheStaysRight, PTL

\* Every state of a site is one of its agent, of its relay and of the connection
\* between them, which is a request the relay knows and a file it has or had.
THEOREM SiteTypes == SiteSpec => []SiteTypeOK
<1>1. SiteInit => MineIsOpen /\ BodyIsFile
  BY DEF SiteInit, MineIsOpen, BodyIsFile
<1>2. RelayTypeOK /\ BodyIsFile /\ [SiteNext]_siteVars => BodyIsFile'
  <2> SUFFICES ASSUME RelayTypeOK, BodyIsFile, [SiteNext]_siteVars PROVE BodyIsFile'
    OBVIOUS
  <2>1. CASE AgentHits
    BY <2>1, SiteAssumption DEF AgentHits, BodyIsFile, RelayTypeOK
  <2>2. CASE \/ AgentAsks \/ AgentMisses \/ AgentRefused \/ AgentReceives \/ AgentEnds
             \/ AgentElsewhere \/ AgentCrashes \/ AgentSurroundings \/ SiteSettles
    BY <2>2 DEF AgentAsks, AgentMisses, AgentRefused, AgentReceives, AgentEnds,
       AgentElsewhere, AgentCrashes, AgentSurroundings, SiteSettles, Hangup, BodyIsFile
  <2>3. CASE RelayServes \/ RelayStops \/ OperatorRemoves \/ UNCHANGED siteVars
    BY <2>3 DEF RelayServes, RelayStops, OperatorRemoves, siteVars, BodyIsFile
  <2> QED
    BY <2>1, <2>2, <2>3 DEF SiteNext, Agent
<1>3. RelayInv => RelayTypeOK
  BY DEF RelayInv
<1>4. TypeOK /\ RelayTypeOK /\ MineIsOpen /\ BodyIsFile => SiteTypeOK
  BY DEF SiteTypeOK, MineIsOpen, BodyIsFile
<1> QED
  BY <1>1, <1>2, <1>3, <1>4, MineKept, SiteKeepsParts, DownloadTypes, RelayInvariant, PTL
     DEF SiteSpec
=============================================================================
