-------------------------------- MODULE Site --------------------------------
(***************************************************************************)
(* An agent that fetches an artifact (Download) and the relay of its site  *)
(* (SiteRelay), which other peers use at the same time.                    *)
(*                                                                         *)
(* What Download leaves open about the relay is what the relay does here:  *)
(* the body the agent receives is the file the relay serves.  Every client *)
(* has a limit of 30 minutes on a request, body included; the relay has    *)
(* none on a client, and a handler whose client has gone runs on to its    *)
(* next write.  The relay holds its lock while it serves, so one peer that *)
(* does not read keeps every miss waiting: nothing here assumes that a     *)
(* request of another peer ever ends.                                      *)
(***************************************************************************)
EXTENDS Download, SiteRelay

CONSTANT Digest   \* the artifact the agent fetches

ASSUME SiteAssumption == Digest \in Artifacts /\ Relay

VARIABLES
    mine,   \* the request the agent waits for, or NoOne
    body    \* the file the agent is being sent

siteVars == <<vars, relayVars, mine, body>>

SiteTypeOK ==
    /\ TypeOK /\ RelayTypeOK
    /\ mine \in Requests \cup {NoOne}
    /\ body \in {"none", "right", "wrong", "damaged"}

SiteInit == Init /\ RelayInit /\ mine = NoOne /\ body = "none"

Hangup == mine' = NoOne /\ body' = "none"

-----------------------------------------------------------------------------
\* The agent

\* fetchFromRelay sends its request.
AgentAsks ==
    /\ pc = "relay" /\ mine = NoOne
    /\ \E q \in Requests : Get(q, Digest) /\ mine' = q
    /\ UNCHANGED <<vars, body>>

\* No connection, the 30 minutes are over, or the relay's error: its handler goes
\* on, or is done.
AgentMisses ==
    /\ RelayMiss
    /\ IF mine # NoOne /\ at[mine] = "missed" THEN Done(mine) ELSE UNCHANGED relayVars
    /\ Hangup

\* Before there is a request or, when the partial file cannot be opened, with the
\* relay's answer in hand.
AgentRefused ==
    /\ RelayRefused
    /\ IF mine = NoOne
       THEN UNCHANGED relayVars
       ELSE at[mine] = "serve" /\ cache[Digest] # "none" /\ Done(mine)
    /\ Hangup

\* The relay opens the file, if it is still there, and sends it.
AgentHits ==
    /\ RelayHit
    /\ mine # NoOne /\ at[mine] = "serve"
    /\ cache[Digest] # "none"
    /\ body' = cache[Digest]
    /\ UNCHANGED <<relayVars, mine>>

AgentReceives ==
    /\ RelayByte
    /\ part.len < Size \/ body # "right"
    /\ part'.right = (part.right /\ body = "right")
    /\ UNCHANGED <<relayVars, mine, body>>

\* The file has been sent, or the connection breaks.
AgentEnds ==
    /\ RelayEnd
    /\ IF mine # NoOne THEN Done(mine) ELSE UNCHANGED relayVars
    /\ Hangup

\* Everything the agent does without the relay.
AgentElsewhere ==
    /\ \/ FetchRefused \/ FetchCached \/ FetchLocal \/ FetchRemote
       \/ StageByte \/ StageEnd
       \/ ResumeFails \/ ResumeFull \/ Resume \/ RequestFails \/ Answer \/ BodyByte \/ BodyCut \/ BodyEnd
    /\ UNCHANGED <<relayVars, mine, body>>

Agent ==
    \/ AgentAsks \/ AgentMisses \/ AgentRefused \/ AgentHits \/ AgentReceives \/ AgentEnds
    \/ AgentElsewhere

AgentCrashes == Crash /\ Hangup /\ UNCHANGED relayVars

AgentSurroundings == (ChangeMedia \/ GC) /\ UNCHANGED <<relayVars, mine, body>>

-----------------------------------------------------------------------------
\* The relay, for the agent and the other peers

RelayServes ==
    /\ \E q \in Requests :
          \/ \E a \in Artifacts : Get(q, a)
          \/ Lock(q) \/ OriginFails(q) \/ OriginAnswers(q)
          \/ StoreFails(q) \/ Stored(q)
          \/ q # mine /\ Done(q)
    /\ UNCHANGED <<vars, mine, body>>

\* Requests that were open are cut off; the agent sees it as an error.
RelayStops ==
    /\ ~settled
    /\ RelayRestart \/ RelayPowerLoss
    /\ mine' = NoOne
    /\ UNCHANGED <<vars, body>>

OperatorRemoves == (\E a \in Artifacts : Remove(a)) /\ UNCHANGED <<vars, mine, body>>

\* From now on nothing stops, and the relay's file is not a damaged one.
SiteSettles ==
    /\ Settle
    /\ cache[Digest] # "damaged"
    /\ pc = "relayBody" => mine # NoOne /\ body = "right" /\ part.right
    /\ UNCHANGED <<relayVars, mine, body>>

-----------------------------------------------------------------------------
SiteNext ==
    \/ Agent \/ AgentCrashes \/ AgentSurroundings
    \/ RelayServes \/ RelayStops \/ OperatorRemoves
    \/ SiteSettles

SiteSpec == SiteInit /\ [][SiteNext]_siteVars

\* Only the agent's own loop is fair: see the note on the lock above.
FairSite == SiteSpec /\ WF_siteVars(Agent)
=============================================================================
