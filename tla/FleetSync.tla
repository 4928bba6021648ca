----------------------------- MODULE FleetSync -----------------------------
(***************************************************************************)
(* Event reporting and assignment polling: the outbox of the agent         *)
(* (addEvent and Ack in internal/ota/engine.go), the exchange with the     *)
(* controller (internal/ota/fleet.go) and the reference controller         *)
(* (internal/fleetref/server.go).                                          *)
(*                                                                         *)
(* A request the agent no longer waits for may still reach the controller, *)
(* after later ones.  The outbox and the sequence counters are part of the *)
(* journal, so a restart of the agent keeps them and only the exchange     *)
(* under way is lost; the reference controller keeps everything in memory, *)
(* and a restart of it loses all of that.  An operator may acknowledge     *)
(* events on the device at any time (POST /v1/events/ack, otactl ack).     *)
(* Bearer tokens and encodings are left out.                               *)
(***************************************************************************)
EXTENDS Naturals, Sequences, FiniteSets

CONSTANTS
    Kinds,          \* what an event may say: job and state
    BatchLimit,     \* events in one request
    Capacity,       \* the outbox capacity in addEvent
    MaxEvents,      \* bound on the events recorded
    MaxReleases,    \* bound on the sequence numbers of offered releases
    MaxInFlight,    \* bound on the requests in the network
    MaxRestores     \* bound on restores of the journal from a backup

ASSUME FleetAssumption ==
    /\ BatchLimit \in Nat \ {0}
    /\ Capacity \in Nat
    /\ MaxReleases \in Nat

VARIABLES
    log,       \* the kind of every event recorded: Len(log) is Database.EventSequence,
               \* the kinds themselves are history
    outbox,    \* Database.Events
    high,      \* Database.HighSequence
    waived,    \* history: the highest number acknowledged on the device itself
    backup,    \* the copy of the journal Store.Backup has made
    restores,  \* restores so far
    sync,      \* the point Fleet.sync has reached
    sent,      \* the events of the request it waits for
    reply,     \* the answer on its way to the agent
    fetched,   \* sequence of the assignment in hand, 0 for none
    network,   \* event requests on their way to the controller
    store,     \* Server.events of this device
    acked,     \* Server.acked of this device
    offered,   \* sequence of Server.assignments of this device, 0 for none
    received   \* history: every event postEvents has ever stored

agentVars == <<log, outbox, high, waived>>
backupVars == <<backup, restores>>
serverVars == <<store, acked, offered, received>>
vars == <<log, outbox, high, waived, backup, restores, sync, sent, reply, fetched,
          network, store, acked, offered, received>>

EventAt(n) == [seq |-> n, kind |-> log[n]]

NoReply == [kind |-> "none", seq |-> 0]

Events == [seq : Nat, kind : Kinds]

TypeOK ==
    /\ log \in Seq(Kinds)
    /\ outbox \subseteq Events
    /\ high \in Nat
    /\ waived \in Nat
    /\ backup \in [log : Seq(Kinds), outbox : SUBSET Events, high : Nat, waived : Nat]
    /\ restores \in Nat
    /\ sync \in {"idle", "posted", "poll", "submit"}
    /\ sent \subseteq Events
    /\ reply \in [kind : {"none", "ok", "conflict"}, seq : Nat]
    /\ fetched \in Nat
    /\ network \subseteq [batch : SUBSET Events, live : BOOLEAN]
    /\ store \subseteq Events
    /\ acked \in Nat
    /\ offered \in Nat
    /\ received \subseteq Events

Init ==
    /\ log = <<>> /\ outbox = {} /\ high = 0 /\ waived = 0
    /\ backup = [log |-> <<>>, outbox |-> {}, high |-> 0, waived |-> 0] /\ restores = 0
    /\ sync = "idle" /\ sent = {} /\ reply = NoReply /\ fetched = 0
    /\ network = {}
    /\ store = {} /\ acked = 0 /\ offered = 0 /\ received = {}

-----------------------------------------------------------------------------
\* The journal

\* Seeded fault: the event does not say what happened.
EmptyEvent(k) ==
    /\ Cardinality(outbox) < Capacity
    /\ log' = Append(log, k)
    /\ outbox' = outbox \cup {[seq |-> Len(log) + 1, kind |-> ""]}

\* addEvent, inside the transaction of a submission or of a save.
AddEvent(k) ==
    /\ Cardinality(outbox) < Capacity
    /\ log' = Append(log, k)
    /\ outbox' = outbox \cup {[seq |-> Len(log) + 1, kind |-> k]}

\* The engine saves a job.
Save(k) ==
    /\ Len(log) < MaxEvents
    /\ AddEvent(k)
    /\ UNCHANGED <<high, waived, backupVars, sync, sent, reply, fetched, network, serverVars>>

\* Engine.Ack drops every event up to n, whoever asks for it.
Ack(n) == outbox' = {e \in outbox : e.seq > n}

\* The operator acknowledges events through the local API, at any point of the
\* exchange with the controller and whatever that holds.
LocalAck(n) ==
    /\ n <= Len(log)
    /\ Ack(n)
    /\ waived' = IF n > waived THEN n ELSE waived
    /\ UNCHANGED <<log, high, backupVars, sync, sent, reply, fetched, network, serverVars>>

-----------------------------------------------------------------------------
\* Fleet.sync

\* The oldest events, at most BatchLimit of them.
FirstBatch ==
    {e \in outbox : Cardinality({f \in outbox : f.seq < e.seq}) < BatchLimit}

Post ==
    /\ sync = "idle" /\ outbox # {}
    /\ Cardinality(network) < MaxInFlight
    /\ network' = network \cup {[batch |-> FirstBatch, live |-> TRUE]}
    /\ sent' = FirstBatch
    /\ sync' = "posted"
    /\ UNCHANGED <<agentVars, backupVars, reply, fetched, serverVars>>

NothingToPost ==
    /\ sync = "idle" /\ outbox = {}
    /\ sync' = "poll"
    /\ UNCHANGED <<agentVars, backupVars, sent, reply, fetched, network, serverVars>>

\* The answer is an error, acknowledges events that were not sent, or is applied.
ReceiveReply ==
    /\ sync = "posted" /\ reply.kind # "none"
    /\ IF /\ reply.kind = "ok"
          /\ \E e \in sent : reply.seq <= e.seq
          /\ reply.seq <= Len(log)
       THEN Ack(reply.seq) /\ sync' = "poll"
       ELSE sync' = "idle" /\ UNCHANGED outbox
    /\ reply' = NoReply /\ sent' = {}
    /\ UNCHANGED <<log, high, waived, backupVars, fetched, network, serverVars>>

Poll ==
    /\ sync = "poll"
    /\ fetched' = offered
    /\ sync' = IF offered = 0 THEN "idle" ELSE "submit"
    /\ UNCHANGED <<agentVars, backupVars, sent, reply, network, serverVars>>

\* Engine.Submit as far as the sequence number decides; it may also refuse for
\* reasons of its own (module Engine), which leaves the state alone.
SubmitFetched ==
    /\ sync = "submit"
    /\ \/ /\ fetched > high
          /\ Len(log) < MaxEvents
          /\ high' = fetched
          /\ \E k \in Kinds : AddEvent(k)
          /\ UNCHANGED waived
       \/ UNCHANGED agentVars
    /\ fetched' = 0
    /\ sync' = "idle"
    /\ UNCHANGED <<backupVars, sent, reply, network, serverVars>>

\* The agent stops waiting: the request is lost, or still on its way.
Abandoned == {[r EXCEPT !.live = FALSE] : r \in network}

EndExchange ==
    /\ sync' = "idle"
    /\ sent' = {}
    /\ reply' = NoReply
    /\ fetched' = 0
    /\ network' \in {Abandoned, {r \in network : ~r.live}}
    /\ UNCHANGED serverVars

Timeout ==
    /\ sync \in {"posted", "poll"}
    /\ EndExchange
    /\ UNCHANGED <<agentVars, backupVars>>

\* The agent is restarted at any point of the exchange.
Restart ==
    /\ sync # "idle"
    /\ EndExchange
    /\ UNCHANGED <<agentVars, backupVars>>

\* Store.Backup
Backup ==
    /\ restores < MaxRestores
    /\ backup' = [log |-> log, outbox |-> outbox, high |-> high, waived |-> waived]
    /\ UNCHANGED <<agentVars, restores, sync, sent, reply, fetched, network, serverVars>>

\* The operator stops the agent and puts the copy in the place of the journal.
Restore ==
    /\ restores < MaxRestores
    /\ restores' = restores + 1
    /\ log' = backup.log /\ outbox' = backup.outbox
    /\ high' = backup.high /\ waived' = backup.waived
    /\ EndExchange
    /\ UNCHANGED backup

-----------------------------------------------------------------------------
\* The reference controller

Held(n) == \E e \in store : e.seq = n

HeldNow(n) == \E e \in store' : e.seq = n

\* Seeded fault: an event that was stored before is refused.
RefusesDuplicates(batch) == \E e \in batch, f \in store : e.seq = f.seq

\* Seeded fault: an event whose number is taken counts as a duplicate.
NeverConflicting(batch) == FALSE

Conflicting(batch) ==
    \E e \in batch, f \in store : e.seq = f.seq /\ e.kind # f.kind

\* Seeded fault: the last event of the batch is acknowledged, whatever comes before it.
AcksWhatArrived(batch) ==
    \E last \in {e.seq : e \in batch} :
        /\ \A e \in batch : e.seq <= last
        /\ acked' = last

\* The run of events after the last acknowledged one, cut at the end of the batch.
Advance(batch) ==
    \E n \in acked..(acked + Cardinality(store')), last \in {e.seq : e \in batch} :
        /\ \A k \in (acked + 1)..n : HeldNow(k)
        /\ ~HeldNow(n + 1)
        /\ \A e \in batch : e.seq <= last
        /\ acked' = IF n > last THEN last ELSE n

\* postEvents.  A batch in conflict with the store is refused after the events
\* before the conflict have been stored.
PostEvents(r) ==
    /\ r \in network
    /\ network' = network \ {r}
    /\ IF Conflicting(r.batch)
       THEN /\ store' = store \cup {e \in r.batch :
                            /\ ~Held(e.seq)
                            /\ \A f \in r.batch : f.seq < e.seq => ~Conflicting({f})}
            /\ reply' = IF r.live THEN [kind |-> "conflict", seq |-> 0] ELSE reply
            /\ UNCHANGED acked
       ELSE /\ store' = store \cup {e \in r.batch : ~Held(e.seq)}
            /\ Advance(r.batch)
            /\ reply' = IF r.live THEN [kind |-> "ok", seq |-> acked'] ELSE reply
    /\ received' = received \cup store'
    /\ UNCHANGED <<agentVars, backupVars, sync, sent, fetched, offered>>

SetAssignment(n) ==
    /\ offered' = n
    /\ UNCHANGED <<agentVars, backupVars, sync, sent, reply, fetched, network, store, acked,
                   received>>

\* A new process: New starts with empty maps.  What has been answered stays answered,
\* and a request that has not been read yet reaches the new process.
ServerRestart ==
    /\ store' = {} /\ acked' = 0 /\ offered' = 0
    /\ UNCHANGED <<agentVars, backupVars, sync, sent, reply, fetched, network, received>>

-----------------------------------------------------------------------------
Next ==
    \/ \E k \in Kinds : Save(k)
    \/ \E n \in 0..MaxEvents : LocalAck(n)
    \/ Post \/ NothingToPost \/ ReceiveReply \/ Poll \/ SubmitFetched
    \/ Timeout \/ Restart \/ Backup \/ Restore
    \/ \E r \in network : PostEvents(r)
    \/ \E n \in 0..MaxReleases : SetAssignment(n)
    \/ ServerRestart

Spec == Init /\ [][Next]_vars

\* Fleet.Sync is called again and again; a request that is sent again and again
\* is answered in time at last.  Late requests arrive in the end, so they do not
\* use up MaxInFlight for good.
FairSpec ==
    /\ Spec
    /\ WF_vars(Post) /\ WF_vars(NothingToPost) /\ WF_vars(SubmitFetched)
    /\ SF_vars(\E r \in network : r.live /\ PostEvents(r))
    /\ WF_vars(\E r \in network : ~r.live /\ PostEvents(r))
    /\ SF_vars(ReceiveReply)
    /\ SF_vars(Poll)

-----------------------------------------------------------------------------
\* Every event recorded is in the outbox, has been stored by the controller, or was
\* acknowledged on the device itself: no acknowledgement of the controller drops one
\* it has not stored, whatever the network loses, delays or repeats, whatever the
\* operator acknowledges meanwhile, and also after the journal has been replaced by
\* an older copy whose numbers are then used again.
NoEventLost ==
    \A n \in 1..Len(log) : EventAt(n) \in outbox \cup received \/ n <= waived

\* Neither the agent nor the controller has some event: the operator acknowledged it
\* before it was stored, or the controller has lost it.
Gap == \E n \in 1..Len(log) : EventAt(n) \notin outbox \cup store

\* Every event leaves the outbox in the end, so the outbox does not fill up for
\* good: with MaxEvents events in all it is empty again in the end.  Two things freeze
\* it.  A gap stops the contiguous acknowledgement, and after a restore the controller
\* may refuse the numbers that are used again; an acknowledgement on the device of
\* what the controller holds, and a restart of a controller that had stored nothing
\* the agent let go of, do not.
EventsDelivered == outbox # {} ~> (outbox = {} \/ Gap \/ restores > 0)

\* The events the agent has let go of are a prefix of the log.
released == Len(log) - Cardinality(outbox)

Delivery == INSTANCE EventDelivery WITH
    held <- {e.seq : e \in received}, released <- released

\* Reporting implements the contract of EventDelivery as long as the journal is the
\* device's own and not an older copy: once events are missing at the controller, its
\* acknowledgements let go of nothing that comes after them.
DeliverySpec ==
    /\ Delivery!Init
    /\ [][restores' = 0 => Delivery!Next]_<<log, received, outbox, waived>>
=============================================================================
