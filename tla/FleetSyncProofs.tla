-------------------------- MODULE FleetSyncProofs --------------------------
(***************************************************************************)
(* Proofs about FleetSync: no event is lost, for every batch size, outbox  *)
(* capacity, number of requests in the network, number of restores, and    *)
(* whatever the operator acknowledges and however often the controller     *)
(* starts again.                                                           *)
(*                                                                         *)
(* NoEventLost is not inductive.  An acknowledgement is a number, and the  *)
(* agent drops every event up to it; that the controller has stored them   *)
(* all needs two further facts.  The request the agent waits for carries   *)
(* every event of the outbox up to its last one (SentIsPrefix), and an     *)
(* answer that is not an error means that the controller has stored the    *)
(* whole request and, since it acknowledges only runs without a gap        *)
(* (AckedIsHeld), every number up to the one it names (AnsweredIsHeld).    *)
(***************************************************************************)
EXTENDS FleetSync, FiniteSetTheorems, FunctionTheorems, TLAPS

\* The copy of the journal loses no event either.
BackupComplete ==
    \A n \in 1..Len(backup.log) :
        \/ [seq |-> n, kind |-> backup.log[n]] \in backup.outbox \cup received
        \/ n <= backup.waived

\* Numbers are taken from the sequence counter of the journal.
Numbered ==
    /\ \A e \in outbox \cup sent : e.seq <= Len(log)
    /\ \A e \in backup.outbox : e.seq <= Len(backup.log)

Bounded == IsFiniteSet(outbox) /\ IsFiniteSet(backup.outbox)

\* The request the agent waits for is a prefix of the outbox.
SentIsPrefix == \A e \in outbox, f \in sent : e.seq <= f.seq => e \in sent

\* The agent waits for at most one request, the one it sent last, and for one
\* answer to it.
OneExchange ==
    /\ \A r \in network : r.live => sync = "posted" /\ r.batch = sent /\ reply = NoReply
    /\ sync # "posted" => sent = {} /\ reply = NoReply

\* The controller acknowledges a run that begins with the first event.
AckedIsHeld == store \subseteq received /\ \A n \in 1..acked : Held(n)

\* An answer without an error means that the whole request has been stored, and every
\* number up to the one in the answer.
AnsweredIsHeld ==
    reply.kind = "ok" =>
        /\ sent \subseteq received
        /\ \A n \in 1..reply.seq : \E e \in received : e.seq = n

Inv ==
    /\ TypeOK
    /\ NoEventLost
    /\ BackupComplete
    /\ Numbered
    /\ Bounded
    /\ SentIsPrefix
    /\ OneExchange
    /\ AckedIsHeld
    /\ AnsweredIsHeld

-----------------------------------------------------------------------------
\* A fresh journal and a fresh controller satisfy the invariant.
LEMMA InitInv == Init => Inv
BY FS_EmptySet DEF Init, Inv, TypeOK, NoEventLost, BackupComplete, Numbered, Bounded,
   SentIsPrefix, OneExchange, AckedIsHeld, AnsweredIsHeld, NoReply, EventAt, Events

\* The oldest events of the outbox are a prefix of it.
LEMMA FirstBatchIsPrefix ==
    ASSUME TypeOK, Bounded, NEW e \in outbox, NEW f \in FirstBatch, e.seq <= f.seq
    PROVE  e \in FirstBatch
<1> DEFINE Before(g) == {h \in outbox : h.seq < g.seq}
<1>1. /\ f \in outbox
      /\ Cardinality(Before(f)) < BatchLimit
  BY DEF FirstBatch
<1>2. \A g \in outbox : g.seq \in Nat
  BY DEF TypeOK, Events
<1>3. Before(e) \subseteq Before(f)
  BY <1>1, <1>2
<1>4. /\ IsFiniteSet(Before(f))
      /\ IsFiniteSet(Before(e))
  BY FS_Subset DEF Bounded
<1>5. /\ Cardinality(Before(e)) <= Cardinality(Before(f))
      /\ Cardinality(Before(e)) \in Nat
      /\ Cardinality(Before(f)) \in Nat
  BY <1>3, <1>4, FS_Subset, FS_CardinalityType
<1>6. Cardinality(Before(e)) < BatchLimit
  BY <1>1, <1>5, FleetAssumption
<1> QED
  BY <1>6 DEF FirstBatch

\* addEvent keeps everything that Inv says about the journal and the request.
LEMMA AddEventInv ==
    ASSUME Inv, NEW k \in Kinds, AddEvent(k),
           UNCHANGED <<waived, backupVars, sent, reply, network, store, acked, received>>
    PROVE  /\ log' \in Seq(Kinds) /\ outbox' \subseteq Events
           /\ NoEventLost' /\ BackupComplete' /\ Numbered' /\ Bounded'
           /\ SentIsPrefix' /\ AckedIsHeld' /\ AnsweredIsHeld'
<1> DEFINE new == [seq |-> Len(log) + 1, kind |-> k]
<1> USE DEF Inv, AddEvent, backupVars
<1>1. /\ log \in Seq(Kinds)
      /\ outbox \subseteq Events
      /\ log' = Append(log, k)
      /\ outbox' = outbox \cup {new}
  BY DEF TypeOK
<1>2. /\ log' \in Seq(Kinds)
      /\ Len(log') = Len(log) + 1
      /\ Len(log) \in Nat
      /\ \A n \in 1..Len(log) : log'[n] = log[n]
      /\ log'[Len(log) + 1] = k
  BY <1>1
<1>3. outbox' \subseteq Events
  BY <1>1, <1>2 DEF Events
<1>4. NoEventLost'
  <2> SUFFICES ASSUME NEW n \in 1..(Len(log) + 1)
               PROVE  EventAt(n)' \in outbox' \cup received' \/ n <= waived'
    BY <1>2 DEF NoEventLost
  <2>1. CASE n = Len(log) + 1
    BY <2>1, <1>1, <1>2 DEF EventAt
  <2>2. CASE n \in 1..Len(log)
    <3>1. EventAt(n)' = EventAt(n)
      BY <2>2, <1>2 DEF EventAt
    <3>2. EventAt(n) \in outbox \cup received \/ n <= waived
      BY <2>2 DEF NoEventLost
    <3> QED
      BY <3>1, <3>2, <1>1
  <2> QED
    BY <2>1, <2>2, <1>2
<1>5. BackupComplete'
  BY DEF BackupComplete
<1>6. Numbered'
  <2>1. \A e \in outbox \cup sent : e.seq \in Nat /\ e.seq <= Len(log)
    BY DEF Numbered, TypeOK, Events
  <2> QED
    BY <1>1, <1>2, <2>1 DEF Numbered
<1>7. Bounded'
  BY <1>1, FS_AddElement DEF Bounded
<1>8. SentIsPrefix'
  <2>1. \A f \in sent : f.seq \in Nat /\ f.seq <= Len(log)
    BY DEF Numbered, TypeOK, Events
  <2>2. \A f \in sent : ~(new.seq <= f.seq)
    BY <2>1, <1>2
  <2> QED
    BY <2>2, <1>1 DEF SentIsPrefix
<1>9. AckedIsHeld' /\ AnsweredIsHeld'
  BY DEF AckedIsHeld, AnsweredIsHeld, Held
<1> QED
  BY <1>2, <1>3, <1>4, <1>5, <1>6, <1>7, <1>8, <1>9

\* What ends an exchange leaves nothing to wait for.
LEMMA EndExchangeInv ==
    ASSUME Inv, EndExchange
    PROVE  /\ sync' = "idle" /\ sent' = {} /\ reply' = NoReply /\ fetched' = 0
           /\ network' \subseteq [batch : SUBSET Events, live : BOOLEAN]
           /\ UNCHANGED <<store, acked, offered, received>>
           /\ SentIsPrefix' /\ OneExchange' /\ AckedIsHeld' /\ AnsweredIsHeld'
<1>1. network' \subseteq [batch : SUBSET Events, live : BOOLEAN]
  <2>1. Abandoned \subseteq [batch : SUBSET Events, live : BOOLEAN]
    <3>1. \A r \in network :
             [r EXCEPT !.live = FALSE] \in [batch : SUBSET Events, live : BOOLEAN]
      BY DEF Inv, TypeOK
    <3> QED
      BY <3>1, Zenon DEF Abandoned
  <2> QED
    BY <2>1 DEF Inv, TypeOK, EndExchange
<1>2. \A r \in network' : ~r.live
  <2>1. \A r \in Abandoned : ~r.live
    BY DEF Inv, TypeOK, Abandoned
  <2> QED
    BY <2>1 DEF EndExchange
<1>3. SentIsPrefix' /\ OneExchange' /\ AnsweredIsHeld'
  BY <1>2 DEF EndExchange, SentIsPrefix, OneExchange, AnsweredIsHeld, NoReply
<1>4. AckedIsHeld'
  BY DEF Inv, EndExchange, serverVars, AckedIsHeld, Held
<1> QED
  BY <1>1, <1>3, <1>4 DEF EndExchange, serverVars

\* The answer the agent waits for: what Ack drops is held by the controller.
LEMMA ReceiveReplyInv == Inv /\ ReceiveReply => Inv'
<1> SUFFICES ASSUME Inv, ReceiveReply PROVE Inv'
  OBVIOUS
<1> USE DEF ReceiveReply, backupVars, serverVars
<1>1. outbox' \subseteq outbox
  BY DEF Ack
<1>2. TypeOK'
  BY <1>1 DEF Inv, TypeOK, NoReply
<1>3. \A e \in outbox : e \in outbox' \/ e \in received
  <2> DEFINE Valid == /\ reply.kind = "ok"
                      /\ \E f \in sent : reply.seq <= f.seq
                      /\ reply.seq <= Len(log)
  <2>1. CASE Valid
    <3>1. PICK f \in sent : reply.seq <= f.seq
      BY <2>1
    <3>2. sent \subseteq received
      BY <2>1 DEF Inv, AnsweredIsHeld
    <3>3. ASSUME NEW e \in outbox, e.seq <= reply.seq
          PROVE  e \in received
      <4>1. e.seq <= f.seq
        BY <3>1, <3>3 DEF Inv, TypeOK, Events
      <4> QED
        BY <4>1, <3>2 DEF Inv, SentIsPrefix
    <3>4. \A e \in outbox : e.seq \in Nat /\ reply.seq \in Nat
      BY DEF Inv, TypeOK, Events
    <3> QED
      BY <2>1, <3>3, <3>4 DEF Ack
  <2>2. CASE ~Valid
    BY <2>2
  <2> QED
    BY <2>1, <2>2
<1>4. NoEventLost'
  BY <1>3 DEF Inv, NoEventLost, EventAt
<1>5. BackupComplete' /\ Numbered'
  BY <1>1 DEF Inv, BackupComplete, Numbered
<1>6. Bounded'
  BY <1>1, FS_Subset DEF Inv, Bounded
<1>7. SentIsPrefix' /\ AckedIsHeld' /\ AnsweredIsHeld'
  BY DEF Inv, SentIsPrefix, AckedIsHeld, Held, AnsweredIsHeld, NoReply
<1>8. OneExchange'
  BY DEF Inv, OneExchange, NoReply
<1> QED
  BY <1>2, <1>4, <1>5, <1>6, <1>7, <1>8 DEF Inv

\* An operator who acknowledges events takes the responsibility for them.
LEMMA LocalAckInv ==
    ASSUME Inv, NEW n \in 0..MaxEvents, LocalAck(n)
    PROVE  Inv'
<1> USE DEF LocalAck, backupVars, serverVars
<1>1. /\ outbox' = {e \in outbox : e.seq > n}
      /\ outbox' \subseteq outbox
  BY DEF Ack
<1>2. Len(log) \in Nat /\ n \in Nat /\ waived \in Nat
  BY DEF Inv, TypeOK
<1>3. TypeOK'
  BY <1>1, <1>2 DEF Inv, TypeOK
<1>4. NoEventLost'
  <2> SUFFICES ASSUME NEW m \in 1..Len(log)
               PROVE  EventAt(m) \in outbox' \cup received \/ m <= waived'
    BY DEF NoEventLost, EventAt
  <2>1. CASE m <= n
    BY <1>2, <2>1
  <2>2. CASE m > n
    <3>1. EventAt(m).seq = m
      BY DEF EventAt
    <3>2. EventAt(m) \in outbox \cup received \/ m <= waived
      BY DEF Inv, NoEventLost
    <3> QED
      BY <1>1, <1>2, <2>2, <3>1, <3>2
  <2> QED
    BY <1>2, <2>1, <2>2
<1>5. BackupComplete' /\ Numbered'
  BY <1>1 DEF Inv, BackupComplete, Numbered
<1>6. Bounded'
  BY <1>1, FS_Subset DEF Inv, Bounded
<1>7. SentIsPrefix' /\ OneExchange'
  BY <1>1 DEF Inv, SentIsPrefix, OneExchange
<1>8. AckedIsHeld' /\ AnsweredIsHeld'
  BY DEF Inv, AckedIsHeld, Held, AnsweredIsHeld
<1> QED
  BY <1>3, <1>4, <1>5, <1>6, <1>7, <1>8 DEF Inv

\* The controller stores a batch, or refuses it.
LEMMA PostEventsInv ==
    ASSUME Inv, NEW r \in network, PostEvents(r)
    PROVE  Inv'
<1> USE DEF PostEvents, agentVars, backupVars
<1>1. /\ r.batch \subseteq Events
      /\ store \subseteq Events
      /\ r.live \in BOOLEAN
  BY DEF Inv, TypeOK
<1>2. /\ store \subseteq store'
      /\ store' \subseteq store \cup r.batch
      /\ received' = received \cup store'
  OBVIOUS
<1>3. \A q \in network' : r.live => ~q.live
  <2> SUFFICES ASSUME NEW q \in network', r.live, q.live PROVE FALSE
    OBVIOUS
  <2>1. q.batch = r.batch /\ q.live = r.live
    BY DEF Inv, OneExchange, TypeOK
  <2>2. q = r
    BY <2>1 DEF Inv, TypeOK
  <2> QED
    BY <2>2
<1>4. CASE Conflicting(r.batch)
  <2>1. /\ UNCHANGED acked
        /\ reply' = IF r.live THEN [kind |-> "conflict", seq |-> 0] ELSE reply
    BY <1>4
  <2>2. TypeOK'
    BY <1>1, <1>2, <2>1 DEF Inv, TypeOK
  <2>3. OneExchange'
    BY <1>3, <2>1 DEF Inv, OneExchange
  <2>4. AnsweredIsHeld'
    BY <1>2, <2>1 DEF Inv, AnsweredIsHeld
  <2>5. AckedIsHeld'
    BY <1>2, <2>1 DEF Inv, AckedIsHeld, Held
  <2> QED
    BY <1>2, <2>2, <2>3, <2>4, <2>5
    DEF Inv, NoEventLost, EventAt, BackupComplete, Numbered, Bounded, SentIsPrefix
<1>5. CASE ~Conflicting(r.batch)
  <2>1. reply' = IF r.live THEN [kind |-> "ok", seq |-> acked'] ELSE reply
    BY <1>5
  <2>2. acked' \in Nat /\ \A m \in 1..acked' : Held(m)'
    <3>1. PICK n \in acked..(acked + Cardinality(store')), last \in {e.seq : e \in r.batch} :
             /\ \A k \in (acked + 1)..n : HeldNow(k)
             /\ acked' = IF n > last THEN last ELSE n
      BY <1>5 DEF Advance
    <3>2. last \in Nat
      BY <1>1 DEF Events
    <3>3. n \in Nat /\ acked \in Nat
      BY DEF Inv, TypeOK
    <3>4. acked' \in Nat /\ acked' <= n
      BY <3>1, <3>2, <3>3
    <3>5. ASSUME NEW m \in 1..acked' PROVE Held(m)'
      <4>1. m \in 1..acked \/ m \in (acked + 1)..n
        BY <3>3, <3>4
      <4>2. CASE m \in 1..acked
        BY <1>2, <4>2 DEF Inv, AckedIsHeld, Held
      <4>3. CASE m \in (acked + 1)..n
        BY <3>1, <4>3 DEF HeldNow, Held
      <4> QED
        BY <4>1, <4>2, <4>3
    <3> QED
      BY <3>4, <3>5
  <2>3. r.batch \subseteq store'
    <3> SUFFICES ASSUME NEW e \in r.batch, Held(e.seq) PROVE e \in store
      BY <1>5
    <3>1. PICK f \in store : f.seq = e.seq
      BY DEF Held
    <3>2. e.kind = f.kind
      BY <1>5, <3>1 DEF Conflicting
    <3>3. e = f
      <4>1. e \in [seq : Nat, kind : Kinds] /\ f \in [seq : Nat, kind : Kinds]
        BY <1>1 DEF Events
      <4> HIDE DEF PostEvents
      <4> QED
        BY <3>1, <3>2, <4>1
    <3> QED
      BY <3>3
  <2>4. TypeOK'
    BY <1>1, <1>2, <2>1, <2>2 DEF Inv, TypeOK
  <2>5. OneExchange'
    BY <1>3, <2>1 DEF Inv, OneExchange
  <2>6. AckedIsHeld'
    BY <1>2, <2>2 DEF Inv, AckedIsHeld
  <2>7. AnsweredIsHeld'
    <3>1. CASE r.live
      <4>1. sent' = r.batch /\ reply'.seq = acked'
        BY <2>1, <3>1 DEF Inv, OneExchange
      <4>2. \A m \in 1..acked' : \E e \in received' : e.seq = m
        BY <1>2, <2>2 DEF Held
      <4> QED
        BY <1>2, <2>3, <4>1, <4>2 DEF AnsweredIsHeld
    <3>2. CASE ~r.live
      BY <1>2, <2>1, <3>2 DEF Inv, AnsweredIsHeld
    <3> QED
      BY <1>1, <3>1, <3>2
  <2> QED
    BY <1>2, <2>4, <2>5, <2>6, <2>7
    DEF Inv, NoEventLost, EventAt, BackupComplete, Numbered, Bounded, SentIsPrefix
<1> QED
  BY <1>4, <1>5

-----------------------------------------------------------------------------
\* Every action of the agent, the network and the controller preserves it.
LEMMA NextInv == Inv /\ [Next]_vars => Inv'
<1> SUFFICES ASSUME Inv, [Next]_vars PROVE Inv'
  OBVIOUS
<1>1. ASSUME NEW k \in Kinds, Save(k) PROVE Inv'
  BY <1>1, AddEventInv DEF Save, Inv, TypeOK, OneExchange, backupVars, serverVars
<1>2. CASE Post
  <2> USE <1>2 DEF Post, agentVars, backupVars, serverVars
  <2>1. FirstBatch \subseteq outbox
    BY DEF FirstBatch
  <2>2. /\ sync = "idle" /\ reply = NoReply
        /\ \A r \in network : ~r.live
    BY DEF Inv, OneExchange
  <2>3. TypeOK'
    <3>1. FirstBatch \in SUBSET Events
      BY <2>1 DEF Inv, TypeOK
    <3>2. [batch |-> FirstBatch, live |-> TRUE] \in [batch : SUBSET Events, live : BOOLEAN]
      BY <3>1
    <3> QED
      BY <3>1, <3>2 DEF Inv, TypeOK
  <2>4. SentIsPrefix'
    BY FirstBatchIsPrefix DEF Inv, SentIsPrefix
  <2>5. OneExchange'
    BY <2>2 DEF OneExchange
  <2>6. AckedIsHeld' /\ AnsweredIsHeld'
    BY <2>2 DEF Inv, AckedIsHeld, Held, AnsweredIsHeld, NoReply
  <2>7. Numbered'
    BY <2>1 DEF Inv, Numbered
  <2> QED
    BY <2>3, <2>4, <2>5, <2>6, <2>7
    DEF Inv, NoEventLost, EventAt, BackupComplete, Bounded
<1>3. CASE NothingToPost
  BY <1>3 DEF NothingToPost, agentVars, backupVars, serverVars, Inv, TypeOK, NoEventLost,
     EventAt, BackupComplete, Numbered, Bounded, SentIsPrefix, OneExchange, AckedIsHeld, Held,
     AnsweredIsHeld
<1>4. CASE ReceiveReply
  BY <1>4, ReceiveReplyInv
<1>5. CASE Poll
  BY <1>5 DEF Poll, agentVars, backupVars, serverVars, Inv, TypeOK, NoEventLost,
     EventAt, BackupComplete, Numbered, Bounded, SentIsPrefix, OneExchange, AckedIsHeld, Held,
     AnsweredIsHeld
<1>6. CASE SubmitFetched
  <2> USE <1>6 DEF SubmitFetched
  <2>1. /\ sync' = "idle" /\ fetched' = 0
        /\ UNCHANGED <<backup, restores, sent, reply, network, store, acked, offered,
                       received>>
    BY DEF backupVars, serverVars
  <2>2. OneExchange'
    BY <2>1 DEF Inv, OneExchange
  <2>3. CASE high' = fetched /\ waived' = waived /\ \E k \in Kinds : AddEvent(k)
    <3>1. PICK k \in Kinds : AddEvent(k)
      BY <2>3
    <3>2. UNCHANGED <<waived, backupVars, sent, reply, network, store, acked, received>>
      BY <2>1, <2>3 DEF backupVars
    <3>3. /\ log' \in Seq(Kinds) /\ outbox' \subseteq Events
          /\ NoEventLost' /\ BackupComplete' /\ Numbered' /\ Bounded'
          /\ SentIsPrefix' /\ AckedIsHeld' /\ AnsweredIsHeld'
      BY <3>1, <3>2, AddEventInv
    <3>4. TypeOK'
      BY <2>1, <2>3, <3>3 DEF Inv, TypeOK
    <3> QED
      BY <2>2, <3>3, <3>4 DEF Inv
  <2>4. CASE UNCHANGED agentVars
    <3>1. UNCHANGED <<log, outbox, high, waived>>
      BY <2>4 DEF agentVars
    <3>2. TypeOK'
      BY <2>1, <3>1 DEF Inv, TypeOK
    <3>3. NoEventLost' /\ BackupComplete' /\ Numbered' /\ Bounded' /\ SentIsPrefix'
      BY <2>1, <3>1 DEF Inv, NoEventLost, EventAt, BackupComplete, Numbered, Bounded,
         SentIsPrefix
    <3>4. AckedIsHeld' /\ AnsweredIsHeld'
      BY <2>1 DEF Inv, AckedIsHeld, Held, AnsweredIsHeld
    <3> QED
      BY <2>2, <3>2, <3>3, <3>4 DEF Inv
  <2> QED
    BY <2>3, <2>4
<1>7. CASE Timeout \/ Restart
  <2>1. EndExchange /\ UNCHANGED <<agentVars, backupVars>>
    BY <1>7 DEF Timeout, Restart
  <2>2. UNCHANGED <<log, outbox, high, waived, backup, restores, received>>
    BY <2>1, EndExchangeInv DEF agentVars, backupVars
  <2>3. NoReply \in [kind : {"none", "ok", "conflict"}, seq : Nat]
    BY DEF NoReply
  <2>4. TypeOK'
    BY <2>1, <2>2, <2>3, EndExchangeInv DEF Inv, TypeOK
  <2>5. NoEventLost' /\ BackupComplete' /\ Bounded'
    BY <2>2 DEF Inv, NoEventLost, EventAt, BackupComplete, Bounded
  <2>6. Numbered'
    BY <2>1, <2>2, EndExchangeInv DEF Inv, Numbered
  <2> QED
    BY <2>1, <2>4, <2>5, <2>6, EndExchangeInv DEF Inv
<1>8. CASE Backup
  BY <1>8 DEF Backup, agentVars, serverVars, Inv, TypeOK, NoEventLost, EventAt,
     BackupComplete, Numbered, Bounded, SentIsPrefix, OneExchange, AckedIsHeld, Held,
     AnsweredIsHeld
<1>9. CASE Restore
  <2>1. /\ EndExchange
        /\ log' = backup.log /\ outbox' = backup.outbox
        /\ high' = backup.high /\ waived' = backup.waived
        /\ restores' = restores + 1 /\ backup' = backup
    BY <1>9 DEF Restore
  <2>2. NoEventLost'
    BY <2>1, EndExchangeInv DEF Inv, NoEventLost, EventAt, BackupComplete
  <2>3. TypeOK'
    <3>1. /\ log' \in Seq(Kinds) /\ outbox' \subseteq Events
          /\ high' \in Nat /\ waived' \in Nat /\ restores' \in Nat
      BY <2>1 DEF Inv, TypeOK
    <3>2. NoReply \in [kind : {"none", "ok", "conflict"}, seq : Nat]
      BY DEF NoReply
    <3> QED
      BY <2>1, <3>1, <3>2, EndExchangeInv DEF Inv, TypeOK
  <2>4. BackupComplete' /\ Numbered' /\ Bounded'
    BY <2>1, EndExchangeInv DEF Inv, BackupComplete, Numbered, Bounded
  <2> QED
    BY <2>1, <2>2, <2>3, <2>4, EndExchangeInv DEF Inv
<1>10. ASSUME NEW r \in network, PostEvents(r) PROVE Inv'
  BY <1>10, PostEventsInv
<1>11. ASSUME NEW n \in 0..MaxReleases, SetAssignment(n) PROVE Inv'
  <2>1. offered' \in Nat
    BY <1>11, FleetAssumption DEF SetAssignment
  <2>2. UNCHANGED <<log, outbox, high, waived, backup, restores, sync, sent, reply,
                    fetched, network, store, acked, received>>
    BY <1>11 DEF SetAssignment, agentVars, backupVars
  <2> QED
    BY <2>1, <2>2 DEF Inv, TypeOK, NoEventLost, EventAt, BackupComplete, Numbered, Bounded,
       SentIsPrefix, OneExchange, AckedIsHeld, Held, AnsweredIsHeld
<1>12. CASE UNCHANGED vars
  BY <1>12 DEF vars, Inv, TypeOK, NoEventLost, EventAt, BackupComplete, Numbered, Bounded,
     SentIsPrefix, OneExchange, AckedIsHeld, Held, AnsweredIsHeld
<1>13. ASSUME NEW n \in 0..MaxEvents, LocalAck(n) PROVE Inv'
  BY <1>13, LocalAckInv
<1>14. CASE ServerRestart
  <2>1. /\ store' = {} /\ acked' = 0 /\ offered' = 0
        /\ UNCHANGED <<log, outbox, high, waived, backup, restores, sync, sent, reply,
                       fetched, network, received>>
    BY <1>14 DEF ServerRestart, agentVars, backupVars
  <2>2. AckedIsHeld'
    BY <2>1 DEF AckedIsHeld
  <2> QED
    BY <2>1, <2>2 DEF Inv, TypeOK, NoEventLost, EventAt, BackupComplete, Numbered, Bounded,
       SentIsPrefix, OneExchange, AnsweredIsHeld
<1> QED
  BY <1>1, <1>2, <1>3, <1>4, <1>5, <1>6, <1>7, <1>8, <1>9, <1>10, <1>11, <1>12, <1>13,
     <1>14 DEF Next

\* An event that addEvent has numbered is in the outbox until postEvents has stored
\* it or an operator acknowledges it on the device, in every behaviour of event
\* reporting, restarts of the agent and of the controller included.
THEOREM EventsSafe == Spec => []NoEventLost
<1>1. Inv => NoEventLost
  BY DEF Inv
<1> QED
  BY <1>1, InitInv, NextInv, PTL DEF Spec

\* Whatever is lost, delayed or restored, the outbox, the requests under way and the
\* controller's store hold events of this device, and every number is a natural one.
THEOREM ReportingTypes == Spec => []TypeOK
<1>1. Inv => TypeOK
  BY DEF Inv
<1> QED
  BY <1>1, InitInv, NextInv, PTL DEF Spec

-----------------------------------------------------------------------------
\* Reporting implements EventDelivery

\* The events numbered after low.
Suffix(s, low) == {[seq |-> n, kind |-> s[n]] : n \in (low + 1)..Len(s)}

\* While the journal is the device's own, the outbox is the end of what was recorded,
\* and all that was ever sent or stored carries a number that was given out.
OwnJournal ==
    restores = 0 =>
        /\ \E low \in 0..Len(log) : outbox = Suffix(log, low)
        /\ \A e \in received : e.seq \in 1..Len(log)
        /\ \A r \in network : \A e \in r.batch : e.seq \in 1..Len(log)

\* As many events as numbers.
LEMMA SuffixCount ==
    ASSUME NEW S, NEW s \in Seq(S), NEW low \in 0..Len(s)
    PROVE  Len(s) - Cardinality(Suffix(s, low)) = low
<1> DEFINE I == (low + 1)..Len(s)
           f == [n \in I |-> [seq |-> n, kind |-> s[n]]]
<1>1. Len(s) \in Nat /\ low \in Nat /\ low <= Len(s)
  OBVIOUS
<1>2. IsFiniteSet(I) /\ Cardinality(I) = Len(s) - low
  <2>1. low + 1 \in Int /\ Len(s) \in Int
    BY <1>1
  <2>2. /\ IsFiniteSet(I)
        /\ Cardinality(I) = IF low + 1 > Len(s) THEN 0 ELSE Len(s) - (low + 1) + 1
    BY <2>1, FS_Interval, Zenon
  <2> QED
    BY <1>1, <2>2
<1>3. f \in Bijection(I, Suffix(s, low))
  <2>1. f \in [I -> Suffix(s, low)]
    BY DEF Suffix
  <2>2. \A a, b \in I : f[a] = f[b] => a = b
    OBVIOUS
  <2>3. \A e \in Suffix(s, low) : \E n \in I : f[n] = e
    BY DEF Suffix
  <2> QED
    BY <2>1, <2>2, <2>3, Fun_IsBij, Zenon
<1>4. ExistsBijection(I, Suffix(s, low))
  BY <1>3, Fun_ExistsBij
<1>5. Cardinality(Suffix(s, low)) = Len(s) - low
  BY <1>2, <1>4, FS_Bijection
<1> QED
  BY <1>1, <1>5

\* addEvent extends the outbox at its end, as EventDelivery records an event.
LEMMA AddEventDelivers ==
    ASSUME Inv, OwnJournal, restores = 0, NEW k \in Kinds, AddEvent(k),
           UNCHANGED <<waived, restores, network, received>>
    PROVE  OwnJournal' /\ Delivery!Next
<1>1. PICK low \in 0..Len(log) : outbox = Suffix(log, low)
  BY DEF OwnJournal
<1>2. /\ log \in Seq(Kinds) /\ log' \in Seq(Kinds)
      /\ log' = Append(log, k)
      /\ Len(log) \in Nat /\ Len(log') = Len(log) + 1
      /\ \A n \in 1..Len(log) : log'[n] = log[n]
      /\ log'[Len(log) + 1] = k
  BY DEF Inv, TypeOK, AddEvent
<1>3. outbox' = Suffix(log', low)
  <2>1. (low + 1)..Len(log') = ((low + 1)..Len(log)) \cup {Len(log) + 1}
    BY <1>2
  <2>2. \A n \in (low + 1)..Len(log) : log'[n] = log[n]
    BY <1>2
  <2> QED
    BY <1>1, <1>2, <2>1, <2>2 DEF AddEvent, Suffix
<1>4. low \in 0..Len(log')
  BY <1>2
<1>5. released = low /\ released' = low
  BY <1>1, <1>2, <1>3, <1>4, SuffixCount, Zenon DEF released
<1>6. OwnJournal'
  <2>1. \A n : n \in 1..Len(log) => n \in 1..Len(log')
    BY <1>2
  <2> QED
    BY <1>3, <1>4, <2>1 DEF OwnJournal
<1>7. Delivery!Record(k)
  BY <1>2, <1>5 DEF Delivery!Record
<1> QED
  BY <1>6, <1>7 DEF Delivery!Next

\* Ack drops the beginning of the outbox.
LEMMA AckSuffix ==
    ASSUME log \in Seq(Kinds), NEW low \in 0..Len(log), outbox = Suffix(log, low),
           NEW n \in 0..Len(log), Ack(n)
    PROVE  outbox' = Suffix(log, IF n > low THEN n ELSE low)
<1> DEFINE top == IF n > low THEN n ELSE low
<1>1. Len(log) \in Nat
  OBVIOUS
<1>2. \A m \in (low + 1)..Len(log) : m > n <=> m \in (top + 1)..Len(log)
  BY <1>1
<1>3. \A m : m \in (top + 1)..Len(log) => m \in (low + 1)..Len(log)
  BY <1>1
<1>4. outbox' = {e \in Suffix(log, low) : e.seq > n}
  BY DEF Ack
<1>5. outbox' = Suffix(log, top)
  <2> HIDE DEF top
  <2> QED
    BY <1>2, <1>3, <1>4 DEF Suffix
<1> QED
  BY <1>5

\* What an answer makes Ack drop has been received, with all before it.
LEMMA ReplyDelivers ==
    ASSUME Inv, OwnJournal, restores = 0, ReceiveReply
    PROVE  OwnJournal' /\ (Delivery!Next \/ UNCHANGED <<log, received, outbox, waived>>)
<1>1. PICK low \in 0..Len(log) : outbox = Suffix(log, low)
  BY DEF OwnJournal
<1>2. log \in Seq(Kinds) /\ Len(log) \in Nat /\ reply.seq \in Nat
  BY DEF Inv, TypeOK
<1>3. UNCHANGED <<log, waived, restores, network, received>>
  BY DEF ReceiveReply, backupVars, serverVars
<1>4. CASE UNCHANGED outbox
  BY <1>3, <1>4 DEF OwnJournal
<1>5. CASE reply.kind = "ok" /\ reply.seq <= Len(log) /\ Ack(reply.seq)
  <2> DEFINE top == IF reply.seq > low THEN reply.seq ELSE low
  <2>1. top \in low..Len(log) /\ top \in 0..Len(log) /\ reply.seq \in 0..Len(log)
    BY <1>2, <1>5
  <2>2. outbox' = Suffix(log, top)
    BY <1>1, <1>2, <1>5, <2>1, AckSuffix
  <2>3. OwnJournal'
    BY <1>3, <2>1, <2>2 DEF OwnJournal
  <2>4. CASE reply.seq > low
    <3>1. top = reply.seq
      BY <2>4
    <3>2. 1..top \subseteq {e.seq : e \in received}
      BY <1>5, <3>1 DEF Inv, AnsweredIsHeld
    <3>3. released = low /\ released' = top
      BY <1>1, <1>2, <1>3, <2>1, <2>2, SuffixCount DEF released
    <3>4. Delivery!LetGo
      BY <1>3, <2>1, <3>2, <3>3 DEF Delivery!LetGo
    <3> QED
      BY <2>3, <3>4 DEF Delivery!Next
  <2>5. CASE ~(reply.seq > low)
    BY <1>1, <1>3, <2>2, <2>3, <2>5
  <2> QED
    BY <2>4, <2>5
<1> QED
  BY <1>4, <1>5 DEF ReceiveReply

\* An operator who acknowledges events waives them.
LEMMA LocalAckDelivers ==
    ASSUME Inv, OwnJournal, restores = 0, NEW n \in 0..MaxEvents, LocalAck(n)
    PROVE  OwnJournal' /\ (Delivery!Next \/ UNCHANGED <<log, received, outbox, waived>>)
<1>1. PICK low \in 0..Len(log) : outbox = Suffix(log, low)
  BY DEF OwnJournal
<1>2. log \in Seq(Kinds) /\ Len(log) \in Nat /\ n \in 0..Len(log) /\ waived \in Nat
  BY DEF Inv, TypeOK, LocalAck
<1>3. UNCHANGED <<log, restores, network, received>>
  BY DEF LocalAck, backupVars, serverVars
<1> DEFINE top == IF n > low THEN n ELSE low
<1>4. top \in 0..Len(log)
  BY <1>2
<1>5. outbox' = Suffix(log, top)
  BY <1>1, <1>2, AckSuffix DEF LocalAck
<1>6. OwnJournal'
  BY <1>3, <1>4, <1>5 DEF OwnJournal
<1>7. CASE n = 0
  <2>1. top = low /\ waived' = waived
    BY <1>2, <1>7 DEF LocalAck
  <2> QED
    BY <1>1, <1>3, <1>5, <1>6, <2>1
<1>8. CASE n # 0
  <2>1. released = low /\ released' = top
    BY <1>1, <1>2, <1>3, <1>4, <1>5, SuffixCount DEF released
  <2>2. n \in 1..Len(log)
    BY <1>2, <1>8
  <2>3. Delivery!Waive(n)
    BY <1>3, <2>1 DEF Delivery!Waive, LocalAck
  <2> QED
    BY <1>6, <2>2, <2>3 DEF Delivery!Next
<1> QED
  BY <1>7, <1>8

\* What the controller stores carries a number that was given out.
LEMMA PostDelivers ==
    ASSUME Inv, OwnJournal, restores = 0, NEW r \in network, PostEvents(r)
    PROVE  OwnJournal' /\ Delivery!Next
<1>1. /\ UNCHANGED <<log, outbox, waived, restores>>
      /\ network' \subseteq network
      /\ store' \subseteq store \cup r.batch
      /\ received' = received \cup store'
  BY DEF PostEvents, agentVars, backupVars
<1>2. received \subseteq received' /\ \A e \in received' : e.seq \in 1..Len(log)
  BY <1>1 DEF OwnJournal, Inv, AckedIsHeld
<1>3. OwnJournal'
  BY <1>1, <1>2 DEF OwnJournal
<1>4. Delivery!Receive
  BY <1>1, <1>2 DEF Delivery!Receive, released
<1> QED
  BY <1>3, <1>4 DEF Delivery!Next

\* Every step is one of EventDelivery, or changes nothing it speaks of, until the
\* journal is replaced by a copy.
LEMMA StepDelivers ==
    ASSUME Inv, OwnJournal, [Next]_vars
    PROVE  /\ OwnJournal'
           /\ [restores' = 0 => Delivery!Next]_<<log, received, outbox, waived>>
<1>1. restores \in Nat
  BY DEF Inv, TypeOK
<1>2. CASE restores # 0
  <2>1. restores' # 0
    <3>1. restores' = restores \/ restores' = restores + 1
      BY DEF Next, Save, Post, NothingToPost, ReceiveReply, Poll, SubmitFetched, Timeout,
         Restart, Backup, Restore, PostEvents, SetAssignment, LocalAck, ServerRestart,
         backupVars, vars
    <3> QED
      BY <1>1, <1>2, <3>1
  <2> QED
    BY <2>1 DEF OwnJournal
<1>3. CASE restores = 0
  <2>1. ASSUME NEW k \in Kinds, Save(k) PROVE OwnJournal' /\ Delivery!Next
    BY <1>3, <2>1, AddEventDelivers DEF Save, backupVars, serverVars
  <2>2. CASE Post
    <3>1. UNCHANGED <<log, outbox, waived, received, restores>>
      BY <2>2 DEF Post, agentVars, backupVars, serverVars
    <3>2. \A e \in outbox : e.seq \in 1..Len(log)
      <4>1. PICK low \in 0..Len(log) : outbox = Suffix(log, low)
        BY <1>3 DEF OwnJournal
      <4>2. \A n \in (low + 1)..Len(log) : n \in 1..Len(log)
        OBVIOUS
      <4>3. \A e \in outbox :
               \E n \in (low + 1)..Len(log) : e = [seq |-> n, kind |-> log[n]]
        BY <4>1, Zenon DEF Suffix
      <4> QED
        BY <4>2, <4>3
    <3>3. \A q \in network' : q \in network \/ q.batch \subseteq outbox
      <4>1. FirstBatch \subseteq outbox
        BY DEF FirstBatch
      <4>2. network' = network \cup {[batch |-> FirstBatch, live |-> TRUE]}
        BY <2>2 DEF Post
      <4> QED
        BY <4>1, <4>2
    <3> QED
      BY <3>1, <3>2, <3>3 DEF OwnJournal
  <2>3. CASE NothingToPost \/ Poll \/ Backup \/ (\E n \in 0..MaxReleases : SetAssignment(n))
             \/ ServerRestart \/ UNCHANGED vars
    <3>1. UNCHANGED <<log, outbox, waived, received, restores, network>>
      BY <2>3 DEF NothingToPost, Poll, Backup, SetAssignment, ServerRestart, agentVars,
         backupVars, serverVars, vars
    <3> QED
      BY <3>1 DEF OwnJournal
  <2>4. CASE ReceiveReply
    BY <1>3, <2>4, ReplyDelivers
  <2>5. CASE SubmitFetched
    <3>1. UNCHANGED <<restores, network, received>>
      BY <2>5 DEF SubmitFetched, backupVars, serverVars
    <3>2. CASE waived' = waived /\ \E k \in Kinds : AddEvent(k)
      BY <1>3, <3>1, <3>2, AddEventDelivers
    <3>3. CASE UNCHANGED agentVars
      BY <3>1, <3>3 DEF OwnJournal, agentVars
    <3> QED
      BY <2>5, <3>2, <3>3 DEF SubmitFetched
  <2>6. CASE Timeout \/ Restart
    <3>1. UNCHANGED <<log, outbox, waived, received, restores>> /\ EndExchange
      BY <2>6 DEF Timeout, Restart, EndExchange, agentVars, backupVars, serverVars
    <3>2. \A r \in network : [r EXCEPT !.live = FALSE].batch = r.batch
      BY DEF Inv, TypeOK
    <3>3. network' = Abandoned \/ network' \subseteq network
      BY <3>1 DEF EndExchange
    <3>4. \A q \in network' : \E r \in network : q.batch = r.batch
      <4> SUFFICES ASSUME NEW q \in network', q \notin network
                   PROVE  \E r \in network : q.batch = r.batch
        OBVIOUS
      <4>1. PICK r \in network : q = [r EXCEPT !.live = FALSE]
        BY <3>3, Zenon DEF Abandoned
      <4>2. q.batch = r.batch
        BY <3>2, <4>1
      <4> QED
        BY <4>2
    <3> QED
      BY <3>1, <3>4 DEF OwnJournal
  <2>7. CASE Restore
    <3>1. restores' # 0
      BY <1>1, <2>7 DEF Restore
    <3> QED
      BY <3>1 DEF OwnJournal
  <2>8. ASSUME NEW r \in network, PostEvents(r) PROVE OwnJournal' /\ Delivery!Next
    BY <1>3, <2>8, PostDelivers
  <2>9. ASSUME NEW n \in 0..MaxEvents, LocalAck(n)
        PROVE  OwnJournal' /\ [Delivery!Next]_<<log, received, outbox, waived>>
    BY <1>3, <2>9, LocalAckDelivers
  <2> QED
    BY <2>1, <2>2, <2>3, <2>4, <2>5, <2>6, <2>7, <2>8, <2>9 DEF Next
<1> QED
  BY <1>2, <1>3

\* Reporting implements EventDelivery until the journal is replaced by a copy: Ack
\* lets go of an event only when postEvents has stored it and all before it or an
\* operator acknowledges it on the device, for any batch limit, any number of requests
\* that are lost, delayed and overtaken, and any number of restarts of the controller.
THEOREM ReportingDelivers == Spec => DeliverySpec
<1>1. Init => OwnJournal /\ Delivery!Init
  <2> SUFFICES ASSUME Init PROVE OwnJournal /\ Delivery!Init
    OBVIOUS
  <2>1. /\ log = <<>> /\ outbox = {} /\ received = {} /\ network = {}
        /\ waived = 0 /\ Len(log) = 0
    BY DEF Init
  <2>2. outbox = Suffix(log, 0)
    <3>1. (0 + 1)..Len(log) = {}
      BY <2>1
    <3> QED
      BY <2>1, <3>1, Zenon DEF Suffix
  <2>3. OwnJournal
    BY <2>1, <2>2 DEF OwnJournal
  <2>4. released = 0
    BY <2>1, FS_EmptySet DEF released
  <2> QED
    BY <2>1, <2>3, <2>4 DEF Delivery!Init
<1>2. Inv /\ OwnJournal /\ [Next]_vars
          => /\ OwnJournal'
             /\ [restores' = 0 => Delivery!Next]_<<log, received, outbox, waived>>
  BY StepDelivers
<1> QED
  BY <1>1, <1>2, InitInv, NextInv, PTL DEF Spec, DeliverySpec
=============================================================================
