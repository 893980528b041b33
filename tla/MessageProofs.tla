--------------------------- MODULE MessageProofs ---------------------------
(***************************************************************************)
(* Messages that must arrive, for every number of workers, senders, events *)
(* and attempts: the outbox publisher, and delivery to receivers that do   *)
(* or do not remember what they have processed.                            *)
(*                                                                         *)
(* The publisher.  A row is locked only while it is processing, so a late  *)
(* report finds nothing to update; a worker that is about to mark an event *)
(* has delivered it; and a side effect leaves a row in processed_events    *)
(* behind.                                                                 *)
(*                                                                         *)
(* Delivery.  An answer on its way back, a row of the inbox and a racy     *)
(* receiver past its UPDATE each stand for a committed effect (AckInv);    *)
(* the effects are counted against the calls that brought them.            *)
(***************************************************************************)
EXTENDS OutboxPublisher, Delivery, FiniteSetTheorems, TLAPS

-----------------------------------------------------------------------------
(* The outbox publisher. *)

RowsInv ==
    /\ outbox \in [Events -> OutboxRow]
    /\ \A e \in Events : outbox[e].status # "processing" => outbox[e].locked_by = NoWorker

WorkersInv ==
    /\ worker \in [Workers -> [pc : {"idle", "claimed", "published", "failing"},
                               event : Events \cup {NoEvent}]]
    /\ \A w \in Workers : worker[w].pc # "idle" => worker[w].event \in Events

DeliveriesInv ==
    /\ lapsed \subseteq Events \X Nat
    /\ deliveries \in [Events -> Nat] /\ inTransit \in [Events -> Nat]
    /\ processed \subseteq Events /\ applied \in [Events -> Nat]
    /\ \A w \in Workers : worker[w].pc = "published" => deliveries[worker[w].event] > 0
    /\ \A e \in Events : outbox[e].status = "published" => deliveries[e] > 0
    /\ \A e \in Events : applied[e] <= IF e \in processed THEN 1 ELSE 0

PublisherInv == RowsInv /\ WorkersInv /\ DeliveriesInv

\* Pending rows, idle workers and a silent broker.
LEMMA PublisherInitInv == PublisherInit => PublisherInv
  BY OutboxAssumption
     DEF OutboxAssumption, PublisherInit, OutboxInit, Resting, PublisherInv, RowsInv, WorkersInv,
         DeliveriesInv, OutboxRow

\* A claim writes one row: its status, its owner and the count of its claims.
LEMMA RowClaimed ==
  ASSUME outbox \in [Events -> OutboxRow], NEW w \in Workers, NEW e \in Events, ClaimRow(w, e)
  PROVE  /\ outbox' \in [Events -> OutboxRow]
         /\ \A f \in Events : f # e => outbox'[f] = outbox[f]
         /\ outbox'[e].status = "processing" /\ outbox'[e].locked_by = w
         /\ outbox'[e].attempts = outbox[e].attempts + 1
  <1> DEFINE n == outbox[e].attempts + 1
             row == [outbox[e] EXCEPT !.status = "processing", !.locked_by = w, !.attempts = n]
  <1>1. outbox[e] \in OutboxRow /\ n \in Nat
    BY DEF OutboxRow
  <1>2. outbox' = [outbox EXCEPT ![e] = row]
    BY <1>1 DEF ClaimRow, OutboxRow
  <1> HIDE DEF n
  <1>3. /\ row \in OutboxRow /\ row.status = "processing" /\ row.locked_by = w
        /\ row.attempts = n
    BY <1>1 DEF OutboxRow
  <1> HIDE DEF row
  <1> QED
    BY <1>2, <1>3 DEF n

\* The success report: its row is published, unless another worker has it.
LEMMA RowPublished ==
  ASSUME outbox \in [Events -> OutboxRow], NEW w \in Workers, NEW e \in Events, PublishRow(w, e)
  PROVE  /\ outbox' \in [Events -> OutboxRow]
         /\ \A f \in Events : f # e => outbox'[f] = outbox[f]
         /\ outbox'[e].attempts = outbox[e].attempts
         /\ \/ outbox'[e] = outbox[e]
            \/ outbox'[e].status = "published" /\ outbox'[e].locked_by = NoWorker
  <1>1. CASE outbox[e].locked_by # w
    BY <1>1 DEF PublishRow
  <1>2. CASE outbox[e].locked_by = w
    <2> DEFINE row == [outbox[e] EXCEPT !.status = "published", !.locked_by = NoWorker]
    <2>1. outbox' = [outbox EXCEPT ![e] = row]
      BY <1>2 DEF PublishRow
    <2>2. /\ row \in OutboxRow /\ row.status = "published" /\ row.locked_by = NoWorker
          /\ row.attempts = outbox[e].attempts
      BY DEF OutboxRow
    <2> HIDE DEF row
    <2> QED
      BY <2>1, <2>2
  <1> QED
    BY <1>1, <1>2

\* The failure report: its row is to be claimed again or has failed for good,
\* unless another worker has it.
LEMMA RowFailed ==
  ASSUME outbox \in [Events -> OutboxRow], NEW w \in Workers, NEW e \in Events, FailRow(w, e)
  PROVE  /\ outbox' \in [Events -> OutboxRow]
         /\ \A f \in Events : f # e => outbox'[f] = outbox[f]
         /\ outbox'[e].attempts = outbox[e].attempts
         /\ \/ outbox'[e] = outbox[e]
            \/ outbox'[e].status \in {"pending", "failed"} /\ outbox'[e].locked_by = NoWorker
  <1>1. CASE outbox[e].locked_by # w
    BY <1>1 DEF FailRow
  <1>2. CASE outbox[e].locked_by = w
    <2> DEFINE status == IF outbox[e].attempts >= MaxAttempts THEN "failed" ELSE "pending"
               row == [outbox[e] EXCEPT !.status = status, !.locked_by = NoWorker]
    <2>1. outbox' = [outbox EXCEPT ![e] = row]
      BY <1>2 DEF FailRow
    <2>2. status \in {"pending", "failed"}
      OBVIOUS
    <2> HIDE DEF status
    <2>3. /\ row \in OutboxRow /\ row.status = status /\ row.locked_by = NoWorker
          /\ row.attempts = outbox[e].attempts
      BY <2>2 DEF OutboxRow
    <2> HIDE DEF row
    <2> QED
      BY <2>1, <2>2, <2>3
  <1> QED
    BY <1>1, <1>2

\* The finalizing UPDATEs keep the rows' types and the owner's rule, and a row
\* becomes published only through PublishRow.
LEMMA FinalizeRow ==
  ASSUME RowsInv, NEW w \in Workers, NEW e \in Events, PublishRow(w, e) \/ FailRow(w, e)
  PROVE  /\ RowsInv'
         /\ \A f \in Events : outbox'[f].status = "published" =>
               outbox[f].status = "published" \/ (f = e /\ PublishRow(w, e))
  BY RowPublished, RowFailed, OutboxAssumption DEF OutboxAssumption, RowsInv

\* Each step of the publisher, the broker, the consumer and the clock.
LEMMA PublisherStepInv == PublisherInv /\ [PublisherNext]_publisherVars => PublisherInv'
  <1> SUFFICES ASSUME PublisherInv, [PublisherNext]_publisherVars PROVE PublisherInv'
    OBVIOUS
  <1> USE DEF PublisherInv
  <1>1. ASSUME NEW w \in Workers, NEW e \in Events, ClaimNextEvent(w, e) PROVE PublisherInv'
    <2>1. RowsInv'
      BY <1>1, RowClaimed, OutboxAssumption DEF OutboxAssumption, ClaimNextEvent, RowsInv
    <2>2. WorkersInv'
      BY <1>1 DEF ClaimNextEvent, WorkersInv
    <2>3. DeliveriesInv'
      BY <1>1, RowClaimed DEF ClaimNextEvent, RowsInv, WorkersInv, DeliveriesInv, consumerVars
    <2> QED
      BY <2>1, <2>2, <2>3
  <1>2. ASSUME NEW w \in Workers, Publish(w) PROVE PublisherInv'
    <2>1. RowsInv' /\ WorkersInv'
      BY <1>2 DEF Publish, Goto, RowsInv, WorkersInv
    <2>2. DeliveriesInv'
      BY <1>2, SMTT(30) DEF Publish, Goto, WorkersInv, DeliveriesInv
    <2> QED
      BY <2>1, <2>2
  <1>3. ASSUME NEW w \in Workers, MarkPublished(w) PROVE PublisherInv'
    <2>1. worker[w].event \in Events /\ deliveries[worker[w].event] > 0
      BY <1>3 DEF MarkPublished, WorkersInv, DeliveriesInv
    <2>2. /\ RowsInv'
          /\ \A f \in Events : outbox'[f].status = "published" =>
                outbox[f].status = "published" \/ f = worker[w].event
      BY <1>3, <2>1, FinalizeRow DEF MarkPublished, RowsInv
    <2>3. WorkersInv'
      BY <1>3 DEF MarkPublished, Goto, Resting, WorkersInv
    <2>4. DeliveriesInv'
      BY <1>3, <2>1, <2>2 DEF MarkPublished, Goto, Resting, WorkersInv, DeliveriesInv, consumerVars
    <2> QED
      BY <2>2, <2>3, <2>4
  <1>4. ASSUME NEW w \in Workers, MarkPublishFailed(w) PROVE PublisherInv'
    <2>1. worker[w].event \in Events
      BY <1>4 DEF MarkPublishFailed, WorkersInv
    <2>2. /\ RowsInv'
          /\ \A f \in Events : outbox'[f].status = "published" => outbox[f].status = "published"
      BY <1>4, <2>1, RowFailed, OutboxAssumption DEF OutboxAssumption, MarkPublishFailed, RowsInv
    <2>3. WorkersInv' /\ DeliveriesInv'
      BY <1>4, <2>2 DEF MarkPublishFailed, Resting, WorkersInv, DeliveriesInv, consumerVars
    <2> QED
      BY <2>2, <2>3
  <1>5. ASSUME NEW w \in Workers, Crash(w) PROVE PublisherInv'
    BY <1>5 DEF Crash, Resting, RowsInv, WorkersInv, DeliveriesInv, consumerVars
  <1>6. ASSUME NEW e \in Events, Lapse(e) PROVE PublisherInv'
    BY <1>6 DEF Lapse, LeaseLapses, RowsInv, OutboxRow, WorkersInv, DeliveriesInv, consumerVars
  <1>7. ASSUME NEW e \in Events, Consume(e) PROVE PublisherInv'
    BY <1>7 DEF Consume, RowsInv, WorkersInv, DeliveriesInv
  <1>8. CASE UNCHANGED publisherVars
    BY <1>8 DEF publisherVars, RowsInv, WorkersInv, DeliveriesInv
  <1> QED
    BY <1>1, <1>2, <1>3, <1>4, <1>5, <1>6, <1>7, <1>8 DEF PublisherNext, Step

\* The invariant holds throughout.
LEMMA PublisherInvariant == PublisherSpec => []PublisherInv
  BY PublisherInitInv, PublisherStepInv, PTL DEF PublisherSpec

\* The variables keep their types.
THEOREM PublisherTypeCorrect == PublisherSpec => []PublisherTypeOK
  <1>1. PublisherInv => PublisherTypeOK
    BY DEF PublisherInv, RowsInv, WorkersInv, DeliveriesInv, PublisherTypeOK
  <1> QED
    BY <1>1, PublisherInvariant, PTL

\* A row says published only after the broker has received its event.
THEOREM PublishedMeansDelivered == PublisherSpec => []PublishedWasDelivered
  <1>1. PublisherInv => PublishedWasDelivered
    BY DEF PublisherInv, DeliveriesInv, PublishedWasDelivered
  <1> QED
    BY <1>1, PublisherInvariant, PTL

\* However often an event is delivered, its side effect runs at most once.
THEOREM EffectAtMostOnce == PublisherSpec => []EffectOnce
  <1>1. PublisherInv => EffectOnce
    BY DEF PublisherInv, DeliveriesInv, EffectOnce
  <1> QED
    BY <1>1, PublisherInvariant, PTL

\* Both, as the run checks them.
THEOREM PublisherIsSafe == PublisherSpec => []PublisherSafe
  <1>1. PublishedWasDelivered /\ EffectOnce => PublisherSafe
    BY DEF PublisherSafe
  <1> QED
    BY <1>1, PublishedMeansDelivered, EffectAtMostOnce, PTL

\* No report, claim or lease touches a published or failed row.
THEOREM TerminalRowsAreFinal == PublisherSpec => TerminalIsFinal
  <1> DEFINE Kept == \A e \in Events : outbox[e].status \in {"published", "failed"}
                                          => outbox'[e] = outbox[e]
  <1>1. ASSUME PublisherInv, [PublisherNext]_publisherVars PROVE Kept
    <2> USE <1>1, OutboxAssumption DEF OutboxAssumption, PublisherInv, RowsInv
    <2>1. ASSUME NEW w \in Workers, NEW e \in Events, ClaimNextEvent(w, e) PROVE Kept
      BY <2>1 DEF ClaimNextEvent, ClaimRow, Claimable
    <2>2. ASSUME NEW w \in Workers, NEW e, PublishRow(w, e) \/ FailRow(w, e) PROVE Kept
      BY <2>2 DEF PublishRow, FailRow
    <2>3. UNCHANGED outbox => Kept
      OBVIOUS
    <2> QED
      BY <2>1, <2>2, <2>3
         DEF PublisherNext, Step, Publish, MarkPublished, MarkPublishFailed, Crash, Lapse, LeaseLapses,
             Consume, publisherVars
  <1> QED
    BY <1>1, PublisherInvariant, PTL DEF PublisherSpec, TerminalIsFinal

-----------------------------------------------------------------------------
(* Delivery and the inbox. *)

\* No step changes the deployed receiver, and every variable keeps its type.
LEMMA TypeStep ==
    ASSUME DeliveryTypeOK, [DeliveryNext]_deliveryVars
    PROVE  DeliveryTypeOK' /\ handler' = handler
<1> USE DeliveryAssumption DEF DeliveryTypeOK
<1>1. CASE UNCHANGED deliveryVars
  BY <1>1 DEF deliveryVars
<1>2. ASSUME NEW s \in Senders, SenderStep(s) \/ ReceiverThrows(s)
      PROVE  DeliveryTypeOK' /\ handler' = handler
  <2>1. MessageOf[s] \in Messages
    OBVIOUS
  <2>2. CASE MessageLost(s)
    BY <2>2 DEF MessageLost, SenderGoto
  <2>3. CASE MessageArrives(s)
    BY <2>3, <2>1 DEF MessageArrives, SenderGoto
  <2>4. CASE NextAttempt(s)
    BY <2>4 DEF NextAttempt, SenderGoto
  <2>5. CASE ProcessNaive(s)
    BY <2>5, <2>1 DEF ProcessNaive, ApplyEffect, SenderGoto
  <2>6. CASE RacyCheck(s) \/ InboxInsert(s) \/ InboxUpdate(s) \/ ReceiverThrows(s)
    BY <2>6 DEF RacyCheck, InboxInsert, InboxUpdate, ReceiverThrows, SenderGoto
  <2>7. CASE RacyUpdate(s)
    BY <2>7, <2>1 DEF RacyUpdate, ApplyEffect, SenderGoto
  <2>8. CASE RacyInsert(s)
    BY <2>8, <2>1 DEF RacyInsert, SenderGoto
  <2>9. CASE InboxCommit(s)
    BY <2>9, <2>1 DEF InboxCommit, ApplyEffect, SenderGoto
  <2> QED
    BY <1>2, <2>2, <2>3, <2>4, <2>5, <2>6, <2>7, <2>8, <2>9 DEF SenderStep, Receive
<1> QED
  BY <1>1, <1>2 DEF DeliveryNext

\* Every reachable state has the declared types: in particular a sender never
\* makes more than maxAttempts attempts.
THEOREM DeliveryTypeCorrect == DeliverySpec => []DeliveryTypeOK
<1>1. DeliveryInit => DeliveryTypeOK
  BY DeliveryAssumption DEF DeliveryInit, DeliveryTypeOK
<1>2. DeliveryTypeOK /\ [DeliveryNext]_deliveryVars => DeliveryTypeOK'
  BY TypeStep
<1> QED
  BY <1>1, <1>2, PTL DEF DeliverySpec

-----------------------------------------------------------------------------
(* At least once. *)

\* The strengthening of AckedWasApplied: an answer on its way back, a row of
\* the inbox and a racy receiver past its UPDATE each stand for a committed
\* effect.
AckInv ==
    /\ \A m \in inbox : effects[m] >= 1
    /\ \A s \in Senders :
          /\ pc[s] = "applied" => effects[MessageOf[s]] >= 1
          /\ pc[s] = "answered" /\ ack[s] => effects[MessageOf[s]] >= 1
          /\ pc[s] = "acked" => effects[MessageOf[s]] >= 1

\* The counters of effects only grow.
LEMMA AppliedGrows ==
    ASSUME DeliveryTypeOK, [DeliveryNext]_deliveryVars
    PROVE  \A m \in Messages : effects'[m] >= effects[m]
<1> USE DeliveryAssumption DEF DeliveryTypeOK
<1>1. CASE UNCHANGED deliveryVars
  BY <1>1 DEF deliveryVars
<1>2. ASSUME NEW s \in Senders, SenderStep(s) \/ ReceiverThrows(s)
      PROVE  \A m \in Messages : effects'[m] >= effects[m]
  <2>1. CASE \/ ApplyEffect(MessageOf[s])
             \/ effects' = effects
    BY <2>1 DEF ApplyEffect
  <2> QED
    BY <1>2, <2>1 DEF SenderStep, Receive, MessageLost, MessageArrives, NextAttempt, ProcessNaive,
       RacyCheck, RacyUpdate, RacyInsert, InboxInsert, InboxUpdate, InboxCommit, ReceiverThrows
<1> QED
  BY <1>1, <1>2 DEF DeliveryNext

\* A step of sender s keeps AckInv.
LEMMA AckStep ==
    ASSUME DeliveryTypeOK, AckInv, NEW s \in Senders, SenderStep(s) \/ ReceiverThrows(s)
    PROVE  AckInv'
<1> USE DeliveryAssumption DEF DeliveryTypeOK
<1>0. DeliveryTypeOK' /\ \A m \in Messages : effects'[m] >= effects[m]
  BY TypeStep, AppliedGrows DEF DeliveryNext
<1>1. MessageOf[s] \in Messages
  OBVIOUS
<1>2. CASE MessageLost(s)
  BY <1>2 DEF MessageLost, SenderGoto, AckInv
<1>3. CASE MessageArrives(s)
  BY <1>3 DEF MessageArrives, SenderGoto, AckInv
<1>4. CASE NextAttempt(s)
  BY <1>4 DEF NextAttempt, SenderGoto, AckInv
<1>5. CASE ProcessNaive(s)
  <2>1. effects'[MessageOf[s]] >= 1
    BY <1>5, <1>1 DEF ProcessNaive, ApplyEffect
  <2> QED
    BY <1>5, <1>0, <1>1, <2>1 DEF ProcessNaive, SenderGoto, AckInv
<1>6. CASE RacyCheck(s)
  BY <1>6 DEF RacyCheck, SenderGoto, AckInv
<1>7. CASE RacyUpdate(s)
  <2>1. effects'[MessageOf[s]] >= 1
    BY <1>7, <1>1 DEF RacyUpdate, ApplyEffect
  <2> QED
    BY <1>7, <1>0, <1>1, <2>1 DEF RacyUpdate, SenderGoto, AckInv
<1>8. CASE RacyInsert(s)
  BY <1>8 DEF RacyInsert, SenderGoto, AckInv
<1>9. CASE InboxInsert(s)
  BY <1>9 DEF InboxInsert, SenderGoto, AckInv
<1>10. CASE InboxUpdate(s) \/ ReceiverThrows(s)
  BY <1>10 DEF InboxUpdate, ReceiverThrows, SenderGoto, AckInv
<1>11. CASE InboxCommit(s)
  <2>1. effects'[MessageOf[s]] >= 1
    BY <1>11, <1>1 DEF InboxCommit, ApplyEffect
  <2> QED
    BY <1>11, <1>0, <1>1, <2>1 DEF InboxCommit, SenderGoto, AckInv
<1> QED
  BY <1>2, <1>3, <1>4, <1>5, <1>6, <1>7, <1>8, <1>9, <1>10, <1>11 DEF SenderStep, Receive

\* At least once, for every receiver, network and number of senders: who saw
\* an acknowledgment can rely on the effect.
THEOREM AcknowledgedMeansApplied == DeliverySpec => []AckedWasApplied
<1>1. DeliveryInit => AckInv
  BY DEF DeliveryInit, AckInv
<1>2. DeliveryTypeOK /\ AckInv /\ [DeliveryNext]_deliveryVars => AckInv'
  <2>1. CASE UNCHANGED deliveryVars
    BY <2>1 DEF deliveryVars, AckInv
  <2> QED
    BY <2>1, AckStep DEF DeliveryNext
<1>3. AckInv => AckedWasApplied
  BY DEF AckInv, AckedWasApplied
<1> QED
  BY <1>1, <1>2, <1>3, DeliveryTypeCorrect, PTL DEF DeliverySpec

-----------------------------------------------------------------------------
(* Effectively once. *)

Holding(s) == pc[s] \in {"claimed", "updated"}

\* The strengthening of EffectivelyOnce: an open transaction holds the key of a
\* message that has no inbox row yet, and no other transaction holds it.
OnceInv ==
    handler = "idempotent" =>
        /\ \A m \in Messages : effects[m] = IF m \in inbox THEN 1 ELSE 0
        /\ \A s \in Senders : pc[s] \notin {"checked", "applied"}
        /\ \A s \in Senders : Holding(s) => MessageOf[s] \notin inbox
        /\ \A s, t \in Senders :
              Holding(s) /\ Holding(t) /\ MessageOf[s] = MessageOf[t] => s = t

\* A step of sender s keeps OnceInv.
LEMMA OnceStep ==
    ASSUME DeliveryTypeOK, OnceInv, NEW s \in Senders, SenderStep(s) \/ ReceiverThrows(s)
    PROVE  OnceInv'
<1>0. DeliveryTypeOK' /\ handler' = handler
  BY TypeStep DEF DeliveryNext
<1> SUFFICES ASSUME handler = "idempotent"
             PROVE  OnceInv'
  BY <1>0 DEF OnceInv
<1> USE DeliveryAssumption DEF DeliveryTypeOK
<1>1. MessageOf[s] \in Messages
  OBVIOUS
<1>2. CASE MessageLost(s) \/ MessageArrives(s)
  BY <1>2 DEF MessageLost, MessageArrives, SenderGoto, OnceInv, Holding
<1>3. CASE NextAttempt(s)
  BY <1>3 DEF NextAttempt, SenderGoto, OnceInv, Holding
<1>4. CASE ProcessNaive(s) \/ RacyCheck(s) \/ RacyUpdate(s) \/ RacyInsert(s)
  BY <1>4 DEF ProcessNaive, RacyCheck, RacyUpdate, RacyInsert, OnceInv
<1>5. CASE InboxInsert(s)
  <2>1. \A t \in Senders : Holding(t) => MessageOf[t] # MessageOf[s]
    BY <1>5 DEF InboxInsert, KeyHolders, Holding
  <2> QED
    BY <1>5, <2>1 DEF InboxInsert, SenderGoto, OnceInv, Holding
<1>6. CASE InboxUpdate(s) \/ ReceiverThrows(s)
  BY <1>6 DEF InboxUpdate, ReceiverThrows, SenderGoto, OnceInv, Holding
<1>7. CASE InboxCommit(s)
  <2>1. MessageOf[s] \notin inbox /\ Holding(s)
    BY <1>7 DEF InboxCommit, OnceInv, Holding
  <2>2. /\ ~Holding(s)'
        /\ \A t \in Senders \ {s} : pc'[t] = pc[t]
        /\ pc'[s] \in {"answered", "threw"}
    BY <1>7 DEF InboxCommit, SenderGoto, Holding
  <2>3. \A m \in Messages : effects'[m] = IF m \in inbox' THEN 1 ELSE 0
    BY <1>7, <1>1, <2>1 DEF InboxCommit, ApplyEffect, OnceInv
  <2>4. \A t \in Senders : Holding(t)' => MessageOf[t] \notin inbox'
    BY <1>7, <2>1, <2>2 DEF InboxCommit, OnceInv, Holding
  <2> QED
    BY <1>0, <2>2, <2>3, <2>4 DEF OnceInv, Holding
<1> QED
  BY <1>2, <1>3, <1>4, <1>5, <1>6, <1>7 DEF SenderStep, Receive

\* Effectively once: retries, concurrent deliveries, lost answers and aborted
\* transactions leave the idempotent receiver with one effect per message.
THEOREM OneEffectPerMessage == DeliverySpec => []EffectivelyOnce
<1>1. DeliveryInit => OnceInv
  BY DEF DeliveryInit, OnceInv, Holding
<1>2. DeliveryTypeOK /\ OnceInv /\ [DeliveryNext]_deliveryVars => OnceInv'
  <2>1. CASE UNCHANGED deliveryVars
    BY <2>1 DEF deliveryVars, OnceInv, Holding
  <2> QED
    BY <2>1, OnceStep DEF DeliveryNext
<1>3. OnceInv => EffectivelyOnce
  BY DEF OnceInv, EffectivelyOnce
<1> QED
  BY <1>1, <1>2, <1>3, DeliveryTypeCorrect, PTL DEF DeliverySpec

-----------------------------------------------------------------------------
(* No more effects than deliveries. *)

InHand(m) == {s \in Senders : MessageOf[s] = m /\ pc[s] \in {"received", "checked", "claimed", "updated"}}
Tried(m) == {s \in Senders : MessageOf[s] = m /\ pc[s] # "ready"}
OnceOnly(m) == \A s \in Senders : MessageOf[s] = m => ModeOf[s] = "once"

\* The strengthening of EffectsWithinDeliveries: a delivery in a receiver's hand
\* may still have its effect, and a sender that tries once has used its try up
\* as soon as it is under way.
WithinInv ==
    \A m \in Messages :
        /\ effects[m] + Cardinality(InHand(m)) <= reached[m]
        /\ OnceOnly(m) => reached[m] <= Cardinality(Tried(m))

\* Sets of senders are finite, and counting them goes one by one.
LEMMA SendersFinite ==
    ASSUME NEW S \in SUBSET Senders
    PROVE  /\ IsFiniteSet(S) /\ Cardinality(S) \in Nat
           /\ \A s \in Senders \ S : Cardinality(S \cup {s}) = Cardinality(S) + 1
           /\ \A s \in S : Cardinality(S \ {s}) = Cardinality(S) - 1
<1>1. IsFiniteSet(S)
  BY FiniteSenders, FS_Subset
<1> QED
  BY <1>1, FS_CardinalityType, FS_AddElement, FS_RemoveElement

\* A step of sender s touches the counts of its own message only, and there it
\* either takes a delivery in, keeps it, or gives it up with at most one effect.
LEMMA WithinStep ==
    ASSUME DeliveryTypeOK, WithinInv, NEW s \in Senders, SenderStep(s) \/ ReceiverThrows(s)
    PROVE  WithinInv'
<1> USE DeliveryAssumption DEF DeliveryTypeOK
<1> DEFINE m == MessageOf[s]
<1>0. m \in Messages
  OBVIOUS
<1>1. /\ \A t \in Senders \ {s} : pc'[t] = pc[t]
      /\ \A n \in Messages \ {m} : effects'[n] = effects[n] /\ reached'[n] = reached[n]
  BY DEF SenderStep, Receive, MessageLost, MessageArrives, NextAttempt, ProcessNaive, RacyCheck,
     RacyUpdate, RacyInsert, InboxInsert, InboxUpdate, InboxCommit, ReceiverThrows, SenderGoto, ApplyEffect
<1>2. ASSUME NEW n \in Messages \ {m}
      PROVE  InHand(n)' = InHand(n) /\ Tried(n)' = Tried(n)
  BY <1>1, <1>2 DEF InHand, Tried
<1>3. \/ /\ s \notin InHand(m) /\ InHand(m)' = InHand(m) \cup {s}
         /\ effects'[m] = effects[m] /\ reached'[m] = reached[m] + 1
         /\ s \notin Tried(m) /\ Tried(m)' = Tried(m) \cup {s}
      \/ /\ InHand(m)' = InHand(m)
         /\ effects'[m] = effects[m] /\ reached'[m] = reached[m]
         /\ \/ Tried(m)' = Tried(m)
            \/ s \notin Tried(m) /\ Tried(m)' = Tried(m) \cup {s}
            \/ ~OnceOnly(m)
      \/ /\ s \in InHand(m) /\ InHand(m)' = InHand(m) \ {s}
         /\ effects'[m] \in {effects[m], effects[m] + 1} /\ reached'[m] = reached[m]
         /\ Tried(m)' = Tried(m)
  <2>1. CASE MessageArrives(s)
    BY <2>1, <1>0, <1>1 DEF MessageArrives, SenderGoto, InHand, Tried
  <2>2. CASE MessageLost(s)
    BY <2>2, <1>0, <1>1 DEF MessageLost, SenderGoto, InHand, Tried
  <2>3. CASE NextAttempt(s)
    <3>1. InHand(m)' = InHand(m)
      BY <2>3, <1>1 DEF NextAttempt, SenderGoto, InHand
    <3>2. Tried(m)' = Tried(m) \/ ~OnceOnly(m)
      BY <2>3, <1>1 DEF NextAttempt, SenderGoto, Tried, OnceOnly
    <3> QED
      BY <2>3, <3>1, <3>2 DEF NextAttempt
  <2>4. CASE ProcessNaive(s) \/ RacyUpdate(s) \/ InboxCommit(s)
    BY <2>4, <1>0, <1>1 DEF ProcessNaive, RacyUpdate, InboxCommit, ApplyEffect, SenderGoto, InHand, Tried
  <2>5. CASE RacyCheck(s) \/ InboxInsert(s) \/ InboxUpdate(s) \/ RacyInsert(s) \/ ReceiverThrows(s)
    <3>1. Tried(m)' = Tried(m)
      BY <2>5, <1>1 DEF RacyCheck, InboxInsert, InboxUpdate, RacyInsert, ReceiverThrows, SenderGoto, Tried
    <3>2. \/ InHand(m)' = InHand(m)
          \/ s \in InHand(m) /\ InHand(m)' = InHand(m) \ {s}
      BY <2>5, <1>1 DEF RacyCheck, InboxInsert, InboxUpdate, RacyInsert, ReceiverThrows, SenderGoto, InHand
    <3>3. effects' = effects /\ reached' = reached
      BY <2>5 DEF RacyCheck, InboxInsert, InboxUpdate, RacyInsert, ReceiverThrows
    <3> QED
      BY <3>1, <3>2, <3>3
  <2> QED
    BY <2>1, <2>2, <2>3, <2>4, <2>5 DEF SenderStep, Receive
<1>4. /\ Cardinality(InHand(m)) \in Nat /\ Cardinality(Tried(m)) \in Nat
      /\ s \notin InHand(m) => Cardinality(InHand(m) \cup {s}) = Cardinality(InHand(m)) + 1
      /\ s \in InHand(m) => Cardinality(InHand(m) \ {s}) = Cardinality(InHand(m)) - 1
      /\ s \notin Tried(m) => Cardinality(Tried(m) \cup {s}) = Cardinality(Tried(m)) + 1
  <2>1. InHand(m) \in SUBSET Senders /\ Tried(m) \in SUBSET Senders
    BY DEF InHand, Tried
  <2> QED
    BY <2>1, SendersFinite
<1>5. /\ effects'[m] + Cardinality(InHand(m)') <= reached'[m]
      /\ OnceOnly(m) => reached'[m] <= Cardinality(Tried(m)')
  <2>1. /\ effects[m] + Cardinality(InHand(m)) <= reached[m]
        /\ OnceOnly(m) => reached[m] <= Cardinality(Tried(m))
    BY <1>0 DEF WithinInv
  <2>2. effects[m] \in Nat /\ reached[m] \in Nat
    BY <1>0
  <2> HIDE DEF DeliveryTypeOK
  <2>3. CASE /\ s \notin InHand(m) /\ InHand(m)' = InHand(m) \cup {s}
             /\ effects'[m] = effects[m] /\ reached'[m] = reached[m] + 1
             /\ s \notin Tried(m) /\ Tried(m)' = Tried(m) \cup {s}
    <3>1. /\ Cardinality(InHand(m)') = Cardinality(InHand(m)) + 1
          /\ Cardinality(Tried(m)') = Cardinality(Tried(m)) + 1
      BY <1>4, <2>3
    <3> QED
      BY <1>4, <2>1, <2>2, <2>3, <3>1
  <2>4. CASE /\ InHand(m)' = InHand(m)
             /\ effects'[m] = effects[m] /\ reached'[m] = reached[m]
             /\ \/ Tried(m)' = Tried(m)
                \/ s \notin Tried(m) /\ Tried(m)' = Tried(m) \cup {s}
                \/ ~OnceOnly(m)
    <3>1. CASE Tried(m)' = Tried(m)
      BY <2>1, <2>4, <3>1
    <3>2. CASE s \notin Tried(m) /\ Tried(m)' = Tried(m) \cup {s}
      <4>1. Cardinality(Tried(m)') = Cardinality(Tried(m)) + 1
        BY <1>4, <3>2
      <4> QED
        BY <1>4, <2>1, <2>2, <2>4, <4>1
    <3>3. CASE ~OnceOnly(m)
      BY <2>1, <2>4, <3>3
    <3> QED
      BY <2>4, <3>1, <3>2, <3>3
  <2>5. CASE /\ s \in InHand(m) /\ InHand(m)' = InHand(m) \ {s}
             /\ effects'[m] \in {effects[m], effects[m] + 1} /\ reached'[m] = reached[m]
             /\ Tried(m)' = Tried(m)
    <3>1. Cardinality(InHand(m)') = Cardinality(InHand(m)) - 1
      BY <1>4, <2>5
    <3> QED
      BY <1>4, <2>1, <2>2, <2>5, <3>1
  <2> QED
    BY <1>3, <2>3, <2>4, <2>5
<1> QED
  BY <1>1, <1>2, <1>5 DEF WithinInv, OnceOnly

\* No receiver, not even a naive or racy one, has more effects than deliveries;
\* at most once, for senders that try once.
THEOREM EffectsAreBounded == DeliverySpec => []EffectsWithinDeliveries
<1>1. DeliveryInit => WithinInv
  <2> SUFFICES ASSUME DeliveryInit, NEW m \in Messages
               PROVE  /\ effects[m] + Cardinality(InHand(m)) <= reached[m]
                      /\ reached[m] <= Cardinality(Tried(m))
    BY DEF WithinInv
  <2>1. InHand(m) = {} /\ Tried(m) = {}
    BY DEF DeliveryInit, InHand, Tried
  <2> QED
    BY <2>1, FS_EmptySet DEF DeliveryInit
<1>2. DeliveryTypeOK /\ WithinInv /\ [DeliveryNext]_deliveryVars => WithinInv'
  <2>1. CASE UNCHANGED deliveryVars
    BY <2>1 DEF deliveryVars, WithinInv, InHand, Tried, OnceOnly
  <2> QED
    BY <2>1, WithinStep DEF DeliveryNext
<1>3. DeliveryTypeOK /\ WithinInv => EffectsWithinDeliveries
  <2> SUFFICES ASSUME DeliveryTypeOK, WithinInv, NEW m \in Messages
               PROVE  /\ effects[m] <= reached[m]
                      /\ OnceOnly(m) => reached[m] <= Cardinality({s \in Senders : MessageOf[s] = m})
    BY DEF EffectsWithinDeliveries, OnceOnly
  <2> DEFINE All == {s \in Senders : MessageOf[s] = m}
  <2>1. All \in SUBSET Senders /\ InHand(m) \in SUBSET Senders /\ Tried(m) \in SUBSET Senders /\ Tried(m) \subseteq All
    BY DEF InHand, Tried
  <2>2. /\ Cardinality(InHand(m)) \in Nat /\ Cardinality(Tried(m)) \in Nat /\ Cardinality(All) \in Nat
        /\ IsFiniteSet(All)
    BY <2>1, SendersFinite
  <2>3. Cardinality(Tried(m)) <= Cardinality(All)
    BY <2>1, <2>2, FS_Subset
  <2>4. effects[m] \in Nat /\ reached[m] \in Nat
    BY DEF DeliveryTypeOK
  <2> QED
    BY <2>2, <2>3, <2>4 DEF WithinInv
<1> QED
  BY <1>1, <1>2, <1>3, DeliveryTypeCorrect, PTL DEF DeliverySpec

\* The three delivery semantics, as the run checks them.
THEOREM DeliveryIsSafe == DeliverySpec => []DeliverySafe
<1>1. AckedWasApplied /\ EffectivelyOnce /\ EffectsWithinDeliveries => DeliverySafe
  BY DEF DeliverySafe
<1> QED
  BY <1>1, AcknowledgedMeansApplied, OneEffectPerMessage, EffectsAreBounded, PTL
=============================================================================
