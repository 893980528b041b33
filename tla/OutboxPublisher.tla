-------------------------- MODULE OutboxPublisher --------------------------
(***************************************************************************)
(* The publishers of lab 17: claimAndPublish() of                          *)
(* src/queue/claim-and-publish.ts run by several workers, the simulated    *)
(* broker (broker.ts) and the idempotent consumer preview                  *)
(* (idempotent-consumer.ts).  Claim, broker call and finalizing UPDATE are *)
(* separate steps; a worker may be slow or die between any two of them.    *)
(***************************************************************************)
EXTENDS OutboxQueue

CONSTANT NoEvent

VARIABLES worker,      \* position of each worker and the event in its hands
          deliveries,  \* broker.deliveries, counted per event
          inTransit,   \* deliveries the consumer has not seen yet
          processed,   \* rows of processed_events
          applied      \* how often the side effect of an event ran

publisherVars == <<outbox, lapsed, worker, deliveries, inTransit, processed, applied>>

Resting == [pc |-> "idle", event |-> NoEvent]

PublisherInit ==
    /\ OutboxInit
    /\ worker = [w \in Workers |-> Resting]
    /\ deliveries = [e \in Events |-> 0]
    /\ inTransit = [e \in Events |-> 0]
    /\ processed = {}
    /\ applied = [e \in Events |-> 0]

consumerVars == <<inTransit, processed, applied>>

Goto(w, p) == worker' = [worker EXCEPT ![w].pc = p]

ClaimNextEvent(w, e) ==
    /\ worker[w].pc = "idle"
    /\ ClaimRow(w, e)
    /\ worker' = [worker EXCEPT ![w] = [pc |-> "claimed", event |-> e]]
    /\ UNCHANGED <<lapsed, deliveries, consumerVars>>

\* Mutants of the loop body and of the consumer.
\* The finalizing UPDATE comes before the broker call.
MutPublishMarksFirst(w) ==
    LET e == worker[w].event IN
    /\ worker[w].pc = "claimed"
    /\ PublishRow(w, e)
    /\ Goto(w, "published")
    /\ UNCHANGED <<lapsed, deliveries, consumerVars>>

\* broker.publish: the broker receives the event, or throws.
Publish(w) ==
    LET e == worker[w].event IN
    /\ worker[w].pc = "claimed"
    /\ \/ /\ deliveries' = [deliveries EXCEPT ![e] = @ + 1]
          /\ inTransit' = [inTransit EXCEPT ![e] = @ + 1]
          /\ Goto(w, "published")
       \/ /\ UNCHANGED <<deliveries, inTransit>>
          /\ Goto(w, "failing")
    /\ UNCHANGED <<outbox, lapsed, processed, applied>>

\* markPublished: it succeeds, or it throws with or without having been
\* applied and the catch block reports a failure.
MarkPublished(w) ==
    /\ worker[w].pc = "published"
    /\ \/ PublishRow(w, worker[w].event) /\ worker' = [worker EXCEPT ![w] = Resting]
       \/ PublishRow(w, worker[w].event) /\ Goto(w, "failing")
       \/ UNCHANGED outbox /\ Goto(w, "failing")
    /\ UNCHANGED <<lapsed, deliveries, consumerVars>>

MarkPublishFailed(w) ==
    /\ worker[w].pc = "failing"
    /\ FailRow(w, worker[w].event)
    /\ worker' = [worker EXCEPT ![w] = Resting]
    /\ UNCHANGED <<lapsed, deliveries, consumerVars>>

\* The worker dies (skipFinalize simulates it) and is started again under the
\* same id; the row it had claimed waits for its lease to lapse.
Crash(w) ==
    /\ worker[w].pc # "idle"
    /\ outbox[worker[w].event].attempts < MaxClaims
    /\ worker' = [worker EXCEPT ![w] = Resting]
    /\ UNCHANGED <<outbox, lapsed, deliveries, consumerVars>>

\* consumeIdempotently: INSERT ... ON CONFLICT DO NOTHING, then the side
\* effect, which is lost if the consumer dies in between.
Consume(e) ==
    /\ inTransit[e] > 0
    /\ inTransit' = [inTransit EXCEPT ![e] = @ - 1]
    /\ processed' = processed \cup {e}
    /\ \/ applied' = [applied EXCEPT ![e] = IF e \in processed THEN @ ELSE @ + 1]
       \/ UNCHANGED applied
    /\ UNCHANGED <<outbox, lapsed, worker, deliveries>>

Lapse(e) ==
    /\ LeaseLapses(e)
    /\ UNCHANGED <<worker, deliveries, consumerVars>>

Step(w) == \/ \E e \in Events : ClaimNextEvent(w, e)
           \/ Publish(w) \/ MarkPublished(w) \/ MarkPublishFailed(w)

PublisherNext == \/ \E w \in Workers : Step(w) \/ Crash(w)
                 \/ \E e \in Events : Lapse(e) \/ Consume(e)

PublisherSpec == PublisherInit /\ [][PublisherNext]_publisherVars

-----------------------------------------------------------------------------
\* Types of the table, the workers, the broker's and the consumer's counts.
PublisherTypeOK ==
    /\ outbox \in [Events -> OutboxRow]
    /\ lapsed \subseteq Events \X Nat
    /\ worker \in [Workers -> [pc : {"idle", "claimed", "published", "failing"},
                               event : Events \cup {NoEvent}]]
    /\ deliveries \in [Events -> Nat]
    /\ inTransit \in [Events -> Nat]
    /\ processed \subseteq Events
    /\ applied \in [Events -> Nat]

\* A row says published only after the broker has really received the event,
\* whoever reports it, and however late.
PublishedWasDelivered ==
    \A e \in Events : outbox[e].status = "published" => deliveries[e] > 0

\* Duplicate deliveries (a claim that died after its broker call) reach the
\* side effect at most once.
EffectOnce == \A e \in Events : applied[e] <= 1

\* At least one delivery before the row says so, at most one effect after it.
PublisherSafe == PublishedWasDelivered /\ EffectOnce

\* Every event has ended published or failed, crashes and stalls included.
EventsEnded == \A e \in Events : outbox[e].status \in {"published", "failed"}
=============================================================================
