------------------------------ MODULE MCOrders ------------------------------
(***************************************************************************)
(* Orders from end to end: the capstone's checkout, the notification       *)
(* pipeline behind it, and the order sagas of lab 20.  The first two meet  *)
(* only in the committed outbox rows, the sagas have tables of their own,  *)
(* so a behaviour exercises one of them, its subject: three retries of one *)
(* checkout and a second key of the same customer for the same seat, on    *)
(* two connections; two workers that share a breaker, and one event; or    *)
(* two orchestrated sagas and a choreographed one that ask for more of one *)
(* item than there is.                                                     *)
(***************************************************************************)
EXTENDS Checkout, NotificationPipeline, ChoreographedSaga, TLC

CONSTANTS r1, r2, r3, r4, ka, kb, s1, alice, w1, w2, e1, g1, g2, g3

MCRequests == {r1, r2, r3, r4}
MCKeys == {ka, kb}
MCSeatIds == {s1}
MCCustomers == {alice}
MCKeyOf == (r1 :> ka) @@ (r2 :> ka) @@ (r3 :> ka) @@ (r4 :> kb)
MCSeatOf == [k \in MCKeys |-> s1]
MCCustomerOf == [k \in MCKeys |-> alice]
MCWorkers == {w1, w2}
MCEvents == {e1}
MCSagas == {g1, g2, g3}
MCChoreographed == {g2}
MCQuantity == (g1 :> 1) @@ (g2 :> 2) @@ (g3 :> 1)

VARIABLE subject

ordersVars == <<subject, checkoutVars, pipelineVars, choreographyVars>>

Init ==
    /\ subject \in {"checkout", "pipeline", "sagas"}
    /\ CheckoutInit /\ PipelineInit /\ ChoreographyInit

Next ==
    /\ UNCHANGED subject
    /\ \/ subject = "checkout" /\ CheckoutNext /\ UNCHANGED <<pipelineVars, choreographyVars>>
       \/ subject = "pipeline" /\ PipelineNext /\ UNCHANGED <<checkoutVars, choreographyVars>>
       \/ subject = "sagas" /\ ChoreographyNext /\ UNCHANGED <<checkoutVars, pipelineVars>>

\* The server runs the statements of the requests it has accepted; no client
\* is obliged to send one, and nothing has to fail.
CheckoutFairness ==
    \A r \in Requests : WF_checkoutVars(subject = "checkout" /\ Execute(r))

\* The worker loops run and time passes; no send has to succeed.
PipelineFairness ==
    /\ \A w \in Workers : WF_pipelineVars(subject = "pipeline" /\ Work(w))
    /\ \A e \in Events : WF_pipelineVars(subject = "pipeline" /\ Lapse(e))
    /\ WF_pipelineVars(subject = "pipeline" /\ TickBreaker)

\* Each saga is a chain of awaits, and every statement is answered in the end:
\* a saga goes on unless it rejects.
SagaFairness ==
    /\ \A s \in Sagas \ Choreographed :
          WF_choreographyVars(/\ subject = "sagas"
                              /\ (StepSucceeds(s) \/ StepReturnsFailure(s)) /\ UNCHANGED busVars)
    /\ \A s \in Choreographed :
          WF_choreographyVars(/\ subject = "sagas"
                              /\ Create(s) \/ Publish(s) \/ Consume(s) \/ Handle(s))

Spec == Init /\ [][Next]_ordersVars /\ CheckoutFairness /\ PipelineFairness /\ SagaFairness

\* Every checkout request that got a connection is answered (the duplicate that
\* waits for the original's key included), and every event is settled.
CheckoutsAndEventsEnd ==
    <>[](/\ subject = "checkout" => RequestsEnded
         /\ subject = "pipeline" => EventsSettled)

\* Every saga comes to an outcome: the cascade of awaits has no way to wait for ever.
SagasEnd == <>(subject = "sagas" => SagasOver)

=============================================================================
