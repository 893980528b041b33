-------------------------- MODULE ChoreographedSaga --------------------------
(***************************************************************************)
(* The choreography of lab 20 (choreography/event-bus.ts, handlers.ts,     *)
(* run.ts), next to orchestrated sagas on the same tables.  A choreographed*)
(* saga is a chain of hops: publish logs the event, logs that its only     *)
(* subscriber consumes it and awaits the handler, which runs one step and  *)
(* publishes the next event.  Nobody holds the whole order of the steps;   *)
(* ChoreographyIsOrchestration says that it is the orchestrator's.         *)
(***************************************************************************)
EXTENDS OrderSaga, SequencesExt

CONSTANT Choreographed   \* the sagas that runChoreographedOrderSaga runs

ASSUME ChoreographyAssumption == Choreographed \subseteq Sagas

VARIABLES event,   \* the event that travels, per saga
          hop      \* where it is, or how runChoreographedOrderSaga was settled

busVars == <<event, hop>>
choreographyVars == <<sagaVars, busVars>>

\* The one subscriber of each event runs one step.
HandledBy(e) ==
    [OrderCreated |-> "reserveInventory", InventoryReserved |-> "capturePayment",
     PaymentCaptured |-> "createShipment", ShipmentCreated |-> "completeOrder",
     InventoryReservationFailed |-> "cancelOrder", PaymentFailed |-> "releaseInventory",
     ShipmentFailed |-> "refundPayment", PaymentRefunded |-> "releaseInventory",
     InventoryReleased |-> "cancelOrder"][e]

BusEvents == {"OrderCreated", "InventoryReserved", "PaymentCaptured", "ShipmentCreated",
              "InventoryReservationFailed", "PaymentFailed", "ShipmentFailed",
              "PaymentRefunded", "InventoryReleased", "OrderCancelled"}

\* The event a handler publishes after its step; "none" ends the chain.
Announces(e, failed) ==
    CASE e = "OrderCreated"      -> IF failed THEN "InventoryReservationFailed" ELSE "InventoryReserved"
      [] e = "InventoryReserved" -> IF failed THEN "PaymentFailed" ELSE "PaymentCaptured"
      [] e = "PaymentCaptured"   -> IF failed THEN "ShipmentFailed" ELSE "ShipmentCreated"
      [] e = "ShipmentCreated"   -> "none"
      [] e = "ShipmentFailed"    -> "PaymentRefunded"
      [] e \in {"PaymentFailed", "PaymentRefunded"} -> "InventoryReleased"
      [] e \in {"InventoryReservationFailed", "InventoryReleased"} -> "OrderCancelled"

ChoreographyInit ==
    /\ SagaInit
    /\ event = [s \in Sagas |-> "none"]
    /\ hop = [s \in Sagas |-> "create"]

\* bus.publish(e) is called next; with "none" the awaits return instead.
PublishNext(s, e) ==
    /\ event' = [event EXCEPT ![s] = IF e = "none" THEN @ ELSE e]
    /\ hop' = [hop EXCEPT ![s] = IF e = "none" THEN "returned" ELSE "publish"]

Settle(s, how) == hop' = [hop EXCEPT ![s] = how] /\ UNCHANGED event

-----------------------------------------------------------------------------
(* runChoreographedOrderSaga and the event bus. *)

Create(s) ==
    /\ hop[s] = "create"
    /\ \/ StepCommits(s, "createOrder") /\ PublishNext(s, "OrderCreated")
       \/ StepFails(s, "createOrder") /\ Settle(s, "aborted")
    /\ UNCHANGED turn

\* An event nobody listens to, OrderCancelled, ends the cascade.
Publish(s) ==
    /\ hop[s] = "publish"
    /\ InsertSagaLog(s, <<event[s], "published">>)
    /\ Settle(s, IF event[s] = "OrderCancelled" THEN "returned" ELSE "consume")
    /\ UNCHANGED <<tables, turn>>

Consume(s) ==
    /\ hop[s] = "consume"
    /\ InsertSagaLog(s, <<event[s], "consumed">>)
    /\ Settle(s, "handle")
    /\ UNCHANGED <<tables, turn>>

\* A handler that stays silent after a compensation failed.
MutHandleSilent(s) ==
    /\ hop[s] = "handle"
    /\ LET step == HandledBy(event[s])
       IN  \/ StepCommits(s, step) /\ PublishNext(s, Announces(event[s], FALSE))
           \/ /\ StepFails(s, step)
              /\ PublishNext(s, IF step \in Compensating THEN "none" ELSE Announces(event[s], TRUE))
    /\ UNCHANGED turn

\* A handler runs its step.  Those of the forward chain look at the answer.
Handle(s) ==
    /\ hop[s] = "handle"
    /\ LET step == HandledBy(event[s])
       IN  \/ StepCommits(s, step) /\ PublishNext(s, Announces(event[s], FALSE))
           \/ StepFails(s, step) /\ PublishNext(s, Announces(event[s], TRUE))
    /\ UNCHANGED turn

\* An exception in a step or in a row of the bus rejects every await above it.
ChainRejects(s) ==
    /\ \/ hop[s] = "create" /\ StepThrows(s, "createOrder")
       \/ hop[s] \in {"publish", "consume"} /\ UNCHANGED <<tables, log>>
       \/ hop[s] = "handle" /\ StepThrows(s, HandledBy(event[s]))
    /\ Settle(s, "rejected")
    /\ UNCHANGED turn

RunChoreographedOrderSaga(s) ==
    Create(s) \/ Publish(s) \/ Consume(s) \/ Handle(s) \/ ChainRejects(s)

Orchestrate(s) == RunOrderSaga(s) /\ UNCHANGED busVars

ChoreographyNext ==
    \/ \E s \in Sagas \ Choreographed : Orchestrate(s)
    \/ \E s \in Choreographed : RunChoreographedOrderSaga(s)

ChoreographySpec == ChoreographyInit /\ [][ChoreographyNext]_choreographyVars

-----------------------------------------------------------------------------
(* A choreographed saga seen as an orchestrated one.                       *)

\* The step a hop leads to, or the outcome the chain has come to.
Position(s) ==
    IF s \notin Choreographed THEN turn[s]
    ELSE IF event[s] = "OrderCancelled" THEN "compensated"
    ELSE CASE hop[s] = "create"   -> "createOrder"
           [] hop[s] = "aborted"  -> "aborted"
           [] hop[s] = "returned" -> "completed"
           [] hop[s] = "rejected" -> "rejected"
           [] OTHER               -> HandledBy(event[s])

\* The rows that steps have written, without those of the bus.
OnlySteps(rows) ==
    LET kept[n \in 0 .. Len(rows)] ==
            IF n = 0 THEN <<>>
            ELSE IF rows[n][1] \in Steps THEN Append(kept[n - 1], rows[n]) ELSE kept[n - 1]
    IN  kept[Len(rows)]

StepRows(s) == OnlySteps(log[s])

Orchestrator == INSTANCE OrderSaga
    WITH turn <- [s \in Sagas |-> Position(s)], log <- [s \in Sagas |-> StepRows(s)]

\* The handlers together take the steps, the turns and the outcomes of the one
\* function the orchestrator is, whatever fails on the way (README of lab 20:
\* the operations are identical, only the coordination differs).
ChoreographyIsOrchestration == Orchestrator!SagaSpec

-----------------------------------------------------------------------------
(* What the tables may look like. *)

\* The variables hold what the tables and the call stacks of the code can hold.
SagaTypeOK ==
    /\ available \in 0..Stock
    /\ order \in [Sagas -> {"none", "pending", "completed", "cancelled"}]
    /\ reservation \in [Sagas -> {"none", "reserved", "released"}]
    /\ payment \in [Sagas -> {"none", "captured", "refunded"}]
    /\ shipment \in [Sagas -> {"none", "created"}]
    /\ \A s \in Sagas : \A row \in Range(log[s]) :
          row \in (Steps \X {"success", "failure"}) \cup (BusEvents \X {"published", "consumed"})
    /\ turn \in [Sagas -> Steps \cup SagaOutcomes]
    /\ event \in [Sagas -> BusEvents \cup {"none"}]
    /\ hop \in [Sagas -> {"create", "publish", "consume", "handle"} \cup {"returned", "aborted", "rejected"}]

\* Stock is never lost or sold twice: what is available and what live
\* reservations hold always add up, across sagas, failures and crashes.
StockConserved ==
    available + MapThenSumSet(LAMBDA s : Quantity[s], {s \in Sagas : reservation[s] = "reserved"}) = Stock

\* Goods that are on their way belong to an order that stands: paid, reserved
\* and not cancelled, also when the answer of the shipment's commit is lost.
ShippedIsKept ==
    \A s \in Sagas : shipment[s] = "created" =>
        order[s] # "cancelled" /\ payment[s] = "captured" /\ reservation[s] = "reserved"

\* When a saga reports "compensated", whatever it still holds is in saga_log
\* as a compensation that failed: the caller is not told, the audit trail is.
LeftoverIsLogged ==
    \A s \in Sagas : Position(s) = "compensated" =>
        /\ payment[s] = "captured" => <<"refundPayment", "failure">> \in Range(log[s])
        /\ reservation[s] = "reserved" => <<"releaseInventory", "failure">> \in Range(log[s])
        /\ order[s] = "pending" => <<"cancelOrder", "failure">> \in Range(log[s])

Done(s, step) == <<step, "success">> \in Range(log[s])

\* saga_log and the business tables tell the same story at every moment, also
\* of a saga whose process died between two steps (README of lab 20).
LogTellsTheTables ==
    \A s \in Sagas :
        /\ order[s] = IF Done(s, "cancelOrder") THEN "cancelled"
                      ELSE IF Done(s, "completeOrder") THEN "completed"
                      ELSE IF Done(s, "createOrder") THEN "pending" ELSE "none"
        /\ reservation[s] = IF Done(s, "releaseInventory") THEN "released"
                            ELSE IF Done(s, "reserveInventory") THEN "reserved" ELSE "none"
        /\ payment[s] = IF Done(s, "refundPayment") THEN "refunded"
                        ELSE IF Done(s, "capturePayment") THEN "captured" ELSE "none"
        /\ shipment[s] = "created" <=> Done(s, "createShipment")

\* The audit trail can be trusted alone: at every moment it tells what the tables
\* hold, and of a saga that reports "compensated" what it could not take back.
LogTellsTheTruth == LogTellsTheTables /\ LeftoverIsLogged

\* Every saga has come to an outcome.
SagasOver == \A s \in Sagas : Position(s) \in SagaOutcomes
=============================================================================
