------------------------------ MODULE SagaSteps ------------------------------
(***************************************************************************)
(* The steps of the order saga of lab 20 (domain/steps.ts,                 *)
(* domain/compensating-steps.ts) and the tables they write.  Each step is  *)
(* one transaction, run by runStep: its work and its "success" row of      *)
(* saga_log commit together; after an error the transaction rolls back and *)
(* a "failure" row is written on its own.  Both mechanisms, the            *)
(* orchestrator and the choreography, run these steps.                     *)
(*                                                                         *)
(* Every order asks for one SKU.  A step that touches the inventory row    *)
(* locks it with its first statement, so such steps take effect one after  *)
(* the other and each is a single action.                                  *)
(***************************************************************************)
EXTENDS Integers, Sequences, FiniteSetsExt

CONSTANTS Sagas,      \* the runs of the saga, each with its order
          Quantity,   \* OrderSagaInput.quantity
          Stock       \* inventory_items.available_quantity at the start

ASSUME SagaAssumption ==
    /\ IsFiniteSet(Sagas)
    /\ Quantity \in [Sagas -> Nat \ {0}]
    /\ Stock \in Nat

VARIABLES available,    \* inventory_items.available_quantity
          order,        \* orders.status
          reservation,  \* inventory_reservations.status
          payment,      \* payments.status
          shipment,     \* shipments.status
          log           \* saga_log: the rows <<step_name, outcome>> of each order

tables == <<available, order, reservation, payment, shipment>>

Forward == {"createOrder", "reserveInventory", "capturePayment", "createShipment", "completeOrder"}
Compensating == {"refundPayment", "releaseInventory", "cancelOrder"}
Steps == Forward \cup Compensating

TablesInit ==
    /\ available = Stock
    /\ order = [s \in Sagas |-> "none"]
    /\ reservation = [s \in Sagas |-> "none"]
    /\ payment = [s \in Sagas |-> "none"]
    /\ shipment = [s \in Sagas |-> "none"]
    /\ log = [s \in Sagas |-> <<>>]

\* insertSagaLog.
InsertSagaLog(s, row) == log' = [log EXCEPT ![s] = Append(@, row)]

-----------------------------------------------------------------------------
(* The work of each step. *)

SetOrder(s, status) ==
    /\ order' = [order EXCEPT ![s] = status]
    /\ UNCHANGED <<available, reservation, payment, shipment>>

ReserveInventory(s) ==
    /\ available >= Quantity[s]
    /\ available' = available - Quantity[s]
    /\ reservation' = [reservation EXCEPT ![s] = "reserved"]
    /\ UNCHANGED <<order, payment, shipment>>

SetPayment(s, status) ==
    /\ payment' = [payment EXCEPT ![s] = status]
    /\ UNCHANGED <<available, order, reservation, shipment>>

CreateShipment(s) ==
    /\ shipment' = [shipment EXCEPT ![s] = "created"]
    /\ UNCHANGED <<available, order, reservation, payment>>

\* Mutant: a release that gives the stock back and leaves the reservation as it was.
MutReleaseInventoryKeepsRow(s) ==
    /\ available' = available + Quantity[s]
    /\ UNCHANGED <<order, reservation, payment, shipment>>

ReleaseInventory(s) ==
    /\ available' = available + Quantity[s]
    /\ reservation' = [reservation EXCEPT ![s] = "released"]
    /\ UNCHANGED <<order, payment, shipment>>

SagaWork(s, step) ==
    CASE step = "createOrder"      -> SetOrder(s, "pending")
      [] step = "reserveInventory" -> ReserveInventory(s)
      [] step = "capturePayment"   -> SetPayment(s, "captured")
      [] step = "createShipment"   -> CreateShipment(s)
      [] step = "completeOrder"    -> SetOrder(s, "completed")
      [] step = "refundPayment"    -> SetPayment(s, "refunded")
      [] step = "releaseInventory" -> ReleaseInventory(s)
      [] step = "cancelOrder"      -> SetOrder(s, "cancelled")

-----------------------------------------------------------------------------
(* runStep. *)

\* The transaction commits, and the caller gets its answer or does not.
StepCommits(s, step) ==
    /\ SagaWork(s, step)
    /\ InsertSagaLog(s, <<step, "success">>)

\* Mutant: a failure that leaves what the step had written in place.
MutStepFailsKeepsWork(s, step) ==
    /\ SagaWork(s, step)
    /\ InsertSagaLog(s, <<step, "failure">>)

\* Mutant: a reservation that waits for stock instead of giving up.
MutStepFailsButWaits(s, step) ==
    /\ step = "reserveInventory" => available >= Quantity[s]
    /\ UNCHANGED tables
    /\ InsertSagaLog(s, <<step, "failure">>)

\* The work throws: not enough stock, a declined payment, a failing statement.
StepFails(s, step) ==
    /\ UNCHANGED tables
    /\ InsertSagaLog(s, <<step, "failure">>)

\* Mutant: a success row that is written after the COMMIT, and so may be missed.
MutStepThrowsUnlogged(s, step) ==
    UNCHANGED <<tables, log>> \/ (SagaWork(s, step) /\ UNCHANGED log)

\* The connection is lost: ROLLBACK, or the row that records the failure,
\* throws too, and so does runStep.  The COMMIT may have been applied.
StepThrows(s, step) ==
    \/ UNCHANGED <<tables, log>>
    \/ StepCommits(s, step)
=============================================================================
