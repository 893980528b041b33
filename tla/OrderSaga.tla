------------------------------ MODULE OrderSaga ------------------------------
(***************************************************************************)
(* The orchestrator of lab 20, runOrderSaga (orchestration/orchestrator.ts *)
(* and compensation.ts): one function that awaits the steps in turn and,   *)
(* when one fails, the compensations of the steps before it.  It looks at  *)
(* the answers of the four forward steps only; what completeOrderStep and  *)
(* the compensations return is dropped.                                    *)
(***************************************************************************)
EXTENDS SagaSteps

VARIABLE turn   \* the step each saga awaits, or how its promise was settled

sagaVars == <<tables, log, turn>>

SagaOutcomes == {"completed", "compensated", "aborted", "rejected"}

SagaInit == TablesInit /\ turn = [s \in Sagas |-> "createOrder"]

AfterSuccess(step) ==
    [createOrder |-> "reserveInventory", reserveInventory |-> "capturePayment",
     capturePayment |-> "createShipment", createShipment |-> "completeOrder",
     completeOrder |-> "completed", refundPayment |-> "releaseInventory",
     releaseInventory |-> "cancelOrder", cancelOrder |-> "compensated"][step]

\* A forward step's failure turns the saga round; a compensation's does not stop it.
AfterFailure(step) ==
    [createOrder |-> "aborted", reserveInventory |-> "cancelOrder",
     capturePayment |-> "releaseInventory", createShipment |-> "refundPayment",
     completeOrder |-> "completed", refundPayment |-> "releaseInventory",
     releaseInventory |-> "cancelOrder", cancelOrder |-> "compensated"][step]

TurnTo(s, next) == turn' = [turn EXCEPT ![s] = next]

StepSucceeds(s) ==
    /\ turn[s] \in Steps
    /\ StepCommits(s, turn[s])
    /\ TurnTo(s, AfterSuccess(turn[s]))

StepReturnsFailure(s) ==
    /\ turn[s] \in Steps
    /\ StepFails(s, turn[s])
    /\ TurnTo(s, AfterFailure(turn[s]))

\* runOrderSaga has no try: an exception of a step, or a crash, ends it there.
SagaRejects(s) ==
    /\ turn[s] \in Steps
    /\ StepThrows(s, turn[s])
    /\ TurnTo(s, "rejected")

RunOrderSaga(s) == StepSucceeds(s) \/ StepReturnsFailure(s) \/ SagaRejects(s)

SagaNext == \E s \in Sagas : RunOrderSaga(s)

SagaSpec == SagaInit /\ [][SagaNext]_sagaVars
=============================================================================
