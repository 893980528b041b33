----------------------------- MODULE SagaProofs -----------------------------
(***************************************************************************)
(* The sagas of lab 20 for every set of them, orchestrated or              *)
(* choreographed, every quantity and every stock: what is shipped is kept, *)
(* the stock is conserved, saga_log tells the truth, and the choreography  *)
(* is the orchestrator.                                                    *)
(*                                                                         *)
(* None of the invariants is inductive.  Stage ties the tables to the      *)
(* position of a saga: the shipment's commit must find a paid, reserved,   *)
(* uncancelled order, and no compensation may run after it.  Trail ties    *)
(* saga_log to both: what is still ahead is not on record, and what a      *)
(* compensation behind left over has its failure on record.  The stock     *)
(* needs the sums of Sums.tla.                                             *)
(*                                                                         *)
(* NextAdvances turns every step, each hop of the choreography included,   *)
(* into a step of the orchestrator at the saga's position (Advances), so   *)
(* that the invariants are argued once for both mechanisms, and the        *)
(* refinement follows.                                                     *)
(***************************************************************************)
EXTENDS ChoreographedSaga, Sums

\* What the position of a saga says of its rows.
Stage(s) ==
    /\ Position(s) \in (Steps \ {"completeOrder"}) \cup {"compensated", "aborted"} => shipment[s] = "none"
    /\ Position(s) \in {"capturePayment", "createShipment", "refundPayment", "releaseInventory"} =>
          reservation[s] = "reserved"
    /\ Position(s) = "createShipment" => payment[s] = "captured"
    /\ Position(s) \in Forward => order[s] # "cancelled"
    /\ shipment[s] = "created" =>
          order[s] # "cancelled" /\ payment[s] = "captured" /\ reservation[s] = "reserved"

Status == {"none", "pending", "completed", "cancelled", "reserved", "released",
           "captured", "refunded"}
Shipped == {"none", "created"}

\* An event travels exactly while the chain runs.
HopOK(s) ==
    /\ hop[s] \in {"create", "publish", "consume", "handle", "returned", "aborted", "rejected"}
    /\ event[s] \in BusEvents \cup {"none"}
    /\ hop[s] \in {"publish", "consume", "handle"} => event[s] # "none"
    /\ hop[s] \in {"consume", "handle"} => event[s] # "OrderCancelled"
    /\ hop[s] \in {"create", "aborted"} => event[s] = "none"

Failed(s, step) == <<step, "failure">> \in Range(log[s])

\* What saga_log has of a saga at its position: the tables, nothing of what is
\* still to be undone, and why a compensation that is behind it left something.
Trail(s) ==
    /\ order[s] = IF Done(s, "cancelOrder") THEN "cancelled"
                  ELSE IF Done(s, "completeOrder") THEN "completed"
                  ELSE IF Done(s, "createOrder") THEN "pending" ELSE "none"
    /\ reservation[s] = IF Done(s, "releaseInventory") THEN "released"
                        ELSE IF Done(s, "reserveInventory") THEN "reserved" ELSE "none"
    /\ payment[s] = IF Done(s, "refundPayment") THEN "refunded"
                    ELSE IF Done(s, "capturePayment") THEN "captured" ELSE "none"
    /\ shipment[s] = "created" <=> Done(s, "createShipment")
    /\ Position(s) \in Forward => \A c \in Compensating : ~Done(s, c)
    /\ Position(s) = "createOrder" => ~Done(s, "completeOrder")
    /\ Position(s) \in {"createOrder", "reserveInventory"} => reservation[s] # "reserved"
    /\ Position(s) \in {"createOrder", "reserveInventory", "capturePayment"} => payment[s] # "captured"
    /\ Position(s) \in {"releaseInventory", "cancelOrder", "compensated"} /\ payment[s] = "captured" =>
          Failed(s, "refundPayment")
    /\ Position(s) \in {"cancelOrder", "compensated"} /\ reservation[s] = "reserved" =>
          Failed(s, "releaseInventory")
    /\ Position(s) = "compensated" /\ order[s] = "pending" => Failed(s, "cancelOrder")

Live == {s \in Sagas : reservation[s] = "reserved"}

StepRow == Steps \X {"success", "failure"}
EventRow == BusEvents \X {"published", "consumed"}

SagaInv ==
    /\ order \in [Sagas -> Status] /\ reservation \in [Sagas -> Status]
    /\ payment \in [Sagas -> Status] /\ shipment \in [Sagas -> Shipped]
    /\ log \in [Sagas -> Seq(StepRow \cup EventRow)]
    /\ turn \in [Sagas -> Steps \cup SagaOutcomes]
    /\ event \in [Sagas -> BusEvents \cup {"none"}]
    /\ hop \in [Sagas -> {"create", "publish", "consume", "handle", "returned", "aborted", "rejected"}]
    /\ \A s \in Choreographed : HopOK(s)
    /\ \A s \in Sagas : Stage(s) /\ Trail(s)
    /\ available \in Nat /\ StockConserved

\* One step of a saga at position p, as the orchestrator takes it, or a row of
\* the bus, which says nothing of the steps.
Advances(s, p, q) ==
    \/ p \in Steps /\ StepCommits(s, p) /\ q = AfterSuccess(p)
    \/ p \in Steps /\ StepFails(s, p) /\ q = AfterFailure(p)
    \/ p \in Steps /\ StepThrows(s, p) /\ q = "rejected"
    \/ /\ UNCHANGED tables /\ q = p
       /\ UNCHANGED log \/ \E row \in EventRow : InsertSagaLog(s, row)

\* The next event leads to the step the orchestrator takes next.
LEMMA EventAfterSuccess ==
  ASSUME NEW e \in BusEvents \ {"OrderCancelled"}
  PROVE  LET n == Announces(e, FALSE)
         IN  /\ n \in BusEvents \cup {"none"}
             /\ n = "none" => AfterSuccess(HandledBy(e)) = "completed"
             /\ n = "OrderCancelled" => AfterSuccess(HandledBy(e)) = "compensated"
             /\ n \notin {"none", "OrderCancelled"} => AfterSuccess(HandledBy(e)) = HandledBy(n)
  BY DEF BusEvents, Announces, AfterSuccess, HandledBy

\* The same when the step failed.
LEMMA EventAfterFailure ==
  ASSUME NEW e \in BusEvents \ {"OrderCancelled"}
  PROVE  LET n == Announces(e, TRUE)
         IN  /\ n \in BusEvents \cup {"none"}
             /\ n = "none" => AfterFailure(HandledBy(e)) = "completed"
             /\ n = "OrderCancelled" => AfterFailure(HandledBy(e)) = "compensated"
             /\ n \notin {"none", "OrderCancelled"} => AfterFailure(HandledBy(e)) = HandledBy(n)
  BY DEF BusEvents, Announces, AfterFailure, HandledBy

\* Each hop of a chain is a step of the orchestrator, or shows nothing of itself.
LEMMA ChoreographyStep ==
  ASSUME SagaInv, NEW s \in Choreographed, RunChoreographedOrderSaga(s)
  PROVE  Advances(s, Position(s), Position(s)') /\ HopOK(s)'
  <1> USE ChoreographyAssumption DEF ChoreographyAssumption
  <1>a. HopOK(s) /\ s \in Sagas
    BY DEF SagaInv
  <1>t. event \in [Sagas -> BusEvents \cup {"none"}]
        /\ hop \in [Sagas -> {"create", "publish", "consume", "handle", "returned", "aborted", "rejected"}]
    BY DEF SagaInv
  <1>1. CASE Create(s)
    BY <1>a, <1>t, <1>1 DEF Create, Advances, HopOK, Position, PublishNext, Settle, BusEvents, HandledBy,
       Steps, Forward, Compensating, AfterSuccess, AfterFailure
  <1>2. CASE Publish(s)
    <2>1. <<event[s], "published">> \in EventRow
      BY <1>a, <1>2 DEF Publish, HopOK, EventRow
    <2>2. Position(s)' = Position(s) /\ HopOK(s)'
      BY <1>a, <1>t, <1>2 DEF Publish, HopOK, Position, Settle, BusEvents, HandledBy
    <2> QED
      BY <1>2, <2>1, <2>2 DEF Publish, Advances
  <1>3. CASE Consume(s)
    <2>1. <<event[s], "consumed">> \in EventRow
      BY <1>a, <1>3 DEF Consume, HopOK, EventRow
    <2>2. Position(s)' = Position(s) /\ HopOK(s)'
      BY <1>a, <1>t, <1>3 DEF Consume, HopOK, Position, Settle, BusEvents, HandledBy
    <2> QED
      BY <1>3, <2>1, <2>2 DEF Consume, Advances
  <1>4. CASE Handle(s)
    <2>1. PICK e \in BusEvents \ {"OrderCancelled"} : event[s] = e /\ hop[s] = "handle"
      BY <1>a, <1>4 DEF Handle, HopOK
    <2>2. /\ Position(s) = HandledBy(e)
          /\ HandledBy(e) \in Steps
      BY <2>1 DEF Position, HandledBy, BusEvents, Steps, Forward, Compensating
    <2>3. ASSUME NEW n \in BusEvents \cup {"none"}, PublishNext(s, n)
          PROVE  /\ n = "none" => Position(s)' = "completed"
                 /\ n = "OrderCancelled" => Position(s)' = "compensated"
                 /\ n \notin {"none", "OrderCancelled"} => Position(s)' = HandledBy(n)
                 /\ HopOK(s)'
      <3>1. /\ event'[s] = IF n = "none" THEN e ELSE n
            /\ hop'[s] = IF n = "none" THEN "returned" ELSE "publish"
        BY <1>a, <1>t, <2>1, <2>3 DEF PublishNext
      <3>2. HopOK(s)'
        BY <3>1 DEF HopOK, BusEvents
      <3> QED
        BY <3>1, <3>2 DEF Position, BusEvents
    <2>4. CASE StepCommits(s, HandledBy(e)) /\ PublishNext(s, Announces(e, FALSE))
      BY <2>2, <2>3, <2>4, EventAfterSuccess DEF Advances
    <2>5. CASE StepFails(s, HandledBy(e)) /\ PublishNext(s, Announces(e, TRUE))
      BY <2>2, <2>3, <2>5, EventAfterFailure DEF Advances
    <2> QED
      BY <2>1, <2>4, <2>5, <1>4 DEF Handle
  <1>5. CASE ChainRejects(s)
    <2>1. HopOK(s)'
      BY <1>a, <1>t, <1>5 DEF ChainRejects, HopOK, Settle
    <2>2. CASE event[s] = "OrderCancelled"
      BY <1>a, <1>t, <1>5, <2>1, <2>2 DEF ChainRejects, Advances, HopOK, Position, Settle
    <2>3. CASE event[s] # "OrderCancelled"
      <3>1. /\ Position(s)' = "rejected"
            /\ hop[s] = "create" => Position(s) = "createOrder"
            /\ hop[s] \in {"publish", "consume", "handle"} => Position(s) = HandledBy(event[s])
        BY <1>a, <1>t, <1>5, <2>3 DEF ChainRejects, Position, Settle
      <3>2. hop[s] # "create" => HandledBy(event[s]) \in Steps
        BY <1>a, <1>5, <2>3 DEF ChainRejects, HopOK, BusEvents, HandledBy, Steps, Forward, Compensating
      <3>3. "createOrder" \in Steps
        BY DEF Steps, Forward
      <3> QED
        BY <1>5, <2>1, <3>1, <3>2, <3>3 DEF ChainRejects, Advances, StepThrows
    <2> QED
      BY <2>2, <2>3
  <1> QED
    BY <1>1, <1>2, <1>3, <1>4, <1>5 DEF RunChoreographedOrderSaga

\* A step writes no row but its own saga's, and keeps what the columns may hold.
LEMMA StepWritesItsRows ==
  ASSUME SagaInv, NEW s \in Sagas, NEW p, NEW q, Advances(s, p, q)
  PROVE  /\ order' \in [Sagas -> Status] /\ reservation' \in [Sagas -> Status]
         /\ payment' \in [Sagas -> Status] /\ shipment' \in [Sagas -> Shipped]
         /\ \A t \in Sagas \ {s} :
               /\ order'[t] = order[t] /\ reservation'[t] = reservation[t]
               /\ payment'[t] = payment[t] /\ shipment'[t] = shipment[t]
  <1>t. /\ order \in [Sagas -> Status] /\ reservation \in [Sagas -> Status]
        /\ payment \in [Sagas -> Status] /\ shipment \in [Sagas -> Shipped]
    BY DEF SagaInv
  <1>1. ASSUME NEW step \in Steps, SagaWork(s, step)
        PROVE  /\ order' \in [Sagas -> Status] /\ reservation' \in [Sagas -> Status]
               /\ payment' \in [Sagas -> Status] /\ shipment' \in [Sagas -> Shipped]
               /\ \A t \in Sagas \ {s} :
                     /\ order'[t] = order[t] /\ reservation'[t] = reservation[t]
                     /\ payment'[t] = payment[t] /\ shipment'[t] = shipment[t]
    BY <1>t, <1>1 DEF SagaWork, Steps, Forward, Compensating, Status, Shipped,
       SetOrder, ReserveInventory, SetPayment, CreateShipment, ReleaseInventory
  <1>2. CASE UNCHANGED tables
    BY <1>t, <1>2 DEF tables
  <1> QED
    BY <1>1, <1>2 DEF Advances, StepCommits, StepFails, StepThrows

\* A step at position p leaves its saga's rows as position q wants them.
LEMMA StepKeepsStage ==
  ASSUME SagaInv, NEW s \in Sagas, Position(s) \in Steps \cup SagaOutcomes,
         Advances(s, Position(s), Position(s)')
  PROVE  Stage(s)'
  <1> DEFINE p == Position(s)
             q == Position(s)'
  <1>t. /\ order \in [Sagas -> Status] /\ reservation \in [Sagas -> Status]
        /\ payment \in [Sagas -> Status] /\ shipment \in [Sagas -> Shipped]
        /\ Stage(s)
    BY DEF SagaInv
  <1>1. ASSUME p \in Steps, SagaWork(s, p), q \in {AfterSuccess(p), "rejected"}
        PROVE  Stage(s)'
    <2> HIDE DEF p, q
    <2>1. CASE p = "createOrder"
      BY <1>t, <1>1, <2>1 DEF Stage, SagaWork, SetOrder, AfterSuccess, Steps, Forward, Compensating, p, q
    <2>2. CASE p = "reserveInventory"
      BY <1>t, <1>1, <2>2 DEF Stage, SagaWork, ReserveInventory, AfterSuccess, Steps, Forward, Compensating, p, q
    <2>3. CASE p = "capturePayment"
      BY <1>t, <1>1, <2>3 DEF Stage, SagaWork, SetPayment, AfterSuccess, Steps, Forward, Compensating, p, q
    <2>4. CASE p = "createShipment"
      BY <1>t, <1>1, <2>4 DEF Stage, SagaWork, CreateShipment, AfterSuccess, Steps, Forward, Compensating, p, q
    <2>5. CASE p = "completeOrder"
      BY <1>t, <1>1, <2>5 DEF Stage, SagaWork, SetOrder, AfterSuccess, Steps, Forward, Compensating, p, q
    <2>6. CASE p = "refundPayment"
      BY <1>t, <1>1, <2>6 DEF Stage, SagaWork, SetPayment, AfterSuccess, Steps, Forward, Compensating, p, q
    <2>7. CASE p = "releaseInventory"
      BY <1>t, <1>1, <2>7 DEF Stage, SagaWork, ReleaseInventory, AfterSuccess, Steps, Forward, Compensating, p, q
    <2>8. CASE p = "cancelOrder"
      BY <1>t, <1>1, <2>8 DEF Stage, SagaWork, SetOrder, AfterSuccess, Steps, Forward, Compensating, p, q
    <2> QED
      BY <1>1, <2>1, <2>2, <2>3, <2>4, <2>5, <2>6, <2>7, <2>8 DEF Steps, Forward, Compensating
  <1>2. ASSUME UNCHANGED tables, (p \in Steps /\ q = AfterFailure(p)) \/ q \in {p, "rejected"}
        PROVE  Stage(s)'
    BY <1>t, <1>2 DEF Stage, tables, AfterFailure, Steps, Forward, Compensating
  <1> QED
    BY <1>1, <1>2 DEF Advances, StepCommits, StepFails, StepThrows

\* What live reservations hold, as the lemmas on sums have it.
LEMMA StockIsTotal ==
  /\ StockConserved <=> available + Total(Quantity, Live) = Stock
  /\ StockConserved' <=> available' + Total(Quantity, Live') = Stock
  <1>1. StockConserved <=> available + Total(Quantity, Live) = Stock
    BY DEF StockConserved, Total, Live, MapThenSumSet, MapThenFoldSet
  <1>2. StockConserved' <=> available' + Total(Quantity, Live') = Stock
    BY DEF StockConserved, Total, Live, MapThenSumSet, MapThenFoldSet
  <1> QED
    BY <1>1, <1>2

\* A row that is written is on record with all those before it.
LEMMA RangeOfAppend ==
  ASSUME NEW S, NEW rows \in Seq(S), NEW row \in S
  PROVE  Range(Append(rows, row)) = Range(rows) \cup {row}
  <1>1. /\ DOMAIN Append(rows, row) = 1 .. Len(rows) + 1
        /\ DOMAIN rows = 1 .. Len(rows) /\ Len(rows) \in Nat
        /\ Append(rows, row)[Len(rows) + 1] = row
        /\ \A i \in 1 .. Len(rows) : Append(rows, row)[i] = rows[i]
    OBVIOUS
  <1> QED
    BY <1>1 DEF Range

\* What a step adds to the record of its saga, by what it does to the tables.
LEMMA StepWritesItsRecord ==
  ASSUME SagaInv, NEW s \in Sagas, NEW p, NEW q, Advances(s, p, q)
  PROVE  /\ log' \in [Sagas -> Seq(StepRow \cup EventRow)]
         /\ \A t \in Sagas \ {s} : log'[t] = log[t]
         /\ \/ /\ p \in Steps /\ SagaWork(s, p) /\ q \in {AfterSuccess(p), "rejected"}
               /\ \A x \in Steps : /\ Done(s, x)' <=> Done(s, x) \/ x = p
                                   /\ Failed(s, x)' <=> Failed(s, x)
            \/ /\ p \in Steps /\ UNCHANGED tables /\ q = AfterFailure(p)
               /\ \A x \in Steps : /\ Done(s, x)' <=> Done(s, x)
                                   /\ Failed(s, x)' <=> Failed(s, x) \/ x = p
            \/ /\ UNCHANGED tables /\ q \in {p, "rejected"}
               /\ \A x \in Steps : /\ Done(s, x)' <=> Done(s, x)
                                   /\ Failed(s, x)' <=> Failed(s, x)
  <1>t. log \in [Sagas -> Seq(StepRow \cup EventRow)]
    BY DEF SagaInv
  <1>1. ASSUME NEW row \in StepRow \cup EventRow, InsertSagaLog(s, row)
        PROVE  /\ log' \in [Sagas -> Seq(StepRow \cup EventRow)]
               /\ \A t \in Sagas \ {s} : log'[t] = log[t]
               /\ Range(log'[s]) = Range(log[s]) \cup {row}
    <2>1. log'[s] = Append(log[s], row) /\ Append(log[s], row) \in Seq(StepRow \cup EventRow)
      BY <1>t, <1>1 DEF InsertSagaLog
    <2>2. Range(log'[s]) = Range(log[s]) \cup {row}
      BY <1>t, <2>1, RangeOfAppend
    <2> QED
      BY <1>t, <1>1, <2>1, <2>2 DEF InsertSagaLog
  <1>2. CASE p \in Steps /\ StepCommits(s, p) /\ q \in {AfterSuccess(p), "rejected"}
    <2>1. <<p, "success">> \in StepRow
      BY <1>2 DEF StepRow
    <2> QED
      BY <1>1, <1>2, <2>1 DEF StepCommits, Done, Failed
  <1>3. CASE p \in Steps /\ StepFails(s, p) /\ q = AfterFailure(p)
    <2>1. <<p, "failure">> \in StepRow
      BY <1>3 DEF StepRow
    <2> QED
      <3>1. InsertSagaLog(s, <<p, "failure">>) /\ UNCHANGED tables
        BY <1>3 DEF StepFails
      <3>2. Range(log'[s]) = Range(log[s]) \cup {<<p, "failure">>}
        BY <1>1, <2>1, <3>1
      <3>3. \A x \in Steps : /\ Done(s, x)' <=> Done(s, x)
                             /\ Failed(s, x)' <=> Failed(s, x) \/ x = p
        BY <3>2 DEF Done, Failed
      <3> QED
        BY <1>1, <1>3, <2>1, <3>1, <3>3
  <1>4. ASSUME UNCHANGED tables, q = p, NEW row \in EventRow, InsertSagaLog(s, row)
        PROVE  \A x \in Steps : /\ Done(s, x)' <=> Done(s, x)
                                /\ Failed(s, x)' <=> Failed(s, x)
    <2>1. \A x \in Steps : <<x, "success">> # row /\ <<x, "failure">> # row
      BY DEF EventRow
    <2> QED
      BY <1>1, <1>4, <2>1 DEF Done, Failed
  <1>5. CASE UNCHANGED <<tables, log>> /\ q \in {p, "rejected"}
    BY <1>t, <1>5 DEF Done, Failed
  <1> QED
    BY <1>1, <1>2, <1>3, <1>4, <1>5 DEF Advances, StepThrows

\* The record goes with the tables from position p to position q.
LEMMA StepKeepsTrail ==
  ASSUME SagaInv, NEW s \in Sagas, NEW p \in Steps \cup SagaOutcomes, NEW q \in Steps \cup SagaOutcomes,
         Position(s) = p, Position(s)' = q, Advances(s, p, q)
  PROVE  Trail(s)'
  <1>t. /\ order \in [Sagas -> Status] /\ reservation \in [Sagas -> Status]
        /\ payment \in [Sagas -> Status] /\ shipment \in [Sagas -> Shipped]
        /\ Trail(s) /\ Stage(s)
    BY DEF SagaInv
  <1>1. ASSUME p \in Steps, SagaWork(s, p), q \in {AfterSuccess(p), "rejected"},
               \A x \in Steps : /\ Done(s, x)' <=> Done(s, x) \/ x = p
                                /\ Failed(s, x)' <=> Failed(s, x)
        PROVE  Trail(s)'
    <2>1. CASE p = "createOrder"
      BY <1>t, <1>1, <2>1 DEF Trail, SagaWork, SetOrder, AfterSuccess, Steps, Forward, Compensating
    <2>2. CASE p = "reserveInventory"
      BY <1>t, <1>1, <2>2 DEF Trail, SagaWork, ReserveInventory, AfterSuccess, Steps, Forward, Compensating
    <2>3. CASE p = "capturePayment"
      BY <1>t, <1>1, <2>3 DEF Trail, SagaWork, SetPayment, AfterSuccess, Steps, Forward, Compensating
    <2>4. CASE p = "createShipment"
      BY <1>t, <1>1, <2>4 DEF Trail, SagaWork, CreateShipment, AfterSuccess, Steps, Forward, Compensating
    <2>5. CASE p = "completeOrder"
      BY <1>t, <1>1, <2>5 DEF Trail, SagaWork, SetOrder, AfterSuccess, Steps, Forward, Compensating
    <2>6. CASE p = "refundPayment"
      BY <1>t, <1>1, <2>6 DEF Trail, SagaWork, SetPayment, AfterSuccess, Steps, Forward, Compensating
    <2>7. CASE p = "releaseInventory"
      BY <1>t, <1>1, <2>7 DEF Trail, SagaWork, ReleaseInventory, AfterSuccess, Steps, Forward, Compensating
    <2>8. CASE p = "cancelOrder"
      BY <1>t, <1>1, <2>8 DEF Trail, SagaWork, SetOrder, AfterSuccess, Steps, Forward, Compensating
    <2> QED
      BY <1>1, <2>1, <2>2, <2>3, <2>4, <2>5, <2>6, <2>7, <2>8 DEF Steps, Forward, Compensating
  <1>2. ASSUME p \in Steps, UNCHANGED tables, q = AfterFailure(p),
               \A x \in Steps : /\ Done(s, x)' <=> Done(s, x)
                                /\ Failed(s, x)' <=> Failed(s, x) \/ x = p
        PROVE  Trail(s)'
    BY <1>t, <1>2 DEF Trail, tables, AfterFailure, Steps, Forward, Compensating
  <1>3. ASSUME UNCHANGED tables, q \in {p, "rejected"},
               \A x \in Steps : /\ Done(s, x)' <=> Done(s, x)
                                /\ Failed(s, x)' <=> Failed(s, x)
        PROVE  Trail(s)'
    BY <1>t, <1>3 DEF Trail, tables, Steps, Forward, Compensating
  <1> QED
    BY <1>1, <1>2, <1>3, StepWritesItsRecord

\* Reserving and releasing move as much as the reservation holds.
LEMMA StepKeepsStock ==
  ASSUME SagaInv, NEW s \in Sagas, NEW p \in Steps \cup SagaOutcomes, NEW q \in Steps \cup SagaOutcomes,
         Position(s) = p, Advances(s, p, q)
  PROVE  available' \in Nat /\ available' + Total(Quantity, Live') = Stock
  <1> USE SagaAssumption DEF SagaAssumption
  <1>t. /\ reservation \in [Sagas -> Status] /\ available \in Nat
        /\ available + Total(Quantity, Live) = Stock
        /\ Trail(s) /\ Stage(s)
    BY StockIsTotal DEF SagaInv
  <1>q. Quantity \in [Sagas -> Nat] /\ Quantity[s] \in Nat
    OBVIOUS
  <1>1. CASE p = "reserveInventory" /\ ReserveInventory(s)
    <2>1. s \in Sagas \ Live /\ Live' = Live \cup {s}
      BY <1>t, <1>1 DEF ReserveInventory, Live, Trail
    <2>2. Total(Quantity, Live \cup {s}) = Quantity[s] + Total(Quantity, Live) /\ Total(Quantity, Live) \in Nat
      BY <1>q, <2>1, TotalByElement DEF Live
    <2>3. available' = available - Quantity[s] /\ available >= Quantity[s]
      BY <1>1 DEF ReserveInventory
    <2> QED
      BY <1>t, <1>q, <2>1, <2>2, <2>3
  <1>2. CASE p = "releaseInventory" /\ ReleaseInventory(s)
    <2>1. s \in Live /\ Live' = Live \ {s}
      BY <1>t, <1>2 DEF ReleaseInventory, Live, Stage
    <2>2. Total(Quantity, Live) = Quantity[s] + Total(Quantity, Live \ {s}) /\ Total(Quantity, Live \ {s}) \in Nat
      BY <1>q, <2>1, TotalByElement DEF Live
    <2>3. available' = available + Quantity[s]
      BY <1>2 DEF ReleaseInventory
    <2> QED
      BY <1>t, <1>q, <2>1, <2>2, <2>3
  <1>3. CASE UNCHANGED <<available, reservation>>
    BY <1>t, <1>3 DEF Live
  <1>4. ASSUME p \in Steps, SagaWork(s, p)
        PROVE  \/ p = "reserveInventory" /\ ReserveInventory(s)
               \/ p = "releaseInventory" /\ ReleaseInventory(s)
               \/ UNCHANGED <<available, reservation>>
    BY <1>4 DEF SagaWork, Steps, Forward, Compensating, SetOrder, SetPayment, CreateShipment
  <1> QED
    BY <1>1, <1>2, <1>3, <1>4 DEF Advances, StepCommits, StepFails, StepThrows, tables

\* Before any step nothing has been written, and nothing is on record.
LEMMA SagaInitInv == ChoreographyInit => SagaInv
  <1> SUFFICES ASSUME ChoreographyInit PROVE SagaInv
    OBVIOUS
  <1> USE ChoreographyAssumption DEF ChoreographyAssumption, ChoreographyInit, SagaInit, TablesInit
  <1>1. log \in [Sagas -> Seq(StepRow \cup EventRow)]
    OBVIOUS
  <1>2. \A s \in Sagas : Position(s) = "createOrder"
    BY DEF Position
  <1>3. \A s \in Sagas : \A step : ~Done(s, step) /\ ~Failed(s, step)
    BY DEF Done, Failed, Range
  <1>4. \A s \in Sagas : Trail(s)
    BY <1>2, <1>3 DEF Trail
  <1>5. \A s \in Sagas : Stage(s)
    BY <1>2 DEF Stage, Forward
  <1>6. available \in Nat /\ StockConserved
    <2>1. Live = {} /\ Total(Quantity, {}) = 0
      BY SagaAssumption, TotalByElement DEF SagaAssumption, Live
    <2> QED
      BY <2>1, SagaAssumption, StockIsTotal DEF SagaAssumption
  <1> QED
    BY <1>1, <1>4, <1>5, <1>6 DEF SagaInv, Status, Shipped, HopOK, Steps, Forward, SagaOutcomes, BusEvents

\* A position is a step or an outcome.
LEMMA PositionType == ASSUME SagaInv, NEW s \in Sagas PROVE Position(s) \in Steps \cup SagaOutcomes
  <1>1. CASE s \notin Choreographed
    BY <1>1 DEF Position, SagaInv
  <1>2. CASE s \in Choreographed
    BY <1>2 DEF Position, SagaInv, HopOK, HandledBy, BusEvents, Steps, Forward, Compensating, SagaOutcomes
  <1> QED
    BY <1>1, <1>2

\* And so it is after a step that keeps the types.
LEMMA NextPositionType ==
  ASSUME NEW s \in Sagas, turn' \in [Sagas -> Steps \cup SagaOutcomes], s \in Choreographed => HopOK(s)'
  PROVE  Position(s)' \in Steps \cup SagaOutcomes
  <1>1. CASE s \notin Choreographed
    BY <1>1 DEF Position
  <1>2. CASE s \in Choreographed
    BY <1>2 DEF Position, HopOK, HandledBy, BusEvents, Steps, Forward, Compensating, SagaOutcomes
  <1> QED
    BY <1>1, <1>2

\* Once the step of s is known to be the orchestrator's, the rest is bookkeeping.
LEMMA AdvanceKeepsInv ==
  ASSUME SagaInv, NEW s \in Sagas, Advances(s, Position(s), Position(s)'),
         turn' \in [Sagas -> Steps \cup SagaOutcomes],
         event' \in [Sagas -> BusEvents \cup {"none"}],
         hop' \in [Sagas -> {"create", "publish", "consume", "handle", "returned", "aborted", "rejected"}],
         s \in Choreographed => HopOK(s)',
         \A t \in Sagas \ {s} : turn'[t] = turn[t] /\ event'[t] = event[t] /\ hop'[t] = hop[t]
  PROVE  SagaInv'
  <1>0. Position(s)' \in Steps \cup SagaOutcomes
    BY NextPositionType
  <1>1. Stage(s)' /\ Trail(s)' /\ available' \in Nat /\ StockConserved'
    <2>1. PICK p \in Steps \cup SagaOutcomes, q \in Steps \cup SagaOutcomes : p = Position(s) /\ q = Position(s)'
      BY <1>0, PositionType
    <2>2. Advances(s, p, q)
      BY <2>1
    <2>3. available' \in Nat /\ available' + Total(Quantity, Live') = Stock
      BY <2>1, <2>2, StepKeepsStock
    <2> QED
      BY <2>1, <2>2, <2>3, StepKeepsStage, StepKeepsTrail, StockIsTotal, PositionType
  <1>2. ASSUME NEW t \in Sagas \ {s} PROVE Stage(t)' /\ Trail(t)'
    <2>1. Position(t)' = Position(t)
      BY DEF Position
    <2>2. Stage(t) /\ Trail(t)
      BY DEF SagaInv
    <2>3. log'[t] = log[t] /\ log' \in [Sagas -> Seq(StepRow \cup EventRow)]
      BY StepWritesItsRecord
    <2>4. Stage(t)'
      BY <2>1, <2>2, StepWritesItsRows DEF Stage
    <2>5. Trail(t)'
      BY <2>1, <2>2, <2>3, StepWritesItsRows DEF Trail, Done, Failed
    <2> QED
      BY <2>4, <2>5
  <1>3. ASSUME NEW t \in Choreographed \ {s} PROVE HopOK(t)'
    BY ChoreographyAssumption DEF ChoreographyAssumption, SagaInv, HopOK
  <1>4. log' \in [Sagas -> Seq(StepRow \cup EventRow)]
    BY StepWritesItsRecord
  <1> QED
    BY <1>1, <1>2, <1>3, <1>4, StepWritesItsRows DEF SagaInv

\* Every step of either kind of saga is a step of one saga, and leaves where the
\* others are.
LEMMA NextAdvances ==
  ASSUME SagaInv, ChoreographyNext
  PROVE  \E s \in Sagas :
            /\ Advances(s, Position(s), Position(s)')
            /\ turn' \in [Sagas -> Steps \cup SagaOutcomes]
            /\ event' \in [Sagas -> BusEvents \cup {"none"}]
            /\ hop' \in [Sagas -> {"create", "publish", "consume", "handle", "returned", "aborted", "rejected"}]
            /\ s \in Choreographed => HopOK(s)'
            /\ \A t \in Sagas \ {s} : turn'[t] = turn[t] /\ event'[t] = event[t] /\ hop'[t] = hop[t]
  <1>t. /\ turn \in [Sagas -> Steps \cup SagaOutcomes]
        /\ event \in [Sagas -> BusEvents \cup {"none"}]
        /\ hop \in [Sagas -> {"create", "publish", "consume", "handle", "returned", "aborted", "rejected"}]
    BY DEF SagaInv
  <1>1. CASE \E s \in Sagas \ Choreographed : Orchestrate(s)
    <2>0. PICK s \in Sagas \ Choreographed : Orchestrate(s)
      BY <1>1
    <2>1. PICK q \in Steps \cup SagaOutcomes : TurnTo(s, q) /\ UNCHANGED busVars /\ Advances(s, turn[s], q)
      <3>1. turn[s] \in Steps => AfterSuccess(turn[s]) \in Steps \cup SagaOutcomes
                               /\ AfterFailure(turn[s]) \in Steps \cup SagaOutcomes
        BY DEF AfterSuccess, AfterFailure, Steps, Forward, Compensating, SagaOutcomes
      <3> QED
        BY <2>0, <3>1 DEF Orchestrate, RunOrderSaga, StepSucceeds, StepReturnsFailure, SagaRejects,
           Advances, SagaOutcomes
    <2>2. Position(s) = turn[s] /\ Position(s)' = q
      BY <1>t, <2>1 DEF Position, TurnTo
    <2> QED
      BY <1>t, <2>1, <2>2 DEF TurnTo, busVars
  <1>2. CASE \E s \in Choreographed : RunChoreographedOrderSaga(s)
    <2>0. PICK s \in Choreographed : RunChoreographedOrderSaga(s)
      BY <1>2
    <2>1. Advances(s, Position(s), Position(s)') /\ HopOK(s)'
      BY <2>0, ChoreographyStep
    <2>2. PICK e \in BusEvents \cup {"none"}, h \in {"create", "publish", "consume", "handle", "returned", "aborted", "rejected"} :
             event' = [event EXCEPT ![s] = e] /\ hop' = [hop EXCEPT ![s] = h] /\ UNCHANGED turn
      BY <2>0, <1>t, <2>1, ChoreographyAssumption
         DEF ChoreographyAssumption, RunChoreographedOrderSaga, Create, Publish, Consume, Handle,
             ChainRejects, PublishNext, Settle, HopOK
    <2> QED
      BY <1>t, <2>1, <2>2, ChoreographyAssumption DEF ChoreographyAssumption
  <1> QED
    BY <1>1, <1>2 DEF ChoreographyNext

\* Every step keeps the invariant.
LEMMA SagaStepInv == SagaInv /\ [ChoreographyNext]_choreographyVars => SagaInv'
  <1> SUFFICES ASSUME SagaInv, [ChoreographyNext]_choreographyVars PROVE SagaInv'
    OBVIOUS
  <1>1. CASE ChoreographyNext
    BY <1>1, NextAdvances, AdvanceKeepsInv
  <1>2. CASE UNCHANGED choreographyVars
    <2>1. UNCHANGED <<available, order, reservation, payment, shipment, log, turn, event, hop>>
      BY <1>2 DEF choreographyVars, sagaVars, busVars, tables
    <2>2. available' \in Nat /\ StockConserved'
      BY <2>1, StockIsTotal DEF Live, SagaInv
    <2>3. \A s \in Sagas : Position(s)' = Position(s)
      BY <2>1 DEF Position
    <2>4. \A s \in Sagas : Stage(s)'
      BY <2>1, <2>3 DEF SagaInv, Stage
    <2>5. \A s \in Sagas : Trail(s)'
      BY <2>1, <2>3 DEF SagaInv, Trail, Done, Failed
    <2>6. \A s \in Choreographed : HopOK(s)'
      BY <2>1 DEF SagaInv, HopOK
    <2> QED
      BY <2>1, <2>2, <2>4, <2>5, <2>6 DEF SagaInv
  <1> QED
    BY <1>1, <1>2

\* The invariant holds throughout.
LEMMA SagaInvariant == ChoreographySpec => []SagaInv
  BY SagaInitInv, SagaStepInv, PTL DEF ChoreographySpec

\* The tables hold only the values the code writes to them, never more stock
\* than there was, whatever is reserved and released, and saga_log holds rows of
\* the steps and of the bus.
THEOREM SagaTypeCorrect == ChoreographySpec => []SagaTypeOK
  <1>1. SagaInv => SagaTypeOK
    <2> SUFFICES ASSUME SagaInv PROVE SagaTypeOK
      OBVIOUS
    <2>1. available \in 0 .. Stock
      <3>1. Total(Quantity, Live) \in Nat
        BY SagaAssumption, TotalByElement DEF SagaAssumption, Live
      <3>2. available \in Nat /\ available + Total(Quantity, Live) = Stock
        BY StockIsTotal DEF SagaInv
      <3> QED
        BY <3>1, <3>2, SagaAssumption DEF SagaAssumption
    <2>2. /\ order \in [Sagas -> Status] /\ reservation \in [Sagas -> Status]
          /\ payment \in [Sagas -> Status] /\ shipment \in [Sagas -> {"none", "created"}]
      BY DEF SagaInv, Shipped
    <2>3. \A s \in Sagas : /\ order[s] \in {"none", "pending", "completed", "cancelled"}
                           /\ reservation[s] \in {"none", "reserved", "released"}
                           /\ payment[s] \in {"none", "captured", "refunded"}
      BY DEF SagaInv, Trail
    <2>4. ASSUME NEW s \in Sagas, NEW row \in Range(log[s])
          PROVE  row \in (Steps \X {"success", "failure"}) \cup (BusEvents \X {"published", "consumed"})
      <3>1. log[s] \in Seq(StepRow \cup EventRow)
        BY DEF SagaInv
      <3> QED
        BY <3>1 DEF Range, StepRow, EventRow
    <2>5. /\ turn \in [Sagas -> Steps \cup SagaOutcomes] /\ event \in [Sagas -> BusEvents \cup {"none"}]
          /\ hop \in [Sagas -> {"create", "publish", "consume", "handle"} \cup {"returned", "aborted", "rejected"}]
      BY DEF SagaInv
    <2> QED
      BY <2>1, <2>2, <2>3, <2>4, <2>5 DEF SagaTypeOK
  <1> QED
    BY <1>1, SagaInvariant, PTL

\* Goods that are on their way belong to an order that stands, whatever fails,
\* throws or is lost on the way, in both mechanisms.
THEOREM ShippedIsKeptAlways == ChoreographySpec => []ShippedIsKept
  <1>1. SagaInv => ShippedIsKept
    BY DEF SagaInv, Stage, ShippedIsKept
  <1> QED
    BY <1>1, SagaInvariant, PTL

\* Stock is never lost or sold twice, however many sagas reserve and release it,
\* fail, throw or stop in between.
THEOREM StockIsConserved == ChoreographySpec => []StockConserved
  <1>1. SagaInv => StockConserved
    BY DEF SagaInv
  <1> QED
    BY <1>1, SagaInvariant, PTL

\* saga_log can be trusted alone: row by row it tells what the tables hold, and
\* of a saga that reports "compensated" every compensation that failed and left
\* something behind, also when answers are lost and processes die.
THEOREM LogTellsTheTruthAlways == ChoreographySpec => []LogTellsTheTruth
  <1>1. SagaInv => LogTellsTheTruth
    <2> SUFFICES ASSUME SagaInv PROVE LogTellsTheTruth
      OBVIOUS
    <2>1. \A s \in Sagas : Trail(s)
      BY DEF SagaInv
    <2>2. LogTellsTheTables
      BY <2>1 DEF Trail, LogTellsTheTables
    <2>3. LeftoverIsLogged
      BY <2>1 DEF Trail, Failed, LeftoverIsLogged
    <2> QED
      BY <2>2, <2>3 DEF LogTellsTheTruth
  <1> QED
    BY <1>1, SagaInvariant, PTL
-----------------------------------------------------------------------------
(* The choreography is an orchestration.                                   *)

\* f keeps, of the first k rows, those of the steps.
Keeps(rows, f, n) ==
    f = [k \in 0 .. n |->
           IF k = 0 THEN <<>>
           ELSE IF rows[k][1] \in Steps THEN Append(f[k - 1], rows[k]) ELSE f[k - 1]]

\* There is such an f: a row more is kept or is not.
LEMMA KeepsExists ==
  ASSUME NEW rows, NEW n \in Nat PROVE \E f : Keeps(rows, f, n)
  <1> DEFINE F == {m \in Nat : ~ \E f : Keeps(rows, f, m)}
  <1>1. SUFFICES ASSUME F # {} PROVE FALSE
    OBVIOUS
  <1>2. PICK m \in F : \A k \in F : ~(k < m)
    <2>1. F \in SUBSET Nat
      OBVIOUS
    <2> HIDE DEF F
    <2> QED
      BY <1>1, <2>1, LeastNumber
  <1>3. CASE m = 0
    <2>1. Keeps(rows, [k \in 0 .. 0 |-> <<>>], 0)
      BY DEF Keeps
    <2> QED
      BY <1>2, <1>3, <2>1
  <1>4. CASE m > 0
    <2>1. m - 1 \in Nat /\ m - 1 < m
      BY <1>2, <1>4
    <2>2. PICK f : Keeps(rows, f, m - 1)
      BY <1>2, <2>1
    <2> DEFINE last == IF rows[m][1] \in Steps THEN Append(f[m - 1], rows[m]) ELSE f[m - 1]
               g == [k \in 0 .. m |-> IF k = m THEN last ELSE f[k]]
    <2>3. ASSUME NEW k \in 0 .. m
          PROVE  g[k] = IF k = 0 THEN <<>>
                        ELSE IF rows[k][1] \in Steps THEN Append(g[k - 1], rows[k]) ELSE g[k - 1]
      <3>1. CASE k = m
        BY <1>4, <2>1, <3>1
      <3>2. CASE k # m
        <4>1. k \in 0 .. m - 1 /\ (k # 0 => k - 1 \in 0 .. m - 1)
          BY <1>4, <2>1, <3>2
        <4>2. f[k] = IF k = 0 THEN <<>>
                     ELSE IF rows[k][1] \in Steps THEN Append(f[k - 1], rows[k]) ELSE f[k - 1]
          BY <2>2, <4>1 DEF Keeps
        <4>3. g[k] = f[k] /\ (k # 0 => g[k - 1] = f[k - 1])
          BY <3>2, <4>1
        <4> QED
          BY <4>2, <4>3
      <3> QED
        BY <3>1, <3>2
    <2>4. Keeps(rows, g, m)
      BY <2>3 DEF Keeps
    <2> QED
      BY <1>2, <2>4
  <1> QED
    BY <1>2, <1>3, <1>4

\* OnlySteps is the last value of such an f.
LEMMA OnlyStepsIsKept ==
  ASSUME NEW R, NEW rows \in Seq(R)
  PROVE  \E f : Keeps(rows, f, Len(rows)) /\ OnlySteps(rows) = f[Len(rows)]
  <1> DEFINE f == CHOOSE g : Keeps(rows, g, Len(rows))
  <1>1. Keeps(rows, f, Len(rows))
    BY KeepsExists
  <1>2. OnlySteps(rows) = f[Len(rows)]
    BY DEF OnlySteps, Keeps
  <1> QED
    BY <1>1, <1>2

\* A row that is appended is kept at the end or is not kept.
LEMMA OnlyStepsOfAppend ==
  ASSUME NEW R, NEW rows \in Seq(R), NEW row \in R
  PROVE  OnlySteps(Append(rows, row)) =
            IF row[1] \in Steps THEN Append(OnlySteps(rows), row) ELSE OnlySteps(rows)
  <1> DEFINE more == Append(rows, row)
             n == Len(rows)
  <1>1. /\ n \in Nat /\ more \in Seq(R) /\ Len(more) = n + 1 /\ more[n + 1] = row
        /\ \A k \in 1 .. n : more[k] = rows[k]
    OBVIOUS
  <1>2. PICK f : Keeps(rows, f, n) /\ OnlySteps(rows) = f[n]
    BY OnlyStepsIsKept
  <1>3. PICK g : Keeps(more, g, n + 1) /\ OnlySteps(more) = g[n + 1]
    BY <1>1, OnlyStepsIsKept
  <1> HIDE DEF more, n
  <1>4. \A k \in 0 .. n : g[k] = f[k]
    <2> DEFINE F == {k \in 0 .. n : g[k] # f[k]}
    <2>1. SUFFICES ASSUME F # {} PROVE FALSE
      OBVIOUS
    <2>2. PICK m \in F : \A k \in F : ~(k < m)
      <3>1. F \in SUBSET Nat
        BY <1>1
      <3> HIDE DEF F
      <3> QED
        BY <2>1, <3>1, LeastNumber
    <2>3. m \in 0 .. n /\ g[m] # f[m]
      BY <2>2
    <2>4. CASE m = 0
      BY <1>1, <1>2, <1>3, <2>3, <2>4 DEF Keeps
    <2>5. CASE m # 0
      <3>1. m - 1 \in 0 .. n /\ m - 1 < m /\ m \in 1 .. n /\ m \in 0 .. n + 1
        BY <1>1, <2>3, <2>5
      <3>2. g[m - 1] = f[m - 1]
        BY <2>2, <3>1
      <3>3. g[m] = IF more[m][1] \in Steps THEN Append(g[m - 1], more[m]) ELSE g[m - 1]
        BY <1>3, <2>5, <3>1 DEF Keeps
      <3>4. f[m] = IF rows[m][1] \in Steps THEN Append(f[m - 1], rows[m]) ELSE f[m - 1]
        BY <1>2, <2>5, <3>1 DEF Keeps
      <3> QED
        BY <1>1, <2>3, <3>1, <3>2, <3>3, <3>4
    <2> QED
      BY <2>4, <2>5
  <1>5. g[n + 1] = IF more[n + 1][1] \in Steps THEN Append(g[n], more[n + 1]) ELSE g[n]
    <2>1. n + 1 \in 0 .. n + 1 /\ n + 1 # 0 /\ (n + 1) - 1 = n
      BY <1>1
    <2> QED
      BY <1>3, <2>1 DEF Keeps
  <1> QED
    BY <1>1, <1>2, <1>3, <1>4, <1>5 DEF more

\* Nothing has been written at first.
LEMMA OnlyStepsOfNone == OnlySteps(<<>>) = <<>>
  <1>1. <<>> \in Seq({}) /\ Len(<<>>) = 0
    OBVIOUS
  <1>2. PICK f : Keeps(<<>>, f, 0) /\ OnlySteps(<<>>) = f[0]
    BY <1>1, OnlyStepsIsKept
  <1> QED
    BY <1>2 DEF Keeps

\* What a row does to the rows of the steps.
LEMMA StepRowsGrow ==
  ASSUME SagaInv, NEW s \in Sagas, NEW row \in StepRow \cup EventRow, InsertSagaLog(s, row)
  PROVE  /\ StepRows(s)' = IF row \in StepRow THEN Append(StepRows(s), row) ELSE StepRows(s)
         /\ \A t \in Sagas \ {s} : StepRows(t)' = StepRows(t)
  <1>1. log \in [Sagas -> Seq(StepRow \cup EventRow)]
    BY DEF SagaInv
  <1>2. log'[s] = Append(log[s], row) /\ \A t \in Sagas \ {s} : log'[t] = log[t]
    BY <1>1 DEF InsertSagaLog
  <1>3. row[1] \in Steps <=> row \in StepRow
    <2>1. \A e \in BusEvents : e \notin Steps
      BY DEF BusEvents, Steps, Forward, Compensating
    <2> QED
      BY <2>1 DEF StepRow, EventRow
  <1>4. OnlySteps(Append(log[s], row)) =
           IF row[1] \in Steps THEN Append(OnlySteps(log[s]), row) ELSE OnlySteps(log[s])
    BY <1>1, OnlyStepsOfAppend
  <1> QED
    BY <1>2, <1>3, <1>4 DEF StepRows

\* The orchestrator's steps are the same steps.
LEMMA SameWork == ASSUME NEW s, NEW p \in Steps PROVE SagaWork(s, p) => Orchestrator!SagaWork(s, p)
  BY DEF SagaWork, Orchestrator!SagaWork, SetOrder, Orchestrator!SetOrder, ReserveInventory,
         Orchestrator!ReserveInventory, SetPayment, Orchestrator!SetPayment, CreateShipment,
         Orchestrator!CreateShipment, ReleaseInventory, Orchestrator!ReleaseInventory,
         Steps, Forward, Compensating

\* A step of either kind of saga is a step of the orchestrator, or none of its.
LEMMA AdvanceIsOrchestration ==
  ASSUME SagaInv, NEW s \in Sagas, NEW p \in Steps \cup SagaOutcomes, NEW q \in Steps \cup SagaOutcomes,
         Position(s) = p, Position(s)' = q, Advances(s, p, q),
         \A t \in Sagas \ {s} : Position(t)' = Position(t)
  PROVE  [Orchestrator!SagaNext]_Orchestrator!sagaVars
  <1> DEFINE pos == [t \in Sagas |-> Position(t)]
             rows == [t \in Sagas |-> StepRows(t)]
  <1>1. pos[s] = p /\ pos' = [pos EXCEPT ![s] = q]
    OBVIOUS
  <1>2. ASSUME NEW row \in StepRow, InsertSagaLog(s, row)
        PROVE  rows' = [rows EXCEPT ![s] = Append(@, row)]
    BY <1>2, StepRowsGrow
  <1>3. CASE p \in Steps /\ StepCommits(s, p) /\ q \in {AfterSuccess(p), "rejected"}
    <2>1. <<p, "success">> \in StepRow
      BY <1>3 DEF StepRow
    <2>2. rows' = [rows EXCEPT ![s] = Append(@, <<p, "success">>)]
      BY <1>2, <1>3, <2>1 DEF StepCommits
    <2>3. Orchestrator!SagaWork(s, p)
      BY <1>3, SameWork DEF StepCommits
    <2>4. Orchestrator!StepCommits(s, p)
      BY <2>2, <2>3 DEF Orchestrator!StepCommits, Orchestrator!InsertSagaLog
    <2>5. Orchestrator!StepSucceeds(s) \/ Orchestrator!SagaRejects(s)
      BY <1>1, <1>3, <2>4 DEF Orchestrator!StepSucceeds, Orchestrator!SagaRejects, Orchestrator!StepThrows,
         Orchestrator!TurnTo, Orchestrator!AfterSuccess, AfterSuccess, Orchestrator!Steps,
         Orchestrator!Forward, Orchestrator!Compensating, Steps, Forward, Compensating
    <2> QED
      BY <2>5 DEF Orchestrator!SagaNext, Orchestrator!RunOrderSaga
  <1>4. CASE p \in Steps /\ StepFails(s, p) /\ q = AfterFailure(p)
    <2>1. <<p, "failure">> \in StepRow
      BY <1>4 DEF StepRow
    <2>2. rows' = [rows EXCEPT ![s] = Append(@, <<p, "failure">>)]
      BY <1>2, <1>4, <2>1 DEF StepFails
    <2>4. Orchestrator!StepFails(s, p)
      BY <1>4, <2>2 DEF StepFails, Orchestrator!StepFails, Orchestrator!InsertSagaLog, tables,
         Orchestrator!tables
    <2>5. Orchestrator!StepReturnsFailure(s)
      BY <1>1, <1>4, <2>4 DEF Orchestrator!StepReturnsFailure,
         Orchestrator!TurnTo, Orchestrator!AfterFailure, AfterFailure, Orchestrator!Steps,
         Orchestrator!Forward, Orchestrator!Compensating, Steps, Forward, Compensating
    <2> QED
      BY <2>5 DEF Orchestrator!SagaNext, Orchestrator!RunOrderSaga
  <1>5. CASE p \in Steps /\ q = "rejected" /\ UNCHANGED <<tables, log>>
    <2>1. rows' = rows
      BY <1>5 DEF StepRows
    <2>2. Orchestrator!StepThrows(s, p)
      BY <1>5, <2>1 DEF Orchestrator!StepThrows, tables, Orchestrator!tables
    <2>3. Orchestrator!SagaRejects(s)
      BY <1>1, <1>5, <2>2 DEF Orchestrator!SagaRejects, Orchestrator!TurnTo, Orchestrator!Steps,
         Orchestrator!Forward, Orchestrator!Compensating, Steps, Forward, Compensating
    <2> QED
      BY <2>3 DEF Orchestrator!SagaNext, Orchestrator!RunOrderSaga
  <1>6. CASE UNCHANGED tables /\ q = p /\ (UNCHANGED log \/ \E row \in EventRow : InsertSagaLog(s, row))
    <2>1. rows' = rows
      <3>1. \A row \in EventRow : row \notin StepRow
        BY DEF EventRow, StepRow, BusEvents, Steps, Forward, Compensating
      <3>2. CASE UNCHANGED log
        BY <3>2 DEF StepRows
      <3>3. ASSUME NEW row \in EventRow, InsertSagaLog(s, row) PROVE rows' = rows
        BY <3>1, <3>3, StepRowsGrow
      <3> QED
        BY <1>6, <3>2, <3>3
    <2>2. pos' = pos
      BY <1>6
    <2> QED
      BY <1>6, <2>1, <2>2 DEF Orchestrator!sagaVars, Orchestrator!tables, tables
  <1> QED
    BY <1>3, <1>4, <1>5, <1>6 DEF Advances, StepThrows

\* The handlers of the choreography together take the steps, the turns and the
\* outcomes of the one function the orchestrator is: each step of either kind of
\* saga is a step of the orchestrator, or a row of the bus, which it does not see.
THEOREM ChoreographyRefines == ChoreographySpec => ChoreographyIsOrchestration
  <1>1. ChoreographyInit => Orchestrator!SagaInit
    <2> SUFFICES ASSUME ChoreographyInit PROVE Orchestrator!SagaInit
      OBVIOUS
    <2>1. \A s \in Sagas : Position(s) = "createOrder"
      BY ChoreographyAssumption DEF ChoreographyAssumption, ChoreographyInit, SagaInit, Position
    <2>2. \A s \in Sagas : StepRows(s) = <<>>
      BY OnlyStepsOfNone DEF ChoreographyInit, SagaInit, TablesInit, StepRows
    <2> QED
      BY <2>1, <2>2 DEF ChoreographyInit, SagaInit, TablesInit, Orchestrator!SagaInit, Orchestrator!TablesInit
  <1>2. SagaInv /\ [ChoreographyNext]_choreographyVars => [Orchestrator!SagaNext]_Orchestrator!sagaVars
    <2> SUFFICES ASSUME SagaInv, [ChoreographyNext]_choreographyVars PROVE [Orchestrator!SagaNext]_Orchestrator!sagaVars
      OBVIOUS
    <2>1. CASE ChoreographyNext
      <3>1. PICK s \in Sagas :
               /\ Advances(s, Position(s), Position(s)')
               /\ turn' \in [Sagas -> Steps \cup SagaOutcomes]
               /\ s \in Choreographed => HopOK(s)'
               /\ \A t \in Sagas \ {s} : turn'[t] = turn[t] /\ event'[t] = event[t] /\ hop'[t] = hop[t]
        BY <2>1, NextAdvances
      <3>2. PICK p \in Steps \cup SagaOutcomes, q \in Steps \cup SagaOutcomes : p = Position(s) /\ q = Position(s)'
        BY <3>1, PositionType, NextPositionType
      <3>3. \A t \in Sagas \ {s} : Position(t)' = Position(t)
        BY <3>1 DEF Position
      <3> QED
        BY <3>1, <3>2, <3>3, AdvanceIsOrchestration
    <2>2. CASE UNCHANGED choreographyVars
      <3>1. UNCHANGED <<available, order, reservation, payment, shipment, log, turn, event, hop>>
        BY <2>2 DEF choreographyVars, sagaVars, busVars, tables
      <3>2. \A s \in Sagas : Position(s)' = Position(s) /\ StepRows(s)' = StepRows(s)
        BY <3>1 DEF Position, StepRows
      <3> QED
        BY <3>1, <3>2 DEF Orchestrator!sagaVars, Orchestrator!tables
    <2> QED
      BY <2>1, <2>2
  <1> QED
    BY <1>1, <1>2, SagaInvariant, PTL DEF ChoreographySpec, ChoreographyIsOrchestration, Orchestrator!SagaSpec
=============================================================================
