----------------------------- MODULE SeatProofs -----------------------------
(***************************************************************************)
(* The capstone for every number of requests, keys, seats, customers, pool *)
(* connections, workers, events and retries: the checkout, with the        *)
(* service it implements, and the notification pipeline behind it.         *)
(*                                                                         *)
(* The checkout.  A key's lock and a seat's claim have one owner each, and *)
(* what a request has read under its lock is still so when it writes; the  *)
(* service of CheckoutService is what remains when the locks and the pool  *)
(* are hidden.                                                             *)
(*                                                                         *)
(* The pipeline.  CallsWithinClaims says nothing of the calls still to     *)
(* come: workers that lost their claim go on retrying beside the one that  *)
(* has it now.  The inductive invariant therefore counts the calls each    *)
(* worker may still make under the claim it made (CallsLeft) and the calls *)
(* that have not been answered (Sending).                                  *)
(***************************************************************************)
EXTENDS Checkout, NotificationPipeline, FiniteSetTheorems, TLAPS

-----------------------------------------------------------------------------
(* The checkout. *)

\* The committed tables against the outcomes of the requests.
OrdersAreCommits ==
    /\ events = orders
    /\ \A r \in Requests : r \in orders <=> pc[r] \in {"created", "lost"}

\* The unique index: an undecided key has one holder and no committed order.
KeyExclusive ==
    \A p \in KeyHolders, q \in KeyHolders \cup orders : KeyOf[p] = KeyOf[q] => p = q

\* The row lock: one holder per seat, over a row still reserved for it.
SeatExclusive ==
    /\ \A p, q \in SeatLockers : RequestSeat(p) = RequestSeat(q) => p = q
    /\ \A p \in SeatLockers : /\ seats[RequestSeat(p)].status = "RESERVED"
                              /\ seats[RequestSeat(p)].reserved_by = RequestCustomer(p)

\* What the columns of a seat say together.
SeatRowsConsistent ==
    \A s \in Seats : /\ seats[s].status # "SOLD" => seats[s].sold_to = NoOne
                     /\ seats[s].status = "AVAILABLE" => seats[s].reserved_by = NoOne
                     /\ seats[s].status # "AVAILABLE" => seats[s].reserved_by # NoOne

CheckoutInv == /\ CheckoutTypeOK
               /\ OrdersAreCommits
               /\ KeyExclusive
               /\ SeatExclusive
               /\ SeatRowsConsistent
               /\ OneOrderPerSeat
               /\ SoldWithOrderAndEvent
               /\ AnswersNameTheOrder

\* The empty database and the idle requests satisfy the invariant.
LEMMA CheckoutInitInv == CheckoutInit => CheckoutInv
  BY CheckoutAssumption
  DEF CheckoutAssumption, CheckoutInit, CheckoutInv, CheckoutTypeOK, OrdersAreCommits,
      KeyExclusive, SeatExclusive, SeatRowsConsistent, OneOrderPerSeat,
      SoldWithOrderAndEvent, AnswersNameTheOrder, KeyHolders, SeatLockers, SeatRow,
      InTransaction, Outcomes

\* reserveSeat writes one row: who holds the seat, and until when.
LEMMA SeatReserved ==
    ASSUME CheckoutTypeOK, NEW s \in Seats, NEW c \in Customers, ReserveSeat(s, c)
    PROVE  /\ seats' \in [Seats -> SeatRow]
           /\ \A t \in Seats : t # s => seats'[t] = seats[t]
           /\ seats'[s].status = "RESERVED" /\ seats'[s].reserved_by = c
           /\ seats'[s].sold_to = seats[s].sold_to
  <1> DEFINE row == [seats[s] EXCEPT !.status = "RESERVED", !.reserved_by = c,
                                     !.reserved_until = clock + HoldMinutes]
  <1>1. seats' = [seats EXCEPT ![s] = row]
    BY DEF ReserveSeat
  <1>2. /\ row \in SeatRow /\ row.status = "RESERVED" /\ row.reserved_by = c
        /\ row.sold_to = seats[s].sold_to
    <2>1. clock + HoldMinutes \in Nat
      BY CheckoutAssumption DEF CheckoutAssumption, CheckoutTypeOK
    <2> QED
      BY <2>1 DEF CheckoutTypeOK, SeatRow
  <1> HIDE DEF row
  <1> QED
    BY <1>1, <1>2 DEF CheckoutTypeOK

\* COMMIT publishes one sale: the status and the buyer, and nothing of the hold.
LEMMA SeatBought ==
    ASSUME CheckoutTypeOK, NEW r \in Requests, Commit(r)
    PROVE  /\ seats' \in [Seats -> SeatRow]
           /\ \A t \in Seats : t # RequestSeat(r) => seats'[t] = seats[t]
           /\ seats'[RequestSeat(r)].status = "SOLD"
           /\ seats'[RequestSeat(r)].sold_to = RequestCustomer(r)
           /\ seats'[RequestSeat(r)].reserved_by = seats[RequestSeat(r)].reserved_by
  <1> DEFINE row == [seats[RequestSeat(r)] EXCEPT !.status = "SOLD",
                                                  !.sold_to = RequestCustomer(r)]
  <1>1. seats' = [seats EXCEPT ![RequestSeat(r)] = row]
    BY DEF Commit
  <1>2. RequestSeat(r) \in Seats /\ RequestCustomer(r) \in Customers
    BY CheckoutAssumption DEF CheckoutAssumption, RequestSeat, RequestCustomer
  <1>3. /\ row \in SeatRow /\ row.status = "SOLD" /\ row.sold_to = RequestCustomer(r)
        /\ row.reserved_by = seats[RequestSeat(r)].reserved_by
    BY <1>2 DEF CheckoutTypeOK, SeatRow
  <1> HIDE DEF row
  <1> QED
    BY <1>1, <1>2, <1>3 DEF CheckoutTypeOK

\* Every statement, failure and clock tick keeps the invariant.
LEMMA CheckoutStepInv == CheckoutInv /\ [CheckoutNext]_checkoutVars => CheckoutInv'
  <1> SUFFICES ASSUME CheckoutInv, [CheckoutNext]_checkoutVars
               PROVE  CheckoutInv'
    OBVIOUS
  <1> USE CheckoutAssumption
      DEF CheckoutAssumption, CheckoutInv, CheckoutTypeOK, OrdersAreCommits, KeyExclusive,
          SeatExclusive, SeatRowsConsistent, OneOrderPerSeat, SoldWithOrderAndEvent,
          AnswersNameTheOrder, KeyHolders, SeatLockers, SeatRow, InTransaction, Outcomes,
          RequestSeat, RequestCustomer
  <1>1. ASSUME NEW s \in Seats, NEW c \in Customers, ReserveSeat(s, c)
        PROVE  CheckoutInv'
    <2>1. /\ seats[s] \in SeatRow /\ seats[s].status = "AVAILABLE" /\ seats[s].sold_to = NoOne
          /\ UNCHANGED <<orders, events, pc, answer, startedAt, clock>>
          /\ clock + HoldMinutes \in Nat
      BY <1>1 DEF ReserveSeat
    <2>2. /\ seats' \in [Seats -> SeatRow]
          /\ \A t \in Seats : t # s => seats'[t] = seats[t]
          /\ seats'[s].status = "RESERVED" /\ seats'[s].reserved_by = c
          /\ seats'[s].sold_to = NoOne
      BY <1>1, <2>1, SeatReserved
    <2>3. \A o \in orders \cup SeatLockers : RequestSeat(o) \in Seats \ {s}
      BY <2>1
    <2>4. KeyHolders' = KeyHolders /\ SeatLockers' = SeatLockers
      BY <2>1
    <2>5. CheckoutTypeOK'
      BY <2>1, <2>2
    <2>9. OrdersAreCommits' /\ KeyExclusive' /\ OneOrderPerSeat' /\ AnswersNameTheOrder'
      BY <2>1, <2>4
    <2>6. SeatExclusive'
      BY <2>2, <2>3, <2>4
    <2>7. SeatRowsConsistent'
      BY <2>2
    <2>8. SoldWithOrderAndEvent'
      <3>1. events' = orders' /\ orders' = orders
        BY <2>1
      <3>2. ASSUME NEW t \in Seats, seats'[t].status = "SOLD"
            PROVE  \E o \in orders : RequestSeat(o) = t
        <4>1. t # s
          BY <2>2, <3>2
        <4>2. seats[t].status = "SOLD"
          BY <2>2, <3>2, <4>1
        <4> QED
          BY <4>2
      <3>3. ASSUME NEW o \in orders
            PROVE  seats'[RequestSeat(o)] = seats[RequestSeat(o)]
        BY <2>2, <2>3
      <3> QED
        BY <3>1, <3>2, <3>3
    <2> QED
      BY <2>5, <2>6, <2>7, <2>8, <2>9
  <1>2. ASSUME NEW r \in Requests, Begin(r)
        PROVE  CheckoutInv'
    BY <1>2 DEF Begin
  <1>3. ASSUME NEW r \in Requests, InsertOrder(r)
        PROVE  CheckoutInv'
    BY <1>3 DEF InsertOrder
  <1>4. ASSUME NEW r \in Requests, AnswerDuplicate(r)
        PROVE  CheckoutInv'
    <2>1. \E o \in orders : KeyOf[o] = KeyOf[r]
      BY <1>4 DEF AnswerDuplicate
    <2>2. PICK o \in orders : /\ KeyOf[o] = KeyOf[r]
                              /\ answer' = [answer EXCEPT ![r] = o]
                              /\ pc' = [pc EXCEPT ![r] = "duplicate"]
      BY <1>4, <2>1 DEF AnswerDuplicate
    <2>3. UNCHANGED <<seats, orders, events, startedAt, clock>>
      BY <1>4 DEF AnswerDuplicate
    <2>4. /\ \A q \in Requests \ {r} : pc'[q] = pc[q] /\ answer'[q] = answer[q]
          /\ pc[r] = "conflict" /\ pc'[r] = "duplicate" /\ answer'[r] = o
      BY <1>4, <2>2 DEF AnswerDuplicate
    <2>5. KeyExclusive' /\ SeatExclusive' /\ OrdersAreCommits'
      <3>1. KeyHolders' = KeyHolders
        BY <2>4
      <3>2. SeatLockers' = SeatLockers
        BY <2>4
      <3>3. OrdersAreCommits'
        BY <2>3, <2>4
      <3>4. KeyExclusive'
        BY <3>1, <2>3
      <3>5. SeatExclusive'
        BY <3>2, <2>3
      <3> QED
        BY <3>3, <3>4, <3>5
    <2>6. CheckoutTypeOK' /\ SeatRowsConsistent' /\ OneOrderPerSeat'
             /\ SoldWithOrderAndEvent'
      BY <2>2, <2>3
    <2>7. AnswersNameTheOrder'
      BY <2>2, <2>3, <2>4
    <2> QED
      BY <2>5, <2>6, <2>7
  <1>5. ASSUME NEW r \in Requests, SellSeat(r)
        PROVE  CheckoutInv'
    BY <1>5 DEF SellSeat
  <1>6. ASSUME NEW r \in Requests, Rollback(r)
        PROVE  CheckoutInv'
    BY <1>6 DEF Rollback
  <1>10. ASSUME NEW r \in Requests, WriteEvent(r)
        PROVE  CheckoutInv'
    BY <1>10 DEF WriteEvent
  <1>11. ASSUME NEW r \in Requests, Fail(r)
        PROVE  CheckoutInv'
    BY <1>11 DEF Fail
  <1>7. ASSUME NEW r \in Requests, Commit(r)
        PROVE  CheckoutInv'
    <2>1. pc[r] = "written" /\ orders' = orders \cup {r} /\ events' = events \cup {r} /\ UNCHANGED <<startedAt, clock>>
      BY <1>7 DEF Commit
    <2>2. /\ pc'[r] \in {"created", "lost"} /\ answer'[r] \in {r, answer[r]}
          /\ pc'[r] = "created" => answer'[r] = r
          /\ \A q \in Requests \ {r} : pc'[q] = pc[q] /\ answer'[q] = answer[q]
          /\ pc' \in [Requests -> {"idle"} \cup InTransaction \cup Outcomes]
          /\ answer' \in [Requests -> Requests \cup {NoOne}]
      <3>1. CASE pc' = [pc EXCEPT ![r] = "created"] /\ answer' = [answer EXCEPT ![r] = r]
        BY <3>1
      <3>2. CASE pc' = [pc EXCEPT ![r] = "lost"] /\ UNCHANGED answer
        BY <3>2
      <3> QED
        BY <1>7, <3>1, <3>2 DEF Commit
    <2>3. /\ KeyHolders' = KeyHolders \ {r} /\ SeatLockers' = SeatLockers \ {r}
          /\ r \in KeyHolders /\ r \in SeatLockers
      BY <2>1, <2>2
    <2>4. /\ RequestSeat(r) \in Seats /\ seats[RequestSeat(r)] \in SeatRow
          /\ seats[RequestSeat(r)].status = "RESERVED" /\ RequestCustomer(r) \in Customers
      BY <2>3
    <2>5. /\ seats' \in [Seats -> SeatRow]
          /\ \A t \in Seats : t # RequestSeat(r) => seats'[t] = seats[t]
          /\ seats'[RequestSeat(r)].status = "SOLD"
          /\ seats'[RequestSeat(r)].sold_to = RequestCustomer(r)
          /\ seats'[RequestSeat(r)].reserved_by = seats[RequestSeat(r)].reserved_by
      BY <1>7, SeatBought
    <2>6. CheckoutTypeOK' /\ OrdersAreCommits'
      BY <2>1, <2>2, <2>5
    <2>7. KeyExclusive'
      BY <2>1, <2>3
    <2>8. SeatExclusive'
      BY <2>3, <2>5
    <2>9. SeatRowsConsistent'
      BY <2>4, <2>5
    <2>10. OneOrderPerSeat' /\ SoldWithOrderAndEvent'
      <3>1. \A o \in orders : RequestSeat(o) # RequestSeat(r) /\ RequestSeat(o) \in Seats
        BY <2>4
      <3>2. OneOrderPerSeat'
        BY <2>1, <3>1
      <3>3. events' = orders'
        BY <2>1
      <3>4. ASSUME NEW t \in Seats, seats'[t].status = "SOLD"
            PROVE  \E o \in orders' : RequestSeat(o) = t
        BY <2>1, <2>5, <3>4
      <3>5. ASSUME NEW o \in orders'
            PROVE  /\ seats'[RequestSeat(o)].status = "SOLD"
                   /\ seats'[RequestSeat(o)].sold_to = RequestCustomer(o)
        BY <2>1, <2>5, <3>1, <3>5
      <3> QED
        BY <3>2, <3>3, <3>4, <3>5
    <2>11. AnswersNameTheOrder'
      BY <2>1, <2>2
    <2> QED
      BY <2>6, <2>7, <2>8, <2>9, <2>10, <2>11
  <1>8. ASSUME Tick
        PROVE  CheckoutInv'
    BY <1>8 DEF Tick
  <1>9. ASSUME UNCHANGED checkoutVars
        PROVE  CheckoutInv'
    BY <1>9 DEF checkoutVars
  <1> QED
    BY <1>1, <1>2, <1>3, <1>4, <1>5, <1>6, <1>7, <1>8, <1>9, <1>10, <1>11
       DEF CheckoutNext, Execute

\* The invariant holds throughout.
LEMMA CheckoutInvariant == CheckoutSpec => []CheckoutInv
  BY CheckoutInitInv, CheckoutStepInv, PTL DEF CheckoutSpec

\* The tables and the requests' positions keep their types.
THEOREM CheckoutTypeCorrect == CheckoutSpec => []CheckoutTypeOK
  <1>1. CheckoutInv => CheckoutTypeOK
    BY DEF CheckoutInv
  <1> QED
    BY <1>1, CheckoutInvariant, PTL

\* No seat, and hence no idempotency key, ever has two orders.
THEOREM CheckoutOneOrderPerSeat == CheckoutSpec => []OneOrderPerSeat
  <1>1. CheckoutInv => OneOrderPerSeat
    BY DEF CheckoutInv
  <1> QED
    BY <1>1, CheckoutInvariant, PTL

\* Order, sale and event are committed together or not at all.
THEOREM CheckoutAtomic == CheckoutSpec => []SoldWithOrderAndEvent
  <1>1. CheckoutInv => SoldWithOrderAndEvent
    BY DEF CheckoutInv
  <1> QED
    BY <1>1, CheckoutInvariant, PTL

\* Callers are answered with the one order of their key, or truthfully refused.
THEOREM CheckoutAnswers == CheckoutSpec => []AnswersNameTheOrder
  <1>1. CheckoutInv => AnswersNameTheOrder
    BY DEF CheckoutInv
  <1> QED
    BY <1>1, CheckoutInvariant, PTL

\* A retry of a checkout that succeeded is never refused: whoever is about to
\* be told "rejected" still holds the key undecided, so no order has it.
THEOREM CheckoutRetryNeverRejected == CheckoutSpec => []RetryNeverRejected
  <1>1. CheckoutInv => RetryNeverRejected
    BY DEF CheckoutInv, CheckoutTypeOK, OrdersAreCommits, KeyExclusive,
           RetryNeverRejected, KeyHolders
  <1> QED
    BY <1>1, CheckoutInvariant, PTL

\* The four together, for any number of requests, keys, seats and connections.
THEOREM CheckoutOrdersSafe == CheckoutSpec => []OrdersSafe
  BY CheckoutOneOrderPerSeat, CheckoutAtomic, CheckoutAnswers,
     CheckoutRetryNeverRejected, PTL DEF OrdersSafe

\* The statement-level handler implements CheckoutService: reserveSeat is
\* Hold, COMMIT is Buy of the request's key, and every other step stutters.
THEOREM CheckoutImplementsService == CheckoutSpec => ImplementsService
  <1>1. CheckoutInit => Service!ServiceInit
    BY DEF CheckoutInit, Service!ServiceInit
  <1>2. CheckoutInv /\ [CheckoutNext]_checkoutVars
           => [Service!ServiceNext]_(Service!serviceVars)
    <2> SUFFICES ASSUME CheckoutInv, [CheckoutNext]_checkoutVars
                 PROVE  [Service!ServiceNext]_(Service!serviceVars)
      OBVIOUS
    <2> USE CheckoutAssumption DEF CheckoutAssumption, RequestSeat, RequestCustomer
    <2>1. ASSUME NEW s \in Seats, NEW c \in Customers, ReserveSeat(s, c)
          PROVE  Service!Hold(s, c)
      <3>1. CheckoutTypeOK /\ seats[s].reserved_by = NoOne /\ UNCHANGED <<orders, events>>
        BY <2>1 DEF ReserveSeat, CheckoutInv, SeatRowsConsistent
      <3>2. /\ \A t \in Seats : t # s => seats'[t] = seats[t]
            /\ seats'[s].reserved_by = c /\ seats'[s].sold_to = seats[s].sold_to
        BY <2>1, <3>1, SeatReserved
      <3> QED
        BY <3>1, <3>2 DEF Service!Hold
    <2>2. ASSUME NEW r \in Requests, Commit(r)
          PROVE  Service!Buy(KeyOf[r])
      <3> DEFINE s == RequestSeat(r)
      <3>1. r \in KeyHolders /\ r \in SeatLockers /\ s \in Seats /\ r \notin orders
        BY <2>2 DEF Commit, CheckoutInv, OrdersAreCommits, KeyHolders, SeatLockers
      <3>2. seats[s].reserved_by = RequestCustomer(r) /\ seats[s].sold_to = NoOne
        BY <3>1 DEF CheckoutInv, SeatExclusive, SeatRowsConsistent
      <3>3. /\ \A t \in Seats : t # s => seats'[t] = seats[t]
            /\ seats'[s].sold_to = RequestCustomer(r)
            /\ seats'[s].reserved_by = seats[s].reserved_by
        BY <2>2, SeatBought DEF CheckoutInv
      <3>4. \A o \in orders : KeyOf[o] # KeyOf[r]
        BY <3>1 DEF CheckoutInv, CheckoutTypeOK, KeyExclusive
      <3>5. orders' = orders \cup {r} /\ events' = events \cup {r}
        BY <2>2 DEF Commit
      <3> QED
        BY <3>1, <3>2, <3>3, <3>4, <3>5 DEF Service!Buy
    <2>3. ASSUME UNCHANGED <<seats, orders, events>>
          PROVE  UNCHANGED Service!serviceVars
      BY <2>3 DEF Service!serviceVars
    <2>4. ASSUME NEW r \in Requests, Begin(r) \/ InsertOrder(r) \/ AnswerDuplicate(r)
                    \/ SellSeat(r) \/ Rollback(r) \/ WriteEvent(r) \/ Fail(r)
          PROVE  UNCHANGED <<seats, orders, events>>
      BY <2>4 DEF Begin, InsertOrder, AnswerDuplicate, SellSeat, Rollback, WriteEvent, Fail
    <2>5. ASSUME Tick \/ UNCHANGED checkoutVars
          PROVE  UNCHANGED <<seats, orders, events>>
      BY <2>5 DEF Tick, checkoutVars
    <2>6. ASSUME NEW s \in Seats, NEW c \in Customers, ReserveSeat(s, c)
          PROVE  Service!ServiceNext
      BY <2>1, <2>6 DEF Service!ServiceNext
    <2>7. ASSUME NEW r \in Requests, Commit(r)
          PROVE  Service!ServiceNext
      BY <2>2, <2>7 DEF Service!ServiceNext
    <2> QED
      BY <2>3, <2>4, <2>5, <2>6, <2>7 DEF CheckoutNext, Execute
  <1> QED
    BY <1>1, <1>2, CheckoutInvariant, PTL
       DEF CheckoutSpec, ImplementsService, Service!ServiceSpec

-----------------------------------------------------------------------------
(* The notification pipeline. *)

\* What the outbox, the workers and the counts of the provider may hold.
PipelineTypes ==
    /\ outbox \in [Events -> OutboxRow]
    /\ worker \in [Workers -> [pc : {"idle", "claimed", "sending", "sent", "failing"},
                               event : Events \cup {NoEvent}, tries : 0 .. MaxTries]]
    /\ calls \in [Events -> Nat] /\ notified \in [Events -> Nat] /\ late \in [Events -> Nat]
    /\ \A w \in Workers : /\ worker[w].pc # "idle" => Event(w) \in Events
                          /\ worker[w].pc = "claimed" => worker[w].tries = 0

\* The send() calls that workers may still make under the claims they made.
CallsLeft(e) ==
    {k \in Workers \X (1 .. MaxTries) :
        LET w == k[1]
        IN  Event(w) = e /\ worker[w].pc \in {"claimed", "sending"} /\ k[2] > worker[w].tries}

\* The workers whose send() call has not been answered.
Sending(e) == {w \in Workers : Event(w) = e /\ worker[w].pc = "sending"}

\* No event is called more often than its claims allow, counting the calls that
\* may still come, and every answer belongs to a call.
CallsCounted ==
    \A e \in Events :
        /\ calls[e] + Cardinality(CallsLeft(e)) <= MaxTries * outbox[e].attempts
        /\ notified[e] + late[e] + Cardinality(Sending(e)) <= calls[e]

\* A worker that is about to report, and a row that reports, success.
SuccessIsReal ==
    /\ \A w \in Workers : worker[w].pc = "sent" => notified[Event(w)] > 0
    /\ PublishedWasNotified

PipelineInv == PipelineTypes /\ CallsCounted /\ SuccessIsReal

\* Both sets are finite: there are finitely many workers.
LEMMA CallsAreFinite ==
    ASSUME NEW e
    PROVE  /\ IsFiniteSet(CallsLeft(e)) /\ Cardinality(CallsLeft(e)) \in Nat
           /\ IsFiniteSet(Sending(e)) /\ Cardinality(Sending(e)) \in Nat
  <1>1. IsFiniteSet(1 .. MaxTries)
    BY PipelineAssumption, FS_Interval DEF PipelineAssumption
  <1>2. IsFiniteSet(Workers \X (1 .. MaxTries))
    BY <1>1, PipelineAssumption, FS_Product DEF PipelineAssumption
  <1>3. CallsLeft(e) \subseteq Workers \X (1 .. MaxTries) /\ Sending(e) \subseteq Workers
    BY DEF CallsLeft, Sending
  <1> QED
    BY <1>2, <1>3, PipelineAssumption, FS_Subset, FS_CardinalityType DEF PipelineAssumption

\* Fewer calls to come or on their way disturb nothing.
LEMMA FewerCalls ==
    ASSUME PipelineTypes, CallsCounted,
           \A e \in Events : /\ outbox'[e].attempts = outbox[e].attempts
                             /\ CallsLeft(e)' \subseteq CallsLeft(e) /\ Sending(e)' \subseteq Sending(e)
                             /\ calls'[e] = calls[e]
                             /\ notified'[e] + late'[e] <= notified[e] + late[e],
           notified' \in [Events -> Nat], late' \in [Events -> Nat]
    PROVE  CallsCounted'
  <1> SUFFICES ASSUME NEW e \in Events
               PROVE  /\ calls'[e] + Cardinality(CallsLeft(e)') <= MaxTries * outbox'[e].attempts
                      /\ notified'[e] + late'[e] + Cardinality(Sending(e)') <= calls'[e]
    BY DEF CallsCounted
  <1>1. Cardinality(CallsLeft(e)') <= Cardinality(CallsLeft(e)) /\ Cardinality(CallsLeft(e)') \in Nat
    BY CallsAreFinite, FS_Subset, FS_CardinalityType
  <1>2. Cardinality(Sending(e)') <= Cardinality(Sending(e)) /\ Cardinality(Sending(e)') \in Nat
    BY CallsAreFinite, FS_Subset, FS_CardinalityType
  <1>3. MaxTries * outbox[e].attempts \in Nat
    BY PipelineAssumption DEF PipelineAssumption, PipelineTypes, OutboxRow
  <1> QED
    BY <1>1, <1>2, <1>3, CallsAreFinite DEF CallsCounted, PipelineTypes

\* Nothing is claimed, called or notified at first.
LEMMA PipelineInitInv == PipelineInit => PipelineInv
  <1> SUFFICES ASSUME PipelineInit PROVE PipelineInv
    OBVIOUS
  <1>1. PipelineTypes
    BY PipelineAssumption, OutboxAssumption
       DEF PipelineAssumption, PipelineTypes, PipelineInit, OutboxInit, OutboxRow, Resting, Event
  <1>2. \A e \in Events : CallsLeft(e) = {} /\ Sending(e) = {}
    BY DEF PipelineInit, Resting, CallsLeft, Sending
  <1>3. CallsCounted
    <2>1. Cardinality({}) = 0 /\ MaxTries * 0 = 0
      BY FS_EmptySet, PipelineAssumption DEF PipelineAssumption
    <2> QED
      BY <1>2, <2>1 DEF CallsCounted, PipelineInit, OutboxInit
  <1>4. SuccessIsReal
    BY DEF SuccessIsReal, PublishedWasNotified, PipelineInit, OutboxInit, Resting
  <1> QED
    BY <1>1, <1>3, <1>4 DEF PipelineInv

\* A claim writes one row: its status, its owner and the count of its claims.
LEMMA RowClaimed ==
  ASSUME outbox \in [Events -> OutboxRow], NEW w \in Workers, NEW e \in Events, ClaimRow(w, e)
  PROVE  /\ outbox' \in [Events -> OutboxRow]
         /\ \A f \in Events : f # e => outbox'[f] = outbox[f]
         /\ outbox'[e].status = "processing" /\ outbox'[e].locked_by = w
         /\ outbox'[e].attempts = outbox[e].attempts + 1
  <1> DEFINE n == outbox[e].attempts + 1
             row == [outbox[e] EXCEPT !.status = "processing", !.locked_by = w, !.attempts = n]
  <1>1. outbox[e] \in OutboxRow /\ n \in Nat
    BY DEF OutboxRow
  <1>2. outbox' = [outbox EXCEPT ![e] = row]
    BY <1>1 DEF ClaimRow, OutboxRow
  <1> HIDE DEF n
  <1>3. /\ row \in OutboxRow /\ row.status = "processing" /\ row.locked_by = w
        /\ row.attempts = n
    BY <1>1 DEF OutboxRow
  <1> HIDE DEF row
  <1> QED
    BY <1>2, <1>3 DEF n

\* The success report: its row is published, unless another worker has it.
LEMMA RowPublished ==
  ASSUME outbox \in [Events -> OutboxRow], NEW w \in Workers, NEW e \in Events, PublishRow(w, e)
  PROVE  /\ outbox' \in [Events -> OutboxRow]
         /\ \A f \in Events : f # e => outbox'[f] = outbox[f]
         /\ outbox'[e].attempts = outbox[e].attempts
         /\ \/ outbox'[e] = outbox[e]
            \/ outbox'[e].status = "published" /\ outbox'[e].locked_by = NoWorker
  <1>1. CASE outbox[e].locked_by # w
    BY <1>1 DEF PublishRow
  <1>2. CASE outbox[e].locked_by = w
    <2> DEFINE row == [outbox[e] EXCEPT !.status = "published", !.locked_by = NoWorker]
    <2>1. outbox' = [outbox EXCEPT ![e] = row]
      BY <1>2 DEF PublishRow
    <2>2. /\ row \in OutboxRow /\ row.status = "published" /\ row.locked_by = NoWorker
          /\ row.attempts = outbox[e].attempts
      BY DEF OutboxRow
    <2> HIDE DEF row
    <2> QED
      BY <2>1, <2>2
  <1> QED
    BY <1>1, <1>2

\* The failure report: its row is to be claimed again or has failed for good,
\* unless another worker has it.
LEMMA RowFailed ==
  ASSUME outbox \in [Events -> OutboxRow], NEW w \in Workers, NEW e \in Events, FailRow(w, e)
  PROVE  /\ outbox' \in [Events -> OutboxRow]
         /\ \A f \in Events : f # e => outbox'[f] = outbox[f]
         /\ outbox'[e].attempts = outbox[e].attempts
         /\ \/ outbox'[e] = outbox[e]
            \/ outbox'[e].status \in {"pending", "failed"} /\ outbox'[e].locked_by = NoWorker
  <1>1. CASE outbox[e].locked_by # w
    BY <1>1 DEF FailRow
  <1>2. CASE outbox[e].locked_by = w
    <2> DEFINE status == IF outbox[e].attempts >= MaxAttempts THEN "failed" ELSE "pending"
               row == [outbox[e] EXCEPT !.status = status, !.locked_by = NoWorker]
    <2>1. outbox' = [outbox EXCEPT ![e] = row]
      BY <1>2 DEF FailRow
    <2>2. status \in {"pending", "failed"}
      OBVIOUS
    <2> HIDE DEF status
    <2>3. /\ row \in OutboxRow /\ row.status = status /\ row.locked_by = NoWorker
          /\ row.attempts = outbox[e].attempts
      BY <2>2 DEF OutboxRow
    <2> HIDE DEF row
    <2> QED
      BY <2>1, <2>2, <2>3
  <1> QED
    BY <1>1, <1>2

\* A claim allows its worker MaxTries calls.
LEMMA ClaimCounted ==
    ASSUME PipelineInv, NEW w \in Workers, NEW e \in Events, ClaimNextEvent(w, e) PROVE PipelineInv'
  <1> USE PipelineAssumption DEF PipelineAssumption
  <1>0. PipelineTypes /\ CallsCounted /\ SuccessIsReal
    BY DEF PipelineInv
  <1>1. /\ worker[w].pc = "idle" /\ outbox'[e].attempts = outbox[e].attempts + 1
        /\ \A f \in Events : f # e => outbox'[f] = outbox[f]
        /\ outbox'[e].status = "processing"
        /\ UNCHANGED <<calls, notified, late>>
        /\ worker' = [worker EXCEPT ![w] = [pc |-> "claimed", event |-> e, tries |-> 0]]
    BY <1>0, RowClaimed DEF ClaimNextEvent, PipelineTypes, providerVars
  <1>2. PipelineTypes'
    <2>1. outbox' \in [Events -> OutboxRow]
      BY <1>0, RowClaimed DEF ClaimNextEvent, PipelineTypes
    <2> QED
      BY <1>0, <1>1, <2>1 DEF PipelineTypes, Event
  <1>3. SuccessIsReal'
    BY <1>0, <1>1 DEF SuccessIsReal, PublishedWasNotified, PipelineTypes, Event
  <1>4. ASSUME NEW f \in Events
        PROVE  /\ calls[f] + Cardinality(CallsLeft(f)') <= MaxTries * outbox'[f].attempts
               /\ notified[f] + late[f] + Cardinality(Sending(f)') <= calls[f]
    <2>1. Sending(f)' = Sending(f)
      BY <1>0, <1>1 DEF Sending, Event, PipelineTypes
    <2>2. CASE f # e
      <3>1. CallsLeft(f)' = CallsLeft(f)
        BY <1>0, <1>1, <2>2 DEF CallsLeft, Event, PipelineTypes
      <3> QED
        BY <1>0, <1>1, <2>1, <2>2, <3>1 DEF CallsCounted
    <2>3. CASE f = e
      <3> DEFINE new == {w} \X (1 .. MaxTries)
      <3>1. CallsLeft(e)' = CallsLeft(e) \cup new
        BY <1>0, <1>1 DEF CallsLeft, Event, PipelineTypes
      <3>2. CallsLeft(e) \cap new = {}
        BY <1>1 DEF CallsLeft
      <3>3. IsFiniteSet(new) /\ Cardinality(new) = MaxTries
        <4>1. IsFiniteSet({w}) /\ Cardinality({w}) = 1
          BY FS_Singleton
        <4>2. IsFiniteSet(1 .. MaxTries) /\ Cardinality(1 .. MaxTries) = MaxTries
          BY FS_Interval
        <4>3. IsFiniteSet(new) /\ Cardinality(new) = 1 * MaxTries
          BY <4>1, <4>2, FS_Product, ZenonT(60)
        <4> QED
          BY <4>3
      <3> HIDE DEF new
      <3>4. Cardinality(CallsLeft(e)') = Cardinality(CallsLeft(e)) + MaxTries
        BY <3>1, <3>2, <3>3, CallsAreFinite, FS_Union, FS_EmptySet
      <3>5. MaxTries * outbox'[e].attempts = MaxTries * outbox[e].attempts + MaxTries
        BY <1>0, <1>1 DEF PipelineTypes, OutboxRow
      <3>6. MaxTries * outbox[e].attempts \in Nat /\ calls[e] \in Nat
        BY <1>0 DEF PipelineTypes, OutboxRow
      <3> QED
        BY <1>0, <2>1, <2>3, <3>4, <3>5, <3>6, CallsAreFinite DEF CallsCounted
    <2> QED
      BY <2>2, <2>3
  <1> QED
    BY <1>1, <1>2, <1>3, <1>4 DEF PipelineInv, CallsCounted

\* A call uses one of those up and is on its way.
LEMMA CallCounted ==
    ASSUME PipelineInv, NEW w \in Workers, Admit(w) \/ SendRetried(w) PROVE PipelineInv'
  <1> USE PipelineAssumption DEF PipelineAssumption
  <1>0. PipelineTypes /\ CallsCounted /\ SuccessIsReal
    BY DEF PipelineInv
  <1>1. /\ worker[w].pc \in {"claimed", "sending"}
        /\ Event(w) \in Events /\ worker[w].tries + 1 \in 1 .. MaxTries
        /\ worker[w] \in [pc : {"idle", "claimed", "sending", "sent", "failing"},
                          event : Events \cup {NoEvent}, tries : 0 .. MaxTries]
    BY <1>0 DEF Admit, SendRetried, AttemptFails, PipelineTypes
  <1>e. PICK e \in Events : e = Event(w)
    BY <1>1
  <1>t. PICK t \in 1 .. MaxTries : t = worker[w].tries + 1
    BY <1>1
  <1>2. /\ worker'[w].pc = "sending" /\ worker'[w].event = e /\ worker'[w].tries = t
        /\ \A v \in Workers : v # w => worker'[v] = worker[v]
        /\ worker' \in [Workers -> [pc : {"idle", "claimed", "sending", "sent", "failing"},
                                    event : Events \cup {NoEvent}, tries : 0 .. MaxTries]]
    <2>1. CASE Admit(w)
      <3>1. t = 1
        BY <1>0, <1>t, <2>1 DEF Admit, PipelineTypes
      <3> DEFINE busy == [worker[w] EXCEPT !.pc = "sending", !.tries = 1]
      <3>2. worker' = [worker EXCEPT ![w] = busy]
        BY <2>1 DEF Admit
      <3>3. /\ busy.pc = "sending" /\ busy.event = e /\ busy.tries = t
            /\ busy \in [pc : {"idle", "claimed", "sending", "sent", "failing"},
                          event : Events \cup {NoEvent}, tries : 0 .. MaxTries]
        <4>1. 1 \in 0 .. MaxTries
          BY <1>t, <3>1
        <4> QED
          BY <1>1, <1>e, <3>1, <4>1 DEF Event
      <3> HIDE DEF busy
      <3> QED
        BY <1>0, <3>2, <3>3 DEF PipelineTypes
    <2>2. CASE SendRetried(w)
      BY <1>0, <1>1, <1>e, <1>t, <2>2 DEF SendRetried, AttemptFails, PipelineTypes, Event
    <2> QED
      BY <2>1, <2>2
  <1>3. /\ calls' = [calls EXCEPT ![e] = @ + 1] /\ UNCHANGED <<outbox, notified>>
        /\ late' \in [Events -> Nat]
        /\ IF worker[w].pc = "claimed" THEN late' = late
           ELSE late' = late \/ late' = [late EXCEPT ![e] = @ + 1]
    BY <1>0, <1>1, <1>e, <1>t DEF Admit, SendRetried, AttemptFails, PipelineTypes, queueVars
  <1>4. PipelineTypes'
    BY <1>0, <1>1, <1>e, <1>t, <1>2, <1>3 DEF PipelineTypes, Event
  <1>5. SuccessIsReal'
    BY <1>0, <1>1, <1>e, <1>t, <1>2, <1>3 DEF SuccessIsReal, PublishedWasNotified, PipelineTypes, Event
  <1>6. CallsCounted'
    <2> SUFFICES ASSUME NEW f \in Events
                 PROVE  /\ calls'[f] + Cardinality(CallsLeft(f)') <= MaxTries * outbox'[f].attempts
                        /\ notified'[f] + late'[f] + Cardinality(Sending(f)') <= calls'[f]
      BY DEF CallsCounted
    <2>1. CASE f # e
      <3>1. CallsLeft(f)' = CallsLeft(f) /\ Sending(f)' = Sending(f)
        BY <1>0, <1>1, <1>e, <1>t, <1>2, <2>1 DEF CallsLeft, Sending, Event, PipelineTypes
      <3> QED
        BY <1>0, <1>1, <1>e, <1>t, <1>3, <2>1, <3>1 DEF CallsCounted, PipelineTypes
    <2>2. CASE f = e
      <3>1. <<w, t>> \in CallsLeft(e) /\ CallsLeft(e)' = CallsLeft(e) \ {<<w, t>>}
        BY <1>0, <1>1, <1>e, <1>t, <1>2 DEF CallsLeft, Event, PipelineTypes
      <3>2. Cardinality(CallsLeft(e)') = Cardinality(CallsLeft(e)) - 1
        <4>1. Cardinality(CallsLeft(e) \ {<<w, t>>}) = Cardinality(CallsLeft(e)) - 1
          BY <3>1, CallsAreFinite, FS_RemoveElement
        <4> QED
          BY <3>1, <4>1
      <3>3. /\ worker[w].pc = "claimed" => Cardinality(Sending(e)') = Cardinality(Sending(e)) + 1
            /\ worker[w].pc = "sending" => Sending(e)' = Sending(e)
        <4>1. worker[w].pc = "claimed" => w \notin Sending(e) /\ Sending(e)' = Sending(e) \cup {w}
          BY <1>0, <1>1, <1>e, <1>t, <1>2 DEF Sending, Event
        <4>2. worker[w].pc = "sending" => Sending(e)' = Sending(e)
          BY <1>0, <1>1, <1>e, <1>t, <1>2 DEF Sending, Event
        <4> QED
          BY <4>1, <4>2, CallsAreFinite, FS_AddElement
      <3>4. MaxTries * outbox[e].attempts \in Nat /\ outbox' = outbox
        BY <1>0, <1>1, <1>e, <1>t, <1>3 DEF PipelineTypes, OutboxRow
      <3>5. /\ calls[e] \in Nat /\ notified[e] \in Nat /\ late[e] \in Nat
            /\ calls'[e] = calls[e] + 1 /\ notified'[e] = notified[e]
            /\ late'[e] \in {late[e], late[e] + 1}
            /\ worker[w].pc = "claimed" => late'[e] = late[e]
        BY <1>0, <1>1, <1>e, <1>t, <1>3 DEF PipelineTypes
      <3>6. /\ calls[e] + Cardinality(CallsLeft(e)) <= MaxTries * outbox[e].attempts
            /\ notified[e] + late[e] + Cardinality(Sending(e)) <= calls[e]
        BY <1>0, <1>1, <1>e, <1>t DEF CallsCounted
      <3> QED
        BY <1>1, <2>2, <3>2, <3>3, <3>4, <3>5, <3>6, CallsAreFinite
    <2> QED
      BY <2>1, <2>2
  <1> QED
    BY <1>4, <1>5, <1>6 DEF PipelineInv

\* A call that is answered, with success or for good without, is no longer on
\* its way; its worker makes no more of them.
LEMMA AnswerCounted ==
    ASSUME PipelineInv, NEW w \in Workers, SendSucceeds(w) \/ SendsExhausted(w) PROVE PipelineInv'
  <1> USE PipelineAssumption DEF PipelineAssumption
  <1>0. PipelineTypes /\ CallsCounted /\ SuccessIsReal
    BY DEF PipelineInv
  <1>1. /\ worker[w].pc = "sending" /\ Event(w) \in Events
        /\ worker[w] \in [pc : {"idle", "claimed", "sending", "sent", "failing"},
                          event : Events \cup {NoEvent}, tries : 0 .. MaxTries]
    BY <1>0 DEF SendSucceeds, SendsExhausted, AttemptFails, PipelineTypes
  <1>e. PICK e \in Events : e = Event(w)
    BY <1>1
  <1>2. /\ worker'[w].pc \in {"sent", "failing"} /\ worker'[w].event = e
        /\ \A v \in Workers : v # w => worker'[v] = worker[v]
        /\ worker' \in [Workers -> [pc : {"idle", "claimed", "sending", "sent", "failing"},
                                    event : Events \cup {NoEvent}, tries : 0 .. MaxTries]]
    BY <1>0, <1>1, <1>e DEF SendSucceeds, SendsExhausted, Goto, PipelineTypes, Event
  <1>3. /\ UNCHANGED <<outbox, calls>> /\ notified' \in [Events -> Nat] /\ late' \in [Events -> Nat]
        /\ \A f \in Events : f # e => notified'[f] = notified[f] /\ late'[f] = late[f]
        /\ notified'[e] >= notified[e] /\ late'[e] >= late[e]
        /\ notified'[e] + late'[e] <= notified[e] + late[e] + 1
        /\ worker'[w].pc = "sent" => notified'[e] > 0
    BY <1>0, <1>1, <1>e DEF SendSucceeds, SendsExhausted, AttemptFails, Goto, PipelineTypes, queueVars
  <1>4. PipelineTypes'
    BY <1>0, <1>1, <1>e, <1>2, <1>3 DEF PipelineTypes, Event
  <1>5. SuccessIsReal'
    BY <1>0, <1>1, <1>e, <1>2, <1>3, SMTT(30) DEF SuccessIsReal, PublishedWasNotified, PipelineTypes, Event
  <1>6. CallsCounted'
    <2> SUFFICES ASSUME NEW f \in Events
                 PROVE  /\ calls'[f] + Cardinality(CallsLeft(f)') <= MaxTries * outbox'[f].attempts
                        /\ notified'[f] + late'[f] + Cardinality(Sending(f)') <= calls'[f]
      BY DEF CallsCounted
    <2>1. CallsLeft(f)' \subseteq CallsLeft(f)
      BY <1>0, <1>1, <1>e, <1>2 DEF CallsLeft, Event, PipelineTypes
    <2>2. Cardinality(CallsLeft(f)') <= Cardinality(CallsLeft(f)) /\ Cardinality(CallsLeft(f)') \in Nat
      BY <2>1, CallsAreFinite, FS_Subset, FS_CardinalityType
    <2>3. /\ f = e => w \in Sending(f) /\ Sending(f)' = Sending(f) \ {w}
          /\ f # e => Sending(f)' = Sending(f)
      BY <1>0, <1>1, <1>e, <1>2 DEF Sending, Event, PipelineTypes
    <2>4. f = e => Cardinality(Sending(f)') = Cardinality(Sending(f)) - 1
      BY <2>3, CallsAreFinite, FS_RemoveElement
    <2>5. MaxTries * outbox[f].attempts \in Nat
      BY <1>0 DEF PipelineTypes, OutboxRow
    <2>6. /\ calls[f] + Cardinality(CallsLeft(f)) <= MaxTries * outbox[f].attempts
          /\ notified[f] + late[f] + Cardinality(Sending(f)) <= calls[f]
          /\ calls[f] \in Nat /\ notified[f] \in Nat /\ late[f] \in Nat
          /\ notified'[f] \in Nat /\ late'[f] \in Nat
      BY <1>0, <1>3 DEF CallsCounted, PipelineTypes
    <2> QED
      BY <1>3, <2>2, <2>3, <2>4, <2>5, <2>6, CallsAreFinite
  <1> QED
    BY <1>4, <1>5, <1>6 DEF PipelineInv

\* The reports change the row of the event in hand; a worker without one makes
\* no calls.
LEMMA ReportCounted ==
    ASSUME PipelineInv, NEW w \in Workers,
           MarkPublished(w) \/ MarkPublishFailed(w) \/ WorkerThrows(w) \/ Refuse(w)
    PROVE  PipelineInv'
  <1> USE PipelineAssumption DEF PipelineAssumption
  <1>0. PipelineTypes /\ CallsCounted /\ SuccessIsReal
    BY DEF PipelineInv
  <1>1. /\ worker' \in [Workers -> [pc : {"idle", "claimed", "sending", "sent", "failing"},
                                    event : Events \cup {NoEvent}, tries : 0 .. MaxTries]]
        /\ \A v \in Workers : v # w => worker'[v] = worker[v]
        /\ worker'[w].pc \in {"idle", "failing"}
        /\ worker'[w].pc = "failing" => worker'[w].event = Event(w)
        /\ worker[w].pc # "idle" /\ UNCHANGED <<calls, notified, late>>
    BY <1>0 DEF MarkPublished, MarkPublishFailed, WorkerThrows, Refuse, Goto, Resting, PipelineTypes,
                providerVars, Event
  <1>2. /\ outbox' \in [Events -> OutboxRow]
        /\ \A f \in Events :
              /\ outbox'[f].attempts = outbox[f].attempts
              /\ outbox'[f].status = "published" =>
                    outbox[f].status = "published" \/ (f = Event(w) /\ worker[w].pc = "sent")
    <2>1. CASE PublishRow(w, Event(w)) /\ worker[w].pc = "sent"
      BY <1>0, <1>1, <2>1, RowPublished DEF PipelineTypes
    <2>2. CASE FailRow(w, Event(w))
      <3>1. Event(w) \in Events /\ outbox \in [Events -> OutboxRow]
        BY <1>0, <1>1 DEF PipelineTypes
      <3> QED
        BY <2>2, <3>1, RowFailed
    <2>3. CASE UNCHANGED outbox
      BY <1>0, <2>3 DEF PipelineTypes
    <2> QED
      BY <2>1, <2>2, <2>3 DEF MarkPublished, MarkPublishFailed, WorkerThrows, Refuse, queueVars
  <1>3. PipelineTypes'
    BY <1>0, <1>1, <1>2 DEF PipelineTypes, Event
  <1>4. SuccessIsReal'
    BY <1>0, <1>1, <1>2 DEF SuccessIsReal, PublishedWasNotified, PipelineTypes, Event
  <1>5. \A f \in Events : CallsLeft(f)' \subseteq CallsLeft(f) /\ Sending(f)' \subseteq Sending(f)
    BY <1>0, <1>1 DEF CallsLeft, Sending, Event, PipelineTypes
  <1>6. CallsCounted'
    BY <1>0, <1>1, <1>2, <1>5, FewerCalls DEF PipelineTypes
  <1> QED
    BY <1>3, <1>4, <1>6 DEF PipelineInv

\* Late answers, restarts, lapsing leases and the clock.
LEMMA EnvironmentCounted ==
    ASSUME PipelineInv,
           \/ \E e \in Events : LateSuccess(e) \/ Lapse(e)
           \/ Restart \/ TickBreaker
    PROVE  PipelineInv'
  <1> USE PipelineAssumption DEF PipelineAssumption
  <1>0. PipelineTypes /\ CallsCounted /\ SuccessIsReal
    BY DEF PipelineInv
  <1>1. ASSUME NEW e \in Events, LateSuccess(e) PROVE PipelineInv'
    <2>1. /\ UNCHANGED <<outbox, worker, calls>>
          /\ notified' \in [Events -> Nat] /\ late' \in [Events -> Nat]
          /\ \A f \in Events : notified'[f] >= notified[f] /\ notified'[f] + late'[f] = notified[f] + late[f]
      <3>1. /\ notified \in [Events -> Nat] /\ late \in [Events -> Nat] /\ late[e] > 0
            /\ notified' = [notified EXCEPT ![e] = @ + 1] /\ late' = [late EXCEPT ![e] = @ - 1]
        BY <1>0, <1>1 DEF LateSuccess, PipelineTypes
      <3>2. \A f \in Events : notified[f] \in Nat /\ late[f] \in Nat
        BY <3>1
      <3>3. notified'[e] = notified[e] + 1 /\ late'[e] = late[e] - 1 /\ late[e] - 1 \in Nat
        BY <3>1, <3>2
      <3>4. \A f \in Events \ {e} : notified'[f] = notified[f] /\ late'[f] = late[f]
        BY <3>1
      <3>5. notified' \in [Events -> Nat] /\ late' \in [Events -> Nat]
        BY <3>1, <3>3
      <3>6. UNCHANGED <<outbox, worker, calls>>
        BY <1>1 DEF LateSuccess, queueVars
      <3> QED
        BY <3>2, <3>3, <3>4, <3>5, <3>6
    <2>2. PipelineTypes' /\ SuccessIsReal'
      BY <1>0, <2>1 DEF PipelineTypes, SuccessIsReal, PublishedWasNotified, Event
    <2>3. \A f \in Events : CallsLeft(f)' = CallsLeft(f) /\ Sending(f)' = Sending(f)
      BY <2>1 DEF CallsLeft, Sending, Event
    <2>4. CallsCounted'
      BY <1>0, <2>1, <2>3, FewerCalls DEF PipelineTypes
    <2> QED
      BY <2>2, <2>4 DEF PipelineInv
  <1>2. CASE Restart
    <2>1. /\ UNCHANGED <<outbox, calls, notified, late>>
          /\ worker' = [w \in Workers |-> Resting]
      BY <1>2 DEF Restart, queueVars, providerVars
    <2>2. PipelineTypes' /\ SuccessIsReal'
      BY <1>0, <2>1 DEF PipelineTypes, SuccessIsReal, PublishedWasNotified, Event, Resting
    <2>3. \A f \in Events : CallsLeft(f)' = {} /\ Sending(f)' = {}
      BY <2>1 DEF CallsLeft, Sending, Event, Resting
    <2>4. CallsCounted'
      BY <1>0, <2>1, <2>3, FewerCalls DEF PipelineTypes
    <2> QED
      BY <2>2, <2>4 DEF PipelineInv
  <1>3. CASE TickBreaker \/ \E e \in Events : Lapse(e)
    <2>1. UNCHANGED <<outbox, worker, calls, notified, late>>
      BY <1>3 DEF TickBreaker, Lapse, LeaseLapses, queueVars, providerVars
    <2> QED
      BY <1>0, <2>1 DEF PipelineInv, PipelineTypes, CallsCounted, SuccessIsReal, PublishedWasNotified,
                       CallsLeft, Sending, Event
  <1> QED
    BY <1>1, <1>2, <1>3

\* Every step of a worker, of a late answer, of a lapsing lease or of a restart
\* keeps the accounts.
LEMMA PipelineInvariant == PipelineSpec => []PipelineInv
  <1>1. PipelineInv /\ [PipelineNext]_pipelineVars => PipelineInv'
    <2> SUFFICES ASSUME PipelineInv, [PipelineNext]_pipelineVars PROVE PipelineInv'
      OBVIOUS
    <2>1. CASE UNCHANGED pipelineVars
      BY <2>1 DEF pipelineVars, queueVars, providerVars, PipelineInv, PipelineTypes, CallsCounted,
                  SuccessIsReal, PublishedWasNotified, CallsLeft, Sending, Event
    <2> QED
      BY <2>1, ClaimCounted, CallCounted, AnswerCounted, ReportCounted, EnvironmentCounted
         DEF PipelineNext, Work
  <1> QED
    BY PipelineInitInv, <1>1, PTL DEF PipelineSpec

\* Whatever the provider loses or answers late, whoever loses its claim or is
\* restarted: an event is called at most MaxTries times per claim, the customer
\* gets at most one message per call, and "published" means that one arrived.
THEOREM PipelineIsSafe == PipelineSpec => []PipelineSafe
  <1>1. PipelineInv => PipelineSafe
    <2> SUFFICES ASSUME PipelineInv, NEW e \in Events
                 PROVE  calls[e] <= MaxTries * outbox[e].attempts /\ notified[e] + late[e] <= calls[e]
      BY DEF PipelineInv, SuccessIsReal, PipelineSafe, CallsWithinClaims
    <2>1. MaxTries * outbox[e].attempts \in Nat /\ calls[e] \in Nat /\ notified[e] \in Nat /\ late[e] \in Nat
      BY PipelineAssumption DEF PipelineAssumption, PipelineInv, PipelineTypes, OutboxRow
    <2>2. /\ calls[e] + Cardinality(CallsLeft(e)) <= MaxTries * outbox[e].attempts
          /\ notified[e] + late[e] + Cardinality(Sending(e)) <= calls[e]
      BY DEF PipelineInv, CallsCounted
    <2> QED
      BY <2>1, <2>2, CallsAreFinite
  <1> QED
    BY <1>1, PipelineInvariant, PTL

\* The workers are inside breaker.execute() exactly while they are sending, and
\* the fields of the breaker stay in their types, a restart of the process
\* included.
InsideTheBreaker ==
    /\ state \in {"CLOSED", "OPEN", "HALF_OPEN"} /\ consecutiveFailures \in Nat
    /\ sinceOpened \in 0 .. CooldownMs
    /\ call \in [Workers -> {"idle", "call", "probe"}]
    /\ \A w \in Workers : call[w] # "idle" <=> worker[w].pc = "sending"
    /\ late \in [Events -> 0 .. MaxLate]

\* A step of a worker or of the environment keeps the types.
LEMMA BreakerKeepsItsTypes ==
  ASSUME PipelineTypes, InsideTheBreaker, [PipelineNext]_pipelineVars PROVE InsideTheBreaker'
  <1>0. /\ CooldownMs \in Nat /\ MaxLate \in Nat /\ MaxTries \in Nat \ {0}
        /\ worker \in [Workers -> [pc : {"idle", "claimed", "sending", "sent", "failing"},
                                   event : Events \cup {NoEvent}, tries : 0 .. MaxTries]]
    BY PipelineAssumption DEF PipelineAssumption, PipelineTypes
  <1>1. ASSUME NEW w \in Workers, Admit(w) PROVE InsideTheBreaker'
    <2>1. call' \in [Workers -> {"idle", "call", "probe"}] /\ call'[w] # "idle"
          /\ \A v \in Workers \ {w} : call'[v] = call[v]
      BY <1>1 DEF InsideTheBreaker, Admit, Breaker!StartCall, Breaker!StartProbe
    <2>2. worker'[w].pc = "sending" /\ \A v \in Workers \ {w} : worker'[v] = worker[v]
      BY <1>0, <1>1 DEF Admit
    <2>3. state' \in {"CLOSED", "OPEN", "HALF_OPEN"} /\ UNCHANGED <<consecutiveFailures, sinceOpened, late>>
      BY <1>1 DEF InsideTheBreaker, Admit, Breaker!StartCall, Breaker!StartProbe
    <2> QED BY <2>1, <2>2, <2>3 DEF InsideTheBreaker
  <1>2. ASSUME NEW w \in Workers, Refuse(w) PROVE InsideTheBreaker'
    <2>1. /\ state' \in {"CLOSED", "OPEN", "HALF_OPEN"} /\ UNCHANGED <<consecutiveFailures, sinceOpened, late, call>>
          /\ call[w] = "idle"
      BY <1>2 DEF InsideTheBreaker, Refuse, Breaker!Reject, Breaker!EntryState, providerVars
    <2>2. worker'[w].pc = "failing" /\ \A v \in Workers \ {w} : worker'[v] = worker[v]
      BY <1>0, <1>2 DEF Refuse, Goto
    <2> QED BY <2>1, <2>2 DEF InsideTheBreaker
  <1>3. ASSUME NEW w \in Workers, SendSucceeds(w) \/ SendsExhausted(w) PROVE InsideTheBreaker'
    <2>1. Breaker!CallSucceeds(w) \/ Breaker!ProbeSucceeds(w) \/ Breaker!CallFails(w) \/ Breaker!ProbeFails(w)
      BY <1>3 DEF SendSucceeds, SendsExhausted
    <2>2. /\ call' \in [Workers -> {"idle", "call", "probe"}] /\ call'[w] = "idle"
          /\ \A v \in Workers \ {w} : call'[v] = call[v]
      BY <2>1 DEF InsideTheBreaker, Breaker!CallSucceeds, Breaker!ProbeSucceeds, Breaker!CallFails,
                  Breaker!ProbeFails
    <2>3. state' \in {"CLOSED", "OPEN", "HALF_OPEN"} /\ consecutiveFailures' \in Nat /\ sinceOpened' \in 0 .. CooldownMs
      BY <1>0, <2>1 DEF InsideTheBreaker, Breaker!CallSucceeds, Breaker!ProbeSucceeds, Breaker!CallFails,
                        Breaker!ProbeFails
    <2>4. worker'[w].pc # "sending" /\ \A v \in Workers \ {w} : worker'[v] = worker[v]
      BY <1>0, <1>3 DEF SendSucceeds, SendsExhausted, Goto
    <2>5. late' \in [Events -> 0 .. MaxLate]
      BY <1>0, <1>3 DEF InsideTheBreaker, SendSucceeds, SendsExhausted, AttemptFails
    <2> QED BY <2>2, <2>3, <2>4, <2>5 DEF InsideTheBreaker
  <1>4. ASSUME NEW w \in Workers, SendRetried(w) PROVE InsideTheBreaker'
    <2>1. UNCHANGED <<state, consecutiveFailures, sinceOpened, call>>
      BY <1>4 DEF SendRetried, breakerVars
    <2>2. \A v \in Workers : worker'[v].pc = worker[v].pc
      BY <1>0, <1>4 DEF SendRetried
    <2>3. late' \in [Events -> 0 .. MaxLate]
      BY <1>0, <1>4 DEF InsideTheBreaker, SendRetried, AttemptFails
    <2> QED BY <2>1, <2>2, <2>3 DEF InsideTheBreaker
  <1>5. ASSUME NEW w \in Workers,
               (\E e \in Events : ClaimNextEvent(w, e)) \/ MarkPublished(w) \/ MarkPublishFailed(w) \/ WorkerThrows(w)
        PROVE InsideTheBreaker'
    <2>1. UNCHANGED <<state, consecutiveFailures, sinceOpened, call, late>>
      BY <1>5 DEF ClaimNextEvent, MarkPublished, MarkPublishFailed, WorkerThrows, breakerVars, providerVars
    <2>2. /\ worker[w].pc # "sending" /\ worker'[w].pc # "sending"
          /\ \A v \in Workers \ {w} : worker'[v] = worker[v]
      BY <1>0, <1>5 DEF ClaimNextEvent, MarkPublished, MarkPublishFailed, WorkerThrows, Goto, Resting
    <2> QED BY <2>1, <2>2 DEF InsideTheBreaker
  <1>6. CASE Restart
    <2>1. \A w \in Workers : call'[w] = "idle" /\ worker'[w].pc = "idle"
      BY <1>6 DEF Restart, Resting
    <2>2. /\ state' = "CLOSED" /\ consecutiveFailures' = 0 /\ sinceOpened' = CooldownMs
          /\ call' = [w \in Workers |-> "idle"] /\ late' = late
      BY <1>6 DEF Restart, providerVars
    <2> QED BY <1>0, <2>1, <2>2 DEF InsideTheBreaker
  <1>7. CASE TickBreaker
    BY <1>0, <1>7 DEF InsideTheBreaker, TickBreaker, Breaker!Tick, providerVars
  <1>8. CASE \E e \in Events : LateSuccess(e) \/ Lapse(e)
    <2>1. UNCHANGED <<state, consecutiveFailures, sinceOpened, call, worker>>
      BY <1>8 DEF LateSuccess, Lapse, breakerVars
    <2>2. late' \in [Events -> 0 .. MaxLate]
      BY <1>0, <1>8 DEF InsideTheBreaker, LateSuccess, Lapse, providerVars
    <2> QED BY <2>1, <2>2 DEF InsideTheBreaker
  <1>9. CASE UNCHANGED pipelineVars
    BY <1>9 DEF InsideTheBreaker, pipelineVars, breakerVars, providerVars
  <1> QED BY <1>1, <1>2, <1>3, <1>4, <1>5, <1>6, <1>7, <1>8, <1>9 DEF PipelineNext, Work

\* The types of the pipeline: among them that a worker is inside
\* breaker.execute() exactly while it is sending, also after a restart.
THEOREM PipelineTypeCorrect == PipelineSpec => []PipelineTypeOK
  <1> DEFINE Flag == halfOpenProbeInFlight \in BOOLEAN
  <1>1. PipelineInit => InsideTheBreaker
    BY PipelineAssumption DEF PipelineAssumption, PipelineInit, Breaker!BreakerInit, InsideTheBreaker, Resting
  <1>2. PipelineInit => Flag
    BY Zenon DEF PipelineInit, Breaker!BreakerInit
  <1>3. Flag /\ [PipelineNext]_pipelineVars => Flag'
    BY Zenon DEF PipelineNext, pipelineVars, breakerVars, Work, ClaimNextEvent, Admit, Refuse, SendSucceeds,
                 SendRetried, SendsExhausted, MarkPublished, MarkPublishFailed, WorkerThrows, LateSuccess,
                 Lapse, Restart, TickBreaker, Breaker!Reject, Breaker!StartProbe, Breaker!StartCall,
                 Breaker!ProbeSucceeds, Breaker!ProbeFails, Breaker!CallSucceeds, Breaker!CallFails, Breaker!Tick
  <1>4. PipelineInv => PipelineTypes
    BY DEF PipelineInv
  <1>5. PipelineTypes /\ InsideTheBreaker /\ Flag => PipelineTypeOK
    <2> SUFFICES ASSUME PipelineTypes, InsideTheBreaker, Flag PROVE PipelineTypeOK
      OBVIOUS
    <2>1. Breaker!BreakerTypeOK
      BY Zenon DEF InsideTheBreaker, Breaker!BreakerTypeOK, Breaker!CircuitState
    <2> HIDE DEF Flag
    <2>2. \A w \in Workers : worker[w].event \in Events \cup {NoEvent} /\ worker[w].tries \in 0 .. MaxTries
      BY DEF PipelineTypes
    <2> QED BY <2>1, <2>2 DEF PipelineTypeOK, PipelineTypes, InsideTheBreaker
  <1> QED
    BY <1>1, <1>2, <1>3, <1>4, <1>5, BreakerKeepsItsTypes, PipelineInvariant, PTL DEF PipelineSpec

=============================================================================
