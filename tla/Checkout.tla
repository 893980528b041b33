------------------------------ MODULE Checkout ------------------------------
(***************************************************************************)
(* Seat reservation and the idempotent checkout of the capstone, lab 40    *)
(* (src/seats/reserve-seat.ts, src/checkout/checkout-idempotent.ts).       *)
(*                                                                         *)
(* A request is one HTTP attempt: one execution of checkoutIdempotent() on *)
(* one pooled connection.  A retry is another request with the same        *)
(* idempotency key.  Each SQL statement of the transaction is a step of    *)
(* its own, at READ COMMITTED: rows another transaction has not committed  *)
(* are invisible, INSERT ... ON CONFLICT waits for an undecided insert of  *)
(* the same key, UPDATE waits for the row lock and then looks at the row's *)
(* committed version.  What a transaction has written but not committed is *)
(* read off its position (KeyHolders, SeatLockers); Commit publishes all   *)
(* of it and the end of a request in any other way publishes nothing.      *)
(*                                                                         *)
(* now() is the start of the transaction, so the hold is tested against    *)
(* startedAt however long the statements waited.  An order's id is the     *)
(* request that inserted it.  A seat is reserved at most once here (no     *)
(* expiry job exists in lab 40), so its token is determined by the seat    *)
(* and a wrong token is refused by the same conjunct as a wrong customer.  *)
(***************************************************************************)
EXTENDS Naturals, FiniteSets

CONSTANTS Requests, Keys, Seats, Customers,
          KeyOf,       \* input.idempotencyKey of each request
          SeatOf,      \* input.seatId of each logical checkout
          CustomerOf,  \* input.customerId of each logical checkout
          NoOne,       \* SQL NULL
          PoolSize,    \* connections of the pg Pool
          HoldMinutes, \* reserveSeat's holdMinutes, in ticks
          MaxClock     \* bound on the clock

ASSUME CheckoutAssumption == /\ KeyOf \in [Requests -> Keys]
                             /\ SeatOf \in [Keys -> Seats]
                             /\ CustomerOf \in [Keys -> Customers]
                             /\ NoOne \notin Customers \cup Requests
                             /\ PoolSize \in Nat \ {0}
                             /\ HoldMinutes \in Nat
                             /\ MaxClock \in Nat

VARIABLES seats,      \* committed rows of seats
          orders,     \* committed rows of orders, by inserting request
          events,     \* committed rows of outbox_events, by order
          pc,         \* position of each request, or its outcome
          answer,     \* the order id a request answered with
          startedAt,  \* now() of each request's transaction
          clock

checkoutVars == <<seats, orders, events, pc, answer, startedAt, clock>>

Outcomes == {"created", "duplicate", "rejected", "error", "lost"}

\* A request between its BEGIN and its COMMIT or ROLLBACK.
InTransaction == {"begun", "conflict", "inserted", "rejecting", "sold", "written"}

SeatRow == [status : {"AVAILABLE", "RESERVED", "SOLD"},
            reserved_by : Customers \cup {NoOne},
            reserved_until : Nat,
            sold_to : Customers \cup {NoOne}]

CheckoutInit ==
    /\ seats = [s \in Seats |-> [status |-> "AVAILABLE", reserved_by |-> NoOne,
                                 reserved_until |-> 0, sold_to |-> NoOne]]
    /\ orders = {}
    /\ events = {}
    /\ pc = [r \in Requests |-> "idle"]
    /\ answer = [r \in Requests |-> NoOne]
    /\ startedAt = [r \in Requests |-> 0]
    /\ clock = 0

RequestSeat(r) == SeatOf[KeyOf[r]]
RequestCustomer(r) == CustomerOf[KeyOf[r]]

\* Requests whose inserted order row is not committed yet.
KeyHolders == {r \in Requests : pc[r] \in {"inserted", "rejecting", "sold", "written"}}

\* Requests whose UPDATE of the seat row is not committed yet.
SeatLockers == {r \in Requests : pc[r] \in {"sold", "written"}}

Connected == {r \in Requests : pc[r] \in InTransaction}

\* reserveSeat: one conditional UPDATE.  On a seat that is not AVAILABLE it
\* changes nothing.
ReserveSeat(s, c) ==
    /\ seats[s].status = "AVAILABLE"
    /\ seats' = [seats EXCEPT ![s] = [@ EXCEPT !.status = "RESERVED", !.reserved_by = c,
                                               !.reserved_until = clock + HoldMinutes]]
    /\ UNCHANGED <<orders, events, pc, answer, startedAt, clock>>

\* pool.connect() and BEGIN.
Begin(r) ==
    /\ pc[r] = "idle"
    /\ Cardinality(Connected) < PoolSize
    /\ pc' = [pc EXCEPT ![r] = "begun"]
    /\ startedAt' = [startedAt EXCEPT ![r] = clock]
    /\ UNCHANGED <<seats, orders, events, answer, clock>>

\* Mutant: the fallback SELECT asks the pool for a second connection.
MutAnswerDuplicateSecondConnection(r) ==
    /\ pc[r] = "conflict"
    /\ Cardinality(Connected) < PoolSize
    /\ \E o \in orders : /\ KeyOf[o] = KeyOf[r]
                         /\ answer' = [answer EXCEPT ![r] = o]
                         /\ pc' = [pc EXCEPT ![r] = "duplicate"]
    /\ UNCHANGED <<seats, orders, events, startedAt, clock>>

\* Mutant: the UPDATE's status and ownership test runs before the row lock is held.
MutSellSeatUnlocked(r) ==
    LET seat == seats[RequestSeat(r)] IN
    /\ pc[r] = "inserted"
    /\ pc' = [pc EXCEPT ![r] =
                 IF /\ seat.status = "RESERVED"
                    /\ seat.reserved_by = RequestCustomer(r)
                    /\ seat.reserved_until > startedAt[r]
                 THEN "sold" ELSE "rejecting"]
    /\ UNCHANGED <<seats, orders, events, answer, startedAt, clock>>

\* Mutant: a SOLD seat of the same customer passes, as in the naive handler.
MutSellSeatAlreadyMine(r) ==
    LET seat == seats[RequestSeat(r)] IN
    /\ pc[r] = "inserted"
    /\ \A p \in SeatLockers : RequestSeat(p) # RequestSeat(r)
    /\ pc' = [pc EXCEPT ![r] =
                 IF \/ /\ seat.status = "RESERVED"
                       /\ seat.reserved_by = RequestCustomer(r)
                       /\ seat.reserved_until > startedAt[r]
                    \/ seat.status = "SOLD" /\ seat.sold_to = RequestCustomer(r)
                 THEN "sold" ELSE "rejecting"]
    /\ UNCHANGED <<seats, orders, events, answer, startedAt, clock>>

\* INSERT INTO orders ... ON CONFLICT (idempotency_key) DO NOTHING RETURNING.
InsertOrder(r) ==
    /\ pc[r] = "begun"
    /\ \A p \in KeyHolders : KeyOf[p] # KeyOf[r]
    /\ pc' = [pc EXCEPT ![r] = IF \E o \in orders : KeyOf[o] = KeyOf[r]
                               THEN "conflict" ELSE "inserted"]
    /\ UNCHANGED <<seats, orders, events, answer, startedAt, clock>>

\* The fallback SELECT on the same client, and COMMIT.
AnswerDuplicate(r) ==
    /\ pc[r] = "conflict"
    /\ \/ \E o \in orders : /\ KeyOf[o] = KeyOf[r]
                            /\ answer' = [answer EXCEPT ![r] = o]
                            /\ pc' = [pc EXCEPT ![r] = "duplicate"]
       \/ /\ \A o \in orders : KeyOf[o] # KeyOf[r]
          /\ pc' = [pc EXCEPT ![r] = "error"]   \* "conflicted but no row was found"
          /\ UNCHANGED answer
    /\ UNCHANGED <<seats, orders, events, startedAt, clock>>

\* UPDATE seats SET status = 'SOLD' ... WHERE the hold is this customer's and
\* runs past now().
SellSeat(r) ==
    LET seat == seats[RequestSeat(r)] IN
    /\ pc[r] = "inserted"
    /\ \A p \in SeatLockers : RequestSeat(p) # RequestSeat(r)
    /\ pc' = [pc EXCEPT ![r] =
                 IF /\ seat.status = "RESERVED"
                    /\ seat.reserved_by = RequestCustomer(r)
                    /\ seat.reserved_until > startedAt[r]
                 THEN "sold" ELSE "rejecting"]
    /\ UNCHANGED <<seats, orders, events, answer, startedAt, clock>>

\* rowCount !== 1: ROLLBACK takes the inserted order back.
Rollback(r) ==
    /\ pc[r] = "rejecting"
    /\ pc' = [pc EXCEPT ![r] = "rejected"]
    /\ UNCHANGED <<seats, orders, events, answer, startedAt, clock>>

\* INSERT INTO outbox_events.
WriteEvent(r) ==
    /\ pc[r] = "sold"
    /\ pc' = [pc EXCEPT ![r] = "written"]
    /\ UNCHANGED <<seats, orders, events, answer, startedAt, clock>>

\* COMMIT.  Its response may be lost on the way: the caller then sees an
\* exception (the ROLLBACK of the catch block finds nothing to undo).
Commit(r) ==
    /\ pc[r] = "written"
    /\ orders' = orders \cup {r}
    /\ events' = events \cup {r}
    /\ seats' = [seats EXCEPT ![RequestSeat(r)] = [@ EXCEPT !.status = "SOLD",
                                                            !.sold_to = RequestCustomer(r)]]
    /\ \/ /\ pc' = [pc EXCEPT ![r] = "created"]
          /\ answer' = [answer EXCEPT ![r] = r]
       \/ /\ pc' = [pc EXCEPT ![r] = "lost"]
          /\ UNCHANGED answer
    /\ UNCHANGED <<startedAt, clock>>

\* A statement fails or the process dies: PostgreSQL rolls back.
Fail(r) ==
    /\ pc[r] \in InTransaction
    /\ pc' = [pc EXCEPT ![r] = "error"]
    /\ UNCHANGED <<seats, orders, events, answer, startedAt, clock>>

Tick ==
    /\ clock < MaxClock
    /\ clock' = clock + 1
    /\ UNCHANGED <<seats, orders, events, pc, answer, startedAt>>

\* The statements of checkoutIdempotent() after BEGIN.
Execute(r) == \/ InsertOrder(r) \/ AnswerDuplicate(r) \/ SellSeat(r)
              \/ Rollback(r) \/ WriteEvent(r) \/ Commit(r)

CheckoutNext == \/ \E s \in Seats, c \in Customers : ReserveSeat(s, c)
                \/ \E r \in Requests : Begin(r) \/ Execute(r) \/ Fail(r)
                \/ Tick

CheckoutSpec == CheckoutInit /\ [][CheckoutNext]_checkoutVars

-----------------------------------------------------------------------------
\* Types of the tables, of the requests' positions and of the clock.
CheckoutTypeOK ==
    /\ seats \in [Seats -> SeatRow]
    /\ orders \subseteq Requests
    /\ events \subseteq Requests
    /\ pc \in [Requests -> {"idle"} \cup InTransaction \cup Outcomes]
    /\ answer \in [Requests -> Requests \cup {NoOne}]
    /\ startedAt \in [Requests -> Nat]
    /\ clock \in Nat

\* A request that is about to be told "rejected" belongs to a checkout that
\* has no order: a retry of a checkout that succeeded is answered with its
\* order, never refused because the seat is by now sold (to itself).
RetryNeverRejected ==
    \A r \in Requests : pc[r] = "rejecting" =>
        \A o \in orders : KeyOf[o] # KeyOf[r]

\* One order per seat, hence per idempotency key, whatever the interleaving of
\* retries, of two tabs of one customer and of two customers.
OneOrderPerSeat ==
    \A o, p \in orders : RequestSeat(o) = RequestSeat(p) => o = p

\* Order, sale and OrderConfirmed event are visible together or not at all: a
\* seat is sold when it has an order, and to the customer of that order.
SoldWithOrderAndEvent ==
    /\ events = orders
    /\ \A s \in Seats : seats[s].status = "SOLD" => \E o \in orders : RequestSeat(o) = s
    /\ \A o \in orders : /\ seats[RequestSeat(o)].status = "SOLD"
                         /\ seats[RequestSeat(o)].sold_to = RequestCustomer(o)

\* What callers are told: the answered order exists, carries the caller's key
\* and is the same for all of them; a refused request left no order; and a
\* conflict always finds the original row (the code's "conflicted but no row
\* was found" would be reported as an error with no statement having failed).
AnswersNameTheOrder ==
    \A r \in Requests :
        /\ pc[r] \in {"created", "duplicate"} =>
              answer[r] \in orders /\ KeyOf[answer[r]] = KeyOf[r]
        /\ pc[r] = "rejected" => r \notin orders
        /\ pc[r] = "conflict" => \E o \in orders : KeyOf[o] = KeyOf[r]

\* What a request and its retries leave behind, in the tables and in the answers.
OrdersSafe ==
    OneOrderPerSeat /\ SoldWithOrderAndEvent /\ AnswersNameTheOrder /\ RetryNeverRejected

\* No request is still on its connection: waits for a key or a row lock were
\* released, and the pool was not exhausted by requests waiting for another.
RequestsEnded == \A r \in Requests : pc[r] \notin InTransaction

\* The statement-level handler implements the one-step service.
Service == INSTANCE CheckoutService WITH
    holder <- [s \in Seats |-> seats[s].reserved_by],
    buyer <- [s \in Seats |-> seats[s].sold_to],
    orders <- {KeyOf[o] : o \in orders},
    events <- {KeyOf[o] : o \in events}

ImplementsService == Service!ServiceSpec
=============================================================================
