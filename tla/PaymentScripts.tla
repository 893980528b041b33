--------------------------- MODULE PaymentScripts ---------------------------
(***************************************************************************)
(* The scenario scripts of labs 15 and 16: payments that are retried, with *)
(* and without an idempotency key, and orders that must reach a broker,    *)
(* by dual writes and through the transactional outbox.                    *)
(***************************************************************************)
EXTENDS PgSession

(***************************************************************************)
(* Lab 15.  A row is the payment of one idempotency key; its value is the  *)
(* id (or the confirmation code) of the attempt that inserted it.          *)
(***************************************************************************)
countPaymentsFor(rs) == Cardinality({r \in rs : val[r] # Absent})
getPaymentsByIdempotencyKey(s, key, row) == <<Read(s, key, row)>>

performNaivePaymentAttempt(s, key, id) == <<Insert(s, key, id)>>
\* No key, or a fresh one per attempt: every attempt is a row of its own.
NaiveRetry ==
    Both(<<>>, performNaivePaymentAttempt("A", "w", 1) \o performNaivePaymentAttempt("A", "x", 2) \o PromiseAll,
         performNaivePaymentAttempt("B", "y", 3), performNaivePaymentAttempt("C", "z", 4))
NaiveRetryOutcome == countPaymentsFor({"w", "x"}) = 2 /\ countPaymentsFor({"y", "z"}) = 2

\* INSERT ... ON CONFLICT DO NOTHING RETURNING *, else SELECT by the key.
performIdempotentPaymentAttempt(s, key, id, inserted, row) ==
    <<InsertOnce(s, key, id, inserted), IfAtMost(inserted, 0, 3), Let(row, id), Skip(4)>>
    \o getPaymentsByIdempotencyKey(s, key, row)
    \o <<IfAtLeast(row, 0, 2), Raise>>
performCachedResultPaymentAttempt(s, key, code, inserted, row) ==
    performIdempotentPaymentAttempt(s, key, code, inserted, row)

IdempotentSequential ==
    Solo(<<>>, performIdempotentPaymentAttempt("A", "x", 1, "a", "b")
               \o performIdempotentPaymentAttempt("A", "x", 2, "c", "d"))
IdempotentSequentialOutcome == reg["a"] = 1 /\ reg["c"] = 0 /\ reg["d"] = reg["b"]
SameKey(first, second, third) == With(Both(<<>>, PromiseAll3, first, second), "r", third)
IdempotentConcurrent ==
    SameKey(performIdempotentPaymentAttempt("A", "x", 1, "a", "b"),
            performIdempotentPaymentAttempt("B", "x", 2, "c", "d"),
            performIdempotentPaymentAttempt("C", "x", 3, "e", "f"))
CachedResultPattern ==
    SameKey(performCachedResultPaymentAttempt("A", "x", 1, "a", "b"),
            performCachedResultPaymentAttempt("B", "x", 2, "c", "d"),
            performCachedResultPaymentAttempt("C", "x", 3, "e", "f"))
\* One attempt inserts; all get the row that is stored, whatever they computed.
SameKeyOutcome ==
    /\ reg["a"] + reg["c"] + reg["e"] = 1
    /\ reg["b"] = val["x"] /\ reg["d"] = val["x"] /\ reg["f"] = val["x"]

(***************************************************************************)
(* Lab 16.  x and y are an order and its outbox event (0: unpublished, 1:  *)
(* published), w and z another pair; f counts deliveries of the broker.    *)
(***************************************************************************)
publishToBroker == <<Bump("f")>>

\* The broker is down: the order is there and nobody will ever hear of it.
NaiveDualWriteBrokerFails == Solo(<<>>, <<Let("f", 0), Insert("A", "x", 1), Let("a", 0)>>)
NaiveDualWriteBrokerFailsOutcome == val["x"] = 1 /\ val["y"] = Absent /\ reg["f"] = 0
\* The INSERT violates amount > 0: the event is out and there is no order.
NaiveDualWriteDbFails ==
    Solo(<<>>, <<Let("f", 0)>> \o publishToBroker \o <<Catch(NonNegative(Insert("A", "x", -5)), 1)>>)
NaiveDualWriteDbFailsOutcome == val["x"] = Absent /\ reg["f"] = 1 /\ err["main"] = CheckViolation

\* A mistyped event type violates a CHECK of outbox_events.
performTransactionalOrderCreation(order, event, injectOutboxInsertFailure) ==
    <<Begin("A", "RC"), Insert("A", order, 1),
      Catch(NonNegative(Insert("A", event, IF injectOutboxInsertFailure THEN -5 ELSE 0)), 3),
      Commit("A"), Skip(2), Rollback("A")>>
\* SELECT the unpublished event, publish it, UPDATE it.
drainOutbox(event, seen) ==
    <<Read("A", event, seen), IfAtLeast(seen, 1, 3)>> \o publishToBroker \o <<Set("A", event, 1)>>
TransactionalOutbox ==
    MayCrash(Solo(<<>>, <<Let("f", 0)>> \o performTransactionalOrderCreation("x", "y", FALSE)
                        \o performTransactionalOrderCreation("w", "z", TRUE)
                        \o drainOutbox("y", "a") \o drainOutbox("y", "b")))
TransactionalOutboxOutcome ==
    val["x"] = 1 /\ val["y"] = 1 /\ val["w"] = Absent /\ val["z"] = Absent /\ reg["f"] = 1 /\ reg["b"] = 1
=============================================================================
