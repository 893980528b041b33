---------------------------- MODULE QueueScripts ----------------------------
(***************************************************************************)
(* Scenario scripts whose workers, consumers and customers race for one    *)
(* row: the claim without SKIP LOCKED of lab 14, the consumers of lab 18   *)
(* that are handed one message twice, and the seat reservation and the     *)
(* checkout without an idempotency key of lab 40.                          *)
(***************************************************************************)
EXTENDS PgSession

(***************************************************************************)
(* Lab 14.  w and x are two jobs in the order of created_at: 0 pending,    *)
(* 1 processing.  The candidates are those the statement's snapshot holds; *)
(* it queues for the first even when the second is free, and drops a row   *)
(* that is no longer pending once it has the lock.                         *)
(***************************************************************************)
TakeIfPending(s, job, n, got, on) ==
    <<ForUpdate(s, job, got), IfAtLeast(got, 1, 5),
      Set(s, job, 1), Commit(s), Let(got, n), Skip(on)>>
claimJobPlainForUpdate(s, got, later) ==
    <<Begin(s, "RC"), Read(s, "x", later), Read(s, "w", got), IfAtLeast(got, 1, 7)>>
    \o TakeIfPending(s, "w", 1, got, 10)
    \o <<IfAtLeast(later, 1, 7)>> \o TakeIfPending(s, "x", 2, got, 3)
    \o <<Rollback(s), Let(got, 0)>>
PlainClaims(jobs) ==
    Both(jobs, PromiseAll, claimJobPlainForUpdate("A", "a", "b"), claimJobPlainForUpdate("B", "c", "d"))
ForUpdateClaims == PlainClaims("w" :> 0 @@ "x" :> 0)
ForUpdateClaimsOutcome == {reg["a"], reg["c"]} = {1, 2} /\ val["w"] = 1 /\ val["x"] = 1
\* One job for two workers: the one that waited gets null.
ForUpdateLastJob == PlainClaims("w" :> 0 @@ "x" :> 1)
ForUpdateLastJobOutcome == {reg["a"], reg["c"]} = {0, 1} /\ val["w"] = 1

(***************************************************************************)
(* Lab 18.  x is the account's balance in units of one credit, the other   *)
(* rows are the processed_messages row of a message.                       *)
(***************************************************************************)
applyNaive(s) == <<Add(s, "x", 1)>>
NaiveConsumer == Solo("x" :> 0, applyNaive("A") \o <<Read("A", "x", "a")>> \o applyNaive("A"))
NaiveConsumerOutcome == reg["a"] = 1 /\ val["x"] = 2

\* SELECT, UPDATE and INSERT, each a transaction of its own.  got: 0 skipped,
\* 1 applied, 2 applied but the INSERT conflicted.
applyRacy(s, message, got) ==
    <<Read(s, message, got), IfAtMost(got, 0, 3), Let(got, 0), Skip(7), Sleep, Add(s, "x", 1),
      Catch(Insert(s, message, 1), 3), Let(got, 1), Skip(2), Let(got, 2)>>
RacyConsumer ==
    Both("x" :> 0, PromiseAll, applyRacy("A", "y", "a"), applyRacy("B", "y", "b"))
\* The primary key lets one INSERT through, and every delivery that passed the
\* check has credited the account, whatever became of its INSERT.
RacyConsumerOutcome ==
    /\ val["y"] = 1
    /\ {reg["a"], reg["b"]} \in {{0, 1}, {1, 2}}
    /\ val["x"] = Cardinality({r \in {"a", "b"} : reg[r] > 0})

\* INSERT ... ON CONFLICT DO NOTHING and the UPDATE in one transaction.
applyIdempotent(s, message, got) ==
    <<Begin(s, "RC"), InsertOnce(s, message, 1, got), IfAtLeast(got, 1, 3), Rollback(s), Skip(3),
      Add(s, "x", 1), Commit(s)>>
IdempotentConsumer ==
    With(Both("x" :> 0, applyIdempotent("A", "w", "a") \o applyIdempotent("A", "w", "b") \o PromiseAll3,
              applyIdempotent("A", "y", "c"), applyIdempotent("B", "y", "d")),
         "r", applyIdempotent("C", "y", "e"))
IdempotentConsumerOutcome ==
    reg["a"] = 1 /\ reg["b"] = 0 /\ reg["c"] + reg["d"] + reg["e"] = 1 /\ val["x"] = 2

(***************************************************************************)
(* Lab 40.  x is the seat: 0 AVAILABLE, n RESERVED by customer n, 10 + n   *)
(* SOLD to it; y and z are the orders of two requests and w counts         *)
(* outbox_events (only written while the seat is locked).                  *)
(***************************************************************************)
SoldTo(customer) == 10 + customer
reserveSeat(s, customer, got) == <<SetWhen(s, "x", 0, customer, got)>>
resetSeatToAvailable(s) == <<Set(s, "x", 0)>>
SeatReservationRace ==
    With(Both("x" :> 3, resetSeatToAvailable("A") \o PromiseAll3,
              reserveSeat("A", 1, "a"), reserveSeat("B", 2, "b")), "r", reserveSeat("C", 3, "c"))
SeatReservationRaceOutcome ==
    /\ reg["a"] + reg["b"] + reg["c"] = 1
    /\ val["x"] = reg["a"] + 2 * reg["b"] + 3 * reg["c"]

\* A fresh key on every call: a request that finds the seat already sold to
\* its own customer inserts one more order and one more event.
checkoutNaive(s, customer, order, got) ==
    <<Begin(s, "RC"), ForUpdate(s, "x", got),
      IfAtLeast(got, SoldTo(customer) + 1, 10), IfAtLeast(got, SoldTo(customer), 4),
      IfAtLeast(got, customer + 1, 8), IfAtMost(got, customer - 1, 7),
      Set(s, "x", SoldTo(customer)), Insert(s, order, 1), Add(s, "w", 1), Commit(s), Let(got, 1), Skip(3),
      Rollback(s), Let(got, 0)>>
DuplicateCheckoutStorm ==
    Both("x" :> 3 @@ "w" :> 0, resetSeatToAvailable("A") \o reserveSeat("A", 1, "a") \o PromiseAll,
         checkoutNaive("A", 1, "y", "b"), checkoutNaive("B", 1, "z", "c"))
DuplicateCheckoutStormOutcome ==
    /\ reg["a"] = 1 /\ reg["b"] = 1 /\ reg["c"] = 1
    /\ val["x"] = SoldTo(1) /\ val["y"] = 1 /\ val["z"] = 1 /\ val["w"] = 2
=============================================================================
