# TLA+ models of the systems-engineering-lab

The repository is a course of 41 independent labs (`labs/NN-*`, TypeScript on
Postgres and Redis), four small shared packages and a runner. Each lab
builds one mechanism (a queue, an outbox, a lock, a saga, a breaker ...) and lab
40 combines several into one small system. There is no single program: what
the labs share is that each is a protocol of a few actors over a database, and
that each claims something about every interleaving, crash and retry that its
own tests can only sample. This project models those protocols, checks
them with TLC on small instances and proves the central claims with TLAPS for
every instance.

Contents

1. [Inventory](#1-inventory)
2. [Plan](#2-plan)
3. [How the models are made](#3-how-the-models-are-made)
4. [Modules and runs](#4-modules-and-runs)
5. [Where code and text disagree](#5-where-code-and-text-disagree)
6. [Proofs](#6-proofs)
7. [What is only model-checked](#7-what-is-only-model-checked)
8. [What is not modelled](#8-what-is-not-modelled)

To repeat a check, in this directory: `tlc -config MCOrders.cfg MCOrders`
(module and configuration of each run are in section 4); to repeat a proof:
`tlapm SeatProofs.tla`.

## 1. Inventory

### 1.1 Parts with a protocol of their own

| Part | Where | State | Operations | Talks to |
|---|---|---|---|---|
| circuit breaker | lab 37 and 40, `src/lib/circuit-breaker.ts` | state, consecutive failures, openedAt, probe flag (memory) | `execute`: reject, start call or probe; settle with success or failure | shared by all concurrent callers of one process |
| retry, timeout | lab 37 and 40, `src/lib/retry.ts`, `timeout.ts` | attempt number | call, wait, give up; a timeout does not cancel the call | wraps the downstream call inside the breaker |
| rate limiters | lab 36, `src/rate-limit/*`; lab 40 | one Redis key: hash (tokens, last_refill_ms) or sorted set | `check`: a Lua script run with the caller's clock | any number of processes |
| bounded queue | lab 36, `src/backpressure/bounded-queue.ts` | `queue_state.pending_count`, `jobs` | enqueue, claimOneJob, completeJob, worker loop | producers and workers meet at the counter's row lock |
| job queue | lab 14, `src/queue/*` | `jobs`, `job_attempts`, leases | claimJob, completeJob, failJob, worker loop | workers only, through SKIP LOCKED and leases |
| outbox | lab 17 `src/queue/*`, lab 40 `src/outbox/*` | `outbox_events`, leases | claimNextEvent, markPublished, markPublishFailed | written by the checkout, read by publishers |
| broker and consumer preview | lab 17, `broker.ts`, `idempotent-consumer.ts` | messages, `processed_events` | publish, consume | called by publishers |
| seats and checkout | lab 40, `src/seats`, `src/checkout` | `seats`, `orders` (unique key), `outbox_events`, connection pool | reserveSeat, checkoutIdempotent | clients that retry; feeds the outbox |
| notification worker | lab 40, `src/outbox/worker-protected.ts`, `src/downstream` | outbox row, breaker, sends under way | claim, send with retry/timeout/breaker, record outcome | outbox, breaker, provider |
| delivery | lab 19 `src/delivery/*`, lab 18 `src/scenarios/*-consumer.ts` | attempt number, inbox rows, balance | sendOnce, sendWithRetry; naive, racy and idempotent receiver | lossy network between them |
| sagas | lab 20, `src/domain`, `orchestration`, `choreography` | orders, reservations, payments, shipments, stock, `saga_log` | 5 steps and 3 compensations, orchestrator, event bus and handlers | all sagas share the inventory row |
| Redis lock | lab 22, `src/redis-lock/*` | lock key with TTL, token counter, fenced row | acquire, take token, renew, write, release | workers that may pause for any time |
| isolation levels, row locks, versions, deadlocks | labs 05–11, 32, `src/scenarios`, `src/lib/transfer.ts` | rows, snapshots, locks | transactions of two or three sessions, retry loops | the database |
| ticket reservation | lab 12 | seat with hold and token | reserve (three ways), pay, expire | buyers, expiration worker |
| advisory locks | lab 13 | lock table of the server | lock, try, unlock, lose the connection | sessions |
| idempotent payments | lab 15 | payments with key and stored result | insert or return stored result | retrying clients |
| transactional outbox | lab 16 | orders, outbox | dual write, transaction, drain script | broker |
| cache | lab 21, `src/cache/*` | cache entry, refill lease, in-process promises | read, refill, wait, revalidate | readers in several processes, database, Redis |
| pooling | lab 23 | backends, session state on them, `default_pool_size` | connect, execute, disconnect, tune | PgBouncer |
| replication | labs 24–28, `src/lib`, `src/scenarios` | WAL, replay positions, roles, links, apply delay | write, read, route, wait for LSN, sticky reads, promote | primary, replicas |
| migrations and backfills | labs 29, 30 | columns, row locks, totals of a run | DDL beside a writer; expand, backfill in batches, resume | old and new application versions |
| vacuum | lab 31 | versions, reusable space, statistics | UPDATE passes, VACUUM, VACUUM FULL, autovacuum | write probers |
| pagination | lab 34 | a client's cursor | offset and keyset page | writers between pages |
| partitions | lab 35, `src/db/partitions.ts` | attached and detached tables, the flat twin | seed, reconcile, attach, detach and drop | an operator who runs scripts one by one |
| observability | lab 38 | counters, gauges, two log files | handle a request, scrape, flush, parse | requests in flight, log transport |
| row-level security | lab 39 | tenant setting of a pooled connection, policy, rows | tenant session, disable and enable the policy | scripts of two processes |

The other labs (01–04, 33, 41), the shared packages and the runner have no
protocol: single statements, query plans, measurements, generators and prose.
`PROJECT.json` lists every part with its status.

### 1.2 What makes them hard

* **Interleaving at statement level.** At READ COMMITTED a transaction sees
  other commits between its own statements. What protects it are row locks and
  unique indexes, and the code never names them (`checkout-idempotent.ts:63`, `claim.ts:64`).
* **State used after an `await`.** The breaker is read before `await fn()` and
  written after it; a settlement may meet a breaker others have moved on
  (`circuit-breaker.ts:78,94`).
* **Leases.** A lease says when others may take over; nothing stops the former
  holder. Every report of a worker may be late (labs 14, 17, 22, 40).
* **Lost answers.** A COMMIT that went through looks like a failure to its caller
  (checkout, delivery, queue, saga). The callers retry, compensate or stop.
* **Death between two steps**, each committed on its own: claim and report,
  effect and acknowledgment, `processed_events` and side effect, saga steps.
* **Clocks.** now() is fixed at the start of a transaction, rate limiters trust
  the stamp of the caller, Redis expires keys by its own clock.
* **Sleeps as synchronisation.** The scenario scripts order their sessions with
  `sleep(ms)`: their verdict is only as good as the guess that the other side has
  reached its lock by then.
* **Scripts that restore what they changed**, in `finally`, by a later statement or
  not at all: apply delay, pool size, policy, partition layout.
* **Progress.** Pools, locks and empty claims: does everybody end?

### 1.3 What correct means, part by part

* breaker: one probe at a time, whatever settles late; closed means below the
  threshold; half-open never without a probe that will decide; a healthy
  downstream is reached again.
* limiters: no more is admitted than capacity plus refill, or limit per window;
  nobody is refused while there is budget.
* queues: a job belongs to one worker while its lease runs, retries are bounded,
  no job is forgotten, the counter is the queue.
* checkout: at most one order per key and per seat; order, sale and event
  together; every answer names that order; a retry after a success succeeds;
  all this however the statements interleave, which is to say that the
  transaction implements a one-step checkout.
* outbox: published means delivered; terminal rows never change; duplicates have
  one effect; every event ends.
* delivery: acknowledged means applied; the idempotent receiver applies once;
  the others never more often than they were reached.
* sagas: stock is conserved; what is shipped is paid for and kept; the log tells
  the tables; the choreography is the orchestration.
* lock: fenced writes follow the order of the lock; only its holder touches the
  lock; a crashed holder's lock is freed.
* tickets: a hold is kept for its time, a sale was paid for within it, a lapsed hold
  is reverted.
* cache: one refill at a time while the lease runs, no way back to an older value.
* pool and retries: session state stays where a client may rely on it, no more
  backends or calls than the bounds say, a repeated charge is applied once.
* transactions: each remedy (transaction, lock order, retry, serializable, version,
  key, outbox) holds in every committed state, and each script's verdict is
  what happened.
* replication: a standby is a prefix of its upstream, a failover keeps what was
  acknowledged, no scenario leaves a delay behind.
* long-running work on tables: backfills lose and redo nothing, pages are exact,
  tenants see their rows, the seed restores the layout, sizes, metrics and logs
  say what happened.

## 2. Plan

Order of work, the most important behaviour first:

1. *Done.* The capstone: `CircuitBreaker`, `CheckoutService`, `Checkout`,
   `OutboxQueue`, `NotificationPipeline`.
2. *Done.* The mechanisms it is built from: `JobQueue`, `OutboxPublisher`,
   `Delivery`, `SagaSteps`/`OrderSaga`/`ChoreographedSaga`, `FencedLock`,
   `RateLimit`, `BoundedQueue`.
3. *Done.* What else is held for a time or shared: `Tickets` (lab 12), `CacheRefill`
   (lab 21), `Pooling` (lab 23), `Retries` (lab 37).
4. *Done.* The database under the scenario scripts: `PgSession`, and on it
   `IsolationScripts`, `LockScripts`, `PaymentScripts`, `MigrationScripts`,
   `QueueScripts` (labs 05–11, 13–16, 18, 29, 32, 40).
5. *Done.* The life of the data: `Replication` (24–28), `Backfill` (29, 30),
   `Vacuum` (31), `Pagination` (34), `Partitions` (35), `Observability` (38),
   `TenantSessions` (39).
6. *Done.* Proofs of every safety property of the runs but those named next, of
   their inductive invariants, and of both refinements (section 6).
7. Left: proofs of what the scenario scripts report at their end, `OutcomesHold` and
   that part of `ReportsHold`, as far as the scripts leave anything to generalise
   (section 7).

## 3. How the models are made

* **Steps.** One action is what the code does without giving control away: a
  synchronous stretch up to an `await`, one SQL statement that may wait, one
  Redis command or script. Where a transaction locks its row with the first
  statement and reads nothing else, it is one step, and the module's
  header says so.
* **Transactions.** READ COMMITTED: variables hold committed rows; what a
  transaction has written so far is read off its position; COMMIT publishes it,
  ROLLBACK (a failed statement, a crash) does not. A row lock is a predicate
  over positions (`SeatLockers`, `RowLocked`) or a variable (`countLock`).
* **Answers may be lost.** Every COMMIT that the code answers to a caller can
  go through without the caller learning of it.
* **Time.** A deadline that is only compared with now() is a set of leases that
  have run out (`lapsed`) or a remaining TTL. Only where arithmetic on time
  matters (checkout's hold, rate limits, cooldown) is there a clock.
* **Data.** Names are model values; amounts, quantities and tokens are small
  numbers; payloads, logs and wording are left out. `saga_log` is kept since the
  lab makes claims about it.
* **Choice.** Where two implementations exist (three receivers, two release
  methods, two write paths, two limiters), a variable picks the deployed
  one in the initial state, so one run covers all of them.
* **Mutants.** An operator `Mut...` before an operator is a plausible bug in the
  same code: it shows that the property named in `PROJECT.json` can fail.
* **Scripts.** A scenario script is data: a sequence of statements or calls per
  concurrent thread (`PgSession`, `Replication`, `Retries`, `TenantSessions`,
  `Partitions`), and the module's actions execute them in every interleaving.
  A promise that is started and awaited later is a thread of its own.
  `sleep(ms)` orders nothing; a flag (`onTime`, `prompt`) remembers whether every
  sleep did outlast what it waits for, and a verdict that needs this says so.
* **One subject per behaviour.** The labs share no state. Where a run holds several
  components (`MCOverload`, `MCLeases`, `MCData` ...) a variable `subject`, fixed in
  the initial state, says which one moves: their states add up and do not
  multiply, each property is checked over all of them, and the fairness of a
  component is asked only of the behaviours it is the subject of.
* **Bounds** are named constants (`MaxClaims`, `MaxLate`, `MaxTime`, ...) and appear
  as guards. They are only there for TLC.

## 4. Modules and runs

State counts are distinct states; with two workers each run ends within two and a half
minutes.

| Run | Modules it composes | States |
|---|---|---|
| overload (`MCOverload.cfg`) | `CircuitBreaker`, `RateLimit`, `BoundedQueue`, `Pooling`, `Retries` | 313 000 |
| orders (`MCOrders.cfg`) | `CheckoutService`, `Checkout`, `OutboxQueue`, `CircuitBreaker`, `NotificationPipeline`; `SagaSteps`, `OrderSaga`, `ChoreographedSaga` | 624 000 |
| leases (`MCLeases.cfg`) | `JobQueue`, `Tickets`, `FencedLock`, `CacheRefill` | 737 000 |
| scripts (`MCScripts.cfg`) | `PgSession` with the five modules of scripts | 11 000 |
| data (`MCData.cfg`) | `Replication`, `Backfill`, `Pagination`, `TenantSessions`, `Partitions`, `Vacuum`, `Observability`; `OutboxQueue`, `OutboxPublisher`, `Delivery` | 393 000 |
| overload_limits (`MCOverload_limits.cfg`), queue_lease and lock_tokens (`MCLeases_*.cfg`), pipeline_notified (`MCOrders_notified.cfg`), backfill_once, tenants_policy and partitions_seed (`MCData_*.cfg`) | one component each, see section 5 | |

Deadlock checking is off wherever the actors really stop when they are done.

### 4.1 Guards against overload — run **overload**

`CircuitBreaker`: variables are the fields of the class; `call[c]` is the await
the caller is suspended in. `Reject`, `StartCall`, `StartProbe` enter `execute`;
`CallSucceeds`, `CallFails`, `ProbeSucceeds`, `ProbeFails` settle. `sinceOpened`
is `min(now() - openedAt, cooldownMs)`.
`RateLimit`: `ReadClock` stamps the request, the scripts run later, up to
`MaxDelay` ticks; `expires` is the deadline of the key.
`BoundedQueue`: `enqueue` is `Count`/`RejectFull`, `InsertJob`, `CommitEnqueue`;
the worker is `SelectJob`, `CommitClaim`, `MarkCompleted`, `Discount`,
`CommitComplete`, `ReturnWhenEmpty`; anything may fail.
`Pooling`: clients with two statements each, directly on PostgreSQL or through
PgBouncer in session or transaction mode; the first statement leaves session state
on its backend, the second looks for it. The tuning script changes the pool size,
kills and resumes the pool around two bursts and once more in its `finally` block.
Each of these nine commands may throw (`AdminFails`), having taken effect or not: one
of the `try` block leads to the `finally` block, and one of the `finally` block itself
ends the script there (`set_threw`, `kill_threw`, `resume_threw`). The statements of the
bursts do not fail.
`Retries`: the scripts of lab 37 over `CircuitBreaker`: timeout, retry loop and
breaker around each other, an unreliable downstream that applies a call when it
arrives however late it answers, the retry storm and the repeated charge.

* `BreakerSafe` (one probe, tracked by the flag; closed is below the threshold;
  half-open has its probe): four callers, threshold 3, cooldown 2. Four callers are
  one more than open the breaker, so a late call meets the probe.
  `Recovers`: an open breaker closes again.
* `BudgetsHold`: the bucket admits no more than its capacity and the refill of
  the interval *as long as the scripts run in the order of the stamps*, and no
  window exceeds the limit *as long as no request was on its way for a tick*.
  `RefusedOnlyWhenSpent`: nobody is refused within the budget. Without the two
  premises the limits do not hold (section 5). Two processes, capacity and
  limit 2, delays up to one tick, time long enough for the key to expire.
* `CounterIsTheQueue`: three submissions, capacity 2, two workers.
* `PoolingSafe`: three clients, two backends. Session state is kept by direct and
  session mode and lost only in transaction mode on another backend; no burst runs
  on more backends than configured. How the tuning script leaves the pool is
  `PoolLeft`: as it found it, whichever command failed in the `try` block, if the three
  commands of the `finally` block are answered; if one of them throws, only what
  the answered ones before it restored. After SET the size is the original one, after
  KILL nothing is open; a throw of SET leaves the size of either stage, one of KILL
  the backends of the last burst or an empty, paused pool, one of RESUME an empty pool
  that may be paused, on which every later client waits. The sizes are 2 (original), 1
  and 2; that what a burst leaves open can exceed the original size is covered by
  `PoolingIsSafe`, which is about all sizes.
* `RetriesBounded`: no request costs more calls than its attempts, an open breaker
  costs none, a keyed charge is applied once, and each script ends with the
  numbers it announces.
* `EveryoneIsServed`: queued jobs, clients of the pool and retry loops end, and the
  tuning script ends, restored or thrown.

Fairness: time passes, an awaited promise settles, somebody keeps calling, and a
downstream tried again and again is up at last (strong fairness of a
successful probe, for `Recovers`); workers poll; PgBouncer serves waiting clients in
order (strong fairness of `Execute`); timers fire. Nothing has to fail.

### 4.2 The capstone — run **orders**

`CheckoutService` is the promise: a seat is held, and one step turns a hold into an
order, a sale and an event. `Checkout` takes `checkoutIdempotent` statement by
statement: get a connection, BEGIN, INSERT ... ON CONFLICT (waits for an undecided
key), the conditional UPDATE of the seat (waits for the row lock, tests the
committed version against the start of the transaction), the event, COMMIT; the
replay path; every failure and the lost answer.
`OutboxQueue` is the table and its three statements, used by two worker loops.
`NotificationPipeline` uses `CircuitBreaker` for its workers and adds retry,
timeout, sends that finish after their timeout (`late`), failing bookkeeping and
the restart of the process, which forgets the breaker and keeps the table. The two
halves meet only in committed outbox rows, so each is a subject of its own; the third
subject of the run are the sagas (4.5).

* `OrdersSafe`: one order per seat and key, order, sale and event together, every
  answer names the committed order, a retry after a success is never refused.
  Four requests, three with one key and one with a second key for the same seat,
  two connections, two ticks: a holder, a waiter and a late comer on one key,
  and a pool smaller than the number of requests, so that waiting for a key while
  holding a connection happens.
* `ImplementsService`: the refinement of the one-step checkout.
* `PipelineSafe`: published means notified, calls stay within tries and claims. One
  event, two workers, two tries, two attempts, three claims, one late send. Events
  meet only at the breaker, and each property is about one event in the
  hands of two workers.
* `CheckoutsAndEventsEnd`: requests that were accepted are answered, events settle.

Fairness: the server runs the statements of accepted requests, workers work, leases
run out, the breaker's clock advances.

### 4.3 Messages — run **data**

`OutboxPublisher`: claim, broker call and finalizing UPDATE as separate steps, death
between any two, late reports (`AND locked_by = $2`), duplicates at the consumer.
`Delivery`: senders in either mode, a network that loses message or acknowledgment
at each attempt, three receivers, the idempotent one with the undecided key that a
second delivery waits for.

* `PublisherSafe` (published means delivered, one effect per event),
  `TerminalIsFinal` (action property): two publishers, two events, two attempts.
* `DeliverySafe` (acknowledged means applied; the idempotent receiver applies once;
  no receiver applies more often than it was reached): two retrying senders of one
  message (concurrent redelivery), one single-shot sender of another, three sends.
* `MessagesEnd`: events end, senders give up or succeed.

Fairness: publishers and senders that can take a step do, leases run out.

### 4.4 Leases — run **leases**

`JobQueue`: the claim is two steps (SELECT ... FOR UPDATE SKIP LOCKED, then UPDATE and
COMMIT); `completeJob` and `failJob` are one each. Crashes, restarts, lapsed
leases, and a `completeJob` whose answer is lost and that is followed by `failJob`.
`Tickets`: check-then-act, conditional UPDATE and SELECT ... FOR UPDATE; an UPDATE is
two steps, since its now() is fixed when it is issued and it takes effect once the
row is free; the expiration worker works the same way.
`FencedLock`: SET NX PX, INCR, renewal, naive and fenced write, release by script or by
GET-then-DEL, expiry at any point, crashes. `acquired` and `accepted` record the
order of acquisitions and of accepted writes; `late` the workers that took their
token after their lease had run out.
`CacheRefill`: `getProduct` of the four caches, with an in-process map of promises per
process, a lease in Redis, background refresh, failing queries, expiry of entry and
lease at any moment, and a product that changes.

* `QueueSafe` (owned iff processing, pending below max, drained when every loop has
  ended) and `ClaimsRespectLease`: two workers, two jobs, two attempts, three claims,
  so reclaims beyond max_attempts occur.
* `TicketsSafe`: a hold is kept until it ends and a sale was issued within the hold,
  for the two protected mechanisms mixed among three buyers, with the expiration
  worker at the same minute; the naive one is part of the run and is exempt.
* `AcceptedInLockOrder` (for tokens taken in time), `OnlyItsHolderTouchesTheLock` (for
  the release script): three workers, TTL 2.
* `CacheSafe`: no stampede within a process or a lease, and no older value over a
  newer one unless a lease expired under its holder: three requests in two
  processes, two versions, two losses.
* `LeasesEnd`: jobs end, lapsed holds are reverted, the lock is freed, readers are
  answered.

Fairness: workers run and are started again, leases run out, not every claim is cut
off by a crash (strong fairness of `ClaimCommit`); the expiration worker runs again
and again; a live holder comes to its end; Redis and the database answer. A buyer
may never pay.

### 4.5 Sagas — run **orders**

`SagaSteps` is the tables with the eight steps, each one transaction with its
log row. `OrderSaga` is the orchestrator, `ChoreographedSaga` the event bus and its
handlers on the same tables. A step may succeed, return a failure, throw, or
commit without an answer. Two orchestrated sagas and a choreographed one,
quantities 1, 2, 1 on a stock of 2, so that reservations fail for want of stock
and succeed after a release. `StockConserved`, `ShippedIsKept`, `LogTellsTheTruth` (the
log alone tells what the tables hold and what a "compensated" saga could not take
back), `ChoreographyIsOrchestration` (refinement of `OrderSaga`: the hops of the bus are
stutters, the event in flight gives the orchestrator's position), `SagasEnd`.
Fairness: an awaited step settles.

### 4.6 Scenario scripts — run **scripts**

`PgSession` is PostgreSQL as the scripts use it: sessions A, B, C with transactions at
their isolation level, statement or transaction snapshots, first-updater-wins,
read/write dependencies of serializable transactions, row, table and advisory locks
with queues, NOWAIT, lock_timeout, wait-for cycles with every choice of the victim,
lost connections and a process that dies. It is external: nothing in the
repository implements it. The scripts are the repository's and are translated one
by one, with the balances made small:

* `IsolationScripts` (labs 05–09): naive and transactional transfer, snapshots,
  non-repeatable reads, write conflicts, write skew, serializable with retries.
* `LockScripts` (labs 10, 11, 13, 32): lost update, FOR UPDATE, NOWAIT, lock_timeout, lock
  modes, version column, conditional publish, advisory locks, deadlock, lock order,
  retry on deadlock.
* `PaymentScripts` (labs 15, 16): naive and idempotent payments, stored results, both
  orders of the dual write, the outbox with its drain.
* `MigrationScripts` (lab 29): index builds and ALTER TABLE beside a writer, with and
  without CONCURRENTLY and lock_timeout, and the rename that breaks the old version.
* `QueueScripts` (labs 14, 18, 40): claim without SKIP LOCKED, three consumers, the seat
  race and the storm of naive checkouts.

`MCScripts` collects the scripts and the plans of those whose remedies are proved: which
rows a leg may hold at a step, what a transaction has moved or inserted so far, how far
somebody who leaves a team has come. 53 scripts with one to three sessions.
`OutcomesHold`: each verdict is what happened, in every interleaving (as long as the sleeps outlast what they wait for, where the
script depends on that). `SafeThroughout`: the remedies hold in every committed state,
not only at the end. `ScriptsEnd`: no wait is for ever, deadlock and retries
included. Fairness: every thread that can go on does; the server breaks cycles.
The bound is the script itself: the sets of sessions and rows are those it uses.

### 4.7 The life of the data — run **data**

`Replication`: primary, standby and cascaded standby; connecting, streaming, replaying
and reporting go on by themselves, links break, the 17 scenarios of labs 24–28 are
sequences of calls with their `finally` blocks. `Backfill`: the batched UPDATE with its
snapshot of ids and its row locks one by one, killed, resumed, limited or as one
giant statement, beside renames and the dual write. `Pagination`, `TenantSessions`
(two scripts at a time, each with its pools; any statement may fail, with or without
having taken effect, and any of them may be killed), `Partitions` (an operator runs up
to four scripts, one after the other; each process may be killed between any two
statements, and the statements that the layout itself refuses fail: a statement that
fails for another reason ends its script as a kill does, nothing after it being
run, and is not a step of its own), `Vacuum` (versions, reusable slots, autovacuum,
probers), `Observability` (requests
from await to await, counters, both logs, the scripts that read them).

* `ReportsHold`: a scenario that came through reports what happened; no apply delay is
  left behind unless setting it threw; a standby is a prefix of its upstream. For the
  bounded read of lab 26 that is: it is right when the primary had a streaming row
  with a replay position. A replica that is not connected has no row, and one that has
  not yet reported since it connected has a NULL lag (`NotReported`); the code
  reads both as a lag of 0 (`Backlog`) and takes the stale read. What the
  proofs need of the way the scripts are written, that every delay has its RESET in
  a `finally` block and a node is promoted only after it was seen to have the rows, is
  `CarefulScripts`, an assumption that TLC evaluates for all 17.
* `FailoverKeepsHistory`: as long as the old primary stays down at most one node takes
  writes, and the promoted one has every acknowledged write.
* `BackfillSafe`: 5 rows, batches of 2 then 3, two concurrent writes, a killed run whose
  last UPDATE still commits: values are current, no row of an answered batch is processed
  again, nothing is skipped, and the numbers of both runs add up if the rows of that
  UPDATE are counted once. The lab's own sum does not count them: `ExactlyOnce` (section 5).
* `PagesAreExact`: 5 rows that share timestamps, pages of 2, two mutations in between,
  each a row inserted before the earliest or among the others, or one deleted: a
  keyset client misses and repeats nothing, and an offset client gets its last row
  again or never sees the next one, as the scripts of the lab show.
* `TenantsIsolated`: no row of another tenant through the policy, no tenant carried over
  by a pooled connection, failures of the checks only while the policy was off, and
  naive-leak ends with the policy on whichever of its queries threw, unless it was killed
  or its DISABLE or ENABLE threw. A statement that throws may have taken effect
  (`OpFails`), so a DISABLE may leave the policy off; that the lab says otherwise is
  `PolicyAlwaysReenabled` (section 5).
* `LayoutIsRestored`: two months, four scripts in any order, failures and kills: the
  twins agree until something failed, and a seed fails only over a leftover table.
* `BloatAccounted`: 2 rows, 3 passes, 2 probers with 2 writes each, which they may
  make until VACUUM FULL has its lock and until they are told to stop: plain VACUUM never
  gives the file back, VACUUM FULL shrinks it while nobody writes. The log's "dead tuples
  dropped", for which the poll looks at the count of autovacuum runs alone, holds unless
  the run it counts is the first one since the seed: that one is due for the seed's
  inserts, may have begun before the UPDATE committed, and then takes nothing.
* `MetricsAgree`: counters, scrape, log and answers say the same; two requests of
  traffic, a failing query, a foreign log line.
* `DataSettles`: standbys catch up, backfills finish, clients reach the last page, scripts
  and probers end, requests are answered.

The messages of 4.3 are the last two subjects of this run.

Fairness: scripts take their next step unless killed, connected nodes replicate and
broken links reconnect, time passes, statements proceed, the autovacuum launcher
keeps looking (strong fairness of `WorkerStarts`), queries are answered.

## 5. Where code and text disagree

Each of these is a run that TLC must refute; its counterexample is the evidence.

| Run | The text | The code |
|---|---|---|
| queue_lease | lab 14 README:363: two workers never both hold an active claim within its lease | `completeJob`/`failJob` update by id alone: a worker that lost its lease puts the job back, and a third claims it beside the second |
| pipeline_notified | lab 40 `notification-service.ts:88-90`: only one call ever exists per order | a timed-out send is not cancelled; it and its retry both succeed |
| lock_tokens | lab 22 `fencing-token.ts:39-42`, README:251-252: every acquisition atomically gets a higher token than all before | SET and INCR are two commands; a lease may run out between them |
| overload_limits | lab 36 README:453-455: the window is exact; the bucket is rate-limited to its refill | the window's key expires by the clock of Redis while entries are stamped by callers; the bucket sets `last_refill_ms` back for an older stamp and credits an interval twice |
| partitions_seed | lab 35 `partitions.ts:86-92`: the reconciliation makes the seed idempotent whatever a previous run left behind | DETACH and DROP are two statements (`partition-maintenance.ts:53-54`, `partitions.ts:75-76`); a table left detached is not listed, keeps its name, and `CREATE TABLE IF NOT EXISTS` (line 81) skips it: the next seed fails |
| backfill_once | lab 30 README:38-40 and 325-326, `interrupted-resume-backfill.ts:44-48` and its log (line 148), `batched-resumable-backfill.ts:48-50`: every row is backfilled exactly once, none double-processed, and the numbers of both runs add up | the UPDATE that the killed process had sent may commit after the killed run was counted (line 100). Its rows are then in neither number; or the resumed run had picked them too, waits for their locks and writes them again, since the outer WHERE is the list of ids alone. The run shows the first |
| tenants_policy | lab 39 `naive-leak.ts:14-16`, README:262-263: the script always leaves the policy on before it exits, even if a query throws | DISABLE stands before the `try` block (line 28): if it takes effect and its answer is lost, the process ends with the policy off. An ENABLE that fails in the `finally` block leaves it off too |

Smaller disagreements met on the way, not kept as runs: lab 31's
`autovacuum-recovery.ts:105` logs that dead tuples dropped when it has only seen the
count of runs advance, which `AutovacuumRan` makes precise; lab 23's
`pool-size-tuning.ts:85-92` restores the pool in a `finally` block whose own commands
may throw, which `PoolLeft` makes precise; lab 26's bounded read takes the lag
of a replica that has not reported (`replication-control.ts:142`) for 0, which
`BoundedStaleness` makes precise; a late failure of a call
admitted earlier restarts the cooldown of an open breaker, while a test of lab 37
(`circuit-breaker.test.ts:60`) speaks of a cooldown counted from opening; in lab
14 a late report overwrites an attempt that `schema.ts:81` calls expired for good,
and a completed job (README:129) can go back to pending; lab 40's
`end-to-end-invariant.test.ts:98-104` bounds the calls by the attempts, which
reclaims do not respect; the sagas of lab 20 end as "compensated" although a
compensation failed (`types.ts:36-38`, README:396), which `LogTellsTheTruth` makes
precise.

## 6. Proofs

All theorems hold for every value of the constants under the named assumptions of
the modules (`BreakerAssumption`, `CheckoutAssumption`, ...), which TLC evaluates for
the values of its runs. They say no more than the code or its use does: limits are
positive naturals, "nobody" is no worker, input functions have their types. Sets over
which something is summed or counted are finite: the workers of the one process of
the pipeline (`PipelineAssumption`), submissions, sagas, senders (`FiniteSenders`),
pool clients, requests of the cache, rows of a backfill, probers, the callers of the
retry storm (`RetriesAssumption`). These assumptions are more than types:

* `SomeWorker`: `QueueIsDrained` needs a worker that can have returned.
* `LimitAssumption`: a request is under way for no longer than three quarters of the
  lifetime of the bucket's key (four times what an empty bucket takes to fill, 60 s at
  least), or than leaves the shortest lifetime to fill it.
* `PoolSizes`: every pool size the tuning script sets fits under `max_connections`.
* `CarefulScripts`: how the 17 scenarios of labs 24–28 are written. It is about the
  scripts alone, and TLC checks it for the scripts of the repository.
* `VacuumSizes`: the probers together write less than the UPDATE passes, as in the lab:
  a write per interval of the probe for the time of a VACUUM, against 20 passes over
  80 000 rows.
* `MonthNames`: every month has a canonical partition name of its own, and the
  scenarios' partitions, the regions and the default have other names, as in lab 35.
* `ScriptsAreStatements`: how a step of a script is written (which operations name a
  session, a row, a thread, a variable). It is the syntax of the scripts.
* `LegsLockInOrder`, `TransfersBalance`, `OrdersHaveEvents`, `NobodyLeavesUncounted`: the
  scripts of lab 32, labs 05 and 32, lab 16 and lab 09 follow the plans that
  `MCScripts` gives of them. A plan is a labelling of the steps, each of these facts
  is about the text of a script and nothing else, and TLC evaluates them.

The bounds that stop TLC (`MaxClaims`, `MaxTime`, `MaxMutations`, ...) are constants
like the others, so the theorems hold for each of their values.

An action that writes several columns of a row updates the row once
(`![e] = [@ EXCEPT !.status = .., !.locked_by = ..]`), as the UPDATE does; the proofs
name the new row, type it, and then need one pointwise fact about the table.

* **`OverloadProofs`**
  * `CircuitBreaker`: `BreakerTypeCorrect`, `BreakerProbeExclusive`,
    `BreakerClosedBelowThreshold`, `BreakerHalfOpenHasProbe`, together `BreakerIsSafe`.
    They are inductive together: a rejected caller may move an open breaker with a
    pending probe to half-open, so `HalfOpenHasProbe` needs `ProbeExclusive`.
  * `BoundedQueue`: `CounterIsTheQueueAlways`. The counter's row is locked from the
    UPDATE to the COMMIT of the job's own change (`CounterIsLocked`), and no job has
    two live workers (`OneWorkerPerJob`), so nothing is discounted twice.
  * `Pooling`: `PoolingIsSafe`. A backend serves one client at a time (`OwnBackends`);
    session state that is still on a backend belongs to the client that left it
    (`MarksBelong`); a client is turned away only while others hold every backend
    (`RejectedMeansMany`). Which command of the `finally` block threw tells how much of
    the pool is restored (`PoolLeft`), with every command of the script failing or not,
    with its effect or without.
  * `RateLimit`: `LimitersKeepTheirBudgets`, and the action property `RefusalsAreEarned`.
    In order, what the bucket holds and what was admitted since any tick stay within
    capacity and refill (`LeftIsWithinBudget`), and since some tick they make it up
    (`MissingWasAdmitted`); the entries of the window are the requests admitted in it
    (`WindowInv`).
  * `Retries`: `RetriesUseTheBreaker` shows that the retry scripts of lab 37 are
    behaviours of the breaker, so its theorems hold under them. `RetriesStayBounded`:
    what each of the nine scripts costs and ends with. The invariant
    (`ExerciseStands`) says position by position how the downstream is, what the
    breaker has counted and which outcomes there are, for every threshold, cooldown
    and number of storm callers; the storm's cost is a sum over them.
* **`SeatProofs`**
  * `Checkout`: `CheckoutTypeCorrect`, `CheckoutOneOrderPerSeat`, `CheckoutAtomic`,
    `CheckoutAnswers`, `CheckoutRetryNeverRejected`, together `CheckoutOrdersSafe`, and
    the refinement `CheckoutImplementsService`. `CheckoutInv` adds what the database
    guarantees while transactions are open: an undecided key has one holder and no
    committed order (`KeyExclusive`), a seat lock has one holder over a row still
    reserved for it (`SeatExclusive`), orders and events are exactly the commits
    (`OrdersAreCommits`). Without these, two requests could be past their UPDATE for one
    seat. `SoldWithOrderAndEvent` says it both ways: a sold seat has an order, and the
    seat of an order is sold, to the customer who ordered it. The refinement maps
    COMMIT to the one-step checkout, `ReserveSeat` to the hold, and the rest to stutters.
  * `NotificationPipeline`: `PipelineTypeCorrect` (a worker is inside the breaker exactly
    while it is sending, after a restart too) and `PipelineIsSafe`. That calls stay
    within tries times claims is not inductive: a worker that lost its claim goes on
    retrying beside its successor. The invariant counts the calls each worker may still
    make under the claim it made (`CallsLeft`) and those not yet answered (`Sending`).
* **`MessageProofs`**
  * `OutboxPublisher`: `PublisherTypeCorrect`, `PublishedMeansDelivered`,
    `EffectAtMostOnce`, together `PublisherIsSafe`, and the action property
    `TerminalRowsAreFinal`. A row is locked only while it is processing, so a late report
    finds nothing to update; a worker about to mark an event has delivered it; an
    effect leaves its row behind.
  * `Delivery`: `DeliveryTypeCorrect`, `AcknowledgedMeansApplied`, `OneEffectPerMessage`,
    `EffectsAreBounded`, together `DeliveryIsSafe`. `AckInv`: an answer under way, an
    inbox row and a racy receiver past its UPDATE each stand for a committed effect.
    `OnceInv`: with the idempotent receiver, effects and inbox rows agree, and an open
    transaction holds the key of a message without a row, alone. For the bound,
    each delivery in progress stands for an effect still to come.
* **`SagaProofs`** — `SagaTypeCorrect`, `ShippedIsKeptAlways`, `StockIsConserved`,
  `LogTellsTheTruthAlways`, and the refinement `ChoreographyRefines`. `Stage` ties the
  tables to the position of a saga, `Trail` ties `saga_log` to both: what is still ahead
  is not on record, and what a compensation left over has its failure on record.
  `NextAdvances` turns each step, each hop of the bus included, into a step of the
  orchestrator at the saga's position, so both mechanisms are argued once and the
  refinement follows; its mapping filters the log, for which `OnlyStepsOfAppend` is
  enough. Stock is a sum over the sagas that hold a reservation.
* **`LeaseProofs`**
  * `JobQueue`: `QueueTypeCorrect`, `JobsHaveOwners`, `RetriesAreBounded`,
    `QueueIsDrained`, together `QueueIsSafe`, and the action property `LeasesAreRespected`.
    `ClaimInv`: an open claim has its row to itself and the row is still claimable, since
    reports wait for the row lock. A drained queue needs the same of workers that
    have returned: each saw nothing to claim, and a job that comes back is in the
    hands of a worker that has not.
  * `FencedLock`: `LockTypeCorrect`, `FencedWritesFollowTheLock`, and the action property
    `OnlyTheHolder`. `InTimeTokens`: a token taken while its worker held the lock is
    higher than every token of an earlier acquisition; the row takes tokens in ascending
    order (`RowAscends`), so accepted writes are in lock order. The premise is
    exactly what `lock_tokens` shows to be necessary.
  * `Tickets`: `TicketTypeCorrect`, `TicketsAreSafe`. Between SELECT ... FOR UPDATE and
    COMMIT the row is the buyer's (`RowIsLocked`); a seat that names a buyer is held until the minute that
    buyer was told (`HoldsAgree`).
  * `CacheRefill`: the action property `GuardedCachesAreSafe`. A request that refills is
    the one in its process's map (`MapHoldsRefiller`), or has the lease until it lapses,
    and then no entry is newer than what it read (`LeaseHoldsRefiller`). One call per
    process for a cold burst needs `ColdEntries` and `ColdCalls`.
* **`DataProofs`**
  * `Backfill`: `BackfillsAreAccounted`. Every row counts for one of the three numbers the
    interrupted run reports: it was there when the killed run was counted, or the
    resumed run or the orphaned UPDATE wrote it later. These two may write the same
    rows, so the invariant says what an UPDATE in flight may overlap with, and that the
    batches the killed run was answered are not among them (`AnsweredRows`).
  * `Replication`: `FailoversKeepHistory`, `StandbysFollowDelaysEnd`. A standby has a
    prefix of what its upstream has (`StandbyIsPrefix`), so a row that was seen on a
    standby stays there. The invariant follows the script: the calls made so far tell
    which rows were written and seen, which nodes were stopped, and which delays are
    still to be taken back. It rests on `CarefulScripts` and not on the scripts.
  * `Pagination`: `PagesAreExactAlways`. Among finitely many rows in a total order there
    is one of each rank (`EveryRankIsTaken`, by pigeonhole), so OFFSET and LIMIT select
    by rank (`PageOfRanks`), and one row more or less moves the ranks behind it by one
    (`RankWithout`).
  * `Observability`: `MetricsAgreeAlways`. The await a request is at tells what it has
    logged (`AwaitTells`), and the stage of the script tells which requests were sent
    and whether one may still be open (`SentByStage`); `NextStageKeeps`, `MoveKeeps` and
    `CompleteKeeps` carry both through the steps of the script and of the server.
  * `TenantSessions`: `TenantsAreIsolated`, for any number of runs of the scripts. The
    policy is off in naive-leak's window alone (`WindowIsKnown`), and while it is on,
    the setting of a connection at an operation is the tenant of its session
    (`PolicyGuards`): an idle connection carries none, since a session resets it,
    after an error too, before its connection goes back (`ConnectionsClean`). A
    failed statement that took effect keeps all of this, and a failed DISABLE or ENABLE
    is on record when the script ends (`WindowAfterFailure`).
  * `Partitions`: `LayoutStaysRestored`, for every list of months. What an operator's
    script does is a list made from the layout it found; only the set of what is
    still to be done matters once the list is known to be in order (`PlansAreLists`,
    `PlanKeeps`), and a seed is refused nothing but a batch whose month stands alone
    (`FailureKeeps`).
* **`ServerProofs`**
  * `PgSession`, for every script. `IsolationInv`: locks that exclude each other are not
    both held, and what is written and not committed is locked; hence
    `TransactionsAreIsolated` (one uncommitted writer per row, and a transaction with
    a snapshot writes nothing that was committed since) and `LocksProtectRows`
    (between FOR UPDATE, FOR SHARE or an UPDATE and COMMIT nobody else changes the
    row).
  * `PgSession`, for every script that follows a plan of its steps. `LockOrderPreventsDeadlock`:
    who takes its rows in one order never waits in a circle, since every wait leads
    up in that order or forward in the queue. `MoneyIsConserved`: transactions that
    commit balanced moves neither make nor lose money, whatever fails between.
    `PairsComeTogether`: rows inserted by one transaction are there both or neither.
    `SomebodyIsOnCall`: whoever leaves a team has counted the others in the same
    transaction, and all run at SERIALIZABLE. A snapshot is out of date only in rows
    that a later commit wrote, and who wrote them had read the whole team; so the
    second one to leave has read what the first wrote and writes what the first
    read, is a pivot, and fails. Nothing is assumed of timing or of the number of
    attempts. The last three rest on one description of what a step does to the rows a
    session sees (`StepsAre`).
  * `MCScripts`: `RemediesHold`, that is `SafeThroughout` for the labs' scripts. Their plans
    are the facts listed above; that all of lab 09's remedies run at SERIALIZABLE is
    proved from the text of the scripts (`LabNineIsSerial`).
  * `Vacuum`: `BloatIsAccounted`. The invariant goes statement by statement: how many
    versions are dead, how many of them the probers of one window have written
    (`WindowWrites`, a sum over the probers), and what the script has read. Between seed
    and poll at most one autovacuum run took nothing, and it was the first
    (`OneEarlyRun`).
* **`Sums`** — lemmas only: `MapThenSumSet` of the community modules takes elements in
  an order of its own; here it is shown additive, monotone and independent of that
  order. The library's induction theorems cannot be instantiated by the provers, so
  each induction is an argument by a smallest counterexample (`SmallestSet`).

## 7. What is only model-checked

* All liveness properties (`Recovers`, `EveryoneIsServed`, `CheckoutsAndEventsEnd`,
  `MessagesEnd`, `LeasesEnd`, `SagasEnd`, `ScriptsEnd`, `DataSettles`) and the fairness
  they rest on: outside the reach of the proof system.
* `OutcomesHold`: what each of the 53 scripts reports at its end. A script is a fixed
  sequence over fixed rows and sessions, so the instance is the program, and TLC's
  answer is about all of it. What the remedies promise in every state is proved
  (`RemediesHold`).
* The verdicts of the replication scenarios (`Reported`, in `ReportsHold`), for the same
  reason; the other two parts of `ReportsHold` are `StandbysFollowDelaysEnd`.
* What a recursive definition computes for every input, wherever an argument by ranks
  or by a smallest counterexample has not been found.

Every property of a passing run but these is a theorem, and so are the type
invariants of the modules the theorems are about.

## 8. What is not modelled

* Postgres, PgBouncer and Redis are modelled from how the code uses them. A
  Redis that fails over or loses keys, a Postgres that loses commits, and clock
  skew between processes (apart from messages that take time) are not.
* Labs 01–04 and 33: single sessions that define schemas, run queries and print
  plans. What they show is the planner and the constraint checks of the server;
  there is no state of the code's own that a step could get wrong.
* Lab 41 and the docs: prose and a script that checks its links.
* The scripts of labs 06 (xmin, xmax, ctid of one row), 34 (deep pages), 35 (pruning
  and query comparisons) and 39 (cost of a policy) that print storage details, plans
  or times; the lock-monitoring query of lab 32.
* Timing: back-off lengths, jitter, measured latencies, the unbounded queue and the
  slow downstream of lab 36. No decision of the code depends on them.
* `worker-naive.ts` and the metrics endpoint of lab 40: the loop of
  `worker-protected.ts` without timeout and breaker, and a report of counters.
* The shared packages (data generators, logger, `waitForDatabase`, `runConcurrently`),
  the seeds that only fill tables, and the runner that starts containers: no protocol.
