----------------------------- MODULE MCScripts ------------------------------
(***************************************************************************)
(* Every scenario script against the same model of PostgreSQL: a behaviour *)
(* runs one script, in every interleaving of its threads, with every       *)
(* choice of a deadlock victim and, where the lab is about it, a process   *)
(* that dies anywhere.                                                     *)
(***************************************************************************)
EXTENDS IsolationScripts, LockScripts, PaymentScripts, MigrationScripts, QueueScripts

MCScripts ==
    [naive_transfer |-> NaiveTransfer,
     transactional_transfer |-> TransactionalTransfer,
     snapshot_isolation |-> SnapshotIsolation,
     readers_dont_block_writers |-> ReadersDontBlockWriters,
     dirty_read_attempt |-> DirtyReadAttempt,
     non_repeatable_read |-> NonRepeatableRead,
     repeatable_read_snapshot |-> RepeatableReadSnapshot,
     concurrent_write_conflict |-> ConcurrentWriteConflict,
     write_skew |-> WriteSkew,
     write_skew_repeatable_read |-> WriteSkewUnderRepeatableRead,
     serializable_detects_conflict |-> SerializableDetectsConflict,
     serializable_with_retry |-> SerializableWithRetry,
     contention_serializable |-> ContentionUnderSerializable,
     contention_repeatable_read |-> ContentionUnderRepeatableRead,
     lost_update |-> LostUpdate,
     select_for_update |-> SelectForUpdate(10),
     select_for_update_poor |-> SelectForUpdate(4),
     nowait |-> Nowait10,
     lock_timeout |-> LockTimeout,
     for_share |-> ForShareConcurrentReaders,
     for_update_blocks_for_share |-> ForUpdateBlocksForShare,
     key_share |-> KeyShareVsNoKeyUpdate,
     lost_update_naive |-> LostUpdateNaive,
     optimistic |-> OptimisticConcurrency,
     pessimistic |-> PessimisticComparison,
     publish |-> ConditionalWritePublish,
     session_lock |-> SessionLockBlocking,
     connection_loss |-> ConnectionLossReleasesLock,
     xact_lock |-> XactLockAutoRelease,
     advisory_rows |-> AdvisoryLockDoesNotProtectRows,
     lock_keys |-> LockKeyStrategies,
     reproduce_deadlock |-> ReproduceDeadlock,
     consistent_ordering |-> ConsistentLockOrdering,
     retry_on_deadlock |-> RetryOnDeadlock,
     naive_retry |-> NaiveRetry,
     idempotent_sequential |-> IdempotentSequential,
     idempotent_concurrent |-> IdempotentConcurrent,
     cached_result |-> CachedResultPattern,
     dual_write_broker_fails |-> NaiveDualWriteBrokerFails,
     dual_write_db_fails |-> NaiveDualWriteDbFails,
     transactional_outbox |-> TransactionalOutbox,
     create_index |-> raceCreateIndexPlain,
     create_index_concurrently |-> raceCreateIndexConcurrently,
     alter_table |-> runAlterTableWithoutLockTimeout,
     alter_table_timeout |-> runAlterTableWithLockTimeout,
     naive_rename |-> runNaiveRenameIncident,
     for_update_claims |-> ForUpdateClaims,
     for_update_last_job |-> ForUpdateLastJob,
     naive_consumer |-> NaiveConsumer,
     racy_consumer |-> RacyConsumer,
     idempotent_consumer |-> IdempotentConsumer,
     seat_race |-> SeatReservationRace,
     checkout_storm |-> DuplicateCheckoutStorm]

Outcome ==
    CASE script = "naive_transfer" -> NaiveTransferOutcome
      [] script = "transactional_transfer" -> TransactionalTransferOutcome
      [] script = "snapshot_isolation" -> SnapshotIsolationOutcome
      [] script = "readers_dont_block_writers" -> ReadersDontBlockWritersOutcome
      [] script = "dirty_read_attempt" -> DirtyReadAttemptOutcome
      [] script = "non_repeatable_read" -> NonRepeatableReadOutcome
      [] script = "repeatable_read_snapshot" -> RepeatableReadSnapshotOutcome
      [] script = "concurrent_write_conflict" -> ConcurrentWriteConflictOutcome
      [] script \in {"write_skew", "write_skew_repeatable_read"} -> WriteSkewOutcome
      [] script = "serializable_detects_conflict" -> SerializableDetectsConflictOutcome
      [] script = "serializable_with_retry" -> SerializableWithRetryOutcome
      [] script = "contention_serializable" -> ContentionUnderSerializableOutcome
      [] script = "contention_repeatable_read" -> ContentionUnderRepeatableReadOutcome
      [] script = "lost_update" -> LostUpdateOutcome
      [] script = "select_for_update" -> SelectForUpdateOutcome(10)
      [] script = "select_for_update_poor" -> SelectForUpdateOutcome(4)
      [] script = "nowait" -> NowaitOutcome
      [] script = "lock_timeout" -> LockTimeoutOutcome
      [] script = "for_share" -> ForShareConcurrentReadersOutcome
      [] script \in {"for_update_blocks_for_share", "key_share"} -> BlockedOutcome
      [] script = "lost_update_naive" -> LostUpdateNaiveOutcome
      [] script = "optimistic" -> OptimisticConcurrencyOutcome
      [] script = "pessimistic" -> PessimisticComparisonOutcome
      [] script = "publish" -> ConditionalWritePublishOutcome
      [] script = "session_lock" -> SessionLockBlockingOutcome
      [] script = "connection_loss" -> ConnectionLossReleasesLockOutcome
      [] script = "xact_lock" -> XactLockAutoReleaseOutcome
      [] script = "advisory_rows" -> AdvisoryLockDoesNotProtectRowsOutcome
      [] script = "lock_keys" -> LockKeyStrategiesOutcome
      [] script = "reproduce_deadlock" -> ReproduceDeadlockOutcome
      [] script = "consistent_ordering" -> BothCommittedOutcome
      [] script = "retry_on_deadlock" -> RetryOnDeadlockOutcome
      [] script = "naive_retry" -> NaiveRetryOutcome
      [] script = "idempotent_sequential" -> IdempotentSequentialOutcome
      [] script \in {"idempotent_concurrent", "cached_result"} -> SameKeyOutcome
      [] script = "dual_write_broker_fails" -> NaiveDualWriteBrokerFailsOutcome
      [] script = "dual_write_db_fails" -> NaiveDualWriteDbFailsOutcome
      [] script = "transactional_outbox" -> TransactionalOutboxOutcome
      [] script = "create_index" -> raceCreateIndexPlainOutcome
      [] script = "create_index_concurrently" -> raceCreateIndexConcurrentlyOutcome
      [] script = "alter_table" -> runAlterTableWithoutLockTimeoutOutcome
      [] script = "alter_table_timeout" -> runAlterTableWithLockTimeoutOutcome
      [] script = "naive_rename" -> runNaiveRenameIncidentOutcome
      [] script = "for_update_claims" -> ForUpdateClaimsOutcome
      [] script = "for_update_last_job" -> ForUpdateLastJobOutcome
      [] script = "naive_consumer" -> NaiveConsumerOutcome
      [] script = "racy_consumer" -> RacyConsumerOutcome
      [] script = "idempotent_consumer" -> IdempotentConsumerOutcome
      [] script = "seat_race" -> SeatReservationRaceOutcome
      [] script = "checkout_storm" -> DuplicateCheckoutStormOutcome

Spec == SessionSpec /\ SessionFairness

\* What a scenario prints as its verdict (CORRUPTED, PRESERVED, STALE, one
\* winner, ...) is what happened, whatever the interleaving, as long as its
\* sleeps outlast what they wait for.
OutcomesHold == Finished => Outcome

\* The labs' remedies hold in every committed state, not just at the end:
\*  - a transfer, with its deadlock, its retry or its crash, never shows
\*    another transaction half of the money moved (labs 05, 32);
\*  - SERIALIZABLE with retries never leaves a team without anybody on call,
\*    however many attempts overlap (lab 09);
\*  - an order is there if and only if its outbox event is (lab 16);
\*  - two legs that lock in account order never wait for each other (lab 32).
SafeThroughout ==
    /\ script = "transactional_transfer" => getTotalBalanceCents = 10
    /\ script \in {"reproduce_deadlock", "consistent_ordering", "retry_on_deadlock"} =>
          getTotalBalanceCents = 20
    /\ script \in {"serializable_detects_conflict", "serializable_with_retry", "contention_serializable"} =>
          OnCall(Rows) >= 1
    /\ script = "transactional_outbox" =>
          \A pair \in {<<"x", "y">>, <<"w", "z">>} : (val[pair[1]] = Absent) = (val[pair[2]] = Absent)
    /\ script = "consistent_ordering" => \A t \in Threads : ~MutualWait(t)

\* Every scenario comes to its end: locks are released by what ends, deadlocks
\* are broken and retries are bounded, so nobody waits for ever.
ScriptsEnd == <>Ended

(***************************************************************************)
(* Row locks taken in one order.  A plan labels the steps of each thread   *)
(* that uses the server: it has the session plan.s[t] for itself, and when *)
(* it gets to step i it may hold plan.may[t][i], and has certainly locked  *)
(* plan.sure[t][i] FOR UPDATE if a transaction is open.  The order of the  *)
(* rows is plan.rank.                                                      *)
(***************************************************************************)
LockOps == {"lock", "add", "set", "setif", "insert"}
EndOps == {"commit", "rollback", "disconnect"}
SqlOps == LockOps \cup EndOps \cup {"begin", "read", "count", "try", "unlock"}
Legs(code) == {t \in Threads : \E i \in 1..Len(code[t]) : code[t][i].op \in SqlOps}

\* Step j may be the next one after step i has returned, or has thrown.
Follows(step, i, j) ==
    \/ step.op \notin {"goto", "raise"} /\ j = i + 1
    \/ step.op \in {"goto", "atmost", "atleast", "iferror"} /\ j = i + step.to
Catches(step, i, j) == step.catch # 0 /\ j = i + step.catch

Secured(step, sure) ==
    IF step.op \in EndOps \cup {"begin"} THEN {}
    ELSE IF step.op = "lock" /\ step.mode = "update" THEN sure \cup {step.row} ELSE sure
StepInOrder(t, i, code, plan) ==
    LET step == code[t][i]
        may == plan.may[t]
        sure == plan.sure[t]
    IN  /\ step.op \in SqlOps => step.s = plan.s[t]
        /\ step.op \notin {"try", "unlock"}
        /\ i + step.to > 0 /\ i + step.catch > 0
        /\ i = 1 => sure[i] = {}
        /\ may[i] \subseteq Rows
        /\ step.op \in LockOps =>
              /\ step.row \in Rows /\ step.mode \in {"keyshare", "share", "nokey", "update"}
              /\ step.row \in sure[i] \/ \A r \in may[i] : plan.rank[r] < plan.rank[step.row]
        /\ \A j \in 1..Len(code[t]) :
              /\ Catches(step, i, j) => may[i] \subseteq may[j] /\ sure[j] \subseteq sure[i]
              /\ Follows(step, i, j) =>
                    /\ step.op \in EndOps \/ may[i] \subseteq may[j]
                    /\ step.op \in LockOps => step.row \in may[j]
                    /\ sure[j] \subseteq Secured(step, sure[i])
LocksInOrder(code, plan) ==
    /\ plan.rank \in [Rows -> 1..4]
    /\ \A t \in Legs(code) : \A u \in Legs(code) \ {t} : plan.s[u] # plan.s[t]
    /\ \A t \in Legs(code) : \A i \in 1..Len(code[t]) : StepInOrder(t, i, code, plan)

(***************************************************************************)
(* Money that is only moved: what the transactions of a session add to the *)
(* two accounts is plan.net[s][i] when its thread gets to step i, and      *)
(* nothing when they COMMIT; nobody adds outside of a transaction          *)
(* (plan.open), and no balance falls below zero.                           *)
(***************************************************************************)
\* Each session is used by one thread, and no thread jumps before its start.
OneThreadEach(code, user) ==
    /\ user \in [Sessions -> Threads]
    /\ \A t \in Threads : \A i \in 1..Len(code[t]) :
          /\ code[t][i].op \notin {"try", "unlock"}
          /\ code[t][i].op \in SqlOps => user[code[t][i].s] = t
          /\ i + code[t][i].to > 0 /\ i + code[t][i].catch > 0

Accounts == {"x", "y"}
BalancedStep(s, i, code, plan) ==
    LET steps == code[plan.user[s]]
        step == steps[i]
        mine == step.op \in SqlOps /\ step.s = s
        moves == mine /\ step.op = "add" /\ step.row \in Accounts
        open == plan.open[s]
        net == plan.net[s]
    IN  /\ net[i] \in Int
        /\ i = 1 => ~open[i]
        /\ mine /\ step.op \in {"set", "setif", "insert"} => step.row \notin Accounts
        /\ moves => open[i] /\ (step.opt = "nonneg" \/ step.k >= 0)
        /\ mine /\ step.op = "commit" => net[i] = 0
        /\ \A j \in 1..Len(steps) :
              /\ Catches(step, i, j) => (open[j] => open[i]) /\ (mine \/ net[j] = net[i])
              /\ Follows(step, i, j) =>
                    /\ open[j] => \/ open[i] /\ ~(mine /\ step.op \in EndOps)
                                  \/ mine /\ step.op = "begin"
                    /\ \/ mine /\ step.op \in EndOps
                       \/ net[j] = IF mine /\ step.op = "begin" THEN 0
                                   ELSE IF moves THEN net[i] + step.k ELSE net[i]
Balanced(scr, plan) ==
    /\ OneThreadEach(scr.code, plan.user)
    /\ \A r \in Accounts : scr.rows[r] >= 0
    /\ \A s \in Sessions : \A i \in 1..Len(scr.code[plan.user[s]]) : BalancedStep(s, i, scr.code, plan)

(***************************************************************************)
(* Rows that come together: of a pair (an order and its outbox event) a    *)
(* transaction has inserted plan.put[s][i] when its thread gets to step i, *)
(* and both or neither when it COMMITs.                                    *)
(***************************************************************************)
PairedRows(plan) == {pair[1] : pair \in plan.pairs} \cup {pair[2] : pair \in plan.pairs}
PairedStep(s, i, code, plan) ==
    LET steps == code[plan.user[s]]
        step == steps[i]
        mine == step.op \in SqlOps /\ step.s = s
        puts == mine /\ step.op = "insert" /\ step.row \in PairedRows(plan)
        open == plan.open[s]
        put == plan.put[s]
    IN  /\ i = 1 => ~open[i]
        /\ mine /\ step.op \in {"add", "setif"} => step.row \notin PairedRows(plan)
        /\ mine /\ step.op = "set" /\ step.row \in PairedRows(plan) => step.from = "-" /\ step.k # Absent
        /\ puts => open[i] /\ step.opt # "ignore" /\ step.k # Absent
        /\ mine /\ step.op = "commit" =>
              \A pair \in plan.pairs : (pair[1] \in put[i]) = (pair[2] \in put[i])
        /\ \A j \in 1..Len(steps) :
              /\ Catches(step, i, j) => (open[j] => open[i]) /\ (mine \/ put[j] = put[i])
              /\ Follows(step, i, j) =>
                    /\ open[j] => \/ open[i] /\ ~(mine /\ step.op \in EndOps)
                                  \/ mine /\ step.op = "begin"
                    /\ \/ mine /\ step.op \in EndOps
                       \/ put[j] = IF mine /\ step.op = "begin" THEN {}
                                   ELSE IF puts THEN put[i] \cup {step.row} ELSE put[i]
Paired(scr, plan) ==
    /\ OneThreadEach(scr.code, plan.user)
    /\ plan.pairs \subseteq Rows \X Rows
    /\ \A pair \in plan.pairs : (scr.rows[pair[1]] = Absent) = (scr.rows[pair[2]] = Absent)
    /\ \A s \in Sessions : \A i \in 1..Len(scr.code[plan.user[s]]) : PairedStep(s, i, scr.code, plan)

(***************************************************************************)
(* Leaving a team that keeps somebody on call.  A session counts the       *)
(* others, and leaves only if there are any, in one transaction:           *)
(* plan.stage[s][i] is how far it is when its thread gets to step i, and   *)
(* plan.count[s] is the variable the count went to.  Nothing is said of    *)
(* the isolation level.                                                    *)
(***************************************************************************)
Others(plan, s) == plan.team \ {plan.me[s]}
LeavingStep(s, i, code, plan) ==
    LET steps == code[plan.user[s]]
        step == steps[i]
        mine == step.op \in SqlOps /\ step.s = s
        stage == plan.stage[s]
    IN  /\ i = 1 => stage[i] = "out"
        /\ mine => step.op \in {"begin", "count", "set"} \cup EndOps
        /\ mine /\ step.op = "count" =>
              stage[i] = "begun" /\ step.rows = Others(plan, s) /\ step.into = plan.count[s]
        /\ mine /\ step.op = "set" =>
              stage[i] = "spared" /\ step.row = plan.me[s] /\ plan.me[s] \in plan.team
        /\ \A j \in 1..Len(steps) :
              /\ Catches(step, i, j) => stage[j] \in {"out", stage[i]}
              /\ Follows(step, i, j) =>
                    \/ stage[j] = "out"
                    \/ mine /\ step.op = "begin" /\ stage[j] = "begun"
                    \/ mine /\ step.op = "count" /\ stage[j] = "counted"
                    \/ ~mine /\ stage[j] = stage[i]
                    \* The count was not 0.
                    \/ /\ stage[i] = "counted" /\ stage[j] = "spared" /\ step.from = plan.count[s]
                       /\ \/ step.op = "atleast" /\ step.k >= 1 /\ j # i + 1
                          \/ step.op = "atmost" /\ step.k >= 0 /\ j # i + step.to
Leaving(scr, plan) ==
    /\ OneThreadEach(scr.code, plan.user)
    /\ plan.team \subseteq Rows /\ \E r \in plan.team : scr.rows[r] = 1
    /\ plan.count \in [Sessions -> Regs]
    /\ \A s \in Sessions : \A t \in Threads : \A i \in 1..Len(scr.code[t]) :
          scr.code[t][i].into = plan.count[s] => scr.code[t][i].op = "count" /\ scr.code[t][i].s = s
    /\ \A s \in Sessions : \A i \in 1..Len(scr.code[plan.user[s]]) : LeavingStep(s, i, scr.code, plan)

\* The plan of lab 32's legs that lock in account order, by the steps of
\* runLegWithRetry: x is locked from step 4 on and y from step 8 on, COMMIT is
\* step 10, and an error goes on at the ROLLBACK, step 12.
AccountOrder ==
    [s |-> [p |-> "A", q |-> "B"], rank |-> [x |-> 1, y |-> 2, w |-> 3, z |-> 4],
     may |-> [t \in Threads |-> [i \in 1..17 |-> IF i \in 4..7 THEN {"x"}
                                              ELSE IF i \in 8..10 \cup {12} THEN {"x", "y"} ELSE {}]],
     sure |-> [t \in Threads |-> [i \in 1..17 |-> IF i \in 4..7 THEN {"x"}
                                               ELSE IF i \in 8..10 THEN {"x", "y"} ELSE {}]]]
ASSUME LegsLockInOrder == LocksInOrder(ConsistentLockOrdering.code, AccountOrder)

\* performTransactionalTransfer twice, by session A: steps 1 to 6, and 7 to 11.
TransferPlan ==
    [user |-> [s \in Sessions |-> "main"],
     open |-> [s \in Sessions |-> [i \in 1..11 |-> s = "A" /\ i \in 2..6 \cup 8..10]],
     net |-> [s \in Sessions |-> [i \in 1..11 |-> IF s = "A" /\ i \in {4, 10} THEN -1 ELSE 0]]]
\* The legs of lab 32 by sessions A and B: the debit is step 8, the credit 9.
LegsPlan ==
    [user |-> [A |-> "p", B |-> "q", C |-> "main"],
     open |-> [s \in Sessions |-> [i \in 1..17 |-> s # "C" /\ i \in 3..10 \cup {12}]],
     net |-> [s \in Sessions |-> [i \in 1..17 |-> IF s = "C" \/ i # 9 THEN 0
                                                   ELSE IF s = "A" THEN -2 ELSE -3]]]
ASSUME TransfersBalance ==
    /\ Balanced(TransactionalTransfer, TransferPlan)
    /\ TransactionalTransfer.rows["x"] + TransactionalTransfer.rows["y"] = 10
    /\ \A scr \in {ReproduceDeadlock, ConsistentLockOrdering, RetryOnDeadlock} :
          Balanced(scr, LegsPlan) /\ scr.rows["x"] + scr.rows["y"] = 20

\* performTransactionalOrderCreation twice, by session A: steps 2 to 7, and 8
\* to 13; x and w are the orders, y and z their events.
OutboxPlan ==
    [user |-> [s \in Sessions |-> "main"], pairs |-> {<<"x", "y">>, <<"w", "z">>},
     open |-> [s \in Sessions |-> [i \in 1..25 |-> s = "A" /\ i \in 3..5 \cup {7} \cup 9..11 \cup {13}]],
     put |-> [s \in Sessions |-> [i \in 1..25 |-> IF s # "A" THEN {}
                 ELSE CASE i = 4 -> {"x"} [] i = 5 -> {"x", "y"} [] i = 10 -> {"w"}
                        [] i = 11 -> {"w", "z"} [] OTHER -> {}]]]
ASSUME OrdersHaveEvents == Paired(TransactionalOutbox, OutboxPlan)

\* GoOffCallInTurn is one thread with two sessions; retryGoOffCall counts in
\* step 4, and leaves in step 8.
InTurnPlan ==
    [user |-> [s \in Sessions |-> "main"], team |-> {"x", "y"},
     me |-> [A |-> "x", B |-> "y", C |-> "z"], count |-> [A |-> "a", B |-> "b", C |-> "f"],
     stage |-> [s \in Sessions |-> [i \in 1..15 |->
                  CASE <<s, i>> \in ({"A"} \X {2, 3}) \cup ({"B"} \X {3, 4}) -> "begun"
                    [] <<s, i>> \in ({"A"} \X {4, 5}) \cup ({"B"} \X (5..8)) -> "counted"
                    [] <<s, i>> \in {<<"A", 6>>, <<"B", 9>>} -> "spared"
                    [] OTHER -> "out"]]]
RetryPlan(team) ==
    [user |-> [A |-> "p", B |-> "q", C |-> "r"], team |-> team,
     me |-> [A |-> "x", B |-> "y", C |-> "z"], count |-> [A |-> "a", B |-> "c", C |-> "e"],
     stage |-> [s \in Sessions |-> [i \in 1..15 |->
                  CASE i = 4 -> "begun" [] i = 5 -> "counted" [] i = 8 -> "spared" [] OTHER -> "out"]]]
ASSUME NobodyLeavesUncounted ==
    /\ Leaving(SerializableDetectsConflict, InTurnPlan)
    /\ Leaving(SerializableWithRetry, RetryPlan({"x", "y"}))
    /\ Leaving(ContentionUnderSerializable, RetryPlan({"x", "y", "z"}))
=============================================================================
