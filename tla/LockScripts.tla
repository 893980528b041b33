---------------------------- MODULE LockScripts ----------------------------
(***************************************************************************)
(* The scenario scripts about locks: row locks (lab 10), conditional       *)
(* writes and optimistic concurrency (lab 11), advisory locks (lab 13) and *)
(* deadlocks (lab 32).  "The statement was blocked" is observed without a  *)
(* clock: the holder sets d to 1 just before it lets go, and the thread    *)
(* that waited copies d when its statement returns.                        *)
(***************************************************************************)
EXTENDS PgSession

(***************************************************************************)
(* Lab 10.                                                                 *)
(***************************************************************************)
resetAccountBalance(balance) == [x |-> balance]

\* Two read-modify-writes; B's UPDATE waits for A and then overwrites it.
LostUpdate ==
    With(Solo(resetAccountBalance(10),
              <<Begin("A", "RC"), Begin("B", "RC"), Read("A", "x", "a"), Read("B", "x", "b"),
                SetFrom("A", "x", "a", -3), Start("p"), Sleep, Commit("A"), Await("p"), Commit("B")>>),
         "p", <<SetFrom("B", "x", "b", -2)>>)
LostUpdateOutcome == val["x"] = 8 /\ val["x"] # 10 - 3 - 2

\* No UPDATE when the balance that was seen does not cover the withdrawal.
applyWithdrawal(s, seen, cents) == <<IfAtMost(seen, cents - 1, 2), SetFrom(s, "x", seen, 0 - cents)>>
\* Mutant: both plain reads.
MutSelectForUpdate(balance) ==
    With(Solo(resetAccountBalance(balance),
              <<Begin("A", "RC"), Read("A", "x", "a"), Begin("B", "RC"), Start("p"), Sleep>>
              \o applyWithdrawal("A", "a", 3) \o <<Commit("A"), Await("p")>>
              \o applyWithdrawal("B", "b", 2) \o <<Commit("B")>>),
         "p", <<Read("B", "x", "b")>>)
SelectForUpdate(balance) ==
    With(Solo(resetAccountBalance(balance),
              <<Begin("A", "RC"), ForUpdate("A", "x", "a"), Begin("B", "RC"), Start("p"), Sleep>>
              \o applyWithdrawal("A", "a", 3) \o <<Commit("A"), Await("p")>>
              \o applyWithdrawal("B", "b", 2) \o <<Commit("B")>>),
         "p", <<ForUpdate("B", "x", "b")>>)
\* Withdrawals that were applied, and no others, are in the balance.
SelectForUpdateOutcome(balance) ==
    /\ reg["b"] = balance - 3
    /\ val["x"] = balance - 3 - (IF reg["b"] >= 2 THEN 2 ELSE 0)

Nowait10 ==
    Solo(resetAccountBalance(10),
         <<Begin("A", "RC"), ForUpdate("A", "x", "a"), Begin("B", "RC"),
           Catch(Nowait(ForUpdate("B", "x", "b")), 1), Rollback("B"), Rollback("A")>>)
NowaitOutcome == err["main"] = LockNotAvailable /\ reg["b"] = Unset
LockTimeout ==
    With(Solo(resetAccountBalance(10),
              <<Begin("A", "RC"), ForUpdate("A", "x", "a"), Begin("B", "RC"), Start("p"), Sleep,
                Await("p"), Rollback("B"), Rollback("A")>>),
         "p", <<Catch(WithTimeout(ForUpdate("B", "x", "b")), 1)>>)
LockTimeoutOutcome == err["p"] = LockNotAvailable /\ reg["b"] = Unset

\* demoForShareConcurrentReaders: c tells whether the writer (f) was through
\* when only A had committed.
ForShareConcurrentReaders ==
    With(Solo(resetAccountBalance(10),
              <<Begin("A", "RC"), Begin("B", "RC"), LockRow("A", "x", "share", "a"),
                LockRow("B", "x", "share", "b"), Begin("C", "RC"), Let("f", 0), Start("p"), Sleep,
                Commit("A"), Sleep, Copy("c", "f"), Commit("B"), Await("p"), Commit("C")>>),
         "p", <<Add("C", "x", -1), Let("f", 1)>>)
ForShareConcurrentReadersOutcome == reg["b"] = 10 /\ reg["c"] = 0 /\ val["x"] = 9

ForUpdateBlocksForShare ==
    With(Solo(resetAccountBalance(10),
              <<Begin("A", "RC"), ForUpdate("A", "x", "a"), Begin("B", "RC"), Let("d", 0), Start("p"),
                Sleep, Let("d", 1), Commit("A"), Await("p"), Commit("B")>>),
         "p", <<LockRow("B", "x", "share", "b"), Copy("e", "d")>>)
\* First an UPDATE of a column that is no key, then one of the key.
KeyShareVsNoKeyUpdate ==
    With(Solo(resetAccountBalance(10),
              <<Begin("A", "RC"), Add("A", "x", 1), Begin("B", "RC"),
                LockRow("B", "x", "keyshare", "a"), Commit("B"), Rollback("A"),
                Begin("A", "RC"), Keyed(Add("A", "x", 1)), Begin("B", "RC"), Let("d", 0), Start("p"),
                Sleep, Let("d", 1), Rollback("A"), Await("p"), Commit("B")>>),
         "p", <<LockRow("B", "x", "keyshare", "b"), Copy("e", "d")>>)
BlockedOutcome == reg["e"] = 1 /\ val["x"] = 10 /\ reg["a"] = 10

(***************************************************************************)
(* Lab 11.  A document is 10 * version, plus 1 with the edit of user A and *)
(* plus 2 with the edit of user B in its body; or 0 draft, 1 published.    *)
(***************************************************************************)
BothEdits == 33    \* version 3 with both edits
resetDocument == [x |-> 10]
readDocument(s, into) == Read(s, "x", into)

LostUpdateNaive ==
    Solo(resetDocument, <<readDocument("A", "a"), readDocument("B", "b"), SetFrom("A", "x", "a", 1),
                       SetFrom("B", "x", "b", 2), readDocument("A", "c")>>)
LostUpdateNaiveOutcome == reg["c"] = 12

OptimisticConcurrency ==
    Solo(resetDocument, <<readDocument("A", "a"), readDocument("B", "b"), SetIf("A", "x", "a", 11, "c"),
                       SetIf("B", "x", "b", 12, "d"), readDocument("B", "e"), SetIf("B", "x", "e", 12, "f")>>)
OptimisticConcurrencyOutcome ==
    reg["c"] = 1 /\ reg["d"] = 0 /\ reg["f"] = 1 /\ val["x"] = BothEdits

PessimisticComparison ==
    With(Solo(resetDocument,
              <<Begin("A", "RC"), ForUpdate("A", "x", "a"), Start("p"), Sleep, Add("A", "x", 11),
                Commit("A"), Await("p"), Add("B", "x", 12), Commit("B")>>),
         "p", <<Begin("B", "RC"), ForUpdate("B", "x", "b")>>)
PessimisticComparisonOutcome == val["x"] = BothEdits

Publish(s, into) == <<SetWhen(s, "x", 0, 1, into)>>
ConditionalWritePublish ==
    With(Both([x |-> 0], PromiseAll3, Publish("A", "a"), Publish("B", "b")), "r", Publish("C", "c"))
ConditionalWritePublishOutcome == reg["a"] + reg["b"] + reg["c"] = 1 /\ val["x"] = 1

(***************************************************************************)
(* Lab 13.  k1 and k2 are keys of advisory locks; x is the payroll run.    *)
(***************************************************************************)
resetPayrollRun == [x |-> 0]
readPayrollRun(s, into) == Read(s, "x", into)

SessionLockBlocking ==
    Solo(<<>>, <<Advisory("A", "k1"), TryAdvisory("B", "k1", "a"), TryAdvisory("C", "k2", "b"),
                 IfAtMost("b", 0, 2), AdvisoryUnlock("C", "k2", "f"), Sleep,
                 AdvisoryUnlock("A", "k1", "c"), TryAdvisory("B", "k1", "d"),
                 IfAtMost("d", 0, 2), AdvisoryUnlock("B", "k1", "e")>>)
SessionLockBlockingOutcome == reg["a"] = 0 /\ reg["b"] = 1 /\ reg["d"] = 1 /\ locks = {}

ConnectionLossReleasesLock ==
    Solo(<<>>, <<Advisory("A", "k1"), TryAdvisory("B", "k1", "a"), Disconnect("A"), Sleep,
                 TryAdvisory("B", "k1", "b"), IfAtMost("b", 0, 2), AdvisoryUnlock("B", "k1", "c")>>)
ConnectionLossReleasesLockOutcome == reg["a"] = 0 /\ reg["b"] = 1 /\ reg["c"] = 1 /\ locks = {}

\* The same with COMMIT and with ROLLBACK; the checker's own transaction-level
\* lock ends with its statement.
XactLockCase(end, first, second) ==
    <<Begin("A", "RC"), AdvisoryXact("A", "k1"), TryAdvisoryXact("B", "k1", first), end,
      TryAdvisoryXact("B", "k1", second)>>
XactLockAutoRelease ==
    Solo(<<>>, XactLockCase(Commit("A"), "a", "b") \o XactLockCase(Rollback("A"), "c", "d"))
XactLockAutoReleaseOutcome ==
    reg["a"] = 0 /\ reg["b"] = 1 /\ reg["c"] = 0 /\ reg["d"] = 1 /\ locks = {}

AdvisoryLockDoesNotProtectRows ==
    Solo(resetPayrollRun, <<Advisory("A", "k1"), [Add("B", "x", 9) EXCEPT !.into = "a"],
                           readPayrollRun("C", "b"), AdvisoryUnlock("A", "k1", "c")>>)
AdvisoryLockDoesNotProtectRowsOutcome == reg["a"] = 1 /\ reg["b"] = 9 /\ reg["c"] = 1

\* The company id, a hashed UUID and a split UUID are just three keys.
LockKeyStrategies ==
    Solo(<<>>, <<TryAdvisory("A", "k1", "a"), IfAtMost("a", 0, 2), AdvisoryUnlock("A", "k1", "d"),
                 TryAdvisory("A", "k2", "b"), IfAtMost("b", 0, 2), AdvisoryUnlock("A", "k2", "e"),
                 TryAdvisory("A", "k3", "c"), IfAtMost("c", 0, 2), AdvisoryUnlock("A", "k3", "f")>>)
LockKeyStrategiesOutcome ==
    (\A r \in {"a", "b", "c", "d", "e", "f"} : reg[r] = 1) /\ locks = {}

(***************************************************************************)
(* Lab 32.  Two transfers of 2 and 3 between the accounts x and y, in      *)
(* opposite directions; e counts the arrivals at the two-party barrier.    *)
(***************************************************************************)
Baseline == [x |-> 10, y |-> 10]

planLeg(strategy, from, to) ==
    IF strategy = "naive-lock-order" THEN <<from, to>> ELSE <<"x", "y">>

createTwoPartyBarrier == <<Let("e", 0)>>
\* Mutant: the barrier waits for a third party.
MutArriveAndWaitForPeer == <<Bump("e"), Until("e", 3)>>
arriveAndWaitForPeer == <<Bump("e"), Until("e", 2)>>

\* Lock both accounts, move the money, COMMIT; the barrier is for the first
\* attempt only.  An error goes on `failed` steps after the attempt.
runLegAttempt(s, from, to, cents, plan, barrier, attempt, failed) ==
    <<Begin(s, "RC"), Catch(ForUpdate(s, plan[1], "-"), 8 + failed),
      IfAtLeast(attempt, IF barrier THEN 2 ELSE 1, 3)>>
    \o arriveAndWaitForPeer
    \o <<Catch(ForUpdate(s, plan[2], "-"), 4 + failed), Catch(NonNegative(Add(s, from, 0 - cents)), 3 + failed),
         Catch(Add(s, to, cents), 2 + failed), Catch(Commit(s), 1 + failed)>>
\* Only a deadlock is retried.
runLegWithRetry(s, from, to, cents, plan, barrier, attempt, maxAttempts) ==
    <<Let(attempt, 1)>>
    \o runLegAttempt(s, from, to, cents, plan, barrier, attempt, 1)
    \o <<Skip(7), Rollback(s), IfError(DeadlockDetected, 2), Raise,
         IfAtLeast(attempt, maxAttempts, 3), Bump(attempt), Skip(-15)>>
runLegSingleAttempt(s, from, to, cents, plan, barrier, attempt) ==
    runLegWithRetry(s, from, to, cents, plan, barrier, attempt, 1)

runOneTrial(strategy) ==
    LET barrier == strategy = "naive-lock-order"
    IN  MayCrash(Both(Baseline, createTwoPartyBarrier \o PromiseAll,
                      runLegSingleAttempt("A", "x", "y", 2, planLeg(strategy, "x", "y"), barrier, "a"),
                      runLegSingleAttempt("B", "y", "x", 3, planLeg(strategy, "y", "x"), barrier, "b")))

ReproduceDeadlock == runOneTrial("naive-lock-order")
\* Exactly one leg is the victim, and the other one's transfer is there.
ReproduceDeadlockOutcome ==
    \/ err["p"] = DeadlockDetected /\ err["q"] = 0 /\ val["x"] = 13 /\ val["y"] = 7
    \/ err["q"] = DeadlockDetected /\ err["p"] = 0 /\ val["x"] = 8 /\ val["y"] = 12
ConsistentLockOrdering == runOneTrial("consistent-lock-order")
BothCommittedOutcome ==
    err["p"] = 0 /\ err["q"] = 0 /\ val["x"] = 11 /\ val["y"] = 9

RetryOnDeadlock ==
    Both(Baseline, createTwoPartyBarrier \o PromiseAll,
         runLegWithRetry("A", "x", "y", 2, planLeg("naive-lock-order", "x", "y"), TRUE, "a", 5),
         runLegWithRetry("B", "y", "x", 3, planLeg("naive-lock-order", "y", "x"), TRUE, "b", 5))
\* One deadlock was met, one retry, and both legs are through.
RetryOnDeadlockOutcome == BothCommittedOutcome /\ reg["a"] + reg["b"] = 3
=============================================================================
