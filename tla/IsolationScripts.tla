-------------------------- MODULE IsolationScripts --------------------------
(***************************************************************************)
(* The scenario scripts of labs 05 to 09: atomic transfers, MVCC           *)
(* visibility, READ COMMITTED, REPEATABLE READ, SERIALIZABLE with retries. *)
(* Each script is the sequence of statements its function awaits, on small *)
(* balances; each ...Outcome is what the script reports when it is done.   *)
(***************************************************************************)
EXTENDS PgSession

(***************************************************************************)
(* Lab 05.  x and y are the two accounts, w and z the rows of transfers.   *)
(***************************************************************************)
Pending == 0
Completed == 1
Failed == 2
TwoAccounts == [x |-> 5, y |-> 5]

\* The debit and the credit are autocommitted one by one; injectFailure
\* throws SimulatedCrashError between them, which the caller catches.
performNaiveTransfer(transfer, cents, injectFailureAfterDebit) ==
    <<Insert("A", transfer, Pending), NonNegative(Add("A", "x", 0 - cents))>>
    \o IF injectFailureAfterDebit THEN <<>>
       ELSE <<Add("A", "y", cents), Set("A", transfer, Completed)>>

\* BEGIN .. COMMIT; on an error ROLLBACK, then a 'failed' row on its own.
performTransactionalTransfer(transfer, cents, injectFailureAfterDebit) ==
    <<Begin("A", "RC"), Insert("A", transfer, Pending), NonNegative(Add("A", "x", 0 - cents))>>
    \o IF injectFailureAfterDebit THEN <<Rollback("A"), Insert("A", transfer, Failed)>>
       ELSE <<Add("A", "y", cents), Set("A", transfer, Completed), Commit("A")>>

NaiveTransfer ==
    Solo(TwoAccounts, performNaiveTransfer("w", 1, FALSE) \o performNaiveTransfer("z", 1, TRUE))
TransactionalTransfer ==
    MayCrash(Solo(TwoAccounts, performTransactionalTransfer("w", 1, FALSE)
                               \o performTransactionalTransfer("z", 1, TRUE)))

getTotalBalanceCents == val["x"] + val["y"]

\* CORRUPTED: money vanished, and the transfer is pending for ever.
NaiveTransferOutcome ==
    val["w"] = Completed /\ val["z"] = Pending /\ getTotalBalanceCents = 9
\* PRESERVED: ROLLBACK undid the debit.
TransactionalTransferOutcome ==
    val["w"] = Completed /\ val["z"] = Failed /\ val["x"] = 4 /\ val["y"] = 6

(***************************************************************************)
(* Lab 06: what a session sees of another one's UPDATE.                    *)
(***************************************************************************)
SnapshotIsolation ==
    Solo([x |-> 1],
         <<Set("A", "x", 0), Begin("A", "RC"), Read("A", "x", "a"),
           Begin("B", "RC"), Add("B", "x", 100), Read("A", "x", "b"),
           Commit("B"), Read("A", "x", "c"), Commit("A")>>)
SnapshotIsolationOutcome == reg["b"] = reg["a"] /\ reg["c"] = reg["a"] + 100 /\ ver["x"] = 2

\* Phase 1: a plain read; phase 2: FOR UPDATE.  d is 1 once the reader is
\* about to commit, e what the writer finds there when its UPDATE returns.
ReadersDontBlockWriters ==
    With(Solo([x |-> 0],
              <<Begin("A", "RC"), Read("A", "x", "a"), Add("B", "x", 1),
                Sleep, Rollback("A"), Commit("B"),
                Begin("A", "RC"), ForUpdate("A", "x", "b"), Let("d", 0), Start("p"),
                Sleep, Let("d", 1), Commit("A"), Await("p")>>),
         "p", <<Add("B", "x", 1), Copy("e", "d"), Commit("B")>>)
ReadersDontBlockWritersOutcome == reg["e"] = 1 /\ val["x"] = 2

(***************************************************************************)
(* Labs 07 and 08: two reads in one transaction around another's commit.   *)
(***************************************************************************)
DirtyReadAttempt ==
    Solo([x |-> 10],
         <<Begin("A", "RC"), Set("A", "x", 5), Begin("B", "RC"), Read("B", "x", "a"),
           Commit("A"), Read("B", "x", "b"), Commit("B")>>)
DirtyReadAttemptOutcome == reg["a"] = 10 /\ reg["b"] = 5

ReadTwice(level, first, second) ==
    <<Begin("A", level), Read("A", "x", first), Begin("B", "RC"), Set("B", "x", 25),
      Commit("B"), Read("A", "x", second), Commit("A")>>
\* runNonRepeatableRead, and runEquivalenceDemo: READ UNCOMMITTED is READ
\* COMMITTED in PostgreSQL, so the second pass is the same again.
NonRepeatableRead ==
    Solo([x |-> 10], ReadTwice("RC", "a", "b") \o <<Set("C", "x", 10)>> \o ReadTwice("RC", "c", "d"))
NonRepeatableReadOutcome ==
    reg["a"] # reg["b"] /\ reg["b"] = 25 /\ reg["c"] = reg["a"] /\ reg["d"] = reg["b"]
RepeatableReadSnapshot == Solo([x |-> 10], ReadTwice("RR", "a", "b"))
RepeatableReadSnapshotOutcome == reg["b"] = reg["a"] /\ val["x"] = 25

\* Both read, A writes and commits, B writes what it computed from its read.
ConcurrentWriteConflict ==
    Solo([x |-> 50],
         <<Begin("A", "RR"), Begin("B", "RR"), Read("A", "x", "a"), Read("B", "x", "b"),
           SetFrom("A", "x", "a", 10), Commit("A"),
           Catch(SetFrom("B", "x", "b", -7), 3), Commit("B"), Skip(3),
           Let("c", 1), Rollback("B"), Read("C", "x", "d")>>)
ConcurrentWriteConflictOutcome == reg["c"] = 1 /\ reg["d"] = 60

(***************************************************************************)
(* Write skew, labs 08 and 09.  A row is 1 while its doctor is on call.    *)
(***************************************************************************)
resetOnCallStaff == [x |-> 1, y |-> 1]
countOthersOnCall(s, others, into) == Count(s, others, into)
setOffCall(s, me) == Set(s, me, 0)
OnCall(rs) == Cardinality({r \in rs : val[r] = 1})

\* Lab 08: both UPDATEs come before both COMMITs.
WriteSkew ==
    Solo(resetOnCallStaff,
         <<Begin("A", "RR"), Begin("B", "RR"), Read("A", "y", "a"), Read("B", "x", "b"),
           IfAtMost("a", 0, 2), Set("A", "x", 0), IfAtMost("b", 0, 2), Set("B", "y", 0),
           Commit("A"), Commit("B")>>)
\* Lab 09: Alice is done before Bob writes.
GoOffCallInTurn(level) ==
    <<Begin("A", level), Begin("B", level),
      countOthersOnCall("A", {"y"}, "a"), countOthersOnCall("B", {"x"}, "b"),
      IfAtMost("a", 0, 2), setOffCall("A", "x"), Commit("A"),
      IfAtMost("b", 0, 2), Catch(setOffCall("B", "y"), 3), Catch(Commit("B"), 2), Skip(5),
      IfError(SerializationFailure, 2), Raise, Rollback("B"), Let("c", 1)>>
WriteSkewUnderRepeatableRead == Solo(resetOnCallStaff, GoOffCallInTurn("RR"))
SerializableDetectsConflict == Solo(resetOnCallStaff, GoOffCallInTurn("SER"))

WriteSkewOutcome == OnCall({"x", "y"}) = 0
SerializableDetectsConflictOutcome == reg["c"] = 1 /\ OnCall({"x", "y"}) = 1 /\ val["y"] = 1

(***************************************************************************)
(* Lab 09: SERIALIZABLE with a retry loop around fresh reads.              *)
(***************************************************************************)
\* BEGIN, count, leave unless one is the last, COMMIT.  A conflict goes on
\* after the attempt, an outcome `done` steps further.
Attempt(level, s, me, others, count, done) ==
    <<Begin(s, level), Catch(countOthersOnCall(s, others, count), 7),
      IfAtLeast(count, 1, 3), Rollback(s), Skip(done + 4),
      Catch(setOffCall(s, me), 3), Catch(Commit(s), 2), Skip(done + 1)>>
\* Mutant: the transaction runs at REPEATABLE READ.
MutAttemptGoOffCall(s, me, others, count, done) == Attempt("RR", s, me, others, count, done)
attemptGoOffCall(s, me, others, count, done) == Attempt("SER", s, me, others, count, done)
retryGoOffCall(s, me, others, count, attempts, maxAttempts) ==
    <<Let(attempts, 0), Bump(attempts)>>
    \o attemptGoOffCall(s, me, others, count, 5)
    \o <<IfError(SerializationFailure, 2), Raise, Rollback(s),
         IfAtMost(attempts, maxAttempts - 1, -12), Raise>>

SerializableWithRetry ==
    Both(resetOnCallStaff, PromiseAll,
         retryGoOffCall("A", "x", {"y"}, "a", "b", 5),
         retryGoOffCall("B", "y", {"x"}, "c", "d", 5))
SerializableWithRetryOutcome ==
    OnCall({"x", "y"}) = 1 /\ \A t \in Threads : err[t] = 0

\* The contention run, with a team of three.
resetTeamOnCall == [x |-> 1, y |-> 1, z |-> 1]
ContentionUnderSerializable ==
    With(Both(resetTeamOnCall, PromiseAll3,
              retryGoOffCall("A", "x", {"y", "z"}, "a", "b", 5),
              retryGoOffCall("B", "y", {"x", "z"}, "c", "d", 5)),
         "r", retryGoOffCall("C", "z", {"x", "y"}, "e", "f", 5))
ContentionUnderSerializableOutcome ==
    OnCall({"x", "y", "z"}) >= 1 /\ \A t \in Threads : err[t] = 0

LeaveUnlessLast(s, me, others, count) ==
    <<Begin(s, "RR"), countOthersOnCall(s, others, count),
      IfAtMost(count, 0, 2), setOffCall(s, me), Commit(s)>>
ContentionUnderRepeatableRead ==
    With(Both(resetTeamOnCall, PromiseAll3,
              LeaveUnlessLast("A", "x", {"y", "z"}, "a"), LeaveUnlessLast("B", "y", {"x", "z"}, "b")),
         "r", LeaveUnlessLast("C", "z", {"x", "y"}, "c"))
\* Whoever counted another on call left: nothing but the counts protects the
\* team, and there are none to protect it when all three overlap.
ContentionUnderRepeatableReadOutcome ==
    OnCall({"x", "y", "z"}) = Cardinality({r \in {"a", "b", "c"} : reg[r] = 0})
=============================================================================
