------------------------------ MODULE Backfill ------------------------------
(***************************************************************************)
(* Backfilling a column while the table is in use: the batched, resumable  *)
(* backfill of lab 30 with its interrupted run, the single UPDATE of the   *)
(* whole table it replaces, and the expand / dual-write / backfill         *)
(* migration of lab 29.  dst is the new column (Null until backfilled),    *)
(* src the column it is computed from.                                     *)
(*                                                                         *)
(* One batch is one UPDATE ... WHERE id IN (SELECT id ... WHERE dst IS     *)
(* NULL ORDER BY id LIMIT n): the ids come from the statement's snapshot,  *)
(* the rows are locked one after the other, waiting where somebody else    *)
(* has them, and become visible together when the statement commits.       *)
(***************************************************************************)
EXTENDS Integers, FiniteSets, FiniteSetsExt

CONSTANTS
    Ids,           \* the rows, 1..n; the last one is inserted by the scenario "expand"
    BatchSizes,    \* [first, second |-> rows per batch]
    MaxBatches,    \* the option of backfillLoyaltyPoints, for the plan "limited"
    MaxRenames,    \* bound on concurrent writes
    Plans          \* the scenarios

ASSUME BackfillSizes ==
    /\ IsFiniteSet(Ids) /\ Ids = 1..Cardinality(Ids)
    /\ BatchSizes \in [{"first", "second"} -> Nat \ {0}]
    /\ MaxBatches \in Nat \ {0} /\ MaxRenames \in Nat

Null == -1
Runs == {"first", "second"}
Nobody == "nobody"

VARIABLES
    plan,      \* "interrupted", "limited", "giant" or "expand"
    row,       \* the committed rows: [src, dst]; src = Null when not there yet
    owner,     \* who holds the row lock
    batch,     \* per run: [ids of the UPDATE in flight, how many it has locked]
    run,       \* per run: "off", "picking", "updating", "orphan", "stopped", "finished"
    total,     \* per run: [batches, rows] as the process adds them up, and which
    writer,    \* the concurrent writer: "idle", or the id it writes
    renames,   \* how many writes it has done
    counts,    \* what readCounts answered: before, afterKill, after
    orphaned   \* rows the killed run's last UPDATE committed after the count

backfillVars == <<plan, row, owner, batch, run, total, writer, renames, counts, orphaned>>

Exists(i) == row[i].src # Null
Backfilled == {i \in Ids : Exists(i) /\ row[i].dst # Null}
PendingRows == {i \in Ids : Exists(i) /\ row[i].dst = Null}
\* ORDER BY id LIMIT n
Lowest(S, n) == {i \in S : Cardinality({j \in S : j < i}) < n}
\* The whole table in one statement, or the next batch.
Chosen(r) ==
    IF plan = "giant" THEN PendingRows ELSE Lowest(PendingRows, BatchSizes[r])
InFlight(r) == run[r] \in {"updating", "orphan"}
NoBatch == [ids |-> {}, locked |-> {}]

(***************************************************************************)
(* backfillLoyaltyPoints, backfillDisplayName and runNaiveGiantUpdate.     *)
(***************************************************************************)
\* The UPDATE starts: its snapshot decides the ids.  None left: the loop ends.
PickBatch(r) ==
    /\ run[r] = "picking"
    /\ IF Chosen(r) = {}
       THEN run' = [run EXCEPT ![r] = "finished"] /\ UNCHANGED batch
       ELSE /\ run' = [run EXCEPT ![r] = "updating"]
            /\ batch' = [batch EXCEPT ![r] = [ids |-> Chosen(r), locked |-> {}]]
    /\ UNCHANGED <<plan, row, owner, total, writer, renames, counts, orphaned>>
LockNextRow(r) ==
    /\ InFlight(r)
    /\ LET rest == batch[r].ids \ batch[r].locked
       IN  /\ rest # {} /\ owner[Min(rest)] = Nobody
           /\ owner' = [owner EXCEPT ![Min(rest)] = r]
           /\ batch' = [batch EXCEPT ![r].locked = @ \cup {Min(rest)}]
    /\ UNCHANGED <<plan, row, run, total, writer, renames, counts, orphaned>>
\* Mutant: the new dst is computed from the value the snapshot had.
MutNewDst(i) == 0
\* The new dst is computed from the row as it is now, not as it was picked.
NewDst(i) == row[i].src
Written(r) == [i \in Ids |-> IF i \in batch[r].ids THEN [row[i] EXCEPT !.dst = NewDst(i)] ELSE row[i]]
\* result.rowCount
RowCount(r) == Cardinality(batch[r].ids)
\* maxBatches is an option of the first run; mutant: of every run.
MutStops(r) == plan = "giant" \/ (plan # "expand" /\ total[r].batches + 1 >= MaxBatches)
Stops(r) == \/ plan = "giant"
            \/ plan = "limited" /\ r = "first" /\ total[r].batches + 1 >= MaxBatches
CommitBatch(r) ==
    /\ InFlight(r) /\ batch[r].locked = batch[r].ids
    /\ row' = Written(r)
    /\ owner' = [i \in Ids |-> IF owner[i] = r THEN Nobody ELSE owner[i]]
    /\ batch' = [batch EXCEPT ![r] = NoBatch]
    /\ IF run[r] = "orphan"
       THEN /\ run' = [run EXCEPT ![r] = "stopped"]
            /\ orphaned' = IF counts.afterKill = Null THEN orphaned ELSE batch[r].ids
            /\ UNCHANGED total
       ELSE /\ total' = [total EXCEPT ![r] = [batches |-> @.batches + 1,
                                              rows |-> @.rows + RowCount(r),
                                              ids |-> @.ids \cup batch[r].ids]]
            /\ run' = [run EXCEPT ![r] = IF Stops(r) THEN "stopped" ELSE "picking"]
            /\ UNCHANGED orphaned
    /\ UNCHANGED <<plan, writer, renames, counts>>

(***************************************************************************)
(* interrupted-resume-backfill.ts: count, run a child, SIGKILL it, count,  *)
(* resume, count.                                                          *)
(***************************************************************************)
\* The server finishes the UPDATE the dead process had sent.
Kill ==
    /\ plan = "interrupted" /\ run["first"] \in {"picking", "updating"}
    /\ run' = [run EXCEPT !["first"] = IF @ = "updating" THEN "orphan" ELSE "stopped"]
    /\ UNCHANGED <<plan, row, owner, batch, total, writer, renames, counts, orphaned>>
Exited == run["first"] \in {"orphan", "stopped", "finished"}
readCounts == Cardinality(Backfilled)
StartFirst ==
    /\ plan \in {"interrupted", "limited", "giant"} /\ run["first"] = "off"
    /\ counts' = [counts EXCEPT !.before = readCounts]
    /\ run' = [run EXCEPT !["first"] = "picking"]
    /\ UNCHANGED <<plan, row, owner, batch, total, writer, renames, orphaned>>
CountAfterKill ==
    /\ plan \in {"interrupted", "limited"} /\ Exited /\ counts.afterKill = Null
    /\ counts' = [counts EXCEPT !.afterKill = readCounts]
    /\ UNCHANGED <<plan, row, owner, batch, run, total, writer, renames, orphaned>>
Resume ==
    /\ counts.afterKill # Null /\ run["second"] = "off"
    /\ run' = [run EXCEPT !["second"] = "picking"]
    /\ UNCHANGED <<plan, row, owner, batch, total, writer, renames, counts, orphaned>>
CountAfter ==
    /\ run["second"] = "finished" /\ counts.after = Null
    /\ counts' = [counts EXCEPT !.after = readCounts]
    /\ UNCHANGED <<plan, row, owner, batch, run, total, writer, renames, orphaned>>

(***************************************************************************)
(* expand-contract-migration.ts, and the writes that go on meanwhile.      *)
(***************************************************************************)
NewRow == Cardinality(Ids)
\* dualWriteInsertCustomer, then the backfill.
Expand ==
    /\ plan = "expand" /\ run["second"] = "off"
    /\ row' = [row EXCEPT ![NewRow] = [src |-> 0, dst |-> 0]]
    /\ counts' = [counts EXCEPT !.before = readCounts + 1, !.afterKill = readCounts + 1]
    /\ run' = [run EXCEPT !["second"] = "picking"]
    /\ UNCHANGED <<plan, owner, batch, total, writer, renames, orphaned>>
\* The prober's UPDATE, or dualWriteRenameCustomer, finds its row free.
StartWrite(i) ==
    /\ writer = "idle" /\ renames < MaxRenames /\ Exists(i) /\ owner[i] = Nobody
    /\ plan = "expand" \/ i = Min(Ids)
    /\ writer' = "busy" /\ owner' = [owner EXCEPT ![i] = "writer"]
    /\ UNCHANGED <<plan, row, batch, run, total, renames, counts, orphaned>>
\* Both columns get the new name; the prober leaves both as they are.
DualWrite(r) == [src |-> r.src + 1, dst |-> r.src + 1]
CommitWrite(i) ==
    /\ owner[i] = "writer"
    /\ row' = IF plan = "expand" THEN [row EXCEPT ![i] = DualWrite(@)] ELSE row
    /\ owner' = [owner EXCEPT ![i] = Nobody]
    /\ writer' = "idle" /\ renames' = renames + 1
    /\ UNCHANGED <<plan, batch, run, total, counts, orphaned>>

BackfillInit ==
    /\ plan \in Plans
    /\ row = [i \in Ids |-> IF i = NewRow /\ plan = "expand" THEN [src |-> Null, dst |-> Null]
                            ELSE [src |-> 0, dst |-> Null]]
    /\ owner = [i \in Ids |-> Nobody]
    /\ batch = [r \in Runs |-> NoBatch]
    /\ run = [r \in Runs |-> "off"]
    /\ total = [r \in Runs |-> [batches |-> 0, rows |-> 0, ids |-> {}]]
    /\ writer = "idle" /\ renames = 0
    /\ counts = [before |-> Null, afterKill |-> Null, after |-> Null]
    /\ orphaned = {}
RunStep(r) == PickBatch(r) \/ LockNextRow(r) \/ CommitBatch(r)
ScriptMoves == StartFirst \/ CountAfterKill \/ Resume \/ CountAfter \/ Expand
BackfillNext ==
    \/ \E r \in Runs : RunStep(r)
    \/ ScriptMoves \/ Kill
    \/ \E i \in Ids : StartWrite(i) \/ CommitWrite(i)
BackfillSpec == BackfillInit /\ [][BackfillNext]_backfillVars
(***************************************************************************)
(* Properties.                                                             *)
(***************************************************************************)
\* Whatever the backfill and the dual writes do to each other, a row that has
\* the new column has it right.
BackfilledIsCurrent == \A i \in Backfilled : row[i].dst = row[i].src
\* What the interrupted run's counts are worth: nothing is pending, no row of a
\* batch the killed run was answered is processed again, and the rows of both
\* runs are those there were to do - but for the rows the killed run's last
\* UPDATE commits after the second count, which the sum of the script lacks
\* unless the resumed run has processed them once more.  That exception is not in
\* the lab's words: see ExactlyOnce.
BackfillAccounts ==
    counts.after # Null /\ plan # "expand" =>
        /\ PendingRows = {}
        /\ total["first"].ids \cap total["second"].ids = {}
        /\ (counts.afterKill - counts.before) + total["second"].rows + Cardinality(orphaned \ total["second"].ids)
           = Cardinality(Ids) - counts.before
\* Both at once: values and accounts survive a killed run.
BackfillSafe == BackfilledIsCurrent /\ BackfillAccounts
\* What the script logs and the lab says of the interrupted run, invariantHolds
\* and more: the resumed run neither re-processes nor skips a row, every row is
\* backfilled exactly once.  It does not hold: the UPDATE the killed process had
\* sent may commit after the count, its rows then being in neither run's number,
\* or in the number of the resumed run, which has picked and writes them too.
ExactlyOnce ==
    counts.after # Null /\ plan = "interrupted" =>
        /\ (counts.afterKill - counts.before) + total["second"].rows = Cardinality(Ids) - counts.before
        /\ orphaned \cap total["second"].ids = {}
\* Where every plan ends, however often it was interrupted: nothing is pending.
BackfillOver == PendingRows = {} /\ \A r \in Runs : run[r] \in {"off", "stopped", "finished"}
=============================================================================
