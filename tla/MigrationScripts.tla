-------------------------- MODULE MigrationScripts --------------------------
(***************************************************************************)
(* The scenario scripts of lab 29 that race DDL with a writer.  "T" is the *)
(* table's own lock, "V" what a concurrent index build waits for: the end  *)
(* of a transaction that wrote before it started.  d becomes 1 just before *)
(* the holder commits, e and f are d as another statement finds it when it *)
(* returns; z is the column a migration adds.                              *)
(***************************************************************************)
EXTENDS PgSession

Customers == [x |-> 1, y |-> 1]

holdWriteLockingTransaction(s) ==
    <<Begin(s, "RC"), LockRow(s, "T", "table_rowexclusive", "-"), LockRow(s, "V", "update", "-"),
      Add(s, "x", 0), Hold, Let("d", 1), Commit(s)>>
StartHolder == <<Let("d", 0), Start("p"), Sleep>>

\* CREATE INDEX waits for the writer.
raceCreateIndexPlain ==
    With(Solo(Customers, StartHolder \o <<LockRow("B", "T", "table_share", "-"), Copy("e", "d"), Await("p")>>),
         "p", holdWriteLockingTransaction("A"))
raceCreateIndexPlainOutcome == onTime => reg["e"] = 1

\* So does CREATE INDEX CONCURRENTLY, in a mode that lets a third session write.
raceCreateIndexConcurrently ==
    Both(Customers,
         StartHolder \o <<Start("q"), Sleep, LockRow("C", "T", "table_rowexclusive", "-"),
                          Add("C", "y", 0), Copy("f", "d"), Await("q"), Await("p")>>,
         holdWriteLockingTransaction("A"),
         <<Begin("B", "RC"), LockRow("B", "T", "table_shareupdateexclusive", "-"),
           LockRow("B", "V", "update", "-"), Copy("e", "d"), Commit("B")>>)
raceCreateIndexConcurrentlyOutcome == onTime => reg["e"] = 1 /\ reg["f"] = 0

dropColumn(s) ==
    <<Begin(s, "RC"), LockRow(s, "T", "table_accessexclusive", "-"), Set(s, "z", Absent), Commit(s)>>
\* a: succeeded.  With a lock_timeout the statement may be refused with 55P03.
attemptAlterTable(s, lockTimeout) ==
    LET alter == LockRow(s, "T", "table_accessexclusive", "-")
    IN
    <<Begin(s, "RC"), Catch(IF lockTimeout THEN WithTimeout(alter) ELSE alter, 5),
      Catch(Insert(s, "z", 0), 4), Commit(s), Let("a", 1), Skip(3), Rollback(s), Let("a", 0), Copy("e", "d")>>
AlterTable(lockTimeout) ==
    With(Solo(Customers, dropColumn("B") \o StartHolder \o attemptAlterTable("B", lockTimeout)
                         \o <<Await("p")>> \o dropColumn("B")),
         "p", holdWriteLockingTransaction("A"))
runAlterTableWithoutLockTimeout == AlterTable(FALSE)
runAlterTableWithoutLockTimeoutOutcome ==
    reg["a"] = 1 /\ val["z"] = Absent /\ (onTime => reg["e"] = 1)
runAlterTableWithLockTimeout == AlterTable(TRUE)
runAlterTableWithLockTimeoutOutcome ==
    val["z"] = Absent /\ (onTime => reg["a"] = 0 /\ reg["e"] = 0)

\* x is the column full_name, y display_name: a statement that names a column
\* that is gone (42703) reads Absent.
oldCodeReadFullName(s, into) == Read(s, "x", into)
runNaiveRenameIncident ==
    Solo([x |-> 7],
         <<oldCodeReadFullName("A", "a"),
           Begin("A", "RC"), Set("A", "x", Absent), Insert("A", "y", 7), Commit("A"),
           oldCodeReadFullName("A", "b"), Read("A", "y", "c")>>)
runNaiveRenameIncidentOutcome == reg["b"] = Absent /\ reg["c"] = reg["a"]
=============================================================================
