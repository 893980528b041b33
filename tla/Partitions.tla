----------------------------- MODULE Partitions -----------------------------
(***************************************************************************)
(* Lab 35: metric_events_partitioned beside its flat twin, and the small   *)
(* table partitioned by region.  An operator runs the seed and the         *)
(* scenarios one after the other; each is a list of statements, every one  *)
(* a transaction of its own, and a process may die between two of them.    *)
(* A table is absent, attached to its parent, or stands alone after a      *)
(* DETACH; a month or a region stands for its rows.                        *)
(***************************************************************************)
EXTENDS Integers, Sequences, FiniteSets, SequencesExt

CONSTANTS
    Months,       \* the canonical months of PARTITIONED_YEAR, the first one purged
    MaxScripts    \* bound: scripts the operator runs

ASSUME PartitionBounds == Len(Months) > 0 /\ IsInjective(Months) /\ MaxScripts \in Nat

VARIABLES
    relation,    \* per table: "absent", "attached", "alone"
    stored,      \* per table: its rows
    flat,        \* per month: rows of metric_events_flat
    script,      \* the script that runs or ran last
    todo,        \* its statements to come
    result,      \* "none", "running", "ok", "failed", "killed"
    clean,       \* no script failed or died since the last complete seed
    started      \* scripts run so far

partVars == <<relation, stored, flat, script, todo, result, clean, started>>

canonicalPartitions == ToSet(Months)
Extra == {"y2026m01", "y2026m02"}
Regions == {"us", "eu", "apac"}
Default == "default"
RangeTables == canonicalPartitions \cup Extra
ListTables == Regions \cup {Default}
Tables == RangeTables \cup ListTables
January == Months[1]
\* Every month has a name of its own, those of the scenarios are of another year.
ASSUME MonthNames == Months \in Seq(canonicalPartitions) /\ canonicalPartitions \cap (Extra \cup ListTables \cup {"latam"}) = {}

Attached(n) == relation[n] = "attached"
Present(n) == relation[n] # "absent"
\* pg_inherits, by name.
listExistingPartitions(parent) == {n \in parent : Attached(n)}
Partition(row) == IF row \in Tables /\ Attached(row) THEN row ELSE Default
Routed(row) == Attached(Partition(row)) /\ (row \in RangeTables => Attached(row))

Statement(verb, table) == [verb |-> verb, table |-> table]
\* One statement per element of S, in some order.
Each(verb, S) == LET q == SetToSeq(S) IN [i \in 1..Len(q) |-> Statement(verb, q[i])]

(***************************************************************************)
(* The scripts.                                                            *)
(***************************************************************************)
\* Mutant: what a scenario attached stays.
MutDetachAndDrop(names) == <<>>
detachAndDrop(names) ==
    LET q == SetToSeq(names)
    IN  [k \in 1..(2 * Len(q)) |-> Statement(IF k % 2 = 1 THEN "detach" ELSE "drop", q[(k + 1) \div 2])]
\* CREATE TABLE IF NOT EXISTS: nothing happens when the name is taken, attached or not.
createMonthPartition(names) == Each("ensure", names)
reconcileCanonicalPartitionLayout ==
    LET existing == listExistingPartitions(RangeTables)
    IN  detachAndDrop(existing \ canonicalPartitions) \o createMonthPartition(canonicalPartitions \ existing)
resetListDemoTable ==
    detachAndDrop(listExistingPartitions(ListTables) \ Regions) \o <<Statement("truncateList", Default)>>

\* A batch of rows for each month, in order.
generateMetricEventsBatched == [i \in 1..Len(Months) |-> Statement("batch", Months[i])]
Seed ==
    <<Statement("reconcile", Default), Statement("resetList", Default),
      Statement("truncateFlat", Default), Statement("truncateRange", Default)>>
    \o generateMetricEventsBatched
PartitionMaintenance ==
    <<Statement("count", January), Statement("detach", January), Statement("drop", January),
      Statement("deleteFlat", January)>>
\* The first insert must fail: if it does not, the script warns and returns.
AttachAndMissingPartition ==
    <<Statement("probe", "y2026m01"), Statement("create", "y2026m01"),
      Statement("insert", "y2026m01"), Statement("create", "y2026m02")>>
ListPartitioning ==
    <<Statement("resetList", Default), Statement("insertRegions", Default),
      Statement("tolerate", "latam"), Statement("create", Default), Statement("insert", "latam")>>
PartitionScripts ==
    [seed |-> Seed, maintenance |-> PartitionMaintenance,
     attach |-> AttachAndMissingPartition, list |-> ListPartitioning]

PartInit ==
    /\ relation = [n \in Tables |-> IF n \in canonicalPartitions \cup Regions THEN "attached" ELSE "absent"]
    /\ stored = [n \in Tables |-> 0] /\ flat = [m \in canonicalPartitions |-> 0]
    /\ script = "none" /\ todo = <<>> /\ result = "none" /\ clean = FALSE /\ started = 0

Idle == result # "running"
StartScript ==
    /\ Idle /\ started < MaxScripts
    /\ \E s \in DOMAIN PartitionScripts : script' = s /\ todo' = PartitionScripts[s]
    /\ result' = "running" /\ started' = started + 1
    /\ UNCHANGED <<relation, stored, flat, clean>>

(***************************************************************************)
(* Statements.                                                             *)
(***************************************************************************)
Now == Head(todo).verb
It == Head(todo).table
\* Rest: what is left to do after this statement.
Then(rest) ==
    /\ todo' = rest
    /\ result' = IF rest = <<>> THEN "ok" ELSE "running"
    /\ clean' = (clean \/ (rest = <<>> /\ script = "seed"))
    /\ UNCHANGED <<script, started>>
ScriptThrows ==
    /\ todo' = <<>> /\ result' = "failed" /\ clean' = FALSE
    /\ UNCHANGED <<script, started>>
Insert(row) == stored' = [stored EXCEPT ![Partition(row)] = @ + 1]
Cleared(names) == [n \in Tables |-> IF n \in names /\ Attached(n) THEN 0 ELSE stored[n]]

Refused(verb, n) ==
    CASE verb = "detach" -> ~Attached(n)
      [] verb \in {"drop", "count"} -> ~Present(n)
      [] verb = "create" -> Present(n)
      [] verb \in {"insert", "batch"} -> ~Routed(n)
      [] OTHER -> FALSE
Executing(verb) == result = "running" /\ Now = verb /\ ~Refused(verb, It)
PlanLayout ==
    /\ result = "running" /\ Now \in {"reconcile", "resetList"}
    /\ Then((IF Now = "reconcile" THEN reconcileCanonicalPartitionLayout ELSE resetListDemoTable) \o Tail(todo))
    /\ UNCHANGED <<relation, stored, flat>>
Detach == Executing("detach") /\ relation' = [relation EXCEPT ![It] = "alone"] /\ Then(Tail(todo)) /\ UNCHANGED <<stored, flat>>
Drop ==
    /\ Executing("drop") /\ relation' = [relation EXCEPT ![It] = "absent"] /\ stored' = [stored EXCEPT ![It] = 0]
    /\ Then(Tail(todo)) /\ UNCHANGED flat
CreatePartition ==
    /\ Executing("create") \/ Executing("ensure")
    /\ relation' = IF Present(It) THEN relation ELSE [relation EXCEPT ![It] = "attached"]
    /\ Then(Tail(todo)) /\ UNCHANGED <<stored, flat>>
Truncate ==
    /\ \/ Executing("truncateList") /\ stored' = Cleared(ListTables) /\ UNCHANGED flat
       \/ Executing("truncateRange") /\ stored' = Cleared(RangeTables) /\ UNCHANGED flat
       \/ Executing("truncateFlat") /\ flat' = [m \in canonicalPartitions |-> 0] /\ UNCHANGED stored
    /\ Then(Tail(todo)) /\ UNCHANGED relation
InsertRows ==
    /\ \/ Executing("insert") /\ Insert(It)
       \/ Executing("insertRegions") /\ stored' = [n \in Tables |-> IF n \in Regions THEN stored[n] + 1 ELSE stored[n]]
    /\ Then(Tail(todo)) /\ UNCHANGED <<relation, flat>>
\* Both inserts of Promise.all.
InsertBatch ==
    /\ Executing("batch") /\ Insert(It) /\ flat' = [flat EXCEPT ![It] = @ + 1]
    /\ Then(Tail(todo)) /\ UNCHANGED relation
CountPartition == Executing("count") /\ Then(Tail(todo)) /\ UNCHANGED <<relation, stored, flat>>
DeleteFlat ==
    /\ Executing("deleteFlat") /\ flat' = [flat EXCEPT ![It] = 0]
    /\ Then(Tail(todo)) /\ UNCHANGED <<relation, stored>>
\* The insert in a try block: it fails as it should, or the script ends early.
Probe ==
    /\ Executing("probe") \/ Executing("tolerate")
    /\ IF Routed(It) THEN Insert(It) /\ Then(IF Now = "probe" THEN <<>> ELSE Tail(todo))
       ELSE UNCHANGED stored /\ Then(Tail(todo))
    /\ UNCHANGED <<relation, flat>>
\* An error ends the script; the flat half of a batch may be in by then.
StatementFails ==
    /\ result = "running" /\ Refused(Now, It)
    /\ flat' \in IF Now = "batch" THEN {flat, [flat EXCEPT ![It] = @ + 1]} ELSE {flat}
    /\ ScriptThrows /\ UNCHANGED <<relation, stored>>
\* Also a statement that fails for another reason than the layout: no script has
\* anything to run after it, so what was done before it, or with it, stays.
ProcessKilled ==
    /\ result = "running"
    /\ todo' = <<>> /\ result' = "killed" /\ clean' = FALSE
    /\ UNCHANGED <<relation, stored, flat, script, started>>

RunStatement ==
    \/ PlanLayout \/ Detach \/ Drop \/ CreatePartition \/ Truncate \/ InsertRows \/ InsertBatch
    \/ CountPartition \/ DeleteFlat \/ Probe \/ StatementFails
PartNext == StartScript \/ RunStatement \/ ProcessKilled
PartSpec == PartInit /\ [][PartNext]_partVars
(***************************************************************************)
(* Properties.                                                             *)
(***************************************************************************)
Orphans == {n \in Tables : relation[n] = "alone"}
Ran(s, r) == script = s /\ result = r
\* A complete seed leaves exactly the canonical layout and two equal tables; from
\* then on, whatever the scenarios do, the twins hold the same rows until a
\* script fails or dies; a statement of the seed is refused only over a table that
\* a killed script left detached; a purge that ended took January out of both tables, and the
\* row that had no partition is in the one that was made for it.
LayoutIsRestored ==
    /\ Ran("seed", "ok") =>
          /\ listExistingPartitions(Tables) = canonicalPartitions \cup Regions
          /\ \A n \in canonicalPartitions : stored[n] = 1 /\ flat[n] = 1
          /\ \A n \in Regions : stored[n] = 0
    /\ clean /\ Idle => \A m \in canonicalPartitions : flat[m] = stored[m]
    /\ Ran("seed", "failed") => Orphans \cap canonicalPartitions # {}
    /\ Ran("maintenance", "ok") => ~Present(January) /\ flat[January] = 0
    /\ Ran("attach", "ok") => Attached("y2026m01") /\ stored["y2026m01"] > 0
    /\ Ran("list", "ok") => stored[Default] = 1 /\ \A n \in Regions : stored[n] = 1
\* The claim of reconcileCanonicalPartitionLayout: the seed restores the layout
\* whatever a previous run left behind, so it never fails.
SeedAlwaysRestores == ~Ran("seed", "failed")
=============================================================================
