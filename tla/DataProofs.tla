----------------------------- MODULE DataProofs -----------------------------
(***************************************************************************)
(* The life of the data, for every number of rows, every batch size, every *)
(* bound and every script.                                                 *)
(*                                                                         *)
(* Backfill.  The three counts of the interrupted run and the rows each    *)
(* process reports add up because every row counts for one of them: it was *)
(* there when the killed run was counted, or the resumed run or the        *)
(* orphaned UPDATE wrote it later.  The two may write the same rows, so    *)
(* the invariant says what an UPDATE in flight may overlap with.           *)
(*                                                                         *)
(* Replication.  A standby has a prefix of what its upstream has           *)
(* (StandbyIsPrefix), so what a script saw on the standby it wants to      *)
(* promote is there and stays there.  The invariant follows the script:    *)
(* the calls made so far tell which rows were written and seen, which      *)
(* nodes were stopped, and which delays are still to be taken back.  How a *)
(* script is written is CarefulScripts, which TLC checks for all of them.  *)
(*                                                                         *)
(* Pagination.  Among finitely many rows in a total order there is one of  *)
(* each rank, so OFFSET and LIMIT select by rank (PageOfRanks).  One row   *)
(* more or less moves the ranks behind it by one (RankWithout), which is   *)
(* what OFFSET shows to its client; the rows behind a cursor are the same  *)
(* whatever happens before it.                                             *)
(*                                                                         *)
(* Observability.  The await a request is at tells what it has logged      *)
(* (AwaitTells), and the stage of the script which requests were sent and  *)
(* whether one may still be open (SentByStage).  A step of the server and  *)
(* a step of the script keep that for the same reason each time: nothing   *)
(* is open when the script goes on (NextStageKeeps), and what an open      *)
(* request may do leaves the others and the script alone (MoveKeeps,       *)
(* CompleteKeeps).                                                         *)
(*                                                                         *)
(* Tenant sessions.  A script is at a stage of its list; a step moves it   *)
(* within the stage or to a later one (MovesTo), and what the proof uses   *)
(* of the lists is in ScriptsAreWritten.  The policy is off in naive-      *)
(* leak's window alone (WindowIsKnown), and while it is on the setting of  *)
(* a connection at an operation is the tenant of its session               *)
(* (PolicyGuards).                                                         *)
(*                                                                         *)
(* Partitions.  A script is a list of which nothing but the set matters,   *)
(* once it is known to be in order (Lists, StatementRank): what is still   *)
(* to be done tells what is not done yet.  A plan made over whatever       *)
(* layout is found goes before the rest of its list (PlansAreLists,        *)
(* PlanKeeps).  The seed is refused nothing but a batch, over a month that *)
(* stands alone (FailureKeeps).                                            *)
(***************************************************************************)
EXTENDS Replication, Backfill, Pagination, TenantSessions, Partitions, Observability, Sums, SequenceTheorems

-----------------------------------------------------------------------------
(* Backfill. *)

RunStates == {"off", "picking", "updating", "orphan", "stopped", "finished"}
BackfillTypeOK ==
    /\ row \in [Ids -> [src : Nat \cup {Null}, dst : Nat \cup {Null}]]
    /\ owner \in [Ids -> Runs \cup {Nobody, "writer"}]
    /\ batch \in [Runs -> [ids : SUBSET Ids, locked : SUBSET Ids]]
    /\ run \in [Runs -> RunStates] /\ run["second"] # "orphan"
    /\ total \in [Runs -> [batches : Nat, rows : Nat, ids : SUBSET Ids]]
    /\ counts \in [before : Nat \cup {Null}, afterKill : Nat \cup {Null}, after : Nat \cup {Null}]
    /\ orphaned \in SUBSET Ids

\* The rows that were not yet backfilled when the killed run was counted.
Later == total["second"].ids \cup orphaned

\* Who runs when: the second run after the count, the count after the first run.
TakesTurns ==
    /\ plan = "expand" => run["first"] = "off"
    /\ counts.afterKill = Null => run["second"] = "off"
    /\ counts.afterKill # Null /\ plan # "expand" => Exited
    /\ counts.after # Null => run["second"] = "finished"

\* The rows of the resumed run and of the orphan, and what they found there.
LaterRows ==
    /\ counts.afterKill = Null => Later = {}
    /\ run["first"] # "stopped" => orphaned = {}
    /\ plan # "expand" =>
          /\ \A i \in Ids : row[i].src = 0
          /\ total["second"].rows = Cardinality(total["second"].ids)
          /\ Later \subseteq Backfilled
          /\ counts.afterKill # Null => Cardinality(Backfilled \ Later) = counts.afterKill
          /\ run["second"] = "finished" => PendingRows = {}

\* An UPDATE in flight overlaps only with what the other process wrote meanwhile.
Overlaps ==
    plan # "expand" =>
        /\ InFlight("first") => batch["first"].ids \cap Backfilled \subseteq total["second"].ids
        /\ InFlight("second") => /\ batch["second"].ids \cap Backfilled \subseteq orphaned
                                 /\ batch["second"].ids \cap total["second"].ids = {}

BackfillInv == BackfillTypeOK /\ BackfilledIsCurrent /\ TakesTurns /\ LaterRows /\ Overlaps

\* The rows the first run was told of: nobody has written them since.
AnsweredRows ==
    plan # "expand" =>
        /\ total["first"].ids \subseteq Backfilled
        /\ total["first"].ids \cap Later = {}
        /\ InFlight("first") => batch["first"].ids \cap total["first"].ids = {}

\* Cardinality of the rows and of their subsets.
LEMMA RowsAreFinite ==
  /\ IsFiniteSet(Ids) /\ Ids \subseteq Nat
  /\ \A S \in SUBSET Ids : IsFiniteSet(S) /\ Cardinality(S) \in Nat
  <1>1. IsFiniteSet(Ids) /\ Ids = 1..Cardinality(Ids)
    BY BackfillSizes DEF BackfillSizes
  <1>2. Cardinality(Ids) \in Nat
    BY <1>1, FS_CardinalityType
  <1>3. Ids \subseteq Nat
    BY <1>1, <1>2
  <1> QED
    BY <1>1, <1>3, FS_Subset, FS_CardinalityType

\* ORDER BY id: a row set that is not empty has a first row, which is Min.
LEMMA FirstRow ==
  ASSUME NEW S \in SUBSET Ids, S # {}
  PROVE  Min(S) \in S /\ \A i \in S : Min(S) <= i
  <1>1. S \in SUBSET Nat
    BY RowsAreFinite
  <1>2. PICK m \in S : \A k \in S : ~(k < m)
    BY <1>1, LeastNumber
  <1>3. m \in S /\ \A k \in S : m <= k
    BY <1>1, <1>2
  <1> QED
    BY <1>3 DEF Min

\* A run picks rows that are pending, and none only when none is pending.
LEMMA ChosenRows ==
  ASSUME NEW r \in Runs
  PROVE  /\ Chosen(r) \subseteq PendingRows
         /\ Chosen(r) = {} => PendingRows = {}
  <1>1. Chosen(r) \subseteq PendingRows
    BY DEF Chosen, Lowest
  <1>2. ASSUME PendingRows # {}, plan # "giant" PROVE Chosen(r) # {}
    <2> DEFINE m == Min(PendingRows)
               Before == {j \in PendingRows : j < m}
    <2>1. PendingRows \in SUBSET Ids
      BY DEF PendingRows
    <2>2. m \in PendingRows /\ \A i \in PendingRows : m <= i
      BY <1>2, <2>1, FirstRow
    <2>3. PendingRows \subseteq Nat
      BY <2>1, RowsAreFinite
    <2>4. \A j \in PendingRows : ~(j < m)
      <3> HIDE DEF m
      <3> QED
        BY <2>2, <2>3
    <2>5. Before = {}
      BY <2>4
    <2>6. Cardinality(Before) = 0
      BY <2>5, FS_EmptySet
    <2>7. BatchSizes[r] \in Nat \ {0}
      BY BackfillSizes DEF BackfillSizes, Runs
    <2>8. Cardinality(Before) < BatchSizes[r]
      <3> HIDE DEF Before
      <3> QED
        BY <2>6, <2>7
    <2>9. m \in Lowest(PendingRows, BatchSizes[r])
      BY <2>2, <2>8 DEF Lowest
    <2> QED
      BY <2>9, <1>2 DEF Chosen
  <1>3. ASSUME PendingRows # {}, plan = "giant" PROVE Chosen(r) # {}
    BY <1>3 DEF Chosen
  <1> QED
    BY <1>1, <1>2, <1>3

\* The scripts start with every value where the counts expect it.
LEMMA BackfillInitInv == BackfillInit => BackfillInv
  <1> SUFFICES ASSUME BackfillInit PROVE BackfillInv
    OBVIOUS
  <1> USE DEF BackfillInit
  <1>1. BackfillTypeOK
    BY DEF BackfillTypeOK, NoBatch, Runs, RunStates, Nobody, Null
  <1>2. BackfilledIsCurrent /\ Backfilled = {}
    BY DEF BackfilledIsCurrent, Backfilled, Exists, Null
  <1>3. Later = {}
    BY DEF Later, Runs
  <1>4. TakesTurns
    BY DEF TakesTurns, Runs, Null
  <1>5. LaterRows
    <2>1. plan # "expand" => \A i \in Ids : row[i].src = 0
      OBVIOUS
    <2> QED
      BY <1>3, <2>1, FS_EmptySet DEF LaterRows, Runs, Null
  <1>6. Overlaps
    BY DEF Overlaps, InFlight, Runs
  <1> QED
    BY <1>1, <1>2, <1>4, <1>5, <1>6 DEF BackfillInv

\* An UPDATE that commits: its rows are right, and each is counted for one run.
LEMMA CommitKeepsInv ==
  ASSUME BackfillInv, NEW r \in Runs, CommitBatch(r) PROVE BackfillInv'
  <1> DEFINE B == batch[r].ids
             ids2 == total["second"].ids
  <1>0. BackfillTypeOK /\ BackfilledIsCurrent /\ TakesTurns /\ LaterRows /\ Overlaps
    BY DEF BackfillInv
  <1>1. B \in SUBSET Ids /\ RowCount(r) \in Nat /\ RowCount(r) = Cardinality(B)
    BY <1>0, RowsAreFinite DEF BackfillTypeOK, RowCount
  <1>2. /\ InFlight(r) /\ run[r] \in {"updating", "orphan"}
        /\ plan' = plan /\ counts' = counts
        /\ row' = Written(r)
    BY DEF CommitBatch, InFlight
  <1>3. \A i \in Ids : /\ row'[i].src = row[i].src
                       /\ row'[i].dst = IF i \in B THEN row[i].src ELSE row[i].dst
    <2> TAKE i \in Ids
    <2>1. row[i] \in [src : Nat \cup {Null}, dst : Nat \cup {Null}]
      BY <1>0 DEF BackfillTypeOK
    <2>2. row'[i] = IF i \in B THEN [row[i] EXCEPT !.dst = row[i].src] ELSE row[i]
      BY <1>2 DEF Written, NewDst
    <2> QED
      BY <2>1, <2>2
  <1>4. BackfilledIsCurrent'
    BY <1>0, <1>3 DEF BackfilledIsCurrent, Backfilled, Exists
  <1>5. row' \in [Ids -> [src : Nat \cup {Null}, dst : Nat \cup {Null}]]
    <2>1. \A i \in Ids : Written(r)[i] \in [src : Nat \cup {Null}, dst : Nat \cup {Null}]
      BY <1>0 DEF BackfillTypeOK, Written, NewDst
    <2> QED
      BY <1>2, <2>1 DEF Written
  <1>6. owner' \in [Ids -> Runs \cup {Nobody, "writer"}]
    BY <1>0 DEF BackfillTypeOK, CommitBatch
  <1>7. batch' \in [Runs -> [ids : SUBSET Ids, locked : SUBSET Ids]] /\ \A q \in Runs : q # r => batch'[q] = batch[q]
    BY <1>0 DEF BackfillTypeOK, CommitBatch, NoBatch
  <1>8. plan # "expand" => Backfilled' = Backfilled \cup B /\ \A i \in Ids : row'[i].src = 0
    BY <1>0, <1>1, <1>3 DEF LaterRows, Backfilled, Exists, Null
  <1>9. plan # "expand" => PendingRows' \subseteq PendingRows
    BY <1>0, <1>3, <1>8 DEF LaterRows, PendingRows, Exists, Null
  <1>10. CASE run[r] = "orphan"
    <2>1. r = "first" /\ plan # "expand"
      BY <1>0, <1>10 DEF Runs, BackfillTypeOK, TakesTurns
    <2>2. /\ run' = [run EXCEPT !["first"] = "stopped"] /\ total' = total
          /\ orphaned' = IF counts.afterKill = Null THEN orphaned ELSE B
      BY <1>10, <2>1 DEF CommitBatch
    <2>3. orphaned = {} /\ B \cap Backfilled \subseteq ids2
      BY <1>0, <1>10, <2>1 DEF LaterRows, Overlaps, InFlight
    <2>4. run'["second"] = run["second"] /\ run'["first"] = "stopped"
      BY <1>0, <2>2 DEF BackfillTypeOK, Runs
    <2>5. BackfillTypeOK'
      <3>1. run' \in [Runs -> RunStates]
        BY <1>0, <2>2 DEF BackfillTypeOK, RunStates
      <3> QED
        BY <1>0, <1>1, <1>2, <1>5, <1>6, <1>7, <2>2, <2>4, <3>1 DEF BackfillTypeOK
    <2>6. TakesTurns'
      BY <1>0, <1>2, <2>1, <2>4 DEF TakesTurns, Exited
    <2>7. Later' = IF counts.afterKill = Null THEN Later ELSE Later \cup B
      BY <2>2, <2>3 DEF Later
    <2>8. LaterRows'
      <3>1. counts.afterKill # Null => Backfilled' \ Later' = Backfilled \ Later
        BY <1>8, <2>1, <2>3, <2>7 DEF Later
      <3>2. counts'.afterKill = Null => Later' = {}
        BY <1>0, <1>2, <2>7 DEF LaterRows
      <3>3. counts.afterKill # Null => Cardinality(Backfilled' \ Later') = counts.afterKill
        BY <1>0, <2>1, <3>1 DEF LaterRows
      <3>4. Later' \subseteq Backfilled'
        BY <1>0, <1>8, <2>1, <2>7 DEF LaterRows
      <3>5. run'["second"] = "finished" => PendingRows' = {}
        BY <1>0, <1>9, <2>1, <2>4 DEF LaterRows
      <3> QED
        BY <1>0, <1>2, <1>8, <2>1, <2>2, <2>4, <3>2, <3>3, <3>4, <3>5 DEF LaterRows
    <2>9. Overlaps'
      <3>1. ~InFlight("first")' /\ (InFlight("second")' => InFlight("second") /\ counts.afterKill # Null)
        BY <1>0, <2>4 DEF InFlight, TakesTurns
      <3>2. batch'["second"] = batch["second"] /\ total'["second"] = total["second"]
        BY <1>7, <2>1, <2>2 DEF Runs
      <3> QED
        BY <1>0, <1>8, <2>1, <2>2, <2>3, <3>1, <3>2 DEF Overlaps
    <2> QED
      BY <1>4, <2>5, <2>6, <2>8, <2>9 DEF BackfillInv
  <1>11. CASE run[r] = "updating"
    <2>1. /\ orphaned' = orphaned
          /\ run' = [run EXCEPT ![r] = IF Stops(r) THEN "stopped" ELSE "picking"]
          /\ total' = [total EXCEPT ![r] = [batches |-> @.batches + 1,
                                            rows |-> @.rows + RowCount(r), ids |-> @.ids \cup B]]
      BY <1>11 DEF CommitBatch
    <2>2. /\ run'[r] \in {"stopped", "picking"} /\ \A q \in Runs : q # r => run'[q] = run[q]
          /\ run' \in [Runs -> RunStates] /\ run'["second"] # "orphan"
      BY <1>0, <2>1 DEF BackfillTypeOK, RunStates, Runs
    <2>3. /\ total' \in [Runs -> [batches : Nat, rows : Nat, ids : SUBSET Ids]]
          /\ total'[r].rows = total[r].rows + RowCount(r) /\ total'[r].ids = total[r].ids \cup B
          /\ \A q \in Runs : q # r => total'[q] = total[q]
      BY <1>0, <1>1, <2>1 DEF BackfillTypeOK
    <2>4. BackfillTypeOK'
      BY <1>0, <1>2, <1>5, <1>6, <1>7, <2>1, <2>2, <2>3 DEF BackfillTypeOK
    <2>5. CASE r = "first"
      <3>1. plan # "expand" /\ counts.afterKill = Null
        BY <1>0, <1>11, <2>5 DEF TakesTurns, Exited
      <3>2. Later' = Later /\ Later = {} /\ run'["second"] = run["second"] /\ run["second"] = "off"
        BY <1>0, <2>1, <2>2, <2>3, <2>5, <3>1 DEF Later, LaterRows, TakesTurns, Runs
      <3>3. TakesTurns'
        BY <1>0, <1>2, <3>1, <3>2 DEF TakesTurns
      <3>4. LaterRows'
        BY <1>0, <1>2, <1>8, <2>1, <2>3, <2>5, <3>1, <3>2 DEF LaterRows, Runs, Later
      <3>5. Overlaps'
        BY <2>2, <2>5, <3>2 DEF Overlaps, InFlight
      <3> QED
        BY <1>4, <2>4, <3>3, <3>4, <3>5 DEF BackfillInv
    <2>6. CASE r = "second"
      <3>1. counts.afterKill # Null /\ run'["first"] = run["first"] /\ run'["second"] # "finished" /\ run'["second"] # "off"
        BY <1>0, <1>11, <2>2, <2>6 DEF TakesTurns, Runs
      <3>2. Later' = Later \cup B
        BY <2>1, <2>3, <2>6 DEF Later
      <3>3. TakesTurns'
        BY <1>0, <1>2, <1>11, <2>6, <3>1 DEF TakesTurns, Exited
      <3>4. plan # "expand" => B \cap Backfilled \subseteq orphaned /\ B \cap ids2 = {}
        BY <1>0, <1>2, <2>6 DEF Overlaps
      <3>5. plan # "expand" => total'["second"].rows = Cardinality(total'["second"].ids)
        <4>1. IsFiniteSet(B) /\ IsFiniteSet(ids2) /\ ids2 \in SUBSET Ids
          BY <1>0, <1>1, RowsAreFinite DEF BackfillTypeOK, Runs
        <4>2. plan # "expand" => Cardinality(ids2 \cup B) = Cardinality(ids2) + Cardinality(B)
          <5> SUFFICES ASSUME plan # "expand" PROVE Cardinality(ids2 \cup B) = Cardinality(ids2) + Cardinality(B)
            OBVIOUS
          <5>1. ids2 \cap B = {}
            BY <3>4
          <5>2. Cardinality(ids2 \cap B) = 0 /\ Cardinality(ids2) \in Nat /\ Cardinality(B) \in Nat
            BY <5>1, <4>1, <1>1, FS_EmptySet, RowsAreFinite
          <5> HIDE DEF B, ids2
          <5>3. Cardinality(ids2 \cup B) = Cardinality(ids2) + Cardinality(B) - Cardinality(ids2 \cap B)
            BY <4>1, FS_Union
          <5> QED
            BY <5>2, <5>3
        <4> QED
          BY <1>0, <1>1, <2>3, <2>6, <4>2 DEF LaterRows
      <3>6. plan # "expand" => Backfilled' \ Later' = Backfilled \ Later
        BY <1>8, <3>2, <3>4 DEF Later
      <3>7. plan # "expand" => Cardinality(Backfilled' \ Later') = counts.afterKill
        BY <1>0, <3>1, <3>6 DEF LaterRows
      <3>8. LaterRows'
        BY <1>0, <1>2, <1>8, <2>1, <3>1, <3>2, <3>5, <3>7 DEF LaterRows
      <3>9. Overlaps'
        <4>1. ~InFlight("second")' /\ (InFlight("first")' => InFlight("first"))
          BY <2>2, <2>6, <3>1 DEF InFlight
        <4>2. batch'["first"] = batch["first"]
          BY <1>7, <2>6 DEF Runs
        <4> QED
          BY <1>0, <1>2, <1>8, <2>3, <2>6, <4>1, <4>2 DEF Overlaps
      <3> QED
        BY <1>4, <2>4, <3>3, <3>8, <3>9 DEF BackfillInv
    <2> QED
      BY <2>5, <2>6 DEF Runs
  <1> QED
    BY <1>2, <1>10, <1>11

\* Every step of the runs, the script and the writers keeps the invariant.
LEMMA BackfillStepInv == BackfillInv /\ [BackfillNext]_backfillVars => BackfillInv'
  <1> SUFFICES ASSUME BackfillInv, [BackfillNext]_backfillVars PROVE BackfillInv'
    OBVIOUS
  <1>0. BackfillTypeOK /\ BackfilledIsCurrent /\ TakesTurns /\ LaterRows /\ Overlaps
    BY DEF BackfillInv
  <1> DEFINE SameRows == UNCHANGED <<plan, row>>
             Accounts == UNCHANGED <<total, orphaned>>
  <1>a. ASSUME SameRows PROVE Backfilled' = Backfilled /\ PendingRows' = PendingRows /\ BackfilledIsCurrent'
    BY <1>0, <1>a DEF Backfilled, PendingRows, Exists, BackfilledIsCurrent
  <1>b. ASSUME Accounts PROVE Later' = Later
    BY <1>b DEF Later
  <1>c. ASSUME SameRows, UNCHANGED <<batch, run, total, counts, orphaned>>, BackfillTypeOK' PROVE BackfillInv'
    BY <1>0, <1>a, <1>b, <1>c DEF BackfillInv, TakesTurns, LaterRows, Overlaps, Exited, InFlight
  <1>1. ASSUME NEW r \in Runs, PickBatch(r) PROVE BackfillInv'
    <2>1. SameRows /\ Accounts /\ UNCHANGED <<owner, counts>>
      BY <1>1 DEF PickBatch
    <2>2. run[r] = "picking" /\ ~InFlight(r)
      BY <1>1 DEF PickBatch, InFlight
    <2>3. Chosen(r) \subseteq PendingRows /\ (Chosen(r) = {} => PendingRows = {}) /\ PendingRows \subseteq Ids
      BY ChosenRows DEF PendingRows
    <2>4. /\ \A q \in Runs : q # r => run'[q] = run[q] /\ batch'[q] = batch[q]
          /\ run'[r] = IF Chosen(r) = {} THEN "finished" ELSE "updating"
          /\ Chosen(r) # {} => batch'[r].ids = Chosen(r)
      BY <1>0, <1>1 DEF PickBatch, BackfillTypeOK
    <2>5. BackfillTypeOK'
      <3>1. run' \in [Runs -> RunStates]
        BY <1>0, <1>1 DEF PickBatch, BackfillTypeOK, RunStates
      <3>2. run'["second"] # "orphan"
        BY <1>0, <2>4 DEF BackfillTypeOK, Runs
      <3>3. batch' \in [Runs -> [ids : SUBSET Ids, locked : SUBSET Ids]]
        BY <1>0, <1>1, <2>3, SMTT(30) DEF PickBatch, BackfillTypeOK
      <3> QED
        BY <1>0, <2>1, <3>1, <3>2, <3>3 DEF BackfillTypeOK
    <2>6. TakesTurns'
      BY <1>0, <2>1, <2>2, <2>4 DEF TakesTurns, Exited, Runs
    <2>7. LaterRows'
      BY <1>0, <1>a, <1>b, <2>1, <2>2, <2>3, <2>4 DEF LaterRows, Runs
    <2>8. Overlaps'
      <3>1. PendingRows \cap Backfilled = {}
        BY DEF PendingRows, Backfilled
      <3>2. plan # "expand" => total["second"].ids \subseteq Backfilled
        BY <1>0 DEF LaterRows, Later
      <3>3. InFlight(r)' => Chosen(r) # {} /\ batch'[r].ids \cap Backfilled = {}
                                        /\ (plan # "expand" => batch'[r].ids \cap total["second"].ids = {})
        BY <2>3, <2>4, <3>1, <3>2 DEF InFlight
      <3>4. \A q \in Runs : q # r => InFlight(q)' = InFlight(q)
        BY <2>4 DEF InFlight
      <3> QED
        BY <1>0, <1>a, <2>1, <2>4, <3>3, <3>4 DEF Overlaps, Runs
    <2> QED
      BY <1>a, <2>1, <2>5, <2>6, <2>7, <2>8 DEF BackfillInv
  <1>2. ASSUME NEW r \in Runs, LockNextRow(r) PROVE BackfillInv'
    <2> DEFINE rest == batch[r].ids \ batch[r].locked
    <2>1. SameRows /\ UNCHANGED <<run, total, counts, orphaned>>
      BY <1>2 DEF LockNextRow
    <2>2. rest \in SUBSET Ids /\ rest # {}
      BY <1>0, <1>2 DEF LockNextRow, BackfillTypeOK
    <2>3. Min(rest) \in Ids
      BY <2>2, FirstRow
    <2>4. /\ owner' = [owner EXCEPT ![Min(rest)] = r]
          /\ batch' = [batch EXCEPT ![r].locked = @ \cup {Min(rest)}]
      BY <1>2 DEF LockNextRow
    <2>5. batch' \in [Runs -> [ids : SUBSET Ids, locked : SUBSET Ids]] /\ \A q \in Runs : batch'[q].ids = batch[q].ids
      <3> HIDE DEF rest
      <3> QED
        BY <1>0, <2>3, <2>4 DEF BackfillTypeOK
    <2>6. BackfillTypeOK'
      <3> HIDE DEF rest
      <3>1. owner' \in [Ids -> Runs \cup {Nobody, "writer"}]
        BY <1>0, <2>3, <2>4 DEF BackfillTypeOK
      <3> QED
        BY <1>0, <2>1, <2>5, <3>1 DEF BackfillTypeOK
    <2> QED
      BY <1>0, <1>a, <1>b, <2>1, <2>5, <2>6
      DEF BackfillInv, TakesTurns, LaterRows, Overlaps, Exited, InFlight, Runs
  <1>3. ASSUME NEW r \in Runs, CommitBatch(r) PROVE BackfillInv'
    BY <1>3, CommitKeepsInv
  <1>4. CASE StartFirst
    <2>1. SameRows /\ Accounts /\ UNCHANGED <<owner, batch>> /\ plan # "expand" /\ run["first"] = "off"
      BY <1>4 DEF StartFirst
    <2>2. readCounts \in Nat
      BY RowsAreFinite DEF readCounts, Backfilled
    <2>3. counts'.afterKill = counts.afterKill /\ counts'.after = counts.after
      BY <1>0, <1>4, <2>2 DEF StartFirst, BackfillTypeOK
    <2>4. run'["first"] = "picking" /\ run'["second"] = run["second"]
      BY <1>0, <1>4 DEF StartFirst, BackfillTypeOK, Runs
    <2>5. BackfillTypeOK'
      BY <1>0, <1>4, <2>1, <2>2 DEF StartFirst, BackfillTypeOK, RunStates, Runs
    <2>6. TakesTurns'
      BY <1>0, <2>1, <2>3, <2>4 DEF TakesTurns, Exited
    <2>7. LaterRows'
      BY <1>0, <1>a, <1>b, <2>1, <2>3, <2>4 DEF LaterRows
    <2>8. Overlaps'
      BY <1>0, <1>a, <2>1, <2>4 DEF Overlaps, InFlight
    <2> QED
      BY <1>a, <2>1, <2>5, <2>6, <2>7, <2>8 DEF BackfillInv
  <1>5. CASE CountAfterKill
    <2>1. SameRows /\ Accounts /\ UNCHANGED <<owner, batch, run>> /\ Exited /\ counts.afterKill = Null
      BY <1>5 DEF CountAfterKill
    <2>2. readCounts \in Nat /\ readCounts = Cardinality(Backfilled)
      BY RowsAreFinite DEF readCounts, Backfilled
    <2>3. counts'.afterKill = readCounts /\ counts'.after = counts.after /\ BackfillTypeOK'
      BY <1>0, <1>5, <2>1, <2>2 DEF CountAfterKill, BackfillTypeOK
    <2>4. Later = {} /\ Backfilled \ Later = Backfilled
      BY <1>0, <2>1 DEF LaterRows
    <2>5. TakesTurns'
      BY <1>0, <2>1, <2>2, <2>3 DEF TakesTurns, Exited, Null
    <2>6. LaterRows'
      BY <1>0, <1>a, <1>b, <2>1, <2>2, <2>3, <2>4 DEF LaterRows
    <2>7. Overlaps'
      BY <1>0, <1>a, <2>1 DEF Overlaps, InFlight
    <2> QED
      BY <1>a, <2>1, <2>3, <2>5, <2>6, <2>7 DEF BackfillInv
  <1>6. CASE Resume
    <2>1. SameRows /\ Accounts /\ UNCHANGED <<owner, batch, counts>> /\ counts.afterKill # Null
      BY <1>6 DEF Resume
    <2>2. run'["first"] = run["first"] /\ run'["second"] = "picking" /\ run["second"] = "off" /\ BackfillTypeOK'
      BY <1>0, <1>6 DEF Resume, BackfillTypeOK, RunStates, Runs
    <2>3. TakesTurns' /\ LaterRows'
      BY <1>0, <1>a, <1>b, <2>1, <2>2 DEF TakesTurns, LaterRows, Exited
    <2>4. Overlaps'
      BY <1>0, <1>a, <2>1, <2>2 DEF Overlaps, InFlight
    <2> QED
      BY <1>a, <2>1, <2>2, <2>3, <2>4 DEF BackfillInv
  <1>7. CASE CountAfter
    <2>1. SameRows /\ Accounts /\ UNCHANGED <<owner, batch, run>> /\ run["second"] = "finished"
      BY <1>7 DEF CountAfter
    <2>2. readCounts \in Nat
      BY RowsAreFinite DEF readCounts, Backfilled
    <2>3. counts'.afterKill = counts.afterKill /\ BackfillTypeOK'
      BY <1>0, <1>7, <2>1, <2>2 DEF CountAfter, BackfillTypeOK
    <2> QED
      BY <1>0, <1>a, <1>b, <2>1, <2>3 DEF BackfillInv, TakesTurns, LaterRows, Overlaps, Exited, InFlight
  <1>8. CASE Expand
    <2>1. plan = "expand" /\ plan' = plan /\ Accounts /\ UNCHANGED <<owner, batch>> /\ run["second"] = "off"
      BY <1>8 DEF Expand
    <2>2. readCounts + 1 \in Nat
      BY RowsAreFinite DEF readCounts, Backfilled
    <2>3. counts'.afterKill # Null /\ counts'.after = counts.after
      BY <1>0, <1>8, <2>2 DEF Expand, BackfillTypeOK, Null
    <2>4. run'["first"] = run["first"] /\ run'["second"] = "picking"
      BY <1>0, <1>8 DEF Expand, BackfillTypeOK, Runs
    <2>5. BackfillTypeOK' /\ BackfilledIsCurrent'
      <3>1. \A i \in Ids : row'[i] = IF i = NewRow THEN [src |-> 0, dst |-> 0] ELSE row[i]
        BY <1>0, <1>8 DEF Expand, BackfillTypeOK
      <3>2. row' \in [Ids -> [src : Nat \cup {Null}, dst : Nat \cup {Null}]]
        BY <1>0, <1>8 DEF Expand, BackfillTypeOK
      <3>3. BackfilledIsCurrent'
        BY <1>0, <3>1 DEF BackfilledIsCurrent, Backfilled, Exists
      <3>4. run' \in [Runs -> RunStates] /\ run'["second"] # "orphan"
        BY <1>0, <1>8, <2>4 DEF Expand, BackfillTypeOK, RunStates
      <3>5. counts' \in [before : Nat \cup {Null}, afterKill : Nat \cup {Null}, after : Nat \cup {Null}]
        BY <1>0, <1>8, <2>2 DEF Expand, BackfillTypeOK
      <3> QED
        BY <1>0, <2>1, <3>2, <3>3, <3>4, <3>5 DEF BackfillTypeOK
    <2>6. TakesTurns' /\ LaterRows' /\ Overlaps'
      BY <1>0, <1>b, <2>1, <2>3, <2>4 DEF TakesTurns, LaterRows, Overlaps, Exited
    <2> QED
      BY <2>5, <2>6 DEF BackfillInv
  <1>9. CASE Kill
    <2>1. SameRows /\ Accounts /\ UNCHANGED <<owner, batch, counts>> /\ run["first"] \in {"picking", "updating"}
      BY <1>9 DEF Kill
    <2>2. /\ run'["second"] = run["second"] /\ BackfillTypeOK'
          /\ run'["first"] = IF run["first"] = "updating" THEN "orphan" ELSE "stopped"
      BY <1>0, <1>9 DEF Kill, BackfillTypeOK, RunStates, Runs
    <2>3. TakesTurns' /\ LaterRows'
      BY <1>0, <1>a, <1>b, <2>1, <2>2 DEF TakesTurns, LaterRows, Exited
    <2>4. Overlaps'
      BY <1>0, <1>a, <2>1, <2>2 DEF Overlaps, InFlight
    <2> QED
      BY <1>a, <2>1, <2>2, <2>3, <2>4 DEF BackfillInv
  <1>10. ASSUME NEW i \in Ids, StartWrite(i) PROVE BackfillInv'
    <2>1. BackfillTypeOK'
      BY <1>0, <1>10 DEF StartWrite, BackfillTypeOK
    <2> QED
      BY <1>10, <1>c, <2>1 DEF StartWrite
  <1>11. ASSUME NEW i \in Ids, CommitWrite(i) PROVE BackfillInv'
    <2>1. owner' \in [Ids -> Runs \cup {Nobody, "writer"}]
      BY <1>0, <1>11 DEF CommitWrite, BackfillTypeOK
    <2>2. CASE plan # "expand"
      <3>1. BackfillTypeOK' /\ SameRows
        BY <1>0, <1>11, <2>1, <2>2 DEF CommitWrite, BackfillTypeOK
      <3> QED
        BY <1>11, <1>c, <3>1 DEF CommitWrite
    <2>3. CASE plan = "expand"
      <3>1. UNCHANGED <<plan, batch, run, total, counts, orphaned>>
        BY <1>11 DEF CommitWrite
      <3>2. row' = [row EXCEPT ![i] = DualWrite(row[i])] /\ DualWrite(row[i]) \in [src : Nat \cup {Null}, dst : Nat \cup {Null}]
        BY <1>0, <1>11, <2>3 DEF CommitWrite, BackfillTypeOK, DualWrite, Null
      <3>3. DualWrite(row[i]).src = DualWrite(row[i]).dst
        BY DEF DualWrite
      <3>4. BackfillTypeOK' /\ BackfilledIsCurrent'
        <4>1. \A j \in Ids : row'[j] = IF j = i THEN DualWrite(row[i]) ELSE row[j]
          BY <1>0, <3>2 DEF BackfillTypeOK
        <4>2. BackfilledIsCurrent'
          BY <1>0, <3>3, <4>1 DEF BackfilledIsCurrent, Backfilled, Exists
        <4> QED
          BY <1>0, <2>1, <3>1, <3>2, <4>2 DEF BackfillTypeOK
      <3> QED
        BY <1>0, <1>b, <2>3, <3>1, <3>4 DEF BackfillInv, TakesTurns, LaterRows, Overlaps, Exited
    <2> QED
      BY <2>2, <2>3
  <1>12. CASE UNCHANGED backfillVars
    <2>1. BackfillTypeOK'
      BY <1>0, <1>12 DEF backfillVars, BackfillTypeOK
    <2> QED
      BY <1>12, <1>c, <2>1 DEF backfillVars
  <1> QED
    BY <1>1, <1>2, <1>3, <1>4, <1>5, <1>6, <1>7, <1>8, <1>9, <1>10, <1>11, <1>12
    DEF BackfillNext, RunStep, ScriptMoves

\* An UPDATE that commits backfills its rows, whatever they were.
LEMMA CommittedRows ==
  ASSUME BackfillInv, NEW r \in Runs, CommitBatch(r), plan # "expand"
  PROVE  Backfilled' = Backfilled \cup batch[r].ids
  <1>1. BackfillTypeOK /\ \A i \in Ids : row[i].src = 0
    BY DEF BackfillInv, LaterRows
  <1>2. batch[r].ids \in SUBSET Ids
    BY <1>1 DEF BackfillTypeOK
  <1>3. \A i \in Ids : /\ row'[i].src = 0
                       /\ row'[i].dst = IF i \in batch[r].ids THEN 0 ELSE row[i].dst
    <2> TAKE i \in Ids
    <2>1. row[i] \in [src : Nat \cup {Null}, dst : Nat \cup {Null}]
      BY <1>1 DEF BackfillTypeOK
    <2>2. row'[i] = IF i \in batch[r].ids THEN [row[i] EXCEPT !.dst = row[i].src] ELSE row[i]
      BY DEF CommitBatch, Written, NewDst
    <2> QED
      BY <1>1, <2>1, <2>2
  <1> QED
    BY <1>1, <1>2, <1>3 DEF Backfilled, Exists, Null

\* No step writes a row again that the first run was told of.
LEMMA AnsweredStep ==
  BackfillInv /\ AnsweredRows /\ [BackfillNext]_backfillVars => AnsweredRows'
  <1> SUFFICES ASSUME BackfillInv, AnsweredRows, [BackfillNext]_backfillVars PROVE AnsweredRows'
    OBVIOUS
  <1> DEFINE ids1 == total["first"].ids
             Same == /\ total' = total /\ orphaned' = orphaned
                     /\ plan # "expand" => Backfilled' = Backfilled
  <1>0. BackfillTypeOK /\ TakesTurns /\ LaterRows /\ Overlaps
    BY DEF BackfillInv
  <1>a. plan' = plan
    BY DEF BackfillNext, RunStep, ScriptMoves, PickBatch, LockNextRow, CommitBatch, StartFirst, CountAfterKill,
           Resume, CountAfter, Expand, Kill, StartWrite, CommitWrite, backfillVars
  <1> SUFFICES ASSUME plan # "expand"
               PROVE  /\ ids1' \subseteq Backfilled'
                      /\ ids1' \cap Later' = {}
                      /\ InFlight("first")' => batch'["first"].ids \cap ids1' = {}
    BY <1>a DEF AnsweredRows
  <1> DEFINE Goal == /\ ids1' \subseteq Backfilled'
                     /\ ids1' \cap Later' = {}
                     /\ InFlight("first")' => batch'["first"].ids \cap ids1' = {}
  <1>b. /\ ids1 \subseteq Backfilled
        /\ ids1 \cap total["second"].ids = {} /\ ids1 \cap orphaned = {}
        /\ InFlight("first") => batch["first"].ids \cap ids1 = {}
    BY DEF AnsweredRows, Later
  <1>c. ASSUME Same, InFlight("first")' => InFlight("first") /\ batch'["first"].ids = batch["first"].ids PROVE Goal
    BY <1>b, <1>c DEF Later
  <1>1. ASSUME NEW r \in Runs, PickBatch(r) PROVE Goal
    <2>1. Same
      BY <1>1 DEF PickBatch, Backfilled, Exists
    <2>2. CASE r = "second"
      BY <1>0, <1>1, <1>c, <2>1, <2>2 DEF PickBatch, BackfillTypeOK, InFlight, Runs
    <2>3. CASE r = "first"
      <3>1. InFlight("first")' => batch'["first"].ids = Chosen("first")
        BY <1>0, <1>1, <2>3 DEF PickBatch, BackfillTypeOK, InFlight, Runs
      <3>2. Chosen("first") \cap ids1 = {}
        BY <1>b, ChosenRows DEF Runs, PendingRows, Backfilled
      <3> QED
        BY <1>b, <2>1, <3>1, <3>2 DEF Later
    <2> QED
      BY <2>2, <2>3 DEF Runs
  <1>2. ASSUME NEW r \in Runs, LockNextRow(r) PROVE Goal
    <2>1. Same /\ run' = run
      BY <1>2 DEF LockNextRow, Backfilled, Exists
    <2>2. batch'["first"].ids = batch["first"].ids
      BY <1>0, <1>2 DEF LockNextRow, BackfillTypeOK, Runs
    <2> QED
      BY <1>c, <2>1, <2>2 DEF InFlight
  <1>3. ASSUME NEW r \in Runs, CommitBatch(r) PROVE Goal
    <2> DEFINE B == batch[r].ids
    <2>1. Backfilled' = Backfilled \cup B
      BY <1>3, CommittedRows
    <2>2. InFlight(r)
      BY <1>3 DEF CommitBatch
    <2>3. CASE r = "second"
      <3>1. run[r] = "updating"
        BY <1>0, <2>2, <2>3 DEF InFlight, BackfillTypeOK
      <3>2. /\ total' = [total EXCEPT ![r] = [batches |-> total[r].batches + 1, rows |-> total[r].rows + RowCount(r),
                                             ids |-> total[r].ids \cup B]]
            /\ orphaned' = orphaned
            /\ run' = [run EXCEPT ![r] = IF Stops(r) THEN "stopped" ELSE "picking"]
            /\ batch' = [batch EXCEPT ![r] = NoBatch]
        BY <1>3, <3>1 DEF CommitBatch
      <3>3. /\ ids1' = ids1 /\ total'["second"].ids = total["second"].ids \cup B
            /\ run'["first"] = run["first"] /\ batch'["first"] = batch["first"]
        BY <1>0, <2>3, <3>2 DEF BackfillTypeOK, Runs
      <3>4. B \cap ids1 = {}
        BY <1>0, <1>b, <2>2, <2>3 DEF Overlaps
      <3> QED
        BY <1>b, <2>1, <3>2, <3>3, <3>4 DEF Later, InFlight
    <2>4. CASE r = "first" /\ run[r] = "orphan"
      <3>1. /\ total' = total /\ run' = [run EXCEPT ![r] = "stopped"]
            /\ orphaned' = IF counts.afterKill = Null THEN orphaned ELSE B
        BY <1>3, <2>4 DEF CommitBatch
      <3>2. ~InFlight("first")'
        BY <1>0, <2>4, <3>1 DEF InFlight, BackfillTypeOK, Runs
      <3> QED
        BY <1>b, <2>1, <2>2, <2>4, <3>1, <3>2 DEF Later
    <2>5. CASE r = "first" /\ run[r] = "updating"
      <3>1. /\ total' = [total EXCEPT ![r] = [batches |-> total[r].batches + 1, rows |-> total[r].rows + RowCount(r),
                                             ids |-> total[r].ids \cup B]]
            /\ orphaned' = orphaned
            /\ run' = [run EXCEPT ![r] = IF Stops(r) THEN "stopped" ELSE "picking"]
        BY <1>3, <2>5 DEF CommitBatch
      <3>2. ids1' = ids1 \cup B /\ total'["second"] = total["second"] /\ ~InFlight("first")'
        BY <1>0, <2>5, <3>1 DEF InFlight, BackfillTypeOK, Runs
      <3>3. Later = {}
        BY <1>0, <2>5 DEF TakesTurns, Exited, LaterRows
      <3> QED
        BY <1>b, <2>1, <3>1, <3>2, <3>3 DEF Later
    <2> QED
      BY <2>2, <2>3, <2>4, <2>5 DEF Runs, InFlight
  <1>4. CASE Kill
    BY <1>0, <1>4, <1>c DEF Kill, InFlight, BackfillTypeOK, Runs, Backfilled, Exists
  <1>5. CASE StartFirst
    BY <1>0, <1>5, <1>c DEF StartFirst, InFlight, BackfillTypeOK, Runs, Backfilled, Exists
  <1>6. CASE CountAfterKill
    BY <1>6, <1>c DEF CountAfterKill, InFlight, Backfilled, Exists
  <1>7. CASE Resume
    BY <1>0, <1>7, <1>c DEF Resume, InFlight, BackfillTypeOK, Runs, Backfilled, Exists
  <1>8. CASE CountAfter
    BY <1>8, <1>c DEF CountAfter, InFlight, Backfilled, Exists
  <1>9. CASE Expand
    BY <1>9 DEF Expand
  <1>10. ASSUME NEW i \in Ids, StartWrite(i) \/ CommitWrite(i) PROVE Goal
    BY <1>10, <1>c DEF StartWrite, CommitWrite, InFlight, Backfilled, Exists
  <1>11. CASE UNCHANGED backfillVars
    BY <1>11, <1>c DEF backfillVars, InFlight, Backfilled, Exists
  <1> QED
    BY <1>1, <1>2, <1>3, <1>4, <1>5, <1>6, <1>7, <1>8, <1>9, <1>10, <1>11 DEF BackfillNext, RunStep, ScriptMoves

\* The invariant has what the counts of the scripts are about.
LEMMA BackfillInvIsSafe == BackfillInv /\ AnsweredRows => BackfillSafe
  <1> SUFFICES ASSUME BackfillInv, AnsweredRows PROVE BackfillAccounts
    BY DEF BackfillInv, BackfillSafe
  <1>0. BackfillTypeOK /\ TakesTurns /\ LaterRows
    BY DEF BackfillInv
  <1> SUFFICES ASSUME counts.after # Null, plan # "expand"
               PROVE  /\ PendingRows = {}
                      /\ total["first"].ids \cap total["second"].ids = {}
                      /\ (counts.afterKill - counts.before) + total["second"].rows
                          + Cardinality(orphaned \ total["second"].ids) = Cardinality(Ids) - counts.before
    BY DEF BackfillAccounts
  <1> DEFINE S == total["second"].ids
             L == S \cup orphaned
             D == orphaned \ S
  <1>1. run["second"] = "finished" /\ counts.afterKill # Null
    BY <1>0 DEF TakesTurns
  <1>2. PendingRows = {} /\ Backfilled = Ids
    <2>1. PendingRows = {}
      BY <1>0, <1>1 DEF LaterRows
    <2> QED
      BY <1>0, <2>1 DEF LaterRows, PendingRows, Backfilled, Exists, Null
  <1>3. Cardinality(Ids \ L) = counts.afterKill /\ total["second"].rows = Cardinality(S)
    BY <1>0, <1>1, <1>2 DEF LaterRows, Later
  <1>4. S \in SUBSET Ids /\ orphaned \in SUBSET Ids /\ counts.before \in Int
    BY <1>0 DEF BackfillTypeOK, Runs, Null
  <1>5. /\ IsFiniteSet(Ids) /\ IsFiniteSet(S) /\ IsFiniteSet(D) /\ D \in SUBSET Ids
        /\ Cardinality(Ids) \in Nat /\ Cardinality(S) \in Nat /\ Cardinality(D) \in Nat
        /\ Cardinality(Ids \ L) \in Nat /\ Cardinality(L) \in Nat
    BY <1>4, RowsAreFinite
  <1>6. Cardinality(L) = Cardinality(S) + Cardinality(D)
    <2>1. L = S \cup D /\ S \cap D = {}
      OBVIOUS
    <2>2. Cardinality(S \cap D) = 0
      BY <2>1, FS_EmptySet
    <2>3. Cardinality(S \cup D) = Cardinality(S) + Cardinality(D) - Cardinality(S \cap D)
      BY <1>5, FS_Union
    <2> HIDE DEF L, S, D
    <2> QED
      BY <1>5, <2>1, <2>2, <2>3
  <1>7. Cardinality(Ids \ L) = Cardinality(Ids) - Cardinality(L)
    <2>1. Ids \cap L = L
      BY <1>4
    <2>2. Cardinality(Ids \ L) = Cardinality(Ids) - Cardinality(Ids \cap L)
      BY <1>5, FS_Difference
    <2> HIDE DEF L
    <2> QED
      BY <2>1, <2>2
  <1>8. total["first"].ids \cap S = {}
    BY DEF AnsweredRows, Later
  <1> HIDE DEF L, D
  <1> QED
    BY <1>2, <1>3, <1>4, <1>5, <1>6, <1>7, <1>8 DEF D

\* BackfillSafe of the runs: whatever the batch sizes, the number of rows, the
\* moment the first run is killed, the UPDATE it leaves behind and the renames
\* that go on, a backfilled value is current, no row of a batch the first run was
\* answered is processed again, and the counts of the interrupted run add up but
\* for what the orphaned UPDATE commits after the second one.
THEOREM BackfillsAreAccounted == BackfillSpec => []BackfillSafe
  <1>1. BackfillInit => BackfillInv /\ AnsweredRows
    BY BackfillInitInv DEF BackfillInit, AnsweredRows, Runs, Later, InFlight
  <1>2. BackfillInv /\ AnsweredRows /\ [BackfillNext]_backfillVars => BackfillInv' /\ AnsweredRows'
    BY BackfillStepInv, AnsweredStep
  <1>3. BackfillInv /\ AnsweredRows => BackfillSafe
    BY BackfillInvIsSafe
  <1> QED
    BY <1>1, <1>2, <1>3, PTL DEF BackfillSpec

-----------------------------------------------------------------------------
(* Replication. *)

NodesTypeOK ==
    /\ wal \in [Nodes -> Seq(Int)]
    /\ replayed \in [Nodes -> Nat] /\ \A n \in Nodes : replayed[n] <= Len(wal[n])
    /\ inRecovery \in [Nodes -> BOOLEAN]
    /\ up \in SUBSET Nodes
    /\ link \in [Standbys -> {"none", "catchup", "streaming"}]
ScriptTypeOK ==
    /\ scenario \in DOMAIN Scenarios
    /\ slow \in SUBSET Nodes
    /\ at \in Nat \ {0}
    /\ acked \in SUBSET Int
    /\ returned \in BOOLEAN

\* Only R1 is ever promoted; who takes writes has replayed what it has, and
\* streams from nobody.
NodeRoles ==
    /\ ~inRecovery["P"] /\ inRecovery["R2"]
    /\ \A n \in Nodes : ~inRecovery[n] => replayed[n] = Len(wal[n])
    /\ \A s \in Standbys : link[s] # "none" => inRecovery[s]

\* What the calls before the one at at, which were all made, have shown.
CallsMade ==
    at < CleanupAt =>
        /\ StoppedBefore(scenario, "P", at) => "P" \notin up
        /\ \A w \in 1..(at - 1) : IsCall(Calls[w], "wait_row", "R1") => Calls[w].x \in RowsOf("R1")
        /\ inRecovery["R1"] => \A x \in acked :
              \E i \in 1..(at - 1) : /\ IsCall(Calls[i], "put", "P") /\ Calls[i].x = x
                                     /\ ~StoppedBefore(scenario, "P", i)

\* The promoted node has it all, as long as it is alone.
Promotion ==
    ~returned /\ ~inRecovery["R1"] => "P" \notin up /\ acked \subseteq RowsOf("R1")

\* A delay that is still set was set by the script, which will take it back.
DelaysSet ==
    /\ at < BodyAt(scenario) => slow = {}
    /\ \A n \in slow : \E k \in DOMAIN Calls : SetsDelay(Calls[k], n, TRUE)
    /\ at >= CleanupAt /\ fate # "delay" =>
          \A n \in slow : \E m \in DOMAIN Calls : m >= at /\ SetsDelay(Calls[m], n, FALSE)

ReplicationInv ==
    /\ NodesTypeOK /\ ScriptTypeOK /\ NodeRoles /\ StandbyIsPrefix
    /\ CallsMade /\ Promotion /\ DelaysSet

\* A prefix agrees with the whole at every place it has.
LEMMA PrefixByPlace ==
  ASSUME NEW s \in Seq(Int), NEW t \in Seq(Int)
  PROVE  IsPrefix(s, t) <=> Len(s) <= Len(t) /\ \A i \in 1..Len(s) : s[i] = t[i]
  <1>1. Len(s) \in Nat /\ Len(t) \in Nat
    OBVIOUS
  <1>2. SubSeq(s, 1, Len(s)) = s
    OBVIOUS
  <1>3. ASSUME Len(s) <= Len(t)
        PROVE  SubSeq(t, 1, Len(s)) = [i \in 1..Len(s) |-> t[i]]
    BY <1>1, <1>3
  <1>4. s = [i \in 1..Len(s) |-> s[i]]
    OBVIOUS
  <1> QED
    BY <1>1, <1>2, <1>3, <1>4 DEF IsPrefix

\* A prefix of a prefix is a prefix.
LEMMA PrefixOfPrefix ==
  ASSUME NEW s \in Seq(Int), NEW t \in Seq(Int), NEW u \in Seq(Int), IsPrefix(s, t), IsPrefix(t, u)
  PROVE  IsPrefix(s, u)
  <1>1. Len(s) \in Nat /\ Len(t) \in Nat /\ Len(u) \in Nat
    OBVIOUS
  <1>2. /\ Len(s) <= Len(t) /\ \A i \in 1..Len(s) : s[i] = t[i]
        /\ Len(t) <= Len(u) /\ \A i \in 1..Len(t) : t[i] = u[i]
    BY PrefixByPlace
  <1>3. ASSUME NEW i \in 1..Len(s) PROVE s[i] = u[i]
    <2>1. i \in 1..Len(t)
      BY <1>1, <1>2
    <2> QED
      BY <1>2, <2>1
  <1>4. Len(s) <= Len(u)
    BY <1>1, <1>2
  <1> QED
    BY <1>3, <1>4, PrefixByPlace

\* A longer WAL replayed further shows every row it showed before.
LEMMA RowsGrow ==
  ASSUME NEW s \in Seq(Int), NEW t \in Seq(Int), IsPrefix(s, t),
         NEW k \in Nat, NEW m \in Nat, k <= m, k <= Len(s)
  PROVE  {s[i] : i \in 1..k} \subseteq {t[i] : i \in 1..m}
  <1>1. Len(s) \in Nat /\ \A i \in 1..Len(s) : s[i] = t[i]
    BY PrefixByPlace
  <1>2. \A i \in 1..k : i \in 1..m /\ s[i] = t[i]
    BY <1>1
  <1> QED
    BY <1>2

\* A script is a sequence of calls; its finally comes after prelude and body.
LEMMA ScriptsAreCalls ==
  ASSUME NEW s \in DOMAIN Scenarios
  PROVE  /\ CallsOf(s) \in Seq(CallRecords) /\ Len(CallsOf(s)) \in Nat
         /\ DOMAIN CallsOf(s) = 1..Len(CallsOf(s))
         /\ BodyAt(s) \in Nat \ {0} /\ CleanupOf(s) \in Nat
         /\ BodyAt(s) <= CleanupOf(s) /\ CleanupOf(s) <= Len(CallsOf(s)) + 1
  <1> DEFINE p == Scenarios[s].prelude
             b == Scenarios[s].body
             c == Scenarios[s].cleanup
  <1>1. p \in Seq(CallRecords) /\ b \in Seq(CallRecords) /\ c \in Seq(CallRecords)
    BY CarefulScripts DEF CarefulScripts
  <1>2. CallsOf(s) = p \o b \o c
    BY DEF CallsOf
  <1>3. BodyAt(s) = Len(p) + 1 /\ CleanupOf(s) = Len(p) + 1 + Len(b)
    BY DEF BodyAt, CleanupOf
  <1> HIDE DEF p, b, c
  <1>4. Len(p) \in Nat /\ Len(b) \in Nat /\ Len(c) \in Nat
    BY <1>1
  <1>5. p \o b \in Seq(CallRecords) /\ Len(p \o b) = Len(p) + Len(b)
    BY <1>1
  <1>6. CallsOf(s) \in Seq(CallRecords) /\ Len(CallsOf(s)) = Len(p) + Len(b) + Len(c)
    BY <1>1, <1>2, <1>4, <1>5
  <1> QED
    BY <1>3, <1>4, <1>6

\* The call at hand.
LEMMA CallAtHand ==
  ASSUME ScriptTypeOK, Active
  PROVE  /\ Cur \in CallRecords /\ Cur.n \in Nodes /\ Cur.x \in Int /\ at \in DOMAIN Calls
         /\ DOMAIN Calls = 1..Len(Calls) /\ Len(Calls) \in Nat
         /\ BodyAt(scenario) \in Nat \ {0} /\ CleanupAt \in Nat
         /\ BodyAt(scenario) <= CleanupAt /\ CleanupAt <= Len(Calls) + 1
         /\ Calls = CallsOf(scenario) /\ CleanupAt = CleanupOf(scenario) /\ Cur = Calls[at]
  <1>1. /\ Calls \in Seq(CallRecords) /\ Len(Calls) \in Nat /\ DOMAIN Calls = 1..Len(Calls)
        /\ BodyAt(scenario) \in Nat \ {0} /\ CleanupAt \in Nat
        /\ BodyAt(scenario) <= CleanupAt /\ CleanupAt <= Len(Calls) + 1
    BY ScriptsAreCalls DEF ScriptTypeOK, Calls, CleanupAt
  <1>2. at \in 1..Len(Calls)
    BY <1>1 DEF ScriptTypeOK, Active
  <1>3. Cur \in CallRecords
    BY <1>1, <1>2 DEF Cur
  <1>4. Cur.n \in Nodes /\ Cur.x \in Int
    BY <1>3 DEF CallRecords
  <1> QED
    BY <1>1, <1>2, <1>3, <1>4 DEF Calls, CleanupAt, Cur

\* Every scenario starts with empty servers and no delay set.
LEMMA ReplicationInitInv == ReplicationInit => ReplicationInv
  <1> SUFFICES ASSUME ReplicationInit PROVE ReplicationInv
    OBVIOUS
  <1>a. ASSUME NEW e \in Seq(Int) PROVE IsPrefix(e, e)
    BY PrefixByPlace
  <1>b. ScriptTypeOK
    <2>1. scenario \in DOMAIN Scenarios /\ returned \in BOOLEAN
      BY Zenon DEF ReplicationInit
    <2>2. slow \in SUBSET Nodes /\ acked \in SUBSET Int /\ at \in Nat \ {0}
      BY DEF ReplicationInit
    <2> QED
      BY <2>1, <2>2 DEF ScriptTypeOK
  <1> USE DEF ReplicationInit
  <1>1. scenario \in DOMAIN Scenarios /\ up \in SUBSET Nodes
    BY CarefulScripts DEF CarefulScripts
  <1>2. \A n \in Nodes : wal[n] = <<>> /\ replayed[n] = 0 /\ Len(wal[n]) = 0
    OBVIOUS
  <1>3. NodesTypeOK
    <2>1. wal \in [Nodes -> Seq(Int)]
      OBVIOUS
    <2>2. replayed \in [Nodes -> Nat] /\ inRecovery \in [Nodes -> BOOLEAN]
      OBVIOUS
    <2>3. link \in [Standbys -> {"none", "catchup", "streaming"}]
      OBVIOUS
    <2> QED
      BY <1>1, <1>2, <2>1, <2>2, <2>3 DEF NodesTypeOK
  <1>4. NodeRoles
    BY <1>2 DEF NodeRoles, Nodes, Standbys
  <1>5. StandbyIsPrefix
    <2>1. \A s \in Standbys : s \in Nodes /\ Upstream[s] \in Nodes
      BY DEF Standbys, Nodes, Upstream
    <2>2. \A s \in Standbys : wal[s] \in Seq(Int) /\ wal[Upstream[s]] = wal[s]
      BY <1>2, <2>1
    <2> QED
      BY <1>a, <2>2 DEF StandbyIsPrefix
  <1>6. CallsMade
    BY DEF CallsMade, StoppedBefore
  <1>7. Promotion
    BY DEF Promotion, Nodes
  <1>8. DelaysSet
    <2>1. BodyAt(scenario) <= CleanupAt /\ CleanupAt \in Nat /\ BodyAt(scenario) \in Nat
      BY <1>1, ScriptsAreCalls DEF CleanupAt
    <2> QED
      BY <2>1 DEF DelaysSet
  <1> QED
    BY <1>3, <1>b, <1>4, <1>5, <1>6, <1>7, <1>8 DEF ReplicationInv

\* A node's WAL that becomes longer shows what it showed.
LEMMA NodeGrows ==
  ASSUME NodesTypeOK, NodesTypeOK', NEW n \in Nodes, IsPrefix(wal[n], wal'[n]), replayed[n] <= replayed'[n]
  PROVE  RowsOf(n) \subseteq RowsOf(n)'
  <1>1. /\ wal[n] \in Seq(Int) /\ wal'[n] \in Seq(Int) /\ replayed[n] \in Nat /\ replayed'[n] \in Nat
        /\ replayed[n] <= Len(wal[n])
    BY DEF NodesTypeOK
  <1>2. {wal[n][i] : i \in 1..replayed[n]} \subseteq {wal'[n][i] : i \in 1..replayed'[n]}
    BY <1>1, RowsGrow
  <1> QED
    BY <1>2 DEF RowsOf

\* What the servers do by themselves takes no row away, and nothing from the script.
LEMMA ServersKeepScript ==
  ASSUME ReplicationInv, UNCHANGED <<scenario, at, fate, slow, acked, returned, inRecovery, up>>,
         RowsOf("R1") \subseteq RowsOf("R1")'
  PROVE  ScriptTypeOK' /\ CallsMade' /\ Promotion' /\ DelaysSet'
  <1>0. ScriptTypeOK /\ CallsMade /\ Promotion /\ DelaysSet
    BY DEF ReplicationInv
  <1>1. ScriptTypeOK'
    BY <1>0 DEF ScriptTypeOK
  <1>2. Calls' = Calls /\ CleanupAt' = CleanupAt
    BY DEF Calls, CleanupAt
  <1>3. CallsMade'
    BY <1>0, <1>2 DEF CallsMade
  <1>4. Promotion'
    BY <1>0 DEF Promotion
  <1>5. DelaysSet'
    BY <1>0, <1>2 DEF DelaysSet
  <1> QED
    BY <1>1, <1>3, <1>4, <1>5

\* Connections and reports change no WAL.
LEMMA LinksKeepInv ==
  ASSUME ReplicationInv, UNCHANGED <<scenario, at, fate, slow, acked, returned, inRecovery, up, wal, replayed>>,
         link' \in [Standbys -> {"none", "catchup", "streaming"}],
         \A s \in Standbys : link'[s] # "none" => inRecovery[s]
  PROVE  ReplicationInv'
  <1>0. NodesTypeOK /\ NodeRoles /\ StandbyIsPrefix
    BY DEF ReplicationInv
  <1>1. RowsOf("R1")' = RowsOf("R1")
    BY DEF RowsOf
  <1>2. NodesTypeOK'
    BY <1>0 DEF NodesTypeOK
  <1>3. NodeRoles'
    BY <1>0 DEF NodeRoles
  <1>4. StandbyIsPrefix'
    BY <1>0 DEF StandbyIsPrefix
  <1>5. ScriptTypeOK' /\ CallsMade' /\ Promotion' /\ DelaysSet'
    BY <1>1, ServersKeepScript
  <1> QED
    BY <1>2, <1>3, <1>4, <1>5 DEF ReplicationInv

\* The servers by themselves: connections, WAL on its way, replay, time.
LEMMA ServersKeepInv ==
  ASSUME ReplicationInv, ServerStep \/ TimePasses PROVE ReplicationInv'
  <1>0. NodesTypeOK /\ ScriptTypeOK /\ NodeRoles /\ StandbyIsPrefix
    BY DEF ReplicationInv
  <1>a. \A s \in Standbys : s \in Nodes /\ Upstream[s] \in Nodes /\ Upstream[s] # s
    BY DEF Standbys, Nodes, Upstream
  <1>1. ASSUME NEW s \in Standbys, Connect(s) PROVE ReplicationInv'
    <2>1. /\ UNCHANGED <<scenario, at, fate, slow, acked, returned, inRecovery, up, wal, replayed>>
          /\ inRecovery[s]
          /\ link' = [link EXCEPT ![s] = IF Caught(s) THEN "streaming" ELSE "catchup"]
      BY <1>1 DEF Connect, Follows
    <2>2. link' \in [Standbys -> {"none", "catchup", "streaming"}]
      BY <1>0, <2>1 DEF NodesTypeOK
    <2>3. \A r \in Standbys : link'[r] # "none" => inRecovery[r]
      BY <1>0, <2>1 DEF NodesTypeOK, NodeRoles
    <2> QED
      BY <2>1, <2>2, <2>3, LinksKeepInv
  <1>2. ASSUME NEW s \in Standbys, Disconnect(s) PROVE ReplicationInv'
    <2>1. /\ UNCHANGED <<scenario, at, fate, slow, acked, returned, inRecovery, up, wal, replayed>>
          /\ link' = [link EXCEPT ![s] = "none"]
      BY <1>2 DEF Disconnect
    <2>2. link' \in [Standbys -> {"none", "catchup", "streaming"}]
      BY <1>0, <2>1 DEF NodesTypeOK
    <2>3. \A r \in Standbys : link'[r] # "none" => inRecovery[r]
      BY <1>0, <2>1 DEF NodesTypeOK, NodeRoles
    <2> QED
      BY <2>1, <2>2, <2>3, LinksKeepInv
  <1>3. ASSUME NEW s \in Standbys, Stream(s) PROVE ReplicationInv'
    <2> DEFINE u == Upstream[s]
               x == wal[u][Len(wal[s]) + 1]
    <2>1. /\ UNCHANGED <<scenario, at, fate, slow, acked, returned, inRecovery, up, replayed>>
          /\ inRecovery[s] /\ Len(wal[s]) # Len(wal[u])
          /\ wal' = [wal EXCEPT ![s] = Append(wal[s], x)]
          /\ link[s] # "none"
          /\ link' = [link EXCEPT ![s] = IF Len(wal'[s]) = Len(wal[u]) THEN "streaming" ELSE link[s]]
      BY <1>3 DEF Stream, Follows, Caught
    <2>2. wal[s] \in Seq(Int) /\ wal[u] \in Seq(Int) /\ Len(wal[s]) \in Nat /\ Len(wal[u]) \in Nat
      BY <1>0, <1>a DEF NodesTypeOK
    <2>3. IsPrefix(wal[s], wal[u])
      BY <1>0, <2>1 DEF StandbyIsPrefix
    <2>4. Len(wal[s]) < Len(wal[u]) /\ (\A i \in 1..Len(wal[s]) : wal[s][i] = wal[u][i]) /\ x \in Int
      BY <2>1, <2>2, <2>3, PrefixByPlace, SMTT(30)
    <2> HIDE DEF u, x
    <2>5. /\ Append(wal[s], x) \in Seq(Int) /\ Len(Append(wal[s], x)) = Len(wal[s]) + 1
          /\ \A i \in 1..Len(wal[s]) : Append(wal[s], x)[i] = wal[s][i]
          /\ Append(wal[s], x)[Len(wal[s]) + 1] = x
      BY <2>2, <2>4
    <2>6. wal'[s] = Append(wal[s], x) /\ \A n \in Nodes : n # s => wal'[n] = wal[n]
      BY <1>0, <1>a, <2>1 DEF NodesTypeOK
    <2>7. IsPrefix(wal[s], wal'[s])
      <3>1. Len(wal[s]) <= Len(wal'[s]) /\ wal'[s] \in Seq(Int)
        BY <2>2, <2>5, <2>6
      <3>2. \A i \in 1..Len(wal[s]) : wal[s][i] = wal'[s][i]
        BY <2>5, <2>6
      <3> QED
        BY <2>2, <3>1, <3>2, PrefixByPlace
    <2>8. IsPrefix(wal'[s], wal[u])
      <3>1. Len(wal'[s]) <= Len(wal[u])
        BY <2>2, <2>4, <2>5, <2>6
      <3>2. \A i \in 1..Len(wal'[s]) : wal'[s][i] = wal[u][i]
        BY <2>2, <2>4, <2>5, <2>6 DEF x
      <3> QED
        BY <2>2, <2>5, <2>6, <3>1, <3>2, PrefixByPlace
    <2>9. NodesTypeOK'
      <3>1. wal' \in [Nodes -> Seq(Int)]
        BY <1>0, <2>1, <2>5 DEF NodesTypeOK
      <3>2. \A n \in Nodes : Len(wal[n]) \in Nat /\ replayed[n] \in Nat /\ replayed[n] <= Len(wal[n])
        BY <1>0 DEF NodesTypeOK
      <3>3. \A n \in Nodes : replayed[n] <= Len(wal'[n])
        BY <2>5, <2>6, <3>2
      <3>4. link' \in [Standbys -> {"none", "catchup", "streaming"}]
        BY <1>0, <2>1 DEF NodesTypeOK
      <3> QED
        BY <1>0, <2>1, <3>1, <3>3, <3>4 DEF NodesTypeOK
    <2>10. NodeRoles'
      <3>1. \A r \in Standbys : link'[r] # "none" => inRecovery[r]
        BY <1>0, <2>1 DEF NodesTypeOK, NodeRoles
      <3>2. \A n \in Nodes : ~inRecovery[n] => replayed[n] = Len(wal'[n])
        BY <1>0, <2>1, <2>6 DEF NodeRoles
      <3> QED
        BY <1>0, <2>1, <3>1, <3>2 DEF NodeRoles
    <2>11. StandbyIsPrefix'
      <3> SUFFICES ASSUME NEW r \in Standbys, inRecovery[r] PROVE IsPrefix(wal'[r], wal'[Upstream[r]])
        BY <2>1 DEF StandbyIsPrefix
      <3>1. CASE r = s
        BY <1>a, <2>6, <2>8, <3>1 DEF u
      <3>2. CASE r # s
        <4>1. IsPrefix(wal[r], wal[Upstream[r]]) /\ wal'[r] = wal[r] /\ r \in Nodes /\ Upstream[r] \in Nodes
          BY <1>0, <1>a, <2>6, <3>2 DEF StandbyIsPrefix
        <4>2. CASE Upstream[r] # s
          BY <2>6, <4>1, <4>2
        <4>3. CASE Upstream[r] = s
          <5>1. wal[r] \in Seq(Int) /\ Len(wal[r]) \in Nat
            BY <1>0, <4>1 DEF NodesTypeOK
          <5>2. Len(wal[r]) <= Len(wal[s]) /\ \A i \in 1..Len(wal[r]) : wal[r][i] = wal[s][i]
            BY <2>2, <4>1, <4>3, <5>1, PrefixByPlace
          <5>3. Len(wal[r]) <= Len(wal'[s]) /\ \A i \in 1..Len(wal[r]) : wal[r][i] = wal'[s][i]
            BY <2>2, <2>5, <2>6, <5>1, <5>2
          <5>4. wal'[s] \in Seq(Int)
            BY <2>5, <2>6
          <5> QED
            BY <4>1, <4>3, <5>1, <5>3, <5>4, PrefixByPlace
        <4> QED
          BY <4>2, <4>3
      <3> QED
        BY <3>1, <3>2
    <2>12. RowsOf("R1") \subseteq RowsOf("R1")'
      <3>1. "R1" \in Nodes /\ replayed["R1"] \in Nat /\ wal["R1"] \in Seq(Int)
        BY <1>0 DEF Nodes, NodesTypeOK
      <3>2. IsPrefix(wal["R1"], wal'["R1"])
        <4>1. CASE s = "R1"
          BY <2>7, <4>1
        <4>2. CASE s # "R1"
          BY <2>6, <3>1, <4>2, PrefixByPlace
        <4> QED
          BY <4>1, <4>2
      <3>3. replayed["R1"] <= replayed'["R1"]
        BY <2>1, <3>1
      <3> QED
        BY <1>0, <2>9, <3>1, <3>2, <3>3, NodeGrows
    <2> QED
      BY <2>1, <2>9, <2>10, <2>11, <2>12, ServersKeepScript DEF ReplicationInv
  <1>4. ASSUME NEW s \in Standbys, Replay(s) PROVE ReplicationInv'
    <2>1. /\ UNCHANGED <<scenario, at, fate, slow, acked, returned, inRecovery, up, wal, link>>
          /\ inRecovery[s] /\ replayed[s] < Len(wal[s])
          /\ replayed' = [replayed EXCEPT ![s] = replayed[s] + 1]
      BY <1>4 DEF Replay
    <2>2. \A n \in Nodes : /\ wal[n] \in Seq(Int) /\ Len(wal[n]) \in Nat
                           /\ replayed[n] \in Nat /\ replayed[n] <= Len(wal[n])
      BY <1>0 DEF NodesTypeOK
    <2>3. replayed' \in [Nodes -> Nat] /\ \A n \in Nodes : replayed'[n] = IF n = s THEN replayed[s] + 1 ELSE replayed[n]
      BY <1>0, <1>a, <2>1 DEF NodesTypeOK
    <2>4. \A n \in Nodes : replayed'[n] <= Len(wal[n])
      BY <2>1, <2>2, <2>3
    <2>5. NodesTypeOK'
      BY <1>0, <2>1, <2>3, <2>4 DEF NodesTypeOK
    <2>6. NodeRoles'
      BY <1>0, <2>1, <2>3 DEF NodeRoles
    <2>7. StandbyIsPrefix'
      BY <1>0, <2>1 DEF StandbyIsPrefix
    <2>8. RowsOf("R1") \subseteq RowsOf("R1")'
      <3>1. "R1" \in Nodes
        BY DEF Nodes
      <3>2. IsPrefix(wal["R1"], wal'["R1"])
        BY <2>1, <2>2, <3>1, PrefixByPlace
      <3>3. replayed["R1"] <= replayed'["R1"]
        BY <2>2, <2>3, <3>1
      <3> QED
        BY <1>0, <2>5, <3>1, <3>2, <3>3, NodeGrows
    <2> QED
      BY <2>1, <2>5, <2>6, <2>7, <2>8, ServersKeepScript DEF ReplicationInv
  <1>5. ASSUME NEW s \in Standbys, Report(s) PROVE ReplicationInv'
    <2>1. UNCHANGED <<scenario, at, fate, slow, acked, returned, inRecovery, up, wal, replayed, link>>
      BY <1>5 DEF Report
    <2> QED
      BY <1>0, <2>1, LinksKeepInv DEF NodesTypeOK, NodeRoles
  <1>6. ASSUME NEW x \in acked, Age(x) PROVE ReplicationInv'
    <2>1. UNCHANGED <<scenario, at, fate, slow, acked, returned, inRecovery, up, wal, replayed, link>>
      BY <1>6 DEF Age
    <2> QED
      BY <1>0, <2>1, LinksKeepInv DEF NodesTypeOK, NodeRoles
  <1> QED
    BY <1>1, <1>2, <1>3, <1>4, <1>5, <1>6 DEF ServerStep, TimePasses

\* Where a script goes on: at its next call, in its finally, or nowhere.
LEMMA OnwardMoves ==
  ASSUME ScriptTypeOK, Active, Proceed \/ Throws
  PROVE  /\ at' \in Nat \ {0}
         /\ at' = at + 1 \/ at' = CleanupAt \/ (at' = Len(Calls) + 1 /\ ~(BodyAt(scenario) <= at /\ at < CleanupAt))
         /\ at' < CleanupAt => at' = at + 1
         /\ fate = "delay" => fate' = "delay"
         /\ Throws /\ Cur.op = "delay" => fate' = "delay"
  <1>1. /\ at \in Nat \ {0} /\ Len(Calls) \in Nat /\ at <= Len(Calls)
        /\ BodyAt(scenario) \in Nat \ {0} /\ CleanupAt \in Nat /\ BodyAt(scenario) <= CleanupAt
        /\ CleanupAt <= Len(Calls) + 1
    BY CallAtHand DEF ScriptTypeOK, Active
  <1>2. CASE Proceed
    <2>1. at' = at + 1 /\ (fate = "delay" => fate' = "delay")
      BY <1>2 DEF Proceed
    <2>2. Throws /\ Cur.op = "delay" => fate' = "delay"
      BY DEF Throws
    <2> QED
      BY <1>1, <2>1, <2>2
  <1>3. CASE Throws
    <2>1. /\ at' = IF at >= BodyAt(scenario) /\ at < CleanupAt THEN CleanupAt ELSE Len(Calls) + 1
          /\ fate = "delay" \/ Cur.op = "delay" => fate' = "delay"
      BY <1>3 DEF Throws
    <2> QED
      BY <1>1, <2>1
  <1> QED
    BY <1>2, <1>3

\* A call that sets no delay leaves every delay to the finally.
LEMMA OtherCallsKeepDelays ==
  ASSUME ScriptTypeOK, DelaysSet, Active, Proceed \/ Throws, Cur.op # "delay",
         UNCHANGED <<scenario, slow>>
  PROVE  DelaysSet'
  <1>1. /\ at \in Nat \ {0} /\ Len(Calls) \in Nat /\ at \in DOMAIN Calls /\ at <= Len(Calls)
        /\ BodyAt(scenario) \in Nat \ {0} /\ CleanupAt \in Nat /\ BodyAt(scenario) <= CleanupAt
        /\ CleanupAt <= Len(Calls) + 1
    BY CallAtHand DEF ScriptTypeOK, Active
  <1>2. TakesDelaysBack(scenario) /\ Calls = CallsOf(scenario) /\ CleanupAt = CleanupOf(scenario)
    BY CarefulScripts, CallAtHand DEF CarefulScripts, ScriptTypeOK
  <1>3. at < CleanupAt
    BY <1>1, <1>2 DEF TakesDelaysBack, Cur
  <1>4. Calls' = Calls /\ CleanupAt' = CleanupAt /\ slow' = slow /\ BodyAt(scenario)' = BodyAt(scenario)
    BY DEF Calls, CleanupAt
  <1>5. /\ at' \in Nat \ {0}
        /\ at' = at + 1 \/ at' = CleanupAt \/ (at' = Len(Calls) + 1 /\ at < BodyAt(scenario))
    BY <1>1, <1>3, OnwardMoves
  <1>6. at' < BodyAt(scenario) => slow = {}
    BY <1>1, <1>5 DEF DelaysSet
  <1>7. \A n \in slow : \E m \in DOMAIN Calls : m >= CleanupAt /\ SetsDelay(Calls[m], n, FALSE)
    <2> TAKE n \in slow
    <2>1. PICK k \in DOMAIN Calls : SetsDelay(Calls[k], n, TRUE)
      BY DEF DelaysSet
    <2>2. n \in Nodes
      BY DEF ScriptTypeOK
    <2> QED
      BY <1>2, <2>1, <2>2 DEF TakesDelaysBack
  <1>8. at' >= CleanupAt => \A n \in slow : \E m \in DOMAIN Calls : m >= at' /\ SetsDelay(Calls[m], n, FALSE)
    <2>1. at < BodyAt(scenario) => slow = {}
      BY DEF DelaysSet
    <2>2. at' >= CleanupAt /\ slow # {} => at' = CleanupAt
      BY <1>1, <1>3, <1>5, <2>1
    <2> QED
      BY <1>7, <2>2
  <1> QED
    BY <1>4, <1>6, <1>8 DEF DelaysSet

\* Setting a delay, or taking it back.
LEMMA DelayCallKeepsDelays ==
  ASSUME ScriptTypeOK, DelaysSet, DelayCall PROVE DelaysSet' /\ slow' \in SUBSET Nodes
  <1>0. Active /\ Cur.op = "delay" /\ scenario' = scenario
    BY DEF DelayCall, AtCall
  <1>1. /\ at \in Nat \ {0} /\ Len(Calls) \in Nat /\ at \in DOMAIN Calls /\ at <= Len(Calls)
        /\ BodyAt(scenario) \in Nat \ {0} /\ CleanupAt \in Nat /\ BodyAt(scenario) <= CleanupAt
        /\ CleanupAt <= Len(Calls) + 1 /\ DOMAIN Calls = 1..Len(Calls) /\ Cur.n \in Nodes /\ Cur = Calls[at]
    BY <1>0, CallAtHand DEF ScriptTypeOK, Active
  <1>2. TakesDelaysBack(scenario) /\ Calls = CallsOf(scenario) /\ CleanupAt = CleanupOf(scenario)
    BY <1>0, CarefulScripts, CallAtHand DEF CarefulScripts, ScriptTypeOK
  <1>3. Calls' = Calls /\ CleanupAt' = CleanupAt /\ BodyAt(scenario)' = BodyAt(scenario)
    BY <1>0 DEF Calls, CleanupAt
  <1>4. Proceed \/ Throws
    BY DEF DelayCall
  <1>5. /\ at' \in Nat \ {0}
        /\ at' = at + 1 \/ at' = CleanupAt \/ (at' = Len(Calls) + 1 /\ ~(BodyAt(scenario) <= at /\ at < CleanupAt))
        /\ fate = "delay" => fate' = "delay"
        /\ Throws => fate' = "delay"
    BY <1>0, <1>4, OnwardMoves
  <1>6. \A n \in Nodes : (\E k \in DOMAIN Calls : SetsDelay(Calls[k], n, TRUE)) =>
            \E m \in DOMAIN Calls : m >= CleanupAt /\ SetsDelay(Calls[m], n, FALSE)
    BY <1>2 DEF TakesDelaysBack
  <1>7. CASE Cur.n \in up /\ Cur.x = 1
    <2>1. slow' = slow \cup {Cur.n} /\ SetsDelay(Calls[at], Cur.n, TRUE)
      BY <1>0, <1>1, <1>7 DEF DelayCall, SetsDelay, IsCall
    <2>2. BodyAt(scenario) <= at + 1 /\ at + 1 <= CleanupAt
      <3>1. \A k \in DOMAIN Calls : \A n \in Nodes : SetsDelay(Calls[k], n, TRUE) => k + 1 \in BodyAt(scenario)..CleanupAt
        BY <1>2 DEF TakesDelaysBack
      <3>2. at + 1 \in BodyAt(scenario)..CleanupAt
        BY <1>1, <2>1, <3>1
      <3> QED
        BY <1>1, <3>2
    <2>3. ~(at' < BodyAt(scenario))
      BY <1>1, <1>5, <2>2
    <2>4. \A n \in slow' : \E k \in DOMAIN Calls : SetsDelay(Calls[k], n, TRUE)
      BY <1>1, <2>1 DEF DelaysSet
    <2>5. slow' \in SUBSET Nodes
      BY <1>1, <2>1 DEF ScriptTypeOK
    <2>6. fate' # "delay" /\ at' >= CleanupAt => at' = CleanupAt
      <3>1. fate' # "delay" => at' = at + 1
        BY <1>4, <1>5 DEF Proceed
      <3> QED
        BY <1>1, <2>2, <3>1
    <2>7. fate' # "delay" /\ at' >= CleanupAt =>
              \A n \in slow' : \E m \in DOMAIN Calls : m >= at' /\ SetsDelay(Calls[m], n, FALSE)
      BY <1>6, <2>4, <2>5, <2>6
    <2> QED
      BY <1>3, <2>3, <2>4, <2>5, <2>7 DEF DelaysSet
  <1>8. CASE Cur.n \in up /\ Cur.x # 1
    <2>1. slow' = slow \ {Cur.n}
      BY <1>0, <1>8 DEF DelayCall
    <2>2. slow' \in SUBSET Nodes /\ \A n \in slow' : \E k \in DOMAIN Calls : SetsDelay(Calls[k], n, TRUE)
      BY <2>1 DEF DelaysSet, ScriptTypeOK
    <2>3. at' < BodyAt(scenario) => slow' = {}
      BY <1>1, <1>5, <2>1 DEF DelaysSet
    <2>4. fate' # "delay" => fate # "delay" /\ at' = at + 1
      BY <1>4, <1>5 DEF Proceed
    <2>5. ASSUME fate' # "delay", at' >= CleanupAt, NEW n \in slow'
          PROVE  \E m \in DOMAIN Calls : m >= at' /\ SetsDelay(Calls[m], n, FALSE)
      <3>1. CASE at < CleanupAt
        <4>1. at' = CleanupAt
          BY <1>1, <2>4, <2>5, <3>1
        <4>2. n \in Nodes /\ \E k \in DOMAIN Calls : SetsDelay(Calls[k], n, TRUE)
          BY <2>2, <2>5
        <4> QED
          BY <1>6, <4>1, <4>2
      <3>2. CASE at >= CleanupAt
        <4>1. n \in slow /\ n # Cur.n
          BY <2>1, <2>5
        <4>2. PICK m \in DOMAIN Calls : m >= at /\ SetsDelay(Calls[m], n, FALSE)
          BY <2>4, <2>5, <3>2, <4>1 DEF DelaysSet
        <4>3. m # at
          BY <1>1, <4>1, <4>2 DEF SetsDelay, IsCall
        <4>4. m >= at'
          BY <1>1, <2>4, <2>5, <4>2, <4>3
        <4> QED
          BY <4>2, <4>4
      <3>3. at < CleanupAt \/ at >= CleanupAt
        BY <1>1
      <3> QED
        BY <3>1, <3>2, <3>3
    <2> QED
      BY <1>3, <2>2, <2>3, <2>5 DEF DelaysSet
  <1>9. CASE Cur.n \notin up
    <2>1. slow' = slow /\ Throws
      BY <1>9 DEF DelayCall
    <2>2. fate' = "delay" /\ ~(at' < BodyAt(scenario))
      <3>1. at' = IF at >= BodyAt(scenario) /\ at < CleanupAt THEN CleanupAt ELSE Len(Calls) + 1
        BY <2>1 DEF Throws
      <3> QED
        BY <1>1, <1>5, <2>1, <3>1
    <2>3. slow' \in SUBSET Nodes /\ \A n \in slow' : \E k \in DOMAIN Calls : SetsDelay(Calls[k], n, TRUE)
      BY <2>1 DEF DelaysSet, ScriptTypeOK
    <2> QED
      BY <1>3, <2>2, <2>3 DEF DelaysSet
  <1> QED
    BY <1>7, <1>8, <1>9

\* A call that returns adds what it has shown to what the calls before it have.
LEMMA CallKeepsRecord ==
  ASSUME ScriptTypeOK, CallsMade, Active, Proceed \/ Throws, scenario' = scenario,
         RowsOf("R1") \subseteq RowsOf("R1")',
         at' < CleanupAt /\ IsCall(Cur, "wait_row", "R1") => Cur.x \in RowsOf("R1")',
         "P" \in up' => "P" \in up \/ IsCall(Cur, "start", "P"),
         at' < CleanupAt /\ IsCall(Cur, "stop", "P") => "P" \notin up',
         at' < CleanupAt /\ inRecovery'["R1"] =>
            /\ inRecovery["R1"]
            /\ \A x \in acked' : x \in acked \/ (IsCall(Cur, "put", "P") /\ Cur.x = x /\ "P" \in up)
  PROVE  CallsMade'
  <1>1. Calls' = Calls /\ CleanupAt' = CleanupAt /\ Calls = CallsOf(scenario)
    BY DEF Calls, CleanupAt
  <1>2. SUFFICES ASSUME at' < CleanupAt PROVE
            /\ StoppedBefore(scenario, "P", at') => "P" \notin up'
            /\ \A w \in 1..(at' - 1) : IsCall(Calls[w], "wait_row", "R1") => Calls[w].x \in RowsOf("R1")'
            /\ inRecovery'["R1"] => \A x \in acked' :
                  \E i \in 1..(at' - 1) : /\ IsCall(Calls[i], "put", "P") /\ Calls[i].x = x
                                          /\ ~StoppedBefore(scenario, "P", i)
    BY <1>1 DEF CallsMade, StoppedBefore
  <1>3. at \in Nat \ {0} /\ at' = at + 1 /\ at < CleanupAt /\ Cur = Calls[at] /\ at' - 1 = at
    <2>1. at' = at + 1 /\ at \in Nat \ {0} /\ CleanupAt \in Nat
      BY <1>2, OnwardMoves, CallAtHand DEF ScriptTypeOK
    <2> QED
      BY <1>2, <2>1 DEF Cur
  <1>4. /\ StoppedBefore(scenario, "P", at) => "P" \notin up
        /\ \A w \in 1..(at - 1) : IsCall(Calls[w], "wait_row", "R1") => Calls[w].x \in RowsOf("R1")
        /\ inRecovery["R1"] => \A x \in acked :
              \E i \in 1..(at - 1) : /\ IsCall(Calls[i], "put", "P") /\ Calls[i].x = x
                                     /\ ~StoppedBefore(scenario, "P", i)
    BY <1>3 DEF CallsMade
  <1>5. ASSUME StoppedBefore(scenario, "P", at + 1) PROVE "P" \notin up'
    <2>1. PICK j \in 1..at : /\ IsCall(Calls[j], "stop", "P")
                             /\ \A k \in j..at : ~IsCall(Calls[k], "start", "P")
      BY <1>1, <1>3, <1>5 DEF StoppedBefore
    <2>2. ~IsCall(Cur, "start", "P")
      BY <1>3, <2>1
    <2>3. CASE j = at
      BY <1>2, <1>3, <2>1, <2>3
    <2>4. CASE j # at
      <3>1. j \in 1..(at - 1) /\ \A k \in j..(at - 1) : ~IsCall(Calls[k], "start", "P")
        BY <1>3, <2>1, <2>4
      <3>2. StoppedBefore(scenario, "P", at)
        BY <1>1, <2>1, <3>1 DEF StoppedBefore
      <3> QED
        BY <1>4, <2>2, <3>2
    <2> QED
      BY <2>3, <2>4
  <1>6. \A w \in 1..at : IsCall(Calls[w], "wait_row", "R1") => Calls[w].x \in RowsOf("R1")'
    <2> SUFFICES ASSUME NEW w \in 1..at, IsCall(Calls[w], "wait_row", "R1") PROVE Calls[w].x \in RowsOf("R1")'
      OBVIOUS
    <2>1. CASE w = at
      BY <1>2, <1>3, <2>1
    <2>2. CASE w # at
      <3>1. w \in 1..(at - 1)
        BY <1>3, <2>2
      <3> QED
        BY <1>4, <3>1
    <2> QED
      BY <2>1, <2>2
  <1>7. ASSUME inRecovery'["R1"], NEW x \in acked'
        PROVE  \E i \in 1..at : /\ IsCall(Calls[i], "put", "P") /\ Calls[i].x = x
                                /\ ~StoppedBefore(scenario, "P", i)
    <2>1. CASE x \in acked
      <3>1. PICK i \in 1..(at - 1) : /\ IsCall(Calls[i], "put", "P") /\ Calls[i].x = x
                                     /\ ~StoppedBefore(scenario, "P", i)
        BY <1>2, <1>4, <1>7, <2>1
      <3>2. i \in 1..at
        BY <1>3
      <3> QED
        BY <3>1, <3>2
    <2>2. CASE x \notin acked
      <3>1. IsCall(Calls[at], "put", "P") /\ Calls[at].x = x /\ ~StoppedBefore(scenario, "P", at)
        BY <1>2, <1>3, <1>4, <1>7, <2>2
      <3>2. at \in 1..at
        BY <1>3
      <3> QED
        BY <3>1, <3>2
    <2> QED
      BY <2>1, <2>2
  <1> QED
    BY <1>3, <1>5, <1>6, <1>7

\* Reads and polls change no server: a poll that returns has seen its row.
LEMMA ReadsKeepInv ==
  ASSUME ReplicationInv, ReadCall \/ WaitCall PROVE ReplicationInv'
  <1>0. NodesTypeOK /\ ScriptTypeOK /\ NodeRoles /\ StandbyIsPrefix /\ CallsMade /\ Promotion /\ DelaysSet
    BY DEF ReplicationInv
  <1>1. Active /\ Cur.op # "delay" /\ Cur.op \notin {"put", "start", "stop"} /\ scenario' = scenario
    BY DEF ReadCall, WaitCall, AtCall, WaitOps
  <1>2. UNCHANGED <<wal, replayed, inRecovery, up, link, slow, acked, returned>>
    BY DEF ReadCall, WaitCall, serverVars
  <1>3. Proceed \/ Throws
    <2>1. CASE WaitCall
      BY <2>1 DEF WaitCall
    <2>2. CASE ReadCall
      <3>1. Cur.op \in {"see", "lsn", "stats", "recovery", "lag", "routed", "expect", "observe"}
        BY <2>2 DEF ReadCall, AtCall
      <3> QED
        BY <2>2, <3>1 DEF ReadCall
    <2> QED
      BY <2>1, <2>2
  <1>4. RowsOf("R1")' = RowsOf("R1")
    BY <1>2 DEF RowsOf
  <1>5. at' < CleanupAt /\ IsCall(Cur, "wait_row", "R1") => Cur.x \in RowsOf("R1")'
    <2> SUFFICES ASSUME at' < CleanupAt, IsCall(Cur, "wait_row", "R1") PROVE Cur.x \in RowsOf("R1")
      BY <1>4
    <2>1. WaitCall /\ Cur.op = "wait_row" /\ Cur.n = "R1"
      BY DEF IsCall, ReadCall, AtCall
    <2>2. ~Throws
      <3> SUFFICES ASSUME Throws PROVE FALSE
        OBVIOUS
      <3>1. at' = IF at >= BodyAt(scenario) /\ at < CleanupAt THEN CleanupAt ELSE Len(Calls) + 1
        BY DEF Throws
      <3>2. CleanupAt \in Nat /\ Len(Calls) \in Nat /\ CleanupAt <= Len(Calls) + 1
        BY <1>0, <1>1, CallAtHand
      <3> QED
        BY <3>1, <3>2
    <2>3. Met
      BY <2>1, <2>2 DEF WaitCall
    <2> QED
      BY <2>1, <2>3 DEF Met
  <1>6. CallsMade'
    <2>1. ~IsCall(Cur, "stop", "P") /\ ~IsCall(Cur, "start", "P")
      BY <1>1 DEF IsCall
    <2> QED
      BY <1>0, <1>1, <1>2, <1>3, <1>4, <1>5, <2>1, CallKeepsRecord
  <1>7. NodesTypeOK' /\ NodeRoles' /\ StandbyIsPrefix' /\ Promotion'
    BY <1>0, <1>2, <1>4 DEF NodesTypeOK, NodeRoles, StandbyIsPrefix, Promotion
  <1>8. ScriptTypeOK'
    BY <1>0, <1>1, <1>2, <1>3, OnwardMoves DEF ScriptTypeOK
  <1>9. DelaysSet'
    BY <1>0, <1>1, <1>2, <1>3, OtherCallsKeepDelays
  <1> QED
    BY <1>6, <1>7, <1>8, <1>9 DEF ReplicationInv

\* Setting a delay changes no row and no role.
LEMMA DelayCallKeepsInv ==
  ASSUME ReplicationInv, DelayCall PROVE ReplicationInv'
  <1>0. NodesTypeOK /\ ScriptTypeOK /\ NodeRoles /\ StandbyIsPrefix /\ CallsMade /\ Promotion /\ DelaysSet
    BY DEF ReplicationInv
  <1>1. Active /\ Cur.op = "delay" /\ scenario' = scenario /\ (Proceed \/ Throws)
    BY DEF DelayCall, AtCall
  <1>2. UNCHANGED <<wal, replayed, inRecovery, up, link, acked, returned>>
    BY DEF DelayCall
  <1>3. RowsOf("R1")' = RowsOf("R1")
    BY <1>2 DEF RowsOf
  <1>4. CallsMade'
    <2>1. ~IsCall(Cur, "stop", "P") /\ ~IsCall(Cur, "start", "P") /\ ~IsCall(Cur, "wait_row", "R1")
      BY <1>1 DEF IsCall
    <2> QED
      BY <1>0, <1>1, <1>2, <1>3, <2>1, CallKeepsRecord
  <1>5. NodesTypeOK' /\ NodeRoles' /\ StandbyIsPrefix' /\ Promotion'
    BY <1>0, <1>2, <1>3 DEF NodesTypeOK, NodeRoles, StandbyIsPrefix, Promotion
  <1>6. DelaysSet' /\ slow' \in SUBSET Nodes
    BY <1>0, DelayCallKeepsDelays
  <1>7. ScriptTypeOK'
    BY <1>0, <1>1, <1>2, <1>6, OnwardMoves DEF ScriptTypeOK
  <1> QED
    BY <1>4, <1>5, <1>6, <1>7 DEF ReplicationInv

\* A write is accepted by a node that is up and no standby, or by none.
LEMMA WriteKeepsInv ==
  ASSUME ReplicationInv, WriteCall PROVE ReplicationInv'
  <1> DEFINE n == Cur.n
             x == Cur.x
             ok == WriteAnswer(Cur.n) = 1
  <1>0. NodesTypeOK /\ ScriptTypeOK /\ NodeRoles /\ StandbyIsPrefix /\ CallsMade /\ Promotion /\ DelaysSet
    BY DEF ReplicationInv
  <1>1. Active /\ Cur.op = "put" /\ scenario' = scenario /\ n \in Nodes /\ x \in Int
    <2>1. Active /\ Cur.op = "put" /\ scenario' = scenario
      BY DEF WriteCall, AtCall
    <2> QED
      BY <1>0, <2>1, CallAtHand
  <1>2. UNCHANGED <<inRecovery, up, link, slow, returned>> /\ (Proceed \/ Throws)
    BY DEF WriteCall
  <1>3. ok <=> n \in up /\ ~inRecovery[n]
    BY DEF WriteAnswer
  <1>4. /\ wal' = IF ok THEN [wal EXCEPT ![n] = Append(wal[n], x)] ELSE wal
        /\ replayed' = IF ok THEN [replayed EXCEPT ![n] = replayed[n] + 1] ELSE replayed
        /\ acked' = IF ok THEN acked \cup {x} ELSE acked
    BY DEF WriteCall
  <1>5. /\ wal[n] \in Seq(Int) /\ Append(wal[n], x) \in Seq(Int)
        /\ Len(wal[n]) \in Nat /\ Len(Append(wal[n], x)) = Len(wal[n]) + 1
        /\ \A i \in 1..Len(wal[n]) : Append(wal[n], x)[i] = wal[n][i]
        /\ Append(wal[n], x)[Len(wal[n]) + 1] = x
    BY <1>0, <1>1 DEF NodesTypeOK
  <1>6. \A m \in Nodes : /\ wal[m] \in Seq(Int) /\ Len(wal[m]) \in Nat
                         /\ replayed[m] \in Nat /\ replayed[m] <= Len(wal[m])
    BY <1>0 DEF NodesTypeOK
  <1> HIDE DEF n, x, ok
  <1>7. \A m \in Nodes : /\ wal'[m] = IF ok /\ m = n THEN Append(wal[n], x) ELSE wal[m]
                         /\ replayed'[m] = IF ok /\ m = n THEN replayed[n] + 1 ELSE replayed[m]
    BY <1>0, <1>1, <1>4 DEF NodesTypeOK
  <1>8. NodesTypeOK'
    <2>1. wal' \in [Nodes -> Seq(Int)] /\ replayed' \in [Nodes -> Nat]
      BY <1>0, <1>1, <1>4, <1>5, <1>6 DEF NodesTypeOK
    <2>2. ASSUME NEW m \in Nodes PROVE replayed'[m] <= Len(wal'[m])
      <3>1. CASE ok /\ m = n
        <4>1. wal'[m] = Append(wal[n], x) /\ replayed'[m] = replayed[n] + 1
          BY <1>7, <3>1
        <4>2. replayed[n] \in Nat /\ replayed[n] <= Len(wal[n])
          BY <1>6, <3>1
        <4> QED
          BY <1>5, <4>1, <4>2
      <3>2. CASE ~(ok /\ m = n)
        <4>1. wal'[m] = wal[m] /\ replayed'[m] = replayed[m]
          BY <1>7, <3>2
        <4> QED
          BY <1>6, <4>1
      <3> QED
        BY <3>1, <3>2
    <2> QED
      BY <1>0, <1>2, <2>1, <2>2 DEF NodesTypeOK
  <1>9. NodeRoles'
    <2>1. \A m \in Nodes : ~inRecovery[m] => replayed'[m] = Len(wal'[m])
      BY <1>0, <1>5, <1>6, <1>7 DEF NodeRoles
    <2> QED
      BY <1>0, <1>2, <2>1 DEF NodeRoles
  <1>10. \A m \in Nodes : IsPrefix(wal[m], wal'[m]) /\ wal'[m] \in Seq(Int)
    <2> TAKE m \in Nodes
    <2>1. CASE ok /\ m = n
      <3>1. wal'[m] = Append(wal[n], x) /\ wal[m] = wal[n]
        BY <1>7, <2>1
      <3>2. Len(wal[n]) <= Len(Append(wal[n], x))
        BY <1>5
      <3> QED
        BY <1>5, <3>1, <3>2, PrefixByPlace
    <2>2. CASE ~(ok /\ m = n)
      <3>1. wal'[m] = wal[m]
        BY <1>7, <2>2
      <3> QED
        BY <1>6, <3>1, PrefixByPlace
    <2> QED
      BY <2>1, <2>2
  <1>11. StandbyIsPrefix'
    <2> SUFFICES ASSUME NEW s \in Standbys, inRecovery[s] PROVE IsPrefix(wal'[s], wal'[Upstream[s]])
      BY <1>2 DEF StandbyIsPrefix
    <2>1. s \in Nodes /\ Upstream[s] \in Nodes
      BY DEF Standbys, Nodes, Upstream
    <2>2. wal'[s] = wal[s]
      BY <1>3, <1>7, <2>1
    <2>3. IsPrefix(wal[s], wal[Upstream[s]])
      BY <1>0 DEF StandbyIsPrefix
    <2> QED
      BY <1>6, <1>10, <2>1, <2>2, <2>3, PrefixOfPrefix
  <1>12. RowsOf("R1") \subseteq RowsOf("R1")'
    <2>1. "R1" \in Nodes
      BY DEF Nodes
    <2>2. replayed["R1"] <= replayed'["R1"]
      BY <1>6, <1>7, <2>1
    <2> QED
      BY <1>0, <1>8, <1>10, <2>1, <2>2, NodeGrows
  <1>13. ScriptTypeOK'
    <2>1. acked' \in SUBSET Int
      BY <1>0, <1>1, <1>4 DEF ScriptTypeOK
    <2> QED
      BY <1>0, <1>1, <1>2, <2>1, OnwardMoves DEF ScriptTypeOK
  <1>14. DelaysSet'
    BY <1>0, <1>1, <1>2, OtherCallsKeepDelays
  <1>15. CallsMade'
    <2>1. ~IsCall(Cur, "stop", "P") /\ ~IsCall(Cur, "start", "P") /\ ~IsCall(Cur, "wait_row", "R1")
      BY <1>1 DEF IsCall
    <2>2. ASSUME inRecovery["R1"], NEW y \in acked', y \notin acked
          PROVE  IsCall(Cur, "put", "P") /\ Cur.x = y /\ "P" \in up
      <3>1. ok /\ y = x
        BY <1>4, <2>2
      <3>2. n = "P"
        BY <1>0, <1>1, <1>3, <2>2, <3>1 DEF NodeRoles, Nodes
      <3> QED
        BY <1>1, <1>3, <3>1, <3>2 DEF IsCall, n, x
    <2> QED
      BY <1>0, <1>1, <1>2, <1>12, <2>1, <2>2, CallKeepsRecord
  <1>16. Promotion'
    <2> SUFFICES ASSUME ~returned, ~inRecovery["R1"] PROVE "P" \notin up /\ acked' \subseteq RowsOf("R1")'
      BY <1>2 DEF Promotion
    <2>1. "P" \notin up /\ acked \subseteq RowsOf("R1")
      BY <1>0 DEF Promotion
    <2>2. CASE ~ok
      BY <1>4, <1>12, <2>1, <2>2
    <2>3. CASE ok
      <3>1. n = "R1" /\ n \in Nodes
        BY <1>0, <1>1, <1>3, <2>1, <2>3 DEF NodeRoles, Nodes
      <3>2. replayed[n] = Len(wal[n])
        BY <1>0, <1>3, <2>3, <3>1 DEF NodeRoles
      <3>3. replayed'["R1"] = Len(wal["R1"]) + 1 /\ wal'["R1"][Len(wal["R1"]) + 1] = x
        BY <1>5, <1>7, <2>3, <3>1, <3>2
      <3>4. x \in RowsOf("R1")'
        <4>1. Len(wal["R1"]) + 1 \in 1..replayed'["R1"]
          BY <1>5, <3>1, <3>3
        <4> QED
          BY <3>3, <4>1 DEF RowsOf
      <3> QED
        BY <1>4, <1>12, <2>1, <2>3, <3>1, <3>4
    <2> QED
      BY <2>2, <2>3
  <1> QED
    BY <1>8, <1>9, <1>11, <1>13, <1>14, <1>15, <1>16 DEF ReplicationInv

\* A stopped primary hands a streaming standby what it lacks; a started one is back.
LEMMA ContainerKeepsInv ==
  ASSUME ReplicationInv, ContainerCall PROVE ReplicationInv'
  <1> DEFINE n == Cur.n
             cut == {s \in Standbys : s = n \/ Upstream[s] = n}
             caughtUp == {s \in cut \ {n} : link[s] = "streaming" /\ s \in up}
             stops == Cur.op = "stop"
  <1>0. NodesTypeOK /\ ScriptTypeOK /\ NodeRoles /\ StandbyIsPrefix /\ CallsMade /\ Promotion /\ DelaysSet
    BY DEF ReplicationInv
  <1>1. Active /\ Cur.op \in {"stop", "start"} /\ scenario' = scenario /\ n \in Nodes /\ Proceed
    <2>1. Active /\ Cur.op \in {"stop", "start"} /\ scenario' = scenario /\ Proceed
      BY DEF ContainerCall, AtCall
    <2> QED
      BY <1>0, <2>1, CallAtHand
  <1>2. UNCHANGED <<replayed, inRecovery, slow, acked>>
    BY DEF ContainerCall
  <1>3. /\ stops => /\ up' = up \ {n}
                    /\ wal' = [m \in Nodes |-> IF m \in caughtUp THEN wal[n] ELSE wal[m]]
                    /\ link' = [s \in Standbys |-> IF s \in cut THEN "none" ELSE link[s]]
                    /\ returned' = returned
        /\ ~stops => /\ up' = up \cup {n} /\ wal' = wal /\ link' = link
                     /\ returned' = (returned \/ (n = "P" /\ ~inRecovery["R1"]))
    BY DEF ContainerCall
  <1>4. \A m \in caughtUp : m \in Standbys /\ m \in Nodes /\ Upstream[m] = n /\ inRecovery[m]
    BY <1>0 DEF NodeRoles, Standbys, Nodes
  <1>5. \A m \in Nodes : /\ wal[m] \in Seq(Int) /\ Len(wal[m]) \in Nat
                         /\ replayed[m] \in Nat /\ replayed[m] <= Len(wal[m]) /\ IsPrefix(wal[m], wal[m])
    BY <1>0, PrefixByPlace DEF NodesTypeOK
  <1> HIDE DEF n, cut, caughtUp, stops
  <1>6. \A m \in Nodes : wal'[m] = IF stops /\ m \in caughtUp THEN wal[n] ELSE wal[m]
    BY <1>3
  <1>7. \A m \in Nodes : wal'[m] \in Seq(Int) /\ IsPrefix(wal[m], wal'[m])
    BY <1>0, <1>1, <1>4, <1>5, <1>6 DEF StandbyIsPrefix
  <1>8. NodesTypeOK'
    <2>1. wal' \in [Nodes -> Seq(Int)]
      <3>1. CASE stops
        BY <1>1, <1>3, <1>5, <3>1
      <3>2. CASE ~stops
        BY <1>0, <1>3, <3>2 DEF NodesTypeOK
      <3> QED
        BY <3>1, <3>2
    <2>2. ASSUME NEW m \in Nodes PROVE replayed[m] <= Len(wal'[m])
      <3>1. Len(wal[m]) <= Len(wal'[m]) /\ Len(wal'[m]) \in Nat
        BY <1>5, <1>7, PrefixByPlace
      <3> QED
        BY <1>5, <3>1
    <2>3. up' \in SUBSET Nodes
      BY <1>0, <1>1, <1>3 DEF NodesTypeOK
    <2>4. link' \in [Standbys -> {"none", "catchup", "streaming"}]
      BY <1>0, <1>3 DEF NodesTypeOK
    <2> QED
      BY <1>0, <1>2, <2>1, <2>2, <2>3, <2>4 DEF NodesTypeOK
  <1>9. NodeRoles'
    <2>1. \A s \in Standbys : link'[s] # "none" => inRecovery[s]
      BY <1>0, <1>3 DEF NodeRoles
    <2>2. \A m \in Nodes : ~inRecovery[m] => replayed[m] = Len(wal'[m])
      BY <1>0, <1>4, <1>6 DEF NodeRoles
    <2> QED
      BY <1>0, <1>2, <2>1, <2>2 DEF NodeRoles
  <1>10. StandbyIsPrefix'
    <2> SUFFICES ASSUME NEW s \in Standbys, inRecovery[s] PROVE IsPrefix(wal'[s], wal'[Upstream[s]])
      BY <1>2 DEF StandbyIsPrefix
    <2>1. s \in Nodes /\ Upstream[s] \in Nodes /\ IsPrefix(wal[s], wal[Upstream[s]])
      BY <1>0 DEF StandbyIsPrefix, Standbys, Nodes, Upstream
    <2>2. CASE stops /\ s \in caughtUp
      <3>1. Upstream[s] = n /\ n \notin caughtUp
        BY <1>4, <2>2 DEF caughtUp
      <3> QED
        BY <1>1, <1>5, <1>6, <2>1, <2>2, <3>1
    <2>3. CASE ~(stops /\ s \in caughtUp)
      <3>1. wal'[s] = wal[s]
        BY <1>6, <2>1, <2>3
      <3> QED
        BY <1>5, <1>7, <2>1, <3>1, PrefixOfPrefix
    <2> QED
      BY <2>2, <2>3
  <1>11. RowsOf("R1") \subseteq RowsOf("R1")'
    <2>1. "R1" \in Nodes
      BY DEF Nodes
    <2>2. replayed["R1"] <= replayed'["R1"]
      BY <1>2, <1>5, <2>1
    <2> QED
      BY <1>0, <1>7, <1>8, <2>1, <2>2, NodeGrows
  <1>12. ScriptTypeOK'
    <2>1. returned' \in BOOLEAN
      BY <1>0, <1>3 DEF ScriptTypeOK
    <2> QED
      BY <1>0, <1>1, <1>2, <2>1, OnwardMoves DEF ScriptTypeOK
  <1>13. DelaysSet'
    BY <1>0, <1>1, <1>2, OtherCallsKeepDelays
  <1>14. CallsMade'
    <2>1. ~IsCall(Cur, "wait_row", "R1")
      BY <1>1 DEF IsCall
    <2>2. "P" \in up' => "P" \in up \/ IsCall(Cur, "start", "P")
      BY <1>1, <1>3 DEF IsCall, n, stops
    <2>3. IsCall(Cur, "stop", "P") => "P" \notin up'
      BY <1>3 DEF IsCall, n, stops
    <2> QED
      BY <1>0, <1>1, <1>2, <1>11, <2>1, <2>2, <2>3, CallKeepsRecord
  <1>15. Promotion'
    <2> SUFFICES ASSUME ~returned', ~inRecovery["R1"] PROVE "P" \notin up' /\ acked \subseteq RowsOf("R1")'
      BY <1>2 DEF Promotion
    <2>1. ~returned /\ (stops \/ n # "P")
      <3>1. CASE stops
        BY <1>3, <3>1
      <3>2. CASE ~stops
        <4>1. returned' = (returned \/ (n = "P" /\ ~inRecovery["R1"]))
          BY <1>3, <3>2
        <4> QED
          BY <4>1, Zenon
      <3> QED
        BY <3>1, <3>2
    <2> QED
      BY <1>0, <1>3, <1>11, <2>1 DEF Promotion
  <1> QED
    BY <1>8, <1>9, <1>10, <1>12, <1>13, <1>14, <1>15 DEF ReplicationInv

\* What is promoted is R1, behind a stopped primary, with all that was written.
LEMMA PromoteKeepsInv ==
  ASSUME ReplicationInv, PromoteCall PROVE ReplicationInv'
  <1>0. NodesTypeOK /\ ScriptTypeOK /\ NodeRoles /\ StandbyIsPrefix /\ CallsMade /\ Promotion /\ DelaysSet
    BY DEF ReplicationInv
  <1>1. Active /\ Cur.op = "promote" /\ scenario' = scenario /\ (Proceed \/ Throws)
    BY DEF PromoteCall, AtCall
  <1>2. UNCHANGED <<wal, replayed, up, slow, acked, returned>>
    BY DEF PromoteCall
  <1>3. /\ Cur = Calls[at] /\ Calls = CallsOf(scenario) /\ at \in DOMAIN Calls /\ at \in Nat \ {0}
        /\ CleanupAt = CleanupOf(scenario)
    BY <1>0, <1>1, CallAtHand DEF ScriptTypeOK
  <1>4. PromotesCarefully(scenario)
    BY <1>0, CarefulScripts DEF CarefulScripts, ScriptTypeOK
  <1>5. Cur.n = "R1" /\ at < CleanupAt /\ StoppedBefore(scenario, "P", at)
    BY <1>1, <1>3, <1>4 DEF PromotesCarefully
  <1>6. /\ "R1" \in Nodes /\ "R1" \in Standbys /\ "R1" # "P" /\ "R1" # "R2"
        /\ "P" \in Nodes /\ "R2" \in Nodes
    BY DEF Nodes, Standbys
  <1>7. \/ /\ replayed["R1"] = Len(wal["R1"])
           /\ inRecovery' = [inRecovery EXCEPT !["R1"] = FALSE]
           /\ link' = [link EXCEPT !["R1"] = "none"]
        \/ inRecovery' = inRecovery /\ link' = link
    BY <1>5 DEF PromoteCall
  <1>8. NodesTypeOK'
    <2>1. inRecovery' \in [Nodes -> BOOLEAN]
      BY <1>0, <1>6, <1>7 DEF NodesTypeOK
    <2>2. link' \in [Standbys -> {"none", "catchup", "streaming"}]
      BY <1>0, <1>6, <1>7 DEF NodesTypeOK
    <2> QED
      BY <1>0, <1>2, <2>1, <2>2 DEF NodesTypeOK
  <1>9. \A m \in Nodes : m # "R1" => inRecovery'[m] = inRecovery[m]
    BY <1>0, <1>7 DEF NodesTypeOK
  <1>10. inRecovery'["R1"] => inRecovery["R1"]
    BY <1>0, <1>6, <1>7 DEF NodesTypeOK
  <1>11. NodeRoles'
    <2>1. \A m \in Nodes : ~inRecovery'[m] => replayed[m] = Len(wal[m])
      BY <1>0, <1>7, <1>9 DEF NodeRoles
    <2>2. \A s \in Standbys : s # "R1" => link'[s] = link[s] /\ inRecovery'[s] = inRecovery[s]
      BY <1>0, <1>7, <1>9 DEF NodesTypeOK, Standbys, Nodes
    <2>3. link'["R1"] # "none" => inRecovery'["R1"]
      BY <1>0, <1>6, <1>7 DEF NodesTypeOK, NodeRoles
    <2> QED
      BY <1>0, <1>2, <1>6, <1>9, <2>1, <2>2, <2>3 DEF NodeRoles
  <1>12. StandbyIsPrefix'
    <2>1. \A s \in Standbys : inRecovery'[s] => inRecovery[s]
      BY <1>9, <1>10 DEF Standbys, Nodes
    <2> QED
      BY <1>0, <1>2, <2>1 DEF StandbyIsPrefix
  <1>13. RowsOf("R1")' = RowsOf("R1")
    BY <1>2 DEF RowsOf
  <1>14. ScriptTypeOK'
    BY <1>0, <1>1, <1>2, OnwardMoves DEF ScriptTypeOK
  <1>15. DelaysSet'
    BY <1>0, <1>1, <1>2, OtherCallsKeepDelays
  <1>16. CallsMade'
    <2>1. ~IsCall(Cur, "stop", "P") /\ ~IsCall(Cur, "start", "P") /\ ~IsCall(Cur, "wait_row", "R1")
      BY <1>1 DEF IsCall
    <2> QED
      BY <1>0, <1>1, <1>2, <1>10, <1>13, <2>1, CallKeepsRecord
  <1>17. Promotion'
    <2> SUFFICES ASSUME ~returned, ~inRecovery'["R1"] PROVE "P" \notin up /\ acked \subseteq RowsOf("R1")
      BY <1>2, <1>13 DEF Promotion
    <2>1. CASE ~inRecovery["R1"]
      BY <1>0, <2>1 DEF Promotion
    <2>2. CASE inRecovery["R1"]
      <3>1. "P" \notin up
        BY <1>0, <1>5 DEF CallsMade
      <3>2. ASSUME NEW x \in acked PROVE x \in RowsOf("R1")
        <4>1. PICK i \in 1..(at - 1) : /\ IsCall(Calls[i], "put", "P") /\ Calls[i].x = x
                                       /\ ~StoppedBefore(scenario, "P", i)
          BY <1>0, <1>5, <2>2 DEF CallsMade
        <4>2. PICK w \in 1..(at - 1) : IsCall(Calls[w], "wait_row", "R1") /\ Calls[w].x = x
          BY <1>1, <1>3, <1>4, <4>1 DEF PromotesCarefully
        <4> QED
          BY <1>0, <1>5, <4>2 DEF CallsMade
      <3> QED
        BY <3>1, <3>2
    <2> QED
      BY <2>1, <2>2
  <1> QED
    BY <1>8, <1>11, <1>12, <1>14, <1>15, <1>16, <1>17 DEF ReplicationInv

\* Every call of a script and every step of the servers keeps the invariant.
LEMMA ReplicationStepInv == ReplicationInv /\ [ReplicationNext]_replicationVars => ReplicationInv'
  <1> SUFFICES ASSUME ReplicationInv, [ReplicationNext]_replicationVars PROVE ReplicationInv'
    OBVIOUS
  <1>1. CASE ServerStep \/ TimePasses
    BY <1>1, ServersKeepInv
  <1>2. CASE ReadCall \/ WaitCall
    BY <1>2, ReadsKeepInv
  <1>3. CASE DelayCall
    BY <1>3, DelayCallKeepsInv
  <1>4. CASE WriteCall
    BY <1>4, WriteKeepsInv
  <1>5. CASE ContainerCall
    BY <1>5, ContainerKeepsInv
  <1>6. CASE PromoteCall
    BY <1>6, PromoteKeepsInv
  <1>7. CASE UNCHANGED replicationVars
    <2>1. UNCHANGED <<scenario, at, fate, slow, acked, returned, inRecovery, up, wal, replayed, link>>
      BY <1>7 DEF replicationVars
    <2> QED
      BY <2>1, LinksKeepInv DEF ReplicationInv, NodesTypeOK, NodeRoles
  <1> QED
    BY <1>1, <1>2, <1>3, <1>4, <1>5, <1>6, <1>7 DEF ReplicationNext, ScriptStep

\* A promoted R1 is alone, and shows every row.
LEMMA ReplicationInvKeepsHistory == ReplicationInv => FailoverKeepsHistory
  <1> SUFFICES ASSUME ReplicationInv, ~returned
               PROVE  /\ Cardinality({n \in Nodes : Writable(n)}) <= 1
                      /\ ~inRecovery["R1"] => acked \subseteq RowsOf("R1")
    BY DEF FailoverKeepsHistory
  <1> DEFINE W == {n \in Nodes : Writable(n)}
  <1>1. NodeRoles /\ Promotion
    BY DEF ReplicationInv
  <1>2. \E n \in Nodes : W \subseteq {n}
    <2>1. CASE inRecovery["R1"]
      <3>1. W \subseteq {"P"}
        BY <1>1, <2>1 DEF NodeRoles, Nodes, Writable
      <3> QED
        BY <3>1 DEF Nodes
    <2>2. CASE ~inRecovery["R1"]
      <3>1. W \subseteq {"R1"}
        BY <1>1, <2>2 DEF NodeRoles, Promotion, Nodes, Writable
      <3> QED
        BY <3>1 DEF Nodes
    <2> QED
      BY <2>1, <2>2
  <1>3. Cardinality(W) <= 1
    <2>1. PICK n \in Nodes : W \subseteq {n}
      BY <1>2
    <2>2. IsFiniteSet({n}) /\ Cardinality({n}) = 1
      BY FS_Singleton
    <2>3. W \in SUBSET {n}
      BY <2>1
    <2> HIDE DEF W
    <2>4. Cardinality(W) <= Cardinality({n})
      BY <2>2, <2>3, FS_Subset
    <2> QED
      BY <2>2, <2>4
  <1>4. ~inRecovery["R1"] => acked \subseteq RowsOf("R1")
    BY <1>1 DEF Promotion
  <1> QED
    BY <1>3, <1>4

\* A script that is over has taken its delays back.
LEMMA ReplicationInvTakesDelaysBack == ReplicationInv => DelayIsTakenBack
  <1> SUFFICES ASSUME ReplicationInv, ~Active, slow # {}, fate # "delay" PROVE FALSE
    BY DEF DelayIsTakenBack
  <1>1. ScriptTypeOK /\ DelaysSet
    BY DEF ReplicationInv
  <1>2. /\ Len(Calls) \in Nat /\ DOMAIN Calls = 1..Len(Calls) /\ CleanupAt \in Nat /\ CleanupAt <= Len(Calls) + 1
        /\ at \in Nat
    BY <1>1, ScriptsAreCalls DEF ScriptTypeOK, Calls, CleanupAt
  <1>3. at > Len(Calls) /\ at >= CleanupAt
    BY <1>2 DEF Active
  <1>4. PICK n \in slow : TRUE
    OBVIOUS
  <1>5. PICK m \in DOMAIN Calls : m >= at
    BY <1>1, <1>3, <1>4 DEF DelaysSet
  <1> QED
    BY <1>2, <1>3, <1>5

\* FailoverKeepsHistory of the runs: in every failover script that stops the
\* primary first and waits for its rows, wherever it throws and whatever
\* connection breaks, one node at most takes writes until the old primary
\* returns, and the promoted node has every write that was acknowledged.
THEOREM FailoversKeepHistory == ReplicationSpec => []FailoverKeepsHistory
  <1>1. ReplicationInit => ReplicationInv
    BY ReplicationInitInv
  <1>2. ReplicationInv /\ [ReplicationNext]_replicationVars => ReplicationInv'
    BY ReplicationStepInv
  <1>3. ReplicationInv => FailoverKeepsHistory
    BY ReplicationInvKeepsHistory
  <1> QED
    BY <1>1, <1>2, <1>3, PTL DEF ReplicationSpec

\* Two of the three parts of ReportsHold: in every script a standby's WAL is a
\* prefix of its upstream's, and a script that is over leaves an apply delay
\* behind only when a call that sets one threw.
THEOREM StandbysFollowDelaysEnd == ReplicationSpec => [](StandbyIsPrefix /\ DelayIsTakenBack)
  <1>1. ReplicationInit => ReplicationInv
    BY ReplicationInitInv
  <1>2. ReplicationInv /\ [ReplicationNext]_replicationVars => ReplicationInv'
    BY ReplicationStepInv
  <1>3. ReplicationInv => StandbyIsPrefix /\ DelayIsTakenBack
    BY ReplicationInvTakesDelaysBack DEF ReplicationInv
  <1> QED
    BY <1>1, <1>2, <1>3, PTL DEF ReplicationSpec

-----------------------------------------------------------------------------
(* Pagination. *)

Events == [at : Int, id : Nat]
Before(rows, r) == {q \in rows : Key(q, r)}
Rank(rows, r) == Cardinality(Before(rows, r))
FiniteEvents(rows) == rows \in SUBSET Events /\ IsFiniteSet(rows)

\* ORDER BY created_at, id is a strict total order.
LEMMA KeyIsOrder ==
  ASSUME NEW r \in Events, NEW s \in Events
  PROVE  /\ ~Key(r, r)
         /\ ~(Key(r, s) /\ Key(s, r))
         /\ Key(r, s) \/ r = s \/ Key(s, r)
         /\ \A t \in Events : Key(r, s) /\ Key(s, t) => Key(r, t)
  <1>1. r.at \in Int /\ r.id \in Nat /\ s.at \in Int /\ s.id \in Nat
    BY DEF Events
  <1>2. r.at = s.at /\ r.id = s.id => r = s
    BY DEF Events
  <1>3. ASSUME NEW t \in Events, Key(r, s), Key(s, t) PROVE Key(r, t)
    <2>1. t.at \in Int /\ t.id \in Nat
      BY DEF Events
    <2> QED BY <1>1, <1>3, <2>1 DEF Key
  <1> QED BY <1>1, <1>2, <1>3 DEF Key

\* A row is before another exactly if its rank is smaller.
LEMMA RankOrders ==
  ASSUME NEW rows, FiniteEvents(rows), NEW r \in Events
  PROVE  /\ IsFiniteSet(Before(rows, r)) /\ Rank(rows, r) \in 0..Cardinality(rows)
         /\ r \in rows => Rank(rows, r) < Cardinality(rows)
         /\ \A s \in Events : Key(r, s) => Rank(rows, r) <= Rank(rows, s)
         /\ \A s \in Events : r \in rows /\ Key(r, s) => Rank(rows, r) < Rank(rows, s)
  <1>1. /\ IsFiniteSet(Before(rows, r)) /\ Rank(rows, r) \in Nat /\ Cardinality(rows) \in Nat
        /\ Rank(rows, r) <= Cardinality(rows)
        /\ Rank(rows, r) = Cardinality(rows) => Before(rows, r) = rows
    <2>1. Before(rows, r) \in SUBSET rows
      BY DEF Before
    <2> QED BY <2>1, FS_Subset, FS_CardinalityType DEF Rank, FiniteEvents
  <1>2. r \in rows => Before(rows, r) # rows
    BY KeyIsOrder DEF Before
  <1>3. ASSUME NEW s \in Events, Key(r, s)
        PROVE  /\ Rank(rows, r) <= Rank(rows, s)
               /\ r \in rows => Rank(rows, r) < Rank(rows, s)
    <2>1. Before(rows, r) \in SUBSET Before(rows, s)
      <3>1. \A q \in rows : q \in Events
        BY DEF FiniteEvents
      <3> QED BY <1>3, <3>1, KeyIsOrder DEF Before
    <2>2. IsFiniteSet(Before(rows, s)) /\ Rank(rows, s) \in Nat
      <3>1. Before(rows, s) \in SUBSET rows
        BY DEF Before
      <3> QED BY <3>1, FS_Subset, FS_CardinalityType DEF Rank, FiniteEvents
    <2>3. /\ Rank(rows, r) <= Rank(rows, s)
          /\ Rank(rows, r) = Rank(rows, s) => Before(rows, s) = Before(rows, r)
      BY <2>1, <2>2, FS_Subset DEF Rank
    <2>4. r \in rows => r \in Before(rows, s) /\ r \notin Before(rows, r)
      BY <1>3, KeyIsOrder DEF Before
    <2> QED BY <1>1, <2>2, <2>3, <2>4
  <1> QED BY <1>1, <1>2, <1>3

\* No two rows have the same rank, and there is one of each.
LEMMA RanksAreDistinct ==
  ASSUME NEW rows, FiniteEvents(rows)
  PROVE  /\ \A r, s \in rows : Rank(rows, r) = Rank(rows, s) => r = s
         /\ \A r, s \in rows : Rank(rows, r) < Rank(rows, s) <=> Key(r, s)
  <1>1. \A r \in rows : r \in Events
    BY DEF FiniteEvents
  <1>2. ASSUME NEW r \in rows, NEW s \in rows
        PROVE  /\ Rank(rows, r) = Rank(rows, s) => r = s
               /\ Rank(rows, r) < Rank(rows, s) <=> Key(r, s)
    <2>1. Rank(rows, r) \in Int /\ Rank(rows, s) \in Int
      BY <1>1, RankOrders
    <2>2. Key(r, s) => Rank(rows, r) < Rank(rows, s)
      BY <1>1, RankOrders
    <2>3. Key(s, r) => Rank(rows, s) < Rank(rows, r)
      BY <1>1, RankOrders
    <2>4. Key(r, s) \/ r = s \/ Key(s, r)
      BY <1>1, KeyIsOrder
    <2>5. r = s => ~Key(r, s)
      BY <1>1, KeyIsOrder
    <2> QED BY <2>1, <2>2, <2>3, <2>4, <2>5
  <1> QED BY <1>2

LEMMA EveryRankIsTaken ==
  ASSUME NEW rows, FiniteEvents(rows), NEW k \in 0..(Cardinality(rows) - 1)
  PROVE  \E r \in rows : Rank(rows, r) = k
  <1> DEFINE n == Cardinality(rows)
             rank == [r \in rows |-> Rank(rows, r)]
  <1>1. n \in Nat /\ \A r \in rows : r \in Events
    BY FS_CardinalityType DEF FiniteEvents
  <1>2. rank \in [rows -> 0..(n - 1)]
    <2>1. ASSUME NEW r \in rows PROVE Rank(rows, r) \in 0..(n - 1)
      <3>1. Rank(rows, r) \in 0..n /\ Rank(rows, r) < n
        BY <1>1, RankOrders
      <3> QED BY <1>1, <3>1
    <2> QED BY <2>1
  <1>3. \A r, s \in rows : rank[r] = rank[s] => r = s
    BY RanksAreDistinct
  <1>4. rank \in Injection(rows, 0..(n - 1))
    BY <1>2, <1>3 DEF Injection, IsInjective
  <1>5. IsFiniteSet(0..(n - 1)) /\ Cardinality(0..(n - 1)) = n
    <2>1. n - 1 \in Int /\ 0 \in Int
      BY <1>1
    <2>2. IsFiniteSet(0..(n - 1)) /\ Cardinality(0..(n - 1)) = IF 0 > n - 1 THEN 0 ELSE (n - 1) - 0 + 1
      BY <2>1, FS_Interval
    <2> HIDE DEF n
    <2> QED BY <1>1, <2>2
  <1>6. rank \in Surjection(rows, 0..(n - 1))
    BY <1>4, <1>5, FS_Injection
  <1>7. PICK r \in rows : rank[r] = k
    BY <1>6 DEF Surjection
  <1> QED BY <1>7

\* The rows of PageSize ranks, from rank skip on, in order.
IsPage(rows, skip, page) ==
    /\ page \in Seq(rows) /\ page \in Seq(Events) /\ Len(page) <= PageSize
    /\ skip + Len(page) <= Cardinality(rows) \/ page = <<>>
    /\ \A i \in 1..Len(page) : page[i] \in rows /\ Rank(rows, page[i]) = skip + i - 1
    /\ \A r \in rows : skip <= Rank(rows, r) /\ Rank(rows, r) < skip + PageSize =>
          Rank(rows, r) - skip + 1 \in 1..Len(page) /\ page[Rank(rows, r) - skip + 1] = r

LEMMA PageOfRanks ==
  ASSUME NEW rows, FiniteEvents(rows), NEW skip \in Nat
  PROVE  IsPage(rows, skip, OrderedFrom(rows, skip))
  <1> DEFINE n == Cardinality(rows)
             left == n - skip
             length == IF left < 0 THEN 0 ELSE IF left < PageSize THEN left ELSE PageSize
             RowAt(k) == CHOOSE r \in rows : Rank(rows, r) = k
             page == OrderedFrom(rows, skip)
  <1>1. n \in Nat /\ PageSize \in Nat \ {0} /\ \A r \in rows : r \in Events
    BY FS_CardinalityType, PagingSizes DEF FiniteEvents
  <1>2. page = [i \in 1..length |-> RowAt(skip + i - 1)]
    BY DEF OrderedFrom, Rank, Before
  <1> HIDE DEF page
  <1>3. length \in Nat /\ length <= PageSize /\ (length > 0 => skip + length <= n)
    <2> HIDE DEF n
    <2> QED BY <1>1
  <1>4. \A k \in 0..(n - 1) : RowAt(k) \in rows /\ Rank(rows, RowAt(k)) = k
    BY EveryRankIsTaken
  <1>5. \A i \in 1..length : skip + i - 1 \in 0..(n - 1)
    <2> HIDE DEF n, length
    <2> QED BY <1>1, <1>3
  <1>6. Len(page) = length /\ DOMAIN page = 1..length /\ page \in Seq(rows)
    <2>1. \A i \in 1..length : RowAt(skip + i - 1) \in rows
      BY <1>4, <1>5
    <2>2. page \in [1..length -> rows]
      <3> HIDE DEF length, RowAt
      <3> QED BY <1>2, <2>1
    <2> HIDE DEF length
    <2>3. page \in Seq(rows)
      BY <1>3, <2>2, SeqDef
    <2>4. DOMAIN page = 1..length /\ DOMAIN page = 1..Len(page) /\ Len(page) \in Nat
      BY <2>2, <2>3, LenProperties
    <2> QED BY <1>3, <2>3, <2>4
  <1>7. \A i \in 1..Len(page) : page[i] \in rows /\ Rank(rows, page[i]) = skip + i - 1
    <2> TAKE i \in 1..Len(page)
    <2>1. page[i] = RowAt(skip + i - 1) /\ skip + i - 1 \in 0..(n - 1)
      <3> HIDE DEF length, RowAt, n
      <3> QED BY <1>2, <1>5, <1>6
    <2> HIDE DEF RowAt
    <2> QED BY <1>4, <2>1
  <1>8. page \in Seq(Events)
    BY <1>1, <1>6, SeqMonotonic DEF FiniteEvents
  <1>9. ASSUME NEW r \in rows, skip <= Rank(rows, r), Rank(rows, r) < skip + PageSize
        PROVE  Rank(rows, r) - skip + 1 \in 1..Len(page) /\ page[Rank(rows, r) - skip + 1] = r
    <2> DEFINE k == Rank(rows, r)
    <2>1. k \in Nat /\ k < n
      <3>1. Rank(rows, r) \in 0..Cardinality(rows) /\ Rank(rows, r) < Cardinality(rows)
        BY <1>1, RankOrders
      <3> HIDE DEF n
      <3>2. n = Cardinality(rows)
        BY DEF n
      <3> QED BY <1>1, <3>1, <3>2
    <2>2. k - skip + 1 \in 1..length
      <3>1. skip <= k /\ k < skip + PageSize
        BY <1>9
      <3> HIDE DEF k, n
      <3> QED BY <1>1, <2>1, <3>1
    <2>3. page[k - skip + 1] \in rows /\ Rank(rows, page[k - skip + 1]) = k
      <3>1. page[k - skip + 1] \in rows /\ Rank(rows, page[k - skip + 1]) = skip + (k - skip + 1) - 1
        <4> HIDE DEF k, length
        <4> QED BY <1>6, <1>7, <2>2
      <3> HIDE DEF k
      <3>2. skip + (k - skip + 1) - 1 = k
        BY <2>1
      <3> QED BY <3>1, <3>2
    <2>4. page[k - skip + 1] = r
      BY <2>3, RanksAreDistinct
    <2> HIDE DEF length
    <2> QED BY <1>6, <2>2, <2>4
  <1>10. skip + Len(page) <= Cardinality(rows) \/ page = <<>>
    <2>1. Len(page) = 0 => page = <<>>
      BY <1>6, EmptySeq
    <2> HIDE DEF length
    <2> QED BY <1>3, <1>6, <2>1
  <1> HIDE DEF length, RowAt
  <1>11. IsPage(rows, skip, page)
    BY <1>3, <1>6, <1>7, <1>8, <1>9, <1>10 DEF IsPage
  <1> QED BY <1>11 DEF page

\* Pages are in order.
LEMMA PagesAscend ==
  ASSUME NEW rows, FiniteEvents(rows), NEW skip \in Nat, NEW page, IsPage(rows, skip, page),
         NEW i \in 1..Len(page), NEW j \in 1..Len(page), i < j
  PROVE  Key(page[i], page[j])
  <1>1. /\ page[i] \in rows /\ Rank(rows, page[i]) = skip + i - 1
        /\ page[j] \in rows /\ Rank(rows, page[j]) = skip + j - 1
    BY DEF IsPage
  <1>2. skip + i - 1 < skip + j - 1
    BY DEF FiniteEvents
  <1>3. Rank(rows, page[i]) < Rank(rows, page[j])
    BY <1>1, <1>2
  <1> QED BY <1>1, <1>3, RanksAreDistinct

\* One row more or less moves the ranks of the rows behind it by one.
LEMMA RankWithout ==
  ASSUME NEW rows, FiniteEvents(rows), NEW x \in rows, NEW r \in Events
  PROVE  /\ FiniteEvents(rows \ {x}) /\ Cardinality(rows \ {x}) = Cardinality(rows) - 1
         /\ Key(x, r) => Rank(rows \ {x}, r) = Rank(rows, r) - 1
         /\ ~Key(x, r) => Rank(rows \ {x}, r) = Rank(rows, r)
  <1>1. FiniteEvents(rows \ {x}) /\ Cardinality(rows \ {x}) = Cardinality(rows) - 1
    BY FS_RemoveElement DEF FiniteEvents
  <1>2. Before(rows \ {x}, r) = Before(rows, r) \ {x}
    BY DEF Before
  <1>3. IsFiniteSet(Before(rows, r))
    BY RankOrders
  <1>4. x \in Before(rows, r) <=> Key(x, r)
    BY DEF Before
  <1>5. Cardinality(Before(rows, r) \ {x}) =
          IF x \in Before(rows, r) THEN Cardinality(Before(rows, r)) - 1 ELSE Cardinality(Before(rows, r))
    BY <1>3, FS_RemoveElement
  <1> QED BY <1>1, <1>2, <1>4, <1>5 DEF Rank

\* A first page is empty only when there are no rows, and leaves nothing out.
LEMMA FirstPage ==
  ASSUME NEW rows, FiniteEvents(rows), NEW page, IsPage(rows, 0, page)
  PROVE  /\ page = <<>> => rows = {}
         /\ page # <<>> => /\ Last(page) \in rows
                           /\ \A r \in rows : ~Key(Last(page), r) => r \in ToSet(page)
  <1>1. /\ page \in Seq(rows) /\ Len(page) \in Nat /\ DOMAIN page = 1..Len(page)
        /\ PageSize \in Nat \ {0} /\ Cardinality(rows) \in Nat /\ Len(page) <= PageSize
        /\ \A r \in rows : r \in Events
    BY PagingSizes, LenProperties, FS_CardinalityType DEF IsPage, FiniteEvents
  <1>2. ASSUME NEW r \in rows, Rank(rows, r) < PageSize PROVE r \in ToSet(page) /\ page # <<>>
    <2>1. Rank(rows, r) \in Nat
      BY <1>1, RankOrders
    <2>2. Rank(rows, r) - 0 + 1 \in 1..Len(page) /\ page[Rank(rows, r) - 0 + 1] = r
      <3>1. 0 <= Rank(rows, r) /\ Rank(rows, r) < 0 + PageSize
        BY <1>1, <1>2, <2>1
      <3> QED BY <3>1 DEF IsPage
    <2>3. r \in ToSet(page)
      BY <1>1, <2>2 DEF ToSet
    <2>4. Len(page) # 0
      BY <1>1, <2>1, <2>2
    <2> QED BY <2>3, <2>4, EmptySeq
  <1>3. page = <<>> => rows = {}
    <2> SUFFICES ASSUME page = <<>>, rows # {} PROVE FALSE
      OBVIOUS
    <2>1. Cardinality(rows) # 0
      BY FS_EmptySet DEF FiniteEvents
    <2>2. 0 \in 0..(Cardinality(rows) - 1)
      BY <1>1, <2>1
    <2>3. PICK r \in rows : Rank(rows, r) = 0
      BY <2>2, EveryRankIsTaken
    <2> QED BY <1>1, <1>2, <2>3
  <1>4. ASSUME page # <<>>
        PROVE  Last(page) \in rows /\ \A r \in rows : ~Key(Last(page), r) => r \in ToSet(page)
    <2>1. Len(page) \in 1..Len(page)
      <3>1. Len(page) \in Nat \ {0}
        BY <1>1, <1>4, EmptySeq
      <3> QED BY <3>1
    <2>2. Last(page) \in rows /\ Rank(rows, Last(page)) = 0 + Len(page) - 1
      BY <2>1 DEF IsPage, Last
    <2>3. ASSUME NEW r \in rows, ~Key(Last(page), r) PROVE r \in ToSet(page)
      <3>1. Rank(rows, r) \in Nat
        BY <1>1, RankOrders
      <3>2. Rank(rows, r) <= Rank(rows, Last(page))
        <4>1. ~(Rank(rows, Last(page)) < Rank(rows, r))
          BY <2>2, <2>3, RanksAreDistinct
        <4>2. Rank(rows, Last(page)) \in Nat
          BY <1>1, <2>2, RankOrders
        <4> QED BY <3>1, <4>1, <4>2
      <3>3. Rank(rows, r) < PageSize
        BY <1>1, <2>2, <3>1, <3>2
      <3> QED BY <1>2, <3>3
    <2> QED BY <2>2, <2>3
  <1> QED BY <1>3, <1>4

Mutated == {"insert_before", "insert_mid", "delete_delivered", "delete_ahead"}
PageTypeOK ==
    /\ paging \in {"offset", "keyset"}
    /\ FiniteEvents(activity) /\ \A r \in activity : r.id > 0 /\ r.id < nextId
    /\ nextId \in Nat /\ Len(SeededAt) < nextId
    /\ delivered \in Seq(Events) /\ \A i \in 1..Len(delivered) : delivered[i].id > 0
    /\ lastPage \in Seq(Events) /\ pages \in Nat /\ between \in Seq(Mutated)

\* The client has its last page last, and nobody writes once it has them all.
ClientHasItsPage ==
    /\ pages = 0 => delivered = <<>> /\ lastPage = <<>>
    /\ lastPage # <<>> => delivered # <<>> /\ Last(delivered) = Last(lastPage)
    /\ Finished => between = <<>>

\* The cursor splits the table in what has been delivered and what will be.
KeysetDelivers ==
    paging = "keyset" =>
        /\ \A i, j \in 1..Len(delivered) : i < j => Key(delivered[i], delivered[j])
        /\ pages > 0 => \A r \in activity : r.id <= Len(SeededAt) /\ Behind(r) => r \in ToSet(delivered)
        /\ Finished => \A r \in activity : Behind(r)

\* What the table was when the last page was read, up to one mutation later.
FetchedFrom(rows) ==
    /\ baseline = NextPage(rows, pages, cursorFromRow)
    /\ paging = "offset" => lastPage = OrderedFrom(rows, PageSize * (pages - 1))
SinceFetch ==
    pages > 0 =>
        /\ between = <<>> => FetchedFrom(activity)
        /\ between = <<"insert_before">> => \E x \in activity : Behind(x) /\ FetchedFrom(activity \ {x})
        /\ between = <<"insert_mid">> => \E x \in activity : ~Behind(x) /\ FetchedFrom(activity \ {x})
        /\ between = <<"delete_delivered">> =>
              \E x \in Events \ activity : Behind(x) /\ FetchedFrom(activity \cup {x})
        /\ paging = "keyset" /\ ToSet(between) \subseteq {"insert_before", "delete_delivered"}
              => baseline = Upcoming

PageInv == PageTypeOK /\ ClientHasItsPage /\ KeysetDelivers /\ SinceFetch

\* Sequences of rows.
LEMMA EventSeqs ==
  ASSUME NEW s \in Seq(Events)
  PROVE  /\ Len(s) \in Nat /\ DOMAIN s = 1..Len(s)
         /\ s # <<>> => Len(s) \in 1..Len(s) /\ Last(s) \in Events /\ Last(s) = s[Len(s)]
         /\ ToSet(s) = {s[i] : i \in 1..Len(s)}
         /\ s = <<>> <=> Len(s) = 0
  <1>1. Len(s) \in Nat /\ DOMAIN s = 1..Len(s) /\ \A i \in 1..Len(s) : s[i] \in Events
    BY LenProperties
  <1>2. s = <<>> <=> Len(s) = 0
    BY EmptySeq
  <1>3. s # <<>> => Len(s) \in 1..Len(s)
    BY <1>1, <1>2
  <1> QED BY <1>1, <1>2, <1>3 DEF Last, ToSet

\* The rows a keyset page is taken from.
Ahead(rows, cursor) == {r \in rows : cursor = NoRow \/ AfterCursor(cursor, r)}

LEMMA AheadIsFinite ==
  ASSUME NEW rows, FiniteEvents(rows), NEW cursor
  PROVE  /\ FiniteEvents(Ahead(rows, cursor)) /\ Ahead(rows, cursor) \subseteq rows
         /\ IsPage(Ahead(rows, cursor), 0, runKeysetPage(rows, cursor))
  <1>1. Ahead(rows, cursor) \in SUBSET rows
    BY DEF Ahead
  <1>2. FiniteEvents(Ahead(rows, cursor))
    BY <1>1, FS_Subset DEF FiniteEvents
  <1>3. IsPage(Ahead(rows, cursor), 0, OrderedFrom(Ahead(rows, cursor), 0))
    BY <1>2, PageOfRanks
  <1>4. runKeysetPage(rows, cursor) = OrderedFrom(Ahead(rows, cursor), 0)
    BY DEF runKeysetPage, Ahead
  <1> QED BY <1>1, <1>2, <1>3, <1>4

\* Where the client is.
LEMMA CursorIsARow ==
  ASSUME PageTypeOK, ClientHasItsPage
  PROVE  /\ cursorFromRow \in Events
         /\ delivered = <<>> => cursorFromRow = NoRow
         /\ delivered # <<>> => /\ cursorFromRow = Last(delivered) /\ cursorFromRow # NoRow
                                /\ cursorFromRow = delivered[Len(delivered)]
                                /\ Len(delivered) \in 1..Len(delivered)
         /\ pages > 0 /\ ~Finished => cursorFromRow # NoRow
  <1>1. NoRow \in Events /\ NoRow.id = 0
    BY DEF NoRow, Events
  <1>2. ASSUME delivered # <<>>
        PROVE  /\ cursorFromRow = Last(delivered) /\ cursorFromRow # NoRow /\ cursorFromRow \in Events
               /\ cursorFromRow = delivered[Len(delivered)] /\ Len(delivered) \in 1..Len(delivered)
    <2>1. delivered \in Seq(Events) /\ \A i \in 1..Len(delivered) : delivered[i].id > 0
      BY DEF PageTypeOK
    <2>2. Len(delivered) \in 1..Len(delivered) /\ Last(delivered) \in Events /\ Last(delivered) = delivered[Len(delivered)]
      BY <1>2, <2>1, EventSeqs
    <2>3. cursorFromRow = Last(delivered)
      BY <1>2 DEF cursorFromRow
    <2>4. cursorFromRow.id > 0
      BY <2>1, <2>2, <2>3
    <2> QED BY <1>1, <2>2, <2>3, <2>4
  <1>3. delivered = <<>> => cursorFromRow = NoRow
    BY DEF cursorFromRow
  <1>4. pages > 0 /\ ~Finished => delivered # <<>>
    BY DEF ClientHasItsPage, Finished
  <1> QED BY <1>1, <1>2, <1>3, <1>4

LEMMA PageInitInv == PageInit => PageInv
  <1> SUFFICES ASSUME PageInit PROVE PageInv
    OBVIOUS
  <1>1. Len(SeededAt) \in Nat /\ DOMAIN SeededAt = 1..Len(SeededAt)
        /\ \A i \in 1..Len(SeededAt) : SeededAt[i] \in Int
    BY PagingSizes, LenProperties
  <1> DEFINE seeded(i) == [at |-> SeededAt[i], id |-> i]
  <1>2. activity = {seeded(i) : i \in 1..Len(SeededAt)}
    BY <1>1 DEF PageInit
  <1>3. FiniteEvents(activity)
    <2>1. IsFiniteSet(1..Len(SeededAt))
      BY <1>1, FS_Interval
    <2> DEFINE f == [i \in 1..Len(SeededAt) |-> seeded(i)]
    <2>2. f \in Surjection(1..Len(SeededAt), activity)
      BY <1>2 DEF Surjection
    <2>3. IsFiniteSet(activity)
      BY <2>1, <2>2, FS_Surjection
    <2>4. activity \in SUBSET Events
      BY <1>1, <1>2 DEF Events
    <2> QED BY <2>3, <2>4 DEF FiniteEvents
  <1>4. \A r \in activity : r.id > 0 /\ r.id < nextId
    <2>1. nextId = Len(SeededAt) + 1
      BY DEF PageInit
    <2> QED BY <1>1, <1>2, <2>1
  <1>5. /\ paging \in {"offset", "keyset"} /\ nextId = Len(SeededAt) + 1
        /\ delivered = <<>> /\ pages = 0 /\ lastPage = <<>> /\ between = <<>>
    BY DEF PageInit
  <1>6. delivered \in Seq(Events) /\ lastPage \in Seq(Events) /\ between \in Seq(Mutated) /\ Len(delivered) = 0
    BY <1>5, EmptySeq
  <1>7. PageTypeOK
    BY <1>1, <1>3, <1>4, <1>5, <1>6 DEF PageTypeOK
  <1> QED BY <1>5, <1>6, <1>7 DEF PageInv, ClientHasItsPage, KeysetDelivers, SinceFetch, Finished

\* A page read behind the cursor.
LEMMA FetchKeepsInv == PageInv /\ FetchPage => PageInv'
  <1> SUFFICES ASSUME PageInv, FetchPage PROVE PageInv'
    OBVIOUS
  <1> DEFINE cursor == cursorFromRow
             page == NextPage(activity, pages, cursor)
             S == Ahead(activity, cursor)
  <1>1. PageTypeOK /\ ClientHasItsPage /\ KeysetDelivers /\ SinceFetch
    BY DEF PageInv
  <1>2. /\ lastPage' = page /\ delivered' = delivered \o page /\ pages' = pages + 1 /\ between' = <<>>
        /\ paging' = paging /\ activity' = activity /\ nextId' = nextId /\ ~Finished
        /\ baseline' = NextPage(activity, pages + 1, IF page = <<>> THEN cursor ELSE Last(page))
    BY DEF FetchPage
  <1>3. FiniteEvents(activity) /\ pages \in Nat /\ PageSize \in Nat /\ delivered \in Seq(Events)
    BY <1>1, PagingSizes DEF PageTypeOK
  <1>4. /\ page \in Seq(Events) /\ \A i \in 1..Len(page) : page[i] \in activity
        /\ paging = "keyset" => IsPage(S, 0, page)
        /\ paging = "offset" => page = OrderedFrom(activity, PageSize * pages)
    <2>1. CASE paging = "offset"
      <3>1. page = OrderedFrom(activity, PageSize * pages) /\ PageSize * pages \in Nat
        BY <1>3, <2>1 DEF NextPage, runOffsetPage
      <3>2. IsPage(activity, PageSize * pages, page)
        BY <1>3, <3>1, PageOfRanks
      <3> HIDE DEF page
      <3> QED BY <2>1, <3>1, <3>2 DEF IsPage
    <2>2. CASE paging # "offset"
      <3>1. IsPage(S, 0, page) /\ S \subseteq activity
        BY <1>3, <2>2, AheadIsFinite DEF NextPage
      <3> HIDE DEF page, S
      <3> QED BY <2>2, <3>1 DEF IsPage
    <2> QED BY <2>1, <2>2
  <1> HIDE DEF page, S
  <1>5. /\ delivered' \in Seq(Events) /\ Len(delivered') = Len(delivered) + Len(page)
        /\ \A i \in 1..Len(delivered) + Len(page) :
              delivered'[i] = IF i <= Len(delivered) THEN delivered[i] ELSE page[i - Len(delivered)]
        /\ Len(delivered) \in Nat /\ Len(page) \in Nat
    BY <1>2, <1>3, <1>4, ConcatProperties, EventSeqs
  <1>6. \A i \in 1..Len(delivered') : delivered'[i].id > 0
    <2> TAKE i \in 1..Len(delivered')
    <2>1. CASE i <= Len(delivered)
      <3>1. i \in 1..Len(delivered) /\ delivered'[i] = delivered[i]
        BY <1>5, <2>1
      <3> QED BY <1>1, <3>1 DEF PageTypeOK
    <2>2. CASE i > Len(delivered)
      <3>0. i \in 1..Len(delivered) + Len(page)
        BY <1>5
      <3>1. i - Len(delivered) \in 1..Len(page) /\ delivered'[i] = page[i - Len(delivered)]
        <4>1. \A l, p \in Nat : i \in 1..l + p /\ i > l => i - l \in 1..p
          OBVIOUS
        <4> QED BY <1>5, <2>2, <3>0, <4>1
      <3>2. delivered'[i] \in activity
        BY <1>4, <3>1
      <3> QED BY <1>1, <3>2 DEF PageTypeOK
    <2> QED BY <1>5, <2>1, <2>2
  <1>7. PageTypeOK'
    <2>1. between' \in Seq(Mutated) /\ pages' \in Nat /\ lastPage' \in Seq(Events)
      BY <1>2, <1>3, <1>4, EmptySeq
    <2> QED BY <1>1, <1>2, <1>5, <1>6, <2>1 DEF PageTypeOK
  <1>8. /\ page = <<>> => delivered' = delivered
        /\ page # <<>> => delivered' # <<>> /\ Last(delivered') = Last(page)
    <2>1. page = <<>> => delivered' = delivered
      BY <1>2, <1>3, ConcatEmptySeq
    <2>2. ASSUME page # <<>> PROVE delivered' # <<>> /\ Last(delivered') = Last(page)
      <3>1. Len(page) \in 1..Len(page) /\ Last(page) = page[Len(page)]
        BY <1>4, <2>2, EventSeqs
      <3>2. delivered'[Len(delivered) + Len(page)] = page[(Len(delivered) + Len(page)) - Len(delivered)]
        BY <1>5, <3>1
      <3>3. (Len(delivered) + Len(page)) - Len(delivered) = Len(page)
        BY <1>5
      <3>4. Len(delivered') # 0
        BY <1>5, <3>1
      <3>5. delivered' # <<>>
        BY <1>5, <3>4, EventSeqs
      <3>6. Last(delivered') = delivered'[Len(delivered')]
        BY <1>5, <3>5, EventSeqs
      <3> QED BY <1>5, <3>1, <3>2, <3>3, <3>5, <3>6
    <2> QED BY <2>1, <2>2
  <1>9. /\ cursorFromRow' = IF page = <<>> THEN cursor ELSE Last(page)
        /\ cursor \in Events /\ cursorFromRow' \in Events
    <2>1. cursorFromRow' = IF page = <<>> THEN cursor ELSE Last(page)
      BY <1>8 DEF cursorFromRow
    <2>2. cursor \in Events
      BY <1>1, CursorIsARow
    <2>3. page # <<>> => Last(page) \in Events
      BY <1>4, EventSeqs
    <2> QED BY <2>1, <2>2, <2>3
  <1>10. ClientHasItsPage'
    <2>1. pages' # 0
      BY <1>2, <1>3
    <2> QED BY <1>2, <1>8, <2>1 DEF ClientHasItsPage
  <1>11. KeysetDelivers'
    <2> SUFFICES ASSUME paging = "keyset" PROVE KeysetDelivers'
      BY <1>2 DEF KeysetDelivers
    <2>1. IsPage(S, 0, page) /\ FiniteEvents(S) /\ S \subseteq activity
      BY <1>3, <1>4, AheadIsFinite DEF S
    <2>2. \A r \in activity : r \in S <=> delivered = <<>> \/ Key(cursor, r)
      BY <1>1, CursorIsARow DEF S, Ahead, AfterCursor
    <2>3. \A r \in activity : r \in Events
      BY <1>3 DEF FiniteEvents
    <2>4. ASSUME NEW i \in 1..Len(delivered'), NEW j \in 1..Len(delivered'), i < j
          PROVE  Key(delivered'[i], delivered'[j])
      <3>1. CASE j <= Len(delivered)
        <4>1. i \in 1..Len(delivered) /\ j \in 1..Len(delivered) /\ delivered'[i] = delivered[i] /\ delivered'[j] = delivered[j]
          BY <1>5, <2>4, <3>1
        <4> QED BY <1>1, <2>4, <4>1 DEF KeysetDelivers
      <3>2. CASE i > Len(delivered)
        <4> DEFINE k == i - Len(delivered)
                   m == j - Len(delivered)
        <4>1. k \in 1..Len(page) /\ m \in 1..Len(page) /\ k < m /\ delivered'[i] = page[k] /\ delivered'[j] = page[m]
          BY <1>5, <2>4, <3>2
        <4> HIDE DEF k, m
        <4>2. Key(page[k], page[m])
          BY <2>1, <4>1, PagesAscend
        <4> QED BY <4>1, <4>2
      <3>3. CASE i <= Len(delivered) /\ j > Len(delivered)
        <4> DEFINE m == j - Len(delivered)
        <4>1. m \in 1..Len(page) /\ i \in 1..Len(delivered) /\ delivered'[i] = delivered[i] /\ delivered'[j] = page[m]
          BY <1>5, <2>4, <3>3
        <4> HIDE DEF m
        <4>2. delivered # <<>>
          BY <1>3, <4>1, EventSeqs
        <4>3. page[m] \in S
          BY <2>1, <4>1 DEF IsPage
        <4>4. Key(cursor, page[m]) /\ page[m] \in Events
          BY <2>1, <2>2, <2>3, <4>2, <4>3
        <4>5. /\ cursor = delivered[Len(delivered)] /\ Len(delivered) \in 1..Len(delivered)
              /\ delivered[i] \in Events
          BY <1>1, <1>3, <4>1, <4>2, CursorIsARow, ElementOfSeq
        <4>6. i = Len(delivered) \/ Key(delivered[i], cursor)
          <5>1. i = Len(delivered) \/ i < Len(delivered)
            BY <1>5, <4>1
          <5> QED BY <1>1, <4>1, <4>5, <5>1 DEF KeysetDelivers
        <4> QED BY <1>9, <4>1, <4>4, <4>5, <4>6, KeyIsOrder
      <3> QED BY <1>5, <3>1, <3>2, <3>3
    <2>5. ASSUME NEW r \in activity, r.id <= Len(SeededAt), ~Key(cursorFromRow', r)
          PROVE  r \in ToSet(delivered')
      <3>1. ToSet(delivered') = {delivered'[i] : i \in 1..Len(delivered) + Len(page)}
        BY <1>5, EventSeqs
      <3>2. r \in ToSet(delivered) => r \in ToSet(delivered')
        <4>1. ToSet(delivered) = {delivered[i] : i \in 1..Len(delivered)}
          BY <1>3, EventSeqs
        <4>2. \A i \in 1..Len(delivered) : i \in 1..Len(delivered) + Len(page) /\ delivered'[i] = delivered[i]
          BY <1>5
        <4> QED BY <3>1, <4>1, <4>2
      <3>3. r \in ToSet(page) => r \in ToSet(delivered')
        <4>1. ToSet(page) = {page[i] : i \in 1..Len(page)}
          BY <1>4, EventSeqs
        <4>2. \A i \in 1..Len(page) : /\ Len(delivered) + i \in 1..Len(delivered) + Len(page)
                                       /\ delivered'[Len(delivered) + i] = page[i]
          <5> TAKE i \in 1..Len(page)
          <5>1. Len(delivered) + i \in 1..Len(delivered) + Len(page) /\ ~(Len(delivered) + i <= Len(delivered))
                /\ (Len(delivered) + i) - Len(delivered) = i
            BY <1>5
          <5> QED BY <1>5, <5>1
        <4> QED BY <3>1, <4>1, <4>2
      <3>4. CASE r \in S
        <4>1. page # <<>>
          BY <2>1, <3>4, FirstPage
        <4>2. cursorFromRow' = Last(page)
          BY <1>9, <4>1
        <4>3. r \in ToSet(page)
          BY <2>1, <2>5, <3>4, <4>1, <4>2, FirstPage
        <4> QED BY <3>3, <4>3
      <3>5. CASE r \notin S
        <4>1. ~Key(cursor, r) /\ delivered # <<>>
          BY <2>2, <3>5
        <4>2. pages > 0
          BY <1>1, <1>3, <4>1 DEF ClientHasItsPage
        <4>3. r \in ToSet(delivered)
          BY <1>1, <2>5, <4>1, <4>2 DEF KeysetDelivers, Behind
        <4> QED BY <3>2, <4>3
      <3> QED BY <3>4, <3>5
    <2>6. ASSUME page = <<>>, NEW r \in activity PROVE ~Key(cursorFromRow', r)
      <3>1. S = {}
        BY <2>1, <2>6, FirstPage
      <3>2. ~Key(cursor, r)
        BY <2>2, <3>1
      <3> QED BY <1>9, <2>6, <3>2
    <2> QED BY <1>2, <2>4, <2>5, <2>6 DEF KeysetDelivers, Behind, Finished
  <1>12. SinceFetch'
    <2>1. NextPage(activity, pages + 1, cursorFromRow')
            = IF paging = "offset" THEN runOffsetPage(activity, PageSize * (pages + 1))
              ELSE runKeysetPage(activity, cursorFromRow')
      BY DEF NextPage
    <2>2. baseline' = IF paging = "offset" THEN runOffsetPage(activity, PageSize * (pages + 1))
                      ELSE runKeysetPage(activity, cursorFromRow')
      BY <1>2, <1>9, <2>1
    <2>3. FetchedFrom(activity)'
      <3>1. paging = "offset" => lastPage' = OrderedFrom(activity, PageSize * (pages' - 1))
        <4>1. pages' - 1 = pages
          BY <1>2, <1>3
        <4> QED BY <1>2, <1>4, <4>1
      <3> QED BY <1>2, <2>2, <3>1 DEF FetchedFrom, NextPage
    <2>4. (baseline = Upcoming)'
      BY <1>2, <2>2 DEF Upcoming, NextPage
    <2>5. between' # <<"insert_before">> /\ between' # <<"insert_mid">> /\ between' # <<"delete_delivered">>
      BY <1>2
    <2> QED BY <1>2, <2>3, <2>4, <2>5 DEF SinceFetch
  <1> QED BY <1>7, <1>10, <1>11, <1>12 DEF PageInv

\* One more mutation: a sequence of one is the first.
LEMMA FirstMutation ==
  ASSUME NEW S, NEW s \in Seq(S), NEW kind \in S
  PROVE  /\ Append(s, kind) \in Seq(S) /\ Append(s, kind) # <<>>
         /\ \A k : Append(s, kind) = <<k>> => s = <<>> /\ kind = k
         /\ ToSet(Append(s, kind)) = ToSet(s) \cup {kind}
  <1>0. /\ Append(s, kind) \in Seq(S) /\ Append(s, kind) # <<>> /\ Len(Append(s, kind)) = Len(s) + 1
        /\ \A i \in 1..Len(s) : Append(s, kind)[i] = s[i]
        /\ Append(s, kind)[Len(s) + 1] = kind
    BY AppendProperties
  <1>1. /\ Append(s, kind) \in Seq(S) /\ Append(s, kind) # <<>>
        /\ Len(s) \in Nat /\ Len(Append(s, kind)) = Len(s) + 1
        /\ \A i \in 1..Len(s) : Append(s, kind)[i] = s[i]
        /\ Append(s, kind)[Len(s) + 1] = kind
        /\ DOMAIN s = 1..Len(s) /\ DOMAIN Append(s, kind) = 1..Len(Append(s, kind))
    <2>1. Len(s) \in Nat /\ DOMAIN s = 1..Len(s)
      BY LenProperties
    <2>2. DOMAIN Append(s, kind) = 1..Len(Append(s, kind))
      BY <1>0, LenProperties
    <2> QED BY <1>0, <2>1, <2>2
  <1>2. ASSUME NEW k, Append(s, kind) = <<k>> PROVE s = <<>> /\ kind = k
    <2>1. Len(<<k>>) = 1 /\ <<k>>[1] = k
      OBVIOUS
    <2>2. Len(s) = 0
      BY <1>1, <1>2, <2>1
    <2>3. s = <<>>
      BY <2>2, EmptySeq
    <2> QED BY <1>1, <1>2, <2>1, <2>2, <2>3
  <1>3. ToSet(Append(s, kind)) = ToSet(s) \cup {kind}
    <2> DEFINE t == Append(s, kind)
    <2>0. ToSet(t) = {t[i] : i \in 1..Len(s) + 1} /\ ToSet(s) = {s[i] : i \in 1..Len(s)}
      BY <1>1 DEF ToSet
    <2>1. /\ \A i \in 1..Len(s) : t[i] = s[i] /\ i \in 1..Len(s) + 1
          /\ t[Len(s) + 1] = kind /\ Len(s) + 1 \in 1..Len(s) + 1
      BY <1>1
    <2>2. \A i \in 1..Len(s) + 1 : i \in 1..Len(s) \/ i = Len(s) + 1
      BY <1>1
    <2> HIDE DEF t
    <2>3. \A y \in ToSet(t) : y \in ToSet(s) \cup {kind}
      BY <2>0, <2>1, <2>2
    <2>4. \A y \in ToSet(s) \cup {kind} : y \in ToSet(t)
      BY <2>0, <2>1
    <2>5. ToSet(t) = ToSet(s) \cup {kind}
      BY <2>3, <2>4
    <2> QED BY <2>5 DEF t
  <1> QED BY <1>1, <1>2, <1>3

\* What neither a new row nor one that goes changes: the pages read so far.
LEMMA MutationKeepsInv ==
  ASSUME PageInv, ~Finished, NEW kind \in Mutated,
         UNCHANGED <<paging, delivered, pages, lastPage, baseline>>,
         between' = Append(between, kind), PageTypeOK',
         \A r \in activity' : r.id <= Len(SeededAt) => r \in activity,
         pages > 0 /\ kind = "insert_before" =>
             \E x \in activity' : Behind(x) /\ activity' \ {x} = activity,
         kind = "insert_mid" => \E x \in activity' : ~Behind(x) /\ activity' \ {x} = activity,
         kind = "delete_delivered" =>
             \E x \in Events \ activity' : Behind(x) /\ activity' \cup {x} = activity,
         pages > 0 /\ kind \in {"insert_before", "delete_delivered"} =>
             Ahead(activity', cursorFromRow) = Ahead(activity, cursorFromRow)
  PROVE  PageInv'
  <1>1. PageTypeOK /\ ClientHasItsPage /\ KeysetDelivers /\ SinceFetch
    BY DEF PageInv
  <1>2. cursorFromRow' = cursorFromRow /\ ~Finished' /\ \A r : Behind(r)' <=> Behind(r)
    BY DEF cursorFromRow, Finished, Behind
  <1>3. ClientHasItsPage'
    BY <1>1, <1>2 DEF ClientHasItsPage
  <1>4. KeysetDelivers'
    BY <1>1, <1>2 DEF KeysetDelivers
  <1>5. /\ between' # <<>>
        /\ \A k : between' = <<k>> => between = <<>> /\ kind = k
        /\ ToSet(between') = ToSet(between) \cup {kind}
    <2>1. between \in Seq(Mutated) /\ between' = Append(between, kind)
      BY <1>1 DEF PageTypeOK
    <2> QED BY <2>1, FirstMutation
  <1>7. SinceFetch'
    <2> SUFFICES ASSUME pages > 0 PROVE SinceFetch'
      BY DEF SinceFetch
    <2>1. between = <<>> => FetchedFrom(activity)
      BY <1>1 DEF SinceFetch
    <2>2. ASSUME between' = <<"insert_before">>
          PROVE  \E x \in activity' : Behind(x)' /\ FetchedFrom(activity \ {x})'
      <3>1. kind = "insert_before" /\ FetchedFrom(activity)
        BY <1>5, <2>1, <2>2
      <3>2. PICK x \in activity' : Behind(x) /\ activity' \ {x} = activity
        BY <3>1
      <3>3. FetchedFrom(activity \ {x})'
        BY <1>2, <3>1, <3>2 DEF FetchedFrom, NextPage
      <3> QED BY <1>2, <3>2, <3>3
    <2>3. ASSUME between' = <<"insert_mid">>
          PROVE  \E x \in activity' : ~Behind(x)' /\ FetchedFrom(activity \ {x})'
      <3>1. kind = "insert_mid" /\ FetchedFrom(activity)
        BY <1>5, <2>1, <2>3
      <3>2. PICK x \in activity' : ~Behind(x) /\ activity' \ {x} = activity
        BY <3>1
      <3>3. FetchedFrom(activity \ {x})'
        BY <1>2, <3>1, <3>2 DEF FetchedFrom, NextPage
      <3> QED BY <1>2, <3>2, <3>3
    <2>4. ASSUME between' = <<"delete_delivered">>
          PROVE  \E x \in Events \ activity' : Behind(x)' /\ FetchedFrom(activity \cup {x})'
      <3>1. kind = "delete_delivered" /\ FetchedFrom(activity)
        BY <1>5, <2>1, <2>4
      <3>2. PICK x \in Events \ activity' : Behind(x) /\ activity' \cup {x} = activity
        BY <3>1
      <3>3. FetchedFrom(activity \cup {x})'
        BY <1>2, <3>1, <3>2 DEF FetchedFrom, NextPage
      <3> QED BY <1>2, <3>2, <3>3
    <2>5. ASSUME paging = "keyset", ToSet(between') \subseteq {"insert_before", "delete_delivered"}
          PROVE  (baseline = Upcoming)'
      <3>1. kind \in {"insert_before", "delete_delivered"} /\ ToSet(between) \subseteq {"insert_before", "delete_delivered"}
        BY <1>5, <2>5
      <3>2. Ahead(activity', cursorFromRow) = Ahead(activity, cursorFromRow)
        BY <3>1
      <3>3. baseline = runKeysetPage(activity, cursorFromRow)
        BY <1>1, <2>5, <3>1 DEF SinceFetch, Upcoming, NextPage
      <3>4. runKeysetPage(activity', cursorFromRow) = runKeysetPage(activity, cursorFromRow)
        BY <3>2 DEF runKeysetPage, Ahead
      <3> QED BY <1>2, <2>5, <3>3, <3>4 DEF Upcoming, NextPage
    <2> QED BY <1>2, <1>5, <2>2, <2>3, <2>4, <2>5 DEF SinceFetch
  <1> QED BY <1>3, <1>4, <1>7 DEF PageInv

LEMMA InsertKeepsInv ==
  ASSUME PageInv, ~Finished, NEW created \in CreatedAts, InsertRow(created)
  PROVE  PageInv'
  <1> DEFINE new == [at |-> created, id |-> nextId]
  <1>1. PageTypeOK /\ ClientHasItsPage
    BY DEF PageInv
  <1>2. /\ activity' = activity \cup {new} /\ nextId' = nextId + 1
        /\ between' = Append(between, IF Behind(new) THEN "insert_before" ELSE "insert_mid")
        /\ UNCHANGED <<paging, delivered, pages, lastPage, baseline>>
    BY DEF InsertRow
  <1>3. created \in Int
    <2>1. \A r \in activity : r.at \in Int
      BY <1>1 DEF PageTypeOK, FiniteEvents, Events
    <2>2. \A i \in DOMAIN SeededAt : SeededAt[i] \in Int
      BY PagingSizes, LenProperties
    <2>3. CASE created \in {SeededAt[i] : i \in DOMAIN SeededAt}
      BY <2>2, <2>3
    <2>4. CASE created \notin {SeededAt[i] : i \in DOMAIN SeededAt}
      <3>1. CASE activity = {}
        BY <2>4, <3>1 DEF CreatedAts
      <3>2. CASE activity # {}
        <4>1. created \in {r.at - 1 : r \in Earliest}
          BY <2>4, <3>2 DEF CreatedAts
        <4>2. PICK r \in activity : created = r.at - 1
          BY <4>1 DEF Earliest
        <4> QED BY <2>1, <4>2
      <3> QED BY <3>1, <3>2
    <2> QED BY <2>3, <2>4
  <1>4. new \in Events /\ new.id = nextId /\ nextId \in Nat
    BY <1>1, <1>3 DEF PageTypeOK, Events
  <1>5. new \notin activity /\ nextId > Len(SeededAt) /\ nextId > 0 /\ Len(SeededAt) \in Nat
    <2>1. Len(SeededAt) \in Nat
      BY PagingSizes, LenProperties
    <2>2. ~(nextId < nextId)
      BY <1>4
    <2> QED BY <1>1, <1>4, <2>1, <2>2 DEF PageTypeOK
  <1> DEFINE kind == IF Behind(new) THEN "insert_before" ELSE "insert_mid"
  <1> HIDE DEF new
  <1>6. PageTypeOK'
    <2>1. FiniteEvents(activity')
      BY <1>1, <1>2, <1>4, FS_AddElement DEF PageTypeOK, FiniteEvents
    <2>2. \A r \in activity' : r.id > 0 /\ r.id < nextId'
      <3> TAKE r \in activity'
      <3>1. CASE r \in activity
        <4>1. r.id > 0 /\ r.id < nextId /\ r.id \in Nat
          BY <1>1, <3>1 DEF PageTypeOK, FiniteEvents, Events
        <4> QED BY <1>2, <1>4, <4>1
      <3>2. CASE r = new
        BY <1>2, <1>4, <1>5, <3>2
      <3> QED BY <1>2, <3>1, <3>2
    <2>3. nextId' \in Nat /\ Len(SeededAt) < nextId'
      BY <1>2, <1>4, <1>5
    <2>4. between' \in Seq(Mutated)
      BY <1>1, <1>2, FirstMutation DEF PageTypeOK, Mutated
    <2> QED BY <1>1, <1>2, <2>1, <2>2, <2>3, <2>4 DEF PageTypeOK
  <1>7. \A r \in activity' : r.id <= Len(SeededAt) => r \in activity
    BY <1>2, <1>4, <1>5
  <1>8. new \in activity' /\ activity' \ {new} = activity
    BY <1>2, <1>5
  <1>9. ASSUME pages > 0, kind = "insert_before"
        PROVE  Ahead(activity', cursorFromRow) = Ahead(activity, cursorFromRow)
    <2>1. ~Key(cursorFromRow, new)
      BY <1>9 DEF Behind
    <2>2. cursorFromRow # NoRow
      BY <1>1, <1>9, CursorIsARow
    <2> QED BY <1>2, <2>1, <2>2 DEF Ahead, AfterCursor
  <1>10. /\ kind \in Mutated /\ between' = Append(between, kind)
         /\ kind = "insert_before" => Behind(new)
         /\ kind = "insert_mid" => ~Behind(new)
         /\ kind # "delete_delivered"
    BY <1>2 DEF Mutated
  <1> HIDE DEF kind
  <1>11. kind = "insert_before" => \E x \in activity' : Behind(x) /\ activity' \ {x} = activity
    BY <1>8, <1>10
  <1>12. kind = "insert_mid" => \E x \in activity' : ~Behind(x) /\ activity' \ {x} = activity
    BY <1>8, <1>10
  <1> QED BY <1>2, <1>6, <1>7, <1>9, <1>10, <1>11, <1>12, MutationKeepsInv

LEMMA DeleteKeepsInv ==
  ASSUME PageInv, ~Finished, NEW r \in activity, DeleteRow(r)
  PROVE  PageInv'
  <1>1. PageTypeOK /\ ClientHasItsPage
    BY DEF PageInv
  <1>2. /\ activity' = activity \ {r} /\ nextId' = nextId
        /\ between' = Append(between, IF Behind(r) THEN "delete_delivered" ELSE "delete_ahead")
        /\ UNCHANGED <<paging, delivered, pages, lastPage, baseline>>
    BY DEF DeleteRow
  <1>3. r \in Events
    BY <1>1 DEF PageTypeOK, FiniteEvents
  <1> DEFINE kind == IF Behind(r) THEN "delete_delivered" ELSE "delete_ahead"
  <1>4. PageTypeOK'
    <2>1. FiniteEvents(activity')
      BY <1>1, <1>2, FS_RemoveElement DEF PageTypeOK, FiniteEvents
    <2>2. between' \in Seq(Mutated)
      BY <1>1, <1>2, FirstMutation DEF PageTypeOK, Mutated
    <2> QED BY <1>1, <1>2, <2>1, <2>2 DEF PageTypeOK
  <1>5. ASSUME pages > 0, kind = "delete_delivered"
        PROVE  Ahead(activity', cursorFromRow) = Ahead(activity, cursorFromRow)
    <2>1. ~Key(cursorFromRow, r)
      BY <1>5 DEF Behind
    <2>2. cursorFromRow # NoRow
      BY <1>1, <1>5, CursorIsARow
    <2> QED BY <1>2, <2>1, <2>2 DEF Ahead, AfterCursor
  <1>6. /\ kind \in Mutated /\ between' = Append(between, kind)
        /\ kind = "delete_delivered" => Behind(r)
        /\ kind # "insert_before" /\ kind # "insert_mid"
    BY <1>2 DEF Mutated
  <1> HIDE DEF kind
  <1>7. r \in Events \ activity' /\ activity' \cup {r} = activity
    BY <1>2, <1>3
  <1>8. kind = "delete_delivered" => \E x \in Events \ activity' : Behind(x) /\ activity' \cup {x} = activity
    BY <1>6, <1>7
  <1>9. \A q \in activity' : q.id <= Len(SeededAt) => q \in activity
    BY <1>2
  <1> QED BY <1>2, <1>4, <1>5, <1>6, <1>8, <1>9, MutationKeepsInv

LEMMA PageStepInv == PageInv /\ [PageNext]_pageVars => PageInv'
  <1> SUFFICES ASSUME PageInv, [PageNext]_pageVars PROVE PageInv'
    OBVIOUS
  <1>1. CASE FetchPage
    BY <1>1, FetchKeepsInv
  <1>2. CASE ~Finished /\ \E created \in CreatedAts : InsertRow(created)
    BY <1>2, InsertKeepsInv
  <1>3. CASE ~Finished /\ \E r \in activity : DeleteRow(r)
    BY <1>3, DeleteKeepsInv
  <1>4. CASE UNCHANGED pageVars
    BY <1>4 DEF PageInv, pageVars, PageTypeOK, ClientHasItsPage, KeysetDelivers, SinceFetch, Finished, Behind,
                cursorFromRow, FetchedFrom, NextPage, Upcoming
  <1> QED BY <1>1, <1>2, <1>3, <1>4 DEF PageNext

\* Page after page: PageSize rows more.
LEMMA Skips ==
  ASSUME NEW p \in Nat, p > 0
  PROVE  /\ PageSize * (p - 1) \in Nat /\ PageSize * p \in Nat
         /\ PageSize * (p - 1) + PageSize = PageSize * p
  <1>1. PageSize \in Nat /\ PageSize > 0 /\ p - 1 \in Nat
    BY PagingSizes
  <1> QED BY <1>1

\* The last row of a full page, and where the next page begins.
LEMMA FullOffsetPage ==
  ASSUME PageInv, paging = "offset", Len(lastPage) = PageSize,
         NEW old, FiniteEvents(old), FetchedFrom(old)
  PROVE  /\ pages > 0 /\ cursorFromRow = Last(lastPage) /\ cursorFromRow \in old
         /\ PageSize * pages \in Nat /\ Rank(old, cursorFromRow) = PageSize * pages - 1
         /\ \A r \in ToSet(lastPage) : r \in old /\ Rank(old, r) < PageSize * pages
         /\ baseline = OrderedFrom(old, PageSize * pages)
  <1>1. PageTypeOK /\ ClientHasItsPage /\ PageSize \in Nat /\ PageSize > 0
    BY PagingSizes DEF PageInv
  <1>2. lastPage \in Seq(Events) /\ pages \in Nat
    BY <1>1 DEF PageTypeOK
  <1>3. lastPage # <<>>
    BY <1>1, <1>2, EventSeqs
  <1>4. pages > 0 /\ delivered # <<>> /\ Last(delivered) = Last(lastPage)
    BY <1>1, <1>2, <1>3 DEF ClientHasItsPage
  <1>5. cursorFromRow = Last(lastPage)
    BY <1>1, <1>4, CursorIsARow
  <1>6. /\ PageSize * (pages - 1) \in Nat /\ PageSize * pages \in Nat
        /\ PageSize * (pages - 1) + PageSize = PageSize * pages
    BY <1>2, <1>4, Skips
  <1> DEFINE skip == PageSize * (pages - 1)
             next == PageSize * pages
  <1>7. IsPage(old, skip, lastPage) /\ baseline = OrderedFrom(old, next)
    BY <1>6, PageOfRanks DEF FetchedFrom, NextPage, runOffsetPage
  <1>8. skip \in Nat /\ next \in Nat /\ skip + PageSize = next
    BY <1>6
  <1> HIDE DEF skip, next
  <1>9. \A i \in 1..PageSize : lastPage[i] \in old /\ Rank(old, lastPage[i]) = skip + i - 1
    BY <1>7 DEF IsPage
  <1>10. cursorFromRow = lastPage[PageSize] /\ PageSize \in 1..PageSize
    BY <1>1, <1>5 DEF Last
  <1>11. Rank(old, cursorFromRow) = next - 1 /\ cursorFromRow \in old
    BY <1>1, <1>8, <1>9, <1>10
  <1>12. ASSUME NEW r \in ToSet(lastPage) PROVE r \in old /\ Rank(old, r) < next
    <2>1. ToSet(lastPage) = {lastPage[i] : i \in 1..PageSize}
      BY <1>2, EventSeqs
    <2>2. PICK i \in 1..PageSize : r = lastPage[i]
      BY <2>1
    <2> QED BY <1>1, <1>8, <1>9, <2>2
  <1>13. /\ next \in Nat /\ Rank(old, cursorFromRow) = next - 1
         /\ \A r \in ToSet(lastPage) : r \in old /\ Rank(old, r) < next
         /\ baseline = OrderedFrom(old, next)
    BY <1>7, <1>8, <1>11, <1>12
  <1> QED BY <1>4, <1>5, <1>11, <1>13 DEF next

\* One row inserted before the window: the last row of the page comes again.
LEMMA OffsetRepeats ==
  ASSUME PageInv, paging = "offset", Len(lastPage) = PageSize, between = <<"insert_before">>
  PROVE  Head(Upcoming) = Last(lastPage)
  <1>1. PageTypeOK /\ SinceFetch /\ FiniteEvents(activity) /\ PageSize \in Nat /\ PageSize > 0
    BY PagingSizes DEF PageInv, PageTypeOK
  <1>2. pages > 0
    <2>1. lastPage \in Seq(Events) /\ pages \in Nat
      BY <1>1 DEF PageTypeOK
    <2>2. lastPage # <<>>
      BY <1>1, <2>1, EventSeqs
    <2> QED BY <2>1, <2>2 DEF PageInv, ClientHasItsPage
  <1>3. PICK x \in activity : Behind(x) /\ FetchedFrom(activity \ {x})
    BY <1>1, <1>2 DEF SinceFetch
  <1> DEFINE old == activity \ {x}
             last == cursorFromRow
             next == PageSize * pages
  <1>4. FiniteEvents(old) /\ x \in Events
    BY <1>1, FS_RemoveElement DEF FiniteEvents
  <1>5. /\ last = Last(lastPage) /\ last \in old /\ next \in Nat /\ Rank(old, last) = next - 1
    BY <1>3, <1>4, FullOffsetPage
  <1>6. last \in activity /\ last \in Events /\ x # last /\ ~Key(last, x)
    BY <1>1, <1>3, <1>5 DEF FiniteEvents, Behind
  <1>7. Key(x, last)
    BY <1>4, <1>6, KeyIsOrder
  <1>8. Rank(old, last) = Rank(activity, last) - 1 /\ Rank(activity, last) \in Nat
    <2>1. Rank(activity, last) \in 0..Cardinality(activity)
      BY <1>1, <1>6, RankOrders
    <2>2. Rank(activity \ {x}, last) = Rank(activity, last) - 1
      BY <1>1, <1>6, <1>7, RankWithout
    <2> QED BY <2>1, <2>2
  <1>9. Upcoming = OrderedFrom(activity, next) /\ IsPage(activity, next, Upcoming)
    BY <1>1, <1>5, PageOfRanks DEF Upcoming, NextPage, runOffsetPage
  <1> HIDE DEF next, last, old
  <1>10. Rank(activity, last) = next
    BY <1>5, <1>8
  <1>11. next - next + 1 = 1 /\ next <= next /\ next < next + PageSize
    BY <1>1, <1>5
  <1>12. Upcoming[1] = last
    BY <1>6, <1>9, <1>10, <1>11 DEF IsPage
  <1> QED BY <1>5, <1>12

\* One row of the window deleted: the first row of the next page is skipped.
LEMMA OffsetSkips ==
  ASSUME PageInv, paging = "offset", Len(lastPage) = PageSize,
         between = <<"delete_delivered">>, baseline # <<>>
  PROVE  Head(baseline) \notin ToSet(lastPage) \cup ToSet(Upcoming)
  <1>1. PageTypeOK /\ SinceFetch /\ FiniteEvents(activity) /\ PageSize \in Nat /\ PageSize > 0
    BY PagingSizes DEF PageInv, PageTypeOK
  <1>2. pages > 0
    <2>1. lastPage \in Seq(Events) /\ pages \in Nat
      BY <1>1 DEF PageTypeOK
    <2>2. lastPage # <<>>
      BY <1>1, <2>1, EventSeqs
    <2> QED BY <2>1, <2>2 DEF PageInv, ClientHasItsPage
  <1>3. PICK x \in Events \ activity : Behind(x) /\ FetchedFrom(activity \cup {x})
    BY <1>1, <1>2 DEF SinceFetch
  <1> DEFINE old == activity \cup {x}
             last == cursorFromRow
             next == PageSize * pages
             first == Head(baseline)
  <1>4. FiniteEvents(old) /\ x \in old /\ old \ {x} = activity
    BY <1>1, <1>3, FS_AddElement DEF FiniteEvents
  <1>5. /\ last \in old /\ next \in Nat /\ Rank(old, last) = next - 1
        /\ \A r \in ToSet(lastPage) : r \in old /\ Rank(old, r) < next
        /\ baseline = OrderedFrom(old, next)
    BY <1>3, <1>4, FullOffsetPage
  <1>6. IsPage(old, next, baseline)
    BY <1>4, <1>5, PageOfRanks
  <1>7. Upcoming = OrderedFrom(activity, next) /\ IsPage(activity, next, Upcoming)
    BY <1>1, <1>5, PageOfRanks DEF Upcoming, NextPage, runOffsetPage
  <1> HIDE DEF next, last, old
  <1>8. first = baseline[1] /\ first \in old /\ Rank(old, first) = next
    <2>1. baseline \in Seq(Events)
      BY <1>6 DEF IsPage
    <2>2. 1 \in 1..Len(baseline)
      <3>1. Len(baseline) \in Nat /\ Len(baseline) # 0
        BY <2>1, EventSeqs
      <3> QED BY <3>1
    <2>3. baseline[1] \in old /\ Rank(old, baseline[1]) = next + 1 - 1
      BY <1>6, <2>2 DEF IsPage
    <2> QED BY <1>5, <2>3
  <1> HIDE DEF first
  <1>9. \A r \in old : r \in Events
    BY <1>4 DEF FiniteEvents
  <1>10. Key(x, first)
    <2>1. Key(last, first)
      <3>1. Rank(old, last) < Rank(old, first)
        BY <1>5, <1>8
      <3> QED BY <1>4, <1>5, <1>8, <3>1, RanksAreDistinct
    <2>2. x = last \/ Key(x, last)
      BY <1>3, <1>4, <1>5, <1>9, KeyIsOrder DEF Behind, last
    <2> QED BY <1>4, <1>5, <1>8, <1>9, <2>1, <2>2, KeyIsOrder
  <1>11. Rank(activity, first) = next - 1
    BY <1>4, <1>8, <1>9, <1>10, RankWithout
  <1>12. ASSUME first \in ToSet(Upcoming) PROVE FALSE
    <2>1. Upcoming \in Seq(Events)
      BY <1>7 DEF IsPage
    <2>2. PICK i \in 1..Len(Upcoming) : first = Upcoming[i]
      BY <1>12, <2>1, EventSeqs
    <2>3. Rank(activity, first) = next + i - 1
      BY <1>7, <2>2 DEF IsPage
    <2> QED BY <1>5, <1>11, <2>2, <2>3
  <1>13. first \notin ToSet(lastPage)
    <2>1. ~(next < next)
      BY <1>5
    <2> QED BY <1>5, <1>8, <2>1
  <1> QED BY <1>12, <1>13 DEF first

\* One row inserted into the range of the next page: it is on that page.
LEMMA KeysetShowsNewRows ==
  ASSUME PageInv, paging = "keyset", pages > 0, between = <<"insert_mid">>, baseline # <<>>,
         NEW r \in activity, Key(cursorFromRow, r), Key(r, Last(baseline))
  PROVE  r \in ToSet(Upcoming)
  <1>1. PageTypeOK /\ SinceFetch /\ FiniteEvents(activity) /\ PageSize \in Nat /\ PageSize > 0
    BY PagingSizes DEF PageInv, PageTypeOK
  <1>2. PICK x \in activity : ~Behind(x) /\ FetchedFrom(activity \ {x})
    BY <1>1 DEF SinceFetch
  <1> DEFINE cursor == cursorFromRow
             old == Ahead(activity \ {x}, cursor)
             S == Ahead(activity, cursor)
             last == Last(baseline)
  <1>3. FiniteEvents(activity \ {x})
    BY <1>1, FS_RemoveElement DEF FiniteEvents
  <1>4. FiniteEvents(old) /\ IsPage(old, 0, baseline)
    BY <1>2, <1>3, AheadIsFinite DEF FetchedFrom, NextPage
  <1>5. FiniteEvents(S) /\ IsPage(S, 0, Upcoming)
    BY <1>1, AheadIsFinite DEF Upcoming, NextPage
  <1>6. x \in S /\ r \in S /\ old = S \ {x}
    BY <1>2 DEF Ahead, AfterCursor, Behind
  <1> HIDE DEF S, old
  <1>7. Len(baseline) \in 1..Len(baseline) /\ Len(baseline) <= PageSize /\ last = baseline[Len(baseline)]
    <2>1. baseline \in Seq(Events) /\ Len(baseline) <= PageSize
      BY <1>4 DEF IsPage
    <2> QED BY <2>1, EventSeqs
  <1>8. last \in old /\ Rank(old, last) = 0 + Len(baseline) - 1
    BY <1>4, <1>7 DEF IsPage
  <1>9. \A q \in S : q \in Events /\ Rank(S, q) \in Nat
    <2> TAKE q \in S
    <2>1. q \in Events
      BY <1>5 DEF FiniteEvents
    <2>2. Rank(S, q) \in 0..Cardinality(S)
      BY <1>5, <2>1, RankOrders
    <2> QED BY <2>1, <2>2
  <1>10. last \in S /\ Rank(S, last) <= Rank(old, last) + 1
    <2>1. last \in S /\ last \in Events
      BY <1>6, <1>8, <1>9
    <2>2. /\ Key(x, last) => Rank(S \ {x}, last) = Rank(S, last) - 1
          /\ ~Key(x, last) => Rank(S \ {x}, last) = Rank(S, last)
      BY <1>5, <1>6, <2>1, RankWithout
    <2> QED BY <1>6, <1>7, <1>8, <1>9, <2>1, <2>2
  <1> HIDE DEF last
  <1>11. Rank(S, r) < Rank(S, last)
    <2>1. Key(r, last)
      BY DEF last
    <2> QED BY <1>5, <1>6, <1>10, <2>1, RanksAreDistinct
  <1>12. 0 <= Rank(S, r) /\ Rank(S, r) < 0 + PageSize
    BY <1>1, <1>6, <1>7, <1>8, <1>9, <1>10, <1>11
  <1>13. Rank(S, r) - 0 + 1 \in 1..Len(Upcoming) /\ Upcoming[Rank(S, r) - 0 + 1] = r
    BY <1>5, <1>6, <1>12 DEF IsPage
  <1>14. Upcoming \in Seq(Events)
    BY <1>5 DEF IsPage
  <1>15. ToSet(Upcoming) = {Upcoming[i] : i \in 1..Len(Upcoming)}
    BY <1>14, EventSeqs
  <1> QED BY <1>13, <1>15

LEMMA PageInvIsExact == PageInv => PagesAreExact
  <1> SUFFICES ASSUME PageInv PROVE PagesAreExact
    OBVIOUS
  <1>1. PageTypeOK /\ ClientHasItsPage /\ KeysetDelivers /\ SinceFetch
    BY DEF PageInv
  <1>2. KeysetCorrectness
    <2>1. paging = "keyset" /\ pages > 0 /\ ToSet(between) \subseteq {"insert_before", "delete_delivered"}
            => Upcoming = baseline
      BY <1>1 DEF SinceFetch
    <2> QED BY <2>1, KeysetShowsNewRows DEF KeysetCorrectness
  <1>3. OffsetCorrectnessBug
    BY OffsetRepeats, OffsetSkips DEF OffsetCorrectnessBug
  <1>4. ASSUME paging = "keyset"
        PROVE  /\ \A i, j \in 1..Len(delivered) : i < j => Key(delivered[i], delivered[j])
               /\ \A r \in activity : r.id <= Len(SeededAt) /\ (Finished \/ ~Key(cursorFromRow, r))
                     => r \in ToSet(delivered) \/ pages = 0
    <2>1. pages = 0 \/ pages > 0
      BY <1>1 DEF PageTypeOK
    <2> QED BY <1>1, <1>4, <2>1 DEF KeysetDelivers, Behind
  <1> QED BY <1>2, <1>3, <1>4 DEF PagesAreExact

\* Keyset paging delivers every row once and in order, whatever is inserted and
\* deleted between the pages (keysetSql, keyset-correctness.ts), and OFFSET
\* repeats and skips the very rows that offset-correctness-bug.ts names.
THEOREM PagesAreExactAlways == PageSpec => []PagesAreExact
  <1>1. PageInit => PageInv
    BY PageInitInv
  <1>2. PageInv /\ [PageNext]_pageVars => PageInv'
    BY PageStepInv
  <1>3. PageInv => PagesAreExact
    BY PageInvIsExact
  <1> QED BY <1>1, <1>2, <1>3, PTL DEF PageSpec

-----------------------------------------------------------------------------
(* Observability. *)

LogSteps == {"request.start", "db.query.start", "db.query.end", "business_logic.start",
             "business_logic.end", "request.complete"}
Awaits == {"collecting", "body", "acquire_sleep", "acquire_query", "sleeping", "querying"}
Codes == {0, 200, 201, 404, 500}

\* The stages run in order, and requests are fired for the one that runs.
ObsPosition ==
    /\ obsScript \in {"structured", "metrics", "tracing", "narrative"}
    /\ stage \in Nat /\ 1 <= stage /\ stage <= 7 /\ fired \in Nat /\ fired <= stage
    /\ obsScript # "narrative" => stage <= 4
ObsRequests ==
    /\ bucket \in [Request -> Buckets] /\ phase \in [Request -> Awaits \cup {"unsent", "sent", "done"}]
    /\ code \in [Request -> Codes]
ObsMetrics ==
    /\ inFlight \in Nat /\ requestsTotal \in Nat /\ naive \in Nat /\ poolWaiting \in Nat /\ dbErrors \in Nat
    /\ errorsTotal \in [Routes -> Nat]
ObsLogs == lines \in [Request -> Seq(LogSteps)] /\ flushed \in [Request -> Nat]
ObsTypeOK == ObsPosition /\ ObsRequests /\ ObsMetrics /\ ObsLogs

\* The await a request is at tells what it asks for and what it has logged.
AwaitTells(r) ==
    /\ phase[r] = "unsent" <=> bucket[r] = "none"
    /\ phase[r] \in {"unsent", "sent"} => lines[r] = <<>>
    /\ phase[r] = "collecting" => bucket[r] = "metrics"
    /\ phase[r] = "body" => bucket[r] = "create"
    /\ phase[r] \in {"acquire_sleep", "sleeping"} => bucket[r] = "slow"
    /\ phase[r] \in {"acquire_query", "querying"} => bucket[r] \in pickBucket
    /\ phase[r] \in {"collecting", "body"} => lines[r] = <<"request.start">>
    /\ phase[r] \in {"acquire_sleep", "sleeping", "acquire_query", "querying"} =>
         lines[r] = <<"request.start", "db.query.start">>
    /\ phase[r] = "done" =>
         /\ lines[r] # <<>> /\ lines[r][Len(lines[r])] = "request.complete"
         /\ bucket[r] = "metrics" => code[r] = 200
         /\ dbErrors = 0 /\ bucket[r] # "metrics" => lines[r] = Path(bucket[r])

\* Where the script is, which requests were sent and which of them may be open.
Open(r) == phase[r] \notin {"unsent", "done"}
AtScrape == (obsScript = "metrics" /\ stage = 3) \/ (obsScript = "narrative" /\ stage = 4)
BeforeScrape ==
    \/ obsScript = "structured" /\ stage > 1
    \/ obsScript = "metrics" /\ stage = 2
    \/ obsScript = "narrative" /\ stage \in {2, 3}
AfterScrape == (obsScript = "metrics" /\ stage = 4) \/ (obsScript = "narrative" /\ stage > 4)
Scraping ==
    /\ Sent = 1 .. TrafficCount + 1 /\ bucket[TrafficCount + 1] = "metrics"
    /\ \A r \in 1 .. TrafficCount : phase[r] = "done"
    /\ HasReport("scrape") <=> phase[TrafficCount + 1] = "done"
Waits(n, asked) == Sent = 1 .. n /\ \A r \in Request : Open(r) => bucket[r] = asked
SentByStage ==
    /\ obsScript # "tracing" /\ stage = 1 => \E n \in 0 .. TrafficCount : Sent = 1 .. n
    /\ BeforeScrape => Sent = 1 .. TrafficCount /\ Quiet
    /\ AtScrape => \/ Sent = 1 .. TrafficCount /\ Quiet /\ ~HasReport("scrape")
                   \/ Scraping
    /\ obsScript = "metrics" /\ stage = 4 => Sent = 1 .. TrafficCount + 1 /\ Quiet
    /\ obsScript = "narrative" /\ stage = 5 =>
         IF fired = 5 THEN Waits(TrafficCount + 3, "slow") ELSE Sent = 1 .. TrafficCount + 1 /\ Quiet
    /\ obsScript = "narrative" /\ stage = 6 =>
         IF fired = 6 THEN Waits(TrafficCount + 5, "guest") ELSE Sent = 1 .. TrafficCount + 3 /\ Quiet
    /\ obsScript = "narrative" /\ stage = 7 => Quiet
    /\ obsScript = "tracing" /\ stage = 1 => Sent = 1 .. (IF fired = 1 THEN 4 ELSE 0)
    /\ obsScript = "tracing" /\ stage > 1 => Sent = 1 .. 4 /\ Quiet
\* The scrape is the only request of /metrics.
OneScrape ==
    \A r \in Request : bucket[r] = "metrics" => r = TrafficCount + 1 /\ (AtScrape \/ AfterScrape)
\* A report is there from its stage on.
ReportsInPlace ==
    /\ HasReport("scrape") => AtScrape \/ AfterScrape
    /\ HasReport("error_burst") => obsScript = "narrative" /\ stage > 5
    /\ HasReport("parse") => IF obsScript = "narrative" THEN stage > 3
                             ELSE obsScript \in {"structured", "tracing"} /\ stage = 4
\* What was sent to the log before the flush is in the file the parser reads.
Flushed ==
    obsScript # "metrics" /\ stage = 3 => \A r \in Request : flushed[r] = Len(lines[r])

\* What the parser found is still so, and only the scrape can add to it.
ParsedOf == IF obsScript = "tracing" THEN 1 .. 4 ELSE 1 .. TrafficCount
ParseHolds ==
    HasReport("parse") =>
        LET parsed == reads["parse"] IN
        /\ {r \in Request : parsed.traces[r] # <<>>} = ParsedOf
        /\ \A r \in ParsedOf : bucket[r] \in pickBucket
        /\ parsed.byRoute["/orders"].total + parsed.byRoute["/orders/:id"].total = Cardinality(ParsedOf)
        /\ obsScript = "structured" =>
             parsed.naive.successfullyParsed <= parsed.naive.totalLines - parsed.byRoute["/orders/:id"].errorCount
        /\ obsScript = "narrative" /\ stage = 4 =>
             parsed.byRoute["/orders/:id"].errorCount = Cardinality(Failed("/orders/:id"))
        /\ obsScript = "narrative" /\ HasReport("scrape") =>
             reads["scrape"].errors["/orders/:id"] = parsed.byRoute["/orders/:id"].errorCount
        /\ dbErrors = 0 => \A r \in ParsedOf : parsed.traces[r] = Path(bucket[r])

ObsInv ==
    /\ ObsTypeOK /\ (\A r \in Request : AwaitTells(r)) /\ SentByStage /\ OneScrape /\ ReportsInPlace
    /\ Flushed /\ ParseHolds /\ CountersAreTheAnswers /\ ScrapeMatches /\ ErrorsDoNotSleep

\* Where each stage stands in its script.
LEMMA StagePositions ==
  ASSUME ObsPosition
  PROVE  /\ At("traffic") <=> obsScript # "tracing" /\ stage = 1
         /\ At("flush") <=> stage = 2
         /\ At("parse") <=> obsScript # "metrics" /\ stage = 3
         /\ At("scrape") <=> AtScrape
         /\ At("trace") <=> obsScript = "tracing" /\ stage = 1
         /\ At("slow_burst") <=> obsScript = "narrative" /\ stage = 5
         /\ At("error_burst") <=> obsScript = "narrative" /\ stage = 6
  <1>1. CASE obsScript = "structured"
    <2>1. Stages[obsScript] = <<"traffic", "flush", "parse">>
      BY <1>1 DEF Stages
    <2>2. stage \in {1, 2, 3, 4}
      BY <1>1 DEF ObsPosition
    <2> QED BY <1>1, <2>1, <2>2 DEF At, AtScrape
  <1>2. CASE obsScript = "metrics"
    <2>1. Stages[obsScript] = <<"traffic", "flush", "scrape">>
      BY <1>2 DEF Stages
    <2>2. stage \in {1, 2, 3, 4}
      BY <1>2 DEF ObsPosition
    <2> QED BY <1>2, <2>1, <2>2 DEF At, AtScrape
  <1>3. CASE obsScript = "tracing"
    <2>1. Stages[obsScript] = <<"trace", "flush", "parse">>
      BY <1>3 DEF Stages
    <2>2. stage \in {1, 2, 3, 4}
      BY <1>3 DEF ObsPosition
    <2> QED BY <1>3, <2>1, <2>2 DEF At, AtScrape
  <1>4. CASE obsScript = "narrative"
    <2>1. Stages[obsScript] = <<"traffic", "flush", "parse", "scrape", "slow_burst", "error_burst">>
      BY <1>4 DEF Stages
    <2>2. stage \in {1, 2, 3, 4, 5, 6, 7}
      BY <1>4 DEF ObsPosition
    <2> QED BY <1>4, <2>1, <2>2 DEF At, AtScrape
  <1> QED BY <1>1, <1>2, <1>3, <1>4 DEF ObsPosition

\* There are finitely many requests, so they can be counted.
LEMMA RequestsAreFinite == IsFiniteSet(Request) /\ \A S \in SUBSET Request : IsFiniteSet(S) /\ Cardinality(S) \in Nat
  <1>1. TrafficCount + 5 \in Int
    BY ObservedSizes
  <1>2. IsFiniteSet(Request)
    BY <1>1, FS_Interval DEF Request
  <1> QED BY <1>2, FS_Subset, FS_CardinalityType

\* There are n numbers from 1 to n.
LEMMA CountUpTo == ASSUME NEW n \in Nat PROVE Cardinality(1 .. n) = n
  BY FS_Interval

\* Requests are numbered as they are sent.
LEMMA FreshIsNext == ASSUME NEW n \in Nat, Sent = 1 .. n PROVE Fresh = n + 1
  <1>1. Cardinality(1 .. n) = n
    BY CountUpTo
  <1> QED BY <1>1 DEF Fresh

\* What a request logs when it is answered ends with its completion.
LEMMA AnswerIsLogged ==
  ASSUME NEW s \in Seq(LogSteps), NEW t \in Seq(LogSteps)
  PROVE  LET u == s \o (t \o <<"request.complete">>)
         IN  u \in Seq(LogSteps) /\ u # <<>> /\ u[Len(u)] = "request.complete"
  <1> DEFINE c == <<"request.complete">>
             work == t \o c
             u == s \o work
  <1>1. c \in Seq(LogSteps) /\ Len(c) = 1 /\ c[1] = "request.complete"
    BY DEF LogSteps
  <1>2. Len(s) \in Nat /\ Len(t) \in Nat
    OBVIOUS
  <1> HIDE DEF c
  <1>3. work \in Seq(LogSteps) /\ Len(work) = Len(t) + 1 /\ work[Len(t) + 1] = c[1]
    <2>1. /\ t \o c \in Seq(LogSteps) /\ Len(t \o c) = Len(t) + Len(c)
          /\ \A i \in 1 .. Len(t) + Len(c) : (t \o c)[i] = IF i <= Len(t) THEN t[i] ELSE c[i - Len(t)]
      BY <1>1, ConcatProperties
    <2> QED BY <1>1, <1>2, <2>1
  <1> HIDE DEF work
  <1>4. u \in Seq(LogSteps) /\ Len(u) = Len(s) + (Len(t) + 1) /\ u[Len(u)] = work[Len(t) + 1]
    <2>1. /\ s \o work \in Seq(LogSteps) /\ Len(s \o work) = Len(s) + Len(work)
          /\ \A i \in 1 .. Len(s) + Len(work) : (s \o work)[i] = IF i <= Len(s) THEN s[i] ELSE work[i - Len(s)]
      BY <1>3, ConcatProperties
    <2> QED BY <1>2, <1>3, <2>1
  <1>5. u # <<>>
    BY <1>2, <1>4
  <1> QED BY <1>1, <1>3, <1>4, <1>5 DEF c, work

Opening == <<"request.start", "db.query.start">>
\* The path of a request is what its steps log one after the other.
LEMMA PathInSteps ==
  ASSUME NEW work \in Seq(LogSteps)
  PROVE  Opening \o ((<<"db.query.end">> \o work) \o <<"request.complete">>)
           = <<"request.start", "db.query.start", "db.query.end">> \o work \o <<"request.complete">>
  <1> DEFINE e == <<"db.query.end">>
             c == <<"request.complete">>
  <1>1. Opening \in Seq(LogSteps) /\ e \in Seq(LogSteps) /\ c \in Seq(LogSteps)
    BY DEF Opening, LogSteps
  <1>2. Opening \o e = <<"request.start", "db.query.start", "db.query.end">>
    <2> DEFINE three == <<"request.start", "db.query.start", "db.query.end">>
    <2>1. Len(Opening) = 2 /\ Opening[1] = "request.start" /\ Opening[2] = "db.query.start"
      BY DEF Opening
    <2>2. Len(e) = 1 /\ e[1] = "db.query.end"
      OBVIOUS
    <2>3. /\ Opening \o e \in Seq(LogSteps) /\ Len(Opening \o e) = Len(Opening) + Len(e)
          /\ \A i \in 1 .. Len(Opening) + Len(e) :
               (Opening \o e)[i] = IF i <= Len(Opening) THEN Opening[i] ELSE e[i - Len(Opening)]
      <3> HIDE DEF e
      <3> QED BY <1>1, ConcatProperties
    <2>4. three \in Seq(LogSteps) /\ Len(three) = 3
          /\ three[1] = "request.start" /\ three[2] = "db.query.start" /\ three[3] = "db.query.end"
      BY DEF LogSteps
    <2> DEFINE oe == Opening \o e
    <2>5. oe \in Seq(LogSteps) /\ Len(oe) = 3 /\ \A i \in 1..3 : oe[i] = three[i]
      <3>1. oe \in Seq(LogSteps) /\ Len(oe) = 3
        BY <2>1, <2>2, <2>3
      <3>2. oe[1] = Opening[1] /\ oe[2] = Opening[2] /\ oe[3] = e[1]
        BY <2>1, <2>2, <2>3
      <3>3. oe[1] = three[1] /\ oe[2] = three[2] /\ oe[3] = three[3]
        <4> HIDE DEF oe, three, e
        <4> QED BY <2>1, <2>2, <2>4, <3>2
      <3> HIDE DEF oe, three
      <3> QED BY <3>1, <3>3
    <2> HIDE DEF oe, three
    <2>6. oe = three
      BY <2>4, <2>5
    <2> QED BY <2>6 DEF oe, three
  <1> HIDE DEF e, c
  <1>3. e \o work \in Seq(LogSteps) /\ work \o c \in Seq(LogSteps)
    BY <1>1, ConcatProperties
  <1>4. Opening \o ((e \o work) \o c) = (Opening \o (e \o work)) \o c
    <2> DEFINE ev == e \o work
    <2>1. ev \in Seq(LogSteps)
      BY <1>3
    <2> HIDE DEF ev
    <2>2. Opening \o (ev \o c) = (Opening \o ev) \o c
      BY <1>1, <2>1, ConcatAssociative, SMTT(30)
    <2> QED BY <2>2 DEF ev
  <1>5. Opening \o (e \o work) = (Opening \o e) \o work
    BY <1>1, ConcatAssociative, SMTT(30)
  <1> QED BY <1>2, <1>4, <1>5 DEF e, c

\* Reading a log to its end is reading all of it.
LEMMA WholeLog == ASSUME NEW s \in Seq(LogSteps) PROVE SubSeq(s, 1, Len(s)) = s
  OBVIOUS

\* While a request is open the script waits where requests may be open.
LEMMA OpenHoldsTheScript ==
  ASSUME ObsInv, NEW r \in Request, Open(r)
  PROVE  /\ ~Quiet /\ ~BeforeScrape /\ r \in Sent /\ r \notin Done
         /\ ~(obsScript = "metrics" /\ stage = 4) /\ ~(obsScript = "narrative" /\ stage = 7)
         /\ obsScript = "narrative" /\ stage \in {5, 6} => fired = stage
         /\ obsScript = "tracing" => stage = 1
         /\ AtScrape => Scraping /\ r = TrafficCount + 1
         /\ ~(obsScript # "metrics" /\ stage = 3)
  <1>1. r \in Sent /\ r \notin Done
    BY DEF ObsInv, AwaitTells, Sent, Done, Open
  <1>2. ~Quiet
    BY <1>1 DEF Quiet
  <1>3. ~BeforeScrape /\ ~(obsScript = "metrics" /\ stage = 4) /\ ~(obsScript = "narrative" /\ stage = 7)
    BY <1>2 DEF ObsInv, SentByStage
  <1>4. obsScript = "narrative" /\ stage \in {5, 6} => fired = stage
    BY <1>2 DEF ObsInv, SentByStage
  <1>5. obsScript = "tracing" => stage = 1
    BY <1>2 DEF ObsInv, SentByStage, ObsTypeOK, ObsPosition
  <1>6. AtScrape => Scraping
    BY <1>2 DEF ObsInv, SentByStage
  <1>7. Scraping => r = TrafficCount + 1
    BY <1>1, ObservedSizes DEF Scraping, Open, Request
  <1>8. ~(obsScript # "metrics" /\ stage = 3)
    BY <1>3, <1>5 DEF BeforeScrape, ObsInv, ObsTypeOK, ObsPosition
  <1> QED BY <1>1, <1>2, <1>3, <1>4, <1>5, <1>6, <1>7, <1>8

\* What the server does to a request it has, at any of its awaits.
LEMMA ServerKeepsThePlan ==
  ASSUME ObsInv, NEW r \in Request, Open(r), NEW p \in Awaits \cup {"done"},
         UNCHANGED <<obsScript, stage, fired, bucket>>, phase' = [phase EXCEPT ![r] = p],
         HasReport("scrape")' <=> HasReport("scrape") \/ (bucket[r] = "metrics" /\ p = "done")
  PROVE  /\ ObsPosition' /\ Sent' = Sent /\ Done' = (IF p = "done" THEN Done \cup {r} ELSE Done)
         /\ SentByStage' /\ OneScrape' /\ Flushed'
  <1>1. ObsPosition /\ phase \in [Request -> Awaits \cup {"unsent", "sent", "done"}] /\ phase[r] # "done"
    BY DEF ObsInv, ObsTypeOK, ObsRequests, Open
  <1>2. ObsPosition'
    BY <1>1 DEF ObsPosition
  <1>3. Sent' = Sent
    BY DEF Sent
  <1>4. Done' = IF p = "done" THEN Done \cup {r} ELSE Done
    BY <1>1 DEF Done
  <1>5. \A q \in Request : Open(q)' => Open(q)
    BY <1>1 DEF Open
  <1>6. SentByStage'
    <2>1. (obsScript # "tracing" /\ stage = 1 => \E n \in 0 .. TrafficCount : Sent = 1 .. n)'
      BY <1>3 DEF ObsInv, SentByStage
    <2>2. (AtScrape => Scraping)'
      <3> SUFFICES ASSUME AtScrape PROVE Scraping'
        BY DEF AtScrape
      <3>1. Scraping /\ r = TrafficCount + 1
        BY OpenHoldsTheScript
      <3>2. HasReport("scrape")' <=> phase'[TrafficCount + 1] = "done"
        BY <1>1, <3>1 DEF Scraping
      <3>3. \A q \in 1 .. TrafficCount : phase'[q] = "done"
        BY <1>1, <3>1, ObservedSizes DEF Scraping, Request
      <3> QED BY <1>3, <3>1, <3>2, <3>3 DEF Scraping
    <2>3. (obsScript = "narrative" /\ stage = 5 => Waits(TrafficCount + 3, "slow") /\ fired = 5)'
      BY <1>3, <1>5, OpenHoldsTheScript DEF ObsInv, SentByStage, Waits, Open
    <2>4. (obsScript = "narrative" /\ stage = 6 => Waits(TrafficCount + 5, "guest") /\ fired = 6)'
      BY <1>3, <1>5, OpenHoldsTheScript DEF ObsInv, SentByStage, Waits, Open
    <2>5. (obsScript = "tracing" /\ stage = 1 => Sent = 1 .. (IF fired = 1 THEN 4 ELSE 0))'
      BY <1>3 DEF ObsInv, SentByStage
    <2>6. (~BeforeScrape /\ ~(obsScript = "metrics" /\ stage = 4) /\ ~(obsScript = "narrative" /\ stage = 7)
           /\ (obsScript = "tracing" => stage = 1))'
      BY OpenHoldsTheScript DEF BeforeScrape
    <2> QED BY <2>1, <2>2, <2>3, <2>4, <2>5, <2>6 DEF SentByStage
  <1>7. OneScrape'
    BY DEF ObsInv, OneScrape, AtScrape, AfterScrape
  <1>8. Flushed'
    BY OpenHoldsTheScript DEF Flushed
  <1> QED BY <1>2, <1>3, <1>4, <1>6, <1>7, <1>8

\* A step of the server from one await to the next one.
LEMMA MoveKeeps ==
  ASSUME ObsInv, NEW r \in Request, Open(r), NEW p \in Awaits, phase' = [phase EXCEPT ![r] = p],
         UNCHANGED <<obsScript, stage, fired, bucket, code, requestsTotal, errorsTotal, poolWaiting, flushed,
                     naive, dbErrors, reads>>,
         inFlight' = inFlight + (IF phase[r] = "sent" THEN 1 ELSE 0),
         lines' \in [Request -> Seq(LogSteps)], \A q \in Request \ {r} : lines'[q] = lines[q], AwaitTells(r)'
  PROVE  ObsInv'
  <1>1. ObsTypeOK /\ phase \in [Request -> Awaits \cup {"unsent", "sent", "done"}] /\ inFlight \in Nat
    BY DEF ObsInv, ObsTypeOK, ObsRequests, ObsMetrics
  <1>2. /\ ObsPosition' /\ Sent' = Sent /\ Done' = Done /\ SentByStage' /\ OneScrape' /\ Flushed'
    <2>1. HasReport("scrape")' <=> HasReport("scrape") \/ (bucket[r] = "metrics" /\ p = "done")
      BY DEF HasReport, Awaits
    <2>2. p \in Awaits \cup {"done"} /\ p # "done"
      BY DEF Awaits
    <2> QED BY <2>1, <2>2, ServerKeepsThePlan
  <1>3. ObsTypeOK'
    <2>1. ObsRequests'
      BY <1>1 DEF ObsTypeOK, ObsRequests
    <2>2. ObsMetrics'
      BY <1>1 DEF ObsTypeOK, ObsMetrics
    <2>3. ObsLogs'
      BY <1>1 DEF ObsTypeOK, ObsLogs
    <2> QED BY <1>2, <2>1, <2>2, <2>3 DEF ObsTypeOK
  <1>4. \A q \in Request : AwaitTells(q)'
    BY <1>1 DEF ObsInv, AwaitTells
  <1>5. ReportsInPlace' /\ ScrapeMatches' /\ ErrorsDoNotSleep'
    BY DEF ObsInv, ReportsInPlace, HasReport, AtScrape, AfterScrape, ScrapeMatches, ErrorsDoNotSleep
  <1>6. \A t \in Routes : Failed(t)' = Failed(t)
    BY <1>2 DEF Failed
  <1>7. ParseHolds'
    BY <1>6 DEF ObsInv, ParseHolds, HasReport, ParsedOf, Routes
  <1>8. CountersAreTheAnswers'
    <2> DEFINE W == {q \in Sent : phase[q] \notin {"sent", "done"}}
    <2>1. W' = W \cup {r}
      BY <1>1, <1>2, OpenHoldsTheScript DEF Sent, Awaits
    <2>2. phase[r] = "sent" <=> r \notin W
      BY OpenHoldsTheScript DEF Open
    <2>3. IsFiniteSet(W) /\ W \subseteq Request
      BY RequestsAreFinite DEF Sent
    <2>4. Cardinality(W \cup {r}) = IF r \in W THEN Cardinality(W) ELSE Cardinality(W) + 1
      BY <2>3, FS_AddElement
    <2>5. inFlight = Cardinality(W)
      BY DEF ObsInv, CountersAreTheAnswers
    <2>6. inFlight' = Cardinality(W')
      <3> HIDE DEF W
      <3> QED BY <1>1, <2>1, <2>2, <2>4, <2>5
    <2>7. ~Quiet'
      BY <1>2, OpenHoldsTheScript DEF Quiet
    <2> QED BY <1>2, <1>6, <2>6, <2>7 DEF ObsInv, CountersAreTheAnswers
  <1> QED BY <1>2, <1>3, <1>4, <1>5, <1>7, <1>8 DEF ObsInv

\* Counting with one element more or less.
LEMMA OneMoreOrLess ==
  ASSUME NEW S, IsFiniteSet(S), NEW x
  PROVE  /\ Cardinality(S) \in Nat /\ Cardinality({x}) = 1
         /\ x \in S => Cardinality(S \ {x}) \in Nat /\ Cardinality(S \ {x}) = Cardinality(S) - 1
         /\ x \notin S => Cardinality(S \cup {x}) = Cardinality(S) + 1
  <1>1. Cardinality(S) \in Nat /\ Cardinality({x}) = 1
    BY FS_CardinalityType, FS_Singleton
  <1>2. x \in S => Cardinality(S \ {x}) = Cardinality(S) - 1 /\ IsFiniteSet(S \ {x})
    BY FS_RemoveElement
  <1>3. x \notin S => Cardinality(S \cup {x}) = Cardinality(S) + 1
    BY FS_AddElement
  <1>4. IsFiniteSet(S \ {x}) => Cardinality(S \ {x}) \in Nat
    BY FS_CardinalityType
  <1> QED BY <1>1, <1>2, <1>3, <1>4

\* When the last open request is answered nobody is waiting for a connection.
LEMMA LastAnswerFreesThePool ==
  ASSUME ObsInv, NEW r \in Request, phase[r] \in {"sleeping", "querying", "collecting"}, NEW freed \in Nat,
         \A q \in Request \ {r} : ~Open(q)
  PROVE  waitingCount(freed) = 0
  <1>1. InPool("acquire_sleep") = 0 /\ InPool("acquire_query") = 0
    <2>1. {q \in Request : phase[q] = "acquire_sleep"} = {} /\ {q \in Request : phase[q] = "acquire_query"} = {}
      BY DEF Open
    <2> QED BY <2>1, FS_EmptySet DEF InPool
  <1>2. InPool("sleeping") + InPool("querying") <= 1
    <2> DEFINE S == {q \in Request : phase[q] = "sleeping"}
               Q == {q \in Request : phase[q] = "querying"}
    <2>1. (S = {} /\ Q = {}) \/ (S = {r} /\ Q = {}) \/ (S = {} /\ Q = {r})
      BY DEF Open
    <2>2. Cardinality({}) = 0 /\ Cardinality({r}) = 1
      BY FS_EmptySet, FS_Singleton
    <2> HIDE DEF S, Q
    <2>3. Cardinality(S) + Cardinality(Q) <= 1
      BY <2>1, <2>2
    <2> QED BY <2>3 DEF S, Q, InPool
  <1>3. InPool("sleeping") \in Nat /\ InPool("querying") \in Nat
    BY RequestsAreFinite DEF InPool
  <1> QED BY <1>1, <1>2, <1>3, ObservedSizes DEF waitingCount, Free

\* The answer to a request, from the query, the catch block or the registry.
LEMMA CompleteKeeps ==
  ASSUME ObsInv, NEW r \in Request, phase[r] \in {"sleeping", "querying", "collecting"},
         NEW status \in {200, 201, 404, 500}, NEW steps \in Seq(LogSteps), NEW freed \in Nat,
         Complete(r, status, steps, freed), UNCHANGED <<obsScript, stage, fired, bucket, flushed>>,
         dbErrors' \in {dbErrors, dbErrors + 1},
         bucket[r] = "metrics" => phase[r] = "collecting" /\ status = 200,
         dbErrors' = 0 /\ bucket[r] # "metrics" => lines'[r] = Path(bucket[r]),
         IF phase[r] = "collecting"
           THEN reads' = [s \in DOMAIN reads \cup {"scrape"} |-> IF s = "scrape" THEN Collected ELSE reads[s]]
           ELSE UNCHANGED reads
  PROVE  ObsInv'
  <1>1. /\ ObsTypeOK /\ AwaitTells(r) /\ Open(r) /\ phase[r] \notin {"sent", "done"}
        /\ phase' = [phase EXCEPT ![r] = "done"]
    BY DEF ObsInv, Open, Complete, AtAwait
  <1>2. phase[r] = "collecting" <=> bucket[r] = "metrics"
    BY <1>1 DEF AwaitTells
  <1>3. HasReport("scrape")' <=> HasReport("scrape") \/ bucket[r] = "metrics"
    BY <1>2 DEF HasReport
  <1>4. /\ ObsPosition' /\ Sent' = Sent /\ Done' = Done \cup {r} /\ SentByStage' /\ OneScrape' /\ Flushed'
    <2>1. HasReport("scrape")' <=> HasReport("scrape") \/ (bucket[r] = "metrics" /\ "done" = "done")
      BY <1>3
    <2>2. "done" \in Awaits \cup {"done"}
      OBVIOUS
    <2>3. /\ ObsPosition' /\ Sent' = Sent /\ Done' = (IF "done" = "done" THEN Done \cup {r} ELSE Done)
          /\ SentByStage' /\ OneScrape' /\ Flushed'
      BY <1>1, <2>1, <2>2, ServerKeepsThePlan
    <2> QED BY <2>3
  <1>5. \A q \in Request \ {r} : phase'[q] = phase[q] /\ code'[q] = code[q] /\ lines'[q] = lines[q]
    BY <1>1 DEF Complete, Emit, ObsTypeOK, ObsRequests, ObsLogs
  <1>6. phase'[r] = "done" /\ code'[r] = status /\ bucket' = bucket
    BY <1>1 DEF Complete, ObsTypeOK, ObsRequests
  <1>7. /\ lines' \in [Request -> Seq(LogSteps)] /\ lines'[r] # <<>>
        /\ lines'[r][Len(lines'[r])] = "request.complete"
    <2>1. lines \in [Request -> Seq(LogSteps)]
      BY <1>1 DEF ObsTypeOK, ObsLogs
    <2>2. lines' = [lines EXCEPT ![r] = lines[r] \o (steps \o <<"request.complete">>)]
      BY DEF Complete, Emit
    <2> DEFINE u == lines[r] \o (steps \o <<"request.complete">>)
    <2>3. u \in Seq(LogSteps) /\ u # <<>> /\ u[Len(u)] = "request.complete"
      BY <2>1, AnswerIsLogged
    <2> HIDE DEF u
    <2> QED BY <2>1, <2>2, <2>3 DEF u
  <1>8. \A q \in Request : AwaitTells(q)'
    <2>1. AwaitTells(r)'
      BY <1>1, <1>6, <1>7 DEF AwaitTells
    <2>2. ASSUME NEW q \in Request \ {r} PROVE AwaitTells(q)'
      <3>1. dbErrors' = 0 => dbErrors = 0
        BY <1>1 DEF ObsTypeOK, ObsMetrics
      <3>2. AwaitTells(q)
        BY DEF ObsInv
      <3> QED BY <1>5, <1>6, <3>1, <3>2 DEF AwaitTells
    <2> QED BY <2>1, <2>2
  <1>9. ObsTypeOK'
    <2>1. ObsRequests'
      BY <1>1 DEF ObsTypeOK, ObsRequests, Complete, Codes
    <2>2. ObsLogs'
      BY <1>1, <1>7 DEF ObsTypeOK, ObsLogs
    <2> DEFINE W == {q \in Sent : phase[q] \notin {"sent", "done"}}
    <2>3. r \in W /\ IsFiniteSet(W) /\ inFlight = Cardinality(W)
      BY <1>1, OpenHoldsTheScript, RequestsAreFinite DEF ObsInv, CountersAreTheAnswers, Sent
    <2>4. Cardinality(W \ {r}) = Cardinality(W) - 1 /\ Cardinality(W \ {r}) \in Nat
      <3> HIDE DEF W
      <3> QED BY <2>3, OneMoreOrLess
    <2>5. inFlight' \in Nat
      <3> HIDE DEF W
      <3> QED BY <2>3, <2>4 DEF Complete
    <2>6. poolWaiting' \in Nat
      <3>1. \A p \in Awaits : InPool(p) \in Nat
        BY RequestsAreFinite DEF InPool
      <3>2. InPool("acquire_sleep") \in Nat /\ InPool("acquire_query") \in Nat
            /\ InPool("sleeping") \in Nat /\ InPool("querying") \in Nat
        BY <3>1 DEF Awaits
      <3> QED BY <3>2, ObservedSizes DEF Complete, waitingCount, Free
    <2>7. errorsTotal' \in [Routes -> Nat] /\ requestsTotal' \in Nat /\ naive' \in Nat /\ dbErrors' \in Nat
      <3>1. errorsTotal \in [Routes -> Nat] /\ requestsTotal \in Nat /\ naive \in Nat /\ dbErrors \in Nat
        BY <1>1 DEF ObsTypeOK, ObsMetrics
      <3>2. requestsTotal' \in Nat /\ naive' \in Nat /\ dbErrors' \in Nat
        BY <3>1 DEF Complete
      <3>3. errorsTotal' = [errorsTotal EXCEPT ![Route(bucket[r])] = @ + (IF status >= 500 THEN 1 ELSE 0)]
        BY DEF Complete
      <3>4. errorsTotal' \in [Routes -> Nat]
        <4>1. (IF status >= 500 THEN 1 ELSE 0) \in {0, 1}
          OBVIOUS
        <4>2. \A t \in Routes, d \in {0, 1} : errorsTotal[t] + d \in Nat
          BY <3>1
        <4> DEFINE d == IF status >= 500 THEN 1 ELSE 0
        <4> HIDE DEF d
        <4>3. errorsTotal' = [errorsTotal EXCEPT ![Route(bucket[r])] = errorsTotal[Route(bucket[r])] + d]
          BY <3>3 DEF d
        <4>4. d \in {0, 1}
          BY <4>1 DEF d
        <4>5. Route(bucket[r]) \in Routes
          BY DEF Route, Routes
        <4> DEFINE k == Route(bucket[r])
        <4>6. errorsTotal' = [errorsTotal EXCEPT ![k] = errorsTotal[k] + d] /\ errorsTotal[k] + d \in Nat
          BY <4>2, <4>3, <4>4, <4>5
        <4> HIDE DEF k
        <4> QED BY <3>1, <4>6
      <3> QED BY <3>2, <3>4
    <2>8. ObsMetrics'
      BY <2>5, <2>6, <2>7 DEF ObsMetrics
    <2> QED BY <1>4, <2>1, <2>2, <2>8 DEF ObsTypeOK
  <1>10. ReportsInPlace'
    <2>1. bucket[r] = "metrics" => AtScrape \/ AfterScrape
      BY DEF ObsInv, OneScrape
    <2>2. HasReport("error_burst")' <=> HasReport("error_burst")
      BY DEF HasReport
    <2>3. HasReport("parse")' <=> HasReport("parse")
      BY DEF HasReport
    <2> QED BY <1>3, <2>1, <2>2, <2>3 DEF ObsInv, ReportsInPlace, AtScrape, AfterScrape
  <1>11. \A t \in Routes : Failed(t)' = IF status >= 500 /\ t = Route(bucket[r]) THEN Failed(t) \cup {r} ELSE Failed(t)
    <2> SUFFICES ASSUME NEW t \in Routes, NEW q \in Request
                 PROVE  q \in Failed(t)' <=> q \in Failed(t) \/ (status >= 500 /\ t = Route(bucket[r]) /\ q = r)
      BY DEF Failed, Done
    <2>1. r \notin Failed(t)
      BY <1>1 DEF Failed, Done
    <2>2. CASE q = r
      BY <1>4, <1>6, <2>1, <2>2 DEF Failed
    <2>3. CASE q # r
      BY <1>4, <1>5, <1>6, <2>3 DEF Failed
    <2> QED BY <2>2, <2>3
  <1>12. CountersAreTheAnswers'
    <2> DEFINE W == {q \in Sent : phase[q] \notin {"sent", "done"}}
    <2>1. W' = W \ {r}
      BY <1>1, <1>4, <1>5, <1>6 DEF Sent
    <2>2. r \in W /\ IsFiniteSet(W) /\ inFlight = Cardinality(W)
      BY <1>1, OpenHoldsTheScript, RequestsAreFinite DEF ObsInv, CountersAreTheAnswers, Sent
    <2>3. Cardinality(W \ {r}) = Cardinality(W) - 1
      <3> HIDE DEF W
      <3> QED BY <2>2, OneMoreOrLess
    <2>4. inFlight' = Cardinality(W')
      <3> HIDE DEF W
      <3> QED BY <2>1, <2>2, <2>3 DEF Complete
    <2>5. IsFiniteSet(Done) /\ r \notin Done
      BY <1>1, RequestsAreFinite DEF Done
    <2>6. Cardinality(Done') = Cardinality(Done) + 1
      BY <1>4, <2>5, FS_AddElement
    <2>7. requestsTotal' = Cardinality(Done') /\ naive' = Cardinality(Done')
      BY <2>6 DEF ObsInv, CountersAreTheAnswers, Complete
    <2>8. ASSUME NEW t \in Routes PROVE errorsTotal'[t] = Cardinality(Failed(t)')
      <3>1. r \notin Failed(t) /\ IsFiniteSet(Failed(t))
        BY <1>1, RequestsAreFinite DEF Failed, Done
      <3>2. Cardinality(Failed(t) \cup {r}) = Cardinality(Failed(t)) + 1
        BY <3>1, FS_AddElement
      <3>3. errorsTotal[t] = Cardinality(Failed(t)) /\ errorsTotal[t] \in Nat
        BY <1>1 DEF ObsInv, CountersAreTheAnswers, ObsTypeOK, ObsMetrics
      <3>4. errorsTotal'[t] = IF status >= 500 /\ t = Route(bucket[r]) THEN errorsTotal[t] + 1 ELSE errorsTotal[t]
        BY <1>1 DEF Complete, ObsTypeOK, ObsMetrics
      <3>5. Failed(t)' = IF status >= 500 /\ t = Route(bucket[r]) THEN Failed(t) \cup {r} ELSE Failed(t)
        BY <1>11
      <3> QED BY <3>2, <3>3, <3>4, <3>5
    <2>9. Quiet' => poolWaiting' = 0
      <3> SUFFICES ASSUME Sent = Done \cup {r} PROVE poolWaiting' = 0
        BY <1>4 DEF Quiet
      <3>1. \A q \in Request \ {r} : ~Open(q)
        BY DEF Open, Sent, Done, ObsInv, AwaitTells
      <3> QED BY <3>1, LastAnswerFreesThePool DEF Complete
    <2> QED BY <2>4, <2>7, <2>8, <2>9 DEF CountersAreTheAnswers
  <1>13. ErrorsDoNotSleep'
    BY DEF ObsInv, ErrorsDoNotSleep, HasReport
  <1>14. bucket[r] = "metrics" => AtScrape /\ Scraping /\ r = TrafficCount + 1
    <2>1. bucket[r] = "metrics" => r = TrafficCount + 1 /\ (AtScrape \/ AfterScrape)
      BY DEF ObsInv, OneScrape
    <2>2. AtScrape => Scraping
      BY <1>1, OpenHoldsTheScript
    <2>3. bucket[r] = "metrics" => ~AfterScrape
      <3>1. obsScript = "narrative" /\ stage = 5 /\ fired = stage => Waits(TrafficCount + 3, "slow")
        BY DEF ObsInv, SentByStage
      <3>2. obsScript = "narrative" /\ stage = 6 /\ fired = stage => Waits(TrafficCount + 5, "guest")
        BY DEF ObsInv, SentByStage
      <3>3. stage \in Nat /\ stage <= 7
        BY <1>1 DEF ObsTypeOK, ObsPosition
      <3> QED BY <1>1, <3>1, <3>2, <3>3, OpenHoldsTheScript DEF AfterScrape, Waits
    <2> QED BY <2>1, <2>2, <2>3
  <1>15. ScrapeMatches'
    <2>1. CASE bucket[r] = "metrics"
      <3>1. reads'["scrape"] = Collected
        BY <1>2, <2>1
      <3>2. Sent = 1 .. TrafficCount + 1 /\ \A q \in 1 .. TrafficCount : phase[q] = "done"
        BY <1>14, <2>1 DEF Scraping
      <3>3. {q \in Sent : phase[q] \notin {"sent", "done"}} = {r}
        BY <1>1, <1>14, <2>1, <3>2, ObservedSizes DEF Request
      <3>4. Done = 1 .. TrafficCount
        <4>1. Done \subseteq Sent
          BY DEF Done, Sent, ObsInv, AwaitTells
        <4> QED BY <1>1, <1>14, <2>1, <3>2, <4>1, ObservedSizes DEF Done, Request
      <3>5. inFlight = Cardinality({r}) /\ requestsTotal = Cardinality(1 .. TrafficCount)
        BY <3>3, <3>4 DEF ObsInv, CountersAreTheAnswers
      <3>6. inFlight = 1 /\ requestsTotal = TrafficCount
        <4>1. Cardinality({r}) = 1
          BY FS_Singleton
        <4>2. Cardinality(1 .. TrafficCount) = TrafficCount
          BY ObservedSizes, CountUpTo
        <4> QED BY <3>5, <4>1, <4>2
      <3> QED BY <3>1, <3>6 DEF ScrapeMatches, Collected
    <2>2. CASE bucket[r] # "metrics"
      BY <1>2, <2>2 DEF ObsInv, ScrapeMatches, HasReport
    <2> QED BY <2>1, <2>2
  <1>16. ParseHolds'
    <2> SUFFICES ASSUME HasReport("parse")' PROVE ParseHolds'
      BY DEF ParseHolds
    <2>1. HasReport("parse") /\ reads'["parse"] = reads["parse"]
      BY DEF HasReport
    <2>2. obsScript = "narrative"
      BY <1>1, <2>1, OpenHoldsTheScript DEF ObsInv, ReportsInPlace, BeforeScrape
    <2>3. stage = 4 => Failed("/orders/:id")' = Failed("/orders/:id")
      <3>1. stage = 4 => bucket[r] = "metrics"
        BY <1>1, <2>2, OpenHoldsTheScript DEF AtScrape, Scraping
      <3> QED BY <1>11, <3>1 DEF Route, Routes
    <2>4. HasReport("scrape")' =>
            reads'["scrape"].errors["/orders/:id"] = reads["parse"].byRoute["/orders/:id"].errorCount
      <3>1. CASE bucket[r] = "metrics"
        <4>1. reads'["scrape"] = Collected /\ stage = 4
          BY <1>2, <1>14, <2>2, <3>1 DEF AtScrape
        <4>2. errorsTotal["/orders/:id"] = Cardinality(Failed("/orders/:id"))
          BY DEF ObsInv, CountersAreTheAnswers, Routes
        <4> QED BY <2>1, <2>2, <4>1, <4>2 DEF ObsInv, ParseHolds, Collected
      <3>2. CASE bucket[r] # "metrics"
        BY <1>2, <2>1, <2>2, <3>2 DEF ObsInv, ParseHolds, HasReport
      <3> QED BY <3>1, <3>2
    <2>5. dbErrors' = 0 => dbErrors = 0
      BY <1>1 DEF ObsTypeOK, ObsMetrics
    <2>6. ParsedOf' = ParsedOf
      BY DEF ParsedOf
    <2>7. ParseHolds /\ bucket' = bucket /\ stage' = stage /\ obsScript' = obsScript
      BY DEF ObsInv
    <2> QED BY <2>1, <2>2, <2>3, <2>4, <2>5, <2>6, <2>7 DEF ParseHolds
  <1> QED BY <1>4, <1>8, <1>9, <1>10, <1>12, <1>13, <1>15, <1>16 DEF ObsInv

\* A request starts with these lines, in this order.
LEMMA OpeningLines ==
  /\ \A s \in Seq(LogSteps) : <<>> \o s = s
  /\ <<"request.start">> \in Seq(LogSteps) /\ Opening \in Seq(LogSteps)
  /\ <<"request.start">> \o <<"db.query.start">> = Opening
  <1>1. \A s \in Seq(LogSteps) : <<>> \o s = s
    BY ConcatEmptySeq
  <1> DEFINE a == <<"request.start">>
             b == <<"db.query.start">>
             ab == a \o b
  <1>2. a \in Seq(LogSteps) /\ b \in Seq(LogSteps) /\ Len(a) = 1 /\ Len(b) = 1
        /\ a[1] = "request.start" /\ b[1] = "db.query.start"
    BY DEF LogSteps
  <1>3. Opening \in Seq(LogSteps) /\ Len(Opening) = 2 /\ Opening[1] = "request.start" /\ Opening[2] = "db.query.start"
    BY DEF Opening, LogSteps
  <1> HIDE DEF a, b
  <1>4. ab \in Seq(LogSteps) /\ Len(ab) = Len(a) + Len(b)
        /\ \A i \in 1 .. Len(a) + Len(b) : ab[i] = IF i <= Len(a) THEN a[i] ELSE b[i - Len(a)]
    BY <1>2, ConcatProperties
  <1> HIDE DEF ab
  <1>5. Len(ab) = 2 /\ ab[1] = Opening[1] /\ ab[2] = Opening[2]
    BY <1>2, <1>3, <1>4
  <1>6. ab = Opening
    <2>1. \A i \in 1 .. 2 : ab[i] = Opening[i]
      BY <1>5
    <2>2. ab \in Seq(LogSteps) /\ Len(ab) = 2 /\ Opening \in Seq(LogSteps) /\ Len(Opening) = 2
      BY <1>3, <1>4, <1>5
    <2> QED BY <2>1, <2>2
  <1> QED BY <1>1, <1>2, <1>3, <1>6 DEF a, b, ab

\* handleRequest up to its first await.
LEMMA ArriveKeeps == ASSUME ObsInv, NEW r \in Request, Arrive(r) PROVE ObsInv'
  <1> DEFINE p == CASE bucket[r] = "metrics" -> "collecting" [] bucket[r] = "create" -> "body"
                    [] bucket[r] = "slow" -> "acquire_sleep" [] OTHER -> "acquire_query"
             opened == IF bucket[r] \in {"metrics", "create"} THEN <<"request.start">> ELSE Opening
  <1>1. /\ ObsTypeOK /\ AwaitTells(r) /\ phase[r] = "sent" /\ Open(r) /\ lines[r] = <<>> /\ bucket[r] # "none"
        /\ bucket[r] \in pickBucket \cup {"metrics"}
    BY DEF ObsInv, AwaitTells, Arrive, Open, ObsTypeOK, ObsRequests, Buckets
  <1>2. p \in Awaits
    BY DEF Awaits
  <1>3. lines' = [lines EXCEPT ![r] = opened] /\ opened \in Seq(LogSteps)
    <2>1. lines' = [lines EXCEPT ![r] = lines[r] \o opened]
      BY DEF Arrive, Emit, Opening
    <2>2. opened \in Seq(LogSteps)
      BY OpeningLines
    <2> HIDE DEF opened
    <2> QED BY <1>1, <2>1, <2>2, OpeningLines
  <1>4. lines' \in [Request -> Seq(LogSteps)] /\ lines'[r] = opened /\ \A q \in Request \ {r} : lines'[q] = lines[q]
    <2> HIDE DEF opened
    <2> QED BY <1>1, <1>3 DEF ObsTypeOK, ObsLogs
  <1>5. phase' = [phase EXCEPT ![r] = p] /\ phase'[r] = p
    BY <1>1 DEF Arrive, AtAwait, ObsTypeOK, ObsRequests
  <1>6. AwaitTells(r)'
    <2>1. bucket' = bucket
      BY DEF Arrive
    <2>2. CASE bucket[r] = "metrics"
      BY <1>4, <1>5, <2>1, <2>2 DEF AwaitTells
    <2>3. CASE bucket[r] = "create"
      BY <1>4, <1>5, <2>1, <2>3 DEF AwaitTells
    <2>4. CASE bucket[r] = "slow"
      BY <1>4, <1>5, <2>1, <2>4 DEF AwaitTells, Opening
    <2>5. CASE bucket[r] \in {"fast", "missing", "guest"}
      BY <1>4, <1>5, <2>1, <2>5 DEF AwaitTells, Opening, pickBucket
    <2> QED BY <1>1, <2>2, <2>3, <2>4, <2>5 DEF pickBucket
  <1>7. /\ UNCHANGED <<obsScript, stage, fired, bucket, code, requestsTotal, errorsTotal, poolWaiting, flushed,
                       naive, dbErrors, reads>>
        /\ inFlight' = inFlight + (IF phase[r] = "sent" THEN 1 ELSE 0)
    BY DEF Arrive
  <1> HIDE DEF p
  <1> QED BY <1>1, <1>2, <1>4, <1>5, <1>6, <1>7, MoveKeeps

\* The body of a POST, the wait for a connection and pg_sleep.
LEMMA WaitsKeep == ASSUME ObsInv, NEW r \in Request, BodyRead(r) \/ Acquire(r) \/ SleepEnds(r) PROVE ObsInv'
  <1>1. /\ ObsTypeOK /\ AwaitTells(r) /\ inFlight \in Nat /\ lines \in [Request -> Seq(LogSteps)]
        /\ phase \in [Request -> Awaits \cup {"unsent", "sent", "done"}]
    BY DEF ObsInv, ObsTypeOK, ObsRequests, ObsMetrics, ObsLogs
  <1>2. CASE BodyRead(r)
    <2>1. phase[r] = "body" /\ Open(r) /\ phase' = [phase EXCEPT ![r] = "acquire_query"] /\ phase'[r] = "acquire_query"
      BY <1>1, <1>2 DEF BodyRead, AtAwait, Open
    <2>2. lines' = [lines EXCEPT ![r] = Opening]
      BY <1>1, <1>2, <2>1, OpeningLines DEF BodyRead, Emit, AwaitTells
    <2>3. /\ lines' \in [Request -> Seq(LogSteps)] /\ lines'[r] = Opening
          /\ \A q \in Request \ {r} : lines'[q] = lines[q]
      BY <1>1, <2>2, OpeningLines
    <2>4. AwaitTells(r)'
      BY <1>1, <1>2, <2>1, <2>3 DEF BodyRead, AwaitTells, Opening, pickBucket
    <2>5. /\ UNCHANGED <<obsScript, stage, fired, bucket, code, requestsTotal, errorsTotal, poolWaiting, flushed,
                         naive, dbErrors, reads>>
          /\ inFlight' = inFlight + (IF phase[r] = "sent" THEN 1 ELSE 0)
      BY <1>1, <1>2, <2>1 DEF BodyRead, metricVars
    <2>6. "acquire_query" \in Awaits
      BY DEF Awaits
    <2> QED BY <2>1, <2>3, <2>4, <2>5, <2>6, MoveKeeps
  <1>3. CASE Acquire(r) \/ SleepEnds(r)
    <2>1. PICK p \in {"sleeping", "querying", "acquire_query"} :
            /\ phase' = [phase EXCEPT ![r] = p] /\ phase[r] \in {"acquire_sleep", "acquire_query", "sleeping"}
            /\ p = "sleeping" => phase[r] = "acquire_sleep"
      BY <1>3 DEF Acquire, SleepEnds, AtAwait
    <2>2. /\ UNCHANGED <<obsScript, stage, fired, bucket, code, requestsTotal, errorsTotal, poolWaiting, flushed,
                         naive, dbErrors, reads>>
          /\ inFlight' = inFlight + (IF phase[r] = "sent" THEN 1 ELSE 0) /\ lines' = lines
      BY <1>1, <1>3, <2>1 DEF Acquire, SleepEnds, metricVars
    <2>3. p \in Awaits /\ Open(r) /\ phase'[r] = p
      BY <1>1, <2>1 DEF Awaits, Open
    <2>4. AwaitTells(r)'
      BY <1>1, <2>1, <2>2, <2>3 DEF AwaitTells, pickBucket
    <2> QED BY <1>1, <2>1, <2>2, <2>3, <2>4, MoveKeeps
  <1> QED BY <1>2, <1>3

\* The three ways a request is answered.
LEMMA AnswersKeep == ASSUME ObsInv, NEW r \in Request, QueryEnds(r) \/ QueryFails(r) \/ ScrapeAnswers(r) PROVE ObsInv'
  <1>1. /\ ObsTypeOK /\ AwaitTells(r) /\ lines \in [Request -> Seq(LogSteps)] /\ dbErrors \in Nat
        /\ bucket[r] = "metrics" => phase[r] \notin {"acquire_sleep", "sleeping", "acquire_query", "querying"}
    BY DEF ObsInv, ObsTypeOK, ObsMetrics, ObsLogs, AwaitTells, pickBucket
  <1>2. <<>> \in Seq(LogSteps)
    OBVIOUS
  <1>3. CASE QueryEnds(r)
    <2> DEFINE view == CASE bucket[r] = "missing" -> [status |-> 404, steps |-> <<>>]
                         [] bucket[r] = "create"  -> [status |-> 201, steps |-> <<>>]
                         [] OTHER -> buildOrderView(bucket[r])
               s == view.status
               work == view.steps
               logged == <<"db.query.end">> \o work
    <2>1. phase[r] = "querying" /\ bucket[r] \in pickBucket /\ lines[r] = Opening
      BY <1>1, <1>3 DEF QueryEnds, AwaitTells, Opening
    <2>2. s \in {200, 201, 404, 500} /\ work \in Seq(LogSteps)
      <3>1. <<"business_logic.start">> \in Seq(LogSteps)
        BY DEF LogSteps
      <3>2. <<"business_logic.start", "business_logic.end">> \in Seq(LogSteps)
        BY DEF LogSteps
      <3> QED BY <1>2, <3>1, <3>2 DEF buildOrderView
    <2>3. Path(bucket[r]) = <<"request.start", "db.query.start", "db.query.end">> \o work \o <<"request.complete">>
      <3>1. work = IF bucket[r] \in {"missing", "create"} THEN <<>> ELSE buildOrderView(bucket[r]).steps
        OBVIOUS
      <3> HIDE DEF work
      <3> QED BY <3>1 DEF Path
    <2>4. logged \in Seq(LogSteps)
      <3>1. <<"db.query.end">> \in Seq(LogSteps)
        BY DEF LogSteps
      <3> HIDE DEF work
      <3> QED BY <2>2, <3>1, ConcatProperties
    <2> DEFINE freed == 1
    <2>5. Complete(r, s, logged, freed) /\ freed \in Nat
      BY <1>3 DEF QueryEnds
    <2>6. UNCHANGED <<obsScript, stage, fired, bucket, flushed, dbErrors, reads>>
      BY <1>3 DEF QueryEnds
    <2> HIDE DEF s, work, view
    <2>7. lines'[r] = Path(bucket[r])
      <3>1. lines'[r] = Opening \o (logged \o <<"request.complete">>)
        BY <1>1, <2>1, <2>5 DEF Complete, Emit
      <3>2. Opening \o (logged \o <<"request.complete">>)
              = <<"request.start", "db.query.start", "db.query.end">> \o work \o <<"request.complete">>
        BY <2>2, PathInSteps
      <3> QED BY <2>3, <3>1, <3>2
    <2> HIDE DEF logged, freed
    <2>8. phase[r] # "collecting" /\ bucket[r] # "metrics" /\ dbErrors' \in {dbErrors, dbErrors + 1}
      BY <1>1, <2>1, <2>6
    <2> QED BY <2>1, <2>2, <2>4, <2>5, <2>6, <2>7, <2>8, CompleteKeeps
  <1>4. CASE QueryFails(r)
    <2>1. /\ phase[r] \in {"sleeping", "querying"} /\ dbErrors' = dbErrors + 1 /\ dbErrors' # 0
          /\ Complete(r, 500, <<>>, 1) /\ UNCHANGED <<obsScript, stage, fired, bucket, flushed, reads>>
      BY <1>1, <1>4 DEF QueryFails
    <2>2. bucket[r] # "metrics"
      BY <1>1, <2>1
    <2> DEFINE status == 500
               steps == <<>>
               freed == 1
    <2>3. /\ status \in {200, 201, 404, 500} /\ steps \in Seq(LogSteps) /\ freed \in Nat
          /\ Complete(r, status, steps, freed)
      BY <1>2, <2>1
    <2> HIDE DEF status, steps, freed
    <2> QED BY <2>1, <2>2, <2>3, CompleteKeeps
  <1>5. CASE ScrapeAnswers(r)
    <2>1. /\ phase[r] = "collecting" /\ bucket[r] = "metrics" /\ Complete(r, 200, <<>>, 0)
          /\ UNCHANGED <<obsScript, stage, fired, bucket, flushed, dbErrors>>
          /\ reads' = [s \in DOMAIN reads \cup {"scrape"} |-> IF s = "scrape" THEN Collected ELSE reads[s]]
      BY <1>1, <1>5 DEF ScrapeAnswers, AwaitTells
    <2> DEFINE status == 200
               steps == <<>>
               freed == 0
    <2>2. /\ status \in {200, 201, 404, 500} /\ steps \in Seq(LogSteps) /\ freed \in Nat
          /\ Complete(r, status, steps, freed) /\ status = 200
      BY <1>2, <2>1
    <2> HIDE DEF status, steps, freed
    <2> QED BY <2>1, <2>2, CompleteKeeps
  <1> QED BY <1>3, <1>4, <1>5

\* The server's steps keep the invariant.
LEMMA HandleKeeps == ASSUME ObsInv, NEW r \in Request, Handle(r) PROVE ObsInv'
  BY ArriveKeeps, WaitsKeep, AnswersKeep DEF Handle

\* The script sends the next requests; what was sent before stands as it was.
LEMMA SendKeeps ==
  ASSUME ObsInv, NEW n \in Nat, NEW m \in Nat, n < m, m <= TrafficCount + 5, Sent = 1 .. n,
         UNCHANGED <<obsScript, stage, code, metricVars, lines, flushed, naive, dbErrors, reads>>,
         fired' \in {fired, stage},
         bucket' \in [Request -> Buckets], phase' \in [Request -> Awaits \cup {"unsent", "sent", "done"}],
         \A q \in Request : IF q \in n + 1 .. m THEN bucket'[q] # "none" /\ phase'[q] = "sent"
                                                ELSE bucket'[q] = bucket[q] /\ phase'[q] = phase[q],
         \A q \in n + 1 .. m : bucket'[q] = "metrics" => q = TrafficCount + 1 /\ AtScrape
  PROVE  /\ Sent' = 1 .. m /\ (SentByStage' => ObsInv')
         /\ \A q \in Request : phase[q] = "done" <=> phase'[q] = "done"
  <1>1. ObsTypeOK /\ TrafficCount \in Nat
    BY ObservedSizes DEF ObsInv
  <1>2. \A q \in Request : q \in n + 1 .. m => phase[q] = "unsent" /\ bucket[q] = "none" /\ lines[q] = <<>>
    <2>1. \A q \in Request : q \in n + 1 .. m => q \notin Sent
      OBVIOUS
    <2> QED BY <2>1 DEF Sent, ObsInv, AwaitTells
  <1>3. Sent' = 1 .. m
    <2>1. ASSUME NEW q \in Request PROVE q \in Sent' <=> q \in 1 .. m
      <3>1. q \in Sent <=> q \in 1 .. n
        OBVIOUS
      <3> QED BY <3>1 DEF Sent, Request
    <2>2. 1 .. m \subseteq Request
      BY <1>1 DEF Request
    <2> QED BY <2>1, <2>2 DEF Sent
  <1>4. \A q \in Request : phase[q] = "done" <=> phase'[q] = "done"
    BY <1>2
  <1>5. Done' = Done
    BY <1>4 DEF Done
  <1>6. ObsTypeOK'
    <2>1. ObsPosition'
      BY <1>1 DEF ObsTypeOK, ObsPosition
    <2>2. ObsRequests' /\ ObsMetrics' /\ ObsLogs'
      BY <1>1 DEF ObsTypeOK, ObsRequests, ObsMetrics, ObsLogs, metricVars
    <2> QED BY <2>1, <2>2 DEF ObsTypeOK
  <1>7. \A q \in Request : AwaitTells(q)'
    <2> SUFFICES ASSUME NEW q \in Request PROVE AwaitTells(q)'
      OBVIOUS
    <2>1. CASE q \in n + 1 .. m
      BY <1>2, <2>1 DEF AwaitTells
    <2>2. CASE q \notin n + 1 .. m
      BY <2>2 DEF ObsInv, AwaitTells
    <2> QED BY <2>1, <2>2
  <1>8. OneScrape'
    BY DEF ObsInv, OneScrape, AtScrape, AfterScrape
  <1>9. ReportsInPlace' /\ Flushed' /\ ScrapeMatches' /\ ErrorsDoNotSleep'
    BY DEF ObsInv, ReportsInPlace, HasReport, AtScrape, AfterScrape, ScrapeMatches, ErrorsDoNotSleep, Flushed
  <1>10. \A t \in Routes : Failed(t)' = Failed(t)
    <2>1. \A q \in Done : q \notin n + 1 .. m
      BY <1>2 DEF Done
    <2>2. \A q \in Done : bucket'[q] = bucket[q] /\ code'[q] = code[q]
      BY <2>1 DEF Done
    <2> QED BY <1>5, <2>2 DEF Failed
  <1>11. ParseHolds'
    <2> SUFFICES ASSUME HasReport("parse")' PROVE ParseHolds'
      BY DEF ParseHolds
    <2>1. HasReport("parse") /\ reads' = reads /\ obsScript' = obsScript /\ stage' = stage /\ dbErrors' = dbErrors
      BY DEF HasReport
    <2>2. ParsedOf' = ParsedOf /\ ParsedOf \subseteq Request
      BY <1>1 DEF ParsedOf, Request
    <2>3. \A q \in ParsedOf : bucket[q] \in pickBucket /\ bucket[q] # "none"
      BY <2>1 DEF ObsInv, ParseHolds, pickBucket
    <2>4. \A q \in ParsedOf : bucket'[q] = bucket[q]
      BY <1>2, <2>2, <2>3
    <2>5. Failed("/orders/:id")' = Failed("/orders/:id")
      BY <1>10 DEF Routes
    <2>6. HasReport("scrape")' <=> HasReport("scrape")
      BY <2>1 DEF HasReport
    <2> QED BY <2>1, <2>2, <2>3, <2>4, <2>5, <2>6 DEF ObsInv, ParseHolds
  <1>12. CountersAreTheAnswers'
    <2>1. {q \in Sent : phase[q] \notin {"sent", "done"}}' = {q \in Sent : phase[q] \notin {"sent", "done"}}
      BY <1>2 DEF Sent
    <2>2. ~Quiet'
      <3>1. m \in Sent' /\ m \notin Sent
        BY <1>3
      <3>2. Done \subseteq Sent
        BY DEF Done, Sent, ObsInv, AwaitTells
      <3> QED BY <1>5, <3>1, <3>2 DEF Quiet
    <2>3. UNCHANGED <<inFlight, requestsTotal, errorsTotal, naive>>
      BY DEF metricVars
    <2> QED BY <1>5, <1>10, <2>1, <2>2, <2>3 DEF ObsInv, CountersAreTheAnswers
  <1> QED BY <1>3, <1>4, <1>6, <1>7, <1>8, <1>9, <1>11, <1>12 DEF ObsInv

\* The script goes on to its next stage with nothing open.
LEMMA NextStageKeeps ==
  ASSUME ObsInv, Quiet, stage' = stage + 1, stage <= 6, obsScript # "narrative" => stage <= 3,
         UNCHANGED <<obsScript, fired, bucket, phase, code, metricVars, lines, naive, dbErrors>>,
         obsScript # "tracing" /\ stage = 1 => Sent = 1 .. TrafficCount,
         (obsScript = "tracing" /\ stage = 1) \/ (obsScript = "narrative" /\ stage = 5) => fired = stage,
         AtScrape => HasReport("scrape"),
         IF stage = 2 THEN flushed' = [r \in Request |-> Len(lines[r])] ELSE flushed' = flushed,
         \A s \in {"scrape", "error_burst"} :
            (HasReport(s)' <=> HasReport(s)) /\ (HasReport(s) => reads'[s] = reads[s]),
         HasReport("parse")' => HasReport("parse") \/ (obsScript # "metrics" /\ stage = 3),
         ParseHolds'
  PROVE  ObsInv'
  <1>1. ObsTypeOK /\ TrafficCount \in Nat /\ ObsPosition
    BY ObservedSizes DEF ObsInv, ObsTypeOK
  <1>2. Sent' = Sent /\ Done' = Done /\ (Quiet' <=> Quiet)
    BY DEF Sent, Done, Quiet
  <1>3. ObsTypeOK'
    <2>1. ObsPosition'
      BY <1>1 DEF ObsPosition
    <2>2. ObsRequests' /\ ObsMetrics'
      BY <1>1 DEF ObsTypeOK, ObsRequests, ObsMetrics, metricVars
    <2>3. lines \in [Request -> Seq(LogSteps)] /\ \A r \in Request : Len(lines[r]) \in Nat
      BY <1>1 DEF ObsTypeOK, ObsLogs
    <2>4. ObsLogs'
      BY <1>1, <2>3 DEF ObsTypeOK, ObsLogs
    <2> QED BY <2>1, <2>2, <2>4 DEF ObsTypeOK
  <1>4. \A q \in Request : AwaitTells(q)'
    BY DEF ObsInv, AwaitTells
  <1>5. OneScrape' /\ ReportsInPlace'
    <2>1. AtScrape \/ AfterScrape => AfterScrape'
      BY <1>1 DEF AtScrape, AfterScrape, ObsPosition
    <2>2. (HasReport("scrape")' <=> HasReport("scrape")) /\ (HasReport("error_burst")' <=> HasReport("error_burst"))
      OBVIOUS
    <2>3. OneScrape'
      BY <2>1 DEF ObsInv, OneScrape
    <2>4. HasReport("scrape")' => AfterScrape'
      BY <2>1, <2>2 DEF ObsInv, ReportsInPlace
    <2>5. HasReport("error_burst")' => obsScript' = "narrative" /\ stage' > 5
      BY <1>1, <2>2 DEF ObsInv, ReportsInPlace, ObsPosition
    <2>6. HasReport("parse")' => IF obsScript' = "narrative" THEN stage' > 3
                                 ELSE obsScript' \in {"structured", "tracing"} /\ stage' = 4
      BY <1>1 DEF ObsInv, ReportsInPlace, ObsPosition
    <2> QED BY <2>3, <2>4, <2>5, <2>6 DEF ReportsInPlace
  <1>6. SentByStage'
    <2>1. BeforeScrape' => Sent = 1 .. TrafficCount
      BY <1>1 DEF BeforeScrape, ObsInv, SentByStage, ObsPosition
    <2>2. AtScrape' => BeforeScrape
      BY <1>1 DEF BeforeScrape, AtScrape, ObsPosition
    <2>3. BeforeScrape => ~HasReport("scrape") /\ Sent = 1 .. TrafficCount
      BY DEF ObsInv, ReportsInPlace, SentByStage, BeforeScrape, AtScrape, AfterScrape
    <2>4. AtScrape' => Sent = 1 .. TrafficCount /\ ~HasReport("scrape")'
      BY <2>2, <2>3
    <2>5. AtScrape => Sent = 1 .. TrafficCount + 1
      BY DEF ObsInv, SentByStage, Scraping
    <2>6. obsScript = "metrics" /\ stage' = 4 => Sent = 1 .. TrafficCount + 1
      BY <1>1, <2>5 DEF AtScrape, ObsPosition
    <2>7. obsScript = "narrative" /\ stage' = 5 => fired # 5 /\ Sent = 1 .. TrafficCount + 1
      BY <1>1, <2>5 DEF AtScrape, ObsPosition
    <2>8. obsScript = "narrative" /\ stage' = 6 => fired # 6 /\ Sent = 1 .. TrafficCount + 3
      BY <1>1 DEF ObsInv, SentByStage, Waits, ObsPosition
    <2>9. obsScript = "tracing" /\ stage' > 1 => Sent = 1 .. 4
      BY <1>1 DEF ObsInv, SentByStage, ObsPosition
    <2>10. stage' > 1
      BY <1>1 DEF ObsPosition
    <2> QED BY <1>2, <2>1, <2>4, <2>6, <2>7, <2>8, <2>9, <2>10 DEF SentByStage
  <1>7. Flushed'
    BY <1>1 DEF Flushed, ObsPosition
  <1>8. ScrapeMatches' /\ ErrorsDoNotSleep'
    BY DEF ObsInv, ScrapeMatches, ErrorsDoNotSleep
  <1>9. CountersAreTheAnswers'
    <2>1. UNCHANGED <<inFlight, requestsTotal, errorsTotal, naive, poolWaiting, phase>>
      BY DEF metricVars
    <2>2. \A t \in Routes : Failed(t)' = Failed(t)
      BY <1>2 DEF Failed
    <2> QED BY <1>2, <2>1, <2>2 DEF ObsInv, CountersAreTheAnswers
  <1> QED BY <1>3, <1>4, <1>5, <1>6, <1>7, <1>8, <1>9 DEF ObsInv

\* generateTraffic sends one request after the other, as many as it was asked.
LEMMA TrafficKeeps == ASSUME ObsInv, generateTraffic PROVE ObsInv'
  <1>1. /\ ObsTypeOK /\ ObsPosition /\ TrafficCount \in Nat /\ Quiet /\ obsScript # "tracing" /\ stage = 1
        /\ UNCHANGED <<obsScript, fired, code, metricVars, lines, flushed, naive, dbErrors, reads>>
    BY ObservedSizes, StagePositions DEF ObsInv, ObsTypeOK, generateTraffic, Served
  <1>2. PICK n \in 0 .. TrafficCount : Sent = 1 .. n
    BY <1>1 DEF ObsInv, SentByStage
  <1>3. Fresh = n + 1 /\ n \in Nat
    BY <1>1, <1>2, FreshIsNext
  <1>4. CASE Fresh <= TrafficCount /\ UNCHANGED stage
    <2>1. PICK b \in pickBucket : bucket' = [bucket EXCEPT ![n + 1] = b] /\ phase' = [phase EXCEPT ![n + 1] = "sent"]
      BY <1>1, <1>3, <1>4 DEF generateTraffic, AtAwait, ObsPosition
    <2>2. n + 1 \in Request /\ n + 1 <= TrafficCount /\ n + 1 \in Nat /\ n < n + 1 /\ n + 1 <= TrafficCount + 5
      BY <1>1, <1>3, <1>4 DEF Request
    <2>3. b \in Buckets /\ b # "none" /\ b # "metrics"
      BY DEF pickBucket, Buckets
    <2>4. bucket' \in [Request -> Buckets] /\ phase' \in [Request -> Awaits \cup {"unsent", "sent", "done"}]
      BY <1>1, <2>1, <2>3 DEF ObsTypeOK, ObsRequests
    <2>5. \A q \in Request : IF q \in n + 1 .. n + 1 THEN bucket'[q] = b /\ phase'[q] = "sent"
                                                     ELSE bucket'[q] = bucket[q] /\ phase'[q] = phase[q]
      BY <1>1, <1>3, <2>1, <2>2 DEF ObsTypeOK, ObsRequests, Request
    <2>6. /\ \A q \in Request : IF q \in n + 1 .. n + 1 THEN bucket'[q] # "none" /\ phase'[q] = "sent"
                                                        ELSE bucket'[q] = bucket[q] /\ phase'[q] = phase[q]
          /\ \A q \in n + 1 .. n + 1 : bucket'[q] = "metrics" => q = TrafficCount + 1 /\ AtScrape
      <3>1. \A q \in n + 1 .. n + 1 : q \in Request
        BY <1>3, <2>2
      <3> QED BY <2>3, <2>5, <3>1
    <2>7. fired' \in {fired, stage}
      BY <1>1
    <2> DEFINE m == n + 1
    <2>8. Sent' = 1 .. m /\ (SentByStage' => ObsInv')
      <3>1. m \in Nat /\ n < m /\ m <= TrafficCount + 5
        BY <2>2
      <3>2. /\ \A q \in Request : IF q \in n + 1 .. m THEN bucket'[q] # "none" /\ phase'[q] = "sent"
                                                      ELSE bucket'[q] = bucket[q] /\ phase'[q] = phase[q]
            /\ \A q \in n + 1 .. m : bucket'[q] = "metrics" => q = TrafficCount + 1 /\ AtScrape
        BY <2>6
      <3> HIDE DEF m
      <3> QED BY <1>1, <1>2, <1>3, <1>4, <2>4, <2>7, <3>1, <3>2, SendKeeps
    <2>9. \E k \in 0 .. TrafficCount : Sent' = 1 .. k
      BY <1>1, <2>2, <2>8
    <2>10. SentByStage'
      BY <1>1, <1>4, <2>9 DEF SentByStage, BeforeScrape, AtScrape
    <2> QED BY <2>8, <2>10
  <1>5. CASE Fresh > TrafficCount /\ stage' = stage + 1 /\ UNCHANGED <<bucket, phase>>
    <2>1. n = TrafficCount
      BY <1>1, <1>3, <1>5
    <2>2. ~AtScrape /\ flushed' = flushed
      BY <1>1 DEF AtScrape
    <2>3. \A s \in {"scrape", "error_burst", "parse"} : (HasReport(s)' <=> HasReport(s)) /\ reads'[s] = reads[s]
      BY <1>1 DEF HasReport
    <2>4. ParseHolds'
      BY <1>1, <1>5 DEF ObsInv, ParseHolds, HasReport, ReportsInPlace
    <2> QED BY <1>1, <1>2, <1>5, <2>1, <2>2, <2>3, <2>4, NextStageKeeps
  <1> QED BY <1>1, <1>4, <1>5 DEF generateTraffic

\* flushStructuredLogger: what was logged is on file.
LEMMA FlushKeeps == ASSUME ObsInv, flushLogs PROVE ObsInv'
  <1>1. /\ ObsTypeOK /\ ObsPosition /\ stage = 2 /\ stage' = stage + 1
        /\ UNCHANGED <<obsScript, fired, bucket, phase, code, metricVars, lines, naive, dbErrors, reads>>
        /\ flushed' = [r \in Request |-> Len(lines[r])]
    BY StagePositions DEF ObsInv, ObsTypeOK, flushLogs
  <1>2. Quiet /\ ~AtScrape
    BY <1>1 DEF ObsInv, ObsPosition, SentByStage, BeforeScrape, AtScrape
  <1>3. \A s \in {"scrape", "error_burst", "parse"} : (HasReport(s)' <=> HasReport(s)) /\ reads'[s] = reads[s]
    BY <1>1 DEF HasReport
  <1>4. ~HasReport("parse")
    BY <1>1 DEF ObsInv, ReportsInPlace
  <1>5. ParseHolds'
    BY <1>3, <1>4 DEF ParseHolds
  <1> QED BY <1>1, <1>2, <1>3, <1>5, NextStageKeeps

\* Promise.all resolves when the last of them is answered.
LEMMA AwaitKeeps == ASSUME ObsInv, AwaitAll PROVE ObsInv'
  <1>1. /\ ObsTypeOK /\ ObsPosition /\ Quiet /\ fired = stage /\ stage' = stage + 1
        /\ UNCHANGED <<obsScript, fired, bucket, phase, code, metricVars, lines, flushed, naive, dbErrors, reads>>
    BY DEF ObsInv, ObsTypeOK, AwaitAll, Fired, Served
  <1>2. At("trace") \/ At("slow_burst") \/ At("error_burst")
    BY DEF AwaitAll, Concurrent
  <1>3. (obsScript = "tracing" /\ stage = 1) \/ (obsScript = "narrative" /\ stage \in {5, 6})
    BY <1>1, <1>2, StagePositions
  <1>4. ~AtScrape /\ stage # 2
    BY <1>3 DEF AtScrape
  <1>5. \A s \in {"scrape", "error_burst", "parse"} : (HasReport(s)' <=> HasReport(s)) /\ reads'[s] = reads[s]
    BY <1>1 DEF HasReport
  <1>6. ParseHolds'
    BY <1>1, <1>3 DEF ObsInv, ParseHolds, HasReport, ReportsInPlace, ParsedOf
  <1> QED BY <1>1, <1>3, <1>4, <1>5, <1>6, NextStageKeeps

\* Promise.all over the requests of a trace or of a burst.
LEMMA FireKeeps == ASSUME ObsInv, FireTogether PROVE ObsInv'
  <1>1. /\ ObsTypeOK /\ ObsPosition /\ TrafficCount \in Nat \ {0} /\ fired # stage /\ fired' = stage
        /\ UNCHANGED <<obsScript, stage, code, metricVars, lines, flushed, naive, dbErrors, reads>>
    BY ObservedSizes DEF ObsInv, ObsTypeOK, FireTogether, Served
  <1>2. PICK s \in {"trace", "slow_burst", "error_burst"} :
          LET together == Fresh .. Fresh + Len(Concurrent[s]) - 1
              Asked(r) == Concurrent[s][r - Fresh + 1]
          IN  /\ At(s) /\ Quiet
              /\ bucket' = [r \in Request |-> IF r \in together THEN Asked(r) ELSE bucket[r]]
              /\ phase' = [r \in Request |-> IF r \in together THEN "sent" ELSE phase[r]]
    BY DEF FireTogether, Concurrent
  <1> DEFINE k == Len(Concurrent[s])
             n == IF s = "trace" THEN 0 ELSE IF s = "slow_burst" THEN TrafficCount + 1 ELSE TrafficCount + 3
             m == n + k
  <1>3. /\ s = "trace" => k = 4
        /\ s # "trace" => k = 2
        /\ \A i \in 1 .. k : Concurrent[s][i] \in {"fast", "slow", "guest", "missing"}
        /\ s = "slow_burst" => \A i \in 1 .. k : Concurrent[s][i] = "slow"
        /\ s = "error_burst" => \A i \in 1 .. k : Concurrent[s][i] = "guest"
    <2>1. CASE s = "trace"
      <3>1. Concurrent[s] = <<"fast", "slow", "guest", "missing">>
        BY <2>1 DEF Concurrent
      <3> QED BY <2>1, <3>1
    <2>2. CASE s = "slow_burst"
      <3>1. Concurrent[s] = <<"slow", "slow">>
        BY <2>2 DEF Concurrent
      <3> QED BY <2>2, <3>1
    <2>3. CASE s = "error_burst"
      <3>1. Concurrent[s] = <<"guest", "guest">>
        BY <2>3 DEF Concurrent
      <3> QED BY <2>3, <3>1
    <2> QED BY <2>1, <2>2, <2>3
  <1>4. /\ s = "trace" => obsScript = "tracing" /\ stage = 1
        /\ s = "slow_burst" => obsScript = "narrative" /\ stage = 5
        /\ s = "error_burst" => obsScript = "narrative" /\ stage = 6
    BY <1>1, <1>2, StagePositions
  <1>5. Sent = 1 .. n /\ Quiet
    BY <1>1, <1>2, <1>4 DEF ObsInv, SentByStage
  <1>6. n \in Nat /\ k \in {2, 4} /\ m \in Nat /\ n < m /\ m <= TrafficCount + 5
    <2> HIDE DEF k
    <2> QED BY <1>1, <1>3
  <1>7. Fresh = n + 1
    <2> HIDE DEF n
    <2> QED BY <1>5, <1>6, FreshIsNext
  <1>8. /\ bucket' = [r \in Request |-> IF r \in n + 1 .. m THEN Concurrent[s][r - n] ELSE bucket[r]]
        /\ phase' = [r \in Request |-> IF r \in n + 1 .. m THEN "sent" ELSE phase[r]]
    <2>1. Fresh .. Fresh + k - 1 = n + 1 .. m
      <3> HIDE DEF k, n
      <3> QED BY <1>6, <1>7
    <2>2. \A r \in Request : r - Fresh + 1 = r - n
      <3> HIDE DEF k, n
      <3> QED BY <1>1, <1>6, <1>7 DEF Request
    <2> HIDE DEF n, m
    <2> QED BY <1>2, <2>1, <2>2
  <1>9. \A r \in n + 1 .. m : r \in Request /\ r - n \in 1 .. k
    <2> HIDE DEF k, n
    <2> QED BY <1>1, <1>6 DEF Request
  <1>10. \A r \in n + 1 .. m : bucket'[r] = Concurrent[s][r - n] /\ bucket'[r] \in {"fast", "slow", "guest", "missing"}
    <2> HIDE DEF k, n, m
    <2> QED BY <1>3, <1>8, <1>9
  <1>11. bucket' \in [Request -> Buckets] /\ phase' \in [Request -> Awaits \cup {"unsent", "sent", "done"}]
    <2> HIDE DEF k, n, m
    <2> QED BY <1>1, <1>8, <1>10 DEF ObsTypeOK, ObsRequests, Buckets, pickBucket
  <1>12. /\ \A q \in Request : IF q \in n + 1 .. m THEN bucket'[q] # "none" /\ phase'[q] = "sent"
                                                   ELSE bucket'[q] = bucket[q] /\ phase'[q] = phase[q]
         /\ \A q \in n + 1 .. m : bucket'[q] = "metrics" => q = TrafficCount + 1 /\ AtScrape
    <2> HIDE DEF k, n, m
    <2> QED BY <1>8, <1>10
  <1>13. /\ Sent' = 1 .. m /\ (SentByStage' => ObsInv')
         /\ \A q \in Request : phase[q] = "done" <=> phase'[q] = "done"
    <2> HIDE DEF k, n, m
    <2> QED BY <1>1, <1>5, <1>6, <1>11, <1>12, SendKeeps
  <1>14. s # "trace" => \A r \in Request : Open(r)' => r \in n + 1 .. m
    <2>1. \A r \in Request : ~Open(r)
      BY <1>5 DEF Open, Quiet, Sent, Done, ObsInv, AwaitTells
    <2> HIDE DEF k, n, m
    <2> QED BY <1>12, <2>1 DEF Open
  <1>15. SentByStage'
    <2>1. CASE s = "trace"
      BY <1>1, <1>3, <1>4, <1>13, <2>1 DEF SentByStage, BeforeScrape, AtScrape
    <2>2. CASE s = "slow_burst"
      <3>1. \A r \in Request : Open(r)' => bucket'[r] = "slow"
        <4> HIDE DEF k, n, m
        <4> QED BY <1>3, <1>9, <1>10, <1>14, <2>2
      <3>2. m = TrafficCount + 3
        <4> HIDE DEF k
        <4> QED BY <1>1, <1>3, <2>2
      <3>3. Waits(TrafficCount + 3, "slow")'
        BY <1>13, <3>1, <3>2 DEF Waits
      <3> QED BY <1>1, <1>4, <2>2, <3>3 DEF SentByStage, BeforeScrape, AtScrape
    <2>3. CASE s = "error_burst"
      <3>1. \A r \in Request : Open(r)' => bucket'[r] = "guest"
        <4> HIDE DEF k, n, m
        <4> QED BY <1>3, <1>9, <1>10, <1>14, <2>3
      <3>2. m = TrafficCount + 5
        <4> HIDE DEF k
        <4> QED BY <1>1, <1>3, <2>3
      <3>3. Waits(TrafficCount + 5, "guest")'
        BY <1>13, <3>1, <3>2 DEF Waits
      <3> QED BY <1>1, <1>4, <2>3, <3>3 DEF SentByStage, BeforeScrape, AtScrape
    <2> QED BY <2>1, <2>2, <2>3
  <1> QED BY <1>13, <1>15

\* pg_stat_activity, read through the pool the requests share.
LEMMA SampleKeeps == ASSUME ObsInv, SampleActivity PROVE ObsInv'
  <1>1. /\ ObsTypeOK /\ ObsPosition
        /\ UNCHANGED <<obsScript, stage, fired, bucket, phase, code, metricVars, lines, flushed, naive, dbErrors>>
    BY DEF ObsInv, ObsTypeOK, SampleActivity, Served
  <1>2. PICK s \in {"slow_burst", "error_burst"} :
          /\ At(s) /\ Fired
          /\ reads' = [k \in DOMAIN reads \cup {s} |-> IF k = s THEN InPool("sleeping") ELSE reads[k]]
    BY DEF SampleActivity
  <1>3. obsScript = "narrative" /\ stage \in {5, 6} /\ fired = stage /\ (s = "error_burst" <=> stage = 6)
    BY <1>1, <1>2, StagePositions DEF Fired
  <1>4. \A k \in {"scrape", "parse"} : (HasReport(k)' <=> HasReport(k)) /\ (HasReport(k) => reads'[k] = reads[k])
    BY <1>2 DEF HasReport
  <1>5. HasReport("error_burst")' => HasReport("error_burst") \/ s = "error_burst"
    BY <1>2 DEF HasReport
  <1>6. Sent' = Sent /\ Done' = Done
    BY <1>1 DEF Sent, Done
  <1>7. ObsTypeOK'
    <2>1. ObsPosition' /\ ObsRequests'
      BY <1>1 DEF ObsTypeOK, ObsPosition, ObsRequests
    <2>2. ObsMetrics' /\ ObsLogs'
      BY <1>1 DEF ObsTypeOK, ObsMetrics, ObsLogs, metricVars
    <2> QED BY <2>1, <2>2 DEF ObsTypeOK
  <1>8. (\A q \in Request : AwaitTells(q)') /\ OneScrape' /\ Flushed'
    BY <1>1 DEF ObsInv, AwaitTells, OneScrape, Flushed, AtScrape, AfterScrape
  <1>9. SentByStage'
    <2>1. ~AtScrape
      BY <1>3 DEF AtScrape
    <2> QED BY <1>1, <1>3, <1>6, <2>1 DEF ObsInv, SentByStage, BeforeScrape, AtScrape, Waits, Quiet, Open
  <1>10. ReportsInPlace'
    BY <1>1, <1>3, <1>4, <1>5 DEF ObsInv, ReportsInPlace, AtScrape, AfterScrape
  <1>11. CountersAreTheAnswers'
    <2>1. UNCHANGED <<inFlight, requestsTotal, errorsTotal, naive, poolWaiting, phase>>
      BY <1>1 DEF metricVars
    <2>2. \A t \in Routes : Failed(t)' = Failed(t)
      BY <1>1, <1>6 DEF Failed
    <2> QED BY <1>6, <2>1, <2>2 DEF ObsInv, CountersAreTheAnswers, Quiet
  <1>12. ScrapeMatches'
    BY <1>4 DEF ObsInv, ScrapeMatches
  <1>13. ParseHolds'
    <2>1. ParsedOf' = ParsedOf
      BY <1>1 DEF ParsedOf
    <2> QED BY <1>1, <1>3, <1>4, <2>1 DEF ObsInv, ParseHolds
  <1>14. ErrorsDoNotSleep'
    <2>1. CASE s = "error_burst"
      <3>1. \A q \in Request : Open(q) => bucket[q] = "guest"
        BY <1>3, <2>1 DEF ObsInv, SentByStage, Waits
      <3>2. {q \in Request : phase[q] = "sleeping"} = {}
        BY <3>1 DEF ObsInv, AwaitTells, Open
      <3>3. InPool("sleeping") = 0
        BY <3>2, FS_EmptySet DEF InPool
      <3> QED BY <1>2, <2>1, <3>3 DEF ErrorsDoNotSleep
    <2>2. CASE s = "slow_burst"
      BY <1>2, <2>2 DEF ObsInv, ErrorsDoNotSleep, HasReport
    <2> QED BY <2>1, <2>2
  <1> QED BY <1>7, <1>8, <1>9, <1>10, <1>11, <1>12, <1>13, <1>14 DEF ObsInv

\* The scrape, and the end of the script that waits for its answer.
LEMMA ScrapeKeeps == ASSUME ObsInv, Scrape PROVE ObsInv'
  <1>1. /\ ObsTypeOK /\ ObsPosition /\ TrafficCount \in Nat /\ AtScrape /\ Quiet
        /\ UNCHANGED <<obsScript, fired, code, metricVars, lines, flushed, naive, dbErrors, reads>>
    BY ObservedSizes, StagePositions DEF ObsInv, ObsTypeOK, Scrape, Served
  <1>2. CASE ~HasReport("scrape") /\ UNCHANGED stage /\ bucket' = [bucket EXCEPT ![Fresh] = "metrics"]
             /\ AtAwait(Fresh, "sent")
    <2> DEFINE n == TrafficCount
               m == TrafficCount + 1
    <2>1. Sent = 1 .. n
      <3>1. Scraping => m \in Sent /\ m \in Request /\ phase[m] # "done"
        BY <1>1, <1>2 DEF Scraping, Sent, Request
      <3>2. ~Scraping
        BY <1>1, <3>1 DEF Quiet, Done
      <3> QED BY <1>1, <3>2 DEF ObsInv, SentByStage
    <2>2. Fresh = m
      BY <1>1, <2>1, FreshIsNext
    <2>3. bucket' = [bucket EXCEPT ![m] = "metrics"] /\ phase' = [phase EXCEPT ![m] = "sent"]
      BY <1>2, <2>2 DEF AtAwait
    <2>4. n \in Nat /\ m \in Nat /\ n < m /\ m <= TrafficCount + 5 /\ m \in Request /\ n + 1 .. m = {m}
      BY <1>1 DEF Request
    <2>5. bucket' \in [Request -> Buckets] /\ phase' \in [Request -> Awaits \cup {"unsent", "sent", "done"}]
      <3> HIDE DEF m
      <3> QED BY <1>1, <2>3, <2>4 DEF ObsTypeOK, ObsRequests, Buckets
    <2>6. /\ \A q \in Request : IF q \in n + 1 .. m THEN bucket'[q] # "none" /\ phase'[q] = "sent"
                                                    ELSE bucket'[q] = bucket[q] /\ phase'[q] = phase[q]
          /\ \A q \in n + 1 .. m : bucket'[q] = "metrics" => q = TrafficCount + 1 /\ AtScrape
      <3>1. m = TrafficCount + 1
        OBVIOUS
      <3> HIDE DEF m, n
      <3> QED BY <1>1, <2>3, <2>4, <3>1 DEF ObsTypeOK, ObsRequests
    <2>7. /\ Sent' = 1 .. m /\ (SentByStage' => ObsInv')
          /\ \A q \in Request : phase[q] = "done" <=> phase'[q] = "done"
      <3>1. fired' \in {fired, stage}
        BY <1>1
      <3> HIDE DEF n, m
      <3> QED BY <1>1, <1>2, <2>1, <2>4, <2>5, <2>6, <3>1, SendKeeps
    <2>8. Scraping'
      <3>1. \A q \in 1 .. TrafficCount : q \in Request /\ phase[q] = "done"
        BY <1>1, <2>1 DEF Quiet, Done
      <3>2. bucket'[m] = "metrics" /\ phase'[m] = "sent"
        BY <1>1, <2>3, <2>4 DEF ObsTypeOK, ObsRequests
      <3>3. ~HasReport("scrape")'
        BY <1>1, <1>2 DEF HasReport
      <3> QED BY <2>7, <3>1, <3>2, <3>3 DEF Scraping
    <2>9. SentByStage'
      BY <1>1, <1>2, <2>8 DEF SentByStage, BeforeScrape, AtScrape
    <2> QED BY <2>7, <2>9
  <1>3. CASE HasReport("scrape") /\ stage' = stage + 1 /\ UNCHANGED <<bucket, phase>>
    <2>1. \A s \in {"scrape", "error_burst", "parse"} : (HasReport(s)' <=> HasReport(s)) /\ reads'[s] = reads[s]
      BY <1>1 DEF HasReport
    <2>2. ParseHolds'
      <3>1. obsScript' = obsScript /\ bucket' = bucket /\ dbErrors' = dbErrors /\ reads' = reads /\ ParsedOf' = ParsedOf
        BY <1>1, <1>3 DEF ParsedOf
      <3>2. stage' # 4 \/ obsScript # "narrative"
        BY <1>1, <1>3 DEF AtScrape
      <3> QED BY <2>1, <3>1, <3>2 DEF ObsInv, ParseHolds
    <2>3. stage <= 6 /\ (obsScript # "narrative" => stage <= 3) /\ stage \in {3, 4} /\ obsScript # "tracing"
      BY <1>1 DEF AtScrape
    <2> QED BY <1>1, <1>3, <2>1, <2>2, <2>3, NextStageKeeps
  <1> QED BY <1>2, <1>3 DEF Scrape

\* The parser reads every line of the file, of this server and of another.
LEMMA ParseKeeps == ASSUME ObsInv, parseStructuredLog PROVE ObsInv'
  <1>1. /\ ObsTypeOK /\ ObsPosition /\ obsScript # "metrics" /\ stage = 3 /\ stage' = stage + 1
        /\ UNCHANGED <<obsScript, fired, bucket, phase, code, metricVars, lines, flushed, naive, dbErrors>>
        /\ lines \in [Request -> Seq(LogSteps)] /\ code \in [Request -> Codes] /\ TrafficCount \in Nat
    BY StagePositions, ObservedSizes DEF ObsInv, ObsTypeOK, ObsLogs, ObsRequests, parseStructuredLog, Served
  <1>2. PICK onFile \in OnFile, foreign \in Foreign :
        \E parsed \in attemptNaiveLogParse(foreign) :
            LET traces == [r \in Request |-> SubSeq(lines[r], 1, onFile[r])]
                report == [byRoute |-> aggregateByRoute(traces, foreign), traces |-> traces, naive |-> parsed]
            IN  reads' = [k \in DOMAIN reads \cup {"parse"} |-> IF k = "parse" THEN report ELSE reads[k]]
    BY DEF parseStructuredLog
  <1>3. Quiet /\ Sent = ParsedOf /\ Done = ParsedOf /\ ~AtScrape
    BY <1>1 DEF ObsInv, SentByStage, BeforeScrape, AtScrape, ParsedOf, ObsPosition, Quiet
  <1>4. [r \in Request |-> SubSeq(lines[r], 1, onFile[r])] = lines
    <2>1. \A r \in Request : onFile[r] = Len(lines[r])
      BY <1>1, <1>2 DEF OnFile, ObsInv, Flushed
    <2> QED BY <1>1, <2>1, WholeLog
  <1>5. PICK parsed \in attemptNaiveLogParse(foreign) :
          reads' = [k \in DOMAIN reads \cup {"parse"} |->
                      IF k = "parse"
                        THEN [byRoute |-> aggregateByRoute(lines, foreign), traces |-> lines, naive |-> parsed]
                        ELSE reads[k]]
    BY <1>2, <1>4
  <1>6. /\ \A s \in {"scrape", "error_burst"} :
             (HasReport(s)' <=> HasReport(s)) /\ (HasReport(s) => reads'[s] = reads[s])
        /\ reads'["parse"] = [byRoute |-> aggregateByRoute(lines, foreign), traces |-> lines, naive |-> parsed]
    BY <1>5 DEF HasReport
  <1> DEFINE Completed(t) == {r \in Done : Route(bucket[r]) = t}
             totals == aggregateByRoute(lines, foreign)
  <1>7. \A r \in Request : r \in Done <=> lines[r] # <<>>
    BY <1>3 DEF Quiet, Sent, ObsInv, AwaitTells, Done
  <1>8. \A t \in {"/orders", "/orders/:id"} :
          totals[t].total = Cardinality(Completed(t)) /\ totals[t].errorCount = Cardinality(Failed(t))
    <2> SUFFICES ASSUME NEW t \in {"/orders", "/orders/:id"}
                 PROVE  totals[t].total = Cardinality(Completed(t)) /\ totals[t].errorCount = Cardinality(Failed(t))
      OBVIOUS
    <2> DEFINE completions == {r \in Request : lines[r] # <<>> /\ lines[r][Len(lines[r])] = "request.complete"
                                                               /\ Route(bucket[r]) = t}
    <2>1. completions = Completed(t)
      <3>1. \A r \in Done : lines[r][Len(lines[r])] = "request.complete"
        BY DEF Done, ObsInv, AwaitTells
      <3> QED BY <1>7, <3>1 DEF Done
    <2>2. {r \in completions : code[r] >= 500} = Failed(t)
      BY <2>1 DEF Failed
    <2>3. /\ totals[t].total = Cardinality(completions) + (IF t = "/metrics" THEN foreign ELSE 0)
          /\ totals[t].errorCount = Cardinality({r \in completions : code[r] >= 500})
      BY DEF aggregateByRoute, Routes
    <2>4. Cardinality(Completed(t)) \in Nat
      BY RequestsAreFinite DEF Done
    <2> HIDE DEF completions, totals, Completed
    <2> QED BY <2>1, <2>2, <2>3, <2>4
  <1>9. \A r \in ParsedOf : r \in Request /\ bucket[r] \in pickBucket
    <2>1. \A r \in Sent : bucket[r] # "metrics"
      BY <1>1, <1>3 DEF ObsInv, OneScrape, AtScrape, AfterScrape, Sent
    <2> QED BY <1>1, <1>3, <2>1 DEF Sent, ObsTypeOK, ObsRequests, Buckets
  <1>10. totals["/orders"].total + totals["/orders/:id"].total = Cardinality(ParsedOf)
    <2>1. /\ Completed("/orders") \cup Completed("/orders/:id") = ParsedOf
          /\ Completed("/orders") \cap Completed("/orders/:id") = {}
      BY <1>3, <1>9 DEF Route, pickBucket
    <2>2. IsFiniteSet(Completed("/orders")) /\ IsFiniteSet(Completed("/orders/:id"))
      BY RequestsAreFinite DEF Done
    <2> HIDE DEF Completed, totals
    <2>3. Cardinality(ParsedOf) = Cardinality(Completed("/orders")) + Cardinality(Completed("/orders/:id"))
                                    - Cardinality(Completed("/orders") \cap Completed("/orders/:id"))
      BY <2>1, <2>2, FS_Union
    <2>4. Cardinality(Completed("/orders") \cap Completed("/orders/:id")) = 0
      BY <2>1, FS_EmptySet
    <2>5. Cardinality(Completed("/orders")) \in Nat /\ Cardinality(Completed("/orders/:id")) \in Nat
      BY <2>2, FS_CardinalityType
    <2> QED BY <1>8, <2>3, <2>4, <2>5
  <1>11. obsScript = "structured" =>
           parsed.successfullyParsed <= parsed.totalLines - totals["/orders/:id"].errorCount
    <2> SUFFICES ASSUME obsScript = "structured"
                 PROVE  parsed.successfullyParsed <= parsed.totalLines - totals["/orders/:id"].errorCount
      OBVIOUS
    <2> DEFINE Answered == {r \in Done : "completed_in" \in appendNaiveLogLine(code[r])}
               F == Failed("/orders/:id")
    <2>1. /\ parsed.totalLines = naive + foreign
          /\ parsed.successfullyParsed \in 0 .. Cardinality(Answered) + foreign
      BY <1>5 DEF attemptNaiveLogParse
    <2>2. Answered \cup F \subseteq Done /\ Answered \cap F = {}
      BY <1>1 DEF appendNaiveLogLine, Failed, Done
    <2>3. IsFiniteSet(Answered) /\ IsFiniteSet(F) /\ IsFiniteSet(Done)
      BY RequestsAreFinite DEF Done, Failed
    <2>4. naive = Cardinality(Done) /\ totals["/orders/:id"].errorCount = Cardinality(F) /\ foreign \in Nat
      BY <1>8, ObservedSizes DEF ObsInv, CountersAreTheAnswers, Foreign
    <2> HIDE DEF Answered, F, totals
    <2>5. Cardinality(Answered) \in Nat /\ Cardinality(F) \in Nat /\ Cardinality(Done) \in Nat
      BY <2>3, FS_CardinalityType
    <2>6. Cardinality(Answered \cup F) = Cardinality(Answered) + Cardinality(F)
      <3>1. Cardinality(Answered \cup F) = Cardinality(Answered) + Cardinality(F) - Cardinality(Answered \cap F)
        BY <2>3, FS_Union
      <3>2. Cardinality(Answered \cap F) = 0
        BY <2>2, FS_EmptySet
      <3> QED BY <2>5, <3>1, <3>2
    <2>7. Cardinality(Answered \cup F) <= Cardinality(Done)
      BY <2>2, <2>3, FS_Subset
    <2> QED BY <2>1, <2>4, <2>5, <2>6, <2>7
  <1>12. dbErrors = 0 => \A r \in ParsedOf : lines[r] = Path(bucket[r])
    BY <1>3, <1>9 DEF Done, ObsInv, AwaitTells, pickBucket
  <1>13. ~HasReport("scrape")
    BY <1>1, <1>3 DEF ObsInv, ReportsInPlace, AtScrape, AfterScrape
  <1>14. ParseHolds'
    <2>1. ParsedOf' = ParsedOf /\ bucket' = bucket /\ dbErrors' = dbErrors /\ obsScript' = obsScript
      BY <1>1 DEF ParsedOf
    <2>2. {r \in Request : lines[r] # <<>>} = ParsedOf
      BY <1>3, <1>7 DEF Done
    <2>3. Failed("/orders/:id")' = Failed("/orders/:id")
      BY <1>1 DEF Failed, Done
    <2>4. totals["/orders/:id"].errorCount = Cardinality(Failed("/orders/:id"))
      BY <1>8
    <2>5. /\ reads'["parse"].byRoute = totals /\ reads'["parse"].traces = lines /\ reads'["parse"].naive = parsed
          /\ ~HasReport("scrape")'
      BY <1>6, <1>13
    <2> HIDE DEF totals, Completed
    <2> QED BY <1>9, <1>10, <1>11, <1>12, <2>1, <2>2, <2>3, <2>4, <2>5 DEF ParseHolds
  <1>15. HasReport("parse")' => HasReport("parse") \/ (obsScript # "metrics" /\ stage = 3)
    BY <1>1
  <1> QED BY <1>1, <1>3, <1>6, <1>14, <1>15, NextStageKeeps

\* What the invariant says of the sources is what an operator compares.
LEMMA SourcesAgree == ASSUME ObsInv PROVE MetricsAgree
  <1>1. LogMatches
    <2> SUFFICES ASSUME HasReport("parse") PROVE LogMatches
      BY DEF LogMatches
    <2> DEFINE parsed == reads["parse"]
               own == {r \in Request : parsed.traces[r] # <<>>}
    <2>1. own = ParsedOf /\ TrafficCount \in Nat /\ ObsPosition
      BY ObservedSizes DEF ObsInv, ParseHolds, ObsTypeOK
    <2>2. Cardinality(ParsedOf) = IF obsScript = "tracing" THEN Len(Concurrent["trace"]) ELSE TrafficCount
      <3>1. Cardinality(1 .. 4) = 4 /\ Cardinality(1 .. TrafficCount) = TrafficCount
        BY <2>1, CountUpTo
      <3>2. Concurrent["trace"] = <<"fast", "slow", "guest", "missing">>
        BY DEF Concurrent
      <3>3. Len(Concurrent["trace"]) = 4
        BY <3>2
      <3> QED BY <3>1, <3>3 DEF ParsedOf
    <2>3. HasReport("scrape") => obsScript = "narrative"
      BY <2>1 DEF ObsInv, ReportsInPlace, AtScrape, AfterScrape
    <2>4. /\ parsed.byRoute["/orders"].total + parsed.byRoute["/orders/:id"].total = Cardinality(ParsedOf)
          /\ obsScript = "structured" =>
               parsed.naive.successfullyParsed <= parsed.naive.totalLines - parsed.byRoute["/orders/:id"].errorCount
          /\ HasReport("scrape") =>
               reads["scrape"].errors["/orders/:id"] = parsed.byRoute["/orders/:id"].errorCount
          /\ dbErrors = 0 => \A r \in ParsedOf : parsed.traces[r] = Path(bucket[r])
      BY <2>3 DEF ObsInv, ParseHolds
    <2> HIDE DEF own, parsed
    <2>5. own = {r \in Request : reads["parse"].traces[r] # <<>>}
      BY DEF own, parsed
    <2> QED BY <2>1, <2>2, <2>4, <2>5 DEF LogMatches, parsed
  <1> QED BY <1>1 DEF ObsInv, MetricsAgree

\* The three sources of lab 38, the counters, the log and the scrape, agree on
\* every request, however many requests and connections there are.
THEOREM MetricsAgreeAlways == ObsSpec => []MetricsAgree
  <1>1. ObsInit => ObsInv
    <2> SUFFICES ASSUME ObsInit PROVE ObsInv
      OBVIOUS
    <2>1. Sent = {} /\ Done = {} /\ TrafficCount \in Nat
      BY ObservedSizes DEF ObsInit, Sent, Done
    <2>2. ObsPosition /\ ObsRequests /\ ObsMetrics
      BY DEF ObsInit, ObsPosition, ObsRequests, ObsMetrics, Stages, Codes, Buckets
    <2>3. ObsLogs
      BY DEF ObsInit, ObsLogs
    <2>4. /\ ~HasReport("scrape") /\ ~HasReport("parse") /\ ~HasReport("error_burst")
          /\ \A r \in Request : AwaitTells(r)
      BY DEF ObsInit, HasReport, AwaitTells, pickBucket
    <2>5. SentByStage
      <3>1. 1 .. 0 = {}
        OBVIOUS
      <3>2. \E n \in 0 .. TrafficCount : Sent = 1 .. n
        BY <2>1, <3>1
      <3>3. stage = 1 /\ fired = 0 /\ ~BeforeScrape /\ ~AtScrape
        BY DEF ObsInit, BeforeScrape, AtScrape
      <3>4. Sent = 1 .. (IF fired = 1 THEN 4 ELSE 0)
        BY <2>1, <3>1, <3>3
      <3> QED BY <3>2, <3>3, <3>4 DEF SentByStage
    <2>6. OneScrape /\ ReportsInPlace /\ Flushed /\ ParseHolds /\ ScrapeMatches /\ ErrorsDoNotSleep
      BY <2>4 DEF ObsInit, OneScrape, ReportsInPlace, Flushed, ParseHolds, ScrapeMatches, ErrorsDoNotSleep
    <2>7. CountersAreTheAnswers
      <3>1. Cardinality({}) = 0
        BY FS_EmptySet
      <3>2. {r \in Sent : phase[r] \notin {"sent", "done"}} = {} /\ \A t \in Routes : Failed(t) = {}
        BY <2>1 DEF Failed
      <3> QED BY <2>1, <3>1, <3>2 DEF ObsInit, CountersAreTheAnswers
    <2> QED BY <2>2, <2>3, <2>4, <2>5, <2>6, <2>7 DEF ObsInv, ObsTypeOK
  <1>2. ObsInv /\ [ObsNext]_obsVars => ObsInv'
    <2> SUFFICES ASSUME ObsInv, [ObsNext]_obsVars PROVE ObsInv'
      OBVIOUS
    <2>1. CASE ReaderSteps
      BY <2>1, TrafficKeeps, FireKeeps, SampleKeeps, AwaitKeeps, FlushKeeps, ParseKeeps, ScrapeKeeps DEF ReaderSteps
    <2>2. CASE \E r \in Request : Handle(r)
      BY <2>2, HandleKeeps
    <2>3. CASE UNCHANGED obsVars
      <3>1. ObsTypeOK' /\ (\A r \in Request : AwaitTells(r)') /\ OneScrape' /\ ReportsInPlace' /\ Flushed'
        BY <2>3 DEF obsVars, ObsInv, ObsTypeOK, ObsPosition, ObsRequests, ObsMetrics, ObsLogs, AwaitTells,
                    OneScrape, ReportsInPlace, HasReport, Flushed, AtScrape, AfterScrape
      <3>2. Sent' = Sent /\ Done' = Done
        BY <2>3 DEF obsVars, Sent, Done
      <3>3. SentByStage'
        BY <2>3, <3>2 DEF obsVars, ObsInv, SentByStage, BeforeScrape, AtScrape, Scraping, HasReport, Waits,
                         Quiet, Open
      <3>4. \A t \in Routes : Failed(t)' = Failed(t)
        BY <2>3, <3>2 DEF obsVars, Failed
      <3>5. CountersAreTheAnswers' /\ ScrapeMatches' /\ ErrorsDoNotSleep'
        BY <2>3, <3>2, <3>4 DEF obsVars, ObsInv, CountersAreTheAnswers, Quiet, ScrapeMatches, ErrorsDoNotSleep,
                               HasReport
      <3>6. ParseHolds'
        BY <2>3, <3>4 DEF obsVars, ObsInv, ParseHolds, HasReport, ParsedOf, Routes
      <3> QED BY <3>1, <3>3, <3>5, <3>6 DEF ObsInv
    <2> QED BY <2>1, <2>2, <2>3 DEF ObsNext
  <1> QED BY <1>1, <1>2, SourcesAgree, PTL DEF ObsSpec

-----------------------------------------------------------------------------
(* Tenant sessions. *)

ScriptErrors == {"none", "killed", "failed", "unrestored", "refuted"}
Returns == [role : Roles, tenant : Tenants \cup {NoTenant}, op : Reads, rows : SUBSET Tenants, enforced : BOOLEAN]
TenantTypes ==
    /\ DOMAIN process \subseteq DOMAIN TenantScripts
    /\ process \in [DOMAIN process -> [stage : Nat, op : Nat, error : ScriptErrors]]
    /\ rowSecurity \in BOOLEAN
    /\ tickets \in [Tenants -> Nat \ {0}]
    /\ setting \in [DOMAIN process -> [Roles -> Tenants \cup {NoTenant}]]
    /\ answers \in [DOMAIN process -> Seq(Returns)]

\* Where the script of a process is: a session has one step more than its
\* operations, and naive-leak comes to its second stage only without an error.
LastOp(p) == IF Stage(p).session THEN Len(Ops(p)) + 1 ELSE Len(Ops(p))
PlacedAt(p) ==
    /\ process[p].stage \in 1..(Len(TenantScripts[p]) + 1)
    /\ process[p].op \in IF Running(p) THEN 0..LastOp(p) ELSE {0}
    /\ p = "naive_leak" /\ process[p].stage = 1 => process[p].error = "none"
Placed == \A p \in DOMAIN process : PlacedAt(p)

\* A connection has a tenant during its session alone, and then that one.
CleanAt(p) ==
    Running(p) =>
        /\ \A r \in Roles : setting[p][r] # NoTenant => Stage(p).session /\ Stage(p).role = r /\ process[p].op > 0
        /\ AtOp(p) /\ Stage(p).session => setting[p][Stage(p).role] = Stage(p).tenant
ConnectionsClean == \A p \in DOMAIN process : CleanAt(p)

\* The policy is off in the window of naive-leak alone, which ends it; before
\* the window nothing has gone wrong.
WindowIsKnown ==
    /\ ~rowSecurity => Overlapped /\ (Ended("naive_leak") => process["naive_leak"].error \in {"killed", "unrestored"})
    /\ ~Overlapped => tickets["globex"] = 1 /\ \A p \in DOMAIN process : process[p].error # "refuted"

Proper(a) == a.enforced /\ ~Bypasses(a.role) => a.rows \subseteq {a.tenant}
AnswersProper ==
    \A p \in DOMAIN process : \A i \in 1..Len(answers[p]) : Proper(answers[p][i])

\* owner-bypass: what its queries have returned so far.
ReadSoFar ==
    LET now == process["owner_bypass"].stage
        so == answers["owner_bypass"]
    IN  /\ Len(so) = IF process["owner_bypass"].op = 2 THEN now ELSE now - 1
        /\ \A i \in 1..Len(so) : so[i].rows = IF i < 3 THEN Tenants ELSE {}
OwnerReads ==
    "owner_bypass" \in DOMAIN process /\ process["owner_bypass"].error = "none" /\ ~Overlapped => ReadSoFar

TenantInv == TenantTypes /\ Placed /\ ConnectionsClean /\ WindowIsKnown /\ AnswersProper /\ OwnerReads

\* What the proof uses of how a stage is written: which are sessions, who asks
\* for what there, and where the policy is switched.
StageFits(p, i, s) ==
    /\ s.role \in Roles /\ s.tenant \in Tenants \cup {NoTenant} /\ s.session \in BOOLEAN
    /\ Len(s.ops) \in Nat \ {0} /\ (~s.session => Len(s.ops) = 1)
    /\ p = "naive_leak" => (s.session <=> i \in {2, 3})
    /\ p = "owner_bypass" => /\ s.session /\ s.tenant = NoTenant /\ (Bypasses(s.role) <=> i < 3)
                             /\ Len(s.ops) = 1 /\ s.ops[1] = "forgottenWhereClause"
OpFits(p, i, s, op) ==
    /\ op = "disable" => p = "naive_leak" /\ i = 1
    /\ op = "enable" <=> p = "naive_leak" /\ i = 4
    /\ op \in Reads \cup {"insertOther"} => s.session
    /\ op = "insertOther" => p = "least_privilege" /\ s.role = "app" /\ s.tenant = "acme"
    /\ p = "rls_fix" /\ op \in Reads => ~Bypasses(s.role)
    /\ p = "least_privilege" /\ op # "insertOther" => op \notin Granted(s.role)
    /\ p = "naive_leak" => op # "rlsState"
WrittenAt(p, i, s) == StageFits(p, i, s) /\ \A k \in 1..Len(s.ops) : OpFits(p, i, s, s.ops[k])
ScriptWritten(p) == \A i \in 1..Len(TenantScripts[p]) : WrittenAt(p, i, TenantScripts[p][i])

\* What each stage of the four scripts is.
LEMMA ScriptsAreWritten ==
  /\ DOMAIN TenantScripts = {"naive_leak", "rls_fix", "owner_bypass", "least_privilege"}
  /\ \A p \in DOMAIN TenantScripts : Len(TenantScripts[p]) \in Nat \ {0} /\ ScriptWritten(p)
  /\ Len(TenantScripts["naive_leak"]) = 4 /\ Len(TenantScripts["owner_bypass"]) = 3
<1>1. /\ DOMAIN TenantScripts = {"naive_leak", "rls_fix", "owner_bypass", "least_privilege"}
      /\ TenantScripts["naive_leak"] = NaiveLeak /\ TenantScripts["rls_fix"] = RlsFix
      /\ TenantScripts["owner_bypass"] = OwnerBypass /\ TenantScripts["least_privilege"] = LeastPrivilege
  BY DEF TenantScripts
<1>2. Len(NaiveLeak) = 4 /\ Len(RlsFix) = 4 /\ Len(OwnerBypass) = 3 /\ Len(LeastPrivilege) = 4
  BY DEF NaiveLeak, RlsFix, OwnerBypass, LeastPrivilege
<1>3. Granted("readonly") = Reads /\ Granted("app") = Reads \cup Writes /\ Granted("migrator") = Reads \cup Writes \cup OwnerOps
  BY Zenon DEF Granted
<1>4. ScriptWritten("naive_leak")
  <2>1. WrittenAt("naive_leak", 1, NaiveLeak[1])
    <3> DEFINE s == NaiveLeak[1]
    <3>1. s.role = "migrator" /\ s.tenant = NoTenant /\ s.session \in BOOLEAN /\ ~s.session
      BY DEF NaiveLeak, Session, PoolCall
    <3>2. Len(s.ops) = 1 /\ s.ops[1] = "disable"
      BY DEF NaiveLeak, Session, PoolCall
    <3> HIDE DEF s
    <3>3. StageFits("naive_leak", 1, s)
      BY <3>1, <3>2 DEF StageFits, Roles, Tenants, Bypasses
    <3>4. \A k \in 1..Len(s.ops) : OpFits("naive_leak", 1, s, s.ops[k])
      BY <1>3, <3>1, <3>2 DEF OpFits, Reads, Writes, OwnerOps, Bypasses
    <3>5. WrittenAt("naive_leak", 1, s)
      BY <3>3, <3>4 DEF WrittenAt
    <3> QED BY <3>5 DEF s
  <2>2. WrittenAt("naive_leak", 2, NaiveLeak[2])
    <3> DEFINE s == NaiveLeak[2]
    <3>1. s.role = "app" /\ s.tenant = "acme" /\ s.session \in BOOLEAN /\ s.session
      BY DEF NaiveLeak, Session, PoolCall
    <3>2. Len(s.ops) = 2 /\ s.ops[1] = "control" /\ s.ops[2] = "forgottenWhereClause"
      BY DEF NaiveLeak, Session, PoolCall
    <3> HIDE DEF s
    <3>3. StageFits("naive_leak", 2, s)
      BY <3>1, <3>2 DEF StageFits, Roles, Tenants, Bypasses
    <3>4. \A k \in 1..Len(s.ops) : OpFits("naive_leak", 2, s, s.ops[k])
      BY <1>3, <3>1, <3>2 DEF OpFits, Reads, Writes, OwnerOps, Bypasses
    <3>5. WrittenAt("naive_leak", 2, s)
      BY <3>3, <3>4 DEF WrittenAt
    <3> QED BY <3>5 DEF s
  <2>3. WrittenAt("naive_leak", 3, NaiveLeak[3])
    <3> DEFINE s == NaiveLeak[3]
    <3>1. s.role = "app" /\ s.tenant = "acme" /\ s.session \in BOOLEAN /\ s.session
      BY DEF NaiveLeak, Session, PoolCall
    <3>2. Len(s.ops) = 1 /\ s.ops[1] = "wrongTenantId"
      BY DEF NaiveLeak, Session, PoolCall
    <3> HIDE DEF s
    <3>3. StageFits("naive_leak", 3, s)
      BY <3>1, <3>2 DEF StageFits, Roles, Tenants, Bypasses
    <3>4. \A k \in 1..Len(s.ops) : OpFits("naive_leak", 3, s, s.ops[k])
      BY <1>3, <3>1, <3>2 DEF OpFits, Reads, Writes, OwnerOps, Bypasses
    <3>5. WrittenAt("naive_leak", 3, s)
      BY <3>3, <3>4 DEF WrittenAt
    <3> QED BY <3>5 DEF s
  <2>4. WrittenAt("naive_leak", 4, NaiveLeak[4])
    <3> DEFINE s == NaiveLeak[4]
    <3>1. s.role = "migrator" /\ s.tenant = NoTenant /\ s.session \in BOOLEAN /\ ~s.session
      BY DEF NaiveLeak, Session, PoolCall
    <3>2. Len(s.ops) = 1 /\ s.ops[1] = "enable"
      BY DEF NaiveLeak, Session, PoolCall
    <3> HIDE DEF s
    <3>3. StageFits("naive_leak", 4, s)
      BY <3>1, <3>2 DEF StageFits, Roles, Tenants, Bypasses
    <3>4. \A k \in 1..Len(s.ops) : OpFits("naive_leak", 4, s, s.ops[k])
      BY <1>3, <3>1, <3>2 DEF OpFits, Reads, Writes, OwnerOps, Bypasses
    <3>5. WrittenAt("naive_leak", 4, s)
      BY <3>3, <3>4 DEF WrittenAt
    <3> QED BY <3>5 DEF s
  <2> QED BY <1>1, <1>2, <2>1, <2>2, <2>3, <2>4 DEF ScriptWritten
<1>5. ScriptWritten("rls_fix")
  <2>1. WrittenAt("rls_fix", 1, RlsFix[1])
    <3> DEFINE s == RlsFix[1]
    <3>1. s.role = "migrator" /\ s.tenant = NoTenant /\ s.session \in BOOLEAN /\ ~s.session
      BY DEF RlsFix, Session, PoolCall
    <3>2. Len(s.ops) = 1 /\ s.ops[1] = "rlsState"
      BY DEF RlsFix, Session, PoolCall
    <3> HIDE DEF s
    <3>3. StageFits("rls_fix", 1, s)
      BY <3>1, <3>2 DEF StageFits, Roles, Tenants, Bypasses
    <3>4. \A k \in 1..Len(s.ops) : OpFits("rls_fix", 1, s, s.ops[k])
      BY <1>3, <3>1, <3>2 DEF OpFits, Reads, Writes, OwnerOps, Bypasses
    <3>5. WrittenAt("rls_fix", 1, s)
      BY <3>3, <3>4 DEF WrittenAt
    <3> QED BY <3>5 DEF s
  <2>2. WrittenAt("rls_fix", 2, RlsFix[2])
    <3> DEFINE s == RlsFix[2]
    <3>1. s.role = "app" /\ s.tenant = "acme" /\ s.session \in BOOLEAN /\ s.session
      BY DEF RlsFix, Session, PoolCall
    <3>2. Len(s.ops) = 1 /\ s.ops[1] = "forgottenWhereClause"
      BY DEF RlsFix, Session, PoolCall
    <3> HIDE DEF s
    <3>3. StageFits("rls_fix", 2, s)
      BY <3>1, <3>2 DEF StageFits, Roles, Tenants, Bypasses
    <3>4. \A k \in 1..Len(s.ops) : OpFits("rls_fix", 2, s, s.ops[k])
      BY <1>3, <3>1, <3>2 DEF OpFits, Reads, Writes, OwnerOps, Bypasses
    <3>5. WrittenAt("rls_fix", 2, s)
      BY <3>3, <3>4 DEF WrittenAt
    <3> QED BY <3>5 DEF s
  <2>3. WrittenAt("rls_fix", 3, RlsFix[3])
    <3> DEFINE s == RlsFix[3]
    <3>1. s.role = "app" /\ s.tenant = "acme" /\ s.session \in BOOLEAN /\ s.session
      BY DEF RlsFix, Session, PoolCall
    <3>2. Len(s.ops) = 1 /\ s.ops[1] = "wrongTenantId"
      BY DEF RlsFix, Session, PoolCall
    <3> HIDE DEF s
    <3>3. StageFits("rls_fix", 3, s)
      BY <3>1, <3>2 DEF StageFits, Roles, Tenants, Bypasses
    <3>4. \A k \in 1..Len(s.ops) : OpFits("rls_fix", 3, s, s.ops[k])
      BY <1>3, <3>1, <3>2 DEF OpFits, Reads, Writes, OwnerOps, Bypasses
    <3>5. WrittenAt("rls_fix", 3, s)
      BY <3>3, <3>4 DEF WrittenAt
    <3> QED BY <3>5 DEF s
  <2>4. WrittenAt("rls_fix", 4, RlsFix[4])
    <3> DEFINE s == RlsFix[4]
    <3>1. s.role = "app" /\ s.tenant = NoTenant /\ s.session \in BOOLEAN /\ s.session
      BY DEF RlsFix, Session, PoolCall
    <3>2. Len(s.ops) = 1 /\ s.ops[1] = "forgottenWhereClause"
      BY DEF RlsFix, Session, PoolCall
    <3> HIDE DEF s
    <3>3. StageFits("rls_fix", 4, s)
      BY <3>1, <3>2 DEF StageFits, Roles, Tenants, Bypasses
    <3>4. \A k \in 1..Len(s.ops) : OpFits("rls_fix", 4, s, s.ops[k])
      BY <1>3, <3>1, <3>2 DEF OpFits, Reads, Writes, OwnerOps, Bypasses
    <3>5. WrittenAt("rls_fix", 4, s)
      BY <3>3, <3>4 DEF WrittenAt
    <3> QED BY <3>5 DEF s
  <2> QED BY <1>1, <1>2, <2>1, <2>2, <2>3, <2>4 DEF ScriptWritten
<1>6. ScriptWritten("owner_bypass")
  <2>1. WrittenAt("owner_bypass", 1, OwnerBypass[1])
    <3> DEFINE s == OwnerBypass[1]
    <3>1. s.role = "migrator" /\ s.tenant = NoTenant /\ s.session \in BOOLEAN /\ s.session
      BY DEF OwnerBypass, Session, PoolCall
    <3>2. Len(s.ops) = 1 /\ s.ops[1] = "forgottenWhereClause"
      BY DEF OwnerBypass, Session, PoolCall
    <3> HIDE DEF s
    <3>3. StageFits("owner_bypass", 1, s)
      BY <3>1, <3>2 DEF StageFits, Roles, Tenants, Bypasses
    <3>4. \A k \in 1..Len(s.ops) : OpFits("owner_bypass", 1, s, s.ops[k])
      BY <1>3, <3>1, <3>2 DEF OpFits, Reads, Writes, OwnerOps, Bypasses
    <3>5. WrittenAt("owner_bypass", 1, s)
      BY <3>3, <3>4 DEF WrittenAt
    <3> QED BY <3>5 DEF s
  <2>2. WrittenAt("owner_bypass", 2, OwnerBypass[2])
    <3> DEFINE s == OwnerBypass[2]
    <3>1. s.role = "admin" /\ s.tenant = NoTenant /\ s.session \in BOOLEAN /\ s.session
      BY DEF OwnerBypass, Session, PoolCall
    <3>2. Len(s.ops) = 1 /\ s.ops[1] = "forgottenWhereClause"
      BY DEF OwnerBypass, Session, PoolCall
    <3> HIDE DEF s
    <3>3. StageFits("owner_bypass", 2, s)
      BY <3>1, <3>2 DEF StageFits, Roles, Tenants, Bypasses
    <3>4. \A k \in 1..Len(s.ops) : OpFits("owner_bypass", 2, s, s.ops[k])
      BY <1>3, <3>1, <3>2 DEF OpFits, Reads, Writes, OwnerOps, Bypasses
    <3>5. WrittenAt("owner_bypass", 2, s)
      BY <3>3, <3>4 DEF WrittenAt
    <3> QED BY <3>5 DEF s
  <2>3. WrittenAt("owner_bypass", 3, OwnerBypass[3])
    <3> DEFINE s == OwnerBypass[3]
    <3>1. s.role = "app" /\ s.tenant = NoTenant /\ s.session \in BOOLEAN /\ s.session
      BY DEF OwnerBypass, Session, PoolCall
    <3>2. Len(s.ops) = 1 /\ s.ops[1] = "forgottenWhereClause"
      BY DEF OwnerBypass, Session, PoolCall
    <3> HIDE DEF s
    <3>3. StageFits("owner_bypass", 3, s)
      BY <3>1, <3>2 DEF StageFits, Roles, Tenants, Bypasses
    <3>4. \A k \in 1..Len(s.ops) : OpFits("owner_bypass", 3, s, s.ops[k])
      BY <1>3, <3>1, <3>2 DEF OpFits, Reads, Writes, OwnerOps, Bypasses
    <3>5. WrittenAt("owner_bypass", 3, s)
      BY <3>3, <3>4 DEF WrittenAt
    <3> QED BY <3>5 DEF s
  <2> QED BY <1>1, <1>2, <2>1, <2>2, <2>3 DEF ScriptWritten
<1>7. ScriptWritten("least_privilege")
  <2>1. WrittenAt("least_privilege", 1, LeastPrivilege[1])
    <3> DEFINE s == LeastPrivilege[1]
    <3>1. s.role = "readonly" /\ s.tenant = "acme" /\ s.session \in BOOLEAN /\ s.session
      BY DEF LeastPrivilege, Session, PoolCall
    <3>2. Len(s.ops) = 3 /\ s.ops[1] = "insert" /\ s.ops[2] = "update" /\ s.ops[3] = "delete"
      BY DEF LeastPrivilege, Session, PoolCall
    <3> HIDE DEF s
    <3>3. StageFits("least_privilege", 1, s)
      BY <3>1, <3>2 DEF StageFits, Roles, Tenants, Bypasses
    <3>4. \A k \in 1..Len(s.ops) : OpFits("least_privilege", 1, s, s.ops[k])
      BY <1>3, <3>1, <3>2 DEF OpFits, Reads, Writes, OwnerOps, Bypasses
    <3>5. WrittenAt("least_privilege", 1, s)
      BY <3>3, <3>4 DEF WrittenAt
    <3> QED BY <3>5 DEF s
  <2>2. WrittenAt("least_privilege", 2, LeastPrivilege[2])
    <3> DEFINE s == LeastPrivilege[2]
    <3>1. s.role = "app" /\ s.tenant = "acme" /\ s.session \in BOOLEAN /\ s.session
      BY DEF LeastPrivilege, Session, PoolCall
    <3>2. Len(s.ops) = 4 /\ s.ops[1] = "create_table" /\ s.ops[2] = "drop_table" /\ s.ops[3] = "alter_table" /\ s.ops[4] = "insertOther"
      BY DEF LeastPrivilege, Session, PoolCall
    <3> HIDE DEF s
    <3>3. StageFits("least_privilege", 2, s)
      BY <3>1, <3>2 DEF StageFits, Roles, Tenants, Bypasses
    <3>4. \A k \in 1..Len(s.ops) : OpFits("least_privilege", 2, s, s.ops[k])
      BY <1>3, <3>1, <3>2 DEF OpFits, Reads, Writes, OwnerOps, Bypasses
    <3>5. WrittenAt("least_privilege", 2, s)
      BY <3>3, <3>4 DEF WrittenAt
    <3> QED BY <3>5 DEF s
  <2>3. WrittenAt("least_privilege", 3, LeastPrivilege[3])
    <3> DEFINE s == LeastPrivilege[3]
    <3>1. s.role = "migrator" /\ s.tenant = NoTenant /\ s.session \in BOOLEAN /\ ~s.session
      BY DEF LeastPrivilege, Session, PoolCall
    <3>2. Len(s.ops) = 1 /\ s.ops[1] = "create_role"
      BY DEF LeastPrivilege, Session, PoolCall
    <3> HIDE DEF s
    <3>3. StageFits("least_privilege", 3, s)
      BY <3>1, <3>2 DEF StageFits, Roles, Tenants, Bypasses
    <3>4. \A k \in 1..Len(s.ops) : OpFits("least_privilege", 3, s, s.ops[k])
      BY <1>3, <3>1, <3>2 DEF OpFits, Reads, Writes, OwnerOps, Bypasses
    <3>5. WrittenAt("least_privilege", 3, s)
      BY <3>3, <3>4 DEF WrittenAt
    <3> QED BY <3>5 DEF s
  <2>4. WrittenAt("least_privilege", 4, LeastPrivilege[4])
    <3> DEFINE s == LeastPrivilege[4]
    <3>1. s.role = "migrator" /\ s.tenant = NoTenant /\ s.session \in BOOLEAN /\ ~s.session
      BY DEF LeastPrivilege, Session, PoolCall
    <3>2. Len(s.ops) = 1 /\ s.ops[1] = "alter_role"
      BY DEF LeastPrivilege, Session, PoolCall
    <3> HIDE DEF s
    <3>3. StageFits("least_privilege", 4, s)
      BY <3>1, <3>2 DEF StageFits, Roles, Tenants, Bypasses
    <3>4. \A k \in 1..Len(s.ops) : OpFits("least_privilege", 4, s, s.ops[k])
      BY <1>3, <3>1, <3>2 DEF OpFits, Reads, Writes, OwnerOps, Bypasses
    <3>5. WrittenAt("least_privilege", 4, s)
      BY <3>3, <3>4 DEF WrittenAt
    <3> QED BY <3>5 DEF s
  <2> QED BY <1>1, <1>2, <2>1, <2>2, <2>3, <2>4 DEF ScriptWritten
<1> QED
  BY <1>1, <1>2, <1>4, <1>5, <1>6, <1>7

\* A running process is at a stage that is written, and an operation that fits it.
LEMMA AtItsStage ==
  ASSUME TenantTypes, Placed, NEW p \in DOMAIN process, Running(p)
  PROVE  /\ p \in DOMAIN TenantScripts /\ Len(TenantScripts[p]) \in Nat \ {0}
         /\ process[p].stage \in 1..Len(TenantScripts[p]) /\ process[p].op \in 0..LastOp(p)
         /\ process[p].error \in ScriptErrors
         /\ StageFits(p, process[p].stage, Stage(p))
         /\ AtOp(p) => OpFits(p, process[p].stage, Stage(p), Op(p))
         /\ LastOp(p) \in Nat
<1>1. p \in DOMAIN TenantScripts /\ PlacedAt(p) /\ process[p] \in [stage : Nat, op : Nat, error : ScriptErrors]
  BY DEF TenantTypes, Placed
<1>2. Len(TenantScripts[p]) \in Nat \ {0} /\ ScriptWritten(p)
  BY <1>1, ScriptsAreWritten
<1>3. process[p].stage \in 1..Len(TenantScripts[p]) /\ process[p].op \in 0..LastOp(p)
  BY <1>1, <1>2 DEF PlacedAt, Running
<1>4. WrittenAt(p, process[p].stage, Stage(p))
  BY <1>2, <1>3 DEF ScriptWritten, Stage
<1>5. StageFits(p, process[p].stage, Stage(p))
  BY <1>4 DEF WrittenAt
<1>6. AtOp(p) => OpFits(p, process[p].stage, Stage(p), Op(p))
  BY <1>4 DEF WrittenAt, AtOp, Op, Ops
<1>7. LastOp(p) \in Nat
  BY <1>5 DEF StageFits, LastOp, Ops
<1> QED
  BY <1>1, <1>2, <1>3, <1>5, <1>6, <1>7

\* Every step of a script moves it on: within its stage, or to a later one.
MovesTo(p, q) ==
    /\ q \in [stage : Nat, op : Nat, error : ScriptErrors]
    /\ process' = [process EXCEPT ![p] = q]
    /\ \/ /\ q.stage = process[p].stage /\ q.op \in 1..LastOp(p)
          /\ p = "naive_leak" /\ q.stage = 1 => q.error = process[p].error
       \/ q.stage \in (process[p].stage + 1)..(Len(TenantScripts[p]) + 1) /\ q.op = 0

\* Such a step keeps every process in its script, and never closes the window.
LEMMA MovesKeepPlaces ==
  ASSUME TenantTypes, Placed, NEW p \in DOMAIN process, Running(p), NEW q, MovesTo(p, q)
  PROVE  /\ DOMAIN process' = DOMAIN process
         /\ process' \in [DOMAIN process' -> [stage : Nat, op : Nat, error : ScriptErrors]]
         /\ process'[p] = q /\ \A x \in DOMAIN process : x # p => process'[x] = process[x]
         /\ Placed'
         /\ Overlapped => Overlapped'
<1>1. /\ q \in [stage : Nat, op : Nat, error : ScriptErrors]
      /\ DOMAIN process' = DOMAIN process
      /\ process' \in [DOMAIN process' -> [stage : Nat, op : Nat, error : ScriptErrors]]
      /\ process'[p] = q /\ \A x \in DOMAIN process : x # p => process'[x] = process[x]
  BY DEF MovesTo, TenantTypes
<1>2. /\ Len(TenantScripts[p]) \in Nat \ {0} /\ process[p].stage \in 1..Len(TenantScripts[p]) /\ LastOp(p) \in Nat
  BY AtItsStage
<1>3. ASSUME NEW x \in DOMAIN process, x # p PROVE PlacedAt(x)'
  BY <1>1, <1>3 DEF Placed, PlacedAt, Running, LastOp, Stage, Ops
<1>4. PlacedAt(p)'
  <2>1. CASE q.stage = process[p].stage
    <3>1. Running(p)' /\ Stage(p)' = Stage(p)
      BY <1>1, <1>2, <2>1 DEF Running, Stage
    <3>2. LastOp(p)' = LastOp(p)
      BY <3>1 DEF LastOp, Ops
    <3>3. q.op \in 1..LastOp(p) /\ (p = "naive_leak" /\ q.stage = 1 => q.error = process[p].error)
      BY <1>1, <1>2, <2>1 DEF MovesTo
    <3> QED
      BY <1>1, <1>2, <2>1, <3>1, <3>2, <3>3 DEF Placed, PlacedAt
  <2>2. CASE q.stage # process[p].stage
    <3>1. q.stage \in (process[p].stage + 1)..(Len(TenantScripts[p]) + 1) /\ q.op = 0
      BY <2>2 DEF MovesTo
    <3>2. q.stage \in 1..(Len(TenantScripts[p]) + 1) /\ q.stage # 1
      BY <1>2, <3>1
    <3>3. Running(p)' => LastOp(p)' \in Nat
      <4> SUFFICES ASSUME Running(p)' PROVE LastOp(p)' \in Nat
        OBVIOUS
      <4>1. q.stage \in 1..Len(TenantScripts[p]) /\ p \in DOMAIN TenantScripts /\ Stage(p)' = TenantScripts[p][q.stage]
        BY <1>1, <1>2, <3>1 DEF Running, TenantTypes, Stage
      <4>2. StageFits(p, q.stage, Stage(p)')
        BY <4>1, ScriptsAreWritten DEF ScriptWritten, WrittenAt
      <4> QED
        BY <4>2 DEF StageFits, LastOp, Ops
    <3> QED
      BY <1>1, <3>1, <3>2, <3>3 DEF PlacedAt
  <2> QED BY <2>1, <2>2
<1>5. Placed'
  BY <1>1, <1>3, <1>4 DEF Placed
<1>6. Overlapped => Overlapped'
  BY <1>1, <1>2 DEF Overlapped, MovesTo, TenantTypes
<1> QED
  BY <1>1, <1>5, <1>6

\* The connections after a step: the session of p has its tenant, or is over.
LEMMA CleanStays ==
  ASSUME TenantTypes, Placed, ConnectionsClean, NEW p \in DOMAIN process, Running(p), NEW q, MovesTo(p, q),
         \A x \in DOMAIN process : x # p => setting'[x] = setting[x],
         q.stage \in 1..Len(TenantScripts[p]) =>
            \A r \in Roles : setting'[p][r] # NoTenant => q.stage = process[p].stage /\ Stage(p).session /\ Stage(p).role = r,
         q.stage = process[p].stage /\ q.op \in 1..Len(Ops(p)) /\ Stage(p).session => setting'[p][Stage(p).role] = Stage(p).tenant
  PROVE  ConnectionsClean'
<1>1. /\ DOMAIN process' = DOMAIN process
      /\ process'[p] = q /\ \A x \in DOMAIN process : x # p => process'[x] = process[x]
  BY MovesKeepPlaces
<1>2. ASSUME NEW x \in DOMAIN process, x # p PROVE CleanAt(x)'
  BY <1>1, <1>2 DEF ConnectionsClean, CleanAt, Running, Stage, AtOp, Ops
<1>3. CleanAt(p)'
  <2> SUFFICES ASSUME Running(p)'
               PROVE  /\ \A r \in Roles : setting'[p][r] # NoTenant =>
                            Stage(p)'.session /\ Stage(p)'.role = r /\ q.op > 0
                      /\ AtOp(p)' /\ Stage(p)'.session => setting'[p][Stage(p)'.role] = Stage(p)'.tenant
    BY <1>1 DEF CleanAt
  <2>1. /\ q.stage \in Nat /\ q.stage <= Len(TenantScripts[p])
        /\ Len(TenantScripts[p]) \in Nat \ {0} /\ process[p].stage \in 1..Len(TenantScripts[p]) /\ LastOp(p) \in Nat
    BY <1>1, AtItsStage DEF Running, MovesTo
  <2>2. q.stage \in 1..Len(TenantScripts[p]) /\ q.stage >= process[p].stage
    BY <2>1 DEF MovesTo
  <2>3. CASE q.stage = process[p].stage
    <3>1. Stage(p)' = Stage(p) /\ Ops(p)' = Ops(p) /\ q.op > 0
      BY <1>1, <2>1, <2>3 DEF Stage, Ops, MovesTo
    <3>2. AtOp(p)' => q.op \in 1..Len(Ops(p))
      BY <1>1, <3>1 DEF AtOp
    <3> QED
      BY <2>2, <2>3, <3>1, <3>2
  <2>4. CASE q.stage # process[p].stage
    <3>1. q.op = 0 /\ ~AtOp(p)'
      BY <1>1, <2>4 DEF MovesTo, AtOp
    <3> QED
      BY <2>2, <2>4, <3>1
  <2> QED BY <2>3, <2>4
<1> QED
  BY <1>1, <1>2, <1>3 DEF ConnectionsClean

\* The window after a step that neither switches the policy nor inserts.
LEMMA WindowStays ==
  ASSUME TenantTypes, Placed, WindowIsKnown, NEW p \in DOMAIN process, Running(p), NEW q, MovesTo(p, q),
         UNCHANGED <<rowSecurity, tickets>>,
         q.error = "refuted" => process[p].error = "refuted",
         p = "naive_leak" /\ q.stage > 4 => q.error \in {"killed", "unrestored"} \/ process[p].stage = 1
  PROVE  WindowIsKnown'
<1>1. /\ DOMAIN process' = DOMAIN process /\ (Overlapped => Overlapped')
      /\ process'[p] = q /\ \A x \in DOMAIN process : x # p => process'[x] = process[x]
  BY MovesKeepPlaces
<1>2. ASSUME ~rowSecurity PROVE Overlapped' /\ (Ended("naive_leak")' => process'["naive_leak"].error \in {"killed", "unrestored"})
  <2>1. Overlapped /\ (Ended("naive_leak") => process["naive_leak"].error \in {"killed", "unrestored"})
    BY <1>2 DEF WindowIsKnown
  <2>2. CASE p # "naive_leak"
    BY <1>1, <2>1, <2>2 DEF Overlapped, Ended, Running
  <2>3. CASE p = "naive_leak"
    BY <1>1, <2>1, <2>3, ScriptsAreWritten DEF Overlapped, Ended, Running, MovesTo
  <2> QED BY <1>1, <2>1, <2>2, <2>3
<1>3. ASSUME ~Overlapped' PROVE tickets["globex"] = 1 /\ \A x \in DOMAIN process' : process'[x].error # "refuted"
  BY <1>1, <1>3 DEF WindowIsKnown
<1> QED
  BY <1>2, <1>3 DEF WindowIsKnown

\* What owner-bypass has read, after a step that reads nothing.
LEMMA OwnerReadsStay ==
  ASSUME TenantTypes, Placed, OwnerReads, NEW p \in DOMAIN process, Running(p), NEW q, MovesTo(p, q),
         UNCHANGED answers,
         p = "owner_bypass" /\ q.error = "none" =>
            /\ process[p].error = "none"
            /\ \/ q.stage = process[p].stage /\ process[p].op # 2 /\ q.op # 2
               \/ q.stage = process[p].stage + 1 /\ process[p].op = 2 /\ q.op = 0
  PROVE  OwnerReads'
<1>1. /\ DOMAIN process' = DOMAIN process /\ (Overlapped => Overlapped')
      /\ process'[p] = q /\ \A x \in DOMAIN process : x # p => process'[x] = process[x]
  BY MovesKeepPlaces
<1>2. process[p].stage \in Nat
  BY AtItsStage
<1>3. CASE p # "owner_bypass"
  BY <1>1, <1>3 DEF OwnerReads, ReadSoFar
<1>4. CASE p = "owner_bypass"
  BY <1>1, <1>2, <1>4 DEF OwnerReads, ReadSoFar
<1> QED
  BY <1>3, <1>4

\* Leave, GotoOp and OpDone: where they move a process.
NextStage(p, error) ==
    IF error = "none" THEN process[p].stage + 1
    ELSE IF p = "naive_leak" /\ process[p].stage \in {2, 3} THEN 4 ELSE Len(TenantScripts[p]) + 1
LeavesTo(p, q, error) ==
    /\ MovesTo(p, q)
    /\ q.stage = NextStage(p, error) /\ q.op = 0 /\ q.error = error
GoesTo(p, q, op, error) ==
    /\ MovesTo(p, q)
    /\ q.stage = process[p].stage /\ q.op = op /\ q.error = error

\* Leaving a stage: the next one, naive-leak's finally block, or the end.
LEMMA LeaveMoves ==
  ASSUME TenantTypes, Placed, NEW p \in DOMAIN process, Running(p), NEW error \in ScriptErrors, Leave(p, error)
  PROVE  \E q : LeavesTo(p, q, error)
<1> DEFINE q == [stage |-> NextStage(p, error), op |-> 0, error |-> error]
<1>1. /\ Len(TenantScripts[p]) \in Nat \ {0} /\ process[p].stage \in 1..Len(TenantScripts[p])
      /\ p = "naive_leak" => Len(TenantScripts[p]) = 4
  BY AtItsStage, ScriptsAreWritten
<1>2. NextStage(p, error) \in (process[p].stage + 1)..(Len(TenantScripts[p]) + 1)
  <2>1. CASE error = "none"
    BY <1>1, <2>1 DEF NextStage
  <2>2. CASE error # "none" /\ p = "naive_leak" /\ process[p].stage \in {2, 3}
    <3>1. NextStage(p, error) = 4
      BY <2>2 DEF NextStage
    <3>2. process[p].stage \in {2, 3} /\ Len(TenantScripts[p]) = 4
      BY <1>1, <2>2
    <3> QED BY <3>1, <3>2
  <2>3. CASE error # "none" /\ ~(p = "naive_leak" /\ process[p].stage \in {2, 3})
    <3>1. NextStage(p, error) = Len(TenantScripts[p]) + 1
      BY <2>3 DEF NextStage
    <3> QED BY <1>1, <3>1
  <2> QED BY <2>1, <2>2, <2>3
<1>3. process' = [process EXCEPT ![p] = q]
  BY DEF Leave, NextStage
<1>4. q \in [stage : Nat, op : Nat, error : ScriptErrors]
  BY <1>1, <1>2
<1>5. MovesTo(p, q)
  BY <1>2, <1>3, <1>4 DEF MovesTo
<1> QED
  BY <1>5 DEF LeavesTo

\* Going on within a session.
LEMMA GotoMoves ==
  ASSUME TenantTypes, Placed, NEW p \in DOMAIN process, Running(p), NEW op, op \in 1..LastOp(p), NEW error \in ScriptErrors,
         p = "naive_leak" /\ process[p].stage = 1 => error = process[p].error,
         GotoOp(p, op, error)
  PROVE  \E q : GoesTo(p, q, op, error)
<1> DEFINE q == [stage |-> process[p].stage, op |-> op, error |-> error]
<1>1. LastOp(p) \in Nat /\ op \in Nat /\ process[p] \in [stage : Nat, op : Nat, error : ScriptErrors]
  BY AtItsStage DEF TenantTypes
<1>2. process' = [process EXCEPT ![p] = q]
  <2>1. process' = [process EXCEPT ![p] = [[@ EXCEPT !.op = op] EXCEPT !.error = error]]
    BY DEF GotoOp, TenantTypes
  <2>2. ASSUME NEW where \in [stage : Nat, op : Nat, error : ScriptErrors], NEW o \in Nat, NEW e \in ScriptErrors
        PROVE  [[where EXCEPT !.op = o] EXCEPT !.error = e] = [stage |-> where.stage, op |-> o, error |-> e]
    <3>1. [where EXCEPT !.op = o] = [stage |-> where.stage, op |-> o, error |-> where.error]
      OBVIOUS
    <3>2. [[stage |-> where.stage, op |-> o, error |-> where.error] EXCEPT !.error = e] = [stage |-> where.stage, op |-> o, error |-> e]
      OBVIOUS
    <3> QED BY <3>1, <3>2
  <2>3. [[process[p] EXCEPT !.op = op] EXCEPT !.error = error] = q
    BY <1>1, <2>2
  <2> QED BY <2>1, <2>3
<1>3. q \in [stage : Nat, op : Nat, error : ScriptErrors]
  BY <1>1
<1>4. MovesTo(p, q)
  BY <1>2, <1>3 DEF MovesTo
<1> QED
  BY <1>4 DEF GoesTo

\* The end of an operation: a session goes on or to its reset, a pool call leaves.
LEMMA OpDoneMoves ==
  ASSUME TenantTypes, Placed, NEW p \in DOMAIN process, Running(p), NEW error \in ScriptErrors,
         process[p].op \in 0..Len(Ops(p)), process[p].op = 0 => error # "none",
         OpDone(p, error)
  PROVE  \E q : LET kept == IF error = "none" THEN process[p].error ELSE error IN
            \/ ~Stage(p).session /\ LeavesTo(p, q, kept)
            \/ Stage(p).session /\ GoesTo(p, q, IF error = "none" THEN process[p].op + 1 ELSE Len(Ops(p)) + 1, kept)
<1> DEFINE kept == IF error = "none" THEN process[p].error ELSE error
           next == IF error = "none" THEN process[p].op + 1 ELSE Len(Ops(p)) + 1
<1>1. /\ process[p].error \in ScriptErrors /\ StageFits(p, process[p].stage, Stage(p))
      /\ process[p].op \in Nat
  BY AtItsStage
<1>2. /\ Stage(p).session \in BOOLEAN /\ Len(Ops(p)) \in Nat \ {0} /\ kept \in ScriptErrors
      /\ p = "naive_leak" /\ process[p].stage = 1 => ~Stage(p).session
      /\ ~Stage(p).session => Len(Ops(p)) = 1
  BY <1>1 DEF StageFits, Ops
<1>3. CASE ~Stage(p).session
  <2>1. error # "none" \/ process[p].op = Len(Ops(p))
    <3>1. Len(Ops(p)) = 1
      BY <1>2, <1>3
    <3> QED BY <3>1
  <2>2. Leave(p, kept)
    BY <1>3, <2>1 DEF OpDone
  <2> QED BY <1>2, <1>3, <2>2, LeaveMoves
<1>4. CASE Stage(p).session
  <2>1. GotoOp(p, next, kept)
    BY <1>4 DEF OpDone
  <2>2. next \in 1..LastOp(p)
    BY <1>1, <1>2, <1>4 DEF LastOp
  <2>3. \E q : GoesTo(p, q, next, kept)
    BY <1>2, <1>4, <2>1, <2>2, GotoMoves
  <2> QED BY <1>4, <2>3
<1> QED
  BY <1>2, <1>3, <1>4

\* A session begins: its connection has its tenant.
LEMMA SetTenantKeeps ==
  ASSUME TenantInv, NEW p \in DOMAIN process, SetTenant(p)
  PROVE  TenantInv'
<1>0. TenantTypes /\ Placed /\ ConnectionsClean /\ WindowIsKnown /\ AnswersProper /\ OwnerReads
  BY DEF TenantInv
<1>1. /\ Running(p) /\ process[p].op = 0 /\ UNCHANGED <<rowSecurity, tickets, answers>>
      /\ GotoOp(p, 1, process[p].error)
      /\ setting' = IF Stage(p).session THEN [setting EXCEPT ![p][Stage(p).role] = Stage(p).tenant] ELSE setting
  BY DEF SetTenant, TenantIsSet
<1>2. /\ StageFits(p, process[p].stage, Stage(p)) /\ process[p].error \in ScriptErrors
      /\ p \in DOMAIN TenantScripts /\ process[p].stage \in 1..Len(TenantScripts[p])
  BY <1>0, <1>1, AtItsStage
<1>3. 1 \in 1..LastOp(p) /\ Stage(p).role \in Roles /\ Stage(p).tenant \in Tenants \cup {NoTenant}
  BY <1>2 DEF StageFits, LastOp, Ops
<1>4. PICK q : GoesTo(p, q, 1, process[p].error)
  BY <1>0, <1>1, <1>2, <1>3, GotoMoves
<1>5. MovesTo(p, q) /\ q.stage = process[p].stage /\ q.op = 1 /\ q.error = process[p].error
  BY <1>4 DEF GoesTo
<1>6. /\ setting' \in [DOMAIN process -> [Roles -> Tenants \cup {NoTenant}]]
      /\ \A x \in DOMAIN process : x # p => setting'[x] = setting[x]
      /\ Stage(p).session => setting'[p] = [setting[p] EXCEPT ![Stage(p).role] = Stage(p).tenant]
      /\ ~Stage(p).session => setting'[p] = setting[p]
  BY <1>0, <1>1, <1>3 DEF TenantTypes
<1>7. TenantTypes'
  BY <1>0, <1>1, <1>5, <1>6, MovesKeepPlaces DEF TenantTypes
<1>8. Placed'
  BY <1>0, <1>1, <1>5, MovesKeepPlaces
<1>9. ConnectionsClean'
  <2>1. CleanAt(p) /\ setting[p] \in [Roles -> Tenants \cup {NoTenant}]
    BY <1>0 DEF ConnectionsClean, TenantTypes
  <2>2. \A r \in Roles : setting[p][r] = NoTenant
    BY <1>1, <2>1 DEF CleanAt
  <2>3. \A r \in Roles : setting'[p][r] # NoTenant => Stage(p).session /\ Stage(p).role = r
    BY <1>3, <1>6, <2>1, <2>2
  <2>4. Stage(p).session => setting'[p][Stage(p).role] = Stage(p).tenant
    BY <1>3, <1>6, <2>1
  <2> QED BY <1>0, <1>1, <1>5, <1>6, <2>3, <2>4, CleanStays
<1>10. WindowIsKnown'
  <2>1. p = "naive_leak" => q.stage \in 1..4
    BY <1>2, <1>5, ScriptsAreWritten
  <2> QED BY <1>0, <1>1, <1>5, <2>1, WindowStays
<1>11. AnswersProper'
  BY <1>0, <1>1, <1>5, MovesKeepPlaces DEF AnswersProper, Proper
<1>12. OwnerReads'
  BY <1>0, <1>1, <1>5, OwnerReadsStay
<1> QED
  BY <1>7, <1>8, <1>9, <1>10, <1>11, <1>12 DEF TenantInv

\* A step that leaves the connections alone and moves p to another stage, or to
\* the reset, keeps them clean.
LEMMA CleanWhenUnset ==
  ASSUME TenantTypes, Placed, ConnectionsClean, NEW p \in DOMAIN process, Running(p), NEW q, MovesTo(p, q),
         UNCHANGED setting,
         \/ q.stage = process[p].stage /\ q.op > Len(Ops(p))
         \/ q.stage = process[p].stage /\ process[p].op > 0 /\ process[p].op <= Len(Ops(p))
         \/ ~Stage(p).session \/ q.stage > Len(TenantScripts[p])
  PROVE  ConnectionsClean'
<1>1. /\ CleanAt(p) /\ process[p].op \in Nat /\ process[p].stage \in 1..Len(TenantScripts[p])
      /\ StageFits(p, process[p].stage, Stage(p)) /\ Len(TenantScripts[p]) \in Nat
  BY AtItsStage DEF ConnectionsClean, TenantTypes
<1>2. Len(Ops(p)) \in Nat /\ q.op \in Nat /\ q.stage \in Nat
  BY <1>1 DEF StageFits, Ops, MovesTo
<1>3. /\ \A r \in Roles : setting[p][r] # NoTenant => Stage(p).session /\ Stage(p).role = r
      /\ AtOp(p) /\ Stage(p).session => setting[p][Stage(p).role] = Stage(p).tenant
  BY <1>1 DEF CleanAt
<1>4. q.stage \in 1..Len(TenantScripts[p]) =>
        \A r \in Roles : setting'[p][r] # NoTenant => q.stage = process[p].stage /\ Stage(p).session /\ Stage(p).role = r
  BY <1>1, <1>2, <1>3
<1>5. q.stage = process[p].stage /\ q.op \in 1..Len(Ops(p)) /\ Stage(p).session => setting'[p][Stage(p).role] = Stage(p).tenant
  <2> SUFFICES ASSUME q.stage = process[p].stage, q.op \in 1..Len(Ops(p)), Stage(p).session
               PROVE  setting[p][Stage(p).role] = Stage(p).tenant
    OBVIOUS
  <2>1. process[p].op > 0 /\ process[p].op <= Len(Ops(p))
    BY <1>1, <1>2
  <2>2. AtOp(p)
    BY <1>1, <1>2, <2>1 DEF AtOp
  <2> QED BY <1>3, <2>2
<1> QED
  BY <1>4, <1>5, CleanStays

\* The tenant is cleared, and the script goes on or leaves.
LEMMA ResetTenantKeeps ==
  ASSUME TenantInv, NEW p \in DOMAIN process, ResetTenant(p)
  PROVE  TenantInv'
<1>0. TenantTypes /\ Placed /\ ConnectionsClean /\ WindowIsKnown /\ AnswersProper /\ OwnerReads
  BY DEF TenantInv
<1>1. /\ Running(p) /\ Stage(p).session /\ process[p].op = Len(Ops(p)) + 1 /\ UNCHANGED <<rowSecurity, tickets, answers>>
      /\ setting' = [setting EXCEPT ![p][Stage(p).role] = NoTenant]
  BY DEF ResetTenant
<1>2. /\ StageFits(p, process[p].stage, Stage(p)) /\ process[p].op \in Nat /\ process[p].error \in ScriptErrors
      /\ p \in DOMAIN TenantScripts /\ process[p].stage \in 1..Len(TenantScripts[p])
      /\ Len(TenantScripts[p]) \in Nat
  BY <1>0, <1>1, AtItsStage
<1>3. PICK error \in {process[p].error, "failed"} : Leave(p, error)
  BY DEF ResetTenant
<1>4. error \in ScriptErrors
  BY <1>2, <1>3 DEF ScriptErrors
<1>5. PICK q : LeavesTo(p, q, error)
  BY <1>0, <1>1, <1>3, <1>4, LeaveMoves
<1>6. MovesTo(p, q) /\ q.stage = NextStage(p, error) /\ q.op = 0 /\ q.error = error
  BY <1>5 DEF LeavesTo
<1>7. Stage(p).role \in Roles
  BY <1>2 DEF StageFits
<1>8. /\ setting' \in [DOMAIN process -> [Roles -> Tenants \cup {NoTenant}]]
      /\ \A x \in DOMAIN process : x # p => setting'[x] = setting[x]
      /\ setting'[p] = [setting[p] EXCEPT ![Stage(p).role] = NoTenant]
  BY <1>0, <1>1, <1>7 DEF TenantTypes
<1>9. TenantTypes'
  BY <1>0, <1>1, <1>6, <1>8, MovesKeepPlaces DEF TenantTypes
<1>10. Placed'
  BY <1>0, <1>1, <1>6, MovesKeepPlaces
<1>11. ConnectionsClean'
  <2>1. CleanAt(p) /\ setting[p] \in [Roles -> Tenants \cup {NoTenant}]
    BY <1>0 DEF ConnectionsClean, TenantTypes
  <2>2. \A r \in Roles : setting'[p][r] = NoTenant
    BY <1>1, <1>7, <1>8, <2>1 DEF CleanAt
  <2>3. q.op \notin 1..Len(Ops(p))
    BY <1>6
  <2> QED BY <1>0, <1>1, <1>6, <1>8, <2>2, <2>3, CleanStays
<1>12. WindowIsKnown'
  <2>1. p = "naive_leak" /\ q.stage > 4 => process[p].stage = 1
    BY <1>1, <1>2, <1>6 DEF StageFits, NextStage
  <2>2. q.error = "refuted" => process[p].error = "refuted"
    BY <1>3, <1>6
  <2> QED BY <1>0, <1>1, <1>6, <2>1, <2>2, WindowStays
<1>13. AnswersProper'
  BY <1>0, <1>1, <1>6, MovesKeepPlaces DEF AnswersProper, Proper
<1>14. OwnerReads'
  <2>1. p = "owner_bypass" => Len(Ops(p)) = 1
    BY <1>2 DEF StageFits, Ops
  <2>2. p = "owner_bypass" => process[p].op = 2
    <3>1. process[p].op = Len(Ops(p)) + 1
      BY <1>1, Zenon
    <3>2. Len(Ops(p)) = 1 => process[p].op = 2
      BY <3>1
    <3> QED BY <2>1, <3>2, Zenon
  <2>3. q.error = "none" => process[p].error = "none" /\ q.stage = process[p].stage + 1
    BY <1>3, <1>6 DEF NextStage
  <2> QED BY <1>0, <1>1, <1>6, <2>2, <2>3, OwnerReadsStay
<1> QED
  BY <1>9, <1>10, <1>11, <1>12, <1>13, <1>14 DEF TenantInv

\* A killed process leaves what it has set, and runs no more.
LEMMA KilledKeeps ==
  ASSUME TenantInv, NEW p \in DOMAIN process, Killed(p)
  PROVE  TenantInv'
<1>0. TenantTypes /\ Placed /\ ConnectionsClean /\ WindowIsKnown /\ AnswersProper /\ OwnerReads
  BY DEF TenantInv
<1> DEFINE q == [stage |-> Len(TenantScripts[p]) + 1, op |-> 0, error |-> "killed"]
<1>1. Running(p) /\ process' = [process EXCEPT ![p] = q] /\ UNCHANGED <<rowSecurity, tickets, setting, answers>>
  BY DEF Killed
<1>2. Len(TenantScripts[p]) \in Nat /\ process[p].stage \in 1..Len(TenantScripts[p])
  BY <1>0, <1>1, AtItsStage
<1>3. MovesTo(p, q)
  BY <1>1, <1>2 DEF MovesTo, ScriptErrors
<1>4. q.stage = Len(TenantScripts[p]) + 1 /\ q.op = 0 /\ q.error = "killed"
  OBVIOUS
<1> HIDE DEF q
<1>5. TenantTypes'
  BY <1>0, <1>1, <1>3, MovesKeepPlaces DEF TenantTypes
<1>6. Placed'
  BY <1>0, <1>1, <1>3, MovesKeepPlaces
<1>7. ConnectionsClean'
  BY <1>0, <1>1, <1>2, <1>3, <1>4, CleanWhenUnset
<1>8. WindowIsKnown'
  BY <1>0, <1>1, <1>3, <1>4, WindowStays
<1>9. AnswersProper'
  BY <1>0, <1>1, <1>3, MovesKeepPlaces DEF AnswersProper, Proper
<1>10. OwnerReads'
  BY <1>0, <1>1, <1>3, <1>4, OwnerReadsStay
<1> QED
  BY <1>5, <1>6, <1>7, <1>8, <1>9, <1>10 DEF TenantInv

\* No tenant is none of the tenants; a query asks for rows of the tenants alone.
LEMMA QueriesAskForTenants ==
  /\ NoTenant \notin Tenants
  /\ \A op : Asks(op) \subseteq Tenants
  /\ Asks("forgottenWhereClause") = Tenants
<1>1. NoTenant \notin Tenants
  BY DEF NoTenant, Tenants
<1>2. ASSUME NEW op PROVE Asks(op) \subseteq Tenants
  <2>1. CASE op = "control"
    BY <2>1, Zenon DEF Asks, Tenants
  <2>2. CASE op = "wrongTenantId"
    <3>1. op # "control"
      BY <2>2
    <3> QED BY <2>2, <3>1, Zenon DEF Asks, Tenants
  <2>3. CASE op # "control" /\ op # "wrongTenantId"
    BY <2>3, Zenon DEF Asks
  <2> QED BY <2>1, <2>2, <2>3
<1>3. Asks("forgottenWhereClause") = Tenants
  <2>1. "forgottenWhereClause" # "control" /\ "forgottenWhereClause" # "wrongTenantId"
    OBVIOUS
  <2> QED BY <2>1, Zenon DEF Asks
<1> QED
  BY <1>1, <1>2, <1>3

\* With the policy on, a query of a session sees what its tenant may see, an
\* insert for another tenant is denied, and no script has anything to complain of.
LEMMA PolicyGuards ==
  ASSUME TenantTypes, Placed, ConnectionsClean, NEW p \in DOMAIN process, AtOp(p), rowSecurity
  PROVE  /\ Op(p) \in Reads =>
               Rows(p) = {t \in Asks(Op(p)) : tickets[t] > 0 /\ Isolated(Stage(p).role, Stage(p).tenant, t)}
         /\ Op(p) = "insertOther" => Denied(p)
         /\ ~Refuted(p)
<1>1. Running(p) /\ CleanAt(p)
  BY DEF AtOp, ConnectionsClean
<1>2. OpFits(p, process[p].stage, Stage(p), Op(p)) /\ StageFits(p, process[p].stage, Stage(p))
  BY <1>1, AtItsStage
<1>3. Stage(p).session => setting[p][Stage(p).role] = Stage(p).tenant
  BY <1>1 DEF CleanAt
<1>4. ASSUME Op(p) \in Reads
      PROVE  Rows(p) = {t \in Asks(Op(p)) : tickets[t] > 0 /\ Isolated(Stage(p).role, Stage(p).tenant, t)}
  <2>1. setting[p][Stage(p).role] = Stage(p).tenant
    BY <1>2, <1>3, <1>4 DEF OpFits
  <2> QED BY <2>1 DEF Rows, Allowed
<1>5. ASSUME Op(p) = "insertOther" PROVE Denied(p)
  <2>1. Stage(p).role = "app" /\ setting[p][Stage(p).role] = "acme"
    BY <1>2, <1>3, <1>5 DEF OpFits
  <2>2. ~Isolated(Stage(p).role, setting[p][Stage(p).role], "globex")
    BY <2>1 DEF Isolated, Bypasses
  <2> QED BY <1>5, <2>2 DEF Denied, Allowed
<1>6. ASSUME p = "rls_fix", Op(p) \in Reads PROVE Rows(p) \subseteq {Stage(p).tenant}
  <2>1. ~Bypasses(Stage(p).role)
    BY <1>2, <1>6 DEF OpFits
  <2> QED BY <1>4, <1>6, <2>1 DEF Isolated
<1>7. ASSUME p = "least_privilege" PROVE Denied(p)
  <2>1. CASE Op(p) = "insertOther"
    BY <1>5, <2>1
  <2>2. CASE Op(p) # "insertOther"
    BY <1>2, <1>7, <2>2 DEF OpFits, Denied
  <2> QED BY <2>1, <2>2
<1>8. ~Refuted(p)
  BY <1>6, <1>7 DEF Refuted
<1> QED
  BY <1>4, <1>5, <1>8

\* What an operation does to the process: it goes on in its session, or leaves
\* its call on the pool.
LEMMA RunOpMoves ==
  ASSUME TenantTypes, Placed, NEW p \in DOMAIN process, RunOp(p)
  PROVE  \E q : LET kept == IF Refuted(p) THEN "refuted" ELSE process[p].error IN
            \/ ~Stage(p).session /\ LeavesTo(p, q, kept)
            \/ /\ Stage(p).session
               /\ GoesTo(p, q, IF Refuted(p) THEN Len(Ops(p)) + 1 ELSE process[p].op + 1, kept)
<1>1. AtOp(p) /\ Running(p) /\ process[p].op \in 1..Len(Ops(p))
  BY DEF RunOp, AtOp
<1>2. Len(Ops(p)) \in Nat /\ process[p].op \in 0..Len(Ops(p)) /\ process[p].op # 0
  BY <1>1, AtItsStage DEF StageFits, Ops
<1>3. CASE Refuted(p)
  <2>1. OpDone(p, "refuted")
    BY <1>3, Zenon DEF RunOp
  <2>2. "refuted" \in ScriptErrors /\ "refuted" # "none"
    BY DEF ScriptErrors
  <2>3. \E q : \/ ~Stage(p).session /\ LeavesTo(p, q, "refuted")
               \/ Stage(p).session /\ GoesTo(p, q, Len(Ops(p)) + 1, "refuted")
    <3> DEFINE error == "refuted"
    <3>1. OpDone(p, error) /\ error \in ScriptErrors /\ error # "none"
      BY <2>1, <2>2
    <3> HIDE DEF error
    <3>2. \E q : \/ ~Stage(p).session /\ LeavesTo(p, q, error)
                 \/ Stage(p).session /\ GoesTo(p, q, Len(Ops(p)) + 1, error)
      BY <1>1, <1>2, <3>1, OpDoneMoves
    <3> QED BY <3>2 DEF error
  <2> QED BY <1>3, <2>3, Zenon
<1>4. CASE ~Refuted(p)
  <2>1. OpDone(p, "none")
    BY <1>4, Zenon DEF RunOp
  <2>2. "none" \in ScriptErrors
    BY DEF ScriptErrors
  <2>3. \E q : \/ ~Stage(p).session /\ LeavesTo(p, q, process[p].error)
               \/ Stage(p).session /\ GoesTo(p, q, process[p].op + 1, process[p].error)
    BY <1>1, <1>2, <2>1, <2>2, OpDoneMoves
  <2> QED BY <1>4, <2>3, Zenon
<1> QED
  BY <1>3, <1>4

\* The policy and the window after an operation.
LEMMA WindowAfterRunOp ==
  ASSUME TenantTypes, Placed, ConnectionsClean, WindowIsKnown, NEW p \in DOMAIN process, RunOp(p)
  PROVE  WindowIsKnown' /\ (~Overlapped' => rowSecurity /\ ~Refuted(p))
<1>1. AtOp(p) /\ Running(p)
  BY DEF RunOp, AtOp
<1>2. /\ StageFits(p, process[p].stage, Stage(p)) /\ OpFits(p, process[p].stage, Stage(p), Op(p))
      /\ process[p].stage \in 1..Len(TenantScripts[p]) /\ PlacedAt(p)
      /\ p = "naive_leak" => Len(TenantScripts[p]) = 4
  BY <1>1, AtItsStage, ScriptsAreWritten DEF Placed
<1> DEFINE kept == IF Refuted(p) THEN "refuted" ELSE process[p].error
<1>3. PICK q : \/ ~Stage(p).session /\ LeavesTo(p, q, kept)
               \/ Stage(p).session /\ GoesTo(p, q, IF Refuted(p) THEN Len(Ops(p)) + 1 ELSE process[p].op + 1, kept)
  BY RunOpMoves
<1>4. /\ MovesTo(p, q) /\ q.error = kept
      /\ ~Stage(p).session => q.stage = NextStage(p, kept)
      /\ Stage(p).session => q.stage = process[p].stage
  BY <1>3 DEF LeavesTo, GoesTo
<1>5. /\ DOMAIN process' = DOMAIN process /\ (Overlapped => Overlapped')
      /\ process'[p] = q /\ \A x \in DOMAIN process : x # p => process'[x] = process[x]
  BY <1>1, <1>4, MovesKeepPlaces
<1>6. ASSUME ~Overlapped' PROVE rowSecurity /\ ~Overlapped /\ ~Refuted(p)
  BY <1>1, <1>5, <1>6, PolicyGuards DEF WindowIsKnown
<1>7. ASSUME ~Overlapped'
      PROVE  tickets'["globex"] = 1 /\ \A x \in DOMAIN process' : process'[x].error # "refuted"
  <2>1. ~(Op(p) = "insertOther" /\ ~Denied(p))
    BY <1>1, <1>6, <1>7, PolicyGuards
  <2>2. tickets' = tickets
    BY <2>1 DEF RunOp, TakesEffect
  <2>3. q.error = process[p].error
    BY <1>4, <1>6, <1>7
  <2> QED BY <1>5, <1>6, <1>7, <2>2, <2>3 DEF WindowIsKnown
<1>8. ASSUME ~rowSecurity'
      PROVE  Overlapped' /\ (Ended("naive_leak")' => process'["naive_leak"].error \in {"killed", "unrestored"})
  <2>1. Op(p) = "disable" \/ (~rowSecurity /\ Op(p) # "enable")
    BY <1>8 DEF RunOp, TakesEffect
  <2>2. CASE Op(p) = "disable"
    <3>1. p = "naive_leak" /\ process[p].stage = 1 /\ process[p].error = "none"
      BY <1>2, <2>2 DEF OpFits, PlacedAt
    <3>2. ~Refuted(p)
      BY <2>2, <3>1 DEF Refuted
    <3>3. q.stage = 2
      <4>1. ~Stage(p).session
        BY <1>2, <3>1 DEF StageFits
      <4>2. kept = "none"
        BY <3>1, <3>2
      <4> QED BY <1>4, <3>1, <4>1, <4>2 DEF NextStage
    <3>4. Len(TenantScripts[p]) = 4 /\ p \in DOMAIN process' /\ process'[p].stage = 2
      BY <1>2, <1>5, <3>1, <3>3
    <3>5. Overlapped'
      BY <3>1, <3>4 DEF Overlapped
    <3>6. ~Ended("naive_leak")'
      BY <3>1, <3>4 DEF Ended, Running
    <3> QED BY <3>5, <3>6
  <2>3. CASE ~rowSecurity /\ Op(p) # "enable"
    <3>1. Overlapped /\ (Ended("naive_leak") => process["naive_leak"].error \in {"killed", "unrestored"})
      BY <2>3 DEF WindowIsKnown
    <3>2. CASE p # "naive_leak"
      BY <1>5, <3>1, <3>2 DEF Overlapped, Ended, Running
    <3>3. CASE p = "naive_leak"
      <4>1. process[p].stage \in {2, 3}
        <5>1. process[p].stage # 4
          BY <1>2, <2>3, <3>3 DEF OpFits
        <5>2. process[p].stage \in 1..4 /\ process[p].stage > 1
          BY <1>2, <3>1, <3>3 DEF Overlapped
        <5> QED BY <5>1, <5>2
      <4>2. q.stage = process[p].stage
        BY <1>2, <1>4, <3>3, <4>1 DEF StageFits
      <4> QED BY <1>2, <1>5, <3>3, <4>1, <4>2 DEF Overlapped, Ended, Running
    <3> QED BY <3>2, <3>3
  <2> QED BY <2>1, <2>2, <2>3
<1> QED
  BY <1>6, <1>7, <1>8 DEF WindowIsKnown

\* What a query returns is proper: rows of its tenant alone while the policy is on.
LEMMA QueryIsProper ==
  ASSUME TenantTypes, Placed, ConnectionsClean, NEW p \in DOMAIN process, AtOp(p), Op(p) \in Reads
  PROVE  LET a == [role |-> Stage(p).role, tenant |-> Stage(p).tenant, op |-> Op(p), rows |-> Rows(p),
                   enforced |-> rowSecurity]
         IN  a \in Returns /\ Proper(a)
<1> DEFINE a == [role |-> Stage(p).role, tenant |-> Stage(p).tenant, op |-> Op(p), rows |-> Rows(p),
                 enforced |-> rowSecurity]
<1>1. StageFits(p, process[p].stage, Stage(p))
  BY AtItsStage DEF AtOp
<1>2. Rows(p) \subseteq Tenants
  BY QueriesAskForTenants DEF Rows
<1>3. a \in Returns
  BY <1>1, <1>2 DEF StageFits, Returns, TenantTypes
<1>4. ASSUME rowSecurity, ~Bypasses(Stage(p).role) PROVE Rows(p) \subseteq {Stage(p).tenant}
  BY <1>4, PolicyGuards DEF Isolated
<1>5. Proper(a)
  <2>1. a.enforced = rowSecurity /\ a.role = Stage(p).role /\ a.rows = Rows(p) /\ a.tenant = Stage(p).tenant
    OBVIOUS
  <2> QED BY <1>4, <2>1, Zenon DEF Proper
<1> QED
  BY <1>3, <1>5

\* An operation of a script.
LEMMA RunOpKeeps ==
  ASSUME TenantInv, NEW p \in DOMAIN process, RunOp(p)
  PROVE  TenantInv'
<1>0. TenantTypes /\ Placed /\ ConnectionsClean /\ WindowIsKnown /\ AnswersProper /\ OwnerReads
  BY DEF TenantInv
<1> DEFINE a == [role |-> Stage(p).role, tenant |-> Stage(p).tenant, op |-> Op(p), rows |-> Rows(p),
                 enforced |-> rowSecurity]
           kept == IF Refuted(p) THEN "refuted" ELSE process[p].error
<1>1. /\ AtOp(p) /\ Running(p) /\ UNCHANGED setting /\ process[p].op \in 1..Len(Ops(p))
      /\ answers' = [answers EXCEPT ![p] = IF Op(p) \in Reads THEN Append(@, a) ELSE @]
  BY DEF RunOp, AtOp
<1>2. /\ StageFits(p, process[p].stage, Stage(p)) /\ OpFits(p, process[p].stage, Stage(p), Op(p))
      /\ process[p].stage \in 1..Len(TenantScripts[p]) /\ process[p].op \in Nat /\ Len(TenantScripts[p]) \in Nat
  BY <1>0, <1>1, AtItsStage
<1>3. PICK q : \/ ~Stage(p).session /\ LeavesTo(p, q, kept)
               \/ Stage(p).session /\ GoesTo(p, q, IF Refuted(p) THEN Len(Ops(p)) + 1 ELSE process[p].op + 1, kept)
  BY <1>0, RunOpMoves
<1>4. /\ MovesTo(p, q) /\ q.error = kept
      /\ Stage(p).session => q.stage = process[p].stage
      /\ Stage(p).session /\ ~Refuted(p) => q.op = process[p].op + 1
  BY <1>3 DEF LeavesTo, GoesTo
<1>5. /\ DOMAIN process' = DOMAIN process /\ (Overlapped => Overlapped') /\ Placed'
      /\ process' \in [DOMAIN process' -> [stage : Nat, op : Nat, error : ScriptErrors]]
      /\ process'[p] = q /\ \A x \in DOMAIN process : x # p => process'[x] = process[x]
  BY <1>0, <1>1, <1>4, MovesKeepPlaces
<1>6. Op(p) \in Reads => a \in Returns /\ Proper(a)
  BY <1>0, <1>1, QueryIsProper
<1>7. /\ answers \in [DOMAIN process -> Seq(Returns)] /\ answers[p] \in Seq(Returns)
      /\ \A x \in DOMAIN process : x # p => answers'[x] = answers[x]
      /\ DOMAIN answers' = DOMAIN process
      /\ Op(p) \in Reads => answers'[p] = Append(answers[p], a)
      /\ Op(p) \notin Reads => answers'[p] = answers[p]
  <2> HIDE DEF a
  <2> QED BY <1>0, <1>1 DEF TenantTypes
<1>8. TenantTypes'
  <2>1. rowSecurity' \in BOOLEAN
    BY <1>0 DEF RunOp, TakesEffect, TenantTypes
  <2>2. tickets' \in [Tenants -> Nat \ {0}]
    BY <1>0 DEF RunOp, TakesEffect, TenantTypes, Tenants
  <2>3. answers'[p] \in Seq(Returns)
    <3> HIDE DEF a
    <3> QED BY <1>6, <1>7
  <2>4. answers' \in [DOMAIN process -> Seq(Returns)]
    <3>1. \A x \in DOMAIN process : answers'[x] \in Seq(Returns)
      BY <1>7, <2>3
    <3>2. answers' = [x \in DOMAIN process |-> answers'[x]]
      BY <1>0, <1>1 DEF TenantTypes
    <3> QED BY <3>1, <3>2
  <2> QED BY <1>0, <1>1, <1>5, <2>1, <2>2, <2>4 DEF TenantTypes
<1>9. ConnectionsClean'
  <2>1. process[p].op > 0 /\ process[p].op <= Len(Ops(p))
    BY <1>1, <1>2 DEF StageFits, Ops
  <2>2. Stage(p).session \in BOOLEAN
    BY <1>2 DEF StageFits
  <2> QED BY <1>0, <1>1, <1>4, <2>1, <2>2, CleanWhenUnset
<1>10. WindowIsKnown' /\ (~Overlapped' => rowSecurity /\ ~Refuted(p))
  BY <1>0, WindowAfterRunOp
<1>11. AnswersProper'
  <2>1. ASSUME NEW x \in DOMAIN process, NEW i \in 1..Len(answers'[x]) PROVE Proper(answers'[x][i])
    <3>1. CASE x # p \/ Op(p) \notin Reads
      BY <1>0, <1>7, <2>1, <3>1 DEF AnswersProper
    <3>2. CASE x = p /\ Op(p) \in Reads
      <4> HIDE DEF a
      <4>1. answers'[x] = Append(answers[p], a) /\ Proper(a) /\ a \in Returns
        BY <1>6, <1>7, <3>2
      <4>2. CASE i = Len(answers[p]) + 1
        BY <1>7, <4>1, <4>2
      <4>3. CASE i # Len(answers[p]) + 1
        <5>1. i \in 1..Len(answers[p]) /\ answers'[x][i] = answers[p][i]
          BY <1>7, <2>1, <4>1, <4>3
        <5> QED BY <1>0, <5>1 DEF AnswersProper
      <4> QED BY <4>2, <4>3
    <3> QED BY <3>1, <3>2
  <2>2. \A x \in DOMAIN process' : \A i \in 1..Len(answers'[x]) : Proper(answers'[x][i])
    BY <1>5, <2>1
  <2> QED BY <2>2 DEF AnswersProper, Proper
<1>12. OwnerReads'
  <2>1. CASE p # "owner_bypass"
    BY <1>0, <1>5, <1>7, <2>1 DEF OwnerReads, ReadSoFar
  <2>2. CASE p = "owner_bypass"
    <3> SUFFICES ASSUME q.error = "none", ~Overlapped' PROVE ReadSoFar'
      BY <1>5, <2>2 DEF OwnerReads
    <3>1. rowSecurity /\ ~Refuted(p) /\ ~Overlapped /\ process[p].error = "none"
      BY <1>4, <1>5, <1>10
    <3>2. /\ Stage(p).session /\ Stage(p).tenant = NoTenant /\ (Bypasses(Stage(p).role) <=> process[p].stage < 3)
          /\ Len(Ops(p)) = 1 /\ Ops(p)[1] = "forgottenWhereClause"
      BY <1>2, <2>2 DEF StageFits, Ops
    <3>3. process[p].op = 1
      BY <1>1, <3>2
    <3>4. Op(p) = "forgottenWhereClause" /\ Op(p) \in Reads
      BY <3>2, <3>3 DEF Op, Reads
    <3>5. q.stage = process[p].stage /\ q.op = 2
      BY <1>4, <3>1, <3>2, <3>3
    <3>6. Rows(p) = IF process[p].stage < 3 THEN Tenants ELSE {}
      <4>1. Rows(p) = {t \in Tenants : tickets[t] > 0 /\ Isolated(Stage(p).role, NoTenant, t)}
        BY <1>0, <1>1, <3>1, <3>2, <3>4, PolicyGuards, QueriesAskForTenants
      <4>2. \A t \in Tenants : tickets[t] > 0
        BY <1>0 DEF TenantTypes
      <4>3. \A t \in Tenants : Isolated(Stage(p).role, NoTenant, t) <=> process[p].stage < 3
        BY <3>2, QueriesAskForTenants DEF Isolated
      <4> QED BY <4>1, <4>2, <4>3
    <3>7. ReadSoFar
      BY <1>0, <2>2, <3>1 DEF OwnerReads
    <3>8. /\ Len(answers[p]) = process[p].stage - 1
          /\ \A i \in 1..Len(answers[p]) : answers[p][i].rows = IF i < 3 THEN Tenants ELSE {}
      BY <2>2, <3>3, <3>7 DEF ReadSoFar
    <3>9. a.rows = IF process[p].stage < 3 THEN Tenants ELSE {}
      BY <3>6
    <3>10. answers'[p] = Append(answers[p], a) /\ a \in Returns
      BY <1>6, <1>7, <3>4
    <3> HIDE DEF a
    <3>11. Len(answers'[p]) = process[p].stage
      BY <1>2, <1>7, <3>8, <3>10
    <3>12. ASSUME NEW i \in 1..Len(answers'[p]) PROVE answers'[p][i].rows = IF i < 3 THEN Tenants ELSE {}
      <4>1. CASE i = process[p].stage
        <5>1. answers'[p][i] = a
          BY <1>2, <1>7, <3>8, <3>10, <4>1
        <5> QED BY <3>9, <4>1, <5>1
      <4>2. CASE i # process[p].stage
        <5>1. i \in 1..Len(answers[p]) /\ answers'[p][i] = answers[p][i]
          BY <1>2, <1>7, <3>8, <3>10, <3>11, <4>2
        <5> QED BY <3>8, <5>1
      <4> QED BY <4>1, <4>2
    <3> QED BY <1>5, <2>2, <3>5, <3>11, <3>12 DEF ReadSoFar
  <2> QED BY <2>1, <2>2
<1> QED
  BY <1>5, <1>8, <1>9, <1>10, <1>11, <1>12 DEF TenantInv

\* The policy and the window after an operation that throws but has taken effect.
LEMMA WindowAfterFailure ==
  ASSUME TenantTypes, Placed, ConnectionsClean, WindowIsKnown, NEW p \in DOMAIN process, AtOp(p), TakesEffect(p),
         NEW q, MovesTo(p, q), q.error \in {"unrestored", "failed"},
         Op(p) = "disable" => q.error = "unrestored" /\ q.stage > 4,
         Stage(p).session => q.stage = process[p].stage
  PROVE  WindowIsKnown'
<1>1. Running(p)
  BY DEF AtOp
<1>2. /\ StageFits(p, process[p].stage, Stage(p)) /\ OpFits(p, process[p].stage, Stage(p), Op(p))
      /\ process[p].stage \in 1..Len(TenantScripts[p])
      /\ p = "naive_leak" => Len(TenantScripts[p]) = 4
  BY <1>1, AtItsStage, ScriptsAreWritten
<1>3. /\ DOMAIN process' = DOMAIN process /\ (Overlapped => Overlapped')
      /\ process'[p] = q /\ \A x \in DOMAIN process : x # p => process'[x] = process[x]
  BY <1>1, MovesKeepPlaces
<1>4. ASSUME ~Overlapped'
      PROVE  tickets'["globex"] = 1 /\ \A x \in DOMAIN process' : process'[x].error # "refuted"
  <2>1. rowSecurity /\ ~Overlapped
    BY <1>3, <1>4 DEF WindowIsKnown
  <2>2. ~(Op(p) = "insertOther" /\ ~Denied(p))
    BY <2>1, PolicyGuards
  <2>3. tickets' = tickets
    BY <2>2 DEF TakesEffect
  <2> QED BY <1>3, <2>1, <2>3 DEF WindowIsKnown
<1>5. ASSUME ~rowSecurity'
      PROVE  Overlapped' /\ (Ended("naive_leak")' => process'["naive_leak"].error \in {"killed", "unrestored"})
  <2>1. Op(p) = "disable" \/ (~rowSecurity /\ Op(p) # "enable")
    BY <1>5 DEF TakesEffect
  <2>2. CASE Op(p) = "disable"
    <3>1. p = "naive_leak" /\ q.error = "unrestored" /\ q.stage > 4 /\ q.stage \in Nat
      BY <1>2, <2>2 DEF OpFits, MovesTo
    <3>2. Overlapped'
      BY <1>3, <3>1 DEF Overlapped
    <3> QED BY <1>3, <3>1, <3>2
  <2>3. CASE ~rowSecurity /\ Op(p) # "enable"
    <3>1. Overlapped /\ (Ended("naive_leak") => process["naive_leak"].error \in {"killed", "unrestored"})
      BY <2>3 DEF WindowIsKnown
    <3>2. CASE p # "naive_leak"
      BY <1>3, <3>1, <3>2 DEF Overlapped, Ended, Running
    <3>3. CASE p = "naive_leak"
      <4>1. process[p].stage \in {2, 3}
        <5>1. process[p].stage # 4
          BY <1>2, <2>3, <3>3 DEF OpFits
        <5>2. process[p].stage \in 1..4 /\ process[p].stage > 1
          BY <1>2, <3>1, <3>3 DEF Overlapped
        <5> QED BY <5>1, <5>2
      <4>2. q.stage = process[p].stage
        BY <1>2, <3>3, <4>1 DEF StageFits
      <4> QED BY <1>2, <1>3, <3>3, <4>1, <4>2 DEF Overlapped, Ended, Running
    <3> QED BY <3>2, <3>3
  <2> QED BY <2>1, <2>2, <2>3
<1> QED
  BY <1>4, <1>5 DEF WindowIsKnown

\* A query throws, with or without effect: whoever was in a session goes to its
\* reset, a call on a pool ends its stage.
LEMMA OpFailsKeeps ==
  ASSUME TenantInv, NEW p \in DOMAIN process, OpFails(p)
  PROVE  TenantInv'
<1>0. TenantTypes /\ Placed /\ ConnectionsClean /\ WindowIsKnown /\ AnswersProper /\ OwnerReads
  BY DEF TenantInv
<1> DEFINE error == IF Ops(p)[1] \in {"disable", "enable"} THEN "unrestored" ELSE "failed"
           NoEffect == UNCHANGED <<rowSecurity, tickets, setting>>
           Effect == AtOp(p) /\ TakesEffect(p) /\ UNCHANGED setting
           Tenant == process[p].op = 0 /\ TenantIsSet(p) /\ UNCHANGED <<rowSecurity, tickets>>
<1>1. /\ Running(p) /\ process[p].op <= Len(Ops(p)) /\ UNCHANGED answers
      /\ OpDone(p, error)
      /\ NoEffect \/ Effect \/ Tenant
  BY DEF OpFails
<1>2. /\ StageFits(p, process[p].stage, Stage(p)) /\ process[p].op \in Nat
      /\ p \in DOMAIN TenantScripts /\ process[p].stage \in 1..Len(TenantScripts[p])
      /\ Len(TenantScripts[p]) \in Nat
  BY <1>0, <1>1, AtItsStage
<1>3. error \in ScriptErrors /\ error \in {"unrestored", "failed"} /\ Len(Ops(p)) \in Nat
  BY <1>2 DEF ScriptErrors, StageFits, Ops
<1>4. PICK q : \/ ~Stage(p).session /\ LeavesTo(p, q, error)
               \/ Stage(p).session /\ GoesTo(p, q, Len(Ops(p)) + 1, error)
  <2>1. error # "none" /\ process[p].op \in 0..Len(Ops(p))
    BY <1>1, <1>2, <1>3
  <2> HIDE DEF error
  <2> QED BY <1>0, <1>1, <1>3, <2>1, OpDoneMoves
<1>5. /\ MovesTo(p, q) /\ q.error = error
      /\ Stage(p).session => q.stage = process[p].stage /\ q.op = Len(Ops(p)) + 1
      /\ ~Stage(p).session => q.stage = NextStage(p, error)
  BY <1>4 DEF LeavesTo, GoesTo
<1>6. /\ Stage(p).role \in Roles /\ Stage(p).tenant \in Tenants \cup {NoTenant}
      /\ setting \in [DOMAIN process -> [Roles -> Tenants \cup {NoTenant}]]
  BY <1>0, <1>2 DEF StageFits, TenantTypes
<1>7. TenantTypes'
  <2>1. rowSecurity' \in BOOLEAN /\ tickets' \in [Tenants -> Nat \ {0}]
    <3>1. rowSecurity \in BOOLEAN /\ tickets \in [Tenants -> Nat \ {0}]
      BY <1>0 DEF TenantTypes
    <3>2. CASE Effect
      <4>1. TakesEffect(p)
        BY <3>2
      <4> HIDE DEF error, NoEffect, Effect, Tenant
      <4>2. rowSecurity' \in BOOLEAN
        BY <3>1, <4>1 DEF TakesEffect
      <4>3. tickets' \in [Tenants -> Nat \ {0}]
        BY <3>1, <4>1 DEF TakesEffect, Tenants
      <4> QED BY <4>2, <4>3
    <3>3. CASE ~Effect
      BY <1>1, <3>1, <3>3
    <3> QED BY <3>2, <3>3
  <2>2. setting' \in [DOMAIN process -> [Roles -> Tenants \cup {NoTenant}]]
    BY <1>1, <1>6 DEF TenantIsSet
  <2> HIDE DEF error, NoEffect, Effect, Tenant
  <2> QED BY <1>0, <1>1, <1>5, <2>1, <2>2, MovesKeepPlaces DEF TenantTypes
<1>8. Placed'
  BY <1>0, <1>1, <1>5, MovesKeepPlaces
<1>9. ConnectionsClean'
  <2>1. CASE setting' = setting
    BY <1>0, <1>1, <1>3, <1>5, <2>1, CleanWhenUnset
  <2>2. CASE setting' # setting
    <3>1. /\ Stage(p).session /\ process[p].op = 0
          /\ setting' = [setting EXCEPT ![p][Stage(p).role] = Stage(p).tenant]
      BY <1>1, <2>2 DEF TenantIsSet
    <3>2. /\ \A x \in DOMAIN process : x # p => setting'[x] = setting[x]
          /\ setting'[p] = [setting[p] EXCEPT ![Stage(p).role] = Stage(p).tenant]
      BY <1>6, <3>1
    <3>3. \A r \in Roles : setting[p][r] = NoTenant
      BY <1>0, <1>1, <3>1 DEF ConnectionsClean, CleanAt
    <3>4. \A r \in Roles : setting'[p][r] # NoTenant => Stage(p).role = r
      BY <1>6, <3>2, <3>3
    <3>5. setting'[p][Stage(p).role] = Stage(p).tenant
      BY <1>6, <3>2
    <3> HIDE DEF error, NoEffect, Effect, Tenant
    <3> QED BY <1>0, <1>1, <1>5, <3>1, <3>2, <3>4, <3>5, CleanStays
  <2> QED BY <2>1, <2>2
<1>10. WindowIsKnown'
  <2> DEFINE late == process[p].stage = 1 \/ process[p].stage = 4
  <2>1. p = "naive_leak" /\ q.stage > 4 => late /\ error = "unrestored"
    <3> SUFFICES ASSUME p = "naive_leak", q.stage > 4 PROVE late /\ error = "unrestored"
      OBVIOUS
    <3>1. Len(TenantScripts[p]) = 4 /\ (Stage(p).session <=> process[p].stage \in {2, 3})
      BY <1>2, ScriptsAreWritten DEF StageFits
    <3>2. late /\ Len(Ops(p)) = 1
      BY <1>2, <1>5, <3>1 DEF StageFits, Ops
    <3>3. Ops(p)[1] \in {"disable", "enable"}
      BY <3>1, <3>2 DEF Ops, Stage, TenantScripts, NaiveLeak, PoolCall
    <3> QED BY <3>2, <3>3
  <2>2. CASE NoEffect \/ Tenant
    <3>1. UNCHANGED <<rowSecurity, tickets>> /\ q.error # "refuted"
      BY <1>3, <1>5, <2>2
    <3> HIDE DEF error, NoEffect, Effect, Tenant
    <3> QED BY <1>0, <1>1, <1>5, <2>1, <3>1, WindowStays
  <2>3. CASE Effect
    <3>1. Op(p) = "disable" => q.error = "unrestored" /\ q.stage > 4
      <4> SUFFICES ASSUME Op(p) = "disable" PROVE q.error = "unrestored" /\ q.stage > 4
        OBVIOUS
      <4>1. p = "naive_leak" /\ process[p].stage = 1 /\ Len(TenantScripts[p]) = 4
        BY <1>0, <1>1, AtItsStage, ScriptsAreWritten, <2>3 DEF OpFits
      <4>2. ~Stage(p).session /\ Ops(p)[1] = "disable"
        BY <4>1 DEF Ops, Stage, TenantScripts, NaiveLeak, PoolCall
      <4>3. error = "unrestored"
        BY <4>2
      <4> QED BY <1>5, <4>1, <4>2, <4>3 DEF NextStage
    <3>2. AtOp(p) /\ TakesEffect(p)
      BY <2>3
    <3>3. q.error \in {"unrestored", "failed"}
      BY <1>3, <1>5
    <3> HIDE DEF error, NoEffect, Effect, Tenant
    <3> QED BY <1>0, <1>5, <3>1, <3>2, <3>3, WindowAfterFailure
  <2> QED BY <1>1, <2>2, <2>3
<1>11. AnswersProper'
  BY <1>0, <1>1, <1>5, MovesKeepPlaces DEF AnswersProper, Proper
<1>12. OwnerReads'
  BY <1>0, <1>1, <1>3, <1>5, OwnerReadsStay
<1> QED
  BY <1>7, <1>8, <1>9, <1>10, <1>11, <1>12 DEF TenantInv

\* The scripts keep the invariant, whatever they run into.
LEMMA TenantInvHolds == TenantSpec => []TenantInv
<1>1. TenantInit => TenantInv
  <2> SUFFICES ASSUME TenantInit PROVE TenantInv
    OBVIOUS
  <2>1. PICK pair \in SUBSET DOMAIN TenantScripts :
            /\ process = [p \in pair |-> [stage |-> 1, op |-> 0, error |-> "none"]]
            /\ setting = [p \in pair |-> [r \in Roles |-> NoTenant]]
            /\ answers = [p \in pair |-> <<>>]
    BY DEF TenantInit
  <2>2. /\ DOMAIN process = pair /\ \A p \in pair : process[p] = [stage |-> 1, op |-> 0, error |-> "none"]
        /\ \A p \in pair : setting[p] = [r \in Roles |-> NoTenant] /\ answers[p] = <<>>
        /\ rowSecurity = TRUE /\ tickets = [t \in Tenants |-> 1]
    BY <2>1 DEF TenantInit
  <2>3. ~Overlapped
    BY <2>2 DEF Overlapped
  <2>4. TenantTypes
    BY <2>1, <2>2 DEF TenantTypes, ScriptErrors
  <2>5. ASSUME NEW p \in DOMAIN process PROVE PlacedAt(p) /\ CleanAt(p)
    <3>1. Running(p) /\ Len(TenantScripts[p]) \in Nat \ {0} /\ WrittenAt(p, 1, Stage(p))
      BY <2>1, <2>2, <2>5, ScriptsAreWritten DEF Running, ScriptWritten, Stage
    <3>2. LastOp(p) \in Nat
      BY <3>1 DEF WrittenAt, StageFits, LastOp, Ops
    <3>3. PlacedAt(p)
      BY <2>2, <2>5, <3>1, <3>2 DEF PlacedAt
    <3>4. CleanAt(p)
      BY <2>2, <2>5 DEF CleanAt, AtOp
    <3> QED BY <3>3, <3>4
  <2>6. WindowIsKnown
    BY <2>2, <2>3, QueriesAskForTenants DEF WindowIsKnown, Tenants
  <2>7. AnswersProper
    BY <2>2 DEF AnswersProper
  <2>8. OwnerReads
    BY <2>2 DEF OwnerReads, ReadSoFar
  <2> QED BY <2>4, <2>5, <2>6, <2>7, <2>8 DEF TenantInv, Placed, ConnectionsClean
<1>2. TenantInv /\ [TenantNext]_tenantVars => TenantInv'
  <2> SUFFICES ASSUME TenantInv, [TenantNext]_tenantVars PROVE TenantInv'
    OBVIOUS
  <2>1. CASE UNCHANGED tenantVars
    <3>1. UNCHANGED <<rowSecurity, tickets, process, setting, answers>>
      BY <2>1 DEF tenantVars
    <3>2. TenantTypes /\ AnswersProper => TenantTypes' /\ AnswersProper'
      BY <3>1 DEF TenantTypes, AnswersProper, Proper
    <3>3. Placed => Placed'
      BY <3>1 DEF Placed, PlacedAt, LastOp, Running, Ops, Stage
    <3>4. ConnectionsClean => ConnectionsClean'
      BY <3>1 DEF ConnectionsClean, CleanAt, Running, AtOp, Ops, Stage
    <3>5. WindowIsKnown /\ OwnerReads => WindowIsKnown' /\ OwnerReads'
      BY <3>1 DEF WindowIsKnown, OwnerReads, ReadSoFar, Overlapped, Ended, Running
    <3> QED BY <3>2, <3>3, <3>4, <3>5 DEF TenantInv
  <2>2. CASE TenantNext
    <3>1. PICK p \in DOMAIN process : ScriptSteps(p) \/ Killed(p)
      BY <2>2 DEF TenantNext
    <3>2. CASE SetTenant(p)
      BY <3>2, SetTenantKeeps
    <3>3. CASE RunOp(p)
      BY <3>3, RunOpKeeps
    <3>4. CASE OpFails(p)
      BY <3>4, OpFailsKeeps
    <3>5. CASE ResetTenant(p)
      BY <3>5, ResetTenantKeeps
    <3>6. CASE Killed(p)
      BY <3>6, KilledKeeps
    <3> QED BY <3>1, <3>2, <3>3, <3>4, <3>5, <3>6 DEF ScriptSteps
  <2> QED BY <2>1, <2>2
<1> QED
  BY <1>1, <1>2, PTL DEF TenantSpec

\* Behind the pool every session sees its own tenant: what a query of the app or
\* the readonly role returned under the policy is its tenant's, no idle connection
\* carries a tenant, naive-leak restores the policy whichever query of its try
\* block throws, with or without effect, unless it was killed or its DISABLE or
\* ENABLE threw, and no script complains outside that window.
THEOREM TenantsAreIsolated == TenantSpec => []TenantsIsolated
<1>1. TenantInv => TenantsIsolated
  <2> SUFFICES ASSUME TenantInv PROVE TenantsIsolated
    OBVIOUS
  <2>0. TenantTypes /\ Placed /\ ConnectionsClean /\ WindowIsKnown /\ AnswersProper /\ OwnerReads
    BY DEF TenantInv
  <2>1. \A p \in DOMAIN process : \A i \in 1..Len(answers[p]) : LET a == answers[p][i] IN
          a.enforced /\ ~Bypasses(a.role) => a.rows \subseteq {a.tenant}
    BY <2>0, Zenon DEF AnswersProper, Proper
  <2>2. \A p \in DOMAIN process : Running(p) => \A r \in Roles :
          setting[p][r] # NoTenant => Stage(p).session /\ Stage(p).role = r /\ process[p].op > 0
    BY <2>0 DEF ConnectionsClean, CleanAt
  <2>3. "naive_leak" \in DOMAIN process /\ Ended("naive_leak") /\ process["naive_leak"].error \notin {"killed", "unrestored"}
          => rowSecurity
    BY <2>0 DEF WindowIsKnown
  <2>4. \A p \in DOMAIN process : process[p].error = "refuted" => Overlapped
    BY <2>0 DEF WindowIsKnown
  <2>5. tickets["globex"] > 1 => Overlapped
    BY <2>0 DEF WindowIsKnown
  <2>6. BypassVerdict
    <3> DEFINE p == "owner_bypass"
    <3> SUFFICES ASSUME p \in DOMAIN process, Untouched(p), ~Overlapped
                 PROVE  Returned(p, 1) = Tenants /\ Returned(p, 2) = Tenants /\ Returned(p, 3) = {}
      BY DEF BypassVerdict
    <3>1. process[p].error = "none" /\ ~Running(p)
      BY DEF Untouched, Ended
    <3>2. PlacedAt(p) /\ Len(TenantScripts[p]) = 3
      BY <2>0, ScriptsAreWritten DEF Placed
    <3>3. process[p].stage = 4 /\ process[p].op = 0
      BY <3>1, <3>2 DEF PlacedAt, Running
    <3>4. ReadSoFar
      BY <2>0, <3>1 DEF OwnerReads
    <3> QED BY <3>3, <3>4 DEF ReadSoFar, Returned
  <2> QED BY <2>1, <2>2, <2>3, <2>4, <2>5, <2>6 DEF TenantsIsolated
<1> QED
  BY <1>1, TenantInvHolds, PTL

-----------------------------------------------------------------------------
(* Partitions. *)

Verbs == {"reconcile", "resetList", "truncateFlat", "truncateRange", "truncateList", "batch", "count", "detach", "drop",
          "deleteFlat", "probe", "create", "insert", "insertRegions", "tolerate", "ensure"}
Names == Tables \cup {"latam"}
Stmts == [verb : Verbs, table : Names]

\* The order in which a script comes to its statements, what it plans included.
StatementRank(vb, n) ==
    IF vb \in {"reconcile", "count", "probe"} THEN 0
    ELSE IF vb = "ensure" \/ (vb \in {"detach", "drop"} /\ n # Default) THEN 1
    ELSE IF vb = "resetList" THEN 2
    ELSE IF vb \in {"detach", "drop"} THEN 3
    ELSE IF vb = "truncateList" THEN 4
    ELSE IF vb = "insertRegions" THEN 5
    ELSE IF vb = "tolerate" THEN 6
    ELSE IF vb = "create" /\ n # "y2026m02" THEN 7
    ELSE IF vb = "insert" THEN 8
    ELSE IF vb \in {"create", "deleteFlat", "truncateFlat"} THEN 9
    ELSE IF vb = "truncateRange" THEN 10
    ELSE 11
Precedes(vb, n, w, k) ==
    /\ ~(vb = w /\ n = k) /\ StatementRank(vb, n) <= StatementRank(w, k)
    /\ ~(vb = "drop" /\ w = "detach" /\ n = k)
Prior(a, b) == Precedes(a.verb, a.table, b.verb, b.table)
Ordered(q) == \A i, j \in 1..Len(q) : i < j => Prior(q[i], q[j])
\* A list of statements in order, of which nothing but the set matters.
Lists(q, S) == q \in Seq(Stmts) /\ Ordered(q) /\ ToSet(q) = S

\* A statement is its verb and its table.
LEMMA StatementsDiffer ==
  /\ \A vb, n : Statement(vb, n).verb = vb /\ Statement(vb, n).table = n
  /\ \A vb, n, w, k : Statement(vb, n) = Statement(w, k) <=> vb = w /\ n = k
  /\ \A st \in Stmts : st.verb \in Verbs /\ st.table \in Names /\ st = Statement(st.verb, st.table)
  /\ \A vb \in Verbs, n \in Names : Statement(vb, n) \in Stmts
<1>1. \A vb, n : Statement(vb, n).verb = vb /\ Statement(vb, n).table = n
  BY DEF Statement
<1>2. \A vb, n, w, k : Statement(vb, n) = Statement(w, k) <=> vb = w /\ n = k
  BY <1>1
<1>3. \A st \in Stmts : st.verb \in Verbs /\ st.table \in Names /\ st = Statement(st.verb, st.table)
  BY DEF Statement, Stmts
<1>4. \A vb \in Verbs, n \in Names : Statement(vb, n) \in Stmts
  BY DEF Statement, Stmts
<1> QED
  BY <1>1, <1>2, <1>3, <1>4

\* What is in a sequence has a place in it.
LEMMA InList == \A q \in Seq(Stmts) : \A x : x \in ToSet(q) <=> \E i \in 1..Len(q) : q[i] = x
<1> SUFFICES ASSUME NEW q \in Seq(Stmts), NEW x PROVE x \in ToSet(q) <=> \E i \in 1..Len(q) : q[i] = x
  OBVIOUS
<1>1. DOMAIN q = 1..Len(q)
  OBVIOUS
<1> QED
  BY <1>1 DEF ToSet

\* One list after another.
LEMMA ListsJoin ==
  ASSUME NEW q, NEW S, Lists(q, S), NEW r, NEW T, Lists(r, T), \A a \in S, b \in T : Prior(a, b)
  PROVE  Lists(q \o r, S \cup T)
<1>1. q \in Seq(Stmts) /\ r \in Seq(Stmts) /\ Ordered(q) /\ Ordered(r) /\ ToSet(q) = S /\ ToSet(r) = T
  BY DEF Lists
<1>2. /\ q \o r \in Seq(Stmts) /\ Len(q \o r) = Len(q) + Len(r) /\ Len(q) \in Nat /\ Len(r) \in Nat
      /\ \A i \in 1..Len(q) : (q \o r)[i] = q[i] /\ q[i] \in S
      /\ \A i \in 1..(Len(q) + Len(r)) : i > Len(q) => (q \o r)[i] = r[i - Len(q)] /\ i - Len(q) \in 1..Len(r)
      /\ \A i \in 1..Len(r) : r[i] \in T
  BY <1>1 DEF ToSet
<1>3. Ordered(q \o r)
  <2> SUFFICES ASSUME NEW i \in 1..Len(q \o r), NEW j \in 1..Len(q \o r), i < j
               PROVE  Prior((q \o r)[i], (q \o r)[j])
    BY DEF Ordered
  <2>1. CASE j <= Len(q)
    <3>1. i \in 1..Len(q) /\ j \in 1..Len(q)
      BY <1>2, <2>1
    <3> QED BY <1>1, <1>2, <3>1 DEF Ordered
  <2>2. CASE i > Len(q)
    <3>1. i - Len(q) \in 1..Len(r) /\ j - Len(q) \in 1..Len(r) /\ i - Len(q) < j - Len(q)
      BY <1>2, <2>2
    <3>2. (q \o r)[i] = r[i - Len(q)] /\ (q \o r)[j] = r[j - Len(q)]
      BY <1>2, <2>2
    <3> QED BY <1>1, <3>1, <3>2 DEF Ordered
  <2>3. CASE i <= Len(q) /\ j > Len(q)
    <3>1. (q \o r)[i] \in S /\ (q \o r)[j] \in T
      BY <1>2, <2>3
    <3> QED BY <3>1
  <2> QED BY <1>2, <2>1, <2>2, <2>3
<1>4. ToSet(q \o r) = S \cup T
  <2>1. \A x \in ToSet(q \o r) : x \in S \cup T
    <3> SUFFICES ASSUME NEW i \in 1..Len(q \o r) PROVE (q \o r)[i] \in S \cup T
      BY <1>2 DEF ToSet
    <3> QED BY <1>2
  <2>2. \A x \in S : x \in ToSet(q \o r)
    <3> SUFFICES ASSUME NEW i \in 1..Len(q) PROVE q[i] \in ToSet(q \o r)
      BY <1>1, InList
    <3>1. i \in 1..Len(q \o r) /\ (q \o r)[i] = q[i]
      BY <1>2
    <3> QED BY <1>2, <3>1, InList
  <2>3. \A x \in T : x \in ToSet(q \o r)
    <3> SUFFICES ASSUME NEW i \in 1..Len(r) PROVE r[i] \in ToSet(q \o r)
      BY <1>1, InList
    <3>1. Len(q) + i \in 1..Len(q \o r) /\ (q \o r)[Len(q) + i] = r[i]
      BY <1>2
    <3> QED BY <1>2, <3>1, InList
  <2> QED BY <2>1, <2>2, <2>3
<1> QED
  BY <1>2, <1>3, <1>4 DEF Lists

\* The rest of a list has lost its head, which was before all of it.
LEMMA ListsTail ==
  ASSUME NEW q, NEW S, Lists(q, S), q # <<>>
  PROVE  /\ Head(q) \in S /\ Lists(Tail(q), S \ {Head(q)})
         /\ \A b \in S : b # Head(q) => Prior(Head(q), b)
<1>1. q \in Seq(Stmts) /\ Ordered(q) /\ ToSet(q) = S /\ Len(q) \in Nat \ {0}
  BY DEF Lists
<1>2. /\ Tail(q) \in Seq(Stmts) /\ Len(Tail(q)) = Len(q) - 1 /\ Head(q) = q[1]
      /\ \A i \in 1..(Len(q) - 1) : Tail(q)[i] = q[i + 1]
  BY <1>1
<1>3. \A i \in 1..Len(q) : q[i] \in S /\ q[i] \in Stmts
  BY <1>1 DEF ToSet
<1>4. \A i \in 1..Len(q) : i > 1 => Prior(q[1], q[i]) /\ q[i] # q[1]
  <2> SUFFICES ASSUME NEW i \in 1..Len(q), i > 1 PROVE Prior(q[1], q[i]) /\ q[i] # q[1]
    OBVIOUS
  <2>1. Prior(q[1], q[i])
    BY <1>1 DEF Ordered
  <2> QED BY <2>1 DEF Prior, Precedes
<1>5. Ordered(Tail(q))
  <2> SUFFICES ASSUME NEW i \in 1..Len(Tail(q)), NEW j \in 1..Len(Tail(q)), i < j PROVE Prior(Tail(q)[i], Tail(q)[j])
    BY DEF Ordered
  <2>1. i + 1 \in 1..Len(q) /\ j + 1 \in 1..Len(q) /\ i + 1 < j + 1 /\ Tail(q)[i] = q[i + 1] /\ Tail(q)[j] = q[j + 1]
    BY <1>1, <1>2
  <2> QED BY <1>1, <2>1 DEF Ordered
<1>6. ToSet(Tail(q)) = S \ {Head(q)}
  <2>1. \A x \in ToSet(Tail(q)) : x \in S \ {Head(q)}
    <3> SUFFICES ASSUME NEW i \in 1..Len(Tail(q)) PROVE Tail(q)[i] \in S \ {Head(q)}
      BY <1>2 DEF ToSet
    <3>1. i + 1 \in 1..Len(q) /\ i + 1 > 1 /\ Tail(q)[i] = q[i + 1]
      BY <1>1, <1>2
    <3> QED BY <1>2, <1>3, <1>4, <3>1
  <2>2. ASSUME NEW x \in S, x # Head(q) PROVE x \in ToSet(Tail(q))
    <3>1. PICK i \in 1..Len(q) : q[i] = x
      BY <1>1 DEF ToSet
    <3>2. i - 1 \in 1..Len(Tail(q)) /\ Tail(q)[i - 1] = x
      BY <1>1, <1>2, <2>2, <3>1
    <3> QED BY <1>2, <3>2, InList
  <2> QED BY <2>1, <2>2
<1>7. ASSUME NEW b \in S, b # Head(q) PROVE Prior(Head(q), b)
  <2>1. PICK i \in 1..Len(q) : q[i] = b
    BY <1>1 DEF ToSet
  <2> QED BY <1>2, <1>4, <1>7, <2>1
<1> QED
  BY <1>1, <1>2, <1>3, <1>5, <1>6, <1>7 DEF Lists

\* A list of one statement, and the empty one.
LEMMA ListsOne ==
  /\ Lists(<<>>, {})
  /\ \A vb \in Verbs, n \in Names : Lists(<<Statement(vb, n)>>, {Statement(vb, n)})
<1>1. Lists(<<>>, {})
  <2>1. <<>> \in Seq(Stmts) /\ Len(<<>>) = 0 /\ DOMAIN <<>> = {}
    OBVIOUS
  <2> QED BY <2>1 DEF Lists, Ordered, ToSet
<1>2. ASSUME NEW vb \in Verbs, NEW n \in Names PROVE Lists(<<Statement(vb, n)>>, {Statement(vb, n)})
  <2> DEFINE st == Statement(vb, n)
  <2>1. st \in Stmts
    BY StatementsDiffer
  <2> HIDE DEF st
  <2>2. <<st>> \in Seq(Stmts) /\ Len(<<st>>) = 1 /\ <<st>>[1] = st /\ DOMAIN <<st>> = 1..1
    BY <2>1
  <2>3. ToSet(<<st>>) = {st}
    BY <2>2 DEF ToSet
  <2>4. Lists(<<st>>, {st})
    BY <2>2, <2>3 DEF Lists, Ordered
  <2> QED BY <2>4 DEF st
<1> QED
  BY <1>1, <1>2

\* The names of a set in some order: each of them once.
LEMMA NamesInOrder ==
  ASSUME NEW S, IsFiniteSet(S)
  PROVE  LET q == SetToSeq(S) IN
         /\ q \in Seq(S) /\ \A n \in S : \E i \in 1..Len(q) : q[i] = n
         /\ \A i, j \in 1..Len(q) : q[i] = q[j] => i = j
<1> DEFINE c == Cardinality(S)
           q == SetToSeq(S)
<1>1. c \in Nat
  BY FS_CardinalityType
<1>2. \E f \in [1..c -> S] : IsInjective(f)
  <2>1. ExistsBijection(1..c, S)
    BY FS_CardinalityType
  <2>2. PICK f : f \in Bijection(1..c, S)
    BY <2>1 DEF ExistsBijection
  <2>3. f \in [1..c -> S] /\ \A a, b \in 1..c : f[a] = f[b] => a = b
    BY <2>2 DEF Bijection, Injection, IsInjective
  <2> QED BY <2>3 DEF IsInjective
<1>3. q \in [1..c -> S] /\ IsInjective(q)
  BY <1>2 DEF SetToSeq
<1> HIDE DEF q
<1>4. q \in Seq(S) /\ Len(q) = c
  BY <1>1, <1>3
<1>5. \A i, j \in 1..Len(q) : q[i] = q[j] => i = j
  BY <1>3, <1>4 DEF IsInjective
<1>6. \A n \in S : \E i \in 1..Len(q) : q[i] = n
  <2>1. q \in Injection(1..c, S)
    BY <1>3 DEF Injection
  <2>2. Cardinality(1..c) = Cardinality(S)
    BY <1>1, FS_Interval
  <2>3. q \in Surjection(1..c, S)
    BY <2>1, <2>2, FS_Injection
  <2> QED BY <1>4, <2>3 DEF Surjection
<1> QED
  BY <1>4, <1>5, <1>6 DEF q

\* The names of months, of the scenarios' partitions and of the regions differ.
LEMMA NamesDiffer ==
  /\ Months \in Seq(canonicalPartitions) /\ Len(Months) > 0 /\ January \in canonicalPartitions
  /\ \A i, j \in 1..Len(Months) : Months[i] = Months[j] => i = j
  /\ \A m \in canonicalPartitions : \E i \in 1..Len(Months) : Months[i] = m
  /\ canonicalPartitions \cap Extra = {} /\ canonicalPartitions \cap Regions = {}
  /\ Default \notin canonicalPartitions /\ Default \notin Extra /\ Default \notin Regions
  /\ Extra \cap Regions = {} /\ "latam" \notin Tables
  /\ IsFiniteSet(canonicalPartitions) /\ IsFiniteSet(Extra)
<1>1. /\ Months \in Seq(canonicalPartitions)
      /\ canonicalPartitions \cap (Extra \cup Regions \cup {Default, "latam"}) = {}
  BY MonthNames DEF ListTables
<1>2. Len(Months) > 0 /\ \A i, j \in 1..Len(Months) : Months[i] = Months[j] => i = j
  BY <1>1, PartitionBounds DEF IsInjective
<1>3. /\ \A m \in canonicalPartitions : \E i \in 1..Len(Months) : Months[i] = m
  <2>1. DOMAIN Months = 1..Len(Months)
    BY <1>1
  <2> QED BY <2>1 DEF canonicalPartitions, ToSet
<1>4. January \in canonicalPartitions
  BY <1>1, <1>2 DEF January
<1>5. /\ Default \notin Extra /\ Default \notin Regions /\ Extra \cap Regions = {}
      /\ "latam" \notin Extra /\ "latam" \notin Regions /\ "latam" # Default
  BY DEF Default, Extra, Regions
<1>6. "latam" \notin Tables
  BY <1>1, <1>5 DEF Tables, RangeTables, ListTables
<1>7. IsFiniteSet(canonicalPartitions)
  <2>1. IsFiniteSet(1..Len(Months))
    BY <1>1, FS_Interval
  <2>2. Months \in Surjection(1..Len(Months), canonicalPartitions)
    BY <1>1, <1>3 DEF Surjection
  <2> QED BY <2>1, <2>2, FS_Surjection
<1>8. IsFiniteSet(Extra)
  <2>1. IsFiniteSet({"y2026m01"})
    BY FS_Singleton
  <2>2. Extra = {"y2026m01"} \cup {"y2026m02"}
    BY DEF Extra
  <2> QED BY <2>1, <2>2, FS_AddElement
<1> QED
  BY <1>1, <1>2, <1>3, <1>4, <1>5, <1>6, <1>7, <1>8

\* DETACH and DROP of each of some tables that are ranked alike.
LEMMA DetachAndDropIs ==
  ASSUME NEW S, S \subseteq Tables, IsFiniteSet(S), Default \in S => S = {Default}
  PROVE  Lists(detachAndDrop(S), {Statement(vb, n) : vb \in {"detach", "drop"}, n \in S})
<1> DEFINE q == SetToSeq(S)
           V(k) == IF k % 2 = 1 THEN "detach" ELSE "drop"
           p == [k \in 1..(2 * Len(q)) |-> Statement(V(k), q[(k + 1) \div 2])]
           T == {Statement(vb, n) : vb \in {"detach", "drop"}, n \in S}
<1>1. /\ q \in Seq(S) /\ \A n \in S : \E i \in 1..Len(q) : q[i] = n
      /\ \A i, j \in 1..Len(q) : q[i] = q[j] => i = j
  BY NamesInOrder
<1>2. detachAndDrop(S) = p
  BY Zenon DEF detachAndDrop
<1> HIDE DEF q
<1>3. Len(q) \in Nat /\ \A i \in 1..Len(q) : q[i] \in S
  BY <1>1
<1>4. \A k \in 1..(2 * Len(q)) :
         /\ (k + 1) \div 2 \in 1..Len(q)
         /\ \/ k % 2 = 0 /\ k = 2 * ((k + 1) \div 2)
            \/ k % 2 = 1 /\ k = 2 * ((k + 1) \div 2) - 1
  <2> SUFFICES ASSUME NEW k \in 1..(2 * Len(q))
               PROVE  /\ (k + 1) \div 2 \in 1..Len(q)
                      /\ \/ k % 2 = 0 /\ k = 2 * ((k + 1) \div 2)
                         \/ k % 2 = 1 /\ k = 2 * ((k + 1) \div 2) - 1
    OBVIOUS
  <2>1. k \in Nat /\ k >= 1 /\ k <= 2 * Len(q)
    BY <1>3
  <2>2. k % 2 \in {0, 1} /\ (k + 1) \div 2 \in Nat
    BY <2>1
  <2>3. k % 2 = 0 => k = 2 * ((k + 1) \div 2)
    BY <2>1
  <2>4. k % 2 = 1 => k = 2 * ((k + 1) \div 2) - 1
    BY <2>1
  <2> QED BY <1>3, <2>1, <2>2, <2>3, <2>4
<1>5. \A k \in 1..(2 * Len(q)) : V(k) \in {"detach", "drop"} /\ q[(k + 1) \div 2] \in S
  BY <1>3, <1>4
<1>6. p \in Seq(Stmts) /\ Len(p) = 2 * Len(q)
  <2>1. \A k \in 1..(2 * Len(q)) : Statement(V(k), q[(k + 1) \div 2]) \in Stmts
    <3> SUFFICES ASSUME NEW k \in 1..(2 * Len(q)) PROVE Statement(V(k), q[(k + 1) \div 2]) \in Stmts
      OBVIOUS
    <3>1. V(k) \in Verbs /\ q[(k + 1) \div 2] \in Names
      BY <1>5 DEF Verbs, Names
    <3> HIDE DEF V
    <3> QED BY <3>1, StatementsDiffer
  <2> HIDE DEF V
  <2>2. p \in [1..(2 * Len(q)) -> Stmts]
    BY <2>1
  <2>3. 2 * Len(q) \in Nat
    BY <1>3
  <2> HIDE DEF p
  <2>4. p \in Seq(Stmts)
    BY <2>2, <2>3
  <2>5. DOMAIN p = 1..(2 * Len(q))
    BY <2>2
  <2> QED BY <2>3, <2>4, <2>5
<1>7. Ordered(p)
  <2> SUFFICES ASSUME NEW i \in 1..Len(p), NEW j \in 1..Len(p), i < j PROVE Prior(p[i], p[j])
    BY DEF Ordered
  <2>1. /\ p[i].verb = V(i) /\ p[i].table = q[(i + 1) \div 2]
        /\ p[j].verb = V(j) /\ p[j].table = q[(j + 1) \div 2]
    <3>1. p[i] = Statement(V(i), q[(i + 1) \div 2]) /\ p[j] = Statement(V(j), q[(j + 1) \div 2])
      BY <1>6
    <3> HIDE DEF p, V
    <3> QED BY <3>1, StatementsDiffer
  <2> DEFINE a == (i + 1) \div 2
             b == (j + 1) \div 2
             x == i % 2
             y == j % 2
  <2>2. /\ a \in 1..Len(q) /\ b \in 1..Len(q)
        /\ (x = 0 /\ i = 2 * a) \/ (x = 1 /\ i = 2 * a - 1)
        /\ (y = 0 /\ j = 2 * b) \/ (y = 1 /\ j = 2 * b - 1)
    BY <1>4, <1>6
  <2>3. q[a] \in S /\ q[b] \in S /\ (q[a] = q[b] => a = b)
    BY <1>1, <1>3, <2>2
  <2> HIDE DEF a, b, x, y
  <2>4. a = b => x = 1 /\ y = 0
    BY <2>2
  <2>5. q[a] = q[b] => V(i) = "detach" /\ V(j) = "drop"
    BY <2>3, <2>4 DEF x, y
  <2>6. V(i) \in {"detach", "drop"} /\ V(j) \in {"detach", "drop"} /\ (q[a] = Default <=> q[b] = Default)
    BY <1>1, <2>3
  <2> HIDE DEF V
  <2>7. StatementRank(V(i), q[a]) <= StatementRank(V(j), q[b])
    BY <2>6 DEF StatementRank
  <2>8. Precedes(V(i), q[a], V(j), q[b])
    BY <2>5, <2>6, <2>7 DEF Precedes
  <2> QED BY <2>1, <2>8 DEF Prior, a, b
<1>8. ToSet(p) = T
  <2>1. ASSUME NEW k \in 1..Len(p) PROVE p[k] \in T
    BY <1>5, <1>6
  <2>2. ASSUME NEW vb \in {"detach", "drop"}, NEW n \in S PROVE \E k \in 1..Len(p) : p[k] = Statement(vb, n)
    <3>1. PICK i \in 1..Len(q) : q[i] = n
      BY <1>1
    <3>2. CASE vb = "detach"
      <4>1. 2 * i - 1 \in 1..Len(p) /\ (2 * i - 1) % 2 = 1 /\ ((2 * i - 1) + 1) \div 2 = i
        BY <1>3, <1>6
      <4>2. p[2 * i - 1] = Statement(vb, n)
        BY <1>6, <3>1, <3>2, <4>1
      <4> QED BY <4>1, <4>2
    <3>3. CASE vb = "drop"
      <4>1. 2 * i \in 1..Len(p) /\ (2 * i) % 2 = 0 /\ (2 * i + 1) \div 2 = i
        BY <1>3, <1>6
      <4>2. p[2 * i] = Statement(vb, n)
        BY <1>6, <3>1, <3>3, <4>1
      <4> QED BY <4>1, <4>2
    <3> QED BY <3>2, <3>3
  <2> HIDE DEF p
  <2>3. \A x \in T : \E k \in 1..Len(p) : p[k] = x
    BY <2>2
  <2> HIDE DEF T
  <2> QED BY <1>6, <2>1, <2>3, InList
<1> HIDE DEF p, T
<1>9. Lists(p, T)
  BY <1>6, <1>7, <1>8 DEF Lists
<1> QED
  BY <1>2, <1>9 DEF T

\* One statement for each of some names, in some order.
LEMMA OneForEach ==
  ASSUME NEW vb \in Verbs, NEW S, S \subseteq Names, NEW q \in Seq(S),
         \A n \in S : \E i \in 1..Len(q) : q[i] = n,
         \A i, j \in 1..Len(q) : q[i] = q[j] => i = j,
         \A n, m \in S : StatementRank(vb, n) <= StatementRank(vb, m)
  PROVE  Lists([i \in 1..Len(q) |-> Statement(vb, q[i])], {Statement(vb, n) : n \in S})
<1> DEFINE p == [i \in 1..Len(q) |-> Statement(vb, q[i])]
           T == {Statement(vb, n) : n \in S}
<1>1. Len(q) \in Nat /\ \A i \in 1..Len(q) : q[i] \in S /\ Statement(vb, q[i]) \in Stmts
  BY StatementsDiffer
<1>2. p \in Seq(Stmts) /\ Len(p) = Len(q)
  <2>1. p \in [1..Len(q) -> Stmts]
    BY <1>1
  <2> QED BY <1>1, <2>1
<1>3. Ordered(p)
  <2> SUFFICES ASSUME NEW i \in 1..Len(p), NEW j \in 1..Len(p), i < j PROVE Prior(p[i], p[j])
    BY DEF Ordered
  <2>1. p[i] = Statement(vb, q[i]) /\ p[j] = Statement(vb, q[j]) /\ q[i] # q[j] /\ q[i] \in S /\ q[j] \in S
    BY <1>1, <1>2
  <2>2. p[i].verb = vb /\ p[i].table = q[i] /\ p[j].verb = vb /\ p[j].table = q[j]
    <3>1. \A n : Statement(vb, n).verb = vb /\ Statement(vb, n).table = n
      BY StatementsDiffer
    <3> HIDE DEF p, T
    <3> QED BY <2>1, <3>1
  <2>3. Precedes(vb, q[i], vb, q[j])
    BY <2>1 DEF Precedes
  <2> QED BY <2>2, <2>3 DEF Prior
<1>4. ToSet(p) = T
  <2>1. \A x : x \in ToSet(p) <=> \E i \in 1..Len(p) : p[i] = x
    BY <1>2, InList
  <2>2. \A i \in 1..Len(p) : p[i] \in T
    BY <1>1, <1>2
  <2>3. \A x \in T : \E i \in 1..Len(p) : p[i] = x
    BY <1>1, <1>2
  <2> HIDE DEF p, T
  <2>4. ToSet(p) \subseteq T /\ T \subseteq ToSet(p)
    BY <2>1, <2>2, <2>3
  <2> QED BY <2>4
<1> QED
  BY <1>2, <1>3, <1>4 DEF Lists

\* Four statements in order.
LEMMA ListsFour ==
  ASSUME NEW a \in Stmts, NEW b \in Stmts, NEW c \in Stmts, NEW d \in Stmts,
         Prior(a, b), Prior(a, c), Prior(a, d), Prior(b, c), Prior(b, d), Prior(c, d)
  PROVE  Lists(<<a, b, c, d>>, {a, b, c, d})
<1> DEFINE q == <<a, b, c, d>>
<1>1. q \in Seq(Stmts) /\ Len(q) = 4 /\ q[1] = a /\ q[2] = b /\ q[3] = c /\ q[4] = d
  OBVIOUS
<1> HIDE DEF q
<1>2. Ordered(q)
  <2> SUFFICES ASSUME NEW i \in 1..4, NEW j \in 1..4, i < j PROVE Prior(q[i], q[j])
    BY <1>1 DEF Ordered
  <2> QED BY <1>1
<1>3. ToSet(q) = {a, b, c, d}
  <2>1. \A x : x \in ToSet(q) <=> \E i \in 1..4 : q[i] = x
    BY <1>1, InList
  <2>2. \A x \in ToSet(q) : x \in {a, b, c, d}
    BY <1>1, <2>1
  <2>3. a \in ToSet(q) /\ b \in ToSet(q) /\ c \in ToSet(q) /\ d \in ToSet(q)
    BY <1>1, <2>1
  <2> QED BY <2>2, <2>3
<1>4. Lists(q, {a, b, c, d})
  BY <1>1, <1>2, <1>3 DEF Lists
<1> QED
  BY <1>4 DEF q

\* The same of five.
LEMMA ListsFive ==
  ASSUME NEW a \in Stmts, NEW b \in Stmts, NEW c \in Stmts, NEW d \in Stmts, NEW e \in Stmts,
         Prior(a, b), Prior(a, c), Prior(a, d), Prior(a, e), Prior(b, c), Prior(b, d), Prior(b, e),
         Prior(c, d), Prior(c, e), Prior(d, e)
  PROVE  Lists(<<a, b, c, d, e>>, {a, b, c, d, e})
<1> DEFINE q == <<a, b, c, d, e>>
<1>1. q \in Seq(Stmts) /\ Len(q) = 5 /\ q[1] = a /\ q[2] = b /\ q[3] = c /\ q[4] = d /\ q[5] = e
  OBVIOUS
<1> HIDE DEF q
<1>2. Ordered(q)
  <2> SUFFICES ASSUME NEW i \in 1..5, NEW j \in 1..5, i < j PROVE Prior(q[i], q[j])
    BY <1>1 DEF Ordered
  <2> QED BY <1>1
<1>3. ToSet(q) = {a, b, c, d, e}
  <2>1. \A x : x \in ToSet(q) <=> \E i \in 1..5 : q[i] = x
    BY <1>1, InList
  <2>2. \A x \in ToSet(q) : x \in {a, b, c, d, e}
    BY <1>1, <2>1
  <2>3. a \in ToSet(q) /\ b \in ToSet(q) /\ c \in ToSet(q) /\ d \in ToSet(q) /\ e \in ToSet(q)
    BY <1>1, <2>1
  <2> QED BY <2>2, <2>3
<1>4. Lists(q, {a, b, c, d, e})
  BY <1>1, <1>2, <1>3 DEF Lists
<1> QED
  BY <1>4 DEF q

\* What the four scripts list.
SeedStart ==
    {Statement("reconcile", Default), Statement("resetList", Default),
     Statement("truncateFlat", Default), Statement("truncateRange", Default)}
SeedWork == SeedStart \cup {Statement("batch", m) : m \in canonicalPartitions}
MaintenanceWork ==
    {Statement("count", January), Statement("detach", January), Statement("drop", January), Statement("deleteFlat", January)}
AttachWork ==
    {Statement("probe", "y2026m01"), Statement("create", "y2026m01"),
     Statement("insert", "y2026m01"), Statement("create", "y2026m02")}
ListWork ==
    {Statement("resetList", Default), Statement("insertRegions", Default), Statement("tolerate", "latam"),
     Statement("create", Default), Statement("insert", "latam")}

\* Statements come before each other as their verbs and tables do.
LEMMA PriorIs == \A vb, n, w, k : Precedes(vb, n, w, k) => Prior(Statement(vb, n), Statement(w, k))
BY StatementsDiffer DEF Prior

\* Each script is a list, in order, of what it is said to do.
LEMMA ScriptsAreLists ==
  /\ Lists(Seed, SeedWork)
  /\ Lists(PartitionMaintenance, MaintenanceWork)
  /\ Lists(AttachAndMissingPartition, AttachWork)
  /\ Lists(ListPartitioning, ListWork)
<1>0. /\ Default \in Names /\ January \in Names /\ "y2026m01" \in Names /\ "y2026m02" \in Names /\ "latam" \in Names
      /\ January # Default /\ "y2026m01" # Default /\ "latam" # Default /\ canonicalPartitions \subseteq Names
  BY NamesDiffer DEF Names, Tables, RangeTables, ListTables, Extra, Default
<1>1. Lists(Seed, SeedWork)
  <2> DEFINE start == <<Statement("reconcile", Default), Statement("resetList", Default),
                        Statement("truncateFlat", Default), Statement("truncateRange", Default)>>
             batches == {Statement("batch", m) : m \in canonicalPartitions}
  <2>1. Lists(start, SeedStart)
    <3>1. /\ Precedes("reconcile", Default, "resetList", Default) /\ Precedes("reconcile", Default, "truncateFlat", Default)
          /\ Precedes("reconcile", Default, "truncateRange", Default) /\ Precedes("resetList", Default, "truncateFlat", Default)
          /\ Precedes("resetList", Default, "truncateRange", Default)
          /\ Precedes("truncateFlat", Default, "truncateRange", Default)
      BY DEF Precedes, StatementRank
    <3>2. /\ Statement("reconcile", Default) \in Stmts /\ Statement("resetList", Default) \in Stmts
          /\ Statement("truncateFlat", Default) \in Stmts /\ Statement("truncateRange", Default) \in Stmts
      BY <1>0, StatementsDiffer DEF Verbs
    <3> QED BY <3>1, <3>2, PriorIs, ListsFour DEF SeedStart
  <2>2. Lists(generateMetricEventsBatched, batches)
    <3> DEFINE inBatches == "batch"
    <3>1. inBatches \in Verbs /\ \A n, m \in canonicalPartitions : StatementRank(inBatches, n) <= StatementRank(inBatches, m)
      BY DEF Verbs, StatementRank
    <3>2. /\ Months \in Seq(canonicalPartitions) /\ canonicalPartitions \subseteq Names
          /\ \A n \in canonicalPartitions : \E i \in 1..Len(Months) : Months[i] = n
          /\ \A i, j \in 1..Len(Months) : Months[i] = Months[j] => i = j
      BY <1>0, NamesDiffer
    <3> HIDE DEF inBatches
    <3>3. Lists([i \in 1..Len(Months) |-> Statement(inBatches, Months[i])], {Statement(inBatches, m) : m \in canonicalPartitions})
      BY <3>1, <3>2, OneForEach, ZenonT(60)
    <3> QED BY <3>3 DEF generateMetricEventsBatched, inBatches
  <2>3. \A a \in SeedStart, b \in batches : Prior(a, b)
    <3>1. \A m : \A vb \in {"reconcile", "resetList", "truncateFlat", "truncateRange"} : Precedes(vb, Default, "batch", m)
      BY DEF Precedes, StatementRank
    <3> QED BY <3>1, PriorIs DEF SeedStart
  <2> HIDE DEF start, batches
  <2>4. Lists(start \o generateMetricEventsBatched, SeedStart \cup batches)
    BY <2>1, <2>2, <2>3, ListsJoin
  <2> QED BY <2>4 DEF Seed, SeedWork, start, batches
<1>2. Lists(PartitionMaintenance, MaintenanceWork)
  <2>1. /\ Precedes("count", January, "detach", January) /\ Precedes("count", January, "drop", January)
        /\ Precedes("count", January, "deleteFlat", January) /\ Precedes("detach", January, "drop", January)
        /\ Precedes("detach", January, "deleteFlat", January) /\ Precedes("drop", January, "deleteFlat", January)
    BY <1>0 DEF Precedes, StatementRank
  <2>2. /\ Statement("count", January) \in Stmts /\ Statement("detach", January) \in Stmts
        /\ Statement("drop", January) \in Stmts /\ Statement("deleteFlat", January) \in Stmts
    BY <1>0, StatementsDiffer DEF Verbs
  <2> QED BY <2>1, <2>2, PriorIs, ListsFour DEF PartitionMaintenance, MaintenanceWork
<1>3. Lists(AttachAndMissingPartition, AttachWork)
  <2>1. /\ Precedes("probe", "y2026m01", "create", "y2026m01") /\ Precedes("probe", "y2026m01", "insert", "y2026m01")
        /\ Precedes("probe", "y2026m01", "create", "y2026m02") /\ Precedes("create", "y2026m01", "insert", "y2026m01")
        /\ Precedes("create", "y2026m01", "create", "y2026m02") /\ Precedes("insert", "y2026m01", "create", "y2026m02")
    BY DEF Precedes, StatementRank
  <2>2. /\ Statement("probe", "y2026m01") \in Stmts /\ Statement("create", "y2026m01") \in Stmts
        /\ Statement("insert", "y2026m01") \in Stmts /\ Statement("create", "y2026m02") \in Stmts
    BY <1>0, StatementsDiffer DEF Verbs
  <2> QED BY <2>1, <2>2, PriorIs, ListsFour DEF AttachAndMissingPartition, AttachWork
<1>4. Lists(ListPartitioning, ListWork)
  <2>1. /\ Precedes("resetList", Default, "insertRegions", Default) /\ Precedes("resetList", Default, "tolerate", "latam")
        /\ Precedes("resetList", Default, "create", Default) /\ Precedes("resetList", Default, "insert", "latam")
        /\ Precedes("insertRegions", Default, "tolerate", "latam") /\ Precedes("insertRegions", Default, "create", Default)
        /\ Precedes("insertRegions", Default, "insert", "latam") /\ Precedes("tolerate", "latam", "create", Default)
        /\ Precedes("tolerate", "latam", "insert", "latam") /\ Precedes("create", Default, "insert", "latam")
    BY DEF Precedes, StatementRank, Default
  <2>2. /\ Statement("resetList", Default) \in Stmts /\ Statement("insertRegions", Default) \in Stmts
        /\ Statement("tolerate", "latam") \in Stmts /\ Statement("create", Default) \in Stmts
        /\ Statement("insert", "latam") \in Stmts
    BY <1>0, StatementsDiffer DEF Verbs
  <2> QED BY <2>1, <2>2, PriorIs, ListsFive DEF ListPartitioning, ListWork
<1> QED
  BY <1>1, <1>2, <1>3, <1>4

\* What reconcileCanonicalPartitionLayout and resetListDemoTable plan.
Detached(S) == {Statement(vb, n) : vb \in {"detach", "drop"}, n \in S}
ReconcileWork ==
    Detached({n \in Extra : Attached(n)})
    \cup {Statement("ensure", m) : m \in {n \in canonicalPartitions : ~Attached(n)}}
ResetWork == Detached({n \in {Default} : Attached(n)}) \cup {Statement("truncateList", Default)}

\* So is each plan, over whatever layout it finds.
LEMMA PlansAreLists ==
  ASSUME \A r \in Regions : Attached(r)
  PROVE  Lists(reconcileCanonicalPartitionLayout, ReconcileWork) /\ Lists(resetListDemoTable, ResetWork)
<1>0. /\ Default \in Names /\ Extra \subseteq Tables /\ Default \in Tables /\ canonicalPartitions \subseteq Names
      /\ RangeTables = canonicalPartitions \cup Extra /\ ListTables = Regions \cup {Default}
  BY DEF Names, Tables, RangeTables, ListTables
<1>1. Lists(reconcileCanonicalPartitionLayout, ReconcileWork)
  <2> DEFINE extras == {n \in Extra : Attached(n)}
             missing == {n \in canonicalPartitions : ~Attached(n)}
             existing == listExistingPartitions(RangeTables)
             ensures == {Statement("ensure", m) : m \in missing}
  <2>1. existing \ canonicalPartitions = extras /\ canonicalPartitions \ existing = missing
    BY <1>0, NamesDiffer DEF listExistingPartitions
  <2>2. reconcileCanonicalPartitionLayout = detachAndDrop(extras) \o createMonthPartition(missing)
    BY <2>1 DEF reconcileCanonicalPartitionLayout
  <2>3. IsFiniteSet(extras) /\ IsFiniteSet(missing)
    BY NamesDiffer, FS_Subset
  <2>4. Lists(detachAndDrop(extras), Detached(extras))
    <3>1. extras \subseteq Tables /\ Default \notin extras
      BY <1>0, NamesDiffer
    <3> HIDE DEF extras
    <3> QED BY <2>3, <3>1, DetachAndDropIs DEF Detached
  <2>5. Lists(createMonthPartition(missing), ensures)
    <3> DEFINE q == SetToSeq(missing)
               ensure == "ensure"
    <3>1. /\ ensure \in Verbs /\ missing \subseteq Names
          /\ \A n, m \in missing : StatementRank(ensure, n) <= StatementRank(ensure, m)
      BY <1>0 DEF Verbs, StatementRank
    <3>2. createMonthPartition(missing) = [i \in 1..Len(q) |-> Statement(ensure, q[i])]
      BY Zenon DEF createMonthPartition, Each
    <3>3. /\ q \in Seq(missing) /\ \A n \in missing : \E i \in 1..Len(q) : q[i] = n
          /\ \A i, j \in 1..Len(q) : q[i] = q[j] => i = j
      BY <2>3, NamesInOrder
    <3> HIDE DEF q, missing, ensure
    <3>4. Lists([i \in 1..Len(q) |-> Statement(ensure, q[i])], {Statement(ensure, m) : m \in missing})
      BY <3>1, <3>3, OneForEach, ZenonT(60)
    <3> QED BY <3>2, <3>4 DEF ensure
  <2>6. \A a \in Detached(extras), b \in ensures : Prior(a, b)
    <3>1. \A m : \A vb \in {"detach", "drop"}, n \in extras : Precedes(vb, n, "ensure", m)
      BY NamesDiffer DEF Precedes, StatementRank
    <3> QED BY <3>1, PriorIs DEF Detached
  <2> HIDE DEF extras, missing, ensures, existing
  <2>7. Lists(detachAndDrop(extras) \o createMonthPartition(missing), Detached(extras) \cup ensures)
    BY <2>4, <2>5, <2>6, ListsJoin
  <2> QED BY <2>2, <2>7 DEF ReconcileWork, extras, missing, ensures
<1>2. Lists(resetListDemoTable, ResetWork)
  <2> DEFINE default == {n \in {Default} : Attached(n)}
  <2>1. listExistingPartitions(ListTables) \ Regions = default
    BY <1>0, NamesDiffer DEF listExistingPartitions
  <2>2. resetListDemoTable = detachAndDrop(default) \o <<Statement("truncateList", Default)>>
    BY <2>1 DEF resetListDemoTable
  <2>3. IsFiniteSet(default)
    BY FS_Singleton, FS_Subset
  <2>4. Lists(detachAndDrop(default), Detached(default))
    <3>1. default \subseteq Tables /\ (Default \in default => default = {Default})
      BY <1>0
    <3> HIDE DEF default
    <3> QED BY <2>3, <3>1, DetachAndDropIs DEF Detached
  <2>5. Lists(<<Statement("truncateList", Default)>>, {Statement("truncateList", Default)})
    BY <1>0, ListsOne DEF Verbs
  <2>6. \A a \in Detached(default), b \in {Statement("truncateList", Default)} : Prior(a, b)
    <3>1. \A vb \in {"detach", "drop"} : Precedes(vb, Default, "truncateList", Default)
      BY DEF Precedes, StatementRank
    <3> QED BY <3>1, PriorIs DEF Detached
  <2> HIDE DEF default
  <2>7. Lists(detachAndDrop(default) \o <<Statement("truncateList", Default)>>,
              Detached(default) \cup {Statement("truncateList", Default)})
    BY <2>4, <2>5, <2>6, ListsJoin
  <2> QED BY <2>2, <2>7 DEF ResetWork, default
<1> QED
  BY <1>1, <1>2

\* A statement the script has yet to run.
Has(vb, n) == Statement(vb, n) \in ToSet(todo)

PartTypes ==
    /\ relation \in [Tables -> {"absent", "attached", "alone"}]
    /\ stored \in [Tables -> Nat] /\ flat \in [canonicalPartitions -> Nat]
    /\ script \in {"none", "seed", "maintenance", "attach", "list"}
    /\ result \in {"none", "running", "ok", "failed", "killed"}
    /\ clean \in BOOLEAN
    /\ (script = "none") <=> (result = "none")
    /\ (todo = <<>>) <=> (result # "running")
    /\ clean => result \in {"ok", "running"}

\* A region's partition is never taken off; an absent table has no rows.
Layout ==
    /\ \A r \in Regions : relation[r] = "attached"
    /\ \A n \in Tables : relation[n] = "absent" => stored[n] = 0

\* The statements of each script, those that it plans included.
PartOf(s, vb, n) ==
    \/ /\ s = "seed"
       /\ \/ vb \in {"reconcile", "resetList", "truncateFlat", "truncateRange", "truncateList"} /\ n = Default
          \/ vb \in {"detach", "drop"} /\ n \in Extra \cup {Default}
          \/ vb \in {"ensure", "batch"} /\ n \in canonicalPartitions
    \/ s = "maintenance" /\ vb \in {"count", "detach", "drop", "deleteFlat"} /\ n = January
    \/ /\ s = "attach"
       /\ \/ vb \in {"probe", "create", "insert"} /\ n = "y2026m01"
          \/ vb = "create" /\ n = "y2026m02"
    \/ /\ s = "list"
       /\ \/ vb \in {"resetList", "detach", "drop", "truncateList", "insertRegions", "create"} /\ n = Default
          \/ vb \in {"tolerate", "insert"} /\ n = "latam"
Plan ==
    /\ Lists(todo, ToSet(todo))
    /\ \A vb \in Verbs, n \in Names : Has(vb, n) => PartOf(script, vb, n)

Doing(s) == script = s /\ result \in {"running", "ok"}

\* What the seed still has to take off is there to be taken off, and whatever is
\* not canonical is still to be taken off.
SeedExtras ==
    /\ \A n \in Extra \cup {Default} :
          (Has("detach", n) => relation[n] = "attached") /\ (Has("drop", n) => relation[n] # "absent")
    /\ \A n \in Extra : relation[n] = "attached" => Has("detach", n) \/ Has("reconcile", Default)
    /\ relation[Default] = "attached" => Has("detach", Default) \/ Has("resetList", Default)
\* A plan is made once, and before its statements; the batches come last.
PlansOnce ==
    /\ Has("reconcile", Default) =>
          \A n \in Names : ~Has("detach", n) /\ ~Has("drop", n) /\ ~Has("ensure", n) /\ ~Has("truncateList", n)
    /\ Has("resetList", Default) => ~Has("detach", Default) /\ ~Has("drop", Default) /\ ~Has("truncateList", Default)
BatchesLast == \A vb \in Verbs, n \in Names : Has(vb, n) /\ vb # "batch" => Has("truncateRange", Default)
RegionsEmptied == \A r \in Regions : stored[r] = 0 \/ Has("truncateList", Default) \/ Has("resetList", Default)
\* A month is there or about to be; its rows are gone or about to go, then back.
MonthsSeeded ==
    \A m \in canonicalPartitions :
        /\ relation[m] # "absent" \/ Has("ensure", m) \/ Has("reconcile", Default)
        /\ Has("truncateFlat", Default) \/ Has("truncateRange", Default) => Has("batch", m)
        /\ ~Has("truncateFlat", Default) => (Has("batch", m) => flat[m] = 0) /\ (~Has("batch", m) => flat[m] = 1)
        /\ ~Has("truncateRange", Default) /\ Has("batch", m) /\ relation[m] = "attached" => stored[m] = 0
        /\ ~Has("truncateRange", Default) /\ ~Has("batch", m) => relation[m] = "attached" /\ stored[m] = 1
Seeding == Doing("seed") => SeedExtras /\ PlansOnce /\ BatchesLast /\ RegionsEmptied /\ MonthsSeeded
SeedStuck ==
    script = "seed" /\ result = "failed" => \E m \in canonicalPartitions : relation[m] = "alone"

Maintaining ==
    Doing("maintenance") =>
    /\ Has("detach", January) => Has("drop", January)
    /\ Has("drop", January) => Has("deleteFlat", January)
    /\ ~Has("drop", January) => relation[January] = "absent"
    /\ ~Has("deleteFlat", January) => flat[January] = 0
Attaching ==
    Doing("attach") =>
    /\ Has("probe", "y2026m01") => Has("create", "y2026m01")
    /\ Has("create", "y2026m01") => Has("insert", "y2026m01")
    /\ ~Has("create", "y2026m01") => relation["y2026m01"] = "attached"
    /\ ~Has("insert", "y2026m01") => stored["y2026m01"] > 0

RegionsFilled ==
    \A r \in Regions :
        /\ Has("insertRegions", Default) => stored[r] = 0 \/ Has("truncateList", Default) \/ Has("resetList", Default)
        /\ ~Has("insertRegions", Default) => stored[r] = 1
Listing ==
    Doing("list") =>
    /\ \A vb \in Verbs, n \in Names : Has(vb, n) /\ vb # "insert" => Has("create", Default)
    /\ \A vb \in {"resetList", "detach", "drop", "truncateList"} : Has(vb, Default) => Has("insertRegions", Default)
    /\ Has("create", Default) => Has("insert", "latam")
    /\ PlansOnce /\ RegionsFilled
    /\ ~Has("create", Default) => relation[Default] = "attached"
    /\ ~Has("create", Default) /\ Has("insert", "latam") => stored[Default] = 0
    /\ ~Has("create", Default) /\ ~Has("insert", "latam") => stored[Default] = 1
\* The twins hold the same rows, a purge between its two halves excepted.
Twins ==
    clean /\ ~(script = "seed" /\ result = "running") =>
    \A m \in canonicalPartitions :
        \/ flat[m] = stored[m]
        \/ script = "maintenance" /\ m = January /\ ~Has("drop", January) /\ Has("deleteFlat", January)
PartInv ==
    PartTypes /\ Layout /\ Plan /\ Seeding /\ SeedStuck /\ Maintaining /\ Attaching /\ Listing /\ Twins

\* What a list that has lost its head still has.
LEMMA HeadGone ==
  ASSUME NEW q, Lists(q, ToSet(q)), q # <<>>
  PROVE  LET vb == Head(q).verb
             n == Head(q).table
         IN  /\ vb \in Verbs /\ n \in Names /\ Statement(vb, n) \in ToSet(q)
             /\ Lists(Tail(q), ToSet(Tail(q)))
             /\ \A w, k : Statement(w, k) \in ToSet(Tail(q)) <=> Statement(w, k) \in ToSet(q) /\ ~(w = vb /\ k = n)
             /\ \A w, k : Statement(w, k) \in ToSet(Tail(q)) =>
                   StatementRank(vb, n) <= StatementRank(w, k) /\ ~(vb = "drop" /\ w = "detach" /\ k = n)
<1> DEFINE vb == Head(q).verb
           n == Head(q).table
<1>1. /\ Head(q) \in ToSet(q) /\ Lists(Tail(q), ToSet(q) \ {Head(q)})
      /\ \A b \in ToSet(q) : b # Head(q) => Prior(Head(q), b)
  BY ListsTail
<1>2. ToSet(Tail(q)) = ToSet(q) \ {Head(q)}
  BY <1>1 DEF Lists
<1>3. Head(q) \in Stmts
  <2>1. q \in Seq(Stmts)
    BY DEF Lists
  <2> QED BY <2>1
<1>4. vb \in Verbs /\ n \in Names /\ Head(q) = Statement(vb, n)
  BY <1>3, StatementsDiffer
<1> HIDE DEF vb, n
<1>5. \A w, k : Statement(w, k) \in ToSet(Tail(q)) <=> Statement(w, k) \in ToSet(q) /\ ~(w = vb /\ k = n)
  BY <1>2, <1>4, StatementsDiffer
<1>6. ASSUME NEW w, NEW k, Statement(w, k) \in ToSet(Tail(q))
      PROVE  StatementRank(vb, n) <= StatementRank(w, k) /\ ~(vb = "drop" /\ w = "detach" /\ k = n)
  <2>1. Prior(Statement(vb, n), Statement(w, k))
    BY <1>1, <1>2, <1>4, <1>6
  <2>2. Precedes(vb, n, w, k)
    BY <2>1, StatementsDiffer DEF Prior
  <2> QED BY <2>2 DEF Precedes
<1>7. Statement(vb, n) \in ToSet(q) /\ Lists(Tail(q), ToSet(Tail(q)))
  BY <1>1, <1>2, <1>4
<1> QED
  BY <1>4, <1>5, <1>6, <1>7 DEF vb, n

\* The ranks, verb by verb.
LEMMA StatementRanks ==
  /\ \A n : StatementRank("reconcile", n) = 0 /\ StatementRank("count", n) = 0 /\ StatementRank("probe", n) = 0 /\ StatementRank("ensure", n) = 1
  /\ \A n : n # Default => StatementRank("detach", n) = 1 /\ StatementRank("drop", n) = 1
  /\ StatementRank("detach", Default) = 3 /\ StatementRank("drop", Default) = 3
  /\ \A n : /\ StatementRank("resetList", n) = 2 /\ StatementRank("truncateList", n) = 4 /\ StatementRank("insertRegions", n) = 5
            /\ StatementRank("tolerate", n) = 6 /\ StatementRank("insert", n) = 8 /\ StatementRank("deleteFlat", n) = 9
            /\ StatementRank("truncateFlat", n) = 9 /\ StatementRank("truncateRange", n) = 10 /\ StatementRank("batch", n) = 11
  /\ \A n : n # "y2026m02" => StatementRank("create", n) = 7
  /\ StatementRank("create", "y2026m02") = 9
<1>1. \A n : /\ StatementRank("reconcile", n) = 0 /\ StatementRank("count", n) = 0 /\ StatementRank("probe", n) = 0 /\ StatementRank("ensure", n) = 1
             /\ (n # Default => StatementRank("detach", n) = 1 /\ StatementRank("drop", n) = 1)
  BY DEF StatementRank
<1>2. StatementRank("detach", Default) = 3 /\ StatementRank("drop", Default) = 3
  BY DEF StatementRank
<1>3. \A n : /\ StatementRank("resetList", n) = 2 /\ StatementRank("truncateList", n) = 4 /\ StatementRank("insertRegions", n) = 5
             /\ StatementRank("tolerate", n) = 6 /\ StatementRank("insert", n) = 8 /\ StatementRank("deleteFlat", n) = 9
             /\ StatementRank("truncateFlat", n) = 9 /\ StatementRank("truncateRange", n) = 10 /\ StatementRank("batch", n) = 11
  BY DEF StatementRank
<1>4. /\ \A n : n # "y2026m02" => StatementRank("create", n) = 7
      /\ StatementRank("create", "y2026m02") = 9
  BY DEF StatementRank
<1> QED
  BY <1>1, <1>2, <1>3, <1>4

\* A statement that is refused, verb by verb.
LEMMA RefusedIs ==
  /\ \A n : Refused("detach", n) <=> relation[n] # "attached"
  /\ \A n : Refused("drop", n) <=> relation[n] = "absent"
  /\ \A n : Refused("count", n) <=> relation[n] = "absent"
  /\ \A n : Refused("create", n) <=> relation[n] # "absent"
  /\ \A n : Refused("insert", n) <=> ~Routed(n)
  /\ \A n : Refused("batch", n) <=> ~Routed(n)
  /\ \A vb, n : vb \notin {"detach", "drop", "count", "create", "insert", "batch"} => ~Refused(vb, n)
<1>1. \A n : Refused("detach", n) <=> relation[n] # "attached"
  BY Zenon DEF Refused, Attached
<1>2. \A n : Refused("drop", n) <=> relation[n] = "absent"
  BY Zenon DEF Refused, Present
<1>3. \A n : Refused("count", n) <=> relation[n] = "absent"
  BY Zenon DEF Refused, Present
<1>4. \A n : Refused("create", n) <=> relation[n] # "absent"
  BY Zenon DEF Refused, Present
<1>5. \A n : Refused("insert", n) <=> ~Routed(n)
  BY Zenon DEF Refused
<1>6. \A n : Refused("batch", n) <=> ~Routed(n)
  BY Zenon DEF Refused
<1>7. \A vb, n : vb \notin {"detach", "drop", "count", "create", "insert", "batch"} => ~Refused(vb, n)
  <2> SUFFICES ASSUME NEW vb, NEW n, vb \notin {"detach", "drop", "count", "create", "insert", "batch"} PROVE ~Refused(vb, n)
    OBVIOUS
  <2>1. vb # "detach" /\ vb \notin {"drop", "count"} /\ vb # "create" /\ vb \notin {"insert", "batch"}
    OBVIOUS
  <2> QED BY <2>1, Zenon DEF Refused
<1> QED
  BY <1>1, <1>2, <1>3, <1>4, <1>5, <1>6, <1>7

\* An insert that is routed goes to an attached table: its own month's or
\* region's, or the one that takes what has none.
LEMMA RoutedIs ==
  ASSUME NEW tuple \in Names, Routed(tuple)
  PROVE  /\ Partition(tuple) \in Tables /\ relation[Partition(tuple)] = "attached"
         /\ tuple \in RangeTables => Partition(tuple) = tuple
         /\ tuple \notin Tables => Partition(tuple) = Default
<1>1. Default \in Tables /\ RangeTables \subseteq Tables
  BY DEF Tables, ListTables
<1> QED
  BY <1>1 DEF Routed, Partition, Attached

\* A statement that is done: gone from the list, and before what remains of it.
Moved(vb, n) ==
    /\ vb \in Verbs /\ n \in Names /\ Statement(vb, n) \in ToSet(todo) /\ PartOf(script, vb, n)
    /\ \A w, k : Statement(w, k) \in ToSet(todo') <=> Statement(w, k) \in ToSet(todo) /\ ~(w = vb /\ k = n)
    /\ \A w, k : Statement(w, k) \in ToSet(todo') =>
          StatementRank(vb, n) <= StatementRank(w, k) /\ ~(vb = "drop" /\ w = "detach" /\ k = n)
\* The script goes on, or it ends well.
GoesOn ==
    /\ script' = script /\ result = "running" /\ result' \in {"ok", "running"}
    /\ result' = "ok" => todo' = <<>>
    /\ clean' => clean \/ (result' = "ok" /\ script = "seed")

\* What every statement that succeeds does to the list and to the script.
LEMMA GoingOn ==
  ASSUME PartInv, result = "running", NEW rest, Then(rest), Lists(rest, ToSet(rest)),
         relation' \in [Tables -> {"absent", "attached", "alone"}],
         stored' \in [Tables -> Nat], flat' \in [canonicalPartitions -> Nat]
  PROVE  PartTypes' /\ GoesOn /\ Lists(todo', ToSet(todo')) /\ todo' = rest
<1>1. PartTypes
  BY DEF PartInv
<1>2. /\ todo' = rest /\ script' = script
      /\ (rest = <<>> => result' = "ok") /\ (rest # <<>> => result' = "running")
  BY DEF Then
<1>3. clean' \in BOOLEAN /\ (clean' => clean \/ (rest = <<>> /\ script = "seed"))
  BY <1>1, Zenon DEF Then, PartTypes
<1>4. GoesOn
  BY <1>2, <1>3 DEF GoesOn
<1>5. /\ script' \in {"none", "seed", "maintenance", "attach", "list"} /\ result' \in {"none", "running", "ok", "failed", "killed"}
      /\ script' # "none" /\ result' # "none" /\ ((todo' = <<>>) <=> (result' # "running"))
  BY <1>1, <1>2 DEF PartTypes
<1>6. clean' => result' \in {"ok", "running"}
  BY <1>2
<1>7. PartTypes'
  BY <1>3, <1>5, <1>6 DEF PartTypes
<1> QED
  BY <1>2, <1>4, <1>7

\* A statement that succeeds and plans nothing.
LEMMA MovesOn ==
  ASSUME PartInv, result = "running", Then(Tail(todo)),
         relation' \in [Tables -> {"absent", "attached", "alone"}],
         stored' \in [Tables -> Nat], flat' \in [canonicalPartitions -> Nat]
  PROVE  PartTypes' /\ GoesOn /\ Plan' /\ Moved(Now, It)
<1>1. Lists(todo, ToSet(todo)) /\ todo # <<>> /\ \A vb \in Verbs, n \in Names : Has(vb, n) => PartOf(script, vb, n)
  BY DEF PartInv, PartTypes, Plan
<1>2. /\ Now \in Verbs /\ It \in Names /\ Statement(Now, It) \in ToSet(todo)
      /\ Lists(Tail(todo), ToSet(Tail(todo)))
      /\ \A w, k : Statement(w, k) \in ToSet(Tail(todo)) <=> Statement(w, k) \in ToSet(todo) /\ ~(w = Now /\ k = It)
      /\ \A w, k : Statement(w, k) \in ToSet(Tail(todo)) =>
            StatementRank(Now, It) <= StatementRank(w, k) /\ ~(Now = "drop" /\ w = "detach" /\ k = It)
  BY <1>1, HeadGone DEF Now, It
<1>3. PartTypes' /\ GoesOn /\ Lists(todo', ToSet(todo')) /\ todo' = Tail(todo)
  BY <1>2, GoingOn
<1>4. PartOf(script, Now, It)
  BY <1>1, <1>2 DEF Has
<1>5. Moved(Now, It)
  BY <1>2, <1>3, <1>4 DEF Moved
<1>6. ASSUME NEW vb \in Verbs, NEW n \in Names, Statement(vb, n) \in ToSet(todo') PROVE PartOf(script', vb, n)
  <2>1. Has(vb, n) /\ script' = script
    BY <1>2, <1>3, <1>6 DEF Has, GoesOn
  <2> QED BY <1>1, <2>1
<1>7. Plan'
  BY <1>3, <1>6 DEF Plan, Has
<1> QED
  BY <1>3, <1>5, <1>7

\* The seed leaves the twins equal when it ends; until then they may differ.
LEMMA TwinsOfSeed == ASSUME script = "seed", GoesOn, Seeding' PROVE Twins'
<1>1. script' = "seed" /\ result' \in {"ok", "running"} /\ (result' = "ok" => todo' = <<>>)
  BY DEF GoesOn
<1>2. CASE result' = "ok"
  <2>1. \A vb, n : Statement(vb, n) \notin ToSet(todo')
    BY <1>1, <1>2, ListsOne DEF Lists
  <2>2. MonthsSeeded'
    BY <1>1 DEF Seeding, Doing
  <2>3. \A m \in canonicalPartitions : flat'[m] = 1 /\ stored'[m] = 1
    BY <2>1, <2>2 DEF MonthsSeeded, Has
  <2> QED BY <2>3 DEF Twins
<1>3. CASE result' = "running"
  BY <1>1, <1>3 DEF Twins
<1> QED
  BY <1>1, <1>2, <1>3

\* Where a table may be detached or dropped.
LEMMA NamesOf ==
  /\ Extra \subseteq Tables /\ Default \in Tables /\ canonicalPartitions \subseteq Tables /\ Regions \subseteq Tables
  /\ Extra \subseteq Names /\ Default \in Names /\ canonicalPartitions \subseteq Names /\ January \in Names
  /\ "y2026m01" \in Extra /\ "y2026m02" \in Extra /\ "latam" \in Names /\ "latam" # Default
  /\ RangeTables = canonicalPartitions \cup Extra /\ ListTables = Regions \cup {Default}
  /\ Tables \subseteq Names
BY NamesDiffer DEF Tables, RangeTables, ListTables, Names, Extra, Default

\* A DETACH keeps the invariant.
LEMMA DetachKeeps == ASSUME PartInv, Detach PROVE PartInv'
<1> DEFINE n == It
<1>1. /\ result = "running" /\ Now = "detach" /\ relation' = [relation EXCEPT ![n] = "alone"] /\ Then(Tail(todo))
      /\ stored' = stored /\ flat' = flat
  BY DEF Detach, Executing
<1>2. PartTypes /\ Layout /\ Plan /\ Seeding /\ Maintaining /\ Listing
  BY DEF PartInv
<1>3. /\ relation' \in [Tables -> {"absent", "attached", "alone"}]
      /\ stored' \in [Tables -> Nat] /\ flat' \in [canonicalPartitions -> Nat]
  BY <1>1, <1>2 DEF PartTypes
<1>4. PartTypes' /\ GoesOn /\ Plan' /\ Moved("detach", n)
  BY <1>1, <1>3, MovesOn
<1>5. \/ script = "seed" /\ n \in Extra \cup {Default}
      \/ script = "maintenance" /\ n = January
      \/ script = "list" /\ n = Default
  BY <1>4 DEF Moved, PartOf
<1>6. n \in Tables /\ n \notin Regions
  BY <1>5, NamesOf, NamesDiffer
<1> HIDE DEF n
<1>7. /\ relation'[n] = "alone" /\ \A t \in Tables : t # n => relation'[t] = relation[t]
  BY <1>1, <1>2, <1>6 DEF PartTypes
<1>8. Layout'
  BY <1>1, <1>2, <1>6, <1>7, NamesOf DEF Layout
<1>9. Seeding'
  <2> SUFFICES ASSUME script = "seed" PROVE SeedExtras' /\ PlansOnce' /\ BatchesLast' /\ RegionsEmptied' /\ MonthsSeeded'
    BY <1>4 DEF Seeding, Doing, GoesOn
  <2>1. SeedExtras /\ PlansOnce /\ BatchesLast /\ RegionsEmptied /\ MonthsSeeded /\ n \in Extra \cup {Default}
    BY <1>2, <1>4, <1>5, NamesDiffer, NamesOf DEF Seeding, Doing, GoesOn
  <2>2. SeedExtras'
    BY <1>4, <1>7, <2>1, NamesOf, NamesDiffer DEF SeedExtras, Has, Moved
  <2>3. PlansOnce'
    BY <1>4, <2>1 DEF PlansOnce, Has, Moved
  <2>4. BatchesLast'
    BY <1>4, <2>1 DEF BatchesLast, Has, Moved
  <2>5. RegionsEmptied'
    BY <1>1, <1>4, <2>1 DEF RegionsEmptied, Has, Moved
  <2>6. MonthsSeeded'
    BY <1>1, <1>4, <1>7, <2>1, NamesOf, NamesDiffer DEF MonthsSeeded, Has, Moved
  <2> QED BY <2>2, <2>3, <2>4, <2>5, <2>6
<1>10. SeedStuck'
  BY <1>4 DEF SeedStuck, GoesOn
<1>11. Maintaining'
  <2> SUFFICES ASSUME script = "maintenance", n = January PROVE Maintaining'
    BY <1>4, <1>5, NamesDiffer DEF Maintaining, Doing, GoesOn
  <2> QED BY <1>1, <1>2, <1>4, <1>7, NamesOf, NamesDiffer DEF Maintaining, Doing, GoesOn, Has, Moved
<1>12. Attaching'
  BY <1>4, <1>5 DEF Attaching, Doing, GoesOn
<1>13. Listing'
  <2> SUFFICES ASSUME script = "list", n = Default PROVE Listing'
    BY <1>4, <1>5, NamesDiffer DEF Listing, Doing, GoesOn
  <2> QED BY <1>1, <1>2, <1>4, <1>7, NamesOf, NamesDiffer DEF Listing, PlansOnce, RegionsFilled, Doing, GoesOn, Has, Moved
<1>14. Twins'
  <2>1. CASE script = "seed"
    BY <1>4, <1>9, <2>1, TwinsOfSeed
  <2>2. CASE script # "seed"
    <3>1. script' = script /\ (clean' => clean) /\ Twins
      BY <1>4, <2>2 DEF GoesOn, PartInv
    <3> QED BY <1>1, <1>4, <2>2, <3>1 DEF Twins, Has, Moved
  <2> QED BY <2>1, <2>2
<1> QED
  BY <1>4, <1>8, <1>9, <1>10, <1>11, <1>12, <1>13, <1>14 DEF PartInv

\* A DROP keeps the invariant.
LEMMA DropKeeps == ASSUME PartInv, Drop PROVE PartInv'
<1> DEFINE n == It
<1>1. /\ result = "running" /\ Now = "drop" /\ relation' = [relation EXCEPT ![n] = "absent"] /\ Then(Tail(todo))
      /\ stored' = [stored EXCEPT ![n] = 0] /\ flat' = flat
  BY DEF Drop, Executing
<1>2. PartTypes /\ Layout /\ Plan /\ Seeding /\ Maintaining /\ Listing
  BY DEF PartInv
<1>3. /\ relation' \in [Tables -> {"absent", "attached", "alone"}]
      /\ stored' \in [Tables -> Nat] /\ flat' \in [canonicalPartitions -> Nat]
  BY <1>1, <1>2 DEF PartTypes
<1>4. PartTypes' /\ GoesOn /\ Plan' /\ Moved("drop", n)
  BY <1>1, <1>3, MovesOn
<1>5. \/ script = "seed" /\ n \in Extra \cup {Default}
      \/ script = "maintenance" /\ n = January
      \/ script = "list" /\ n = Default
  BY <1>4 DEF Moved, PartOf
<1>6. n \in Tables /\ n \notin Regions
  BY <1>5, NamesOf, NamesDiffer
<1> HIDE DEF n
<1>7. /\ relation'[n] = "absent" /\ stored'[n] = 0
      /\ \A t \in Tables : t # n => relation'[t] = relation[t] /\ stored'[t] = stored[t]
  BY <1>1, <1>2, <1>6 DEF PartTypes
<1>8. Layout'
  BY <1>1, <1>2, <1>6, <1>7, NamesOf DEF Layout
<1>9. Seeding'
  <2> SUFFICES ASSUME script = "seed" PROVE SeedExtras' /\ PlansOnce' /\ BatchesLast' /\ RegionsEmptied' /\ MonthsSeeded'
    BY <1>4 DEF Seeding, Doing, GoesOn
  <2>1. SeedExtras /\ PlansOnce /\ BatchesLast /\ RegionsEmptied /\ MonthsSeeded /\ n \in Extra \cup {Default}
    BY <1>2, <1>4, <1>5, NamesDiffer, NamesOf DEF Seeding, Doing, GoesOn
  <2>2. SeedExtras'
    BY <1>4, <1>7, <2>1, NamesOf, NamesDiffer DEF SeedExtras, Has, Moved
  <2>3. PlansOnce'
    BY <1>4, <2>1 DEF PlansOnce, Has, Moved
  <2>4. BatchesLast'
    BY <1>4, <2>1 DEF BatchesLast, Has, Moved
  <2>5. RegionsEmptied'
    BY <1>4, <1>6, <1>7, <2>1, NamesOf DEF RegionsEmptied, Has, Moved
  <2>6. MonthsSeeded'
    BY <1>1, <1>4, <1>7, <2>1, NamesOf, NamesDiffer DEF MonthsSeeded, Has, Moved
  <2> QED BY <2>2, <2>3, <2>4, <2>5, <2>6
<1>10. SeedStuck'
  BY <1>4 DEF SeedStuck, GoesOn
<1>11. Maintaining'
  <2> SUFFICES ASSUME script = "maintenance", n = January PROVE Maintaining'
    BY <1>4, <1>5, NamesDiffer DEF Maintaining, Doing, GoesOn
  <2> QED BY <1>1, <1>2, <1>4, <1>7, NamesOf, NamesDiffer DEF Maintaining, Doing, GoesOn, Has, Moved
<1>12. Attaching'
  BY <1>4, <1>5 DEF Attaching, Doing, GoesOn
<1>13. Listing'
  <2> SUFFICES ASSUME script = "list", n = Default PROVE Listing'
    BY <1>4, <1>5, NamesDiffer DEF Listing, Doing, GoesOn
  <2>1. \A r \in Regions : stored'[r] = stored[r]
    BY <1>6, <1>7, NamesOf
  <2>2. /\ \A vb \in Verbs, k \in Names : Has(vb, k) /\ vb # "insert" => Has("create", Default)
        /\ \A vb \in {"resetList", "detach", "drop", "truncateList"} : Has(vb, Default) => Has("insertRegions", Default)
        /\ Has("create", Default) => Has("insert", "latam")
        /\ PlansOnce /\ RegionsFilled
    BY <1>2, <1>4 DEF Listing, Doing, GoesOn
  <2>3. PlansOnce'
    BY <1>4, <2>2 DEF PlansOnce, Has, Moved
  <2>4. RegionsFilled'
    BY <1>4, <2>1, <2>2 DEF RegionsFilled, Has, Moved
  <2>5. Statement("create", Default) \in ToSet(todo')
    BY <1>4, <2>2 DEF Has, Moved
  <2> QED BY <1>4, <2>2, <2>3, <2>4, <2>5 DEF Listing, Has, Moved
<1>14. Twins'
  <2>1. CASE script = "seed"
    BY <1>4, <1>9, <2>1, TwinsOfSeed
  <2>2. CASE script # "seed"
    <3>1. script' = script /\ (clean' => clean) /\ Twins
      BY <1>4, <2>2 DEF GoesOn, PartInv
    <3>2. CASE script = "maintenance"
      <4>1. Statement("deleteFlat", January) \in ToSet(todo') /\ Statement("drop", January) \notin ToSet(todo') /\ n = January
        BY <1>2, <1>4, <1>5, <3>2 DEF Maintaining, Doing, GoesOn, Has, Moved
      <4>2. \A m \in canonicalPartitions : m # January => stored'[m] = stored[m]
        BY <1>7, <4>1, NamesOf
      <4>3. ASSUME clean', NEW m \in canonicalPartitions, m # January PROVE flat'[m] = stored'[m]
        BY <1>1, <2>2, <3>1, <4>2, <4>3 DEF Twins
      <4> QED BY <3>1, <3>2, <4>1, <4>3 DEF Twins, Has
    <3>3. CASE script # "maintenance"
      <4>1. \A m \in canonicalPartitions : stored'[m] = stored[m]
        BY <1>5, <1>7, <2>2, <3>3, NamesOf, NamesDiffer
      <4> QED BY <1>1, <2>2, <3>1, <3>3, <4>1 DEF Twins
    <3> QED BY <3>2, <3>3
  <2> QED BY <2>1, <2>2
<1> QED
  BY <1>4, <1>8, <1>9, <1>10, <1>11, <1>12, <1>13, <1>14 DEF PartInv

\* A CREATE TABLE keeps it, and so does one that finds its name taken.
LEMMA CreateKeeps == ASSUME PartInv, CreatePartition PROVE PartInv'
<1> DEFINE n == It
           vb == Now
<1>1. /\ result = "running" /\ vb \in {"create", "ensure"} /\ Then(Tail(todo)) /\ stored' = stored /\ flat' = flat
      /\ (vb = "create" => ~Refused("create", n))
      /\ (relation[n] # "absent" => relation' = relation)
      /\ (relation[n] = "absent" => relation' = [relation EXCEPT ![n] = "attached"])
  BY DEF CreatePartition, Executing, Present
<1>2. PartTypes /\ Layout /\ Plan /\ Seeding /\ Attaching /\ Listing
  BY DEF PartInv
<1>3. /\ relation' \in [Tables -> {"absent", "attached", "alone"}]
      /\ stored' \in [Tables -> Nat] /\ flat' \in [canonicalPartitions -> Nat]
  BY <1>1, <1>2 DEF PartTypes
<1>4. PartTypes' /\ GoesOn /\ Plan' /\ Moved(vb, n)
  BY <1>1, <1>3, MovesOn
<1>5. \/ script = "seed" /\ vb = "ensure" /\ n \in canonicalPartitions
      \/ script = "attach" /\ vb = "create" /\ n \in {"y2026m01", "y2026m02"}
      \/ script = "list" /\ vb = "create" /\ n = Default
  BY <1>1, <1>4 DEF Moved, PartOf
<1>6. n \in Tables /\ n \notin Regions
  BY <1>5, NamesOf, NamesDiffer
<1> HIDE DEF n, vb
<1>7. /\ \A t \in Tables : t # n => relation'[t] = relation[t]
      /\ relation'[n] = IF relation[n] = "absent" THEN "attached" ELSE relation[n]
  BY <1>1, <1>2, <1>6 DEF PartTypes
<1>8. Layout'
  BY <1>1, <1>2, <1>6, <1>7, NamesOf DEF Layout
<1>9. Seeding'
  <2> SUFFICES ASSUME script = "seed" PROVE SeedExtras' /\ PlansOnce' /\ BatchesLast' /\ RegionsEmptied' /\ MonthsSeeded'
    BY <1>4 DEF Seeding, Doing, GoesOn
  <2>1. SeedExtras /\ PlansOnce /\ BatchesLast /\ RegionsEmptied /\ MonthsSeeded /\ n \in canonicalPartitions /\ vb = "ensure"
    BY <1>2, <1>4, <1>5 DEF Seeding, Doing, GoesOn
  <2>2. SeedExtras'
    <3>1. \A t \in Extra \cup {Default} : relation'[t] = relation[t]
      BY <1>7, <2>1, NamesOf, NamesDiffer
    <3> QED BY <1>4, <2>1, <3>1 DEF SeedExtras, Has, Moved
  <2>3. PlansOnce'
    BY <1>4, <2>1 DEF PlansOnce, Has, Moved
  <2>4. BatchesLast'
    BY <1>4, <2>1 DEF BatchesLast, Has, Moved
  <2>5. RegionsEmptied'
    BY <1>1, <1>4, <2>1 DEF RegionsEmptied, Has, Moved
  <2>6. MonthsSeeded'
    <3>1. Statement("truncateRange", Default) \in ToSet(todo')
      BY <1>4, <2>1 DEF BatchesLast, Has, Moved
    <3> QED BY <1>1, <1>4, <1>7, <2>1, <3>1, NamesOf DEF MonthsSeeded, Has, Moved
  <2> QED BY <2>2, <2>3, <2>4, <2>5, <2>6
<1>10. SeedStuck'
  BY <1>4 DEF SeedStuck, GoesOn
<1>11. Maintaining'
  BY <1>4, <1>5 DEF Maintaining, Doing, GoesOn
<1>12. Attaching'
  <2> SUFFICES ASSUME script = "attach", vb = "create", n \in {"y2026m01", "y2026m02"} PROVE Attaching'
    BY <1>4, <1>5 DEF Attaching, Doing, GoesOn
  <2>1. relation[n] = "absent"
    BY <1>1, RefusedIs
  <2> QED BY <1>1, <1>2, <1>4, <1>7, <2>1, NamesOf, StatementRanks DEF Attaching, Doing, GoesOn, Has, Moved
<1>13. Listing'
  <2> SUFFICES ASSUME script = "list", n = Default, vb = "create" PROVE Listing'
    BY <1>4, <1>5 DEF Listing, Doing, GoesOn
  <2>0. relation[n] = "absent"
    BY <1>1, RefusedIs
  <2>2. /\ \A w \in Verbs, k \in Names : Has(w, k) /\ w # "insert" => Has("create", Default)
        /\ \A w \in {"resetList", "detach", "drop", "truncateList"} : Has(w, Default) => Has("insertRegions", Default)
        /\ Has("create", Default) => Has("insert", "latam")
        /\ PlansOnce /\ RegionsFilled
    BY <1>2, <1>4 DEF Listing, Doing, GoesOn
  <2>1. \A w \in Verbs, k \in Names : Has(w, k)' => w = "insert"
    <3> SUFFICES ASSUME NEW w \in Verbs, NEW k \in Names, Statement(w, k) \in ToSet(todo') PROVE w = "insert"
      BY DEF Has
    <3>1. StatementRank("create", Default) = 7 /\ StatementRank(w, k) >= 7 /\ PartOf("list", w, k)
      BY <1>2, <1>4, StatementRanks DEF Moved, Plan, Has, Default
    <3>2. \A t : StatementRank("insert", t) = 8
      BY StatementRanks
    <3> QED BY <1>4, <3>1, StatementRanks DEF PartOf, Moved
  <2>3. PlansOnce'
    BY <1>4, <2>2 DEF PlansOnce, Has, Moved
  <2>4. RegionsFilled'
    BY <1>1, <1>4, <2>2 DEF RegionsFilled, Has, Moved
  <2>5. relation'[Default] = "attached" /\ stored'[Default] = 0 /\ Statement("insert", "latam") \in ToSet(todo')
    BY <1>1, <1>2, <1>4, <1>6, <1>7, <2>0, <2>2 DEF Layout, Has, Moved
  <2>6. \A w \in {"resetList", "detach", "drop", "truncateList"} : Has(w, Default)' => Has("insertRegions", Default)'
    BY <1>4, <2>2 DEF Has, Moved
  <2> QED BY <2>1, <2>3, <2>4, <2>5, <2>6 DEF Listing, Has
<1>14. Twins'
  <2>1. CASE script = "seed"
    BY <1>4, <1>9, <2>1, TwinsOfSeed
  <2>2. CASE script # "seed"
    <3>1. script' = script /\ (clean' => clean) /\ Twins
      BY <1>4, <2>2 DEF GoesOn, PartInv
    <3> QED BY <1>1, <1>5, <2>2, <3>1 DEF Twins
  <2> QED BY <2>1, <2>2
<1> QED
  BY <1>4, <1>8, <1>9, <1>10, <1>11, <1>12, <1>13, <1>14 DEF PartInv

\* A TRUNCATE keeps it.
LEMMA TruncateKeeps == ASSUME PartInv, Truncate PROVE PartInv'
<1> DEFINE n == It
           vb == Now
<1>1. /\ result = "running" /\ Then(Tail(todo)) /\ relation' = relation
      /\ \/ vb = "truncateList" /\ stored' = Cleared(ListTables) /\ flat' = flat
         \/ vb = "truncateRange" /\ stored' = Cleared(RangeTables) /\ flat' = flat
         \/ vb = "truncateFlat" /\ flat' = [m \in canonicalPartitions |-> 0] /\ stored' = stored
  BY DEF Truncate, Executing
<1>2. PartTypes /\ Layout /\ Plan /\ Seeding /\ Attaching /\ Listing
  BY DEF PartInv
<1>3. /\ relation' \in [Tables -> {"absent", "attached", "alone"}]
      /\ stored' \in [Tables -> Nat] /\ flat' \in [canonicalPartitions -> Nat]
  BY <1>1, <1>2 DEF PartTypes, Cleared
<1>4. PartTypes' /\ GoesOn /\ Plan' /\ Moved(vb, n)
  BY <1>1, <1>3, MovesOn
<1>5. /\ \/ script = "seed" /\ vb \in {"truncateList", "truncateRange", "truncateFlat"}
         \/ script = "list" /\ vb = "truncateList"
      /\ n = Default
  BY <1>1, <1>4 DEF Moved, PartOf
<1> HIDE DEF n, vb
<1>6. /\ vb = "truncateList" =>
           \A t \in Tables : stored'[t] = IF t \in ListTables /\ relation[t] = "attached" THEN 0 ELSE stored[t]
      /\ vb = "truncateRange" =>
           \A t \in Tables : stored'[t] = IF t \in RangeTables /\ relation[t] = "attached" THEN 0 ELSE stored[t]
      /\ vb = "truncateFlat" => stored' = stored /\ \A m \in canonicalPartitions : flat'[m] = 0
      /\ vb # "truncateFlat" => flat' = flat
  BY <1>1 DEF Cleared, Attached
<1>7. \A t \in Tables : stored'[t] = 0 \/ stored'[t] = stored[t]
  BY <1>1, <1>6
<1>8. Layout'
  BY <1>1, <1>2, <1>7 DEF Layout
<1>9. Seeding'
  <2> SUFFICES ASSUME script = "seed" PROVE SeedExtras' /\ PlansOnce' /\ BatchesLast' /\ RegionsEmptied' /\ MonthsSeeded'
    BY <1>4 DEF Seeding, Doing, GoesOn
  <2>1. SeedExtras /\ PlansOnce /\ BatchesLast /\ RegionsEmptied /\ MonthsSeeded
    BY <1>2, <1>4 DEF Seeding, Doing, GoesOn
  <2>2. SeedExtras'
    BY <1>1, <1>4, <2>1 DEF SeedExtras, Has, Moved
  <2>3. PlansOnce'
    BY <1>4, <2>1 DEF PlansOnce, Has, Moved
  <2>4. BatchesLast'
    <3> SUFFICES ASSUME vb = "truncateRange" PROVE BatchesLast'
      BY <1>1, <1>4, <2>1 DEF BatchesLast, Has, Moved
    <3>1. ASSUME NEW w \in Verbs, NEW k \in Names, Statement(w, k) \in ToSet(todo') PROVE w = "batch"
      <4>1. StatementRank(w, k) >= 10 /\ PartOf("seed", w, k) /\ ~(w = "truncateRange" /\ k = Default)
        BY <1>2, <1>4, <1>5, <3>1, StatementRanks DEF Moved, Plan, Has
      <4> QED BY <4>1, StatementRanks, NamesDiffer DEF PartOf
    <3> QED BY <3>1 DEF BatchesLast, Has
  <2>5. RegionsEmptied'
    <3>1. \A r \in Regions : vb = "truncateList" => stored'[r] = 0
      BY <1>2, <1>6, NamesOf DEF Layout
    <3> QED BY <1>4, <1>5, <1>7, <2>1, <3>1, NamesOf DEF RegionsEmptied, Has, Moved
  <2>6. MonthsSeeded'
    <3>1. vb = "truncateList" => \A m \in canonicalPartitions : stored'[m] = stored[m]
      BY <1>6, NamesOf, NamesDiffer
    <3>2. vb = "truncateRange" => \A m \in canonicalPartitions : relation[m] = "attached" => stored'[m] = 0
      BY <1>6, NamesOf
    <3>3. CASE vb = "truncateFlat"
      BY <1>1, <1>4, <1>5, <1>6, <2>1, <3>3 DEF MonthsSeeded, Has, Moved
    <3>4. CASE vb = "truncateRange"
      <4>1. \A m \in canonicalPartitions : Statement("batch", m) \in ToSet(todo')
        BY <1>4, <1>5, <2>1, <3>4 DEF MonthsSeeded, Has, Moved
      <4> QED BY <1>1, <1>4, <1>5, <1>6, <2>1, <3>2, <3>4, <4>1 DEF MonthsSeeded, Has, Moved
    <3>5. CASE vb = "truncateList"
      BY <1>1, <1>4, <1>5, <1>6, <2>1, <3>1, <3>5 DEF MonthsSeeded, Has, Moved
    <3> QED BY <1>1, <3>3, <3>4, <3>5
  <2> QED BY <2>2, <2>3, <2>4, <2>5, <2>6
<1>10. SeedStuck'
  BY <1>4 DEF SeedStuck, GoesOn
<1>11. Maintaining'
  BY <1>4, <1>5 DEF Maintaining, Doing, GoesOn
<1>12. Attaching'
  BY <1>4, <1>5 DEF Attaching, Doing, GoesOn
<1>13. Listing'
  <2> SUFFICES ASSUME script = "list", vb = "truncateList" PROVE Listing'
    BY <1>4, <1>5 DEF Listing, Doing, GoesOn
  <2>1. /\ \A w \in Verbs, k \in Names : Has(w, k) /\ w # "insert" => Has("create", Default)
        /\ \A w \in {"resetList", "detach", "drop", "truncateList"} : Has(w, Default) => Has("insertRegions", Default)
        /\ Has("create", Default) => Has("insert", "latam")
        /\ PlansOnce /\ RegionsFilled
    BY <1>2, <1>4 DEF Listing, Doing, GoesOn
  <2>2. Statement("create", Default) \in ToSet(todo') /\ Statement("insertRegions", Default) \in ToSet(todo')
    BY <1>4, <1>5, <2>1 DEF Has, Moved
  <2>3. PlansOnce'
    BY <1>4, <2>1 DEF PlansOnce, Has, Moved
  <2>4. RegionsFilled'
    <3>1. \A r \in Regions : stored'[r] = 0
      BY <1>2, <1>6, NamesOf DEF Layout
    <3> QED BY <2>2, <3>1 DEF RegionsFilled, Has
  <2> QED BY <1>4, <2>1, <2>2, <2>3, <2>4 DEF Listing, Has, Moved
<1>14. Twins'
  <2>1. CASE script = "seed"
    BY <1>4, <1>9, <2>1, TwinsOfSeed
  <2>2. CASE script # "seed"
    <3>1. script' = script /\ (clean' => clean) /\ Twins
      BY <1>4, <2>2 DEF GoesOn, PartInv
    <3>2. flat' = flat /\ \A m \in canonicalPartitions : stored'[m] = stored[m]
      BY <1>5, <1>6, <2>2, NamesOf, NamesDiffer
    <3> QED BY <1>5, <2>2, <3>1, <3>2 DEF Twins
  <2> QED BY <2>1, <2>2
<1> QED
  BY <1>4, <1>8, <1>9, <1>10, <1>11, <1>12, <1>13, <1>14 DEF PartInv

\* An INSERT keeps it.
LEMMA InsertKeeps == ASSUME PartInv, InsertRows PROVE PartInv'
<1> DEFINE n == It
           vb == Now
           p == Partition(n)
<1>1. /\ result = "running" /\ Then(Tail(todo)) /\ relation' = relation /\ flat' = flat
      /\ \/ vb = "insert" /\ ~Refused("insert", n) /\ stored' = [stored EXCEPT ![p] = @ + 1]
         \/ vb = "insertRegions" /\ stored' = [t \in Tables |-> IF t \in Regions THEN stored[t] + 1 ELSE stored[t]]
  BY DEF InsertRows, Executing, Insert
<1>2. PartTypes /\ Layout /\ Plan /\ Seeding /\ Attaching /\ Listing
  BY DEF PartInv
<1>3. n \in Names
  <2>1. todo # <<>> /\ Lists(todo, ToSet(todo))
    BY <1>1, <1>2 DEF PartTypes, Plan
  <2> QED BY <2>1, HeadGone DEF It
<1>4. vb = "insert" => /\ p \in Tables /\ relation[p] = "attached" /\ (n \in RangeTables => p = n)
                      /\ (n \notin Tables => p = Default)
  BY <1>1, <1>3, RefusedIs, RoutedIs
<1>5. /\ relation' \in [Tables -> {"absent", "attached", "alone"}]
      /\ stored' \in [Tables -> Nat] /\ flat' \in [canonicalPartitions -> Nat]
  <2>1. ASSUME NEW q \in Tables PROVE [stored EXCEPT ![q] = @ + 1] \in [Tables -> Nat]
    BY <1>2 DEF PartTypes
  <2>2. [t \in Tables |-> IF t \in Regions THEN stored[t] + 1 ELSE stored[t]] \in [Tables -> Nat]
    BY <1>2 DEF PartTypes
  <2>3. CASE vb = "insert"
    <3>1. stored' = [stored EXCEPT ![p] = @ + 1] /\ p \in Tables
      BY <1>1, <1>4, <2>3
    <3> HIDE DEF p
    <3> QED BY <1>1, <1>2, <2>1, <3>1 DEF PartTypes
  <2>4. CASE vb = "insertRegions"
    BY <1>1, <1>2, <2>2, <2>4 DEF PartTypes
  <2> QED BY <1>1, <2>3, <2>4
<1>6. PartTypes' /\ GoesOn /\ Plan' /\ Moved(vb, n)
  BY <1>1, <1>5, MovesOn
<1>7. \/ script = "attach" /\ vb = "insert" /\ n = "y2026m01"
      \/ script = "list" /\ vb = "insert" /\ n = "latam"
      \/ script = "list" /\ vb = "insertRegions" /\ n = Default
  BY <1>1, <1>6 DEF Moved, PartOf
<1>8. \/ script = "attach" /\ vb = "insert" /\ n = "y2026m01" /\ p = "y2026m01"
      \/ script = "list" /\ vb = "insert" /\ n = "latam" /\ p = Default
      \/ script = "list" /\ vb = "insertRegions" /\ n = Default
  BY <1>4, <1>7, NamesOf, NamesDiffer
<1> HIDE DEF n, vb, p
<1>9. /\ vb = "insert" => stored'[p] = stored[p] + 1 /\ \A t \in Tables : t # p => stored'[t] = stored[t]
      /\ vb = "insertRegions" =>
           \A t \in Tables : stored'[t] = IF t \in Regions THEN stored[t] + 1 ELSE stored[t]
      /\ stored \in [Tables -> Nat]
  BY <1>1, <1>2, <1>4 DEF PartTypes
<1>10. Layout'
  BY <1>1, <1>2, <1>4, <1>8, <1>9, NamesOf DEF Layout
<1>11. Seeding' /\ SeedStuck' /\ Maintaining'
  BY <1>6, <1>8 DEF Seeding, SeedStuck, Maintaining, Doing, GoesOn
<1>12. Attaching'
  <2> SUFFICES ASSUME script = "attach", vb = "insert", n = "y2026m01", p = "y2026m01" PROVE Attaching'
    BY <1>6, <1>8 DEF Attaching, Doing, GoesOn
  <2>1. stored'["y2026m01"] > 0
    BY <1>9, NamesOf
  <2>2. /\ Has("probe", "y2026m01") => Has("create", "y2026m01")
        /\ ~Has("create", "y2026m01") => relation["y2026m01"] = "attached"
    BY <1>2, <1>6 DEF Attaching, Doing, GoesOn
  <2>3. Statement("create", "y2026m01") \notin ToSet(todo')
    <3>1. StatementRank("create", "y2026m01") = 7 /\ StatementRank("insert", n) = 8
      BY StatementRanks
    <3> QED BY <1>6, <3>1 DEF Moved
  <2> QED BY <1>1, <1>6, <2>1, <2>2, <2>3 DEF Attaching, Has, Moved
<1>13. Listing'
  <2> SUFFICES ASSUME script = "list" PROVE Listing'
    BY <1>6 DEF Listing, Doing, GoesOn
  <2>1. /\ \A w \in Verbs, k \in Names : Has(w, k) /\ w # "insert" => Has("create", Default)
        /\ \A w \in {"resetList", "detach", "drop", "truncateList"} : Has(w, Default) => Has("insertRegions", Default)
        /\ Has("create", Default) => Has("insert", "latam")
        /\ PlansOnce /\ RegionsFilled
        /\ ~Has("create", Default) => relation[Default] = "attached"
        /\ ~Has("create", Default) /\ Has("insert", "latam") => stored[Default] = 0
    BY <1>2, <1>6 DEF Listing, Doing, GoesOn
  <2>2. PlansOnce'
    BY <1>6, <2>1 DEF PlansOnce, Has, Moved
  <2>3. StatementRank("insert", n) = 8 /\ StatementRank("insertRegions", n) = 5 /\ StatementRank("create", Default) = 7
    BY StatementRanks DEF Default
  <2>4. CASE vb = "insert"
    <3>1. n = "latam" /\ p = Default
      BY <1>8, <2>4
    <3>2. Statement("create", Default) \notin ToSet(todo')
      BY <1>6, <2>3, <2>4 DEF Moved
    <3>3. \A w \in Verbs, k \in Names : Statement(w, k) \in ToSet(todo') => w = "insert"
      BY <1>6, <2>1, <2>4, <3>2 DEF Moved, Has
    <3>4. Statement("insertRegions", Default) \notin ToSet(todo) /\ Statement("create", Default) \notin ToSet(todo)
      BY <1>6, <2>4, <3>2, <3>3, NamesOf DEF Moved, Verbs
    <3>5. stored'[Default] = 1 /\ \A r \in Regions : stored'[r] = stored[r]
      BY <1>6, <1>9, <2>1, <2>4, <3>1, <3>4, NamesOf, NamesDiffer DEF Has, Moved
    <3>6. RegionsFilled'
      BY <1>6, <2>1, <3>4, <3>5 DEF RegionsFilled, Has, Moved
    <3>7. \A w \in {"resetList", "detach", "drop", "truncateList"} : Statement(w, Default) \notin ToSet(todo')
      BY <3>3, NamesOf DEF Verbs
    <3>8. Statement("insert", "latam") \notin ToSet(todo')
      BY <1>6, <2>4, <3>1 DEF Moved
    <3> QED BY <1>1, <2>1, <2>2, <3>2, <3>3, <3>4, <3>5, <3>6, <3>7, <3>8 DEF Listing, Has
  <2>5. CASE vb = "insertRegions"
    <3>1. n = Default
      BY <1>8, <2>5
    <3>2. \A w \in {"resetList", "detach", "drop", "truncateList"} : Statement(w, Default) \notin ToSet(todo')
      <4>1. StatementRank("resetList", Default) = 2 /\ StatementRank("detach", Default) = 3 /\ StatementRank("drop", Default) = 3 /\ StatementRank("truncateList", Default) = 4
        BY StatementRanks
      <4> QED BY <1>6, <2>3, <2>5, <4>1 DEF Moved
    <3>3. \A w \in {"resetList", "truncateList"} : Statement(w, Default) \notin ToSet(todo)
      BY <1>6, <2>5, <3>2 DEF Moved
    <3>4. \A r \in Regions : stored'[r] = 1
      BY <1>6, <1>9, <2>1, <2>5, <3>1, <3>3, NamesOf DEF RegionsFilled, Has, Moved
    <3>5. RegionsFilled'
      BY <1>6, <2>5, <3>1, <3>4 DEF RegionsFilled, Has, Moved
    <3>6. Statement("create", Default) \in ToSet(todo') /\ Statement("insert", "latam") \in ToSet(todo')
      BY <1>6, <2>1, <2>5 DEF Has, Moved
    <3> QED BY <2>2, <3>2, <3>5, <3>6 DEF Listing, Has
  <2> QED BY <1>1, <2>4, <2>5
<1>14. Twins'
  <2>1. script' = script /\ (clean' => clean) /\ Twins /\ script \notin {"seed", "maintenance"}
    BY <1>6, <1>8 DEF GoesOn, PartInv
  <2>2. \A m \in canonicalPartitions : stored'[m] = stored[m]
    <3>1. \A m \in canonicalPartitions : m \in Tables /\ m \notin Regions /\ m # "y2026m01" /\ m # Default
      BY NamesOf, NamesDiffer
    <3>2. CASE vb = "insert"
      BY <1>8, <1>9, <3>1, <3>2
    <3>3. CASE vb = "insertRegions"
      BY <1>9, <3>1, <3>3
    <3> QED BY <1>1, <3>2, <3>3
  <2> QED BY <1>1, <2>1, <2>2 DEF Twins
<1> QED
  BY <1>6, <1>10, <1>11, <1>12, <1>13, <1>14 DEF PartInv

\* A batch goes into both tables, and keeps it.
LEMMA BatchKeeps == ASSUME PartInv, InsertBatch PROVE PartInv'
<1> DEFINE n == It
           p == Partition(n)
<1>1. /\ result = "running" /\ Then(Tail(todo)) /\ relation' = relation /\ Now = "batch" /\ ~Refused("batch", n)
      /\ flat' = [flat EXCEPT ![n] = @ + 1] /\ stored' = [stored EXCEPT ![p] = @ + 1]
  BY DEF InsertBatch, Executing, Insert
<1>2. PartTypes /\ Layout /\ Plan /\ Seeding
  BY DEF PartInv
<1>3. n \in canonicalPartitions /\ script = "seed"
  <2>1. todo # <<>> /\ Lists(todo, ToSet(todo)) /\ \A vb \in Verbs, k \in Names : Has(vb, k) => PartOf(script, vb, k)
    BY <1>1, <1>2 DEF PartTypes, Plan
  <2>2. n \in Names /\ Has("batch", n)
    BY <1>1, <2>1, HeadGone DEF It, Now, Has
  <2>3. "batch" \in Verbs
    BY DEF Verbs
  <2> QED BY <2>1, <2>2, <2>3 DEF PartOf
<1>4. p = n /\ relation[n] = "attached"
  BY <1>1, <1>3, RefusedIs, RoutedIs, NamesOf
<1>5. /\ relation' \in [Tables -> {"absent", "attached", "alone"}]
      /\ stored' \in [Tables -> Nat] /\ flat' \in [canonicalPartitions -> Nat]
      /\ stored' = [stored EXCEPT ![n] = @ + 1]
  <2> HIDE DEF p
  <2>1. stored' = [stored EXCEPT ![n] = @ + 1] /\ n \in Tables
    BY <1>1, <1>3, <1>4, NamesOf
  <2>2. flat' = [flat EXCEPT ![n] = @ + 1] /\ relation' = relation /\ n \in canonicalPartitions
    BY <1>1, <1>3
  <2> HIDE DEF n
  <2>3. stored' \in [Tables -> Nat]
    BY <1>2, <2>1 DEF PartTypes
  <2>4. flat' \in [canonicalPartitions -> Nat]
    BY <1>2, <2>2 DEF PartTypes
  <2> QED BY <1>2, <2>1, <2>2, <2>3, <2>4 DEF PartTypes
<1>6. PartTypes' /\ GoesOn /\ Plan' /\ Moved("batch", n)
  BY <1>1, <1>5, MovesOn
<1> HIDE DEF n, p
<1>7. /\ flat'[n] = flat[n] + 1 /\ \A m \in canonicalPartitions : m # n => flat'[m] = flat[m]
      /\ stored'[n] = stored[n] + 1 /\ \A t \in Tables : t # n => stored'[t] = stored[t]
      /\ flat[n] \in Nat /\ stored[n] \in Nat
  BY <1>1, <1>2, <1>3, <1>5, NamesOf DEF PartTypes
<1>8. Layout'
  BY <1>1, <1>2, <1>4, <1>7 DEF Layout
<1>9. Seeding'
  <2>1. SeedExtras /\ PlansOnce /\ BatchesLast /\ RegionsEmptied /\ MonthsSeeded
    BY <1>2, <1>3, <1>6 DEF Seeding, Doing, GoesOn
  <2>2. SeedExtras'
    BY <1>1, <1>6, <2>1 DEF SeedExtras, Has, Moved
  <2>3. PlansOnce'
    BY <1>6, <2>1 DEF PlansOnce, Has, Moved
  <2>4. BatchesLast'
    BY <1>6, <2>1 DEF BatchesLast, Has, Moved
  <2>5. RegionsEmptied'
    <3>1. \A r \in Regions : stored'[r] = stored[r]
      BY <1>3, <1>7, NamesOf, NamesDiffer
    <3> QED BY <1>6, <2>1, <3>1 DEF RegionsEmptied, Has, Moved
  <2>6. MonthsSeeded'
    <3>1. \A vb \in {"reconcile", "truncateFlat", "truncateRange"} :
             Statement(vb, Default) \notin ToSet(todo) /\ Statement(vb, Default) \notin ToSet(todo')
      <4>1. /\ StatementRank("reconcile", Default) = 0 /\ StatementRank("truncateFlat", Default) = 9 /\ StatementRank("truncateRange", Default) = 10
            /\ StatementRank("batch", n) = 11
        BY StatementRanks
      <4> QED BY <1>6, <4>1 DEF Moved
    <3>2. \A m \in canonicalPartitions : Statement("ensure", m) \notin ToSet(todo')
      <4>1. StatementRank("batch", n) = 11 /\ \A m : StatementRank("ensure", m) = 1
        BY StatementRanks
      <4> QED BY <1>6, <4>1 DEF Moved
    <3>3. \A m \in canonicalPartitions : Statement("ensure", m) \notin ToSet(todo)
      BY <1>6, <3>2 DEF Moved
    <3>4. flat[n] = 0 /\ stored[n] = 0
      BY <1>3, <1>4, <1>6, <2>1, <3>1 DEF MonthsSeeded, Has, Moved
    <3> QED BY <1>1, <1>3, <1>4, <1>6, <1>7, <2>1, <3>1, <3>2, <3>3, <3>4, NamesOf DEF MonthsSeeded, Has, Moved
  <2> QED BY <2>2, <2>3, <2>4, <2>5, <2>6 DEF Seeding
<1>10. SeedStuck' /\ Maintaining' /\ Attaching' /\ Listing'
  BY <1>3, <1>6 DEF SeedStuck, Maintaining, Attaching, Listing, Doing, GoesOn
<1>11. Twins'
  BY <1>3, <1>6, <1>9, TwinsOfSeed
<1> QED
  BY <1>6, <1>8, <1>9, <1>10, <1>11 DEF PartInv

\* Counting January and purging it from the flat table keep it.
LEMMA PurgeKeeps == ASSUME PartInv, CountPartition \/ DeleteFlat PROVE PartInv'
<1> DEFINE n == It
           vb == Now
<1>1. /\ result = "running" /\ Then(Tail(todo)) /\ relation' = relation /\ stored' = stored
      /\ \/ vb = "count" /\ flat' = flat
         \/ vb = "deleteFlat" /\ flat' = [flat EXCEPT ![n] = 0]
  BY DEF CountPartition, DeleteFlat, Executing
<1>2. PartTypes /\ Layout /\ Plan /\ Maintaining /\ Twins
  BY DEF PartInv
<1>3. /\ relation' \in [Tables -> {"absent", "attached", "alone"}]
      /\ stored' \in [Tables -> Nat] /\ flat' \in [canonicalPartitions -> Nat]
  BY <1>1, <1>2 DEF PartTypes
<1>4. PartTypes' /\ GoesOn /\ Plan' /\ Moved(vb, n)
  BY <1>1, <1>3, MovesOn
<1>5. script = "maintenance" /\ n = January
  BY <1>1, <1>4 DEF Moved, PartOf
<1> HIDE DEF n, vb
<1>6. /\ vb = "deleteFlat" => flat'[January] = 0 /\ \A m \in canonicalPartitions : m # January => flat'[m] = flat[m]
      /\ vb = "count" => flat' = flat
  BY <1>1, <1>2, <1>5, NamesDiffer DEF PartTypes
<1>7. Layout'
  BY <1>1, <1>2 DEF Layout
<1>8. Seeding' /\ SeedStuck' /\ Attaching' /\ Listing'
  BY <1>4, <1>5 DEF Seeding, SeedStuck, Attaching, Listing, Doing, GoesOn
<1>9. /\ Has("detach", January) => Has("drop", January)
      /\ Has("drop", January) => Has("deleteFlat", January)
      /\ ~Has("drop", January) => relation[January] = "absent"
      /\ ~Has("deleteFlat", January) => flat[January] = 0
  BY <1>2, <1>4, <1>5 DEF Maintaining, Doing, GoesOn
<1>10. vb = "deleteFlat" => Statement("drop", January) \notin ToSet(todo) /\ Statement("drop", January) \notin ToSet(todo')
  <2>1. StatementRank("deleteFlat", January) = 9 /\ StatementRank("drop", January) = 1
    BY StatementRanks, NamesDiffer
  <2> QED BY <1>4, <1>5, <2>1 DEF Moved
<1>11. Maintaining'
  BY <1>1, <1>4, <1>5, <1>6, <1>9, <1>10 DEF Maintaining, Has, Moved
<1>12. Twins'
  <2>1. script' = script /\ (clean' => clean)
    BY <1>4, <1>5 DEF GoesOn
  <2>2. CASE vb = "count"
    BY <1>1, <1>2, <1>4, <1>5, <1>6, <2>1, <2>2 DEF Twins, Has, Moved
  <2>3. CASE vb = "deleteFlat"
    <3>1. stored[January] = 0
      BY <1>2, <1>9, <1>10, <2>3, NamesOf, NamesDiffer DEF Layout, Has
    <3> QED BY <1>1, <1>2, <1>5, <1>6, <2>1, <2>3, <3>1 DEF Twins
  <2> QED BY <1>1, <2>2, <2>3
<1> QED
  BY <1>4, <1>7, <1>8, <1>11, <1>12 DEF PartInv

\* An insert that is expected to fail keeps it, whether it fails or not.
LEMMA ProbeKeeps == ASSUME PartInv, Probe PROVE PartInv'
<1> DEFINE n == It
           vb == Now
           p == Partition(n)
           rest == IF Routed(n) /\ vb = "probe" THEN <<>> ELSE Tail(todo)
<1>1. /\ result = "running" /\ Then(rest) /\ relation' = relation /\ flat' = flat /\ vb \in {"probe", "tolerate"}
      /\ (Routed(n) => stored' = [stored EXCEPT ![p] = @ + 1])
      /\ (~Routed(n) => stored' = stored)
  BY DEF Probe, Executing, Insert
<1>2. PartTypes /\ Layout /\ Plan /\ Attaching /\ Listing
  BY DEF PartInv
<1>3. todo # <<>> /\ Lists(todo, ToSet(todo)) /\ \A w \in Verbs, k \in Names : Has(w, k) => PartOf(script, w, k)
  BY <1>1, <1>2 DEF PartTypes, Plan
<1>4. n \in Names /\ Has(vb, n) /\ vb \in Verbs
  BY <1>3, HeadGone DEF It, Now, Has
<1>5. Routed(n) => /\ p \in Tables /\ relation[p] = "attached" /\ (n \in RangeTables => p = n)
                   /\ (n \notin Tables => p = Default)
  BY <1>4, RoutedIs
<1>6. \/ script = "attach" /\ vb = "probe" /\ n = "y2026m01"
      \/ script = "list" /\ vb = "tolerate" /\ n = "latam"
  BY <1>1, <1>3, <1>4 DEF PartOf
<1>7. /\ relation' \in [Tables -> {"absent", "attached", "alone"}]
      /\ stored' \in [Tables -> Nat] /\ flat' \in [canonicalPartitions -> Nat]
  <2>1. ASSUME NEW q \in Tables PROVE [stored EXCEPT ![q] = @ + 1] \in [Tables -> Nat]
    BY <1>2 DEF PartTypes
  <2> HIDE DEF p
  <2>2. stored' \in [Tables -> Nat]
    BY <1>1, <1>2, <1>5, <2>1 DEF PartTypes
  <2> QED BY <1>1, <1>2, <2>2 DEF PartTypes
<1> HIDE DEF n, vb, p
<1>8. Routed(n) => stored'[p] = stored[p] + 1 /\ \A t \in Tables : t # p => stored'[t] = stored[t]
  BY <1>1, <1>2, <1>5 DEF PartTypes
<1>9. Layout'
  BY <1>1, <1>2, <1>5, <1>6, <1>8, NamesOf, NamesDiffer DEF Layout
<1>10. CASE Routed(n) /\ vb = "probe"
  <2>1. Lists(<<>>, ToSet(<<>>)) /\ \A x : x \notin ToSet(<<>>)
    BY ListsOne DEF Lists
  <2>2. Then(<<>>)
    BY <1>1, <1>10
  <2>3. PartTypes' /\ GoesOn /\ Lists(todo', ToSet(todo')) /\ todo' = <<>>
    BY <1>1, <1>7, <2>1, <2>2, GoingOn
  <2>4. Plan'
    BY <2>1, <2>3 DEF Plan, Has
  <2>5. script = "attach" /\ n = "y2026m01" /\ p = "y2026m01" /\ relation["y2026m01"] = "attached"
    BY <1>5, <1>6, <1>10, NamesOf
  <2>6. Seeding' /\ SeedStuck' /\ Maintaining' /\ Listing'
    BY <2>3, <2>5 DEF Seeding, SeedStuck, Maintaining, Listing, Doing, GoesOn
  <2>7. stored'["y2026m01"] > 0
    BY <1>2, <1>8, <1>10, <2>5, NamesOf DEF PartTypes
  <2>8. Attaching'
    BY <1>1, <2>1, <2>3, <2>5, <2>7 DEF Attaching, Has
  <2>9. Twins'
    <3>1. script' = script /\ (clean' => clean) /\ Twins
      BY <2>3, <2>5 DEF GoesOn, PartInv
    <3>2. \A m \in canonicalPartitions : stored'[m] = stored[m]
      BY <1>8, <1>10, <2>5, NamesOf, NamesDiffer
    <3> QED BY <1>1, <2>5, <3>1, <3>2 DEF Twins
  <2> QED BY <1>9, <2>3, <2>4, <2>6, <2>8, <2>9 DEF PartInv
<1>11. CASE ~(Routed(n) /\ vb = "probe")
  <2>1. Then(Tail(todo))
    BY <1>1, <1>11
  <2>2. PartTypes' /\ GoesOn /\ Plan' /\ Moved(vb, n)
    BY <1>1, <1>7, <2>1, MovesOn DEF vb, n
  <2>3. Seeding' /\ SeedStuck' /\ Maintaining'
    BY <1>6, <2>2 DEF Seeding, SeedStuck, Maintaining, Doing, GoesOn
  <2>4. \A m \in canonicalPartitions : stored'[m] = stored[m]
    BY <1>1, <1>5, <1>6, <1>8, <1>11, NamesOf, NamesDiffer
  <2>5. Twins'
    <3>1. script' = script /\ (clean' => clean) /\ Twins /\ script \notin {"seed", "maintenance"}
      BY <1>6, <2>2 DEF GoesOn, PartInv
    <3> QED BY <1>1, <2>4, <3>1 DEF Twins
  <2>6. Attaching'
    <3> SUFFICES ASSUME script = "attach", vb = "probe", n = "y2026m01" PROVE Attaching'
      BY <1>6, <2>2 DEF Attaching, Doing, GoesOn
    <3>1. stored' = stored
      BY <1>1, <1>11
    <3> QED BY <1>1, <1>2, <2>2, <3>1 DEF Attaching, Doing, GoesOn, Has, Moved
  <2>7. Listing'
    <3> SUFFICES ASSUME script = "list", vb = "tolerate", n = "latam" PROVE Listing'
      BY <1>6, <2>2 DEF Listing, Doing, GoesOn
    <3>1. /\ \A w \in Verbs, k \in Names : Has(w, k) /\ w # "insert" => Has("create", Default)
          /\ \A w \in {"resetList", "detach", "drop", "truncateList"} : Has(w, Default) => Has("insertRegions", Default)
          /\ Has("create", Default) => Has("insert", "latam")
          /\ PlansOnce /\ RegionsFilled
      BY <1>2, <2>2 DEF Listing, Doing, GoesOn
    <3>2. PlansOnce'
      BY <2>2, <3>1 DEF PlansOnce, Has, Moved
    <3>3. \A r \in Regions : stored'[r] = stored[r]
      BY <1>1, <1>5, <1>8, NamesOf, NamesDiffer
    <3>4. RegionsFilled'
      BY <2>2, <3>1, <3>3 DEF RegionsFilled, Has, Moved
    <3>5. Statement("create", Default) \in ToSet(todo')
      BY <1>4, <2>2, <3>1 DEF Has, Moved
    <3> QED BY <2>2, <3>1, <3>2, <3>4, <3>5 DEF Listing, Has, Moved
  <2> QED BY <1>9, <2>2, <2>3, <2>5, <2>6, <2>7 DEF PartInv
<1> QED
  BY <1>10, <1>11

\* A statement that is refused, and a process that dies, keep it: the seed is
\* only ever refused a batch, over a month that stands alone.
LEMMA FailureKeeps == ASSUME PartInv, StatementFails \/ ProcessKilled PROVE PartInv'
<1>1. /\ result = "running" /\ todo' = <<>> /\ result' \in {"failed", "killed"} /\ clean' = FALSE /\ script' = script
      /\ relation' = relation /\ stored' = stored
      /\ (result' = "failed" => Refused(Now, It))
      /\ \/ flat' = flat
         \/ Now = "batch" /\ flat' = [flat EXCEPT ![It] = @ + 1]
  <2>1. CASE StatementFails
    <3>1. /\ result = "running" /\ todo' = <<>> /\ result' = "failed" /\ clean' = FALSE /\ script' = script
          /\ relation' = relation /\ stored' = stored /\ Refused(Now, It)
      BY <2>1 DEF StatementFails, ScriptThrows
    <3>2. flat' = flat \/ (Now = "batch" /\ flat' = [flat EXCEPT ![It] = @ + 1])
      BY <2>1, Zenon DEF StatementFails
    <3> QED BY <3>1, <3>2
  <2>2. CASE ProcessKilled
    BY <2>2 DEF ProcessKilled
  <2> QED BY <2>1, <2>2
<1>2. PartTypes /\ Layout /\ Plan /\ Seeding
  BY DEF PartInv
<1> DEFINE n == It
           vb == Now
<1>3. todo # <<>> /\ Lists(todo, ToSet(todo)) /\ \A w \in Verbs, k \in Names : Has(w, k) => PartOf(script, w, k)
  BY <1>1, <1>2 DEF PartTypes, Plan
<1>4. /\ n \in Names /\ Has(vb, n) /\ vb \in Verbs /\ PartOf(script, vb, n)
      /\ \A w, k : Statement(w, k) \in ToSet(todo) => StatementRank(vb, n) <= StatementRank(w, k)
  <2>1. /\ n \in Names /\ vb \in Verbs /\ Statement(vb, n) \in ToSet(todo)
        /\ \A w, k : Statement(w, k) \in ToSet(Tail(todo)) <=> Statement(w, k) \in ToSet(todo) /\ ~(w = vb /\ k = n)
        /\ \A w, k : Statement(w, k) \in ToSet(Tail(todo)) => StatementRank(vb, n) <= StatementRank(w, k)
    BY <1>3, HeadGone DEF It, Now
  <2>2. StatementRank(vb, n) \in Int
    BY DEF StatementRank
  <2> HIDE DEF n, vb
  <2> QED BY <1>3, <2>1, <2>2 DEF Has
<1>5. result' = "failed" => Refused(vb, n)
  BY <1>1
<1>6. flat' = flat \/ (vb = "batch" /\ flat' = [flat EXCEPT ![n] = @ + 1])
  BY <1>1
<1> HIDE DEF n, vb
<1>7. flat' \in [canonicalPartitions -> Nat]
  BY <1>2, <1>6 DEF PartTypes
<1>8. PartTypes'
  BY <1>1, <1>2, <1>7 DEF PartTypes
<1>9. Layout'
  BY <1>1, <1>2 DEF Layout
<1>10. Plan'
  BY <1>1, ListsOne DEF Plan, Has, Lists
<1>11. Seeding' /\ Maintaining' /\ Attaching' /\ Listing' /\ Twins'
  BY <1>1 DEF Seeding, Maintaining, Attaching, Listing, Twins, Doing
<1>12. SeedStuck'
  <2> SUFFICES ASSUME script = "seed", result' = "failed" PROVE \E m \in canonicalPartitions : relation[m] = "alone"
    BY <1>1 DEF SeedStuck
  <2>1. SeedExtras /\ MonthsSeeded
    BY <1>1, <1>2 DEF Seeding, Doing
  <2>2. vb \in {"detach", "drop", "batch"}
    BY <1>4, <1>5, RefusedIs DEF PartOf
  <2>3. CASE vb \in {"detach", "drop"}
    <3>1. n \in Extra \cup {Default}
      BY <1>4, <2>3 DEF PartOf
    <3> QED BY <1>4, <1>5, <2>1, <2>3, <3>1, RefusedIs DEF SeedExtras
  <2>4. CASE vb = "batch"
    <3>1. n \in canonicalPartitions /\ ~Routed(n)
      BY <1>4, <1>5, <2>4, RefusedIs DEF PartOf
    <3>2. relation[n] # "attached"
      BY <3>1, NamesOf DEF Routed, Partition, Attached
    <3>3. ~Has("ensure", n) /\ ~Has("reconcile", Default)
      <4>1. StatementRank("ensure", n) = 1 /\ StatementRank("reconcile", Default) = 0 /\ StatementRank(vb, n) = 11
        BY <2>4, StatementRanks
      <4> QED BY <1>4, <4>1 DEF Has
    <3>4. relation[n] # "absent"
      BY <2>1, <3>1, <3>3 DEF MonthsSeeded
    <3>5. relation[n] = "alone"
      BY <1>2, <3>1, <3>2, <3>4, NamesOf DEF PartTypes
    <3> QED BY <3>1, <3>5
  <2> QED BY <2>2, <2>3, <2>4
<1> QED
  BY <1>8, <1>9, <1>10, <1>11, <1>12 DEF PartInv

\* A script that starts has all its work before it.
LEMMA StartKeeps == ASSUME PartInv, StartScript PROVE PartInv'
<1>1. /\ result # "running" /\ result' = "running" /\ relation' = relation /\ stored' = stored /\ flat' = flat /\ clean' = clean
      /\ \/ script' = "seed" /\ todo' = Seed
         \/ script' = "maintenance" /\ todo' = PartitionMaintenance
         \/ script' = "attach" /\ todo' = AttachAndMissingPartition
         \/ script' = "list" /\ todo' = ListPartitioning
  BY DEF StartScript, Idle, PartitionScripts
<1>2. PartTypes /\ Layout /\ Twins
  BY DEF PartInv
<1>3. /\ Lists(todo', ToSet(todo'))
      /\ script' = "seed" => ToSet(todo') = SeedWork
      /\ script' = "maintenance" => ToSet(todo') = MaintenanceWork
      /\ script' = "attach" => ToSet(todo') = AttachWork
      /\ script' = "list" => ToSet(todo') = ListWork
      /\ script' \in {"seed", "maintenance", "attach", "list"}
  BY <1>1, ScriptsAreLists DEF Lists
<1>4. /\ script' = "seed" => \A vb, n : Statement(vb, n) \in ToSet(todo') <=>
            \/ vb \in {"reconcile", "resetList", "truncateFlat", "truncateRange"} /\ n = Default
            \/ vb = "batch" /\ n \in canonicalPartitions
      /\ script' = "maintenance" => \A vb, n : Statement(vb, n) \in ToSet(todo') <=>
            vb \in {"count", "detach", "drop", "deleteFlat"} /\ n = January
      /\ script' = "attach" => \A vb, n : Statement(vb, n) \in ToSet(todo') <=>
            \/ vb \in {"probe", "create", "insert"} /\ n = "y2026m01"
            \/ vb = "create" /\ n = "y2026m02"
      /\ script' = "list" => \A vb, n : Statement(vb, n) \in ToSet(todo') <=>
            \/ vb \in {"resetList", "insertRegions", "create"} /\ n = Default
            \/ vb \in {"tolerate", "insert"} /\ n = "latam"
  <2>1. \A vb, n : Statement(vb, n) \in SeedWork <=>
            \/ vb \in {"reconcile", "resetList", "truncateFlat", "truncateRange"} /\ n = Default
            \/ vb = "batch" /\ n \in canonicalPartitions
    BY StatementsDiffer DEF SeedWork, SeedStart
  <2>2. \A vb, n : Statement(vb, n) \in MaintenanceWork <=> vb \in {"count", "detach", "drop", "deleteFlat"} /\ n = January
    BY StatementsDiffer DEF MaintenanceWork
  <2>3. \A vb, n : Statement(vb, n) \in AttachWork <=>
            \/ vb \in {"probe", "create", "insert"} /\ n = "y2026m01"
            \/ vb = "create" /\ n = "y2026m02"
    BY StatementsDiffer DEF AttachWork
  <2>4. \A vb, n : Statement(vb, n) \in ListWork <=>
            \/ vb \in {"resetList", "insertRegions", "create"} /\ n = Default
            \/ vb \in {"tolerate", "insert"} /\ n = "latam"
    BY StatementsDiffer DEF ListWork
  <2> QED BY <1>3, <2>1, <2>2, <2>3, <2>4
<1>5. PartTypes'
  <2>1. todo' # <<>>
    <3>1. \E vb, n : Statement(vb, n) \in ToSet(todo')
      BY <1>3, <1>4
    <3>2. ToSet(<<>>) = {}
      BY ListsOne DEF Lists
    <3> QED BY <3>1, <3>2
  <2> QED BY <1>1, <1>2, <1>3, <2>1 DEF PartTypes
<1>6. Layout'
  BY <1>1, <1>2 DEF Layout
<1>7. Plan'
  <2>1. ASSUME NEW vb \in Verbs, NEW n \in Names, Statement(vb, n) \in ToSet(todo') PROVE PartOf(script', vb, n)
    BY <1>3, <1>4, <2>1 DEF PartOf
  <2> QED BY <1>3, <2>1 DEF Plan, Has
<1>8. Seeding'
  <2> SUFFICES ASSUME script' = "seed" PROVE SeedExtras' /\ PlansOnce' /\ BatchesLast' /\ RegionsEmptied' /\ MonthsSeeded'
    BY DEF Seeding, Doing
  <2>1. /\ SeedExtras' /\ PlansOnce'
    BY <1>4 DEF SeedExtras, PlansOnce, Has
  <2>2. BatchesLast' /\ RegionsEmptied'
    BY <1>4 DEF BatchesLast, RegionsEmptied, Has
  <2>3. MonthsSeeded'
    BY <1>4 DEF MonthsSeeded, Has
  <2> QED BY <2>1, <2>2, <2>3
<1>9. SeedStuck'
  BY <1>1 DEF SeedStuck
<1>10. Maintaining'
  BY <1>4 DEF Maintaining, Doing, Has
<1>11. Attaching'
  BY <1>4 DEF Attaching, Doing, Has
<1>12. Listing'
  <2> SUFFICES ASSUME script' = "list" PROVE Listing'
    BY DEF Listing, Doing
  <2>1. PlansOnce' /\ RegionsFilled'
    BY <1>4 DEF PlansOnce, RegionsFilled, Has
  <2> QED BY <1>4, <2>1 DEF Listing, Has
<1>13. Twins'
  <2> SUFFICES ASSUME clean' PROVE \A m \in canonicalPartitions : flat'[m] = stored'[m]
    BY DEF Twins
  <2>1. \A vb, n : ~Has(vb, n)
    <3>1. todo = <<>>
      BY <1>1, <1>2 DEF PartTypes
    <3> QED BY <3>1, ListsOne DEF Has, Lists
  <2> QED BY <1>1, <1>2, <2>1 DEF Twins
<1> QED
  BY <1>5, <1>6, <1>7, <1>8, <1>9, <1>10, <1>11, <1>12, <1>13 DEF PartInv

\* Planning a layout puts its statements before the rest of the list.
LEMMA PlanKeeps == ASSUME PartInv, PlanLayout PROVE PartInv'
<1> DEFINE planned == IF Now = "reconcile" THEN reconcileCanonicalPartitionLayout ELSE resetListDemoTable
           work == IF Now = "reconcile" THEN ReconcileWork ELSE ResetWork
           vb == Now
<1>1. /\ result = "running" /\ vb \in {"reconcile", "resetList"} /\ Then(planned \o Tail(todo))
      /\ relation' = relation /\ stored' = stored /\ flat' = flat
  BY DEF PlanLayout
<1>2. PartTypes /\ Layout /\ Plan /\ Seeding /\ Listing /\ Twins
  BY DEF PartInv
<1>3. todo # <<>> /\ Lists(todo, ToSet(todo)) /\ \A w \in Verbs, k \in Names : Has(w, k) => PartOf(script, w, k)
  BY <1>1, <1>2 DEF PartTypes, Plan
<1>4. It = Default /\ (\/ script = "seed"
                       \/ script = "list" /\ vb = "resetList")
  <2>1. It \in Names /\ Has(vb, It) /\ vb \in Verbs
    BY <1>3, HeadGone DEF It, Now, Has
  <2> QED BY <1>1, <1>3, <2>1 DEF PartOf
<1>5. /\ Lists(Tail(todo), ToSet(Tail(todo))) /\ Has(vb, Default)
      /\ \A w, k : Statement(w, k) \in ToSet(Tail(todo)) <=> Has(w, k) /\ ~(w = vb /\ k = Default)
      /\ \A w, k : Statement(w, k) \in ToSet(Tail(todo)) => StatementRank(vb, Default) <= StatementRank(w, k)
  <2>1. /\ Lists(Tail(todo), ToSet(Tail(todo))) /\ Statement(Now, It) \in ToSet(todo)
        /\ \A w, k : Statement(w, k) \in ToSet(Tail(todo)) <=> Statement(w, k) \in ToSet(todo) /\ ~(w = Now /\ k = It)
        /\ \A w, k : Statement(w, k) \in ToSet(Tail(todo)) => StatementRank(Now, It) <= StatementRank(w, k)
    BY <1>3, HeadGone DEF It, Now
  <2> QED BY <1>4, <2>1 DEF Has
<1>6. Lists(planned, work)
  BY <1>2, PlansAreLists DEF Layout, Attached
<1>7. /\ vb = "reconcile" => \A w, k : Statement(w, k) \in work <=>
            \/ w \in {"detach", "drop"} /\ k \in Extra /\ relation[k] = "attached"
            \/ w = "ensure" /\ k \in canonicalPartitions /\ relation[k] # "attached"
      /\ vb = "resetList" => \A w, k : Statement(w, k) \in work <=>
            \/ w \in {"detach", "drop"} /\ k = Default /\ relation[k] = "attached"
            \/ w = "truncateList" /\ k = Default
  <2>1. \A w, k : Statement(w, k) \in ReconcileWork <=>
            \/ w \in {"detach", "drop"} /\ k \in Extra /\ relation[k] = "attached"
            \/ w = "ensure" /\ k \in canonicalPartitions /\ relation[k] # "attached"
    BY StatementsDiffer DEF ReconcileWork, Detached, Attached
  <2>2. \A w, k : Statement(w, k) \in ResetWork <=>
            \/ w \in {"detach", "drop"} /\ k = Default /\ relation[k] = "attached"
            \/ w = "truncateList" /\ k = Default
    BY StatementsDiffer DEF ResetWork, Detached, Attached
  <2> QED BY <2>1, <2>2
<1> HIDE DEF planned, work, vb
<1>8. (SeedExtras /\ PlansOnce /\ BatchesLast /\ RegionsEmptied /\ MonthsSeeded) \/ script = "list"
  BY <1>1, <1>2, <1>4 DEF Seeding, Doing
<1>9. PlansOnce
  BY <1>1, <1>2, <1>8 DEF Listing, Doing
<1>11. ASSUME NEW a \in work, NEW b \in ToSet(Tail(todo)) PROVE Prior(a, b)
  <2>1. PICK w \in Verbs, k \in Names : a = Statement(w, k)
    <3>1. a \in Stmts
      BY <1>6 DEF Lists, ToSet
    <3> QED BY <3>1, StatementsDiffer
  <2>2. PICK x \in Verbs, y \in Names : b = Statement(x, y)
    <3>1. b \in Stmts
      BY <1>5 DEF Lists, ToSet
    <3> QED BY <3>1, StatementsDiffer
  <2>3. Has(x, y) /\ ~(x = vb /\ y = Default) /\ PartOf(script, x, y) /\ StatementRank(vb, Default) <= StatementRank(x, y)
    BY <1>3, <1>5, <1>11, <2>2
  <2>0. StatementRank(w, k) \in Int /\ StatementRank(x, y) \in Int
    BY DEF StatementRank
  <2>4. CASE vb = "reconcile"
    <3>1. StatementRank(w, k) = 1 /\ w \in {"detach", "drop", "ensure"}
      BY <1>7, <1>11, <2>1, <2>4, StatementRanks, NamesDiffer
    <3>2. x \notin {"detach", "drop", "ensure", "truncateList"} /\ script = "seed"
      BY <1>4, <1>5, <1>9, <2>3, <2>4 DEF PlansOnce
    <3>3. StatementRank(x, y) >= 2
      BY <2>3, <2>4, <3>2, StatementRanks DEF PartOf
    <3>4. Precedes(w, k, x, y)
      BY <2>0, <3>1, <3>2, <3>3 DEF Precedes
    <3> QED BY <2>1, <2>2, <3>4, PriorIs
  <2>5. CASE vb = "resetList"
    <3>1. StatementRank(w, k) <= 4 /\ w \in {"detach", "drop", "truncateList"} /\ k = Default
      BY <1>7, <1>11, <2>1, <2>5, StatementRanks
    <3>2. /\ ~(x \in {"detach", "drop", "truncateList"} /\ y = Default)
          /\ StatementRank(x, y) >= 2
      BY <1>5, <1>9, <2>3, <2>5, StatementRanks DEF PlansOnce
    <3>3. StatementRank(x, y) >= 4
      <4>1. CASE script = "seed"
        <5>1. \/ x \in {"truncateFlat", "truncateRange", "batch"}
              \/ x \in {"reconcile", "ensure"}
              \/ x \in {"detach", "drop"} /\ y # Default
          BY <2>3, <2>5, <3>2, <4>1, NamesDiffer DEF PartOf
        <5>2. /\ x \in {"truncateFlat", "truncateRange", "batch"} => StatementRank(x, y) >= 9
              /\ x \in {"reconcile", "ensure"} => StatementRank(x, y) < 2
              /\ x \in {"detach", "drop"} /\ y # Default => StatementRank(x, y) < 2
          BY StatementRanks
        <5> QED BY <2>0, <3>2, <5>1, <5>2
      <4>2. CASE script = "list"
        BY <2>3, <2>5, <3>2, <4>2, StatementRanks DEF PartOf
      <4> QED BY <1>4, <4>1, <4>2
    <3>4. Precedes(w, k, x, y)
      BY <2>0, <3>1, <3>2, <3>3 DEF Precedes
    <3> QED BY <2>1, <2>2, <3>4, PriorIs
  <2> QED BY <1>1, <2>4, <2>5
<1>12. Lists(planned \o Tail(todo), work \cup ToSet(Tail(todo)))
  BY <1>5, <1>6, <1>11, ListsJoin
<1>13. PartTypes' /\ GoesOn /\ Lists(todo', ToSet(todo')) /\ todo' = planned \o Tail(todo)
  <2>1. /\ relation' \in [Tables -> {"absent", "attached", "alone"}]
        /\ stored' \in [Tables -> Nat] /\ flat' \in [canonicalPartitions -> Nat]
    BY <1>1, <1>2 DEF PartTypes
  <2>2. Lists(planned \o Tail(todo), ToSet(planned \o Tail(todo)))
    BY <1>12 DEF Lists
  <2> QED BY <1>1, <2>1, <2>2, GoingOn
<1>14. \A w, k : Statement(w, k) \in ToSet(todo') <=> Statement(w, k) \in work \/ (Has(w, k) /\ ~(w = vb /\ k = Default))
  <2>1. ToSet(todo') = work \cup ToSet(Tail(todo))
    BY <1>12, <1>13 DEF Lists
  <2> QED BY <1>5, <2>1
<1>15. Layout'
  BY <1>1, <1>2 DEF Layout
<1>16. Plan'
  <2>1. ASSUME NEW w \in Verbs, NEW k \in Names, Statement(w, k) \in ToSet(todo') PROVE PartOf(script, w, k)
    BY <1>1, <1>3, <1>4, <1>7, <1>14, <2>1 DEF PartOf
  <2> QED BY <1>13, <2>1 DEF Plan, Has, GoesOn
<1>17. PlansOnce'
  <2>1. CASE vb = "reconcile"
    <3>1. Statement("reconcile", Default) \notin ToSet(todo')
      BY <1>7, <1>14, <2>1
    <3>2. Statement("resetList", Default) \in ToSet(todo') => Has("resetList", Default)
      BY <1>7, <1>14, <2>1
    <3>3. ASSUME NEW w \in {"detach", "drop", "truncateList"}, Statement(w, Default) \in ToSet(todo') PROVE Has(w, Default)
      BY <1>7, <1>14, <2>1, <3>3, NamesDiffer
    <3> QED BY <1>9, <3>1, <3>2, <3>3 DEF PlansOnce, Has
  <2>2. CASE vb = "resetList"
    <3>1. Statement("reconcile", Default) \notin ToSet(Tail(todo))
      <4>1. StatementRank("reconcile", Default) = 0 /\ StatementRank("resetList", Default) = 2
        BY StatementRanks
      <4> QED BY <1>5, <2>2, <4>1
    <3>2. Statement("reconcile", Default) \notin ToSet(todo') /\ Statement("resetList", Default) \notin ToSet(todo')
      BY <1>5, <1>7, <1>14, <2>2, <3>1
    <3> QED BY <3>2 DEF PlansOnce, Has
  <2> QED BY <1>1, <2>1, <2>2
<1>18. Seeding'
  <2> SUFFICES ASSUME script = "seed" PROVE SeedExtras' /\ BatchesLast' /\ RegionsEmptied' /\ MonthsSeeded'
    BY <1>13, <1>17 DEF Seeding, Doing, GoesOn
  <2>1. SeedExtras /\ BatchesLast /\ RegionsEmptied /\ MonthsSeeded
    BY <1>8
  <2>2. SeedExtras'
    BY <1>1, <1>5, <1>7, <1>9, <1>14, <2>1, NamesOf, NamesDiffer DEF SeedExtras, PlansOnce, Has
  <2>3. BatchesLast'
    <3>1. Has("truncateRange", Default)
      BY <1>1, <1>5, <2>1, NamesOf DEF BatchesLast, Verbs
    <3> QED BY <1>1, <1>14, <3>1 DEF BatchesLast, Has
  <2>4. RegionsEmptied'
    BY <1>1, <1>7, <1>14, <2>1 DEF RegionsEmptied, Has
  <2>5. MonthsSeeded'
    BY <1>1, <1>5, <1>7, <1>14, <2>1 DEF MonthsSeeded, Has
  <2> QED BY <2>2, <2>3, <2>4, <2>5
<1>19. SeedStuck' /\ Maintaining' /\ Attaching'
  BY <1>4, <1>13 DEF SeedStuck, Maintaining, Attaching, Doing, GoesOn
<1>20. Listing'
  <2> SUFFICES ASSUME script = "list", vb = "resetList" PROVE Listing'
    BY <1>4, <1>13 DEF Listing, Doing, GoesOn
  <2>1. /\ \A w \in Verbs, k \in Names : Has(w, k) /\ w # "insert" => Has("create", Default)
        /\ \A w \in {"resetList", "detach", "drop", "truncateList"} : Has(w, Default) => Has("insertRegions", Default)
        /\ Has("create", Default) => Has("insert", "latam")
        /\ RegionsFilled
    BY <1>1, <1>2 DEF Listing, Doing
  <2>2. /\ Statement("create", Default) \in ToSet(todo') /\ Statement("insertRegions", Default) \in ToSet(todo')
        /\ Statement("insert", "latam") \in ToSet(todo') /\ Statement("truncateList", Default) \in ToSet(todo')
    BY <1>5, <1>7, <1>14, <2>1, NamesOf DEF Verbs
  <2>3. RegionsFilled'
    BY <2>2 DEF RegionsFilled, Has
  <2> QED BY <1>17, <2>2, <2>3 DEF Listing, Has
<1>21. Twins'
  <2>1. CASE script = "seed"
    BY <1>13, <1>18, <2>1, TwinsOfSeed
  <2>2. CASE script = "list"
    <3>1. script' = script /\ (clean' => clean)
      BY <1>13, <2>2 DEF GoesOn
    <3> QED BY <1>1, <1>2, <2>2, <3>1 DEF Twins
  <2> QED BY <1>4, <2>1, <2>2
<1> QED
  BY <1>13, <1>15, <1>16, <1>18, <1>19, <1>20, <1>21 DEF PartInv

\* The layout before anything has run.
LEMMA PartBegins == PartInit => PartInv
<1> SUFFICES ASSUME PartInit PROVE PartInv
  OBVIOUS
<1>1. /\ relation = [n \in Tables |-> IF n \in canonicalPartitions \cup Regions THEN "attached" ELSE "absent"]
      /\ stored = [n \in Tables |-> 0] /\ flat = [m \in canonicalPartitions |-> 0]
      /\ script = "none" /\ todo = <<>> /\ result = "none" /\ clean = FALSE
  BY DEF PartInit
<1>2. PartTypes
  BY <1>1 DEF PartTypes
<1>3. Layout
  BY <1>1, NamesOf DEF Layout
<1>4. Plan
  BY <1>1, ListsOne DEF Plan, Has, Lists
<1>5. Seeding /\ SeedStuck /\ Maintaining /\ Attaching /\ Listing /\ Twins
  BY <1>1 DEF Seeding, SeedStuck, Maintaining, Attaching, Listing, Twins, Doing
<1> QED
  BY <1>2, <1>3, <1>4, <1>5 DEF PartInv

\* Every step of the operator's scripts keeps the invariant.
LEMMA PartStep == PartInv /\ [PartNext]_partVars => PartInv'
<1> SUFFICES ASSUME PartInv, [PartNext]_partVars PROVE PartInv'
  OBVIOUS
<1>1. CASE StartScript
  BY <1>1, StartKeeps
<1>2. CASE PlanLayout
  BY <1>2, PlanKeeps
<1>3. CASE Detach \/ Drop \/ CreatePartition
  BY <1>3, DetachKeeps, DropKeeps, CreateKeeps
<1>4. CASE Truncate \/ InsertRows \/ InsertBatch
  BY <1>4, TruncateKeeps, InsertKeeps, BatchKeeps
<1>5. CASE CountPartition \/ DeleteFlat \/ Probe
  BY <1>5, PurgeKeeps, ProbeKeeps
<1>6. CASE StatementFails \/ ProcessKilled
  BY <1>6, FailureKeeps
<1>7. CASE UNCHANGED partVars
  <2>1. /\ relation' = relation /\ stored' = stored /\ flat' = flat /\ script' = script /\ todo' = todo
        /\ result' = result /\ clean' = clean
    BY <1>7 DEF partVars
  <2>2. PartTypes' /\ Layout' /\ Plan'
    BY <2>1 DEF PartInv, PartTypes, Layout, Plan, Has
  <2>3. Seeding' /\ SeedStuck'
    BY <2>1 DEF PartInv, Seeding, SeedStuck, SeedExtras, PlansOnce, BatchesLast, RegionsEmptied, MonthsSeeded, Doing, Has
  <2>4. Maintaining' /\ Attaching' /\ Twins'
    BY <2>1 DEF PartInv, Maintaining, Attaching, Twins, Doing, Has
  <2>5. Listing'
    BY <2>1 DEF PartInv, Listing, PlansOnce, RegionsFilled, Doing, Has
  <2> QED BY <2>2, <2>3, <2>4, <2>5 DEF PartInv
<1> QED
  BY <1>1, <1>2, <1>3, <1>4, <1>5, <1>6, <1>7 DEF PartNext, RunStatement

\* The invariant gives the property.
LEMMA PartSafe == PartInv => LayoutIsRestored
<1> SUFFICES ASSUME PartInv PROVE LayoutIsRestored
  OBVIOUS
<1>1. PartTypes /\ Layout /\ Seeding /\ SeedStuck /\ Maintaining /\ Attaching /\ Listing /\ Twins
  BY DEF PartInv
<1>2. result # "running" => \A vb, n : ~Has(vb, n)
  <2> SUFFICES ASSUME result # "running" PROVE \A vb, n : ~Has(vb, n)
    OBVIOUS
  <2>1. todo = <<>>
    BY <1>1 DEF PartTypes
  <2> QED BY <2>1, ListsOne DEF Has, Lists
<1>3. ASSUME Ran("seed", "ok")
      PROVE  /\ listExistingPartitions(Tables) = canonicalPartitions \cup Regions
             /\ \A n \in canonicalPartitions : stored[n] = 1 /\ flat[n] = 1
             /\ \A n \in Regions : stored[n] = 0
  <2>1. SeedExtras /\ RegionsEmptied /\ MonthsSeeded
    BY <1>1, <1>3 DEF Seeding, Doing, Ran
  <2>2. \A vb, n : ~Has(vb, n)
    BY <1>2, <1>3 DEF Ran
  <2>3. \A n \in canonicalPartitions : relation[n] = "attached" /\ stored[n] = 1 /\ flat[n] = 1
    BY <2>1, <2>2 DEF MonthsSeeded
  <2>4. \A n \in Regions : relation[n] = "attached" /\ stored[n] = 0
    BY <1>1, <2>1, <2>2 DEF RegionsEmptied, Layout
  <2>5. \A n \in Extra \cup {Default} : relation[n] # "attached"
    BY <2>1, <2>2 DEF SeedExtras
  <2>6. listExistingPartitions(Tables) = canonicalPartitions \cup Regions
    BY <2>3, <2>4, <2>5, NamesOf DEF listExistingPartitions, Attached, Tables
  <2> QED BY <2>3, <2>4, <2>6
<1>4. ASSUME clean, Idle PROVE \A m \in canonicalPartitions : flat[m] = stored[m]
  BY <1>1, <1>2, <1>4 DEF Twins, Idle
<1>5. ASSUME Ran("seed", "failed") PROVE Orphans \cap canonicalPartitions # {}
  BY <1>1, <1>5, NamesOf DEF SeedStuck, Ran, Orphans
<1>6. ASSUME Ran("maintenance", "ok") PROVE ~Present(January) /\ flat[January] = 0
  BY <1>1, <1>2, <1>6 DEF Maintaining, Doing, Ran, Present
<1>7. ASSUME Ran("attach", "ok") PROVE Attached("y2026m01") /\ stored["y2026m01"] > 0
  BY <1>1, <1>2, <1>7 DEF Attaching, Doing, Ran, Attached
<1>8. ASSUME Ran("list", "ok") PROVE stored[Default] = 1 /\ \A n \in Regions : stored[n] = 1
  BY <1>1, <1>2, <1>8 DEF Listing, RegionsFilled, Doing, Ran
<1> QED
  BY <1>3, <1>4, <1>5, <1>6, <1>7, <1>8 DEF LayoutIsRestored

\* Lab 35: whatever scripts run, fail or die, a seed that completes leaves the
\* canonical layout and two equal tables, the scenarios keep the twins equal
\* until one of them fails or dies, a seed fails only over a month that was left
\* detached, and each scenario that ends well has done what it shows.
THEOREM LayoutStaysRestored == PartSpec => []LayoutIsRestored
<1>1. PartInit => PartInv
  BY PartBegins
<1>2. PartInv /\ [PartNext]_partVars => PartInv'
  BY PartStep
<1>3. PartInv => LayoutIsRestored
  BY PartSafe
<1> QED
  BY <1>1, <1>2, <1>3, PTL DEF PartSpec
=============================================================================
