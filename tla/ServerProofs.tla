---------------------------- MODULE ServerProofs ----------------------------
(***************************************************************************)
(* The server the scripts talk to, for every script, and what its dead     *)
(* versions add up to.                                                     *)
(*                                                                         *)
(* Sessions.  Locks that are granted do not exclude each other, and what   *)
(* is written and not committed is locked (IsolationInv), so a row has one *)
(* writer and whoever has locked it is alone with it.  A transaction with  *)
(* a snapshot writes only what nobody has committed since.                 *)
(*                                                                         *)
(* The order of locks.  A plan says which rows a session may hold at each  *)
(* step of its script (LocksInOrder); it is kept (PlanKept) because only   *)
(* its own thread touches a session's locks (OthersKeep, OwnWays).  Then   *)
(* whoever waits holds only rows that come before the one it waits for,    *)
(* and every wait leads up in that order or forward in the queue.          *)
(*                                                                         *)
(* What a step does to the rows.  Each session's own step is one of a few  *)
(* moves (RowStep): its writes stay, grow by one row, go, or become the    *)
(* rows.  The sections that follow each take one property of the rows from *)
(* what such a move can do.                                                *)
(*                                                                         *)
(* Money.  The rows and what a transaction has added to them are two       *)
(* numbers that its plan knows (MoneyInv): what it has moved is missing in *)
(* the rows until it commits, and nothing is missing then.                 *)
(*                                                                         *)
(* Rows that come together.  A transaction that has written one row of a   *)
(* pair is on its way to the other (PairInv), and cannot commit before.    *)
(*                                                                         *)
(* Leaving a team.  SERIALIZABLE is what keeps somebody on call.  A        *)
(* transaction whose snapshot is out of date has read the whole team, so   *)
(* whoever has written one of its rows since, having read it too, makes it *)
(* a pivot (LeavingInv): it cannot commit.                                 *)
(*                                                                         *)
(* The scripts.  The plans of the labs' remedies fit their code, and all   *)
(* that count others do it at SERIALIZABLE: what is left is to add up the  *)
(* theorems for each script (RemediesHold).                                *)
(*                                                                         *)
(* Vacuum.  The invariant follows the script statement by statement:       *)
(* how many versions are dead, how many of them the probers of one window  *)
(* have written (WindowWrites, a sum over the probers), and what was read. *)
(***************************************************************************)
EXTENDS MCScripts, Vacuum, Sums, FiniteSetTheorems, SequenceTheorems

-----------------------------------------------------------------------------
(* Sessions. *)

Writes == UNION {[D -> Int] : D \in SUBSET Rows}
Snapshots == [val : [Rows -> Int], ver : [Rows -> Nat], at : Nat]
Transactions == [open : BOOLEAN, failed : BOOLEAN, level : {"RC", "RR", "SER"},
                 snap : {<<>>} \cup {<<x>> : x \in Snapshots}, own : Writes, reads : SUBSET Rows]

LocksTypeOK(L) == IsFiniteSet(L) /\ \A l \in L : l.s \in Sessions

\* What the variables hold.
SessionTypeOK ==
    /\ script \in DOMAIN Scripts /\ program = Scripts[script]
    /\ val \in [Rows -> Int] /\ ver \in [Rows -> Nat]
    /\ tx \in [Sessions -> Transactions]
    /\ LocksTypeOK(locks)
    /\ past \in Seq([reads : SUBSET Rows, writes : SUBSET Rows])
    /\ pc \in [Threads -> Int] /\ err \in [Threads -> Int] /\ reg \in [Regs -> Int]

\* The statement a running thread is at is written as statements are (IsStatement).
LEMMA StatementAtHand ==
    ASSUME SessionTypeOK, NEW t \in Threads, Running(t)
    PROVE  IsStatement(Cur(t))
  BY ScriptsAreStatements DEF SessionTypeOK, Running, Cur, Code

\* Locks that are left when others are released are still finitely many.
LEMMA FewerLocks == ASSUME NEW L, LocksTypeOK(L), NEW M, M \subseteq L PROVE LocksTypeOK(M)
  BY FS_Subset DEF LocksTypeOK

\* Every thread's code is a finite list of steps.
LEMMA CodesAreLists == ASSUME SessionTypeOK, NEW t \in Threads PROVE Len(Code(t)) \in Nat
  BY ScriptsAreStatements DEF SessionTypeOK, Code

\* A transaction that has written nothing.
LEMMA NoWrites == <<>> \in Writes /\ DOMAIN <<>> = {}
<1>1. DOMAIN <<>> = {}
  OBVIOUS
<1>2. <<>> \in [{} -> Int]
  OBVIOUS
<1> QED BY <1>1, <1>2 DEF Writes

\* What a transaction has written are numbers, in rows there are.
LEMMA WritesAre == ASSUME NEW own \in Writes PROVE DOMAIN own \subseteq Rows /\ \A r \in DOMAIN own : own[r] \in Int
  BY DEF Writes

\* One more row written, by add, set, setif or insert.
LEMMA WithRowIs ==
    ASSUME NEW own \in Writes, NEW r \in Rows, NEW v \in Int
    PROVE  /\ WithRow(own, r, v) \in Writes
           /\ DOMAIN WithRow(own, r, v) = DOMAIN own \cup {r}
<1>1. DOMAIN own \subseteq Rows /\ \A q \in DOMAIN own : own[q] \in Int
  BY WritesAre
<1>2. WithRow(own, r, v) \in [DOMAIN own \cup {r} -> Int]
  BY <1>1 DEF WithRow
<1>3. DOMAIN own \cup {r} \in SUBSET Rows
  BY <1>1
<1> QED BY <1>2, <1>3 DEF Writes, WithRow

\* A commit writes the rows of the transaction and leaves the others.
LEMMA OverIs ==
    ASSUME NEW own \in Writes, NEW v \in [Rows -> Int]
    PROVE  Over(own, v) \in [Rows -> Int] /\ \A r \in Rows \ DOMAIN own : Over(own, v)[r] = v[r]
  BY WritesAre DEF Over

\* A session without a transaction has written nothing and has no snapshot.
LEMMA NoTransaction == NoTx \in Transactions /\ ~NoTx.open /\ ~NoTx.failed /\ NoTx.own = <<>> /\ NoTx.snap = <<>>
  BY NoWrites DEF NoTx, Transactions

\* Taking the snapshot (WithSnapshot) changes nothing else of the transaction.
LEMMA Snapshotted ==
    ASSUME SessionTypeOK, NEW v \in Transactions
    PROVE  /\ WithSnapshot(v) \in Transactions
           /\ WithSnapshot(v).own = v.own /\ WithSnapshot(v).open = v.open
           /\ WithSnapshot(v).failed = v.failed /\ WithSnapshot(v).level = v.level
           /\ \/ WithSnapshot(v).snap = v.snap
              \/ WithSnapshot(v).snap # <<>> /\ WithSnapshot(v).snap[1].ver = ver
           /\ WithSnapshot(v).reads = v.reads
<1> DEFINE x == [val |-> val, ver |-> ver, at |-> Len(past)]
<1>1. x \in Snapshots /\ x.ver = ver
  BY DEF SessionTypeOK, Snapshots
<1> HIDE DEF x
<1>2. <<x>> \in {<<>>} \cup {<<y>> : y \in Snapshots} /\ <<x>>[1] = x
  BY <1>1
<1> DEFINE w == [v EXCEPT !.snap = <<x>>]
<1>3. WithSnapshot(v) = IF v.level = "RC" \/ v.snap # <<>> THEN v ELSE w
  BY DEF WithSnapshot, x
<1>4. w \in Transactions /\ w.own = v.own /\ w.open = v.open /\ w.failed = v.failed /\ w.level = v.level
      /\ w.reads = v.reads /\ w.snap = <<x>>
  BY <1>2 DEF Transactions
<1> QED BY <1>1, <1>2, <1>3, <1>4

\* No two sessions hold a row in modes that exclude each other.
LocksAgree == \A l, m \in locks : l.row = m.row /\ l.s # m.s => <<l.mode, m.mode>> \notin Conflicts
\* Only a lock of the session outlives its transaction.
LocksEnd == \A l \in locks : l.mode # "session" => tx[l.s].open
\* What is written and not committed is locked.
WritersLock ==
    \A s \in Sessions : \A r \in DOMAIN tx[s].own :
        \E l \in locks : l.s = s /\ l.row = r /\ l.mode \in {"nokey", "update"}
ClosedIsEmpty == \A s \in Sessions : ~tx[s].open => tx[s].own = <<>> /\ tx[s].snap = <<>>
\* Nobody has committed a row since the snapshot of the transaction that wrote it.
WritesAreFresh ==
    \A s \in Sessions : tx[s].snap # <<>> => \A r \in DOMAIN tx[s].own : ver[r] = tx[s].snap[1].ver[r]

IsolationInv == SessionTypeOK /\ LocksAgree /\ LocksEnd /\ WritersLock /\ ClosedIsEmpty /\ WritesAreFresh

\* Conflicts are symmetric, and who writes a row excludes who shares, writes or updates it.
LEMMA ConflictsAre ==
    /\ \A a, b : <<a, b>> \in Conflicts => <<b, a>> \in Conflicts
    /\ \A a \in {"nokey", "update"} : \A b \in {"share", "nokey", "update"} :
           <<a, b>> \in Conflicts /\ <<b, a>> \in Conflicts
<1> DEFINE half == {<<"keyshare", "update">>, <<"share", "nokey">>, <<"share", "update">>,
                 <<"nokey", "nokey">>, <<"nokey", "update">>, <<"update", "update">>,
                 <<"session", "session">>, <<"session", "xact">>, <<"xact", "xact">>,
                 <<"table_rowexclusive", "table_share">>,
                 <<"table_rowexclusive", "table_accessexclusive">>,
                 <<"table_share", "table_accessexclusive">>,
                 <<"table_accessexclusive", "table_accessexclusive">>}
<1>1. Conflicts = half \cup {<<p[2], p[1]>> : p \in half}
  BY DEF Conflicts
<1>2. \A p \in half : p = <<p[1], p[2]>>
  OBVIOUS
<1>3. \A a \in {"nokey", "update"} : \A b \in {"share", "nokey", "update"} :
          <<a, b>> \in half \/ <<b, a>> \in half
  OBVIOUS
<1> HIDE DEF half
<1>4. ASSUME NEW a, NEW b, <<a, b>> \in Conflicts PROVE <<b, a>> \in Conflicts
  <2>1. CASE <<a, b>> \in half
    <3>1. <<a, b>>[1] = a /\ <<a, b>>[2] = b
      OBVIOUS
    <3> QED BY <1>1, <2>1, <3>1
  <2>2. CASE \E p \in half : <<a, b>> = <<p[2], p[1]>>
    <3>1. PICK p \in half : <<a, b>> = <<p[2], p[1]>>
      BY <2>2
    <3>2. p[1] = b /\ p[2] = a
      BY <3>1
    <3> QED BY <1>1, <1>2, <3>1, <3>2
  <2> QED BY <1>1, <1>4, <2>1, <2>2
<1>5. \A a \in {"nokey", "update"} : \A b \in {"share", "nokey", "update"} :
          <<a, b>> \in Conflicts
  BY <1>1, <1>3, <1>4
<1> QED BY <1>4, <1>5

\* A statement nobody blocks finds no lock in its way.
LEMMA NothingInTheWay ==
    ASSUME NEW t \in Threads, Blockers(t) = {}, NEW l \in locks,
           l.row = Cur(t).row, l.s # Cur(t).s
    PROVE  <<l.mode, Cur(t).mode>> \notin Conflicts
<1> SUFFICES ASSUME <<l.mode, Cur(t).mode>> \in Conflicts PROVE FALSE
  OBVIOUS
<1>1. l.s \in Blockers(t)
  BY DEF Blockers
<1> QED BY <1>1

\* What a statement that returns may have done: nothing, or written its row.
Effect(t, res, own) ==
    \/ own = tx[Cur(t).s].own
    \/ /\ Cur(t).op \in {"add", "set", "setif", "insert"} /\ Blockers(t) = {} /\ res = 1
       /\ ~StaleWrite(Cur(t).s, Cur(t).row)
       /\ \E v \in Int : own = WithRow(tx[Cur(t).s].own, Cur(t).row, v)
\* The locks it takes: none, or one that was free.
Takes(t, res) == ~(Cur(t).mode = "-" \/ (Cur(t).op \in {"setif", "insert"} /\ res = 0))
Took(t, res) == IF Takes(t, res) THEN {[row |-> Cur(t).row, mode |-> Cur(t).mode, s |-> Cur(t).s]} ELSE {}
Noted(t, own, reads) ==
    [WithSnapshot(tx[Cur(t).s]) EXCEPT !.own = own, !.reads = WithSnapshot(tx[Cur(t).s]).reads \cup reads]

\* A statement in a transaction.
LEMMA ReturnInside ==
    ASSUME NEW t, NEW res, NEW own, NEW reads, Return(t, res, own, reads), tx[Cur(t).s].open
    PROVE  /\ tx' = [tx EXCEPT ![Cur(t).s] = Noted(t, own, reads)]
           /\ locks' = locks \cup Took(t, res)
           /\ UNCHANGED <<val, ver>>
  BY DEF Return, Took, Takes, Noted

\* A statement of its own.
LEMMA ReturnAlone ==
    ASSUME NEW t, NEW res, NEW own, NEW reads, Return(t, res, own, reads), ~tx[Cur(t).s].open
    PROVE  /\ val' = Over(own, val)
           /\ ver' = [r \in Rows |-> ver[r] + (IF r \in DOMAIN own THEN 1 ELSE 0)]
           /\ locks' = locks \cup {l \in Took(t, res) : l.mode = "session"}
           /\ UNCHANGED tx
  BY DEF Return, Took, Takes

\* What a statement that returns does in either case.
LEMMA ReturnElse ==
    ASSUME NEW t, NEW res, NEW own, NEW reads, Return(t, res, own, reads)
    PROVE  /\ reg' = IF Cur(t).into \in Regs THEN [reg EXCEPT ![Cur(t).into] = res] ELSE reg
           /\ pc' = [pc EXCEPT ![t] = pc[t] + 1] /\ queue' = Dequeued(t)
           /\ err' = [err EXCEPT ![t] = 0]
           /\ UNCHANGED <<script, program, past, onTime>>
           /\ locks \subseteq locks' /\ locks' \subseteq locks \cup Took(t, res)
  BY DEF Return, Took, Takes, Go, Assign

\* A statement that returns leaves the variables what they are.
LEMMA ReturnKeepsTypes ==
    ASSUME SessionTypeOK, NEW t \in Threads, Running(t), NEW res \in Int, NEW own \in Writes,
           NEW reads \in SUBSET Rows, Return(t, res, own, reads)
    PROVE  SessionTypeOK'
<1> DEFINE s == Cur(t).s
           now == Noted(t, own, reads)
<1>1. s \in Sessions /\ Cur(t).into \in Regs \cup Threads \cup {"-"}
  BY StatementAtHand DEF IsStatement
<1>2. now \in Transactions
  <2>1. WithSnapshot(tx[s]) \in Transactions
    BY <1>1, Snapshotted DEF SessionTypeOK
  <2> QED BY <2>1 DEF Transactions, Noted
<1>3. tx' \in [Sessions -> Transactions]
  <2> HIDE DEF now
  <2>1. CASE tx[s].open
    <3>1. tx' = [tx EXCEPT ![s] = now]
      BY <2>1, ReturnInside DEF now
    <3> QED BY <1>1, <1>2, <3>1 DEF SessionTypeOK
  <2>2. CASE ~tx[s].open
    BY <2>2, ReturnAlone DEF SessionTypeOK
  <2> QED BY <2>1, <2>2
<1>4. val' \in [Rows -> Int] /\ ver' \in [Rows -> Nat]
  <2>1. CASE tx[s].open
    BY <2>1, ReturnInside DEF SessionTypeOK
  <2>2. CASE ~tx[s].open
    <3>1. val' = Over(own, val)
          /\ ver' = [r \in Rows |-> ver[r] + (IF r \in DOMAIN own THEN 1 ELSE 0)]
      BY <2>2, ReturnAlone
    <3>2. val' \in [Rows -> Int]
      BY <3>1, OverIs DEF SessionTypeOK
    <3> QED BY <3>1, <3>2 DEF SessionTypeOK
  <2> QED BY <2>1, <2>2
<1>5. LocksTypeOK(locks')
  <2>1. locks' \subseteq locks \cup Took(t, res)
    BY ReturnElse
  <2>2. \A l \in Took(t, res) : l.s = s
    BY DEF Took
  <2>3. IsFiniteSet(Took(t, res))
    BY FS_EmptySet, FS_Singleton DEF Took
  <2>4. IsFiniteSet(locks) /\ \A l \in locks : l.s \in Sessions
    BY DEF SessionTypeOK, LocksTypeOK
  <2>5. IsFiniteSet(locks \cup Took(t, res))
    BY <2>3, <2>4, FS_Union
  <2>6. LocksTypeOK(locks \cup Took(t, res))
    BY <1>1, <2>2, <2>4, <2>5 DEF LocksTypeOK
  <2> QED BY <2>1, <2>6, FewerLocks
<1>6. reg' \in [Regs -> Int] /\ pc' \in [Threads -> Int] /\ err' \in [Threads -> Int]
  <2>1. reg' \in [Regs -> Int]
    <3>1. reg' = IF Cur(t).into \in Regs THEN [reg EXCEPT ![Cur(t).into] = res] ELSE reg
      BY ReturnElse
    <3> QED BY <3>1 DEF SessionTypeOK
  <2>2. pc' = [pc EXCEPT ![t] = pc[t] + 1] /\ err' = [err EXCEPT ![t] = 0]
    BY ReturnElse
  <2> QED BY <2>1, <2>2 DEF SessionTypeOK
<1> QED BY <1>3, <1>4, <1>5, <1>6, ReturnElse DEF SessionTypeOK

\* A row that is written is its writer's alone, and nobody else may write it.
LEMMA WritersAlone ==
    ASSUME IsolationInv, NEW s \in Sessions, NEW r \in DOMAIN tx[s].own
    PROVE  /\ \A o \in Sessions \ {s} : r \notin DOMAIN tx[o].own
           /\ \A l \in locks : l.row = r /\ l.s # s => l.mode \notin {"share", "nokey", "update"}
<1>1. PICK k \in locks : k.s = s /\ k.row = r /\ k.mode \in {"nokey", "update"}
  BY DEF IsolationInv, WritersLock
<1>2. ASSUME NEW l \in locks, l.row = r, l.s # s, l.mode \in {"share", "nokey", "update"} PROVE FALSE
  <2>1. <<k.mode, l.mode>> \in Conflicts
    BY <1>1, <1>2, ConflictsAre
  <2> QED BY <1>1, <1>2, <2>1 DEF IsolationInv, LocksAgree
<1>3. ASSUME NEW o \in Sessions \ {s}, r \in DOMAIN tx[o].own PROVE FALSE
  <2>1. PICK l \in locks : l.s = o /\ l.row = r /\ l.mode \in {"nokey", "update"}
    BY <1>3 DEF IsolationInv, WritersLock
  <2> QED BY <1>2, <1>3, <2>1
<1> QED BY <1>2, <1>3

\* A write that nobody blocks finds its row unwritten, and locked by nobody who minds.
LEMMA FreeToWrite ==
    ASSUME IsolationInv, NEW t \in Threads, Running(t), Blockers(t) = {},
           Cur(t).op \in {"add", "set", "setif", "insert"}
    PROVE  /\ \A o \in Sessions \ {Cur(t).s} : Cur(t).row \notin DOMAIN tx[o].own
           /\ \A l \in locks : l.row = Cur(t).row /\ l.s # Cur(t).s =>
                 l.mode \notin {"share", "nokey", "update"}
<1>1. Cur(t).mode \in {"nokey", "update"}
  BY StatementAtHand DEF IsStatement, IsolationInv
<1>2. ASSUME NEW l \in locks, l.row = Cur(t).row, l.s # Cur(t).s, l.mode \in {"share", "nokey", "update"}
      PROVE FALSE
  <2>1. <<l.mode, Cur(t).mode>> \notin Conflicts
    BY <1>2, NothingInTheWay
  <2> QED BY <1>1, <1>2, <2>1, ConflictsAre
<1>3. ASSUME NEW o \in Sessions \ {Cur(t).s}, Cur(t).row \in DOMAIN tx[o].own PROVE FALSE
  <2>1. PICK l \in locks : l.s = o /\ l.row = Cur(t).row /\ l.mode \in {"nokey", "update"}
    BY <1>3 DEF IsolationInv, WritersLock
  <2> QED BY <1>2, <1>3, <2>1
<1> QED BY <1>2, <1>3

\* A statement that returns takes a lock that was free, within a transaction or for the session.
LEMMA ReturnKeepsLocks ==
    ASSUME IsolationInv, NEW t \in Threads, Running(t), NEW res, NEW own \in Writes,
           NEW reads, Return(t, res, own, reads), SessionTypeOK',
           Takes(t, res) => Blockers(t) = {}
    PROVE  LocksAgree' /\ LocksEnd'
<1>1. locks' \subseteq locks \cup Took(t, res) /\ locks \subseteq locks'
  BY ReturnElse
<1>2. \A l \in Took(t, res) : l.row = Cur(t).row /\ l.mode = Cur(t).mode /\ l.s = Cur(t).s /\ Takes(t, res)
  BY DEF Took
<1>3. Cur(t).s \in Sessions
  BY StatementAtHand DEF IsStatement, IsolationInv
<1>4. LocksAgree'
  <2> SUFFICES ASSUME NEW l \in locks', NEW m \in locks', l.row = m.row, l.s # m.s
               PROVE  <<l.mode, m.mode>> \notin Conflicts
    BY DEF LocksAgree, Conflicts
  <2>1. CASE l \in locks /\ m \in locks
    BY <2>1 DEF IsolationInv, LocksAgree
  <2>2. CASE l \in locks /\ m \in Took(t, res)
    BY <1>2, <2>2, NothingInTheWay
  <2>3. CASE l \in Took(t, res) /\ m \in locks
    <3>1. <<m.mode, l.mode>> \notin Conflicts
      BY <1>2, <2>3, NothingInTheWay
    <3> QED BY <3>1, ConflictsAre
  <2>4. CASE l \in Took(t, res) /\ m \in Took(t, res)
    BY <1>2, <2>4
  <2> QED BY <1>1, <2>1, <2>2, <2>3, <2>4
<1>5. \A o \in Sessions : tx[o].open => tx'[o].open
  <2>1. CASE tx[Cur(t).s].open
    <3>1. tx[Cur(t).s] \in Transactions
      BY <1>3 DEF IsolationInv, SessionTypeOK
    <3>2. WithSnapshot(tx[Cur(t).s]) \in Transactions /\ WithSnapshot(tx[Cur(t).s]).open
      BY <2>1, <3>1, Snapshotted DEF IsolationInv
    <3> DEFINE now == Noted(t, own, reads)
    <3>3. now.open
      BY <3>2 DEF Transactions, Noted
    <3> HIDE DEF now
    <3>4. tx' = [tx EXCEPT ![Cur(t).s] = now]
      BY <2>1, ReturnInside DEF now
    <3> QED BY <1>3, <3>3, <3>4 DEF IsolationInv, SessionTypeOK
  <2>2. CASE ~tx[Cur(t).s].open
    BY <2>2, ReturnAlone
  <2> QED BY <2>1, <2>2
<1>6. LocksEnd'
  <2> SUFFICES ASSUME NEW l \in locks', l.mode # "session" PROVE tx'[l.s].open
    BY DEF LocksEnd
  <2>1. CASE l \in locks
    BY <1>5, <2>1 DEF IsolationInv, LocksEnd, SessionTypeOK, LocksTypeOK
  <2>2. CASE l \notin locks
    <3>1. l \in Took(t, res) /\ tx[Cur(t).s].open
      BY <2>2, ReturnElse, ReturnAlone
    <3> QED BY <1>2, <1>3, <1>5, <3>1
  <2> QED BY <2>1, <2>2
<1> QED BY <1>4, <1>6

\* What the transaction is after a statement has returned.
LEMMA NotedIs ==
    ASSUME SessionTypeOK, NEW t, Cur(t).s \in Sessions, NEW own \in Writes, NEW reads \in SUBSET Rows
    PROVE  LET s == Cur(t).s
               now == Noted(t, own, reads)
           IN  /\ now.own = own /\ now.open = tx[s].open /\ now.failed = tx[s].failed
               /\ now.snap = tx[s].snap \/ (now.snap # <<>> /\ now.snap[1].ver = ver)
               /\ now.level = tx[s].level
<1> DEFINE w == WithSnapshot(tx[Cur(t).s])
<1>1. tx[Cur(t).s] \in Transactions
  BY DEF SessionTypeOK
<1>2. /\ w \in Transactions
      /\ w.open = tx[Cur(t).s].open /\ w.failed = tx[Cur(t).s].failed /\ w.level = tx[Cur(t).s].level
      /\ w.snap = tx[Cur(t).s].snap \/ (w.snap # <<>> /\ w.snap[1].ver = ver)
  BY <1>1, Snapshotted
<1> HIDE DEF w
<1>3. Noted(t, own, reads) = [w EXCEPT !.own = own, !.reads = w.reads \cup reads]
  BY DEF Noted, w
<1> QED BY <1>2, <1>3 DEF Transactions

\* A statement that returns writes a row it has locked and that is not stale.
LEMMA ReturnKeepsWrites ==
    ASSUME IsolationInv, NEW t \in Threads, Running(t), NEW res, NEW own \in Writes,
           NEW reads \in SUBSET Rows, Return(t, res, own, reads), Effect(t, res, own)
    PROVE  WritersLock' /\ ClosedIsEmpty' /\ WritesAreFresh'
<1> DEFINE s == Cur(t).s
           now == Noted(t, own, reads)
<1>1. /\ s \in Sessions /\ IsStatement(Cur(t)) /\ SessionTypeOK
      /\ tx \in [Sessions -> Transactions]
  BY StatementAtHand DEF IsStatement, IsolationInv, SessionTypeOK
<1>2. /\ now.own = own /\ now.open = tx[s].open
      /\ now.snap = tx[s].snap \/ (now.snap # <<>> /\ now.snap[1].ver = ver)
  BY <1>1, NotedIs
<1> HIDE DEF now
<1>3. locks \subseteq locks'
  BY ReturnElse
<1>4. CASE tx[s].open
  <2>1. tx' = [tx EXCEPT ![s] = now] /\ locks' = locks \cup Took(t, res) /\ UNCHANGED <<val, ver>>
    BY <1>4, ReturnInside DEF now
  <2>2. tx'[s] = now /\ \A o \in Sessions \ {s} : tx'[o] = tx[o]
    BY <1>1, <2>1
  <2>3. ASSUME own # tx[s].own
        PROVE  /\ Cur(t).row \in Rows /\ Cur(t).mode \in {"nokey", "update"} /\ res = 1
               /\ DOMAIN own = DOMAIN tx[s].own \cup {Cur(t).row}
               /\ ~StaleWrite(s, Cur(t).row)
    <3>1. PICK v \in Int : own = WithRow(tx[s].own, Cur(t).row, v)
      BY <2>3 DEF Effect
    <3>2. /\ Cur(t).op \in {"add", "set", "setif", "insert"} /\ ~StaleWrite(s, Cur(t).row) /\ res = 1
      BY <2>3 DEF Effect
    <3>3. Cur(t).row \in Rows /\ Cur(t).mode \in {"nokey", "update"}
      BY <1>1, <3>2 DEF IsStatement
    <3>4. tx[s].own \in Writes
      BY <1>1 DEF Transactions
    <3>5. DOMAIN own = DOMAIN tx[s].own \cup {Cur(t).row}
      BY <3>1, <3>3, <3>4, WithRowIs
    <3> QED BY <3>2, <3>3, <3>5
  <2>4. WritersLock'
    <3> SUFFICES ASSUME NEW o \in Sessions, NEW r \in DOMAIN tx'[o].own
                 PROVE  \E l \in locks' : l.s = o /\ l.row = r /\ l.mode \in {"nokey", "update"}
      BY DEF WritersLock
    <3>1. CASE r \in DOMAIN tx[o].own
      BY <1>3, <3>1 DEF IsolationInv, WritersLock
    <3>2. CASE r \notin DOMAIN tx[o].own
      <4>1. o = s /\ own # tx[s].own /\ r = Cur(t).row
        BY <1>2, <2>2, <2>3, <3>2
      <4> DEFINE l == [row |-> Cur(t).row, mode |-> Cur(t).mode, s |-> Cur(t).s]
      <4>2. Takes(t, res)
        BY <2>3, <4>1 DEF Takes
      <4>3. l \in locks'
        BY <2>1, <4>2 DEF Took
      <4>4. l.s = o /\ l.row = r /\ l.mode \in {"nokey", "update"}
        BY <2>3, <4>1
      <4> QED BY <4>3, <4>4
    <3> QED BY <3>1, <3>2
  <2>5. ClosedIsEmpty'
    BY <1>2, <1>4, <2>2 DEF ClosedIsEmpty, IsolationInv
  <2>6. WritesAreFresh'
    <3> SUFFICES ASSUME NEW o \in Sessions, tx'[o].snap # <<>>, NEW r \in DOMAIN tx'[o].own
                 PROVE  ver'[r] = tx'[o].snap[1].ver[r]
      BY DEF WritesAreFresh
    <3>1. CASE o # s
      BY <2>1, <2>2, <3>1 DEF WritesAreFresh, IsolationInv
    <3>2. CASE o = s /\ now.snap = tx[s].snap
      <4>1. CASE r \in DOMAIN tx[s].own
        BY <2>1, <2>2, <3>2, <4>1 DEF WritesAreFresh, IsolationInv
      <4>2. CASE r \notin DOMAIN tx[s].own
        <5>1. r = Cur(t).row /\ ~StaleWrite(s, r)
          BY <1>2, <2>2, <2>3, <3>2, <4>2
        <5> QED BY <2>1, <2>2, <3>2, <4>2, <5>1 DEF StaleWrite
      <4> QED BY <4>1, <4>2
    <3>3. CASE o = s /\ now.snap[1].ver = ver
      BY <2>1, <2>2, <3>3
    <3> QED BY <1>2, <3>1, <3>2, <3>3
  <2> QED BY <2>4, <2>5, <2>6
<1>5. CASE ~tx[s].open
  <2>1. ver' = [r \in Rows |-> ver[r] + (IF r \in DOMAIN own THEN 1 ELSE 0)] /\ tx' = tx
    BY <1>5, ReturnAlone
  <2>2. WritersLock' /\ ClosedIsEmpty'
    BY <1>3, <2>1 DEF WritersLock, ClosedIsEmpty, IsolationInv
  <2>3. WritesAreFresh'
    <3> SUFFICES ASSUME NEW o \in Sessions, tx[o].snap # <<>>, NEW r \in DOMAIN tx[o].own
                 PROVE  ver'[r] = tx[o].snap[1].ver[r]
      BY <2>1 DEF WritesAreFresh
    <3>1. tx[s].own = <<>> /\ tx[s].snap = <<>>
      BY <1>1, <1>5 DEF ClosedIsEmpty, IsolationInv
    <3>2. o # s /\ r \in Rows
      BY <1>1, <3>1, WritesAre DEF Transactions
    <3>3. r \notin DOMAIN own
      <4>1. CASE own = tx[s].own
        BY <3>1, <4>1, NoWrites
      <4>2. CASE own # tx[s].own
        <5>1. /\ Cur(t).op \in {"add", "set", "setif", "insert"} /\ Blockers(t) = {}
          BY <4>2 DEF Effect
        <5>2. PICK v \in Int : own = WithRow(tx[s].own, Cur(t).row, v)
          BY <4>2 DEF Effect
        <5>3. Cur(t).row \in Rows
          BY <1>1, <5>1 DEF IsStatement
        <5>4. DOMAIN own = {Cur(t).row}
          <6>1. tx[s].own \in Writes /\ DOMAIN tx[s].own = {}
            BY <3>1, NoWrites
          <6>2. DOMAIN own = DOMAIN tx[s].own \cup {Cur(t).row}
            BY <5>2, <5>3, <6>1, WithRowIs
          <6> QED BY <6>1, <6>2
        <5>5. r # Cur(t).row
          BY <3>2, <5>1, FreeToWrite
        <5> QED BY <5>4, <5>5
      <4> QED BY <4>1, <4>2
    <3>4. ver'[r] = ver[r]
      BY <2>1, <3>2, <3>3, <1>1 DEF SessionTypeOK
    <3> QED BY <3>4 DEF WritesAreFresh, IsolationInv
  <2> QED BY <2>2, <2>3
<1> QED BY <1>4, <1>5

\* A statement that returns keeps the invariant.
LEMMA ReturnKeeps ==
    ASSUME IsolationInv, NEW t \in Threads, Running(t), NEW res \in Int, NEW own \in Writes,
           NEW reads \in SUBSET Rows, Return(t, res, own, reads), Effect(t, res, own),
           Takes(t, res) => Blockers(t) = {}
    PROVE  IsolationInv'
<1>1. SessionTypeOK'
  BY ReturnKeepsTypes DEF IsolationInv
<1>2. LocksAgree' /\ LocksEnd'
  BY <1>1, ReturnKeepsLocks
<1>3. WritersLock' /\ ClosedIsEmpty' /\ WritesAreFresh'
  BY ReturnKeepsWrites
<1> QED BY <1>1, <1>2, <1>3 DEF IsolationInv

\* A statement that throws keeps the invariant: caught, it leaves all locks; uncaught, none.
LEMMA ThrowKeeps ==
    ASSUME IsolationInv, NEW t \in Threads, Running(t), NEW code \in Int, Throw(t, code)
    PROVE  IsolationInv'
<1> DEFINE s == Cur(t).s
           after == IF Cur(t).catch = 0 THEN NoTx ELSE IF tx[s].open THEN [tx[s] EXCEPT !.failed = TRUE] ELSE tx[s]
<1>1. s \in Sessions /\ Cur(t).catch \in Int /\ tx \in [Sessions -> Transactions]
  BY StatementAtHand DEF IsStatement, IsolationInv, SessionTypeOK
<1>2. /\ tx' = [tx EXCEPT ![s] = after]
      /\ locks' = IF Cur(t).catch # 0 THEN locks ELSE {l \in locks : l.s # s}
      /\ pc' = [pc EXCEPT ![t] = IF Cur(t).catch # 0 THEN pc[t] + Cur(t).catch ELSE Len(Code(t)) + 1]
      /\ err' = [err EXCEPT ![t] = code]
      /\ UNCHANGED <<script, program, val, ver, past, reg>>
  BY DEF Throw, Go
<1>3. /\ after \in Transactions
      /\ Cur(t).catch # 0 => after.open = tx[s].open /\ after.own = tx[s].own /\ after.snap = tx[s].snap
      /\ Cur(t).catch = 0 => after = NoTx
  BY <1>1, NoTransaction DEF Transactions
<1> HIDE DEF after
<1>4. tx'[s] = after /\ \A o \in Sessions \ {s} : tx'[o] = tx[o]
  BY <1>1, <1>2
<1>5. SessionTypeOK'
  <2>1. tx' \in [Sessions -> Transactions]
    BY <1>1, <1>2, <1>3
  <2>2. LocksTypeOK(locks')
    <3>1. locks' \subseteq locks
      BY <1>2
    <3> QED BY <3>1, FewerLocks DEF IsolationInv, SessionTypeOK
  <2>3. Len(Code(t)) \in Int
    BY CodesAreLists DEF IsolationInv
  <2>4. pc' \in [Threads -> Int]
    BY <1>1, <1>2, <2>3 DEF IsolationInv, SessionTypeOK
  <2> QED BY <1>2, <2>1, <2>2, <2>4 DEF IsolationInv, SessionTypeOK
<1>6. LocksAgree'
  BY <1>2 DEF IsolationInv, LocksAgree, Conflicts
<1>7. CASE Cur(t).catch = 0
  <2>1. \A l \in locks' : l \in locks /\ l.s # s
    BY <1>2, <1>7
  <2>2. tx'[s].own = <<>> /\ tx'[s].snap = <<>> /\ ~tx'[s].open /\ DOMAIN tx'[s].own = {}
    BY <1>3, <1>4, <1>7, NoTransaction, NoWrites
  <2>3. LocksEnd'
    BY <1>4, <2>1 DEF IsolationInv, LocksEnd, SessionTypeOK, LocksTypeOK
  <2>4. WritersLock'
    <3> SUFFICES ASSUME NEW o \in Sessions, NEW r \in DOMAIN tx'[o].own
                 PROVE  \E l \in locks' : l.s = o /\ l.row = r /\ l.mode \in {"nokey", "update"}
      BY DEF WritersLock
    <3>1. o # s /\ r \in DOMAIN tx[o].own
      BY <1>4, <2>2
    <3>2. PICK l \in locks : l.s = o /\ l.row = r /\ l.mode \in {"nokey", "update"}
      BY <3>1 DEF IsolationInv, WritersLock
    <3> QED BY <1>2, <3>1, <3>2
  <2>5. ClosedIsEmpty' /\ WritesAreFresh'
    BY <1>2, <1>4, <2>2 DEF IsolationInv, ClosedIsEmpty, WritesAreFresh
  <2> QED BY <1>5, <1>6, <2>3, <2>4, <2>5 DEF IsolationInv
<1>8. CASE Cur(t).catch # 0
  <2>1. /\ locks' = locks
        /\ \A o \in Sessions : tx'[o].open = tx[o].open /\ tx'[o].own = tx[o].own /\ tx'[o].snap = tx[o].snap
    BY <1>2, <1>3, <1>4, <1>8
  <2>2. LocksEnd'
    BY <2>1 DEF IsolationInv, LocksEnd, SessionTypeOK, LocksTypeOK
  <2>3. WritersLock' /\ ClosedIsEmpty' /\ WritesAreFresh'
    BY <1>2, <2>1 DEF IsolationInv, WritersLock, ClosedIsEmpty, WritesAreFresh
  <2> QED BY <1>5, <1>6, <2>2, <2>3 DEF IsolationInv
<1> QED BY <1>7, <1>8

\* A session that ends its transaction without a trace.
LEMMA EndKeeps ==
    ASSUME IsolationInv, SessionTypeOK', NEW s \in Sessions,
           NEW after, tx' = [tx EXCEPT ![s] = after],
           ~after.open \/ locks' = locks, after.own = <<>>, after.snap = <<>>,
           locks' \subseteq locks, \A l \in locks : l.s # s => l \in locks',
           after.open \/ \A l \in locks' : l.s = s => l.mode = "session",
           \A o \in Sessions \ {s} : \A r \in DOMAIN tx[o].own : ver'[r] = ver[r]
    PROVE  IsolationInv'
<1>1. tx'[s] = after /\ \A o \in Sessions \ {s} : tx'[o] = tx[o]
  BY DEF IsolationInv, SessionTypeOK
<1>2. LocksAgree'
  BY DEF IsolationInv, LocksAgree, Conflicts
<1>3. LocksEnd'
  <2> SUFFICES ASSUME NEW l \in locks', l.mode # "session" PROVE tx'[l.s].open
    BY DEF LocksEnd
  <2> QED BY <1>1 DEF IsolationInv, LocksEnd, SessionTypeOK, LocksTypeOK
<1>4. WritersLock'
  <2> SUFFICES ASSUME NEW o \in Sessions, NEW r \in DOMAIN tx'[o].own
               PROVE  \E l \in locks' : l.s = o /\ l.row = r /\ l.mode \in {"nokey", "update"}
    BY DEF WritersLock
  <2>1. o # s /\ r \in DOMAIN tx[o].own
    BY <1>1, NoWrites
  <2>2. PICK l \in locks : l.s = o /\ l.row = r /\ l.mode \in {"nokey", "update"}
    BY <2>1 DEF IsolationInv, WritersLock
  <2> QED BY <2>1, <2>2
<1>5. ClosedIsEmpty'
  BY <1>1 DEF IsolationInv, ClosedIsEmpty
<1>6. WritesAreFresh'
  BY <1>1 DEF IsolationInv, WritesAreFresh
<1> QED BY <1>2, <1>3, <1>4, <1>5, <1>6 DEF IsolationInv

\* What a session sees of a row is a number.
LEMMA ValuesAreNumbers ==
    ASSUME SessionTypeOK, NEW s \in Sessions, NEW r \in Rows
    PROVE  Latest(s, r) \in Int /\ Visible(s, r) \in Int
<1>1. tx[s] \in Transactions /\ tx[s].own \in Writes /\ val[r] \in Int
  BY DEF SessionTypeOK, Transactions
<1>2. Latest(s, r) \in Int
  BY <1>1, WritesAre DEF Latest
<1>3. tx[s].snap = <<>> \/ tx[s].snap[1].val[r] \in Int
  <2>1. tx[s].snap \in {<<>>} \cup {<<x>> : x \in Snapshots}
    BY <1>1 DEF Transactions
  <2>2. CASE \E x \in Snapshots : tx[s].snap = <<x>>
    BY <2>2 DEF Snapshots
  <2> QED BY <2>1, <2>2
<1> QED BY <1>2, <1>3 DEF Visible

\* So is what a statement writes.
LEMMA WrittenIsNumber ==
    ASSUME SessionTypeOK, NEW t \in Threads, Running(t), Cur(t).op \in {"add", "set", "setif", "insert"}
    PROVE  Written(t) \in Int
<1>1. /\ Cur(t).k \in Int /\ Cur(t).s \in Sessions /\ Cur(t).row \in Rows
      /\ Cur(t).op \in {"set", "setif"} => Cur(t).from = "-" \/ reg[Cur(t).from] \in Int
  BY StatementAtHand DEF IsStatement, SessionTypeOK
<1>2. Latest(Cur(t).s, Cur(t).row) \in Int
  BY <1>1, ValuesAreNumbers
<1>3. CASE Cur(t).op = "add"
  <2>1. Written(t) = Latest(Cur(t).s, Cur(t).row) + Cur(t).k
    BY <1>3, Zenon DEF Written
  <2> QED BY <1>1, <1>2, <2>1
<1>4. CASE Cur(t).op \in {"set", "setif"} /\ Cur(t).from = "-"
  <2>1. Written(t) = Cur(t).k
    BY <1>4, ZenonT(30) DEF Written
  <2> QED BY <1>1, <2>1
<1>5. CASE Cur(t).op \in {"set", "setif"} /\ Cur(t).from # "-"
  <2>1. Written(t) = reg[Cur(t).from] + Cur(t).k
    BY <1>5, ZenonT(30) DEF Written
  <2> QED BY <1>1, <1>5, <2>1
<1>6. CASE Cur(t).op = "insert"
  <2>1. Written(t) = Cur(t).k
    BY <1>6, ZenonT(30) DEF Written
  <2> QED BY <1>1, <2>1
<1> QED BY <1>3, <1>4, <1>5, <1>6

\* A step that touches no row, transaction or lock keeps the invariant.
LEMMA QuietKeeps ==
    ASSUME IsolationInv, SessionTypeOK', UNCHANGED <<val, ver, tx, locks>>
    PROVE  IsolationInv'
  BY DEF IsolationInv, LocksAgree, LocksEnd, WritersLock, ClosedIsEmpty, WritesAreFresh, Conflicts

\* A SELECT keeps the invariant.
LEMMA SelectKeeps ==
    ASSUME IsolationInv, NEW t \in Threads, Select(t)
    PROVE  IsolationInv'
<1> DEFINE s == Cur(t).s
           seen == {r \in Cur(t).rows : Visible(s, r) = 1}
<1>1. Running(t) /\ Cur(t).op \in {"read", "count"} /\ SessionTypeOK /\ IsStatement(Cur(t))
  BY StatementAtHand DEF Select, At, IsolationInv
<1>2. /\ s \in Sessions /\ Cur(t).mode = "-" /\ Cur(t).rows \subseteq Rows
      /\ Cur(t).op = "read" => Cur(t).row \in Rows
      /\ tx[s].own \in Writes
  BY <1>1 DEF IsStatement, SessionTypeOK, Transactions
<1>3. \A res : ~Takes(t, res) /\ Effect(t, res, tx[s].own)
  BY <1>2 DEF Takes, Effect
<1>4. CASE Cur(t).op = "read"
  <2>1. Return(t, Visible(s, Cur(t).row), tx[s].own, {Cur(t).row})
    BY <1>4 DEF Select
  <2>2. Visible(s, Cur(t).row) \in Int /\ {Cur(t).row} \in SUBSET Rows
    BY <1>1, <1>2, <1>4, ValuesAreNumbers
  <2> QED BY <1>1, <1>2, <1>3, <2>1, <2>2, ReturnKeeps
<1>5. CASE Cur(t).op = "count"
  <2>1. Return(t, Cardinality(seen), tx[s].own, Cur(t).rows)
    BY <1>5 DEF Select
  <2>2. Cardinality(seen) \in Nat
    <3>1. IsFiniteSet(Rows)
      <4>1. IsFiniteSet({"w"})
        BY FS_Singleton
      <4>2. IsFiniteSet({"w"} \cup {"x"})
        BY <4>1, FS_AddElement
      <4>3. IsFiniteSet({"w"} \cup {"x"} \cup {"y"})
        BY <4>2, FS_AddElement
      <4>4. IsFiniteSet({"w"} \cup {"x"} \cup {"y"} \cup {"z"})
        BY <4>3, FS_AddElement
      <4>5. Rows = {"w"} \cup {"x"} \cup {"y"} \cup {"z"}
        BY DEF Rows
      <4> QED BY <4>4, <4>5
    <3>2. seen \subseteq Rows
      BY <1>2
    <3> QED BY <3>1, <3>2, FS_Subset, FS_CardinalityType
  <2> HIDE DEF seen
  <2>3. Cardinality(seen) \in Int
    BY <2>2
  <2> QED BY <1>1, <1>2, <1>3, <2>1, <2>3, ReturnKeeps
<1> QED BY <1>1, <1>4, <1>5

\* A SELECT FOR UPDATE, or any other that locks, keeps the invariant.
LEMMA LockKeeps ==
    ASSUME IsolationInv, NEW t \in Threads, SelectForLock(t)
    PROVE  IsolationInv'
<1> DEFINE s == Cur(t).s
           r == Cur(t).row
           res == IF r \in Rows THEN Latest(s, r) ELSE 1
<1>1. Running(t) /\ Cur(t).op = "lock" /\ SessionTypeOK /\ IsStatement(Cur(t)) /\ Blockers(t) = {}
  BY StatementAtHand DEF SelectForLock, At, IsolationInv
<1>2. s \in Sessions /\ tx[s].own \in Writes
  BY <1>1 DEF IsStatement, SessionTypeOK, Transactions
<1>3. CASE r \in Rows /\ StaleWrite(s, r)
  <2>1. Throw(t, SerializationFailure) /\ SerializationFailure \in Int
    BY <1>3 DEF SelectForLock, SerializationFailure
  <2> QED BY <1>1, <2>1, ThrowKeeps
<1>4. CASE ~(r \in Rows /\ StaleWrite(s, r))
  <2>1. Return(t, res, tx[s].own, {r} \cap Rows)
    BY <1>4 DEF SelectForLock
  <2>2. res \in Int
    BY <1>1, <1>2, ValuesAreNumbers
  <2> HIDE DEF res
  <2>3. Effect(t, res, tx[s].own) /\ {r} \cap Rows \in SUBSET Rows
    BY DEF Effect
  <2> QED BY <1>1, <1>2, <2>1, <2>2, <2>3, ReturnKeeps
<1> QED BY <1>3, <1>4

\* An UPDATE or INSERT keeps the invariant.
LEMMA WriteKeeps ==
    ASSUME IsolationInv, NEW t \in Threads, Write(t)
    PROVE  IsolationInv'
<1> DEFINE s == Cur(t).s
           row == Cur(t).row
           own == WithRow(tx[s].own, row, Written(t))
<1>1. /\ Running(t) /\ Cur(t).op \in {"add", "set", "setif", "insert"} /\ SessionTypeOK
      /\ IsStatement(Cur(t)) /\ (Blockers(t) = {} \/ RuledOut(t))
  BY StatementAtHand DEF Write, At, IsolationInv
<1>2. s \in Sessions /\ tx[s].own \in Writes /\ row \in Rows /\ {row} \in SUBSET Rows
  BY <1>1 DEF IsStatement, SessionTypeOK, Transactions
<1>3. \/ \E code \in {SerializationFailure, UniqueViolation, CheckViolation} : Throw(t, code)
      \/ (RuledOut(t) \/ ~Matches(t, Latest(s, row))) /\ Return(t, 0, tx[s].own, {row})
      \/ Return(t, 1, own, {row}) /\ ~StaleWrite(s, row) /\ ~RuledOut(t)
  <2> HIDE DEF own
  <2>1. CASE StaleWrite(s, row) /\ ~RuledOut(t)
    BY <2>1 DEF Write
  <2>2. CASE ~(StaleWrite(s, row) /\ ~RuledOut(t)) /\ (RuledOut(t) \/ ~Matches(t, Latest(s, row)))
    BY <2>2 DEF Write
  <2>3. CASE ~(StaleWrite(s, row) /\ ~RuledOut(t)) /\ ~(RuledOut(t) \/ ~Matches(t, Latest(s, row)))
    BY <2>3 DEF Write, own
  <2> QED BY <2>1, <2>2, <2>3
<1>4. CASE \E code \in {SerializationFailure, UniqueViolation, CheckViolation} : Throw(t, code)
  BY <1>1, <1>4, ThrowKeeps DEF SerializationFailure, UniqueViolation, CheckViolation
<1>5. CASE (RuledOut(t) \/ ~Matches(t, Latest(s, row))) /\ Return(t, 0, tx[s].own, {row})
  <2>1. Effect(t, 0, tx[s].own)
    BY DEF Effect
  <2>2. Takes(t, 0) => Blockers(t) = {}
    BY <1>1 DEF Takes, RuledOut
  <2> QED BY <1>1, <1>2, <1>5, <2>1, <2>2, ReturnKeeps
<1>6. CASE Return(t, 1, own, {row}) /\ ~StaleWrite(s, row) /\ ~RuledOut(t)
  <2>1. Written(t) \in Int
    BY <1>1, WrittenIsNumber
  <2>2. own \in Writes
    BY <1>2, <2>1, WithRowIs
  <2>3. Effect(t, 1, own)
    BY <1>1, <1>6, <2>1 DEF Effect
  <2> HIDE DEF own
  <2> QED BY <1>1, <1>2, <1>6, <2>2, <2>3, ReturnKeeps
<1> QED BY <1>3, <1>4, <1>5, <1>6

\* A step that changes no row leaves the variables what they are.
LEMMA TypesOfControl ==
    ASSUME SessionTypeOK, UNCHANGED <<script, program, val, ver, past>>,
           tx' \in [Sessions -> Transactions], locks' \subseteq locks,
           pc' \in [Threads -> Int], err' \in [Threads -> Int], reg' \in [Regs -> Int]
    PROVE  SessionTypeOK'
  BY FewerLocks DEF SessionTypeOK

\* A step of the script's own control flow, and one that only asks or queues.
LEMMA ControlKeeps ==
    ASSUME IsolationInv, NEW t \in Threads, Running(t),
           StartThread(t) \/ AwaitThread(t) \/ AwaitValue(t) \/ SleepEnds(t) \/ SetVariable(t) \/ Branch(t)
    PROVE  IsolationInv'
<1> DEFINE step == Cur(t)
<1>1. /\ IsStatement(step) /\ SessionTypeOK /\ step.k \in Int /\ step.to \in Int
      /\ step.op = "start" => step.into \in Threads
      /\ step.op = "let" => step.from = "-" \/ reg[step.from] \in Int
  BY StatementAtHand DEF IsolationInv, IsStatement, SessionTypeOK
<1>2. Len(Code(t)) \in Int /\ pc \in [Threads -> Int] /\ err \in [Threads -> Int] /\ reg \in [Regs -> Int]
  BY <1>1, CodesAreLists DEF SessionTypeOK
<1>3. UNCHANGED <<script, program, val, ver, tx, locks, past>>
  BY DEF controlVars, StartThread, AwaitThread, AwaitValue, SleepEnds, SetVariable, Branch
<1>4. pc' \in [Threads -> Int] /\ err' \in [Threads -> Int] /\ reg' \in [Regs -> Int]
  <2>1. CASE StartThread(t)
    BY <1>1, <1>2, <2>1 DEF StartThread, At
  <2>2. CASE AwaitThread(t) \/ AwaitValue(t) \/ SleepEnds(t)
    BY <1>2, <2>2 DEF AwaitThread, AwaitValue, SleepEnds, Go
  <2>3. CASE SetVariable(t)
    <3> DEFINE x == step.k + (IF step.from = "-" THEN 0 ELSE reg[step.from])
    <3>1. x \in Int
      BY <1>1, <2>3 DEF SetVariable, At
    <3> HIDE DEF x
    <3>2. reg' = IF step.into \in Regs THEN [reg EXCEPT ![step.into] = x] ELSE reg
      BY <2>3 DEF SetVariable, Assign, x
    <3> QED BY <1>2, <2>3, <3>1, <3>2 DEF SetVariable, Go
  <2>4. CASE Branch(t)
    <3>1. /\ pc' \in {[pc EXCEPT ![t] = n] : n \in {Len(Code(t)) + 1, pc[t] + step.to, pc[t] + 1}}
          /\ err' \in {err, [err EXCEPT ![t] = ScriptError]} /\ UNCHANGED reg
      BY <1>2, <2>4 DEF Branch, Go
    <3> QED BY <1>1, <1>2, <3>1 DEF ScriptError
  <2> QED BY <2>1, <2>2, <2>3, <2>4
<1>5. SessionTypeOK'
  BY <1>1, <1>3, <1>4, TypesOfControl DEF SessionTypeOK
<1> QED BY <1>3, <1>5, QuietKeeps

\* COMMIT keeps the invariant: it changes only rows it has locked, and others wrote none of them.
LEMMA CommitKeeps ==
    ASSUME IsolationInv, NEW t \in Threads, CommitTx(t)
    PROVE  IsolationInv'
<1> DEFINE s == Cur(t).s
<1>1. Running(t) /\ IsStatement(Cur(t)) /\ s \in Sessions /\ SessionTypeOK
  BY StatementAtHand DEF CommitTx, At, IsolationInv, IsStatement
<1>2. tx[s] \in Transactions /\ tx[s].own \in Writes /\ tx[s].reads \in SUBSET Rows /\ DOMAIN tx[s].own \subseteq Rows
  BY <1>1, WritesAre DEF SessionTypeOK, Transactions
<1>3. CASE ~tx[s].failed /\ IsPivot(s, tx[s].own, tx[s].reads)
  <2>1. Throw(t, SerializationFailure) /\ SerializationFailure \in Int
    BY <1>3 DEF CommitTx, SerializationFailure
  <2> QED BY <1>1, <2>1, ThrowKeeps
<1>4. CASE ~(~tx[s].failed /\ IsPivot(s, tx[s].own, tx[s].reads))
  <2>1. /\ val' = IF tx[s].failed THEN val ELSE Over(tx[s].own, val)
        /\ ver' = IF tx[s].failed THEN ver
                  ELSE [r \in Rows |-> ver[r] + (IF r \in DOMAIN tx[s].own THEN 1 ELSE 0)]
        /\ past' = IF tx[s].level = "SER" /\ ~tx[s].failed
                   THEN Append(past, [reads |-> tx[s].reads, writes |-> DOMAIN tx[s].own]) ELSE past
        /\ EndTx(s) /\ Go(t, pc[t] + 1)
        /\ UNCHANGED <<script, program, err, reg>>
    BY <1>4 DEF CommitTx
  <2>2. SessionTypeOK'
    <3>1. val' \in [Rows -> Int]
      BY <1>1, <1>2, <2>1, OverIs DEF SessionTypeOK
    <3>2. ver' \in [Rows -> Nat]
      BY <1>1, <2>1 DEF SessionTypeOK
    <3>3. past' \in Seq([reads : SUBSET Rows, writes : SUBSET Rows])
      <4> DEFINE one == [reads |-> tx[s].reads, writes |-> DOMAIN tx[s].own]
                 Ones == [reads : SUBSET Rows, writes : SUBSET Rows]
      <4>1. one \in Ones
        BY <1>2
      <4>2. past \in Seq(Ones) /\ (past' = past \/ past' = Append(past, one))
        BY <1>1, <2>1 DEF SessionTypeOK
      <4> HIDE DEF one, Ones
      <4>3. past' \in Seq(Ones)
        BY <4>1, <4>2
      <4> QED BY <4>3 DEF Ones
    <3>4. tx' \in [Sessions -> Transactions] /\ locks' \subseteq locks
      BY <1>1, <2>1, NoTransaction DEF SessionTypeOK, EndTx
    <3>5. pc' \in [Threads -> Int]
      BY <1>1, <2>1 DEF SessionTypeOK, Go
    <3>6. LocksTypeOK(locks')
      BY <1>1, <3>4, FewerLocks DEF SessionTypeOK
    <3> QED BY <1>1, <2>1, <3>1, <3>2, <3>3, <3>4, <3>5, <3>6 DEF SessionTypeOK
  <2>3. /\ tx' = [tx EXCEPT ![s] = NoTx] /\ locks' = locks \ {l \in locks : l.s = s /\ l.mode # "session"}
    BY <2>1 DEF EndTx, XactLocks
  <2>4. ASSUME NEW o \in Sessions \ {s}, NEW r \in DOMAIN tx[o].own
        PROVE  ver'[r] = ver[r]
    <3>1. r \notin DOMAIN tx[s].own
      BY <1>1, WritersAlone
    <3>2. r \in Rows /\ ver \in [Rows -> Nat]
      BY <1>1, WritesAre DEF SessionTypeOK, Transactions
    <3> QED BY <2>1, <3>1, <3>2
  <2>5. NoTx.own = <<>> /\ NoTx.snap = <<>> /\ ~NoTx.open
    BY NoTransaction
  <2>6. /\ locks' \subseteq locks /\ \A l \in locks : l.s # s => l \in locks'
        /\ \A l \in locks' : l.s = s => l.mode = "session"
    BY <2>3
  <2> QED BY <1>1, <2>2, <2>3, <2>4, <2>5, <2>6, EndKeeps
<1> QED BY <1>3, <1>4

\* Who waits for a lock is at a statement that takes one, once.
QueueOK ==
    /\ queue \in Seq(Threads)
    /\ \A i, j \in 1..Len(queue) : queue[i] = queue[j] => i = j
    /\ \A i \in 1..Len(queue) : Running(queue[i]) /\ Cur(queue[i]).op \in LockOps

SessionInv == IsolationInv /\ QueueOK

\* Only a thread that runs takes a step.
LEMMA ActsOnItsStep ==
    ASSUME QueueOK, NEW t \in Threads, ThreadStep(t)
    PROVE  Running(t)
<1>1. CASE DeadlockVictim(t)
  BY <1>1 DEF DeadlockVictim, MutualWait, Waiting, QueuedAt, QueueOK
<1>2. CASE BeginTx(t) \/ Select(t) \/ SelectForLock(t) \/ Write(t) \/ Wait(t) \/ Refuse(t) \/ TryLock(t) \/ Unlock(t)
  BY <1>2 DEF BeginTx, Select, SelectForLock, Write, Wait, Refuse, TryLock, Unlock, At
<1>3. CASE \/ CommitTx(t) \/ RollbackTx(t) \/ DropSession(t) \/ StartThread(t) \/ AwaitThread(t) \/ AwaitValue(t)
           \/ SleepEnds(t) \/ SetVariable(t) \/ Branch(t)
  BY <1>3 DEF CommitTx, RollbackTx, DropSession, StartThread, AwaitThread, AwaitValue, SleepEnds, SetVariable, Branch, At
<1> QED BY <1>1, <1>2, <1>3 DEF ThreadStep

\* The queue without the thread that leaves it.
LEMMA DequeuedIs ==
    ASSUME QueueOK, NEW t
    PROVE  /\ Dequeued(t) \in Seq(Threads)
           /\ \A i, j \in 1..Len(Dequeued(t)) : Dequeued(t)[i] = Dequeued(t)[j] => i = j
           /\ \A i \in 1..Len(Dequeued(t)) : Dequeued(t)[i] # t /\ Waiting(Dequeued(t)[i])
<1>1. CASE ~Waiting(t)
  BY <1>1 DEF Dequeued, Waiting, QueuedAt, QueueOK
<1>2. CASE Waiting(t)
  <2> DEFINE k == CHOOSE i \in QueuedAt(t) : TRUE
             rest == Dequeued(t)
  <2>1. k \in 1..Len(queue) /\ queue[k] = t
    BY <1>2 DEF Waiting, QueuedAt
  <2> HIDE DEF k
  <2>2. rest = SubSeq(queue, 1, k - 1) \o SubSeq(queue, k + 1, Len(queue))
    BY <1>2 DEF Dequeued, RemoveAt, k
  <2>3. /\ rest \in Seq(Threads) /\ Len(rest) = Len(queue) - 1
        /\ \A i \in 1..Len(rest) : rest[i] = IF i < k THEN queue[i] ELSE queue[i + 1]
    <3> DEFINE front == SubSeq(queue, 1, k - 1)
               back == SubSeq(queue, k + 1, Len(queue))
    <3>1. queue \in Seq(Threads) /\ Len(queue) \in Nat /\ k \in Nat /\ 1 <= k /\ k <= Len(queue)
      BY <2>1 DEF QueueOK
    <3>2. front \in Seq(Threads) /\ Len(front) = k - 1 /\ \A i \in 1..k - 1 : front[i] = queue[i]
      BY <3>1
    <3>3. back \in Seq(Threads) /\ Len(back) = Len(queue) - k /\ \A i \in 1..Len(queue) - k : back[i] = queue[k + i]
      BY <3>1
    <3>4. rest = front \o back
      BY <2>2
    <3> HIDE DEF front, back, rest
    <3>5. /\ rest \in Seq(Threads) /\ Len(rest) = Len(queue) - 1
          /\ \A i \in 1..Len(rest) : rest[i] = IF i <= k - 1 THEN front[i] ELSE back[i - (k - 1)]
      <4>1. rest \in Seq(Threads) /\ Len(rest) = Len(front) + Len(back)
        BY <3>2, <3>3, <3>4, ConcatProperties
      <4>2. \A i \in 1..Len(front) + Len(back) : rest[i] = IF i <= Len(front) THEN front[i] ELSE back[i - Len(front)]
        BY <3>2, <3>3, <3>4
      <4>3. Len(front) + Len(back) = Len(queue) - 1 /\ Len(front) = k - 1
        BY <3>1, <3>2, <3>3
      <4> QED BY <4>1, <4>2, <4>3
    <3>6. ASSUME NEW i \in 1..Len(rest) PROVE rest[i] = IF i < k THEN queue[i] ELSE queue[i + 1]
      <4>1. CASE i < k
        BY <3>1, <3>2, <3>5, <4>1
      <4>2. CASE ~(i < k)
        <5>1. i - (k - 1) \in 1..Len(queue) - k /\ k + (i - (k - 1)) = i + 1 /\ ~(i <= k - 1)
          BY <3>1, <3>5, <4>2
        <5> QED BY <3>3, <3>5, <4>2, <5>1
      <4> QED BY <4>1, <4>2
    <3> QED BY <3>5, <3>6
  <2> HIDE DEF rest
  <2>4. \A i \in 1..Len(rest) : i \in 1..Len(queue) /\ i + 1 \in 1..Len(queue)
    BY <2>3 DEF QueueOK
  <2>5. ASSUME NEW i \in 1..Len(rest), NEW j \in 1..Len(rest), rest[i] = rest[j] PROVE i = j
    <3> DEFINE m(n) == IF n < k THEN n ELSE n + 1
    <3>1. m(i) \in 1..Len(queue) /\ m(j) \in 1..Len(queue) /\ rest[i] = queue[m(i)] /\ rest[j] = queue[m(j)]
      BY <2>3, <2>4
    <3>2. m(i) = m(j)
      BY <2>5, <3>1 DEF QueueOK
    <3> QED BY <2>1, <2>3, <3>2
  <2>6. ASSUME NEW i \in 1..Len(rest) PROVE rest[i] # t /\ Waiting(rest[i])
    <3> DEFINE m == IF i < k THEN i ELSE i + 1
    <3>1. m \in 1..Len(queue) /\ m # k /\ rest[i] = queue[m]
      BY <2>1, <2>3, <2>4
    <3> QED BY <2>1, <3>1 DEF QueueOK, Waiting, QueuedAt
  <2> QED BY <2>3, <2>5, <2>6 DEF rest
<1> QED BY <1>1, <1>2

\* The steps of a thread: where the others and the queue are afterwards.
LEMMA StepMoves ==
    ASSUME SessionInv, NEW t \in Threads, ThreadStep(t)
    PROVE  /\ UNCHANGED <<script, program>>
           /\ \A u \in Threads \ {t} : pc'[u] = pc[u] \/ (pc[u] = 0 /\ pc'[u] = 1)
           /\ \/ queue' = Dequeued(t)
              \/ queue' = queue /\ ~Waiting(t)
              \/ Wait(t)
<1>1. SessionTypeOK /\ QueueOK /\ Running(t) /\ IsStatement(Cur(t)) /\ pc \in [Threads -> Int]
  BY ActsOnItsStep, StatementAtHand DEF SessionInv, IsolationInv, SessionTypeOK
<1>2. Cur(t).op \notin LockOps => ~Waiting(t)
  BY <1>1 DEF QueueOK, Waiting, QueuedAt
<1>3. ASSUME NEW n, pc' = [pc EXCEPT ![t] = n]
      PROVE  \A u \in Threads \ {t} : pc'[u] = pc[u]
  BY <1>1, <1>3
<1>4. ASSUME NEW code, Throw(t, code)
      PROVE  UNCHANGED <<script, program>> /\ queue' = Dequeued(t) /\ \A u \in Threads \ {t} : pc'[u] = pc[u]
  BY <1>1, <1>4 DEF Throw, Go
<1>5. ASSUME NEW res, NEW own, NEW reads, Return(t, res, own, reads)
      PROVE  UNCHANGED <<script, program>> /\ queue' = Dequeued(t) /\ \A u \in Threads \ {t} : pc'[u] = pc[u]
  <2>1. UNCHANGED <<script, program>> /\ queue' = Dequeued(t) /\ pc' = [pc EXCEPT ![t] = pc[t] + 1]
    BY <1>5, ReturnElse
  <2> QED BY <1>3, <2>1
<1>6. CASE Select(t)
  <2>1. \E res, own, reads : Return(t, res, own, reads)
    BY <1>6 DEF Select
  <2> QED BY <1>5, <2>1
<1>7. CASE SelectForLock(t)
  <2>1. (\E code : Throw(t, code)) \/ (\E res, own, reads : Return(t, res, own, reads))
    BY <1>7 DEF SelectForLock
  <2> QED BY <1>4, <1>5, <2>1
<1>8. CASE Write(t)
  <2>1. (\E code : Throw(t, code)) \/ (\E res, own, reads : Return(t, res, own, reads))
    BY <1>8 DEF Write
  <2> QED BY <1>4, <1>5, <2>1
<1>9. CASE Refuse(t) \/ DeadlockVictim(t)
  <2>1. \E code : Throw(t, code)
    BY <1>9 DEF Refuse, DeadlockVictim
  <2> QED BY <1>4, <2>1
<1>10. CASE TryLock(t)
  <2>1. CASE Blockers(t) = {}
    BY <1>5, <1>10, <2>1 DEF TryLock
  <2>2. CASE Blockers(t) # {}
    BY <1>1, <1>2, <1>10, <2>2 DEF TryLock, At, Go, LockOps
  <2> QED BY <2>1, <2>2
<1>11. CASE CommitTx(t)
  <2>1. CASE \E code : Throw(t, code)
    BY <1>4, <2>1
  <2>2. CASE ~\E code : Throw(t, code)
    BY <1>1, <1>2, <1>11, <2>2 DEF CommitTx, At, Go, LockOps
  <2> QED BY <2>1, <2>2
<1>12. CASE BeginTx(t) \/ Unlock(t) \/ RollbackTx(t) \/ DropSession(t)
  BY <1>1, <1>2, <1>12 DEF BeginTx, Unlock, RollbackTx, DropSession, At, Go, LockOps
<1>13. CASE StartThread(t)
  <2>1. /\ Cur(t).into \in Threads /\ pc[Cur(t).into] = 0 /\ ~Waiting(t)
        /\ pc' = [u \in Threads |-> IF u = Cur(t).into THEN 1 ELSE IF u = t THEN pc[u] + 1 ELSE pc[u]]
        /\ UNCHANGED <<script, program, queue>>
    BY <1>1, <1>2, <1>13 DEF StartThread, At, controlVars, LockOps, IsStatement
  <2> QED BY <1>1, <2>1
<1>14. CASE AwaitThread(t) \/ AwaitValue(t) \/ SleepEnds(t) \/ SetVariable(t)
  BY <1>1, <1>2, <1>14 DEF AwaitThread, AwaitValue, SleepEnds, SetVariable, At, Go, controlVars, LockOps
<1>15. CASE Branch(t)
  <2>1. /\ Cur(t).op \in {"goto", "atmost", "atleast", "iferror", "raise"} /\ UNCHANGED <<script, program, queue>>
        /\ \E n : pc' = [pc EXCEPT ![t] = n]
    BY <1>15 DEF Branch, At, Go, controlVars
  <2> QED BY <1>1, <1>2, <1>3, <2>1 DEF LockOps
<1>16. CASE Wait(t)
  BY <1>1, <1>16 DEF Wait
<1> QED BY <1>6, <1>7, <1>8, <1>9, <1>10, <1>11, <1>12, <1>13, <1>14, <1>15, <1>16 DEF ThreadStep

\* Every step keeps the queue in order.
LEMMA QueueStep == SessionInv /\ [SessionNext]_sessionVars => QueueOK'
<1> SUFFICES ASSUME SessionInv, [SessionNext]_sessionVars PROVE QueueOK'
  OBVIOUS
<1>1. QueueOK /\ SessionTypeOK
  BY DEF SessionInv, IsolationInv
<1>2. CASE UNCHANGED sessionVars
  BY <1>1, <1>2 DEF sessionVars, QueueOK, Running, Cur, Code
<1>3. CASE ProcessDies
  <2>1. queue' = <<>>
    BY <1>3 DEF ProcessDies
  <2> QED BY <2>1 DEF QueueOK
<1>4. ASSUME NEW t \in Threads, ThreadStep(t) PROVE QueueOK'
  <2>1. /\ UNCHANGED <<script, program>> /\ \A u \in Threads \ {t} : pc[u] # 0 => pc'[u] = pc[u]
        /\ queue' = Dequeued(t) \/ (queue' = queue /\ ~Waiting(t)) \/ Wait(t)
    BY <1>4, StepMoves
  <2>2. ASSUME NEW u \in Threads \ {t}, Waiting(u)
        PROVE  Running(u)' /\ (Cur(u).op)' \in LockOps
    <3>1. Running(u) /\ Cur(u).op \in LockOps
      BY <1>1, <2>2 DEF Waiting, QueuedAt, QueueOK
    <3>2. pc'[u] = pc[u]
      BY <2>1, <3>1 DEF Running
    <3> QED BY <2>1, <3>1, <3>2 DEF Running, Cur, Code
  <2>3. CASE queue' = Dequeued(t)
    <3> DEFINE rest == Dequeued(t)
    <3>1. /\ rest \in Seq(Threads) /\ \A i, j \in 1..Len(rest) : rest[i] = rest[j] => i = j
          /\ \A i \in 1..Len(rest) : rest[i] # t /\ Waiting(rest[i])
      BY <1>1, DequeuedIs
    <3> HIDE DEF rest
    <3>2. queue' = rest
      BY <2>3 DEF rest
    <3>3. \A i \in 1..Len(rest) : rest[i] \in Threads \ {t}
      BY <3>1
    <3>4. \A i \in 1..Len(queue') : Running(queue[i])' /\ (Cur(queue[i]).op)' \in LockOps
      BY <2>2, <3>1, <3>2, <3>3 DEF Running, Cur, Code
    <3> QED BY <3>1, <3>2, <3>4 DEF QueueOK
  <2>4. CASE queue' = queue /\ ~Waiting(t)
    <3>1. \A i \in 1..Len(queue) : queue[i] \in Threads \ {t} /\ Waiting(queue[i])
      BY <1>1, <2>4 DEF QueueOK, Waiting, QueuedAt
    <3>2. \A i \in 1..Len(queue') : Running(queue[i])' /\ (Cur(queue[i]).op)' \in LockOps
      BY <2>2, <2>4, <3>1 DEF Running, Cur, Code
    <3> QED BY <1>1, <2>4, <3>2 DEF QueueOK
  <2>5. CASE Wait(t)
    <3>1. /\ queue' = Append(queue, t) /\ Running(t) /\ Cur(t).op \in LockOps /\ ~Waiting(t)
          /\ UNCHANGED <<program, pc>>
      BY <2>5 DEF Wait, LockOps
    <3>2. /\ queue' \in Seq(Threads) /\ Len(queue') = Len(queue) + 1
          /\ \A i \in 1..Len(queue) : queue'[i] = queue[i] /\ queue[i] # t
          /\ queue'[Len(queue) + 1] = t
      BY <1>1, <3>1 DEF QueueOK, Waiting, QueuedAt
    <3>3. \A i \in 1..Len(queue') : i \in 1..Len(queue) \/ i = Len(queue) + 1
      BY <1>1, <3>2 DEF QueueOK
    <3>4. \A i, j \in 1..Len(queue') : queue'[i] = queue'[j] => i = j
      BY <1>1, <3>2, <3>3 DEF QueueOK
    <3>5. \A i \in 1..Len(queue') : Running(queue[i])' /\ (Cur(queue[i]).op)' \in LockOps
      <4> SUFFICES ASSUME NEW i \in 1..Len(queue') PROVE Running(queue'[i]) /\ Cur(queue'[i]).op \in LockOps
        BY <3>1 DEF Running, Cur, Code
      <4> QED BY <1>1, <3>1, <3>2, <3>3 DEF QueueOK
    <3> QED BY <3>2, <3>4, <3>5 DEF QueueOK
  <2> QED BY <2>1, <2>3, <2>4, <2>5
<1> QED BY <1>2, <1>3, <1>4 DEF SessionNext

\* Every step of the server and of the scripts keeps the invariant.
LEMMA IsolationStep == SessionInv /\ [SessionNext]_sessionVars => IsolationInv'
<1> SUFFICES ASSUME IsolationInv, QueueOK, [SessionNext]_sessionVars PROVE IsolationInv'
  BY DEF SessionInv
<1> USE DEF IsolationInv
<1>1. CASE UNCHANGED sessionVars
  <2>1. UNCHANGED <<val, ver, tx, locks>> /\ SessionTypeOK'
    BY <1>1 DEF sessionVars, SessionTypeOK
  <2> QED BY <2>1, QuietKeeps
<1>2. CASE ProcessDies
  <2>1. /\ tx' = [s \in Sessions |-> NoTx] /\ locks' = {}
        /\ UNCHANGED <<script, program, val, ver, past, reg>>
        /\ pc' = [t \in Threads |-> Len(Code(t)) + 1] /\ err' = [t \in Threads |-> ProcessDied]
    BY <1>2 DEF ProcessDies
  <2>2. tx' \in [Sessions -> Transactions] /\ err' \in [Threads -> Int]
    BY <2>1, NoTransaction DEF ProcessDied
  <2>3. pc' \in [Threads -> Int]
    BY <2>1, CodesAreLists
  <2>4. SessionTypeOK'
    BY <2>1, <2>2, <2>3, FewerLocks DEF SessionTypeOK
  <2>5. \A s \in Sessions : tx'[s].own = <<>> /\ tx'[s].snap = <<>> /\ DOMAIN tx'[s].own = {}
    BY <2>1, NoTransaction, NoWrites
  <2>6. LocksAgree' /\ LocksEnd'
    BY <2>1 DEF LocksAgree, LocksEnd
  <2>7. WritersLock' /\ ClosedIsEmpty' /\ WritesAreFresh'
    BY <2>5 DEF WritersLock, ClosedIsEmpty, WritesAreFresh
  <2> QED BY <2>4, <2>6, <2>7
<1>3. ASSUME NEW t \in Threads, ThreadStep(t) PROVE IsolationInv'
  <2>1. Running(t) /\ IsStatement(Cur(t)) /\ Cur(t).s \in Sessions
    <3>1. Running(t)
      BY <1>3, ActsOnItsStep
    <3> QED BY <3>1, StatementAtHand DEF IsStatement
  <2> DEFINE s == Cur(t).s
  <2>2. pc \in [Threads -> Int] /\ tx \in [Sessions -> Transactions] /\ reg \in [Regs -> Int]
    BY DEF SessionTypeOK
  <2>3. CASE BeginTx(t)
    <3> DEFINE after == [NoTx EXCEPT !.open = TRUE, !.level = Cur(t).level]
    <3>1. after \in Transactions /\ after.own = <<>> /\ after.snap = <<>> /\ after.open
      BY <2>1, NoTransaction DEF Transactions, IsStatement
    <3> HIDE DEF after
    <3>2. tx' = [tx EXCEPT ![s] = after] /\ UNCHANGED <<script, program, val, ver, locks, past, err, reg>>
          /\ pc' = [pc EXCEPT ![t] = pc[t] + 1]
      BY <2>3 DEF BeginTx, Go, after
    <3>3. SessionTypeOK'
      BY <2>1, <2>2, <3>1, <3>2 DEF SessionTypeOK
    <3> QED BY <2>1, <3>1, <3>2, <3>3, EndKeeps
  <2>4. CASE RollbackTx(t) \/ DropSession(t)
    <3>1. /\ tx' = [tx EXCEPT ![s] = NoTx] /\ UNCHANGED <<script, program, val, ver, past, err, reg>>
          /\ locks' = locks \ {l \in locks : l.s = s /\ l.mode # "session"} \/ locks' = {l \in locks : l.s # s}
          /\ pc' = [pc EXCEPT ![t] = pc[t] + 1]
      BY <2>4 DEF RollbackTx, DropSession, EndTx, XactLocks, Go
    <3>2. locks' \subseteq locks /\ (\A l \in locks : l.s # s => l \in locks') /\ \A l \in locks' : l.s = s => l.mode = "session"
      BY <3>1
    <3>3. SessionTypeOK'
      BY <2>1, <2>2, <3>1, <3>2, NoTransaction, FewerLocks DEF SessionTypeOK
    <3> QED BY <2>1, <3>1, <3>2, <3>3, NoTransaction, EndKeeps
  <2>5. CASE Wait(t)
    <3> DEFINE after == IF tx[s].open THEN WithSnapshot(tx[s]) ELSE tx[s]
    <3>1. /\ after \in Transactions /\ after.own = tx[s].own /\ after.open = tx[s].open
          /\ after.snap = tx[s].snap \/ (tx[s].open /\ after.snap # <<>> /\ after.snap[1].ver = ver)
      BY <2>1, <2>2, Snapshotted
    <3> HIDE DEF after
    <3>2. tx' = [tx EXCEPT ![s] = after] /\ UNCHANGED <<script, program, val, ver, locks, past, pc, err, reg>>
      BY <2>5 DEF Wait, after
    <3>3. SessionTypeOK'
      BY <2>1, <2>2, <3>1, <3>2 DEF SessionTypeOK
    <3>4. tx'[s] = after /\ \A o \in Sessions \ {s} : tx'[o] = tx[o]
      BY <2>1, <2>2, <3>2
    <3>5. LocksAgree' /\ LocksEnd'
      BY <2>1, <3>1, <3>2, <3>4 DEF LocksAgree, LocksEnd, Conflicts, SessionTypeOK, LocksTypeOK
    <3>6. WritersLock' /\ ClosedIsEmpty'
      BY <2>1, <3>1, <3>2, <3>4 DEF WritersLock, ClosedIsEmpty
    <3>7. WritesAreFresh'
      BY <2>1, <3>1, <3>2, <3>4 DEF WritesAreFresh
    <3> QED BY <3>3, <3>5, <3>6, <3>7
  <2>6. CASE Refuse(t) \/ DeadlockVictim(t)
    <3>1. PICK code \in Int : Throw(t, code)
      BY <2>6 DEF Refuse, DeadlockVictim, LockNotAvailable, DeadlockDetected
    <3> QED BY <2>1, <3>1, ThrowKeeps
  <2>7. CASE TryLock(t)
    <3>1. CASE Blockers(t) = {}
      <4>1. Return(t, 1, tx[s].own, {})
        BY <2>7, <3>1 DEF TryLock
      <4>2. tx[s].own \in Writes /\ Effect(t, 1, tx[s].own)
        BY <2>1, <2>2 DEF Transactions, Effect
      <4> QED BY <2>1, <3>1, <4>1, <4>2, ReturnKeeps
    <3>2. CASE Blockers(t) # {}
      <4>1. /\ UNCHANGED <<script, program, val, ver, tx, locks, past, err>> /\ pc' = [pc EXCEPT ![t] = pc[t] + 1]
            /\ reg' = IF Cur(t).into \in Regs THEN [reg EXCEPT ![Cur(t).into] = 0] ELSE reg
        BY <2>7, <3>2 DEF TryLock, Go, Assign
      <4>2. SessionTypeOK'
        BY <2>2, <4>1 DEF SessionTypeOK
      <4> QED BY <4>1, <4>2, QuietKeeps
    <3> QED BY <3>1, <3>2
  <2>8. CASE Unlock(t)
    <3> DEFINE held == {l \in locks : l.s = Cur(t).s /\ l.row = Cur(t).row /\ l.mode = "session"}
               n == Cardinality(held)
    <3>1. n \in Int
      <4>1. IsFiniteSet(held)
        BY FS_Subset DEF SessionTypeOK, LocksTypeOK
      <4>2. \A S : IsFiniteSet(S) => Cardinality(S) \in Nat
        BY FS_CardinalityType
      <4> QED BY <4>1, <4>2
    <3>2. /\ locks' = locks \ held /\ UNCHANGED <<script, program, val, ver, tx, past, err>>
          /\ pc' = [pc EXCEPT ![t] = pc[t] + 1]
          /\ reg' = IF Cur(t).into \in Regs THEN [reg EXCEPT ![Cur(t).into] = n] ELSE reg
      BY <2>8 DEF Unlock, Go, Assign
    <3>3. locks' \subseteq locks /\ \A l \in locks : l.mode # "session" => l \in locks'
      BY <3>2
    <3> HIDE DEF n, held
    <3>4. SessionTypeOK'
      BY <2>2, <3>1, <3>2, <3>3, FewerLocks DEF SessionTypeOK
    <3>5. LocksAgree' /\ LocksEnd'
      BY <3>2, <3>3 DEF LocksAgree, LocksEnd, Conflicts
    <3>6. WritersLock'
      BY <3>2, <3>3 DEF WritersLock
    <3>7. ClosedIsEmpty' /\ WritesAreFresh'
      BY <3>2 DEF ClosedIsEmpty, WritesAreFresh
    <3> QED BY <3>4, <3>5, <3>6, <3>7
  <2>9. CASE StartThread(t) \/ AwaitThread(t) \/ AwaitValue(t) \/ SleepEnds(t) \/ SetVariable(t) \/ Branch(t)
    BY <2>1, <2>9, ControlKeeps
  <2>10. CASE Select(t) \/ SelectForLock(t) \/ Write(t) \/ CommitTx(t)
    BY <2>10, SelectKeeps, LockKeeps, WriteKeeps, CommitKeeps
  <2> HIDE DEF IsolationInv
  <2> QED BY <1>3, <2>3, <2>4, <2>5, <2>6, <2>7, <2>8, <2>9, <2>10 DEF ThreadStep
<1> HIDE DEF IsolationInv
<1> QED BY <1>1, <1>2, <1>3 DEF SessionNext

\* A script starts without a transaction and without a lock.
LEMMA SessionBegins == SessionInit => SessionInv
<1> SUFFICES ASSUME SessionInit PROVE SessionInv
  OBVIOUS
<1>1. SessionTypeOK
  <2>1. val \in [Rows -> Int] /\ script \in DOMAIN Scripts /\ program = Scripts[script]
    BY ScriptsAreStatements DEF SessionInit
  <2>2. tx \in [Sessions -> Transactions] /\ LocksTypeOK(locks)
    BY NoTransaction, FS_EmptySet DEF SessionInit, LocksTypeOK
  <2>3. ver \in [Rows -> Nat] /\ pc \in [Threads -> Int] /\ err \in [Threads -> Int] /\ reg \in [Regs -> Int]
    BY DEF SessionInit, Unset
  <2>4. past \in Seq([reads : SUBSET Rows, writes : SUBSET Rows])
    BY DEF SessionInit
  <2> QED BY <2>1, <2>2, <2>3, <2>4 DEF SessionTypeOK
<1>2. \A s \in Sessions : tx[s].own = <<>> /\ tx[s].snap = <<>> /\ DOMAIN tx[s].own = {}
  BY NoTransaction, NoWrites DEF SessionInit
<1>3. LocksAgree /\ LocksEnd /\ WritersLock /\ ClosedIsEmpty /\ WritesAreFresh
  BY <1>2 DEF SessionInit, LocksAgree, LocksEnd, WritersLock, ClosedIsEmpty, WritesAreFresh
<1>4. QueueOK
  BY DEF SessionInit, QueueOK
<1> QED BY <1>1, <1>3, <1>4 DEF SessionInv, IsolationInv

\* What all the theorems about sessions rest on.
LEMMA SessionInvariant == SessionSpec => []SessionInv
<1>1. SessionInit => SessionInv
  BY SessionBegins
<1>2. SessionInv /\ [SessionNext]_sessionVars => SessionInv'
  BY IsolationStep, QueueStep DEF SessionInv
<1> QED BY <1>1, <1>2, PTL DEF SessionSpec

\* What the remedies of the labs rest on, for any scripts at all.
Isolated ==
    \* Locks of two sessions on one row do not exclude each other.
    /\ \A l, m \in locks : l.row = m.row /\ l.s # m.s => <<l.mode, m.mode>> \notin Conflicts
    \* No two transactions have written the same row and not yet committed.
    /\ \A s, o \in Sessions : s # o => DOMAIN tx[s].own \cap DOMAIN tx[o].own = {}
    \* What a transaction with a snapshot has written, nobody has committed since.
    /\ \A s \in Sessions : tx[s].snap # <<>> => \A r \in DOMAIN tx[s].own : ver[r] = tx[s].snap[1].ver[r]

\* Whatever the scripts: locks of two sessions never exclude each other, no row has
\* two uncommitted writers, and a snapshot's transaction writes only rows nobody
\* has committed since (what labs 07 to 10 rely on for their remedies).
THEOREM TransactionsAreIsolated == SessionSpec => []Isolated
<1>1. SessionInv => Isolated
  <2> SUFFICES ASSUME SessionInv PROVE Isolated
    OBVIOUS
  <2>1. \A s, o \in Sessions : s # o => DOMAIN tx[s].own \cap DOMAIN tx[o].own = {}
    BY WritersAlone DEF SessionInv
  <2> QED BY <2>1 DEF Isolated, SessionInv, IsolationInv, LocksAgree, WritesAreFresh
<1> QED BY <1>1, SessionInvariant, PTL

\* A row that somebody has locked FOR UPDATE or FOR SHARE, or has written,
\* changes by the commit of its holder and by nothing else.
LockedRowsKeep ==
    [][\A l \in locks : /\ l.row \in Rows /\ l.mode \in {"share", "nokey", "update"}
                        /\ val'[l.row] # val[l.row] \/ ver'[l.row] # ver[l.row]
                        => l.row \in DOMAIN tx[l.s].own /\ tx[l.s].open /\ ~tx'[l.s].open]_sessionVars

\* The steps that change a committed row.
LEMMA ValuesChange ==
    ASSUME SessionInv, NEW t \in Threads, ThreadStep(t), NEW r \in Rows, val'[r] # val[r] \/ ver'[r] # ver[r]
    PROVE  /\ Cur(t).s \in Sessions
           /\ \/ /\ ~tx[Cur(t).s].open /\ Blockers(t) = {} /\ r = Cur(t).row
                 /\ Cur(t).op \in {"add", "set", "setif", "insert"}
              \/ /\ r \in DOMAIN tx[Cur(t).s].own /\ CommitTx(t)
                 /\ tx' = [tx EXCEPT ![Cur(t).s] = NoTx]
<1> DEFINE s == Cur(t).s
<1>1. /\ SessionTypeOK /\ Running(t) /\ IsStatement(Cur(t)) /\ s \in Sessions /\ IsolationInv
      /\ tx[s].own \in Writes
  BY ActsOnItsStep, StatementAtHand DEF SessionInv, IsolationInv, IsStatement, SessionTypeOK, Transactions
<1>2. \A code : Throw(t, code) => UNCHANGED <<val, ver>>
  BY DEF Throw
<1>3. ASSUME NEW res, NEW own \in Writes, NEW reads, Return(t, res, own, reads)
      PROVE  ~tx[s].open /\ r \in DOMAIN own
  <2>1. ~tx[s].open
    BY <1>3, ReturnInside
  <2>2. val' = Over(own, val) /\ ver' = [q \in Rows |-> ver[q] + (IF q \in DOMAIN own THEN 1 ELSE 0)]
    BY <1>3, <2>1, ReturnAlone
  <2>3. r \in DOMAIN own
    <3> SUFFICES ASSUME r \notin DOMAIN own PROVE FALSE
      OBVIOUS
    <3>1. val'[r] = val[r]
      BY <1>1, <2>2, OverIs DEF SessionTypeOK
    <3>2. ver'[r] = ver[r]
      BY <1>1, <2>2 DEF SessionTypeOK
    <3> QED BY <3>1, <3>2
  <2> QED BY <2>1, <2>3
<1>4. ~tx[s].open => tx[s].own = <<>> /\ DOMAIN tx[s].own = {}
  BY <1>1, NoWrites DEF IsolationInv, ClosedIsEmpty
<1>5. \A res, reads : ~Return(t, res, tx[s].own, reads)
  BY <1>1, <1>3, <1>4
<1>6. CASE Write(t)
  <2> DEFINE own == WithRow(tx[s].own, Cur(t).row, Written(t))
  <2>1. Return(t, 1, own, {Cur(t).row}) /\ ~RuledOut(t)
    <3> HIDE DEF own
    <3>1. CASE StaleWrite(s, Cur(t).row) /\ ~RuledOut(t)
      BY <1>2, <1>6, <3>1 DEF Write
    <3>2. CASE ~(StaleWrite(s, Cur(t).row) /\ ~RuledOut(t)) /\ (RuledOut(t) \/ ~Matches(t, Latest(s, Cur(t).row)))
      BY <1>2, <1>5, <1>6, <3>2 DEF Write
    <3>3. CASE ~(StaleWrite(s, Cur(t).row) /\ ~RuledOut(t)) /\ ~(RuledOut(t) \/ ~Matches(t, Latest(s, Cur(t).row)))
      BY <1>2, <1>6, <3>3 DEF Write, own
    <3> QED BY <3>1, <3>2, <3>3
  <2>2. Cur(t).op \in {"add", "set", "setif", "insert"} /\ Blockers(t) = {} /\ Cur(t).row \in Rows
    BY <1>1, <1>6, <2>1 DEF Write, At, IsStatement
  <2>3. Written(t) \in Int
    BY <1>1, <2>2, WrittenIsNumber
  <2>4. own \in Writes /\ DOMAIN own = DOMAIN tx[s].own \cup {Cur(t).row}
    BY <1>1, <2>2, <2>3, WithRowIs
  <2> HIDE DEF own
  <2>5. ~tx[s].open /\ r \in DOMAIN own
    BY <1>3, <2>1, <2>4
  <2> QED BY <1>1, <1>4, <2>2, <2>4, <2>5
<1>7. CASE CommitTx(t)
  <2>1. ~\E code : Throw(t, code)
    BY <1>2
  <2>2. /\ val' = IF tx[s].failed THEN val ELSE Over(tx[s].own, val)
        /\ ver' = IF tx[s].failed THEN ver
                  ELSE [q \in Rows |-> ver[q] + (IF q \in DOMAIN tx[s].own THEN 1 ELSE 0)]
        /\ tx' = [tx EXCEPT ![s] = NoTx]
    BY <1>7, <2>1 DEF CommitTx, EndTx
  <2>3. r \in DOMAIN tx[s].own
    <3> SUFFICES ASSUME r \notin DOMAIN tx[s].own PROVE FALSE
      OBVIOUS
    <3>1. val'[r] = val[r]
      BY <1>1, <2>2, OverIs DEF SessionTypeOK
    <3>2. ver'[r] = ver[r]
      BY <1>1, <2>2 DEF SessionTypeOK
    <3> QED BY <3>1, <3>2
  <2> QED BY <1>1, <1>7, <2>2, <2>3
<1>8. ~(Select(t) \/ SelectForLock(t) \/ TryLock(t))
  <2>1. ASSUME Select(t) PROVE FALSE
    BY <1>5, <2>1 DEF Select
  <2>2. ASSUME SelectForLock(t) PROVE FALSE
    BY <1>2, <1>5, <2>2 DEF SelectForLock
  <2>3. ASSUME TryLock(t) PROVE FALSE
    BY <1>5, <2>3 DEF TryLock
  <2> QED BY <2>1, <2>2, <2>3
<1>9. ~(Refuse(t) \/ DeadlockVictim(t) \/ BeginTx(t) \/ Wait(t) \/ Unlock(t) \/ RollbackTx(t) \/ DropSession(t))
  BY <1>2 DEF Refuse, DeadlockVictim, BeginTx, Wait, Unlock, RollbackTx, DropSession
<1>10. ~(StartThread(t) \/ AwaitThread(t) \/ AwaitValue(t) \/ SleepEnds(t) \/ SetVariable(t) \/ Branch(t))
  BY DEF StartThread, AwaitThread, AwaitValue, SleepEnds, SetVariable, Branch, controlVars
<1> QED BY <1>6, <1>7, <1>8, <1>9, <1>10 DEF ThreadStep

\* Whatever the scripts: between SELECT ... FOR UPDATE or FOR SHARE and COMMIT
\* (labs 10, 12, 32), and between an UPDATE and COMMIT, nobody else changes the row.
THEOREM LocksProtectRows == SessionSpec => LockedRowsKeep
<1> DEFINE Keep == \A l \in locks :
                      /\ l.row \in Rows /\ l.mode \in {"share", "nokey", "update"}
                      /\ val'[l.row] # val[l.row] \/ ver'[l.row] # ver[l.row]
                      => l.row \in DOMAIN tx[l.s].own /\ tx[l.s].open /\ ~tx'[l.s].open
<1>1. SessionInv /\ [SessionNext]_sessionVars => [Keep]_sessionVars
  <2> SUFFICES ASSUME SessionInv, SessionNext, NEW l \in locks, l.row \in Rows,
                      l.mode \in {"share", "nokey", "update"},
                      val'[l.row] # val[l.row] \/ ver'[l.row] # ver[l.row]
               PROVE  l.row \in DOMAIN tx[l.s].own /\ tx[l.s].open /\ ~tx'[l.s].open
    OBVIOUS
  <2>1. PICK t \in Threads : ThreadStep(t)
    BY DEF SessionNext, ProcessDies
  <2> DEFINE s == Cur(t).s
  <2>2. /\ s \in Sessions
        /\ \/ /\ ~tx[s].open /\ Blockers(t) = {} /\ l.row = Cur(t).row
              /\ Cur(t).op \in {"add", "set", "setif", "insert"}
           \/ l.row \in DOMAIN tx[s].own /\ tx' = [tx EXCEPT ![s] = NoTx]
    BY <2>1, ValuesChange
  <2>3. IsolationInv /\ Running(t) /\ tx \in [Sessions -> Transactions] /\ l.s \in Sessions /\ tx[l.s].open
    BY <2>1, ActsOnItsStep DEF SessionInv, IsolationInv, SessionTypeOK, LocksTypeOK, LocksEnd
  <2>4. CASE ~tx[s].open /\ Blockers(t) = {} /\ l.row = Cur(t).row /\ Cur(t).op \in {"add", "set", "setif", "insert"}
    <3>1. l.s # s
      BY <2>3, <2>4
    <3> QED BY <2>3, <2>4, <3>1, FreeToWrite
  <2>5. CASE l.row \in DOMAIN tx[s].own /\ tx' = [tx EXCEPT ![s] = NoTx]
    <3>1. l.s = s
      BY <2>2, <2>3, <2>5, WritersAlone
    <3> QED BY <2>2, <2>3, <2>5, <3>1, NoTransaction
  <2> QED BY <2>2, <2>4, <2>5
<1> QED BY <1>1, SessionInvariant, PTL DEF SessionSpec, LockedRowsKeep

-----------------------------------------------------------------------------
(* The order of locks. *)

\* A thread that waits for one of another session, which waits too.
WaitsFor(t, u) == Waiting(t) /\ Waiting(u) /\ Cur(u).s \in Blockers(t)
\* No threads wait for each other in a circle: of any that wait, one can go on.
NoDeadlock == \A S \in SUBSET Threads : S # {} => \E t \in S : \A u \in S : ~WaitsFor(t, u)

\* The labels of the plan are so when a thread gets there.
PlanKept(plan) ==
    \A t \in Legs(program.code) :
        /\ pc[t] = 0 => \A l \in locks : l.s # plan.s[t]
        /\ Running(t) =>
              /\ \A l \in locks : l.s = plan.s[t] => l.row \in plan.may[t][pc[t]] /\ l.mode # "session"
              /\ tx[plan.s[t]].open =>
                    \A r \in plan.sure[t][pc[t]] : [row |-> r, mode |-> "update", s |-> plan.s[t]] \in locks

\* A step leaves the locks and the transactions of the other sessions alone.
LEMMA OthersKeep ==
    ASSUME SessionInv, NEW t \in Threads, ThreadStep(t)
    PROVE  /\ Cur(t).op \notin SqlOps => UNCHANGED <<locks, tx>>
           /\ \A l : l.s # Cur(t).s => (l \in locks' <=> l \in locks)
           /\ \A s \in Sessions \ {Cur(t).s} : tx'[s] = tx[s]
<1>1. SessionTypeOK /\ QueueOK /\ Running(t) /\ IsStatement(Cur(t)) /\ tx \in [Sessions -> Transactions]
  BY ActsOnItsStep, StatementAtHand DEF SessionInv, IsolationInv, SessionTypeOK
<1>2. ASSUME NEW v, tx' = [tx EXCEPT ![Cur(t).s] = v] PROVE \A s \in Sessions \ {Cur(t).s} : tx'[s] = tx[s]
  BY <1>1, <1>2
<1>3. ASSUME NEW code, Throw(t, code)
      PROVE  (\A l : l.s # Cur(t).s => (l \in locks' <=> l \in locks)) /\ \A s \in Sessions \ {Cur(t).s} : tx'[s] = tx[s]
  <2>1. /\ \E v : tx' = [tx EXCEPT ![Cur(t).s] = v]
        /\ locks' = locks \/ locks' = {l \in locks : l.s # Cur(t).s}
    BY <1>3 DEF Throw
  <2> QED BY <1>2, <2>1
<1>4. ASSUME NEW res, NEW own, NEW reads, Return(t, res, own, reads)
      PROVE  (\A l : l.s # Cur(t).s => (l \in locks' <=> l \in locks)) /\ \A s \in Sessions \ {Cur(t).s} : tx'[s] = tx[s]
  <2>1. locks \subseteq locks' /\ locks' \subseteq locks \cup Took(t, res) /\ \A l \in Took(t, res) : l.s = Cur(t).s
    BY <1>4, ReturnElse DEF Took
  <2>2. (\E v : tx' = [tx EXCEPT ![Cur(t).s] = v]) \/ tx' = tx
    BY <1>4, ReturnInside, ReturnAlone
  <2> QED BY <1>2, <2>1, <2>2
<1>5. CASE Select(t)
  <2>1. \E res, own, reads : Return(t, res, own, reads)
    BY <1>5 DEF Select
  <2> QED BY <1>4, <1>5, <2>1 DEF Select, At, SqlOps
<1>6. CASE SelectForLock(t) \/ Write(t)
  <2>1. (\E code : Throw(t, code)) \/ (\E res, own, reads : Return(t, res, own, reads))
    BY <1>6 DEF SelectForLock, Write
  <2>2. Cur(t).op \in SqlOps
    BY <1>6 DEF SelectForLock, Write, At, SqlOps, LockOps
  <2> QED BY <1>3, <1>4, <2>1, <2>2
<1>7. CASE Refuse(t) \/ DeadlockVictim(t)
  <2>1. \E code : Throw(t, code)
    BY <1>7 DEF Refuse, DeadlockVictim
  <2>2. Cur(t).op \in SqlOps
    BY <1>1, <1>7 DEF Refuse, DeadlockVictim, MutualWait, Waiting, QueuedAt, QueueOK, SqlOps, LockOps
  <2> QED BY <1>3, <2>1, <2>2
<1>8. CASE TryLock(t)
  <2>1. Cur(t).op \in SqlOps
    BY <1>8 DEF TryLock, At, SqlOps
  <2>2. CASE \E res, own, reads : Return(t, res, own, reads)
    BY <1>4, <2>1, <2>2
  <2>3. CASE ~\E res, own, reads : Return(t, res, own, reads)
    BY <1>8, <2>1, <2>3 DEF TryLock
  <2> QED BY <2>2, <2>3
<1>9. CASE CommitTx(t)
  <2>1. Cur(t).op \in SqlOps
    BY <1>9 DEF CommitTx, At, SqlOps, EndOps
  <2>2. CASE \E code : Throw(t, code)
    BY <1>3, <2>1, <2>2
  <2>3. CASE ~\E code : Throw(t, code)
    <3>1. EndTx(Cur(t).s)
      BY <1>9, <2>3 DEF CommitTx
    <3> QED BY <1>2, <2>1, <3>1 DEF EndTx, XactLocks
  <2> QED BY <2>2, <2>3
<1>10. CASE BeginTx(t) \/ RollbackTx(t) \/ DropSession(t) \/ Unlock(t) \/ Wait(t)
  <2>1. Cur(t).op \in SqlOps
    BY <1>10 DEF BeginTx, RollbackTx, DropSession, Unlock, Wait, At, SqlOps, EndOps, LockOps
  <2>2. (\E v : tx' = [tx EXCEPT ![Cur(t).s] = v]) \/ tx' = tx
    BY <1>10 DEF BeginTx, RollbackTx, DropSession, Unlock, Wait, EndTx
  <2>3. \/ locks' = locks
        \/ \E L : locks' = locks \ L /\ \A l \in L : l.s = Cur(t).s
        \/ locks' = {l \in locks : l.s # Cur(t).s}
    BY <1>10 DEF BeginTx, RollbackTx, DropSession, Unlock, Wait, EndTx, XactLocks
  <2> QED BY <1>2, <2>1, <2>2, <2>3
<1>11. CASE StartThread(t) \/ AwaitThread(t) \/ AwaitValue(t) \/ SleepEnds(t) \/ SetVariable(t) \/ Branch(t)
  BY <1>11 DEF StartThread, AwaitThread, AwaitValue, SleepEnds, SetVariable, Branch, controlVars
<1> QED BY <1>5, <1>6, <1>7, <1>8, <1>9, <1>10, <1>11 DEF ThreadStep

ItsLock(t) == [row |-> Cur(t).row, mode |-> Cur(t).mode, s |-> Cur(t).s]
SameOpen(t) == tx'[Cur(t).s].open = tx[Cur(t).s].open

\* Where a step takes its thread, and what becomes of its locks.
Ways(t) ==
    \/ pc'[t] = Len(Code(t)) + 1
    \/ pc'[t] = pc[t] /\ UNCHANGED locks /\ SameOpen(t)
    \/ Catches(Cur(t), pc[t], pc'[t]) /\ UNCHANGED locks /\ SameOpen(t)
    \/ Cur(t).op \notin SqlOps /\ Follows(Cur(t), pc[t], pc'[t]) /\ UNCHANGED <<locks, tx>>
    \/ Cur(t).op = "begin" /\ pc'[t] = pc[t] + 1 /\ UNCHANGED locks
    \/ Cur(t).op \in EndOps /\ pc'[t] = pc[t] + 1 /\ locks' \subseteq {l \in locks : l.s # Cur(t).s \/ l.mode = "session"}
    \/ /\ Cur(t).op \in LockOps \cup {"read", "count"} /\ pc'[t] = pc[t] + 1 /\ SameOpen(t)
       /\ locks \subseteq locks'
       /\ \A l \in locks' \ locks :
             Cur(t).op \in LockOps /\ l = ItsLock(t) /\ (l.mode = "session" \/ tx[l.s].open)
       /\ Cur(t).op = "lock" /\ Cur(t).mode = "update" /\ tx[Cur(t).s].open => ItsLock(t) \in locks'

\* Every step takes its thread one of these ways.
LEMMA OwnWays ==
    ASSUME SessionInv, NEW t \in Threads, ThreadStep(t), Cur(t).op \notin {"try", "unlock"}
    PROVE  Ways(t)
<1> DEFINE s == Cur(t).s
<1>1. /\ SessionTypeOK /\ IsolationInv /\ QueueOK /\ Running(t) /\ IsStatement(Cur(t)) /\ s \in Sessions
      /\ tx \in [Sessions -> Transactions] /\ pc \in [Threads -> Int]
  BY ActsOnItsStep, StatementAtHand DEF SessionInv, IsolationInv, SessionTypeOK, IsStatement
<1>2. ASSUME NEW n, pc' = [pc EXCEPT ![t] = n] PROVE pc'[t] = n
  BY <1>1, <1>2
<1>3. ASSUME NEW v, tx' = [tx EXCEPT ![s] = v], v.open = tx[s].open PROVE SameOpen(t)
  BY <1>1, <1>3 DEF SameOpen
<1>4. ASSUME NEW code, Throw(t, code) PROVE Ways(t)
  <2>1. CASE Cur(t).catch = 0
    <3>1. pc' = [pc EXCEPT ![t] = Len(Code(t)) + 1]
      BY <1>4, <2>1 DEF Throw, Go
    <3> QED BY <1>2, <3>1 DEF Ways
  <2>2. CASE Cur(t).catch # 0
    <3> DEFINE failed == IF tx[s].open THEN [tx[s] EXCEPT !.failed = TRUE] ELSE tx[s]
    <3>1. pc' = [pc EXCEPT ![t] = pc[t] + Cur(t).catch] /\ UNCHANGED locks /\ tx' = [tx EXCEPT ![s] = failed]
      BY <1>4, <2>2 DEF Throw, Go
    <3>2. failed.open = tx[s].open
      BY <1>1 DEF Transactions
    <3> HIDE DEF failed
    <3>3. SameOpen(t)
      BY <1>3, <3>1, <3>2
    <3>4. pc'[t] = pc[t] + Cur(t).catch
      BY <1>2, <3>1
    <3> QED BY <2>2, <3>1, <3>3, <3>4 DEF Ways, Catches
  <2> QED BY <2>1, <2>2
<1>5. ASSUME NEW res, NEW own \in Writes, NEW reads \in SUBSET Rows, Return(t, res, own, reads),
             Cur(t).op \in LockOps \cup {"read", "count"}
      PROVE  Ways(t)
  <2>1. /\ pc' = [pc EXCEPT ![t] = pc[t] + 1]
        /\ locks \subseteq locks' /\ locks' \subseteq locks \cup Took(t, res)
    BY <1>5, ReturnElse
  <2>2. pc'[t] = pc[t] + 1
    BY <1>2, <2>1
  <2>3. \A l \in Took(t, res) : l = ItsLock(t)
    BY DEF Took, ItsLock
  <2>4. Cur(t).op \notin LockOps => Took(t, res) = {}
    BY <1>1, <1>5 DEF Took, Takes, IsStatement
  <2>5. CASE tx[s].open
    <3> DEFINE now == Noted(t, own, reads)
    <3>1. tx' = [tx EXCEPT ![s] = now] /\ locks' = locks \cup Took(t, res)
      BY <1>5, <2>5, ReturnInside
    <3>2. now.open = tx[s].open
      BY <1>1, NotedIs
    <3> HIDE DEF now
    <3>3. SameOpen(t)
      BY <1>3, <3>1, <3>2
    <3>4. Cur(t).op = "lock" /\ Cur(t).mode = "update" => ItsLock(t) \in Took(t, res)
      BY DEF Took, Takes, ItsLock
    <3>5. ItsLock(t).s = s
      BY DEF ItsLock
    <3>6. \A l \in locks' \ locks :
             Cur(t).op \in LockOps /\ l = ItsLock(t) /\ (l.mode = "session" \/ tx[l.s].open)
      BY <2>1, <2>3, <2>4, <2>5, <3>5
    <3>7. Cur(t).op = "lock" /\ Cur(t).mode = "update" /\ tx[s].open => ItsLock(t) \in locks'
      BY <3>1, <3>4
    <3> QED BY <1>5, <2>1, <2>2, <3>3, <3>6, <3>7 DEF Ways
  <2>6. CASE ~tx[s].open
    <3>1. UNCHANGED tx /\ locks' = locks \cup {l \in Took(t, res) : l.mode = "session"}
      BY <1>5, <2>6, ReturnAlone
    <3>2. SameOpen(t)
      BY <3>1 DEF SameOpen
    <3>3. \A l \in locks' \ locks :
             Cur(t).op \in LockOps /\ l = ItsLock(t) /\ (l.mode = "session" \/ tx[l.s].open)
      BY <2>3, <2>4, <3>1
    <3> QED BY <1>5, <2>1, <2>2, <2>6, <3>2, <3>3 DEF Ways
  <2> QED BY <2>5, <2>6
<1>6. tx[s].own \in Writes
  BY <1>1 DEF Transactions
<1>7. CASE Select(t)
  <2>1. Cur(t).op \in {"read", "count"} /\ Cur(t).rows \subseteq Rows /\ (Cur(t).op = "read" => {Cur(t).row} \in SUBSET Rows)
    BY <1>1, <1>7 DEF Select, At, IsStatement
  <2>2. \E res : \E reads \in SUBSET Rows : Return(t, res, tx[s].own, reads)
    BY <1>7, <2>1 DEF Select
  <2> QED BY <1>5, <1>6, <2>1, <2>2
<1>8. CASE SelectForLock(t)
  <2>1. Cur(t).op = "lock"
    BY <1>8 DEF SelectForLock, At
  <2>2. (\E code : Throw(t, code)) \/ \E res : Return(t, res, tx[s].own, {Cur(t).row} \cap Rows)
    BY <1>8 DEF SelectForLock
  <2>3. {Cur(t).row} \cap Rows \in SUBSET Rows
    OBVIOUS
  <2> QED BY <1>4, <1>5, <1>6, <2>1, <2>2, <2>3 DEF LockOps
<1>9. CASE Write(t)
  <2> DEFINE own == WithRow(tx[s].own, Cur(t).row, Written(t))
  <2>1. Cur(t).op \in LockOps /\ Cur(t).op \in {"add", "set", "setif", "insert"} /\ {Cur(t).row} \in SUBSET Rows
    BY <1>1, <1>9 DEF Write, At, IsStatement, LockOps
  <2>2. own \in Writes
    BY <1>1, <1>6, <2>1, WrittenIsNumber, WithRowIs
  <2>3. \/ \E code : Throw(t, code)
        \/ Return(t, 0, tx[s].own, {Cur(t).row})
        \/ Return(t, 1, own, {Cur(t).row})
    <3> HIDE DEF own
    <3>1. CASE StaleWrite(s, Cur(t).row) /\ ~RuledOut(t)
      BY <1>9, <3>1 DEF Write
    <3>2. CASE ~(StaleWrite(s, Cur(t).row) /\ ~RuledOut(t)) /\ (RuledOut(t) \/ ~Matches(t, Latest(s, Cur(t).row)))
      BY <1>9, <3>2 DEF Write
    <3>3. CASE ~(StaleWrite(s, Cur(t).row) /\ ~RuledOut(t)) /\ ~(RuledOut(t) \/ ~Matches(t, Latest(s, Cur(t).row)))
      BY <1>9, <3>3 DEF Write, own
    <3> QED BY <3>1, <3>2, <3>3
  <2> HIDE DEF own
  <2> QED BY <1>4, <1>5, <1>6, <2>1, <2>2, <2>3
<1>10. CASE Refuse(t) \/ DeadlockVictim(t)
  <2>1. \E code : Throw(t, code)
    BY <1>10 DEF Refuse, DeadlockVictim
  <2> QED BY <1>4, <2>1
<1>11. CASE CommitTx(t)
  <2>1. CASE \E code : Throw(t, code)
    BY <1>4, <2>1
  <2>2. CASE ~\E code : Throw(t, code)
    <3>1. Cur(t).op \in EndOps /\ EndTx(s) /\ pc' = [pc EXCEPT ![t] = pc[t] + 1]
      BY <1>11, <2>2 DEF CommitTx, At, EndOps, Go
    <3>2. pc'[t] = pc[t] + 1
      BY <1>2, <3>1
    <3> QED BY <3>1, <3>2 DEF Ways, EndTx, XactLocks
  <2> QED BY <2>1, <2>2
<1>12. CASE RollbackTx(t) \/ DropSession(t)
  <2>1. Cur(t).op \in EndOps /\ pc' = [pc EXCEPT ![t] = pc[t] + 1]
    BY <1>12 DEF RollbackTx, DropSession, At, EndOps, Go
  <2>2. pc'[t] = pc[t] + 1
    BY <1>2, <2>1
  <2>3. locks' \subseteq {l \in locks : l.s # s \/ l.mode = "session"}
    BY <1>12 DEF RollbackTx, DropSession, EndTx, XactLocks
  <2> QED BY <2>1, <2>2, <2>3 DEF Ways
<1>13. CASE BeginTx(t)
  BY <1>1, <1>13 DEF BeginTx, At, Go, Ways
<1>14. CASE Wait(t)
  <2> DEFINE v == IF tx[s].open THEN WithSnapshot(tx[s]) ELSE tx[s]
  <2>1. UNCHANGED <<pc, locks>> /\ tx' = [tx EXCEPT ![s] = v]
    BY <1>14 DEF Wait
  <2>2. v.open = tx[s].open
    BY <1>1, Snapshotted
  <2> HIDE DEF v
  <2>3. SameOpen(t)
    BY <1>3, <2>1, <2>2
  <2> QED BY <2>1, <2>3 DEF Ways
<1>15. CASE StartThread(t)
  <2>1. /\ Cur(t).op = "start" /\ UNCHANGED <<locks, tx>> /\ pc[Cur(t).into] = 0 /\ Cur(t).into \in Threads
        /\ pc' = [u \in Threads |-> IF u = Cur(t).into THEN 1 ELSE IF u = t THEN pc[u] + 1 ELSE pc[u]]
    BY <1>1, <1>15 DEF StartThread, At, controlVars, IsStatement
  <2>2. pc[t] # 0
    BY <1>1 DEF Running
  <2>3. pc'[t] = pc[t] + 1
    BY <1>1, <2>1, <2>2
  <2> QED BY <2>1, <2>3 DEF Ways, Follows, SqlOps, LockOps, EndOps
<1>16. CASE AwaitThread(t) \/ AwaitValue(t) \/ SleepEnds(t) \/ SetVariable(t)
  <2>1. /\ Cur(t).op \in {"await", "until", "sleep", "hold", "let"} /\ UNCHANGED <<locks, tx>>
        /\ pc' = [pc EXCEPT ![t] = pc[t] + 1]
    BY <1>16 DEF AwaitThread, AwaitValue, SleepEnds, SetVariable, At, Go, controlVars
  <2>2. pc'[t] = pc[t] + 1
    BY <1>2, <2>1
  <2> QED BY <2>1, <2>2 DEF Ways, Follows, SqlOps, LockOps, EndOps
<1>17. CASE Branch(t)
  <2>1. Cur(t).op \in {"goto", "atmost", "atleast", "iferror", "raise"} /\ UNCHANGED <<locks, tx>>
    BY <1>17 DEF Branch, At, controlVars
  <2>2. CASE Cur(t).op = "raise"
    <3>1. pc' = [pc EXCEPT ![t] = Len(Code(t)) + 1]
      BY <1>17, <2>2 DEF Branch, Go
    <3> QED BY <1>2, <3>1 DEF Ways
  <2>3. CASE Cur(t).op # "raise"
    <3> DEFINE taken == CASE Cur(t).op \in {"goto", "raise"} -> TRUE
                          [] Cur(t).op = "atmost" -> reg[Cur(t).from] <= Cur(t).k
                          [] Cur(t).op = "atleast" -> reg[Cur(t).from] >= Cur(t).k
                          [] Cur(t).op = "iferror" -> err[t] = Cur(t).k
    <3>1. Cur(t).op = "goto" => taken
      BY Zenon
    <3>2. pc' = [pc EXCEPT ![t] = pc[t] + (IF taken THEN Cur(t).to ELSE 1)]
      BY <1>17, <2>3, Zenon DEF Branch, Go
    <3> HIDE DEF taken
    <3>3. pc'[t] = pc[t] + (IF taken THEN Cur(t).to ELSE 1)
      BY <1>2, <3>2
    <3>4. Follows(Cur(t), pc[t], pc'[t])
      BY <2>1, <2>3, <3>1, <3>3 DEF Follows
    <3> QED BY <2>1, <3>4 DEF Ways, SqlOps, LockOps, EndOps
  <2> QED BY <2>2, <2>3
<1>18. ~(TryLock(t) \/ Unlock(t))
  BY DEF TryLock, Unlock, At
<1> QED BY <1>7, <1>8, <1>9, <1>10, <1>11, <1>12, <1>13, <1>14, <1>15, <1>16, <1>17, <1>18 DEF ThreadStep

\* What the plan says of the step at hand.
LEMMA PlannedStep ==
    ASSUME SessionTypeOK, NEW plan, LocksInOrder(program.code, plan), NEW t \in Legs(program.code), Running(t)
    PROVE  StepInOrder(t, pc[t], program.code, plan) /\ Cur(t) = program.code[t][pc[t]] /\ pc[t] \in 1..Len(program.code[t])
  BY DEF LocksInOrder, Running, Cur, Code

\* Who uses the server is a leg of the plan.
LEMMA IsLeg ==
    ASSUME NEW t \in Threads, Running(t), Cur(t).op \in SqlOps
    PROVE  t \in Legs(program.code)
  BY DEF Legs, Running, Cur, Code

\* A step of a thread keeps what the plan says of it,
LEMMA OwnStepInPlan ==
    ASSUME SessionInv, NEW plan, LocksInOrder(program.code, plan), PlanKept(plan),
           NEW t \in Legs(program.code), ThreadStep(t)
    PROVE  /\ pc'[t] # 0
           /\ pc'[t] \in 1..Len(program.code[t]) =>
                /\ \A l \in locks' : l.s = plan.s[t] => l.row \in plan.may[t][pc'[t]] /\ l.mode # "session"
                /\ tx'[plan.s[t]].open =>
                      \A r \in plan.sure[t][pc'[t]] : [row |-> r, mode |-> "update", s |-> plan.s[t]] \in locks'
<1> DEFINE step == Cur(t)
           i == pc[t]
           j == pc'[t]
           s == plan.s[t]
           may == plan.may[t]
           sure == plan.sure[t]
<1>1. /\ t \in Threads /\ SessionTypeOK /\ Running(t) /\ IsStatement(step) /\ i \in Int /\ Len(Code(t)) \in Nat
      /\ Code(t) = program.code[t] /\ step.to \in Int /\ step.catch \in Int
  BY ActsOnItsStep, StatementAtHand, CodesAreLists DEF SessionInv, IsolationInv, SessionTypeOK, Legs, IsStatement, Code
<1>2. StepInOrder(t, i, program.code, plan) /\ step = program.code[t][i] /\ i \in 1..Len(program.code[t])
  BY <1>1, PlannedStep
<1> HIDE DEF step
<1>3. /\ step.op \in SqlOps => step.s = s
      /\ step.op \notin {"try", "unlock"}
      /\ i + step.to > 0 /\ i + step.catch > 0
      /\ step.op \in LockOps => step.mode \in {"keyshare", "share", "nokey", "update"}
  BY <1>2 DEF StepInOrder
<1>4. j \in 1..Len(program.code[t]) =>
      /\ Catches(step, i, j) => may[i] \subseteq may[j] /\ sure[j] \subseteq sure[i]
      /\ Follows(step, i, j) =>
            /\ step.op \in EndOps \/ may[i] \subseteq may[j]
            /\ step.op \in LockOps => step.row \in may[j]
            /\ sure[j] \subseteq Secured(step, sure[i])
  BY <1>2 DEF StepInOrder
<1>5. /\ \A l \in locks : l.s = s => l.row \in may[i] /\ l.mode # "session"
      /\ tx[s].open => \A r \in sure[i] : [row |-> r, mode |-> "update", s |-> s] \in locks
  BY <1>1 DEF PlanKept
<1> DEFINE Goal == /\ \A l \in locks' : l.s = s => l.row \in may[j] /\ l.mode # "session"
                   /\ tx'[s].open => \A r \in sure[j] : [row |-> r, mode |-> "update", s |-> s] \in locks'
<1>6. Ways(t)
  BY <1>1, <1>3, OwnWays DEF step
<1>7. Cur(t).op \notin SqlOps => UNCHANGED <<locks, tx>>
  BY <1>1, OthersKeep
<1>8. SameOpen(t) /\ UNCHANGED locks => tx'[s].open = tx[s].open
  BY <1>3, <1>7 DEF SameOpen, step
<1> HIDE DEF j
<1>9. CASE j = Len(Code(t)) + 1
  BY <1>1, <1>9 DEF j
<1>10. CASE j = i /\ UNCHANGED locks /\ SameOpen(t)
  <2>1. j # 0 /\ tx'[s].open = tx[s].open
    BY <1>2, <1>8, <1>10
  <2>2. Goal
    BY <1>5, <1>10, <2>1
  <2> QED BY <2>1, <2>2 DEF j
<1>11. CASE Catches(step, i, j) /\ UNCHANGED locks /\ SameOpen(t)
  <2>1. j = i + step.catch
    BY <1>11 DEF Catches
  <2>2. j \in 1..Len(program.code[t]) => Goal
    BY <1>4, <1>5, <1>8, <1>11
  <2> QED BY <1>1, <1>3, <2>1, <2>2 DEF j
<1>12. CASE step.op \notin SqlOps /\ Follows(step, i, j) /\ UNCHANGED <<locks, tx>>
  <2>1. j = i + 1 \/ j = i + step.to
    BY <1>12 DEF Follows
  <2>2. Secured(step, sure[i]) = sure[i] /\ step.op \notin EndOps
    BY <1>12 DEF Secured, SqlOps, LockOps, EndOps
  <2>3. j \in 1..Len(program.code[t]) => Goal
    BY <1>4, <1>5, <1>12, <2>2
  <2> QED BY <1>1, <1>2, <1>3, <2>1, <2>3 DEF j
<1>13. CASE step.op = "begin" /\ j = i + 1 /\ UNCHANGED locks
  <2>1. Follows(step, i, j) /\ Secured(step, sure[i]) = {} /\ step.op \notin EndOps
    BY <1>13 DEF Follows, Secured, EndOps
  <2>2. j \in 1..Len(program.code[t]) => Goal
    BY <1>4, <1>5, <1>13, <2>1
  <2> QED BY <1>1, <1>2, <1>13, <2>2 DEF j
<1>14. CASE step.op \in EndOps /\ j = i + 1 /\ locks' \subseteq {l \in locks : l.s # Cur(t).s \/ l.mode = "session"}
  <2>1. Follows(step, i, j) /\ Secured(step, sure[i]) = {} /\ Cur(t).s = s
    BY <1>3, <1>14 DEF Follows, Secured, EndOps, SqlOps, step
  <2>2. \A l \in locks' : l.s # s
    BY <1>5, <1>14, <2>1
  <2>3. j \in 1..Len(program.code[t]) => Goal
    BY <1>4, <2>1, <2>2
  <2> QED BY <1>1, <1>2, <1>14, <2>3 DEF j
<1>15. CASE /\ step.op \in LockOps \cup {"read", "count"} /\ j = i + 1 /\ SameOpen(t)
            /\ locks \subseteq locks'
            /\ \A l \in locks' \ locks : step.op \in LockOps /\ l = ItsLock(t) /\ (l.mode = "session" \/ tx[l.s].open)
            /\ step.op = "lock" /\ step.mode = "update" /\ tx[Cur(t).s].open => ItsLock(t) \in locks'
  <2>1. Follows(step, i, j) /\ step.op \notin EndOps /\ Cur(t).s = s
    BY <1>3, <1>15 DEF Follows, LockOps, EndOps, SqlOps, step
  <2>2. tx'[s].open = tx[s].open
    BY <1>15, <2>1 DEF SameOpen
  <2>3. ItsLock(t) = [row |-> step.row, mode |-> step.mode, s |-> s]
    BY <2>1 DEF ItsLock, step
  <2>4. Secured(step, sure[i]) = IF step.op = "lock" /\ step.mode = "update" THEN sure[i] \cup {step.row} ELSE sure[i]
    BY <1>15 DEF Secured, LockOps, EndOps
  <2>5. ASSUME j \in 1..Len(program.code[t]) PROVE Goal
    <3>1. ASSUME NEW l \in locks', l.s = s PROVE l.row \in may[j] /\ l.mode # "session"
      <4>1. CASE l \in locks
        BY <1>4, <1>5, <2>1, <2>5, <3>1, <4>1
      <4>2. CASE l \notin locks
        <5>1. step.op \in LockOps /\ l = [row |-> step.row, mode |-> step.mode, s |-> s]
          BY <1>15, <2>3, <3>1, <4>2
        <5>2. l.row = step.row /\ l.mode = step.mode
          BY <5>1
        <5> QED BY <1>3, <1>4, <2>1, <2>5, <5>1, <5>2
      <4> QED BY <4>1, <4>2
    <3>2. ASSUME tx'[s].open, NEW r \in sure[j] PROVE [row |-> r, mode |-> "update", s |-> s] \in locks'
      <4>1. r \in Secured(step, sure[i]) /\ tx[s].open
        BY <1>4, <2>1, <2>2, <2>5, <3>2
      <4>2. CASE r \in sure[i]
        BY <1>5, <1>15, <4>1, <4>2
      <4>3. CASE r \notin sure[i]
        <5>1. step.op = "lock" /\ step.mode = "update" /\ r = step.row
          BY <2>4, <4>1, <4>3
        <5>2. ItsLock(t) \in locks'
          BY <1>15, <2>1, <4>1, <5>1
        <5> QED BY <2>3, <5>1, <5>2
      <4> QED BY <4>2, <4>3
    <3> QED BY <3>1, <3>2
  <2> QED BY <1>1, <1>2, <1>15, <2>5 DEF j
<1> QED BY <1>6, <1>9, <1>10, <1>11, <1>12, <1>13, <1>14, <1>15 DEF Ways, step, j

\* and so does a step of any other.
LEMMA OtherStepInPlan ==
    ASSUME SessionInv, NEW plan, LocksInOrder(program.code, plan), PlanKept(plan),
           NEW t \in Legs(program.code), NEW u \in Threads, u # t, ThreadStep(u)
    PROVE  /\ pc'[t] = 0 => \A l \in locks' : l.s # plan.s[t]
           /\ pc'[t] \in 1..Len(program.code[t]) =>
                /\ \A l \in locks' : l.s = plan.s[t] => l.row \in plan.may[t][pc'[t]] /\ l.mode # "session"
                /\ tx'[plan.s[t]].open =>
                      \A r \in plan.sure[t][pc'[t]] : [row |-> r, mode |-> "update", s |-> plan.s[t]] \in locks'
<1> DEFINE s == plan.s[t]
<1>1. t \in Threads /\ SessionTypeOK /\ Running(u) /\ pc[t] \in Int /\ tx \in [Sessions -> Transactions]
  BY ActsOnItsStep DEF SessionInv, IsolationInv, SessionTypeOK, Legs
<1>2. pc'[t] = pc[t] \/ (pc[t] = 0 /\ pc'[t] = 1)
  BY <1>1, StepMoves
<1>3. /\ \A l : l.s = s => (l \in locks' <=> l \in locks)
      /\ s \in Sessions => tx'[s] = tx[s]
  <2>1. CASE Cur(u).op \in SqlOps
    <3>1. u \in Legs(program.code)
      BY <1>1, <2>1, IsLeg
    <3>2. Cur(u).s = plan.s[u]
      BY <1>1, <2>1, <3>1, PlannedStep DEF StepInOrder
    <3>3. plan.s[u] # s
      BY <3>1 DEF LocksInOrder
    <3> QED BY <3>2, <3>3, OthersKeep
  <2>2. CASE Cur(u).op \notin SqlOps
    BY <2>2, OthersKeep
  <2> QED BY <2>1, <2>2
<1>4. CASE pc'[t] = pc[t]
  <2>1. CASE Running(t)
    <3>1. s \in Sessions
      <4>1. PICK i \in 1..Len(program.code[t]) : program.code[t][i].op \in SqlOps
        BY DEF Legs
      <4>2. program.code[t][i].s = s
        BY <4>1 DEF LocksInOrder, StepInOrder
      <4>3. IsStatement(program.code[t][i])
        BY <1>1, <4>1, ScriptsAreStatements DEF SessionTypeOK
      <4> QED BY <4>2, <4>3 DEF IsStatement
    <3> QED BY <1>3, <1>4, <2>1, <3>1 DEF PlanKept, Running
  <2>2. CASE ~Running(t)
    BY <1>1, <1>3, <1>4, <2>2 DEF PlanKept, Running, Code
  <2> QED BY <2>1, <2>2
<1>5. CASE pc[t] = 0 /\ pc'[t] = 1
  <2>1. \A l \in locks' : l.s # s
    BY <1>3, <1>5 DEF PlanKept
  <2>2. pc'[t] \in 1..Len(program.code[t]) => plan.sure[t][pc'[t]] = {}
    BY <1>5 DEF LocksInOrder, StepInOrder
  <2> QED BY <1>5, <2>1, <2>2
<1> QED BY <1>2, <1>4, <1>5

OrderInv(plan) == SessionInv /\ LocksInOrder(program.code, plan) /\ PlanKept(plan)

\* Nothing is locked at the start.
LEMMA OrderBegins == ASSUME NEW plan PROVE SessionInit /\ LocksInOrder(program.code, plan) => OrderInv(plan)
<1> SUFFICES ASSUME SessionInit, LocksInOrder(program.code, plan) PROVE PlanKept(plan)
  BY SessionBegins DEF OrderInv
<1>1. locks = {} /\ pc = [t \in Threads |-> IF t = "main" THEN 1 ELSE 0]
  BY DEF SessionInit
<1>2. \A t \in Legs(program.code) : Running(t) => pc[t] = 1 /\ pc[t] \in 1..Len(program.code[t])
  BY <1>1 DEF Running, Code, Legs
<1>3. \A t \in Legs(program.code) : Running(t) => plan.sure[t][pc[t]] = {}
  BY <1>2 DEF LocksInOrder, StepInOrder
<1> QED BY <1>1, <1>3 DEF PlanKept

\* No step, and no crash, breaks the plan.
LEMMA OrderStep == ASSUME NEW plan PROVE OrderInv(plan) /\ [SessionNext]_sessionVars => OrderInv(plan)'
<1> SUFFICES ASSUME OrderInv(plan), [SessionNext]_sessionVars PROVE OrderInv(plan)'
  OBVIOUS
<1>1. SessionInv /\ LocksInOrder(program.code, plan) /\ PlanKept(plan) /\ SessionTypeOK
  BY DEF OrderInv, SessionInv, IsolationInv
<1>2. SessionInv'
  BY <1>1, IsolationStep, QueueStep DEF SessionInv
<1>3. program' = program
  <2>1. ASSUME NEW t \in Threads, ThreadStep(t) PROVE program' = program
    BY <1>1, <2>1, StepMoves
  <2> QED BY <2>1 DEF SessionNext, ProcessDies, sessionVars
<1>4. CASE UNCHANGED sessionVars
  BY <1>1, <1>2, <1>4 DEF OrderInv, PlanKept, sessionVars, Running, Code
<1>5. CASE ProcessDies
  <2>1. locks' = {} /\ \A t \in Threads : pc'[t] = Len(program.code[t]) + 1 /\ Len(program.code[t]) \in Nat
    BY <1>1, <1>5, CodesAreLists DEF ProcessDies, Code
  <2>2. \A t \in Threads : pc'[t] \notin 1..Len(program.code[t])
    BY <2>1
  <2> QED BY <1>1, <1>2, <1>3, <2>1, <2>2 DEF OrderInv, PlanKept, Running, Code, Legs
<1>6. ASSUME NEW u \in Threads, ThreadStep(u) PROVE OrderInv(plan)'
  <2>1. ASSUME NEW t \in Legs(program.code)
        PROVE  /\ pc'[t] = 0 => \A l \in locks' : l.s # plan.s[t]
               /\ pc'[t] \in 1..Len(program.code[t]) =>
                    /\ \A l \in locks' : l.s = plan.s[t] => l.row \in plan.may[t][pc'[t]] /\ l.mode # "session"
                    /\ tx'[plan.s[t]].open =>
                          \A r \in plan.sure[t][pc'[t]] : [row |-> r, mode |-> "update", s |-> plan.s[t]] \in locks'
    BY <1>1, <1>6, OwnStepInPlan, OtherStepInPlan
  <2>2. PlanKept(plan)'
    BY <1>3, <2>1 DEF PlanKept, Running, Code
  <2> QED BY <1>1, <1>2, <1>3, <2>2 DEF OrderInv
<1> QED BY <1>4, <1>5, <1>6 DEF SessionNext

\* What excludes a row lock excludes FOR UPDATE.
LEMMA UpdateIsStrongest ==
    ASSUME NEW a, NEW b \in {"keyshare", "share", "nokey", "update"}, <<a, b>> \in Conflicts
    PROVE  <<a, "update">> \in Conflicts
<1>1. a \in {"keyshare", "share", "nokey", "update"}
  BY DEF Conflicts
<1>2. <<"keyshare", "update">> \in Conflicts /\ <<"share", "update">> \in Conflicts
      /\ <<"nokey", "update">> \in Conflicts /\ <<"update", "update">> \in Conflicts
  BY DEF Conflicts
<1> QED BY <1>1, <1>2

\* Who is blocked at a row has nothing but rows that come before it.
LEMMA BlockedAtTheNext ==
    ASSUME NEW plan, OrderInv(plan), NEW t \in Threads, Waiting(t), Blockers(t) # {},
           NEW l \in locks, l.s = Cur(t).s
    PROVE  l.row \in Rows /\ plan.rank[l.row] < plan.rank[Cur(t).row]
<1>1. /\ SessionTypeOK /\ IsolationInv /\ QueueOK /\ PlanKept(plan) /\ LocksInOrder(program.code, plan)
  BY DEF OrderInv, SessionInv, IsolationInv
<1>2. Running(t) /\ Cur(t).op \in LockOps
  BY <1>1 DEF Waiting, QueuedAt, QueueOK
<1>3. t \in Legs(program.code) /\ Cur(t).s = plan.s[t]
  BY <1>1, <1>2, IsLeg, PlannedStep DEF StepInOrder, SqlOps
<1>4. /\ plan.may[t][pc[t]] \subseteq Rows /\ Cur(t).mode \in {"keyshare", "share", "nokey", "update"}
      /\ \/ Cur(t).row \in plan.sure[t][pc[t]]
         \/ \A r \in plan.may[t][pc[t]] : plan.rank[r] < plan.rank[Cur(t).row]
  BY <1>1, <1>2, <1>3, PlannedStep DEF StepInOrder
<1>5. l.row \in plan.may[t][pc[t]] /\ l.mode # "session"
  BY <1>1, <1>2, <1>3 DEF PlanKept
<1>6. tx[plan.s[t]].open
  BY <1>1, <1>3, <1>5 DEF IsolationInv, LocksEnd
<1>7. ASSUME Cur(t).row \in plan.sure[t][pc[t]] PROVE FALSE
  <2> DEFINE own == [row |-> Cur(t).row, mode |-> "update", s |-> plan.s[t]]
  <2>1. own \in locks /\ own.row = Cur(t).row /\ own.s = Cur(t).s /\ own.mode = "update"
    BY <1>1, <1>2, <1>3, <1>6, <1>7 DEF PlanKept
  <2> HIDE DEF own
  <2>2. PICK m \in locks : m.row = Cur(t).row /\ m.s # Cur(t).s /\ <<m.mode, Cur(t).mode>> \in Conflicts
    BY <2>1 DEF Blockers
  <2>3. <<m.mode, "update">> \in Conflicts
    BY <1>4, <2>2, UpdateIsStrongest
  <2> QED BY <1>1, <2>1, <2>2, <2>3 DEF IsolationInv, LocksAgree
<1> QED BY <1>4, <1>5, <1>7

\* A wait leads up in the order of the rows, or to an earlier place in the queue.
LEMMA WaitsLead ==
    ASSUME NEW plan, OrderInv(plan), NEW t \in Threads, NEW u \in Threads, WaitsFor(t, u), Blockers(u) # {}
    PROVE  \/ plan.rank[Cur(t).row] < plan.rank[Cur(u).row]
           \/ Cur(t).row = Cur(u).row /\ \E i \in QueuedAt(u) : \A j \in QueuedAt(t) : i < j
<1>1. /\ Waiting(t) /\ Waiting(u) /\ QueueOK /\ SessionTypeOK /\ LocksInOrder(program.code, plan)
      /\ queue \in Seq(Threads)
  BY DEF WaitsFor, OrderInv, SessionInv, IsolationInv, QueueOK
<1>2. ASSUME NEW v \in Threads, Waiting(v)
      PROVE  v \in Legs(program.code) /\ Cur(v).s = plan.s[v] /\ Running(v)
  <2>1. Running(v) /\ Cur(v).op \in SqlOps
    BY <1>1, <1>2 DEF Waiting, QueuedAt, QueueOK, SqlOps
  <2> QED BY <1>1, <2>1, IsLeg, PlannedStep DEF StepInOrder
<1>3. CASE \E l \in locks : l.row = Cur(t).row /\ l.s = Cur(u).s
  BY <1>1, <1>3, BlockedAtTheNext
<1>4. CASE \E i \in Ahead(t) : Cur(queue[i]).row = Cur(t).row /\ Cur(queue[i]).s = Cur(u).s
  <2>1. PICK i \in Ahead(t) : Cur(queue[i]).row = Cur(t).row /\ Cur(queue[i]).s = Cur(u).s
    BY <1>4
  <2>2. i \in 1..Len(queue) /\ \A j \in QueuedAt(t) : i < j
    BY <1>1, <2>1 DEF Ahead, Waiting
  <2>3. queue[i] \in Threads /\ Waiting(queue[i])
    BY <1>1, <2>2 DEF Waiting, QueuedAt
  <2>4. queue[i] = u
    BY <1>1, <1>2, <2>1, <2>3 DEF LocksInOrder
  <2> QED BY <2>1, <2>2, <2>4 DEF QueuedAt
<1> QED BY <1>3, <1>4 DEF WaitsFor, Blockers

\* Threads that wait in a circle would wait for ever higher rows.
LEMMA NoCircles == ASSUME NEW plan PROVE OrderInv(plan) => NoDeadlock
<1> SUFFICES ASSUME OrderInv(plan), NEW S \in SUBSET Threads, S # {},
                    \A t \in S : \E u \in S : WaitsFor(t, u)
             PROVE  FALSE
  BY DEF NoDeadlock
<1> DEFINE rank(t) == plan.rank[Cur(t).row]
           Down == {4 - rank(t) : t \in S}
<1>1. ASSUME NEW t \in S
      PROVE  rank(t) \in 1..4 /\ Blockers(t) # {} /\ Waiting(t)
  <2>1. Waiting(t) /\ Blockers(t) # {} /\ t \in Threads
    BY DEF WaitsFor
  <2>2. Running(t) /\ Cur(t).op \in LockOps /\ Cur(t).op \in SqlOps
    BY <2>1 DEF OrderInv, SessionInv, QueueOK, Waiting, QueuedAt, SqlOps
  <2>3. SessionTypeOK /\ LocksInOrder(program.code, plan)
    BY DEF OrderInv, SessionInv, IsolationInv
  <2>4. Cur(t).row \in Rows
    BY <2>1, <2>2, <2>3, IsLeg, PlannedStep DEF StepInOrder
  <2> QED BY <2>1, <2>3, <2>4 DEF LocksInOrder
<1>2. PICK top \in S : \A u \in S : ~(rank(top) < rank(u))
  <2>1. Down \in SUBSET Nat /\ Down # {}
    BY <1>1
  <2>2. PICK m \in Down : \A k \in Down : ~(k < m)
    BY <2>1, LeastNumber
  <2>3. PICK t \in S : m = 4 - rank(t)
    BY <2>2
  <2>4. \A u \in S : ~(4 - rank(u) < 4 - rank(t))
    BY <2>2, <2>3
  <2>5. ASSUME NEW u \in S PROVE ~(rank(t) < rank(u))
    <3>1. rank(t) \in 1..4 /\ rank(u) \in 1..4
      BY <1>1
    <3>2. ~(4 - rank(u) < 4 - rank(t))
      BY <2>4
    <3> HIDE DEF rank
    <3> QED BY <3>1, <3>2
  <2> QED BY <2>5
<1> DEFINE Places == UNION {QueuedAt(t) : t \in {v \in S : rank(v) = rank(top)}}
<1>3. Places \in SUBSET Nat /\ Places # {}
  <2>1. \A t \in Threads : QueuedAt(t) \subseteq Nat
    BY DEF QueuedAt
  <2>2. QueuedAt(top) # {} /\ QueuedAt(top) \subseteq Places
    BY <1>1 DEF Waiting
  <2> QED BY <2>1, <2>2
<1>4. PICK m \in Places : \A k \in Places : ~(k < m)
  BY <1>3, LeastNumber
<1>5. PICK t \in S : rank(t) = rank(top) /\ m \in QueuedAt(t)
  BY <1>4
<1>6. PICK u \in S : WaitsFor(t, u)
  OBVIOUS
<1>7. \/ rank(t) < rank(u)
      \/ Cur(t).row = Cur(u).row /\ \E i \in QueuedAt(u) : \A j \in QueuedAt(t) : i < j
  BY <1>1, <1>6, WaitsLead
<1>8. Cur(t).row = Cur(u).row /\ \E i \in QueuedAt(u) : i < m
  BY <1>2, <1>5, <1>7
<1> QED BY <1>4, <1>5, <1>8

\* Whatever the scripts: if every thread takes its row locks in one order of the
\* rows (lab 32's consistent-lock-order), no threads ever wait in a circle, so
\* none of them is aborted as a deadlock victim.
THEOREM LockOrderPreventsDeadlock ==
    ASSUME NEW plan PROVE SessionSpec /\ LocksInOrder(program.code, plan) => []NoDeadlock
<1>1. SessionInit /\ LocksInOrder(program.code, plan) => OrderInv(plan)
  BY OrderBegins
<1>2. OrderInv(plan) /\ [SessionNext]_sessionVars => OrderInv(plan)'
  BY OrderStep
<1>3. OrderInv(plan) => NoDeadlock
  BY NoCircles
<1> QED BY <1>1, <1>2, <1>3, PTL DEF SessionSpec

-----------------------------------------------------------------------------
(* What a step does to the rows. *)

\* A statement that returns: in its transaction, or committed at once.
Returned(t, own, reads) ==
    /\ pc'[t] = pc[t] + 1
    /\ IF tx[Cur(t).s].open
       THEN UNCHANGED val /\ tx' = [tx EXCEPT ![Cur(t).s] = Noted(t, own, reads)]
       ELSE UNCHANGED tx /\ val' = Over(own, val)
Answers(t) ==
    /\ Cur(t).op \in {"read", "count", "lock"}
    /\ \E reads \in SUBSET Rows : Returned(t, tx[Cur(t).s].own, reads)
Misses(t) ==
    /\ Cur(t).op \in {"add", "set", "setif", "insert"}
    /\ RuledOut(t) \/ ~Matches(t, Latest(Cur(t).s, Cur(t).row))
    /\ Cur(t).op = "insert" => Cur(t).opt = "ignore"
    /\ Returned(t, tx[Cur(t).s].own, {Cur(t).row})
Stores(t) ==
    /\ Cur(t).op \in {"add", "set", "setif", "insert"} /\ Blockers(t) = {}
    /\ Matches(t, Latest(Cur(t).s, Cur(t).row))
    /\ Cur(t).opt = "nonneg" => Written(t) >= 0
    /\ Returned(t, WithRow(tx[Cur(t).s].own, Cur(t).row, Written(t)), {Cur(t).row})
\* A transaction that begins, or ends; an error that is caught, or ends the thread.
Begins(t) ==
    /\ Cur(t).op = "begin" /\ pc'[t] = pc[t] + 1 /\ UNCHANGED val
    /\ tx' = [tx EXCEPT ![Cur(t).s] = [NoTx EXCEPT !.open = TRUE, !.level = Cur(t).level]]
Commits(t) ==
    /\ Cur(t).op = "commit" /\ pc'[t] = pc[t] + 1 /\ ~tx[Cur(t).s].failed
    /\ ~IsPivot(Cur(t).s, tx[Cur(t).s].own, tx[Cur(t).s].reads)
    /\ tx' = [tx EXCEPT ![Cur(t).s] = NoTx] /\ val' = Over(tx[Cur(t).s].own, val)
GivesUp(t) ==
    /\ Cur(t).op \in EndOps /\ pc'[t] = pc[t] + 1 /\ UNCHANGED val
    /\ tx' = [tx EXCEPT ![Cur(t).s] = NoTx]
Fails(t) ==
    /\ Cur(t).op \in SqlOps /\ UNCHANGED val
    /\ \/ /\ Catches(Cur(t), pc[t], pc'[t])
          /\ tx' = [tx EXCEPT ![Cur(t).s] = IF @.open THEN [@ EXCEPT !.failed = TRUE] ELSE @]
       \/ pc'[t] = Len(Code(t)) + 1 /\ tx' = [tx EXCEPT ![Cur(t).s] = NoTx]
\* A statement that queues, and a step that is none of the server's.
Queues(t) ==
    /\ Cur(t).op \in LockOps /\ pc'[t] = pc[t] /\ UNCHANGED val
    /\ tx' = [tx EXCEPT ![Cur(t).s] = IF @.open THEN WithSnapshot(@) ELSE @]
Controls(t) ==
    /\ Cur(t).op \notin SqlOps /\ UNCHANGED <<val, tx>>
    /\ Follows(Cur(t), pc[t], pc'[t]) \/ pc'[t] = Len(Code(t)) + 1

\* Every step is one of these.
LEMMA StepsAre ==
    ASSUME SessionInv, NEW t \in Threads, ThreadStep(t), Cur(t).op \notin {"try", "unlock"}
    PROVE  \/ Answers(t) \/ Misses(t) \/ Stores(t) \/ Begins(t) \/ Commits(t)
           \/ GivesUp(t) \/ Fails(t) \/ Queues(t) \/ Controls(t)
<1> DEFINE s == Cur(t).s
           Done == \/ Answers(t) \/ Misses(t) \/ Stores(t) \/ Begins(t) \/ Commits(t)
                   \/ GivesUp(t) \/ Fails(t) \/ Queues(t) \/ Controls(t)
<1>1. /\ SessionTypeOK /\ IsolationInv /\ QueueOK /\ Running(t) /\ IsStatement(Cur(t)) /\ s \in Sessions
      /\ tx \in [Sessions -> Transactions] /\ pc \in [Threads -> Int] /\ pc[t] \in Int
  BY ActsOnItsStep, StatementAtHand DEF SessionInv, IsolationInv, SessionTypeOK, IsStatement
<1>2. ASSUME NEW n, pc' = [pc EXCEPT ![t] = n] PROVE pc'[t] = n
  BY <1>1, <1>2
<1>3. ASSUME NEW code, Throw(t, code), Cur(t).op \in SqlOps PROVE Fails(t)
  <2>1. CASE Cur(t).catch = 0
    <3>1. pc' = [pc EXCEPT ![t] = Len(Code(t)) + 1] /\ UNCHANGED val /\ tx' = [tx EXCEPT ![s] = NoTx]
      BY <1>3, <2>1 DEF Throw, Go
    <3>2. pc'[t] = Len(Code(t)) + 1
      BY <1>2, <3>1
    <3> QED BY <1>3, <3>1, <3>2 DEF Fails
  <2>2. CASE Cur(t).catch # 0
    <3>1. /\ pc' = [pc EXCEPT ![t] = pc[t] + Cur(t).catch] /\ UNCHANGED val
          /\ tx' = [tx EXCEPT ![s] = IF @.open THEN [@ EXCEPT !.failed = TRUE] ELSE @]
      BY <1>3, <2>2 DEF Throw, Go
    <3>2. pc'[t] = pc[t] + Cur(t).catch
      BY <1>2, <3>1
    <3> QED BY <1>3, <2>2, <3>1, <3>2 DEF Fails, Catches
  <2> QED BY <2>1, <2>2
<1>4. ASSUME NEW res, NEW own, NEW reads, Return(t, res, own, reads) PROVE Returned(t, own, reads)
  <2>1. pc'[t] = pc[t] + 1
    BY <1>2, <1>4, ReturnElse
  <2> QED BY <1>4, <2>1, ReturnInside, ReturnAlone DEF Returned
<1>5. CASE Select(t)
  <2>1. Cur(t).op \in {"read", "count"} /\ Cur(t).rows \subseteq Rows /\ (Cur(t).op = "read" => {Cur(t).row} \in SUBSET Rows)
    BY <1>1, <1>5 DEF Select, At, IsStatement
  <2>2. \E res : \E reads \in SUBSET Rows : Return(t, res, tx[s].own, reads)
    BY <1>5, <2>1 DEF Select
  <2> QED BY <1>4, <2>1, <2>2 DEF Answers
<1>6. CASE SelectForLock(t)
  <2>1. Cur(t).op = "lock"
    BY <1>6 DEF SelectForLock, At
  <2>2. (\E code : Throw(t, code)) \/ \E res : Return(t, res, tx[s].own, {Cur(t).row} \cap Rows)
    BY <1>6 DEF SelectForLock
  <2>3. {Cur(t).row} \cap Rows \in SUBSET Rows
    OBVIOUS
  <2> QED BY <1>3, <1>4, <2>1, <2>2, <2>3 DEF Answers, SqlOps, LockOps
<1>7. CASE Write(t)
  <2> DEFINE own == WithRow(tx[s].own, Cur(t).row, Written(t))
  <2> HIDE DEF own
  <2>1. Cur(t).op \in {"add", "set", "setif", "insert"} /\ Cur(t).op \in SqlOps
    BY <1>7 DEF Write, At, SqlOps, LockOps
  <2>2. ASSUME NEW code, Throw(t, code) PROVE Done
    BY <1>3, <2>1, <2>2
  <2>3. CASE StaleWrite(s, Cur(t).row) /\ ~RuledOut(t)
    BY <1>7, <2>2, <2>3 DEF Write
  <2>4. CASE ~(StaleWrite(s, Cur(t).row) /\ ~RuledOut(t)) /\ (RuledOut(t) \/ ~Matches(t, Latest(s, Cur(t).row)))
    <3>1. CASE Cur(t).op = "insert" /\ Cur(t).opt # "ignore"
      BY <1>7, <2>2, <2>4, <3>1 DEF Write
    <3>2. CASE ~(Cur(t).op = "insert" /\ Cur(t).opt # "ignore")
      <4>1. Return(t, 0, tx[s].own, {Cur(t).row})
        BY <1>7, <2>4, <3>2 DEF Write
      <4> QED BY <1>4, <2>1, <2>4, <3>2, <4>1 DEF Misses
    <3> QED BY <3>1, <3>2
  <2>5. CASE ~(StaleWrite(s, Cur(t).row) /\ ~RuledOut(t)) /\ ~(RuledOut(t) \/ ~Matches(t, Latest(s, Cur(t).row)))
    <3>1. CASE (Cur(t).opt = "nonneg" /\ Written(t) < 0) \/ \E code : Throw(t, code)
      BY <1>7, <2>2, <2>5, <3>1 DEF Write
    <3>2. CASE ~(Cur(t).opt = "nonneg" /\ Written(t) < 0) /\ ~\E code : Throw(t, code)
      <4>1. Return(t, 1, own, {Cur(t).row}) /\ Blockers(t) = {}
        BY <1>7, <2>5, <3>2 DEF Write, own
      <4>2. Written(t) \in Int
        BY <1>1, <2>1, WrittenIsNumber
      <4>3. Cur(t).opt = "nonneg" => Written(t) >= 0
        BY <3>2, <4>2
      <4> QED BY <1>4, <2>1, <2>5, <4>1, <4>3 DEF Stores, own
    <3> QED BY <3>1, <3>2
  <2> QED BY <2>3, <2>4, <2>5
<1>8. CASE Refuse(t) \/ DeadlockVictim(t)
  <2>1. \E code : Throw(t, code)
    BY <1>8 DEF Refuse, DeadlockVictim
  <2>2. Cur(t).op \in SqlOps
    BY <1>1, <1>8 DEF Refuse, DeadlockVictim, MutualWait, Waiting, QueuedAt, QueueOK, SqlOps, LockOps
  <2> QED BY <1>3, <2>1, <2>2
<1>9. CASE CommitTx(t)
  <2>1. Cur(t).op = "commit" /\ Cur(t).op \in EndOps /\ Cur(t).op \in SqlOps
    BY <1>9 DEF CommitTx, At, SqlOps, EndOps
  <2>2. CASE \E code : Throw(t, code)
    BY <1>3, <2>1, <2>2
  <2>3. CASE ~\E code : Throw(t, code)
    <3>1. /\ tx' = [tx EXCEPT ![s] = NoTx] /\ pc' = [pc EXCEPT ![t] = pc[t] + 1]
          /\ val' = IF tx[s].failed THEN val ELSE Over(tx[s].own, val)
          /\ tx[s].failed \/ ~IsPivot(s, tx[s].own, tx[s].reads)
      BY <1>9, <2>3 DEF CommitTx, EndTx, Go
    <3>2. pc'[t] = pc[t] + 1
      BY <1>2, <3>1
    <3> QED BY <2>1, <3>1, <3>2 DEF Commits, GivesUp
  <2> QED BY <2>2, <2>3
<1>10. CASE RollbackTx(t) \/ DropSession(t)
  <2>1. Cur(t).op \in EndOps /\ UNCHANGED val /\ tx' = [tx EXCEPT ![s] = NoTx] /\ pc' = [pc EXCEPT ![t] = pc[t] + 1]
    BY <1>10 DEF RollbackTx, DropSession, EndTx, At, EndOps, Go
  <2>2. pc'[t] = pc[t] + 1
    BY <1>2, <2>1
  <2> QED BY <2>1, <2>2 DEF GivesUp
<1>11. CASE BeginTx(t)
  <2>1. pc' = [pc EXCEPT ![t] = pc[t] + 1]
    BY <1>11 DEF BeginTx, Go
  <2>2. pc'[t] = pc[t] + 1
    BY <1>2, <2>1
  <2> QED BY <1>11, <2>2 DEF BeginTx, Begins, At
<1>12. CASE Wait(t)
  BY <1>12 DEF Wait, Queues, LockOps
<1>13. CASE StartThread(t)
  <2>1. /\ Cur(t).op = "start" /\ UNCHANGED <<val, tx>> /\ pc[Cur(t).into] = 0 /\ Cur(t).into \in Threads
        /\ pc' = [u \in Threads |-> IF u = Cur(t).into THEN 1 ELSE IF u = t THEN pc[u] + 1 ELSE pc[u]]
    BY <1>1, <1>13 DEF StartThread, At, controlVars, IsStatement
  <2>2. pc[t] # 0
    BY <1>1 DEF Running
  <2>3. pc'[t] = pc[t] + 1
    BY <1>1, <2>1, <2>2
  <2> QED BY <2>1, <2>3 DEF Controls, Follows, SqlOps, LockOps, EndOps
<1>14. CASE AwaitThread(t) \/ AwaitValue(t) \/ SleepEnds(t) \/ SetVariable(t)
  <2>1. /\ Cur(t).op \in {"await", "until", "sleep", "hold", "let"} /\ UNCHANGED <<val, tx>>
        /\ pc' = [pc EXCEPT ![t] = pc[t] + 1]
    BY <1>14 DEF AwaitThread, AwaitValue, SleepEnds, SetVariable, At, Go, controlVars
  <2>2. pc'[t] = pc[t] + 1
    BY <1>2, <2>1
  <2> QED BY <2>1, <2>2 DEF Controls, Follows, SqlOps, LockOps, EndOps
<1>15. CASE Branch(t)
  <2>1. Cur(t).op \in {"goto", "atmost", "atleast", "iferror", "raise"} /\ UNCHANGED <<val, tx>>
    BY <1>15 DEF Branch, At, controlVars
  <2>2. Cur(t).op \notin SqlOps
    BY <2>1 DEF SqlOps, LockOps, EndOps
  <2>3. CASE Cur(t).op = "raise"
    <3>1. pc' = [pc EXCEPT ![t] = Len(Code(t)) + 1]
      BY <1>15, <2>3 DEF Branch, Go
    <3>2. pc'[t] = Len(Code(t)) + 1
      BY <1>2, <3>1
    <3> QED BY <2>1, <2>2, <3>2 DEF Controls
  <2>4. CASE Cur(t).op # "raise"
    <3> DEFINE taken == CASE Cur(t).op \in {"goto", "raise"} -> TRUE
                          [] Cur(t).op = "atmost" -> reg[Cur(t).from] <= Cur(t).k
                          [] Cur(t).op = "atleast" -> reg[Cur(t).from] >= Cur(t).k
                          [] Cur(t).op = "iferror" -> err[t] = Cur(t).k
    <3>1. Cur(t).op = "goto" => taken
      BY Zenon
    <3>2. pc' = [pc EXCEPT ![t] = pc[t] + (IF taken THEN Cur(t).to ELSE 1)]
      BY <1>15, <2>4, Zenon DEF Branch, Go
    <3> HIDE DEF taken
    <3>3. pc'[t] = pc[t] + (IF taken THEN Cur(t).to ELSE 1)
      BY <1>2, <3>2
    <3>4. Follows(Cur(t), pc[t], pc'[t])
      BY <2>1, <2>4, <3>1, <3>3 DEF Follows
    <3> QED BY <2>1, <2>2, <3>4 DEF Controls
  <2> QED BY <2>3, <2>4
<1>16. ~(TryLock(t) \/ Unlock(t))
  BY DEF TryLock, Unlock, At
<1> QED BY <1>5, <1>6, <1>7, <1>8, <1>9, <1>10, <1>11, <1>12, <1>13, <1>14, <1>15, <1>16 DEF ThreadStep

\* What session s has written, and whether it is in a transaction, stays.
Unmoved(s) == tx'[s].own = tx[s].own /\ tx'[s].open = tx[s].open /\ tx'[s].failed = tx[s].failed
\* A step that only asks, waits or branches leaves the rows and every transaction's writes.
LEMMA QuietRows ==
    ASSUME SessionInv, NEW t \in Threads, Running(t), Answers(t) \/ Misses(t) \/ Queues(t) \/ Controls(t)
    PROVE  val' = val /\ \A s \in Sessions : Unmoved(s)
<1> DEFINE s == Cur(t).s
<1>1. /\ SessionTypeOK /\ IsolationInv /\ IsStatement(Cur(t)) /\ s \in Sessions /\ tx \in [Sessions -> Transactions]
  BY StatementAtHand DEF SessionInv, IsolationInv, SessionTypeOK, IsStatement
<1>2. ASSUME NEW reads \in SUBSET Rows, Returned(t, tx[s].own, reads)
      PROVE  val' = val /\ \A o \in Sessions : Unmoved(o)
  <2> DEFINE own == tx[s].own
  <2>1. own \in Writes
    BY <1>1 DEF Transactions
  <2>2. CASE tx[s].open
    <3> DEFINE now == Noted(t, own, reads)
    <3>1. now.own = own /\ now.open = tx[s].open /\ now.failed = tx[s].failed
      BY <1>1, <2>1, NotedIs
    <3> HIDE DEF now
    <3>2. val' = val /\ tx' = [tx EXCEPT ![s] = now]
      BY <1>2, <2>2 DEF Returned, now
    <3>3. tx'[s] = now /\ \A o \in Sessions \ {s} : tx'[o] = tx[o]
      BY <1>1, <3>2
    <3> QED BY <3>1, <3>2, <3>3 DEF Unmoved
  <2>3. CASE ~tx[s].open
    <3>1. tx' = tx /\ val' = Over(own, val)
      BY <1>2, <2>3 DEF Returned
    <3>2. DOMAIN own = {}
      BY <1>1, <2>3, NoWrites DEF IsolationInv, ClosedIsEmpty
    <3>3. val \in [Rows -> Int]
      BY <1>1 DEF SessionTypeOK
    <3>4. Over(own, val) \in [Rows -> Int] /\ \A r \in Rows : Over(own, val)[r] = val[r]
      BY <2>1, <3>2, <3>3, OverIs
    <3> QED BY <3>1, <3>3, <3>4 DEF Unmoved
  <2> QED BY <2>2, <2>3
<1>3. CASE Answers(t)
  BY <1>2, <1>3 DEF Answers
<1>4. CASE Misses(t)
  <2>1. {Cur(t).row} \in SUBSET Rows
    BY <1>1, <1>4 DEF Misses, IsStatement
  <2> QED BY <1>2, <1>4, <2>1 DEF Misses
<1>5. CASE Queues(t)
  <2> DEFINE after == IF tx[s].open THEN WithSnapshot(tx[s]) ELSE tx[s]
  <2>1. after.own = tx[s].own /\ after.open = tx[s].open /\ after.failed = tx[s].failed
    BY <1>1, Snapshotted
  <2> HIDE DEF after
  <2>2. val' = val /\ tx' = [tx EXCEPT ![s] = after]
    BY <1>5 DEF Queues, after
  <2>3. tx'[s] = after /\ \A o \in Sessions \ {s} : tx'[o] = tx[o]
    BY <1>1, <2>2
  <2> QED BY <2>1, <2>2, <2>3 DEF Unmoved
<1>6. CASE Controls(t)
  BY <1>6 DEF Controls, Unmoved
<1> QED BY <1>3, <1>4, <1>5, <1>6

\* A statement that writes its row: in the transaction's own eyes, or for all at once.
LEMMA StoredRows ==
    ASSUME SessionInv, NEW t \in Threads, Running(t), Stores(t), NEW s \in Sessions, s = Cur(t).s
    PROVE  /\ Cur(t).row \in Rows /\ Written(t) \in Int
           /\ \A o \in Sessions \ {s} : tx'[o] = tx[o] /\ Cur(t).row \notin DOMAIN tx[o].own
           /\ tx'[s].open = tx[s].open /\ tx'[s].failed = tx[s].failed
           /\ \A r \in Rows : Latest(s, r)' = IF r = Cur(t).row THEN Written(t) ELSE Latest(s, r)
           /\ tx[s].open => val' = val
           /\ ~tx[s].open => tx' = tx /\ \A r \in Rows : val'[r] = IF r = Cur(t).row THEN Written(t) ELSE val[r]
<1> DEFINE row == Cur(t).row
           w == Written(t)
           own == WithRow(tx[s].own, row, w)
<1>1. /\ SessionTypeOK /\ IsolationInv /\ IsStatement(Cur(t)) /\ tx \in [Sessions -> Transactions]
      /\ Cur(t).op \in {"add", "set", "setif", "insert"} /\ Blockers(t) = {}
      /\ val \in [Rows -> Int] /\ tx[s].own \in Writes
  BY StatementAtHand DEF SessionInv, IsolationInv, SessionTypeOK, Stores, Transactions
<1>2. row \in Rows /\ w \in Int /\ {row} \in SUBSET Rows
  BY <1>1, WrittenIsNumber DEF IsStatement
<1>3. \A o \in Sessions \ {s} : row \notin DOMAIN tx[o].own
  BY <1>1, FreeToWrite
<1> HIDE DEF w
<1>4. /\ own \in Writes /\ DOMAIN own = DOMAIN tx[s].own \cup {row}
      /\ \A r \in DOMAIN own : own[r] = IF r = row THEN w ELSE tx[s].own[r]
  <2>2. own \in Writes /\ DOMAIN own = DOMAIN tx[s].own \cup {row}
    BY <1>1, <1>2, WithRowIs
  <2>3. own = [r \in DOMAIN tx[s].own \cup {row} |-> IF r = row THEN w ELSE tx[s].own[r]]
    BY DEF WithRow
  <2> HIDE DEF own
  <2> QED BY <2>2, <2>3
<1>5. Returned(t, own, {row})
  BY DEF Stores, w
<1> HIDE DEF own
<1>6. CASE tx[s].open
  <2> DEFINE now == Noted(t, own, {row})
  <2>1. now.own = own /\ now.open = tx[s].open /\ now.failed = tx[s].failed
    BY <1>1, <1>2, <1>4, NotedIs
  <2> HIDE DEF now
  <2>2. val' = val /\ tx' = [tx EXCEPT ![s] = now]
    BY <1>5, <1>6 DEF Returned, now
  <2>3. tx'[s] = now /\ \A o \in Sessions \ {s} : tx'[o] = tx[o]
    BY <1>1, <2>2
  <2>4. \A r \in Rows : Latest(s, r)' = IF r = row THEN w ELSE Latest(s, r)
    BY <1>4, <2>1, <2>2, <2>3 DEF Latest
  <2> QED BY <1>2, <1>3, <1>6, <2>1, <2>2, <2>3, <2>4 DEF w
<1>7. CASE ~tx[s].open
  <2>1. tx' = tx /\ val' = Over(own, val)
    BY <1>5, <1>7 DEF Returned
  <2>2. DOMAIN tx[s].own = {}
    BY <1>1, <1>7, NoWrites DEF IsolationInv, ClosedIsEmpty
  <2>3. \A r \in Rows : val'[r] = IF r = row THEN w ELSE val[r]
    BY <1>4, <2>1, <2>2 DEF Over
  <2>4. \A r \in Rows : Latest(s, r)' = IF r = row THEN w ELSE Latest(s, r)
    BY <2>1, <2>2, <2>3 DEF Latest
  <2> QED BY <1>2, <1>3, <1>7, <2>1, <2>3, <2>4 DEF w
<1> QED BY <1>6, <1>7

\* COMMIT shows everybody what the transaction saw, and nothing anybody else has written.
LEMMA CommittedRows ==
    ASSUME SessionInv, NEW t \in Threads, Running(t), Commits(t), NEW s \in Sessions, s = Cur(t).s
    PROVE  /\ tx'[s] = NoTx /\ \A o \in Sessions \ {s} : tx'[o] = tx[o]
           /\ \A r \in Rows : val'[r] = Latest(s, r)
           /\ \A o \in Sessions \ {s} : \A r \in DOMAIN tx[o].own : val'[r] = val[r]
<1>1. /\ SessionTypeOK /\ IsolationInv /\ tx \in [Sessions -> Transactions] /\ val \in [Rows -> Int]
      /\ tx' = [tx EXCEPT ![s] = NoTx] /\ val' = Over(tx[s].own, val)
  BY DEF SessionInv, IsolationInv, SessionTypeOK, Commits
<1>2. \A r \in Rows : val'[r] = Latest(s, r)
  BY <1>1 DEF Over, Latest
<1>3. ASSUME NEW o \in Sessions \ {s}, NEW r \in DOMAIN tx[o].own PROVE val'[r] = val[r]
  <2>1. r \notin DOMAIN tx[s].own /\ r \in Rows
    BY <1>1, WritersAlone, WritesAre DEF Transactions
  <2> QED BY <1>2, <2>1 DEF Latest
<1> QED BY <1>1, <1>2, <1>3

\* What the steps of the other sessions leave a transaction.
LEMMA OthersRows ==
    ASSUME SessionInv, NEW t \in Threads, ThreadStep(t), Cur(t).op \notin {"try", "unlock"},
           NEW o \in Sessions, Cur(t).op \in SqlOps => o # Cur(t).s
    PROVE  tx'[o] = tx[o] /\ \A r \in DOMAIN tx[o].own : val'[r] = val[r]
<1>1. /\ Running(t) /\ SessionTypeOK /\ tx \in [Sessions -> Transactions] /\ IsStatement(Cur(t)) /\ Cur(t).s \in Sessions
  <2>1. Running(t) /\ SessionTypeOK /\ tx \in [Sessions -> Transactions]
    BY ActsOnItsStep DEF SessionInv, IsolationInv, SessionTypeOK
  <2> QED BY <2>1, StatementAtHand DEF IsStatement
<1>2. CASE Controls(t)
  BY <1>2 DEF Controls
<1>3. CASE Cur(t).op \in SqlOps
  <2>1. PICK s \in Sessions : s = Cur(t).s
    BY <1>1
  <2>2. CASE Answers(t) \/ Misses(t) \/ Queues(t)
    <3>1. val' = val
      BY <1>1, <2>2, QuietRows
    <3>2. tx' = tx \/ \E after : tx' = [tx EXCEPT ![s] = after]
      BY <2>1, <2>2 DEF Answers, Misses, Queues, Returned
    <3> QED BY <1>1, <1>3, <2>1, <3>1, <3>2
  <2>3. CASE Stores(t)
    <3>1. /\ tx'[o] = tx[o] /\ Cur(t).row \notin DOMAIN tx[o].own
          /\ tx[s].open => val' = val
          /\ ~tx[s].open => \A r \in Rows : val'[r] = IF r = Cur(t).row THEN Written(t) ELSE val[r]
      BY <1>1, <1>3, <2>1, <2>3, StoredRows
    <3>2. DOMAIN tx[o].own \subseteq Rows
      BY <1>1, WritesAre DEF Transactions
    <3> QED BY <3>1, <3>2
  <2>4. CASE Commits(t)
    BY <1>1, <1>3, <2>1, <2>4, CommittedRows
  <2>5. CASE Begins(t) \/ GivesUp(t) \/ Fails(t)
    <3>1. val' = val /\ \E after : tx' = [tx EXCEPT ![s] = after]
      BY <2>1, <2>5 DEF Begins, GivesUp, Fails
    <3> QED BY <1>1, <1>3, <2>1, <3>1
  <2> QED BY <1>2, <2>2, <2>3, <2>4, <2>5, StepsAre
<1> QED BY <1>2, <1>3, StepsAre DEF Answers, Misses, Stores, Begins, Commits, GivesUp, Fails, Queues, SqlOps, LockOps, EndOps

\* A transaction that begins, ends or fails has written nothing, or nothing more.
LEMMA EndsOrKeeps ==
    ASSUME SessionInv, NEW t \in Threads, Begins(t) \/ GivesUp(t) \/ Fails(t), NEW s \in Sessions, s = Cur(t).s
    PROVE  DOMAIN tx'[s].own = {} \/ tx'[s].own = tx[s].own
<1> DEFINE new == [NoTx EXCEPT !.open = TRUE, !.level = Cur(t).level]
           failed == IF tx[s].open THEN [tx[s] EXCEPT !.failed = TRUE] ELSE tx[s]
<1>1. tx \in [Sessions -> Transactions]
  BY DEF SessionInv, IsolationInv, SessionTypeOK
<1>2. new.own = <<>> /\ NoTx.own = <<>> /\ failed.own = tx[s].own
  BY <1>1, NoTransaction DEF Transactions
<1> HIDE DEF new, failed
<1>3. \E after \in {new, failed, NoTx} : tx' = [tx EXCEPT ![s] = after]
  BY DEF Begins, GivesUp, Fails, new, failed
<1> QED BY <1>1, <1>2, <1>3, NoWrites

-----------------------------------------------------------------------------
(* Money that is only moved. *)

\* What the transaction of a session adds to the accounts.
Gain(s) == (Latest(s, "x") - val["x"]) + (Latest(s, "y") - val["y"])

\* Where a session is in the plan of what its transactions add.
InBalance(plan, s) ==
    LET t == plan.user[s]
        i == pc[t]
    IN  /\ i = 0 => ~tx[s].open
        /\ i \in 1..Len(Code(t)) =>
              /\ plan.open[s][i] => tx[s].open
              /\ tx[s].open /\ ~tx[s].failed => Gain(s) = plan.net[s][i]
NothingIsOwed == \A r \in Accounts : val[r] >= 0 /\ \A s \in Sessions : Latest(s, r) >= 0
NothingIsLost == val["x"] + val["y"] = program.rows["x"] + program.rows["y"]
MoneyInv(plan) ==
    /\ SessionInv /\ Balanced(program, plan)
    /\ NothingIsOwed /\ NothingIsLost /\ \A s \in Sessions : InBalance(plan, s)

\* A thread that uses sessions of its own is never before its start.
LEMMA NeverBeforeTheStart ==
    ASSUME SessionInv, NEW user, OneThreadEach(program.code, user), NEW t \in Threads, ThreadStep(t)
    PROVE  /\ Running(t) /\ Cur(t) = program.code[t][pc[t]] /\ pc[t] \in 1..Len(Code(t))
           /\ Cur(t).op \notin {"try", "unlock"} /\ Cur(t).s \in Sessions
           /\ Cur(t).op \in SqlOps => user[Cur(t).s] = t
           /\ pc'[t] # 0
<1>1. Running(t) /\ Cur(t) = program.code[t][pc[t]] /\ pc[t] \in 1..Len(Code(t)) /\ Code(t) = program.code[t]
  BY ActsOnItsStep DEF SessionInv, Running, Cur, Code
<1>2. IsStatement(Cur(t)) /\ Len(Code(t)) \in Nat /\ pc[t] \in Int
  BY <1>1, StatementAtHand, CodesAreLists DEF SessionInv, IsolationInv, SessionTypeOK
<1>3. /\ Cur(t).op \notin {"try", "unlock"} /\ (Cur(t).op \in SqlOps => user[Cur(t).s] = t)
      /\ pc[t] + Cur(t).to > 0 /\ pc[t] + Cur(t).catch > 0
  BY <1>1 DEF OneThreadEach
<1>4. Cur(t).s \in Sessions /\ Cur(t).to \in Int /\ Cur(t).catch \in Int
  BY <1>2 DEF IsStatement
<1>5. \/ pc'[t] = pc[t] + 1 \/ pc'[t] = pc[t] \/ pc'[t] = Len(Code(t)) + 1
      \/ Catches(Cur(t), pc[t], pc'[t]) \/ Follows(Cur(t), pc[t], pc'[t])
  BY <1>3, StepsAre DEF Answers, Misses, Stores, Begins, Commits, GivesUp, Fails, Queues, Controls, Returned
<1>6. pc'[t] # 0
  BY <1>1, <1>2, <1>3, <1>4, <1>5 DEF Catches, Follows
<1> QED BY <1>1, <1>3, <1>4, <1>6

\* What a statement of another session leaves the transaction of a session.
LEMMA GainIsMine ==
    ASSUME NEW plan, MoneyInv(plan), NEW t \in Threads, ThreadStep(t), NEW s \in Sessions,
           Cur(t).op \in SqlOps => Cur(t).s # s
    PROVE  tx'[s] = tx[s] /\ Gain(s)' = Gain(s)
<1>1. SessionInv /\ OneThreadEach(program.code, plan.user)
  BY DEF MoneyInv, Balanced
<1>2. tx'[s] = tx[s] /\ \A r \in DOMAIN tx[s].own : val'[r] = val[r]
  BY <1>1, NeverBeforeTheStart, OthersRows
<1>3. val \in [Rows -> Int] /\ val' \in [Rows -> Int]
  BY <1>1, IsolationStep DEF SessionInv, IsolationInv, SessionTypeOK, SessionNext
<1>4. ASSUME NEW r \in Rows PROVE Latest(s, r)' - val'[r] = Latest(s, r) - val[r]
  <2>1. CASE r \in DOMAIN tx[s].own
    BY <1>2, <2>1 DEF Latest
  <2>2. CASE r \notin DOMAIN tx[s].own
    <3>1. Latest(s, r)' = val'[r] /\ Latest(s, r) = val[r]
      BY <1>2, <2>2 DEF Latest
    <3> QED BY <1>3, <3>1
  <2> QED BY <2>1, <2>2
<1>5. "x" \in Rows /\ "y" \in Rows
  BY DEF Rows
<1> QED BY <1>2, <1>4, <1>5 DEF Gain

\* What a step of another thread leaves a session.
LEMMA OthersInBalance ==
    ASSUME NEW plan, MoneyInv(plan), NEW t \in Threads, ThreadStep(t), NEW s \in Sessions, plan.user[s] # t
    PROVE  InBalance(plan, s)'
<1> DEFINE u == plan.user[s]
<1>1. SessionInv /\ OneThreadEach(program.code, plan.user) /\ u \in Threads /\ InBalance(plan, s)
  BY DEF MoneyInv, Balanced, OneThreadEach
<1>2. tx'[s] = tx[s] /\ Gain(s)' = Gain(s)
  BY <1>1, NeverBeforeTheStart, GainIsMine
<1>3. program' = program /\ (pc'[u] = pc[u] \/ (pc[u] = 0 /\ pc'[u] = 1))
  BY <1>1, StepMoves
<1>4. CASE pc'[u] = pc[u]
  BY <1>1, <1>2, <1>3, <1>4 DEF InBalance, Code
<1>5. CASE pc[u] = 0 /\ pc'[u] = 1
  <2>1. ~tx[s].open
    BY <1>1, <1>5 DEF InBalance
  <2>2. 1 \in 1..Len(Code(u)) => ~plan.open[s][1]
    <3>1. 1 \in 1..Len(Code(u)) => BalancedStep(s, 1, program.code, plan)
      BY <1>1 DEF MoneyInv, Balanced, Code
    <3> QED BY <3>1, Zenon DEF BalancedStep
  <2> QED BY <1>2, <1>3, <1>5, <2>1, <2>2 DEF InBalance, Code
<1> QED BY <1>3, <1>4, <1>5

\* What an account of others, and of everybody, is after any step.
LEMMA WhatIsOwed ==
    ASSUME NEW plan, MoneyInv(plan), NEW t \in Threads, ThreadStep(t)
    PROVE  NothingIsOwed'
<1>1. /\ SessionInv /\ OneThreadEach(program.code, plan.user) /\ NothingIsOwed
      /\ \A s \in Sessions : InBalance(plan, s) /\ plan.user[s] \in Threads
  BY DEF MoneyInv, Balanced, OneThreadEach
<1>2. /\ Running(t) /\ Cur(t).op \notin {"try", "unlock"} /\ Cur(t).s \in Sessions
      /\ Cur(t).op \in SqlOps => plan.user[Cur(t).s] = t
      /\ Cur(t) = program.code[t][pc[t]] /\ pc[t] \in 1..Len(Code(t))
  BY <1>1, NeverBeforeTheStart
<1>3. PICK s \in Sessions : s = Cur(t).s
  BY <1>2
<1>4. /\ Accounts \subseteq Rows /\ val \in [Rows -> Int] /\ val' \in [Rows -> Int]
      /\ tx \in [Sessions -> Transactions]
  BY <1>1, IsolationStep DEF SessionInv, IsolationInv, SessionTypeOK, SessionNext, Accounts, Rows
<1>5. \A o \in Sessions : Cur(t).op \in SqlOps => (o # s => tx'[o] = tx[o] /\ \A r \in DOMAIN tx[o].own : val'[r] = val[r])
  BY <1>1, <1>2, <1>3, OthersRows
<1>6. ASSUME \A r \in Accounts : val'[r] >= 0 /\ Latest(s, r)' >= 0, Cur(t).op \in SqlOps
      PROVE  NothingIsOwed'
  <2> SUFFICES ASSUME NEW r \in Accounts, NEW o \in Sessions PROVE Latest(o, r)' >= 0
    BY <1>6 DEF NothingIsOwed
  <2>1. CASE o # s
    BY <1>1, <1>4, <1>5, <1>6, <2>1 DEF Latest, NothingIsOwed
  <2> QED BY <1>6, <2>1
<1>7. CASE Answers(t) \/ Misses(t) \/ Queues(t) \/ Controls(t)
  BY <1>1, <1>2, <1>7, QuietRows DEF NothingIsOwed, Latest, Unmoved
<1>8. CASE Stores(t)
  <2>1. /\ \A r \in Rows : Latest(s, r)' = IF r = Cur(t).row THEN Written(t) ELSE Latest(s, r)
        /\ Cur(t).row \in Rows /\ Written(t) \in Int
        /\ tx[s].open => val' = val
        /\ ~tx[s].open => \A r \in Rows : val'[r] = IF r = Cur(t).row THEN Written(t) ELSE val[r]
    BY <1>2, <1>3, <1>1, <1>8, StoredRows
  <2>2. Cur(t).op \in {"add", "set", "setif", "insert"} /\ Cur(t).op \in SqlOps
    BY <1>8 DEF Stores, SqlOps, LockOps
  <2>3. ASSUME Cur(t).row \in Accounts PROVE Cur(t).op = "add" /\ tx[s].open /\ Written(t) >= 0
    <3>1. BalancedStep(s, pc[t], program.code, plan) /\ plan.user[s] = t
      BY <1>2, <1>3, <2>2 DEF MoneyInv, Balanced, Code
    <3>2. Cur(t).op = "add" /\ plan.open[s][pc[t]] /\ (Cur(t).opt = "nonneg" \/ Cur(t).k >= 0)
      BY <1>2, <1>3, <2>2, <2>3, <3>1 DEF BalancedStep
    <3>3. tx[s].open
      BY <1>1, <1>2, <3>1, <3>2 DEF InBalance
    <3>4. Written(t) = Latest(Cur(t).s, Cur(t).row) + Cur(t).k
      BY <3>2, Zenon DEF Written
    <3>5. Latest(s, Cur(t).row) >= 0 /\ Latest(s, Cur(t).row) \in Int /\ Cur(t).k \in Int
      <4>1. Cur(t).k \in Int
        BY <1>1, <1>2, StatementAtHand DEF SessionInv, IsolationInv, IsStatement
      <4>2. Latest(s, Cur(t).row) \in Int
        BY <1>1, <2>1, ValuesAreNumbers DEF SessionInv, IsolationInv
      <4> QED BY <1>1, <2>3, <4>1, <4>2 DEF NothingIsOwed
    <3>6. CASE Cur(t).opt = "nonneg"
      BY <1>8, <3>2, <3>3, <3>6 DEF Stores
    <3>7. CASE Cur(t).k >= 0
      BY <1>3, <3>2, <3>3, <3>4, <3>5, <3>7
    <3> QED BY <3>2, <3>6, <3>7
  <2>4. ASSUME NEW r \in Accounts PROVE val'[r] >= 0 /\ Latest(s, r)' >= 0
    <3>1. r \in Rows /\ val[r] >= 0 /\ Latest(s, r) >= 0
      BY <1>1, <1>4 DEF NothingIsOwed
    <3> QED BY <2>1, <2>3, <3>1
  <2> QED BY <1>6, <2>2, <2>4
<1>9. CASE Commits(t)
  <2>1. tx'[s] = NoTx /\ \A r \in Rows : val'[r] = Latest(s, r)
    BY <1>1, <1>2, <1>3, <1>9, CommittedRows
  <2>2. DOMAIN tx'[s].own = {}
    BY <2>1, NoTransaction, NoWrites
  <2>3. \A r \in Accounts : val'[r] >= 0 /\ Latest(s, r)' >= 0
    BY <1>1, <1>4, <2>1, <2>2 DEF Latest, NothingIsOwed
  <2> QED BY <1>6, <1>9, <2>3 DEF Commits, SqlOps, EndOps
<1>10. CASE Begins(t) \/ GivesUp(t) \/ Fails(t)
  <2>1. Cur(t).op \in SqlOps /\ val' = val
    BY <1>10 DEF Begins, GivesUp, Fails, SqlOps, EndOps
  <2>2. DOMAIN tx'[s].own = {} \/ tx'[s].own = tx[s].own
    BY <1>1, <1>3, <1>10, EndsOrKeeps
  <2>3. \A r \in Accounts : val'[r] >= 0 /\ Latest(s, r)' >= 0
    BY <1>1, <2>1, <2>2 DEF Latest, NothingIsOwed
  <2> QED BY <1>6, <2>1, <2>3
<1> QED BY <1>1, <1>2, <1>7, <1>8, <1>9, <1>10, StepsAre

\* What a step of its own thread leaves a session.
LEMMA OwnInBalance ==
    ASSUME NEW plan, MoneyInv(plan), NEW t \in Threads, ThreadStep(t), NEW s \in Sessions, plan.user[s] = t
    PROVE  InBalance(plan, s)'
<1> DEFINE i == pc[t]
           j == pc'[t]
           net == plan.net[s]
           open == plan.open[s]
           mine == Cur(t).op \in SqlOps /\ Cur(t).s = s
           moves == mine /\ Cur(t).op = "add" /\ Cur(t).row \in Accounts
<1>1. SessionInv /\ OneThreadEach(program.code, plan.user) /\ InBalance(plan, s) /\ NothingIsOwed
  BY DEF MoneyInv, Balanced
<1>2. /\ Running(t) /\ Cur(t).op \notin {"try", "unlock"} /\ pc'[t] # 0
      /\ i \in 1..Len(Code(t)) /\ Cur(t) = program.code[t][i] /\ program' = program
  BY <1>1, NeverBeforeTheStart, StepMoves
<1>3. /\ net[i] \in Int
      /\ mine /\ Cur(t).op \in {"set", "setif", "insert"} => Cur(t).row \notin Accounts
      /\ moves => open[i]
      /\ \A n \in 1..Len(Code(t)) :
            /\ Catches(Cur(t), i, n) => (open[n] => open[i]) /\ (mine \/ net[n] = net[i])
            /\ Follows(Cur(t), i, n) =>
                  /\ open[n] => \/ open[i] /\ ~(mine /\ Cur(t).op \in EndOps)
                                \/ mine /\ Cur(t).op = "begin"
                  /\ \/ mine /\ Cur(t).op \in EndOps
                     \/ net[n] = IF mine /\ Cur(t).op = "begin" THEN 0
                                 ELSE IF moves THEN net[i] + Cur(t).k ELSE net[i]
  <2>1. BalancedStep(s, i, program.code, plan) /\ program.code[plan.user[s]] = Code(t)
    BY <1>2 DEF MoneyInv, Balanced, Code
  <2>2. Code(t)[i] = Cur(t)
    BY DEF Cur
  <2>3. /\ net[i] \in Int
        /\ mine /\ Cur(t).op \in {"set", "setif", "insert"} => Cur(t).row \notin Accounts
        /\ moves => open[i]
    BY <2>1, <2>2, Zenon DEF BalancedStep
  <2>4. ASSUME NEW n \in 1..Len(Code(t)), Catches(Cur(t), i, n)
        PROVE  (open[n] => open[i]) /\ (mine \/ net[n] = net[i])
    BY <2>1, <2>2, <2>4, ZenonT(60) DEF BalancedStep
  <2>5. ASSUME NEW n \in 1..Len(Code(t)), Follows(Cur(t), i, n)
        PROVE  open[n] => \/ open[i] /\ ~(mine /\ Cur(t).op \in EndOps)
                          \/ mine /\ Cur(t).op = "begin"
    BY <2>1, <2>2, <2>5 DEF BalancedStep
  <2>6. ASSUME NEW n \in 1..Len(Code(t)), Follows(Cur(t), i, n)
        PROVE  \/ mine /\ Cur(t).op \in EndOps
               \/ net[n] = IF mine /\ Cur(t).op = "begin" THEN 0
                           ELSE IF moves THEN net[i] + Cur(t).k ELSE net[i]
    BY <2>1, <2>2, <2>6 DEF BalancedStep
  <2> HIDE DEF net, open, mine, moves
  <2> QED BY <2>3, <2>4, <2>5, <2>6
<1> HIDE DEF net, open
<1>4. /\ open[i] => tx[s].open
      /\ tx[s].open /\ ~tx[s].failed => Gain(s) = net[i]
  BY <1>1, <1>2 DEF InBalance, net, open
<1>5. SUFFICES ASSUME j \in 1..Len(Code(t))
               PROVE  (open[j] => tx'[s].open) /\ (tx'[s].open /\ ~tx'[s].failed => Gain(s)' = net[j])
  BY <1>2 DEF InBalance, Code, net, open
<1>6. \/ Follows(Cur(t), i, j) \/ Catches(Cur(t), i, j) \/ Queues(t)
  <2>1. j # Len(Code(t)) + 1
    BY <1>1, <1>5, CodesAreLists DEF SessionInv, IsolationInv
  <2>2. Cur(t).op \in SqlOps => (j = i + 1 => Follows(Cur(t), i, j))
    BY DEF Follows, SqlOps, LockOps, EndOps
  <2> QED BY <1>1, <1>2, <2>1, <2>2, StepsAre
          DEF Answers, Misses, Stores, Begins, Commits, GivesUp, Fails, Controls, Returned, SqlOps, LockOps, EndOps
<1>7. CASE ~mine
  <2>1. tx'[s] = tx[s] /\ Gain(s)' = Gain(s)
    BY <1>7, GainIsMine
  <2>2. CASE Queues(t)
    BY <1>4, <2>1, <2>2 DEF Queues
  <2>3. CASE Follows(Cur(t), i, j) \/ Catches(Cur(t), i, j)
    BY <1>3, <1>4, <1>5, <1>7, <2>1, <2>3
  <2> QED BY <1>6, <2>2, <2>3
<1>8. CASE mine /\ (Answers(t) \/ Misses(t) \/ Queues(t))
  <2>1. val' = val /\ Unmoved(s)
    BY <1>1, <1>2, <1>8, QuietRows
  <2>2. Gain(s)' = Gain(s)
    BY <2>1 DEF Gain, Latest, Unmoved
  <2>3. CASE Queues(t)
    BY <1>4, <2>1, <2>2, <2>3 DEF Queues, Unmoved
  <2>4. CASE Answers(t) \/ Misses(t)
    <3>1. j = i + 1 /\ Follows(Cur(t), i, j) /\ Cur(t).op \notin EndOps \cup {"begin"}
      BY <2>4 DEF Answers, Misses, Returned, Follows, EndOps
    <3>2. ~moves
      <4> SUFFICES ASSUME moves PROVE FALSE
        OBVIOUS
      <4>1. Misses(t) /\ ~RuledOut(t)
        BY <2>4 DEF Answers, RuledOut
      <4>2. ~Matches(t, Latest(s, Cur(t).row))
        BY <4>1 DEF Misses
      <4>3. Matches(t, Latest(s, Cur(t).row)) = (Latest(s, Cur(t).row) # Absent)
        BY ZenonT(30) DEF Matches
      <4>4. Latest(s, Cur(t).row) >= 0 /\ Latest(s, Cur(t).row) \in Int
        BY <1>1, ValuesAreNumbers DEF NothingIsOwed, Accounts, Rows, SessionInv, IsolationInv
      <4>5. Latest(s, Cur(t).row) # Absent
        BY <4>4 DEF Absent
      <4> QED BY <4>2, <4>3, <4>5
    <3> QED BY <1>3, <1>4, <1>5, <2>1, <2>2, <3>1, <3>2 DEF Unmoved
  <2> QED BY <1>8, <2>3, <2>4
<1>9. CASE mine /\ Stores(t)
  <2>1. /\ tx'[s].open = tx[s].open /\ tx'[s].failed = tx[s].failed
        /\ \A r \in Rows : Latest(s, r)' = IF r = Cur(t).row THEN Written(t) ELSE Latest(s, r)
        /\ tx[s].open => val' = val
    BY <1>1, <1>2, <1>9, StoredRows
  <2>2. j = i + 1 /\ Follows(Cur(t), i, j) /\ Cur(t).op \in {"add", "set", "setif", "insert"}
        /\ Cur(t).op \notin EndOps \cup {"begin"}
    BY <1>9 DEF Stores, Returned, Follows, EndOps
  <2>3. /\ open[j] => open[i] /\ net[j] = IF moves THEN net[i] + Cur(t).k ELSE net[i]
    BY <1>3, <1>5, <1>9, <2>2
  <2>4. open[j] => tx'[s].open
    BY <1>4, <2>1, <2>3
  <2>5. ASSUME tx'[s].open, ~tx'[s].failed PROVE Gain(s)' = net[j]
    <3>1. "x" \in Rows /\ "y" \in Rows /\ Accounts = {"x", "y"} /\ SessionTypeOK /\ Cur(t).k \in Int
      BY <1>1, <1>2, StatementAtHand DEF Rows, Accounts, SessionInv, IsolationInv, IsStatement
    <3>2. val' = val /\ val["x"] \in Int /\ val["y"] \in Int /\ Latest(s, "x") \in Int /\ Latest(s, "y") \in Int
      BY <2>1, <2>5, <3>1, ValuesAreNumbers DEF SessionTypeOK
    <3>3. Gain(s) = net[i]
      BY <1>4, <2>1, <2>5
    <3>4. CASE ~moves
      <4>1. Cur(t).row \notin Accounts
        BY <1>3, <1>9, <2>2, <3>4
      <4>2. Latest(s, "x")' = Latest(s, "x") /\ Latest(s, "y")' = Latest(s, "y")
        BY <2>1, <3>1, <4>1
      <4> QED BY <2>3, <3>2, <3>3, <3>4, <4>2, <1>3, <1>5, <1>9, <2>2 DEF Gain
    <3>5. CASE moves
      <4>1. Written(t) = Latest(Cur(t).s, Cur(t).row) + Cur(t).k
        BY <3>5, Zenon DEF Written
      <4>2. net[j] = net[i] + Cur(t).k
        BY <1>3, <1>5, <1>9, <2>2, <3>5
      <4>3. CASE Cur(t).row = "x"
        <5>1. Latest(s, "x")' = Latest(s, "x") + Cur(t).k /\ Latest(s, "y")' = Latest(s, "y")
          BY <1>9, <2>1, <3>1, <4>1, <4>3
        <5> QED BY <3>1, <3>2, <3>3, <4>2, <5>1 DEF Gain
      <4>4. CASE Cur(t).row = "y"
        <5>1. Latest(s, "y")' = Latest(s, "y") + Cur(t).k /\ Latest(s, "x")' = Latest(s, "x")
          BY <1>9, <2>1, <3>1, <4>1, <4>4
        <5> QED BY <3>1, <3>2, <3>3, <4>2, <5>1 DEF Gain
      <4> QED BY <3>1, <3>5, <4>3, <4>4
    <3> QED BY <3>4, <3>5
  <2> QED BY <2>4, <2>5
<1>10. CASE mine /\ Begins(t)
  <2> DEFINE after == [NoTx EXCEPT !.open = TRUE, !.level = Cur(t).level]
  <2>1. after.open /\ after.own = <<>>
    BY NoTransaction DEF Transactions
  <2> HIDE DEF after
  <2>2. /\ tx' = [tx EXCEPT ![s] = after] /\ val' = val /\ j = i + 1
        /\ Cur(t).op = "begin"
    BY <1>10 DEF Begins, after
  <2>3. tx'[s] = after
    BY <1>1, <2>2 DEF SessionInv, IsolationInv, SessionTypeOK
  <2>4. Follows(Cur(t), i, j) /\ Cur(t).op \notin EndOps
    BY <2>2 DEF Follows, EndOps
  <2>5. net[j] = 0
    BY <1>3, <1>5, <1>10, <2>2, <2>4
  <2>6. Gain(s)' = 0
    <3>1. val' \in [Rows -> Int] /\ "x" \in Rows /\ "y" \in Rows
      BY <1>1, <2>2 DEF SessionInv, IsolationInv, SessionTypeOK, Rows
    <3>2. Latest(s, "x")' = val'["x"] /\ Latest(s, "y")' = val'["y"]
      BY <2>1, <2>3, NoWrites DEF Latest
    <3> QED BY <3>1, <3>2 DEF Gain
  <2> QED BY <2>1, <2>3, <2>5, <2>6
<1>11. CASE mine /\ (Commits(t) \/ GivesUp(t))
  <2>1. tx' = [tx EXCEPT ![s] = NoTx] /\ j = i + 1 /\ Cur(t).op \in EndOps
    BY <1>11 DEF Commits, GivesUp, EndOps
  <2>2. ~tx'[s].open
    BY <1>1, <2>1, NoTransaction DEF SessionInv, IsolationInv, SessionTypeOK
  <2>3. Follows(Cur(t), i, j) /\ Cur(t).op # "begin"
    BY <2>1 DEF Follows, EndOps
  <2>4. ~open[j]
    BY <1>3, <1>5, <1>11, <2>1, <2>3
  <2> QED BY <2>2, <2>4
<1>12. CASE mine /\ Fails(t)
  <2>1. Catches(Cur(t), i, j)
    BY <1>1, <1>5, <1>12, CodesAreLists DEF Fails, SessionInv, IsolationInv
  <2>2. j # Len(Code(t)) + 1
    BY <1>1, <1>5, CodesAreLists DEF SessionInv, IsolationInv
  <2> DEFINE after == IF tx[s].open THEN [tx[s] EXCEPT !.failed = TRUE] ELSE tx[s]
  <2>3. after.open = tx[s].open /\ (after.open => after.failed)
    BY <1>1 DEF SessionInv, IsolationInv, SessionTypeOK, Transactions
  <2> HIDE DEF after
  <2>4. tx' = [tx EXCEPT ![s] = after]
    BY <1>12, <2>2 DEF Fails, after
  <2>5. tx'[s] = after
    BY <1>1, <2>4 DEF SessionInv, IsolationInv, SessionTypeOK
  <2> QED BY <1>3, <1>4, <1>5, <2>1, <2>3, <2>5
<1>13. ~mine \/ ~Controls(t)
  BY DEF Controls
<1> QED BY <1>1, <1>2, <1>7, <1>8, <1>9, <1>10, <1>11, <1>12, <1>13, StepsAre

\* No step, and no crash, makes or loses money.
LEMMA MoneyStep == ASSUME NEW plan PROVE MoneyInv(plan) /\ [SessionNext]_sessionVars => MoneyInv(plan)'
<1> SUFFICES ASSUME MoneyInv(plan), [SessionNext]_sessionVars PROVE MoneyInv(plan)'
  OBVIOUS
<1>1. SessionInv /\ SessionInv' /\ OneThreadEach(program.code, plan.user)
  BY IsolationStep, QueueStep DEF SessionInv, MoneyInv, Balanced
<1>2. CASE UNCHANGED sessionVars
  <2>1. UNCHANGED <<program, val, tx, pc>>
    BY <1>2 DEF sessionVars
  <2> QED BY <1>1, <2>1 DEF MoneyInv, NothingIsOwed, NothingIsLost, InBalance, Gain, Latest, Code
<1>3. CASE ProcessDies
  <2>1. /\ tx' = [s \in Sessions |-> NoTx] /\ UNCHANGED <<program, val>> /\ pc' = [t \in Threads |-> Len(Code(t)) + 1]
    BY <1>3 DEF ProcessDies
  <2>2. \A s \in Sessions : ~tx'[s].open /\ DOMAIN tx'[s].own = {}
    BY <2>1, NoTransaction, NoWrites
  <2>3. NothingIsOwed' /\ NothingIsLost'
    BY <2>1, <2>2 DEF MoneyInv, NothingIsOwed, NothingIsLost, Latest
  <2>4. ASSUME NEW s \in Sessions PROVE InBalance(plan, s)'
    <3>1. plan.user[s] \in Threads
      BY <1>1 DEF OneThreadEach
    <3>2. Len(Code(plan.user[s])) \in Nat /\ pc'[plan.user[s]] = Len(Code(plan.user[s])) + 1
      BY <1>1, <2>1, <3>1, CodesAreLists DEF SessionInv, IsolationInv
    <3>3. pc'[plan.user[s]] \notin 1..Len(Code(plan.user[s]))
      BY <3>2
    <3> QED BY <2>1, <2>2, <3>3 DEF InBalance, Code
  <2> QED BY <1>1, <2>1, <2>3, <2>4 DEF MoneyInv
<1>4. ASSUME NEW t \in Threads, ThreadStep(t) PROVE MoneyInv(plan)'
  <2>1. /\ Running(t) /\ Cur(t).op \notin {"try", "unlock"} /\ Cur(t).s \in Sessions
        /\ Cur(t).op \in SqlOps => plan.user[Cur(t).s] = t
        /\ pc[t] \in 1..Len(Code(t)) /\ Cur(t) = program.code[t][pc[t]]
    BY <1>1, <1>4, NeverBeforeTheStart
  <2>2. PICK s \in Sessions : s = Cur(t).s
    BY <2>1
  <2>3. program' = program
    BY <1>1, <1>4, StepMoves
  <2>4. \A o \in Sessions : InBalance(plan, o)'
    BY <1>4, OwnInBalance, OthersInBalance
  <2>5. NothingIsOwed'
    BY <1>4, WhatIsOwed
  <2>6. /\ "x" \in Rows /\ "y" \in Rows /\ "x" \in Accounts /\ "y" \in Accounts /\ val \in [Rows -> Int]
        /\ val["x"] + val["y"] = program.rows["x"] + program.rows["y"]
    BY <1>1 DEF Rows, Accounts, SessionInv, IsolationInv, SessionTypeOK, MoneyInv, NothingIsLost
  <2>7. val'["x"] + val'["y"] = val["x"] + val["y"]
    <3>1. CASE Answers(t) \/ Misses(t) \/ Queues(t) \/ Controls(t)
      BY <1>1, <2>1, <3>1, QuietRows
    <3>2. CASE Begins(t) \/ GivesUp(t) \/ Fails(t)
      BY <3>2 DEF Begins, GivesUp, Fails
    <3>3. CASE Stores(t)
      <4>1. BalancedStep(s, pc[t], program.code, plan) /\ plan.user[s] = t /\ Cur(t).op \in SqlOps
            /\ Cur(t).op \in {"add", "set", "setif", "insert"}
        BY <2>1, <2>2, <3>3 DEF MoneyInv, Balanced, Code, Stores, SqlOps, LockOps
      <4>2. Cur(t).row \in Accounts => plan.open[s][pc[t]]
        BY <2>1, <2>2, <4>1 DEF BalancedStep
      <4>3. Cur(t).row \in Accounts => tx[s].open
        BY <2>1, <4>1, <4>2 DEF MoneyInv, InBalance
      <4>4. /\ tx[s].open => val' = val
            /\ ~tx[s].open => \A r \in Rows : val'[r] = IF r = Cur(t).row THEN Written(t) ELSE val[r]
        BY <1>1, <2>1, <2>2, <3>3, StoredRows
      <4> QED BY <2>6, <4>3, <4>4
    <3>4. CASE Commits(t)
      <4>1. \A r \in Rows : val'[r] = Latest(s, r)
        BY <1>1, <2>1, <2>2, <3>4, CommittedRows
      <4>2. Gain(s) = 0
        <5>1. CASE tx[s].open
          <6>1. BalancedStep(s, pc[t], program.code, plan) /\ plan.user[s] = t
                /\ Cur(t).op \in SqlOps /\ Cur(t).op = "commit" /\ ~tx[s].failed
            BY <2>1, <2>2, <3>4 DEF MoneyInv, Balanced, Code, Commits, SqlOps, EndOps
          <6>2. plan.net[s][pc[t]] = 0
            BY <2>1, <2>2, <6>1 DEF BalancedStep
          <6>3. InBalance(plan, s)
            BY DEF MoneyInv
          <6> QED BY <2>1, <5>1, <6>1, <6>2, <6>3 DEF InBalance
        <5>2. CASE ~tx[s].open
          <6>1. Latest(s, "x") = val["x"] /\ Latest(s, "y") = val["y"]
            BY <1>1, <5>2, NoWrites DEF SessionInv, IsolationInv, ClosedIsEmpty, Latest
          <6> QED BY <2>6, <6>1 DEF Gain
        <5> QED BY <5>1, <5>2
      <4>3. Latest(s, "x") \in Int /\ Latest(s, "y") \in Int /\ val["x"] \in Int /\ val["y"] \in Int
        BY <1>1, <2>6, ValuesAreNumbers DEF SessionInv, IsolationInv
      <4>4. val'["x"] = Latest(s, "x") /\ val'["y"] = Latest(s, "y")
        BY <2>6, <4>1
      <4>5. (Latest(s, "x") - val["x"]) + (Latest(s, "y") - val["y"]) = 0
        BY <4>2 DEF Gain
      <4>6. Latest(s, "x") + Latest(s, "y") = val["x"] + val["y"]
        BY <4>3, <4>5
      <4> QED BY <4>4, <4>6
    <3> QED BY <1>1, <1>4, <2>1, <3>1, <3>2, <3>3, <3>4, StepsAre
  <2> QED BY <1>1, <2>3, <2>4, <2>5, <2>6, <2>7 DEF MoneyInv, NothingIsLost
<1> QED BY <1>2, <1>3, <1>4 DEF SessionNext

\* Every committed state has the money the script began with, and no debt.
MoneyKept == NothingIsLost /\ \A r \in Accounts : val[r] >= 0

\* Nothing is owed or lost at the start.
LEMMA MoneyBegins == ASSUME NEW plan PROVE SessionInit /\ Balanced(program, plan) => MoneyInv(plan)
<1> SUFFICES ASSUME SessionInit, Balanced(program, plan) PROVE MoneyInv(plan)
  OBVIOUS
<1>1. SessionInv /\ val = program.rows /\ \A s \in Sessions : tx[s] = NoTx
  BY SessionBegins DEF SessionInit
<1>2. \A s \in Sessions : ~tx[s].open /\ DOMAIN tx[s].own = {}
  BY <1>1, NoTransaction, NoWrites
<1>3. NothingIsOwed /\ NothingIsLost
  BY <1>1, <1>2 DEF NothingIsOwed, NothingIsLost, Latest, Balanced
<1>4. ASSUME NEW s \in Sessions PROVE InBalance(plan, s)
  <2>1. plan.user[s] \in Threads
    BY DEF Balanced, OneThreadEach
  <2>2. pc[plan.user[s]] \in {0, 1}
    BY <2>1 DEF SessionInit
  <2>3. 1 \in 1..Len(Code(plan.user[s])) => ~plan.open[s][1]
    <3>1. 1 \in 1..Len(Code(plan.user[s])) => BalancedStep(s, 1, program.code, plan)
      BY DEF Balanced, Code
    <3> QED BY <3>1, Zenon DEF BalancedStep
  <2> QED BY <1>2, <2>2, <2>3 DEF InBalance
<1> QED BY <1>1, <1>3, <1>4 DEF MoneyInv

\* Whatever the scripts, when each transaction commits nothing but moves (a plan
\* says what it has added so far): between any two steps of any transfers, errors,
\* retries and crashes, the committed accounts hold together what they held at
\* the start and none is overdrawn (labs 05 and 32).
THEOREM MoneyIsConserved ==
    ASSUME NEW plan PROVE SessionSpec /\ Balanced(program, plan) => []MoneyKept
<1>1. SessionInit /\ Balanced(program, plan) => MoneyInv(plan)
  BY MoneyBegins
<1>2. MoneyInv(plan) /\ [SessionNext]_sessionVars => MoneyInv(plan)'
  BY MoneyStep
<1>3. MoneyInv(plan) => MoneyKept
  BY DEF MoneyInv, MoneyKept, NothingIsOwed
<1> QED BY <1>1, <1>2, <1>3, PTL DEF SessionSpec

-----------------------------------------------------------------------------
(* Rows that come together. *)

\* What the transaction of a session adds to the rows that come in pairs.
NewRows(plan, s) == {r \in PairedRows(plan) : Latest(s, r) # Absent /\ val[r] = Absent}
InPairs(plan, s) ==
    LET t == plan.user[s]
        i == pc[t]
    IN  /\ i = 0 => ~tx[s].open
        /\ i \in 1..Len(Code(t)) =>
              /\ plan.open[s][i] => tx[s].open
              /\ tx[s].open /\ ~tx[s].failed => NewRows(plan, s) = plan.put[s][i]
NoRowIsLost(plan) == \A s \in Sessions : \A r \in PairedRows(plan) : val[r] # Absent => Latest(s, r) # Absent
BothOrNeither(plan) == \A pair \in plan.pairs : (val[pair[1]] = Absent) = (val[pair[2]] = Absent)
PairInv(plan) ==
    /\ SessionInv /\ Paired(program, plan)
    /\ NoRowIsLost(plan) /\ BothOrNeither(plan) /\ \A s \in Sessions : InPairs(plan, s)

\* The rows of pairs are rows.
LEMMA PairedRowsAre == ASSUME NEW plan, Paired(program, plan) PROVE PairedRows(plan) \subseteq Rows
  BY DEF Paired, PairedRows

\* What a statement of another session leaves the transaction of a session.
LEMMA NewRowsAreMine ==
    ASSUME NEW plan, PairInv(plan), NEW t \in Threads, ThreadStep(t), NEW s \in Sessions,
           Cur(t).op \in SqlOps => Cur(t).s # s
    PROVE  tx'[s] = tx[s] /\ NewRows(plan, s)' = NewRows(plan, s)
<1>1. SessionInv /\ OneThreadEach(program.code, plan.user)
  BY DEF PairInv, Paired
<1>2. tx'[s] = tx[s] /\ \A r \in DOMAIN tx[s].own : val'[r] = val[r]
  BY <1>1, NeverBeforeTheStart, OthersRows
<1>3. ASSUME NEW r
      PROVE  (Latest(s, r)' # Absent /\ val'[r] = Absent) <=> (Latest(s, r) # Absent /\ val[r] = Absent)
  BY <1>2 DEF Latest
<1> QED BY <1>2, <1>3 DEF NewRows

\* What a step of another thread leaves a session.
LEMMA OthersInPairs ==
    ASSUME NEW plan, PairInv(plan), NEW t \in Threads, ThreadStep(t), NEW s \in Sessions, plan.user[s] # t
    PROVE  InPairs(plan, s)'
<1> DEFINE u == plan.user[s]
<1>1. SessionInv /\ OneThreadEach(program.code, plan.user) /\ u \in Threads /\ InPairs(plan, s)
  BY DEF PairInv, Paired, OneThreadEach
<1>2. tx'[s] = tx[s] /\ NewRows(plan, s)' = NewRows(plan, s)
  BY <1>1, NeverBeforeTheStart, NewRowsAreMine
<1>3. program' = program /\ (pc'[u] = pc[u] \/ (pc[u] = 0 /\ pc'[u] = 1))
  BY <1>1, StepMoves
<1>4. CASE pc'[u] = pc[u]
  BY <1>1, <1>2, <1>3, <1>4 DEF InPairs, Code
<1>5. CASE pc[u] = 0 /\ pc'[u] = 1
  <2>1. ~tx[s].open
    BY <1>1, <1>5 DEF InPairs
  <2>2. 1 \in 1..Len(Code(u)) => ~plan.open[s][1]
    BY <1>1 DEF PairInv, Paired, PairedStep, Code
  <2> QED BY <1>2, <1>3, <1>5, <2>1, <2>2 DEF InPairs, Code
<1> QED BY <1>3, <1>4, <1>5

\* What a statement may do to a row of a pair: set it if it is there, or insert
\* it, in a transaction.
LEMMA PairWrites ==
    ASSUME NEW plan, PairInv(plan), NEW t \in Threads, ThreadStep(t), Stores(t), Cur(t).row \in PairedRows(plan),
           NEW s \in Sessions, s = Cur(t).s
    PROVE  /\ Written(t) # Absent
           /\ \/ Cur(t).op = "set" /\ Latest(s, Cur(t).row) # Absent
              \/ Cur(t).op = "insert" /\ Latest(s, Cur(t).row) = Absent /\ tx[s].open
<1>1. SessionInv /\ OneThreadEach(program.code, plan.user)
  BY DEF PairInv, Paired
<1>2. /\ Cur(t) = program.code[t][pc[t]] /\ pc[t] \in 1..Len(Code(t))
      /\ Cur(t).op \in {"add", "set", "setif", "insert"} /\ Cur(t).op \in SqlOps /\ plan.user[s] = t
  BY <1>1, NeverBeforeTheStart DEF Stores, SqlOps, LockOps
<1>3. PairedStep(s, pc[t], program.code, plan)
  BY <1>2 DEF PairInv, Paired, Code
<1>4. /\ Cur(t).op \in {"set", "insert"} /\ Cur(t).k # Absent
      /\ Cur(t).op = "set" => Cur(t).from = "-"
      /\ Cur(t).op = "insert" => plan.open[s][pc[t]]
  BY <1>2, <1>3 DEF PairedStep
<1>5. Matches(t, Latest(s, Cur(t).row))
  BY DEF Stores
<1>6. CASE Cur(t).op = "set"
  <2>1. Written(t) = Cur(t).k
    BY <1>4, <1>6, ZenonT(30) DEF Written
  <2>2. Latest(s, Cur(t).row) # Absent
    BY <1>5, <1>6, ZenonT(30) DEF Matches
  <2> QED BY <1>4, <1>6, <2>1, <2>2
<1>7. CASE Cur(t).op = "insert"
  <2>1. Written(t) = Cur(t).k
    BY <1>7, ZenonT(30) DEF Written
  <2>2. Latest(s, Cur(t).row) = Absent
    BY <1>5, <1>7, ZenonT(30) DEF Matches
  <2>3. InPairs(plan, s)
    BY DEF PairInv
  <2>4. tx[s].open
    BY <1>2, <1>4, <1>7, <2>3 DEF InPairs
  <2> QED BY <1>4, <1>7, <2>1, <2>2, <2>4
<1> QED BY <1>4, <1>6, <1>7

\* No step deletes a row of a pair, and only COMMIT adds some.
LEMMA PairsStay ==
    ASSUME NEW plan, PairInv(plan), NEW t \in Threads, ThreadStep(t)
    PROVE  NoRowIsLost(plan)' /\ BothOrNeither(plan)'
<1>1. /\ SessionInv /\ OneThreadEach(program.code, plan.user) /\ NoRowIsLost(plan) /\ BothOrNeither(plan)
      /\ \A s \in Sessions : InPairs(plan, s) /\ plan.user[s] \in Threads
  BY DEF PairInv, Paired, OneThreadEach
<1>2. /\ Running(t) /\ Cur(t).op \notin {"try", "unlock"} /\ Cur(t).s \in Sessions
      /\ Cur(t).op \in SqlOps => plan.user[Cur(t).s] = t
      /\ Cur(t) = program.code[t][pc[t]] /\ pc[t] \in 1..Len(Code(t))
  BY <1>1, NeverBeforeTheStart
<1>3. PICK s \in Sessions : s = Cur(t).s
  BY <1>2
<1>4. /\ PairedRows(plan) \subseteq Rows /\ tx \in [Sessions -> Transactions]
      /\ \A pair \in plan.pairs : pair[1] \in PairedRows(plan) /\ pair[2] \in PairedRows(plan)
  BY <1>1, PairedRowsAre DEF PairInv, SessionInv, IsolationInv, SessionTypeOK, PairedRows
<1>5. \A o \in Sessions : Cur(t).op \in SqlOps => (o # s => tx'[o] = tx[o] /\ \A r \in DOMAIN tx[o].own : val'[r] = val[r])
  BY <1>1, <1>2, <1>3, OthersRows
<1>6. ASSUME Cur(t).op \in SqlOps, \A r \in PairedRows(plan) : val'[r] # Absent => Latest(s, r)' # Absent
      PROVE  NoRowIsLost(plan)'
  <2> SUFFICES ASSUME NEW r \in PairedRows(plan), NEW o \in Sessions, val'[r] # Absent PROVE Latest(o, r)' # Absent
    BY DEF NoRowIsLost
  <2>1. CASE o # s
    BY <1>1, <1>5, <1>6, <2>1 DEF Latest, NoRowIsLost
  <2> QED BY <1>6, <2>1
<1>7. ASSUME \A r \in PairedRows(plan) : val'[r] = Absent <=> val[r] = Absent PROVE BothOrNeither(plan)'
  BY <1>1, <1>4, <1>7 DEF BothOrNeither
<1>8. CASE Answers(t) \/ Misses(t) \/ Queues(t) \/ Controls(t)
  <2>1. val' = val /\ \A o \in Sessions : Unmoved(o)
    BY <1>1, <1>2, <1>8, QuietRows
  <2> QED BY <1>1, <1>7, <2>1 DEF NoRowIsLost, Latest, Unmoved
<1>9. CASE Stores(t)
  <2>1. /\ \A r \in Rows : Latest(s, r)' = IF r = Cur(t).row THEN Written(t) ELSE Latest(s, r)
        /\ tx[s].open => val' = val
        /\ ~tx[s].open => \A r \in Rows : val'[r] = IF r = Cur(t).row THEN Written(t) ELSE val[r]
    BY <1>1, <1>2, <1>3, <1>9, StoredRows
  <2>2. Cur(t).row \in PairedRows(plan) =>
           /\ Written(t) # Absent
           /\ \/ Latest(s, Cur(t).row) # Absent
              \/ tx[s].open
    BY <1>3, <1>9, PairWrites
  <2>3. ~tx[s].open => \A r \in Rows : Latest(s, r) = val[r]
    BY <1>1, <1>3, NoWrites DEF SessionInv, IsolationInv, ClosedIsEmpty, Latest
  <2>4. Cur(t).op \in SqlOps
    BY <1>9 DEF Stores, SqlOps, LockOps
  <2>5. \A r \in PairedRows(plan) : val'[r] # Absent => Latest(s, r)' # Absent
    BY <1>1, <1>4, <2>1, <2>2, <2>3 DEF NoRowIsLost
  <2>6. \A r \in PairedRows(plan) : val'[r] = Absent <=> val[r] = Absent
    BY <1>4, <2>1, <2>2, <2>3
  <2> QED BY <1>6, <1>7, <2>4, <2>5, <2>6
<1>10. CASE Commits(t)
  <2>1. tx'[s] = NoTx /\ \A r \in Rows : val'[r] = Latest(s, r)
    BY <1>1, <1>2, <1>3, <1>10, CommittedRows
  <2>2. DOMAIN tx'[s].own = {}
    BY <2>1, NoTransaction, NoWrites
  <2>3. NoRowIsLost(plan)'
    BY <1>6, <1>10, <2>2 DEF Commits, SqlOps, EndOps, Latest
  <2>4. \A pair \in plan.pairs : pair[1] \in NewRows(plan, s) <=> pair[2] \in NewRows(plan, s)
    <3>1. CASE tx[s].open
      <4>1. PairedStep(s, pc[t], program.code, plan) /\ plan.user[s] = t
            /\ Cur(t).op \in SqlOps /\ Cur(t).op = "commit" /\ ~tx[s].failed
        BY <1>2, <1>3, <1>10 DEF PairInv, Paired, Code, Commits, SqlOps, EndOps
      <4>2. \A pair \in plan.pairs : (pair[1] \in plan.put[s][pc[t]]) = (pair[2] \in plan.put[s][pc[t]])
        BY <1>2, <1>3, <4>1 DEF PairedStep
      <4>3. NewRows(plan, s) = plan.put[s][pc[t]]
        BY <1>1, <1>2, <3>1, <4>1 DEF InPairs
      <4> QED BY <4>2, <4>3
    <3>2. CASE ~tx[s].open
      <4>1. \A r \in PairedRows(plan) : Latest(s, r) = val[r]
        BY <1>1, <3>2, NoWrites DEF SessionInv, IsolationInv, ClosedIsEmpty, Latest
      <4> QED BY <4>1 DEF NewRows
    <3> QED BY <3>1, <3>2
  <2>5. \A r \in PairedRows(plan) : val'[r] = Absent <=> val[r] = Absent /\ r \notin NewRows(plan, s)
    BY <1>1, <1>4, <2>1 DEF NewRows, NoRowIsLost
  <2>6. BothOrNeither(plan)'
    <3> SUFFICES ASSUME NEW pair \in plan.pairs PROVE val'[pair[1]] = Absent <=> val'[pair[2]] = Absent
      BY DEF BothOrNeither
    <3>1. val[pair[1]] = Absent <=> val[pair[2]] = Absent
      BY <1>1 DEF BothOrNeither
    <3> QED BY <1>4, <2>4, <2>5, <3>1
  <2> QED BY <2>3, <2>6
<1>11. CASE Begins(t) \/ GivesUp(t) \/ Fails(t)
  <2>1. Cur(t).op \in SqlOps /\ val' = val
    BY <1>11 DEF Begins, GivesUp, Fails, SqlOps, EndOps
  <2>2. DOMAIN tx'[s].own = {} \/ tx'[s].own = tx[s].own
    BY <1>1, <1>3, <1>11, EndsOrKeeps
  <2>3. \A r \in PairedRows(plan) : val'[r] # Absent => Latest(s, r)' # Absent
    BY <1>1, <2>1, <2>2 DEF Latest, NoRowIsLost
  <2> QED BY <1>6, <1>7, <2>1, <2>3
<1> QED BY <1>1, <1>2, <1>8, <1>9, <1>10, <1>11, StepsAre

\* What a step of its own thread leaves a session.
LEMMA OwnInPairs ==
    ASSUME NEW plan, PairInv(plan), NEW t \in Threads, ThreadStep(t), NEW s \in Sessions, plan.user[s] = t
    PROVE  InPairs(plan, s)'
<1> DEFINE i == pc[t]
           j == pc'[t]
           put == plan.put[s]
           open == plan.open[s]
           mine == Cur(t).op \in SqlOps /\ Cur(t).s = s
           puts == mine /\ Cur(t).op = "insert" /\ Cur(t).row \in PairedRows(plan)
<1>1. SessionInv /\ OneThreadEach(program.code, plan.user) /\ InPairs(plan, s) /\ NoRowIsLost(plan)
      /\ PairedRows(plan) \subseteq Rows
  BY PairedRowsAre DEF PairInv, Paired
<1>2. /\ Running(t) /\ Cur(t).op \notin {"try", "unlock"} /\ pc'[t] # 0
      /\ i \in 1..Len(Code(t)) /\ Cur(t) = program.code[t][i] /\ program' = program
  BY <1>1, NeverBeforeTheStart, StepMoves
<1>3. /\ puts => Cur(t).opt # "ignore"
      /\ \A n \in 1..Len(Code(t)) :
            /\ Catches(Cur(t), i, n) => (open[n] => open[i]) /\ (mine \/ put[n] = put[i])
            /\ Follows(Cur(t), i, n) =>
                  /\ open[n] => \/ open[i] /\ ~(mine /\ Cur(t).op \in EndOps)
                                \/ mine /\ Cur(t).op = "begin"
                  /\ \/ mine /\ Cur(t).op \in EndOps
                     \/ put[n] = IF mine /\ Cur(t).op = "begin" THEN {}
                                 ELSE IF puts THEN put[i] \cup {Cur(t).row} ELSE put[i]
  <2>1. PairedStep(s, i, program.code, plan) /\ program.code[plan.user[s]] = Code(t)
    BY <1>2 DEF PairInv, Paired, Code
  <2>2. Code(t)[i] = Cur(t)
    BY DEF Cur
  <2>3. puts => Cur(t).opt # "ignore"
    BY <2>1, <2>2 DEF PairedStep
  <2>4. ASSUME NEW n \in 1..Len(Code(t)), Catches(Cur(t), i, n)
        PROVE  (open[n] => open[i]) /\ (mine \/ put[n] = put[i])
    BY <2>1, <2>2, <2>4, ZenonT(60) DEF PairedStep
  <2>5. ASSUME NEW n \in 1..Len(Code(t)), Follows(Cur(t), i, n)
        PROVE  open[n] => \/ open[i] /\ ~(mine /\ Cur(t).op \in EndOps)
                          \/ mine /\ Cur(t).op = "begin"
    BY <2>1, <2>2, <2>5 DEF PairedStep
  <2>6. ASSUME NEW n \in 1..Len(Code(t)), Follows(Cur(t), i, n)
        PROVE  \/ mine /\ Cur(t).op \in EndOps
               \/ put[n] = IF mine /\ Cur(t).op = "begin" THEN {}
                           ELSE IF puts THEN put[i] \cup {Cur(t).row} ELSE put[i]
    BY <2>1, <2>2, <2>6, ZenonT(60) DEF PairedStep
  <2> HIDE DEF put, open
  <2> QED BY <2>3, <2>4, <2>5, <2>6
<1> HIDE DEF put, open
<1>4. /\ open[i] => tx[s].open
      /\ tx[s].open /\ ~tx[s].failed => NewRows(plan, s) = put[i]
  BY <1>1, <1>2 DEF InPairs, put, open
<1>5. SUFFICES ASSUME j \in 1..Len(Code(t))
               PROVE  (open[j] => tx'[s].open) /\ (tx'[s].open /\ ~tx'[s].failed => NewRows(plan, s)' = put[j])
  BY <1>2 DEF InPairs, Code, put, open
<1>6. \/ Follows(Cur(t), i, j) \/ Catches(Cur(t), i, j) \/ Queues(t)
  <2>1. j # Len(Code(t)) + 1
    BY <1>1, <1>5, CodesAreLists DEF SessionInv, IsolationInv
  <2>2. Cur(t).op \in SqlOps => (j = i + 1 => Follows(Cur(t), i, j))
    BY DEF Follows, SqlOps, LockOps, EndOps
  <2> QED BY <1>1, <1>2, <2>1, <2>2, StepsAre
          DEF Answers, Misses, Stores, Begins, Commits, GivesUp, Fails, Controls, Returned, SqlOps, LockOps, EndOps
<1>7. CASE ~mine
  <2>1. tx'[s] = tx[s] /\ NewRows(plan, s)' = NewRows(plan, s)
    BY <1>7, NewRowsAreMine
  <2>2. CASE Queues(t)
    BY <1>4, <2>1, <2>2 DEF Queues
  <2>3. CASE Follows(Cur(t), i, j) \/ Catches(Cur(t), i, j)
    BY <1>3, <1>4, <1>5, <1>7, <2>1, <2>3
  <2> QED BY <1>6, <2>2, <2>3
<1>8. CASE mine /\ (Answers(t) \/ Misses(t) \/ Queues(t))
  <2>1. val' = val /\ Unmoved(s)
    BY <1>1, <1>2, <1>8, QuietRows
  <2>2. NewRows(plan, s)' = NewRows(plan, s)
    BY <2>1 DEF NewRows, Latest, Unmoved
  <2>3. CASE Queues(t)
    BY <1>4, <2>1, <2>2, <2>3 DEF Queues, Unmoved
  <2>4. CASE Answers(t) \/ Misses(t)
    <3>1. j = i + 1 /\ Follows(Cur(t), i, j) /\ Cur(t).op \notin EndOps \cup {"begin"}
      BY <2>4 DEF Answers, Misses, Returned, Follows, EndOps
    <3>2. ~puts
      BY <1>3, <2>4 DEF Answers, Misses
    <3> QED BY <1>3, <1>4, <1>5, <2>1, <2>2, <3>1, <3>2 DEF Unmoved
  <2> QED BY <1>8, <2>3, <2>4
<1>9. CASE mine /\ Stores(t)
  <2>1. /\ tx'[s].open = tx[s].open /\ tx'[s].failed = tx[s].failed
        /\ \A r \in Rows : Latest(s, r)' = IF r = Cur(t).row THEN Written(t) ELSE Latest(s, r)
        /\ tx[s].open => val' = val
    BY <1>1, <1>2, <1>9, StoredRows
  <2>2. j = i + 1 /\ Follows(Cur(t), i, j) /\ Cur(t).op \in {"add", "set", "setif", "insert"}
        /\ Cur(t).op \notin EndOps \cup {"begin"}
    BY <1>9 DEF Stores, Returned, Follows, EndOps
  <2>3. /\ open[j] => open[i] /\ put[j] = IF puts THEN put[i] \cup {Cur(t).row} ELSE put[i]
    BY <1>3, <1>5, <1>9, <2>2
  <2>4. open[j] => tx'[s].open
    BY <1>4, <2>1, <2>3
  <2>5. ASSUME tx'[s].open, ~tx'[s].failed PROVE NewRows(plan, s)' = put[j]
    <3>1. put[j] = IF puts THEN put[i] \cup {Cur(t).row} ELSE put[i]
      BY <1>3, <1>5, <1>9, <2>2
    <3>2. NewRows(plan, s) = put[i] /\ val' = val
      BY <1>4, <2>1, <2>5
    <3>3. CASE Cur(t).row \notin PairedRows(plan)
      <4>1. \A r \in PairedRows(plan) : Latest(s, r)' = Latest(s, r)
        BY <1>1, <2>1, <3>3
      <4> QED BY <3>1, <3>2, <3>3, <4>1 DEF NewRows
    <3>4. CASE Cur(t).row \in PairedRows(plan)
      <4>1. /\ Written(t) # Absent
            /\ \/ Cur(t).op = "set" /\ Latest(s, Cur(t).row) # Absent
               \/ Cur(t).op = "insert" /\ Latest(s, Cur(t).row) = Absent
        BY <1>9, <3>4, PairWrites
      <4>2. CASE Cur(t).op = "set" /\ Latest(s, Cur(t).row) # Absent
        <5>1. NewRows(plan, s)' = NewRows(plan, s)
          BY <1>1, <2>1, <3>2, <4>1, <4>2 DEF NewRows
        <5> QED BY <3>1, <3>2, <4>2, <5>1
      <4>3. CASE Cur(t).op = "insert" /\ Latest(s, Cur(t).row) = Absent
        <5>1. val[Cur(t).row] = Absent
          BY <1>1, <3>4, <4>3 DEF NoRowIsLost
        <5>2. NewRows(plan, s)' = NewRows(plan, s) \cup {Cur(t).row}
          BY <1>1, <2>1, <3>2, <3>4, <4>1, <5>1 DEF NewRows
        <5> QED BY <1>9, <3>1, <3>2, <3>4, <4>3, <5>2
      <4> QED BY <4>1, <4>2, <4>3
    <3> QED BY <3>3, <3>4
  <2> QED BY <2>4, <2>5
<1>10. CASE mine /\ Begins(t)
  <2> DEFINE after == [NoTx EXCEPT !.open = TRUE, !.level = Cur(t).level]
  <2>1. after.open /\ after.own = <<>>
    BY NoTransaction DEF Transactions
  <2> HIDE DEF after
  <2>2. tx' = [tx EXCEPT ![s] = after] /\ val' = val /\ j = i + 1 /\ Cur(t).op = "begin"
    BY <1>10 DEF Begins, after
  <2>3. tx'[s] = after
    BY <1>1, <2>2 DEF SessionInv, IsolationInv, SessionTypeOK
  <2>4. Follows(Cur(t), i, j) /\ Cur(t).op \notin EndOps
    BY <2>2 DEF Follows, EndOps
  <2>5. put[j] = {}
    BY <1>3, <1>5, <1>10, <2>2, <2>4
  <2>6. NewRows(plan, s)' = {}
    BY <2>1, <2>3, NoWrites DEF NewRows, Latest
  <2> QED BY <2>1, <2>3, <2>5, <2>6
<1>11. CASE mine /\ (Commits(t) \/ GivesUp(t))
  <2>1. tx' = [tx EXCEPT ![s] = NoTx] /\ j = i + 1 /\ Cur(t).op \in EndOps
    BY <1>11 DEF Commits, GivesUp, EndOps
  <2>2. ~tx'[s].open
    BY <1>1, <2>1, NoTransaction DEF SessionInv, IsolationInv, SessionTypeOK
  <2>3. Follows(Cur(t), i, j) /\ Cur(t).op # "begin"
    BY <2>1 DEF Follows, EndOps
  <2>4. ~open[j]
    BY <1>3, <1>5, <1>11, <2>1, <2>3
  <2> QED BY <2>2, <2>4
<1>12. CASE mine /\ Fails(t)
  <2>1. Catches(Cur(t), i, j) /\ j # Len(Code(t)) + 1
    BY <1>1, <1>5, <1>12, CodesAreLists DEF Fails, SessionInv, IsolationInv
  <2> DEFINE after == IF tx[s].open THEN [tx[s] EXCEPT !.failed = TRUE] ELSE tx[s]
  <2>2. after.open = tx[s].open /\ (after.open => after.failed)
    BY <1>1 DEF SessionInv, IsolationInv, SessionTypeOK, Transactions
  <2> HIDE DEF after
  <2>3. tx' = [tx EXCEPT ![s] = after]
    BY <1>12, <2>1 DEF Fails, after
  <2>4. tx'[s] = after
    BY <1>1, <2>3 DEF SessionInv, IsolationInv, SessionTypeOK
  <2> QED BY <1>3, <1>4, <1>5, <2>1, <2>2, <2>4
<1>13. ~mine \/ ~Controls(t)
  BY DEF Controls
<1> QED BY <1>1, <1>2, <1>7, <1>8, <1>9, <1>10, <1>11, <1>12, <1>13, StepsAre

\* No step, and no crash, parts a pair.
LEMMA PairStep == ASSUME NEW plan PROVE PairInv(plan) /\ [SessionNext]_sessionVars => PairInv(plan)'
<1> SUFFICES ASSUME PairInv(plan), [SessionNext]_sessionVars PROVE PairInv(plan)'
  OBVIOUS
<1>1. SessionInv /\ SessionInv' /\ OneThreadEach(program.code, plan.user)
  BY IsolationStep, QueueStep DEF SessionInv, PairInv, Paired
<1>2. CASE UNCHANGED sessionVars
  <2>1. UNCHANGED <<program, val, tx, pc>>
    BY <1>2 DEF sessionVars
  <2> QED BY <1>1, <2>1 DEF PairInv, NoRowIsLost, BothOrNeither, InPairs, NewRows, Latest, Code
<1>3. CASE ProcessDies
  <2>1. /\ tx' = [s \in Sessions |-> NoTx] /\ UNCHANGED <<program, val>> /\ pc' = [t \in Threads |-> Len(Code(t)) + 1]
    BY <1>3 DEF ProcessDies
  <2>2. \A s \in Sessions : ~tx'[s].open /\ DOMAIN tx'[s].own = {}
    BY <2>1, NoTransaction, NoWrites
  <2>3. NoRowIsLost(plan)' /\ BothOrNeither(plan)'
    BY <2>1, <2>2 DEF PairInv, NoRowIsLost, BothOrNeither, Latest
  <2>4. ASSUME NEW s \in Sessions PROVE InPairs(plan, s)'
    <3>1. plan.user[s] \in Threads
      BY <1>1 DEF OneThreadEach
    <3>2. Len(Code(plan.user[s])) \in Nat /\ pc'[plan.user[s]] = Len(Code(plan.user[s])) + 1
      BY <1>1, <2>1, <3>1, CodesAreLists DEF SessionInv, IsolationInv
    <3>3. pc'[plan.user[s]] \notin 1..Len(Code(plan.user[s]))
      BY <3>2
    <3> QED BY <2>1, <2>2, <3>3 DEF InPairs, Code
  <2> QED BY <1>1, <2>1, <2>3, <2>4 DEF PairInv
<1>4. ASSUME NEW t \in Threads, ThreadStep(t) PROVE PairInv(plan)'
  <2>1. program' = program
    BY <1>1, <1>4, StepMoves
  <2>2. \A s \in Sessions : InPairs(plan, s)'
    BY <1>4, OwnInPairs, OthersInPairs
  <2>3. NoRowIsLost(plan)' /\ BothOrNeither(plan)'
    BY <1>4, PairsStay
  <2> QED BY <1>1, <2>1, <2>2, <2>3 DEF PairInv
<1> QED BY <1>2, <1>3, <1>4 DEF SessionNext

\* The pairs are whole at the start.
LEMMA PairsBegin == ASSUME NEW plan PROVE SessionInit /\ Paired(program, plan) => PairInv(plan)
<1> SUFFICES ASSUME SessionInit, Paired(program, plan) PROVE PairInv(plan)
  OBVIOUS
<1>1. SessionInv /\ val = program.rows /\ \A s \in Sessions : tx[s] = NoTx
  BY SessionBegins DEF SessionInit
<1>2. \A s \in Sessions : ~tx[s].open /\ DOMAIN tx[s].own = {}
  BY <1>1, NoTransaction, NoWrites
<1>3. NoRowIsLost(plan) /\ BothOrNeither(plan)
  BY <1>1, <1>2 DEF NoRowIsLost, BothOrNeither, Latest, Paired
<1>4. ASSUME NEW s \in Sessions PROVE InPairs(plan, s)
  <2>1. plan.user[s] \in Threads
    BY DEF Paired, OneThreadEach
  <2>2. pc[plan.user[s]] \in {0, 1}
    BY <2>1 DEF SessionInit
  <2>3. 1 \in 1..Len(Code(plan.user[s])) => ~plan.open[s][1]
    BY DEF Paired, PairedStep, Code
  <2> QED BY <1>2, <2>2, <2>3 DEF InPairs
<1> QED BY <1>1, <1>3, <1>4 DEF PairInv

\* Whatever the scripts, when each transaction commits both rows of a pair or
\* neither: in every committed state, crashes and failed INSERTs included, an
\* order is there if and only if its event is (lab 16's transactional outbox).
THEOREM PairsComeTogether ==
    ASSUME NEW plan PROVE SessionSpec /\ Paired(program, plan) => []BothOrNeither(plan)
<1>1. SessionInit /\ Paired(program, plan) => PairInv(plan)
  BY PairsBegin
<1>2. PairInv(plan) /\ [SessionNext]_sessionVars => PairInv(plan)'
  BY PairStep
<1>3. PairInv(plan) => BothOrNeither(plan)
  BY DEF PairInv
<1> QED BY <1>1, <1>2, <1>3, PTL DEF SessionSpec

-----------------------------------------------------------------------------
(* Leaving a team that keeps somebody on call. *)

\* What every transaction runs at.
SerialCode(code) == \A t \in Threads : \A i \in 1..Len(code[t]) : code[t][i].op = "begin" => code[t][i].level = "SER"

\* A transaction that has counted the others, and one that found somebody.
Counted(plan, s) == tx[s].snap # <<>> /\ Others(plan, s) \subseteq tx[s].reads
Spared(plan, s) == \E o \in Others(plan, s) : tx[s].snap[1].val[o] = 1
StageHolds(plan, s, stage) ==
    /\ tx[s].own = <<>> /\ tx[s].level = "SER"
    /\ stage # "begun" => Counted(plan, s)
    /\ stage = "counted" => (reg[plan.count[s]] >= 1 => Spared(plan, s))
    /\ stage = "spared" => Spared(plan, s)
InStage(plan, s) ==
    LET t == plan.user[s]
        i == pc[t]
    IN  /\ i = 0 => ~tx[s].open
        /\ i \in 1..Len(Code(t)) /\ plan.stage[s][i] # "out" =>
              tx[s].open /\ (~tx[s].failed => StageHolds(plan, s, plan.stage[s][i]))
\* Who has left has counted somebody else first.
LeavesRightly(plan, s) ==
    tx[s].open /\ ~tx[s].failed /\ DOMAIN tx[s].own # {} =>
        /\ tx[s].level = "SER" /\ Counted(plan, s) /\ Spared(plan, s)
        /\ DOMAIN tx[s].own = {plan.me[s]} /\ plan.me[s] \in plan.team /\ plan.team \subseteq tx[s].reads
\* What has changed since a snapshot was written by a transaction that committed
\* since, and who wrote had read the whole team.
SnapshotsAreOld ==
    \A s \in Sessions : tx[s].snap # <<>> =>
        /\ tx[s].snap[1].at \in 0..Len(past)
        /\ \A r \in Rows : tx[s].snap[1].val[r] # val[r] =>
              \E i \in tx[s].snap[1].at + 1..Len(past) : r \in past[i].writes
WritersRead(plan) == \A i \in 1..Len(past) : past[i].writes # {} => plan.team \subseteq past[i].reads
SomebodyOnCall(plan) == \E r \in plan.team : val[r] = 1
LeavingInv(plan) ==
    /\ SessionInv /\ Leaving(program, plan) /\ SerialCode(program.code)
    /\ SomebodyOnCall(plan) /\ SnapshotsAreOld /\ WritersRead(plan)
    /\ \A s \in Sessions : InStage(plan, s) /\ LeavesRightly(plan, s)

\* The snapshot is taken once, and is what is committed then.
LEMMA SnapshotIs ==
    ASSUME SessionTypeOK, NEW v \in Transactions
    PROVE  \/ WithSnapshot(v) = v /\ (v.level = "RC" \/ v.snap # <<>>)
           \/ /\ v.level # "RC" /\ v.snap = <<>> /\ WithSnapshot(v).snap # <<>>
              /\ WithSnapshot(v).snap[1].val = val /\ WithSnapshot(v).snap[1].at = Len(past)
<1> DEFINE x == [val |-> val, ver |-> ver, at |-> Len(past)]
<1>1. x.val = val /\ x.at = Len(past)
  OBVIOUS
<1> HIDE DEF x
<1> DEFINE w == [v EXCEPT !.snap = <<x>>]
<1>2. WithSnapshot(v) = IF v.level = "RC" \/ v.snap # <<>> THEN v ELSE w
  BY DEF WithSnapshot, x
<1>3. w.snap = <<x>>
  BY DEF Transactions
<1>4. <<x>> # <<>> /\ <<x>>[1] = x
  OBVIOUS
<1> QED BY <1>1, <1>2, <1>3, <1>4

\* What a statement that returns has read.
LEMMA NotedReads ==
    ASSUME SessionTypeOK, NEW t, Cur(t).s \in Sessions, NEW own \in Writes, NEW reads \in SUBSET Rows
    PROVE  LET now == Noted(t, own, reads)
           IN  now.snap = WithSnapshot(tx[Cur(t).s]).snap /\ now.reads = tx[Cur(t).s].reads \cup reads
<1> DEFINE w == WithSnapshot(tx[Cur(t).s])
<1>1. tx[Cur(t).s] \in Transactions
  BY DEF SessionTypeOK
<1>2. w \in Transactions /\ w.reads = tx[Cur(t).s].reads
  BY <1>1, Snapshotted
<1> HIDE DEF w
<1>3. Noted(t, own, reads) = [w EXCEPT !.own = own, !.reads = w.reads \cup reads]
  BY DEF Noted, w
<1>4. Noted(t, own, reads).snap = w.snap /\ Noted(t, own, reads).reads = w.reads \cup reads
  BY <1>2, <1>3 DEF Transactions
<1> QED BY <1>2, <1>4 DEF w

\* Where the snapshots of transactions come from.
LEMMA SnapshotsMove ==
    ASSUME SessionInv, NEW t \in Threads, ThreadStep(t), Cur(t).op \notin {"try", "unlock"}, NEW s \in Sessions
    PROVE  \/ tx'[s].snap = tx[s].snap \/ tx'[s].snap = <<>>
           \/ tx'[s].snap[1].val = val /\ tx'[s].snap[1].at = Len(past)
<1>1. /\ Running(t) /\ SessionTypeOK /\ IsolationInv /\ tx \in [Sessions -> Transactions]
  BY ActsOnItsStep DEF SessionInv, IsolationInv, SessionTypeOK
<1>2. IsStatement(Cur(t)) /\ Cur(t).s \in Sessions
  BY <1>1, StatementAtHand DEF IsStatement
<1>3. CASE Controls(t) \/ Cur(t).s # s
  <2>1. CASE Controls(t)
    BY <2>1 DEF Controls
  <2>2. CASE Cur(t).op \in SqlOps /\ Cur(t).s # s
    BY <2>2, OthersRows
  <2> QED BY <1>3, <2>1, <2>2, StepsAre
          DEF Answers, Misses, Stores, Begins, Commits, GivesUp, Fails, Queues, Controls, SqlOps, LockOps, EndOps
<1>4. WithSnapshot(tx[s]).snap = tx[s].snap
      \/ (WithSnapshot(tx[s]).snap[1].val = val /\ WithSnapshot(tx[s]).snap[1].at = Len(past))
  BY <1>1, SnapshotIs
<1>5. ASSUME s = Cur(t).s, NEW own \in Writes, NEW reads \in SUBSET Rows, Returned(t, own, reads)
      PROVE  tx'[s].snap = tx[s].snap \/ tx'[s].snap = WithSnapshot(tx[s]).snap
  <2> DEFINE now == Noted(t, own, reads)
  <2>1. now.snap = WithSnapshot(tx[s]).snap
    BY <1>1, <1>5, NotedReads
  <2> HIDE DEF now
  <2>2. tx' = tx \/ tx' = [tx EXCEPT ![s] = now]
    BY <1>5 DEF Returned, now
  <2> QED BY <1>1, <2>1, <2>2
<1>6. CASE s = Cur(t).s /\ (Answers(t) \/ Misses(t) \/ Stores(t))
  <2>1. tx[s].own \in Writes
    BY <1>1 DEF Transactions
  <2>2. CASE Answers(t)
    BY <1>4, <1>5, <1>6, <2>1, <2>2 DEF Answers
  <2>3. CASE Misses(t) \/ Stores(t)
    <3>1. Cur(t).op \in {"add", "set", "setif", "insert"} /\ Cur(t).row \in Rows /\ {Cur(t).row} \in SUBSET Rows
      BY <1>2, <2>3 DEF Misses, Stores, IsStatement
    <3>2. Written(t) \in Int
      BY <1>1, <3>1, WrittenIsNumber
    <3>3. WithRow(tx[s].own, Cur(t).row, Written(t)) \in Writes
      BY <2>1, <3>1, <3>2, WithRowIs
    <3> QED BY <1>4, <1>5, <1>6, <2>1, <2>3, <3>1, <3>3 DEF Misses, Stores
  <2> QED BY <1>6, <2>2, <2>3
<1>7. CASE s = Cur(t).s /\ (Begins(t) \/ Commits(t) \/ GivesUp(t) \/ Fails(t) \/ Queues(t))
  <2> DEFINE new == [NoTx EXCEPT !.open = TRUE, !.level = Cur(t).level]
             failed == IF tx[s].open THEN [tx[s] EXCEPT !.failed = TRUE] ELSE tx[s]
             asks == IF tx[s].open THEN WithSnapshot(tx[s]) ELSE tx[s]
  <2>1. new.snap = <<>> /\ NoTx.snap = <<>> /\ failed.snap = tx[s].snap /\ asks.snap \in {tx[s].snap, WithSnapshot(tx[s]).snap}
    BY <1>1, NoTransaction DEF Transactions
  <2> HIDE DEF new, failed, asks
  <2>2. \E after \in {new, failed, asks, NoTx} : tx' = [tx EXCEPT ![s] = after]
    BY <1>7 DEF Begins, Commits, GivesUp, Fails, Queues, new, failed, asks
  <2> QED BY <1>1, <1>4, <2>1, <2>2
<1> QED BY <1>3, <1>6, <1>7, StepsAre

\* Only COMMIT at SERIALIZABLE is remembered.
LEMMA PastMoves ==
    ASSUME SessionInv, NEW t \in Threads, ThreadStep(t)
    PROVE  \/ past' = past /\ (Cur(t).op = "commit" => Fails(t) \/ GivesUp(t))
           \/ /\ Commits(t)
              /\ past' = IF tx[Cur(t).s].level = "SER"
                         THEN Append(past, [reads |-> tx[Cur(t).s].reads, writes |-> DOMAIN tx[Cur(t).s].own])
                         ELSE past
<1>1. CASE Cur(t).op = "commit"
  <2>1. CommitTx(t)
    <3>1. ~(Refuse(t) \/ DeadlockVictim(t))
      BY <1>1 DEF Refuse, DeadlockVictim, MutualWait, Waiting, QueuedAt, QueueOK, LockOps, SessionInv
    <3> QED BY <1>1, <3>1 DEF ThreadStep, BeginTx, Select, SelectForLock, Write, Wait, TryLock, Unlock, RollbackTx,
            DropSession, StartThread, AwaitThread, AwaitValue, SleepEnds, SetVariable, Branch, At
  <2>2. Running(t) /\ pc \in [Threads -> Int]
    BY ActsOnItsStep DEF SessionInv, IsolationInv, SessionTypeOK
  <2>3. CASE ~tx[Cur(t).s].failed /\ IsPivot(Cur(t).s, tx[Cur(t).s].own, tx[Cur(t).s].reads)
    <3>1. Throw(t, SerializationFailure)
      BY <2>1, <2>3 DEF CommitTx
    <3>2. past' = past /\ UNCHANGED val
      BY <3>1 DEF Throw
    <3>3. CASE Cur(t).catch = 0
      <4>1. tx' = [tx EXCEPT ![Cur(t).s] = NoTx] /\ pc' = [pc EXCEPT ![t] = Len(Code(t)) + 1]
        BY <3>1, <3>3 DEF Throw, Go
      <4> QED BY <1>1, <2>2, <3>2, <4>1 DEF Fails, SqlOps, EndOps
    <3>4. CASE Cur(t).catch # 0
      <4>1. /\ tx' = [tx EXCEPT ![Cur(t).s] = IF @.open THEN [@ EXCEPT !.failed = TRUE] ELSE @]
            /\ pc' = [pc EXCEPT ![t] = pc[t] + Cur(t).catch]
        BY <3>1, <3>4 DEF Throw, Go
      <4> QED BY <1>1, <2>2, <3>2, <3>4, <4>1 DEF Fails, SqlOps, EndOps, Catches
    <3> QED BY <3>3, <3>4
  <2>4. CASE ~(~tx[Cur(t).s].failed /\ IsPivot(Cur(t).s, tx[Cur(t).s].own, tx[Cur(t).s].reads))
    <3>1. /\ tx' = [tx EXCEPT ![Cur(t).s] = NoTx] /\ pc' = [pc EXCEPT ![t] = pc[t] + 1]
          /\ val' = IF tx[Cur(t).s].failed THEN val ELSE Over(tx[Cur(t).s].own, val)
          /\ past' = IF tx[Cur(t).s].level = "SER" /\ ~tx[Cur(t).s].failed
                     THEN Append(past, [reads |-> tx[Cur(t).s].reads, writes |-> DOMAIN tx[Cur(t).s].own])
                     ELSE past
      BY <2>1, <2>4 DEF CommitTx, EndTx, Go
    <3>2. pc'[t] = pc[t] + 1
      BY <2>2, <3>1
    <3>3. CASE tx[Cur(t).s].failed
      BY <1>1, <3>1, <3>2, <3>3 DEF GivesUp, EndOps
    <3>4. CASE ~tx[Cur(t).s].failed
      BY <1>1, <2>4, <3>1, <3>2, <3>4 DEF Commits
    <3> QED BY <3>3, <3>4
  <2> QED BY <2>3, <2>4
<1>2. CASE Cur(t).op # "commit"
  <2>1. ~CommitTx(t)
    BY <1>2 DEF CommitTx, At
  <2>2. past' = past
    <3>1. \A code : Throw(t, code) => past' = past
      BY DEF Throw
    <3>2. \A res, own, reads : Return(t, res, own, reads) => past' = past
      BY DEF Return
    <3>3. CASE Select(t) \/ SelectForLock(t) \/ Refuse(t) \/ DeadlockVictim(t) \/ TryLock(t)
      <4>1. CASE Select(t)
        BY <3>2, <4>1 DEF Select
      <4>2. CASE SelectForLock(t)
        BY <3>1, <3>2, <4>2 DEF SelectForLock
      <4>3. CASE Refuse(t) \/ DeadlockVictim(t)
        BY <3>1, <4>3 DEF Refuse, DeadlockVictim
      <4>4. CASE TryLock(t)
        BY <3>2, <4>4 DEF TryLock
      <4> QED BY <3>3, <4>1, <4>2, <4>3, <4>4
    <3>4. CASE Write(t)
      BY <3>1, <3>2, <3>4 DEF Write
    <3>5. CASE BeginTx(t) \/ Wait(t) \/ Unlock(t) \/ RollbackTx(t) \/ DropSession(t)
      BY <3>5 DEF BeginTx, Wait, Unlock, RollbackTx, DropSession
    <3>6. CASE StartThread(t) \/ AwaitThread(t) \/ AwaitValue(t) \/ SleepEnds(t) \/ SetVariable(t) \/ Branch(t)
      BY <3>6 DEF StartThread, AwaitThread, AwaitValue, SleepEnds, SetVariable, Branch, controlVars
    <3> QED BY <2>1, <3>3, <3>4, <3>5, <3>6 DEF ThreadStep
  <2> QED BY <1>2, <2>2
<1> QED BY <1>1, <1>2

\* A variable of the script changes only by a step that reads into it.
LEMMA VariablesMove ==
    ASSUME SessionInv, NEW t \in Threads, ThreadStep(t), NEW x \in Regs, Cur(t).into # x
    PROVE  reg'[x] = reg[x]
<1>1. reg \in [Regs -> Int]
  BY DEF SessionInv, IsolationInv, SessionTypeOK
<1>2. \A v : Assign(Cur(t).into, v) => reg'[x] = reg[x]
  BY <1>1 DEF Assign
<1>3. \A code : Throw(t, code) => reg' = reg
  BY DEF Throw
<1>4. \A res, own, reads : Return(t, res, own, reads) => reg'[x] = reg[x]
  BY <1>2 DEF Return
<1>5. CASE Select(t)
  BY <1>4, <1>5 DEF Select
<1>6. CASE SelectForLock(t)
  BY <1>3, <1>4, <1>6 DEF SelectForLock
<1>7. CASE Write(t)
  BY <1>3, <1>4, <1>7 DEF Write
<1>8. CASE TryLock(t)
  BY <1>2, <1>4, <1>8 DEF TryLock
<1>9. CASE CommitTx(t)
  BY <1>3, <1>9 DEF CommitTx
<1>10. CASE Refuse(t) \/ DeadlockVictim(t) \/ BeginTx(t) \/ Wait(t) \/ RollbackTx(t) \/ DropSession(t)
  BY <1>3, <1>10 DEF Refuse, DeadlockVictim, BeginTx, Wait, RollbackTx, DropSession
<1>11. CASE Unlock(t) \/ SetVariable(t)
  BY <1>2, <1>11 DEF Unlock, SetVariable
<1>12. CASE StartThread(t) \/ AwaitThread(t) \/ AwaitValue(t) \/ SleepEnds(t) \/ Branch(t)
  BY <1>12 DEF StartThread, AwaitThread, AwaitValue, SleepEnds, Branch
<1> QED BY <1>5, <1>6, <1>7, <1>8, <1>9, <1>10, <1>11, <1>12 DEF ThreadStep

\* Where a branch on a variable goes.
LEMMA BranchesGo ==
    ASSUME SessionInv, NEW t \in Threads, ThreadStep(t), Cur(t).op \in {"atleast", "atmost"}
    PROVE  /\ reg' = reg /\ tx' = tx
           /\ Cur(t).op = "atleast" => pc'[t] = pc[t] + (IF reg[Cur(t).from] >= Cur(t).k THEN Cur(t).to ELSE 1)
           /\ Cur(t).op = "atmost" => pc'[t] = pc[t] + (IF reg[Cur(t).from] <= Cur(t).k THEN Cur(t).to ELSE 1)
<1>1. Running(t) /\ pc \in [Threads -> Int]
  BY ActsOnItsStep DEF SessionInv, IsolationInv, SessionTypeOK
<1>2. Branch(t)
  <2>1. ~(Refuse(t) \/ DeadlockVictim(t))
    BY DEF Refuse, DeadlockVictim, MutualWait, Waiting, QueuedAt, QueueOK, LockOps, SessionInv
  <2>2. ~Wait(t)
    BY DEF Wait
  <2> QED BY <2>1, <2>2 DEF ThreadStep, BeginTx, Select, SelectForLock, Write, TryLock, Unlock, CommitTx, RollbackTx,
            DropSession, StartThread, AwaitThread, AwaitValue, SleepEnds, SetVariable, At
<1> DEFINE taken == CASE Cur(t).op \in {"goto", "raise"} -> TRUE
                      [] Cur(t).op = "atmost" -> reg[Cur(t).from] <= Cur(t).k
                      [] Cur(t).op = "atleast" -> reg[Cur(t).from] >= Cur(t).k
                      [] Cur(t).op = "iferror" -> err[t] = Cur(t).k
<1>3. CASE Cur(t).op = "atleast"
  <2>1. taken <=> reg[Cur(t).from] >= Cur(t).k
    BY <1>3, ZenonT(30)
  <2>2. pc' = [pc EXCEPT ![t] = pc[t] + (IF taken THEN Cur(t).to ELSE 1)] /\ reg' = reg /\ tx' = tx
    BY <1>2, <1>3, Zenon DEF Branch, Go, controlVars
  <2> HIDE DEF taken
  <2> QED BY <1>1, <1>3, <2>1, <2>2
<1>4. CASE Cur(t).op = "atmost"
  <2>1. taken <=> reg[Cur(t).from] <= Cur(t).k
    BY <1>4, ZenonT(30)
  <2>2. pc' = [pc EXCEPT ![t] = pc[t] + (IF taken THEN Cur(t).to ELSE 1)] /\ reg' = reg /\ tx' = tx
    BY <1>2, <1>4, Zenon DEF Branch, Go, controlVars
  <2> HIDE DEF taken
  <2> QED BY <1>1, <1>4, <2>1, <2>2
<1> QED BY <1>3, <1>4

\* A statement that counts: what it counted was there in the snapshot.
LEMMA CountsWhatIsThere ==
    ASSUME SessionInv, NEW t \in Threads, ThreadStep(t), Answers(t), Cur(t).op = "count",
           NEW s \in Sessions, s = Cur(t).s, tx[s].open,
           tx[s].own = <<>>, tx[s].level = "SER", NEW x \in Regs, Cur(t).into = x
    PROVE  /\ tx'[s].own = <<>> /\ tx'[s].level = "SER" /\ tx'[s].snap # <<>>
           /\ Cur(t).rows \subseteq tx'[s].reads
           /\ reg'[x] >= 1 => \E r \in Cur(t).rows : tx'[s].snap[1].val[r] = 1
<1> DEFINE seen == {r \in Cur(t).rows : Visible(s, r) = 1}
           now == Noted(t, tx[s].own, Cur(t).rows)
<1>1. /\ Running(t) /\ SessionTypeOK /\ IsolationInv /\ tx \in [Sessions -> Transactions]
      /\ reg \in [Regs -> Int] /\ tx[s].own \in Writes
  BY ActsOnItsStep DEF SessionInv, IsolationInv, SessionTypeOK, Transactions
<1>2. Cur(t).rows \in SUBSET Rows
  BY <1>1, StatementAtHand DEF IsStatement
<1>3. Return(t, Cardinality(seen), tx[s].own, Cur(t).rows)
  <2>1. Select(t)
    <3>1. ~(Refuse(t) \/ DeadlockVictim(t))
      BY DEF Refuse, DeadlockVictim, MutualWait, Waiting, QueuedAt, QueueOK, LockOps, SessionInv
    <3>2. ~Wait(t)
      BY DEF Wait
    <3> QED BY <3>1, <3>2 DEF ThreadStep, BeginTx, SelectForLock, Write, TryLock, Unlock, CommitTx, RollbackTx,
            DropSession, StartThread, AwaitThread, AwaitValue, SleepEnds, SetVariable, Branch, At
  <2> QED BY <2>1 DEF Select
<1>4. tx' = [tx EXCEPT ![s] = now]
  BY <1>3, ReturnInside
<1>5. /\ now.own = <<>> /\ now.level = "SER" /\ now.snap = WithSnapshot(tx[s]).snap
      /\ Cur(t).rows \subseteq now.reads
  <2>1. now.own = tx[s].own /\ now.level = tx[s].level
    BY <1>1, <1>2, NotedIs
  <2>2. now.snap = WithSnapshot(tx[s]).snap /\ now.reads = tx[s].reads \cup Cur(t).rows
    BY <1>1, <1>2, NotedReads
  <2> QED BY <2>1, <2>2
<1> HIDE DEF now
<1>6. tx'[s] = now
  BY <1>1, <1>4
<1>7. /\ WithSnapshot(tx[s]).snap # <<>>
      /\ \A r \in Rows : Visible(s, r) = WithSnapshot(tx[s]).snap[1].val[r]
  <2>1. CASE WithSnapshot(tx[s]) = tx[s] /\ tx[s].snap # <<>>
    BY <1>1, <2>1, NoWrites DEF Visible
  <2>2. CASE tx[s].snap = <<>> /\ WithSnapshot(tx[s]).snap # <<>> /\ WithSnapshot(tx[s]).snap[1].val = val
    BY <2>2, NoWrites DEF Visible, Latest
  <2> QED BY <1>1, <2>1, <2>2, SnapshotIs
<1>8. reg'[x] = Cardinality(seen)
  <2> HIDE DEF seen
  <2>1. reg' = [reg EXCEPT ![x] = Cardinality(seen)]
    BY <1>3, ReturnElse
  <2> QED BY <1>1, <2>1
<1>9. ASSUME reg'[x] >= 1 PROVE \E r \in Cur(t).rows : tx'[s].snap[1].val[r] = 1
  <2>1. seen # {}
    <3> SUFFICES ASSUME seen = {} PROVE FALSE
      OBVIOUS
    <3>1. Cardinality({}) = 0
      BY FS_EmptySet
    <3> HIDE DEF seen
    <3>2. Cardinality(seen) = 0
      BY <3>1
    <3> QED BY <1>8, <1>9, <3>2
  <2>2. PICK r \in Cur(t).rows : Visible(s, r) = 1
    BY <2>1
  <2> QED BY <1>2, <1>5, <1>6, <1>7, <2>2
<1> QED BY <1>5, <1>6, <1>7, <1>9

\* What the plan says of a step of the thread of a session.
LEMMA LeavingPlan ==
    ASSUME NEW plan, LeavingInv(plan), NEW t \in Threads, ThreadStep(t), NEW s \in Sessions, plan.user[s] = t
    PROVE  /\ LeavingStep(s, pc[t], program.code, plan)
           /\ program.code[plan.user[s]][pc[t]] = Cur(t) /\ pc[t] \in 1..Len(Code(t))
           /\ program.code[plan.user[s]] = Code(t)
           /\ Cur(t).op = "begin" => Cur(t).level = "SER"
           /\ \A o \in Sessions : Cur(t).into = plan.count[o] => Cur(t).op = "count" /\ Cur(t).s = o
<1>1. SessionInv /\ OneThreadEach(program.code, plan.user) /\ Leaving(program, plan) /\ SerialCode(program.code)
  BY DEF LeavingInv, Leaving
<1>2. Cur(t) = program.code[t][pc[t]] /\ pc[t] \in 1..Len(Code(t))
  BY <1>1, NeverBeforeTheStart
<1>3. LeavingStep(s, pc[t], program.code, plan)
  BY <1>1, <1>2 DEF Leaving, Code
<1>4. \A o \in Sessions : Cur(t).into = plan.count[o] => Cur(t).op = "count" /\ Cur(t).s = o
  BY <1>1, <1>2 DEF Leaving, Code
<1> QED BY <1>1, <1>2, <1>3, <1>4 DEF SerialCode, Code

\* What a statement may write: the row of who leaves, in a transaction that
\* found somebody else on call.
LEMMA WhoLeaves ==
    ASSUME NEW plan, LeavingInv(plan), NEW t \in Threads, ThreadStep(t), Misses(t) \/ Stores(t) \/ Queues(t),
           NEW s \in Sessions, s = Cur(t).s
    PROVE  /\ plan.user[s] = t /\ Cur(t).op = "set" /\ Cur(t).row = plan.me[s] /\ plan.me[s] \in plan.team
           /\ plan.stage[s][pc[t]] = "spared" /\ tx[s].open
           /\ ~tx[s].failed => StageHolds(plan, s, "spared")
<1>1. SessionInv /\ OneThreadEach(program.code, plan.user) /\ InStage(plan, s)
  BY DEF LeavingInv, Leaving
<1>2. Cur(t).op \in LockOps /\ Cur(t).op \in SqlOps /\ Cur(t).op \notin {"begin", "count"} \cup EndOps
  BY DEF Misses, Stores, Queues, SqlOps, LockOps, EndOps
<1>3. plan.user[s] = t
  BY <1>1, <1>2, NeverBeforeTheStart
<1>4. /\ LeavingStep(s, pc[t], program.code, plan) /\ program.code[plan.user[s]][pc[t]] = Cur(t)
      /\ pc[t] \in 1..Len(Code(t))
  BY <1>3, LeavingPlan
<1>5. Cur(t).op = "set" /\ plan.stage[s][pc[t]] = "spared" /\ Cur(t).row = plan.me[s] /\ plan.me[s] \in plan.team
  BY <1>2, <1>4 DEF LeavingStep
<1> QED BY <1>1, <1>3, <1>4, <1>5 DEF InStage

\* Only a session's own count moves the variable it counts into.
LEMMA CountStays ==
    ASSUME NEW plan, LeavingInv(plan), NEW t \in Threads, ThreadStep(t), NEW s \in Sessions,
           ~(Cur(t).op = "count" /\ Cur(t).s = s)
    PROVE  reg'[plan.count[s]] = reg[plan.count[s]]
<1>1. SessionInv /\ OneThreadEach(program.code, plan.user) /\ plan.count[s] \in Regs
  BY DEF LeavingInv, Leaving
<1>2. Cur(t) = program.code[t][pc[t]] /\ pc[t] \in 1..Len(Code(t))
  BY <1>1, NeverBeforeTheStart
<1>3. Cur(t).into # plan.count[s]
  BY <1>2 DEF LeavingInv, Leaving, Code
<1>4. PICK x \in Regs : x = plan.count[s]
  BY <1>1
<1> QED BY <1>1, <1>3, <1>4, VariablesMove

\* What is not touched stays where it is.
LEMMA StageStays ==
    ASSUME NEW plan, NEW s, NEW stage, StageHolds(plan, s, stage), tx'[s] = tx[s],
           reg'[plan.count[s]] = reg[plan.count[s]]
    PROVE  StageHolds(plan, s, stage)'
  BY DEF StageHolds, Counted, Spared, Others

\* What a step of another thread leaves a session.
LEMMA OthersInStage ==
    ASSUME NEW plan, LeavingInv(plan), NEW t \in Threads, ThreadStep(t), NEW s \in Sessions, plan.user[s] # t
    PROVE  InStage(plan, s)'
<1> DEFINE u == plan.user[s]
<1>1. SessionInv /\ OneThreadEach(program.code, plan.user) /\ u \in Threads /\ InStage(plan, s)
  BY DEF LeavingInv, Leaving, OneThreadEach
<1>2. tx'[s] = tx[s] /\ (Cur(t).op \in SqlOps => Cur(t).s # s)
  BY <1>1, NeverBeforeTheStart, OthersRows
<1>3. program' = program /\ (pc'[u] = pc[u] \/ (pc[u] = 0 /\ pc'[u] = 1))
  BY <1>1, StepMoves
<1>4. CASE pc'[u] = pc[u]
  <2>1. reg'[plan.count[s]] = reg[plan.count[s]]
    BY <1>2, CountStays DEF SqlOps
  <2>2. pc[u] = 0 => ~tx'[s].open
    BY <1>1, <1>2 DEF InStage
  <2>3. ASSUME pc[u] \in 1..Len(Code(u)), plan.stage[s][pc[u]] # "out"
        PROVE  tx[s].open /\ (~tx[s].failed => StageHolds(plan, s, plan.stage[s][pc[u]])')
    <3>1. PICK stage : stage = plan.stage[s][pc[u]]
      OBVIOUS
    <3>2. tx[s].open /\ (~tx[s].failed => StageHolds(plan, s, stage))
      BY <1>1, <2>3, <3>1 DEF InStage
    <3>3. ~tx[s].failed => StageHolds(plan, s, stage)'
      BY <1>2, <2>1, <3>2, StageStays
    <3>4. plan.stage[s][pc[u]]' = stage
      BY <1>4, <3>1
    <3> QED BY <3>2, <3>3, <3>4 DEF StageHolds
  <2> QED BY <1>2, <1>3, <1>4, <2>2, <2>3 DEF InStage, Code, StageHolds
<1>5. CASE pc[u] = 0 /\ pc'[u] = 1
  <2>1. 1 \in 1..Len(Code(u)) => plan.stage[s][1] = "out"
    <3>1. 1 \in 1..Len(Code(u)) => LeavingStep(s, 1, program.code, plan)
      BY <1>1 DEF LeavingInv, Leaving, Code
    <3> QED BY <3>1, Zenon DEF LeavingStep
  <2> QED BY <1>2, <1>3, <1>5, <2>1 DEF InStage, Code
<1> QED BY <1>3, <1>4, <1>5

\* What a step of its own thread leaves a session.
LEMMA OwnInStage ==
    ASSUME NEW plan, LeavingInv(plan), NEW t \in Threads, ThreadStep(t), NEW s \in Sessions, plan.user[s] = t
    PROVE  InStage(plan, s)'
<1> DEFINE i == pc[t]
           j == pc'[t]
           stage == plan.stage[s]
           mine == Cur(t).op \in SqlOps /\ Cur(t).s = s
<1>1. /\ SessionInv /\ OneThreadEach(program.code, plan.user) /\ InStage(plan, s)
      /\ plan.count[s] \in Regs
  BY DEF LeavingInv, Leaving
<1>2. /\ Running(t) /\ Cur(t).op \notin {"try", "unlock"} /\ pc'[t] # 0
      /\ i \in 1..Len(Code(t)) /\ program' = program
  BY <1>1, NeverBeforeTheStart, StepMoves
<1>3. /\ mine => Cur(t).op \in {"begin", "count", "set"} \cup EndOps
      /\ mine /\ Cur(t).op = "count" =>
            stage[i] = "begun" /\ Cur(t).rows = Others(plan, s) /\ Cur(t).into = plan.count[s]
      /\ \A n \in 1..Len(Code(t)) : Catches(Cur(t), i, n) => stage[n] \in {"out", stage[i]}
  <2>1. LeavingStep(s, i, program.code, plan) /\ program.code[plan.user[s]][i] = Cur(t) /\ program.code[plan.user[s]] = Code(t)
    BY LeavingPlan
  <2>2. mine => Cur(t).op \in {"begin", "count", "set"} \cup EndOps
    BY <2>1 DEF LeavingStep
  <2>3. mine /\ Cur(t).op = "count" =>
            stage[i] = "begun" /\ Cur(t).rows = Others(plan, s) /\ Cur(t).into = plan.count[s]
    BY <2>1 DEF LeavingStep
  <2>4. ASSUME NEW n \in 1..Len(Code(t)), Catches(Cur(t), i, n) PROVE stage[n] \in {"out", stage[i]}
    BY <2>1, <2>4 DEF LeavingStep
  <2> QED BY <2>2, <2>3, <2>4
<1>4. ASSUME NEW n \in 1..Len(Code(t)), Follows(Cur(t), i, n)
      PROVE  \/ stage[n] = "out"
             \/ mine /\ Cur(t).op = "begin" /\ stage[n] = "begun"
             \/ mine /\ Cur(t).op = "count" /\ stage[n] = "counted"
             \/ ~mine /\ stage[n] = stage[i]
             \/ /\ stage[i] = "counted" /\ stage[n] = "spared" /\ Cur(t).from = plan.count[s]
                /\ \/ Cur(t).op = "atleast" /\ Cur(t).k >= 1 /\ n # i + 1
                   \/ Cur(t).op = "atmost" /\ Cur(t).k >= 0 /\ n # i + Cur(t).to
  <2>1. LeavingStep(s, i, program.code, plan) /\ program.code[plan.user[s]][i] = Cur(t) /\ program.code[plan.user[s]] = Code(t)
    BY LeavingPlan
  <2> QED BY <1>4, <2>1 DEF LeavingStep
<1> HIDE DEF stage
<1>5. stage[i] # "out" => tx[s].open /\ (~tx[s].failed => StageHolds(plan, s, stage[i]))
  BY <1>1, <1>2 DEF InStage, stage
<1>6. SUFFICES ASSUME j \in 1..Len(Code(t)), NEW here, here = stage[j], here # "out"
               PROVE  tx'[s].open /\ (~tx'[s].failed => StageHolds(plan, s, here)')
  <2>1. pc'[t] \in 1..Len(Code(t)) /\ plan.stage[s][pc'[t]] # "out" =>
           tx'[s].open /\ (~tx'[s].failed => StageHolds(plan, s, plan.stage[s][pc[t]])')
    BY <1>6 DEF stage, StageHolds
  <2> QED BY <1>2, <2>1 DEF InStage, Code
<1>7. \/ Follows(Cur(t), i, j) \/ Catches(Cur(t), i, j) \/ Queues(t)
  <2>1. j # Len(Code(t)) + 1
    BY <1>1, <1>6, CodesAreLists DEF SessionInv, IsolationInv
  <2>2. Cur(t).op \in SqlOps => (j = i + 1 => Follows(Cur(t), i, j))
    BY DEF Follows, SqlOps, LockOps, EndOps
  <2> QED BY <1>1, <1>2, <2>1, <2>2, StepsAre
          DEF Answers, Misses, Stores, Begins, Commits, GivesUp, Fails, Controls, Returned, SqlOps, LockOps, EndOps
<1>8. CASE ~mine
  <2>1. tx'[s] = tx[s] /\ reg'[plan.count[s]] = reg[plan.count[s]]
    <3>1. ~(Cur(t).op = "count" /\ Cur(t).s = s)
      BY <1>8 DEF SqlOps
    <3> QED BY <1>1, <1>2, <1>8, <3>1, OthersRows, CountStays
  <2>2. StageHolds(plan, s, here) => StageHolds(plan, s, here)'
    BY <2>1, StageStays
  <2>3. CASE stage[j] = stage[i]
    BY <1>5, <1>6, <2>1, <2>2, <2>3
  <2>4. CASE /\ stage[i] = "counted" /\ stage[j] = "spared" /\ Cur(t).from = plan.count[s]
             /\ \/ Cur(t).op = "atleast" /\ Cur(t).k >= 1 /\ j # i + 1
                \/ Cur(t).op = "atmost" /\ Cur(t).k >= 0 /\ j # i + Cur(t).to
    <3>1. Cur(t).k \in Int /\ reg[plan.count[s]] \in Int
      BY <1>1, <1>2, StatementAtHand DEF SessionInv, IsolationInv, SessionTypeOK, IsStatement
    <3>2. reg[plan.count[s]] >= 1
      BY <1>1, <2>4, <3>1, BranchesGo
    <3>3. ~tx[s].failed => StageHolds(plan, s, here)
      BY <1>5, <1>6, <2>4, <3>2 DEF StageHolds
    <3> QED BY <1>5, <2>1, <2>2, <2>4, <3>3
  <2>5. CASE Queues(t)
    <3>1. j = i
      BY <2>5 DEF Queues
    <3> QED BY <2>3, <3>1
  <2>6. CASE Follows(Cur(t), i, j)
    BY <1>4, <1>6, <1>8, <2>3, <2>4, <2>6
  <2>7. CASE Catches(Cur(t), i, j)
    BY <1>3, <1>6, <2>3, <2>7
  <2> QED BY <1>7, <2>5, <2>6, <2>7
<1>9. CASE mine /\ Queues(t)
  <2>1. /\ stage[i] = "spared" /\ tx[s].open /\ (~tx[s].failed => StageHolds(plan, s, "spared"))
    BY <1>9, WhoLeaves DEF stage
  <2>2. j = i /\ tx' = [tx EXCEPT ![s] = WithSnapshot(tx[s])] /\ Unmoved(s)
    BY <1>1, <1>2, <1>9, <2>1, QuietRows DEF Queues
  <2>3. ASSUME ~tx[s].failed PROVE tx'[s] = tx[s] /\ reg'[plan.count[s]] = reg[plan.count[s]]
    <3>1. tx[s].snap # <<>> /\ tx[s] \in Transactions
      BY <1>1, <2>1, <2>3 DEF StageHolds, Counted, SessionInv, IsolationInv, SessionTypeOK
    <3>2. WithSnapshot(tx[s]) = tx[s]
      BY <3>1 DEF WithSnapshot
    <3>3. Cur(t).op # "count"
      BY <1>9 DEF Queues, LockOps
    <3> QED BY <1>1, <2>2, <3>2, <3>3, CountStays DEF SessionInv, IsolationInv, SessionTypeOK
  <2>4. here = "spared"
    BY <1>6, <2>1, <2>2
  <2>5. ~tx[s].failed => StageHolds(plan, s, here)'
    BY <2>1, <2>3, <2>4, StageStays
  <2> QED BY <2>1, <2>2, <2>5 DEF Unmoved
<1>10. CASE mine /\ Answers(t)
  <2>1. Cur(t).op = "count" /\ j = i + 1 /\ Follows(Cur(t), i, j)
    BY <1>3, <1>10 DEF Answers, Returned, Follows, EndOps
  <2>2. stage[i] = "begun" /\ stage[j] = "counted"
    BY <1>3, <1>4, <1>6, <1>10, <2>1
  <2>3. tx[s].open /\ (~tx[s].failed => tx[s].own = <<>> /\ tx[s].level = "SER")
    BY <1>5, <2>2 DEF StageHolds
  <2>4. Unmoved(s)
    BY <1>1, <1>2, <1>10, QuietRows
  <2>5. ASSUME ~tx[s].failed PROVE StageHolds(plan, s, here)'
    <3>1. PICK x \in Regs : x = plan.count[s]
      BY <1>1
    <3>2. /\ tx'[s].own = <<>> /\ tx'[s].level = "SER" /\ tx'[s].snap # <<>>
          /\ Cur(t).rows \subseteq tx'[s].reads
          /\ reg'[x] >= 1 => \E r \in Cur(t).rows : tx'[s].snap[1].val[r] = 1
      BY <1>1, <1>3, <1>10, <2>1, <2>3, <2>5, <3>1, CountsWhatIsThere
    <3>3. here = "counted"
      BY <1>6, <2>2
    <3> QED BY <1>3, <1>10, <2>1, <3>1, <3>2, <3>3 DEF StageHolds, Counted, Spared, Others
  <2> QED BY <2>3, <2>4, <2>5 DEF Unmoved
<1>11. CASE mine /\ (Misses(t) \/ Stores(t))
  <2>1. Cur(t).op = "set" /\ stage[i] = "spared"
    BY <1>11, WhoLeaves DEF stage
  <2>2. j = i + 1 /\ Follows(Cur(t), i, j)
    BY <1>11, <2>1 DEF Misses, Stores, Returned, Follows
  <2> QED BY <1>4, <1>6, <1>11, <2>1, <2>2
<1>12. CASE mine /\ Begins(t)
  <2> DEFINE after == [NoTx EXCEPT !.open = TRUE, !.level = Cur(t).level]
  <2>1. after.open /\ after.own = <<>> /\ after.level = Cur(t).level
    BY DEF NoTx
  <2> HIDE DEF after
  <2>2. tx' = [tx EXCEPT ![s] = after] /\ j = i + 1 /\ Cur(t).op = "begin" /\ Follows(Cur(t), i, j)
    BY <1>12 DEF Begins, after, Follows
  <2>3. tx'[s] = after
    BY <1>1, <2>2 DEF SessionInv, IsolationInv, SessionTypeOK
  <2>4. stage[j] = "begun" /\ Cur(t).level = "SER"
    BY <1>4, <1>6, <1>12, <2>2, LeavingPlan
  <2>5. here = "begun"
    BY <1>6, <2>4
  <2> QED BY <2>1, <2>3, <2>4, <2>5 DEF StageHolds
<1>13. CASE mine /\ (Commits(t) \/ GivesUp(t))
  <2>1. j = i + 1 /\ Cur(t).op \in EndOps
    BY <1>13 DEF Commits, GivesUp, EndOps
  <2>2. Follows(Cur(t), i, j) /\ Cur(t).op \notin {"begin", "count", "atleast", "atmost"}
    BY <2>1 DEF Follows, EndOps
  <2> QED BY <1>4, <1>6, <1>13, <2>2
<1>14. CASE mine /\ Fails(t)
  <2>1. Catches(Cur(t), i, j) /\ j # Len(Code(t)) + 1
    BY <1>1, <1>6, <1>14, CodesAreLists DEF Fails, SessionInv, IsolationInv
  <2> DEFINE after == IF tx[s].open THEN [tx[s] EXCEPT !.failed = TRUE] ELSE tx[s]
  <2>2. after.open = tx[s].open /\ (after.open => after.failed)
    BY <1>1 DEF SessionInv, IsolationInv, SessionTypeOK, Transactions
  <2> HIDE DEF after
  <2>3. tx' = [tx EXCEPT ![s] = after]
    BY <1>14, <2>1 DEF Fails, after
  <2>4. tx'[s] = after
    BY <1>1, <2>3 DEF SessionInv, IsolationInv, SessionTypeOK
  <2> QED BY <1>3, <1>5, <1>6, <2>1, <2>2, <2>4
<1>15. ~mine \/ ~Controls(t)
  BY DEF Controls
<1> QED BY <1>1, <1>2, <1>8, <1>9, <1>10, <1>11, <1>12, <1>13, <1>14, <1>15, StepsAre

\* Whoever has left has counted somebody else first, in the same snapshot.
LEMMA OwnLeavesRightly ==
    ASSUME NEW plan, LeavingInv(plan), NEW t \in Threads, ThreadStep(t), NEW s \in Sessions
    PROVE  LeavesRightly(plan, s)'
<1> DEFINE mine == Cur(t).op \in SqlOps /\ Cur(t).s = s
<1>1. /\ SessionInv /\ OneThreadEach(program.code, plan.user) /\ InStage(plan, s) /\ LeavesRightly(plan, s)
      /\ Running(t) /\ Cur(t).op \notin {"try", "unlock"} /\ pc[t] \in 1..Len(Code(t))
      /\ tx \in [Sessions -> Transactions] /\ SessionTypeOK
  BY NeverBeforeTheStart DEF LeavingInv, Leaving, SessionInv, IsolationInv, SessionTypeOK
<1>2. SUFFICES ASSUME tx'[s].open, ~tx'[s].failed, DOMAIN tx'[s].own # {}
               PROVE  /\ tx'[s].level = "SER" /\ Counted(plan, s)' /\ Spared(plan, s)'
                      /\ DOMAIN tx'[s].own = {plan.me[s]} /\ plan.me[s] \in plan.team /\ plan.team \subseteq tx'[s].reads
  BY DEF LeavesRightly
<1>3. CASE ~mine
  <2>1. tx'[s] = tx[s]
    BY <1>1, <1>3, OthersRows
  <2> QED BY <1>1, <1>2, <2>1 DEF LeavesRightly, Counted, Spared
<1>4. ASSUME mine, Answers(t) PROVE FALSE
  <2>1. plan.user[s] = t
    BY <1>1, <1>4, NeverBeforeTheStart
  <2>2. /\ LeavingStep(s, pc[t], program.code, plan)
        /\ program.code[plan.user[s]][pc[t]] = Cur(t)
    BY <2>1, LeavingPlan
  <2>3. Cur(t).op = "count" /\ plan.stage[s][pc[t]] = "begun"
    BY <1>4, <2>2 DEF LeavingStep, Answers, EndOps
  <2>4. tx[s].open /\ (~tx[s].failed => tx[s].own = <<>>)
    BY <1>1, <2>1, <2>3 DEF InStage, StageHolds
  <2>5. tx'[s].own = tx[s].own /\ tx'[s].failed = tx[s].failed
    BY <1>1, <1>4, QuietRows DEF Unmoved
  <2> QED BY <1>2, <2>4, <2>5, NoWrites
<1>5. ASSUME mine, Misses(t) \/ Queues(t) PROVE FALSE
  <2>1. ~tx[s].failed => tx[s].own = <<>>
    BY <1>5, WhoLeaves DEF StageHolds
  <2>2. tx'[s].own = tx[s].own /\ tx'[s].failed = tx[s].failed
    BY <1>1, <1>5, QuietRows DEF Unmoved
  <2> QED BY <1>2, <2>1, <2>2, NoWrites
<1>6. CASE mine /\ Stores(t)
  <2>1. /\ Cur(t).row = plan.me[s] /\ plan.me[s] \in plan.team /\ tx[s].open
        /\ ~tx[s].failed => StageHolds(plan, s, "spared")
    BY <1>6, WhoLeaves
  <2>2. tx'[s].failed = tx[s].failed /\ Cur(t).row \in Rows /\ Written(t) \in Int
    BY <1>1, <1>6, StoredRows
  <2>3. tx[s].own = <<>> /\ tx[s].level = "SER" /\ Counted(plan, s) /\ Spared(plan, s)
    BY <1>2, <2>1, <2>2 DEF StageHolds
  <2> DEFINE own == WithRow(tx[s].own, Cur(t).row, Written(t))
             now == Noted(t, own, {Cur(t).row})
  <2>4. own \in Writes /\ DOMAIN own = {plan.me[s]} /\ {Cur(t).row} \in SUBSET Rows
    <3>1. PICK v \in Int : v = Written(t)
      BY <2>2
    <3>2. PICK r \in Rows : r = Cur(t).row
      BY <2>2
    <3>3. PICK w \in Writes : w = tx[s].own /\ DOMAIN w = {}
      BY <2>3, NoWrites
    <3>4. WithRow(w, r, v) \in Writes /\ DOMAIN WithRow(w, r, v) = {r}
      BY <3>3, WithRowIs
    <3>5. own = WithRow(w, r, v)
      BY <3>1, <3>2, <3>3
    <3> HIDE DEF own
    <3> QED BY <2>1, <3>2, <3>4, <3>5
  <2>5. tx' = [tx EXCEPT ![s] = now]
    BY <1>6, <2>1 DEF Stores, Returned
  <2> HIDE DEF own
  <2>6. now.own = own /\ now.level = tx[s].level
    BY <1>1, <1>6, <2>4, NotedIs
  <2>7. now.snap = tx[s].snap /\ now.reads = tx[s].reads \cup {plan.me[s]}
    <3>1. now.snap = WithSnapshot(tx[s]).snap /\ now.reads = tx[s].reads \cup {Cur(t).row}
      BY <1>1, <1>6, <2>4, NotedReads
    <3>2. WithSnapshot(tx[s]) = tx[s]
      BY <2>3 DEF WithSnapshot, Counted
    <3> QED BY <2>1, <3>1, <3>2
  <2> HIDE DEF now
  <2>8. tx'[s] = now
    BY <1>1, <2>5
  <2>9. Counted(plan, s)' /\ Spared(plan, s)'
    BY <2>3, <2>7, <2>8 DEF Counted, Spared, Others
  <2>10. plan.team \subseteq tx'[s].reads
    BY <2>3, <2>7, <2>8 DEF Counted, Others
  <2> QED BY <2>1, <2>3, <2>4, <2>6, <2>8, <2>9, <2>10
<1>7. ASSUME mine, Begins(t) \/ Commits(t) \/ GivesUp(t) \/ Fails(t) PROVE FALSE
  <2> DEFINE new == [NoTx EXCEPT !.open = TRUE, !.level = Cur(t).level]
             failed == IF tx[s].open THEN [tx[s] EXCEPT !.failed = TRUE] ELSE tx[s]
  <2>1. /\ new.own = <<>> /\ NoTx.own = <<>> /\ failed.open = tx[s].open
        /\ failed.open => failed.failed
    BY <1>1, NoTransaction DEF Transactions, NoTx
  <2> HIDE DEF new, failed
  <2>2. \E after \in {new, failed, NoTx} : tx' = [tx EXCEPT ![s] = after]
    BY <1>7 DEF Begins, Commits, GivesUp, Fails, new, failed
  <2>3. tx'[s] \in {new, failed, NoTx}
    BY <1>1, <2>2
  <2> QED BY <1>2, <2>1, <2>3, NoWrites
<1>8. ~mine \/ ~Controls(t)
  BY DEF Controls
<1> QED BY <1>1, <1>3, <1>4, <1>5, <1>6, <1>7, <1>8, StepsAre

\* What is committed changes only by a COMMIT.
LEMMA OnlyCommitsShow ==
    ASSUME NEW plan, LeavingInv(plan), NEW t \in Threads, ThreadStep(t), ~Commits(t)
    PROVE  val' = val /\ past' = past
<1>1. SessionInv /\ OneThreadEach(program.code, plan.user)
  BY DEF LeavingInv, Leaving
<1>2. Running(t) /\ Cur(t).op \notin {"try", "unlock"} /\ Cur(t).s \in Sessions
  BY <1>1, NeverBeforeTheStart
<1>3. past' = past
  BY <1>1, PastMoves
<1>4. CASE Stores(t)
  <2>1. PICK s \in Sessions : s = Cur(t).s
    BY <1>2
  <2> QED BY <1>1, <1>2, <1>3, <1>4, <2>1, WhoLeaves, StoredRows
<1>5. CASE Answers(t) \/ Misses(t) \/ Queues(t) \/ Controls(t)
  BY <1>1, <1>2, <1>3, <1>5, QuietRows
<1>6. CASE Begins(t) \/ GivesUp(t) \/ Fails(t)
  BY <1>3, <1>6 DEF Begins, GivesUp, Fails
<1> QED BY <1>1, <1>2, <1>4, <1>5, <1>6, StepsAre

\* The COMMIT of who has left: somebody else is still there, for whoever is
\* not has committed since the snapshot and had read the whole team, and then
\* this transaction is a pivot and fails.
LEMMA SomebodyStays ==
    ASSUME NEW plan, LeavingInv(plan), NEW t \in Threads, ThreadStep(t), Commits(t)
    PROVE  SomebodyOnCall(plan)'
<1>1. /\ SessionInv /\ OneThreadEach(program.code, plan.user) /\ SnapshotsAreOld /\ WritersRead(plan)
      /\ SomebodyOnCall(plan) /\ Running(t) /\ Cur(t).s \in Sessions /\ plan.team \subseteq Rows
      /\ tx \in [Sessions -> Transactions]
  BY NeverBeforeTheStart DEF LeavingInv, Leaving, SessionInv, IsolationInv, SessionTypeOK
<1>2. PICK s \in Sessions : s = Cur(t).s
  BY <1>1
<1>3. /\ ~tx[s].failed /\ ~IsPivot(s, tx[s].own, tx[s].reads)
      /\ \A r \in Rows : val'[r] = Latest(s, r)
  BY <1>1, <1>2, CommittedRows DEF Commits
<1>4. CASE DOMAIN tx[s].own = {}
  BY <1>1, <1>3, <1>4 DEF Latest, SomebodyOnCall
<1>5. CASE DOMAIN tx[s].own # {}
  <2>1. tx[s].open
    BY <1>1, <1>5, NoWrites DEF SessionInv, IsolationInv, ClosedIsEmpty
  <2>2. /\ tx[s].level = "SER" /\ Counted(plan, s) /\ Spared(plan, s)
        /\ DOMAIN tx[s].own = {plan.me[s]} /\ plan.me[s] \in plan.team /\ plan.team \subseteq tx[s].reads
    BY <1>3, <1>5, <2>1 DEF LeavingInv, LeavesRightly
  <2>3. PICK o \in Others(plan, s) : tx[s].snap[1].val[o] = 1
    BY <2>2 DEF Spared
  <2>4. o \in plan.team /\ o \in Rows /\ o \notin DOMAIN tx[s].own /\ o \in tx[s].reads /\ tx[s].snap # <<>>
    BY <1>1, <2>2, <2>3 DEF Others, Counted
  <2>5. val[o] = 1
    <3> SUFFICES ASSUME val[o] # 1 PROVE FALSE
      OBVIOUS
    <3>1. PICK i \in tx[s].snap[1].at + 1..Len(past) : o \in past[i].writes
      BY <1>1, <2>3, <2>4 DEF SnapshotsAreOld
    <3>2. i \in 1..Len(past)
      BY <1>1, <2>4, <3>1 DEF SnapshotsAreOld
    <3>3. plan.team \subseteq past[i].reads
      BY <1>1, <3>1, <3>2 DEF WritersRead
    <3>4. past[i].writes \cap tx[s].reads # {} /\ past[i].reads \cap DOMAIN tx[s].own # {}
      BY <2>2, <2>4, <3>1, <3>3
    <3> QED BY <1>3, <2>2, <2>4, <3>1, <3>4 DEF IsPivot
  <2>6. val'[o] = 1
    BY <1>3, <2>4, <2>5 DEF Latest
  <2> QED BY <2>4, <2>6 DEF SomebodyOnCall
<1> QED BY <1>4, <1>5

\* A COMMIT is remembered by what it wrote, and who writes has read the team.
LEMMA CommitsAreRemembered ==
    ASSUME NEW plan, LeavingInv(plan), NEW t \in Threads, ThreadStep(t), Commits(t)
    PROVE  /\ Len(past) \in Nat /\ Len(past') \in Nat /\ Len(past) <= Len(past')
           /\ \A i \in 1..Len(past) : past'[i] = past[i]
           /\ \A r \in Rows : val'[r] # val[r] => \E i \in Len(past) + 1..Len(past') : r \in past'[i].writes
           /\ WritersRead(plan)'
<1>1. /\ SessionInv /\ OneThreadEach(program.code, plan.user) /\ WritersRead(plan)
      /\ Running(t) /\ Cur(t).s \in Sessions
      /\ tx \in [Sessions -> Transactions]
  BY NeverBeforeTheStart DEF LeavingInv, Leaving, SessionInv, IsolationInv, SessionTypeOK
<1>2. PICK s \in Sessions : s = Cur(t).s
  BY <1>1
<1> DEFINE One == [reads : SUBSET Rows, writes : SUBSET Rows]
           one == [reads |-> tx[s].reads, writes |-> DOMAIN tx[s].own]
<1>3. ~tx[s].failed /\ Cur(t).op = "commit" /\ \A r \in Rows : val'[r] = Latest(s, r)
  BY <1>1, <1>2, CommittedRows DEF Commits
<1>4. past \in Seq(One) /\ one.reads = tx[s].reads /\ one.writes = DOMAIN tx[s].own
  BY <1>1 DEF SessionInv, IsolationInv, SessionTypeOK
<1>5. DOMAIN tx[s].own # {} => tx[s].level = "SER" /\ plan.team \subseteq tx[s].reads
  <2>1. DOMAIN tx[s].own # {} => tx[s].open
    BY <1>1, NoWrites DEF SessionInv, IsolationInv, ClosedIsEmpty
  <2> QED BY <1>3, <2>1 DEF LeavingInv, LeavesRightly
<1>6. one \in One
  BY <1>1, WritesAre DEF Transactions
<1>7. \/ past' = past /\ val' = val
      \/ past' = IF tx[s].level = "SER" THEN Append(past, one) ELSE past
  BY <1>1, <1>2, <1>3, PastMoves DEF Fails, GivesUp
<1> HIDE DEF One, one
<1>8. CASE past' = past /\ val' = val
  BY <1>1, <1>4, <1>8 DEF WritersRead
<1>9. CASE past' = past /\ tx[s].level # "SER"
  BY <1>1, <1>3, <1>4, <1>5, <1>9 DEF WritersRead, Latest
<1>10. CASE past' = Append(past, one)
  <2>1. /\ Len(past) \in Nat /\ Len(past') = Len(past) + 1 /\ past'[Len(past) + 1] = one
        /\ \A i \in 1..Len(past) : past'[i] = past[i]
    BY <1>4, <1>6, <1>10
  <2>2. ASSUME NEW r \in Rows, val'[r] # val[r] PROVE r \in past'[Len(past) + 1].writes
    BY <1>3, <1>4, <2>1, <2>2 DEF Latest
  <2>3. ASSUME NEW i \in 1..Len(past'), past'[i].writes # {} PROVE plan.team \subseteq past'[i].reads
    <3>1. CASE i \in 1..Len(past)
      BY <1>1, <2>1, <2>3, <3>1 DEF WritersRead
    <3>2. CASE i = Len(past) + 1
      BY <1>4, <1>5, <2>1, <2>3, <3>2
    <3> QED BY <2>1, <3>1, <3>2
  <2> QED BY <2>1, <2>2, <2>3 DEF WritersRead
<1> QED BY <1>7, <1>8, <1>9, <1>10

\* What the snapshots are of, after any step.
LEMMA SnapshotsStayOld ==
    ASSUME NEW plan, LeavingInv(plan), NEW t \in Threads, ThreadStep(t)
    PROVE  SnapshotsAreOld' /\ WritersRead(plan)' /\ SomebodyOnCall(plan)'
<1>1. /\ SessionInv /\ OneThreadEach(program.code, plan.user) /\ WritersRead(plan) /\ SnapshotsAreOld
      /\ SomebodyOnCall(plan) /\ Running(t) /\ Cur(t).s \in Sessions /\ Cur(t).op \notin {"try", "unlock"}
      /\ tx \in [Sessions -> Transactions] /\ Len(past) \in Nat
  BY NeverBeforeTheStart DEF LeavingInv, Leaving, SessionInv, IsolationInv, SessionTypeOK
<1>2. CASE ~Commits(t)
  <2>1. val' = val /\ past' = past
    BY <1>2, OnlyCommitsShow
  <2>2. ASSUME NEW s \in Sessions, tx'[s].snap # <<>>
        PROVE  /\ tx'[s].snap[1].at \in 0..Len(past)
               /\ \A r \in Rows : tx'[s].snap[1].val[r] # val[r] =>
                     \E i \in tx'[s].snap[1].at + 1..Len(past) : r \in past[i].writes
    <3>1. CASE tx'[s].snap = tx[s].snap
      BY <1>1, <2>2, <3>1 DEF SnapshotsAreOld
    <3>2. CASE tx'[s].snap[1].val = val /\ tx'[s].snap[1].at = Len(past)
      BY <1>1, <3>2
    <3> QED BY <1>1, <2>2, <3>1, <3>2, SnapshotsMove
  <2> QED BY <1>1, <2>1, <2>2 DEF SnapshotsAreOld, WritersRead, SomebodyOnCall
<1>3. CASE Commits(t)
  <2>1. PICK s \in Sessions : s = Cur(t).s
    BY <1>1
  <2>2. tx'[s].snap = <<>> /\ \A o \in Sessions \ {s} : tx'[o] = tx[o]
    BY <1>1, <1>3, <2>1, CommittedRows, NoTransaction
  <2>3. /\ Len(past') \in Nat /\ Len(past) <= Len(past')
        /\ \A i \in 1..Len(past) : past'[i] = past[i]
        /\ \A r \in Rows : val'[r] # val[r] => \E i \in Len(past) + 1..Len(past') : r \in past'[i].writes
    BY <1>3, CommitsAreRemembered
  <2>4. ASSUME NEW o \in Sessions, tx'[o].snap # <<>>
        PROVE  /\ tx'[o].snap[1].at \in 0..Len(past')
               /\ \A r \in Rows : tx'[o].snap[1].val[r] # val'[r] =>
                     \E i \in tx'[o].snap[1].at + 1..Len(past') : r \in past'[i].writes
    <3>1. tx'[o] = tx[o] /\ tx[o].snap # <<>>
      BY <2>2, <2>4
    <3> DEFINE at == tx[o].snap[1].at
    <3>2. /\ at \in 0..Len(past)
          /\ \A r \in Rows : tx[o].snap[1].val[r] # val[r] => \E i \in at + 1..Len(past) : r \in past[i].writes
      BY <1>1, <3>1 DEF SnapshotsAreOld
    <3> HIDE DEF at
    <3>3. ASSUME NEW r \in Rows, tx[o].snap[1].val[r] # val'[r]
          PROVE  \E i \in at + 1..Len(past') : r \in past'[i].writes
      <4>1. CASE val'[r] # val[r]
        <5>1. PICK i \in Len(past) + 1..Len(past') : r \in past'[i].writes
          BY <2>3, <4>1
        <5>2. i \in at + 1..Len(past')
          BY <1>1, <2>3, <3>2
        <5> QED BY <5>1, <5>2
      <4>2. CASE val'[r] = val[r]
        <5>1. PICK i \in at + 1..Len(past) : r \in past[i].writes
          BY <3>2, <3>3, <4>2
        <5>2. i \in at + 1..Len(past') /\ i \in 1..Len(past)
          BY <1>1, <2>3, <3>2
        <5> QED BY <2>3, <5>1, <5>2
      <4> QED BY <4>1, <4>2
    <3>4. at \in 0..Len(past')
      BY <1>1, <2>3, <3>2
    <3> QED BY <3>1, <3>3, <3>4 DEF at
  <2> QED BY <1>3, <2>4, SomebodyStays, CommitsAreRemembered DEF SnapshotsAreOld
<1> QED BY <1>2, <1>3

\* No step, and no crash, leaves the team alone.
LEMMA LeavingInvStep == ASSUME NEW plan PROVE LeavingInv(plan) /\ [SessionNext]_sessionVars => LeavingInv(plan)'
<1> SUFFICES ASSUME LeavingInv(plan), [SessionNext]_sessionVars PROVE LeavingInv(plan)'
  OBVIOUS
<1>1. SessionInv /\ SessionInv' /\ OneThreadEach(program.code, plan.user)
  BY IsolationStep, QueueStep DEF SessionInv, LeavingInv, Leaving
<1>2. CASE UNCHANGED sessionVars
  <2>1. UNCHANGED <<program, val, tx, pc, past, reg>>
    BY <1>2 DEF sessionVars
  <2>2. ASSUME NEW s \in Sessions PROVE InStage(plan, s)' /\ LeavesRightly(plan, s)'
    <3>1. InStage(plan, s) /\ LeavesRightly(plan, s)
      BY DEF LeavingInv
    <3> QED BY <2>1, <3>1 DEF InStage, StageHolds, LeavesRightly, Counted, Spared, Code
  <2>3. SomebodyOnCall(plan)' /\ SnapshotsAreOld' /\ WritersRead(plan)'
    BY <2>1 DEF LeavingInv, SomebodyOnCall, SnapshotsAreOld, WritersRead
  <2> QED BY <1>1, <2>1, <2>2, <2>3 DEF LeavingInv
<1>3. CASE ProcessDies
  <2>1. /\ tx' = [s \in Sessions |-> NoTx] /\ UNCHANGED <<program, val, past>> /\ pc' = [t \in Threads |-> Len(Code(t)) + 1]
    BY <1>3 DEF ProcessDies
  <2>2. \A s \in Sessions : ~tx'[s].open /\ tx'[s].snap = <<>>
    BY <2>1, NoTransaction
  <2>3. SomebodyOnCall(plan)' /\ SnapshotsAreOld' /\ WritersRead(plan)'
    BY <2>1, <2>2 DEF LeavingInv, SomebodyOnCall, SnapshotsAreOld, WritersRead
  <2>4. ASSUME NEW s \in Sessions PROVE InStage(plan, s)' /\ LeavesRightly(plan, s)'
    <3>1. plan.user[s] \in Threads
      BY <1>1 DEF OneThreadEach
    <3>2. Len(Code(plan.user[s])) \in Nat /\ pc'[plan.user[s]] = Len(Code(plan.user[s])) + 1
      BY <1>1, <2>1, <3>1, CodesAreLists DEF SessionInv, IsolationInv
    <3>3. pc'[plan.user[s]] \notin 1..Len(Code(plan.user[s]))
      BY <3>2
    <3> QED BY <2>1, <2>2, <3>3 DEF InStage, LeavesRightly, Code
  <2> QED BY <1>1, <2>1, <2>3, <2>4 DEF LeavingInv
<1>4. ASSUME NEW t \in Threads, ThreadStep(t) PROVE LeavingInv(plan)'
  <2>1. program' = program
    BY <1>1, <1>4, StepMoves
  <2>2. \A s \in Sessions : InStage(plan, s)' /\ LeavesRightly(plan, s)'
    BY <1>4, OwnInStage, OthersInStage, OwnLeavesRightly
  <2>3. SomebodyOnCall(plan)' /\ SnapshotsAreOld' /\ WritersRead(plan)'
    BY <1>4, SnapshotsStayOld
  <2> QED BY <1>1, <2>1, <2>2, <2>3 DEF LeavingInv
<1> QED BY <1>2, <1>3, <1>4 DEF SessionNext

\* Nobody has left at the start.
LEMMA LeavingBegins ==
    ASSUME NEW plan
    PROVE  SessionInit /\ Leaving(program, plan) /\ SerialCode(program.code) => LeavingInv(plan)
<1> SUFFICES ASSUME SessionInit, Leaving(program, plan), SerialCode(program.code) PROVE LeavingInv(plan)
  OBVIOUS
<1>1. SessionInv /\ val = program.rows /\ past = <<>> /\ \A s \in Sessions : tx[s] = NoTx
  BY SessionBegins DEF SessionInit
<1>2. \A s \in Sessions : ~tx[s].open /\ tx[s].snap = <<>>
  BY <1>1, NoTransaction
<1>3. SomebodyOnCall(plan) /\ SnapshotsAreOld /\ WritersRead(plan)
  BY <1>1, <1>2 DEF SomebodyOnCall, SnapshotsAreOld, WritersRead, Leaving
<1>4. ASSUME NEW s \in Sessions PROVE InStage(plan, s) /\ LeavesRightly(plan, s)
  <2>1. plan.user[s] \in Threads
    BY DEF Leaving, OneThreadEach
  <2>2. pc[plan.user[s]] \in {0, 1}
    BY <2>1 DEF SessionInit
  <2>3. 1 \in 1..Len(Code(plan.user[s])) => plan.stage[s][1] = "out"
    <3>1. 1 \in 1..Len(Code(plan.user[s])) => LeavingStep(s, 1, program.code, plan)
      BY DEF Leaving, Code
    <3> QED BY <3>1, Zenon DEF LeavingStep
  <2> QED BY <1>2, <2>2, <2>3 DEF InStage, LeavesRightly
<1> QED BY <1>1, <1>3, <1>4 DEF LeavingInv

\* Whatever the scripts, when whoever leaves a team has counted the others in
\* the same transaction and every transaction is SERIALIZABLE: in every
\* committed state somebody is on call, however many attempts overlap (lab 09).
THEOREM SomebodyIsOnCall ==
    ASSUME NEW plan
    PROVE  SessionSpec /\ Leaving(program, plan) /\ SerialCode(program.code) => []SomebodyOnCall(plan)
<1>1. SessionInit /\ Leaving(program, plan) /\ SerialCode(program.code) => LeavingInv(plan)
  BY LeavingBegins
<1>2. LeavingInv(plan) /\ [SessionNext]_sessionVars => LeavingInv(plan)'
  BY LeavingInvStep
<1>3. LeavingInv(plan) => SomebodyOnCall(plan)
  BY DEF LeavingInv
<1> QED BY <1>1, <1>2, <1>3, PTL DEF SessionSpec

-----------------------------------------------------------------------------
(* The scripts themselves. *)

\* A list of steps that begins every transaction at SERIALIZABLE.
Serial(steps) == \A i \in 1..Len(steps) : steps[i].op = "begin" => steps[i].level = "SER"

\* The attempts of lab 09 run at SERIALIZABLE, and so does what retries them.
LEMMA RetriesAreSerial ==
    ASSUME NEW s, NEW me, NEW others, NEW count, NEW attempts
    PROVE  Serial(retryGoOffCall(s, me, others, count, attempts, 5))
<1> DEFINE S == {Let(attempts, 0), Bump(attempts), Begin(s, "SER"), Catch(countOthersOnCall(s, others, count), 7),
                 IfAtLeast(count, 1, 3), Rollback(s), Skip(5 + 4), Catch(setOffCall(s, me), 3),
                 Catch(Commit(s), 2), Skip(5 + 1), IfError(SerializationFailure, 2), Raise,
                 IfAtMost(attempts, 5 - 1, -12)}
<1>1. \A step \in S : step.op = "begin" => step.level = "SER"
  <2>1. Begin(s, "SER").level = "SER"
    BY DEF Begin, Step
  <2>2. Let(attempts, 0).op = "let" /\ Bump(attempts).op = "let"
    BY DEF Bump, Copy, Let, Step
  <2>3. Catch(countOthersOnCall(s, others, count), 7).op = "count" /\ Catch(setOffCall(s, me), 3).op = "set"
    BY DEF Catch, countOthersOnCall, Count, setOffCall, Set, Step
  <2>4. Catch(Commit(s), 2).op = "commit" /\ Rollback(s).op = "rollback" /\ Raise.op = "raise"
    BY DEF Catch, Commit, Rollback, Raise, Step
  <2>5. IfAtLeast(count, 1, 3).op = "atleast" /\ IfAtMost(attempts, 5 - 1, -12).op = "atmost"
    BY DEF IfAtLeast, IfAtMost, Step
  <2>6. Skip(5 + 4).op = "goto" /\ Skip(5 + 1).op = "goto" /\ IfError(SerializationFailure, 2).op = "iferror"
    BY DEF Skip, IfError, Step
  <2> QED BY <2>1, <2>2, <2>3, <2>4, <2>5, <2>6
<1>2. <<Let(attempts, 0), Bump(attempts)>> \in Seq(S)
  OBVIOUS
<1>3. attemptGoOffCall(s, me, others, count, 5) \in Seq(S)
  BY DEF attemptGoOffCall, Attempt
<1>4. <<IfError(SerializationFailure, 2), Raise, Rollback(s), IfAtMost(attempts, 5 - 1, -12), Raise>> \in Seq(S)
  OBVIOUS
<1> HIDE DEF S
<1>5. retryGoOffCall(s, me, others, count, attempts, 5) \in Seq(S)
  BY <1>2, <1>3, <1>4 DEF retryGoOffCall
<1> QED BY <1>1, <1>5 DEF Serial

\* The two who leave in turn begin at SERIALIZABLE.
LEMMA InTurnIsSerial == Serial(GoOffCallInTurn("SER"))
<1> DEFINE S == {Begin("A", "SER"), Begin("B", "SER"),
                 countOthersOnCall("A", {"y"}, "a"), countOthersOnCall("B", {"x"}, "b"),
                 IfAtMost("a", 0, 2), setOffCall("A", "x"), Commit("A"), IfAtMost("b", 0, 2),
                 Catch(setOffCall("B", "y"), 3), Catch(Commit("B"), 2), Skip(5),
                 IfError(SerializationFailure, 2), Raise, Rollback("B"), Let("c", 1)}
<1>1. \A step \in S : step.op = "begin" => step.level = "SER"
  <2>1. Begin("A", "SER").level = "SER" /\ Begin("B", "SER").level = "SER"
    BY DEF Begin, Step
  <2>2. countOthersOnCall("A", {"y"}, "a").op = "count" /\ countOthersOnCall("B", {"x"}, "b").op = "count"
    BY DEF countOthersOnCall, Count, Step
  <2>3. setOffCall("A", "x").op = "set" /\ Catch(setOffCall("B", "y"), 3).op = "set"
    BY DEF Catch, setOffCall, Set, Step
  <2>4. Commit("A").op = "commit" /\ Catch(Commit("B"), 2).op = "commit" /\ Rollback("B").op = "rollback"
    BY DEF Catch, Commit, Rollback, Step
  <2>5. IfAtMost("a", 0, 2).op = "atmost" /\ IfAtMost("b", 0, 2).op = "atmost" /\ Let("c", 1).op = "let"
    BY DEF IfAtMost, Let, Step
  <2>6. Skip(5).op = "goto" /\ IfError(SerializationFailure, 2).op = "iferror" /\ Raise.op = "raise"
    BY DEF Skip, IfError, Raise, Step
  <2> QED BY <2>1, <2>2, <2>3, <2>4, <2>5, <2>6
<1>2. GoOffCallInTurn("SER") \in Seq(S)
  BY DEF GoOffCallInTurn
<1> HIDE DEF S
<1> QED BY <1>1, <1>2 DEF Serial

\* What starts the threads begins nothing, and a script of no steps neither.
LEMMA OthersAreSerial == Serial(PromiseAll) /\ Serial(PromiseAll3) /\ Serial(<<>>)
<1> DEFINE S == {Start("p"), Start("q"), Start("r"), Await("p"), Await("q"), Await("r")}
<1>1. \A step \in S : step.op = "begin" => step.level = "SER"
  <2>1. \A t : Start(t).op = "start" /\ Await(t).op = "await"
    BY DEF Start, Await, Step
  <2> QED BY <2>1
<1>2. PromiseAll \in Seq(S) /\ PromiseAll3 \in Seq(S) /\ <<>> \in Seq(S)
  BY DEF PromiseAll, PromiseAll3
<1> HIDE DEF S
<1> QED BY <1>1, <1>2 DEF Serial

\* Each of lab 09's scripts with its remedy runs at SERIALIZABLE only.
LEMMA LabNineIsSerial ==
    /\ SerialCode(SerializableDetectsConflict.code)
    /\ SerialCode(SerializableWithRetry.code)
    /\ SerialCode(ContentionUnderSerializable.code)
<1>1. ASSUME NEW t \in Threads PROVE Serial(SerializableDetectsConflict.code[t])
  <2>1. SerializableDetectsConflict.code[t] \in {GoOffCallInTurn("SER"), <<>>}
    BY DEF SerializableDetectsConflict, Solo
  <2> QED BY <2>1, InTurnIsSerial, OthersAreSerial
<1>2. ASSUME NEW t \in Threads PROVE Serial(SerializableWithRetry.code[t])
  <2>1. SerializableWithRetry.code[t] \in {PromiseAll, <<>>, retryGoOffCall("A", "x", {"y"}, "a", "b", 5),
                                           retryGoOffCall("B", "y", {"x"}, "c", "d", 5)}
    BY DEF SerializableWithRetry, Both, With, Solo, Threads
  <2> QED BY <2>1, RetriesAreSerial, OthersAreSerial
<1>3. ASSUME NEW t \in Threads PROVE Serial(ContentionUnderSerializable.code[t])
  <2>1. ContentionUnderSerializable.code[t] \in
           {PromiseAll3, <<>>, retryGoOffCall("A", "x", {"y", "z"}, "a", "b", 5),
            retryGoOffCall("B", "y", {"x", "z"}, "c", "d", 5), retryGoOffCall("C", "z", {"x", "y"}, "e", "f", 5)}
    BY DEF ContentionUnderSerializable, Both, With, Solo, Threads
  <2> QED BY <2>1, RetriesAreSerial, OthersAreSerial
<1> QED BY <1>1, <1>2, <1>3 DEF SerialCode, Serial

\* Each script with its remedy follows the plan of it.
Transfers == {"reproduce_deadlock", "consistent_ordering", "retry_on_deadlock"}
TeamPlan(name) ==
    IF name = "serializable_detects_conflict" THEN InTurnPlan
    ELSE IF name = "serializable_with_retry" THEN RetryPlan({"x", "y"}) ELSE RetryPlan({"x", "y", "z"})
Teams == {"serializable_detects_conflict", "serializable_with_retry", "contention_serializable"}
RemedyInv ==
    /\ SessionInv
    /\ script = "transactional_transfer" => MoneyInv(TransferPlan)
    /\ script \in Transfers => MoneyInv(LegsPlan)
    /\ \A name \in Teams : script = name => LeavingInv(TeamPlan(name))
    /\ script = "transactional_outbox" => PairInv(OutboxPlan)
    /\ script = "consistent_ordering" => OrderInv(AccountOrder)

\* Which script is which.
LEMMA ScriptsAre ==
    ASSUME Scripts = MCScripts, SessionTypeOK
    PROVE  /\ script = "transactional_transfer" => program = TransactionalTransfer
           /\ script \in Transfers => program \in {ReproduceDeadlock, ConsistentLockOrdering, RetryOnDeadlock}
           /\ script = "consistent_ordering" => program = ConsistentLockOrdering
           /\ script = "transactional_outbox" => program = TransactionalOutbox
           /\ \A name \in Teams : script = name => Leaving(program, TeamPlan(name)) /\ SerialCode(program.code)
<1>1. program = MCScripts[script]
  BY DEF SessionTypeOK
<1>2. ASSUME script \in Transfers PROVE program \in {ReproduceDeadlock, ConsistentLockOrdering, RetryOnDeadlock}
  BY <1>1, <1>2 DEF Transfers, MCScripts
<1>3. script = "consistent_ordering" => program = ConsistentLockOrdering
  BY <1>1 DEF MCScripts
<1>4. script = "transactional_transfer" => program = TransactionalTransfer
  BY <1>1 DEF MCScripts
<1>5. script = "transactional_outbox" => program = TransactionalOutbox
  BY <1>1 DEF MCScripts
<1>6. ASSUME NEW name \in Teams, script = name PROVE Leaving(program, TeamPlan(name)) /\ SerialCode(program.code)
  <2>1. name = "serializable_detects_conflict" => program = SerializableDetectsConflict /\ TeamPlan(name) = InTurnPlan
    BY <1>1, <1>6 DEF MCScripts, TeamPlan
  <2>2. name = "serializable_with_retry" => program = SerializableWithRetry /\ TeamPlan(name) = RetryPlan({"x", "y"})
    BY <1>1, <1>6 DEF MCScripts, TeamPlan
  <2>3. name = "contention_serializable" =>
           program = ContentionUnderSerializable /\ TeamPlan(name) = RetryPlan({"x", "y", "z"})
    BY <1>1, <1>6 DEF MCScripts, TeamPlan
  <2> QED BY <2>1, <2>2, <2>3, NobodyLeavesUncounted, LabNineIsSerial DEF Teams
<1> QED BY <1>2, <1>3, <1>4, <1>5, <1>6

\* The scripts start as their plans say.
LEMMA RemediesBegin == ASSUME Scripts = MCScripts PROVE SessionInit => RemedyInv
<1> SUFFICES ASSUME SessionInit PROVE RemedyInv
  OBVIOUS
<1>1. SessionInv /\ SessionTypeOK
  BY SessionBegins DEF SessionInv, IsolationInv
<1>2. script = "transactional_transfer" => MoneyInv(TransferPlan)
  BY <1>1, ScriptsAre, TransfersBalance, MoneyBegins
<1>3. script \in Transfers => MoneyInv(LegsPlan)
  BY <1>1, ScriptsAre, TransfersBalance, MoneyBegins
<1>4. ASSUME NEW name \in Teams, script = name PROVE LeavingInv(TeamPlan(name))
  BY <1>1, <1>4, ScriptsAre, LeavingBegins
<1>5. script = "transactional_outbox" => PairInv(OutboxPlan)
  BY <1>1, ScriptsAre, OrdersHaveEvents, PairsBegin
<1>6. script = "consistent_ordering" => OrderInv(AccountOrder)
  BY <1>1, ScriptsAre, LegsLockInOrder, OrderBegins
<1> QED BY <1>1, <1>2, <1>3, <1>4, <1>5, <1>6 DEF RemedyInv

\* And go on so: a behaviour runs one script.
LEMMA RemediesGoOn == RemedyInv /\ [SessionNext]_sessionVars => RemedyInv'
<1> SUFFICES ASSUME RemedyInv, [SessionNext]_sessionVars PROVE RemedyInv'
  OBVIOUS
<1>1. SessionInv /\ SessionInv'
  BY IsolationStep, QueueStep DEF SessionInv, RemedyInv
<1>2. script' = script
  BY <1>1, StepMoves DEF SessionNext, ProcessDies, sessionVars
<1>3. script = "transactional_transfer" => MoneyInv(TransferPlan)'
  BY MoneyStep DEF RemedyInv
<1>4. script \in Transfers => MoneyInv(LegsPlan)'
  BY MoneyStep DEF RemedyInv
<1>5. ASSUME NEW name \in Teams, script = name PROVE LeavingInv(TeamPlan(name))'
  <2>1. PICK plan : plan = TeamPlan(name)
    OBVIOUS
  <2>2. LeavingInv(plan)'
    BY <1>5, <2>1, LeavingInvStep DEF RemedyInv
  <2> QED BY <2>1, <2>2
<1>6. script = "transactional_outbox" => PairInv(OutboxPlan)'
  BY PairStep DEF RemedyInv
<1>7. script = "consistent_ordering" => OrderInv(AccountOrder)'
  BY OrderStep DEF RemedyInv
<1> QED BY <1>1, <1>2, <1>3, <1>4, <1>5, <1>6, <1>7 DEF RemedyInv, Transfers

\* Somebody on call is at least one.
LEMMA OneIsEnough == ASSUME NEW plan, plan.team \subseteq Rows, SomebodyOnCall(plan) PROVE OnCall(Rows) >= 1
<1> DEFINE there == {r \in Rows : val[r] = 1}
<1>1. IsFiniteSet(Rows)
  <2>1. IsFiniteSet({"w"})
    BY FS_Singleton
  <2>2. IsFiniteSet({"w"} \cup {"x"})
    BY <2>1, FS_AddElement
  <2>3. IsFiniteSet(({"w"} \cup {"x"}) \cup {"y"})
    BY <2>2, FS_AddElement
  <2>4. IsFiniteSet((({"w"} \cup {"x"}) \cup {"y"}) \cup {"z"})
    BY <2>3, FS_AddElement
  <2>5. Rows = (({"w"} \cup {"x"}) \cup {"y"}) \cup {"z"}
    BY DEF Rows
  <2> QED BY <2>4, <2>5
<1>2. there \subseteq Rows /\ there # {}
  BY DEF SomebodyOnCall
<1>3. OnCall(Rows) = Cardinality(there)
  BY DEF OnCall
<1> HIDE DEF there
<1>4. IsFiniteSet(there) /\ Cardinality(there) \in Nat /\ Cardinality(there) # 0
  BY <1>1, <1>2, FS_Subset, FS_CardinalityType, FS_EmptySet
<1> QED BY <1>3, <1>4

\* Two threads that wait for each other wait in a circle.
LEMMA NoMutualWait == NoDeadlock => \A t \in Threads : ~MutualWait(t)
<1> SUFFICES ASSUME NoDeadlock, NEW t \in Threads, NEW u \in Threads, Waiting(t), Waiting(u),
                    Cur(u).s \in Blockers(t), Cur(t).s \in Blockers(u)
             PROVE  FALSE
  BY DEF MutualWait
<1>1. PICK v \in {t, u} : \A o \in {t, u} : ~WaitsFor(v, o)
  BY DEF NoDeadlock
<1> QED BY <1>1 DEF WaitsFor

\* What the plans keep is what the remedies are for.
LEMMA RemediesKeep == ASSUME Scripts = MCScripts PROVE RemedyInv => SafeThroughout
<1> SUFFICES ASSUME RemedyInv PROVE SafeThroughout
  OBVIOUS
<1>1. SessionTypeOK
  BY DEF RemedyInv, SessionInv, IsolationInv
<1>2. script = "transactional_transfer" => getTotalBalanceCents = 10
  BY <1>1, ScriptsAre, TransfersBalance DEF RemedyInv, MoneyInv, NothingIsLost, getTotalBalanceCents
<1>3. script \in Transfers => getTotalBalanceCents = 20
  BY <1>1, ScriptsAre, TransfersBalance DEF RemedyInv, MoneyInv, NothingIsLost, getTotalBalanceCents
<1>4. ASSUME NEW name \in Teams, script = name PROVE OnCall(Rows) >= 1
  <2>1. PICK plan : plan = TeamPlan(name)
    OBVIOUS
  <2>2. LeavingInv(plan)
    BY <1>4, <2>1 DEF RemedyInv
  <2> QED BY <2>2, OneIsEnough DEF LeavingInv, Leaving
<1>5. script = "transactional_outbox" =>
         \A pair \in {<<"x", "y">>, <<"w", "z">>} : (val[pair[1]] = Absent) = (val[pair[2]] = Absent)
  <2>1. OutboxPlan.pairs = {<<"x", "y">>, <<"w", "z">>}
    BY DEF OutboxPlan
  <2> QED BY <2>1 DEF RemedyInv, PairInv, BothOrNeither
<1>6. script = "consistent_ordering" => \A t \in Threads : ~MutualWait(t)
  BY NoCircles, NoMutualWait DEF RemedyInv
<1> QED BY <1>2, <1>3, <1>4, <1>5, <1>6 DEF SafeThroughout, Transfers, Teams

\* Whatever the interleaving, the retries and the crashes of the labs' scripts:
\* their remedies hold in every committed state.  Money moves as a whole (labs
\* 05 and 32), somebody is on call (lab 09), an order comes with its event (lab
\* 16) and legs that lock in account order never wait for each other (lab 32).
THEOREM RemediesHold == ASSUME Scripts = MCScripts PROVE Spec => []SafeThroughout
<1>1. SessionInit => RemedyInv
  BY RemediesBegin
<1>2. RemedyInv => SafeThroughout
  BY RemediesKeep
<1> QED BY <1>1, <1>2, RemediesGoOn, PTL DEF Spec, SessionSpec

-----------------------------------------------------------------------------
(* Vacuum. *)

\* The places and values of the program: the statement at hand, the counts of
\* versions, the switches, and the probers.
VacPosition ==
    /\ vacScript \in {"bloat", "vacuum", "autovacuum"}
    /\ vacPc \in Nat /\ 1 <= vacPc /\ vacPc <= 14 /\ busy \in BOOLEAN
    /\ vacScript = "bloat" => vacPc <= 6
    /\ vacScript = "autovacuum" => vacPc <= 7
VacNumbers == /\ pass \in Nat /\ dead \in Nat /\ reusable \in Nat
              /\ horizon \in Nat /\ autovacuumCount \in Nat
VacSwitches == autovacuum \in {"on", "off"} /\ autovacuumWorker \in {"idle", "running"}
VacProbes == /\ probing \in [Probers -> {"off", "waiting", "writing", "stopped"}]
             /\ probes \in [Probers -> Nat]
VacTypeOK == VacPosition /\ VacNumbers /\ VacSwitches /\ VacProbes

\* The versions of all the UPDATE passes, the writes of one window of probes,
\* and those done so far.
Bloat == Passes * TableRows
MaxWrites == Cardinality(Probers) * MaxProbes
WindowWrites == Total(probes, Probers)

\* Once autovacuum is off for the table no worker touches it.
Undisturbed == vacScript # "autovacuum" /\ vacPc >= 3 => autovacuum = "off" /\ autovacuumWorker = "idle"
\* A vacuum takes no more than is dead.
HorizonIsPast ==
    autovacuumWorker = "running" \/ (vacScript = "vacuum" /\ vacPc = 7 /\ busy) => horizon <= dead

\* A fresh table, then one dead version per row and pass.
Churned ==
    /\ vacPc <= 3 => pass = 0
    /\ vacPc \in 2..3 => dead = 0 /\ reusable = 0 /\ (autovacuumWorker = "running" => horizon = 0)
    /\ vacScript # "autovacuum" =>
         /\ vacPc = 4 => pass < Passes
         /\ vacPc >= 5 => pass = Passes
         /\ vacPc \in 4..6 => dead = pass * TableRows /\ reusable = 0

\* The probers write only between "probe" and the end of stop(), each at most
\* MaxProbes times, and never while VACUUM FULL has its lock.
ProbersInTheirWindow ==
    /\ vacScript # "vacuum" \/ vacPc <= 6 => \A p \in Probers : probing[p] = "off"
    /\ vacScript = "vacuum" /\ vacPc \in {9, 10, 13, 14} => \A p \in Probers : probing[p] = "stopped"
    /\ \A p \in Probers :
         /\ probes[p] <= MaxProbes
         /\ probing[p] \in {"waiting", "writing"} => probes[p] < MaxProbes
    /\ vacScript = "vacuum" /\ vacPc = 11 /\ busy => ~Writing

\* What VACUUM may take and what it leaves; the file only shrinks in VACUUM FULL.
Reclaimed ==
    vacScript = "vacuum" =>
        /\ vacPc = 7 => /\ Bloat <= dead /\ dead <= Bloat + WindowWrites
                        /\ busy => Bloat <= horizon
        /\ vacPc \in {8, 9} => dead <= WindowWrites
        /\ vacPc \in 7..11 => Bloat <= dead + reusable
        /\ vacPc \in {12, 13} => dead <= WindowWrites /\ reusable = 0

\* Each statistic was read at its place in the script.
ReadInOrder ==
    /\ HasRead("before") <=> vacPc > 3
    /\ HasRead("after") <=> vacPc > 5
    /\ HasRead("vacuumed") <=> vacScript = "vacuum" /\ vacPc > 9
    /\ HasRead("shrunk") <=> vacScript = "vacuum" /\ vacPc > 13
    /\ HasRead("poll") => vacScript = "autovacuum" /\ vacPc > 6
\* The poll ends with the count that it waits for.
PollSawOne == HasRead("poll") => readings["poll"].count > readings["before"].count
ReadingsTell ==
    /\ vacScript # "autovacuum" /\ HasRead("before") => readings["before"].size = TableRows
    /\ vacScript # "autovacuum" /\ HasRead("after") =>
         readings["after"].dead = Bloat /\ readings["after"].size = TableRows + Bloat
    /\ HasRead("vacuumed") =>
         /\ readings["vacuumed"].dead <= MaxWrites
         /\ readings["vacuumed"].size \in Nat /\ readings["vacuumed"].size >= TableRows + Bloat
    /\ HasRead("shrunk") => readings["shrunk"].size \in Nat /\ readings["shrunk"].size <= TableRows + MaxWrites
    /\ PollSawOne

VacInv == VacTypeOK /\ Undisturbed /\ HorizonIsPast /\ Churned /\ ProbersInTheirWindow
          /\ Reclaimed /\ ReadInOrder /\ ReadingsTell

\* Autovacuum runs once for the inserts of the seed.  Before the UPDATE no other
\* run is due; after it, a run that takes nothing is that one.
OneEarlyRun ==
    /\ vacPc \in 2..4 => dead = 0
    /\ vacPc > 1 =>
         /\ dead \in {0, TableRows}
         /\ insertsSeen => autovacuumCount = 0
         /\ vacPc <= 4 \/ dead # 0 => autovacuumCount <= 1
         /\ autovacuumWorker = "running" =>
             (horizon = dead /\ dead # 0) \/ (horizon = 0 /\ insertsSeen)
PollTells ==
    /\ HasRead("before") => readings["before"].count \in Nat
    /\ AutovacuumRan
EarlyRunIsKnown == vacScript = "autovacuum" => OneEarlyRun /\ PollTells
\* Where each statement stands in its script.
LEMMA Positions ==
  ASSUME VacTypeOK
  PROVE  /\ AtStatement("seed") <=> vacPc = 1
         /\ AtStatement("disable") <=> vacScript # "autovacuum" /\ vacPc = 2
         /\ AtStatement("enable") <=> vacScript = "autovacuum" /\ vacPc = 2
         /\ AtStatement("before") <=> vacPc = 3
         /\ AtStatement("update") <=> vacPc = 4
         /\ AtStatement("after") <=> vacPc = 5
         /\ AtStatement("probe") <=> vacScript = "vacuum" /\ vacPc \in {6, 10}
         /\ AtStatement("vacuum") <=> vacScript = "vacuum" /\ vacPc = 7
         /\ AtStatement("stop") <=> vacScript = "vacuum" /\ vacPc \in {8, 12}
         /\ AtStatement("vacuumed") <=> vacScript = "vacuum" /\ vacPc = 9
         /\ AtStatement("full") <=> vacScript = "vacuum" /\ vacPc = 11
         /\ AtStatement("shrunk") <=> vacScript = "vacuum" /\ vacPc = 13
         /\ AtStatement("poll") <=> vacScript = "autovacuum" /\ vacPc = 6
         /\ VacDone => vacPc = IF vacScript = "vacuum" THEN 14 ELSE IF vacScript = "bloat" THEN 6 ELSE 7
  <1>1. VacuumScript = <<"seed", "disable", "before", "update", "after", "probe", "vacuum", "stop",
                         "vacuumed", "probe", "full", "stop", "shrunk">>
    <2> DEFINE rest == <<"probe", "vacuum", "stop", "vacuumed", "probe", "full", "stop", "shrunk">>
               S == {"seed", "disable", "before", "update", "after", "probe", "vacuum", "stop",
                     "vacuumed", "full", "shrunk"}
    <2>1. BloatScript \in Seq(S) /\ Len(BloatScript) = 5
      BY DEF BloatScript
    <2>2. rest \in Seq(S) /\ Len(rest) = 8
      OBVIOUS
    <2>3. /\ Len(VacuumScript) = 13 /\ VacuumScript \in Seq(S)
          /\ \A i \in 1..13 : VacuumScript[i] = IF i <= 5 THEN BloatScript[i] ELSE rest[i - 5]
      <3>1. VacuumScript = BloatScript \o rest
        BY DEF VacuumScript
      <3> HIDE DEF S, rest
      <3>2. /\ BloatScript \o rest \in Seq(S)
            /\ Len(BloatScript \o rest) = Len(BloatScript) + Len(rest)
            /\ \A i \in 1 .. Len(BloatScript) + Len(rest) : (BloatScript \o rest)[i] =
                 IF i <= Len(BloatScript) THEN BloatScript[i] ELSE rest[i - Len(BloatScript)]
        BY <2>1, <2>2, ConcatProperties
      <3> DEFINE both == BloatScript \o rest
      <3>3. both \in Seq(S) /\ Len(both) = 13
        BY <2>1, <2>2, <3>2
      <3>4. \A i \in 1..13 : both[i] = IF i <= 5 THEN BloatScript[i] ELSE rest[i - 5]
        <4> HIDE DEF both
        <4>1. \A i \in 1 .. 5 + 8 : both[i] = IF i <= 5 THEN BloatScript[i] ELSE rest[i - 5]
          BY <2>1, <2>2, <3>2, Zenon DEF both
        <4> QED BY <4>1
      <3>5. VacuumScript = both
        BY <3>1
      <3> HIDE DEF both
      <3> QED BY <3>3, <3>4, <3>5
    <2>4. \A i \in 1..13 : VacuumScript[i] =
            <<"seed", "disable", "before", "update", "after", "probe", "vacuum", "stop",
              "vacuumed", "probe", "full", "stop", "shrunk">>[i]
      BY <2>3 DEF BloatScript
    <2> QED BY <2>3, <2>4
  <1>2. CASE vacScript = "bloat"
    BY <1>2 DEF VacTypeOK, VacPosition, AtStatement, VacDone, VacuumScripts, BloatScript
  <1>3. CASE vacScript = "vacuum"
    BY <1>1, <1>3 DEF VacTypeOK, VacPosition, AtStatement, VacDone, VacuumScripts
  <1>4. CASE vacScript = "autovacuum"
    BY <1>4 DEF VacTypeOK, VacPosition, AtStatement, VacDone, VacuumScripts, AutovacuumScript
  <1> QED BY <1>2, <1>3, <1>4 DEF VacTypeOK, VacPosition, VacNumbers, VacSwitches, VacProbes

\* A window of probes writes at most MaxWrites versions, fewer than the passes did.
LEMMA WritesAreBounded ==
  ASSUME VacTypeOK, ProbersInTheirWindow
  PROVE  /\ WindowWrites \in Nat /\ MaxWrites \in Nat /\ Bloat \in Nat
         /\ WindowWrites <= MaxWrites /\ MaxWrites < Bloat
  <1>1. probes \in [Probers -> Nat] /\ \A p \in Probers : probes[p] <= MaxProbes
    BY DEF VacTypeOK, VacPosition, VacNumbers, VacSwitches, VacProbes, ProbersInTheirWindow
  <1>2. IsFiniteSet(Probers) /\ MaxProbes \in Nat
    BY VacuumSizes
  <1>3. WindowWrites \in Nat
    BY <1>1, <1>2, TotalByElement DEF WindowWrites
  <1>4. WindowWrites <= MaxWrites
    BY <1>1, <1>2, TotalIsBounded DEF WindowWrites, MaxWrites
  <1>5. MaxWrites \in Nat /\ Bloat \in Nat /\ MaxWrites < Bloat
    BY <1>2, VacuumSizes, FS_CardinalityType DEF MaxWrites, Bloat
  <1> QED BY <1>3, <1>4, <1>5

\* A new version that takes one reusable slot leaves the file as large.
LEMMA FileIsKept ==
  ASSUME NEW b \in Nat, NEW d \in Nat, NEW r \in Nat, NEW s \in Nat, r <= s + 1, b <= d + r
  PROVE  b <= (d + 1) + s
  OBVIOUS

\* Whatever earlier scenarios left, the script has still to seed its table.
LEMMA VacInitInv == VacInit => VacInv
  <1> SUFFICES ASSUME VacInit PROVE VacInv
    OBVIOUS
  <1>1. VacTypeOK
    <2>1. vacScript \in {"bloat", "vacuum", "autovacuum"}
      BY DEF VacInit, VacuumScripts
    <2>2. VacSwitches /\ busy \in BOOLEAN
      BY DEF VacInit, VacSwitches
    <2>3. VacNumbers /\ vacPc = 1
      BY VacuumSizes DEF VacInit, VacNumbers
    <2>4. VacProbes
      BY DEF VacInit, VacProbes
    <2> QED BY <2>1, <2>2, <2>3, <2>4 DEF VacTypeOK, VacPosition
  <1>2. Undisturbed /\ HorizonIsPast /\ Churned /\ Reclaimed
    BY <1>1, VacuumSizes DEF VacInit, Undisturbed, HorizonIsPast, Churned, Reclaimed
  <1>3. ProbersInTheirWindow
    BY <1>1, VacuumSizes DEF VacInit, ProbersInTheirWindow
  <1>4. ReadInOrder /\ ReadingsTell
    BY <1>1 DEF VacInit, ReadInOrder, ReadingsTell, HasRead, PollSawOne
  <1> QED BY <1>1, <1>2, <1>3, <1>4 DEF VacInv

\* Every statement of the scripts, the worker and the probers preserve it.
LEMMA VacStepInv == VacInv /\ [VacNext]_vacVars => VacInv'
  <1> SUFFICES ASSUME VacInv, [VacNext]_vacVars PROVE VacInv'
    OBVIOUS
  <1>0. /\ VacTypeOK /\ Undisturbed /\ HorizonIsPast /\ Churned /\ ProbersInTheirWindow
        /\ Reclaimed /\ ReadInOrder /\ ReadingsTell
    BY DEF VacInv
  <1>w. /\ WindowWrites \in Nat /\ MaxWrites \in Nat /\ Bloat \in Nat
        /\ WindowWrites <= MaxWrites /\ MaxWrites < Bloat
    BY <1>0, WritesAreBounded
  <1>1. CASE seedPageViews
    <2>1. VacTypeOK'
      <3>1. /\ vacPc' \in Nat /\ 1 <= vacPc' /\ vacPc' <= 14 /\ vacScript' = vacScript
            /\ vacScript = "bloat" => vacPc' <= 6
            /\ vacScript = "autovacuum" => vacPc' <= 7
        BY <1>0, <1>1, Positions DEF seedPageViews, NextStatement
      <3>2. VacNumbers'
        BY <1>0, <1>1 DEF seedPageViews, VacTypeOK, VacNumbers
      <3>3. VacSwitches'
        BY <1>0, <1>1 DEF seedPageViews, VacTypeOK, VacSwitches
      <3>4. VacProbes'
        BY <1>0, <1>1 DEF seedPageViews, VacTypeOK, VacProbes, probeVars
      <3>5. busy' \in BOOLEAN
        BY <1>0, <1>1 DEF seedPageViews, NextStatement
      <3> QED BY <1>0, <3>1, <3>2, <3>3, <3>4, <3>5 DEF VacTypeOK, VacPosition
    <2>2. Undisturbed' /\ HorizonIsPast' /\ Churned'
      BY <1>0, <1>1, Positions DEF seedPageViews, Undisturbed, HorizonIsPast, Churned,
         NextStatement
    <2>3. ProbersInTheirWindow'
      BY <1>0, <1>1, Positions DEF seedPageViews, ProbersInTheirWindow, NextStatement,
         probeVars
    <2>4. Reclaimed'
      BY <1>0, <1>1, Positions DEF seedPageViews, Reclaimed, NextStatement
    <2>5. ReadInOrder' /\ ReadingsTell'
      BY <1>0, <1>1, Positions DEF seedPageViews, ReadInOrder, ReadingsTell, PollSawOne,
         HasRead, NextStatement
    <2> QED BY <2>1, <2>2, <2>3, <2>4, <2>5 DEF VacInv
  <1>2. CASE SetAutovacuum
    <2>1. VacTypeOK'
      <3>1. /\ vacPc' \in Nat /\ 1 <= vacPc' /\ vacPc' <= 14 /\ vacScript' = vacScript
            /\ vacScript = "bloat" => vacPc' <= 6
            /\ vacScript = "autovacuum" => vacPc' <= 7
        BY <1>0, <1>2, Positions DEF SetAutovacuum, NextStatement
      <3>2. VacNumbers'
        BY <1>0, <1>2 DEF SetAutovacuum, VacTypeOK, VacNumbers, heapVars, workerVars
      <3>3. VacSwitches'
        BY <1>0, <1>2 DEF SetAutovacuum, VacSwitches, workerVars
      <3>4. VacProbes'
        BY <1>0, <1>2 DEF SetAutovacuum, VacTypeOK, VacProbes, probeVars
      <3>5. busy' \in BOOLEAN
        BY <1>0, <1>2 DEF SetAutovacuum, NextStatement
      <3> QED BY <1>0, <3>1, <3>2, <3>3, <3>4, <3>5 DEF VacTypeOK, VacPosition
    <2>2. Undisturbed' /\ HorizonIsPast' /\ Churned'
      BY <1>0, <1>2, Positions DEF SetAutovacuum, Undisturbed, HorizonIsPast, Churned,
         NextStatement, heapVars, workerVars
    <2>3. ProbersInTheirWindow'
      BY <1>0, <1>2, Positions DEF SetAutovacuum, ProbersInTheirWindow, NextStatement,
         probeVars
    <2>4. Reclaimed'
      BY <1>0, <1>2, Positions DEF SetAutovacuum, Reclaimed, NextStatement
    <2>5. ReadInOrder' /\ ReadingsTell'
      BY <1>0, <1>2, Positions DEF SetAutovacuum, ReadInOrder, ReadingsTell, PollSawOne,
         HasRead, NextStatement
    <2> QED BY <2>1, <2>2, <2>3, <2>4, <2>5 DEF VacInv
  <1>3. CASE UpdateStarts
    <2>1. VacTypeOK'
      BY <1>0, <1>3 DEF UpdateStarts, VacTypeOK, VacPosition, VacNumbers, VacSwitches,
         VacProbes, heapVars, workerVars, probeVars
    <2>2. Undisturbed' /\ HorizonIsPast' /\ Churned'
      BY <1>0, <1>3, Positions DEF UpdateStarts, Undisturbed, HorizonIsPast, Churned,
         heapVars, workerVars
    <2>3. ProbersInTheirWindow'
      BY <1>0, <1>3, Positions DEF UpdateStarts, ProbersInTheirWindow, probeVars
    <2>4. Reclaimed'
      BY <1>0, <1>3, Positions DEF UpdateStarts, Reclaimed
    <2>5. ReadInOrder' /\ ReadingsTell'
      BY <1>0, <1>3 DEF UpdateStarts, ReadInOrder, ReadingsTell, PollSawOne, HasRead
    <2> QED BY <2>1, <2>2, <2>3, <2>4, <2>5 DEF VacInv
  <1>4. CASE UpdateCommits
    <2>1. VacTypeOK'
      <3>1. /\ vacPc' \in Nat /\ 1 <= vacPc' /\ vacPc' <= 14 /\ vacScript' = vacScript
            /\ vacScript = "bloat" => vacPc' <= 6
            /\ vacScript = "autovacuum" => vacPc' <= 7
        BY <1>0, <1>4, Positions DEF UpdateCommits, NextStatement
      <3>2. VacNumbers'
        BY <1>0, <1>4, VacuumSizes DEF UpdateCommits, VacTypeOK, VacNumbers, workerVars,
           WriteVersions
      <3>3. VacSwitches'
        BY <1>0, <1>4 DEF UpdateCommits, VacTypeOK, VacSwitches, workerVars
      <3>4. VacProbes'
        BY <1>0, <1>4 DEF UpdateCommits, VacTypeOK, VacProbes, probeVars
      <3>5. busy' \in BOOLEAN
        BY <1>0, <1>4 DEF UpdateCommits, NextStatement
      <3> QED BY <1>0, <3>1, <3>2, <3>3, <3>4, <3>5 DEF VacTypeOK, VacPosition
    <2>2. Undisturbed' /\ HorizonIsPast' /\ Churned'
      BY <1>0, <1>4, Positions, VacuumSizes DEF UpdateCommits, VacTypeOK, VacNumbers,
         Undisturbed, HorizonIsPast, Churned, NextStatement, workerVars, WriteVersions
    <2>3. ProbersInTheirWindow'
      BY <1>0, <1>4, Positions DEF UpdateCommits, ProbersInTheirWindow, NextStatement,
         probeVars
    <2>4. Reclaimed'
      BY <1>0, <1>4, Positions DEF UpdateCommits, Reclaimed, NextStatement
    <2>5. ReadInOrder' /\ ReadingsTell'
      BY <1>0, <1>4, Positions DEF UpdateCommits, ReadInOrder, ReadingsTell, PollSawOne,
         HasRead, NextStatement
    <2> QED BY <2>1, <2>2, <2>3, <2>4, <2>5 DEF VacInv
  <1>5. CASE VacuumStarts
    <2>1. VacTypeOK'
      BY <1>0, <1>5 DEF VacuumStarts, VacTypeOK, VacPosition, VacNumbers, VacSwitches,
         VacProbes, heapVars, probeVars
    <2>2. Undisturbed' /\ HorizonIsPast' /\ Churned'
      BY <1>0, <1>5 DEF VacuumStarts, VacTypeOK, VacNumbers, Undisturbed, HorizonIsPast,
         Churned, heapVars
    <2>3. ProbersInTheirWindow'
      BY <1>0, <1>5, Positions DEF VacuumStarts, ProbersInTheirWindow, probeVars
    <2>4. Reclaimed'
      BY <1>0, <1>5 DEF VacuumStarts, Reclaimed, WindowWrites, heapVars, probeVars
    <2>5. ReadInOrder' /\ ReadingsTell'
      BY <1>0, <1>5 DEF VacuumStarts, ReadInOrder, ReadingsTell, PollSawOne, HasRead
    <2> QED BY <2>1, <2>2, <2>3, <2>4, <2>5 DEF VacInv
  <1>6. CASE VacuumEnds
    <2>1. VacTypeOK'
      <3>1. /\ vacPc' \in Nat /\ 1 <= vacPc' /\ vacPc' <= 14 /\ vacScript' = vacScript
            /\ vacScript = "bloat" => vacPc' <= 6
            /\ vacScript = "autovacuum" => vacPc' <= 7
        BY <1>0, <1>6, Positions DEF VacuumEnds, NextStatement
      <3>2. VacNumbers'
        BY <1>0, <1>6, Positions DEF VacuumEnds, VacTypeOK, VacNumbers, HorizonIsPast
      <3>3. VacSwitches'
        BY <1>0, <1>6 DEF VacuumEnds, VacTypeOK, VacSwitches
      <3>4. VacProbes'
        BY <1>0, <1>6 DEF VacuumEnds, VacTypeOK, VacProbes, probeVars
      <3>5. busy' \in BOOLEAN
        BY <1>0, <1>6 DEF VacuumEnds, NextStatement
      <3> QED BY <1>0, <3>1, <3>2, <3>3, <3>4, <3>5 DEF VacTypeOK, VacPosition
    <2>2. Undisturbed' /\ HorizonIsPast' /\ Churned'
      BY <1>0, <1>6, Positions DEF VacuumEnds, Undisturbed, HorizonIsPast, Churned,
         NextStatement
    <2>3. ProbersInTheirWindow'
      BY <1>0, <1>6, Positions DEF VacuumEnds, ProbersInTheirWindow, NextStatement,
         probeVars
    <2>4. Reclaimed'
      BY <1>0, <1>w, <1>6, Positions DEF VacuumEnds, VacTypeOK, VacNumbers, Reclaimed,
         WindowWrites, NextStatement, probeVars
    <2>5. ReadInOrder' /\ ReadingsTell'
      BY <1>0, <1>6, Positions DEF VacuumEnds, ReadInOrder, ReadingsTell, PollSawOne, HasRead,
         NextStatement
    <2> QED BY <2>1, <2>2, <2>3, <2>4, <2>5 DEF VacInv
  <1>7. CASE FullStarts
    <2>1. VacTypeOK'
      BY <1>0, <1>7 DEF FullStarts, VacTypeOK, VacPosition, VacNumbers, VacSwitches, VacProbes,
         heapVars, workerVars, probeVars
    <2>2. Undisturbed' /\ HorizonIsPast' /\ Churned'
      BY <1>0, <1>7, Positions DEF FullStarts, Undisturbed, HorizonIsPast, Churned, workerVars
    <2>3. ProbersInTheirWindow'
      BY <1>0, <1>7 DEF FullStarts, ProbersInTheirWindow, Writing, probeVars, Exclusive
    <2>4. Reclaimed'
      BY <1>0, <1>7, Positions DEF FullStarts, Reclaimed, heapVars
    <2>5. ReadInOrder' /\ ReadingsTell'
      BY <1>0, <1>7 DEF FullStarts, ReadInOrder, ReadingsTell, PollSawOne, HasRead
    <2> QED BY <2>1, <2>2, <2>3, <2>4, <2>5 DEF VacInv
  <1>8. CASE FullEnds
    <2>1. VacTypeOK'
      <3>1. /\ vacPc' \in Nat /\ 1 <= vacPc' /\ vacPc' <= 14 /\ vacScript' = vacScript
            /\ vacScript = "bloat" => vacPc' <= 6
            /\ vacScript = "autovacuum" => vacPc' <= 7
        BY <1>0, <1>8, Positions DEF FullEnds, NextStatement, FullHeld
      <3>2. VacNumbers'
        BY <1>0, <1>8 DEF FullEnds, VacTypeOK, VacNumbers, workerVars
      <3>3. VacSwitches'
        BY <1>0, <1>8 DEF FullEnds, VacTypeOK, VacSwitches, workerVars
      <3>4. VacProbes'
        BY <1>0, <1>8 DEF FullEnds, VacTypeOK, VacProbes, probeVars
      <3>5. busy' \in BOOLEAN
        BY <1>0, <1>8 DEF FullEnds, NextStatement
      <3> QED BY <1>0, <3>1, <3>2, <3>3, <3>4, <3>5 DEF VacTypeOK, VacPosition
    <2>2. Undisturbed' /\ HorizonIsPast' /\ Churned'
      BY <1>0, <1>8, Positions DEF FullEnds, Undisturbed, HorizonIsPast, Churned, NextStatement,
         workerVars, FullHeld
    <2>3. ProbersInTheirWindow'
      BY <1>0, <1>8, Positions DEF FullEnds, ProbersInTheirWindow, NextStatement, probeVars, FullHeld
    <2>4. Reclaimed'
      BY <1>0, <1>w, <1>8, Positions DEF FullEnds, Reclaimed, WindowWrites, NextStatement, probeVars,
         FullHeld
    <2>5. ReadInOrder' /\ ReadingsTell'
      BY <1>0, <1>8, Positions DEF FullEnds, ReadInOrder, ReadingsTell, PollSawOne, HasRead,
         NextStatement, FullHeld
    <2> QED BY <2>1, <2>2, <2>3, <2>4, <2>5 DEF VacInv
  <1>9. CASE PollSees
    <2>1. VacTypeOK'
      <3>1. /\ vacPc' \in Nat /\ 1 <= vacPc' /\ vacPc' <= 14 /\ vacScript' = vacScript
            /\ vacScript = "bloat" => vacPc' <= 6
            /\ vacScript = "autovacuum" => vacPc' <= 7
        BY <1>0, <1>9, Positions DEF PollSees, NextStatement
      <3>2. VacNumbers'
        BY <1>0, <1>9 DEF PollSees, VacTypeOK, VacNumbers, heapVars, workerVars
      <3>3. VacSwitches'
        BY <1>0, <1>9 DEF PollSees, VacTypeOK, VacSwitches, workerVars
      <3>4. VacProbes'
        BY <1>0, <1>9 DEF PollSees, VacTypeOK, VacProbes, probeVars
      <3>5. busy' \in BOOLEAN
        BY <1>0, <1>9 DEF PollSees, NextStatement
      <3> QED BY <1>0, <3>1, <3>2, <3>3, <3>4, <3>5 DEF VacTypeOK, VacPosition
    <2>2. Undisturbed' /\ HorizonIsPast' /\ Churned'
      BY <1>0, <1>9, Positions DEF PollSees, Undisturbed, HorizonIsPast, Churned, NextStatement,
         heapVars, workerVars
    <2>3. ProbersInTheirWindow'
      BY <1>0, <1>9, Positions DEF PollSees, ProbersInTheirWindow, probeVars
    <2>4. Reclaimed'
      BY <1>0, <1>9, Positions DEF PollSees, Reclaimed
    <2>5. ReadInOrder' /\ ReadingsTell'
      BY <1>0, <1>9, Positions DEF PollSees, ReadInOrder, ReadingsTell, PollSawOne, HasRead,
         NextStatement, getTableStats
    <2> QED BY <2>1, <2>2, <2>3, <2>4, <2>5 DEF VacInv
  <1>10. CASE PollGivesUp
    <2>1. VacTypeOK'
      <3>1. /\ vacPc' \in Nat /\ 1 <= vacPc' /\ vacPc' <= 14 /\ vacScript' = vacScript
            /\ vacScript = "bloat" => vacPc' <= 6
            /\ vacScript = "autovacuum" => vacPc' <= 7
        BY <1>0, <1>10, Positions DEF PollGivesUp, NextStatement
      <3>2. VacNumbers'
        BY <1>0, <1>10 DEF PollGivesUp, VacTypeOK, VacNumbers, heapVars, workerVars
      <3>3. VacSwitches'
        BY <1>0, <1>10 DEF PollGivesUp, VacTypeOK, VacSwitches, workerVars
      <3>4. VacProbes'
        BY <1>0, <1>10 DEF PollGivesUp, VacTypeOK, VacProbes, probeVars
      <3>5. busy' \in BOOLEAN
        BY <1>0, <1>10 DEF PollGivesUp, NextStatement
      <3> QED BY <1>0, <3>1, <3>2, <3>3, <3>4, <3>5 DEF VacTypeOK, VacPosition
    <2>2. Undisturbed' /\ HorizonIsPast' /\ Churned'
      BY <1>0, <1>10, Positions DEF PollGivesUp, Undisturbed, HorizonIsPast, Churned, NextStatement,
         heapVars, workerVars
    <2>3. ProbersInTheirWindow'
      BY <1>0, <1>10, Positions DEF PollGivesUp, ProbersInTheirWindow, probeVars
    <2>4. Reclaimed'
      BY <1>0, <1>10, Positions DEF PollGivesUp, Reclaimed
    <2>5. ReadInOrder' /\ ReadingsTell'
      BY <1>0, <1>10, Positions DEF PollGivesUp, ReadInOrder, ReadingsTell, PollSawOne, HasRead,
         NextStatement
    <2> QED BY <2>1, <2>2, <2>3, <2>4, <2>5 DEF VacInv
  <1>11. CASE ProbersStart
    <2>1. VacTypeOK'
      <3>1. /\ vacPc' \in Nat /\ 1 <= vacPc' /\ vacPc' <= 14 /\ vacScript' = vacScript
            /\ vacScript = "bloat" => vacPc' <= 6
            /\ vacScript = "autovacuum" => vacPc' <= 7
        BY <1>0, <1>11, Positions DEF ProbersStart, NextStatement
      <3>2. VacNumbers'
        BY <1>0, <1>11 DEF ProbersStart, VacTypeOK, VacNumbers, heapVars, workerVars
      <3>3. VacSwitches'
        BY <1>0, <1>11 DEF ProbersStart, VacTypeOK, VacSwitches, workerVars
      <3>4. VacProbes'
        BY <1>0, <1>11 DEF ProbersStart, VacProbes
      <3>5. busy' \in BOOLEAN
        BY <1>0, <1>11 DEF ProbersStart, NextStatement
      <3> QED BY <1>0, <3>1, <3>2, <3>3, <3>4, <3>5 DEF VacTypeOK, VacPosition
    <2>2. Undisturbed' /\ HorizonIsPast' /\ Churned'
      BY <1>0, <1>11, Positions DEF ProbersStart, Undisturbed, HorizonIsPast, Churned, NextStatement,
         workerVars
    <2>3. ProbersInTheirWindow'
      BY <1>0, <1>11, Positions, VacuumSizes DEF ProbersStart, ProbersInTheirWindow, NextStatement
    <2>4. Reclaimed'
      <3>1. WindowWrites' \in Nat
        <4>1. probes' \in [Probers -> Nat]
          BY <2>1 DEF VacTypeOK, VacProbes
        <4> QED BY <4>1, VacuumSizes, TotalByElement DEF WindowWrites
      <3>2. vacScript' = "vacuum" => vacPc' \in {7, 11}
        BY <1>0, <1>11, Positions DEF ProbersStart, NextStatement
      <3>3. vacPc = 6 => dead' = Bloat /\ busy' = FALSE
        BY <1>0, <1>11, Positions DEF ProbersStart, NextStatement, Churned, Bloat, heapVars
      <3>4. vacPc = 10 => Bloat <= dead' + reusable'
        BY <1>0, <1>11, Positions DEF ProbersStart, Reclaimed, heapVars
      <3>5. vacPc' = vacPc + 1 /\ vacPc \in Nat /\ dead \in Nat /\ dead' = dead /\ reusable' = reusable /\ reusable \in Nat
        BY <1>0, <1>11 DEF ProbersStart, NextStatement, VacTypeOK, VacPosition, VacNumbers, heapVars
      <3> QED BY <1>w, <3>1, <3>2, <3>3, <3>4, <3>5 DEF Reclaimed, Bloat
    <2>5. ReadInOrder' /\ ReadingsTell'
      BY <1>0, <1>11, Positions DEF ProbersStart, ReadInOrder, ReadingsTell, PollSawOne, HasRead,
         NextStatement
    <2> QED BY <2>1, <2>2, <2>3, <2>4, <2>5 DEF VacInv
  <1>12. CASE StopCalled
    <2>1. VacTypeOK'
      BY <1>0, <1>12 DEF StopCalled, VacTypeOK, VacPosition, VacNumbers, VacSwitches, VacProbes,
         heapVars, workerVars, probeVars
    <2>2. Undisturbed' /\ HorizonIsPast' /\ Churned'
      BY <1>0, <1>12, Positions DEF StopCalled, Undisturbed, HorizonIsPast, Churned, workerVars
    <2>3. ProbersInTheirWindow'
      BY <1>0, <1>12, Positions DEF StopCalled, ProbersInTheirWindow, probeVars
    <2>4. Reclaimed'
      BY <1>0, <1>12, Positions DEF StopCalled, Reclaimed, WindowWrites, heapVars, probeVars
    <2>5. ReadInOrder' /\ ReadingsTell'
      BY <1>0, <1>12 DEF StopCalled, ReadInOrder, ReadingsTell, PollSawOne, HasRead
    <2> QED BY <2>1, <2>2, <2>3, <2>4, <2>5 DEF VacInv
  <1>13. CASE ProbersStop
    <2>1. VacTypeOK'
      <3>1. /\ vacPc' \in Nat /\ 1 <= vacPc' /\ vacPc' <= 14 /\ vacScript' = vacScript
            /\ vacScript = "bloat" => vacPc' <= 6
            /\ vacScript = "autovacuum" => vacPc' <= 7
        BY <1>0, <1>13, Positions DEF ProbersStop, NextStatement, Stopping
      <3>2. VacNumbers'
        BY <1>0, <1>13 DEF ProbersStop, VacTypeOK, VacNumbers, heapVars, workerVars
      <3>3. VacSwitches'
        BY <1>0, <1>13 DEF ProbersStop, VacTypeOK, VacSwitches, workerVars
      <3>4. VacProbes'
        BY <1>0, <1>13 DEF ProbersStop, VacTypeOK, VacProbes, probeVars
      <3>5. busy' \in BOOLEAN
        BY <1>0, <1>13 DEF ProbersStop, NextStatement
      <3> QED BY <1>0, <3>1, <3>2, <3>3, <3>4, <3>5 DEF VacTypeOK, VacPosition
    <2>2. Undisturbed' /\ HorizonIsPast' /\ Churned'
      BY <1>0, <1>13, Positions DEF ProbersStop, Undisturbed, HorizonIsPast, Churned, NextStatement,
         workerVars, Stopping
    <2>3. ProbersInTheirWindow'
      BY <1>0, <1>13 DEF ProbersStop, VacTypeOK, VacPosition, ProbersInTheirWindow, NextStatement,
         probeVars
    <2>4. Reclaimed'
      BY <1>0, <1>13, Positions DEF ProbersStop, Reclaimed, WindowWrites, NextStatement, heapVars, probeVars,
         Stopping
    <2>5. ReadInOrder' /\ ReadingsTell'
      BY <1>0, <1>13, Positions DEF ProbersStop, ReadInOrder, ReadingsTell, PollSawOne, HasRead,
         NextStatement, Stopping
    <2> QED BY <2>1, <2>2, <2>3, <2>4, <2>5 DEF VacInv
  <1>14. CASE ReadStats
    <2>1. VacTypeOK'
      <3>1. /\ vacPc' \in Nat /\ 1 <= vacPc' /\ vacPc' <= 14 /\ vacScript' = vacScript
            /\ vacScript = "bloat" => vacPc' <= 6
            /\ vacScript = "autovacuum" => vacPc' <= 7
        BY <1>0, <1>14, Positions DEF ReadStats, NextStatement
      <3>2. VacNumbers'
        BY <1>0, <1>14 DEF ReadStats, VacTypeOK, VacNumbers, heapVars, workerVars
      <3>3. VacSwitches'
        BY <1>0, <1>14 DEF ReadStats, VacTypeOK, VacSwitches, workerVars
      <3>4. VacProbes'
        BY <1>0, <1>14 DEF ReadStats, VacTypeOK, VacProbes, probeVars
      <3>5. busy' \in BOOLEAN
        BY <1>0, <1>14 DEF ReadStats, NextStatement
      <3> QED BY <1>0, <3>1, <3>2, <3>3, <3>4, <3>5 DEF VacTypeOK, VacPosition
    <2>2. Undisturbed' /\ HorizonIsPast' /\ Churned'
      BY <1>0, <1>14, Positions, VacuumSizes DEF ReadStats, Undisturbed, HorizonIsPast, Churned,
         NextStatement, heapVars, workerVars
    <2>3. ProbersInTheirWindow'
      BY <1>0, <1>14, Positions DEF ReadStats, ProbersInTheirWindow, NextStatement, probeVars
    <2>4. Reclaimed'
      BY <1>0, <1>14, Positions DEF ReadStats, Reclaimed, NextStatement, heapVars
    <2>5. ReadInOrder' /\ ReadingsTell'
      <3>1. ReadInOrder'
        BY <1>0, <1>14, Positions DEF ReadStats, ReadInOrder, HasRead, NextStatement
      <3>2. ReadingsTell'
        BY <1>0, <1>w, <1>14, Positions, VacuumSizes DEF ReadStats, VacTypeOK, VacNumbers, Churned,
           Reclaimed, Bloat, getTableStats, relationSize, ReadInOrder, ReadingsTell, PollSawOne, HasRead
      <3> QED BY <3>1, <3>2
    <2> QED BY <2>1, <2>2, <2>3, <2>4, <2>5 DEF VacInv
  <1>15. CASE WorkerStarts
    <2>1. VacTypeOK'
      BY <1>0, <1>15 DEF WorkerStarts, VacTypeOK, VacPosition, VacNumbers, VacSwitches, VacProbes,
         heapVars, probeVars
    <2>2. Undisturbed' /\ HorizonIsPast' /\ Churned'
      BY <1>0, <1>15 DEF WorkerStarts, Due, VacTypeOK, VacNumbers, Undisturbed, HorizonIsPast, Churned,
         heapVars
    <2>3. ProbersInTheirWindow'
      BY <1>0, <1>15 DEF WorkerStarts, ProbersInTheirWindow, Writing, probeVars
    <2>4. Reclaimed'
      BY <1>0, <1>15 DEF WorkerStarts, Reclaimed, WindowWrites, heapVars, probeVars
    <2>5. ReadInOrder' /\ ReadingsTell'
      BY <1>0, <1>15 DEF WorkerStarts, ReadInOrder, ReadingsTell, PollSawOne, HasRead
    <2> QED BY <2>1, <2>2, <2>3, <2>4, <2>5 DEF VacInv
  <1>16. CASE WorkerEnds
    <2>1. VacTypeOK'
      <3>1. /\ vacPc' \in Nat /\ 1 <= vacPc' /\ vacPc' <= 14 /\ vacScript' = vacScript
            /\ vacScript = "bloat" => vacPc' <= 6
            /\ vacScript = "autovacuum" => vacPc' <= 7
        BY <1>0, <1>16 DEF WorkerEnds, VacTypeOK, VacPosition
      <3>2. VacNumbers'
        BY <1>0, <1>16 DEF WorkerEnds, VacTypeOK, VacNumbers, HorizonIsPast
      <3>3. VacSwitches'
        BY <1>0, <1>16 DEF WorkerEnds, VacTypeOK, VacSwitches
      <3>4. VacProbes'
        BY <1>0, <1>16 DEF WorkerEnds, VacTypeOK, VacProbes, probeVars
      <3>5. busy' \in BOOLEAN
        BY <1>0, <1>16 DEF WorkerEnds, VacTypeOK, VacPosition
      <3> QED BY <1>0, <3>1, <3>2, <3>3, <3>4, <3>5 DEF VacTypeOK, VacPosition
    <2>2. Undisturbed' /\ HorizonIsPast' /\ Churned'
      BY <1>0, <1>16 DEF WorkerEnds, Undisturbed, HorizonIsPast, Churned
    <2>3. ProbersInTheirWindow'
      BY <1>0, <1>16 DEF WorkerEnds, ProbersInTheirWindow, Writing, probeVars
    <2>4. Reclaimed'
      BY <1>0, <1>16 DEF WorkerEnds, Undisturbed, Reclaimed
    <2>5. ReadInOrder' /\ ReadingsTell'
      BY <1>0, <1>16 DEF WorkerEnds, ReadInOrder, ReadingsTell, PollSawOne, HasRead
    <2> QED BY <2>1, <2>2, <2>3, <2>4, <2>5 DEF VacInv
  <1>17. ASSUME NEW p \in Probers, ProbeStarts(p) PROVE VacInv'
    <2>1. VacTypeOK'
      BY <1>0, <1>17 DEF ProbeStarts, VacTypeOK, VacPosition, VacNumbers, VacSwitches, VacProbes,
         heapVars, workerVars
    <2>2. Undisturbed' /\ HorizonIsPast' /\ Churned'
      BY <1>0, <1>17 DEF ProbeStarts, Undisturbed, HorizonIsPast, Churned, heapVars, workerVars
    <2>3. ProbersInTheirWindow'
      BY <1>0, <1>17, Positions DEF ProbeStarts, ProbersInTheirWindow, FullHeld
    <2>4. Reclaimed'
      BY <1>0, <1>17 DEF ProbeStarts, Reclaimed, WindowWrites, heapVars, workerVars
    <2>5. ReadInOrder' /\ ReadingsTell'
      BY <1>0, <1>17 DEF ProbeStarts, ReadInOrder, ReadingsTell, PollSawOne, HasRead
    <2> QED BY <2>1, <2>2, <2>3, <2>4, <2>5 DEF VacInv
  <1>18. ASSUME NEW p \in Probers, ProbeCommits(p) PROVE VacInv'
    <2>0. /\ probing[p] = "writing" /\ probes' = [probes EXCEPT ![p] = @ + 1]
          /\ dead' = dead + 1 /\ reusable' \in Nat /\ reusable <= reusable' + 1
          /\ reusable = 0 => reusable' = 0
          /\ vacScript = "vacuum" /\ vacPc \in {7, 8, 11, 12} /\ ~(vacPc = 11 /\ busy)
      BY <1>0, <1>18 DEF ProbeCommits, WriteVersions, VacTypeOK, VacPosition, VacNumbers,
         ProbersInTheirWindow, Writing
    <2>1. VacTypeOK'
      BY <1>0, <1>18, <2>0 DEF ProbeCommits, VacTypeOK, VacPosition, VacNumbers, VacSwitches, VacProbes,
         workerVars
    <2>2. Undisturbed' /\ HorizonIsPast' /\ Churned'
      BY <1>0, <1>18, <2>0 DEF ProbeCommits, VacTypeOK, VacNumbers, Undisturbed, HorizonIsPast, Churned,
         workerVars
    <2>3. ProbersInTheirWindow'
      BY <1>0, <1>18, <2>0, VacuumSizes DEF ProbeCommits, VacTypeOK, VacProbes, ProbersInTheirWindow
    <2>4. Reclaimed'
      <3>1. WindowWrites' = WindowWrites + 1
        <4>1. IsFiniteSet(Probers) /\ probes \in [Probers -> Nat] /\ 1 \in Nat
          BY <1>0, VacuumSizes DEF VacTypeOK, VacProbes
        <4>2. Total([probes EXCEPT ![p] = @ + 1], Probers) = Total(probes, Probers) + 1
          BY <4>1, TotalOfOneMore
        <4> QED BY <2>0, <4>2 DEF WindowWrites
      <3>2. vacScript' = vacScript /\ vacPc' = vacPc /\ (busy' => busy) /\ horizon' = horizon
        BY <1>18 DEF ProbeCommits, workerVars
      <3>3. dead \in Nat /\ reusable \in Nat
        BY <1>0 DEF VacTypeOK, VacNumbers
      <3>4. /\ dead' = dead + 1 /\ reusable' \in Nat /\ reusable <= reusable' + 1
            /\ reusable = 0 => reusable' = 0
            /\ vacScript = "vacuum" /\ vacPc \in {7, 8, 11, 12} /\ ~(vacPc = 11 /\ busy)
        BY <2>0
      <3>5. /\ vacPc = 7 => Bloat <= dead /\ dead <= Bloat + WindowWrites /\ (busy => Bloat <= horizon)
            /\ vacPc = 8 => dead <= WindowWrites
            /\ vacPc \in {7, 8, 11} => Bloat <= dead + reusable
            /\ vacPc = 12 => dead <= WindowWrites /\ reusable = 0
        BY <1>0, <3>4 DEF Reclaimed
      <3>6. /\ vacPc = 7 => Bloat <= dead' /\ dead' <= Bloat + WindowWrites' /\ (busy => Bloat <= horizon)
            /\ vacPc = 8 => dead' <= WindowWrites'
            /\ vacPc \in {7, 8, 11} => Bloat <= dead' + reusable'
            /\ vacPc = 12 => dead' <= WindowWrites' /\ reusable' = 0
        <4>1. vacPc = 7 => Bloat <= dead' /\ dead' <= Bloat + WindowWrites'
          BY <1>w, <3>1, <3>3, <3>4, <3>5
        <4>2. vacPc = 7 => (busy => Bloat <= horizon)
          BY <3>5
        <4>3. vacPc = 8 \/ vacPc = 12 => dead' <= WindowWrites'
          BY <1>w, <3>1, <3>3, <3>4, <3>5
        <4>4. vacPc \in {7, 8, 11} => Bloat <= dead' + reusable'
          <5>1. Bloat <= dead + reusable => Bloat <= (dead + 1) + reusable'
            BY <1>w, <3>3, <3>4, FileIsKept
          <5> QED BY <3>4, <3>5, <5>1
        <4>5. vacPc = 12 => reusable' = 0
          BY <3>4, <3>5
        <4> QED BY <4>1, <4>2, <4>3, <4>4, <4>5
      <3> QED BY <3>2, <3>6, <3>4 DEF Reclaimed
    <2>5. ReadInOrder' /\ ReadingsTell'
      BY <1>0, <1>18 DEF ProbeCommits, ReadInOrder, ReadingsTell, PollSawOne, HasRead
    <2> QED BY <2>1, <2>2, <2>3, <2>4, <2>5 DEF VacInv
  <1>19. ASSUME NEW p \in Probers, ProberStops(p) PROVE VacInv'
    <2>1. VacTypeOK'
      BY <1>0, <1>19 DEF ProberStops, VacTypeOK, VacPosition, VacNumbers, VacSwitches, VacProbes,
         heapVars, workerVars
    <2>2. Undisturbed' /\ HorizonIsPast' /\ Churned'
      BY <1>0, <1>19 DEF ProberStops, Undisturbed, HorizonIsPast, Churned, heapVars, workerVars
    <2>3. ProbersInTheirWindow'
      BY <1>0, <1>19 DEF ProberStops, ProbersInTheirWindow, Writing
    <2>4. Reclaimed'
      BY <1>0, <1>19 DEF ProberStops, Reclaimed, WindowWrites, heapVars, workerVars
    <2>5. ReadInOrder' /\ ReadingsTell'
      BY <1>0, <1>19 DEF ProberStops, ReadInOrder, ReadingsTell, PollSawOne, HasRead
    <2> QED BY <2>1, <2>2, <2>3, <2>4, <2>5 DEF VacInv
  <1>20. CASE UNCHANGED vacVars
    BY <1>0, <1>20 DEF vacVars, VacInv, VacTypeOK, VacPosition, VacNumbers, VacSwitches, VacProbes,
       Undisturbed, HorizonIsPast, Churned, ProbersInTheirWindow, Writing, Reclaimed, WindowWrites, ReadInOrder,
       ReadingsTell, PollSawOne, HasRead
  <1> QED BY <1>1, <1>2, <1>3, <1>4, <1>5, <1>6, <1>7, <1>8, <1>9, <1>10, <1>11, <1>12, <1>13, <1>14,
             <1>15, <1>16, <1>17, <1>18, <1>19, <1>20 DEF VacNext, StatementSteps, ProberSteps

\* The runs that the poll may count, through every step of its script.
LEMMA EarlyRunStep == VacInv /\ EarlyRunIsKnown /\ [VacNext]_vacVars => EarlyRunIsKnown'
  <1> SUFFICES ASSUME VacInv, EarlyRunIsKnown, [VacNext]_vacVars, vacScript' = "autovacuum"
               PROVE  OneEarlyRun' /\ PollTells'
    BY DEF EarlyRunIsKnown
  <1>0. /\ VacTypeOK /\ ReadInOrder /\ Churned
        /\ \A p \in Probers : vacScript = "autovacuum" => probing[p] = "off"
    BY DEF VacInv, ProbersInTheirWindow
  <1>1. vacScript = "autovacuum"
    BY DEF VacNext, StatementSteps, ProberSteps, seedPageViews, SetAutovacuum, ReadStats, UpdateStarts,
           UpdateCommits, VacuumStarts, VacuumEnds, FullStarts, FullEnds, PollSees, PollGivesUp, ProbersStart,
           StopCalled, ProbersStop, WorkerStarts, WorkerEnds, ProbeStarts, ProbeCommits, ProberStops, vacVars
  <1>2. OneEarlyRun /\ PollTells
    BY <1>1 DEF EarlyRunIsKnown
  <1>3. vacPc \in Nat /\ 1 <= vacPc /\ vacPc <= 7 /\ TableRows \in Nat \ {0}
        /\ dead \in Nat /\ autovacuumCount \in Nat /\ autovacuumWorker \in {"idle", "running"}
    BY <1>0, <1>1, VacuumSizes DEF VacTypeOK, VacPosition, VacNumbers, VacSwitches
  <1> DEFINE StatsKept == UNCHANGED <<dead, insertsSeen, autovacuumCount, autovacuumWorker, horizon>>
  <1>4. ASSUME StatsKept, readings' = readings, vacPc' = vacPc PROVE OneEarlyRun' /\ PollTells'
    BY <1>2, <1>4 DEF OneEarlyRun, PollTells, AutovacuumRan, HasRead
  <1>5. CASE seedPageViews
    <2>1. /\ vacPc' = 2 /\ dead' = 0 /\ insertsSeen' = TRUE /\ autovacuumCount' = 0
          /\ autovacuumWorker' = "idle" /\ readings' = readings
      BY <1>0, <1>5, Positions DEF seedPageViews, NextStatement
    <2> QED
      BY <1>2, <2>1 DEF OneEarlyRun, PollTells, AutovacuumRan, HasRead
  <1>6. CASE SetAutovacuum
    <2>1. vacPc = 2 /\ vacPc' = 3 /\ StatsKept /\ readings' = readings
      BY <1>0, <1>1, <1>6, Positions DEF SetAutovacuum, NextStatement, heapVars, workerVars
    <2> QED
      BY <1>2, <2>1 DEF OneEarlyRun, PollTells, AutovacuumRan, HasRead
  <1>7. CASE ReadStats
    <2>1. PICK l \in {"before", "after", "vacuumed", "shrunk"} :
             /\ AtStatement(l)
             /\ readings' = [k \in DOMAIN readings \cup {l} |-> IF k = l THEN getTableStats ELSE readings[k]]
      BY <1>7 DEF ReadStats
    <2>2. ((l = "before" /\ vacPc = 3) \/ (l = "after" /\ vacPc = 5)) /\ vacPc' = vacPc + 1 /\ StatsKept
      <3>1. vacPc' = vacPc + 1 /\ StatsKept
        BY <1>7 DEF ReadStats, NextStatement, heapVars, workerVars
      <3>2. (l = "before" /\ vacPc = 3) \/ (l = "after" /\ vacPc = 5)
        <4>1. ~AtStatement("vacuumed") /\ ~AtStatement("shrunk")
          BY <1>0, <1>1, Positions
        <4>2. l = "before" \/ l = "after"
          BY <2>1, <4>1
        <4>3. (AtStatement("before") => vacPc = 3) /\ (AtStatement("after") => vacPc = 5)
          BY <1>0, Positions
        <4>4. CASE l = "before"
          BY <2>1, <4>3, <4>4
        <4>5. CASE l = "after"
          BY <2>1, <4>3, <4>5
        <4> QED BY <4>2, <4>4, <4>5
      <3> QED BY <3>1, <3>2
    <2>3. ~HasRead("poll")
      BY <1>0, <2>2 DEF ReadInOrder
    <2>4. ~HasRead("poll")'
      BY <2>1, <2>2, <2>3 DEF HasRead
    <2>5. HasRead("before")' => readings'["before"].count \in Nat
      <3>1. CASE l = "before"
        BY <1>3, <2>1, <3>1 DEF getTableStats
      <3>2. CASE l # "before"
        BY <1>2, <2>1, <2>2, <3>2 DEF PollTells, HasRead
      <3> QED BY <3>1, <3>2
    <2>6. OneEarlyRun'
      BY <1>2, <1>3, <2>2 DEF OneEarlyRun
    <2> QED
      BY <2>4, <2>5, <2>6 DEF PollTells, AutovacuumRan
  <1>8. CASE UpdateStarts
    BY <1>4, <1>8 DEF UpdateStarts, heapVars, workerVars
  <1>9. CASE UpdateCommits
    <2>1. /\ vacPc = 4 /\ vacPc' = 5 /\ dead' = dead + TableRows /\ readings' = readings
          /\ UNCHANGED <<insertsSeen, autovacuumCount, autovacuumWorker, horizon>>
      BY <1>0, <1>1, <1>9, Positions DEF UpdateCommits, NextStatement, WriteVersions, workerVars
    <2> QED
      BY <1>2, <1>3, <2>1 DEF OneEarlyRun, PollTells, AutovacuumRan, HasRead
  <1>10. CASE PollSees
    <2>1. /\ vacPc = 6 /\ vacPc' = 7 /\ StatsKept /\ autovacuumCount > readings["before"].count
          /\ readings' = [l \in DOMAIN readings \cup {"poll"} |-> IF l = "poll" THEN getTableStats ELSE readings[l]]
      BY <1>0, <1>10, Positions DEF PollSees, NextStatement, heapVars, workerVars
    <2>2. HasRead("before") /\ readings["before"].count \in Nat
      BY <1>0, <1>2, <2>1 DEF ReadInOrder, PollTells
    <2>3. /\ readings'["poll"].count = autovacuumCount /\ readings'["poll"].dead = dead
          /\ readings'["before"] = readings["before"]
      BY <2>1, <2>2 DEF getTableStats, HasRead
    <2>4. dead # 0 => autovacuumCount = 1
      BY <1>2, <1>3, <2>1, <2>2 DEF OneEarlyRun
    <2>5. OneEarlyRun'
      BY <1>2, <2>1 DEF OneEarlyRun
    <2> QED
      BY <2>1, <2>2, <2>3, <2>4, <2>5 DEF PollTells, AutovacuumRan
  <1>11. CASE PollGivesUp
    <2>1. vacPc = 6 /\ vacPc' = 7 /\ StatsKept /\ readings' = readings
      BY <1>0, <1>11, Positions DEF PollGivesUp, NextStatement, heapVars, workerVars
    <2> QED
      BY <1>2, <2>1 DEF OneEarlyRun, PollTells, AutovacuumRan, HasRead
  <1>12. CASE WorkerStarts
    <2>1. /\ dead > 0 \/ insertsSeen
          /\ horizon' = dead /\ vacPc' = vacPc /\ readings' = readings
          /\ dead' = dead /\ insertsSeen' = insertsSeen /\ autovacuumCount' = autovacuumCount
      BY <1>12 DEF WorkerStarts, Due, heapVars
    <2>2. PollTells'
      BY <1>2, <2>1 DEF PollTells, AutovacuumRan, HasRead
    <2>3. (horizon' = dead' /\ dead' # 0) \/ (horizon' = 0 /\ insertsSeen')
      BY <1>3, <2>1
    <2>4. OneEarlyRun'
      <3>1. /\ vacPc \in 2..4 => dead = 0
            /\ vacPc > 1 => /\ dead \in {0, TableRows}
                            /\ insertsSeen => autovacuumCount = 0
                            /\ vacPc <= 4 \/ dead # 0 => autovacuumCount <= 1
        BY <1>2 DEF OneEarlyRun
      <3>2. /\ vacPc' \in 2..4 => dead' = 0
            /\ vacPc' > 1 => /\ dead' \in {0, TableRows}
                             /\ insertsSeen' => autovacuumCount' = 0
                             /\ vacPc' <= 4 \/ dead' # 0 => autovacuumCount' <= 1
        BY <2>1, <3>1
      <3>3. autovacuumWorker' = "running" =>
              (horizon' = dead' /\ dead' # 0) \/ (horizon' = 0 /\ insertsSeen')
        BY <2>3
      <3> QED BY <3>2, <3>3 DEF OneEarlyRun
    <2> QED
      BY <2>2, <2>4
  <1>13. CASE WorkerEnds
    <2>1. /\ autovacuumWorker = "running" /\ autovacuumWorker' = "idle"
          /\ dead' = dead - horizon /\ insertsSeen' = FALSE /\ autovacuumCount' = autovacuumCount + 1
          /\ vacPc' = vacPc /\ readings' = readings
      BY <1>13 DEF WorkerEnds
    <2>2. PollTells'
      BY <1>2, <2>1 DEF PollTells, AutovacuumRan, HasRead
    <2>3. CASE vacPc > 1 /\ horizon = dead /\ dead # 0
      BY <1>2, <1>3, <2>1, <2>2, <2>3 DEF OneEarlyRun
    <2>4. CASE vacPc > 1 /\ horizon = 0 /\ insertsSeen
      BY <1>2, <1>3, <2>1, <2>2, <2>4 DEF OneEarlyRun
    <2>5. CASE vacPc = 1
      BY <2>1, <2>2, <2>5 DEF OneEarlyRun
    <2> QED
      BY <1>2, <1>3, <2>1, <2>3, <2>4, <2>5 DEF OneEarlyRun
  <1>14. CASE VacuumStarts \/ VacuumEnds \/ FullStarts \/ FullEnds \/ ProbersStart \/ StopCalled \/ ProbersStop
    BY <1>0, <1>1, <1>14, Positions DEF VacuumStarts, VacuumEnds, FullStarts, FullEnds, FullHeld, ProbersStart,
       StopCalled, ProbersStop, Stopping
  <1>15. ASSUME NEW p \in Probers, ProberSteps(p) PROVE FALSE
    BY <1>0, <1>1, <1>15, Positions DEF ProberSteps, ProbeStarts, ProbeCommits, ProberStops
  <1>16. CASE UNCHANGED vacVars
    BY <1>4, <1>16 DEF vacVars
  <1> QED
    BY <1>5, <1>6, <1>7, <1>8, <1>9, <1>10, <1>11, <1>12, <1>13, <1>14, <1>15, <1>16 DEF VacNext, StatementSteps

\* The readings of the invariant are what the scripts log.
LEMMA VacInvAccounts == VacInv /\ EarlyRunIsKnown => BloatAccounted
  <1> SUFFICES ASSUME VacInv, EarlyRunIsKnown PROVE BloatAccounted
    OBVIOUS
  <1>0. /\ VacTypeOK /\ Undisturbed /\ ProbersInTheirWindow /\ ReadInOrder /\ ReadingsTell
    BY DEF VacInv
  <1>w. /\ WindowWrites \in Nat /\ MaxWrites \in Nat /\ Bloat \in Nat
        /\ WindowWrites <= MaxWrites /\ MaxWrites < Bloat
    BY <1>0, WritesAreBounded
  <1>1. ReproduceBloat
    BY <1>0 DEF VacTypeOK, VacPosition, ReadInOrder, ReadingsTell, ReproduceBloat, Bloat
  <1>2. PlainVacuum
    BY <1>0 DEF VacTypeOK, VacPosition, ReadInOrder, ReadingsTell, PlainVacuum, MaxWrites
  <1>3. VacuumFull
    <2>1. ASSUME HasRead("shrunk")
          PROVE  /\ readings["shrunk"].size <= TableRows + MaxWrites
                 /\ readings["shrunk"].size < readings["vacuumed"].size
      <3>1. HasRead("vacuumed")
        BY <1>0, <2>1 DEF VacTypeOK, VacPosition, ReadInOrder
      <3> QED BY <1>0, <1>w, <2>1, <3>1, VacuumSizes DEF ReadingsTell
    <2> QED BY <2>1 DEF VacuumFull, MaxWrites
  <1>4. FullHeld => ~Writing /\ autovacuumWorker = "idle"
    BY <1>0, Positions DEF FullHeld, ProbersInTheirWindow, Undisturbed
  <1>5. HasRead("vacuumed") /\ (AtStatement("vacuumed") \/ AtStatement("shrunk") \/ VacDone) => ~Writing
    BY <1>0, Positions DEF ProbersInTheirWindow, Writing
  <1>6. AutovacuumRan
    <2>1. CASE vacScript = "autovacuum"
      BY <2>1 DEF EarlyRunIsKnown, PollTells
    <2>2. CASE vacScript # "autovacuum"
      BY <1>0, <2>2 DEF ReadInOrder, AutovacuumRan
    <2> QED BY <2>1, <2>2
  <1> QED BY <1>1, <1>2, <1>3, <1>4, <1>5, <1>6 DEF BloatAccounted

\* Bloat is exactly what the UPDATE passes left (create-bloat.ts), VACUUM keeps
\* the file and VACUUM FULL shrinks it, whatever the probers and autovacuum do
\* meanwhile (vacuum-vs-full.ts), and the run that the poll sees has taken the
\* dead versions unless it is the first since the seed (autovacuum-recovery.ts),
\* for every number of rows, passes and probers.
THEOREM BloatIsAccounted == VacSpec => []BloatAccounted
  <1>1. VacInit => VacInv /\ EarlyRunIsKnown
    BY VacInitInv DEF VacInit, EarlyRunIsKnown, OneEarlyRun, PollTells, AutovacuumRan, HasRead
  <1>2. VacInv /\ EarlyRunIsKnown /\ [VacNext]_vacVars => VacInv' /\ EarlyRunIsKnown'
    BY VacStepInv, EarlyRunStep
  <1>3. VacInv /\ EarlyRunIsKnown => BloatAccounted
    BY VacInvAccounts
  <1> QED BY <1>1, <1>2, <1>3, PTL DEF VacSpec
=============================================================================
