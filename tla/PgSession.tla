----------------------------- MODULE PgSession ------------------------------
(***************************************************************************)
(* PostgreSQL as the scenario scripts of the labs use it: raw client       *)
(* sessions that issue one statement at a time, each transaction at its    *)
(* isolation level, row and advisory locks with the waiting, the refusals  *)
(* (NOWAIT, lock_timeout, deadlock, serialization failure) and the         *)
(* snapshots that decide what a scenario observes.  The server is not part *)
(* of the repository: this module states what the scripts rely on.         *)
(*                                                                         *)
(* A script is a function from threads to sequences of steps.  "main" is   *)
(* the script itself; another thread is a promise the script starts        *)
(* without awaiting it, or one branch of a Promise.all, and runs           *)
(* concurrently with the rest until it is awaited.  sleep(ms) orders       *)
(* nothing: onTime remembers whether every sleep did outlast what the      *)
(* other threads could still do, which is all a script may hope for.       *)
(***************************************************************************)
EXTENDS Integers, Sequences, FiniteSets, SequencesExt, TLC

Sessions == {"A", "B", "C"}
Threads == {"main", "p", "q", "r"}
Rows == {"w", "x", "y", "z"}
Regs == {"a", "b", "c", "d", "e", "f"}

\* A row that does not exist, and a register nothing was read into.
Absent == -1
Unset == -2

\* SQLSTATEs the scripts tell apart, as numbers.
SerializationFailure == 40001
DeadlockDetected == 40101
LockNotAvailable == 55003
CheckViolation == 23514
UniqueViolation == 23505
\* Errors that are not the server's: the script throws, or its process dies.
ScriptError == 1
ProcessDied == 2

CONSTANT Scripts  \* name -> [rows: initial rows, code: thread -> steps, crash]

VARIABLES
    script, program,   \* the scenario this behaviour runs, and its text
    val, ver, \* the committed rows and how often each was committed
    tx,       \* per session: the open transaction
    locks,    \* granted locks
    queue,    \* threads waiting for a lock, in order
    past,     \* committed SERIALIZABLE transactions, in order
    pc, err,  \* per thread: next step (0: not started), last SQLSTATE
    reg,      \* the script's local variables
    onTime    \* no sleep ended while another thread could still move

sessionVars == <<script, program, val, ver, tx, locks, queue, past, pc, err, reg, onTime>>

(***************************************************************************)
(* Steps of a script.                                                      *)
(***************************************************************************)
Step(op, s) ==
    [op |-> op, s |-> s, row |-> "-", rows |-> {}, mode |-> "-", k |-> 0,
     was |-> 0, from |-> "-", into |-> "-", opt |-> "-", level |-> "RC",
     to |-> 0, catch |-> 0]

Begin(s, level) == [Step("begin", s) EXCEPT !.level = level]
Commit(s) == Step("commit", s)
Rollback(s) == Step("rollback", s)
Read(s, r, into) == [Step("read", s) EXCEPT !.row = r, !.into = into]
Count(s, rs, into) == [Step("count", s) EXCEPT !.rows = rs, !.into = into]
LockRow(s, r, mode, into) ==
    [Step("lock", s) EXCEPT !.row = r, !.mode = mode, !.into = into]
ForUpdate(s, r, into) == LockRow(s, r, "update", into)
Add(s, r, k) == [Step("add", s) EXCEPT !.row = r, !.mode = "nokey", !.k = k]
Set(s, r, k) == [Step("set", s) EXCEPT !.row = r, !.mode = "nokey", !.k = k]
\* UPDATE ... SET v = <variable from> + k
SetFrom(s, r, from, k) == [Set(s, r, k) EXCEPT !.from = from]
\* UPDATE ... SET v = k WHERE v = was; into gets the row count.
SetWhen(s, r, was, k, into) ==
    [Step("setif", s) EXCEPT !.row = r, !.mode = "nokey", !.was = was,
                             !.k = k, !.into = into]
\* UPDATE ... SET v = <from> + k WHERE v = <from>; into gets the row count.
SetIf(s, r, from, k, into) == [SetWhen(s, r, 0, k, into) EXCEPT !.from = from]
Insert(s, r, k) == [Step("insert", s) EXCEPT !.row = r, !.mode = "update", !.k = k]
\* INSERT ... ON CONFLICT DO NOTHING RETURNING; into gets the row count.
InsertOnce(s, r, k, into) == [Insert(s, r, k) EXCEPT !.opt = "ignore", !.into = into]
Keyed(step) == [step EXCEPT !.mode = "update"]       \* the UPDATE of a key column
NonNegative(step) == [step EXCEPT !.opt = "nonneg"]  \* a CHECK (v >= 0) column
Nowait(step) == [step EXCEPT !.opt = "nowait"]
WithTimeout(step) == [step EXCEPT !.opt = "timeout"]
\* try { step } catch: the handler is `skip` steps further on.
Catch(step, skip) == [step EXCEPT !.catch = skip]
Advisory(s, r) == [Step("lock", s) EXCEPT !.row = r, !.mode = "session"]
AdvisoryXact(s, r) == [Advisory(s, r) EXCEPT !.mode = "xact"]
TryAdvisory(s, r, into) == [Step("try", s) EXCEPT !.row = r, !.mode = "session", !.into = into]
TryAdvisoryXact(s, r, into) == [TryAdvisory(s, r, into) EXCEPT !.mode = "xact"]
AdvisoryUnlock(s, r, into) == [Step("unlock", s) EXCEPT !.row = r, !.into = into]
Disconnect(s) == Step("disconnect", s)
Start(t) == [Step("start", "A") EXCEPT !.into = t]
Await(t) == [Step("await", "A") EXCEPT !.from = t]
Sleep == Step("sleep", "A")
\* A sleep that is longer than the others: a transaction held open on purpose.
Hold == Step("hold", "A")
Let(into, k) == [Step("let", "A") EXCEPT !.into = into, !.k = k]
Copy(into, from) == [Let(into, 0) EXCEPT !.from = from]
Bump(into) == [Copy(into, into) EXCEPT !.k = 1]
\* Jumps, by a number of steps: when the variable is at most / at least k,
\* when the thread's last error has this SQLSTATE, always.
IfAtMost(r, k, skip) == [Step("atmost", "A") EXCEPT !.from = r, !.k = k, !.to = skip]
IfAtLeast(r, k, skip) == [Step("atleast", "A") EXCEPT !.from = r, !.k = k, !.to = skip]
IfError(code, skip) == [Step("iferror", "A") EXCEPT !.k = code, !.to = skip]
Skip(n) == [Step("goto", "A") EXCEPT !.to = n]
\* throw: nothing catches it, the thread ends with its error.
Raise == Step("raise", "A")
\* Do nothing until the variable reaches k.
Until(r, k) == [Step("until", "A") EXCEPT !.from = r, !.k = k]

\* A script of one thread, and one that runs others: Promise.all(threads).
AllAbsent == [r \in Rows |-> Absent]
Solo(rows, main) ==
    [rows |-> rows @@ AllAbsent, crash |-> FALSE,
     code |-> [t \in Threads |-> IF t = "main" THEN main ELSE <<>>]]
With(solo, t, steps) == [solo EXCEPT !.code[t] = steps]
PromiseAll == <<Start("p"), Start("q"), Await("p"), Await("q")>>
PromiseAll3 == <<Start("p"), Start("q"), Start("r"), Await("p"), Await("q"), Await("r")>>
Both(rows, main, p, q) == With(With(Solo(rows, main), "p", p), "q", q)
MayCrash(scr) == [scr EXCEPT !.crash = TRUE]

(***************************************************************************)
(* What a statement sees and what stops it.                                *)
(***************************************************************************)
Code(t) == program.code[t]
Running(t) == pc[t] \in 1..Len(Code(t))
Cur(t) == Code(t)[pc[t]]
NoTx == [open |-> FALSE, failed |-> FALSE, level |-> "RC", snap |-> <<>>,
         own |-> <<>>, reads |-> {}]

\* What was written over the rows there are, and one row more of it.
Over(own, rows) == [r \in Rows |-> IF r \in DOMAIN own THEN own[r] ELSE rows[r]]
WithRow(own, row, v) == [r \in DOMAIN own \cup {row} |-> IF r = row THEN v ELSE own[r]]

\* REPEATABLE READ and SERIALIZABLE fix their snapshot at the first statement.
WithSnapshot(t) ==
    IF t.level = "RC" \/ t.snap # <<>> THEN t
    ELSE [t EXCEPT !.snap = <<[val |-> val, ver |-> ver, at |-> Len(past)]>>]

Latest(s, r) == IF r \in DOMAIN tx[s].own THEN tx[s].own[r] ELSE val[r]
Visible(s, r) ==
    IF r \in DOMAIN tx[s].own \/ tx[s].snap = <<>> THEN Latest(s, r)
    ELSE tx[s].snap[1].val[r]

\* The row was committed by somebody else since this transaction's snapshot.
StaleWrite(s, r) ==
    /\ tx[s].snap # <<>>
    /\ r \notin DOMAIN tx[s].own
    /\ ver[r] # tx[s].snap[1].ver[r]

\* Serializable snapshot isolation: the transaction read what a concurrent,
\* already committed one wrote, and somebody concurrent read what it wrote.
IsPivot(s, own, reads) ==
    LET recent == (IF tx[s].snap = <<>> THEN Len(past) ELSE tx[s].snap[1].at) + 1 .. Len(past)
    IN  /\ tx[s].level = "SER"
        /\ \E i \in recent : past[i].writes \cap reads # {}
        /\ \/ \E i \in recent : past[i].reads \cap DOMAIN own # {}
           \/ \E o \in Sessions \ {s} : /\ tx[o].open /\ tx[o].level = "SER"
                                        /\ tx[o].reads \cap DOMAIN own # {}

\* The row-level lock conflicts of the PostgreSQL manual, advisory locks, and
\* the table-level modes of UPDATE, CREATE INDEX and ALTER TABLE.
Conflicts ==
    LET half == {<<"keyshare", "update">>, <<"share", "nokey">>, <<"share", "update">>,
                 <<"nokey", "nokey">>, <<"nokey", "update">>, <<"update", "update">>,
                 <<"session", "session">>, <<"session", "xact">>, <<"xact", "xact">>,
                 <<"table_rowexclusive", "table_share">>,
                 <<"table_rowexclusive", "table_accessexclusive">>,
                 <<"table_share", "table_accessexclusive">>,
                 <<"table_accessexclusive", "table_accessexclusive">>}
    IN  half \cup {<<p[2], p[1]>> : p \in half}

QueuedAt(t) == {i \in 1..Len(queue) : queue[i] = t}
Ahead(t) == IF QueuedAt(t) = {} THEN 1..Len(queue)
            ELSE {i \in 1..Len(queue) : \A j \in QueuedAt(t) : i < j}

\* The sessions a thread's current statement has to wait for: those that hold
\* the row in a conflicting mode and, unless its own session has it already,
\* those that queued for it before.
Blockers(t) ==
    LET step == Cur(t)
        clash(m) == <<m, step.mode>> \in Conflicts
        owner == \E l \in locks : l.row = step.row /\ l.s = step.s
    IN  {l.s : l \in {l \in locks : l.row = step.row /\ l.s # step.s /\ clash(l.mode)}}
        \cup {Cur(queue[i]).s : i \in {i \in Ahead(t) : /\ Cur(queue[i]).row = step.row
                                                        /\ Cur(queue[i]).s # step.s
                                                        /\ clash(Cur(queue[i]).mode) /\ ~owner}}

Waiting(t) == QueuedAt(t) # {}
Dequeued(t) == IF Waiting(t) THEN RemoveAt(queue, CHOOSE i \in QueuedAt(t) : TRUE) ELSE queue
Halted(t) == pc[t] = 0 \/ ~Running(t) \/ Waiting(t)

(***************************************************************************)
(* A statement that returns, and one that is refused.                      *)
(***************************************************************************)
Go(t, to) == pc' = [pc EXCEPT ![t] = to]
Assign(x, v) == reg' = IF x \in Regs THEN [reg EXCEPT ![x] = v] ELSE reg

Return(t, res, own, reads) ==
    LET s == Cur(t).s
        took == IF Cur(t).mode = "-" \/ (Cur(t).op \in {"setif", "insert"} /\ res = 0) THEN {}
                ELSE {[row |-> Cur(t).row, mode |-> Cur(t).mode, s |-> s]}
        now == [WithSnapshot(tx[s]) EXCEPT !.own = own, !.reads = @ \cup reads]
    IN  /\ IF tx[s].open
           THEN /\ tx' = [tx EXCEPT ![s] = now] /\ locks' = locks \cup took
                /\ UNCHANGED <<val, ver>>
           ELSE /\ val' = Over(own, val)
                /\ ver' = [r \in Rows |-> ver[r] + (IF r \in DOMAIN own THEN 1 ELSE 0)]
                /\ locks' = locks \cup {l \in took : l.mode = "session"}
                /\ UNCHANGED tx
        /\ Assign(Cur(t).into, res)
        /\ Go(t, pc[t] + 1)
        /\ queue' = Dequeued(t)
        /\ err' = [err EXCEPT ![t] = 0]
        /\ UNCHANGED <<script, program, past, onTime>>

\* The statement throws: the transaction is aborted, and the thread goes on
\* in its catch block, or ends and closes its client (finally).
Throw(t, code) ==
    LET s == Cur(t).s
        caught == Cur(t).catch # 0
    IN  /\ tx' = [tx EXCEPT ![s] = IF ~caught THEN NoTx ELSE IF @.open THEN [@ EXCEPT !.failed = TRUE] ELSE @]
        /\ locks' = IF caught THEN locks ELSE {l \in locks : l.s # s}
        /\ Go(t, IF caught THEN pc[t] + Cur(t).catch ELSE Len(Code(t)) + 1)
        /\ err' = [err EXCEPT ![t] = code]
        /\ queue' = Dequeued(t)
        /\ UNCHANGED <<script, program, val, ver, past, reg, onTime>>

At(t, ops) == Running(t) /\ Cur(t).op \in ops

\* Locks of the session that end with its transaction.
XactLocks(s) == {l \in locks : l.s = s /\ l.mode # "session"}
EndTx(s) == tx' = [tx EXCEPT ![s] = NoTx] /\ locks' = locks \ XactLocks(s)

(***************************************************************************)
(* The statements.                                                         *)
(***************************************************************************)
BeginTx(t) ==
    /\ At(t, {"begin"})
    /\ tx' = [tx EXCEPT ![Cur(t).s] = [NoTx EXCEPT !.open = TRUE, !.level = Cur(t).level]]
    /\ Go(t, pc[t] + 1)
    /\ UNCHANGED <<script, program, val, ver, locks, queue, past, err, reg, onTime>>

Select(t) ==
    /\ At(t, {"read", "count"})
    /\ LET s == Cur(t).s
           seen == {r \in Cur(t).rows : Visible(s, r) = 1}
       IN  IF Cur(t).op = "read"
           THEN Return(t, Visible(s, Cur(t).row), tx[s].own, {Cur(t).row})
           ELSE Return(t, Cardinality(seen), tx[s].own, Cur(t).rows)

\* SELECT ... FOR UPDATE / SHARE / KEY SHARE, pg_advisory_lock.
SelectForLock(t) ==
    /\ At(t, {"lock"}) /\ Blockers(t) = {}
    /\ LET s == Cur(t).s
           r == Cur(t).row
       IN  IF r \in Rows /\ StaleWrite(s, r)
           THEN Throw(t, SerializationFailure)
           ELSE Return(t, IF r \in Rows THEN Latest(s, r) ELSE 1, tx[s].own,
                       {r} \cap Rows)

\* UPDATE and INSERT, once the row is free.
Written(t) ==
    LET step == Cur(t)
        old == Latest(step.s, step.row)
    IN  CASE step.op = "add" -> old + step.k
          [] step.op = "set" /\ step.from = "-" -> step.k
          [] step.op = "set" /\ step.from # "-" -> reg[step.from] + step.k
          [] step.op = "setif" /\ step.from # "-" -> reg[step.from] + step.k
          [] step.op = "setif" /\ step.from = "-" -> step.k
          [] step.op = "insert" -> step.k
Matches(t, old) ==
    LET step == Cur(t)
    IN  CASE step.op \in {"add", "set"} -> old # Absent
          [] step.op = "setif" -> old = (IF step.from = "-" THEN step.was ELSE reg[step.from])
          [] step.op = "insert" -> old = Absent
\* A conditional UPDATE does not wait for a row its snapshot rules out.
RuledOut(t) == Cur(t).op = "setif" /\ ~Waiting(t) /\ ~Matches(t, Visible(Cur(t).s, Cur(t).row))
Write(t) ==
    /\ At(t, {"add", "set", "setif", "insert"})
    /\ Blockers(t) = {} \/ RuledOut(t)
    /\ LET step == Cur(t)
           s == step.s
           own == WithRow(tx[s].own, step.row, Written(t))
           reads == tx[s].reads \cup {step.row}
       IN  IF StaleWrite(s, step.row) /\ ~RuledOut(t) THEN Throw(t, SerializationFailure)
           ELSE IF RuledOut(t) \/ ~Matches(t, Latest(s, step.row))
           THEN IF step.op = "insert" /\ step.opt # "ignore"
                THEN Throw(t, UniqueViolation)
                ELSE Return(t, 0, tx[s].own, {step.row})
           ELSE IF step.opt = "nonneg" /\ Written(t) < 0 THEN Throw(t, CheckViolation)
           ELSE IF IsPivot(s, own, reads) THEN Throw(t, SerializationFailure)
           ELSE Return(t, 1, own, {step.row})

\* The statement finds its row locked and queues.
Wait(t) ==
    /\ Running(t) /\ ~Waiting(t)
    /\ Cur(t).op \in {"lock", "add", "set", "setif", "insert"}
    /\ Blockers(t) # {} /\ Cur(t).opt # "nowait" /\ ~RuledOut(t)
    /\ queue' = Append(queue, t)
    /\ tx' = [tx EXCEPT ![Cur(t).s] = IF @.open THEN WithSnapshot(@) ELSE @]
    /\ UNCHANGED <<script, program, val, ver, locks, past, pc, err, reg, onTime>>

\* NOWAIT, or lock_timeout before the lock is granted.
Refuse(t) ==
    /\ Running(t) /\ Cur(t).op = "lock" /\ Blockers(t) # {}
    /\ \/ Cur(t).opt = "nowait"
       \/ Waiting(t) /\ Cur(t).opt = "timeout"
    /\ Throw(t, LockNotAvailable)

\* pg_try_advisory_lock never waits: it answers.
TryLock(t) ==
    /\ At(t, {"try"})
    /\ IF Blockers(t) = {}
       THEN Return(t, 1, tx[Cur(t).s].own, {})
       ELSE /\ Assign(Cur(t).into, 0) /\ Go(t, pc[t] + 1)
            /\ UNCHANGED <<script, program, val, ver, tx, locks, queue, past, err, onTime>>
Unlock(t) ==
    /\ At(t, {"unlock"})
    /\ LET held == {l \in locks : l.s = Cur(t).s /\ l.row = Cur(t).row /\ l.mode = "session"}
       IN  Assign(Cur(t).into, Cardinality(held)) /\ locks' = locks \ held
    /\ Go(t, pc[t] + 1)
    /\ UNCHANGED <<script, program, val, ver, tx, queue, past, err, onTime>>

\* Two sessions wait for each other: the server aborts either one.
MutualWait(t) ==
    /\ Waiting(t)
    /\ \E u \in Threads : /\ Waiting(u) /\ Cur(u).s \in Blockers(t)
                          /\ Cur(t).s \in Blockers(u)
DeadlockVictim(t) == MutualWait(t) /\ Throw(t, DeadlockDetected)

CommitTx(t) ==
    /\ At(t, {"commit"})
    /\ LET s == Cur(t).s
       IN  IF ~tx[s].failed /\ IsPivot(s, tx[s].own, tx[s].reads)
           THEN Throw(t, SerializationFailure)
           ELSE /\ val' = IF tx[s].failed THEN val ELSE Over(tx[s].own, val)
                /\ ver' = IF tx[s].failed THEN ver
                          ELSE [r \in Rows |-> ver[r] + (IF r \in DOMAIN tx[s].own THEN 1 ELSE 0)]
                /\ past' = IF tx[s].level = "SER" /\ ~tx[s].failed
                           THEN Append(past, [reads |-> tx[s].reads, writes |-> DOMAIN tx[s].own])
                           ELSE past
                /\ EndTx(s) /\ Go(t, pc[t] + 1)
                /\ UNCHANGED <<script, program, queue, err, reg, onTime>>
RollbackTx(t) ==
    /\ At(t, {"rollback"})
    /\ EndTx(Cur(t).s) /\ Go(t, pc[t] + 1)
    /\ UNCHANGED <<script, program, val, ver, queue, past, err, reg, onTime>>

\* The server notices that the client is gone: everything it held is freed.
DropSession(t) ==
    /\ At(t, {"disconnect"})
    /\ tx' = [tx EXCEPT ![Cur(t).s] = NoTx]
    /\ locks' = {l \in locks : l.s # Cur(t).s}
    /\ Go(t, pc[t] + 1)
    /\ UNCHANGED <<script, program, val, ver, queue, past, err, reg, onTime>>

(***************************************************************************)
(* The script's own control flow.                                          *)
(***************************************************************************)
controlVars == <<script, program, val, ver, tx, locks, queue, past>>
StartThread(t) ==
    /\ At(t, {"start"}) /\ pc[Cur(t).into] = 0
    /\ pc' = [u \in Threads |-> IF u = Cur(t).into THEN 1 ELSE IF u = t THEN pc[u] + 1 ELSE pc[u]]
    /\ UNCHANGED <<controlVars, err, reg, onTime>>
AwaitThread(t) ==
    /\ At(t, {"await"})
    /\ pc[Cur(t).from] > 0 /\ ~Running(Cur(t).from)
    /\ Go(t, pc[t] + 1)
    /\ UNCHANGED <<controlVars, err, reg, onTime>>
AwaitValue(t) ==
    /\ At(t, {"until"}) /\ reg[Cur(t).from] >= Cur(t).k
    /\ Go(t, pc[t] + 1)
    /\ UNCHANGED <<controlVars, err, reg, onTime>>
SleepEnds(t) ==
    /\ At(t, {"sleep", "hold"})
    /\ Go(t, pc[t] + 1)
    /\ onTime' = (onTime /\ \A u \in Threads \ {t} :
                     IF Cur(t).op = "sleep" THEN Halted(u) \/ At(u, {"hold"})
                     ELSE Halted(u) /\ ~(Waiting(u) /\ Cur(u).opt = "timeout"))
    /\ UNCHANGED <<controlVars, err, reg>>
SetVariable(t) ==
    /\ At(t, {"let"})
    /\ Go(t, pc[t] + 1)
    /\ Assign(Cur(t).into, Cur(t).k + (IF Cur(t).from = "-" THEN 0 ELSE reg[Cur(t).from]))
    /\ UNCHANGED <<controlVars, err, onTime>>
\* if, goto and throw; a thread that throws is over.
Branch(t) ==
    /\ At(t, {"goto", "atmost", "atleast", "iferror", "raise"})
    /\ LET step == Cur(t)
           taken == CASE step.op \in {"goto", "raise"} -> TRUE
                      [] step.op = "atmost" -> reg[step.from] <= step.k
                      [] step.op = "atleast" -> reg[step.from] >= step.k
                      [] step.op = "iferror" -> err[t] = step.k
           raised == step.op = "raise"
       IN  /\ Go(t, IF raised THEN Len(Code(t)) + 1 ELSE pc[t] + (IF taken THEN step.to ELSE 1))
           /\ err' = [err EXCEPT ![t] = IF raised /\ @ = 0 THEN ScriptError ELSE @]
    /\ UNCHANGED <<controlVars, reg, onTime>>

Ended == \A t \in Threads : pc[t] = 0 \/ ~Running(t)

\* The client process dies: its connections close, open transactions roll
\* back, nothing that was not committed survives.
ProcessDies ==
    /\ program.crash /\ ~Ended
    /\ pc' = [t \in Threads |-> Len(Code(t)) + 1]
    /\ err' = [t \in Threads |-> ProcessDied]
    /\ tx' = [s \in Sessions |-> NoTx]
    /\ locks' = {} /\ queue' = <<>>
    /\ UNCHANGED <<script, program, val, ver, past, reg, onTime>>

\* How a scenario is written: rows have values, every statement is one of a
\* session, what reads takes no lock, what writes takes that of its row.
IsStatement(step) ==
    /\ step.s \in Sessions /\ step.level \in {"RC", "RR", "SER"}
    /\ {step.k, step.was, step.to, step.catch} \subseteq Int
    /\ step.from \in Regs \cup Threads \cup {"-"} /\ step.into \in Regs \cup Threads \cup {"-"}
    /\ step.op \in {"read", "count"} => step.rows \subseteq Rows /\ step.mode = "-"
    /\ step.op \in {"add", "set", "setif", "insert"} => step.mode \in {"nokey", "update"}
    /\ step.op \in {"read", "add", "set", "setif", "insert"} => step.row \in Rows
    /\ step.op \in {"set", "setif"} => step.from \in Regs \cup {"-"}
    /\ step.op \in {"let", "atmost", "atleast", "until"} => step.from \in Regs \cup {"-"}
    /\ step.op = "start" => step.into \in Threads
    /\ step.op = "await" => step.from \in Threads

ASSUME ScriptsAreStatements ==
    \A name \in DOMAIN Scripts :
        /\ Scripts[name].rows \in [Rows -> Int] /\ Scripts[name].crash \in BOOLEAN
        /\ \A t \in Threads : /\ Len(Scripts[name].code[t]) \in Nat
                              /\ \A i \in 1..Len(Scripts[name].code[t]) : IsStatement(Scripts[name].code[t][i])

SessionInit ==
    /\ script \in DOMAIN Scripts
    /\ program = Scripts[script] /\ val = program.rows
    /\ ver = [r \in Rows |-> 0]
    /\ tx = [s \in Sessions |-> NoTx]
    /\ locks = {} /\ queue = <<>> /\ past = <<>>
    /\ pc = [t \in Threads |-> IF t = "main" THEN 1 ELSE 0]
    /\ err = [t \in Threads |-> 0]
    /\ reg = [r \in Regs |-> Unset]
    /\ onTime = TRUE

ThreadStep(t) ==
    \/ BeginTx(t) \/ Select(t) \/ SelectForLock(t) \/ Write(t) \/ Wait(t)
    \/ Refuse(t) \/ TryLock(t) \/ Unlock(t) \/ DeadlockVictim(t)
    \/ CommitTx(t) \/ RollbackTx(t) \/ DropSession(t)
    \/ StartThread(t) \/ AwaitThread(t) \/ AwaitValue(t) \/ SleepEnds(t)
    \/ SetVariable(t) \/ Branch(t)

SessionNext == ProcessDies \/ \E t \in Threads : ThreadStep(t)
SessionSpec == SessionInit /\ [][SessionNext]_sessionVars
\* Every statement is answered and every promise goes on: the server and the
\* event loop do not stop serving a thread that can move.
SessionFairness == \A t \in Threads : WF_sessionVars(ThreadStep(t))

\* The script ran to its end without its process dying.
Finished == Ended /\ \A t \in Threads : err[t] # ProcessDied
=============================================================================
