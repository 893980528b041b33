------------------------------ MODULE JobQueue ------------------------------
(***************************************************************************)
(* The job queue of lab 14 (src/queue/claim.ts, worker.ts): workers claim  *)
(* jobs with SELECT ... FOR UPDATE SKIP LOCKED, hold them under a lease,   *)
(* and report with completeJob or failJob.                                 *)
(*                                                                         *)
(* The claim is one transaction whose row lock is visible to the others    *)
(* between its SELECT and its COMMIT, so it takes two steps.  completeJob  *)
(* and failJob lock the job row with their first statement and touch that  *)
(* row and one attempt row: one step each.                                 *)
(*                                                                         *)
(* locked_until is only ever compared with now(): lapsed holds the leases  *)
(* whose time has passed, and a lease may lapse whenever it is held.  A    *)
(* row of job_attempts is named by its job and attempt_number.             *)
(***************************************************************************)
EXTENDS Naturals, Sequences, FiniteSets

CONSTANTS Workers,
          Jobs,
          NoWorker, NoJob,
          MaxAttempts,  \* jobs.max_attempts
          MaxClaims     \* bound: leases from this attempt on do not lapse, and
                        \* workers that hold them do not crash

ASSUME QueueAssumption == /\ NoWorker \notin Workers
                          /\ NoJob \notin Jobs
                          /\ MaxAttempts \in Nat \ {0}
                          /\ MaxClaims \in Nat
ASSUME SomeWorker == Workers # {}

VARIABLES jobs,         \* committed rows of jobs
          jobAttempts,  \* jobAttempts[j][n]: status of attempt n of job j
          lapsed,       \* <<j, n>>: the lease of attempt n is in the past
          worker        \* position of each worker in runWorkerUntilEmpty

queueVars == <<jobs, jobAttempts, lapsed, worker>>

JobStatus == {"pending", "processing", "completed", "failed"}
AttemptStatus == {"claimed", "completed", "failed", "expired"}

QueueInit ==
    /\ jobs = [j \in Jobs |-> [status |-> "pending", attempts |-> 0, locked_by |-> NoWorker]]
    /\ jobAttempts = [j \in Jobs |-> <<>>]
    /\ lapsed = {}
    /\ worker = [w \in Workers |-> [pc |-> "idle", job |-> NoJob, attempt |-> 0]]

\* Mutants of the claim query: no lease-expiry branch; no row locks.
MutClaimable(j) == jobs[j].status = "pending"
MutRowLocked(j) == FALSE

\* The WHERE clause of the claim query.
Claimable(j) == \/ jobs[j].status = "pending"
                \/ jobs[j].status = "processing" /\ <<j, jobs[j].attempts>> \in lapsed

\* Rows locked by an open claim transaction: SKIP LOCKED passes over them.
RowLocked(j) == \E w \in Workers : worker[w].pc = "claiming" /\ worker[w].job = j

\* The worker goes on without a job in hand.
Goto(w, p) == worker' = [worker EXCEPT ![w] = [pc |-> p, job |-> NoJob, attempt |-> 0]]

\* SELECT ... FOR UPDATE SKIP LOCKED LIMIT 1.  created_at is the same for all
\* jobs of a batch, so ORDER BY created_at does not decide between them.
ClaimSelect(w, j) ==
    /\ worker[w].pc = "idle"
    /\ Claimable(j) /\ ~RowLocked(j)
    /\ worker' = [worker EXCEPT ![w] = [@ EXCEPT !.pc = "claiming", !.job = j]]
    /\ UNCHANGED <<jobs, jobAttempts, lapsed>>

\* No candidate: the worker's loop ends.
ClaimEmpty(w) ==
    /\ worker[w].pc = "idle"
    /\ \A j \in Jobs : Claimable(j) => RowLocked(j)
    /\ Goto(w, "done")
    /\ UNCHANGED <<jobs, jobAttempts, lapsed>>

\* Mutant: completeJob leaves locked_by as it is.
MutCompleteKeepsOwner(w) ==
    LET j == worker[w].job IN
    /\ worker[w].pc = "processing" /\ ~RowLocked(j)
    /\ jobs' = [jobs EXCEPT ![j].status = "completed"]
    /\ jobAttempts' = [jobAttempts EXCEPT ![j][worker[w].attempt] = "completed"]
    /\ \/ Goto(w, "idle")
       \/ worker' = [worker EXCEPT ![w].pc = "failing"]
    /\ UNCHANGED lapsed

\* The UPDATE, the expiry of a reclaimed job's open attempt rows, the new
\* attempt row, COMMIT.
ClaimCommit(w) ==
    LET j == worker[w].job
        n == jobs[j].attempts + 1
        Expire(s) == IF jobs[j].status = "processing" /\ s = "claimed" THEN "expired" ELSE s
        old == jobAttempts[j]
    IN  /\ worker[w].pc = "claiming"
        /\ jobs' = [jobs EXCEPT ![j] = [@ EXCEPT !.status = "processing",
                                                 !.locked_by = w,
                                                 !.attempts = n]]
        /\ jobAttempts' = [jobAttempts EXCEPT ![j] =
                              Append([k \in DOMAIN old |-> Expire(old[k])], "claimed")]
        /\ worker' = [worker EXCEPT ![w] = [@ EXCEPT !.pc = "processing",
                                                     !.attempt = n]]
        /\ UNCHANGED lapsed

\* process() returned; completeJob updates by id alone.  If its COMMIT got
\* through but the response did not, the worker's catch block calls failJob.
CompleteJob(w) ==
    LET j == worker[w].job IN
    /\ worker[w].pc = "processing" /\ ~RowLocked(j)
    /\ jobs' = [jobs EXCEPT ![j] = [@ EXCEPT !.status = "completed",
                                             !.locked_by = NoWorker]]
    /\ jobAttempts' = [jobAttempts EXCEPT ![j][worker[w].attempt] = "completed"]
    /\ \/ Goto(w, "idle")
       \/ worker' = [worker EXCEPT ![w].pc = "failing"]
    /\ UNCHANGED lapsed

\* process() threw, or completeJob did: failJob updates by id alone too.
FailJob(w) ==
    LET j == worker[w].job IN
    /\ worker[w].pc \in {"processing", "failing"} /\ ~RowLocked(j)
    /\ jobs' = [jobs EXCEPT ![j] =
           [@ EXCEPT !.status = IF jobs[j].attempts >= MaxAttempts THEN "failed" ELSE "pending",
                     !.locked_by = NoWorker]]
    /\ jobAttempts' = [jobAttempts EXCEPT ![j][worker[w].attempt] = "failed"]
    /\ Goto(w, "idle")
    /\ UNCHANGED lapsed

\* now() passes the locked_until that attempt n wrote.
LeaseLapses(j, n) ==
    /\ n < MaxClaims
    /\ <<j, n>> \notin lapsed
    /\ \/ jobs[j].status = "processing" /\ jobs[j].attempts = n
       \/ \E w \in Workers : worker[w].job = j /\ worker[w].attempt = n
    /\ lapsed' = lapsed \cup {<<j, n>>}
    /\ UNCHANGED <<jobs, jobAttempts, worker>>

\* The process dies, or a claim or a report throws out of the loop: an open
\* transaction rolls back, a committed claim stays behind.
Crash(w) ==
    /\ worker[w].pc \in {"claiming", "processing", "failing"}
    /\ worker[w].attempt < MaxClaims
    /\ Goto(w, "crashed")
    /\ UNCHANGED <<jobs, jobAttempts, lapsed>>

\* The worker is started again: a new run of runWorkerUntilEmpty.
Start(w) ==
    /\ worker[w].pc \in {"done", "crashed"}
    /\ Goto(w, "idle")
    /\ UNCHANGED <<jobs, jobAttempts, lapsed>>

Step(w) == \/ \E j \in Jobs : ClaimSelect(w, j)
           \/ ClaimEmpty(w) \/ ClaimCommit(w) \/ CompleteJob(w) \/ FailJob(w)

LapseOf(j) == \E n \in 1 .. jobs[j].attempts : LeaseLapses(j, n)

QueueNext == \/ \E w \in Workers : Step(w) \/ Crash(w) \/ Start(w)
             \/ \E j \in Jobs : LapseOf(j)

QueueSpec == QueueInit /\ [][QueueNext]_queueVars

-----------------------------------------------------------------------------
\* Types; the attempt rows of a job are numbered without gaps, and a worker
\* past its claim has a job and one of the job's attempt rows.
QueueTypeOK ==
    /\ jobs \in [Jobs -> [status : JobStatus, attempts : Nat,
                          locked_by : Workers \cup {NoWorker}]]
    /\ jobAttempts \in [Jobs -> Seq(AttemptStatus)]
    /\ \A j \in Jobs : Len(jobAttempts[j]) = jobs[j].attempts
    /\ lapsed \subseteq Jobs \X Nat
    /\ worker \in [Workers -> [pc : {"idle", "claiming", "processing", "failing",
                                     "done", "crashed"},
                               job : Jobs \cup {NoJob}, attempt : Nat]]
    /\ \A w \in Workers :
          /\ worker[w].pc \in {"claiming", "processing", "failing"} => worker[w].job \in Jobs
          /\ worker[w].pc \in {"processing", "failing"} =>
                worker[w].attempt \in 1 .. jobs[worker[w].job].attempts

\* A claim that commits takes a job away from nobody whose lease still runs:
\* what the SELECT saw is still true when the transaction ends.
ClaimsRespectLease ==
    [][\A j \in Jobs :
          jobs'[j].attempts # jobs[j].attempts /\ jobs[j].status # "pending"
             => jobs[j].status = "processing" /\ <<j, jobs[j].attempts>> \in lapsed]_queueVars

\* A job is owned exactly while it is processing, also after late reports of
\* workers that lost their lease.
OwnedIffProcessing ==
    \A j \in Jobs : jobs[j].locked_by # NoWorker <=> jobs[j].status = "processing"

\* A job on the way to its next claim has attempts left: bounded retries,
\* also when late reports and reclaims overlap.
PendingBelowMax ==
    \A j \in Jobs : jobs[j].status = "pending" => jobs[j].attempts < MaxAttempts

\* When every worker's loop has ended by itself, no job is left pending: a
\* worker that leaves because the last rows were locked by others, or put back
\* afterwards, always leaves somebody who will look again.
DrainedWhenDone ==
    (\A w \in Workers : worker[w].pc = "done") =>
        \A j \in Jobs : jobs[j].status # "pending"

\* The queue as its tables and its workers show it.
QueueSafe == OwnedIffProcessing /\ PendingBelowMax /\ DrainedWhenDone

\* Crashed and slow workers included, no job is left unfinished.
JobsEnded == \A j \in Jobs : jobs[j].status \in {"completed", "failed"}

\* README "Production notes" 1: two workers can never both hold an active
\* claim, within its lease, on the same job.
ExclusiveWithinLease ==
    \A v, w \in Workers :
        /\ worker[v].pc = "processing" /\ worker[w].pc = "processing"
        /\ worker[v].job = worker[w].job
        /\ <<worker[v].job, worker[v].attempt>> \notin lapsed
        /\ <<worker[w].job, worker[w].attempt>> \notin lapsed
        => v = w

=============================================================================
