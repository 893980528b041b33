---------------------------- MODULE BoundedQueue ----------------------------
(***************************************************************************)
(* The bounded, Postgres-backed queue of lab 36 (bounded-queue.ts).  The   *)
(* one row of queue_state counts the unfinished jobs beside the jobs table *)
(* that holds them; enqueue() and completeJob() change both in one         *)
(* transaction and meet at the row lock of the counter.                    *)
(*                                                                         *)
(* A submission is one concurrent call of enqueue(); the job it inserts is *)
(* named after it.  Every transaction may fail at any statement and is     *)
(* then rolled back, and the answer to a COMMIT may be lost: enqueue()     *)
(* throws to its caller, and a throw inside runBoundedQueueWorker ends the *)
(* worker.  submitted_at is the start of a transaction, which says nothing *)
(* about the order of the commits: a claim takes any unlocked pending job. *)
(***************************************************************************)
EXTENDS Integers, FiniteSets

CONSTANTS Submissions,    \* concurrent calls of enqueue(), and their jobs
          QueueWorkers,   \* calls of runBoundedQueueWorker
          QueueCapacity,  \* queue_state.capacity
          Nobody          \* no client, no job

\* Calls and workers are different transactions, and there are finitely many.
ASSUME BoundedAssumption ==
    /\ IsFiniteSet(Submissions) /\ QueueCapacity \in Nat
    /\ Submissions \cap QueueWorkers = {}
    /\ Nobody \notin Submissions /\ Nobody \notin QueueWorkers

VARIABLES job,           \* jobs.status, "none" where there is no row
          pendingCount,  \* queue_state.pending_count, as committed
          countLock,     \* whose transaction holds the row of queue_state
          submission,    \* where each enqueue() is
          worker,        \* where each worker is
          work,          \* the job each worker has claimed, or died with
          stopWorker     \* shouldStop()

boundedVars ==
    <<job, pendingCount, countLock, submission, worker, work, stopWorker>>

BoundedInit ==
    /\ job = [s \in Submissions |-> "none"]
    /\ pendingCount = 0
    /\ countLock = Nobody
    /\ submission = [s \in Submissions |-> "called"]
    /\ worker = [w \in QueueWorkers |-> "polling"]
    /\ work = [w \in QueueWorkers |-> Nobody]
    /\ stopWorker = FALSE

Unlock(client) == IF countLock = client THEN Nobody ELSE countLock

\* Mutant: the capacity is tested by a SELECT before the UPDATE, without the
\* row lock.
MutCountWithoutLock(s) ==
    /\ submission[s] = "called"
    /\ pendingCount < QueueCapacity
    /\ submission' = [submission EXCEPT ![s] = "counted"]
    /\ UNCHANGED <<job, pendingCount, countLock, worker, work, stopWorker>>

\* UPDATE queue_state ... WHERE pending_count < capacity finds the row: it
\* waits for the row's lock and tests the condition on the version it gets.
Count(s) ==
    /\ submission[s] = "called"
    /\ countLock = Nobody
    /\ pendingCount < QueueCapacity
    /\ countLock' = s
    /\ submission' = [submission EXCEPT ![s] = "counted"]
    /\ UNCHANGED <<job, pendingCount, worker, work, stopWorker>>

\* The UPDATE matches no row: the queue is full.
RejectFull(s) ==
    /\ submission[s] = "called"
    /\ pendingCount >= QueueCapacity
    /\ submission' = [submission EXCEPT ![s] = "rejected"]
    /\ UNCHANGED <<job, pendingCount, countLock, worker, work, stopWorker>>

InsertJob(s) ==
    /\ submission[s] = "counted"
    /\ submission' = [submission EXCEPT ![s] = "inserted"]
    /\ UNCHANGED <<job, pendingCount, countLock, worker, work, stopWorker>>

\* The COMMIT of enqueue(), whose answer may be lost.
CommitEnqueue(s, answered) ==
    /\ submission[s] = "inserted"
    /\ job' = [job EXCEPT ![s] = "pending"]
    /\ pendingCount' = pendingCount + 1
    /\ countLock' = Unlock(s)
    /\ submission' = [submission EXCEPT ![s] = IF answered THEN "accepted" ELSE "failed"]
    /\ UNCHANGED <<worker, work, stopWorker>>

\* A statement of enqueue() fails, or its process dies: ROLLBACK.
EnqueueFails(s) ==
    /\ submission[s] \in {"called", "counted", "inserted"}
    /\ countLock' = Unlock(s)
    /\ submission' = [submission EXCEPT ![s] = "failed"]
    /\ UNCHANGED <<job, pendingCount, worker, work, stopWorker>>

\* The jobs a claim finds: FOR UPDATE SKIP LOCKED passes over those that
\* another claim has selected.
Claimable ==
    {j \in Submissions : /\ job[j] = "pending"
                         /\ \A w \in QueueWorkers : worker[w] = "selected" => work[w] # j}

SelectJob(w, j) ==
    /\ worker[w] = "polling"
    /\ j \in Claimable
    /\ worker' = [worker EXCEPT ![w] = "selected"]
    /\ work' = [work EXCEPT ![w] = j]
    /\ UNCHANGED <<job, pendingCount, countLock, submission, stopWorker>>

\* Mutant: a worker returns when there is nothing to claim, asked to or not.
MutReturnWhenEmpty(w) ==
    /\ worker[w] = "polling"
    /\ Claimable = {}
    /\ worker' = [worker EXCEPT ![w] = "returned"]
    /\ UNCHANGED <<job, pendingCount, countLock, submission, work, stopWorker>>

\* An empty claim: the worker returns if it was asked to stop (otherwise it
\* sleeps and polls again).
ReturnWhenEmpty(w) ==
    /\ worker[w] = "polling"
    /\ Claimable = {}
    /\ stopWorker
    /\ worker' = [worker EXCEPT ![w] = "returned"]
    /\ UNCHANGED <<job, pendingCount, countLock, submission, work, stopWorker>>

\* The UPDATE and the COMMIT of claimOneJob().
CommitClaim(w, answered) ==
    /\ worker[w] = "selected"
    /\ job' = [job EXCEPT ![work[w]] = "processing"]
    /\ worker' = [worker EXCEPT ![w] = IF answered THEN "claimed" ELSE "dead"]
    /\ UNCHANGED <<pendingCount, countLock, submission, work, stopWorker>>

\* completeJob(): the job's row first, then the counter's, then COMMIT.
MarkCompleted(w) ==
    /\ worker[w] = "claimed"
    /\ worker' = [worker EXCEPT ![w] = "marked"]
    /\ UNCHANGED <<job, pendingCount, countLock, submission, work, stopWorker>>

Discount(w) ==
    /\ worker[w] = "marked"
    /\ countLock = Nobody
    /\ countLock' = w
    /\ worker' = [worker EXCEPT ![w] = "discounted"]
    /\ UNCHANGED <<job, pendingCount, submission, work, stopWorker>>

CommitComplete(w, answered) ==
    /\ worker[w] = "discounted"
    /\ job' = [job EXCEPT ![work[w]] = "completed"]
    /\ pendingCount' = IF pendingCount > 0 THEN pendingCount - 1 ELSE 0
    /\ countLock' = Unlock(w)
    /\ worker' = [worker EXCEPT ![w] = IF answered THEN "polling" ELSE "dead"]
    /\ work' = [work EXCEPT ![w] = IF answered THEN Nobody ELSE @]
    /\ UNCHANGED <<submission, stopWorker>>

\* A statement fails and the worker's loop throws, or the process dies: an
\* open transaction is rolled back, and nobody looks after the job.
WorkerFails(w) ==
    /\ worker[w] \notin {"returned", "dead"}
    /\ countLock' = Unlock(w)
    /\ worker' = [worker EXCEPT ![w] = "dead"]
    /\ UNCHANGED <<job, pendingCount, submission, work, stopWorker>>

\* The producers are through: the script sets stopWorker.
RequestStop ==
    /\ ~stopWorker
    /\ \A s \in Submissions : submission[s] \in {"accepted", "rejected", "failed"}
    /\ stopWorker' = TRUE
    /\ UNCHANGED <<job, pendingCount, countLock, submission, worker, work>>

Enqueue(s) == \/ Count(s) \/ RejectFull(s) \/ InsertJob(s)
              \/ \E answered \in BOOLEAN : CommitEnqueue(s, answered)

Work(w) == \/ \E j \in Submissions : SelectJob(w, j)
           \/ ReturnWhenEmpty(w) \/ MarkCompleted(w) \/ Discount(w)
           \/ \E answered \in BOOLEAN : CommitClaim(w, answered) \/ CommitComplete(w, answered)

BoundedNext ==
    \/ \E s \in Submissions : Enqueue(s) \/ EnqueueFails(s)
    \/ \E w \in QueueWorkers : Work(w) \/ WorkerFails(w)
    \/ RequestStop

BoundedSpec == BoundedInit /\ [][BoundedNext]_boundedVars

-----------------------------------------------------------------------------
Unfinished == {s \in Submissions : job[s] \in {"pending", "processing"}}

\* The counter is the number of unfinished jobs whatever fails between the two
\* statements that change them, the jobs dead workers left behind included, and
\* there are never more of them than the capacity, however many enqueue() calls
\* meet at the last free slot.
CounterIsTheQueue ==
    /\ pendingCount = Cardinality(Unfinished)
    /\ pendingCount <= QueueCapacity

\* Nobody waits in vain: an unfinished job is one whose worker died, or no
\* worker is left.  In particular, no worker went home while there was work.
JobsServed ==
    \A s \in Unfinished : \/ \E w \in QueueWorkers : worker[w] = "dead" /\ work[w] = s
                          \/ \A w \in QueueWorkers : worker[w] = "dead"

=============================================================================
