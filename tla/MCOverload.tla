----------------------------- MODULE MCOverload -----------------------------
(***************************************************************************)
(* The guards against overload side by side: the circuit breaker, the      *)
(* rate limiters, the bounded queue, the connection pool, and the breaker  *)
(* again with the timeouts and retries of lab 37 around it.  They share no *)
(* state, so a behaviour exercises one of them, its subject, and the       *)
(* others keep one initial value: the states of the run are the sum of     *)
(* theirs.                                                                 *)
(***************************************************************************)
EXTENDS RateLimit, BoundedQueue, Pooling, Retries

CONSTANTS c1, c2, c3, c4, k1, k2, q1, q2, q3, v1, v2, p1, p2, p3, b1, b2

MCCallers == {c1, c2, c3, c4}
MCStormCallers == {c1, c2, c3}
MCCheckers == {k1, k2}
MCSubmissions == {q1, q2, q3}
MCQueueWorkers == {v1, v2}
MCPoolClients == {p1, p2, p3}
MCBackends == {b1, b2}

VARIABLE subject

overloadVars == <<subject, breakerVars, limitVars, boundedVars, poolVars, retryVars>>

Init ==
    /\ subject \in {"breaker", "limiter", "queue", "pool", "retries"}
    /\ BreakerInit /\ BoundedInit
    /\ LimitInit   /\ (subject # "limiter" => algorithm = "token_bucket")
    /\ PoolingInit /\ (subject # "pool" => poolMode = "direct")
    /\ RetryInit   /\ (subject # "retries" => exercise = "naive_hang")

Next ==
    /\ UNCHANGED subject
    /\ \/ /\ subject = "breaker" /\ BreakerNext
          /\ UNCHANGED <<limitVars, boundedVars, poolVars, retryVars>>
       \/ /\ subject = "limiter" /\ LimitNext
          /\ UNCHANGED <<breakerVars, boundedVars, poolVars, retryVars>>
       \/ /\ subject = "queue" /\ BoundedNext
          /\ UNCHANGED <<breakerVars, limitVars, poolVars, retryVars>>
       \/ /\ subject = "pool" /\ PoolingNext
          /\ UNCHANGED <<breakerVars, limitVars, boundedVars, retryVars>>
       \/ /\ subject = "retries" /\ RetryNext
          /\ UNCHANGED <<limitVars, boundedVars, poolVars>>

\* The clock runs, callers keep calling (the worker loop and the scenarios call
\* execute() again after every settlement), the fn of a call settles (it is
\* wrapped in a timeout), and of infinitely many probes some succeed: the
\* downstream is not down for ever.
BreakerFairness ==
    /\ WF_breakerVars(subject = "breaker" /\ Tick)
    /\ WF_breakerVars(subject = "breaker" /\ \E c \in Callers : Enter(c))
    /\ \A c \in Callers : WF_breakerVars(subject = "breaker" /\ Settle(c))
    /\ SF_breakerVars(subject = "breaker" /\ \E c \in Callers : ProbeSucceeds(c))

\* Calls under way go on, workers poll, and the script asks them to stop;
\* nothing has to fail.
BoundedFairness ==
    /\ \A s \in Submissions : WF_boundedVars(subject = "queue" /\ Enqueue(s))
    /\ \A w \in QueueWorkers : WF_boundedVars(subject = "queue" /\ Work(w))
    /\ WF_boundedVars(subject = "queue" /\ RequestStop)

\* PgBouncer serves waiting clients in order: nobody is passed over for ever.
PoolingFairness ==
    /\ WF_poolVars(subject = "pool" /\ TunerStep)
    /\ \A c \in PoolClients : /\ WF_poolVars(subject = "pool" /\ ClientStep(c))
                              /\ SF_poolVars(subject = "pool" /\ Execute(c))

\* The event loop runs, timers fire, the downstream answers in the end.
RetryFairness ==
    /\ \A c \in StormCallers :
          WF_allRetryVars(subject = "retries" /\ c \in Participants /\ AnyCallerStep(c))
    /\ WF_allRetryVars(subject = "retries" /\ CooldownTicks)

Spec == /\ Init /\ [][Next]_overloadVars
        /\ BreakerFairness /\ BoundedFairness /\ PoolingFairness /\ RetryFairness

\* A breaker that has opened closes again once probes can succeed, as long as
\* callers keep calling (the scripts of lab 37 stop, so it is asked of the
\* breaker by itself).
Recovers == subject = "breaker" /\ state # "CLOSED" ~> state = "CLOSED"

\* Nobody is kept waiting for ever: queued jobs are worked off, the clients of
\* the pool get their backends and the tuning script comes to its end, and
\* every retry loop comes to its end (the one without a timeout included: the
\* hang is long, not endless).
EveryoneIsServed ==
    <>[](/\ subject = "queue" => JobsServed
         /\ subject = "pool" => ClientsServed
         /\ subject = "retries" => RetriesOver)

=============================================================================
