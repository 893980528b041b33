------------------------------ MODULE MCLeases ------------------------------
(***************************************************************************)
(* Four things that are held for a time and then taken back: a job of the  *)
(* queue, a seat, the Redis lock and the right to refill a cache.  They    *)
(* share no state, so a behaviour exercises one of them, its subject, and  *)
(* the others keep one initial value.                                      *)
(***************************************************************************)
EXTENDS JobQueue, Tickets, FencedLock, CacheRefill, TLC

CONSTANTS w1, w2, w3, j1, j2, b1, b2, b3, h1, h2, h3, g1, g2, g3, p1, p2

MCWorkers == {w1, w2}
ThreeWorkers == {w1, w2, w3}
MCJobs == {j1, j2}
OneJob == {j1}
MCBuyers == {b1, b2, b3}
MCMixes ==
    {NaiveReservation,
     [b \in MCBuyers |-> IF b = b3 THEN "row_lock" ELSE "conditional"],
     [b \in MCBuyers |-> IF b = b3 THEN "conditional" ELSE "row_lock"]}
MCHolders == {h1, h2, h3}
MCRequests == {g1, g2, g3}
MCProcesses == {p1, p2}
MCProcessOf == (g1 :> p1) @@ (g2 :> p1) @@ (g3 :> p2)
MCStrategies == {"naive", "coalescing", "lease", "swr"}

VARIABLE subject

leasesVars == <<subject, queueVars, ticketVars, lockVars, refillVars>>

Init ==
    /\ subject \in {"jobs", "tickets", "lock", "cache"}
    /\ QueueInit
    /\ TicketInit /\ (subject # "tickets" => mechanism = NaiveReservation /\ ticket = Available)
    /\ LockInit   /\ (subject # "lock" => writes = "fenced" /\ releases = "script")
    /\ RefillInit /\ (subject # "cache" => strategy = "naive")

Next ==
    /\ UNCHANGED subject
    /\ \/ subject = "jobs"    /\ QueueNext  /\ UNCHANGED <<ticketVars, lockVars, refillVars>>
       \/ subject = "tickets" /\ TicketNext /\ UNCHANGED <<queueVars, lockVars, refillVars>>
       \/ subject = "lock"    /\ LockNext   /\ UNCHANGED <<queueVars, ticketVars, refillVars>>
       \/ subject = "cache"   /\ RefillNext /\ UNCHANGED <<queueVars, ticketVars, lockVars>>

\* A running worker runs, time passes, workers are started again (autoscaled
\* workers, README "Scenario" of lab 14), and not every claim transaction for
\* ever is cut off by a crash.
QueueFairness ==
    /\ SF_queueVars(subject = "jobs" /\ \E w \in Workers : ClaimCommit(w))
    /\ \A w \in Workers : /\ WF_queueVars(subject = "jobs" /\ Step(w))
                          /\ WF_queueVars(subject = "jobs" /\ Start(w))
    /\ \A j \in Jobs : WF_queueVars(subject = "jobs" /\ LapseOf(j))

\* The server answers, the expiration worker runs again and again, the clock
\* goes on.  A buyer with a hold may never pay, and one may never start.
TicketFairness ==
    /\ WF_ticketVars(subject = "tickets" /\ ExpireIssue)
    /\ WF_ticketVars(subject = "tickets" /\ ExpireReservations)
    /\ WF_ticketVars(subject = "tickets" /\ MinutePasses)
    /\ \A b \in Buyers : WF_ticketVars(subject = "tickets" /\ StatementEnds(b))

\* Time passes, and a worker that is alive comes to the end of its work.
LockFairness ==
    /\ WF_lockVars(subject = "lock" /\ Tick)
    /\ \A w \in Holders : WF_lockVars(subject = "lock" /\ Proceed(w))

\* Redis and the database answer.
RefillFairness ==
    /\ \A r \in Requests : WF_refillVars(subject = "cache" /\ RequestStep(r))
    /\ \A p \in Processes : WF_refillVars(subject = "cache" /\ RefreshStep(p))

Spec == /\ Init /\ [][Next]_leasesVars
        /\ QueueFairness /\ TicketFairness /\ LockFairness /\ RefillFairness

\* Nothing is held for ever: jobs end although their workers crash, a lapsed
\* hold is reverted, the lock is freed although its holder is gone, and whoever
\* waits for a refill is answered although the refiller failed.
LeasesEnd ==
    <>[](/\ subject = "jobs" => JobsEnded
         /\ subject = "tickets" => HoldsLapsed
         /\ subject = "lock" => LockIsFree
         /\ subject = "cache" => RequestsAnswered)

=============================================================================
