------------------------ MODULE NotificationPipeline ------------------------
(***************************************************************************)
(* The notification half of the capstone, lab 40: the workers that         *)
(* createProtectedWorker() (src/outbox/worker-protected.ts) makes around   *)
(* one breaker, the outbox table, and the notification provider            *)
(* (src/downstream/notification-service.ts).  A claimed event goes through *)
(* breaker.execute(retryWithBackoff(withTimeout(send))), then the outcome  *)
(* is recorded.                                                            *)
(*                                                                         *)
(* withTimeout gives up waiting without stopping send(): a send that timed *)
(* out may still succeed later (late).  The workers share one process and  *)
(* its in-memory breaker; the table survives a restart.  The INSERT into   *)
(* notification_attempts is an observability log: only its failure shows,  *)
(* as a failure of the try or catch block it is in.                        *)
(***************************************************************************)
EXTENDS OutboxQueue

CONSTANTS NoEvent,
          MaxTries,          \* maxAttempts of retryWithBackoff
          FailureThreshold, CooldownMs,
          MaxLate            \* bound on timed-out sends still running

\* The worker loops run in one process, which starts finitely many.
ASSUME PipelineAssumption ==
    /\ MaxTries \in Nat \ {0} /\ MaxLate \in Nat /\ IsFiniteSet(Workers)
    /\ FailureThreshold \in Nat \ {0} /\ CooldownMs \in Nat

VARIABLES state, consecutiveFailures, sinceOpened, halfOpenProbeInFlight, call,
          worker,    \* position, event in hand and retry count of each worker
          calls,     \* notificationService.send() calls per event
          notified,  \* sends that succeeded, per event
          late       \* timed-out sends that are still running, per event

Breaker == INSTANCE CircuitBreaker WITH Callers <- Workers

queueVars == <<outbox, lapsed>>
breakerVars == <<state, consecutiveFailures, sinceOpened, halfOpenProbeInFlight, call>>
providerVars == <<calls, notified, late>>
pipelineVars == <<queueVars, breakerVars, worker, providerVars>>

Resting == [pc |-> "idle", event |-> NoEvent, tries |-> 0]

PipelineInit ==
    /\ OutboxInit
    /\ Breaker!BreakerInit
    /\ worker = [w \in Workers |-> Resting]
    /\ calls = [e \in Events |-> 0]
    /\ notified = [e \in Events |-> 0]
    /\ late = [e \in Events |-> 0]

Event(w) == worker[w].event
Goto(w, p) == worker' = [worker EXCEPT ![w].pc = p]

ClaimNextEvent(w, e) ==
    /\ worker[w].pc = "idle"
    /\ ClaimRow(w, e)
    /\ worker' = [worker EXCEPT ![w] = [pc |-> "claimed", event |-> e, tries |-> 0]]
    /\ UNCHANGED <<lapsed, breakerVars, providerVars>>

\* breaker.execute() admits the worker, which makes its first send.
Admit(w) ==
    /\ worker[w].pc = "claimed"
    /\ Breaker!StartCall(w) \/ Breaker!StartProbe(w)
    /\ worker' = [worker EXCEPT ![w] = [@ EXCEPT !.pc = "sending", !.tries = 1]]
    /\ calls' = [calls EXCEPT ![Event(w)] = @ + 1]
    /\ UNCHANGED <<queueVars, notified, late>>

\* CircuitOpenError: no call is made, but the claim has been counted.
Refuse(w) ==
    /\ worker[w].pc = "claimed"
    /\ Breaker!Reject(w)
    /\ Goto(w, "failing")
    /\ UNCHANGED <<queueVars, providerVars>>

SendSucceeds(w) ==
    /\ worker[w].pc = "sending"
    /\ notified' = [notified EXCEPT ![Event(w)] = @ + 1]
    /\ Breaker!CallSucceeds(w) \/ Breaker!ProbeSucceeds(w)
    /\ Goto(w, "sent")
    /\ UNCHANGED <<queueVars, calls, late>>

\* A timed-out send stays behind and may still succeed; one that threw does not.
AttemptFails(w) ==
    /\ worker[w].pc = "sending"
    /\ \/ UNCHANGED late
       \/ /\ late[Event(w)] < MaxLate
          /\ late' = [late EXCEPT ![Event(w)] = @ + 1]

\* Mutant: a worker whose sends are exhausted goes on as if it had published.
MutSendsExhaustedSwallowed(w) ==
    /\ AttemptFails(w)
    /\ worker[w].tries >= MaxTries
    /\ Breaker!CallFails(w) \/ Breaker!ProbeFails(w)
    /\ Goto(w, "sent")
    /\ UNCHANGED <<queueVars, calls, notified>>

\* retryWithBackoff sleeps and calls send() again.
SendRetried(w) ==
    /\ AttemptFails(w)
    /\ worker[w].tries < MaxTries
    /\ worker' = [worker EXCEPT ![w].tries = @ + 1]
    /\ calls' = [calls EXCEPT ![Event(w)] = @ + 1]
    /\ UNCHANGED <<queueVars, breakerVars, notified>>

\* The last attempt failed: the breaker counts one failure for all of them.
SendsExhausted(w) ==
    /\ AttemptFails(w)
    /\ worker[w].tries >= MaxTries
    /\ Breaker!CallFails(w) \/ Breaker!ProbeFails(w)
    /\ Goto(w, "failing")
    /\ UNCHANGED <<queueVars, calls, notified>>

\* recordNotificationAttempt and markPublished; if either throws, applied or
\* not, the catch block of the same try takes over.
MarkPublished(w) ==
    /\ worker[w].pc = "sent"
    /\ \/ PublishRow(w, Event(w)) /\ worker' = [worker EXCEPT ![w] = Resting]
       \/ PublishRow(w, Event(w)) /\ Goto(w, "failing")
       \/ UNCHANGED outbox /\ Goto(w, "failing")
    /\ UNCHANGED <<lapsed, breakerVars, providerVars>>

MarkPublishFailed(w) ==
    /\ worker[w].pc = "failing"
    /\ FailRow(w, Event(w))
    /\ worker' = [worker EXCEPT ![w] = Resting]
    /\ UNCHANGED <<lapsed, breakerVars, providerVars>>

\* The catch block throws as well: the worker's promise rejects, and another
\* worker loop is started in its place.
WorkerThrows(w) ==
    /\ worker[w].pc = "failing"
    /\ outbox[Event(w)].attempts < MaxClaims
    /\ worker' = [worker EXCEPT ![w] = Resting]
    /\ UNCHANGED <<queueVars, breakerVars, providerVars>>

\* A timed-out send reaches the customer after all.
LateSuccess(e) ==
    /\ late[e] > 0
    /\ late' = [late EXCEPT ![e] = @ - 1]
    /\ notified' = [notified EXCEPT ![e] = @ + 1]
    /\ UNCHANGED <<queueVars, breakerVars, worker, calls>>

\* The process is killed and started again with a fresh breaker.
Restart ==
    /\ \E w \in Workers : worker[w].pc # "idle"
    /\ \A w \in Workers : worker[w].pc # "idle" => outbox[Event(w)].attempts < MaxClaims
    /\ worker' = [w \in Workers |-> Resting]
    /\ call' = [w \in Workers |-> "idle"]
    /\ state' = "CLOSED" /\ consecutiveFailures' = 0 /\ sinceOpened' = CooldownMs
    /\ halfOpenProbeInFlight' = FALSE
    /\ UNCHANGED <<queueVars, providerVars>>

TickBreaker ==
    /\ Breaker!Tick
    /\ UNCHANGED <<queueVars, worker, providerVars>>

Lapse(e) ==
    /\ LeaseLapses(e)
    /\ UNCHANGED <<breakerVars, worker, providerVars>>

Work(w) == \/ \E e \in Events : ClaimNextEvent(w, e)
           \/ Admit(w) \/ Refuse(w) \/ SendSucceeds(w) \/ SendRetried(w)
           \/ SendsExhausted(w) \/ MarkPublished(w) \/ MarkPublishFailed(w)

PipelineNext == \/ \E w \in Workers : Work(w) \/ WorkerThrows(w)
                \/ \E e \in Events : LateSuccess(e) \/ Lapse(e)
                \/ Restart \/ TickBreaker

PipelineSpec == PipelineInit /\ [][PipelineNext]_pipelineVars

-----------------------------------------------------------------------------
\* Types of the composed state; a worker is inside breaker.execute() exactly
\* while it is sending.
PipelineTypeOK ==
    /\ outbox \in [Events -> OutboxRow]
    /\ Breaker!BreakerTypeOK
    /\ \A w \in Workers :
          /\ worker[w].event \in Events \cup {NoEvent}
          /\ worker[w].tries \in 0 .. MaxTries
          /\ call[w] # "idle" <=> worker[w].pc = "sending"
    /\ calls \in [Events -> Nat] /\ notified \in [Events -> Nat]
    /\ late \in [Events -> 0 .. MaxLate]

\* A published row means the customer was really notified.
PublishedWasNotified ==
    \A e \in Events : outbox[e].status = "published" => notified[e] > 0

\* The provider sees at most MaxTries calls per claim, and none that succeeds
\* twice, whatever restarts, late answers and lapsed leases do.
CallsWithinClaims ==
    \A e \in Events : /\ calls[e] <= MaxTries * outbox[e].attempts
                      /\ notified[e] + late[e] <= calls[e]

\* What the customer and the provider see of the pipeline.
PipelineSafe == PublishedWasNotified /\ CallsWithinClaims

\* Every event is settled, if only as failed, whatever the provider does.
EventsSettled == \A e \in Events : outbox[e].status \in {"published", "failed"}

\* src/downstream/notification-service.ts: no duplicate sends, since only one
\* call ever exists per logical order.
OneNotificationPerOrder == \A e \in Events : notified[e] <= 1
=============================================================================
