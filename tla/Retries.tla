------------------------------ MODULE Retries ------------------------------
(***************************************************************************)
(* Lab 37: callers of an unreliable downstream, with a timeout, a retry    *)
(* loop and the circuit breaker around each other, and the charge that a   *)
(* timed-out caller repeats.                                               *)
(*                                                                         *)
(* The downstream does what a call asks for when the call arrives, however *)
(* late it answers.  The answer to a call that timed out settles a promise *)
(* that is settled already, so the call leaves the model with its timer.   *)
(* Latencies are three classes: fast is shorter than every timeout, slow   *)
(* longer than a short one, hang longer than all; the timer of a stalled   *)
(* event loop may still beat a fast answer.                                *)
(***************************************************************************)
EXTENDS CircuitBreaker, Sequences, FiniteSets

CONSTANTS StormCallers   \* the concurrent callers of retry-storm.ts, some of Callers

ASSUME RetriesAssumption == StormCallers \subseteq Callers /\ StormCallers # {} /\ IsFiniteSet(StormCallers)

VARIABLES
    exercise,        \* the scenario this behaviour runs
    health,          \* health of the downstream
    caller,          \* [at: step of the script, phase, attempt]
    onTheWire,       \* per caller: the answer its call will get, [answer, latency]
    totalCallCount, chargesApplied,
    appliedCharges,  \* the idempotency key is known
    outcomes         \* per caller: how its requests ended

retryVars == <<exercise, health, caller, onTheWire, totalCallCount, chargesApplied,
               appliedCharges, outcomes>>

(***************************************************************************)
(* The scripts.                                                            *)
(***************************************************************************)
ScriptLine(op, timeout, to) == [op |-> op, timeout |-> timeout, to |-> to]
Request(timeout) == ScriptLine("call", timeout, "-")
Charge(timeout, key) == ScriptLine(IF key THEN "keyed" ELSE "charge", timeout, "-")
setHealth(h) == ScriptLine("health", "none", h)
CooldownElapses == ScriptLine("cooldown", "none", "-")
Times(n, step) == [i \in 1..n |-> step]
Errors == {"transient", "fatal", "timeout"}
\* health: where it starts; retryable: the errors isRetryable accepts;
\* healAt: the attempt before which the script repairs the downstream, 0 if none.
Script(starts, steps, maxAttempts, retryable, guarded) ==
    [starts |-> starts, steps |-> steps, maxAttempts |-> maxAttempts,
     retryable |-> retryable, guarded |-> guarded, healAt |-> 0]

naiveHang == Script({"down-hang"}, <<Request("none")>>, 1, {}, FALSE)
timeoutBounded == Script({"down-hang"}, Times(2, Request("short")), 1, {}, FALSE)
naiveRetry == Script({"down-fail-fast"}, <<Request("none")>>, 3, Errors, FALSE)
TransientRecovers ==
    [Script({"down-fail-fast"}, <<Request("none")>>, 6, {"transient"}, FALSE) EXCEPT !.healAt = 4]
NonTransientNeverRetried == Script({"rejecting"}, <<Request("none")>>, 5, {"transient"}, FALSE)
CircuitBreakerTrip ==
    Script({"down-fail-fast"},
           Times(FailureThreshold + 2, Request("none"))
           \o <<setHealth("healthy"), CooldownElapses, Request("none"), setHealth("down-fail-fast")>>
           \o Times(FailureThreshold, Request("none")) \o <<CooldownElapses, Request("none")>>,
           1, {}, TRUE)
makeCall == Request("short")
Composed ==
    Script({"down-fail-fast", "degraded"},
           Times(FailureThreshold + 2, makeCall)
           \o <<setHealth("healthy"), CooldownElapses, makeCall>>,
           3, {"transient", "timeout"}, TRUE)
naiveDoubleCharge == Script({"healthy"}, <<Charge("short", FALSE), Charge("long", FALSE)>>, 1, {}, FALSE)
fixedWithIdempotencyKey == Script({"healthy"}, <<Charge("short", TRUE), Charge("long", TRUE)>>, 1, {}, FALSE)

Exercises ==
    [naive_hang |-> naiveHang, timeout_bounded |-> timeoutBounded, retry_storm |-> naiveRetry,
     transient_recovers |-> TransientRecovers, never_retried |-> NonTransientNeverRetried,
     breaker_trip |-> CircuitBreakerTrip, composed |-> Composed,
     double_charge |-> naiveDoubleCharge, idempotent_charge |-> fixedWithIdempotencyKey]

Its == Exercises[exercise]
Solo == CHOOSE c \in StormCallers : TRUE
Participants == IF exercise = "retry_storm" THEN StormCallers ELSE {Solo}
Phase(c, p) == caller[c].phase = p
StepOf(c) == Its.steps[caller[c].at]
More(c) == caller[c].at <= Len(Its.steps)
AtStep(c, ops) == Phase(c, "next") /\ More(c) /\ StepOf(c).op \in ops
RequestOps == {"call", "charge", "keyed"}

Answer(a, l) == [answer |-> a, latency |-> l]
Silence == Answer("none", "none")

RetryInit ==
    /\ exercise \in DOMAIN Exercises
    /\ health \in Exercises[exercise].starts
    /\ caller = [c \in StormCallers |-> [at |-> 1, phase |-> "next", attempt |-> 1]]
    /\ onTheWire = [c \in StormCallers |-> Silence] /\ totalCallCount = 0 /\ chargesApplied = 0 /\ appliedCharges = FALSE
    /\ outcomes = [c \in StormCallers |-> <<>>]

(***************************************************************************)
(* UnreliableDownstream.                                                   *)
(***************************************************************************)
settleGeneric ==
    CASE health = "healthy" -> {Answer("ok", "fast")}
      [] health = "down-fail-fast" -> {Answer("transient", "fast")}
      [] health = "down-hang" -> {Answer("ok", "hang")}
      [] health = "rejecting" -> {Answer("fatal", "fast")}
      [] health = "degraded" -> {Answer("transient", "fast"), Answer("fatal", "fast"),
                                 Answer("ok", "slow"), Answer("ok", "fast")}
Known(op) == op = "keyed" /\ appliedCharges
ReceiveCall(op) ==
    /\ totalCallCount' = totalCallCount + 1
    /\ IF op = "call" \/ Known(op)
       THEN UNCHANGED <<chargesApplied, appliedCharges>>
       ELSE chargesApplied' = chargesApplied + 1 /\ appliedCharges' = (appliedCharges \/ op = "keyed")

(***************************************************************************)
(* The caller: breaker.execute( retryWithBackoff( withTimeout( call ))).   *)
(***************************************************************************)
Ends(c, how) ==
    /\ outcomes' = [outcomes EXCEPT ![c] = Append(@, how)]
    /\ caller' = [caller EXCEPT ![c] = [at |-> @.at + 1, phase |-> "next", attempt |-> 1]]

\* The script repairs or breaks the downstream, or sleeps past the cooldown.
ScriptActs(c) ==
    /\ AtStep(c, {"health", "cooldown"})
    /\ StepOf(c).op = "cooldown" => sinceOpened >= CooldownMs
    /\ health' = IF StepOf(c).op = "health" THEN StepOf(c).to ELSE health
    /\ caller' = [caller EXCEPT ![c].at = @ + 1]
    /\ UNCHANGED <<exercise, onTheWire, totalCallCount, chargesApplied, appliedCharges, outcomes, breakerVars>>
\* execute() refuses, or lets the request through.
BreakerRefuses(c) ==
    /\ Its.guarded /\ AtStep(c, RequestOps)
    /\ Reject(c) /\ Ends(c, "rejected")
    /\ UNCHANGED <<exercise, health, onTheWire, totalCallCount, chargesApplied, appliedCharges>>
RequestStarts(c) ==
    /\ AtStep(c, RequestOps)
    /\ IF Its.guarded THEN StartProbe(c) \/ StartCall(c) ELSE UNCHANGED breakerVars
    /\ caller' = [caller EXCEPT ![c].phase = "attempt"]
    /\ UNCHANGED <<exercise, health, onTheWire, totalCallCount, chargesApplied, appliedCharges, outcomes>>
\* One attempt reaches the downstream.
AttemptStarts(c) ==
    /\ Phase(c, "attempt")
    /\ health' = IF caller[c].attempt = Its.healAt THEN "healthy" ELSE health
    /\ ReceiveCall(StepOf(c).op)
    /\ \E a \in IF StepOf(c).op = "call" THEN IF health' = health THEN settleGeneric ELSE {Answer("ok", "fast")}
                ELSE {Answer("ok", IF Known(StepOf(c).op) THEN "fast" ELSE "slow")} :
          onTheWire' = [onTheWire EXCEPT ![c] = a]
    /\ caller' = [caller EXCEPT ![c].phase = "waiting"]
    /\ UNCHANGED <<exercise, outcomes, breakerVars>>

\* What the caller makes of an answer or of its timer.
Succeeds(c) ==
    /\ Ends(c, "ok")
    /\ IF Its.guarded THEN ProbeSucceeds(c) \/ CallSucceeds(c) ELSE UNCHANGED breakerVars
\* Mutant: one attempt too many.
MutWillRetry(c, error) == error \in Its.retryable /\ caller[c].attempt <= Its.maxAttempts
WillRetry(c, error) == error \in Its.retryable /\ caller[c].attempt < Its.maxAttempts
Fails(c, error) ==
    IF WillRetry(c, error)
    THEN /\ caller' = [caller EXCEPT ![c].phase = "backoff"]
         /\ UNCHANGED <<outcomes, breakerVars>>
    ELSE /\ Ends(c, error)
         /\ IF Its.guarded THEN ProbeFails(c) \/ CallFails(c) ELSE UNCHANGED breakerVars
BackoffEnds(c) ==
    /\ Phase(c, "backoff")
    /\ caller' = [caller EXCEPT ![c] = [@ EXCEPT !.phase = "attempt",
                                                 !.attempt = caller[c].attempt + 1]]
    /\ UNCHANGED <<exercise, health, onTheWire, totalCallCount, chargesApplied, appliedCharges, outcomes, breakerVars>>
TimerOf(c) == StepOf(c).timeout
AnswerArrives(c) ==
    /\ Phase(c, "waiting")
    /\ onTheWire[c].latency = "slow" => TimerOf(c) # "short"
    /\ onTheWire[c].latency = "hang" => TimerOf(c) = "none"
    /\ IF onTheWire[c].answer = "ok" THEN Succeeds(c) ELSE Fails(c, onTheWire[c].answer)
    /\ onTheWire' = [onTheWire EXCEPT ![c] = Silence]
    /\ UNCHANGED <<exercise, health, totalCallCount, chargesApplied, appliedCharges>>
\* withTimeout rejects; the call itself is not taken back.
TimerFires(c) ==
    /\ Phase(c, "waiting") /\ TimerOf(c) # "none"
    /\ Fails(c, "timeout")
    /\ onTheWire' = [onTheWire EXCEPT ![c] = Silence]
    /\ UNCHANGED <<exercise, health, totalCallCount, chargesApplied, appliedCharges>>

CallerStep(c) == \/ ScriptActs(c) \/ BreakerRefuses(c) \/ RequestStarts(c) \/ AttemptStarts(c)
                 \/ BackoffEnds(c)
CooldownTicks == Tick /\ UNCHANGED retryVars
AnyCallerStep(c) == CallerStep(c) \/ TimerFires(c) \/ AnswerArrives(c)
RetryNext ==
    \/ \E c \in Participants : AnyCallerStep(c)
    \/ CooldownTicks
allRetryVars == <<retryVars, breakerVars>>
RetrySpec == RetryInit /\ BreakerInit /\ [][RetryNext]_allRetryVars
(***************************************************************************)
(* What the scripts print at their end.                                    *)
(***************************************************************************)
RetriesOver == \A c \in Participants : Phase(c, "next") /\ ~More(c)
Got(i) == outcomes[Solo][i]
HangVerdict == outcomes[Solo] = <<"ok">>
TimeoutVerdict == outcomes[Solo] = <<"timeout", "timeout">>
StormVerdict == totalCallCount = Cardinality(StormCallers) * naiveRetry.maxAttempts
RecoversVerdict == outcomes[Solo] = <<"ok">> /\ totalCallCount = TransientRecovers.healAt
NeverRetriedVerdict == outcomes[Solo] = <<"fatal">> /\ totalCallCount = 1
\* threshold failures, then fast failures while the cooldown lasts; one probe.
TripVerdict ==
    /\ \A i \in 1..FailureThreshold : Got(i) = "transient"
    /\ Got(FailureThreshold + 3) = "ok"
    /\ state = "OPEN"
\* The breaker counts whole retry sequences.
ComposedVerdict == Got(FailureThreshold + 3) \in {"ok", "timeout"}
DoubleVerdict == chargesApplied = 2
KeyedVerdict == chargesApplied = 1
Verdict ==
    CASE exercise = "naive_hang" -> HangVerdict
      [] exercise = "timeout_bounded" -> TimeoutVerdict
      [] exercise = "retry_storm" -> StormVerdict
      [] exercise = "transient_recovers" -> RecoversVerdict
      [] exercise = "never_retried" -> NeverRetriedVerdict
      [] exercise = "breaker_trip" -> TripVerdict
      [] exercise = "composed" -> ComposedVerdict
      [] exercise = "double_charge" -> DoubleVerdict
      [] exercise = "idempotent_charge" -> KeyedVerdict

(***************************************************************************)
(* Properties.                                                             *)
(***************************************************************************)
\* Retries never add up beyond their bounds: a request costs the downstream at
\* most maxAttempts calls, an open breaker costs it none, the breaker opens
\* after a threshold of whole retry sequences (and not later), and a charge
\* repeated with its key is applied once even while the first answer is still
\* on its way.  Every script ends with the numbers it announces.
RetriesBounded ==
    /\ \A c \in Participants : Its.guarded /\ caller[c].phase # "next" => call[c] # "idle"
    /\ totalCallCount <= Cardinality(Participants) * Len(Its.steps) * Its.maxAttempts
    /\ exercise = "composed" /\ health = "down-fail-fast" /\ state = "CLOSED" =>
          totalCallCount <= FailureThreshold * Its.maxAttempts
    /\ exercise = "idempotent_charge" => chargesApplied <= 1
    /\ RetriesOver => Verdict
=============================================================================
