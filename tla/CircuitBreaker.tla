--------------------------- MODULE CircuitBreaker ---------------------------
(***************************************************************************)
(* The CircuitBreaker class of labs 37 and 40 (src/lib/circuit-breaker.ts, *)
(* the same code in both).  execute() runs synchronously up to its         *)
(* `await fn()` and again from the moment fn settles, so one caller        *)
(* contributes two kinds of atomic step: entering execute() (Reject,       *)
(* StartCall, StartProbe) and the settlement of the fn it awaits           *)
(* (CallSucceeds, CallFails, ProbeSucceeds, ProbeFails).  Several callers  *)
(* share one breaker, and a call admitted while the breaker was CLOSED may *)
(* settle in whatever state the others have moved the breaker to.          *)
(*                                                                         *)
(* The source compares now() - openedAt with cooldownMs.  Only that        *)
(* difference matters, and only up to cooldownMs: sinceOpened is           *)
(* min(now() - openedAt, cooldownMs), reset where the source assigns       *)
(* openedAt and advanced by Tick.                                          *)
(***************************************************************************)
EXTENDS Naturals

CONSTANTS Callers,           \* concurrent users of the one breaker object
          FailureThreshold,  \* opts.failureThreshold
          CooldownMs         \* opts.cooldownMs, in ticks of the clock

ASSUME BreakerAssumption == /\ FailureThreshold \in Nat \ {0}
                            /\ CooldownMs \in Nat

VARIABLES state,                  \* this.state
          consecutiveFailures,    \* this.consecutiveFailures
          sinceOpened,            \* now() - this.openedAt, capped
          halfOpenProbeInFlight,  \* this.halfOpenProbeInFlight
          call                    \* the await each caller is suspended in

breakerVars ==
    <<state, consecutiveFailures, sinceOpened, halfOpenProbeInFlight, call>>

CircuitState == {"CLOSED", "OPEN", "HALF_OPEN"}

\* A fresh breaker: openedAt = 0 lies in the distant past of any real clock.
BreakerInit ==
    /\ state = "CLOSED"
    /\ consecutiveFailures = 0
    /\ sinceOpened = CooldownMs
    /\ halfOpenProbeInFlight = FALSE
    /\ call = [c \in Callers |-> "idle"]

\* The state after the first test of execute(): an elapsed cooldown turns OPEN
\* into HALF_OPEN before anything else is looked at.
EntryState ==
    IF state = "OPEN" /\ sinceOpened >= CooldownMs THEN "HALF_OPEN" ELSE state

\* execute() throws CircuitOpenError without invoking fn.
Reject(c) ==
    /\ call[c] = "idle"
    /\ \/ EntryState = "OPEN"
       \/ EntryState = "HALF_OPEN" /\ halfOpenProbeInFlight
    /\ state' = EntryState
    /\ UNCHANGED <<consecutiveFailures, sinceOpened, halfOpenProbeInFlight, call>>

\* The single trial call of a HALF_OPEN breaker.
StartProbe(c) ==
    /\ call[c] = "idle"
    /\ EntryState = "HALF_OPEN" /\ ~halfOpenProbeInFlight
    /\ state' = "HALF_OPEN"
    /\ halfOpenProbeInFlight' = TRUE
    /\ call' = [call EXCEPT ![c] = "probe"]
    /\ UNCHANGED <<consecutiveFailures, sinceOpened>>

StartCall(c) ==
    /\ call[c] = "idle"
    /\ EntryState = "CLOSED"
    /\ call' = [call EXCEPT ![c] = "call"]
    /\ UNCHANGED <<state, consecutiveFailures, sinceOpened, halfOpenProbeInFlight>>

\* Mutants: slips of the settlements below that the properties must catch.
\* The finally block that lowers the probe flag is lost on the failing path.
MutProbeFailsKeepsFlag(c) ==
    /\ call[c] = "probe"
    /\ sinceOpened' = 0
    /\ state' = "OPEN"
    /\ call' = [call EXCEPT ![c] = "idle"]
    /\ UNCHANGED <<consecutiveFailures, halfOpenProbeInFlight>>

\* The settlements; none of them looks at the state the breaker is in now.
ProbeSucceeds(c) ==
    /\ call[c] = "probe"
    /\ consecutiveFailures' = 0
    /\ state' = "CLOSED"
    /\ halfOpenProbeInFlight' = FALSE
    /\ call' = [call EXCEPT ![c] = "idle"]
    /\ UNCHANGED sinceOpened

ProbeFails(c) ==
    /\ call[c] = "probe"
    /\ sinceOpened' = 0
    /\ state' = "OPEN"
    /\ halfOpenProbeInFlight' = FALSE
    /\ call' = [call EXCEPT ![c] = "idle"]
    /\ UNCHANGED consecutiveFailures

CallSucceeds(c) ==
    /\ call[c] = "call"
    /\ consecutiveFailures' = 0
    /\ call' = [call EXCEPT ![c] = "idle"]
    /\ UNCHANGED <<state, sinceOpened, halfOpenProbeInFlight>>

CallFails(c) ==
    /\ call[c] = "call"
    /\ consecutiveFailures' = consecutiveFailures + 1
    /\ IF consecutiveFailures' >= FailureThreshold
       THEN sinceOpened' = 0 /\ state' = "OPEN"
       ELSE UNCHANGED <<sinceOpened, state>>
    /\ call' = [call EXCEPT ![c] = "idle"]
    /\ UNCHANGED halfOpenProbeInFlight

\* One tick of opts.now().
Tick ==
    /\ sinceOpened < CooldownMs
    /\ sinceOpened' = sinceOpened + 1
    /\ UNCHANGED <<state, consecutiveFailures, halfOpenProbeInFlight, call>>

Enter(c) == Reject(c) \/ StartProbe(c) \/ StartCall(c)

Settle(c) == \/ ProbeSucceeds(c) \/ ProbeFails(c)
             \/ CallSucceeds(c)  \/ CallFails(c)

BreakerNext == \/ \E c \in Callers : Enter(c) \/ Settle(c)
               \/ Tick

BreakerSpec == BreakerInit /\ [][BreakerNext]_breakerVars

-----------------------------------------------------------------------------
\* Types of the breaker's fields and of each caller's position.
BreakerTypeOK ==
    /\ state \in CircuitState
    /\ consecutiveFailures \in Nat
    /\ sinceOpened \in 0 .. CooldownMs
    /\ halfOpenProbeInFlight \in BOOLEAN
    /\ call \in [Callers -> {"idle", "call", "probe"}]

\* The flag is raised exactly while somebody's probe is pending, and at most
\* one probe is pending, whatever late settlements did to the state meanwhile.
\* A flag left behind by a finished probe would reject every call for ever; a
\* flag lowered too early would let two probes hit a struggling downstream.
ProbeExclusive ==
    /\ halfOpenProbeInFlight <=> \E c \in Callers : call[c] = "probe"
    /\ \A c, d \in Callers : call[c] = "probe" /\ call[d] = "probe" => c = d

\* A CLOSED breaker has not already counted enough failures to be OPEN: what
\* it admits after a recovery starts from a clean count.
ClosedBelowThreshold ==
    state = "CLOSED" => consecutiveFailures < FailureThreshold

\* HALF_OPEN always has its probe: the state is not left behind without
\* somebody whose settlement will move the breaker on.
HalfOpenHasProbe ==
    state = "HALF_OPEN" => \E c \in Callers : call[c] = "probe"

\* What a caller of execute() may rely on, however many share the breaker and
\* however late their calls settle.
BreakerSafe == ProbeExclusive /\ ClosedBelowThreshold /\ HalfOpenHasProbe

=============================================================================
