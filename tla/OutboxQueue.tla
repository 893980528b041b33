---------------------------- MODULE OutboxQueue ----------------------------
(***************************************************************************)
(* The outbox_events table and its three statements, the same in lab 17    *)
(* (src/queue/claim-and-publish.ts) and lab 40 (src/outbox/claim.ts):      *)
(* claimNextEvent, markPublished and markPublishFailed.  OutboxPublisher   *)
(* and NotificationPipeline run different worker loops over them.          *)
(*                                                                         *)
(* The claim transaction is one step here: its row lock keeps the row it   *)
(* selected as it is up to COMMIT (JobQueue takes the same query apart).   *)
(* SKIP LOCKED passes over rows in the hands of other claims, so a claim   *)
(* may return any claimable event, not only the oldest.  locked_until is   *)
(* only compared with now(): lapsed holds the leases that have run out.    *)
(***************************************************************************)
EXTENDS Naturals, FiniteSets

CONSTANTS Events,
          Workers,
          NoWorker,         \* SQL NULL
          MaxAttempts,      \* outbox_events.max_attempts
          MaxClaims         \* bound on attempts; the last lease does not lapse

ASSUME OutboxAssumption == /\ NoWorker \notin Workers
                           /\ MaxAttempts \in Nat \ {0}
                           /\ MaxClaims \in Nat

VARIABLES outbox,  \* committed rows of outbox_events
          lapsed   \* <<e, n>>: the lease of the n-th claim of e has run out

OutboxRow == [status : {"pending", "processing", "published", "failed"},
              attempts : Nat,
              locked_by : Workers \cup {NoWorker}]

OutboxInit ==
    /\ outbox = [e \in Events |-> [status |-> "pending", attempts |-> 0,
                                   locked_by |-> NoWorker]]
    /\ lapsed = {}

\* The WHERE clause of the claim query; it does not look at max_attempts.
Claimable(e) == \/ outbox[e].status = "pending"
                \/ outbox[e].status = "processing" /\ <<e, outbox[e].attempts>> \in lapsed

ClaimRow(w, e) ==
    /\ Claimable(e)
    /\ outbox[e].attempts < MaxClaims
    /\ outbox' = [outbox EXCEPT ![e] = [@ EXCEPT !.status = "processing",
                                                 !.locked_by = w,
                                                 !.attempts = outbox[e].attempts + 1]]

\* Mutant: the UPDATE of a failed row without AND locked_by = $2.
MutFailRowUnguarded(w, e) ==
    outbox' = [outbox EXCEPT ![e] =
        [@ EXCEPT !.status = IF outbox[e].attempts >= MaxAttempts THEN "failed" ELSE "pending",
                  !.locked_by = NoWorker]]

\* UPDATE ... WHERE id = $1 AND locked_by = $2
PublishRow(w, e) ==
    outbox' = IF outbox[e].locked_by = w
              THEN [outbox EXCEPT ![e] = [@ EXCEPT !.status = "published",
                                                   !.locked_by = NoWorker]]
              ELSE outbox

FailRow(w, e) ==
    outbox' = IF outbox[e].locked_by = w
              THEN [outbox EXCEPT ![e] =
                [@ EXCEPT !.status = IF outbox[e].attempts >= MaxAttempts THEN "failed" ELSE "pending",
                          !.locked_by = NoWorker]]
              ELSE outbox

\* now() passes the locked_until of the current claim.
LeaseLapses(e) ==
    /\ outbox[e].status = "processing"
    /\ outbox[e].attempts < MaxClaims
    /\ <<e, outbox[e].attempts>> \notin lapsed
    /\ lapsed' = lapsed \cup {<<e, outbox[e].attempts>>}
    /\ UNCHANGED outbox

\* Published and failed rows never change again: a report of a worker that
\* lost its claim must find nothing to update.
TerminalIsFinal ==
    [][\A e \in Events : outbox[e].status \in {"published", "failed"}
          => outbox'[e] = outbox[e]]_<<outbox, lapsed>>
=============================================================================
