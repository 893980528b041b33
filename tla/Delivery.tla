------------------------------ MODULE Delivery ------------------------------
(***************************************************************************)
(* Message delivery, labs 18 and 19: senders that try once (sendOnce) or   *)
(* retry until acknowledged (sendWithRetry) over a network that loses      *)
(* messages and acknowledgments, and the receivers they call.              *)
(*                                                                         *)
(* handler is the receiver that is deployed:                               *)
(*   "naive"       naiveProcessMessage, applyNaive: the effect, no check   *)
(*   "racy"        applyRacy: SELECT, then UPDATE, then INSERT             *)
(*   "idempotent"  idempotentProcessMessage, applyIdempotent: INSERT ...   *)
(*                 ON CONFLICT DO NOTHING and UPDATE in one transaction    *)
(* A delivery runs inside the sender's call.  Several senders may deliver  *)
(* the same message at the same time, as the workers of lab 18 do.  The    *)
(* network script is a free choice per attempt; back-off is not modelled.  *)
(***************************************************************************)
EXTENDS Naturals, FiniteSets

CONSTANTS Senders, Messages, Accounts,
          MessageOf,    \* the message a sender delivers
          AccountOf,    \* the account a message credits
          ModeOf,       \* "once" or "retry"
          MaxSends   \* RetryPolicy.maxAttempts

ASSUME DeliveryAssumption ==
    /\ MessageOf \in [Senders -> Messages]
    /\ AccountOf \in [Messages -> Accounts]
    /\ ModeOf \in [Senders -> {"once", "retry"}]
    /\ MaxSends \in Nat \ {0}
ASSUME FiniteSenders == IsFiniteSet(Senders)

VARIABLES handler,    \* the receiver that is deployed
          pc,         \* position of each sender, inside the receiver too
          attempt,    \* attemptNumber
          ack,        \* whether the network returns this attempt's answer
          inbox,  \* committed rows of the inbox table
          effects,    \* committed effects per message
          reached     \* deliveries that reached the receiver, per message

deliveryVars == <<handler, pc, attempt, ack, inbox, effects, reached>>

DeliveryInit ==
    /\ handler \in {"naive", "racy", "idempotent"}
    /\ pc = [s \in Senders |-> "ready"]
    /\ attempt = [s \in Senders |-> 1]
    /\ ack = [s \in Senders |-> FALSE]
    /\ inbox = {}
    /\ effects = [m \in Messages |-> 0]
    /\ reached = [m \in Messages |-> 0]

SenderGoto(s, p) == pc' = [pc EXCEPT ![s] = p]

ApplyEffect(m) == effects' = [effects EXCEPT ![m] = @ + 1]

\* Transactions of the idempotent receiver hold the inbox key of their
\* message from the INSERT on and the account row from the UPDATE on.
KeyHolders(m) == {s \in Senders : pc[s] \in {"claimed", "updated"} /\ MessageOf[s] = m}
RowHolders(a) == {s \in Senders : pc[s] = "updated" /\ AccountOf[MessageOf[s]] = a}

-----------------------------------------------------------------------------
(* The network and the sender. *)

MessageLost(s) ==
    /\ pc[s] = "ready"
    /\ ack' = [ack EXCEPT ![s] = FALSE]
    /\ SenderGoto(s, "answered")
    /\ UNCHANGED <<handler, attempt, inbox, effects, reached>>

MessageArrives(s) ==
    /\ pc[s] = "ready"
    /\ \E returned \in BOOLEAN : ack' = [ack EXCEPT ![s] = returned]
    /\ SenderGoto(s, "received")
    /\ reached' = [reached EXCEPT ![MessageOf[s]] = @ + 1]
    /\ UNCHANGED <<handler, attempt, inbox, effects>>

\* The end of the loop body; the attempt is logged, which may throw.
NextAttempt(s) ==
    /\ pc[s] = "answered"
    /\ \/ ack[s] /\ SenderGoto(s, "acked") /\ UNCHANGED attempt
       \/ /\ ~ ack[s] /\ ModeOf[s] = "retry" /\ attempt[s] < MaxSends
          /\ attempt' = [attempt EXCEPT ![s] = @ + 1]
          /\ SenderGoto(s, "ready")
       \/ /\ ~ ack[s] /\ (ModeOf[s] = "once" \/ attempt[s] >= MaxSends)
          /\ SenderGoto(s, "unacked")
          /\ UNCHANGED attempt
       \/ SenderGoto(s, "threw") /\ UNCHANGED attempt
    /\ UNCHANGED <<handler, ack, inbox, effects, reached>>

-----------------------------------------------------------------------------
(* The receivers. *)

ProcessNaive(s) ==
    /\ handler = "naive" /\ pc[s] = "received"
    /\ ApplyEffect(MessageOf[s])
    /\ SenderGoto(s, "answered")
    /\ UNCHANGED <<handler, attempt, ack, inbox, reached>>

RacyCheck(s) ==
    /\ handler = "racy" /\ pc[s] = "received"
    /\ SenderGoto(s, IF MessageOf[s] \in inbox THEN "answered" ELSE "checked")
    /\ UNCHANGED <<handler, attempt, ack, inbox, effects, reached>>

RacyUpdate(s) ==
    /\ pc[s] = "checked"
    /\ ApplyEffect(MessageOf[s])
    /\ SenderGoto(s, "applied")
    /\ UNCHANGED <<handler, attempt, ack, inbox, reached>>

\* A unique violation is caught: the effect stays.
RacyInsert(s) ==
    /\ pc[s] = "applied"
    /\ inbox' = inbox \cup {MessageOf[s]}
    /\ SenderGoto(s, "answered")
    /\ UNCHANGED <<handler, attempt, ack, effects, reached>>

\* Mutant: the INSERT does not wait for an uncommitted row with its key.
MutInboxInsertDoesNotWait(s) ==
    LET m == MessageOf[s] IN
    /\ handler = "idempotent" /\ pc[s] = "received"
    /\ SenderGoto(s, IF m \in inbox THEN "answered" ELSE "claimed")
    /\ UNCHANGED <<handler, attempt, ack, inbox, effects, reached>>

\* BEGIN; INSERT ... ON CONFLICT DO NOTHING: it waits for a transaction that
\* holds the same key and finds it committed or free afterwards.
InboxInsert(s) ==
    LET m == MessageOf[s] IN
    /\ handler = "idempotent" /\ pc[s] = "received"
    /\ KeyHolders(m) = {}
    /\ SenderGoto(s, IF m \in inbox THEN "answered" ELSE "claimed")
    /\ UNCHANGED <<handler, attempt, ack, inbox, effects, reached>>

InboxUpdate(s) ==
    /\ pc[s] = "claimed"
    /\ RowHolders(AccountOf[MessageOf[s]]) = {}
    /\ SenderGoto(s, "updated")
    /\ UNCHANGED <<handler, attempt, ack, inbox, effects, reached>>

\* Mutant: the transaction ends with its locks held by a connection that is
\* never released.
MutInboxCommitKeepsLocks(s) ==
    /\ pc[s] = "updated" /\ MessageOf[s] \notin inbox
    /\ inbox' = inbox \cup {MessageOf[s]}
    /\ ApplyEffect(MessageOf[s])
    /\ UNCHANGED <<handler, pc, attempt, ack, reached>>

\* COMMIT makes the inbox row and the effect visible together; its answer may
\* be lost.
InboxCommit(s) ==
    /\ pc[s] = "updated"
    /\ inbox' = inbox \cup {MessageOf[s]}
    /\ ApplyEffect(MessageOf[s])
    /\ SenderGoto(s, "answered") \/ SenderGoto(s, "threw")
    /\ UNCHANGED <<handler, attempt, ack, reached>>

\* A statement of the receiver fails, or its process dies: an open transaction
\* is rolled back, and the error leaves the sender's loop.
ReceiverThrows(s) ==
    /\ pc[s] \in {"received", "checked", "applied", "claimed", "updated"}
    /\ SenderGoto(s, "threw")
    /\ UNCHANGED <<handler, attempt, ack, inbox, effects, reached>>

-----------------------------------------------------------------------------

Receive(s) == \/ ProcessNaive(s)
              \/ RacyCheck(s) \/ RacyUpdate(s) \/ RacyInsert(s)
              \/ InboxInsert(s) \/ InboxUpdate(s) \/ InboxCommit(s)

SenderStep(s) == MessageLost(s) \/ MessageArrives(s) \/ Receive(s) \/ NextAttempt(s)

DeliveryNext == \E s \in Senders : SenderStep(s) \/ ReceiverThrows(s)

DeliverySpec == DeliveryInit /\ [][DeliveryNext]_deliveryVars

-----------------------------------------------------------------------------
\* Types of the senders, the inbox and the counters.
DeliveryTypeOK ==
    /\ handler \in {"naive", "racy", "idempotent"}
    /\ pc \in [Senders -> {"ready", "received", "checked", "applied", "claimed", "updated",
                           "answered", "acked", "unacked", "threw"}]
    /\ attempt \in [Senders -> 1 .. MaxSends]
    /\ ack \in [Senders -> BOOLEAN]
    /\ inbox \subseteq Messages
    /\ effects \in [Messages -> Nat]
    /\ reached \in [Messages -> Nat]

\* At least once: whichever receiver is deployed, a sender that saw an
\* acknowledgment can rely on the effect being committed.
AckedWasApplied ==
    \A s \in Senders : pc[s] = "acked" => effects[MessageOf[s]] >= 1

\* Effectively once: retries, concurrent deliveries, lost answers and aborted
\* transactions leave the idempotent receiver with one effect per inbox row.
EffectivelyOnce ==
    handler = "idempotent" =>
        \A m \in Messages : effects[m] = IF m \in inbox THEN 1 ELSE 0

\* The effects of any receiver are bounded by the deliveries that reached it,
\* and for senders that try once by their number.
EffectsWithinDeliveries ==
    \A m \in Messages :
        /\ effects[m] <= reached[m]
        /\ (\A s \in Senders : MessageOf[s] = m => ModeOf[s] = "once")
              => reached[m] <= Cardinality({s \in Senders : MessageOf[s] = m})

\* What the three delivery semantics promise, each of the receiver it is about.
DeliverySafe == AckedWasApplied /\ EffectivelyOnce /\ EffectsWithinDeliveries

\* Nobody is left waiting on an inbox key or on an account row.
SendersEnded == \A s \in Senders : pc[s] \in {"acked", "unacked", "threw"}
=============================================================================
