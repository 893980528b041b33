------------------------------ MODULE Tickets ------------------------------
(***************************************************************************)
(* Lab 12: a seat of an event, the three ways a buyer tries to reserve it  *)
(* (check-then-act, a conditional UPDATE, SELECT ... FOR UPDATE), the      *)
(* payment that turns the hold into a sale and the worker that reverts     *)
(* lapsed holds.                                                           *)
(*                                                                         *)
(* Every scenario works on one seat.  An UPDATE on its own is two steps:   *)
(* its now() (and the reserved_until the application computed) is fixed    *)
(* when it is issued, and it takes effect later, once nobody holds the     *)
(* row.  A buyer's token is a fresh UUID, so it is the buyer's name.       *)
(***************************************************************************)
EXTENDS Naturals, FiniteSets

CONSTANTS
    Buyers,       \* concurrent attempts
    Mixes,        \* which mechanism each buyer uses
    HoldLength,   \* holdMinutes
    LastMinute    \* bound: the last minute of the clock

VARIABLES
    mechanism,  \* per buyer: "naive", "conditional" or "row_lock"
    ticket,     \* the row: [status, token, until]
    rowLock,    \* the buyer whose transaction has the row, or NoBuyer
    buyer,      \* per buyer: [pc, saw, at], at being a time the statement fixed
    held,       \* per buyer: reserved_until of the hold it was told it has
    expirer,    \* the expiration worker: "idle", or "issued" at expiredBefore
    expiredBefore,
    minute      \* the clock

ticketVars == <<mechanism, ticket, rowLock, buyer, held, expirer, expiredBefore, minute>>

NoBuyer == "none"
Available == [status |-> "AVAILABLE", token |-> NoBuyer, until |-> 0]
Mechanisms == {"naive", "conditional", "row_lock"}
\* The three races: everybody attempts the seat the same way at once.
NaiveReservation == [b \in Buyers |-> "naive"]
ConditionalReservation == [b \in Buyers |-> "conditional"]
RowLockReservation == [b \in Buyers |-> "row_lock"]
\* The demo seats of the payment and the expiration script: a hold of somebody
\* else that ends now.
Demo == "demo"
LapsedHold == [status |-> "RESERVED", token |-> Demo, until |-> 0]

\* Attempts are made one of the three ways; tokens are fresh UUIDs, so nobody
\* has the token of no one or of the demo seat.
ASSUME TicketAssumption ==
    /\ Mixes \subseteq [Buyers -> Mechanisms]
    /\ HoldLength \in Nat
    /\ NoBuyer \notin Buyers /\ Demo \notin Buyers

TicketInit ==
    /\ mechanism \in Mixes
    /\ ticket \in {Available, LapsedHold}
    /\ rowLock = NoBuyer
    /\ buyer = [b \in Buyers |-> [pc |-> "start", saw |-> "-", at |-> 0]]
    /\ held = [b \in Buyers |-> 0]
    /\ expirer = "idle" /\ expiredBefore = 0 /\ minute = 0

reservedUntilFromNow == minute + HoldLength
BuyerAt(b, p) == buyer[b].pc = p
Done(result) == [pc |-> result, saw |-> "-", at |-> 0]
Unlocked == rowLock = NoBuyer
Starts(b, how) == BuyerAt(b, "start") /\ mechanism[b] = how
Reserved(b, until) == [status |-> "RESERVED", token |-> b, until |-> until]

(***************************************************************************)
(* Check-then-act: SELECT status, think, UPDATE ... WHERE id.              *)
(***************************************************************************)
NaiveSelect(b) ==
    /\ Starts(b, "naive")
    /\ buyer' = [buyer EXCEPT ![b] = [@ EXCEPT !.pc = "looked", !.saw = ticket.status]]
    /\ UNCHANGED <<mechanism, ticket, rowLock, held, expirer, expiredBefore, minute>>
NaiveUpdate(b) ==
    /\ BuyerAt(b, "looked")
    /\ IF buyer[b].saw # "AVAILABLE"
       THEN buyer' = [buyer EXCEPT ![b] = Done("unavailable")] /\ UNCHANGED <<ticket, held>>
       ELSE /\ buyer' = [buyer EXCEPT ![b].pc = "reserved"]
            /\ ticket' = Reserved(b, reservedUntilFromNow)
            /\ held' = [held EXCEPT ![b] = reservedUntilFromNow]
    /\ UNCHANGED <<mechanism, rowLock, expirer, expiredBefore, minute>>

(***************************************************************************)
(* UPDATE ... WHERE id AND status = 'AVAILABLE'.                           *)
(***************************************************************************)
ConditionalIssue(b) ==
    /\ Starts(b, "conditional")
    /\ buyer' = [buyer EXCEPT ![b] = [@ EXCEPT !.pc = "issued",
                                               !.at = reservedUntilFromNow]]
    /\ UNCHANGED <<mechanism, ticket, rowLock, held, expirer, expiredBefore, minute>>
\* A row that already fails the condition is not waited for.
ConditionalMatches == ticket.status = "AVAILABLE"
ConditionalUpdate(b) ==
    /\ BuyerAt(b, "issued")
    /\ Unlocked \/ ~ConditionalMatches
    /\ IF ConditionalMatches
       THEN /\ buyer' = [buyer EXCEPT ![b].pc = "reserved"]
            /\ ticket' = Reserved(b, buyer[b].at)
            /\ held' = [held EXCEPT ![b] = buyer[b].at]
       ELSE buyer' = [buyer EXCEPT ![b] = Done("unavailable")] /\ UNCHANGED <<ticket, held>>
    /\ UNCHANGED <<mechanism, rowLock, expirer, expiredBefore, minute>>

(***************************************************************************)
(* BEGIN, SELECT ... FOR UPDATE, UPDATE, COMMIT.                           *)
(***************************************************************************)
RowLockSelect(b) ==
    /\ Starts(b, "row_lock") /\ Unlocked
    /\ rowLock' = b
    /\ buyer' = [buyer EXCEPT ![b] = [@ EXCEPT !.pc = "locked", !.saw = ticket.status]]
    /\ UNCHANGED <<mechanism, ticket, held, expirer, expiredBefore, minute>>
RowLockUpdate(b) ==
    /\ BuyerAt(b, "locked")
    /\ IF buyer[b].saw # "AVAILABLE"
       THEN buyer' = [buyer EXCEPT ![b] = Done("unavailable")] /\ rowLock' = NoBuyer
       ELSE /\ buyer' = [buyer EXCEPT ![b] = [@ EXCEPT !.pc = "updated",
                                                       !.at = reservedUntilFromNow]]
            /\ UNCHANGED rowLock
    /\ UNCHANGED <<mechanism, ticket, held, expirer, expiredBefore, minute>>
RowLockCommit(b) ==
    /\ BuyerAt(b, "updated")
    /\ ticket' = Reserved(b, buyer[b].at)
    /\ held' = [held EXCEPT ![b] = buyer[b].at]
    /\ buyer' = [buyer EXCEPT ![b].pc = "reserved"]
    /\ rowLock' = NoBuyer
    /\ UNCHANGED <<mechanism, expirer, expiredBefore, minute>>
\* A statement fails: ROLLBACK, and the error is thrown on.
RowLockFails(b) ==
    /\ buyer[b].pc \in {"locked", "updated"}
    /\ buyer' = [buyer EXCEPT ![b] = Done("error")]
    /\ rowLock' = NoBuyer
    /\ UNCHANGED <<mechanism, ticket, held, expirer, expiredBefore, minute>>

(***************************************************************************)
(* completePayment: UPDATE ... SET status = 'SOLD' WHERE it is RESERVED    *)
(* with this token and the hold has not lapsed.                            *)
(***************************************************************************)
PaymentIssue(b) ==
    /\ BuyerAt(b, "reserved")
    /\ buyer' = [buyer EXCEPT ![b] = [@ EXCEPT !.pc = "paying", !.at = minute]]
    /\ UNCHANGED <<mechanism, ticket, rowLock, held, expirer, expiredBefore, minute>>
\* Mutant: the hold's end is not looked at.
MutPaymentMatches(b) == ticket.status = "RESERVED"
PaymentMatches(b) ==
    ticket.status = "RESERVED" /\ ticket.token = b /\ ticket.until > buyer[b].at
CompletePayment(b) ==
    /\ BuyerAt(b, "paying")
    /\ Unlocked \/ ~PaymentMatches(b)
    /\ IF PaymentMatches(b)
       THEN /\ ticket' = [ticket EXCEPT !.status = "SOLD"]
            /\ buyer' = [buyer EXCEPT ![b].pc = "sold"]
       ELSE buyer' = [buyer EXCEPT ![b] = Done("failed")] /\ UNCHANGED ticket
    /\ UNCHANGED <<mechanism, rowLock, held, expirer, expiredBefore, minute>>

(***************************************************************************)
(* expireReservations: revert every RESERVED seat with reserved_until <    *)
(* now().  A hold that ends exactly now can neither be paid nor reverted.  *)
(***************************************************************************)
ExpireIssue ==
    /\ expirer = "idle"
    /\ expirer' = "issued" /\ expiredBefore' = minute
    /\ UNCHANGED <<mechanism, ticket, rowLock, buyer, held, minute>>
HasLapsed == ticket.status = "RESERVED" /\ ticket.until < expiredBefore
ExpireReservations ==
    /\ expirer = "issued"
    /\ Unlocked \/ ~HasLapsed
    /\ ticket' = IF HasLapsed THEN Available ELSE ticket
    /\ expirer' = "idle" /\ expiredBefore' = 0
    /\ UNCHANGED <<mechanism, rowLock, buyer, held, minute>>

MinutePasses ==
    /\ minute < LastMinute
    /\ minute' = minute + 1
    /\ UNCHANGED <<mechanism, ticket, rowLock, buyer, held, expirer, expiredBefore>>

BuyerStep(b) ==
    \/ NaiveSelect(b) \/ NaiveUpdate(b) \/ ConditionalIssue(b) \/ ConditionalUpdate(b)
    \/ RowLockSelect(b) \/ RowLockUpdate(b) \/ RowLockCommit(b) \/ RowLockFails(b)
    \/ PaymentIssue(b) \/ CompletePayment(b)
\* A statement that was sent, or a transaction that was begun, comes to its end.
StatementEnds(b) ==
    NaiveUpdate(b) \/ ConditionalUpdate(b) \/ RowLockUpdate(b) \/ RowLockCommit(b) \/ CompletePayment(b)
TicketNext ==
    \/ \E b \in Buyers : BuyerStep(b)
    \/ ExpireIssue \/ ExpireReservations \/ MinutePasses
TicketSpec == TicketInit /\ [][TicketNext]_ticketVars

(***************************************************************************)
(* Properties.                                                             *)
(***************************************************************************)
BuyerStates == {"start", "looked", "issued", "locked", "updated", "reserved", "paying",
                "sold", "unavailable", "failed", "error"}

TicketTypeOK ==
    /\ mechanism \in [Buyers -> Mechanisms]
    /\ ticket \in [status : {"AVAILABLE", "RESERVED", "SOLD"},
                  token : Buyers \cup {NoBuyer, Demo}, until : Nat]
    /\ rowLock \in Buyers \cup {NoBuyer}
    /\ buyer \in [Buyers -> [pc : BuyerStates, saw : {"-", "AVAILABLE", "RESERVED", "SOLD"}, at : Nat]]
    /\ held \in [Buyers -> Nat]
    /\ minute \in Nat /\ expiredBefore \in 0..minute

Protected == \A b \in Buyers : mechanism[b] # "naive"

\* A buyer who was told "reserved" has the seat until the hold lapses or it
\* pays: neither another attempt nor the expiration worker, whose now() may be
\* older than the reservation, takes it away (conditional and row-lock
\* reservation; the naive one is known to break this).
HoldIsKept ==
    Protected => \A b \in Buyers :
        buyer[b].pc \in {"reserved", "paying"} /\ minute <= held[b]
            => ticket = Reserved(b, held[b])

\* A seat is sold once, to the buyer it names, by a payment that was issued
\* while the hold of that buyer was still on, however late it took effect.
SoldOnce ==
    Protected => \A b \in Buyers :
        BuyerAt(b, "sold") => /\ ticket.status = "SOLD" /\ ticket.token = b
                              /\ buyer[b].at < held[b]

\* What a buyer may rely on.
TicketsSafe == HoldIsKept /\ SoldOnce

\* No hold blocks the seat: it was paid, or it was reverted once it had lapsed
\* (or the clock of the model stopped before its end).
HoldsLapsed == ticket.status = "RESERVED" => ticket.until >= LastMinute
=============================================================================
