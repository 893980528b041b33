-------------------------- MODULE CheckoutService --------------------------
(***************************************************************************)
(* What the checkout of the capstone (lab 40) promises: a customer holds a *)
(* seat, and a logical checkout, named by its idempotency key, either      *)
(* happens once and as a whole (order, sale and notification event         *)
(* together) or leaves no trace.  Retries, crashes, lost responses, row    *)
(* locks and expiry do not show at this level.                             *)
(***************************************************************************)
CONSTANTS Keys, Seats, Customers, SeatOf, CustomerOf, NoOne

VARIABLES holder,   \* the customer each seat is held for, NoOne if free
          buyer,    \* the customer each seat is sold to, NoOne if unsold
          orders,   \* the keys that have their order
          events    \* the keys that have their OrderConfirmed event

serviceVars == <<holder, buyer, orders, events>>

ServiceInit ==
    /\ holder = [s \in Seats |-> NoOne]
    /\ buyer = [s \in Seats |-> NoOne]
    /\ orders = {}
    /\ events = {}

Hold(s, c) ==
    /\ holder[s] = NoOne
    /\ holder' = [holder EXCEPT ![s] = c]
    /\ UNCHANGED <<buyer, orders, events>>

Buy(k) ==
    /\ k \notin orders
    /\ holder[SeatOf[k]] = CustomerOf[k]
    /\ buyer[SeatOf[k]] = NoOne
    /\ buyer' = [buyer EXCEPT ![SeatOf[k]] = CustomerOf[k]]
    /\ orders' = orders \cup {k}
    /\ events' = events \cup {k}
    /\ UNCHANGED holder

ServiceNext == \/ \E s \in Seats, c \in Customers : Hold(s, c)
               \/ \E k \in Keys : Buy(k)

ServiceSpec == ServiceInit /\ [][ServiceNext]_serviceVars
=============================================================================
