--------------------------- MODULE OrderLifecycle ---------------------------
(***************************************************************************)
(* What the order aggregate promises to everybody who looks at an order:   *)
(* the ten-state lifecycle of domain/order/order.py and the rule that an   *)
(* order which has left with a van is cancelled only by a Manager deciding *)
(* a pending request (D-19).  Routes, vans and stock do not appear here;   *)
(* Fulfilment, which has them all, implements this specification.          *)
(***************************************************************************)
CONSTANT Orders

VARIABLES
    status,   \* [Orders -> OrderStatuses]; "draft" is an order not yet saved
    request   \* the orders with an undecided cancellation_record

vars == <<status, request>>
-----------------------------------------------------------------------------
OrderStatuses ==
    {"draft", "booked", "confirmed", "assigned", "ready_for_dispatch",
     "out_for_delivery", "failed_delivery", "delivered", "closed", "cancelled"}

Transitions ==
    {<<"draft", "booked">>,
     <<"booked", "confirmed">>, <<"booked", "cancelled">>,
     <<"confirmed", "assigned">>, <<"confirmed", "cancelled">>,
     <<"assigned", "ready_for_dispatch">>, <<"assigned", "cancelled">>,
     <<"ready_for_dispatch", "out_for_delivery">>,
     <<"ready_for_dispatch", "cancelled">>,
     <<"out_for_delivery", "delivered">>,
     <<"out_for_delivery", "failed_delivery">>,
     <<"out_for_delivery", "cancelled">>,
     <<"failed_delivery", "ready_for_dispatch">>,
     <<"failed_delivery", "confirmed">>, <<"failed_delivery", "cancelled">>,
     <<"delivered", "closed">>}

FreeCancelStates == {"booked", "confirmed", "assigned", "ready_for_dispatch"}

ApprovalCancelStates == {"out_for_delivery", "failed_delivery"}

TypeOK ==
    /\ status \in [Orders -> OrderStatuses]
    /\ request \in SUBSET Orders
-----------------------------------------------------------------------------
Init ==
    /\ status = [o \in Orders |-> "draft"]
    /\ request = {}

\* Every lifecycle edge but the ones into "cancelled".
Progress(o) ==
    /\ \E to \in OrderStatuses \ {"cancelled"} :
          /\ <<status[o], to>> \in Transitions
          /\ status' = [status EXCEPT ![o] = to]
    /\ UNCHANGED request

CancelFree(o) ==
    /\ status[o] \in FreeCancelStates
    /\ status' = [status EXCEPT ![o] = "cancelled"]
    /\ UNCHANGED request

RequestCancellation(o) ==
    /\ status[o] \in ApprovalCancelStates
    /\ o \notin request
    /\ request' = request \cup {o}
    /\ UNCHANGED status

RejectCancellation(o) ==
    /\ o \in request
    /\ request' = request \ {o}
    /\ UNCHANGED status

ApproveCancellation(o) ==
    /\ o \in request
    /\ status[o] \in ApprovalCancelStates
    /\ status' = [status EXCEPT ![o] = "cancelled"]
    /\ request' = request \ {o}

\* A trip loaded and dispatched in one transaction releases all its orders
\* together, taking the new ones through "assigned" on the way.
DispatchTogether(S) ==
    /\ \A o \in S : status[o] \in {"confirmed", "assigned", "ready_for_dispatch"}
    /\ status' = [o \in Orders |->
                     IF o \in S THEN "ready_for_dispatch" ELSE status[o]]
    /\ UNCHANGED request

Next ==
    \/ \E o \in Orders :
          \/ Progress(o)
          \/ CancelFree(o)
          \/ RequestCancellation(o)
          \/ RejectCancellation(o)
          \/ ApproveCancellation(o)
    \/ \E S \in SUBSET Orders : DispatchTogether(S)

Spec == Init /\ [][Next]_vars
=============================================================================
