----------------------------- MODULE MCPhoneQueue -----------------------------
(* PhoneQueue on small phones. *)
EXTENDS PhoneQueue

\* An app that places orders, and the delivery of one.
TwoOps == {1, 2}
PlaceAndDeliver == [o \in TwoOps |-> IF o = 1 THEN "place" ELSE "deliver"]
TwoOrders == [o \in TwoOps |-> IF o = 1 THEN "placed" ELSE "delivered"]
=============================================================================
