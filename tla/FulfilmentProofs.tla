--------------------------- MODULE FulfilmentProofs ---------------------------
(***************************************************************************)
(* What Fulfilment promises, for any number of orders, trips, drivers,     *)
(* vehicles and cylinders: types, orders and stops that agree, trips,      *)
(* deliveries, and the stock, part by part.                                *)
(***************************************************************************)
EXTENDS FulfilmentProperties, SumTheorems, TLAPS

USE DEF Quantities

\* No cylinders, and what a request may ask for, are quantities.
LEMMA NoneIsQuantity == None \in Quantities
BY DEF None

\* What a caller asks for is a quantity.
LEMMA RequestsAreQuantities == Requests \subseteq Quantities
BY BoundsAssumption DEF Requests

\* A delivery report has one line or more for each type it names, and a line
\* counts cylinders.
LEMMA ReportIsLines ==
    ASSUME NEW o, NEW report \in Reports(o), NEW t \in DOMAIN report
    PROVE  /\ t \in Types
           /\ Len(report[t]) \in Nat \ {0}
           /\ DOMAIN report[t] = 1..Len(report[t])
           /\ \A i \in DOMAIN report[t] :
                 report[t][i].given \in Nat /\ report[t][i].empty \in Nat
<1>1. PICK n \in Nat \ {0} : t \in Types /\ report[t] \in [1..n -> ReportLine]
  <2>1. CASE CompleteReports
    <3>1. report \in [Lines(o) -> [1..1 -> ReportLine]]
      BY <2>1 DEF Reports
    <3>2. t \in Lines(o) /\ report[t] \in [1..1 -> ReportLine]
      BY <3>1
    <3> QED
      BY <3>2 DEF Lines
  <2>2. CASE ~ CompleteReports
    <3>1. PICK named \in (SUBSET Lines(o)) \ {{}} :
             report \in [named -> UNION {[1..n -> ReportLine] : n \in 1..MaxLines}]
      BY <2>2 DEF Reports
    <3>2. t \in named /\ report[t] \in UNION {[1..n -> ReportLine] : n \in 1..MaxLines}
      BY <3>1
    <3>3. PICK n \in 1..MaxLines : report[t] \in [1..n -> ReportLine]
      BY <3>2
    <3>4. n \in Nat \ {0}
      BY BoundsAssumption
    <3> QED
      BY <3>2, <3>3, <3>4 DEF Lines
  <2> QED
    BY <2>1, <2>2
<1>2. report[t] \in Seq(ReportLine) /\ Len(report[t]) = n /\ DOMAIN report[t] = 1..n
  BY <1>1
<1>3. ASSUME NEW i \in DOMAIN report[t]
      PROVE  report[t][i].given \in Nat /\ report[t][i].empty \in Nat
  <2>1. report[t][i] \in ReportLine
    BY <1>1, <1>3
  <2>2. report[t][i].given \in 0..MaxQty /\ report[t][i].empty \in EmptiesBack
    BY <2>1 DEF ReportLine
  <2>3. EmptiesBack \subseteq Nat /\ MaxQty \in Nat
    BY BoundsAssumption
  <2>4. report[t][i].empty \in Nat
    BY <2>2, <2>3, Zenon
  <2>5. report[t][i].given \in Nat
    BY <2>2, <2>3
  <2> QED
    BY <2>4, <2>5
<1> QED
  BY <1>1, <1>2, <1>3

\* Of a list of counts the total is no less than the last, and no more if it is
\* the only one.
LEMMA LastOfTotal ==
    ASSUME NEW n \in Nat \ {0}, NEW f, \A i \in 1..n : f[i] \in Nat
    PROVE  /\ SumFunctionOnSet(f, 1..n) \in Nat
           /\ f[n] <= SumFunctionOnSet(f, 1..n)
           /\ n = 1 => SumFunctionOnSet(f, 1..n) = f[n]
<1>1. IsFiniteSet(1..n) /\ n \in 1..n
  BY FS_Interval
<1>2. SumFunctionOnSet(f, 1..n) \in Nat /\ f[n] <= SumFunctionOnSet(f, 1..n)
  BY <1>1, SumNat, SumAtLeast
<1>3. SumFunctionOnSet(f, 1..n) = f[n] + SumFunctionOnSet(f, (1..n) \ {n})
  BY <1>1, SumLess
<1>4. n = 1 => (1..n) \ {n} = {}
  OBVIOUS
<1>5. f[n] \in Nat
  BY <1>1
<1>6. n = 1 => SumFunctionOnSet(f, (1..n) \ {n}) = 0
  BY <1>4, SumEmpty
<1>7. n = 1 => SumFunctionOnSet(f, 1..n) = f[n]
  BY <1>3, <1>5, <1>6
<1> QED
  BY <1>2, <1>7

\* Sums of quantities are quantities, and so are differences that are covered.
LEMMA PlusIsQuantity ==
    ASSUME NEW a \in Quantities, NEW b \in Quantities
    PROVE  Plus(a, b) \in Quantities
BY DEF Plus

\* What is left of a quantity that covers another is a quantity.
LEMMA MinusIsQuantity ==
    ASSUME NEW a \in Quantities, NEW b \in Quantities, Covers(a, b)
    PROVE  Minus(a, b) \in Quantities
BY DEF Minus, Covers

\* A route that exists has its crew (Route.plan takes both ids).
Crewed ==
    \A r \in Routes : routeStatus[r] # "none" =>
        driverOf[r] \in Drivers /\ vehicleOf[r] \in Vehicles

\* A line never owes more than was ordered, and an unsaved order owes nothing.
OwedIsOrdered ==
    \A o \in Orders :
        /\ Covers(ordered[o], pending[o])
        /\ status[o] = "draft" => pending[o] = None

\* TypeOK made inductive: a reservation given back is ordered - pending, and the
\* vehicle of a trip is looked up to reserve on it.
TypeInv == TypeOK /\ Crewed /\ OwedIsOrdered

\* The empty branch is well typed.
LEMMA InitTypeInv == Init => TypeInv
BY NoneIsQuantity, BoundsAssumption, NamesAssumption
   DEF Init, TypeInv, TypeOK, Crewed, OwedIsOrdered, Covers, None, RouteStatuses,
       StopStatuses, LC!OrderStatuses

\* What is reserved for an order is never negative, so Release adds stock.
LEMMA ReservedIsQuantity ==
    ASSUME TypeInv, NEW o \in Orders
    PROVE  Reserved(o) \in Quantities
BY MinusIsQuantity DEF TypeInv, TypeOK, OwedIsOrdered, Reserved

\* VehicleCapacityChecker.allocate takes no more than the van has or the order wants.
LEMMA AllocateIsQuantity ==
    ASSUME TypeInv, NEW o \in Orders, NEW v \in Vehicles
    PROVE  /\ Allocate(v, o) \in Quantities
           /\ Covers(van[v], Allocate(v, o))
           /\ Covers(ordered[o], Allocate(v, o))
BY DEF TypeInv, TypeOK, Allocate, Covers

\* Putting an order on a trip leaves counts in the van and in the backorder.
LEMMA PutOnTripTypeInv ==
    ASSUME TypeInv, NEW o \in Orders, NEW r \in Routes, NEW v \in Vehicles,
           PutOnTrip(o, r, v)
    PROVE  /\ status' \in [Orders -> LC!OrderStatuses]
           /\ tripOf' \in [Orders -> Routes \cup {NoRoute}]
           /\ pending' \in [Orders -> Quantities]
           /\ van' \in [Vehicles -> Quantities]
           /\ stops' \in [Routes -> [Orders -> StopStatuses]]
           /\ OwedIsOrdered'
<1>1. /\ Minus(ordered[o], Allocate(v, o)) \in Quantities
      /\ Minus(van[v], Allocate(v, o)) \in Quantities
  BY AllocateIsQuantity, MinusIsQuantity DEF TypeInv, TypeOK
<1>2. Covers(ordered[o], Minus(ordered[o], Allocate(v, o)))
  BY AllocateIsQuantity DEF TypeInv, TypeOK, Covers, Minus
<1>3. OwedIsOrdered'
  BY <1>1, <1>2 DEF TypeInv, TypeOK, OwedIsOrdered, PutOnTrip
<1> QED
  BY <1>1, <1>3
     DEF TypeInv, TypeOK, PutOnTrip, LC!OrderStatuses, StopStatuses

\* What a report gives back to the van and brings back to it, of a type it names:
\* at least what its last line does, and exactly that if it is the only line.
LEMMA ReportTotals ==
    ASSUME TypeInv, NEW o \in Orders, NEW report \in Reports(o),
           WithinReserved(o, report), NEW t \in DOMAIN report
    PROVE  LET left == Reserved(o)[t] - LastLine(report[t]).given
               brought == LastLine(report[t]).empty
           IN  /\ LastLine(report[t]).given \in Nat /\ left \in Nat /\ brought \in Nat
               /\ Shortfall(o, report)[t] \in Nat /\ left <= Shortfall(o, report)[t]
               /\ Back(report)[t] \in Nat /\ brought <= Back(report)[t]
               /\ Len(report[t]) = 1 =>
                     Shortfall(o, report)[t] = left /\ Back(report)[t] = brought
<1> DEFINE n == Len(report[t])
           lefts == [i \in DOMAIN report[t] |-> Reserved(o)[t] - report[t][i].given]
           backs == [i \in DOMAIN report[t] |-> report[t][i].empty]
<1>1. /\ t \in Types /\ n \in Nat \ {0} /\ DOMAIN report[t] = 1..n
      /\ \A i \in DOMAIN report[t] :
            report[t][i].given \in Nat /\ report[t][i].empty \in Nat
  BY ReportIsLines
<1>2. /\ Shortfall(o, report)[t] = SumFunctionOnSet(lefts, 1..n)
      /\ Back(report)[t] = SumFunctionOnSet(backs, 1..n)
  BY <1>1 DEF Shortfall, Back, Sum
<1>3. Reserved(o)[t] \in Nat
  BY <1>1, ReservedIsQuantity
<1>4. \A i \in 1..n : /\ report[t][i].given <= Reserved(o)[t]
                     /\ lefts[i] = Reserved(o)[t] - report[t][i].given
                     /\ backs[i] = report[t][i].empty
  BY <1>1 DEF WithinReserved
<1> HIDE DEF lefts, backs
<1>5. (\A i \in 1..n : lefts[i] \in Nat) /\ (\A i \in 1..n : backs[i] \in Nat)
  <2> SUFFICES ASSUME NEW i \in 1..n
               PROVE  lefts[i] \in Nat /\ backs[i] \in Nat
    OBVIOUS
  <2>1. report[t][i].given \in Nat /\ report[t][i].empty \in Nat
    BY <1>1
  <2> QED
    BY <1>3, <1>4, <2>1
<1>6. n \in 1..n
  BY <1>1
<1>7. /\ lefts[n] = Reserved(o)[t] - LastLine(report[t]).given
      /\ backs[n] = LastLine(report[t]).empty
      /\ LastLine(report[t]).given \in Nat
  BY <1>1, <1>4, <1>6 DEF LastLine
<1>8. lefts[n] \in Nat /\ backs[n] \in Nat
  BY <1>5, <1>6
<1>9. /\ SumFunctionOnSet(lefts, 1..n) \in Nat
      /\ lefts[n] <= SumFunctionOnSet(lefts, 1..n)
      /\ n = 1 => SumFunctionOnSet(lefts, 1..n) = lefts[n]
  BY <1>1, <1>5, LastOfTotal
<1>10. /\ SumFunctionOnSet(backs, 1..n) \in Nat
       /\ backs[n] <= SumFunctionOnSet(backs, 1..n)
       /\ n = 1 => SumFunctionOnSet(backs, 1..n) = backs[n]
  BY <1>1, <1>5, LastOfTotal
<1> QED
  BY <1>2, <1>7, <1>8, <1>9, <1>10

\* A delivery whose report has more lines than one for a type names it twice.
LEMMA TwiceIsNamed ==
    ASSUME NEW o \in Orders, NEW report \in Reports(o), DeliverOrder(o, report),
           NEW t \in DOMAIN report, Len(report[t]) # 1
    PROVE  NamedTwice(t)
<1> DEFINE n == Len(report[t])
<1>1. n \in Nat \ {0}
  BY ReportIsLines
<1> HIDE DEF n
<1>2. n # 1 => n > 1
  BY <1>1
<1>3. Len(report[t]) > 1
  BY <1>2 DEF n
<1> QED
  BY <1>3, Zenon DEF NamedTwice

\* A delivery report never drives a balance below zero (WithinReserved).
LEMMA DeliverTypeInv ==
    ASSUME TypeInv, NEW o \in Orders, NEW report \in Reports(o),
           DeliverOrder(o, report)
    PROVE  TypeInv'
<1>1. /\ WithinReserved(o, report)
      /\ Shortfall(o, report) = [t \in Types |-> Shortfall(o, report)[t]]
      /\ Back(report) = [t \in Types |-> Back(report)[t]]
  BY DEF DeliverOrder, Shortfall, Back
<1>2. /\ Shortfall(o, report) \in Quantities
      /\ Back(report) \in Quantities
  <2>1. ASSUME NEW t \in Types
        PROVE  Shortfall(o, report)[t] \in Nat /\ Back(report)[t] \in Nat
    <3>1. CASE t \in DOMAIN report
      BY <1>1, <3>1, ReportTotals
    <3>2. CASE t \notin DOMAIN report
      BY <3>2 DEF Shortfall, Back
    <3> QED
      BY <3>1, <3>2
  <2> QED
    BY <1>1, <2>1
<1> USE DEF TypeInv
<1>3. tripOf[o] \in Routes
  BY DEF TypeOK, DeliverOrder
<1>4. Settled(tripOf[o], o, "delivered", Started(tripOf[o])) \in RouteStatuses \ {"none"}
  BY <1>3 DEF TypeOK, DeliverOrder, Settled, Started, RouteStatuses
<1>5. /\ delivered' \in [Orders -> Quantities]
      /\ collected' \in [Orders -> Quantities]
  <2>1. \A t \in DOMAIN report :
           LastLine(report[t]).given \in Nat /\ LastLine(report[t]).empty \in Nat
    BY <1>1, ReportTotals
  <2>2. /\ [t \in Types |-> IF t \in DOMAIN report THEN LastLine(report[t]).given
                            ELSE delivered[o][t]] \in Quantities
        /\ [t \in Types |-> IF t \in DOMAIN report THEN LastLine(report[t]).empty
                            ELSE collected[o][t]] \in Quantities
    BY <2>1 DEF TypeOK
  <2> QED
    BY <2>2 DEF TypeOK, DeliverOrder
<1>6. /\ van' \in [Vehicles -> Quantities]
      /\ vanEmpty' \in [Vehicles -> Quantities]
  BY <1>2, PlusIsQuantity DEF TypeOK, DeliverOrder
<1>7. TypeOK'
  BY <1>3, <1>4, <1>5, <1>6
     DEF TypeOK, DeliverOrder, LC!OrderStatuses, StopStatuses, crewVars, loadVars
<1>8. Crewed'
  BY <1>3, <1>4 DEF TypeOK, DeliverOrder, Crewed, crewVars, Started, RouteStatuses
<1>9. OwedIsOrdered'
  BY DEF TypeOK, DeliverOrder, OwedIsOrdered
<1> QED
  BY <1>7, <1>8, <1>9
\* What update_load_manifest is given is a quantity: only lines with cylinders
\* reserved are added up.
LEMMA VanManifestIsQuantity ==
    ASSUME TypeOK, NEW free \in Quantities, NEW trip \in SUBSET Orders,
           NEW owed \in [Orders -> Quantities]
    PROVE  VanManifest(free, trip, owed) \in Quantities
<1> SUFFICES ASSUME NEW t \in Types
             PROVE  VanManifest(free, trip, owed)[t] \in Nat
  BY DEF VanManifest
<1> DEFINE reserved == [o \in trip |-> ordered[o][t] - owed[o][t] - delivered[o][t]]
           S == {o \in trip : reserved[o] > 0}
<1>1. \A o \in trip : reserved[o] \in Int
  BY DEF TypeOK
<1>2. IsFiniteSet(S)
  BY FiniteAssumption, FS_Subset
<1>3. \A o \in S : reserved[o] \in Nat
  BY <1>1
<1>4. VanManifest(free, trip, owed)[t] = free[t] + SumFunctionOnSet(reserved, S)
  BY DEF VanManifest, Sum
<1> HIDE DEF reserved, S
<1> QED
  BY <1>2, <1>3, <1>4, SumNat

\* So is what a trip needs.
LEMMA NeededIsQuantity ==
    ASSUME TypeOK, NEW r, NEW new \in SUBSET Orders
    PROVE  Needed(r, new) \in Quantities
<1> SUFFICES ASSUME NEW t \in Types
             PROVE  Needed(r, new)[t] \in Nat
  BY DEF Needed
<1> DEFINE backorder == [o \in Waiting(r) |-> pending[o][t]]
           whole == [o \in new |-> ordered[o][t]]
<1>1. Waiting(r) \in SUBSET Orders /\ IsFiniteSet(Waiting(r)) /\ IsFiniteSet(new)
  BY FiniteAssumption, FS_Subset DEF Waiting, PendingOn
<1>2. /\ \A o \in Waiting(r) : backorder[o] \in Nat
      /\ \A o \in new : whole[o] \in Nat
  BY <1>1 DEF TypeOK
<1>3. Needed(r, new)[t] = SumFunctionOnSet(backorder, Waiting(r))
                          + SumFunctionOnSet(whole, new)
  BY DEF Needed, Sum
<1> HIDE DEF backorder, whole
<1> QED
  BY <1>1, <1>2, <1>3, SumNat

\* Loading what is missing from the warehouse covers what is taken from the van.
LEMMA LoadAndDispatchTypeInv ==
    ASSUME TypeInv, NEW r \in Routes, NEW new \in SUBSET Orders,
           NEW extra \in Requests \cup {None}, LoadAndDispatchRoute(r, new, extra)
    PROVE  TypeInv'
<1> USE DEF TypeInv
<1> DEFINE v == vehicleOf[r]
           needed == Needed(r, new)
           toLoad == [t \in Types |->
                         (IF needed[t] > van[v][t] THEN needed[t] - van[v][t] ELSE 0)
                         + extra[t]]
           free == Minus(Plus(van[v], toLoad), needed)
<1>1. v \in Vehicles
  BY DEF LoadAndDispatchRoute, Crewed
<1>2. needed \in Quantities /\ extra \in Quantities /\ van[v] \in Quantities
  BY <1>1, NeededIsQuantity, NoneIsQuantity, RequestsAreQuantities DEF TypeOK
<1>3. toLoad \in Quantities /\ Covers(Plus(van[v], toLoad), needed)
  BY <1>2 DEF Covers, Plus
<1>4. free \in Quantities
  BY <1>2, <1>3, PlusIsQuantity, MinusIsQuantity
<1>5. /\ warehouse' \in Quantities
      /\ van' \in [Vehicles -> Quantities]
  BY <1>3, <1>4, MinusIsQuantity DEF LoadAndDispatchRoute, TypeOK
<1>6. /\ pending' \in [Orders -> Quantities]
      /\ OwedIsOrdered'
  BY NoneIsQuantity DEF LoadAndDispatchRoute, TypeOK, OwedIsOrdered, Covers, None
<1>7. /\ manifest' \in [Routes -> Quantities]
      /\ loadConfirmed' \in [Routes -> BOOLEAN]
  <2> DEFINE orders == Waiting(r) \cup new
             owed == [o \in Orders |-> IF o \in orders THEN None ELSE pending[o]]
             carried == VanManifest(free, orders, owed)
  <2>1. owed \in [Orders -> Quantities] /\ orders \in SUBSET Orders
    BY NoneIsQuantity DEF TypeOK, Waiting, PendingOn
  <2>2. carried \in Quantities
    BY <1>4, <2>1, VanManifestIsQuantity
  <2>3. /\ manifest' = [manifest EXCEPT ![r] = carried]
        /\ loadConfirmed' = [loadConfirmed EXCEPT ![r] = StillConfirmed(r, carried)]
    BY DEF LoadAndDispatchRoute
  <2> HIDE DEF carried
  <2> QED
    BY <2>2, <2>3 DEF TypeOK, StillConfirmed
<1>8. /\ status' \in [Orders -> LC!OrderStatuses]
      /\ tripOf' \in [Orders -> Routes \cup {NoRoute}]
      /\ stops' \in [Routes -> [Orders -> StopStatuses]]
      /\ routeStatus' \in [Routes -> RouteStatuses]
  BY DEF LoadAndDispatchRoute, TypeOK, LC!OrderStatuses, StopStatuses, RouteStatuses
<1>9. Crewed'
  BY <1>1 DEF LoadAndDispatchRoute, TypeOK, Crewed, crewVars
<1> QED
  BY <1>5, <1>6, <1>7, <1>8, <1>9 DEF LoadAndDispatchRoute, TypeOK, crewVars
\* release_reservation keeps the van's balances counts.
LEMMA ReleaseTypeInv ==
    ASSUME TypeInv, NEW o \in Orders, NEW v, Release(o, v)
    PROVE  van' \in [Vehicles -> Quantities]
BY ReservedIsQuantity, PlusIsQuantity DEF TypeInv, TypeOK, Release

\* Either way of cancelling an order keeps the state well typed.
LEMMA CancelTypeInv ==
    ASSUME TypeInv, NEW o \in Orders, Cancel(o), request' \in SUBSET Orders
    PROVE  TypeInv'
<1> USE DEF TypeInv
<1>1. van' \in [Vehicles -> Quantities]
  BY ReleaseTypeInv DEF Cancel, TypeOK
<1>2. /\ routeStatus' \in [Routes -> RouteStatuses]
      /\ stops' \in [Routes -> [Orders -> StopStatuses]]
      /\ \A r \in Routes : routeStatus'[r] # "none" => routeStatus[r] # "none"
  <2>1. CASE tripOf[o] = NoRoute
    BY <2>1 DEF Cancel, TypeOK
  <2>2. CASE tripOf[o] # NoRoute
    <3>1. tripOf[o] \in Routes /\ CancelStop(o, tripOf[o])
      BY <2>2 DEF Cancel, TypeOK
    <3>2. \A at : Settled(tripOf[o], o, "cancelled", at) \in {at, "completed"}
      BY DEF Settled
    <3>3. routeStatus'[tripOf[o]] = "completed" => routeStatus[tripOf[o]] # "none"
      BY <3>1 DEF CancelStop, Settled, TypeOK
    <3> QED
      BY <3>1, <3>2, <3>3 DEF CancelStop, TypeOK, RouteStatuses, StopStatuses
  <2> QED
    BY <2>1, <2>2
<1>3. TypeOK'
  BY <1>1, <1>2 DEF Cancel, TypeOK, LC!OrderStatuses, orderVars, crewVars, loadVars
<1>4. Crewed'
  BY <1>2 DEF Cancel, TypeOK, Crewed, crewVars
<1>5. OwedIsOrdered'
  BY DEF Cancel, TypeOK, OwedIsOrdered, orderVars
<1> QED
  BY <1>3, <1>4, <1>5

\* Every use case keeps the state well typed.
LEMMA NextTypeInv == TypeInv /\ [Next]_vars => TypeInv'
<1> SUFFICES ASSUME TypeInv, [Next]_vars
             PROVE  TypeInv'
  OBVIOUS
<1> USE DEF TypeInv, TypeOK, Crewed, OwedIsOrdered, Covers,
            orderVars, crewVars, loadVars, stockVars
<1>1. ASSUME NEW o \in Orders, NEW q \in Requests, CreateOrder(o, q)
      PROVE  TypeInv'
  BY <1>1, RequestsAreQuantities
     DEF CreateOrder, CanMove, None, LC!Transitions, LC!OrderStatuses
<1>2. ASSUME NEW o \in Orders, NEW q \in Requests, AmendOrder(o, q)
      PROVE  TypeInv'
  BY <1>2, RequestsAreQuantities, NoneIsQuantity DEF AmendOrder, Repriced, None
<1>3. ASSUME NEW o \in Orders, ConfirmOrder(o)
      PROVE  TypeInv'
  BY <1>3 DEF ConfirmOrder, LC!OrderStatuses
<1>4. ASSUME NEW o \in Orders, NEW r \in Routes, AssignOrderToRoute(o, r)
      PROVE  TypeInv'
  <2>1. vehicleOf[r] \in Vehicles /\ PutOnTrip(o, r, vehicleOf[r])
    BY <1>4 DEF AssignOrderToRoute
  <2> QED
    BY <1>4, <2>1, PutOnTripTypeInv DEF AssignOrderToRoute, PutOnTrip
<1>5. ASSUME NEW o \in Orders, NEW r \in Routes, NEW d \in Drivers, NEW v \in Vehicles,
             AssignOrderToNewRoute(o, r, d, v)
      PROVE  TypeInv'
  BY <1>5, PutOnTripTypeInv DEF AssignOrderToNewRoute, PutOnTrip, RouteStatuses
<1>6. ASSUME NEW o \in Orders, DispatchOrder(o)
      PROVE  TypeInv'
  BY <1>6 DEF DispatchOrder, LC!OrderStatuses
<1>7. ASSUME NEW o \in Orders, DepartOrder(o)
      PROVE  TypeInv'
  BY <1>7 DEF DepartOrder, Started, LC!OrderStatuses, RouteStatuses
<1>8. ASSUME NEW o \in Orders, ResendDeliveryOtp(o) \/ LoseCode(o)
      PROVE  TypeInv'
  BY <1>8 DEF ResendDeliveryOtp, LoseCode
<1>9. ASSUME NEW o \in Orders, NEW report \in Reports(o),
             DeliverOrder(o, report)
      PROVE  TypeInv'
  BY <1>9, DeliverTypeInv
<1>10. ASSUME NEW o \in Orders, RecordFailedDelivery(o)
       PROVE  TypeInv'
  BY <1>10 DEF RecordFailedDelivery, Settled, Started, LC!OrderStatuses, RouteStatuses,
               StopStatuses
<1>11. ASSUME NEW o \in Orders, RescheduleOrder(o)
       PROVE  TypeInv'
  BY <1>11 DEF RescheduleOrder, LC!OrderStatuses, RouteStatuses, StopStatuses
<1>12. ASSUME NEW o \in Orders, RescheduleToAnotherDay(o)
       PROVE  TypeInv'
  <2>1. van' \in [Vehicles -> Quantities]
    BY <1>12, ReleaseTypeInv DEF RescheduleToAnotherDay
  <2> QED
    BY <1>12, <2>1, NoneIsQuantity DEF RescheduleToAnotherDay, None, LC!OrderStatuses
<1>13. ASSUME NEW o \in Orders, CancelOrderFree(o)
       PROVE  TypeInv'
  BY <1>13, CancelTypeInv DEF CancelOrderFree
<1>14. ASSUME NEW o \in Orders, RequestCancellation(o) \/ RejectCancellation(o)
       PROVE  TypeInv'
  BY <1>14 DEF RequestCancellation, RejectCancellation
<1>15. ASSUME NEW o \in Orders, ApproveCancellation(o)
       PROVE  TypeInv'
  BY <1>15, CancelTypeInv DEF ApproveCancellation
<1>16. ASSUME NEW o \in Orders, CloseOrder(o)
       PROVE  TypeInv'
  BY <1>16 DEF CloseOrder, LC!OrderStatuses
<1>17. ASSUME NEW r \in Routes, NEW d \in Drivers, NEW v \in Vehicles, PlanRoute(r, d, v)
       PROVE  TypeInv'
  BY <1>17 DEF PlanRoute, RouteStatuses
<1>18. ASSUME NEW r \in Routes, NEW q \in Requests, LoadVehicleForRoute(r, q)
       PROVE  TypeInv'
  <2>1. q \in Quantities
    BY RequestsAreQuantities
  <2>2. warehouse' \in Quantities
    BY <1>18, <2>1, MinusIsQuantity DEF LoadVehicleForRoute
  <2>3. van' \in [Vehicles -> Quantities]
    BY <1>18, <2>1, PlusIsQuantity DEF LoadVehicleForRoute
  <2>4. manifest' \in [Routes -> Quantities]
    <3> DEFINE carried == VanManifest(Plus(van[vehicleOf[r]], q), PendingOn(r), pending)
    <3>1. routeStatus[r] = "planned"
      BY <1>18 DEF LoadVehicleForRoute, RouteCanMove, RouteTransitions
    <3>2. van[vehicleOf[r]] \in Quantities
      BY <3>1
    <3>3. carried \in Quantities
      BY <2>1, <3>2, PlusIsQuantity, VanManifestIsQuantity DEF PendingOn
    <3>4. manifest' = [manifest EXCEPT ![r] = carried]
      BY <1>18 DEF LoadVehicleForRoute
    <3> HIDE DEF carried
    <3> QED
      BY <3>3, <3>4
  <2> QED
    BY <1>18, <2>2, <2>3, <2>4
       DEF LoadVehicleForRoute, RouteCanMove, RouteTransitions, RouteStatuses
<1>19. ASSUME NEW r \in Routes, NEW new \in SUBSET Orders,
              NEW extra \in Requests \cup {None}, LoadAndDispatchRoute(r, new, extra)
       PROVE  TypeInv'
  BY <1>19, LoadAndDispatchTypeInv
<1>20. ASSUME NEW r \in Routes, ConfirmRouteLoad(r)
       PROVE  TypeInv'
  BY <1>20 DEF ConfirmRouteLoad
<1>21. ASSUME NEW r \in Routes, NEW to \in RouteStatuses, UpdateRouteStatus(r, to)
       PROVE  TypeInv'
  BY <1>21 DEF UpdateRouteStatus, RouteCanMove, RouteTransitions
<1>22. ASSUME NEW r \in Routes, CompleteRouteReconciliation(r)
       PROVE  TypeInv'
  BY <1>22 DEF CompleteRouteReconciliation, RouteCanMove, RouteTransitions, RouteStatuses
<1>23. ASSUME NEW v \in Vehicles, NEW q \in Requests, LoadTransfer(v, q)
       PROVE  TypeInv'
  BY <1>23, RequestsAreQuantities, PlusIsQuantity, MinusIsQuantity DEF LoadTransfer
<1>24. ASSUME NEW v \in Vehicles, RecordCount(v)
       PROVE  TypeInv'
  BY <1>24 DEF RecordCount
<1>25. ASSUME NEW v \in Vehicles, NEW decision \in Decisions, DecideCount(v, decision)
       PROVE  TypeInv'
  <2>1. decision \in {"approved", "rejected"}
    BY BoundsAssumption
  <2> QED
    BY <1>25, <2>1 DEF DecideCount
<1>26. CASE UNCHANGED vars
  BY <1>26 DEF vars
<1> HIDE DEF TypeInv
<1>27. ASSUME NEW o \in Orders, OrderStep(o)
       PROVE  TypeInv'
  BY <1>1, <1>2, <1>3, <1>4, <1>5, <1>6, <1>7, <1>8, <1>9, <1>10, <1>11, <1>12, <1>13,
     <1>14, <1>15, <1>16, <1>27 DEF OrderStep
<1>28. ASSUME NEW r \in Routes, RouteStep(r)
       PROVE  TypeInv'
  BY <1>17, <1>18, <1>19, <1>20, <1>21, <1>22, <1>28 DEF RouteStep
<1>29. ASSUME NEW v \in Vehicles, VanStep(v)
       PROVE  TypeInv'
  BY <1>23, <1>24, <1>25, <1>29 DEF VanStep
<1> QED
  BY <1>26, <1>27, <1>28, <1>29 DEF Next

\* Whatever the API is asked, statuses stay in their tables, balances and order
\* lines stay counts, a trip keeps its crew and no line owes more than was ordered
\* (the CHECK constraints and raises of order.py, route.py, inventory_location.py).
THEOREM TypeCorrect == Spec => []TypeInv
<1>1. TypeInv => TypeOK
  BY DEF TypeInv
<1> QED
  BY InitTypeInv, NextTypeInv, PTL DEF Spec
-----------------------------------------------------------------------------
(* Orders and stops agree, and orders follow their lifecycle *)

\* Where an order may be when it is moved, and where a stop may be.
LEMMA OrderEdges ==
    ASSUME NEW o
    PROVE  /\ CanMove(o, "booked") => status[o] = "draft"
           /\ CanMove(o, "confirmed") => status[o] \in {"booked", "failed_delivery"}
           /\ CanMove(o, "assigned") => status[o] = "confirmed"
           /\ CanMove(o, "ready_for_dispatch") =>
                 status[o] \in {"assigned", "failed_delivery"}
           /\ CanMove(o, "out_for_delivery") => status[o] = "ready_for_dispatch"
           /\ CanMove(o, "delivered") => status[o] = "out_for_delivery"
           /\ CanMove(o, "failed_delivery") => status[o] = "out_for_delivery"
           /\ CanMove(o, "closed") => status[o] = "delivered"
BY DEF CanMove, LC!Transitions

\* The same for a stop.
LEMMA StopEdges ==
    ASSUME NEW r, NEW o
    PROVE  /\ StopCanMove(r, o, "delivered") => stops[r][o] = "pending"
           /\ StopCanMove(r, o, "failed") => stops[r][o] = "pending"
           /\ StopCanMove(r, o, "cancelled") => stops[r][o] = "pending"
           /\ StopCanMove(r, o, "pending") => stops[r][o] = "failed"
BY DEF StopCanMove, StopTransitions

\* The two halves of StopsAndOrdersAgree are inductive on well-typed states.
AgreeInv == TypeInv /\ StopAgrees /\ OrderAgrees

\* A new stop is made only for an order that has none (OnNoTrip), and both say so.
LEMMA PutOnTripAgrees ==
    ASSUME AgreeInv, NEW o \in Orders, NEW r \in Routes, NEW v, PutOnTrip(o, r, v)
    PROVE  StopAgrees' /\ OrderAgrees'
<1> USE DEF AgreeInv, TypeInv, TypeOK
<1>1. \A s \in Routes : stops[s][o] = "none"
  BY OrderEdges DEF PutOnTrip, OnNoTrip, StopAgrees
<1>2. StopAgrees'
  BY <1>1 DEF PutOnTrip, StopAgrees, OnTrip, Done
<1>3. OrderAgrees'
  BY <1>1, NamesAssumption DEF PutOnTrip, OrderAgrees, OnTrip, Done
<1> QED
  BY <1>2, <1>3

\* The dispatch board moves only orders that wait on its trip or are on none.
LEMMA LoadAndDispatchAgrees ==
    ASSUME AgreeInv, NEW r \in Routes, NEW new \in SUBSET Orders, NEW extra,
           LoadAndDispatchRoute(r, new, extra)
    PROVE  StopAgrees' /\ OrderAgrees'
<1> USE DEF AgreeInv, TypeInv, TypeOK
<1>1. \A o \in new : status[o] = "confirmed" /\ \A s \in Routes : stops[s][o] = "none"
  BY OrderEdges DEF LoadAndDispatchRoute, OnNoTrip, StopAgrees
<1>2. \A o \in Waiting(r) : /\ stops[r][o] = "pending"
                            /\ tripOf[o] = r
                            /\ status[o] \in {"assigned", "ready_for_dispatch"}
  BY DEF Waiting, PendingOn, StopAgrees
<1>3. \A o \in Orders :
        /\ status'[o] = IF o \in Waiting(r) \cup new THEN "ready_for_dispatch" ELSE status[o]
        /\ tripOf'[o] = IF o \in new THEN r ELSE tripOf[o]
        /\ \A s \in Routes :
              stops'[s][o] = IF s = r /\ o \in new THEN "pending" ELSE stops[s][o]
  <2>1. /\ status' = [o \in Orders |->
                         IF o \in Waiting(r) \cup new THEN "ready_for_dispatch" ELSE status[o]]
        /\ tripOf' = [o \in Orders |-> IF o \in new THEN r ELSE tripOf[o]]
        /\ stops' = [stops EXCEPT ![r] =
                        [o \in Orders |-> IF o \in new THEN "pending" ELSE @[o]]]
    BY DEF LoadAndDispatchRoute
  <2> QED
    BY <2>1
<1>4. StopAgrees'
  <2> SUFFICES ASSUME NEW s \in Routes, NEW o \in Orders
               PROVE  /\ stops'[s][o] = "pending" => tripOf'[o] = s /\ status'[o] \in OnTrip
                      /\ stops'[s][o] = "delivered" => tripOf'[o] = s /\ status'[o] \in Done
                      /\ stops'[s][o] = "cancelled" =>
                            tripOf'[o] = s /\ status'[o] = "cancelled"
                      /\ stops'[s][o] = "failed" /\ tripOf'[o] = s =>
                            status'[o] \notin {"assigned", "cancelled"} \cup Done
    BY DEF StopAgrees, OnTrip, Done
  <2>1. CASE o \in new
    BY <1>1, <1>3, <2>1 DEF OnTrip
  <2>2. CASE o \in Waiting(r) \ new
    BY <1>2, <1>3, <2>2 DEF StopAgrees, OnTrip, Done
  <2>3. CASE o \notin Waiting(r) \cup new
    BY <1>3, <2>3 DEF StopAgrees
  <2> QED
    BY <2>1, <2>2, <2>3
<1>5. OrderAgrees'
  BY <1>1, <1>2, <1>3, NamesAssumption DEF OrderAgrees, OnTrip, Done
<1> QED
  BY <1>4, <1>5

\* A cancelled order takes its stop along.
LEMMA CancelAgrees ==
    ASSUME AgreeInv, NEW o \in Orders, Cancel(o),
           status[o] \in LC!FreeCancelStates \cup LC!ApprovalCancelStates
    PROVE  StopAgrees' /\ OrderAgrees'
<1> USE DEF AgreeInv, TypeInv, TypeOK, LC!FreeCancelStates, LC!ApprovalCancelStates
<1>1. CASE tripOf[o] = NoRoute
  BY <1>1, NamesAssumption DEF Cancel, StopAgrees, OrderAgrees, OnTrip, Done
<1>2. CASE tripOf[o] # NoRoute
  <2>1. /\ tripOf[o] \in Routes
        /\ stops[tripOf[o]][o] = "pending"
        /\ stops' = [stops EXCEPT ![tripOf[o]][o] = "cancelled"]
    BY <1>2, StopEdges DEF Cancel, CancelStop
  <2> QED
    BY <2>1 DEF Cancel, StopAgrees, OrderAgrees, OnTrip, Done
<1> QED
  BY <1>1, <1>2
\* Every use case leaves order and stop telling one story.
LEMMA NextAgrees == AgreeInv /\ [Next]_vars => StopAgrees' /\ OrderAgrees'
<1> SUFFICES ASSUME AgreeInv, [Next]_vars
             PROVE  StopAgrees' /\ OrderAgrees'
  OBVIOUS
<1> USE DEF AgreeInv, TypeInv, TypeOK, StopAgrees, OrderAgrees, OnTrip, Done
<1>1. ASSUME UNCHANGED <<status, tripOf, stops>>
      PROVE  StopAgrees' /\ OrderAgrees'
  BY <1>1
<1>2. ASSUME NEW o \in Orders, NEW q \in Requests, CreateOrder(o, q)
      PROVE  StopAgrees' /\ OrderAgrees'
  BY <1>2, OrderEdges DEF CreateOrder
<1>3. ASSUME NEW o \in Orders, ConfirmOrder(o)
      PROVE  StopAgrees' /\ OrderAgrees'
  BY <1>3, OrderEdges DEF ConfirmOrder
<1>4. ASSUME NEW o \in Orders, NEW r \in Routes, AssignOrderToRoute(o, r)
      PROVE  StopAgrees' /\ OrderAgrees'
  BY <1>4, PutOnTripAgrees DEF AssignOrderToRoute
<1>5. ASSUME NEW o \in Orders, NEW r \in Routes, NEW d \in Drivers, NEW v \in Vehicles,
             AssignOrderToNewRoute(o, r, d, v)
      PROVE  StopAgrees' /\ OrderAgrees'
  BY <1>5, PutOnTripAgrees DEF AssignOrderToNewRoute
<1>6. ASSUME NEW o \in Orders, DispatchOrder(o)
      PROVE  StopAgrees' /\ OrderAgrees'
  BY <1>6, OrderEdges DEF DispatchOrder
<1>7. ASSUME NEW o \in Orders, DepartOrder(o)
      PROVE  StopAgrees' /\ OrderAgrees'
  BY <1>7, OrderEdges DEF DepartOrder
<1>8. ASSUME NEW o \in Orders, NEW report,
             DeliverOrder(o, report)
      PROVE  StopAgrees' /\ OrderAgrees'
  BY <1>8, OrderEdges, StopEdges DEF DeliverOrder
<1>9. ASSUME NEW o \in Orders, RecordFailedDelivery(o)
      PROVE  StopAgrees' /\ OrderAgrees'
  BY <1>9, OrderEdges, StopEdges DEF RecordFailedDelivery
<1>10. ASSUME NEW o \in Orders, RescheduleOrder(o)
       PROVE  StopAgrees' /\ OrderAgrees'
  BY <1>10, OrderEdges, StopEdges DEF RescheduleOrder
<1>11. ASSUME NEW o \in Orders, RescheduleToAnotherDay(o)
       PROVE  StopAgrees' /\ OrderAgrees'
  BY <1>11, OrderEdges, NamesAssumption DEF RescheduleToAnotherDay
<1>12. ASSUME NEW o \in Orders, CancelOrderFree(o) \/ ApproveCancellation(o)
       PROVE  StopAgrees' /\ OrderAgrees'
  BY <1>12, CancelAgrees DEF CancelOrderFree, ApproveCancellation
<1>13. ASSUME NEW o \in Orders, CloseOrder(o)
       PROVE  StopAgrees' /\ OrderAgrees'
  BY <1>13, OrderEdges DEF CloseOrder
<1>14. ASSUME NEW r \in Routes, NEW new \in SUBSET Orders, NEW extra,
              LoadAndDispatchRoute(r, new, extra)
       PROVE  StopAgrees' /\ OrderAgrees'
  BY <1>14, LoadAndDispatchAgrees
<1>15. ASSUME NEW o \in Orders,
              \/ \E q \in Requests : AmendOrder(o, q)
              \/ ResendDeliveryOtp(o)
              \/ LoseCode(o)
              \/ RequestCancellation(o)
              \/ RejectCancellation(o)
       PROVE  UNCHANGED <<status, tripOf, stops>>
  BY <1>15 DEF AmendOrder, ResendDeliveryOtp, LoseCode, RequestCancellation,
               RejectCancellation
<1>16. ASSUME NEW r \in Routes,
              \/ \E d \in Drivers, v \in Vehicles : PlanRoute(r, d, v)
              \/ \E q \in Requests : LoadVehicleForRoute(r, q)
              \/ ConfirmRouteLoad(r)
              \/ \E to \in RouteStatuses : UpdateRouteStatus(r, to)
              \/ CompleteRouteReconciliation(r)
       PROVE  UNCHANGED <<status, tripOf, stops>>
  BY <1>16 DEF PlanRoute, LoadVehicleForRoute, ConfirmRouteLoad, UpdateRouteStatus,
               CompleteRouteReconciliation
<1>17. ASSUME NEW v \in Vehicles, VanStep(v)
       PROVE  UNCHANGED <<status, tripOf, stops>>
  BY <1>17 DEF VanStep, LoadTransfer, RecordCount, DecideCount
<1>18. CASE UNCHANGED vars
  BY <1>1, <1>18 DEF vars
<1> HIDE DEF StopAgrees, OrderAgrees
<1>19. ASSUME NEW o \in Orders, OrderStep(o)
       PROVE  StopAgrees' /\ OrderAgrees'
  BY <1>1, <1>2, <1>3, <1>4, <1>5, <1>6, <1>7, <1>8, <1>9, <1>10, <1>11, <1>12, <1>13,
     <1>15, <1>19 DEF OrderStep
<1>20. ASSUME NEW r \in Routes, RouteStep(r)
       PROVE  StopAgrees' /\ OrderAgrees'
  BY <1>1, <1>14, <1>16, <1>20 DEF RouteStep
<1> QED
  BY <1>1, <1>17, <1>18, <1>19, <1>20 DEF Next

\* Before the first booking there is no story to tell.
LEMMA InitAgrees == Init => StopAgrees /\ OrderAgrees
BY DEF Init, StopAgrees, OrderAgrees, OnTrip, Done

\* The inductive invariant the other theorems rest on.
THEOREM AgreeCorrect == Spec => []AgreeInv
<1>1. Init => AgreeInv
  BY InitTypeInv, InitAgrees DEF AgreeInv
<1>2. AgreeInv /\ [Next]_vars => AgreeInv'
  BY NextTypeInv, NextAgrees DEF AgreeInv
<1> QED
  BY <1>1, <1>2, PTL DEF Spec

\* For any number of orders and trips, whatever the API is asked, an order and its
\* stop agree: the pairing of Order and Route changes in application/order/use_cases.py
\* and application/delivery/use_cases.py forgets neither half.
THEOREM StopsAndOrdersAgreeAlways == Spec => []StopsAndOrdersAgree
<1>1. AgreeInv => StopsAndOrdersAgree
  BY DEF AgreeInv, StopsAndOrdersAgree
<1> QED
  BY <1>1, AgreeCorrect, PTL
-----------------------------------------------------------------------------

\* A step along one edge of the table, but into "cancelled", is a step of the lifecycle.
LEMMA OrdersProgress ==
    ASSUME TypeInv, NEW o \in Orders,
           NEW to \in LC!OrderStatuses \ {"cancelled"},
           CanMove(o, to), status' = [status EXCEPT ![o] = to], UNCHANGED request
    PROVE  LC!Next
BY DEF LC!Next, LC!Progress, CanMove

\* Every use case is a lifecycle step, or none.
LEMMA StepsFollowLifecycle ==
    ASSUME TypeInv, [Next]_vars
    PROVE  [LC!Next]_(LC!vars)
<1>1. ASSUME UNCHANGED <<status, request>>
      PROVE  [LC!Next]_(LC!vars)
  BY <1>1 DEF LC!vars
<1>2. ASSUME NEW o \in Orders,
             \/ \E q \in Requests : CreateOrder(o, q)
             \/ ConfirmOrder(o)
             \/ DispatchOrder(o)
             \/ DepartOrder(o)
             \/ CloseOrder(o)
      PROVE  LC!Next
  BY <1>2, OrdersProgress
     DEF CreateOrder, ConfirmOrder, DispatchOrder, DepartOrder, CloseOrder, LC!OrderStatuses
<1>3. ASSUME NEW o \in Orders, NEW r, NEW v, PutOnTrip(o, r, v)
      PROVE  LC!Next
  BY <1>3, OrdersProgress DEF PutOnTrip, LC!OrderStatuses
<1>4. ASSUME NEW o \in Orders, NEW report,
             DeliverOrder(o, report)
      PROVE  LC!Next
  BY <1>4, OrdersProgress DEF DeliverOrder, LC!OrderStatuses
<1>5. ASSUME NEW o \in Orders,
             RecordFailedDelivery(o) \/ RescheduleOrder(o) \/ RescheduleToAnotherDay(o)
      PROVE  LC!Next
  BY <1>5, OrdersProgress
     DEF RecordFailedDelivery, RescheduleOrder, RescheduleToAnotherDay, LC!OrderStatuses
<1>6. ASSUME NEW o \in Orders, CancelOrderFree(o)
      PROVE  LC!Next
  BY <1>6 DEF CancelOrderFree, Cancel, LC!Next, LC!CancelFree
<1>7. ASSUME NEW o \in Orders,
             \/ RequestCancellation(o)
             \/ RejectCancellation(o)
             \/ ApproveCancellation(o)
      PROVE  LC!Next
  BY <1>7 DEF RequestCancellation, RejectCancellation, ApproveCancellation, Cancel,
              LC!Next, LC!RequestCancellation, LC!RejectCancellation, LC!ApproveCancellation
<1>8. ASSUME NEW r \in Routes, NEW new \in SUBSET Orders, NEW extra,
             LoadAndDispatchRoute(r, new, extra)
      PROVE  LC!Next
  <2>1. LC!DispatchTogether(Waiting(r) \cup new)
    BY <1>8, OrderEdges DEF LoadAndDispatchRoute, Waiting, LC!DispatchTogether
  <2>2. Waiting(r) \cup new \in SUBSET Orders
    BY DEF Waiting, PendingOn
  <2> QED
    BY <2>1, <2>2 DEF LC!Next
<1>9. ASSUME NEW o \in Orders, OrderStep(o)
      PROVE  [LC!Next]_(LC!vars)
  <2>1. ASSUME \/ \E q \in Requests : AmendOrder(o, q)
               \/ ResendDeliveryOtp(o)
               \/ LoseCode(o)
        PROVE  UNCHANGED <<status, request>>
    BY <2>1 DEF AmendOrder, ResendDeliveryOtp, LoseCode
  <2>2. ASSUME \/ \E r \in Routes : AssignOrderToRoute(o, r)
               \/ \E r \in Routes, d \in Drivers, v \in Vehicles :
                     AssignOrderToNewRoute(o, r, d, v)
        PROVE  LC!Next
    BY <1>3, <2>2 DEF AssignOrderToRoute, AssignOrderToNewRoute
  <2> QED
    BY <1>1, <1>2, <1>4, <1>5, <1>6, <1>7, <1>9, <2>1, <2>2 DEF OrderStep
<1>10. ASSUME NEW r \in Routes, RouteStep(r)
       PROVE  [LC!Next]_(LC!vars)
  <2>1. ASSUME \/ \E d \in Drivers, v \in Vehicles : PlanRoute(r, d, v)
               \/ \E q \in Requests : LoadVehicleForRoute(r, q)
               \/ ConfirmRouteLoad(r)
               \/ \E to \in RouteStatuses : UpdateRouteStatus(r, to)
               \/ CompleteRouteReconciliation(r)
        PROVE  UNCHANGED <<status, request>>
    BY <2>1 DEF PlanRoute, LoadVehicleForRoute, ConfirmRouteLoad, UpdateRouteStatus,
                CompleteRouteReconciliation
  <2> QED
    BY <1>1, <1>8, <1>10, <2>1 DEF RouteStep
<1>11. ASSUME NEW v \in Vehicles, VanStep(v)
       PROVE  UNCHANGED <<status, request>>
  BY <1>11 DEF VanStep, LoadTransfer, RecordCount, DecideCount
<1>12. CASE UNCHANGED vars
  BY <1>1, <1>12 DEF vars
<1> QED
  BY <1>1, <1>9, <1>10, <1>11, <1>12 DEF Next

\* Fulfilment implements OrderLifecycle: no sequence of use cases, the batch
\* dispatch included, moves an order off the edges of order.py's _TRANSITIONS, and
\* none cancels an order that left the yard without a decided request (D-19).
THEOREM OrdersFollowLifecycle == Spec => FollowsLifecycle
<1>1. Init => LC!Init
  BY DEF Init, LC!Init
<1> QED
  BY <1>1, StepsFollowLifecycle, TypeCorrect, PTL
     DEF Spec, FollowsLifecycle, LC!Spec
-----------------------------------------------------------------------------
(* Trips and deliveries *)

\* What one step may do to the status and the crew of a route.
RouteMove(r) ==
    /\ routeStatus[r] # "none" => driverOf'[r] = driverOf[r] /\ vehicleOf'[r] = vehicleOf[r]
    /\ \/ routeStatus'[r] = routeStatus[r]
       \/ /\ routeStatus[r] = "none"
          /\ routeStatus'[r] = "planned"
          /\ CrewIsFree(driverOf'[r], vehicleOf'[r])
          /\ \A s \in Routes \ {r} : routeStatus'[s] = routeStatus[s]
       \/ routeStatus[r] = "planned" /\ routeStatus'[r] = "loaded"
       \/ routeStatus[r] \in {"planned", "loaded"} /\ routeStatus'[r] = "cancelled"
       \/ /\ routeStatus[r] \in {"loaded", "in_progress", "completed"}
          /\ routeStatus'[r] \in {"in_progress", "completed"}
       \/ routeStatus[r] = "completed" /\ routeStatus'[r] = "reconciled"

\* Every use case moves each route along such an edge, or not at all.
LEMMA RoutesMove ==
    ASSUME TypeInv, [Next]_vars
    PROVE  \A r \in Routes : RouteMove(r)
<1> USE DEF TypeInv, TypeOK, RouteMove, crewVars
<1>1. ASSUME UNCHANGED <<routeStatus, crewVars>>
      PROVE  \A r \in Routes : RouteMove(r)
  BY <1>1
<1>2. ASSUME NEW r \in Routes, NEW d \in Drivers, NEW v \in Vehicles,
             \/ PlanRoute(r, d, v)
             \/ \E o \in Orders : AssignOrderToNewRoute(o, r, d, v)
      PROVE  \A s \in Routes : RouteMove(s)
  BY <1>2 DEF PlanRoute, AssignOrderToNewRoute, CrewIsFree
<1>3. ASSUME NEW o \in Orders, DepartOrder(o)
      PROVE  \A r \in Routes : RouteMove(r)
  BY <1>3 DEF DepartOrder, Started
<1>4. ASSUME NEW o \in Orders, NEW report,
             DeliverOrder(o, report)
      PROVE  \A r \in Routes : RouteMove(r)
  <2>1. /\ Started(tripOf[o]) = "in_progress"
        /\ routeStatus' = [routeStatus EXCEPT
                ![tripOf[o]] = Settled(tripOf[o], o, "delivered", Started(tripOf[o]))]
        /\ UNCHANGED crewVars
    BY <1>4 DEF DeliverOrder
  <2> QED
    BY <2>1 DEF Started, Settled
<1>5. ASSUME NEW o \in Orders, RecordFailedDelivery(o)
      PROVE  \A r \in Routes : RouteMove(r)
  BY <1>5 DEF RecordFailedDelivery, Started, Settled
<1>6. ASSUME NEW o \in Orders, RescheduleOrder(o)
      PROVE  \A r \in Routes : RouteMove(r)
  BY <1>6 DEF RescheduleOrder
<1>7. ASSUME NEW o \in Orders, CancelOrderFree(o) \/ ApproveCancellation(o)
      PROVE  \A r \in Routes : RouteMove(r)
  <2>1. UNCHANGED crewVars
    BY <1>7 DEF CancelOrderFree, ApproveCancellation, Cancel
  <2>2. \/ routeStatus' = routeStatus
        \/ \E r \in Routes : \E at \in {"in_progress", routeStatus[r]} :
              /\ at = routeStatus[r]
              /\ routeStatus' = [routeStatus EXCEPT ![r] = Settled(r, o, "cancelled", at)]
    BY <1>7 DEF CancelOrderFree, ApproveCancellation, Cancel, CancelStop
  <2> QED
    BY <2>1, <2>2 DEF Settled
<1>8. ASSUME NEW r \in Routes, NEW q, LoadVehicleForRoute(r, q)
      PROVE  \A s \in Routes : RouteMove(s)
  BY <1>8 DEF LoadVehicleForRoute, RouteCanMove, RouteTransitions
<1>9. ASSUME NEW r \in Routes, NEW new, NEW extra, LoadAndDispatchRoute(r, new, extra)
      PROVE  \A s \in Routes : RouteMove(s)
  BY <1>9 DEF LoadAndDispatchRoute
<1>10. ASSUME NEW r \in Routes, NEW to, UpdateRouteStatus(r, to)
       PROVE  \A s \in Routes : RouteMove(s)
  BY <1>10 DEF UpdateRouteStatus, RouteCanMove, RouteTransitions
<1>11. ASSUME NEW r \in Routes, CompleteRouteReconciliation(r)
       PROVE  \A s \in Routes : RouteMove(s)
  BY <1>11 DEF CompleteRouteReconciliation, RouteCanMove, RouteTransitions
<1> HIDE DEF RouteMove
<1>12. ASSUME NEW o \in Orders, OrderStep(o)
       PROVE  \A r \in Routes : RouteMove(r)
  <2>1. ASSUME \/ \E q \in Requests : CreateOrder(o, q) \/ AmendOrder(o, q)
               \/ ConfirmOrder(o)
               \/ \E r \in Routes : AssignOrderToRoute(o, r)
               \/ DispatchOrder(o)
               \/ ResendDeliveryOtp(o)
               \/ LoseCode(o)
               \/ RescheduleToAnotherDay(o)
               \/ RequestCancellation(o)
               \/ RejectCancellation(o)
               \/ CloseOrder(o)
        PROVE  UNCHANGED <<routeStatus, crewVars>>
    BY <2>1 DEF CreateOrder, AmendOrder, ConfirmOrder, AssignOrderToRoute, DispatchOrder,
                ResendDeliveryOtp, LoseCode, RescheduleToAnotherDay, RequestCancellation,
                RejectCancellation, CloseOrder
  <2> QED
    BY <1>1, <1>2, <1>3, <1>4, <1>5, <1>6, <1>7, <1>12, <2>1 DEF OrderStep
<1>13. ASSUME NEW r \in Routes, RouteStep(r)
       PROVE  \A s \in Routes : RouteMove(s)
  BY <1>1, <1>2, <1>8, <1>9, <1>10, <1>11, <1>13 DEF RouteStep, ConfirmRouteLoad
<1>14. ASSUME NEW v \in Vehicles, VanStep(v)
       PROVE  UNCHANGED <<routeStatus, crewVars>>
  BY <1>14 DEF VanStep, LoadTransfer, RecordCount, DecideCount
<1>15. CASE UNCHANGED vars
  BY <1>1, <1>15 DEF vars
<1> QED
  BY <1>1, <1>12, <1>13, <1>14, <1>15 DEF Next

\* For any fleet, no driver and no vehicle is on two trips that have yet to leave:
\* ensure_crew_is_free guards every way a trip is made (DO-23).
THEOREM OneWaitingTripAlways == Spec => []OneWaitingTrip
<1>1. Init => OneWaitingTrip
  BY DEF Init, OneWaitingTrip
<1>2. ASSUME TypeInv, OneWaitingTrip, [Next]_vars
      PROVE  OneWaitingTrip'
  <2> SUFFICES ASSUME NEW r1 \in Routes, NEW r2 \in Routes, r1 # r2,
                      routeStatus'[r1] \in {"planned", "loaded"},
                      routeStatus'[r2] \in {"planned", "loaded"}
               PROVE  driverOf'[r1] # driverOf'[r2] /\ vehicleOf'[r1] # vehicleOf'[r2]
    BY DEF OneWaitingTrip
  <2>1. RouteMove(r1) /\ RouteMove(r2)
    BY <1>2, RoutesMove
  <2> QED
    BY <1>2, <2>1 DEF RouteMove, OneWaitingTrip, CrewIsFree, OpenRoutes, TypeInv, TypeOK
<1> QED
  BY <1>1, <1>2, TypeCorrect, PTL DEF Spec

\* Every use case leaves the completed trips resolved.
LEMMA NextResolved == AgreeInv /\ CompletedIsResolved /\ [Next]_vars => CompletedIsResolved'
<1> SUFFICES ASSUME AgreeInv, CompletedIsResolved, [Next]_vars
             PROVE  CompletedIsResolved'
  OBVIOUS
<1> USE DEF AgreeInv, TypeInv, TypeOK, CompletedIsResolved
<1>1. ASSUME UNCHANGED <<stops, routeStatus>>
      PROVE  CompletedIsResolved'
  BY <1>1
\* A step that resolves the one stop o of r.
<1>2. ASSUME NEW r \in Routes, NEW o \in Orders, NEW s \in ResolvedStops, NEW at,
             at = "in_progress" \/ at = routeStatus[r],
             stops' = [stops EXCEPT ![r][o] = s],
             routeStatus' = [routeStatus EXCEPT ![r] = Settled(r, o, s, at)]
      PROVE  CompletedIsResolved'
  BY <1>2 DEF Settled, ResolvedStops
<1>3. ASSUME NEW o \in Orders, NEW r \in Routes, AssignOrderToRoute(o, r)
      PROVE  CompletedIsResolved'
  BY <1>3 DEF AssignOrderToRoute, PutOnTrip
<1>4. ASSUME NEW o \in Orders, NEW r \in Routes, NEW d, NEW v,
             AssignOrderToNewRoute(o, r, d, v)
      PROVE  CompletedIsResolved'
  BY <1>4 DEF AssignOrderToNewRoute, PutOnTrip
<1>5. ASSUME NEW o \in Orders, DepartOrder(o)
      PROVE  CompletedIsResolved'
  BY <1>5 DEF DepartOrder, Started
<1>6. ASSUME NEW o \in Orders, NEW report,
             DeliverOrder(o, report)
      PROVE  CompletedIsResolved'
  BY <1>2, <1>6 DEF DeliverOrder, ResolvedStops
<1>7. ASSUME NEW o \in Orders, RecordFailedDelivery(o)
      PROVE  CompletedIsResolved'
  BY <1>2, <1>7 DEF RecordFailedDelivery, ResolvedStops
<1>8. ASSUME NEW o \in Orders, RescheduleOrder(o)
      PROVE  CompletedIsResolved'
  BY <1>8 DEF RescheduleOrder
<1>9. ASSUME NEW o \in Orders, CancelOrderFree(o) \/ ApproveCancellation(o)
      PROVE  CompletedIsResolved'
  <2>1. CASE tripOf[o] = NoRoute
    BY <1>1, <1>9, <2>1 DEF CancelOrderFree, ApproveCancellation, Cancel
  <2>2. CASE tripOf[o] # NoRoute
    <3> DEFINE r == tripOf[o]
    <3>1. /\ r \in Routes
          /\ stops' = [stops EXCEPT ![r][o] = "cancelled"]
          /\ routeStatus' = [routeStatus EXCEPT
                                ![r] = Settled(r, o, "cancelled", routeStatus[r])]
      BY <1>9, <2>2 DEF CancelOrderFree, ApproveCancellation, Cancel, CancelStop
    <3> QED
      BY <1>2, <3>1 DEF ResolvedStops
  <2> QED
    BY <2>1, <2>2
<1>10. ASSUME NEW r \in Routes, NEW new, NEW extra, LoadAndDispatchRoute(r, new, extra)
       PROVE  CompletedIsResolved'
  BY <1>10 DEF LoadAndDispatchRoute
<1>11. ASSUME NEW r \in Routes,
              \/ \E d \in Drivers, v \in Vehicles : PlanRoute(r, d, v)
              \/ \E q \in Requests : LoadVehicleForRoute(r, q)
              \/ \E to \in RouteStatuses : UpdateRouteStatus(r, to)
              \/ CompleteRouteReconciliation(r)
       PROVE  CompletedIsResolved'
  <2>1. ASSUME NEW q, LoadVehicleForRoute(r, q)
        PROVE  CompletedIsResolved'
    BY <2>1 DEF LoadVehicleForRoute
  <2>2. ASSUME NEW d, NEW v, PlanRoute(r, d, v)
        PROVE  CompletedIsResolved'
    BY <2>2 DEF PlanRoute
  <2>3. ASSUME NEW to, UpdateRouteStatus(r, to)
        PROVE  CompletedIsResolved'
    BY <2>3 DEF UpdateRouteStatus
  <2>4. ASSUME CompleteRouteReconciliation(r)
        PROVE  CompletedIsResolved'
    BY <2>4 DEF CompleteRouteReconciliation
  <2> HIDE DEF CompletedIsResolved
  <2> QED
    BY <1>11, <2>1, <2>2, <2>3, <2>4
<1>12. CASE UNCHANGED vars
  BY <1>1, <1>12 DEF vars
<1> HIDE DEF CompletedIsResolved
<1>13. ASSUME NEW o \in Orders, OrderStep(o)
       PROVE  CompletedIsResolved'
  <2>1. ASSUME \/ \E q \in Requests : CreateOrder(o, q) \/ AmendOrder(o, q)
               \/ ConfirmOrder(o)
               \/ DispatchOrder(o)
               \/ ResendDeliveryOtp(o)
               \/ LoseCode(o)
               \/ RescheduleToAnotherDay(o)
               \/ RequestCancellation(o)
               \/ RejectCancellation(o)
               \/ CloseOrder(o)
        PROVE  UNCHANGED <<stops, routeStatus>>
    BY <2>1 DEF CreateOrder, AmendOrder, ConfirmOrder, DispatchOrder,
                ResendDeliveryOtp, LoseCode, RescheduleToAnotherDay, RequestCancellation,
                RejectCancellation, CloseOrder
  <2> QED
    BY <1>1, <1>3, <1>4, <1>5, <1>6, <1>7, <1>8, <1>9, <1>13, <2>1 DEF OrderStep
<1>14. ASSUME NEW r \in Routes, RouteStep(r)
       PROVE  CompletedIsResolved'
  BY <1>1, <1>10, <1>11, <1>14 DEF RouteStep, ConfirmRouteLoad
<1>15. ASSUME NEW v \in Vehicles, VanStep(v)
       PROVE  CompletedIsResolved'
  BY <1>1, <1>15 DEF VanStep, LoadTransfer, RecordCount, DecideCount
<1> QED
  BY <1>12, <1>13, <1>14, <1>15 DEF Next

\* A completed trip has no pending stop, however stops were resolved, cancelled or
\* put back (_auto_complete_if_all_stops_terminal, reschedule_stop).
THEOREM CompletedIsResolvedAlways == Spec => []CompletedIsResolved
<1>1. Init => CompletedIsResolved
  BY DEF Init, CompletedIsResolved
<1> QED
  BY <1>1, NextResolved, AgreeCorrect, PTL DEF Spec
-----------------------------------------------------------------------------

\* Delivered and collected quantities are written by the delivery and by nothing
\* before it.
UndeliveredIsBlank ==
    \A o \in Orders : status[o] \notin Done => delivered[o] = None /\ collected[o] = None

\* DeliveryIsProven made inductive: a partial report leaves the other lines blank.
ProvenInv == AgreeInv /\ DeliveryIsProven /\ UndeliveredIsBlank

\* The step leaves what was delivered to o as it is ...
Kept(o) ==
    /\ o \in pod' <=> o \in pod
    /\ status'[o] \in Done <=> status[o] \in Done
    /\ status[o] \in Done =>
          /\ ordered'[o] = ordered[o]
          /\ pending'[o] = pending[o]
          /\ delivered'[o] = delivered[o]
          /\ tripOf'[o] = tripOf[o]
          /\ \A r \in Routes : stops'[r][o] = stops[r][o]
    /\ status[o] \notin Done =>
          /\ delivered'[o] \in {delivered[o], None}
          /\ collected'[o] \in {collected[o], None}

\* ... or it is the delivery of o.
JustDelivered(o) ==
    /\ o \notin pod
    /\ o \in pod'
    /\ status'[o] \in Done
    /\ routeStatus'[tripOf'[o]] \in {"in_progress", "completed"}
    /\ Covers(Reserved(o)', delivered'[o])

\* DeliverOrder is a delivery of its order and touches no other order.
LEMMA DeliverOrderDelivers ==
    ASSUME ProvenInv, NEW o \in Orders, NEW report \in Reports(o),
           DeliverOrder(o, report)
    PROVE  JustDelivered(o) /\ \A p \in Orders \ {o} : Kept(p)
<1> USE DEF ProvenInv, AgreeInv, TypeInv
<1>1. status[o] = "out_for_delivery" /\ delivered[o] = None
  BY OrderEdges DEF DeliverOrder, UndeliveredIsBlank, Done
<1>2. Covers(Reserved(o)', delivered'[o])
  <2>1. Reserved(o) \in Quantities /\ Reserved(o)' = Reserved(o)
    BY ReservedIsQuantity DEF DeliverOrder, Reserved
  <2>2. delivered'[o] = [t \in Types |->
           IF t \in DOMAIN report THEN LastLine(report[t]).given ELSE None[t]]
    BY <1>1 DEF DeliverOrder, TypeOK
  <2>3. ASSUME NEW t \in DOMAIN report
        PROVE  LastLine(report[t]).given <= Reserved(o)[t]
    <3>1. Len(report[t]) \in DOMAIN report[t]
      BY ReportIsLines
    <3> QED
      BY <3>1 DEF DeliverOrder, WithinReserved, LastLine
  <2> QED
    BY <2>1, <2>2, <2>3 DEF Covers, None, Quantities
<1>3. routeStatus'[tripOf'[o]] \in {"in_progress", "completed"}
  BY DEF DeliverOrder, TypeOK, Settled
<1>4. JustDelivered(o)
  BY <1>1, <1>2, <1>3 DEF JustDelivered, DeliverOrder, TypeOK, Done
<1>5. ASSUME NEW p \in Orders \ {o}
      PROVE  Kept(p)
  BY DEF Kept, DeliverOrder, TypeOK
<1> QED
  BY <1>4, <1>5

\* The other calls on one order leave all deliveries as they are.
LEMMA OthersKeepDeliveries ==
    ASSUME ProvenInv, NEW o \in Orders,
           \/ \E q \in Requests : CreateOrder(o, q) \/ AmendOrder(o, q)
           \/ ConfirmOrder(o)
           \/ DispatchOrder(o)
           \/ DepartOrder(o)
           \/ ResendDeliveryOtp(o)
           \/ LoseCode(o)
           \/ RecordFailedDelivery(o)
           \/ RescheduleOrder(o)
           \/ RescheduleToAnotherDay(o)
           \/ RequestCancellation(o)
           \/ RejectCancellation(o)
           \/ CloseOrder(o)
    PROVE  \A p \in Orders : Kept(p)
<1> USE OrderEdges DEF ProvenInv, AgreeInv, TypeInv, TypeOK, Kept, Done, orderVars
<1>1. ASSUME NEW q \in Requests, CreateOrder(o, q) \/ AmendOrder(o, q)
      PROVE  \A p \in Orders : Kept(p)
  BY <1>1 DEF CreateOrder, AmendOrder, CanAmend
<1>2. ASSUME ConfirmOrder(o) \/ DispatchOrder(o) \/ DepartOrder(o) \/ CloseOrder(o)
      PROVE  \A p \in Orders : Kept(p)
  BY <1>2 DEF ConfirmOrder, DispatchOrder, DepartOrder, CloseOrder
<1>3. ASSUME \/ ResendDeliveryOtp(o)
             \/ LoseCode(o)
             \/ RequestCancellation(o)
             \/ RejectCancellation(o)
      PROVE  \A p \in Orders : Kept(p)
  BY <1>3 DEF ResendDeliveryOtp, LoseCode, RequestCancellation, RejectCancellation
<1>4. ASSUME RecordFailedDelivery(o)
      PROVE  \A p \in Orders : Kept(p)
  BY <1>4 DEF RecordFailedDelivery
<1>5. ASSUME RescheduleOrder(o)
      PROVE  \A p \in Orders : Kept(p)
  BY <1>5 DEF RescheduleOrder
<1>6. ASSUME RescheduleToAnotherDay(o)
      PROVE  \A p \in Orders : Kept(p)
  BY <1>6 DEF RescheduleToAnotherDay
<1> QED
  BY <1>1, <1>2, <1>3, <1>4, <1>5, <1>6

\* So do planning, cancelling and the dispatch board.
LEMMA PlanningKeepsDeliveries ==
    ASSUME ProvenInv,
           \/ \E o \in Orders, r \in Routes : \E v : PutOnTrip(o, r, v)
           \/ \E o \in Orders : CancelOrderFree(o) \/ ApproveCancellation(o)
           \/ \E r \in Routes, new \in SUBSET Orders : \E extra :
                 LoadAndDispatchRoute(r, new, extra)
    PROVE  \A p \in Orders : Kept(p)
<1> USE DEF ProvenInv, AgreeInv, TypeInv, TypeOK, Kept, Done
<1>1. ASSUME NEW o \in Orders, NEW r \in Routes, NEW v, PutOnTrip(o, r, v)
      PROVE  \A p \in Orders : Kept(p)
  BY <1>1, OrderEdges DEF PutOnTrip
<1>2. ASSUME NEW o \in Orders, CancelOrderFree(o) \/ ApproveCancellation(o)
      PROVE  \A p \in Orders : Kept(p)
  <2>1. /\ Cancel(o)
        /\ status[o] \in LC!FreeCancelStates \cup LC!ApprovalCancelStates
    BY <1>2 DEF CancelOrderFree, ApproveCancellation
  <2>2. /\ status[o] \notin Done
        /\ status' = [status EXCEPT ![o] = "cancelled"]
        /\ UNCHANGED <<orderVars, tripOf, pod>>
    BY <2>1 DEF Cancel, LC!FreeCancelStates, LC!ApprovalCancelStates
  <2>3. ASSUME NEW p \in Orders \ {o}, NEW r \in Routes
        PROVE  stops'[r][p] = stops[r][p]
    <3>1. CASE stops' = stops
      BY <3>1
    <3>2. CASE stops' = [stops EXCEPT ![tripOf[o]][o] = "cancelled"]
      BY <3>2
    <3> QED
      BY <2>1, <3>1, <3>2 DEF Cancel, CancelStop
  <2> QED
    BY <2>2, <2>3 DEF orderVars
<1>3. ASSUME NEW r \in Routes, NEW new \in SUBSET Orders, NEW extra,
             LoadAndDispatchRoute(r, new, extra)
      PROVE  \A p \in Orders : Kept(p)
  <2> DEFINE orders == Waiting(r) \cup new
  <2>1. \A p \in orders : status[p] \in {"confirmed", "assigned", "ready_for_dispatch"}
    BY <1>3, OrderEdges DEF LoadAndDispatchRoute, Waiting
  <2>2. /\ status' = [o \in Orders |->
                         IF o \in orders THEN "ready_for_dispatch" ELSE status[o]]
        /\ pending' = [o \in Orders |-> IF o \in orders THEN None ELSE pending[o]]
        /\ tripOf' = [o \in Orders |-> IF o \in new THEN r ELSE tripOf[o]]
        /\ stops' = [stops EXCEPT ![r] =
                        [o \in Orders |-> IF o \in new THEN "pending" ELSE @[o]]]
        /\ UNCHANGED <<ordered, delivered, collected, pod>>
    BY <1>3 DEF LoadAndDispatchRoute
  <2> HIDE DEF orders
  <2>3. new \subseteq orders
    BY DEF orders
  <2> QED
    BY <2>1, <2>2, <2>3
<1> QED
  BY <1>1, <1>2, <1>3

\* Every use case keeps each delivery, or makes it.
LEMMA DeliveriesMove ==
    ASSUME ProvenInv, [Next]_vars
    PROVE  \A p \in Orders : Kept(p) \/ JustDelivered(p)
<1>1. ASSUME UNCHANGED <<status, ordered, pending, delivered, collected, tripOf, pod, stops>>
      PROVE  \A p \in Orders : Kept(p)
  BY <1>1 DEF Kept
<1>2. ASSUME NEW o \in Orders, OrderStep(o)
      PROVE  \A p \in Orders : Kept(p) \/ JustDelivered(p)
  <2>1. CASE \/ \E r \in Routes : AssignOrderToRoute(o, r)
             \/ \E r \in Routes, d \in Drivers, v \in Vehicles :
                   AssignOrderToNewRoute(o, r, d, v)
    BY <2>1, PlanningKeepsDeliveries DEF AssignOrderToRoute, AssignOrderToNewRoute
  <2>2. ASSUME NEW report \in Reports(o),
               DeliverOrder(o, report)
        PROVE  \A p \in Orders : Kept(p) \/ JustDelivered(p)
    BY <2>2, DeliverOrderDelivers
  <2>3. CASE CancelOrderFree(o) \/ ApproveCancellation(o)
    BY <2>3, PlanningKeepsDeliveries
  <2> QED
    BY <1>2, <2>1, <2>2, <2>3, OthersKeepDeliveries DEF OrderStep
<1>3. ASSUME NEW r \in Routes, RouteStep(r)
      PROVE  \A p \in Orders : Kept(p)
  <2>1. CASE \E new \in SUBSET Orders, extra \in Requests \cup {None} :
                LoadAndDispatchRoute(r, new, extra)
    BY <2>1, PlanningKeepsDeliveries
  <2>2. CASE \/ \E d \in Drivers, v \in Vehicles : PlanRoute(r, d, v)
             \/ \E q \in Requests : LoadVehicleForRoute(r, q)
             \/ ConfirmRouteLoad(r)
             \/ \E to \in RouteStatuses : UpdateRouteStatus(r, to)
             \/ CompleteRouteReconciliation(r)
    BY <1>1, <2>2 DEF PlanRoute, LoadVehicleForRoute, ConfirmRouteLoad, UpdateRouteStatus,
                      CompleteRouteReconciliation, orderVars
  <2> QED
    BY <1>3, <2>1, <2>2 DEF RouteStep
<1>4. ASSUME NEW v \in Vehicles, VanStep(v)
      PROVE  \A p \in Orders : Kept(p)
  BY <1>1, <1>4 DEF VanStep, LoadTransfer, RecordCount, DecideCount, orderVars
<1>5. CASE UNCHANGED vars
  BY <1>1, <1>5 DEF vars, orderVars
<1> QED
  BY <1>2, <1>3, <1>4, <1>5 DEF Next

\* Every use case leaves deliveries proven.
LEMMA NextProven == ProvenInv /\ [Next]_vars => DeliveryIsProven' /\ UndeliveredIsBlank'
<1> SUFFICES ASSUME ProvenInv, [Next]_vars, NEW o \in Orders
             PROVE  /\ o \in pod' <=> status'[o] \in Done
                    /\ o \in pod' =>
                          /\ routeStatus'[tripOf'[o]]
                                \in {"in_progress", "completed", "reconciled"}
                          /\ Covers(Reserved(o)', delivered'[o])
                    /\ status'[o] \notin Done =>
                          delivered'[o] = None /\ collected'[o] = None
  BY DEF DeliveryIsProven, UndeliveredIsBlank, Done
<1> USE DEF ProvenInv
<1>1. CASE JustDelivered(o)
  BY <1>1 DEF JustDelivered
<1>2. CASE Kept(o) /\ o \notin pod
  BY <1>2 DEF Kept, DeliveryIsProven, UndeliveredIsBlank
<1>3. CASE Kept(o) /\ o \in pod
  <2>1. /\ status[o] \in Done
        /\ routeStatus[tripOf[o]] \in {"in_progress", "completed", "reconciled"}
        /\ Covers(Reserved(o), delivered[o])
        /\ tripOf[o] \in Routes
    BY <1>3 DEF DeliveryIsProven, AgreeInv, OrderAgrees, TypeInv, TypeOK
  <2>2. /\ o \in pod'
        /\ status'[o] \in Done
        /\ tripOf'[o] = tripOf[o]
        /\ Covers(Reserved(o)', delivered'[o])
    BY <1>3, <2>1 DEF Kept, Reserved
  <2>3. RouteMove(tripOf[o])
    BY <2>1, RoutesMove DEF AgreeInv
  <2> QED
    BY <2>1, <2>2, <2>3 DEF RouteMove
<1> QED
  BY <1>1, <1>2, <1>3, DeliveriesMove

\* The inductive invariant of the two delivery theorems.
LEMMA ProvenCorrect == Spec => []ProvenInv
<1>1. Init => ProvenInv
  BY InitTypeInv, InitAgrees
     DEF Init, ProvenInv, AgreeInv, DeliveryIsProven, UndeliveredIsBlank, Done
<1>2. ProvenInv /\ [Next]_vars => ProvenInv'
  BY NextTypeInv, NextAgrees, NextProven DEF ProvenInv, AgreeInv
<1> QED
  BY <1>1, <1>2, PTL DEF Spec

\* An order is delivered exactly if it has its proof of delivery, its trip had left
\* the yard, and it got no more than was reserved (DeliverOrder, BR-11, BR-12).
THEOREM DeliveryIsProvenAlways == Spec => []DeliveryIsProven
<1>1. ProvenInv => DeliveryIsProven
  BY DEF ProvenInv
<1> QED
  BY <1>1, ProvenCorrect, PTL

\* No call whatever changes a delivery once made: quantities, proof, trip and stop
\* stay (the terminal states of order.py and route.py, can_amend).
THEOREM DeliveryIsFinalAlways == Spec => DeliveryIsFinal
<1>1. ProvenInv /\ [Next]_vars => [DeliveriesStay]_vars
  <2> SUFFICES ASSUME ProvenInv, [Next]_vars, NEW o \in pod
               PROVE  /\ o \in pod'
                      /\ delivered'[o] = delivered[o]
                      /\ tripOf'[o] = tripOf[o]
                      /\ \A r \in Routes : stops'[r][o] = stops[r][o]
    BY DEF DeliveriesStay
  <2>1. o \in Orders /\ status[o] \in Done
    BY DEF ProvenInv, AgreeInv, TypeInv, TypeOK, DeliveryIsProven
  <2>2. Kept(o)
    BY <2>1, DeliveriesMove DEF JustDelivered
  <2> QED
    BY <2>1, <2>2 DEF Kept
<1> QED
  BY <1>1, ProvenCorrect, PTL DEF Spec, DeliveryIsFinal
-----------------------------------------------------------------------------
(* Stock *)

\* Where the trip of an order is: none before it is confirmed, one while it has
\* cylinders reserved, and a stop is on a trip that exists.
TripsAreReal ==
    /\ \A o \in Orders : /\ status[o] \in {"draft", "booked"} => tripOf[o] = NoRoute
                         /\ status[o] \in Holding => tripOf[o] # NoRoute
    /\ \A r \in Routes, o \in Orders : stops[r][o] # "none" => routeStatus[r] # "none"

\* The inductive invariant of the stock theorems.
StockInv == ProvenInv /\ TripsAreReal

\* No trip is undone.
LEMMA TripsStay ==
    ASSUME TypeInv, [Next]_vars, NEW r \in Routes, routeStatus[r] # "none"
    PROVE  routeStatus'[r] # "none"
BY RoutesMove DEF RouteMove

\* Every use case leaves the trips of orders and stops real.
LEMMA NextTripsReal == AgreeInv /\ TripsAreReal /\ [Next]_vars => TripsAreReal'
<1> SUFFICES ASSUME AgreeInv, TripsAreReal, [Next]_vars
             PROVE  TripsAreReal'
  OBVIOUS
<1> USE DEF AgreeInv, TypeInv, TypeOK
<1> DEFINE Real(o) == /\ status'[o] \in {"draft", "booked"} => tripOf'[o] = NoRoute
                      /\ status'[o] \in Holding => tripOf'[o] # NoRoute
                      /\ \A r \in Routes : stops'[r][o] # "none" => routeStatus'[r] # "none"
           Still(o) == /\ status'[o] = status[o] /\ tripOf'[o] = tripOf[o]
                       /\ \A r \in Routes : stops'[r][o] = stops[r][o]
<1>1. ASSUME NEW o \in Orders, Still(o)
      PROVE  Real(o)
  <2>1. \A r \in Routes : stops[r][o] # "none" => routeStatus'[r] # "none"
    BY TripsStay DEF TripsAreReal
  <2> QED
    BY <1>1, <2>1 DEF TripsAreReal
<1>2. ASSUME NEW o \in Orders, NEW q, CreateOrder(o, q)
      PROVE  Real(o) /\ \A p \in Orders \ {o} : Still(p)
  BY <1>2, OrderEdges, TripsStay DEF CreateOrder, TripsAreReal, Holding, OnTrip
<1>3. ASSUME NEW o \in Orders, ConfirmOrder(o)
      PROVE  Real(o) /\ \A p \in Orders \ {o} : Still(p)
  BY <1>3, TripsStay DEF ConfirmOrder, TripsAreReal, Holding, OnTrip
<1>4. ASSUME NEW o \in Orders, NEW r \in Routes, NEW v, PutOnTrip(o, r, v),
             routeStatus'[r] # "none"
      PROVE  Real(o) /\ \A p \in Orders \ {o} : Still(p)
  <2>1. tripOf'[o] = r /\ status'[o] = "assigned" /\ r # NoRoute
    BY <1>4, NamesAssumption DEF PutOnTrip
  <2>2. \A s \in Routes : stops'[s][o] # "none" => routeStatus'[s] # "none"
    BY <1>4, TripsStay DEF PutOnTrip, TripsAreReal
  <2>3. \A p \in Orders \ {o} : Still(p)
    BY <1>4 DEF PutOnTrip
  <2> QED
    BY <2>1, <2>2, <2>3
<1>5. ASSUME NEW o \in Orders, DispatchOrder(o) \/ DepartOrder(o) \/ CloseOrder(o)
      PROVE  Real(o) /\ \A p \in Orders \ {o} : Still(p)
  BY <1>5, OrderEdges, TripsStay
     DEF DispatchOrder, DepartOrder, CloseOrder, TripsAreReal, Holding, OnTrip
<1>6. ASSUME NEW o \in Orders, NEW report,
             DeliverOrder(o, report)
      PROVE  Real(o) /\ \A p \in Orders \ {o} : Still(p)
  <2>1. /\ status'[o] = "delivered" /\ tripOf'[o] = tripOf[o]
        /\ stops[tripOf[o]][o] = "pending"
    BY <1>6, StopEdges DEF DeliverOrder
  <2>2. \A s \in Routes : stops'[s][o] # "none" => stops[s][o] # "none"
    BY <1>6, <2>1 DEF DeliverOrder
  <2>3. \A p \in Orders \ {o} : Still(p)
    BY <1>6 DEF DeliverOrder
  <2> QED
    BY <2>1, <2>2, <2>3, TripsStay DEF TripsAreReal, Holding, OnTrip
<1>7. ASSUME NEW o \in Orders, RecordFailedDelivery(o) \/ RescheduleOrder(o)
      PROVE  Real(o) /\ \A p \in Orders \ {o} : Still(p)
  <2>1. /\ status'[o] \in {"failed_delivery", "ready_for_dispatch"}
        /\ tripOf'[o] = tripOf[o] /\ tripOf[o] # NoRoute
        /\ stops[tripOf[o]][o] # "none"
    BY <1>7, StopEdges DEF RecordFailedDelivery, RescheduleOrder
  <2>2. \A s \in Routes : stops'[s][o] # "none" => stops[s][o] # "none"
    BY <1>7, <2>1 DEF RecordFailedDelivery, RescheduleOrder
  <2>3. \A p \in Orders \ {o} : Still(p)
    <3>1. CASE RecordFailedDelivery(o)
      BY <3>1 DEF RecordFailedDelivery
    <3>2. CASE RescheduleOrder(o)
      BY <3>2 DEF RescheduleOrder
    <3> QED
      BY <1>7, <3>1, <3>2
  <2> QED
    BY <2>1, <2>2, <2>3, TripsStay DEF TripsAreReal, Holding, OnTrip
<1>8. ASSUME NEW o \in Orders, RescheduleToAnotherDay(o)
      PROVE  Real(o) /\ \A p \in Orders \ {o} : Still(p)
  BY <1>8, TripsStay DEF RescheduleToAnotherDay, TripsAreReal, Holding, OnTrip
<1>9. ASSUME NEW o \in Orders, CancelOrderFree(o) \/ ApproveCancellation(o)
      PROVE  Real(o) /\ \A p \in Orders \ {o} : Still(p)
  <2>1. Cancel(o)
    BY <1>9 DEF CancelOrderFree, ApproveCancellation
  <2>2. status'[o] = "cancelled" /\ \A p \in Orders \ {o} :
            status'[p] = status[p] /\ tripOf'[p] = tripOf[p]
    BY <2>1 DEF Cancel
  <2>3. \/ stops' = stops
        \/ /\ stops[tripOf[o]][o] = "pending"
           /\ stops' = [stops EXCEPT ![tripOf[o]][o] = "cancelled"]
    BY <2>1, StopEdges DEF Cancel, CancelStop
  <2>4. \A s \in Routes : stops'[s][o] # "none" => stops[s][o] # "none"
    BY <2>3
  <2>5. \A p \in Orders \ {o} : \A s \in Routes : stops'[s][p] = stops[s][p]
    BY <2>3
  <2>6. Real(o)
    BY <2>2, <2>4, TripsStay DEF TripsAreReal, Holding, OnTrip
  <2> QED
    BY <2>2, <2>5, <2>6
<1>10. ASSUME NEW r \in Routes, NEW new \in SUBSET Orders, NEW extra,
              LoadAndDispatchRoute(r, new, extra), NEW o \in Orders
       PROVE  Real(o)
  <2>1. /\ status'[o] = IF o \in Waiting(r) \cup new THEN "ready_for_dispatch" ELSE status[o]
        /\ tripOf'[o] = IF o \in new THEN r ELSE tripOf[o]
        /\ \A s \in Routes :
              stops'[s][o] = IF s = r /\ o \in new THEN "pending" ELSE stops[s][o]
        /\ routeStatus'[r] = "loaded"
    BY <1>10 DEF LoadAndDispatchRoute
  <2>2. o \in Waiting(r) => status[o] \in Holding
    BY DEF Waiting, Holding, OnTrip
  <2> QED
    BY <2>1, <2>2, TripsStay, NamesAssumption DEF TripsAreReal, Holding, OnTrip
<1>11. ASSUME UNCHANGED <<status, tripOf, stops>>
       PROVE  \A o \in Orders : Still(o)
  BY <1>11
<1> HIDE DEF Real, Still
<1>12. ASSUME NEW o \in Orders, OrderStep(o)
       PROVE  \A p \in Orders : Real(p)
  <2>1. ASSUME \/ \E q \in Requests : AmendOrder(o, q)
               \/ ResendDeliveryOtp(o)
               \/ LoseCode(o)
               \/ RequestCancellation(o)
               \/ RejectCancellation(o)
        PROVE  UNCHANGED <<status, tripOf, stops>>
    BY <2>1 DEF AmendOrder, ResendDeliveryOtp, LoseCode, RequestCancellation,
                RejectCancellation
  <2>2. ASSUME NEW r \in Routes,
               \/ AssignOrderToRoute(o, r)
               \/ \E d \in Drivers, v \in Vehicles : AssignOrderToNewRoute(o, r, d, v)
        PROVE  Real(o) /\ \A p \in Orders \ {o} : Still(p)
    BY <1>4, <2>2 DEF AssignOrderToRoute, AssignOrderToNewRoute
  <2> QED
    BY <1>1, <1>2, <1>3, <1>5, <1>6, <1>7, <1>8, <1>9, <1>11, <1>12, <2>1, <2>2 DEF OrderStep
<1>13. ASSUME NEW r \in Routes, RouteStep(r)
       PROVE  \A p \in Orders : Real(p)
  <2>1. ASSUME \/ \E d \in Drivers, v \in Vehicles : PlanRoute(r, d, v)
               \/ \E q \in Requests : LoadVehicleForRoute(r, q)
               \/ ConfirmRouteLoad(r)
               \/ \E to \in RouteStatuses : UpdateRouteStatus(r, to)
               \/ CompleteRouteReconciliation(r)
        PROVE  UNCHANGED <<status, tripOf, stops>>
    BY <2>1 DEF PlanRoute, LoadVehicleForRoute, ConfirmRouteLoad, UpdateRouteStatus,
                CompleteRouteReconciliation
  <2> QED
    BY <1>1, <1>10, <1>11, <1>13, <2>1 DEF RouteStep
<1>14. ASSUME NEW v \in Vehicles, VanStep(v)
       PROVE  UNCHANGED <<status, tripOf, stops>>
  BY <1>14 DEF VanStep, LoadTransfer, RecordCount, DecideCount
<1>15. ASSUME UNCHANGED vars
       PROVE  \A p \in Orders : Real(p)
  BY <1>1, <1>11, <1>15 DEF vars
<1>16. \A p \in Orders : Real(p)
  <2>1. CASE UNCHANGED vars
    BY <1>15, <2>1
  <2>2. CASE \E o \in Orders : OrderStep(o)
    BY <1>12, <2>2
  <2>3. CASE \E r \in Routes : RouteStep(r)
    BY <1>13, <2>3
  <2>4. CASE \E v \in Vehicles : VanStep(v)
    BY <1>1, <1>11, <1>14, <2>4
  <2> QED
    BY <2>1, <2>2, <2>3, <2>4 DEF Next
<1>17. \A p \in Orders :
         /\ status'[p] \in {"draft", "booked"} => tripOf'[p] = NoRoute
         /\ status'[p] \in Holding => tripOf'[p] # NoRoute
         /\ \A r \in Routes : stops'[r][p] # "none" => routeStatus'[r] # "none"
  BY <1>16 DEF Real
<1> QED
  BY <1>17, Zenon DEF TripsAreReal, Holding, OnTrip

-----------------------------------------------------------------------------
(* What one step does to the stock of one type *)

\* What order o has of type t, on the van or at home.
Placed(o, t) ==
    IF status[o] \in Holding THEN Reserved(o)[t]
    ELSE IF status[o] \in Done THEN delivered[o][t] ELSE 0

InHands(t) == Held(t) + HandedOver(t)
Owed(t) == Sum([o \in Orders |-> OpenDemand(o, t)], Orders)

\* What an order has and what it is owed are counts.
LEMMA PlacedIsNat ==
    ASSUME TypeInv, NEW o \in Orders, NEW t \in Types
    PROVE  Placed(o, t) \in Nat /\ OpenDemand(o, t) \in Nat
<1>1. Reserved(o)[t] \in Nat
  BY ReservedIsQuantity
<1>2. ordered[o][t] \in Nat /\ pending[o][t] \in Nat /\ delivered[o][t] \in Nat
  BY DEF TypeInv, TypeOK
<1>3. Placed(o, t) \in Nat
  BY <1>1, <1>2 DEF Placed
<1> QED
  BY <1>2, <1>3 DEF OpenDemand

\* The stock of type t, part by part.
StockTally(t) ==
    /\ Accounted(t) = warehouse[t] + FreeOnVans(t) + InHands(t)
    /\ Available(t, Orders) = warehouse[t] + FreeOnVans(t) - Owed(t)
    /\ InHands(t) = Sum([o \in Orders |-> Placed(o, t)], Orders)
    /\ {warehouse[t], FreeOnVans(t), InHands(t), Owed(t)} \subseteq Nat

\* The parts make up what the properties speak of.
LEMMA StockIs ==
    ASSUME TypeInv, NEW t \in Types
    PROVE  StockTally(t)
<1> DEFINE held == [o \in Orders |->
                      IF status[o] \in Holding THEN Reserved(o)[t] ELSE 0]
           handed == [o \in Orders |-> IF status[o] \in Done THEN delivered[o][t] ELSE 0]
           placed == [o \in Orders |-> Placed(o, t)]
           demand == [o \in Orders |-> OpenDemand(o, t)]
           onVan == [v \in Vehicles |-> van[v][t]]
<1>1. \A o \in Orders : /\ held[o] \in Int /\ handed[o] \in Int
                        /\ placed[o] = held[o] + handed[o]
  <2> SUFFICES ASSUME NEW o \in Orders
               PROVE  held[o] \in Int /\ handed[o] \in Int /\ placed[o] = held[o] + handed[o]
    OBVIOUS
  <2>1. Reserved(o)[t] \in Nat /\ delivered[o][t] \in Nat
    BY ReservedIsQuantity DEF TypeInv, TypeOK
  <2> QED
    BY <2>1 DEF Placed, Holding, OnTrip, Done
<1>2. \A o \in Orders : placed[o] \in Nat /\ demand[o] \in Nat
  BY PlacedIsNat
<1>3. \A v \in Vehicles : onVan[v] \in Nat
  BY DEF TypeInv, TypeOK
<1>4. /\ Held(t) = SumFunctionOnSet(held, Orders)
      /\ HandedOver(t) = SumFunctionOnSet(handed, Orders)
      /\ FreeOnVans(t) = SumFunctionOnSet(onVan, Vehicles)
      /\ Owed(t) = SumFunctionOnSet(demand, Orders)
  BY DEF Held, HandedOver, FreeOnVans, Owed, Sum
<1> HIDE DEF held, handed, placed, demand, onVan
<1>5. SumFunctionOnSet(placed, Orders)
        = SumFunctionOnSet(held, Orders) + SumFunctionOnSet(handed, Orders)
  BY <1>1, FiniteAssumption, SumPlus
<1>6. /\ SumFunctionOnSet(placed, Orders) \in Nat
      /\ SumFunctionOnSet(demand, Orders) \in Nat
      /\ SumFunctionOnSet(onVan, Vehicles) \in Nat
  BY <1>2, <1>3, FiniteAssumption, SumNat
<1>7. SumFunctionOnSet(held, Orders) \in Int /\ SumFunctionOnSet(handed, Orders) \in Int
  BY <1>1, FiniteAssumption, SumInt
<1>8. warehouse[t] \in Nat
  BY DEF TypeInv, TypeOK
<1>9. InHands(t) = Sum(placed, Orders)
  BY <1>4, <1>5 DEF InHands, Sum
<1>10. /\ Accounted(t) = warehouse[t] + FreeOnVans(t) + InHands(t)
       /\ Available(t, Orders) = warehouse[t] + FreeOnVans(t) - Owed(t)
  <2>1. Available(t, Orders) = warehouse[t] + FreeOnVans(t) - Owed(t)
    BY DEF Available, FreeOnVans, Owed
  <2>2. Accounted(t) = warehouse[t] + FreeOnVans(t) + InHands(t)
    BY <1>4, <1>6, <1>7, <1>8 DEF Accounted, InHands
  <2> QED
    BY <2>1, <2>2
<1> QED
  BY <1>4, <1>6, <1>8, <1>9, <1>10 DEF placed, Sum, StockTally

\* The counts stay counts.
LEMMA PlacedIsNatNext ==
    TypeInv' =>
        (\A o \in Orders, t \in Types : {Placed(o, t), OpenDemand(o, t)} \subseteq Nat)'
<1>1. TypeInv =>
        \A o \in Orders, t \in Types : {Placed(o, t), OpenDemand(o, t)} \subseteq Nat
  BY PlacedIsNat
<1> QED
  BY <1>1, PTL

\* They do so before and after every step.
LEMMA StockIsNext == TypeInv' => (\A t \in Types : StockTally(t))'
<1>1. TypeInv => \A t \in Types : StockTally(t)
  BY StockIs
<1> QED
  BY <1>1, PTL

\* The step leaves what order o asks for and has as it is.
Untouched(o) ==
    /\ status'[o] = status[o]
    /\ ordered'[o] = ordered[o]
    /\ pending'[o] = pending[o]
    /\ delivered'[o] = delivered[o]

\* Then it has and is owed as much as before.
LEMMA UntouchedKeeps ==
    ASSUME NEW o, NEW t, Untouched(o)
    PROVE  Placed(o, t)' = Placed(o, t) /\ OpenDemand(o, t)' = OpenDemand(o, t)
<1>1. Reserved(o)' = Reserved(o)
  BY DEF Untouched, Reserved
<1> QED
  BY <1>1 DEF Untouched, Placed, OpenDemand

\* The order sums, when one order moves.
LEMMA OneOrderMoves ==
    ASSUME TypeInv, TypeInv', NEW t \in Types, NEW o \in Orders,
           \A p \in Orders \ {o} : Untouched(p)
    PROVE  /\ InHands(t)' = InHands(t) + (Placed(o, t)' - Placed(o, t))
           /\ Owed(t)' = Owed(t) + (OpenDemand(o, t)' - OpenDemand(o, t))
<1> DEFINE has == [p \in Orders |-> Placed(p, t)]
           hasNow == [p \in Orders |-> Placed(p, t)']
           owed == [p \in Orders |-> OpenDemand(p, t)]
           owedNow == [p \in Orders |-> OpenDemand(p, t)']
<1>1. StockTally(t) /\ StockTally(t)'
  BY StockIs, StockIsNext
<1>2. \A p \in Orders : {Placed(p, t), OpenDemand(p, t)} \subseteq Nat
  BY PlacedIsNat
<1>3. (\A p \in Orders, u \in Types : {Placed(p, u), OpenDemand(p, u)} \subseteq Nat)'
  BY PlacedIsNatNext
<1>4. /\ \A p \in Orders : has[p] \in Int /\ hasNow[p] \in Int
      /\ \A p \in Orders : owed[p] \in Int /\ owedNow[p] \in Int
  BY <1>2, <1>3
<1>5. /\ \A p \in Orders \ {o} : hasNow[p] = has[p]
      /\ \A p \in Orders \ {o} : owedNow[p] = owed[p]
  BY UntouchedKeeps
<1>6. /\ InHands(t) = SumFunctionOnSet(has, Orders)
      /\ InHands(t)' = SumFunctionOnSet(hasNow, Orders)
      /\ Owed(t) = SumFunctionOnSet(owed, Orders)
      /\ Owed(t)' = SumFunctionOnSet(owedNow, Orders)
  BY <1>1 DEF StockTally, Owed, Sum
<1>7. /\ has[o] = Placed(o, t) /\ hasNow[o] = Placed(o, t)'
      /\ owed[o] = OpenDemand(o, t) /\ owedNow[o] = OpenDemand(o, t)'
  OBVIOUS
<1> HIDE DEF has, hasNow, owed, owedNow
<1>8. SumFunctionOnSet(hasNow, Orders)
        = SumFunctionOnSet(has, Orders) + (hasNow[o] - has[o])
  BY <1>4, <1>5, FiniteAssumption, SumChange
<1>9. SumFunctionOnSet(owedNow, Orders)
        = SumFunctionOnSet(owed, Orders) + (owedNow[o] - owed[o])
  BY <1>4, <1>5, FiniteAssumption, SumChange
<1> QED
  BY <1>6, <1>7, <1>8, <1>9

\* The order sums, when none does.
LEMMA NoOrderMoves ==
    ASSUME TypeInv, TypeInv', NEW t \in Types, \A p \in Orders : Untouched(p)
    PROVE  InHands(t)' = InHands(t) /\ Owed(t)' = Owed(t)
<1> DEFINE has == [p \in Orders |-> Placed(p, t)]
           hasNow == [p \in Orders |-> Placed(p, t)']
           owed == [p \in Orders |-> OpenDemand(p, t)]
           owedNow == [p \in Orders |-> OpenDemand(p, t)']
<1>1. StockTally(t) /\ StockTally(t)'
  BY StockIs, StockIsNext
<1>2. hasNow = has /\ owedNow = owed
  BY UntouchedKeeps
<1> HIDE DEF has, hasNow, owed, owedNow
<1> QED
  BY <1>1, <1>2 DEF StockTally, Owed, Sum, has, hasNow, owed, owedNow

\* The van sum, when one van moves.
LEMMA OneVanMoves ==
    ASSUME TypeInv, TypeInv', NEW t \in Types, NEW v \in Vehicles,
           \A w \in Vehicles \ {v} : van'[w] = van[w]
    PROVE  FreeOnVans(t)' = FreeOnVans(t) + (van'[v][t] - van[v][t])
<1> DEFINE onVan == [w \in Vehicles |-> van[w][t]]
           onVanNow == [w \in Vehicles |-> van'[w][t]]
<1>1. \A w \in Vehicles : onVan[w] \in Int /\ onVanNow[w] \in Int
  BY DEF TypeInv, TypeOK
<1>2. \A w \in Vehicles \ {v} : onVanNow[w] = onVan[w]
  OBVIOUS
<1>3. /\ FreeOnVans(t) = SumFunctionOnSet(onVan, Vehicles)
      /\ FreeOnVans(t)' = SumFunctionOnSet(onVanNow, Vehicles)
  BY DEF FreeOnVans, Sum
<1>4. onVan[v] = van[v][t] /\ onVanNow[v] = van'[v][t]
  OBVIOUS
<1> HIDE DEF onVan, onVanNow
<1>5. SumFunctionOnSet(onVanNow, Vehicles)
        = SumFunctionOnSet(onVan, Vehicles) + (onVanNow[v] - onVan[v])
  BY <1>1, <1>2, FiniteAssumption, SumChange
<1> QED
  BY <1>3, <1>4, <1>5

\* The van sum, when none does.
LEMMA NoVanMoves ==
    ASSUME NEW t, UNCHANGED van
    PROVE  FreeOnVans(t)' = FreeOnVans(t)
BY DEF FreeOnVans
-----------------------------------------------------------------------------
(* What each use case does to it *)

\* A step loses no stock of type t that the code accounts for, makes none but by a
\* report that names t twice, and does not sell what is not there.
StockStep(t) ==
    /\ Accounted(t)' <= Accounted(t) \/ NamedTwice(t)
    /\ CompleteReports /\ ScreensOnly => Accounted(t)' = Accounted(t)
    /\ \/ Available(t, Orders)' >= 0
       \/ Available(t, Orders)' >= Available(t, Orders)
       \/ \E o \in Orders : status[o] = "failed_delivery" /\ status'[o] # "failed_delivery"

\* A step of one order that leaves every van and the warehouse alone.
LEMMA StillStockStep ==
    ASSUME TypeInv, TypeInv', NEW t \in Types, NEW o \in Orders,
           \A p \in Orders \ {o} : Untouched(p), UNCHANGED <<warehouse, van>>,
           \/ Placed(o, t)' = Placed(o, t)
           \/ ~ ScreensOnly /\ Placed(o, t)' <= Placed(o, t),
           \/ OpenDemand(o, t)' <= OpenDemand(o, t)
           \/ status[o] = "failed_delivery" /\ status'[o] # "failed_delivery"
    PROVE  StockStep(t)
<1>1. StockTally(t) /\ StockTally(t)'
  BY StockIs, StockIsNext
<1>2. /\ InHands(t)' = InHands(t) + (Placed(o, t)' - Placed(o, t))
      /\ Owed(t)' = Owed(t) + (OpenDemand(o, t)' - OpenDemand(o, t))
  BY OneOrderMoves
<1>3. FreeOnVans(t)' = FreeOnVans(t)
  BY NoVanMoves
<1>4. /\ {OpenDemand(o, t), Placed(o, t)} \subseteq Nat
      /\ {OpenDemand(o, t)', Placed(o, t)'} \subseteq Nat
  BY PlacedIsNat, PlacedIsNatNext
<1> QED
  BY <1>1, <1>2, <1>3, <1>4 DEF StockTally, StockStep

\* A step of one order and one van, that takes from the van what the order gains.
LEMMA VanStockStep ==
    ASSUME TypeInv, TypeInv', NEW t \in Types, NEW o \in Orders, NEW v \in Vehicles,
           \A p \in Orders \ {o} : Untouched(p), UNCHANGED warehouse,
           \A w \in Vehicles \ {v} : van'[w] = van[w],
           LET dVan == van'[v][t] - van[v][t]
               dOrder == Placed(o, t)' - Placed(o, t)
               dDemand == OpenDemand(o, t)' - OpenDemand(o, t)
           IN  /\ dVan + dOrder <= 0 \/ NamedTwice(t)
               /\ CompleteReports /\ ScreensOnly => dVan + dOrder = 0
               /\ \/ dVan - dDemand >= 0
                  \/ status[o] = "failed_delivery" /\ status'[o] # "failed_delivery"
    PROVE  StockStep(t)
<1>1. StockTally(t) /\ StockTally(t)'
  BY StockIs, StockIsNext
<1>2. /\ InHands(t)' = InHands(t) + (Placed(o, t)' - Placed(o, t))
      /\ Owed(t)' = Owed(t) + (OpenDemand(o, t)' - OpenDemand(o, t))
  BY OneOrderMoves
<1>3. FreeOnVans(t)' = FreeOnVans(t) + (van'[v][t] - van[v][t])
  BY OneVanMoves
<1>4. /\ {OpenDemand(o, t), Placed(o, t), van[v][t]} \subseteq Nat
      /\ {OpenDemand(o, t)', Placed(o, t)', van'[v][t]} \subseteq Nat
  BY PlacedIsNat, PlacedIsNatNext DEF TypeInv, TypeOK
<1> QED
  BY <1>1, <1>2, <1>3, <1>4 DEF StockTally, StockStep

\* A step that moves stock from the warehouse to a van and no order.
LEMMA LoadStockStep ==
    ASSUME TypeInv, TypeInv', NEW t \in Types, NEW v \in Vehicles, NEW q \in Quantities,
           UNCHANGED <<status, ordered, pending, delivered>>,
           warehouse' = Minus(warehouse, q), van' = [van EXCEPT ![v] = Plus(@, q)]
    PROVE  StockStep(t)
<1>1. StockTally(t) /\ StockTally(t)'
  BY StockIs, StockIsNext
<1>2. InHands(t)' = InHands(t) /\ Owed(t)' = Owed(t)
  BY NoOrderMoves DEF Untouched
<1>3. FreeOnVans(t)' = FreeOnVans(t) + (van'[v][t] - van[v][t])
  BY OneVanMoves DEF TypeInv, TypeOK
<1>4. van'[v][t] = van[v][t] + q[t] /\ warehouse'[t] = warehouse[t] - q[t]
  BY DEF TypeInv, TypeOK, Plus, Minus
<1>5. {van[v][t], q[t]} \subseteq Nat
  BY DEF TypeInv, TypeOK
<1> QED
  BY <1>1, <1>2, <1>3, <1>4, <1>5 DEF StockTally, StockStep

\* A step that moves no stock at all.
LEMMA NoStockStep ==
    ASSUME TypeInv, TypeInv', NEW t \in Types,
           UNCHANGED <<status, ordered, pending, delivered, warehouse, van>>
    PROVE  StockStep(t)
<1>1. StockTally(t) /\ StockTally(t)'
  BY StockIs, StockIsNext
<1>2. InHands(t)' = InHands(t) /\ Owed(t)' = Owed(t)
  BY NoOrderMoves DEF Untouched
<1>3. FreeOnVans(t)' = FreeOnVans(t)
  BY NoVanMoves
<1> QED
  BY <1>1, <1>2, <1>3 DEF StockTally, StockStep

\* Booking and amending promise only what is there.
LEMMA PromiseStockStep ==
    ASSUME TypeInv, TypeInv', NEW t \in Types, NEW o \in Orders, NEW q \in Requests,
           CreateOrder(o, q) \/ AmendOrder(o, q)
    PROVE  StockStep(t)
<1>1. /\ Orderable(q, o)
      /\ ordered' = [ordered EXCEPT ![o] = q]
      /\ status[o] \in {"draft", "booked", "confirmed"}
      /\ status'[o] \in {"booked", "confirmed"}
      /\ \A p \in Orders \ {o} : Untouched(p)
      /\ UNCHANGED <<warehouse, van>>
  BY OrderEdges DEF CreateOrder, AmendOrder, CanAmend, Untouched, stockVars, TypeInv, TypeOK
<1>2. /\ Placed(o, t) = 0 /\ Placed(o, t)' = 0
      /\ OpenDemand(o, t)' = q[t]
  BY <1>1 DEF Placed, OpenDemand, Holding, OnTrip, Done, TypeInv, TypeOK
<1>3. StockTally(t) /\ StockTally(t)'
  BY StockIs, StockIsNext
<1>4. /\ InHands(t)' = InHands(t) + (Placed(o, t)' - Placed(o, t))
      /\ Owed(t)' = Owed(t) + (OpenDemand(o, t)' - OpenDemand(o, t))
  BY <1>1, OneOrderMoves
<1>5. FreeOnVans(t)' = FreeOnVans(t)
  BY <1>1, NoVanMoves
<1>6. OpenDemand(o, t) \in Nat /\ q[t] \in Nat
  BY PlacedIsNat, RequestsAreQuantities
<1>7. Available(t, Orders \ {o}) = Available(t, Orders) + OpenDemand(o, t)
  <2> DEFINE demand == [p \in Orders |-> OpenDemand(p, t)]
             others == [p \in Orders \ {o} |-> OpenDemand(p, t)]
  <2>1. IsFiniteSet(Orders \ {o})
    BY FiniteAssumption, FS_Subset
  <2>2. /\ \A p \in Orders : demand[p] \in Int
        /\ \A p \in Orders \ {o} : others[p] = demand[p] /\ others[p] \in Int
    BY PlacedIsNat
  <2>3. /\ Owed(t) = SumFunctionOnSet(demand, Orders)
        /\ Available(t, Orders \ {o})
              = warehouse[t] + FreeOnVans(t) - SumFunctionOnSet(others, Orders \ {o})
    BY DEF Owed, Available, FreeOnVans, Sum
  <2>4. demand[o] = OpenDemand(o, t)
    OBVIOUS
  <2> HIDE DEF demand, others
  <2>5. /\ SumFunctionOnSet(demand, Orders)
             = demand[o] + SumFunctionOnSet(demand, Orders \ {o})
        /\ SumFunctionOnSet(others, Orders \ {o}) = SumFunctionOnSet(demand, Orders \ {o})
        /\ SumFunctionOnSet(others, Orders \ {o}) \in Int
    BY <2>1, <2>2, FiniteAssumption, SumLess, SumSame, SumInt
  <2> QED
    BY <1>3, <1>6, <2>3, <2>4, <2>5 DEF StockTally
<1>8. q[t] = 0 \/ q[t] <= Available(t, Orders \ {o})
  BY <1>1, <1>6 DEF Orderable
<1> QED
  BY <1>1, <1>2, <1>3, <1>4, <1>5, <1>6, <1>7, <1>8 DEF StockTally, StockStep

\* Moving an order that stays where it is moves no stock.
LEMMA StatusStockStep ==
    ASSUME AgreeInv, TripsAreReal, TypeInv', NEW t \in Types, NEW o \in Orders,
           \/ ConfirmOrder(o)
           \/ DispatchOrder(o)
           \/ DepartOrder(o)
           \/ RecordFailedDelivery(o)
           \/ RescheduleOrder(o)
           \/ CloseOrder(o)
    PROVE  StockStep(t)
<1> USE DEF AgreeInv, TypeInv, TypeOK
<1>1. /\ \A p \in Orders \ {o} : Untouched(p)
      /\ UNCHANGED <<warehouse, van, ordered[o], pending[o], delivered[o], Reserved(o)>>
  BY DEF ConfirmOrder, DispatchOrder, DepartOrder, RecordFailedDelivery, RescheduleOrder,
         CloseOrder, Untouched, orderVars, stockVars, Reserved
<1>2. \/ /\ status[o] = "booked" \/ (status[o] = "failed_delivery" /\ ~ ScreensOnly)
         /\ status'[o] = "confirmed"
      \/ /\ status[o] \in {"assigned", "failed_delivery"}
         /\ status'[o] = "ready_for_dispatch"
      \/ status[o] = "ready_for_dispatch" /\ status'[o] = "out_for_delivery"
      \/ status[o] = "out_for_delivery" /\ status'[o] = "failed_delivery"
      \/ status[o] = "delivered" /\ status'[o] = "closed"
  <2>1. CASE ConfirmOrder(o)
    BY <2>1, OrderEdges, BoundsAssumption DEF ConfirmOrder
  <2>2. CASE DispatchOrder(o)
    BY <2>2, OrderEdges DEF DispatchOrder
  <2>3. CASE DepartOrder(o)
    BY <2>3, OrderEdges DEF DepartOrder
  <2>4. CASE RecordFailedDelivery(o)
    BY <2>4, OrderEdges DEF RecordFailedDelivery
  <2>5. CASE RescheduleOrder(o)
    BY <2>5, OrderEdges DEF RescheduleOrder
  <2>6. CASE CloseOrder(o)
    BY <2>6, OrderEdges DEF CloseOrder
  <2> QED
    BY <2>1, <2>2, <2>3, <2>4, <2>5, <2>6
<1>3. /\ {OpenDemand(o, t), Placed(o, t), pending[o][t], ordered[o][t]} \subseteq Nat
      /\ Reserved(o)[t] \in Nat
  BY PlacedIsNat, ReservedIsQuantity
<1>4. \/ Placed(o, t)' = Placed(o, t)
      \/ ~ ScreensOnly /\ Placed(o, t)' <= Placed(o, t)
  BY <1>1, <1>2, <1>3 DEF Placed, Holding, OnTrip, Done
<1>5. \/ OpenDemand(o, t)' <= OpenDemand(o, t)
      \/ status[o] = "failed_delivery" /\ status'[o] # "failed_delivery"
  BY <1>1, <1>2, <1>3 DEF OpenDemand
<1> QED
  BY <1>1, <1>4, <1>5, StillStockStep

\* What is put on a trip is reserved on its van, and the rest stays owed.
LEMMA PutOnTripStockStep ==
    ASSUME TypeInv, TypeInv', NEW t \in Types, NEW o \in Orders, NEW r, NEW v \in Vehicles,
           PutOnTrip(o, r, v)
    PROVE  StockStep(t)
<1> DEFINE taken == Allocate(v, o)
<1>1. taken[t] \in Nat /\ ordered[o][t] \in Nat /\ van[v][t] \in Nat
  BY AllocateIsQuantity DEF TypeInv, TypeOK
<1> HIDE DEF taken
<1>2. /\ status[o] = "confirmed" /\ status'[o] = "assigned"
      /\ pending'[o][t] = ordered[o][t] - taken[t]
      /\ ordered' = ordered
      /\ van'[v][t] = van[v][t] - taken[t]
      /\ \A p \in Orders \ {o} : Untouched(p)
      /\ \A w \in Vehicles \ {v} : van'[w] = van[w]
      /\ UNCHANGED warehouse
  BY OrderEdges DEF PutOnTrip, taken, Untouched, TypeInv, TypeOK, Minus
<1>3. /\ Placed(o, t) = 0 /\ Placed(o, t)' = taken[t]
      /\ OpenDemand(o, t) = ordered[o][t]
      /\ OpenDemand(o, t)' = ordered[o][t] - taken[t]
  <2>1. Placed(o, t) = 0 /\ OpenDemand(o, t) = ordered[o][t]
    BY <1>2 DEF Placed, Holding, OnTrip, Done, OpenDemand
  <2>2. Placed(o, t)' = Reserved(o)'[t]
    BY <1>2 DEF Placed, Holding, OnTrip
  <2>3. Reserved(o)'[t] = ordered[o][t] - pending'[o][t]
    BY <1>2 DEF Reserved, Minus
  <2>4. OpenDemand(o, t)' = pending'[o][t]
    BY <1>2 DEF OpenDemand
  <2> QED
    BY <1>1, <1>2, <2>1, <2>2, <2>3, <2>4
<1> QED
  BY <1>1, <1>2, <1>3, VanStockStep

\* What is given back goes to the van it came from.
LEMMA ReleaseStockStep ==
    ASSUME TypeInv, TypeInv', NEW t \in Types, NEW o \in Orders, NEW v \in Vehicles,
           status[o] \in Holding, status'[o] \in {"confirmed", "cancelled"},
           status[o] = "failed_delivery" \/ status'[o] = "cancelled",
           Release(o, v), \A p \in Orders \ {o} : Untouched(p), UNCHANGED warehouse
    PROVE  StockStep(t)
<1>1. Reserved(o)[t] \in Nat /\ van[v][t] \in Nat
  BY ReservedIsQuantity DEF TypeInv, TypeOK
<1>2. /\ van'[v][t] = van[v][t] + Reserved(o)[t]
      /\ \A w \in Vehicles \ {v} : van'[w] = van[w]
  BY DEF Release, Plus, TypeInv, TypeOK
<1>3. /\ Placed(o, t) = Reserved(o)[t] /\ Placed(o, t)' = 0
      /\ OpenDemand(o, t) \in Nat
      /\ status'[o] = "cancelled" => OpenDemand(o, t)' = 0
      /\ OpenDemand(o, t)' \in Nat
  BY PlacedIsNat, PlacedIsNatNext DEF Placed, OpenDemand, Holding, OnTrip, Done
<1> QED
  BY <1>1, <1>2, <1>3, VanStockStep

\* An order re-dated or cancelled gives back what it had, if it had anything.
LEMMA GiveBackStockStep ==
    ASSUME AgreeInv, TripsAreReal, TypeInv', NEW t \in Types, NEW o \in Orders,
           RescheduleToAnotherDay(o) \/ CancelOrderFree(o) \/ ApproveCancellation(o)
    PROVE  StockStep(t)
<1> USE DEF AgreeInv, TypeInv, TypeOK
<1>1. CASE RescheduleToAnotherDay(o) /\ tripOf[o] # NoRoute
  <2>1. status[o] = "failed_delivery" /\ status'[o] = "confirmed"
    BY <1>1, OrderEdges DEF RescheduleToAnotherDay, TripsAreReal
  <2>2. vehicleOf[tripOf[o]] \in Vehicles
    BY <2>1 DEF OrderAgrees, TripsAreReal, Crewed
  <2>3. \A p \in Orders \ {o} : Untouched(p)
    BY <1>1 DEF RescheduleToAnotherDay, Untouched
  <2>4. Release(o, vehicleOf[tripOf[o]]) /\ UNCHANGED warehouse
    BY <1>1 DEF RescheduleToAnotherDay
  <2> QED
    BY <2>1, <2>2, <2>3, <2>4, ReleaseStockStep DEF Holding
<1>2. CASE RescheduleToAnotherDay(o) /\ tripOf[o] = NoRoute
  <2>1. status[o] = "booked" /\ status'[o] = "confirmed"
    BY <1>2, OrderEdges DEF RescheduleToAnotherDay, OrderAgrees
  <2>2. /\ \A p \in Orders \ {o} : Untouched(p)
        /\ UNCHANGED <<warehouse, van, ordered>>
    BY <1>2 DEF RescheduleToAnotherDay, Untouched
  <2>3. Placed(o, t)' = 0 /\ Placed(o, t) = 0
    BY <2>1 DEF Placed, Holding, OnTrip, Done
  <2>4. OpenDemand(o, t)' = OpenDemand(o, t)
    BY <2>1, <2>2 DEF OpenDemand
  <2>5. OpenDemand(o, t)' <= OpenDemand(o, t)
    BY <2>4, PlacedIsNat
  <2>6. UNCHANGED <<warehouse, van>>
    BY <2>2
  <2> HIDE DEF AgreeInv, TypeInv, TypeOK
  <2>7. TypeInv
    BY DEF AgreeInv
  <2> QED
    BY <2>2, <2>3, <2>5, <2>6, <2>7, StillStockStep
<1>3. ASSUME CancelOrderFree(o) \/ ApproveCancellation(o)
      PROVE  /\ Cancel(o)
             /\ status[o] \notin {"draft", "cancelled"} \cup Done
             /\ status'[o] = "cancelled"
             /\ \A p \in Orders \ {o} : Untouched(p)
             /\ UNCHANGED warehouse
  BY <1>3 DEF CancelOrderFree, ApproveCancellation, Cancel, LC!FreeCancelStates,
              LC!ApprovalCancelStates, Done, Untouched, orderVars
<1>4. CASE (CancelOrderFree(o) \/ ApproveCancellation(o)) /\ tripOf[o] # NoRoute
  <2>1. Release(o, vehicleOf[tripOf[o]]) /\ stops[tripOf[o]][o] = "pending"
    BY <1>3, <1>4, StopEdges DEF Cancel, CancelStop
  <2>2. status[o] \in Holding /\ vehicleOf[tripOf[o]] \in Vehicles
    BY <1>4, <2>1 DEF StopAgrees, Holding, TripsAreReal, Crewed
  <2> QED
    BY <1>3, <1>4, <2>1, <2>2, ReleaseStockStep
<1>5. CASE (CancelOrderFree(o) \/ ApproveCancellation(o)) /\ tripOf[o] = NoRoute
  <2>1. status[o] \notin Holding /\ UNCHANGED van
    BY <1>3, <1>5 DEF TripsAreReal, Cancel
  <2>2. Placed(o, t)' = 0 /\ Placed(o, t) = 0
    BY <1>3, <1>5, <2>1 DEF Placed, Holding, OnTrip, Done
  <2>3. OpenDemand(o, t)' = 0
    BY <1>3, <1>5 DEF OpenDemand
  <2> QED
    BY <1>3, <1>5, <2>1, <2>2, <2>3, PlacedIsNat, StillStockStep
<1> QED
  BY <1>1, <1>2, <1>4, <1>5

\* A delivery hands over what was reserved, or puts it back on the van; a line the
\* driver does not report on is lost, and one named twice is given back twice.
LEMMA DeliverStockStep ==
    ASSUME ProvenInv, TypeInv', NEW t \in Types, NEW o \in Orders,
           NEW report \in Reports(o),
           DeliverOrder(o, report)
    PROVE  StockStep(t)
<1> DEFINE v == vehicleOf[tripOf[o]]
           had == Reserved(o)[t]
<1>1. /\ status[o] = "out_for_delivery" /\ status'[o] = "delivered"
      /\ delivered[o] = None
      /\ v \in Vehicles
  <2>1. status[o] = "out_for_delivery" /\ status'[o] = "delivered"
    BY OrderEdges DEF DeliverOrder, ProvenInv, AgreeInv, TypeInv, TypeOK
  <2>2. delivered[o] = None
    BY <2>1 DEF ProvenInv, UndeliveredIsBlank, Done
  <2>3. tripOf[o] \in Routes /\ Started(tripOf[o]) = "in_progress"
    BY DEF DeliverOrder, ProvenInv, AgreeInv, TypeInv, TypeOK
  <2>4. v \in Vehicles
    BY <2>3 DEF Started, ProvenInv, AgreeInv, TypeInv, Crewed
  <2> QED
    BY <2>1, <2>2, <2>4
<1> HIDE DEF v
<1> USE DEF ProvenInv, AgreeInv, TypeInv, TypeOK
<1>2. had \in Nat /\ ordered[o][t] \in Nat /\ pending[o][t] \in Nat /\ van[v][t] \in Nat
  BY <1>1, ReservedIsQuantity
<1> DEFINE given == LastLine(report[t]).given
           back == Shortfall(o, report)[t]
<1>3. t \in DOMAIN report =>
        /\ given \in Nat /\ had - given \in Nat
        /\ back \in Nat /\ had - given <= back
        /\ Len(report[t]) \in Nat /\ Len(report[t]) # 0
        /\ Len(report[t]) = 1 => back = had - given
  <2>1. WithinReserved(o, report)
    BY DEF DeliverOrder
  <2>2. t \in DOMAIN report => Len(report[t]) \in Nat /\ Len(report[t]) # 0
    BY ReportIsLines
  <2>3. t \in DOMAIN report =>
          /\ given \in Nat /\ had - given \in Nat
          /\ back \in Nat /\ had - given <= back
          /\ Len(report[t]) = 1 => back = had - given
    <3> HIDE DEF ProvenInv, AgreeInv, TypeInv, TypeOK
    <3>1. TypeInv
      BY DEF ProvenInv, AgreeInv
    <3> QED
      BY <2>1, <3>1, ReportTotals
  <2> QED
    BY <2>2, <2>3
<1>4. /\ van'[v][t] = van[v][t] + back
      /\ t \notin DOMAIN report => back = 0
      /\ \A w \in Vehicles \ {v} : van'[w] = van[w]
  <2>1. t \notin DOMAIN report => back = 0
    BY DEF Shortfall
  <2> HIDE DEF back
  <2>2. van' = [van EXCEPT ![v] = Plus(@, Shortfall(o, report))]
    BY DEF DeliverOrder, v
  <2> QED
    BY <1>1, <2>1, <2>2 DEF Plus, back
<1>5. /\ Placed(o, t) = had
      /\ Placed(o, t)' = IF t \in DOMAIN report THEN given ELSE 0
  <2>1. delivered'[o][t] = IF t \in DOMAIN report THEN given ELSE delivered[o][t]
    BY DEF DeliverOrder
  <2>2. Placed(o, t) = had
    BY <1>1 DEF Placed, Holding, OnTrip
  <2>3. Placed(o, t)' = delivered'[o][t]
    BY <1>1 DEF Placed, Holding, OnTrip, Done
  <2> QED
    BY <1>1, <2>1, <2>2, <2>3 DEF None
<1>6. OpenDemand(o, t) = pending[o][t] /\ OpenDemand(o, t)' = 0
  BY <1>1 DEF OpenDemand
<1>7. CompleteReports => IF t \in DOMAIN report THEN Len(report[t]) = 1 ELSE had = 0
  <2>1. CompleteReports => report \in [Lines(o) -> [1..1 -> ReportLine]]
    BY DEF Reports
  <2>2. t \notin Lines(o) => ordered[o][t] = 0
    BY <1>2 DEF Lines
  <2>3. had = ordered[o][t] - pending[o][t]
    BY DEF Reserved, Minus
  <2>4. CompleteReports /\ t \in DOMAIN report => report[t] \in [1..1 -> ReportLine]
    BY <2>1
  <2>5. CompleteReports /\ t \in DOMAIN report => DOMAIN report[t] = 1..1
    BY <2>4
  <2>6. CompleteReports /\ t \in DOMAIN report => Len(report[t]) = 1
    BY <1>3, <2>5, ReportIsLines
  <2> QED
    BY <1>2, <2>1, <2>2, <2>3, <2>6
<1>8. (\A p \in Orders \ {o} : Untouched(p)) /\ UNCHANGED warehouse
  BY DEF DeliverOrder, Untouched
<1>9. t \in DOMAIN report => Len(report[t]) = 1 \/ NamedTwice(t)
  BY TwiceIsNamed, Zenon
<1> HIDE DEF had, given, back, ProvenInv, AgreeInv, TypeInv, TypeOK
<1>10. TypeInv
  BY DEF ProvenInv, AgreeInv
<1>11. LET dVan == van'[v][t] - van[v][t]
           dOrder == Placed(o, t)' - Placed(o, t)
           dDemand == OpenDemand(o, t)' - OpenDemand(o, t)
       IN  /\ dVan + dOrder <= 0 \/ (t \in DOMAIN report /\ Len(report[t]) # 1)
           /\ CompleteReports /\ ScreensOnly => dVan + dOrder = 0
           /\ dVan - dDemand >= 0
  <2>1. CASE t \in DOMAIN report
    <3>1. /\ van'[v][t] - van[v][t] = back
          /\ Placed(o, t)' - Placed(o, t) = given - had
          /\ OpenDemand(o, t)' - OpenDemand(o, t) = 0 - pending[o][t]
      BY <1>2, <1>3, <1>4, <1>5, <1>6, <2>1
    <3>2. back - (0 - pending[o][t]) >= 0
      BY <1>2, <1>3, <2>1
    <3>3. Len(report[t]) = 1 => back + (given - had) = 0
      BY <1>2, <1>3, <2>1
    <3>4. /\ back + (given - had) <= 0 \/ (t \in DOMAIN report /\ Len(report[t]) # 1)
          /\ CompleteReports /\ ScreensOnly => back + (given - had) = 0
      BY <1>7, <2>1, <3>3
    <3> QED
      BY <3>1, <3>2, <3>4
  <2>2. CASE t \notin DOMAIN report
    BY <1>2, <1>4, <1>5, <1>6, <1>7, <2>2
  <2> QED
    BY <2>1, <2>2
<1>12. (van'[v][t] - van[v][t]) + (Placed(o, t)' - Placed(o, t)) <= 0 \/ NamedTwice(t)
  <2>1. \/ (van'[v][t] - van[v][t]) + (Placed(o, t)' - Placed(o, t)) <= 0
        \/ t \in DOMAIN report /\ Len(report[t]) # 1
    BY <1>11
  <2> QED
    BY <1>9, <2>1, Zenon
<1> QED
  BY <1>1, <1>4, <1>8, <1>10, <1>11, <1>12, VanStockStep

\* The dispatch board takes from warehouse and van what its orders gain.
LEMMA DispatchStockStep ==
    ASSUME AgreeInv, TypeInv', NEW t \in Types, NEW r \in Routes,
           NEW new \in SUBSET Orders, NEW extra \in Requests \cup {None},
           LoadAndDispatchRoute(r, new, extra)
    PROVE  StockStep(t)
<1> DEFINE v == vehicleOf[r]
           needed == Needed(r, new)
           toLoad == [u \in Types |->
                         (IF needed[u] > van[v][u] THEN needed[u] - van[v][u] ELSE 0)
                         + extra[u]]
           backorder == [o \in Waiting(r) |-> pending[o][t]]
           whole == [o \in new |-> ordered[o][t]]
           late == [o \in Orders |-> IF o \in Waiting(r) THEN pending[o][t] ELSE 0]
           fresh == [o \in Orders |-> IF o \in new THEN ordered[o][t] ELSE 0]
           gain == [o \in Orders |-> late[o] + fresh[o]]
           has == [o \in Orders |-> Placed(o, t)]
           hasNow == [o \in Orders |-> Placed(o, t)']
           owed == [o \in Orders |-> OpenDemand(o, t)]
           owedNow == [o \in Orders |-> OpenDemand(o, t)']
<1>1. TypeInv /\ v \in Vehicles
  BY DEF AgreeInv, TypeInv, Crewed, LoadAndDispatchRoute
<1>2. needed[t] \in Nat /\ van[v][t] \in Nat /\ extra[t] \in Nat /\ warehouse[t] \in Nat
  <2>1. needed \in Quantities
    BY <1>1, NeededIsQuantity DEF TypeInv
  <2>2. extra \in Quantities
    BY RequestsAreQuantities, NoneIsQuantity
  <2> HIDE DEF needed
  <2> QED
    BY <1>1, <2>1, <2>2 DEF TypeInv, TypeOK
<1>3. toLoad[t] \in Nat
  <2> HIDE DEF needed, v
  <2> QED
    BY <1>2
<1>4. /\ warehouse'[t] = warehouse[t] - toLoad[t]
      /\ van'[v][t] = van[v][t] + toLoad[t] - needed[t]
      /\ \A w \in Vehicles \ {v} : van'[w] = van[w]
  <2>1. /\ warehouse' = Minus(warehouse, toLoad)
        /\ van' = [van EXCEPT ![v] = Minus(Plus(van[v], toLoad), needed)]
    BY DEF LoadAndDispatchRoute
  <2>2. van \in [Vehicles -> Quantities]
    BY <1>1 DEF TypeInv, TypeOK
  <2> HIDE DEF toLoad, needed, v
  <2>3. warehouse'[t] = warehouse[t] - toLoad[t]
    BY <2>1 DEF Minus
  <2>4. van'[v] = Minus(Plus(van[v], toLoad), needed)
    BY <1>1, <2>1, <2>2
  <2>5. van'[v][t] = van[v][t] + toLoad[t] - needed[t]
    BY <1>2, <1>3, <2>4 DEF Minus, Plus
  <2>6. \A w \in Vehicles \ {v} : van'[w] = van[w]
    BY <2>1, <2>2
  <2> QED
    BY <2>3, <2>5, <2>6
<1>5. Waiting(r) \in SUBSET Orders /\ Waiting(r) \cap new = {}
  BY OrderEdges DEF Waiting, PendingOn, LoadAndDispatchRoute
<1>6. needed[t] = SumFunctionOnSet(gain, Orders)
  <2>1. needed[t] = SumFunctionOnSet(backorder, Waiting(r)) + SumFunctionOnSet(whole, new)
    BY DEF Needed, Sum
  <2>2. /\ \A o \in Waiting(r) : backorder[o] \in Int /\ late[o] = backorder[o]
        /\ \A o \in Orders \ Waiting(r) : late[o] = 0
    BY <1>1, <1>5 DEF TypeInv, TypeOK
  <2>3. /\ \A o \in new : whole[o] \in Int /\ fresh[o] = whole[o]
        /\ \A o \in Orders \ new : fresh[o] = 0
    BY <1>1 DEF TypeInv, TypeOK
  <2>4. \A o \in Orders : late[o] \in Int /\ fresh[o] \in Int /\ gain[o] = late[o] + fresh[o]
    BY <1>1 DEF TypeInv, TypeOK
  <2> HIDE DEF backorder, whole, late, fresh, gain, needed
  <2>5. /\ SumFunctionOnSet(late, Orders) = SumFunctionOnSet(backorder, Waiting(r))
        /\ SumFunctionOnSet(fresh, Orders) = SumFunctionOnSet(whole, new)
    BY <1>5, <2>2, <2>3, FiniteAssumption, SumOver
  <2> QED
    BY <2>1, <2>4, <2>5, FiniteAssumption, SumPlus
<1>7. ASSUME NEW o \in Orders
      PROVE  /\ {has[o], hasNow[o], owed[o], owedNow[o], gain[o]} \subseteq Int
             /\ hasNow[o] = has[o] + gain[o]
             /\ owed[o] = owedNow[o] + gain[o]
  <2>1. {has[o], hasNow[o], owed[o], owedNow[o]} \subseteq Int
    BY <1>1, PlacedIsNat, PlacedIsNatNext
  <2>2. pending[o][t] \in Nat /\ ordered[o][t] \in Nat
    BY <1>1 DEF TypeInv, TypeOK
  <2>3. /\ status'[o] = IF o \in Waiting(r) \cup new THEN "ready_for_dispatch" ELSE status[o]
        /\ pending'[o] = IF o \in Waiting(r) \cup new THEN None ELSE pending[o]
        /\ UNCHANGED <<ordered, delivered>>
    BY DEF LoadAndDispatchRoute
  <2>4. CASE o \notin Waiting(r) \cup new
    <3>1. Untouched(o)
      BY <2>3, <2>4 DEF Untouched
    <3>2. gain[o] = 0
      BY <2>4
    <3>3. hasNow[o] = has[o] /\ owedNow[o] = owed[o]
      BY <3>1, UntouchedKeeps
    <3> HIDE DEF has, hasNow, owed, owedNow, gain
    <3> QED
      BY <2>1, <3>2, <3>3
  <2>5. CASE o \in Waiting(r) \cup new
    <3>1. Placed(o, t)' = ordered[o][t] /\ OpenDemand(o, t)' = 0
      <4>1. status'[o] = "ready_for_dispatch" /\ pending'[o][t] = 0 /\ ordered' = ordered
        BY <2>3, <2>5 DEF None
      <4>2. Placed(o, t)' = Reserved(o)'[t] /\ OpenDemand(o, t)' = pending'[o][t]
        BY <4>1 DEF Placed, OpenDemand, Holding, OnTrip
      <4>3. Reserved(o)'[t] = ordered[o][t] - pending'[o][t]
        BY <4>1 DEF Reserved, Minus
      <4> QED
        BY <2>2, <4>1, <4>2, <4>3
    <3>2. CASE o \in new
      <4>1. status[o] = "confirmed"
        BY <3>2, OrderEdges DEF LoadAndDispatchRoute
      <4>2. Placed(o, t) = 0 /\ OpenDemand(o, t) = ordered[o][t]
        BY <4>1 DEF Placed, OpenDemand, Holding, OnTrip, Done
      <4>3. gain[o] = ordered[o][t]
        BY <1>5, <2>2, <3>2
      <4> HIDE DEF gain
      <4> QED
        BY <2>2, <3>1, <4>2, <4>3
    <3>3. CASE o \in Waiting(r)
      <4>1. status[o] \in {"assigned", "ready_for_dispatch"}
        BY <3>3 DEF Waiting
      <4>2. /\ Placed(o, t) = ordered[o][t] - pending[o][t]
            /\ OpenDemand(o, t) = pending[o][t]
        BY <4>1 DEF Placed, OpenDemand, Holding, OnTrip, Done, Reserved, Minus
      <4>3. gain[o] = pending[o][t]
        BY <1>5, <2>2, <3>3
      <4> HIDE DEF gain
      <4> QED
        BY <2>2, <3>1, <4>2, <4>3
    <3> QED
      BY <2>5, <3>2, <3>3
  <2> QED
    BY <2>4, <2>5
<1>8. StockTally(t) /\ StockTally(t)'
  BY <1>1, StockIs, StockIsNext
<1>9. /\ InHands(t) = SumFunctionOnSet(has, Orders)
      /\ InHands(t)' = SumFunctionOnSet(hasNow, Orders)
      /\ Owed(t) = SumFunctionOnSet(owed, Orders)
      /\ Owed(t)' = SumFunctionOnSet(owedNow, Orders)
  BY <1>8 DEF StockTally, Owed, Sum
<1>10. FreeOnVans(t)' = FreeOnVans(t) + (van'[v][t] - van[v][t])
  BY <1>1, <1>4, OneVanMoves
<1> HIDE DEF needed, toLoad, v, gain, has, hasNow, owed, owedNow
<1>11. InHands(t)' = InHands(t) + needed[t]
  BY <1>6, <1>7, <1>9, FiniteAssumption, SumPlus
<1>12. Owed(t) = Owed(t)' + needed[t]
  BY <1>6, <1>7, <1>9, FiniteAssumption, SumPlus
<1> QED
  BY <1>2, <1>3, <1>4, <1>8, <1>10, <1>11, <1>12 DEF StockTally, StockStep

\* Every use case is such a step.
LEMMA NextStockStep ==
    ASSUME StockInv, [Next]_vars, NEW t \in Types
    PROVE  StockStep(t)
<1>1. /\ ProvenInv /\ AgreeInv /\ TripsAreReal /\ TypeInv
      /\ TypeInv'
  BY NextTypeInv DEF StockInv, ProvenInv, AgreeInv
<1>2. ASSUME NEW o \in Orders, OrderStep(o)
      PROVE  StockStep(t)
  <2>1. CASE \E q \in Requests : CreateOrder(o, q) \/ AmendOrder(o, q)
    BY <1>1, <2>1, PromiseStockStep
  <2>2. CASE \/ ConfirmOrder(o)
             \/ DispatchOrder(o)
             \/ DepartOrder(o)
             \/ RecordFailedDelivery(o)
             \/ RescheduleOrder(o)
             \/ CloseOrder(o)
    BY <1>1, <2>2, StatusStockStep
  <2>3. CASE \E r \in Routes : AssignOrderToRoute(o, r)
    <3>1. PICK r \in Routes : AssignOrderToRoute(o, r)
      BY <2>3
    <3>2. vehicleOf[r] \in Vehicles
      BY <1>1, <3>1 DEF AssignOrderToRoute, TypeInv, Crewed
    <3> QED
      BY <1>1, <3>1, <3>2, PutOnTripStockStep DEF AssignOrderToRoute
  <2>4. CASE \E r \in Routes, d \in Drivers, v \in Vehicles : AssignOrderToNewRoute(o, r, d, v)
    BY <1>1, <2>4, PutOnTripStockStep DEF AssignOrderToNewRoute
  <2>5. CASE \/ ResendDeliveryOtp(o)
             \/ LoseCode(o)
             \/ RequestCancellation(o)
             \/ RejectCancellation(o)
    BY <1>1, <2>5, NoStockStep
       DEF ResendDeliveryOtp, LoseCode, RequestCancellation, RejectCancellation, orderVars,
           stockVars
  <2>6. CASE \E report \in Reports(o) : DeliverOrder(o, report)
    BY <1>1, <2>6, DeliverStockStep
  <2>7. CASE RescheduleToAnotherDay(o) \/ CancelOrderFree(o) \/ ApproveCancellation(o)
    BY <1>1, <2>7, GiveBackStockStep
  <2> QED
    BY <1>2, <2>1, <2>2, <2>3, <2>4, <2>5, <2>6, <2>7 DEF OrderStep
<1>3. ASSUME NEW r \in Routes, RouteStep(r)
      PROVE  StockStep(t)
  <2>1. CASE \/ \E d \in Drivers, v \in Vehicles : PlanRoute(r, d, v)
             \/ ConfirmRouteLoad(r)
             \/ \E to \in RouteStatuses : UpdateRouteStatus(r, to)
             \/ CompleteRouteReconciliation(r)
    BY <1>1, <2>1, NoStockStep
       DEF PlanRoute, ConfirmRouteLoad, UpdateRouteStatus, CompleteRouteReconciliation,
           orderVars, stockVars
  <2>2. CASE \E q \in Requests : LoadVehicleForRoute(r, q)
    <3>1. PICK q \in Requests : LoadVehicleForRoute(r, q)
      BY <2>2
    <3>2. vehicleOf[r] \in Vehicles
      BY <1>1, <3>1
         DEF LoadVehicleForRoute, RouteCanMove, RouteTransitions, TypeInv, Crewed
    <3>3. q \in Quantities
      BY RequestsAreQuantities
    <3>4. /\ UNCHANGED <<status, ordered, pending, delivered>>
          /\ warehouse' = Minus(warehouse, q)
          /\ van' = [van EXCEPT ![vehicleOf[r]] = Plus(@, q)]
      BY <3>1 DEF LoadVehicleForRoute, orderVars
    <3> QED
      BY <1>1, <3>2, <3>3, <3>4, LoadStockStep
  <2>3. CASE \E new \in SUBSET Orders, extra \in Requests \cup {None} :
                LoadAndDispatchRoute(r, new, extra)
    BY <1>1, <2>3, DispatchStockStep
  <2> QED
    BY <1>3, <2>1, <2>2, <2>3 DEF RouteStep
<1>4. ASSUME NEW v \in Vehicles, VanStep(v)
      PROVE  StockStep(t)
  <2>1. ASSUME NEW q \in Requests, LoadTransfer(v, q)
        PROVE  StockStep(t)
    BY <1>1, <2>1, RequestsAreQuantities, LoadStockStep DEF LoadTransfer, orderVars
  <2>2. CASE RecordCount(v) \/ \E decision \in Decisions : DecideCount(v, decision)
    BY <1>1, <2>2, NoStockStep DEF RecordCount, DecideCount, orderVars, stockVars
  <2> QED
    BY <1>4, <2>1, <2>2 DEF VanStep
<1>5. CASE UNCHANGED vars
  BY <1>1, <1>5, NoStockStep DEF vars, orderVars, stockVars
<1> QED
  BY <1>2, <1>3, <1>4, <1>5 DEF Next

\* The stock invariant holds of every state.
LEMMA StockInvCorrect == Spec => []StockInv
<1>1. Init => TripsAreReal
  BY DEF Init, TripsAreReal, Holding, OnTrip
<1>2. StockInv /\ [Next]_vars => StockInv'
  BY NextTypeInv, NextAgrees, NextProven, NextTripsReal DEF StockInv, ProvenInv, AgreeInv
<1>3. Init => StockInv
  BY <1>1, InitTypeInv, InitAgrees
     DEF Init, StockInv, ProvenInv, AgreeInv, DeliveryIsProven, UndeliveredIsBlank, Done
<1> QED
  BY <1>2, <1>3, PTL DEF Spec

\* At first all stock is in the warehouse.
LEMMA InitAccounted ==
    ASSUME Init, NEW t \in Types
    PROVE  Accounted(t) = WarehouseStock
<1>1. TypeInv
  BY InitTypeInv
<1> DEFINE has == [o \in Orders |-> Placed(o, t)]
           onVan == [v \in Vehicles |-> van[v][t]]
<1>2. StockTally(t)
  BY <1>1, StockIs
<1>3. (\A o \in Orders : has[o] = 0) /\ (\A v \in Vehicles : onVan[v] = 0)
  BY DEF Init, Placed, Holding, OnTrip, Done, None
<1>4. /\ InHands(t) = SumFunctionOnSet(has, Orders)
      /\ FreeOnVans(t) = SumFunctionOnSet(onVan, Vehicles)
  BY <1>2 DEF StockTally, FreeOnVans, Sum
<1> HIDE DEF has, onVan
<1>5. InHands(t) = 0 /\ FreeOnVans(t) = 0
  BY <1>3, <1>4, FiniteAssumption, SumZero
<1>6. warehouse[t] = WarehouseStock /\ WarehouseStock \in Nat
  BY BoundsAssumption DEF Init
<1> QED
  BY <1>2, <1>5, <1>6 DEF StockTally

\* For any number of orders, vans and cylinder types, no call makes a cylinder out
\* of nothing: assign, dispatch, deliver, re-date and cancel move what they count
\* between warehouse, vans and customers, or lose it; unless a delivery report
\* names the type twice.
THEOREM StockNeverMadeUpAlways == Spec => StockNeverMadeUp
<1>1. StockInv /\ [Next]_vars => NothingMadeUp
  <2> SUFFICES ASSUME StockInv, [Next]_vars, NEW t \in Types, Accounted(t)' > Accounted(t)
               PROVE  NamedTwice(t)
    BY DEF NothingMadeUp
  <2>1. Accounted(t)' <= Accounted(t) \/ NamedTwice(t)
    BY NextStockStep DEF StockStep
  <2>2. TypeInv /\ TypeInv'
    BY NextTypeInv DEF StockInv, ProvenInv, AgreeInv
  <2>3. StockTally(t) /\ StockTally(t)'
    BY <2>2, StockIs, StockIsNext
  <2>4. Accounted(t) \in Nat /\ Accounted(t)' \in Nat
    BY <2>3 DEF StockTally
  <2> QED
    BY <2>1, <2>4
<1>2. StockInv /\ [Next]_vars => [NothingMadeUp]_vars
  BY <1>1
<1> QED
  BY <1>2, StockInvCorrect, PTL DEF Spec, StockNeverMadeUp

\* Through the screens and with complete delivery reports, none is lost either.
THEOREM StockConservedAlways ==
    ASSUME CompleteReports, ScreensOnly
    PROVE  Spec => []StockConserved
<1>1. Init => StockConserved
  BY InitAccounted DEF StockConserved
<1>2. StockInv /\ StockConserved /\ [Next]_vars => StockConserved'
  <2> SUFFICES ASSUME StockInv, StockConserved, [Next]_vars, NEW t \in Types
               PROVE  Accounted(t)' = WarehouseStock
    BY DEF StockConserved
  <2> QED
    BY NextStockStep DEF StockStep, StockConserved
<1> QED
  BY <1>1, <1>2, StockInvCorrect, PTL DEF Spec

\* Whatever the API is asked, the branch is not made to owe more than it has, and
\* not more than it did, but by bringing a failed order back.
THEOREM SoldIsThereAlways == Spec => SoldIsThere
<1>1. StockInv /\ [Next]_vars => [PromisesKept]_vars
  <2> SUFFICES ASSUME StockInv, [Next]_vars, NEW t \in Types,
                      Available(t, Orders)' < 0,
                      Available(t, Orders)' < Available(t, Orders)
               PROVE  \E o \in Orders :
                         status[o] = "failed_delivery" /\ status'[o] # "failed_delivery"
    BY DEF PromisesKept
  <2>1. TypeInv /\ TypeInv'
    BY NextTypeInv DEF StockInv, ProvenInv, AgreeInv
  <2>2. StockTally(t) /\ StockTally(t)'
    BY <2>1, StockIs, StockIsNext
  <2>3. Available(t, Orders) \in Int /\ Available(t, Orders)' \in Int
    BY <2>2 DEF StockTally
  <2> QED
    BY <2>3, NextStockStep DEF StockStep
<1> QED
  BY <1>1, StockInvCorrect, PTL DEF Spec, SoldIsThere

-----------------------------------------------------------------------------
(* Empties *)

\* A delivery puts on the van what its order brings back, and more only if its
\* report names the type twice.
LEMMA DeliverEmpties ==
    ASSUME ProvenInv, TypeInv', NEW t \in Types, NEW o \in Orders,
           NEW report \in Reports(o), DeliverOrder(o, report)
    PROVE  \/ Surplus(t)' = Surplus(t)
           \/ Surplus(t)' > Surplus(t) /\ NamedTwice(t)
<1> DEFINE v == vehicleOf[tripOf[o]]
           back == Back(report)[t]
           told == LastLine(report[t]).empty
           onVan == [w \in Vehicles |-> vanEmpty[w][t]]
           onVanNow == [w \in Vehicles |-> vanEmpty'[w][t]]
           brought == [p \in Orders |-> collected[p][t]]
           broughtNow == [p \in Orders |-> collected'[p][t]]
<1>1. v \in Vehicles /\ collected[o] = None
  <2>1. status[o] = "out_for_delivery"
    BY OrderEdges DEF DeliverOrder
  <2>2. tripOf[o] \in Routes /\ Started(tripOf[o]) = "in_progress"
    BY DEF DeliverOrder, ProvenInv, AgreeInv, TypeInv, TypeOK
  <2> QED
    BY <2>1, <2>2 DEF Started, ProvenInv, UndeliveredIsBlank, Done, AgreeInv, TypeInv, Crewed
<1>2. /\ t \in DOMAIN report =>
            /\ back \in Nat /\ told \in Nat /\ told <= back
            /\ back = told \/ NamedTwice(t)
      /\ t \notin DOMAIN report => back = 0
  <2>1. t \notin DOMAIN report => back = 0
    BY DEF Back
  <2>2. t \in DOMAIN report =>
          /\ back \in Nat /\ told \in Nat /\ told <= back
          /\ Len(report[t]) = 1 => back = told
    BY ReportTotals DEF DeliverOrder, ProvenInv, AgreeInv
  <2>4. t \in DOMAIN report => Len(report[t]) = 1 \/ NamedTwice(t)
    BY TwiceIsNamed, Zenon
  <2> HIDE DEF back, told
  <2> QED
    BY <2>1, <2>2, <2>4
<1>3. /\ \A w \in Vehicles : onVan[w] \in Int /\ onVanNow[w] \in Int
      /\ \A p \in Orders : brought[p] \in Int /\ broughtNow[p] \in Int
  BY DEF ProvenInv, AgreeInv, TypeInv, TypeOK
<1>4. /\ onVanNow[v] = onVan[v] + back
      /\ \A w \in Vehicles \ {v} : onVanNow[w] = onVan[w]
  <2> HIDE DEF v
  <2>1. vanEmpty' = [vanEmpty EXCEPT ![v] = Plus(@, Back(report))]
    BY DEF DeliverOrder, v
  <2> QED
    BY <1>1, <2>1 DEF Plus, ProvenInv, AgreeInv, TypeInv, TypeOK
<1>5. /\ brought[o] = 0
      /\ broughtNow[o] = IF t \in DOMAIN report THEN told ELSE 0
      /\ \A p \in Orders \ {o} : broughtNow[p] = brought[p]
  <2>1. collected' = [collected EXCEPT ![o] =
          [u \in Types |-> IF u \in DOMAIN report THEN LastLine(report[u]).empty ELSE @[u]]]
    BY DEF DeliverOrder
  <2> QED
    BY <1>1, <2>1 DEF None, ProvenInv, AgreeInv, TypeInv, TypeOK
<1>6. /\ EmptyOnVans(t) = SumFunctionOnSet(onVan, Vehicles)
      /\ EmptyOnVans(t)' = SumFunctionOnSet(onVanNow, Vehicles)
      /\ BroughtBack(t) = SumFunctionOnSet(brought, Orders)
      /\ BroughtBack(t)' = SumFunctionOnSet(broughtNow, Orders)
  BY DEF EmptyOnVans, BroughtBack, Sum
<1> HIDE DEF v, back, told, onVan, onVanNow, brought, broughtNow
<1>7. SumFunctionOnSet(onVanNow, Vehicles)
        = SumFunctionOnSet(onVan, Vehicles) + (onVanNow[v] - onVan[v])
  BY <1>1, <1>3, <1>4, FiniteAssumption, SumChange
<1>8. SumFunctionOnSet(broughtNow, Orders)
        = SumFunctionOnSet(brought, Orders) + (broughtNow[o] - brought[o])
  BY <1>3, <1>5, FiniteAssumption, SumChange
<1>9. /\ onVan[v] \in Int
      /\ SumFunctionOnSet(onVan, Vehicles) \in Int
      /\ SumFunctionOnSet(brought, Orders) \in Int
  BY <1>1, <1>3, FiniteAssumption, SumInt
<1>10. Surplus(t) = SumFunctionOnSet(onVan, Vehicles) - SumFunctionOnSet(brought, Orders)
  BY <1>6 DEF Surplus
<1>11. Surplus(t)' = SumFunctionOnSet(onVanNow, Vehicles)
                       - SumFunctionOnSet(broughtNow, Orders)
  BY <1>6 DEF Surplus
<1>12. CASE t \in DOMAIN report
  <2>1. /\ SumFunctionOnSet(onVanNow, Vehicles) = SumFunctionOnSet(onVan, Vehicles) + back
        /\ SumFunctionOnSet(broughtNow, Orders) = SumFunctionOnSet(brought, Orders) + told
    BY <1>2, <1>4, <1>5, <1>7, <1>8, <1>9, <1>12
  <2> QED
    BY <1>2, <1>9, <1>10, <1>11, <1>12, <2>1
<1>13. CASE t \notin DOMAIN report
  <2>1. /\ SumFunctionOnSet(onVanNow, Vehicles) = SumFunctionOnSet(onVan, Vehicles)
        /\ SumFunctionOnSet(broughtNow, Orders) = SumFunctionOnSet(brought, Orders)
    BY <1>2, <1>4, <1>5, <1>7, <1>8, <1>9, <1>13
  <2> QED
    BY <1>10, <1>11, <2>1
<1> QED
  BY <1>12, <1>13

\* Nothing else moves an empty: an order that is amended had brought none back.
LEMMA OthersKeepEmpties ==
    ASSUME ProvenInv, [Next]_vars,
           ~ \E o \in Orders : \E report \in Reports(o) : DeliverOrder(o, report)
    PROVE  UNCHANGED <<vanEmpty, collected>>
<1>1. ASSUME NEW o \in Orders, NEW q, AmendOrder(o, q)
      PROVE  UNCHANGED <<vanEmpty, collected>>
  <2>1. collected[o] = None
    BY <1>1 DEF AmendOrder, CanAmend, ProvenInv, UndeliveredIsBlank, Done
  <2>2. collected' = [collected EXCEPT ![o] = None] /\ UNCHANGED vanEmpty
    BY <1>1 DEF AmendOrder, stockVars
  <2> QED
    BY <2>1, <2>2 DEF ProvenInv, AgreeInv, TypeInv, TypeOK
<1>2. ASSUME NEW o \in Orders, OrderStep(o)
      PROVE  UNCHANGED <<vanEmpty, collected>>
  BY <1>1, <1>2
     DEF OrderStep, CreateOrder, ConfirmOrder, AssignOrderToRoute, AssignOrderToNewRoute,
         PutOnTrip, DispatchOrder, DepartOrder, ResendDeliveryOtp, LoseCode,
         RecordFailedDelivery, RescheduleOrder, RescheduleToAnotherDay, CancelOrderFree,
         RequestCancellation, RejectCancellation, ApproveCancellation, Cancel, CloseOrder,
         orderVars, stockVars
<1>3. ASSUME NEW r \in Routes, RouteStep(r)
      PROVE  UNCHANGED <<vanEmpty, collected>>
  BY <1>3
     DEF RouteStep, PlanRoute, LoadVehicleForRoute, LoadAndDispatchRoute, ConfirmRouteLoad,
         UpdateRouteStatus, CompleteRouteReconciliation, orderVars, stockVars
<1>4. ASSUME NEW v \in Vehicles, VanStep(v)
      PROVE  UNCHANGED <<vanEmpty, collected>>
  BY <1>4 DEF VanStep, LoadTransfer, RecordCount, DecideCount, orderVars, stockVars
<1>5. CASE UNCHANGED vars
  BY <1>5 DEF vars, orderVars, stockVars
<1> QED
  BY <1>2, <1>3, <1>4, <1>5 DEF Next

\* For any fleet, the empties on the vans are those the orders say came back, each
\* once (record_delivery and the receipt into the vehicle's balance); only a report
\* that names a type twice books more than its order shows.
THEOREM EmptiesAccountedAlways == Spec => EmptiesAccounted
<1>1. ProvenInv /\ [Next]_vars => SurplusStays
  <2> SUFFICES ASSUME ProvenInv, [Next]_vars, NEW t \in Types
               PROVE  \/ Surplus(t)' = Surplus(t)
                      \/ Surplus(t)' > Surplus(t) /\ NamedTwice(t)
    BY DEF SurplusStays
  <2>1. TypeInv'
    BY NextTypeInv DEF ProvenInv, AgreeInv
  <2>2. ASSUME UNCHANGED <<vanEmpty, collected>>
        PROVE  Surplus(t)' = Surplus(t)
    BY <2>2 DEF Surplus, EmptyOnVans, BroughtBack
  <2> QED
    BY <2>1, <2>2, DeliverEmpties, OthersKeepEmpties
<1>2. ProvenInv /\ [Next]_vars => [SurplusStays]_vars
  BY <1>1
<1> QED
  BY <1>2, ProvenCorrect, PTL DEF Spec, EmptiesAccounted

-----------------------------------------------------------------------------
(* Manifests and prices *)

\* A driver confirms a load only once there is one: until then a manifest may be
\* written over.
UnloadedIsUnconfirmed ==
    \A r \in Routes : routeStatus[r] \in {"none", "planned"} => ~ loadConfirmed[r]

\* Only loading writes a manifest or a confirmation.
LoadsMove(r) ==
    \/ loadConfirmed'[r] = loadConfirmed[r] /\ manifest'[r] = manifest[r]
    \/ routeStatus[r] = "planned" /\ loadConfirmed'[r] = loadConfirmed[r]
    \/ routeStatus[r] = "loaded" /\ routeStatus'[r] = "loaded" /\ manifest'[r] = manifest[r]
    \/ /\ routeStatus'[r] = "loaded"
       /\ loadConfirmed'[r] => loadConfirmed[r] /\ manifest'[r] = manifest[r]

\* Every use case moves the load of each route so, or not at all.
LEMMA NextLoadsMove ==
    ASSUME TypeInv, [Next]_vars
    PROVE  \A r \in Routes : LoadsMove(r)
<1> USE DEF TypeInv, TypeOK, LoadsMove
<1>1. ASSUME UNCHANGED loadVars
      PROVE  \A r \in Routes : LoadsMove(r)
  BY <1>1 DEF loadVars
<1>2. ASSUME NEW r \in Routes, NEW q, LoadVehicleForRoute(r, q)
      PROVE  \A s \in Routes : LoadsMove(s)
  BY <1>2 DEF LoadVehicleForRoute, RouteCanMove, RouteTransitions
<1>3. ASSUME NEW r \in Routes, NEW new, NEW extra, LoadAndDispatchRoute(r, new, extra)
      PROVE  \A s \in Routes : LoadsMove(s)
  <2>1. PICK carried : /\ manifest' = [manifest EXCEPT ![r] = carried]
                       /\ loadConfirmed' = [loadConfirmed EXCEPT ![r] = StillConfirmed(r, carried)]
    BY <1>3 DEF LoadAndDispatchRoute
  <2>2. routeStatus' = [routeStatus EXCEPT ![r] = "loaded"]
    BY <1>3 DEF LoadAndDispatchRoute
  <2> QED
    BY <2>1, <2>2 DEF StillConfirmed
<1>4. ASSUME NEW r \in Routes, ConfirmRouteLoad(r)
      PROVE  \A s \in Routes : LoadsMove(s)
  BY <1>4 DEF ConfirmRouteLoad
<1> HIDE DEF LoadsMove
<1>5. ASSUME NEW o \in Orders, OrderStep(o)
      PROVE  UNCHANGED loadVars
  BY <1>5
     DEF OrderStep, CreateOrder, AmendOrder, ConfirmOrder, AssignOrderToRoute,
         AssignOrderToNewRoute, PutOnTrip, DispatchOrder, DepartOrder, ResendDeliveryOtp,
         LoseCode, DeliverOrder, RecordFailedDelivery, RescheduleOrder,
         RescheduleToAnotherDay, CancelOrderFree, RequestCancellation, RejectCancellation,
         ApproveCancellation, Cancel, CloseOrder
<1>6. ASSUME NEW r \in Routes, RouteStep(r)
      PROVE  \A s \in Routes : LoadsMove(s)
  BY <1>1, <1>2, <1>3, <1>4, <1>6
     DEF RouteStep, PlanRoute, UpdateRouteStatus, CompleteRouteReconciliation
<1>7. ASSUME NEW v \in Vehicles, VanStep(v)
      PROVE  UNCHANGED loadVars
  BY <1>7 DEF VanStep, LoadTransfer, RecordCount, DecideCount
<1> QED
  BY <1>1, <1>5, <1>6, <1>7 DEF Next, vars

\* However a trip is loaded and topped up, a confirmation that stands is for the
\* manifest shown (update_load_manifest).
THEOREM ConfirmationIsCurrentAlways == Spec => ConfirmationIsCurrent
<1>1. Init => UnloadedIsUnconfirmed
  BY DEF Init, UnloadedIsUnconfirmed
<1>2. TypeInv /\ UnloadedIsUnconfirmed /\ [Next]_vars => UnloadedIsUnconfirmed'
  <2> SUFFICES ASSUME TypeInv, UnloadedIsUnconfirmed, [Next]_vars, NEW r \in Routes,
                      routeStatus'[r] \in {"none", "planned"}
               PROVE  ~ loadConfirmed'[r]
    BY DEF UnloadedIsUnconfirmed
  <2>1. RouteMove(r) /\ LoadsMove(r)
    BY RoutesMove, NextLoadsMove
  <2> QED
    BY <2>1 DEF RouteMove, LoadsMove, UnloadedIsUnconfirmed
<1>3. TypeInv /\ UnloadedIsUnconfirmed /\ [Next]_vars => [ConfirmedLoadsStay]_vars
  BY NextLoadsMove DEF ConfirmedLoadsStay, LoadsMove, UnloadedIsUnconfirmed
<1> QED
  BY <1>1, <1>2, <1>3, TypeCorrect, PTL DEF Spec, ConfirmationIsCurrent

\* Through the screens, no order gets past booking without a price (ConfirmOrder is
\* the only way, and an amended order is priced again).
THEOREM PricedAlways ==
    ASSUME ScreensOnly
    PROVE  Spec => []Priced
<1>1. Init => Priced
  BY DEF Init, Priced
<1>2. AgreeInv /\ Priced /\ [Next]_vars => Priced'
  <2> SUFFICES ASSUME AgreeInv, Priced, [Next]_vars
               PROVE  Priced'
    OBVIOUS
  <2> USE DEF AgreeInv, TypeInv, TypeOK, Priced
  <2>1. ASSUME NEW o \in Orders, OrderStep(o)
        PROVE  Priced'
    <3>1. ASSUME \/ \E q \in Requests : CreateOrder(o, q) \/ AmendOrder(o, q)
                 \/ ConfirmOrder(o)
          PROVE  Priced'
      <4>1. ASSUME NEW q, CreateOrder(o, q)
            PROVE  Priced'
        BY <4>1, OrderEdges DEF CreateOrder
      <4>2. ASSUME NEW q, AmendOrder(o, q)
            PROVE  Priced'
        BY <4>2 DEF AmendOrder, CanAmend, Repriced
      <4>3. ASSUME ConfirmOrder(o)
            PROVE  Priced'
        BY <4>3 DEF ConfirmOrder
      <4> HIDE DEF Priced
      <4> QED
        BY <3>1, <4>1, <4>2, <4>3
    <3>2. ASSUME NEW to \in LC!OrderStatuses, status' = [status EXCEPT ![o] = to],
                 status[o] \notin {"draft", "booked"} \/ to = "cancelled",
                 status[o] # "cancelled" \/ to = "cancelled", UNCHANGED priced
          PROVE  Priced'
      BY <3>2
    <3>3. ASSUME NEW r, NEW v, PutOnTrip(o, r, v)
          PROVE  Priced'
      BY <3>2, <3>3, OrderEdges DEF PutOnTrip, LC!OrderStatuses
    <3>4. ASSUME NEW report,
                 DeliverOrder(o, report)
          PROVE  Priced'
      BY <3>2, <3>4, OrderEdges DEF DeliverOrder, LC!OrderStatuses
    <3>5. ASSUME \/ DispatchOrder(o)
                 \/ DepartOrder(o)
                 \/ RecordFailedDelivery(o)
                 \/ RescheduleOrder(o)
                 \/ RescheduleToAnotherDay(o)
                 \/ CloseOrder(o)
          PROVE  Priced'
      BY <3>2, <3>5, OrderEdges
         DEF DispatchOrder, DepartOrder, RecordFailedDelivery, RescheduleOrder,
             RescheduleToAnotherDay, CloseOrder, orderVars, LC!OrderStatuses
    <3>6. ASSUME CancelOrderFree(o) \/ ApproveCancellation(o)
          PROVE  Priced'
      BY <3>2, <3>6
         DEF CancelOrderFree, ApproveCancellation, Cancel, orderVars, LC!OrderStatuses
    <3>7. ASSUME \/ ResendDeliveryOtp(o)
                 \/ LoseCode(o)
                 \/ RequestCancellation(o)
                 \/ RejectCancellation(o)
          PROVE  Priced'
      BY <3>7
         DEF ResendDeliveryOtp, LoseCode, RequestCancellation, RejectCancellation, orderVars
    <3> HIDE DEF Priced
    <3> QED
      BY <2>1, <3>1, <3>3, <3>4, <3>5, <3>6, <3>7
         DEF OrderStep, AssignOrderToRoute, AssignOrderToNewRoute
  <2>2. ASSUME NEW r \in Routes, NEW new \in SUBSET Orders, NEW extra,
               LoadAndDispatchRoute(r, new, extra)
        PROVE  Priced'
    <3>1. \A o \in Waiting(r) \cup new :
             status[o] \in {"confirmed", "assigned", "ready_for_dispatch"}
      BY <2>2, OrderEdges DEF LoadAndDispatchRoute, Waiting
    <3>2. /\ \A o \in Orders : status'[o] =
                IF o \in Waiting(r) \cup new THEN "ready_for_dispatch" ELSE status[o]
          /\ UNCHANGED priced
      BY <2>2 DEF LoadAndDispatchRoute
    <3> QED
      BY <3>1, <3>2
  <2>3. ASSUME NEW r \in Routes, RouteStep(r)
        PROVE  Priced'
    <3>1. ASSUME \/ \E d \in Drivers, v \in Vehicles : PlanRoute(r, d, v)
                 \/ \E q \in Requests : LoadVehicleForRoute(r, q)
                 \/ ConfirmRouteLoad(r)
                 \/ \E to \in RouteStatuses : UpdateRouteStatus(r, to)
                 \/ CompleteRouteReconciliation(r)
          PROVE  UNCHANGED <<status, priced>>
      BY <3>1 DEF PlanRoute, LoadVehicleForRoute, ConfirmRouteLoad, UpdateRouteStatus,
                  CompleteRouteReconciliation, orderVars
    <3> QED
      BY <2>2, <2>3, <3>1 DEF RouteStep
  <2>4. ASSUME NEW v \in Vehicles, VanStep(v)
        PROVE  UNCHANGED <<status, priced>>
    BY <2>4 DEF VanStep, LoadTransfer, RecordCount, DecideCount, orderVars
  <2>5. CASE UNCHANGED vars
    BY <2>5 DEF vars, orderVars
  <2> QED
    BY <2>1, <2>3, <2>4, <2>5 DEF Next
<1> QED
  BY <1>1, <1>2, AgreeCorrect, PTL DEF Spec

-----------------------------------------------------------------------------
(* Orders on their way *)

\* An order that is on a trip has its stop pending there.
TripIsPending ==
    \A o \in Orders : status[o] \in OnTrip => stops[tripOf[o]][o] = "pending"

\* The dispatch board's orders are pending on its trip.
LEMMA DispatchIsPending ==
    ASSUME AgreeInv, TripIsPending, NEW r \in Routes, NEW new \in SUBSET Orders, NEW extra,
           LoadAndDispatchRoute(r, new, extra)
    PROVE  TripIsPending'
<1> SUFFICES ASSUME NEW o \in Orders, status'[o] \in OnTrip
             PROVE  stops'[tripOf'[o]][o] = "pending"
  BY DEF TripIsPending, OnTrip
<1> USE DEF AgreeInv, TypeInv, TypeOK
<1>1. /\ status'[o] = IF o \in Waiting(r) \cup new THEN "ready_for_dispatch" ELSE status[o]
      /\ tripOf'[o] = IF o \in new THEN r ELSE tripOf[o]
      /\ \A s \in Routes :
            stops'[s][o] = IF s = r /\ o \in new THEN "pending" ELSE stops[s][o]
  BY DEF LoadAndDispatchRoute
<1>2. o \in Waiting(r) => stops[r][o] = "pending" /\ tripOf[o] = r
  BY DEF Waiting, PendingOn, StopAgrees
<1>3. CASE o \in new
  BY <1>1, <1>3
<1>4. CASE o \in Waiting(r) \ new
  BY <1>1, <1>2, <1>4
<1>5. CASE o \notin Waiting(r) \cup new
  <2>1. status[o] \in OnTrip /\ stops[tripOf[o]][o] = "pending"
    BY <1>1, <1>5 DEF TripIsPending
  <2>2. stops'[tripOf[o]] = stops[tripOf[o]] \/ stops'[tripOf[o]][o] = stops[tripOf[o]][o]
    BY <1>5 DEF LoadAndDispatchRoute
  <2> QED
    BY <1>1, <1>5, <2>1, <2>2
<1> QED
  BY <1>3, <1>4, <1>5

\* Through the screens every use case keeps it so.
LEMMA NextIsPending ==
    ASSUME ScreensOnly, AgreeInv, TripIsPending, [Next]_vars
    PROVE  TripIsPending'
<1> USE DEF AgreeInv, TypeInv, TypeOK, TripIsPending, OnTrip
<1>1. ASSUME UNCHANGED <<status, tripOf, stops>>
      PROVE  TripIsPending'
  BY <1>1
<1>2. ASSUME NEW o \in Orders, NEW q, CreateOrder(o, q)
      PROVE  TripIsPending'
  BY <1>2 DEF CreateOrder
<1>3. ASSUME NEW o \in Orders, ConfirmOrder(o)
      PROVE  TripIsPending'
  BY <1>3 DEF ConfirmOrder
<1>4. ASSUME NEW o \in Orders, NEW r \in Routes, NEW v, PutOnTrip(o, r, v)
      PROVE  TripIsPending'
  BY <1>4 DEF PutOnTrip
<1>5. ASSUME NEW o \in Orders, DispatchOrder(o)
      PROVE  TripIsPending'
  BY <1>5 DEF DispatchOrder
<1>6. ASSUME NEW o \in Orders, DepartOrder(o)
      PROVE  TripIsPending'
  BY <1>6, OrderEdges DEF DepartOrder
<1>7. ASSUME NEW o \in Orders, NEW report,
             DeliverOrder(o, report)
      PROVE  TripIsPending'
  BY <1>7 DEF DeliverOrder
<1>8. ASSUME NEW o \in Orders, RecordFailedDelivery(o)
      PROVE  TripIsPending'
  BY <1>8 DEF RecordFailedDelivery
<1>9. ASSUME NEW o \in Orders, RescheduleOrder(o)
      PROVE  TripIsPending'
  BY <1>9 DEF RescheduleOrder
<1>10. ASSUME NEW o \in Orders, RescheduleToAnotherDay(o)
       PROVE  TripIsPending'
  BY <1>10 DEF RescheduleToAnotherDay
<1>11. ASSUME NEW o \in Orders, Cancel(o)
       PROVE  TripIsPending'
  <2>1. status' = [status EXCEPT ![o] = "cancelled"] /\ UNCHANGED tripOf
    BY <1>11 DEF Cancel
  <2>2. CASE UNCHANGED stops
    BY <2>1, <2>2
  <2>3. CASE stops' = [stops EXCEPT ![tripOf[o]][o] = "cancelled"]
    BY <2>1, <2>3
  <2> QED
    BY <1>11, <2>2, <2>3 DEF Cancel, CancelStop
<1>12. ASSUME NEW o \in Orders, CloseOrder(o)
       PROVE  TripIsPending'
  BY <1>12 DEF CloseOrder
<1> HIDE DEF TripIsPending
<1>13. ASSUME NEW o \in Orders,
              \/ \E q \in Requests : AmendOrder(o, q)
              \/ ResendDeliveryOtp(o)
              \/ LoseCode(o)
              \/ RequestCancellation(o)
              \/ RejectCancellation(o)
       PROVE  UNCHANGED <<status, tripOf, stops>>
  BY <1>13 DEF AmendOrder, ResendDeliveryOtp, LoseCode, RequestCancellation,
               RejectCancellation
<1>14. ASSUME NEW r \in Routes,
              \/ \E d \in Drivers, v \in Vehicles : PlanRoute(r, d, v)
              \/ \E q \in Requests : LoadVehicleForRoute(r, q)
              \/ ConfirmRouteLoad(r)
              \/ \E to \in RouteStatuses : UpdateRouteStatus(r, to)
              \/ CompleteRouteReconciliation(r)
       PROVE  UNCHANGED <<status, tripOf, stops>>
  BY <1>14 DEF PlanRoute, LoadVehicleForRoute, ConfirmRouteLoad, UpdateRouteStatus,
               CompleteRouteReconciliation
<1>15. ASSUME NEW v \in Vehicles, VanStep(v)
       PROVE  UNCHANGED <<status, tripOf, stops>>
  BY <1>15 DEF VanStep, LoadTransfer, RecordCount, DecideCount
<1>16. CASE UNCHANGED vars
  BY <1>1, <1>16 DEF vars
<1>17. ASSUME NEW o \in Orders, OrderStep(o)
       PROVE  TripIsPending'
  <2>1. ASSUME \/ \E r \in Routes : AssignOrderToRoute(o, r)
               \/ \E r \in Routes, d \in Drivers, v \in Vehicles :
                     AssignOrderToNewRoute(o, r, d, v)
        PROVE  TripIsPending'
    BY <1>4, <2>1 DEF AssignOrderToRoute, AssignOrderToNewRoute
  <2>2. ASSUME CancelOrderFree(o) \/ ApproveCancellation(o)
        PROVE  TripIsPending'
    BY <1>11, <2>2 DEF CancelOrderFree, ApproveCancellation
  <2> QED
    BY <1>1, <1>2, <1>3, <1>5, <1>6, <1>7, <1>8, <1>9, <1>10, <1>12, <1>13, <1>17, <2>1, <2>2
       DEF OrderStep
<1>18. ASSUME NEW r \in Routes, RouteStep(r)
       PROVE  TripIsPending'
  BY <1>1, <1>14, <1>18, DispatchIsPending DEF RouteStep
<1> QED
  BY <1>1, <1>15, <1>16, <1>17, <1>18 DEF Next

\* An order is out for delivery since it departed on the trip it is still on.
LEMMA OutSinceDeparture ==
    ASSUME TypeInv, [Next]_vars, NEW o \in Orders, status'[o] = "out_for_delivery"
    PROVE  \/ status[o] = "out_for_delivery" /\ tripOf'[o] = tripOf[o]
           \/ DepartOrder(o)
<1> USE DEF TypeInv, TypeOK
<1>1. ASSUME NEW p \in Orders, OrderStep(p)
      PROVE  \/ status[o] = "out_for_delivery" /\ tripOf'[o] = tripOf[o]
             \/ DepartOrder(o)
  <2>1. CASE DepartOrder(p)
    BY <2>1 DEF DepartOrder
  <2>2. CASE \/ \E q \in Requests : CreateOrder(p, q) \/ AmendOrder(p, q)
             \/ ConfirmOrder(p)
             \/ DispatchOrder(p)
             \/ CloseOrder(p)
    BY <2>2 DEF CreateOrder, AmendOrder, ConfirmOrder, DispatchOrder, CloseOrder
  <2>3. ASSUME NEW r, NEW v, PutOnTrip(p, r, v)
        PROVE  status[o] = "out_for_delivery" /\ tripOf'[o] = tripOf[o]
    BY <2>3 DEF PutOnTrip
  <2>4. CASE \/ ResendDeliveryOtp(p)
             \/ LoseCode(p)
             \/ RequestCancellation(p)
             \/ RejectCancellation(p)
    BY <2>4 DEF ResendDeliveryOtp, LoseCode, RequestCancellation, RejectCancellation
  <2>5. CASE RecordFailedDelivery(p) \/ RescheduleOrder(p) \/ RescheduleToAnotherDay(p)
    BY <2>5 DEF RecordFailedDelivery, RescheduleOrder, RescheduleToAnotherDay
  <2>6. CASE CancelOrderFree(p) \/ ApproveCancellation(p)
    BY <2>6 DEF CancelOrderFree, ApproveCancellation, Cancel
  <2>7. ASSUME NEW report,
               DeliverOrder(p, report)
        PROVE  status[o] = "out_for_delivery" /\ tripOf'[o] = tripOf[o]
    BY <2>7 DEF DeliverOrder
  <2> QED
    BY <1>1, <2>1, <2>2, <2>3, <2>4, <2>5, <2>6, <2>7
       DEF OrderStep, AssignOrderToRoute, AssignOrderToNewRoute
<1>2. ASSUME NEW r \in Routes, RouteStep(r)
      PROVE  status[o] = "out_for_delivery" /\ tripOf'[o] = tripOf[o]
  <2>1. ASSUME NEW new \in SUBSET Orders, NEW extra, LoadAndDispatchRoute(r, new, extra)
        PROVE  status[o] = "out_for_delivery" /\ tripOf'[o] = tripOf[o]
    <3>1. /\ status'[o] = IF o \in Waiting(r) \cup new THEN "ready_for_dispatch" ELSE status[o]
          /\ tripOf'[o] = IF o \in new THEN r ELSE tripOf[o]
      BY <2>1 DEF LoadAndDispatchRoute
    <3> QED
      BY <3>1
  <2> QED
    BY <1>2, <2>1
       DEF RouteStep, PlanRoute, LoadVehicleForRoute, ConfirmRouteLoad, UpdateRouteStatus,
           CompleteRouteReconciliation
<1>3. ASSUME NEW v \in Vehicles, VanStep(v)
      PROVE  status[o] = "out_for_delivery" /\ tripOf'[o] = tripOf[o]
  BY <1>3 DEF VanStep, LoadTransfer, RecordCount, DecideCount
<1>4. CASE UNCHANGED vars
  BY <1>4 DEF vars
<1> QED
  BY <1>1, <1>2, <1>3, <1>4 DEF Next

\* Through the screens, an order on its way has a pending stop, on a trip under way
\* unless that was cancelled or reconciled under it: no trip completes over it.
THEOREM OnTheWayAlways ==
    ASSUME ScreensOnly
    PROVE  Spec => []OnTheWay
<1>1. Init => CompletedIsResolved /\ OnTheWay
  BY DEF Init, CompletedIsResolved, OnTheWay, OnTrip
<1>2. StockInv /\ CompletedIsResolved /\ OnTheWay /\ [Next]_vars
        => CompletedIsResolved' /\ OnTheWay'
  <2> SUFFICES ASSUME StockInv, CompletedIsResolved, OnTheWay, [Next]_vars
               PROVE  CompletedIsResolved' /\ OnTheWay'
    OBVIOUS
  <2>1. AgreeInv /\ AgreeInv' /\ TypeInv /\ TripsAreReal /\ TripsAreReal'
    BY NextTypeInv, NextAgrees, NextTripsReal DEF StockInv, ProvenInv, AgreeInv
  <2>2. CompletedIsResolved'
    BY <2>1, NextResolved
  <2>3. TripIsPending'
    BY <2>1, NextIsPending DEF OnTheWay, TripIsPending
  <2>4. ASSUME NEW o \in Orders, status'[o] = "out_for_delivery"
        PROVE  routeStatus'[tripOf'[o]] \in {"in_progress", "cancelled", "reconciled"}
    <3>1. /\ tripOf'[o] \in Routes
          /\ routeStatus'[tripOf'[o]] # "completed"
      <4>1. tripOf'[o] \in Routes
        BY <2>1, <2>4 DEF TripsAreReal, Holding, OnTrip, AgreeInv, TypeInv, TypeOK
      <4> QED
        BY <2>2, <2>3, <2>4, <4>1 DEF CompletedIsResolved, TripIsPending, OnTrip
    <3>2. CASE DepartOrder(o)
      <4>1. /\ tripOf'[o] = tripOf[o]
            /\ routeStatus[tripOf[o]] \notin {"planned", "none"}
            /\ routeStatus'[tripOf[o]] = Started(tripOf[o])
        <5>1. tripOf'[o] = tripOf[o] /\ status[o] = "ready_for_dispatch"
          BY <3>2, OrderEdges DEF DepartOrder
        <5>2. routeStatus[tripOf[o]] # "none"
          BY <3>1, <5>1 DEF OnTheWay, OnTrip, StockInv, TripsAreReal
        <5> QED
          BY <2>1, <3>1, <3>2, <5>1, <5>2 DEF DepartOrder, TypeInv, TypeOK
      <4> QED
        BY <2>1, <3>1, <4>1 DEF Started, TypeInv, TypeOK, RouteStatuses
    <3>3. CASE status[o] = "out_for_delivery" /\ tripOf'[o] = tripOf[o]
      <4>1. RouteMove(tripOf[o])
        BY <2>1, <3>1, <3>3, RoutesMove
      <4>2. routeStatus[tripOf[o]] \in {"in_progress", "cancelled", "reconciled"}
        BY <3>3 DEF OnTheWay
      <4> QED
        BY <3>1, <3>3, <4>1, <4>2 DEF RouteMove
    <3> QED
      BY <2>1, <2>4, <3>2, <3>3, OutSinceDeparture
  <2> QED
    BY <2>2, <2>3, <2>4 DEF OnTheWay, TripIsPending, OnTrip
<1> QED
  BY <1>1, <1>2, StockInvCorrect, PTL DEF Spec
=============================================================================
