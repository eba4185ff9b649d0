------------------------ MODULE FulfilmentProperties ------------------------
(***************************************************************************)
(* What the orders, trips and stock of Fulfilment promise each other.  The *)
(* first part holds whatever calls the API is given; the second holds when *)
(* the endpoints are called only where the office and driver screens offer *)
(* them (ScreensOnly); the last part is what the documents say and the     *)
(* code does not do.                                                       *)
(***************************************************************************)
EXTENDS Fulfilment

OnTrip == {"assigned", "ready_for_dispatch", "out_for_delivery"}
Holding == OnTrip \cup {"failed_delivery"}
Done == {"delivered", "closed"}

\* The cylinders reserved on vans, and those handed over, of type t.
Held(t) ==
    Sum([o \in Orders |-> IF status[o] \in Holding THEN Reserved(o)[t] ELSE 0], Orders)
HandedOver(t) ==
    Sum([o \in Orders |-> IF status[o] \in Done THEN delivered[o][t] ELSE 0], Orders)
FreeOnVans(t) == Sum([v \in Vehicles |-> van[v][t]], Vehicles)
Accounted(t) == warehouse[t] + FreeOnVans(t) + Held(t) + HandedOver(t)
-----------------------------------------------------------------------------
(* Whatever the API is asked *)

\* This step is a delivery whose report names type t in more than one line.
NamedTwice(t) ==
    \E o \in Orders : \E report \in Reports(o) :
        /\ t \in DOMAIN report
        /\ Len(report[t]) > 1
        /\ DeliverOrder(o, report)

NothingMadeUp ==
    \A t \in Types : Accounted(t)' > Accounted(t) => NamedTwice(t)

\* No call makes a filled cylinder out of nothing: what is in the warehouse, on
\* the vans and with customers never becomes more (reserve, release_reservation
\* and record_delivery against one balance), except by a delivery report that
\* names the type twice, of which every line gives the reservation back.
StockNeverMadeUp == [][NothingMadeUp]_vars

\* A stop and its order tell the same story, although they are two aggregates:
\* a pending stop's order is on that trip and on its way, a delivered or
\* cancelled stop's order ended that way on that trip, and a failed stop's order
\* is not delivered or cancelled on it.
StopAgrees ==
    \A r \in Routes, o \in Orders :
        /\ stops[r][o] = "pending" => tripOf[o] = r /\ status[o] \in OnTrip
        /\ stops[r][o] = "delivered" => tripOf[o] = r /\ status[o] \in Done
        /\ stops[r][o] = "cancelled" => tripOf[o] = r /\ status[o] = "cancelled"
        /\ stops[r][o] = "failed" /\ tripOf[o] = r =>
              status[o] \notin {"assigned", "cancelled"} \cup Done

\* The other way round: the stop on the trip an order names says what the
\* order's status says.
OrderAgrees ==
    \A o \in Orders :
        /\ status[o] = "assigned" => tripOf[o] # NoRoute /\ stops[tripOf[o]][o] = "pending"
        /\ status[o] \in Done => tripOf[o] # NoRoute /\ stops[tripOf[o]][o] = "delivered"
        /\ status[o] = "failed_delivery" =>
              tripOf[o] # NoRoute /\ stops[tripOf[o]][o] = "failed"

\* Order and stop never tell two stories, in either direction (the pairing that
\* every use case of application/order keeps by hand).
StopsAndOrdersAgree == StopAgrees /\ OrderAgrees

\* Proof of delivery exists exactly for the orders that were delivered, each on
\* a trip that left the yard, and for no more than the van had reserved.
DeliveryIsProven ==
    \A o \in Orders :
        /\ o \in pod <=> status[o] \in Done
        /\ o \in pod =>
              /\ routeStatus[tripOf[o]] \in {"in_progress", "completed", "reconciled"}
              /\ Covers(Reserved(o), delivered[o])

\* A completed trip has no order still waiting for its van.
CompletedIsResolved ==
    \A r \in Routes : routeStatus[r] = "completed" =>
        \A o \in Orders : stops[r][o] # "pending"

\* However trips are planned or reopened, a driver or a vehicle is never on two
\* trips that have yet to leave (ensure_crew_is_free, DO-23).
OneWaitingTrip ==
    \A r1, r2 \in Routes :
        /\ r1 # r2
        /\ {routeStatus[r1], routeStatus[r2]} \subseteq {"planned", "loaded"}
        => driverOf[r1] # driverOf[r2] /\ vehicleOf[r1] # vehicleOf[r2]

\* What was delivered, its proof, its trip and its stop stay as they are.
DeliveriesStay ==
    \A o \in pod : /\ o \in pod'
                   /\ delivered'[o] = delivered[o]
                   /\ tripOf'[o] = tripOf[o]
                   /\ \A r \in Routes : stops'[r][o] = stops[r][o]

\* A delivery is final: no later call, on this order or another, changes what
\* was delivered, takes the proof away or touches the stop.
DeliveryIsFinal == [][DeliveriesStay]_vars

PromisesKept ==
    \A t \in Types :
        LET free == Available(t, Orders)
        IN  free' < 0 /\ free' < free =>
              \E o \in Orders :
                  status[o] = "failed_delivery" /\ status'[o] # "failed_delivery"

\* The branch never owes customers more than it has, and no call makes that
\* worse, whatever is booked, amended, assigned, delivered short or cancelled;
\* except one that brings a failed order back, whose claim is not counted in
\* the meantime (OrderableCylinderTypes.require and _UNRESERVED_STATUSES).
SoldIsThere == [][PromisesKept]_vars

\* The empties on the vans, and those the orders say came back.
EmptyOnVans(t) == Sum([v \in Vehicles |-> vanEmpty[v][t]], Vehicles)
BroughtBack(t) == Sum([o \in Orders |-> collected[o][t]], Orders)
Surplus(t) == EmptyOnVans(t) - BroughtBack(t)

SurplusStays ==
    \A t \in Types :
        \/ Surplus(t)' = Surplus(t)
        \/ Surplus(t)' > Surplus(t) /\ NamedTwice(t)

\* The empties on the vans are those that the orders say came back: a call
\* changes both alike (record_collection on the van, and on the order's line).
\* Only a report that names a type twice puts more on the van, where every line
\* counts, than on the order, where the last one does.
EmptiesAccounted == [][SurplusStays]_vars

ConfirmedLoadsStay ==
    \A r \in Routes : loadConfirmed[r] /\ loadConfirmed'[r] => manifest'[r] = manifest[r]

\* A load the driver has confirmed is the load the manifest shows: a top-up that
\* changes the manifest takes the confirmation back.
ConfirmationIsCurrent == [][ConfirmedLoadsStay]_vars

\* Orders, seen without routes and stock, follow the lifecycle of OrderLifecycle,
\* and leave a van only by a decided request.
FollowsLifecycle == LC!Spec
-----------------------------------------------------------------------------
(* Through the screens *)

\* With complete delivery reports, each type in one line, no cylinder is lost or
\* made up.
StockConserved == \A t \in Types : Accounted(t) = WarehouseStock

\* An order on its way has a pending stop, and one that left the yard is on a
\* trip under way, unless the trip was cancelled or reconciled under it: then
\* the driver can report neither a delivery nor a failure.
OnTheWay ==
    \A o \in Orders :
        /\ status[o] \in OnTrip => stops[tripOf[o]][o] = "pending"
        /\ status[o] = "out_for_delivery" =>
              routeStatus[tripOf[o]] \in {"in_progress", "cancelled", "reconciled"}

\* Every order past booking was priced by confirm() (BR-04 and BR-19 hang on
\* the same call).
Priced ==
    \A o \in Orders : status[o] \notin {"draft", "booked", "cancelled"} => o \in priced
-----------------------------------------------------------------------------
(* What the documents say *)

\* An order re-dated after a failure "waits to be planned onto a new trip".
ConfirmedCanBePlanned ==
    \A o \in Orders : status[o] = "confirmed" => OnNoTrip(o)
=============================================================================
