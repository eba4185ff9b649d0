------------------------------ MODULE Fulfilment ------------------------------
(***************************************************************************)
(* Orders, routes, vans and warehouse stock of one branch, with every use  *)
(* case that moves them: booking, planning, loading, dispatching,          *)
(* delivering, failing, rescheduling and cancelling.  One action is one    *)
(* use case: it reads its aggregates, changes them in memory, saves and    *)
(* commits in one database transaction, and refuses (no step) where the    *)
(* code raises.  Steps of two transactions in between are not taken here.  *)
(*                                                                         *)
(* Money, addresses and dates are left out: a refusal because of a price,  *)
(* a credit limit or a blocked customer is a step not taken.  Orders are   *)
(* booked for one day, so that a crew has at most one route to reuse.      *)
(***************************************************************************)
EXTENDS Integers, Sequences, FiniteSets, FiniteSetsExt

CONSTANTS
    Orders, Routes, Drivers, Vehicles,
    Types,            \* cylinder types
    MaxQty,           \* bound: the most one order line asks for, or one load moves
    WarehouseStock,   \* filled cylinders of each type in the warehouse at first
    EmptiesBack,      \* bound: how many empties a driver may report per line
    MaxLines,         \* bound: how often a delivery report may name one type
    Decisions,        \* bound: how stock counts are decided; {}: none is taken
    CompleteReports,  \* TRUE: a delivery report names every line of its order once
    ScreensOnly,      \* TRUE: endpoints are called only where a screen offers them
    NoRoute, NoOne

ASSUME FiniteAssumption == IsFiniteSet(Orders) /\ IsFiniteSet(Vehicles)

ASSUME BoundsAssumption ==
    /\ MaxQty \in Nat \ {0}
    /\ WarehouseStock \in Nat
    /\ EmptiesBack \subseteq Nat
    /\ MaxLines \in Nat \ {0}
    /\ Decisions \subseteq {"approved", "rejected"}
    /\ CompleteReports \in BOOLEAN
    /\ ScreensOnly \in BOOLEAN

ASSUME NamesAssumption ==
    /\ NoRoute \notin Routes
    /\ NoOne \notin Drivers \cup Vehicles

VARIABLES
    status,       \* order.status
    request,      \* the orders with an undecided cancellation_record
    ordered, pending, delivered, collected,   \* order_line quantities
    priced,       \* the orders whose total_amount is not None
    tripOf,       \* order.route_stop_id, as the route that owns the stop
    code,         \* is a delivery code for the order live in Redis?
    pod,          \* the orders with a proof_of_delivery row
    routeStatus, driverOf, vehicleOf,         \* delivery.route
    stops,        \* route_stop.status, "none" where the route has no such stop
    manifest, loadConfirmed,                  \* route.loaded_lines, load_confirmed_at
    warehouse,    \* filled balance of the branch's warehouse
    van, vanEmpty,   \* filled and empty balances of each vehicle
    count         \* the latest reconciliation_record of each vehicle

orderVars == <<ordered, pending, delivered, collected, priced>>
crewVars == <<driverOf, vehicleOf>>
loadVars == <<manifest, loadConfirmed>>
stockVars == <<warehouse, van, vanEmpty>>
vars == <<status, request, orderVars, tripOf, code, pod, routeStatus,
          crewVars, stops, loadVars, stockVars, count>>

LC == INSTANCE OrderLifecycle
-----------------------------------------------------------------------------
RouteStatuses ==
    {"none", "planned", "loaded", "in_progress", "completed", "reconciled",
     "cancelled"}

RouteTransitions ==
    {<<"planned", "loaded">>, <<"planned", "cancelled">>,
     <<"loaded", "in_progress">>, <<"loaded", "cancelled">>,
     <<"in_progress", "completed">>, <<"completed", "reconciled">>}

\* "en_route" is in the code's table, but nothing ever sets it.
StopStatuses == {"none", "pending", "delivered", "failed", "cancelled"}

StopTransitions ==
    {<<"pending", "delivered">>, <<"pending", "failed">>,
     <<"pending", "cancelled">>, <<"failed", "pending">>}

ResolvedStops == {"none", "delivered", "failed", "cancelled"}

OpenRoutes == {"planned", "loaded", "in_progress"}

CanMove(o, to) == <<status[o], to>> \in LC!Transitions
RouteCanMove(r, to) == <<routeStatus[r], to>> \in RouteTransitions
StopCanMove(r, o, to) == <<stops[r][o], to>> \in StopTransitions

Quantities == [Types -> Nat]
None == [t \in Types |-> 0]
Plus(a, b) == [t \in Types |-> a[t] + b[t]]
Minus(a, b) == [t \in Types |-> a[t] - b[t]]
Covers(a, b) == \A t \in Types : b[t] <= a[t]

\* What a request may ask for: at least one cylinder, at most MaxQty a line.
Requests == {q \in [Types -> 0..MaxQty] : q # None}
Lines(o) == {t \in Types : ordered[o][t] > 0}

Reserved(o) == Minus(ordered[o], pending[o])
Sum(f, S) == SumFunctionOnSet(f, S)
-----------------------------------------------------------------------------
TypeOK ==
    /\ status \in [Orders -> LC!OrderStatuses]
    /\ request \in SUBSET Orders
    /\ ordered \in [Orders -> Quantities]
    /\ pending \in [Orders -> Quantities]
    /\ delivered \in [Orders -> Quantities]
    /\ collected \in [Orders -> Quantities]
    /\ priced \in SUBSET Orders
    /\ tripOf \in [Orders -> Routes \cup {NoRoute}]
    /\ code \in [Orders -> BOOLEAN]
    /\ pod \in SUBSET Orders
    /\ routeStatus \in [Routes -> RouteStatuses]
    /\ driverOf \in [Routes -> Drivers \cup {NoOne}]
    /\ vehicleOf \in [Routes -> Vehicles \cup {NoOne}]
    /\ stops \in [Routes -> [Orders -> StopStatuses]]
    /\ manifest \in [Routes -> Quantities]
    /\ loadConfirmed \in [Routes -> BOOLEAN]
    /\ warehouse \in Quantities
    /\ van \in [Vehicles -> Quantities]
    /\ vanEmpty \in [Vehicles -> Quantities]
    /\ count \in [Vehicles -> {"none", "pending", "approved", "rejected"}]

Init ==
    /\ status = [o \in Orders |-> "draft"]
    /\ request = {}
    /\ ordered = [o \in Orders |-> None]
    /\ pending = [o \in Orders |-> None]
    /\ delivered = [o \in Orders |-> None]
    /\ collected = [o \in Orders |-> None]
    /\ priced = {}
    /\ tripOf = [o \in Orders |-> NoRoute]
    /\ code = [o \in Orders |-> FALSE]
    /\ pod = {}
    /\ routeStatus = [r \in Routes |-> "none"]
    /\ driverOf = [r \in Routes |-> NoOne]
    /\ vehicleOf = [r \in Routes |-> NoOne]
    /\ stops = [r \in Routes |-> [o \in Orders |-> "none"]]
    /\ manifest = [r \in Routes |-> None]
    /\ loadConfirmed = [r \in Routes |-> FALSE]
    /\ warehouse = [t \in Types |-> WarehouseStock]
    /\ van = [v \in Vehicles |-> None]
    /\ vanEmpty = [v \in Vehicles |-> None]
    /\ count = [v \in Vehicles |-> "none"]
-----------------------------------------------------------------------------
(* Booking *)

\* Cylinders of type t that order o still has a claim on beyond what is
\* reserved for it on a van.
OpenDemand(o, t) ==
    CASE status[o] \in {"booked", "confirmed"} -> ordered[o][t]
      [] status[o] \in {"assigned", "ready_for_dispatch", "out_for_delivery"} ->
            pending[o][t]
      [] OTHER -> 0

\* Filled stock of the branch not yet promised to the orders in Others.
Available(t, Others) ==
    LET onVan == [v \in Vehicles |-> van[v][t]]
        owed == [p \in Others |-> OpenDemand(p, t)]
    IN  warehouse[t] + Sum(onVan, Vehicles) - Sum(owed, Others)

\* Mutant: what other orders are owed is not taken off.
OrderableFromStock(q, o) == \A t \in Types : q[t] > 0 => q[t] <= Available(t, {})

Orderable(q, o) == \A t \in Types : q[t] > 0 => q[t] <= Available(t, Orders \ {o})

CreateOrder(o, q) ==
    /\ CanMove(o, "booked")
    /\ Orderable(q, o)
    /\ status' = [status EXCEPT ![o] = "booked"]
    /\ ordered' = [ordered EXCEPT ![o] = q]
    /\ UNCHANGED <<request, pending, delivered, collected, priced, tripOf, code, pod,
                   routeStatus, crewVars, stops, loadVars, stockVars, count>>

CanAmendUntilClosed(o) == status[o] \notin {"draft", "closed", "cancelled"}
CanAmend(o) == status[o] \in {"booked", "confirmed"}

\* A confirmed order is priced again; a booking has no price yet.
RepricedNever(o) == priced \ {o}
Repriced(o) == IF status[o] = "confirmed" THEN priced \cup {o} ELSE priced \ {o}

AmendOrder(o, q) ==
    /\ CanAmend(o)
    /\ Orderable(q, o)
    /\ ordered' = [ordered EXCEPT ![o] = q]
    /\ pending' = [pending EXCEPT ![o] = None]
    /\ delivered' = [delivered EXCEPT ![o] = None]
    /\ collected' = [collected EXCEPT ![o] = None]
    /\ priced' = Repriced(o)
    /\ UNCHANGED <<status, request, tripOf, code, pod, routeStatus, crewVars,
                   stops, loadVars, stockVars, count>>

\* The use case checks the lifecycle edge only, and "confirmed" is also reached
\* from "failed_delivery"; the office screen offers it on a booking.
ConfirmOrder(o) ==
    /\ CanMove(o, "confirmed")
    /\ ScreensOnly => status[o] = "booked"
    /\ Orderable(ordered[o], o)
    /\ status' = [status EXCEPT ![o] = "confirmed"]
    /\ priced' = priced \cup {o}
    /\ UNCHANGED <<request, ordered, pending, delivered, collected, tripOf, code,
                   pod, routeStatus, crewVars, stops, loadVars, stockVars, count>>
-----------------------------------------------------------------------------
(* Planning *)

\* ensure_crew_is_free: one open trip per driver and per vehicle.
DriverIsFree(d, v) ==
    \A r \in Routes : routeStatus[r] \in OpenRoutes => driverOf[r] # d

CrewIsFree(d, v) ==
    \A r \in Routes : routeStatus[r] \in OpenRoutes =>
        driverOf[r] # d /\ vehicleOf[r] # v

PlanRoute(r, d, v) ==
    /\ routeStatus[r] = "none"
    /\ CrewIsFree(d, v)
    /\ routeStatus' = [routeStatus EXCEPT ![r] = "planned"]
    /\ driverOf' = [driverOf EXCEPT ![r] = d]
    /\ vehicleOf' = [vehicleOf EXCEPT ![r] = v]
    /\ UNCHANGED <<status, request, orderVars, tripOf, code, pod, stops,
                   loadVars, stockVars, count>>

\* count_active_routes_for_order = 0, and the index uq_route_stop_order_active
\* lets a new stop in.
OnNoTrip(o) ==
    /\ \A r \in Routes : routeStatus[r] # "cancelled" =>
          stops[r][o] \in {"none", "cancelled"}
    /\ \A r \in Routes : stops[r][o] \in {"none", "cancelled"}

\* VehicleCapacityChecker.allocate: reserve what the van has, backorder the rest.
Allocate(v, o) ==
    [t \in Types |-> IF van[v][t] < ordered[o][t] THEN van[v][t] ELSE ordered[o][t]]

\* The part AssignOrder and the dispatch board share: a new stop on route r,
\* driven with vehicle v.
PutOnTrip(o, r, v) ==
    /\ OnNoTrip(o)
    /\ stops[r][o] = "none"
    /\ CanMove(o, "assigned")
    /\ status' = [status EXCEPT ![o] = "assigned"]
    /\ tripOf' = [tripOf EXCEPT ![o] = r]
    /\ pending' = [pending EXCEPT ![o] = Minus(ordered[o], Allocate(v, o))]
    /\ van' = [van EXCEPT ![v] = Minus(@, Allocate(v, o))]
    /\ stops' = [stops EXCEPT ![r][o] = "pending"]
    /\ UNCHANGED <<request, ordered, delivered, collected, priced, code, pod,
                   loadVars, warehouse, vanEmpty, count>>

AssignOrderToRoute(o, r) ==
    /\ routeStatus[r] \in {"planned", "loaded"}
    /\ PutOnTrip(o, r, vehicleOf[r])
    /\ UNCHANGED <<routeStatus, crewVars>>

\* AssignOrder reuses the crew's waiting route (then it is the action above) or
\* opens one in the same transaction.
WaitingRoutes(d, v) ==
    {r \in Routes : /\ routeStatus[r] \in {"planned", "loaded"}
                    /\ driverOf[r] = d
                    /\ vehicleOf[r] = v}

AssignOrderToNewRoute(o, r, d, v) ==
    /\ WaitingRoutes(d, v) = {}
    /\ routeStatus[r] = "none"
    /\ CrewIsFree(d, v)
    /\ PutOnTrip(o, r, v)
    /\ routeStatus' = [routeStatus EXCEPT ![r] = "planned"]
    /\ driverOf' = [driverOf EXCEPT ![r] = d]
    /\ vehicleOf' = [vehicleOf EXCEPT ![r] = v]
-----------------------------------------------------------------------------
(* Loading and dispatching *)

LoadTransfer(v, q) ==
    /\ Covers(warehouse, q)
    /\ warehouse' = Minus(warehouse, q)
    /\ van' = [van EXCEPT ![v] = Plus(@, q)]
    /\ UNCHANGED <<status, request, orderVars, tripOf, code, pod, routeStatus,
                   crewVars, stops, loadVars, vanEmpty, count>>

\* van_manifest: free filled stock plus what is reserved for the given orders.
VanManifest(free, trip, owed) ==
    [t \in Types |->
        LET reserved == [o \in trip |-> ordered[o][t] - owed[o][t] - delivered[o][t]]
        IN  free[t] + Sum(reserved, {o \in trip : reserved[o] > 0})]

PendingOn(r) == {o \in Orders : stops[r][o] = "pending"}

LoadVehicleForRoute(r, q) ==
    LET v == vehicleOf[r]
        carried == VanManifest(Plus(van[v], q), PendingOn(r), pending)
    IN  /\ RouteCanMove(r, "loaded")
        /\ Covers(warehouse, q)
        /\ warehouse' = Minus(warehouse, q)
        /\ van' = [van EXCEPT ![v] = Plus(@, q)]
        /\ routeStatus' = [routeStatus EXCEPT ![r] = "loaded"]
        /\ manifest' = [manifest EXCEPT ![r] = carried]
        /\ UNCHANGED <<status, request, orderVars, tripOf, code, pod, crewVars,
                       stops, loadConfirmed, vanEmpty, count>>

\* Orders of the trip that have not left yet.
Waiting(r) == {o \in PendingOn(r) : status[o] \in {"assigned", "ready_for_dispatch"}}

\* update_load_manifest: a driver's confirmation survives only a top-up that
\* leaves the manifest as it was.
StillConfirmedAnyway(r, carried) == loadConfirmed[r]
StillConfirmed(r, carried) == loadConfirmed[r] /\ manifest[r] = carried

\* Backorders of the orders on board, and the whole of the new ones.
Needed(r, new) ==
    [t \in Types |->
        LET backorder == [o \in Waiting(r) |-> pending[o][t]]
            whole == [o \in new |-> ordered[o][t]]
        IN  Sum(backorder, Waiting(r)) + Sum(whole, new)]

LoadAndDispatchRoute(r, new, extra) ==
    LET v == vehicleOf[r]
        orders == Waiting(r) \cup new
        needed == Needed(r, new)
        toLoad == [t \in Types |->
                      (IF needed[t] > van[v][t] THEN needed[t] - van[v][t] ELSE 0)
                      + extra[t]]
        free == Minus(Plus(van[v], toLoad), needed)
        owed == [o \in Orders |-> IF o \in orders THEN None ELSE pending[o]]
        carried == VanManifest(free, orders, owed)
    IN  /\ routeStatus[r] \in {"planned", "loaded"}
        /\ orders # {}
        /\ \A o \in new : /\ stops[r][o] = "none"
                          /\ OnNoTrip(o)
                          /\ CanMove(o, "assigned")
        /\ Covers(warehouse, toLoad)
        /\ warehouse' = Minus(warehouse, toLoad)
        /\ van' = [van EXCEPT ![v] = free]
        /\ status' = [o \in Orders |->
                         IF o \in orders THEN "ready_for_dispatch" ELSE status[o]]
        /\ pending' = owed
        /\ tripOf' = [o \in Orders |-> IF o \in new THEN r ELSE tripOf[o]]
        /\ stops' = [stops EXCEPT ![r] =
                        [o \in Orders |-> IF o \in new THEN "pending" ELSE @[o]]]
        /\ routeStatus' = [routeStatus EXCEPT ![r] = "loaded"]
        /\ manifest' = [manifest EXCEPT ![r] = carried]
        /\ loadConfirmed' = [loadConfirmed EXCEPT ![r] = StillConfirmed(r, carried)]
        /\ UNCHANGED <<request, ordered, delivered, collected, priced, code, pod,
                       crewVars, vanEmpty, count>>

ConfirmRouteLoad(r) ==
    /\ routeStatus[r] = "loaded"
    /\ ~loadConfirmed[r]
    /\ loadConfirmed' = [loadConfirmed EXCEPT ![r] = TRUE]
    /\ UNCHANGED <<status, request, orderVars, tripOf, code, pod, routeStatus,
                   crewVars, stops, manifest, stockVars, count>>

\* Here too only the edge is checked, and it also leaves "failed_delivery".
DispatchOrder(o) ==
    /\ CanMove(o, "ready_for_dispatch")
    /\ ScreensOnly => status[o] = "assigned"
    /\ status' = [status EXCEPT ![o] = "ready_for_dispatch"]
    /\ UNCHANGED <<request, orderVars, tripOf, code, pod, routeStatus, crewVars,
                   stops, loadVars, stockVars, count>>
-----------------------------------------------------------------------------
(* On the road *)

\* _start_route_if_loaded, for the route of order o.
StartedByHand(r) == routeStatus[r]

Started(r) ==
    IF routeStatus[r] = "loaded" THEN "in_progress" ELSE routeStatus[r]

\* _auto_complete_if_all_stops_terminal, with stop o of r now at s.
SettledAtFirst(r, o, s, at) ==
    IF at = "in_progress" /\ s \in ResolvedStops THEN "completed" ELSE at

Settled(r, o, s, at) ==
    IF at = "in_progress" /\ s \in ResolvedStops
          /\ \A p \in Orders \ {o} : stops[r][p] \in ResolvedStops
    THEN "completed" ELSE at

\* The status change commits first; issuing the code comes after the commit and
\* may be lost, leaving whatever code there was.
DepartOrder(o) ==
    LET r == tripOf[o]
    IN  /\ CanMove(o, "out_for_delivery")
        /\ r # NoRoute
        /\ routeStatus[r] # "planned"
        /\ status' = [status EXCEPT ![o] = "out_for_delivery"]
        /\ routeStatus' = [routeStatus EXCEPT ![r] = Started(r)]
        /\ \E issued \in BOOLEAN : code' = [code EXCEPT ![o] = @ \/ issued]
        /\ UNCHANGED <<request, orderVars, tripOf, pod, crewVars, stops, loadVars,
                       stockVars, count>>

ResendDeliveryOtp(o) ==
    /\ status[o] = "out_for_delivery"
    /\ ~code[o]
    /\ code' = [code EXCEPT ![o] = TRUE]
    /\ UNCHANGED <<status, request, orderVars, tripOf, pod, routeStatus, crewVars,
                   stops, loadVars, stockVars, count>>

\* The code expires, is destroyed by wrong guesses, or is used up by a delivery
\* that is refused further down.
LoseCode(o) ==
    /\ code[o]
    /\ code' = [code EXCEPT ![o] = FALSE]
    /\ UNCHANGED <<status, request, orderVars, tripOf, pod, routeStatus, crewVars,
                   stops, loadVars, stockVars, count>>

\* What a driver may report: a list of lines, here by the type they name.  The
\* request only has to have a line; the same type may come in several.
ReportLine == [given : 0..MaxQty, empty : EmptiesBack]

Reports(o) ==
    IF CompleteReports
    THEN [Lines(o) -> [1..1 -> ReportLine]]
    ELSE UNION {[named -> UNION {[1..n -> ReportLine] : n \in 1..MaxLines}] :
                   named \in (SUBSET Lines(o)) \ {{}}}

\* record_delivery: no line hands over more than was reserved on the van.
WithinOrder(o, report) ==
    \A t \in DOMAIN report : \A i \in DOMAIN report[t] :
        report[t][i].given <= ordered[o][t]
WithinReserved(o, report) ==
    \A t \in DOMAIN report : \A i \in DOMAIN report[t] :
        report[t][i].given <= Reserved(o)[t]

\* What goes back to the van's free stock: of every line, what was reserved for
\* its type and not handed over by that line.
ShortfallKept(o, report) == None
Shortfall(o, report) ==
    [t \in Types |->
        IF t \in DOMAIN report
        THEN Sum([i \in DOMAIN report[t] |-> Reserved(o)[t] - report[t][i].given],
                 DOMAIN report[t])
        ELSE 0]

\* The empties that every line brings back to the van.
BackUnreported(report) == None
Back(report) ==
    [t \in Types |->
        IF t \in DOMAIN report
        THEN Sum([i \in DOMAIN report[t] |-> report[t][i].empty], DOMAIN report[t])
        ELSE 0]

\* The order's own line is set by each line of the report in turn: the last stays.
LastLine(lines) == lines[Len(lines)]

DeliverOrder(o, report) ==
    LET r == tripOf[o]
        v == vehicleOf[r]
    IN  /\ r # NoRoute
        /\ routeStatus[r] # "planned"
        /\ code[o]
        /\ CanMove(o, "delivered")
        /\ WithinReserved(o, report)
        /\ Started(r) = "in_progress"
        /\ StopCanMove(r, o, "delivered")
        /\ o \notin pod
        /\ status' = [status EXCEPT ![o] = "delivered"]
        /\ code' = [code EXCEPT ![o] = FALSE]
        /\ pod' = pod \cup {o}
        /\ delivered' = [delivered EXCEPT ![o] =
              [t \in Types |-> IF t \in DOMAIN report THEN LastLine(report[t]).given ELSE @[t]]]
        /\ collected' = [collected EXCEPT ![o] =
              [t \in Types |-> IF t \in DOMAIN report THEN LastLine(report[t]).empty ELSE @[t]]]
        /\ van' = [van EXCEPT ![v] = Plus(@, Shortfall(o, report))]
        /\ vanEmpty' = [vanEmpty EXCEPT ![v] = Plus(@, Back(report))]
        /\ stops' = [stops EXCEPT ![r][o] = "delivered"]
        /\ routeStatus' = [routeStatus EXCEPT
                              ![r] = Settled(r, o, "delivered", Started(r))]
        /\ UNCHANGED <<request, ordered, pending, priced, tripOf, crewVars,
                       loadVars, warehouse, count>>

RecordFailedDelivery(o) ==
    LET r == tripOf[o]
    IN  /\ r # NoRoute
        /\ routeStatus[r] # "planned"
        /\ CanMove(o, "failed_delivery")
        /\ Started(r) = "in_progress"
        /\ StopCanMove(r, o, "failed")
        /\ status' = [status EXCEPT ![o] = "failed_delivery"]
        /\ stops' = [stops EXCEPT ![r][o] = "failed"]
        /\ routeStatus' = [routeStatus EXCEPT
                              ![r] = Settled(r, o, "failed", Started(r))]
        /\ UNCHANGED <<request, orderVars, tripOf, code, pod, crewVars, loadVars,
                       stockVars, count>>

\* Retry on the same trip; a trip this failure had completed is reopened.
RescheduleOrder(o) ==
    LET r == tripOf[o]
    IN  /\ r # NoRoute
        /\ CanMove(o, "ready_for_dispatch")
        /\ StopCanMove(r, o, "pending")
        /\ status' = [status EXCEPT ![o] = "ready_for_dispatch"]
        /\ stops' = [stops EXCEPT ![r][o] = "pending"]
        /\ routeStatus' = [routeStatus EXCEPT
                              ![r] = IF @ = "completed" THEN "in_progress" ELSE @]
        /\ UNCHANGED <<request, orderVars, tripOf, code, pod, crewVars, loadVars,
                       stockVars, count>>

\* release_reservation of every line of o on vehicle v.
ReleaseOrdered(o, v) == van' = [van EXCEPT ![v] = Plus(@, ordered[o])]
Release(o, v) == van' = [van EXCEPT ![v] = Plus(@, Reserved(o))]

\* The trip keeps its stop as it is; the order gives its reservation back.  The
\* edge to "confirmed" also leaves "booked", where there is no trip to leave.
RescheduleToAnotherDay(o) ==
    LET r == tripOf[o]
    IN  /\ CanMove(o, "confirmed")
        /\ ScreensOnly => status[o] = "failed_delivery"
        /\ status' = [status EXCEPT ![o] = "confirmed"]
        /\ pending' = [pending EXCEPT ![o] = None]
        /\ tripOf' = [tripOf EXCEPT ![o] = NoRoute]
        /\ \/ /\ r = NoRoute
              /\ UNCHANGED van
           \/ /\ r # NoRoute
              /\ Release(o, vehicleOf[r])
        /\ UNCHANGED <<request, ordered, delivered, collected, priced, code, pod,
                       routeStatus, crewVars, stops, loadVars, warehouse,
                       vanEmpty, count>>
-----------------------------------------------------------------------------
(* Cancelling and closing *)

\* Route.cancel_stop.
CancelStopForgotten(o, r) == UNCHANGED <<stops, routeStatus>>
CancelStop(o, r) ==
    /\ StopCanMove(r, o, "cancelled")
    /\ stops' = [stops EXCEPT ![r][o] = "cancelled"]
    /\ routeStatus' = [routeStatus EXCEPT ![r] = Settled(r, o, "cancelled", @)]

\* Shared by the free and the approved cancellation: the order, if it is on a
\* trip, gives its reservation back and its stop is cancelled.
Cancel(o) ==
    LET r == tripOf[o]
    IN  /\ status' = [status EXCEPT ![o] = "cancelled"]
        /\ \/ /\ r = NoRoute
              /\ UNCHANGED <<van, stops, routeStatus>>
           \/ /\ r # NoRoute
              /\ Release(o, vehicleOf[r])
              /\ CancelStop(o, r)
        /\ UNCHANGED <<orderVars, tripOf, code, pod, crewVars, loadVars,
                       warehouse, vanEmpty, count>>

CancelOrderAnytime(o) ==
    /\ status[o] \in LC!FreeCancelStates \cup LC!ApprovalCancelStates
    /\ Cancel(o)
    /\ UNCHANGED request

CancelOrderFree(o) ==
    /\ status[o] \in LC!FreeCancelStates
    /\ Cancel(o)
    /\ UNCHANGED request

RequestCancellation(o) ==
    /\ status[o] \in LC!ApprovalCancelStates
    /\ o \notin request
    /\ request' = request \cup {o}
    /\ UNCHANGED <<status, orderVars, tripOf, code, pod, routeStatus, crewVars,
                   stops, loadVars, stockVars, count>>

RejectCancellation(o) ==
    /\ o \in request
    /\ request' = request \ {o}
    /\ UNCHANGED <<status, orderVars, tripOf, code, pod, routeStatus, crewVars,
                   stops, loadVars, stockVars, count>>

ApproveCancellation(o) ==
    /\ o \in request
    /\ status[o] \in LC!ApprovalCancelStates
    /\ Cancel(o)
    /\ request' = request \ {o}

CloseOrder(o) ==
    /\ CanMove(o, "closed")
    /\ status' = [status EXCEPT ![o] = "closed"]
    /\ UNCHANGED <<request, orderVars, tripOf, code, pod, routeStatus, crewVars,
                   stops, loadVars, stockVars, count>>
-----------------------------------------------------------------------------
(* The route on its own, and the count that reconciles it *)

UpdateRouteStatus(r, to) ==
    /\ to \in {"in_progress", "cancelled"}
    /\ RouteCanMove(r, to)
    /\ ScreensOnly => to = "cancelled"
    /\ routeStatus' = [routeStatus EXCEPT ![r] = to]
    /\ UNCHANGED <<status, request, orderVars, tripOf, code, pod, crewVars,
                   stops, loadVars, stockVars, count>>

CompleteRouteReconciliation(r) ==
    /\ RouteCanMove(r, "reconciled")
    /\ count[vehicleOf[r]] = "approved"
    /\ routeStatus' = [routeStatus EXCEPT ![r] = "reconciled"]
    /\ UNCHANGED <<status, request, orderVars, tripOf, code, pod, crewVars,
                   stops, loadVars, stockVars, count>>

\* A count that finds what the balances say: what a variance does to them is
\* left out.
RecordCount(v) ==
    /\ Decisions # {}
    /\ count[v] # "pending"
    /\ count' = [count EXCEPT ![v] = "pending"]
    /\ UNCHANGED <<status, request, orderVars, tripOf, code, pod, routeStatus,
                   crewVars, stops, loadVars, stockVars>>

DecideCount(v, decision) ==
    /\ count[v] = "pending"
    /\ count' = [count EXCEPT ![v] = decision]
    /\ UNCHANGED <<status, request, orderVars, tripOf, code, pod, routeStatus,
                   crewVars, stops, loadVars, stockVars>>
-----------------------------------------------------------------------------
OrderStep(o) ==
    \/ \E q \in Requests : CreateOrder(o, q) \/ AmendOrder(o, q)
    \/ ConfirmOrder(o)
    \/ \E r \in Routes : AssignOrderToRoute(o, r)
    \/ \E r \in Routes, d \in Drivers, v \in Vehicles : AssignOrderToNewRoute(o, r, d, v)
    \/ DispatchOrder(o)
    \/ DepartOrder(o)
    \/ ResendDeliveryOtp(o)
    \/ LoseCode(o)
    \/ \E report \in Reports(o) : DeliverOrder(o, report)
    \/ RecordFailedDelivery(o)
    \/ RescheduleOrder(o)
    \/ RescheduleToAnotherDay(o)
    \/ CancelOrderFree(o)
    \/ RequestCancellation(o)
    \/ RejectCancellation(o)
    \/ ApproveCancellation(o)
    \/ CloseOrder(o)

RouteStep(r) ==
    \/ \E d \in Drivers, v \in Vehicles : PlanRoute(r, d, v)
    \/ \E q \in Requests : LoadVehicleForRoute(r, q)
    \/ \E new \in SUBSET Orders, extra \in Requests \cup {None} :
          LoadAndDispatchRoute(r, new, extra)
    \/ ConfirmRouteLoad(r)
    \/ \E to \in RouteStatuses : UpdateRouteStatus(r, to)
    \/ CompleteRouteReconciliation(r)

VanStep(v) ==
    \/ \E q \in Requests : LoadTransfer(v, q)
    \/ RecordCount(v)
    \/ \E decision \in Decisions : DecideCount(v, decision)

Next ==
    \/ \E o \in Orders : OrderStep(o)
    \/ \E r \in Routes : RouteStep(r)
    \/ \E v \in Vehicles : VanStep(v)

Spec == Init /\ [][Next]_vars
=============================================================================
