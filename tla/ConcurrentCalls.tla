--------------------------- MODULE ConcurrentCalls ---------------------------
(***************************************************************************)
(* Use cases that run at the same time.  A call reads its rows one query   *)
(* after the other, each at READ COMMITTED, changes its aggregates in      *)
(* memory and writes them when it commits.  save() loads each row anew,    *)
(* because a session keeps only weak references to the rows it has read,   *)
(* and gives every column the aggregate's value, so what others wrote in   *)
(* the meantime is overwritten.  What holds calls apart is three advisory  *)
(* locks, kept until the transaction ends (one per branch for booking, one *)
(* per driver and one per vehicle for opening a trip), and a partial       *)
(* unique index on active stops.                                           *)
(*                                                                         *)
(* Module Fulfilment has the same use cases as single steps, and many      *)
(* more; here an order asks for one cylinder and no trip leaves.           *)
(***************************************************************************)
EXTENDS Integers, FiniteSets, FiniteSetsExt

CONSTANTS
    Calls,      \* bound: the most calls at a time
    Orders, Routes, Drivers, Vehicles,
    VanStock,   \* filled cylinders on each vehicle at first
    Kinds,      \* bound: the use cases that are called
    NoOne       \* no order, no route, no call, nobody

ASSUME KindsAssumption ==
    Kinds \subseteq {"book", "confirm", "assign", "plan", "cancel", "close"}

ASSUME NamesAssumption ==
    /\ NoOne \notin Calls \cup Orders \cup Routes \cup Drivers \cup Vehicles
    /\ VanStock \in Nat

VARIABLES
    status,      \* order.status
    tripOf,      \* order.route_stop_id, as the route that owns the stop
    pending,     \* order_line.quantity_pending
    stops,       \* route_stop.status
    routeStatus, driverOf, vehicleOf,
    van,         \* filled balance of each vehicle
    branchLock, crewLock,   \* who holds each advisory lock
    pc,          \* the next query of each call
    job,         \* what each call is to do, and on which trip
    asOrder,     \* the order each call has in memory,
    asRoute,     \* its route with the stops,
    figures      \* and the quantities it has read

rows == <<status, tripOf, pending, stops, routeStatus, driverOf, vehicleOf, van>>
locks == <<branchLock, crewLock>>
memory == <<asOrder, asRoute, figures>>
vars == <<rows, locks, pc, job, memory>>

Asked(kind, o, d, v, r) ==
    [kind |-> kind, order |-> o, driver |-> d, vehicle |-> v, route |-> r]
NoJob == Asked("none", NoOne, NoOne, NoOne, NoOne)
NoOrder == [status |-> "draft", trip |-> NoOne]
NoRoute == [status |-> "none", stops |-> [o \in Orders |-> "none"]]
NoFigures == [pending |-> 0, van |-> 0, stock |-> 0]

ActiveRoute(r) == routeStatus[r] = "planned"
ActiveStop(r, o) == stops[r][o] = "pending"

\* Calls that may yet open a trip; Spare bounds them by the routes there are.
Opening == {c \in Calls : job[c].kind \in {"assign", "plan"}}
Spare == Cardinality({r \in Routes : routeStatus[r] = "none"}) > Cardinality(Opening)

Init ==
    /\ status = [o \in Orders |-> "draft"]
    /\ tripOf = [o \in Orders |-> NoOne]
    /\ pending = [o \in Orders |-> 0]
    /\ stops = [r \in Routes |-> [o \in Orders |-> "none"]]
    /\ routeStatus = [r \in Routes |-> "none"]
    /\ driverOf = [r \in Routes |-> NoOne]
    /\ vehicleOf = [r \in Routes |-> NoOne]
    /\ van = [v \in Vehicles |-> VanStock]
    /\ branchLock = NoOne
    /\ crewLock = [x \in Drivers \cup Vehicles |-> NoOne]
    /\ pc = [c \in Calls |-> "idle"]
    /\ job = [c \in Calls |-> NoJob]
    /\ asOrder = [c \in Calls |-> NoOrder]
    /\ asRoute = [c \in Calls |-> NoRoute]
    /\ figures = [c \in Calls |-> NoFigures]
-----------------------------------------------------------------------------
(* Requests arrive and transactions end *)

Begin(c, j, step) ==
    /\ pc[c] = "idle"
    /\ j.kind \in Kinds
    /\ job' = [job EXCEPT ![c] = j]
    /\ pc' = [pc EXCEPT ![c] = step]
    /\ UNCHANGED <<rows, locks, memory>>

\* An order's row appears when its booking commits: its id is the call's own.
BeginBook(c, o) ==
    /\ status[o] = "draft"
    /\ \A d \in Calls : job[d].kind = "book" => job[d].order # o
    /\ Begin(c, Asked("book", o, NoOne, NoOne, NoOne), "lock_branch")

BeginConfirm(c, o) ==
    /\ status[o] # "draft"
    /\ Begin(c, Asked("confirm", o, NoOne, NoOne, NoOne), "read_order")

\* AssignOrder reads the order for its date only: dates are left out here.
BeginAssign(c, o, d, v) ==
    /\ status[o] # "draft"
    /\ Spare
    /\ Begin(c, Asked("assign", o, d, v, NoOne), "find_route")

BeginPlan(c, d, v) ==
    /\ Spare
    /\ Begin(c, Asked("plan", NoOne, d, v, NoOne), "lock_driver")

BeginCancel(c, o) ==
    /\ status[o] # "draft"
    /\ Begin(c, Asked("cancel", o, NoOne, NoOne, NoOne), "read_order")

BeginClose(c, r) ==
    /\ routeStatus[r] # "none"
    /\ Begin(c, Asked("close", NoOne, NoOne, NoOne, r), "read_route")

\* Advisory locks go with the transaction, whether it commits or is refused.
Unlock(c) ==
    /\ branchLock' = IF branchLock = c THEN NoOne ELSE branchLock
    /\ crewLock' = [x \in Drivers \cup Vehicles |->
                       IF crewLock[x] = c THEN NoOne ELSE crewLock[x]]

End(c) ==
    /\ Unlock(c)
    /\ pc' = [pc EXCEPT ![c] = "idle"]
    /\ job' = [job EXCEPT ![c] = NoJob]
    /\ asOrder' = [asOrder EXCEPT ![c] = NoOrder]
    /\ asRoute' = [asRoute EXCEPT ![c] = NoRoute]
    /\ figures' = [figures EXCEPT ![c] = NoFigures]

Refuse(c) == End(c) /\ UNCHANGED rows

Goto(c, step) == pc' = [pc EXCEPT ![c] = step]
OnTrip(c, r) == job' = [job EXCEPT ![c].route = r]
-----------------------------------------------------------------------------
(* Queries *)

\* Order.get_by_id.
ReadOrder(c) ==
    LET o == job[c].order
    IN  /\ pc[c] = "read_order"
        /\ asOrder' = [asOrder EXCEPT ![c] = [status |-> status[o], trip |-> tripOf[o]]]
        /\ figures' = [figures EXCEPT ![c].pending = pending[o]]
        /\ \/ job[c].kind = "confirm" /\ Goto(c, "lock_branch") /\ UNCHANGED job
           \/ job[c].kind = "assign" /\ Goto(c, "count") /\ UNCHANGED job
           \/ /\ job[c].kind = "cancel"
              /\ OnTrip(c, tripOf[o])
              /\ Goto(c, IF tripOf[o] = NoOne THEN "save_cancel" ELSE "read_van")
        /\ UNCHANGED <<rows, locks, asRoute>>

\* Route.get_by_id; a call sees the trip it has inserted itself.
ReadRoute(c) ==
    LET r == job[c].route
        next == [assign |-> "read_order", cancel |-> "save_cancel", close |-> "save_close"]
    IN  /\ pc[c] = "read_route"
        /\ asRoute' = [asRoute EXCEPT ![c] =
                          [status |-> IF routeStatus[r] = "none" THEN "planned" ELSE routeStatus[r],
                           stops |-> stops[r]]]
        /\ Goto(c, next[job[c].kind])
        /\ UNCHANGED <<rows, locks, job, asOrder, figures>>

LockBranch(c) ==
    /\ branchLock = NoOne
    /\ branchLock' = c
    /\ UNCHANGED crewLock

EnterBooking(c) ==
    /\ pc[c] = "lock_branch"
    /\ LockBranch(c)
    /\ Goto(c, "read_stock")
    /\ UNCHANGED <<rows, job, memory>>

FilledStock == MapThenSumSet(LAMBDA v : van[v], Vehicles)

OpenDemand(o) ==
    CASE status[o] \in {"booked", "confirmed"} -> 1
      [] status[o] = "assigned" -> pending[o]
      [] OTHER -> 0

ReadStock(c) ==
    /\ pc[c] = "read_stock"
    /\ figures' = [figures EXCEPT ![c].stock = FilledStock]
    /\ Goto(c, "read_demand")
    /\ UNCHANGED <<rows, locks, job, asOrder, asRoute>>

ReadDemand(c) ==
    LET demand == MapThenSumSet(OpenDemand, Orders \ {job[c].order})
    IN  /\ pc[c] = "read_demand"
        /\ \/ /\ figures[c].stock - demand >= 1
              /\ Goto(c, "sell")
              /\ UNCHANGED <<rows, locks, job, memory>>
           \/ figures[c].stock - demand < 1 /\ Refuse(c)

\* An open trip of the very crew is used; otherwise one is opened.
FindRoute(c) ==
    LET own == {r \in Routes : ActiveRoute(r) /\ driverOf[r] = job[c].driver
                                              /\ vehicleOf[r] = job[c].vehicle}
    IN  /\ pc[c] = "find_route"
        /\ \/ own = {} /\ Goto(c, "lock_driver") /\ UNCHANGED job
           \/ \E r \in own : OnTrip(c, r) /\ Goto(c, "read_route")
        /\ UNCHANGED <<rows, locks, memory>>

LockCrew(c, x) ==
    /\ crewLock[x] = NoOne
    /\ crewLock' = [crewLock EXCEPT ![x] = c]
    /\ UNCHANGED branchLock

LockDriver(c) ==
    /\ pc[c] = "lock_driver"
    /\ LockCrew(c, job[c].driver)
    /\ Goto(c, "lock_vehicle")
    /\ UNCHANGED <<rows, job, memory>>

LockVehicle(c) ==
    /\ pc[c] = "lock_vehicle"
    /\ LockCrew(c, job[c].vehicle)
    /\ Goto(c, "check_driver")
    /\ UNCHANGED <<rows, job, memory>>

CheckDriverAgain(c) ==
    /\ pc[c] = "check_driver"
    /\ Goto(c, IF \A r \in Routes : ActiveRoute(r) => driverOf[r] # job[c].driver
               THEN "check_vehicle" ELSE "check_driver")
    /\ UNCHANGED <<rows, locks, job, memory>>
CheckDriver(c) ==
    /\ pc[c] = "check_driver"
    /\ \/ /\ \A r \in Routes : ActiveRoute(r) => driverOf[r] # job[c].driver
          /\ Goto(c, "check_vehicle")
          /\ UNCHANGED <<rows, locks, job, memory>>
       \/ (\E r \in Routes : ActiveRoute(r) /\ driverOf[r] = job[c].driver) /\ Refuse(c)

\* The new route has an id of its own.
CheckVehicle(c) ==
    /\ pc[c] = "check_vehicle"
    /\ \/ /\ \A r \in Routes : ActiveRoute(r) => vehicleOf[r] # job[c].vehicle
          /\ \E r \in Routes :
                /\ routeStatus[r] = "none"
                /\ \A d \in Opening : job[d].route # r
                /\ OnTrip(c, r)
          /\ Goto(c, IF job[c].kind = "plan" THEN "save_route" ELSE "read_route")
          /\ UNCHANGED <<rows, locks, memory>>
       \/ (\E r \in Routes : ActiveRoute(r) /\ vehicleOf[r] = job[c].vehicle) /\ Refuse(c)

\* count_active_routes_for_order.
CountRoutes(c) ==
    LET taken == \E r \in Routes : routeStatus[r] # "cancelled" /\ ActiveStop(r, job[c].order)
    IN  /\ pc[c] = "count"
        /\ \/ ~taken /\ Goto(c, "read_van") /\ UNCHANGED <<rows, locks, job, memory>>
           \/ taken /\ Refuse(c)

ReadVan(c) ==
    LET v == IF job[c].kind = "assign" THEN job[c].vehicle ELSE vehicleOf[job[c].route]
    IN  /\ pc[c] = "read_van"
        /\ figures' = [figures EXCEPT ![c].van = van[v]]
        /\ Goto(c, IF job[c].kind = "assign" THEN "save_assign" ELSE "read_route")
        /\ UNCHANGED <<rows, locks, job, asOrder, asRoute>>
-----------------------------------------------------------------------------
(* Commits *)

\* Every column gets the value in memory.
WriteOrder(c, s, r, p) ==
    LET o == job[c].order
    IN  /\ status' = [status EXCEPT ![o] = s]
        /\ tripOf' = [tripOf EXCEPT ![o] = r]
        /\ pending' = [pending EXCEPT ![o] = p]

\* A booking inserts the order; a confirmation needs it to have been booked.
Sell(c) ==
    /\ pc[c] = "sell"
    /\ \/ /\ job[c].kind = "book"
          /\ WriteOrder(c, "booked", NoOne, 0)
          /\ UNCHANGED <<stops, routeStatus, driverOf, vehicleOf, van>>
          /\ End(c)
       \/ /\ job[c].kind = "confirm" /\ asOrder[c].status = "booked"
          /\ WriteOrder(c, "confirmed", asOrder[c].trip, figures[c].pending)
          /\ UNCHANGED <<stops, routeStatus, driverOf, vehicleOf, van>>
          /\ End(c)
       \/ job[c].kind = "confirm" /\ asOrder[c].status # "booked" /\ Refuse(c)

OpenRoute(r, d, v) ==
    /\ routeStatus' = [routeStatus EXCEPT ![r] = "planned"]
    /\ driverOf' = [driverOf EXCEPT ![r] = d]
    /\ vehicleOf' = [vehicleOf EXCEPT ![r] = v]

SaveRoute(c) ==
    /\ pc[c] = "save_route"
    /\ OpenRoute(job[c].route, job[c].driver, job[c].vehicle)
    /\ UNCHANGED <<status, tripOf, pending, stops, van>>
    /\ End(c)

\* The stops of the trip after a save: one of them changed, those in memory as
\* they were read, and those added since as they are.
SavedStops(c, o, s) ==
    [p \in Orders |-> IF p = o THEN s
                      ELSE IF asRoute[c].stops[p] = "none" THEN stops[job[c].route][p]
                      ELSE asRoute[c].stops[p]]

\* uq_route_stop_order_active.
IndexAllowsAll(r, saved) == TRUE
IndexAllows(r, saved) ==
    \A o \in Orders : saved[o] = "pending" => \A q \in Routes \ {r} : ~ActiveStop(q, o)

\* stops[r][o] = "none" is the index again, and bound: one stop of an order on a
\* trip.  An assignment that began before an earlier one to the same trip was
\* made and cancelled again is refused here, where the code adds a second stop.
SaveAssign(c) ==
    LET o == job[c].order
        r == job[c].route
        reserved == IF figures[c].van >= 1 THEN 1 ELSE 0
        saved == SavedStops(c, o, "pending")
        may == /\ asOrder[c].status = "confirmed"
               /\ asRoute[c].status = "planned" /\ asRoute[c].stops[o] = "none"
               /\ stops[r][o] = "none" /\ IndexAllows(r, saved)
    IN  /\ pc[c] = "save_assign"
        /\ \/ /\ may
              /\ WriteOrder(c, "assigned", r, 1 - reserved)
              /\ van' = [van EXCEPT ![job[c].vehicle] =
                            IF reserved = 1 THEN figures[c].van - 1 ELSE @]
              /\ stops' = [stops EXCEPT ![r] = saved]
              /\ \/ routeStatus[r] = "none" /\ OpenRoute(r, job[c].driver, job[c].vehicle)
                 \/ /\ routeStatus[r] # "none"
                    /\ routeStatus' = [routeStatus EXCEPT ![r] = asRoute[c].status]
                    /\ UNCHANGED <<driverOf, vehicleOf>>
              /\ End(c)
           \/ ~may /\ Refuse(c)

\* The order, its reservation and its stop.
LeaveOrder(c) == UNCHANGED <<status, tripOf, pending>>
CancelOrder(c) == WriteOrder(c, "cancelled", asOrder[c].trip, figures[c].pending)

SaveCancel(c) ==
    LET o == job[c].order
        r == job[c].route
        reserved == 1 - figures[c].pending
        saved == SavedStops(c, o, "cancelled")
        may == /\ asOrder[c].status \in {"booked", "confirmed", "assigned"}
               /\ r # NoOne => asRoute[c].stops[o] = "pending" /\ IndexAllows(r, saved)
    IN  /\ pc[c] = "save_cancel"
        /\ \/ /\ may
              /\ CancelOrder(c)
              /\ \/ r = NoOne /\ UNCHANGED <<van, stops, routeStatus>>
                 \/ /\ r # NoOne
                    /\ van' = [van EXCEPT ![vehicleOf[r]] =
                                  IF reserved = 1 THEN figures[c].van + 1 ELSE @]
                    /\ stops' = [stops EXCEPT ![r] = saved]
                    /\ routeStatus' = [routeStatus EXCEPT ![r] = asRoute[c].status]
              /\ UNCHANGED <<driverOf, vehicleOf>>
              /\ End(c)
           \/ ~may /\ Refuse(c)

\* UpdateRouteStatus to "cancelled".
SaveClose(c) ==
    LET r == job[c].route
        saved == SavedStops(c, NoOne, "none")
        may == asRoute[c].status = "planned" /\ IndexAllows(r, saved)
    IN  /\ pc[c] = "save_close"
        /\ \/ /\ may
              /\ routeStatus' = [routeStatus EXCEPT ![r] = "cancelled"]
              /\ stops' = [stops EXCEPT ![r] = saved]
              /\ UNCHANGED <<status, tripOf, pending, driverOf, vehicleOf, van>>
              /\ End(c)
           \/ ~may /\ Refuse(c)
-----------------------------------------------------------------------------
Arrive(c) ==
    \/ \E o \in Orders : BeginBook(c, o) \/ BeginConfirm(c, o) \/ BeginCancel(c, o)
    \/ \E d \in Drivers, v \in Vehicles :
          \/ BeginPlan(c, d, v)
          \/ \E o \in Orders : BeginAssign(c, o, d, v)
    \/ \E r \in Routes : BeginClose(c, r)

Acquire(c) == EnterBooking(c) \/ LockDriver(c) \/ LockVehicle(c)

Query(c) ==
    ReadOrder(c) \/ ReadRoute(c) \/ ReadStock(c) \/ ReadDemand(c) \/ FindRoute(c)
        \/ CheckDriver(c) \/ CheckVehicle(c) \/ CountRoutes(c) \/ ReadVan(c)

Save(c) == Sell(c) \/ SaveRoute(c) \/ SaveAssign(c) \/ SaveCancel(c) \/ SaveClose(c)

Next == \E c \in Calls : Arrive(c) \/ Acquire(c) \/ Query(c) \/ Save(c)

\* The database answers every query and grants a lock to whoever has waited
\* longest.
Fairness == \A c \in Calls : WF_vars(Query(c) \/ Save(c)) /\ SF_vars(Acquire(c))

Spec == Init /\ [][Next]_vars /\ Fairness
-----------------------------------------------------------------------------
(* What holds whichever way the calls interleave *)

Statuses == {"draft", "booked", "confirmed", "assigned", "cancelled"}
StopStatuses == {"none", "pending", "cancelled"}
RouteStatuses == {"none", "planned", "cancelled"}
BookingSteps == {"read_stock", "read_demand", "sell"}
OpeningSteps == {"lock_driver", "lock_vehicle", "check_driver", "check_vehicle"}
Steps == {"idle", "read_order", "lock_branch", "find_route", "read_route", "count",
          "read_van", "save_cancel", "save_route", "save_assign", "save_close"}
             \cup BookingSteps \cup OpeningSteps

Jobs == [kind : Kinds \cup {"none"}, order : Orders \cup {NoOne},
         driver : Drivers \cup {NoOne}, vehicle : Vehicles \cup {NoOne},
         route : Routes \cup {NoOne}]
OrdersRead == [status : Statuses, trip : Routes \cup {NoOne}]
RoutesRead == [status : RouteStatuses, stops : [Orders -> StopStatuses]]

\* The rows, locks and requests the proofs speak of have their types.
TypeOK ==
    /\ status \in [Orders -> Statuses]
    /\ tripOf \in [Orders -> Routes \cup {NoOne}]
    /\ stops \in [Routes -> [Orders -> StopStatuses]]
    /\ routeStatus \in [Routes -> RouteStatuses]
    /\ driverOf \in [Routes -> Drivers \cup {NoOne}]
    /\ vehicleOf \in [Routes -> Vehicles \cup {NoOne}]
    /\ branchLock \in Calls \cup {NoOne}
    /\ crewLock \in [Drivers \cup Vehicles -> Calls \cup {NoOne}]
    /\ pc \in [Calls -> Steps]
    /\ job \in [Calls -> Jobs]
    /\ asOrder \in [Calls -> OrdersRead]
    /\ asRoute \in [Calls -> RoutesRead]

\* One open trip per driver and per vehicle (DO-23): ensure_crew_is_free looks
\* after it has the crew's locks, so nobody opens one in between.  A call that
\* has the route in memory writes its status back, whatever it is by then.
OneOpenTrip ==
    \A r, s \in Routes : r # s /\ ActiveRoute(r) /\ ActiveRoute(s) =>
        driverOf[r] # driverOf[s] /\ vehicleOf[r] # vehicleOf[s]

\* An order is on one trip only: two dispatchers who both counted none are told
\* apart by uq_route_stop_order_active, and so is a call that writes a cancelled
\* stop back.
OneActiveStop ==
    \A o \in Orders : \A r, s \in Routes :
        ActiveStop(r, o) /\ ActiveStop(s, o) => r = s

\* An order that says it is on a trip is on the stop list its driver sees, even
\* where a cancellation or a confirmation of it was lost or its trip was written
\* back from memory.
AssignedHasStop ==
    \A o \in Orders : status[o] = "assigned" =>
        tripOf[o] # NoOne /\ stops[tripOf[o]][o] = "pending"

\* "The check and the booking it allows happen as one step for concurrent
\* bookings at the same branch" (OrderableCylinderTypes.require).
OneBookingAtATime ==
    \A c, d \in Calls :
        pc[c] \in BookingSteps /\ pc[d] \in BookingSteps => c = d

\* No call waits for ever: crew locks are taken in one order, and a call that is
\* refused gives its locks up with its transaction.
EveryCallEnds == \A c \in Calls : []<>(pc[c] = "idle")
=============================================================================
