-------------------------- MODULE ConcurrentProofs --------------------------
(***************************************************************************)
(* What the locks and the unique index of module ConcurrentCalls guarantee *)
(* for any number of calls, orders, trips and crews.                       *)
(***************************************************************************)
EXTENDS ConcurrentCalls, TLAPS
-----------------------------------------------------------------------------
(* The inductive invariant *)

RouteSteps == {"read_route", "read_order", "count", "read_van", "save_assign"}

\* A call is at a step of the use case it was asked for, with the names that
\* use case is about.
AtStep(c) ==
    \/ job[c].kind = "none" /\ pc[c] = "idle"
    \/ job[c].kind = "book" /\ pc[c] \in {"lock_branch"} \cup BookingSteps
    \/ job[c].kind = "confirm" /\ pc[c] \in {"read_order", "lock_branch"} \cup BookingSteps
    \/ job[c].kind = "assign" /\ pc[c] \in {"find_route"} \cup OpeningSteps \cup RouteSteps
    \/ job[c].kind = "plan" /\ pc[c] \in OpeningSteps \cup {"save_route"}
    \/ /\ job[c].kind = "cancel"
       /\ pc[c] \in {"read_order", "read_van", "read_route", "save_cancel"}
    \/ job[c].kind = "close" /\ pc[c] \in {"read_route", "save_close"}

Named(c) ==
    /\ job[c].kind \in {"book", "confirm", "assign", "cancel"} => job[c].order \in Orders
    /\ job[c].kind \in {"assign", "plan"} =>
           job[c].driver \in Drivers /\ job[c].vehicle \in Vehicles
    /\ job[c].kind \in {"assign", "plan"} /\ pc[c] \in RouteSteps \cup {"save_route"} =>
           job[c].route \in Routes
    /\ pc[c] \in {"read_van", "read_route", "save_close"} => job[c].route \in Routes

JobFits == \A c \in Calls : AtStep(c) /\ Named(c)

\* The steps from the check of the crew to the commit of a call that opens a
\* trip of its own, and the part of them after each check.
WillOpen(c) ==
    \/ pc[c] = "save_route"
    \/ /\ pc[c] \in RouteSteps
       /\ job[c].kind = "assign"
       /\ routeStatus[job[c].route] = "none"
HoldsDriver(c) == pc[c] \in {"lock_vehicle", "check_driver", "check_vehicle"} \/ WillOpen(c)
HoldsCrew(c) == pc[c] \in {"check_driver", "check_vehicle"} \/ WillOpen(c)
SawDriver(c) == pc[c] = "check_vehicle" \/ WillOpen(c)

LocksHeld ==
    \A c \in Calls :
        /\ HoldsDriver(c) => crewLock[job[c].driver] = c
        /\ HoldsCrew(c) => crewLock[job[c].vehicle] = c

BranchHeld == \A c \in Calls : pc[c] \in BookingSteps => branchLock = c

\* A trip an order, a call's order or a call's route names has been opened.
Opened ==
    /\ \A o \in Orders : tripOf[o] # NoOne => routeStatus[tripOf[o]] # "none"
    /\ \A c \in Calls :
          /\ asOrder[c].trip # NoOne => routeStatus[asOrder[c].trip] # "none"
          /\ job[c].kind \in {"cancel", "close"} /\ job[c].route # NoOne =>
                routeStatus[job[c].route] # "none"

\* Calls that have their route in memory.
HasRoute(c) ==
    \/ job[c].kind = "assign" /\ pc[c] \in RouteSteps \ {"read_route"}
    \/ pc[c] \in {"save_cancel", "save_close"} /\ job[c].route # NoOne

\* A cancelled stop, in its row or in memory, is never that of an order which is
\* still assigned to the trip.
Gone(r, o) == stops[r][o] # "none" /\ ~(status[o] = "assigned" /\ tripOf[o] = r)
CancelledAgree ==
    /\ \A r \in Routes, o \in Orders : stops[r][o] = "cancelled" => Gone(r, o)
    /\ \A c \in Calls, o \in Orders : asRoute[c].stops[o] = "cancelled" =>
           HasRoute(c) /\ Gone(job[c].route, o)
    /\ \A c \in Calls : HasRoute(c) => asRoute[c].status # "none"

IInv == TypeOK /\ JobFits /\ LocksHeld /\ BranchHeld /\ Opened
            /\ CancelledAgree /\ OneActiveStop /\ AssignedHasStop

\* Where no trip is cancelled.
NoneCancelled ==
    /\ \A r \in Routes : routeStatus[r] # "cancelled"
    /\ \A c \in Calls : asRoute[c].status # "cancelled"

StillFree ==
    \A c \in Calls : \A r \in Routes :
        /\ SawDriver(c) /\ ActiveRoute(r) => driverOf[r] # job[c].driver
        /\ WillOpen(c) /\ ActiveRoute(r) => vehicleOf[r] # job[c].vehicle
CrewInv == NoneCancelled /\ StillFree /\ OneOpenTrip
-----------------------------------------------------------------------------
(* Types *)

\* What an idle call has in mind has the type of a request and of what is read.
LEMMA NothingFits ==
    /\ NoJob \in Jobs /\ NoJob.kind = "none" /\ NoJob.route = NoOne
    /\ NoOrder \in OrdersRead /\ NoOrder.trip = NoOne
    /\ NoRoute \in RoutesRead /\ NoRoute.status = "none"
    /\ \A o \in Orders : NoRoute.stops[o] = "none"
  BY DEF NoJob, Asked, Jobs, NoOrder, OrdersRead, NoRoute, RoutesRead, Statuses, RouteStatuses,
         StopStatuses

\* A transaction that ends leaves an idle call with nothing in memory, and frees
\* only its own locks.
LEMMA EndType ==
    ASSUME TypeOK, JobFits, NEW c \in Calls, End(c)
    PROVE  /\ branchLock' \in Calls \cup {NoOne}
           /\ crewLock' \in [Drivers \cup Vehicles -> Calls \cup {NoOne}]
           /\ pc' \in [Calls -> Steps]
           /\ job' \in [Calls -> Jobs]
           /\ asOrder' \in [Calls -> OrdersRead]
           /\ asRoute' \in [Calls -> RoutesRead]
           /\ JobFits'
<1>1. /\ branchLock' \in Calls \cup {NoOne}
      /\ crewLock' \in [Drivers \cup Vehicles -> Calls \cup {NoOne}]
  BY DEF TypeOK, End, Unlock
<1>2. pc' \in [Calls -> Steps]
  BY DEF TypeOK, End, Steps
<1>3. /\ job' \in [Calls -> Jobs]
      /\ asOrder' \in [Calls -> OrdersRead]
      /\ asRoute' \in [Calls -> RoutesRead]
  BY NothingFits DEF TypeOK, End
<1>4. ASSUME NEW d \in Calls PROVE AtStep(d)' /\ Named(d)'
  <2>1. CASE d = c
    <3>1. job'[d] = NoJob /\ pc'[d] = "idle"
      BY <2>1 DEF End, TypeOK
    <3> QED BY <3>1, NothingFits DEF AtStep, Named, RouteSteps
  <2>2. CASE d # c
    <3>1. job'[d] = job[d] /\ pc'[d] = pc[d]
      BY <2>2 DEF End, TypeOK
    <3> QED BY <3>1 DEF JobFits, AtStep, Named
  <2> QED BY <2>1, <2>2
<1> QED BY <1>1, <1>2, <1>3, <1>4 DEF JobFits

\* A refused call writes no row.
LEMMA RefuseType ==
    ASSUME TypeOK, JobFits, NEW c \in Calls, Refuse(c)
    PROVE  TypeOK' /\ JobFits'
<1>1. End(c) /\ UNCHANGED rows
  BY DEF Refuse
<1> QED BY <1>1, EndType DEF TypeOK, rows

\* A query takes its call to another step and may note the trip it found and
\* what it read.
LEMMA MoveType ==
    ASSUME TypeOK, JobFits, NEW c \in Calls, NEW step \in Steps, Goto(c, step),
           UNCHANGED <<rows, branchLock, crewLock>>,
           NEW r \in Routes \cup {NoOne},
           job' = job \/ job' = [job EXCEPT ![c].route = r],
           asOrder' \in [Calls -> OrdersRead], asRoute' \in [Calls -> RoutesRead],
           AtStep(c)', Named(c)'
    PROVE  TypeOK' /\ JobFits'
<1>1. pc' \in [Calls -> Steps] /\ \A d \in Calls \ {c} : pc'[d] = pc[d]
  BY DEF Goto, TypeOK
<1>2. job' \in [Calls -> Jobs]
  <2>1. job[c] \in Jobs
    BY DEF TypeOK
  <2>2. ASSUME NEW j \in Jobs PROVE [j EXCEPT !.route = r] \in Jobs
    BY <2>2 DEF Jobs
  <2> QED BY <2>1, <2>2 DEF TypeOK
<1>3. \A d \in Calls \ {c} : job'[d] = job[d]
  BY DEF TypeOK
<1>4. JobFits'
  BY <1>1, <1>3 DEF JobFits, AtStep, Named
<1> QED BY <1>1, <1>2, <1>4 DEF TypeOK, rows

\* The stops a save writes.
LEMMA SavedStopsType ==
    ASSUME TypeOK, NEW c \in Calls, job[c].route \in Routes, NEW o, NEW s \in StopStatuses
    PROVE  SavedStops(c, o, s) \in [Orders -> StopStatuses]
<1>1. stops[job[c].route] \in [Orders -> StopStatuses]
  BY DEF TypeOK
<1>2. asRoute[c].stops \in [Orders -> StopStatuses]
  BY DEF TypeOK, RoutesRead
<1> QED BY <1>1, <1>2 DEF SavedStops

\* A request that arrives starts its use case at the first step of it.
LEMMA ArriveType ==
    ASSUME TypeOK, JobFits, NEW c \in Calls, Arrive(c)
    PROVE  TypeOK' /\ JobFits'
<1>1. ASSUME NEW j \in Jobs, NEW step \in Steps, Begin(c, j, step),
             \/ j.kind = "book" /\ step = "lock_branch" /\ j.order \in Orders
             \/ j.kind \in {"confirm", "cancel"} /\ step = "read_order" /\ j.order \in Orders
             \/ /\ j.kind = "assign" /\ step = "find_route" /\ j.order \in Orders
                /\ j.driver \in Drivers /\ j.vehicle \in Vehicles
             \/ /\ j.kind = "plan" /\ step = "lock_driver"
                /\ j.driver \in Drivers /\ j.vehicle \in Vehicles
             \/ j.kind = "close" /\ step = "read_route" /\ j.route \in Routes
      PROVE TypeOK' /\ JobFits'
  <2>1. /\ pc' \in [Calls -> Steps] /\ job' \in [Calls -> Jobs]
        /\ pc'[c] = step /\ job'[c] = j
        /\ \A d \in Calls \ {c} : pc'[d] = pc[d] /\ job'[d] = job[d]
    BY <1>1 DEF Begin, TypeOK
  <2>2. AtStep(c)' /\ Named(c)'
    BY <1>1, <2>1 DEF AtStep, Named, OpeningSteps, RouteSteps
  <2>3. JobFits'
    BY <2>1, <2>2 DEF JobFits, AtStep, Named
  <2> QED BY <1>1, <2>1, <2>3 DEF Begin, TypeOK, rows, locks, memory
<1>2. ASSUME NEW kind \in Kinds, NEW o \in Orders \cup {NoOne}, NEW d \in Drivers \cup {NoOne},
             NEW v \in Vehicles \cup {NoOne}, NEW r \in Routes \cup {NoOne}
      PROVE Asked(kind, o, d, v, r) \in Jobs
  BY DEF Asked, Jobs
<1>3. ASSUME NEW o \in Orders, BeginBook(c, o) \/ BeginConfirm(c, o) \/ BeginCancel(c, o)
      PROVE TypeOK' /\ JobFits'
  <2>1. CASE BeginBook(c, o)
    <3> DEFINE j == Asked("book", o, NoOne, NoOne, NoOne)
    <3>1. Begin(c, j, "lock_branch") /\ j.kind \in Kinds /\ "lock_branch" \in Steps
      BY <2>1 DEF BeginBook, Begin, Steps, OpeningSteps
    <3>2. j \in Jobs
      BY <3>1, <1>2 DEF Asked
    <3>3. j.kind = "book" /\ j.order = o
      BY DEF Asked
    <3> HIDE DEF j
    <3> QED BY <3>1, <3>2, <3>3, <1>1
  <2>2. CASE BeginConfirm(c, o)
    <3> DEFINE j == Asked("confirm", o, NoOne, NoOne, NoOne)
    <3>1. Begin(c, j, "read_order") /\ j.kind \in Kinds /\ "read_order" \in Steps
      BY <2>2 DEF BeginConfirm, Begin, Steps, OpeningSteps
    <3>2. j \in Jobs
      BY <3>1, <1>2 DEF Asked
    <3>3. j.kind = "confirm" /\ j.order = o
      BY DEF Asked
    <3> HIDE DEF j
    <3> QED BY <3>1, <3>2, <3>3, <1>1
  <2>3. CASE BeginCancel(c, o)
    <3> DEFINE j == Asked("cancel", o, NoOne, NoOne, NoOne)
    <3>1. Begin(c, j, "read_order") /\ j.kind \in Kinds /\ "read_order" \in Steps
      BY <2>3 DEF BeginCancel, Begin, Steps, OpeningSteps
    <3>2. j \in Jobs
      BY <3>1, <1>2 DEF Asked
    <3>3. j.kind = "cancel" /\ j.order = o
      BY DEF Asked
    <3> HIDE DEF j
    <3> QED BY <3>1, <3>2, <3>3, <1>1
  <2> QED BY <1>3, <2>1, <2>2, <2>3
<1>4. ASSUME NEW o \in Orders, NEW d \in Drivers, NEW v \in Vehicles, BeginAssign(c, o, d, v)
      PROVE TypeOK' /\ JobFits'
  <2> DEFINE j == Asked("assign", o, d, v, NoOne)
  <2>1. Begin(c, j, "find_route") /\ j.kind \in Kinds /\ "find_route" \in Steps
    BY <1>4 DEF BeginAssign, Begin, Steps, OpeningSteps
  <2>2. j \in Jobs
    BY <2>1, <1>2 DEF Asked
  <2>3. j.kind = "assign" /\ j.order = o /\ j.driver = d /\ j.vehicle = v
    BY DEF Asked
  <2> HIDE DEF j
  <2> QED BY <2>1, <2>2, <2>3, <1>1
<1>5. ASSUME NEW d \in Drivers, NEW v \in Vehicles, BeginPlan(c, d, v) PROVE TypeOK' /\ JobFits'
  <2> DEFINE j == Asked("plan", NoOne, d, v, NoOne)
  <2>1. Begin(c, j, "lock_driver") /\ j.kind \in Kinds /\ "lock_driver" \in Steps
    BY <1>5 DEF BeginPlan, Begin, Steps, OpeningSteps
  <2>2. j \in Jobs
    BY <2>1, <1>2 DEF Asked
  <2>3. j.kind = "plan" /\ j.driver = d /\ j.vehicle = v
    BY DEF Asked
  <2> HIDE DEF j
  <2> QED BY <2>1, <2>2, <2>3, <1>1
<1>6. ASSUME NEW r \in Routes, BeginClose(c, r) PROVE TypeOK' /\ JobFits'
  <2> DEFINE j == Asked("close", NoOne, NoOne, NoOne, r)
  <2>1. Begin(c, j, "read_route") /\ j.kind \in Kinds /\ "read_route" \in Steps
    BY <1>6 DEF BeginClose, Begin, Steps, OpeningSteps
  <2>2. j \in Jobs
    BY <2>1, <1>2 DEF Asked
  <2>3. j.kind = "close" /\ j.route = r
    BY DEF Asked
  <2> HIDE DEF j
  <2> QED BY <2>1, <2>2, <2>3, <1>1
<1> QED BY <1>3, <1>4, <1>5, <1>6 DEF Arrive

\* A query takes its call to a step of the same use case.
LEMMA QueryType ==
    ASSUME TypeOK, JobFits, NEW c \in Calls, Query(c)
    PROVE  TypeOK' /\ JobFits'
<1> DEFINE Goal == TypeOK' /\ JobFits'
<1>0. /\ asOrder \in [Calls -> OrdersRead] /\ asRoute \in [Calls -> RoutesRead]
      /\ job[c] \in Jobs /\ pc \in [Calls -> Steps]
  BY DEF TypeOK
<1>1. ASSUME NEW step \in Steps, Goto(c, step), UNCHANGED <<rows, locks, job, asOrder, asRoute>>,
             AtStep(c)', Named(c)'
      PROVE Goal
  BY <1>0, <1>1, MoveType DEF locks
<1>2. ASSUME NEW r \in Routes \cup {NoOne}, job' = [job EXCEPT ![c].route = r]
      PROVE job'[c] = [job[c] EXCEPT !.route = r] /\ job'[c].route = r
  <2>1. job'[c] = [job[c] EXCEPT !.route = r]
    BY <1>2 DEF TypeOK
  <2> QED BY <1>0, <2>1 DEF Jobs
<1> USE DEF AtStep, Named, Steps, BookingSteps, OpeningSteps, RouteSteps
<1>3. AtStep(c) /\ Named(c)
  BY DEF JobFits
<1>4. CASE ReadOrder(c)
  <2> DEFINE o == job[c].order
             read == [status |-> status[o], trip |-> tripOf[o]]
  <2>1. o \in Orders
    BY <1>3, <1>4 DEF ReadOrder
  <2>2. read \in OrdersRead
    BY <2>1 DEF TypeOK, OrdersRead
  <2>3. /\ asOrder' \in [Calls -> OrdersRead] /\ UNCHANGED <<rows, locks, asRoute>>
        /\ asRoute' \in [Calls -> RoutesRead]
    BY <1>0, <1>4, <2>2 DEF ReadOrder
  <2>4. CASE job[c].kind = "confirm" /\ Goto(c, "lock_branch") /\ UNCHANGED job
    <3>1. AtStep(c)' /\ Named(c)'
      BY <1>0, <1>3, <2>4 DEF Goto
    <3> QED BY <2>3, <2>4, <3>1, MoveType DEF locks
  <2>5. CASE job[c].kind = "assign" /\ Goto(c, "count") /\ UNCHANGED job
    <3>1. AtStep(c)' /\ Named(c)'
      BY <1>0, <1>3, <1>4, <2>5 DEF Goto, ReadOrder
    <3> QED BY <2>3, <2>5, <3>1, MoveType DEF locks
  <2>6. CASE /\ job[c].kind = "cancel" /\ OnTrip(c, tripOf[o])
             /\ Goto(c, IF tripOf[o] = NoOne THEN "save_cancel" ELSE "read_van")
    <3> DEFINE r == tripOf[o]
               step == IF r = NoOne THEN "save_cancel" ELSE "read_van"
    <3>1. r \in Routes \cup {NoOne}
      BY <2>1 DEF TypeOK
    <3>2. job'[c] = [job[c] EXCEPT !.route = r] /\ job'[c].route = r
      BY <1>2, <2>6, <3>1 DEF OnTrip
    <3>3. job'[c].kind = "cancel" /\ job'[c].order = job[c].order
      BY <1>0, <2>6, <3>2 DEF Jobs
    <3>4. pc'[c] = step /\ step \in Steps
      BY <1>0, <2>6 DEF Goto
    <3>5. AtStep(c)' /\ Named(c)'
      BY <2>1, <3>1, <3>2, <3>3, <3>4
    <3> HIDE DEF o, r, step
    <3> QED BY <2>3, <2>6, <3>1, <3>4, <3>5, MoveType DEF locks, OnTrip, o, r, step
  <2> QED BY <1>4, <2>4, <2>5, <2>6 DEF ReadOrder
<1>5. CASE ReadRoute(c)
  <2> DEFINE r == job[c].route
             read == [status |-> IF routeStatus[r] = "none" THEN "planned" ELSE routeStatus[r],
                      stops |-> stops[r]]
  <2>1. r \in Routes /\ job[c].kind \in {"assign", "cancel", "close"}
    BY <1>3, <1>5 DEF ReadRoute
  <2>2. read \in RoutesRead
    BY <2>1 DEF TypeOK, RoutesRead, RouteStatuses
  <2>3. /\ asRoute' \in [Calls -> RoutesRead] /\ UNCHANGED <<rows, locks, job, asOrder>>
        /\ asOrder' \in [Calls -> OrdersRead]
    BY <1>0, <1>5, <2>2 DEF ReadRoute
  <2> DEFINE step == [assign |-> "read_order", cancel |-> "save_cancel",
                      close |-> "save_close"][job[c].kind]
  <2>4. /\ job[c].kind = "assign" => step = "read_order"
        /\ job[c].kind = "cancel" => step = "save_cancel"
        /\ job[c].kind = "close" => step = "save_close"
    OBVIOUS
  <2>5. Goto(c, step)
    BY <1>5 DEF ReadRoute
  <2>6. pc[c] = "read_route"
    BY <1>5 DEF ReadRoute
  <2> HIDE DEF step
  <2>7. step \in Steps /\ AtStep(c)' /\ Named(c)'
    BY <1>0, <1>3, <2>1, <2>3, <2>4, <2>5, <2>6 DEF Goto
  <2> QED BY <2>3, <2>5, <2>7, MoveType DEF locks
<1>6. CASE ReadStock(c)
  BY <1>0, <1>1, <1>3, <1>6 DEF ReadStock, Goto
<1>7. CASE ReadDemand(c)
  BY <1>0, <1>1, <1>3, <1>7, RefuseType DEF ReadDemand, Goto, memory
<1>8. CASE FindRoute(c)
  <2>1. CASE Goto(c, "lock_driver") /\ UNCHANGED job
    BY <1>0, <1>1, <1>3, <1>8, <2>1 DEF FindRoute, Goto, memory
  <2>2. ASSUME NEW r \in Routes, OnTrip(c, r), Goto(c, "read_route") PROVE Goal
    <3>1. job'[c] = [job[c] EXCEPT !.route = r] /\ job'[c].route = r
      BY <1>2, <2>2 DEF OnTrip
    <3>2. AtStep(c)' /\ Named(c)'
      BY <1>0, <1>3, <1>8, <2>2, <3>1 DEF FindRoute, Goto, Jobs
    <3> QED BY <1>0, <1>8, <2>2, <3>2, MoveType DEF FindRoute, OnTrip, locks, memory
  <2> QED BY <1>8, <2>1, <2>2 DEF FindRoute
<1>9. CASE CheckDriver(c)
  BY <1>0, <1>1, <1>3, <1>9, RefuseType DEF CheckDriver, Goto, memory
<1>10. CASE CheckVehicle(c)
  <2> DEFINE next == IF job[c].kind = "plan" THEN "save_route" ELSE "read_route"
  <2>1. ASSUME NEW r \in Routes, OnTrip(c, r), pc[c] = "check_vehicle", Goto(c, next),
               UNCHANGED <<rows, locks, memory>>
        PROVE Goal
    <3>1. job'[c] = [job[c] EXCEPT !.route = r] /\ job'[c].route = r
      BY <1>2, <2>1 DEF OnTrip
    <3>2. AtStep(c)' /\ Named(c)' /\ next \in Steps
      BY <1>0, <1>3, <2>1, <3>1 DEF Goto, Jobs
    <3> HIDE DEF next
    <3> QED BY <1>0, <2>1, <3>2, MoveType DEF OnTrip, locks, memory
  <2> QED BY <1>10, <2>1, RefuseType DEF CheckVehicle
<1>11. CASE CountRoutes(c)
  BY <1>0, <1>1, <1>3, <1>11, RefuseType DEF CountRoutes, Goto, memory
<1>12. CASE ReadVan(c)
  <2>1. job[c].kind \in {"assign", "cancel"} /\ job[c].route \in Routes
    BY <1>3, <1>12 DEF ReadVan
  <2> QED BY <1>0, <1>1, <1>3, <1>12, <2>1 DEF ReadVan, Goto
<1> QED BY <1>4, <1>5, <1>6, <1>7, <1>8, <1>9, <1>10, <1>11, <1>12 DEF Query

\* A commit writes an order, the stops of a trip, and one trip's status: the
\* first status of a trip only after both checks of its crew.
SaveKeepsRoutes == UNCHANGED <<routeStatus, driverOf, vehicleOf>>
SaveOpens(c) ==
    /\ WillOpen(c)
    /\ job[c].route \in Routes
    /\ OpenRoute(job[c].route, job[c].driver, job[c].vehicle)
SaveRewrites(c) ==
    /\ \E r \in Routes, s \in RouteStatuses \ {"none"} :
          /\ routeStatus[r] # "none"
          /\ routeStatus' = [routeStatus EXCEPT ![r] = s]
          /\ s = "cancelled" => job[c].kind = "close" \/ asRoute[c].status = "cancelled"
    /\ UNCHANGED <<driverOf, vehicleOf>>

\* Every commit ends its call and does one of the three to the trips.
LEMMA SaveRoutes ==
    ASSUME TypeOK, JobFits, Opened, CancelledAgree, NEW c \in Calls, Save(c)
    PROVE  End(c) /\ (SaveKeepsRoutes \/ SaveOpens(c) \/ SaveRewrites(c))
<1> USE DEF SaveKeepsRoutes, SaveOpens, SaveRewrites
<1>1. AtStep(c) /\ Named(c)
  BY DEF JobFits
<1>2. CASE Refuse(c)
  BY <1>2 DEF Refuse, rows
<1>3. CASE Sell(c)
  BY <1>2, <1>3 DEF Sell
<1>4. CASE SaveRoute(c)
  BY <1>1, <1>4 DEF SaveRoute, WillOpen, AtStep, Named, RouteSteps, OpeningSteps, BookingSteps
<1>5. CASE SaveAssign(c) /\ ~Refuse(c)
  <2> DEFINE r == job[c].route
  <2>1. /\ job[c].kind = "assign" /\ r \in Routes /\ pc[c] = "save_assign"
        /\ asRoute[c].status = "planned"
    BY <1>1, <1>5 DEF SaveAssign, AtStep, Named, RouteSteps, OpeningSteps, BookingSteps
  <2>2. CASE routeStatus[r] = "none" /\ OpenRoute(r, job[c].driver, job[c].vehicle)
    BY <1>5, <2>1, <2>2 DEF SaveAssign, WillOpen, RouteSteps
  <2>3. CASE /\ routeStatus[r] # "none"
             /\ routeStatus' = [routeStatus EXCEPT ![r] = "planned"]
             /\ UNCHANGED <<driverOf, vehicleOf>>
    <3> HIDE DEF r
    <3> "planned" \in RouteStatuses \ {"none"}
      BY DEF RouteStatuses
    <3> QED BY <1>5, <2>1, <2>3 DEF SaveAssign
  <2> QED BY <1>5, <2>1, <2>2, <2>3 DEF SaveAssign
<1>6. CASE SaveCancel(c) /\ ~Refuse(c)
  <2> DEFINE r == job[c].route
  <2>1. CASE r = NoOne
    BY <1>6, <2>1 DEF SaveCancel
  <2>2. CASE r # NoOne
    <3>1. job[c].kind = "cancel" /\ HasRoute(c) /\ r \in Routes
      <4>1. job[c] \in Jobs
        BY DEF TypeOK
      <4> QED BY <1>1, <1>6, <2>2, <4>1 DEF SaveCancel, AtStep, HasRoute, Jobs, RouteSteps,
                                            OpeningSteps, BookingSteps
    <3>2. routeStatus[r] # "none" /\ asRoute[c].status \in RouteStatuses \ {"none"}
      BY <2>2, <3>1 DEF Opened, CancelledAgree, TypeOK, RoutesRead
    <3>3. /\ routeStatus' = [routeStatus EXCEPT ![r] = asRoute[c].status]
          /\ UNCHANGED <<driverOf, vehicleOf>> /\ End(c)
      BY <1>6, <2>2 DEF SaveCancel
    <3> QED BY <3>1, <3>2, <3>3
  <2> QED BY <2>1, <2>2
<1>7. CASE SaveClose(c) /\ ~Refuse(c)
  <2> DEFINE r == job[c].route
  <2>1. job[c].kind = "close" /\ r \in Routes
    BY <1>1, <1>7 DEF SaveClose, AtStep, Named, RouteSteps, OpeningSteps, BookingSteps
  <2>2. r # NoOne /\ routeStatus[r] # "none"
    BY <2>1, NamesAssumption DEF Opened
  <2>3. routeStatus' = [routeStatus EXCEPT ![r] = "cancelled"]
        /\ UNCHANGED <<driverOf, vehicleOf>> /\ End(c)
    BY <1>7 DEF SaveClose
  <2>4. "cancelled" \in RouteStatuses \ {"none"}
    BY DEF RouteStatuses
  <2> HIDE DEF r
  <2> QED BY <2>1, <2>2, <2>3, <2>4
<1> QED BY <1>2, <1>3, <1>4, <1>5, <1>6, <1>7 DEF Save

\* A commit writes rows of the right types.
LEMMA SaveType ==
    ASSUME TypeOK, JobFits, Opened, CancelledAgree, NEW c \in Calls, Save(c)
    PROVE  TypeOK' /\ JobFits'
<1>1. /\ branchLock' \in Calls \cup {NoOne}
      /\ crewLock' \in [Drivers \cup Vehicles -> Calls \cup {NoOne}]
      /\ pc' \in [Calls -> Steps]
      /\ job' \in [Calls -> Jobs]
      /\ asOrder' \in [Calls -> OrdersRead]
      /\ asRoute' \in [Calls -> RoutesRead]
      /\ JobFits'
  BY SaveRoutes, EndType
<1>2. /\ routeStatus' \in [Routes -> RouteStatuses]
      /\ driverOf' \in [Routes -> Drivers \cup {NoOne}]
      /\ vehicleOf' \in [Routes -> Vehicles \cup {NoOne}]
  <2>1. job[c].driver \in Drivers \cup {NoOne} /\ job[c].vehicle \in Vehicles \cup {NoOne}
    BY DEF TypeOK, Jobs
  <2>2. "planned" \in RouteStatuses
    BY DEF RouteStatuses
  <2>3. CASE SaveKeepsRoutes
    BY <2>3 DEF TypeOK, SaveKeepsRoutes
  <2>4. CASE SaveOpens(c)
    BY <2>1, <2>2, <2>4 DEF TypeOK, SaveOpens, OpenRoute
  <2>5. CASE SaveRewrites(c)
    BY <2>5 DEF TypeOK, SaveRewrites
  <2> QED BY <2>3, <2>4, <2>5, SaveRoutes
<1>3. ASSUME NEW s \in Statuses, NEW r \in Routes \cup {NoOne}, NEW p, WriteOrder(c, s, r, p)
      PROVE status' \in [Orders -> Statuses] /\ tripOf' \in [Orders -> Routes \cup {NoOne}]
  BY <1>3 DEF WriteOrder, TypeOK
<1>4. ASSUME job[c].route \in Routes, NEW o, NEW s \in StopStatuses,
             stops' = [stops EXCEPT ![job[c].route] = SavedStops(c, o, s)]
      PROVE stops' \in [Routes -> [Orders -> StopStatuses]]
  BY <1>4, SavedStopsType DEF TypeOK
<1>5. /\ {"booked", "confirmed", "assigned", "cancelled"} \subseteq Statuses
      /\ {"none", "pending", "cancelled"} \subseteq StopStatuses
      /\ asOrder[c].trip \in Routes \cup {NoOne}
  BY DEF Statuses, StopStatuses, TypeOK, OrdersRead
<1>6. /\ status' \in [Orders -> Statuses] /\ tripOf' \in [Orders -> Routes \cup {NoOne}]
      /\ stops' \in [Routes -> [Orders -> StopStatuses]]
  <2>1. CASE Refuse(c)
    BY <2>1 DEF Refuse, rows, TypeOK
  <2>2. CASE Sell(c)
    <3>1. CASE WriteOrder(c, "booked", NoOne, 0) /\ UNCHANGED stops
      BY <1>3, <1>5, <3>1 DEF TypeOK
    <3>2. CASE WriteOrder(c, "confirmed", asOrder[c].trip, figures[c].pending)
               /\ UNCHANGED stops
      BY <1>3, <1>5, <3>2 DEF TypeOK
    <3> QED BY <2>1, <2>2, <3>1, <3>2 DEF Sell
  <2>3. CASE SaveRoute(c)
    BY <2>3 DEF SaveRoute, TypeOK
  <2>4. CASE SaveAssign(c) /\ ~Refuse(c)
    <3>1. job[c].route \in Routes
      BY <2>4 DEF SaveAssign, JobFits, Named, AtStep, RouteSteps, BookingSteps, OpeningSteps
    <3>2. \E p : WriteOrder(c, "assigned", job[c].route, p)
      BY <2>4 DEF SaveAssign
    <3>3. stops' = [stops EXCEPT ![job[c].route] = SavedStops(c, job[c].order, "pending")]
      BY <2>4 DEF SaveAssign
    <3> QED BY <1>3, <1>4, <1>5, <3>1, <3>2, <3>3
  <2>5. CASE SaveCancel(c) /\ ~Refuse(c)
    <3>1. WriteOrder(c, "cancelled", asOrder[c].trip, figures[c].pending)
      BY <2>5 DEF SaveCancel, CancelOrder
    <3>2. CASE UNCHANGED stops
      BY <1>3, <1>5, <3>1, <3>2 DEF TypeOK
    <3>3. CASE job[c].route # NoOne
      <4>1. job[c].route \in Routes
        BY <3>3 DEF TypeOK, Jobs
      <4>2. stops' = [stops EXCEPT ![job[c].route] = SavedStops(c, job[c].order, "cancelled")]
        BY <2>5, <3>3 DEF SaveCancel
      <4> QED BY <1>3, <1>4, <1>5, <3>1, <4>1, <4>2
    <3> QED BY <2>5, <3>2, <3>3 DEF SaveCancel
  <2>6. CASE SaveClose(c) /\ ~Refuse(c)
    <3>1. job[c].route \in Routes
      BY <2>6 DEF SaveClose, JobFits, Named
    <3>2. /\ UNCHANGED <<status, tripOf>>
          /\ stops' = [stops EXCEPT ![job[c].route] = SavedStops(c, NoOne, "none")]
      BY <2>6 DEF SaveClose
    <3> QED BY <1>4, <1>5, <3>1, <3>2 DEF TypeOK
  <2> QED BY <2>1, <2>2, <2>3, <2>4, <2>5, <2>6 DEF Save
<1> QED BY <1>1, <1>2, <1>6 DEF TypeOK

\* Types are kept, and every call stays at a step of its use case.
LEMMA TypeStep ==
    ASSUME TypeOK, JobFits, Opened, CancelledAgree, [Next]_vars
    PROVE  TypeOK' /\ JobFits'
<1>1. ASSUME NEW c \in Calls, Acquire(c) PROVE TypeOK' /\ JobFits'
  <2> USE DEF JobFits, AtStep, Named, Steps, BookingSteps, OpeningSteps, RouteSteps
  <2>1. CASE EnterBooking(c)
    BY <2>1 DEF EnterBooking, LockBranch, Goto, TypeOK, rows, memory
  <2>2. CASE LockDriver(c)
    BY <2>2 DEF LockDriver, LockCrew, Goto, TypeOK, rows, memory
  <2>3. CASE LockVehicle(c)
    BY <2>3 DEF LockVehicle, LockCrew, Goto, TypeOK, rows, memory
  <2> QED BY <1>1, <2>1, <2>2, <2>3 DEF Acquire
<1>2. CASE UNCHANGED vars
  BY <1>2 DEF vars, TypeOK, JobFits, AtStep, Named, rows, locks, memory
<1> QED BY <1>1, <1>2, ArriveType, QueryType, SaveType DEF Next
-----------------------------------------------------------------------------
(* What a step of one call does to the others *)

Moves(c) == Arrive(c) \/ Acquire(c) \/ Query(c) \/ Save(c)

\* A step of one call leaves where the others are and what they have read.
LEMMA OthersStay ==
    ASSUME TypeOK, NEW c \in Calls, Moves(c), NEW d \in Calls \ {c}
    PROVE  /\ pc'[d] = pc[d] /\ job'[d] = job[d]
           /\ asOrder'[d] = asOrder[d] /\ asRoute'[d] = asRoute[d]
<1> USE DEF TypeOK, memory
<1> DEFINE Stay == /\ pc'[d] = pc[d] /\ job'[d] = job[d]
                   /\ asOrder'[d] = asOrder[d] /\ asRoute'[d] = asRoute[d]
<1>1. CASE Arrive(c)
  BY <1>1 DEF Arrive, BeginBook, BeginConfirm, BeginCancel, BeginAssign, BeginPlan, BeginClose,
              Begin
<1>2. CASE Acquire(c)
  BY <1>2 DEF Acquire, EnterBooking, LockDriver, LockVehicle, Goto
<1>3. ASSUME End(c) PROVE Stay
  BY <1>3 DEF End
<1>4. CASE Query(c)
  BY <1>3, <1>4 DEF Query, ReadOrder, ReadRoute, ReadStock, ReadDemand, FindRoute, CheckDriver,
                    CheckVehicle, CountRoutes, ReadVan, Goto, OnTrip, Refuse
<1>5. CASE Save(c)
  BY <1>3, <1>5 DEF Save, Sell, SaveRoute, SaveAssign, SaveCancel, SaveClose, Refuse
<1> QED BY <1>1, <1>2, <1>4, <1>5 DEF Moves

\* A step of one call takes no lock from another.
LEMMA OthersKeepLocks ==
    ASSUME TypeOK, NEW c \in Calls, Moves(c), NEW d \in Calls \ {c}
    PROVE  /\ branchLock = d => branchLock' = d
           /\ \A x \in Drivers \cup Vehicles : crewLock[x] = d => crewLock'[x] = d
<1> DEFINE Kept == /\ branchLock = d => branchLock' = d
                   /\ \A x \in Drivers \cup Vehicles : crewLock[x] = d => crewLock'[x] = d
<1>1. ASSUME UNCHANGED locks PROVE Kept
  BY <1>1 DEF locks
<1>2. ASSUME End(c) PROVE Kept
  BY <1>2 DEF End, Unlock
<1>3. CASE Arrive(c)
  BY <1>1, <1>3 DEF Arrive, BeginBook, BeginConfirm, BeginCancel, BeginAssign, BeginPlan,
                    BeginClose, Begin
<1>4. CASE Acquire(c)
  <2>1. CASE EnterBooking(c)
    BY <2>1, NamesAssumption DEF EnterBooking, LockBranch
  <2>2. ASSUME NEW x \in Drivers \cup Vehicles, LockCrew(c, x) PROVE Kept
    BY <2>2, NamesAssumption DEF LockCrew, TypeOK
  <2>3. ASSUME NEW x, x \notin Drivers \cup Vehicles, LockCrew(c, x) PROVE Kept
    BY <2>3 DEF LockCrew, TypeOK
  <2> QED BY <1>4, <2>1, <2>2, <2>3 DEF Acquire, LockDriver, LockVehicle
<1>5. CASE Query(c)
  BY <1>1, <1>2, <1>5 DEF Query, ReadOrder, ReadRoute, ReadStock, ReadDemand, FindRoute,
                          CheckDriver, CheckVehicle, CountRoutes, ReadVan, Refuse
<1>6. CASE Save(c)
  BY <1>2, <1>6 DEF Save, Sell, SaveRoute, SaveAssign, SaveCancel, SaveClose, Refuse
<1> QED BY <1>3, <1>4, <1>5, <1>6 DEF Moves

\* Rows change when a call commits, and at no other step of it.
LEMMA OnlySavesWrite ==
    ASSUME NEW c \in Calls, Arrive(c) \/ Acquire(c) \/ Query(c)
    PROVE  UNCHANGED rows
<1>1. CASE Arrive(c)
  BY <1>1 DEF Arrive, BeginBook, BeginConfirm, BeginCancel, BeginAssign, BeginPlan, BeginClose,
              Begin
<1>2. CASE Acquire(c)
  BY <1>2 DEF Acquire, EnterBooking, LockDriver, LockVehicle
<1>3. CASE Query(c)
  BY <1>3 DEF Query, ReadOrder, ReadRoute, ReadStock, ReadDemand, FindRoute, CheckDriver,
              CheckVehicle, CountRoutes, ReadVan, Refuse
<1> QED BY <1>1, <1>2, <1>3

\* A trip that has been opened stays in the table.
LEMMA StaysOpened ==
    ASSUME TypeOK, JobFits, Opened, CancelledAgree, NEW c \in Calls, Moves(c), NEW r,
           routeStatus[r] # "none", r \in Routes
    PROVE  routeStatus'[r] # "none"
<1>1. CASE UNCHANGED routeStatus
  BY <1>1
<1>2. CASE Save(c)
  BY <1>2, SaveRoutes DEF SaveKeepsRoutes, SaveOpens, SaveRewrites, OpenRoute, TypeOK
<1> QED BY <1>1, <1>2, OnlySavesWrite DEF Moves, rows

\* Queries other than those of the order and of the trip leave both as they are
\* in memory, and only a call without a trip in memory turns to another one.
LEMMA KeepsMemory ==
    ASSUME TypeOK, JobFits, NEW c \in Calls, Acquire(c) \/ Query(c),
           ~Refuse(c), ~ReadOrder(c), ~ReadRoute(c)
    PROVE  /\ UNCHANGED <<asOrder, asRoute>>
           /\ HasRoute(c)' = HasRoute(c)
           /\ job'[c].kind = job[c].kind
           /\ \/ job'[c].route = job[c].route
              \/ job[c].kind \in {"assign", "plan"} /\ ~HasRoute(c)
<1> DEFINE Kept == /\ UNCHANGED <<asOrder, asRoute>>
                   /\ HasRoute(c)' = HasRoute(c)
                   /\ job'[c].kind = job[c].kind
                   /\ \/ job'[c].route = job[c].route
                      \/ job[c].kind \in {"assign", "plan"} /\ ~HasRoute(c)
<1>1. AtStep(c) /\ pc[c] \in Steps /\ job[c] \in Jobs
  BY DEF JobFits, TypeOK
<1> USE DEF HasRoute, AtStep, Goto, TypeOK, memory, RouteSteps, OpeningSteps, BookingSteps
<1>2. CASE EnterBooking(c)
  BY <1>1, <1>2 DEF EnterBooking
<1>3. CASE LockDriver(c)
  BY <1>1, <1>3 DEF LockDriver
<1>4. CASE LockVehicle(c)
  BY <1>1, <1>4 DEF LockVehicle
<1>5. CASE ReadStock(c) \/ ReadDemand(c)
  BY <1>1, <1>5 DEF ReadStock, ReadDemand
<1>6. ASSUME NEW r, job' = [job EXCEPT ![c].route = r] PROVE job'[c].kind = job[c].kind
  <2>1. job'[c] = [job[c] EXCEPT !.route = r]
    BY <1>6
  <2> QED BY <1>1, <2>1 DEF Jobs
<1>7. CASE FindRoute(c)
  BY <1>1, <1>6, <1>7 DEF FindRoute, OnTrip
<1>8. CASE CheckDriver(c)
  BY <1>1, <1>8 DEF CheckDriver
<1>9. CASE CheckVehicle(c)
  BY <1>1, <1>6, <1>9 DEF CheckVehicle, OnTrip
<1>10. CASE CountRoutes(c)
  BY <1>1, <1>10 DEF CountRoutes
<1>11. CASE ReadVan(c)
  BY <1>1, <1>11 DEF ReadVan
<1> QED BY <1>2, <1>3, <1>4, <1>5, <1>7, <1>8, <1>9, <1>10, <1>11 DEF Acquire, Query

\* Orders and calls go on naming trips that have been opened.
LEMMA OpenedStep ==
    ASSUME TypeOK, JobFits, Opened, CancelledAgree, [Next]_vars
    PROVE  Opened'
<1> DEFINE Kept(d) == /\ asOrder[d].trip # NoOne => routeStatus[asOrder[d].trip] # "none"
                      /\ job[d].kind \in {"cancel", "close"} /\ job[d].route # NoOne =>
                            routeStatus[job[d].route] # "none"
           Row(o) == tripOf[o] # NoOne => routeStatus[tripOf[o]] # "none"
<1>0. /\ \A o \in Orders : tripOf[o] \in Routes \cup {NoOne}
      /\ \A d \in Calls : asOrder[d].trip \in Routes \cup {NoOne}
                          /\ job[d].route \in Routes \cup {NoOne}
  BY DEF TypeOK, OrdersRead, Jobs
<1>1. ASSUME NEW c \in Calls, Moves(c), NEW d \in Calls \ {c} PROVE Kept(d)'
  BY <1>0, <1>1, OthersStay, StaysOpened DEF Opened
<1>2. ASSUME NEW c \in Calls, Moves(c) PROVE Kept(c)'
  <2>1. ASSUME End(c) PROVE Kept(c)'
    BY <2>1, NothingFits DEF End, TypeOK
  <2>2. CASE Arrive(c)
    <3>1. routeStatus' = routeStatus /\ asOrder' = asOrder
      BY <2>2 DEF Arrive, BeginBook, BeginConfirm, BeginCancel, BeginAssign, BeginPlan,
                  BeginClose, Begin, rows, memory
    <3>2. \/ job'[c].kind # "close" /\ job'[c].route = NoOne
          \/ \E r \in Routes : routeStatus[r] # "none" /\ job'[c].route = r
      BY <2>2 DEF Arrive, BeginBook, BeginConfirm, BeginCancel, BeginAssign, BeginPlan,
                  BeginClose, Begin, Asked, TypeOK
    <3> QED BY <3>1, <3>2 DEF Opened
  <2>3. CASE Save(c)
    BY <2>1, <2>3, SaveRoutes
  <2>4. CASE Acquire(c) \/ Query(c)
    <3>0. UNCHANGED rows
      BY <2>4, OnlySavesWrite
    <3>1. CASE Refuse(c)
      BY <2>1, <3>1 DEF Refuse
    <3>2. CASE ReadOrder(c)
      <4>1. asOrder'[c].trip = tripOf[job[c].order] /\ job[c].order \in Orders
        BY <3>2 DEF ReadOrder, TypeOK, JobFits, AtStep, Named, BookingSteps, OpeningSteps,
                    RouteSteps
      <4>2. \/ job'[c] = job[c]
            \/ job'[c].route = tripOf[job[c].order]
        <5>1. job[c] \in Jobs
          BY DEF TypeOK
        <5>2. ASSUME OnTrip(c, tripOf[job[c].order])
              PROVE job'[c].route = tripOf[job[c].order]
          <6>1. job'[c] = [job[c] EXCEPT !.route = tripOf[job[c].order]]
            BY <5>2 DEF OnTrip, TypeOK
          <6> QED BY <5>1, <6>1 DEF Jobs
        <5> QED BY <3>2, <5>2 DEF ReadOrder
      <4> QED BY <3>0, <4>1, <4>2 DEF Opened, rows
    <3>3. CASE ReadRoute(c)
      BY <3>0, <3>3 DEF ReadRoute, Opened, rows
    <3>4. CASE ~Refuse(c) /\ ~ReadOrder(c) /\ ~ReadRoute(c)
      BY <2>4, <3>0, <3>4, KeepsMemory DEF Opened, rows
    <3> QED BY <3>1, <3>2, <3>3, <3>4
  <2> QED BY <1>2, <2>2, <2>3, <2>4 DEF Moves
<1>3. ASSUME NEW c \in Calls, Moves(c), NEW o \in Orders PROVE Row(o)'
  <2>1. CASE tripOf'[o] = tripOf[o]
    BY <1>0, <1>3, <2>1, StaysOpened DEF Opened
  <2>2. ASSUME NEW s, NEW p, NEW r \in Routes \cup {NoOne}, WriteOrder(c, s, r, p),
               r # NoOne => routeStatus'[r] # "none"
        PROVE Row(o)'
    BY <2>1, <2>2 DEF WriteOrder, TypeOK
  <2>3. asOrder[c].trip # NoOne => routeStatus'[asOrder[c].trip] # "none"
    BY <1>0, <1>3, StaysOpened DEF Opened
  <2>4. CASE Save(c)
    <3>1. CASE UNCHANGED tripOf
      BY <2>1, <3>1
    <3>2. CASE Sell(c) \/ SaveCancel(c)
      BY <1>0, <2>2, <2>3, <3>1, <3>2 DEF Sell, SaveCancel, CancelOrder, Refuse, rows
    <3>3. CASE SaveAssign(c)
      <4>1. job[c].route \in Routes
        BY <3>3 DEF SaveAssign, JobFits, Named, AtStep, RouteSteps, BookingSteps, OpeningSteps
      <4>2. CASE ~Refuse(c)
        <5>1. routeStatus'[job[c].route] # "none"
          BY <3>3, <4>1, <4>2 DEF SaveAssign, OpenRoute, TypeOK
        <5> QED BY <2>2, <3>3, <4>1, <4>2, <5>1 DEF SaveAssign
      <4> QED BY <3>1, <4>2 DEF Refuse, rows
    <3> QED BY <2>4, <3>1, <3>2, <3>3 DEF Save, SaveRoute, SaveClose, Refuse, rows
  <2> QED BY <1>3, <2>1, <2>4, OnlySavesWrite DEF Moves, rows
<1>4. CASE UNCHANGED vars
  BY <1>4 DEF vars, rows, memory, Opened
<1> QED BY <1>1, <1>2, <1>3, <1>4 DEF Next, Moves, Opened
-----------------------------------------------------------------------------
(* Orders and their stops *)

\* What a commit does to the orders and to the stops: nothing; the order of a
\* booking or a confirmation; or the stops of one trip and, for an assignment or
\* a cancellation, its order.
SaveSells(c) ==
    /\ \E s \in {"booked", "confirmed"} : \E r, p : WriteOrder(c, s, r, p)
    /\ UNCHANGED stops
SaveAssigns(c) ==
    /\ asRoute[c].stops[job[c].order] = "none" /\ stops[job[c].route][job[c].order] = "none"
    /\ \E p : WriteOrder(c, "assigned", job[c].route, p)
SaveCancels(c) == \E r, p : WriteOrder(c, "cancelled", r, p)
SaveStops(c, o, s) ==
    /\ HasRoute(c) /\ job[c].route \in Routes
    /\ stops' = [stops EXCEPT ![job[c].route] = SavedStops(c, o, s)]
    /\ IndexAllows(job[c].route, SavedStops(c, o, s))

\* Every commit does one of the five to the orders and the stops.
LEMMA SaveOrders ==
    ASSUME TypeOK, JobFits, NEW c \in Calls, Save(c)
    PROVE  \/ UNCHANGED <<status, tripOf, stops>>
           \/ job[c].order \in Orders /\ SaveSells(c)
           \/ /\ job[c].order \in Orders
              /\ SaveAssigns(c) /\ SaveStops(c, job[c].order, "pending")
           \/ /\ job[c].order \in Orders /\ SaveCancels(c)
              /\ UNCHANGED stops \/ SaveStops(c, job[c].order, "cancelled")
           \/ UNCHANGED <<status, tripOf>> /\ SaveStops(c, NoOne, "none")
<1> DEFINE Goal ==
           \/ UNCHANGED <<status, tripOf, stops>>
           \/ job[c].order \in Orders /\ SaveSells(c)
           \/ /\ job[c].order \in Orders
              /\ SaveAssigns(c) /\ SaveStops(c, job[c].order, "pending")
           \/ /\ job[c].order \in Orders /\ SaveCancels(c)
              /\ UNCHANGED stops \/ SaveStops(c, job[c].order, "cancelled")
           \/ UNCHANGED <<status, tripOf>> /\ SaveStops(c, NoOne, "none")
<1>1. AtStep(c) /\ Named(c) /\ job[c] \in Jobs
  BY DEF JobFits, TypeOK
<1> USE DEF AtStep, Named, RouteSteps, OpeningSteps, BookingSteps
<1>2. CASE Refuse(c)
  BY <1>2 DEF Refuse, rows
<1>3. CASE Sell(c) /\ ~Refuse(c)
  <2>1. job[c].order \in Orders
    BY <1>1, <1>3 DEF Sell
  <2>2. SaveSells(c)
    BY <1>3 DEF Sell, SaveSells
  <2> QED BY <2>1, <2>2
<1>4. CASE SaveRoute(c)
  BY <1>4 DEF SaveRoute
<1>5. CASE SaveAssign(c) /\ ~Refuse(c)
  <2>1. job[c].kind = "assign" /\ job[c].order \in Orders /\ job[c].route \in Routes
    BY <1>1, <1>5 DEF SaveAssign
  <2>2. HasRoute(c)
    BY <1>5, <2>1 DEF SaveAssign, HasRoute
  <2>3. SaveAssigns(c) /\ SaveStops(c, job[c].order, "pending")
    BY <1>5, <2>1, <2>2 DEF SaveAssign, SaveAssigns, SaveStops
  <2> QED BY <2>1, <2>3
<1>6. CASE SaveCancel(c) /\ ~Refuse(c)
  <2>1. job[c].order \in Orders
    BY <1>1, <1>6 DEF SaveCancel
  <2>2. SaveCancels(c)
    BY <1>6 DEF SaveCancel, CancelOrder, SaveCancels
  <2>3. CASE job[c].route = NoOne
    BY <1>6, <2>1, <2>2, <2>3 DEF SaveCancel
  <2>4. CASE job[c].route # NoOne
    <3>1. job[c].route \in Routes /\ HasRoute(c)
      BY <1>1, <1>6, <2>4 DEF SaveCancel, HasRoute, Jobs
    <3>2. SaveStops(c, job[c].order, "cancelled")
      BY <1>6, <2>4, <3>1 DEF SaveCancel, SaveStops
    <3> QED BY <2>1, <2>2, <3>2
  <2> QED BY <2>3, <2>4
<1>7. CASE SaveClose(c) /\ ~Refuse(c)
  <2>1. job[c].route \in Routes /\ job[c].route # NoOne
    BY <1>1, <1>7, NamesAssumption DEF SaveClose
  <2>2. HasRoute(c)
    BY <1>7, <2>1 DEF SaveClose, HasRoute
  <2>3. UNCHANGED <<status, tripOf>> /\ SaveStops(c, NoOne, "none")
    BY <1>7, <2>1, <2>2 DEF SaveClose, SaveStops
  <2> QED BY <2>3
<1> QED BY <1>2, <1>3, <1>4, <1>5, <1>6, <1>7 DEF Save

\* The stops of a trip after a save of it: the one that was meant, and each other
\* as it was in memory or, if it is not there, as it was.
LEMMA SavedRows ==
    ASSUME TypeOK, NEW c \in Calls, NEW o, NEW s, SaveStops(c, o, s)
    PROVE  /\ \A q \in Routes \ {job[c].route} : stops'[q] = stops[q]
           /\ o \in Orders => stops'[job[c].route][o] = s
           /\ \A p \in Orders \ {o} : stops'[job[c].route][p] =
                  IF asRoute[c].stops[p] = "none" THEN stops[job[c].route][p]
                  ELSE asRoute[c].stops[p]
  BY DEF SaveStops, SavedStops, TypeOK

\* The order a call is about is written, and no other.
LEMMA WrittenOrder ==
    ASSUME TypeOK, NEW c \in Calls, job[c].order \in Orders, NEW s, NEW r, NEW p,
           WriteOrder(c, s, r, p)
    PROVE  /\ status'[job[c].order] = s /\ tripOf'[job[c].order] = r
           /\ \A o \in Orders \ {job[c].order} : status'[o] = status[o] /\ tripOf'[o] = tripOf[o]
  BY DEF WriteOrder, TypeOK

\* One stop of a trip in the table stays there, and the order of a cancelled one
\* is not assigned to the trip again.
LEMMA GoneStays ==
    ASSUME TypeOK, JobFits, CancelledAgree, NEW c \in Calls, Moves(c),
           NEW r \in Routes, NEW o \in Orders, Gone(r, o)
    PROVE  Gone(r, o)'
<1>1. CASE UNCHANGED <<status, tripOf, stops>>
  BY <1>1 DEF Gone
<1>2. ASSUME NEW p, NEW s, SaveStops(c, p, s), p = o => s # "none" PROVE stops'[r][o] # "none"
  <2>1. CASE r # job[c].route
    BY <1>2, <2>1, SavedRows DEF Gone
  <2>2. CASE r = job[c].route /\ o = p
    BY <1>2, <2>2, SavedRows
  <2>3. CASE r = job[c].route /\ o # p
    <3>1. stops'[r][o] = IF asRoute[c].stops[o] = "none" THEN stops[r][o]
                         ELSE asRoute[c].stops[o]
      BY <1>2, <2>3, SavedRows
    <3> QED BY <3>1 DEF Gone
  <2> QED BY <2>1, <2>2, <2>3
<1>3. CASE Save(c)
  <2>1. CASE job[c].order \in Orders /\ SaveSells(c)
    BY <2>1, WrittenOrder DEF SaveSells, Gone
  <2>2. CASE /\ job[c].order \in Orders
             /\ SaveAssigns(c) /\ SaveStops(c, job[c].order, "pending")
    <3>1. ~(job[c].order = o /\ job[c].route = r)
      BY <2>2 DEF SaveAssigns, Gone
    <3>2. stops'[r][o] # "none"
      BY <1>2, <2>2
    <3>3. ~(status'[o] = "assigned" /\ tripOf'[o] = r)
      BY <2>2, <3>1, WrittenOrder DEF SaveAssigns, Gone
    <3> QED BY <3>2, <3>3 DEF Gone
  <2>3. CASE /\ job[c].order \in Orders /\ SaveCancels(c)
             /\ UNCHANGED stops \/ SaveStops(c, job[c].order, "cancelled")
    <3>1. stops'[r][o] # "none"
      BY <1>2, <2>3 DEF Gone
    <3>2. ~(status'[o] = "assigned" /\ tripOf'[o] = r)
      BY <2>3, WrittenOrder DEF SaveCancels, Gone
    <3> QED BY <3>1, <3>2 DEF Gone
  <2>4. CASE UNCHANGED <<status, tripOf>> /\ SaveStops(c, NoOne, "none")
    <3>1. o # NoOne
      BY NamesAssumption
    <3>2. stops'[r][o] # "none"
      BY <1>2, <2>4, <3>1
    <3> QED BY <2>4, <3>2 DEF Gone
  <2> QED BY <1>1, <1>3, <2>1, <2>2, <2>3, <2>4, SaveOrders
<1> QED BY <1>1, <1>3, OnlySavesWrite DEF Moves, rows

\* What is cancelled, in its row or in memory, goes on agreeing with the orders.
LEMMA CancelledStep ==
    ASSUME TypeOK, JobFits, Opened, CancelledAgree, [Next]_vars
    PROVE  CancelledAgree'
<1> DEFINE Kept(d) == /\ \A o \in Orders : asRoute[d].stops[o] = "cancelled" =>
                             HasRoute(d) /\ Gone(job[d].route, o)
                      /\ HasRoute(d) => asRoute[d].status # "none"
           Row(r, o) == stops[r][o] = "cancelled" => Gone(r, o)
<1>1. \A d \in Calls : HasRoute(d) => job[d].route \in Routes
  BY DEF HasRoute, JobFits, Named, TypeOK, Jobs
<1>2. ASSUME NEW c \in Calls, Moves(c), NEW d \in Calls \ {c} PROVE Kept(d)'
  <2>1. /\ HasRoute(d)' = HasRoute(d) /\ job'[d] = job[d] /\ asRoute'[d] = asRoute[d]
    BY <1>2, OthersStay DEF HasRoute
  <2>2. \A o \in Orders : HasRoute(d) /\ Gone(job[d].route, o) => Gone(job[d].route, o)'
    BY <1>1, <1>2, <2>1, GoneStays
  <2> QED BY <2>1, <2>2 DEF CancelledAgree, Gone
<1>3. ASSUME NEW c \in Calls, Moves(c) PROVE Kept(c)'
  <2>1. ASSUME End(c) PROVE Kept(c)'
    <3>1. pc'[c] = "idle" /\ job'[c] = NoJob /\ asRoute'[c] = NoRoute
      BY <2>1 DEF End, TypeOK
    <3> QED BY <3>1, NothingFits DEF HasRoute, RouteSteps
  <2>2. CASE Arrive(c)
    <3>1. /\ pc[c] = "idle" /\ asRoute' = asRoute
          /\ pc'[c] \in {"lock_branch", "read_order", "find_route", "lock_driver", "read_route"}
          /\ job'[c].kind = "assign" => pc'[c] = "find_route"
      BY <2>2 DEF Arrive, BeginBook, BeginConfirm, BeginCancel, BeginAssign, BeginPlan,
                  BeginClose, Begin, Asked, TypeOK, memory
    <3>2. ~HasRoute(c) /\ ~HasRoute(c)'
      BY <3>1 DEF HasRoute, RouteSteps
    <3> QED BY <3>1, <3>2 DEF CancelledAgree
  <2>3. CASE Save(c)
    BY <2>1, <2>3, SaveRoutes
  <2>4. CASE Acquire(c) \/ Query(c)
    <3>0. /\ UNCHANGED rows
          /\ \A r, o : Gone(r, o)' = Gone(r, o)
      BY <2>4, OnlySavesWrite DEF rows, Gone
    <3>1. CASE Refuse(c)
      BY <2>1, <3>1 DEF Refuse
    <3>2. CASE ReadOrder(c)
      <4>1. asRoute' = asRoute /\ pc[c] = "read_order"
        BY <3>2 DEF ReadOrder
      <4>2. job[c] \in Jobs /\ tripOf \in [Orders -> Routes \cup {NoOne}]
        BY DEF TypeOK
      <4>3. CASE job[c].kind \in {"confirm", "assign"} /\ job' = job
        <5>1. HasRoute(c)' = HasRoute(c)
          BY <3>2, <4>1, <4>3 DEF ReadOrder, HasRoute, RouteSteps, Goto, TypeOK
        <5> QED BY <3>0, <4>1, <4>3, <5>1 DEF CancelledAgree
      <4>4. CASE job[c].kind = "cancel"
        <5>1. ~HasRoute(c)
          BY <4>1, <4>4 DEF HasRoute
        <5>2. job'[c] = [job[c] EXCEPT !.route = tripOf[job[c].order]]
          BY <3>2, <4>4 DEF ReadOrder, OnTrip, TypeOK
        <5>3. job'[c].kind = "cancel" /\ job'[c].route = tripOf[job[c].order]
          BY <4>2, <4>4, <5>2 DEF Jobs
        <5>4. ~HasRoute(c)'
          BY <3>2, <4>4, <5>3 DEF ReadOrder, HasRoute, Goto, TypeOK
        <5> QED BY <4>1, <5>1, <5>4 DEF CancelledAgree
      <4> QED BY <3>2, <4>3, <4>4 DEF ReadOrder
    <3>3. CASE ReadRoute(c)
      <4> DEFINE r == job[c].route
      <4>1. r \in Routes /\ job' = job
        BY <3>3 DEF ReadRoute, JobFits, Named
      <4>2. /\ asRoute'[c].stops = stops[r] /\ asRoute'[c].status # "none"
        BY <3>3 DEF ReadRoute, TypeOK
      <4>3. job[c].kind \in {"assign", "cancel", "close"}
        BY <3>3 DEF ReadRoute, JobFits, AtStep, OpeningSteps, BookingSteps
      <4>4. HasRoute(c)'
        <5>1. pc'[c] = [assign |-> "read_order", cancel |-> "save_cancel",
                        close |-> "save_close"][job[c].kind]
          BY <3>3 DEF ReadRoute, Goto, TypeOK
        <5>2. r # NoOne
          BY <4>1, NamesAssumption
        <5> QED BY <4>1, <4>3, <5>1, <5>2 DEF HasRoute, RouteSteps
      <4> QED BY <3>0, <4>1, <4>2, <4>4 DEF CancelledAgree
    <3>4. CASE ~Refuse(c) /\ ~ReadOrder(c) /\ ~ReadRoute(c)
      <4>1. /\ asRoute' = asRoute /\ HasRoute(c)' = HasRoute(c)
            /\ job'[c].route = job[c].route \/ ~HasRoute(c)
        BY <2>4, <3>4, KeepsMemory
      <4> QED BY <3>0, <4>1 DEF CancelledAgree
    <3> QED BY <3>1, <3>2, <3>3, <3>4
  <2> QED BY <1>3, <2>2, <2>3, <2>4 DEF Moves
<1>4. ASSUME NEW c \in Calls, Moves(c), NEW r \in Routes, NEW o \in Orders PROVE Row(r, o)'
  <2>1. CASE stops'[r][o] = stops[r][o]
    BY <1>4, <2>1, GoneStays DEF CancelledAgree
  <2>2. ASSUME HasRoute(c), job[c].route = r, stops'[r][o] = asRoute[c].stops[o]
        PROVE Row(r, o)'
    BY <1>4, <2>2, GoneStays DEF CancelledAgree
  <2>3. ASSUME NEW p, NEW s, SaveStops(c, p, s), o # p \/ r # job[c].route PROVE Row(r, o)'
    <3>1. CASE r # job[c].route
      BY <2>1, <2>3, <3>1, SavedRows
    <3>2. CASE r = job[c].route /\ o # p
      <4>1. stops'[r][o] = IF asRoute[c].stops[o] = "none" THEN stops[r][o]
                           ELSE asRoute[c].stops[o]
        BY <2>3, <3>2, SavedRows
      <4>2. HasRoute(c)
        BY <2>3 DEF SaveStops
      <4> QED BY <2>1, <2>2, <3>2, <4>1, <4>2
    <3> QED BY <2>3, <3>1, <3>2
  <2>4. CASE Save(c)
    <3>1. CASE job[c].order \in Orders /\ SaveAssigns(c) /\ SaveStops(c, job[c].order, "pending")
      <4>1. CASE o = job[c].order /\ r = job[c].route
        BY <3>1, <4>1, SavedRows
      <4> QED BY <2>3, <3>1, <4>1
    <3>2. CASE job[c].order \in Orders /\ SaveCancels(c) /\ SaveStops(c, job[c].order, "cancelled")
      <4>1. CASE o = job[c].order /\ r = job[c].route
        BY <3>2, <4>1, SavedRows, WrittenOrder DEF SaveCancels, Gone
      <4> QED BY <2>3, <3>2, <4>1
    <3>3. CASE SaveStops(c, NoOne, "none")
      BY <2>3, <3>3, NamesAssumption
    <3> QED BY <2>1, <2>4, <3>1, <3>2, <3>3, SaveOrders DEF SaveSells
  <2> QED BY <1>4, <2>1, <2>4, OnlySavesWrite DEF Moves, rows
<1>5. CASE UNCHANGED vars
  BY <1>5 DEF vars, rows, memory, CancelledAgree, HasRoute, Gone
<1> QED BY <1>2, <1>3, <1>4, <1>5 DEF Next, Moves, CancelledAgree

\* The index is checked against every other trip, whatever is written back.
LEMMA ActiveStep ==
    ASSUME TypeOK, JobFits, OneActiveStop, [Next]_vars
    PROVE  OneActiveStop'
<1>1. CASE UNCHANGED stops
  BY <1>1 DEF OneActiveStop, ActiveStop
<1>2. ASSUME NEW c \in Calls, NEW o, NEW s, SaveStops(c, o, s) PROVE OneActiveStop'
  <2> DEFINE r == job[c].route
             saved == SavedStops(c, o, s)
  <2>1. r \in Routes /\ stops' = [stops EXCEPT ![r] = saved] /\ IndexAllows(r, saved)
    BY <1>2 DEF SaveStops
  <2> HIDE DEF r, saved
  <2>2. stops'[r] = saved /\ \A q \in Routes \ {r} : stops'[q] = stops[q]
    BY <2>1 DEF TypeOK
  <2> QED BY <2>1, <2>2 DEF OneActiveStop, ActiveStop, IndexAllows
<1>3. ASSUME NEW c \in Calls, Save(c) PROVE OneActiveStop'
  BY <1>1, <1>2, <1>3, SaveOrders DEF SaveSells
<1> QED BY <1>1, <1>3, OnlySavesWrite DEF Next, vars, rows

\* An assignment writes the order and its stop together; what others write back
\* to that stop from memory is never "cancelled".
LEMMA AssignedStep ==
    ASSUME TypeOK, JobFits, CancelledAgree, AssignedHasStop, [Next]_vars
    PROVE  AssignedHasStop'
<1> DEFINE Row(o) == status[o] = "assigned" => tripOf[o] # NoOne /\ stops[tripOf[o]][o] = "pending"
<1>1. CASE UNCHANGED <<status, tripOf, stops>>
  BY <1>1 DEF AssignedHasStop
<1>2. \A o \in Orders : tripOf[o] # NoOne => tripOf[o] \in Routes
  BY DEF TypeOK
<1>3. ASSUME NEW c \in Calls, NEW p, NEW s, SaveStops(c, p, s), NEW o \in Orders \ {p},
             status'[o] = status[o], tripOf'[o] = tripOf[o]
      PROVE Row(o)'
  <2>1. CASE status[o] # "assigned"
    BY <1>3, <2>1
  <2>2. CASE status[o] = "assigned"
    <3>1. tripOf[o] \in Routes /\ tripOf[o] # NoOne /\ stops[tripOf[o]][o] = "pending"
      BY <1>2, <2>2 DEF AssignedHasStop
    <3>2. CASE tripOf[o] # job[c].route
      BY <1>3, <3>1, <3>2, SavedRows
    <3>3. CASE tripOf[o] = job[c].route
      <4>1. stops'[tripOf[o]][o] = IF asRoute[c].stops[o] = "none" THEN stops[tripOf[o]][o]
                                   ELSE asRoute[c].stops[o]
        BY <1>3, <3>3, SavedRows
      <4>2. asRoute[c].stops[o] # "cancelled"
        BY <2>2, <3>3 DEF CancelledAgree, Gone
      <4>3. asRoute[c].stops[o] \in StopStatuses
        BY DEF TypeOK, RoutesRead
      <4> QED BY <1>3, <3>1, <4>1, <4>2, <4>3 DEF StopStatuses
    <3> QED BY <3>2, <3>3
  <2> QED BY <2>1, <2>2
<1>4. ASSUME NEW c \in Calls, Save(c), NEW o \in Orders PROVE Row(o)'
  <2> DEFINE mine == job[c].order
  <2>1. CASE mine \in Orders /\ SaveSells(c)
    <3>1. CASE o = mine
      BY <2>1, <3>1, WrittenOrder DEF SaveSells
    <3>2. CASE o # mine
      BY <2>1, <3>2, WrittenOrder DEF SaveSells, AssignedHasStop
    <3> QED BY <3>1, <3>2
  <2>2. CASE mine \in Orders /\ SaveAssigns(c) /\ SaveStops(c, mine, "pending")
    <3>1. job[c].route \in Routes
      BY <2>2 DEF SaveStops
    <3>2. CASE o = mine
      <4>1. stops'[job[c].route][o] = "pending"
        BY <2>2, <3>2, SavedRows
      <4>2. tripOf'[o] = job[c].route
        BY <2>2, <3>2, WrittenOrder DEF SaveAssigns
      <4> QED BY <3>1, <4>1, <4>2, NamesAssumption
    <3>3. CASE o # mine
      <4>1. status'[o] = status[o] /\ tripOf'[o] = tripOf[o]
        BY <2>2, <3>3, WrittenOrder DEF SaveAssigns
      <4> QED BY <1>3, <2>2, <3>3, <4>1
    <3> QED BY <3>2, <3>3
  <2>3. CASE /\ mine \in Orders /\ SaveCancels(c)
             /\ UNCHANGED stops \/ SaveStops(c, mine, "cancelled")
    <3>1. CASE o = mine
      <4>1. status'[o] = "cancelled"
        BY <2>3, <3>1, WrittenOrder DEF SaveCancels
      <4> QED BY <4>1
    <3>2. CASE o # mine
      <4>1. status'[o] = status[o] /\ tripOf'[o] = tripOf[o]
        BY <2>3, <3>2, WrittenOrder DEF SaveCancels
      <4>2. CASE UNCHANGED stops
        BY <4>1, <4>2 DEF AssignedHasStop
      <4> QED BY <1>3, <2>3, <3>2, <4>1, <4>2
    <3> QED BY <3>1, <3>2
  <2>4. CASE UNCHANGED <<status, tripOf>> /\ SaveStops(c, NoOne, "none")
    <3>1. o # NoOne
      BY NamesAssumption
    <3> QED BY <1>3, <2>4, <3>1
  <2>5. CASE UNCHANGED <<status, tripOf, stops>>
    BY <2>5 DEF AssignedHasStop
  <2> QED BY <1>4, <2>1, <2>2, <2>3, <2>4, <2>5, SaveOrders
<1> QED BY <1>1, <1>4, OnlySavesWrite DEF Next, vars, rows, AssignedHasStop
-----------------------------------------------------------------------------
(* Locks *)

\* Whoever checks the stock has the branch's lock until it ends.
LEMMA BranchStep ==
    ASSUME TypeOK, JobFits, Opened, CancelledAgree, BranchHeld, [Next]_vars
    PROVE  BranchHeld'
<1>1. ASSUME NEW c \in Calls, Moves(c), NEW d \in Calls \ {c}, pc'[d] \in BookingSteps
      PROVE branchLock' = d
  BY <1>1, OthersStay, OthersKeepLocks DEF BranchHeld
<1>2. ASSUME NEW c \in Calls, Moves(c), pc'[c] \in BookingSteps PROVE branchLock' = c
  <2>1. ASSUME End(c) PROVE FALSE
    BY <1>2, <2>1 DEF End, TypeOK, BookingSteps
  <2>2. CASE Save(c)
    BY <2>1, <2>2, SaveRoutes
  <2> USE <1>2 DEF Goto, TypeOK, BookingSteps, BranchHeld, locks
  <2>3. CASE Arrive(c)
    BY <2>3 DEF Arrive, BeginBook, BeginConfirm, BeginCancel, BeginAssign, BeginPlan,
                BeginClose, Begin
  <2>4. CASE Acquire(c)
    BY <2>4 DEF Acquire, EnterBooking, LockBranch, LockDriver, LockVehicle
  <2>5. CASE ReadRoute(c)
    <3>1. job[c].kind \in {"assign", "cancel", "close"}
      BY <2>5 DEF ReadRoute, JobFits, AtStep, OpeningSteps
    <3> QED BY <2>5, <3>1 DEF ReadRoute
  <2>6. CASE Query(c)
    BY <2>1, <2>5, <2>6 DEF Query, ReadOrder, ReadStock, ReadDemand, FindRoute, CheckDriver,
                            CheckVehicle, CountRoutes, ReadVan, Refuse
  <2> QED BY <2>2, <2>3, <2>4, <2>6 DEF Moves
<1>3. CASE UNCHANGED vars
  BY <1>3 DEF vars, BranchHeld, locks
<1> QED BY <1>1, <1>2, <1>3 DEF Next, Moves, BranchHeld

\* A call takes its crew's locks before it may open a trip, and a query of it
\* after that changes neither the locks nor what it asked for.
LEMMA OwnSteps ==
    ASSUME TypeOK, JobFits, Opened, CancelledAgree, NEW c \in Calls, Moves(c)
    PROVE  \/ ~HoldsDriver(c)'
           \/ LockDriver(c) /\ pc'[c] = "lock_vehicle" /\ job' = job
           \/ LockVehicle(c) /\ pc'[c] = "check_driver" /\ job' = job
           \/ /\ CheckDriver(c) /\ pc'[c] = "check_vehicle" /\ job' = job
              /\ \A r \in Routes : ActiveRoute(r) => driverOf[r] # job[c].driver
              /\ UNCHANGED <<rows, locks>>
           \/ /\ pc[c] = "check_vehicle" /\ pc'[c] \in {"read_route", "save_route"}
              /\ job'[c].driver = job[c].driver /\ job'[c].vehicle = job[c].vehicle
              /\ \A r \in Routes : ActiveRoute(r) => vehicleOf[r] # job[c].vehicle
              /\ UNCHANGED <<rows, locks>>
           \/ WillOpen(c) /\ job' = job /\ pc'[c] \in RouteSteps /\ UNCHANGED <<rows, locks>>
<1> DEFINE Goal ==
           \/ ~HoldsDriver(c)'
           \/ LockDriver(c) /\ pc'[c] = "lock_vehicle" /\ job' = job
           \/ LockVehicle(c) /\ pc'[c] = "check_driver" /\ job' = job
           \/ /\ CheckDriver(c) /\ pc'[c] = "check_vehicle" /\ job' = job
              /\ \A r \in Routes : ActiveRoute(r) => driverOf[r] # job[c].driver
              /\ UNCHANGED <<rows, locks>>
           \/ /\ pc[c] = "check_vehicle" /\ pc'[c] \in {"read_route", "save_route"}
              /\ job'[c].driver = job[c].driver /\ job'[c].vehicle = job[c].vehicle
              /\ \A r \in Routes : ActiveRoute(r) => vehicleOf[r] # job[c].vehicle
              /\ UNCHANGED <<rows, locks>>
           \/ WillOpen(c) /\ job' = job /\ pc'[c] \in RouteSteps /\ UNCHANGED <<rows, locks>>
<1>0. job[c] \in Jobs /\ AtStep(c)
  BY DEF TypeOK, JobFits
<1>1. ASSUME pc'[c] \notin {"lock_vehicle", "check_driver", "check_vehicle", "save_route"}
                                \cup RouteSteps
      PROVE Goal
  BY <1>1 DEF HoldsDriver, WillOpen
<1>2. ASSUME End(c) PROVE Goal
  BY <1>1, <1>2 DEF End, TypeOK, RouteSteps
<1>3. CASE Save(c)
  BY <1>2, <1>3, SaveRoutes
<1>4. ASSUME pc'[c] \in RouteSteps, job'[c].kind # "assign" PROVE Goal
  BY <1>4 DEF HoldsDriver, WillOpen, RouteSteps
<1>5. ASSUME job' = job, pc[c] \in RouteSteps, pc'[c] \in RouteSteps, UNCHANGED <<rows, locks>>
      PROVE Goal
  BY <1>5 DEF HoldsDriver, WillOpen, RouteSteps, rows
<1> USE DEF Goto, TypeOK
<1>6. CASE Arrive(c)
  BY <1>1, <1>4, <1>6 DEF Arrive, BeginBook, BeginConfirm, BeginCancel, BeginAssign, BeginPlan,
                          BeginClose, Begin, Asked, RouteSteps
<1>7. CASE EnterBooking(c)
  BY <1>1, <1>7 DEF EnterBooking, RouteSteps
<1>8. CASE LockDriver(c) \/ LockVehicle(c)
  BY <1>8 DEF LockDriver, LockVehicle
<1>9. CASE ReadStock(c) \/ ReadDemand(c)
  BY <1>1, <1>2, <1>9 DEF ReadStock, ReadDemand, RouteSteps, Refuse
<1>10. CASE ReadOrder(c)
  <2>1. CASE job[c].kind = "confirm"
    BY <1>1, <1>10, <2>1 DEF ReadOrder, RouteSteps
  <2>2. CASE job[c].kind = "assign"
    BY <1>5, <1>10, <2>2 DEF ReadOrder, RouteSteps, rows
  <2>3. CASE job[c].kind = "cancel"
    <3>1. job'[c] = [job[c] EXCEPT !.route = tripOf[job[c].order]]
      BY <1>10, <2>3 DEF ReadOrder, OnTrip
    <3>2. job'[c].kind = "cancel"
      BY <1>0, <2>3, <3>1 DEF Jobs
    <3> QED BY <1>1, <1>4, <1>10, <2>3, <3>2 DEF ReadOrder, RouteSteps
  <2> QED BY <1>10, <2>1, <2>2, <2>3 DEF ReadOrder
<1>11. CASE ReadRoute(c)
  <2>1. job[c].kind \in {"assign", "cancel", "close"} /\ job' = job
    BY <1>0, <1>11 DEF ReadRoute, AtStep, OpeningSteps, BookingSteps
  <2>2. CASE job[c].kind = "assign"
    BY <1>5, <1>11, <2>1, <2>2 DEF ReadRoute, RouteSteps
  <2> QED BY <1>1, <1>11, <2>1, <2>2 DEF ReadRoute, RouteSteps
<1>12. CASE FindRoute(c)
  <2>1. CASE pc'[c] = "lock_driver"
    BY <1>1, <2>1 DEF RouteSteps
  <2>2. ASSUME NEW r \in Routes, routeStatus[r] = "planned", OnTrip(c, r), pc'[c] = "read_route"
        PROVE Goal
    <3>1. job'[c] = [job[c] EXCEPT !.route = r] /\ routeStatus' = routeStatus
      BY <1>12, <2>2 DEF FindRoute, OnTrip, rows
    <3>2. job'[c].route = r
      BY <1>0, <3>1 DEF Jobs
    <3> QED BY <2>2, <3>1, <3>2 DEF HoldsDriver, WillOpen
  <2> QED BY <1>12, <2>1, <2>2 DEF FindRoute, ActiveRoute
<1>13. CASE CheckDriver(c)
  BY <1>2, <1>13 DEF CheckDriver, Refuse
<1>14. CASE CheckVehicle(c)
  <2>1. ASSUME NEW r \in Routes, OnTrip(c, r)
        PROVE job'[c].driver = job[c].driver /\ job'[c].vehicle = job[c].vehicle
    <3>1. job'[c] = [job[c] EXCEPT !.route = r]
      BY <2>1 DEF OnTrip
    <3> QED BY <1>0, <3>1 DEF Jobs
  <2> QED BY <1>2, <1>14, <2>1 DEF CheckVehicle, Refuse
<1>15. CASE CountRoutes(c)
  BY <1>2, <1>5, <1>15 DEF CountRoutes, Refuse, RouteSteps
<1>16. CASE ReadVan(c)
  <2>1. CASE job[c].kind = "assign"
    BY <1>5, <1>16, <2>1 DEF ReadVan, RouteSteps
  <2>2. CASE job[c].kind # "assign"
    BY <1>4, <1>16, <2>2 DEF ReadVan, RouteSteps
  <2> QED BY <2>1, <2>2
<1> QED BY <1>3, <1>6, <1>7, <1>8, <1>9, <1>10, <1>11, <1>12, <1>13, <1>14, <1>15, <1>16
        DEF Moves, Acquire, Query

\* A call that will open a trip holds on to its driver and its vehicle.
LEMMA LocksStep ==
    ASSUME TypeOK, JobFits, Opened, CancelledAgree, LocksHeld, [Next]_vars
    PROVE  LocksHeld'
<1> DEFINE Held(c) == /\ HoldsDriver(c) => crewLock[job[c].driver] = c
                      /\ HoldsCrew(c) => crewLock[job[c].vehicle] = c
<1>1. \A c \in Calls : HoldsDriver(c) => job[c].driver \in Drivers /\ job[c].vehicle \in Vehicles
  BY DEF JobFits, AtStep, Named, HoldsDriver, WillOpen, OpeningSteps, RouteSteps, BookingSteps
<1>2. \A c \in Calls : HoldsCrew(c) => HoldsDriver(c)
  BY DEF HoldsCrew, HoldsDriver
<1>3. ASSUME NEW c \in Calls, Moves(c), NEW d \in Calls \ {c} PROVE Held(d)'
  <2>1. pc'[d] = pc[d] /\ job'[d] = job[d]
    BY <1>3, OthersStay
  <2>2. (HoldsDriver(d)' => HoldsDriver(d)) /\ (HoldsCrew(d)' => HoldsCrew(d))
    BY <1>3, <2>1, StaysOpened DEF HoldsDriver, HoldsCrew, WillOpen, JobFits, Named
  <2>3. \A x \in Drivers \cup Vehicles : crewLock[x] = d => crewLock'[x] = d
    BY <1>3, OthersKeepLocks
  <2> QED BY <1>1, <1>2, <2>1, <2>2, <2>3 DEF LocksHeld
<1>4. ASSUME NEW c \in Calls, Moves(c) PROVE Held(c)'
  <2>1. CASE ~HoldsDriver(c)'
    BY <2>1 DEF HoldsCrew, HoldsDriver
  <2>2. CASE LockDriver(c) /\ pc'[c] = "lock_vehicle" /\ job' = job
    <3>1. job[c].driver \in Drivers
      BY <2>2 DEF LockDriver, JobFits, AtStep, Named, OpeningSteps, RouteSteps, BookingSteps
    <3>2. crewLock'[job[c].driver] = c
      BY <2>2, <3>1 DEF LockDriver, LockCrew, TypeOK
    <3> QED BY <2>2, <3>2 DEF HoldsCrew, WillOpen, RouteSteps
  <2>3. CASE LockVehicle(c) /\ pc'[c] = "check_driver" /\ job' = job
    <3>1. HoldsDriver(c) /\ crewLock[job[c].driver] = c
      BY <2>3 DEF LockVehicle, HoldsDriver, LocksHeld
    <3>2. crewLock'[job[c].driver] = c /\ crewLock'[job[c].vehicle] = c
      BY <1>1, <2>3, <3>1 DEF LockVehicle, LockCrew, TypeOK
    <3> QED BY <2>3, <3>2
  <2>4. CASE CheckDriver(c) /\ job' = job /\ UNCHANGED <<rows, locks>>
    BY <2>4 DEF CheckDriver, LocksHeld, HoldsDriver, HoldsCrew, locks
  <2>5. CASE /\ pc[c] = "check_vehicle" /\ UNCHANGED <<rows, locks>>
             /\ job'[c].driver = job[c].driver /\ job'[c].vehicle = job[c].vehicle
    BY <2>5 DEF LocksHeld, HoldsDriver, HoldsCrew, locks
  <2>6. CASE WillOpen(c) /\ job' = job /\ UNCHANGED <<rows, locks>>
    BY <2>6 DEF LocksHeld, HoldsDriver, HoldsCrew, locks
  <2> QED BY <1>4, <2>1, <2>2, <2>3, <2>4, <2>5, <2>6, OwnSteps
<1>5. CASE UNCHANGED vars
  BY <1>5 DEF vars, LocksHeld, HoldsDriver, HoldsCrew, WillOpen, locks, rows
<1> QED BY <1>3, <1>4, <1>5 DEF Next, Moves, LocksHeld
-----------------------------------------------------------------------------
(* Crews, where no trip is cancelled *)

\* Calls are of the kinds there are.
LEMMA NobodyCloses ==
    ASSUME TypeOK, "close" \notin Kinds, NEW c \in Calls
    PROVE  job[c].kind # "close"
  BY DEF TypeOK, Jobs

\* Then a trip that is written back keeps its status.
LEMMA SaveOpensOnly ==
    ASSUME TypeOK, JobFits, Opened, CancelledAgree, NoneCancelled, "close" \notin Kinds,
           NEW c \in Calls, Save(c)
    PROVE  SaveKeepsRoutes \/ SaveOpens(c)
<1>1. CASE SaveRewrites(c)
  <2>1. PICK r \in Routes, s \in RouteStatuses \ {"none"} :
            /\ routeStatus[r] # "none" /\ routeStatus' = [routeStatus EXCEPT ![r] = s]
            /\ s = "cancelled" => job[c].kind = "close" \/ asRoute[c].status = "cancelled"
    BY <1>1 DEF SaveRewrites
  <2>2. s = "planned" /\ routeStatus[r] = "planned"
    BY <2>1, NobodyCloses DEF NoneCancelled, RouteStatuses, TypeOK
  <2>3. routeStatus' = routeStatus
    BY <2>1, <2>2 DEF TypeOK
  <2> QED BY <1>1, <2>3 DEF SaveRewrites, SaveKeepsRoutes
<1> QED BY <1>1, SaveRoutes

\* No trip is cancelled, not even in memory, where nobody cancels one.
LEMMA NoneCancelledStep ==
    ASSUME TypeOK, JobFits, Opened, CancelledAgree, NoneCancelled, "close" \notin Kinds,
           [Next]_vars
    PROVE  NoneCancelled'
<1>1. ASSUME NEW c \in Calls, Moves(c), NEW r \in Routes PROVE routeStatus'[r] # "cancelled"
  <2>1. CASE UNCHANGED routeStatus
    BY <2>1 DEF NoneCancelled
  <2>2. CASE Save(c)
    BY <2>1, <2>2, SaveOpensOnly DEF SaveKeepsRoutes, SaveOpens, OpenRoute, NoneCancelled, TypeOK
  <2> QED BY <1>1, <2>1, <2>2, OnlySavesWrite DEF Moves, rows
<1>2. ASSUME NEW c \in Calls, Moves(c), NEW d \in Calls PROVE asRoute'[d].status # "cancelled"
  <2>1. CASE asRoute'[d] = asRoute[d]
    BY <2>1 DEF NoneCancelled
  <2>2. ASSUME End(c), d = c PROVE asRoute'[d].status # "cancelled"
    BY <2>2, NothingFits DEF End, TypeOK
  <2>3. CASE d = c /\ ReadRoute(c)
    <3>1. job[c].route \in Routes
      BY <2>3 DEF ReadRoute, JobFits, Named
    <3> QED BY <2>3, <3>1 DEF ReadRoute, NoneCancelled, TypeOK
  <2>4. CASE d = c /\ ReadOrder(c)
    BY <2>1, <2>4 DEF ReadOrder
  <2>5. CASE d = c /\ Arrive(c)
    BY <2>1, <2>5 DEF Arrive, BeginBook, BeginConfirm, BeginCancel, BeginAssign, BeginPlan,
                      BeginClose, Begin, memory
  <2>6. CASE d = c /\ (Acquire(c) \/ Query(c))
    BY <2>1, <2>2, <2>3, <2>4, <2>6, KeepsMemory DEF Refuse
  <2>7. CASE d = c /\ Save(c)
    BY <2>2, <2>7, SaveRoutes
  <2> QED BY <1>2, <2>1, <2>5, <2>6, <2>7, OthersStay DEF Moves
<1>3. CASE UNCHANGED vars
  BY <1>3 DEF vars, rows, memory, NoneCancelled
<1> QED BY <1>1, <1>2, <1>3 DEF Next, Moves, NoneCancelled

\* What a call saw of its crew stays so: nobody else can open a trip with it.
LEMMA FreeStep ==
    ASSUME TypeOK, JobFits, Opened, CancelledAgree, LocksHeld, NoneCancelled, StillFree,
           "close" \notin Kinds, [Next]_vars
    PROVE  StillFree'
<1> DEFINE Free(c) == \A r \in Routes :
               /\ SawDriver(c) /\ ActiveRoute(r) => driverOf[r] # job[c].driver
               /\ WillOpen(c) /\ ActiveRoute(r) => vehicleOf[r] # job[c].vehicle
<1>1. \A c \in Calls : /\ WillOpen(c) => SawDriver(c)
                       /\ SawDriver(c) => HoldsDriver(c) /\ HoldsCrew(c)
  BY DEF SawDriver, HoldsDriver, HoldsCrew
<1>2. \A c \in Calls : SawDriver(c) =>
          /\ crewLock[job[c].driver] = c
          /\ crewLock[job[c].vehicle] = c
  BY <1>1 DEF LocksHeld
<1>3. ASSUME NEW c \in Calls, Moves(c), NEW d \in Calls \ {c} PROVE Free(d)'
  <2>1. pc'[d] = pc[d] /\ job'[d] = job[d]
    BY <1>3, OthersStay
  <2>2. CASE SaveKeepsRoutes
    BY <2>1, <2>2 DEF StillFree, SawDriver, WillOpen, ActiveRoute, SaveKeepsRoutes
  <2>3. CASE SaveOpens(c)
    <3>1. (SawDriver(d)' => SawDriver(d)) /\ (WillOpen(d)' => WillOpen(d))
      BY <1>3, <2>1, StaysOpened DEF SawDriver, WillOpen, JobFits, Named
    <3>2. SawDriver(d) => job[d].driver # job[c].driver /\ job[d].vehicle # job[c].vehicle
      BY <1>1, <1>2, <2>3 DEF SaveOpens
    <3>3. ASSUME NEW r \in Routes, ActiveRoute(r)'
          PROVE \/ ActiveRoute(r) /\ driverOf'[r] = driverOf[r] /\ vehicleOf'[r] = vehicleOf[r]
                \/ driverOf'[r] = job[c].driver /\ vehicleOf'[r] = job[c].vehicle
      BY <2>3, <3>3 DEF SaveOpens, OpenRoute, ActiveRoute, TypeOK
    <3> QED BY <1>1, <2>1, <3>1, <3>2, <3>3 DEF StillFree
  <2> QED BY <1>3, <2>2, <2>3, SaveOpensOnly, OnlySavesWrite DEF Moves, rows, SaveKeepsRoutes
<1>4. ASSUME NEW c \in Calls, Moves(c) PROVE Free(c)'
  <2>1. CASE ~HoldsDriver(c)'
    BY <2>1 DEF HoldsDriver, SawDriver
  <2>2. CASE pc'[c] \in {"lock_vehicle", "check_driver"}
    BY <2>2 DEF SawDriver, WillOpen, RouteSteps
  <2>3. CASE /\ pc'[c] = "check_vehicle" /\ job' = job /\ UNCHANGED rows
             /\ \A r \in Routes : ActiveRoute(r) => driverOf[r] # job[c].driver
    BY <2>3 DEF WillOpen, RouteSteps, ActiveRoute, rows
  <2>4. CASE /\ pc[c] = "check_vehicle" /\ UNCHANGED rows
             /\ job'[c].driver = job[c].driver /\ job'[c].vehicle = job[c].vehicle
             /\ \A r \in Routes : ActiveRoute(r) => vehicleOf[r] # job[c].vehicle
    BY <2>4 DEF StillFree, SawDriver, ActiveRoute, rows
  <2>5. CASE WillOpen(c) /\ job' = job /\ UNCHANGED rows
    BY <1>1, <2>5 DEF StillFree, ActiveRoute, rows
  <2> QED BY <1>4, <2>1, <2>2, <2>3, <2>4, <2>5, OwnSteps
<1>5. CASE UNCHANGED vars
  BY <1>5 DEF vars, rows, StillFree, SawDriver, WillOpen, ActiveRoute
<1> QED BY <1>3, <1>4, <1>5 DEF Next, Moves, StillFree

\* A trip is opened only with a crew that no open trip has.
LEMMA TripStep ==
    ASSUME TypeOK, JobFits, Opened, CancelledAgree, NoneCancelled, StillFree, OneOpenTrip,
           "close" \notin Kinds, [Next]_vars
    PROVE  OneOpenTrip'
<1>1. CASE SaveKeepsRoutes
  BY <1>1 DEF SaveKeepsRoutes, OneOpenTrip, ActiveRoute
<1>2. ASSUME NEW c \in Calls, SaveOpens(c) PROVE OneOpenTrip'
  <2>1. ASSUME NEW r \in Routes \ {job[c].route}
        PROVE /\ ActiveRoute(r)' = ActiveRoute(r)
              /\ driverOf'[r] = driverOf[r] /\ vehicleOf'[r] = vehicleOf[r]
    BY <1>2 DEF SaveOpens, OpenRoute, ActiveRoute, TypeOK
  <2>2. /\ driverOf'[job[c].route] = job[c].driver
        /\ vehicleOf'[job[c].route] = job[c].vehicle
    BY <1>2 DEF SaveOpens, OpenRoute, TypeOK
  <2>3. \A r \in Routes : ActiveRoute(r) =>
            driverOf[r] # job[c].driver /\ vehicleOf[r] # job[c].vehicle
    BY <1>2 DEF SaveOpens, StillFree, SawDriver
  <2> QED BY <2>1, <2>2, <2>3 DEF OneOpenTrip
<1> QED BY <1>1, <1>2, SaveOpensOnly, OnlySavesWrite DEF Next, vars, rows, SaveKeepsRoutes
-----------------------------------------------------------------------------
(* The invariants and what follows from them *)

\* Both invariants hold at first.
LEMMA InitIInv == Init => IInv /\ CrewInv
<1> SUFFICES ASSUME Init PROVE IInv /\ CrewInv
  OBVIOUS
<1> USE NothingFits DEF Init
<1>1. TypeOK
  BY DEF TypeOK, Statuses, StopStatuses, RouteStatuses, Steps
<1>2. \A c \in Calls : /\ pc[c] = "idle" /\ job[c].kind = "none" /\ asOrder[c] = NoOrder
                       /\ asRoute[c] = NoRoute /\ ~HasRoute(c) /\ ~SawDriver(c)
                       /\ ~HoldsDriver(c) /\ ~HoldsCrew(c) /\ ~WillOpen(c)
  BY DEF HasRoute, SawDriver, HoldsDriver, HoldsCrew, WillOpen, RouteSteps
<1>3. JobFits
  BY <1>2 DEF JobFits, AtStep, Named, RouteSteps
<1>4. LocksHeld /\ StillFree /\ BranchHeld
  BY <1>2 DEF LocksHeld, StillFree, BranchHeld, BookingSteps
<1>5. Opened /\ CancelledAgree /\ NoneCancelled
  BY <1>2 DEF Opened, CancelledAgree, NoneCancelled
<1>6. OneOpenTrip /\ OneActiveStop /\ AssignedHasStop
  BY DEF OneOpenTrip, ActiveRoute, OneActiveStop, ActiveStop, AssignedHasStop
<1> QED BY <1>1, <1>3, <1>4, <1>5, <1>6 DEF IInv, CrewInv

\* Every step keeps the invariant.
LEMMA NextIInv == IInv /\ [Next]_vars => IInv'
  BY TypeStep, OpenedStep, CancelledStep, BranchStep, LocksStep, ActiveStep, AssignedStep DEF IInv

\* The invariant holds always.
LEMMA Inductive == Spec => []IInv
  BY InitIInv, NextIInv, PTL DEF Spec

\* An order is on one trip only, whoever assigns, cancels or writes back at the
\* same time.
THEOREM OneActiveStopAlways == Spec => []OneActiveStop
<1>1. IInv => OneActiveStop
  BY DEF IInv
<1> QED BY <1>1, Inductive, PTL

\* An assigned order is on its driver's stop list, through every interleaving of
\* assignments, confirmations and cancellations.
THEOREM AssignedHasStopAlways == Spec => []AssignedHasStop
<1>1. IInv => AssignedHasStop
  BY DEF IInv
<1> QED BY <1>1, Inductive, PTL

\* The check of the stock and the booking it allows are never two calls' at once.
THEOREM OneBookingAtATimeAlways == Spec => []OneBookingAtATime
<1>1. IInv => OneBookingAtATime
  BY DEF IInv, BranchHeld, OneBookingAtATime
<1> QED BY <1>1, Inductive, PTL

\* Where no trip is cancelled the crew locks do what they are for: one open trip
\* per driver and per vehicle, whatever the number of calls.
THEOREM OneOpenTripUnlessCancelled ==
    ASSUME "close" \notin Kinds
    PROVE  Spec => []OneOpenTrip
<1>1. Init => CrewInv
  BY InitIInv
<1>2. IInv /\ CrewInv /\ [Next]_vars => CrewInv'
  BY NoneCancelledStep, FreeStep, TripStep DEF IInv, CrewInv
<1>3. CrewInv => OneOpenTrip
  BY DEF CrewInv
<1> QED BY <1>1, <1>2, <1>3, Inductive, PTL DEF Spec
=============================================================================
