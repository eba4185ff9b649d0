\* Two calls at a time on one order and the trips of one vehicle.
SPECIFICATION Spec
CONSTANTS
    Calls = {c1, c2}
    Orders = {o1}
    Routes = {r1, r2}
    Drivers = {d1, d2}
    Vehicles = {v1}
    VanStock = 1
    Kinds = {"book", "confirm", "assign", "plan", "cancel", "close"}
    NoOne = NoOne
INVARIANTS OneActiveStop AssignedHasStop
PROPERTIES EveryCallEnds
