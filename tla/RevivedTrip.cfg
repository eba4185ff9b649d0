\* A trip is cancelled and its crew planned anew while an order is put on it.
SPECIFICATION Spec
CONSTANTS
    Calls = {c1, c2}
    Orders = {o1}
    Routes = {r1, r2, r3}
    Drivers = {d1}
    Vehicles = {v1}
    VanStock = 1
    Kinds = {"book", "confirm", "assign", "plan", "close"}
    NoOne = NoOne
INVARIANTS OneOpenTrip
CHECK_DEADLOCK FALSE
