SPECIFICATION Spec
CONSTANTS
    Warehouses = {w1}
    Vehicles = {v1}
    Counts = {k1, k2}
    Calls = {c1, c2}
    Quantities = {0, 1}
    Handled = {"filled", "empty", "damaged"}
    FirstStock <- SomeStock
    MaxMoves = 4
    NoCount = NoCount
    NoLocation = NoLocation
SYMMETRY SymmetricNames
INVARIANTS
    TypeOK
    RegisterOpensRight
    BookedOnce
PROPERTY
    CountedThenMoved
CHECK_DEADLOCK FALSE
