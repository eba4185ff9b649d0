SPECIFICATION Spec
CONSTANTS
    Orders = {o1, o2}
    Routes = {r1, r2}
    Drivers = {d1}
    Vehicles = {v1}
    Types = {t1}
    MaxQty = 1
    WarehouseStock = 2
    EmptiesBack <- NoEmpties
    MaxLines = 1
    CompleteReports = TRUE
    ScreensOnly = TRUE
    Decisions = {"approved"}
    NoRoute = NoRoute
    NoOne = NoOne
SYMMETRY SymmetricNames
VIEW WithoutManifests
INVARIANTS
    ConfirmedCanBePlanned
CHECK_DEADLOCK FALSE
