SPECIFICATION Spec
CONSTANTS
    Orders = {o1}
    Routes = {r1}
    Drivers = {d1}
    Vehicles = {v1}
    Types = {t1, t2}
    MaxQty = 1
    WarehouseStock = 1
    EmptiesBack <- SomeEmpties
    MaxLines = 2
    CompleteReports = FALSE
    ScreensOnly = FALSE
    Decisions = {"approved", "rejected"}
    NoRoute = NoRoute
    NoOne = NoOne
SYMMETRY SymmetricNames
PROPERTIES
    EmptiesAccounted
    ConfirmationIsCurrent
CHECK_DEADLOCK FALSE
