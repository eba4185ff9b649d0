SPECIFICATION Spec
CONSTANTS
    Orders = {o1, o2}
    Routes = {r1, r2}
    Drivers = {d1, d2}
    Vehicles = {v1}
    Types = {t1}
    MaxQty = 1
    WarehouseStock = 2
    EmptiesBack <- NoEmpties
    MaxLines = 2
    CompleteReports = FALSE
    ScreensOnly = FALSE
    Decisions = {}
    NoRoute = NoRoute
    NoOne = NoOne
SYMMETRY SymmetricNames
VIEW WithoutManifests
INVARIANTS
    StopsAndOrdersAgree
    DeliveryIsProven
    CompletedIsResolved
    OneWaitingTrip
PROPERTIES
    StockNeverMadeUp
    DeliveryIsFinal
    SoldIsThere
    FollowsLifecycle
CHECK_DEADLOCK FALSE
