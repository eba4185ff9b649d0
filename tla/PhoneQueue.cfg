\* An order placed by an app and a delivery; any two things go wrong.
SPECIFICATION Spec
CONSTANTS
    Ops <- TwoOps
    Kind <- PlaceAndDeliver
    OrderOf <- TwoOrders
    Users = {u1, u2}
    MaxRetries = 2
    MaxFaults = 2
    NoOp = NoOp
    NoUser = NoUser
    NoCall = NoCall
INVARIANTS SyncedIsDone AppliedOncePerLoss SyncingIsBeingSent OwnSessionUnlessSwitched
PROPERTIES ConflictIsNotItself EveryOperationSettles ImplementsOutbox
CHECK_DEADLOCK FALSE
