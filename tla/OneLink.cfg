SPECIFICATION Spec
CONSTANTS
    Calls = {c1, c2}
    MaxLinks = 2
    MaxQty = 2
    Fee = 1
    Closings = {"expired"}
    MaxCrashes = 0
INVARIANT
    OneLinkToPay
CHECK_DEADLOCK FALSE
