SPECIFICATION Spec
CONSTANTS
    Orders = {o1, o2}
    Types = {t1, t2}
    Ledgers = {k1, k2}
    Calls = {c1, c2}
    Quantities = {0, 1, 2}
    Deltas <- OneUpOrDown
    Cap = 2
    CreditLimit = 1
    MaxAdjusts = 1
    MaxCrashes = 1
    NoOrder = NoOrder
    NoLedger = NoLedger
SYMMETRY SymmetricNames
INVARIANTS
    LedgerInLockstep
    OnLedgerOnce
PROPERTIES
    BookedWithinCap
    OnAccountWithinLimit
CHECK_DEADLOCK FALSE
