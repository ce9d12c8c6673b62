\* A restart whose balance inquiry fails.
SPECIFICATION Spec
CONSTANTS
    Codes = {A}
    NoCode = NoCode
    Qty = 1
    MaxTrades = 1
    Faults = {"crash", "query"}
    MaxOrders = 1
    MaxCrashes = 1
PROPERTY RowKeptWhileHeld
\* A stopped runner whose operator was called is never started again.
CHECK_DEADLOCK FALSE
