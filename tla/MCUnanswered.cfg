\* Two codes; inquiries and the database fail.
SPECIFICATION Spec
CONSTANTS
    Codes = {A, B}
    NoCode = NoCode
    Qty = 1
    MaxTrades = 2
    Faults = {"query", "db"}
    MaxOrders = 2
    MaxCrashes = 0
SYMMETRY CodeSymmetry
INVARIANTS SingleExposure FlatIsFlat Recoverable
PROPERTIES DropOnlyWhenSold ImplementsTradeSlot
\* A stopped runner whose operator was called is never started again.
CHECK_DEADLOCK FALSE
