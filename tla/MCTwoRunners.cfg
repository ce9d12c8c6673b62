\* Two codes, two shares each, filled one by one; nothing fails.
SPECIFICATION Spec
CONSTANTS
    Codes = {A, B}
    NoCode = NoCode
    Qty = 2
    MaxTrades = 2
    Faults = {}
    MaxOrders = 3
    MaxCrashes = 0
SYMMETRY CodeSymmetry
INVARIANTS PositionMatches PositionLocked GateRespected
\* A stopped runner whose operator was called is never started again.
CHECK_DEADLOCK FALSE
