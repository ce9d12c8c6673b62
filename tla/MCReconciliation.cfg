\* One runner beside the reconciliation; two orders, three inquiries a confirmation.
SPECIFICATION RFairSpec
CONSTANTS
    Codes = {A}
    NoCode = NoCode
    Qty = 1
    MaxTrades = 2
    Faults = {"query", "db"}
    MaxOrders = 2
    MaxCrashes = 0
    Attempts = 3
INVARIANT RTypeOK
PROPERTIES MismatchFound ManualEnds
\* A stopped runner whose operator was called is never started again.
CHECK_DEADLOCK FALSE
