\* One runner that fails at nothing, two shares.
SPECIFICATION RSpec
CONSTANTS
    Codes = {A}
    NoCode = NoCode
    Qty = 2
    MaxTrades = 2
    Faults = {}
    MaxOrders = 1
    MaxCrashes = 0
    Attempts = 3
PROPERTY StoppedOnlyOnMismatch
\* A stopped runner whose operator was called is never started again.
CHECK_DEADLOCK FALSE
