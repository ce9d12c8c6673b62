\* Two codes, one share each; every call fails and the process dies once: the
\* invariants that are also proved, and what must end.
SPECIFICATION FairSpec
CONSTANTS
    Codes = {A, B}
    NoCode = NoCode
    Qty = 1
    MaxTrades = 1
    Faults = {"cancel", "query", "reply", "db", "crash"}
    MaxOrders = 1
    MaxCrashes = 1
INVARIANTS TypeOK IndInv EntryExclusive NoStrandedExit ExitTimeoutEscalates
PROPERTIES ManualHeldStays ExitResolves StopEnds PendingResolves
\* A stopped runner whose operator was called is never started again.
CHECK_DEADLOCK FALSE
