\* One signal, one crash, two writes in flight.
SPECIFICATION FairSpec
CONSTANTS
  TrailingPct = 75
  BreakevenPct = 50
  TimeStop = 1
  Prices <- MCPrices
  Signals <- MCSignals
  RrPct = 225
  MaxDrift = 3
  MaxAge = 1
  MaxWrites = 2
  MaxRounds = 1
  UpdatesFail = TRUE
  MaxCrashes = 1
INVARIANTS StopFollowsBest RowNotAhead
PROPERTIES StopOnlyTightens BreachEnds
CHECK_DEADLOCK FALSE
