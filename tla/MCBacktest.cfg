SPECIFICATION Spec
CONSTANTS
  TrailingPct = 60
  BreakevenPct = 50
  TimeStop = 3
  Expiry = 3
  Cutoff = 18
  MinBreakout = 1
  LongOnly = TRUE
  Bars <- MCBars
  Starts <- MCStarts
  Width = 2
  MaxBars = 10
  Stages <- MCStages
  RrPct = 250
  ForceExit = 18
  MaxTrades = 2
  MaxLossBp <- MCLoss
INVARIANTS OneAtATime LegacyParity HonestStops LimitsKept NoHindsight
CHECK_DEADLOCK FALSE
