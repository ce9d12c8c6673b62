\* Two trades in four minutes, one restart.
SPECIFICATION Spec
CONSTANTS
  MaxRetries = 1
  Open = 1
  Close = 4
  Bucket = 2
  Prices = {1, 2}
  OrMinutes = 1
  OrCutoff = 1
  StaleTick = 1
  NeverTick = 1
  Schedule <- MCSchedule
  MaxTries = 1
  YahooPartial = FALSE
  LastMinute = 4
  MaxTraded = 2
  MaxWire = 1
  MaxRestarts = 1
INVARIANTS DeadFeedNoticed RetriesEarned CandlesFaithful NotAhead
CHECK_DEADLOCK FALSE
