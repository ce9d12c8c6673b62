\* Two requests for one code.
SPECIFICATION Spec
CONSTANTS
  r1 = r1
  r2 = r2
  c1 = c1
  c2 = c2
  Codes = {c1}
  Requests = {r1, r2}
  CodeOf <- MCTwice
  Callers = {r1, r2}
  Allowed = {}
  Blocked = FALSE
  MaxProbes = 2
  MaxLapses = 1
  MaxRuns = 2
INVARIANT StopReaches
CHECK_DEADLOCK FALSE
