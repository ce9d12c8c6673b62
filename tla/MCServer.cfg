\* Two codes, two runs of either, one lapse of the token.
SPECIFICATION Spec
CONSTANTS
  r1 = r1
  r2 = r2
  c1 = c1
  c2 = c2
  Codes = {c1, c2}
  Requests = {r1, r2}
  CodeOf <- MCApart
  Callers = {r1, r2}
  Allowed = {}
  Blocked = FALSE
  MaxProbes = 2
  MaxLapses = 1
  MaxRuns = 2
INVARIANTS ShownRunning ManualShown OneIssue
CHECK_DEADLOCK FALSE
