\* A run publishes while the browser leaves.
CONSTANTS
  Runners = {loop, m1}
  Requests = {m1}
  RingCap = 2
  BufCap = 1
  Keep = 1
  MaxRuns = 2
  MaxConns = 2
  MaxRestarts = 1
SPECIFICATION Spec
INVARIANTS SendsFindOpenChannels
CHECK_DEADLOCK FALSE
