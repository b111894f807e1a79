SPECIFICATION Spec
CONSTANTS
  Calls = {a, b}
  Incomplete = {b}
  MaxAttempts = 1
  MaxFaults = 0
INVARIANT OnlyIncompleteFails
CHECK_DEADLOCK FALSE
