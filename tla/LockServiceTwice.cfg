SPECIFICATION Spec
CONSTANTS
  Calls = {a}
  Incomplete = {}
  MaxAttempts = 2
  MaxFaults = 1
INVARIANT AppliedOnce
CHECK_DEADLOCK FALSE
