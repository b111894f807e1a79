SPECIFICATION FairSpec
CONSTANTS
  N = 3
  Cmds = {a}
  MaxTerm = 1
  MaxAttempts = 2
  MaxFaults = 2
  Restarting = {}
PROPERTY SerialReachesAll
\* The system stops when the bounds are reached.
CHECK_DEADLOCK FALSE
