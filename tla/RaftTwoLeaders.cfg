SPECIFICATION Spec
CONSTANTS
  N = 3
  Cmds = {}
  MaxTerm = 2
  MaxAttempts = 1
  MaxFaults = 0
  Restarting = {}
SYMMETRY Symmetry
INVARIANTS OneLeaderPerTerm
\* The system stops when the bounds are reached.
CHECK_DEADLOCK FALSE
