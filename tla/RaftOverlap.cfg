SPECIFICATION Spec
CONSTANTS
  N = 3
  Cmds = {a, b}
  MaxTerm = 1
  MaxAttempts = 1
  MaxFaults = 0
  Restarting = {}
SYMMETRY Symmetry
INVARIANTS ReplicasAgree
\* The system stops when the bounds are reached.
CHECK_DEADLOCK FALSE
