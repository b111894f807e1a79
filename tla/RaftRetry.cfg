SPECIFICATION Spec
CONSTANTS
  N = 3
  Cmds = {a, b}
  MaxTerm = 1
  MaxAttempts = 2
  MaxFaults = 1
  Restarting = {}
SYMMETRY Symmetry
INVARIANTS AgreesWhenSerial
\* The system stops when the bounds are reached.
CHECK_DEADLOCK FALSE
