SPECIFICATION Spec
CONSTANTS
  N = 3
  Cmds = {}
  MaxTerm = 1
  MaxAttempts = 1
  MaxFaults = 1
  Restarting = {2}
SYMMETRY Symmetry
INVARIANT VotesAreKept
\* The system stops when the bounds are reached.
CHECK_DEADLOCK FALSE
