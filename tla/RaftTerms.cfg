SPECIFICATION Spec
CONSTANTS
  N = 3
  Cmds = {}
  MaxTerm = 2
  MaxAttempts = 1
  MaxFaults = 1
  Restarting = {2}
SYMMETRY Symmetry
INVARIANTS TypeOK VoteOncePerTerm CleanElectionSafety
\* The system stops when the bounds are reached.
CHECK_DEADLOCK FALSE
