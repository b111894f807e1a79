SPECIFICATION Spec
CONSTANTS
  N = 3
  Cmds = {a, b}
  MaxTerm = 1
  MaxAttempts = 1
  MaxFaults = 1
  Restarting = {2}
SYMMETRY Symmetry
INVARIANTS CommitNeedsQuorum AppliedWithinLog
PROPERTY ImplementsReplicatedLog
\* The system stops when the bounds are reached.
CHECK_DEADLOCK FALSE
