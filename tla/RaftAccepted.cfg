SPECIFICATION FairSpec
CONSTANTS
  N = 3
  Cmds = {a}
  MaxTerm = 1
  MaxAttempts = 1
  MaxFaults = 2
  Restarting = {}
PROPERTY AcceptedIsApplied
CHECK_DEADLOCK FALSE
