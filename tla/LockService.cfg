SPECIFICATION FairSpec
CONSTANTS
  Calls = {a, b}
  Incomplete = {b}
  MaxAttempts = 2
  MaxFaults = 2
INVARIANTS TypeOK AnswersAreOwn PendingIsOpen WaitersAreUnapplied OnlyRaisingStops
PROPERTY AskedIsAnswered
\* Every call ends.
CHECK_DEADLOCK FALSE
