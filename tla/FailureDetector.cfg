SPECIFICATION FairSpec
CONSTANTS
  Nodes <- LockNodes
  Self <- Lock1
  Interval = 500
  Timeout = 1000
  MinInterval = 200
  MinStd = 100
  MaxSamples = 2
  Tick = 250
  MaxAge = 5000
  MaxPause = 1250
  MaxAnswers <- AnswersOfLock2
INVARIANTS TypeOK SuspectsAreSilent
PROPERTY DeadIsReported
\* A process that was shut down does nothing more.
CHECK_DEADLOCK FALSE
