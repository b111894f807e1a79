SPECIFICATION Spec
CONSTANTS
  Nodes <- LockNodes
  Self <- Lock1
  Interval = 500
  Timeout = 1000
  MinInterval = 200
  MinStd = 100
  MaxSamples = 2
  Tick = 250
  MaxAge = 5000
  MaxPause = 1250
  MaxAnswers <- AnswersOfLock2
INVARIANTS AnsweredIsUp
CHECK_DEADLOCK FALSE
