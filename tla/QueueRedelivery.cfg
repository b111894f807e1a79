SPECIFICATION FairSpec
CONSTANTS
  R = 1
  Msgs = {m1}
  Consumers = {w1}
  MaxMessages = 1
  AckKinds = {"any"}
  Ackers = {k1}
  MaxAttempts = 1
  MaxFaults = 0
  NoMsg = NoMsg
PROPERTY AppearsAgain
