SPECIFICATION FairSpec
CONSTANTS
  R = 2
  Msgs = {m1, m2}
  Consumers = {w1}
  MaxMessages = 2
  AckKinds = {}
  Ackers = {}
  MaxAttempts = 1
  MaxFaults = 0
  NoMsg = NoMsg
PROPERTY PublishedIsDelivered
