SPECIFICATION Spec
CONSTANTS
  R = 2
  Msgs = {m1}
  Consumers = {w1}
  MaxMessages = 1
  AckKinds = {"owner"}
  Ackers = {k1}
  MaxAttempts = 1
  MaxFaults = 0
  NoMsg = NoMsg
PROPERTY NotDeliveredAfterAckOwner
