SPECIFICATION Spec
CONSTANTS
  R = 1
  Msgs = {m}
  Consumers = {w1, w2}
  MaxMessages = 1
  AckKinds = {"any"}
  Ackers = {k1, k2}
  MaxAttempts = 2
  MaxFaults = 1
  NoMsg = NoMsg
SYMMETRY Symmetry
INVARIANTS TypeOK NothingIsLost PayloadUntilAck
PROPERTY ImplementsAtLeastOnce
