SPECIFICATION Spec
CONSTANTS
  R = 2
  Msgs = {m}
  Consumers = {w1}
  MaxMessages = 1
  AckKinds = {"any", "id", "owner"}
  Ackers = {k1, k2}
  MaxAttempts = 2
  MaxFaults = 2
  NoMsg = NoMsg
SYMMETRY Symmetry
CONSTRAINT Untainted
INVARIANTS AckFindsEveryOwner CopiesStayWhole
