SPECIFICATION Spec
CONSTANTS
  Nodes = {n1, n2}
  Keys = {k}
  Calls = {p}
  Capacity = 1
  MaxWrites = 1
  MaxEvents = 0
SYMMETRY Symmetry
INVARIANTS TtlFollowsRedis
