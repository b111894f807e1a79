SPECIFICATION Spec
CONSTANTS
  Nodes = {n1, n2}
  Keys = {k}
  Calls = {p, q}
  Capacity = 1
  MaxWrites = 2
  MaxEvents = 0
SYMMETRY Symmetry
INVARIANTS ReadsSeeLastWrite
