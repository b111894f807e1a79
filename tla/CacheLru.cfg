SPECIFICATION Spec
CONSTANTS
  Nodes = {n1}
  Keys = {k1, k2}
  Calls = {p, q}
  Capacity = 1
  MaxWrites = 2
  MaxEvents = 1
SYMMETRY Symmetry
INVARIANT LruBounded
