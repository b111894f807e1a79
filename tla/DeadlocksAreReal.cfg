SPECIFICATION Spec
CONSTANTS
  Clients = {c1, c2, c3}
  Resources = {r1, r2}
  MaxRequests = 5
SYMMETRY Symmetry
INVARIANT DeadlocksAreReal
