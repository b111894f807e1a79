SPECIFICATION Spec
CONSTANTS
  Peers = {p1, p2, p3}
  Rings <- SmallRings
  Hashes = {1, 2, 3, 4}
  Factors = {0, 1, 2, 3, 5}
INVARIANTS TypeOK OwnersAreFirst
PROPERTY EveryTurnCounts
\* owners() returns.
CHECK_DEADLOCK FALSE
