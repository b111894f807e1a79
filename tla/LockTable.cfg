SPECIFICATION FairSpec
CONSTANTS
  Clients = {c1, c2, c3}
  Resources = {r1, r2}
  MaxRequests = 4
INVARIANTS TypeOK MutualExclusion HeadIsBlocked WaitersAreQueued WaitsForOldHolders
PROPERTIES ImplementsLocks QueuesDrain
