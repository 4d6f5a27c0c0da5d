SPECIFICATION FairSpec
CONSTANTS
  Requests = {r1, r2}
  MaxDrops = 1
  MaxFaults = 1
INVARIANTS TypeOK CollectsOnce
PROPERTIES CatchesUp
