SPECIFICATION FairSpec
CONSTANTS
  Callers = {c1, c2}
  Bridge = Bridge
  MaxRequests = 3
INVARIANTS TypeOK NoLostWakeup ReadsNotOlder
PROPERTIES RequestServed JobsInOrder
