SPECIFICATION FairSpec
INVARIANTS TypeOK InUseExact WithinLimit PreferredIsOffered
PROPERTIES NotStarved LendsAsPromised RequestsEnd
CONSTANTS
  u = u  v = v  s = s  k1 = k1  k2 = k2  m1 = m1  m2 = m2  talk = talk
  Requests = {u, s}
  Streams = {s}
  Keys = {k1, k2}
  Models = {m1, m2}
  Sessions = {talk}
  None = None
  ModelOf <- MCModelOf
  SessionOf <- MCSessionOf
  GroupOf <- MCGroupOf
  Priority <- NoPriority
  Removable = {k1}
  MaxConcurrent = 1
  MaxRetries = 2
  FairCycle = TRUE
  Cap = 0
  Window = 1
  Timeout = 2
  Short = {1}
  Long = 3
CHECK_DEADLOCK FALSE
