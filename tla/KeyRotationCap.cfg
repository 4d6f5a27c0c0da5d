SPECIFICATION Spec
INVARIANT CapCools
CONSTANTS
  u = u  v = v  s = s  k1 = k1  k2 = k2  m1 = m1  m2 = m2  talk = talk
  Requests = {u, v}
  Streams = {}
  Keys = {k1, k2}
  Models = {m1, m2}
  Sessions = {talk}
  None = None
  ModelOf <- MCModelOf
  SessionOf <- MCSessionOf
  GroupOf <- MCGroupOf
  Priority <- NoPriority
  Removable = {}
  MaxConcurrent = 1
  MaxRetries = 2
  FairCycle = TRUE
  Cap = 2
  Window = 3
  Timeout = 2
  Short = {1}
  Long = 3
CHECK_DEADLOCK FALSE
