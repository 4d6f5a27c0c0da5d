SPECIFICATION FairSpec
CONSTANTS
  a = a
  b = b
  t1 = t1
  t2 = t2
  Instances = {a, b}
  Threads = {t1, t2}
  Host <- Apart
  NumPresences = 1
  Particles = {d1}
  Positions = {x1, x2}
  LeaseTtl = 2
  MaxWrites = 1
  CallsFail = TRUE
  RepliesLost = FALSE
  None = None
INVARIANTS LeaseHonoured  TypeOK
PROPERTIES Failover
