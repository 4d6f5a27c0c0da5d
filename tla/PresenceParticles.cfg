SPECIFICATION Spec
CONSTANTS
  a = a
  b = b
  t1 = t1
  t2 = t2
  Instances = {a}
  Threads = {t1, t2}
  Host <- Together
  NumPresences = 2
  Particles = {d1}
  Positions = {x1}
  LeaseTtl = 1
  MaxWrites = 1
  CallsFail = TRUE
  RepliesLost = TRUE
  None = None
INVARIANTS IndexAgrees StateFollowsOwner
PROPERTIES RegistrySpec
