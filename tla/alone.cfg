SPECIFICATION FairSpec
INVARIANT AloneIsSynced
PROPERTY GhostIsPruned
CONSTANTS
  c1 = c1
  c2 = c2
  p1 = p1
  r1 = r1
  b1 = b1
  b2 = b2
  Conns = {c1}
  Phones = {p1}
  PhoneOf <- SamePhone
  Replicas = {r1}
  ReplicaOf <- OneReplica
  BeatSlots = {b1, b2}
  HeartbeatTimeout = 2
  MaxCrashes = 1
  RedisFails = TRUE
