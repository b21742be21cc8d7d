SPECIFICATION Spec
INVARIANT EndedIsForgotten
CONSTANTS
  c1 = c1
  c2 = c2
  p1 = p1
  p2 = p2
  r1 = r1
  NoPhone = NoPhone
  NoToken = NoToken
  NoConn = NoConn
  NoTime = NoTime
  Conns = {c1}
  Phones = {p1, p2}
  Replicas = {r1}
  ReplicaOf <- OneReplica
  PhonesOf <- AnyPhone
  Kinds = {"registration", "authentication"}
  MaxBatch = 1
  MaxClock = 0
  MaxRestarts = 0
  RedisOutcomes = {"ok"}
  DBOutcomes = {"ok"}
  DBEnabled = FALSE
  UniqueIndex = FALSE
  AdminStatuses = {}
  MaxClosers = 1
CHECK_DEADLOCK FALSE
