SPECIFICATION Spec
INVARIANTS NoStaleOwner LiveIsOwner KnownOwner
PROPERTY ImplementsDirectory
SYMMETRY Symmetry
VIEW View
CONSTANTS
  c1 = c1
  c2 = c2
  p1 = p1
  p2 = p2
  r1 = r1
  NoPhone = NoPhone
  NoToken = NoToken
  NoConn = NoConn
  NoTime = NoTime
  Conns = {c1, c2}
  Phones = {p1}
  Replicas = {r1}
  ReplicaOf <- OneReplica
  PhonesOf <- OnePhone
  Kinds = {"registration", "authentication", "location"}
  MaxBatch = 1
  MaxClock = 0
  MaxRestarts = 1
  RedisOutcomes = {"ok"}
  DBOutcomes = {"ok"}
  DBEnabled = TRUE
  UniqueIndex = TRUE
  AdminStatuses = {}
  MaxClosers = 1
CHECK_DEADLOCK FALSE
