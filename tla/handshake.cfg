SPECIFICATION FairSpec
INVARIANT TypeOK
PROPERTIES HandshakeOrClosed RejectedIsClosed
CONSTANTS
  c1 = c1
  c2 = c2
  p1 = p1
  p2 = p2
  r1 = r1
  NoPhone = NoPhone
  NoToken = NoToken
  NoConn = NoConn
  NoTime = NoTime
  Conns = {c1}
  Phones = {p1}
  Replicas = {r1}
  ReplicaOf <- OneReplica
  PhonesOf <- OnePhone
  Kinds = {"registration", "authentication", "heartbeat", "unknown", "terminalResp"}
  MaxBatch = 1
  MaxClock = 1
  MaxRestarts = 0
  RedisOutcomes = {"ok"}
  DBOutcomes = {"ok"}
  DBEnabled = TRUE
  UniqueIndex = FALSE
  AdminStatuses = {"blocked"}
  MaxClosers = 1
CHECK_DEADLOCK FALSE
