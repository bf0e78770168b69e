CONSTANTS
  NumShards = 3
  Keys = {"x", "z"}
  Vals = {1}
  DBs = {0, 1}
  Nil = Nil
  hash_tag <- Tag
  crc32 <- Crc
  Rdb <- RdbZ
  Conns = {c1, c2}
  Leavers = {c2}
  Requests <- AllRequests
  MaxReqs = 2
  CrossCap = 1
  ConnCap = 1
  MaxPanics = 1
SPECIFICATION Spec
INVARIANT TypeOK
INVARIANT Routed
INVARIANT FailedMeansDead
CHECK_DEADLOCK FALSE
