CONSTANTS
  NumShards = 2
  Keys = {"x", "z"}
  Vals = {1, 2}
  DBs = {0}
  Nil = Nil
  hash_tag <- Tag
  crc32 <- Crc
  Rdb <- RdbZ
  Conns = {c1, c2}
  Leavers = {}
  Requests <- LoadRequests
  MaxReqs = 1
  CrossCap = 1
  ConnCap = 1
  MaxPanics = 0
SPECIFICATION Spec
PROPERTY LoadKeepsWrites
CHECK_DEADLOCK FALSE
