CONSTANTS
  NumShards = 2
  Keys = {"x", "y", "z"}
  Vals = {1, 2}
  DBs = {0, 1}
  Nil = Nil
  hash_tag <- Tag
  crc32 <- Crc
  Rdb <- NoRdb
  Conns = {c1, c2}
  Leavers = {}
  Requests <- OneShardRequests
  MaxReqs = 3
  CrossCap = 1
  ConnCap = 1
  MaxPanics = 0
SPECIFICATION Spec
PROPERTY ImplementsLinearStore
CHECK_DEADLOCK FALSE
