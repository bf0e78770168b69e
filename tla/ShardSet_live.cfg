CONSTANTS
  NumShards = 3
  Keys = {"x", "z"}
  Vals = {1}
  DBs = {0}
  Nil = Nil
  hash_tag <- Tag
  crc32 <- Crc
  Rdb <- RdbAll
  Conns = {c1, c2}
  Leavers = {}
  Requests <- LiveRequests
  MaxReqs = 2
  CrossCap = 1
  ConnCap = 1
  MaxPanics = 1
SPECIFICATION FairSpec
INVARIANT ServedAfterLoad
INVARIANT DeletionsCounted
PROPERTY EveryRequestAnswered
CHECK_DEADLOCK FALSE
