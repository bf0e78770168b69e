CONSTANTS
  NumShards = 2
  NumDBs = 2
  Order <- KeyOrder
  shard <- Shard
  Strings = {"a", "b"}
  Collection = Collection
  Absent = Absent
  None = None
  Commands <- SomeCommands
  Savers = {first, second}
  Inodes = {1, 2}
  MaxNow = 1
  MaxCommands = 2
  MaxSaves = 2
  MaxCrashes = 1
  MaxPanics = 1
  DataKeys = {"k1", "k2", "k3"}
  home <- Home
  MainKey = "k1"
  Elems = {1, 2}
  Members = {1, 2, 3}
  Numbers <- PlusMinusOne
  Indices <- PastBothEnds
  IntBits = 2
  MaxList = 4
  MaxFloat = 5
  MaxScore = 1
  MaxEntries = 2
  Payloads <- SomePayloads
  MaxArrLen = 2
  MaxBulkLen = 2
  MaxItems = 2
  Chars = {97, 98, 42, 45, 91, 255}
  MaxGlob = 3
  MaxText = 3
  Lengths <- EdgeLengths
  Integers32 <- EdgeIntegers
SPECIFICATION PartsSpec
INVARIANT DumpWhole
INVARIANT LoadsASnapshot
INVARIANT RecoveredState
INVARIANT SaveNotStuck
INVARIANT NoEmptyCollection
INVARIANT RangesExact
INVARIANT ListEditsExact
INVARIANT SetOpsExact
INVARIANT CountersExact
INVARIANT ZSetInStep
INVARIANT SortedViewsAgree
INVARIANT CommandsAsSent
INVARIANT GlobExact
INVARIANT CodecRoundTrip
SYMMETRY SaverSymmetry
CHECK_DEADLOCK FALSE
