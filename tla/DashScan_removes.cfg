CONSTANTS
  stays = stays
  leaves = leaves
  leavesLate = leavesLate
  Keys = {k1, k2, k3, stays, leaves, leavesLate}
  Vals = {0}
  HashOf <- Crowd
  NumBuckets = 3
  NumSlots = 1
  NumStash = 1
  Empty = Empty
  NoPtr = NoPtr
  InitSegs = 1
  GrowTries = 1
  Absent = Absent
  RetainSets <- DropTwo
  MaxSegs = 2
  Counts = {2}
SPECIFICATION ScanSpec
INVARIANT ScanComplete
SYMMETRY CrowdSymmetry
VIEW ScanContents
CHECK_DEADLOCK FALSE
