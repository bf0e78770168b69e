CONSTANTS
  leaves = leaves
  Keys = {1, 2, 3, 4, 5, 6}
  Vals = {0}
  HashOf <- Neighbours
  NumBuckets = 2
  NumSlots = 2
  NumStash = 1
  Empty = Empty
  NoPtr = NoPtr
  InitSegs = 1
  GrowTries = 1
  Absent = Absent
  RetainSets = {}
  MaxSegs = 8
SPECIFICATION Spec
INVARIANT AllFindable
VIEW Contents
CHECK_DEADLOCK FALSE
