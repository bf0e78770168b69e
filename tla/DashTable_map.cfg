CONSTANTS
  leaves = leaves
  Keys = {k1, k2, k3, k4, k5, k6, leaves}
  Vals = {0, 1}
  HashOf <- Crowd
  NumBuckets = 2
  NumSlots = 2
  NumStash = 1
  Empty = Empty
  NoPtr = NoPtr
  InitSegs = 1
  GrowTries = 1
  Absent = Absent
  RetainSets <- DropSome
  MaxSegs = 8
SPECIFICATION Spec
INVARIANT TypeOK
INVARIANT AllFindable
PROPERTY ImplementsMap
SYMMETRY CrowdSymmetry
VIEW Contents
