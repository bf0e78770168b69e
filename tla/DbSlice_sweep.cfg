CONSTANTS
  s1 = s1
  Strings = {}
  Trimmed <- NotIntegers
  List = List
  Absent = Absent
  NoDeadline = NoDeadline
  Keys = {1, 2}
  Dbs = {0}
  IntMax = 0
  U64 = 3
  Ttls <- OneTtl
  SecMs = 1
  SweepCount = 2
  SetFlags <- FewFlags
  MaxNow = 1
SPECIFICATION FairSpec
PROPERTY ExpiredReclaimed
PROPERTY SweepProgress
