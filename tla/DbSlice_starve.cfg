CONSTANTS
  s1 = s1
  Strings = {}
  Trimmed <- NotIntegers
  List = List
  Absent = Absent
  NoDeadline = NoDeadline
  Keys = {1, 2}
  Dbs = {0}
  IntMax = 0
  U64 = 4
  Ttls <- FewTtls
  SecMs = 1
  SweepCount = 1
  SetFlags <- FewFlags
  MaxNow = 2
SPECIFICATION Spec
PROPERTY SweepProgress
VIEW Contents
