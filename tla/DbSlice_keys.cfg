CONSTANTS
  s1 = s1
  Strings <- OneString
  Trimmed <- PaddedZero
  List = List
  Absent = Absent
  NoDeadline = NoDeadline
  Keys = {1, 2}
  Dbs = {0}
  IntMax = 0
  U64 = 4
  Ttls <- SignedTtls
  SecMs = 2
  SweepCount = 1
  SetFlags <- SomeFlags
  MaxNow = 2
SPECIFICATION Spec
INVARIANT TypeOK
INVARIANT NoOrphanDeadline
PROPERTY FreshKeyDeadline
PROPERTY ImplementsEagerStore
VIEW Contents
