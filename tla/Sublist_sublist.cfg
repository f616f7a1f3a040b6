SPECIFICATION Spec
CONSTANTS
  Subjects <- MCSubjects
  Literals <- MCLiterals
  Ids = {1}
  Threads = {t1, t2}
  MaxSubs = 2
  CMax = 3
  Hash <- MCHash
  BSZ = 1
  MaxBktSize = 1024
SYMMETRY Alike
INVARIANTS TypeOK CacheAgrees TreeTidy
PROPERTIES InterestSpec
CHECK_DEADLOCK FALSE
