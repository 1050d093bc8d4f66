CONSTANTS
  r1 = r1
  r2 = r2
  w1 = w1
  w2 = w2
  Readers <- MCReaders
  Writers <- MCWriters
  COUNT_READERS = 2
  COUNT_WRITERS = 2
  SEMVMX = 3
  INT = 2
  MaxRuns = 2
  MayFail = TRUE
SPECIFICATION FairSpec
INVARIANTS
  TypeOK
  NoLostUpdate
  NextRunIsDead
PROPERTIES
  WritersEnterAlone
  WritersProgress
  ReadersHang
CHECK_DEADLOCK FALSE
