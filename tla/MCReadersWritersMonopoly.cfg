CONSTANTS
  r1 = r1
  r2 = r2
  w1 = w1
  w2 = w2
  Readers <- MCReaders
  Writers <- MCWriters
  COUNT_READERS = 2
  COUNT_WRITERS = 2
  SEMVMX = 3
  INT = 4
  MaxRuns = 1
  MayFail = FALSE
SPECIFICATION Spec
INVARIANT
  WriterMonopoly
CHECK_DEADLOCK FALSE
