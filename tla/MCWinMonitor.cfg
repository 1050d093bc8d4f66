CONSTANTS
  r1 = r1
  r2 = r2
  w1 = w1
  w2 = w2
  Readers <- TwoReaders
  Writers <- TwoWriters
  RRUNS = 1
  WRUNS = 2
  MayFail = TRUE
SPECIFICATION FairSpec
INVARIANTS
  TypeOK
  NoLostWakeup
PROPERTY
  AllFinish
CHECK_DEADLOCK FALSE
