CONSTANTS
  N = 3
  MAXSIZE = 4
  LIMIT = 3
  T1 <- OneThree
  T2 <- OneTwo
  T3 <- OneThree
  T4 <- OneTwo
  MaxLost = 1
SPECIFICATION FairSpec
INVARIANTS
  TypeOK
  PointersTell
  LateTogether
PROPERTIES
  Finishes
CHECK_DEADLOCK FALSE
