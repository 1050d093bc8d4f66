CONSTANTS
  N = 3
  MaxStops = 2
SPECIFICATION FairSpec
INVARIANTS
  TypeOK
  NothingLost
PROPERTIES
  ParentEnds
CHECK_DEADLOCK FALSE
