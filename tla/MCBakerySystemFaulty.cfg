CONSTANTS
  c1 = c1
  c2 = c2
  c3 = c3
  N = 4
  Clients <- TwoClients
  Retried <- GetAndRes
  MaxSends = 2
  MaxFailures = 1
SPECIFICATION SysSpec
INVARIANTS
  InArrays
  NoLetterTwice
PROPERTIES
  OrphansBlock
  UsesServerProperly
SYMMETRY TwoSymmetric
CHECK_DEADLOCK FALSE
