CONSTANTS
  p1 = p1
  p2 = p2
  c1 = c1
  c2 = c2
  Producers <- MCProducers
  Consumers <- MCConsumers
  SEMVMX = 9
  SIZE_BUF = 2
  CELLS = 4
  CHAR = 3
  MaxLetters = 5
  MaxKills = 4
SPECIFICATION FairSpec
INVARIANTS
  TypeOK
  CellsCounted
  StuckForAReason
PROPERTIES
  ImplementsBuffer
  ProducedIsConsumed
  WedgesInTheEnd
CHECK_DEADLOCK FALSE
