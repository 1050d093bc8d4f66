CONSTANTS
  N <- MCN
SPECIFICATION FairSpec
INVARIANTS
  MutualExclusion
  LetterMatchesTicket
  IInv
PROPERTIES
  QueuedIsServed
  ServesInOrder
CHECK_DEADLOCK FALSE
