CONSTANTS
  p1 = p1
  p2 = p2
  p3 = p3
  Procs <- ThreeProcs
  MaxSignals = 2
  MayFail = TRUE
SPECIFICATION FairSpec
INVARIANTS
  TypeOK
  OneDaemon
  PidFileNamesNoOther
PROPERTIES
  HangupIsHeard
  TermIsObeyed
CHECK_DEADLOCK FALSE
