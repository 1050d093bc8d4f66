CONSTANTS
  c1 = c1
  c2 = c2
  c3 = c3
  N = 3
  Clients <- ThreeClients
  Retried <- NoCalls
  MaxSends = 1
  MaxFailures = 0
SPECIFICATION FairSysSpec
PROPERTY
  ServedOrWedged
CHECK_DEADLOCK FALSE
