CONSTANTS
  MAXSIZE = 10
  Inputs <- MCInputs
SPECIFICATION Spec
INVARIANTS
  TypeOK
  ArrayConverts
  ListConverts
CHECK_DEADLOCK FALSE
