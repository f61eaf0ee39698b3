SPECIFICATION Spec
CONSTANTS
  N = 3
  Binary = {}
  Daemons = {0, 1}
  Endless = {"startup", "drain"}
  MayInterrupt = FALSE
INVARIANTS
  TypeOK
  EveryLossReportedOnce
  SuccessIsClean
  NothingLeft
PROPERTIES
  SenderFirst
  Supervises
