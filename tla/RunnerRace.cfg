SPECIFICATION Spec
CONSTANTS
  N = 1
  Binary = {}
  Daemons = {}
  Endless = {}
  MayInterrupt = FALSE
INVARIANTS
  SpontaneousExitIsFailure
