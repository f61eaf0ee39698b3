SPECIFICATION Spec
CONSTANTS
  N = 1
  Binary = {0}
  Daemons = {}
  Endless = {}
  MayInterrupt = FALSE
INVARIANTS
  OutputNeverRaises
