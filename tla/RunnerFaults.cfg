SPECIFICATION FairSpec
CONSTANTS
  N = 2
  Binary = {0, 2}
  Daemons = {0, 1}
  Endless = {"startup", "duration", "shutdown", "drain"}
  MayInterrupt = TRUE
INVARIANT
  ReceiversCollected
PROPERTY
  Terminates
