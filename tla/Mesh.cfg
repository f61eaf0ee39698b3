SPECIFICATION FairSpec
CONSTANTS
  N = 2
  Seconds = {0, 12}
  PingWait = 5
  Pause = 1
INVARIANTS
  TypeOK
  AnswerIsRight
  BoundedWait
PROPERTY
  Terminates
