SPECIFICATION FairSpec
CONSTANTS
  N = 1
  Seconds = {2}
  PingWait = 1
  Pause = 1
PROPERTY
  SilenceEndsTheWait
