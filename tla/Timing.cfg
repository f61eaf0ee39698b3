SPECIFICATION TSpec
CONSTANTS
  N = 2
  Startup = 1
  Durations = {1, 3}
  MinWait = 1
  Drain = 2
  Shutdowns = {1, 2}
  Poll = 1
  Latency = 2
  Before = {1}
  After = 1
  Adjustment = 40
INVARIANTS
  TTypeOK
  ListeningReceiverStopsCleanly
  DrainIsEnough
  ProtocolEndsInTime
  DurationsAddUp
  PacketsAlign
