SPECIFICATION SSpec
CONSTANTS
  N = 2
  Runs = 2
  Faults = {"raise", "leak", "interrupt", "crash"}
  MaxFaults = 2
  Edits = {"participants", "names", "rest"}
  Foreign = {other}
  other = other
  DockerMayFail = TRUE
INVARIANTS
  STypeOK
  UndisturbedRunCompletes
  TimingTellsTheTruth
  ExitCodeIsHonest
  LeavesHostClean
  PassMeansExecuted
  SoundRunPasses
PROPERTY
  CaptureEndsFirst
