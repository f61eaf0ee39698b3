SPECIFICATION SSpec
CONSTANTS
  N = 1
  Runs = 1
  Faults = {"leak"}
  MaxFaults = 1
  Edits = {}
  Foreign = {}
  DockerMayFail = TRUE
INVARIANT
  PassMeansClean
