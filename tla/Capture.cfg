SPECIFICATION FairSpec
CONSTANTS
  M = 3
  MaxFaults = 1
INVARIANTS
  TypeOK
  AllStopped
  MeasurementIsAccurate
PROPERTY
  Terminates
