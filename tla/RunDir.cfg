SPECIFICATION FairSpec
CONSTANTS
  Procs = {p1, p2, p3}
  Stamps = {t1, t2}
INVARIANTS
  NeverShared
  ValidatesItsOwn
PROPERTIES
  EveryRunGetsOne
  AllocatesAtomically
