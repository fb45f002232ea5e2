SPECIFICATION FairSpec
CONSTANTS
  Blobs = {b1, b2, b3}
  Binary = {b3}
  Writable = {b2}
  Size <- MCSize
  Readers = {r1}
  Sizers = {s1}
  Warmers = {h1}
  Nobody = Nobody
  Dir = Dir
  PREFETCH_DIR_THRESHOLD = 2
  PREFETCH_BYTE_BUDGET = 1
  HYDRATE_BYTE_BUDGET = 1
  DIR_CAP = 2
  HYDRATE_LARGE_BLOB = 1
  MaxFails = 1
  MaxCrashes = 1
INVARIANTS
  FaultedOnce
  ServedWhole
  BudgetsHold
PROPERTY CallersAnswered
CHECK_DEADLOCK FALSE
