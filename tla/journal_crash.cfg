SPECIFICATION Spec
CONSTANTS
  KEEP_MAX = 3
  KEEP_MIN = 1
  LOG_BYTE_CAP = 2
  Faults = {"crash", "fallback"}
  MaxRecords = 6
INVARIANTS
  TypeOK
  HonestTokensInclusive
  RestartAgrees
  RecentTokensPlace
PROPERTIES
  LabelsNeverMoveBack
