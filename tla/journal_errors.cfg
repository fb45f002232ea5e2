SPECIFICATION Spec
CONSTANTS
  KEEP_MAX = 4
  KEEP_MIN = 2
  LOG_BYTE_CAP = 9
  Faults = {"power", "write", "prune", "reopen"}
  MaxRecords = 6
INVARIANTS
  AckedStayInWindow
