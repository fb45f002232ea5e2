SPECIFICATION Spec
CONSTANTS
  Paths = {a, b}
  Contents = {c1, c2}
  NoPath = NoPath
  Absent = Absent
  Workers = {w1}
  Ops = {"modify", "open", "rename"}
  KEEP_MAX = 2
  KEEP_MIN = 1
  MaxRecords = 3
  Commands = {"status", "add", "commit"}
  CommitHooks = TRUE
SYMMETRY Symmetry
INVARIANTS
  NoEditHidden
  ValidIsClean
  SkippedUntilCommit
