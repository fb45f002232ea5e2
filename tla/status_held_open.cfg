SPECIFICATION Spec
CONSTANTS
  Paths = {a, b}
  Contents = {c1, c2}
  NoPath = NoPath
  Absent = Absent
  Workers = {w1}
  Ops = {"open"}
  KEEP_MAX = 3
  KEEP_MIN = 1
  MaxRecords = 3
  Commands = {"status"}
  CommitHooks = FALSE
SYMMETRY Symmetry
INVARIANT StatusSeesWrites
