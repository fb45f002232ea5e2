SPECIFICATION Spec
CONSTANTS
  Paths = {a, b}
  Baseline = {a}
  NoPath = NoPath
  Workers = {w1, w2}
  Ops = {"create", "symlink", "unlink", "rename", "truncate", "openTrunc", "chmod", "open"}
  CutOps = {"create", "symlink", "unlink", "rename", "truncate", "openTrunc", "chmod", "open"}
  Errors = TRUE
  Losses = {}
  ReusePids = FALSE
  Modes = {TRUE}
  MaxStarts = 3
  MaxSeq = 2
  MaxWrites = 1
  MaxRestarts = 2
SYMMETRY Symmetry
CHECK_DEADLOCK FALSE
INVARIANTS
  SettledReadsBack
  SettledIsDurable
  HandlesReachTheirFile
  ContentHasOneOwner
PROPERTIES
  InterruptedIsOldOrNew
