SPECIFICATION FairSpec
CONSTANTS
  Mounts = {m1, m2}
  Paths = {"plain", "lfs", "fresh"}
  Tracked = {"plain", "lfs"}
  Attrs <- MCAttrs
  Declares <- MCDeclares
  MaxTimeouts = 1
  MaxEdits = 2
  MaxServes = 3
INVARIANTS OneServer ConvertedNotSeeded RestartShowsSameTree
PROPERTY MountReturns
CHECK_DEADLOCK FALSE
