SPECIFICATION Spec
CONSTANTS
  Paths = {a, b}
  NoPath = NoPath
  Workers = {w1, w2}
  Callbacks = {"lookup", "getattr", "opendir"}
  MaxIno = 5
  MaxFiles = 2
  MaxLookups = 2
SYMMETRY Symmetry
CHECK_DEADLOCK FALSE
INVARIANTS
  TypeOK
  TableAgrees
  KernelRefsCovered
  IdentityFollowsFile
PROPERTIES
  NumbersNeverReused
