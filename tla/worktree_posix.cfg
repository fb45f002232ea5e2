SPECIFICATION Spec
CONSTANTS
  Paths <- MCPaths
  Contents <- MCContents
  GITFILE <- MCGitfile
  BaselineDirs <- MCDirs
  BaselineFiles <- MCFiles
  BaselineLinks <- MCLinks
  Leftovers = FALSE
INVARIANTS
  ListingAgrees
PROPERTIES
  ImplementsPosix
  ChangesAreRecorded
