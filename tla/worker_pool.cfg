SPECIFICATION PoolFairSpec
CONSTANTS
  Workers = {w1, w2, w3}
  Main = Main
  Jobs = {j1, j2, j3, j4}
  NoJob = NoJob
  NoThread = NoThread
INVARIANTS
  DropLeavesNoWorker
PROPERTIES
  JobsRun
  DropReturns
