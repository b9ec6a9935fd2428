SPECIFICATION FairSpec
CONSTANTS
  U32Mod = 64
  U64Mod = 4096
  Freq = 1
  NsPerSec = 2
  OverheadNs = 0
  LoggerCount = 2
  ThreadCountIdxs = 2
  Iterations = 2
  ThreadCountSeq <- MCOneTwo
  MaxThreads = 2
  Cpus = 3
  Msgs = 2
  Checked = FALSE
  Outcomes <- MCAlways
  CreateOutcomes <- MCAnyOutcome
  Ticks <- MCStill
INVARIANTS
  EveryCellReported
PROPERTIES
  CompletedCellsKept
  RunsHarness
  SuiteReturns
\* run_tests ends
CHECK_DEADLOCK FALSE
