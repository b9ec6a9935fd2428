SPECIFICATION Spec
CONSTANTS
  U32Mod = 64
  U64Mod = 4096
  Freq = 1
  NsPerSec = 2
  OverheadNs = 1
  LoggerCount = 1
  ThreadCountIdxs = 1
  Iterations = 1
  ThreadCountSeq <- MCOne
  MaxThreads = 1
  Cpus = 2
  Msgs = 2
  Checked = FALSE
  Outcomes <- MCAnyOutcome
  CreateOutcomes <- MCAlways
  Ticks <- MCTick
PROPERTIES
  ThroughputFaultsReported
\* run_tests ends
CHECK_DEADLOCK FALSE
