SPECIFICATION FairSpec
CONSTANTS
  U32Mod = 64
  U64Mod = 4096
  Freq = 1
  NsPerSec = 2
  OverheadNs = 1
  LoggerCount = 1
  ThreadCountIdxs = 1
  Iterations = 1
  ThreadCountSeq <- MCTwo
  MaxThreads = 2
  Cpus = 3
  Msgs = 6
  Checked = TRUE
  Outcomes <- MCAnyOutcome
  CreateOutcomes <- MCAlways
  Ticks <- MCTick
INVARIANTS
  TypeOK
  ShareLogged
PROPERTIES
  ThroughputFaultsReported
  TimesEnclose
  LatencyCoversTeam
  CorrectionDecreases
\* run_tests ends
CHECK_DEADLOCK FALSE
