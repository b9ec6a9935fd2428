SPECIFICATION FairSpec
CONSTANTS
  MaxThreads = 3
  ThreadCounts <- MCThreadCounts
  CreateOutcomes <- MCAlways
  PrepareOutcomes <- MCAny
INVARIANTS
  TypeOK
  CleanHandover
PROPERTIES
  KeepsContract
  RunsReturn
