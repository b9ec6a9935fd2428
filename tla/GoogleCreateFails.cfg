SPECIFICATION FairSpec
CONSTANTS
  MaxThreads = 3
  ThreadCounts <- MCThreadCounts
  CreateOutcomes <- MCNever
  PrepareOutcomes <- MCAlways
PROPERTIES
  RunsReturn
\* threads that spin for ever are what this run is about
CHECK_DEADLOCK FALSE
