SPECIFICATION FairSpec
CONSTANTS
  MaxThreads = 4
  Cpus = 5
  ThreadCounts <- MCThreadCounts
INVARIANTS
  TypeOK
  StartTogether
  AliveWhileUsed
  FrameOutlivesThreads
  TimedApart
PROPERTIES
  KeepsContract
  CallsReturn
\* a failed create ends the program
CHECK_DEADLOCK FALSE
