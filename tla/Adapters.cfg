SPECIFICATION Spec
CONSTANTS
  Loggers <- MCLoggers
  Threads = {t1, t2, t3}
  MemBytes = 11
  Cpus = 4
  None = None
SYMMETRY MCSymmetry
INVARIANTS
  TypeOK
  LogsIntoRunning
  TestedAlone
  NameFree
  LostByFailureOnly
  InstancesReturned
  QueueAsNamed
\* the program ends, or is stuck
CHECK_DEADLOCK FALSE
