SPECIFICATION Spec
CONSTANTS
  U32Mod = 256
  U64Mod = 65536
  Kilo = 4
  MaxThreads = 4
  LoggerNames <- MCLoggerNames
  ThreadCountSeq <- MCThreadCountSeq
  Argvs <- MCSmallArgvs
INVARIANTS
  SizesKept
\* the program ends, or hands over to the tests
CHECK_DEADLOCK FALSE
