SPECIFICATION Spec
CONSTANTS
  Zero = 0
  UnaryOps <- MCUnaryOps
  UnaryFn <- MCUnaryFn
  ArithFn <- MCArithFn
  NestNum = 2
  SpuNum = 2
  L1Size = 1
  L2Size = 2
  DdrSize = 2
  DdrBase = 9
  SvrNum = 1
  SvrLen = 1
  Val <- MCVal
  InitL2 <- EagerL2
  InitDdr <- EagerDdr
  FusionEnabled = FALSE
  ChkFlush = TRUE
  Fw <- EagerFw
  MaxBuf = 0
  MaxDeferred = 2
  MaxCredit = 0
PROPERTIES
  CommitWritesLatest
  ReachesOnlySelected
CHECK_DEADLOCK FALSE
