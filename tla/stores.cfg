SPECIFICATION Spec
CONSTANTS
  Zero = 0
  UnaryOps <- MCUnaryOps
  UnaryFn <- MCUnaryFn
  ArithFn <- MCArithFn
  NestNum = 2
  SpuNum = 1
  L1Size = 1
  L2Size = 2
  DdrSize = 3
  DdrBase = 8
  SvrNum = 1
  SvrLen = 1
  Val <- MCVal
  InitL2 <- StoresL2
  InitDdr <- StoresDdr
  FusionEnabled = TRUE
  ChkFlush = FALSE
  Fw <- StoresFw
  MaxBuf = 1
  MaxDeferred = 2
  MaxCredit = 1
INVARIANTS
  TypeOK
  QuietOutsidePlan
PROPERTIES
  CommitWritesLatest
  StoreBeforeOverwrite
CHECK_DEADLOCK FALSE
