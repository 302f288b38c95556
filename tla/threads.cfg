SPECIFICATION Spec
CONSTANTS
  Zero = 0
  UnaryOps <- MCUnaryOps
  UnaryFn <- MCUnaryFn
  ArithFn <- MCArithFn
  NestNum = 1
  SpuNum = 2
  L1Size = 2
  L2Size = 1
  DdrSize = 1
  DdrBase = 8
  SvrNum = 1
  SvrLen = 1
  Val <- MCVal
  InitL2 <- ThreadsImage
  InitDdr <- ThreadsImage
  FusionEnabled = TRUE
  ChkFlush = FALSE
  Fw <- ThreadsFw
  MaxBuf = 2
  MaxDeferred = 1
  MaxCredit = 1
PROPERTIES
  FusedEqualsEager
  ReachesOnlySelected
CHECK_DEADLOCK FALSE
CONSTRAINT SvrsOrScalars
