SPECIFICATION Spec
CONSTANTS
  Zero = 0
  UnaryOps <- MCUnaryOps
  UnaryFn <- MCUnaryFn
  ArithFn <- MCArithFn
  NestNum = 1
  SpuNum = 1
  L1Size = 1
  L2Size = 2
  DdrSize = 2
  DdrBase = 8
  SvrNum = 1
  SvrLen = 1
  Val <- MCVal
  InitL2 <- EagerL2
  InitDdr <- EagerDdr
  FusionEnabled = TRUE
  ChkFlush = FALSE
  Fw <- CopyMemFw
  MaxBuf = 0
  MaxDeferred = 1
  MaxCredit = 1
PROPERTIES
  CopyMemServesEveryPair
CHECK_DEADLOCK FALSE
