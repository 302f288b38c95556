SPECIFICATION Spec
CONSTANTS
  Zero = 0
  UnaryOps <- MCUnaryOps
  UnaryFn <- MCUnaryFn
  ArithFn <- MCArithFn
  NestNum = 2
  SpuNum = 2
  L1Size = 1
  L2Size = 1
  DdrSize = 1
  DdrBase = 8
  SvrNum = 1
  SvrLen = 1
  Val <- MCVal
  InitL2 <- OneCell
  InitDdr <- OneCell
  FusionEnabled = TRUE
  ChkFlush = FALSE
  Fw <- CreditsFw
  MaxBuf = 2
  MaxDeferred = 1
  MaxCredit = 1
INVARIANTS
  TypeOK
  QuietOutsidePlan
PROPERTIES
  LedgerRefinement
CHECK_DEADLOCK FALSE
