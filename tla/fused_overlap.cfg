SPECIFICATION Spec
CONSTANTS
  Zero = 0
  UnaryOps <- MCUnaryOps
  UnaryFn <- MCUnaryFn
  ArithFn <- MCArithFn
  NestNum = 1
  SpuNum = 1
  L1Size = 2
  L2Size = 3
  DdrSize = 1
  DdrBase = 8
  SvrNum = 1
  SvrLen = 1
  Val <- MCVal
  InitL2 <- OverlapL2
  InitDdr <- TLoopDdr
  FusionEnabled = TRUE
  ChkFlush = FALSE
  Fw <- OverlapFw
  MaxBuf = 6
  MaxDeferred = 1
  MaxCredit = 1
INVARIANTS
  DrainIsReplay
CONSTRAINT FrameShaped
