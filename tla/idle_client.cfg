SPECIFICATION FairSpec
CONSTANTS
  Digest = 1
  PoolSize = 3
  FastPool = 1
  SlowPool = 2
  MaxPoolIO = 2
  MaxOctets = 4
  Chan = {0, 1, 2, 3}
  Fd = {0, 1, 2, 3}
  SysFd = {}
  MaxClients = 1
  MaxRequest = 1
  ReqBufLen = 2
  TimeoutSet = TRUE
  RunTime = FALSE
  Drivers = {TRUE}
  FrameDump = FALSE
  EFlag = FALSE
  ChaosFails = FALSE
  AllocSet = 8
  MaxAccept = 1
  MaxReady = 1
PROPERTIES
  IdleClientIsClosed
