SPECIFICATION Spec
CONSTANTS
  Digest = 2
  PoolSize = 3
  FastPool = 1
  SlowPool = 2
  MaxPoolIO = 1
  MaxOctets = 4
  Chan = {0, 1, 2, 3}
  Fd = {0, 1, 2, 3}
  SysFd = {}
  MaxClients = 2
  MaxRequest = 2
  ReqBufLen = 1
  TimeoutSet = FALSE
  RunTime = TRUE
  Drivers = {TRUE, FALSE}
  FrameDump = TRUE
  EFlag = TRUE
  ChaosFails = TRUE
  AllocSet = 8
  MaxAccept = 2
  MaxReady = 2
INVARIANTS
  NoOctetTwice
  WaitingClientIsFed
PROPERTIES
  DumpedFrameIsWithheld
  ServiceImplemented
