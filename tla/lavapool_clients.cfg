SPECIFICATION Spec
CONSTANTS
  Digest = 1
  PoolSize = 3
  FastPool = 1
  SlowPool = 2
  MaxPoolIO = 2
  MaxOctets = 1
  Chan = {0, 1, 2, 3, 4}
  Fd = {0, 1, 2, 3, 4, 5}
  SysFd = {0}
  MaxClients = 2
  MaxRequest = 1
  ReqBufLen = 2
  TimeoutSet = TRUE
  RunTime = TRUE
  Drivers = {TRUE, FALSE}
  FrameDump = FALSE
  EFlag = FALSE
  ChaosFails = TRUE
  AllocSet = 2
  MaxAccept = 3
  MaxReady = 3
INVARIANTS
  TypeOK
  DescriptorMap
  DispatchIsCurrent
  ClientLimit
