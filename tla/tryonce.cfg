SPECIFICATION Spec
CONSTANTS
  S100_RESEED_CYCLES = 1
  S100_BUF = 2
  SEED_SIZE = 3
  MIN_BUF_SIZE = 2
  MAX_BUF_SIZE = 4
  LAVA_MAX_LEN_ARG = 2
  MaxRequest = 2
  ExitRetries = 1
  ReturnRetries = 1
  S100Retries = 1
  Preseed = TRUE
  PreseedAmt = 1
  Callbacks = {"TRY_HIGH", "TRYONCE_MED"}
  Lens = {0, 2, 3}
  Dice = {2}
  PreloadLens <- MCPreloadLens
  MaxServed = 5
PROPERTY
  DaemonErrIsCurrent
CHECK_DEADLOCK FALSE
