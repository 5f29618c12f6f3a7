SPECIFICATION Spec
CONSTANTS
  MBuf <- MCMBuf
  Patterns <- MCPatterns
  PwcLimits <- MCPwcLimits
  PwcSize <- MCSize
  Ov511Limits <- MCOv511Limits
  Ov511Size <- MCSize
  OctetBits = 2
  SHA_DIGESTSIZE = 2
  SHA_BLOCKSIZE = 1
  SaltSize = 3
  Lines <- MCLines
  Cameras <- MCCameras
  Lengths <- MCLengths
  Rooms = {3, 10}
  Rates = {0, 16}
  Prefix = TRUE
  MaxFrames = 3
INVARIANTS
  TypeOK
  SanityAsAsked
  AcceptedIsUsed
  ChaosInsideImage
  AllGivenBack
  LavadumpIsAsLong
  TurnedFits
  EachHashedOnce
  OutputFits
PROPERTIES
  AcceptedDiffer
  FrameFollows
  KeptAsAsked
  FramesServed
