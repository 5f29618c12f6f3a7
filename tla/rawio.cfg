SPECIFICATION Spec
CONSTANTS
  Count = {2}
  MaxReady = 2
  Original = "handler"
  CallsFail = 1
INVARIANTS
  TypeOK
  ResultTellsOctets
  HandlerIsGivenBack
PROPERTIES
  MyRingIsMine
  TimedCallEnds
CHECK_DEADLOCK FALSE
