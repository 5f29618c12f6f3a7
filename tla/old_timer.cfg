SPECIFICATION Spec
CONSTANTS
  Count = {2}
  MaxReady = 2
  Original = "handler"
  CallsFail = 1
INVARIANTS
  TimerIsGivenBack
CHECK_DEADLOCK FALSE
