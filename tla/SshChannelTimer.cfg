SPECIFICATION Spec
CONSTANTS
  MaxPacket = 2
  Modulus = 6
  MaxBuffer = 1
  MaxAllowance = 6
INVARIANT
  TimerMeansWaiting
CHECK_DEADLOCK FALSE
