SPECIFICATION Spec
CONSTANTS
  MaxPacket = 3
  Modulus = 8
  MaxBuffer = 3
  MaxAllowance = 10
INVARIANTS
  TypeOK
  ReceiveWindow
  NeverOverSends
  NothingHeldBack
  NoFalseAlarm
  CloseAnswered
  ClosedOnce
PROPERTIES
  StartResolves
CHECK_DEADLOCK FALSE
