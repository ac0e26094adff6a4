SPECIFICATION Spec
CONSTANTS
  minCommandLength = 4
  MaxBody = 2
  MaxBytes = 11
PROPERTY
  EveryCommandHandled
CHECK_DEADLOCK FALSE
