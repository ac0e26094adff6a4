SPECIFICATION Spec
CONSTANTS
  minCommandLength = 4
  MaxBody = 6
  MaxBytes = 24
INVARIANTS
  TypeOK
  HandledInOrder
  LagBounded
CHECK_DEADLOCK FALSE
