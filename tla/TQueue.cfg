CONSTANTS
  FrontSlackMax = 3
  MaxPush = 12
SPECIFICATION Spec
INVARIANTS
  InOrder
  LossIsBounded
