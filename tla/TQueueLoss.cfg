CONSTANTS
  FrontSlackMax = 64
  MaxPush = 66
SPECIFICATION Spec
INVARIANT NothingLost
