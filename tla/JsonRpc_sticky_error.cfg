SPECIFICATION Spec
CONSTANTS
  NoOne = NoOne
  MaxMessages = 3
  MaxPublishes = 1
  MaxReparses = 1
INVARIANTS
  RefusedForItself
CHECK_DEADLOCK FALSE
