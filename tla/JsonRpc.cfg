SPECIFICATION FairSpec
CONSTANTS
  NoOne = NoOne
  MaxMessages = 3
  MaxPublishes = 1
  MaxReparses = 1
INVARIANTS
  AnsweredOnceInOrder
  RefusedForCause
PROPERTIES
  EachRequestAnswered
CHECK_DEADLOCK FALSE
