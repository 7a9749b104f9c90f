CONSTANTS
  MaxChanges = 4
  Garbage = Garbage
SPECIFICATION FairSpec
INVARIANTS
  NoLostWakeup
  GarbageOnlyAfterRace
  NothingSkipped
PROPERTIES
  ChangeHandled
  ShutdownCompletes
CHECK_DEADLOCK FALSE
