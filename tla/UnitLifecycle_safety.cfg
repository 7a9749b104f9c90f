SPECIFICATION Spec
CONSTANTS
  a = a
  b = b
  h = h
  None = None
  Files <- SmallFiles
  Databases <- OneDatabase
  IncludeSets <- Includes
  HeaderOf <- MainHeader
  Workers = 2
  RetriesMax = 1
  MaxMessages = 2
INVARIANTS
  CurrentUnitUsable
  TableSound
  DeclsOnce
  FreedUnitUse
PROPERTIES
  IndexedUnitStable
CHECK_DEADLOCK FALSE
