SPECIFICATION Spec
CONSTANTS
  a = a
  b = b
  h = h
  None = None
  Files <- SmallFiles
  Databases <- OneDatabase
  IncludeSets <- Includes
  HeaderOf <- MainHeader
  Workers = 1
  RetriesMax = 1
  MaxMessages = 1
INVARIANTS
  ReparsesActiveUnits
CHECK_DEADLOCK FALSE
