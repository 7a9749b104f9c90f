SPECIFICATION FairSpec
CONSTANTS
  a = a
  b = b
  h = h
  None = None
  Files <- SmallFiles
  Databases <- TwoDatabases
  IncludeSets <- Includes
  HeaderOf <- MainHeader
  Workers = 1
  RetriesMax = 1
  MaxMessages = 1
PROPERTIES
  LastIndexSaved
  ShutdownFinishes
CHECK_DEADLOCK FALSE
