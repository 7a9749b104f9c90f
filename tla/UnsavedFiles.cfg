SPECIFICATION FairSpec
CONSTANTS
  a = a
  h = h
  None = None
  Files <- OneSource
  Includes <- OneHeader
  HeaderOf <- MainHeader
  Indexers = {i1}
  Main = main
  Reparser = reparser
  MaxMessages = 4
  MaxChanges = 1
  MaxIndexed = 1
INVARIANTS
  SnapshotWhole
  SnapshotFresh
  ReparseSeesChange
  StaleForCause
PROPERTIES
  CatchesUp
CHECK_DEADLOCK FALSE
