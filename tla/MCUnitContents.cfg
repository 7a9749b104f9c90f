SPECIFICATION Spec
CONSTANTS
  a = a
  b = b
  h = h
  None = None
  Main = Main
  Reparser = Reparser
  Files <- MCFiles
  USRs <- MCUSRs
  Fixits <- MCFixits
  Translations <- MCTranslations
  DIAG_MAX_PER_FILE = 1
  MaxMessages = 3
INVARIANT
  IndexExact
  HeadersAgree
  StaleIncludesForCause
  FixitsWhole
  StaleFixitsForCause
  StaleListForCause
CHECK_DEADLOCK FALSE
