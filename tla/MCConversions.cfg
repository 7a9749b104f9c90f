SPECIFICATION Spec
CONSTANTS
  Upper <- MCUpper
  cwd <- MCCwd
  Reserved <- MCReserved
  Bytes <- MCBytes
  ELEMENT_MAX = 10
  Alphabet <- MCAlphabet
  Beginnings <- MCBeginnings
  MaxTyped <- MCMaxTyped
  Sources <- MCSources
  Alphas <- MCAlphas
  Digits <- MCDigits
  Blanks <- MCBlanks
  Lower <- MCLower
  Results <- MCResults
  completion_priority_max = 2
  completion_results_max = 3
INVARIANT
  NormalPathSame
  OwnUriComesBack
  MainHeaderByName
  ElementsDecoded
  BlocksKept
  CompleteListEnough
CHECK_DEADLOCK FALSE
