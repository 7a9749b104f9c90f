CONSTANTS
  JsonValues <- MCJsonValues
  Params <- MCParams
  Values <- MCValues
SPECIFICATION ExchangeSpec
INVARIANTS
  RequestReadsDecoded
  HeapReturns
  Lossless
