SPECIFICATION Spec
CONSTANTS
  good = good
  half = half
  Images <- TwoImages
  UartOk <- TwoImages
  SymbolOk <- OnlyGood
  Other = half
  Torn = Torn
  Erased = Erased
  NoImage = NoImage
  CheckSymbol = TRUE
  RecoverAllowed = TRUE
  MaxIters = 5
  MaxTimeouts = 1
CHECK_DEADLOCK FALSE
INVARIANT SuccessHoldsVerified
