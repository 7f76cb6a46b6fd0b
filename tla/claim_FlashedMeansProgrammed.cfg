SPECIFICATION Spec
CONSTANTS
  nrf = nrf
  stm = stm
  NoSignature = NoSignature
  Boards <- TwoBoards
  RecoverMode <- Modes
  Raw = Raw
  NoHandle = NoHandle
  Images = {i1}
  Paths = {p1}
  DefaultPath = DefaultPath
  FlashRefusals = {"flash/missing-file"}
  BackendErrors = {"target/connection-failure"}
  UartKeys = {u1}
  NoKey = NoKey
  Erased = Erased
  Torn = Torn
  StorageFaults = FALSE
  MaxSessions = 1
  MaxEvents <- Two
  MaxGlobal = 1
PROPERTIES FlashedMeansProgrammed
