SPECIFICATION Spec
CONSTANTS
  nrf = nrf
  stm = stm
  NoSignature = NoSignature
  Boards <- TwoBoards
  RecoverMode <- Modes
  Raw = Raw
  NoHandle = NoHandle
  Images = {i1}
  Paths = {p1}
  DefaultPath = DefaultPath
  FlashRefusals = {"flash/missing-file"}
  BackendErrors = {"target/connection-failure"}
  UartKeys = {u1, u2}
  NoKey = NoKey
  Erased = Erased
  Torn = Torn
  StorageFaults = FALSE
  MaxSessions = 1
  MaxEvents <- OneLong
  MaxGlobal = 1
INVARIANTS TypeOK SessionIffHandle FilesMatchRecord BlockedIffRepeated
PROPERTIES FlashChangesOnlyWhenAllowed ImplementsCounter ImplementsContract
