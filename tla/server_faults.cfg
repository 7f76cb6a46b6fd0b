SPECIFICATION Spec
CONSTANTS
  nrf = nrf
  stm = stm
  NoSignature = NoSignature
  Boards <- OneBoard
  RecoverMode <- Modes
  Raw = Raw
  NoHandle = NoHandle
  Images = {i1}
  Paths = {p1}
  DefaultPath = DefaultPath
  FlashRefusals = {"flash/missing-file"}
  BackendErrors = {"target/connection-failure"}
  UartKeys = {u1}
  NoKey = NoKey
  Erased = Erased
  Torn = Torn
  StorageFaults = TRUE
  MaxSessions = 2
  MaxEvents <- LongThenShort
  MaxGlobal = 1
VIEW SessionView
INVARIANTS BlockedOnlyIfRepeated RecoverOncePerSession FilesNeverAhead
PROPERTIES EndedRunsFrozen
