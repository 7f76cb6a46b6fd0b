SPECIFICATION Spec
CONSTANTS
  x = x
  y = y
  Expected <- Greeting
  Pinned <- PinnedTargets
  FamilyHints <- HintsOf
  Worlds <- Benches
  NoProbe = NoProbe
  NoPort = NoPort
  NoUid = NoUid
  Absent = Absent
  NoVerdict = NoVerdict
  NoDevice = NoDevice
  Erased = Erased
  Torn = Torn
  ReadSeconds = 20
  Window = 15
  ReopenDelay = 3
  ReopenAttempts = 1
  MinTimeout = 1
  MaxTimeout = 4
CHECK_DEADLOCK FALSE
INVARIANTS HostReadyFindsBoard ExitZeroMeansProven CaptureInTime
PROPERTIES Exits
