SPECIFICATION Spec
CONSTANTS
  one = one
  two = two
  nordic = nordic
  blinky = blinky
  shell = shell
  None = None
  Torn = Torn
  Builders <- TwoBuilders
  Modules <- Hals
  Apps <- TwoApps
  Hosts <- ManyHosts
  Requests <- ManyRequests
  HexImages <- Hexes
  NestedApps <- Nested
  MaxVersion = 2
  MaxFaults = 2
INVARIANTS ManagedWorkspaceReady SdkTrusted SuccessMeansFresh
PROPERTIES Recovers
