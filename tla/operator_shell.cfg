SPECIFICATION Spec
CONSTANTS
  board = board
  typo = typo
  api = api
  cli = cli
  model = model
  tree = tree
  make = make
  blink = blink
  None = None
  Reference = Reference
  Boards <- OneBoard
  Typos <- OneTypo
  Providers <- TwoProviders
  NeedsModel <- OnlyApi
  DefaultProvider = api
  Models <- OneModel
  Artifacts <- Nothing
  Workspaces <- OneWorkspace
  BuildCommands <- OneCommand
  Cases <- OneCase
  Suites <- TwoOfThem
  OtherRequests <- ForeignRequests
  MaxRuns = 2
CHECK_DEADLOCK FALSE
INVARIANTS GuidedRunsKeepTheirWord RerunRepeats
PROPERTIES SelectsItsOwn
