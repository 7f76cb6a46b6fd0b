SPECIFICATION Spec
CONSTANTS
  nucleo = nucleo
  nordic = nordic
  None = None
  Boards <- TwoBoards
  Campaigns <- ManyCampaigns
  MaxSlips <- FewSlips
CHECK_DEADLOCK FALSE
INVARIANTS TypeOK SessionOfItsCase FullSuccessEarned AcceptedOnEvidence
