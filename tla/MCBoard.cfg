CONSTANTS
  XSize = 2
  YSize = 3
  Openings <- MCEmpty
  Placements <- MCPlacements
  Suicide = TRUE
  MaxRecords = 2
SPECIFICATION Spec
INVARIANTS
  BookkeepingExact
  PredictionsExact
PROPERTY
  ImplementsGoBoard
