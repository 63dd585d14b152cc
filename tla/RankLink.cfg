SPECIFICATION FairSpec
CONSTANTS
  Gathers = 3
  Rows = 5
  TokenCount = 1
  DraftCounts = {0, 2}
  WordCells = 2
  Capacity = 3
INVARIANTS
  NoMutualWait
  GonePeerIsNoticed
  RowsStayInStep
  VerdictIsTruthful
  NothingLeftBehind
PROPERTIES
  Returns
