SPECIFICATION Spec
CONSTANTS
  NumGraphs = 1
  Contents <- PossibleContents
  Fed <- PossibleContents
  Tables <- CodedTables
  MaxFailures = 0
  MaxUpdates = 0
INVARIANTS
  HintIsRight
CHECK_DEADLOCK FALSE
