SPECIFICATION FairSpec
CONSTANTS
  NumGraphs = 2
  Contents <- PossibleContents
  Fed <- SomeContents
  Tables <- LabelledRight
  MaxFailures = 1
  MaxUpdates = 2
INVARIANTS
  TypeOK
  CodeIsWitnessed
  HintIsRight
PROPERTIES
  ComputationEnds
CHECK_DEADLOCK FALSE
