SPECIFICATION FairSpec
CONSTANTS
  Tables <- AllTables
  Cached <- AllCached
  Datasets <- AllDatasets
  Feeds <- AllFeeds
  Pages <- AllPages
  None = None
  MaxFailures = 1
  MaxUpdates = 1
INVARIANTS
  TypeOK
  StaleCodeHidesNothing
  CodeIsOnlyAHint
  NotFoundIsTrue
PROPERTIES
  EveryRequestEnds
CHECK_DEADLOCK FALSE
