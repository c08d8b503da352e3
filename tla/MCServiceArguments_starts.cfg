SPECIFICATION FairSpec
CONSTANTS
  db = db
  Words <- SomeWords
  Number <- SomeNumber
  Truths <- SomeTruths
  Lies <- SomeLies
  Names <- SomeNames
  Setups <- SomeSetups
  Environs <- SomeEnvirons
  Targets = {"x", "y", "z"}
  Hosts = {db}
  HostIn <- SomeHostIn
  Patience = 2
  MaxDepth = 4
  None = None
  MaxStarts = 2
  MaxFlips = 3
  MaxFaults = 2
INVARIANTS
  MatchesReference
  GivenHasType
  EndedIsCurrent
  WaitedForHost
PROPERTIES
  StartEnds
CHECK_DEADLOCK FALSE
