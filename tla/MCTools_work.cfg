SPECIFICATION FairSpec
CONSTANTS
  None = None
  Arguments <- SomeArguments
  Switches <- SomeSwitches
  Calls <- SomeCalls
  Allowed <- LocalHost
  MaxDepth = 2
  MaxSent = 3
  MaxRaises = 1
  Commands = {c1, c2}
  Options <- SomeOptions
  Records = {r1, r2}
  MaxErrors = 1
  MaxSignals = 3
  MaxEnds = 2
INVARIANTS
  BlocksInForce
  DeletedOnRequest
  EndedIsDone
  RestartsAreAsked
PROPERTIES
  RefererOfLatest
  StopEnds
  ReloadStarts
CHECK_DEADLOCK FALSE
