SPECIFICATION FairSpec
CONSTANTS
  Workers = {w1, w2}
  Main = main
  Names = {a, b}
  Data = {d1}
  PoolSize = 2
  Admin = Admin
  NoRow = NoRow
  NoCode = NoCode
  NoRequest = NoRequest
  MaxWrites = 2
  MaxFaults = 2
INVARIANTS
  AdminReachable
  ConnectionsReturned
PROPERTIES
  BootMirrors
  RequestsEnd
  EventuallyServed
CHECK_DEADLOCK FALSE
