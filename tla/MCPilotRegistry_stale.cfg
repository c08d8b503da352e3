SPECIFICATION Spec
CONSTANTS
  Workers = {w1, w2}
  Main = main
  Names = {a, b}
  Data = {d1, d2}
  PoolSize = 3
  Admin = Admin
  NoRow = NoRow
  NoCode = NoCode
  NoRequest = NoRequest
  MaxWrites = 2
  MaxFaults = 0
SYMMETRY Symmetry
INVARIANTS
  RoutesMirrorTable
CHECK_DEADLOCK FALSE
