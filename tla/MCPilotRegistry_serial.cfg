SPECIFICATION Spec
CONSTANTS
  Workers = {w1}
  Main = main
  Names = {a, b}
  Data = {d1, d2}
  PoolSize = 2
  Admin = Admin
  NoRow = NoRow
  NoCode = NoCode
  NoRequest = NoRequest
  MaxWrites = 4
  MaxFaults = 1
SYMMETRY Symmetry
PROPERTIES
  WritesAreAtomic
CHECK_DEADLOCK FALSE
