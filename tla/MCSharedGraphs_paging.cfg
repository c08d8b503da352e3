SPECIFICATION Spec
CONSTANTS
  Threads = {t1, t2}
  g = g
  h = h
  unit = unit
  om2 = om2
  i1 = i1
  i2 = i2
  i3 = i3
  Vocabs <- UnitVocabs
  Lists <- TwoLists
  Holds <- SomeHolds
  Items <- SomeItems
  Top = 1
  Skips = {0, 2}
  None = None
  MaxRequests = 1
  MaxRebuilds = 1
INVARIANTS
  NamesOwnGraphs
  PageFitsCount
  TraversalComplete
CHECK_DEADLOCK FALSE
