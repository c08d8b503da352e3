SPECIFICATION Spec
CONSTANTS
  Threads = {t1, t2}
  k1 = k1
  k2 = k2
  x = x
  y = y
  op = op
  main = main
  Kids <- TwoKids
  Keys <- TwoKeys
  Issuers <- TwoIssuers
  Provider = op
  Static <- ProviderKey
  Answers <- SomeAnswers
  Tokens <- SomeTokens
  None = None
  MaxRequests = 3
  MaxChanges = 1
  MaxLosses = 0
INVARIANTS
  StaticForever
CHECK_DEADLOCK FALSE
