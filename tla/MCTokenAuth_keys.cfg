SPECIFICATION FairSpec
CONSTANTS
  Threads = {t1, t2}
  k1 = k1
  k2 = k2
  x = x
  y = y
  op = op
  main = main
  Kids <- TwoKids
  Keys <- TwoKeys
  Issuers <- TwoIssuers
  Provider = op
  Static <- SecretKey
  Answers <- SomeAnswers
  Tokens <- SomeTokens
  None = None
  MaxRequests = 2
  MaxChanges = 2
  MaxLosses = 1
INVARIANTS
  TypeOK
  CookieWasChecked
PROPERTIES
  ClaimsAreVouched
  UnknownIsTrue
  RequestsEnd
CHECK_DEADLOCK FALSE
