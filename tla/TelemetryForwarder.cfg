SPECIFICATION FairSpec
CONSTANTS
  Workers = {w1, w2}
  Windows = {p1, p2}
  MaxCopies = 1
  MaxRetries = 1
  Retries500 = 1
  Retries429 = 1
  MayCrash = TRUE
  None = None
INVARIANT TypeOK
INVARIANT PostsBounded
PROPERTY PromiseKept
PROPERTY EveryCallEnds
CHECK_DEADLOCK FALSE
