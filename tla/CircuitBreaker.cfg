SPECIFICATION FairSpec
CONSTANTS
  Threshold = 3
  Window = 2
  Cooldown = 3
  MayRestart = TRUE
  MaxTime = 8
  MaxFailures = 6
INVARIANT TypeOK
INVARIANT TripJustified
INVARIANT NoMissedTrip
INVARIANT AdmittedBehindClosed
PROPERTY PromiseKept
PROPERTY OpenLastsCooldown
PROPERTY ClosesAgain
