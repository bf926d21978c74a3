SPECIFICATION Spec
CONSTANTS
  Threshold = 2
  Window = 2
  Cooldown = 2
  MayRestart = FALSE
  MaxTime = 6
  MaxFailures = 4
PROPERTY TrialFailureReopens
