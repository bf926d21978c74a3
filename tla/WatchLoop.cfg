SPECIFICATION Spec
CONSTANTS
  FlapWindow = 4
  FlapThreshold = 3
  PollInterval = 1
  HealCooldown = 2
  MaxHandling = 2
  FailThreshold = 2
  FailWindow = 2
  OpenCooldown = 2
  MayRestart = TRUE
  MaxTime = 9
  None = None
  d1 = d1
  d2 = d2
  svc = svc
  Deployments <- MCDeployments
  Services <- MCServices
  ServiceOf <- MCServiceOf
INVARIANT TypeOK
INVARIANT FlapNeedsTwoDeployments
INVARIANT FailuresOfDistinctDeployments
INVARIANT TakenUpPromptly
PROPERTY HealsSpaced
SYMMETRY DeploymentSymmetry
CHECK_DEADLOCK FALSE
