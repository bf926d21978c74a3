SPECIFICATION FairSpec
CONSTANTS
  TenantId = "own"
  None = None
  Now = Now
  Pods = {p1, p2}
  Containers = {c1}
  DeploymentOf <- MCDeploymentOf
  RawPoints <- MCRawPoints
  Threshold = 0
  MaxRestarts = 1
INVARIANTS TypeOK WatcherMeetsContract AcceptedIsClean
PROPERTIES NoFaultMeansServing RestartsAreNoticed
