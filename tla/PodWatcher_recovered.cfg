SPECIFICATION Spec
CONSTANTS
  TenantId = "own"
  None = None
  Now = Now
  Pods = {p1}
  Containers = {c1, c2}
  DeploymentOf <- MCDeploymentOf
  RawPoints <- MCRawPoints
  Threshold = 1
  MaxRestarts = 2
PROPERTY NoFaultMeansRecovered
