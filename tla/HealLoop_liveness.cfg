SPECIFICATION FairSpec
CONSTANTS
  Absent = Absent
  MinReplicas = 1
  MaxReplicas = 10
  MaxMemory = 4096
  None = None
  Shared = Shared
  LocalLocks = {e1, e2}
  e1 = e1
  e2 = e2
  a1 = a1
  a2 = a2
  a3 = a3
  c1 = c1
  c2 = c2
  tenantA = tenantA
  tenantB = tenantB
  Executors <- MCExecutors
  Alerts <- TwoAlerts
  Cids <- MCCids
  Namespaces <- MCNamespaces
  CidOf <- TwoCidOf
  NsOf <- SameNs
  Decisions <- MCDecisions
  Threshold = 2
  Faults = {"late_error"}
PROPERTY EveryAlertEnds
CHECK_DEADLOCK FALSE
