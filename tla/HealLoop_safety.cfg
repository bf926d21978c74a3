SPECIFICATION Spec
CONSTANTS
  Absent = Absent
  MinReplicas = 1
  MaxReplicas = 10
  MaxMemory = 4096
  None = None
  Shared = Shared
  LocalLocks = {}
  e1 = e1
  e2 = e2
  a1 = a1
  a2 = a2
  a3 = a3
  c1 = c1
  c2 = c2
  tenantA = tenantA
  tenantB = tenantB
  Executors <- MCExecutors
  Alerts <- MCAlerts
  Cids <- MCCids
  Namespaces <- MCNamespaces
  CidOf <- MCCidOf
  NsOf <- MCNsOf
  Decisions <- MCDecisions
  Threshold = 2
  Faults = {"crash", "exception", "lost_reply", "late_error", "expiry"}
INVARIANT TypeOK
INVARIANT AtMostOnce
INVARIANT OwnTenantOnly
INVARIANT ResolvedMeansLanded
PROPERTY PromiseKept
PROPERTY BreakerUsed
PROPERTY CoursesTaken
VIEW WithoutAudit
SYMMETRY ExecutorSymmetry
CHECK_DEADLOCK FALSE
