SPECIFICATION MCSpec
CONSTANTS
  None = None
  Absent = None
  TenantId = "tenant"
  UuidV4 = {"tenant", "another tenant"}
  Instants = {"t1", "t2", "now", "1970", "1750"}
  Now = "now"
  Epoch = "1970"
  Spelt = "1750"
  FlapWindow = 600
  FlapThreshold = 3
  MinReplicas = 1
  MaxReplicas = 10
  MaxMemory = 4096
INVARIANT HandoffAccepted
INVARIANT ConvertedOnce
INVARIANT InstantKept
INVARIANT ExpectedOutcome
INVARIANT GateExact
INVARIANT ReasonIsTrue
INVARIANT WholeRepliesAct
INVARIANT BundleTells
PROPERTY CourseTaken
CHECK_DEADLOCK FALSE
