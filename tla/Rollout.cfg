SPECIFICATION Spec
CONSTANTS
  Images = {i1, i2}
  Memories = {m1, m2}
  Unset = Unset
  OthersDeploy = TRUE
  MaxRevision = 3
  MaxRestarts = 2
INVARIANT TypeOK
PROPERTY RollbackRestores
CHECK_DEADLOCK FALSE
