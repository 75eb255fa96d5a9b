SPECIFICATION Spec
CONSTANTS
  Ids <- SomeIds
  None = None
  Checkpoints = {c1, c2}
  CheckFiles = {f1, f2}
  Retention = 2
  MaxEdits = 2
INVARIANTS KilledRepairIsFinished RepairSettles  DoctorSeesWhatCheckRefuses
PROPERTIES RewrittenTextIsKept
CHECK_DEADLOCK FALSE
