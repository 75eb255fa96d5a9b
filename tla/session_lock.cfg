SPECIFICATION SessionSpec
CONSTANTS
  Proc = {p1, p2}
  NoLock = NoLock
  UseForce = FALSE
INVARIANTS SessionExclusion
