SPECIFICATION Spec
CONSTANTS
  Proc = {p1, p2}
  NoLock = NoLock
  UseForce = FALSE
  None = None
  TicksPerSecond = 1
  Free0 = Free0
  MaxTime = 0
PROPERTIES NoLostUpdate
