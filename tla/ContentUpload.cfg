SPECIFICATION UploadSpec
CONSTANTS
  s1 = s1
  s2 = s2
  p1 = p1
  p2 = p2
  None = None
  Sends = {s1, s2}
  Pools = {p1, p2}
  Sizes = {1, 2}
  BurstBytes = 2
  MaxPendingBytes = 3
  MaxPendingSends = 2
  HighWaterMark = 2
  LowWaterMark = 1
  RelayTicks = 1
  MaxTime = 1
  MaxPauses = 1
  MaxChanges = 1
SYMMETRY Symmetry
INVARIANTS
  UploadTypeOK
  RateBound
PROPERTY
  PauseRejectsWaiting
CHECK_DEADLOCK FALSE
