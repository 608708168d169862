SPECIFICATION FilesSpec
CONSTANTS
  None = None
  r1 = r1
  r2 = r2
  p = p
  Ids = {r1, r2}
  Providers = {p}
  Chunks = 2
  MaxPending = 2
  MaxFaults = 2
INVARIANTS
  FilesTypeOK
  NoStuckTransfer
PROPERTY
  RequestsSettle
CHECK_DEADLOCK FALSE
