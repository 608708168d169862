SPECIFICATION SwarmSpec
CONSTANTS
  a = a
  b = b
  None = None
  Writers = {a, b}
  Advertised <- AdvertisedAB
  Chunks = {0, 1}
  MaxBytes = 1
  MaxSources = 2
  MaxFaults = 1
  MaxDownloads = 1
  MayDiffer = {b}
INVARIANTS
  SwarmTypeOK
  BudgetKept
  
PROPERTY
  DownloadEnds
CONSTRAINT LastHeld
CHECK_DEADLOCK FALSE
