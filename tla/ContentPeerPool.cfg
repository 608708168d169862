SPECIFICATION PoolSpec
CONSTANTS
  Participants = {a, b, c}
  None = None
  MaxPeers = 1
  MaxConnections = 3
  MaxFaults = 1
SYMMETRY Symmetry
INVARIANTS
  PoolTypeOK
  CollisionKeepsOne
  NoDialHangs
PROPERTY
  OnlyCurrentSpeaks
CHECK_DEADLOCK FALSE
