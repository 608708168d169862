SPECIFICATION FairSpec
CONSTANTS
  Sockets = {w1, w2, w3}
  None = None
  MaxSetups = 3
  MaxAttempts = 2
INVARIANTS
  SessionTypeOK
  OneLiveSocket
  CallerAgrees
  CancelledSessionRests
PROPERTY
  LossIsHandled
CHECK_DEADLOCK FALSE
