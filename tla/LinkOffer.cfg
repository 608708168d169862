SPECIFICATION FairSpec
CONSTANTS
  None = None
  PeerRecoveryAttempts = 1
  MaxLosses = 1
  MaxFailures = 0
  MaxRefusals = 0
PROPERTY
  EveryOfferAnswered
CHECK_DEADLOCK FALSE
