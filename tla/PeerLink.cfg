SPECIFICATION FairSpec
CONSTANTS
  None = None
  PeerRecoveryAttempts = 2
  MaxLosses = 1
  MaxFailures = 2
  MaxRefusals = 1
INVARIANTS
  LinkTypeOK
  RestartUnderWay
  CandidatesFlushed

  
CONSTRAINT TwoFaults
CHECK_DEADLOCK FALSE
