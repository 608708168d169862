SPECIFICATION Spec
CONSTANTS
  LobbyIds = {l1, l2, l3}
  ParticipantIds = {p1, p2, p3}
  Senders = {s1}
  References = {g1, g2}
  Sizes = {2}
  Requests = {r1}
  MaxLobbies = 2
  Ttl = 1
  LifetimeMultiplier = 2
  MaxTime = 3
  MaxTokens = 3
  MaxConnections = 2
  None = None
SYMMETRY Symmetry
INVARIANTS
  TypeOK
  StoreWithinCapacity
  MembershipWithinSize
  LifetimeCapped
  ConnectionIdsUnique
  CredentialsUnique
PROPERTIES
  MembershipOnlyGrows
  ReferenceWrittenOnce
  ExpiredIsInert
