SPECIFICATION RosterSpec
CONSTANTS
  LobbyIds = {l1}
  ParticipantIds = {p1, p2}
  Senders = {s1, s2, s3}
  References = {}
  Sizes = {2}
  Requests = {r1}
  MaxLobbies = 1
  Ttl = 1
  LifetimeMultiplier = 1
  MaxTime = 1
  MaxTokens = 2
  MaxConnections = 3
  QueueCapacity = 1
  None = None
SYMMETRY Symmetry
INVARIANT RosterExactAfterReconnect
