--------------------------- MODULE LobbyStoreProofs ---------------------------
(***************************************************************************)
(* Theorems about LobbyStore, for every value of its constants.            *)
(***************************************************************************)
EXTENDS LobbyStore, FiniteSetTheorems, TLAPS

-------------------------------------------------------------------------------
(* What the operators of the store return.                                  *)

\* A sum that saturates is a time.
LEMMA SaturatingAddType ==
  ASSUME NEW a \in Nat, NEW b \in Nat
  PROVE  SaturatingAdd(a, b) \in Times
BY TimeAssumption DEF SaturatingAdd, Times

\* The lifetime of create_lobby, the multiplier taken as at least one, is a number.
LEMMA LifetimeType == Ttl * (IF LifetimeMultiplier < 1 THEN 1 ELSE LifetimeMultiplier) \in Nat
BY TimeAssumption

\* The participant of create_lobby and join_lobby is a Participant.
LEMMA NewParticipantType ==
  ASSUME NEW t \in Tokens
  PROVE  /\ NewParticipant(t) \in Participant
         /\ NewParticipant(t) # None
BY NoneAssumption DEF NewParticipant, Participant, Digests

\* A new lobby has its host as its one participant, and a cap.
LEMMA NewLobbyType ==
  ASSUME NEW created_at \in Times, NEW p \in ParticipantIds, NEW size \in Sizes,
         NEW t \in Tokens
  PROVE  /\ NewLobby(created_at, p, size, t) \in Lobby
         /\ NewLobby(created_at, p, size, t).expires_at
              <= NewLobby(created_at, p, size, t).max_expires_at
<1> DEFINE life == Ttl * (IF LifetimeMultiplier < 1 THEN 1 ELSE LifetimeMultiplier)
           expires_at == SaturatingAdd(created_at, Ttl)
           capped_at == SaturatingAdd(created_at, life)
           max_expires_at == IF capped_at < expires_at THEN expires_at ELSE capped_at
           participants == [q \in ParticipantIds |->
                              IF q = p THEN NewParticipant(t) ELSE None]
<1>1. created_at \in Nat /\ Ttl \in Nat /\ life \in Nat
  BY LifetimeType, TimeAssumption DEF Times
<1>2. expires_at \in Times /\ capped_at \in Times
  BY <1>1, SaturatingAddType
<1>3. max_expires_at \in Times /\ expires_at <= max_expires_at
  BY <1>2, TimeAssumption DEF Times
<1>4. participants \in [ParticipantIds -> Participant \cup {None}]
  BY NewParticipantType
<1>5. NewLobby(created_at, p, size, t)
        = [expires_at |-> expires_at, max_expires_at |-> max_expires_at,
           host_participant_id |-> p, max_participants |-> size,
           participants |-> participants, game_reference |-> None]
  BY DEF NewLobby
<1> HIDE DEF expires_at, max_expires_at, participants
<1> QED BY <1>2, <1>3, <1>4, <1>5 DEF Lobby

\* What renew_lobby moves the expiry to is a time within the cap.
LEMMA NextExpiryType ==
  ASSUME NEW lobby \in Lobby
  PROVE  /\ next_expires_at(lobby) \in Times
         /\ next_expires_at(lobby) <= lobby.max_expires_at
<1> DEFINE extended == SaturatingAdd(lobby.expires_at, Ttl)
           cap == lobby.max_expires_at
<1>1. lobby.expires_at \in Nat /\ cap \in Times
  BY DEF Lobby, Times
<1>2. extended \in Times
  BY <1>1, SaturatingAddType, TimeAssumption
<1>3. next_expires_at(lobby) = IF extended < cap THEN extended ELSE cap
  BY DEF next_expires_at
<1> HIDE DEF extended, cap
<1>4. /\ (IF extended < cap THEN extended ELSE cap) \in Times
      /\ (IF extended < cap THEN extended ELSE cap) <= cap
  BY <1>1, <1>2, TimeAssumption DEF Times
<1> QED BY <1>3, <1>4 DEF cap

\* The purges remove lobbies and change none that stays.
LEMMA PurgedType ==
  ASSUME lobbies \in [LobbyIds -> Lobby \cup {None}]
  PROVE  /\ Purged \in [LobbyIds -> Lobby \cup {None}]
         /\ PurgedUnderPressure \in [LobbyIds -> Lobby \cup {None}]
         /\ \A l \in LobbyIds : PurgedOf(l) \in [LobbyIds -> Lobby \cup {None}]
         /\ \A l \in LobbyIds : Purged[l] \in {lobbies[l], None}
         /\ \A l \in LobbyIds : PurgedUnderPressure[l] \in {lobbies[l], None}
         /\ \A l, m \in LobbyIds : PurgedOf(l)[m] \in {lobbies[m], None}
BY DEF Purged, PurgedUnderPressure, PurgedOf

\* All of a lobby but its participants.
SameTerms(lobby, other) ==
  /\ lobby.expires_at = other.expires_at
  /\ lobby.max_expires_at = other.max_expires_at
  /\ lobby.host_participant_id = other.host_participant_id
  /\ lobby.max_participants = other.max_participants
  /\ lobby.game_reference = other.game_reference

\* Putting a participant into a slot makes it a member and keeps the lobby's terms.
LEMMA WithParticipantType ==
  ASSUME NEW lobby \in Lobby, NEW p \in ParticipantIds, NEW participant \in Participant
  PROVE  /\ WithParticipant(lobby, p, participant) \in Lobby
         /\ SameTerms(WithParticipant(lobby, p, participant), lobby)
         /\ WithParticipant(lobby, p, participant).participants
              = [lobby.participants EXCEPT ![p] = participant]
         /\ Members(WithParticipant(lobby, p, participant)) = Members(lobby) \cup {p}
<1>1. participant # None
  BY NoneAssumption
<1>2. lobby.participants \in [ParticipantIds -> Participant \cup {None}]
  BY DEF Lobby
<1>3. WithParticipant(lobby, p, participant)
        = [lobby EXCEPT !.participants =
             [lobby.participants EXCEPT ![p] = participant]]
  BY DEF WithParticipant
<1> QED BY <1>1, <1>2, <1>3 DEF Lobby, Members, SameTerms

\* Writing the connection of a member keeps the members and the lobby's terms.
LEMMA WithConnectionType ==
  ASSUME NEW lobby \in Lobby, NEW p \in Members(lobby), NEW c \in Connection \cup {None}
  PROVE  /\ WithConnection(lobby, p, c) \in Lobby
         /\ SameTerms(WithConnection(lobby, p, c), lobby)
         /\ WithConnection(lobby, p, c).participants
              = [lobby.participants EXCEPT
                   ![p] = [lobby.participants[p] EXCEPT !.connection = c]]
         /\ Members(WithConnection(lobby, p, c)) = Members(lobby)
<1> DEFINE participant == [lobby.participants[p] EXCEPT !.connection = c]
<1>1. lobby.participants[p] \in Participant /\ p \in ParticipantIds
  BY DEF Lobby, Members
<1>2. participant \in Participant
  BY <1>1 DEF Participant
<1>3. Members(lobby) \cup {p} = Members(lobby)
  OBVIOUS
<1>4. WithConnection(lobby, p, c) = WithParticipant(lobby, p, participant)
  BY DEF WithConnection
<1>5. [lobby.participants EXCEPT ![p] = participant]
        = [lobby.participants EXCEPT
             ![p] = [lobby.participants[p] EXCEPT !.connection = c]]
  OBVIOUS
<1> HIDE DEF participant
<1>6. /\ WithParticipant(lobby, p, participant) \in Lobby
      /\ SameTerms(WithParticipant(lobby, p, participant), lobby)
      /\ WithParticipant(lobby, p, participant).participants
           = [lobby.participants EXCEPT ![p] = participant]
      /\ Members(WithParticipant(lobby, p, participant)) = Members(lobby) \cup {p}
  BY <1>1, <1>2, WithParticipantType
<1> QED BY <1>3, <1>4, <1>5, <1>6, Zenon

-------------------------------------------------------------------------------
(* Type correctness.                                                        *)

\* The empty store is well shaped.
LEMMA InitType == Init => TypeOK
BY BoundAssumption, TimeAssumption DEF Init, TypeOK, Times

\* The steps of create_lobby keep the types.
LEMMA CreateStepType == TypeOK /\ CreateStep => TypeOK'
<1> SUFFICES ASSUME TypeOK, CreateStep PROVE TypeOK'
  OBVIOUS
<1> USE DEF TypeOK
<1>1. ASSUME NEW r \in Requests, BeginCreate(r) PROVE TypeOK'
  BY <1>1 DEF BeginCreate
<1>2. ASSUME NEW r \in Requests, NEW l \in LobbyIds, NEW p \in ParticipantIds,
             NEW size \in Sizes, FinishCreate(r, l, p, size)
      PROVE  TypeOK'
  <2>1. creating[r] \in Times /\ tokens_issued + 1 \in Tokens
    BY <1>2, BoundAssumption DEF FinishCreate, Tokens
  <2>2. NewLobby(creating[r], p, size, tokens_issued + 1) \in Lobby
    BY <2>1, NewLobbyType
  <2>3. lobbies' \in [LobbyIds -> Lobby \cup {None}]
    BY <1>2, <2>2, PurgedType DEF FinishCreate
  <2> QED BY <1>2, <2>1, <2>3 DEF FinishCreate, Tokens
<1>3. ASSUME NEW r \in Requests, MissCreate(r) PROVE TypeOK'
  BY <1>3, PurgedType DEF MissCreate
<1>4. ASSUME NEW r \in Requests, CancelCreate(r) PROVE TypeOK'
  BY <1>4 DEF CancelCreate
<1> QED BY <1>1, <1>2, <1>3, <1>4 DEF CreateStep

\* The requests, the sweep and the clock keep the types.
LEMMA ServiceStepType == TypeOK /\ ServiceStep => TypeOK'
<1> SUFFICES ASSUME TypeOK, ServiceStep PROVE TypeOK'
  OBVIOUS
<1>1. ASSUME NEW l \in LobbyIds, NEW p \in ParticipantIds, JoinLobby(l, p)
      PROVE  TypeOK'
  <2>1. lobbies[l] \in Lobby /\ tokens_issued + 1 \in Tokens
    BY <1>1, BoundAssumption DEF JoinLobby, Found, TypeOK, Tokens
  <2>2. lobbies' = [lobbies EXCEPT ![l] =
                      WithParticipant(lobbies[l], p, NewParticipant(tokens_issued + 1))]
    BY <1>1 DEF JoinLobby, TypeOK
  <2>3. WithParticipant(lobbies[l], p, NewParticipant(tokens_issued + 1)) \in Lobby
    BY <2>1, NewParticipantType, WithParticipantType
  <2> QED BY <1>1, <2>1, <2>2, <2>3 DEF JoinLobby, TypeOK, Tokens
<1>2. ASSUME NEW l \in LobbyIds, NEW p \in ParticipantIds, NEW t \in Tokens,
             NEW reference \in References, BindGameReference(l, p, t, reference)
      PROVE  TypeOK'
  <2>1. lobbies[l] \in Lobby
    BY <1>2 DEF BindGameReference, Found, TypeOK
  <2>2. [lobbies[l] EXCEPT !.game_reference = reference] \in Lobby
    BY <2>1 DEF Lobby
  <2> QED BY <1>2, <2>2 DEF BindGameReference, TypeOK
<1>3. ASSUME NEW l \in LobbyIds, NEW p \in ParticipantIds, NEW t \in Tokens,
             RenewLobby(l, p, t)
      PROVE  TypeOK'
  <2>1. lobbies[l] \in Lobby
    BY <1>3 DEF RenewLobby, Found, TypeOK
  <2>2. next_expires_at(lobbies[l]) \in Times
    BY <2>1, NextExpiryType
  <2>3. [lobbies[l] EXCEPT !.expires_at = next_expires_at(lobbies[l])] \in Lobby
    BY <2>1, <2>2 DEF Lobby
  <2> QED BY <1>3, <2>3 DEF RenewLobby, TypeOK
<1>4. ASSUME NEW l \in LobbyIds, Access(l) PROVE TypeOK'
  BY <1>4, PurgedType DEF Access, TypeOK
<1>5. CASE CleanupExpired
  BY <1>5, PurgedType DEF CleanupExpired, TypeOK
<1>6. CASE ClockChange
  BY <1>6 DEF ClockChange, TypeOK
<1> QED BY <1>1, <1>2, <1>3, <1>4, <1>5, <1>6, CreateStepType DEF ServiceStep

\* Registrations and unregistrations keep the types.
LEMMA ConnectionStepType == TypeOK /\ ConnectionStep => TypeOK'
<1> SUFFICES ASSUME TypeOK, NEW l \in LobbyIds, NEW p \in ParticipantIds,
                    \/ \E t \in Tokens, sender \in Senders :
                         RegisterConnection(l, p, t, sender)
                    \/ \E id \in 1 .. MaxConnections : UnregisterConnection(l, p, id)
             PROVE  TypeOK'
  BY DEF ConnectionStep
<1>1. ASSUME NEW t \in Tokens, NEW sender \in Senders, RegisterConnection(l, p, t, sender)
      PROVE  TypeOK'
  <2> DEFINE c == [id |-> next_connection_id, sender |-> sender]
  <2>1. lobbies[l] \in Lobby /\ p \in Members(lobbies[l])
    BY <1>1 DEF RegisterConnection, Found, Authenticated, TypeOK
  <2>2. next_connection_id \in 1 .. MaxConnections
    BY <1>1, BoundAssumption DEF RegisterConnection, TypeOK
  <2>3. c \in Connection
    BY <2>2 DEF Connection
  <2>4. WithConnection(lobbies[l], p, c) \in Lobby
    BY <2>1, <2>3, WithConnectionType
  <2>5. lobbies' = [lobbies EXCEPT ![l] = WithConnection(lobbies[l], p, c)]
    BY <1>1 DEF RegisterConnection, TypeOK
  <2> QED BY <1>1, <2>2, <2>4, <2>5, BoundAssumption
          DEF RegisterConnection, TakeConnectionId, TypeOK
<1>2. ASSUME NEW id \in 1 .. MaxConnections, UnregisterConnection(l, p, id)
      PROVE  TypeOK'
  <2>1. lobbies[l] \in Lobby /\ p \in Members(lobbies[l])
    BY <1>2 DEF UnregisterConnection, IsCurrent, Connected, TypeOK
  <2>2. WithConnection(lobbies[l], p, None) \in Lobby
    BY <2>1, WithConnectionType
  <2>3. lobbies' = [lobbies EXCEPT ![l] = WithConnection(lobbies[l], p, None)]
    BY <1>2 DEF UnregisterConnection, TypeOK
  <2> QED BY <1>2, <2>2, <2>3 DEF UnregisterConnection, TypeOK
<1> QED BY <1>1, <1>2

\* The state always has the shape the Rust types give it, and no counter leaves
\* the bounds of the model.
THEOREM TypeCorrect == Spec => []TypeOK
<1>1. TypeOK /\ [Next]_storeVars => TypeOK'
  <2>1. TypeOK /\ UNCHANGED storeVars => TypeOK'
    BY DEF TypeOK, storeVars
  <2> QED BY <2>1, ServiceStepType, ConnectionStepType DEF Next
<1> QED BY <1>1, InitType, PTL DEF Spec

-------------------------------------------------------------------------------
(* The kinds of steps, by what they do to the lobbies.                      *)

\* Lobbies may go and nothing else happens to them.
OnlyRemoves ==
  /\ \A l \in LobbyIds : lobbies'[l] \in {lobbies[l], None}
  /\ UNCHANGED <<next_connection_id, tokens_issued>>

\* bind_game_reference or renew_lobby on l.
Updates(l) ==
  /\ Found(l)
  /\ \/ \E reference \in References :
          /\ lobbies[l].game_reference = None
          /\ lobbies' = [lobbies EXCEPT ![l] = [@ EXCEPT !.game_reference = reference]]
     \/ /\ lobbies[l].expires_at < next_expires_at(lobbies[l])
        /\ lobbies' = [lobbies EXCEPT ![l] =
                         [@ EXCEPT !.expires_at = next_expires_at(lobbies[l])]]
  /\ UNCHANGED <<next_connection_id, tokens_issued>>

Creates ==
  \E r \in Requests, l \in LobbyIds, p \in ParticipantIds, size \in Sizes :
    FinishCreate(r, l, p, size)

Joins == \E l \in LobbyIds, p \in ParticipantIds : JoinLobby(l, p)

Registers ==
  \E l \in LobbyIds, p \in ParticipantIds, t \in Tokens, sender \in Senders :
    RegisterConnection(l, p, t, sender)

Unregisters ==
  \E l \in LobbyIds, p \in ParticipantIds, id \in 1 .. MaxConnections :
    UnregisterConnection(l, p, id)

\* What HTTP requests and the background task do is of one of four kinds.
LEMMA ServiceStepKinds ==
  ASSUME TypeOK, [ServiceStep]_storeVars
  PROVE  \/ OnlyRemoves
         \/ Creates
         \/ Joins
         \/ \E l \in LobbyIds : Updates(l)
<1>1. CASE UNCHANGED storeVars
  BY <1>1 DEF storeVars, OnlyRemoves
<1>2. CASE CreateStep
  <2>1. ASSUME NEW r \in Requests, BeginCreate(r) \/ MissCreate(r) \/ CancelCreate(r)
        PROVE  OnlyRemoves
    BY <2>1, PurgedType DEF BeginCreate, MissCreate, CancelCreate, OnlyRemoves, TypeOK
  <2> QED BY <1>2, <2>1 DEF CreateStep, Creates
<1>3. CASE \E l \in LobbyIds, p \in ParticipantIds : JoinLobby(l, p)
  BY <1>3 DEF Joins
<1>4. ASSUME NEW l \in LobbyIds, NEW p \in ParticipantIds, NEW t \in Tokens,
             \/ \E reference \in References : BindGameReference(l, p, t, reference)
             \/ RenewLobby(l, p, t)
      PROVE  Updates(l)
  <2>1. lobbies[l] \in Lobby
    BY <1>4 DEF BindGameReference, RenewLobby, Found, TypeOK
  <2>2. lobbies[l].expires_at \in Nat /\ next_expires_at(lobbies[l]) \in Nat
    BY <2>1, NextExpiryType DEF Lobby, Times
  <2> QED BY <1>4, <2>2 DEF BindGameReference, Bindable, RenewLobby, Updates
<1>5. CASE CleanupExpired \/ ClockChange \/ \E l \in LobbyIds : Access(l)
  BY <1>5, PurgedType DEF CleanupExpired, ClockChange, Access, OnlyRemoves, TypeOK
<1> QED BY <1>1, <1>2, <1>3, <1>4, <1>5 DEF ServiceStep

\* Every step of the store is of one of six kinds.
LEMMA StepKinds ==
  ASSUME TypeOK, [Next]_storeVars
  PROVE  \/ OnlyRemoves
         \/ Creates
         \/ Joins
         \/ \E l \in LobbyIds : Updates(l)
         \/ Registers
         \/ Unregisters
<1>1. CASE ConnectionStep
  BY <1>1 DEF ConnectionStep, Registers, Unregisters
<1> QED BY <1>1, ServiceStepKinds DEF Next

\* What a store looks like after a create: the other lobbies stay or go.
LEMMA CreateEffect ==
  ASSUME TypeOK, NEW r \in Requests, NEW l \in LobbyIds, NEW p \in ParticipantIds,
         NEW size \in Sizes, FinishCreate(r, l, p, size)
  PROVE  /\ lobbies'[l] = NewLobby(creating[r], p, size, tokens_issued + 1)
         /\ creating[r] \in Times
         /\ tokens_issued + 1 \in Tokens
         /\ \A m \in LobbyIds \ {l} : lobbies'[m] \in {lobbies[m], None}
<1>1. creating[r] \in Times /\ tokens_issued + 1 \in Tokens
  BY BoundAssumption DEF FinishCreate, TypeOK, Tokens
<1> QED BY <1>1, PurgedType DEF FinishCreate, TypeOK

\* What the steps on one lobby do to it; the others stay.
OnlyChanges(l) == \A m \in LobbyIds \ {l} : lobbies'[m] = lobbies[m]

\* A join fills a free slot of one lobby with a new credential and leaves the rest.
LEMMA JoinEffect ==
  ASSUME TypeOK, NEW l \in LobbyIds, NEW p \in ParticipantIds, JoinLobby(l, p)
  PROVE  /\ lobbies[l] \in Lobby
         /\ lobbies[l] # None
         /\ lobbies'[l] \in Lobby
         /\ p \notin Members(lobbies[l])
         /\ Cardinality(Members(lobbies[l])) < lobbies[l].max_participants
         /\ tokens_issued + 1 \in Tokens
         /\ NewParticipant(tokens_issued + 1) \in Participant
         /\ SameTerms(lobbies'[l], lobbies[l])
         /\ lobbies'[l].participants = [lobbies[l].participants EXCEPT
                                          ![p] = NewParticipant(tokens_issued + 1)]
         /\ Members(lobbies'[l]) = Members(lobbies[l]) \cup {p}
         /\ OnlyChanges(l)
         /\ tokens_issued' = tokens_issued + 1
         /\ UNCHANGED next_connection_id
<1>1. lobbies[l] \in Lobby /\ lobbies[l] # None /\ tokens_issued + 1 \in Tokens
  BY BoundAssumption DEF JoinLobby, Found, TypeOK, Tokens
<1>2. NewParticipant(tokens_issued + 1) \in Participant
  BY <1>1, NewParticipantType
<1>3. /\ lobbies'[l] = WithParticipant(lobbies[l], p, NewParticipant(tokens_issued + 1))
      /\ OnlyChanges(l)
      /\ p \notin Members(lobbies[l])
  BY DEF JoinLobby, IsFree, TypeOK, OnlyChanges
<1> QED BY <1>1, <1>2, <1>3, WithParticipantType DEF JoinLobby, HasSeat

\* A registration or an unregistration puts c into a slot.
Connects(l, p, c) ==
  /\ lobbies[l] \in Lobby
  /\ lobbies[l] # None
  /\ p \in Members(lobbies[l])
  /\ lobbies'[l] \in Lobby
  /\ SameTerms(lobbies'[l], lobbies[l])
  /\ lobbies'[l].participants
       = [lobbies[l].participants EXCEPT
            ![p] = [lobbies[l].participants[p] EXCEPT !.connection = c]]
  /\ Members(lobbies'[l]) = Members(lobbies[l])
  /\ OnlyChanges(l)
  /\ UNCHANGED tokens_issued
  /\ \/ c = None /\ UNCHANGED next_connection_id
     \/ /\ c \in Connection
        /\ c.id = next_connection_id
        /\ next_connection_id' = next_connection_id + 1

\* A registration puts the new connection, under the next id, into the slot of
\* its participant.
LEMMA RegisterConnects ==
  ASSUME TypeOK, NEW l \in LobbyIds, NEW p \in ParticipantIds, NEW t \in Tokens,
         NEW sender \in Senders, RegisterConnection(l, p, t, sender)
  PROVE  /\ Found(l)
         /\ [id |-> next_connection_id, sender |-> sender] \in Connection
         /\ Connects(l, p, [id |-> next_connection_id, sender |-> sender])
<1>1. [id |-> next_connection_id, sender |-> sender] \in Connection
  BY BoundAssumption DEF RegisterConnection, TypeOK, Connection
<1> DEFINE c == [id |-> next_connection_id, sender |-> sender]
<1>2. /\ lobbies[l] \in Lobby
      /\ lobbies[l] # None
      /\ p \in Members(lobbies[l])
      /\ lobbies'[l] = WithConnection(lobbies[l], p, c)
      /\ OnlyChanges(l)
  BY DEF RegisterConnection, Found, Authenticated, OnlyChanges, TypeOK
<1>3. c \in Connection /\ c.id = next_connection_id
  BY <1>1
<1>4. UNCHANGED tokens_issued /\ next_connection_id' = next_connection_id + 1
  BY DEF RegisterConnection, TakeConnectionId
<1> HIDE DEF c
<1>5. Connects(l, p, c)
  BY <1>2, <1>3, <1>4, WithConnectionType DEF Connects
<1>6. Found(l)
  BY DEF RegisterConnection
<1> QED BY <1>3, <1>5, <1>6 DEF c

\* An unregistration empties the slot of its participant.
LEMMA UnregisterConnects ==
  ASSUME TypeOK, NEW l \in LobbyIds, NEW p \in ParticipantIds, NEW id,
         UnregisterConnection(l, p, id)
  PROVE  Connects(l, p, None)
<1>1. /\ lobbies[l] \in Lobby
      /\ lobbies[l] # None
      /\ p \in Members(lobbies[l])
      /\ lobbies'[l] = WithConnection(lobbies[l], p, None)
      /\ OnlyChanges(l)
      /\ UNCHANGED <<tokens_issued, next_connection_id>>
  BY DEF UnregisterConnection, IsCurrent, Connected, OnlyChanges, TypeOK
<1> QED BY <1>1, WithConnectionType DEF Connects

\* Registering and unregistering write one connection of one lobby.
LEMMA ConnectionStepEffect ==
  ASSUME TypeOK, Registers \/ Unregisters
  PROVE  \E l \in LobbyIds, p \in ParticipantIds, c \in Connection \cup {None} :
           Connects(l, p, c) /\ (c # None => Found(l))
BY RegisterConnects, UnregisterConnects DEF Registers, Unregisters

\* A bind or a renewal keeps the participants of its lobby and leaves the others.
LEMMA UpdateEffect ==
  ASSUME TypeOK, NEW l \in LobbyIds, Updates(l)
  PROVE  /\ lobbies[l] \in Lobby
         /\ lobbies[l] # None
         /\ lobbies'[l] \in Lobby
         /\ lobbies'[l].participants = lobbies[l].participants
         /\ lobbies'[l].host_participant_id = lobbies[l].host_participant_id
         /\ lobbies'[l].max_participants = lobbies[l].max_participants
         /\ lobbies'[l].max_expires_at = lobbies[l].max_expires_at
         /\ lobbies'[l].expires_at \in {lobbies[l].expires_at, next_expires_at(lobbies[l])}
         /\ lobbies'[l].expires_at >= lobbies[l].expires_at
         /\ lobbies[l].game_reference # None
              => lobbies'[l].game_reference = lobbies[l].game_reference
         /\ Members(lobbies'[l]) = Members(lobbies[l])
         /\ OnlyChanges(l)
<1>1. lobbies[l] \in Lobby /\ lobbies[l] # None
  BY DEF Updates, Found, TypeOK
<1>2. OnlyChanges(l)
  BY DEF Updates, OnlyChanges, TypeOK
<1>3. lobbies[l].expires_at \in Nat /\ next_expires_at(lobbies[l]) \in Times
  BY <1>1, NextExpiryType DEF Lobby, Times
<1>4. ASSUME NEW reference \in References, lobbies[l].game_reference = None,
             lobbies' = [lobbies EXCEPT ![l] = [@ EXCEPT !.game_reference = reference]]
      PROVE  /\ lobbies'[l] \in Lobby
             /\ lobbies'[l].participants = lobbies[l].participants
             /\ lobbies'[l].host_participant_id = lobbies[l].host_participant_id
             /\ lobbies'[l].max_participants = lobbies[l].max_participants
             /\ lobbies'[l].max_expires_at = lobbies[l].max_expires_at
             /\ lobbies'[l].expires_at = lobbies[l].expires_at
  <2>1. lobbies'[l] = [lobbies[l] EXCEPT !.game_reference = reference]
    BY <1>4 DEF TypeOK
  <2> QED BY <1>1, <2>1 DEF Lobby
<1>5. ASSUME lobbies[l].expires_at < next_expires_at(lobbies[l]),
             lobbies' = [lobbies EXCEPT ![l] =
                           [@ EXCEPT !.expires_at = next_expires_at(lobbies[l])]]
      PROVE  /\ lobbies'[l] \in Lobby
             /\ lobbies'[l].participants = lobbies[l].participants
             /\ lobbies'[l].host_participant_id = lobbies[l].host_participant_id
             /\ lobbies'[l].max_participants = lobbies[l].max_participants
             /\ lobbies'[l].max_expires_at = lobbies[l].max_expires_at
             /\ lobbies'[l].game_reference = lobbies[l].game_reference
             /\ lobbies'[l].expires_at = next_expires_at(lobbies[l])
  <2>1. lobbies'[l] = [lobbies[l] EXCEPT !.expires_at = next_expires_at(lobbies[l])]
    BY <1>5 DEF TypeOK
  <2> QED BY <1>1, <1>3, <2>1 DEF Lobby
<1>6. next_expires_at(lobbies[l]) \in Nat
  BY <1>3 DEF Times
<1>7. lobbies'[l].participants = lobbies[l].participants
        => Members(lobbies'[l]) = Members(lobbies[l])
  BY DEF Members
<1> QED BY <1>1, <1>2, <1>3, <1>4, <1>5, <1>6, <1>7 DEF Updates

-------------------------------------------------------------------------------
(* The cap on a lobby's lifetime.                                           *)

\* No step extends a lobby beyond its cap.
LEMMA LifetimePreserved ==
  ASSUME TypeOK, LifetimeCapped, [Next]_storeVars
  PROVE  LifetimeCapped'
<1> USE DEF LifetimeCapped, Stored
<1>1. CASE OnlyRemoves
  BY <1>1 DEF OnlyRemoves
<1>2. CASE Creates
  <2> PICK r \in Requests, l \in LobbyIds, p \in ParticipantIds, size \in Sizes :
             FinishCreate(r, l, p, size)
    BY <1>2 DEF Creates
  <2>1. lobbies'[l].expires_at <= lobbies'[l].max_expires_at
    BY CreateEffect, NewLobbyType
  <2> QED BY <2>1, CreateEffect
<1>3. CASE Joins
  <2> PICK l \in LobbyIds, p \in ParticipantIds : JoinLobby(l, p)
    BY <1>3 DEF Joins
  <2> QED BY JoinEffect DEF OnlyChanges, SameTerms
<1>4. ASSUME NEW l \in LobbyIds, Updates(l)
      PROVE  LifetimeCapped'
  BY <1>4, UpdateEffect, NextExpiryType DEF OnlyChanges
<1>5. CASE Registers \/ Unregisters
  BY <1>5, ConnectionStepEffect DEF Connects, OnlyChanges, SameTerms
<1> QED BY <1>1, <1>2, <1>3, <1>4, <1>5, StepKinds

\* For every Ttl, multiplier and clock: renewals never take a lobby past its cap.
THEOREM LifetimeCapHolds == Spec => []LifetimeCapped
<1>1. Init => LifetimeCapped
  BY DEF Init, LifetimeCapped, Stored
<1> QED BY <1>1, LifetimePreserved, TypeCorrect, PTL DEF Spec

-------------------------------------------------------------------------------
(* The capacity of the store.                                               *)

\* What is stored is finite: its size is a number.
LEMMA StoredFinite ==
  ASSUME NEW m
  PROVE  IsFiniteSet(Stored(m)) /\ Cardinality(Stored(m)) \in Nat
<1>1. Stored(m) \in SUBSET LobbyIds
  BY DEF Stored
<1> QED BY <1>1, CapacityAssumption, FS_Subset, FS_CardinalityType

\* A store that gets no lobby it did not have gets no fuller.
LEMMA StoredShrinks ==
  ASSUME Stored(lobbies') \subseteq Stored(lobbies), StoreWithinCapacity
  PROVE  StoreWithinCapacity'
<1>1. Cardinality(Stored(lobbies')) <= Cardinality(Stored(lobbies))
  BY StoredFinite, FS_Subset
<1> QED BY <1>1, StoredFinite, CapacityAssumption DEF StoreWithinCapacity

\* No step takes the store past max_lobbies.
LEMMA CapacityPreserved ==
  ASSUME TypeOK, StoreWithinCapacity, [Next]_storeVars
  PROVE  StoreWithinCapacity'
<1>1. CASE OnlyRemoves
  <2>1. Stored(lobbies') \subseteq Stored(lobbies)
    BY <1>1 DEF OnlyRemoves, Stored
  <2> QED BY <2>1, StoredShrinks
<1>2. CASE Creates
  <2> PICK r \in Requests, l \in LobbyIds, p \in ParticipantIds, size \in Sizes :
             FinishCreate(r, l, p, size)
    BY <1>2 DEF Creates
  <2> DEFINE kept == Stored(PurgedUnderPressure)
  <2>1. Stored(lobbies') \subseteq kept \cup {l}
    BY PurgedType DEF FinishCreate, Stored, TypeOK
  <2>2. Cardinality(kept) < MaxLobbies
    BY DEF FinishCreate, HasRoom
  <2>3. IsFiniteSet(kept) /\ Cardinality(kept) \in Nat
    BY StoredFinite
  <2> HIDE DEF kept
  <2>4. /\ IsFiniteSet(kept \cup {l})
        /\ Cardinality(kept \cup {l})
             \in {Cardinality(kept), Cardinality(kept) + 1}
    BY <2>3, FS_AddElement
  <2>5. Cardinality(Stored(lobbies')) <= Cardinality(kept \cup {l})
    BY <2>1, <2>4, FS_Subset
  <2>6. Cardinality(kept \cup {l}) \in Nat /\ Cardinality(Stored(lobbies')) \in Nat
    BY <2>4, StoredFinite, FS_CardinalityType
  <2> QED BY <2>2, <2>3, <2>4, <2>5, <2>6, CapacityAssumption DEF StoreWithinCapacity
<1>3. CASE Joins
  <2> PICK l \in LobbyIds, p \in ParticipantIds : JoinLobby(l, p)
    BY <1>3 DEF Joins
  <2>1. Stored(lobbies') \subseteq Stored(lobbies)
    BY JoinEffect DEF OnlyChanges, Stored
  <2> QED BY <2>1, StoredShrinks
<1>4. ASSUME NEW l \in LobbyIds, Updates(l)
      PROVE  StoreWithinCapacity'
  <2>1. Stored(lobbies') \subseteq Stored(lobbies)
    BY <1>4, UpdateEffect DEF OnlyChanges, Stored
  <2> QED BY <2>1, StoredShrinks
<1>5. CASE Registers \/ Unregisters
  <2>1. Stored(lobbies') \subseteq Stored(lobbies)
    BY <1>5, ConnectionStepEffect DEF Connects, OnlyChanges, Stored
  <2> QED BY <2>1, StoredShrinks
<1> QED BY <1>1, <1>2, <1>3, <1>4, <1>5, StepKinds

\* For every capacity: a create sweeps first and then refuses, so no
\* interleaving of creates overfills the store.
THEOREM CapacityHolds == Spec => []StoreWithinCapacity
<1>1. Init => StoreWithinCapacity
  <2>1. Init => Stored(lobbies) = {}
    BY DEF Init, Stored
  <2> QED BY <2>1, FS_EmptySet, CapacityAssumption DEF StoreWithinCapacity
<1> QED BY <1>1, CapacityPreserved, TypeCorrect, PTL DEF Spec

-------------------------------------------------------------------------------
(* The size of a lobby.                                                     *)

\* So are the members of a lobby.
LEMMA MembersFinite ==
  ASSUME NEW lobby
  PROVE  IsFiniteSet(Members(lobby)) /\ Cardinality(Members(lobby)) \in Nat
<1>1. Members(lobby) \in SUBSET ParticipantIds
  BY DEF Members
<1> QED BY <1>1, CapacityAssumption, FS_Subset, FS_CardinalityType

\* The slots of a new lobby.
LEMMA NewLobbyParticipants ==
  ASSUME NEW created_at \in Times, NEW p \in ParticipantIds, NEW size \in Sizes,
         NEW t \in Tokens
  PROVE  NewLobby(created_at, p, size, t).participants
           = [q \in ParticipantIds |-> IF q = p THEN NewParticipant(t) ELSE None]
BY DEF NewLobby

\* The host is the one participant of a new lobby.
LEMMA NewLobbyMembers ==
  ASSUME NEW created_at \in Times, NEW p \in ParticipantIds, NEW size \in Sizes,
         NEW t \in Tokens
  PROVE  /\ Members(NewLobby(created_at, p, size, t)) = {p}
         /\ NewLobby(created_at, p, size, t).host_participant_id = p
         /\ NewLobby(created_at, p, size, t).max_participants = size
BY NewParticipantType DEF NewLobby, Members

\* The property of one lobby.
WithinSize(lobby) ==
  /\ lobby.host_participant_id \in Members(lobby)
  /\ Cardinality(Members(lobby)) <= lobby.max_participants

\* No step overfills a lobby or takes its host out.
LEMMA SizePreserved ==
  ASSUME TypeOK, MembershipWithinSize, [Next]_storeVars
  PROVE  MembershipWithinSize'
<1> USE DEF WithinSize
<1>0. MembershipWithinSize <=> \A l \in LobbyIds : lobbies[l] # None => WithinSize(lobbies[l])
  BY DEF MembershipWithinSize, Stored
<1> SUFFICES ASSUME NEW m \in LobbyIds, lobbies'[m] # None
             PROVE  WithinSize(lobbies'[m])
  BY DEF MembershipWithinSize, Stored
<1> HIDE DEF WithinSize
<1>1. CASE OnlyRemoves
  BY <1>0, <1>1 DEF OnlyRemoves
<1>2. CASE Creates
  <2> PICK r \in Requests, l \in LobbyIds, p \in ParticipantIds, size \in Sizes :
             FinishCreate(r, l, p, size)
    BY <1>2 DEF Creates
  <2>1. CASE m = l
    <3>1. /\ lobbies'[m] = NewLobby(creating[r], p, size, tokens_issued + 1)
          /\ creating[r] \in Times
          /\ tokens_issued + 1 \in Tokens
      BY <2>1, CreateEffect
    <3>2. /\ Members(lobbies'[m]) = {p}
          /\ lobbies'[m].host_participant_id = p
          /\ lobbies'[m].max_participants = size
      BY <3>1, NewLobbyMembers
    <3>3. Cardinality({p}) = 1 /\ 1 <= size
      BY FS_Singleton, CapacityAssumption
    <3> QED BY <3>2, <3>3 DEF WithinSize
  <2>2. CASE m # l
    BY <2>2, <1>0, CreateEffect
  <2> QED BY <2>1, <2>2
<1>3. CASE Joins
  <2> PICK l \in LobbyIds, p \in ParticipantIds : JoinLobby(l, p)
    BY <1>3 DEF Joins
  <2>1. CASE m = l
    <3>1. WithinSize(lobbies[l])
      BY <1>0, JoinEffect
    <3>2. /\ Members(lobbies'[l]) = Members(lobbies[l]) \cup {p}
          /\ p \notin Members(lobbies[l])
          /\ Cardinality(Members(lobbies[l])) < lobbies[l].max_participants
          /\ SameTerms(lobbies'[l], lobbies[l])
          /\ lobbies[l].max_participants \in Nat
      BY JoinEffect, CapacityAssumption DEF Lobby
    <3>3. Cardinality(Members(lobbies'[l])) = Cardinality(Members(lobbies[l])) + 1
      BY <3>2, MembersFinite, FS_AddElement
    <3> QED BY <2>1, <3>1, <3>2, <3>3, MembersFinite DEF WithinSize, SameTerms
  <2>2. CASE m # l
    BY <2>2, <1>0, JoinEffect DEF OnlyChanges
  <2> QED BY <2>1, <2>2
<1>4. ASSUME NEW l \in LobbyIds, Updates(l)
      PROVE  WithinSize(lobbies'[m])
  BY <1>4, <1>0, UpdateEffect DEF OnlyChanges, WithinSize
<1>5. CASE Registers \/ Unregisters
  BY <1>5, <1>0, ConnectionStepEffect DEF Connects, OnlyChanges, SameTerms, WithinSize
<1> QED BY <1>1, <1>2, <1>3, <1>4, <1>5, StepKinds

\* For every accepted size and whatever identifiers are drawn: no lobby takes
\* more participants than its size, and none loses its host.
THEOREM SizeHolds == Spec => []MembershipWithinSize
<1>1. Init => MembershipWithinSize
  BY DEF Init, MembershipWithinSize, Stored
<1> QED BY <1>1, SizePreserved, TypeCorrect, PTL DEF Spec

-------------------------------------------------------------------------------
(* Connection ids.                                                          *)

\* The slot of p in l holds a connection, and its id.
Occupied(l, p) ==
  /\ lobbies[l] # None
  /\ lobbies[l].participants[p] # None
  /\ lobbies[l].participants[p].connection # None
IdAt(l, p) == lobbies[l].participants[p].connection.id

\* ConnectionIdsUnique by slots.
SlotIdsUnique ==
  \A l \in LobbyIds, p \in ParticipantIds : Occupied(l, p) =>
    /\ IdAt(l, p) < next_connection_id
    /\ \A m \in LobbyIds, q \in ParticipantIds :
         Occupied(m, q) /\ IdAt(l, p) = IdAt(m, q) => l = m /\ p = q

\* The two ways to say that connection ids are unique agree.
LEMMA SlotIds == ConnectionIdsUnique <=> SlotIdsUnique
BY DEF ConnectionIdsUnique, SlotIdsUnique, Stored, Connected, Members, Occupied, IdAt

\* The id of a connection in the store is a number.
LEMMA IdType ==
  ASSUME TypeOK, NEW l \in LobbyIds, NEW p \in ParticipantIds, Occupied(l, p)
  PROVE  IdAt(l, p) \in Nat
<1>1. lobbies[l] \in Lobby
  BY DEF Occupied, TypeOK
<1>2. lobbies[l].participants[p] \in Participant
  BY <1>1 DEF Occupied, Lobby
<1>3. lobbies[l].participants[p].connection \in Connection
  BY <1>2 DEF Occupied, Participant
<1> QED BY <1>3 DEF Connection, IdAt

\* Every step but a registration leaves connections alone or takes them out.
NoNewConnection ==
  /\ \A l \in LobbyIds, p \in ParticipantIds :
       Occupied(l, p)' => Occupied(l, p) /\ IdAt(l, p)' = IdAt(l, p)
  /\ UNCHANGED next_connection_id

\* Writing one connection leaves the ids of all other slots.
LEMMA ConnectsEffect ==
  ASSUME TypeOK, NEW l \in LobbyIds, NEW p \in ParticipantIds,
         NEW c \in Connection \cup {None}, Connects(l, p, c)
  PROVE  /\ \A m \in LobbyIds, q \in ParticipantIds :
              m # l \/ q # p => /\ Occupied(m, q)' = Occupied(m, q)
                                /\ IdAt(m, q)' = IdAt(m, q)
         /\ Occupied(l, p)' => c # None
         /\ IdAt(l, p)' = c.id
<1>1. lobbies[l].participants \in [ParticipantIds -> Participant \cup {None}]
  BY DEF Connects, Lobby
<1>2. lobbies[l].participants[p] \in Participant
  BY <1>1 DEF Connects, Members
<1>3. [lobbies[l].participants[p] EXCEPT !.connection = c].connection = c
  BY <1>2 DEF Participant
<1>4. /\ lobbies'[l].participants[p].connection = c
      /\ \A q \in ParticipantIds \ {p} :
           lobbies'[l].participants[q] = lobbies[l].participants[q]
  BY <1>1, <1>3 DEF Connects
<1>5. lobbies[l] # None /\ lobbies'[l] # None
  BY NoneAssumption DEF Connects
<1>6. \A m \in LobbyIds \ {l} : lobbies'[m] = lobbies[m]
  BY DEF Connects, OnlyChanges
<1> QED BY <1>4, <1>5, <1>6 DEF Occupied, IdAt

\* A step brings no connection, or one with the next id.
LEMMA NewConnections ==
  ASSUME TypeOK, [Next]_storeVars
  PROVE  \/ NoNewConnection
         \/ \E l \in LobbyIds, p \in ParticipantIds, c \in Connection :
              /\ Connects(l, p, c)
              /\ c.id = next_connection_id
              /\ next_connection_id' = next_connection_id + 1
<1>1. CASE OnlyRemoves
  BY <1>1 DEF OnlyRemoves, NoNewConnection, Occupied, IdAt
<1>2. CASE Creates
  <2> PICK r \in Requests, l \in LobbyIds, p \in ParticipantIds, size \in Sizes :
             FinishCreate(r, l, p, size)
    BY <1>2 DEF Creates
  <2>1. \A q \in ParticipantIds : ~Occupied(l, q)'
    <3>1. lobbies'[l].participants = [q \in ParticipantIds |->
              IF q = p THEN NewParticipant(tokens_issued + 1) ELSE None]
      BY CreateEffect, NewLobbyParticipants
    <3>2. NewParticipant(tokens_issued + 1).connection = None
      BY DEF NewParticipant
    <3> QED BY <3>1, <3>2 DEF Occupied
  <2> QED BY <2>1, CreateEffect DEF FinishCreate, NoNewConnection, Occupied, IdAt
<1>3. CASE Joins
  <2> PICK l \in LobbyIds, p \in ParticipantIds : JoinLobby(l, p)
    BY <1>3 DEF Joins
  <2>1. /\ lobbies[l].participants \in [ParticipantIds -> Participant \cup {None}]
        /\ lobbies'[l].participants = [lobbies[l].participants EXCEPT
                                         ![p] = NewParticipant(tokens_issued + 1)]
        /\ lobbies[l] # None
    BY JoinEffect DEF Lobby
  <2>2. ~Occupied(l, p)'
    BY <2>1 DEF Occupied, NewParticipant
  <2> QED BY <2>1, <2>2, JoinEffect DEF OnlyChanges, NoNewConnection, Occupied, IdAt
<1>4. ASSUME NEW l \in LobbyIds, Updates(l)
      PROVE  NoNewConnection
  BY <1>4, UpdateEffect DEF Updates, OnlyChanges, NoNewConnection, Occupied, IdAt
<1>5. CASE Registers \/ Unregisters
  <2> PICK l \in LobbyIds, p \in ParticipantIds, c \in Connection \cup {None} :
             Connects(l, p, c)
    BY <1>5, ConnectionStepEffect
  <2>1. CASE c = None /\ UNCHANGED next_connection_id
    BY <2>1, ConnectsEffect DEF NoNewConnection
  <2> QED BY <2>1 DEF Connects
<1> QED BY <1>1, <1>2, <1>3, <1>4, <1>5, StepKinds

\* No step makes two slots hold one connection id.
LEMMA IdsPreserved ==
  ASSUME TypeOK, ConnectionIdsUnique, [Next]_storeVars
  PROVE  ConnectionIdsUnique'
<1>1. SlotIdsUnique /\ next_connection_id \in Nat
  BY SlotIds, BoundAssumption DEF TypeOK
<1>2. CASE NoNewConnection
  <2>1. SlotIdsUnique'
    BY <1>1, <1>2 DEF NoNewConnection, SlotIdsUnique
  <2> QED BY <2>1 DEF ConnectionIdsUnique, SlotIdsUnique, Stored, Connected, Members,
                      Occupied, IdAt
<1>3. ASSUME NEW l \in LobbyIds, NEW p \in ParticipantIds, NEW c \in Connection,
             Connects(l, p, c), c.id = next_connection_id,
             next_connection_id' = next_connection_id + 1
      PROVE  ConnectionIdsUnique'
  <2>1. IdAt(l, p)' = next_connection_id
    BY <1>3, ConnectsEffect
  <2>2. \A m \in LobbyIds, q \in ParticipantIds : (m # l \/ q # p) /\ Occupied(m, q)' =>
          /\ Occupied(m, q)
          /\ IdAt(m, q)' = IdAt(m, q)
          /\ IdAt(m, q) \in Nat
          /\ IdAt(m, q) < next_connection_id
    BY <1>1, <1>3, ConnectsEffect, IdType DEF SlotIdsUnique
  <2>3. SlotIdsUnique'
    BY <1>1, <1>3, <2>1, <2>2 DEF SlotIdsUnique
  <2> QED BY <2>3 DEF ConnectionIdsUnique, SlotIdsUnique, Stored, Connected, Members,
                      Occupied, IdAt
<1> QED BY <1>2, <1>3, NewConnections

\* Whatever registers, unregisters, expires and is drawn again: a connection id
\* names one slot, so a task can only unregister its own connection.
THEOREM ConnectionIdsHold == Spec => []ConnectionIdsUnique
<1>1. Init => ConnectionIdsUnique
  BY DEF Init, ConnectionIdsUnique, Stored
<1> QED BY <1>1, IdsPreserved, TypeCorrect, PTL DEF Spec

-------------------------------------------------------------------------------
(* Credentials.                                                             *)

\* The slot of p in l is taken, and its credential.
Taken(l, p) == lobbies[l] # None /\ lobbies[l].participants[p] # None
HashAt(l, p) == lobbies[l].participants[p].token_hash

\* What makes CredentialsUnique inductive: no credential in the store is still
\* to be issued.
CredentialsIssued ==
  \A l \in LobbyIds, p \in ParticipantIds : Taken(l, p) =>
    \E t \in 1 .. tokens_issued : HashAt(l, p) = hash_capability_token(t)

\* CredentialsUnique by slots.
SlotHashesUnique ==
  \A l, m \in LobbyIds, p, q \in ParticipantIds :
    Taken(l, p) /\ Taken(m, q) /\ HashAt(l, p) = HashAt(m, q) => l = m /\ p = q

\* Equal digests come from equal tokens.
LEMMA HashInjective ==
  ASSUME NEW t, NEW u, hash_capability_token(t) = hash_capability_token(u)
  PROVE  t = u
<1>1. hash_capability_token(t).sha256 = t /\ hash_capability_token(u).sha256 = u
  BY DEF hash_capability_token
<1> QED BY <1>1

\* Every step but a create or a join leaves credentials alone or takes them out.
NoNewCredential ==
  /\ \A l \in LobbyIds, p \in ParticipantIds :
       Taken(l, p)' => Taken(l, p) /\ HashAt(l, p)' = HashAt(l, p)
  /\ UNCHANGED tokens_issued

\* A create or a join puts the next token into the slot of p in l.
IssuesTo(l, p) ==
  /\ \A m \in LobbyIds, q \in ParticipantIds :
       (m # l \/ q # p) /\ Taken(m, q)' => Taken(m, q) /\ HashAt(m, q)' = HashAt(m, q)
  /\ HashAt(l, p)' = hash_capability_token(tokens_issued + 1)
  /\ tokens_issued' = tokens_issued + 1

\* A step brings no credential, or one made from the next token.
LEMMA NewCredentials ==
  ASSUME TypeOK, [Next]_storeVars
  PROVE  \/ NoNewCredential
         \/ \E l \in LobbyIds, p \in ParticipantIds : IssuesTo(l, p)
<1>1. CASE OnlyRemoves
  BY <1>1 DEF OnlyRemoves, NoNewCredential, Taken, HashAt
<1>2. CASE Creates
  <2> PICK r \in Requests, l \in LobbyIds, p \in ParticipantIds, size \in Sizes :
             FinishCreate(r, l, p, size)
    BY <1>2 DEF Creates
  <2>1. lobbies'[l].participants = [q \in ParticipantIds |->
            IF q = p THEN NewParticipant(tokens_issued + 1) ELSE None]
    BY CreateEffect, NewLobbyParticipants
  <2>2. NewParticipant(tokens_issued + 1).token_hash
          = hash_capability_token(tokens_issued + 1)
    BY DEF NewParticipant
  <2>3. /\ HashAt(l, p)' = hash_capability_token(tokens_issued + 1)
        /\ \A q \in ParticipantIds \ {p} : ~Taken(l, q)'
    BY <2>1, <2>2 DEF HashAt, Taken
  <2>4. \A m \in LobbyIds \ {l} : lobbies'[m] \in {lobbies[m], None}
    BY CreateEffect
  <2> QED BY <2>3, <2>4 DEF FinishCreate, IssuesTo, Taken, HashAt
<1>3. CASE Joins
  <2> PICK l \in LobbyIds, p \in ParticipantIds : JoinLobby(l, p)
    BY <1>3 DEF Joins
  <2>1. /\ lobbies[l].participants \in [ParticipantIds -> Participant \cup {None}]
        /\ lobbies'[l].participants = [lobbies[l].participants EXCEPT
                                         ![p] = NewParticipant(tokens_issued + 1)]
        /\ lobbies[l] # None
        /\ tokens_issued' = tokens_issued + 1
        /\ OnlyChanges(l)
    BY JoinEffect DEF Lobby
  <2>2. NewParticipant(tokens_issued + 1).token_hash
          = hash_capability_token(tokens_issued + 1)
    BY DEF NewParticipant
  <2>3. /\ HashAt(l, p)' = hash_capability_token(tokens_issued + 1)
        /\ \A q \in ParticipantIds \ {p} :
             lobbies'[l].participants[q] = lobbies[l].participants[q]
    BY <2>1, <2>2 DEF HashAt
  <2> QED BY <2>1, <2>3 DEF OnlyChanges, IssuesTo, Taken, HashAt
<1>4. ASSUME NEW l \in LobbyIds, Updates(l)
      PROVE  NoNewCredential
  BY <1>4, UpdateEffect DEF Updates, OnlyChanges, NoNewCredential, Taken, HashAt
<1>5. CASE Registers \/ Unregisters
  <2> PICK l \in LobbyIds, p \in ParticipantIds, c \in Connection \cup {None} :
             Connects(l, p, c)
    BY <1>5, ConnectionStepEffect
  <2>1. /\ lobbies[l].participants \in [ParticipantIds -> Participant \cup {None}]
        /\ lobbies[l].participants[p] \in Participant
    BY DEF Connects, Lobby, Members
  <2>2. [lobbies[l].participants[p] EXCEPT !.connection = c].token_hash
          = lobbies[l].participants[p].token_hash
    BY <2>1 DEF Participant
  <2>3. /\ lobbies'[l].participants[p].token_hash = lobbies[l].participants[p].token_hash
        /\ \A q \in ParticipantIds \ {p} :
             lobbies'[l].participants[q] = lobbies[l].participants[q]
    BY <2>1, <2>2 DEF Connects
  <2>4. lobbies[l].participants[p] # None /\ lobbies[l] # None
    BY DEF Connects, Members
  <2> QED BY <2>3, <2>4 DEF Connects, OnlyChanges, NoNewCredential, Taken, HashAt
<1> QED BY <1>1, <1>2, <1>3, <1>4, <1>5, StepKinds

\* No step makes two slots hold one credential, or one not yet issued.
LEMMA CredentialsPreserved ==
  ASSUME TypeOK, CredentialsIssued, SlotHashesUnique, [Next]_storeVars
  PROVE  CredentialsIssued' /\ SlotHashesUnique'
<1> USE DEF CredentialsIssued, SlotHashesUnique
<1>1. CASE NoNewCredential
  BY <1>1 DEF NoNewCredential
<1>2. ASSUME NEW l \in LobbyIds, NEW p \in ParticipantIds, IssuesTo(l, p)
      PROVE  CredentialsIssued' /\ SlotHashesUnique'
  <2>1. tokens_issued \in Nat /\ tokens_issued' = tokens_issued + 1
    BY <1>2 DEF IssuesTo, TypeOK
  <2>2. \A t : t \in 1 .. tokens_issued => t \in 1 .. tokens_issued' /\ t # tokens_issued + 1
    BY <2>1
  <2>3. tokens_issued + 1 \in 1 .. tokens_issued'
    BY <2>1
  <2>4. CredentialsIssued'
    BY <1>2, <2>2, <2>3 DEF IssuesTo
  <2>5. \A m \in LobbyIds, q \in ParticipantIds :
          Taken(m, q) => HashAt(m, q) # hash_capability_token(tokens_issued + 1)
    BY <2>2, HashInjective
  <2>6. SlotHashesUnique'
    BY <1>2, <2>5 DEF IssuesTo
  <2> QED BY <2>4, <2>6
<1> QED BY <1>1, <1>2, NewCredentials

\* Whatever codes and identifiers are drawn again: a capability token admits its
\* holder to one slot of one lobby at most.
THEOREM CredentialsHold == Spec => []CredentialsUnique
<1>1. Init => CredentialsIssued /\ SlotHashesUnique
  BY DEF Init, CredentialsIssued, SlotHashesUnique, Taken
<1>2. SlotHashesUnique => CredentialsUnique
  BY DEF CredentialsUnique, SlotHashesUnique, Stored, Members, Taken, HashAt
<1> QED BY <1>1, <1>2, CredentialsPreserved, TypeCorrect, PTL DEF Spec

-------------------------------------------------------------------------------
(* What a step may never do to a lobby that stays.                          *)

\* A lobby that stays under its code is untouched, joined or updated.
LEMMA SameLobbySteps ==
  ASSUME TypeOK, [Next]_storeVars, NEW l \in LobbyIds, SameLobby(l)
  PROVE  \/ lobbies'[l] = lobbies[l]
         \/ \E p \in ParticipantIds : JoinLobby(l, p)
         \/ Updates(l)
         \/ Found(l) /\ \E p \in ParticipantIds, c \in Connection : Connects(l, p, c)
         \/ \E p \in ParticipantIds : Connects(l, p, None)
<1>0. lobbies[l] # None /\ lobbies'[l] # None /\ ~Created(l)
  BY DEF SameLobby
<1>1. CASE OnlyRemoves
  BY <1>0, <1>1 DEF OnlyRemoves
<1>2. CASE Creates
  <2> PICK r \in Requests, m \in LobbyIds, p \in ParticipantIds, size \in Sizes :
             FinishCreate(r, m, p, size)
    BY <1>2 DEF Creates
  <2>1. CASE l = m
    <3>1. /\ lobbies'[l] = NewLobby(creating[r], p, size, tokens_issued + 1)
          /\ creating[r] \in Times
          /\ tokens_issued + 1 \in Tokens
      BY <2>1, CreateEffect
    <3>2. /\ lobbies'[l].host_participant_id = p
          /\ lobbies'[l].participants = [q \in ParticipantIds |->
                IF q = p THEN NewParticipant(tokens_issued + 1) ELSE None]
      BY <3>1, NewLobbyMembers, NewLobbyParticipants
    <3>3. lobbies'[l].participants[lobbies'[l].host_participant_id].token_hash
            = hash_capability_token(tokens_issued + 1)
      BY <3>2 DEF NewParticipant
    <3>4. tokens_issued \in Nat /\ tokens_issued' = tokens_issued + 1
      BY DEF FinishCreate, TypeOK
    <3>5. creating' # creating
      BY DEF FinishCreate, TypeOK
    <3> QED BY <1>0, <3>3, <3>4, <3>5 DEF Created
  <2>2. CASE l # m
    BY <2>2, <1>0, CreateEffect
  <2> QED BY <2>1, <2>2
<1>3. CASE Joins
  BY <1>3, JoinEffect DEF Joins, OnlyChanges
<1>4. ASSUME NEW m \in LobbyIds, Updates(m)
      PROVE  lobbies'[l] = lobbies[l] \/ Updates(l)
  BY <1>4, UpdateEffect DEF OnlyChanges
<1>5. ASSUME NEW m \in LobbyIds, NEW p \in ParticipantIds, NEW c \in Connection \cup {None},
             Connects(m, p, c), c # None => Found(m)
      PROVE  \/ lobbies'[l] = lobbies[l]
             \/ Found(l) /\ \E q \in ParticipantIds, d \in Connection : Connects(l, q, d)
             \/ \E q \in ParticipantIds : Connects(l, q, None)
  BY <1>5 DEF Connects, OnlyChanges
<1> QED BY <1>1, <1>2, <1>3, <1>4, <1>5, StepKinds, ConnectionStepEffect

\* A registration or an unregistration leaves every credential of the lobby.
LEMMA ConnectsKeepsHashes ==
  ASSUME NEW l, NEW p \in ParticipantIds, NEW c \in Connection \cup {None},
         Connects(l, p, c)
  PROVE  /\ \A q \in ParticipantIds \ {p} :
              lobbies'[l].participants[q] = lobbies[l].participants[q]
         /\ lobbies'[l].participants[p] = [lobbies[l].participants[p] EXCEPT !.connection = c]
         /\ lobbies'[l].participants[p].token_hash = lobbies[l].participants[p].token_hash
<1>1. /\ lobbies[l].participants \in [ParticipantIds -> Participant \cup {None}]
      /\ lobbies[l].participants[p] \in Participant
  BY DEF Connects, Lobby, Members
<1>2. [lobbies[l].participants[p] EXCEPT !.connection = c].token_hash
        = lobbies[l].participants[p].token_hash
  BY <1>1 DEF Participant
<1> QED BY <1>1, <1>2 DEF Connects

\* Every step satisfies the action formula of MembershipOnlyGrows.
LEMMA MembershipStep == TypeOK /\ [Next]_storeVars => MembershipKept
<1> SUFFICES ASSUME TypeOK, [Next]_storeVars, NEW l \in LobbyIds, SameLobby(l)
             PROVE  /\ lobbies'[l].max_expires_at = lobbies[l].max_expires_at
                    /\ lobbies'[l].max_participants = lobbies[l].max_participants
                    /\ lobbies'[l].host_participant_id = lobbies[l].host_participant_id
                    /\ lobbies'[l].expires_at >= lobbies[l].expires_at
                    /\ Members(lobbies[l]) \subseteq Members(lobbies'[l])
                    /\ \A p \in Members(lobbies[l]) :
                         lobbies'[l].participants[p].token_hash
                           = lobbies[l].participants[p].token_hash
  BY DEF MembershipKept
<1>1. lobbies[l] \in Lobby /\ lobbies[l].expires_at \in Nat
  BY DEF SameLobby, TypeOK, Lobby, Times
<1>2. CASE lobbies'[l] = lobbies[l]
  BY <1>1, <1>2
<1>3. ASSUME NEW p \in ParticipantIds, JoinLobby(l, p)
      PROVE  /\ SameTerms(lobbies'[l], lobbies[l])
             /\ Members(lobbies[l]) \subseteq Members(lobbies'[l])
             /\ \A q \in Members(lobbies[l]) :
                  lobbies'[l].participants[q] = lobbies[l].participants[q]
  <2>1. lobbies[l].participants \in [ParticipantIds -> Participant \cup {None}]
    BY <1>1 DEF Lobby
  <2> QED BY <1>3, <2>1, JoinEffect DEF Members
<1>4. CASE Updates(l)
  BY <1>4, UpdateEffect
<1>5. ASSUME NEW p \in ParticipantIds, NEW c \in Connection \cup {None}, Connects(l, p, c)
      PROVE  /\ SameTerms(lobbies'[l], lobbies[l])
             /\ Members(lobbies[l]) \subseteq Members(lobbies'[l])
             /\ \A q \in Members(lobbies[l]) :
                  lobbies'[l].participants[q].token_hash
                    = lobbies[l].participants[q].token_hash
  BY <1>5, ConnectsKeepsHashes DEF Connects, Members
<1> QED BY <1>1, <1>2, <1>3, <1>4, <1>5, SameLobbySteps DEF SameTerms

\* For every step of every behaviour: a lobby that stays keeps its terms and all
\* of its participants, with their credentials.
THEOREM MembershipGrowsOnly == Spec => MembershipOnlyGrows
<1>1. TypeOK /\ [Next]_storeVars => [MembershipKept]_storeVars
  BY MembershipStep
<1> QED BY <1>1, TypeCorrect, PTL DEF Spec, MembershipOnlyGrows

\* Every step satisfies the action formula of ReferenceWrittenOnce.
LEMMA ReferenceStep == TypeOK /\ [Next]_storeVars => ReferenceKept
<1> SUFFICES ASSUME TypeOK, [Next]_storeVars, NEW l \in LobbyIds, SameLobby(l),
                    lobbies[l].game_reference # None
             PROVE  lobbies'[l].game_reference = lobbies[l].game_reference
  BY DEF ReferenceKept
<1> QED BY SameLobbySteps, JoinEffect, UpdateEffect DEF Connects, SameTerms

\* A bound game reference stays for as long as its lobby.
THEOREM ReferenceBoundOnce == Spec => ReferenceWrittenOnce
<1>1. TypeOK /\ [Next]_storeVars => [ReferenceKept]_storeVars
  BY ReferenceStep
<1> QED BY <1>1, TypeCorrect, PTL DEF Spec, ReferenceWrittenOnce

\* Every step satisfies the action formula of ExpiredIsInert.
LEMMA ExpiredStep == TypeOK /\ [Next]_storeVars => ExpiredUntouched
<1> SUFFICES ASSUME TypeOK, [Next]_storeVars, NEW l \in LobbyIds, Expired(l), SameLobby(l)
             PROVE  /\ lobbies'[l].expires_at = lobbies[l].expires_at
                    /\ lobbies'[l].game_reference = lobbies[l].game_reference
                    /\ OnlyDisconnected(lobbies[l], lobbies'[l])
  BY DEF ExpiredUntouched
<1>1. ~Found(l)
  BY DEF Found
<1>2. \/ lobbies'[l] = lobbies[l]
      \/ \E p \in ParticipantIds : Connects(l, p, None)
  BY <1>1, SameLobbySteps DEF JoinLobby, Updates
<1>3. ASSUME NEW p \in ParticipantIds, Connects(l, p, None)
      PROVE  /\ SameTerms(lobbies'[l], lobbies[l])
             /\ OnlyDisconnected(lobbies[l], lobbies'[l])
  BY <1>3, ConnectsKeepsHashes DEF Connects, Members, OnlyDisconnected
<1> QED BY <1>2, <1>3 DEF SameTerms, OnlyDisconnected

\* Between its expiry and the sweep a lobby can lose connections and nothing
\* else.
THEOREM ExpiredStaysInert == Spec => ExpiredIsInert
<1>1. TypeOK /\ [Next]_storeVars => [ExpiredUntouched]_storeVars
  BY ExpiredStep
<1> QED BY <1>1, TypeCorrect, PTL DEF Spec, ExpiredIsInert
===============================================================================
