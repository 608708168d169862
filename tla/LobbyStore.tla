------------------------------ MODULE LobbyStore ------------------------------
(***************************************************************************)
(* The in-memory lobby store of the setup service (src/src/lobby.rs).      *)
(*                                                                         *)
(* One tokio mutex guards the map of lobbies, so every method of           *)
(* LobbyStore is one action, except create_lobby, which reads the clock    *)
(* before it takes the mutex and is therefore two.  Every method addressed *)
(* to a lobby first removes that lobby if it has expired, whatever it then *)
(* answers; unregister_connection alone does not.  A method that only      *)
(* reads, and one that is refused, leaves just that removal behind: they   *)
(* are the one action Access.                                              *)
(*                                                                         *)
(* The wall clock may be set to anything between two calls.  MaxTime is    *)
(* u64::MAX: the value of a clock before the epoch, and the value sums     *)
(* saturate at.                                                            *)
(***************************************************************************)
EXTENDS Integers, FiniteSets

CONSTANTS
  LobbyIds,            \* codes generate_room_id may draw
  ParticipantIds,      \* identifiers generate_participant_id may draw
  Senders,             \* outbox senders a registration may bring
  References,          \* game references a host may bind
  Sizes,               \* accepted values of max_participants
  Requests,            \* create requests that may be in progress at once
  MaxLobbies,          \* capacity of the store
  Ttl,                 \* state.room_ttl, the lifetime and the renewal step
  LifetimeMultiplier,  \* cap of the total lifetime, in Ttls
  MaxTime,             \* u64::MAX
  MaxTokens,           \* bound: capability tokens generated
  MaxConnections,      \* bound: connection ids handed out
  None                 \* the absent value

ASSUME CapacityAssumption ==
  /\ MaxLobbies \in Nat \ {0}
  /\ Sizes \subseteq Nat \ {0, 1}
  /\ IsFiniteSet(LobbyIds)
  /\ IsFiniteSet(ParticipantIds)

ASSUME TimeAssumption ==
  /\ Ttl \in Nat \ {0}
  /\ LifetimeMultiplier \in Nat
  /\ MaxTime \in Nat

ASSUME BoundAssumption ==
  /\ MaxTokens \in Nat
  /\ MaxConnections \in Nat

VARIABLES
  lobbies,             \* Inner::lobbies: a Lobby, or None, for each code
  now,                 \* what now_ms() reads
  next_connection_id,  \* the atomic counter of register_connection
  tokens_issued,       \* generate_capability_token never repeats: tokens are counted
  creating             \* the created_at a create_lobby in progress has read

storeVars == <<lobbies, now, next_connection_id, tokens_issued, creating>>

Times == 0 .. MaxTime
Tokens == 1 .. MaxTokens

\* Mutant: a digest too short to tell two tokens apart.
HashTruncated(t) == [sha256 |-> t \div 2]

\* SHA-256 is taken to be injective: a digest determines its token.
hash_capability_token(t) == [sha256 |-> t]
Digests == {hash_capability_token(t) : t \in Tokens}

Connection == [id : 1 .. MaxConnections, sender : Senders]

Participant == [token_hash : Digests, connection : Connection \cup {None}]

Lobby == [expires_at          : Times,
          max_expires_at      : Times,
          host_participant_id : ParticipantIds,
          max_participants    : Sizes,
          participants        : [ParticipantIds -> Participant \cup {None}],
          game_reference      : References \cup {None}]

ASSUME NoneAssumption ==
  /\ None \notin Lobby
  /\ None \notin Participant
  /\ None \notin Connection
  /\ None \notin Times

-------------------------------------------------------------------------------
(* Reading the store.                                                       *)

\* Mutant: a sum that does not saturate.
AddUnbounded(a, b) == a + b

\* u64::saturating_add on milliseconds.
SaturatingAdd(a, b) == IF a + b > MaxTime THEN MaxTime ELSE a + b

\* The codes with an entry in the map m, and the identifiers in a lobby.
Stored(m) == {l \in LobbyIds : m[l] # None}
Members(lobby) == {p \in ParticipantIds : lobby.participants[p] # None}
Connected(lobby) ==
  {p \in Members(lobby) : lobby.participants[p].connection # None}

\* The test of purge_lobby_if_expired.
Expired(l) == lobbies[l] # None /\ lobbies[l].expires_at <= now

\* Mutant: the method does not purge.
FoundUnpurged(l) == lobbies[l] # None

\* The lobby an addressed method finds once it has purged it.
Found(l) == lobbies[l] # None /\ ~Expired(l)

\* Mutant: membership is checked, the token is not.
MemberOnly(lobby, p, t) == p \in Members(lobby)

\* hashes_equal on the digest of the presented token.
Authenticated(lobby, p, t) ==
  /\ p \in Members(lobby)
  /\ lobby.participants[p].token_hash = hash_capability_token(t)

-------------------------------------------------------------------------------
(* The maps the methods leave behind.                                       *)

\* purge_lobby_if_expired(l)
PurgedOf(l) == IF Expired(l) THEN [lobbies EXCEPT ![l] = None] ELSE lobbies

\* Mutant: a lobby is kept at the very instant it expires.
PurgedLater ==
  [l \in LobbyIds |-> IF Expired(l) /\ lobbies[l].expires_at < now THEN None ELSE lobbies[l]]

\* purge_expired
Purged == [l \in LobbyIds |-> IF Expired(l) THEN None ELSE lobbies[l]]

\* create_lobby sweeps only when the store is full.
PurgedUnderPressure ==
  IF Cardinality(Stored(lobbies)) >= MaxLobbies THEN Purged ELSE lobbies

\* Mutants: one lobby, or one participant, too many.
HasRoomForOneMore(m) == Cardinality(Stored(m)) <= MaxLobbies
HasSeatForOneMore(lobby) == Cardinality(Members(lobby)) <= lobby.max_participants

HasRoom(m) == Cardinality(Stored(m)) < MaxLobbies
HasSeat(lobby) == Cardinality(Members(lobby)) < lobby.max_participants

\* Mutant: an identifier drawn again replaces its holder.
AlwaysFree(lobby, p) == TRUE

IsFree(lobby, p) == p \notin Members(lobby)

NewParticipant(t) ==
  [token_hash |-> hash_capability_token(t), connection |-> None]

NewLobby(created_at, p, size, t) ==
  LET expires_at == SaturatingAdd(created_at, Ttl)
      capped_at == SaturatingAdd(created_at,
                     Ttl * (IF LifetimeMultiplier < 1 THEN 1 ELSE LifetimeMultiplier))
  IN [expires_at          |-> expires_at,
      max_expires_at      |-> IF capped_at < expires_at THEN expires_at ELSE capped_at,
      host_participant_id |-> p,
      max_participants    |-> size,
      participants        |-> [q \in ParticipantIds |->
                                 IF q = p THEN NewParticipant(t) ELSE None],
      game_reference      |-> None]

WithParticipant(lobby, p, participant) == [lobby EXCEPT !.participants[p] = participant]
WithConnection(lobby, p, c) ==
  WithParticipant(lobby, p, [lobby.participants[p] EXCEPT !.connection = c])

-------------------------------------------------------------------------------
(* create_lobby                                                             *)

Init ==
  /\ lobbies = [l \in LobbyIds |-> None]
  /\ now \in Times
  /\ next_connection_id = 1
  /\ tokens_issued = 0
  /\ creating = [r \in Requests |-> None]

\* The ids are drawn and the clock is read, before the mutex is requested.
BeginCreate(r) ==
  /\ creating[r] = None
  /\ now # MaxTime
  /\ creating' = [creating EXCEPT ![r] = now]
  /\ UNCHANGED <<lobbies, now, next_connection_id, tokens_issued>>

\* The mutex is held: the lobby is inserted with the expiry of the clock
\* reading taken before.
FinishCreate(r, l, p, size) ==
  /\ creating[r] # None
  /\ tokens_issued < MaxTokens
  /\ HasRoom(PurgedUnderPressure)
  /\ PurgedUnderPressure[l] = None
  /\ lobbies' = [PurgedUnderPressure EXCEPT
                   ![l] = NewLobby(creating[r], p, size, tokens_issued + 1)]
  /\ tokens_issued' = tokens_issued + 1
  /\ creating' = [creating EXCEPT ![r] = None]
  /\ UNCHANGED <<now, next_connection_id>>

\* The store stays full, or the drawn code is taken: the request gives up, or
\* starts over with another code and another reading of the clock.
MissCreate(r) ==
  /\ creating[r] # None
  /\ Stored(PurgedUnderPressure) # {}
  /\ lobbies' = PurgedUnderPressure
  /\ creating' = [creating EXCEPT ![r] = None]
  /\ UNCHANGED <<now, next_connection_id, tokens_issued>>

\* The request deadline drops the future that waits for the mutex.
CancelCreate(r) ==
  /\ creating[r] # None
  /\ creating' = [creating EXCEPT ![r] = None]
  /\ UNCHANGED <<lobbies, now, next_connection_id, tokens_issued>>

-------------------------------------------------------------------------------
(* Methods addressed to one lobby.                                          *)

\* join_lobby
JoinLobby(l, p) ==
  /\ Found(l)
  /\ tokens_issued < MaxTokens
  /\ HasSeat(lobbies[l])
  /\ IsFree(lobbies[l], p)
  /\ lobbies' = [lobbies EXCEPT ![l] =
                   WithParticipant(@, p, NewParticipant(tokens_issued + 1))]
  /\ tokens_issued' = tokens_issued + 1
  /\ UNCHANGED <<now, next_connection_id, creating>>

\* Mutant: the host may bind again.
Rebindable(lobby) == TRUE

Bindable(lobby) == lobby.game_reference = None

\* bind_game_reference: the first binding; repeating it changes nothing.
BindGameReference(l, p, t, reference) ==
  /\ Found(l)
  /\ Authenticated(lobbies[l], p, t)
  /\ lobbies[l].host_participant_id = p
  /\ Bindable(lobbies[l])
  /\ lobbies' = [lobbies EXCEPT ![l] = [@ EXCEPT !.game_reference = reference]]
  /\ UNCHANGED <<now, next_connection_id, tokens_issued, creating>>

next_expires_at(lobby) ==
  LET extended == SaturatingAdd(lobby.expires_at, Ttl)
  IN IF extended < lobby.max_expires_at THEN extended ELSE lobby.max_expires_at

\* Mutant: the cap is forgotten.
RenewUncapped(l, p, t) ==
  /\ Found(l)
  /\ lobbies[l].host_participant_id = p
  /\ Authenticated(lobbies[l], p, t)
  /\ lobbies' = [lobbies EXCEPT ![l].expires_at = SaturatingAdd(@, Ttl)]
  /\ UNCHANGED <<now, next_connection_id, tokens_issued, creating>>

\* renew_lobby
RenewLobby(l, p, t) ==
  /\ Found(l)
  /\ lobbies[l].host_participant_id = p
  /\ Authenticated(lobbies[l], p, t)
  /\ lobbies[l].expires_at < lobbies[l].max_expires_at
  /\ next_expires_at(lobbies[l]) > lobbies[l].expires_at
  /\ lobbies' = [lobbies EXCEPT ![l] =
                   [@ EXCEPT !.expires_at = next_expires_at(lobbies[l])]]
  /\ UNCHANGED <<now, next_connection_id, tokens_issued, creating>>

\* Mutant: the counter is read and not advanced.
KeepConnectionId == UNCHANGED next_connection_id

TakeConnectionId == next_connection_id' = next_connection_id + 1

\* register_connection: the new connection takes the place of any older one.
RegisterConnection(l, p, t, sender) ==
  /\ Found(l)
  /\ Authenticated(lobbies[l], p, t)
  /\ next_connection_id <= MaxConnections
  /\ lobbies' = [lobbies EXCEPT ![l] =
                   WithConnection(@, p, [id |-> next_connection_id, sender |-> sender])]
  /\ TakeConnectionId
  /\ UNCHANGED <<now, tokens_issued, creating>>

\* Mutant: whatever connection is in the slot is taken out.
IsOccupied(l, p, id) == lobbies[l] # None /\ p \in Connected(lobbies[l])

\* The connection that unregister_connection would take out of its slot.
IsCurrent(l, p, id) ==
  /\ lobbies[l] # None
  /\ p \in Connected(lobbies[l])
  /\ lobbies[l].participants[p].connection.id = id

\* unregister_connection, for the connection that is still in the slot.  The
\* expiry is not looked at.
UnregisterConnection(l, p, id) ==
  /\ IsCurrent(l, p, id)
  /\ lobbies' = [lobbies EXCEPT ![l] = WithConnection(@, p, None)]
  /\ UNCHANGED <<now, next_connection_id, tokens_issued, creating>>

\* status, game_reference, authenticate, target_sender, and every refused call
\* of the methods above.
Access(l) ==
  /\ lobbies' = PurgedOf(l)
  /\ UNCHANGED <<now, next_connection_id, tokens_issued, creating>>

-------------------------------------------------------------------------------
(* The sweep of spawn_cleanup, and the clock.                               *)

CleanupExpired ==
  /\ lobbies' = Purged
  /\ UNCHANGED <<now, next_connection_id, tokens_issued, creating>>

ClockChange ==
  /\ now' \in Times
  /\ UNCHANGED <<lobbies, next_connection_id, tokens_issued, creating>>

CreateStep ==
  \E r \in Requests :
    \/ BeginCreate(r)
    \/ \E l \in LobbyIds, p \in ParticipantIds, size \in Sizes :
         FinishCreate(r, l, p, size)
    \/ MissCreate(r)
    \/ CancelCreate(r)

\* What HTTP requests and the background task do to the store.
ServiceStep ==
  \/ CreateStep
  \/ \E l \in LobbyIds, p \in ParticipantIds : JoinLobby(l, p)
  \/ \E l \in LobbyIds, p \in ParticipantIds, t \in Tokens :
       \/ \E reference \in References : BindGameReference(l, p, t, reference)
       \/ RenewLobby(l, p, t)
  \/ \E l \in LobbyIds : Access(l)
  \/ CleanupExpired
  \/ ClockChange

\* What the WebSocket tasks do to it.
ConnectionStep ==
  \E l \in LobbyIds, p \in ParticipantIds :
    \/ \E t \in Tokens, sender \in Senders : RegisterConnection(l, p, t, sender)
    \/ \E id \in 1 .. MaxConnections : UnregisterConnection(l, p, id)

Next == ServiceStep \/ ConnectionStep

\* spawn_cleanup never stops calling cleanup_expired.
StoreFairness == WF_storeVars(CleanupExpired)

Spec == Init /\ [][Next]_storeVars /\ StoreFairness

-------------------------------------------------------------------------------
(* Properties.                                                              *)

\* The shape of the state.
TypeOK ==
  /\ lobbies \in [LobbyIds -> Lobby \cup {None}]
  /\ now \in Times
  /\ next_connection_id \in 1 .. MaxConnections + 1
  /\ tokens_issued \in 0 .. MaxTokens
  /\ creating \in [Requests -> Times \cup {None}]

\* However create requests and sweeps interleave and wherever the clock jumps,
\* the store never holds more than max_lobbies lobbies (lobby.rs:185-190).
StoreWithinCapacity == Cardinality(Stored(lobbies)) <= MaxLobbies

\* No sequence of joins overfills a lobby, and its host never leaves the
\* participants (lobby.rs:246-251): renew_lobby and bind_game_reference look
\* the host up there.
MembershipWithinSize ==
  \A l \in Stored(lobbies) :
    /\ lobbies[l].host_participant_id \in Members(lobbies[l])
    /\ Cardinality(Members(lobbies[l])) <= lobbies[l].max_participants

\* Renewals, saturation and jumps of the clock together never take a lobby
\* past the cap fixed when it was created (lobby.rs:389-400).
LifetimeCapped ==
  \A l \in Stored(lobbies) : lobbies[l].expires_at <= lobbies[l].max_expires_at

\* No two slots of any two lobbies ever hold the same connection id, and none
\* is still to be handed out: the comparison in unregister_connection
\* (lobby.rs:482-488) cannot mistake one connection for another.
ConnectionIdsUnique ==
  \A l, m \in Stored(lobbies) :
    \A p \in Connected(lobbies[l]), q \in Connected(lobbies[m]) :
      LET c == lobbies[l].participants[p].connection
          d == lobbies[m].participants[q].connection
      IN c.id < next_connection_id /\ (c.id = d.id => l = m /\ p = q)

\* No two participants, of one lobby or of two, have the same credential, even
\* when codes and participant identifiers are drawn again (lobby.rs:166-171):
\* a token admits its holder to one slot only.
CredentialsUnique ==
  \A l, m \in Stored(lobbies) :
    \A p \in Members(lobbies[l]), q \in Members(lobbies[m]) :
      lobbies[l].participants[p].token_hash = lobbies[m].participants[q].token_hash
        => l = m /\ p = q

\* The step inserts a new lobby under l.  (A full create may sweep l and draw l
\* again.)
Created(l) ==
  /\ creating' # creating
  /\ tokens_issued' # tokens_issued
  /\ lobbies'[l].participants[lobbies'[l].host_participant_id].token_hash
       = hash_capability_token(tokens_issued')

\* The entry under l is the same lobby before and after the step.
SameLobby(l) == lobbies[l] # None /\ lobbies'[l] # None /\ ~Created(l)

MembershipKept ==
  \A l \in LobbyIds : SameLobby(l) =>
    /\ lobbies'[l].max_expires_at = lobbies[l].max_expires_at
    /\ lobbies'[l].max_participants = lobbies[l].max_participants
    /\ lobbies'[l].host_participant_id = lobbies[l].host_participant_id
    /\ lobbies'[l].expires_at >= lobbies[l].expires_at
    /\ \A p \in Members(lobbies[l]) :
         /\ p \in Members(lobbies'[l])
         /\ lobbies'[l].participants[p].token_hash
              = lobbies[l].participants[p].token_hash

ReferenceKept ==
  \A l \in LobbyIds : SameLobby(l) /\ lobbies[l].game_reference # None
    => lobbies'[l].game_reference = lobbies[l].game_reference

\* The lobby only lost connections.
OnlyDisconnected(before, after) ==
  \A p \in ParticipantIds :
    \/ after.participants[p] = before.participants[p]
    \/ /\ before.participants[p] # None
       /\ after.participants[p] = [before.participants[p] EXCEPT !.connection = None]

ExpiredUntouched ==
  \A l \in LobbyIds : Expired(l) /\ SameLobby(l) =>
    /\ lobbies'[l].expires_at = lobbies[l].expires_at
    /\ lobbies'[l].game_reference = lobbies[l].game_reference
    /\ OnlyDisconnected(lobbies[l], lobbies'[l])

\* While a lobby lasts its cap, size and host stay, its expiry never moves
\* back, and no participant loses its slot or its credential, whatever
\* identifiers later joins draw (lobby.rs:249-259, 402).
MembershipOnlyGrows == [][MembershipKept]_storeVars

\* The game reference of a lobby, once bound, never changes (lobby.rs:327-334).
ReferenceWrittenOnce == [][ReferenceKept]_storeVars

\* Nothing revives an expired lobby: no join, bind, renewal or registration
\* reaches it before a sweep does; it goes, or a socket of it unregisters
\* (lobby.rs:545-553, and the tests at lobby.rs:786-902).
ExpiredIsInert == [][ExpiredUntouched]_storeVars

\* An expired lobby is swept, unless the clock is set back before its expiry.
ExpiredIsReclaimed == \A l \in LobbyIds : Expired(l) ~> ~Expired(l)
===============================================================================
