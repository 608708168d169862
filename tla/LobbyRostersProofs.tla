-------------------------- MODULE LobbyRostersProofs --------------------------
(***************************************************************************)
(* Theorems about the tasks of LobbySockets and about the rosters that     *)
(* LobbyRosters composes with them, for every value of their constants:    *)
(* any number of sockets, participants and lobbies, any capacity of the    *)
(* outboxes.                                                               *)
(*                                                                         *)
(* The tasks come first, and their argument has two halves.  The first     *)
(* says what a step does to the slots of the store, in three words: it     *)
(* registers, it unregisters, or each lobby stays or goes.  The second     *)
(* says what a step does to the tasks: only a registration opens a socket. *)
(*                                                                         *)
(* What a browser believes about another participant is settled by three   *)
(* things: its roster, the frames queued for it, and the reports that      *)
(* tasks have still to send it.  The invariant says of the three together  *)
(* what RosterExact says of the roster once the other two are through.     *)
(***************************************************************************)
EXTENDS LobbyRosters, LobbyStoreProofs

-------------------------------------------------------------------------------
(* What a step does to the slots of the store.                              *)

SlotAt(l, p) == lobbies[l].participants[p]
SenderAt(l, p) == lobbies[l].participants[p].connection.sender

\* A participant that has just been let in, and is not connected.
Fresh(l, p) ==
  /\ ~Occupied(l, p)'
  /\ HashAt(l, p)' = hash_capability_token(tokens_issued + 1)
  /\ tokens_issued' = tokens_issued + 1

\* The lobby under l keeps its participants, and may let one in.
Stays(l) ==
  \A p \in ParticipantIds :
    IF Taken(l, p) THEN Taken(l, p)' /\ SlotAt(l, p)' = SlotAt(l, p)
    ELSE Taken(l, p)' => Fresh(l, p)

\* The lobby under l is gone, or another one has its code.
Goes(l) == \A p \in ParticipantIds : ~Occupied(l, p)' /\ (Taken(l, p)' => Fresh(l, p))

\* What the service does to the slots.
ServiceOnly ==
  /\ \A l \in LobbyIds : Stays(l) \/ Goes(l)
  /\ tokens_issued' >= tokens_issued
  /\ UNCHANGED next_connection_id

\* A participant just let in is not connected.
LEMMA NewParticipantSlot ==
  ASSUME NEW t
  PROVE  /\ NewParticipant(t).connection = None
         /\ NewParticipant(t).token_hash = hash_capability_token(t)
BY DEF NewParticipant

\* No request and no sweep connects or disconnects anyone in a lobby that stays.
LEMMA ServiceEffect ==
  ASSUME TypeOK, [ServiceStep]_storeVars
  PROVE  ServiceOnly
<1>0. tokens_issued \in Nat
  BY DEF TypeOK
<1>1. CASE OnlyRemoves
  BY <1>0, <1>1 DEF OnlyRemoves, ServiceOnly, Stays, Goes, Taken, Occupied, SlotAt
<1>2. CASE Creates
  <2> PICK r \in Requests, l \in LobbyIds, p \in ParticipantIds, size \in Sizes :
             FinishCreate(r, l, p, size)
    BY <1>2 DEF Creates
  <2>1. lobbies'[l].participants = [q \in ParticipantIds |->
            IF q = p THEN NewParticipant(tokens_issued + 1) ELSE None]
    BY CreateEffect, NewLobbyParticipants
  <2>2. tokens_issued' = tokens_issued + 1 /\ UNCHANGED next_connection_id
    BY DEF FinishCreate
  <2>3. Goes(l)
    BY <2>1, <2>2, NewParticipantSlot DEF Goes, Fresh, Taken, Occupied, HashAt
  <2>4. ASSUME NEW m \in LobbyIds \ {l} PROVE Stays(m) \/ Goes(m)
    <3>1. lobbies'[m] \in {lobbies[m], None}
      BY CreateEffect
    <3> QED BY <3>1 DEF Stays, Goes, Taken, Occupied, SlotAt
  <2> QED BY <1>0, <2>2, <2>3, <2>4 DEF ServiceOnly
<1>3. CASE Joins
  <2> PICK l \in LobbyIds, p \in ParticipantIds : JoinLobby(l, p)
    BY <1>3 DEF Joins
  <2>1. /\ lobbies[l] # None
        /\ lobbies[l].participants \in [ParticipantIds -> Participant \cup {None}]
        /\ lobbies'[l].participants = [lobbies[l].participants EXCEPT
                                         ![p] = NewParticipant(tokens_issued + 1)]
        /\ lobbies'[l] # None
        /\ lobbies[l].participants[p] = None
        /\ tokens_issued' = tokens_issued + 1
        /\ UNCHANGED next_connection_id
        /\ OnlyChanges(l)
    <3>1. /\ lobbies[l] \in Lobby
          /\ lobbies[l] # None
          /\ lobbies'[l] \in Lobby
          /\ p \notin Members(lobbies[l])
          /\ lobbies'[l].participants = [lobbies[l].participants EXCEPT
                                           ![p] = NewParticipant(tokens_issued + 1)]
          /\ tokens_issued' = tokens_issued + 1
          /\ UNCHANGED next_connection_id
          /\ OnlyChanges(l)
      BY JoinEffect
    <3>2. lobbies[l].participants \in [ParticipantIds -> Participant \cup {None}]
      BY <3>1 DEF Lobby
    <3>3. lobbies'[l] # None
      BY <3>1, NoneAssumption
    <3> QED BY <3>1, <3>2, <3>3 DEF Members
  <2>2. Stays(l)
    <3> SUFFICES ASSUME NEW q \in ParticipantIds
                 PROVE  IF Taken(l, q) THEN Taken(l, q)' /\ SlotAt(l, q)' = SlotAt(l, q)
                        ELSE Taken(l, q)' => Fresh(l, q)
      BY DEF Stays
    <3>1. CASE q = p
      <4>1. lobbies'[l].participants[q] = NewParticipant(tokens_issued + 1)
        BY <2>1, <3>1
      <4> QED BY <2>1, <3>1, <4>1, NewParticipantSlot DEF Fresh, Taken, Occupied, HashAt
    <3>2. CASE q # p
      BY <2>1, <3>2 DEF Taken, SlotAt
    <3> QED BY <3>1, <3>2
  <2>3. ASSUME NEW m \in LobbyIds \ {l} PROVE Stays(m)
    BY <2>1 DEF OnlyChanges, Stays, Taken, SlotAt
  <2> QED BY <1>0, <2>1, <2>2, <2>3 DEF ServiceOnly
<1>4. ASSUME NEW l \in LobbyIds, Updates(l) PROVE ServiceOnly
  <2>1. /\ lobbies[l] # None
        /\ lobbies'[l] # None
        /\ lobbies'[l].participants = lobbies[l].participants
        /\ OnlyChanges(l)
        /\ UNCHANGED <<tokens_issued, next_connection_id>>
    BY <1>4, UpdateEffect, NoneAssumption DEF Updates
  <2>2. ASSUME NEW m \in LobbyIds PROVE Stays(m)
    BY <2>1 DEF OnlyChanges, Stays, Taken, SlotAt
  <2> QED BY <1>0, <2>1, <2>2 DEF ServiceOnly
<1> QED BY <1>1, <1>2, <1>3, <1>4, ServiceStepKinds

\* Every slot but that of p in l is as it was.
OtherSlotsStay(l, p) ==
  \A m \in LobbyIds, q \in ParticipantIds : m # l \/ q # p =>
    /\ Taken(m, q)' = Taken(m, q)
    /\ SlotAt(m, q)' = SlotAt(m, q)

\* A registration or an unregistration keeps every credential and writes one slot.
LEMMA ConnectsSlot ==
  ASSUME TypeOK, NEW l \in LobbyIds, NEW p \in ParticipantIds,
         NEW c \in Connection \cup {None}, Connects(l, p, c)
  PROVE  /\ Taken(l, p) /\ Taken(l, p)'
         /\ SlotAt(l, p)'.connection = c
         /\ HashAt(l, p)' = HashAt(l, p)
         /\ OtherSlotsStay(l, p)
<1>1. /\ lobbies[l].participants \in [ParticipantIds -> Participant \cup {None}]
      /\ lobbies'[l].participants \in [ParticipantIds -> Participant \cup {None}]
      /\ lobbies[l].participants[p] \in Participant
      /\ lobbies[l] # None
      /\ lobbies'[l] # None
  BY NoneAssumption DEF Connects, Lobby, Members
<1>2. /\ [lobbies[l].participants[p] EXCEPT !.connection = c].connection = c
      /\ [lobbies[l].participants[p] EXCEPT !.connection = c].token_hash
           = lobbies[l].participants[p].token_hash
      /\ [lobbies[l].participants[p] EXCEPT !.connection = c] \in Participant
  BY <1>1 DEF Participant
<1>3. /\ lobbies'[l].participants[p]
           = [lobbies[l].participants[p] EXCEPT !.connection = c]
      /\ \A q \in ParticipantIds \ {p} :
           lobbies'[l].participants[q] = lobbies[l].participants[q]
  BY <1>1 DEF Connects
<1>4. \A m \in LobbyIds \ {l} : lobbies'[m] = lobbies[m]
  BY DEF Connects, OnlyChanges
<1>5. Taken(l, p) /\ Taken(l, p)'
  BY <1>1, <1>2, <1>3, NoneAssumption DEF Taken
<1>6. SlotAt(l, p)'.connection = c /\ HashAt(l, p)' = HashAt(l, p)
  BY <1>2, <1>3 DEF SlotAt, HashAt
<1>7. OtherSlotsStay(l, p)
  BY <1>1, <1>3, <1>4 DEF OtherSlotsStay, Taken, SlotAt
<1> QED BY <1>5, <1>6, <1>7

\* The socket s takes the slot of p in l, under the next connection id.
Takes(l, p, s) ==
  /\ Taken(l, p) /\ Taken(l, p)'
  /\ Occupied(l, p)'
  /\ SenderAt(l, p)' = s
  /\ IdAt(l, p)' = next_connection_id
  /\ HashAt(l, p)' = HashAt(l, p)
  /\ OtherSlotsStay(l, p)
  /\ next_connection_id' = next_connection_id + 1
  /\ UNCHANGED tokens_issued

\* A registration takes the slot.
LEMMA RegisterEffect ==
  ASSUME TypeOK, NEW l \in LobbyIds, NEW p \in ParticipantIds, NEW t \in Tokens,
         NEW s \in Senders, RegisterConnection(l, p, t, s)
  PROVE  Takes(l, p, s) /\ HashAt(l, p) = hash_capability_token(t)
<1> DEFINE c == [id |-> next_connection_id, sender |-> s]
<1>1. c \in Connection /\ c # None /\ c.id = next_connection_id /\ c.sender = s
  BY RegisterConnects, NoneAssumption
<1>2. Connects(l, p, c)
  BY RegisterConnects
<1> HIDE DEF c
<1>3. /\ Taken(l, p) /\ Taken(l, p)'
      /\ SlotAt(l, p)'.connection = c
      /\ HashAt(l, p)' = HashAt(l, p)
      /\ OtherSlotsStay(l, p)
  BY <1>1, <1>2, ConnectsSlot
<1>4. HashAt(l, p) = hash_capability_token(t)
  BY DEF RegisterConnection, Authenticated, HashAt
<1>5. next_connection_id' = next_connection_id + 1 /\ UNCHANGED tokens_issued
  BY DEF RegisterConnection, TakeConnectionId
<1> QED BY <1>1, <1>3, <1>4, <1>5 DEF Takes, Taken, Occupied, SenderAt, IdAt, SlotAt

\* The slot of p in l is emptied.
Frees(l, p) ==
  /\ Occupied(l, p)
  /\ ~Occupied(l, p)'
  /\ Taken(l, p) /\ Taken(l, p)'
  /\ HashAt(l, p)' = HashAt(l, p)
  /\ OtherSlotsStay(l, p)
  /\ UNCHANGED <<next_connection_id, tokens_issued>>

\* An unregistration empties it.
LEMMA UnregisterEffect ==
  ASSUME TypeOK, NEW l \in LobbyIds, NEW p \in ParticipantIds, NEW id,
         UnregisterConnection(l, p, id)
  PROVE  Frees(l, p) /\ IdAt(l, p) = id
<1>1. /\ Taken(l, p) /\ Taken(l, p)'
      /\ SlotAt(l, p)'.connection = None
      /\ HashAt(l, p)' = HashAt(l, p)
      /\ OtherSlotsStay(l, p)
  BY UnregisterConnects, ConnectsSlot
<1>2. Occupied(l, p) /\ IdAt(l, p) = id
  BY DEF UnregisterConnection, IsCurrent, Connected, Members, Occupied, IdAt
<1>3. UNCHANGED <<next_connection_id, tokens_issued>>
  BY DEF UnregisterConnection
<1> QED BY <1>1, <1>2, <1>3 DEF Frees, Occupied, SlotAt

\* Holding a slot, by slots.
LEMMA HoldsSlot ==
  ASSUME NEW s, NEW l \in LobbyIds, NEW p \in ParticipantIds
  PROVE  Holds(s, l, p) <=> Occupied(l, p) /\ SenderAt(l, p) = s
BY DEF Holds, Connected, Members, Occupied, SenderAt

-------------------------------------------------------------------------------
(* What an action does to the tasks.                                        *)

\* The tasks of the other sockets go on as they were.
OnlyTask(s) == \A x \in Sockets \ {s} : task'[x] = task[x]

\* A task has the identity it had: its participant, its lobby, its credential
\* and its connection.
SameIdentity(me, you) ==
  /\ me.lobby = you.lobby
  /\ me.participant = you.participant
  /\ me.token = you.token
  /\ me.id = you.id

\* A task that has not begun, or has returned, is a task.
LEMMA InactiveType ==
  ASSUME NEW stage \in Stages
  PROVE  /\ Inactive(stage) \in Task
         /\ Inactive(stage).stage = stage
         /\ Inactive(stage).outgoing = {}
         /\ Inactive(stage).token = 0
         /\ Inactive(stage).id = 0
         /\ Inactive(stage).participant = None
BY BoundAssumption DEF Inactive, Task

\* A task whose stage is written is a task with the same identity,
LEMMA StageWritten ==
  ASSUME NEW me \in Task, NEW stage \in Stages
  PROVE  /\ [me EXCEPT !.stage = stage] \in Task
         /\ [me EXCEPT !.stage = stage].stage = stage
         /\ [me EXCEPT !.stage = stage].outgoing = me.outgoing
         /\ SameIdentity([me EXCEPT !.stage = stage], me)
BY DEF Task, SameIdentity

\* and so is one whose commands are written,
LEMMA OutgoingWritten ==
  ASSUME NEW me \in Task, NEW left \in SUBSET Command
  PROVE  /\ [me EXCEPT !.outgoing = left] \in Task
         /\ [me EXCEPT !.outgoing = left].stage = me.stage
         /\ [me EXCEPT !.outgoing = left].outgoing = left
         /\ SameIdentity([me EXCEPT !.outgoing = left], me)
BY DEF Task, SameIdentity

\* or both.
LEMMA StageAndOutgoingWritten ==
  ASSUME NEW me \in Task, NEW stage \in Stages, NEW left \in SUBSET Command
  PROVE  /\ [me EXCEPT !.stage = stage, !.outgoing = left] \in Task
         /\ [me EXCEPT !.stage = stage, !.outgoing = left].stage = stage
         /\ [me EXCEPT !.stage = stage, !.outgoing = left].outgoing = left
         /\ SameIdentity([me EXCEPT !.stage = stage, !.outgoing = left], me)
         /\ [me EXCEPT !.outgoing = left, !.stage = stage]
              = [me EXCEPT !.stage = stage, !.outgoing = left]
BY DEF Task, SameIdentity

\* The stages a task is in and goes through, and the commands a task sends.
LEMMA StagesKnown ==
  /\ OpenStages \subseteq RegisteredStages
  /\ RegisteredStages \subseteq Stages
  /\ OpenStages = {"replacing", "greeting", "announcing", "serving", "relaying"}
  /\ Close.kind = "close"
  /\ \A f \in Frame : f.kind \in Kinds /\ f # Close
BY DEF OpenStages, RegisteredStages, Stages, Frame, Close, Kinds

\* What is stored for a connected participant is a sender and an id.
LEMMA SenderType ==
  ASSUME TypeOK, NEW l \in LobbyIds, lobbies[l] # None, NEW p \in Connected(lobbies[l])
  PROVE  /\ lobbies[l].participants[p].connection.sender \in Sockets
         /\ lobbies[l].participants[p].connection.id \in 1 .. MaxConnections
         /\ p \in ParticipantIds
<1>1. lobbies[l] \in Lobby
  BY DEF TypeOK
<1>2. lobbies[l].participants[p] \in Participant
  BY <1>1 DEF Lobby, Connected, Members
<1>3. lobbies[l].participants[p].connection \in Connection
  BY <1>2 DEF Participant, Connected
<1> QED BY <1>3 DEF Connection, Sockets, Connected, Members

\* A task that is under way has a lobby, a participant and a token.
Engaged ==
  \A s \in Sockets : task[s].stage \notin {"idle", "done"} =>
    /\ task[s].lobby \in LobbyIds
    /\ task[s].participant \in ParticipantIds
    /\ task[s].token \in Tokens

\* A Close is what a task sends first, and there is one at most.
ClosesFirst ==
  \A s \in Sockets : \A c \in task[s].outgoing : c.what = Close =>
    /\ task[s].stage = "replacing"
    /\ \A d \in task[s].outgoing : d.what = Close => d = c

\* What the senders of a list of sockets are sent is a list of commands.
LEMMA CommandsType ==
  ASSUME NEW receivers \in SUBSET Sockets, NEW what \in Frame \cup {Close}
  PROVE  /\ [to : receivers, what : {what}] \in SUBSET Command
         /\ \A c \in [to : receivers, what : {what}] : c.what = what /\ c.to \in receivers
         /\ \A r \in receivers : [to |-> r, what |-> what] \in [to : receivers, what : {what}]
BY DEF Command

\* What a task announces about its participant is a frame.
LEMMA AnnouncementType ==
  ASSUME Engaged, NEW s \in Sockets, task[s].stage \notin {"idle", "done"}, NEW kind \in Kinds
  PROVE  /\ Announcement(s, kind) \in Frame
         /\ Announcement(s, kind).kind = kind
         /\ Announcement(s, kind).from = task[s].participant
         /\ Announcement(s, kind) # Close
<1>1. task[s].participant \in ParticipantIds
  BY DEF Engaged
<1> QED BY <1>1, StagesKnown DEF Announcement, Frame

\* The senders of the other connected participants are sockets.
LEMMA PeersType ==
  ASSUME TypeOK, NEW me, me.lobby \in LobbyIds, lobbies[me.lobby] # None
  PROVE  ConnectedPeers(me) \in SUBSET Sockets /\ Replaced(me) \in SUBSET Sockets
BY SenderType DEF ConnectedPeers, Replaced

\* At most one sender is replaced.
LEMMA OneReplaced ==
  ASSUME NEW me, NEW r \in Replaced(me)
  PROVE  /\ Replaced(me) = {r}
         /\ me.participant \in Connected(lobbies[me.lobby])
         /\ r = SenderAt(me.lobby, me.participant)
BY DEF Replaced, SenderAt

\* The steps of the store keep its type whichever task takes them.
LEMMA SocketStoreType ==
  ASSUME TypeOK, [Next]_storeVars
  PROVE  TypeOK'
<1>1. CASE UNCHANGED storeVars
  BY <1>1 DEF TypeOK, storeVars
<1> QED BY <1>1, ServiceStepType, ConnectionStepType DEF Next

-------------------------------------------------------------------------------
(* What each action of a task does.                                         *)

\* An upgrade: the socket is idle, and gets the credential it presented.
LEMMA UpgradeEffect ==
  ASSUME SocketTypeOK, NEW s \in Sockets, NEW l \in LobbyIds, NEW p \in ParticipantIds,
         NEW t \in Tokens, Upgrade(s, l, p, t)
  PROVE  /\ OnlyTask(s)
         /\ task[s].stage = "idle"
         /\ task'[s].stage = "upgrading"
         /\ task'[s].lobby = l /\ task'[s].participant = p /\ task'[s].token = t
         /\ task'[s].outgoing = {}
         /\ task' \in [Sockets -> Task]
         /\ Taken(l, p)
         /\ HashAt(l, p) = hash_capability_token(t)
         /\ UNCHANGED <<storeVars, outbox>>
<1>1. /\ task' = [task EXCEPT ![s] = [Inactive("upgrading") EXCEPT
                 !.lobby = l, !.participant = p, !.token = t]]
      /\ task \in [Sockets -> Task]
      /\ task[s].stage = "idle"
  BY DEF Upgrade, SocketTypeOK
<1> DEFINE you == [Inactive("upgrading") EXCEPT !.lobby = l, !.participant = p, !.token = t]
<1>2. "upgrading" \in Stages
  BY DEF Stages
<1>3. /\ you \in Task
      /\ you.stage = "upgrading"
      /\ you.lobby = l /\ you.participant = p /\ you.token = t
      /\ you.outgoing = {}
  <2>1. t \in 0 .. MaxTokens
    BY BoundAssumption DEF Tokens
  <2>2. /\ Inactive("upgrading") \in Task
        /\ Inactive("upgrading").stage = "upgrading"
        /\ Inactive("upgrading").outgoing = {}
    BY <1>2, InactiveType
  <2> DEFINE fresh == Inactive("upgrading")
  <2> HIDE DEF fresh
  <2>3. you = [fresh EXCEPT !.lobby = l, !.participant = p, !.token = t]
    BY DEF fresh
  <2> HIDE DEF you
  <2>4. fresh \in Task /\ fresh.stage = "upgrading" /\ fresh.outgoing = {}
    BY <2>2 DEF fresh
  <2> QED BY <2>1, <2>3, <2>4 DEF Task
<1> HIDE DEF you
<1>4. Taken(l, p) /\ HashAt(l, p) = hash_capability_token(t)
  BY DEF Upgrade, Found, Authenticated, Members, Taken, HashAt
<1> QED BY <1>1, <1>3, <1>4 DEF OnlyTask, Upgrade, you

\* A registration, in the store and in the task.
LEMMA RegisterTask ==
  ASSUME SocketTypeOK, Engaged, NEW s \in Sockets, Register(s),
         NEW l, NEW p, l = task[s].lobby, p = task[s].participant
  PROVE  /\ OnlyTask(s)
         /\ task[s].stage = "upgrading"
         /\ task'[s].stage \in {"greeting", "replacing"}
         /\ task'[s].stage = "greeting" <=> Replaced(task[s]) = {}
         /\ task'[s].id = next_connection_id
         /\ task'[s].lobby = l
         /\ task'[s].participant = p
         /\ task'[s].token = task[s].token
         /\ task'[s].outgoing
              = [to : Replaced(task[s]), what : {Close}]
                  \cup [to : ConnectedPeers(task[s]), what : {Announcement(s, "connected")}]
         /\ task' \in [Sockets -> Task]
         /\ Takes(l, p, s)
         /\ HashAt(l, p) = hash_capability_token(task[s].token)
         /\ ConnectionStep
         /\ lobbies[l] # None
         /\ UNCHANGED outbox
<1> DEFINE me == task[s]
           out == [to : Replaced(me), what : {Close}]
                    \cup [to : ConnectedPeers(me), what : {Announcement(s, "connected")}]
           stage == IF Replaced(me) = {} THEN "greeting" ELSE "replacing"
           you == [me EXCEPT !.stage = stage, !.id = next_connection_id, !.outgoing = out]
<1>1. /\ me.stage = "upgrading"
      /\ RegisterConnection(l, p, me.token, s)
      /\ task' = [task EXCEPT ![s] = you]
      /\ UNCHANGED outbox
  BY DEF Register, SocketTypeOK
<1>2. /\ me \in Task /\ task \in [Sockets -> Task]
      /\ l \in LobbyIds /\ p \in ParticipantIds /\ me.token \in Tokens
  BY <1>1 DEF SocketTypeOK, Engaged
<1>3. /\ next_connection_id \in 0 .. MaxConnections
      /\ lobbies[l] # None
  BY <1>1, BoundAssumption DEF RegisterConnection, Found, SocketTypeOK, TypeOK
<1>4. out \in SUBSET Command
  <2>1. ConnectedPeers(me) \in SUBSET Sockets /\ Replaced(me) \in SUBSET Sockets
    BY <1>2, <1>3, PeersType DEF SocketTypeOK
  <2>2. Announcement(s, "connected") \in Frame
    BY <1>1, AnnouncementType DEF Kinds
  <2>3. /\ [to : Replaced(me), what : {Close}] \in SUBSET Command
        /\ [to : ConnectedPeers(me), what : {Announcement(s, "connected")}] \in SUBSET Command
    BY <2>1, <2>2, CommandsType
  <2> QED BY <2>3
<1>5. stage \in {"greeting", "replacing"} /\ (stage = "greeting" <=> Replaced(me) = {})
  OBVIOUS
<1>6. stage \in Stages
  BY <1>5 DEF Stages
<1>7. /\ Takes(l, p, s)
      /\ HashAt(l, p) = hash_capability_token(me.token)
  BY <1>1, <1>2, RegisterEffect DEF SocketTypeOK, Sockets
<1>8. ConnectionStep
  BY <1>1, <1>2 DEF ConnectionStep, Sockets
<1> HIDE DEF out, stage
<1>9. /\ you \in Task
      /\ you.stage = stage /\ you.id = next_connection_id /\ you.outgoing = out
      /\ you.lobby = l /\ you.participant = p /\ you.token = me.token
  BY <1>2, <1>3, <1>4, <1>6 DEF Task
<1>10. task'[s] = you /\ OnlyTask(s) /\ task' \in [Sockets -> Task]
  BY <1>1, <1>2, <1>9 DEF OnlyTask
<1> QED BY <1>1, <1>3, <1>5, <1>7, <1>8, <1>9, <1>10 DEF out

\* A refused registration: the task returns.
LEMMA RefuseEffect ==
  ASSUME SocketTypeOK, Engaged, NEW s \in Sockets, RefuseRegistration(s)
  PROVE  /\ OnlyTask(s)
         /\ task[s].stage = "upgrading"
         /\ task'[s] = Inactive("done")
         /\ task' \in [Sockets -> Task]
         /\ ServiceStep
         /\ UNCHANGED outbox
<1>1. task[s].stage = "upgrading" /\ task[s].lobby \in LobbyIds
  BY DEF RefuseRegistration, Engaged
<1>2. task' = [task EXCEPT ![s] = Inactive("done")] /\ UNCHANGED outbox
  BY DEF RefuseRegistration
<1>3. ServiceStep
  BY <1>1 DEF RefuseRegistration, ServiceStep
<1>4. Inactive("done") \in Task
  BY InactiveType DEF Stages
<1> QED BY <1>1, <1>2, <1>3, <1>4 DEF OnlyTask, SocketTypeOK

\* The Connected frame is written: the commands stay.
LEMMA GreetEffect ==
  ASSUME SocketTypeOK, NEW s \in Sockets, Greet(s)
  PROVE  /\ OnlyTask(s)
         /\ task[s].stage = "greeting"
         /\ task'[s].stage \in {"announcing", "serving"}
         /\ task'[s].stage = "serving" => task[s].outgoing = {}
         /\ task'[s].outgoing = task[s].outgoing
         /\ SameIdentity(task'[s], task[s])
         /\ task' \in [Sockets -> Task]
         /\ UNCHANGED <<storeVars, outbox>>
<1> DEFINE stage == IF task[s].outgoing # {} THEN "announcing" ELSE "serving"
<1>1. task' = [task EXCEPT ![s] = [task[s] EXCEPT !.stage = stage]]
  BY DEF Greet, SocketTypeOK
<1>2. stage \in {"announcing", "serving"} /\ (stage = "serving" => task[s].outgoing = {})
  OBVIOUS
<1>3. task[s] \in Task /\ task \in [Sockets -> Task] /\ stage \in Stages
  BY <1>2 DEF SocketTypeOK, Stages
<1> HIDE DEF stage
<1> DEFINE you == [task[s] EXCEPT !.stage = stage]
<1>4. /\ you \in Task
      /\ you.stage = stage
      /\ you.outgoing = task[s].outgoing
      /\ SameIdentity(you, task[s])
  BY <1>3, StageWritten
<1> HIDE DEF you
<1>5. task' = [task EXCEPT ![s] = you]
  BY <1>1 DEF you
<1> QED BY <1>2, <1>3, <1>4, <1>5 DEF Greet, OnlyTask

\* A task that leaves unregisters the connection it has, if the slot still holds it.
LEMMA UnregisteredEffect ==
  ASSUME SocketTypeOK, Engaged, NEW s \in Sockets, task[s].stage \notin {"idle", "done"},
         Unregistered(s), NEW l, NEW p, l = task[s].lobby, p = task[s].participant
  PROVE  /\ [Next]_storeVars
         /\ \/ /\ Frees(l, p)
               /\ IdAt(l, p) = task[s].id
               /\ IsCurrent(l, p, task[s].id)
            \/ /\ ~(Occupied(l, p) /\ IdAt(l, p) = task[s].id)
               /\ ~IsCurrent(l, p, task[s].id)
               /\ UNCHANGED storeVars
<1>1. l \in LobbyIds /\ p \in ParticipantIds
  BY DEF Engaged
<1>2. IsCurrent(l, p, task[s].id) <=> Occupied(l, p) /\ IdAt(l, p) = task[s].id
  BY <1>1 DEF IsCurrent, Connected, Members, Occupied, IdAt
<1>3. CASE IsCurrent(l, p, task[s].id)
  <2> PICK id : id = task[s].id
    OBVIOUS
  <2>1. UnregisterConnection(l, p, id)
    BY <1>3 DEF Unregistered
  <2>2. id \in 1 .. MaxConnections
    BY <1>1, <1>3, SenderType DEF IsCurrent, SocketTypeOK
  <2>3. [Next]_storeVars
    BY <1>1, <2>1, <2>2 DEF Next, ConnectionStep
  <2>4. Frees(l, p) /\ IdAt(l, p) = id
    BY <1>1, <2>1, UnregisterEffect DEF SocketTypeOK
  <2> QED BY <1>3, <2>3, <2>4
<1>4. CASE ~IsCurrent(l, p, task[s].id)
  <2>1. UNCHANGED storeVars
    BY <1>4 DEF Unregistered
  <2> QED BY <1>2, <1>4, <2>1
<1> QED BY <1>3, <1>4

\* The Connected frame cannot be written: the task unregisters and returns.
LEMMA FailGreetingEffect ==
  ASSUME SocketTypeOK, NEW s \in Sockets, FailGreeting(s)
  PROVE  /\ OnlyTask(s)
         /\ task[s].stage = "greeting"
         /\ Unregistered(s)
         /\ task'[s] = Inactive("done")
         /\ task' \in [Sockets -> Task]
         /\ outbox' = [outbox EXCEPT ![s] = EmptyOutbox]
<1>1. Inactive("done") \in Task
  BY InactiveType DEF Stages
<1> QED BY <1>1 DEF FailGreeting, OnlyTask, SocketTypeOK

\* A command is sent: the task goes on with the others, to the next stage after
\* the last, and has returned after its last farewell.
LEMMA SendEffect ==
  ASSUME SocketTypeOK, NEW s \in Sockets, NEW c \in task[s].outgoing, Send(s, c)
  PROVE  /\ OnlyTask(s)
         /\ task[s].stage \in {"replacing", "announcing", "relaying", "farewell"}
         /\ task[s].stage = "replacing" <=> c.what = Close
         /\ \/ task'[s] = Inactive("done") /\ task[s].stage = "farewell"
               /\ task[s].outgoing \ {c} = {}
            \/ /\ SameIdentity(task'[s], task[s])
               /\ task'[s].outgoing = task[s].outgoing \ {c}
               /\ \/ task'[s].stage = task[s].stage
                     /\ task[s].stage \in {"announcing", "relaying", "farewell"}
                  \/ task'[s].stage = "greeting" /\ task[s].stage = "replacing"
                  \/ task'[s].stage = "serving" /\ task[s].stage \in {"announcing", "relaying"}
                     /\ task[s].outgoing \ {c} = {}
         /\ task' \in [Sockets -> Task]
         /\ \/ outbox' = [outbox EXCEPT ![c.to] = Sent(c)]
            \/ c.what # Close /\ UNCHANGED outbox
         /\ c \in Command
         /\ UNCHANGED storeVars
<1> DEFINE me == task[s]
           left == me.outgoing \ {c}
<1>1. /\ me.stage \in {"replacing", "announcing", "relaying", "farewell"}
      /\ me.stage = "replacing" <=> c.what = Close
      /\ task' = [task EXCEPT ![s] = TaskAfter(me, left)]
      /\ \/ outbox' = [outbox EXCEPT ![c.to] = Sent(c)]
         \/ c.what # Close /\ UNCHANGED outbox
      /\ UNCHANGED storeVars
  <2>1. /\ me.stage \in {"replacing", "announcing", "relaying", "farewell"}
        /\ me.stage = "replacing" <=> c.what = Close
    BY DEF Send
  <2>2. task' = [task EXCEPT ![s] = TaskAfter(me, left)]
    BY DEF Send
  <2>3. \/ outbox' = [outbox EXCEPT ![c.to] = Sent(c)]
        \/ c.what # Close /\ UNCHANGED outbox
    BY DEF Send
  <2>4. UNCHANGED storeVars
    BY DEF Send
  <2> QED BY <2>1, <2>2, <2>3, <2>4
<1>2. me \in Task /\ task \in [Sockets -> Task]
  BY DEF SocketTypeOK
<1>3. c \in Command /\ left \in SUBSET Command
  BY <1>2 DEF Task
<1>4. {"greeting", "serving", "done"} \subseteq Stages
  BY DEF Stages
<1> HIDE DEF me, left
<1>5. CASE me.stage = "replacing"
  <2> DEFINE you == [me EXCEPT !.stage = "greeting", !.outgoing = left]
  <2>1. /\ you \in Task
        /\ you.stage = "greeting"
        /\ you.outgoing = left
        /\ SameIdentity(you, me)
        /\ [me EXCEPT !.outgoing = left, !.stage = "greeting"] = you
    BY <1>2, <1>3, <1>4, StageAndOutgoingWritten
  <2> HIDE DEF you
  <2>2. TaskAfter(me, left) = you
    BY <1>5, <2>1 DEF TaskAfter
  <2> QED BY <1>1, <1>2, <1>3, <1>5, <2>1, <2>2 DEF OnlyTask, me, left
<1>6. CASE me.stage # "replacing" /\ left # {}
  <2> DEFINE you == [me EXCEPT !.outgoing = left]
  <2>1. /\ you \in Task
        /\ you.stage = me.stage
        /\ you.outgoing = left
        /\ SameIdentity(you, me)
    BY <1>2, <1>3, OutgoingWritten
  <2> HIDE DEF you
  <2>2. TaskAfter(me, left) = you
    BY <1>6 DEF TaskAfter, you
  <2> QED BY <1>1, <1>2, <1>3, <1>6, <2>1, <2>2 DEF OnlyTask, me, left
<1>7. CASE me.stage \in {"announcing", "relaying"} /\ left = {}
  <2> DEFINE you == [me EXCEPT !.stage = "serving", !.outgoing = left]
  <2>1. /\ you \in Task
        /\ you.stage = "serving"
        /\ you.outgoing = left
        /\ SameIdentity(you, me)
        /\ [me EXCEPT !.outgoing = left, !.stage = "serving"] = you
    BY <1>2, <1>3, <1>4, StageAndOutgoingWritten
  <2> HIDE DEF you
  <2>2. TaskAfter(me, left) = you
    BY <1>7, <2>1 DEF TaskAfter
  <2> QED BY <1>1, <1>2, <1>3, <1>7, <2>1, <2>2 DEF OnlyTask, me, left
<1>8. CASE me.stage = "farewell" /\ left = {}
  <2>1. TaskAfter(me, left) = Inactive("done")
    BY <1>8 DEF TaskAfter
  <2>2. Inactive("done") \in Task
    BY <1>4, InactiveType
  <2> QED BY <1>1, <1>2, <1>3, <1>8, <2>1, <2>2 DEF OnlyTask, me, left
<1> QED BY <1>1, <1>5, <1>6, <1>7, <1>8

\* A frame is read: nothing but the queue changes.
LEMMA DeliverEffect ==
  ASSUME NEW s \in Sockets, Deliver(s)
  PROVE  /\ task[s].stage = "serving"
         /\ ~Cancelled(s)
         /\ outbox[s].queue # <<>>
         /\ outbox' = [outbox EXCEPT ![s] = [outbox[s] EXCEPT !.queue = Tail(outbox[s].queue)]]
         /\ UNCHANGED <<storeVars, task>>
BY DEF Deliver

\* A socket leaves its loop when it finds itself cancelled and when it breaks.
LEMMA LeaveEffect ==
  ASSUME SocketTypeOK, NEW s \in Sockets, ObserveCancel(s) \/ Break(s)
  PROVE  /\ OnlyTask(s)
         /\ task[s].stage = "serving"
         /\ task'[s].stage = "leaving"
         /\ task'[s].outgoing = task[s].outgoing
         /\ SameIdentity(task'[s], task[s])
         /\ task' \in [Sockets -> Task]
         /\ outbox' = [outbox EXCEPT ![s] = EmptyOutbox]
         /\ UNCHANGED storeVars
<1> DEFINE you == [task[s] EXCEPT !.stage = "leaving"]
<1>1. /\ task[s].stage = "serving"
      /\ task' = [task EXCEPT ![s] = you]
      /\ outbox' = [outbox EXCEPT ![s] = EmptyOutbox]
      /\ UNCHANGED storeVars
  BY DEF ObserveCancel, Break, LeaveLoop
<1>2. task[s] \in Task /\ task \in [Sockets -> Task] /\ "leaving" \in Stages
  BY DEF SocketTypeOK, Stages
<1>3. /\ you \in Task
      /\ you.stage = "leaving"
      /\ you.outgoing = task[s].outgoing
      /\ SameIdentity(you, task[s])
  BY <1>2, StageWritten
<1> HIDE DEF you
<1> QED BY <1>1, <1>2, <1>3 DEF OnlyTask

\* A signal is on its way to the socket that has the slot of its target.
LEMMA RelayEffect ==
  ASSUME SocketTypeOK, Engaged, NEW s \in Sockets, NEW q \in ParticipantIds, Relay(s, q)
  PROVE  LET receiver == SenderAt(task[s].lobby, q)
         IN /\ OnlyTask(s)
            /\ task[s].stage = "serving"
            /\ task'[s].stage = "relaying"
            /\ task'[s].outgoing = [to : {receiver}, what : {Announcement(s, "signal")}]
            /\ Occupied(task[s].lobby, q)
            /\ receiver \in Sockets
            /\ SameIdentity(task'[s], task[s])
            /\ task' \in [Sockets -> Task]
            /\ UNCHANGED <<storeVars, outbox>>
<1> DEFINE me == task[s]
           receiver == SenderAt(me.lobby, q)
           out == [to : {receiver}, what : {Announcement(s, "signal")}]
           you == [me EXCEPT !.stage = "relaying", !.outgoing = out]
<1>1. /\ me.stage = "serving"
      /\ q \in Connected(lobbies[me.lobby])
      /\ lobbies[me.lobby] # None
      /\ task' = [task EXCEPT ![s] = you]
      /\ UNCHANGED <<storeVars, outbox>>
  BY DEF Relay, Found, SenderAt
<1>2. me \in Task /\ task \in [Sockets -> Task] /\ "relaying" \in Stages
  BY DEF SocketTypeOK, Stages
<1>3. me.lobby \in LobbyIds
  BY <1>1 DEF Engaged
<1>4. receiver \in Sockets
  BY <1>1, <1>3, SenderType DEF SocketTypeOK, SenderAt
<1>5. Announcement(s, "signal") \in Frame
  BY <1>1, AnnouncementType DEF Kinds
<1>6. out \in SUBSET Command
  BY <1>4, <1>5, CommandsType
<1>7. Occupied(me.lobby, q)
  BY <1>1 DEF Connected, Members, Occupied
<1> HIDE DEF me, out
<1>8. /\ you \in Task
      /\ you.stage = "relaying"
      /\ you.outgoing = out
      /\ SameIdentity(you, me)
  BY <1>2, <1>6 DEF Task, SameIdentity
<1> HIDE DEF you, receiver
<1> QED BY <1>1, <1>2, <1>4, <1>7, <1>8 DEF OnlyTask, me, out, receiver

\* The task has left its loop: it unregisters, and says farewell to those who
\* are still connected if the slot was its own.
LEMMA UnregisterTask ==
  ASSUME SocketTypeOK, Engaged, NEW s \in Sockets, Unregister(s)
  PROVE  /\ OnlyTask(s)
         /\ task[s].stage = "leaving"
         /\ Unregistered(s)
         /\ \/ task'[s] = Inactive("done") /\ Farewells(s) = {}
            \/ /\ task'[s].stage = "farewell"
               /\ task'[s].outgoing = Farewells(s)
               /\ SameIdentity(task'[s], task[s])
         /\ Farewells(s)
              = [to : IF IsCurrent(task[s].lobby, task[s].participant, task[s].id)
                        THEN ConnectedPeers(task[s]) ELSE {},
                 what : {Announcement(s, "disconnected")}]
         /\ \A c \in Farewells(s) : c.what = Announcement(s, "disconnected")
         /\ task' \in [Sockets -> Task]
         /\ UNCHANGED outbox
<1> DEFINE me == task[s]
           peers == IF IsCurrent(me.lobby, me.participant, me.id) THEN ConnectedPeers(me) ELSE {}
           out == [to : peers, what : {Announcement(s, "disconnected")}]
           you == [me EXCEPT !.stage = "farewell", !.outgoing = out]
<1>1. Farewells(s) = out
  BY DEF Farewells
<1>2. /\ me.stage = "leaving"
      /\ Unregistered(s)
      /\ task' = [task EXCEPT ![s] = IF out = {} THEN Inactive("done") ELSE you]
      /\ UNCHANGED outbox
  BY <1>1 DEF Unregister
<1>3. me \in Task /\ task \in [Sockets -> Task] /\ {"farewell", "done"} \subseteq Stages
  BY DEF SocketTypeOK, Stages
<1>4. me.lobby \in LobbyIds
  BY <1>2 DEF Engaged
<1>5. Announcement(s, "disconnected") \in Frame
  BY <1>2, AnnouncementType DEF Kinds
<1>6. peers \in SUBSET Sockets
  BY <1>4, PeersType DEF IsCurrent, SocketTypeOK
<1>7. /\ out \in SUBSET Command
      /\ \A c \in out : c.what = Announcement(s, "disconnected")
  BY <1>5, <1>6, CommandsType
<1> HIDE DEF me, out
<1>8. /\ you \in Task
      /\ you.stage = "farewell"
      /\ you.outgoing = out
      /\ SameIdentity(you, me)
  BY <1>3, <1>7, StageAndOutgoingWritten
<1>9. Inactive("done") \in Task
  BY <1>3, InactiveType
<1> HIDE DEF you
<1>10. /\ task' \in [Sockets -> Task]
       /\ OnlyTask(s)
       /\ task'[s] = IF out = {} THEN Inactive("done") ELSE you
  BY <1>2, <1>3, <1>8, <1>9 DEF OnlyTask
<1>11. out = [to : IF IsCurrent(task[s].lobby, task[s].participant, task[s].id)
                     THEN ConnectedPeers(task[s]) ELSE {},
              what : {Announcement(s, "disconnected")}]
  BY DEF out, me
<1> QED BY <1>1, <1>2, <1>7, <1>8, <1>10, <1>11 DEF me

-------------------------------------------------------------------------------
(* Only a registration opens a socket.                                      *)

\* A socket nobody has closed, or is about to close.
Live(s) ==
  /\ task[s].stage \in OpenStages
  /\ ~outbox[s].closed
  /\ ~BeingClosed(s)

\* No socket registers, opens, or comes back to life.
NoneOpened ==
  /\ \A x \in Sockets : task'[x].stage \in RegisteredStages =>
       task[x].stage \in RegisteredStages /\ SameIdentity(task'[x], task[x])
  /\ \A x \in Sockets : Live(x)' => Live(x)

\* A task that is through with its connection has left none in its slot.
ReleasesSlot ==
  \A x \in Sockets : \A l \in LobbyIds, p \in ParticipantIds :
    /\ task[x].stage \in RegisteredStages
    /\ task'[x].stage \notin RegisteredStages
    /\ task[x].lobby = l
    /\ task[x].participant = p
    => ~(Occupied(l, p)' /\ IdAt(l, p)' = task[x].id)

\* A task empties its own slot, and is no longer alive.
FreesOwn(x, l, p) ==
  /\ Frees(l, p)
  /\ IdAt(l, p) = task[x].id
  /\ task[x].stage \in RegisteredStages
  /\ task[x].lobby = l
  /\ task[x].participant = p
  /\ ~Live(x)'

\* What the slots go through in a step that registers nobody.
SlotsQuiet ==
  \/ ServiceOnly
  \/ \E x \in Sockets, l \in LobbyIds, p \in ParticipantIds : FreesOwn(x, l, p)

\* Every step but a registration.
QuietStep ==
  /\ NoneOpened
  /\ ReleasesSlot
  /\ SlotsQuiet

\* A Close that disappears from what is to be sent has closed its outbox.
ClosesLast ==
  \A x \in Sockets : BeingClosed(x) /\ ~BeingClosed(x)' /\ task'[x].stage \in OpenStages
    => outbox'[x].closed

\* Outboxes are closed for good, as long as their tasks are in their loops.
ClosedForGood ==
  \A x \in Sockets : outbox[x].closed /\ task'[x].stage \in OpenStages => outbox'[x].closed

\* A step of s that opens nothing opens nothing.
LEMMA NoneOpenedBy ==
  ASSUME NEW s \in Sockets, OnlyTask(s), ClosesLast, ClosedForGood,
         task'[s].stage \in RegisteredStages =>
           task[s].stage \in RegisteredStages /\ SameIdentity(task'[s], task[s]),
         task'[s].stage \in OpenStages => task[s].stage \in OpenStages
  PROVE  NoneOpened
<1>1. \A x \in Sockets : Live(x)' => Live(x)
  BY DEF Live, OnlyTask, ClosesLast, ClosedForGood
<1>2. \A x \in Sockets : SameIdentity(task[x], task[x])
  BY DEF SameIdentity
<1>3. \A x \in Sockets : task'[x].stage \in RegisteredStages =>
        task[x].stage \in RegisteredStages /\ SameIdentity(task'[x], task[x])
  BY <1>2 DEF OnlyTask
<1> QED BY <1>1, <1>3 DEF NoneOpened

\* The Closes that are to be sent stay if the step is of a task that has none,
\* or keeps those it has.
LEMMA ClosesStay ==
  ASSUME NEW s \in Sockets, OnlyTask(s),
         \A c \in task[s].outgoing : c.what = Close => c \in task'[s].outgoing
  PROVE  ClosesLast
<1> SUFFICES ASSUME NEW x \in Sockets, BeingClosed(x) PROVE BeingClosed(x)'
  BY DEF ClosesLast
<1>1. [to |-> x, what |-> Close].what = Close
  OBVIOUS
<1> QED BY <1>1 DEF BeingClosed, OnlyTask

\* What happens to an outbox: it is left alone, emptied when its task leaves, or
\* closed or filled by a send.
LEMMA ClosedStays ==
  ASSUME SocketTypeOK, NEW s \in Sockets,
         \/ UNCHANGED outbox
         \/ outbox' = [outbox EXCEPT ![s] = EmptyOutbox] /\ task'[s].stage \notin OpenStages
         \/ \E c \in Command : outbox' = [outbox EXCEPT ![c.to] = Sent(c)]
         \/ \E queue : outbox' = [outbox EXCEPT ![s] = [outbox[s] EXCEPT !.queue = queue]]
  PROVE  ClosedForGood
<1>0. outbox \in [Sockets -> Outbox]
  BY DEF SocketTypeOK
<1>1. CASE UNCHANGED outbox
  BY <1>1 DEF ClosedForGood
<1>2. CASE outbox' = [outbox EXCEPT ![s] = EmptyOutbox] /\ task'[s].stage \notin OpenStages
  BY <1>0, <1>2 DEF ClosedForGood
<1>3. ASSUME NEW c \in Command, outbox' = [outbox EXCEPT ![c.to] = Sent(c)]
      PROVE  ClosedForGood
  <2>1. c.to \in Sockets
    BY DEF Command
  <2>2. ASSUME outbox[c.to].closed PROVE Sent(c) = outbox[c.to]
    BY <2>2 DEF Sent
  <2> QED BY <1>0, <1>3, <2>1, <2>2 DEF ClosedForGood
<1>4. ASSUME NEW queue, outbox' = [outbox EXCEPT ![s] = [outbox[s] EXCEPT !.queue = queue]]
      PROVE  ClosedForGood
  <2>1. outbox[s] \in Outbox
    BY <1>0
  <2>2. [outbox[s] EXCEPT !.queue = queue].closed = outbox[s].closed
    BY <2>1 DEF Outbox
  <2> QED BY <1>0, <1>4, <2>2 DEF ClosedForGood
<1> QED BY <1>1, <1>2, <1>3, <1>4

\* What a step that leaves the store alone does to the slots.
LEMMA StoreAlone ==
  ASSUME SocketTypeOK, UNCHANGED storeVars
  PROVE  SlotsQuiet
BY ServiceEffect DEF SlotsQuiet, SocketTypeOK

\* A task that stays registered, or was not, has nothing to release.
LEMMA NothingReleased ==
  ASSUME NEW s \in Sockets, OnlyTask(s),
         task[s].stage \in RegisteredStages => task'[s].stage \in RegisteredStages
  PROVE  ReleasesSlot
BY DEF OnlyTask, ReleasesSlot

\* Unregistering releases the slot: it is emptied, or was another's.
LEMMA UnregisteredReleases ==
  ASSUME SocketTypeOK, Engaged, NEW s \in Sockets, OnlyTask(s),
         task[s].stage \in RegisteredStages, task'[s].stage \notin RegisteredStages,
         Unregistered(s)
  PROVE  ReleasesSlot /\ SlotsQuiet
<1>1. task[s].stage \notin {"idle", "done"}
  BY DEF RegisteredStages
<1>2. PICK l \in LobbyIds, p \in ParticipantIds :
        l = task[s].lobby /\ p = task[s].participant
  BY <1>1 DEF Engaged
<1>3. \/ Frees(l, p) /\ IdAt(l, p) = task[s].id
      \/ ~(Occupied(l, p) /\ IdAt(l, p) = task[s].id) /\ UNCHANGED storeVars
  BY <1>1, <1>2, UnregisteredEffect
<1>4. ~Live(s)'
  BY StagesKnown DEF Live
<1>5. CASE Frees(l, p) /\ IdAt(l, p) = task[s].id
  <2>1. FreesOwn(s, l, p)
    BY <1>2, <1>4, <1>5 DEF FreesOwn
  <2>2. ReleasesSlot
    BY <1>2, <1>5 DEF ReleasesSlot, OnlyTask, Frees
  <2> QED BY <2>1, <2>2 DEF SlotsQuiet
<1>6. CASE ~(Occupied(l, p) /\ IdAt(l, p) = task[s].id) /\ UNCHANGED storeVars
  <2>1. Occupied(l, p)' = Occupied(l, p) /\ IdAt(l, p)' = IdAt(l, p)
    BY <1>6 DEF storeVars, Occupied, IdAt
  <2>2. ReleasesSlot
    BY <1>2, <1>6, <2>1 DEF ReleasesSlot, OnlyTask
  <2> QED BY <1>6, <2>2, StoreAlone
<1> QED BY <1>3, <1>5, <1>6

\* A step of the service is a quiet one.
LEMMA ServiceQuiet ==
  ASSUME SocketTypeOK, [ServiceStep]_storeVars, UNCHANGED socketVars
  PROVE  QuietStep
<1>1. ServiceOnly
  BY ServiceEffect DEF SocketTypeOK
<1>2. NoneOpened
  BY DEF NoneOpened, Live, BeingClosed, socketVars, SameIdentity
<1>3. ReleasesSlot
  BY DEF ReleasesSlot, socketVars
<1> QED BY <1>1, <1>2, <1>3 DEF QuietStep, SlotsQuiet

\* An upgrade is a quiet step.
LEMMA UpgradeQuiet ==
  ASSUME SocketTypeOK, ClosesFirst, NEW s \in Sockets, NEW l \in LobbyIds,
         NEW p \in ParticipantIds, NEW t \in Tokens, Upgrade(s, l, p, t)
  PROVE  QuietStep
<1>1. /\ OnlyTask(s)
      /\ task[s].stage = "idle"
      /\ task'[s].stage = "upgrading"
      /\ UNCHANGED <<storeVars, outbox>>
  BY UpgradeEffect
<1>2. task'[s].stage \notin RegisteredStages /\ task[s].stage \notin RegisteredStages
  BY <1>1 DEF RegisteredStages
<1>3. ClosesLast
  BY <1>1, ClosesStay DEF ClosesFirst
<1>4. ClosedForGood
  BY <1>1, ClosedStays
<1>5. NoneOpened
  BY <1>1, <1>2, <1>3, <1>4, NoneOpenedBy, StagesKnown
<1>6. ReleasesSlot
  BY <1>1, <1>2, NothingReleased
<1> QED BY <1>1, <1>5, <1>6, StoreAlone DEF QuietStep

\* So is a refused registration.
LEMMA RefuseQuiet ==
  ASSUME SocketTypeOK, Engaged, ClosesFirst, NEW s \in Sockets, RefuseRegistration(s)
  PROVE  QuietStep
<1>1. /\ OnlyTask(s)
      /\ task[s].stage = "upgrading"
      /\ task'[s] = Inactive("done")
      /\ ServiceStep
      /\ UNCHANGED outbox
  BY RefuseEffect
<1>2. task'[s].stage = "done"
  BY <1>1, InactiveType DEF Stages
<1>3. task'[s].stage \notin RegisteredStages /\ task[s].stage \notin RegisteredStages
  BY <1>1, <1>2 DEF RegisteredStages
<1>4. ClosesLast
  BY <1>1, ClosesStay DEF ClosesFirst
<1>5. ClosedForGood
  BY <1>1, ClosedStays
<1>6. NoneOpened
  BY <1>1, <1>3, <1>4, <1>5, NoneOpenedBy, StagesKnown
<1>7. ReleasesSlot
  BY <1>1, <1>3, NothingReleased
<1>8. SlotsQuiet
  BY <1>1, ServiceEffect DEF SocketTypeOK, SlotsQuiet
<1> QED BY <1>6, <1>7, <1>8 DEF QuietStep

\* So is a greeting,
LEMMA GreetQuiet ==
  ASSUME SocketTypeOK, NEW s \in Sockets, Greet(s)
  PROVE  QuietStep
<1>1. /\ OnlyTask(s)
      /\ task[s].stage = "greeting"
      /\ task'[s].stage \in {"announcing", "serving"}
      /\ task'[s].outgoing = task[s].outgoing
      /\ SameIdentity(task'[s], task[s])
      /\ UNCHANGED <<storeVars, outbox>>
  BY GreetEffect
<1>2. task[s].stage \in OpenStages /\ task'[s].stage \in RegisteredStages
  BY <1>1, StagesKnown
<1>3. ClosesLast
  BY <1>1, ClosesStay
<1>4. ClosedForGood
  BY <1>1, ClosedStays
<1>5. NoneOpened
  BY <1>1, <1>2, <1>3, <1>4, NoneOpenedBy, StagesKnown
<1>6. ReleasesSlot
  BY <1>1, <1>2, NothingReleased
<1> QED BY <1>1, <1>5, <1>6, StoreAlone DEF QuietStep

\* and one that fails: its own slot is emptied.
LEMMA FailGreetingQuiet ==
  ASSUME SocketTypeOK, Engaged, ClosesFirst, NEW s \in Sockets, FailGreeting(s)
  PROVE  QuietStep
<1>1. /\ OnlyTask(s)
      /\ task[s].stage = "greeting"
      /\ Unregistered(s)
      /\ task'[s] = Inactive("done")
      /\ outbox' = [outbox EXCEPT ![s] = EmptyOutbox]
  BY FailGreetingEffect
<1>2. task'[s].stage = "done"
  BY <1>1, InactiveType DEF Stages
<1>3. task'[s].stage \notin RegisteredStages /\ task[s].stage \in RegisteredStages
  BY <1>1, <1>2 DEF RegisteredStages
<1>4. ClosesLast
  BY <1>1, ClosesStay DEF ClosesFirst
<1>5. ClosedForGood
  BY <1>1, <1>3, ClosedStays, StagesKnown
<1>6. NoneOpened
  BY <1>1, <1>3, <1>4, <1>5, NoneOpenedBy, StagesKnown
<1> QED BY <1>1, <1>3, <1>6, UnregisteredReleases DEF QuietStep

\* A Close that is sent closes the outbox it is sent to, if its task is in its loop.
LEMMA SentCloses ==
  ASSUME SocketTypeOK, NEW c \in Command, c.what = Close,
         outbox' = [outbox EXCEPT ![c.to] = Sent(c)], task[c.to].stage \in OpenStages
  PROVE  outbox'[c.to].closed
<1>1. c.to \in Sockets /\ outbox \in [Sockets -> Outbox]
  BY DEF Command, SocketTypeOK
<1>2. outbox[c.to] \in Outbox
  BY <1>1
<1>3. CASE outbox[c.to].closed
  BY <1>1, <1>3 DEF Sent
<1>4. CASE ~outbox[c.to].closed
  <2>1. Sent(c) = [outbox[c.to] EXCEPT !.closed = TRUE]
    BY <1>4 DEF Sent
  <2>2. [outbox[c.to] EXCEPT !.closed = TRUE].closed
    BY <1>2 DEF Outbox
  <2> QED BY <1>1, <2>1, <2>2
<1> QED BY <1>3, <1>4

\* So is a command that is sent: a Close that is sent has closed its outbox.
LEMMA SendQuiet ==
  ASSUME SocketTypeOK, ClosesFirst, NEW s \in Sockets, NEW c \in task[s].outgoing, Send(s, c)
  PROVE  QuietStep
<1>1. /\ OnlyTask(s)
      /\ task[s].stage \in {"replacing", "announcing", "relaying", "farewell"}
      /\ \/ outbox' = [outbox EXCEPT ![c.to] = Sent(c)]
         \/ c.what # Close /\ UNCHANGED outbox
      /\ c \in Command
      /\ UNCHANGED storeVars
  BY SendEffect
<1>2. \/ task'[s] = Inactive("done") /\ task[s].stage = "farewell"
      \/ /\ SameIdentity(task'[s], task[s])
         /\ task'[s].outgoing = task[s].outgoing \ {c}
         /\ \/ task'[s].stage = task[s].stage
            \/ task'[s].stage = "greeting" /\ task[s].stage = "replacing"
            \/ task'[s].stage = "serving" /\ task[s].stage \in {"announcing", "relaying"}
  BY SendEffect
<1>3. Inactive("done").stage = "done"
  BY InactiveType DEF Stages
<1>4. ClosedForGood
  BY <1>1, ClosedStays
<1>5. task'[s].stage \in OpenStages => task[s].stage \in OpenStages
  BY <1>1, <1>2, <1>3, StagesKnown
<1>6. /\ task'[s].stage \in RegisteredStages =>
           task[s].stage \in RegisteredStages /\ SameIdentity(task'[s], task[s])
      /\ task[s].stage \in RegisteredStages => task'[s].stage \in RegisteredStages
  BY <1>1, <1>2, <1>3 DEF RegisteredStages
<1>7. ClosesLast
  <2> SUFFICES ASSUME NEW x \in Sockets, BeingClosed(x), ~BeingClosed(x)',
                      task'[x].stage \in OpenStages
               PROVE  outbox'[x].closed
    BY DEF ClosesLast
  <2> DEFINE close == [to |-> x, what |-> Close]
  <2>1. close.what = Close /\ close.to = x
    OBVIOUS
  <2>2. PICK y \in Sockets : close \in task[y].outgoing
    BY DEF BeingClosed
  <2>3. \A t \in Sockets : close \notin task'[t].outgoing
    BY DEF BeingClosed
  <2> HIDE DEF close
  <2>4. y = s
    BY <1>1, <2>2, <2>3 DEF OnlyTask
  <2>5. task[s].stage = "replacing"
    BY <2>1, <2>2, <2>4 DEF ClosesFirst
  <2>6. task'[s].outgoing = task[s].outgoing \ {c}
    BY <1>2, <2>5
  <2>7. c = close
    BY <2>2, <2>3, <2>4, <2>6
  <2>8. task[x].stage \in OpenStages
    BY <1>1, <1>5 DEF OnlyTask
  <2>9. outbox' = [outbox EXCEPT ![c.to] = Sent(c)]
    BY <1>1, <2>1, <2>7
  <2> QED BY <1>1, <2>1, <2>7, <2>8, <2>9, SentCloses
<1>8. NoneOpened
  BY <1>1, <1>4, <1>5, <1>6, <1>7, NoneOpenedBy
<1>9. ReleasesSlot
  BY <1>1, <1>6, NothingReleased
<1> QED BY <1>1, <1>8, <1>9, StoreAlone DEF QuietStep

\* So is a frame that is read.
LEMMA DeliverQuiet ==
  ASSUME SocketTypeOK, NEW s \in Sockets, Deliver(s)
  PROVE  QuietStep
<1>1. /\ \E queue : outbox' = [outbox EXCEPT ![s] = [outbox[s] EXCEPT !.queue = queue]]
      /\ UNCHANGED <<storeVars, task>>
  BY DeliverEffect
<1>2. ClosedForGood
  BY <1>1, ClosedStays
<1>3. OnlyTask(s) /\ ClosesLast /\ SameIdentity(task'[s], task[s])
  BY <1>1 DEF OnlyTask, ClosesLast, BeingClosed, SameIdentity
<1>4. NoneOpened
  BY <1>1, <1>2, <1>3, NoneOpenedBy
<1>5. ReleasesSlot
  BY <1>1, <1>3, NothingReleased
<1> QED BY <1>1, <1>4, <1>5, StoreAlone DEF QuietStep

\* So is the end of the loop.
LEMMA LeaveQuiet ==
  ASSUME SocketTypeOK, NEW s \in Sockets, ObserveCancel(s) \/ Break(s)
  PROVE  QuietStep
<1>1. /\ OnlyTask(s)
      /\ task[s].stage = "serving"
      /\ task'[s].stage = "leaving"
      /\ task'[s].outgoing = task[s].outgoing
      /\ SameIdentity(task'[s], task[s])
      /\ outbox' = [outbox EXCEPT ![s] = EmptyOutbox]
      /\ UNCHANGED storeVars
  BY LeaveEffect
<1>2. /\ task[s].stage \in RegisteredStages
      /\ task'[s].stage \in RegisteredStages
      /\ task'[s].stage \notin OpenStages
  BY <1>1, StagesKnown DEF RegisteredStages
<1>3. ClosesLast
  BY <1>1, ClosesStay
<1>4. ClosedForGood
  BY <1>1, <1>2, ClosedStays
<1>5. NoneOpened
  BY <1>1, <1>2, <1>3, <1>4, NoneOpenedBy
<1>6. ReleasesSlot
  BY <1>1, <1>2, NothingReleased
<1> QED BY <1>1, <1>5, <1>6, StoreAlone DEF QuietStep

\* So is a signal that is relayed.
LEMMA RelayQuiet ==
  ASSUME SocketTypeOK, Engaged, ClosesFirst, NEW s \in Sockets, NEW q \in ParticipantIds,
         Relay(s, q)
  PROVE  QuietStep
<1>1. /\ OnlyTask(s)
      /\ task[s].stage = "serving"
      /\ task'[s].stage = "relaying"
      /\ SameIdentity(task'[s], task[s])
      /\ UNCHANGED <<storeVars, outbox>>
  BY RelayEffect
<1>2. task[s].stage \in OpenStages /\ task'[s].stage \in RegisteredStages
  BY <1>1, StagesKnown
<1>3. ClosesLast
  BY <1>1, ClosesStay DEF ClosesFirst
<1>4. ClosedForGood
  BY <1>1, ClosedStays
<1>5. NoneOpened
  BY <1>1, <1>2, <1>3, <1>4, NoneOpenedBy, StagesKnown
<1>6. ReleasesSlot
  BY <1>1, <1>2, NothingReleased
<1> QED BY <1>1, <1>5, <1>6, StoreAlone DEF QuietStep

\* So is an unregistration: the slot emptied is the task's own.
LEMMA UnregisterQuiet ==
  ASSUME SocketTypeOK, Engaged, ClosesFirst, NEW s \in Sockets, Unregister(s)
  PROVE  QuietStep
<1>1. /\ OnlyTask(s)
      /\ task[s].stage = "leaving"
      /\ Unregistered(s)
      /\ task'[s] = Inactive("done") \/ task'[s].stage = "farewell"
      /\ UNCHANGED outbox
  BY UnregisterTask
<1>2. task'[s].stage \in {"done", "farewell"}
  BY <1>1, InactiveType DEF Stages
<1>3. task'[s].stage \notin RegisteredStages /\ task[s].stage \in RegisteredStages
  BY <1>1, <1>2 DEF RegisteredStages
<1>4. ClosesLast
  BY <1>1, ClosesStay DEF ClosesFirst
<1>5. ClosedForGood
  BY <1>1, ClosedStays
<1>6. NoneOpened
  BY <1>1, <1>3, <1>4, <1>5, NoneOpenedBy, StagesKnown
<1> QED BY <1>1, <1>3, <1>6, UnregisteredReleases DEF QuietStep

\* Every step but a registration opens no socket, revives none, and leaves no
\* connection behind.
LEMMA StepIsQuiet ==
  ASSUME SocketTypeOK, Engaged, ClosesFirst, [SocketNext]_vars,
         \A s \in Sockets : ~Register(s)
  PROVE  QuietStep
<1>1. CASE UNCHANGED vars
  BY <1>1, ServiceQuiet DEF vars
<1>2. CASE ServiceStep /\ UNCHANGED socketVars
  BY <1>2, ServiceQuiet
<1>3. ASSUME NEW s \in Sockets, SocketStep(s) PROVE QuietStep
  BY <1>3, UpgradeQuiet, RefuseQuiet, GreetQuiet, FailGreetingQuiet, SendQuiet,
     DeliverQuiet, LeaveQuiet, RelayQuiet, UnregisterQuiet DEF SocketStep, TaskProgress
<1> QED BY <1>1, <1>2, <1>3 DEF SocketNext

-------------------------------------------------------------------------------
(* The invariants, and how a step keeps them.                               *)

\* The slot of p in l holds the connection of s.
Has(s, l, p) == Occupied(l, p) /\ SenderAt(l, p) = s

\* A connection in the store is that of a task that has still to unregister it.
ConnectionsOwned ==
  \A s \in Sockets, l \in LobbyIds, p \in ParticipantIds : Has(s, l, p) =>
    /\ task[s].stage \in RegisteredStages
    /\ task[s].lobby = l
    /\ task[s].participant = p
    /\ task[s].id = IdAt(l, p)
    /\ HashAt(l, p) = hash_capability_token(task[s].token)

\* No two registered tasks have the same connection id, and none has one that
\* is still to be handed out.
TasksNumbered ==
  \A s \in Sockets : task[s].stage \in RegisteredStages =>
    /\ task[s].id < next_connection_id
    /\ \A t \in Sockets \ {s} :
         task[t].stage \in RegisteredStages => task[t].id # task[s].id

\* No task has a token that is still to be issued.
TokensIssued == \A s \in Sockets : task[s].token <= tokens_issued

\* A live task whose participant is stored has the slot.
LiveHasSlot ==
  \A s \in Sockets, l \in LobbyIds, p \in ParticipantIds :
    /\ Live(s)
    /\ task[s].lobby = l
    /\ task[s].participant = p
    /\ Taken(l, p)
    /\ HashAt(l, p) = hash_capability_token(task[s].token)
    => Has(s, l, p)

\* A credential has one live task.
OneLive ==
  \A s, t \in Sockets :
    /\ s # t
    /\ Live(s)
    /\ task[s].lobby = task[t].lobby
    /\ task[s].participant = task[t].participant
    /\ task[s].token = task[t].token
    => ~Live(t)

SocketInv ==
  /\ SocketTypeOK
  /\ CredentialsIssued /\ SlotHashesUnique
  /\ Engaged
  /\ ClosesFirst
  /\ TokensIssued
  /\ TasksNumbered
  /\ ConnectionsOwned
  /\ LiveHasSlot
  /\ OneLive

\* The participant that a registration replaces is about to be closed.
LEMMA ReplacedIsClosed ==
  ASSUME SocketTypeOK, Engaged, NEW s \in Sockets, Register(s),
         NEW x \in Sockets, Has(x, task[s].lobby, task[s].participant)
  PROVE  BeingClosed(x)'
<1>1. PICK l \in LobbyIds, p \in ParticipantIds :
        l = task[s].lobby /\ p = task[s].participant
  BY DEF Register, Engaged
<1>2. x \in Replaced(task[s])
  BY <1>1 DEF Has, Replaced, Occupied, SenderAt, Connected, Members
<1>3. ConnectedPeers(task[s]) \in SUBSET Sockets /\ Replaced(task[s]) \in SUBSET Sockets
  BY <1>1, PeersType DEF Register, RegisterConnection, Found, SocketTypeOK
<1>4. [to |-> x, what |-> Close] \in [to : Replaced(task[s]), what : {Close}]
  BY <1>2, <1>3, CommandsType
<1>5. [to |-> x, what |-> Close] \in task'[s].outgoing
  BY <1>1, <1>4, RegisterTask
<1> QED BY <1>5 DEF BeingClosed

\* In a registration of s too, no other socket comes back to life.
LEMMA RegisterOpensOne ==
  ASSUME SocketTypeOK, Engaged, ClosesFirst, NEW s \in Sockets, Register(s)
  PROVE  /\ \A x \in Sockets \ {s} : Live(x)' => Live(x)
         /\ OnlyTask(s)
         /\ task[s].stage = "upgrading"
         /\ task'[s].stage \in OpenStages
         /\ task'[s].token = task[s].token
<1>1. PICK l \in LobbyIds, p \in ParticipantIds :
        l = task[s].lobby /\ p = task[s].participant
  BY DEF Register, Engaged
<1>2. /\ OnlyTask(s)
      /\ task[s].stage = "upgrading"
      /\ task'[s].stage \in {"greeting", "replacing"}
      /\ task'[s].token = task[s].token
      /\ UNCHANGED outbox
  BY <1>1, RegisterTask
<1>3. ClosesLast
  BY <1>2, ClosesStay DEF ClosesFirst
<1>4. \A x \in Sockets \ {s} : Live(x)' => Live(x)
  BY <1>2, <1>3 DEF Live, OnlyTask, ClosesLast
<1> QED BY <1>2, <1>4, StagesKnown

\* A connection in the store stays owned: registering owns it, and a task that
\* is through with it has emptied the slot.
LEMMA OwnedPreserved ==
  ASSUME SocketInv, [SocketNext]_vars
  PROVE  ConnectionsOwned'
<1> SUFFICES ASSUME NEW x \in Sockets, NEW l \in LobbyIds, NEW p \in ParticipantIds,
                    Has(x, l, p)'
             PROVE  /\ task'[x].stage \in RegisteredStages
                    /\ task'[x].lobby = l
                    /\ task'[x].participant = p
                    /\ task'[x].id = IdAt(l, p)'
                    /\ HashAt(l, p)' = hash_capability_token(task'[x].token)
  BY DEF ConnectionsOwned, SocketInv
<1> USE DEF SocketInv
<1>1. ASSUME NEW s \in Sockets, Register(s)
      PROVE  /\ task'[x].stage \in RegisteredStages
             /\ task'[x].lobby = l
             /\ task'[x].participant = p
             /\ task'[x].id = IdAt(l, p)'
             /\ HashAt(l, p)' = hash_capability_token(task'[x].token)
  <2>1. PICK m \in LobbyIds, q \in ParticipantIds :
          m = task[s].lobby /\ q = task[s].participant
    BY <1>1 DEF Register, Engaged
  <2>2. /\ OnlyTask(s)
        /\ task[s].stage = "upgrading"
        /\ task'[s].stage \in {"greeting", "replacing"}
        /\ task'[s].id = next_connection_id
        /\ task'[s].lobby = m
        /\ task'[s].participant = q
        /\ task'[s].token = task[s].token
        /\ Takes(m, q, s)
        /\ HashAt(m, q) = hash_capability_token(task[s].token)
    BY <1>1, <2>1, RegisterTask
  <2>3. CASE l = m /\ p = q
    <3>1. x = s
      BY <2>2, <2>3 DEF Has, Takes
    <3> QED BY <2>2, <2>3, <3>1, StagesKnown DEF Takes
  <2>4. CASE l # m \/ p # q
    <3>1. Has(x, l, p) /\ IdAt(l, p)' = IdAt(l, p) /\ HashAt(l, p)' = HashAt(l, p)
      BY <2>2, <2>4 DEF Takes, OtherSlotsStay, Has, Occupied, Taken, SenderAt, SlotAt, IdAt,
                        HashAt
    <3>2. x # s
      BY <2>2, <3>1 DEF ConnectionsOwned, RegisteredStages
    <3> QED BY <2>2, <3>1, <3>2 DEF ConnectionsOwned, OnlyTask
  <2> QED BY <2>3, <2>4
<1>2. CASE \A s \in Sockets : ~Register(s)
  <2>1. NoneOpened /\ ReleasesSlot /\ SlotsQuiet
    BY <1>2, StepIsQuiet DEF QuietStep
  <2>2. Has(x, l, p) /\ IdAt(l, p)' = IdAt(l, p) /\ HashAt(l, p)' = HashAt(l, p)
    <3>1. CASE ServiceOnly
      BY <3>1 DEF ServiceOnly, Stays, Goes, Fresh, Has, Occupied, Taken, SenderAt, SlotAt,
                  IdAt, HashAt
    <3>2. ASSUME NEW y \in Sockets, NEW m \in LobbyIds, NEW q \in ParticipantIds,
                 FreesOwn(y, m, q)
          PROVE  Has(x, l, p) /\ IdAt(l, p)' = IdAt(l, p) /\ HashAt(l, p)' = HashAt(l, p)
      BY <3>2 DEF FreesOwn, Frees, OtherSlotsStay, Has, Occupied, Taken, SenderAt, SlotAt,
                  IdAt, HashAt
    <3> QED BY <2>1, <3>1, <3>2 DEF SlotsQuiet
  <2>3. /\ task[x].stage \in RegisteredStages
        /\ task[x].lobby = l
        /\ task[x].participant = p
        /\ task[x].id = IdAt(l, p)
        /\ HashAt(l, p) = hash_capability_token(task[x].token)
    BY <2>2 DEF ConnectionsOwned
  <2>4. task'[x].stage \in RegisteredStages
    BY <2>1, <2>2, <2>3 DEF ReleasesSlot, Has
  <2>5. SameIdentity(task'[x], task[x])
    BY <2>1, <2>4 DEF NoneOpened
  <2> QED BY <2>2, <2>3, <2>4, <2>5 DEF SameIdentity
<1> QED BY <1>1, <1>2

\* What a step that registers nobody does to the counters and credentials.
LEMMA QuietCounters ==
  ASSUME SlotsQuiet, tokens_issued \in Nat
  PROVE  UNCHANGED next_connection_id /\ tokens_issued' >= tokens_issued
BY DEF SlotsQuiet, ServiceOnly, FreesOwn, Frees

\* Only a registration numbers a task, with an id no other task has.
LEMMA NumbersPreserved ==
  ASSUME SocketInv, [SocketNext]_vars
  PROVE  TasksNumbered'
<1> USE DEF SocketInv
<1>0. next_connection_id \in Nat /\ tokens_issued \in Nat /\ \A x \in Sockets : task[x].id \in Nat
  BY BoundAssumption DEF SocketTypeOK, TypeOK, Task
<1>1. ASSUME NEW s \in Sockets, Register(s) PROVE TasksNumbered'
  <2>1. PICK m \in LobbyIds, q \in ParticipantIds :
          m = task[s].lobby /\ q = task[s].participant
    BY <1>1 DEF Register, Engaged
  <2>2. /\ OnlyTask(s)
        /\ task'[s].id = next_connection_id
        /\ next_connection_id' = next_connection_id + 1
    BY <1>1, <2>1, RegisterTask DEF Takes
  <2> QED BY <1>0, <2>2 DEF TasksNumbered, OnlyTask
<1>2. CASE \A s \in Sockets : ~Register(s)
  <2>1. NoneOpened /\ UNCHANGED next_connection_id
    BY <1>0, <1>2, StepIsQuiet, QuietCounters DEF QuietStep
  <2>2. \A x \in Sockets : task'[x].stage \in RegisteredStages =>
          task[x].stage \in RegisteredStages /\ task'[x].id = task[x].id
    BY <2>1 DEF NoneOpened, SameIdentity
  <2> QED BY <2>1, <2>2 DEF TasksNumbered
<1> QED BY <1>1, <1>2

\* However late the task of a replaced socket cleans up, it cannot empty the
\* slot of a live one: the ids differ.
LEMMA SlotKept ==
  ASSUME SocketInv, [SocketNext]_vars
  PROVE  LiveHasSlot'
<1> SUFFICES ASSUME NEW x \in Sockets, NEW l \in LobbyIds, NEW p \in ParticipantIds,
                    Live(x)', task'[x].lobby = l, task'[x].participant = p,
                    Taken(l, p)', HashAt(l, p)' = hash_capability_token(task'[x].token)
             PROVE  Has(x, l, p)'
  BY DEF LiveHasSlot
<1> USE DEF SocketInv
<1>1. ASSUME NEW s \in Sockets, Register(s) PROVE Has(x, l, p)'
  <2>1. PICK m \in LobbyIds, q \in ParticipantIds :
          m = task[s].lobby /\ q = task[s].participant
    BY <1>1 DEF Register, Engaged
  <2>2. /\ OnlyTask(s)
        /\ task'[s].lobby = m
        /\ task'[s].participant = q
        /\ Takes(m, q, s)
    BY <1>1, <2>1, RegisterTask
  <2>3. CASE x = s
    BY <2>2, <2>3 DEF Takes, Has
  <2>4. CASE x # s
    <3>1. Live(x) /\ task'[x] = task[x]
      BY <1>1, <2>2, <2>4, RegisterOpensOne DEF OnlyTask
    <3>2. Taken(l, p) /\ HashAt(l, p)' = HashAt(l, p)
      BY <2>2 DEF Takes, OtherSlotsStay, Taken, HashAt, SlotAt
    <3>3. Has(x, l, p)
      BY <3>1, <3>2 DEF LiveHasSlot
    <3>4. l # m \/ p # q
      BY <1>1, <2>1, <3>3, ReplacedIsClosed DEF Live
    <3> QED BY <2>2, <3>3, <3>4 DEF Takes, OtherSlotsStay, Has, Occupied, Taken, SenderAt, SlotAt
  <2> QED BY <2>3, <2>4
<1>2. CASE \A s \in Sockets : ~Register(s)
  <2>1. NoneOpened /\ SlotsQuiet
    BY <1>2, StepIsQuiet DEF QuietStep
  <2>2. Live(x) /\ SameIdentity(task'[x], task[x])
    BY <2>1, StagesKnown DEF NoneOpened, Live
  <2>3. task[x].lobby = l /\ task[x].participant = p /\ task'[x].token = task[x].token
    BY <2>2 DEF SameIdentity
  <2>4. CASE ServiceOnly
    <3>1. ~(tokens_issued' = tokens_issued + 1
              /\ HashAt(l, p)' = hash_capability_token(tokens_issued + 1))
      <4>1. task[x].token <= tokens_issued /\ task[x].token \in Nat /\ tokens_issued \in Nat
        BY BoundAssumption DEF TokensIssued, SocketTypeOK, TypeOK, Task
      <4>2. task[x].token # tokens_issued + 1
        BY <4>1
      <4> QED BY <2>3, <4>2, HashInjective
    <3>2. Stays(l) /\ Taken(l, p) /\ SlotAt(l, p)' = SlotAt(l, p)
      BY <2>4, <3>1 DEF ServiceOnly, Stays, Goes, Fresh
    <3>3. HashAt(l, p)' = HashAt(l, p)
      BY <3>2 DEF SlotAt, HashAt
    <3>4. Has(x, l, p)
      BY <2>2, <2>3, <3>2, <3>3 DEF LiveHasSlot
    <3> QED BY <3>2, <3>4 DEF Has, Occupied, Taken, SenderAt, SlotAt
  <2>5. ASSUME NEW y \in Sockets, NEW m \in LobbyIds, NEW q \in ParticipantIds,
               FreesOwn(y, m, q)
        PROVE  Has(x, l, p)'
    <3>1. Taken(l, p) /\ HashAt(l, p)' = HashAt(l, p)
      BY <2>5 DEF FreesOwn, Frees, OtherSlotsStay, Taken, HashAt, SlotAt
    <3>2. Has(x, l, p)
      BY <2>2, <2>3, <3>1 DEF LiveHasSlot
    <3>3. task[x].stage \in RegisteredStages /\ task[x].id = IdAt(l, p)
      BY <3>2 DEF ConnectionsOwned
    <3>4. x # y
      BY <2>5 DEF FreesOwn
    <3>5. l # m \/ p # q
      BY <2>5, <3>3, <3>4 DEF FreesOwn, TasksNumbered
    <3> QED BY <2>5, <3>2, <3>5
            DEF FreesOwn, Frees, OtherSlotsStay, Has, Occupied, Taken, SenderAt, SlotAt
  <2> QED BY <2>1, <2>4, <2>5 DEF SlotsQuiet
<1> QED BY <1>1, <1>2

\* A registration closes the live task of the same credential before it is
\* live itself.
LEMMA OneLivePreserved ==
  ASSUME SocketInv, [SocketNext]_vars
  PROVE  OneLive'
<1> SUFFICES ASSUME NEW x \in Sockets, NEW y \in Sockets, x # y, Live(x)', Live(y)',
                    task'[x].lobby = task'[y].lobby,
                    task'[x].participant = task'[y].participant,
                    task'[x].token = task'[y].token
             PROVE  FALSE
  BY DEF OneLive
<1> USE DEF SocketInv
<1>1. ASSUME NEW s \in Sockets, Register(s), NEW z \in Sockets \ {s}, Live(z)',
             task'[z].lobby = task'[s].lobby,
             task'[z].participant = task'[s].participant,
             task'[z].token = task'[s].token
      PROVE  FALSE
  <2>1. PICK m \in LobbyIds, q \in ParticipantIds :
          m = task[s].lobby /\ q = task[s].participant
    BY <1>1 DEF Register, Engaged
  <2>2. /\ OnlyTask(s)
        /\ task'[s].lobby = m
        /\ task'[s].participant = q
        /\ task'[s].token = task[s].token
        /\ Takes(m, q, s)
        /\ HashAt(m, q) = hash_capability_token(task[s].token)
    BY <1>1, <2>1, RegisterTask
  <2>3. Live(z) /\ task'[z] = task[z]
    BY <1>1, <2>2, RegisterOpensOne DEF OnlyTask
  <2>4. Has(z, m, q)
    BY <1>1, <2>2, <2>3 DEF LiveHasSlot, Takes
  <2> QED BY <1>1, <2>1, <2>4, ReplacedIsClosed DEF Live
<1>2. CASE \E s \in Sockets : Register(s)
  <2> PICK s \in Sockets : Register(s)
    BY <1>2
  <2>1. CASE x # s /\ y # s
    <3>1. Live(x) /\ Live(y) /\ task'[x] = task[x] /\ task'[y] = task[y]
      BY <2>1, RegisterOpensOne DEF OnlyTask
    <3> QED BY <3>1 DEF OneLive
  <2> QED BY <1>1, <2>1
<1>3. CASE \A s \in Sockets : ~Register(s)
  <2>1. NoneOpened
    BY <1>3, StepIsQuiet DEF QuietStep
  <2>2. /\ Live(x) /\ SameIdentity(task'[x], task[x])
        /\ Live(y) /\ SameIdentity(task'[y], task[y])
    BY <2>1, StagesKnown DEF NoneOpened, Live
  <2> QED BY <2>2 DEF OneLive, SameIdentity
<1> QED BY <1>2, <1>3

\* Whatever the tasks do to the store are steps of LobbyStore.
LEMMA SocketStoreStep ==
  ASSUME SocketTypeOK, Engaged, [SocketNext]_vars
  PROVE  [Next]_storeVars
<1>1. CASE UNCHANGED vars \/ (ServiceStep /\ UNCHANGED socketVars)
  BY <1>1 DEF vars, Next
<1>2. ASSUME NEW s \in Sockets, Register(s) PROVE [Next]_storeVars
  <2>1. PICK l, p : l = task[s].lobby /\ p = task[s].participant
    OBVIOUS
  <2> QED BY <1>2, <2>1, RegisterTask DEF Next
<1>3. ASSUME NEW s \in Sockets, task[s].stage \notin {"idle", "done"}, Unregistered(s)
      PROVE  [Next]_storeVars
  <2>1. PICK l, p : l = task[s].lobby /\ p = task[s].participant
    OBVIOUS
  <2> QED BY <1>3, <2>1, UnregisteredEffect
<1>4. ASSUME NEW s \in Sockets, SocketStep(s) PROVE [Next]_storeVars
  <2>1. CASE FailGreeting(s) \/ Unregister(s)
    BY <1>3, <2>1 DEF FailGreeting, Unregister
  <2>2. CASE RefuseRegistration(s)
    BY <2>2, RefuseEffect DEF Next
  <2>3. CASE UNCHANGED storeVars
    BY <2>3
  <2> QED BY <1>2, <1>4, <2>1, <2>2, <2>3
          DEF SocketStep, TaskProgress, Upgrade, Greet, Send, Deliver, ObserveCancel, Break,
              LeaveLoop, Relay, storeVars
<1> QED BY <1>1, <1>4 DEF SocketNext

\* An outbox as it should be.
OutboxOK(o) == o \in Outbox /\ Len(o.queue) <= QueueCapacity

\* The first and last state of an outbox is as it should be.
LEMMA EmptyOutboxType == OutboxOK(EmptyOutbox)
BY QueueAssumption DEF OutboxOK, Outbox, EmptyOutbox

\* A frame that is taken leaves the outbox as it should be.
LEMMA ShorterOutboxType ==
  ASSUME NEW o, OutboxOK(o), o.queue # <<>>
  PROVE  OutboxOK([o EXCEPT !.queue = Tail(o.queue)])
<1> DEFINE shorter == Tail(o.queue)
<1>1. shorter \in Seq(Frame) /\ Len(shorter) <= QueueCapacity
  BY QueueAssumption DEF Outbox, OutboxOK
<1> HIDE DEF shorter
<1>2. [o EXCEPT !.queue = shorter] \in Outbox
      /\ [o EXCEPT !.queue = shorter].queue = shorter
  BY <1>1 DEF Outbox, OutboxOK
<1> QED BY <1>1, <1>2 DEF OutboxOK, shorter

\* A command that is sent leaves the outbox as it should be: a full one is
\* closed, not filled further.
LEMMA SentType ==
  ASSUME \A x \in Sockets : OutboxOK(outbox[x]), NEW c \in Command
  PROVE  OutboxOK(Sent(c))
<1> DEFINE o == outbox[c.to]
<1>1. o \in Outbox /\ Len(o.queue) <= QueueCapacity
  BY DEF Command, OutboxOK
<1> HIDE DEF o
<1>2. CASE task[c.to].stage \notin OpenStages \/ o.closed
  BY <1>1, <1>2 DEF Sent, OutboxOK, o
<1>3. CASE ~(task[c.to].stage \notin OpenStages \/ o.closed) /\ (c.what = Close \/ Full(o))
  <2>1. Sent(c) = [o EXCEPT !.closed = TRUE]
    BY <1>3 DEF Sent, o
  <2>2. [o EXCEPT !.closed = TRUE] \in Outbox
        /\ [o EXCEPT !.closed = TRUE].queue = o.queue
    BY <1>1 DEF Outbox
  <2> QED BY <1>1, <2>1, <2>2 DEF OutboxOK
<1>4. CASE ~(task[c.to].stage \notin OpenStages \/ o.closed) /\ ~(c.what = Close \/ Full(o))
  <2> DEFINE longer == Append(o.queue, c.what)
  <2>1. c.what \in Frame
    BY <1>4 DEF Command
  <2>2. o.queue \in Seq(Frame) /\ Len(o.queue) # QueueCapacity
    BY <1>1, <1>4 DEF Outbox, Full
  <2>3. longer \in Seq(Frame) /\ Len(longer) <= QueueCapacity
    BY <1>1, <2>1, <2>2, QueueAssumption
  <2>4. Sent(c) = [o EXCEPT !.queue = longer]
    BY <1>4 DEF Sent, o
  <2> HIDE DEF longer
  <2>5. [o EXCEPT !.queue = longer] \in Outbox
        /\ [o EXCEPT !.queue = longer].queue = longer
    BY <1>1, <2>3 DEF Outbox
  <2> QED BY <2>3, <2>4, <2>5 DEF OutboxOK
<1> QED BY <1>2, <1>3, <1>4

\* The types, but for the store, as the lemmas on the actions give them.
LEMMA SocketTypeKept ==
  ASSUME SocketTypeOK, Engaged, [SocketNext]_vars,
         task' \in [Sockets -> Task],
         outbox' \in [Sockets -> Outbox],
         \A x \in Sockets : OutboxOK(outbox'[x])
  PROVE  SocketTypeOK'
<1>1. TypeOK'
  BY SocketStoreStep, SocketStoreType DEF SocketTypeOK
<1> QED BY <1>1 DEF SocketTypeOK, OutboxOK

\* The steps by what they do to the outboxes.
LEMMA OutboxStep ==
  ASSUME SocketTypeOK, Engaged, [SocketNext]_vars
  PROVE  /\ outbox' \in [Sockets -> Outbox]
         /\ \A x \in Sockets : OutboxOK(outbox'[x])
<1>0. outbox \in [Sockets -> Outbox] /\ \A x \in Sockets : OutboxOK(outbox[x])
  BY DEF SocketTypeOK, OutboxOK
<1>1. CASE UNCHANGED outbox
  BY <1>0, <1>1
<1>2. ASSUME NEW s \in Sockets, NEW o, OutboxOK(o), outbox' = [outbox EXCEPT ![s] = o]
      PROVE  /\ outbox' \in [Sockets -> Outbox]
             /\ \A x \in Sockets : OutboxOK(outbox'[x])
  BY <1>0, <1>2 DEF OutboxOK
<1>3. OutboxOK(EmptyOutbox)
  BY EmptyOutboxType
<1>4. ASSUME NEW s \in Sockets, NEW c \in task[s].outgoing, Send(s, c)
      PROVE  /\ outbox' \in [Sockets -> Outbox]
             /\ \A x \in Sockets : OutboxOK(outbox'[x])
  <2>1. c \in Command /\ (UNCHANGED outbox \/ outbox' = [outbox EXCEPT ![c.to] = Sent(c)])
    BY <1>4, SendEffect
  <2>2. c.to \in Sockets /\ OutboxOK(Sent(c))
    BY <1>0, <2>1, SentType DEF Command
  <2> QED BY <1>1, <1>2, <2>1, <2>2
<1>5. ASSUME NEW s \in Sockets, Deliver(s)
      PROVE  /\ outbox' \in [Sockets -> Outbox]
             /\ \A x \in Sockets : OutboxOK(outbox'[x])
  <2> DEFINE o == [outbox[s] EXCEPT !.queue = Tail(outbox[s].queue)]
  <2>1. outbox' = [outbox EXCEPT ![s] = o] /\ outbox[s].queue # <<>>
    BY <1>5, DeliverEffect
  <2>2. OutboxOK(o)
    BY <1>0, <2>1, ShorterOutboxType
  <2> HIDE DEF o
  <2> QED BY <1>2, <2>1, <2>2
<1>6. ASSUME NEW s \in Sockets, SocketStep(s)
      PROVE  \/ UNCHANGED outbox
             \/ outbox' = [outbox EXCEPT ![s] = EmptyOutbox]
             \/ \E c \in task[s].outgoing : Send(s, c)
             \/ Deliver(s)
  BY <1>6 DEF SocketStep, TaskProgress, Upgrade, Register, RefuseRegistration, Greet,
              FailGreeting, ObserveCancel, Break, LeaveLoop, Relay, Unregister
<1>7. UNCHANGED vars \/ (ServiceStep /\ UNCHANGED socketVars) => UNCHANGED outbox
  BY DEF vars, socketVars
<1> QED BY <1>1, <1>2, <1>3, <1>4, <1>5, <1>6, <1>7 DEF SocketNext

\* The parts of the invariant that each action of a task writes.
TasksOK ==
  /\ task \in [Sockets -> Task]
  /\ Engaged
  /\ ClosesFirst
  /\ TokensIssued

\* An action of s keeps them if it gives s a task as it should be.
LEMMA TaskWritten ==
  ASSUME TasksOK, NEW s \in Sockets, OnlyTask(s), task' \in [Sockets -> Task],
         tokens_issued \in Nat, tokens_issued' \in Nat, tokens_issued' >= tokens_issued,
         task'[s].stage \notin {"idle", "done"} =>
           /\ task'[s].lobby \in LobbyIds
           /\ task'[s].participant \in ParticipantIds
           /\ task'[s].token \in Tokens,
         task'[s].token <= tokens_issued',
         \A c \in task'[s].outgoing : c.what = Close =>
           /\ task'[s].stage = "replacing"
           /\ \A d \in task'[s].outgoing : d.what = Close => d = c
  PROVE  TasksOK'
<1>1. Engaged'
  BY DEF TasksOK, Engaged, OnlyTask
<1>2. ClosesFirst'
  BY DEF TasksOK, ClosesFirst, OnlyTask
<1>3. \A x \in Sockets : task[x].token \in Nat
  BY BoundAssumption DEF TasksOK, Task
<1>4. TokensIssued'
  BY <1>3 DEF TasksOK, TokensIssued, OnlyTask
<1> QED BY <1>1, <1>2, <1>4 DEF TasksOK

\* A task that ends is as it should be.
LEMMA TaskEnded ==
  ASSUME TasksOK, NEW s \in Sockets, OnlyTask(s), task' \in [Sockets -> Task],
         tokens_issued \in Nat, tokens_issued' \in Nat, tokens_issued' >= tokens_issued,
         task'[s] = Inactive("done")
  PROVE  TasksOK'
<1>1. /\ task'[s].stage = "done"
      /\ task'[s].token = 0
      /\ task'[s].outgoing = {}
  BY InactiveType DEF Stages
<1> QED BY <1>1, TaskWritten

\* So is one that goes on with commands among which there is no new Close.
LEMMA TaskGoesOn ==
  ASSUME TasksOK, NEW s \in Sockets, OnlyTask(s), task' \in [Sockets -> Task],
         tokens_issued \in Nat, tokens_issued' \in Nat, tokens_issued' >= tokens_issued,
         task[s].stage \notin {"idle", "done"},
         SameIdentity(task'[s], task[s]),
         \A c \in task'[s].outgoing : c.what # Close
  PROVE  TasksOK'
<1>1. /\ task[s].lobby \in LobbyIds
      /\ task[s].participant \in ParticipantIds
      /\ task[s].token \in Tokens
      /\ task[s].token \in Nat
      /\ task[s].token <= tokens_issued
  BY DEF TasksOK, Engaged, TokensIssued, Tokens
<1>2. task'[s].token <= tokens_issued'
  BY <1>1 DEF SameIdentity
<1> QED BY <1>1, <1>2, TaskWritten DEF SameIdentity

\* Each action of a task leaves it as it should be.
LEMMA TasksKept ==
  ASSUME SocketInv, [SocketNext]_vars
  PROVE  TasksOK'
<1> USE DEF SocketInv
<1>1. /\ tokens_issued \in Nat
      /\ TasksOK
      /\ SocketTypeOK
      /\ Engaged
      /\ next_connection_id \in Nat
  BY DEF TasksOK, SocketTypeOK, TypeOK
<1>2. tokens_issued' \in Nat /\ tokens_issued' >= tokens_issued
  <2>1. TypeOK'
    BY SocketStoreStep, SocketStoreType DEF SocketTypeOK
  <2>2. ASSUME NEW s \in Sockets, Register(s) PROVE tokens_issued' >= tokens_issued
    <3>1. UNCHANGED tokens_issued
      BY <2>2 DEF Register, RegisterConnection
    <3> QED BY <1>1, <3>1
  <2>3. ASSUME \A s \in Sockets : ~Register(s) PROVE tokens_issued' >= tokens_issued
    BY <1>1, <2>3, StepIsQuiet, QuietCounters DEF QuietStep
  <2> QED BY <2>1, <2>2, <2>3 DEF TypeOK
<1>3. CASE UNCHANGED task
  BY <1>1, <1>2, <1>3 DEF TasksOK, Engaged, ClosesFirst, TokensIssued, Task
<1>4. ASSUME NEW s \in Sockets, NEW l \in LobbyIds, NEW p \in ParticipantIds,
             NEW t \in Tokens, Upgrade(s, l, p, t)
      PROVE  TasksOK'
  <2>1. /\ OnlyTask(s)
        /\ task'[s].lobby = l /\ task'[s].participant = p /\ task'[s].token = t
        /\ task'[s].outgoing = {}
        /\ task' \in [Sockets -> Task]
        /\ Taken(l, p)
        /\ HashAt(l, p) = hash_capability_token(t)
    BY <1>4, UpgradeEffect
  <2>2. PICK u \in 1 .. tokens_issued : hash_capability_token(t) = hash_capability_token(u)
    BY <2>1 DEF CredentialsIssued
  <2>3. t <= tokens_issued'
    BY <1>1, <1>2, <2>2, HashInjective
  <2> QED BY <1>1, <1>2, <2>1, <2>3, TaskWritten
<1>5. ASSUME NEW s \in Sockets, Register(s) PROVE TasksOK'
  <2>1. PICK l \in LobbyIds, p \in ParticipantIds :
          l = task[s].lobby /\ p = task[s].participant
    BY <1>5 DEF Register, Engaged
  <2>2. /\ OnlyTask(s)
        /\ task[s].stage = "upgrading"
        /\ task'[s].stage = "greeting" <=> Replaced(task[s]) = {}
        /\ task'[s].stage \in {"greeting", "replacing"}
        /\ task'[s].lobby = l
        /\ task'[s].participant = p
        /\ task'[s].token = task[s].token
        /\ task' \in [Sockets -> Task]
        /\ task'[s].outgoing
             = [to : Replaced(task[s]), what : {Close}]
                 \cup [to : ConnectedPeers(task[s]), what : {Announcement(s, "connected")}]
        /\ lobbies[l] # None
    BY <1>5, <2>1, RegisterTask
  <2>3. ConnectedPeers(task[s]) \in SUBSET Sockets /\ Replaced(task[s]) \in SUBSET Sockets
    BY <2>1, <2>2, PeersType DEF SocketTypeOK
  <2>4. Announcement(s, "connected") \in Frame /\ Announcement(s, "connected") # Close
    BY <2>2, AnnouncementType DEF Kinds
  <2>5. \A c \in [to : ConnectedPeers(task[s]), what : {Announcement(s, "connected")}] :
          c.what # Close
    BY <2>3, <2>4, CommandsType
  <2>6. \A c \in [to : Replaced(task[s]), what : {Close}] :
          /\ Replaced(task[s]) # {}
          /\ \A d \in [to : Replaced(task[s]), what : {Close}] : d = c
    BY OneReplaced
  <2>7. \A c \in task'[s].outgoing : c.what = Close =>
          /\ task'[s].stage = "replacing"
          /\ \A d \in task'[s].outgoing : d.what = Close => d = c
    BY <2>2, <2>5, <2>6
  <2>8. task[s].token \in Tokens /\ task[s].token <= tokens_issued
    BY <2>2 DEF Engaged, TokensIssued
  <2>9. task'[s].token <= tokens_issued'
    BY <1>1, <1>2, <2>2, <2>8 DEF Tokens
  <2> QED BY <1>1, <1>2, <2>1, <2>2, <2>7, <2>8, <2>9, TaskWritten
<1>6. ASSUME NEW s \in Sockets, RefuseRegistration(s) \/ FailGreeting(s) PROVE TasksOK'
  BY <1>1, <1>2, <1>6, RefuseEffect, FailGreetingEffect, TaskEnded
<1>7. ASSUME NEW s \in Sockets, task[s].stage # "replacing"
      PROVE  \A c \in task[s].outgoing : c.what # Close
  BY <1>7 DEF ClosesFirst
<1>8. ASSUME NEW s \in Sockets, Greet(s) \/ ObserveCancel(s) \/ Break(s) PROVE TasksOK'
  <2>1. /\ OnlyTask(s)
        /\ task[s].stage \in {"greeting", "serving"}
        /\ task'[s].outgoing = task[s].outgoing
        /\ SameIdentity(task'[s], task[s])
        /\ task' \in [Sockets -> Task]
    BY <1>8, GreetEffect, LeaveEffect
  <2> QED BY <1>1, <1>2, <1>7, <2>1, TaskGoesOn
<1>9. ASSUME NEW s \in Sockets, NEW c \in task[s].outgoing, Send(s, c) PROVE TasksOK'
  <2>1. /\ OnlyTask(s)
        /\ task[s].stage \in {"replacing", "announcing", "relaying", "farewell"}
        /\ task[s].stage = "replacing" <=> c.what = Close
        /\ task' \in [Sockets -> Task]
        /\ \/ task'[s] = Inactive("done")
           \/ SameIdentity(task'[s], task[s]) /\ task'[s].outgoing = task[s].outgoing \ {c}
    BY <1>9, SendEffect
  <2>2. \A d \in task[s].outgoing \ {c} : d.what # Close
    BY <1>7, <2>1 DEF ClosesFirst
  <2> QED BY <1>1, <1>2, <2>1, <2>2, TaskGoesOn, TaskEnded
<1>10. ASSUME NEW s \in Sockets, NEW q \in ParticipantIds, Relay(s, q) PROVE TasksOK'
  <2>1. /\ OnlyTask(s)
        /\ task[s].stage = "serving"
        /\ task'[s].outgoing
             = [to : {SenderAt(task[s].lobby, q)}, what : {Announcement(s, "signal")}]
        /\ SenderAt(task[s].lobby, q) \in Sockets
        /\ SameIdentity(task'[s], task[s])
        /\ task' \in [Sockets -> Task]
    BY <1>10, RelayEffect
  <2>2. Announcement(s, "signal") \in Frame /\ Announcement(s, "signal") # Close
    BY <2>1, AnnouncementType DEF Kinds
  <2>3. \A c \in task'[s].outgoing : c.what # Close
    BY <2>1, <2>2, CommandsType
  <2> QED BY <1>1, <1>2, <2>1, <2>3, TaskGoesOn
<1>11. ASSUME NEW s \in Sockets, Unregister(s) PROVE TasksOK'
  <2>1. /\ OnlyTask(s)
        /\ task[s].stage = "leaving"
        /\ task' \in [Sockets -> Task]
        /\ \/ task'[s] = Inactive("done")
           \/ SameIdentity(task'[s], task[s]) /\ task'[s].outgoing = Farewells(s)
        /\ \A c \in Farewells(s) : c.what = Announcement(s, "disconnected")
    BY <1>11, UnregisterTask
  <2>2. Announcement(s, "disconnected") # Close
    BY <2>1, AnnouncementType DEF Kinds
  <2> QED BY <1>1, <1>2, <2>1, <2>2, TaskGoesOn, TaskEnded
<1>12. ASSUME NEW s \in Sockets, Deliver(s) PROVE UNCHANGED task
  BY <1>12, DeliverEffect
<1>13. ASSUME NEW s \in Sockets, SocketStep(s) PROVE TasksOK'
  BY <1>3, <1>4, <1>5, <1>6, <1>8, <1>9, <1>10, <1>11, <1>12, <1>13
     DEF SocketStep, TaskProgress
<1>14. UNCHANGED vars \/ (ServiceStep /\ UNCHANGED socketVars) => UNCHANGED task
  BY DEF vars, socketVars
<1> QED BY <1>3, <1>13, <1>14 DEF SocketNext

-------------------------------------------------------------------------------
(* The theorems about the tasks.                                            *)

\* The tasks without the fairness of SocketSpec.
SocketSafety == SocketInit /\ [][SocketNext]_vars

\* In the first state nothing is stored and no socket is opened.
LEMMA SocketInitInv == SocketInit => SocketInv
<1> SUFFICES ASSUME SocketInit PROVE SocketInv
  OBVIOUS
<1>1. TypeOK
  BY InitType DEF SocketInit
<1>2. /\ \A l \in LobbyIds, p \in ParticipantIds : ~Taken(l, p) /\ ~Occupied(l, p)
      /\ tokens_issued = 0
  BY DEF SocketInit, Init, Taken, Occupied
<1>3. /\ Inactive("idle") \in Task
      /\ Inactive("idle").stage = "idle"
      /\ Inactive("idle").token = 0
      /\ Inactive("idle").outgoing = {}
  BY InactiveType DEF Stages
<1>4. \A s \in Sockets : task[s] = Inactive("idle")
  BY DEF SocketInit
<1>5. SocketTypeOK
  <2>1. task \in [Sockets -> Task]
    BY <1>3 DEF SocketInit
  <2>2. EmptyOutbox \in Outbox /\ Len(EmptyOutbox.queue) <= QueueCapacity
    BY EmptyOutboxType DEF OutboxOK
  <2>3. outbox = [s \in Sockets |-> EmptyOutbox]
    BY DEF SocketInit
  <2> QED BY <1>1, <2>1, <2>2, <2>3 DEF SocketTypeOK
<1>6. CredentialsIssued /\ SlotHashesUnique
  BY <1>2 DEF CredentialsIssued, SlotHashesUnique
<1>7. Engaged /\ ClosesFirst /\ TokensIssued
  BY <1>2, <1>3, <1>4 DEF Engaged, ClosesFirst, TokensIssued
<1>8. TasksNumbered
  BY <1>3, <1>4 DEF TasksNumbered, RegisteredStages
<1>9. ConnectionsOwned
  BY <1>2 DEF ConnectionsOwned, Has
<1>10. \A s \in Sockets : ~Live(s)
  BY <1>3, <1>4, StagesKnown DEF Live
<1>11. LiveHasSlot /\ OneLive
  BY <1>10 DEF LiveHasSlot, OneLive
<1> QED BY <1>5, <1>6, <1>7, <1>8, <1>9, <1>11 DEF SocketInv

\* The invariant is inductive.
LEMMA SocketInvPreserved ==
  ASSUME SocketInv, [SocketNext]_vars
  PROVE  SocketInv'
<1>1. SocketTypeOK /\ Engaged /\ CredentialsIssued /\ SlotHashesUnique
  BY DEF SocketInv
<1>2. TasksOK'
  BY TasksKept
<1>3. SocketTypeOK'
  BY <1>1, <1>2, OutboxStep, SocketTypeKept DEF TasksOK
<1>4. CredentialsIssued' /\ SlotHashesUnique'
  BY <1>1, SocketStoreStep, CredentialsPreserved DEF SocketTypeOK
<1> QED BY <1>2, <1>3, <1>4, NumbersPreserved, OwnedPreserved, SlotKept, OneLivePreserved
        DEF SocketInv, TasksOK

\* The invariant, for every number of sockets and every capacity.
LEMMA SocketInvariant == SocketSafety => []SocketInv
BY SocketInitInv, SocketInvPreserved, PTL DEF SocketSafety

\* The state of the tasks and their outboxes keeps its shape: no queue outgrows
\* QUEUE_CAPACITY (outbox.rs:62-90).
THEOREM SocketTypeCorrect == SocketSafety => []SocketTypeOK
<1>1. SocketInv => SocketTypeOK
  BY DEF SocketInv
<1> QED BY <1>1, SocketInvariant, PTL

\* A task whose connection is in the store has still to unregister it: none
\* that returns leaves a connection behind (sockets.rs:153-157, 214-224).
THEOREM NoConnectionLeaks == SocketSafety => []NoLeakedConnection
<1>1. SocketInv => NoLeakedConnection
  BY HoldsSlot DEF SocketInv, ConnectionsOwned, Has, NoLeakedConnection, IdAt
<1> QED BY <1>1, SocketInvariant, PTL

\* The credential of the task that holds a slot is that of the slot, also when
\* the lobby was swept and its code drawn again before the task registered
\* (main.rs:643-660, lobby.rs:432-434).
THEOREM HoldersAuthenticated == SocketSafety => []ConnectionHolderAuthenticated
<1>1. SocketInv => ConnectionHolderAuthenticated
  BY HoldsSlot DEF SocketInv, ConnectionsOwned, Has, ConnectionHolderAuthenticated, HashAt
<1> QED BY <1>1, SocketInvariant, PTL

\* A credential has one socket at most that is neither cancelled nor about to be.
THEOREM ReconnectReplaces == SocketSafety => []OneSocketPerParticipant
<1>1. SocketInv => OneSocketPerParticipant
  <2>1. ASSUME NEW s \in Sockets, ~(Cancelled(s) \/ BeingClosed(s)),
               task[s].stage \in OpenStages
        PROVE  Live(s)
    BY <2>1 DEF Live, Cancelled
  <2> QED BY <2>1 DEF SocketInv, OneLive, OneSocketPerParticipant
<1> QED BY <1>1, SocketInvariant, PTL

\* A task nobody has closed holds the slot of its participant, however late the
\* tasks it replaced clean up (lobby.rs:482-490).
THEOREM NewestSocketKeepsSlot == SocketSafety => []NewestKeepsSlot
<1>1. SocketInv => NewestKeepsSlot
  <2> SUFFICES ASSUME SocketInv, NEW s \in Sockets,
                      task[s].stage \in OpenStages, ~outbox[s].closed, ~BeingClosed(s),
                      lobbies[task[s].lobby] # None,
                      Authenticated(lobbies[task[s].lobby], task[s].participant, task[s].token)
               PROVE  Holds(s, task[s].lobby, task[s].participant)
    BY DEF NewestKeepsSlot
  <2>1. /\ Live(s)
        /\ task[s].lobby \in LobbyIds
        /\ task[s].participant \in ParticipantIds
    BY StagesKnown DEF Live, SocketInv, Engaged
  <2> PICK l \in LobbyIds, p \in ParticipantIds : l = task[s].lobby /\ p = task[s].participant
    BY <2>1
  <2>2. Taken(l, p) /\ HashAt(l, p) = hash_capability_token(task[s].token)
    BY DEF Authenticated, Members, Taken, HashAt
  <2>3. Has(s, l, p)
    BY <2>1, <2>2 DEF SocketInv, LiveHasSlot
  <2> QED BY <2>3, HoldsSlot DEF Has
<1> QED BY <1>1, SocketInvariant, PTL

\* The same of the tasks as they are scheduled.
COROLLARY ScheduledTasksSafe ==
  SocketSpec => [](/\ SocketTypeOK
                   /\ NoLeakedConnection
                   /\ ConnectionHolderAuthenticated
                   /\ OneSocketPerParticipant
                   /\ NewestKeepsSlot)
<1>1. SocketSpec => SocketSafety
  BY PTL DEF SocketSpec, SocketSafety
<1> QED BY <1>1, SocketTypeCorrect, NoConnectionLeaks, HoldersAuthenticated,
           ReconnectReplaces, NewestSocketKeepsSlot, PTL

-------------------------------------------------------------------------------
(* What tasks still have to send.                                           *)

\* The command c is one the task t may have at its stage: a report on its own
\* participant to a socket of its lobby.
InOrder(t, c) ==
  /\ task[c.to].stage \notin {"idle", "upgrading"}
  /\ task[c.to].stage # "done" => task[c.to].lobby = task[t].lobby
  /\ c.what # Close => c.what.from = task[t].participant
  /\ c.what.kind = "connected" => task[t].stage \in {"replacing", "greeting", "announcing"}
  /\ c.what.kind = "signal" => task[t].stage = "relaying"
  /\ c.what.kind = "disconnected" => task[t].stage = "farewell"

CommandsInOrder == \A t \in Sockets : \A c \in task[t].outgoing : InOrder(t, c)

\* Nothing reaches an outbox before its task registers.
OutboxesFresh ==
  \A s \in Sockets : task[s].stage \in {"idle", "upgrading"} => outbox[s] = EmptyOutbox

\* What is still to be sent are commands.
LEMMA OutgoingType ==
  ASSUME SocketTypeOK, NEW t \in Sockets, NEW c \in task[t].outgoing
  PROVE  c \in Command /\ c.to \in Sockets /\ (c.what \in Frame \/ c.what = Close)
<1>1. c \in Command
  BY DEF SocketTypeOK, Task
<1> QED BY <1>1 DEF Command

\* A task at any other stage has nothing to send.
LEMMA NothingToSend ==
  ASSUME SocketInv, CommandsInOrder, NEW t \in Sockets,
         task[t].stage \notin {"replacing", "greeting", "announcing", "relaying", "farewell"}
  PROVE  task[t].outgoing = {}
<1> SUFFICES ASSUME NEW c \in task[t].outgoing PROVE FALSE
  OBVIOUS
<1>1. InOrder(t, c)
  BY DEF CommandsInOrder
<1>2. c.what # Close
  BY DEF SocketInv, ClosesFirst
<1>3. c.what.kind \in Kinds
  BY <1>2, OutgoingType, StagesKnown DEF SocketInv
<1> QED BY <1>1, <1>3 DEF InOrder, Kinds

\* A step of one task keeps the commands of the others in order.
LEMMA OrderKept ==
  ASSUME SocketTypeOK, CommandsInOrder, NEW s \in Sockets, OnlyTask(s),
         task[s].stage \notin {"idle", "upgrading"} =>
           /\ task'[s].stage \notin {"idle", "upgrading"}
           /\ task'[s].stage # "done" =>
                task[s].stage # "done" /\ task'[s].lobby = task[s].lobby,
         \A c \in task'[s].outgoing : InOrder(s, c)'
  PROVE  CommandsInOrder'
<1> SUFFICES ASSUME NEW t \in Sockets, NEW c \in task'[t].outgoing PROVE InOrder(t, c)'
  BY DEF CommandsInOrder
<1>1. CASE t = s
  BY <1>1
<1>2. CASE t # s
  <2>1. task'[t] = task[t] /\ c \in task[t].outgoing
    BY <1>2 DEF OnlyTask
  <2>2. InOrder(t, c) /\ c.to \in Sockets
    BY <2>1, OutgoingType DEF CommandsInOrder
  <2>3. task'[c.to] = task[c.to] \/ c.to = s
    BY <2>2 DEF OnlyTask
  <2> QED BY <2>1, <2>2, <2>3 DEF InOrder
<1> QED BY <1>1, <1>2

\* The connected peers of a task are registered in its lobby, and the sender it
\* replaces too.
LEMMA PeersRegistered ==
  ASSUME SocketInv, NEW s \in Sockets, NEW l \in LobbyIds, NEW p \in ParticipantIds,
         l = task[s].lobby, p = task[s].participant, lobbies[l] # None,
         NEW x \in ConnectedPeers(task[s]) \cup Replaced(task[s])
  PROVE  x \in Sockets /\ task[x].stage \in RegisteredStages /\ task[x].lobby = l
<1>1. PICK q \in Connected(lobbies[l]) : x = SenderAt(l, q)
  BY DEF ConnectedPeers, Replaced, SenderAt
<1>2. q \in ParticipantIds /\ x \in Sockets
  BY <1>1, SenderType DEF SocketInv, SocketTypeOK, SenderAt
<1>3. Has(x, l, q)
  BY <1>1 DEF Has, Occupied, Connected, Members
<1> QED BY <1>2, <1>3 DEF SocketInv, ConnectionsOwned

\* They are those that have the other slots of the lobby.
LEMMA PeersAre ==
  ASSUME NEW s \in Sockets, NEW l \in LobbyIds, NEW p \in ParticipantIds,
         l = task[s].lobby, p = task[s].participant,
         NEW x \in Sockets, NEW q \in ParticipantIds \ {p}, Has(x, l, q)
  PROVE  x \in ConnectedPeers(task[s])
<1>1. q \in Connected(lobbies[l])
  BY DEF Has, Occupied, Connected, Members
<1> QED BY <1>1 DEF ConnectedPeers, Has, SenderAt

\* Each action of a task keeps the commands in order.
LEMMA OrderPreserved ==
  ASSUME SocketInv, CommandsInOrder, [SocketNext]_vars
  PROVE  CommandsInOrder'
<1> USE DEF SocketInv
<1>1. SocketTypeOK /\ Engaged
  OBVIOUS
<1>2. CASE UNCHANGED task
  <2>1. \A t \in Sockets : \A c \in task[t].outgoing : InOrder(t, c)'
    BY <1>2 DEF CommandsInOrder, InOrder
  <2> QED BY <1>2, <2>1 DEF CommandsInOrder
<1>3. ASSUME NEW s \in Sockets, OnlyTask(s), task[s].stage \in {"idle", "upgrading"},
             task'[s].outgoing = {}
      PROVE  CommandsInOrder'
  BY <1>3, OrderKept
<1>4. ASSUME NEW s \in Sockets, OnlyTask(s), task'[s] = Inactive("done")
      PROVE  CommandsInOrder'
  <2>1. task'[s].stage = "done" /\ task'[s].outgoing = {}
    BY <1>4, InactiveType DEF Stages
  <2> QED BY <1>4, <2>1, OrderKept
<1>5. ASSUME NEW s \in Sockets, OnlyTask(s),
             task[s].stage \in RegisteredStages \cup {"farewell"},
             task'[s].stage \notin {"idle", "upgrading"},
             SameIdentity(task'[s], task[s]),
             \A c \in task'[s].outgoing : InOrder(s, c)'
      PROVE  CommandsInOrder'
  BY <1>5, OrderKept DEF SameIdentity, RegisteredStages
<1>6. ASSUME NEW s \in Sockets, NEW l \in LobbyIds, NEW p \in ParticipantIds,
             NEW t \in Tokens, Upgrade(s, l, p, t)
      PROVE  CommandsInOrder'
  BY <1>3, <1>6, UpgradeEffect
<1>7. ASSUME NEW s \in Sockets, RefuseRegistration(s) \/ FailGreeting(s)
      PROVE  CommandsInOrder'
  BY <1>4, <1>7, RefuseEffect, FailGreetingEffect
<1>8. ASSUME NEW s \in Sockets, Register(s) PROVE CommandsInOrder'
  <2>1. PICK l \in LobbyIds, p \in ParticipantIds : l = task[s].lobby /\ p = task[s].participant
    BY <1>8 DEF Register, Engaged
  <2>2. /\ OnlyTask(s)
        /\ task[s].stage = "upgrading"
        /\ task'[s].stage = "greeting" <=> Replaced(task[s]) = {}
        /\ task'[s].stage \in {"greeting", "replacing"}
        /\ task'[s].lobby = l
        /\ task'[s].participant = p
        /\ task'[s].outgoing
             = [to : Replaced(task[s]), what : {Close}]
                 \cup [to : ConnectedPeers(task[s]), what : {Announcement(s, "connected")}]
        /\ lobbies[l] # None
    BY <1>1, <1>8, <2>1, RegisterTask
  <2>3. ASSUME NEW c \in task'[s].outgoing PROVE InOrder(s, c)'
    <3>1. /\ c.to \in ConnectedPeers(task[s]) \cup Replaced(task[s])
          /\ c.what \in {Close, Announcement(s, "connected")}
      BY <2>2, <2>3
    <3>2. c.to \in Sockets /\ task[c.to].stage \in RegisteredStages /\ task[c.to].lobby = l
      BY <2>1, <2>2, <3>1, PeersRegistered
    <3>3. c.to # s /\ task'[c.to] = task[c.to]
      BY <2>2, <3>2 DEF RegisteredStages, OnlyTask
    <3>4. /\ Announcement(s, "connected").kind = "connected"
          /\ Announcement(s, "connected").from = p
      BY <2>1, <2>2, AnnouncementType DEF Kinds
    <3> QED BY <2>2, <3>1, <3>2, <3>3, <3>4, StagesKnown DEF InOrder, RegisteredStages
  <2> QED BY <1>1, <2>2, <2>3, OrderKept
<1>9. ASSUME NEW s \in Sockets, Greet(s) PROVE CommandsInOrder'
  <2>1. /\ OnlyTask(s)
        /\ task[s].stage = "greeting"
        /\ task'[s].stage \in {"announcing", "serving"}
        /\ task'[s].stage = "serving" => task[s].outgoing = {}
        /\ task'[s].outgoing = task[s].outgoing
        /\ SameIdentity(task'[s], task[s])
    BY <1>9, GreetEffect
  <2>2. ASSUME NEW c \in task'[s].outgoing PROVE InOrder(s, c)'
    <3>1. InOrder(s, c) /\ c.to \in Sockets
      BY <2>1, OutgoingType DEF CommandsInOrder
    <3>2. task'[c.to].stage = task[c.to].stage \/ c.to = s
      BY <2>1, <3>1 DEF OnlyTask
    <3>3. task'[c.to].lobby = task[c.to].lobby
      BY <2>1, <3>1 DEF OnlyTask, SameIdentity
    <3> QED BY <2>1, <3>1, <3>2, <3>3 DEF InOrder, SameIdentity
  <2> QED BY <1>5, <2>1, <2>2 DEF RegisteredStages
<1>10. ASSUME NEW s \in Sockets, ObserveCancel(s) \/ Break(s) PROVE CommandsInOrder'
  <2>1. /\ OnlyTask(s)
        /\ task[s].stage = "serving"
        /\ task'[s].stage = "leaving"
        /\ task'[s].outgoing = task[s].outgoing
        /\ SameIdentity(task'[s], task[s])
    BY <1>10, LeaveEffect
  <2>2. task'[s].outgoing = {}
    BY <2>1, NothingToSend
  <2> QED BY <1>5, <2>1, <2>2 DEF RegisteredStages
<1>11. ASSUME NEW s \in Sockets, NEW d \in task[s].outgoing, Send(s, d)
       PROVE  CommandsInOrder'
  <2>1. /\ OnlyTask(s)
        /\ task[s].stage \in {"replacing", "announcing", "relaying", "farewell"}
        /\ task[s].stage = "replacing" <=> d.what = Close
        /\ \/ task'[s] = Inactive("done")
           \/ /\ SameIdentity(task'[s], task[s])
              /\ task'[s].outgoing = task[s].outgoing \ {d}
              /\ \/ task'[s].stage = task[s].stage
                 \/ task'[s].stage = "greeting" /\ task[s].stage = "replacing"
                 \/ task'[s].stage = "serving" /\ task[s].outgoing \ {d} = {}
    BY <1>11, SendEffect
  <2>2. CASE task'[s] = Inactive("done")
    BY <1>4, <2>1, <2>2
  <2>3. CASE task'[s] # Inactive("done")
    <3>1. /\ SameIdentity(task'[s], task[s])
          /\ task'[s].outgoing = task[s].outgoing \ {d}
          /\ \/ task'[s].stage = task[s].stage
             \/ task'[s].stage = "greeting" /\ task[s].stage = "replacing"
             \/ task'[s].stage = "serving" /\ task[s].outgoing \ {d} = {}
      BY <2>1, <2>3
    <3>2. ASSUME NEW c \in task'[s].outgoing PROVE InOrder(s, c)'
      <4>1. InOrder(s, c) /\ c.to \in Sockets
        BY <3>1, OutgoingType DEF CommandsInOrder
      <4>2. task'[c.to].stage = task[c.to].stage \/ c.to = s
        BY <2>1, <4>1 DEF OnlyTask
      <4>3. task'[c.to].lobby = task[c.to].lobby
        BY <2>1, <3>1, <4>1 DEF OnlyTask, SameIdentity
      <4>4. \/ task'[s].stage = task[s].stage
            \/ task'[s].stage = "greeting" /\ task[s].stage = "replacing"
        BY <3>1
      <4>5. /\ task'[c.to].stage \notin {"idle", "upgrading"}
            /\ task'[c.to].stage # "done" => task'[c.to].lobby = task'[s].lobby
        BY <2>1, <3>1, <4>1, <4>2, <4>3, <4>4 DEF InOrder, SameIdentity
      <4>6. task'[s].participant = task[s].participant
        BY <3>1 DEF SameIdentity
      <4> QED BY <4>1, <4>4, <4>5, <4>6 DEF InOrder
    <3>3. task'[s].stage \notin {"idle", "upgrading"}
      BY <2>1, <3>1
    <3> QED BY <1>5, <2>1, <3>1, <3>2, <3>3 DEF RegisteredStages
  <2> QED BY <2>2, <2>3
<1>12. ASSUME NEW s \in Sockets, NEW q \in ParticipantIds, Relay(s, q)
       PROVE  CommandsInOrder'
  <2>1. PICK l \in LobbyIds : l = task[s].lobby
    BY <1>12 DEF Relay, Engaged
  <2>2. /\ OnlyTask(s)
        /\ task[s].stage = "serving"
        /\ task'[s].stage = "relaying"
        /\ task'[s].outgoing
             = [to : {SenderAt(task[s].lobby, q)}, what : {Announcement(s, "signal")}]
        /\ Occupied(task[s].lobby, q)
        /\ SenderAt(task[s].lobby, q) \in Sockets
        /\ SameIdentity(task'[s], task[s])
    BY <1>1, <1>12, RelayEffect
  <2>3. PICK x \in Sockets : x = SenderAt(task[s].lobby, q)
    BY <2>2
  <2>4. Has(x, l, q)
    BY <2>1, <2>2, <2>3 DEF Has
  <2>5. task[x].stage \in RegisteredStages /\ task[x].lobby = l
    BY <2>4 DEF ConnectionsOwned
  <2>6. /\ Announcement(s, "signal").kind = "signal"
        /\ Announcement(s, "signal").from = task[s].participant
    BY <2>2, AnnouncementType DEF Kinds
  <2>7. ASSUME NEW c \in task'[s].outgoing PROVE InOrder(s, c)'
    <3>1. c.to = x /\ c.what = Announcement(s, "signal")
      BY <2>2, <2>3
    <3>2. /\ task'[x].stage \notin {"idle", "upgrading"}
          /\ task'[x].lobby = l
      BY <2>2, <2>5 DEF OnlyTask, SameIdentity, RegisteredStages
    <3> QED BY <2>1, <2>2, <2>6, <3>1, <3>2 DEF InOrder, SameIdentity
  <2> QED BY <1>5, <2>2, <2>7 DEF RegisteredStages
<1>13. ASSUME NEW s \in Sockets, Unregister(s) PROVE CommandsInOrder'
  <2>1. PICK l \in LobbyIds, p \in ParticipantIds : l = task[s].lobby /\ p = task[s].participant
    BY <1>13 DEF Unregister, Engaged
  <2>2. /\ OnlyTask(s)
        /\ task[s].stage = "leaving"
        /\ \/ task'[s] = Inactive("done")
           \/ /\ task'[s].stage = "farewell"
              /\ task'[s].outgoing = Farewells(s)
              /\ SameIdentity(task'[s], task[s])
        /\ Farewells(s)
             = [to : IF IsCurrent(task[s].lobby, task[s].participant, task[s].id)
                       THEN ConnectedPeers(task[s]) ELSE {},
                what : {Announcement(s, "disconnected")}]
    BY <1>1, <1>13, UnregisterTask
  <2>3. CASE task'[s] = Inactive("done")
    BY <1>4, <2>2, <2>3
  <2>4. CASE task'[s] # Inactive("done")
    <3>1. ASSUME NEW c \in task'[s].outgoing PROVE InOrder(s, c)'
      <4>1. /\ c.to \in ConnectedPeers(task[s])
            /\ c.what = Announcement(s, "disconnected")
            /\ lobbies[l] # None
        <5> DEFINE current == IsCurrent(task[s].lobby, task[s].participant, task[s].id)
                   peers == IF current THEN ConnectedPeers(task[s]) ELSE {}
        <5>1. c \in [to : peers, what : {Announcement(s, "disconnected")}]
          BY <2>2, <2>4
        <5>2. c.to \in peers /\ c.what = Announcement(s, "disconnected")
          BY <5>1
        <5>3. current => lobbies[l] # None
          BY <2>1 DEF IsCurrent
        <5> QED BY <5>2, <5>3
      <4>2. c.to \in Sockets /\ task[c.to].stage \in RegisteredStages /\ task[c.to].lobby = l
        BY <2>1, <4>1, PeersRegistered
      <4>3. /\ task'[c.to].stage \notin {"idle", "upgrading"}
            /\ task'[c.to].lobby = l
        BY <2>1, <2>2, <2>4, <4>2 DEF OnlyTask, SameIdentity, RegisteredStages
      <4>4. /\ Announcement(s, "disconnected").kind = "disconnected"
            /\ Announcement(s, "disconnected").from = p
        BY <2>1, <2>2, AnnouncementType DEF Kinds
      <4>5. /\ task'[s].stage = "farewell"
            /\ task'[s].lobby = l
            /\ task'[s].participant = p
        BY <2>1, <2>2, <2>4 DEF SameIdentity
      <4> QED BY <4>1, <4>3, <4>4, <4>5 DEF InOrder
    <3> QED BY <1>5, <2>2, <2>4, <3>1 DEF RegisteredStages
  <2> QED BY <2>3, <2>4
<1>14. ASSUME NEW s \in Sockets, Deliver(s) PROVE UNCHANGED task
  BY <1>14, DeliverEffect
<1>15. ASSUME NEW s \in Sockets, SocketStep(s) PROVE CommandsInOrder'
  BY <1>2, <1>6, <1>7, <1>8, <1>9, <1>10, <1>11, <1>12, <1>13, <1>14, <1>15
     DEF SocketStep, TaskProgress
<1>16. UNCHANGED vars \/ (ServiceStep /\ UNCHANGED socketVars) => UNCHANGED task
  BY DEF vars, socketVars
<1> QED BY <1>2, <1>15, <1>16 DEF SocketNext

-------------------------------------------------------------------------------
(* Outboxes, and who listens to them.                                       *)

\* A command leaves an outbox alone whose task is not in its loop.
LEMMA SentToOpen ==
  ASSUME SocketTypeOK, NEW c \in Command, NEW x \in Sockets,
         outbox' = [outbox EXCEPT ![c.to] = Sent(c)] \/ UNCHANGED outbox,
         outbox'[x] # outbox[x]
  PROVE  /\ c.to = x
         /\ outbox' = [outbox EXCEPT ![x] = Sent(c)]
         /\ task[x].stage \in OpenStages
         /\ ~outbox[x].closed
<1>1. outbox \in [Sockets -> Outbox] /\ c.to \in Sockets
  BY DEF SocketTypeOK, Command
<1>2. outbox' = [outbox EXCEPT ![c.to] = Sent(c)] /\ c.to = x
  BY <1>1
<1>3. outbox'[x] = Sent(c)
  BY <1>1, <1>2
<1> QED BY <1>2, <1>3 DEF Sent

\* A task that has not registered has not got there by this step, and nothing
\* has reached its outbox.
LEMMA FreshPreserved ==
  ASSUME SocketInv, OutboxesFresh, [SocketNext]_vars
  PROVE  OutboxesFresh'
<1> SUFFICES ASSUME NEW x \in Sockets, task'[x].stage \in {"idle", "upgrading"}
             PROVE  task[x].stage \in {"idle", "upgrading"} /\ outbox'[x] = outbox[x]
  BY DEF OutboxesFresh
<1>1. SocketTypeOK /\ Engaged /\ outbox \in [Sockets -> Outbox]
  BY DEF SocketInv, SocketTypeOK
<1>2. CASE UNCHANGED <<task, outbox>>
  BY <1>2
<1>3. ASSUME NEW s \in Sockets, OnlyTask(s), task'[s].stage \notin {"idle", "upgrading"},
             UNCHANGED outbox \/ \E o : outbox' = [outbox EXCEPT ![s] = o]
      PROVE  task[x].stage \in {"idle", "upgrading"} /\ outbox'[x] = outbox[x]
  <2>1. x # s
    BY <1>3
  <2>2. task'[x] = task[x]
    BY <1>3, <2>1 DEF OnlyTask
  <2>3. outbox'[x] = outbox[x]
    BY <1>1, <1>3, <2>1
  <2> QED BY <2>2, <2>3
<1>4. Inactive("done").stage = "done"
  BY DEF Inactive
<1>5. ASSUME NEW s \in Sockets, NEW l \in LobbyIds, NEW p \in ParticipantIds,
             NEW t \in Tokens, Upgrade(s, l, p, t)
      PROVE  task[x].stage \in {"idle", "upgrading"} /\ outbox'[x] = outbox[x]
  <2>1. OnlyTask(s) /\ task[s].stage = "idle" /\ UNCHANGED outbox
    BY <1>1, <1>5, UpgradeEffect DEF Upgrade
  <2> QED BY <2>1 DEF OnlyTask
<1>6. ASSUME NEW s \in Sockets, Register(s)
      PROVE  task[x].stage \in {"idle", "upgrading"} /\ outbox'[x] = outbox[x]
  <2>1. PICK l, p : l = task[s].lobby /\ p = task[s].participant
    OBVIOUS
  <2> QED BY <1>1, <1>3, <1>6, <2>1, RegisterTask
<1>7. ASSUME NEW s \in Sockets, RefuseRegistration(s) \/ FailGreeting(s)
      PROVE  task[x].stage \in {"idle", "upgrading"} /\ outbox'[x] = outbox[x]
  BY <1>1, <1>3, <1>4, <1>7, RefuseEffect, FailGreetingEffect
<1>8. ASSUME NEW s \in Sockets, Greet(s)
      PROVE  task[x].stage \in {"idle", "upgrading"} /\ outbox'[x] = outbox[x]
  BY <1>1, <1>3, <1>8, GreetEffect
<1>9. ASSUME NEW s \in Sockets, ObserveCancel(s) \/ Break(s)
      PROVE  task[x].stage \in {"idle", "upgrading"} /\ outbox'[x] = outbox[x]
  BY <1>1, <1>3, <1>9, LeaveEffect
<1>10. ASSUME NEW s \in Sockets, NEW q \in ParticipantIds, Relay(s, q)
       PROVE  task[x].stage \in {"idle", "upgrading"} /\ outbox'[x] = outbox[x]
  BY <1>1, <1>3, <1>10, RelayEffect
<1>11. ASSUME NEW s \in Sockets, Unregister(s)
       PROVE  task[x].stage \in {"idle", "upgrading"} /\ outbox'[x] = outbox[x]
  <2>1. OnlyTask(s) /\ task'[s].stage \in {"done", "farewell"} /\ UNCHANGED outbox
    BY <1>1, <1>4, <1>11, UnregisterTask
  <2> QED BY <1>3, <2>1
<1>12. ASSUME NEW s \in Sockets, Deliver(s)
       PROVE  task[x].stage \in {"idle", "upgrading"} /\ outbox'[x] = outbox[x]
  <2>1. task[s].stage = "serving" /\ UNCHANGED task /\ \E o : outbox' = [outbox EXCEPT ![s] = o]
    BY <1>12, DeliverEffect
  <2> QED BY <1>3, <2>1 DEF OnlyTask
<1>13. ASSUME NEW s \in Sockets, NEW c \in task[s].outgoing, Send(s, c)
       PROVE  task[x].stage \in {"idle", "upgrading"} /\ outbox'[x] = outbox[x]
  <2>1. /\ OnlyTask(s)
        /\ task'[s] = Inactive("done")
             \/ task'[s].stage \in {task[s].stage, "greeting", "serving"}
        /\ task[s].stage \in {"replacing", "announcing", "relaying", "farewell"}
        /\ c \in Command
        /\ outbox' = [outbox EXCEPT ![c.to] = Sent(c)] \/ UNCHANGED outbox
    BY <1>1, <1>13, SendEffect
  <2>2. task'[x] = task[x]
    BY <1>4, <2>1 DEF OnlyTask
  <2>3. outbox'[x] = outbox[x]
    BY <1>1, <2>1, <2>2, SentToOpen, StagesKnown
  <2> QED BY <2>2, <2>3
<1>14. ASSUME NEW s \in Sockets, SocketStep(s)
       PROVE  task[x].stage \in {"idle", "upgrading"} /\ outbox'[x] = outbox[x]
  BY <1>5, <1>6, <1>7, <1>8, <1>9, <1>10, <1>11, <1>12, <1>13, <1>14
     DEF SocketStep, TaskProgress
<1>15. UNCHANGED vars \/ (ServiceStep /\ UNCHANGED socketVars) => UNCHANGED <<task, outbox>>
  BY DEF vars, socketVars
<1> QED BY <1>2, <1>14, <1>15 DEF SocketNext

\* The socket s has the slot of p in l and goes on taking frames.
Listens(s, l, p) == Has(s, l, p) /\ task[s].stage \in OpenStages /\ ~outbox[s].closed

\* No step gives a slot to a socket x that is not about to register.
LEMMA HadSlot ==
  ASSUME SocketInv, [SocketNext]_vars,
         NEW x \in Sockets, NEW l \in LobbyIds, NEW p \in ParticipantIds,
         Has(x, l, p)', task[x].stage # "upgrading"
  PROVE  Has(x, l, p)
<1>1. SocketTypeOK /\ Engaged /\ ClosesFirst
  BY DEF SocketInv
<1>2. ASSUME NEW m \in LobbyIds, NEW q \in ParticipantIds, OtherSlotsStay(m, q),
             m # l \/ q # p
      PROVE  Has(x, l, p)
  BY <1>2 DEF OtherSlotsStay, Has, Occupied, Taken, SenderAt, SlotAt
<1>3. ASSUME NEW s \in Sockets, Register(s) PROVE Has(x, l, p)
  <2>1. PICK m \in LobbyIds, q \in ParticipantIds : m = task[s].lobby /\ q = task[s].participant
    BY <1>3 DEF Register, SocketInv, Engaged
  <2>2. Takes(m, q, s)
    BY <1>1, <1>3, <2>1, RegisterTask
  <2>3. m # l \/ q # p
    BY <1>3, <2>2 DEF Takes, Has, Register
  <2> QED BY <1>2, <2>2, <2>3 DEF Takes
<1>4. ASSUME \A s \in Sockets : ~Register(s) PROVE Has(x, l, p)
  <2>1. SlotsQuiet
    BY <1>1, <1>4, StepIsQuiet DEF QuietStep
  <2>2. CASE ServiceOnly
    BY <2>2 DEF ServiceOnly, Stays, Goes, Fresh, Has, Occupied, Taken, SenderAt, SlotAt
  <2>3. ASSUME NEW s \in Sockets, NEW m \in LobbyIds, NEW q \in ParticipantIds,
               FreesOwn(s, m, q)
        PROVE  Has(x, l, p)
    <3>1. m # l \/ q # p
      BY <2>3 DEF FreesOwn, Frees, Has
    <3> QED BY <1>2, <2>3, <3>1 DEF FreesOwn, Frees
  <2> QED BY <2>1, <2>2, <2>3 DEF SlotsQuiet
<1> QED BY <1>3, <1>4

\* Nor does it make x listen that did not.
LEMMA ListenedBefore ==
  ASSUME SocketInv, [SocketNext]_vars,
         NEW x \in Sockets, NEW l \in LobbyIds, NEW p \in ParticipantIds,
         Listens(x, l, p)', task[x].stage # "upgrading"
  PROVE  Listens(x, l, p)
<1> DEFINE Open == task[x].stage \in OpenStages /\ ~outbox[x].closed
<1>1. SocketTypeOK /\ Engaged /\ outbox \in [Sockets -> Outbox]
  BY DEF SocketInv, SocketTypeOK
<1>2. Has(x, l, p)' /\ task'[x].stage \in OpenStages /\ ~outbox'[x].closed
  BY DEF Listens
<1>3. Has(x, l, p) /\ task[x].stage \in RegisteredStages
  BY <1>2, HadSlot DEF SocketInv, ConnectionsOwned
<1>4. Inactive("done").stage = "done"
  BY DEF Inactive
<1>5. ASSUME UNCHANGED <<task, outbox>> PROVE Open
  BY <1>2, <1>5
<1>6. ASSUME NEW s \in Sockets, OnlyTask(s), UNCHANGED outbox,
             task[s].stage \in OpenStages \/ task'[s].stage \notin OpenStages
      PROVE  Open
  <2>1. ~outbox[x].closed
    BY <1>2, <1>6
  <2>2. task'[x] = task[x] \/ s = x
    BY <1>6 DEF OnlyTask
  <2>3. task[x].stage \in OpenStages
    BY <1>2, <1>6, <2>2
  <2> QED BY <2>1, <2>3
<1>7. ASSUME NEW s \in Sockets, OnlyTask(s), task'[s].stage \notin OpenStages,
             \E o : outbox' = [outbox EXCEPT ![s] = o]
      PROVE  Open
  <2>1. x # s
    BY <1>2, <1>7
  <2> QED BY <1>1, <1>2, <1>7, <2>1 DEF OnlyTask
<1>8. ASSUME NEW s \in Sockets, NEW m \in LobbyIds, NEW q \in ParticipantIds,
             NEW t \in Tokens, Upgrade(s, m, q, t)
      PROVE  Open
  <2>1. OnlyTask(s) /\ task'[s].stage = "upgrading" /\ UNCHANGED outbox
    BY <1>1, <1>8, UpgradeEffect DEF Upgrade
  <2> QED BY <1>6, <2>1, StagesKnown
<1>9. ASSUME NEW s \in Sockets, Register(s) PROVE Open
  <2>1. s # x
    BY <1>9 DEF Register
  <2>2. PICK m, q : m = task[s].lobby /\ q = task[s].participant
    OBVIOUS
  <2>3. OnlyTask(s) /\ UNCHANGED outbox
    BY <1>1, <1>9, <2>2, RegisterTask
  <2> QED BY <1>2, <2>1, <2>3 DEF OnlyTask
<1>10. ASSUME NEW s \in Sockets, RefuseRegistration(s) PROVE Open
  BY <1>1, <1>4, <1>6, <1>10, RefuseEffect, StagesKnown
<1>11. ASSUME NEW s \in Sockets, FailGreeting(s) PROVE Open
  BY <1>1, <1>4, <1>7, <1>11, FailGreetingEffect, StagesKnown
<1>12. ASSUME NEW s \in Sockets, Greet(s) PROVE Open
  BY <1>1, <1>6, <1>12, GreetEffect, StagesKnown
<1>13. ASSUME NEW s \in Sockets, ObserveCancel(s) \/ Break(s) PROVE Open
  BY <1>1, <1>7, <1>13, LeaveEffect, StagesKnown
<1>14. ASSUME NEW s \in Sockets, NEW q \in ParticipantIds, Relay(s, q) PROVE Open
  BY <1>1, <1>6, <1>14, RelayEffect, StagesKnown
<1>15. ASSUME NEW s \in Sockets, Unregister(s) PROVE Open
  <2>1. OnlyTask(s) /\ task'[s].stage \in {"done", "farewell"} /\ UNCHANGED outbox
    BY <1>1, <1>4, <1>15, UnregisterTask
  <2> QED BY <1>6, <2>1, StagesKnown
<1>16. ASSUME NEW s \in Sockets, Deliver(s) PROVE Open
  <2>1. /\ UNCHANGED task
        /\ outbox' = [outbox EXCEPT ![s] = [outbox[s] EXCEPT !.queue = Tail(outbox[s].queue)]]
    BY <1>16, DeliverEffect
  <2>2. outbox'[x].closed = outbox[x].closed
    BY <1>1, <2>1 DEF Outbox
  <2> QED BY <1>2, <2>1, <2>2
<1>17. ASSUME NEW s \in Sockets, NEW c \in task[s].outgoing, Send(s, c) PROVE Open
  <2>1. /\ OnlyTask(s)
        /\ task'[s] = Inactive("done") \/ task'[s].stage = task[s].stage
             \/ task[s].stage \in {"replacing", "announcing", "relaying"}
        /\ c \in Command
        /\ outbox' = [outbox EXCEPT ![c.to] = Sent(c)] \/ UNCHANGED outbox
    BY <1>1, <1>17, SendEffect
  <2>2. task[x].stage \in OpenStages
    BY <1>2, <1>4, <2>1, StagesKnown DEF OnlyTask
  <2>3. ~outbox[x].closed
    BY <1>1, <1>2, <2>1, SentToOpen
  <2> QED BY <2>2, <2>3
<1>18. UNCHANGED vars \/ (ServiceStep /\ UNCHANGED socketVars) => UNCHANGED <<task, outbox>>
  BY DEF vars, socketVars
<1> HIDE DEF Open
<1>19. ASSUME NEW s \in Sockets, SocketStep(s) PROVE Open
  BY <1>8, <1>9, <1>10, <1>11, <1>12, <1>13, <1>14, <1>15, <1>16, <1>17, <1>19
     DEF SocketStep, TaskProgress
<1>20. Open
  <2>1. CASE UNCHANGED <<task, outbox>>
    BY <1>5, <2>1 DEF Open
  <2> QED BY <1>18, <1>19, <2>1 DEF SocketNext
<1> QED BY <1>3, <1>20 DEF Open, Listens

-------------------------------------------------------------------------------
(* What a queue makes of a roster.                                          *)

Report(kind, q) == [kind |-> kind, from |-> q]

\* Whether q will be in the roster that is `known` now, once the queue is read.
Expected(queue, known, q) ==
  \/ \E i \in DOMAIN queue :
       /\ queue[i] = Report("connected", q)
       /\ \A j \in DOMAIN queue : j > i => queue[j] # Report("disconnected", q)
  \/ q \in known /\ \A j \in DOMAIN queue : queue[j] # Report("disconnected", q)

\* An empty queue leaves the roster as it is.
LEMMA ExpectedEmpty ==
  ASSUME NEW known, NEW q
  PROVE  Expected(<<>>, known, q) <=> q \in known
<1> DEFINE empty == <<>>
<1>1. empty \in Seq(Frame) /\ Len(empty) = 0
  OBVIOUS
<1> HIDE DEF empty
<1>2. DOMAIN empty = {}
  BY <1>1
<1> QED BY <1>2 DEF Expected, empty

\* Reports on different things, or participants, are different.
LEMMA ReportsDiffer ==
  ASSUME NEW q
  PROVE  Report("connected", q) # Report("disconnected", q)
<1>1. Report("connected", q).kind # Report("disconnected", q).kind
  BY DEF Report
<1> QED BY <1>1

\* A frame that is queued counts last.
LEMMA ExpectedAppend ==
  ASSUME NEW queue \in Seq(Frame), NEW f \in Frame, NEW known, NEW q
  PROVE  Expected(Append(queue, f), known, q) <=>
           \/ f = Report("connected", q)
           \/ f # Report("disconnected", q) /\ Expected(queue, known, q)
<1> DEFINE longer == Append(queue, f)
           n == Len(queue)
<1>1. /\ n \in Nat
      /\ DOMAIN queue = 1 .. n
      /\ DOMAIN longer = 1 .. (n + 1)
      /\ \A i \in 1 .. n : longer[i] = queue[i]
      /\ longer[n + 1] = f
  OBVIOUS
<1> HIDE DEF longer, n
<1>2. CASE f = Report("connected", q)
  <2>1. /\ n + 1 \in DOMAIN longer
        /\ longer[n + 1] = Report("connected", q)
        /\ \A j \in DOMAIN longer : ~(j > n + 1)
    BY <1>1, <1>2
  <2> QED BY <1>2, <2>1 DEF Expected, longer
<1>3. CASE f = Report("disconnected", q)
  <2>1. \A i \in DOMAIN longer : i # n + 1 => n + 1 > i
    BY <1>1
  <2>2. longer[n + 1] = Report("disconnected", q) /\ n + 1 \in DOMAIN longer
    BY <1>1, <1>3
  <2>3. ~Expected(longer, known, q)
    BY <2>1, <2>2, ReportsDiffer DEF Expected
  <2> QED BY <1>3, <2>3, ReportsDiffer DEF longer
<1>4. CASE f # Report("connected", q) /\ f # Report("disconnected", q)
  <2>1. Expected(longer, known, q) => Expected(queue, known, q)
    BY <1>1, <1>4 DEF Expected
  <2>2. Expected(queue, known, q) => Expected(longer, known, q)
    BY <1>1, <1>4 DEF Expected
  <2> QED BY <1>4, <2>1, <2>2 DEF longer
<1> QED BY <1>2, <1>3, <1>4

\* A frame that is read counts first.
LEMMA ExpectedRead ==
  ASSUME NEW queue \in Seq(Frame), queue # <<>>, NEW known, NEW q
  PROVE  Expected(Tail(queue), RosterAfter(known, Head(queue)), q)
           <=> Expected(queue, known, q)
<1> DEFINE shorter == Tail(queue)
           f == queue[1]
           n == Len(queue)
           after == RosterAfter(known, f)
<1>1. /\ n \in Nat \ {0}
      /\ DOMAIN queue = 1 .. n
      /\ DOMAIN shorter = 1 .. (n - 1)
      /\ \A i \in 1 .. (n - 1) : shorter[i] = queue[i + 1]
      /\ f \in Frame
      /\ f = Head(queue)
  OBVIOUS
<1>2. /\ f = Report("connected", q) => q \in after
      /\ f = Report("disconnected", q) => q \notin after
      /\ f # Report("connected", q) /\ f # Report("disconnected", q)
           => (q \in after <=> q \in known)
  <2>1. f \in [kind : Kinds, from : ParticipantIds]
    BY <1>1 DEF Frame
  <2>2. f.kind \in {"connected", "disconnected", "signal"}
    BY <2>1 DEF Kinds
  <2>3. f = Report(f.kind, f.from)
    BY <2>1 DEF Report
  <2>4. \A k, r : f = Report(k, r) => f.kind = k /\ f.from = r
    BY DEF Report
  <2> HIDE DEF f
  <2> QED BY <2>2, <2>3, <2>4, ReportsDiffer DEF RosterAfter
<1> HIDE DEF shorter, f, n, after
<1>3. f = queue[1]
  BY DEF f
<1>4. \A i \in 1 .. n : i = 1 \/ (i - 1 \in 1 .. (n - 1) /\ shorter[i - 1] = queue[i])
  BY <1>1
<1>5. ASSUME Expected(queue, known, q) PROVE Expected(shorter, after, q)
  <2>1. CASE q \in known /\ \A j \in DOMAIN queue : queue[j] # Report("disconnected", q)
    BY <1>1, <1>2, <1>3, <2>1 DEF Expected
  <2>2. ASSUME NEW i \in 1 .. n, queue[i] = Report("connected", q),
               \A j \in 1 .. n : j > i => queue[j] # Report("disconnected", q)
        PROVE  Expected(shorter, after, q)
    <3>1. \A j \in 1 .. (n - 1) : j + 1 > i => shorter[j] # Report("disconnected", q)
      BY <1>1, <2>2
    <3>2. CASE i = 1
      <4>1. q \in after
        BY <1>2, <1>3, <2>2, <3>2
      <4> QED BY <1>1, <3>1, <3>2, <4>1 DEF Expected
    <3>3. CASE i # 1
      <4>1. i - 1 \in 1 .. (n - 1) /\ shorter[i - 1] = Report("connected", q)
        BY <1>4, <2>2, <3>3
      <4>2. \A j \in 1 .. (n - 1) : j > i - 1 => shorter[j] # Report("disconnected", q)
        BY <3>1
      <4> QED BY <1>1, <4>1, <4>2 DEF Expected
    <3> QED BY <3>2, <3>3
  <2> QED BY <1>1, <1>5, <2>1, <2>2 DEF Expected
<1>6. ASSUME Expected(shorter, after, q) PROVE Expected(queue, known, q)
  <2>1. ASSUME NEW i \in 1 .. (n - 1), shorter[i] = Report("connected", q),
               \A j \in 1 .. (n - 1) : j > i => shorter[j] # Report("disconnected", q)
        PROVE  Expected(queue, known, q)
    <3>1. i + 1 \in 1 .. n /\ queue[i + 1] = Report("connected", q)
      BY <1>1, <2>1
    <3>2. \A j \in 1 .. n : j > i + 1 => queue[j] # Report("disconnected", q)
      BY <1>1, <1>4, <2>1
    <3> QED BY <1>1, <3>1, <3>2 DEF Expected
  <2>2. CASE q \in after /\ \A j \in 1 .. (n - 1) : shorter[j] # Report("disconnected", q)
    <3>1. f # Report("disconnected", q)
      BY <1>2, <2>2
    <3>2. \A j \in 1 .. n : queue[j] # Report("disconnected", q)
      BY <1>3, <1>4, <2>2, <3>1
    <3>3. q \in known \/ (1 \in 1 .. n /\ queue[1] = Report("connected", q))
      BY <1>1, <1>2, <1>3, <2>2, <3>1
    <3> QED BY <1>1, <3>2, <3>3 DEF Expected
  <2> QED BY <1>1, <1>6, <2>1, <2>2 DEF Expected
<1> QED BY <1>1, <1>5, <1>6 DEF shorter, after

-------------------------------------------------------------------------------
(* What a browser will believe.                                             *)

\* The task t has still to send s a report on q; some task has.
Owes(t, s, q, kind) == [to |-> s, what |-> Report(kind, q)] \in task[t].outgoing
Pending(s, q, kind) == \E t \in Sockets : Owes(t, s, q, kind)

\* No report on q went astray.
Clear(q) == \A m \in Mishaps : <<q, m>> \notin blurred

\* What the queue of s will make of its roster.
Told(s, q) == Expected(outbox[s].queue, roster[s], q)

\* The browser of s, in the lobby l, will believe the truth about q once the
\* reports still to be sent to it have been queued.
Correct(s, l, q) ==
  /\ Occupied(l, q) =>
       (Told(s, q) \/ Pending(s, q, "connected")) /\ ~Pending(s, q, "disconnected")
  /\ ~Occupied(l, q) =>
       (~Told(s, q) \/ Pending(s, q, "disconnected")) /\ ~Pending(s, q, "connected")

ListenersInformed ==
  \A s \in Sockets, l \in LobbyIds, p \in ParticipantIds : \A q \in ParticipantIds \ {p} :
    Listens(s, l, p) /\ Clear(q) => Correct(s, l, q)

\* The inductive invariant of the rosters.
RosterInv ==
  /\ SocketInv
  /\ RosterTypeOK
  /\ CommandsInOrder
  /\ OutboxesFresh
  /\ ListenersInformed

\* A mishap is never forgotten, and one that happens is noted.
LEMMA BlurNotes ==
  ASSUME NEW q, NEW m \in Mishaps, NEW happened \in BOOLEAN, Blur(q, m, happened)
  PROVE  /\ \A r : Clear(r)' => Clear(r)
         /\ happened => ~Clear(q)'
BY DEF Blur, Clear

\* A report still to be sent is owed by a task of the participant, in the same
\* lobby, at a stage that goes with the report.
LEMMA OwesKnown ==
  ASSUME SocketInv, CommandsInOrder, NEW t \in Sockets, NEW s \in Sockets,
         NEW q \in ParticipantIds, NEW kind \in {"connected", "disconnected"},
         Owes(t, s, q, kind)
  PROVE  /\ task[t].participant = q
         /\ task[s].stage \notin {"idle", "upgrading"}
         /\ task[s].stage # "done" => task[s].lobby = task[t].lobby
         /\ kind = "connected" => task[t].stage \in {"replacing", "greeting", "announcing"}
         /\ kind = "disconnected" => task[t].stage = "farewell"
<1> DEFINE c == [to |-> s, what |-> Report(kind, q)]
<1>1. /\ c \in task[t].outgoing
      /\ c.to = s
      /\ c.what.kind = kind
      /\ c.what.from = q
  BY DEF Owes, Report
<1>2. c.what # Close
  BY <1>1, StagesKnown
<1>3. InOrder(t, c)
  BY <1>1 DEF CommandsInOrder
<1> HIDE DEF c
<1> QED BY <1>1, <1>2, <1>3 DEF InOrder

\* The reports still to be sent stay the same if those of one task do.
LEMMA PendingSame ==
  ASSUME NEW t \in Sockets, OnlyTask(t), NEW s, NEW q, NEW kind,
         Owes(t, s, q, kind)' <=> Owes(t, s, q, kind)
  PROVE  Pending(s, q, kind)' <=> Pending(s, q, kind)
<1>1. \A u \in Sockets : Owes(u, s, q, kind)' <=> Owes(u, s, q, kind)
  BY DEF Owes, OnlyTask
<1> QED BY <1>1 DEF Pending

\* What a task that sends nothing of its own says about the reports.
LEMMA NoneOwed ==
  ASSUME NEW t, task[t].outgoing = {}
  PROVE  \A s, q, kind : ~Owes(t, s, q, kind)
BY DEF Owes

\* A step that changes neither the slot of q nor what is on its way about q
\* keeps the browser of s right about q.
LEMMA CorrectSame ==
  ASSUME ListenersInformed,
         NEW s \in Sockets, NEW l \in LobbyIds, NEW p \in ParticipantIds,
         NEW q \in ParticipantIds \ {p}, Listens(s, l, p), Clear(q),
         Occupied(l, q)' <=> Occupied(l, q),
         Told(s, q)' <=> Told(s, q),
         \A kind \in {"connected", "disconnected"} :
           Pending(s, q, kind)' <=> Pending(s, q, kind)
  PROVE  Correct(s, l, q)'
<1>1. Correct(s, l, q)
  BY DEF ListenersInformed
<1>2. /\ Pending(s, q, "connected")' <=> Pending(s, q, "connected")
      /\ Pending(s, q, "disconnected")' <=> Pending(s, q, "disconnected")
  OBVIOUS
<1> QED BY <1>1, <1>2 DEF Correct

\* Whether a slot is occupied, when others are written or none.
LEMMA OccupiedElsewhere ==
  ASSUME NEW l \in LobbyIds, NEW q \in ParticipantIds, NEW m, NEW p,
         OtherSlotsStay(m, p), l # m \/ q # p
  PROVE  Occupied(l, q)' <=> Occupied(l, q)
BY DEF OtherSlotsStay, Occupied, Taken, SlotAt

\* What the service does to a lobby some socket listens in.
LEMMA ServiceSpares ==
  ASSUME TypeOK, [ServiceStep]_storeVars,
         NEW s, NEW l \in LobbyIds, NEW p \in ParticipantIds, Has(s, l, p)',
         NEW q \in ParticipantIds
  PROVE  Occupied(l, q)' <=> Occupied(l, q)
<1>1. ServiceOnly
  BY ServiceEffect
<1>2. ~Goes(l)
  BY DEF Goes, Has
<1>3. Stays(l)
  BY <1>1, <1>2 DEF ServiceOnly
<1> QED BY <1>3 DEF Stays, Occupied, Taken, SlotAt, Fresh

-------------------------------------------------------------------------------
(* What each action does to a browser's view of a participant.              *)

\* Requests and sweeps.
LEMMA ServiceInforms ==
  ASSUME RosterInv, ServiceStep, UNCHANGED <<socketVars, rosterVars>>,
         NEW s \in Sockets, NEW l \in LobbyIds, NEW p \in ParticipantIds,
         NEW q \in ParticipantIds \ {p}, Listens(s, l, p), Listens(s, l, p)', Clear(q)
  PROVE  Correct(s, l, q)'
<1>1. Occupied(l, q)' <=> Occupied(l, q)
  BY ServiceSpares DEF RosterInv, SocketInv, SocketTypeOK, Listens
<1>2. Told(s, q)' <=> Told(s, q)
  BY DEF Told, socketVars, rosterVars
<1>3. \A kind \in {"connected", "disconnected"} :
        Pending(s, q, kind)' <=> Pending(s, q, kind)
  BY DEF Pending, Owes, socketVars
<1> QED BY <1>1, <1>2, <1>3, CorrectSame DEF RosterInv

\* The steps that tell nothing about others.
LEMMA SilentInforms ==
  ASSUME RosterInv, NEW t \in Sockets, SilentStep(t), UNCHANGED rosterVars,
         NEW s \in Sockets, NEW l \in LobbyIds, NEW p \in ParticipantIds,
         NEW q \in ParticipantIds \ {p}, Listens(s, l, p), Listens(s, l, p)', Clear(q)
  PROVE  Correct(s, l, q)'
<1> DEFINE Quiet == /\ [ServiceStep]_storeVars
                    /\ OnlyTask(t)
                    /\ \A kind \in {"connected", "disconnected"} :
                         Owes(t, s, q, kind)' <=> Owes(t, s, q, kind)
                    /\ outbox'[s] = outbox[s]
<1>1. /\ SocketTypeOK /\ Engaged /\ SocketInv /\ CommandsInOrder
      /\ outbox \in [Sockets -> Outbox]
  BY DEF RosterInv, SocketInv, SocketTypeOK
<1>2. ASSUME NEW m \in LobbyIds, NEW r \in ParticipantIds, NEW u \in Tokens,
             Upgrade(t, m, r, u)
      PROVE  Quiet
  <2>1. /\ OnlyTask(t)
        /\ task[t].stage = "idle"
        /\ task'[t].outgoing = {}
        /\ UNCHANGED <<storeVars, outbox>>
    BY <1>1, <1>2, UpgradeEffect DEF Upgrade
  <2>2. task[t].outgoing = {}
    BY <1>1, <2>1, NothingToSend
  <2> QED BY <2>1, <2>2 DEF Owes
<1>3. ASSUME RefuseRegistration(t) PROVE Quiet
  <2>1. /\ OnlyTask(t)
        /\ task[t].stage = "upgrading"
        /\ task'[t].outgoing = {}
        /\ ServiceStep
        /\ UNCHANGED outbox
    BY <1>1, <1>3, RefuseEffect DEF Inactive
  <2>2. task[t].outgoing = {}
    BY <1>1, <2>1, NothingToSend
  <2> QED BY <2>1, <2>2 DEF Owes
<1>4. ASSUME Greet(t) PROVE Quiet
  BY <1>1, <1>4, GreetEffect DEF Owes
<1>5. ASSUME ObserveCancel(t) \/ Break(t) PROVE Quiet
  <2>1. /\ OnlyTask(t)
        /\ task'[t].stage = "leaving"
        /\ task'[t].outgoing = task[t].outgoing
        /\ outbox' = [outbox EXCEPT ![t] = EmptyOutbox]
        /\ UNCHANGED storeVars
    BY <1>1, <1>5, LeaveEffect
  <2>2. t # s
    BY <2>1, StagesKnown DEF Listens
  <2>3. outbox'[s] = outbox[s]
    BY <1>1, <2>1, <2>2
  <2> QED BY <2>1, <2>3 DEF Owes
<1>6. ASSUME NEW r \in ParticipantIds, Relay(t, r) PROVE Quiet
  <2>1. /\ OnlyTask(t)
        /\ task[t].stage = "serving"
        /\ task'[t].outgoing
             = [to : {SenderAt(task[t].lobby, r)}, what : {Announcement(t, "signal")}]
        /\ UNCHANGED <<storeVars, outbox>>
    BY <1>1, <1>6, RelayEffect
  <2>2. task[t].outgoing = {}
    BY <1>1, <2>1, NothingToSend
  <2>3. Announcement(t, "signal").kind = "signal"
    BY <1>1, <2>1, AnnouncementType DEF Kinds
  <2>4. \A kind \in {"connected", "disconnected"} :
          [to |-> s, what |-> Report(kind, q)].what.kind = kind
    BY DEF Report
  <2>5. \A c \in task'[t].outgoing : c.what.kind = "signal"
    BY <2>1, <2>3
  <2>6. \A kind \in {"connected", "disconnected"} : ~Owes(t, s, q, kind)'
    BY <2>4, <2>5 DEF Owes
  <2> QED BY <2>1, <2>2, <2>6 DEF Owes
<1> HIDE DEF Quiet
<1>7. Quiet
  BY <1>2, <1>3, <1>4, <1>5, <1>6 DEF SilentStep
<1>8. Occupied(l, q)' <=> Occupied(l, q)
  BY <1>1, <1>7, ServiceSpares DEF SocketTypeOK, Listens, Quiet
<1>9. Told(s, q)' <=> Told(s, q)
  BY <1>7 DEF Told, rosterVars, Quiet
<1>10. \A kind \in {"connected", "disconnected"} :
         Pending(s, q, kind)' <=> Pending(s, q, kind)
  BY <1>7, PendingSame DEF Quiet
<1> QED BY <1>8, <1>9, <1>10, CorrectSame DEF RosterInv

\* A socket that registers is told who is connected.
LEMMA NewcomerInformed ==
  ASSUME RosterInv, NEW s \in Sockets, RosterRegister(s),
         NEW l \in LobbyIds, NEW p \in ParticipantIds,
         NEW q \in ParticipantIds \ {p}, Listens(s, l, p)'
  PROVE  Correct(s, l, q)'
<1>1. SocketTypeOK /\ Engaged /\ SocketInv /\ CommandsInOrder /\ Register(s)
  BY DEF RosterInv, SocketInv, RosterRegister
<1>2. PICK m \in LobbyIds, r \in ParticipantIds : m = task[s].lobby /\ r = task[s].participant
  BY <1>1 DEF Register, Engaged
<1>3. /\ OnlyTask(s)
      /\ task[s].stage = "upgrading"
      /\ task'[s].outgoing
           = [to : Replaced(task[s]), what : {Close}]
               \cup [to : ConnectedPeers(task[s]), what : {Announcement(s, "connected")}]
      /\ Takes(m, r, s)
      /\ lobbies[m] # None
      /\ UNCHANGED outbox
  BY <1>1, <1>2, RegisterTask
<1>4. l = m /\ p = r
  <2>1. ASSUME l # m \/ p # r PROVE FALSE
    <3>1. Has(s, l, p)
      BY <1>3, <2>1 DEF Takes, OtherSlotsStay, Listens, Has, Occupied, Taken, SenderAt, SlotAt
    <3> QED BY <1>1, <1>3, <3>1 DEF SocketInv, ConnectionsOwned, RegisteredStages
  <2> QED BY <2>1
<1>5. Occupied(l, q)' <=> Occupied(l, q)
  BY <1>3, <1>4, OccupiedElsewhere DEF Takes
<1>6. Told(s, q)' <=> Occupied(l, q)
  <2>1. outbox'[s].queue = <<>>
    BY <1>3 DEF RosterInv, OutboxesFresh, EmptyOutbox
  <2>2. roster'[s] = Connected(lobbies[l]) \cup {p}
    BY <1>2, <1>4 DEF RosterRegister, RosterInv, RosterTypeOK
  <2>3. q \in roster'[s] <=> Occupied(l, q)
    BY <1>3, <1>4, <2>2 DEF Connected, Members, Occupied
  <2> QED BY <2>1, <2>3, ExpectedEmpty DEF Told
<1>7. ASSUME NEW t \in Sockets, NEW kind \in {"connected", "disconnected"}
      PROVE  ~Owes(t, s, q, kind)'
  <2>1. CASE t = s
    <3>1. s \notin ConnectedPeers(task[s]) \cup Replaced(task[s])
      BY <1>1, <1>2, <1>3, PeersRegistered DEF RegisteredStages
    <3>2. \A c \in task'[s].outgoing : c.to # s
      BY <1>3, <3>1
    <3>3. [to |-> s, what |-> Report(kind, q)].to = s
      OBVIOUS
    <3> QED BY <2>1, <3>2, <3>3 DEF Owes
  <2>2. CASE t # s
    <3>1. ~Owes(t, s, q, kind)
      BY <1>1, <1>3, OwesKnown
    <3> QED BY <1>3, <2>2, <3>1 DEF Owes, OnlyTask
  <2> QED BY <2>1, <2>2
<1>8. ~Pending(s, q, "connected")' /\ ~Pending(s, q, "disconnected")'
  BY <1>7 DEF Pending
<1> QED BY <1>5, <1>6, <1>8 DEF Correct

\* The others are told of it, unless a farewell of the same participant is still
\* on its way.
LEMMA RegistrationInforms ==
  ASSUME RosterInv, NEW t \in Sockets, RosterRegister(t),
         NEW s \in Sockets, s # t, NEW l \in LobbyIds, NEW p \in ParticipantIds,
         NEW q \in ParticipantIds \ {p},
         Listens(s, l, p), Listens(s, l, p)', Clear(q), Clear(q)'
  PROVE  Correct(s, l, q)'
<1>1. SocketTypeOK /\ Engaged /\ SocketInv /\ CommandsInOrder /\ Register(t)
  BY DEF RosterInv, SocketInv, RosterRegister
<1>2. PICK m \in LobbyIds, r \in ParticipantIds : m = task[t].lobby /\ r = task[t].participant
  BY <1>1 DEF Register, Engaged
<1>3. /\ OnlyTask(t)
      /\ task[t].stage = "upgrading"
      /\ task'[t].outgoing
           = [to : Replaced(task[t]), what : {Close}]
               \cup [to : ConnectedPeers(task[t]), what : {Announcement(t, "connected")}]
      /\ Takes(m, r, t)
      /\ lobbies[m] # None
      /\ UNCHANGED outbox
  BY <1>1, <1>2, RegisterTask
<1>4. task[t].outgoing = {}
  BY <1>1, <1>3, NothingToSend
<1>5. /\ Announcement(t, "connected") = Report("connected", r)
      /\ Announcement(t, "connected") # Close
  BY <1>1, <1>2, <1>3, AnnouncementType DEF Kinds, Announcement, Report
<1>6. \A kind, x :
        /\ Report(kind, x).kind = kind /\ Report(kind, x).from = x
        /\ Report(kind, x) # Close
  BY DEF Report, Close
<1>7. Told(s, q)' <=> Told(s, q)
  <2>1. roster'[s] = roster[s]
    BY DEF RosterRegister, RosterInv, RosterTypeOK
  <2> QED BY <1>3, <2>1 DEF Told
<1>8. Pending(s, q, "disconnected")' <=> Pending(s, q, "disconnected")
  <2>1. ~Owes(t, s, q, "disconnected")'
    BY <1>3, <1>5, <1>6 DEF Owes
  <2> QED BY <1>3, <1>4, <2>1, PendingSame DEF Owes
<1>9. CASE l # m \/ q # r
  <2>1. Occupied(l, q)' <=> Occupied(l, q)
    BY <1>3, <1>9, OccupiedElsewhere DEF Takes
  <2>2. ~Owes(t, s, q, "connected")'
    <3>1. ASSUME Owes(t, s, q, "connected")' PROVE FALSE
      <4>1. s \in ConnectedPeers(task[t]) /\ Report("connected", q) = Report("connected", r)
        BY <1>3, <1>5, <1>6, <3>1 DEF Owes
      <4>2. q = r
        BY <1>6, <4>1
      <4>3. task[s].lobby = m
        BY <1>1, <1>2, <1>3, <4>1, PeersRegistered
      <4>4. task[s].lobby = l
        BY <1>1 DEF Listens, SocketInv, ConnectionsOwned
      <4> QED BY <1>9, <4>2, <4>3, <4>4
    <3> QED BY <3>1
  <2>3. Pending(s, q, "connected")' <=> Pending(s, q, "connected")
    BY <1>3, <1>4, <2>2, PendingSame DEF Owes
  <2> QED BY <1>7, <1>8, <2>1, <2>3, CorrectSame DEF RosterInv
<1>10. CASE l = m /\ q = r
  <2>1. Occupied(l, q)'
    BY <1>3, <1>10 DEF Takes
  <2>2. Pending(s, q, "connected")'
    <3>1. s \in ConnectedPeers(task[t])
      BY <1>2, <1>10, PeersAre DEF Listens
    <3>2. Owes(t, s, q, "connected")'
      BY <1>3, <1>5, <1>10, <3>1 DEF Owes
    <3> QED BY <3>2 DEF Pending
  <2>3. ~Pending(s, q, "disconnected")
    <3>1. ASSUME NEW u \in Sockets, Owes(u, s, q, "disconnected") PROVE FALSE
      <4>1. task[u].stage = "farewell" /\ task[u].participant = q
        BY <1>1, <3>1, OwesKnown
      <4>2. task[s].lobby = l /\ task[s].stage # "done"
        BY <1>1, StagesKnown DEF Listens, SocketInv, ConnectionsOwned
      <4>3. task[u].lobby = l
        BY <1>1, <3>1, <4>2, OwesKnown
      <4>4. Reporting(t, {"farewell"})
        BY <1>2, <1>3, <1>10, <4>1, <4>3 DEF Reporting
      <4>5. blurred' = blurred \cup {<<q, "overtaken">>}
        BY <1>2, <1>10, <4>4 DEF RosterRegister, Blur
      <4> QED BY <4>5 DEF Clear, Mishaps
    <3> QED BY <3>1 DEF Pending
  <2> QED BY <1>8, <2>1, <2>2, <2>3 DEF Correct
<1> QED BY <1>9, <1>10

\* A greeting that fails is not reported: its participant is blurred, and
\* nobody else is concerned.
LEMMA FailureInforms ==
  ASSUME RosterInv, NEW t \in Sockets, RosterFailGreeting(t),
         NEW s \in Sockets, NEW l \in LobbyIds, NEW p \in ParticipantIds,
         NEW q \in ParticipantIds \ {p},
         Listens(s, l, p), Listens(s, l, p)', Clear(q), Clear(q)'
  PROVE  Correct(s, l, q)'
<1>1. SocketTypeOK /\ Engaged /\ SocketInv /\ CommandsInOrder /\ FailGreeting(t)
  BY DEF RosterInv, SocketInv, RosterFailGreeting
<1>2. PICK m \in LobbyIds, r \in ParticipantIds : m = task[t].lobby /\ r = task[t].participant
  BY <1>1 DEF FailGreeting, Engaged
<1>3. /\ OnlyTask(t)
      /\ task[t].stage = "greeting"
      /\ Unregistered(t)
      /\ task'[t] = Inactive("done")
      /\ outbox' = [outbox EXCEPT ![t] = EmptyOutbox]
  BY <1>1, FailGreetingEffect
<1>4. task'[t].stage = "done" /\ task'[t].outgoing = {}
  BY <1>3 DEF Inactive
<1>5. t # s
  BY <1>4, StagesKnown DEF Listens
<1>6. q # r
  <2>1. blurred' = blurred \cup {<<r, "unannounced">>}
    BY <1>2 DEF RosterFailGreeting, Blur
  <2> QED BY <2>1 DEF Clear, Mishaps
<1>7. Occupied(l, q)' <=> Occupied(l, q)
  <2>1. Frees(m, r) \/ UNCHANGED storeVars
    BY <1>1, <1>2, <1>3, UnregisteredEffect
  <2>2. CASE Frees(m, r)
    BY <1>6, <2>2, OccupiedElsewhere DEF Frees
  <2>3. CASE UNCHANGED storeVars
    BY <2>3 DEF storeVars, Occupied
  <2> QED BY <2>1, <2>2, <2>3
<1>8. Told(s, q)' <=> Told(s, q)
  <2>1. outbox'[s] = outbox[s] /\ roster'[s] = roster[s]
    BY <1>1, <1>3, <1>5 DEF SocketTypeOK, RosterFailGreeting, RosterInv, RosterTypeOK
  <2> QED BY <2>1 DEF Told
<1>9. ASSUME NEW kind \in {"connected", "disconnected"}
      PROVE  Pending(s, q, kind)' <=> Pending(s, q, kind)
  <2>1. ~Owes(t, s, q, kind)
    BY <1>1, <1>2, <1>6, OwesKnown
  <2>2. ~Owes(t, s, q, kind)'
    BY <1>4 DEF Owes
  <2> QED BY <1>3, <2>1, <2>2, PendingSame
<1> QED BY <1>7, <1>8, <1>9, CorrectSame DEF RosterInv

\* Those still connected are told of a socket that leaves its slot, unless a new
\* one of the same participant reports itself at the same time.
LEMMA UnregistrationInforms ==
  ASSUME RosterInv, NEW t \in Sockets, RosterUnregister(t),
         NEW s \in Sockets, NEW l \in LobbyIds, NEW p \in ParticipantIds,
         NEW q \in ParticipantIds \ {p},
         Listens(s, l, p), Listens(s, l, p)', Clear(q), Clear(q)'
  PROVE  Correct(s, l, q)'
<1> DEFINE current == IsCurrent(task[t].lobby, task[t].participant, task[t].id)
           peers == IF current THEN ConnectedPeers(task[t]) ELSE {}
<1>1. SocketTypeOK /\ Engaged /\ SocketInv /\ CommandsInOrder /\ Unregister(t)
  BY DEF RosterInv, SocketInv, RosterUnregister
<1>2. PICK m \in LobbyIds, r \in ParticipantIds : m = task[t].lobby /\ r = task[t].participant
  BY <1>1 DEF Unregister, Engaged
<1>3. /\ OnlyTask(t)
      /\ task[t].stage = "leaving"
      /\ Unregistered(t)
      /\ \/ task'[t] = Inactive("done") /\ Farewells(t) = {}
         \/ task'[t].outgoing = Farewells(t)
      /\ Farewells(t) = [to : peers, what : {Announcement(t, "disconnected")}]
      /\ UNCHANGED outbox
  BY <1>1, UnregisterTask
<1>4. task[t].outgoing = {} /\ task'[t].outgoing = Farewells(t)
  <2>1. task[t].outgoing = {}
    BY <1>1, <1>3, NothingToSend
  <2>2. Inactive("done").outgoing = {}
    BY DEF Inactive
  <2>3. task'[t].outgoing = Farewells(t)
    BY <1>3, <2>2
  <2> QED BY <2>1, <2>3
<1>5. Announcement(t, "disconnected") = Report("disconnected", r)
  BY <1>2 DEF Announcement, Report
<1>6. \A kind, x : Report(kind, x).kind = kind /\ Report(kind, x).from = x
  BY DEF Report
<1>7. \/ current /\ Frees(m, r)
      \/ ~current /\ UNCHANGED storeVars
  <2>1. current <=> IsCurrent(m, r, task[t].id)
    BY <1>2
  <2>2. \/ Frees(m, r) /\ IsCurrent(m, r, task[t].id)
        \/ ~IsCurrent(m, r, task[t].id) /\ UNCHANGED storeVars
    BY <1>1, <1>2, <1>3, UnregisteredEffect
  <2> HIDE DEF current
  <2> QED BY <2>1, <2>2
<1> HIDE DEF current
<1>8. Told(s, q)' <=> Told(s, q)
  <2>1. s # t
    BY <1>3, StagesKnown DEF Listens, OpenStages
  <2>2. roster'[s] = roster[s]
    BY <2>1 DEF RosterUnregister, RosterInv, RosterTypeOK
  <2> QED BY <1>3, <2>2 DEF Told
<1>9. Pending(s, q, "connected")' <=> Pending(s, q, "connected")
  <2>1. ~Owes(t, s, q, "connected")'
    BY <1>3, <1>4, <1>5, <1>6 DEF Owes
  <2> QED BY <1>3, <1>4, <2>1, PendingSame DEF Owes
<1>10. CASE l # m \/ q # r \/ ~current
  <2>1. Occupied(l, q)' <=> Occupied(l, q)
    <3>1. CASE current
      BY <1>7, <1>10, <3>1, OccupiedElsewhere DEF Frees
    <3>2. CASE ~current
      BY <1>7, <3>2 DEF storeVars, Occupied
    <3> QED BY <3>1, <3>2
  <2>2. ~Owes(t, s, q, "disconnected")'
    <3>1. ASSUME Owes(t, s, q, "disconnected")' PROVE FALSE
      <4>1. s \in peers /\ Report("disconnected", q) = Report("disconnected", r)
        BY <1>3, <1>4, <1>5, <3>1 DEF Owes
      <4>2. q = r /\ current /\ s \in ConnectedPeers(task[t])
        BY <1>6, <4>1
      <4>3. lobbies[m] # None
        BY <1>2, <4>2 DEF current, IsCurrent
      <4>4. task[s].lobby = m
        BY <1>1, <1>2, <4>2, <4>3, PeersRegistered
      <4>5. task[s].lobby = l
        BY <1>1 DEF Listens, SocketInv, ConnectionsOwned
      <4> QED BY <1>10, <4>2, <4>4, <4>5
    <3> QED BY <3>1
  <2>3. Pending(s, q, "disconnected")' <=> Pending(s, q, "disconnected")
    BY <1>3, <1>4, <2>2, PendingSame DEF Owes
  <2> QED BY <1>8, <1>9, <2>1, <2>3, CorrectSame DEF RosterInv
<1>11. CASE l = m /\ q = r /\ current
  <2>1. ~Occupied(l, q)'
    BY <1>7, <1>11 DEF Frees
  <2>2. Pending(s, q, "disconnected")'
    <3>1. s \in peers
      BY <1>2, <1>11, PeersAre DEF Listens
    <3>2. Owes(t, s, q, "disconnected")'
      BY <1>3, <1>4, <1>5, <1>11, <3>1 DEF Owes
    <3> QED BY <3>2 DEF Pending
  <2>3. ~Pending(s, q, "connected")
    <3>1. ASSUME NEW u \in Sockets, Owes(u, s, q, "connected") PROVE FALSE
      <4>1. /\ task[u].stage \in {"replacing", "greeting", "announcing"}
            /\ task[u].participant = q
        BY <1>1, <3>1, OwesKnown
      <4>2. task[s].lobby = l /\ task[s].stage # "done"
        BY <1>1, StagesKnown DEF Listens, SocketInv, ConnectionsOwned
      <4>3. task[u].lobby = l
        BY <1>1, <3>1, <4>2, OwesKnown
      <4>4. Reporting(t, {"replacing", "greeting", "announcing"})
        BY <1>2, <1>3, <1>11, <4>1, <4>3 DEF Reporting
      <4>5. blurred' = blurred \cup {<<q, "overtaken">>}
        BY <1>2, <1>11, <4>4 DEF RosterUnregister, Blur, current
      <4> QED BY <4>5 DEF Clear, Mishaps
    <3> QED BY <3>1 DEF Pending
  <2> QED BY <1>9, <2>1, <2>2, <2>3 DEF Correct
<1> QED BY <1>10, <1>11

\* A report that is sent is queued, or closes the outbox, or blurs its
\* participant.
LEMMA SendingInforms ==
  ASSUME RosterInv, NEW t \in Sockets, NEW c \in task[t].outgoing, RosterSend(t, c),
         NEW s \in Sockets, NEW l \in LobbyIds, NEW p \in ParticipantIds,
         NEW q \in ParticipantIds \ {p},
         Listens(s, l, p), Listens(s, l, p)', Clear(q), Clear(q)'
  PROVE  Correct(s, l, q)'
<1> DEFINE queue == outbox[s].queue
<1>1. /\ SocketTypeOK /\ Engaged /\ SocketInv /\ CommandsInOrder /\ Send(t, c)
      /\ outbox \in [Sockets -> Outbox]
  BY DEF RosterInv, SocketInv, RosterSend, SocketTypeOK
<1>2. /\ OnlyTask(t)
      /\ task[t].stage \in {"replacing", "announcing", "relaying", "farewell"}
      /\ task'[t].outgoing = task[t].outgoing \ {c}
      /\ outbox' = [outbox EXCEPT ![c.to] = Sent(c)] \/ UNCHANGED outbox
      /\ c.what = Close => outbox' = [outbox EXCEPT ![c.to] = Sent(c)]
      /\ c \in Command
      /\ UNCHANGED storeVars
  BY <1>1, SendEffect DEF Inactive
<1>3. Occupied(l, q)' <=> Occupied(l, q)
  BY <1>2 DEF storeVars, Occupied
<1>4. roster' = roster
  BY DEF RosterSend
<1>5. /\ c.what \in Frame \/ c.what = Close
      /\ c.to \in Sockets
      /\ InOrder(t, c)
      /\ c = [to |-> c.to, what |-> c.what]
  BY <1>1, <1>2, OutgoingType DEF CommandsInOrder, Command
<1>6. \A kind, x : /\ Report(kind, x).kind = kind /\ Report(kind, x).from = x
                   /\ Report(kind, x) # Close
  BY DEF Report, Close
<1>7. ASSUME NEW kind \in {"connected", "disconnected"},
             ~(c.to = s /\ c.what = Report(kind, q))
      PROVE  Pending(s, q, kind)' <=> Pending(s, q, kind)
  <2>1. [to |-> s, what |-> Report(kind, q)] # c
    BY <1>5, <1>7
  <2>2. Owes(t, s, q, kind)' <=> Owes(t, s, q, kind)
    BY <1>2, <2>1 DEF Owes
  <2> QED BY <1>2, <2>2, PendingSame
<1>8. ASSUME NEW kind, Pending(s, q, kind)' PROVE Pending(s, q, kind)
  BY <1>2, <1>8 DEF Pending, Owes, OnlyTask
<1>9. queue \in Seq(Frame)
  BY <1>1 DEF Outbox
<1>10. Correct(s, l, q)
  BY DEF RosterInv, ListenersInformed
<1>11. CASE outbox'[s] # outbox[s]
  \* The outbox of s is still open: the frame is in its queue.
  <2>1. /\ c.to = s
        /\ outbox' = [outbox EXCEPT ![s] = Sent(c)]
        /\ task[s].stage \in OpenStages
        /\ ~outbox[s].closed
    BY <1>1, <1>2, <1>11, SentToOpen
  <2>2. outbox'[s] = Sent(c) /\ ~outbox'[s].closed
    BY <1>1, <2>1 DEF Listens
  <2>3. c.what # Close /\ ~Full(outbox[s])
    <3>1. ASSUME c.what = Close \/ Full(outbox[s]) PROVE FALSE
      <4>1. Sent(c) = [outbox[s] EXCEPT !.closed = TRUE]
        BY <2>1, <3>1 DEF Sent
      <4>2. Sent(c).closed
        BY <1>1, <4>1 DEF Outbox
      <4> QED BY <2>2, <4>2
    <3> QED BY <3>1
  <2>4. outbox'[s] = [outbox[s] EXCEPT !.queue = Append(queue, c.what)]
    BY <2>1, <2>2, <2>3 DEF Sent
  <2>5. outbox'[s].queue = Append(queue, c.what)
    BY <1>1, <2>4 DEF Outbox
  <2>6. Told(s, q)' <=> \/ c.what = Report("connected", q)
                        \/ c.what # Report("disconnected", q) /\ Told(s, q)
    <3>1. Expected(Append(queue, c.what), roster[s], q) <=>
            \/ c.what = Report("connected", q)
            \/ c.what # Report("disconnected", q) /\ Expected(queue, roster[s], q)
      BY <1>5, <1>9, <2>3, ExpectedAppend
    <3> QED BY <1>4, <2>5, <3>1 DEF Told
  <2>7. CASE c.what = Report("connected", q)
    <3>1. Owes(t, s, q, "connected")
      BY <1>5, <2>1, <2>7 DEF Owes
    <3>2. Occupied(l, q) /\ ~Pending(s, q, "disconnected")
      BY <1>10, <3>1 DEF Correct, Pending
    <3>3. ~Pending(s, q, "disconnected")'
      BY <1>8, <3>2
    <3> QED BY <1>3, <2>6, <2>7, <3>2, <3>3 DEF Correct
  <2>8. CASE c.what = Report("disconnected", q)
    <3>1. Owes(t, s, q, "disconnected")
      BY <1>5, <2>1, <2>8 DEF Owes
    <3>2. ~Occupied(l, q) /\ ~Pending(s, q, "connected")
      BY <1>10, <3>1 DEF Correct, Pending
    <3>3. ~Pending(s, q, "connected")'
      BY <1>8, <3>2
    <3>4. ~Told(s, q)'
      BY <2>6, <2>8, ReportsDiffer
    <3> QED BY <1>3, <3>2, <3>3, <3>4 DEF Correct
  <2>9. CASE c.what # Report("connected", q) /\ c.what # Report("disconnected", q)
    <3>1. Told(s, q)' <=> Told(s, q)
      BY <2>6, <2>9
    <3>2. \A kind \in {"connected", "disconnected"} :
            Pending(s, q, kind)' <=> Pending(s, q, kind)
      BY <1>7, <2>9
    <3> QED BY <1>3, <3>1, <3>2, CorrectSame DEF RosterInv
  <2> QED BY <2>7, <2>8, <2>9
<1>12. CASE outbox'[s] = outbox[s]
  <2>1. Told(s, q)' <=> Told(s, q)
    BY <1>4, <1>12 DEF Told
  <2>2. ASSUME NEW kind \in {"connected", "disconnected"}
        PROVE  ~(c.to = s /\ c.what = Report(kind, q))
    <3> SUFFICES ASSUME c.to = s, c.what = Report(kind, q) PROVE FALSE
      OBVIOUS
    <3>1. task[t].participant = q
      BY <1>5, <1>6 DEF InOrder
    <3>2. c.what # Close /\ c.what.kind = kind
      BY <1>6
    <3>3. Sent(c) # outbox[c.to]
      <4>1. task[s].stage \in OpenStages /\ ~outbox[s].closed
        BY DEF Listens
      <4>2. CASE Full(outbox[s])
        <5>1. Sent(c) = [outbox[s] EXCEPT !.closed = TRUE]
          BY <4>1, <4>2 DEF Sent
        <5>2. Sent(c).closed
          BY <1>1, <5>1 DEF Outbox
        <5> QED BY <4>1, <5>2
      <4>3. CASE ~Full(outbox[s])
        <5>1. Sent(c) = [outbox[s] EXCEPT !.queue = Append(queue, c.what)]
          BY <3>2, <4>1, <4>3 DEF Sent
        <5>2. Sent(c).queue = Append(queue, c.what)
          BY <1>1, <5>1 DEF Outbox
        <5>3. Len(Append(queue, c.what)) # Len(queue)
          BY <1>5, <1>9, <3>2
        <5> QED BY <5>2, <5>3
      <4> QED BY <4>2, <4>3
    <3>4. outbox' = outbox
      BY <1>1, <1>2, <1>12, <3>3
    <3>5. blurred' = blurred \cup {<<q, "dropped">>}
      BY <3>1, <3>2, <3>3, <3>4 DEF RosterSend, Blur
    <3> QED BY <3>5 DEF Clear, Mishaps
  <2>3. \A kind \in {"connected", "disconnected"} :
          Pending(s, q, kind)' <=> Pending(s, q, kind)
    BY <1>7, <2>2
  <2> QED BY <1>3, <2>1, <2>3, CorrectSame DEF RosterInv
<1> QED BY <1>11, <1>12

\* A frame that is read goes from the queue into the roster.
LEMMA DeliveryInforms ==
  ASSUME RosterInv, NEW t \in Sockets, RosterDeliver(t),
         NEW s \in Sockets, NEW l \in LobbyIds, NEW p \in ParticipantIds,
         NEW q \in ParticipantIds \ {p}, Listens(s, l, p), Clear(q)
  PROVE  Correct(s, l, q)'
<1>1. /\ outbox \in [Sockets -> Outbox] /\ roster \in [Sockets -> SUBSET ParticipantIds]
      /\ Deliver(t)
  BY DEF RosterInv, RosterTypeOK, SocketTypeOK, RosterDeliver
<1>2. /\ outbox[t].queue # <<>>
      /\ outbox' = [outbox EXCEPT ![t] = [outbox[t] EXCEPT !.queue = Tail(outbox[t].queue)]]
      /\ roster' = [roster EXCEPT ![t] = RosterAfter(roster[t], Head(outbox[t].queue))]
      /\ UNCHANGED <<storeVars, task>>
  BY <1>1, DeliverEffect DEF RosterDeliver
<1>3. Told(s, q)' <=> Told(s, q)
  <2>1. CASE s # t
    BY <1>1, <1>2, <2>1 DEF Told
  <2>2. CASE s = t
    <3> DEFINE queue == outbox[s].queue
    <3>1. queue \in Seq(Frame)
      BY <1>1 DEF Outbox
    <3>2. outbox'[s] = [outbox[s] EXCEPT !.queue = Tail(queue)]
      BY <1>1, <1>2, <2>2
    <3>3. outbox'[s].queue = Tail(queue)
      BY <1>1, <3>2 DEF Outbox
    <3>4. roster'[s] = RosterAfter(roster[s], Head(queue))
      BY <1>1, <1>2, <2>2
    <3>5. queue # <<>>
      BY <1>2, <2>2
    <3>6. Expected(Tail(queue), RosterAfter(roster[s], Head(queue)), q)
            <=> Expected(queue, roster[s], q)
      BY <3>1, <3>5, ExpectedRead
    <3> QED BY <3>3, <3>4, <3>6 DEF Told
  <2> QED BY <2>1, <2>2
<1>4. \A kind \in {"connected", "disconnected"} :
        Pending(s, q, kind)' <=> Pending(s, q, kind)
  BY <1>2 DEF Pending, Owes
<1>5. Occupied(l, q)' <=> Occupied(l, q)
  BY <1>2 DEF storeVars, Occupied
<1> QED BY <1>3, <1>4, <1>5, CorrectSame DEF RosterInv

-------------------------------------------------------------------------------
(* The theorems about the rosters.                                          *)

\* Each step of the rosters is one of the tasks.
LEMMA RosterSteps ==
  ASSUME [RosterNext]_allVars
  PROVE  [SocketNext]_vars
<1>1. RosterNext => SocketNext
  BY DEF RosterNext, SilentStep, RosterRegister, RosterFailGreeting, RosterUnregister,
         RosterSend, RosterDeliver, SocketNext, SocketStep, TaskProgress
<1> QED BY <1>1 DEF allVars

\* The roster of a socket names participants, and mishaps are those listed.
LEMMA RosterTypeKept ==
  ASSUME RosterInv, [RosterNext]_allVars, SocketTypeOK'
  PROVE  RosterTypeOK'
<1>1. /\ roster \in [Sockets -> SUBSET ParticipantIds]
      /\ blurred \subseteq ParticipantIds \X Mishaps
      /\ SocketTypeOK /\ Engaged
  BY DEF RosterInv, RosterTypeOK, SocketInv
<1>2. CASE UNCHANGED rosterVars
  BY <1>1, <1>2 DEF rosterVars, RosterTypeOK
<1>3. ASSUME NEW p \in ParticipantIds, NEW m \in Mishaps,
             blurred' = blurred \/ blurred' = blurred \cup {<<p, m>>}
      PROVE  blurred' \subseteq ParticipantIds \X Mishaps
  BY <1>1, <1>3
<1>4. ASSUME NEW s \in Sockets, NEW known \in SUBSET ParticipantIds,
             roster' = [roster EXCEPT ![s] = known]
      PROVE  roster' \in [Sockets -> SUBSET ParticipantIds]
  BY <1>1, <1>4
<1>5. ASSUME NEW s \in Sockets, task[s].stage \notin {"idle", "done"}
      PROVE  task[s].participant \in ParticipantIds
  BY <1>1, <1>5 DEF Engaged
<1>6. ASSUME NEW s \in Sockets, RosterRegister(s) PROVE RosterTypeOK'
  <2>1. task[s].participant \in ParticipantIds
    BY <1>5, <1>6 DEF RosterRegister, Register
  <2>2. blurred' \subseteq ParticipantIds \X Mishaps
    BY <1>3, <1>6, <2>1 DEF RosterRegister, Blur, Mishaps
  <2>3. Connected(lobbies[task[s].lobby]) \cup {task[s].participant} \in SUBSET ParticipantIds
    BY <2>1 DEF Connected, Members
  <2>4. roster' \in [Sockets -> SUBSET ParticipantIds]
    BY <1>4, <1>6, <2>3 DEF RosterRegister
  <2> QED BY <2>2, <2>4 DEF RosterTypeOK
<1>7. ASSUME NEW s \in Sockets, RosterFailGreeting(s) PROVE RosterTypeOK'
  <2>1. task[s].participant \in ParticipantIds
    BY <1>5, <1>7 DEF RosterFailGreeting, FailGreeting
  <2>2. blurred' \subseteq ParticipantIds \X Mishaps
    BY <1>3, <1>7, <2>1 DEF RosterFailGreeting, Blur, Mishaps
  <2>3. roster' \in [Sockets -> SUBSET ParticipantIds]
    BY <1>4, <1>7 DEF RosterFailGreeting
  <2> QED BY <2>2, <2>3 DEF RosterTypeOK
<1>8. ASSUME NEW s \in Sockets, RosterUnregister(s) PROVE RosterTypeOK'
  <2>1. task[s].participant \in ParticipantIds
    BY <1>5, <1>8 DEF RosterUnregister, Unregister
  <2>2. blurred' \subseteq ParticipantIds \X Mishaps
    BY <1>3, <1>8, <2>1 DEF RosterUnregister, Blur, Mishaps
  <2>3. roster' \in [Sockets -> SUBSET ParticipantIds]
    BY <1>4, <1>8 DEF RosterUnregister
  <2> QED BY <2>2, <2>3 DEF RosterTypeOK
<1>9. ASSUME NEW s \in Sockets, NEW c \in task[s].outgoing, RosterSend(s, c)
      PROVE  RosterTypeOK'
  <2>1. task[s].participant \in ParticipantIds
    BY <1>5, <1>9 DEF RosterSend, Send
  <2>2. blurred' \subseteq ParticipantIds \X Mishaps
    BY <1>3, <1>9, <2>1 DEF RosterSend, Blur, Mishaps
  <2> QED BY <1>1, <1>9, <2>2 DEF RosterSend, RosterTypeOK
<1>10. ASSUME NEW s \in Sockets, RosterDeliver(s) PROVE RosterTypeOK'
  <2> DEFINE f == Head(outbox[s].queue)
  <2>1. f \in Frame
    <3>1. outbox[s].queue \in Seq(Frame) /\ outbox[s].queue # <<>>
      BY <1>1, <1>10 DEF SocketTypeOK, Outbox, RosterDeliver, Deliver
    <3> QED BY <3>1
  <2>2. f.kind \in {"connected", "disconnected", "signal"} /\ f.from \in ParticipantIds
    BY <2>1 DEF Frame, Kinds
  <2> HIDE DEF f
  <2>3. \A known \in SUBSET ParticipantIds : RosterAfter(known, f) \in SUBSET ParticipantIds
    BY <2>2 DEF RosterAfter
  <2>4. roster' = [roster EXCEPT ![s] = RosterAfter(roster[s], f)]
    BY <1>10 DEF RosterDeliver, f
  <2>5. roster' \in [Sockets -> SUBSET ParticipantIds]
    BY <1>1, <1>4, <2>3, <2>4
  <2> QED BY <1>1, <1>10, <2>5 DEF RosterDeliver, RosterTypeOK
<1>11. UNCHANGED allVars \/ (ServiceStep /\ UNCHANGED <<socketVars, rosterVars>>)
         => UNCHANGED rosterVars
  BY DEF allVars
<1> QED BY <1>2, <1>6, <1>7, <1>8, <1>9, <1>10, <1>11 DEF RosterNext

\* A socket that was about to register and is in its loop has registered.
LEMMA OnlyRegistrationOpens ==
  ASSUME SocketTypeOK, Engaged, [RosterNext]_allVars, NEW s \in Sockets,
         task[s].stage = "upgrading", task'[s].stage \in OpenStages
  PROVE  RosterRegister(s)
<1>1. "upgrading" \notin OpenStages /\ Inactive("done").stage \notin OpenStages
  BY DEF OpenStages, RegisteredStages, Inactive
<1>2. task'[s] # task[s]
  BY <1>1
<1>3. ASSUME NEW t \in Sockets, OnlyTask(t) PROVE t = s
  BY <1>2, <1>3 DEF OnlyTask
<1>4. ASSUME NEW t \in Sockets, SilentStep(t) PROVE FALSE
  <2>1. ASSUME NEW l \in LobbyIds, NEW p \in ParticipantIds, NEW u \in Tokens,
               Upgrade(t, l, p, u)
        PROVE  FALSE
    BY <1>3, <2>1, UpgradeEffect
  <2>2. ASSUME RefuseRegistration(t) PROVE FALSE
    BY <1>1, <1>3, <2>2, RefuseEffect
  <2>3. ASSUME Greet(t) PROVE FALSE
    BY <1>3, <2>3, GreetEffect
  <2>4. ASSUME ObserveCancel(t) \/ Break(t) PROVE FALSE
    BY <1>3, <2>4, LeaveEffect
  <2>5. ASSUME NEW q \in ParticipantIds, Relay(t, q) PROVE FALSE
    BY <1>3, <2>5, RelayEffect
  <2> QED BY <1>4, <2>1, <2>2, <2>3, <2>4, <2>5 DEF SilentStep
<1>5. ASSUME NEW t \in Sockets, RosterRegister(t) PROVE t = s
  <2>1. PICK l, p : l = task[t].lobby /\ p = task[t].participant
    OBVIOUS
  <2> QED BY <1>3, <1>5, <2>1, RegisterTask DEF RosterRegister
<1>6. ASSUME NEW t \in Sockets, RosterFailGreeting(t) PROVE FALSE
  BY <1>3, <1>6, FailGreetingEffect DEF RosterFailGreeting
<1>7. ASSUME NEW t \in Sockets, RosterUnregister(t) PROVE FALSE
  BY <1>3, <1>7, UnregisterTask DEF RosterUnregister
<1>8. ASSUME NEW t \in Sockets, NEW c \in task[t].outgoing, RosterSend(t, c) PROVE FALSE
  BY <1>3, <1>8, SendEffect DEF RosterSend
<1>9. ASSUME NEW t \in Sockets, RosterDeliver(t) PROVE FALSE
  BY <1>2, <1>9, DeliverEffect DEF RosterDeliver
<1>10. ~(UNCHANGED allVars) /\ ~(ServiceStep /\ UNCHANGED <<socketVars, rosterVars>>)
  BY <1>2 DEF allVars, vars, socketVars
<1> QED BY <1>4, <1>5, <1>6, <1>7, <1>8, <1>9, <1>10 DEF RosterNext

\* Whoever listens is told the truth, step by step.
LEMMA InformedPreserved ==
  ASSUME RosterInv, [RosterNext]_allVars
  PROVE  ListenersInformed'
<1> SUFFICES ASSUME NEW s \in Sockets, NEW l \in LobbyIds, NEW p \in ParticipantIds,
                    NEW q \in ParticipantIds \ {p}, Listens(s, l, p)', Clear(q)'
             PROVE  Correct(s, l, q)'
  BY DEF ListenersInformed
<1>1. [SocketNext]_vars /\ SocketInv
  BY RosterSteps DEF RosterInv
<1>2. blurred \subseteq blurred'
  BY DEF RosterNext, RosterRegister, RosterFailGreeting, RosterUnregister, RosterSend,
         RosterDeliver, Blur, allVars, rosterVars
<1>3. Clear(q)
  BY <1>2 DEF Clear
<1>4. CASE task[s].stage = "upgrading"
  <2>1. RosterRegister(s)
    BY <1>1, <1>4, OnlyRegistrationOpens DEF Listens, SocketInv
  <2> QED BY <2>1, NewcomerInformed
<1>5. CASE task[s].stage # "upgrading"
  <2>1. Listens(s, l, p)
    BY <1>1, <1>5, ListenedBefore
  <2>2. CASE UNCHANGED allVars
    <3>1. Correct(s, l, q)
      BY <1>3, <2>1 DEF RosterInv, ListenersInformed
    <3> QED BY <2>2, <3>1 DEF allVars, vars, storeVars, socketVars, rosterVars, Correct,
                              Occupied, Told, Pending, Owes
  <2>3. ASSUME NEW t \in Sockets, RosterRegister(t) PROVE Correct(s, l, q)'
    <3>1. s # t
      BY <1>5, <2>3 DEF RosterRegister, Register
    <3> QED BY <1>3, <2>1, <2>3, <3>1, RegistrationInforms
  <2>4. CASE RosterNext
    BY <1>3, <2>1, <2>3, <2>4, ServiceInforms, SilentInforms, FailureInforms,
       UnregistrationInforms, SendingInforms, DeliveryInforms DEF RosterNext
  <2> QED BY <2>2, <2>4
<1> QED BY <1>4, <1>5

\* In the first state nobody listens.
LEMMA RosterInitInv == RosterInit => RosterInv
<1> SUFFICES ASSUME RosterInit PROVE RosterInv
  OBVIOUS
<1>1. SocketInv
  BY SocketInitInv DEF RosterInit
<1>2. RosterTypeOK
  BY <1>1 DEF RosterInit, RosterTypeOK, SocketInv
<1>3. \A s \in Sockets : task[s].stage = "idle" /\ task[s].outgoing = {}
  BY DEF RosterInit, SocketInit, Inactive
<1>4. CommandsInOrder
  BY <1>3 DEF CommandsInOrder
<1>5. OutboxesFresh
  BY DEF RosterInit, SocketInit, OutboxesFresh
<1>6. ListenersInformed
  BY <1>3, StagesKnown DEF ListenersInformed, Listens
<1> QED BY <1>1, <1>2, <1>4, <1>5, <1>6 DEF RosterInv

\* The invariant of the rosters is inductive.
LEMMA RosterInvPreserved ==
  ASSUME RosterInv, [RosterNext]_allVars
  PROVE  RosterInv'
<1>1. [SocketNext]_vars /\ SocketInv /\ CommandsInOrder /\ OutboxesFresh
  BY RosterSteps DEF RosterInv
<1>2. SocketInv'
  BY <1>1, SocketInvPreserved
<1>3. RosterTypeOK'
  BY <1>2, RosterTypeKept DEF SocketInv
<1> QED BY <1>1, <1>2, <1>3, OrderPreserved, FreshPreserved, InformedPreserved DEF RosterInv

\* The invariant, for every number of sockets and every capacity.
LEMMA RosterInvariant == RosterSpec => []RosterInv
BY RosterInitInv, RosterInvPreserved, PTL DEF RosterSpec

\* The rosters add nothing to what the tasks do: all that holds of the tasks
\* holds with the browsers behind them.
THEOREM RostersFollowTasks == RosterSpec => SocketSafety
<1>1. RosterInit => SocketInit
  BY DEF RosterInit
<1> QED BY <1>1, RosterSteps, PTL DEF RosterSpec, SocketSafety

\* The rosters and the history keep their shape.
THEOREM RosterTypeCorrect == RosterSpec => []RosterTypeOK
<1>1. RosterInv => RosterTypeOK
  BY DEF RosterInv
<1> QED BY <1>1, RosterInvariant, PTL

\* Once nothing is on its way, a connected browser believes connected exactly
\* those that are, but for the participants about whom a report went astray
\* (sockets.rs:142-167, 214-225).
THEOREM RostersExact == RosterSpec => []RosterExact
<1>1. RosterInv => RosterExact
  <2> SUFFICES ASSUME RosterInv, NEW s \in Sockets, NEW q \in Others(s),
                      Settled(s, q), Clear(q)
               PROVE  RosterAgrees(s, q)
    BY DEF RosterExact, Clear
  <2>1. /\ SocketInv /\ CommandsInOrder
        /\ task[s].stage = "serving"
        /\ outbox \in [Sockets -> Outbox]
    BY DEF RosterInv, Settled, SocketInv, SocketTypeOK
  <2>2. PICK l \in LobbyIds, p \in ParticipantIds : l = task[s].lobby /\ p = task[s].participant
    BY <2>1 DEF SocketInv, Engaged
  <2>3. q \in ParticipantIds \ {p}
    BY <2>2 DEF Others
  <2>4. Listens(s, l, p)
    BY <2>1, <2>2, HoldsSlot, StagesKnown DEF Settled, Has, Listens, Cancelled
  <2>5. Correct(s, l, q)
    BY <2>3, <2>4 DEF RosterInv, ListenersInformed
  <2>6. ASSUME NEW kind \in {"connected", "disconnected"} PROVE ~Pending(s, q, kind)
    <3>1. ASSUME NEW t \in Sockets, Owes(t, s, q, kind) PROVE FALSE
      <4>1. /\ task[t].participant = q
            /\ task[t].lobby = task[s].lobby
            /\ task[t].stage \in {"replacing", "greeting", "announcing", "farewell"}
        BY <2>1, <2>3, <3>1, OwesKnown
      <4> QED BY <4>1 DEF Settled
    <3> QED BY <3>1 DEF Pending
  <2>7. Told(s, q) <=> q \in roster[s]
    <3>1. \A kind : Report(kind, q).from = q
      BY DEF Report
    <3>2. \A i \in DOMAIN outbox[s].queue, kind \in Kinds : outbox[s].queue[i] # Report(kind, q)
      BY <3>1 DEF Settled
    <3> QED BY <3>2 DEF Told, Expected, Kinds
  <2>8. Told(s, q) <=> Occupied(l, q)
    BY <2>5, <2>6 DEF Correct
  <2>9. lobbies[l] # None
    BY <2>4 DEF Listens, Has, Occupied
  <2>10. q \in Connected(lobbies[task[s].lobby]) <=> Occupied(l, q)
    BY <2>2, <2>3, <2>9 DEF Connected, Members, Occupied
  <2> QED BY <2>7, <2>8, <2>10 DEF RosterAgrees
<1> QED BY <1>1, RosterInvariant, PTL

===============================================================================
