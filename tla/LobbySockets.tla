----------------------------- MODULE LobbySockets -----------------------------
(***************************************************************************)
(* The WebSocket tasks of a lobby (handle_lobby_socket and what it calls   *)
(* in src/src/sockets.rs) with their outboxes (src/src/outbox.rs), on top  *)
(* of the store of LobbyStore.                                             *)
(*                                                                         *)
(* A task and the store's mutex meet only inside the methods of LobbyStore *)
(* and inside Sender::send, so between two of those any other task may     *)
(* run: each is a step of its own.  Senders are named after the sockets    *)
(* that receive from them.                                                 *)
(***************************************************************************)
EXTENDS LobbyStore, Sequences

CONSTANT QueueCapacity  \* QUEUE_CAPACITY, commands one outbox can hold

ASSUME QueueAssumption == QueueCapacity \in Nat \ {0}

VARIABLES
  task,     \* the state of each socket's task
  outbox    \* the receiving end of each socket's outbox

socketVars == <<task, outbox>>
vars == <<storeVars, socketVars>>

Sockets == Senders

\* Where a task is: the socket is not opened; authenticated by connect_lobby
\* and upgrading; registered, with the replaced sender still to be closed;
\* writing the Connected frame; announcing itself; in the select loop; about
\* to queue a signal; out of the loop; saying farewell; returned.
Stages == {"idle", "upgrading", "replacing", "greeting", "announcing", "serving",
           "relaying", "leaving", "farewell", "done"}

\* Between its registration and its call of unregister_connection.
RegisteredStages ==
  {"replacing", "greeting", "announcing", "serving", "relaying", "leaving"}

\* While the task may still take commands out of its outbox.
OpenStages == RegisteredStages \ {"leaving"}

\* What a task sends: the frames of LobbyServerMessage, and Close.
Kinds == {"connected", "disconnected", "signal"}
Frame == [kind : Kinds, from : ParticipantIds]
Close == [kind |-> "close"]
Command == [to : Sockets, what : Frame \cup {Close}]

\* `outgoing` are the commands the task still has to send, with the senders
\* they keep alive.
Task == [stage : Stages,
         lobby : LobbyIds \cup {None},
         participant : ParticipantIds \cup {None},
         token : 0 .. MaxTokens,
         id : 0 .. MaxConnections,
         outgoing : SUBSET Command]

Inactive(stage) == [stage |-> stage, lobby |-> None, participant |-> None,
                    token |-> 0, id |-> 0, outgoing |-> {}]

Outbox == [queue : Seq(Frame), closed : BOOLEAN]
EmptyOutbox == [queue |-> <<>>, closed |-> FALSE]

-------------------------------------------------------------------------------
(* The outbox.                                                              *)

Holds(s, l, p) ==
  /\ lobbies[l] # None
  /\ p \in Connected(lobbies[l])
  /\ lobbies[l].participants[p].connection.sender = s

\* A clone of the sender of s exists: in the store, or in what a task still
\* has to send.
HasSender(s) ==
  \/ \E l \in LobbyIds, p \in ParticipantIds : Holds(s, l, p)
  \/ \E t \in Sockets : \E c \in task[t].outgoing : c.to = s

\* Mutant: only the close flag is watched.
ClosedOnly(s) == outbox[s].closed

\* What recv() looks at before the queue: the close flag, and the end of the
\* watch channel once the last sender is gone.
Cancelled(s) == outbox[s].closed \/ ~HasSender(s)

\* Mutant: a command more than the channel holds.
FullWithOneMore(o) == Len(o.queue) > QueueCapacity

Full(o) == Len(o.queue) = QueueCapacity

\* Sender::send when the budget has room: the close flag for Close and for a
\* full queue, which is cancelled instead of losing the frame; nothing for an
\* outbox that is closed or whose task has left its loop.
Sent(c) ==
  LET o == outbox[c.to]
  IN IF task[c.to].stage \notin OpenStages \/ o.closed THEN o
     ELSE IF c.what = Close \/ Full(o)
       THEN [o EXCEPT !.closed = TRUE]
     ELSE [o EXCEPT !.queue = Append(@, c.what)]

-------------------------------------------------------------------------------
(* The life of a task.                                                      *)

SocketInit ==
  /\ Init
  /\ task = [s \in Sockets |-> Inactive("idle")]
  /\ outbox = [s \in Sockets |-> EmptyOutbox]

\* connect_lobby: the credentials are checked before the upgrade.
Upgrade(s, l, p, t) ==
  /\ task[s].stage = "idle"
  /\ Found(l)
  /\ Authenticated(lobbies[l], p, t)
  /\ task' = [task EXCEPT ![s] = [Inactive("upgrading") EXCEPT
                 !.lobby = l, !.participant = p, !.token = t]]
  /\ UNCHANGED <<storeVars, outbox>>

Announcement(s, kind) == [kind |-> kind, from |-> task[s].participant]

\* Mutant: the replaced sender is dropped, not closed.
NotReplaced(me) == {}

\* The sender a registration takes out of the participant's slot.
Replaced(me) ==
  {lobbies[me.lobby].participants[p].connection.sender :
     p \in Connected(lobbies[me.lobby]) \cap {me.participant}}

\* The senders of the other connected participants.
ConnectedPeers(me) ==
  {lobbies[me.lobby].participants[q].connection.sender :
     q \in Connected(lobbies[me.lobby]) \ {me.participant}}

\* register_connection succeeds: it returns the sender it replaced, those of
\* the connected peers, and the list of the connected.
Register(s) ==
  LET me == task[s]
  IN /\ me.stage = "upgrading"
     /\ RegisterConnection(me.lobby, me.participant, me.token, s)
     /\ task' = [task EXCEPT ![s] =
          [@ EXCEPT !.stage = IF Replaced(me) = {} THEN "greeting" ELSE "replacing",
                    !.id = next_connection_id,
                    !.outgoing =
                      [to : Replaced(me), what : {Close}]
                        \cup [to : ConnectedPeers(me),
                              what : {Announcement(s, "connected")}]]]
     /\ UNCHANGED outbox

\* register_connection fails: the lobby has expired since the upgrade, or its
\* code now names another lobby.
RefuseRegistration(s) ==
  LET me == task[s]
  IN /\ me.stage = "upgrading"
     /\ ~(/\ Found(me.lobby)
          /\ Authenticated(lobbies[me.lobby], me.participant, me.token))
     /\ Access(me.lobby)
     /\ task' = [task EXCEPT ![s] = Inactive("done")]
     /\ UNCHANGED outbox

\* The Connected frame is written.
Greet(s) ==
  /\ task[s].stage = "greeting"
  /\ task' = [task EXCEPT ![s].stage =
                IF task[s].outgoing # {} THEN "announcing" ELSE "serving"]
  /\ UNCHANGED <<storeVars, outbox>>

\* unregister_connection: the slot is emptied only if it still holds this
\* connection.
Unregistered(s) ==
  LET me == task[s]
  IN IF IsCurrent(me.lobby, me.participant, me.id)
       THEN UnregisterConnection(me.lobby, me.participant, me.id)
       ELSE UNCHANGED storeVars

\* Mutant: the task just returns.
FailGreetingSilently(s) ==
  /\ task[s].stage = "greeting"
  /\ task' = [task EXCEPT ![s] = Inactive("done")]
  /\ outbox' = [outbox EXCEPT ![s] = EmptyOutbox]
  /\ UNCHANGED storeVars

\* The Connected frame cannot be written: the task unregisters and returns.
FailGreeting(s) ==
  /\ task[s].stage = "greeting"
  /\ Unregistered(s)
  /\ task' = [task EXCEPT ![s] = Inactive("done")]
  /\ outbox' = [outbox EXCEPT ![s] = EmptyOutbox]

\* The task when it has still to send the commands `left`.
TaskAfter(me, left) ==
  CASE me.stage = "replacing" -> [me EXCEPT !.outgoing = left, !.stage = "greeting"]
    [] me.stage # "replacing" /\ left # {} -> [me EXCEPT !.outgoing = left]
    [] me.stage \in {"announcing", "relaying"} /\ left = {} ->
         [me EXCEPT !.outgoing = {}, !.stage = "serving"]
    [] me.stage = "farewell" /\ left = {} -> Inactive("done")

\* One Sender::send of the task.  Its error is ignored, or answered to the
\* sender.  The shared budget may be exhausted: then the frame is dropped.
Send(s, c) ==
  LET me == task[s]
  IN /\ me.stage \in {"replacing", "announcing", "relaying", "farewell"}
     /\ (me.stage = "replacing") <=> (c.what = Close)
     /\ task' = [task EXCEPT ![s] = TaskAfter(me, me.outgoing \ {c})]
     /\ \/ outbox' = [outbox EXCEPT ![c.to] = Sent(c)]
        \/ c.what # Close /\ UNCHANGED outbox
     /\ UNCHANGED storeVars

-------------------------------------------------------------------------------
(* The select loop.                                                         *)

\* A queued command is taken and written to the socket.
Deliver(s) ==
  /\ task[s].stage = "serving"
  /\ ~Cancelled(s)
  /\ outbox[s].queue # <<>>
  /\ outbox' = [outbox EXCEPT ![s].queue = Tail(@)]
  /\ UNCHANGED <<storeVars, task>>

\* The task leaves the loop, and what is queued is never written.
LeaveLoop(s) ==
  /\ task' = [task EXCEPT ![s].stage = "leaving"]
  /\ outbox' = [outbox EXCEPT ![s] = EmptyOutbox]
  /\ UNCHANGED storeVars

\* recv() finds the outbox cancelled.
ObserveCancel(s) ==
  /\ task[s].stage = "serving"
  /\ Cancelled(s)
  /\ LeaveLoop(s)

\* The browser closes or is gone, sends too fast or too much, or a write fails
\* or misses its deadline.
Break(s) ==
  /\ task[s].stage = "serving"
  /\ LeaveLoop(s)

\* target_sender finds the outbox of q; the signal is queued by the next step.
Relay(s, q) ==
  LET me == task[s]
      lobby == lobbies[me.lobby]
  IN /\ me.stage = "serving"
     /\ q # me.participant
     /\ Found(me.lobby)
     /\ me.participant \in Members(lobby)
     /\ q \in Connected(lobby)
     /\ task' = [task EXCEPT ![s] =
          [@ EXCEPT !.stage = "relaying",
                    !.outgoing = [to : {lobby.participants[q].connection.sender},
                                  what : {Announcement(s, "signal")}]]]
     /\ UNCHANGED <<storeVars, outbox>>

\* Mutant: a farewell even from a task whose connection has been replaced.
AlwaysFarewell(s) ==
  LET peers == IF lobbies[task[s].lobby] # None THEN ConnectedPeers(task[s]) ELSE {}
  IN [to : peers, what : {Announcement(s, "disconnected")}]

\* unregister_connection returns the peers still connected, and none if the slot
\* is not this connection's.
Farewells(s) ==
  LET me == task[s]
      peers == IF IsCurrent(me.lobby, me.participant, me.id) THEN ConnectedPeers(me) ELSE {}
  IN [to : peers, what : {Announcement(s, "disconnected")}]

Unregister(s) ==
  /\ task[s].stage = "leaving"
  /\ Unregistered(s)
  /\ task' = [task EXCEPT ![s] =
       IF Farewells(s) = {} THEN Inactive("done")
       ELSE [@ EXCEPT !.stage = "farewell", !.outgoing = Farewells(s)]]
  /\ UNCHANGED outbox

-------------------------------------------------------------------------------
\* What the runtime goes on with once the task is runnable.
TaskProgress(s) ==
  \/ Register(s)
  \/ RefuseRegistration(s)
  \/ Greet(s)
  \/ FailGreeting(s)
  \/ \E c \in task[s].outgoing : Send(s, c)
  \/ Deliver(s)
  \/ Unregister(s)

SocketStep(s) ==
  \/ \E l \in LobbyIds, p \in ParticipantIds, t \in Tokens : Upgrade(s, l, p, t)
  \/ TaskProgress(s)
  \/ ObserveCancel(s)
  \/ Break(s)
  \/ \E q \in ParticipantIds : Relay(s, q)

SocketNext ==
  \/ ServiceStep /\ UNCHANGED socketVars
  \/ \E s \in Sockets : SocketStep(s)

\* Every task runs; a write ends within WRITE_DEADLINE; and select! polls its
\* branches in random order, so a browser that keeps sending cannot hide the
\* cancellation of its outbox for ever.
SocketFairness ==
  \A s \in Sockets : WF_vars(TaskProgress(s)) /\ SF_vars(ObserveCancel(s))

SocketSpec ==
  /\ SocketInit /\ [][SocketNext]_vars
  /\ SocketFairness
  /\ WF_vars(CleanupExpired /\ UNCHANGED socketVars)
-------------------------------------------------------------------------------
(* Properties.                                                              *)

\* The shape of the state; a queue never outgrows its capacity.
SocketTypeOK ==
  /\ TypeOK
  /\ task \in [Sockets -> Task]
  /\ outbox \in [Sockets -> Outbox]
  /\ \A s \in Sockets : Len(outbox[s].queue) <= QueueCapacity

\* Whatever the order in which tasks register, replace each other, fail and
\* unregister, a connection in the store belongs to a task that has still to
\* unregister it, under the same connection id: none is ever left behind by a
\* task that has returned (sockets.rs:153-157, 214-224).
NoLeakedConnection ==
  \A l \in LobbyIds, p \in ParticipantIds, s \in Sockets : Holds(s, l, p) =>
    /\ task[s].stage \in RegisteredStages
    /\ task[s].lobby = l
    /\ task[s].participant = p
    /\ task[s].id = lobbies[l].participants[p].connection.id

\* A lobby that expires between the authenticated upgrade and the registration
\* and whose code and participant identifier are drawn again does not get the
\* old participant's socket (main.rs:643-660, lobby.rs:432-434).
ConnectionHolderAuthenticated ==
  \A l \in LobbyIds, p \in ParticipantIds, s \in Sockets : Holds(s, l, p) =>
    lobbies[l].participants[p].token_hash = hash_capability_token(task[s].token)

\* A task is about to close the outbox of s.
BeingClosed(s) == \E t \in Sockets : [to |-> s, what |-> Close] \in task[t].outgoing

\* Reconnecting replaces the stale socket: once its own registration is done, a
\* participant has at most one socket that is not cancelled or about to be.  A
\* participant is its credential: a lobby that was swept may leave a socket to
\* someone who had the code and the identifier before, for as long as a signal
\* or an announcement on its way to that socket keeps its outbox alive.
OneSocketPerParticipant ==
  \A s, t \in Sockets :
    /\ s # t
    /\ task[s].stage \in OpenStages
    /\ task[t].stage \in OpenStages
    /\ task[s].participant = task[t].participant
    /\ task[s].lobby = task[t].lobby
    /\ task[s].token = task[t].token
    /\ ~(Cancelled(s) \/ BeingClosed(s))
    => Cancelled(t) \/ BeingClosed(t)

\* However late the task of a replaced socket cleans up, the newer socket keeps
\* its slot: a task nobody has closed holds the slot of its participant for as
\* long as its lobby is stored (lobby.rs:482-490).
NewestKeepsSlot ==
  \A s \in Sockets :
    LET me == task[s]
    IN /\ me.stage \in OpenStages
       /\ ~outbox[s].closed
       /\ ~BeingClosed(s)
       /\ lobbies[me.lobby] # None
       /\ Authenticated(lobbies[me.lobby], me.participant, me.token)
       => Holds(s, me.lobby, me.participant)

\* A socket that no longer holds its slot, because its participant reconnected
\* or its lobby was swept, ends, however busy its browser keeps it.
StaleSocketEnds ==
  \A s \in Sockets :
    (task[s].stage \in RegisteredStages /\ ~Holds(s, task[s].lobby, task[s].participant))
      ~> task[s].stage = "done"
===============================================================================
