--------------------------- MODULE ResilientSession ---------------------------
(***************************************************************************)
(* The life of one ResilientLobbySession in a browser                      *)
(* (src/web/resilient-lobby-session.ts): its initial setup by host() or    *)
(* join(), the time limit and the cancellation of it, close(), and the     *)
(* reconnection of a session whose signaling socket was lost.              *)
(*                                                                         *)
(* JavaScript runs one task at a time with every microtask the task        *)
(* queues, so a step is a task: an event of a socket, a timer, an answer   *)
(* to fetch, or a call of the application.  What a setup awaits goes on    *)
(* after its caller has been told of a time-out: a late answer or a late   *)
(* event meets a session that may have been closed or set up again.        *)
(***************************************************************************)
EXTENDS Naturals, FiniteSets

CONSTANTS
  Sockets,      \* WebSocket objects; one that is over and unreferenced is reused
  None,         \* null
  MaxSetups,    \* bound on the calls of host() and join()
  MaxAttempts   \* reconnectMaxAttempts

ASSUME SessionAssumption ==
  /\ None \notin Sockets \cup Nat
  /\ MaxSetups \in Nat \ {0}
  /\ MaxAttempts \in Nat \ {0}

VARIABLES
  session,  \* the fields of the session
  setup,    \* the call of host() or join() of each generation
  socket    \* the WebSockets

vars == <<session, setup, socket>>

Setups == 1 .. MaxSetups

\* The awaiter of a socket's connection is a setup, or the reconnect timer.
Reconnect == 0

Session == [
  closed : BOOLEAN,
  established : BOOLEAN,
  setupInFlight : BOOLEAN,
  setupGeneration : 0 .. MaxSetups + 1,
  lobby : Setups \cup {None},             \* the setup whose lobby was adopted
  signaling : Sockets \cup {None},
  reconnectAttempt : 0 .. MaxAttempts,
  reconnectTimer : BOOLEAN,
  reconnectInFlight : BOOLEAN,
  exhausted : BOOLEAN]                    \* reconnect-exhausted was reported

\* A call is loading its lobby, connecting to it, or over; its caller has
\* been given nothing yet, the lobby, or an error.
Setup == [stage : {"idle", "loading", "connecting", "over"},
          result : {"none", "pending", "lobby", "error"}]

Socket == [state : {"closed", "connecting", "open", "closing"},
           awaiter : Setups \cup {Reconnect, None}]

Init ==
  /\ session = [closed |-> FALSE, established |-> FALSE, setupInFlight |-> FALSE,
                setupGeneration |-> 0, lobby |-> None, signaling |-> None,
                reconnectAttempt |-> 0, reconnectTimer |-> FALSE,
                reconnectInFlight |-> FALSE, exhausted |-> FALSE]
  /\ setup = [g \in Setups |-> [stage |-> "idle", result |-> "none"]]
  /\ socket = [s \in Sockets |-> [state |-> "closed", awaiter |-> None]]

-------------------------------------------------------------------------------
(* The parts of the handlers.                                               *)

\* Mutant: any setup in flight will do.
ActiveWhateverGeneration(g) == ~session.closed /\ session.setupInFlight

\* #assertInitialSetupActive
Active(g) ==
  /\ ~session.closed
  /\ session.setupInFlight
  /\ session.setupGeneration = g

\* this.signaling?.readyState
SignalingState == IF session.signaling = None THEN "none" ELSE socket[session.signaling].state

Free(s) == socket[s].state = "closed" /\ socket[s].awaiter = None /\ session.signaling # s

\* Mutant: the socket is forgotten and not closed.
ForgottenSocket == socket

\* socket?.close() on the session's socket.
ClosedSocket ==
  [s \in Sockets |->
     IF s = session.signaling /\ socket[s].state \in {"connecting", "open"}
     THEN [socket[s] EXCEPT !.state = "closing"] ELSE socket[s]]

\* #abortInitialSetup and what close() has in common with it.
Cleared(ses) ==
  [ses EXCEPT !.setupInFlight = FALSE, !.established = FALSE,
              !.reconnectTimer = FALSE, !.signaling = None, !.lobby = None]

\* Mutant: the reconnect timer is left to fire.
ClosedWithTimer(ses) ==
  [ses EXCEPT !.setupInFlight = FALSE, !.established = FALSE, !.signaling = None,
              !.setupGeneration = @ + 1, !.closed = TRUE]

\* The session after close(); an established one keeps what it knows of its lobby.
ClosedSession(ses) ==
  [Cleared(ses) EXCEPT
     !.setupGeneration = @ + 1, !.closed = TRUE,
     !.lobby = IF ses.setupInFlight /\ ~ses.established THEN None ELSE ses.lobby]

\* Mutant: one attempt too many.
UsedUpLate(ses) == ses.reconnectAttempt > MaxAttempts

UsedUp(ses) == ses.reconnectAttempt >= MaxAttempts

\* #scheduleReconnect
Scheduled(ses) ==
  IF ses.closed \/ ~ses.established \/ ses.reconnectTimer \/ ses.reconnectInFlight
  THEN ses
  ELSE IF UsedUp(ses) THEN [ses EXCEPT !.exhausted = TRUE]
  ELSE [ses EXCEPT !.reconnectAttempt = @ + 1, !.reconnectTimer = TRUE]

\* #connectSignaling up to its await, on behalf of a setup or of the timer.
Connecting(s, awaiter) ==
  socket' = [socket EXCEPT ![s] = [state |-> "connecting", awaiter |-> awaiter]]

\* The rejection of what a setup raced for: its caller is told, once, and
\* #abortInitialSetup undoes the setup unless close() has done so.
Rejected(g, stage) ==
  /\ setup' = [setup EXCEPT ![g] =
                 [stage |-> stage, result |-> IF @.result = "pending" THEN "error" ELSE @.result]]
  /\ IF setup[g].result = "pending" /\ session.setupGeneration = g
     THEN session' = Cleared(session) /\ socket' = ClosedSocket
     ELSE UNCHANGED <<session, socket>>

-------------------------------------------------------------------------------
(* Calls of the application.                                                *)

\* host() and join() up to the await of the service's answer.
BeginSetup ==
  LET g == session.setupGeneration + 1 IN
  /\ ~session.closed /\ ~session.setupInFlight /\ ~session.established
  /\ g \in Setups
  /\ session' = [session EXCEPT !.setupGeneration = g, !.setupInFlight = TRUE]
  /\ setup' = [setup EXCEPT ![g] = [stage |-> "loading", result |-> "pending"]]
  /\ UNCHANGED socket

\* close(): the caller of a setup under way is told it was cancelled.  A
\* second call would only raise the generation of a session that is over.
CloseSession ==
  /\ ~session.closed
  /\ session' = ClosedSession(session)
  /\ socket' = ClosedSocket
  /\ setup' = [g \in Setups |->
                 IF setup[g].result = "pending" THEN [setup[g] EXCEPT !.result = "error"] ELSE setup[g]]

-------------------------------------------------------------------------------
(* The initial setup.                                                       *)

\* The service's answer arrives, in time or late: fetch need not heed the
\* abort, and readJson turns an aborted body into an answer.
LoadAnswered(g) ==
  /\ setup[g].stage = "loading"
  /\ IF Active(g)
     THEN \E s \in Sockets :
            /\ Free(s)
            /\ session' = [session EXCEPT !.lobby = g, !.signaling = s]
            /\ Connecting(s, g)
            /\ setup' = [setup EXCEPT ![g].stage = "connecting"]
     ELSE Rejected(g, "over")

LoadFailed(g) == setup[g].stage = "loading" /\ Rejected(g, "over")

\* setupTimeoutMs have passed: the caller is told, the work goes on.
SetupTimeout(g) == setup[g].result = "pending" /\ Rejected(g, setup[g].stage)

-------------------------------------------------------------------------------
(* Events of sockets and the reconnect timer.                               *)

SocketOpened(s) ==
  LET g == socket[s].awaiter IN
  /\ socket[s].state = "connecting"
  /\ socket' = [socket EXCEPT ![s] = [state |-> "open", awaiter |-> None]]
  /\ CASE g = Reconnect ->
            session' = [session EXCEPT !.reconnectInFlight = FALSE] /\ UNCHANGED setup
       [] g \in Setups /\ Active(g) ->
            /\ session' = [session EXCEPT !.setupInFlight = FALSE, !.established = TRUE]
            /\ setup' = [setup EXCEPT ![g] = [stage |-> "over", result |-> "lobby"]]
       [] OTHER ->
            UNCHANGED session /\ setup' = [setup EXCEPT ![g].stage = "over"]

\* Mutant: the flag of the attempt outlives its failure.
StillInFlight(ses) == ses

\* What follows the rejection of the timer's connection, up to the finally.
AttemptOver(ses) == [ses EXCEPT !.reconnectInFlight = FALSE]

\* A connection that is not made: the error event, whose rejection is
\* handled before the close event of the same socket.  After the last
\* attempt both of them report reconnect-exhausted.
SocketFailed(s) ==
  LET g == socket[s].awaiter IN
  /\ socket[s].state = "connecting"
  /\ IF g = Reconnect
     THEN /\ session' = Scheduled(Scheduled(AttemptOver(session)))
          /\ UNCHANGED setup
     ELSE /\ setup' = [setup EXCEPT ![g] =
                         [stage |-> "over", result |-> IF @.result = "pending" THEN "error" ELSE @.result]]
          /\ session' = IF setup[g].result = "pending" /\ session.setupGeneration = g
                        THEN Cleared(session) ELSE session
  /\ socket' = [socket EXCEPT ![s] = [state |-> "closed", awaiter |-> None]]

\* An open socket is lost: the close listener of the session's own socket.
SocketLost(s) ==
  /\ socket[s].state = "open"
  /\ socket' = [socket EXCEPT ![s].state = "closed"]
  /\ session' = IF session.signaling = s THEN Scheduled(session) ELSE session
  /\ UNCHANGED setup

\* The close of a socket the session has closed; it rejects the connection
\* somebody may still await.
SocketClosed(s) ==
  LET g == socket[s].awaiter IN
  /\ socket[s].state = "closing"
  /\ socket' = [socket EXCEPT ![s] = [state |-> "closed", awaiter |-> None]]
  /\ session' = IF g = Reconnect THEN Scheduled(AttemptOver(session)) ELSE session
  /\ setup' = IF g \in Setups THEN [setup EXCEPT ![g].stage = "over"] ELSE setup

ReconnectTimer ==
  /\ session.reconnectTimer
  /\ \E s \in Sockets :
       /\ Free(s)
       /\ session' = [session EXCEPT !.reconnectTimer = FALSE, !.reconnectInFlight = TRUE,
                                     !.signaling = s]
       /\ Connecting(s, Reconnect)
  /\ UNCHANGED setup

\* The service's connected frame ends a series of attempts.
ConnectedFrame ==
  /\ SignalingState = "open"
  /\ session.reconnectAttempt > 0
  /\ session' = [session EXCEPT !.reconnectAttempt = 0]
  /\ UNCHANGED <<setup, socket>>

-------------------------------------------------------------------------------
SessionStep ==
  \/ BeginSetup \/ CloseSession \/ ReconnectTimer \/ ConnectedFrame
  \/ \E g \in Setups : LoadAnswered(g) \/ LoadFailed(g) \/ SetupTimeout(g)
  \/ \E s \in Sockets : SocketOpened(s) \/ SocketFailed(s) \/ SocketLost(s) \/ SocketClosed(s)

Spec == Init /\ [][SessionStep]_vars

\* Timers fire, and a browser decides each connection it was asked for, one
\* way or the other; nothing says that the network lets any succeed.
SessionFairness ==
  /\ WF_vars(ReconnectTimer)
  /\ \A g \in Setups : WF_vars(SetupTimeout(g))
  /\ \A s \in Sockets :
       WF_vars(SocketOpened(s) \/ SocketFailed(s)) /\ WF_vars(SocketClosed(s))

FairSpec == Spec /\ SessionFairness

-------------------------------------------------------------------------------
(* Properties.                                                              *)

SessionTypeOK ==
  /\ session \in Session
  /\ setup \in [Setups -> Setup]
  /\ socket \in [Sockets -> Socket]

\* A socket that is connecting or open is the session's own: cancelled
\* setups, late answers and reconnections leak no connection, and there are
\* never two (two would replace each other at the service for ever).
OneLiveSocket ==
  \A s \in Sockets : socket[s].state \in {"connecting", "open"} => session.signaling = s

\* What the caller of host() or join() was told agrees with the session: it
\* is established only with the lobby of the latest setup and after giving
\* that one to its caller, and a caller without an answer is the one whose
\* setup the session works on.
CallerAgrees ==
  /\ session.established =>
       /\ session.lobby = session.setupGeneration
       /\ setup[session.setupGeneration].result = "lobby"
  /\ \A g \in Setups : setup[g].result = "pending" => Active(g)

\* A session that is neither set up nor being set up rests: no timer, no
\* socket, and after a failed setup no lobby of it (a closed session that
\* was established keeps the name of its lobby).
CancelledSessionRests ==
  ~session.setupInFlight /\ ~session.established =>
    /\ ~session.reconnectTimer
    /\ session.signaling = None
    /\ ~session.closed => session.lobby = None

\* A session whose signaling was lost connects again, reports that its
\* attempts are exhausted, or is closed: no flag or timer of the reconnection
\* is left behind that keeps it from trying.
LossIsHandled ==
  (session.established /\ SignalingState = "closed")
    ~> (session.closed \/ session.exhausted \/ SignalingState = "open")
===============================================================================
