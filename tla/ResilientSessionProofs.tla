------------------------ MODULE ResilientSessionProofs ------------------------
(***************************************************************************)
(* Theorems about ResilientSession, for every number of sockets, setups    *)
(* and attempts.                                                           *)
(***************************************************************************)
EXTENDS ResilientSession, TLAPS

-------------------------------------------------------------------------------
(* The inductive invariant.                                                 *)

Live(s) == socket[s].state \in {"connecting", "open"}

\* The session is new, being set up, established or closed.
Phases ==
  /\ session.established => ~session.setupInFlight /\ session.setupGeneration \in Setups
  /\ session.closed => ~session.established /\ ~session.setupInFlight
  /\ ~session.closed => session.setupGeneration <= MaxSetups

\* A socket that somebody awaits is the one of its setup, or of a
\* reconnection that only close() cuts short.
Awaited ==
  /\ \A s \in Sockets :
       /\ socket[s].state = "connecting" => socket[s].awaiter # None
       /\ socket[s].state = "open" => socket[s].awaiter = None
       /\ socket[s].awaiter \in Setups =>
            /\ setup[socket[s].awaiter].stage = "connecting"
            /\ socket[s].awaiter <= session.setupGeneration
  /\ \A s, t \in Sockets : socket[s].awaiter \in Setups /\ socket[s].awaiter = socket[t].awaiter => s = t
  /\ \A s \in Sockets : socket[s].awaiter = Reconnect =>
       /\ Live(s) => session.established
       /\ socket[s].state = "closing" => session.closed

\* The timer runs only for an established session without a live socket.
TimerJustified ==
  session.reconnectTimer =>
    session.established /\ (session.signaling # None => ~Live(session.signaling))

\* A setup has no socket before its lobby and no lobby but its own.
SetupOrdered ==
  \A g \in Setups : Active(g) =>
    /\ setup[g].stage = "loading" => session.signaling = None
    /\ setup[g].stage = "connecting" => session.lobby = g

SessionInv ==
  /\ SessionTypeOK
  /\ Phases
  /\ Awaited
  /\ TimerJustified
  /\ SetupOrdered
  /\ OneLiveSocket
  /\ CallerAgrees
  /\ CancelledSessionRests

-------------------------------------------------------------------------------
\* A new session satisfies the invariant.
LEMMA InvInit == Init => SessionInv
BY SessionAssumption DEF Init, SessionInv, SessionTypeOK, Session, Setup, Socket, Setups, Reconnect, Phases,
  Awaited, TimerJustified, SetupOrdered, OneLiveSocket, CallerAgrees, CancelledSessionRests, Active, Live

-------------------------------------------------------------------------------
(* What the parts of the handlers return, in the fields the invariant       *)
(* speaks of.                                                               *)

Lives(x) == x.state \in {"connecting", "open"}

\* b has the fields of a but those of the reconnection.
SamePhase(a, b) ==
  /\ b.closed = a.closed /\ b.established = a.established /\ b.setupInFlight = a.setupInFlight
  /\ b.setupGeneration = a.setupGeneration /\ b.lobby = a.lobby /\ b.signaling = a.signaling

\* b rests: nothing is under way in it.
AtRest(b) ==
  /\ ~b.established /\ ~b.setupInFlight /\ ~b.reconnectTimer /\ b.signaling = None

\* An attempt that is not the last leaves room for another.
LEMMA AttemptsType ==
  ASSUME NEW n \in 0 .. MaxAttempts, ~(n >= MaxAttempts)
  PROVE  n + 1 \in 0 .. MaxAttempts
BY SessionAssumption

\* #scheduleReconnect starts the timer of an established session only.
LEMMA ScheduledEffect ==
  ASSUME NEW ses \in Session
  PROVE  /\ Scheduled(ses) \in Session
         /\ SamePhase(ses, Scheduled(ses))
         /\ Scheduled(ses).reconnectTimer => ses.reconnectTimer \/ ses.established
<1>1. CASE ses.closed \/ ~ses.established \/ ses.reconnectTimer \/ ses.reconnectInFlight
  BY <1>1 DEF Scheduled, SamePhase
<1>2. CASE ~(ses.closed \/ ~ses.established \/ ses.reconnectTimer \/ ses.reconnectInFlight) /\ UsedUp(ses)
  BY <1>2 DEF Scheduled, SamePhase, Session
<1>3. CASE ~(ses.closed \/ ~ses.established \/ ses.reconnectTimer \/ ses.reconnectInFlight) /\ ~UsedUp(ses)
  <2>1. ses.reconnectAttempt + 1 \in 0 .. MaxAttempts
    BY <1>3, AttemptsType DEF Session, UsedUp
  <2> QED BY <1>3, <2>1 DEF Scheduled, SamePhase, Session
<1> QED BY <1>1, <1>2, <1>3

\* The end of an attempt touches its flag only.
LEMMA AttemptOverEffect ==
  ASSUME NEW ses \in Session
  PROVE  /\ AttemptOver(ses) \in Session
         /\ SamePhase(ses, AttemptOver(ses))
         /\ AttemptOver(ses).reconnectTimer = ses.reconnectTimer
BY DEF AttemptOver, SamePhase, Session

\* #abortInitialSetup leaves a session at rest, without a lobby.
LEMMA ClearedEffect ==
  ASSUME NEW ses \in Session
  PROVE  /\ Cleared(ses) \in Session
         /\ AtRest(Cleared(ses))
         /\ Cleared(ses).lobby = None
         /\ Cleared(ses).closed = ses.closed
         /\ Cleared(ses).setupGeneration = ses.setupGeneration
BY DEF Cleared, AtRest, Session

\* close() leaves a session at rest, whatever it was doing.
LEMMA ClosedSessionEffect ==
  ASSUME NEW ses \in Session, ses.setupGeneration <= MaxSetups
  PROVE  /\ ClosedSession(ses) \in Session
         /\ AtRest(ClosedSession(ses))
         /\ ClosedSession(ses).closed
         /\ ClosedSession(ses).setupGeneration = ses.setupGeneration + 1
<1>1. ses.setupGeneration + 1 \in 0 .. MaxSetups + 1
  BY SessionAssumption DEF Session
<1>2. Cleared(ses) \in Session /\ Cleared(ses).setupGeneration = ses.setupGeneration /\ AtRest(Cleared(ses))
  BY ClearedEffect
<1>3. (IF ses.setupInFlight /\ ~ses.established THEN None ELSE ses.lobby) \in Setups \cup {None}
  BY DEF Session
<1> QED BY <1>1, <1>2, <1>3 DEF ClosedSession, AtRest, Session

\* The session's socket is closing, and it is the only one that was alive.
LEMMA ClosedSocketEffect ==
  ASSUME SessionTypeOK, OneLiveSocket
  PROVE  /\ ClosedSocket \in [Sockets -> Socket]
         /\ \A s \in Sockets :
              /\ ClosedSocket[s].awaiter = socket[s].awaiter
              /\ ~Lives(ClosedSocket[s])
              /\ Lives(socket[s]) => ClosedSocket[s].state = "closing"
              /\ ~Lives(socket[s]) => ClosedSocket[s] = socket[s]
BY DEF ClosedSocket, SessionTypeOK, OneLiveSocket, Socket, Lives

-------------------------------------------------------------------------------
(* A session that comes to rest: close(), and the end of a setup.           *)

\* Nothing lives, nothing is pending and nobody's stage has moved but to the
\* end, of a setup no socket was awaited by.
ComesToRest ==
  /\ session' \in Session /\ AtRest(session')
  /\ session'.setupGeneration \in {session.setupGeneration, session.setupGeneration + 1}
  /\ \/ session'.closed
     \/ /\ session'.closed = session.closed /\ session'.setupGeneration = session.setupGeneration
        /\ session'.lobby = None
  /\ setup' \in [Setups -> Setup]
  /\ \A g \in Setups : setup'[g].result # "pending"
  /\ socket' \in [Sockets -> Socket]
  /\ \A s \in Sockets :
       /\ ~Lives(socket'[s])
       /\ socket'[s].awaiter = socket[s].awaiter \/ socket'[s].awaiter = None
       /\ socket'[s].awaiter \in Setups => setup'[socket'[s].awaiter].stage = "connecting"
       /\ socket'[s].awaiter = Reconnect /\ socket'[s].state = "closing" => session'.closed

\* A session that comes to rest keeps the invariant.
LEMMA RestKeeps ==
  ASSUME SessionInv, ComesToRest
  PROVE  SessionInv'
<1> USE SessionAssumption
<1>1. SessionTypeOK'
  BY DEF ComesToRest, SessionTypeOK
<1>2. Phases'
  BY DEF ComesToRest, SessionInv, Phases, AtRest
<1>3. Awaited'
  <2>1. \A s \in Sockets : ~Live(s)' /\ socket'[s].state \notin {"connecting", "open"}
    BY DEF ComesToRest, Lives, Live
  <2>2. \A s \in Sockets : socket'[s].awaiter \in Setups =>
          /\ setup'[socket'[s].awaiter].stage = "connecting"
          /\ socket'[s].awaiter <= session'.setupGeneration
    BY DEF ComesToRest, SessionInv, Awaited, SessionTypeOK, Session, Setups
  <2>3. \A s, t \in Sockets : socket'[s].awaiter \in Setups /\ socket'[s].awaiter = socket'[t].awaiter => s = t
    BY DEF ComesToRest, SessionInv, Awaited, Setups
  <2>4. \A s \in Sockets : socket'[s].awaiter = Reconnect /\ socket'[s].state = "closing" => session'.closed
    BY DEF ComesToRest
  <2> QED BY <2>1, <2>2, <2>3, <2>4 DEF Awaited
<1>4. TimerJustified'
  BY DEF ComesToRest, AtRest, TimerJustified
<1>5. SetupOrdered'
  BY DEF ComesToRest, AtRest, SetupOrdered, Active
<1>6. OneLiveSocket'
  BY DEF ComesToRest, OneLiveSocket, Lives
<1>7. CallerAgrees'
  BY DEF ComesToRest, AtRest, CallerAgrees
<1>8. CancelledSessionRests'
  BY DEF ComesToRest, AtRest, CancelledSessionRests
<1> QED BY <1>1, <1>2, <1>3, <1>4, <1>5, <1>6, <1>7, <1>8 DEF SessionInv

\* close(), in the middle of anything.
LEMMA CloseSessionKeeps ==
  ASSUME SessionInv, CloseSession
  PROVE  SessionInv'
<1>1. /\ session' \in Session /\ AtRest(session') /\ session'.closed
      /\ session'.setupGeneration = session.setupGeneration + 1
  BY ClosedSessionEffect DEF CloseSession, SessionInv, SessionTypeOK, Phases
<1>2. /\ setup' \in [Setups -> Setup]
      /\ \A g \in Setups : setup'[g].result # "pending" /\ setup'[g].stage = setup[g].stage
  BY DEF CloseSession, SessionInv, SessionTypeOK, Setup
<1>3. /\ socket' \in [Sockets -> Socket]
      /\ \A s \in Sockets : socket'[s].awaiter = socket[s].awaiter /\ ~Lives(socket'[s])
  BY ClosedSocketEffect DEF CloseSession, SessionInv
<1>4. \A s \in Sockets : socket'[s].awaiter \in Setups => setup'[socket'[s].awaiter].stage = "connecting"
  BY <1>2, <1>3 DEF SessionInv, Awaited
<1>5. ComesToRest
  BY <1>1, <1>2, <1>3, <1>4 DEF ComesToRest
<1> QED BY <1>5, RestKeeps

-------------------------------------------------------------------------------
(* The end of a setup.                                                      *)

\* A caller without an answer is the only one, of the latest setup.
LEMMA PendingIsActive ==
  ASSUME SessionInv, NEW g \in Setups, setup[g].result = "pending"
  PROVE  /\ Active(g) /\ session.setupGeneration = g
         /\ ~session.closed /\ ~session.established
         /\ \A h \in Setups : setup[h].result = "pending" => h = g
BY DEF SessionInv, CallerAgrees, Active, Phases

\* The rejection of a setup, in time or of one that is long over.
LEMMA RejectedKeeps ==
  ASSUME SessionInv, NEW g \in Setups, NEW stage, Rejected(g, stage),
         stage = setup[g].stage \/ (stage = "over" /\ setup[g].stage = "loading")
  PROVE  SessionInv'
<1>1. /\ setup' \in [Setups -> Setup]
      /\ setup'[g].stage = stage /\ setup'[g].result # "pending"
      /\ setup[g].result # "pending" => setup'[g].result = setup[g].result
      /\ \A h \in Setups \ {g} : setup'[h] = setup[h]
  BY DEF Rejected, SessionInv, SessionTypeOK, Setup
<1>2. CASE setup[g].result = "pending"
  <2>1. session' = Cleared(session) /\ socket' = ClosedSocket
    BY <1>2, PendingIsActive DEF Rejected
  <2>2. /\ session' \in Session /\ AtRest(session') /\ session'.lobby = None
        /\ session'.closed = session.closed /\ session'.setupGeneration = session.setupGeneration
    BY <2>1, ClearedEffect DEF SessionInv, SessionTypeOK
  <2>3. \A h \in Setups : setup'[h].result # "pending"
    BY <1>1, <1>2, PendingIsActive
  <2>4. /\ socket' \in [Sockets -> Socket]
        /\ \A s \in Sockets : ~Lives(socket'[s]) /\ socket'[s].awaiter = socket[s].awaiter
    BY <2>1, ClosedSocketEffect DEF SessionInv
  <2>5. \A s \in Sockets : socket'[s].awaiter \in Setups => setup'[socket'[s].awaiter].stage = "connecting"
    BY <1>1, <2>4 DEF SessionInv, Awaited
  <2>6. \A s \in Sockets : socket'[s].awaiter = Reconnect /\ socket'[s].state = "closing" => session'.closed
    BY <1>2, <2>1, <2>2, PendingIsActive, ClosedSocketEffect DEF SessionInv, Awaited, Live, Lives
  <2> QED BY <1>1, <2>2, <2>3, <2>4, <2>5, <2>6, RestKeeps DEF ComesToRest
<1>3. CASE setup[g].result # "pending"
  <2>1. UNCHANGED <<session, socket>>
    BY <1>3 DEF Rejected
  <2>2. \A h \in Setups : setup'[h].result = setup[h].result
    BY <1>1, <1>3
  <2>3. \A h \in Setups : setup'[h].stage = setup[h].stage
                           \/ (setup'[h].stage = "over" /\ setup[h].stage = "loading")
    BY <1>1
  <2>4. SessionTypeOK' /\ Phases' /\ TimerJustified' /\ OneLiveSocket' /\ CancelledSessionRests'
    BY <1>1, <2>1 DEF SessionInv, SessionTypeOK, Phases, TimerJustified, OneLiveSocket, CancelledSessionRests, Live
  <2>5. Awaited'
    BY <2>1, <2>3 DEF SessionInv, Awaited, Live
  <2>6. SetupOrdered'
    BY <2>1, <2>3 DEF SessionInv, SetupOrdered, Active
  <2>7. CallerAgrees'
    BY <2>1, <2>2 DEF SessionInv, CallerAgrees, Active, Phases
  <2> QED BY <2>4, <2>5, <2>6, <2>7 DEF SessionInv
<1> QED BY <1>2, <1>3

\* The service refuses the setup.
LEMMA LoadFailedKeeps ==
  ASSUME SessionInv, NEW g \in Setups, LoadFailed(g)
  PROVE  SessionInv'
BY RejectedKeeps DEF LoadFailed

\* The time limit of a setup passes.
LEMMA SetupTimeoutKeeps ==
  ASSUME SessionInv, NEW g \in Setups, SetupTimeout(g)
  PROVE  SessionInv'
BY RejectedKeeps DEF SetupTimeout

-------------------------------------------------------------------------------
(* The end of a socket, with or without a reconnection.                     *)

\* Socket s is closed; the setup that awaited it, if any, is over.
SocketEnds(s) ==
  /\ session' \in Session /\ SamePhase(session, session')
  /\ session'.reconnectTimer => session.reconnectTimer \/ (session.established /\ session.signaling = s)
  /\ setup' \in [Setups -> Setup]
  /\ \A g \in Setups :
       /\ setup'[g].result = setup[g].result
       /\ \/ setup'[g].stage = setup[g].stage
          \/ setup'[g].stage = "over" /\ socket[s].awaiter = g
  /\ socket' = [socket EXCEPT ![s] = [state |-> "closed", awaiter |-> None]]

\* The end of a socket keeps the invariant; only that of the session starts the timer.
LEMMA SocketEndsKeeps ==
  ASSUME SessionInv, NEW s \in Sockets, SocketEnds(s)
  PROVE  SessionInv'
<1> USE SessionAssumption
<1>1. /\ socket' \in [Sockets -> Socket]
      /\ socket'[s].state = "closed" /\ socket'[s].awaiter = None
      /\ \A t \in Sockets \ {s} : socket'[t] = socket[t]
  BY DEF SocketEnds, SessionInv, SessionTypeOK, Socket
<1>2. SessionTypeOK'
  BY <1>1 DEF SocketEnds, SessionTypeOK
<1>3. Phases'
  BY DEF SocketEnds, SamePhase, SessionInv, Phases
<1>4. Awaited'
  BY <1>1 DEF SocketEnds, SamePhase, SessionInv, Awaited, Live, Setups, Reconnect
<1>5. TimerJustified'
  BY <1>1 DEF SocketEnds, SamePhase, SessionInv, TimerJustified, SessionTypeOK, Session, Live
<1>6. SetupOrdered'
  BY DEF SocketEnds, SamePhase, SessionInv, SetupOrdered, Active
<1>7. OneLiveSocket'
  BY <1>1 DEF SocketEnds, SamePhase, SessionInv, OneLiveSocket
<1>8. CallerAgrees'
  BY DEF SocketEnds, SamePhase, SessionInv, CallerAgrees, Active, Phases
<1>9. CancelledSessionRests'
  BY DEF SocketEnds, SamePhase, SessionInv, CancelledSessionRests
<1> QED BY <1>2, <1>3, <1>4, <1>5, <1>6, <1>7, <1>8, <1>9 DEF SessionInv

\* #scheduleReconnect, called for a session as it is.
LEMMA ScheduledOnce ==
  ASSUME SessionInv
  PROVE  /\ Scheduled(session) \in Session /\ SamePhase(session, Scheduled(session))
         /\ Scheduled(session).reconnectTimer => session.reconnectTimer \/ session.established
BY ScheduledEffect DEF SessionInv, SessionTypeOK

\* #scheduleReconnect after a failed attempt, once and twice.
LEMMA ScheduledAfterAttempt ==
  ASSUME SessionInv
  PROVE  LET once == Scheduled(AttemptOver(session)) IN
         \A ses \in {once, Scheduled(once)} :
           /\ ses \in Session /\ SamePhase(session, ses)
           /\ ses.reconnectTimer => session.reconnectTimer \/ session.established
<1> DEFINE over == AttemptOver(session)
           once == Scheduled(over)
<1>1. /\ over \in Session /\ SamePhase(session, over)
      /\ over.reconnectTimer = session.reconnectTimer
  BY AttemptOverEffect DEF SessionInv, SessionTypeOK
<1>2. /\ once \in Session /\ SamePhase(over, once)
      /\ once.reconnectTimer => over.reconnectTimer \/ over.established
  BY <1>1, ScheduledEffect
<1>3. /\ Scheduled(once) \in Session /\ SamePhase(once, Scheduled(once))
      /\ Scheduled(once).reconnectTimer => once.reconnectTimer \/ once.established
  BY <1>2, ScheduledEffect
<1> HIDE DEF over, once
<1>4. \A ses \in {once, Scheduled(once)} :
        /\ ses \in Session /\ SamePhase(session, ses)
        /\ ses.reconnectTimer => session.reconnectTimer \/ session.established
  BY <1>1, <1>2, <1>3 DEF SamePhase
<1> QED BY <1>4 DEF over, once

\* An open socket is lost.
LEMMA SocketLostKeeps ==
  ASSUME SessionInv, NEW s \in Sockets, SocketLost(s)
  PROVE  SessionInv'
<1>1. session' \in Session /\ SamePhase(session, session')
  BY ScheduledOnce DEF SocketLost, SessionInv, SessionTypeOK, SamePhase
<1>2. session'.reconnectTimer => session.reconnectTimer \/ (session.established /\ session.signaling = s)
  BY ScheduledOnce DEF SocketLost
<1>3. socket' = [socket EXCEPT ![s] = [state |-> "closed", awaiter |-> None]]
  <2>1. socket[s].awaiter = None
    BY DEF SocketLost, SessionInv, Awaited
  <2>2. socket[s] \in Socket
    BY DEF SessionInv, SessionTypeOK
  <2>3. [socket[s] EXCEPT !.state = "closed"] = [state |-> "closed", awaiter |-> None]
    BY <2>1, <2>2 DEF Socket
  <2> QED BY <2>3 DEF SocketLost
<1>4. setup' = setup /\ setup \in [Setups -> Setup]
  BY DEF SocketLost, SessionInv, SessionTypeOK
<1> QED BY <1>1, <1>2, <1>3, <1>4, SocketEndsKeeps DEF SocketEnds

\* A connection is not made.
LEMMA SocketFailedKeeps ==
  ASSUME SessionInv, NEW s \in Sockets, SocketFailed(s)
  PROVE  SessionInv'
<1> DEFINE g == socket[s].awaiter
<1> USE SessionAssumption
<1>1. /\ socket[s].state = "connecting" /\ session.signaling = s
      /\ g \in Setups \cup {Reconnect}
      /\ socket' = [socket EXCEPT ![s] = [state |-> "closed", awaiter |-> None]]
  BY DEF SocketFailed, SessionInv, OneLiveSocket, Awaited, SessionTypeOK, Socket
<1>2. CASE g = Reconnect
  <2>1. session' = Scheduled(Scheduled(AttemptOver(session))) /\ setup' = setup
    BY <1>2 DEF SocketFailed
  <2>2. /\ session' \in Session /\ SamePhase(session, session')
        /\ session'.reconnectTimer => session.reconnectTimer \/ session.established
    BY <2>1, ScheduledAfterAttempt
  <2> QED BY <1>1, <2>1, <2>2, SocketEndsKeeps DEF SocketEnds, SessionInv, SessionTypeOK
<1>3. CASE g \in Setups
  <2>1. /\ setup' = [setup EXCEPT ![g] =
                     [stage |-> "over", result |-> IF @.result = "pending" THEN "error" ELSE @.result]]
        /\ session' = IF setup[g].result = "pending" /\ session.setupGeneration = g
                      THEN Cleared(session) ELSE session
    BY <1>3 DEF SocketFailed, Setups, Reconnect
  <2>2. /\ setup' \in [Setups -> Setup]
        /\ setup'[g].stage = "over" /\ setup'[g].result # "pending"
        /\ setup[g].result # "pending" => setup'[g].result = setup[g].result
        /\ \A h \in Setups \ {g} : setup'[h] = setup[h]
    BY <1>3, <2>1 DEF SessionInv, SessionTypeOK, Setup
  <2>3. CASE setup[g].result = "pending"
    <3>1. /\ session' \in Session /\ AtRest(session') /\ session'.lobby = None
          /\ session'.closed = session.closed /\ session'.setupGeneration = session.setupGeneration
      BY <1>3, <2>1, <2>3, PendingIsActive, ClearedEffect DEF SessionInv, SessionTypeOK
    <3>2. \A h \in Setups : setup'[h].result # "pending"
      BY <1>3, <2>2, <2>3, PendingIsActive
    <3>3. /\ socket' \in [Sockets -> Socket]
          /\ \A t \in Sockets : ~Lives(socket'[t])
          /\ socket'[s].awaiter = None /\ socket'[s].state = "closed"
          /\ \A t \in Sockets \ {s} : socket'[t] = socket[t]
      BY <1>1 DEF SessionInv, SessionTypeOK, OneLiveSocket, Socket, Lives
    <3>4. \A t \in Sockets : socket'[t].awaiter \in Setups => setup'[socket'[t].awaiter].stage = "connecting"
      BY <1>3, <2>2, <3>3 DEF SessionInv, Awaited, Setups
    <3>5. \A t \in Sockets : socket'[t].awaiter = Reconnect /\ socket'[t].state = "closing" => session'.closed
      BY <3>1, <3>3 DEF SessionInv, Awaited, Reconnect
    <3> QED BY <2>2, <3>1, <3>2, <3>3, <3>4, <3>5, RestKeeps DEF ComesToRest
  <2>4. CASE setup[g].result # "pending"
    <3>1. session' = session
      BY <2>1, <2>4
    <3>2. \A h \in Setups :
            /\ setup'[h].result = setup[h].result
            /\ \/ setup'[h].stage = setup[h].stage
               \/ setup'[h].stage = "over" /\ socket[s].awaiter = h
      BY <2>2, <2>4
    <3> QED BY <1>1, <2>2, <3>1, <3>2, SocketEndsKeeps DEF SocketEnds, SamePhase, SessionInv, SessionTypeOK
  <2> QED BY <2>3, <2>4
<1> QED BY <1>1, <1>2, <1>3

\* A socket the session has closed is closed.
LEMMA SocketClosedKeeps ==
  ASSUME SessionInv, NEW s \in Sockets, SocketClosed(s)
  PROVE  SessionInv'
<1> DEFINE g == socket[s].awaiter
<1> USE SessionAssumption
<1>1. /\ socket[s].state = "closing"
      /\ socket' = [socket EXCEPT ![s] = [state |-> "closed", awaiter |-> None]]
  BY DEF SocketClosed
<1>2. /\ session' \in Session /\ SamePhase(session, session')
      /\ session'.reconnectTimer => session.reconnectTimer
  <2>1. CASE g = Reconnect
    <3>1. session.closed /\ ~session.established
      BY <1>1, <2>1 DEF SessionInv, Awaited, Phases
    <3>2. session' = Scheduled(AttemptOver(session))
      BY <2>1 DEF SocketClosed
    <3> QED BY <3>1, <3>2, ScheduledAfterAttempt
  <2>2. CASE g # Reconnect
    BY <2>2 DEF SocketClosed, SessionInv, SessionTypeOK, SamePhase
  <2> QED BY <2>1, <2>2
<1>3. /\ setup' \in [Setups -> Setup]
      /\ \A h \in Setups :
           /\ setup'[h].result = setup[h].result
           /\ \/ setup'[h].stage = setup[h].stage
              \/ setup'[h].stage = "over" /\ socket[s].awaiter = h
  BY DEF SocketClosed, SessionInv, SessionTypeOK, Setup
<1> QED BY <1>1, <1>2, <1>3, SocketEndsKeeps DEF SocketEnds

-------------------------------------------------------------------------------
(* The steps that begin something.                                          *)

\* host() and join(), up to their first await.
LEMMA BeginSetupKeeps ==
  ASSUME SessionInv, BeginSetup
  PROVE  SessionInv'
<1> DEFINE g == session.setupGeneration + 1
<1> USE SessionAssumption
<1>1. /\ g \in Setups /\ socket' = socket
      /\ session' = [session EXCEPT !.setupGeneration = g, !.setupInFlight = TRUE]
      /\ setup' = [setup EXCEPT ![g] = [stage |-> "loading", result |-> "pending"]]
      /\ ~session.closed /\ ~session.setupInFlight /\ ~session.established
      /\ ~session.reconnectTimer /\ session.signaling = None /\ session.lobby = None
  BY DEF BeginSetup, SessionInv, CancelledSessionRests
<1> HIDE DEF g
<1>2. /\ session' \in Session /\ session'.setupGeneration = g /\ session'.setupInFlight
      /\ ~session'.closed /\ ~session'.established /\ ~session'.reconnectTimer
      /\ session'.signaling = None /\ session'.lobby = None
  <2>1. g \in 0 .. MaxSetups + 1
    BY <1>1 DEF Setups
  <2> QED BY <1>1, <2>1 DEF SessionInv, SessionTypeOK, Session
<1>3. /\ setup' \in [Setups -> Setup]
      /\ setup'[g].stage = "loading"
      /\ \A h \in Setups \ {g} : setup'[h] = setup[h] /\ setup[h].result # "pending"
  BY <1>1 DEF SessionInv, SessionTypeOK, Setup, CallerAgrees, Active
<1>4. \A s \in Sockets : socket[s].awaiter \in Setups =>
        socket[s].awaiter # g /\ socket[s].awaiter <= session'.setupGeneration
  BY <1>2 DEF g, SessionInv, Awaited, SessionTypeOK, Session, Setups
<1>5. Awaited'
  BY <1>1, <1>2, <1>3, <1>4 DEF SessionInv, Awaited, Live
<1>6. \A s \in Sockets : socket'[s].state \notin {"connecting", "open"}
  BY <1>1 DEF SessionInv, OneLiveSocket, SessionTypeOK
<1>7. SessionTypeOK' /\ Phases' /\ TimerJustified' /\ OneLiveSocket' /\ CancelledSessionRests'
  BY <1>1, <1>2, <1>3, <1>6 DEF SessionInv, SessionTypeOK, Phases, TimerJustified, OneLiveSocket,
    CancelledSessionRests, Setups
<1>8. SetupOrdered' /\ CallerAgrees'
  BY <1>1, <1>2, <1>3 DEF SetupOrdered, CallerAgrees, Active
<1> QED BY <1>5, <1>7, <1>8 DEF SessionInv

\* An answer to a setup, in time or late.
LEMMA LoadAnsweredKeeps ==
  ASSUME SessionInv, NEW g \in Setups, LoadAnswered(g)
  PROVE  SessionInv'
<1> USE SessionAssumption
<1>1. CASE Active(g)
  <2>1. PICK s \in Sockets :
          /\ Free(s)
          /\ session' = [session EXCEPT !.lobby = g, !.signaling = s]
          /\ Connecting(s, g)
          /\ setup' = [setup EXCEPT ![g].stage = "connecting"]
    BY <1>1 DEF LoadAnswered
  <2>2. /\ setup[g].stage = "loading" /\ session.signaling = None /\ session.setupGeneration = g
        /\ ~session.closed /\ ~session.established /\ session.setupInFlight /\ ~session.reconnectTimer
    BY <1>1 DEF LoadAnswered, Active, SessionInv, SetupOrdered, Phases, TimerJustified
  <2>3. /\ session' \in Session /\ session'.lobby = g /\ session'.signaling = s
        /\ session'.setupGeneration = g /\ session'.setupInFlight
        /\ ~session'.closed /\ ~session'.established /\ ~session'.reconnectTimer
    BY <2>1, <2>2 DEF SessionInv, SessionTypeOK, Session
  <2>4. /\ setup' \in [Setups -> Setup]
        /\ setup'[g].stage = "connecting" /\ setup'[g].result = setup[g].result
        /\ \A h \in Setups \ {g} : setup'[h] = setup[h]
    BY <2>1 DEF SessionInv, SessionTypeOK, Setup
  <2>5. /\ socket' \in [Sockets -> Socket]
        /\ socket'[s].state = "connecting" /\ socket'[s].awaiter = g
        /\ \A t \in Sockets \ {s} : socket'[t] = socket[t]
    BY <2>1 DEF Connecting, SessionInv, SessionTypeOK, Socket
  <2>6. \A t \in Sockets : socket[t].state \notin {"connecting", "open"} /\ socket[t].awaiter # g
    BY <2>2 DEF SessionInv, OneLiveSocket, Awaited, SessionTypeOK
  <2>7. Awaited'
    BY <2>2, <2>3, <2>4, <2>5, <2>6 DEF SessionInv, Awaited, Live, Setups, Reconnect
  <2>8. SessionTypeOK' /\ Phases' /\ TimerJustified' /\ OneLiveSocket' /\ CancelledSessionRests'
    BY <2>3, <2>4, <2>5, <2>6 DEF SessionTypeOK, Phases, TimerJustified, OneLiveSocket,
      CancelledSessionRests, Setups
  <2>9. SetupOrdered' /\ CallerAgrees'
    BY <2>2, <2>3, <2>4 DEF SessionInv, SetupOrdered, CallerAgrees, Active
  <2> QED BY <2>7, <2>8, <2>9 DEF SessionInv
<1>2. CASE ~Active(g)
  BY <1>2, RejectedKeeps DEF LoadAnswered
<1> QED BY <1>1, <1>2

\* A connection is made: of the timer, of the setup, or of one that is over.
LEMMA SocketOpenedKeeps ==
  ASSUME SessionInv, NEW s \in Sockets, SocketOpened(s)
  PROVE  SessionInv'
<1> DEFINE g == socket[s].awaiter
<1> USE SessionAssumption
<1>1. /\ socket[s].state = "connecting" /\ session.signaling = s
      /\ g \in Setups \cup {Reconnect} /\ ~session.reconnectTimer
  BY DEF SocketOpened, SessionInv, OneLiveSocket, Awaited, TimerJustified, Live, SessionTypeOK, Socket
<1>2. /\ socket' \in [Sockets -> Socket]
      /\ socket'[s].state = "open" /\ socket'[s].awaiter = None
      /\ \A t \in Sockets \ {s} : socket'[t] = socket[t]
      /\ \A t \in Sockets \ {s} : socket[t].state \notin {"connecting", "open"}
  BY <1>1 DEF SocketOpened, SessionInv, SessionTypeOK, OneLiveSocket, Socket
<1>3. CASE g = Reconnect
  <2>1. session' = [session EXCEPT !.reconnectInFlight = FALSE] /\ setup' = setup
    BY <1>3 DEF SocketOpened, Setups, Reconnect
  <2>2. session' \in Session /\ SamePhase(session, session') /\ ~session'.reconnectTimer
    BY <1>1, <2>1 DEF SessionInv, SessionTypeOK, Session, SamePhase
  <2>3. Awaited'
    BY <1>2, <2>1, <2>2 DEF SamePhase, SessionInv, Awaited, Live, Setups, Reconnect
  <2>4. SessionTypeOK' /\ Phases' /\ TimerJustified' /\ OneLiveSocket' /\ CancelledSessionRests'
    BY <1>1, <1>2, <2>1, <2>2 DEF SamePhase, SessionInv, SessionTypeOK, Phases, TimerJustified,
      OneLiveSocket, CancelledSessionRests
  <2>5. SetupOrdered' /\ CallerAgrees'
    BY <2>1, <2>2 DEF SamePhase, SessionInv, SetupOrdered, CallerAgrees, Active, Phases
  <2> QED BY <2>3, <2>4, <2>5 DEF SessionInv
<1>4. CASE g \in Setups /\ Active(g)
  <2>1. /\ session' = [session EXCEPT !.setupInFlight = FALSE, !.established = TRUE]
        /\ setup' = [setup EXCEPT ![g] = [stage |-> "over", result |-> "lobby"]]
    BY <1>4 DEF SocketOpened, Setups, Reconnect
  <2>2. session.lobby = g /\ session.setupGeneration = g /\ ~session.closed
    BY <1>1, <1>4 DEF SessionInv, Awaited, SetupOrdered, Active
  <2>3. /\ session' \in Session /\ session'.lobby = g /\ session'.signaling = s
        /\ session'.setupGeneration = g /\ ~session'.setupInFlight
        /\ ~session'.closed /\ session'.established /\ ~session'.reconnectTimer
    BY <1>1, <2>1, <2>2 DEF SessionInv, SessionTypeOK, Session
  <2>4. /\ setup' \in [Setups -> Setup]
        /\ setup'[g].result = "lobby"
        /\ \A h \in Setups \ {g} : setup'[h] = setup[h] /\ setup'[h].result # "pending"
    BY <1>4, <2>1, <2>2 DEF SessionInv, SessionTypeOK, Setup, CallerAgrees, Active
  <2>5. \A t \in Sockets \ {s} : socket[t].awaiter \in Setups => socket[t].awaiter # g
    BY <1>4 DEF SessionInv, Awaited
  <2>6. \A t \in Sockets : socket'[t].awaiter \in Setups =>
          /\ setup'[socket'[t].awaiter].stage = "connecting"
          /\ socket'[t].awaiter <= session'.setupGeneration
    BY <1>2, <2>2, <2>3, <2>4, <2>5 DEF SessionInv, Awaited, Setups
  <2>7. Awaited'
    BY <1>2, <2>2, <2>3, <2>6 DEF SessionInv, Awaited, Live, Setups, Reconnect
  <2>8. SessionTypeOK' /\ Phases' /\ TimerJustified' /\ OneLiveSocket' /\ CancelledSessionRests'
    BY <1>2, <1>4, <2>3, <2>4 DEF SessionTypeOK, Phases, TimerJustified, OneLiveSocket,
      CancelledSessionRests, Setups
  <2>9. SetupOrdered' /\ CallerAgrees'
    BY <1>4, <2>3, <2>4 DEF SetupOrdered, CallerAgrees, Active
  <2> QED BY <2>7, <2>8, <2>9 DEF SessionInv
<1>5. CASE g \in Setups /\ ~Active(g)
  <2>1. session' = session /\ setup' = [setup EXCEPT ![g].stage = "over"]
    BY <1>5 DEF SocketOpened, Setups, Reconnect
  <2>2. /\ setup' \in [Setups -> Setup]
        /\ \A h \in Setups : setup'[h].result = setup[h].result
        /\ \A h \in Setups \ {g} : setup'[h] = setup[h]
    BY <1>5, <2>1 DEF SessionInv, SessionTypeOK, Setup
  <2>3. \A t \in Sockets \ {s} : socket[t].awaiter \in Setups => socket[t].awaiter # g
    BY <1>5 DEF SessionInv, Awaited
  <2>4. Awaited'
    <3>1. \A t \in Sockets : socket'[t].awaiter \in Setups =>
            /\ setup'[socket'[t].awaiter].stage = "connecting"
            /\ socket'[t].awaiter <= session'.setupGeneration
      BY <1>2, <2>1, <2>2, <2>3 DEF SessionInv, Awaited, Setups
    <3> QED BY <1>2, <2>1, <3>1 DEF SessionInv, Awaited, Live, Setups, Reconnect
  <2>5. SessionTypeOK' /\ Phases' /\ TimerJustified' /\ OneLiveSocket' /\ CancelledSessionRests'
    BY <1>1, <1>2, <2>1, <2>2 DEF SessionInv, SessionTypeOK, Phases, TimerJustified,
      OneLiveSocket, CancelledSessionRests
  <2>6. SetupOrdered' /\ CallerAgrees'
    BY <1>5, <2>1, <2>2 DEF SessionInv, SetupOrdered, CallerAgrees, Active, Phases
  <2> QED BY <2>4, <2>5, <2>6 DEF SessionInv
<1> QED BY <1>1, <1>3, <1>4, <1>5

\* The timer fires: the old socket is dead, so the new one is alone.
LEMMA ReconnectTimerKeeps ==
  ASSUME SessionInv, ReconnectTimer
  PROVE  SessionInv'
<1> USE SessionAssumption
<1>1. PICK s \in Sockets :
        /\ Free(s)
        /\ session' = [session EXCEPT !.reconnectTimer = FALSE, !.reconnectInFlight = TRUE,
                                      !.signaling = s]
        /\ Connecting(s, Reconnect)
  BY DEF ReconnectTimer
<1>2. /\ session.reconnectTimer /\ setup' = setup
      /\ session.established /\ ~session.closed /\ ~session.setupInFlight
  BY DEF ReconnectTimer, SessionInv, TimerJustified, Phases
<1>3. /\ session' \in Session /\ session'.signaling = s /\ ~session'.reconnectTimer
      /\ session'.closed = session.closed /\ session'.established = session.established
      /\ session'.setupInFlight = session.setupInFlight /\ session'.lobby = session.lobby
      /\ session'.setupGeneration = session.setupGeneration
  BY <1>1 DEF SessionInv, SessionTypeOK, Session
<1>4. /\ socket' \in [Sockets -> Socket]
      /\ socket'[s].state = "connecting" /\ socket'[s].awaiter = Reconnect
      /\ \A t \in Sockets \ {s} : socket'[t] = socket[t]
  BY <1>1 DEF Connecting, SessionInv, SessionTypeOK, Socket
<1>5. \A t \in Sockets : socket[t].state \notin {"connecting", "open"}
  BY <1>2 DEF SessionInv, OneLiveSocket, TimerJustified, Live
<1>6. Awaited'
  BY <1>2, <1>3, <1>4, <1>5 DEF SessionInv, Awaited, Live, Setups, Reconnect
<1>7. SessionTypeOK' /\ Phases' /\ TimerJustified' /\ OneLiveSocket' /\ CancelledSessionRests'
  BY <1>2, <1>3, <1>4, <1>5 DEF SessionInv, SessionTypeOK, Phases, TimerJustified, OneLiveSocket,
    CancelledSessionRests
<1>8. SetupOrdered' /\ CallerAgrees'
  BY <1>2, <1>3 DEF SessionInv, SetupOrdered, CallerAgrees, Active, Phases
<1> QED BY <1>6, <1>7, <1>8 DEF SessionInv

\* The connected frame changes the count of attempts only.
LEMMA ConnectedFrameKeeps ==
  ASSUME SessionInv, ConnectedFrame
  PROVE  SessionInv'
<1>1. /\ session' \in Session /\ SamePhase(session, session')
      /\ session'.reconnectTimer = session.reconnectTimer
      /\ setup' = setup /\ socket' = socket
  BY SessionAssumption DEF ConnectedFrame, SessionInv, SessionTypeOK, Session, SamePhase
<1>2. SessionTypeOK' /\ Phases' /\ TimerJustified' /\ OneLiveSocket' /\ CancelledSessionRests'
  BY <1>1 DEF SamePhase, SessionInv, SessionTypeOK, Phases, TimerJustified, OneLiveSocket,
    CancelledSessionRests, Live
<1>3. Awaited' /\ SetupOrdered' /\ CallerAgrees'
  BY <1>1 DEF SamePhase, SessionInv, Awaited, SetupOrdered, CallerAgrees, Active, Phases, Live
<1> QED BY <1>2, <1>3 DEF SessionInv

-------------------------------------------------------------------------------
(* The theorems.                                                            *)

\* Every step of the session keeps the invariant.
LEMMA InvStep == SessionInv /\ [SessionStep]_vars => SessionInv'
<1> SUFFICES ASSUME SessionInv, [SessionStep]_vars PROVE SessionInv'
  OBVIOUS
<1>1. CASE BeginSetup
  BY <1>1, BeginSetupKeeps
<1>2. CASE CloseSession
  BY <1>2, CloseSessionKeeps
<1>3. CASE ReconnectTimer
  BY <1>3, ReconnectTimerKeeps
<1>4. CASE ConnectedFrame
  BY <1>4, ConnectedFrameKeeps
<1>5. ASSUME NEW g \in Setups, LoadAnswered(g) \/ LoadFailed(g) \/ SetupTimeout(g)
      PROVE  SessionInv'
  BY <1>5, LoadAnsweredKeeps, LoadFailedKeeps, SetupTimeoutKeeps
<1>6. ASSUME NEW s \in Sockets,
             SocketOpened(s) \/ SocketFailed(s) \/ SocketLost(s) \/ SocketClosed(s)
      PROVE  SessionInv'
  BY <1>6, SocketOpenedKeeps, SocketFailedKeeps, SocketLostKeeps, SocketClosedKeeps
<1>7. CASE UNCHANGED vars
  BY <1>7 DEF vars, SessionInv, SessionTypeOK, Phases, Awaited, TimerJustified, SetupOrdered,
    OneLiveSocket, CallerAgrees, CancelledSessionRests, Active, Live
<1> QED BY <1>1, <1>2, <1>3, <1>4, <1>5, <1>6, <1>7 DEF SessionStep

\* Every behaviour of a session, whatever its setups, time-outs, late
\* answers and lost sockets, keeps the inductive invariant: its flags, its
\* timer and the sockets that are awaited fit together.
THEOREM SessionInvHolds == FairSpec => []SessionInv
BY InvInit, InvStep, PTL DEF FairSpec, Spec

\* The fields of the session, its calls and its sockets keep their types; in
\* particular #scheduleReconnect never counts past reconnectMaxAttempts.
THEOREM SessionTypeCorrect == FairSpec => []SessionTypeOK
<1>1. SessionInv => SessionTypeOK
  BY DEF SessionInv
<1> QED BY <1>1, SessionInvHolds, PTL

\* At most one socket of a session is connecting or open, and it is the one
\* in this.signaling: no cancelled setup, late answer or reconnection leaks one.
THEOREM OneSocketHolds == FairSpec => []OneLiveSocket
<1>1. SessionInv => OneLiveSocket
  BY DEF SessionInv
<1> QED BY <1>1, SessionInvHolds, PTL

\* What the callers of host() and join() were told agrees with the session,
\* for any number of setups that overlap, time out and are answered late.
THEOREM CallerAgreesHolds == FairSpec => []CallerAgrees
<1>1. SessionInv => CallerAgrees
  BY DEF SessionInv
<1> QED BY <1>1, SessionInvHolds, PTL

\* A session that is cancelled, closed or failed leaves no timer and no socket.
THEOREM RestHolds == FairSpec => []CancelledSessionRests
<1>1. SessionInv => CancelledSessionRests
  BY DEF SessionInv
<1> QED BY <1>1, SessionInvHolds, PTL
===============================================================================
