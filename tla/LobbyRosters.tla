----------------------------- MODULE LobbyRosters -----------------------------
(***************************************************************************)
(* The sockets of LobbySockets together with the browsers behind them:     *)
(* each builds a roster of its lobby from the frames it is sent            *)
(* (handleSignalingMessage in src/web/resilient-lobby-session.ts).         *)
(*                                                                         *)
(* A frame that is written reaches its browser, in order.  The history     *)
(* variable `blurred` notes the participants about whom a report went      *)
(* astray in one of the three ways the server's code admits: that is what  *)
(* separates the rosters that must be right from those that may be wrong.  *)
(***************************************************************************)
EXTENDS LobbySockets

VARIABLES
  roster,   \* whom the browser behind each socket believes connected
  blurred   \* history: participants about whom a report went astray, and how

rosterVars == <<roster, blurred>>
allVars == <<vars, rosterVars>>

\* A report is dropped because the shared budget is exhausted; a connection
\* others were told of in their Connected frame ends without a report; two
\* tasks of one participant report at the same time.
Mishaps == {"dropped", "unannounced", "overtaken"}

RosterInit ==
  /\ SocketInit
  /\ roster = [s \in Sockets |-> {}]
  /\ blurred = {}

\* Other tasks of the same participant with reports still to be sent.
Reporting(s, stages) ==
  \E t \in Sockets \ {s} : /\ task[t].lobby = task[s].lobby
                           /\ task[t].participant = task[s].participant
                           /\ task[t].stage \in stages

Blur(participant, mishap, happened) ==
  blurred' = IF happened THEN blurred \cup {<<participant, mishap>>} ELSE blurred

\* The Connected frame will tell who is connected at the registration; the
\* browser adds itself.
RosterRegister(s) ==
  LET me == task[s]
  IN /\ Register(s)
     /\ roster' = [roster EXCEPT ![s] = Connected(lobbies[me.lobby]) \cup {me.participant}]
     /\ Blur(me.participant, "overtaken", Reporting(s, {"farewell"}))

\* The socket is gone, and its browser's roster with it.
RosterFailGreeting(s) ==
  /\ FailGreeting(s)
  /\ roster' = [roster EXCEPT ![s] = {}]
  /\ Blur(task[s].participant, "unannounced", TRUE)

RosterUnregister(s) ==
  LET me == task[s]
  IN /\ Unregister(s)
     /\ roster' = [roster EXCEPT ![s] = {}]
     /\ Blur(me.participant, "overtaken",
             /\ IsCurrent(me.lobby, me.participant, me.id)
             /\ Reporting(s, {"replacing", "greeting", "announcing"}))

RosterSend(s, c) ==
  /\ Send(s, c)
  /\ Blur(task[s].participant, "dropped",
          /\ c.what.kind \in {"connected", "disconnected"}
          /\ Sent(c) # outbox[c.to]
          /\ outbox' = outbox)
  /\ UNCHANGED roster

\* The browser takes the frame in.
RosterAfter(known, frame) ==
  CASE frame.kind = "connected" -> known \cup {frame.from}
    [] frame.kind = "disconnected" -> known \ {frame.from}
    [] frame.kind = "signal" -> known

RosterDeliver(s) ==
  /\ Deliver(s)
  /\ roster' = [roster EXCEPT ![s] = RosterAfter(@, Head(outbox[s].queue))]
  /\ UNCHANGED blurred

\* Steps that tell the browser nothing about others.
SilentStep(s) ==
  \/ \E l \in LobbyIds, p \in ParticipantIds, t \in Tokens : Upgrade(s, l, p, t)
  \/ RefuseRegistration(s)
  \/ Greet(s)
  \/ ObserveCancel(s)
  \/ Break(s)
  \/ \E q \in ParticipantIds : Relay(s, q)

RosterNext ==
  \/ ServiceStep /\ UNCHANGED <<socketVars, rosterVars>>
  \/ \E s \in Sockets :
       \/ SilentStep(s) /\ UNCHANGED rosterVars
       \/ RosterRegister(s)
       \/ RosterFailGreeting(s)
       \/ RosterUnregister(s)
       \/ \E c \in task[s].outgoing : RosterSend(s, c)
       \/ RosterDeliver(s)

RosterSpec == RosterInit /\ [][RosterNext]_allVars

-------------------------------------------------------------------------------
(* Properties.                                                              *)

\* The shape of the state; a queue never outgrows its capacity.
RosterTypeOK ==
  /\ SocketTypeOK
  /\ roster \in [Sockets -> SUBSET ParticipantIds]
  /\ blurred \subseteq ParticipantIds \X Mishaps

\* The socket s has heard everything there is to hear about q: nothing about q
\* waits in its queue and no task of q is on its way in or out.
Settled(s, q) ==
  /\ task[s].stage = "serving"
  /\ Holds(s, task[s].lobby, task[s].participant)
  /\ ~Cancelled(s)
  /\ \A i \in DOMAIN outbox[s].queue : outbox[s].queue[i].from # q
  /\ \A t \in Sockets :
       task[t].lobby = task[s].lobby /\ task[t].participant = q
         => task[t].stage \in {"upgrading", "serving", "relaying"}

RosterAgrees(s, q) == q \in roster[s] <=> q \in Connected(lobbies[task[s].lobby])

Others(s) == ParticipantIds \ {task[s].participant}

\* Once settled, the roster of a connected browser says of every other
\* participant whether it is connected, unless one of its reports has gone
\* astray in one of the ways the code admits (sockets.rs:142-167, 214-225).
RosterExact ==
  \A s \in Sockets : \A q \in Others(s) :
    Settled(s, q) /\ (\A m \in Mishaps : <<q, m>> \notin blurred) => RosterAgrees(s, q)

\* The same with one kind of mishap only: what README.md:60 promises.
RosterExactDespite(mishap) ==
  \A s \in Sockets : \A q \in Others(s) :
    Settled(s, q) /\ (\A m \in Mishaps \ {mishap} : <<q, m>> \notin blurred)
      => RosterAgrees(s, q)
RosterExactAfterFailedGreeting == RosterExactDespite("unannounced")
RosterExactAfterReconnect == RosterExactDespite("overtaken")
===============================================================================
