------------------------------- MODULE PeerLink -------------------------------
(***************************************************************************)
(* The link between two ResilientLobbySessions of a lobby                  *)
(* (src/web/resilient-lobby-session.ts): the negotiation of an             *)
(* RTCPeerConnection through the lobby service, the recovery of a link     *)
(* that failed, and what a lost signaling socket does to both.             *)
(*                                                                         *)
(* #handleSignalingMessage starts a handler per frame and queues nothing:  *)
(* while one awaits the browser the next frame is handled.  The browser    *)
(* runs the operations of a connection in the order of their calls, so     *)
(* what is left to do is one queue of operations, and a handler that goes  *)
(* on after an operation calls the next one at the end of that queue.      *)
(* Descriptions are numbered: an answer bears the number of its offer.     *)
(* The browser's connection is modelled as the code uses it; the service,  *)
(* which relays and reports who comes and goes, is handle_lobby_socket     *)
(* (src/src/sockets.rs) for two participants, whose tasks send a report    *)
(* after they have given up the lock of the lobby.                         *)
(***************************************************************************)
EXTENDS Naturals, SequencesExt

CONSTANTS
  None,
  PeerRecoveryAttempts, \* peerRecoveryAttempts
  MaxLosses,            \* bound on the losses of a signaling socket
  MaxFailures,          \* bound on the failures of a transport that worked
  MaxRefusals           \* bound on the frames the service has no budget to send

ASSUME LinkAssumption ==
  /\ PeerRecoveryAttempts \in Nat \ {0}
  /\ MaxLosses \in Nat
  /\ {MaxFailures, MaxRefusals} \subseteq Nat

VARIABLES
  link,       \* each session's entry for the other in `links`
  operations, \* the operations its connection has yet to run
  sockets,    \* the session's signaling socket, dead before the session knows
  inbox,      \* the frames on their way to it
  registered, \* its connection in the lobby's record, 0 for none
  reports,    \* what the tasks of its connections have yet to tell the other
  offers,     \* how many offers have been created
  exhausted,  \* the sessions that reported peer-recovery-exhausted
  misled,     \* history: a session was told last what is not so, or was not told
  faults      \* the losses, failures and refusals so far

serviceVars == <<registered, reports, misled>>
vars == <<link, operations, sockets, inbox, serviceVars, offers, exhausted, faults>>

\* #isInitiator picks one of the two, by topology or by name.
Sides == {"initiator", "responder"}
Other(x) == CHOOSE y \in Sides : y # x

Reports == {"participant-connected", "participant-disconnected"}
Signals == {"offer", "answer", "ice-restart-request", "candidate"}
Frames == {"connected"} \cup Reports \cup Signals
Calls == {"createOffer", "setLocalOffer", "setRemoteOffer", "createAnswer",
          "setLocalAnswer", "setRemoteAnswer"}

Link == [signaling : {"stable", "have-local-offer", "have-remote-offer"},
         local : Nat, remote : Nat,         \* the descriptions, 0 for none
         created : Nat,                     \* the last description created
         state : {"new", "connecting", "connected", "failed"},
         pendingCandidates : BOOLEAN,
         recoveryAttempts : 0 .. PeerRecoveryAttempts,
         recoveryInFlight : BOOLEAN]

ASSUME NoLinkAssumption == None \notin Link

NewLink == [signaling |-> "stable", local |-> 0, remote |-> 0, created |-> 0,
            state |-> "new", pendingCandidates |-> FALSE,
            recoveryAttempts |-> 0, recoveryInFlight |-> FALSE]

Frame(type, n) == [type |-> type, number |-> n]
\* `restart` is true in the operations #recoverPeer awaits.
Call(op, n, restart) == [op |-> op, number |-> n, restart |-> restart]

\* Both sessions are connected to the service; the responder came last.
Init ==
  /\ link = [x \in Sides |-> None]
  /\ operations = [x \in Sides |-> <<>>]
  /\ sockets = [x \in Sides |-> "open"]
  /\ inbox = [x \in Sides |-> IF x = "initiator" THEN <<Frame("participant-connected", 0)>>
                                                 ELSE <<Frame("connected", 1)>>]
  /\ registered = [x \in Sides |-> 1]
  /\ reports = [x \in Sides |-> {}]
  /\ misled = FALSE
  /\ offers = 0
  /\ exhausted = {}
  /\ faults = [losses |-> 0, failures |-> 0, refusals |-> 0]

-------------------------------------------------------------------------------
(* #signal, #ensureLink, #dropLink and #recoverPeer.                        *)

\* readyState of the socket, as far as the session knows.
Open(x) == sockets[x] # "closed"

\* What the other side's queue is after #signal sends it frames: nothing
\* comes, and nobody is told, unless both sockets work.
Signaled(x, queue, frames) ==
  IF \A y \in Sides : sockets[y] = "open" THEN queue \o frames ELSE queue

\* A session's link with the operations of its connection, what it sends and
\* whether it has reported that its attempts are exhausted.
State(l, ops, frames, gaveUp) == [link |-> l, ops |-> ops, sends |-> frames, gaveUp |-> gaveUp]

Current(x) == State(link[x], operations[x], <<>>, FALSE)

\* #ensureLink: a new connection of the initiator starts its offer at once.
Ensured(x) ==
  IF link[x] # None THEN Current(x)
  ELSE State(NewLink, IF x = "initiator" THEN <<Call("createOffer", 0, FALSE)>> ELSE <<>>, <<>>, FALSE)

\* #dropLink: the operations of a closed connection never come back.
Dropped == State(None, <<>>, <<>>, FALSE)

\* Mutant: one attempt too many.
ExhaustedLate(l) == l.recoveryAttempts > PeerRecoveryAttempts

Exhausted(l) == l.recoveryAttempts >= PeerRecoveryAttempts

\* #recoverPeer.  The responder only asks; its flag is down again when the
\* request is sent.  With TURN configured a restart changes the servers too,
\* which makes no difference here.
Recovered(x, s) ==
  IF s.link.recoveryInFlight \/ ~Open(x) THEN s
  ELSE IF Exhausted(s.link) THEN [s EXCEPT !.gaveUp = TRUE]
  ELSE IF x = "responder"
  THEN [s EXCEPT !.link.recoveryAttempts = @ + 1,
                 !.sends = Append(@, Frame("ice-restart-request", 0))]
  ELSE [s EXCEPT !.link.recoveryAttempts = @ + 1, !.link.recoveryInFlight = TRUE,
                 !.ops = Append(@, Call("createOffer", 0, TRUE))]

\* The state after a step of x that leaves `rest` in its own inbox.
Becomes(x, s, rest) ==
  /\ link' = [link EXCEPT ![x] = s.link]
  /\ operations' = [operations EXCEPT ![x] = s.ops]
  /\ inbox' = [inbox EXCEPT ![x] = rest, ![Other(x)] = Signaled(x, @, s.sends)]
  /\ exhausted' = IF s.gaveUp THEN exhausted \cup {x} ELSE exhausted

-------------------------------------------------------------------------------
(* #handleSignalingMessage and #handleSignal.                               *)

\* Mutant: a candidate always waits.
CandidateKept(l) == [l EXCEPT !.pendingCandidates = TRUE]

\* A candidate waits for the remote description it belongs to.
CandidateTaken(l) == IF l.remote = 0 THEN [l EXCEPT !.pendingCandidates = TRUE] ELSE l

\* Mutant: a link that failed while the session was offline is left alone.
Unrecovered(x, s) == s

\* A link found failed when signaling is back.
Rejoined(x, s) == IF s.link.state = "failed" THEN Recovered(x, s) ELSE s

\* The number of `connected` is 1 if it lists the other participant.
Handled(x, f) ==
  CASE f.type = "connected" -> IF f.number = 1 THEN Rejoined(x, Ensured(x)) ELSE Dropped
    [] f.type = "participant-connected" -> Ensured(x)
    [] f.type = "participant-disconnected" -> Dropped
    [] f.type = "ice-restart-request" -> Recovered(x, Ensured(x))
    [] f.type = "offer" -> [Ensured(x) EXCEPT !.ops = Append(@, Call("setRemoteOffer", f.number, FALSE))]
    [] f.type = "answer" -> [Ensured(x) EXCEPT !.ops = Append(@, Call("setRemoteAnswer", f.number, FALSE))]
    [] f.type = "candidate" -> [Ensured(x) EXCEPT !.link = CandidateTaken(@)]

HandleFrame(x) ==
  /\ inbox[x] # <<>>
  /\ Becomes(x, Handled(x, Head(inbox[x])), Tail(inbox[x]))
  /\ UNCHANGED <<sockets, serviceVars, offers, faults>>

-------------------------------------------------------------------------------
(* The operations of a connection, each with what its caller does next up   *)
(* to its next await.  An operation that fails ends its caller with an      *)
(* error event (#fail).                                                     *)

\* Mutant: a restart leaves its flag up.
FlagKept(c, l) == l

\* The finally of #recoverPeer.
RecoveryOver(c, l) == IF c.restart THEN [l EXCEPT !.recoveryInFlight = FALSE] ELSE l

\* Applying a description restarts the transport, unless it works.
Restarted(state) == IF state = "connected" THEN state ELSE "connecting"

\* What the operation c does to the link l with the calls `rest` behind it.
Called(c, l, rest) ==
  LET n == c.number
      Then(next, new) == State(new, Append(rest, next), <<>>, FALSE)
      Sends(type, new) == State(new, rest, <<Frame(type, n), Frame("candidate", 0)>>, FALSE)
      Ends(new) == State(new, rest, <<>>, FALSE)
  IN
  CASE c.op = "createOffer" ->
         Then(Call("setLocalOffer", offers + 1, c.restart), [l EXCEPT !.created = offers + 1])
    [] c.op = "setLocalOffer" ->
         IF l.created # n THEN Ends(RecoveryOver(c, l))
         ELSE Sends("offer", [RecoveryOver(c, l) EXCEPT !.signaling = "have-local-offer", !.local = n])
    [] c.op = "setRemoteOffer" ->
         Then(Call("createAnswer", 0, FALSE),
              [l EXCEPT !.signaling = "have-remote-offer", !.remote = n, !.pendingCandidates = FALSE])
    [] c.op = "createAnswer" ->
         IF l.signaling # "have-remote-offer" THEN Ends(l)
         ELSE Then(Call("setLocalAnswer", l.remote, FALSE), [l EXCEPT !.created = l.remote])
    [] c.op = "setLocalAnswer" ->
         IF l.signaling # "have-remote-offer" \/ l.created # n THEN Ends(l)
         ELSE Sends("answer", [l EXCEPT !.signaling = "stable", !.local = n, !.state = Restarted(@)])
    [] c.op = "setRemoteAnswer" ->
         IF l.signaling # "have-local-offer" THEN Ends(l)
         ELSE Ends([l EXCEPT !.signaling = "stable", !.remote = n, !.state = Restarted(@),
                             !.pendingCandidates = FALSE])

RunOperation(x) ==
  /\ operations[x] # <<>> /\ link[x] # None
  /\ LET c == Head(operations[x]) IN
       /\ Becomes(x, Called(c, link[x], Tail(operations[x])), inbox[x])
       /\ offers' = IF c.op = "createOffer" THEN offers + 1 ELSE offers
  /\ UNCHANGED <<sockets, serviceVars, faults>>

-------------------------------------------------------------------------------
(* The transport.                                                           *)

\* Nothing is on its way.
Quiet == \A x \in Sides :
  operations[x] = <<>> /\ inbox[x] = <<>> /\ sockets[x] = "open" /\ reports[x] = {}

\* Both ends hold both descriptions of one exchange.
Agree ==
  /\ \A x \in Sides : link[x] # None /\ link[x].signaling = "stable"
  /\ \E n \in 1 .. offers : \A x \in Sides : link[x].local = n /\ link[x].remote = n

\* connectionstatechange: ends that agree find each other.
Connected(x) ==
  /\ Agree
  /\ link[x].state # "connected"
  /\ link' = [link EXCEPT ![x].state = "connected", ![x].recoveryAttempts = 0]
  /\ UNCHANGED <<operations, sockets, inbox, serviceVars, offers, exhausted, faults>>

\* connectionstatechange to "failed".
Broken(x) == Recovered(x, State([link[x] EXCEPT !.state = "failed"], operations[x], <<>>, FALSE))

\* connectionstatechange: ends that do not agree fail in the end, one that
\* worked when the other end is gone, failed or on another exchange ...
Failed(x) ==
  /\ Quiet /\ ~Agree /\ link[x] # None
  /\ \/ link[x].state = "connecting"
     \/ /\ link[x].state = "connected"
        /\ link[Other(x)] # None =>
             link[Other(x)].state \in {"new", "failed"} \/ (\A y \in Sides : link[y].signaling = "stable")
  /\ Becomes(x, Broken(x), inbox[x])
  /\ UNCHANGED <<sockets, serviceVars, offers, faults>>

\* ... and so may any end at any time.
Breaks(x) ==
  /\ link[x] # None /\ link[x].state \in {"connecting", "connected"}
  /\ faults.failures < MaxFailures
  /\ Becomes(x, Broken(x), inbox[x])
  /\ faults' = [faults EXCEPT !.failures = @ + 1]
  /\ UNCHANGED <<sockets, serviceVars, offers>>

-------------------------------------------------------------------------------
(* The sockets and the service.                                             *)

Report(type, connection) == [type |-> type, connection |-> connection]

\* A socket is lost with the frames on their way to it, the last signals from
\* it and the reports that were to go to it.
LoseSocket(x) ==
  LET y == Other(x) IN
  /\ sockets[x] = "open" /\ faults.losses < MaxLosses
  /\ sockets' = [sockets EXCEPT ![x] = "dead"]
  /\ \E k \in 0 .. Len(inbox[y]) :
       /\ \A n \in k + 1 .. Len(inbox[y]) : inbox[y][n].type \in Signals
       /\ inbox' = [inbox EXCEPT ![x] = <<>>, ![y] = SubSeq(@, 1, k)]
  /\ reports' = [reports EXCEPT ![y] = {}]
  /\ faults' = [faults EXCEPT !.losses = @ + 1]
  /\ UNCHANGED <<link, operations, registered, misled, offers, exhausted>>

\* The session learns of it: see ResilientSession.
SocketClosed(x) ==
  /\ sockets[x] = "dead"
  /\ sockets' = [sockets EXCEPT ![x] = "closed"]
  /\ UNCHANGED <<link, operations, inbox, serviceVars, offers, exhausted, faults>>

\* The report of a connection of x goes to the other's socket, if that works.
Owed(x, report) == IF sockets[Other(x)] = "open" THEN reports[x] \cup {report} ELSE reports[x]

\* The task of the lost socket, which has announced it, unregisters it, unless
\* the connection has been replaced.
Unregister(x) ==
  /\ sockets[x] # "open" /\ registered[x] # 0
  /\ \A r \in reports[x] : r.connection # registered[x]
  /\ reports' = [reports EXCEPT ![x] = Owed(x, Report("participant-disconnected", registered[x]))]
  /\ registered' = [registered EXCEPT ![x] = 0]
  /\ UNCHANGED <<link, operations, sockets, inbox, misled, offers, exhausted, faults>>

\* The session reconnects: its connection is registered, in the place of the
\* last if that is still there, and told who else is.
Reconnect(x) ==
  LET connection == faults.losses + 1 IN
  /\ sockets[x] = "closed"
  /\ sockets' = [sockets EXCEPT ![x] = "open"]
  /\ registered' = [registered EXCEPT ![x] = connection]
  /\ inbox' = [inbox EXCEPT ![x] = <<Frame("connected", IF registered[Other(x)] # 0 THEN 1 ELSE 0)>>]
  /\ reports' = [reports EXCEPT ![x] = Owed(x, Report("participant-connected", connection))]
  /\ UNCHANGED <<link, operations, misled, offers, exhausted, faults>>

\* A task reports, which does not wait for those of the other connections of
\* its participant.
SendReport(x) == \E r \in reports[x] :
  /\ reports' = [reports EXCEPT ![x] = @ \ {r}]
  /\ inbox' = [inbox EXCEPT ![Other(x)] = Append(@, Frame(r.type, 0))]
  /\ misled' = (misled \/ (reports[x] = {r} /\ (r.type = "participant-connected") # (registered[x] # 0)))
  /\ UNCHANGED <<link, operations, sockets, registered, offers, exhausted, faults>>

\* A frame that was to go to x was refused: its budget was exhausted.
Refuse(x) == \E k \in DOMAIN inbox[x] :
  /\ inbox[x][k].type # "connected" /\ faults.refusals < MaxRefusals
  /\ inbox' = [inbox EXCEPT ![x] = RemoveAt(@, k)]
  /\ misled' = (misled \/ inbox[x][k].type \in Reports)
  /\ faults' = [faults EXCEPT !.refusals = @ + 1]
  /\ UNCHANGED <<link, operations, sockets, registered, reports, offers, exhausted>>

-------------------------------------------------------------------------------
LinkNext == \E x \in Sides :
  HandleFrame(x) \/ RunOperation(x) \/ Connected(x) \/ Failed(x)
    \/ Breaks(x) \/ LoseSocket(x) \/ SocketClosed(x) \/ Unregister(x)
    \/ Reconnect(x) \/ SendReport(x) \/ Refuse(x)

\* Frames and operations are handled, the transport of ends that agree
\* connects and that of others fails, a lost session learns of it and
\* reconnects, and what is to be reported is.
LinkFairness == \A x \in Sides :
  WF_vars(HandleFrame(x)) /\ WF_vars(RunOperation(x)) /\ WF_vars(Connected(x))
    /\ WF_vars(Failed(x)) /\ WF_vars(SocketClosed(x)) /\ WF_vars(Reconnect(x)) /\ WF_vars(SendReport(x))

FairSpec == Init /\ [][LinkNext]_vars /\ LinkFairness

-------------------------------------------------------------------------------
(* Properties.                                                              *)

LinkTypeOK ==
  /\ \A x \in Sides : link[x] = None \/ link[x] \in Link
  /\ \A x \in Sides : \A i \in DOMAIN operations[x] :
       operations[x][i].op \in Calls /\ operations[x][i].number \in 0 .. offers
  /\ \A x \in Sides : \A i \in DOMAIN inbox[x] : inbox[x][i].type \in Frames
  /\ sockets \in [Sides -> {"open", "dead", "closed"}] /\ registered \in [Sides -> Nat]
  /\ \A x \in Sides : \A r \in reports[x] : r.type \in Reports /\ r.connection \in Nat
  /\ offers \in Nat /\ exhausted \subseteq Sides

Ready == \A x \in Sides : link[x] # None /\ link[x].state = "connected"

\* The flag of a recovery is up only while its restart is being made: a
\* restart that fails between two operations does not block the next one.
RestartUnderWay ==
  \A x \in Sides : link[x] # None /\ link[x].recoveryInFlight =>
    \E i \in DOMAIN operations[x] : operations[x][i].restart

\* No candidate waits for a description that is there.
CandidatesFlushed ==
  \A x \in Sides : link[x] # None /\ link[x].remote # 0 => ~link[x].pendingCandidates

\* An offer that waits for ever: it, its answer or the link that took it was
\* lost with a socket.
Unanswered ==
  Quiet /\ link["initiator"] # None /\ link["initiator"].signaling = "have-local-offer"

\* A session that does not know the other is there: its last report of it is
\* wrong, or was refused.
Estranged == Quiet /\ misled /\ \E x \in Sides : link[x] = None

\* Whatever fails, is lost or overlaps, the link works in the end or a
\* session has reported that recovery is exhausted, unless an offer was left
\* unanswered or a report went astray.
LinkRecovers == <>[](Ready \/ exhausted # {} \/ Unanswered \/ Estranged)

\* The same without the exception for offers.
EveryOfferAnswered == <>[](Ready \/ exhausted # {} \/ misled)
===============================================================================
