--------------------------- MODULE ContentPeerPool ---------------------------
(***************************************************************************)
(* The content connections of the participants of a lobby: one             *)
(* ContentPeerPool each (src/web/content-peer-pool.ts), which dials other  *)
(* participants and answers them through the lobby's signaling.            *)
(*                                                                         *)
(* Both participants of a pair may dial at once: the lower connection id   *)
(* wins.  Offers and answers of one participant are handled one after      *)
(* another, in a chain that is retired with the link it works for, because *)
(* the browser's work on a closed connection may never come back; a        *)
(* rejection or a close overtakes the chain.  Native work is one await     *)
(* here: between the awaits of one handler only #assertCurrent is called.  *)
(* Candidates are left out: they wait in the chain like any signal.  A     *)
(* pool dials and hears only participants its session lists, and what the  *)
(* service reports of them may be late or refused (see LobbyRosters).      *)
(***************************************************************************)
EXTENDS Naturals, FiniteSets, SequencesExt

CONSTANTS
  Participants,
  None,
  MaxPeers,        \* maxPeers
  MaxConnections,  \* bound on the connection ids drawn
  MaxFaults        \* bound on lost links, lost sockets, hang-ups, closed pools,
                   \* native work that rejects and reports of who is there

ASSUME PoolAssumption ==
  /\ None \notin Participants
  /\ MaxPeers \in Nat \ {0} /\ MaxConnections \in Nat /\ MaxFaults \in Nat

VARIABLES
  peers,      \* peers of each pool, by participant
  chains,     \* signalChains: the signals that wait, by participant
  works,      \* the native work under way in each pool
  pool,       \* closed, signalingGeneration and the state of the socket
  roster,     \* the participants each session lists but itself
  wire,       \* the signals on their way, by sender and recipient
  drawn,      \* who drew each connection id, and for whom
  ended,      \* the pairs a hang-up or a full pool has ended a link of
  disturbed,  \* the pairs that lost a link, a signal or an offer that waited, whose
              \* native work rejected, or that were not always on each other's list
  faults

vars == <<peers, chains, works, pool, roster, wire, drawn, ended, disturbed, faults>>

Ids == 1 .. MaxConnections
Pair(n, p) == {n, p}
Pairs == {Pair(n, p) : n, p \in Participants}

Signal == [type : {"offer", "answer", "collision", "capacity", "close"}, id : Ids]

\* A link this pool dialled makes its offer, waits for the answer and has
\* it; one it answers makes the answer and has sent it; either is ready when
\* its connection is connected and its channel open.
Link == [id : Ids, initiatedLocally : BOOLEAN,
         stage : {"offering", "offered", "accepted", "answering", "answered", "ready"}]

\* Where there is no link there is None.
ASSUME LinkAssumption == None \notin Link

\* What an await works on: making an offer or an answer, taking an answer.
Work == [peer : Participants, id : Ids, does : {"offer", "answer", "accept"},
         generation : 0 .. MaxFaults, chained : BOOLEAN]

Init ==
  /\ peers = [n \in Participants |-> [p \in Participants |-> None]]
  /\ chains = [n \in Participants |-> [p \in Participants |-> <<>>]]
  /\ works = [n \in Participants |-> {}]
  /\ pool = [n \in Participants |-> [closed |-> FALSE, generation |-> 0, online |-> TRUE]]
  /\ roster = [n \in Participants |-> Participants \ {n}]
  /\ wire = [n \in Participants |-> [p \in Participants |-> <<>>]]
  /\ drawn = [i \in Ids |-> <<>>]
  /\ ended = {}
  /\ disturbed = {}
  /\ faults = 0

-------------------------------------------------------------------------------
(* One pool: its state in a step, and the signals it sends.                 *)

\* What the parts of a handler of n pass on: its links, chains and work, and
\* what it has sent to whom.
Pool(n) == [peers |-> peers[n], chains |-> chains[n], works |-> works[n],
            sends |-> [p \in Participants |-> <<>>]]

Sending(s, p, type, id) == [s EXCEPT !.sends[p] = Append(@, [type |-> type, id |-> id])]

HasLink(s, p, id) == s.peers[p] # None /\ s.peers[p].id = id

Size(s) == Cardinality({p \in Participants : s.peers[p] # None})

\* Mutant: a full pool takes one more.
HasCapacityForOneMore(s) == Size(s) <= MaxPeers

\* hasCapacity
HasCapacity(s) == Size(s) < MaxPeers

\* Mutant: the chain outlives the link and goes on waiting for its work.
ChainKept(s, p) == [s EXCEPT !.peers[p] = None]

\* Work goes on unheard when the chain of p it was in is retired.
Unheard(w, p) == [w EXCEPT !.chained = @ /\ w.peer # p]

\* #dropPeer of a link that is there: the chain is retired.
Dropped(s, p) ==
  IF s.peers[p] = None THEN s
  ELSE [s EXCEPT !.peers[p] = None, !.chains[p] = <<>>, !.works = {Unheard(w, p) : w \in @}]

\* Mutant: the link that is there will do.
AnyLinkCurrent(n, s, w) == ~pool[n].closed /\ s.peers[w.peer] # None

\* #assertCurrent
Current(n, s, w) ==
  /\ ~pool[n].closed
  /\ w.generation = pool[n].generation
  /\ HasLink(s, w.peer, w.id)

Begin(n, s, p, id, does) ==
  [s EXCEPT !.works = @ \cup {[peer |-> p, id |-> id, does |-> does,
                               generation |-> pool[n].generation, chained |-> does # "offer"]}]

\* Mutant: the offer always wins.
AlwaysYields(own, other) == FALSE

\* The id in use wins a collision.
Wins(own, other) == own <= other

\* #handleSignal of an offer: refused in favour of a lower id or for want of
\* capacity, else answered, in place of the link it beats.
OfferHandled(n, s, p, id) ==
  IF s.peers[p] # None /\ s.peers[p].id # id /\ Wins(s.peers[p].id, id)
  THEN Sending(s, p, "collision", id)
  ELSE LET free == IF s.peers[p] = None THEN s ELSE [s EXCEPT !.peers[p] = None] IN
       IF ~HasCapacity(free) THEN Sending(free, p, "capacity", id)
       ELSE Begin(n, [free EXCEPT !.peers[p] = [id |-> id, initiatedLocally |-> FALSE,
                                               stage |-> "answering"]], p, id, "answer")

\* #handleSignal up to its first await.
Handled(n, s, p, signal) ==
  CASE signal.type = "offer" -> OfferHandled(n, s, p, signal.id)
    [] signal.type = "answer" /\ HasLink(s, p, signal.id) -> Begin(n, s, p, signal.id, "accept")
    [] OTHER -> s

Waits(s, p) == \E w \in s.works : w.chained /\ w.peer = p

\* A signal is handled unless a handler before it awaits.
Heard(n, s, p, signal) ==
  IF Waits(s, p) THEN [s EXCEPT !.chains[p] = Append(@, signal)] ELSE Handled(n, s, p, signal)

\* The chain of p.
Chained(n, s, p) ==
  FoldLeft(LAMBDA acc, signal : Heard(n, acc, p, signal), [s EXCEPT !.chains[p] = <<>>], s.chains[p])

\* The step of pool n that ends in s.  A signal reaches the other pool if
\* both sockets are open.
Becomes(n, s) ==
  /\ peers' = [peers EXCEPT ![n] = s.peers]
  /\ chains' = [chains EXCEPT ![n] = s.chains]
  /\ works' = [works EXCEPT ![n] = s.works]
  /\ ended' = ended \cup {Pair(n, p) : p \in {q \in Participants :
                \E m \in ToSet(s.sends[q]) : m.type \in {"capacity", "close"}}}

Sent(n, s, queues) ==
  wire' = [queues EXCEPT ![n] = [p \in Participants |->
    IF pool[n].online /\ pool[p].online /\ ~pool[p].closed THEN @[p] \o s.sends[p] ELSE @[p]]]

-------------------------------------------------------------------------------
(* Calls of the application.                                                *)

\* connect() up to the await of the offer; a second call finds the link.
Dial(n, p) ==
  \E id \in Ids :
    /\ n # p /\ ~pool[n].closed /\ pool[n].online /\ p \in roster[n]
    /\ peers[n][p] = None /\ HasCapacity(Pool(n))
    /\ drawn[id] = <<>>
    /\ drawn' = [drawn EXCEPT ![id] = <<n, p>>]
    /\ Becomes(n, Begin(n, [Pool(n) EXCEPT !.peers[p] =
         [id |-> id, initiatedLocally |-> TRUE, stage |-> "offering"]], p, id, "offer"))
    /\ UNCHANGED <<pool, roster, wire, disturbed, faults>>

\* disconnect(): the close may overtake the offer or answer it is about.  The
\* chain it retires may hold an offer of a link to come, whose pool then waits
\* for an answer until the application hangs up.
Disconnect(n, p) ==
  LET s == Sending(Dropped(Pool(n), p), p, "close", peers[n][p].id) IN
  /\ peers[n][p] # None /\ faults < MaxFaults
  /\ Becomes(n, s)
  /\ Sent(n, s, wire)
  /\ disturbed' = disturbed \cup {Pair(n, p) : m \in {m \in ToSet(chains[n][p]) : m.type = "offer"}}
  /\ faults' = faults + 1
  /\ UNCHANGED <<pool, roster, drawn>>

\* close(), also when the session closes.
ClosePool(n) ==
  /\ ~pool[n].closed /\ faults < MaxFaults
  /\ pool' = [pool EXCEPT ![n].closed = TRUE, ![n].generation = @ + 1]
  /\ Becomes(n, [Pool(n) EXCEPT !.peers = [p \in Participants |-> None],
                                !.chains = [p \in Participants |-> <<>>],
                                !.works = {[w EXCEPT !.chained = FALSE] : w \in @}])
  /\ wire' = [p \in Participants |-> [wire[p] EXCEPT ![n] = <<>>]]
  /\ disturbed' = disturbed \cup {Pair(n, p) : p \in Participants}
  /\ faults' = faults + 1
  /\ UNCHANGED <<roster, drawn>>

-------------------------------------------------------------------------------
(* Signals and native work.                                                 *)

\* #enqueueSignal: a rejection or a close is obeyed at once; who is not listed
\* is not heard.
Deliver(n, p) ==
  LET signal == Head(wire[p][n])
      s == IF p \notin roster[n] THEN Pool(n)
           ELSE IF signal.type \in {"collision", "capacity", "close"}
           THEN IF HasLink(Pool(n), p, signal.id) THEN Dropped(Pool(n), p) ELSE Pool(n)
           ELSE Chained(n, [Pool(n) EXCEPT !.chains[p] = Append(@, signal)], p)
  IN
  /\ ~pool[n].closed /\ wire[p][n] # <<>>
  /\ Becomes(n, s)
  /\ Sent(n, s, [wire EXCEPT ![p][n] = Tail(@)])
  /\ UNCHANGED <<pool, roster, drawn, disturbed, faults>>

\* What follows the awaits of w: an offer that cannot be sent takes its link
\* with it, an answer that cannot be sent does not.
Continued(n, s, w) ==
  IF ~Current(n, s, w) THEN s
  ELSE IF w.does = "offer"
  THEN IF pool[n].online
       THEN Sending([s EXCEPT !.peers[w.peer].stage = "offered"], w.peer, "offer", w.id)
       ELSE Dropped(s, w.peer)
  ELSE IF w.does = "answer"
  THEN Sending([s EXCEPT !.peers[w.peer].stage = "answered"], w.peer, "answer", w.id)
  ELSE [s EXCEPT !.peers[w.peer].stage = "accepted"]

\* The caller of w ends in s, and its chain goes on.
WorkOver(n, s, w) ==
  LET t == IF w.chained THEN Chained(n, s, w.peer) ELSE s IN
  /\ Becomes(n, t)
  /\ Sent(n, t, wire)
  /\ UNCHANGED <<pool, roster, drawn>>

\* The pool of n whose work w is over.
Without(n, w) == [Pool(n) EXCEPT !.works = @ \ {w}]

Continue(n, w) ==
  /\ WorkOver(n, Continued(n, Without(n, w), w), w)
  /\ UNCHANGED <<disturbed, faults>>

\* Native work on a link that is there rejects: connect() takes the link with
\* it, a handler of the chain says so in an `error` event.  The other pool is
\* told of neither.
Reject(n, w) ==
  /\ Current(n, Pool(n), w) /\ faults < MaxFaults
  /\ WorkOver(n, IF w.does = "offer" THEN Dropped(Without(n, w), w.peer) ELSE Without(n, w), w)
  /\ disturbed' = disturbed \cup {Pair(n, w.peer)}
  /\ faults' = faults + 1

-------------------------------------------------------------------------------
(* Events of the connections and of the session.                            *)

\* The ends of a connection: both hold its descriptions.
Joined(n, p) ==
  /\ peers[n][p] # None /\ peers[p][n] # None
  /\ peers[n][p].id = peers[p][n].id
  /\ {peers[n][p].stage, peers[p][n].stage} \subseteq {"accepted", "answered", "ready"}

\* #maybeReady
Ready(n, p) ==
  /\ Joined(n, p) /\ peers[n][p].stage # "ready"
  /\ peers' = [peers EXCEPT ![n][p].stage = "ready"]
  /\ UNCHANGED <<chains, works, pool, roster, wire, drawn, ended, disturbed, faults>>

\* The other end of a link that has its descriptions is not there.
Abandoned(n, p) ==
  /\ peers[n][p] # None
  /\ peers[n][p].stage \in {"accepted", "answered", "ready"}
  /\ peers[p][n] # None => peers[p][n].id # peers[n][p].id

LinkGone(n, p) ==
  /\ Becomes(n, Dropped(Pool(n), p))
  /\ UNCHANGED <<pool, wire, drawn>>

\* The connection fails, or its channel closes, because the other end is not
\* there.
Failed(n, p) ==
  /\ Abandoned(n, p)
  /\ LinkGone(n, p)
  /\ UNCHANGED <<roster, disturbed, faults>>

\* The same for no reason the other end would know.
LinkLost(n, p) ==
  /\ peers[n][p] # None /\ faults < MaxFaults
  /\ LinkGone(n, p)
  /\ disturbed' = disturbed \cup {Pair(n, p)}
  /\ faults' = faults + 1
  /\ UNCHANGED roster

\* onParticipantDisconnected, of one who is gone or of one who is back before
\* the report comes.
ParticipantDisconnected(n, p) ==
  /\ ~pool[n].closed /\ pool[n].online /\ p \in roster[n] /\ faults < MaxFaults
  /\ roster' = [roster EXCEPT ![n] = @ \ {p}]
  /\ LinkGone(n, p)
  /\ disturbed' = disturbed \cup {Pair(n, p)}
  /\ faults' = faults + 1

\* The session is told that p is there; a report that is refused never comes.
ParticipantConnected(n, p) ==
  /\ ~pool[n].closed /\ pool[n].online /\ n # p /\ p \notin roster[n]
  /\ roster' = [roster EXCEPT ![n] = @ \cup {p}]
  /\ UNCHANGED <<peers, chains, works, pool, wire, drawn, ended, disturbed, faults>>

\* The session's socket is lost with the signals on their way to it.
SignalingLost(n) ==
  /\ ~pool[n].closed /\ pool[n].online /\ faults < MaxFaults
  /\ pool' = [pool EXCEPT ![n].online = FALSE]
  /\ wire' = [p \in Participants |-> [wire[p] EXCEPT ![n] = <<>>]]
  /\ disturbed' = disturbed \cup {Pair(n, p) : p \in Participants}
  /\ faults' = faults + 1
  /\ UNCHANGED <<peers, chains, works, roster, drawn, ended>>

\* #bindSignaling when the session has another socket: links that are not
\* ready are dropped, and no chain is taken over.  The list it gets may leave
\* out who is gone.
Rebind(n) ==
  /\ ~pool[n].closed /\ ~pool[n].online
  /\ pool' = [pool EXCEPT ![n].online = TRUE, ![n].generation = @ + 1]
  /\ Becomes(n, [Pool(n) EXCEPT
       !.peers = [p \in Participants |-> IF @[p] # None /\ @[p].stage = "ready" THEN @[p] ELSE None],
       !.chains = [p \in Participants |-> <<>>],
       !.works = {[w EXCEPT !.chained = FALSE] : w \in @}])
  /\ \E absent \in SUBSET {p \in Participants : pool[p].closed \/ ~pool[p].online} :
       /\ roster' = [roster EXCEPT ![n] = Participants \ ({n} \cup absent)]
       /\ disturbed' = disturbed \cup {Pair(n, p) : p \in absent}
  /\ UNCHANGED <<wire, drawn, faults>>

-------------------------------------------------------------------------------
PoolNext ==
  \E n \in Participants :
    \/ ClosePool(n) \/ SignalingLost(n) \/ Rebind(n)
    \/ \E w \in works[n] : Continue(n, w) \/ Reject(n, w)
    \/ \E p \in Participants :
         \/ Dial(n, p) \/ Disconnect(n, p) \/ Deliver(n, p) \/ Ready(n, p) \/ Failed(n, p)
         \/ LinkLost(n, p) \/ ParticipantDisconnected(n, p) \/ ParticipantConnected(n, p)

PoolSpec == Init /\ [][PoolNext]_vars

-------------------------------------------------------------------------------
(* Properties.                                                              *)

PoolTypeOK ==
  /\ \A n, p \in Participants : peers[n][p] = None \/ peers[n][p] \in Link
  /\ \A n \in Participants : Size(Pool(n)) <= MaxPeers
  /\ \A n, p \in Participants : ToSet(chains[n][p]) \cup ToSet(wire[n][p]) \subseteq Signal
  /\ \A n \in Participants : works[n] \subseteq Work
  /\ pool \in [Participants -> [closed : BOOLEAN, generation : 0 .. MaxFaults, online : BOOLEAN]]
  /\ roster \in [Participants -> SUBSET Participants]

\* Nothing is on its way between two pools or under way for their links;
\* work on a closed connection may be, and need not come back.
Quiet(n, p) ==
  /\ wire[n][p] = <<>> /\ wire[p][n] = <<>>
  /\ \A x \in {n, p} : \A w \in works[x] : w.peer \in {n, p} => ~Current(x, Pool(x), w)

\* Two pools that dialled each other and were left alone end up with one
\* connection and both its ends, whatever order their offers, answers and
\* rejections are handled in.
CollisionKeepsOne ==
  \A n, p \in Participants :
    n # p /\ Quiet(n, p) /\ Pair(n, p) \notin ended \cup disturbed
          /\ (\E id \in Ids : drawn[id] = <<n, p>>)
      => Joined(n, p)

\* A pool speaks only of links it has: no continuation of a dropped, beaten
\* or rebound link sends an offer or an answer that the other side would
\* take for a new one.
OnlyCurrentSpeaks ==
  [][\A n, p \in Participants :
       Len(wire'[n][p]) > Len(wire[n][p]) /\ Last(wire'[n][p]).type \in {"offer", "answer"}
         => \E l \in {peers[n][p], peers'[n][p]} \ {None} : l.id = Last(wire'[n][p]).id]_vars

\* A dialled link becomes ready or goes, unless its pair was disturbed: when
\* nothing is left to happen to a pair, no dial of it is left half-way, and
\* no chain waits for work that never comes back.
NoDialHangs ==
  \A n, p \in Participants :
    Quiet(n, p) /\ peers[n][p] # None /\ peers[n][p].initiatedLocally
                /\ Pair(n, p) \notin disturbed
      => Joined(n, p) \/ Abandoned(n, p)
===============================================================================
