---------------------------- MODULE PeerLinkProofs ----------------------------
(***************************************************************************)
(* Invariants of the negotiation between two sessions, for any number of   *)
(* losses, failures and recovery attempts: no flag of a recovery is left   *)
(* up, no candidate is left waiting, and descriptions are of offers made.  *)
(***************************************************************************)
EXTENDS PeerLink, TLAPS

-------------------------------------------------------------------------------
(* The inductive invariant.                                                 *)

\* The operations a recovery awaits are those that make its offer; m is the
\* number of the last offer.
CallSet(m) == {c \in [op : Calls, number : 0 .. m, restart : BOOLEAN] :
                 c.restart => c.op \in {"createOffer", "setLocalOffer"}}

FrameSet(m) == {f \in [type : Frames, number : Nat] : f.type \in {"offer", "answer"} => f.number <= m}

RestartIn(ops) == \E i \in DOMAIN ops : ops[i].restart

\* A link l with the operations ops: its descriptions are of offers made.
LinkOK(l, ops, m) ==
  /\ l \in Link
  /\ l.local <= m /\ l.remote <= m /\ l.created <= m
  /\ l.recoveryInFlight => RestartIn(ops)
  /\ l.remote # 0 => ~l.pendingCandidates

\* What the service has recorded and has to report.
ServiceOK ==
  /\ sockets \in [Sides -> {"open", "dead", "closed"}] /\ registered \in [Sides -> Nat]
  /\ DOMAIN reports = Sides
  /\ \A x \in Sides : \A r \in reports[x] : r.type \in Reports /\ r.connection \in Nat
  /\ faults \in [losses : Nat, failures : Nat, refusals : Nat]

LinkInv ==
  /\ DOMAIN link = Sides /\ DOMAIN operations = Sides /\ DOMAIN inbox = Sides
  /\ \A x \in Sides : link[x] # None => LinkOK(link[x], operations[x], offers)
  /\ \A x \in Sides : operations[x] \in Seq(CallSet(offers)) /\ inbox[x] \in Seq(FrameSet(offers))
  /\ offers \in Nat /\ exhausted \subseteq Sides
  /\ ServiceOK

\* What a handler ends in.
StateOK(s, m) ==
  /\ s.link # None => LinkOK(s.link, s.ops, m)
  /\ s.ops \in Seq(CallSet(m))
  /\ s.sends \in Seq(FrameSet(m))

-------------------------------------------------------------------------------
(* Sequences.                                                               *)

\* What is called last is there, with what was there.
LEMMA AppendedCall ==
  ASSUME NEW m \in Nat, NEW ops \in Seq(CallSet(m)), NEW c \in CallSet(m)
  PROVE  /\ Append(ops, c) \in Seq(CallSet(m))
         /\ RestartIn(ops) \/ c.restart => RestartIn(Append(ops, c))
<1>1. Append(ops, c) \in Seq(CallSet(m)) /\ Len(Append(ops, c)) = Len(ops) + 1
  OBVIOUS
<1>2. Append(ops, c)[Len(ops) + 1] = c /\ \A i \in 1 .. Len(ops) : Append(ops, c)[i] = ops[i]
  OBVIOUS
<1>3. DOMAIN ops = 1 .. Len(ops) /\ DOMAIN Append(ops, c) = 1 .. Len(ops) + 1 /\ Len(ops) \in Nat
  OBVIOUS
<1>4. ASSUME RestartIn(ops) PROVE RestartIn(Append(ops, c))
  <2>1. PICK i \in 1 .. Len(ops) : ops[i].restart
    BY <1>3, <1>4 DEF RestartIn
  <2>2. i \in 1 .. Len(ops) + 1 /\ Append(ops, c)[i].restart
    BY <1>2, <1>3, <2>1
  <2> QED BY <1>3, <2>2 DEF RestartIn
<1>5. ASSUME c.restart PROVE RestartIn(Append(ops, c))
  <2>1. Len(ops) + 1 \in 1 .. Len(ops) + 1
    BY <1>3
  <2> QED BY <1>2, <1>3, <1>5, <2>1 DEF RestartIn
<1> QED BY <1>1, <1>4, <1>5

\* A restart that is not the first of the operations is among the rest.
LEMMA RestOfCalls ==
  ASSUME NEW m \in Nat, NEW ops \in Seq(CallSet(m)), ops # <<>>
  PROVE  /\ Head(ops) \in CallSet(m) /\ Tail(ops) \in Seq(CallSet(m))
         /\ RestartIn(ops) /\ ~Head(ops).restart => RestartIn(Tail(ops))
<1>1. Head(ops) \in CallSet(m) /\ Tail(ops) \in Seq(CallSet(m)) /\ Head(ops) = ops[1]
  OBVIOUS
<1>2. DOMAIN ops = 1 .. Len(ops) /\ DOMAIN Tail(ops) = 1 .. Len(ops) - 1 /\ Len(ops) \in Nat
  OBVIOUS
<1>3. \A i \in 1 .. Len(ops) - 1 : Tail(ops)[i] = ops[i + 1]
  OBVIOUS
<1>4. ASSUME RestartIn(ops), ~Head(ops).restart PROVE RestartIn(Tail(ops))
  <2>1. PICK i \in 1 .. Len(ops) : ops[i].restart
    BY <1>2, <1>4 DEF RestartIn
  <2>2. i # 1
    BY <1>1, <1>4, <2>1
  <2>3. i - 1 \in 1 .. Len(ops) - 1 /\ (i - 1) + 1 = i
    BY <1>2, <2>1, <2>2
  <2>4. Tail(ops)[i - 1].restart
    BY <1>3, <2>1, <2>3
  <2> QED BY <1>2, <2>3, <2>4 DEF RestartIn
<1> QED BY <1>1, <1>4

\* What was right stays so when more offers are made.
LEMMA MoreOffers ==
  ASSUME NEW m \in Nat, NEW k \in Nat, m <= k
  PROVE  /\ Seq(CallSet(m)) \subseteq Seq(CallSet(k))
         /\ Seq(FrameSet(m)) \subseteq Seq(FrameSet(k))
         /\ \A l, ops : LinkOK(l, ops, m) => LinkOK(l, ops, k)
<1>1. CallSet(m) \subseteq CallSet(k) /\ FrameSet(m) \subseteq FrameSet(k)
  BY DEF CallSet, FrameSet
<1>2. \A S, T : S \subseteq T => Seq(S) \subseteq Seq(T)
  OBVIOUS
<1>3. \A l, ops : LinkOK(l, ops, m) => LinkOK(l, ops, k)
  BY DEF LinkOK, Link
<1> QED BY <1>1, <1>2, <1>3

-------------------------------------------------------------------------------
(* The parts of the handlers.                                               *)

\* Short sequences.
LEMMA ShortSequences ==
  ASSUME NEW m \in Nat
  PROVE  /\ <<>> \in Seq(CallSet(m)) /\ \A c \in CallSet(m) : <<c>> \in Seq(CallSet(m))
         /\ <<>> \in Seq(FrameSet(m)) /\ \A f, g \in FrameSet(m) : <<f, g>> \in Seq(FrameSet(m))
OBVIOUS

\* One frame.
LEMMA SingleFrame == \A m \in Nat : \A f \in FrameSet(m) : <<f>> \in Seq(FrameSet(m))
OBVIOUS

\* A handler that ends in a good link, or in none.
LEMMA StateIsOK ==
  ASSUME NEW m \in Nat, NEW l, NEW ops \in Seq(CallSet(m)), NEW sends \in Seq(FrameSet(m)), NEW gaveUp,
         l # None => LinkOK(l, ops, m)
  PROVE  StateOK(State(l, ops, sends, gaveUp), m)
BY DEF StateOK, State

\* The state of a session between two steps.
LEMMA CurrentOK ==
  ASSUME LinkInv, NEW x \in Sides
  PROVE  StateOK(Current(x), offers)
BY DEF LinkInv, StateOK, Current, State

\* #ensureLink returns a link.
LEMMA EnsuredOK ==
  ASSUME LinkInv, NEW x \in Sides
  PROVE  StateOK(Ensured(x), offers) /\ Ensured(x).link # None
<1>1. CASE link[x] # None
  BY <1>1, CurrentOK DEF Ensured, Current, State
<1>2. CASE link[x] = None
  <2>1. /\ NewLink \in Link /\ ~NewLink.recoveryInFlight /\ NewLink.remote = 0
        /\ NewLink.local = 0 /\ NewLink.created = 0 /\ offers \in Nat
    BY LinkAssumption DEF NewLink, Link, LinkInv
  <2>2. Call("createOffer", 0, FALSE) \in CallSet(offers)
    BY DEF Call, CallSet, Calls, LinkInv
  <2>3. <<Call("createOffer", 0, FALSE)>> \in Seq(CallSet(offers)) /\ <<>> \in Seq(CallSet(offers)) /\ <<>> \in Seq(FrameSet(offers))
    BY <2>1, <2>2, ShortSequences
  <2>4. NewLink # None
    BY <2>1, NoLinkAssumption
  <2>5. /\ Ensured(x).link = NewLink /\ Ensured(x).sends = <<>>
        /\ Ensured(x).ops \in {<<Call("createOffer", 0, FALSE)>>, <<>>}
    BY <1>2 DEF Ensured, State
  <2>6. \A ops : LinkOK(NewLink, ops, offers)
    BY <2>1 DEF LinkOK
  <2>7. Ensured(x).ops \in Seq(CallSet(offers)) /\ Ensured(x).sends \in Seq(FrameSet(offers))
    BY <2>3, <2>5
  <2> QED BY <2>4, <2>5, <2>6, <2>7 DEF StateOK
<1> QED BY <1>1, <1>2

\* #recoverPeer raises its flag with the operation that will lower it.
LEMMA RecoveredOK ==
  ASSUME NEW x \in Sides, NEW m \in Nat,
         NEW l \in Link, NEW ops \in Seq(CallSet(m)), NEW sends \in Seq(FrameSet(m)), LinkOK(l, ops, m)
  PROVE  StateOK(Recovered(x, State(l, ops, sends, FALSE)), m)
<1> DEFINE s == State(l, ops, sends, FALSE)
           c == Call("createOffer", 0, TRUE)
<1>1. s.link = l /\ s.ops = ops /\ s.sends = sends
  BY DEF State
<1>2. CASE l.recoveryInFlight \/ ~Open(x)
  BY <1>1, <1>2 DEF Recovered, StateOK
<1>3. CASE ~(l.recoveryInFlight \/ ~Open(x)) /\ Exhausted(l)
  BY <1>1, <1>3 DEF Recovered, StateOK, State
<1>4. CASE ~(l.recoveryInFlight \/ ~Open(x)) /\ ~Exhausted(l)
  <2> DEFINE n == l.recoveryAttempts + 1
  <2>1. n \in 0 .. PeerRecoveryAttempts
    BY <1>4, LinkAssumption DEF Exhausted, Link
  <2>2. CASE x = "responder"
    <3> DEFINE asked == Append(sends, Frame("ice-restart-request", 0))
               new == [l EXCEPT !.recoveryAttempts = n]
    <3>1. asked \in Seq(FrameSet(m))
      BY DEF Frame, FrameSet, Frames, Reports, Signals
    <3>2. Recovered(x, s) = State(new, ops, asked, FALSE)
      BY <1>1, <1>4, <2>2 DEF Recovered, State
    <3>3. LinkOK(new, ops, m)
      <4> HIDE DEF n
      <4> QED BY <2>1 DEF LinkOK, Link
    <3> HIDE DEF new, asked
    <3> QED BY <3>1, <3>2, <3>3, StateIsOK
  <2>3. CASE x # "responder"
    <3> DEFINE restarting == Append(ops, c)
               new == [l EXCEPT !.recoveryAttempts = n, !.recoveryInFlight = TRUE]
    <3>1. c \in CallSet(m) /\ c.restart
      BY DEF Call, CallSet, Calls
    <3>2. restarting \in Seq(CallSet(m)) /\ RestartIn(restarting)
      BY <3>1, AppendedCall
    <3>3. Recovered(x, s) = State(new, restarting, sends, FALSE)
      BY <1>1, <1>4, <2>3 DEF Recovered, State
    <3>4. LinkOK(new, restarting, m)
      <4> HIDE DEF n, restarting
      <4> QED BY <2>1, <3>2 DEF LinkOK, Link
    <3> HIDE DEF new, restarting
    <3> QED BY <3>2, <3>3, <3>4, StateIsOK
  <2> QED BY <2>2, <2>3
<1> QED BY <1>2, <1>3, <1>4

\* The same for a state that is at hand.
LEMMA RecoveredStateOK ==
  ASSUME NEW x \in Sides, NEW m \in Nat, NEW s, StateOK(s, m), s.link # None,
         s = State(s.link, s.ops, s.sends, FALSE)
  PROVE  StateOK(Recovered(x, s), m)
<1> DEFINE l == s.link  ops == s.ops  sends == s.sends
<1>1. l \in Link /\ ops \in Seq(CallSet(m)) /\ sends \in Seq(FrameSet(m)) /\ LinkOK(l, ops, m)
  BY DEF StateOK, LinkOK
<1> HIDE DEF l, ops, sends
<1>2. StateOK(Recovered(x, State(l, ops, sends, FALSE)), m)
  BY <1>1, RecoveredOK
<1> QED BY <1>2 DEF l, ops, sends

\* A call at the end of the operations.
LEMMA CallAddedOK ==
  ASSUME NEW m \in Nat, NEW s, StateOK(s, m), NEW c \in CallSet(m),
         NEW t, t.link = s.link, t.sends = s.sends, t.ops = Append(s.ops, c)
  PROVE  StateOK(t, m)
<1>1. t.ops \in Seq(CallSet(m)) /\ (RestartIn(s.ops) => RestartIn(t.ops))
  BY AppendedCall DEF StateOK
<1>2. t.link # None => LinkOK(t.link, t.ops, m)
  BY <1>1 DEF LinkOK, StateOK
<1> QED BY <1>1, <1>2 DEF StateOK

-------------------------------------------------------------------------------
(* The steps.                                                               *)

\* #handleSignalingMessage and #handleSignal.
LEMMA HandledOK ==
  ASSUME LinkInv, NEW x \in Sides, NEW f \in FrameSet(offers)
  PROVE  StateOK(Handled(x, f), offers)
<1> DEFINE s == Ensured(x)
<1>0. offers \in Nat
  BY DEF LinkInv
<1>1. StateOK(s, offers) /\ s.link # None /\ LinkOK(s.link, s.ops, offers) /\ s.ops \in Seq(CallSet(offers))
  BY EnsuredOK DEF StateOK
<1>2. s = State(s.link, s.ops, s.sends, FALSE)
  BY DEF Ensured, Current, State
<1>3. StateOK(Recovered(x, s), offers)
  BY <1>0, <1>1, <1>2, RecoveredStateOK
<1>4. StateOK(Dropped, offers)
  BY <1>0, ShortSequences, StateIsOK DEF Dropped
<1>5. StateOK(Rejoined(x, s), offers)
  BY <1>1, <1>3 DEF Rejoined
<1>6. \A op \in Calls : f.number <= offers =>
        StateOK([s EXCEPT !.ops = Append(@, Call(op, f.number, FALSE))], offers)
  <2> SUFFICES ASSUME NEW op \in Calls, f.number <= offers
               PROVE  StateOK([s EXCEPT !.ops = Append(@, Call(op, f.number, FALSE))], offers)
    OBVIOUS
  <2>1. Call(op, f.number, FALSE) \in CallSet(offers)
    BY <1>0 DEF Call, CallSet, FrameSet
  <2> DEFINE c == Call(op, f.number, FALSE)
             t == [s EXCEPT !.ops = Append(@, c)]
  <2>2. t.link = s.link /\ t.sends = s.sends /\ t.ops = Append(s.ops, c)
    <3> HIDE DEF c
    <3> QED BY DEF Ensured, Current, State
  <2> HIDE DEF s, c, t
  <2>3. StateOK(t, offers)
    BY <1>0, <1>1, <2>1, <2>2, CallAddedOK DEF c
  <2> QED BY <2>3 DEF t, c
<1>7. StateOK([s EXCEPT !.link = CandidateTaken(@)], offers)
  <2> DEFINE l == CandidateTaken(s.link)
             t == [s EXCEPT !.link = l]
  <2>1. LinkOK(l, s.ops, offers)
    BY <1>1 DEF CandidateTaken, LinkOK, Link
  <2>2. t.link = l /\ t.sends = s.sends /\ t.ops = s.ops
    <3> HIDE DEF l
    <3> QED BY DEF Ensured, Current, State
  <2> HIDE DEF s, l, t
  <2>3. StateOK(t, offers)
    BY <1>1, <2>1, <2>2 DEF StateOK
  <2> QED BY <2>3 DEF t, l
<1> HIDE DEF s
<1>8. f.type \in Frames /\ (f.type \in {"offer", "answer"} => f.number <= offers)
  BY DEF FrameSet
<1> USE DEF Frames, Reports, Signals, Calls
<1>a. CASE f.type = "connected"
  BY <1>4, <1>5, <1>a DEF Handled, s
<1>b. CASE f.type = "participant-connected"
  BY <1>1, <1>b DEF Handled, s
<1>c. CASE f.type = "participant-disconnected"
  BY <1>4, <1>c DEF Handled
<1>d. CASE f.type = "ice-restart-request"
  BY <1>3, <1>d DEF Handled, s
<1>e. CASE f.type = "offer"
  BY <1>6, <1>8, <1>e DEF Handled, s
<1>f. CASE f.type = "answer"
  BY <1>6, <1>8, <1>f DEF Handled, s
<1>g. CASE f.type = "candidate"
  BY <1>7, <1>g DEF Handled, s
<1> QED BY <1>8, <1>a, <1>b, <1>c, <1>d, <1>e, <1>f, <1>g

\* A step that ends in a good state keeps the invariant.
LEMMA BecomesKeeps ==
  ASSUME LinkInv, NEW x \in Sides, NEW s, NEW rest \in Seq(FrameSet(offers)), Becomes(x, s, rest),
         ServiceOK', offers' \in Nat, offers <= offers', StateOK(s, offers')
  PROVE  LinkInv'
<1>0. /\ \A y \in Sides : operations[y] \in Seq(CallSet(offers')) /\ inbox[y] \in Seq(FrameSet(offers'))
      /\ rest \in Seq(FrameSet(offers'))
      /\ \A y \in Sides : link[y] # None => LinkOK(link[y], operations[y], offers')
  <2> DEFINE k == offers'
  <2>1. offers \in Nat /\ k \in Nat /\ offers <= k
    BY DEF LinkInv
  <2> HIDE DEF k
  <2> QED BY <2>1, MoreOffers DEF LinkInv, k
<1>1. Other(x) \in Sides /\ Other(x) # x
  BY DEF Other, Sides
<1>2. /\ DOMAIN link' = Sides /\ link'[x] = s.link /\ \A y \in Sides \ {x} : link'[y] = link[y]
      /\ DOMAIN operations' = Sides /\ operations'[x] = s.ops
      /\ \A y \in Sides \ {x} : operations'[y] = operations[y]
  BY DEF Becomes, LinkInv
<1>3. Signaled(x, inbox[Other(x)], s.sends) \in Seq(FrameSet(offers'))
  <2>1. inbox[Other(x)] \in Seq(FrameSet(offers')) /\ s.sends \in Seq(FrameSet(offers'))
    BY <1>0, <1>1 DEF LinkInv, StateOK
  <2>2. inbox[Other(x)] \o s.sends \in Seq(FrameSet(offers'))
    BY <2>1
  <2> QED BY <2>1, <2>2 DEF Signaled
<1>4. /\ DOMAIN inbox' = Sides
      /\ \A y \in Sides : inbox'[y] \in {rest, Signaled(x, inbox[Other(x)], s.sends), inbox[y]}
  BY <1>1 DEF Becomes, LinkInv
<1>5. \A y \in Sides : inbox'[y] \in Seq(FrameSet(offers'))
  BY <1>0, <1>3, <1>4 DEF LinkInv
<1>6. \A y \in Sides : operations'[y] \in Seq(CallSet(offers')) /\ (link'[y] # None => LinkOK(link'[y], operations'[y], offers'))
  BY <1>0, <1>2 DEF LinkInv, StateOK
<1>7. exhausted' \subseteq Sides
  BY DEF Becomes, LinkInv
<1> QED BY <1>2, <1>4, <1>5, <1>6, <1>7 DEF LinkInv

\* The faults are counted.
LEMMA FaultCounted ==
  ASSUME faults \in [losses : Nat, failures : Nat, refusals : Nat],
         \/ faults' = [faults EXCEPT !.losses = @ + 1] \/ faults' = [faults EXCEPT !.failures = @ + 1]
         \/ faults' = [faults EXCEPT !.refusals = @ + 1]
  PROVE  faults' \in [losses : Nat, failures : Nat, refusals : Nat]
OBVIOUS

\* A step of which the service and the sockets know nothing.
LEMMA ServiceKept ==
  ASSUME ServiceOK, UNCHANGED <<sockets, registered, reports>>,
         \/ faults' = faults
         \/ faults' = [faults EXCEPT !.failures = @ + 1] \/ faults' = [faults EXCEPT !.refusals = @ + 1]
  PROVE  ServiceOK'
<1>1. faults' \in [losses : Nat, failures : Nat, refusals : Nat]
  BY FaultCounted DEF ServiceOK
<1> QED BY <1>1 DEF ServiceOK

\* A frame is handled.
LEMMA HandleFrameKeeps ==
  ASSUME LinkInv, NEW x \in Sides, HandleFrame(x)
  PROVE  LinkInv'
<1>1. inbox[x] \in Seq(FrameSet(offers)) /\ inbox[x] # <<>>
  BY DEF HandleFrame, LinkInv
<1>2. Head(inbox[x]) \in FrameSet(offers) /\ Tail(inbox[x]) \in Seq(FrameSet(offers))
  BY <1>1
<1>3. StateOK(Handled(x, Head(inbox[x])), offers)
  BY <1>2, HandledOK
<1>4. offers' = offers /\ offers \in Nat /\ ServiceOK'
  BY ServiceKept DEF HandleFrame, LinkInv, serviceVars
<1>5. StateOK(Handled(x, Head(inbox[x])), offers')
  BY <1>3, <1>4
<1>6. /\ offers' \in Nat /\ offers <= offers' /\ ServiceOK'
      /\ Becomes(x, Handled(x, Head(inbox[x])), Tail(inbox[x]))
  BY <1>4 DEF HandleFrame
<1> QED BY <1>2, <1>3, <1>5, <1>6, BecomesKeeps

\* The next call of a caller: at the end of the operations that are left,
\* and in place of the one that is over, which it replaces as a restart.
LEMMA NextCallOK ==
  ASSUME NEW m \in Nat, NEW old \in Link, NEW l \in Link, NEW ops \in Seq(CallSet(m)), ops # <<>>, LinkOK(old, ops, m),
         NEW c \in CallSet(m), Head(ops).restart => c.restart,
         l.recoveryInFlight => old.recoveryInFlight,
         l.local <= m, l.remote <= m, l.created <= m, l.remote # 0 => ~l.pendingCandidates
  PROVE  StateOK(State(l, Append(Tail(ops), c), <<>>, FALSE), m)
<1>1. Tail(ops) \in Seq(CallSet(m)) /\ (RestartIn(ops) /\ ~Head(ops).restart => RestartIn(Tail(ops)))
  BY RestOfCalls
<1>2. /\ Append(Tail(ops), c) \in Seq(CallSet(m))
      /\ RestartIn(Tail(ops)) \/ c.restart => RestartIn(Append(Tail(ops), c))
  BY <1>1, AppendedCall
<1>3. LinkOK(l, Append(Tail(ops), c), m)
  <2>1. l.recoveryInFlight => RestartIn(Append(Tail(ops), c))
    BY <1>1, <1>2 DEF LinkOK
  <2> QED BY <2>1 DEF LinkOK
<1> QED BY <1>2, <1>3, ShortSequences, StateIsOK

\* The end of a caller: of a restart, its flag is down.
LEMMA LastCallOK ==
  ASSUME NEW m \in Nat, NEW old \in Link, NEW l \in Link, NEW ops \in Seq(CallSet(m)), ops # <<>>, LinkOK(old, ops, m),
         l.recoveryInFlight => old.recoveryInFlight /\ ~Head(ops).restart,
         l.local <= m, l.remote <= m, l.created <= m, l.remote # 0 => ~l.pendingCandidates, NEW sends \in Seq(FrameSet(m))
  PROVE  StateOK(State(l, Tail(ops), sends, FALSE), m)
<1>1. Tail(ops) \in Seq(CallSet(m)) /\ (RestartIn(ops) /\ ~Head(ops).restart => RestartIn(Tail(ops)))
  BY RestOfCalls
<1>2. LinkOK(l, Tail(ops), m)
  BY <1>1 DEF LinkOK
<1> QED BY <1>1, <1>2, StateIsOK

\* An operation is run.
LEMMA CalledOK ==
  ASSUME LinkInv, NEW m \in Nat, NEW l \in Link, NEW ops \in Seq(CallSet(m)), ops # <<>>, LinkOK(l, ops, m),
         Head(ops).op = "createOffer" => m = offers + 1
  PROVE  StateOK(Called(Head(ops), l, Tail(ops)), m)
<1> DEFINE c == Head(ops)
           n == c.number
           rest == Tail(ops)
<1>1. /\ c \in CallSet(m) /\ n \in Nat /\ n <= m /\ c.op \in Calls /\ offers + 1 \in Nat /\ offers \in Nat
      /\ c.restart => c.op \in {"createOffer", "setLocalOffer"}
      /\ c.restart \in BOOLEAN
      /\ l.local <= m /\ l.remote <= m /\ l.created <= m
  BY RestOfCalls DEF CallSet, LinkInv, LinkOK
<1>2. \A type \in {"offer", "answer"} : <<Frame(type, n), Frame("candidate", 0)>> \in Seq(FrameSet(m))
  <2>1. \A type \in {"offer", "answer"} : Frame(type, n) \in FrameSet(m) /\ Frame("candidate", 0) \in FrameSet(m)
    BY <1>1 DEF Frame, FrameSet, Frames, Reports, Signals
  <2> HIDE DEF Frame
  <2> QED BY <2>1, ShortSequences
<1>3. CASE c.op = "createOffer"
  <2> DEFINE next == Call("setLocalOffer", offers + 1, c.restart)
             new == [l EXCEPT !.created = offers + 1]
  <2>1. next \in CallSet(m) /\ next.restart = c.restart
    BY <1>1, <1>3 DEF Call, CallSet, Calls
  <2>2. /\ new \in Link /\ new.recoveryInFlight = l.recoveryInFlight /\ (new.remote # 0 => ~new.pendingCandidates)
        /\ new.local <= m /\ new.remote <= m /\ new.created <= m
    BY <1>1, <1>3 DEF LinkOK, Link
  <2>3. Called(c, l, rest) = State(new, Append(rest, next), <<>>, FALSE)
    BY <1>3 DEF Called
  <2> HIDE DEF next, new, c
  <2>4. StateOK(State(new, Append(rest, next), <<>>, FALSE), m)
    BY <2>1, <2>2, NextCallOK DEF c
  <2> QED BY <2>3, <2>4 DEF c
<1>4. CASE c.op = "setLocalOffer"
  <2> DEFINE over == RecoveryOver(c, l)
             new == [over EXCEPT !.signaling = "have-local-offer", !.local = n]
  <2>1. /\ over \in Link /\ (over.remote # 0 => ~over.pendingCandidates)
        /\ over.local <= m /\ over.remote <= m /\ over.created <= m
        /\ over.recoveryInFlight => l.recoveryInFlight /\ ~c.restart
    BY <1>1 DEF RecoveryOver, LinkOK, Link
  <2>2. /\ new \in Link /\ (new.remote # 0 => ~new.pendingCandidates)
        /\ new.local <= m /\ new.remote <= m /\ new.created <= m
        /\ new.recoveryInFlight => l.recoveryInFlight /\ ~c.restart
    <3> HIDE DEF over, c, n
    <3> QED BY <1>1, <2>1 DEF Link
  <2>3. \/ Called(c, l, rest) = State(over, rest, <<>>, FALSE)
        \/ Called(c, l, rest) = State(new, rest, <<Frame("offer", n), Frame("candidate", 0)>>, FALSE)
    BY <1>4 DEF Called
  <2> HIDE DEF over, new, c, n
  <2>4. StateOK(State(over, rest, <<>>, FALSE), m)
    BY <2>1, ShortSequences, LastCallOK DEF c
  <2>5. StateOK(State(new, rest, <<Frame("offer", n), Frame("candidate", 0)>>, FALSE), m)
    BY <1>2, <2>2, LastCallOK DEF c
  <2> QED BY <2>3, <2>4, <2>5 DEF c
<1>5. CASE c.op = "setRemoteOffer"
  <2> DEFINE next == Call("createAnswer", 0, FALSE)
             new == [l EXCEPT !.signaling = "have-remote-offer", !.remote = n, !.pendingCandidates = FALSE]
  <2>1. next \in CallSet(m) /\ ~c.restart
    BY <1>1, <1>5 DEF Call, CallSet, Calls
  <2>2. /\ new \in Link /\ new.recoveryInFlight = l.recoveryInFlight /\ ~new.pendingCandidates
        /\ new.local <= m /\ new.remote <= m /\ new.created <= m
    <3> HIDE DEF c, n
    <3> QED BY <1>1 DEF Link
  <2>3. Called(c, l, rest) = State(new, Append(rest, next), <<>>, FALSE)
    BY <1>5 DEF Called
  <2> HIDE DEF next, new, c
  <2>4. StateOK(State(new, Append(rest, next), <<>>, FALSE), m)
    BY <2>1, <2>2, NextCallOK DEF c
  <2> QED BY <2>3, <2>4 DEF c
<1>6. CASE c.op = "createAnswer"
  <2> DEFINE next == Call("setLocalAnswer", l.remote, FALSE)
             new == [l EXCEPT !.created = l.remote]
  <2>1. next \in CallSet(m) /\ ~c.restart
    BY <1>1, <1>6 DEF Call, CallSet, Calls, Link
  <2>2. /\ new \in Link /\ new.recoveryInFlight = l.recoveryInFlight /\ (new.remote # 0 => ~new.pendingCandidates)
        /\ new.local <= m /\ new.remote <= m /\ new.created <= m
    BY <1>1 DEF Link, LinkOK
  <2>3. \/ Called(c, l, rest) = State(l, rest, <<>>, FALSE)
        \/ Called(c, l, rest) = State(new, Append(rest, next), <<>>, FALSE)
    BY <1>6 DEF Called
  <2> HIDE DEF next, new, c
  <2>4. StateOK(State(new, Append(rest, next), <<>>, FALSE), m)
    BY <2>1, <2>2, NextCallOK DEF c
  <2>5. StateOK(State(l, rest, <<>>, FALSE), m)
    BY <2>1, ShortSequences, LastCallOK DEF c, LinkOK
  <2> QED BY <2>3, <2>4, <2>5 DEF c
<1>7. CASE c.op = "setLocalAnswer"
  <2> DEFINE new == [l EXCEPT !.signaling = "stable", !.local = n, !.state = Restarted(@)]
  <2>1. ~c.restart
    BY <1>1, <1>7
  <2>2. /\ new \in Link /\ new.recoveryInFlight = l.recoveryInFlight /\ (new.remote # 0 => ~new.pendingCandidates)
        /\ new.local <= m /\ new.remote <= m /\ new.created <= m
    <3>1. Restarted(l.state) \in {"new", "connecting", "connected", "failed"}
      BY DEF Restarted, Link
    <3> HIDE DEF c, n
    <3> QED BY <1>1, <3>1 DEF Link, LinkOK
  <2>3. \/ Called(c, l, rest) = State(l, rest, <<>>, FALSE)
        \/ Called(c, l, rest) = State(new, rest, <<Frame("answer", n), Frame("candidate", 0)>>, FALSE)
    BY <1>7 DEF Called
  <2> HIDE DEF new, c, n
  <2>4. StateOK(State(new, rest, <<Frame("answer", n), Frame("candidate", 0)>>, FALSE), m)
    BY <1>2, <2>1, <2>2, LastCallOK DEF c
  <2>5. StateOK(State(l, rest, <<>>, FALSE), m)
    BY <2>1, ShortSequences, LastCallOK DEF c, LinkOK
  <2> QED BY <2>3, <2>4, <2>5 DEF c
<1>8. CASE c.op = "setRemoteAnswer"
  <2> DEFINE new == [l EXCEPT !.signaling = "stable", !.remote = n, !.state = Restarted(@),
                              !.pendingCandidates = FALSE]
  <2>1. ~c.restart
    BY <1>1, <1>8
  <2>2. /\ new \in Link /\ new.recoveryInFlight = l.recoveryInFlight /\ ~new.pendingCandidates
        /\ new.local <= m /\ new.remote <= m /\ new.created <= m
    <3>1. Restarted(l.state) \in {"new", "connecting", "connected", "failed"}
      BY DEF Restarted, Link
    <3> HIDE DEF c, n
    <3> QED BY <1>1, <3>1 DEF Link
  <2>3. \/ Called(c, l, rest) = State(l, rest, <<>>, FALSE)
        \/ Called(c, l, rest) = State(new, rest, <<>>, FALSE)
    BY <1>8 DEF Called
  <2> HIDE DEF new, c
  <2>4. StateOK(State(new, rest, <<>>, FALSE), m)
    BY <2>1, <2>2, ShortSequences, LastCallOK DEF c
  <2>5. StateOK(State(l, rest, <<>>, FALSE), m)
    BY <2>1, ShortSequences, LastCallOK DEF c, LinkOK
  <2> QED BY <2>3, <2>4, <2>5 DEF c
<1> QED BY <1>1, <1>3, <1>4, <1>5, <1>6, <1>7, <1>8 DEF Calls

\* An operation of the connection is run.
LEMMA RunOperationKeeps ==
  ASSUME LinkInv, NEW x \in Sides, RunOperation(x)
  PROVE  LinkInv'
<1> DEFINE m == offers'
           c == Head(operations[x])
<1>1. /\ link[x] # None /\ operations[x] # <<>> /\ inbox[x] \in Seq(FrameSet(offers))
      /\ operations[x] \in Seq(CallSet(offers)) /\ LinkOK(link[x], operations[x], offers)
  BY DEF RunOperation, LinkInv
<1>2. /\ Becomes(x, Called(c, link[x], Tail(operations[x])), inbox[x])
      /\ m = IF c.op = "createOffer" THEN offers + 1 ELSE offers
      /\ ServiceOK'
  BY ServiceKept DEF RunOperation, LinkInv, serviceVars
<1>3. m \in Nat /\ offers \in Nat /\ offers <= m
  BY <1>2 DEF LinkInv
<1>4. /\ link[x] \in Link /\ operations[x] \in Seq(CallSet(m)) /\ LinkOK(link[x], operations[x], m)
  <2> HIDE DEF m
  <2>1. operations[x] \in Seq(CallSet(m)) /\ LinkOK(link[x], operations[x], m)
    BY <1>1, <1>3, MoreOffers
  <2> QED BY <2>1 DEF LinkOK
<1>5. StateOK(Called(c, link[x], Tail(operations[x])), m)
  <2> HIDE DEF m
  <2> QED BY <1>1, <1>2, <1>3, <1>4, CalledOK
<1> HIDE DEF c
<1> QED BY <1>1, <1>2, <1>3, <1>5, BecomesKeeps

\* The state of a connection and the count of its recoveries are free.
LEMMA LinkStateOK ==
  ASSUME NEW m, NEW l, NEW ops, LinkOK(l, ops, m)
  PROVE  /\ LinkOK([l EXCEPT !.state = "failed"], ops, m)
         /\ LinkOK([l EXCEPT !.state = "connected", !.recoveryAttempts = 0], ops, m)
<1>1. l \in Link /\ 0 \in 0 .. PeerRecoveryAttempts
  BY LinkAssumption DEF LinkOK
<1>2. [l EXCEPT !.state = "failed"] \in Link
  BY <1>1 DEF Link
<1>3. [l EXCEPT !.state = "connected", !.recoveryAttempts = 0] \in Link
  BY <1>1 DEF Link
<1> QED BY <1>1, <1>2, <1>3 DEF LinkOK, Link

\* The transport connects.
LEMMA ConnectedKeeps ==
  ASSUME LinkInv, NEW x \in Sides, Connected(x)
  PROVE  LinkInv'
<1> DEFINE new == [link[x] EXCEPT !.state = "connected", !.recoveryAttempts = 0]
<1>1. link[x] # None /\ LinkOK(link[x], operations[x], offers)
  BY DEF Connected, Agree, LinkInv
<1>2. link' = [link EXCEPT ![x] = new]
  BY <1>1 DEF Connected, LinkInv
<1>5. LinkOK(new, operations[x], offers)
  BY <1>1, LinkStateOK
<1> HIDE DEF new
<1>3. DOMAIN link' = Sides /\ link'[x] = new /\ \A y \in Sides \ {x} : link'[y] = link[y]
  BY <1>2 DEF LinkInv
<1>4. \A y \in Sides : link'[y] # None => LinkOK(link'[y], operations[y], offers)
  BY <1>5, <1>3 DEF LinkInv
<1>6. ServiceOK'
  BY ServiceKept DEF Connected, LinkInv, serviceVars
<1> QED BY <1>3, <1>4, <1>6 DEF Connected, LinkInv

\* The transport fails, and the session sets out to recover the link.
LEMMA FailedKeeps ==
  ASSUME LinkInv, NEW x \in Sides, link[x] # None, offers' = offers, ServiceOK',
         Becomes(x, Broken(x), inbox[x])
  PROVE  LinkInv'
<1> DEFINE new == [link[x] EXCEPT !.state = "failed"]
<1>0. offers \in Nat
  BY DEF LinkInv
<1>1. /\ LinkOK(link[x], operations[x], offers)
      /\ operations[x] \in Seq(CallSet(offers)) /\ inbox[x] \in Seq(FrameSet(offers))
  BY DEF LinkInv
<1>2. new \in Link /\ LinkOK(new, operations[x], offers)
  BY <1>1, LinkStateOK DEF LinkOK
<1>3. StateOK(Recovered(x, State(new, operations[x], <<>>, FALSE)), offers)
  <2> HIDE DEF new
  <2> QED BY <1>0, <1>1, <1>2, RecoveredOK, ShortSequences
<1>4. StateOK(Broken(x), offers)
  BY <1>3 DEF Broken
<1>5. StateOK(Broken(x), offers') /\ offers' \in Nat /\ offers <= offers'
  BY <1>4 DEF LinkInv
<1> QED BY <1>1, <1>5, BecomesKeeps

\* Part of the frames of a queue, and a queue without one of its frames.
LEMMA PartOfFrames ==
  ASSUME NEW m \in Nat, NEW queue \in Seq(FrameSet(m))
  PROVE  /\ \A k \in 0 .. Len(queue) : SubSeq(queue, 1, k) \in Seq(FrameSet(m))
         /\ \A k \in DOMAIN queue : RemoveAt(queue, k) \in Seq(FrameSet(m))
<1> DEFINE S == FrameSet(m)
<1> HIDE DEF S
<1>1. queue \in Seq(S)
  BY DEF S
<1>2. Len(queue) \in Nat /\ DOMAIN queue = 1 .. Len(queue)
  BY <1>1
<1>3. \A k \in 0 .. Len(queue) : SubSeq(queue, 1, k) \in Seq(S)
  BY <1>1, <1>2
<1>4. ASSUME NEW k \in 1 .. Len(queue) PROVE RemoveAt(queue, k) \in Seq(S)
  <2>1. SubSeq(queue, 1, k - 1) \in Seq(S)
    BY <1>2, <1>3
  <2>2. SubSeq(queue, k + 1, Len(queue)) \in Seq(S)
    BY <1>1, <1>2
  <2> QED BY <2>1, <2>2 DEF RemoveAt
<1> QED BY <1>2, <1>3, <1>4 DEF S

\* Steps of the sockets and the service that leave good frames in each inbox.
LEMMA InboxesKeep ==
  ASSUME LinkInv, ServiceOK', UNCHANGED <<link, operations, offers, exhausted>>,
         DOMAIN inbox' = Sides, \A y \in Sides : inbox'[y] \in Seq(FrameSet(offers))
  PROVE  LinkInv'
BY DEF LinkInv

\* A socket is lost.
LEMMA LoseSocketKeeps ==
  ASSUME LinkInv, NEW x \in Sides, LoseSocket(x)
  PROVE  LinkInv'
<1> DEFINE z == Other(x)
<1>1. z \in Sides /\ z # x /\ offers \in Nat
  BY DEF Other, Sides, LinkInv
<1>2. PICK k \in 0 .. Len(inbox[z]) :
        inbox' = [inbox EXCEPT ![x] = <<>>, ![z] = SubSeq(@, 1, k)]
  BY DEF LoseSocket
<1>3. ServiceOK'
  <2>1. /\ sockets' = [sockets EXCEPT ![x] = "dead"] /\ registered' = registered
        /\ reports' = [reports EXCEPT ![z] = {}] /\ faults' = [faults EXCEPT !.losses = @ + 1]
    BY DEF LoseSocket
  <2> HIDE DEF z
  <2>2. /\ DOMAIN reports = Sides
        /\ \A y \in Sides : \A r \in reports[y] : r.type \in Reports /\ r.connection \in Nat
    BY DEF ServiceOK, LinkInv
  <2>3. /\ DOMAIN reports' = Sides
        /\ \A y \in Sides : reports'[y] \subseteq reports[y]
    BY <1>1, <2>1, <2>2
  <2>4. \A y \in Sides : \A r \in reports'[y] : r.type \in Reports /\ r.connection \in Nat
    BY <2>2, <2>3
  <2>5. faults' \in [losses : Nat, failures : Nat, refusals : Nat]
    BY <2>1, FaultCounted DEF ServiceOK, LinkInv
  <2>6. sockets' \in [Sides -> {"open", "dead", "closed"}] /\ registered' \in [Sides -> Nat]
    BY <2>1 DEF ServiceOK, LinkInv
  <2> QED BY <2>3, <2>4, <2>5, <2>6 DEF ServiceOK
<1> HIDE DEF z
<1>4. SubSeq(inbox[z], 1, k) \in Seq(FrameSet(offers)) /\ <<>> \in Seq(FrameSet(offers))
  BY <1>1, PartOfFrames, ShortSequences DEF LinkInv
<1>5. DOMAIN inbox' = Sides /\ \A y \in Sides : inbox'[y] \in {<<>>, SubSeq(inbox[z], 1, k), inbox[y]}
  BY <1>1, <1>2 DEF LinkInv
<1>6. \A y \in Sides : inbox'[y] \in Seq(FrameSet(offers))
  BY <1>4, <1>5 DEF LinkInv
<1>7. UNCHANGED <<link, operations, offers, exhausted>>
  BY DEF LoseSocket
<1> QED BY <1>3, <1>5, <1>6, <1>7, InboxesKeep

\* The session learns of it.
LEMMA SocketClosedKeeps ==
  ASSUME LinkInv, NEW x \in Sides, SocketClosed(x)
  PROVE  LinkInv'
<1>1. ServiceOK'
  BY DEF SocketClosed, ServiceOK, LinkInv, serviceVars
<1> QED BY <1>1 DEF SocketClosed, LinkInv

\* What a connection has to report.
LEMMA OwedOK ==
  ASSUME ServiceOK, NEW x \in Sides, NEW type \in Reports, NEW n \in Nat
  PROVE  \A r \in Owed(x, Report(type, n)) : r.type \in Reports /\ r.connection \in Nat
BY DEF Owed, Report, ServiceOK

\* The service unregisters a connection.
LEMMA UnregisterKeeps ==
  ASSUME LinkInv, NEW x \in Sides, Unregister(x)
  PROVE  LinkInv'
<1> DEFINE owed == Owed(x, Report("participant-disconnected", registered[x]))
<1>1. registered[x] \in Nat /\ ServiceOK
  BY DEF LinkInv, ServiceOK
<1>2. \A r \in owed : r.type \in Reports /\ r.connection \in Nat
  BY <1>1, OwedOK DEF Reports
<1>3. reports' = [reports EXCEPT ![x] = owed] /\ registered' = [registered EXCEPT ![x] = 0]
      /\ UNCHANGED <<sockets, faults>>
  BY DEF Unregister
<1> HIDE DEF owed
<1>4. ServiceOK'
  BY <1>1, <1>2, <1>3 DEF ServiceOK
<1> QED BY <1>4 DEF Unregister, LinkInv

\* A session is back.
LEMMA ReconnectKeeps ==
  ASSUME LinkInv, NEW x \in Sides, Reconnect(x)
  PROVE  LinkInv'
<1> DEFINE hello == Frame("connected", IF registered[Other(x)] # 0 THEN 1 ELSE 0)
           connection == faults.losses + 1
           owed == Owed(x, Report("participant-connected", connection))
<1>1. hello \in FrameSet(offers)
  BY DEF Frame, FrameSet, Frames, Reports, Signals
<1>2. connection \in Nat /\ ServiceOK /\ offers \in Nat
  BY DEF LinkInv, ServiceOK
<1>3. /\ inbox' = [inbox EXCEPT ![x] = <<hello>>]
      /\ reports' = [reports EXCEPT ![x] = owed] /\ registered' = [registered EXCEPT ![x] = connection]
      /\ sockets' = [sockets EXCEPT ![x] = "open"] /\ faults' = faults
      /\ UNCHANGED <<link, operations, offers, exhausted>>
  BY DEF Reconnect
<1> HIDE DEF hello, connection
<1>4. \A r \in owed : r.type \in Reports /\ r.connection \in Nat
  BY <1>2, OwedOK DEF Reports
<1> HIDE DEF owed
<1>5. ServiceOK'
  BY <1>2, <1>3, <1>4 DEF ServiceOK
<1>6. <<hello>> \in Seq(FrameSet(offers))
  BY <1>1, <1>2, SingleFrame
<1>7. DOMAIN inbox' = Sides /\ \A y \in Sides : inbox'[y] \in Seq(FrameSet(offers))
  BY <1>3, <1>6 DEF LinkInv
<1> QED BY <1>3, <1>5, <1>7, InboxesKeep

\* A task reports.
LEMMA SendReportKeeps ==
  ASSUME LinkInv, NEW x \in Sides, SendReport(x)
  PROVE  LinkInv'
<1> DEFINE z == Other(x)
<1>1. z \in Sides /\ offers \in Nat
  BY DEF Other, Sides, LinkInv
<1>2. PICK r \in reports[x] :
        /\ reports' = [reports EXCEPT ![x] = @ \ {r}]
        /\ inbox' = [inbox EXCEPT ![z] = Append(@, Frame(r.type, 0))]
  BY DEF SendReport
<1>3. UNCHANGED <<link, operations, sockets, registered, offers, exhausted, faults>>
  BY DEF SendReport
<1> HIDE DEF z
<1>4. ServiceOK'
  <2>1. /\ DOMAIN reports' = Sides
        /\ \A y \in Sides : reports'[y] \subseteq reports[y]
    BY <1>2 DEF ServiceOK, LinkInv
  <2>2. \A y \in Sides : \A s \in reports'[y] : s.type \in Reports /\ s.connection \in Nat
    BY <2>1 DEF ServiceOK, LinkInv
  <2> QED BY <1>3, <2>1, <2>2 DEF ServiceOK, LinkInv
<1>5. Frame(r.type, 0) \in FrameSet(offers)
  BY <1>2 DEF Frame, FrameSet, Frames, Reports, Signals, LinkInv, ServiceOK
<1>6. Append(inbox[z], Frame(r.type, 0)) \in Seq(FrameSet(offers))
  <2> HIDE DEF Frame
  <2> QED BY <1>1, <1>5 DEF LinkInv
<1>7. DOMAIN inbox' = Sides /\ \A y \in Sides : inbox'[y] \in Seq(FrameSet(offers))
  BY <1>1, <1>2, <1>6 DEF LinkInv
<1> QED BY <1>3, <1>4, <1>7, InboxesKeep

\* A frame is refused.
LEMMA RefuseKeeps ==
  ASSUME LinkInv, NEW x \in Sides, Refuse(x)
  PROVE  LinkInv'
<1>1. PICK k \in DOMAIN inbox[x] : inbox' = [inbox EXCEPT ![x] = RemoveAt(@, k)]
  BY DEF Refuse
<1>2. /\ UNCHANGED <<link, operations, sockets, registered, reports, offers, exhausted>>
      /\ faults' = [faults EXCEPT !.refusals = @ + 1]
  BY DEF Refuse
<1>3. ServiceOK'
  BY <1>2, ServiceKept DEF LinkInv
<1>4. RemoveAt(inbox[x], k) \in Seq(FrameSet(offers))
  BY PartOfFrames DEF LinkInv
<1>5. DOMAIN inbox' = Sides /\ \A y \in Sides : inbox'[y] \in Seq(FrameSet(offers))
  BY <1>1, <1>4 DEF LinkInv
<1> QED BY <1>2, <1>3, <1>5, InboxesKeep

-------------------------------------------------------------------------------
(* The theorems.                                                            *)

\* Nothing has been set up yet.
LEMMA LinkInit == Init => LinkInv
<1> SUFFICES ASSUME Init PROVE LinkInv
  OBVIOUS
<1>0. /\ DOMAIN link = Sides /\ DOMAIN operations = Sides /\ DOMAIN inbox = Sides /\ offers = 0
      /\ exhausted \subseteq Sides /\ ServiceOK
  BY DEF Init, ServiceOK
<1>1. \A y \in Sides : link[y] = None /\ operations[y] = <<>>
  BY DEF Init
<1>2. Frame("participant-connected", 0) \in FrameSet(offers) /\ Frame("connected", 1) \in FrameSet(offers)
  BY <1>0 DEF Frame, FrameSet, Frames, Reports, Signals
<1>3. \A y \in Sides : inbox[y] \in {<<Frame("participant-connected", 0)>>, <<Frame("connected", 1)>>}
  BY DEF Init
<1>4. \A y \in Sides : inbox[y] \in Seq(FrameSet(offers))
  <2> HIDE DEF Frame
  <2> QED BY <1>0, <1>2, <1>3, SingleFrame
<1>5. \A y \in Sides : operations[y] \in Seq(CallSet(offers))
  BY <1>0, <1>1, ShortSequences
<1> QED BY <1>0, <1>1, <1>4, <1>5 DEF LinkInv

\* Every step of the two sessions keeps the invariant.
LEMMA LinkStep == LinkInv /\ [LinkNext]_vars => LinkInv'
<1> SUFFICES ASSUME LinkInv, [LinkNext]_vars PROVE LinkInv'
  OBVIOUS
<1>1. ASSUME NEW x \in Sides, Failed(x) \/ Breaks(x) PROVE LinkInv'
  <2>1. /\ link[x] # None /\ offers' = offers /\ UNCHANGED <<sockets, serviceVars>>
        /\ faults' = faults \/ faults' = [faults EXCEPT !.failures = @ + 1]
        /\ Becomes(x, Broken(x), inbox[x])
    BY <1>1 DEF Failed, Breaks
  <2>2. ServiceOK'
    BY <2>1, ServiceKept DEF LinkInv, serviceVars
  <2> QED BY <2>1, <2>2, FailedKeeps
<1>2. ASSUME NEW x \in Sides,
             \/ HandleFrame(x) \/ RunOperation(x) \/ Connected(x) \/ LoseSocket(x) \/ SocketClosed(x)
             \/ Unregister(x) \/ Reconnect(x) \/ SendReport(x) \/ Refuse(x)
      PROVE  LinkInv'
  BY <1>2, HandleFrameKeeps, RunOperationKeeps, ConnectedKeeps, LoseSocketKeeps, SocketClosedKeeps,
     UnregisterKeeps, ReconnectKeeps, SendReportKeeps, RefuseKeeps
<1>3. CASE UNCHANGED vars
  BY <1>3 DEF vars, serviceVars, LinkInv, ServiceOK
<1> QED BY <1>1, <1>2, <1>3 DEF LinkNext

\* recoveryInFlight is up only while an operation of its restart is still to
\* be run: no restart that fails or is overtaken keeps #recoverPeer from
\* trying again.
THEOREM RestartsHold == FairSpec => []RestartUnderWay
<1>1. LinkInv => RestartUnderWay
  BY DEF LinkInv, LinkOK, RestartIn, RestartUnderWay
<1> QED BY <1>1, LinkInit, LinkStep, PTL DEF FairSpec

\* No candidate waits in pendingCandidates of a link that has a remote
\* description, in whatever order candidates and descriptions are handled.
THEOREM CandidatesHold == FairSpec => []CandidatesFlushed
<1>1. LinkInv => CandidatesFlushed
  BY DEF LinkInv, LinkOK, CandidatesFlushed
<1> QED BY <1>1, LinkInit, LinkStep, PTL DEF FairSpec

\* The link keeps its types, and no description is of an offer nobody made:
\* a setLocalDescription or setRemoteDescription that waits for the browser is
\* of one of the createOffer calls so far, however long ago.
THEOREM LinkTypeCorrect == FairSpec => []LinkTypeOK
<1>1. LinkInv => LinkTypeOK
  <2> SUFFICES ASSUME LinkInv PROVE LinkTypeOK
    OBVIOUS
  <2>1. \A x \in Sides : link[x] = None \/ link[x] \in Link
    BY DEF LinkInv, LinkOK
  <2>2. \A x \in Sides : \A i \in DOMAIN operations[x] :
          operations[x][i].op \in Calls /\ operations[x][i].number \in 0 .. offers
    <3> SUFFICES ASSUME NEW x \in Sides, NEW i \in DOMAIN operations[x]
                 PROVE  operations[x][i].op \in Calls /\ operations[x][i].number \in 0 .. offers
      OBVIOUS
    <3>1. operations[x] \in Seq(CallSet(offers))
      BY DEF LinkInv
    <3>2. operations[x][i] \in CallSet(offers)
      BY <3>1
    <3> QED BY <3>2 DEF CallSet
  <2>3. \A x \in Sides : \A i \in DOMAIN inbox[x] : inbox[x][i].type \in Frames
    <3> SUFFICES ASSUME NEW x \in Sides, NEW i \in DOMAIN inbox[x] PROVE inbox[x][i].type \in Frames
      OBVIOUS
    <3>1. inbox[x] \in Seq(FrameSet(offers))
      BY DEF LinkInv
    <3>2. inbox[x][i] \in FrameSet(offers)
      BY <3>1
    <3> QED BY <3>2 DEF FrameSet
  <2> QED BY <2>1, <2>2, <2>3 DEF LinkTypeOK, LinkInv, ServiceOK
<1> QED BY <1>1, LinkInit, LinkStep, PTL DEF FairSpec
===============================================================================
