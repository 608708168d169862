---------------------------- MODULE GameFilesProofs ----------------------------
(***************************************************************************)
(* What GameFiles promises, for every number of requests, providers and    *)
(* chunks.  Its steps are steps of Requests: requestFile settles a request *)
(* at most once, whatever meets it.  No transfer takes more chunks than    *)
(* its file has, one request at most waits for a provider, and neither end *)
(* keeps a place for a transfer that is not going on.  That a request is   *)
(* settled in the end, under fairness, is left to TLC.                     *)
(***************************************************************************)
EXTENDS GameFiles, FiniteSetTheorems, TLAPS

-------------------------------------------------------------------------------
(* The inductive invariant.                                                 *)

\* The timer of a request goes with its place in pending.
TimersPending == \A r \in Ids : requests[r].timer => requests[r].state = "pending"

FilesInv ==
  /\ requests \in [Ids -> Request]
  /\ TimersPending
  /\ NoneForgotten

Outcomes == [r \in Ids |-> requests[r].state]

\* What a handler may do to a request.
Moves(from, to) ==
  \/ from = to
  \/ from = "unasked" /\ to \in {"pending", "rejected"}
  \/ from = "pending" /\ to \in {"resolved", "rejected"}

Fitting(x) ==
  /\ x \in Request
  /\ x.timer => x.state = "pending"
  /\ x.state = "pending" => x.timer \/ x.verifying

\* A request that waits for a provider is the only one that does.
Alone(r, x) ==
  x.state = "pending" =>
    (requests[r].state = "pending" /\ x.to = requests[r].to) \/ PendingAt(x.to) = {}

\* One request changes, as it may.
OneMoves ==
  \E r \in Ids : \E x \in Request :
    /\ requests' = [requests EXCEPT ![r] = x]
    /\ Fitting(x) /\ Moves(requests[r].state, x.state) /\ Alone(r, x)

\* All requests of a set that were pending are settled with an error.
AllRejected ==
  \E S \in SUBSET Ids :
    /\ \A r \in S : requests[r].state = "pending"
    /\ requests' = [r \in Ids |-> IF r \in S THEN Settled(requests[r], "rejected") ELSE requests[r]]

Handled == OneMoves \/ AllRejected \/ UNCHANGED requests

-------------------------------------------------------------------------------
\* No request has been asked yet.
LEMMA FilesInit == Init => FilesInv /\ Promised!Init
BY DEF Init, FilesInv, Request, TimersPending, NoneForgotten, Promised!Init

\* A request that is settled fits: its timer is gone.
LEMMA SettledFits ==
  ASSUME NEW x \in Request, NEW state \in {"resolved", "rejected"}
  PROVE  Fitting(Settled(x, state)) /\ Settled(x, state).state = state
BY DEF Settled, Fitting, Request

\* Each request of the invariant fits.
LEMMA AllFit ==
  ASSUME FilesInv
  PROVE  \A r \in Ids : requests[r] \in Request /\ Fitting(requests[r])
BY DEF FilesInv, TimersPending, NoneForgotten, Fitting

\* The invariant is that each request fits.
LEMMA FitIsInv ==
  ASSUME requests' \in [Ids -> Request], \A r \in Ids : Fitting(requests'[r])
  PROVE  FilesInv'
BY DEF FilesInv, TimersPending, NoneForgotten, Fitting

\* One request that moves is a step of Requests.
LEMMA OneMovesRefines ==
  ASSUME FilesInv, OneMoves
  PROVE  FilesInv' /\ (Promised!Next \/ Outcomes' = Outcomes)
<1>1. PICK r \in Ids, x \in Request :
        /\ requests' = [requests EXCEPT ![r] = x]
        /\ Fitting(x) /\ Moves(requests[r].state, x.state) /\ Alone(r, x)
  BY DEF OneMoves
<1>2. FilesInv'
  <2>1. requests' \in [Ids -> Request] /\ \A q \in Ids : Fitting(requests'[q])
    BY <1>1, AllFit DEF FilesInv
  <2> QED BY <2>1, FitIsInv
<1>3. Outcomes' = [Outcomes EXCEPT ![r] = x.state]
  BY <1>1 DEF Outcomes, FilesInv
<1>4. Outcomes[r] = requests[r].state
  BY DEF Outcomes
<1>5. CASE requests[r].state = x.state
  BY <1>2, <1>3, <1>4, <1>5 DEF Outcomes
<1>6. CASE Promised!Becomes(r, requests[r].state, x.state) /\ requests[r].state # x.state
  BY <1>1, <1>2, <1>6 DEF Moves, Promised!Next, Promised!Ask, Promised!Fail, Promised!Settle
<1>7. Promised!Becomes(r, requests[r].state, x.state)
  BY <1>3, <1>4 DEF Promised!Becomes, Outcomes
<1> QED BY <1>2, <1>5, <1>6, <1>7

\* So is the rejection of several.
LEMMA AllRejectedRefines ==
  ASSUME FilesInv, AllRejected
  PROVE  FilesInv' /\ (Promised!Next \/ Outcomes' = Outcomes)
<1>1. PICK S \in SUBSET Ids :
        /\ \A r \in S : requests[r].state = "pending"
        /\ requests' = [r \in Ids |-> IF r \in S THEN Settled(requests[r], "rejected") ELSE requests[r]]
  BY DEF AllRejected
<1>2. \A r \in Ids :
        /\ Fitting(requests'[r])
        /\ requests'[r].state = IF r \in S THEN "rejected" ELSE requests[r].state
  BY <1>1, AllFit, SettledFits
<1>3. FilesInv'
  <2>1. requests' \in [Ids -> Request]
    BY <1>1, <1>2 DEF Fitting
  <2> QED BY <1>2, <2>1, FitIsInv
<1>4. Promised!SettleAll(S)
  BY <1>1, <1>2 DEF Promised!SettleAll
<1> QED BY <1>3, <1>4 DEF Promised!Next

-------------------------------------------------------------------------------
(* The handlers.                                                            *)

\* The events of a transfer or a rejection move the request they name, if it
\* waits for them.
LEMMA EventsMove ==
  ASSUME FilesInv, NEW p, NEW r,
         requests' = Rearmed(p, r) \/ requests' = Refused(p, r) \/ requests' = Arrived(p, r)
  PROVE  Handled
<1>1. CASE ~Matching(p, r)
  <2>1. requests' = [requests EXCEPT ![r] = requests[r]]
    BY <1>1 DEF Rearmed, Refused, Arrived
  <2>2. requests' = requests
    BY <2>1 DEF FilesInv
  <2> QED BY <2>2 DEF Handled
<1>2. CASE Matching(p, r)
  <2>1. r \in Ids /\ requests[r] \in Request /\ requests[r].state = "pending" /\ Fitting(requests[r])
    BY <1>2, AllFit DEF Matching, PendingAt
  <2>2. CASE requests' = Rearmed(p, r)
    <3> DEFINE x == [requests[r] EXCEPT !.timer = TRUE]
    <3>1. x \in Request /\ Fitting(x) /\ x.state = "pending" /\ x.to = requests[r].to
      BY <2>1 DEF Fitting, Request
    <3>2. requests' = [requests EXCEPT ![r] = x]
      BY <1>2, <2>2 DEF Rearmed
    <3> QED BY <2>1, <3>1, <3>2 DEF Handled, OneMoves, Moves, Alone
  <2>3. CASE requests' = Refused(p, r)
    <3> DEFINE x == Settled(requests[r], "rejected")
    <3>1. x \in Request /\ Fitting(x) /\ x.state = "rejected"
      BY <2>1, SettledFits DEF Fitting
    <3>2. requests' = [requests EXCEPT ![r] = x]
      BY <1>2, <2>3 DEF Refused
    <3> QED BY <2>1, <3>1, <3>2 DEF Handled, OneMoves, Moves, Alone
  <2>4. CASE requests' = Arrived(p, r)
    <3> DEFINE x == [requests[r] EXCEPT !.timer = FALSE, !.verifying = TRUE]
    <3>1. x \in Request /\ Fitting(x) /\ x.state = "pending" /\ x.to = requests[r].to
      BY <2>1 DEF Fitting, Request
    <3>2. requests' = [requests EXCEPT ![r] = x]
      BY <1>2, <2>4 DEF Arrived
    <3> QED BY <2>1, <3>1, <3>2 DEF Handled, OneMoves, Moves, Alone
  <2> QED BY <2>2, <2>3, <2>4
<1> QED BY <1>1, <1>2

\* requestFile: the request is asked, or fails at once.
LEMMA RequestFileHandled ==
  ASSUME FilesInv, NEW r \in Ids, NEW p \in Providers, RequestFile(r, p)
  PROVE  Handled
<1>1. requests[r] \in Request /\ requests[r].state = "unasked" /\ Fitting(requests[r])
  BY AllFit DEF RequestFile
<1>2. CASE requests' = [requests EXCEPT ![r] = [to |-> p, state |-> "pending", timer |-> TRUE, verifying |-> FALSE]]
  <2> DEFINE x == [to |-> p, state |-> "pending", timer |-> TRUE, verifying |-> FALSE]
  <2>1. x \in Request /\ Fitting(x) /\ x.state = "pending" /\ PendingAt(x.to) = {}
    BY DEF Fitting, Request, RequestFile
  <2> QED BY <1>1, <1>2, <2>1 DEF Handled, OneMoves, Moves, Alone
<1>3. CASE requests' = [requests EXCEPT ![r].state = "rejected"]
  <2> DEFINE x == [requests[r] EXCEPT !.state = "rejected"]
  <2>1. x \in Request /\ Fitting(x) /\ x.state = "rejected"
    BY <1>1 DEF Fitting, Request
  <2>2. requests' = [requests EXCEPT ![r] = x]
    BY <1>3
  <2> QED BY <1>1, <2>1, <2>2 DEF Handled, OneMoves, Moves, Alone
<1> QED BY <1>2, <1>3 DEF RequestFile

\* A time limit passes: only a pending request has one.
LEMMA RequestTimeoutHandled ==
  ASSUME FilesInv, NEW r \in Ids, RequestTimeout(r)
  PROVE  Handled
<1> DEFINE x == Settled(requests[r], "rejected")
<1>1. requests[r] \in Request /\ requests[r].state = "pending"
  BY AllFit DEF RequestTimeout, Fitting
<1>2. x \in Request /\ Fitting(x) /\ x.state = "rejected"
  BY <1>1, SettledFits DEF Fitting
<1>3. requests' = [requests EXCEPT ![r] = x]
  BY DEF RequestTimeout
<1> QED BY <1>1, <1>2, <1>3 DEF Handled, OneMoves, Moves, Alone

\* A verification ends: a request that was settled meanwhile stays settled.
LEMMA FileVerifiedHandled ==
  ASSUME FilesInv, NEW r \in Ids, FileVerified(r)
  PROVE  Handled
<1> DEFINE x == AfterVerification(requests[r])
<1>1. requests[r] \in Request /\ Fitting(requests[r]) /\ requests' = [requests EXCEPT ![r] = x]
  BY AllFit DEF FileVerified
<1>2. Fitting(x) /\ Moves(requests[r].state, x.state) /\ x.state # "pending"
  <2>1. CASE requests[r].state = "pending"
    <3>1. x = [[requests[r] EXCEPT !.state = "resolved", !.timer = FALSE] EXCEPT !.verifying = FALSE]
      BY <2>1 DEF AfterVerification, Settled
    <3> QED BY <1>1, <2>1, <3>1 DEF Fitting, Moves, Request
  <2>2. CASE requests[r].state # "pending"
    <3>1. x = [requests[r] EXCEPT !.verifying = FALSE]
      BY <2>2 DEF AfterVerification
    <3> QED BY <1>1, <2>2, <3>1 DEF Fitting, Moves, Request
  <2> QED BY <2>1, <2>2
<1> QED BY <1>1, <1>2 DEF Handled, OneMoves, Fitting, Alone

\* A frame of the content channel, on arrival.
LEMMA ReceiveFrameHandled ==
  ASSUME FilesInv, NEW p \in Providers, ReceiveFrame(p)
  PROVE  Handled
<1> DEFINE frame == Head(wire[p].content)
<1>1. \/ UNCHANGED requests
      \/ requests' = Rearmed(p, frame.request)
      \/ requests' = Refused(p, frame.request)
  BY DEF ReceiveFrame, Start
<1> HIDE DEF frame
<1> QED BY <1>1, EventsMove DEF Handled

\* A frame of the content channel, when it is verified.
LEMMA FrameVerifiedHandled ==
  ASSUME FilesInv, NEW p \in Providers, FrameVerified(p)
  PROVE  Handled
<1> DEFINE r == receiving[p].handling.request
<1>1. requests' = Rearmed(p, r) \/ requests' = Arrived(p, r)
  BY DEF FrameVerified
<1> HIDE DEF r
<1> QED BY <1>1, EventsMove

\* A rejection of the provider.
LEMMA ReceiveRejectionHandled ==
  ASSUME FilesInv, NEW p \in Providers, ReceiveRejection(p)
  PROVE  Handled
BY EventsMove DEF ReceiveRejection

\* The departure of the provider settles what waits for it.
LEMMA ProviderGoneHandled ==
  ASSUME FilesInv, NEW p \in Providers, ProviderGone(p)
  PROVE  Handled
<1>1. /\ PendingAt(p) \in SUBSET Ids
      /\ \A r \in PendingAt(p) : requests[r].state = "pending"
  BY DEF PendingAt
<1> QED BY <1>1 DEF ProviderGone, Handled, AllRejected

\* close() settles all that waits.
LEMMA CloseRequesterHandled ==
  ASSUME FilesInv, CloseRequester
  PROVE  Handled
<1> DEFINE S == {r \in Ids : requests[r].state = "pending"}
<1>1. S \in SUBSET Ids /\ \A r \in S : requests[r].state = "pending"
  OBVIOUS
<1>2. requests' = [r \in Ids |-> IF r \in S THEN Settled(requests[r], "rejected") ELSE requests[r]]
  BY DEF CloseRequester
<1> HIDE DEF S
<1> QED BY <1>1, <1>2 DEF Handled, AllRejected

\* Every step handles the requests.
LEMMA StepHandled ==
  ASSUME FilesInv, [FilesNext]_vars
  PROVE  Handled
<1>1. CASE CloseRequester
  BY <1>1, CloseRequesterHandled
<1>2. ASSUME NEW r \in Ids, RequestTimeout(r) \/ FileVerified(r)
      PROVE  Handled
  BY <1>2, RequestTimeoutHandled, FileVerifiedHandled
<1>3. ASSUME NEW p \in Providers, NEW r \in Ids, RequestFile(r, p)
      PROVE  Handled
  BY <1>3, RequestFileHandled
<1>4. ASSUME NEW p \in Providers,
             ReceiveRejection(p) \/ ReceiveFrame(p) \/ FrameVerified(p) \/ ProviderGone(p)
      PROVE  Handled
  BY <1>4, ReceiveRejectionHandled, ReceiveFrameHandled, FrameVerifiedHandled, ProviderGoneHandled
<1>5. ASSUME NEW p \in Providers,
             \/ ReceiveRequest(p) \/ SendFile(p) \/ RejectRequest(p)
             \/ \E x \in sendings[p] : SendFailed(p, x) \/ SendNext(p, x)
             \/ LinkDown(p) \/ LinkUp(p) \/ RequesterGone(p) \/ CloseProvider(p)
      PROVE  UNCHANGED requests
  BY <1>5 DEF ReceiveRequest, SendFile, RejectRequest, SendFailed, SendNext, LinkDown, LinkUp,
    RequesterGone, CloseProvider
<1>6. CASE UNCHANGED vars
  BY <1>6 DEF vars, Handled
<1> QED BY <1>1, <1>2, <1>3, <1>4, <1>5, <1>6 DEF FilesNext, Handled

\* Every step is a step of Requests or none.
LEMMA FilesStep == FilesInv /\ [FilesNext]_vars => FilesInv' /\ (Promised!Next \/ Outcomes' = Outcomes)
<1> SUFFICES ASSUME FilesInv, [FilesNext]_vars
             PROVE  FilesInv' /\ (Promised!Next \/ Outcomes' = Outcomes)
  OBVIOUS
<1>1. Handled
  BY StepHandled
<1>2. CASE UNCHANGED requests
  BY <1>2 DEF FilesInv, TimersPending, NoneForgotten, Outcomes
<1> QED BY <1>1, <1>2, OneMovesRefines, AllRejectedRefines DEF Handled

\* A request that waits is never forgotten: its timer runs or its file is
\* being verified, whatever of time limits, rejections, departures and late
\* frames it meets.
THEOREM RequestsKept == FilesSpec => []NoneForgotten
<1>1. FilesInv => NoneForgotten
  BY DEF FilesInv
<1> QED BY <1>1, FilesInit, FilesStep, PTL DEF FilesSpec

\* requestFile settles its caller at most once: GameFiles implements the
\* steps of Requests, for any number of requests, providers and chunks.
THEOREM RequestsRefined == FilesSpec => Promised!SettledOnce
<1>1. FilesInv /\ [FilesNext]_vars => FilesInv' /\ [Promised!Next]_Outcomes
  BY FilesStep
<1> QED BY <1>1, FilesInit, PTL DEF FilesSpec, Promised!SettledOnce, Outcomes
-------------------------------------------------------------------------------
(* What is kept of a transfer, at both ends and on its way.  A place is all *)
(* the state of one provider: what the requester receives from it (rec),    *)
(* its entry in incoming (srv), its sendings (snd), the wire (w) and the    *)
(* link (lnk).  U are the requests that have not been made.                 *)

StartOf(r) == [type |-> "start", request |-> r]
ChunkOf(r) == [type |-> "chunk", request |-> r]
CompleteOf(r) == [type |-> "complete", request |-> r]

Indices(s, f) == {i \in 1 .. Len(s) : s[i] = f}
Count(s, f) == Cardinality(Indices(s, f))

\* The chunks of the request r that have been sent and are not lost.
Held(rec, r) ==
  (IF rec.incoming # None /\ rec.incoming.request = r THEN rec.incoming.receivedChunks ELSE 0)
    + (IF rec.handling # None /\ rec.handling = ChunkOf(r) THEN 1 ELSE 0)
Arriving(rec, s, r) == Held(rec, r) + Count(s, ChunkOf(r))

\* The chunks a sending has sent.
SentBy(x) == IF x.next <= 2 THEN 0 ELSE x.next - 2

\* Nothing has been sent for r.
Unserved(rec, snd, s, r) == (\A x \in snd : x.request # r) /\ Arriving(rec, s, r) = 0

\* What ends the transfer of r is to come, behind the index i of the wire.
Ending(snd, s, r, i) ==
  \/ \E x \in snd : x.request = r /\ x.next >= 2
  \/ \E j \in 1 .. Len(s) : j > i /\ s[j] = CompleteOf(r)

Wire == [asks : Seq(Ids), rejects : Seq(Ids), content : Seq(Frame)]

TypesOK(rec, srv, snd, w, lnk) ==
  /\ rec \in Receiving
  /\ srv # None => srv \in Serving
  /\ snd \in SUBSET Sending
  /\ w \in Wire
  /\ lnk \in LinkState

\* No request gets more chunks than the file has, nor more than were sent.
ChunksBounded(rec, snd, s) ==
  /\ \A r \in Ids : Arriving(rec, s, r) <= Chunks
  /\ \A x \in snd : Arriving(rec, s, x.request) <= SentBy(x)
  /\ \A x, y \in snd : x.request = y.request => x = y
  /\ rec.incoming # None /\ rec.handling # None /\ rec.handling.type = "chunk" =>
       rec.handling.request = rec.incoming.request

\* A request is served at most once.
ServedOnce(U, rec, srv, snd, w) ==
  /\ srv # None /\ srv.state = "waiting" => Unserved(rec, snd, w.content, srv.request)
  /\ srv # None /\ srv.state = "sending" => \E x \in snd : x.request = srv.request
  /\ \A i \in 1 .. Len(w.asks) :
       Unserved(rec, snd, w.content, w.asks[i]) /\ (srv # None => srv.request # w.asks[i])
  /\ \A i, j \in 1 .. Len(w.asks) : w.asks[i] = w.asks[j] => i = j
  /\ \A r \in U : /\ Unserved(rec, snd, w.content, r)
                  /\ srv # None => srv.request # r
                  /\ \A i \in 1 .. Len(w.asks) : w.asks[i] # r

\* Unless frames were lost, what was started is ended.
Followed(rec, snd, s, lnk) ==
  /\ ~lnk.up => lnk.lost
  /\ ~lnk.lost =>
       /\ rec.incoming # None => Ending(snd, s, rec.incoming.request, 0)
       /\ \A r \in Ids : \A i \in Indices(s, StartOf(r)) : Ending(snd, s, r, i)

PlaceOK(U, rec, srv, snd, w, lnk) ==
  /\ TypesOK(rec, srv, snd, w, lnk)
  /\ ChunksBounded(rec, snd, w.content)
  /\ ServedOnce(U, rec, srv, snd, w)
  /\ Followed(rec, snd, w.content, lnk)

Unmade == {r \in Ids : requests[r].state = "unasked"}

OnePending == \A p \in Providers : \A r, q \in PendingAt(p) : r = q

Domains ==
  /\ DOMAIN receiving = Providers /\ DOMAIN serving = Providers /\ DOMAIN sendings = Providers
  /\ DOMAIN wire = Providers /\ DOMAIN links = Providers

TransferInv ==
  /\ FilesInv /\ OnePending /\ Domains
  /\ \A p \in Providers :
       PlaceOK(Unmade, receiving[p], serving[p], sendings[p], wire[p], links[p])

-------------------------------------------------------------------------------
(* Counting the frames of a sequence.                                       *)

\* The frames of a sequence are finitely many.
LEMMA CountInNat ==
  ASSUME NEW s \in Seq(Frame), NEW f
  PROVE  IsFiniteSet(Indices(s, f)) /\ Count(s, f) \in Nat
<1>1. Len(s) \in Nat /\ IsFiniteSet(1 .. Len(s))
  BY FS_Interval
<1>2. Indices(s, f) \in SUBSET (1 .. Len(s))
  BY DEF Indices
<1>3. IsFiniteSet(Indices(s, f))
  BY <1>1, <1>2, FS_Subset
<1> QED BY <1>3, FS_CardinalityType DEF Count

\* One more at the end.
LEMMA CountAppended ==
  ASSUME NEW s \in Seq(Frame), NEW g \in Frame, NEW f
  PROVE  Count(Append(s, g), f) = IF g = f THEN Count(s, f) + 1 ELSE Count(s, f)
<1> DEFINE n == Len(s) + 1
<1>1. /\ Len(Append(s, g)) = n /\ n \in Nat /\ n = Len(s) + 1 /\ Len(s) \in Nat
      /\ Append(s, g)[n] = g /\ \A i \in 1 .. Len(s) : Append(s, g)[i] = s[i]
  OBVIOUS
<1>2. IsFiniteSet(Indices(s, f)) /\ Count(s, f) \in Nat /\ n \notin Indices(s, f)
  BY <1>1, CountInNat DEF Indices
<1>3. CASE g = f
  <2>1. Indices(Append(s, g), f) = Indices(s, f) \cup {n}
    BY <1>1, <1>3 DEF Indices
  <2>2. Cardinality(Indices(s, f) \cup {n}) = Cardinality(Indices(s, f)) + 1
    BY <1>2, FS_AddElement
  <2> QED BY <1>3, <2>1, <2>2 DEF Count
<1>4. CASE g # f
  <2>1. Indices(Append(s, g), f) = Indices(s, f)
    BY <1>1, <1>4 DEF Indices
  <2> QED BY <1>4, <2>1 DEF Count
<1> QED BY <1>3, <1>4

\* One less at the front.
LEMMA CountOfTail ==
  ASSUME NEW s \in Seq(Frame), s # <<>>, NEW f
  PROVE  Count(s, f) = IF Head(s) = f THEN Count(Tail(s), f) + 1 ELSE Count(Tail(s), f)
<1> DEFINE t == Tail(s)
           moved == [i \in Indices(t, f) |-> i + 1]
<1>1. /\ t \in Seq(Frame) /\ Len(s) \in Nat /\ Len(t) = Len(s) - 1 /\ Len(t) \in Nat
      /\ Head(s) = s[1]
  OBVIOUS
<1>8. \A i \in 1 .. Len(t) : t[i] = s[i + 1]
  OBVIOUS
<1> HIDE DEF t
<1>2. Indices(s, f) \ {1} = {i + 1 : i \in Indices(t, f)}
  <2>1. ASSUME NEW i \in Indices(s, f) \ {1} PROVE i \in {k + 1 : k \in Indices(t, f)}
    <3>1. i - 1 \in 1 .. Len(t) /\ i = (i - 1) + 1 /\ s[i] = f
      BY <1>1 DEF Indices
    <3>2. i - 1 \in Indices(t, f)
      BY <1>1, <1>8, <3>1 DEF Indices
    <3> QED BY <3>1, <3>2
  <2>2. ASSUME NEW i \in Indices(t, f) PROVE i + 1 \in Indices(s, f) \ {1}
    BY <1>1, <1>8 DEF Indices
  <2> QED BY <2>1, <2>2
<1>3. moved \in Bijection(Indices(t, f), Indices(s, f) \ {1})
  <2>1. Indices(t, f) \subseteq Nat
    BY <1>1 DEF Indices
  <2>2. moved \in [Indices(t, f) -> Indices(s, f) \ {1}]
    BY <1>2
  <2>3. \A i, j \in Indices(t, f) : moved[i] = moved[j] => i = j
    BY <2>1
  <2>4. \A k \in Indices(s, f) \ {1} : \E i \in Indices(t, f) : moved[i] = k
    BY <1>2
  <2> HIDE DEF moved
  <2> QED BY <2>2, <2>3, <2>4 DEF Bijection, Injection, Surjection, IsInjective
<1>4. IsFiniteSet(Indices(t, f)) /\ IsFiniteSet(Indices(s, f)) /\ Count(t, f) \in Nat /\ Count(s, f) \in Nat
  BY <1>1, CountInNat
<1>5. Cardinality(Indices(s, f) \ {1}) = Count(t, f)
  <2>1. ExistsBijection(Indices(t, f), Indices(s, f) \ {1})
    BY <1>3 DEF ExistsBijection
  <2> QED BY <1>4, <2>1, FS_Bijection DEF Count
<1>6. Cardinality(Indices(s, f) \ {1})
        = IF 1 \in Indices(s, f) THEN Cardinality(Indices(s, f)) - 1 ELSE Cardinality(Indices(s, f))
  BY <1>4, FS_RemoveElement
<1>7. 1 \in Indices(s, f) <=> Head(s) = f
  <2>1. Len(s) >= 1
    OBVIOUS
  <2> QED BY <1>1, <2>1 DEF Indices
<1> QED BY <1>4, <1>5, <1>6, <1>7 DEF Count, t

\* None more in what is left of a wire.
LEMMA CountOfPrefix ==
  ASSUME NEW s \in Seq(Frame), NEW k \in 0 .. Len(s), NEW f
  PROVE  SubSeq(s, 1, k) \in Seq(Frame) /\ Count(SubSeq(s, 1, k), f) <= Count(s, f)
<1> DEFINE t == SubSeq(s, 1, k)
<1>1. t \in Seq(Frame) /\ Len(t) = k /\ Len(s) \in Nat /\ \A i \in 1 .. k : t[i] = s[i]
  OBVIOUS
<1> HIDE DEF t
<1>2. Indices(t, f) \in SUBSET Indices(s, f)
  BY <1>1 DEF Indices
<1>3. IsFiniteSet(Indices(s, f))
  BY CountInNat
<1>4. Cardinality(Indices(t, f)) <= Cardinality(Indices(s, f))
  BY <1>2, <1>3, FS_Subset
<1> QED BY <1>1, <1>4 DEF Count, t

\* None in an empty one.
LEMMA CountOfNone == <<>> \in Seq(Frame) /\ \A f : Count(<<>>, f) = 0
<1>1. <<>> \in Seq(Frame) /\ Len(<<>>) = 0
  OBVIOUS
<1>2. \A f : Indices(<<>>, f) = {}
  BY <1>1 DEF Indices
<1> QED BY <1>1, <1>2, FS_EmptySet DEF Count

-------------------------------------------------------------------------------
(* What a step may do to a place.                                           *)

\* The chunks that are counted are finitely many.
LEMMA ArrivingInNat ==
  ASSUME NEW rec \in Receiving, NEW s \in Seq(Frame), NEW r
  PROVE  Held(rec, r) \in Nat /\ Count(s, ChunkOf(r)) \in Nat /\ Arriving(rec, s, r) \in Nat
<1>1. Count(s, ChunkOf(r)) \in Nat
  BY CountInNat
<1>2. rec.incoming # None => rec.incoming.receivedChunks \in Nat
  BY FilesAssumption DEF Receiving
<1>3. Held(rec, r) \in Nat
  BY <1>2 DEF Held
<1> QED BY <1>1, <1>3 DEF Arriving

\* What was not sent is not sent when no more arrives.
LEMMA UnservedKept ==
  ASSUME NEW rec \in Receiving, NEW rec1 \in Receiving, NEW s \in Seq(Frame), NEW s1 \in Seq(Frame),
         NEW snd, NEW snd1, NEW r,
         Unserved(rec, snd, s, r), Arriving(rec1, s1, r) <= Arriving(rec, s, r),
         \A x \in snd1 : x.request = r => \E y \in snd : y.request = r
  PROVE  Unserved(rec1, snd1, s1, r)
<1>1. Arriving(rec1, s1, r) \in Nat
  BY ArrivingInNat
<1> QED BY <1>1 DEF Unserved

\* The requests in the wire and in incoming are requests.
LEMMA RequestsOfPlace ==
  ASSUME NEW srv, NEW w \in Wire, srv # None => srv \in Serving
  PROVE  /\ srv # None => srv.request \in Ids /\ srv.state \in {"waiting", "sending"}
         /\ Len(w.asks) \in Nat /\ \A i \in 1 .. Len(w.asks) : w.asks[i] \in Ids
         /\ w.asks \in Seq(Ids) /\ w.rejects \in Seq(Ids) /\ w.content \in Seq(Frame)
<1>1. srv # None => srv.request \in Ids /\ srv.state \in {"waiting", "sending"}
  BY DEF Serving
<1>2. w.asks \in Seq(Ids) /\ w.rejects \in Seq(Ids) /\ w.content \in Seq(Frame)
  BY DEF Wire
<1> QED BY <1>1, <1>2

\* The requester takes what arrives.
LEMMA TakingOK ==
  ASSUME NEW U \in SUBSET Ids, NEW U1 \in SUBSET U, NEW rec, NEW srv, NEW snd, NEW w, NEW lnk,
         PlaceOK(U, rec, srv, snd, w, lnk),
         NEW rec1 \in Receiving, NEW s1 \in Seq(Frame),
         \A r \in Ids : Arriving(rec1, s1, r) <= Arriving(rec, w.content, r),
         rec1.incoming # None /\ rec1.handling # None /\ rec1.handling.type = "chunk" =>
           rec1.handling.request = rec1.incoming.request,
         Followed(rec1, snd, s1, lnk)
  PROVE  PlaceOK(U1, rec1, srv, snd, [w EXCEPT !.content = s1], lnk)
<1> DEFINE w1 == [w EXCEPT !.content = s1]
<1>1. TypesOK(rec, srv, snd, w, lnk) /\ ChunksBounded(rec, snd, w.content)
      /\ ServedOnce(U, rec, srv, snd, w) /\ w \in Wire /\ rec \in Receiving
      /\ (srv # None => srv \in Serving) /\ snd \in SUBSET Sending
  BY DEF PlaceOK, TypesOK
<1>2. w1 \in Wire /\ w1.content = s1 /\ w1.asks = w.asks /\ w.content \in Seq(Frame)
  BY <1>1 DEF Wire
<1> HIDE DEF w1
<1>3. TypesOK(rec1, srv, snd, w1, lnk)
  BY <1>1, <1>2 DEF TypesOK
<1>4. ChunksBounded(rec1, snd, s1)
  <2>1. \A x \in snd : x.request \in Ids /\ SentBy(x) \in Nat
    <3>1. \A x \in snd : x.request \in Ids /\ x.next \in Nat
      BY <1>1, FilesAssumption DEF Sending
    <3> QED BY <3>1 DEF SentBy
  <2>2. \A r \in Ids : Arriving(rec1, s1, r) \in Nat /\ Arriving(rec, w.content, r) \in Nat
    BY <1>1, <1>2, ArrivingInNat
  <2>3. Chunks \in Nat
    BY FilesAssumption
  <2> QED BY <1>1, <2>1, <2>2, <2>3 DEF ChunksBounded
<1>5. ServedOnce(U1, rec1, srv, snd, w1)
  <2>1. \A r \in Ids : Unserved(rec, snd, w.content, r) => Unserved(rec1, snd, s1, r)
    BY <1>1, <1>2, UnservedKept
  <2>2. srv # None => srv.request \in Ids
    BY <1>1, RequestsOfPlace
  <2>3. \A i \in 1 .. Len(w.asks) : w.asks[i] \in Ids
    BY <1>1, RequestsOfPlace
  <2> QED BY <1>1, <1>2, <2>1, <2>2, <2>3 DEF ServedOnce
<1> QED BY <1>2, <1>3, <1>4, <1>5 DEF PlaceOK, w1

\* Requests are taken, or lost.
Shorter(asks, rest) == rest = asks \/ rest = <<>> \/ (asks # <<>> /\ rest = Tail(asks))

\* The provider is done with a request, or the requests on their way to it
\* are taken or lost, and it may send a rejection.
LEMMA ReleaseOK ==
  ASSUME NEW U \in SUBSET Ids, NEW U1 \in SUBSET U, NEW rec, NEW srv, NEW snd, NEW w, NEW lnk,
         PlaceOK(U, rec, srv, snd, w, lnk),
         NEW srv1, srv1 = srv \/ srv1 = None, NEW w1 \in Wire, NEW lnk1 \in LinkState,
         w1.content = w.content, Shorter(w.asks, w1.asks),
         ~lnk1.up => lnk1.lost, lnk.lost => lnk1.lost
  PROVE  PlaceOK(U1, rec, srv1, snd, w1, lnk1)
<1>1. /\ TypesOK(rec, srv, snd, w, lnk) /\ ChunksBounded(rec, snd, w.content)
      /\ ServedOnce(U, rec, srv, snd, w) /\ Followed(rec, snd, w.content, lnk)
      /\ w \in Wire /\ (srv # None => srv \in Serving)
      /\ lnk.lost \in BOOLEAN /\ lnk1.lost \in BOOLEAN
  BY DEF PlaceOK, TypesOK, LinkState
<1>2. TypesOK(rec, srv1, snd, w1, lnk1)
  BY <1>1 DEF TypesOK
<1>3. /\ \A i \in 1 .. Len(w1.asks) : \E j \in 1 .. Len(w.asks) : w1.asks[i] = w.asks[j]
      /\ \A i, j \in 1 .. Len(w1.asks) : w1.asks[i] = w1.asks[j] => i = j
  <2>1. w.asks \in Seq(Ids) /\ Len(w.asks) \in Nat
    BY <1>1, RequestsOfPlace
  <2>2. \A i, j \in 1 .. Len(w.asks) : w.asks[i] = w.asks[j] => i = j
    BY <1>1 DEF ServedOnce
  <2>3. CASE w1.asks = w.asks
    BY <2>2, <2>3
  <2>4. CASE w1.asks = <<>>
    BY <2>4
  <2>5. CASE w1.asks = Tail(w.asks) /\ w.asks # <<>>
    <3> DEFINE a == w.asks
               t == Tail(a)
    <3> HIDE DEF a
    <3>1. a \in Seq(Ids) /\ a # <<>> /\ Len(a) \in Nat
      BY <2>1, <2>5 DEF a
    <3>2. Len(t) = Len(a) - 1
      BY <3>1
    <3>3. \A i \in 1 .. Len(t) : t[i] = a[i + 1]
      BY <3>1
    <3> HIDE DEF t
    <3>4. \A i \in 1 .. Len(t) : i \in Int /\ i + 1 \in 1 .. Len(a)
      BY <3>1, <3>2
    <3>5. \A i, j \in 1 .. Len(t) : t[i] = t[j] => i = j
      <4> TAKE i, j \in 1 .. Len(t)
      <4> HAVE t[i] = t[j]
      <4>1. i + 1 = j + 1
        BY <2>2, <3>3, <3>4 DEF a
      <4> QED BY <3>4, <4>1
    <3> QED BY <2>5, <3>3, <3>4, <3>5 DEF a, t
  <2> QED BY <2>3, <2>4, <2>5 DEF Shorter
<1>4. ServedOnce(U1, rec, srv1, snd, w1)
  BY <1>1, <1>3 DEF ServedOnce
<1>5. Followed(rec, snd, w.content, lnk1)
  BY <1>1 DEF Followed
<1> QED BY <1>1, <1>2, <1>4, <1>5 DEF PlaceOK

\* A request is on its way.
LEMMA AskingOK ==
  ASSUME NEW U \in SUBSET Ids, NEW U1 \in SUBSET U, NEW rec, NEW srv, NEW snd, NEW w, NEW lnk,
         PlaceOK(U, rec, srv, snd, w, lnk),
         NEW r \in U, r \notin U1
  PROVE  PlaceOK(U1, rec, srv, snd, [w EXCEPT !.asks = Append(@, r)], lnk)
<1> DEFINE a == w.asks
           b == Append(a, r)
           w1 == [w EXCEPT !.asks = b]
<1>1. /\ TypesOK(rec, srv, snd, w, lnk) /\ ChunksBounded(rec, snd, w.content)
      /\ ServedOnce(U, rec, srv, snd, w) /\ Followed(rec, snd, w.content, lnk)
      /\ w \in Wire /\ (srv # None => srv \in Serving)
  BY DEF PlaceOK, TypesOK
<1>2. a \in Seq(Ids) /\ r \in Ids /\ Len(a) \in Nat
  BY <1>1, RequestsOfPlace
<1>13. b \in Seq(Ids)
  BY <1>2
<1> HIDE DEF b
<1>3. w1 \in Wire /\ w1.asks = b /\ w1.content = w.content
  BY <1>1, <1>13 DEF Wire
<1> HIDE DEF w1, a
<1>4. Len(b) = Len(a) + 1 /\ b[Len(a) + 1] = r /\ \A i \in 1 .. Len(a) : b[i] = a[i]
  BY <1>2 DEF b
<1>5. \A i \in 1 .. Len(b) : i \in 1 .. Len(a) \/ i = Len(a) + 1
  BY <1>2, <1>4
<1>6. /\ \A i \in 1 .. Len(a) : a[i] # r /\ Unserved(rec, snd, w.content, a[i]) /\ (srv # None => srv.request # a[i])
      /\ Unserved(rec, snd, w.content, r) /\ (srv # None => srv.request # r)
      /\ \A i, j \in 1 .. Len(a) : a[i] = a[j] => i = j
  BY <1>1 DEF ServedOnce, a
<1>7. \A i, j \in 1 .. Len(b) : b[i] = b[j] => i = j
  BY <1>4, <1>5, <1>6
<1>8. \A i \in 1 .. Len(b) :
        Unserved(rec, snd, w.content, b[i]) /\ (srv # None => srv.request # b[i])
  BY <1>4, <1>5, <1>6
<1>9. \A q \in U1 : /\ Unserved(rec, snd, w.content, q)
                    /\ srv # None => srv.request # q
                    /\ \A i \in 1 .. Len(a) : a[i] # q
  BY <1>1 DEF ServedOnce, a
<1>10. \A q \in U1 : \A i \in 1 .. Len(b) : b[i] # q
  BY <1>4, <1>5, <1>9
<1>11. ServedOnce(U1, rec, srv, snd, w1)
  BY <1>1, <1>3, <1>7, <1>8, <1>9, <1>10 DEF ServedOnce
<1>12. TypesOK(rec, srv, snd, w1, lnk)
  BY <1>1, <1>3 DEF TypesOK
<1> QED BY <1>1, <1>3, <1>11, <1>12 DEF PlaceOK, w1, b, a

\* A request is accepted.
LEMMA AcceptingOK ==
  ASSUME NEW U \in SUBSET Ids, NEW U1 \in SUBSET U, NEW rec, NEW snd, NEW w, NEW lnk,
         PlaceOK(U, rec, None, snd, w, lnk), w.asks # <<>>
  PROVE  PlaceOK(U1, rec, [request |-> Head(w.asks), state |-> "waiting"], snd,
                 [w EXCEPT !.asks = Tail(@)], lnk)
<1> DEFINE a == w.asks
           b == Tail(a)
           srv == [request |-> Head(a), state |-> "waiting"]
           w1 == [w EXCEPT !.asks = b]
<1>1. /\ TypesOK(rec, None, snd, w, lnk) /\ ChunksBounded(rec, snd, w.content)
      /\ ServedOnce(U, rec, None, snd, w) /\ Followed(rec, snd, w.content, lnk)
      /\ w \in Wire
  BY DEF PlaceOK, TypesOK
<1>2. a \in Seq(Ids) /\ Len(a) \in Nat /\ a # <<>>
  BY <1>1, RequestsOfPlace
<1> HIDE DEF a
<1>3. b \in Seq(Ids) /\ Len(b) = Len(a) - 1 /\ Head(a) = a[1] /\ 1 \in 1 .. Len(a)
  BY <1>2
<1>4. \A i \in 1 .. Len(b) : b[i] = a[i + 1]
  BY <1>2
<1> HIDE DEF b
<1>5. w1 \in Wire /\ w1.asks = b /\ w1.content = w.content
  BY <1>1, <1>3 DEF Wire
<1> HIDE DEF w1
<1>6. \A i \in 1 .. Len(b) : i \in Int /\ i + 1 \in 1 .. Len(a) /\ i + 1 # 1
  BY <1>2, <1>3
<1>7. /\ \A i \in 1 .. Len(a) : Unserved(rec, snd, w.content, a[i])
      /\ \A i, j \in 1 .. Len(a) : a[i] = a[j] => i = j
      /\ \A q \in U : Unserved(rec, snd, w.content, q) /\ \A i \in 1 .. Len(a) : a[i] # q
  BY <1>1 DEF ServedOnce, a
<1>8. \A i, j \in 1 .. Len(b) : b[i] = b[j] => i = j
  <2> TAKE i, j \in 1 .. Len(b)
  <2> HAVE b[i] = b[j]
  <2>1. i + 1 = j + 1
    BY <1>4, <1>6, <1>7
  <2> QED BY <1>6, <2>1
<1>9. \A i \in 1 .. Len(b) : b[i] # a[1] /\ Unserved(rec, snd, w.content, b[i])
  BY <1>3, <1>4, <1>6, <1>7
<1>10. \A q \in U1 : \A i \in 1 .. Len(b) : b[i] # q
  BY <1>4, <1>6, <1>7
<1>11. srv.request = a[1] /\ srv.state = "waiting" /\ srv \in Serving
  <2>1. a[1] \in Ids
    BY <1>2, <1>3
  <2> QED BY <1>3, <2>1 DEF Serving
<1> HIDE DEF srv
<1>12. ServedOnce(U1, rec, srv, snd, w1)
  BY <1>3, <1>5, <1>7, <1>8, <1>9, <1>10, <1>11 DEF ServedOnce
<1>13. TypesOK(rec, srv, snd, w1, lnk)
  BY <1>1, <1>5, <1>11 DEF TypesOK
<1> QED BY <1>1, <1>5, <1>12, <1>13 DEF PlaceOK, w1, srv, b, a

\* A file is being sent: nothing of it has been before.
LEMMA SendingOK ==
  ASSUME NEW U \in SUBSET Ids, NEW U1 \in SUBSET U, NEW rec, NEW srv, NEW snd, NEW w, NEW lnk,
         PlaceOK(U, rec, srv, snd, w, lnk), srv # None, srv.state = "waiting"
  PROVE  PlaceOK(U1, rec, [srv EXCEPT !.state = "sending"],
                 snd \cup {[request |-> srv.request, next |-> 0]}, w, lnk)
<1> DEFINE x == [request |-> srv.request, next |-> 0]
           srv1 == [srv EXCEPT !.state = "sending"]
           snd1 == snd \cup {x}
<1>1. /\ TypesOK(rec, srv, snd, w, lnk) /\ ChunksBounded(rec, snd, w.content)
      /\ ServedOnce(U, rec, srv, snd, w) /\ Followed(rec, snd, w.content, lnk)
      /\ w \in Wire /\ srv \in Serving /\ rec \in Receiving /\ snd \in SUBSET Sending
  BY DEF PlaceOK, TypesOK
<1>2. /\ srv1.request = srv.request /\ srv1.state = "sending" /\ srv1 \in Serving
      /\ x.request = srv.request /\ x.next = 0 /\ SentBy(x) = 0 /\ x \in Sending
  <2>1. 0 \in 0 .. Chunks + 2 /\ srv.request \in Ids
    BY <1>1, FilesAssumption DEF Serving
  <2> QED BY <1>1, <2>1 DEF Serving, Sending, SentBy
<1> HIDE DEF x, srv1
<1>3. Unserved(rec, snd, w.content, srv.request)
  BY <1>1 DEF ServedOnce
<1>4. ChunksBounded(rec, snd1, w.content)
  BY <1>1, <1>2, <1>3 DEF ChunksBounded, Unserved
<1>5. ServedOnce(U1, rec, srv1, snd1, w)
  <2>1. \A q : q # srv.request /\ Unserved(rec, snd, w.content, q) => Unserved(rec, snd1, w.content, q)
    BY <1>2 DEF Unserved
  <2> QED BY <1>1, <1>2, <2>1 DEF ServedOnce
<1>6. Followed(rec, snd1, w.content, lnk)
  BY <1>1 DEF Followed, Ending
<1>7. TypesOK(rec, srv1, snd1, w, lnk)
  BY <1>1, <1>2 DEF TypesOK
<1> QED BY <1>4, <1>5, <1>6, <1>7 DEF PlaceOK, x, srv1

\* A sending fails: over a link that holds, only before its start is sent.
LEMMA FailingOK ==
  ASSUME NEW U \in SUBSET Ids, NEW U1 \in SUBSET U, NEW rec, NEW srv, NEW snd, NEW w, NEW lnk,
         PlaceOK(U, rec, srv, snd, w, lnk),
         NEW x \in snd, x.next = 0 \/ ~lnk.up,
         NEW w1 \in Wire, w1.asks = w.asks, w1.content = w.content
  PROVE  PlaceOK(U1, rec, IF srv # None /\ srv.request = x.request THEN None ELSE srv,
                 snd \ {x}, w1, lnk)
<1> DEFINE srv1 == IF srv # None /\ srv.request = x.request THEN None ELSE srv
           snd1 == snd \ {x}
<1>1. /\ TypesOK(rec, srv, snd, w, lnk) /\ ChunksBounded(rec, snd, w.content)
      /\ ServedOnce(U, rec, srv, snd, w) /\ Followed(rec, snd, w.content, lnk)
      /\ w \in Wire /\ (srv # None => srv \in Serving) /\ rec \in Receiving /\ snd \in SUBSET Sending
      /\ lnk.up \in BOOLEAN /\ lnk.lost \in BOOLEAN
  BY DEF PlaceOK, TypesOK, LinkState
<1>2. srv1 # None => srv1 = srv /\ srv.request # x.request
  OBVIOUS
<1> HIDE DEF srv1
<1>3. ChunksBounded(rec, snd1, w.content)
  BY <1>1 DEF ChunksBounded
<1>4. ServedOnce(U1, rec, srv1, snd1, w1)
  <2>1. \A q : Unserved(rec, snd, w.content, q) => Unserved(rec, snd1, w.content, q)
    BY DEF Unserved
  <2> QED BY <1>1, <1>2, <2>1 DEF ServedOnce
<1>5. Followed(rec, snd1, w.content, lnk)
  <2>1. CASE lnk.lost
    BY <1>1, <2>1 DEF Followed
  <2>2. CASE ~lnk.lost
    <3>1. x.next = 0
      BY <1>1, <2>2 DEF Followed
    <3>2. \A y \in snd : y.next >= 2 => y \in snd1
      BY <3>1
    <3>3. \A r, i : Ending(snd, w.content, r, i) => Ending(snd1, w.content, r, i)
      BY <3>2 DEF Ending
    <3> QED BY <1>1, <3>3 DEF Followed
  <2> QED BY <2>1, <2>2
<1>6. TypesOK(rec, srv1, snd1, w1, lnk)
  BY <1>1, <1>2 DEF TypesOK
<1> QED BY <1>3, <1>4, <1>5, <1>6 DEF PlaceOK, srv1

\* A frame of x goes on the wire: what arrives grows with a chunk of its
\* request only.
LEMMA ArrivingAfter ==
  ASSUME NEW rec \in Receiving, NEW s \in Seq(Frame), NEW f \in Frame, NEW r
  PROVE  /\ Append(s, f) \in Seq(Frame)
         /\ Arriving(rec, Append(s, f), r)
              = IF f = ChunkOf(r) THEN Arriving(rec, s, r) + 1 ELSE Arriving(rec, s, r)
<1>1. Count(Append(s, f), ChunkOf(r)) = IF f = ChunkOf(r) THEN Count(s, ChunkOf(r)) + 1 ELSE Count(s, ChunkOf(r))
  BY CountAppended
<1>2. Held(rec, r) \in Nat /\ Count(s, ChunkOf(r)) \in Nat
  BY ArrivingInNat
<1>3. Append(s, f) \in Seq(Frame)
  OBVIOUS
<1> QED BY <1>1, <1>2, <1>3 DEF Arriving

\* The indices of a wire that is longer by a frame.
LEMMA IndicesAfter ==
  ASSUME NEW s \in Seq(Frame), NEW f \in Frame
  PROVE  /\ Len(Append(s, f)) = Len(s) + 1 /\ Len(s) \in Nat /\ Append(s, f)[Len(s) + 1] = f
         /\ \A i \in 1 .. Len(s) : Append(s, f)[i] = s[i]
         /\ \A i \in 1 .. Len(s) + 1 : i \in 1 .. Len(s) \/ i = Len(s) + 1
         /\ Len(s) + 1 \in 1 .. Len(s) + 1 /\ 1 .. Len(s) \subseteq 1 .. Len(s) + 1
OBVIOUS

\* A sending goes on, from x to y, and may have sent a frame.
LEMMA SteppingOK ==
  ASSUME NEW U \in SUBSET Ids, NEW U1 \in SUBSET U, NEW rec, NEW srv, NEW snd, NEW w, NEW lnk,
         PlaceOK(U, rec, srv, snd, w, lnk),
         NEW x \in snd, NEW y \in Sending, y.request = x.request, y.next = x.next + 1,
         NEW s1,
         \/ x.next = 0 /\ s1 = w.content
         \/ x.next = 1 /\ s1 = Append(w.content, StartOf(x.request))
         \/ x.next >= 2 /\ s1 = Append(w.content, ChunkOf(x.request))
  PROVE  PlaceOK(U1, rec, srv, (snd \ {x}) \cup {y}, [w EXCEPT !.content = s1], lnk)
<1> DEFINE r == x.request
           s == w.content
           snd1 == (snd \ {x}) \cup {y}
           w1 == [w EXCEPT !.content = s1]
<1>1. /\ TypesOK(rec, srv, snd, w, lnk) /\ ChunksBounded(rec, snd, s)
      /\ ServedOnce(U, rec, srv, snd, w) /\ Followed(rec, snd, s, lnk)
      /\ w \in Wire /\ (srv # None => srv \in Serving) /\ rec \in Receiving /\ snd \in SUBSET Sending
      /\ s \in Seq(Frame)
  BY DEF PlaceOK, TypesOK, Wire
<1>2. x.next \in Nat /\ y.next <= Chunks + 2 /\ r \in Ids /\ Chunks \in Nat
  BY <1>1, FilesAssumption DEF Sending
<1>3. StartOf(r) \in Frame /\ ChunkOf(r) \in Frame
  BY <1>2 DEF Frame, StartOf, ChunkOf
<1>4. s1 \in Seq(Frame) /\ w1 \in Wire /\ w1.content = s1 /\ w1.asks = w.asks
  <2>1. s1 \in Seq(Frame)
    BY <1>1, <1>3
  <2> QED BY <1>1, <2>1 DEF Wire
<1>14. \/ x.next = 0 /\ s1 = s
       \/ x.next = 1 /\ s1 = Append(s, StartOf(r))
       \/ x.next >= 2 /\ s1 = Append(s, ChunkOf(r))
  OBVIOUS
<1> HIDE DEF w1, s
<1>5. \A q : Arriving(rec, s1, q)
               = IF x.next >= 2 /\ q = r THEN Arriving(rec, s, q) + 1 ELSE Arriving(rec, s, q)
  <2>1. \A q : /\ StartOf(r) # ChunkOf(q)
               /\ ChunkOf(r) = ChunkOf(q) <=> q = r
    BY DEF StartOf, ChunkOf
  <2>2. \A f \in Frame : \A q : Arriving(rec, Append(s, f), q)
              = IF f = ChunkOf(q) THEN Arriving(rec, s, q) + 1 ELSE Arriving(rec, s, q)
    BY <1>1, ArrivingAfter
  <2>3. CASE x.next = 0
    BY <1>14, <2>3
  <2>4. CASE x.next = 1
    <3>1. s1 = Append(s, StartOf(r)) /\ ~(x.next >= 2)
      BY <1>14, <2>4
    <3> QED BY <1>3, <2>1, <2>2, <3>1
  <2>5. CASE x.next >= 2
    <3>1. s1 = Append(s, ChunkOf(r))
      BY <1>2, <1>14, <2>5
    <3> QED BY <1>3, <2>1, <2>2, <2>5, <3>1
  <2> QED BY <1>2, <2>3, <2>4, <2>5
<1>6. \A q \in snd : q.request = r => q = x
  BY <1>1 DEF ChunksBounded
<1>7. SentBy(x) \in Nat /\ SentBy(y) = (IF x.next >= 2 THEN SentBy(x) + 1 ELSE SentBy(x)) /\ SentBy(y) <= Chunks
  BY <1>2 DEF SentBy
<1>8. ChunksBounded(rec, snd1, s1)
  <2>1. \A q : Arriving(rec, s, q) \in Nat
    BY <1>1, ArrivingInNat
  <2>2. Arriving(rec, s, r) <= SentBy(x)
    BY <1>1 DEF ChunksBounded
  <2>3. Arriving(rec, s1, r) <= SentBy(y)
    BY <1>5, <1>7, <2>1, <2>2
  <2>4. \A q \in Ids : Arriving(rec, s1, q) <= Chunks
    <3>1. \A q \in Ids : q # r => Arriving(rec, s1, q) <= Chunks
      BY <1>1, <1>5 DEF ChunksBounded
    <3>2. SentBy(y) \in Nat /\ Arriving(rec, s1, r) \in Nat
      BY <1>5, <1>7, <2>1
    <3>3. Arriving(rec, s1, r) <= Chunks
      BY <1>2, <1>7, <2>3, <3>2
    <3> QED BY <3>1, <3>3
  <2>6. \A z \in snd1 : z = y \/ (z \in snd /\ z.request # r)
    BY <1>6
  <2>5. \A z \in snd1 : Arriving(rec, s1, z.request) <= SentBy(z)
    <3>1. \A z \in snd : z.request # r => Arriving(rec, s1, z.request) <= SentBy(z)
      BY <1>1, <1>5 DEF ChunksBounded
    <3> QED BY <2>3, <2>6, <3>1
  <2>7. \A z1, z2 \in snd1 : z1.request = z2.request => z1 = z2
    BY <1>1, <2>6 DEF ChunksBounded
  <2>8. rec.incoming # None /\ rec.handling # None /\ rec.handling.type = "chunk" =>
          rec.handling.request = rec.incoming.request
    BY <1>1 DEF ChunksBounded
  <2> QED BY <2>4, <2>5, <2>7, <2>8 DEF ChunksBounded
<1>9. \A q : Unserved(rec, snd, s, q) => Unserved(rec, snd1, s1, q) /\ q # r
  BY <1>5 DEF Unserved
<1>10. ServedOnce(U1, rec, srv, snd1, w1)
  BY <1>1, <1>4, <1>9 DEF ServedOnce, s
<1>11. \A q \in Ids : \A i \in Nat : Ending(snd, s, q, i) => Ending(snd1, s1, q, i)
  <2> TAKE q \in Ids
  <2> TAKE i \in Nat
  <2> HAVE Ending(snd, s, q, i)
  <2>1. CASE \E z \in snd : z.request = q /\ z.next >= 2
    <3>1. \E z \in snd1 : z.request = q /\ z.next >= 2
      BY <1>2, <2>1
    <3> QED BY <3>1 DEF Ending
  <2>2. ASSUME NEW j \in 1 .. Len(s), j > i, s[j] = CompleteOf(q) PROVE Ending(snd1, s1, q, i)
    <3>1. j \in 1 .. Len(s1) /\ s1[j] = CompleteOf(q)
      BY <1>1, <1>3, <1>14, <2>2, IndicesAfter
    <3> QED BY <2>2, <3>1 DEF Ending
  <2> QED BY <2>1, <2>2 DEF Ending
<1>12. Followed(rec, snd1, s1, lnk)
  <2>1. rec.incoming # None => rec.incoming.request \in Ids
    BY <1>1 DEF Receiving
  <2>2. 0 \in Nat /\ \A q : Indices(s, StartOf(q)) \subseteq Nat
    BY <1>1 DEF Indices
  <2>3. ASSUME NEW q \in Ids, NEW i \in Indices(s1, StartOf(q)), i \notin Indices(s, StartOf(q))
        PROVE  Ending(snd1, s1, q, i)
    <3>1. StartOf(q) # ChunkOf(r) /\ (StartOf(q) = StartOf(r) => q = r)
      BY DEF StartOf, ChunkOf
    <3>2. i \in 1 .. Len(s1) /\ s1[i] = StartOf(q)
      BY DEF Indices
    <3>3. ~(i \in 1 .. Len(s) /\ s[i] = StartOf(q))
      BY <2>3 DEF Indices
    <3>4. ASSUME NEW f \in Frame, s1 = Append(s, f) PROVE f = StartOf(q)
      <4>1. /\ Len(s1) = Len(s) + 1 /\ s1[Len(s) + 1] = f
            /\ \A j \in 1 .. Len(s) : s1[j] = s[j]
            /\ \A j \in 1 .. Len(s) + 1 : j \in 1 .. Len(s) \/ j = Len(s) + 1
        BY <1>1, <3>4, IndicesAfter
      <4>2. i \in 1 .. Len(s) + 1
        BY <3>2, <4>1
      <4>3. i = Len(s) + 1
        BY <3>2, <3>3, <4>1, <4>2
      <4> QED BY <3>2, <4>1, <4>3
    <3>5. s1 # s
      BY <3>2, <3>3
    <3>6. ~(s1 = Append(s, ChunkOf(r)))
      BY <1>3, <3>1, <3>4
    <3>7. x.next = 1 /\ s1 = Append(s, StartOf(r))
      BY <1>14, <3>5, <3>6, Zenon
    <3>8. q = r
      BY <1>3, <3>1, <3>4, <3>7
    <3>9. \E z \in snd1 : z.request = q /\ z.next >= 2
      BY <3>7, <3>8
    <3> QED BY <3>9 DEF Ending
  <2>4. \A q \in Ids : \A i \in Indices(s, StartOf(q)) : ~lnk.lost => Ending(snd1, s1, q, i)
    BY <1>1, <1>11, <2>2 DEF Followed
  <2>5. rec.incoming # None /\ ~lnk.lost => Ending(snd1, s1, rec.incoming.request, 0)
    BY <1>1, <1>11, <2>1, <2>2 DEF Followed
  <2> QED BY <1>1, <2>3, <2>4, <2>5 DEF Followed
<1>13. TypesOK(rec, srv, snd1, w1, lnk)
  BY <1>1, <1>4 DEF TypesOK
<1> QED BY <1>4, <1>8, <1>10, <1>12, <1>13 DEF PlaceOK, w1

\* A sending ends: its transfer has its complete.
LEMMA EndingOK ==
  ASSUME NEW U \in SUBSET Ids, NEW U1 \in SUBSET U, NEW rec, NEW srv, NEW snd, NEW w, NEW lnk,
         PlaceOK(U, rec, srv, snd, w, lnk), NEW x \in snd
  PROVE  PlaceOK(U1, rec, IF srv # None /\ srv.request = x.request THEN None ELSE srv,
                 snd \ {x}, [w EXCEPT !.content = Append(@, CompleteOf(x.request))], lnk)
<1> DEFINE r == x.request
           s == w.content
           s1 == Append(s, CompleteOf(r))
           srv1 == IF srv # None /\ srv.request = x.request THEN None ELSE srv
           snd1 == snd \ {x}
           w1 == [w EXCEPT !.content = s1]
<1>1. /\ TypesOK(rec, srv, snd, w, lnk) /\ ChunksBounded(rec, snd, s)
      /\ ServedOnce(U, rec, srv, snd, w) /\ Followed(rec, snd, s, lnk)
      /\ w \in Wire /\ (srv # None => srv \in Serving) /\ rec \in Receiving /\ snd \in SUBSET Sending
      /\ s \in Seq(Frame)
  BY DEF PlaceOK, TypesOK, Wire
<1>2. srv1 # None => srv1 = srv /\ srv.request # x.request
  OBVIOUS
<1> HIDE DEF srv1, s
<1>3. CompleteOf(r) \in Frame
  BY <1>1 DEF Frame, CompleteOf, Sending
<1>4. s1 \in Seq(Frame) /\ w1 \in Wire /\ w1.content = s1 /\ w1.asks = w.asks
  <2>1. s1 \in Seq(Frame)
    BY <1>1, <1>3
  <2> HIDE DEF s1
  <2> QED BY <1>1, <2>1 DEF Wire
<1> HIDE DEF w1
<1>5. \A q : Arriving(rec, s1, q) = Arriving(rec, s, q)
  <2>1. \A q : CompleteOf(r) # ChunkOf(q)
    BY DEF CompleteOf, ChunkOf
  <2> QED BY <1>1, <1>3, <2>1, ArrivingAfter
<1>6. /\ Len(s1) = Len(s) + 1 /\ Len(s) \in Nat /\ s1[Len(s) + 1] = CompleteOf(r)
      /\ \A i \in 1 .. Len(s) : s1[i] = s[i]
      /\ \A i \in 1 .. Len(s) + 1 : i \in 1 .. Len(s) \/ i = Len(s) + 1
  BY <1>1, <1>3, IndicesAfter
<1> HIDE DEF s1
<1>7. ChunksBounded(rec, snd1, s1)
  BY <1>1, <1>5 DEF ChunksBounded
<1>8. \A q : Unserved(rec, snd, s, q) => Unserved(rec, snd1, s1, q)
  BY <1>5 DEF Unserved
<1>9. ServedOnce(U1, rec, srv1, snd1, w1)
  BY <1>1, <1>2, <1>4, <1>8 DEF ServedOnce, s
<1>10. \A q \in Ids : \A i \in 0 .. Len(s) : Ending(snd, s, q, i) => Ending(snd1, s1, q, i)
  <2> TAKE q \in Ids
  <2> TAKE i \in 0 .. Len(s)
  <2> HAVE Ending(snd, s, q, i)
  <2>1. CASE q = r
    <3>1. Len(s) + 1 \in 1 .. Len(s1) /\ Len(s) + 1 > i
      BY <1>6
    <3> QED BY <1>6, <2>1, <3>1 DEF Ending
  <2>2. ASSUME NEW z \in snd, z.request = q, z.next >= 2, q # r PROVE Ending(snd1, s1, q, i)
    BY <2>2 DEF Ending
  <2>3. ASSUME NEW j \in 1 .. Len(s), j > i, s[j] = CompleteOf(q) PROVE Ending(snd1, s1, q, i)
    <3>1. j \in 1 .. Len(s1) /\ s1[j] = CompleteOf(q)
      BY <1>6, <2>3
    <3> QED BY <2>3, <3>1 DEF Ending
  <2> QED BY <2>1, <2>2, <2>3 DEF Ending
<1>11. Followed(rec, snd1, s1, lnk)
  <2>1. rec.incoming # None => rec.incoming.request \in Ids
    BY <1>1 DEF Receiving
  <2>2. 0 \in 0 .. Len(s) /\ \A q : Indices(s, StartOf(q)) \subseteq 0 .. Len(s)
    BY <1>6 DEF Indices
  <2>3. \A q : Indices(s1, StartOf(q)) \subseteq Indices(s, StartOf(q))
    <3>1. \A q : StartOf(q) # CompleteOf(r)
      BY DEF StartOf, CompleteOf
    <3> QED BY <1>6, <3>1 DEF Indices
  <2>4. \A q \in Ids : \A i \in Indices(s1, StartOf(q)) : ~lnk.lost => Ending(snd1, s1, q, i)
    BY <1>1, <1>10, <2>2, <2>3 DEF Followed
  <2>5. rec.incoming # None /\ ~lnk.lost => Ending(snd1, s1, rec.incoming.request, 0)
    BY <1>1, <1>10, <2>1, <2>2 DEF Followed
  <2> QED BY <1>1, <2>4, <2>5 DEF Followed
<1>12. TypesOK(rec, srv1, snd1, w1, lnk)
  BY <1>1, <1>2, <1>4 DEF TypesOK
<1> QED BY <1>4, <1>7, <1>9, <1>11, <1>12 DEF PlaceOK, w1, s1, srv1, s

-------------------------------------------------------------------------------
(* What the requester takes.                                                *)

\* A frame that is taken was counted, if it is a chunk.
LEMMA ArrivingTaken ==
  ASSUME NEW rec \in Receiving, NEW rec1 \in Receiving, NEW s \in Seq(Frame), s # <<>>, NEW q,
         Held(rec1, q) <= IF Head(s) = ChunkOf(q) THEN Held(rec, q) + 1 ELSE Held(rec, q)
  PROVE  Arriving(rec1, Tail(s), q) <= Arriving(rec, s, q)
<1>1. Tail(s) \in Seq(Frame)
  OBVIOUS
<1>2. Held(rec, q) \in Nat /\ Held(rec1, q) \in Nat /\ Count(s, ChunkOf(q)) \in Nat /\ Count(Tail(s), ChunkOf(q)) \in Nat
  BY <1>1, ArrivingInNat
<1>3. Count(s, ChunkOf(q))
        = IF Head(s) = ChunkOf(q) THEN Count(Tail(s), ChunkOf(q)) + 1 ELSE Count(Tail(s), ChunkOf(q))
  BY CountOfTail
<1> QED BY <1>2, <1>3 DEF Arriving

\* What follows is to come still when the first frame is taken, unless it is
\* the complete of the transfer.
LEMMA FollowedTaken ==
  ASSUME NEW rec, NEW rec1, NEW snd, NEW s \in Seq(Frame), s # <<>>, NEW lnk,
         Followed(rec, snd, s, lnk),
         rec1.incoming # None =>
           /\ rec1.incoming.request \in Ids
           /\ \/ /\ rec.incoming # None /\ rec.incoming.request = rec1.incoming.request
                 /\ Head(s) # CompleteOf(rec1.incoming.request)
              \/ Head(s) = StartOf(rec1.incoming.request)
  PROVE  Followed(rec1, snd, Tail(s), lnk)
<1> DEFINE t == Tail(s)
<1>1. Len(s) \in Nat /\ Len(s) >= 1 /\ Len(t) = Len(s) - 1 /\ Head(s) = s[1]
  OBVIOUS
<1>2. \A i \in 1 .. Len(t) : t[i] = s[i + 1]
  OBVIOUS
<1> HIDE DEF t
<1>3. ASSUME NEW q, NEW i \in Nat, Ending(snd, s, q, i), i >= 1 \/ Head(s) # CompleteOf(q)
      PROVE  Ending(snd, t, q, IF i = 0 THEN 0 ELSE i - 1)
  <2>1. ASSUME NEW j \in 1 .. Len(s), j > i, s[j] = CompleteOf(q)
        PROVE  Ending(snd, t, q, IF i = 0 THEN 0 ELSE i - 1)
    <3>1. j # 1
      BY <1>1, <1>3, <2>1
    <3>2. j - 1 \in 1 .. Len(t) /\ (j - 1) + 1 = j /\ j - 1 > IF i = 0 THEN 0 ELSE i - 1
      BY <1>1, <2>1, <3>1
    <3>3. t[j - 1] = CompleteOf(q)
      BY <1>2, <2>1, <3>2
    <3> QED BY <3>2, <3>3 DEF Ending
  <2>2. CASE \E x \in snd : x.request = q /\ x.next >= 2
    BY <2>2 DEF Ending
  <2> QED BY <1>3, <2>1, <2>2 DEF Ending
<1>4. ASSUME ~lnk.lost, NEW q \in Ids, NEW i \in Indices(t, StartOf(q)) PROVE Ending(snd, t, q, i)
  <2>1. i \in 1 .. Len(t) /\ t[i] = StartOf(q)
    BY DEF Indices
  <2>2. i + 1 \in 1 .. Len(s) /\ s[i + 1] = StartOf(q) /\ i + 1 >= 1 /\ i + 1 \in Nat /\ i + 1 # 0 /\ (i + 1) - 1 = i
    BY <1>1, <1>2, <2>1
  <2>3. Ending(snd, s, q, i + 1)
    BY <1>4, <2>2 DEF Followed, Indices
  <2> QED BY <1>3, <2>2, <2>3
<1>5. ASSUME ~lnk.lost, rec1.incoming # None PROVE Ending(snd, t, rec1.incoming.request, 0)
  <2> DEFINE q == rec1.incoming.request
  <2>1. CASE Head(s) = StartOf(q)
    <3>1. 1 \in Indices(s, StartOf(q)) /\ q \in Ids
      BY <1>1, <1>5, <2>1 DEF Indices
    <3>2. Ending(snd, s, q, 1)
      BY <1>5, <3>1 DEF Followed
    <3>3. 1 \in Nat /\ 1 >= 1 /\ 1 # 0 /\ 1 - 1 = 0
      OBVIOUS
    <3> HIDE DEF q
    <3>4. Ending(snd, t, q, IF 1 = 0 THEN 0 ELSE 1 - 1)
      BY <1>3, <3>2, <3>3
    <3> QED BY <3>3, <3>4 DEF q
  <2>2. CASE rec.incoming # None /\ rec.incoming.request = q /\ Head(s) # CompleteOf(q)
    <3>1. Ending(snd, s, q, 0)
      BY <1>5, <2>2 DEF Followed
    <3>2. Ending(snd, t, q, IF 0 = 0 THEN 0 ELSE 0 - 1)
      BY <1>3, <2>2, <3>1
    <3> QED BY <3>2
  <2> QED BY <1>5, <2>1, <2>2
<1> QED BY <1>4, <1>5 DEF Followed, t

\* The frames the requester knows.
LEMMA KindsOfFrames ==
  ASSUME NEW f \in Frame
  PROVE  /\ f.request \in Ids
         /\ f.type = "start" => f = StartOf(f.request)
         /\ f.type = "chunk" => f = ChunkOf(f.request)
         /\ f.type = "complete" => f = CompleteOf(f.request)
         /\ f.type \in {"start", "chunk", "complete"}
         /\ \A q : /\ f = StartOf(q) => f.type = "start" /\ f.request = q
                   /\ f = ChunkOf(q) => f.type = "chunk" /\ f.request = q
                   /\ f = CompleteOf(q) => f.type = "complete" /\ f.request = q
BY DEF Frame, StartOf, ChunkOf, CompleteOf

\* A frame arrives that starts a transfer, is not looked at, is verified, or
\* ends a transfer.
LEMMA ArrivalOK ==
  ASSUME NEW U \in SUBSET Ids, NEW U1 \in SUBSET U, NEW rec, NEW srv, NEW snd, NEW w, NEW lnk,
         PlaceOK(U, rec, srv, snd, w, lnk),
         w.content # <<>>, rec.handling = None, NEW rec1, NEW f, f = Head(w.content),
         \/ f.type = "start" /\ rec.incoming = None
              /\ rec1 = [rec EXCEPT !.incoming = [request |-> f.request, receivedChunks |-> 0]]
         \/ rec1 = rec /\ (f.type = "complete" => rec.incoming = None \/ rec.incoming.request # f.request)
         \/ f.type = "chunk" /\ rec.incoming # None /\ rec.incoming.request = f.request
              /\ rec1 = [rec EXCEPT !.handling = f]
         \/ f.type = "complete" /\ rec1 \in {[rec EXCEPT !.incoming = None, !.handling = f],
                                             [rec EXCEPT !.incoming = None]}
  PROVE  PlaceOK(U1, rec1, srv, snd, [w EXCEPT !.content = Tail(@)], lnk)
<1> DEFINE s == w.content
<1>1. rec \in Receiving /\ s \in Seq(Frame) /\ s # <<>> /\ f \in Frame /\ f = Head(s) /\ Tail(s) \in Seq(Frame)
  <2>1. rec \in Receiving /\ s \in Seq(Frame)
    BY DEF PlaceOK, TypesOK, Wire
  <2>2. s # <<>> /\ f = Head(s)
    OBVIOUS
  <2> HIDE DEF s
  <2> QED BY <2>1, <2>2
<1> HIDE DEF s
<1>2. /\ rec.handling = None
      /\ rec.incoming # None => /\ rec.incoming.request \in Ids
                                /\ rec.incoming.receivedChunks \in 0 .. Chunks
  BY <1>1 DEF Receiving
<1>3. 0 \in 0 .. Chunks /\ Chunks \in Nat
  BY FilesAssumption
<1>4. \A q : Held(rec, q) \in Nat
  BY <1>1, ArrivingInNat
<1>5. /\ rec1 \in Receiving
      /\ \A q \in Ids : Held(rec1, q) <= IF f = ChunkOf(q) THEN Held(rec, q) + 1 ELSE Held(rec, q)
      /\ rec1.incoming # None /\ rec1.handling # None /\ rec1.handling.type = "chunk" =>
           rec1.handling.request = rec1.incoming.request
      /\ rec1.incoming # None =>
           /\ rec1.incoming.request \in Ids
           /\ \/ /\ rec.incoming # None /\ rec.incoming.request = rec1.incoming.request
                 /\ f # CompleteOf(rec1.incoming.request)
              \/ f = StartOf(rec1.incoming.request)
  <2>1. CASE f.type = "start" /\ rec.incoming = None
              /\ rec1 = [rec EXCEPT !.incoming = [request |-> f.request, receivedChunks |-> 0]]
    <3> DEFINE inc == [request |-> f.request, receivedChunks |-> 0]
    <3>1. inc \in [request : Ids, receivedChunks : 0 .. Chunks] /\ inc.request = f.request /\ inc.receivedChunks = 0
      BY <1>1, <1>3, KindsOfFrames
    <3>2. rec1 \in Receiving /\ rec1.incoming = inc /\ rec1.handling = None
      BY <1>1, <2>1, <3>1 DEF Receiving
    <3> HIDE DEF inc
    <3> QED BY <1>1, <1>2, <1>4, <2>1, <3>1, <3>2, KindsOfFrames DEF Held
  <2>2. CASE rec1 = rec /\ (f.type = "complete" => rec.incoming = None \/ rec.incoming.request # f.request)
    BY <1>1, <1>2, <1>4, <2>2, KindsOfFrames
  <2>3. CASE f.type = "chunk" /\ rec.incoming # None /\ rec.incoming.request = f.request
              /\ rec1 = [rec EXCEPT !.handling = f]
    <3>1. rec1 \in Receiving /\ rec1.incoming = rec.incoming /\ rec1.handling = f
      BY <1>1, <2>3 DEF Receiving
    <3> QED BY <1>1, <1>2, <1>4, <2>3, <3>1, KindsOfFrames DEF Held
  <2>4. CASE f.type = "complete" /\ rec1 \in {[rec EXCEPT !.incoming = None, !.handling = f],
                                             [rec EXCEPT !.incoming = None]}
    <3>1. rec1 \in Receiving /\ rec1.incoming = None /\ rec1.handling \in {f, None}
      BY <1>1, <1>2, <2>4 DEF Receiving
    <3>2. \A q : Held(rec1, q) = 0
      BY <1>1, <2>4, <3>1, KindsOfFrames DEF Held
    <3> QED BY <1>4, <3>1, <3>2
  <2> QED BY <2>1, <2>2, <2>3, <2>4
<1>6. \A q \in Ids : Arriving(rec1, Tail(s), q) <= Arriving(rec, s, q)
  BY <1>1, <1>5, ArrivingTaken
<1>7. Followed(rec, snd, s, lnk)
  BY DEF PlaceOK, s
<1>8. Followed(rec1, snd, Tail(s), lnk)
  BY <1>1, <1>5, <1>7, FollowedTaken
<1> QED BY <1>1, <1>5, <1>6, <1>8, TakingOK DEF s

\* The requester changes nothing of which transfer is under way, or gives it
\* up, and counts no more than has arrived.
LEMMA RecountOK ==
  ASSUME NEW U \in SUBSET Ids, NEW U1 \in SUBSET U, NEW rec, NEW srv, NEW snd, NEW w, NEW lnk,
         PlaceOK(U, rec, srv, snd, w, lnk), NEW rec1 \in Receiving,
         \A q \in Ids : Held(rec1, q) <= Held(rec, q),
         rec1.incoming # None => rec.incoming # None /\ rec1.incoming.request = rec.incoming.request,
         rec1.handling # None => rec1.handling = rec.handling
  PROVE  PlaceOK(U1, rec1, srv, snd, w, lnk)
<1>1. w \in Wire /\ w.content \in Seq(Frame) /\ w = [w EXCEPT !.content = w.content]
      /\ rec \in Receiving /\ ChunksBounded(rec, snd, w.content) /\ Followed(rec, snd, w.content, lnk)
  BY DEF PlaceOK, TypesOK, Wire
<1>2. \A q \in Ids : Arriving(rec1, w.content, q) <= Arriving(rec, w.content, q)
  <2>1. \A q : Held(rec1, q) \in Nat /\ Held(rec, q) \in Nat /\ Count(w.content, ChunkOf(q)) \in Nat
    BY <1>1, ArrivingInNat
  <2> QED BY <2>1 DEF Arriving
<1>3. rec1.incoming # None /\ rec1.handling # None /\ rec1.handling.type = "chunk" =>
        rec1.handling.request = rec1.incoming.request
  BY <1>1 DEF ChunksBounded
<1>4. Followed(rec1, snd, w.content, lnk)
  BY <1>1 DEF Followed
<1>5. PlaceOK(U1, rec1, srv, snd, [w EXCEPT !.content = w.content], lnk)
  BY <1>1, <1>2, <1>3, <1>4, TakingOK
<1> QED BY <1>1, <1>5

\* What FrameVerified leaves of the requester's side.
Verified(rec) ==
  [rec EXCEPT !.handling = None,
              !.incoming = IF rec.handling.type = "chunk" THEN Received(@) ELSE @]

\* A frame is verified: its chunk is received.
LEMMA VerifiedOK ==
  ASSUME NEW U \in SUBSET Ids, NEW U1 \in SUBSET U, NEW rec, NEW srv, NEW snd, NEW w, NEW lnk,
         PlaceOK(U, rec, srv, snd, w, lnk), rec.handling # None
  PROVE  PlaceOK(U1, Verified(rec), srv, snd, w, lnk)
<1> DEFINE received == IF rec.handling.type = "chunk" THEN Received(rec.incoming) ELSE rec.incoming
           rec1 == [rec EXCEPT !.handling = None, !.incoming = received]
<1>1. rec \in Receiving /\ w.content \in Seq(Frame) /\ ChunksBounded(rec, snd, w.content)
  BY DEF PlaceOK, TypesOK, Wire
<1>2. /\ rec.handling \in Frame
      /\ rec.incoming # None => rec.incoming \in [request : Ids, receivedChunks : 0 .. Chunks]
  BY <1>1 DEF Receiving
<1>3. Chunks \in Nat
  BY FilesAssumption
<1>6. rec1 = Verified(rec)
  BY DEF Verified
<1>7. (received \in [request : Ids, receivedChunks : 0 .. Chunks] \cup {None}) =>
        rec1 \in Receiving /\ rec1.incoming = received /\ rec1.handling = None
  <2> HIDE DEF received
  <2> QED BY <1>1 DEF Receiving
<1> HIDE DEF rec1, received
<1>4. ASSUME rec.handling.type = "chunk", rec.incoming # None
      PROVE  PlaceOK(U1, rec1, srv, snd, w, lnk)
  <2> DEFINE r == rec.incoming.request
             n == rec.incoming.receivedChunks
             inc == [rec.incoming EXCEPT !.receivedChunks = n + 1]
  <2>1. r \in Ids /\ n \in Nat
    BY <1>2, <1>3, <1>4
  <2>2. rec.handling = ChunkOf(r)
    BY <1>1, <1>2, <1>4, KindsOfFrames DEF ChunksBounded
  <2>3. Held(rec, r) = n + 1
    BY <1>4, <2>1, <2>2 DEF Held
  <2>4. n + 1 \in 0 .. Chunks
    <3>1. Held(rec, r) <= Arriving(rec, w.content, r) /\ Arriving(rec, w.content, r) \in Nat /\ Held(rec, r) \in Nat
      <4>1. Held(rec, r) \in Nat /\ Count(w.content, ChunkOf(r)) \in Nat
        BY <1>1, ArrivingInNat
      <4> QED BY <4>1 DEF Arriving
    <3>2. Arriving(rec, w.content, r) <= Chunks
      BY <1>1, <2>1 DEF ChunksBounded
    <3> QED BY <1>3, <2>1, <2>3, <3>1, <3>2
  <2>5. inc \in [request : Ids, receivedChunks : 0 .. Chunks] /\ inc.request = r /\ inc.receivedChunks = n + 1
    BY <1>2, <1>4, <2>1, <2>4
  <2>6. rec1 \in Receiving /\ rec1.incoming = inc /\ rec1.handling = None
    <3>1. received = inc
      BY <1>4 DEF received, Received
    <3> HIDE DEF inc, n
    <3> QED BY <1>7, <2>5, <3>1
  <2> HIDE DEF inc, n
  <2>7. \A q : Held(rec1, q) <= Held(rec, q)
    <3>1. \A q : q # r => Held(rec1, q) = 0
      BY <2>5, <2>6 DEF Held
    <3>2. Held(rec1, r) <= n + 1
      BY <2>1, <2>5, <2>6 DEF Held
    <3>3. \A q : Held(rec, q) \in Nat
      BY <1>1, ArrivingInNat
    <3> QED BY <2>3, <3>1, <3>2, <3>3
  <2>8. rec1.incoming # None => rec.incoming # None /\ rec1.incoming.request = rec.incoming.request
    BY <1>4, <2>5, <2>6
  <2> QED BY <2>6, <2>7, <2>8, RecountOK
<1>5. ASSUME ~(rec.handling.type = "chunk" /\ rec.incoming # None)
      PROVE  PlaceOK(U1, rec1, srv, snd, w, lnk)
  <2>1. rec1 \in Receiving /\ rec1.incoming = rec.incoming /\ rec1.handling = None
    <3>1. received = rec.incoming
      BY <1>5 DEF received, Received
    <3> QED BY <1>2, <1>7, <3>1
  <2>2. \A q : Held(rec1, q) \in Nat /\ Held(rec, q) \in Nat
    BY <1>1, <2>1, ArrivingInNat
  <2>3. \A q : Held(rec1, q) <= Held(rec, q)
    <3>1. \A q : rec.incoming # None /\ rec.incoming.request = q => rec.incoming.receivedChunks \in Nat
      BY <1>2, <1>3
    <3> QED BY <2>1, <3>1 DEF Held
  <2> QED BY <2>1, <2>3, RecountOK
<1>8. PlaceOK(U1, rec1, srv, snd, w, lnk)
  BY <1>4, <1>5
<1> QED BY <1>6, <1>8

\* The requester gives up what it receives.
LEMMA GivingUpOK ==
  ASSUME NEW U \in SUBSET Ids, NEW U1 \in SUBSET U, NEW rec, NEW srv, NEW snd, NEW w, NEW lnk,
         PlaceOK(U, rec, srv, snd, w, lnk)
  PROVE  PlaceOK(U1, [rec EXCEPT !.incoming = None], srv, snd, w, lnk)
<1> DEFINE rec1 == [rec EXCEPT !.incoming = None]
<1>1. rec \in Receiving
  BY DEF PlaceOK, TypesOK
<1>2. rec1 \in Receiving /\ rec1.incoming = None /\ rec1.handling = rec.handling
  BY <1>1 DEF Receiving
<1> HIDE DEF rec1
<1>3. \A q : rec.incoming # None => rec.incoming.receivedChunks \in Nat
  BY <1>1, FilesAssumption DEF Receiving
<1>4. \A q : Held(rec1, q) <= Held(rec, q)
  BY <1>2, <1>3 DEF Held
<1> QED BY <1>2, <1>4, RecountOK DEF rec1

\* The last frames on the wire are lost.
LEMMA DroppingOK ==
  ASSUME NEW U \in SUBSET Ids, NEW U1 \in SUBSET U, NEW rec, NEW srv, NEW snd, NEW w, NEW lnk,
         PlaceOK(U, rec, srv, snd, w, lnk), NEW k \in 0 .. Len(w.content),
         NEW lnk1 \in LinkState, lnk1.lost
  PROVE  PlaceOK(U1, rec, srv, snd, [w EXCEPT !.content = SubSeq(@, 1, k)], lnk1)
<1> DEFINE s1 == SubSeq(w.content, 1, k)
<1>1. /\ rec \in Receiving /\ w \in Wire /\ w.content \in Seq(Frame)
      /\ ChunksBounded(rec, snd, w.content)
  BY DEF PlaceOK, TypesOK, Wire
<1>2. s1 \in Seq(Frame) /\ \A q : Count(s1, ChunkOf(q)) <= Count(w.content, ChunkOf(q))
  BY <1>1, CountOfPrefix
<1> HIDE DEF s1
<1>3. PlaceOK(U, rec, srv, snd, w, lnk1)
  <2>1. Shorter(w.asks, w.asks)
    BY DEF Shorter
  <2> QED BY <1>1, <2>1, ReleaseOK
<1>4. \A q \in Ids : Arriving(rec, s1, q) <= Arriving(rec, w.content, q)
  <2>1. \A q : Held(rec, q) \in Nat /\ Count(s1, ChunkOf(q)) \in Nat /\ Count(w.content, ChunkOf(q)) \in Nat
    BY <1>1, <1>2, ArrivingInNat
  <2> QED BY <1>2, <2>1 DEF Arriving
<1>5. Followed(rec, snd, s1, lnk1)
  BY DEF Followed
<1>6. rec.incoming # None /\ rec.handling # None /\ rec.handling.type = "chunk" =>
        rec.handling.request = rec.incoming.request
  BY <1>1 DEF ChunksBounded
<1>7. PlaceOK(U1, rec, srv, snd, [w EXCEPT !.content = s1], lnk1)
  BY <1>1, <1>2, <1>3, <1>4, <1>5, <1>6, TakingOK
<1> QED BY <1>7 DEF s1

\* A link is lost with what was on its way.
LEMMA LosingOK ==
  ASSUME NEW U \in SUBSET Ids, NEW U1 \in SUBSET U, NEW rec, NEW srv, NEW snd, NEW w, NEW lnk,
         PlaceOK(U, rec, srv, snd, w, lnk), NEW k \in 0 .. Len(w.content)
  PROVE  PlaceOK(U1, rec, srv, snd,
                 [asks |-> <<>>, rejects |-> <<>>, content |-> SubSeq(w.content, 1, k)],
                 [lnk EXCEPT !.up = FALSE, !.lost = TRUE])
<1> DEFINE w0 == [asks |-> <<>>, rejects |-> <<>>, content |-> w.content]
           lnk1 == [lnk EXCEPT !.up = FALSE, !.lost = TRUE]
<1>1. w.content \in Seq(Frame) /\ lnk \in LinkState
  BY DEF PlaceOK, TypesOK, Wire
<1>2. w0 \in Wire /\ w0.asks = <<>> /\ w0.content = w.content
  <2>1. <<>> \in Seq(Ids)
    OBVIOUS
  <2> QED BY <1>1, <2>1 DEF Wire
<1>3. lnk1 \in LinkState /\ lnk1.lost /\ ~lnk1.up
  BY <1>1 DEF LinkState
<1>4. [w0 EXCEPT !.content = SubSeq(w.content, 1, k)] =
        [asks |-> <<>>, rejects |-> <<>>, content |-> SubSeq(w.content, 1, k)]
  OBVIOUS
<1> HIDE DEF lnk1, w0
<1>5. PlaceOK(U, rec, srv, snd, w0, lnk1)
  <2>1. Shorter(w.asks, w0.asks)
    BY <1>2 DEF Shorter
  <2> QED BY <1>2, <1>3, <2>1, ReleaseOK
<1>6. PlaceOK(U1, rec, srv, snd, [w0 EXCEPT !.content = SubSeq(w0.content, 1, k)], lnk1)
  BY <1>2, <1>3, <1>5, DroppingOK
<1> QED BY <1>2, <1>4, <1>6 DEF lnk1

\* What is behind the frames that are there is lost.
LEMMA LastLost ==
  ASSUME NEW s \in Seq(Frame), NEW f \in Frame
  PROVE  /\ Len(s) \in 0 .. Len(s) /\ SubSeq(s, 1, Len(s)) = s
         /\ Len(s) \in 0 .. Len(Append(s, f)) /\ SubSeq(Append(s, f), 1, Len(s)) = s
OBVIOUS

-------------------------------------------------------------------------------
(* The steps.                                                               *)

\* Nothing moves elsewhere than at p.
OnlyAt(p) ==
  \A q \in Providers \ {p} :
    /\ receiving'[q] = receiving[q] /\ serving'[q] = serving[q] /\ sendings'[q] = sendings[q]
    /\ wire'[q] = wire[q] /\ links'[q] = links[q]

\* A closed requester has lost what its providers sent it.
ClosedLoses == closed => \A p \in Providers : links[p].lost

NextPlaceOK(p) == PlaceOK(Unmade', receiving'[p], serving'[p], sendings'[p], wire'[p], links'[p])

\* What a step does to the requests.
LEMMA RequestsKeep ==
  ASSUME FilesInv, OnePending, Handled
  PROVE  FilesInv' /\ OnePending' /\ Unmade' \in SUBSET Unmade /\ Unmade \in SUBSET Ids
<1>1. CASE OneMoves
  <2>1. PICK r \in Ids, x \in Request :
          /\ requests' = [requests EXCEPT ![r] = x]
          /\ Fitting(x) /\ Moves(requests[r].state, x.state) /\ Alone(r, x)
    BY <1>1 DEF OneMoves
  <2>2. /\ \A q \in Ids \ {r} : requests'[q] = requests[q]
        /\ requests'[r] = x
    BY <2>1 DEF FilesInv
  <2>3. Unmade' \in SUBSET Unmade
    BY <2>1, <2>2 DEF Unmade, Moves
  <2>4. ASSUME NEW p \in Providers, NEW q1 \in PendingAt(p)', NEW q2 \in PendingAt(p)'
        PROVE  q1 = q2
    <3>1. q1 \in Ids /\ q2 \in Ids
      BY DEF PendingAt
    <3>2. ASSUME NEW q \in PendingAt(p)', q # r PROVE q \in PendingAt(p)
      BY <2>2, <3>2 DEF PendingAt
    <3>3. ASSUME r \in PendingAt(p)' PROVE r \in PendingAt(p) \/ PendingAt(p) = {}
      BY <2>1, <2>2, <3>3 DEF PendingAt, Alone
    <3> QED BY <3>1, <3>2, <3>3 DEF OnePending
  <2>5. OnePending'
    BY <2>4 DEF OnePending
  <2> QED BY <1>1, <2>3, <2>5, OneMovesRefines DEF Unmade
<1>2. CASE AllRejected
  <2>1. PICK S \in SUBSET Ids :
          /\ \A r \in S : requests[r].state = "pending"
          /\ requests' = [r \in Ids |-> IF r \in S THEN Settled(requests[r], "rejected") ELSE requests[r]]
    BY <1>2 DEF AllRejected
  <2>2. /\ \A r \in S : requests'[r].state = "rejected"
        /\ \A r \in Ids \ S : requests'[r] = requests[r]
    BY <2>1, AllFit, SettledFits
  <2>3. Unmade' \in SUBSET Unmade
    BY <2>2 DEF Unmade
  <2>4. \A p \in Providers : PendingAt(p)' \subseteq PendingAt(p)
    BY <2>2 DEF PendingAt
  <2>5. OnePending'
    BY <2>4 DEF OnePending
  <2> QED BY <1>2, <2>3, <2>5, AllRejectedRefines DEF Unmade
<1>3. CASE UNCHANGED requests
  BY <1>3 DEF FilesInv, TimersPending, NoneForgotten, OnePending, PendingAt, Unmade
<1> QED BY <1>1, <1>2, <1>3 DEF Handled

\* A place that nothing moves is as good as it was.
LEMMA SamePlaceOK ==
  ASSUME NEW U \in SUBSET Ids, NEW U1 \in SUBSET U, NEW rec, NEW srv, NEW snd, NEW w, NEW lnk,
         PlaceOK(U, rec, srv, snd, w, lnk)
  PROVE  PlaceOK(U1, rec, srv, snd, w, lnk)
<1>1. w \in Wire /\ lnk \in LinkState /\ (~lnk.up => lnk.lost)
  BY DEF PlaceOK, TypesOK, Followed
<1> QED BY <1>1, ReleaseOK DEF Shorter

\* One place moves.
LEMMA OnePlaceKept ==
  ASSUME TransferInv, Handled, NEW p \in Providers, Domains', OnlyAt(p), NextPlaceOK(p)
  PROVE  TransferInv'
<1>1. FilesInv' /\ OnePending' /\ Unmade' \in SUBSET Unmade /\ Unmade \in SUBSET Ids
  BY RequestsKeep DEF TransferInv
<1>2. \A q \in Providers \ {p} :
        PlaceOK(Unmade', receiving[q], serving[q], sendings[q], wire[q], links[q])
  BY <1>1, SamePlaceOK DEF TransferInv
<1>3. \A q \in Providers :
        PlaceOK(Unmade', receiving'[q], serving'[q], sendings'[q], wire'[q], links'[q])
  BY <1>2 DEF OnlyAt, NextPlaceOK
<1>4. (\A q \in Providers : PlaceOK(Unmade, receiving[q], serving[q], sendings[q], wire[q], links[q]))'
  BY <1>3
<1> QED BY <1>1, <1>4 DEF TransferInv

\* No place moves.
LEMMA NoPlaceMoves ==
  ASSUME TransferInv, Handled, UNCHANGED <<receiving, serving, sendings, wire, links>>
  PROVE  TransferInv'
<1>1. FilesInv' /\ OnePending' /\ Unmade' \in SUBSET Unmade /\ Unmade \in SUBSET Ids
  BY RequestsKeep DEF TransferInv
<1>2. \A q \in Providers :
        PlaceOK(Unmade', receiving[q], serving[q], sendings[q], wire[q], links[q])
  BY <1>1, SamePlaceOK DEF TransferInv
<1>3. \A q \in Providers :
        PlaceOK(Unmade', receiving'[q], serving'[q], sendings'[q], wire'[q], links'[q])
  BY <1>2
<1>4. (\A q \in Providers : PlaceOK(Unmade, receiving[q], serving[q], sendings[q], wire[q], links[q]))'
  BY <1>3
<1>5. Domains'
  BY DEF TransferInv, Domains
<1> QED BY <1>1, <1>4, <1>5 DEF TransferInv

\* A place before a step.
LEMMA PlaceNow ==
  ASSUME TransferInv, Handled, NEW p \in Providers
  PROVE  /\ PlaceOK(Unmade, receiving[p], serving[p], sendings[p], wire[p], links[p])
         /\ Domains /\ Unmade \in SUBSET Ids /\ Unmade' \in SUBSET Unmade
         /\ TypesOK(receiving[p], serving[p], sendings[p], wire[p], links[p])
         /\ ~links[p].up => links[p].lost
<1>1. Unmade \in SUBSET Ids /\ Unmade' \in SUBSET Unmade
  BY RequestsKeep DEF TransferInv
<1> QED BY <1>1 DEF TransferInv, PlaceOK, Followed

\* A wire with other requests or rejections.
LEMMA WireChanged ==
  ASSUME NEW w \in Wire
  PROVE  /\ \A a \in Seq(Ids) : /\ [w EXCEPT !.asks = a] \in Wire
                                /\ [w EXCEPT !.asks = a].asks = a
                                /\ [w EXCEPT !.asks = a].rejects = w.rejects
                                /\ [w EXCEPT !.asks = a].content = w.content
         /\ \A a \in Seq(Ids) : /\ [w EXCEPT !.rejects = a] \in Wire
                                /\ [w EXCEPT !.rejects = a].asks = w.asks
                                /\ [w EXCEPT !.rejects = a].content = w.content
BY DEF Wire

\* A rejection may be sent.
LEMMA RejectingWire ==
  ASSUME NEW W, NEW p, NEW r \in Ids, DOMAIN W = Providers, p \in Providers, W[p] \in Wire
  PROVE  /\ DOMAIN Rejecting(W, p, r) = Providers
         /\ Rejecting(W, p, r)[p] \in Wire
         /\ Rejecting(W, p, r)[p].asks = W[p].asks /\ Rejecting(W, p, r)[p].content = W[p].content
         /\ \A q \in Providers \ {p} : Rejecting(W, p, r)[q] = W[q]
<1>1. CASE ~links[p].up
  BY <1>1 DEF Rejecting
<1>2. CASE links[p].up
  <2> DEFINE w == W[p]
             a == Append(w.rejects, r)
  <2>1. a \in Seq(Ids)
    BY DEF Wire
  <2>2. Rejecting(W, p, r) = [W EXCEPT ![p].rejects = a]
    BY <1>2 DEF Rejecting
  <2> HIDE DEF a
  <2>3. /\ [w EXCEPT !.rejects = a] \in Wire
        /\ [w EXCEPT !.rejects = a].asks = w.asks
        /\ [w EXCEPT !.rejects = a].content = w.content
    BY <2>1, WireChanged
  <2>4. Rejecting(W, p, r)[p] = [w EXCEPT !.rejects = a]
    BY <2>2
  <2>5. DOMAIN Rejecting(W, p, r) = Providers /\ \A q \in Providers \ {p} : Rejecting(W, p, r)[q] = W[q]
    BY <2>2
  <2> QED BY <2>3, <2>4, <2>5
<1> QED BY <1>1, <1>2

\* requestFile puts a request on the wire, for the first time.
LEMMA RequestFilePlaces ==
  ASSUME TransferInv, Handled, NEW r \in Ids, NEW p \in Providers, RequestFile(r, p)
  PROVE  TransferInv'
<1>1. CASE UNCHANGED wire
  BY <1>1, NoPlaceMoves DEF RequestFile
<1>2. CASE wire' = [wire EXCEPT ![p].asks = Append(@, r)]
           /\ requests' = [requests EXCEPT ![r] = [to |-> p, state |-> "pending", timer |-> TRUE, verifying |-> FALSE]]
  <2>1. r \in Unmade /\ r \notin Unmade'
    BY <1>2 DEF RequestFile, Unmade, TransferInv, FilesInv
  <2>2. wire'[p] = [wire[p] EXCEPT !.asks = Append(@, r)] /\ DOMAIN wire' = Providers
        /\ \A q \in Providers \ {p} : wire'[q] = wire[q]
    BY <1>2 DEF TransferInv, Domains
  <2>3. PlaceOK(Unmade', receiving[p], serving[p], sendings[p], wire'[p], links[p])
    BY <2>1, <2>2, PlaceNow, AskingOK
  <2>4. UNCHANGED <<receiving, serving, sendings, links>>
    BY DEF RequestFile
  <2>5. Domains' /\ OnlyAt(p) /\ NextPlaceOK(p)
    BY <2>2, <2>3, <2>4, PlaceNow DEF Domains, OnlyAt, NextPlaceOK
  <2> QED BY <2>5, OnePlaceKept
<1> QED BY <1>1, <1>2 DEF RequestFile

\* A rejection leaves the wire.
LEMMA ReceiveRejectionPlaces ==
  ASSUME TransferInv, Handled, NEW p \in Providers, ReceiveRejection(p)
  PROVE  TransferInv'
<1> DEFINE w == wire[p]
           a == Tail(w.rejects)
<1>1. UNCHANGED <<receiving, serving, sendings, links>> /\ wire' = [wire EXCEPT ![p].rejects = a] /\ w.rejects # <<>>
  BY DEF ReceiveRejection
<1>2. w \in Wire /\ links[p] \in LinkState
  BY PlaceNow DEF TypesOK
<1>3. a \in Seq(Ids)
  <2>1. w.rejects \in Seq(Ids)
    BY <1>2 DEF Wire
  <2> QED BY <1>1, <2>1
<1> HIDE DEF a
<1>4. wire'[p] \in Wire /\ wire'[p].asks = w.asks /\ wire'[p].content = w.content
      /\ DOMAIN wire' = Providers /\ \A q \in Providers \ {p} : wire'[q] = wire[q]
  <2>1. wire'[p] = [w EXCEPT !.rejects = a] /\ DOMAIN wire' = Providers
        /\ \A q \in Providers \ {p} : wire'[q] = wire[q]
    BY <1>1, PlaceNow DEF Domains
  <2> QED BY <1>2, <1>3, <2>1, WireChanged
<1>5. PlaceOK(Unmade', receiving[p], serving[p], sendings[p], wire'[p], links[p])
  BY <1>2, <1>4, PlaceNow, ReleaseOK DEF Shorter
<1>6. Domains' /\ OnlyAt(p) /\ NextPlaceOK(p)
  BY <1>1, <1>4, <1>5, PlaceNow DEF Domains, OnlyAt, NextPlaceOK
<1> QED BY <1>6, OnePlaceKept

\* A frame leaves the wire.
LEMMA ReceiveFramePlaces ==
  ASSUME TransferInv, Handled, NEW p \in Providers, ReceiveFrame(p)
  PROVE  TransferInv'
<1> DEFINE w == wire[p]
           rec == receiving[p]
           f == Head(w.content)
<1>1. /\ UNCHANGED <<serving, sendings, links>>
      /\ wire' = [wire EXCEPT ![p].content = Tail(@)]
      /\ w.content # <<>> /\ rec.handling = None
  BY DEF ReceiveFrame
<1>2. /\ DOMAIN receiving' = Providers /\ \A q \in Providers \ {p} : receiving'[q] = receiving[q]
      /\ \/ f.type = "start" /\ rec.incoming = None
              /\ receiving'[p] = [rec EXCEPT !.incoming = [request |-> f.request, receivedChunks |-> 0]]
         \/ receiving'[p] = rec /\ (f.type = "complete" => rec.incoming = None \/ rec.incoming.request # f.request)
         \/ f.type = "chunk" /\ rec.incoming # None /\ rec.incoming.request = f.request
              /\ receiving'[p] = [rec EXCEPT !.handling = f]
         \/ f.type = "complete" /\ receiving'[p] \in {[rec EXCEPT !.incoming = None, !.handling = f],
                                                      [rec EXCEPT !.incoming = None]}
  <2>1. DOMAIN receiving = Providers
    BY PlaceNow DEF Domains
  <2>2. CASE f.type = "start" /\ Start(p, f.request)
    BY <2>1, <2>2 DEF Start
  <2>3. CASE f.type # "start" /\ ~Belongs(p, f) /\ UNCHANGED receiving
    BY <2>1, <2>3 DEF Belongs
  <2>4. CASE f.type = "chunk" /\ Belongs(p, f) /\ receiving' = [receiving EXCEPT ![p].handling = f]
    BY <2>1, <2>4 DEF Belongs
  <2>5. CASE f.type = "complete" /\ \/ receiving' = [receiving EXCEPT ![p] = [Completed(p) EXCEPT !.handling = f]]
                                    \/ receiving' = [receiving EXCEPT ![p] = Completed(p)]
    BY <2>1, <2>5 DEF Completed
  <2>6. \/ f.type = "start" /\ Start(p, f.request)
        \/ f.type # "start" /\ ~Belongs(p, f) /\ UNCHANGED receiving
        \/ f.type = "chunk" /\ Belongs(p, f) /\ receiving' = [receiving EXCEPT ![p].handling = f]
        \/ f.type = "complete" /\ \/ receiving' = [receiving EXCEPT ![p] = [Completed(p) EXCEPT !.handling = f]]
                                  \/ receiving' = [receiving EXCEPT ![p] = Completed(p)]
    BY DEF ReceiveFrame
  <2> QED BY <2>2, <2>3, <2>4, <2>5, <2>6
<1>3. wire'[p] = [w EXCEPT !.content = Tail(@)] /\ DOMAIN wire' = Providers
      /\ \A q \in Providers \ {p} : wire'[q] = wire[q]
  BY <1>1, PlaceNow DEF Domains
<1>5. PlaceOK(Unmade', receiving'[p], serving[p], sendings[p], wire'[p], links[p])
  <2> DEFINE rec1 == receiving'[p]
             U1 == Unmade'
  <2>1. U1 \in SUBSET Unmade
    BY PlaceNow
  <2> HIDE DEF rec1, U1
  <2>2. PlaceOK(U1, rec1, serving[p], sendings[p], [w EXCEPT !.content = Tail(@)], links[p])
    BY <1>1, <1>2, <2>1, PlaceNow, ArrivalOK DEF rec1
  <2> QED BY <1>3, <2>2 DEF rec1, U1
<1>6. Domains' /\ OnlyAt(p) /\ NextPlaceOK(p)
  BY <1>1, <1>2, <1>3, <1>5, PlaceNow DEF Domains, OnlyAt, NextPlaceOK
<1> QED BY <1>6, OnePlaceKept

\* The requester counts a chunk, or is done with a complete.
LEMMA FrameVerifiedPlaces ==
  ASSUME TransferInv, Handled, NEW p \in Providers, FrameVerified(p)
  PROVE  TransferInv'
<1>1. UNCHANGED <<serving, sendings, wire, links>> /\ receiving[p].handling # None
  BY DEF FrameVerified
<1>2. /\ receiving'[p] = Verified(receiving[p])
      /\ DOMAIN receiving' = Providers /\ \A q \in Providers \ {p} : receiving'[q] = receiving[q]
  BY PlaceNow DEF FrameVerified, Verified, Domains
<1>3. PlaceOK(Unmade', receiving'[p], serving[p], sendings[p], wire[p], links[p])
  BY <1>1, <1>2, PlaceNow, VerifiedOK
<1>4. Domains' /\ OnlyAt(p) /\ NextPlaceOK(p)
  BY <1>1, <1>2, <1>3, PlaceNow DEF Domains, OnlyAt, NextPlaceOK
<1> QED BY <1>4, OnePlaceKept

\* The provider takes a request, or refuses it.
LEMMA ReceiveRequestPlaces ==
  ASSUME TransferInv, Handled, NEW p \in Providers, ReceiveRequest(p)
  PROVE  TransferInv'
<1> DEFINE w == wire[p]
           r == Head(w.asks)
           a == Tail(w.asks)
           taken == [wire EXCEPT ![p].asks = a]
           w1 == [w EXCEPT !.asks = a]
           srv1 == [request |-> r, state |-> "waiting"]
<1>1. /\ UNCHANGED <<receiving, sendings, links>> /\ w.asks # <<>>
      /\ \/ wire' = Rejecting(taken, p, r) /\ UNCHANGED serving
         \/ wire' = taken /\ serving[p] = None /\ serving' = [serving EXCEPT ![p] = srv1]
         \/ wire' = taken /\ UNCHANGED serving
  BY DEF ReceiveRequest
<1>2. w \in Wire /\ links[p] \in LinkState
  BY PlaceNow DEF TypesOK
<1>3. a \in Seq(Ids) /\ r \in Ids
  <2>1. w.asks \in Seq(Ids)
    BY <1>2 DEF Wire
  <2> QED BY <1>1, <2>1
<1>4. /\ taken[p] = w1 /\ DOMAIN taken = Providers
      /\ \A q \in Providers \ {p} : taken[q] = wire[q]
  BY PlaceNow DEF Domains
<1> HIDE DEF taken, r, a
<1>5. w1 \in Wire /\ w1.asks = a /\ w1.content = w.content
  BY <1>2, <1>3, WireChanged
<1> HIDE DEF w1
<1>6. CASE serving' = serving
  <2>1. /\ wire'[p] \in Wire /\ wire'[p].asks = a /\ wire'[p].content = w.content
        /\ DOMAIN wire' = Providers /\ \A q \in Providers \ {p} : wire'[q] = wire[q]
    <3>1. CASE wire' = taken
      BY <1>4, <1>5, <3>1
    <3>2. CASE wire' = Rejecting(taken, p, r)
      BY <1>3, <1>4, <1>5, <3>2, RejectingWire
    <3>3. wire' = taken \/ wire' = Rejecting(taken, p, r)
      BY <1>1
    <3> QED BY <3>1, <3>2, <3>3
  <2>2. PlaceOK(Unmade', receiving[p], serving[p], sendings[p], wire'[p], links[p])
    BY <1>1, <1>2, <2>1, PlaceNow, ReleaseOK DEF Shorter, a
  <2>3. Domains' /\ OnlyAt(p) /\ NextPlaceOK(p)
    BY <1>1, <1>6, <2>1, <2>2, PlaceNow DEF Domains, OnlyAt, NextPlaceOK
  <2> QED BY <2>3, OnePlaceKept
<1>7. CASE wire' = taken /\ serving[p] = None /\ serving' = [serving EXCEPT ![p] = srv1]
  <2>1. /\ serving'[p] = srv1 /\ DOMAIN serving' = Providers
        /\ \A q \in Providers \ {p} : serving'[q] = serving[q]
    BY <1>7, PlaceNow DEF Domains
  <2>2. PlaceOK(Unmade', receiving[p], srv1, sendings[p], w1, links[p])
    <3> DEFINE U1 == Unmade'
    <3>1. U1 \in SUBSET Unmade /\ Unmade \in SUBSET Ids
          /\ PlaceOK(Unmade, receiving[p], None, sendings[p], w, links[p])
      BY <1>7, PlaceNow
    <3> HIDE DEF U1
    <3> USE DEF w1, a, r
    <3>2. PlaceOK(U1, receiving[p], srv1, sendings[p], w1, links[p])
      BY <1>1, <3>1, AcceptingOK
    <3> QED BY <3>2 DEF U1
  <2>3. Domains' /\ OnlyAt(p) /\ NextPlaceOK(p)
    BY <1>1, <1>4, <1>7, <2>1, <2>2, PlaceNow DEF Domains, OnlyAt, NextPlaceOK
  <2> QED BY <2>3, OnePlaceKept
<1> QED BY <1>1, <1>6, <1>7

\* The provider begins to send.
LEMMA SendFilePlaces ==
  ASSUME TransferInv, Handled, NEW p \in Providers, SendFile(p)
  PROVE  TransferInv'
<1> DEFINE srv == serving[p]
           srv1 == [srv EXCEPT !.state = "sending"]
           snd1 == sendings[p] \cup {[request |-> srv.request, next |-> 0]}
<1>1. /\ UNCHANGED <<receiving, wire, links>> /\ srv # None /\ srv.state = "waiting"
      /\ serving' = [serving EXCEPT ![p] = srv1] /\ sendings' = [sendings EXCEPT ![p] = snd1]
  BY DEF SendFile
<1>2. PlaceOK(Unmade', receiving[p], srv1, snd1, wire[p], links[p])
  <2> DEFINE U1 == Unmade'
  <2>1. U1 \in SUBSET Unmade
    BY PlaceNow
  <2> HIDE DEF U1
  <2>2. PlaceOK(U1, receiving[p], srv1, snd1, wire[p], links[p])
    BY <1>1, <2>1, PlaceNow, SendingOK
  <2> QED BY <2>2 DEF U1
<1> HIDE DEF srv1, snd1
<1>3. /\ serving'[p] = srv1 /\ DOMAIN serving' = Providers
      /\ \A q \in Providers \ {p} : serving'[q] = serving[q]
      /\ sendings'[p] = snd1 /\ DOMAIN sendings' = Providers
      /\ \A q \in Providers \ {p} : sendings'[q] = sendings[q]
  BY <1>1, PlaceNow DEF Domains
<1>4. Domains' /\ OnlyAt(p) /\ NextPlaceOK(p)
  BY <1>1, <1>2, <1>3, PlaceNow DEF Domains, OnlyAt, NextPlaceOK
<1> QED BY <1>4, OnePlaceKept

\* What ReleaseOK says of a place of the state.
LEMMA PlaceReleased ==
  ASSUME TransferInv, Handled, NEW p \in Providers, NEW U1 \in SUBSET Unmade,
         NEW srv1, srv1 = serving[p] \/ srv1 = None, NEW w1 \in Wire, NEW lnk1 \in LinkState,
         w1.content = wire[p].content, w1.asks = wire[p].asks,
         ~lnk1.up => lnk1.lost, links[p].lost => lnk1.lost
  PROVE  PlaceOK(U1, receiving[p], srv1, sendings[p], w1, lnk1)
<1>1. PlaceOK(Unmade, receiving[p], serving[p], sendings[p], wire[p], links[p]) /\ Unmade \in SUBSET Ids
  BY PlaceNow
<1>2. Shorter(wire[p].asks, w1.asks)
  BY DEF Shorter
<1> QED BY <1>1, <1>2, ReleaseOK

\* The entry of a request is removed, the link or nothing else changes, and a
\* rejection may be sent.
LEMMA ReleasePlaces ==
  ASSUME TransferInv, Handled, NEW p \in Providers, UNCHANGED <<receiving, sendings>>,
         \/ UNCHANGED serving
         \/ serving' = [serving EXCEPT ![p] = None],
         \/ UNCHANGED wire
         \/ serving[p] # None /\ wire' = Rejecting(wire, p, serving[p].request),
         \/ UNCHANGED links
         \/ links' = [links EXCEPT ![p].up = TRUE]
         \/ links' = [links EXCEPT ![p].open = FALSE]
  PROVE  TransferInv'
<1>1. /\ wire[p] \in Wire /\ links[p] \in LinkState /\ (serving[p] # None => serving[p].request \in Ids)
      /\ (~links[p].up => links[p].lost)
  <2>1. /\ wire[p] \in Wire /\ links[p] \in LinkState /\ (serving[p] # None => serving[p] \in Serving)
        /\ (~links[p].up => links[p].lost)
    BY PlaceNow DEF TypesOK
  <2> QED BY <2>1 DEF Serving
<1>2. /\ serving'[p] \in {serving[p], None} /\ DOMAIN serving' = Providers
      /\ \A q \in Providers \ {p} : serving'[q] = serving[q]
  BY PlaceNow DEF Domains
<1>3. /\ wire'[p] \in Wire /\ wire'[p].asks = wire[p].asks /\ wire'[p].content = wire[p].content
      /\ DOMAIN wire' = Providers /\ \A q \in Providers \ {p} : wire'[q] = wire[q]
  <2>1. CASE UNCHANGED wire
    BY <1>1, <2>1, PlaceNow DEF Domains
  <2>2. CASE serving[p] # None /\ wire' = Rejecting(wire, p, serving[p].request)
    BY <1>1, <2>2, PlaceNow, RejectingWire DEF Domains
  <2> QED BY <2>1, <2>2
<1>4. /\ links'[p] \in LinkState /\ (~links'[p].up => links'[p].lost) /\ links'[p].lost = links[p].lost
      /\ DOMAIN links' = Providers /\ \A q \in Providers \ {p} : links'[q] = links[q]
  <2>1. DOMAIN links = Providers
    BY PlaceNow DEF Domains
  <2>2. links'[p] \in {links[p], [links[p] EXCEPT !.up = TRUE], [links[p] EXCEPT !.open = FALSE]}
        /\ DOMAIN links' = Providers /\ \A q \in Providers \ {p} : links'[q] = links[q]
    BY <2>1
  <2>3. /\ [links[p] EXCEPT !.up = TRUE] \in LinkState
        /\ [links[p] EXCEPT !.up = TRUE].up /\ [links[p] EXCEPT !.up = TRUE].lost = links[p].lost
    BY <1>1 DEF LinkState
  <2>4. /\ [links[p] EXCEPT !.open = FALSE] \in LinkState
        /\ [links[p] EXCEPT !.open = FALSE].up = links[p].up
        /\ [links[p] EXCEPT !.open = FALSE].lost = links[p].lost
    BY <1>1 DEF LinkState
  <2> QED BY <1>1, <2>2, <2>3, <2>4
<1>5. PlaceOK(Unmade', receiving[p], serving'[p], sendings[p], wire'[p], links'[p])
  <2> DEFINE U1 == Unmade'
             srv1 == serving'[p]
             w1 == wire'[p]
             lnk1 == links'[p]
  <2>1. /\ U1 \in SUBSET Unmade /\ (srv1 = serving[p] \/ srv1 = None) /\ w1 \in Wire /\ lnk1 \in LinkState
        /\ w1.content = wire[p].content /\ w1.asks = wire[p].asks
        /\ (~lnk1.up => lnk1.lost) /\ (links[p].lost => lnk1.lost)
    BY <1>2, <1>3, <1>4, PlaceNow
  <2> HIDE DEF U1, srv1, w1, lnk1
  <2>2. PlaceOK(U1, receiving[p], srv1, sendings[p], w1, lnk1)
    BY <2>1, PlaceReleased
  <2> QED BY <2>2 DEF U1, srv1, w1, lnk1
<1>6. Domains' /\ OnlyAt(p) /\ NextPlaceOK(p)
  BY <1>2, <1>3, <1>4, <1>5, PlaceNow DEF Domains, OnlyAt, NextPlaceOK
<1> QED BY <1>6, OnePlaceKept

\* A sending fails.
LEMMA SendFailedPlaces ==
  ASSUME TransferInv, Handled, NEW p \in Providers, NEW x \in sendings[p], SendFailed(p, x)
  PROVE  TransferInv'
<1> DEFINE srv1 == IF serving[p] # None /\ serving[p].request = x.request THEN None ELSE serving[p]
           snd1 == sendings[p] \ {x}
<1>1. /\ UNCHANGED <<receiving, links>> /\ (x.next = 0 \/ ~links[p].up)
      /\ sendings' = [sendings EXCEPT ![p] = snd1] /\ serving' = [serving EXCEPT ![p] = srv1]
      /\ wire' = Rejecting(wire, p, x.request)
  BY DEF SendFailed, Freed
<1>2. wire[p] \in Wire /\ x.request \in Ids
  <2>1. wire[p] \in Wire /\ sendings[p] \in SUBSET Sending
    BY PlaceNow DEF TypesOK
  <2> QED BY <2>1 DEF Sending
<1> HIDE DEF srv1, snd1
<1>3. /\ wire'[p] \in Wire /\ wire'[p].asks = wire[p].asks /\ wire'[p].content = wire[p].content
      /\ DOMAIN wire' = Providers /\ \A q \in Providers \ {p} : wire'[q] = wire[q]
  BY <1>1, <1>2, PlaceNow, RejectingWire DEF Domains
<1>4. /\ serving'[p] = srv1 /\ DOMAIN serving' = Providers
      /\ \A q \in Providers \ {p} : serving'[q] = serving[q]
      /\ sendings'[p] = snd1 /\ DOMAIN sendings' = Providers
      /\ \A q \in Providers \ {p} : sendings'[q] = sendings[q]
  BY <1>1, PlaceNow DEF Domains
<1>5. PlaceOK(Unmade', receiving[p], srv1, snd1, wire'[p], links[p])
  <2> DEFINE U1 == Unmade'
             w1 == wire'[p]
  <2>1. U1 \in SUBSET Unmade /\ w1 \in Wire /\ w1.asks = wire[p].asks /\ w1.content = wire[p].content
    BY <1>3, PlaceNow
  <2> HIDE DEF U1, w1
  <2>2. PlaceOK(U1, receiving[p], srv1, snd1, w1, links[p])
    BY <1>1, <2>1, PlaceNow, FailingOK DEF srv1, snd1
  <2> QED BY <2>2 DEF U1, w1
<1>6. Domains' /\ OnlyAt(p) /\ NextPlaceOK(p)
  BY <1>1, <1>3, <1>4, <1>5, PlaceNow DEF Domains, OnlyAt, NextPlaceOK
<1> QED BY <1>6, OnePlaceKept

\* A sending goes on, or ends.
LEMMA SendNextPlaces ==
  ASSUME TransferInv, ClosedLoses, Handled, NEW p \in Providers, NEW x \in sendings[p], SendNext(p, x)
  PROVE  TransferInv'
<1> DEFINE r == x.request
           y == [x EXCEPT !.next = x.next + 1]
           done == x.next = Chunks + 2
           w == wire[p]
           s1 == IF x.next = 0 THEN w.content
                 ELSE Append(w.content, IF x.next = 1 THEN StartOf(r) ELSE IF done THEN CompleteOf(r) ELSE ChunkOf(r))
           w1 == [w EXCEPT !.content = s1]
           srv1 == IF done THEN IF serving[p] # None /\ serving[p].request = r THEN None ELSE serving[p]
                   ELSE serving[p]
           snd1 == IF done THEN sendings[p] \ {x} ELSE (sendings[p] \ {x}) \cup {y}
<1>1. /\ x \in Sending /\ x.next \in 0 .. Chunks + 2 /\ x.next \in Nat /\ r \in Ids /\ Chunks \in Nat
      /\ w \in Wire /\ DOMAIN wire = Providers /\ DOMAIN sendings = Providers /\ DOMAIN serving = Providers
  <2>1. w \in Wire /\ sendings[p] \in SUBSET Sending
    BY PlaceNow DEF TypesOK
  <2> QED BY <2>1, PlaceNow, FilesAssumption DEF Sending, Domains
<1>2. UNCHANGED <<receiving, links>>
  BY DEF SendNext
<1>3. sendings'[p] = snd1 /\ DOMAIN sendings' = Providers
      /\ \A q \in Providers \ {p} : sendings'[q] = sendings[q]
  BY <1>1 DEF SendNext
<1>4. serving'[p] = srv1 /\ DOMAIN serving' = Providers
      /\ \A q \in Providers \ {p} : serving'[q] = serving[q]
  BY <1>1 DEF SendNext, Freed
<1>5. wire'[p] = (IF closed THEN w ELSE w1) /\ DOMAIN wire' = Providers
      /\ \A q \in Providers \ {p} : wire'[q] = wire[q]
  <2>1. CASE x.next = 0 /\ ~closed
    <3>1. wire' = wire /\ w1 = w
      BY <1>1, <2>1 DEF SendNext, Wire
    <3> QED BY <1>1, <3>1
  <2>2. CASE ~closed /\ x.next # 0 /\ x.next = 1 /\ ~done
    BY <1>1, <2>2 DEF SendNext, StartOf
  <2>3. CASE ~closed /\ x.next # 0 /\ x.next # 1 /\ done
    BY <1>1, <2>3 DEF SendNext, CompleteOf
  <2>4. CASE ~closed /\ x.next # 0 /\ x.next # 1 /\ ~done
    BY <1>1, <2>4 DEF SendNext, ChunkOf
  <2>5. CASE closed
    BY <1>1, <2>5 DEF SendNext
  <2> QED BY <1>1, <2>1, <2>2, <2>3, <2>4, <2>5
<1>6. PlaceOK(Unmade', receiving[p], srv1, snd1, w1, links[p])
  <2> DEFINE U1 == Unmade'
  <2>1. U1 \in SUBSET Unmade
    BY PlaceNow
  <2> HIDE DEF U1
  <2>2. CASE done
    <3>1. /\ srv1 = IF serving[p] # None /\ serving[p].request = x.request THEN None ELSE serving[p]
          /\ snd1 = sendings[p] \ {x}
          /\ w1 = [w EXCEPT !.content = Append(@, CompleteOf(x.request))]
      BY <1>1, <2>2
    <3> HIDE DEF srv1, snd1, w1
    <3>2. PlaceOK(U1, receiving[p], srv1, snd1, w1, links[p])
      BY <2>1, <3>1, PlaceNow, EndingOK
    <3> QED BY <3>2 DEF U1
  <2>3. CASE ~done
    <3>1. y \in Sending /\ y.request = x.request /\ y.next = x.next + 1
      BY <1>1, <2>3 DEF Sending
    <3>2. \/ x.next = 0 /\ s1 = w.content
          \/ x.next = 1 /\ s1 = Append(w.content, StartOf(x.request))
          \/ x.next >= 2 /\ s1 = Append(w.content, ChunkOf(x.request))
      BY <1>1, <2>3
    <3>3. srv1 = serving[p] /\ snd1 = (sendings[p] \ {x}) \cup {y}
      BY <2>3
    <3> HIDE DEF srv1, snd1, y, s1
    <3>4. PlaceOK(U1, receiving[p], srv1, snd1, [w EXCEPT !.content = s1], links[p])
      BY <2>1, <3>1, <3>2, <3>3, PlaceNow, SteppingOK
    <3> QED BY <3>4 DEF U1
  <2> QED BY <2>2, <2>3
<1>7. s1 \in {w.content} \cup {Append(w.content, f) : f \in Frame} /\ w.content \in Seq(Frame)
  <2>1. {StartOf(r), CompleteOf(r), ChunkOf(r)} \subseteq Frame
    BY <1>1 DEF Frame, StartOf, CompleteOf, ChunkOf
  <2> QED BY <1>1, <2>1 DEF Wire
<1>8. w1 \in Wire /\ w1.content = s1 /\ [w1 EXCEPT !.content = w.content] = w
  <2>1. s1 \in Seq(Frame)
    BY <1>7
  <2> QED BY <1>1, <2>1 DEF Wire
<1> HIDE DEF srv1, snd1, s1, w1
<1>9. PlaceOK(Unmade', receiving[p], srv1, snd1, IF closed THEN w ELSE w1, links[p])
  <2> DEFINE U1 == Unmade'
  <2>1. U1 \in SUBSET Ids
    BY PlaceNow
  <2> HIDE DEF U1
  <2>2. CASE closed
    <3>1. links[p] \in LinkState /\ links[p].lost
      BY <2>2, PlaceNow DEF TypesOK, ClosedLoses
    <3>2. Len(w.content) \in 0 .. Len(w1.content) /\ SubSeq(w1.content, 1, Len(w.content)) = w.content
      BY <1>7, <1>8, LastLost
    <3>3. PlaceOK(U1, receiving[p], srv1, snd1, [w1 EXCEPT !.content = SubSeq(w1.content, 1, Len(w.content))], links[p])
      BY <1>6, <2>1, <3>1, <3>2, DroppingOK DEF U1
    <3> QED BY <1>8, <2>2, <3>2, <3>3 DEF U1
  <2> QED BY <1>6, <2>2
<1>10. Domains' /\ OnlyAt(p) /\ NextPlaceOK(p)
  BY <1>2, <1>3, <1>4, <1>5, <1>9, PlaceNow DEF Domains, OnlyAt, NextPlaceOK
<1> QED BY <1>10, OnePlaceKept

\* A link is lost.
LEMMA LinkDownPlaces ==
  ASSUME TransferInv, Handled, NEW p \in Providers, LinkDown(p)
  PROVE  TransferInv'
<1>1. PICK k \in 0 .. Len(wire[p].content) :
        wire' = [wire EXCEPT ![p] = [asks |-> <<>>, rejects |-> <<>>, content |-> SubSeq(@.content, 1, k)]]
  BY DEF LinkDown
<1> DEFINE w1 == [asks |-> <<>>, rejects |-> <<>>, content |-> SubSeq(wire[p].content, 1, k)]
           lnk1 == [links[p] EXCEPT !.up = FALSE, !.lost = TRUE]
<1>2. UNCHANGED <<receiving, serving, sendings>>
  BY DEF LinkDown
<1>3. /\ wire'[p] = w1 /\ DOMAIN wire' = Providers
      /\ \A q \in Providers \ {p} : wire'[q] = wire[q]
  BY <1>1, PlaceNow DEF Domains
<1>4. /\ links'[p] = lnk1 /\ DOMAIN links' = Providers
      /\ \A q \in Providers \ {p} : links'[q] = links[q]
  BY PlaceNow DEF LinkDown, Domains
<1>5. PlaceOK(Unmade', receiving[p], serving[p], sendings[p], w1, lnk1)
  <2> DEFINE U1 == Unmade'
  <2>1. U1 \in SUBSET Unmade
    BY PlaceNow
  <2> HIDE DEF U1
  <2>2. PlaceOK(U1, receiving[p], serving[p], sendings[p], w1, lnk1)
    BY <2>1, PlaceNow, LosingOK
  <2> QED BY <2>2 DEF U1
<1> HIDE DEF w1, lnk1
<1>6. Domains' /\ OnlyAt(p) /\ NextPlaceOK(p)
  BY <1>2, <1>3, <1>4, <1>5, PlaceNow DEF Domains, OnlyAt, NextPlaceOK
<1> QED BY <1>6, OnePlaceKept

\* close() gives up every transfer, and loses what it has not queued.
LEMMA CloseRequesterPlaces ==
  ASSUME TransferInv, Handled, CloseRequester
  PROVE  TransferInv'
<1>1. FilesInv' /\ OnePending' /\ Unmade' \in SUBSET Unmade /\ Unmade \in SUBSET Ids
  BY RequestsKeep DEF TransferInv
<1>2. PICK queued \in [Providers -> UNION {0 .. Len(wire[p].content) : p \in Providers}] :
        /\ \A p \in Providers : queued[p] <= Len(wire[p].content)
        /\ wire' = [p \in Providers |-> [wire[p] EXCEPT !.content = SubSeq(@, 1, queued[p])]]
  BY DEF CloseRequester
<1>3. /\ UNCHANGED <<serving, sendings>>
      /\ receiving' = [p \in Providers |-> [receiving[p] EXCEPT !.incoming = None]]
      /\ links' = [p \in Providers |-> [links[p] EXCEPT !.lost = TRUE]]
  BY DEF CloseRequester
<1>4. ASSUME NEW q \in Providers
      PROVE  PlaceOK(Unmade', receiving'[q], serving'[q], sendings'[q], wire'[q], links'[q])
  <2> DEFINE rec == [receiving[q] EXCEPT !.incoming = None]
             lnk == [links[q] EXCEPT !.lost = TRUE]
             U1 == Unmade'
  <2>1. PlaceOK(U1, rec, serving[q], sendings[q], wire[q], links[q])
    BY <1>1, GivingUpOK DEF TransferInv
  <2>2. lnk \in LinkState /\ lnk.lost
    BY <2>1 DEF PlaceOK, TypesOK, LinkState
  <2>3. queued[q] \in 0 .. Len(wire[q].content) /\ U1 \in SUBSET Ids
    <3>1. wire[q].content \in Seq(Frame)
      BY <2>1 DEF PlaceOK, TypesOK, Wire
    <3>2. \A p \in Providers : 0 .. Len(wire[p].content) \subseteq Nat
      <4> TAKE p \in Providers
      <4>1. wire[p].content \in Seq(Frame)
        BY DEF TransferInv, PlaceOK, TypesOK, Wire
      <4> QED BY <4>1
    <3>3. queued[q] \in Nat
      BY <1>2, <3>2
    <3> QED BY <1>1, <1>2, <3>1, <3>3
  <2> HIDE DEF rec, lnk, U1
  <2>4. PlaceOK(U1, rec, serving[q], sendings[q], [wire[q] EXCEPT !.content = SubSeq(@, 1, queued[q])], lnk)
    BY <2>1, <2>2, <2>3, DroppingOK
  <2> QED BY <1>2, <1>3, <2>4 DEF rec, lnk, U1
<1>5. (\A q \in Providers : PlaceOK(Unmade, receiving[q], serving[q], sendings[q], wire[q], links[q]))'
  BY <1>4
<1>6. Domains'
  BY <1>2, <1>3 DEF TransferInv, Domains
<1> QED BY <1>1, <1>5, <1>6 DEF TransferInv

\* Nothing is under way at first.
LEMMA TransferInit == Init => TransferInv
<1> SUFFICES ASSUME Init
             PROVE  TransferInv
  OBVIOUS
<1> DEFINE rec == [incoming |-> None, handling |-> None]
           w == [asks |-> <<>>, rejects |-> <<>>, content |-> <<>>]
<1>1. FilesInv
  BY FilesInit
<1>2. OnePending /\ Domains
  BY DEF Init, OnePending, PendingAt, Domains
<1>3. rec \in Receiving /\ rec.incoming = None /\ rec.handling = None
  BY DEF Receiving
<1>4. w \in Wire /\ w.content = <<>> /\ w.asks = <<>> /\ Len(w.asks) = 0 /\ Len(w.content) = 0
  <2>1. <<>> \in Seq(Ids) /\ <<>> \in Seq(Frame) /\ Len(<<>>) = 0
    OBVIOUS
  <2> QED BY <2>1 DEF Wire
<1> HIDE DEF rec, w
<1>5. \A q : Arriving(rec, w.content, q) = 0
  BY <1>3, <1>4, CountOfNone DEF Arriving, Held
<1>6. Chunks \in Nat
  BY FilesAssumption
<1>7. \A lnk \in LinkState : lnk.up => PlaceOK(Unmade, rec, None, {}, w, lnk)
  <2> TAKE lnk \in LinkState
  <2> HAVE lnk.up
  <2>1. TypesOK(rec, None, {}, w, lnk)
    BY <1>3, <1>4 DEF TypesOK
  <2>2. ChunksBounded(rec, {}, w.content)
    BY <1>3, <1>5, <1>6 DEF ChunksBounded
  <2>3. ServedOnce(Unmade, rec, None, {}, w)
    <3>1. 1 .. Len(w.asks) = {}
      BY <1>4
    <3>2. \A q : Unserved(rec, {}, w.content, q)
      BY <1>5 DEF Unserved
    <3> QED BY <3>1, <3>2 DEF ServedOnce
  <2>4. Followed(rec, {}, w.content, lnk)
    <3>1. \A f : Indices(w.content, f) = {}
      BY <1>4 DEF Indices
    <3> QED BY <1>3, <3>1 DEF Followed
  <2> QED BY <2>1, <2>2, <2>3, <2>4 DEF PlaceOK
<1>8. \A p \in Providers :
        /\ receiving[p] = rec /\ serving[p] = None /\ sendings[p] = {} /\ wire[p] = w
        /\ links[p] \in LinkState /\ links[p].up
  BY DEF Init, rec, w, LinkState
<1> QED BY <1>1, <1>2, <1>7, <1>8 DEF TransferInv

\* Each action keeps it.
LEMMA TransferStep == TransferInv /\ ClosedLoses /\ [FilesNext]_vars => TransferInv'
<1> SUFFICES ASSUME TransferInv, ClosedLoses, [FilesNext]_vars
             PROVE  TransferInv'
  OBVIOUS
<1>1. Handled
  BY StepHandled DEF TransferInv
<1>2. CASE CloseRequester
  BY <1>1, <1>2, CloseRequesterPlaces
<1>3. ASSUME NEW r \in Ids, RequestTimeout(r) \/ FileVerified(r)
      PROVE  TransferInv'
  BY <1>1, <1>3, NoPlaceMoves DEF RequestTimeout, FileVerified
<1>4. ASSUME NEW p \in Providers, NEW r \in Ids, RequestFile(r, p)
      PROVE  TransferInv'
  BY <1>1, <1>4, RequestFilePlaces
<1>5. ASSUME NEW p \in Providers, ReceiveRejection(p) \/ ReceiveFrame(p) \/ FrameVerified(p)
      PROVE  TransferInv'
  BY <1>1, <1>5, ReceiveRejectionPlaces, ReceiveFramePlaces, FrameVerifiedPlaces
<1>6. ASSUME NEW p \in Providers, ReceiveRequest(p) \/ SendFile(p) \/ LinkDown(p)
      PROVE  TransferInv'
  BY <1>1, <1>6, ReceiveRequestPlaces, SendFilePlaces, LinkDownPlaces
<1>7. ASSUME NEW p \in Providers, NEW x \in sendings[p], SendFailed(p, x) \/ SendNext(p, x)
      PROVE  TransferInv'
  BY <1>1, <1>7, SendFailedPlaces, SendNextPlaces
<1>8. ASSUME NEW p \in Providers, RejectRequest(p)
      PROVE  TransferInv'
  BY <1>1, <1>8, ReleasePlaces DEF RejectRequest
<1>9. ASSUME NEW p \in Providers, LinkUp(p)
      PROVE  TransferInv'
  BY <1>1, <1>9, ReleasePlaces DEF LinkUp
<1>10. ASSUME NEW p \in Providers, RequesterGone(p)
       PROVE  TransferInv'
  BY <1>1, <1>10, ReleasePlaces DEF RequesterGone
<1>11. ASSUME NEW p \in Providers, CloseProvider(p)
       PROVE  TransferInv'
  BY <1>1, <1>11, ReleasePlaces DEF CloseProvider
<1>12. ASSUME NEW p \in Providers, ProviderGone(p)
       PROVE  TransferInv'
  BY <1>1, <1>12, NoPlaceMoves DEF ProviderGone
<1>13. CASE UNCHANGED vars
  BY <1>1, <1>13, NoPlaceMoves DEF vars
<1> QED BY <1>2, <1>3, <1>4, <1>5, <1>6, <1>7, <1>8, <1>9, <1>10, <1>11, <1>12, <1>13 DEF FilesNext

\* Closed stays closed, and lost stays lost.
LEMMA ClosedInit == Init => ClosedLoses
BY DEF Init, ClosedLoses

LEMMA ClosedStep == TransferInv /\ ClosedLoses /\ [FilesNext]_vars => ClosedLoses'
<1> SUFFICES ASSUME TransferInv, ClosedLoses, [FilesNext]_vars
             PROVE  ClosedLoses'
  OBVIOUS
<1>1. DOMAIN links = Providers /\ \A p \in Providers : links[p] \in LinkState
  BY DEF TransferInv, Domains, PlaceOK, TypesOK
<1>2. CASE CloseRequester
  BY <1>1, <1>2 DEF CloseRequester, ClosedLoses, LinkState
<1>3. ASSUME UNCHANGED <<closed, links>> PROVE ClosedLoses'
  BY <1>3 DEF ClosedLoses
<1>4. ASSUME NEW p \in Providers, LinkDown(p) \/ LinkUp(p) \/ CloseProvider(p) PROVE ClosedLoses'
  <2>1. closed' = closed
    BY <1>4 DEF LinkDown, LinkUp, CloseProvider
  <2>2. links' \in {[links EXCEPT ![p].up = FALSE, ![p].lost = TRUE], [links EXCEPT ![p].up = TRUE],
                    [links EXCEPT ![p].open = FALSE]}
    BY <1>4 DEF LinkDown, LinkUp, CloseProvider
  <2>3. \A q \in Providers : links[q].lost => links'[q].lost
    BY <1>1, <2>2 DEF LinkState
  <2> QED BY <2>1, <2>3 DEF ClosedLoses
<1>5. ASSUME NEW p \in Providers,
             \/ \E r \in Ids : RequestFile(r, p)
             \/ ReceiveRejection(p) \/ ReceiveFrame(p) \/ FrameVerified(p)
             \/ ReceiveRequest(p) \/ SendFile(p) \/ RejectRequest(p)
             \/ \E x \in sendings[p] : SendFailed(p, x) \/ SendNext(p, x)
             \/ ProviderGone(p) \/ RequesterGone(p)
      PROVE  UNCHANGED <<closed, links>>
  BY <1>5 DEF RequestFile, ReceiveRejection, ReceiveFrame, FrameVerified, ReceiveRequest, SendFile,
    RejectRequest, SendFailed, SendNext, ProviderGone, RequesterGone
<1>6. ASSUME NEW r \in Ids, RequestTimeout(r) \/ FileVerified(r) PROVE UNCHANGED <<closed, links>>
  BY <1>6 DEF RequestTimeout, FileVerified
<1>7. CASE UNCHANGED vars
  BY <1>3, <1>7 DEF vars
<1> QED BY <1>2, <1>3, <1>4, <1>5, <1>6, <1>7 DEF FilesNext

IsFunction(f) == f = [p \in Providers |-> f[p]]

\* So does one with another value at p.
LEMMA FunctionKept ==
  ASSUME NEW f, IsFunction(f), NEW p, NEW e
  PROVE  IsFunction([f EXCEPT ![p] = e])
<1>1. f = [q \in Providers |-> f[q]]
  BY DEF IsFunction
<1> DEFINE g == [q \in Providers |-> f[q]]
<1>2. [g EXCEPT ![p] = e] = [q \in Providers |-> [g EXCEPT ![p] = e][q]]
  OBVIOUS
<1> HIDE DEF g
<1> QED BY <1>1, <1>2 DEF IsFunction, g

\* Its type is that of its values.
LEMMA FunctionTyped ==
  ASSUME NEW f, IsFunction(f), NEW S, \A p \in Providers : f[p] \in S
  PROVE  f \in [Providers -> S]
<1>1. [p \in Providers |-> f[p]] \in [Providers -> S]
  OBVIOUS
<1> QED BY <1>1 DEF IsFunction

FunctionsInv == IsFunction(receiving) /\ IsFunction(links)

\* The requester's transfers and the links are functions at first,
LEMMA FunctionsInit == Init => FunctionsInv
BY DEF Init, FunctionsInv, IsFunction

\* and stay so.
LEMMA FunctionsStep == FunctionsInv /\ [FilesNext]_vars => FunctionsInv'
<1> SUFFICES ASSUME FunctionsInv, [FilesNext]_vars
             PROVE  FunctionsInv'
  OBVIOUS
<1>1. ASSUME NEW p \in Providers, ReceiveFrame(p) PROVE FunctionsInv'
  <2>1. /\ UNCHANGED links
        /\ \/ UNCHANGED receiving
           \/ \E rec : receiving' = [receiving EXCEPT ![p] = rec]
    BY <1>1 DEF ReceiveFrame, Start
  <2>2. ASSUME NEW rec, receiving' = [receiving EXCEPT ![p] = rec] PROVE IsFunction(receiving)'
    <3>1. IsFunction([receiving EXCEPT ![p] = rec])
      BY FunctionKept DEF FunctionsInv
    <3> QED BY <2>2, <3>1 DEF IsFunction
  <2> QED BY <2>1, <2>2 DEF FunctionsInv, IsFunction
<1>2. ASSUME NEW p \in Providers, FrameVerified(p) PROVE FunctionsInv'
  <2>1. UNCHANGED links /\ \E rec : receiving' = [receiving EXCEPT ![p] = rec]
    BY <1>2 DEF FrameVerified
  <2>2. ASSUME NEW rec, receiving' = [receiving EXCEPT ![p] = rec] PROVE IsFunction(receiving)'
    <3>1. IsFunction([receiving EXCEPT ![p] = rec])
      BY FunctionKept DEF FunctionsInv
    <3> QED BY <2>2, <3>1 DEF IsFunction
  <2> QED BY <2>1, <2>2 DEF FunctionsInv, IsFunction
<1>3. CASE CloseRequester
  BY <1>3 DEF CloseRequester, FunctionsInv, IsFunction
<1>4. ASSUME NEW p \in Providers, LinkDown(p) \/ LinkUp(p) \/ CloseProvider(p) PROVE FunctionsInv'
  <2>1. UNCHANGED receiving /\ \E lnk : links' = [links EXCEPT ![p] = lnk]
    BY <1>4 DEF LinkDown, LinkUp, CloseProvider
  <2>2. ASSUME NEW lnk, links' = [links EXCEPT ![p] = lnk] PROVE IsFunction(links)'
    <3>1. IsFunction([links EXCEPT ![p] = lnk])
      BY FunctionKept DEF FunctionsInv
    <3> QED BY <2>2, <3>1 DEF IsFunction
  <2> QED BY <2>1, <2>2 DEF FunctionsInv, IsFunction
<1>5. ASSUME UNCHANGED <<receiving, links>> PROVE FunctionsInv'
  BY <1>5 DEF FunctionsInv, IsFunction
<1>6. ASSUME NEW p \in Providers,
             \/ \E r \in Ids : RequestFile(r, p)
             \/ ReceiveRejection(p) \/ ReceiveRequest(p) \/ SendFile(p) \/ RejectRequest(p)
             \/ \E x \in sendings[p] : SendFailed(p, x) \/ SendNext(p, x)
             \/ ProviderGone(p) \/ RequesterGone(p)
      PROVE  UNCHANGED <<receiving, links>>
  BY <1>6 DEF RequestFile, ReceiveRejection, ReceiveRequest, SendFile, RejectRequest, SendFailed,
    SendNext, ProviderGone, RequesterGone
<1>7. ASSUME NEW r \in Ids, RequestTimeout(r) \/ FileVerified(r) PROVE UNCHANGED <<receiving, links>>
  BY <1>7 DEF RequestTimeout, FileVerified
<1>8. CASE UNCHANGED vars
  BY <1>5, <1>8 DEF vars
<1> QED BY <1>1, <1>2, <1>3, <1>4, <1>5, <1>6, <1>7, <1>8 DEF FilesNext

\* The requests, the transfers and what is on its way are what they should
\* be: no transfer has more chunks than its file (#acceptChunk), a provider
\* has one request of ours pending at most (requestFile), and none that is
\* pending is forgotten.
THEOREM FilesTypeCorrect == FilesSpec => []FilesTypeOK
<1>1. TransferInv /\ FunctionsInv => FilesTypeOK
  <2> SUFFICES ASSUME TransferInv, FunctionsInv
               PROVE  FilesTypeOK
    OBVIOUS
  <2>1. \A p \in Providers : TypesOK(receiving[p], serving[p], sendings[p], wire[p], links[p])
    BY DEF TransferInv, PlaceOK
  <2>2. receiving \in [Providers -> Receiving] /\ links \in [Providers -> LinkState]
    BY <2>1, FunctionTyped DEF TypesOK, FunctionsInv
  <2>3. \A p \in Providers : (serving[p] = None \/ serving[p] \in Serving) /\ sendings[p] \subseteq Sending
    BY <2>1 DEF TypesOK
  <2>4. ASSUME NEW p \in Providers PROVE ToSet(wire[p].content) \subseteq Frame
    <3>1. wire[p].content \in Seq(Frame)
      BY <2>1 DEF TypesOK, Wire
    <3> QED BY <3>1 DEF ToSet
  <2>5. ASSUME NEW p \in Providers PROVE Cardinality(PendingAt(p)) <= 1
    <3>1. CASE PendingAt(p) = {}
      BY <3>1, FS_EmptySet
    <3>2. ASSUME NEW r \in PendingAt(p) PROVE Cardinality(PendingAt(p)) <= 1
      <4>1. PendingAt(p) = {r}
        BY <3>2 DEF TransferInv, OnePending
      <4>2. Cardinality({r}) = 1
        BY FS_Singleton
      <4> QED BY <4>1, <4>2
    <3> QED BY <3>1, <3>2
  <2>6. requests \in [Ids -> Request] /\ NoneForgotten
    BY DEF TransferInv, FilesInv
  <2> QED BY <2>2, <2>3, <2>4, <2>5, <2>6 DEF FilesTypeOK
<1> QED BY <1>1, TransferInit, TransferStep, ClosedInit, ClosedStep, FunctionsInit, FunctionsStep, PTL DEF FilesSpec

\* Neither end is stuck with a transfer that is not going on: a provider that
\* is busy is sending, and what the requester has begun to receive is being
\* sent or its complete is on its way, unless frames were lost.
THEOREM NoTransferStuck == FilesSpec => []NoStuckTransfer
<1>1. TransferInv => NoStuckTransfer
  <2> SUFFICES ASSUME TransferInv, NEW p \in Providers
               PROVE  /\ serving[p] # None /\ serving[p].state = "sending"
                           => \E x \in sendings[p] : x.request = serving[p].request
                      /\ receiving[p].incoming # None /\ ~links[p].lost
                           => \/ \E x \in sendings[p] : x.request = receiving[p].incoming.request
                              \/ [type |-> "complete", request |-> receiving[p].incoming.request]
                                   \in ToSet(wire[p].content)
    BY DEF NoStuckTransfer
  <2>1. PlaceOK(Unmade, receiving[p], serving[p], sendings[p], wire[p], links[p])
    BY DEF TransferInv
  <2>2. serving[p] # None /\ serving[p].state = "sending" => \E x \in sendings[p] : x.request = serving[p].request
    BY <2>1 DEF PlaceOK, ServedOnce
  <2>3. ASSUME receiving[p].incoming # None, ~links[p].lost
        PROVE  \/ \E x \in sendings[p] : x.request = receiving[p].incoming.request
               \/ CompleteOf(receiving[p].incoming.request) \in ToSet(wire[p].content)
    <3>1. Ending(sendings[p], wire[p].content, receiving[p].incoming.request, 0)
      BY <2>1, <2>3 DEF PlaceOK, Followed
    <3>2. wire[p].content \in Seq(Frame)
      BY <2>1 DEF PlaceOK, TypesOK, Wire
    <3>3. \A j \in 1 .. Len(wire[p].content) : wire[p].content[j] \in ToSet(wire[p].content)
      BY <3>2 DEF ToSet
    <3> QED BY <3>1, <3>3 DEF Ending
  <2> QED BY <2>2, <2>3 DEF CompleteOf
<1> QED BY <1>1, TransferInit, TransferStep, ClosedInit, ClosedStep, PTL DEF FilesSpec

===============================================================================
