-------------------------- MODULE ContentUploadProofs --------------------------
(***************************************************************************)
(* The upload budget for every number of sends and pools and all its       *)
(* options: what a pause does to the sends that wait, and that the         *)
(* counters and the rate hold.                                             *)
(***************************************************************************)
EXTENDS ContentUpload, FiniteSetTheorems, TLAPS

-------------------------------------------------------------------------------
(* The inductive invariant.                                                 *)

\* The budget without the bounds of its counters, which follow from the
\* sums over the calls under way (Accounts, below).
Counters == [tokens : Int, updated : Nat, paused : BOOLEAN, pauseController : 0 .. MaxPauses,
             pendingBytes : Int, pendingSends : Int]

Shapes ==
  /\ budget \in Counters
  /\ budget.paused => budget.pauseController < MaxPauses
  /\ sends \in [Sends -> Send \cup {None}]
  /\ links \in [Pools -> PoolLink]
  /\ \A p \in Pools : links[p].link <= changes
  /\ changes \in 0 .. MaxChanges
  /\ now \in Nat

\* The signal a send took is that of a resume so far.
SignalsPast == \A s \in UnderWay : sends[s].pauseSignal <= budget.pauseController

\* A send that a pause met waits still, and finds its signal aborted.
DoomedWait ==
  /\ doomed \subseteq UnderWay
  /\ \A s \in doomed :
       /\ sends[s].stage # "final"
       /\ budget.paused \/ sends[s].pauseSignal # budget.pauseController

PauseInv == Shapes /\ SignalsPast /\ DoomedWait

\* The step changes no more of a send than its stage, and of no doomed one
\* to the last; what it does to the budget concerns no pause.
Harmless ==
  /\ budget' \in Counters
  /\ budget'.paused = budget.paused /\ budget'.pauseController = budget.pauseController
  /\ sends' \in [Sends -> Send \cup {None}]
  /\ \A s \in Sends :
       sends'[s] # None /\ sends[s] # None => sends'[s].pauseSignal = sends[s].pauseSignal
  /\ \A s \in Sends :
       sends'[s] # None /\ sends[s] = None => sends'[s].pauseSignal = budget.pauseController
  /\ doomed' \subseteq doomed
  /\ \A s \in doomed' : sends'[s] # None /\ sends'[s].stage # "final"

Quiet == \A s \in doomed : sends'[s] = None => sentBytes' = sentBytes

-------------------------------------------------------------------------------
\* The options and the bounds are numbers.
LEMMA ConstantsAreNumbers ==
  /\ MaxPauses \in Nat /\ MaxChanges \in Nat /\ BurstBytes \in Nat /\ RelayTicks \in Nat
  /\ LowWaterMark \in Nat /\ \A size \in Sizes : size \in Nat
BY UploadAssumption

\* A budget that has just been made satisfies the invariant.
LEMMA PauseInit == Init => PauseInv
<1> SUFFICES ASSUME Init PROVE PauseInv
  OBVIOUS
<1>1. budget \in Counters /\ ~budget.paused
  BY ConstantsAreNumbers DEF Init, Counters
<1>2. links \in [Pools -> PoolLink] /\ \A p \in Pools : links[p].link = 0
  <2>1. links \in [Pools -> [link : {0}, closed : {FALSE}, route : Routes,
                             bufferedAmount : {0}, nextRelaySendAt : {0}]]
    BY DEF Init
  <2>2. 0 \in 0 .. MaxChanges
    BY ConstantsAreNumbers
  <2>3. \A p \in Pools : links[p].link = 0
    BY <2>1
  <2>4. ASSUME NEW l \in [link : {0}, closed : {FALSE}, route : Routes,
                         bufferedAmount : {0}, nextRelaySendAt : {0}]
        PROVE  l \in PoolLink
    <3>1. l = [link |-> 0, closed |-> FALSE, route |-> l.route, bufferedAmount |-> 0,
               nextRelaySendAt |-> 0]
      OBVIOUS
    <3>2. l.route \in Routes
      OBVIOUS
    <3>3. \A route \in Routes :
            [link |-> 0, closed |-> FALSE, route |-> route, bufferedAmount |-> 0,
             nextRelaySendAt |-> 0] \in PoolLink
      BY <2>2 DEF PoolLink
    <3> QED BY <3>1, <3>2, <3>3
  <2>5. links \in [Pools -> PoolLink]
    BY <2>1, <2>4
  <2> QED BY <2>3, <2>5
<1>3. UnderWay = {} /\ doomed = {} /\ changes = 0 /\ now = 0 /\ sends \in [Sends -> {None}]
  BY DEF Init, UnderWay
<1>4. changes \in 0 .. MaxChanges /\ \A p \in Pools : links[p].link <= changes
  BY <1>2, <1>3, ConstantsAreNumbers
<1> QED BY <1>1, <1>2, <1>3, <1>4 DEF PauseInv, Shapes, SignalsPast, DoomedWait

\* A harmless step keeps what the invariant says of the sends.
LEMMA HarmlessKeeps ==
  ASSUME PauseInv, Harmless
  PROVE  SignalsPast' /\ DoomedWait'
<1>1. SignalsPast'
  BY DEF PauseInv, Shapes, Counters, SignalsPast, Harmless, UnderWay
<1>2. DoomedWait'
  BY DEF PauseInv, Shapes, DoomedWait, Harmless, UnderWay
<1> QED BY <1>1, <1>2

\* Max of two times is a time.
LEMMA MaxOfTwo ==
  ASSUME NEW a \in Nat, NEW b \in Nat
  PROVE  Max({a, b}) \in Nat
<1>1. \E x \in {a, b} : \A y \in {a, b} : x >= y
  <2>1. CASE a >= b
    BY <2>1
  <2>2. CASE ~(a >= b)
    BY <2>2
  <2> QED BY <2>1, <2>2
<1>2. Max({a, b}) \in {a, b}
  BY <1>1 DEF Max
<1> QED BY <1>2

\* release keeps the shape of the budget and leaves its pause alone.
LEMMA ReleasedEffect ==
  ASSUME NEW b \in Counters, NEW size \in Int
  PROVE  /\ Released(b, size) \in Counters
         /\ Released(b, size).paused = b.paused
         /\ Released(b, size).pauseController = b.pauseController
<1> DEFINE m == b.pendingSends - 1
           n == b.pendingBytes - size
<1>1. m \in Int /\ n \in Int
  BY DEF Counters
<1>2. Released(b, size) = [b EXCEPT !.pendingSends = m, !.pendingBytes = n]
  BY DEF Released, Counters
<1> HIDE DEF m, n
<1> QED BY <1>1, <1>2 DEF Counters

\* So does a refill.
LEMMA RefilledEffect ==
  ASSUME PauseInv
  PROVE  /\ Refilled(budget) \in Counters
         /\ Refilled(budget).paused = budget.paused
         /\ Refilled(budget).pauseController = budget.pauseController
<1> DEFINE earned == budget.tokens + (now - budget.updated)
           tokens == IF earned > BurstBytes THEN BurstBytes ELSE earned
<1>1. tokens \in Int /\ now \in Nat /\ budget \in Counters
  BY ConstantsAreNumbers DEF PauseInv, Shapes, Counters
<1>2. Refilled(budget) = [budget EXCEPT !.tokens = tokens, !.updated = now]
  BY DEF Refilled
<1> HIDE DEF tokens
<1> QED BY <1>1, <1>2 DEF Counters

\* A call that ends and gives back what it held, without having sent.
LEMMA OverHarmless ==
  ASSUME PauseInv, NEW s \in Sends, sends[s] # None, Over(s)
  PROVE  Harmless
<1>1. sends[s] \in Send /\ sends[s].size \in Int
  BY ConstantsAreNumbers DEF PauseInv, Shapes, Send
<1>2. budget' \in Counters /\ budget'.paused = budget.paused
      /\ budget'.pauseController = budget.pauseController
  BY <1>1, ReleasedEffect DEF Over, PauseInv, Shapes
<1> QED BY <1>2 DEF Over, Harmless, PauseInv, Shapes, DoomedWait, UnderWay

\* A call that goes on to another stage but the last.
LEMMA MovedHarmless ==
  ASSUME PauseInv, NEW s \in Sends, NEW send \in Send, sends[s] # None, Moved(s, send),
         send.pauseSignal = sends[s].pauseSignal, send.stage # "final"
  PROVE  Harmless /\ Quiet
<1>1. send # None
  BY NoSendAssumption
<1>2. Harmless
  BY <1>1 DEF Moved, Harmless, PauseInv, Shapes, DoomedWait, UnderWay
<1> QED BY <1>2 DEF Moved, Quiet

LEMMA ToCapacityHarmless ==
  ASSUME PauseInv, NEW s \in Sends, NEW send \in Send, sends[s] # None, ToCapacity(s, send),
         send.pauseSignal = sends[s].pauseSignal
  PROVE  Harmless /\ Quiet
<1>1. CASE Aborted(send)
  BY <1>1, OverHarmless DEF ToCapacity, Rejected, Quiet
<1>2. CASE ~Aborted(send)
  <2>1. PICK moved \in AtCapacity(send) : Moved(s, moved)
    BY <1>2 DEF ToCapacity
  <2>2. PICK stage \in {"tokens", "capacity"} : moved = [send EXCEPT !.stage = stage, !.until = 0]
    BY <2>1 DEF AtCapacity
  <2>3. moved \in Send /\ moved.pauseSignal = send.pauseSignal /\ moved.stage # "final"
    BY <2>2 DEF Send
  <2> QED BY <2>1, <2>3, MovedHarmless
<1> QED BY <1>1, <1>2

-------------------------------------------------------------------------------
(* The steps.                                                               *)

\* sendContent reserves its place: a new send takes the signal of now.
LEMMA SendContentKeeps ==
  ASSUME PauseInv, NEW s \in Sends, NEW p \in Pools, NEW size \in Sizes, SendContent(s, p, size)
  PROVE  PauseInv' /\ Quiet
<1> DEFINE m == budget.pendingSends + 1
           n == budget.pendingBytes + size
           send == [pool |-> p, size |-> size, link |-> links[p].link,
                    pauseSignal |-> budget.pauseController, icePath |-> "other", until |-> 0,
                    stage |-> "path"]
<1>1. /\ budget' \in Counters
      /\ budget'.paused = budget.paused /\ budget'.pauseController = budget.pauseController
  <2>1. m \in Int /\ n \in Int /\ budget \in Counters
    BY ConstantsAreNumbers DEF PauseInv, Shapes, Counters
  <2>2. budget' = [budget EXCEPT !.pendingSends = m, !.pendingBytes = n]
    BY DEF SendContent, Reserved
  <2> HIDE DEF m, n
  <2> QED BY <2>1, <2>2 DEF Counters
<1>2. send \in Send /\ send # None
  <2>1. links[p].link \in 0 .. MaxChanges /\ budget.pauseController \in 0 .. MaxPauses
    BY DEF PauseInv, Shapes, PoolLink, Counters
  <2>2. send \in Send
    BY <2>1 DEF Send, Routes
  <2> QED BY <2>2, NoSendAssumption
<1>3. /\ sends[s] = None /\ sends' = [sends EXCEPT ![s] = send]
      /\ sends' \in [Sends -> Send \cup {None}]
  BY <1>2 DEF SendContent, PauseInv, Shapes
<1>4. Harmless
  <2>1. s \notin doomed
    BY <1>3 DEF PauseInv, DoomedWait, UnderWay
  <2>2. \A r \in doomed : sends'[r] # None /\ sends'[r].stage # "final"
    BY <1>3, <2>1 DEF PauseInv, Shapes, DoomedWait, UnderWay
  <2>3. doomed' = doomed /\ send.pauseSignal = budget.pauseController
    BY DEF SendContent
  <2> HIDE DEF send
  <2> QED BY <1>1, <1>3, <2>2, <2>3 DEF Harmless, PauseInv, Shapes
<1>5. Shapes'
  BY <1>1, <1>3 DEF SendContent, PauseInv, Shapes
<1> QED BY <1>4, <1>5, HarmlessKeeps DEF SendContent, PauseInv, Quiet

\* A slot given on the relay.
LEMMA RelayLimitedKeeps ==
  ASSUME PauseInv, NEW s \in Sends, NEW send \in Send, NEW sendAt \in Nat,
         sends[s] # None, send.pauseSignal = sends[s].pauseSignal, RelayLimited(s, send, sendAt)
  PROVE  Harmless /\ Quiet /\ links' \in [Pools -> PoolLink] /\ \A p \in Pools : links'[p].link = links[p].link
<1>1. links' \in [Pools -> PoolLink] /\ \A p \in Pools : links'[p].link = links[p].link
  <2> DEFINE at == sendAt + send.size * RelayTicks
  <2>1. at \in Nat /\ send.pool \in Pools
    <3>1. send.size \in Nat /\ send.pool \in Pools
      BY ConstantsAreNumbers DEF Send
    <3>2. send.size * RelayTicks \in Nat
      BY <3>1, ConstantsAreNumbers
    <3> QED BY <3>1, <3>2
  <2>2. links' = [links EXCEPT ![send.pool].nextRelaySendAt = at] \/ links' = links
    BY DEF RelayLimited
  <2> HIDE DEF at
  <2> QED BY <2>1, <2>2 DEF PauseInv, Shapes, PoolLink
<1>2. Harmless /\ Quiet
  <2>1. CASE sendAt > now
    <3> DEFINE slot == [send EXCEPT !.stage = "relay", !.until = sendAt]
    <3>1. slot \in Send /\ slot.pauseSignal = send.pauseSignal /\ slot.stage # "final"
      BY DEF Send
    <3>2. Moved(s, slot)
      BY <2>1 DEF RelayLimited
    <3> HIDE DEF slot
    <3> QED BY <3>1, <3>2, MovedHarmless
  <2>2. CASE ~(sendAt > now)
    BY <2>2, ToCapacityHarmless DEF RelayLimited
  <2> QED BY <2>1, <2>2
<1> QED BY <1>1, <1>2

\* The route is known: the send is refused, waits for its slot or goes on.
LEMMA RouteKnownKeeps ==
  ASSUME PauseInv, NEW s \in Sends, RouteKnown(s)
  PROVE  PauseInv' /\ Quiet
<1>1. PICK path \in Routes : RouteIs(s, path)
  BY DEF RouteKnown, SelectedIcePaths, PauseInv, Shapes, Send, PoolLink
<1> DEFINE send == [sends[s] EXCEPT !.icePath = path]
<1>2. /\ sends[s] # None /\ sends[s] \in Send /\ now \in Nat
      /\ send \in Send /\ send.pauseSignal = sends[s].pauseSignal
  BY DEF RouteKnown, PauseInv, Shapes, Send
<1>3. Harmless /\ Quiet /\ links' \in [Pools -> PoolLink] /\ \A p \in Pools : links'[p].link = links[p].link
  <2>1. CASE Rejected(s) /\ UNCHANGED links
    BY <1>2, <2>1, OverHarmless DEF Rejected, Quiet, PauseInv, Shapes
  <2>2. ASSUME NEW slot \in Slots(sends[s]), RelayLimited(s, send, Max({now, slot}))
        PROVE  Harmless /\ Quiet /\ links' \in [Pools -> PoolLink] /\ \A p \in Pools : links'[p].link = links[p].link
    <3>1. slot \in Nat
      BY <1>2 DEF Slots, PauseInv, Shapes, Send, PoolLink
    <3>2. Max({now, slot}) \in Nat
      BY <1>2, <3>1, MaxOfTwo
    <3> HIDE DEF send
    <3> QED BY <1>2, <2>2, <3>2, RelayLimitedKeeps
  <2>3. CASE ToCapacity(s, send) /\ UNCHANGED links
    <3> HIDE DEF send
    <3> QED BY <1>2, <2>3, ToCapacityHarmless DEF PauseInv, Shapes
  <2> QED BY <1>1, <2>1, <2>2, <2>3 DEF RouteIs
<1> QED BY <1>3, HarmlessKeeps DEF RouteKnown, PauseInv, Shapes, Harmless

\* The slot on the relay has come.
LEMMA RelaySlotKeeps ==
  ASSUME PauseInv, NEW s \in Sends, RelaySlot(s)
  PROVE  PauseInv' /\ Quiet
<1>1. sends[s] # None /\ sends[s] \in Send /\ ToCapacity(s, sends[s])
  BY DEF RelaySlot, PauseInv, Shapes
<1>2. Harmless /\ Quiet
  BY <1>1, ToCapacityHarmless
<1> QED BY <1>2, HarmlessKeeps DEF RelaySlot, PauseInv, Shapes, Harmless

\* An await is aborted.
LEMMA AbortSendKeeps ==
  ASSUME PauseInv, NEW s \in Sends, AbortSend(s)
  PROVE  PauseInv' /\ Quiet
<1>1. Harmless /\ Quiet
  BY OverHarmless DEF AbortSend, Rejected, Quiet
<1> QED BY <1>1, HarmlessKeeps DEF AbortSend, PauseInv, Shapes, Harmless

\* A look at the tokens goes on to the last stage only unaborted, so not a
\* send that a pause has met.
LEMMA TakeTokensKeeps ==
  ASSUME PauseInv, NEW s \in Sends, TakeTokens(s)
  PROVE  PauseInv' /\ Quiet
<1> DEFINE b == Refilled(budget)
<1>1. /\ sends[s] # None /\ sends[s] \in Send /\ sends[s].size \in Nat
      /\ ~budget.paused /\ sends[s].pauseSignal = budget.pauseController
  BY ConstantsAreNumbers DEF TakeTokens, Aborted, PauseInv, Shapes, Send
<1>2. s \notin doomed
  BY <1>1 DEF PauseInv, DoomedWait
<1>3. b \in Counters /\ b.paused = budget.paused /\ b.pauseController = budget.pauseController
  BY RefilledEffect
<1>4. /\ budget' \in Counters
      /\ budget'.paused = budget.paused /\ budget'.pauseController = budget.pauseController
  <2>1. CASE budget' = [b EXCEPT !.tokens = @ - sends[s].size]
    <3> DEFINE left == b.tokens - sends[s].size
    <3>1. left \in Int /\ budget' = [b EXCEPT !.tokens = left]
      BY <1>1, <1>3, <2>1 DEF Counters
    <3> HIDE DEF left, b
    <3> QED BY <1>3, <3>1 DEF Counters
  <2>2. CASE budget' = b
    BY <1>3, <2>2
  <2> QED BY <2>1, <2>2 DEF TakeTokens
<1>5. \E send \in Send : sends' = [sends EXCEPT ![s] = send] /\ send.pauseSignal = sends[s].pauseSignal
  <2>1. CASE sends' = [sends EXCEPT ![s].stage = "final", ![s].until = 0]
    <3>1. [sends[s] EXCEPT !.stage = "final", !.until = 0] \in Send
      BY <1>1 DEF Send
    <3> QED BY <1>1, <2>1, <3>1 DEF PauseInv, Shapes, Send
  <2>2. CASE b.tokens < sends[s].size /\ sends' = [sends EXCEPT ![s].until = now + (sends[s].size - b.tokens)]
    <3> DEFINE until == now + (sends[s].size - b.tokens)
               later == [sends[s] EXCEPT !.until = until]
    <3>1. until \in Nat
      BY <1>1, <1>3, <2>2 DEF Counters, PauseInv, Shapes
    <3>2. sends' = [sends EXCEPT ![s] = later]
      BY <2>2
    <3> HIDE DEF until
    <3>3. later \in Send /\ later.pauseSignal = sends[s].pauseSignal
      BY <1>1, <3>1 DEF Send
    <3> HIDE DEF later
    <3> QED BY <3>2, <3>3
  <2> QED BY <2>1, <2>2 DEF TakeTokens
<1>6. PICK send \in Send :
        sends' = [sends EXCEPT ![s] = send] /\ send.pauseSignal = sends[s].pauseSignal
  BY <1>5
<1>7. send # None
  BY NoSendAssumption
<1>8. Harmless
  BY <1>1, <1>2, <1>4, <1>6, <1>7 DEF TakeTokens, Harmless, PauseInv, Shapes, DoomedWait, UnderWay
<1> QED BY <1>4, <1>6, <1>8, HarmlessKeeps DEF TakeTokens, PauseInv, Shapes, Quiet

\* A send that gets this far was met by no pause that it has not seen.
LEMMA FinishKeeps ==
  ASSUME PauseInv, NEW s \in Sends, Finish(s)
  PROVE  PauseInv' /\ Quiet
<1>1. sends[s] # None /\ sends[s].stage = "final" /\ sends[s] \in Send /\ Over(s)
  BY DEF Finish, PauseInv, Shapes
<1>2. s \notin doomed
  BY <1>1 DEF PauseInv, DoomedWait
<1>3. Harmless
  BY <1>1, OverHarmless
<1>4. Quiet
  BY <1>1, <1>2 DEF Over, Quiet, PauseInv, Shapes, DoomedWait, UnderWay
<1>5. links' \in [Pools -> PoolLink] /\ \A p \in Pools : links'[p].link = links[p].link
  <2>1. CASE UNCHANGED links
    BY <2>1 DEF PauseInv, Shapes
  <2>2. CASE links' = [links EXCEPT ![sends[s].pool].bufferedAmount = @ + sends[s].size]
    <3> DEFINE more == links[sends[s].pool].bufferedAmount + sends[s].size
    <3>1. sends[s].pool \in Pools /\ sends[s].size \in Nat
      BY <1>1, ConstantsAreNumbers DEF Send
    <3>2. more \in Nat /\ links' = [links EXCEPT ![sends[s].pool].bufferedAmount = more]
      BY <2>2, <3>1 DEF PauseInv, Shapes, PoolLink
    <3> HIDE DEF more
    <3> QED BY <3>1, <3>2 DEF PauseInv, Shapes, PoolLink
  <2> QED BY <2>1, <2>2 DEF Finish
<1> QED BY <1>3, <1>4, <1>5, HarmlessKeeps DEF Finish, PauseInv, Shapes, Harmless

\* setPaused: a pause meets all that waits, a resume is a new signal, which
\* no send has yet.
LEMMA SetPausedKeeps ==
  ASSUME PauseInv, SetPaused
  PROVE  PauseInv' /\ Quiet
<1>1. CASE budget.paused
  <2> DEFINE c == budget.pauseController + 1
  <2>1. c \in 0 .. MaxPauses /\ budget' = [budget EXCEPT !.paused = FALSE, !.pauseController = c]
    <3>1. budget.pauseController \in 0 .. MaxPauses /\ budget.pauseController < MaxPauses
      BY <1>1 DEF PauseInv, Shapes, Counters
    <3>2. c \in 0 .. MaxPauses
      BY <3>1, ConstantsAreNumbers
    <3>3. (~budget.paused) = FALSE
      BY <1>1
    <3>4. budget' = [budget EXCEPT !.paused = FALSE, !.pauseController = c]
      BY <1>1, <3>3 DEF SetPaused
    <3> QED BY <3>2, <3>4
  <2>2. budget' \in Counters /\ ~budget'.paused /\ budget'.pauseController = c
    <3> HIDE DEF c
    <3> QED BY <2>1 DEF PauseInv, Shapes, Counters
  <2>3. sends' = sends /\ doomed' = doomed /\ sentBytes' = sentBytes
    BY <1>1 DEF SetPaused
  <2>4. \A s \in UnderWay :
          sends[s].pauseSignal <= budget.pauseController /\ sends[s].pauseSignal \in Nat
    BY ConstantsAreNumbers DEF PauseInv, Shapes, SignalsPast, UnderWay, Send
  <2>5. \A s \in UnderWay : sends[s].pauseSignal <= c /\ sends[s].pauseSignal # c
    BY <2>4 DEF PauseInv, Shapes, Counters
  <2>6. SignalsPast' /\ DoomedWait'
    BY <2>2, <2>3, <2>5 DEF PauseInv, SignalsPast, DoomedWait, UnderWay
  <2> QED BY <2>2, <2>3, <2>6 DEF SetPaused, PauseInv, Shapes, Quiet
<1>2. CASE ~budget.paused
  <2>1. /\ budget' \in Counters /\ budget'.paused
        /\ budget'.pauseController = budget.pauseController /\ budget.pauseController < MaxPauses
    BY <1>2 DEF SetPaused, PauseInv, Shapes, Counters
  <2>2. /\ sends' = sends /\ sentBytes' = sentBytes
        /\ doomed' = doomed \cup {s \in UnderWay : sends[s].stage # "final"}
    BY <1>2 DEF SetPaused
  <2>3. SignalsPast' /\ DoomedWait'
    BY <2>1, <2>2 DEF PauseInv, SignalsPast, DoomedWait, UnderWay
  <2> QED BY <2>1, <2>2, <2>3 DEF SetPaused, PauseInv, Shapes, Quiet
<1> QED BY <1>1, <1>2

\* What else happens to links and channels leaves the budget alone.
LEMMA LinksKeep ==
  ASSUME PauseInv, NEW p \in Pools, ClosePool(p) \/ ReplaceLink(p) \/ ChangeRoute(p)
  PROVE  PauseInv' /\ Quiet
<1>1. UNCHANGED <<budget, sends, policy, now, sentBytes, doomed>>
  BY DEF ClosePool, ReplaceLink, ChangeRoute
<1>2. changes' = changes + 1 /\ changes' \in 0 .. MaxChanges
  BY ConstantsAreNumbers DEF ClosePool, ReplaceLink, ChangeRoute, PauseInv, Shapes
<1>3. \A q \in Pools : links[q].link <= changes'
  BY <1>2, ConstantsAreNumbers DEF PauseInv, Shapes, PoolLink
<1>4. links' \in [Pools -> PoolLink] /\ \A q \in Pools : links'[q].link <= changes'
  <2>1. CASE ClosePool(p)
    <3>1. links' = [links EXCEPT ![p].closed = TRUE]
      BY <2>1 DEF ClosePool
    <3>2. links' \in [Pools -> PoolLink] /\ \A q \in Pools : links'[q].link = links[q].link
      BY <3>1 DEF PauseInv, Shapes, PoolLink
    <3> QED BY <1>3, <3>2
  <2>2. CASE ReplaceLink(p)
    <3> DEFINE next == links[p].link + 1
    <3>1. next \in 0 .. MaxChanges /\ next <= changes'
      BY <1>2, ConstantsAreNumbers DEF PauseInv, Shapes, PoolLink
    <3>2. links' = [links EXCEPT ![p].link = next, ![p].bufferedAmount = 0, ![p].nextRelaySendAt = 0]
      BY <2>2 DEF ReplaceLink
    <3> HIDE DEF next
    <3>3. links' \in [Pools -> PoolLink] /\ links'[p].link = next
      BY <3>1, <3>2 DEF PauseInv, Shapes, PoolLink
    <3>4. \A q \in Pools \ {p} : links'[q] = links[q]
      BY <3>2 DEF PauseInv, Shapes
    <3> QED BY <1>2, <3>1, <3>3, <3>4, ConstantsAreNumbers DEF PauseInv, Shapes, PoolLink
  <2>3. CASE ChangeRoute(p)
    <3>1. PICK route \in Routes : links' = [links EXCEPT ![p].route = route]
      BY <2>3 DEF ChangeRoute, Routes
    <3>2. links' \in [Pools -> PoolLink] /\ \A q \in Pools : links'[q].link = links[q].link
      BY <3>1 DEF PauseInv, Shapes, PoolLink
    <3> QED BY <1>3, <3>2
  <2> QED BY <2>1, <2>2, <2>3
<1> QED BY <1>1, <1>2, <1>4 DEF PauseInv, Shapes, SignalsPast, DoomedWait, UnderWay, Quiet

\* A channel drains, and wakes what waited for room in it.
LEMMA DrainKeeps ==
  ASSUME PauseInv, NEW p \in Pools, Drain(p)
  PROVE  PauseInv' /\ Quiet
<1>1. links' \in [Pools -> PoolLink] /\ \A q \in Pools : links'[q].link = links[q].link
  <2> DEFINE less == links[p].bufferedAmount - 1
  <2>1. less \in Nat /\ links' = [links EXCEPT ![p].bufferedAmount = less]
    <3>1. links[p].bufferedAmount \in Nat
      BY DEF PauseInv, Shapes, PoolLink
    <3>2. links[p].bufferedAmount > 0 /\ links' = [links EXCEPT ![p].bufferedAmount = less]
      BY Zenon DEF Drain
    <3> QED BY <3>1, <3>2
  <2> HIDE DEF less
  <2> QED BY <2>1 DEF PauseInv, Shapes, PoolLink
<1>2. \A s \in Sends :
        \/ sends'[s] = sends[s]
        \/ sends[s] # None /\ sends'[s] = [sends[s] EXCEPT !.stage = "tokens", !.until = 0]
  BY DEF Drain, UnderWay
<1>3. \A s \in Sends :
        /\ sends'[s] \in Send \cup {None}
        /\ (sends'[s] = None) <=> (sends[s] = None)
        /\ sends[s] # None => sends'[s].pauseSignal = sends[s].pauseSignal
        /\ sends'[s] # None => (sends'[s].stage = sends[s].stage \/ sends'[s].stage # "final")
  <2> SUFFICES ASSUME NEW s \in Sends, sends[s] # None,
                      sends'[s] = [sends[s] EXCEPT !.stage = "tokens", !.until = 0]
               PROVE  /\ sends'[s] \in Send
                      /\ sends'[s].pauseSignal = sends[s].pauseSignal
                      /\ sends'[s].stage # "final"
    BY <1>2, NoSendAssumption DEF PauseInv, Shapes
  <2>1. sends[s] \in Send
    BY DEF PauseInv, Shapes
  <2>2. /\ sends'[s].pauseSignal = sends[s].pauseSignal
        /\ sends'[s].stage = "tokens"
    BY <2>1 DEF Send
  <2>3. [sends[s] EXCEPT !.stage = "tokens", !.until = 0] \in Send
    BY <2>1 DEF Send
  <2> QED BY <2>2, <2>3
<1>4. sends' \in [Sends -> Send \cup {None}]
  BY <1>3 DEF Drain
<1>5. Harmless
  BY <1>3, <1>4 DEF Drain, Harmless, PauseInv, Shapes, DoomedWait, UnderWay
<1> QED BY <1>1, <1>4, <1>5, HarmlessKeeps DEF Drain, PauseInv, Shapes, Quiet

\* Every step keeps the invariant, and sends nothing for a send that ends
\* after a pause has met it.
LEMMA PauseStep == PauseInv /\ [UploadNext]_vars => PauseInv' /\ Quiet
<1> SUFFICES ASSUME PauseInv, [UploadNext]_vars PROVE PauseInv' /\ Quiet
  OBVIOUS
<1>1. CASE Tick
  BY <1>1 DEF Tick, PauseInv, Shapes, SignalsPast, DoomedWait, UnderWay, Quiet
<1>2. CASE SetPaused
  BY <1>2, SetPausedKeeps
<1>3. ASSUME NEW p \in Pools, ClosePool(p) \/ Drain(p) \/ ReplaceLink(p) \/ ChangeRoute(p)
      PROVE  PauseInv' /\ Quiet
  BY <1>3, LinksKeep, DrainKeeps
<1>4. ASSUME NEW s \in Sends, NEW p \in Pools, NEW size \in Sizes, SendContent(s, p, size)
      PROVE  PauseInv' /\ Quiet
  BY <1>4, SendContentKeeps
<1>5. ASSUME NEW s \in Sends,
             RouteKnown(s) \/ RelaySlot(s) \/ AbortSend(s) \/ TakeTokens(s) \/ Finish(s)
      PROVE  PauseInv' /\ Quiet
  BY <1>5, RouteKnownKeeps, RelaySlotKeeps, AbortSendKeeps, TakeTokensKeeps, FinishKeeps
<1>6. CASE UNCHANGED vars
  BY <1>6 DEF vars, PauseInv, Shapes, SignalsPast, DoomedWait, UnderWay, Quiet
<1> QED BY <1>1, <1>2, <1>3, <1>4, <1>5, <1>6 DEF UploadNext

\* Whatever waited in sendContent when setPaused(true) was called never
\* sends, however many sends and pools share the budget and however soon
\* uploads resume.
THEOREM PauseHolds == UploadSpec => PauseRejectsWaiting
<1>1. PauseInv /\ [UploadNext]_vars =>
        PauseInv' /\ [\A s \in doomed : sends'[s] = None => sentBytes' = sentBytes]_vars
  BY PauseStep DEF Quiet
<1> QED BY <1>1, PauseInit, PTL DEF UploadSpec, PauseRejectsWaiting
-------------------------------------------------------------------------------
(* Sums.  The library sums a set by choosing its elements one after         *)
(* another; every order gives the same.  The induction these facts need     *)
(* comes from the least number of a set (WFMin).                            *)

\* The bytes the calls S of m hold.
Bytes(m, S) == MapThenSumSet(LAMBDA s : m[s].size, S)

Sized(m, S) == IsFiniteSet(S) /\ \A x \in S : m[x].size \in Nat

Chosen(T) == CHOOSE x \in T : TRUE

\* What is added up for T, when g has the sums of smaller sets.
Added(m, g, T) == IF T = {} THEN 0 ELSE m[Chosen(T)].size + g[T \ {Chosen(T)}]

Adds(m, S, g) == g = [T \in SUBSET S |-> Added(m, g, T)]

\* A set of numbers that has 0, and the next of each it has, has all.
LEMMA AllNumbers ==
  ASSUME NEW C, 0 \in C, \A n \in Nat : n \in C => n + 1 \in C
  PROVE  \A k \in Nat : k \in C
<1> SUFFICES ASSUME NEW k \in Nat, k \notin C PROVE FALSE
  OBVIOUS
<1> DEFINE S == Nat \ C
<1>1. PICK n \in S : \A m \in S : ~(<<m, n>> \in OpToRel(<, Nat))
  <2>1. S \subseteq Nat /\ S # {}
    OBVIOUS
  <2> HIDE DEF S
  <2> QED BY <2>1, NatLessThanWellFounded, WFMin, Zenon
<1>2. \A m \in S : ~(m < n)
  BY <1>1, Zenon DEF OpToRel
<1>3. n # 0 /\ n \in Nat /\ n - 1 \in Nat /\ n - 1 < n /\ (n - 1) + 1 = n
  OBVIOUS
<1>4. n - 1 \in C
  BY <1>2, <1>3
<1> QED BY <1>3, <1>4

\* What is left of a set without its chosen element.
LEMMA ChosenOne ==
  ASSUME NEW T, IsFiniteSet(T), T # {}
  PROVE  /\ Chosen(T) \in T
         /\ IsFiniteSet(T \ {Chosen(T)}) /\ Cardinality(T \ {Chosen(T)}) = Cardinality(T) - 1
         /\ Cardinality(T) \in Nat
<1>1. Chosen(T) \in T
  BY DEF Chosen
<1> QED BY <1>1, FS_RemoveElement, FS_CardinalityType

\* The sums of the subsets exist.
LEMMA SumsExist ==
  ASSUME NEW m, NEW S, IsFiniteSet(S)
  PROVE  \E g : Adds(m, S, g)
<1> DEFINE Upto(n) == {T \in SUBSET S : Cardinality(T) <= n}
           C == {n \in Nat : \E g : g = [T \in Upto(n) |-> Added(m, g, T)]}
<1>1. \A T \in SUBSET S : IsFiniteSet(T) /\ Cardinality(T) \in Nat /\ Cardinality(T) <= Cardinality(S)
  BY FS_Subset, FS_CardinalityType
<1>2. 0 \in C
  <2> DEFINE g == [T \in Upto(0) |-> 0]
  <2>1. \A T \in Upto(0) : T = {}
    BY <1>1, FS_EmptySet
  <2>2. g = [T \in Upto(0) |-> Added(m, g, T)]
    BY <2>1 DEF Added
  <2> QED BY <2>2
<1>3. ASSUME NEW n \in Nat, n \in C PROVE n + 1 \in C
  <2>1. PICK g : g = [T \in Upto(n) |-> Added(m, g, T)]
    BY <1>3
  <2> DEFINE h == [T \in Upto(n + 1) |-> Added(m, g, T)]
  <2>2. \A T \in Upto(n) : T \in Upto(n + 1) /\ h[T] = g[T]
    <3>1. \A T \in Upto(n) : T \in Upto(n + 1)
      BY <1>1
    <3>2. \A T \in Upto(n) : g[T] = Added(m, g, T)
      BY <2>1
    <3> HIDE DEF Upto
    <3> QED BY <3>1, <3>2
  <2>3. \A T \in Upto(n + 1) : T # {} => T \ {Chosen(T)} \in Upto(n)
    BY <1>1, ChosenOne
  <2>4. \A T \in Upto(n + 1) : Added(m, g, T) = Added(m, h, T)
    <3> HIDE DEF Upto, h
    <3> QED BY <2>2, <2>3 DEF Added
  <2>5. h = [T \in Upto(n + 1) |-> Added(m, h, T)]
    <3> DEFINE D == Upto(n + 1)
    <3> HIDE DEF Upto, D
    <3>1. h = [T \in D |-> Added(m, g, T)]
      BY DEF D
    <3>2. \A T \in D : Added(m, g, T) = Added(m, h, T)
      BY <2>4 DEF D
    <3> HIDE DEF h
    <3> QED BY <3>1, <3>2 DEF D
  <2> HIDE DEF h, Upto
  <2>6. \E e : e = [T \in Upto(n + 1) |-> Added(m, e, T)]
    BY <2>5
  <2> QED BY <2>6
<1>4. Cardinality(S) \in C
  <2> HIDE DEF C
  <2> QED BY <1>1, <1>2, <1>3, AllNumbers
<1>5. Upto(Cardinality(S)) = SUBSET S
  BY <1>1
<1> HIDE DEF Upto
<1> QED BY <1>4, <1>5 DEF Adds

\* The library's sum is one of them.
LEMMA BytesIsSum ==
  ASSUME NEW m, NEW S, IsFiniteSet(S)
  PROVE  \E g : Adds(m, S, g) /\ Bytes(m, S) = g[S]
<1>1. Bytes(m, S) = (CHOOSE g : Adds(m, S, g))[S]
  BY Zenon DEF Bytes, MapThenSumSet, MapThenFoldSet, Adds, Added, Chosen
<1> QED BY <1>1, SumsExist

\* Sums of the same sizes agree, over whatever set they were made.
LEMMA SumsAgree ==
  ASSUME NEW m, NEW k, NEW S, NEW T, IsFiniteSet(S), IsFiniteSet(T),
         NEW g, Adds(m, S, g), NEW h, Adds(k, T, h),
         \A x \in S \cap T : m[x].size = k[x].size
  PROVE  \A U \in SUBSET (S \cap T) : g[U] = h[U]
<1> DEFINE C == {n \in Nat : \A U \in SUBSET (S \cap T) : Cardinality(U) = n => g[U] = h[U]}
<1>1. \A U \in SUBSET (S \cap T) :
        /\ IsFiniteSet(U) /\ Cardinality(U) \in Nat
        /\ g[U] = Added(m, g, U) /\ h[U] = Added(k, h, U)
  BY FS_Subset, FS_CardinalityType DEF Adds
<1>2. 0 \in C
  BY <1>1, FS_EmptySet DEF Added
<1>3. ASSUME NEW n \in Nat, n \in C PROVE n + 1 \in C
  <2> SUFFICES ASSUME NEW U \in SUBSET (S \cap T), Cardinality(U) = n + 1 PROVE g[U] = h[U]
    OBVIOUS
  <2>1. U # {}
    BY FS_EmptySet
  <2>2. /\ Chosen(U) \in U /\ U \ {Chosen(U)} \in SUBSET (S \cap T)
        /\ Cardinality(U \ {Chosen(U)}) = n
    BY <1>1, <2>1, ChosenOne
  <2>3. g[U \ {Chosen(U)}] = h[U \ {Chosen(U)}]
    BY <1>3, <2>2
  <2> QED BY <1>1, <2>1, <2>2, <2>3 DEF Added
<1> HIDE DEF C
<1>4. \A n \in Nat : n \in C
  BY <1>2, <1>3, AllNumbers
<1> QED BY <1>1, <1>4 DEF C

\* The sum depends on the sizes alone.
LEMMA BytesSame ==
  ASSUME NEW m, NEW k, NEW S, IsFiniteSet(S), \A x \in S : m[x].size = k[x].size
  PROVE  Bytes(m, S) = Bytes(k, S)
<1>1. PICK g : Adds(m, S, g) /\ Bytes(m, S) = g[S]
  BY BytesIsSum
<1>2. PICK h : Adds(k, S, h) /\ Bytes(k, S) = h[S]
  BY BytesIsSum
<1>3. \A U \in SUBSET (S \cap S) : g[U] = h[U]
  BY <1>1, <1>2, SumsAgree
<1> QED BY <1>1, <1>2, <1>3

\* The first element and the others.
LEMMA BytesOfChosen ==
  ASSUME NEW m, NEW S, IsFiniteSet(S)
  PROVE  Bytes(m, S) = IF S = {} THEN 0 ELSE m[Chosen(S)].size + Bytes(m, S \ {Chosen(S)})
<1>1. PICK g : Adds(m, S, g) /\ Bytes(m, S) = g[S]
  BY BytesIsSum
<1>2. g[S] = Added(m, g, S)
  BY <1>1 DEF Adds
<1>3. CASE S = {}
  BY <1>1, <1>2, <1>3 DEF Added
<1>4. CASE S # {}
  <2> DEFINE T == S \ {Chosen(S)}
  <2>1. IsFiniteSet(T)
    BY <1>4, ChosenOne
  <2>2. PICK h : Adds(m, T, h) /\ Bytes(m, T) = h[T]
    BY <2>1, BytesIsSum
  <2>3. T \in SUBSET (S \cap T)
    OBVIOUS
  <2>4. g[T] = h[T]
    <3> HIDE DEF T
    <3>1. \A U \in SUBSET (S \cap T) : g[U] = h[U]
      BY <1>1, <2>1, <2>2, SumsAgree
    <3> QED BY <2>3, <3>1
  <2> QED BY <1>1, <1>2, <1>4, <2>2, <2>4 DEF Added
<1> QED BY <1>3, <1>4

\* Any element and the others.
LEMMA BytesWithout ==
  ASSUME NEW m, NEW S, Sized(m, S)
  PROVE  /\ Bytes(m, S) \in Nat
         /\ \A x \in S : Bytes(m, S) = m[x].size + Bytes(m, S \ {x})
<1> DEFINE Good(T) == /\ Bytes(m, T) \in Nat
                      /\ \A x \in T : /\ Bytes(m, T) = m[x].size + Bytes(m, T \ {x})
                                      /\ Bytes(m, T \ {x}) \in Nat
           C == {n \in Nat : \A T \in SUBSET S : Cardinality(T) = n => Good(T)}
<1>1. \A T \in SUBSET S : IsFiniteSet(T) /\ Cardinality(T) \in Nat
  BY FS_Subset, FS_CardinalityType DEF Sized
<1>2. 0 \in C
  <2>1. ASSUME NEW T \in SUBSET S, Cardinality(T) = 0 PROVE Good(T)
    <3>1. T = {}
      BY <1>1, <2>1, FS_EmptySet
    <3>2. Bytes(m, T) = 0
      BY <1>1, <3>1, BytesOfChosen
    <3> QED BY <3>1, <3>2
  <2>2. \A T \in SUBSET S : Cardinality(T) = 0 => Good(T)
    BY <2>1
  <2> HIDE DEF Good
  <2> QED BY <2>2
<1>3. ASSUME NEW n \in Nat, n \in C PROVE n + 1 \in C
  <2> SUFFICES ASSUME NEW T \in SUBSET S, Cardinality(T) = n + 1 PROVE Good(T)
    <3> HIDE DEF Good
    <3> QED OBVIOUS
  <2> DEFINE c == Chosen(T)
  <2>1. IsFiniteSet(T) /\ T # {}
    BY <1>1, FS_EmptySet
  <2>2. c \in T /\ m[c].size \in Nat
    BY <2>1, ChosenOne DEF Sized
  <2>3. \A x \in T : T \ {x} \in SUBSET S /\ Cardinality(T \ {x}) = n /\ Good(T \ {x})
    <3>1. \A x \in T : T \ {x} \in SUBSET S /\ Cardinality(T \ {x}) = n
      BY <2>1, FS_RemoveElement
    <3> HIDE DEF Good
    <3> QED BY <1>3, <3>1
  <2>4. Bytes(m, T) = m[c].size + Bytes(m, T \ {c})
    BY <2>1, BytesOfChosen
  <2>5. Bytes(m, T \ {c}) \in Nat
    BY <2>2, <2>3
  <2>6. ASSUME NEW x \in T PROVE /\ Bytes(m, T \ {x}) \in Nat
                                 /\ Bytes(m, T) = m[x].size + Bytes(m, T \ {x})
    <3>1. CASE x = c
      BY <2>4, <2>5, <3>1
    <3>2. CASE x # c
      <4> DEFINE U == (T \ {c}) \ {x}
      <4>1. U = (T \ {x}) \ {c}
        OBVIOUS
      <4>2. Bytes(m, T \ {c}) = m[x].size + Bytes(m, U)
        BY <2>2, <2>3, <3>2
      <4>3. Bytes(m, T \ {x}) = m[c].size + Bytes(m, U)
        <5>1. c \in T \ {x}
          BY <2>2, <3>2
        <5>2. Bytes(m, T \ {x}) = m[c].size + Bytes(m, (T \ {x}) \ {c})
          BY <2>3, <5>1
        <5> QED BY <4>1, <5>2
      <4>4. m[x].size \in Nat /\ Bytes(m, U) \in Nat
        BY <2>2, <2>3, <3>2 DEF Sized
      <4> HIDE DEF U, c
      <4> QED BY <2>2, <2>3, <2>4, <4>2, <4>3, <4>4
    <3> QED BY <3>1, <3>2
  <2>7. Bytes(m, T) \in Nat
    BY <2>2, <2>4, <2>5
  <2> QED BY <2>6, <2>7
<1> HIDE DEF C
<1>4. \A n \in Nat : n \in C
  BY <1>2, <1>3, AllNumbers
<1>5. Good(S)
  <2> HIDE DEF Good
  <2> QED BY <1>1, <1>4 DEF C
<1> QED BY <1>5

-------------------------------------------------------------------------------
(* The counters and the rate.                                               *)

\* The sends that have their tokens.
Final == {s \in UnderWay : sends[s].stage = "final"}

\* The counters of the budget are what the calls under way hold.
Counts ==
  /\ IsFiniteSet(UnderWay)
  /\ budget.pendingSends = Cardinality(UnderWay) /\ budget.pendingSends <= MaxPendingSends
  /\ budget.pendingBytes = Bytes(sends, UnderWay) /\ budget.pendingBytes <= MaxPendingBytes

\* What was sent, the tokens taken and not yet used, and those left are no
\* more than a burst and what the rate had earned at the last refill.
Earned ==
  /\ budget.tokens \in 0 .. BurstBytes
  /\ budget.updated <= now /\ now <= MaxTime
  /\ sentBytes \in Nat
  /\ sentBytes + Bytes(sends, Final) + budget.tokens <= BurstBytes + budget.updated

Accounts == Counts /\ Earned

\* What the options and the invariant of the pauses say of the numbers.
LEMMA Numbers ==
  ASSUME PauseInv
  PROVE  /\ BurstBytes \in Nat /\ MaxPendingBytes \in Nat /\ MaxPendingSends \in Nat /\ MaxTime \in Nat
         /\ now \in Nat /\ budget \in Counters /\ budget.updated \in Nat
         /\ budget.tokens \in Int /\ budget.pendingBytes \in Int /\ budget.pendingSends \in Int
         /\ \A s \in UnderWay : s \in Sends /\ sends[s] \in Send /\ sends[s].size \in Nat
BY UploadAssumption, ConstantsAreNumbers DEF PauseInv, Shapes, Counters, UnderWay, Send

\* The calls are sized, all of them and those that have their tokens.
LEMMA CallsSized ==
  ASSUME PauseInv, Counts
  PROVE  /\ Sized(sends, UnderWay) /\ Bytes(sends, UnderWay) \in Nat
         /\ Sized(sends, Final) /\ Bytes(sends, Final) \in Nat
<1>1. IsFiniteSet(Final)
  BY FS_Subset DEF Counts, Final
<1>2. Sized(sends, UnderWay) /\ Sized(sends, Final)
  BY <1>1, Numbers DEF Counts, Sized, Final
<1> QED BY <1>2, BytesWithout

\* A step that leaves what the calls hold alone.
LEMMA SameAccounts ==
  ASSUME PauseInv, Accounts, UnderWay' = UnderWay, Final' = Final,
         \A s \in UnderWay : sends'[s].size = sends[s].size,
         budget'.pendingSends = budget.pendingSends, budget'.pendingBytes = budget.pendingBytes,
         budget'.tokens = budget.tokens, budget'.updated = budget.updated,
         sentBytes' = sentBytes, now' \in Nat, now <= now', now' <= MaxTime
  PROVE  Accounts'
<1> DEFINE k == sends'
           U == UnderWay
           F == Final
<1>1. IsFiniteSet(U) /\ IsFiniteSet(F) /\ F \subseteq U
  BY CallsSized DEF Accounts, Counts, Sized, Final
<1>2. Bytes(k, U) = Bytes(sends, U) /\ Bytes(k, F) = Bytes(sends, F)
  <2>1. \A s \in U : k[s].size = sends[s].size
    OBVIOUS
  <2> HIDE DEF k, U, F
  <2> QED BY <1>1, <2>1, BytesSame
<1>3. Bytes(sends, UnderWay)' = Bytes(k, U) /\ Bytes(sends, Final)' = Bytes(k, F)
  OBVIOUS
<1>4. Counts'
  BY <1>2, <1>3 DEF Accounts, Counts
<1>5. budget'.updated <= now'
  BY Numbers DEF Accounts, Earned
<1>6. Earned'
  BY <1>2, <1>3, <1>5 DEF Accounts, Earned
<1> QED BY <1>4, <1>6 DEF Accounts

\* release gives back what the call held.
LEMMA OverCounts ==
  ASSUME PauseInv, Accounts, NEW s \in UnderWay, Over(s)
  PROVE  /\ Counts' /\ UnderWay' = UnderWay \ {s} /\ Final' = Final \ {s}
         /\ \A r \in UnderWay \ {s} : sends'[r] = sends[r]
         /\ budget'.tokens = budget.tokens /\ budget'.updated = budget.updated
<1> DEFINE size == sends[s].size
           k == sends'
           U == UnderWay \ {s}
<1>1. /\ UnderWay' = UnderWay \ {s} /\ Final' = Final \ {s}
      /\ \A r \in UnderWay \ {s} : sends'[r] = sends[r]
  BY Numbers DEF Over, UnderWay, Final, PauseInv, Shapes
<1>2. /\ budget'.pendingSends = budget.pendingSends - 1
      /\ budget'.pendingBytes = budget.pendingBytes - size
      /\ budget'.tokens = budget.tokens /\ budget'.updated = budget.updated
  BY Numbers DEF Over, Released, Counters
<1>3. /\ IsFiniteSet(UnderWay \ {s})
      /\ Cardinality(UnderWay \ {s}) = Cardinality(UnderWay) - 1
  BY FS_RemoveElement DEF Accounts, Counts
<1>4. Bytes(sends, UnderWay) = size + Bytes(sends, U)
  BY CallsSized, BytesWithout DEF Accounts
<1>5. Bytes(k, U) = Bytes(sends, U)
  <2>1. \A r \in U : k[r].size = sends[r].size
    BY <1>1
  <2> HIDE DEF k, U
  <2> QED BY <1>3, <2>1, BytesSame DEF U
<1>6. Bytes(sends, UnderWay)' = Bytes(k, U)
  BY <1>1
<1>7. size \in Nat /\ budget.pendingBytes \in Int /\ budget.pendingSends \in Int
      /\ MaxPendingBytes \in Nat /\ MaxPendingSends \in Nat
  BY Numbers
<1>8. /\ budget'.pendingBytes = Bytes(k, U) /\ budget'.pendingBytes <= MaxPendingBytes
      /\ budget'.pendingSends <= MaxPendingSends
  <2>1. Bytes(sends, U) \in Int
    <3>1. Sized(sends, U)
      BY <1>3, Numbers DEF Sized
    <3> QED BY <3>1, BytesWithout
  <2> HIDE DEF size, k, U
  <2> QED BY <1>2, <1>4, <1>5, <1>7, <2>1 DEF Accounts, Counts
<1>9. Counts'
  BY <1>1, <1>2, <1>3, <1>6, <1>8 DEF Accounts, Counts
<1> QED BY <1>1, <1>2, <1>9

\* A call that ends without having had its tokens.
LEMMA RejectedAccounts ==
  ASSUME PauseInv, Accounts, NEW s \in UnderWay, sends[s].stage # "final", Rejected(s), now' = now
  PROVE  Accounts'
<1> DEFINE k == sends'
           F == Final
<1>1. Over(s) /\ sentBytes' = sentBytes
  BY DEF Rejected
<1>2. /\ Counts' /\ Final' = Final \ {s} /\ \A r \in UnderWay \ {s} : sends'[r] = sends[r]
      /\ budget'.tokens = budget.tokens /\ budget'.updated = budget.updated
  BY <1>1, OverCounts
<1>3. Final' = F /\ \A r \in F : k[r].size = sends[r].size
  BY <1>2 DEF Final
<1>4. Bytes(k, F) = Bytes(sends, F)
  <2>1. IsFiniteSet(F)
    BY CallsSized DEF Accounts, Sized
  <2> HIDE DEF k, F
  <2> QED BY <1>3, <2>1, BytesSame
<1>5. Bytes(sends, Final)' = Bytes(k, F)
  BY <1>3
<1>6. Earned'
  BY <1>1, <1>2, <1>4, <1>5 DEF Accounts, Earned
<1> QED BY <1>2, <1>6 DEF Accounts

\* A call that goes on to another stage but the last.
LEMMA MovedAccounts ==
  ASSUME PauseInv, Accounts, NEW s \in UnderWay, sends[s].stage # "final", NEW send \in Send,
         send.size = sends[s].size, send.stage # "final", Moved(s, send), now' = now
  PROVE  Accounts'
<1>1. send # None /\ s \in Sends
  BY NoSendAssumption DEF UnderWay
<1>2. /\ sends' = [sends EXCEPT ![s] = send] /\ budget' = budget /\ sentBytes' = sentBytes
  BY DEF Moved
<1>3. sends'[s] = send /\ \A r \in Sends \ {s} : sends'[r] = sends[r]
  BY <1>1, <1>2 DEF PauseInv, Shapes
<1>4. UnderWay' = UnderWay /\ Final' = Final /\ \A r \in UnderWay : sends'[r].size = sends[r].size
  BY <1>1, <1>3 DEF UnderWay, Final
<1>5. now' \in Nat /\ now <= now' /\ now' <= MaxTime
  BY Numbers DEF Accounts, Earned
<1> QED BY <1>2, <1>4, <1>5, SameAccounts

LEMMA ToCapacityAccounts ==
  ASSUME PauseInv, Accounts, NEW s \in UnderWay, sends[s].stage # "final", NEW send \in Send,
         send.size = sends[s].size, ToCapacity(s, send), now' = now
  PROVE  Accounts'
<1>1. CASE Aborted(send)
  BY <1>1, RejectedAccounts DEF ToCapacity
<1>2. CASE ~Aborted(send)
  <2>1. PICK moved \in AtCapacity(send) : Moved(s, moved)
    BY <1>2 DEF ToCapacity
  <2>2. PICK stage \in {"tokens", "capacity"} : moved = [send EXCEPT !.stage = stage, !.until = 0]
    BY <2>1 DEF AtCapacity
  <2>3. moved \in Send /\ moved.size = send.size /\ moved.stage # "final"
    BY <2>2 DEF Send
  <2> QED BY <2>1, <2>3, MovedAccounts
<1> QED BY <1>1, <1>2

\* sendContent counts its call.
LEMMA SendContentAccounts ==
  ASSUME PauseInv, Accounts, NEW s \in Sends, NEW p \in Pools, NEW size \in Sizes, SendContent(s, p, size)
  PROVE  Accounts'
<1> DEFINE k == sends'
           U == UnderWay
           F == Final
<1>1. /\ s \notin U /\ size \in Nat /\ k[s] # None /\ k[s].size = size /\ k[s].stage = "path"
      /\ \A r \in Sends \ {s} : k[r] = sends[r]
      /\ budget'.pendingSends = budget.pendingSends + 1
      /\ budget'.pendingBytes = budget.pendingBytes + size
      /\ budget'.tokens = budget.tokens /\ budget'.updated = budget.updated
      /\ budget.pendingSends < MaxPendingSends /\ size <= MaxPendingBytes - budget.pendingBytes
      /\ sentBytes' = sentBytes /\ now' = now
  <2> DEFINE send == [pool |-> p, size |-> size, link |-> links[p].link,
                      pauseSignal |-> budget.pauseController, icePath |-> "other", until |-> 0,
                      stage |-> "path"]
  <2>1. send # None
    <3>1. links[p].link \in 0 .. MaxChanges /\ budget.pauseController \in 0 .. MaxPauses
      BY DEF PauseInv, Shapes, PoolLink, Counters
    <3>2. send \in Send
      BY <3>1 DEF Send, Routes
    <3> QED BY <3>2, NoSendAssumption
  <2>2. sends[s] = None /\ sends' = [sends EXCEPT ![s] = send]
    BY DEF SendContent
  <2>3. k[s] = send /\ \A r \in Sends \ {s} : k[r] = sends[r]
    <3> HIDE DEF send
    <3> QED BY <2>2 DEF PauseInv, Shapes
  <2>4. /\ budget'.pendingSends = budget.pendingSends + 1
        /\ budget'.pendingBytes = budget.pendingBytes + size
        /\ budget'.tokens = budget.tokens /\ budget'.updated = budget.updated
    BY Numbers DEF SendContent, Reserved, Counters
  <2> QED BY <2>1, <2>2, <2>3, <2>4, ConstantsAreNumbers DEF SendContent, CanReserve, UnderWay
<1>2. UnderWay' = U \cup {s} /\ Final' = F /\ \A r \in U : k[r] = sends[r]
  BY <1>1 DEF UnderWay, Final
<1>3. /\ IsFiniteSet(U \cup {s}) /\ IsFiniteSet(U) /\ IsFiniteSet(F) /\ F \subseteq U
      /\ Cardinality(U \cup {s}) = Cardinality(U) + 1
  BY <1>1, FS_AddElement, CallsSized DEF Accounts, Counts, Sized, Final
<1>4. Bytes(k, U \cup {s}) = size + Bytes(k, U)
  <2>1. Sized(k, U \cup {s})
    BY <1>1, <1>2, <1>3, Numbers DEF Sized
  <2>2. (U \cup {s}) \ {s} = U /\ s \in U \cup {s}
    BY <1>1
  <2> HIDE DEF k, U
  <2> QED BY <1>1, <2>1, <2>2, BytesWithout
<1>5. Bytes(k, U) = Bytes(sends, U) /\ Bytes(k, F) = Bytes(sends, F)
  <2> HIDE DEF k, U, F
  <2> QED BY <1>2, <1>3, BytesSame
<1>6. Bytes(sends, UnderWay)' = Bytes(k, U \cup {s}) /\ Bytes(sends, Final)' = Bytes(k, F)
  BY <1>2
<1>7. Counts'
  <2> HIDE DEF k
  <2> QED BY <1>1, <1>2, <1>3, <1>4, <1>5, <1>6, Numbers DEF Accounts, Counts
<1>8. Earned'
  BY <1>1, <1>5, <1>6 DEF Accounts, Earned
<1> QED BY <1>7, <1>8 DEF Accounts

LEMMA RouteKnownAccounts ==
  ASSUME PauseInv, Accounts, NEW s \in Sends, RouteKnown(s)
  PROVE  Accounts'
<1>1. PICK path \in Routes : RouteIs(s, path)
  BY DEF RouteKnown, SelectedIcePaths, PauseInv, Shapes, Send, PoolLink
<1> DEFINE send == [sends[s] EXCEPT !.icePath = path]
<1>2. /\ s \in UnderWay /\ sends[s].stage # "final" /\ now' = now /\ now \in Nat
      /\ sends[s] \in Send /\ send \in Send /\ send.size = sends[s].size
  BY DEF RouteKnown, UnderWay, PauseInv, Shapes, Send
<1>3. CASE Rejected(s)
  BY <1>2, <1>3, RejectedAccounts
<1>4. CASE ToCapacity(s, send)
  <2> HIDE DEF send
  <2> QED BY <1>2, <1>4, ToCapacityAccounts
<1>5. ASSUME NEW slot \in Slots(sends[s]), RelayLimited(s, send, Max({now, slot}))
      PROVE  Accounts'
  <2>1. slot \in Nat
    BY <1>2 DEF Slots, PauseInv, Shapes, Send, PoolLink
  <2> DEFINE sendAt == Max({now, slot})
             limited == [send EXCEPT !.stage = "relay", !.until = sendAt]
  <2>2. sendAt \in Nat
    BY <1>2, <2>1, MaxOfTwo
  <2>3. limited \in Send /\ limited.size = sends[s].size /\ limited.stage # "final"
    <3> HIDE DEF sendAt, send
    <3> QED BY <1>2, <2>2 DEF Send
  <2>4. Moved(s, limited) \/ ToCapacity(s, send)
    BY <1>5 DEF RelayLimited
  <2> HIDE DEF limited, send
  <2> QED BY <1>2, <1>4, <2>3, <2>4, MovedAccounts
<1> QED BY <1>1, <1>3, <1>4, <1>5 DEF RouteIs

\* One look at the tokens: what has come is added, and what the frame costs
\* is taken for a send that has its tokens from now on.
LEMMA TakeTokensAccounts ==
  ASSUME PauseInv, Accounts, NEW s \in Sends, TakeTokens(s)
  PROVE  Accounts'
<1> DEFINE k == sends'
           U == UnderWay
           F == Final
           size == sends[s].size
           b == Refilled(budget)
<1>1. s \in U /\ s \notin F /\ sends[s] \in Send /\ size \in Nat /\ sends[s].stage = "tokens"
  BY Numbers DEF TakeTokens, UnderWay, Final, PauseInv, Shapes
<1>2. /\ b.pendingSends = budget.pendingSends /\ b.pendingBytes = budget.pendingBytes
      /\ b.updated = now /\ b.tokens \in 0 .. BurstBytes
      /\ b.tokens - budget.tokens <= now - budget.updated
      /\ b \in Counters
  <2> DEFINE earned == budget.tokens + (now - budget.updated)
             tokens == IF earned > BurstBytes THEN BurstBytes ELSE earned
  <2>1. tokens \in 0 .. BurstBytes /\ tokens - budget.tokens <= now - budget.updated
    BY Numbers DEF Accounts, Earned
  <2>2. b = [budget EXCEPT !.tokens = tokens, !.updated = now]
    BY DEF Refilled
  <2> HIDE DEF tokens
  <2> QED BY <2>1, <2>2, Numbers, RefilledEffect DEF Counters
<1> HIDE DEF b
<1>3. /\ IsFiniteSet(U) /\ IsFiniteSet(F) /\ F \subseteq U
      /\ Sized(sends, U) /\ Sized(sends, F) /\ Bytes(sends, F) \in Nat
  BY CallsSized DEF Accounts, Sized, Final
<1>4. now' = now /\ sentBytes' = sentBytes
  BY DEF TakeTokens
<1>5. CASE b.tokens >= size /\ budget' = [b EXCEPT !.tokens = @ - size]
           /\ sends' = [sends EXCEPT ![s].stage = "final", ![s].until = 0]
  <2> DEFINE paid == [sends[s] EXCEPT !.stage = "final", !.until = 0]
             left == b.tokens - size
  <2>1. /\ budget'.pendingSends = b.pendingSends /\ budget'.pendingBytes = b.pendingBytes
        /\ budget'.tokens = left /\ budget'.updated = b.updated /\ left \in 0 .. BurstBytes
    <3>1. left \in 0 .. BurstBytes
      BY <1>1, <1>2, <1>5, Numbers
    <3>2. budget' = [b EXCEPT !.tokens = left]
      BY <1>5
    <3> HIDE DEF left
    <3> QED BY <1>2, <3>1, <3>2 DEF Counters
  <2>2. paid # None /\ paid.size = size /\ paid.stage = "final"
    <3>1. paid \in Send
      BY <1>1 DEF Send
    <3> QED BY <1>1, <3>1, NoSendAssumption DEF Send
  <2>3. k[s] = paid /\ \A r \in Sends \ {s} : k[r] = sends[r]
    <3>1. sends' = [sends EXCEPT ![s] = paid]
      BY <1>5
    <3> HIDE DEF paid
    <3> QED BY <3>1 DEF PauseInv, Shapes
  <2> HIDE DEF paid
  <2>4. UnderWay' = U /\ Final' = F \cup {s} /\ \A r \in U : k[r].size = sends[r].size
    BY <1>1, <2>2, <2>3 DEF UnderWay, Final
  <2>5. Bytes(k, U) = Bytes(sends, U) /\ Bytes(k, F) = Bytes(sends, F)
    <3> HIDE DEF k, U, F
    <3> QED BY <1>3, <2>4, BytesSame
  <2>6. Bytes(k, F \cup {s}) = size + Bytes(k, F)
    <3>1. IsFiniteSet(F \cup {s})
      BY <1>3, FS_AddElement
    <3>2. Sized(k, F \cup {s}) /\ k[s].size = size
      BY <1>1, <1>3, <2>4, <3>1, Numbers DEF Sized
    <3>3. (F \cup {s}) \ {s} = F /\ s \in F \cup {s}
      BY <1>1
    <3> HIDE DEF k, F, size
    <3> QED BY <3>2, <3>3, BytesWithout
  <2>7. Bytes(sends, UnderWay)' = Bytes(k, U) /\ Bytes(sends, Final)' = Bytes(k, F \cup {s})
    BY <2>4
  <2>8. Counts'
    BY <1>2, <2>1, <2>4, <2>5, <2>7 DEF Accounts, Counts
  <2>9. Earned'
    <3> HIDE DEF k, F, size
    <3>1. Bytes(k, F \cup {s}) = size + Bytes(sends, F)
      BY <2>5, <2>6
    <3> QED BY <1>1, <1>2, <1>3, <1>4, <2>1, <2>7, <3>1, Numbers DEF Accounts, Earned, F, size
  <2> QED BY <2>8, <2>9 DEF Accounts
<1>6. CASE b.tokens < size /\ budget' = b
           /\ sends' = [sends EXCEPT ![s].until = now + (size - b.tokens)]
  <2> DEFINE until == now + (size - b.tokens)
             later == [sends[s] EXCEPT !.until = until]
  <2>1. later # None /\ later.size = size /\ later.stage = "tokens"
    <3>1. until \in Nat
      BY <1>1, <1>2, <1>6, Numbers
    <3> HIDE DEF until
    <3>2. later \in Send
      BY <1>1, <3>1 DEF Send
    <3> QED BY <1>1, <3>2, NoSendAssumption DEF Send
  <2>2. k[s] = later /\ \A r \in Sends \ {s} : k[r] = sends[r]
    <3>1. sends' = [sends EXCEPT ![s] = later]
      BY <1>6
    <3> HIDE DEF later
    <3> QED BY <3>1 DEF PauseInv, Shapes
  <2> HIDE DEF later
  <2>3. UnderWay' = U /\ Final' = F /\ \A r \in U : k[r].size = sends[r].size
    BY <1>1, <2>1, <2>2 DEF UnderWay, Final
  <2>4. Bytes(k, U) = Bytes(sends, U) /\ Bytes(k, F) = Bytes(sends, F)
    <3> HIDE DEF k, U, F
    <3> QED BY <1>3, <2>3, BytesSame
  <2>5. Bytes(sends, UnderWay)' = Bytes(k, U) /\ Bytes(sends, Final)' = Bytes(k, F)
    BY <2>3
  <2>6. Counts'
    BY <1>2, <1>6, <2>3, <2>4, <2>5 DEF Accounts, Counts
  <2>7. Earned'
    BY <1>2, <1>3, <1>4, <1>6, <2>4, <2>5, Numbers DEF Accounts, Earned
  <2> QED BY <2>6, <2>7 DEF Accounts
<1> QED BY <1>5, <1>6 DEF TakeTokens, b

\* The tokens of a call are used when it sends, and lost when it may not.
LEMMA FinishAccounts ==
  ASSUME PauseInv, Accounts, NEW s \in Sends, Finish(s)
  PROVE  Accounts'
<1> DEFINE k == sends'
           F == Final
           size == sends[s].size
<1>1. s \in UnderWay /\ s \in F /\ size \in Nat /\ Over(s) /\ now' = now
  BY Numbers DEF Finish, UnderWay, Final
<1>2. /\ Counts' /\ Final' = F \ {s} /\ \A r \in UnderWay \ {s} : sends'[r] = sends[r]
      /\ budget'.tokens = budget.tokens /\ budget'.updated = budget.updated
  BY <1>1, OverCounts
<1>3. Bytes(sends, F) = size + Bytes(sends, F \ {s}) /\ Bytes(sends, F \ {s}) \in Nat
  <2>1. Sized(sends, F) /\ Sized(sends, F \ {s})
    BY CallsSized, FS_RemoveElement DEF Accounts, Sized
  <2> HIDE DEF F
  <2> QED BY <1>1, <2>1, BytesWithout
<1>4. Bytes(k, F \ {s}) = Bytes(sends, F \ {s})
  <2>1. IsFiniteSet(F \ {s}) /\ \A r \in F \ {s} : k[r].size = sends[r].size
    BY <1>2, CallsSized, FS_RemoveElement DEF Accounts, Sized, Final
  <2> HIDE DEF k, F
  <2> QED BY <2>1, BytesSame
<1>5. Bytes(sends, Final)' = Bytes(k, F \ {s})
  BY <1>2
<1>6. sentBytes' \in {sentBytes, sentBytes + size}
  BY DEF Finish
<1>7. Earned'
  <2> HIDE DEF k, size
  <2> QED BY <1>1, <1>2, <1>3, <1>4, <1>5, <1>6, Numbers DEF Accounts, Earned
<1> QED BY <1>2, <1>7 DEF Accounts

\* A channel that drains wakes calls that have no tokens yet.
LEMMA DrainAccounts ==
  ASSUME PauseInv, Accounts, NEW p \in Pools, Drain(p)
  PROVE  Accounts'
<1>1. \A s \in Sends :
        \/ sends'[s] = sends[s]
        \/ /\ s \in UnderWay /\ sends[s].stage = "capacity"
           /\ sends'[s] = [sends[s] EXCEPT !.stage = "tokens", !.until = 0]
  BY DEF Drain, UnderWay
<1>2. ASSUME NEW s \in UnderWay, sends[s].stage = "capacity",
             sends'[s] = [sends[s] EXCEPT !.stage = "tokens", !.until = 0]
      PROVE  sends'[s] # None /\ sends'[s].stage = "tokens" /\ sends'[s].size = sends[s].size
  <2> DEFINE woken == [sends[s] EXCEPT !.stage = "tokens", !.until = 0]
  <2>1. woken \in Send /\ woken.stage = "tokens" /\ woken.size = sends[s].size
    BY Numbers DEF Send
  <2> HIDE DEF woken
  <2> QED BY <1>2, <2>1, NoSendAssumption DEF woken
<1>3. \A s \in Sends :
        /\ sends'[s] = None <=> sends[s] = None
        /\ s \in UnderWay => /\ sends'[s].size = sends[s].size
                             /\ sends'[s].stage = "final" <=> sends[s].stage = "final"
  <2> TAKE s \in Sends
  <2> DEFINE woken == [sends[s] EXCEPT !.stage = "tokens", !.until = 0]
  <2>1. sends'[s] = sends[s] \/ (s \in UnderWay /\ sends[s].stage = "capacity" /\ sends'[s] = woken)
    BY Zenon, <1>1
  <2>2. s \in UnderWay /\ sends[s].stage = "capacity" /\ sends'[s] = woken
          => sends'[s] # None /\ sends'[s].stage = "tokens" /\ sends'[s].size = sends[s].size
    BY Zenon, <1>2
  <2>3. s \in UnderWay => sends[s] # None
    BY DEF UnderWay
  <2> HIDE DEF woken
  <2>4. CASE sends'[s] = sends[s]
    BY Zenon, <2>4
  <2>5. CASE s \in UnderWay /\ sends[s].stage = "capacity" /\ sends'[s] = woken
    <3>1. sends[s].stage # "final" /\ sends'[s].stage # "final"
      BY <2>2, <2>5
    <3> QED BY Zenon, <2>2, <2>3, <2>5, <3>1
  <2> QED BY Zenon, <2>1, <2>4, <2>5
<1>4. UnderWay' = UnderWay /\ Final' = Final
  BY <1>3 DEF UnderWay, Final
<1>5. \A s \in UnderWay : sends'[s].size = sends[s].size
  BY Zenon, <1>3 DEF UnderWay
<1>6. /\ budget'.pendingSends = budget.pendingSends /\ budget'.pendingBytes = budget.pendingBytes
      /\ budget'.tokens = budget.tokens /\ budget'.updated = budget.updated
      /\ sentBytes' = sentBytes
  BY DEF Drain
<1>7. now' \in Nat /\ now <= now' /\ now' <= MaxTime
  <2>1. now' = now
    BY DEF Drain
  <2>2. now \in Nat /\ MaxTime \in Nat
    BY Numbers
  <2>3. now <= MaxTime
    BY DEF Accounts, Earned
  <2> QED BY <2>1, <2>2, <2>3
<1> QED BY Zenon, <1>4, <1>5, <1>6, <1>7, SameAccounts

\* The budget that has just been made has its burst.
LEMMA AccountsInit == Init => Accounts
<1> SUFFICES ASSUME Init PROVE Accounts
  OBVIOUS
<1>1. UnderWay = {} /\ Final = {}
  BY DEF Init, UnderWay, Final
<1>2. IsFiniteSet({}) /\ Cardinality({}) = 0 /\ Bytes(sends, {}) = 0
  BY FS_EmptySet, BytesOfChosen
<1>3. {BurstBytes, MaxPendingBytes, MaxPendingSends, MaxTime} \subseteq Nat
  BY UploadAssumption
<1>4. Counts
  BY <1>1, <1>2, <1>3 DEF Init, Counts
<1>5. Earned
  BY <1>1, <1>2, <1>3 DEF Init, Earned
<1> QED BY <1>4, <1>5 DEF Accounts

\* Every step keeps the accounts.
LEMMA AccountsStep == PauseInv /\ Accounts /\ [UploadNext]_vars => Accounts'
<1> SUFFICES ASSUME PauseInv, Accounts, [UploadNext]_vars PROVE Accounts'
  OBVIOUS
<1>0. now \in Nat /\ MaxTime \in Nat /\ now <= MaxTime
  BY Numbers DEF Accounts, Earned
<1>1. CASE Tick
  <2>1. UNCHANGED <<budget, sends, sentBytes>> /\ UnderWay' = UnderWay /\ Final' = Final
    BY <1>1 DEF Tick, UnderWay, Final
  <2>2. now' \in Nat /\ now <= now' /\ now' <= MaxTime
    BY <1>0, <1>1 DEF Tick
  <2> QED BY <2>1, <2>2, SameAccounts
<1>2. CASE SetPaused
  <2>1. UNCHANGED <<sends, now, sentBytes>> /\ UnderWay' = UnderWay /\ Final' = Final
    BY <1>2 DEF SetPaused, UnderWay, Final
  <2>2. /\ budget'.pendingSends = budget.pendingSends /\ budget'.pendingBytes = budget.pendingBytes
        /\ budget'.tokens = budget.tokens /\ budget'.updated = budget.updated
    BY <1>2, Numbers DEF SetPaused, Counters
  <2> QED BY <1>0, <2>1, <2>2, SameAccounts
<1>3. ASSUME NEW p \in Pools, ClosePool(p) \/ ReplaceLink(p) \/ ChangeRoute(p) PROVE Accounts'
  <2>1. UNCHANGED <<budget, sends, now, sentBytes>> /\ UnderWay' = UnderWay /\ Final' = Final
    BY <1>3 DEF ClosePool, ReplaceLink, ChangeRoute, UnderWay, Final
  <2> QED BY <1>0, <2>1, SameAccounts
<1>4. ASSUME NEW s \in Sends, RelaySlot(s) \/ AbortSend(s) PROVE Accounts'
  <2>1. /\ s \in UnderWay /\ sends[s] \in Send /\ sends[s].stage # "final" /\ now' = now
        /\ Rejected(s) \/ ToCapacity(s, sends[s])
    BY <1>4 DEF RelaySlot, AbortSend, UnderWay, PauseInv, Shapes
  <2> QED BY <2>1, RejectedAccounts, ToCapacityAccounts
<1>5. CASE UNCHANGED vars
  <2>1. UNCHANGED <<budget, sends, now, sentBytes>> /\ UnderWay' = UnderWay /\ Final' = Final
    BY <1>5 DEF vars, UnderWay, Final
  <2> QED BY <1>0, <2>1, SameAccounts
<1> QED BY <1>1, <1>2, <1>3, <1>4, <1>5, DrainAccounts, SendContentAccounts, RouteKnownAccounts,
           TakeTokensAccounts, FinishAccounts DEF UploadNext

-------------------------------------------------------------------------------
(* The theorems about the counters.                                         *)

\* The upload budget and its calls keep their types, and pendingBytes and
\* pendingSends are exactly what the calls of sendContent under way hold:
\* reserve and release balance whichever way each call ends.
THEOREM UploadTypeCorrect == UploadSpec => []UploadTypeOK
<1>1. PauseInv /\ Accounts => UploadTypeOK
  <2> SUFFICES ASSUME PauseInv, Accounts PROVE UploadTypeOK
    OBVIOUS
  <2>1. Bytes(sends, UnderWay) \in Nat /\ Cardinality(UnderWay) \in Nat
    BY CallsSized, FS_CardinalityType DEF Accounts, Counts
  <2>2. budget \in Budget
    <3>1. /\ budget.tokens \in 0 .. BurstBytes /\ budget.updated \in 0 .. MaxTime
          /\ budget.pendingBytes \in 0 .. MaxPendingBytes /\ budget.pendingSends \in 0 .. MaxPendingSends
      BY <2>1, Numbers DEF Accounts, Counts, Earned
    <3> QED BY <3>1, Numbers DEF Counters, Budget
  <2>3. budget.pendingBytes = MapThenSumSet(LAMBDA s : sends[s].size, UnderWay)
    BY Zenon DEF Bytes, Accounts, Counts
  <2>4. \A s \in Sends : sends[s] = None \/ sends[s] \in Send
    BY DEF PauseInv, Shapes
  <2>5. \A p \in Pools : links[p] \in PoolLink
    BY DEF PauseInv, Shapes
  <2>6. budget.pendingSends = Cardinality(UnderWay)
    BY DEF Accounts, Counts
  <2> HIDE DEF Bytes
  <2> QED BY Zenon, <2>2, <2>3, <2>4, <2>5, <2>6 DEF UploadTypeOK
<1> QED BY <1>1, PauseInit, PauseStep, AccountsInit, AccountsStep, PTL DEF UploadSpec

\* All the pools of a session together send no more than a burst and what
\* bytesPerSecond has earned, for any number of sends that wait, race for
\* the tokens, lose their links or are paused.
THEOREM RateHolds == UploadSpec => []RateBound
<1>1. PauseInv /\ Accounts => RateBound
  <2> SUFFICES ASSUME PauseInv, Accounts PROVE RateBound
    OBVIOUS
  <2>1. Bytes(sends, Final) \in Nat
    BY CallsSized DEF Accounts
  <2> QED BY <2>1, Numbers DEF Accounts, Earned, RateBound
<1> QED BY <1>1, PauseInit, PauseStep, AccountsInit, AccountsStep, PTL DEF UploadSpec
===============================================================================
