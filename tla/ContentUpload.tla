---------------------------- MODULE ContentUpload ----------------------------
(***************************************************************************)
(* The sends of the content pools of one session: sendContent of           *)
(* src/web/content-peer-pool.ts, which reserves a place in the session's   *)
(* upload budget, learns the route, waits for room in the channel and for  *)
(* tokens, and looks at the route again before it sends; and the budget of *)
(* src/web/content-upload-budget.ts the pools share, which the application *)
(* pauses for gameplay and resumes.                                        *)
(*                                                                         *)
(* Each pool is shown with one peer.  An abort runs its listeners at once, *)
(* the awaiting sends learn of it in steps of their own.  One token is one *)
(* byte and comes every BytesPerSecond-th of a second: one tick.           *)
(***************************************************************************)
EXTENDS Naturals, FiniteSets, FiniteSetsExt

CONSTANTS
  Sends,            \* calls of sendContent that may be under way at once
  Pools,
  None,
  Sizes,            \* byte lengths of the frames
  BurstBytes, MaxPendingBytes, MaxPendingSends,  \* the budget's options
  HighWaterMark, LowWaterMark,
  RelayTicks,       \* ticks a byte takes on a relay under the policy "limit"
  MaxTime,          \* bound on the ticks
  MaxPauses,        \* bound on the pauses
  MaxChanges        \* bound on replaced links, changed routes and closed pools

ASSUME UploadAssumption ==
  /\ None \notin Sends \cup Pools
  /\ Sizes \subseteq 1 .. BurstBytes
  /\ {BurstBytes, MaxPendingBytes, MaxPendingSends, HighWaterMark, RelayTicks} \subseteq Nat \ {0}
  /\ LowWaterMark \in 0 .. HighWaterMark - 1
  /\ {MaxTime, MaxPauses, MaxChanges} \subseteq Nat

VARIABLES
  budget,    \* the fields of the ContentUploadBudget
  sends,     \* the calls under way
  links,     \* the pools' links: which one it is, its channel and its route
  policy,    \* relayPolicy
  now,
  sentBytes, \* what was given to channels
  changes,
  doomed     \* the sends that still waited when a pause came

vars == <<budget, sends, links, policy, now, sentBytes, changes, doomed>>

\* pauseController is the one of the last resume; it is aborted while the
\* budget is paused, and every one before it is.
Budget == [tokens : 0 .. BurstBytes, updated : 0 .. MaxTime, paused : BOOLEAN,
           pauseController : 0 .. MaxPauses,
           pendingBytes : 0 .. MaxPendingBytes, pendingSends : 0 .. MaxPendingSends]

\* What the statistics of a connection say of its route: "direct", and
\* "unknown" for want of them, are the same to a send.
Routes == {"relay", "other"}

\* A send awaits the route, its slot on a relay, room in the channel, tokens,
\* or the route once more.
Send == [pool : Pools, size : Sizes, link : 0 .. MaxChanges, pauseSignal : 0 .. MaxPauses,
         icePath : Routes, until : Nat,
         stage : {"path", "relay", "capacity", "tokens", "final"}]

ASSUME NoSendAssumption == None \notin Send

PoolLink == [link : 0 .. MaxChanges, closed : BOOLEAN, route : Routes,
             bufferedAmount : Nat, nextRelaySendAt : Nat]

Init ==
  /\ budget = [tokens |-> BurstBytes, updated |-> 0, paused |-> FALSE, pauseController |-> 0,
               pendingBytes |-> 0, pendingSends |-> 0]
  /\ sends = [s \in Sends |-> None]
  /\ links \in [Pools -> [link : {0}, closed : {FALSE}, route : Routes,
                          bufferedAmount : {0}, nextRelaySendAt : {0}]]
  /\ policy \in {"deny", "limit", "allow"}
  /\ now = 0
  /\ sentBytes = 0
  /\ changes = 0
  /\ doomed = {}

UnderWay == {s \in Sends : sends[s] # None}

-------------------------------------------------------------------------------
(* The budget.                                                              *)

\* reserve
CanReserve(size) ==
  /\ ~budget.paused
  /\ budget.pendingSends < MaxPendingSends
  /\ size <= MaxPendingBytes - budget.pendingBytes

Reserved(size) == [budget EXCEPT !.pendingSends = @ + 1, !.pendingBytes = @ + size]

\* Mutant: what a rejected send had reserved is kept.
ReleasedSendsOnly(b, size) == [b EXCEPT !.pendingSends = @ - 1]

\* release, in the finally of sendContent
Released(b, size) == [b EXCEPT !.pendingSends = @ - 1, !.pendingBytes = @ - size]

\* Mutant: the refill does not remember when it was.
RefilledAgain(b) ==
  [b EXCEPT !.tokens = IF @ + (now - b.updated) > BurstBytes THEN BurstBytes ELSE @ + (now - b.updated)]

\* #consumeReserved: the tokens that have come since the last look.
Refilled(b) ==
  [b EXCEPT !.tokens = IF @ + (now - b.updated) > BurstBytes THEN BurstBytes ELSE @ + (now - b.updated),
            !.updated = now]

\* Mutant: the signal of now decides, not the one of the reservation.
AbortedByNow(send) == budget.paused \/ links[send.pool].closed

\* signals.some(aborted): the pause signal the reservation took, or the
\* pool's sendAbort.
Aborted(send) ==
  \/ budget.paused
  \/ send.pauseSignal # budget.pauseController
  \/ links[send.pool].closed

-------------------------------------------------------------------------------
(* sendContent.                                                             *)

\* A call ends, well or with an error.
Over(s) ==
  /\ sends' = [sends EXCEPT ![s] = None]
  /\ budget' = Released(budget, sends[s].size)
  /\ doomed' = doomed \ {s}

Rejected(s) == Over(s) /\ UNCHANGED sentBytes

Moved(s, send) ==
  /\ sends' = [sends EXCEPT ![s] = send]
  /\ UNCHANGED <<budget, doomed, sentBytes>>

\* The pool's link is still the one the call took.
SameLink(send) == send.link = links[send.pool].link

\* #waitForCapacity of a send that is not aborted: through it at once, or not;
\* how full the channel of a link that is gone was is not known.
AtCapacity(send) ==
  {[send EXCEPT !.stage = stage, !.until = 0] : stage \in
     IF ~SameLink(send) THEN {"tokens", "capacity"}
     ELSE IF links[send.pool].bufferedAmount < HighWaterMark THEN {"tokens"} ELSE {"capacity"}}

ToCapacity(s, send) ==
  \/ Aborted(send) /\ Rejected(s)
  \/ ~Aborted(send) /\ \E moved \in AtCapacity(send) : Moved(s, moved)

\* sendContent up to the await of the route.
SendContent(s, p, size) ==
  /\ sends[s] = None /\ ~links[p].closed
  /\ CanReserve(size)
  /\ budget' = Reserved(size)
  /\ sends' = [sends EXCEPT ![s] = [pool |-> p, size |-> size, link |-> links[p].link,
       pauseSignal |-> budget.pauseController, icePath |-> "other", until |-> 0, stage |-> "path"]]
  /\ UNCHANGED <<links, policy, now, sentBytes, doomed, changes>>

\* selectedIcePath; what it says of a link that is gone is not known, nor are
\* that link's slots.
SelectedIcePaths(send) == IF SameLink(send) THEN {links[send.pool].route} ELSE Routes

Slots(send) == IF SameLink(send) THEN {links[send.pool].nextRelaySendAt} ELSE 0 .. MaxTime

\* A slot on the relay, and what the next send of the link has to wait for.
RelayLimited(s, send, sendAt) ==
  /\ links' = IF SameLink(send)
              THEN [links EXCEPT ![send.pool].nextRelaySendAt = sendAt + send.size * RelayTicks]
              ELSE links
  /\ IF sendAt > now THEN Moved(s, [send EXCEPT !.stage = "relay", !.until = sendAt])
                     ELSE ToCapacity(s, send)

\* The route is known: refused, given a slot on the relay, or on to the wait
\* for capacity.
RouteIs(s, path) ==
  LET send == [sends[s] EXCEPT !.icePath = path] IN
  \/ path = "relay" /\ policy = "deny" /\ Rejected(s) /\ UNCHANGED links
  \/ /\ path = "relay" /\ policy = "limit"
     /\ \E slot \in Slots(sends[s]) : RelayLimited(s, send, Max({now, slot}))
  \/ (path # "relay" \/ policy = "allow") /\ ToCapacity(s, send) /\ UNCHANGED links

RouteKnown(s) ==
  /\ sends[s] # None /\ sends[s].stage = "path"
  /\ \E path \in SelectedIcePaths(sends[s]) : RouteIs(s, path)
  /\ UNCHANGED <<policy, now, changes>>

\* The end of the sleep before a relay's slot: nothing cuts it short.
RelaySlot(s) ==
  /\ sends[s] # None /\ sends[s].stage = "relay" /\ now >= sends[s].until
  /\ ToCapacity(s, sends[s])
  /\ UNCHANGED <<links, policy, now, changes>>

\* The await for capacity or tokens is aborted, or the channel closed.
AbortSend(s) ==
  /\ sends[s] # None /\ sends[s].stage \in {"capacity", "tokens"}
  /\ \/ Aborted(sends[s])
     \/ sends[s].stage = "capacity" /\ ~SameLink(sends[s])
  /\ Rejected(s)
  /\ UNCHANGED <<links, policy, now, changes>>

\* One look of #consumeReserved at the tokens.
TakeTokens(s) ==
  LET send == sends[s]
      b == Refilled(budget)
  IN
  /\ send # None /\ send.stage = "tokens" /\ now >= send.until /\ ~Aborted(send)
  /\ \/ /\ b.tokens >= send.size
        /\ budget' = [b EXCEPT !.tokens = @ - send.size]
        /\ sends' = [sends EXCEPT ![s].stage = "final", ![s].until = 0]
     \/ /\ b.tokens < send.size
        /\ budget' = b
        /\ sends' = [sends EXCEPT ![s].until = now + (send.size - b.tokens)]
  /\ UNCHANGED <<links, policy, now, sentBytes, doomed, changes>>

\* What the link and the route must be when the frame is sent; the check
\* before the second look at the route is repeated after it.
MaySend(send, path) ==
  /\ ~links[send.pool].closed /\ ~budget.paused
  /\ SameLink(send)
  /\ path = "relay" => policy # "deny" /\ (policy = "limit" => send.icePath = "relay")

Finish(s) ==
  LET send == sends[s] IN
  /\ send # None /\ send.stage = "final"
  /\ \E path \in SelectedIcePaths(send) :
       IF MaySend(send, path)
       THEN /\ links' = [links EXCEPT ![send.pool].bufferedAmount = @ + send.size]
            /\ sentBytes' = sentBytes + send.size
       ELSE UNCHANGED <<links, sentBytes>>
  /\ Over(s)
  /\ UNCHANGED <<policy, now, changes>>

-------------------------------------------------------------------------------
(* The application, the channels and the clock.                             *)

\* setPaused
SetPaused ==
  /\ budget.paused \/ budget.pauseController < MaxPauses
  /\ budget' = [budget EXCEPT !.paused = ~@,
                              !.pauseController = IF budget.paused THEN @ + 1 ELSE @]
  /\ doomed' = IF budget.paused THEN doomed
               ELSE doomed \cup {s \in UnderWay : sends[s].stage # "final"}
  /\ UNCHANGED <<sends, links, policy, now, sentBytes, changes>>

\* close()
ClosePool(p) ==
  /\ ~links[p].closed /\ changes < MaxChanges
  /\ changes' = changes + 1
  /\ links' = [links EXCEPT ![p].closed = TRUE]
  /\ UNCHANGED <<budget, sends, policy, now, sentBytes, doomed>>

\* The channel has sent a byte; falling to the low-water mark wakes every
\* send that waits for it, and each goes on without another look.
Drain(p) ==
  LET low == links[p].bufferedAmount = LowWaterMark + 1 IN
  /\ links[p].bufferedAmount > 0
  /\ links' = [links EXCEPT ![p].bufferedAmount = @ - 1]
  /\ sends' = [s \in Sends |->
       IF low /\ s \in UnderWay /\ sends[s].pool = p /\ sends[s].stage = "capacity"
              /\ ~Aborted(sends[s]) /\ SameLink(sends[s])
       THEN [sends[s] EXCEPT !.stage = "tokens", !.until = 0] ELSE sends[s]]
  /\ UNCHANGED <<budget, policy, now, sentBytes, doomed, changes>>

\* The link of a pool is replaced by another.
ReplaceLink(p) ==
  /\ changes < MaxChanges
  /\ changes' = changes + 1
  /\ links' = [links EXCEPT ![p].link = @ + 1, ![p].bufferedAmount = 0, ![p].nextRelaySendAt = 0]
  /\ UNCHANGED <<budget, sends, policy, now, sentBytes, doomed>>

\* ICE selects another pair, to or from a relay, or the statistics fail.
ChangeRoute(p) ==
  /\ changes < MaxChanges
  /\ changes' = changes + 1
  /\ links' = [links EXCEPT ![p].route = IF @ = "relay" THEN "other" ELSE "relay"]
  /\ UNCHANGED <<budget, sends, policy, now, sentBytes, doomed>>

Tick ==
  /\ now < MaxTime
  /\ now' = now + 1
  /\ UNCHANGED <<budget, sends, links, policy, sentBytes, doomed, changes>>

-------------------------------------------------------------------------------
UploadNext ==
  \/ Tick \/ SetPaused
  \/ \E p \in Pools : ClosePool(p) \/ Drain(p) \/ ReplaceLink(p) \/ ChangeRoute(p)
  \/ \E s \in Sends :
       \/ \E p \in Pools, size \in Sizes : SendContent(s, p, size)
       \/ RouteKnown(s) \/ RelaySlot(s) \/ AbortSend(s) \/ TakeTokens(s) \/ Finish(s)

UploadSpec == Init /\ [][UploadNext]_vars

-------------------------------------------------------------------------------
(* Properties.                                                              *)

\* The counters of what waits are exactly what the calls under way hold, so
\* they return to zero whichever of its ways out each call takes.
UploadTypeOK ==
  /\ budget \in Budget
  /\ \A s \in Sends : sends[s] = None \/ sends[s] \in Send
  /\ \A p \in Pools : links[p] \in PoolLink
  /\ budget.pendingSends = Cardinality(UnderWay)
  /\ budget.pendingBytes = MapThenSumSet(LAMBDA s : sends[s].size, UnderWay)

\* A pause rejects the sends that wait rather than letting them pile up for
\* the resume: whatever waited for its route, its slot, room or tokens when
\* gameplay was given priority never sends, however soon uploads resume.
PauseRejectsWaiting ==
  [][\A s \in doomed : sends'[s] = None => sentBytes' = sentBytes]_vars

\* All pools of the session together send no more than a burst and what the
\* rate has earned since, however their sends wait, race and fail.
RateBound == sentBytes <= BurstBytes + now
===============================================================================
