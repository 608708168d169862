------------------------------ MODULE GameFiles ------------------------------
(***************************************************************************)
(* A participant that asks others for whole files of the game and those    *)
(* that answer it: GameFiles (src/web/game-files.ts), which sends requests *)
(* and rejections over the reliable channel, above ContentTransfer         *)
(* (src/web/content-transfer.ts), which sends a file over the ordered      *)
(* content channel as a start, its chunks and a complete.                  *)
(*                                                                         *)
(* Participants are honest and send what they verified, but may run        *)
(* another release of the game, whose file is another; paths and bytes are *)
(* left out otherwise, and so is the refusal of a chunk that differs from  *)
(* the manifest.  A request is served at most once, so its id is also the  *)
(* id of its transfer.  A session keeps its peers' ids across a lost link: *)
(* what was being sent goes on over the next one.                          *)
(***************************************************************************)
EXTENDS Naturals, FiniteSets, SequencesExt

CONSTANTS
  Providers,
  Ids,          \* request ids
  None,
  Chunks,       \* chunks of the file
  MaxPending,   \* maxPendingRequests
  MaxFaults     \* bound on lost links and closed GameFiles

ASSUME FilesAssumption ==
  /\ None \notin Providers \cup Ids
  /\ {Chunks, MaxPending, MaxFaults} \subseteq Nat

VARIABLES
  requests,   \* what the requester asked: pending, and how it ended
  receiving,  \* its ContentTransfer, by provider
  serving,    \* the one entry of incoming a requester can have, by provider
  sendings,   \* the transfer.sendFile calls under way, by provider
  wire,       \* what is on its way, by provider
  links,      \* whether the two are connected, and whether frames were lost
  closed,     \* whether the requester's GameFiles is
  faults

vars == <<requests, receiving, serving, sendings, wire, links, closed, faults>>

\* A pending request has a timer, except while its file is verified.
Request == [to : Providers \cup {None}, state : {"unasked", "pending", "resolved", "rejected"},
            timer : BOOLEAN, verifying : BOOLEAN]

Serving == [request : Ids, state : {"waiting", "sending"}]

\* The next step of a sending: to verify the value (0), to send the start,
\* a chunk, or the complete.
Sending == [request : Ids, next : 0 .. Chunks + 2]

Frame == [type : {"start", "chunk", "complete"}, request : Ids]

\* The transfer a peer has under way, and the frame its chain is verifying.
Receiving == [incoming : [request : Ids, receivedChunks : 0 .. Chunks] \cup {None},
              handling : Frame \cup {None}]

LinkState == [up : BOOLEAN, lost : BOOLEAN, sameRelease : BOOLEAN, open : BOOLEAN]

Init ==
  /\ requests = [r \in Ids |-> [to |-> None, state |-> "unasked", timer |-> FALSE, verifying |-> FALSE]]
  /\ receiving = [p \in Providers |-> [incoming |-> None, handling |-> None]]
  /\ serving = [p \in Providers |-> None]
  /\ sendings = [p \in Providers |-> {}]
  /\ wire = [p \in Providers |-> [asks |-> <<>>, rejects |-> <<>>, content |-> <<>>]]
  /\ links \in [Providers -> [up : {TRUE}, lost : {FALSE}, sameRelease : BOOLEAN, open : {TRUE}]]
  /\ closed = FALSE
  /\ faults = 0

PendingAt(p) == {r \in Ids : requests[r].state = "pending" /\ requests[r].to = p}

-------------------------------------------------------------------------------
(* The requester: GameFiles.                                                *)

\* A request is removed from pending and its caller told.
Settled(request, state) == [request EXCEPT !.state = state, !.timer = FALSE]

\* The events of a transfer go to the pending request they name.
Matching(p, r) == r \in PendingAt(p)

\* Mutant: news of a transfer stops the clock for good.
TimerStopped(p, r) ==
  [requests EXCEPT ![r] = IF Matching(p, r) THEN [@ EXCEPT !.timer = FALSE] ELSE @]

\* #handleStarted, #handleProgress
Rearmed(p, r) ==
  [requests EXCEPT ![r] = IF Matching(p, r) THEN [@ EXCEPT !.timer = TRUE] ELSE @]

\* #handleTransferFailed, #receiveRejection
Refused(p, r) ==
  [requests EXCEPT ![r] = IF Matching(p, r) THEN Settled(@, "rejected") ELSE @]

\* #handleFile up to its await
Arrived(p, r) ==
  [requests EXCEPT ![r] = IF Matching(p, r) THEN [@ EXCEPT !.timer = FALSE, !.verifying = TRUE] ELSE @]

\* requestFile; the reliable channel may refuse what the content channel is
\* ready for.
RequestFile(r, p) ==
  /\ ~closed /\ requests[r].state = "unasked"
  /\ Cardinality({q \in Ids : requests[q].state = "pending"}) < MaxPending
  /\ PendingAt(p) = {} /\ links[p].up
  /\ \/ /\ requests' = [requests EXCEPT ![r] = [to |-> p, state |-> "pending", timer |-> TRUE, verifying |-> FALSE]]
        /\ wire' = [wire EXCEPT ![p].asks = Append(@, r)]
     \/ /\ requests' = [requests EXCEPT ![r].state = "rejected"]
        /\ UNCHANGED wire
  /\ UNCHANGED <<receiving, serving, sendings, links, closed, faults>>

RequestTimeout(r) ==
  /\ requests[r].timer
  /\ requests' = [requests EXCEPT ![r] = Settled(@, "rejected")]
  /\ UNCHANGED <<receiving, serving, sendings, wire, links, closed, faults>>

ReceiveRejection(p) ==
  /\ wire[p].rejects # <<>> /\ ~closed
  /\ requests' = Refused(p, Head(wire[p].rejects))
  /\ wire' = [wire EXCEPT ![p].rejects = Tail(@)]
  /\ UNCHANGED <<receiving, serving, sendings, links, closed, faults>>

\* Mutant: the request is taken to be pending still.
ResolvedAnyway(request) == [Settled(request, "resolved") EXCEPT !.verifying = FALSE]

\* #handleFile after its await: the request may have been settled meanwhile.
AfterVerification(request) ==
  IF request.state = "pending" THEN [Settled(request, "resolved") EXCEPT !.verifying = FALSE]
  ELSE [request EXCEPT !.verifying = FALSE]

FileVerified(r) ==
  /\ requests[r].verifying
  /\ requests' = [requests EXCEPT ![r] = AfterVerification(@)]
  /\ UNCHANGED <<receiving, serving, sendings, wire, links, closed, faults>>

-------------------------------------------------------------------------------
(* The requester: ContentTransfer.  The frames of a peer form a chain: none *)
(* is looked at while one before it is verified.                            *)

\* #startIncoming
Start(p, r) ==
  IF links[p].sameRelease /\ receiving[p].incoming = None
  THEN /\ receiving' = [receiving EXCEPT ![p].incoming = [request |-> r, receivedChunks |-> 0]]
       /\ requests' = Rearmed(p, r)
  ELSE /\ requests' = Refused(p, r)
       /\ UNCHANGED receiving

\* The frame belongs to the active transfer.
Belongs(p, frame) ==
  receiving[p].incoming # None /\ receiving[p].incoming.request = frame.request

\* #completeIncoming: the transfer is over, whatever follows.
Completed(p) == [receiving[p] EXCEPT !.incoming = None]

\* #handleMessage up to the await, also of what was queued before a close
ReceiveFrame(p) ==
  LET frame == Head(wire[p].content)
      entry == receiving[p].incoming
  IN
  /\ wire[p].content # <<>> /\ receiving[p].handling = None
  /\ wire' = [wire EXCEPT ![p].content = Tail(@)]
  /\ \/ frame.type = "start" /\ Start(p, frame.request)
     \/ /\ frame.type # "start" /\ ~Belongs(p, frame)
        /\ UNCHANGED <<receiving, requests>>
     \/ /\ frame.type = "chunk" /\ Belongs(p, frame)
        /\ receiving' = [receiving EXCEPT ![p].handling = frame]
        /\ UNCHANGED requests
     \/ /\ frame.type = "complete" /\ Belongs(p, frame)
        /\ IF entry.receivedChunks = Chunks
           THEN /\ receiving' = [receiving EXCEPT ![p] = [Completed(p) EXCEPT !.handling = frame]]
                /\ UNCHANGED requests
           ELSE /\ receiving' = [receiving EXCEPT ![p] = Completed(p)]
                /\ requests' = Refused(p, frame.request)
  /\ UNCHANGED <<serving, sendings, links, closed, faults>>

\* A chunk more, if the transfer is still under way.
Received(incoming) ==
  IF incoming = None THEN None ELSE [incoming EXCEPT !.receivedChunks = @ + 1]

\* The rest of #acceptChunk, or of #completeIncoming.
FrameVerified(p) ==
  LET frame == receiving[p].handling IN
  /\ frame # None
  /\ receiving' = [receiving EXCEPT ![p].handling = None,
       ![p].incoming = IF frame.type = "chunk" THEN Received(@) ELSE @]
  /\ requests' = IF frame.type = "chunk" THEN Rearmed(p, frame.request) ELSE Arrived(p, frame.request)
  /\ UNCHANGED <<serving, sendings, wire, links, closed, faults>>

-------------------------------------------------------------------------------
(* The provider.                                                            *)

\* #sendReject: lost with the link.
Rejecting(w, p, r) == IF links[p].up THEN [w EXCEPT ![p].rejects = Append(@, r)] ELSE w

\* #receiveRequest: busy, or the content channel is not ready, or accepted.
ReceiveRequest(p) ==
  LET r == Head(wire[p].asks)
      taken == [wire EXCEPT ![p].asks = Tail(@)]
  IN
  /\ wire[p].asks # <<>>
  /\ \/ /\ links[p].open
        /\ wire' = Rejecting(taken, p, r)
        /\ UNCHANGED serving
     \/ /\ links[p].open /\ serving[p] = None
        /\ serving' = [serving EXCEPT ![p] = [request |-> r, state |-> "waiting"]]
        /\ wire' = taken
     \/ /\ ~links[p].open
        /\ wire' = taken
        /\ UNCHANGED serving
  /\ UNCHANGED <<requests, receiving, sendings, links, closed, faults>>

\* sendFile, by the application or for a provider function's value
SendFile(p) ==
  /\ serving[p] # None /\ serving[p].state = "waiting"
  /\ serving' = [serving EXCEPT ![p].state = "sending"]
  /\ sendings' = [sendings EXCEPT ![p] = @ \cup {[request |-> serving[p].request, next |-> 0]}]
  /\ UNCHANGED <<requests, receiving, wire, links, closed, faults>>

\* rejectRequest, for want of a value or of an answer in time
RejectRequest(p) ==
  /\ serving[p] # None /\ serving[p].state = "waiting"
  /\ serving' = [serving EXCEPT ![p] = None]
  /\ wire' = Rejecting(wire, p, serving[p].request)
  /\ UNCHANGED <<requests, receiving, sendings, links, closed, faults>>

\* Mutant: a failed sending leaves its request in incoming.
FreedIfSent(p, x) ==
  IF serving[p] # None /\ serving[p].request = x.request /\ x.next = Chunks + 2 THEN None ELSE serving[p]

\* The end of sendFile, either way: its request is served.
Freed(p, x) ==
  IF serving[p] # None /\ serving[p].request = x.request THEN None ELSE serving[p]

\* transfer.sendFile stops: the value is not the file of the manifest, or
\* the peer is not there.
SendFailed(p, x) ==
  /\ x \in sendings[p] /\ (x.next = 0 \/ ~links[p].up)
  /\ sendings' = [sendings EXCEPT ![p] = @ \ {x}]
  /\ serving' = [serving EXCEPT ![p] = Freed(p, x)]
  /\ wire' = Rejecting(wire, p, x.request)
  /\ UNCHANGED <<requests, receiving, links, closed, faults>>

\* One await of transfer.sendFile; a closed requester queues no frame.
SendNext(p, x) ==
  LET frame == [type |-> CASE x.next = 1 -> "start" [] x.next = Chunks + 2 -> "complete" [] OTHER -> "chunk",
                request |-> x.request]
      rest == sendings[p] \ {x}
      further == [x EXCEPT !.next = @ + 1]
      done == x.next = Chunks + 2
  IN
  /\ x \in sendings[p] /\ (x.next = 0 \/ links[p].up)
  /\ wire' = IF x.next = 0 \/ closed THEN wire ELSE [wire EXCEPT ![p].content = Append(@, frame)]
  /\ sendings' = [sendings EXCEPT ![p] = IF done THEN rest ELSE rest \cup {further}]
  /\ serving' = [serving EXCEPT ![p] = IF done THEN Freed(p, x) ELSE @]
  /\ UNCHANGED <<requests, receiving, links, closed, faults>>

-------------------------------------------------------------------------------
(* The session.                                                             *)

\* A link is lost with what is on its way; what the requester's browser has
\* handed over stays in the chain.
LinkDown(p) ==
  /\ links[p].up /\ faults < MaxFaults
  /\ links' = [links EXCEPT ![p].up = FALSE, ![p].lost = TRUE]
  /\ \E k \in 0 .. Len(wire[p].content) :
       wire' = [wire EXCEPT ![p] = [asks |-> <<>>, rejects |-> <<>>, content |-> SubSeq(@.content, 1, k)]]
  /\ faults' = faults + 1
  /\ UNCHANGED <<requests, receiving, serving, sendings, closed>>

LinkUp(p) ==
  /\ ~links[p].up
  /\ links' = [links EXCEPT ![p].up = TRUE]
  /\ UNCHANGED <<requests, receiving, serving, sendings, wire, closed, faults>>

\* #handleParticipantDisconnected at the requester, and at the provider
ProviderGone(p) ==
  /\ ~links[p].up /\ ~closed /\ PendingAt(p) # {}
  /\ requests' = [r \in Ids |-> IF r \in PendingAt(p) THEN Settled(requests[r], "rejected") ELSE requests[r]]
  /\ UNCHANGED <<receiving, serving, sendings, wire, links, closed, faults>>

RequesterGone(p) ==
  /\ ~links[p].up /\ serving[p] # None
  /\ serving' = [serving EXCEPT ![p] = None]
  /\ UNCHANGED <<requests, receiving, sendings, wire, links, closed, faults>>

\* close() of the requester's GameFiles and its ContentTransfer: the frames
\* that wait in the chains stay there, and no others follow.
CloseRequester ==
  /\ ~closed /\ faults < MaxFaults
  /\ closed' = TRUE
  /\ requests' = [r \in Ids |-> IF requests[r].state = "pending" THEN Settled(requests[r], "rejected")
                                ELSE requests[r]]
  /\ receiving' = [p \in Providers |-> [receiving[p] EXCEPT !.incoming = None]]
  /\ \E queued \in [Providers -> UNION {0 .. Len(wire[p].content) : p \in Providers}] :
       /\ \A p \in Providers : queued[p] <= Len(wire[p].content)
       /\ wire' = [p \in Providers |-> [wire[p] EXCEPT !.content = SubSeq(@, 1, queued[p])]]
  /\ links' = [p \in Providers |-> [links[p] EXCEPT !.lost = TRUE]]
  /\ faults' = faults + 1
  /\ UNCHANGED <<serving, sendings>>

\* close() of a provider's: what it sends it goes on sending.
CloseProvider(p) ==
  /\ links[p].open /\ faults < MaxFaults
  /\ links' = [links EXCEPT ![p].open = FALSE]
  /\ serving' = [serving EXCEPT ![p] = None]
  /\ faults' = faults + 1
  /\ UNCHANGED <<requests, receiving, sendings, wire, closed>>

-------------------------------------------------------------------------------
FilesNext ==
  \/ CloseRequester
  \/ \E r \in Ids : RequestTimeout(r) \/ FileVerified(r)
  \/ \E p \in Providers :
       \/ \E r \in Ids : RequestFile(r, p)
       \/ ReceiveRejection(p) \/ ReceiveFrame(p) \/ FrameVerified(p)
       \/ ReceiveRequest(p) \/ SendFile(p) \/ RejectRequest(p)
       \/ \E x \in sendings[p] : SendFailed(p, x) \/ SendNext(p, x)
       \/ LinkDown(p) \/ LinkUp(p) \/ ProviderGone(p) \/ RequesterGone(p) \/ CloseProvider(p)

\* Timers fire and digests are computed; nothing is assumed of the others.
FilesFairness == \A r \in Ids : WF_vars(RequestTimeout(r)) /\ WF_vars(FileVerified(r))

FilesSpec == Init /\ [][FilesNext]_vars /\ FilesFairness

-------------------------------------------------------------------------------
(* Properties.                                                              *)

\* A pending request waits for its timer or for its verification.
NoneForgotten == \A r \in Ids : requests[r].state = "pending" => requests[r].timer \/ requests[r].verifying

\* Types, and: a peer has one request of ours pending, and a pending request
\* waits for its timer or for its verification, never for neither.
FilesTypeOK ==
  /\ requests \in [Ids -> Request]
  /\ receiving \in [Providers -> Receiving]
  /\ \A p \in Providers : serving[p] = None \/ serving[p] \in Serving
  /\ \A p \in Providers : sendings[p] \subseteq Sending
  /\ \A p \in Providers : ToSet(wire[p].content) \subseteq Frame
  /\ links \in [Providers -> LinkState]
  /\ \A p \in Providers : Cardinality(PendingAt(p)) <= 1
  /\ NoneForgotten

Promised == INSTANCE Requests WITH outcome <- [r \in Ids |-> requests[r].state]

\* Every request is settled, and settled once, whatever of timeouts,
\* rejections, departures, a close and the verification of the file it
\* meets, and in whatever order: requestFile implements Requests.
RequestsSettle == Promised!RequestSpec

\* Neither end keeps a place for a transfer that is not going on: a
\* provider's entry that is sending has its sending, so that it is not busy
\* for ever, and the requester's transfer has a sender or frames to come, so
\* that the next one of the peer is not refused, unless frames were lost, with
\* a link or at a close of the requester.
NoStuckTransfer ==
  \A p \in Providers :
    /\ serving[p] # None /\ serving[p].state = "sending"
         => \E x \in sendings[p] : x.request = serving[p].request
    /\ receiving[p].incoming # None /\ ~links[p].lost
         => \/ \E x \in sendings[p] : x.request = receiving[p].incoming.request
            \/ [type |-> "complete", request |-> receiving[p].incoming.request] \in ToSet(wire[p].content)
===============================================================================
