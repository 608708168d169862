---------------------------- MODULE SwarmDownload ----------------------------
(***************************************************************************)
(* The download of a file from several seeders at once:                    *)
(* ContentSwarmDownloader (src/web/content-swarm-downloader.ts), which     *)
(* prepares its sources and deals the missing chunks among them in rounds, *)
(* ContentChunkExchange (src/web/content-chunk-exchange.ts), which         *)
(* requests them and puts what comes into the store, and the seeders'      *)
(* exchanges.  Which participants seed is ContentSeederDiscovery's         *)
(* (src/web/content-seeder-discovery.ts); the peer pool is an interface.   *)
(*                                                                         *)
(* The writers of the store are the chains of the seeders: a chain handles *)
(* one message of its peer at a time and waits for its put.                *)
(***************************************************************************)
EXTENDS PersistentChunks, FiniteSets, FiniteSetsExt

CONSTANTS
  Advertised,   \* the seeders of the file, in the order of their ids
  MaxSources,   \* maxSources
  MayDiffer,    \* the seeders whose manifest may be another
  MaxDownloads  \* bound on the calls of download()

Seeders == ToSet(Advertised)

ASSUME SwarmAssumption ==
  /\ Writers = Seeders /\ Advertised \in Seq(Seeders) /\ IsInjective(Advertised)
  /\ Chunks \subseteq Nat /\ IsFiniteSet(Chunks)
  /\ MaxSources \in 1 .. 4 /\ MaxDownloads \in Nat /\ MayDiffer \subseteq Seeders

VARIABLES
  download,  \* the operation under way, or how the last one ended
  requests,  \* the chunk request of each source in the round
  peers,     \* the links of the content pool
  inbound,   \* the frames of each seeder not yet handled
  holds      \* what each seeder has; one of another layout has one large chunk

swarmVars == <<download, requests, peers, inbound, holds>>
vars == <<storeVars, swarmVars>>

\* missing: what was missing when it last looked; linked: the links that were
\* ready when it began; advertised: the seeders #prepareSources has still to
\* look at, and awaits: what it awaits of the first; disturbed: whether a
\* send, a link, a put or a timer failed it, or the store was cleared.
Download == [stage : {"idle", "preparing", "round", "complete", "failed"},
             missing : SUBSET Chunks, linked : SUBSET Seeders, advertised : Seq(Seeders),
             awaits : {"nothing", "connect", "link"}, sources : Seq(Seeders),
             failed : SUBSET Seeders, unavailable : [Seeders -> SUBSET Chunks],
             cursor : 0 .. 11, call : 0 .. MaxDownloads, disturbed : BOOLEAN]

\* A round asks a source once: a batch holds the whole file.  The call of
\* download() it belongs to stands for the request's id.  send: whether
\* sendContent is awaited, and whether the link it took is still there.
ChunkRequest == [state : {"none", "pending", "resolved", "rejected"}, send : {"settled", "linked", "gone"},
                 requested : SUBSET Chunks, received : SUBSET Chunks, call : 0 .. MaxDownloads]

Frame == [type : {"chunk", "complete", "error"}, chunk : Chunks \cup {None}, call : 0 .. MaxDownloads]

NoRequest == [state |-> "none", send |-> "settled", requested |-> {}, received |-> {}, call |-> 0]

Idle(call) == [stage |-> "idle", missing |-> {}, linked |-> {}, advertised |-> <<>>, awaits |-> "nothing",
               sources |-> <<>>, failed |-> {}, unavailable |-> [s \in Seeders |-> {}],
               cursor |-> 0, call |-> call, disturbed |-> FALSE]

Init ==
  /\ StoreInit
  /\ download = Idle(0)
  /\ requests = [s \in Seeders |-> NoRequest]
  /\ peers = [s \in Seeders |-> "absent"]
  /\ inbound = [s \in Seeders |-> <<>>]
  /\ holds \in [Seeders -> [chunks : SUBSET Chunks, otherLayout : BOOLEAN]]
  /\ \A s \in Seeders : holds[s].otherLayout => s \in MayDiffer /\ holds[s].chunks = Chunks

-------------------------------------------------------------------------------
(* The rounds.                                                              *)

Pending(s) == requests[s].state = "pending"

\* The numbers of S in their order, and the elements of s at those places.
Ascending(S) == CHOOSE q \in [1 .. Cardinality(S) -> S] : \A j, k \in DOMAIN q : j < k => q[j] < q[k]
At(s, S) == [n \in 1 .. Cardinality(S) |-> s[Ascending(S)[n]]]

\* The places of the sources a chunk may be asked of.
Eligible(d, i) ==
  {k \in DOMAIN d.sources : d.sources[k] \notin d.failed /\ i \notin d.unavailable[d.sources[k]]}

\* The chunks that were missing and can be asked of someone are dealt in
\* turn, each to the next source eligible.
Dealt(d) == {i \in d.missing : Eligible(d, i) # {}}

SourceOf(d, i) ==
  LET cursor == d.cursor + Cardinality({j \in Dealt(d) : j < i})
      eligible == At(d.sources, Eligible(d, i))
  IN eligible[(cursor % Len(eligible)) + 1]

\* To at most four sources a cursor modulo 12 is the same.
Deal(d) == [cursor |-> (d.cursor + Cardinality(Dealt(d))) % 12,
            given |-> [s \in Seeders |-> {i \in Dealt(d) : SourceOf(d, i) = s}]]

\* #serveRequest at a seeder: what it has of the request, and its
\* completion, or #sendError when its file has no such chunks.
Response(s, requested, call) ==
  LET frame(type, i) == [type |-> type, chunk |-> i, call |-> call]
      sent == Ascending(requested \cap holds[s].chunks)
  IN IF holds[s].otherLayout /\ requested # {Min(Chunks)} THEN <<frame("error", None)>>
     ELSE [k \in DOMAIN sent |-> frame("chunk", sent[k])] \o <<frame("complete", None)>>

\* requestChunks of each source that is given some, which awaits sendContent:
\* that throws at once where no link is ready.  The download fails when none
\* is given any.
Round(d) ==
  LET deal == Deal(d)
      asked == {s \in Seeders : deal.given[s] # {}}
      reached == {s \in asked : peers[s] = "ready"}
  IN
  /\ download' = [d EXCEPT !.cursor = deal.cursor, !.stage = IF asked = {} THEN "failed" ELSE "round"]
  /\ requests' = [s \in Seeders |->
       IF s \notin asked THEN NoRequest
       ELSE [state |-> IF s \in reached THEN "pending" ELSE "rejected",
             send |-> IF s \in reached THEN "linked" ELSE "settled",
             requested |-> deal.given[s], received |-> {}, call |-> d.call]]

\* Mutant: a source that lacks a chunk is given up for the others too.
LearnedOfSources(d) ==
  [d EXCEPT !.failed = @ \cup {s \in Seeders : requests[s].state = "rejected"
                                 \/ requests[s].received # requests[s].requested}]

\* What the settled requests of the round have shown.
Learned(d) ==
  [d EXCEPT !.failed = @ \cup {s \in Seeders : requests[s].state = "rejected"},
            !.unavailable = [s \in Seeders |->
              @[s] \cup IF requests[s].state = "resolved" THEN requests[s].requested \ requests[s].received
                        ELSE {}]]

\* Mutant: a round needs every answer.
AllResolved == \A s \in Seeders : requests[s].state \in {"none", "resolved"} /\ requests[s].send = "settled"

\* requestChunks returns what became of the request once its send has settled.
Sending(s) == requests[s].send # "settled"

\* Promise.allSettled
AllSettled == \A s \in Seeders : ~Pending(s) /\ ~Sending(s)

\* #download after a round
EndRound ==
  /\ download.stage = "round" /\ AllSettled
  /\ LET learned == [Learned(download) EXCEPT !.missing = missingChunks] IN
       IF missingChunks = {}
       THEN /\ download' = [learned EXCEPT !.stage = "complete"]
            /\ requests' = [s \in Seeders |-> NoRequest]
       ELSE Round(learned)
  /\ UNCHANGED <<storeVars, peers, inbound, holds>>

-------------------------------------------------------------------------------
(* download() and its sources.                                              *)

\* download() of a file that no call under way shares: a participant seeds
\* the file when it holds some of it.
StartDownload ==
  LET known == At(Advertised, {k \in DOMAIN Advertised : holds[Advertised[k]].chunks # {}})
      d == [Idle(download.call + 1) EXCEPT !.missing = missingChunks, !.advertised = known,
                                           !.linked = {s \in Seeders : peers[s] = "ready"}]
  IN
  /\ download.stage \notin {"preparing", "round"} /\ download.call < MaxDownloads
  /\ download' = [d EXCEPT !.stage = IF missingChunks = {} THEN "complete"
                                     ELSE IF known = <<>> THEN "failed" ELSE "preparing"]
  /\ UNCHANGED <<storeVars, requests, peers, inbound, holds>>

Candidate == Head(download.advertised)

\* The next seeder, whether it joined the sources or not.
Passed(d) == [d EXCEPT !.advertised = Tail(@), !.awaits = "nothing"]
Taken == [Passed(download) EXCEPT !.sources = Append(@, Candidate)]
PassedOver == [Passed(download) EXCEPT !.disturbed = TRUE]

Looking == download.stage = "preparing" /\ download.advertised # <<>> /\ Len(download.sources) < MaxSources

\* #prepareSources looks at the next seeder: one that was linked when it
\* began is taken as it is; a link that is there is waited for; one that is
\* not is dialled, unless the pool is full.
Prepare ==
  /\ Looking /\ download.awaits = "nothing"
  /\ \/ /\ Candidate \in download.linked
        /\ download' = Taken
        /\ UNCHANGED peers
     \/ /\ Candidate \notin download.linked /\ peers[Candidate] # "absent"
        /\ download' = [download EXCEPT !.awaits = "link"]
        /\ UNCHANGED peers
     \/ /\ Candidate \notin download.linked /\ peers[Candidate] = "absent"
        /\ \/ /\ download' = [download EXCEPT !.awaits = "connect"]
              /\ peers' = [peers EXCEPT ![Candidate] = "connecting"]
           \/ download' = PassedOver /\ UNCHANGED peers
  /\ UNCHANGED <<storeVars, requests, inbound, holds>>

\* connect() has settled, which nothing bounds: its offer is out, or it
\* failed, and with it the link, unless another has taken its place.
Connected ==
  /\ Looking /\ download.awaits = "connect"
  /\ \/ download' = [download EXCEPT !.awaits = "link"] /\ UNCHANGED peers
     \/ /\ download' = PassedOver
        /\ peers' = [peers EXCEPT ![Candidate] = IF @ = "connecting" THEN "absent" ELSE @]
  /\ UNCHANGED <<storeVars, requests, inbound, holds>>

\* #waitForPeer: the link is ready; or it is not in time, or fails.
Awaited ==
  /\ Looking /\ download.awaits = "link"
  /\ download' = IF peers[Candidate] = "ready" THEN Taken ELSE PassedOver
  /\ UNCHANGED <<storeVars, requests, peers, inbound, holds>>

\* The sources are prepared.
Prepared ==
  /\ download.stage = "preparing" /\ ~Looking
  /\ IF download.sources = <<>>
     THEN download' = [download EXCEPT !.stage = "failed"] /\ UNCHANGED requests
     ELSE Round(download)
  /\ UNCHANGED <<storeVars, peers, inbound, holds>>

-------------------------------------------------------------------------------
(* The exchange.                                                            *)

\* #acceptChunk after its put
Noted(request, i) == [request EXCEPT !.received = @ \cup {i}]

\* #rejectRequest
RejectedFor(s, call) ==
  IF Pending(s) /\ requests[s].call = call THEN [requests EXCEPT ![s].state = "rejected"] ELSE requests

\* #enqueue, #handleMessage: a frame of no pending request is dropped.
HandleFrame(s) ==
  LET frame == Head(inbound[s])
      pending == Pending(s) /\ requests[s].call = frame.call
  IN
  /\ inbound[s] # <<>> /\ puts[s] = None
  /\ inbound' = [inbound EXCEPT ![s] = Tail(@)]
  /\ \/ /\ frame.type = "chunk" /\ pending
        /\ puts' = PutStarted(s, frame.chunk, ~holds[s].otherLayout, frame.call)
        /\ UNCHANGED requests
     \/ /\ frame.type = "complete" /\ pending
        /\ requests' = [requests EXCEPT ![s].state = "resolved"]
        /\ UNCHANGED puts
     \/ /\ frame.type = "error" \/ ~pending
        /\ requests' = RejectedFor(s, frame.call)
        /\ UNCHANGED puts
  /\ UNCHANGED <<memory, persisted, hydration, clearing, lapsed, faults, download, peers, holds>>

\* What follows the put of a chunk, done or failed.
ChunkStored(s) ==
  /\ PutDone(s)
  /\ requests' = IF requests[s].call = puts[s].caller
                 THEN [requests EXCEPT ![s] = Noted(@, puts[s].index)] ELSE requests
  /\ UNCHANGED <<download, peers, inbound, holds>>

Disturbed == [download EXCEPT !.disturbed = TRUE]

ChunkRefused(s) ==
  /\ PutFailed(s)
  /\ requests' = RejectedFor(s, puts[s].caller)
  /\ download' = IF puts[s].valid THEN Disturbed ELSE download
  /\ UNCHANGED <<peers, inbound, holds>>

\* sendContent has sent the request, in time or not: the seeder answers it.
RequestSent(s) ==
  /\ requests[s].send = "linked"
  /\ requests' = [requests EXCEPT ![s].send = "settled"]
  /\ inbound' = [inbound EXCEPT ![s] = @ \o Response(s, requests[s].requested, requests[s].call)]
  /\ UNCHANGED <<storeVars, download, peers, holds>>

\* sendContent is rejected: the link it took is gone, uploads are paused, the
\* budget of waiting sends is used up, or the route is a relay.
SendRefused(s) ==
  /\ Sending(s)
  /\ requests' = [RejectedFor(s, requests[s].call) EXCEPT ![s].send = "settled"]
  /\ download' = Disturbed
  /\ UNCHANGED <<storeVars, peers, inbound, holds>>

\* The timer rejects the request; requestChunks still awaits its send.
RequestTimeout(s) ==
  /\ Pending(s)
  /\ requests' = [requests EXCEPT ![s].state = "rejected"]
  /\ download' = Disturbed
  /\ UNCHANGED <<storeVars, peers, inbound, holds>>

-------------------------------------------------------------------------------
(* The pool and the page.                                                   *)

\* A link is ready: one dialled here, or one that the other end dialled.
PeerReady(s) ==
  /\ \/ peers[s] = "connecting" /\ UNCHANGED faults
     \/ peers[s] = "absent" /\ faults < MaxFaults /\ faults' = faults + 1
  /\ peers' = [peers EXCEPT ![s] = "ready"]
  /\ UNCHANGED <<memory, persisted, hydration, puts, clearing, lapsed, download, requests, inbound, holds>>

\* A link goes, with the frames that had not come.
PeerClosed(s) ==
  /\ peers[s] # "absent" /\ faults < MaxFaults
  /\ peers' = [peers EXCEPT ![s] = "absent"]
  /\ \E k \in 0 .. Len(inbound[s]) : inbound' = [inbound EXCEPT ![s] = SubSeq(@, 1, k)]
  /\ requests' = [RejectedFor(s, requests[s].call) EXCEPT ![s].send = IF @ = "linked" THEN "gone" ELSE @]
  /\ download' = Disturbed
  /\ faults' = faults + 1
  /\ UNCHANGED <<memory, persisted, hydration, puts, clearing, lapsed, holds>>

\* clear() by the application
ClearStore ==
  /\ Clear
  /\ download' = Disturbed
  /\ UNCHANGED <<requests, peers, inbound, holds>>

ReloadPage ==
  /\ Reload
  /\ download' = Idle(0)
  /\ requests' = [s \in Seeders |-> NoRequest]
  /\ peers' = [s \in Seeders |-> "absent"]
  /\ inbound' = [s \in Seeders |-> <<>>]
  /\ UNCHANGED holds

-------------------------------------------------------------------------------
PutStep(s) ==
  \/ (PutVerified(s) \/ PutPersisted(s) \/ PutLists(s) \/ PutEvicts(s)) /\ UNCHANGED swarmVars
  \/ ChunkStored(s) \/ ChunkRefused(s)

StoreStep == (Hydrate \/ HydrationFailed \/ ClearDatabase) /\ UNCHANGED swarmVars

\* What #prepareSources does by itself, or when its timer fires.
SourceStep == Prepare \/ Awaited \/ Prepared

SwarmNext ==
  \/ StartDownload \/ SourceStep \/ Connected \/ EndRound \/ StoreStep
  \/ \E s \in Seeders : HandleFrame(s) \/ PutStep(s)
  \/ \E s \in Seeders : RequestSent(s) \/ SendRefused(s) \/ RequestTimeout(s)
  \/ \E s \in Seeders : PeerReady(s) \/ PeerClosed(s)
  \/ (\E i \in Chunks : Touch(i)) /\ UNCHANGED swarmVars
  \/ ClearStore \/ ReloadPage

\* The downloader goes on when what it awaits has come or its timer fires.
\* Nothing makes a send or connect() settle.
SwarmFairness ==
  /\ WF_vars(SourceStep) /\ WF_vars(EndRound)
  /\ \A s \in Seeders : WF_vars(RequestTimeout(s))

SwarmSpec == Init /\ [][SwarmNext]_vars /\ SwarmFairness

-------------------------------------------------------------------------------
(* Properties.                                                              *)

SwarmTypeOK ==
  /\ StoreTypeOK
  /\ download \in Download
  /\ requests \in [Seeders -> ChunkRequest]
  /\ peers \in [Seeders -> {"absent", "connecting", "ready"}]
  /\ \A s \in Seeders : ToSet(inbound[s]) \subseteq Frame

\* A download that nothing disturbed fails only for want: whatever is missing,
\* no source that has it could have been asked once more.
FailsOnlyForWant ==
  download.stage = "failed" /\ ~download.disturbed =>
    \A s \in ToSet(download.sources) : holds[s].otherLayout \/ holds[s].chunks \cap missingChunks = {}

Underway == download.stage \in {"preparing", "round"}

\* What a download awaits without a limit of its own: a send, or a dial.
AwaitsPool == download.awaits = "connect" \/ \E s \in Seeders : Sending(s)

\* A download ends, with its file or an error, or waits for ever for its pool:
\* its rounds give up sources or chunks of them until none is left, and no
\* answer that does not come holds it.
DownloadEnds == Underway ~> (~Underway \/ []AwaitsPool)
===============================================================================
