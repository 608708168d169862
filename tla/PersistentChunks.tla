--------------------------- MODULE PersistentChunks ---------------------------
(***************************************************************************)
(* The store of one file's verified chunks in a browser:                   *)
(* PersistentVerifiedChunkStore                                            *)
(* (src/web/persistent-verified-chunk-store.ts) above VerifiedChunkStore   *)
(* (src/web/verified-chunk-store.ts), with its IndexedDB adapter.  The     *)
(* memory of the page is lost in a reload; the database is not, but the    *)
(* page that comes back may be another release of the game.                *)
(*                                                                         *)
(* A chunk is one unit of the byte budget.  Touch times only order the     *)
(* entries, and every put and touch is the latest: the database is a       *)
(* sequence, least recently used first.  A transaction is one step, and    *)
(* any may be refused.                                                     *)
(***************************************************************************)
EXTENDS Naturals, SequencesExt

CONSTANTS
  Chunks,    \* the chunks of the file
  Writers,   \* who may be putting a chunk: each waits for its own put
  None,
  MaxBytes,  \* maxBytes
  MaxFaults  \* bound on reloads, refused transactions, calls of clear() and the like

ASSUME StoreAssumption ==
  /\ None \notin Chunks \cup Writers
  /\ {MaxBytes, MaxFaults} \subseteq Nat

VARIABLES
  memory,     \* the verified chunks in memory
  persisted,  \* the entries of the database, in order of their touch times
  hydration,  \* what #hydrate has done, and what it has left to do
  puts,       \* the calls of putChunk under way
  clearing,   \* a call of clear() under way
  lapsed,     \* whether an eviction was given up, and nobody has listed since
  faults

storeVars == <<memory, persisted, hydration, puts, clearing, lapsed, faults>>

\* A chunk and whether it is the manifest's, or an earlier release's.
Entry == [index : Chunks, valid : BOOLEAN]

Put == [index : Chunks, valid : BOOLEAN, caller : Nat, stage : {"verifying", "persisting", "listing", "evicting"},
        evict : Seq(Chunks)]

ASSUME NoPutAssumption == None \notin Put

StoreInit ==
  /\ memory = {}
  /\ persisted = <<>>
  /\ hydration = [stage |-> "listing", left |-> <<>>]
  /\ puts = [w \in Writers |-> None]
  /\ clearing = FALSE
  /\ lapsed = FALSE
  /\ faults = 0

Ready == hydration.stage = "ready"
missingChunks == Chunks \ {e.index : e \in memory}

-------------------------------------------------------------------------------
(* The database.                                                            *)

\* An entry's key is its chunk's: there is one of it at most.
Without(entries, i) == RemoveFirstMatch(entries, LAMBDA e : e.index = i)

\* Mutant: room is made for what there was before.
OneTooMany(entries) ==
  IF Len(entries) <= MaxBytes + 1 THEN <<>>
  ELSE [k \in 1 .. Len(entries) - MaxBytes |-> entries[k].index]

\* #enforceBudget after its listing: the least recently used that exceed.
Excess(entries) ==
  IF Len(entries) <= MaxBytes THEN <<>>
  ELSE [k \in 1 .. Len(entries) - MaxBytes |-> entries[k].index]

-------------------------------------------------------------------------------
(* putChunk.                                                                *)

PutMoves(w, put) == puts' = [puts EXCEPT ![w] = put]

\* The call, which may wait for the hydration.
PutStarted(w, i, valid, caller) ==
  [puts EXCEPT ![w] = [index |-> i, valid |-> valid, caller |-> caller, stage |-> "verifying", evict |-> <<>>]]

\* verifyContentChunk has succeeded: the chunk is in memory, and on its way.
PutVerified(w) ==
  /\ puts[w] # None /\ puts[w].stage = "verifying" /\ Ready /\ puts[w].valid
  /\ memory' = memory \cup {[index |-> puts[w].index, valid |-> TRUE]}
  /\ PutMoves(w, [puts[w] EXCEPT !.stage = "persisting"])
  /\ UNCHANGED <<persisted, hydration, clearing, lapsed, faults>>

PutPersisted(w) ==
  /\ puts[w] # None /\ puts[w].stage = "persisting"
  /\ persisted' = Append(Without(persisted, puts[w].index), [index |-> puts[w].index, valid |-> TRUE])
  /\ PutMoves(w, [puts[w] EXCEPT !.stage = "listing"])
  /\ UNCHANGED <<memory, hydration, clearing, lapsed, faults>>

\* The listing of #enforceBudget
PutLists(w) ==
  /\ puts[w] # None /\ puts[w].stage = "listing"
  /\ PutMoves(w, [puts[w] EXCEPT !.stage = "evicting", !.evict = Excess(persisted)])
  /\ lapsed' = FALSE
  /\ UNCHANGED <<memory, persisted, hydration, clearing, faults>>

\* One eviction, of what the listing held: not what the database holds now.
PutEvicts(w) ==
  /\ puts[w] # None /\ puts[w].stage = "evicting" /\ puts[w].evict # <<>>
  /\ persisted' = Without(persisted, Head(puts[w].evict))
  /\ PutMoves(w, [puts[w] EXCEPT !.evict = Tail(@)])
  /\ UNCHANGED <<memory, hydration, clearing, lapsed, faults>>

PutDone(w) ==
  /\ puts[w] # None /\ puts[w].stage = "evicting" /\ puts[w].evict = <<>>
  /\ PutMoves(w, None)
  /\ UNCHANGED <<memory, persisted, hydration, clearing, lapsed, faults>>

\* What the database is about to be asked for: to store, list, or delete.
Asks(put) == put.stage \in {"persisting", "listing"} \/ (put.stage = "evicting" /\ put.evict # <<>>)

\* The hydration has failed, the chunk is not the manifest's, or the database
\* refuses: what is in memory, and in the database, stays, and the put is
\* rejected, be the chunk stored or not.
PutFailed(w) ==
  /\ puts[w] # None
  /\ \/ /\ puts[w].stage = "verifying" /\ (hydration.stage = "failed" \/ (Ready /\ ~puts[w].valid))
        /\ UNCHANGED <<lapsed, faults>>
     \/ /\ Asks(puts[w]) /\ faults < MaxFaults
        /\ lapsed' = (lapsed \/ puts[w].stage # "persisting")
        /\ faults' = faults + 1
  /\ PutMoves(w, None)
  /\ UNCHANGED <<memory, persisted, hydration, clearing>>

\* getChunk of an entry that is persisted: touch.
Touch(i) ==
  /\ \E e \in memory : e.index = i
  /\ \E e \in ToSet(persisted) :
       e.index = i /\ Last(persisted) # e /\ persisted' = Append(Without(persisted, i), e)
  /\ UNCHANGED <<memory, hydration, puts, clearing, lapsed, faults>>

-------------------------------------------------------------------------------
(* clear().                                                                 *)

Clear ==
  /\ Ready /\ ~clearing /\ faults < MaxFaults
  /\ memory' = {}
  /\ clearing' = TRUE
  /\ faults' = faults + 1
  /\ UNCHANGED <<persisted, hydration, puts, lapsed>>

\* persistence.clear: its listing and its deletions are one step here, as in
\* the in-memory adapter; the database may refuse them.
ClearDatabase ==
  /\ clearing
  /\ \/ persisted' = <<>> /\ UNCHANGED faults
     \/ UNCHANGED persisted /\ faults < MaxFaults /\ faults' = faults + 1
  /\ clearing' = FALSE
  /\ UNCHANGED <<memory, hydration, puts, lapsed>>

-------------------------------------------------------------------------------
(* A reload, and #hydrate.                                                  *)

\* The page goes with all it had under way; the release may change with it.
Reload ==
  /\ faults < MaxFaults
  /\ faults' = faults + 1
  /\ memory' = {}
  /\ \E other \in SUBSET Chunks :
       persisted' = [k \in DOMAIN persisted |->
                       [persisted[k] EXCEPT !.valid = @ /\ persisted[k].index \notin other]]
  /\ hydration' = [stage |-> "listing", left |-> <<>>]
  /\ puts' = [w \in Writers |-> None]
  /\ clearing' = FALSE
  /\ UNCHANGED lapsed

\* Mutant: what was verified when it was put is taken as it is.
Trusted(entry) == TRUE

\* verifyContentChunk of a persisted entry
Accepted(entry) == entry.valid

\* #hydrate: the listing; each entry into memory, or out of the database;
\* the listing of #enforceBudget; each eviction.
Hydrate ==
  /\ \/ /\ hydration.stage = "listing"
        /\ hydration' = [stage |-> "verifying", left |-> persisted]
        /\ UNCHANGED <<memory, persisted, lapsed>>
     \/ /\ hydration.stage = "verifying" /\ hydration.left # <<>>
        /\ LET entry == Head(hydration.left) IN
             IF Accepted(entry)
             THEN memory' = memory \cup {entry} /\ UNCHANGED persisted
             ELSE persisted' = Without(persisted, entry.index) /\ UNCHANGED memory
        /\ hydration' = [hydration EXCEPT !.left = Tail(@)]
        /\ UNCHANGED lapsed
     \/ /\ hydration.stage = "verifying" /\ hydration.left = <<>>
        /\ hydration' = [stage |-> "evicting", left |-> Excess(persisted)]
        /\ lapsed' = FALSE
        /\ UNCHANGED <<memory, persisted>>
     \/ /\ hydration.stage = "evicting" /\ hydration.left # <<>>
        /\ persisted' = Without(persisted, Head(hydration.left))
        /\ hydration' = [hydration EXCEPT !.left = Tail(@)]
        /\ UNCHANGED <<memory, lapsed>>
     \/ /\ hydration.stage = "evicting" /\ hydration.left = <<>>
        /\ hydration' = [stage |-> "ready", left |-> <<>>]
        /\ UNCHANGED <<memory, persisted, lapsed>>
  /\ UNCHANGED <<puts, clearing, faults>>

\* The database refuses a listing or a deletion of #hydrate: `ready` stays
\* rejected until the page is loaded again.
HydrationFailed ==
  /\ \/ hydration.stage = "listing"
     \/ hydration.stage = "verifying" /\ (hydration.left # <<>> => ~Accepted(Head(hydration.left)))
     \/ hydration.stage = "evicting" /\ hydration.left # <<>>
  /\ hydration' = [stage |-> "failed", left |-> <<>>]
  /\ UNCHANGED <<memory, persisted, puts, clearing, lapsed, faults>>

-------------------------------------------------------------------------------
(* Properties.                                                              *)

\* Types, and: only chunks that are the manifest's are in memory, and the
\* database has one entry of each.
StoreTypeOK ==
  /\ memory \subseteq {e \in Entry : e.valid}
  /\ persisted \in Seq(Entry)
  /\ \A j, k \in DOMAIN persisted : persisted[j].index = persisted[k].index => j = k
  /\ \A w \in Writers : puts[w] = None \/ puts[w] \in Put

\* The byte budget is kept whenever no put or hydration is under way, though
\* puts list and evict at once, over listings the others have outdated.  Only
\* a listing or an eviction that the database refuses leaves more, and only
\* until the next put, or page, has listed.
BudgetKept ==
  Ready /\ (\A w \in Writers : puts[w] = None) /\ ~lapsed => Len(persisted) <= MaxBytes
===============================================================================
