------------------------- MODULE SwarmDownloadProofs -------------------------
(***************************************************************************)
(* The swarm download and the store it fills, for every number of chunks,  *)
(* seeders and downloads and every budget: that the types are kept, that   *)
(* the puts and the hydration together keep the byte budget, and that a    *)
(* download nothing disturbed fails only for want of a seeder.             *)
(***************************************************************************)
EXTENDS SwarmDownload, FiniteSetTheorems, TLAPS

-------------------------------------------------------------------------------
(* The entries of the database.                                             *)

\* The chunks the database has.
Held(es) == {es[k].index : k \in DOMAIN es}

OneOfEach(es) == \A j, k \in DOMAIN es : es[j].index = es[k].index => j = k

Entries(es) == es \in Seq(Entry) /\ OneOfEach(es)

\* The place of an entry that is there is the one Without removes.
LEMMA WithoutIsCut ==
  ASSUME NEW es, NEW i, NEW p \in DOMAIN es, Entries(es), es[p].index = i
  PROVE  Without(es, i) = SubSeq(es, 1, p - 1) \o SubSeq(es, p + 1, Len(es))
<1> DEFINE I == {k \in 1 .. Len(es) : es[k].index = i}
<1>1. p \in 1 .. Len(es) /\ I = {p} /\ p \in Nat
  BY DEF Entries, OneOfEach
<1>2. Min(I) = p
  <2>1. p \in I /\ \A x \in I : p <= x /\ x = p
    BY <1>1
  <2> HIDE DEF I
  <2> QED BY <2>1 DEF Min
<1>3. Without(es, i) = IF \E k \in 1 .. Len(es) : es[k].index = i
                       THEN RemoveAt(es, IF I # {} THEN Min(I) ELSE 0) ELSE es
  BY Zenon DEF Without, RemoveFirstMatch, SelectInSeq
<1>4. Without(es, i) = RemoveAt(es, p)
  <2>1. I # {} /\ \E k \in 1 .. Len(es) : es[k].index = i
    BY <1>1
  <2> HIDE DEF I
  <2> QED BY <1>2, <1>3, <2>1
<1> QED BY <1>4 DEF RemoveAt

LEMMA WithoutNone ==
  ASSUME NEW es, NEW i, Entries(es), i \notin Held(es)
  PROVE  Without(es, i) = es
<1>1. ~ \E k \in 1 .. Len(es) : es[k].index = i
  BY DEF Held, Entries
<1> QED BY Zenon, <1>1 DEF Without, RemoveFirstMatch

\* What is left has every other entry, once.
LEMMA WithoutKeeps ==
  ASSUME NEW es, NEW i, Entries(es)
  PROVE  Entries(Without(es, i)) /\ Held(Without(es, i)) = Held(es) \ {i}
<1>1. CASE i \notin Held(es)
  BY <1>1, WithoutNone
<1>2. CASE i \in Held(es)
  <2>1. PICK p \in DOMAIN es : es[p].index = i
    BY <1>2 DEF Held
  <2> DEFINE n == Len(es)
             w == Without(es, i)
             from(k) == IF k < p THEN k ELSE k + 1
  <2>2. n \in Nat /\ DOMAIN es = 1 .. n /\ p \in 1 .. n
    BY <2>1 DEF Entries
  <2>3. w = SubSeq(es, 1, p - 1) \o SubSeq(es, p + 1, n)
    BY <2>1, WithoutIsCut
  <2>4. w \in Seq(Entry) /\ Len(w) = n - 1 /\ \A k \in 1 .. n - 1 : w[k] = es[from(k)]
    <3> HIDE DEF w, n
    <3>1. SubSeq(es, 1, p - 1) \in Seq(Entry) /\ SubSeq(es, p + 1, n) \in Seq(Entry)
      BY <2>2 DEF Entries, n
    <3>2. Len(SubSeq(es, 1, p - 1)) = p - 1 /\ Len(SubSeq(es, p + 1, n)) = n - p
      BY <2>2 DEF Entries, n
    <3>3. /\ \A k \in 1 .. p - 1 : SubSeq(es, 1, p - 1)[k] = es[k]
          /\ \A k \in 1 .. n - p : SubSeq(es, p + 1, n)[k] = es[k + p]
      BY <2>2 DEF Entries, n
    <3>4. w \in Seq(Entry) /\ Len(w) = n - 1
      BY <2>2, <2>3, <3>1, <3>2
    <3>5. ASSUME NEW k \in 1 .. n - 1 PROVE w[k] = es[from(k)]
      <4>1. CASE k < p
        BY <2>2, <2>3, <3>1, <3>2, <3>3, <4>1
      <4>2. CASE ~(k < p)
        <5>1. w[k] = SubSeq(es, p + 1, n)[k - (p - 1)]
          <6> DEFINE s == SubSeq(es, 1, p - 1)
                     t == SubSeq(es, p + 1, n)
          <6>1. s \in Seq(Entry) /\ t \in Seq(Entry) /\ Len(s) = p - 1 /\ Len(t) = n - p /\ w = s \o t
            BY <2>3, <3>1, <3>2
          <6> HIDE DEF s, t
          <6>2. k \in Len(s) + 1 .. Len(s) + Len(t)
            BY <2>2, <4>2, <6>1
          <6>3. (s \o t)[k] = t[k - Len(s)]
            BY <6>1, <6>2
          <6> QED BY <6>1, <6>3 DEF t
        <5>2. k - (p - 1) \in 1 .. n - p /\ (k - (p - 1)) + p = k + 1
          BY <2>2, <4>2
        <5> QED BY <3>3, <4>2, <5>1, <5>2
      <4> QED BY <4>1, <4>2
    <3> QED BY <3>4, <3>5
  <2>5. OneOfEach(w)
    <3> SUFFICES ASSUME NEW j \in DOMAIN w, NEW k \in DOMAIN w, w[j].index = w[k].index PROVE j = k
      BY DEF OneOfEach
    <3> HIDE DEF w, n
    <3>1. j \in 1 .. n - 1 /\ k \in 1 .. n - 1
      BY <2>2, <2>4
    <3>2. from(j) \in DOMAIN es /\ from(k) \in DOMAIN es /\ es[from(j)].index = es[from(k)].index
      BY <2>2, <2>4, <3>1
    <3>3. from(j) = from(k)
      <4> HIDE DEF from
      <4> QED BY <3>2 DEF Entries, OneOfEach
    <3> QED BY <2>2, <3>1, <3>3
  <2>6. Held(w) = Held(es) \ {i}
    <3> HIDE DEF w, n
    <3>1. ASSUME NEW k \in DOMAIN w PROVE w[k].index \in Held(es) \ {i}
      <4>1. from(k) \in 1 .. n /\ from(k) # p /\ w[k] = es[from(k)]
        BY <2>2, <2>4
      <4> QED BY <2>1, <2>2, <4>1 DEF Entries, OneOfEach, Held
    <3>2. ASSUME NEW k \in DOMAIN es, k # p PROVE es[k].index \in Held(w)
      <4> DEFINE j == IF k < p THEN k ELSE k - 1
      <4>1. j \in 1 .. n - 1 /\ from(j) = k /\ j \in DOMAIN w
        BY <2>2, <2>4, <3>2
      <4> HIDE DEF j, from
      <4> QED BY <2>4, <4>1 DEF Held
    <3> QED BY <2>1, <3>1, <3>2 DEF Held
  <2> QED BY <2>4, <2>5, <2>6 DEF Entries
<1> QED BY <1>1, <1>2

\* A put or a touch: the entry comes last.
LEMMA AppendKeeps ==
  ASSUME NEW es, Entries(es), NEW e \in Entry
  PROVE  /\ Entries(Append(Without(es, e.index), e))
         /\ Held(Append(Without(es, e.index), e)) = Held(es) \cup {e.index}
<1> DEFINE w == Without(es, e.index)
<1>1. Entries(w) /\ Held(w) = Held(es) \ {e.index}
  BY WithoutKeeps
<1> HIDE DEF w
<1> DEFINE a == Append(w, e)
           n == Len(w)
<1>2. n \in Nat /\ DOMAIN w = 1 .. n /\ w \in Seq(Entry)
  BY <1>1 DEF Entries
<1>3. /\ a \in Seq(Entry) /\ DOMAIN a = 1 .. n + 1 /\ a[n + 1] = e
      /\ \A k \in 1 .. n : a[k] = w[k]
  BY <1>2
<1> HIDE DEF a, n
<1>4. \A k \in 1 .. n : w[k].index # e.index
  BY <1>1, <1>2 DEF Held
<1>5. OneOfEach(a)
  BY <1>1, <1>2, <1>3, <1>4 DEF Entries, OneOfEach
<1>6. Held(a) = Held(w) \cup {e.index}
  <2>1. \A k \in DOMAIN a : a[k].index \in Held(w) \cup {e.index}
    BY <1>2, <1>3 DEF Held
  <2>2. \A k \in DOMAIN w : w[k].index \in Held(a)
    BY <1>2, <1>3 DEF Held
  <2>3. e.index \in Held(a)
    BY <1>2, <1>3 DEF Held
  <2> QED BY <2>1, <2>2, <2>3 DEF Held
<1> QED BY <1>1, <1>3, <1>5, <1>6 DEF Entries, a, w

\* The database has as many entries as chunks.
LEMMA LenIsHeld ==
  ASSUME NEW es, Entries(es)
  PROVE  IsFiniteSet(Held(es)) /\ Cardinality(Held(es)) = Len(es)
<1> DEFINE f == [k \in 1 .. Len(es) |-> es[k].index]
<1>1. Len(es) \in Nat /\ DOMAIN es = 1 .. Len(es)
  BY DEF Entries
<1>2. f \in Bijection(1 .. Len(es), Held(es))
  <2>1. f \in Injection(1 .. Len(es), Held(es))
    BY <1>1 DEF Injection, IsInjective, Held, Entries, OneOfEach
  <2>2. f \in Surjection(1 .. Len(es), Held(es))
    BY <1>1 DEF Surjection, Held
  <2> QED BY <2>1, <2>2 DEF Bijection
<1>3. IsFiniteSet(1 .. Len(es)) /\ Cardinality(1 .. Len(es)) = Len(es)
  <2>1. \A n \in Nat : IsFiniteSet(1 .. n) /\ Cardinality(1 .. n) = n
    BY FS_Interval
  <2> QED BY <1>1, <2>1
<1> HIDE DEF f
<1> QED BY <1>2, <1>3, FS_Bijection DEF ExistsBijection

\* What an excess leaves fits.
LEMMA ExcessSuffices ==
  ASSUME NEW es, Entries(es)
  PROVE  /\ Excess(es) \in Seq(Chunks)
         /\ IsFiniteSet(Held(es) \ ToSet(Excess(es)))
         /\ Cardinality(Held(es) \ ToSet(Excess(es))) <= MaxBytes
<1>1. Len(es) \in Nat /\ DOMAIN es = 1 .. Len(es) /\ MaxBytes \in Nat
  BY StoreAssumption DEF Entries
<1>2. CASE Len(es) <= MaxBytes
  <2>1. Excess(es) = <<>> /\ ToSet(Excess(es)) = {}
    BY <1>1, <1>2 DEF Excess, ToSet
  <2>2. Held(es) \ ToSet(Excess(es)) = Held(es)
    BY <2>1
  <2> QED BY <1>2, <2>1, <2>2, LenIsHeld
<1>3. CASE ~(Len(es) <= MaxBytes)
  <2> DEFINE m == Len(es) - MaxBytes
             rest == m + 1 .. Len(es)
             kept == Held(es) \ ToSet(Excess(es))
             f == [k \in rest |-> es[k].index]
             T == {f[k] : k \in rest}
  <2>1. m \in Nat /\ m <= Len(es) /\ Excess(es) = [k \in 1 .. m |-> es[k].index]
    BY <1>1, <1>3 DEF Excess
  <2>2. Excess(es) \in Seq(Chunks)
    <3>1. \A k \in 1 .. m : es[k].index \in Chunks
      <4>1. \A k \in 1 .. Len(es) : es[k] \in Entry
        BY DEF Entries
      <4> QED BY <1>1, <2>1, <4>1 DEF Entry
    <3> HIDE DEF m
    <3> QED BY <2>1, <3>1
  <2>3. IsFiniteSet(rest) /\ Cardinality(rest) = MaxBytes
    BY <1>1, <2>1, FS_Interval
  <2>4. kept \subseteq T
    <3> SUFFICES ASSUME NEW k \in DOMAIN es, es[k].index \notin ToSet(Excess(es)) PROVE es[k].index \in T
      BY DEF Held
    <3>1. k \notin 1 .. m
      BY <2>1 DEF ToSet
    <3> QED BY <1>1, <2>1, <3>1
  <2>5. f \in Surjection(rest, T)
    BY DEF Surjection
  <2>6. IsFiniteSet(T) /\ Cardinality(T) <= MaxBytes
    <3> HIDE DEF f, T, rest
    <3> QED BY <2>3, <2>5, FS_Surjection
  <2>7. IsFiniteSet(kept) /\ Cardinality(kept) <= Cardinality(T) /\ Cardinality(kept) \in Nat
    <3> HIDE DEF kept, T
    <3> QED BY <2>4, <2>6, FS_Subset, FS_CardinalityType
  <2>8. Cardinality(T) \in Nat
    <3> HIDE DEF T
    <3> QED BY <2>6, FS_CardinalityType
  <2> HIDE DEF T
  <2> QED BY <1>1, <2>2, <2>6, <2>7, <2>8
<1> QED BY <1>2, <1>3

-------------------------------------------------------------------------------
(* The store.                                                               *)

StoreShapes ==
  /\ memory \subseteq {e \in Entry : e.valid}
  /\ Entries(persisted)
  /\ puts \in [Writers -> Put \cup {None}]
  /\ hydration \in [stage : {"listing", "verifying", "evicting", "ready", "failed"}, left : Seq(Entry) \cup Seq(Chunks)]
  /\ hydration.stage = "verifying" => hydration.left \in Seq(Entry)
  /\ hydration.stage = "evicting" => hydration.left \in Seq(Chunks)

\* What a put, and the hydration, will yet evict.
Slated(w) == IF puts[w] # None /\ puts[w].stage = "evicting" THEN ToSet(puts[w].evict) ELSE {}
Rejected == IF hydration.stage = "evicting" THEN ToSet(hydration.left) ELSE {}

\* What the database has and nobody is about to evict.
Staying == {i \in Held(persisted) : i \notin Rejected /\ \A w \in Writers : i \notin Slated(w)}

NoneToList == \A w \in Writers : puts[w] # None => puts[w].stage # "listing"

\* Once everyone who made the database grow has listed it, and none has given
\* up, what stays fits: the last listing saw all of it, and the evictions of
\* the earlier ones only help.
StayingFits ==
  hydration.stage \in {"evicting", "ready"} /\ NoneToList /\ ~lapsed => Cardinality(Staying) <= MaxBytes

StoreInv == StoreShapes /\ StayingFits

\* No more stays than before, and nobody has listed in the step.
LEMMA FewerStay ==
  ASSUME StoreInv, StoreShapes', Staying' \subseteq Staying,
         hydration'.stage \in {"evicting", "ready"} => hydration.stage \in {"evicting", "ready"},
         NoneToList' => NoneToList, ~lapsed' => ~lapsed
  PROVE  StoreInv'
<1>1. IsFiniteSet(Staying)
  <2>1. IsFiniteSet(Held(persisted)) /\ Staying \in SUBSET Held(persisted)
    BY LenIsHeld DEF StoreInv, StoreShapes, Staying
  <2> QED BY <2>1, FS_Subset
<1>2. IsFiniteSet(Staying') /\ Cardinality(Staying') <= Cardinality(Staying)
  BY <1>1, FS_Subset
<1>3. Cardinality(Staying') \in Nat /\ Cardinality(Staying) \in Nat /\ MaxBytes \in Nat
  BY <1>1, <1>2, FS_CardinalityType, StoreAssumption
<1>4. StayingFits'
  <2> SUFFICES ASSUME hydration'.stage \in {"evicting", "ready"}, NoneToList', ~lapsed'
               PROVE  Cardinality(Staying') <= MaxBytes
    BY DEF StayingFits
  <2>1. Cardinality(Staying) <= MaxBytes
    BY DEF StoreInv, StayingFits
  <2> QED BY <1>2, <1>3, <2>1
<1> QED BY <1>4 DEF StoreInv

\* Someone has listed, and what stays is what the listing leaves at most.
LEMMA ListingFits ==
  ASSUME StoreInv, StoreShapes', Staying' \subseteq Held(persisted) \ ToSet(Excess(persisted))
  PROVE  StoreInv'
<1> DEFINE kept == Held(persisted) \ ToSet(Excess(persisted))
<1>1. IsFiniteSet(kept) /\ Cardinality(kept) <= MaxBytes
  BY ExcessSuffices DEF StoreInv, StoreShapes
<1>2. Staying' \in SUBSET kept
  OBVIOUS
<1> HIDE DEF kept
<1>3. IsFiniteSet(Staying') /\ Cardinality(Staying') <= Cardinality(kept)
  BY <1>1, <1>2, FS_Subset
<1>4. Cardinality(Staying') \in Nat /\ Cardinality(kept) \in Nat /\ MaxBytes \in Nat
  BY <1>1, <1>3, FS_CardinalityType, StoreAssumption
<1>5. Cardinality(Staying') <= MaxBytes
  BY <1>1, <1>3, <1>4
<1> QED BY <1>5 DEF StoreInv, StayingFits

\* One put changes, and the database by no more than that put evicts.
LEMMA PutMovesOn ==
  ASSUME StoreInv, NEW w \in Writers, NEW put \in Put \cup {None},
         puts' = [puts EXCEPT ![w] = put], hydration' = hydration, ~lapsed' => ~lapsed,
         memory' \subseteq {e \in Entry : e.valid}, Entries(persisted'), Held(persisted') \subseteq Held(persisted),
         put # None => put.stage # "listing" /\ (put.stage = "evicting" => puts[w] # None),
         puts[w] # None => puts[w].stage # "listing",
         \A i \in Held(persisted') : i \in Slated(w) => put # None /\ put.stage = "evicting" /\ i \in ToSet(put.evict)
  PROVE  StoreInv'
<1>1. puts' \in [Writers -> Put \cup {None}] /\ puts'[w] = put /\ \A v \in Writers \ {w} : puts'[v] = puts[v]
  BY DEF StoreInv, StoreShapes
<1>2. StoreShapes'
  BY <1>1 DEF StoreInv, StoreShapes
<1>3. NoneToList' => NoneToList
  BY <1>1 DEF NoneToList
<1>4. \A v \in Writers \ {w} : Slated(v)' = Slated(v)
  BY <1>1 DEF Slated
<1>5. Slated(w)' = IF put # None /\ put.stage = "evicting" THEN ToSet(put.evict) ELSE {}
  BY <1>1 DEF Slated
<1>6. Rejected' = Rejected
  BY DEF Rejected
<1>7. Staying' \subseteq Staying
  <2> SUFFICES ASSUME NEW i \in Held(persisted'), i \notin Rejected', \A v \in Writers : i \notin Slated(v)'
               PROVE  i \in Staying
    BY DEF Staying
  <2>1. i \in Held(persisted) /\ i \notin Rejected /\ \A v \in Writers \ {w} : i \notin Slated(v)
    BY <1>4, <1>6
  <2>2. i \notin Slated(w)
    BY <1>5
  <2> QED BY <2>1, <2>2 DEF Staying
<1> QED BY <1>2, <1>3, <1>7, FewerStay

\* An empty store.
LEMMA StoreInitial == StoreInit => StoreInv
<1> SUFFICES ASSUME StoreInit PROVE StoreInv
  OBVIOUS
<1>1. StoreShapes
  BY DEF StoreInit, StoreShapes, Entries, OneOfEach
<1>2. Staying \subseteq {}
  BY DEF StoreInit, Staying, Held
<1>3. Cardinality(Staying) = 0 /\ MaxBytes \in Nat
  <2>1. Staying = {}
    BY <1>2
  <2> QED BY <2>1, FS_EmptySet, StoreAssumption
<1> QED BY <1>1, <1>3 DEF StoreInv, StayingFits

\* What a step leaves alone.
LEMMA StoreUntouched == StoreInv /\ UNCHANGED storeVars => StoreInv'
BY DEF storeVars, StoreInv, StoreShapes, StayingFits, Staying, NoneToList, Slated, Rejected

\* A put is called.
LEMMA PutStartedKeeps ==
  ASSUME StoreInv, NEW w \in Writers, puts[w] = None, NEW i \in Chunks, NEW valid \in BOOLEAN, NEW caller \in Nat,
         puts' = PutStarted(w, i, valid, caller), UNCHANGED <<memory, persisted, hydration, lapsed>>
  PROVE  StoreInv'
<1> DEFINE put == [index |-> i, valid |-> valid, caller |-> caller, stage |-> "verifying", evict |-> <<>>]
<1>1. put \in Put /\ put.stage = "verifying"
  BY DEF Put
<1>2. puts' = [puts EXCEPT ![w] = put]
  BY DEF PutStarted
<1> HIDE DEF put
<1>3. Slated(w) = {}
  BY DEF Slated
<1> QED BY <1>1, <1>2, <1>3, PutMovesOn DEF StoreInv, StoreShapes

LEMMA PutVerifiedKeeps ==
  ASSUME StoreInv, NEW w \in Writers, PutVerified(w)
  PROVE  StoreInv'
<1> DEFINE put == [puts[w] EXCEPT !.stage = "persisting"]
           entry == [index |-> puts[w].index, valid |-> TRUE]
<1>1. puts[w] \in Put /\ puts[w] # None /\ puts[w].stage = "verifying"
  BY DEF PutVerified, StoreInv, StoreShapes
<1>2. put \in Put /\ put.stage = "persisting" /\ entry \in Entry /\ entry.valid
  BY <1>1 DEF Put, Entry
<1>3. puts' = [puts EXCEPT ![w] = put] /\ memory' = memory \cup {entry} /\ UNCHANGED <<persisted, hydration, lapsed>>
  BY DEF PutVerified, PutMoves
<1> HIDE DEF put, entry
<1>4. Slated(w) = {}
  BY <1>1 DEF Slated
<1>5. memory' \subseteq {e \in Entry : e.valid}
  BY <1>2, <1>3 DEF StoreInv, StoreShapes
<1> QED BY <1>1, <1>2, <1>3, <1>4, <1>5, PutMovesOn DEF StoreInv, StoreShapes

\* The database grows; the put has still to list.
LEMMA PutPersistedKeeps ==
  ASSUME StoreInv, NEW w \in Writers, PutPersisted(w)
  PROVE  StoreInv'
<1> DEFINE put == [puts[w] EXCEPT !.stage = "listing"]
           entry == [index |-> puts[w].index, valid |-> TRUE]
<1>1. puts[w] \in Put /\ puts[w] # None
  BY DEF PutPersisted, StoreInv, StoreShapes
<1>2. put \in Put /\ put.stage = "listing" /\ entry \in Entry /\ entry.index = puts[w].index
  BY <1>1 DEF Put, Entry
<1>3. /\ puts' = [puts EXCEPT ![w] = put] /\ UNCHANGED <<memory, hydration>>
      /\ persisted' = Append(Without(persisted, entry.index), entry)
  BY <1>2 DEF PutPersisted, PutMoves
<1> HIDE DEF put, entry
<1>4. Entries(persisted')
  BY <1>2, <1>3, AppendKeeps DEF StoreInv, StoreShapes
<1>5. puts' \in [Writers -> Put \cup {None}] /\ puts'[w] = put
  BY <1>2, <1>3 DEF StoreInv, StoreShapes
<1>6. StoreShapes'
  BY <1>3, <1>4, <1>5 DEF StoreInv, StoreShapes
<1>7. ~NoneToList'
  BY <1>2, <1>5, NoPutAssumption DEF NoneToList
<1> QED BY <1>6, <1>7 DEF StoreInv, StayingFits

LEMMA PutListsKeeps ==
  ASSUME StoreInv, NEW w \in Writers, PutLists(w)
  PROVE  StoreInv'
<1> DEFINE put == [puts[w] EXCEPT !.stage = "evicting", !.evict = Excess(persisted)]
<1>1. puts[w] \in Put /\ Excess(persisted) \in Seq(Chunks)
  BY ExcessSuffices DEF PutLists, StoreInv, StoreShapes
<1>2. put \in Put /\ put.stage = "evicting" /\ put.evict = Excess(persisted)
  BY <1>1 DEF Put
<1>3. puts' = [puts EXCEPT ![w] = put] /\ UNCHANGED <<memory, persisted, hydration>>
  BY DEF PutLists, PutMoves
<1> HIDE DEF put
<1>4. puts' \in [Writers -> Put \cup {None}] /\ puts'[w] = put
  BY <1>2, <1>3 DEF StoreInv, StoreShapes
<1>5. StoreShapes'
  BY <1>3, <1>4 DEF StoreInv, StoreShapes
<1>6. Slated(w)' = ToSet(Excess(persisted))
  BY <1>2, <1>4, NoPutAssumption DEF Slated
<1>7. Staying' \subseteq Held(persisted) \ ToSet(Excess(persisted))
  BY <1>3, <1>6 DEF Staying
<1> QED BY <1>5, <1>7, ListingFits

\* What is evicted leaves the list and the database at once.
LEMMA HeadGoes ==
  ASSUME NEW s \in Seq(Chunks), s # <<>>
  PROVE  Tail(s) \in Seq(Chunks) /\ \A i \in ToSet(s) : i # Head(s) => i \in ToSet(Tail(s))
<1>1. Tail(s) \in Seq(Chunks) /\ Len(s) \in Nat /\ DOMAIN s = 1 .. Len(s)
  OBVIOUS
<1>2. ASSUME NEW k \in 1 .. Len(s), s[k] # Head(s) PROVE s[k] \in ToSet(Tail(s))
  <2>1. k # 1 /\ Len(Tail(s)) = Len(s) - 1 /\ \A j \in 1 .. Len(s) - 1 : Tail(s)[j] = s[j + 1]
    BY <1>1, <1>2
  <2>2. k - 1 \in 1 .. Len(s) - 1 /\ (k - 1) + 1 = k
    BY <1>1, <2>1
  <2>3. k - 1 \in DOMAIN Tail(s) /\ Tail(s)[k - 1] = s[k]
    BY <1>1, <2>1, <2>2
  <2> QED BY <2>3 DEF ToSet
<1> QED BY <1>1, <1>2 DEF ToSet

LEMMA PutEvictsKeeps ==
  ASSUME StoreInv, NEW w \in Writers, PutEvicts(w)
  PROVE  StoreInv'
<1> DEFINE evict == puts[w].evict
           put == [puts[w] EXCEPT !.evict = Tail(evict)]
<1>1. puts[w] \in Put /\ puts[w] # None /\ puts[w].stage = "evicting" /\ evict # <<>> /\ evict \in Seq(Chunks)
  BY DEF PutEvicts, StoreInv, StoreShapes, Put
<1>2. Tail(evict) \in Seq(Chunks)
  BY <1>1
<1>3. put \in Put /\ put.stage = "evicting" /\ put.evict = Tail(evict)
  BY <1>1, <1>2 DEF Put
<1>4. /\ puts' = [puts EXCEPT ![w] = put] /\ UNCHANGED <<memory, hydration, lapsed>>
      /\ persisted' = Without(persisted, Head(evict))
  BY DEF PutEvicts, PutMoves
<1>5. Entries(persisted') /\ Held(persisted') = Held(persisted) \ {Head(evict)}
  BY <1>4, WithoutKeeps DEF StoreInv, StoreShapes
<1>6. Slated(w) = ToSet(evict)
  BY <1>1 DEF Slated
<1> HIDE DEF put, evict
<1>7. put # None
  BY <1>3, NoPutAssumption
<1>8. \A i \in Held(persisted') : i \in Slated(w) => i \in ToSet(put.evict)
  BY <1>1, <1>3, <1>5, <1>6, HeadGoes
<1>9. memory' \subseteq {e \in Entry : e.valid} /\ Held(persisted') \subseteq Held(persisted)
  BY <1>4, <1>5 DEF StoreInv, StoreShapes
<1> QED BY <1>1, <1>3, <1>4, <1>5, <1>7, <1>8, <1>9, PutMovesOn

LEMMA PutEndsKeep ==
  ASSUME StoreInv, NEW w \in Writers, PutDone(w) \/ PutFailed(w)
  PROVE  StoreInv'
<1>0. ~lapsed' => ~lapsed
  BY Zenon DEF PutDone, PutFailed
<1>1. puts' = [puts EXCEPT ![w] = None] /\ UNCHANGED <<memory, persisted, hydration>>
  BY DEF PutDone, PutFailed, PutMoves
<1>2. CASE lapsed'
  <2>1. StoreShapes'
    BY <1>1 DEF StoreInv, StoreShapes
  <2> QED BY <1>2, <2>1 DEF StoreInv, StayingFits
<1>3. CASE ~lapsed'
  <2>1. puts[w] # None => puts[w].stage # "listing"
    BY <1>3 DEF PutDone, PutFailed
  <2>2. Slated(w) = {}
    <3>1. CASE PutDone(w)
      BY <3>1 DEF PutDone, Slated, ToSet
    <3>2. CASE PutFailed(w)
      BY <1>3, <3>2 DEF PutFailed, Asks, Slated
    <3> QED BY <3>1, <3>2
  <2> QED BY <1>0, <1>1, <2>1, <2>2, PutMovesOn DEF StoreInv, StoreShapes
<1> QED BY <1>2, <1>3

LEMMA TouchKeeps ==
  ASSUME StoreInv, NEW i \in Chunks, Touch(i)
  PROVE  StoreInv'
<1>1. PICK e \in ToSet(persisted) : e.index = i /\ persisted' = Append(Without(persisted, i), e)
  BY DEF Touch
<1>2. e \in Entry /\ i \in Held(persisted)
  BY <1>1 DEF ToSet, Held, StoreInv, StoreShapes, Entries
<1>3. Entries(persisted') /\ Held(persisted') = Held(persisted)
  <2>1. persisted' = Append(Without(persisted, e.index), e) /\ Entries(persisted)
    BY <1>1 DEF StoreInv, StoreShapes
  <2>2. Entries(persisted') /\ Held(persisted') = Held(persisted) \cup {e.index}
    BY <1>2, <2>1, AppendKeeps
  <2> QED BY <1>1, <1>2, <2>2
<1>4. UNCHANGED <<memory, hydration, puts, lapsed>>
  BY DEF Touch
<1>5. StoreShapes' /\ Staying' = Staying /\ (NoneToList' <=> NoneToList)
  BY <1>3, <1>4 DEF StoreInv, StoreShapes, Staying, NoneToList, Slated, Rejected
<1> QED BY <1>4, <1>5, FewerStay

LEMMA ClearKeeps ==
  ASSUME StoreInv, Clear \/ ClearDatabase
  PROVE  StoreInv'
<1>1. memory' \subseteq memory /\ UNCHANGED <<hydration, puts, lapsed>> /\ (persisted' = persisted \/ persisted' = <<>>)
  BY DEF Clear, ClearDatabase
<1>2. Entries(persisted') /\ Held(persisted') \subseteq Held(persisted)
  <2>1. Entries(<<>>) /\ Held(<<>>) = {}
    BY DEF Entries, OneOfEach, Held
  <2> QED BY <1>1, <2>1 DEF StoreInv, StoreShapes
<1>3. StoreShapes' /\ Staying' \subseteq Staying /\ (NoneToList' <=> NoneToList)
  BY <1>1, <1>2 DEF StoreInv, StoreShapes, Staying, NoneToList, Slated, Rejected
<1> QED BY <1>1, <1>3, FewerStay

LEMMA ReloadKeeps ==
  ASSUME StoreInv, Reload
  PROVE  StoreInv'
<1>1. PICK other \in SUBSET Chunks :
        persisted' = [k \in DOMAIN persisted |->
                        [persisted[k] EXCEPT !.valid = persisted[k].valid /\ persisted[k].index \notin other]]
  BY DEF Reload
<1>2. persisted \in Seq(Entry) /\ OneOfEach(persisted)
  BY DEF StoreInv, StoreShapes, Entries
<1>3. ASSUME NEW k \in DOMAIN persisted
      PROVE  persisted'[k] \in Entry /\ persisted'[k].index = persisted[k].index
  <2> DEFINE valid == persisted[k].valid /\ persisted[k].index \notin other
  <2>1. persisted[k] \in Entry
    BY <1>2
  <2>2. valid \in BOOLEAN
    BY Zenon
  <2>3. persisted'[k] = [persisted[k] EXCEPT !.valid = valid]
    BY <1>1
  <2> HIDE DEF valid
  <2> QED BY <2>1, <2>2, <2>3 DEF Entry
<1>4. persisted' \in Seq(Entry) /\ DOMAIN persisted' = DOMAIN persisted
  <2>1. DOMAIN persisted = 1 .. Len(persisted) /\ Len(persisted) \in Nat
    BY <1>2
  <2>2. persisted' \in [1 .. Len(persisted) -> Entry]
    BY <1>1, <1>3, <2>1
  <2> QED BY <2>1, <2>2
<1>5. Entries(persisted')
  BY <1>2, <1>3, <1>4 DEF Entries, OneOfEach
<1>6. memory' = {} /\ puts' = [v \in Writers |-> None] /\ hydration' = [stage |-> "listing", left |-> <<>>]
  BY DEF Reload
<1>7. StoreShapes'
  BY <1>5, <1>6 DEF StoreShapes
<1>8. StayingFits'
  BY <1>6 DEF StayingFits
<1> QED BY <1>7, <1>8 DEF StoreInv

\* The hydration lists once it has verified all, then evicts.
LEMMA HydrateKeeps ==
  ASSUME StoreInv, Hydrate
  PROVE  StoreInv'
<1>0. /\ Entries(persisted) /\ persisted \in Seq(Entry) /\ puts' = puts /\ memory \subseteq {e \in Entry : e.valid}
      /\ hydration \in [stage : {"listing", "verifying", "evicting", "ready", "failed"}, left : Seq(Entry) \cup Seq(Chunks)]
      /\ puts \in [Writers -> Put \cup {None}]
  BY DEF StoreInv, StoreShapes, Entries, Hydrate
<1>1. CASE /\ hydration.stage = "listing"
           /\ hydration' = [stage |-> "verifying", left |-> persisted]
           /\ UNCHANGED <<memory, persisted, lapsed>>
  <2>1. StoreShapes'
    BY <1>0, <1>1 DEF StoreShapes
  <2> QED BY <1>1, <2>1 DEF StoreInv, StayingFits
<1>2. CASE /\ hydration.stage = "verifying" /\ hydration.left # <<>>
           /\ LET entry == Head(hydration.left) IN
                IF Accepted(entry)
                THEN memory' = memory \cup {entry} /\ UNCHANGED persisted
                ELSE persisted' = Without(persisted, entry.index) /\ UNCHANGED memory
           /\ hydration' = [hydration EXCEPT !.left = Tail(@)]
           /\ UNCHANGED lapsed
  <2> DEFINE entry == Head(hydration.left)
             left == Tail(hydration.left)
  <2>1. entry \in Entry /\ left \in Seq(Entry)
    BY <1>2 DEF StoreInv, StoreShapes
  <2>2. memory' \subseteq {e \in Entry : e.valid}
    BY <1>0, <1>2, <2>1 DEF Accepted
  <2>3. Entries(persisted')
    BY <1>0, <1>2, WithoutKeeps
  <2>4. hydration' = [hydration EXCEPT !.left = left]
    BY <1>2
  <2> HIDE DEF left
  <2>5. /\ hydration' \in [stage : {"listing", "verifying", "evicting", "ready", "failed"}, left : Seq(Entry) \cup Seq(Chunks)]
        /\ hydration'.stage = "verifying" /\ hydration'.left \in Seq(Entry)
    BY <1>0, <1>2, <2>1, <2>4
  <2>6. StoreShapes'
    BY <1>0, <2>2, <2>3, <2>5 DEF StoreShapes
  <2> QED BY <2>5, <2>6 DEF StoreInv, StayingFits
<1>3. CASE /\ hydration.stage = "verifying" /\ hydration.left = <<>>
           /\ hydration' = [stage |-> "evicting", left |-> Excess(persisted)]
           /\ lapsed' = FALSE
           /\ UNCHANGED <<memory, persisted>>
  <2>1. Excess(persisted) \in Seq(Chunks)
    BY <1>0, ExcessSuffices
  <2>2. StoreShapes'
    BY <1>0, <1>3, <2>1 DEF StoreShapes
  <2>3. Rejected' = ToSet(Excess(persisted))
    BY <1>3 DEF Rejected
  <2>4. Staying' \subseteq Held(persisted) \ ToSet(Excess(persisted))
    BY <1>3, <2>3 DEF Staying
  <2> QED BY <2>2, <2>4, ListingFits
<1>4. CASE /\ hydration.stage = "evicting" /\ hydration.left # <<>>
           /\ persisted' = Without(persisted, Head(hydration.left))
           /\ hydration' = [hydration EXCEPT !.left = Tail(@)]
           /\ UNCHANGED <<memory, lapsed>>
  <2> DEFINE old == hydration.left
             left == Tail(old)
  <2>1. old \in Seq(Chunks) /\ left \in Seq(Chunks) /\ \A i \in ToSet(old) : i # Head(old) => i \in ToSet(left)
    BY <1>4, HeadGoes DEF StoreInv, StoreShapes
  <2>2. hydration' = [hydration EXCEPT !.left = left]
    BY <1>4
  <2>3. Entries(persisted') /\ Held(persisted') = Held(persisted) \ {Head(old)}
    BY <1>0, <1>4, WithoutKeeps
  <2> HIDE DEF left
  <2>4. /\ hydration' \in [stage : {"listing", "verifying", "evicting", "ready", "failed"}, left : Seq(Entry) \cup Seq(Chunks)]
        /\ hydration'.stage = "evicting" /\ hydration'.left = left
    BY <1>0, <1>4, <2>1, <2>2
  <2>5. StoreShapes'
    BY <1>0, <1>4, <2>1, <2>3, <2>4 DEF StoreShapes
  <2>6. Rejected = ToSet(old) /\ Rejected' = ToSet(left)
    BY <1>4, <2>4 DEF Rejected
  <2>7. Staying' \subseteq Staying
    BY <1>0, <2>1, <2>3, <2>6 DEF Staying, Slated
  <2>8. NoneToList' <=> NoneToList
    BY <1>0 DEF NoneToList
  <2> QED BY <1>4, <2>5, <2>7, <2>8, FewerStay
<1>5. CASE /\ hydration.stage = "evicting" /\ hydration.left = <<>>
           /\ hydration' = [stage |-> "ready", left |-> <<>>]
           /\ UNCHANGED <<memory, persisted, lapsed>>
  <2>1. StoreShapes'
    BY <1>0, <1>5 DEF StoreShapes
  <2>2. Rejected = {} /\ Rejected' = {}
    BY <1>5 DEF Rejected, ToSet
  <2>3. Staying' \subseteq Staying
    BY <1>0, <1>5, <2>2 DEF Staying, Slated
  <2>4. NoneToList' <=> NoneToList
    BY <1>0 DEF NoneToList
  <2> QED BY <1>5, <2>1, <2>3, <2>4, FewerStay
<1> QED BY <1>1, <1>2, <1>3, <1>4, <1>5 DEF Hydrate

LEMMA HydrationFailedKeeps ==
  ASSUME StoreInv, HydrationFailed
  PROVE  StoreInv'
<1>1. UNCHANGED <<memory, persisted, puts>> /\ hydration' = [stage |-> "failed", left |-> <<>>]
  BY DEF HydrationFailed
<1>2. StoreShapes'
  BY <1>1 DEF StoreInv, StoreShapes
<1> QED BY <1>1, <1>2 DEF StoreInv, StayingFits

\* The budget and the types follow.
LEMMA StoreInvSuffices == StoreInv => StoreTypeOK /\ BudgetKept
<1> SUFFICES ASSUME StoreInv PROVE StoreTypeOK /\ BudgetKept
  OBVIOUS
<1>1. StoreTypeOK
  BY DEF StoreInv, StoreShapes, Entries, OneOfEach, StoreTypeOK
<1>2. ASSUME Ready, \A w \in Writers : puts[w] = None, ~lapsed PROVE Len(persisted) <= MaxBytes
  <2>1. Staying = Held(persisted)
    BY <1>2 DEF Staying, Rejected, Slated, Ready
  <2>2. Cardinality(Staying) <= MaxBytes
    BY <1>2 DEF StoreInv, StayingFits, Ready, NoneToList
  <2> QED BY <2>1, <2>2, LenIsHeld DEF StoreInv, StoreShapes
<1> QED BY <1>1, <1>2 DEF BudgetKept

-------------------------------------------------------------------------------
(* Numbers in their order.                                                  *)

\* A set of numbers that has 0, and the next of each it has, has all.
LEMMA AllNumbers ==
  ASSUME NEW C, 0 \in C, \A n \in Nat : n \in C => n + 1 \in C
  PROVE  \A k \in Nat : k \in C
<1> SUFFICES ASSUME NEW k \in Nat, k \notin C PROVE FALSE
  OBVIOUS
<1> DEFINE S == Nat \ C
<1>1. PICK n \in S : \A m \in S : ~(<<m, n>> \in OpToRel(<, Nat))
  <2>1. S \subseteq Nat /\ S # {}
    OBVIOUS
  <2> HIDE DEF S
  <2> QED BY <2>1, NatLessThanWellFounded, WFMin, Zenon
<1>2. \A m \in S : ~(m < n)
  BY <1>1, Zenon DEF OpToRel
<1>3. n # 0 /\ n \in Nat /\ n - 1 \in Nat /\ n - 1 < n /\ (n - 1) + 1 = n
  OBVIOUS
<1>4. n - 1 \in C
  BY <1>2, <1>3
<1> QED BY <1>3, <1>4

\* A set of numbers has a least one.
LEMMA LeastNumber ==
  ASSUME NEW S \in SUBSET Nat, S # {}
  PROVE  \E m \in S : \A n \in S : m <= n
<1>1. PICK m \in S : \A n \in S : ~(<<n, m>> \in OpToRel(<, Nat))
  BY NatLessThanWellFounded, WFMin, Zenon
<1>2. \A n \in S : ~(n < m)
  BY <1>1, Zenon DEF OpToRel
<1>3. ASSUME NEW n \in S PROVE m <= n
  <2>1. m \in Nat /\ n \in Nat /\ ~(n < m)
    BY <1>2
  <2> QED BY <2>1
<1> QED BY <1>3

InOrder(q, S) ==
  q \in [1 .. Cardinality(S) -> S] /\ \A j, k \in DOMAIN q : j < k => q[j] < q[k]

\* Every finite set of numbers can be put in order.
LEMMA OrderExists ==
  ASSUME NEW S \in SUBSET Nat, IsFiniteSet(S)
  PROVE  \E q : InOrder(q, S)
<1> DEFINE C == {n \in Nat : \A T \in SUBSET Nat : IsFiniteSet(T) /\ Cardinality(T) = n => \E q : InOrder(q, T)}
<1>1. 0 \in C
  <2> SUFFICES ASSUME NEW T \in SUBSET Nat, IsFiniteSet(T), Cardinality(T) = 0 PROVE \E q : InOrder(q, T)
    OBVIOUS
  <2> DEFINE q == [k \in 1 .. 0 |-> 0]
  <2>1. InOrder(q, T)
    BY DEF InOrder
  <2> QED BY <2>1
<1>2. ASSUME NEW n \in Nat, n \in C PROVE n + 1 \in C
  <2> SUFFICES ASSUME NEW T \in SUBSET Nat, IsFiniteSet(T), Cardinality(T) = n + 1 PROVE \E q : InOrder(q, T)
    OBVIOUS
  <2>1. T # {}
    BY FS_EmptySet
  <2>2. PICK m \in T : \A x \in T : m <= x
    BY <2>1, LeastNumber
  <2> DEFINE U == T \ {m}
  <2>3. U \in SUBSET Nat /\ IsFiniteSet(U) /\ Cardinality(U) = n
    <3>1. IsFiniteSet(U) /\ Cardinality(U) = (n + 1) - 1
      BY FS_RemoveElement
    <3> QED BY <3>1
  <2>4. PICK r : InOrder(r, U)
    BY <1>2, <2>3
  <2>5. /\ r \in [1 .. n -> U] /\ \A j, k \in 1 .. n : j < k => r[j] < r[k]
        /\ \A k \in 1 .. n : r[k] \in T /\ m < r[k]
    <3>1. r \in [1 .. n -> U] /\ \A j, k \in 1 .. n : j < k => r[j] < r[k]
      BY <2>3, <2>4 DEF InOrder
    <3>2. \A x \in U : x \in T /\ m < x
      BY <2>2
    <3> QED BY <3>1, <3>2
  <2> DEFINE q == [k \in 1 .. n + 1 |-> IF k = 1 THEN m ELSE r[k - 1]]
  <2>6. q \in [1 .. n + 1 -> T]
    BY <2>5
  <2>7. ASSUME NEW j \in 1 .. n + 1, NEW k \in 1 .. n + 1, j < k PROVE q[j] < q[k]
    <3>1. k # 1 /\ k - 1 \in 1 .. n /\ q[k] = r[k - 1]
      BY <2>7
    <3>2. CASE j = 1
      BY <2>5, <3>1, <3>2
    <3>3. CASE j # 1
      <4>1. j - 1 \in 1 .. n /\ j - 1 < k - 1 /\ q[j] = r[j - 1]
        BY <2>7, <3>3
      <4> QED BY <2>5, <3>1, <4>1
    <3> QED BY <3>2, <3>3
  <2> HIDE DEF q
  <2> QED BY <2>6, <2>7 DEF InOrder
<1> HIDE DEF C
<1>3. \A n \in Nat : n \in C
  BY <1>1, <1>2, AllNumbers
<1> QED BY <1>3, FS_CardinalityType DEF C

\* Ascending lists all of a set, and nothing else.
LEMMA AscendingLists ==
  ASSUME NEW S \in SUBSET Nat, IsFiniteSet(S)
  PROVE  /\ Cardinality(S) \in Nat /\ Ascending(S) \in [1 .. Cardinality(S) -> S]
         /\ \A x \in S : \E k \in 1 .. Cardinality(S) : Ascending(S)[k] = x
<1> DEFINE q == Ascending(S)
           n == Cardinality(S)
<1>1. n \in Nat
  BY FS_CardinalityType
<1>2. \E r \in [1 .. n -> S] : \A j, k \in DOMAIN r : j < k => r[j] < r[k]
  BY OrderExists DEF InOrder
<1>3. q \in [1 .. n -> S] /\ \A j, k \in DOMAIN q : j < k => q[j] < q[k]
  BY <1>2 DEF Ascending
<1> HIDE DEF q
<1>4. \A j, k \in 1 .. n : q[j] = q[k] => j = k
  <2> SUFFICES ASSUME NEW j \in 1 .. n, NEW k \in 1 .. n, q[j] = q[k], j # k PROVE FALSE
    OBVIOUS
  <2>1. q[j] \in Nat /\ q[k] \in Nat /\ DOMAIN q = 1 .. n
    BY <1>3
  <2>2. j < k \/ k < j
    BY <1>1
  <2> QED BY <1>3, <2>1, <2>2
<1>5. q \in Injection(1 .. n, S)
  BY <1>3, <1>4 DEF Injection, IsInjective
<1>6. Cardinality(1 .. n) = n
  <2>1. \A m \in Nat : Cardinality(1 .. m) = m
    BY FS_Interval
  <2> HIDE DEF n
  <2> QED BY <1>1, <2>1
<1>7. q \in Surjection(1 .. n, S)
  BY <1>5, <1>6, FS_Injection
<1> QED BY <1>1, <1>3, <1>7 DEF Surjection, q

\* The elements at some places of a sequence
LEMMA AtPlaces ==
  ASSUME NEW T, NEW s \in Seq(T), NEW S \in SUBSET (DOMAIN s)
  PROVE  /\ At(s, S) \in Seq(T) /\ Len(At(s, S)) = Cardinality(S) /\ Cardinality(S) \in Nat
         /\ \A n \in 1 .. Cardinality(S) : \E k \in S : At(s, S)[n] = s[k]
         /\ S # {} => Cardinality(S) > 0
<1>1. Len(s) \in Nat /\ DOMAIN s = 1 .. Len(s)
  OBVIOUS
<1>2. S \in SUBSET Nat /\ IsFiniteSet(S)
  <2>1. IsFiniteSet(1 .. Len(s))
    BY <1>1, FS_Interval
  <2> QED BY <1>1, <2>1, FS_Subset
<1> DEFINE n == Cardinality(S)
           q == Ascending(S)
<1>3. n \in Nat /\ q \in [1 .. n -> S]
  BY <1>2, AscendingLists
<1>4. S # {} => n > 0
  BY <1>2, <1>3, FS_EmptySet
<1>5. At(s, S) = [k \in 1 .. n |-> s[q[k]]]
  BY DEF At
<1> HIDE DEF n, q
<1>6. \A k \in 1 .. n : q[k] \in S /\ s[q[k]] \in T
  BY <1>1, <1>3
<1>7. At(s, S) \in Seq(T) /\ Len(At(s, S)) = n
  BY <1>3, <1>5, <1>6
<1>8. \A k \in 1 .. n : At(s, S)[k] = s[q[k]]
  BY <1>5
<1> QED BY <1>3, <1>4, <1>6, <1>7, <1>8 DEF n

-------------------------------------------------------------------------------
(* The invariant of the download.                                           *)

SwarmShapes ==
  /\ download \in Download
  /\ requests \in [Seeders -> ChunkRequest]
  /\ peers \in [Seeders -> {"absent", "connecting", "ready"}]
  /\ inbound \in [Seeders -> Seq(Frame)]
  /\ holds \in [Seeders -> [chunks : SUBSET Chunks, otherLayout : BOOLEAN]]

\* What a seeder sends: chunks of the file, and an error only when its file
\* is another; only such a seeder's chunks fail the verification.
FramesHonest ==
  /\ \A s \in Seeders : \A k \in DOMAIN inbound[s] :
       /\ inbound[s][k].type = "chunk" => inbound[s][k].chunk \in Chunks
       /\ inbound[s][k].type = "error" => holds[s].otherLayout
       /\ inbound[s][k].call <= download.call
  /\ \A s \in Seeders :
       puts[s] # None => puts[s].caller > 0 /\ (puts[s].valid \/ holds[s].otherLayout)

\* Requests are made in rounds, and nothing of a call's is under way before
\* its first.
RequestsOfRound ==
  /\ download.stage # "round" => \A s \in Seeders : requests[s] = NoRequest
  /\ \A s \in Seeders : Pending(s) \/ Sending(s) => requests[s].call = download.call
  /\ Underway => download.call > 0
  /\ download.stage = "preparing" =>
       \A s \in Seeders :
         /\ s \notin download.failed /\ download.unavailable[s] = {}
         /\ \A k \in DOMAIN inbound[s] : inbound[s][k].call # download.call

\* In a download that met no fault every source is linked, and has been given
\* up, or for a chunk, only for what it has not; and whatever is missing was
\* so when the download last looked.
SourcesGood ==
  Underway /\ ~download.disturbed =>
    /\ \A n \in DOMAIN download.sources : peers[download.sources[n]] = "ready"
    /\ \A s \in download.linked : peers[s] = "ready"
    /\ missingChunks \subseteq download.missing
    /\ \A s \in Seeders : ~holds[s].otherLayout =>
         s \notin download.failed /\ download.unavailable[s] \cap holds[s].chunks = {}

\* What s has of what was asked of it and has not been noted is in a put, or
\* comes before the completion, the last of its frames.
Answering(s) ==
  LET frames == inbound[s] IN
  /\ frames # <<>>
  /\ \A k \in DOMAIN frames :
       (frames[k].call = download.call /\ frames[k].type = "complete") <=> k = Len(frames)
  /\ \A i \in requests[s].requested \cap holds[s].chunks :
       \/ i \in requests[s].received
       \/ (puts[s] # None /\ puts[s].index = i /\ puts[s].caller = download.call)
       \/ \E k \in DOMAIN frames :
            frames[k].type = "chunk" /\ frames[k].chunk = i /\ frames[k].call = download.call

Answered(s) ==
  /\ requests[s].state # "rejected" /\ ~Sending(s)
  /\ requests[s].state = "resolved" => requests[s].requested \cap holds[s].chunks \subseteq requests[s].received
  /\ \A k \in DOMAIN inbound[s] : inbound[s][k].call # download.call

\* Nothing of the call's comes before its request is sent.
Unsent(s) == \A k \in DOMAIN inbound[s] : inbound[s][k].call # download.call

Due(s) == IF ~Pending(s) THEN Answered(s) ELSE IF Sending(s) THEN Unsent(s) ELSE Answering(s)

RoundGood ==
  download.stage = "round" /\ ~download.disturbed => \A s \in Seeders : ~holds[s].otherLayout => Due(s)

SwarmInv ==
  StoreInv /\ SwarmShapes /\ FramesHonest /\ RequestsOfRound /\ SourcesGood /\ RoundGood /\ FailsOnlyForWant

-------------------------------------------------------------------------------
(* A round.                                                                 *)

\* A chunk that can be dealt goes to one of the sources.
LEMMA SourceIsOne ==
  ASSUME NEW d \in Download, NEW i \in Dealt(d), IsFiniteSet(Chunks)
  PROVE  \E n \in DOMAIN d.sources : SourceOf(d, i) = d.sources[n]
<1> DEFINE E == Eligible(d, i)
           before == {j \in Dealt(d) : j < i}
           eligible == At(d.sources, E)
           cursor == d.cursor + Cardinality(before)
<1>1. d.sources \in Seq(Seeders) /\ d.cursor \in Nat
  BY DEF Download
<1>2. E \in SUBSET (DOMAIN d.sources) /\ E # {}
  BY DEF Eligible, Dealt
<1>3. Cardinality(before) \in Nat
  <2>1. before \in SUBSET Chunks
    BY DEF Dealt, Download
  <2> HIDE DEF before
  <2> QED BY <2>1, FS_Subset, FS_CardinalityType
<1>4. cursor \in Nat
  <2> HIDE DEF before
  <2> QED BY <1>1, <1>3
<1> HIDE DEF E, before, cursor
<1>5. /\ Len(eligible) \in Nat /\ Len(eligible) > 0 /\ Len(eligible) = Cardinality(E)
      /\ \A n \in 1 .. Cardinality(E) : \E k \in E : eligible[n] = d.sources[k]
  BY <1>1, <1>2, AtPlaces
<1> HIDE DEF eligible
<1>6. (cursor % Len(eligible)) + 1 \in 1 .. Len(eligible)
  BY <1>4, <1>5
<1>7. SourceOf(d, i) = eligible[(cursor % Len(eligible)) + 1]
  BY DEF SourceOf, eligible, cursor, before, E
<1> QED BY <1>2, <1>5, <1>6, <1>7

\* Each chunk that can be dealt is given to a source, and to none but sources.
LEMMA DealGives ==
  ASSUME NEW d \in Download
  PROVE  /\ Deal(d).cursor \in 0 .. 11
         /\ Deal(d).given \in [Seeders -> SUBSET Chunks]
         /\ \A s \in Seeders : Deal(d).given[s] # {} => \E n \in DOMAIN d.sources : d.sources[n] = s
         /\ \A i \in Dealt(d) : \E s \in Seeders : i \in Deal(d).given[s]
<1>1. IsFiniteSet(Chunks) /\ Dealt(d) \in SUBSET Chunks
  BY SwarmAssumption DEF Dealt, Download
<1>2. Cardinality(Dealt(d)) \in Nat
  BY <1>1, FS_Subset, FS_CardinalityType
<1>3. d.cursor \in Nat /\ d.sources \in Seq(Seeders)
  BY DEF Download
<1>4. Deal(d).cursor \in 0 .. 11
  <2> DEFINE n == d.cursor + Cardinality(Dealt(d))
  <2>1. n \in Nat /\ Deal(d).cursor = n % 12
    BY <1>2, <1>3 DEF Deal
  <2> HIDE DEF n
  <2> QED BY <2>1
<1>5. \A i \in Dealt(d) : \E n \in DOMAIN d.sources : SourceOf(d, i) = d.sources[n]
  BY <1>1, SourceIsOne
<1>6. Deal(d).given = [s \in Seeders |-> {i \in Dealt(d) : SourceOf(d, i) = s}]
  BY DEF Deal
<1>7. \A n \in DOMAIN d.sources : d.sources[n] \in Seeders
  BY <1>3
<1> QED BY <1>1, <1>4, <1>5, <1>6, <1>7

\* What a seeder answers, and that one of the file's layout gives all it has
\* and completes.
Answer(frames, s, requested, call) ==
  /\ frames \in Seq(Frame)
  /\ \A k \in DOMAIN frames :
       /\ frames[k].call = call
       /\ frames[k].type = "chunk" => frames[k].chunk \in Chunks
       /\ frames[k].type = "error" => holds[s].otherLayout
  /\ ~holds[s].otherLayout =>
       /\ frames # <<>>
       /\ \A k \in DOMAIN frames : frames[k].type = "complete" <=> k = Len(frames)
       /\ \A i \in requested \cap holds[s].chunks :
            \E k \in DOMAIN frames : frames[k].type = "chunk" /\ frames[k].chunk = i

LEMMA ResponseFrames ==
  ASSUME SwarmShapes, NEW s \in Seeders, NEW requested \in SUBSET Chunks, NEW call \in 0 .. MaxDownloads
  PROVE  Answer(Response(s, requested, call), s, requested, call)
<1> DEFINE R == Response(s, requested, call)
           have == requested \cap holds[s].chunks
           sent == Ascending(have)
           n == Cardinality(have)
           error == [type |-> "error", chunk |-> None, call |-> call]
           complete == [type |-> "complete", chunk |-> None, call |-> call]
           frames == [k \in DOMAIN sent |-> [type |-> "chunk", chunk |-> sent[k], call |-> call]]
<1>1. error \in Frame /\ complete \in Frame
  BY DEF Frame
<1>2. /\ n \in Nat /\ sent \in [1 .. n -> have]
      /\ \A i \in have : \E k \in 1 .. n : sent[k] = i
  <2>1. have \in SUBSET Nat /\ IsFiniteSet(have)
    BY SwarmAssumption, FS_Subset
  <2> HIDE DEF have
  <2> QED BY <2>1, AscendingLists
<1>3. have \subseteq Chunks
  OBVIOUS
<1>4. (R = <<error>> /\ holds[s].otherLayout) \/ R = frames \o <<complete>>
  BY DEF Response
<1> HIDE DEF have, sent, n
<1>5. /\ frames \in Seq(Frame) /\ Len(frames) = n
      /\ \A k \in 1 .. n : frames[k].type = "chunk" /\ frames[k].chunk = sent[k] /\ frames[k].call = call
  <2>1. \A k \in 1 .. n : [type |-> "chunk", chunk |-> sent[k], call |-> call] \in Frame
    BY <1>2, <1>3 DEF Frame
  <2>2. frames = [k \in 1 .. n |-> [type |-> "chunk", chunk |-> sent[k], call |-> call]]
    BY <1>2
  <2> HIDE DEF frames
  <2> QED BY <1>2, <2>1, <2>2
<1> HIDE DEF R, frames
<1>6. CASE R = <<error>> /\ holds[s].otherLayout
  <2>1. R \in Seq(Frame) /\ DOMAIN R = {1} /\ R[1] = error
    BY <1>1, <1>6
  <2> QED BY <1>6, <2>1 DEF Answer, R
<1>7. CASE R = frames \o <<complete>>
  <2>1. /\ R \in Seq(Frame) /\ Len(R) = n + 1 /\ DOMAIN R = 1 .. n + 1 /\ R[n + 1] = complete
        /\ \A k \in 1 .. n : R[k] = frames[k]
    <3> HIDE DEF complete
    <3> QED BY <1>1, <1>2, <1>5, <1>7
  <2>2. \A k \in 1 .. n + 1 : k \in 1 .. n \/ k = n + 1
    BY <1>2
  <2>3. ASSUME NEW k \in DOMAIN R
        PROVE  /\ R[k].call = call
               /\ R[k].type = "chunk" => R[k].chunk \in Chunks
               /\ R[k].type # "error"
               /\ R[k].type = "complete" <=> k = Len(R)
    <3>1. CASE k \in 1 .. n
      BY <1>2, <1>3, <1>5, <2>1, <3>1
    <3>2. CASE k = n + 1
      BY <2>1, <3>2
    <3> QED BY <2>1, <2>2, <3>1, <3>2
  <2>4. R # <<>>
    BY <1>2, <2>1
  <2>5. ASSUME NEW i \in have PROVE \E k \in DOMAIN R : R[k].type = "chunk" /\ R[k].chunk = i
    <3>1. PICK k \in 1 .. n : sent[k] = i
      BY <1>2
    <3>2. k \in DOMAIN R /\ R[k] = frames[k]
      BY <1>2, <2>1
    <3> QED BY <1>5, <3>1, <3>2
  <2> QED BY <2>1, <2>3, <2>4, <2>5 DEF Answer, R, have
<1> QED BY <1>4, <1>6, <1>7

\* What #download knows of its sources when it starts a round.
ReadyFor(d) ==
  /\ d \in Download /\ d.call = download.call /\ d.disturbed = download.disturbed
  /\ d.stage = download.stage /\ d.stage \in {"preparing", "round"}
  /\ ~d.disturbed =>
       /\ \A n \in DOMAIN d.sources : peers[d.sources[n]] = "ready"
       /\ \A s \in d.linked : peers[s] = "ready"
       /\ missingChunks \subseteq d.missing
       /\ \A s \in Seeders : ~holds[s].otherLayout =>
            /\ s \notin d.failed /\ d.unavailable[s] \cap holds[s].chunks = {}
            /\ \A k \in DOMAIN inbound[s] : inbound[s][k].call # d.call

\* What the round does, in terms of whom it asks.
LEMMA RoundDoes ==
  ASSUME SwarmShapes, NEW d, ReadyFor(d), Round(d)
  PROVE  /\ \/ download' = [d EXCEPT !.cursor = Deal(d).cursor, !.stage = "round"]
            \/ /\ download' = [d EXCEPT !.cursor = Deal(d).cursor, !.stage = "failed"]
               /\ \A s \in Seeders : Deal(d).given[s] = {}
         /\ requests' \in [Seeders -> ChunkRequest]
         /\ \A s \in Seeders :
              \/ Deal(d).given[s] = {} /\ requests'[s] = NoRequest
              \/ /\ Deal(d).given[s] # {} /\ peers[s] # "ready"
                 /\ requests'[s].state = "rejected" /\ requests'[s].send = "settled"
              \/ /\ Deal(d).given[s] # {} /\ peers[s] = "ready"
                 /\ requests'[s].state = "pending" /\ requests'[s].send = "linked"
                 /\ requests'[s].call = d.call
<1> DEFINE given == Deal(d).given
           cursor == Deal(d).cursor
           asked == {s \in Seeders : given[s] # {}}
           reached == {s \in asked : peers[s] = "ready"}
           request(s) == [state |-> IF s \in reached THEN "pending" ELSE "rejected",
                          send |-> IF s \in reached THEN "linked" ELSE "settled",
                          requested |-> given[s], received |-> {}, call |-> d.call]
<1>1. /\ download' = [d EXCEPT !.cursor = cursor, !.stage = IF asked = {} THEN "failed" ELSE "round"]
      /\ requests' = [s \in Seeders |-> IF s \notin asked THEN NoRequest ELSE request(s)]
  BY DEF Round
<1>2. given \in [Seeders -> SUBSET Chunks] /\ d.call \in 0 .. MaxDownloads
  BY DealGives DEF ReadyFor, Download
<1> HIDE DEF given, cursor
<1>3. \/ download' = [d EXCEPT !.cursor = cursor, !.stage = "round"]
      \/ download' = [d EXCEPT !.cursor = cursor, !.stage = "failed"] /\ \A s \in Seeders : given[s] = {}
  <2>1. CASE asked = {}
    BY <1>1, <2>1
  <2>2. CASE asked # {}
    <3> HIDE DEF asked
    <3> QED BY <1>1, <2>2
  <2> QED BY <2>1, <2>2
<1>4. NoRequest \in ChunkRequest
  BY SwarmAssumption DEF NoRequest, ChunkRequest
<1>5. ASSUME NEW s \in Seeders PROVE request(s) \in ChunkRequest
  BY <1>2 DEF ChunkRequest
<1>6. requests' \in [Seeders -> ChunkRequest]
  <2> HIDE DEF request, asked
  <2> QED BY <1>1, <1>4, <1>5
<1>7. ASSUME NEW s \in Seeders
      PROVE  \/ given[s] = {} /\ requests'[s] = NoRequest
             \/ /\ given[s] # {} /\ peers[s] # "ready"
                /\ requests'[s].state = "rejected" /\ requests'[s].send = "settled"
             \/ /\ given[s] # {} /\ peers[s] = "ready"
                /\ requests'[s].state = "pending" /\ requests'[s].send = "linked" /\ requests'[s].call = d.call
  <2>1. CASE s \notin asked
    BY <1>1, <2>1
  <2>2. CASE s \in asked
    <3>1. requests'[s] = request(s)
      <4> HIDE DEF request, asked, reached
      <4> QED BY <1>1, <2>2
    <3> QED BY <2>2, <3>1
  <2> QED BY <2>1, <2>2
<1> QED BY <1>3, <1>6, <1>7 DEF given, cursor

\* A round starts: whoever is asked will answer once it is sent the request.
LEMMA RoundKeeps ==
  ASSUME SwarmInv, NEW d, ReadyFor(d), Round(d), UNCHANGED <<storeVars, peers, inbound, holds>>
  PROVE  SwarmShapes' /\ FramesHonest' /\ RequestsOfRound' /\ SourcesGood' /\ RoundGood' /\ FailsOnlyForWant'
<1>0. SwarmShapes /\ FramesHonest
  BY DEF SwarmInv
<1> DEFINE given == Deal(d).given
<1>1. /\ Deal(d).cursor \in 0 .. 11 /\ given \in [Seeders -> SUBSET Chunks]
      /\ \A s \in Seeders : given[s] # {} => \E n \in DOMAIN d.sources : d.sources[n] = s
      /\ \A i \in Dealt(d) : \E s \in Seeders : i \in given[s]
  BY DealGives DEF ReadyFor
<1>2. /\ download'.stage = "round" \/ (download'.stage = "failed" /\ \A s \in Seeders : given[s] = {})
      /\ download' \in Download /\ download'.call = d.call /\ download'.disturbed = d.disturbed
      /\ download'.sources = d.sources /\ download'.failed = d.failed /\ download'.unavailable = d.unavailable
      /\ download'.linked = d.linked /\ download'.missing = d.missing
  <2> DEFINE cursor == Deal(d).cursor
  <2>1. cursor \in 0 .. 11 /\ d \in Download
    BY <1>1 DEF ReadyFor
  <2>2. \/ download' = [d EXCEPT !.cursor = cursor, !.stage = "round"]
        \/ download' = [d EXCEPT !.cursor = cursor, !.stage = "failed"] /\ \A s \in Seeders : given[s] = {}
    BY <1>0, RoundDoes
  <2> HIDE DEF cursor, given
  <2>3. CASE download' = [d EXCEPT !.cursor = cursor, !.stage = "round"]
    BY <2>1, <2>3 DEF Download
  <2>4. CASE download' = [d EXCEPT !.cursor = cursor, !.stage = "failed"] /\ \A s \in Seeders : given[s] = {}
    BY <2>1, <2>4 DEF Download
  <2> QED BY <2>2, <2>3, <2>4
<1> HIDE DEF given
<1>3. ASSUME NEW s \in Seeders
      PROVE  \/ given[s] = {} /\ requests'[s] = NoRequest
             \/ /\ given[s] # {} /\ peers[s] # "ready"
                /\ requests'[s].state = "rejected" /\ requests'[s].send = "settled"
             \/ /\ given[s] # {} /\ peers[s] = "ready"
                /\ requests'[s].state = "pending" /\ requests'[s].send = "linked" /\ requests'[s].call = d.call
  <2>1. \/ Deal(d).given[s] = {} /\ requests'[s] = NoRequest
        \/ /\ Deal(d).given[s] # {} /\ peers[s] # "ready"
           /\ requests'[s].state = "rejected" /\ requests'[s].send = "settled"
        \/ /\ Deal(d).given[s] # {} /\ peers[s] = "ready"
           /\ requests'[s].state = "pending" /\ requests'[s].send = "linked" /\ requests'[s].call = d.call
    BY Zenon, <1>0, RoundDoes
  <2> QED BY <2>1 DEF given
<1>4. requests' \in [Seeders -> ChunkRequest]
  BY <1>0, RoundDoes
<1>5. UNCHANGED <<peers, inbound, holds, puts, memory>> /\ d.call = download.call /\ d.call \in 0 .. MaxDownloads
  BY DEF storeVars, ReadyFor, Download
<1>6. SwarmShapes'
  BY <1>0, <1>2, <1>4, <1>5 DEF SwarmShapes
<1>7. FramesHonest'
  BY <1>0, <1>2, <1>5 DEF FramesHonest
<1>8. RequestsOfRound'
  <2>0. download.call > 0
    BY DEF SwarmInv, RequestsOfRound, ReadyFor, Underway
  <2>1. ASSUME NEW s \in Seeders, Pending(s)' \/ Sending(s)' PROVE requests'[s].call = d.call
    <3>1. requests'[s].state = "pending" \/ requests'[s].send # "settled"
      BY <2>1 DEF Pending, Sending
    <3>2. requests'[s] # NoRequest
      BY <3>1 DEF NoRequest
    <3> QED BY <1>3, <3>1, <3>2
  <2>2. ASSUME download'.stage # "round", NEW s \in Seeders PROVE requests'[s] = NoRequest
    BY <1>2, <1>3, <2>2
  <2>3. download'.stage # "preparing"
    BY <1>2
  <2> QED BY <1>2, <1>5, <2>0, <2>1, <2>2, <2>3 DEF RequestsOfRound
<1>9. SourcesGood'
  <2>1. missingChunks' = missingChunks
    BY <1>5 DEF missingChunks
  <2> QED BY <1>2, <1>5, <2>1 DEF SourcesGood, ReadyFor
<1>10. RoundGood'
  <2> SUFFICES ASSUME ~d.disturbed, NEW s \in Seeders, ~holds[s].otherLayout
               PROVE  Due(s)'
    BY <1>2, <1>5 DEF RoundGood
  <2>1. \A k \in DOMAIN inbound[s] : inbound[s][k].call # d.call
    BY DEF ReadyFor
  <2>2. CASE given[s] = {}
    <3>1. requests'[s] = NoRequest
      BY <1>3, <2>2
    <3> QED BY <1>2, <1>5, <2>1, <3>1 DEF Due, Pending, Sending, Answered, NoRequest
  <2>3. CASE given[s] # {}
    <3>1. peers[s] = "ready"
      BY <1>1, <2>3 DEF ReadyFor
    <3>2. requests'[s].state = "pending" /\ requests'[s].send = "linked"
      BY <1>3, <2>3, <3>1
    <3> QED BY <1>2, <1>5, <2>1, <3>2 DEF Due, Pending, Sending, Unsent
  <2> QED BY <2>2, <2>3
<1>11. FailsOnlyForWant'
  <2> SUFFICES ASSUME download'.stage = "failed", ~d.disturbed, NEW n \in DOMAIN d.sources,
                      ~holds[d.sources[n]].otherLayout, NEW i \in holds[d.sources[n]].chunks, i \in missingChunks
               PROVE  FALSE
    BY <1>2, <1>5 DEF FailsOnlyForWant, ToSet, missingChunks
  <2>1. d.sources[n] \in Seeders
    BY DEF ReadyFor, Download
  <2>2. n \in Eligible(d, i)
    BY <2>1 DEF ReadyFor, Eligible
  <2>3. i \in Dealt(d)
    BY <2>2 DEF Dealt, ReadyFor
  <2> QED BY <1>1, <1>2, <2>3
<1> QED BY <1>6, <1>7, <1>8, <1>9, <1>10, <1>11

-------------------------------------------------------------------------------
(* The steps.                                                               *)

\* What comes after a fault is no matter of the download's calm conduct.
LEMMA FaultKeeps ==
  ASSUME StoreInv', SwarmShapes', FramesHonest', RequestsOfRound', download'.disturbed
  PROVE  SwarmInv'
BY DEF SwarmInv, SourcesGood, RoundGood, FailsOnlyForWant

\* The store works on: no chunk leaves the memory, and the puts stay whose
\* they are.
LEMMA StoreWorksKeeps ==
  ASSUME SwarmInv, StoreInv', UNCHANGED swarmVars, memory \subseteq memory',
         \A s \in Seeders :
           \/ puts[s] = None /\ puts'[s] = None
           \/ /\ puts[s] # None /\ puts'[s] # None /\ puts'[s].index = puts[s].index
              /\ puts'[s].valid = puts[s].valid /\ puts'[s].caller = puts[s].caller
  PROVE  SwarmInv'
<1>1. UNCHANGED <<download, requests, peers, inbound, holds>>
  BY DEF swarmVars
<1>2. SwarmShapes' /\ RequestsOfRound' /\ SourcesGood'
  BY <1>1 DEF SwarmInv, SwarmShapes, RequestsOfRound, SourcesGood, Underway, Pending, Sending, missingChunks
<1>3. FramesHonest'
  BY <1>1 DEF SwarmInv, FramesHonest
<1>4. FailsOnlyForWant'
  BY <1>1 DEF SwarmInv, FailsOnlyForWant, missingChunks
<1>5. RoundGood'
  <2> SUFFICES ASSUME download.stage = "round", ~download.disturbed, NEW s \in Seeders, ~holds[s].otherLayout
               PROVE  Due(s)'
    BY <1>1 DEF RoundGood
  <2>1. Due(s)
    BY DEF SwarmInv, RoundGood
  <2> QED BY <1>1, <2>1 DEF Due, Pending, Sending, Unsent, Answering, Answered
<1> QED BY <1>2, <1>3, <1>4, <1>5 DEF SwarmInv

LEMMA PutWorksKeeps ==
  ASSUME SwarmInv, NEW w \in Seeders, PutVerified(w) \/ PutPersisted(w) \/ PutLists(w) \/ PutEvicts(w),
         UNCHANGED swarmVars
  PROVE  SwarmInv'
<1>1. w \in Writers /\ StoreInv /\ StoreShapes
  BY SwarmAssumption DEF SwarmInv, StoreInv
<1>2. StoreInv'
  BY <1>1, PutVerifiedKeeps, PutPersistedKeeps, PutListsKeeps, PutEvictsKeeps
<1>3. puts[w] \in Put /\ puts[w] # None /\ memory \subseteq memory'
  BY <1>1 DEF StoreShapes, PutVerified, PutPersisted, PutLists, PutEvicts
<1>4. \E put \in Put : /\ puts' = [puts EXCEPT ![w] = put]
                       /\ put.index = puts[w].index /\ put.valid = puts[w].valid /\ put.caller = puts[w].caller
  <2>1. CASE PutVerified(w)
    <3> DEFINE put == [puts[w] EXCEPT !.stage = "persisting"]
    <3>1. put \in Put /\ put.index = puts[w].index /\ put.valid = puts[w].valid /\ put.caller = puts[w].caller
      BY <1>3 DEF Put
    <3>2. puts' = [puts EXCEPT ![w] = put]
      BY <2>1 DEF PutVerified, PutMoves
    <3> HIDE DEF put
    <3> QED BY <3>1, <3>2
  <2>2. CASE PutPersisted(w)
    <3> DEFINE put == [puts[w] EXCEPT !.stage = "listing"]
    <3>1. put \in Put /\ put.index = puts[w].index /\ put.valid = puts[w].valid /\ put.caller = puts[w].caller
      BY <1>3 DEF Put
    <3>2. puts' = [puts EXCEPT ![w] = put]
      BY <2>2 DEF PutPersisted, PutMoves
    <3> HIDE DEF put
    <3> QED BY <3>1, <3>2
  <2>3. CASE PutLists(w)
    <3> DEFINE put == [puts[w] EXCEPT !.stage = "evicting", !.evict = Excess(persisted)]
    <3>1. Excess(persisted) \in Seq(Chunks)
      BY <1>1, ExcessSuffices DEF StoreShapes
    <3>2. put \in Put /\ put.index = puts[w].index /\ put.valid = puts[w].valid /\ put.caller = puts[w].caller
      BY <1>3, <3>1 DEF Put
    <3>3. puts' = [puts EXCEPT ![w] = put]
      BY <2>3 DEF PutLists, PutMoves
    <3> HIDE DEF put
    <3> QED BY <3>2, <3>3
  <2>4. CASE PutEvicts(w)
    <3> DEFINE evict == puts[w].evict
               put == [puts[w] EXCEPT !.evict = Tail(evict)]
    <3>1. evict # <<>> /\ evict \in Seq(Chunks)
      BY <1>3, <2>4 DEF PutEvicts, Put
    <3>2. Tail(evict) \in Seq(Chunks)
      BY <3>1
    <3>3. put \in Put /\ put.index = puts[w].index /\ put.valid = puts[w].valid /\ put.caller = puts[w].caller
      BY <1>3, <3>2 DEF Put
    <3>4. puts' = [puts EXCEPT ![w] = put]
      BY <2>4 DEF PutEvicts, PutMoves
    <3> HIDE DEF put
    <3> QED BY <3>3, <3>4
  <2> QED BY <2>1, <2>2, <2>3, <2>4
<1>5. \A s \in Seeders :
        \/ puts[s] = None /\ puts'[s] = None
        \/ /\ puts[s] # None /\ puts'[s] # None /\ puts'[s].index = puts[s].index
           /\ puts'[s].valid = puts[s].valid /\ puts'[s].caller = puts[s].caller
  BY <1>1, <1>3, <1>4, SwarmAssumption, NoPutAssumption DEF StoreShapes
<1> QED BY <1>2, <1>3, <1>5, StoreWorksKeeps

LEMMA StoreStepKeeps ==
  ASSUME SwarmInv, StoreStep \/ ((\E i \in Chunks : Touch(i)) /\ UNCHANGED swarmVars)
  PROVE  SwarmInv'
<1>1. StoreInv' /\ UNCHANGED swarmVars /\ UNCHANGED puts /\ memory \subseteq memory'
  BY HydrateKeeps, HydrationFailedKeeps, ClearKeeps, TouchKeeps
  DEF SwarmInv, StoreStep, Hydrate, HydrationFailed, ClearDatabase, Touch
<1> QED BY <1>1, StoreWorksKeeps

\* clear(): whatever is under way goes on.
LEMMA ClearStoreKeeps ==
  ASSUME SwarmInv, ClearStore
  PROVE  SwarmInv'
<1>1. /\ StoreInv' /\ UNCHANGED <<puts, requests, peers, inbound, holds>>
      /\ download' = [download EXCEPT !.disturbed = TRUE]
  BY ClearKeeps DEF SwarmInv, ClearStore, Clear, Disturbed
<1>2. /\ download' \in Download /\ download'.disturbed /\ download'.stage = download.stage
      /\ download'.call = download.call /\ download'.failed = download.failed
      /\ download'.unavailable = download.unavailable
  BY <1>1 DEF SwarmInv, SwarmShapes, Download
<1>3. SwarmShapes' /\ FramesHonest' /\ RequestsOfRound'
  BY <1>1, <1>2 DEF SwarmInv, SwarmShapes, FramesHonest, RequestsOfRound, Underway, Pending, Sending
<1> QED BY <1>1, <1>2, <1>3, FaultKeeps

\* The page comes back with nothing but its database.
LEMMA ReloadPageKeeps ==
  ASSUME SwarmInv, ReloadPage
  PROVE  SwarmInv'
<1>1. /\ StoreInv' /\ puts' = [w \in Writers |-> None] /\ download' = Idle(0)
      /\ requests' = [s \in Seeders |-> NoRequest] /\ peers' = [s \in Seeders |-> "absent"]
      /\ inbound' = [s \in Seeders |-> <<>>] /\ holds' = holds
  BY ReloadKeeps DEF SwarmInv, ReloadPage, Reload
<1>2. download' \in Download /\ download'.stage = "idle"
  <2>1. MaxDownloads \in Nat
    BY SwarmAssumption
  <2> QED BY <1>1, <2>1 DEF Idle, Download
<1>3. NoRequest \in ChunkRequest /\ NoRequest.state = "none"
  BY SwarmAssumption DEF NoRequest, ChunkRequest
<1>4. SwarmShapes'
  BY <1>1, <1>2, <1>3 DEF SwarmInv, SwarmShapes
<1>5. FramesHonest' /\ RequestsOfRound'
  BY <1>1, <1>2, <1>3, SwarmAssumption DEF FramesHonest, RequestsOfRound, Underway, Pending, Sending, NoRequest
<1>6. SourcesGood' /\ RoundGood' /\ FailsOnlyForWant'
  BY <1>2 DEF SourcesGood, Underway, RoundGood, FailsOnlyForWant
<1> QED BY <1>1, <1>4, <1>5, <1>6 DEF SwarmInv

\* A new call: the frames of the earlier ones are not its own.
LEMMA StartDownloadKeeps ==
  ASSUME SwarmInv, StartDownload
  PROVE  SwarmInv'
<1> DEFINE known == At(Advertised, {k \in DOMAIN Advertised : holds[Advertised[k]].chunks # {}})
           stage == IF missingChunks = {} THEN "complete" ELSE IF known = <<>> THEN "failed" ELSE "preparing"
           linked == {s \in Seeders : peers[s] = "ready"}
           new == [stage |-> stage, missing |-> missingChunks, linked |-> linked, advertised |-> known,
                   awaits |-> "nothing", sources |-> <<>>, failed |-> {}, unavailable |-> [s \in Seeders |-> {}],
                   cursor |-> 0, call |-> download.call + 1, disturbed |-> FALSE]
<1>1. /\ download.stage \notin {"preparing", "round"} /\ download.call < MaxDownloads
      /\ UNCHANGED <<storeVars, requests, peers, inbound, holds>>
  BY DEF StartDownload
<1>2. download' = new
  BY DEF StartDownload, Idle
<1>3. known \in Seq(Seeders)
  <2> DEFINE places == {k \in DOMAIN Advertised : holds[Advertised[k]].chunks # {}}
  <2>1. Advertised \in Seq(Seeders) /\ places \in SUBSET (DOMAIN Advertised)
    BY SwarmAssumption
  <2> HIDE DEF places
  <2>2. At(Advertised, places) \in Seq(Seeders)
    BY <2>1, AtPlaces
  <2> QED BY <2>2 DEF places
<1>4. download.call \in Nat /\ download.call + 1 \in 0 .. MaxDownloads
  <2>1. download.call \in 0 .. MaxDownloads /\ MaxDownloads \in Nat
    BY SwarmAssumption DEF SwarmInv, SwarmShapes, Download
  <2> QED BY <1>1, <2>1
<1>5. stage \in {"complete", "failed", "preparing"}
  OBVIOUS
<1>15. missingChunks \subseteq Chunks /\ linked \subseteq Seeders
  BY DEF missingChunks
<1> HIDE DEF known, stage, linked
<1>6. /\ download' \in Download /\ download'.stage = stage /\ download'.call = download.call + 1
      /\ download'.missing = missingChunks /\ download'.linked = linked
      /\ download'.sources = <<>> /\ download'.failed = {} /\ download'.unavailable = [s \in Seeders |-> {}]
  BY <1>2, <1>3, <1>4, <1>5, <1>15 DEF Download
<1>7. StoreInv'
  BY <1>1, StoreUntouched DEF SwarmInv
<1>8. SwarmShapes'
  BY <1>1, <1>6 DEF SwarmInv, SwarmShapes
<1>9. \A s \in Seeders : \A k \in DOMAIN inbound[s] :
        inbound[s][k].call \in Nat /\ inbound[s][k].call <= download.call
  <2>1. ASSUME NEW s \in Seeders, NEW k \in DOMAIN inbound[s] PROVE inbound[s][k] \in Frame
    BY DEF SwarmInv, SwarmShapes
  <2> QED BY <2>1 DEF SwarmInv, FramesHonest, Frame
<1>10. FramesHonest'
  BY <1>1, <1>4, <1>6, <1>9 DEF SwarmInv, FramesHonest, storeVars
<1>11. \A s \in Seeders : requests'[s] = NoRequest
  BY <1>1, <1>5 DEF SwarmInv, RequestsOfRound
<1>12. RequestsOfRound'
  BY <1>1, <1>4, <1>5, <1>6, <1>9, <1>11 DEF RequestsOfRound, Underway, Pending, Sending, NoRequest
<1>13. RoundGood' /\ FailsOnlyForWant'
  BY <1>5, <1>6 DEF RoundGood, FailsOnlyForWant, ToSet
<1>14. SourcesGood'
  <2>1. missingChunks' = missingChunks /\ \A s \in linked : peers'[s] = "ready"
    BY <1>1 DEF missingChunks, storeVars, linked
  <2> QED BY <1>6, <2>1 DEF SourcesGood
<1> QED BY <1>7, <1>8, <1>10, <1>12, <1>13, <1>14 DEF SwarmInv

\* The next seeder is passed over, or taken as a source.
LEMMA PassedOn ==
  ASSUME SwarmShapes, Looking
  PROVE  /\ Candidate \in Seeders
         /\ Passed(download) \in Download
         /\ Passed(download).stage = download.stage /\ Passed(download).call = download.call
         /\ Passed(download).sources = download.sources /\ Passed(download).failed = download.failed
         /\ Passed(download).unavailable = download.unavailable
         /\ Passed(download).disturbed = download.disturbed
         /\ Passed(download).missing = download.missing /\ Passed(download).linked = download.linked
<1> DEFINE rest == Tail(download.advertised)
<1>1. download \in Download /\ download.advertised \in Seq(Seeders) /\ download.advertised # <<>>
  BY DEF SwarmShapes, Download, Looking
<1>2. rest \in Seq(Seeders) /\ Candidate \in Seeders
  BY <1>1 DEF Candidate
<1>3. Passed(download) = [download EXCEPT !.advertised = rest, !.awaits = "nothing"]
  BY DEF Passed
<1> HIDE DEF rest
<1> QED BY <1>1, <1>2, <1>3 DEF Download

\* A seeder that is linked becomes a source.
LEMMA TakenKeeps ==
  ASSUME SwarmInv, Looking, download' = Taken, Candidate \in download.linked \/ peers[Candidate] = "ready",
         UNCHANGED <<storeVars, requests, peers, inbound, holds>>
  PROVE  SwarmInv'
<1>0. StoreInv' /\ SwarmShapes /\ download.stage = "preparing" /\ Candidate \in Seeders
  BY PassedOn, StoreUntouched DEF SwarmInv, Looking
<1> DEFINE passed == Passed(download)
           sources == Append(download.sources, Candidate)
<1>1. download.sources \in Seq(Seeders)
  BY <1>0 DEF SwarmShapes, Download
<1>2. sources \in Seq(Seeders) /\ \A n \in DOMAIN sources : sources[n] = Candidate
                                    \/ (n \in DOMAIN download.sources /\ sources[n] = download.sources[n])
  BY <1>0, <1>1
<1>3. /\ passed \in Download /\ passed.stage = download.stage /\ passed.call = download.call
      /\ passed.sources = download.sources /\ passed.failed = download.failed
      /\ passed.unavailable = download.unavailable /\ passed.disturbed = download.disturbed
      /\ passed.missing = download.missing /\ passed.linked = download.linked
  BY <1>0, PassedOn
<1> HIDE DEF passed
<1>4. download' = [passed EXCEPT !.sources = sources]
  BY <1>3 DEF Taken, passed
<1> HIDE DEF sources
<1>5. /\ download' \in Download /\ download'.stage = download.stage /\ download'.call = download.call
      /\ download'.sources = sources /\ download'.failed = download.failed
      /\ download'.unavailable = download.unavailable /\ download'.disturbed = download.disturbed
      /\ download'.missing = download.missing /\ download'.linked = download.linked
  BY <1>2, <1>3, <1>4 DEF Download
<1>6. SwarmShapes' /\ FramesHonest' /\ RequestsOfRound'
  BY <1>0, <1>5 DEF SwarmInv, SwarmShapes, FramesHonest, RequestsOfRound, Underway, Pending, Sending, storeVars
<1>7. SourcesGood'
  <2>1. missingChunks' = missingChunks
    BY DEF missingChunks, storeVars
  <2> SUFFICES ASSUME ~download.disturbed
               PROVE  /\ \A n \in DOMAIN sources : peers[sources[n]] = "ready"
                      /\ \A s \in download.linked : peers[s] = "ready"
                      /\ missingChunks \subseteq download.missing
                      /\ \A s \in Seeders : ~holds[s].otherLayout =>
                           s \notin download.failed /\ download.unavailable[s] \cap holds[s].chunks = {}
    BY <1>5, <2>1 DEF SourcesGood
  <2> QED BY <1>0, <1>2 DEF SwarmInv, SourcesGood, Underway
<1>8. RoundGood' /\ FailsOnlyForWant'
  BY <1>0, <1>5 DEF RoundGood, FailsOnlyForWant
<1> QED BY <1>0, <1>6, <1>7, <1>8 DEF SwarmInv

\* A seeder is passed over.
LEMMA PassedOverKeeps ==
  ASSUME SwarmInv, Looking, download' = PassedOver, UNCHANGED <<storeVars, requests, inbound, holds>>,
         peers' \in [Seeders -> {"absent", "connecting", "ready"}]
  PROVE  SwarmInv'
<1> DEFINE passed == Passed(download)
<1>1. StoreInv' /\ SwarmShapes
  BY StoreUntouched DEF SwarmInv
<1>2. /\ passed \in Download /\ passed.stage = download.stage /\ passed.call = download.call
      /\ passed.failed = download.failed /\ passed.unavailable = download.unavailable
  BY <1>1, PassedOn
<1>3. download' = [passed EXCEPT !.disturbed = TRUE]
  BY DEF PassedOver
<1> HIDE DEF passed
<1>4. /\ download' \in Download /\ download'.disturbed /\ download'.stage = download.stage
      /\ download'.call = download.call /\ download'.failed = download.failed
      /\ download'.unavailable = download.unavailable
  BY <1>2, <1>3 DEF Download
<1>5. SwarmShapes' /\ FramesHonest' /\ RequestsOfRound'
  BY <1>1, <1>4 DEF SwarmInv, SwarmShapes, FramesHonest, RequestsOfRound, Underway, Pending, Sending, storeVars
<1> QED BY <1>1, <1>4, <1>5, FaultKeeps

\* A dial, or its link, is awaited.
LEMMA AwaitsKeeps ==
  ASSUME SwarmInv, Looking, NEW awaited \in {"nothing", "connect", "link"},
         download' = [download EXCEPT !.awaits = awaited], UNCHANGED <<storeVars, requests, inbound, holds>>,
         peers' \in [Seeders -> {"absent", "connecting", "ready"}],
         \A s \in Seeders : peers[s] = "ready" => peers'[s] = "ready"
  PROVE  SwarmInv'
<1>0. StoreInv' /\ SwarmShapes /\ download.stage = "preparing"
  BY StoreUntouched DEF SwarmInv, Looking
<1>1. /\ download' \in Download /\ download'.stage = download.stage /\ download'.call = download.call
      /\ download'.sources = download.sources /\ download'.failed = download.failed
      /\ download'.unavailable = download.unavailable /\ download'.disturbed = download.disturbed
      /\ download'.missing = download.missing /\ download'.linked = download.linked
  BY <1>0 DEF SwarmShapes, Download
<1>2. SwarmShapes' /\ FramesHonest' /\ RequestsOfRound'
  BY <1>0, <1>1 DEF SwarmInv, SwarmShapes, FramesHonest, RequestsOfRound, Underway, Pending, Sending, storeVars
<1>3. /\ \A n \in DOMAIN download.sources : download.sources[n] \in Seeders
      /\ download.linked \subseteq Seeders
  BY <1>0 DEF SwarmShapes, Download
<1>4. missingChunks' = missingChunks
  BY DEF missingChunks, storeVars
<1>5. SourcesGood'
  BY <1>0, <1>1, <1>3, <1>4 DEF SwarmInv, SourcesGood, Underway
<1>6. RoundGood' /\ FailsOnlyForWant'
  BY <1>0, <1>1 DEF RoundGood, FailsOnlyForWant
<1> QED BY <1>0, <1>2, <1>5, <1>6 DEF SwarmInv

LEMMA PrepareKeeps ==
  ASSUME SwarmInv, Prepare \/ Connected \/ Awaited
  PROVE  SwarmInv'
<1>1. /\ Looking /\ Candidate \in Seeders /\ peers \in [Seeders -> {"absent", "connecting", "ready"}]
      /\ UNCHANGED <<storeVars, requests, inbound, holds>>
  BY PassedOn DEF SwarmInv, SwarmShapes, Prepare, Connected, Awaited
<1>2. CASE download' = Taken /\ UNCHANGED peers /\ (Candidate \in download.linked \/ peers[Candidate] = "ready")
  BY <1>1, <1>2, TakenKeeps
<1>3. CASE download' = PassedOver /\ peers' \in [Seeders -> {"absent", "connecting", "ready"}]
  BY <1>1, <1>3, PassedOverKeeps
<1>4. CASE /\ \E awaited \in {"nothing", "connect", "link"} : download' = [download EXCEPT !.awaits = awaited]
           /\ peers' \in [Seeders -> {"absent", "connecting", "ready"}]
           /\ \A s \in Seeders : peers[s] = "ready" => peers'[s] = "ready"
  BY <1>1, <1>4, AwaitsKeeps
<1>5. CASE Prepare
  BY <1>1, <1>2, <1>3, <1>4, <1>5 DEF Prepare
<1>6. CASE Connected
  BY <1>1, <1>3, <1>4, <1>6 DEF Connected
<1>7. CASE Awaited
  BY <1>1, <1>2, <1>3, <1>7 DEF Awaited
<1> QED BY <1>5, <1>6, <1>7

LEMMA PreparedKeeps ==
  ASSUME SwarmInv, Prepared
  PROVE  SwarmInv'
<1>1. StoreInv' /\ download.stage = "preparing" /\ UNCHANGED <<storeVars, peers, inbound, holds>>
  BY StoreUntouched DEF SwarmInv, Prepared
<1>2. CASE download.sources = <<>> /\ download' = [download EXCEPT !.stage = "failed"] /\ UNCHANGED requests
  <2>1. /\ download' \in Download /\ download'.stage = "failed"
        /\ download'.call = download.call /\ download'.sources = <<>>
    BY <1>2 DEF SwarmInv, SwarmShapes, Download
  <2>2. SwarmShapes' /\ FramesHonest' /\ RequestsOfRound'
    BY <1>1, <1>2, <2>1 DEF SwarmInv, SwarmShapes, FramesHonest, RequestsOfRound, Underway, Pending, Sending, storeVars
  <2>3. SourcesGood' /\ RoundGood' /\ FailsOnlyForWant'
    BY <2>1 DEF SourcesGood, Underway, RoundGood, FailsOnlyForWant, ToSet
  <2> QED BY <1>1, <2>2, <2>3 DEF SwarmInv
<1>3. CASE Round(download)
  <2>1. ReadyFor(download)
    BY <1>1 DEF SwarmInv, SwarmShapes, RequestsOfRound, SourcesGood, Underway, ReadyFor
  <2> QED BY <1>1, <1>3, <2>1, RoundKeeps DEF SwarmInv
<1> QED BY <1>2, <1>3 DEF Prepared

\* What the round has shown is true of the sources.
LEMMA EndRoundKeeps ==
  ASSUME SwarmInv, EndRound
  PROVE  SwarmInv'
<1> DEFINE d == download
           failed == d.failed \cup {s \in Seeders : requests[s].state = "rejected"}
           unavailable == [s \in Seeders |-> d.unavailable[s] \cup
                             IF requests[s].state = "resolved" THEN requests[s].requested \ requests[s].received
                             ELSE {}]
           learned == [Learned(d) EXCEPT !.missing = missingChunks]
<1>1. /\ StoreInv' /\ d \in Download /\ d.stage = "round" /\ AllSettled /\ requests \in [Seeders -> ChunkRequest]
      /\ UNCHANGED <<storeVars, peers, inbound, holds>>
  BY StoreUntouched DEF SwarmInv, SwarmShapes, EndRound
<1>2. learned = [[d EXCEPT !.failed = failed, !.unavailable = unavailable] EXCEPT !.missing = missingChunks]
      /\ missingChunks \subseteq Chunks
  BY DEF Learned, missingChunks
<1>3. failed \subseteq Seeders /\ unavailable \in [Seeders -> SUBSET Chunks]
  <2>1. d.failed \subseteq Seeders /\ d.unavailable \in [Seeders -> SUBSET Chunks]
    BY <1>1 DEF Download
  <2>2. \A s \in Seeders : requests[s].requested \in SUBSET Chunks
    BY <1>1 DEF ChunkRequest
  <2> QED BY <2>1, <2>2
<1>4. ASSUME ~d.disturbed, NEW s \in Seeders, ~holds[s].otherLayout
      PROVE  /\ s \notin failed /\ unavailable[s] \cap holds[s].chunks = {}
             /\ \A k \in DOMAIN inbound[s] : inbound[s][k].call # d.call
  <2>1. Answered(s)
    BY <1>1, <1>4 DEF SwarmInv, RoundGood, Due, AllSettled
  <2>2. s \notin d.failed /\ d.unavailable[s] \cap holds[s].chunks = {}
    BY <1>1, <1>4 DEF SwarmInv, SourcesGood, Underway
  <2> QED BY <2>1, <2>2 DEF Answered
<1> HIDE DEF failed, unavailable
<1>5. /\ learned \in Download /\ learned.stage = d.stage /\ learned.call = d.call
      /\ learned.disturbed = d.disturbed /\ learned.sources = d.sources
      /\ learned.failed = failed /\ learned.unavailable = unavailable
      /\ learned.missing = missingChunks /\ learned.linked = d.linked
  BY <1>1, <1>2, <1>3 DEF Download
<1> HIDE DEF learned
<1>6. CASE /\ download' = [learned EXCEPT !.stage = "complete"]
           /\ requests' = [s \in Seeders |-> NoRequest]
  <2>1. download' \in Download /\ download'.stage = "complete" /\ download'.call = d.call
    BY <1>5, <1>6 DEF Download
  <2>2. NoRequest \in ChunkRequest /\ NoRequest.state = "none"
    BY SwarmAssumption DEF NoRequest, ChunkRequest
  <2>3. SwarmShapes' /\ FramesHonest' /\ RequestsOfRound'
    BY <1>1, <1>6, <2>1, <2>2 DEF SwarmInv, SwarmShapes, FramesHonest, RequestsOfRound, Underway, Pending, Sending, NoRequest, storeVars
  <2>4. SourcesGood' /\ RoundGood' /\ FailsOnlyForWant'
    BY <2>1 DEF SourcesGood, Underway, RoundGood, FailsOnlyForWant
  <2> QED BY <1>1, <2>3, <2>4 DEF SwarmInv
<1>7. CASE Round(learned)
  <2>1. d.disturbed \/ /\ \A n \in DOMAIN d.sources : peers[d.sources[n]] = "ready"
                       /\ \A s \in d.linked : peers[s] = "ready"
    BY <1>1 DEF SwarmInv, SourcesGood, Underway
  <2>2. ReadyFor(learned)
    BY <1>1, <1>4, <1>5, <2>1 DEF ReadyFor
  <2> QED BY <1>1, <1>7, <2>2, RoundKeeps DEF SwarmInv
<1> QED BY <1>6, <1>7 DEF EndRound, learned

\* One seeder's part of the exchange moves on, in calm or with a fault.
LEMMA OneMovesOn ==
  ASSUME SwarmInv, StoreInv', SwarmShapes', NEW s \in Seeders, UNCHANGED <<memory, holds>>,
         /\ download'.stage = download.stage /\ download'.call = download.call
         /\ download'.failed = download.failed /\ download'.unavailable = download.unavailable,
         \A t \in Seeders \ {s} : requests'[t] = requests[t] /\ puts'[t] = puts[t] /\ inbound'[t] = inbound[t],
         \A k \in DOMAIN inbound'[s] :
           \/ \E j \in DOMAIN inbound[s] : inbound'[s][k] = inbound[s][j]
           \/ /\ download.stage = "round" /\ inbound'[s][k].call = download.call
              /\ inbound'[s][k].type = "chunk" => inbound'[s][k].chunk \in Chunks
              /\ inbound'[s][k].type = "error" => holds[s].otherLayout,
         puts'[s] # None => puts'[s].caller > 0 /\ (puts'[s].valid \/ holds[s].otherLayout),
         \/ requests'[s] = requests[s]
         \/ /\ requests[s] # NoRequest /\ requests'[s].call = requests[s].call
            /\ Pending(s)' \/ Sending(s)' => Pending(s) \/ Sending(s),
         \/ download'.disturbed
         \/ /\ UNCHANGED <<download, peers>>
            /\ download.stage = "round" /\ ~download.disturbed /\ ~holds[s].otherLayout =>
                 Due(s)'
  PROVE  SwarmInv'
<1>1. FramesHonest'
  <2>1. ASSUME NEW t \in Seeders, NEW k \in DOMAIN inbound'[t]
        PROVE  \/ \E j \in DOMAIN inbound[t] : inbound'[t][k] = inbound[t][j]
               \/ /\ inbound'[t][k].call = download.call
                  /\ inbound'[t][k].type = "chunk" => inbound'[t][k].chunk \in Chunks
                  /\ inbound'[t][k].type = "error" => holds[t].otherLayout
    BY <2>1
  <2>2. ASSUME NEW t \in Seeders, puts'[t] # None
        PROVE  puts'[t].caller > 0 /\ (puts'[t].valid \/ holds[t].otherLayout)
    BY <2>2 DEF SwarmInv, FramesHonest
  <2>3. ASSUME NEW t \in Seeders, NEW k \in DOMAIN inbound'[t]
        PROVE  /\ inbound'[t][k].type = "chunk" => inbound'[t][k].chunk \in Chunks
               /\ inbound'[t][k].type = "error" => holds[t].otherLayout
               /\ inbound'[t][k].call <= download.call
    <3>1. download.call \in Nat
      BY DEF SwarmInv, SwarmShapes, Download
    <3> QED BY <2>1, <2>3, <3>1 DEF SwarmInv, FramesHonest
  <2> QED BY <2>2, <2>3 DEF FramesHonest
<1>2. RequestsOfRound'
  <2>1. ASSUME download.stage # "round", NEW t \in Seeders PROVE requests'[t] = NoRequest
    BY <2>1 DEF SwarmInv, RequestsOfRound
  <2>2. ASSUME NEW t \in Seeders, Pending(t)' \/ Sending(t)' PROVE requests'[t].call = download.call
    BY <2>2 DEF SwarmInv, RequestsOfRound, Pending, Sending
  <2>3. ASSUME download.stage = "preparing", NEW t \in Seeders
        PROVE  /\ t \notin download.failed /\ download.unavailable[t] = {}
               /\ \A k \in DOMAIN inbound'[t] : inbound'[t][k].call # download.call
    BY <2>3 DEF SwarmInv, RequestsOfRound
  <2>4. Underway' => download.call > 0
    BY DEF SwarmInv, RequestsOfRound, Underway
  <2> QED BY <2>1, <2>2, <2>3, <2>4 DEF RequestsOfRound
<1>3. CASE download'.disturbed
  BY <1>1, <1>2, <1>3, FaultKeeps
<1>4. CASE /\ UNCHANGED <<download, peers>>
           /\ download.stage = "round" /\ ~download.disturbed /\ ~holds[s].otherLayout =>
                Due(s)'
  <2>1. SourcesGood' /\ FailsOnlyForWant'
    BY <1>4 DEF SwarmInv, SourcesGood, Underway, FailsOnlyForWant, missingChunks
  <2>2. ASSUME download.stage = "round", ~download.disturbed, NEW t \in Seeders, ~holds[t].otherLayout
        PROVE  Due(t)'
    <3>1. CASE t = s
      BY <1>4, <2>2, <3>1
    <3>2. CASE t # s
      <4>1. Due(t)
        BY <2>2 DEF SwarmInv, RoundGood
      <4>2. requests'[t] = requests[t] /\ puts'[t] = puts[t] /\ inbound'[t] = inbound[t]
        BY <3>2
      <4> QED BY <1>4, <4>1, <4>2 DEF Due, Pending, Sending, Unsent, Answering, Answered
    <3> QED BY <3>1, <3>2
  <2>3. RoundGood'
    BY <1>4, <2>2 DEF RoundGood
  <2> QED BY <1>1, <1>2, <2>1, <2>3 DEF SwarmInv
<1> QED BY <1>3, <1>4

LEMMA FrameTaken ==
  ASSUME NEW frames \in Seq(Frame), frames # <<>>
  PROVE  /\ Head(frames) = frames[1] /\ 1 \in DOMAIN frames /\ Head(frames) \in Frame
         /\ Tail(frames) \in Seq(Frame) /\ Len(frames) \in Nat /\ Len(Tail(frames)) = Len(frames) - 1
         /\ \A k \in DOMAIN Tail(frames) : k \in Nat /\ k + 1 \in DOMAIN frames /\ Tail(frames)[k] = frames[k + 1]
         /\ \A k \in DOMAIN frames : k = 1 \/ (k - 1 \in DOMAIN Tail(frames) /\ Tail(frames)[k - 1] = frames[k])
<1>1. Len(frames) \in Nat /\ Len(frames) > 0 /\ DOMAIN frames = 1 .. Len(frames)
  BY DEF Frame
<1>2. Tail(frames) \in Seq(Frame) /\ Len(Tail(frames)) = Len(frames) - 1 /\ Head(frames) = frames[1]
  OBVIOUS
<1>3. DOMAIN Tail(frames) = 1 .. Len(frames) - 1
  BY <1>2
<1>4. \A k \in 1 .. Len(frames) - 1 : Tail(frames)[k] = frames[k + 1]
  BY <1>1
<1> QED BY <1>1, <1>2, <1>3, <1>4

\* A frame is handled: what is lost with it is in the put it starts, or known
\* to be received.
LEMMA HandleFrameKeeps ==
  ASSUME SwarmInv, NEW s \in Seeders, HandleFrame(s)
  PROVE  SwarmInv'
<1> DEFINE frames == inbound[s]
           frame == Head(frames)
           rest == Tail(frames)
           pending == Pending(s) /\ requests[s].call = frame.call
<1>1. /\ frames # <<>> /\ puts[s] = None /\ inbound' = [inbound EXCEPT ![s] = rest]
      /\ UNCHANGED <<memory, persisted, hydration, lapsed, download, peers, holds>>
  BY DEF HandleFrame
<1>2. /\ SwarmShapes /\ StoreInv /\ frames \in Seq(Frame) /\ requests \in [Seeders -> ChunkRequest]
      /\ inbound \in [Seeders -> Seq(Frame)] /\ s \in Writers /\ puts \in [Writers -> Put \cup {None}]
  BY SwarmAssumption DEF SwarmInv, SwarmShapes, StoreInv, StoreShapes
<1>3. /\ frame = frames[1] /\ 1 \in DOMAIN frames /\ frame \in Frame
      /\ rest \in Seq(Frame) /\ Len(frames) \in Nat /\ Len(rest) = Len(frames) - 1
      /\ \A k \in DOMAIN rest : k \in Nat /\ k + 1 \in DOMAIN frames /\ rest[k] = frames[k + 1]
      /\ \A k \in DOMAIN frames : k = 1 \/ (k - 1 \in DOMAIN rest /\ rest[k - 1] = frames[k])
  BY <1>1, <1>2, FrameTaken
<1>4. /\ \A k \in DOMAIN rest : \E j \in DOMAIN frames : rest[k] = frames[j]
      /\ frame.type = "chunk" => frame.chunk \in Chunks
      /\ frame.type = "error" => holds[s].otherLayout
  BY <1>3 DEF SwarmInv, FramesHonest
<1>5. frame.call \in Nat /\ (pending => frame.call > 0 /\ frame.call = download.call /\ requests[s] # NoRequest)
  <2>1. frame.call \in Nat
    BY <1>3 DEF Frame
  <2>2. ASSUME pending PROVE requests[s] # NoRequest /\ frame.call = download.call /\ download.stage = "round"
    BY <2>2 DEF SwarmInv, RequestsOfRound, Pending, NoRequest
  <2> QED BY <2>1, <2>2 DEF SwarmInv, RequestsOfRound, Underway
<1>6. ASSUME download.stage = "round", ~download.disturbed, ~holds[s].otherLayout
      PROVE  /\ ~Pending(s) => Answered(s)
             /\ Pending(s) => requests[s].call = download.call
             /\ Pending(s) /\ Sending(s) => Unsent(s)
             /\ Pending(s) /\ ~Sending(s) => Answering(s)
             /\ pending => ~Sending(s)
  <2>1. Due(s) /\ (Pending(s) => requests[s].call = download.call)
    BY <1>6 DEF SwarmInv, RoundGood, RequestsOfRound
  <2>2. Unsent(s) => ~pending
    BY <1>3, <1>5 DEF Unsent
  <2> QED BY <2>1, <2>2 DEF Due
<1> HIDE DEF rest, frame
<1>7. /\ inbound'[s] = rest /\ inbound' \in [Seeders -> Seq(Frame)]
      /\ \A t \in Seeders \ {s} : inbound'[t] = inbound[t]
  BY <1>1, <1>2, <1>3
\* Frames that are not the completion of the call's answer go.
<1>8. ASSUME ~(frame.call = download.call /\ frame.type = "complete"), Answering(s)
      PROVE  /\ rest # <<>>
             /\ \A k \in DOMAIN rest : (rest[k].call = download.call /\ rest[k].type = "complete") <=> k = Len(rest)
  <2>1. \A k \in DOMAIN frames : (frames[k].call = download.call /\ frames[k].type = "complete") <=> k = Len(frames)
    BY <1>8 DEF Answering
  <2>2. Len(frames) # 1
    BY <1>3, <1>8, <2>1
  <2>3. rest # <<>>
    <3>1. Len(rest) # 0
      BY <1>3, <2>2
    <3> QED BY <3>1
  <2>4. ASSUME NEW k \in DOMAIN rest
        PROVE  (rest[k].call = download.call /\ rest[k].type = "complete") <=> k = Len(rest)
    <3>1. k \in Nat /\ k + 1 \in DOMAIN frames /\ rest[k] = frames[k + 1]
      BY <1>3
    <3>2. (rest[k].call = download.call /\ rest[k].type = "complete") <=> k + 1 = Len(frames)
      BY <2>1, <3>1
    <3> QED BY <1>3, <3>1, <3>2
  <2> QED BY <2>3, <2>4
<1>9. ASSUME Answering(s), NEW i \in requests[s].requested \cap holds[s].chunks
      PROVE  \/ i \in requests[s].received
             \/ frame.type = "chunk" /\ frame.chunk = i /\ frame.call = download.call
             \/ \E k \in DOMAIN rest : rest[k].type = "chunk" /\ rest[k].chunk = i /\ rest[k].call = download.call
  <2>1. CASE i \in requests[s].received
    BY <2>1
  <2>2. ASSUME NEW k \in DOMAIN frames, frames[k].type = "chunk", frames[k].chunk = i, frames[k].call = download.call
        PROVE  \/ frame.type = "chunk" /\ frame.chunk = i /\ frame.call = download.call
               \/ \E j \in DOMAIN rest : rest[j].type = "chunk" /\ rest[j].chunk = i /\ rest[j].call = download.call
    BY <1>3, <2>2
  <2> QED BY <1>1, <1>9, <2>1, <2>2 DEF Answering
<1>10. CASE frame.type = "chunk" /\ pending /\ UNCHANGED requests
            /\ puts' = PutStarted(s, frame.chunk, ~holds[s].otherLayout, frame.call)
  <2> DEFINE valid == ~holds[s].otherLayout
             put == [index |-> frame.chunk, valid |-> valid, caller |-> frame.call,
                     stage |-> "verifying", evict |-> <<>>]
  <2>1. frame.chunk \in Chunks /\ valid \in BOOLEAN
    BY <1>4, <1>10
  <2>2. puts' = [puts EXCEPT ![s] = put]
    BY <1>10 DEF PutStarted
  <2>3. put \in Put /\ put # None
    <3>1. put \in Put
      BY <1>5, <2>1 DEF Put
    <3> QED BY <3>1, NoPutAssumption
  <2>4. put.index = frame.chunk /\ put.caller = frame.call /\ (put.valid \/ holds[s].otherLayout)
    OBVIOUS
  <2>5. StoreInv'
    <3>1. puts' = PutStarted(s, frame.chunk, valid, frame.call)
      BY <1>10
    <3> HIDE DEF valid
    <3> QED BY <1>1, <1>2, <1>5, <2>1, <3>1, PutStartedKeeps
  <2> HIDE DEF put
  <2>6. puts'[s] = put /\ \A t \in Seeders \ {s} : puts'[t] = puts[t]
    BY <1>2, <2>2, SwarmAssumption
  <2>7. SwarmShapes'
    BY <1>1, <1>2, <1>7, <1>10 DEF SwarmShapes
  <2>8. ASSUME download.stage = "round", ~download.disturbed, ~holds[s].otherLayout
        PROVE  Due(s)'
    <3>1. Answering(s) /\ ~Sending(s)
      BY <1>6, <1>10, <2>8
    <3>2. Pending(s)' /\ ~Sending(s)'
      BY <1>10, <3>1 DEF Pending, Sending
    <3>3. /\ rest # <<>>
          /\ \A k \in DOMAIN rest : (rest[k].call = download.call /\ rest[k].type = "complete") <=> k = Len(rest)
      BY <1>8, <1>10, <3>1
    <3>4. ASSUME NEW i \in requests[s].requested \cap holds[s].chunks
          PROVE  \/ i \in requests[s].received
                 \/ puts'[s] # None /\ puts'[s].index = i /\ puts'[s].caller = download.call
                 \/ \E k \in DOMAIN rest : rest[k].type = "chunk" /\ rest[k].chunk = i /\ rest[k].call = download.call
      BY <1>9, <2>3, <2>4, <2>6, <3>1, <3>4
    <3>5. Answering(s)'
      BY <1>1, <1>7, <1>10, <3>3, <3>4 DEF Answering
    <3> QED BY <3>2, <3>5 DEF Due
  <2> QED BY <1>1, <1>4, <1>5, <1>7, <1>10, <2>3, <2>4, <2>5, <2>6, <2>7, <2>8, OneMovesOn
<1>11. CASE frame.type = "complete" /\ pending /\ UNCHANGED puts
            /\ requests' = [requests EXCEPT ![s].state = "resolved"]
  <2>1. /\ requests' \in [Seeders -> ChunkRequest] /\ requests'[s].state = "resolved"
        /\ requests'[s].call = requests[s].call /\ requests'[s].requested = requests[s].requested
        /\ requests'[s].received = requests[s].received /\ requests'[s].send = requests[s].send
        /\ \A t \in Seeders \ {s} : requests'[t] = requests[t]
    BY <1>2, <1>11 DEF ChunkRequest
  <2>2. StoreInv' /\ SwarmShapes'
    <3>1. clearing' = clearing /\ lapsed' = lapsed /\ faults' = faults
      BY DEF HandleFrame
    <3> QED BY <1>1, <1>2, <1>7, <1>11, <2>1, <3>1, StoreUntouched DEF SwarmShapes, storeVars
  <2>3. ASSUME download.stage = "round", ~download.disturbed, ~holds[s].otherLayout
        PROVE  Due(s)'
    <3>1. Answering(s)
      BY <1>6, <1>11, <2>3
    <3>2. Len(frames) = 1
      BY <1>3, <1>5, <1>11, <3>1 DEF Answering
    <3>3. DOMAIN rest = {}
      BY <1>3, <3>2
    <3>4. requests[s].requested \cap holds[s].chunks \subseteq requests[s].received
      BY <1>9, <1>11, <3>1, <3>3
    <3>5. ~Pending(s)' /\ Answered(s)'
      BY <1>1, <1>6, <1>7, <1>11, <2>1, <2>3, <3>3, <3>4 DEF Pending, Sending, Answered
    <3> QED BY <3>5 DEF Due
  <2> QED BY <1>1, <1>4, <1>5, <1>7, <1>11, <2>1, <2>2, <2>3, OneMovesOn DEF Pending, Sending
<1>12. CASE (frame.type = "error" \/ ~pending) /\ requests' = RejectedFor(s, frame.call) /\ UNCHANGED puts
  <2>1. /\ requests' \in [Seeders -> ChunkRequest] /\ \A t \in Seeders \ {s} : requests'[t] = requests[t]
        /\ \/ requests'[s] = requests[s] /\ (frame.type # "error" \/ ~pending)
           \/ /\ pending /\ frame.type = "error" /\ requests'[s].call = requests[s].call
              /\ requests'[s].state = "rejected" /\ requests'[s].send = requests[s].send
    BY <1>2, <1>12 DEF RejectedFor, ChunkRequest
  <2>2. StoreInv' /\ SwarmShapes'
    <3>1. clearing' = clearing /\ lapsed' = lapsed /\ faults' = faults
      BY DEF HandleFrame
    <3> QED BY <1>1, <1>2, <1>7, <1>12, <2>1, <3>1, StoreUntouched DEF SwarmShapes, storeVars
  <2>3. ASSUME download.stage = "round", ~download.disturbed, ~holds[s].otherLayout
        PROVE  Due(s)'
    <3>1. ~pending /\ requests'[s] = requests[s]
      BY <1>4, <1>12, <2>1, <2>3
    <3>4. CASE Pending(s) /\ Sending(s)
      <4>1. Unsent(s)
        BY <1>6, <2>3, <3>4
      <4>2. Unsent(s)'
        BY <1>1, <1>4, <1>7, <4>1 DEF Unsent
      <4> QED BY <3>1, <3>4, <4>2 DEF Due, Pending, Sending
    <3>2. CASE Pending(s) /\ ~Sending(s)
      <4>1. Answering(s) /\ frame.call # download.call
        BY <1>6, <2>3, <3>1, <3>2
      <4>2. /\ rest # <<>>
            /\ \A k \in DOMAIN rest : (rest[k].call = download.call /\ rest[k].type = "complete") <=> k = Len(rest)
        BY <1>8, <4>1
      <4>3. \A i \in requests[s].requested \cap holds[s].chunks :
              \/ i \in requests[s].received
              \/ \E k \in DOMAIN rest : rest[k].type = "chunk" /\ rest[k].chunk = i /\ rest[k].call = download.call
        BY <1>9, <4>1
      <4>4. Pending(s)' /\ ~Sending(s)' /\ Answering(s)'
        BY <1>1, <1>7, <3>1, <3>2, <4>2, <4>3 DEF Pending, Sending, Answering
      <4> QED BY <4>4 DEF Due
    <3>3. CASE ~Pending(s)
      <4>1. Answered(s)
        BY <1>6, <2>3, <3>3
      <4>2. ~Pending(s)' /\ Answered(s)'
        BY <1>1, <1>4, <1>7, <3>1, <3>3, <4>1 DEF Pending, Sending, Answered
      <4> QED BY <4>2 DEF Due
    <3> QED BY <3>2, <3>3, <3>4
  <2> QED BY <1>1, <1>4, <1>5, <1>7, <1>12, <2>1, <2>2, <2>3, OneMovesOn DEF Pending, Sending
<1> QED BY <1>10, <1>11, <1>12 DEF HandleFrame, frame

LEMMA ChunkStoredKeeps ==
  ASSUME SwarmInv, NEW s \in Seeders, ChunkStored(s)
  PROVE  SwarmInv'
<1> DEFINE put == puts[s]
           noted == [requests[s] EXCEPT !.received = requests[s].received \cup {put.index}]
<1>1. /\ put # None /\ puts' = [puts EXCEPT ![s] = None] /\ PutDone(s)
      /\ UNCHANGED <<memory, persisted, hydration, clearing, lapsed, faults, download, peers, inbound, holds>>
      /\ requests' = IF requests[s].call = put.caller THEN [requests EXCEPT ![s] = noted] ELSE requests
  BY DEF ChunkStored, PutDone, PutMoves, Noted
<1>2. /\ SwarmShapes /\ StoreInv /\ requests \in [Seeders -> ChunkRequest]
      /\ s \in Writers /\ puts \in [Writers -> Put \cup {None}]
  BY SwarmAssumption DEF SwarmInv, SwarmShapes, StoreInv, StoreShapes
<1>3. put \in Put /\ put.index \in Chunks /\ put.caller > 0
  BY <1>1, <1>2 DEF Put, SwarmInv, FramesHonest
<1>4. StoreInv'
  BY <1>1, <1>2, PutEndsKeep
<1> HIDE DEF put
<1>5. /\ requests[s] \in ChunkRequest /\ noted \in ChunkRequest /\ noted.call = requests[s].call
      /\ noted.state = requests[s].state /\ noted.send = requests[s].send /\ noted.requested = requests[s].requested
      /\ noted.received = requests[s].received \cup {put.index}
  BY <1>2, <1>3 DEF ChunkRequest
<1> HIDE DEF noted
<1>6. /\ requests' \in [Seeders -> ChunkRequest] /\ \A t \in Seeders \ {s} : requests'[t] = requests[t]
      /\ \/ requests[s].call = put.caller /\ requests'[s] = noted
         \/ requests[s].call # put.caller /\ requests'[s] = requests[s]
  BY <1>1, <1>2, <1>5
<1>7. puts'[s] = None /\ \A t \in Seeders \ {s} : puts'[t] = puts[t]
  BY <1>1, <1>2, SwarmAssumption
<1>8. SwarmShapes'
  BY <1>1, <1>2, <1>6 DEF SwarmShapes
<1>9. requests[s].call = put.caller => requests[s] # NoRequest
  BY <1>3 DEF NoRequest
<1>10. /\ requests'[s].state = requests[s].state /\ requests'[s].call = requests[s].call
       /\ requests'[s].send = requests[s].send
       /\ requests'[s].requested = requests[s].requested /\ requests[s].received \subseteq requests'[s].received
       /\ requests[s].call = put.caller => put.index \in requests'[s].received
  BY <1>5, <1>6
<1>11. ASSUME download.stage = "round", ~download.disturbed, ~holds[s].otherLayout
       PROVE  Due(s)'
  <2>0. Due(s) /\ (Pending(s) => requests[s].call = download.call)
    BY <1>11 DEF SwarmInv, RoundGood, RequestsOfRound
  <2>1. CASE Pending(s) /\ ~Sending(s)
    <3>1. Answering(s) /\ requests[s].call = download.call
      BY <2>0, <2>1 DEF Due
    <3>2. ASSUME NEW i \in requests[s].requested \cap holds[s].chunks
          PROVE  \/ i \in requests'[s].received
                 \/ \E k \in DOMAIN inbound[s] :
                      inbound[s][k].type = "chunk" /\ inbound[s][k].chunk = i /\ inbound[s][k].call = download.call
      BY <1>10, <3>1 DEF Answering, put
    <3>3. Pending(s)' /\ ~Sending(s)' /\ Answering(s)'
      BY <1>1, <1>10, <2>1, <3>1, <3>2 DEF Pending, Sending, Answering
    <3> QED BY <3>3 DEF Due
  <2>2. CASE ~Pending(s)
    <3>1. Answered(s)
      BY <2>0, <2>2 DEF Due
    <3>2. ~Pending(s)' /\ Answered(s)'
      BY <1>1, <1>10, <2>2, <3>1 DEF Pending, Sending, Answered
    <3> QED BY <3>2 DEF Due
  <2>3. CASE Pending(s) /\ Sending(s)
    <3>1. Unsent(s)
      BY <2>0, <2>3 DEF Due
    <3> QED BY <1>1, <1>10, <2>3, <3>1 DEF Due, Pending, Sending, Unsent
  <2> QED BY <2>1, <2>2, <2>3
<1>12. requests'[s] = requests[s]
       \/ /\ requests[s] # NoRequest /\ requests'[s].call = requests[s].call
          /\ Pending(s)' \/ Sending(s)' => Pending(s) \/ Sending(s)
  BY <1>6, <1>9, <1>10 DEF Pending, Sending
<1> QED BY <1>1, <1>4, <1>6, <1>7, <1>8, <1>11, <1>12, OneMovesOn

\* A request that is rejected stays one of its call's.
LEMMA Rejection ==
  ASSUME SwarmShapes, NEW s \in Seeders, NEW call, NEW f, f = RejectedFor(s, call)
  PROVE  /\ f \in [Seeders -> ChunkRequest] /\ \A t \in Seeders \ {s} : f[t] = requests[t]
         /\ f[s].send = requests[s].send
         /\ \/ f[s] = requests[s]
            \/ Pending(s) /\ f[s].state = "rejected" /\ f[s].call = requests[s].call
<1>1. requests \in [Seeders -> ChunkRequest]
  BY DEF SwarmShapes
<1>2. CASE f = requests
  BY <1>1, <1>2
<1>3. CASE Pending(s) /\ f = [requests EXCEPT ![s].state = "rejected"]
  BY <1>1, <1>3 DEF ChunkRequest
<1> QED BY <1>2, <1>3 DEF RejectedFor

LEMMA DisturbedSame ==
  ASSUME SwarmShapes, download' = Disturbed
  PROVE  /\ download' \in Download /\ download'.disturbed /\ download'.stage = download.stage
         /\ download'.call = download.call /\ download'.failed = download.failed
         /\ download'.unavailable = download.unavailable
BY DEF SwarmShapes, Disturbed, Download

LEMMA ChunkRefusedKeeps ==
  ASSUME SwarmInv, NEW s \in Seeders, ChunkRefused(s)
  PROVE  SwarmInv'
<1>1. /\ puts[s] # None /\ puts' = [puts EXCEPT ![s] = None] /\ PutFailed(s)
      /\ UNCHANGED <<memory, peers, inbound, holds>>
      /\ requests' = RejectedFor(s, puts[s].caller)
      /\ download' = IF puts[s].valid THEN Disturbed ELSE download
  BY DEF ChunkRefused, PutFailed, PutMoves
<1>2. /\ SwarmShapes /\ StoreInv /\ s \in Writers /\ puts \in [Writers -> Put \cup {None}]
  BY SwarmAssumption DEF SwarmInv, StoreInv, StoreShapes
<1>3. StoreInv'
  BY <1>1, <1>2, PutEndsKeep
<1>4. puts'[s] = None /\ \A t \in Seeders \ {s} : puts'[t] = puts[t]
  BY <1>1, <1>2, SwarmAssumption
<1>5. /\ requests' \in [Seeders -> ChunkRequest] /\ \A t \in Seeders \ {s} : requests'[t] = requests[t]
      /\ \/ requests'[s] = requests[s]
         \/ /\ requests[s] # NoRequest /\ requests'[s].call = requests[s].call
            /\ Pending(s)' \/ Sending(s)' => Pending(s) \/ Sending(s)
  <2> DEFINE call == puts[s].caller
             rejected == RejectedFor(s, call)
  <2>1. requests' = rejected
    BY <1>1
  <2>2. rejected = RejectedFor(s, call)
    OBVIOUS
  <2> HIDE DEF call, rejected
  <2>3. /\ rejected \in [Seeders -> ChunkRequest] /\ \A t \in Seeders \ {s} : rejected[t] = requests[t]
        /\ \/ rejected[s] = requests[s]
           \/ Pending(s) /\ rejected[s].state = "rejected" /\ rejected[s].call = requests[s].call
    BY <1>2, <2>2, Rejection
  <2> QED BY <2>1, <2>3 DEF Pending, NoRequest
<1>6. /\ download' \in Download /\ download'.stage = download.stage /\ download'.call = download.call
      /\ download'.failed = download.failed /\ download'.unavailable = download.unavailable
      /\ download'.disturbed \/ (download' = download /\ holds[s].otherLayout)
  <2>1. CASE puts[s].valid
    <3>1. download' = Disturbed
      BY <1>1, <2>1
    <3> QED BY <1>2, <3>1, DisturbedSame
  <2>2. CASE ~puts[s].valid
    <3>1. download' = download /\ holds[s].otherLayout
      BY <1>1, <2>2 DEF SwarmInv, FramesHonest
    <3> QED BY <1>2, <3>1 DEF SwarmShapes
  <2> QED BY <2>1, <2>2
<1>7. SwarmShapes'
  BY <1>1, <1>2, <1>5, <1>6 DEF SwarmShapes
<1> QED BY <1>1, <1>3, <1>4, <1>5, <1>6, <1>7, OneMovesOn

LEMMA RequestTimeoutKeeps ==
  ASSUME SwarmInv, NEW s \in Seeders, RequestTimeout(s)
  PROVE  SwarmInv'
<1>1. /\ Pending(s) /\ requests' = [requests EXCEPT ![s].state = "rejected"]
      /\ download' = Disturbed /\ UNCHANGED <<storeVars, peers, inbound, holds>> /\ SwarmShapes /\ StoreInv'
  BY StoreUntouched DEF SwarmInv, RequestTimeout
<1>2. requests \in [Seeders -> ChunkRequest] /\ requests[s] # NoRequest
  BY <1>1 DEF SwarmShapes, Pending, NoRequest
<1>3. /\ requests' \in [Seeders -> ChunkRequest] /\ \A t \in Seeders \ {s} : requests'[t] = requests[t]
      /\ requests'[s].call = requests[s].call
  BY <1>1, <1>2 DEF ChunkRequest
<1>4. /\ download' \in Download /\ download'.disturbed /\ download'.stage = download.stage
      /\ download'.call = download.call /\ download'.failed = download.failed
      /\ download'.unavailable = download.unavailable
  BY <1>1, DisturbedSame
<1>5. SwarmShapes'
  BY <1>1, <1>3, <1>4 DEF SwarmShapes
<1>7. Pending(s) \/ Sending(s)
  BY <1>1
<1>6. puts'[s] # None => puts'[s].caller > 0 /\ (puts'[s].valid \/ holds[s].otherLayout)
  BY <1>1 DEF SwarmInv, FramesHonest, storeVars
<1> QED BY <1>1, <1>2, <1>3, <1>4, <1>5, <1>6, <1>7, OneMovesOn DEF storeVars

\* An answer comes behind what came before it.
LEMMA Behind ==
  ASSUME NEW old \in Seq(Frame), NEW answer \in Seq(Frame), NEW frames, frames = old \o answer
  PROVE  /\ frames \in Seq(Frame) /\ (answer # <<>> => frames # <<>> /\ Len(answer) > 0)
         /\ Len(frames) = Len(old) + Len(answer) /\ Len(old) \in Nat /\ Len(answer) \in Nat
         /\ \A k \in DOMAIN frames : k \in Nat
         /\ \A k \in DOMAIN frames :
              \/ k \in DOMAIN old /\ frames[k] = old[k] /\ k <= Len(old)
              \/ k - Len(old) \in DOMAIN answer /\ frames[k] = answer[k - Len(old)]
         /\ \A k \in DOMAIN answer : k + Len(old) \in DOMAIN frames /\ frames[k + Len(old)] = answer[k]
<1>1. /\ Len(old \o answer) = Len(old) + Len(answer) /\ Len(old) \in Nat /\ Len(answer) \in Nat
      /\ DOMAIN (old \o answer) = 1 .. Len(old) + Len(answer) /\ old \o answer \in Seq(Frame)
      /\ DOMAIN old = 1 .. Len(old) /\ DOMAIN answer = 1 .. Len(answer)
  OBVIOUS
<1>2. ASSUME NEW k \in DOMAIN (old \o answer)
      PROVE  \/ k \in DOMAIN old /\ (old \o answer)[k] = old[k] /\ k <= Len(old)
             \/ k - Len(old) \in DOMAIN answer /\ (old \o answer)[k] = answer[k - Len(old)]
  <2>1. CASE k <= Len(old)
    BY <1>1, <2>1
  <2>2. CASE ~(k <= Len(old))
    BY <1>1, <2>2
  <2> QED BY <2>1, <2>2
<1>3. \A k \in DOMAIN answer : k + Len(old) \in DOMAIN (old \o answer) /\ (old \o answer)[k + Len(old)] = answer[k]
  BY <1>1
<1>4. answer # <<>> => old \o answer # <<>> /\ Len(answer) > 0
  BY <1>1
<1> QED BY <1>1, <1>2, <1>3, <1>4

\* A request is sent: its answer comes, in time or not.
LEMMA RequestSentKeeps ==
  ASSUME SwarmInv, NEW s \in Seeders, RequestSent(s)
  PROVE  SwarmInv'
<1> DEFINE call == download.call
           given == requests[s].requested
           old == inbound[s]
           answer == Response(s, given, call)
           frames == old \o answer
<1>1. /\ Sending(s) /\ requests' = [requests EXCEPT ![s].send = "settled"]
      /\ UNCHANGED <<storeVars, download, peers, holds>>
      /\ inbound' = [inbound EXCEPT ![s] = old \o Response(s, given, requests[s].call)]
  BY DEF RequestSent, Sending
<1>2. /\ SwarmShapes /\ StoreInv' /\ requests \in [Seeders -> ChunkRequest] /\ inbound \in [Seeders -> Seq(Frame)]
      /\ download \in Download
  BY <1>1, StoreUntouched DEF SwarmInv, SwarmShapes
<1>3. requests[s].call = call /\ download.stage = "round" /\ requests[s] # NoRequest
  <2>1. requests[s] # NoRequest
    BY <1>1 DEF Sending, NoRequest
  <2> QED BY <1>1, <2>1 DEF SwarmInv, RequestsOfRound
<1>4. /\ requests' \in [Seeders -> ChunkRequest] /\ \A t \in Seeders \ {s} : requests'[t] = requests[t]
      /\ requests'[s].send = "settled" /\ requests'[s].call = call /\ requests'[s].state = requests[s].state
      /\ requests'[s].requested = given /\ requests'[s].received = requests[s].received
  BY <1>1, <1>2, <1>3 DEF ChunkRequest
<1>5. /\ answer \in Seq(Frame)
      /\ \A k \in DOMAIN answer :
           /\ answer[k].call = call
           /\ answer[k].type = "chunk" => answer[k].chunk \in Chunks
           /\ answer[k].type = "error" => holds[s].otherLayout
      /\ ~holds[s].otherLayout =>
           /\ answer # <<>>
           /\ \A k \in DOMAIN answer : answer[k].type = "complete" <=> k = Len(answer)
           /\ \A i \in given \cap holds[s].chunks :
                \E k \in DOMAIN answer : answer[k].type = "chunk" /\ answer[k].chunk = i
  <2>1. given \in SUBSET Chunks /\ call \in 0 .. MaxDownloads
    BY <1>2 DEF ChunkRequest, Download
  <2> HIDE DEF given
  <2>2. Answer(answer, s, given, call)
    BY Zenon, <1>2, <2>1, ResponseFrames
  <2> HIDE DEF answer
  <2> QED BY <2>2 DEF Answer
<1>6. old \in Seq(Frame) /\ inbound' = [inbound EXCEPT ![s] = frames]
  BY <1>1, <1>2, <1>3
<1> HIDE DEF answer, old
<1>7. /\ frames \in Seq(Frame) /\ (answer # <<>> => frames # <<>> /\ Len(answer) > 0)
      /\ Len(frames) = Len(old) + Len(answer) /\ Len(old) \in Nat /\ Len(answer) \in Nat
      /\ \A k \in DOMAIN frames : k \in Nat
      /\ \A k \in DOMAIN frames :
           \/ k \in DOMAIN old /\ frames[k] = old[k] /\ k <= Len(old)
           \/ k - Len(old) \in DOMAIN answer /\ frames[k] = answer[k - Len(old)]
      /\ \A k \in DOMAIN answer : k + Len(old) \in DOMAIN frames /\ frames[k + Len(old)] = answer[k]
  BY <1>5, <1>6, Behind
<1> HIDE DEF frames
<1>8. /\ inbound' \in [Seeders -> Seq(Frame)] /\ inbound'[s] = frames
      /\ \A t \in Seeders \ {s} : inbound'[t] = inbound[t]
  BY <1>2, <1>6, <1>7
<1>9. SwarmShapes'
  BY <1>1, <1>2, <1>4, <1>8 DEF SwarmShapes
<1>10. \A k \in DOMAIN inbound'[s] :
         \/ \E j \in DOMAIN inbound[s] : inbound'[s][k] = inbound[s][j]
         \/ /\ download.stage = "round" /\ inbound'[s][k].call = call
            /\ inbound'[s][k].type = "chunk" => inbound'[s][k].chunk \in Chunks
            /\ inbound'[s][k].type = "error" => holds[s].otherLayout
  BY <1>3, <1>5, <1>7, <1>8 DEF old
<1>11. ASSUME ~download.disturbed, ~holds[s].otherLayout
       PROVE  Due(s)'
  <2>1. Pending(s) /\ Unsent(s)
    <3>1. Due(s)
      BY <1>3, <1>11 DEF SwarmInv, RoundGood
    <3> QED BY <1>1, <3>1 DEF Due, Answered
  <2>2. \A k \in DOMAIN frames : (frames[k].call = call /\ frames[k].type = "complete") <=> k = Len(frames)
    <3> SUFFICES ASSUME NEW k \in DOMAIN frames
                 PROVE  (frames[k].call = call /\ frames[k].type = "complete") <=> k = Len(frames)
      OBVIOUS
    <3>1. k \in Nat
      BY <1>7
    <3>2. CASE k \in DOMAIN old /\ frames[k] = old[k] /\ k <= Len(old)
      <4>1. frames[k].call # call
        BY <2>1, <3>2 DEF Unsent, old
      <4>2. k # Len(frames)
        BY <1>5, <1>7, <1>11, <3>1, <3>2
      <4> QED BY <4>1, <4>2
    <3>3. CASE k - Len(old) \in DOMAIN answer /\ frames[k] = answer[k - Len(old)]
      <4> DEFINE n == k - Len(old)
      <4>1. n \in DOMAIN answer /\ frames[k] = answer[n]
        BY <3>3
      <4>2. n = Len(answer) <=> k = Len(frames)
        BY <1>7, <3>1
      <4> HIDE DEF n
      <4> QED BY <1>5, <1>11, <4>1, <4>2
    <3> QED BY <1>7, <3>2, <3>3
  <2>3. ASSUME NEW i \in given \cap holds[s].chunks
        PROVE  \E k \in DOMAIN frames :
                 frames[k].type = "chunk" /\ frames[k].chunk = i /\ frames[k].call = call
    <3>1. PICK k \in DOMAIN answer : answer[k].type = "chunk" /\ answer[k].chunk = i
      BY <1>5, <1>11, <2>3
    <3>2. k + Len(old) \in DOMAIN frames /\ frames[k + Len(old)] = answer[k] /\ answer[k].call = call
      BY <1>5, <1>7
    <3> QED BY <3>1, <3>2
  <2>4. Answering(s)'
    <3>1. inbound'[s] = frames /\ download'.call = call /\ holds' = holds /\ requests'[s].requested = given
      BY <1>1, <1>4, <1>8
    <3> HIDE DEF call, given
    <3>2. /\ inbound'[s] # <<>>
          /\ \A k \in DOMAIN inbound'[s] : (inbound'[s][k].call = download'.call
               /\ inbound'[s][k].type = "complete") <=> k = Len(inbound'[s])
      BY <1>5, <1>7, <1>11, <2>2, <3>1
    <3>3. \A i \in requests'[s].requested \cap holds'[s].chunks : \E k \in DOMAIN inbound'[s] :
            inbound'[s][k].type = "chunk" /\ inbound'[s][k].chunk = i /\ inbound'[s][k].call = download'.call
      BY <2>3, <3>1
    <3> QED BY <3>2, <3>3 DEF Answering
  <2> QED BY <1>4, <2>1, <2>4 DEF Due, Pending, Sending
<1>12. /\ memory' = memory /\ puts' = puts
       /\ puts'[s] # None => puts'[s].caller > 0 /\ (puts'[s].valid \/ holds[s].otherLayout)
  BY <1>1 DEF SwarmInv, FramesHonest, storeVars
<1>13. Pending(s)' \/ Sending(s)' => Pending(s) \/ Sending(s)
  BY <1>1
<1>14. UNCHANGED <<memory, puts, holds, download, peers>>
  BY <1>1, <1>12
<1> QED BY <1>2, <1>3, <1>4, <1>8, <1>9, <1>10, <1>11, <1>12, <1>13, <1>14, OneMovesOn

\* A send is refused: the request is rejected, if it still waits.
LEMMA SendRefusedKeeps ==
  ASSUME SwarmInv, NEW s \in Seeders, SendRefused(s)
  PROVE  SwarmInv'
<1> DEFINE call == requests[s].call
           rejected == RejectedFor(s, call)
<1>1. /\ Sending(s) /\ requests' = [rejected EXCEPT ![s].send = "settled"] /\ rejected = RejectedFor(s, call)
      /\ download' = Disturbed /\ UNCHANGED <<storeVars, peers, inbound, holds>> /\ SwarmShapes /\ StoreInv'
  BY StoreUntouched DEF SwarmInv, SendRefused
<1> HIDE DEF call, rejected
<1>2. /\ rejected \in [Seeders -> ChunkRequest] /\ \A t \in Seeders \ {s} : rejected[t] = requests[t]
      /\ \/ rejected[s] = requests[s]
         \/ Pending(s) /\ rejected[s].state = "rejected" /\ rejected[s].call = requests[s].call
  BY <1>1, Rejection
<1>3. /\ requests' \in [Seeders -> ChunkRequest] /\ \A t \in Seeders \ {s} : requests'[t] = requests[t]
      /\ requests'[s].call = requests[s].call /\ requests[s] # NoRequest
  <2>1. requests[s] # NoRequest
    BY <1>1 DEF Sending, NoRequest
  <2> QED BY <1>1, <1>2, <2>1 DEF ChunkRequest
<1>4. /\ download' \in Download /\ download'.disturbed /\ download'.stage = download.stage
      /\ download'.call = download.call /\ download'.failed = download.failed
      /\ download'.unavailable = download.unavailable
  BY <1>1, DisturbedSame
<1>5. SwarmShapes'
  BY <1>1, <1>3, <1>4 DEF SwarmShapes
<1>6. puts'[s] # None => puts'[s].caller > 0 /\ (puts'[s].valid \/ holds[s].otherLayout)
  BY <1>1 DEF SwarmInv, FramesHonest, storeVars
<1> QED BY <1>1, <1>3, <1>4, <1>5, <1>6, OneMovesOn DEF storeVars

LEMMA PeerReadyKeeps ==
  ASSUME SwarmInv, NEW s \in Seeders, PeerReady(s)
  PROVE  SwarmInv'
<1>1. /\ peers' = [peers EXCEPT ![s] = "ready"] /\ SwarmShapes /\ StoreInv
      /\ UNCHANGED <<memory, persisted, hydration, puts, clearing, lapsed, download, requests, inbound, holds>>
  BY DEF SwarmInv, PeerReady
<1>7. StoreInv'
  BY <1>1 DEF StoreInv, StoreShapes, StayingFits, NoneToList, Staying, Slated, Rejected
<1>2. /\ peers' \in [Seeders -> {"absent", "connecting", "ready"}]
      /\ \A t \in Seeders : peers[t] = "ready" => peers'[t] = "ready"
  BY <1>1 DEF SwarmShapes
<1>3. SwarmShapes' /\ FramesHonest' /\ RequestsOfRound' /\ FailsOnlyForWant'
  BY <1>1, <1>2 DEF SwarmInv, SwarmShapes, FramesHonest, RequestsOfRound, FailsOnlyForWant, missingChunks,
    Underway, Pending, Sending
<1>4. \A n \in DOMAIN download.sources : download.sources[n] \in Seeders
  BY <1>1 DEF SwarmShapes, Download
<1>5. SourcesGood'
  BY <1>1, <1>2, <1>4 DEF SwarmInv, SourcesGood, Underway, missingChunks, SwarmShapes, Download
<1>6. RoundGood'
  BY <1>1 DEF SwarmInv, RoundGood, Due, Pending, Sending, Unsent, Answering, Answered
<1> QED BY <1>1, <1>7, <1>3, <1>5, <1>6 DEF SwarmInv

LEMMA PeerClosedKeeps ==
  ASSUME SwarmInv, NEW s \in Seeders, PeerClosed(s)
  PROVE  SwarmInv'
<1>1. /\ peers' = [peers EXCEPT ![s] = "absent"] /\ peers \in [Seeders -> {"absent", "connecting", "ready"}]
      /\ download' = Disturbed /\ UNCHANGED <<memory, persisted, hydration, puts, clearing, lapsed, holds>>
      /\ SwarmShapes /\ StoreInv
  BY DEF SwarmInv, SwarmShapes, PeerClosed
<1>2. PICK k \in 0 .. Len(inbound[s]) : inbound' = [inbound EXCEPT ![s] = SubSeq(inbound[s], 1, k)]
  BY DEF PeerClosed
<1> DEFINE old == inbound[s]
           came == SubSeq(old, 1, k)
<1>3. old \in Seq(Frame) /\ inbound \in [Seeders -> Seq(Frame)] /\ k \in 0 .. Len(old)
  BY <1>1 DEF SwarmShapes
<1> HIDE DEF old
<1>4. came \in Seq(Frame) /\ \A n \in DOMAIN came : n \in DOMAIN old /\ came[n] = old[n]
  BY <1>3
<1> HIDE DEF came
<1>5. /\ inbound' \in [Seeders -> Seq(Frame)] /\ inbound'[s] = came
      /\ \A t \in Seeders \ {s} : inbound'[t] = inbound[t]
  BY <1>2, <1>3, <1>4 DEF came, old
<1>6. /\ requests' \in [Seeders -> ChunkRequest] /\ \A t \in Seeders \ {s} : requests'[t] = requests[t]
      /\ \/ requests'[s] = requests[s]
         \/ /\ requests[s] # NoRequest /\ requests'[s].call = requests[s].call
            /\ Pending(s)' \/ Sending(s)' => Pending(s) \/ Sending(s)
  <2> DEFINE call == requests[s].call
             rejected == RejectedFor(s, call)
             send == IF rejected[s].send = "linked" THEN "gone" ELSE rejected[s].send
  <2>1. requests' = [rejected EXCEPT ![s].send = send]
    BY DEF PeerClosed
  <2>2. rejected = RejectedFor(s, call)
    OBVIOUS
  <2> HIDE DEF call, rejected
  <2>3. /\ rejected \in [Seeders -> ChunkRequest] /\ \A t \in Seeders \ {s} : rejected[t] = requests[t]
        /\ rejected[s].send = requests[s].send
        /\ \/ rejected[s] = requests[s]
           \/ Pending(s) /\ rejected[s].state = "rejected" /\ rejected[s].call = requests[s].call
    BY <1>1, <2>2, Rejection
  <2>4. send \in {"settled", "linked", "gone"} /\ (send # "settled" => Sending(s)) /\ rejected[s].call = requests[s].call
    BY <2>3 DEF ChunkRequest, Sending
  <2> HIDE DEF send
  <2>5. /\ requests' \in [Seeders -> ChunkRequest] /\ \A t \in Seeders \ {s} : requests'[t] = requests[t]
        /\ requests'[s].call = requests[s].call /\ requests'[s].send = send /\ requests'[s].state = rejected[s].state
    BY <2>1, <2>3, <2>4 DEF ChunkRequest
  <2>6. Pending(s)' \/ Sending(s)' => Pending(s) \/ Sending(s)
    BY <2>3, <2>4, <2>5 DEF Pending, Sending
  <2>7. CASE requests[s] = NoRequest
    <3>1. ~Pending(s) /\ requests[s].send = "settled"
      BY <2>7 DEF Pending, NoRequest
    <3>2. send = "settled" /\ rejected[s] = requests[s]
      BY <2>3, <3>1 DEF send
    <3>3. requests'[s] = [rejected[s] EXCEPT !.send = "settled"]
      BY <2>1, <2>3, <3>2
    <3> QED BY <2>5, <2>7, <3>2, <3>3 DEF NoRequest
  <2>8. CASE requests[s] # NoRequest
    BY <2>5, <2>6, <2>8
  <2> QED BY <2>7, <2>8
<1>7. /\ download' \in Download /\ download'.disturbed /\ download'.stage = download.stage
      /\ download'.call = download.call /\ download'.failed = download.failed
      /\ download'.unavailable = download.unavailable
  BY <1>1, DisturbedSame
<1>8. peers' \in [Seeders -> {"absent", "connecting", "ready"}]
  BY <1>1
<1>9. SwarmShapes'
  BY <1>1, <1>5, <1>6, <1>7, <1>8 DEF SwarmShapes
<1>10. StoreInv'
  BY <1>1 DEF StoreInv, StoreShapes, StayingFits, NoneToList, Staying, Slated, Rejected
<1>11. \A n \in DOMAIN inbound'[s] : \E j \in DOMAIN inbound[s] : inbound'[s][n] = inbound[s][j]
  BY <1>4, <1>5 DEF old
<1>12. puts'[s] # None => puts'[s].caller > 0 /\ (puts'[s].valid \/ holds[s].otherLayout)
  BY <1>1 DEF SwarmInv, FramesHonest
<1> QED BY <1>1, <1>5, <1>6, <1>7, <1>9, <1>10, <1>11, <1>12, OneMovesOn

-------------------------------------------------------------------------------
(* The theorems.                                                            *)

LEMMA SwarmInitial == Init => SwarmInv
<1> SUFFICES ASSUME Init PROVE SwarmInv
  OBVIOUS
<1>1. StoreInv /\ puts = [w \in Writers |-> None]
  BY StoreInitial DEF Init, StoreInit
<1>2. /\ download = Idle(0) /\ requests = [s \in Seeders |-> NoRequest] /\ peers = [s \in Seeders |-> "absent"]
      /\ inbound = [s \in Seeders |-> <<>>]
      /\ holds \in [Seeders -> [chunks : SUBSET Chunks, otherLayout : BOOLEAN]]
  BY DEF Init
<1>3. download \in Download /\ download.stage = "idle"
  BY <1>2, SwarmAssumption DEF Idle, Download
<1>4. NoRequest \in ChunkRequest /\ NoRequest.state = "none"
  BY SwarmAssumption DEF NoRequest, ChunkRequest
<1>5. SwarmShapes /\ FramesHonest /\ RequestsOfRound
  BY <1>1, <1>2, <1>3, <1>4, SwarmAssumption
  DEF SwarmShapes, FramesHonest, RequestsOfRound, Underway, Pending, Sending, NoRequest
<1>6. SourcesGood /\ RoundGood /\ FailsOnlyForWant
  BY <1>3 DEF SourcesGood, Underway, RoundGood, FailsOnlyForWant
<1> QED BY <1>1, <1>5, <1>6 DEF SwarmInv

LEMMA SwarmStep == SwarmInv /\ [SwarmNext]_vars => SwarmInv'
<1> SUFFICES ASSUME SwarmInv, [SwarmNext]_vars PROVE SwarmInv'
  OBVIOUS
<1>1. CASE StartDownload
  BY <1>1, StartDownloadKeeps
<1>2. CASE SourceStep \/ Connected
  BY <1>2, PrepareKeeps, PreparedKeeps DEF SourceStep
<1>3. CASE EndRound
  BY <1>3, EndRoundKeeps
<1>4. CASE StoreStep \/ ((\E i \in Chunks : Touch(i)) /\ UNCHANGED swarmVars)
  BY <1>4, StoreStepKeeps
<1>5. ASSUME NEW s \in Seeders, \/ HandleFrame(s) \/ PutStep(s) \/ PeerReady(s) \/ PeerClosed(s)
                                \/ RequestSent(s) \/ SendRefused(s) \/ RequestTimeout(s)
      PROVE  SwarmInv'
  <2>1. CASE HandleFrame(s)
    BY <2>1, HandleFrameKeeps
  <2>2. CASE PutStep(s)
    BY <2>2, PutWorksKeeps, ChunkStoredKeeps, ChunkRefusedKeeps DEF PutStep
  <2>3. CASE RequestTimeout(s)
    BY <2>3, RequestTimeoutKeeps
  <2>4. CASE PeerReady(s)
    BY <2>4, PeerReadyKeeps
  <2>5. CASE PeerClosed(s)
    BY <2>5, PeerClosedKeeps
  <2>6. CASE RequestSent(s) \/ SendRefused(s)
    BY <2>6, RequestSentKeeps, SendRefusedKeeps
  <2> QED BY <1>5, <2>1, <2>2, <2>3, <2>4, <2>5, <2>6
<1>6. CASE ClearStore
  BY <1>6, ClearStoreKeeps
<1>7. CASE ReloadPage
  BY <1>7, ReloadPageKeeps
<1>8. CASE UNCHANGED vars
  <2>1. UNCHANGED storeVars /\ UNCHANGED swarmVars
    BY <1>8 DEF vars
  <2>2. StoreInv' /\ memory' = memory /\ puts' = puts
    BY <2>1, StoreUntouched DEF SwarmInv, storeVars
  <2> QED BY <2>1, <2>2, StoreWorksKeeps
<1> QED BY <1>1, <1>2, <1>3, <1>4, <1>5, <1>6, <1>7, <1>8 DEF SwarmNext

LEMMA SwarmInvHolds == SwarmSpec => []SwarmInv
BY SwarmInitial, SwarmStep, PTL DEF SwarmSpec

\* The variables have their types; only the manifest's chunks are in memory,
\* and the database has one entry of each, whatever runs at once
\* (verified-chunk-store.ts:54-64).
THEOREM SwarmTypeCorrect == SwarmSpec => []SwarmTypeOK
<1>1. SwarmInv => SwarmTypeOK
  <2> SUFFICES ASSUME SwarmInv PROVE SwarmTypeOK
    OBVIOUS
  <2>1. \A s \in Seeders : ToSet(inbound[s]) \subseteq Frame
    BY DEF SwarmInv, SwarmShapes, ToSet
  <2> QED BY <2>1, StoreInvSuffices DEF SwarmInv, SwarmShapes, SwarmTypeOK
<1> QED BY <1>1, SwarmInvHolds, PTL

\* The byte budget of the store is kept whenever no put or hydration is under
\* way (#enforceBudget, persistent-verified-chunk-store.ts:246-283): each
\* chunk over it is in the eviction list of someone still at work, unless the
\* database refused a listing or an eviction, and nobody has listed since.
THEOREM BudgetHolds == SwarmSpec => []BudgetKept
<1>1. SwarmInv => BudgetKept
  BY StoreInvSuffices DEF SwarmInv
<1> QED BY <1>1, SwarmInvHolds, PTL

\* A download with no send refused, no link lost, no request timed out, no put
\* refused and no clear() fails only when none of its sources, of the file's
\* layout, has any chunk that is missing (content-swarm-downloader.ts:132-200).
THEOREM FailsForWantOnly == SwarmSpec => []FailsOnlyForWant
<1>1. SwarmInv => FailsOnlyForWant
  BY DEF SwarmInv
<1> QED BY <1>1, SwarmInvHolds, PTL
===============================================================================
