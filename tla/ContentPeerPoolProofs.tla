------------------------ MODULE ContentPeerPoolProofs ------------------------
(***************************************************************************)
(* Theorems about the pools of ContentPeerPool, for every value of its     *)
(* constants: any participants, any number of links, connections and       *)
(* faults.                                                                 *)
(*                                                                         *)
(* A step of a pool is a chain of parts that hand on the pool's state.     *)
(* The argument names the states a step of a pool may pass through, and    *)
(* shows that no part leaves them; the chain of signals is a fold, which   *)
(* stays in any set that a single signal stays in.                         *)
(*                                                                         *)
(* The second half is about two pools that are left alone.  What either    *)
(* has of the other is its end of the pair: its link, what it said that is *)
(* not yet handled and the work it does.  PairOK relates the two ends, and *)
(* nothing else: each part of a handler is first shown to keep it of two   *)
(* records, then of the pool it is a part of, then of all pools.           *)
(***************************************************************************)
EXTENDS ContentPeerPool, FiniteSetTheorems, TLAPS

-------------------------------------------------------------------------------
(* The fold over a chain.                                                   *)

\* A set of numbers that has 0, and the next of each it has, has all.
LEMMA EveryNumber ==
  ASSUME NEW C, 0 \in C, \A n \in Nat : n \in C => n + 1 \in C
  PROVE  \A k \in Nat : k \in C
<1> SUFFICES ASSUME NEW k \in Nat, k \notin C PROVE FALSE
  OBVIOUS
<1> DEFINE S == Nat \ C
<1>1. PICK n \in S : \A m \in S : ~(<<m, n>> \in OpToRel(<, Nat))
  <2>1. S \subseteq Nat /\ S # {}
    OBVIOUS
  <2> HIDE DEF S
  <2> QED BY <2>1, NatLessThanWellFounded, WFMin, Zenon
<1>2. \A m \in S : ~(m < n)
  BY <1>1, Zenon DEF OpToRel
<1>3. n # 0 /\ n \in Nat /\ n - 1 \in Nat /\ n - 1 < n /\ (n - 1) + 1 = n
  OBVIOUS
<1>4. n - 1 \in C
  BY <1>2, <1>3
<1> QED BY <1>3, <1>4

\* Sets of indices are finite, and no larger than the last index.
LEMMA SetsOfIndices ==
  ASSUME NEW k \in Nat
  PROVE  \A T \in SUBSET (1 .. k) :
           /\ IsFiniteSet(T) /\ Cardinality(T) \in Nat /\ Cardinality(T) <= k
           /\ (Cardinality(T) = 0 <=> T = {})
<1>1. IsFiniteSet(1 .. k) /\ Cardinality(1 .. k) = k
  <2>1. 1 \in Int /\ k \in Int
    OBVIOUS
  <2>2. IsFiniteSet(1 .. k) /\ Cardinality(1 .. k) = IF 1 > k THEN 0 ELSE k - 1 + 1
    BY <2>1, FS_Interval
  <2> QED BY <2>2
<1>2. \A T \in SUBSET (1 .. k) : IsFiniteSet(T) /\ Cardinality(T) <= Cardinality(1 .. k)
  BY <1>1, FS_Subset
<1>3. \A T \in SUBSET (1 .. k) : Cardinality(T) \in Nat
  BY <1>2, FS_CardinalityType
<1>4. \A T \in SUBSET (1 .. k) : Cardinality(T) = 0 <=> T = {}
  BY <1>2, FS_EmptySet
<1> QED BY <1>1, <1>2, <1>3, <1>4

\* The last index of a set of indices, and the set without it.
LEMMA LastIndex ==
  ASSUME NEW k \in Nat, NEW T \in SUBSET (1 .. k), T # {}
  PROVE  /\ Max(T) \in T
         /\ T \ {Max(T)} \in SUBSET (1 .. k)
         /\ Cardinality(T \ {Max(T)}) = Cardinality(T) - 1
<1> DEFINE C == {n \in Nat : \A U \in SUBSET (1 .. n) : U # {} => \E x \in U : \A y \in U : x >= y}
<1>1. 0 \in C
  <2>1. 1 .. 0 = {}
    OBVIOUS
  <2> QED BY <2>1
<1>2. ASSUME NEW n \in Nat, n \in C PROVE n + 1 \in C
  <2> SUFFICES ASSUME NEW U \in SUBSET (1 .. n + 1), U # {} PROVE \E x \in U : \A y \in U : x >= y
    OBVIOUS
  <2>1. CASE n + 1 \in U
    BY <2>1
  <2>2. CASE n + 1 \notin U
    <3>1. U \in SUBSET (1 .. n)
      BY <2>2
    <3> QED BY <1>2, <3>1
  <2> QED BY <2>1, <2>2
<1>3. k \in C
  <2> HIDE DEF C
  <2> QED BY <1>1, <1>2, EveryNumber
<1>4. Max(T) \in T
  BY <1>3 DEF Max
<1>5. IsFiniteSet(T)
  BY SetsOfIndices
<1> QED BY <1>4, <1>5, FS_RemoveElement

\* What the signals of the chain c at the indices T make of the state b, when
\* f says it of the indices before the last.
Stepped(n, p, c, b, f, T) == IF T = {} THEN b ELSE Heard(n, f[T \ {Max(T)}], p, c[Max(T)])

Steps(n, p, c, b, S, f) == f = [T \in SUBSET S |-> Stepped(n, p, c, b, f, T)]

LEMMA StepsExist ==
  ASSUME NEW n, NEW p, NEW c, NEW b, NEW k \in Nat
  PROVE  \E f : Steps(n, p, c, b, 1 .. k, f)
<1> DEFINE S == 1 .. k
           Upto(m) == {T \in SUBSET S : Cardinality(T) <= m}
           C == {m \in Nat : \E f : f = [T \in Upto(m) |-> Stepped(n, p, c, b, f, T)]}
<1>1. \A T \in SUBSET S : Cardinality(T) \in Nat /\ Cardinality(T) <= k /\ (Cardinality(T) = 0 <=> T = {})
  BY SetsOfIndices
<1>2. \A T \in SUBSET S : T # {} => T \ {Max(T)} \in SUBSET S /\ Cardinality(T \ {Max(T)}) = Cardinality(T) - 1
  BY LastIndex
<1>3. 0 \in C
  <2> DEFINE f == [T \in Upto(0) |-> b]
  <2>1. \A T \in Upto(0) : T = {}
    BY <1>1
  <2>2. f = [T \in Upto(0) |-> Stepped(n, p, c, b, f, T)]
    BY <2>1 DEF Stepped
  <2> QED BY <2>2
<1> HIDE DEF S
<1>4. ASSUME NEW m \in Nat, m \in C PROVE m + 1 \in C
  <2>1. PICK f : f = [T \in Upto(m) |-> Stepped(n, p, c, b, f, T)]
    BY <1>4
  <2> DEFINE D == Upto(m + 1)
             h == [T \in D |-> Stepped(n, p, c, b, f, T)]
  <2>2. \A T \in Upto(m) : T \in D
    BY <1>1
  <2>3. \A T \in D : T # {} => T \ {Max(T)} \in Upto(m)
    BY <1>1, <1>2
  <2> HIDE DEF Upto, D
  <2>4. \A T \in Upto(m) : h[T] = f[T]
    BY <2>1, <2>2
  <2> HIDE DEF h
  <2>5. \A T \in D : Stepped(n, p, c, b, f, T) = Stepped(n, p, c, b, h, T)
    BY <2>3, <2>4 DEF Stepped
  <2>6. h = [T \in D |-> Stepped(n, p, c, b, h, T)]
    BY <2>5 DEF h
  <2> QED BY <2>6 DEF D
<1>5. k \in C
  <2> HIDE DEF C
  <2> QED BY <1>3, <1>4, EveryNumber
<1>6. Upto(k) = SUBSET S
  BY <1>1
<1> HIDE DEF Upto
<1> QED BY <1>5, <1>6 DEF Steps, S

\* The fold over a chain goes through the sets G, one for every signal of it.
LEMMA ChainedThrough ==
  ASSUME NEW n, NEW p, NEW s, NEW G,
         Len(s.chains[p]) \in Nat, DOMAIN s.chains[p] = 1 .. Len(s.chains[p]),
         [s EXCEPT !.chains[p] = <<>>] \in G[0],
         \A i \in 1 .. Len(s.chains[p]) : \A t \in G[i - 1] : Heard(n, t, p, s.chains[p][i]) \in G[i]
  PROVE  Chained(n, s, p) \in G[Len(s.chains[p])]
<1> DEFINE c == s.chains[p]
           b == [s EXCEPT !.chains[p] = <<>>]
           S == 1 .. Len(c)
<1>1. Chained(n, s, p) = (CHOOSE f : Steps(n, p, c, b, DOMAIN c, f))[DOMAIN c]
  BY Zenon DEF Chained, FoldLeft, MapThenFoldSet, Steps, Stepped
<1>2. PICK f : Steps(n, p, c, b, S, f) /\ Chained(n, s, p) = f[S]
  <2>1. \E f : Steps(n, p, c, b, S, f)
    BY StepsExist, Zenon
  <2>2. DOMAIN c = S
    OBVIOUS
  <2> HIDE DEF b, c, S
  <2> DEFINE g == CHOOSE f : Steps(n, p, c, b, S, f)
  <2>3. Steps(n, p, c, b, S, g)
    BY <2>1, Zenon
  <2>4. Chained(n, s, p) = g[S]
    BY <1>1, <2>2, Zenon
  <2> QED BY <2>3, <2>4, Zenon
<1> HIDE DEF b
<1>3. \A T \in SUBSET S : f[T] = Stepped(n, p, c, b, f, T)
  BY <1>2 DEF Steps
<1> DEFINE C == {m \in Nat : m <= Len(c) => f[1 .. m] \in G[m]}
<1>4. 0 \in C
  <2>1. 1 .. 0 = {} /\ {} \in SUBSET S
    OBVIOUS
  <2>2. f[{}] = b
    BY <1>3, <2>1 DEF Stepped
  <2> QED BY <2>1, <2>2 DEF b
<1>5. ASSUME NEW m \in Nat, m \in C PROVE m + 1 \in C
  <2> SUFFICES ASSUME m + 1 <= Len(c) PROVE f[1 .. m + 1] \in G[m + 1]
    OBVIOUS
  <2>1. f[1 .. m] \in G[m] /\ m + 1 \in S /\ (m + 1) - 1 = m
    BY <1>5
  <2>2. 1 .. m + 1 \in SUBSET S /\ 1 .. m + 1 # {} /\ 1 .. m + 1 \in SUBSET (1 .. m + 1)
    OBVIOUS
  <2>3. Max(1 .. m + 1) = m + 1
    BY DEF Max
  <2>4. (1 .. m + 1) \ {m + 1} = 1 .. m
    OBVIOUS
  <2>5. f[1 .. m + 1] = Heard(n, f[1 .. m], p, c[m + 1])
    BY <1>3, <2>2, <2>3, <2>4 DEF Stepped
  <2> QED BY <2>1, <2>5
<1>6. \A m \in Nat : m \in C
  <2> HIDE DEF C
  <2> QED BY <1>4, <1>5, EveryNumber
<1> QED BY <1>2, <1>6

\* The fold over a chain stays in a set that no signal of it leaves.
LEMMA ChainedWithin ==
  ASSUME NEW n, NEW p, NEW s, NEW G,
         Len(s.chains[p]) \in Nat, DOMAIN s.chains[p] = 1 .. Len(s.chains[p]),
         [s EXCEPT !.chains[p] = <<>>] \in G,
         \A t \in G : \A i \in 1 .. Len(s.chains[p]) : Heard(n, t, p, s.chains[p][i]) \in G
  PROVE  Chained(n, s, p) \in G
<1> DEFINE H == [i \in 0 .. Len(s.chains[p]) |-> G]
<1>1. \A i \in 0 .. Len(s.chains[p]) : H[i] = G
  OBVIOUS
<1>2. \A i \in 1 .. Len(s.chains[p]) : i - 1 \in 0 .. Len(s.chains[p]) /\ i \in 0 .. Len(s.chains[p])
  OBVIOUS
<1>3. 0 \in 0 .. Len(s.chains[p]) /\ Len(s.chains[p]) \in 0 .. Len(s.chains[p])
  OBVIOUS
<1> HIDE DEF H
<1>4. \A i \in 1 .. Len(s.chains[p]) : \A t \in H[i - 1] : Heard(n, t, p, s.chains[p][i]) \in H[i]
  BY <1>1, <1>2
<1>5. [s EXCEPT !.chains[p] = <<>>] \in H[0]
  BY <1>1, <1>3
<1>6. Chained(n, s, p) \in H[Len(s.chains[p])]
  BY <1>4, <1>5, ChainedThrough, Zenon
<1> QED BY <1>1, <1>3, <1>6

-------------------------------------------------------------------------------
(* The states a step of a pool passes through.                              *)

Linked(s) == {p \in Participants : s.peers[p] # None}

\* An offer or an answer to q is about the link n had to q when it began.
Spoken(n, q, m) == m.type \in {"offer", "answer"} => HasLink(Pool(n), q, m.id)

\* The pool's state in a step, whatever it has sent.
Parts == [peers : [Participants -> Link \cup {None}], chains : [Participants -> Seq(Signal)],
          works : SUBSET Work, sends : [Participants -> Seq(Signal)]]

Within(n) ==
  {s \in Parts :
     /\ IsFiniteSet(Linked(s)) /\ Size(s) <= MaxPeers
     /\ \A q \in Participants : \A i \in 1 .. Len(s.sends[q]) : Spoken(n, q, s.sends[q][i])}

\* A link replaced by none leaves no more links, and room if there was one.
LEMMA Unlinked ==
  ASSUME NEW s \in Parts, NEW p \in Participants, IsFiniteSet(Linked(s)), Size(s) <= MaxPeers,
         NEW t, t.peers = [s.peers EXCEPT ![p] = None]
  PROVE  IsFiniteSet(Linked(t)) /\ Size(t) <= MaxPeers
<1>1. Linked(t) \subseteq Linked(s)
  BY DEF Linked, Parts
<1>2. IsFiniteSet(Linked(t)) /\ Cardinality(Linked(t)) <= Cardinality(Linked(s))
  BY <1>1, FS_Subset
<1>3. Cardinality(Linked(t)) \in Nat /\ Cardinality(Linked(s)) \in Nat
  BY <1>2, FS_CardinalityType
<1>4. Size(t) = Cardinality(Linked(t)) /\ Size(s) = Cardinality(Linked(s))
  BY DEF Size, Linked
<1> QED BY <1>2, <1>3, <1>4, PoolAssumption

\* With the capacity for a link, there may be one more.
LEMMA OneMore ==
  ASSUME NEW s \in Parts, NEW p \in Participants, IsFiniteSet(Linked(s)), HasCapacity(s),
         NEW l, NEW t, t.peers = [s.peers EXCEPT ![p] = l]
  PROVE  IsFiniteSet(Linked(t)) /\ Size(t) <= MaxPeers
<1>1. Linked(t) \subseteq Linked(s) \cup {p}
  BY DEF Linked, Parts
<1>2. /\ IsFiniteSet(Linked(s) \cup {p})
      /\ Cardinality(Linked(s) \cup {p}) <= Cardinality(Linked(s)) + 1
      /\ Cardinality(Linked(s)) \in Nat
  <2>1. Cardinality(Linked(s)) \in Nat
    BY FS_CardinalityType
  <2>2. /\ IsFiniteSet(Linked(s) \cup {p})
        /\ \/ Cardinality(Linked(s) \cup {p}) = Cardinality(Linked(s))
           \/ Cardinality(Linked(s) \cup {p}) = Cardinality(Linked(s)) + 1
    BY FS_AddElement
  <2> QED BY <2>1, <2>2
<1>3. IsFiniteSet(Linked(t)) /\ Cardinality(Linked(t)) <= Cardinality(Linked(s) \cup {p})
  BY <1>1, <1>2, FS_Subset
<1>4. Cardinality(Linked(t)) \in Nat /\ Cardinality(Linked(s) \cup {p}) \in Nat
  BY <1>2, <1>3, FS_CardinalityType
<1>5. Size(t) = Cardinality(Linked(t)) /\ Cardinality(Linked(s)) < MaxPeers
  BY DEF Size, Linked, HasCapacity
<1> QED BY <1>2, <1>3, <1>4, <1>5, PoolAssumption

\* The generations that pools have.
PoolTyped == pool \in [Participants -> [closed : BOOLEAN, generation : 0 .. MaxFaults, online : BOOLEAN]]

\* The parts of a step that change one link, or the works.
LEMMA PartsChanged ==
  ASSUME NEW s \in Parts, NEW p \in Participants
  PROVE  /\ \A l \in Link \cup {None} : [s EXCEPT !.peers[p] = l] \in Parts
         /\ \A c \in Seq(Signal) : [s EXCEPT !.chains[p] = c] \in Parts
         /\ \A ws \in SUBSET Work : [s EXCEPT !.works = ws] \in Parts
         /\ \A c \in Seq(Signal) : [s EXCEPT !.sends[p] = c] \in Parts
<1>1. /\ s.peers \in [Participants -> Link \cup {None}] /\ s.chains \in [Participants -> Seq(Signal)]
      /\ s.works \in SUBSET Work /\ s.sends \in [Participants -> Seq(Signal)]
      /\ DOMAIN s = {"peers", "chains", "works", "sends"}
  BY DEF Parts
<1>2. \A l \in Link \cup {None} : [s EXCEPT !.peers[p] = l] \in Parts
  BY <1>1 DEF Parts
<1>3. \A c \in Seq(Signal) : [s EXCEPT !.chains[p] = c] \in Parts
  BY <1>1 DEF Parts
<1>4. \A ws \in SUBSET Work : [s EXCEPT !.works = ws] \in Parts
  BY <1>1 DEF Parts
<1>5. \A c \in Seq(Signal) : [s EXCEPT !.sends[p] = c] \in Parts
  BY <1>1 DEF Parts
<1> QED BY <1>2, <1>3, <1>4, <1>5

\* A step that keeps the links and what was sent.
LEMMA WithinKept ==
  ASSUME NEW n, NEW s \in Within(n), NEW t \in Parts, t.peers = s.peers, t.sends = s.sends
  PROVE  t \in Within(n)
<1>1. Linked(t) = Linked(s) /\ Size(t) = Size(s)
  BY DEF Linked, Size
<1> QED BY <1>1 DEF Within

LEMMA SendingWithin ==
  ASSUME NEW n \in Participants, NEW p \in Participants, NEW s \in Within(n), NEW type, NEW id,
         [type |-> type, id |-> id] \in Signal, Spoken(n, p, [type |-> type, id |-> id])
  PROVE  Sending(s, p, type, id) \in Within(n)
<1> DEFINE m == [type |-> type, id |-> id]
           c == Append(s.sends[p], m)
           t == [s EXCEPT !.sends[p] = c]
<1>1. s \in Parts /\ s.sends \in [Participants -> Seq(Signal)] /\ s.sends[p] \in Seq(Signal)
  BY DEF Within, Parts
<1>2. m \in Signal /\ Spoken(n, p, m)
  OBVIOUS
<1>3. Sending(s, p, type, id) = t
  BY DEF Sending
<1> HIDE DEF m
<1>4. c \in Seq(Signal)
  BY <1>1, <1>2
<1>5. /\ Len(c) = Len(s.sends[p]) + 1 /\ Len(s.sends[p]) \in Nat
      /\ \A i \in 1 .. Len(s.sends[p]) : c[i] = s.sends[p][i]
      /\ c[Len(s.sends[p]) + 1] = m
      /\ \A i \in 1 .. Len(s.sends[p]) + 1 : i \in 1 .. Len(s.sends[p]) \/ i = Len(s.sends[p]) + 1
  BY <1>1, <1>2
<1>6. \A i \in 1 .. Len(s.sends[p]) : Spoken(n, p, s.sends[p][i])
  BY DEF Within
<1>7. \A i \in 1 .. Len(c) : Spoken(n, p, c[i])
  BY <1>2, <1>5, <1>6
<1> HIDE DEF c
<1>8. t \in Parts
  BY <1>1, <1>4, PartsChanged
<1>9. t.peers = s.peers /\ t.sends = [s.sends EXCEPT ![p] = c]
  BY <1>1 DEF Parts
<1> HIDE DEF t
<1>10. Linked(t) = Linked(s) /\ Size(t) = Size(s)
  BY <1>9 DEF Linked, Size
<1>11. \A q \in Participants : \A i \in 1 .. Len(t.sends[q]) : Spoken(n, q, t.sends[q][i])
  BY <1>1, <1>7, <1>9 DEF Within
<1> QED BY <1>3, <1>8, <1>10, <1>11 DEF Within

\* A link dropped, whatever becomes of its chain and its work.
LEMMA UnlinkedWithin ==
  ASSUME NEW n, NEW p \in Participants, NEW s \in Within(n), NEW t \in Parts,
         t.peers = [s.peers EXCEPT ![p] = None], t.sends = s.sends
  PROVE  t \in Within(n)
<1>1. s \in Parts /\ IsFiniteSet(Linked(s)) /\ Size(s) <= MaxPeers
  BY DEF Within
<1>2. IsFiniteSet(Linked(t)) /\ Size(t) <= MaxPeers
  BY <1>1, Unlinked
<1> QED BY <1>2 DEF Within

\* Work that goes on unheard.
LEMMA UnheardWork ==
  ASSUME NEW ws \in SUBSET Work
  PROVE  /\ \A p : {Unheard(w, p) : w \in ws} \in SUBSET Work
         /\ {[w EXCEPT !.chained = FALSE] : w \in ws} \in SUBSET Work
<1>1. \A w \in Work : w.chained \in BOOLEAN /\ \A b \in BOOLEAN : [w EXCEPT !.chained = b] \in Work
  BY DEF Work
<1>2. \A w \in Work : \A p : Unheard(w, p) \in Work
  BY <1>1 DEF Unheard
<1>3. FALSE \in BOOLEAN
  OBVIOUS
<1> QED BY <1>1, <1>2, <1>3

LEMMA DroppedWithin ==
  ASSUME NEW n, NEW p \in Participants, NEW s \in Within(n)
  PROVE  Dropped(s, p) \in Within(n)
<1> DEFINE ws == {Unheard(w, p) : w \in s.works}
           t == [s EXCEPT !.peers[p] = None, !.chains[p] = <<>>, !.works = ws]
<1>1. s \in Parts
  BY DEF Within
<1>2. /\ s.peers \in [Participants -> Link \cup {None}] /\ s.chains \in [Participants -> Seq(Signal)]
      /\ s.works \in SUBSET Work /\ s.sends \in [Participants -> Seq(Signal)]
  BY <1>1 DEF Parts
<1>3. ws \in SUBSET Work /\ <<>> \in Seq(Signal)
  BY <1>2, UnheardWork
<1> HIDE DEF ws
<1>4. t \in Parts /\ t.peers = [s.peers EXCEPT ![p] = None] /\ t.sends = s.sends
  BY <1>1, <1>2, <1>3 DEF Parts
<1> HIDE DEF t
<1>5. t \in Within(n)
  BY <1>4, UnlinkedWithin
<1>6. Dropped(s, p) = IF s.peers[p] = None THEN s ELSE t
  BY DEF Dropped, t, ws
<1> QED BY <1>5, <1>6

LEMMA BeginWithin ==
  ASSUME PoolTyped, NEW n \in Participants, NEW p \in Participants, NEW s \in Within(n),
         NEW id \in Ids, NEW does \in {"offer", "answer", "accept"}
  PROVE  Begin(n, s, p, id, does) \in Within(n)
<1> DEFINE w == [peer |-> p, id |-> id, does |-> does, generation |-> pool[n].generation,
                 chained |-> does # "offer"]
           ws == s.works \cup {w}
           t == [s EXCEPT !.works = ws]
<1>1. s \in Parts /\ s.works \in SUBSET Work
  BY DEF Within, Parts
<1>2. pool[n].generation \in 0 .. MaxFaults
  BY DEF PoolTyped
<1>3. w \in Work
  BY <1>2 DEF Work
<1>4. Begin(n, s, p, id, does) = t
  BY DEF Begin
<1> HIDE DEF w
<1>5. ws \in SUBSET Work
  BY <1>1, <1>3
<1> HIDE DEF ws
<1>6. t \in Parts
  BY <1>1, <1>5, PartsChanged
<1>7. t.peers = s.peers /\ t.sends = s.sends
  BY <1>1 DEF Parts
<1> HIDE DEF t
<1> QED BY <1>4, <1>6, <1>7, WithinKept

\* What a pool says that is not about a description.
LEMMA RejectionWithin ==
  ASSUME NEW n \in Participants, NEW p \in Participants, NEW s \in Within(n), NEW id \in Ids
  PROVE  /\ Sending(s, p, "collision", id) \in Within(n)
         /\ Sending(s, p, "capacity", id) \in Within(n)
         /\ Sending(s, p, "close", id) \in Within(n)
<1>1. \A type \in {"collision", "capacity", "close"} :
        [type |-> type, id |-> id] \in Signal /\ Spoken(n, p, [type |-> type, id |-> id])
  BY DEF Signal, Spoken
<1> QED BY <1>1, SendingWithin

LEMMA OfferWithin ==
  ASSUME PoolTyped, NEW n \in Participants, NEW p \in Participants, NEW s \in Within(n), NEW id \in Ids
  PROVE  OfferHandled(n, s, p, id) \in Within(n)
<1> DEFINE free == IF s.peers[p] = None THEN s ELSE [s EXCEPT !.peers[p] = None]
           l == [id |-> id, initiatedLocally |-> FALSE, stage |-> "answering"]
           t == [free EXCEPT !.peers[p] = l]
<1>1. s \in Parts
  BY DEF Within
<1>2. s.peers \in [Participants -> Link \cup {None}] /\ s.sends \in [Participants -> Seq(Signal)]
  BY <1>1 DEF Parts
<1>3. free \in Within(n)
  <2> DEFINE u == [s EXCEPT !.peers[p] = None]
  <2>1. u \in Parts
    BY <1>1, PartsChanged
  <2>2. u.peers = [s.peers EXCEPT ![p] = None] /\ u.sends = s.sends
    BY <1>1 DEF Parts
  <2> HIDE DEF u
  <2>3. u \in Within(n)
    BY <2>1, <2>2, UnlinkedWithin
  <2> QED BY <2>3 DEF u
<1>4. l \in Link
  BY DEF Link
<1> HIDE DEF free, l
<1>5. free \in Parts /\ IsFiniteSet(Linked(free))
  BY <1>3 DEF Within
<1>6. ASSUME HasCapacity(free) PROVE Begin(n, t, p, id, "answer") \in Within(n)
  <2>1. t \in Parts
    BY <1>4, <1>5, PartsChanged
  <2>2. t.peers = [free.peers EXCEPT ![p] = l] /\ t.sends = free.sends
    BY <1>5 DEF Parts
  <2> HIDE DEF t
  <2>3. IsFiniteSet(Linked(t)) /\ Size(t) <= MaxPeers
    BY <1>5, <1>6, <2>2, OneMore
  <2>4. t \in Within(n)
    BY <1>3, <2>1, <2>2, <2>3 DEF Within
  <2> QED BY <2>4, BeginWithin
<1>7. Sending(free, p, "capacity", id) \in Within(n) /\ Sending(s, p, "collision", id) \in Within(n)
  BY <1>3, RejectionWithin
<1> QED BY <1>6, <1>7 DEF OfferHandled, free, l

LEMMA HeardWithin ==
  ASSUME PoolTyped, NEW n \in Participants, NEW p \in Participants, NEW s \in Within(n),
         NEW m \in Signal
  PROVE  Heard(n, s, p, m) \in Within(n)
<1>1. m.id \in Ids
  BY DEF Signal
<1>2. Handled(n, s, p, m) \in Within(n)
  <2>1. OfferHandled(n, s, p, m.id) \in Within(n) /\ Begin(n, s, p, m.id, "accept") \in Within(n)
    BY <1>1, OfferWithin, BeginWithin
  <2> QED BY <2>1 DEF Handled
<1>3. [s EXCEPT !.chains[p] = Append(@, m)] \in Within(n)
  <2> DEFINE c == Append(s.chains[p], m)
             t == [s EXCEPT !.chains[p] = c]
  <2>1. s \in Parts /\ s.chains[p] \in Seq(Signal)
    BY DEF Within, Parts
  <2>2. c \in Seq(Signal)
    BY <2>1
  <2> HIDE DEF c
  <2>3. t \in Parts
    BY <2>1, <2>2, PartsChanged
  <2>4. t.peers = s.peers /\ t.sends = s.sends
    BY <2>1 DEF Parts
  <2> HIDE DEF t
  <2>5. t \in Within(n)
    BY <2>3, <2>4, WithinKept
  <2> QED BY <2>5 DEF t, c
<1> QED BY <1>2, <1>3 DEF Heard

\* The chain of p, with the signals that wait in s.
LEMMA ChainWithin ==
  ASSUME PoolTyped, NEW n \in Participants, NEW p \in Participants, NEW s \in Within(n)
  PROVE  Chained(n, s, p) \in Within(n)
<1> DEFINE c == s.chains[p]
           b == [s EXCEPT !.chains[p] = <<>>]
<1>1. s \in Parts /\ c \in Seq(Signal) /\ <<>> \in Seq(Signal)
  BY DEF Within, Parts
<1>2. b \in Within(n)
  <2>1. b \in Parts
    BY <1>1, PartsChanged
  <2>2. b.peers = s.peers /\ b.sends = s.sends
    BY <1>1 DEF Parts
  <2> HIDE DEF b
  <2> QED BY <2>1, <2>2, WithinKept
<1>3. Len(c) \in Nat /\ DOMAIN c = 1 .. Len(c) /\ \A i \in 1 .. Len(c) : c[i] \in Signal
  BY <1>1
<1>4. \A t \in Within(n) : \A i \in 1 .. Len(c) : Heard(n, t, p, c[i]) \in Within(n)
  BY <1>3, HeardWithin
<1> QED BY <1>2, <1>3, <1>4, ChainedWithin, Zenon

\* What follows the awaits of w: only if its link is there does it speak.
LEMMA ContinuedWithin ==
  ASSUME PoolTyped, NEW n \in Participants, NEW w \in Work, NEW s \in Within(n),
         s.peers = peers[n]
  PROVE  Continued(n, s, w) \in Within(n)
<1> DEFINE p == w.peer
<1>1. p \in Participants /\ w.id \in Ids
  BY DEF Work
<1>2. s \in Parts /\ s.peers \in [Participants -> Link \cup {None}]
  BY DEF Within, Parts
<1> HIDE DEF p
<1>3. ASSUME HasLink(s, p, w.id), NEW stage \in {"offered", "answered", "accepted"}
      PROVE  [s EXCEPT !.peers[p].stage = stage] \in Within(n)
  <2> DEFINE l == [s.peers[p] EXCEPT !.stage = stage]
             t == [s EXCEPT !.peers[p] = l]
  <2>1. s.peers[p] \in Link /\ s.peers[p] # None
    BY <1>1, <1>2, <1>3 DEF HasLink
  <2>2. l \in Link
    BY <2>1 DEF Link
  <2> HIDE DEF l
  <2>3. t \in Parts
    BY <1>1, <1>2, <2>2, PartsChanged
  <2>4. t.peers = [s.peers EXCEPT ![p] = l] /\ t.sends = s.sends
    BY <1>2 DEF Parts
  <2> HIDE DEF t
  <2>5. Linked(t) \subseteq Linked(s)
    BY <1>1, <1>2, <2>1, <2>4 DEF Linked
  <2>6. IsFiniteSet(Linked(s)) /\ Cardinality(Linked(s)) <= MaxPeers
    BY DEF Within, Size, Linked
  <2>7. IsFiniteSet(Linked(t)) /\ Cardinality(Linked(t)) <= Cardinality(Linked(s))
    BY <2>5, <2>6, FS_Subset
  <2>8. Cardinality(Linked(t)) \in Nat /\ Cardinality(Linked(s)) \in Nat
    BY <2>6, <2>7, FS_CardinalityType
  <2>9. Size(t) <= MaxPeers
    BY <2>6, <2>7, <2>8, PoolAssumption DEF Size, Linked
  <2>10. t \in Within(n)
    BY <2>3, <2>4, <2>7, <2>9 DEF Within
  <2> QED BY <2>10 DEF t, l
<1>4. ASSUME HasLink(s, p, w.id), NEW type \in {"offer", "answer"}
      PROVE  /\ [type |-> type, id |-> w.id] \in Signal
             /\ Spoken(n, p, [type |-> type, id |-> w.id])
  BY <1>1, <1>4 DEF Spoken, HasLink, Pool, Signal
<1>5. Dropped(s, p) \in Within(n)
  BY <1>1, DroppedWithin
<1>6. ASSUME HasLink(s, p, w.id)
      PROVE  /\ Sending([s EXCEPT !.peers[p].stage = "offered"], p, "offer", w.id) \in Within(n)
             /\ Sending([s EXCEPT !.peers[p].stage = "answered"], p, "answer", w.id) \in Within(n)
             /\ [s EXCEPT !.peers[p].stage = "accepted"] \in Within(n)
  BY <1>1, <1>3, <1>4, <1>6, SendingWithin
<1>7. Current(n, s, w) => HasLink(s, p, w.id)
  BY DEF Current, p
<1> QED BY <1>5, <1>6, <1>7 DEF Continued, p

-------------------------------------------------------------------------------
(* The invariant.                                                           *)

PartsInv ==
  /\ peers \in [Participants -> [Participants -> Link \cup {None}]]
  /\ chains \in [Participants -> [Participants -> Seq(Signal)]]
  /\ works \in [Participants -> SUBSET Work]
  /\ \A n \in Participants : IsFiniteSet(Linked(Pool(n))) /\ Size(Pool(n)) <= MaxPeers

Queues == [Participants -> [Participants -> Seq(Signal)]]

\* Each socket of a pool, and each lack of one, is of a fault of its own.
FaultsInv ==
  /\ PoolTyped
  /\ faults \in 0 .. MaxFaults
  /\ \A n \in Participants : pool[n].generation + (IF pool[n].online THEN 0 ELSE 1) <= faults

PoolInv == PartsInv /\ wire \in Queues /\ FaultsInv

\* The step of OnlyCurrentSpeaks.
Speaks ==
  \A n, p \in Participants :
    Len(wire'[n][p]) > Len(wire[n][p]) /\ Last(wire'[n][p]).type \in {"offer", "answer"}
      => \E l \in {peers[n][p], peers'[n][p]} \ {None} : l.id = Last(wire'[n][p]).id

LEMMA PoolWithin ==
  ASSUME PartsInv, NEW n \in Participants
  PROVE  Pool(n) \in Within(n) /\ Pool(n).peers = peers[n] /\ Pool(n).works = works[n]
<1>1. peers[n] \in [Participants -> Link \cup {None}] /\ chains[n] \in [Participants -> Seq(Signal)]
      /\ works[n] \in SUBSET Work
  BY DEF PartsInv
<1>2. [p \in Participants |-> <<>>] \in [Participants -> Seq(Signal)]
  OBVIOUS
<1>3. Pool(n) \in Parts
  BY <1>1, <1>2 DEF Parts, Pool
<1>4. Pool(n).sends = [p \in Participants |-> <<>>] /\ Pool(n).peers = peers[n] /\ Pool(n).works = works[n]
  BY DEF Pool
<1>5. IsFiniteSet(Linked(Pool(n))) /\ Size(Pool(n)) <= MaxPeers
  BY DEF PartsInv
<1> HIDE DEF PartsInv
<1>6. \A q \in Participants : Len(Pool(n).sends[q]) = 0
  BY <1>4
<1>7. \A q \in Participants : \A i \in 1 .. Len(Pool(n).sends[q]) : Spoken(n, q, Pool(n).sends[q][i])
  BY <1>6
<1> QED BY <1>3, <1>4, <1>5, <1>7 DEF Within

\* A step of a pool keeps the types of its parts, and its capacity.
LEMMA BecomesOK ==
  ASSUME PartsInv, NEW n \in Participants, NEW s \in Within(n), Becomes(n, s)
  PROVE  PartsInv' /\ peers' = [peers EXCEPT ![n] = s.peers]
<1>1. s \in Parts /\ IsFiniteSet(Linked(s)) /\ Size(s) <= MaxPeers
  BY DEF Within
<1>2. /\ s.peers \in [Participants -> Link \cup {None}] /\ s.chains \in [Participants -> Seq(Signal)]
      /\ s.works \in SUBSET Work
  BY <1>1 DEF Parts
<1>3. /\ peers' = [peers EXCEPT ![n] = s.peers] /\ chains' = [chains EXCEPT ![n] = s.chains]
      /\ works' = [works EXCEPT ![n] = s.works]
  BY DEF Becomes
<1>4. /\ peers' \in [Participants -> [Participants -> Link \cup {None}]]
      /\ chains' \in [Participants -> [Participants -> Seq(Signal)]]
      /\ works' \in [Participants -> SUBSET Work]
  BY <1>2, <1>3 DEF PartsInv
<1>5. ASSUME NEW m \in Participants
      PROVE  IsFiniteSet(Linked(Pool(m)))' /\ (Size(Pool(m)) <= MaxPeers)'
  <2> DEFINE of(f) == {p \in Participants : f[p] # None}
  <2>1. Linked(Pool(m)) = of(peers[m]) /\ Size(Pool(m)) = Cardinality(of(peers[m]))
    BY DEF Linked, Size, Pool
  <2>2. Linked(Pool(m))' = of(peers'[m]) /\ Size(Pool(m))' = Cardinality(of(peers'[m]))
    BY DEF Linked, Size, Pool
  <2>3. Linked(s) = of(s.peers) /\ Size(s) = Cardinality(of(s.peers))
    BY DEF Linked, Size
  <2>4. peers'[m] = IF m = n THEN s.peers ELSE peers[m]
    BY <1>3 DEF PartsInv
  <2>5. IsFiniteSet(of(peers[m])) /\ Cardinality(of(peers[m])) <= MaxPeers
    BY <2>1 DEF PartsInv
  <2>6. IsFiniteSet(of(s.peers)) /\ Cardinality(of(s.peers)) <= MaxPeers
    BY <1>1, <2>3
  <2> HIDE DEF of
  <2> QED BY <2>2, <2>4, <2>5, <2>6
<1> QED BY <1>3, <1>4, <1>5 DEF PartsInv

\* What a step of a pool puts on the wire.
LEMMA SentOK ==
  ASSUME PartsInv, wire \in Queues, NEW n \in Participants, NEW s \in Within(n),
         NEW queues \in Queues, Sent(n, s, queues),
         \A a, b \in Participants : Len(queues[a][b]) <= Len(wire[a][b])
  PROVE  wire' \in Queues /\ Speaks
<1>1. s.sends \in [Participants -> Seq(Signal)]
  BY DEF Within, Parts
<1>2. ASSUME NEW q \in Seq(Signal), NEW r \in Seq(Signal)
      PROVE  /\ q \o r \in Seq(Signal) /\ Len(q \o r) = Len(q) + Len(r) /\ Len(q) \in Nat /\ Len(r) \in Nat
             /\ (Len(r) > 0 => Last(q \o r) = r[Len(r)] /\ Len(r) \in 1 .. Len(r))
  BY DEF Last
<1>3. wire' \in Queues /\ \A a \in Participants : a # n => wire'[a] = queues[a]
  <2> DEFINE g == [p \in Participants |->
                     IF pool[n].online /\ pool[p].online /\ ~pool[p].closed
                     THEN queues[n][p] \o s.sends[p] ELSE queues[n][p]]
  <2>1. wire' = [queues EXCEPT ![n] = g]
    BY DEF Sent, Queues
  <2>2. g \in [Participants -> Seq(Signal)]
    BY <1>1, <1>2 DEF Queues
  <2> HIDE DEF g
  <2> QED BY <2>1, <2>2 DEF Queues
<1>4. \A p \in Participants : wire'[n][p] = queues[n][p] \/ wire'[n][p] = queues[n][p] \o s.sends[p]
  BY DEF Sent, Queues
<1>5. ASSUME NEW a \in Participants, NEW p \in Participants,
             Len(wire'[a][p]) > Len(wire[a][p]), Last(wire'[a][p]).type \in {"offer", "answer"}
      PROVE  \E l \in {peers[a][p], peers'[a][p]} \ {None} : l.id = Last(wire'[a][p]).id
  <2>1. /\ Len(wire[a][p]) \in Nat /\ Len(queues[a][p]) \in Nat /\ queues[a][p] \in Seq(Signal)
        /\ Len(queues[a][p]) <= Len(wire[a][p])
    BY DEF Queues
  <2>2. ~(wire'[a][p] = queues[a][p])
    BY <1>5, <2>1
  <2>3. a = n
    BY <1>3, <2>2
  <2> DEFINE r == s.sends[p]
  <2>4. wire'[a][p] = queues[a][p] \o r
    BY <1>4, <2>2, <2>3
  <2>5. r \in Seq(Signal)
    BY <1>1
  <2> HIDE DEF r
  <2>6. /\ Len(wire'[a][p]) = Len(queues[a][p]) + Len(r) /\ Len(r) \in Nat
        /\ Len(r) > 0 => Last(wire'[a][p]) = r[Len(r)] /\ Len(r) \in 1 .. Len(r)
    BY <1>2, <2>1, <2>4, <2>5, Zenon
  <2>7. Len(r) > 0
    BY <1>5, <2>1, <2>6
  <2>8. Spoken(n, p, r[Len(r)])
    BY <2>6, <2>7 DEF Within, r
  <2>9. HasLink(Pool(n), p, Last(wire'[a][p]).id)
    BY <1>5, <2>6, <2>7, <2>8 DEF Spoken
  <2>10. peers[a][p] # None /\ peers[a][p].id = Last(wire'[a][p]).id
    BY <2>3, <2>9 DEF HasLink, Pool
  <2> QED BY <2>10
<1> QED BY <1>3, <1>5 DEF Speaks

\* Nothing said.
LEMMA Silent ==
  ASSUME wire \in Queues, wire' \in Queues,
         \A a, b \in Participants : wire'[a][b] = wire[a][b] \/ wire'[a][b] = <<>>
  PROVE  Speaks
<1>1. \A a, b \in Participants : Len(wire[a][b]) \in Nat /\ Len(wire'[a][b]) \in Nat
  BY DEF Queues
<1>2. \A a, b \in Participants : ~(Len(wire'[a][b]) > Len(wire[a][b]))
  BY <1>1
<1> QED BY <1>2 DEF Speaks

\* A recipient that forgets what was on its way to it.
LEMMA Emptied ==
  ASSUME wire \in Queues, NEW n \in Participants,
         wire' = [p \in Participants |-> [wire[p] EXCEPT ![n] = <<>>]]
  PROVE  wire' \in Queues /\ Speaks
<1>1. \A p \in Participants : wire[p] \in [Participants -> Seq(Signal)]
  BY DEF Queues
<1>2. <<>> \in Seq(Signal)
  OBVIOUS
<1>3. wire' \in Queues
  BY <1>1, <1>2 DEF Queues
<1>4. \A a, b \in Participants : wire'[a][b] = wire[a][b] \/ wire'[a][b] = <<>>
  BY <1>1
<1> QED BY <1>3, <1>4, Silent

\* A step that leaves the pools' sockets and the faults alone.
LEMMA FaultsKept ==
  ASSUME FaultsInv, pool' = pool, faults' = faults
  PROVE  FaultsInv'
BY DEF FaultsInv, PoolTyped

LEMMA FaultsCounted ==
  ASSUME FaultsInv, pool' = pool, faults < MaxFaults, faults' = faults + 1
  PROVE  FaultsInv'
<1>1. \A n \in Participants : pool[n].generation \in 0 .. MaxFaults
  BY DEF FaultsInv, PoolTyped
<1> QED BY <1>1, PoolAssumption DEF FaultsInv, PoolTyped

\* A pool that is closed, one that loses its socket, and one that has another.
LEMMA SocketChanged ==
  ASSUME NEW y \in [closed : BOOLEAN, generation : 0 .. MaxFaults, online : BOOLEAN]
  PROVE  /\ y.generation \in Nat
         /\ LET x == [y EXCEPT !.online = FALSE]
            IN /\ x \in [closed : BOOLEAN, generation : Nat, online : BOOLEAN]
               /\ x.generation = y.generation /\ x.online = FALSE
         /\ LET x == [y EXCEPT !.closed = TRUE, !.generation = @ + 1]
            IN /\ x \in [closed : BOOLEAN, generation : Nat, online : BOOLEAN]
               /\ x.generation = y.generation + 1 /\ x.online = y.online
         /\ LET x == [y EXCEPT !.online = TRUE, !.generation = @ + 1]
            IN /\ x \in [closed : BOOLEAN, generation : Nat, online : BOOLEAN]
               /\ x.generation = y.generation + 1 /\ x.online = TRUE
<1>1. y.generation \in Nat /\ y.generation + 1 \in Nat
  BY PoolAssumption
<1> QED BY <1>1

\* A link that reaches another stage.
LEMMA StageReached ==
  ASSUME NEW l \in Link
  PROVE  \A stage \in {"offered", "accepted", "answered", "ready"} : [l EXCEPT !.stage = stage] \in Link
BY DEF Link

\* A socket lost, another taken, or a pool closed.
LEMMA SocketCounted ==
  ASSUME FaultsInv, NEW n \in Participants,
         NEW x \in [closed : BOOLEAN, generation : Nat, online : BOOLEAN], pool' = [pool EXCEPT ![n] = x],
         faults' \in 0 .. MaxFaults, faults <= faults',
         x.generation + (IF x.online THEN 0 ELSE 1) <= faults'
  PROVE  FaultsInv'
<1>1. pool \in [Participants -> [closed : BOOLEAN, generation : 0 .. MaxFaults, online : BOOLEAN]]
  BY DEF FaultsInv, PoolTyped
<1>2. x.generation \in 0 .. MaxFaults
  <2>1. x.generation \in Nat /\ faults' <= MaxFaults /\ faults' \in Nat
    OBVIOUS
  <2> QED BY <2>1, PoolAssumption
<1>3. x \in [closed : BOOLEAN, generation : 0 .. MaxFaults, online : BOOLEAN]
  BY <1>2
<1>4. PoolTyped'
  BY <1>1, <1>3 DEF PoolTyped
<1>5. ASSUME NEW m \in Participants
      PROVE  pool'[m].generation + (IF pool'[m].online THEN 0 ELSE 1) <= faults'
  <2>1. pool'[m] = IF m = n THEN x ELSE pool[m]
    BY <1>1
  <2>2. pool[m].generation \in Nat /\ pool[m].generation + (IF pool[m].online THEN 0 ELSE 1) <= faults
    BY <1>1, PoolAssumption DEF FaultsInv
  <2>3. faults \in Nat /\ faults' \in Nat
    BY PoolAssumption DEF FaultsInv
  <2> QED BY <2>1, <2>2, <2>3
<1> QED BY <1>4, <1>5 DEF FaultsInv

-------------------------------------------------------------------------------
(* The actions.                                                             *)

LEMMA InvInit == Init => PoolInv
<1> SUFFICES ASSUME Init PROVE PoolInv
  OBVIOUS
<1>1. wire \in Queues
  BY DEF Init, Queues
<1>2. FaultsInv
  BY PoolAssumption DEF Init, FaultsInv, PoolTyped
<1>3. \A n \in Participants : Linked(Pool(n)) = {} /\ Size(Pool(n)) = Cardinality({})
  BY DEF Init, Pool, Linked, Size
<1>4. PartsInv
  <2>1. IsFiniteSet({}) /\ Cardinality({}) = 0
    BY FS_EmptySet
  <2>2. \A n \in Participants : IsFiniteSet(Linked(Pool(n))) /\ Size(Pool(n)) <= MaxPeers
    BY <1>3, <2>1, PoolAssumption
  <2> QED BY <2>2 DEF Init, PartsInv
<1> QED BY <1>1, <1>2, <1>4 DEF PoolInv

LEMMA DialStep ==
  ASSUME PoolInv, NEW n \in Participants, NEW p \in Participants, Dial(n, p)
  PROVE  PoolInv' /\ Speaks
<1> DEFINE l(id) == [id |-> id, initiatedLocally |-> TRUE, stage |-> "offering"]
<1>1. PICK id \in Ids : Becomes(n, Begin(n, [Pool(n) EXCEPT !.peers[p] = l(id)], p, id, "offer"))
  BY DEF Dial
<1> DEFINE t == [Pool(n) EXCEPT !.peers[p] = l(id)]
<1>2. HasCapacity(Pool(n)) /\ pool' = pool /\ faults' = faults /\ wire' = wire
  BY DEF Dial
<1>3. PartsInv /\ PoolTyped /\ wire \in Queues /\ FaultsInv
  BY DEF PoolInv, FaultsInv
<1>4. Pool(n) \in Within(n) /\ Pool(n) \in Parts /\ IsFiniteSet(Linked(Pool(n)))
  BY <1>3, PoolWithin DEF Within
<1>5. l(id) \in Link
  BY DEF Link
<1> HIDE DEF l
<1>6. t \in Parts
  BY <1>4, <1>5, PartsChanged
<1>7. t.peers = [Pool(n).peers EXCEPT ![p] = l(id)] /\ t.sends = Pool(n).sends
  BY <1>4 DEF Parts
<1>8. Becomes(n, Begin(n, t, p, id, "offer"))
  BY <1>1
<1> HIDE DEF t
<1>9. IsFiniteSet(Linked(t)) /\ Size(t) <= MaxPeers
  BY <1>2, <1>4, <1>7, OneMore
<1>10. t \in Within(n)
  BY <1>4, <1>6, <1>7, <1>9 DEF Within
<1>11. Begin(n, t, p, id, "offer") \in Within(n)
  BY <1>3, <1>10, BeginWithin
<1>12. PartsInv'
  BY <1>3, <1>8, <1>11, BecomesOK
<1>13. wire' \in Queues /\ Speaks
  BY <1>2, <1>3, Silent
<1> QED BY <1>2, <1>3, <1>12, <1>13, FaultsKept DEF PoolInv

LEMMA DisconnectStep ==
  ASSUME PoolInv, NEW n \in Participants, NEW p \in Participants, Disconnect(n, p)
  PROVE  PoolInv' /\ Speaks
<1> DEFINE s == Sending(Dropped(Pool(n), p), p, "close", peers[n][p].id)
<1>1. /\ peers[n][p] # None /\ faults < MaxFaults /\ faults' = faults + 1 /\ pool' = pool
      /\ Becomes(n, s) /\ Sent(n, s, wire)
  BY DEF Disconnect
<1>2. PartsInv /\ PoolTyped /\ wire \in Queues /\ FaultsInv
  BY DEF PoolInv, FaultsInv
<1>3. peers[n][p].id \in Ids
  BY <1>1, <1>2 DEF PartsInv, Link
<1>4. Dropped(Pool(n), p) \in Within(n)
  BY <1>2, PoolWithin, DroppedWithin
<1>5. s \in Within(n)
  BY <1>3, <1>4, RejectionWithin
<1> HIDE DEF s
<1>6. PartsInv'
  BY <1>1, <1>2, <1>5, BecomesOK
<1>7. \A a, b \in Participants : Len(wire[a][b]) <= Len(wire[a][b])
  BY <1>2 DEF Queues
<1>8. wire' \in Queues /\ Speaks
  BY <1>1, <1>2, <1>5, <1>7, SentOK
<1> QED BY <1>1, <1>2, <1>6, <1>8, FaultsCounted DEF PoolInv

LEMMA DeliverStep ==
  ASSUME PoolInv, NEW n \in Participants, NEW p \in Participants, Deliver(n, p)
  PROVE  PoolInv' /\ Speaks
<1> DEFINE signal == Head(wire[p][n])
           c == Append(Pool(n).chains[p], signal)
           u == [Pool(n) EXCEPT !.chains[p] = c]
           s == IF p \notin roster[n] THEN Pool(n)
                ELSE IF signal.type \in {"collision", "capacity", "close"}
                THEN IF HasLink(Pool(n), p, signal.id) THEN Dropped(Pool(n), p) ELSE Pool(n)
                ELSE Chained(n, u, p)
           queues == [wire EXCEPT ![p][n] = Tail(@)]
<1>1. /\ wire[p][n] # <<>> /\ Becomes(n, s) /\ Sent(n, s, queues)
      /\ pool' = pool /\ faults' = faults
  BY DEF Deliver
<1>2. PartsInv /\ PoolTyped /\ wire \in Queues /\ FaultsInv
  BY DEF PoolInv, FaultsInv
<1>3. wire[p][n] \in Seq(Signal)
  BY <1>2 DEF Queues
<1>4. signal \in Signal /\ Tail(wire[p][n]) \in Seq(Signal) /\ Len(Tail(wire[p][n])) = Len(wire[p][n]) - 1
  BY <1>1, <1>3
<1>5. Pool(n) \in Within(n) /\ Pool(n) \in Parts /\ Pool(n).chains[p] \in Seq(Signal)
  BY <1>2, PoolWithin DEF Within, Parts
<1> HIDE DEF signal
<1>6. c \in Seq(Signal)
  BY <1>4, <1>5
<1> HIDE DEF c
<1>7. u \in Parts /\ u.peers = Pool(n).peers /\ u.sends = Pool(n).sends
  BY <1>5, <1>6, PartsChanged DEF Parts
<1> HIDE DEF u
<1>8. Chained(n, u, p) \in Within(n) /\ Dropped(Pool(n), p) \in Within(n)
  BY <1>2, <1>5, <1>7, WithinKept, ChainWithin, DroppedWithin
<1>9. s \in Within(n)
  BY <1>5, <1>8
<1> HIDE DEF s
<1>10. queues \in Queues /\ \A a, b \in Participants : Len(queues[a][b]) <= Len(wire[a][b])
  <2>1. \A a, b \in Participants : queues[a][b] = IF a = p /\ b = n THEN Tail(wire[p][n]) ELSE wire[a][b]
    BY <1>2 DEF Queues
  <2>2. \A a, b \in Participants : Len(wire[a][b]) \in Nat
    BY <1>2 DEF Queues
  <2>3. queues \in Queues
    BY <1>2, <1>4 DEF Queues
  <2> HIDE DEF queues
  <2>4. Len(Tail(wire[p][n])) <= Len(wire[p][n])
    BY <1>4, <2>2
  <2>5. \A a, b \in Participants : Len(wire[a][b]) <= Len(wire[a][b])
    BY <2>2
  <2> QED BY <2>1, <2>3, <2>4, <2>5
<1> HIDE DEF queues
<1>11. PartsInv'
  BY <1>1, <1>2, <1>9, BecomesOK
<1>12. wire' \in Queues /\ Speaks
  BY <1>1, <1>2, <1>9, <1>10, SentOK
<1> QED BY <1>1, <1>2, <1>11, <1>12, FaultsKept DEF PoolInv

LEMMA ContinueStep ==
  ASSUME PoolInv, NEW n \in Participants, NEW w \in works[n], Continue(n, w)
  PROVE  PoolInv' /\ Speaks
<1> DEFINE u == [Pool(n) EXCEPT !.works = @ \ {w}]
           s == Continued(n, u, w)
           t == IF w.chained THEN Chained(n, s, w.peer) ELSE s
<1>1. Becomes(n, t) /\ Sent(n, t, wire) /\ pool' = pool /\ faults' = faults
  BY DEF Continue, WorkOver, Without
<1>2. PartsInv /\ PoolTyped /\ wire \in Queues /\ FaultsInv
  BY DEF PoolInv, FaultsInv
<1>3. w \in Work /\ w.peer \in Participants
  BY <1>2 DEF PartsInv, Work
<1>4. Pool(n) \in Within(n) /\ Pool(n) \in Parts /\ Pool(n).works \in SUBSET Work /\ Pool(n).peers = peers[n]
  BY <1>2, PoolWithin DEF Within, Parts
<1>5. u \in Parts /\ u.peers = peers[n] /\ u.sends = Pool(n).sends
  BY <1>4, PartsChanged DEF Parts
<1> HIDE DEF u
<1>6. u \in Within(n)
  BY <1>4, <1>5, WithinKept
<1>7. s \in Within(n)
  BY <1>2, <1>3, <1>5, <1>6, ContinuedWithin
<1> HIDE DEF s
<1>8. t \in Within(n)
  BY <1>2, <1>3, <1>7, ChainWithin
<1> HIDE DEF t
<1>9. PartsInv'
  BY <1>1, <1>2, <1>8, BecomesOK
<1>10. \A a, b \in Participants : Len(wire[a][b]) <= Len(wire[a][b])
  BY <1>2 DEF Queues
<1>11. wire' \in Queues /\ Speaks
  BY <1>1, <1>2, <1>8, <1>10, SentOK
<1> QED BY <1>1, <1>2, <1>9, <1>11, FaultsKept DEF PoolInv

\* What a rejection leaves of the pool whose work it was.
Rejected(n, u, w) == IF w.does = "offer" THEN Dropped(u, w.peer) ELSE u

\* It is a step about the peer of the work.
LEMMA RejectedWithin ==
  ASSUME PoolTyped, NEW n \in Participants, NEW w \in Work, NEW s \in Within(n)
  PROVE  LET u == [s EXCEPT !.works = @ \ {w}]
             z == Rejected(n, u, w)
         IN  /\ u \in Within(n) /\ z \in Within(n)
             /\ (IF w.chained THEN Chained(n, z, w.peer) ELSE z) \in Within(n)
<1> DEFINE ws == s.works \ {w}
           u == [s EXCEPT !.works = ws]
           z == Rejected(n, u, w)
<1>1. s \in Parts /\ w.peer \in Participants
  BY DEF Within, Work
<1>2. ws \in SUBSET Work
  BY <1>1 DEF Parts
<1> HIDE DEF ws
<1>3. u \in Parts /\ u.peers = s.peers /\ u.sends = s.sends
  BY <1>1, <1>2, PartsChanged DEF Parts
<1>4. u \in Within(n)
  <2> HIDE DEF u
  <2> QED BY <1>3, WithinKept
<1>5. z \in Within(n)
  <2> HIDE DEF u
  <2> QED BY <1>1, <1>4, DroppedWithin DEF Rejected
<1> HIDE DEF z
<1>6. Chained(n, z, w.peer) \in Within(n)
  BY <1>1, <1>5, ChainWithin
<1> QED BY <1>4, <1>5, <1>6 DEF z, u, ws

LEMMA RejectStep ==
  ASSUME PoolInv, NEW n \in Participants, NEW w \in works[n], Reject(n, w)
  PROVE  PoolInv' /\ Speaks
<1> DEFINE u == [Pool(n) EXCEPT !.works = @ \ {w}]
           s == Rejected(n, u, w)
           t == IF w.chained THEN Chained(n, s, w.peer) ELSE s
<1>1. Becomes(n, t) /\ Sent(n, t, wire) /\ pool' = pool /\ faults < MaxFaults /\ faults' = faults + 1
  BY DEF Reject, WorkOver, Without, Rejected
<1>2. PartsInv /\ PoolTyped /\ wire \in Queues /\ FaultsInv
  BY DEF PoolInv, FaultsInv
<1>3. w \in Work /\ Pool(n) \in Within(n)
  BY <1>2, PoolWithin DEF PartsInv
<1>4. t \in Within(n)
  BY <1>2, <1>3, RejectedWithin
<1> HIDE DEF t
<1>5. PartsInv'
  BY <1>1, <1>2, <1>4, BecomesOK
<1>6. \A a, b \in Participants : Len(wire[a][b]) <= Len(wire[a][b])
  BY <1>2 DEF Queues
<1>7. wire' \in Queues /\ Speaks
  BY <1>1, <1>2, <1>4, <1>6, SentOK
<1> QED BY <1>1, <1>2, <1>5, <1>7, FaultsCounted DEF PoolInv

\* A step of the sessions alone.
LEMMA ListedStep ==
  ASSUME PoolInv, UNCHANGED <<peers, chains, works, pool, wire, faults>>
  PROVE  PoolInv' /\ Speaks
<1>1. PartsInv' /\ FaultsInv'
  BY DEF PoolInv, PartsInv, FaultsInv, PoolTyped, Pool, Linked, Size
<1>2. wire \in Queues /\ wire' \in Queues
  BY DEF PoolInv
<1>3. Speaks
  BY <1>2, Silent
<1> QED BY <1>1, <1>2, <1>3 DEF PoolInv

\* Fewer links in every pool.
LEMMA FewerLinks ==
  ASSUME PartsInv, peers' \in [Participants -> [Participants -> Link \cup {None}]],
         \A n, p \in Participants : peers[n][p] = None => peers'[n][p] = None,
         chains' \in [Participants -> [Participants -> Seq(Signal)]],
         works' \in [Participants -> SUBSET Work]
  PROVE  PartsInv'
<1>1. ASSUME NEW n \in Participants
      PROVE  IsFiniteSet(Linked(Pool(n)))' /\ (Size(Pool(n)) <= MaxPeers)'
  <2> DEFINE of(f) == {p \in Participants : f[p] # None}
  <2>1. Linked(Pool(n)) = of(peers[n]) /\ Size(Pool(n)) = Cardinality(of(peers[n]))
    BY DEF Linked, Size, Pool
  <2>2. Linked(Pool(n))' = of(peers'[n]) /\ Size(Pool(n))' = Cardinality(of(peers'[n]))
    BY DEF Linked, Size, Pool
  <2>3. IsFiniteSet(of(peers[n])) /\ Cardinality(of(peers[n])) <= MaxPeers
    BY <2>1 DEF PartsInv
  <2>4. of(peers'[n]) \subseteq of(peers[n])
    OBVIOUS
  <2> HIDE DEF of
  <2>5. IsFiniteSet(of(peers'[n])) /\ Cardinality(of(peers'[n])) <= Cardinality(of(peers[n]))
    BY <2>3, <2>4, FS_Subset
  <2>6. Cardinality(of(peers'[n])) \in Nat /\ Cardinality(of(peers[n])) \in Nat
    BY <2>3, <2>5, FS_CardinalityType
  <2>7. Cardinality(of(peers'[n])) <= MaxPeers
    BY <2>3, <2>5, <2>6, PoolAssumption
  <2> QED BY <2>2, <2>5, <2>7
<1> QED BY <1>1 DEF PartsInv

LEMMA ReadyStep ==
  ASSUME PoolInv, NEW n \in Participants, NEW p \in Participants, Ready(n, p)
  PROVE  PoolInv' /\ Speaks
<1> DEFINE l == [peers[n][p] EXCEPT !.stage = "ready"]
<1>1. /\ peers[n][p] # None /\ peers' = [peers EXCEPT ![n][p] = l]
      /\ chains' = chains /\ works' = works /\ pool' = pool /\ wire' = wire /\ faults' = faults
  BY DEF Ready, Joined
<1>2. PartsInv /\ wire \in Queues /\ FaultsInv
  BY DEF PoolInv
<1>3. l \in Link
  <2>1. peers[n][p] \in Link
    BY <1>1, <1>2 DEF PartsInv
  <2> QED BY <2>1, StageReached
<1> HIDE DEF l
<1>4. peers' \in [Participants -> [Participants -> Link \cup {None}]]
  BY <1>1, <1>2, <1>3 DEF PartsInv
<1>5. \A a, b \in Participants : peers[a][b] = None => peers'[a][b] = None
  BY <1>1, <1>2 DEF PartsInv
<1>6. PartsInv'
  BY <1>1, <1>2, <1>4, <1>5, FewerLinks DEF PartsInv
<1>7. wire' \in Queues /\ Speaks
  BY <1>1, <1>2, Silent
<1> QED BY <1>1, <1>2, <1>6, <1>7, FaultsKept DEF PoolInv

LEMMA LinkGoneStep ==
  ASSUME PoolInv, NEW n \in Participants, NEW p \in Participants, LinkGone(n, p)
  PROVE  PartsInv' /\ wire' \in Queues /\ Speaks /\ pool' = pool
<1>1. Becomes(n, Dropped(Pool(n), p)) /\ pool' = pool /\ wire' = wire
  BY DEF LinkGone
<1>2. PartsInv /\ wire \in Queues
  BY DEF PoolInv
<1>3. Dropped(Pool(n), p) \in Within(n)
  BY <1>2, PoolWithin, DroppedWithin
<1>4. PartsInv'
  BY <1>1, <1>2, <1>3, BecomesOK
<1> QED BY <1>1, <1>2, <1>4, Silent

LEMMA SignalingLostStep ==
  ASSUME PoolInv, NEW n \in Participants, SignalingLost(n)
  PROVE  PoolInv' /\ Speaks
<1> DEFINE x == [pool[n] EXCEPT !.online = FALSE]
<1>1. /\ pool[n].online /\ faults < MaxFaults /\ pool' = [pool EXCEPT ![n] = x] /\ faults' = faults + 1
      /\ wire' = [p \in Participants |-> [wire[p] EXCEPT ![n] = <<>>]]
      /\ peers' = peers /\ chains' = chains /\ works' = works
  BY DEF SignalingLost
<1>2. PartsInv /\ wire \in Queues /\ FaultsInv
  BY DEF PoolInv
<1>3. /\ pool[n] \in [closed : BOOLEAN, generation : 0 .. MaxFaults, online : BOOLEAN]
      /\ pool[n].generation + 0 <= faults /\ faults \in Nat
  BY <1>1, <1>2, PoolAssumption DEF FaultsInv, PoolTyped
<1>4. /\ x \in [closed : BOOLEAN, generation : Nat, online : BOOLEAN]
      /\ x.generation = pool[n].generation /\ x.online = FALSE
  BY <1>3, SocketChanged
<1>5. pool[n].generation \in Nat
  BY <1>3
<1> HIDE DEF x
<1>6. faults' \in 0 .. MaxFaults /\ faults <= faults' /\ x.generation + (IF x.online THEN 0 ELSE 1) <= faults'
  BY <1>1, <1>3, <1>4, <1>5, PoolAssumption
<1>7. FaultsInv'
  BY <1>1, <1>2, <1>4, <1>6, SocketCounted
<1>8. PartsInv'
  BY <1>1, <1>2, FewerLinks DEF PartsInv
<1>9. wire' \in Queues /\ Speaks
  BY <1>1, <1>2, Emptied
<1> QED BY <1>7, <1>8, <1>9 DEF PoolInv

LEMMA ClosePoolStep ==
  ASSUME PoolInv, NEW n \in Participants, ClosePool(n)
  PROVE  PoolInv' /\ Speaks
<1> DEFINE x == [pool[n] EXCEPT !.closed = TRUE, !.generation = @ + 1]
           none == [p \in Participants |-> None]
           empty == [p \in Participants |-> <<>>]
           ws == {[w EXCEPT !.chained = FALSE] : w \in works[n]}
<1>1. /\ faults < MaxFaults /\ faults' = faults + 1
      /\ wire' = [p \in Participants |-> [wire[p] EXCEPT ![n] = <<>>]]
  BY DEF ClosePool
<1>2. PartsInv /\ wire \in Queues /\ FaultsInv
  BY DEF PoolInv
<1>3. pool' = [pool EXCEPT ![n] = x]
  BY <1>2 DEF ClosePool, FaultsInv, PoolTyped
<1>4. /\ pool[n] \in [closed : BOOLEAN, generation : 0 .. MaxFaults, online : BOOLEAN]
      /\ pool[n].generation + (IF pool[n].online THEN 0 ELSE 1) <= faults /\ faults \in Nat
  BY <1>2, PoolAssumption DEF FaultsInv, PoolTyped
<1>5. pool[n].generation \in Nat
  BY <1>4
<1>6. /\ x \in [closed : BOOLEAN, generation : Nat, online : BOOLEAN]
      /\ x.generation = pool[n].generation + 1 /\ x.online = pool[n].online
  BY <1>4, SocketChanged
<1> HIDE DEF x
<1>7. faults' \in 0 .. MaxFaults /\ faults <= faults' /\ x.generation + (IF x.online THEN 0 ELSE 1) <= faults'
  BY <1>1, <1>4, <1>5, <1>6, PoolAssumption
<1>8. FaultsInv'
  BY <1>2, <1>3, <1>6, <1>7, SocketCounted
<1>9. peers' = [peers EXCEPT ![n] = none] /\ chains' = [chains EXCEPT ![n] = empty] /\ works' = [works EXCEPT ![n] = ws]
  BY DEF ClosePool, Becomes, Pool
<1>10. /\ none \in [Participants -> Link \cup {None}] /\ empty \in [Participants -> Seq(Signal)]
       /\ ws \in SUBSET Work /\ \A p \in Participants : none[p] = None
  <2>1. works[n] \in SUBSET Work
    BY <1>2 DEF PartsInv
  <2>2. ws \in SUBSET Work
    BY <2>1, UnheardWork
  <2> QED BY <2>2
<1> HIDE DEF none, empty, ws
<1>11. PartsInv'
  BY <1>2, <1>9, <1>10, FewerLinks DEF PartsInv
<1>12. wire' \in Queues /\ Speaks
  BY <1>1, <1>2, Emptied
<1> QED BY <1>8, <1>11, <1>12 DEF PoolInv

LEMMA RebindStep ==
  ASSUME PoolInv, NEW n \in Participants, Rebind(n)
  PROVE  PoolInv' /\ Speaks
<1> DEFINE x == [pool[n] EXCEPT !.online = TRUE, !.generation = @ + 1]
           left == [p \in Participants |->
                      IF peers[n][p] # None /\ peers[n][p].stage = "ready" THEN peers[n][p] ELSE None]
           empty == [p \in Participants |-> <<>>]
           ws == {[w EXCEPT !.chained = FALSE] : w \in works[n]}
<1>1. ~pool[n].online /\ faults' = faults /\ wire' = wire
  BY DEF Rebind
<1>2. PartsInv /\ wire \in Queues /\ FaultsInv
  BY DEF PoolInv
<1>3. pool' = [pool EXCEPT ![n] = x]
  BY <1>2 DEF Rebind, FaultsInv, PoolTyped
<1>4. /\ pool[n] \in [closed : BOOLEAN, generation : 0 .. MaxFaults, online : BOOLEAN]
      /\ pool[n].generation + 1 <= faults /\ faults \in 0 .. MaxFaults
  BY <1>1, <1>2, PoolAssumption DEF FaultsInv, PoolTyped
<1>5. pool[n].generation \in Nat
  BY <1>4
<1>6. /\ x \in [closed : BOOLEAN, generation : Nat, online : BOOLEAN]
      /\ x.generation = pool[n].generation + 1 /\ x.online = TRUE
  BY <1>4, SocketChanged
<1> HIDE DEF x
<1>7. faults' \in 0 .. MaxFaults /\ faults <= faults' /\ x.generation + (IF x.online THEN 0 ELSE 1) <= faults'
  BY <1>1, <1>4, <1>5, <1>6, PoolAssumption
<1>8. FaultsInv'
  BY <1>2, <1>3, <1>6, <1>7, SocketCounted
<1>9. peers' = [peers EXCEPT ![n] = left] /\ chains' = [chains EXCEPT ![n] = empty] /\ works' = [works EXCEPT ![n] = ws]
  BY DEF Rebind, Becomes, Pool
<1>10. /\ left \in [Participants -> Link \cup {None}] /\ empty \in [Participants -> Seq(Signal)]
       /\ ws \in SUBSET Work /\ \A p \in Participants : peers[n][p] = None => left[p] = None
  <2>1. works[n] \in SUBSET Work
    BY <1>2 DEF PartsInv
  <2>2. ws \in SUBSET Work
    BY <2>1, UnheardWork
  <2>3. left \in [Participants -> Link \cup {None}]
    BY <1>2 DEF PartsInv
  <2> QED BY <2>2, <2>3
<1> HIDE DEF left, empty, ws
<1>11. PartsInv'
  BY <1>2, <1>9, <1>10, FewerLinks DEF PartsInv
<1>12. wire' \in Queues /\ Speaks
  BY <1>1, <1>2, Silent
<1> QED BY <1>8, <1>11, <1>12 DEF PoolInv

-------------------------------------------------------------------------------
(* The theorems.                                                            *)

LEMMA InvStep == PoolInv /\ [PoolNext]_vars => PoolInv' /\ [Speaks]_vars
<1> SUFFICES ASSUME PoolInv, [PoolNext]_vars PROVE PoolInv' /\ [Speaks]_vars
  OBVIOUS
<1>1. CASE UNCHANGED vars
  <2>1. PoolInv'
    BY <1>1 DEF vars, PoolInv, PartsInv, FaultsInv, PoolTyped, Pool, Linked, Size
  <2> QED BY <1>1, <2>1
<1>2. ASSUME NEW n \in Participants, ClosePool(n) PROVE PoolInv' /\ Speaks
  BY <1>2, ClosePoolStep
<1>3. ASSUME NEW n \in Participants, SignalingLost(n) PROVE PoolInv' /\ Speaks
  BY <1>3, SignalingLostStep
<1>4. ASSUME NEW n \in Participants, Rebind(n) PROVE PoolInv' /\ Speaks
  BY <1>4, RebindStep
<1>5. ASSUME NEW n \in Participants, NEW w \in works[n], Continue(n, w) \/ Reject(n, w)
      PROVE  PoolInv' /\ Speaks
  BY <1>5, ContinueStep, RejectStep
<1>6. ASSUME NEW n \in Participants, NEW p \in Participants,
             Dial(n, p) \/ Disconnect(n, p) \/ Deliver(n, p) \/ Ready(n, p)
      PROVE  PoolInv' /\ Speaks
  BY <1>6, DialStep, DisconnectStep, DeliverStep, ReadyStep
<1>7. ASSUME NEW n \in Participants, NEW p \in Participants, Failed(n, p) PROVE PoolInv' /\ Speaks
  <2>1. LinkGone(n, p) /\ faults' = faults /\ FaultsInv
    BY <1>7 DEF Failed, PoolInv
  <2>2. PartsInv' /\ wire' \in Queues /\ Speaks /\ pool' = pool
    BY <2>1, LinkGoneStep
  <2> QED BY <2>1, <2>2, FaultsKept DEF PoolInv
<1>8. ASSUME NEW n \in Participants, NEW p \in Participants, LinkLost(n, p) \/ ParticipantDisconnected(n, p)
      PROVE  PoolInv' /\ Speaks
  <2>1. LinkGone(n, p) /\ faults < MaxFaults /\ faults' = faults + 1 /\ FaultsInv
    BY <1>8 DEF LinkLost, ParticipantDisconnected, PoolInv
  <2>2. PartsInv' /\ wire' \in Queues /\ Speaks /\ pool' = pool
    BY <2>1, LinkGoneStep
  <2> QED BY <2>1, <2>2, FaultsCounted DEF PoolInv
<1>9. ASSUME NEW n \in Participants, NEW p \in Participants, ParticipantConnected(n, p) PROVE PoolInv' /\ Speaks
  BY <1>9, ListedStep DEF ParticipantConnected
<1> QED BY <1>1, <1>2, <1>3, <1>4, <1>5, <1>6, <1>7, <1>8, <1>9 DEF PoolNext

\* What the pools are made of, and what their sockets count, is kept by every
\* step: the inductive invariant of the two theorems below.
THEOREM PoolInvariant == PoolSpec => []PoolInv
<1>1. PoolInv /\ [PoolNext]_vars => PoolInv'
  BY InvStep
<1> QED BY InvInit, <1>1, PTL DEF PoolSpec

\* Who is not on a session's list is of a pair that was disturbed.
RosterInv ==
  /\ roster \in [Participants -> SUBSET Participants]
  /\ \A n \in Participants : n \notin roster[n]
  /\ \A n, p \in Participants : p \notin roster[n] => p = n \/ Pair(n, p) \in disturbed

\* A step that leaves the lists alone.
LEMMA RosterKept ==
  ASSUME RosterInv, roster' = roster, disturbed \subseteq disturbed'
  PROVE  RosterInv'
BY DEF RosterInv, Pair

LEMMA RosterStep == RosterInv /\ [PoolNext]_vars => RosterInv'
<1> SUFFICES ASSUME RosterInv, [PoolNext]_vars PROVE RosterInv'
  OBVIOUS
<1>1. CASE UNCHANGED vars
  BY <1>1, RosterKept DEF vars
<1>2. ASSUME NEW n \in Participants, ClosePool(n) \/ SignalingLost(n) PROVE RosterInv'
  <2>1. roster' = roster /\ disturbed \subseteq disturbed'
    BY <1>2 DEF ClosePool, SignalingLost
  <2> QED BY <2>1, RosterKept
<1>3. ASSUME NEW n \in Participants, Rebind(n) PROVE RosterInv'
  <2>1. PICK absent \in SUBSET Participants :
          /\ roster' = [roster EXCEPT ![n] = Participants \ ({n} \cup absent)]
          /\ disturbed' = disturbed \cup {Pair(n, p) : p \in absent}
    BY <1>3 DEF Rebind
  <2>2. roster' \in [Participants -> SUBSET Participants]
    BY <2>1 DEF RosterInv
  <2>3. ASSUME NEW a \in Participants, NEW p \in Participants, p \notin roster'[a]
        PROVE  p = a \/ Pair(a, p) \in disturbed'
    <3>1. CASE a = n
      <4>1. p = n \/ p \in absent
        BY <2>1, <2>3, <3>1 DEF RosterInv
      <4> QED BY <2>1, <3>1, <4>1
    <3>2. CASE a # n
      <4>1. p \notin roster[a]
        BY <2>1, <2>3, <3>2 DEF RosterInv
      <4> QED BY <2>1, <4>1 DEF RosterInv
    <3> QED BY <3>1, <3>2
  <2>4. \A a \in Participants : a \notin roster'[a]
    BY <2>1 DEF RosterInv
  <2> QED BY <2>2, <2>3, <2>4 DEF RosterInv, Pair
<1>4. ASSUME NEW n \in Participants, NEW w \in works[n], Continue(n, w) \/ Reject(n, w) PROVE RosterInv'
  <2>1. roster' = roster /\ disturbed \subseteq disturbed'
    BY <1>4 DEF Continue, Reject, WorkOver
  <2> QED BY <2>1, RosterKept
<1>5. ASSUME NEW n \in Participants, NEW p \in Participants,
             \/ Dial(n, p) \/ Disconnect(n, p) \/ Deliver(n, p) \/ Ready(n, p) \/ Failed(n, p) \/ LinkLost(n, p)
      PROVE  RosterInv'
  <2>1. roster' = roster /\ disturbed \subseteq disturbed'
    BY <1>5 DEF Dial, Disconnect, Deliver, Ready, Failed, LinkLost
  <2> QED BY <2>1, RosterKept
<1>6. ASSUME NEW n \in Participants, NEW p \in Participants, ParticipantDisconnected(n, p) PROVE RosterInv'
  <2>1. roster' = [roster EXCEPT ![n] = @ \ {p}] /\ disturbed' = disturbed \cup {Pair(n, p)}
    BY <1>6 DEF ParticipantDisconnected
  <2>2. roster' \in [Participants -> SUBSET Participants]
    BY <2>1 DEF RosterInv
  <2>3. ASSUME NEW a \in Participants, NEW q \in Participants, q \notin roster'[a]
        PROVE  q = a \/ Pair(a, q) \in disturbed'
    <3>1. q \notin roster[a] \/ (a = n /\ q = p)
      BY <2>1, <2>3 DEF RosterInv
    <3> QED BY <2>1, <3>1 DEF RosterInv
  <2>4. \A a \in Participants : a \notin roster'[a]
    BY <2>1 DEF RosterInv
  <2> QED BY <2>2, <2>3, <2>4 DEF RosterInv, Pair
<1>7. ASSUME NEW n \in Participants, NEW p \in Participants, ParticipantConnected(n, p) PROVE RosterInv'
  <2>1. n # p /\ roster' = [roster EXCEPT ![n] = @ \cup {p}] /\ disturbed' = disturbed
    BY <1>7 DEF ParticipantConnected
  <2>2. roster' \in [Participants -> SUBSET Participants]
    BY <2>1 DEF RosterInv
  <2>3. \A a, q \in Participants : q \notin roster'[a] => q \notin roster[a]
    BY <2>1 DEF RosterInv
  <2>4. \A a \in Participants : a \notin roster'[a]
    BY <2>1 DEF RosterInv
  <2> QED BY <2>1, <2>2, <2>3, <2>4 DEF RosterInv, Pair
<1> QED BY <1>1, <1>2, <1>3, <1>4, <1>5, <1>6, <1>7 DEF PoolNext

\* At first each lists all others.
LEMMA RosterInit == Init => RosterInv
BY DEF Init, RosterInv

\* Who a pool does not hear, or does not dial, is of a pair that is known to
\* have been disturbed: no undisturbed pair fails #requireParticipant, or is
\* ignored by #enqueueSignal (content-peer-pool.ts:357-364, 440-447).
THEOREM ListedUnlessDisturbed == PoolSpec => []RosterInv
BY RosterInit, RosterStep, PTL DEF PoolSpec

LEMMA InvTyped == PoolInv /\ RosterInv => PoolTypeOK
<1> SUFFICES ASSUME PoolInv, RosterInv PROVE PoolTypeOK
  OBVIOUS
<1>1. \A q \in Seq(Signal) : ToSet(q) \subseteq Signal
  BY DEF ToSet
<1>2. \A n, p \in Participants : chains[n][p] \in Seq(Signal) /\ wire[n][p] \in Seq(Signal)
  BY DEF PoolInv, PartsInv, Queues
<1>3. \A n, p \in Participants : ToSet(chains[n][p]) \cup ToSet(wire[n][p]) \subseteq Signal
  BY <1>1, <1>2
<1>4. \A n, p \in Participants : peers[n][p] = None \/ peers[n][p] \in Link
  BY DEF PoolInv, PartsInv
<1>5. \A n \in Participants : Size(Pool(n)) <= MaxPeers /\ works[n] \subseteq Work
  BY DEF PoolInv, PartsInv
<1>6. PoolTyped
  BY DEF PoolInv, FaultsInv
<1> QED BY <1>3, <1>4, <1>5, <1>6 DEF PoolTypeOK, PoolTyped, RosterInv

\* Every link, signal and work is of its type, and no pool ever has more
\* links than maxPeers, though links come from dials, from offers that beat a
\* link and from offers that wait in a chain
\* (content-peer-pool.ts:199-222, 482-505).
THEOREM PoolTypeCorrect == PoolSpec => []PoolTypeOK
BY PoolInvariant, ListedUnlessDisturbed, InvTyped, PTL

\* What goes on the wire last is an offer or an answer only for a link the
\* pool had or has: no continuation of a dropped, beaten or rebound link
\* speaks, and no signal of the chain it lets go on does
\* (content-peer-pool.ts:337-341, 507-524).
THEOREM CurrentSpeaks == PoolSpec => OnlyCurrentSpeaks
<1>1. PoolInv /\ [PoolNext]_vars => [Speaks]_vars
  BY InvStep
<1> QED BY PoolInvariant, <1>1, PTL DEF PoolSpec, OnlyCurrentSpeaks, Speaks

-------------------------------------------------------------------------------
(* Two pools that are left alone: what each end of their pair has, says
   and works on, and what that says of the other end. *)

\* One end of a pair: the link of n to p, the signals of n that p has not
\* handled, and the work of n on links to p.
End(n, p) == [link |-> peers[n][p], line |-> chains[p][n] \o wire[n][p],
              works |-> {w \in works[n] : w.peer = p}]

\* The link of an end, by its id and by its stage.
Holds(e, id) == e.link # None /\ e.link.id = id
At(e, stage) == e.link # None /\ e.link.stage = stage

\* What an end said, and what it may say.
Out(e) == ToSet(e.line)
Offer(id) == [type |-> "offer", id |-> id]
Refusals == {"collision", "capacity"}

\* What d has to say for what an end of a holds, says and works on: the
\* dialler offers and accepts, the other answers and refuses.
LinkRole(a, b, e, d) ==
  e.link # None =>
    /\ e.link \in Link
    /\ \/ /\ e.link.initiatedLocally /\ d[e.link.id] = <<a, b>>
          /\ e.link.stage \in {"offering", "offered", "accepted", "ready"}
       \/ /\ ~e.link.initiatedLocally /\ d[e.link.id] = <<b, a>>
          /\ e.link.stage \in {"answering", "answered", "ready"}

SignalRole(a, b, m, d) ==
  /\ m \in Signal
  /\ d[m.id] \in {<<a, b>>, <<b, a>>}
  /\ m.type = "offer" => d[m.id] = <<a, b>>
  /\ m.type \in Refusals \cup {"answer"} => d[m.id] = <<b, a>>

WorkRole(a, b, w, d) ==
  /\ w \in Work /\ w.peer = b /\ w.generation = 0
  /\ w.does \in {"offer", "accept"} => d[w.id] = <<a, b>>
  /\ w.does = "answer" => d[w.id] = <<b, a>>

Roles(a, b, e, d) ==
  /\ LinkRole(a, b, e, d)
  /\ \A m \in Out(e) : SignalRole(a, b, m, d)
  /\ \A w \in e.works : WorkRole(a, b, w, d)

\* The works an end waits for are those its link is in the stage of.
Working(e) ==
  /\ \A w \in e.works : w.chained => Holds(e, w.id) /\ w.does # "offer"
  /\ \A w \in e.works : Holds(e, w.id) =>
       /\ w.does = "offer" => At(e, "offering")
       /\ w.does = "answer" => w.chained /\ At(e, "answering")
       /\ w.does = "accept" => w.chained /\ At(e, "offered")
  /\ At(e, "offering") => \E w \in e.works : w.does = "offer" /\ w.id = e.link.id
  /\ At(e, "answering") => \E w \in e.works : w.does = "answer" /\ w.id = e.link.id

\* Nothing came of the offer id of e, and the answer has not been taken.
Unheeded(e, id) == \A w \in e.works : w.id = id => w.does = "offer"
Unaccepted(e, id) == Unheeded(e, id) /\ (Holds(e, id) => At(e, "offered"))

\* f has not handled the offer id of e.
Fresh(e, f, id) ==
  /\ ~Holds(f, id) /\ Unheeded(e, id)
  /\ \A w \in f.works : w.id # id
  /\ \A m \in Out(f) : m.id # id

\* The life of a dial: one offer, then one answer or refusal, then one taking
\* of the answer.
Life(e, f) ==
  /\ \A m \in Out(e) : m.type = "offer" => Fresh(e, f, m.id) /\ Unaccepted(e, m.id)
  /\ At(e, "offering") => Fresh(e, f, e.link.id) /\ Offer(e.link.id) \notin Out(e)
  /\ At(f, "answering") => /\ Unaccepted(e, f.link.id)
                           /\ \A m \in Out(f) : m.id # f.link.id
  /\ \A m \in Out(f) : m.type = "answer" => Unaccepted(e, m.id)
  /\ \A m \in Out(f) : m.type \in Refusals =>
        /\ Unaccepted(e, m.id) /\ ~Holds(f, m.id)
        /\ \A k \in Out(f) : k.id = m.id => k.type # "answer"
  /\ \A m \in Out(e) : m.type = "close" => ~Holds(e, m.id)

\* The offer, what came of it, or word that nothing will, is under way.
Pending(e, f) ==
  At(e, "offered") =>
    \/ Offer(e.link.id) \in Out(e)
    \/ Holds(f, e.link.id) /\ At(f, "answering")
    \/ \E m \in Out(f) : m.id = e.link.id
    \/ \E w \in e.works : w.does = "accept" /\ w.id = e.link.id

Core(a, b, e, f, d) == Roles(a, b, e, d) /\ Working(e) /\ Life(e, f) /\ Pending(e, f)

\* No signal is said twice.
Distinct(q) == \A k, l \in 1 .. Len(q) : q[k] = q[l] => k = l

\* A close follows an offer only when its link is gone.
Ordered(e) ==
  \A k, l \in 1 .. Len(e.line) :
    k < l /\ e.line[k].type = "offer" /\ e.line[l].type = "close" => ~Holds(e, e.line[k].id)

Lined(e) == e.line \in Seq(Signal) /\ Distinct(e.line) /\ Ordered(e)

Half(a, b, e, f, d) == Core(a, b, e, f, d) /\ Lined(e)

-------------------------------------------------------------------------------
\* The dial of e was refused in favour of another.
Beaten(e, f) == e.link # None /\ [type |-> "collision", id |-> e.link.id] \in Out(f)

\* The dial of e is not answered, nor any other offer of e.
Calling(e, f) ==
  /\ e.link # None => At(e, "offering") \/ (At(e, "offered") /\ (Offer(e.link.id) \in Out(e) \/ Beaten(e, f)))
  /\ \A m \in Out(e) : m.type = "offer" => Holds(e, m.id)
  /\ Beaten(e, f) => f.link # None /\ f.link.id < e.link.id /\ ~Beaten(f, e)

\* The link of e is not refused.
Hopeful(e, f) == e.link # None /\ ~Beaten(e, f)

\* Neither dial has been answered, and not both are refused.
Undecided(a, b, e, f, d) ==
  /\ Calling(e, f) /\ Calling(f, e)
  /\ (\E id \in Ids : d[id] \in {<<a, b>>, <<b, a>>}) => Hopeful(e, f) \/ Hopeful(f, e)

\* Both ends have the dial of e, and only offers it beats are under way.
Won(e, f) ==
  /\ Hopeful(e, f) /\ e.link.initiatedLocally /\ Holds(f, e.link.id)
  /\ \A m \in Out(e) : m.type # "offer"
  /\ \A m \in Out(f) : m.type = "offer" => e.link.id < m.id

\* A pair that no hang-up and no full pool has ended a link of.
Unended(a, b, e, f, d) ==
  /\ \A m \in Out(e) \cup Out(f) : m.type \notin {"capacity", "close"}
  /\ Undecided(a, b, e, f, d) \/ Won(e, f) \/ Won(f, e)

\* A chain waits for work that is in it.
Settled(a, b) == chains[a][b] # <<>> => \E w \in works[a] : w.peer = b /\ w.chained

\* What the ends e of a and f of b have to do with each other; x says that a
\* link of theirs was ended.
PairOK(a, b, e, f, d, x) ==
  /\ Half(a, b, e, f, d) /\ Half(b, a, f, e, d)
  /\ x \/ Unended(a, b, e, f, d)

\* Two pools that are left alone.
PairHolds(a, b) ==
  /\ ~pool[a].closed /\ pool[a].online /\ pool[a].generation = 0
  /\ Settled(a, b)
  /\ \A m \in ToSet(chains[a][b]) : m.type \in {"offer", "answer"}
  /\ PairOK(a, b, End(a, b), End(b, a), drawn, Pair(a, b) \in ended)

\* No lost signal, lost link or offer lost from a chain stands between two
\* pools whose pair is not in disturbed.
PairInv == \A a, b \in Participants : a # b /\ Pair(a, b) \notin disturbed => PairHolds(a, b)

\* No pool has a link to itself.
SelfInv == \A a \in Participants : peers[a][a] = None /\ wire[a][a] = <<>> /\ chains[a][a] = <<>>
             /\ \A w \in works[a] : w.peer # a
\* A connection id is drawn by one participant, for one.
DrawnInv == drawn \in [Ids -> {<<>>} \cup (Participants \X Participants)]

-------------------------------------------------------------------------------
(* The life of the dials of a pair, step by step of one end.                 *)

\* What is known of a work w whose link is there.
Awaited(a, b, e, w, d) ==
  /\ \A v \in e.works \ {w} : v.id # w.id
  /\ e.link.id = w.id /\ e.link # None /\ e.link \in Link /\ w \in Work
  /\ w.does = "offer" => d[w.id] = <<a, b>> /\ e.link.initiatedLocally /\ At(e, "offering") /\ ~w.chained
  /\ w.does = "accept" => d[w.id] = <<a, b>> /\ e.link.initiatedLocally /\ At(e, "offered")
  /\ w.does = "answer" => d[w.id] = <<b, a>> /\ ~e.link.initiatedLocally /\ At(e, "answering")

\* What an end whose work goes on knew of it.
LEMMA WorkDone ==
  ASSUME NEW a, NEW b, a # b, NEW e, NEW f, NEW d, NEW w \in e.works, Core(a, b, e, f, d), Holds(e, w.id)
  PROVE  Awaited(a, b, e, w, d)
<1>1. /\ WorkRole(a, b, w, d) /\ w \in Work /\ e.link.id = w.id /\ e.link # None
      /\ LinkRole(a, b, e, d) /\ Working(e) /\ <<a, b>> # <<b, a>>
  BY DEF Core, Roles, WorkRole, Holds
<1>2. /\ w.does = "offer" => At(e, "offering") /\ ~w.chained
      /\ w.does = "accept" => w.chained /\ At(e, "offered")
      /\ w.does = "answer" => w.chained /\ At(e, "answering")
  BY <1>1 DEF Working, Work
<1>3. ASSUME NEW v \in e.works, v.id = w.id PROVE v = w
  <2>1. WorkRole(a, b, v, d) /\ v \in Work /\ Holds(e, v.id)
    BY <1>3 DEF Core, Roles, WorkRole
  <2>2. /\ v.does = "offer" => At(e, "offering") /\ ~v.chained
        /\ v.does = "accept" => v.chained /\ At(e, "offered")
        /\ v.does = "answer" => v.chained /\ At(e, "answering")
    BY <1>1, <2>1 DEF Working, Work
  <2>3. v.does = w.does
    BY <1>2, <2>1, <2>2, <1>1 DEF At, Work
  <2>4. v.chained = w.chained
    BY <1>2, <2>1, <2>2, <2>3, <1>1 DEF Work
  <2>5. v.peer = w.peer /\ v.generation = w.generation
    BY <1>1, <2>1 DEF WorkRole
  <2> QED BY <1>1, <1>3, <2>1, <2>3, <2>4, <2>5 DEF Work
<1> QED BY <1>1, <1>2, <1>3 DEF LinkRole, WorkRole, Awaited

\* An answer is taken.
LEMMA AcceptedCore ==
  ASSUME NEW a, NEW b, a # b, NEW e, NEW f, NEW g, NEW d, NEW w \in e.works,
         Core(a, b, e, f, d), Core(b, a, f, e, d),
         w.does = "accept", Holds(e, w.id),
         g.link \in Link, g.link.id = e.link.id, g.link.initiatedLocally = e.link.initiatedLocally,
         g.link.stage = "accepted", g.link # None,
         Out(g) = Out(e), g.works = e.works \ {w}
  PROVE  Core(a, b, g, f, d) /\ Core(b, a, f, g, d)
<1>1. /\ d[w.id] = <<a, b>> /\ e.link.id = w.id /\ At(e, "offered") /\ e.link # None
      /\ e.link.initiatedLocally /\ \A v \in g.works : v.id # w.id
  <2>1. Awaited(a, b, e, w, d)
    BY WorkDone
  <2> QED BY <2>1 DEF Awaited
<1>2. Roles(a, b, g, d)
  <2>1. LinkRole(a, b, g, d)
    BY <1>1 DEF LinkRole
  <2> QED BY <2>1 DEF Core, Roles
<1>3. Working(g)
  BY <1>1 DEF Core, Working, Holds, At
<1>4. /\ \A m \in Out(f) : m.id = w.id => m.type \notin {"answer"} \cup Refusals
      /\ Offer(w.id) \notin Out(e) /\ (At(f, "answering") => f.link.id # w.id)
  <2>1. ~Unheeded(e, w.id) /\ ~Unaccepted(e, w.id)
    BY DEF Unheeded, Unaccepted
  <2>2. Offer(w.id).type = "offer" /\ Offer(w.id).id = w.id
    BY DEF Offer
  <2>3. Offer(w.id) \notin Out(e)
    BY <2>1, <2>2 DEF Core, Life
  <2>4. At(f, "answering") => f.link.id # w.id
    BY <2>1 DEF Core, Life
  <2>5. \A m \in Out(f) : m.type \in {"answer"} \cup Refusals => Unaccepted(e, m.id)
    BY DEF Core, Life
  <2> QED BY <2>1, <2>3, <2>4, <2>5
<1>5. \A id : /\ Holds(g, id) <=> Holds(e, id)
              /\ Unheeded(e, id) => Unheeded(g, id)
              /\ id # w.id /\ Unaccepted(e, id) => Unaccepted(g, id)
              /\ Fresh(e, f, id) => Fresh(g, f, id)
              /\ Fresh(f, e, id) => Fresh(f, g, id)
  BY <1>1 DEF Holds, Unheeded, Unaccepted, Fresh
<1>6. \A m \in Out(g) : m.type = "offer" => m.id # w.id
  BY <1>1 DEF Core, Life, Unaccepted, Unheeded
<1>7. Life(g, f)
  BY <1>1, <1>4, <1>5, <1>6 DEF Core, Life, At, Refusals
<1>8. Life(f, g)
  BY <1>1, <1>5 DEF Core, Life, At
<1>9. Pending(g, f) /\ Pending(f, g)
  BY <1>1, <1>5 DEF Core, Pending, At
<1> QED BY <1>2, <1>3, <1>7, <1>8, <1>9 DEF Core

\* The offer is made and sent.
LEMMA OfferedCore ==
  ASSUME NEW a, NEW b, a # b, NEW e, NEW f, NEW g, NEW d, NEW w \in e.works,
         Core(a, b, e, f, d), Core(b, a, f, e, d),
         w.does = "offer", Holds(e, w.id),
         g.link \in Link, g.link.id = e.link.id, g.link.initiatedLocally = e.link.initiatedLocally,
         g.link.stage = "offered", g.link # None,
         Out(g) = Out(e) \cup {Offer(w.id)}, g.works = e.works \ {w}
  PROVE  Core(a, b, g, f, d) /\ Core(b, a, f, g, d) /\ Offer(w.id) \notin Out(e)
<1>1. /\ d[w.id] = <<a, b>> /\ e.link.id = w.id /\ At(e, "offering") /\ e.link # None /\ ~w.chained
      /\ e.link.initiatedLocally /\ (\A v \in g.works : v.id # w.id) /\ w \in Work
  <2>1. Awaited(a, b, e, w, d)
    BY WorkDone
  <2> QED BY <2>1 DEF Awaited
<1>2. Offer(w.id).type = "offer" /\ Offer(w.id).id = w.id /\ Offer(w.id) \in Signal
  BY <1>1 DEF Offer, Signal, Work
<1>3. Roles(a, b, g, d)
  <2>1. LinkRole(a, b, g, d)
    BY <1>1 DEF LinkRole
  <2>2. SignalRole(a, b, Offer(w.id), d)
    BY <1>1, <1>2 DEF SignalRole, Refusals
  <2> QED BY <2>1, <2>2 DEF Core, Roles
<1>4. Working(g)
  BY <1>1 DEF Core, Working, Holds, At
<1>5. Fresh(e, f, w.id) /\ Offer(w.id) \notin Out(e)
  BY <1>1 DEF Core, Life
<1>6. \A id : /\ Holds(g, id) <=> Holds(e, id)
              /\ Unheeded(e, id) => Unheeded(g, id)
              /\ Unaccepted(e, id) => Unaccepted(g, id)
              /\ Fresh(e, f, id) => Fresh(g, f, id)
              /\ id # w.id /\ Fresh(f, e, id) => Fresh(f, g, id)
  BY <1>1, <1>2 DEF Holds, Unheeded, Unaccepted, Fresh, At
<1>7. Unaccepted(g, w.id)
  BY <1>1 DEF Unaccepted, Unheeded, At
<1>8. Life(g, f)
  BY <1>1, <1>2, <1>5, <1>6, <1>7 DEF Core, Life, At
<1>9. Life(f, g)
  <2>1. \A m \in Out(f) : m.id # w.id
    BY <1>5 DEF Fresh
  <2>2. At(f, "offering") => f.link.id # w.id
    BY <1>5 DEF Fresh, At, Holds
  <2>3. ~At(g, "answering")
    BY DEF At
  <2> QED BY <1>1, <1>2, <1>6, <2>1, <2>2, <2>3 DEF Core, Life, Refusals
<1>10. Pending(g, f) /\ Pending(f, g)
  BY <1>1, <1>6 DEF Core, Pending, At
<1> QED BY <1>3, <1>4, <1>5, <1>8, <1>9, <1>10 DEF Core

\* The answer is made and sent.
LEMMA AnsweredCore ==
  ASSUME NEW a, NEW b, a # b, NEW e, NEW f, NEW g, NEW d, NEW w \in e.works, NEW k,
         Core(a, b, e, f, d), Core(b, a, f, e, d),
         w.does = "answer", Holds(e, w.id),
         g.link \in Link, g.link.id = e.link.id, g.link.initiatedLocally = e.link.initiatedLocally,
         g.link.stage = "answered", g.link # None,
         k \in Signal, k.type = "answer", k.id = w.id,
         Out(g) = Out(e) \cup {k}, g.works = e.works \ {w}
  PROVE  Core(a, b, g, f, d) /\ Core(b, a, f, g, d) /\ k \notin Out(e)
<1>1. /\ d[w.id] = <<b, a>> /\ e.link.id = w.id /\ At(e, "answering") /\ e.link # None
      /\ ~e.link.initiatedLocally /\ (\A v \in g.works : v.id # w.id) /\ w \in Work /\ <<a, b>> # <<b, a>>
  <2>1. Awaited(a, b, e, w, d)
    BY WorkDone
  <2> QED BY <2>1 DEF Awaited
<1>3. Roles(a, b, g, d)
  <2>1. LinkRole(a, b, g, d)
    BY <1>1 DEF LinkRole
  <2>2. SignalRole(a, b, k, d)
    BY <1>1 DEF SignalRole
  <2> QED BY <2>1, <2>2 DEF Core, Roles
<1>4. Working(g)
  BY <1>1 DEF Core, Working, Holds, At
<1>5. Unaccepted(f, w.id) /\ \A m \in Out(e) : m.id # w.id
  BY <1>1 DEF Core, Life
<1>6. \A id : /\ Holds(g, id) <=> Holds(e, id)
              /\ Unheeded(e, id) => Unheeded(g, id)
              /\ Unaccepted(e, id) => Unaccepted(g, id) \/ id = w.id
              /\ Fresh(e, f, id) => Fresh(g, f, id)
              /\ id # w.id /\ Fresh(f, e, id) => Fresh(f, g, id)
  BY <1>1 DEF Holds, Unheeded, Unaccepted, Fresh, At
<1>7. ~Fresh(f, e, w.id) /\ \A m \in Out(f) : m.id = w.id => m.type \notin Refusals \cup {"answer"}
  <2>1. ~Fresh(f, e, w.id)
    BY DEF Fresh
  <2>2. \A m \in Out(f) : m.type \in Refusals \cup {"answer"} => d[m.id] = <<a, b>>
    BY DEF Core, Roles, SignalRole
  <2> QED BY <1>1, <2>1, <2>2
<1>8. Life(g, f)
  <2>1. \A m \in Out(g) : m.type = "offer" => m \in Out(e) /\ m.id # w.id
    <3>1. \A m \in Out(e) : m.id # w.id
      BY <1>5
    <3> QED BY <3>1
  <2>2. At(f, "answering") => f.link.id # w.id
    <3>1. At(f, "answering") => d[f.link.id] = <<a, b>>
      BY <1>1 DEF Core, Roles, LinkRole, At
    <3> QED BY <1>1, <3>1
  <2>3. ~At(g, "offering")
    BY DEF At
  <2> QED BY <1>1, <1>6, <1>7, <2>1, <2>2, <2>3 DEF Core, Life
<1>9. Life(f, g)
  <2>1. \A m \in Out(f) : m.type = "offer" => m.id # w.id
    BY <1>7 DEF Core, Life
  <2>2. At(f, "offering") => f.link.id # w.id
    BY <1>7 DEF Core, Life
  <2>3. ~At(g, "answering")
    BY DEF At
  <2>4. \A m \in Out(g) : m.type # "answer" => m \in Out(e)
    OBVIOUS
  <2>5. \A m \in Out(g) : m.type = "answer" => Unaccepted(f, m.id)
    BY <1>5 DEF Core, Life
  <2>6. \A m \in Out(g) : m.type \in Refusals => m \in Out(e) /\ m.id # w.id
    BY <1>5 DEF Refusals
  <2> QED BY <1>1, <1>5, <1>6, <2>1, <2>2, <2>3, <2>4, <2>5, <2>6 DEF Core, Life
<1>10. Pending(g, f) /\ Pending(f, g)
  BY <1>1, <1>6 DEF Core, Pending, At, Holds
<1> QED BY <1>3, <1>4, <1>5, <1>8, <1>9, <1>10 DEF Core

\* A connection is ready.
LEMMA ReadyCore ==
  ASSUME NEW a, NEW b, a # b, NEW e, NEW f, NEW g, NEW d,
         Core(a, b, e, f, d), Core(b, a, f, e, d),
         e.link # None, e.link.stage \in {"accepted", "answered"},
         g.link \in Link, g.link.id = e.link.id, g.link.initiatedLocally = e.link.initiatedLocally,
         g.link.stage = "ready", g.link # None,
         Out(g) = Out(e), g.works = e.works
  PROVE  Core(a, b, g, f, d) /\ Core(b, a, f, g, d)
<1>1. /\ ~At(e, "offering") /\ ~At(e, "answering") /\ ~At(e, "offered")
      /\ ~At(g, "offering") /\ ~At(g, "answering") /\ ~At(g, "offered")
  BY DEF At
<1>2. Roles(a, b, g, d)
  <2>1. LinkRole(a, b, g, d)
    BY DEF Core, Roles, LinkRole
  <2> QED BY <2>1 DEF Core, Roles
<1>3. Working(g)
  BY <1>1 DEF Core, Working, Holds
<1>4. \A id : /\ Holds(g, id) <=> Holds(e, id)
              /\ Unheeded(e, id) => Unheeded(g, id)
              /\ Unaccepted(e, id) => Unaccepted(g, id)
              /\ Fresh(e, f, id) => Fresh(g, f, id)
              /\ Fresh(f, e, id) => Fresh(f, g, id)
  BY <1>1 DEF Holds, Unheeded, Unaccepted, Fresh
<1>5. Life(g, f) /\ Life(f, g)
  BY <1>1, <1>4 DEF Core, Life
<1>6. Pending(g, f) /\ Pending(f, g)
  BY <1>1, <1>4 DEF Core, Pending
<1> QED BY <1>2, <1>3, <1>5, <1>6 DEF Core

\* Work whose link is gone is over.
LEMMA OverCore ==
  ASSUME NEW a, NEW b, NEW e, NEW f, NEW g, NEW d, NEW w,
         Core(a, b, e, f, d), Core(b, a, f, e, d), ~Holds(e, w.id),
         g.link = e.link, Out(g) = Out(e), g.works = e.works \ {w}
  PROVE  Core(a, b, g, f, d) /\ Core(b, a, f, g, d)
<1>1. \A stage : At(g, stage) <=> At(e, stage)
  BY DEF At
<1>2. \A id : /\ Holds(g, id) <=> Holds(e, id)
              /\ Unheeded(e, id) => Unheeded(g, id)
              /\ Unaccepted(e, id) => Unaccepted(g, id)
              /\ Fresh(e, f, id) => Fresh(g, f, id)
              /\ Fresh(f, e, id) => Fresh(f, g, id)
  BY <1>1 DEF Holds, Unheeded, Unaccepted, Fresh
<1>3. Roles(a, b, g, d)
  BY DEF Core, Roles, LinkRole
<1>4. \A stage : At(e, stage) => w.id # e.link.id
  BY DEF At, Holds
<1>5. Working(g)
  BY <1>1, <1>2, <1>4 DEF Core, Working
<1>6. Life(g, f) /\ Life(f, g)
  BY <1>1, <1>2 DEF Core, Life
<1>7. Pending(g, f) /\ Pending(f, g)
  BY <1>1, <1>2, <1>4 DEF Core, Pending
<1> QED BY <1>3, <1>5, <1>6, <1>7 DEF Core

\* The first description of a dial: a new id.
LEMMA DialledCore ==
  ASSUME NEW a, NEW b, a # b, NEW e, NEW f, NEW g, NEW d, NEW c, NEW id \in Ids, NEW w \in Work,
         Core(a, b, e, f, d), Core(b, a, f, e, d), e.link = None,
         d[id] = <<>>, c = [d EXCEPT ![id] = <<a, b>>], id \in DOMAIN d,
         w.peer = b, w.id = id, w.does = "offer", w.generation = 0, ~w.chained,
         g.link = [id |-> id, initiatedLocally |-> TRUE, stage |-> "offering"], g.link # None,
         Out(g) = Out(e), g.works = e.works \cup {w}
  PROVE  Core(a, b, g, f, c) /\ Core(b, a, f, g, c)
<1>1. /\ \A i : i # id => c[i] = d[i]
      /\ c[id] = <<a, b>> /\ <<a, b>> # <<>> /\ <<b, a>> # <<>> /\ <<a, b>> # <<b, a>>
      /\ g.link \in Link /\ g.link.id = id /\ g.link.initiatedLocally /\ g.link.stage = "offering"
  BY DEF Link
<1>2. /\ \A m \in Out(e) \cup Out(f) : m.id # id
      /\ \A v \in e.works \cup f.works : v.id # id
      /\ f.link # None => f.link.id # id
  BY <1>1 DEF Core, Roles, SignalRole, WorkRole, LinkRole, Work
<1>3. Roles(b, a, f, c)
  BY <1>1, <1>2 DEF Core, Roles, LinkRole, SignalRole, WorkRole
<1>4. Roles(a, b, g, c)
  <2>1. LinkRole(a, b, g, c)
    BY <1>1 DEF LinkRole
  <2>2. \A m \in Out(g) : SignalRole(a, b, m, c)
    BY <1>1, <1>2 DEF Core, Roles, SignalRole
  <2>3. \A v \in g.works : WorkRole(a, b, v, c)
    BY <1>1, <1>2 DEF Core, Roles, WorkRole
  <2> QED BY <2>1, <2>2, <2>3 DEF Roles
<1>5. \A i : ~Holds(e, i) /\ (Holds(g, i) <=> i = id)
  BY <1>1 DEF Holds
<1>6. At(g, "offering") /\ (\A stage : ~At(e, stage)) /\ (\A stage : At(g, stage) => stage = "offering")
  BY <1>1 DEF At
<1>7. Working(g)
  BY <1>1, <1>2, <1>5, <1>6 DEF Core, Working
<1>8. Fresh(g, f, id) /\ Offer(id) \notin Out(g)
  <2>1. Offer(id).id = id
    BY DEF Offer
  <2>2. Unheeded(g, id)
    BY <1>2 DEF Unheeded
  <2> QED BY <1>2, <2>1, <2>2 DEF Fresh, Holds
<1>9. \A i : /\ i # id /\ Unheeded(e, i) => Unheeded(g, i)
             /\ i # id /\ Unaccepted(e, i) => Unaccepted(g, i)
             /\ i # id /\ Fresh(e, f, i) => Fresh(g, f, i)
             /\ i # id /\ Fresh(f, e, i) => Fresh(f, g, i)
  BY <1>5 DEF Unheeded, Unaccepted, Fresh
<1>10. Life(g, f)
  <2>1. At(f, "answering") => f.link.id # id
    BY <1>2 DEF At
  <2> QED BY <1>1, <1>2, <1>5, <1>6, <1>8, <1>9, <2>1 DEF Core, Life
<1>11. Life(f, g)
  <2>1. At(f, "offering") => f.link.id # id
    BY <1>2 DEF At
  <2> QED BY <1>1, <1>2, <1>5, <1>6, <1>9, <2>1 DEF Core, Life
<1>12. Pending(g, f)
  BY <1>6 DEF Pending
<1>13. Pending(f, g)
  BY <1>5, <1>6 DEF Core, Pending
<1> QED BY <1>3, <1>4, <1>7, <1>10, <1>11, <1>12, <1>13 DEF Core

\* An offer is refused, in favour of the link there is or for want of room.
LEMMA RefusedCore ==
  ASSUME NEW a, NEW b, a # b, NEW e, NEW f, NEW g, NEW h, NEW d, NEW id, NEW k \in Signal,
         Core(a, b, e, f, d), Core(b, a, f, e, d), \A w \in e.works : ~w.chained,
         Offer(id) \in Out(f), Out(h) = Out(f) \ {Offer(id)}, h.link = f.link, h.works = f.works,
         k.type \in Refusals, k.id = id, Out(g) = Out(e) \cup {k}, g.works = e.works,
         g.link = e.link \/ g.link = None, \A m \in Out(h) : m # Offer(id)
  PROVE  Core(a, b, g, h, d) /\ Core(b, a, h, g, d) /\ k \notin Out(e)
<1>1. /\ Offer(id).type = "offer" /\ Offer(id).id = id
      /\ \A m \in Signal : m.type = "offer" /\ m.id = id => m = Offer(id)
  BY DEF Offer, Signal
<1>2. /\ d[id] = <<b, a>> /\ <<a, b>> # <<b, a>> /\ Fresh(f, e, id) /\ Unaccepted(f, id)
      /\ \A m \in Out(f) : m \in Signal
  BY <1>1 DEF Core, Roles, SignalRole, Life
<1>3. ~Holds(e, id) /\ Unheeded(f, id) /\ (\A w \in e.works : w.id # id) /\ (\A m \in Out(e) : m.id # id)
  BY <1>2 DEF Fresh
<1>4. ~At(e, "answering")
  <2> SUFFICES ASSUME At(e, "answering") PROVE FALSE
    OBVIOUS
  <2>1. PICK w \in e.works : w.does = "answer" /\ w.id = e.link.id
    BY DEF Core, Working
  <2>2. Holds(e, w.id)
    BY <2>1 DEF At, Holds
  <2> QED BY <2>1, <2>2 DEF Core, Working
<1>5. /\ \A i : Holds(g, i) => Holds(e, i) /\ g.link = e.link
      /\ \A stage : At(g, stage) => At(e, stage) /\ g.link = e.link
      /\ \A stage : At(h, stage) <=> At(f, stage)
      /\ \A i : Holds(h, i) <=> Holds(f, i)
      /\ \A stage : At(e, stage) /\ g.link = e.link => At(g, stage)
  BY DEF Holds, At
<1>6. \A i : /\ Unheeded(e, i) => Unheeded(g, i)
             /\ Unaccepted(e, i) => Unaccepted(g, i)
             /\ Unheeded(f, i) => Unheeded(h, i)
             /\ Unaccepted(f, i) => Unaccepted(h, i)
             /\ Fresh(e, f, i) => Fresh(g, h, i)
             /\ i # id /\ Fresh(f, e, i) => Fresh(h, g, i)
  BY <1>5 DEF Unheeded, Unaccepted, Fresh
<1>7. Roles(a, b, g, d) /\ Roles(b, a, h, d)
  <2>1. LinkRole(a, b, g, d) /\ LinkRole(b, a, h, d)
    BY DEF Core, Roles, LinkRole
  <2>2. SignalRole(a, b, k, d)
    BY <1>2 DEF SignalRole, Refusals
  <2> QED BY <2>1, <2>2 DEF Core, Roles
<1>8. Working(g) /\ Working(h)
  <2>1. Working(h)
    BY <1>5 DEF Core, Working
  <2>2. Working(g)
    BY <1>4, <1>5 DEF Core, Working
  <2> QED BY <2>1, <2>2
<1>9. k \notin Out(e) /\ k.type \notin {"offer", "answer", "close"}
  BY <1>3 DEF Refusals
<1>10. \A m \in Out(h) : m.type = "offer" => m.id # id
  BY <1>1, <1>2
<1>11. Life(g, h)
  <2>1. \A i : Offer(i) \in Out(g) => Offer(i) \in Out(e)
    BY <1>9 DEF Offer
  <2>2. At(h, "answering") => \A m \in Out(h) : m.id # h.link.id
    BY <1>5 DEF Core, Life
  <2> QED BY <1>5, <1>6, <1>9, <2>1, <2>2 DEF Core, Life
<1>12. Life(h, g)
  <2>1. At(f, "offering") => f.link.id # id
    BY <1>1 DEF Core, Life
  <2>2. At(g, "answering") => FALSE
    BY <1>4, <1>5
  <2>3. \A m \in Out(g) : m.type = "answer" => m \in Out(e)
    BY <1>9
  <2>4. \A m \in Out(g) : m.type \in Refusals =>
          /\ Unaccepted(h, m.id) /\ ~Holds(g, m.id)
          /\ \A l \in Out(g) : l.id = m.id => l.type # "answer"
    <3>1. ASSUME NEW m \in Out(e), m.type \in Refusals
          PROVE  /\ Unaccepted(h, m.id) /\ ~Holds(g, m.id)
                 /\ \A l \in Out(g) : l.id = m.id => l.type # "answer"
      BY <1>5, <1>6, <1>9, <3>1 DEF Core, Life
    <3>2. /\ Unaccepted(h, id) /\ ~Holds(g, id)
          /\ \A l \in Out(g) : l.id = id => l.type # "answer"
      BY <1>2, <1>3, <1>5, <1>6, <1>9
    <3> QED BY <3>1, <3>2
  <2> QED BY <1>5, <1>6, <1>10, <2>1, <2>2, <2>3, <2>4 DEF Core, Life
<1>13. Pending(g, h)
  <2> SUFFICES ASSUME At(g, "offered") PROVE Pending(g, h)
    BY DEF Pending
  <2>1. g.link = e.link /\ e.link.id # id /\ At(e, "offered")
    BY <1>3, <1>5 DEF At, Holds
  <2> QED BY <1>1, <1>5, <2>1 DEF Core, Pending
<1>14. Pending(h, g)
  BY <1>4, <1>5 DEF Core, Pending, Offer
<1> QED BY <1>7, <1>8, <1>9, <1>11, <1>12, <1>13, <1>14 DEF Core

\* An offer is answered, in place of the link it beats.
LEMMA AnsweringCore ==
  ASSUME NEW a, NEW b, a # b, NEW e, NEW f, NEW g, NEW h, NEW d, NEW id, NEW w \in Work,
         Core(a, b, e, f, d), Core(b, a, f, e, d), \A v \in e.works : ~v.chained,
         Offer(id) \in Out(f), Out(h) = Out(f) \ {Offer(id)}, h.link = f.link, h.works = f.works,
         w.peer = b, w.id = id, w.does = "answer", w.generation = 0, w.chained,
         g.link = [id |-> id, initiatedLocally |-> FALSE, stage |-> "answering"], g.link # None,
         Out(g) = Out(e), g.works = e.works \cup {w}
  PROVE  Core(a, b, g, h, d) /\ Core(b, a, h, g, d)
<1>1. /\ Offer(id).type = "offer" /\ Offer(id).id = id
      /\ \A m \in Signal : m.type = "offer" /\ m.id = id => m = Offer(id)
      /\ g.link.id = id /\ ~g.link.initiatedLocally /\ g.link.stage = "answering"
  BY DEF Offer, Signal
<1>2. /\ d[id] = <<b, a>> /\ <<a, b>> # <<b, a>> /\ Fresh(f, e, id) /\ Unaccepted(f, id) /\ id \in Ids
      /\ \A m \in Out(f) : m \in Signal
  BY <1>1 DEF Core, Roles, SignalRole, Life, Signal
<1>3. ~Holds(e, id) /\ Unheeded(f, id) /\ (\A v \in e.works : v.id # id) /\ (\A m \in Out(e) : m.id # id)
  BY <1>2 DEF Fresh
<1>4. /\ \A i : Holds(g, i) <=> i = id
      /\ \A stage : At(g, stage) <=> stage = "answering"
      /\ \A stage : At(h, stage) <=> At(f, stage)
      /\ \A i : Holds(h, i) <=> Holds(f, i)
  BY <1>1 DEF Holds, At
<1>5. ~At(e, "answering")
  <2> SUFFICES ASSUME At(e, "answering") PROVE FALSE
    OBVIOUS
  <2>1. PICK v \in e.works : v.does = "answer" /\ v.id = e.link.id
    BY DEF Core, Working
  <2>2. Holds(e, v.id)
    BY <2>1 DEF At, Holds
  <2> QED BY <2>1, <2>2 DEF Core, Working
<1>6. \A i : /\ i # id /\ Unheeded(e, i) => Unheeded(g, i)
             /\ i # id /\ Unaccepted(e, i) => Unaccepted(g, i)
             /\ Unheeded(f, i) => Unheeded(h, i)
             /\ Unaccepted(f, i) => Unaccepted(h, i)
             /\ i # id /\ Fresh(e, f, i) => Fresh(g, h, i)
             /\ i # id /\ Fresh(f, e, i) => Fresh(h, g, i)
  BY <1>4 DEF Unheeded, Unaccepted, Fresh
<1>7. Roles(a, b, g, d) /\ Roles(b, a, h, d)
  <2>1. LinkRole(a, b, g, d)
    BY <1>1, <1>2 DEF LinkRole, Link
  <2>2. LinkRole(b, a, h, d)
    BY DEF Core, Roles, LinkRole
  <2>3. WorkRole(a, b, w, d)
    BY <1>2 DEF WorkRole
  <2> QED BY <2>1, <2>2, <2>3 DEF Core, Roles
<1>8. Working(g) /\ Working(h)
  <2>1. Working(h)
    BY <1>4 DEF Core, Working
  <2>2. Working(g)
    BY <1>1, <1>3, <1>4 DEF Core, Working
  <2> QED BY <2>1, <2>2
<1>9. \A m \in Out(h) : m.type = "offer" => m.id # id
  BY <1>1, <1>2
<1>10. \A m \in Out(f) : m.type \in Refusals \cup {"answer"} => m.id # id
  <2>1. \A m \in Out(f) : m.type \in Refusals \cup {"answer"} => d[m.id] = <<a, b>>
    BY DEF Core, Roles, SignalRole
  <2> QED BY <1>2, <2>1
<1>11. Life(g, h)
  <2>1. At(h, "answering") => h.link.id # id
    <3>1. At(f, "answering") => d[f.link.id] = <<a, b>>
      BY DEF Core, Roles, LinkRole, At
    <3> QED BY <1>2, <1>4, <3>1
  <2> QED BY <1>3, <1>4, <1>6, <1>10, <2>1 DEF Core, Life
<1>12. Life(h, g)
  <2>1. At(f, "offering") => f.link.id # id
    BY <1>1 DEF Core, Life
  <2>2. \A m \in Out(g) : m \in Out(e) /\ m.id # id
    BY <1>3
  <2>3. Unaccepted(h, id)
    BY <1>2, <1>6
  <2> QED BY <1>1, <1>4, <1>6, <1>9, <2>1, <2>2, <2>3 DEF Core, Life
<1>13. Pending(g, h)
  BY <1>4 DEF Pending
<1>14. Pending(h, g)
  BY <1>1, <1>4, <1>5 DEF Core, Pending, Offer
<1> QED BY <1>7, <1>8, <1>11, <1>12, <1>13, <1>14 DEF Core

\* The work of taking an answer begins.
LEMMA AcceptingCore ==
  ASSUME NEW a, NEW b, a # b, NEW e, NEW f, NEW g, NEW h, NEW d, NEW k, NEW w \in Work,
         Core(a, b, e, f, d), Core(b, a, f, e, d),
         k \in Out(f), k.type = "answer", Holds(e, k.id),
         Out(h) = Out(f) \ {k}, h.link = f.link, h.works = f.works,
         w.peer = b, w.id = k.id, w.does = "accept", w.generation = 0, w.chained,
         g.link = e.link, Out(g) = Out(e), g.works = e.works \cup {w}
  PROVE  Core(a, b, g, h, d) /\ Core(b, a, h, g, d)
<1>1. /\ d[k.id] = <<a, b>> /\ <<a, b>> # <<b, a>> /\ Unaccepted(e, k.id) /\ At(e, "offered") /\ e.link.id = k.id
      /\ k \in Signal
  BY DEF Core, Roles, SignalRole, Life, Unaccepted, Holds
<1>2. /\ \A i : Holds(g, i) <=> Holds(e, i)
      /\ \A stage : At(g, stage) <=> At(e, stage)
      /\ \A stage : At(h, stage) <=> At(f, stage)
      /\ \A i : Holds(h, i) <=> Holds(f, i)
  BY DEF Holds, At
<1>3. (\A stage : At(e, stage) => stage = "offered")
  BY <1>1 DEF At
<1>4. \A i : /\ i # k.id /\ Unheeded(e, i) => Unheeded(g, i)
             /\ i # k.id /\ Unaccepted(e, i) => Unaccepted(g, i)
             /\ Unheeded(f, i) => Unheeded(h, i)
             /\ Unaccepted(f, i) => Unaccepted(h, i)
             /\ Fresh(e, f, i) => i # k.id /\ Fresh(g, h, i)
             /\ i # k.id /\ Fresh(f, e, i) => Fresh(h, g, i)
  BY <1>2 DEF Unheeded, Unaccepted, Fresh
<1>5. Roles(a, b, g, d) /\ Roles(b, a, h, d)
  <2>1. LinkRole(a, b, g, d) /\ LinkRole(b, a, h, d)
    BY DEF Core, Roles, LinkRole
  <2>3. WorkRole(a, b, w, d)
    BY <1>1 DEF WorkRole
  <2> QED BY <2>1, <2>3 DEF Core, Roles
<1>6. Working(g) /\ Working(h)
  <2>1. Working(h)
    BY <1>2 DEF Core, Working
  <2>2. Working(g)
    BY <1>1, <1>2, <1>3 DEF Core, Working
  <2> QED BY <2>1, <2>2
<1>7. /\ \A m \in Out(e) : m.type \in {"offer"} => m.id # k.id
      /\ \A m \in Out(f) : m.type \in Refusals => m.id # k.id
      /\ At(f, "answering") => f.link.id # k.id
      /\ \A m \in Out(f) : m.type = "offer" => m.id # k.id
      /\ At(f, "offering") => f.link.id # k.id
      /\ \A m \in Out(e) : m.type \in Refusals \cup {"answer"} => m.id # k.id
  <2>1. \A m \in Out(e) : m.type \in {"offer"} => m.id # k.id
    BY DEF Core, Life, Fresh
  <2>2. \A m \in Out(f) : m.type \in Refusals => m.id # k.id
    BY DEF Core, Life
  <2>3. At(f, "answering") => f.link.id # k.id
    BY DEF Core, Life
  <2>4. \A m \in Out(f) : m.type = "offer" => m.id # k.id
    BY <1>1 DEF Core, Roles, SignalRole
  <2>5. At(f, "offering") => f.link.id # k.id
    BY <1>1 DEF Core, Roles, LinkRole, At
  <2>6. \A m \in Out(e) : m.type \in Refusals \cup {"answer"} => m.id # k.id
    BY <1>1 DEF Core, Roles, SignalRole
  <2> QED BY <2>1, <2>2, <2>3, <2>4, <2>5, <2>6
<1> DEFINE AnswerOnce == \A m \in Out(h) : m.type = "answer" => m.id # k.id
<1>8. AnswerOnce
  <2>1. \A m \in Out(f) : m \in Signal
    BY DEF Core, Roles, SignalRole
  <2> QED BY <1>1, <2>1 DEF Signal
<1>9. Life(g, h)
  BY <1>2, <1>3, <1>4, <1>7, <1>8 DEF Core, Life
<1>10. Life(h, g)
  BY <1>2, <1>3, <1>4, <1>7, <1>8 DEF Core, Life
<1>11. Pending(g, h)
  BY <1>1 DEF Pending
<1>12. Pending(h, g)
  BY <1>2, <1>3 DEF Core, Pending, Offer
<1> QED BY <1>5, <1>6, <1>9, <1>10, <1>11, <1>12 DEF Core

\* Signals of a link that is gone are passed over.
LEMMA PassedCore ==
  ASSUME NEW a, NEW b, NEW e, NEW f, NEW g, NEW h, NEW d,
         Core(a, b, e, f, d), Core(b, a, f, e, d),
         Out(h) \subseteq Out(f), h.link = f.link, h.works = f.works,
         g.link = e.link, Out(g) = Out(e), g.works = e.works,
         \A m \in Out(f) : m \in Out(h) \/ (m.type # "offer" /\ ~Holds(e, m.id))
  PROVE  Core(a, b, g, h, d) /\ Core(b, a, h, g, d)
<1>1. /\ \A i : Holds(g, i) <=> Holds(e, i)
      /\ \A stage : At(g, stage) <=> At(e, stage)
      /\ \A stage : At(h, stage) <=> At(f, stage)
      /\ \A i : Holds(h, i) <=> Holds(f, i)
  BY DEF Holds, At
<1>2. \A i : /\ Unheeded(e, i) => Unheeded(g, i)
             /\ Unaccepted(e, i) => Unaccepted(g, i)
             /\ Unheeded(f, i) => Unheeded(h, i)
             /\ Unaccepted(f, i) => Unaccepted(h, i)
             /\ Fresh(e, f, i) => Fresh(g, h, i)
             /\ Fresh(f, e, i) => Fresh(h, g, i)
  BY <1>1 DEF Unheeded, Unaccepted, Fresh
<1>3. Roles(a, b, g, d) /\ Roles(b, a, h, d)
  BY DEF Core, Roles, LinkRole
<1>4. Working(g) /\ Working(h)
  BY <1>1 DEF Core, Working
<1>5. Life(g, h) /\ Life(h, g)
  BY <1>1, <1>2 DEF Core, Life
<1>6. Pending(g, h)
  BY <1>1 DEF Core, Pending, At, Holds
<1>7. Pending(h, g)
  BY <1>1 DEF Core, Pending, Offer
<1> QED BY <1>3, <1>4, <1>5, <1>6, <1>7 DEF Core

\* A link goes: its end says nothing of it but that it hung up, and of what
\* waited only signals of links that are gone are lost with it.
LEMMA GoneCore ==
  ASSUME NEW a, NEW b, a # b, NEW e, NEW f, NEW g, NEW h, NEW d,
         Core(a, b, e, f, d), Core(b, a, f, e, d), e.link # None, e.link.id \in Ids,
         g.link = None,
         Out(g) = Out(e) \/ Out(g) = Out(e) \cup {[type |-> "close", id |-> e.link.id]},
         \A v \in g.works : v \in Work /\ ~v.chained /\ \E w \in e.works :
            v.peer = w.peer /\ v.id = w.id /\ v.does = w.does /\ v.generation = w.generation,
         Out(h) \subseteq Out(f), h.link = f.link, h.works = f.works,
         \A m \in Out(f) : m \in Out(h) \/ m.type # "offer" \/ ~Holds(f, m.id),
         At(e, "answering") /\ Holds(f, e.link.id) => \E m \in Out(g) : m.id = e.link.id
  PROVE  Core(a, b, g, h, d) /\ Core(b, a, h, g, d)
<1>1. /\ \A i : ~Holds(g, i)
      /\ \A stage : ~At(g, stage)
      /\ \A stage : At(h, stage) <=> At(f, stage)
      /\ \A i : Holds(h, i) <=> Holds(f, i)
  BY DEF Holds, At
<1>2. /\ Out(e) \subseteq Out(g) 
      /\ \A m \in Out(g) : m \notin Out(e) => m \in Signal /\ m.type = "close" /\ m.id = e.link.id
  BY DEF Signal
<1>3. ~Fresh(f, e, e.link.id)
  BY DEF Fresh, Holds
<1>4. \A i : /\ Unheeded(e, i) => Unheeded(g, i)
             /\ Unaccepted(e, i) => Unaccepted(g, i)
             /\ Unheeded(f, i) => Unheeded(h, i)
             /\ Unaccepted(f, i) => Unaccepted(h, i)
             /\ Fresh(e, f, i) => Fresh(g, h, i)
             /\ Fresh(f, e, i) => Fresh(h, g, i)
  <2>1. \A i : /\ Unheeded(e, i) => Unheeded(g, i)
               /\ Unaccepted(e, i) => Unaccepted(g, i)
               /\ Unheeded(f, i) => Unheeded(h, i)
               /\ Unaccepted(f, i) => Unaccepted(h, i)
    BY <1>1 DEF Unheeded, Unaccepted
  <2>2. \A i : Fresh(e, f, i) => Fresh(g, h, i)
    BY <1>1, <2>1 DEF Fresh
  <2>3. \A i : Fresh(f, e, i) => Fresh(h, g, i)
    BY <1>1, <1>2, <1>3, <2>1 DEF Fresh
  <2> QED BY <2>1, <2>2, <2>3
<1>5. Roles(a, b, g, d) /\ Roles(b, a, h, d)
  <2>1. LinkRole(a, b, g, d) /\ LinkRole(b, a, h, d)
    BY DEF Core, Roles, LinkRole
  <2>2. \A m \in Out(g) : SignalRole(a, b, m, d)
    <3>1. d[e.link.id] \in {<<a, b>>, <<b, a>>}
      BY DEF Core, Roles, LinkRole
    <3> QED BY <1>2, <3>1 DEF Core, Roles, SignalRole, Refusals
  <2>3. \A v \in g.works : WorkRole(a, b, v, d)
    BY DEF Core, Roles, WorkRole
  <2>4. (\A m \in Out(h) : SignalRole(b, a, m, d)) /\ (\A v \in h.works : WorkRole(b, a, v, d))
    BY DEF Core, Roles
  <2> QED BY <2>1, <2>2, <2>3, <2>4 DEF Roles
<1>6. Working(g) /\ Working(h)
  BY <1>1 DEF Core, Working
<1>7. Life(g, h)
  BY <1>1, <1>2, <1>4 DEF Core, Life
<1>8. Life(h, g)
  BY <1>1, <1>2, <1>4 DEF Core, Life, Refusals
<1>9. Pending(g, h)
  BY <1>1 DEF Pending
<1>10. Pending(h, g)
  <2> SUFFICES ASSUME At(f, "offered") PROVE Pending(h, g)
    BY <1>1 DEF Pending
  <2>1. Offer(f.link.id) \in Out(f) => Offer(f.link.id) \in Out(h)
    BY DEF Offer, Holds, At
  <2>2. Holds(e, f.link.id) /\ At(e, "answering") => \E m \in Out(g) : m.id = f.link.id
    BY DEF Holds, At
  <2> QED BY <1>1, <1>2, <2>1, <2>2 DEF Core, Pending
<1> QED BY <1>5, <1>6, <1>7, <1>8, <1>9, <1>10 DEF Core

-------------------------------------------------------------------------------
(* Who wins a collision, step by step of one end.                            *)

\* The ends of a pair may change places.
LEMMA Symmetric ==
  ASSUME NEW a, NEW b, NEW e, NEW f, NEW d, Unended(a, b, e, f, d)
  PROVE  Unended(b, a, f, e, d)
BY DEF Unended, Undecided

\* A decided pair stays so while its ends keep their links and offer nothing.
Kept(e, f, g, h) ==
  /\ g.link # None /\ g.link.id = e.link.id /\ g.link.initiatedLocally = e.link.initiatedLocally
  /\ \A id : Holds(f, id) => Holds(h, id)
  /\ \A m \in Out(g) : m.type = "offer" => m \in Out(e)
  /\ \A m \in Out(h) : m.type \in {"offer", "collision"} => m \in Out(f)

\* A collision that is won stays so while nothing it names changes.
LEMMA WonKept ==
  ASSUME NEW e, NEW f, NEW g, NEW h, Won(e, f), Kept(e, f, g, h)
  PROVE  Won(g, h)
<1>1. \A id : [type |-> "collision", id |-> id].type = "collision" /\ [type |-> "collision", id |-> id].id = id
  OBVIOUS
<1>2. ~Beaten(g, h)
  BY <1>1 DEF Won, Hopeful, Beaten, Kept
<1> QED BY <1>2 DEF Won, Hopeful, Holds, Kept

\* An answer is taken, or given.
LEMMA AcceptedUnended ==
  ASSUME NEW a, NEW b, a # b, NEW e, NEW f, NEW g, NEW d, NEW w \in e.works,
         Core(a, b, e, f, d), Unended(a, b, e, f, d),
         w.does \in {"accept", "answer"}, Holds(e, w.id),
         g.link.id = e.link.id, g.link.initiatedLocally = e.link.initiatedLocally, g.link # None,
         \A m \in Out(g) : m \in Out(e) \/ m.type = "answer", Out(e) \subseteq Out(g)
  PROVE  Unended(a, b, g, f, d)
<1>1. e.link # None /\ (w.does = "accept" => At(e, "offered")) /\ (w.does = "answer" => At(e, "answering")) /\ e.link.id = w.id
  BY DEF Core, Working, Holds
<1>2. ~Undecided(a, b, e, f, d)
  <2>1. w.does = "accept" => ~Unheeded(e, w.id) /\ ~Unaccepted(e, w.id)
    BY DEF Unheeded, Unaccepted
  <2>2. w.does = "accept" => Offer(w.id) \notin Out(e)
    BY <2>1 DEF Core, Life, Offer
  <2>3. w.does = "accept" => ~Beaten(e, f)
    BY <1>1, <2>1 DEF Core, Life, Beaten, Refusals
  <2> QED BY <1>1, <2>2, <2>3 DEF Undecided, Calling, At
<1>3. Won(e, f) => Won(g, f)
  <2>1. Kept(e, f, g, f)
    BY DEF Kept
  <2> QED BY <2>1, WonKept
<1>4. Won(f, e) => Won(f, g)
  <2>1. ASSUME Won(f, e) PROVE Won(f, g)
    <3>1. Kept(f, e, f, g)
      BY <2>1 DEF Kept, Holds, Won, Hopeful
    <3> QED BY <2>1, <3>1, WonKept
  <2> QED BY <2>1
<1> QED BY <1>2, <1>3, <1>4 DEF Unended

\* A connection is ready.
LEMMA ReadyUnended ==
  ASSUME NEW a, NEW b, NEW e, NEW f, NEW g, NEW d, Unended(a, b, e, f, d),
         e.link # None, e.link.stage \in {"accepted", "answered"},
         g.link.id = e.link.id, g.link.initiatedLocally = e.link.initiatedLocally, g.link # None,
         Out(g) = Out(e)
  PROVE  Unended(a, b, g, f, d)
<1>1. ~Undecided(a, b, e, f, d)
  BY DEF Undecided, Calling, At
<1>3. Won(e, f) => Won(g, f)
  <2>1. Kept(e, f, g, f)
    BY DEF Kept
  <2> QED BY <2>1, WonKept
<1>4. Won(f, e) => Won(f, g)
  <2>1. ASSUME Won(f, e) PROVE Won(f, g)
    <3>1. Kept(f, e, f, g)
      BY <2>1 DEF Kept, Holds, Won, Hopeful
    <3> QED BY <2>1, <3>1, WonKept
  <2> QED BY <2>1
<1> QED BY <1>1, <1>3, <1>4 DEF Unended

\* An offer is made.
LEMMA OfferedUnended ==
  ASSUME NEW a, NEW b, a # b, NEW e, NEW f, NEW g, NEW d, NEW w \in e.works,
         Core(a, b, e, f, d), Core(b, a, f, e, d), Unended(a, b, e, f, d),
         w.does = "offer", Holds(e, w.id),
         g.link.id = e.link.id, g.link.stage = "offered", g.link # None,
         Out(g) = Out(e) \cup {Offer(w.id)}
  PROVE  Unended(a, b, g, f, d)
<1>1. /\ d[w.id] = <<a, b>> /\ e.link.id = w.id /\ At(e, "offering") /\ e.link # None /\ e.link.initiatedLocally
      /\ <<a, b>> # <<b, a>>
  <2>1. Awaited(a, b, e, w, d)
    BY WorkDone
  <2> QED BY <2>1 DEF Awaited
<1>2. Fresh(e, f, w.id)
  BY <1>1 DEF Core, Life
<1>3. ~Won(e, f) /\ ~Won(f, e)
  <2>1. ~Won(e, f)
    BY <1>1, <1>2 DEF Won, Fresh
  <2>2. Won(f, e) => d[f.link.id] = <<b, a>> /\ f.link.id = w.id
    BY <1>1 DEF Won, Hopeful, Core, Roles, LinkRole, Holds
  <2> QED BY <1>1, <2>1, <2>2
<1>4. Offer(w.id).type = "offer" /\ Offer(w.id).id = w.id /\ \A m \in Out(g) : m \in Out(e) \/ m = Offer(w.id)
  BY DEF Offer
<1>5. ~Beaten(e, f)
  BY <1>1, <1>2 DEF Beaten, Fresh
<1>6. ~Beaten(g, f) /\ (Beaten(f, g) <=> Beaten(f, e))
  BY <1>1, <1>4, <1>5 DEF Beaten
<1>7. Undecided(a, b, e, f, d)
  BY <1>3 DEF Unended
<1>8. Calling(g, f)
  BY <1>1, <1>4, <1>6, <1>7 DEF Undecided, Calling, At, Holds
<1>9. Calling(f, g)
  BY <1>1, <1>4, <1>5, <1>6, <1>7 DEF Undecided, Calling
<1>10. Undecided(a, b, g, f, d)
  BY <1>6, <1>8, <1>9 DEF Undecided, Hopeful
<1> QED BY <1>4, <1>10 DEF Unended

\* A dial begins.
LEMMA DialledUnended ==
  ASSUME NEW a, NEW b, a # b, NEW e, NEW f, NEW g, NEW d, NEW c, NEW id,
         Core(a, b, e, f, d), Core(b, a, f, e, d), Unended(a, b, e, f, d), e.link = None,
         d[id] = <<>>, g.link.id = id, g.link.stage = "offering", g.link # None, Out(g) = Out(e)
  PROVE  Unended(a, b, g, f, c)
<1>1. \A m \in Out(e) \cup Out(f) : m.id # id
  <2>1. <<a, b>> # <<>> /\ <<b, a>> # <<>>
    OBVIOUS
  <2> QED BY <2>1 DEF Core, Roles, SignalRole
<1>2. ~Won(e, f) /\ ~Won(f, e)
  BY DEF Won, Hopeful, Holds
<1>3. Undecided(a, b, e, f, d)
  BY <1>2 DEF Unended
<1>4. ~Beaten(f, e) /\ ~Beaten(g, f) /\ ~Beaten(f, g)
  <2>1. ~Beaten(f, e)
    BY <1>3 DEF Undecided, Calling
  <2> QED BY <1>1, <2>1 DEF Beaten
<1>5. Calling(g, f) /\ Calling(f, g)
  BY <1>3, <1>4 DEF Undecided, Calling, At, Holds
<1>6. Undecided(a, b, g, f, c)
  BY <1>4, <1>5 DEF Undecided, Hopeful
<1> QED BY <1>6 DEF Unended

\* An offer is refused in favour of the dial of the end that refuses it.
LEMMA RefusedUnended ==
  ASSUME NEW a, NEW b, a # b, NEW e, NEW f, NEW g, NEW h, NEW d, NEW id, NEW k,
         Core(a, b, e, f, d), Core(b, a, f, e, d), Unended(a, b, e, f, d),
         Offer(id) \in Out(f), Out(h) = Out(f) \ {Offer(id)}, h.link = f.link,
         k = [type |-> "collision", id |-> id], Out(g) = Out(e) \cup {k},
         g.link = e.link, e.link # None, e.link.id # id, Wins(e.link.id, id)
  PROVE  Unended(a, b, g, h, d)
<1>1. /\ Offer(id).type = "offer" /\ Offer(id).id = id /\ k.type = "collision" /\ k.id = id
      /\ \A i : Offer(i) # k /\ [type |-> "collision", id |-> i] # Offer(id)
  BY DEF Offer
<1>2. id \in Nat /\ e.link.id \in Nat /\ e.link.id < id /\ ~(id < e.link.id)
  <2>1. id \in Ids /\ e.link.id \in Ids
    BY <1>1 DEF Core, Roles, SignalRole, LinkRole, Signal, Link
  <2>2. \A i \in Ids : i \in Nat
    BY PoolAssumption DEF Ids
  <2> QED BY <2>1, <2>2 DEF Wins
<1>3. (Beaten(g, h) <=> Beaten(e, f)) /\ (f.link # None => h.link # None) /\ \A i : Holds(h, i) <=> Holds(f, i)
  BY <1>1 DEF Beaten, Holds
<1>4. ~Won(f, e)
  BY <1>1 DEF Won
<1>5. Won(e, f) => Won(g, h)
  BY <1>1, <1>3 DEF Won, Hopeful
<1>6. ASSUME Undecided(a, b, e, f, d) PROVE Undecided(a, b, g, h, d)
  <2>1. Holds(f, id) /\ f.link # None /\ f.link.id = id
    BY <1>1, <1>6 DEF Undecided, Calling, Holds
  <2>2. ~Beaten(e, f) /\ ~Beaten(g, h)
    BY <1>2, <1>3, <1>6, <2>1 DEF Undecided, Calling
  <2>3. Beaten(h, g)
    BY <2>1 DEF Beaten
  <2>4. Calling(g, h)
    BY <1>1, <1>6, <2>2 DEF Undecided, Calling, At, Holds
  <2>5. At(f, "offered")
    BY <1>1, <2>1 DEF Core, Life, Unaccepted
  <2>6. Calling(h, g)
    BY <1>1, <1>2, <1>3, <1>6, <2>1, <2>2, <2>3, <2>5 DEF Undecided, Calling, At
  <2> QED BY <2>2, <2>4, <2>6 DEF Undecided, Hopeful
<1>7. \A m \in Out(g) \cup Out(h) : m.type \notin {"capacity", "close"}
  BY <1>1 DEF Unended
<1> QED BY <1>4, <1>5, <1>6, <1>7 DEF Unended

\* An offer wins, or meets no link, and is answered.
LEMMA AnsweringUnended ==
  ASSUME NEW a, NEW b, a # b, NEW e, NEW f, NEW g, NEW h, NEW d, NEW id,
         Core(a, b, e, f, d), Core(b, a, f, e, d), Unended(a, b, e, f, d),
         Offer(id) \in Out(f), Out(h) = Out(f) \ {Offer(id)}, h.link = f.link,
         ~(e.link # None /\ e.link.id # id /\ Wins(e.link.id, id)),
         g.link # None, g.link.id = id, Out(g) = Out(e)
  PROVE  Unended(a, b, g, h, d)
<1>1. /\ Offer(id).type = "offer" /\ Offer(id).id = id
      /\ \A m \in Signal : m.type = "offer" /\ m.id = id => m = Offer(id)
  BY DEF Offer, Signal
<1>2. /\ id \in Nat /\ Fresh(f, e, id) /\ d[id] = <<b, a>> /\ <<a, b>> # <<b, a>>
      /\ \A m \in Out(f) : m \in Signal
      /\ \A m \in Out(e) : m.type = "offer" => d[m.id] = <<a, b>>
      /\ e.link # None => e.link.id \in Nat /\ e.link.id # id /\ id < e.link.id
  <2>1. id \in Ids /\ (e.link # None => e.link.id \in Ids)
    BY <1>1 DEF Core, Roles, SignalRole, LinkRole, Signal, Link
  <2>2. \A i \in Ids : i \in Nat
    BY PoolAssumption DEF Ids
  <2>3. Fresh(f, e, id) /\ d[id] = <<b, a>> /\ (\A m \in Out(f) : m \in Signal)
        /\ \A m \in Out(e) : m.type = "offer" => d[m.id] = <<a, b>>
    BY <1>1 DEF Core, Roles, SignalRole, Life
  <2>4. e.link # None => e.link.id # id
    BY <2>3 DEF Fresh, Holds
  <2> QED BY <2>1, <2>2, <2>3, <2>4 DEF Wins
<1>3. ~Won(f, e) /\ ~Won(e, f)
  <2>1. ~Won(f, e)
    BY <1>1 DEF Won
  <2>2. ASSUME Won(e, f) PROVE FALSE
    <3>1. e.link # None /\ e.link.id < id
      BY <1>1, <2>2 DEF Won, Hopeful
    <3> QED BY <1>2, <3>1
  <2> QED BY <2>1, <2>2
<1>4. Undecided(a, b, e, f, d)
  BY <1>3 DEF Unended
<1>5. Holds(f, id) /\ f.link # None /\ f.link.id = id /\ f.link.initiatedLocally
  <2>1. Holds(f, id)
    BY <1>1, <1>4 DEF Undecided, Calling
  <2> QED BY <1>2, <2>1 DEF Holds, Core, Roles, LinkRole
<1>6. \A m \in Out(h) : m.type # "offer"
  BY <1>1, <1>2, <1>4, <1>5 DEF Undecided, Calling, Holds
<1>7. \A m \in Out(g) : m.type = "offer" => id < m.id
  BY <1>2, <1>4 DEF Undecided, Calling, Holds
<1>8. ~Beaten(h, g)
  BY <1>2, <1>5 DEF Fresh, Beaten
<1>9. Won(h, g)
  BY <1>5, <1>6, <1>7, <1>8 DEF Won, Hopeful, Holds
<1> QED BY <1>9 DEF Unended

\* An answer comes, and is worked on.
LEMMA AcceptingUnended ==
  ASSUME NEW a, NEW b, NEW e, NEW f, NEW g, NEW h, NEW d, NEW k,
         Core(a, b, e, f, d), Unended(a, b, e, f, d),
         k \in Out(f), k.type = "answer", Holds(e, k.id), Out(h) = Out(f) \ {k}, h.link = f.link,
         g.link = e.link, Out(g) = Out(e)
  PROVE  Unended(a, b, g, h, d)
<1>1. ~Undecided(a, b, e, f, d)
  <2>1. e.link # None /\ e.link.id = k.id /\ At(e, "offered")
    BY DEF Core, Life, Unaccepted, Holds
  <2>2. Offer(k.id) \notin Out(e)
    BY DEF Core, Life, Fresh, Offer
  <2>3. ~Beaten(e, f)
    BY <2>1 DEF Core, Life, Beaten, Refusals
  <2> QED BY <2>1, <2>2, <2>3 DEF Undecided, Calling, At
<1>3. Won(e, f) => Won(g, h)
  <2>1. Won(e, f) => Kept(e, f, g, h)
    BY DEF Kept, Holds, Won, Hopeful
  <2> QED BY <2>1, WonKept
<1>4. Won(f, e) => Won(h, g)
  <2>1. Won(f, e) => Kept(f, e, h, g)
    BY DEF Kept, Holds, Won, Hopeful
  <2> QED BY <2>1, WonKept
<1> QED BY <1>1, <1>3, <1>4 DEF Unended

\* A signal that is about nothing is passed over.
LEMMA PassedUnended ==
  ASSUME NEW a, NEW b, NEW e, NEW f, NEW g, NEW h, NEW d, Unended(a, b, e, f, d),
         Out(h) \subseteq Out(f), h.link = f.link, g.link = e.link, Out(g) = Out(e),
         \A m \in Out(f) : m \in Out(h) \/ (m.type # "offer" /\ ~Holds(e, m.id))
  PROVE  Unended(a, b, g, h, d)
<1>1. /\ \A i : Holds(g, i) <=> Holds(e, i)
      /\ \A stage : At(g, stage) <=> At(e, stage)
      /\ \A stage : At(h, stage) <=> At(f, stage)
      /\ \A i : Holds(h, i) <=> Holds(f, i)
  BY DEF Holds, At
<1>2. (Beaten(g, h) <=> Beaten(e, f)) /\ (Beaten(h, g) <=> Beaten(f, e))
  BY DEF Beaten, Holds
<1>3. \A i : Offer(i) \in Out(h) <=> Offer(i) \in Out(f)
  BY DEF Offer
<1>4. Undecided(a, b, e, f, d) => Undecided(a, b, g, h, d)
  BY <1>1, <1>2, <1>3 DEF Undecided, Calling, Hopeful
<1>5. (Won(e, f) => Won(g, h)) /\ (Won(f, e) => Won(h, g))
  BY <1>1, <1>2, <1>3 DEF Won, Hopeful
<1> QED BY <1>4, <1>5 DEF Unended

\* The refusal of a dial is obeyed.
LEMMA BeatenUnended ==
  ASSUME NEW a, NEW b, a # b, NEW e, NEW f, NEW g, NEW h, NEW d,
         Core(a, b, e, f, d), Core(b, a, f, e, d), Unended(a, b, e, f, d),
         Beaten(e, f), g.link = None, Out(g) = Out(e), Out(h) \subseteq Out(f), h.link = f.link,
         \A m \in Out(f) : m \in Out(h) \/ m.type # "offer" \/ ~Holds(f, m.id)
  PROVE  Unended(a, b, g, h, d)
<1> DEFINE k == [type |-> "collision", id |-> e.link.id]
<1>1. k \in Out(f) /\ k.type = "collision" /\ k.id = e.link.id /\ e.link # None
  BY DEF Beaten
<1> HIDE DEF k
<1>2. ~Won(e, f) /\ ~Won(f, e)
  <2>1. d[e.link.id] = <<a, b>> /\ <<a, b>> # <<b, a>>
    BY <1>1 DEF Core, Roles, SignalRole, Refusals
  <2>2. Won(f, e) => f.link.id = e.link.id /\ d[f.link.id] = <<b, a>>
    BY DEF Won, Hopeful, Holds, Core, Roles, LinkRole
  <2> QED BY <2>1, <2>2 DEF Won, Hopeful
<1>3. Undecided(a, b, e, f, d)
  BY <1>2 DEF Unended
<1>4. f.link # None /\ ~Beaten(f, e) /\ ~Beaten(h, g) /\ ~Beaten(g, h)
  BY <1>3 DEF Undecided, Calling, Beaten
<1>5. \A m \in Out(e) : m.type # "offer"
  <2> SUFFICES ASSUME NEW m \in Out(e), m.type = "offer" PROVE FALSE
    OBVIOUS
  <2>1. m.id = e.link.id
    BY <1>3 DEF Undecided, Calling, Holds
  <2> QED BY <1>1, <2>1 DEF Core, Life, Fresh
<1>6. Calling(g, h)
  BY <1>4, <1>5 DEF Calling
<1>7. Calling(h, g)
  <2>1. At(f, "offering") \/ (At(f, "offered") /\ Offer(f.link.id) \in Out(h))
    BY <1>3, <1>4 DEF Undecided, Calling, Offer, Holds
  <2>2. \A stage : At(f, stage) => At(h, stage)
    BY DEF At
  <2> QED BY <1>3, <1>4, <2>1, <2>2 DEF Undecided, Calling, Holds
<1>8. Undecided(a, b, g, h, d)
  BY <1>4, <1>6, <1>7 DEF Undecided, Hopeful
<1> QED BY <1>8 DEF Unended

-------------------------------------------------------------------------------
(* The order of the signals of an end.                                       *)

\* What an end says, by place.
LEMMA OutIs ==
  ASSUME NEW e, e.line \in Seq(Signal)
  PROVE  /\ Len(e.line) \in Nat
         /\ \A m : m \in Out(e) <=> \E i \in 1 .. Len(e.line) : e.line[i] = m
         /\ \A i \in 1 .. Len(e.line) : e.line[i] \in Out(e) /\ e.line[i] \in Signal
<1>1. DOMAIN e.line = 1 .. Len(e.line) /\ Len(e.line) \in Nat
  OBVIOUS
<1> QED BY <1>1 DEF Out, ToSet

\* A line that is left alone, for a link that is there or is a new one.
LEMMA LineLeft ==
  ASSUME NEW e, NEW g, Lined(e), g.line = e.line,
         \A id : Holds(g, id) => Holds(e, id) \/ \A m \in Out(e) : m.type = "offer" => m.id # id
  PROVE  Lined(g) /\ Out(g) = Out(e)
<1>1. Lined(g)
  BY OutIs DEF Lined, Ordered
<1> QED BY <1>1 DEF Out

\* One more signal, which was not said before.
LEMMA LineLonger ==
  ASSUME NEW e, NEW g, NEW k \in Signal, Lined(e), g.line = Append(e.line, k), k \notin Out(e),
         \A id : Holds(g, id) => Holds(e, id) /\ k.type # "close"
  PROVE  Lined(g) /\ Out(g) = Out(e) \cup {k}
<1> DEFINE q == e.line
           r == g.line
<1>1. /\ q \in Seq(Signal) /\ Len(q) \in Nat /\ r \in Seq(Signal) /\ Len(r) = Len(q) + 1
      /\ \A i \in 1 .. Len(q) : r[i] = q[i] /\ i \in 1 .. Len(r)
      /\ r[Len(r)] = k /\ \A i \in 1 .. Len(r) : i \in 1 .. Len(q) \/ i = Len(r)
  BY DEF Lined
<1>2. /\ \A m : m \in Out(e) <=> \E i \in 1 .. Len(q) : q[i] = m
      /\ \A m : m \in Out(g) <=> \E i \in 1 .. Len(r) : r[i] = m
  BY <1>1, OutIs
<1>3. \A i \in 1 .. Len(q) : q[i] # k
  BY <1>2
<1> HIDE DEF q, r
<1>4. Distinct(q) /\ Ordered(e) /\ e.line = q /\ g.line = r
  BY DEF Lined, q, r
<1>5. Distinct(r)
  BY <1>1, <1>3, <1>4 DEF Distinct
<1>6. Ordered(g)
  <2> SUFFICES ASSUME NEW i \in 1 .. Len(r), NEW j \in 1 .. Len(r), i < j,
                      r[i].type = "offer", r[j].type = "close", Holds(g, r[i].id)
               PROVE  FALSE
    BY <1>4 DEF Ordered
  <2>1. (i \in 1 .. Len(q) /\ j \in 1 .. Len(q)) \/ j = Len(r)
    BY <1>1
  <2> QED BY <1>1, <1>4, <2>1 DEF Ordered
<1>7. Out(g) = Out(e) \cup {k}
  <2>1. \A m : m \in Out(g) <=> m \in Out(e) \/ m = k
    BY <1>1, <1>2
  <2> QED BY <2>1
<1> QED BY <1>1, <1>4, <1>5, <1>6, <1>7 DEF Lined

\* A part of a line.
LEMMA LineShorter ==
  ASSUME NEW f, NEW h, Lined(f), h.link = f.link, h.line \in Seq(Signal),
         NEW k \in Nat, NEW l \in Nat,
         \A i \in 1 .. Len(h.line) : h.line[i] = f.line[IF i <= k THEN i ELSE i + l]
                                     /\ (IF i <= k THEN i ELSE i + l) \in 1 .. Len(f.line)
  PROVE  Lined(h) /\ Out(h) \subseteq Out(f)
<1> DEFINE at(i) == IF i <= k THEN i ELSE i + l
           q == h.line
           r == f.line
<1>1. /\ Len(q) \in Nat /\ Len(r) \in Nat
      /\ \A i \in 1 .. Len(q) : q[i] = r[at(i)] /\ at(i) \in 1 .. Len(r)
      /\ \A m : m \in Out(h) <=> \E i \in 1 .. Len(q) : q[i] = m
      /\ \A m : m \in Out(f) <=> \E i \in 1 .. Len(r) : r[i] = m
  BY OutIs DEF Lined
<1>2. \A i, j \in 1 .. Len(q) : (i < j => at(i) < at(j)) /\ (at(i) = at(j) => i = j)
  BY <1>1
<1>3. Distinct(r) /\ Ordered(f) /\ h.line = q /\ f.line = r /\ q \in Seq(Signal)
  BY DEF Lined
<1> HIDE DEF at, q, r
<1>4. Distinct(q)
  BY <1>1, <1>2, <1>3 DEF Distinct
<1>5. Ordered(h)
  BY <1>1, <1>2, <1>3 DEF Ordered, Holds
<1>6. Out(h) \subseteq Out(f)
  BY <1>1
<1> QED BY <1>3, <1>4, <1>5, <1>6 DEF Lined

\* The first signal is taken.
LEMMA LineRest ==
  ASSUME NEW f, NEW h, Lined(f), h.link = f.link, f.line # <<>>, h.line = Tail(f.line)
  PROVE  Lined(h) /\ Out(h) = Out(f) \ {Head(f.line)} /\ Head(f.line) \in Out(f) /\ Head(f.line) \in Signal
<1> DEFINE q == h.line
           r == f.line
<1>1. /\ r \in Seq(Signal) /\ Len(r) \in Nat \ {0} /\ q \in Seq(Signal) /\ Len(q) = Len(r) - 1
      /\ Head(r) = r[1] /\ \A i \in 1 .. Len(q) : q[i] = r[i + 1] /\ i + 1 \in 1 .. Len(r)
  BY DEF Lined
<1>2. \A i \in 1 .. Len(r) : i = 1 \/ (i - 1 \in 1 .. Len(q) /\ (i - 1) + 1 = i)
  BY <1>1
<1>3. /\ \A m : m \in Out(f) <=> \E i \in 1 .. Len(r) : r[i] = m
      /\ \A m : m \in Out(h) <=> \E i \in 1 .. Len(q) : q[i] = m
      /\ \A i \in 1 .. Len(r) : r[i] \in Signal
  BY <1>1, OutIs
<1>4. Distinct(r)
  BY DEF Lined
<1>5. Lined(h)
  <2>1. \A i \in 1 .. Len(h.line) : h.line[i] = f.line[IF i <= 0 THEN i ELSE i + 1]
                                     /\ (IF i <= 0 THEN i ELSE i + 1) \in 1 .. Len(f.line)
    BY <1>1
  <2>2. h.line \in Seq(Signal) /\ 0 \in Nat /\ 1 \in Nat
    BY <1>1
  <2> QED BY <2>1, <2>2, LineShorter
<1> HIDE DEF q, r
<1>6. 1 \in 1 .. Len(r) /\ \A i \in 1 .. Len(q) : i + 1 # 1
  BY <1>1
<1>7. \A m : m \in Out(h) <=> m \in Out(f) /\ m # r[1]
  <2> SUFFICES ASSUME NEW m PROVE m \in Out(h) <=> m \in Out(f) /\ m # r[1]
    OBVIOUS
  <2>1. m \in Out(h) => m \in Out(f) /\ m # r[1]
    <3>1. ASSUME NEW i \in 1 .. Len(q) PROVE r[i + 1] # r[1] /\ \E j \in 1 .. Len(r) : r[j] = q[i]
      BY <1>1, <1>4, <1>6 DEF Distinct
    <3> QED BY <1>1, <1>3, <3>1
  <2>2. m \in Out(f) /\ m # r[1] => m \in Out(h)
    <3>1. ASSUME NEW i \in 1 .. Len(r), r[i] # r[1] PROVE \E j \in 1 .. Len(q) : q[j] = r[i]
      BY <1>1, <1>2, <3>1
    <3> QED BY <1>3, <3>1
  <2> QED BY <2>1, <2>2
<1>8. Head(r) \in Out(f) /\ Head(r) \in Signal
  BY <1>1, <1>3, <1>6
<1> QED BY <1>1, <1>5, <1>7, <1>8 DEF r

\* The head of what is on the wire, passed over while others wait.
LEMMA LineSkip ==
  ASSUME NEW f, NEW h, NEW c \in Seq(Signal), NEW v \in Seq(Signal), v # <<>>, Lined(f), h.link = f.link,
         f.line = c \o v, h.line = c \o Tail(v)
  PROVE  Lined(h) /\ Out(h) = Out(f) \ {Head(v)} /\ Head(v) \in Out(f)
<1> DEFINE q == h.line
           r == f.line
           n == Len(c)
           at(i) == IF i <= n THEN i ELSE i + 1
<1>1. /\ n \in Nat /\ Len(v) \in Nat \ {0} /\ Tail(v) \in Seq(Signal) /\ Len(Tail(v)) = Len(v) - 1
      /\ \A i \in 1 .. Len(v) - 1 : Tail(v)[i] = v[i + 1]
      /\ Head(v) = v[1]
  OBVIOUS
<1>2. /\ r \in Seq(Signal) /\ Len(r) = n + Len(v) /\ \A i \in 1 .. Len(r) : r[i] = IF i <= n THEN c[i] ELSE v[i - n]
  BY <1>1
<1>3. /\ q \in Seq(Signal) /\ Len(q) = n + Len(v) - 1 /\ \A i \in 1 .. Len(q) : q[i] = IF i <= n THEN c[i] ELSE Tail(v)[i - n]
  BY <1>1
<1>4. \A i \in 1 .. Len(q) : q[i] = r[at(i)] /\ at(i) \in 1 .. Len(r) /\ at(i) # n + 1
  <2> SUFFICES ASSUME NEW i \in 1 .. Len(q) PROVE q[i] = r[at(i)] /\ at(i) \in 1 .. Len(r) /\ at(i) # n + 1
    OBVIOUS
  <2>1. CASE i <= n
    BY <1>1, <1>2, <1>3, <2>1
  <2>2. CASE ~(i <= n)
    <3>1. i - n \in 1 .. Len(v) - 1 /\ (i - n) + 1 = (i + 1) - n /\ i + 1 \in 1 .. Len(r) /\ ~(i + 1 <= n)
      BY <1>1, <1>2, <1>3, <2>2
    <3>2. q[i] = v[(i + 1) - n] /\ r[i + 1] = v[(i + 1) - n]
      BY <1>1, <1>2, <1>3, <2>2, <3>1
    <3> QED BY <1>1, <2>2, <3>1, <3>2
  <2> QED BY <2>1, <2>2
<1>5. \A j \in 1 .. Len(r) : j # n + 1 => \E i \in 1 .. Len(q) : at(i) = j
  <2> SUFFICES ASSUME NEW j \in 1 .. Len(r), j # n + 1 PROVE \E i \in 1 .. Len(q) : at(i) = j
    OBVIOUS
  <2>1. CASE j <= n
    <3>1. j \in 1 .. Len(q) /\ at(j) = j
      BY <1>1, <1>2, <1>3, <2>1
    <3> QED BY <3>1
  <2>2. CASE ~(j <= n)
    <3>1. j - 1 \in 1 .. Len(q) /\ at(j - 1) = j
      BY <1>1, <1>2, <1>3, <2>2
    <3> QED BY <3>1
  <2> QED BY <2>1, <2>2
<1>6. n + 1 \in 1 .. Len(r) /\ r[n + 1] = Head(v)
  <2>1. ~(n + 1 <= n) /\ (n + 1) - n = 1 /\ n + 1 \in 1 .. Len(r)
    BY <1>1, <1>2
  <2>2. r[n + 1] = IF n + 1 <= n THEN c[n + 1] ELSE v[(n + 1) - n]
    BY <1>2, <2>1
  <2> QED BY <1>1, <2>1, <2>2
<1>7. /\ \A m : m \in Out(f) <=> \E i \in 1 .. Len(r) : r[i] = m
      /\ \A m : m \in Out(h) <=> \E i \in 1 .. Len(q) : q[i] = m
  BY <1>2, <1>3, OutIs
<1>8. Distinct(r)
  BY DEF Lined
<1>9. Lined(h)
  <2>1. \A i \in 1 .. Len(h.line) : h.line[i] = f.line[IF i <= n THEN i ELSE i + 1]
                                     /\ (IF i <= n THEN i ELSE i + 1) \in 1 .. Len(f.line)
    BY <1>4
  <2>2. h.line \in Seq(Signal) /\ n \in Nat /\ 1 \in Nat
    BY <1>1, <1>3
  <2> HIDE DEF n
  <2> QED BY <2>1, <2>2, LineShorter
<1> HIDE DEF q, r, n, at
<1>10. \A m : m \in Out(h) <=> m \in Out(f) /\ m # Head(v)
  <2> SUFFICES ASSUME NEW m PROVE m \in Out(h) <=> m \in Out(f) /\ m # Head(v)
    OBVIOUS
  <2>1. m \in Out(h) => m \in Out(f) /\ m # Head(v)
    <3>1. ASSUME NEW i \in 1 .. Len(q) PROVE q[i] # Head(v) /\ \E j \in 1 .. Len(r) : r[j] = q[i]
      BY <1>4, <1>6, <1>8 DEF Distinct
    <3> QED BY <1>7, <3>1
  <2>2. m \in Out(f) /\ m # Head(v) => m \in Out(h)
    <3>1. ASSUME NEW j \in 1 .. Len(r), r[j] # Head(v) PROVE \E i \in 1 .. Len(q) : q[i] = r[j]
      <4>1. PICK i \in 1 .. Len(q) : at(i) = j
        BY <1>5, <1>6, <3>1
      <4> QED BY <1>4, <4>1
    <3> QED BY <1>7, <3>1
  <2> QED BY <2>1, <2>2
<1> QED BY <1>6, <1>7, <1>9, <1>10

\* What waited is gone, and the rest is not.
LEMMA LineDropped ==
  ASSUME NEW f, NEW h, NEW c \in Seq(Signal), NEW v \in Seq(Signal), Lined(f), h.link = f.link,
         f.line = c \o v, h.line = v
  PROVE  Lined(h) /\ Out(h) \subseteq Out(f) /\ \A m \in Out(f) : m \in Out(h) \/ m \in ToSet(c)
<1> DEFINE q == h.line
           r == f.line
           n == Len(c)
<1>1. /\ n \in Nat /\ Len(v) \in Nat /\ r \in Seq(Signal) /\ Len(r) = n + Len(v)
      /\ \A i \in 1 .. Len(r) : r[i] = IF i <= n THEN c[i] ELSE v[i - n]
  OBVIOUS
<1>2. \A i \in 1 .. Len(v) : i + n \in 1 .. Len(r) /\ v[i] = r[i + n] /\ ~(i <= 0)
  <2> SUFFICES ASSUME NEW i \in 1 .. Len(v) PROVE i + n \in 1 .. Len(r) /\ v[i] = r[i + n] /\ ~(i <= 0)
    OBVIOUS
  <2>1. i + n \in 1 .. Len(r) /\ (i + n) - n = i /\ ~(i + n <= n) /\ ~(i <= 0)
    BY <1>1
  <2>2. r[i + n] = IF i + n <= n THEN c[i + n] ELSE v[(i + n) - n]
    BY <1>1, <2>1
  <2> QED BY <2>1, <2>2
<1>3. Lined(h) /\ Out(h) \subseteq Out(f)
  <2>1. \A i \in 1 .. Len(h.line) : h.line[i] = f.line[IF i <= 0 THEN i ELSE i + n]
                                     /\ (IF i <= 0 THEN i ELSE i + n) \in 1 .. Len(f.line)
    BY <1>2
  <2>2. h.line \in Seq(Signal) /\ n \in Nat /\ 0 \in Nat
    BY <1>1
  <2> HIDE DEF n
  <2> QED BY <2>1, <2>2, LineShorter
<1>4. ASSUME NEW m \in Out(f) PROVE m \in Out(h) \/ m \in ToSet(c)
  <2>1. PICK i \in 1 .. Len(r) : r[i] = m
    BY <1>1, OutIs
  <2>2. CASE i <= n
    <3>1. i \in DOMAIN c /\ c[i] = m
      BY <1>1, <2>1, <2>2
    <3> QED BY <3>1 DEF ToSet
  <2>3. CASE ~(i <= n)
    <3>1. i - n \in 1 .. Len(v) /\ v[i - n] = m
      BY <1>1, <2>1, <2>3
    <3>2. \A k \in 1 .. Len(h.line) : h.line[k] \in Out(h)
      BY OutIs
    <3> QED BY <3>1, <3>2
  <2> QED BY <2>2, <2>3
<1> QED BY <1>3, <1>4

\* Behind an offer of the link that is there nothing is closed.
LEMMA LineOpen ==
  ASSUME NEW f, NEW c \in Seq(Signal), NEW v \in Seq(Signal), v # <<>>, Lined(f), f.line = c \o v,
         Head(v).type = "close", NEW m \in ToSet(c), m.type = "offer"
  PROVE  ~Holds(f, m.id)
<1> DEFINE r == f.line
           n == Len(c)
<1>1. /\ n \in Nat /\ Len(v) \in Nat \ {0} /\ r \in Seq(Signal) /\ Len(r) = n + Len(v)
      /\ \A i \in 1 .. Len(r) : r[i] = IF i <= n THEN c[i] ELSE v[i - n]
      /\ Head(v) = v[1] /\ DOMAIN c = 1 .. n
  OBVIOUS
<1>2. PICK i \in 1 .. n : c[i] = m
  BY <1>1 DEF ToSet
<1>3. n + 1 \in 1 .. Len(r) /\ i \in 1 .. Len(r) /\ i < n + 1 /\ i <= n /\ ~(n + 1 <= n) /\ (n + 1) - n = 1
  BY <1>1
<1>4. r[i] = m /\ r[n + 1] = v[1]
  <2>1. r[n + 1] = IF n + 1 <= n THEN c[n + 1] ELSE v[(n + 1) - n]
    BY <1>1, <1>3
  <2> QED BY <1>1, <1>2, <1>3, <2>1
<1>5. Ordered(f)
  BY DEF Lined
<1> HIDE DEF r
<1>6. f.line = r
  BY DEF r
<1> QED BY <1>1, <1>3, <1>4, <1>5, <1>6 DEF Ordered

-------------------------------------------------------------------------------
(* The steps of an end that take no signal.                                  *)

\* The parts of PairOK.
LEMMA PairParts ==
  ASSUME NEW a, NEW b, NEW e, NEW f, NEW d, NEW x, PairOK(a, b, e, f, d, x)
  PROVE  /\ Core(a, b, e, f, d) /\ Core(b, a, f, e, d) /\ Lined(e) /\ Lined(f)
         /\ x \/ Unended(a, b, e, f, d)
         /\ PairOK(b, a, f, e, d, x)
<1>1. Unended(a, b, e, f, d) => Unended(b, a, f, e, d)
  BY Symmetric
<1> QED BY <1>1 DEF PairOK, Half

\* A pair from its parts.
LEMMA PairWhole ==
  ASSUME NEW a, NEW b, NEW e, NEW f, NEW d, NEW x,
         Core(a, b, e, f, d), Core(b, a, f, e, d), Lined(e), Lined(f), x \/ Unended(a, b, e, f, d)
  PROVE  PairOK(a, b, e, f, d, x)
BY DEF PairOK, Half

\* No signal is said, and no link comes.
LEMMA LineSame ==
  ASSUME NEW e, NEW g, Lined(e), g.line = e.line, \A id : Holds(g, id) => Holds(e, id)
  PROVE  Lined(g) /\ Out(g) = Out(e)
BY LineLeft

\* The answer has been taken.
LEMMA AcceptedPair ==
  ASSUME NEW a, NEW b, a # b, NEW e, NEW f, NEW g, NEW d, NEW x, NEW w \in e.works,
         PairOK(a, b, e, f, d, x), w.does = "accept", Holds(e, w.id),
         g.link \in Link, g.link.id = e.link.id, g.link.initiatedLocally = e.link.initiatedLocally,
         g.link.stage = "accepted", g.link # None,
         g.line = e.line, g.works = e.works \ {w}
  PROVE  PairOK(a, b, g, f, d, x)
<1>1. Core(a, b, e, f, d) /\ Core(b, a, f, e, d) /\ Lined(e) /\ Lined(f) /\ (x \/ Unended(a, b, e, f, d))
  BY PairParts
<1>2. Lined(g) /\ Out(g) = Out(e)
  <2>1. \A id : Holds(g, id) => Holds(e, id)
    BY DEF Holds
  <2> QED BY <1>1, <2>1, LineSame
<1>3. Core(a, b, g, f, d) /\ Core(b, a, f, g, d)
  BY <1>1, <1>2, AcceptedCore
<1>4. Unended(a, b, e, f, d) => Unended(a, b, g, f, d)
  <2>1. /\ w.does \in {"accept", "answer"} /\ Out(e) \subseteq Out(g)
        /\ \A m \in Out(g) : m \in Out(e) \/ m.type = "answer"
    BY <1>2
  <2> QED BY <1>1, <2>1, AcceptedUnended
<1> QED BY <1>1, <1>2, <1>3, <1>4, PairWhole

\* The answer has been made, and is sent.
LEMMA AnsweredPair ==
  ASSUME NEW a, NEW b, a # b, NEW e, NEW f, NEW g, NEW d, NEW x, NEW w \in e.works, NEW k \in Signal,
         PairOK(a, b, e, f, d, x), w.does = "answer", Holds(e, w.id),
         g.link \in Link, g.link.id = e.link.id, g.link.initiatedLocally = e.link.initiatedLocally,
         g.link.stage = "answered", g.link # None, k.type = "answer", k.id = w.id,
         g.line = Append(e.line, k), g.works = e.works \ {w}
  PROVE  PairOK(a, b, g, f, d, x)
<1>1. Core(a, b, e, f, d) /\ Core(b, a, f, e, d) /\ Lined(e) /\ Lined(f) /\ (x \/ Unended(a, b, e, f, d))
  BY PairParts
<1>2. k \notin Out(e)
  <2>1. /\ \A m \in Out(e) : m.id = w.id => m.type # "answer"
    <3>1. Awaited(a, b, e, w, d) /\ At(e, "answering") /\ e.link.id = w.id
      <4>1. Awaited(a, b, e, w, d)
        BY <1>1, WorkDone
      <4> QED BY <4>1 DEF Awaited
    <3>2. Life(f, e)
      BY <1>1 DEF Core
    <3> QED BY <3>1, <3>2 DEF Life
  <2> QED BY <2>1
<1>3. Lined(g) /\ Out(g) = Out(e) \cup {k}
  <2>1. \A id : Holds(g, id) => Holds(e, id) /\ k.type # "close"
    BY DEF Holds
  <2> QED BY <1>1, <1>2, <2>1, LineLonger
<1>4. Core(a, b, g, f, d) /\ Core(b, a, f, g, d)
  BY <1>1, <1>3, AnsweredCore
<1>5. Unended(a, b, e, f, d) => Unended(a, b, g, f, d)
  <2>1. /\ w.does \in {"accept", "answer"} /\ Out(e) \subseteq Out(g)
        /\ \A m \in Out(g) : m \in Out(e) \/ m.type = "answer"
    BY <1>3
  <2> QED BY <1>1, <2>1, AcceptedUnended
<1> QED BY <1>1, <1>3, <1>4, <1>5, PairWhole

\* The offer has been made, and is sent.
LEMMA OfferedPair ==
  ASSUME NEW a, NEW b, a # b, NEW e, NEW f, NEW g, NEW d, NEW x, NEW w \in e.works,
         PairOK(a, b, e, f, d, x), w.does = "offer", Holds(e, w.id), Offer(w.id) \in Signal,
         g.link \in Link, g.link.id = e.link.id, g.link.initiatedLocally = e.link.initiatedLocally,
         g.link.stage = "offered", g.link # None,
         g.line = Append(e.line, Offer(w.id)), g.works = e.works \ {w}
  PROVE  PairOK(a, b, g, f, d, x)
<1>1. Core(a, b, e, f, d) /\ Core(b, a, f, e, d) /\ Lined(e) /\ Lined(f) /\ (x \/ Unended(a, b, e, f, d))
  BY PairParts
<1>2. Offer(w.id) \notin Out(e)
  <2>1. At(e, "offering") /\ e.link.id = w.id
    <3>1. Awaited(a, b, e, w, d)
      BY <1>1, WorkDone
    <3> QED BY <3>1 DEF Awaited
  <2> QED BY <1>1, <2>1 DEF Core, Life
<1>3. Lined(g) /\ Out(g) = Out(e) \cup {Offer(w.id)}
  <2>1. \A id : Holds(g, id) => Holds(e, id) /\ Offer(w.id).type # "close"
    BY DEF Holds, Offer
  <2> HIDE DEF Offer
  <2> QED BY <1>1, <1>2, <2>1, LineLonger
<1>4. Core(a, b, g, f, d) /\ Core(b, a, f, g, d)
  BY <1>1, <1>3, OfferedCore
<1>5. Unended(a, b, e, f, d) => Unended(a, b, g, f, d)
  BY <1>1, <1>3, OfferedUnended
<1> QED BY <1>1, <1>3, <1>4, <1>5, PairWhole

\* The connection is ready.
LEMMA ReadyPair ==
  ASSUME NEW a, NEW b, a # b, NEW e, NEW f, NEW g, NEW d, NEW x,
         PairOK(a, b, e, f, d, x), e.link # None, e.link.stage \in {"accepted", "answered"},
         g.link \in Link, g.link.id = e.link.id, g.link.initiatedLocally = e.link.initiatedLocally,
         g.link.stage = "ready", g.link # None,
         g.line = e.line, g.works = e.works
  PROVE  PairOK(a, b, g, f, d, x)
<1>1. Core(a, b, e, f, d) /\ Core(b, a, f, e, d) /\ Lined(e) /\ Lined(f) /\ (x \/ Unended(a, b, e, f, d))
  BY PairParts
<1>2. Lined(g) /\ Out(g) = Out(e)
  <2>1. \A id : Holds(g, id) => Holds(e, id)
    BY DEF Holds
  <2> QED BY <1>1, <2>1, LineSame
<1>3. Core(a, b, g, f, d) /\ Core(b, a, f, g, d)
  BY <1>1, <1>2, ReadyCore
<1>4. Unended(a, b, e, f, d) => Unended(a, b, g, f, d)
  BY <1>2, ReadyUnended
<1> QED BY <1>1, <1>2, <1>3, <1>4, PairWhole

\* Work whose link is gone is over.
LEMMA OverPair ==
  ASSUME NEW a, NEW b, NEW e, NEW f, NEW g, NEW d, NEW x, NEW w,
         PairOK(a, b, e, f, d, x), ~Holds(e, w.id),
         g.link = e.link, g.line = e.line, g.works = e.works \ {w}
  PROVE  PairOK(a, b, g, f, d, x)
<1>1. Core(a, b, e, f, d) /\ Core(b, a, f, e, d) /\ Lined(e) /\ Lined(f) /\ (x \/ Unended(a, b, e, f, d))
  BY PairParts
<1>2. Lined(g) /\ Out(g) = Out(e)
  <2>1. \A id : Holds(g, id) => Holds(e, id)
    BY DEF Holds
  <2> QED BY <1>1, <2>1, LineSame
<1>3. Core(a, b, g, f, d) /\ Core(b, a, f, g, d)
  BY <1>1, <1>2, OverCore
<1>4. Unended(a, b, e, f, d) => Unended(a, b, g, f, d)
  <2>1. Out(f) \subseteq Out(f) /\ \A m \in Out(f) : m \in Out(f) \/ (m.type # "offer" /\ ~Holds(e, m.id))
    OBVIOUS
  <2> QED BY <1>2, <2>1, PassedUnended
<1> QED BY <1>1, <1>2, <1>3, <1>4, PairWhole

\* The dial begins, with a connection id nobody has.
LEMMA DialledPair ==
  ASSUME NEW a, NEW b, a # b, NEW e, NEW f, NEW g, NEW d, NEW c, NEW x, NEW id \in Ids, NEW w \in Work,
         PairOK(a, b, e, f, d, x), e.link = None,
         d[id] = <<>>, c = [d EXCEPT ![id] = <<a, b>>], id \in DOMAIN d,
         w.peer = b, w.id = id, w.does = "offer", w.generation = 0, ~w.chained,
         g.link = [id |-> id, initiatedLocally |-> TRUE, stage |-> "offering"], g.link # None,
         g.line = e.line, g.works = e.works \cup {w}
  PROVE  PairOK(a, b, g, f, c, x)
<1>1. Core(a, b, e, f, d) /\ Core(b, a, f, e, d) /\ Lined(e) /\ Lined(f) /\ (x \/ Unended(a, b, e, f, d))
  BY PairParts
<1>2. Lined(g) /\ Out(g) = Out(e)
  <2>1. \A m \in Out(e) : m.id # id
    <3>1. \A m \in Out(e) : d[m.id] \in {<<a, b>>, <<b, a>>}
      BY <1>1 DEF Core, Roles, SignalRole
    <3>2. <<a, b>> # <<>> /\ <<b, a>> # <<>>
      OBVIOUS
    <3> QED BY <3>1, <3>2
  <2>2. \A i : Holds(g, i) => i = id
    BY DEF Holds
  <2>3. \A i : Holds(g, i) => Holds(e, i) \/ \A m \in Out(e) : m.type = "offer" => m.id # i
    BY <2>1, <2>2
  <2> QED BY <1>1, <2>3, LineLeft
<1>3. Core(a, b, g, f, c) /\ Core(b, a, f, g, c)
  BY <1>1, <1>2, DialledCore
<1>4. Unended(a, b, e, f, d) => Unended(a, b, g, f, c)
  <2>1. g.link.id = id /\ g.link.stage = "offering"
    OBVIOUS
  <2> QED BY <1>1, <1>2, <2>1, DialledUnended
<1> QED BY <1>1, <1>2, <1>3, <1>4, PairWhole

-------------------------------------------------------------------------------
(* The steps of an end that take a signal.                                   *)

\* An offer is its type and its id.
LEMMA OfferIs ==
  ASSUME NEW m \in Signal, m.type = "offer"
  PROVE  m = Offer(m.id)
BY DEF Signal, Offer

\* The other end has lost the first signal of its line.
Taken(f, h, m) == f.line # <<>> /\ m = Head(f.line) /\ h.line = Tail(f.line) /\ h.link = f.link /\ h.works = f.works

\* What is left to say when the first signal is taken.
LEMMA TakenLine ==
  ASSUME NEW f, NEW h, NEW m, Lined(f), Taken(f, h, m)
  PROVE  Lined(h) /\ Out(h) = Out(f) \ {m} /\ m \in Out(f) /\ m \in Signal /\ h.link = f.link /\ h.works = f.works
BY LineRest DEF Taken

\* A collision only in favour of a lower dial; want of capacity ends the link.
Refusing(e, g, k, x, y) ==
  \/ y
  \/ (x => y) /\ k.type = "collision" /\ g.link = e.link /\ e.link # None
       /\ e.link.id # k.id /\ Wins(e.link.id, k.id)

RefusedBy(e, f, g, h, id, k) ==
  /\ \A w \in e.works : ~w.chained
  /\ Offer(id) \in Out(f) /\ Out(h) = Out(f) \ {Offer(id)} /\ h.link = f.link /\ h.works = f.works
  /\ k.type \in Refusals /\ k.id = id /\ Out(g) = Out(e) \cup {k} /\ g.works = e.works
  /\ g.link = e.link \/ g.link = None

\* An offer is refused, for a lower id or for want of capacity.
LEMMA RefusedByCore ==
  ASSUME NEW a, NEW b, a # b, NEW e, NEW f, NEW g, NEW h, NEW d, NEW id, NEW k \in Signal,
         Core(a, b, e, f, d), Core(b, a, f, e, d), RefusedBy(e, f, g, h, id, k)
  PROVE  Core(a, b, g, h, d) /\ Core(b, a, h, g, d)
<1>1. /\ \A w \in e.works : ~w.chained
      /\ Offer(id) \in Out(f) /\ Out(h) = Out(f) \ {Offer(id)} /\ h.link = f.link /\ h.works = f.works
      /\ k.type \in Refusals /\ k.id = id /\ Out(g) = Out(e) \cup {k} /\ g.works = e.works
      /\ g.link = e.link \/ g.link = None
  BY DEF RefusedBy
<1>2. \A m \in Out(h) : m # Offer(id)
  BY <1>1
<1> QED BY <1>1, <1>2, RefusedCore

\* An offer is refused: in favour of the link that is there, or for want of
\* capacity.
LEMMA RefusedPair ==
  ASSUME NEW a, NEW b, a # b, NEW e, NEW f, NEW g, NEW h, NEW d, NEW x, NEW y, NEW k \in Signal, NEW m,
         PairOK(a, b, e, f, d, x), \A w \in e.works : ~w.chained, Taken(f, h, m), m.type = "offer",
         k.type \in Refusals, k.id = m.id, g.line = Append(e.line, k), g.works = e.works,
         g.link = e.link \/ g.link = None, Refusing(e, g, k, x, y)
  PROVE  PairOK(a, b, g, h, d, y)
<1> DEFINE id == m.id
<1>1. Core(a, b, e, f, d) /\ Core(b, a, f, e, d) /\ Lined(e) /\ Lined(f) /\ (x \/ Unended(a, b, e, f, d))
  BY PairParts
<1>2. Lined(h) /\ Out(h) = Out(f) \ {m} /\ m \in Out(f) /\ m \in Signal /\ h.link = f.link /\ h.works = f.works
  BY <1>1, TakenLine
<1>3. m = Offer(id)
  BY <1>2, OfferIs, Zenon
<1>4. k.type # "offer" /\ k.type # "answer" /\ k.type # "close"
  BY DEF Refusals
<1>7. k.id = id
  OBVIOUS
<1> HIDE DEF id
<1>5. k \notin Out(e)
  <2>1. Fresh(f, e, id)
    BY <1>1, <1>2, <1>3 DEF Core, Life, Offer
  <2> QED BY <1>7, <2>1 DEF Fresh
<1>6. Lined(g) /\ Out(g) = Out(e) \cup {k}
  <2>1. \A i : Holds(g, i) => Holds(e, i) /\ k.type # "close"
    BY <1>4 DEF Holds
  <2> QED BY <1>1, <1>5, <2>1, LineLonger
<1>8. Core(a, b, g, h, d) /\ Core(b, a, h, g, d)
  <2>1. Offer(id) \in Out(f) /\ Out(h) = Out(f) \ {Offer(id)} 
    BY <1>2, <1>3
  <2>2. h.link = f.link /\ h.works = f.works
    BY <1>2
  <2>3. Core(a, b, e, f, d) /\ Core(b, a, f, e, d)
    BY <1>1
  <2>4. Out(g) = Out(e) \cup {k}
    BY <1>6
  <2>5. RefusedBy(e, f, g, h, id, k)
    BY <1>7, <2>1, <2>2, <2>4 DEF RefusedBy
  <2> QED BY <2>3, <2>5, RefusedByCore
<1>9. y \/ Unended(a, b, g, h, d)
  <2> SUFFICES ASSUME ~y PROVE Unended(a, b, g, h, d)
    OBVIOUS
  <2>1. /\ Unended(a, b, e, f, d) /\ k.type = "collision" /\ g.link = e.link /\ e.link # None
        /\ e.link.id # id /\ Wins(e.link.id, id)
    BY <1>1, <1>7 DEF Refusing
  <2>2. k = [type |-> "collision", id |-> id]
    BY <1>7, <2>1 DEF Signal
  <2>3. Offer(id) \in Out(f) /\ Out(h) = Out(f) \ {Offer(id)}
    BY <1>2, <1>3
  <2> QED BY <1>1, <1>2, <1>6, <2>1, <2>2, <2>3, RefusedUnended
<1> QED BY <1>1, <1>2, <1>6, <1>8, <1>9, PairWhole

\* An offer is answered, in place of the link it beats.
LEMMA AnsweringPair ==
  ASSUME NEW a, NEW b, a # b, NEW e, NEW f, NEW g, NEW h, NEW d, NEW x, NEW w \in Work, NEW id, NEW m,
         PairOK(a, b, e, f, d, x), \A v \in e.works : ~v.chained,
         Taken(f, h, m), m.type = "offer", id = m.id,
         ~(e.link # None /\ e.link.id # id /\ Wins(e.link.id, id)),
         w.peer = b, w.id = id, w.does = "answer", w.generation = 0, w.chained,
         g.link = [id |-> id, initiatedLocally |-> FALSE, stage |-> "answering"], g.link # None,
         g.line = e.line, g.works = e.works \cup {w}
  PROVE  PairOK(a, b, g, h, d, x)
<1>1. Core(a, b, e, f, d) /\ Core(b, a, f, e, d) /\ Lined(e) /\ Lined(f) /\ (x \/ Unended(a, b, e, f, d))
  BY PairParts
<1>2. Lined(h) /\ Out(h) = Out(f) \ {m} /\ m \in Out(f) /\ m \in Signal /\ h.link = f.link /\ h.works = f.works
  BY <1>1, TakenLine
<1>3. m = Offer(id)
  BY <1>2, OfferIs, Zenon
<1>4. Offer(id) \in Out(f) /\ Out(h) = Out(f) \ {Offer(id)}
  BY <1>2, <1>3
<1>5. Lined(g) /\ Out(g) = Out(e)
  <2>1. Fresh(f, e, id)
    BY <1>1, <1>4 DEF Core, Life, Offer
  <2>2. \A n \in Out(e) : n.id # id
    BY <2>1 DEF Fresh
  <2>3. \A i : Holds(g, i) => i = id
    BY DEF Holds
  <2>4. \A i : Holds(g, i) => Holds(e, i) \/ \A n \in Out(e) : n.type = "offer" => n.id # i
    BY <2>2, <2>3
  <2> QED BY <1>1, <2>4, LineLeft
<1>6. Core(a, b, g, h, d) /\ Core(b, a, h, g, d)
  BY <1>1, <1>2, <1>4, <1>5, AnsweringCore
<1>7. Unended(a, b, e, f, d) => Unended(a, b, g, h, d)
  <2>1. g.link.id = id
    OBVIOUS
  <2> QED BY <1>1, <1>2, <1>4, <1>5, <2>1, AnsweringUnended
<1> QED BY <1>1, <1>2, <1>5, <1>6, <1>7, PairWhole

\* The answer to the link that is there is taken.
LEMMA AcceptingPair ==
  ASSUME NEW a, NEW b, a # b, NEW e, NEW f, NEW g, NEW h, NEW d, NEW x, NEW w \in Work, NEW k,
         PairOK(a, b, e, f, d, x),
         Taken(f, h, k), k.type = "answer", Holds(e, k.id),
         w.peer = b, w.id = k.id, w.does = "accept", w.generation = 0, w.chained,
         g.link = e.link, g.line = e.line, g.works = e.works \cup {w}
  PROVE  PairOK(a, b, g, h, d, x)
<1>1. Core(a, b, e, f, d) /\ Core(b, a, f, e, d) /\ Lined(e) /\ Lined(f) /\ (x \/ Unended(a, b, e, f, d))
  BY PairParts
<1>2. Lined(h) /\ Out(h) = Out(f) \ {k} /\ k \in Out(f) /\ h.link = f.link /\ h.works = f.works
  BY <1>1, TakenLine
<1>3. Lined(g) /\ Out(g) = Out(e)
  <2>1. \A id : Holds(g, id) => Holds(e, id)
    BY DEF Holds
  <2> QED BY <1>1, <2>1, LineSame
<1>4. Core(a, b, g, h, d) /\ Core(b, a, h, g, d)
  BY <1>1, <1>2, <1>3, AcceptingCore
<1>5. Unended(a, b, e, f, d) => Unended(a, b, g, h, d)
  BY <1>1, <1>2, <1>3, AcceptingUnended
<1> QED BY <1>1, <1>2, <1>3, <1>4, <1>5, PairWhole

\* The other end has lost the first signal of its wire, behind those that wait.
Skipped(f, h, c, v, m) ==
  v # <<>> /\ m = Head(v) /\ f.line = c \o v /\ h.line = c \o Tail(v) /\ h.link = f.link /\ h.works = f.works

\* What is left to say when a signal overtakes those of the chain.
LEMMA SkippedLine ==
  ASSUME NEW f, NEW h, NEW c \in Seq(Signal), NEW v \in Seq(Signal), NEW m, Lined(f), Skipped(f, h, c, v, m)
  PROVE  Lined(h) /\ Out(h) = Out(f) \ {m} /\ m \in Out(f) /\ h.link = f.link /\ h.works = f.works
<1>1. v # <<>> /\ m = Head(v) /\ f.line = c \o v /\ h.line = c \o Tail(v) /\ h.link = f.link /\ h.works = f.works
  BY DEF Skipped
<1>2. Lined(h) /\ Out(h) = Out(f) \ {Head(v)} /\ Head(v) \in Out(f)
  BY <1>1, LineSkip
<1> QED BY <1>1, <1>2

\* A signal about a link that is not there is passed over: the next of the
\* line, or the first on the wire when some wait before it.
LEMMA PassedPair ==
  ASSUME NEW a, NEW b, NEW e, NEW f, NEW g, NEW h, NEW d, NEW x,
         NEW c \in Seq(Signal), NEW v \in Seq(Signal), NEW m,
         PairOK(a, b, e, f, d, x), m.type # "offer", ~Holds(e, m.id), Skipped(f, h, c, v, m),
         g.link = e.link, g.line = e.line, g.works = e.works
  PROVE  PairOK(a, b, g, h, d, x)
<1>1. Core(a, b, e, f, d) /\ Core(b, a, f, e, d) /\ Lined(e) /\ Lined(f) /\ (x \/ Unended(a, b, e, f, d))
  BY PairParts
<1>2. Lined(h) /\ Out(h) = Out(f) \ {m} /\ m \in Out(f) /\ h.link = f.link /\ h.works = f.works
  BY <1>1, SkippedLine
<1>4. Out(h) \subseteq Out(f) /\ \A k \in Out(f) : k \in Out(h) \/ (k.type # "offer" /\ ~Holds(e, k.id))
  BY <1>2
<1>5. Lined(g) /\ Out(g) = Out(e)
  <2>1. \A id : Holds(g, id) => Holds(e, id)
    BY DEF Holds
  <2> QED BY <1>1, <2>1, LineSame
<1>6. Core(a, b, g, h, d) /\ Core(b, a, h, g, d)
  BY <1>1, <1>2, <1>4, <1>5, PassedCore
<1>7. Unended(a, b, e, f, d) => Unended(a, b, g, h, d)
  BY <1>2, <1>4, <1>5, PassedUnended
<1> QED BY <1>1, <1>2, <1>5, <1>6, <1>7, PairWhole

-------------------------------------------------------------------------------
(* The steps of an end that end its link.                                    *)

\* The works of e go on unheard in g.
Abandons(e, g) ==
  \A v \in g.works : v \in Work /\ ~v.chained /\ \E w \in e.works :
    v.peer = w.peer /\ v.id = w.id /\ v.does = w.does /\ v.generation = w.generation

\* While signals wait there is work they wait for; only offers and answers wait.
Queued(e, c) ==
  /\ c \in Seq(Signal)
  /\ c # <<>> => \E w \in e.works : w.chained
  /\ \A m \in ToSet(c) : m.type \in {"offer", "answer"}

\* The link of e is gone; the other has lost the signals c that waited, and
\* those of its line that are not offers of a link it holds.
GoneBy(e, f, g, h) ==
  /\ e.link # None /\ g.link = None /\ Abandons(e, g)
  /\ Out(h) \subseteq Out(f) /\ h.link = f.link /\ h.works = f.works
  /\ \A m \in Out(f) : m \in Out(h) \/ m.type # "offer" \/ ~Holds(f, m.id)
  /\ At(e, "answering") /\ Holds(f, e.link.id) => \E m \in Out(g) : m.id = e.link.id

\* A link goes, with or without a word.
LEMMA GoneByCore ==
  ASSUME NEW a, NEW b, a # b, NEW e, NEW f, NEW g, NEW h, NEW d,
         Core(a, b, e, f, d), Core(b, a, f, e, d), GoneBy(e, f, g, h),
         Out(g) = Out(e) \/ Out(g) = Out(e) \cup {[type |-> "close", id |-> e.link.id]}
  PROVE  Core(a, b, g, h, d) /\ Core(b, a, h, g, d)
<1>1. /\ e.link # None /\ g.link = None
      /\ Out(h) \subseteq Out(f) /\ h.link = f.link /\ h.works = f.works
      /\ \A m \in Out(f) : m \in Out(h) \/ m.type # "offer" \/ ~Holds(f, m.id)
      /\ At(e, "answering") /\ Holds(f, e.link.id) => \E m \in Out(g) : m.id = e.link.id
  BY DEF GoneBy
<1>2. \A v \in g.works : v \in Work /\ ~v.chained /\ \E w \in e.works :
        v.peer = w.peer /\ v.id = w.id /\ v.does = w.does /\ v.generation = w.generation
  BY DEF GoneBy, Abandons
<1>3. e.link.id \in Ids
  BY <1>1 DEF Core, Roles, LinkRole, Link
<1> QED BY <1>1, <1>2, <1>3, GoneCore

\* A signal waits only at an end that answers or takes an answer.
LEMMA Waiting ==
  ASSUME NEW a, NEW b, a # b, NEW e, NEW f, NEW d, NEW c, Core(a, b, e, f, d), Queued(e, c), c # <<>>
  PROVE  /\ At(e, "answering") \/ At(e, "offered")
         /\ At(e, "offered") => ~Unaccepted(e, e.link.id)
<1>1. PICK w \in e.works : w.chained
  BY DEF Queued
<1>2. Holds(e, w.id) /\ w.does # "offer" /\ w \in Work
  BY <1>1 DEF Core, Working, Roles, WorkRole
<1>3. /\ w.does = "answer" => At(e, "answering")
      /\ w.does = "accept" => At(e, "offered")
      /\ w.id = e.link.id
  BY <1>1, <1>2 DEF Core, Working, Holds
<1>4. w.does = "answer" \/ w.does = "accept"
  BY <1>2 DEF Work
<1> QED BY <1>1, <1>2, <1>3, <1>4 DEF Unaccepted, Unheeded

\* A rejection or a close of the link that is there is obeyed, and the chain
\* retired.
LEMMA ObeyedPair ==
  ASSUME NEW a, NEW b, a # b, NEW e, NEW f, NEW g, NEW h, NEW d, NEW x,
         NEW c, NEW v \in Seq(Signal), NEW u \in Seq(Signal), NEW m \in Signal,
         PairOK(a, b, e, f, d, x), Queued(e, c), Abandons(e, g),
         v # <<>>, m = Head(v), u = Tail(v), f.line = c \o v,
         m.type \in Refusals \cup {"close"}, Holds(e, m.id),
         h.line = u, h.link = f.link, h.works = f.works,
         g.link = None, g.line = e.line
  PROVE  PairOK(a, b, g, h, d, x)
<1>1. Core(a, b, e, f, d) /\ Core(b, a, f, e, d) /\ Lined(e) /\ Lined(f) /\ (x \/ Unended(a, b, e, f, d))
  BY PairParts
<1>2. c \in Seq(Signal) /\ \A k \in ToSet(c) : k.type \in {"offer", "answer"}
  BY DEF Queued
<1>3. Lined(h) /\ Out(h) \subseteq Out(f) /\ m \in Out(f)
      /\ \A k \in Out(f) : k \in Out(h) \/ k = m \/ k \in ToSet(c)
  <2> DEFINE j == [link |-> f.link, line |-> v, works |-> f.works]
             i == [link |-> f.link, line |-> c \o u, works |-> f.works]
  <2>1. j.link = f.link /\ j.line = v
    OBVIOUS
  <2>2. i.link = f.link /\ i.line = c \o Tail(v)
    OBVIOUS
  <2> HIDE DEF j, i
  <2>3. Lined(j) /\ Out(j) \subseteq Out(f) /\ \A k \in Out(f) : k \in Out(j) \/ k \in ToSet(c)
    BY <1>1, <1>2, <2>1, LineDropped
  <2>4. h.line = Tail(j.line) /\ j.line # <<>> /\ h.link = j.link
    BY <2>1
  <2>5. Lined(h) /\ Out(h) = Out(j) \ {Head(j.line)} /\ Head(j.line) \in Out(j)
    BY <2>3, <2>4, LineRest
  <2>6. m = Head(j.line)
    BY <2>1
  <2> QED BY <2>3, <2>5, <2>6
<1>4. Lined(g) /\ Out(g) = Out(e)
  <2>1. \A id : Holds(g, id) => Holds(e, id)
    BY DEF Holds
  <2> QED BY <1>1, <2>1, LineSame
<1>5. m.type # "close" => c = <<>> /\ ~At(e, "answering")
  <2> SUFFICES ASSUME m.type \in Refusals PROVE c = <<>> /\ ~At(e, "answering")
    OBVIOUS
  <2>1. Unaccepted(e, m.id) /\ d[m.id] = <<a, b>> /\ e.link # None /\ e.link.id = m.id
    BY <1>1, <1>3 DEF Core, Life, Roles, SignalRole, Holds
  <2>2. e.link.stage = "offered"
    BY <2>1 DEF Unaccepted, Holds, At
  <2> QED BY <1>1, <2>1, <2>2, Waiting DEF At
<1>6. m.type = "close" => ~Holds(f, m.id) /\ \A k \in ToSet(c) : k.type = "offer" => ~Holds(f, k.id)
  <2>1. m.type = "close" => ~Holds(f, m.id)
    BY <1>1, <1>3 DEF Core, Life
  <2>2. m.type = "close" => \A k \in ToSet(c) : k.type = "offer" => ~Holds(f, k.id)
    BY <1>1, <1>2, LineOpen
  <2> QED BY <2>1, <2>2
<1>7. \A k \in Out(f) : k \in Out(h) \/ k.type # "offer" \/ ~Holds(f, k.id)
  <2>1. m.type # "offer"
    BY DEF Refusals
  <2>2. c = <<>> => ToSet(c) = {}
    BY DEF ToSet
  <2> QED BY <1>3, <1>5, <1>6, <2>1, <2>2
<1>8. At(e, "answering") => ~Holds(f, e.link.id)
  BY <1>5, <1>6 DEF Holds
<1>9. GoneBy(e, f, g, h)
  BY <1>3, <1>7, <1>8 DEF GoneBy, Holds
<1>10. Core(a, b, g, h, d) /\ Core(b, a, h, g, d)
  BY <1>1, <1>4, <1>9, GoneByCore
<1>11. Unended(a, b, e, f, d) => Unended(a, b, g, h, d)
  <2> SUFFICES ASSUME Unended(a, b, e, f, d) PROVE Unended(a, b, g, h, d)
    OBVIOUS
  <2>1. m.type = "collision"
    BY <1>3 DEF Unended, Refusals
  <2>2. m = [type |-> "collision", id |-> m.id]
    BY <2>1 DEF Signal
  <2>3. Beaten(e, f)
    BY <1>3, <2>2 DEF Beaten, Holds
  <2> QED BY <1>1, <1>3, <1>4, <1>7, <2>3, BeatenUnended
<1> QED BY <1>1, <1>3, <1>4, <1>10, <1>11, PairWhole

\* A hang-up: a close is sent, and the chain retired that held no offer.
LEMMA HungUpPair ==
  ASSUME NEW a, NEW b, a # b, NEW e, NEW f, NEW g, NEW h, NEW d, NEW x,
         NEW c \in Seq(Signal), NEW v \in Seq(Signal), NEW k \in Signal,
         PairOK(a, b, e, f, d, x), Abandons(e, g), \A m \in ToSet(c) : m.type # "offer",
         f.line = c \o v, h.line = v, h.link = f.link, h.works = f.works,
         e.link # None, k.type = "close", k.id = e.link.id,
         g.link = None, g.line = Append(e.line, k)
  PROVE  PairOK(a, b, g, h, d, TRUE)
<1>1. Core(a, b, e, f, d) /\ Core(b, a, f, e, d) /\ Lined(e) /\ Lined(f)
  BY PairParts
<1>2. Lined(h) /\ Out(h) \subseteq Out(f) /\ \A m \in Out(f) : m \in Out(h) \/ m \in ToSet(c)
  BY <1>1, LineDropped
<1>3. k = [type |-> "close", id |-> e.link.id]
  BY DEF Signal
<1>4. k \notin Out(e)
  BY <1>1 DEF Core, Life, Holds
<1>5. Lined(g) /\ Out(g) = Out(e) \cup {k}
  <2>1. \A id : Holds(g, id) => Holds(e, id) /\ k.type # "close"
    BY DEF Holds
  <2> QED BY <1>1, <1>4, <2>1, LineLonger
<1>6. GoneBy(e, f, g, h)
  BY <1>2, <1>5 DEF GoneBy
<1>7. Core(a, b, g, h, d) /\ Core(b, a, h, g, d)
  BY <1>1, <1>3, <1>5, <1>6, GoneByCore
<1> QED BY <1>1, <1>2, <1>5, <1>7, PairWhole

\* A link that has its descriptions goes because the other end is not there:
\* nothing waits for it, and it cannot have been the link that a collision
\* keeps.
LEMMA FailedPair ==
  ASSUME NEW a, NEW b, a # b, NEW e, NEW f, NEW g, NEW h, NEW d, NEW x,
         NEW c, NEW v \in Seq(Signal),
         PairOK(a, b, e, f, d, x), Queued(e, c), Abandons(e, g),
         e.link # None, e.link.stage \in {"accepted", "answered", "ready"}, ~Holds(f, e.link.id),
         f.line = c \o v, h.line = v, h.link = f.link, h.works = f.works,
         g.link = None, g.line = e.line
  PROVE  PairOK(a, b, g, h, d, x)
<1>1. Core(a, b, e, f, d) /\ Core(b, a, f, e, d) /\ Lined(e) /\ Lined(f) /\ (x \/ Unended(a, b, e, f, d))
  BY PairParts
<1>2. ~At(e, "answering") /\ ~At(e, "offered") /\ ~At(e, "offering")
  BY DEF At
<1>3. c = <<>>
  BY <1>1, <1>2, Waiting
<1>4. h.line = f.line
  BY <1>3
<1>5. Lined(h) /\ Out(h) = Out(f)
  <2>1. \A id : Holds(h, id) => Holds(f, id)
    BY DEF Holds
  <2> QED BY <1>1, <1>4, <2>1, LineSame
<1>6. Lined(g) /\ Out(g) = Out(e)
  <2>1. \A id : Holds(g, id) => Holds(e, id)
    BY DEF Holds
  <2> QED BY <1>1, <2>1, LineSame
<1>7. GoneBy(e, f, g, h)
  BY <1>2, <1>5 DEF GoneBy
<1>8. Core(a, b, g, h, d) /\ Core(b, a, h, g, d)
  BY <1>1, <1>6, <1>7, GoneByCore
<1>9. ~Unended(a, b, e, f, d)
  <2>1. ~Calling(e, f)
    BY <1>2 DEF Calling
  <2>2. ~Won(e, f) /\ ~Won(f, e)
    BY DEF Won, Hopeful, Holds
  <2> QED BY <2>1, <2>2 DEF Unended, Undecided
<1> QED BY <1>1, <1>5, <1>6, <1>8, <1>9, PairWhole

-------------------------------------------------------------------------------
(* From the parts of a handler to an end of a pair.                          *)

\* A step of a pool for p leaves what is for the others alone.
Apart(p, s, t) ==
  /\ \A q \in Participants : q # p =>
       t.peers[q] = s.peers[q] /\ t.chains[q] = s.chains[q] /\ t.sends[q] = s.sends[q]
  /\ \A w \in Work : w.peer # p => (w \in t.works <=> w \in s.works)

\* The link, the signals sent and the new works of p after a signal or an await.
Turned(p, s, t, l, c, ws) ==
  /\ t.peers = [s.peers EXCEPT ![p] = l] /\ t.chains = s.chains
  /\ t.sends = [s.sends EXCEPT ![p] = c] /\ t.works = s.works \cup ws

\* A part that turns to p leaves the others.
LEMMA TurnedApart ==
  ASSUME NEW p \in Participants, NEW s \in Parts, NEW t, NEW l, NEW c, NEW ws,
         Turned(p, s, t, l, c, ws), \A w \in ws : w.peer = p
  PROVE  Apart(p, s, t)
<1>1. /\ s.peers \in [Participants -> Link \cup {None}]
      /\ s.sends \in [Participants -> Seq(Signal)]
  BY DEF Parts
<1>2. \A q \in Participants : q # p =>
        t.peers[q] = s.peers[q] /\ t.chains[q] = s.chains[q] /\ t.sends[q] = s.sends[q]
  BY <1>1 DEF Turned
<1>3. \A w \in Work : w.peer # p => (w \in t.works <=> w \in s.works)
  BY DEF Turned
<1> QED BY <1>2, <1>3 DEF Apart

\* So do two parts, one after the other.
LEMMA ApartTrans ==
  ASSUME NEW p, NEW s, NEW t, NEW u, Apart(p, s, t), Apart(p, t, u)
  PROVE  Apart(p, s, u)
BY DEF Apart

\* What sending, beginning work and setting a link change.
LEMMA SendingIs ==
  ASSUME NEW s \in Parts, NEW p \in Participants, NEW type, NEW id
  PROVE  Turned(p, s, Sending(s, p, type, id), s.peers[p],
                Append(s.sends[p], [type |-> type, id |-> id]), {})
<1> DEFINE c == Append(s.sends[p], [type |-> type, id |-> id])
           t == [s EXCEPT !.sends[p] = c]
<1>1. s.peers = [s.peers EXCEPT ![p] = s.peers[p]] /\ s.works = s.works \cup {}
  BY DEF Parts
<1>2. t = Sending(s, p, type, id)
  BY DEF Sending
<1> HIDE DEF c
<1>3. t.peers = s.peers /\ t.chains = s.chains /\ t.works = s.works /\ t.sends = [s.sends EXCEPT ![p] = c]
  BY DEF Parts
<1> HIDE DEF t
<1>4. Turned(p, s, t, s.peers[p], c, {})
  BY <1>1, <1>3 DEF Turned
<1> QED BY <1>2, <1>4 DEF c

\* Work on the link id of p, begun in this generation.
WorkFor(n, p, id, does) ==
  [peer |-> p, id |-> id, does |-> does, generation |-> pool[n].generation, chained |-> does # "offer"]

\* Work begins.
LEMMA BeginIs ==
  ASSUME NEW n, NEW s \in Parts, NEW p \in Participants, NEW id, NEW does
  PROVE  Turned(p, s, Begin(n, s, p, id, does), s.peers[p], s.sends[p],
                {WorkFor(n, p, id, does)})
<1> DEFINE w == WorkFor(n, p, id, does)
           t == [s EXCEPT !.works = s.works \cup {w}]
<1>1. s.peers = [s.peers EXCEPT ![p] = s.peers[p]] /\ s.sends = [s.sends EXCEPT ![p] = s.sends[p]]
  BY DEF Parts
<1>2. t = Begin(n, s, p, id, does)
  BY DEF Begin, WorkFor
<1> HIDE DEF w
<1>3. t.peers = s.peers /\ t.chains = s.chains /\ t.works = s.works \cup {w} /\ t.sends = s.sends
  BY DEF Parts
<1> HIDE DEF t
<1>4. Turned(p, s, t, s.peers[p], s.sends[p], {w})
  BY <1>1, <1>3 DEF Turned
<1> QED BY <1>2, <1>4 DEF w

\* A link is replaced.
LEMMA LinkIs ==
  ASSUME NEW s \in Parts, NEW p \in Participants, NEW l \in Link \cup {None}
  PROVE  /\ Turned(p, s, [s EXCEPT !.peers[p] = l], l, s.sends[p], {})
         /\ [s EXCEPT !.peers[p] = l] \in Parts
<1> DEFINE t == [s EXCEPT !.peers[p] = l]
<1>1. s.sends = [s.sends EXCEPT ![p] = s.sends[p]] /\ s.works = s.works \cup {}
  BY DEF Parts
<1>2. t.peers = [s.peers EXCEPT ![p] = l] /\ t.chains = s.chains /\ t.works = s.works /\ t.sends = s.sends
  BY DEF Parts
<1>3. t \in Parts
  BY PartsChanged
<1> HIDE DEF t
<1>4. Turned(p, s, t, l, s.sends[p], {})
  BY <1>1, <1>2 DEF Turned
<1> QED BY <1>3, <1>4 DEF t

\* Two parts that turn to p are one.
LEMMA TurnedTrans ==
  ASSUME NEW p \in Participants, NEW s \in Parts, NEW t, NEW u, NEW l, NEW c, NEW ws, NEW k, NEW e, NEW vs,
         Turned(p, s, t, l, c, ws), Turned(p, t, u, k, e, vs)
  PROVE  Turned(p, s, u, k, e, ws \cup vs)
<1>1. s.peers \in [Participants -> Link \cup {None}] /\ s.sends \in [Participants -> Seq(Signal)]
  BY DEF Parts
<1> QED BY <1>1 DEF Turned

\* What p has after a part that turns to it.
LEMMA TurnedHas ==
  ASSUME NEW p \in Participants, NEW s \in Parts, NEW t, NEW l, NEW c, NEW ws, Turned(p, s, t, l, c, ws)
  PROVE  t.peers[p] = l /\ t.sends[p] = c
<1>1. s.peers \in [Participants -> Link \cup {None}] /\ s.sends \in [Participants -> Seq(Signal)]
  BY DEF Parts
<1> QED BY <1>1 DEF Turned

\* What a signal about p does to the pool.
Collides(s, p, id) == s.peers[p] # None /\ s.peers[p].id # id /\ Wins(s.peers[p].id, id)
Answering(id) == [id |-> id, initiatedLocally |-> FALSE, stage |-> "answering"]
Told(type, id) == [type |-> type, id |-> id]

Replies(n, s, p, m, t) ==
  \/ /\ m.type = "offer" /\ Collides(s, p, m.id)
     /\ Turned(p, s, t, s.peers[p], Append(s.sends[p], Told("collision", m.id)), {})
  \/ /\ m.type = "offer" /\ ~Collides(s, p, m.id)
     /\ Turned(p, s, t, None, Append(s.sends[p], Told("capacity", m.id)), {})
  \/ /\ m.type = "offer" /\ ~Collides(s, p, m.id)
     /\ Turned(p, s, t, Answering(m.id), s.sends[p], {WorkFor(n, p, m.id, "answer")})
  \/ /\ m.type = "answer" /\ HasLink(s, p, m.id)
     /\ Turned(p, s, t, s.peers[p], s.sends[p], {WorkFor(n, p, m.id, "accept")})
  \/ /\ m.type # "offer" /\ (m.type = "answer" => ~HasLink(s, p, m.id))
     /\ Turned(p, s, t, s.peers[p], s.sends[p], {})

\* An offer is handled in one of the ways of Replies.
LEMMA OfferReplies ==
  ASSUME NEW n, NEW s \in Parts, NEW p \in Participants, NEW id \in Ids, NEW m, m.type = "offer", m.id = id
  PROVE  Replies(n, s, p, m, OfferHandled(n, s, p, id))
<1> DEFINE free == IF s.peers[p] = None THEN s ELSE [s EXCEPT !.peers[p] = None]
           t == [free EXCEPT !.peers[p] = Answering(id)]
<1>1. Answering(id) \in Link \cup {None} /\ None \in Link \cup {None}
  BY DEF Answering, Link
<1> HIDE DEF Answering
<1>2. free \in Parts /\ Turned(p, s, free, None, s.sends[p], {})
  <2>1. CASE s.peers[p] = None
    BY <2>1 DEF Turned, Parts
  <2>2. CASE s.peers[p] # None
    BY <1>1, <2>2, LinkIs
  <2> QED BY <2>1, <2>2
<1>3. CASE Collides(s, p, id)
  BY <1>3, SendingIs DEF Replies, OfferHandled, Collides, Told
<1>4. CASE ~Collides(s, p, id)
  <2>1. OfferHandled(n, s, p, id) =
          IF ~HasCapacity(free) THEN Sending(free, p, "capacity", id) ELSE Begin(n, t, p, id, "answer")
    BY <1>4 DEF OfferHandled, Collides, Answering
  <2> HIDE DEF free
  <2>2. t \in Parts /\ Turned(p, free, t, Answering(id), free.sends[p], {})
    BY <1>1, <1>2, LinkIs
  <2> HIDE DEF t
  <2>3. free.peers[p] = None /\ free.sends[p] = s.sends[p]
    BY <1>2, TurnedHas
  <2>4. t.peers[p] = Answering(id) /\ t.sends[p] = s.sends[p]
    BY <1>2, <2>2, <2>3, TurnedHas
  <2>5. Turned(p, free, Sending(free, p, "capacity", id), None, Append(s.sends[p], Told("capacity", id)), {})
    BY <1>2, <2>3, SendingIs DEF Told
  <2>6. Turned(p, s, Sending(free, p, "capacity", id), None, Append(s.sends[p], Told("capacity", id)), {} \cup {})
    BY <1>2, <2>5, TurnedTrans, Zenon
  <2>7. Turned(p, t, Begin(n, t, p, id, "answer"), Answering(id), s.sends[p], {WorkFor(n, p, id, "answer")})
    <3>1. Turned(p, t, Begin(n, t, p, id, "answer"), t.peers[p], t.sends[p], {WorkFor(n, p, id, "answer")})
      BY <2>2, BeginIs
    <3> QED BY <2>4, <3>1
  <2>8. Turned(p, s, t, Answering(id), s.sends[p], {} \cup {})
    BY <1>2, <2>2, <2>3, TurnedTrans
  <2>9. Turned(p, s, Begin(n, t, p, id, "answer"), Answering(id), s.sends[p],
               ({} \cup {}) \cup {WorkFor(n, p, id, "answer")})
    <3> DEFINE w == WorkFor(n, p, id, "answer")
               u == Begin(n, t, p, id, "answer")
               c == s.sends[p]
               l == Answering(id)
    <3>1. Turned(p, t, u, l, c, {w}) /\ Turned(p, s, t, l, c, {} \cup {})
      BY <2>7, <2>8
    <3> HIDE DEF w, u, c, l
    <3>2. Turned(p, s, u, l, c, ({} \cup {}) \cup {w})
      BY <3>1, TurnedTrans
    <3> QED BY <3>2 DEF w, u, c, l
  <2>10. /\ Turned(p, s, Sending(free, p, "capacity", id), None, Append(s.sends[p], Told("capacity", id)), {})
         /\ Turned(p, s, Begin(n, t, p, id, "answer"), Answering(id), s.sends[p], {WorkFor(n, p, id, "answer")})
    <3>1. {} \cup {} = {} /\ ({} \cup {}) \cup {WorkFor(n, p, id, "answer")} = {WorkFor(n, p, id, "answer")}
      OBVIOUS
    <3> QED BY <2>6, <2>9, <3>1, Zenon
  <2> QED BY <1>4, <2>1, <2>10 DEF Replies
<1> QED BY <1>3, <1>4

\* So is every signal.
LEMMA HandledReplies ==
  ASSUME NEW n, NEW s \in Parts, NEW p \in Participants, NEW m \in Signal
  PROVE  Replies(n, s, p, m, Handled(n, s, p, m))
<1>1. m.id \in Ids
  BY DEF Signal
<1>2. CASE m.type = "offer"
  BY <1>1, <1>2, OfferReplies DEF Handled
<1>3. CASE m.type = "answer" /\ HasLink(s, p, m.id)
  <2>1. Turned(p, s, Begin(n, s, p, m.id, "accept"), s.peers[p], s.sends[p], {WorkFor(n, p, m.id, "accept")})
    BY BeginIs
  <2>2. Handled(n, s, p, m) = Begin(n, s, p, m.id, "accept")
    BY <1>3 DEF Handled
  <2> QED BY <1>3, <2>1, <2>2 DEF Replies
<1>4. CASE m.type # "offer" /\ (m.type = "answer" => ~HasLink(s, p, m.id))
  <2>1. Turned(p, s, s, s.peers[p], s.sends[p], {})
    BY DEF Turned, Parts
  <2>2. Handled(n, s, p, m) = s
    BY <1>4 DEF Handled
  <2> QED BY <1>4, <2>1, <2>2 DEF Replies
<1> QED BY <1>2, <1>3, <1>4

-------------------------------------------------------------------------------
(* One signal handled.                                                       *)

\* The end of a pool for p in the state s of a step, when the signals L of it
\* waited or were on their way before.
PartEnd(L, p, s) == [link |-> s.peers[p], line |-> L \o s.sends[p], works |-> {w \in s.works : w.peer = p}]

\* The pool ends a link of p in the step.
Ends(p, s) == \E m \in ToSet(s.sends[p]) : m.type \in {"capacity", "close"}

\* The end of the pool and the end f of p are as PairInv has them.
Fits(n, p, L, s, f, d, b) == PairOK(n, p, PartEnd(L, p, s), f, d, b \/ Ends(p, s))

\* The end e has become g.
Moved(e, g, l, c, k, ws) == /\ g.link = l /\ g.line = k /\ g.works = e.works \cup ws
                            /\ e.line = c

\* What holds of a pair holds of one that a hang-up has ended.
LEMMA PairMore ==
  ASSUME NEW a, NEW b, NEW e, NEW f, NEW d, NEW x, NEW y, PairOK(a, b, e, f, d, x), x => y
  PROVE  PairOK(a, b, e, f, d, y)
BY DEF PairOK

\* The end of a pool that turned to p has moved.
LEMMA TurnedEnd ==
  ASSUME NEW p \in Participants, NEW s \in Parts, NEW t, NEW l, NEW c, NEW ws, NEW L,
         Turned(p, s, t, l, c, ws), \A w \in ws : w.peer = p
  PROVE  Moved(PartEnd(L, p, s), PartEnd(L, p, t), l, L \o s.sends[p], L \o c, ws)
<1>1. t.peers[p] = l /\ t.sends[p] = c
  BY TurnedHas
<1>2. t.works = s.works \cup ws
  BY DEF Turned
<1>3. {w \in t.works : w.peer = p} = {w \in s.works : w.peer = p} \cup ws
  BY <1>2
<1> QED BY <1>1, <1>3 DEF PartEnd, Moved

\* The signal last sent is the last to be handled.
LEMMA Appended ==
  ASSUME NEW L \in Seq(Signal), NEW q \in Seq(Signal), NEW k \in Signal
  PROVE  /\ L \o Append(q, k) = Append(L \o q, k) /\ ToSet(Append(q, k)) = ToSet(q) \cup {k}
         /\ L \o q \in Seq(Signal)
<1>1. L \o Append(q, k) = Append(L \o q, k) /\ L \o q \in Seq(Signal)
  OBVIOUS
<1> DEFINE r == Append(q, k)
<1>2. /\ Len(r) = Len(q) + 1 /\ Len(q) \in Nat /\ DOMAIN q = 1 .. Len(q) /\ DOMAIN r = 1 .. Len(r)
      /\ \A i \in 1 .. Len(q) : r[i] = q[i]
      /\ r[Len(q) + 1] = k
  OBVIOUS
<1> HIDE DEF r
<1>3. 1 .. Len(r) = 1 .. Len(q) \cup {Len(q) + 1}
  BY <1>2
<1>4. \A m : (\E i \in DOMAIN r : r[i] = m) <=> (\E i \in DOMAIN q : q[i] = m) \/ m = k
  BY <1>2, <1>3
<1>5. ToSet(r) = ToSet(q) \cup {k}
  <2>1. \A m : m \in ToSet(r) <=> m \in ToSet(q) \/ m = k
    <3>1. \A u, m : m \in ToSet(u) <=> \E i \in DOMAIN u : u[i] = m
      BY Zenon DEF ToSet
    <3> QED BY <1>4, <3>1, Zenon
  <2> QED BY <2>1
<1> QED BY <1>1, <1>5 DEF r

\* An offer is refused.
LEMMA CollisionPair ==
  ASSUME NEW n, NEW p \in Participants, n # p, NEW s \in Parts, NEW L \in Seq(Signal), NEW t,
         NEW f, NEW h, NEW d, NEW b, NEW m \in Signal,
         Fits(n, p, L, s, f, d, b), ~Waits(s, p), Taken(f, h, m),
         m.type = "offer", NEW l, NEW k \in Signal, k.id = m.id,
         \/ k.type = "collision" /\ Collides(s, p, m.id) /\ l = s.peers[p]
         \/ k.type = "capacity" /\ l = None,
         Turned(p, s, t, l, Append(s.sends[p], k), {})
  PROVE  Fits(n, p, L, t, h, d, b)
<1> DEFINE e == PartEnd(L, p, s)
           g == PartEnd(L, p, t)
           x == b \/ Ends(p, s)
           y == b \/ Ends(p, t)
<1>1. s.sends[p] \in Seq(Signal)
  BY DEF Parts
<1>2. /\ g.link = l /\ g.line = L \o Append(s.sends[p], k) /\ g.works = e.works \cup {}
      /\ e.link = s.peers[p] /\ e.line = L \o s.sends[p]
  <2>1. \A w \in {} : w.peer = p
    OBVIOUS
  <2>2. Moved(PartEnd(L, p, s), PartEnd(L, p, t), l, L \o s.sends[p], L \o Append(s.sends[p], k), {})
    BY <2>1, TurnedEnd
  <2> QED BY <2>2 DEF Moved, PartEnd
<1>3. \A w \in e.works : ~w.chained
  BY DEF Waits, PartEnd
<1>4. Ends(p, t) <=> Ends(p, s) \/ k.type = "capacity"
  <2>1. t.sends[p] = Append(s.sends[p], k)
    BY TurnedHas
  <2>2. ToSet(t.sends[p]) = ToSet(s.sends[p]) \cup {k}
    BY <1>1, <2>1, Appended
  <2>3. k.type # "close"
    OBVIOUS
  <2> QED BY <2>2, <2>3 DEF Ends
<1>5. PairOK(n, p, e, f, d, x)
  BY DEF Fits
<1> HIDE DEF e, g
<1>6. g.line = Append(e.line, k) /\ g.works = e.works
  BY <1>1, <1>2, Appended
<1>7. Refusing(e, g, k, x, y) /\ (g.link = e.link \/ g.link = None) /\ k.type \in Refusals
  BY <1>2, <1>4 DEF Refusing, Collides, Refusals
<1> HIDE DEF x, y
<1>8. PairOK(n, p, g, h, d, y)
  BY <1>3, <1>5, <1>6, <1>7, RefusedPair
<1> QED BY <1>8 DEF g, y, Fits

\* A part that says nothing ends no pair.
LEMMA QuietEnds ==
  ASSUME NEW p \in Participants, NEW s \in Parts, NEW t, NEW l, NEW ws, Turned(p, s, t, l, s.sends[p], ws)
  PROVE  Ends(p, t) <=> Ends(p, s)
BY TurnedHas DEF Ends

\* An offer is answered.
LEMMA AnswerPair ==
  ASSUME PoolTyped, NEW n \in Participants, NEW p \in Participants, n # p, pool[n].generation = 0,
         NEW s \in Parts, NEW L \in Seq(Signal), NEW t,
         NEW f, NEW h, NEW d, NEW b, NEW m \in Signal,
         Fits(n, p, L, s, f, d, b), ~Waits(s, p), Taken(f, h, m),
         m.type = "offer", ~Collides(s, p, m.id),
         Turned(p, s, t, Answering(m.id), s.sends[p], {WorkFor(n, p, m.id, "answer")})
  PROVE  Fits(n, p, L, t, h, d, b)
<1> DEFINE e == PartEnd(L, p, s)
           g == PartEnd(L, p, t)
           x == b \/ Ends(p, s)
           y == b \/ Ends(p, t)
           w == WorkFor(n, p, m.id, "answer")
           id == m.id
<1>1. w \in Work /\ w.peer = p /\ w.id = id /\ w.does = "answer" /\ w.generation = 0 /\ w.chained
  BY DEF WorkFor, Work, Signal, PoolTyped
<1>2. /\ g.link = Answering(id) /\ g.line = L \o s.sends[p] /\ g.works = e.works \cup {w}
      /\ e.link = s.peers[p] /\ e.line = L \o s.sends[p]
  <2>1. \A v \in {w} : v.peer = p
    BY <1>1
  <2> HIDE DEF w
  <2>2. Moved(PartEnd(L, p, s), PartEnd(L, p, t), Answering(m.id), L \o s.sends[p], L \o s.sends[p], {w})
    BY <2>1, TurnedEnd DEF w
  <2> QED BY <2>2 DEF Moved, PartEnd
<1>3. \A v \in e.works : ~v.chained
  BY DEF Waits, PartEnd
<1>4. y <=> x
  <2>1. Ends(p, t) <=> Ends(p, s)
    BY QuietEnds, Zenon
  <2> QED BY <2>1
<1>5. PairOK(n, p, e, f, d, x) /\ id = m.id /\ ~(s.peers[p] # None /\ s.peers[p].id # id /\ Wins(s.peers[p].id, id))
  BY DEF Collides, Fits
<1> HIDE DEF e, g, x, y, w, id
<1>6. ~(e.link # None /\ e.link.id # id /\ Wins(e.link.id, id))
  BY <1>2, <1>5
<1>7. g.link = [id |-> id, initiatedLocally |-> FALSE, stage |-> "answering"] /\ g.link # None
  <2>1. Answering(id) \in Link
    BY <1>5 DEF Answering, Link, Signal
  <2> QED BY <1>2, <2>1, LinkAssumption DEF Answering
<1>8. g.line = e.line
  BY <1>2
<1>9. PairOK(n, p, g, h, d, x)
  BY <1>1, <1>2, <1>3, <1>5, <1>6, <1>7, <1>8, AnsweringPair
<1>10. PairOK(n, p, g, h, d, y)
  BY <1>4, <1>9, PairMore
<1> QED BY <1>10 DEF g, y, Fits

\* An answer is worked on.
LEMMA AcceptPair ==
  ASSUME PoolTyped, NEW n \in Participants, NEW p \in Participants, n # p, pool[n].generation = 0,
         NEW s \in Parts, NEW L \in Seq(Signal), NEW t,
         NEW f, NEW h, NEW d, NEW b, NEW m \in Signal,
         Fits(n, p, L, s, f, d, b), Taken(f, h, m),
         m.type = "answer", HasLink(s, p, m.id),
         Turned(p, s, t, s.peers[p], s.sends[p], {WorkFor(n, p, m.id, "accept")})
  PROVE  Fits(n, p, L, t, h, d, b)
<1> DEFINE e == PartEnd(L, p, s)
           g == PartEnd(L, p, t)
           x == b \/ Ends(p, s)
           y == b \/ Ends(p, t)
           w == WorkFor(n, p, m.id, "accept")
<1>1. w \in Work /\ w.peer = p /\ w.id = m.id /\ w.does = "accept" /\ w.generation = 0 /\ w.chained
  BY DEF WorkFor, Work, Signal, PoolTyped
<1>2. /\ g.link = s.peers[p] /\ g.line = L \o s.sends[p] /\ g.works = e.works \cup {w}
      /\ e.link = s.peers[p] /\ e.line = L \o s.sends[p]
  <2>1. \A v \in {w} : v.peer = p
    BY <1>1
  <2> HIDE DEF w
  <2>2. Moved(PartEnd(L, p, s), PartEnd(L, p, t), s.peers[p], L \o s.sends[p], L \o s.sends[p], {w})
    BY <2>1, TurnedEnd DEF w
  <2> QED BY <2>2 DEF Moved, PartEnd
<1>3. y <=> x
  <2>0. t.sends[p] = s.sends[p]
    BY TurnedHas
  <2>1. Ends(p, t) <=> Ends(p, s)
    BY <2>0 DEF Ends
  <2> QED BY <2>1
<1>4. PairOK(n, p, e, f, d, x)
  BY DEF Fits
<1>5. Holds(e, m.id)
  BY <1>2 DEF Holds, HasLink
<1> HIDE DEF e, g, x, y, w
<1>6. g.line = e.line /\ g.link = e.link
  BY <1>2
<1>7. PairOK(n, p, g, h, d, x)
  BY <1>1, <1>2, <1>4, <1>5, <1>6, AcceptingPair
<1>8. PairOK(n, p, g, h, d, y)
  BY <1>3, <1>7, PairMore
<1> QED BY <1>8 DEF g, y, Fits

\* A signal for no link is passed over.
LEMMA IgnoredPair ==
  ASSUME NEW n \in Participants, NEW p \in Participants, n # p,
         NEW s \in Parts, NEW L \in Seq(Signal), NEW t,
         NEW f, NEW h, NEW d, NEW b, NEW m \in Signal,
         Fits(n, p, L, s, f, d, b), Taken(f, h, m),
         m.type # "offer", ~HasLink(s, p, m.id),
         Turned(p, s, t, s.peers[p], s.sends[p], {})
  PROVE  Fits(n, p, L, t, h, d, b)
<1> DEFINE e == PartEnd(L, p, s)
           g == PartEnd(L, p, t)
           x == b \/ Ends(p, s)
           y == b \/ Ends(p, t)
           v == f.line
<1>1. /\ g.link = s.peers[p] /\ g.line = L \o s.sends[p] /\ g.works = e.works \cup {}
      /\ e.link = s.peers[p] /\ e.line = L \o s.sends[p]
  <2>1. \A w \in {} : w.peer = p
    OBVIOUS
  <2>2. Moved(PartEnd(L, p, s), PartEnd(L, p, t), s.peers[p], L \o s.sends[p], L \o s.sends[p], {})
    BY <2>1, TurnedEnd
  <2> QED BY <2>2 DEF Moved, PartEnd
<1>2. y <=> x
  <2>1. Ends(p, t) <=> Ends(p, s)
    BY QuietEnds, Zenon
  <2> QED BY <2>1
<1>3. PairOK(n, p, e, f, d, x)
  BY DEF Fits
<1>4. ~Holds(e, m.id)
  BY <1>1 DEF Holds, HasLink
<1> HIDE DEF e, g, x, y
<1>5. g.line = e.line /\ g.link = e.link /\ g.works = e.works
  BY <1>1
<1>6. v \in Seq(Signal) /\ <<>> \in Seq(Signal)
  BY <1>3, PairParts DEF Lined
<1>7. Skipped(f, h, <<>>, v, m)
  BY <1>6 DEF Skipped, Taken
<1> HIDE DEF v
<1>8. PairOK(n, p, g, h, d, x)
  BY <1>3, <1>4, <1>5, <1>6, <1>7, PassedPair
<1>9. PairOK(n, p, g, h, d, y)
  BY <1>2, <1>8, PairMore
<1> QED BY <1>9 DEF g, y, Fits

\* The first signal of the line of the other end is handled.
LEMMA HandledPair ==
  ASSUME PoolTyped, NEW n \in Participants, NEW p \in Participants, n # p, pool[n].generation = 0,
         NEW s \in Parts, NEW L \in Seq(Signal), NEW t,
         NEW f, NEW h, NEW d, NEW b, NEW m \in Signal, m.type \in {"offer", "answer"},
         Fits(n, p, L, s, f, d, b), ~Waits(s, p), Taken(f, h, m),
         Replies(n, s, p, m, t)
  PROVE  Fits(n, p, L, t, h, d, b)
<1>1. Told("collision", m.id) \in Signal /\ Told("capacity", m.id) \in Signal
      /\ Told("collision", m.id).type = "collision" /\ Told("capacity", m.id).type = "capacity"
      /\ Told("collision", m.id).id = m.id /\ Told("capacity", m.id).id = m.id
  BY DEF Told, Signal
<1>2. CASE m.type = "offer" /\ Collides(s, p, m.id)
            /\ Turned(p, s, t, s.peers[p], Append(s.sends[p], Told("collision", m.id)), {})
  BY <1>1, <1>2, CollisionPair
<1>3. CASE m.type = "offer" /\ ~Collides(s, p, m.id)
            /\ Turned(p, s, t, None, Append(s.sends[p], Told("capacity", m.id)), {})
  BY <1>1, <1>3, CollisionPair
<1>4. CASE m.type = "offer" /\ ~Collides(s, p, m.id)
            /\ Turned(p, s, t, Answering(m.id), s.sends[p], {WorkFor(n, p, m.id, "answer")})
  BY <1>4, AnswerPair
<1>5. CASE m.type = "answer" /\ HasLink(s, p, m.id)
            /\ Turned(p, s, t, s.peers[p], s.sends[p], {WorkFor(n, p, m.id, "accept")})
  BY <1>5, AcceptPair
<1>6. CASE m.type # "offer" /\ (m.type = "answer" => ~HasLink(s, p, m.id))
            /\ Turned(p, s, t, s.peers[p], s.sends[p], {})
  BY <1>6, IgnoredPair
<1> QED BY <1>2, <1>3, <1>4, <1>5, <1>6 DEF Replies

-------------------------------------------------------------------------------
(* A chain of signals, and where its handling stops.                         *)

\* What is for the other participants is left alone by a chain.
LEMMA HeardApart ==
  ASSUME NEW n, NEW p \in Participants, NEW s \in Parts, NEW m \in Signal
  PROVE  Apart(p, s, Heard(n, s, p, m)) /\ Handled(n, s, p, m).chains = s.chains
<1>1. Apart(p, s, Handled(n, s, p, m)) /\ Handled(n, s, p, m).chains = s.chains
  <2> DEFINE t == Handled(n, s, p, m)
  <2>1. Replies(n, s, p, m, t)
    BY HandledReplies
  <2> HIDE DEF t
  <2>2. \A id, does : \A w \in {WorkFor(n, p, id, does)} : w.peer = p
    BY DEF WorkFor
  <2>3. \A w \in {} : w.peer = p
    OBVIOUS
  <2>4. PICK l, c, ws : Turned(p, s, t, l, c, ws) /\ \A w \in ws : w.peer = p
    BY <2>1, <2>2, <2>3 DEF Replies
  <2>5. Apart(p, s, t)
    BY <2>4, TurnedApart
  <2> QED BY <2>4, <2>5 DEF Turned, t
<1>2. ASSUME NEW c PROVE Apart(p, s, [s EXCEPT !.chains[p] = c])
  BY DEF Apart, Parts
<1> QED BY <1>1, <1>2 DEF Heard

\* The chain of p is about p alone.
LEMMA ChainApart ==
  ASSUME PoolTyped, NEW n \in Participants, NEW p \in Participants, NEW s \in Within(n)
  PROVE  Apart(p, s, Chained(n, s, p))
<1> DEFINE c == s.chains[p]
           b == [s EXCEPT !.chains[p] = <<>>]
           G == {t \in Within(n) : Apart(p, s, t)}
<1>1. s \in Parts /\ c \in Seq(Signal) /\ <<>> \in Seq(Signal)
  BY DEF Within, Parts
<1>2. b \in G
  <2>1. b \in Parts
    BY <1>1, PartsChanged
  <2>2. b.peers = s.peers /\ b.sends = s.sends
    BY <1>1 DEF Parts
  <2>3. Apart(p, s, b)
    BY <1>1 DEF Apart, Parts
  <2> HIDE DEF b
  <2> QED BY <2>1, <2>2, <2>3, WithinKept
<1>3. Len(c) \in Nat /\ DOMAIN c = 1 .. Len(c) /\ \A i \in 1 .. Len(c) : c[i] \in Signal
  BY <1>1
<1>4. \A t \in G : \A i \in 1 .. Len(c) : Heard(n, t, p, c[i]) \in G
  <2> SUFFICES ASSUME NEW t \in G, NEW i \in 1 .. Len(c) PROVE Heard(n, t, p, c[i]) \in G
    OBVIOUS
  <2>1. t \in Within(n) /\ t \in Parts /\ Apart(p, s, t) /\ c[i] \in Signal
    BY <1>3 DEF Within
  <2> HIDE DEF c
  <2>2. Apart(p, t, Heard(n, t, p, c[i])) /\ Heard(n, t, p, c[i]) \in Within(n)
    BY <2>1, HeardApart, HeardWithin
  <2> QED BY <2>1, <2>2, ApartTrans
<1>5. Chained(n, s, p) \in G
  <2> HIDE DEF G
  <2> QED BY <1>2, <1>3, <1>4, ChainedWithin, Zenon
<1> QED BY <1>5

\* Two queues in one, by place.
LEMMA Joining ==
  ASSUME NEW q \in Seq(Signal), NEW v \in Seq(Signal)
  PROVE  /\ q \o v \in Seq(Signal) /\ Len(q \o v) = Len(q) + Len(v)
         /\ \A k \in 1 .. Len(q) + Len(v) : (q \o v)[k] = IF k <= Len(q) THEN q[k] ELSE v[k - Len(q)]
OBVIOUS

\* Parts of a chain.
LEMMA ChainSplit ==
  ASSUME NEW c \in Seq(Signal), NEW v \in Seq(Signal), NEW i \in 1 .. Len(c)
  PROVE  /\ \A j \in 0 .. i - 1 : Append(SubSeq(c, j + 1, i - 1), c[i]) = SubSeq(c, j + 1, i)
         /\ SubSeq(c, i + 1, i) = <<>>
         /\ SubSeq(c, i, Len(c)) \o v # <<>>
         /\ Head(SubSeq(c, i, Len(c)) \o v) = c[i]
         /\ Tail(SubSeq(c, i, Len(c)) \o v) = SubSeq(c, i + 1, Len(c)) \o v
<1>1. Len(c) \in Nat /\ i \in Nat /\ 1 <= i /\ i <= Len(c) /\ \A k \in 1 .. Len(c) : c[k] \in Signal
  OBVIOUS
<1>2. SubSeq(c, i + 1, i) = <<>>
  BY <1>1
<1>3. ASSUME NEW j \in 0 .. i - 1 PROVE Append(SubSeq(c, j + 1, i - 1), c[i]) = SubSeq(c, j + 1, i)
  <2> DEFINE q == SubSeq(c, j + 1, i - 1)
             r == SubSeq(c, j + 1, i)
  <2>1. q \in Seq(Signal) /\ Len(q) = i - 1 - j /\ \A k \in 1 .. i - 1 - j : q[k] = c[j + k]
    BY <1>1
  <2>2. r \in Seq(Signal) /\ Len(r) = i - j /\ \A k \in 1 .. i - j : r[k] = c[j + k]
    BY <1>1
  <2> HIDE DEF q, r
  <2> DEFINE u == Append(q, c[i])
  <2>3. u \in Seq(Signal) /\ Len(u) = i - j /\ \A k \in 1 .. i - j : u[k] = c[j + k]
    <3>1. c[i] \in Signal /\ i - 1 - j \in Nat
      BY <1>1
    <3>2. u \in Seq(Signal) /\ Len(u) = Len(q) + 1 /\ (\A k \in 1 .. Len(q) : u[k] = q[k]) /\ u[Len(q) + 1] = c[i]
      BY <2>1, <3>1
    <3> HIDE DEF u
    <3>3. Len(u) = i - j
      BY <2>1, <3>2
    <3>4. \A k \in 1 .. i - j : u[k] = c[j + k]
      <4> SUFFICES ASSUME NEW k \in 1 .. i - j PROVE u[k] = c[j + k]
        OBVIOUS
      <4>1. CASE k = i - j
        <5>1. k = Len(q) + 1 /\ j + k = i
          BY <2>1, <4>1
        <5> QED BY <3>2, <5>1
      <4>2. CASE k # i - j
        <5>1. k \in 1 .. i - 1 - j
          BY <4>2
        <5> QED BY <2>1, <3>2, <5>1
      <4> QED BY <4>1, <4>2
    <3> QED BY <3>2, <3>3, <3>4
  <2> HIDE DEF u
  <2>4. u = r
    BY <2>2, <2>3
  <2> QED BY <2>4 DEF u, q, r
<1>4. /\ SubSeq(c, i, Len(c)) \o v # <<>> /\ Head(SubSeq(c, i, Len(c)) \o v) = c[i]
      /\ Tail(SubSeq(c, i, Len(c)) \o v) = SubSeq(c, i + 1, Len(c)) \o v
  <2> DEFINE q == SubSeq(c, i, Len(c))
             r == SubSeq(c, i + 1, Len(c))
             N == Len(c) - i
             M == Len(v)
  <2>1. q \in Seq(Signal) /\ Len(q) = N + 1 /\ \A k \in 1 .. N + 1 : q[k] = c[i + k - 1]
    BY <1>1
  <2>2. r \in Seq(Signal) /\ Len(r) = N /\ \A k \in 1 .. N : r[k] = c[i + k]
    BY <1>1
  <2>3. N \in Nat /\ M \in Nat
    BY <1>1
  <2> HIDE DEF q, r, N, M
  <2> DEFINE u == q \o v
             x == r \o v
  <2>4. /\ u \in Seq(Signal) /\ Len(u) = N + 1 + M
        /\ \A k \in 1 .. N + 1 + M : u[k] = IF k <= N + 1 THEN q[k] ELSE v[k - (N + 1)]
    <3>1. /\ u \in Seq(Signal) /\ Len(u) = Len(q) + Len(v)
          /\ \A k \in 1 .. Len(q) + Len(v) : u[k] = IF k <= Len(q) THEN q[k] ELSE v[k - Len(q)]
      BY <2>1, Joining, Zenon
    <3> QED BY <2>1, <3>1 DEF M
  <2>5. /\ x \in Seq(Signal) /\ Len(x) = N + M
        /\ \A k \in 1 .. N + M : x[k] = IF k <= N THEN r[k] ELSE v[k - N]
    <3>1. /\ x \in Seq(Signal) /\ Len(x) = Len(r) + Len(v)
          /\ \A k \in 1 .. Len(r) + Len(v) : x[k] = IF k <= Len(r) THEN r[k] ELSE v[k - Len(r)]
      BY <2>2, Joining, Zenon
    <3> QED BY <2>2, <3>1 DEF M
  <2> HIDE DEF u, x
  <2>6. u # <<>> /\ Head(u) = u[1]
    BY <2>3, <2>4
  <2>7. u[1] = c[i]
    <3>1. 1 \in 1 .. N + 1 /\ 1 \in 1 .. N + 1 + M /\ 1 <= N + 1 /\ i + 1 - 1 = i
      BY <1>1, <2>3
    <3>2. u[1] = q[1] /\ q[1] = c[i + 1 - 1]
      BY <2>1, <2>4, <3>1
    <3> QED BY <3>1, <3>2
  <2>8. Tail(u) \in Seq(Signal) /\ Len(Tail(u)) = N + M /\ \A k \in 1 .. N + M : Tail(u)[k] = u[k + 1]
    BY <2>3, <2>4, <2>6
  <2>9. \A k \in 1 .. N + M : u[k + 1] = x[k]
    <3> SUFFICES ASSUME NEW k \in 1 .. N + M PROVE u[k + 1] = x[k]
      OBVIOUS
    <3>1. k + 1 \in 1 .. N + 1 + M /\ k \in Nat
      BY <2>3
    <3>2. CASE k <= N
      <4>1. k + 1 <= N + 1 /\ k + 1 \in 1 .. N + 1 /\ k \in 1 .. N /\ i + (k + 1) - 1 = i + k
        BY <1>1, <2>3, <3>1, <3>2
      <4>2. u[k + 1] = q[k + 1] /\ q[k + 1] = c[i + (k + 1) - 1]
        BY <2>1, <2>4, <3>1, <4>1
      <4>3. x[k] = r[k] /\ r[k] = c[i + k]
        BY <2>2, <2>5, <3>2, <4>1
      <4> QED BY <4>1, <4>2, <4>3
    <3>3. CASE k > N
      <4>1. ~(k + 1 <= N + 1) /\ ~(k <= N) /\ (k + 1) - (N + 1) = k - N
        BY <2>3, <3>1, <3>3
      <4>2. u[k + 1] = v[(k + 1) - (N + 1)]
        BY <2>4, <3>1, <4>1
      <4>3. x[k] = v[k - N]
        BY <2>5, <4>1
      <4> QED BY <4>1, <4>2, <4>3
    <3> QED BY <2>3, <3>1, <3>2, <3>3
  <2>10. Tail(u) = x
    BY <2>5, <2>8, <2>9
  <2> QED BY <2>6, <2>7, <2>10 DEF u, x, q, r
<1> QED BY <1>2, <1>3, <1>4

-------------------------------------------------------------------------------
(* The chain handled signal by signal.                                       *)

\* A chain from its start, and to its end.
LEMMA ChainEnds ==
  ASSUME NEW c \in Seq(Signal), NEW j \in 0 .. Len(c)
  PROVE  /\ SubSeq(c, 1, Len(c)) = c /\ SubSeq(c, 1, 0) = <<>>
         /\ j = Len(c) => SubSeq(c, j + 1, Len(c)) = <<>>
         /\ ToSet(SubSeq(c, j + 1, Len(c))) \subseteq ToSet(c)
<1> DEFINE N == Len(c)
           q == SubSeq(c, j + 1, N)
<1>1. N \in Nat /\ j \in Nat /\ j <= N /\ \A k \in 1 .. N : c[k] \in Signal
  OBVIOUS
<1>2. SubSeq(c, 1, N) = c /\ SubSeq(c, 1, 0) = <<>> /\ (j = N => q = <<>>)
  <2>1. SubSeq(c, 1, 0) = <<>> /\ (j = N => q = <<>>)
    BY <1>1
  <2> DEFINE r == SubSeq(c, 1, N)
  <2>2. r \in Seq(Signal) /\ Len(r) = N /\ \A k \in 1 .. N : r[k] = c[k]
    BY <1>1
  <2> HIDE DEF r
  <2>3. r = c
    BY <2>2
  <2> QED BY <2>1, <2>3 DEF r
<1>3. \A k \in DOMAIN q : k + j \in DOMAIN c /\ q[k] = c[k + j]
  <2>1. q \in Seq(Signal) /\ Len(q) = N - j /\ DOMAIN q = 1 .. N - j /\ DOMAIN c = 1 .. N
    BY <1>1
  <2>2. \A k \in 1 .. N - j : q[k] = c[j + k]
    BY <1>1
  <2>3. \A k \in 1 .. N - j : k + j \in 1 .. N /\ j + k = k + j
    BY <1>1
  <2> HIDE DEF q, N
  <2> QED BY <2>1, <2>2, <2>3
<1> HIDE DEF q
<1>4. \A m \in ToSet(q) : \E k \in DOMAIN q : m = q[k]
  BY DEF ToSet
<1>5. \A k \in DOMAIN c : c[k] \in ToSet(c)
  BY DEF ToSet
<1>6. ToSet(q) \subseteq ToSet(c)
  BY <1>3, <1>4, <1>5
<1> QED BY <1>2, <1>6 DEF q

\* The other end with the line r.
Facing(f, r) == [link |-> f.link, line |-> r, works |-> f.works]

\* The signals of the chain wait for work that is under way, and the ends are
\* as PairInv has them with the chain before the signals v on the wire.
Fitting(n, p, L, t, f, d, b, v) ==
  /\ Fits(n, p, L, t, Facing(f, t.chains[p] \o v), d, b)
  /\ t.chains[p] # <<>> => Waits(t, p)
  /\ \A m \in ToSet(t.chains[p]) : m.type \in {"offer", "answer"}

\* A signal of a chain that nothing waits before is handled.
LEMMA HeardFits ==
  ASSUME PoolTyped, NEW n \in Participants, NEW p \in Participants, n # p, pool[n].generation = 0,
         NEW s \in Parts, NEW L \in Seq(Signal), NEW f, NEW h, NEW d, NEW b,
         NEW m \in Signal, m.type \in {"offer", "answer"},
         Fits(n, p, L, s, f, d, b), ~Waits(s, p), Taken(f, h, m)
  PROVE  Fits(n, p, L, Heard(n, s, p, m), h, d, b) /\ Heard(n, s, p, m).chains = s.chains
<1>1. Heard(n, s, p, m) = Handled(n, s, p, m)
  BY DEF Heard
<1>2. Handled(n, s, p, m).chains = s.chains /\ Replies(n, s, p, m, Handled(n, s, p, m))
  BY HeardApart, HandledReplies
<1>3. Fits(n, p, L, Handled(n, s, p, m), h, d, b)
  BY <1>2, HandledPair
<1> QED BY <1>1, <1>2, <1>3

\* A signal of a chain that waits, waits.
LEMMA HeardWaits ==
  ASSUME NEW n, NEW p \in Participants, NEW s \in Parts, NEW m \in Signal, Waits(s, p)
  PROVE  /\ Waits(Heard(n, s, p, m), p) /\ Heard(n, s, p, m).chains[p] = Append(s.chains[p], m)
         /\ \A L, f, d, b : Fits(n, p, L, s, f, d, b) => Fits(n, p, L, Heard(n, s, p, m), f, d, b)
<1> DEFINE c == Append(s.chains[p], m)
           t == [s EXCEPT !.chains[p] = c]
<1>1. Heard(n, s, p, m) = t
  BY DEF Heard
<1> HIDE DEF c
<1>2. t.peers = s.peers /\ t.works = s.works /\ t.sends = s.sends /\ t.chains[p] = c
  BY DEF Parts
<1> HIDE DEF t
<1>3. Waits(t, p)
  BY <1>2 DEF Waits
<1>4. \A L : PartEnd(L, p, t) = PartEnd(L, p, s)
  BY <1>2 DEF PartEnd
<1>5. Ends(p, t) <=> Ends(p, s)
  BY <1>2 DEF Ends
<1>6. ASSUME NEW L, NEW f, NEW d, NEW b, Fits(n, p, L, s, f, d, b) PROVE Fits(n, p, L, t, f, d, b)
  <2>1. PairOK(n, p, PartEnd(L, p, t), f, d, b \/ Ends(p, s))
    BY <1>4, <1>6 DEF Fits
  <2>2. PairOK(n, p, PartEnd(L, p, t), f, d, b \/ Ends(p, t))
    BY <1>5, <2>1, PairMore
  <2> QED BY <2>2 DEF Fits
<1> QED BY <1>1, <1>2, <1>3, <1>6 DEF c

\* The chain c of p, of which k signals have been heard: all after j wait.
Midway(n, p, L, f, d, b, v, c, k, j, t) ==
  /\ t.chains[p] = SubSeq(c, j + 1, k) /\ (j < k => Waits(t, p))
  /\ Fits(n, p, L, t, Facing(f, SubSeq(c, j + 1, Len(c)) \o v), d, b)

\* A signal waits behind the one whose work has begun.
LEMMA MidwayWaits ==
  ASSUME NEW n, NEW p \in Participants, NEW L, NEW f, NEW d, NEW b, NEW v \in Seq(Signal), NEW c \in Seq(Signal),
         NEW i \in 1 .. Len(c), NEW j \in 0 .. i - 1, NEW t \in Parts, Waits(t, p),
         Midway(n, p, L, f, d, b, v, c, i - 1, j, t)
  PROVE  Midway(n, p, L, f, d, b, v, c, i, j, Heard(n, t, p, c[i]))
<1> DEFINE u == Heard(n, t, p, c[i])
<1>1. c[i] \in Signal
  OBVIOUS
<1>2. /\ Waits(u, p) /\ u.chains[p] = Append(t.chains[p], c[i])
      /\ \A K, r, x, y : Fits(n, p, K, t, r, x, y) => Fits(n, p, K, u, r, x, y)
  BY <1>1, HeardWaits
<1>3. Append(SubSeq(c, j + 1, i - 1), c[i]) = SubSeq(c, j + 1, i)
  BY ChainSplit
<1> HIDE DEF u
<1> QED BY <1>2, <1>3 DEF Midway, u

\* A signal is handled, and the next one may be.
LEMMA MidwayRuns ==
  ASSUME PoolTyped, NEW n \in Participants, NEW p \in Participants, n # p, pool[n].generation = 0,
         NEW L \in Seq(Signal), NEW f, NEW d, NEW b, NEW v \in Seq(Signal), NEW c \in Seq(Signal),
         NEW i \in 1 .. Len(c), NEW j \in 0 .. i - 1, NEW t \in Parts, ~Waits(t, p),
         c[i].type \in {"offer", "answer"}, Midway(n, p, L, f, d, b, v, c, i - 1, j, t)
  PROVE  Midway(n, p, L, f, d, b, v, c, i, i, Heard(n, t, p, c[i]))
<1> DEFINE u == Heard(n, t, p, c[i])
           q == Facing(f, SubSeq(c, i, Len(c)) \o v)
           h == Facing(f, SubSeq(c, i + 1, Len(c)) \o v)
           m == c[i]
<1>1. m \in Signal /\ m.type \in {"offer", "answer"}
  OBVIOUS
<1>2. j = i - 1 /\ j + 1 = i
  BY DEF Midway
<1>3. Fits(n, p, L, t, q, d, b) /\ t.chains[p] = SubSeq(c, i, i - 1)
  BY <1>2 DEF Midway
<1>4. Taken(q, h, m)
  <2>1. /\ SubSeq(c, i, Len(c)) \o v # <<>> /\ c[i] = Head(SubSeq(c, i, Len(c)) \o v)
        /\ SubSeq(c, i + 1, Len(c)) \o v = Tail(SubSeq(c, i, Len(c)) \o v)
    BY ChainSplit
  <2> QED BY <2>1 DEF Facing, Taken
<1> HIDE DEF q, m
<1>5. Fits(n, p, L, Heard(n, t, p, m), h, d, b) /\ Heard(n, t, p, m).chains = t.chains
  <2> HIDE DEF h
  <2> QED BY <1>1, <1>3, <1>4, HeardFits
<1>6. SubSeq(c, i, i - 1) = <<>> /\ SubSeq(c, i + 1, i) = <<>> /\ ~(i < i)
  OBVIOUS
<1>7. Heard(n, t, p, m).chains[p] = SubSeq(c, i + 1, i)
  BY <1>3, <1>5, <1>6
<1> QED BY <1>5, <1>6, <1>7 DEF Midway, m

\* The chain before its first signal.
LEMMA MidwayBegins ==
  ASSUME NEW n, NEW p \in Participants, NEW L, NEW f, NEW d, NEW b, NEW v,
         NEW s \in Within(n), NEW c \in Seq(Signal), Fits(n, p, L, s, Facing(f, c \o v), d, b)
  PROVE  /\ Midway(n, p, L, f, d, b, v, c, 0, 0, [s EXCEPT !.chains[p] = <<>>])
         /\ [s EXCEPT !.chains[p] = <<>>] \in Within(n)
<1> DEFINE base == [s EXCEPT !.chains[p] = <<>>]
<1>1. s \in Parts /\ <<>> \in Seq(Signal)
  BY DEF Within
<1>2. base.peers = s.peers /\ base.works = s.works /\ base.sends = s.sends /\ base.chains[p] = <<>>
  BY <1>1 DEF Parts
<1>3. base \in Parts
  BY <1>1, PartsChanged
<1> HIDE DEF base
<1>4. base \in Within(n)
  BY <1>2, <1>3, WithinKept
<1>5. PartEnd(L, p, base) = PartEnd(L, p, s) /\ (Ends(p, base) <=> Ends(p, s))
  BY <1>2 DEF PartEnd, Ends
<1>6. Fits(n, p, L, base, Facing(f, c \o v), d, b)
  <2>1. PairOK(n, p, PartEnd(L, p, base), Facing(f, c \o v), d, b \/ Ends(p, s))
    BY <1>5 DEF Fits
  <2>2. PairOK(n, p, PartEnd(L, p, base), Facing(f, c \o v), d, b \/ Ends(p, base))
    BY <1>5, <2>1, PairMore
  <2> QED BY <2>2 DEF Fits
<1>7. SubSeq(c, 1, 0) = <<>> /\ SubSeq(c, 1, Len(c)) = c /\ 0 + 1 = 1 /\ ~(0 < 0)
  <2>1. 0 \in 0 .. Len(c) /\ 0 + 1 = 1 /\ ~(0 < 0)
    OBVIOUS
  <2> QED BY <2>1, ChainEnds
<1>8. SubSeq(c, 0 + 1, 0) = base.chains[p] /\ SubSeq(c, 0 + 1, Len(c)) = c
  BY <1>2, <1>7
<1>9. Midway(n, p, L, f, d, b, v, c, 0, 0, base)
  BY <1>6, <1>7, <1>8, Zenon DEF Midway
<1> QED BY <1>4, <1>9 DEF base

\* The chain behind its last signal.
LEMMA MidwayEnds ==
  ASSUME NEW n, NEW p, NEW L, NEW f, NEW d, NEW b, NEW v, NEW c \in Seq(Signal), NEW t,
         NEW j \in 0 .. Len(c), Midway(n, p, L, f, d, b, v, c, Len(c), j, t),
         \A m \in ToSet(c) : m.type \in {"offer", "answer"}
  PROVE  Fitting(n, p, L, t, f, d, b, v)
<1>1. /\ t.chains[p] = SubSeq(c, j + 1, Len(c)) /\ (j < Len(c) => Waits(t, p))
      /\ Fits(n, p, L, t, Facing(f, SubSeq(c, j + 1, Len(c)) \o v), d, b)
  BY DEF Midway
<1>2. (j = Len(c) => SubSeq(c, j + 1, Len(c)) = <<>>) /\ ToSet(SubSeq(c, j + 1, Len(c))) \subseteq ToSet(c)
  BY ChainEnds
<1>3. j < Len(c) \/ j = Len(c)
  OBVIOUS
<1> DEFINE q == SubSeq(c, j + 1, Len(c))
<1>4. t.chains[p] = q /\ (q # <<>> => Waits(t, p)) /\ \A m \in ToSet(q) : m.type \in {"offer", "answer"}
  BY <1>1, <1>2, <1>3
<1>5. Fits(n, p, L, t, Facing(f, q \o v), d, b)
  BY <1>1
<1> HIDE DEF q
<1> QED BY <1>4, <1>5 DEF Fitting

\* The chain of p is handled as far as it goes.
LEMMA ChainFits ==
  ASSUME PoolTyped, NEW n \in Participants, NEW p \in Participants, n # p, pool[n].generation = 0,
         NEW s \in Within(n), NEW L \in Seq(Signal), NEW f, NEW d, NEW b, NEW v \in Seq(Signal),
         Fits(n, p, L, s, Facing(f, s.chains[p] \o v), d, b),
         \A m \in ToSet(s.chains[p]) : m.type \in {"offer", "answer"}
  PROVE  Fitting(n, p, L, Chained(n, s, p), f, d, b, v)
<1> DEFINE c == s.chains[p]
           N == Len(c)
           M(k) == {t \in Within(n) : \E j \in 0 .. k : Midway(n, p, L, f, d, b, v, c, k, j, t)}
           G == [k \in 0 .. N |-> M(k)]
           base == [s EXCEPT !.chains[p] = <<>>]
<1>1. /\ c \in Seq(Signal) /\ N \in Nat /\ DOMAIN c = 1 .. N
      /\ \A i \in 1 .. N : c[i] \in Signal /\ c[i].type \in {"offer", "answer"}
  <2>1. s \in Parts /\ c \in Seq(Signal) /\ <<>> \in Seq(Signal)
    BY DEF Within, Parts
  <2>2. N \in Nat /\ DOMAIN c = 1 .. N /\ \A i \in 1 .. N : c[i] \in Signal
    BY <2>1
  <2>3. \A i \in DOMAIN c : c[i] \in ToSet(c)
    BY DEF ToSet
  <2> QED BY <2>1, <2>2, <2>3
<1>2. base \in M(0)
  <2>1. Midway(n, p, L, f, d, b, v, c, 0, 0, base) /\ base \in Within(n)
    BY <1>1, MidwayBegins
  <2> HIDE DEF base, c
  <2>2. 0 \in 0 .. 0
    OBVIOUS
  <2> QED BY <2>1, <2>2
<1>3. ASSUME NEW i \in 1 .. N, NEW t \in M(i - 1) PROVE Heard(n, t, p, c[i]) \in M(i)
  <2> HIDE DEF c
  <2>1. PICK j \in 0 .. i - 1 : Midway(n, p, L, f, d, b, v, c, i - 1, j, t)
    BY <1>3
  <2>2. t \in Within(n) /\ t \in Parts /\ Heard(n, t, p, c[i]) \in Within(n)
    BY <1>1, HeardWithin DEF Within
  <2>3. j \in 0 .. i /\ i \in 0 .. i
    BY <1>1
  <2>4. Waits(t, p) => Midway(n, p, L, f, d, b, v, c, i, j, Heard(n, t, p, c[i]))
    BY <1>1, <2>1, <2>2, MidwayWaits
  <2>5. ~Waits(t, p) => Midway(n, p, L, f, d, b, v, c, i, i, Heard(n, t, p, c[i]))
    BY <1>1, <2>1, <2>2, MidwayRuns
  <2> QED BY <2>2, <2>3, <2>4, <2>5
<1> HIDE DEF M
<1>4. Chained(n, s, p) \in M(N)
  <2>1. /\ \A i \in 1 .. N : i - 1 \in 0 .. N /\ i \in 0 .. N
        /\ 0 \in 0 .. N /\ N \in 0 .. N
    BY <1>1
  <2> HIDE DEF N
  <2>2. \A i \in 0 .. N : G[i] = M(i)
    OBVIOUS
  <2> HIDE DEF G
  <2>3. \A i \in 1 .. N : \A t \in G[i - 1] : Heard(n, t, p, c[i]) \in G[i]
    BY <1>3, <2>1, <2>2
  <2>4. base \in G[0]
    BY <1>2, <2>1, <2>2
  <2>5. Chained(n, s, p) \in G[N]
    BY <1>1, <2>3, <2>4, ChainedThrough, Zenon DEF N
  <2> QED BY <2>1, <2>2, <2>5
<1>5. PICK j \in 0 .. N : Midway(n, p, L, f, d, b, v, c, N, j, Chained(n, s, p))
  BY <1>4 DEF M
<1> QED BY <1>1, <1>5, MidwayEnds

-------------------------------------------------------------------------------
(* What the parts of a handler leave of a pair.                              *)

\* Work out of its chain is the same work.
LEMMA UnheardIs ==
  ASSUME NEW w \in Work, NEW p
  PROVE  LET v == Unheard(w, p) IN
         /\ v \in Work /\ v.peer = w.peer /\ v.id = w.id /\ v.does = w.does /\ v.generation = w.generation
         /\ w.peer = p => ~v.chained
         /\ w.peer # p => v = w
<1>1. w.chained \in BOOLEAN
  BY DEF Work
<1>2. \A b \in BOOLEAN : LET v == [w EXCEPT !.chained = b] IN
        /\ v \in Work /\ v.peer = w.peer /\ v.id = w.id /\ v.does = w.does /\ v.generation = w.generation
        /\ v.chained = b
        /\ b = w.chained => v = w
  BY DEF Work
<1>3. (w.chained /\ w.peer # p) \in BOOLEAN /\ (w.peer # p => (w.chained /\ w.peer # p) = w.chained)
      /\ (w.peer = p => (w.chained /\ w.peer # p) = FALSE)
  BY <1>1
<1>4. Unheard(w, p) = [w EXCEPT !.chained = (w.chained /\ w.peer # p)]
  BY DEF Unheard
<1> DEFINE c == (w.chained /\ w.peer # p)
<1>5. c \in BOOLEAN /\ (w.peer # p => c = w.chained) /\ (w.peer = p => ~c)
  BY <1>3
<1> HIDE DEF c
<1>6. Unheard(w, p) = [w EXCEPT !.chained = c]
  BY <1>4 DEF c
<1> QED BY <1>2, <1>5, <1>6

\* A link that goes takes its chain with it, and what works for it is unheard.
LEMMA DroppedIs ==
  ASSUME NEW s \in Parts, NEW p \in Participants, s.peers[p] # None
  PROVE  LET t == Dropped(s, p) IN
         /\ t \in Parts /\ t.peers = [s.peers EXCEPT ![p] = None]
         /\ t.chains = [s.chains EXCEPT ![p] = <<>>] /\ t.sends = s.sends
         /\ t.works = {Unheard(w, p) : w \in s.works}
<1> DEFINE ws == {Unheard(w, p) : w \in s.works}
           t == [s EXCEPT !.peers[p] = None, !.chains[p] = <<>>, !.works = ws]
<1>1. /\ s.peers \in [Participants -> Link \cup {None}] /\ s.chains \in [Participants -> Seq(Signal)]
      /\ s.works \in SUBSET Work /\ s.sends \in [Participants -> Seq(Signal)]
  BY DEF Parts
<1>2. ws \in SUBSET Work /\ <<>> \in Seq(Signal)
  BY <1>1, UnheardWork
<1>3. Dropped(s, p) = t
  BY DEF Dropped
<1> HIDE DEF ws
<1>4. /\ t \in Parts /\ t.peers = [s.peers EXCEPT ![p] = None] /\ t.sends = s.sends
      /\ t.chains = [s.chains EXCEPT ![p] = <<>>] /\ t.works = ws
  BY <1>1, <1>2 DEF Parts
<1> HIDE DEF t
<1> QED BY <1>3, <1>4 DEF ws

\* A link that is dropped leaves the others.
LEMMA DroppedApart ==
  ASSUME NEW s \in Parts, NEW p \in Participants
  PROVE  Apart(p, s, Dropped(s, p))
<1>1. CASE s.peers[p] = None
  BY <1>1 DEF Dropped, Apart
<1>2. CASE s.peers[p] # None
  <2> DEFINE t == Dropped(s, p)
  <2>1. /\ t.peers = [s.peers EXCEPT ![p] = None] /\ t.sends = s.sends
        /\ t.chains = [s.chains EXCEPT ![p] = <<>>] /\ t.works = {Unheard(w, p) : w \in s.works}
    BY <1>2, DroppedIs
  <2> HIDE DEF t
  <2>2. /\ s.peers \in [Participants -> Link \cup {None}] /\ s.chains \in [Participants -> Seq(Signal)]
        /\ s.works \in SUBSET Work
    BY DEF Parts
  <2>3. \A q \in Participants : q # p =>
          t.peers[q] = s.peers[q] /\ t.chains[q] = s.chains[q] /\ t.sends[q] = s.sends[q]
    BY <2>1, <2>2
  <2>4. \A w \in s.works : Unheard(w, p).peer = w.peer /\ (w.peer # p => Unheard(w, p) = w)
    BY <2>2, UnheardIs
  <2>5. \A w \in Work : w.peer # p => (w \in t.works <=> w \in s.works)
    BY <2>1, <2>4
  <2> QED BY <2>3, <2>5 DEF Apart, t
<1> QED BY <1>1, <1>2

\* The end of a link that went.
LEMMA DroppedEnd ==
  ASSUME NEW s \in Parts, NEW p \in Participants, s.peers[p] # None, NEW L, NEW t,
         t.peers = Dropped(s, p).peers, t.works = Dropped(s, p).works
  PROVE  /\ Abandons(PartEnd(L, p, s), PartEnd(L, p, t))
         /\ PartEnd(L, p, t).link = None /\ Dropped(s, p).chains[p] = <<>>
<1>1. /\ t.peers = [s.peers EXCEPT ![p] = None] /\ t.works = {Unheard(w, p) : w \in s.works}
      /\ Dropped(s, p).chains = [s.chains EXCEPT ![p] = <<>>]
  BY DroppedIs
<1>2. /\ s.peers \in [Participants -> Link \cup {None}] /\ s.chains \in [Participants -> Seq(Signal)]
      /\ s.works \in SUBSET Work
  BY DEF Parts
<1>3. t.peers[p] = None /\ Dropped(s, p).chains[p] = <<>>
  BY <1>1, <1>2
<1> DEFINE e == PartEnd(L, p, s)
           g == PartEnd(L, p, t)
<1>4. e.works = {w \in s.works : w.peer = p} /\ g.works = {w \in t.works : w.peer = p} /\ g.link = t.peers[p]
  BY DEF PartEnd
<1> HIDE DEF e, g
<1>5. ASSUME NEW v \in g.works
      PROVE  v \in Work /\ ~v.chained /\ \E w \in e.works :
               v.peer = w.peer /\ v.id = w.id /\ v.does = w.does /\ v.generation = w.generation
  <2>1. PICK w \in s.works : v = Unheard(w, p) /\ v.peer = p
    BY <1>1, <1>4
  <2>2. w \in Work
    BY <1>2
  <2>3. /\ v \in Work /\ v.peer = w.peer /\ v.id = w.id /\ v.does = w.does /\ v.generation = w.generation
        /\ (w.peer = p => ~v.chained)
    BY <2>1, <2>2, UnheardIs
  <2>4. w \in e.works /\ w.peer = p
    BY <1>4, <2>1, <2>3
  <2> QED BY <2>3, <2>4
<1>6. Abandons(e, g)
  BY <1>5 DEF Abandons
<1> QED BY <1>3, <1>4, <1>6 DEF e, g

\* The works and the chain of a pool that fits.
LEMMA FittingQueued ==
  ASSUME NEW n, NEW p, NEW L, NEW s, NEW f, NEW d, NEW b, NEW v,
         Fitting(n, p, L, s, f, d, b, v), s.chains[p] \in Seq(Signal)
  PROVE  Queued(PartEnd(L, p, s), s.chains[p])
<1>1. s.chains[p] # <<>> => \E w \in {x \in s.works : x.peer = p} : w.chained
  BY DEF Fitting, Waits
<1>2. PartEnd(L, p, s).works = {w \in s.works : w.peer = p}
  BY DEF PartEnd
<1> QED BY <1>1, <1>2 DEF Queued, Fitting

\* The parts of a pool for p.
LEMMA PartsAt ==
  ASSUME NEW s \in Parts, NEW p \in Participants
  PROVE  /\ s.chains[p] \in Seq(Signal) /\ s.sends[p] \in Seq(Signal) /\ s.works \in SUBSET Work
         /\ s.peers[p] \in Link \cup {None}
BY DEF Parts

\* There is nothing in an empty chain.
LEMMA EmptyChain ==
  ASSUME NEW c, c = <<>>
  PROVE  ToSet(c) = {} /\ \A v \in Seq(Signal) : c \o v = v
<1>1. \A v \in Seq(Signal) : c \o v = v
  OBVIOUS
<1>2. DOMAIN c = {}
  OBVIOUS
<1>3. ToSet(c) = {}
  BY <1>2 DEF ToSet
<1> QED BY <1>1, <1>3

\* A pair that holds as the step leaves it.
LEMMA FitsBy ==
  ASSUME NEW n, NEW p, NEW L, NEW t, NEW h, NEW d, NEW b, NEW x,
         PairOK(n, p, PartEnd(L, p, t), h, d, x), x => b \/ Ends(p, t)
  PROVE  Fits(n, p, L, t, h, d, b)
<1> DEFINE y == b \/ Ends(p, t)
           g == PartEnd(L, p, t)
<1>1. x => y
  OBVIOUS
<1>2. PairOK(n, p, g, h, d, x)
  OBVIOUS
<1> HIDE DEF y, g
<1>3. PairOK(n, p, g, h, d, y)
  BY <1>1, <1>2, PairMore
<1> QED BY <1>3 DEF Fits, y, g

\* With no chain left.
LEMMA FittingUnchained ==
  ASSUME NEW n, NEW p, NEW L, NEW t, NEW f, NEW d, NEW b, NEW v \in Seq(Signal), NEW x,
         t.chains[p] = <<>>, PairOK(n, p, PartEnd(L, p, t), Facing(f, v), d, x), x => b \/ Ends(p, t)
  PROVE  Fitting(n, p, L, t, f, d, b, v)
<1>1. t.chains[p] \o v = v /\ ToSet(t.chains[p]) = {}
  BY EmptyChain
<1>2. Fits(n, p, L, t, Facing(f, t.chains[p] \o v), d, b)
  BY <1>1, FitsBy
<1> QED BY <1>1, <1>2 DEF Fitting

\* A dial: its link, and the work on its offer.
LEMMA DialFits ==
  ASSUME NEW n, NEW p \in Participants, n # p, pool[n].generation = 0, NEW s \in Parts, NEW L,
         NEW f, NEW d, NEW b, NEW v \in Seq(Signal), NEW id \in Ids, NEW t,
         Fitting(n, p, L, s, f, d, b, v), s.peers[p] = None, id \in DOMAIN d, d[id] = <<>>,
         WorkFor(n, p, id, "offer") \in Work, NEW l, l # None,
         l = [id |-> id, initiatedLocally |-> TRUE, stage |-> "offering"],
         Turned(p, s, t, l, s.sends[p], {WorkFor(n, p, id, "offer")})
  PROVE  Fitting(n, p, L, t, f, [d EXCEPT ![id] = <<n, p>>], b, v)
<1> DEFINE w == WorkFor(n, p, id, "offer")
           e == PartEnd(L, p, s)
           g == PartEnd(L, p, t)
           h == Facing(f, s.chains[p] \o v)
           c == [d EXCEPT ![id] = <<n, p>>]
           x == b \/ Ends(p, s)
<1>1. t.chains = s.chains /\ t.works = s.works \cup {w} /\ t.sends[p] = s.sends[p]
  BY TurnedHas DEF Turned
<1>2. w.peer = p /\ w.id = id /\ w.does = "offer" /\ w.generation = 0 /\ ~w.chained
  BY DEF WorkFor
<1>3. /\ e.link = None /\ g.link = l /\ g.line = e.line /\ g.works = e.works \cup {w}
  <2>1. \A y \in {w} : y.peer = p
    BY <1>2
  <2> HIDE DEF w
  <2>2. Moved(PartEnd(L, p, s), PartEnd(L, p, t), l, L \o s.sends[p], L \o s.sends[p], {w})
    BY <2>1, TurnedEnd DEF w
  <2> QED BY <2>2 DEF Moved, PartEnd
<1>4. PairOK(n, p, e, h, d, x)
  BY DEF Fitting, Fits
<1>5. w \in Work
  OBVIOUS
<1> HIDE DEF w, e, g, h, x
<1>6. PairOK(n, p, g, h, c, x)
  BY <1>2, <1>3, <1>4, <1>5, DialledPair
<1>7. Ends(p, t) <=> Ends(p, s)
  BY <1>1 DEF Ends
<1>8. Fits(n, p, L, t, h, c, b)
  <2>1. x => b \/ Ends(p, t)
    BY <1>7 DEF x
  <2> HIDE DEF c
  <2> QED BY <1>6, <2>1, FitsBy DEF g
<1>9. Waits(s, p) => Waits(t, p)
  BY <1>1 DEF Waits
<1> HIDE DEF c
<1>10. Fitting(n, p, L, t, f, c, b, v)
  BY <1>1, <1>8, <1>9 DEF Fitting, h
<1> QED BY <1>10 DEF c

\* A hang-up that retires no offer.
LEMMA HangUpFits ==
  ASSUME NEW n, NEW p \in Participants, n # p, NEW s \in Parts, NEW L \in Seq(Signal),
         NEW f, NEW d, NEW b, NEW v \in Seq(Signal), NEW t,
         Fitting(n, p, L, s, f, d, b, v), s.peers[p] # None, \A m \in ToSet(s.chains[p]) : m.type # "offer",
         t = Sending(Dropped(s, p), p, "close", s.peers[p].id)
  PROVE  Fitting(n, p, L, t, f, d, b, v) /\ Apart(p, s, t)
<1> DEFINE u == Dropped(s, p)
           k == [type |-> "close", id |-> s.peers[p].id]
           e == PartEnd(L, p, s)
           g == PartEnd(L, p, t)
           c == s.chains[p]
           q == s.sends[p]
           h == Facing(f, c \o v)
<1>1. /\ u \in Parts /\ u.peers = [s.peers EXCEPT ![p] = None]
      /\ u.chains = [s.chains EXCEPT ![p] = <<>>] /\ u.sends = s.sends
  BY DroppedIs
<1>2. Turned(p, u, t, u.peers[p], Append(u.sends[p], k), {})
  BY <1>1, SendingIs
<1>3. k \in Signal
  <2>1. s.peers[p] \in Link
    BY PartsAt
  <2> QED BY <2>1 DEF Link, Signal
<1>4. c \in Seq(Signal) /\ q \in Seq(Signal)
  BY PartsAt
<1>5. k.type = "close" /\ k.id = e.link.id /\ e.link # None /\ e.line = L \o q
  BY DEF PartEnd
<1> HIDE DEF k, u
<1>6. t.sends[p] = Append(q, k) /\ t.works = u.works /\ t.chains = u.chains
  BY <1>1, <1>2, TurnedHas DEF Turned
<1>7. t.peers = u.peers
  <2>1. t.peers = [u.peers EXCEPT ![p] = u.peers[p]]
    BY <1>2 DEF Turned
  <2> QED BY <1>1, <2>1 DEF Parts
<1>8. Abandons(e, g) /\ g.link = None /\ t.chains[p] = <<>>
  BY <1>6, <1>7, DroppedEnd DEF u
<1>9. g.line = Append(e.line, k) /\ ToSet(t.sends[p]) = ToSet(q) \cup {k}
  <2>1. g.line = L \o Append(q, k)
    BY <1>6 DEF PartEnd
  <2>2. L \o Append(q, k) = Append(L \o q, k) /\ ToSet(Append(q, k)) = ToSet(q) \cup {k}
    <3> HIDE DEF q
    <3> QED BY <1>3, <1>4, Appended, Zenon
  <2>3. e.line = L \o q
    BY DEF PartEnd
  <2> QED BY <1>6, <2>1, <2>2, <2>3
<1>10. PairOK(n, p, e, h, d, b \/ Ends(p, s)) /\ \A m \in ToSet(c) : m.type # "offer"
  BY DEF Fitting, Fits
<1> DEFINE r == Facing(f, v)
<1>11. h.line = c \o v /\ r.line = v /\ r.link = h.link /\ r.works = h.works
  BY DEF Facing
<1> HIDE DEF e, g, h, r, c
<1>12. PairOK(n, p, g, r, d, TRUE)
  BY <1>3, <1>4, <1>5, <1>8, <1>9, <1>10, <1>11, HungUpPair
<1>13. Ends(p, t)
  BY <1>5, <1>9 DEF Ends
<1>14. Fitting(n, p, L, t, f, d, b, v)
  BY <1>8, <1>12, <1>13, FittingUnchained DEF g, r
<1>15. Apart(p, s, u)
  BY DroppedApart DEF u
<1>16. Apart(p, u, t)
  <2>1. \A w \in {} : w.peer = p
    OBVIOUS
  <2> QED BY <1>1, <1>2, <2>1, TurnedApart
<1> QED BY <1>14, <1>15, <1>16, ApartTrans

\* A link that has its descriptions goes because the other end is not there.
LEMMA FailFits ==
  ASSUME NEW n, NEW p \in Participants, n # p, NEW s \in Parts, NEW L \in Seq(Signal),
         NEW f, NEW d, NEW b, NEW v \in Seq(Signal),
         Fitting(n, p, L, s, f, d, b, v), s.peers[p] # None,
         s.peers[p].stage \in {"accepted", "answered", "ready"}, ~Holds(f, s.peers[p].id)
  PROVE  Fitting(n, p, L, Dropped(s, p), f, d, b, v)
<1> DEFINE t == Dropped(s, p)
           e == PartEnd(L, p, s)
           g == PartEnd(L, p, t)
           c == s.chains[p]
           h == Facing(f, c \o v)
           r == Facing(f, v)
<1>1. t.sends = s.sends
  BY DroppedIs
<1>2. Abandons(e, g) /\ g.link = None /\ t.chains[p] = <<>>
  BY DroppedEnd
<1>3. e.link = s.peers[p] /\ g.line = e.line
  BY <1>1 DEF PartEnd
<1>4. Queued(e, c)
  BY PartsAt, FittingQueued
<1>5. PairOK(n, p, e, h, d, b \/ Ends(p, s))
  BY DEF Fitting, Fits
<1>6. h.line = c \o v /\ r.line = v /\ r.link = h.link /\ r.works = h.works /\ ~Holds(h, s.peers[p].id)
  BY DEF Facing, Holds
<1>7. c \in Seq(Signal)
  BY PartsAt
<1>8. b \/ Ends(p, s) => b \/ Ends(p, t)
  BY <1>1 DEF Ends
<1> HIDE DEF t, e, g, c, h, r
<1>9. PairOK(n, p, g, r, d, b \/ Ends(p, s))
  BY <1>2, <1>3, <1>4, <1>5, <1>6, <1>7, FailedPair
<1> QED BY <1>2, <1>8, <1>9, FittingUnchained DEF g, r, t

\* A rejection or a close of the link that is there.
LEMMA ObeyFits ==
  ASSUME NEW n, NEW p \in Participants, n # p, NEW s \in Parts, NEW L \in Seq(Signal),
         NEW f, NEW d, NEW b, NEW v \in Seq(Signal), NEW m \in Signal,
         Fitting(n, p, L, s, f, d, b, v), v # <<>>, m = Head(v), Tail(v) \in Seq(Signal),
         m.type \in Refusals \cup {"close"}, HasLink(s, p, m.id)
  PROVE  Fitting(n, p, L, Dropped(s, p), f, d, b, Tail(v))
<1> DEFINE t == Dropped(s, p)
           e == PartEnd(L, p, s)
           g == PartEnd(L, p, t)
           c == s.chains[p]
           u == Tail(v)
           h == Facing(f, c \o v)
           r == Facing(f, u)
<1>0. s.peers[p] # None
  BY DEF HasLink
<1>1. t.sends = s.sends
  BY <1>0, DroppedIs
<1>2. Abandons(e, g) /\ g.link = None /\ t.chains[p] = <<>>
  BY <1>0, DroppedEnd
<1>3. e.link = s.peers[p] /\ g.line = e.line /\ Holds(e, m.id)
  BY <1>1 DEF PartEnd, Holds, HasLink
<1>4. Queued(e, c)
  BY PartsAt, FittingQueued
<1>5. PairOK(n, p, e, h, d, b \/ Ends(p, s))
  BY DEF Fitting, Fits
<1>6. h.line = c \o v /\ r.line = u /\ r.link = h.link /\ r.works = h.works
  BY DEF Facing
<1>7. u \in Seq(Signal) /\ u = Tail(v)
  OBVIOUS
<1>8. b \/ Ends(p, s) => b \/ Ends(p, t)
  BY <1>1 DEF Ends
<1> HIDE DEF t, e, g, c, h, r, u
<1>9. PairOK(n, p, g, r, d, b \/ Ends(p, s))
  BY <1>2, <1>3, <1>4, <1>5, <1>6, <1>7, ObeyedPair
<1> QED BY <1>2, <1>7, <1>8, <1>9, FittingUnchained DEF g, r, t, u

\* A rejection or a close of another link is passed over.
LEMMA PassFits ==
  ASSUME NEW n, NEW p \in Participants, NEW s \in Parts, NEW L,
         NEW f, NEW d, NEW b, NEW v \in Seq(Signal), NEW m \in Signal,
         Fitting(n, p, L, s, f, d, b, v), v # <<>>, m = Head(v),
         m.type # "offer", ~HasLink(s, p, m.id)
  PROVE  Fitting(n, p, L, s, f, d, b, Tail(v))
<1> DEFINE e == PartEnd(L, p, s)
           c == s.chains[p]
           h == Facing(f, c \o v)
           r == Facing(f, c \o Tail(v))
<1>1. ~Holds(e, m.id)
  BY DEF PartEnd, Holds, HasLink
<1>2. PairOK(n, p, e, h, d, b \/ Ends(p, s))
  BY DEF Fitting, Fits
<1>3. Skipped(h, r, c, v, m)
  BY DEF Skipped, Facing
<1>4. c \in Seq(Signal)
  BY PartsAt
<1> HIDE DEF e, h, r, c
<1>5. PairOK(n, p, e, r, d, b \/ Ends(p, s))
  BY <1>1, <1>2, <1>3, <1>4, PassedPair
<1>6. Fits(n, p, L, s, r, d, b)
  BY <1>5 DEF Fits, e
<1> QED BY <1>6 DEF Fitting, r, c

-------------------------------------------------------------------------------
(* A signal that joins the chain.                                            *)

\* A signal that joins the chain is where it was.
LEMMA Requeued ==
  ASSUME NEW c \in Seq(Signal), NEW v \in Seq(Signal), v # <<>>
  PROVE  /\ Append(c, Head(v)) \o Tail(v) = c \o v
         /\ Head(v) \in Signal /\ Tail(v) \in Seq(Signal) /\ Append(c, Head(v)) \in Seq(Signal)
<1> DEFINE N == Len(c)
           M == Len(v)
           m == Head(v)
           u == Tail(v)
           a == Append(c, m)
<1>1. N \in Nat /\ M \in Nat /\ M >= 1 /\ m = v[1] /\ m \in Signal
  OBVIOUS
<1>2. u \in Seq(Signal) /\ Len(u) = M - 1 /\ \A k \in 1 .. M - 1 : u[k] = v[k + 1]
  OBVIOUS
<1> HIDE DEF u, m
<1>3. a \in Seq(Signal) /\ Len(a) = N + 1 /\ (\A k \in 1 .. N : a[k] = c[k]) /\ a[N + 1] = m
  BY <1>1
<1> HIDE DEF a, N, M
<1> DEFINE x == a \o u
           y == c \o v
<1>4. /\ x \in Seq(Signal) /\ Len(x) = N + M
      /\ \A k \in 1 .. N + M : x[k] = IF k <= N + 1 THEN a[k] ELSE u[k - (N + 1)]
  <2>1. /\ x \in Seq(Signal) /\ Len(x) = Len(a) + Len(u)
        /\ \A k \in 1 .. Len(a) + Len(u) : x[k] = IF k <= Len(a) THEN a[k] ELSE u[k - Len(a)]
    BY <1>2, <1>3, Joining, Zenon
  <2>2. Len(a) + Len(u) = N + M
    BY <1>1, <1>2, <1>3
  <2> QED BY <1>3, <2>1, <2>2
<1>5. /\ y \in Seq(Signal) /\ Len(y) = N + M
      /\ \A k \in 1 .. N + M : y[k] = IF k <= N THEN c[k] ELSE v[k - N]
  <2>1. /\ y \in Seq(Signal) /\ Len(y) = Len(c) + Len(v)
        /\ \A k \in 1 .. Len(c) + Len(v) : y[k] = IF k <= Len(c) THEN c[k] ELSE v[k - Len(c)]
    BY Joining, Zenon
  <2> QED BY <2>1 DEF N, M
<1> HIDE DEF x, y
<1>6. \A k \in 1 .. N + M : x[k] = y[k]
  <2> SUFFICES ASSUME NEW k \in 1 .. N + M PROVE x[k] = y[k]
    OBVIOUS
  <2>1. CASE k <= N
    <3>1. k <= N + 1 /\ k \in 1 .. N
      BY <1>1, <2>1
    <3> QED BY <1>3, <1>4, <1>5, <2>1, <3>1
  <2>2. CASE k = N + 1
    <3>1. k <= N + 1 /\ ~(k <= N) /\ k - N = 1
      BY <1>1, <2>2
    <3>2. x[k] = m
      BY <1>3, <1>4, <2>2, <3>1
    <3>3. y[k] = v[1]
      BY <1>5, <3>1
    <3> QED BY <1>1, <3>2, <3>3
  <2>3. CASE k > N + 1
    <3>1. ~(k <= N + 1) /\ ~(k <= N) /\ k - (N + 1) \in 1 .. M - 1 /\ (k - (N + 1)) + 1 = k - N
      BY <1>1, <2>3
    <3>2. x[k] = u[k - (N + 1)] /\ y[k] = v[k - N]
      BY <1>4, <1>5, <3>1
    <3>3. u[k - (N + 1)] = v[(k - (N + 1)) + 1]
      BY <1>2, <3>1
    <3> QED BY <3>1, <3>2, <3>3
  <2> QED BY <1>1, <2>1, <2>2, <2>3
<1>7. x = y
  BY <1>4, <1>5, <1>6
<1> QED BY <1>1, <1>2, <1>3, <1>7 DEF x, y, a, m, u

\* An offer or an answer joins the chain, which goes on if nothing waits.
LEMMA JoinFits ==
  ASSUME PoolTyped, NEW n \in Participants, NEW p \in Participants, n # p,
         NEW s \in Within(n), NEW m \in Signal
  PROVE  LET u == [s EXCEPT !.chains[p] = Append(@, m)] IN
         /\ u \in Within(n) /\ Apart(p, s, Chained(n, u, p))
         /\ u.chains[p] = Append(s.chains[p], m) /\ u.peers = s.peers /\ u.works = s.works /\ u.sends = s.sends
<1> DEFINE c == Append(s.chains[p], m)
           u == [s EXCEPT !.chains[p] = c]
<1>1. s \in Parts /\ s.chains[p] \in Seq(Signal)
  BY DEF Within, Parts
<1>2. c \in Seq(Signal)
  BY <1>1
<1> HIDE DEF c
<1>3. u \in Parts
  BY <1>1, <1>2, PartsChanged
<1>4. u.peers = s.peers /\ u.sends = s.sends /\ u.works = s.works /\ u.chains = [s.chains EXCEPT ![p] = c]
  BY <1>1 DEF Parts
<1> HIDE DEF u
<1>5. u.chains[p] = c /\ Apart(p, s, u)
  BY <1>1, <1>4 DEF Parts, Apart
<1>6. u \in Within(n)
  BY <1>3, <1>4, WithinKept
<1>7. Apart(p, u, Chained(n, u, p))
  BY <1>6, ChainApart
<1>8. Apart(p, s, Chained(n, u, p))
  BY <1>5, <1>7, ApartTrans
<1> QED BY <1>4, <1>5, <1>6, <1>8 DEF u, c

\* An offer or an answer comes.
LEMMA DeliverFits ==
  ASSUME PoolTyped, NEW n \in Participants, NEW p \in Participants, n # p, pool[n].generation = 0,
         NEW s \in Within(n), NEW L \in Seq(Signal), NEW f, NEW d, NEW b, NEW v \in Seq(Signal),
         Fitting(n, p, L, s, f, d, b, v), v # <<>>, Head(v).type \in {"offer", "answer"}
  PROVE  Fitting(n, p, L, Chained(n, [s EXCEPT !.chains[p] = Append(@, Head(v))], p), f, d, b, Tail(v))
<1> DEFINE m == Head(v)
           c == s.chains[p]
<1>1. s \in Parts /\ c \in Seq(Signal)
  BY DEF Within, Parts
<1>2. /\ Append(c, m) \o Tail(v) = c \o v
      /\ m \in Signal /\ Tail(v) \in Seq(Signal)
  BY <1>1, Requeued, Zenon
<1> HIDE DEF m
<1> DEFINE u == [s EXCEPT !.chains[p] = Append(@, m)]
<1>3. u \in Within(n) /\ u.chains[p] = Append(c, m) /\ u.peers = s.peers /\ u.works = s.works /\ u.sends = s.sends
  BY <1>2, JoinFits
<1> HIDE DEF u
<1>4. PartEnd(L, p, u) = PartEnd(L, p, s) /\ (Ends(p, u) <=> Ends(p, s))
  BY <1>3 DEF PartEnd, Ends
<1>5. Fits(n, p, L, u, Facing(f, u.chains[p] \o Tail(v)), d, b)
  <2> DEFINE h == Facing(f, c \o v)
             g == PartEnd(L, p, s)
  <2>1. PairOK(n, p, g, h, d, b \/ Ends(p, s)) /\ h = Facing(f, u.chains[p] \o Tail(v))
    BY <1>2, <1>3 DEF Fitting, Fits
  <2> HIDE DEF h, g
  <2>2. PairOK(n, p, PartEnd(L, p, u), h, d, b \/ Ends(p, s))
    BY <1>4, <2>1 DEF g
  <2>3. Fits(n, p, L, u, h, d, b)
    BY <1>4, <2>2, FitsBy
  <2> QED BY <2>1, <2>3
<1>6. \A k \in ToSet(u.chains[p]) : k.type \in {"offer", "answer"}
  <2>1. ToSet(Append(c, m)) = ToSet(c) \cup {m}
    BY <1>1, <1>2, Appended
  <2> QED BY <1>3, <2>1 DEF Fitting, m
<1>7. Fitting(n, p, L, Chained(n, u, p), f, d, b, Tail(v))
  BY <1>2, <1>3, <1>5, <1>6, ChainFits
<1> QED BY <1>7 DEF u, m

-------------------------------------------------------------------------------
(* What follows the awaits of native work.                                   *)

Staged(l, stage) == [l EXCEPT !.stage = stage]

\* A link in another stage is the same link.
LEMMA StagedIs ==
  ASSUME NEW l \in Link, NEW stage \in {"offered", "accepted", "answered", "ready"}
  PROVE  /\ Staged(l, stage) \in Link /\ Staged(l, stage).id = l.id
         /\ Staged(l, stage).initiatedLocally = l.initiatedLocally /\ Staged(l, stage).stage = stage
         /\ Staged(l, stage) # None
<1>1. /\ Staged(l, stage) \in Link /\ Staged(l, stage).id = l.id
      /\ Staged(l, stage).initiatedLocally = l.initiatedLocally /\ Staged(l, stage).stage = stage
  BY DEF Staged, Link
<1> QED BY <1>1, LinkAssumption

\* What follows an await, if its link is there.
Goes(n, u, w, p, z) ==
  \/ w.does = "offer" /\ pool[n].online
       /\ Turned(p, u, z, Staged(u.peers[p], "offered"), Append(u.sends[p], Told("offer", w.id)), {})
  \/ w.does = "answer"
       /\ Turned(p, u, z, Staged(u.peers[p], "answered"), Append(u.sends[p], Told("answer", w.id)), {})
  \/ w.does = "accept"
       /\ Turned(p, u, z, Staged(u.peers[p], "accepted"), u.sends[p], {})

\* Its pool has turned to its peer.
LEMMA StageIs ==
  ASSUME NEW u \in Parts, NEW p \in Participants, u.peers[p] \in Link,
         NEW stage \in {"offered", "accepted", "answered", "ready"}
  PROVE  LET z == [u EXCEPT !.peers[p].stage = stage] IN
         z \in Parts /\ Turned(p, u, z, Staged(u.peers[p], stage), u.sends[p], {})
<1> DEFINE l == Staged(u.peers[p], stage)
           z == [u EXCEPT !.peers[p].stage = stage]
<1>1. l \in Link
  BY StagedIs
<1>2. z = [u EXCEPT !.peers[p] = l]
  BY DEF Staged
<1> HIDE DEF l, z
<1>3. z \in Parts /\ Turned(p, u, z, l, u.sends[p], {})
  BY <1>1, <1>2, LinkIs
<1> QED BY <1>3 DEF l, z

\* Current work goes on in one of the ways of Goes.
LEMMA ContinuedGoes ==
  ASSUME NEW n, NEW w \in Work, NEW u \in Parts, Current(n, u, w),
         w.does = "offer" => pool[n].online
  PROVE  Goes(n, u, w, w.peer, Continued(n, u, w))
<1> DEFINE p == w.peer
           z(stage) == [u EXCEPT !.peers[p].stage = stage]
           stages == {"offered", "accepted", "answered", "ready"}
<1>1. p \in Participants /\ w.does \in {"offer", "answer", "accept"}
  BY DEF Work
<1>2. u.peers[p] \in Link
  BY <1>1 DEF Current, HasLink, Parts
<1>3. \A stage \in stages : z(stage) \in Parts
        /\ Turned(p, u, z(stage), Staged(u.peers[p], stage), u.sends[p], {})
  BY <1>1, <1>2, StageIs
<1> HIDE DEF p, z
<1>4. ASSUME NEW stage \in stages, NEW type
      PROVE  Turned(p, u, Sending(z(stage), p, type, w.id), Staged(u.peers[p], stage),
                    Append(u.sends[p], Told(type, w.id)), {})
  <2> DEFINE l == Staged(u.peers[p], stage)
             y == z(stage)
             c == Append(u.sends[p], Told(type, w.id))
  <2>1. y \in Parts /\ Turned(p, u, y, l, u.sends[p], {})
    BY <1>3
  <2>2. y.peers[p] = l /\ y.sends[p] = u.sends[p]
    BY <1>1, <2>1, TurnedHas
  <2>3. Turned(p, y, Sending(y, p, type, w.id), y.peers[p], Append(y.sends[p], [type |-> type, id |-> w.id]), {})
    BY <1>1, <2>1, SendingIs
  <2>4. Turned(p, y, Sending(y, p, type, w.id), l, c, {})
    BY <2>2, <2>3 DEF Told
  <2> HIDE DEF l, y, c
  <2>5. Turned(p, u, Sending(y, p, type, w.id), l, c, {} \cup {})
    BY <1>1, <2>1, <2>4, TurnedTrans, Zenon
  <2>6. {} \cup {} = {}
    OBVIOUS
  <2> QED BY <2>5, <2>6 DEF l, y, c
<1>5. CASE w.does = "offer"
  <2>1. Continued(n, u, w) = Sending(z("offered"), p, "offer", w.id)
    BY <1>5 DEF Continued, p, z
  <2>2. Turned(p, u, Sending(z("offered"), p, "offer", w.id), Staged(u.peers[p], "offered"),
               Append(u.sends[p], Told("offer", w.id)), {})
    BY <1>4
  <2> QED BY <1>5, <2>1, <2>2 DEF Goes, p
<1>6. CASE w.does = "answer"
  <2>1. Continued(n, u, w) = Sending(z("answered"), p, "answer", w.id)
    BY <1>6 DEF Continued, p, z
  <2>2. Turned(p, u, Sending(z("answered"), p, "answer", w.id), Staged(u.peers[p], "answered"),
               Append(u.sends[p], Told("answer", w.id)), {})
    BY <1>4
  <2> QED BY <1>6, <2>1, <2>2 DEF Goes, p
<1>7. CASE w.does = "accept"
  <2>1. Continued(n, u, w) = z("accepted")
    BY <1>7 DEF Continued, p, z
  <2>2. Turned(p, u, z("accepted"), Staged(u.peers[p], "accepted"), u.sends[p], {})
    BY <1>3
  <2> QED BY <1>7, <2>1, <2>2 DEF Goes, p
<1> QED BY <1>1, <1>5, <1>6, <1>7

\* It leaves the other links, the chains and the works.
LEMMA GoesIs ==
  ASSUME NEW n, NEW w, NEW p \in Participants, NEW u \in Parts, NEW z, Goes(n, u, w, p, z)
  PROVE  Apart(p, u, z) /\ z.chains = u.chains /\ z.works = u.works
<1>1. PICK l, c : Turned(p, u, z, l, c, {})
  BY DEF Goes
<1>2. \A x \in {} : x.peer = p
  OBVIOUS
<1>3. Apart(p, u, z)
  BY <1>1, <1>2, TurnedApart
<1> QED BY <1>1, <1>3 DEF Turned

\* The step after an await touches what is for its peer.
LEMMA ContinueApart ==
  ASSUME PoolTyped, NEW n \in Participants, NEW w \in Work, NEW s \in Within(n), s.peers = peers[n]
  PROVE  LET u == [s EXCEPT !.works = @ \ {w}]
             z == Continued(n, u, w)
             t == IF w.chained THEN Chained(n, z, w.peer) ELSE z
         IN  t \in Within(n) /\ Apart(w.peer, s, t)
<1> DEFINE p == w.peer
           ws == s.works \ {w}
           u == [s EXCEPT !.works = ws]
           z == Continued(n, u, w)
           t == IF w.chained THEN Chained(n, z, p) ELSE z
<1>1. s \in Parts /\ p \in Participants /\ w.does \in {"offer", "answer", "accept"}
  BY DEF Within, Work
<1>2. u \in Parts /\ u.peers = s.peers /\ u.sends = s.sends /\ u.chains = s.chains /\ u.works = ws
  <2>1. ws \in SUBSET Work
    BY <1>1 DEF Parts
  <2> HIDE DEF ws
  <2>2. u \in Parts
    BY <1>1, <2>1, PartsChanged
  <2> QED BY <1>1, <2>2 DEF Parts
<1>3. Apart(p, s, u)
  BY <1>2 DEF Apart
<1>4. u \in Within(n)
  BY <1>2, WithinKept
<1> HIDE DEF p, u
<1>5. z \in Within(n) /\ z \in Parts
  BY <1>2, <1>4, ContinuedWithin DEF Within
<1>6. Apart(p, u, z)
  <2>1. CASE ~Current(n, u, w)
    BY <2>1 DEF Continued, Apart
  <2>2. CASE Current(n, u, w) /\ (w.does = "offer" => pool[n].online)
    BY <1>1, <1>2, <2>2, ContinuedGoes, GoesIs DEF p
  <2>3. CASE Current(n, u, w) /\ w.does = "offer" /\ ~pool[n].online
    <3>1. z = Dropped(u, p)
      BY <2>3 DEF Continued, p
    <3> QED BY <1>1, <1>2, <3>1, DroppedApart
  <2> QED BY <2>1, <2>2, <2>3
<1> HIDE DEF z
<1>7. t \in Within(n) /\ Apart(p, z, t)
  <2>1. Chained(n, z, p) \in Within(n) /\ Apart(p, z, Chained(n, z, p))
    BY <1>1, <1>5, ChainWithin, ChainApart
  <2>2. Apart(p, z, z)
    BY DEF Apart
  <2> QED BY <1>5, <2>1, <2>2
<1> HIDE DEF t
<1>8. Apart(p, s, t)
  BY <1>3, <1>6, <1>7, ApartTrans
<1> QED BY <1>7, <1>8 DEF t, z, u, p

-------------------------------------------------------------------------------
(* The work that goes on, and the connection that is ready.                  *)

\* The end e goes on as g after the await of w.
EndGoes(w, e, g) ==
  /\ g.works = e.works \ {w}
  /\ \/ w.does = "offer" /\ g.link = Staged(e.link, "offered") /\ g.line = Append(e.line, Told("offer", w.id))
     \/ w.does = "answer" /\ g.link = Staged(e.link, "answered") /\ g.line = Append(e.line, Told("answer", w.id))
     \/ w.does = "accept" /\ g.link = Staged(e.link, "accepted") /\ g.line = e.line

\* The end of p after the await of w, whose link is there.
LEMMA GoesEnd ==
  ASSUME NEW n, NEW w, NEW p \in Participants, NEW s \in Parts, NEW u \in Parts, NEW z, NEW L \in Seq(Signal),
         u.peers = s.peers, u.sends = s.sends, u.works = s.works \ {w}, HasLink(s, p, w.id), w.id \in Ids,
         Goes(n, u, w, p, z)
  PROVE  /\ EndGoes(w, PartEnd(L, p, s), PartEnd(L, p, z)) /\ s.peers[p] \in Link
         /\ Ends(p, z) <=> Ends(p, s)
<1> DEFINE e == PartEnd(L, p, s)
           g == PartEnd(L, p, z)
           q == s.sends[p]
<1>1. /\ z.works = u.works
      /\ \/ w.does = "offer" /\ z.peers[p] = Staged(s.peers[p], "offered") /\ z.sends[p] = Append(q, Told("offer", w.id))
         \/ w.does = "answer" /\ z.peers[p] = Staged(s.peers[p], "answered") /\ z.sends[p] = Append(q, Told("answer", w.id))
         \/ w.does = "accept" /\ z.peers[p] = Staged(s.peers[p], "accepted") /\ z.sends[p] = q
  <2>1. z.works = u.works
    BY GoesIs
  <2>2. \A l, c : Turned(p, u, z, l, c, {}) => z.peers[p] = l /\ z.sends[p] = c
    BY TurnedHas
  <2> QED BY <2>1, <2>2 DEF Goes
<1>2. q \in Seq(Signal) /\ s.peers[p] \in Link \cup {None}
  BY PartsAt
<1>3. s.peers[p] \in Link
  BY <1>2 DEF HasLink
<1>4. \A type \in {"offer", "answer"} :
        /\ L \o Append(q, Told(type, w.id)) = Append(L \o q, Told(type, w.id))
        /\ ToSet(Append(q, Told(type, w.id))) = ToSet(q) \cup {Told(type, w.id)}
  <2> SUFFICES ASSUME NEW type \in {"offer", "answer"}
               PROVE  /\ L \o Append(q, Told(type, w.id)) = Append(L \o q, Told(type, w.id))
                      /\ ToSet(Append(q, Told(type, w.id))) = ToSet(q) \cup {Told(type, w.id)}
    OBVIOUS
  <2> DEFINE k == Told(type, w.id)
  <2>1. k \in Signal
    BY DEF Told, Signal
  <2> HIDE DEF k, q
  <2>2. L \o Append(q, k) = Append(L \o q, k) /\ ToSet(Append(q, k)) = ToSet(q) \cup {k}
    BY <1>2, <2>1, Appended, Zenon
  <2> QED BY <2>2 DEF k
<1>5. g.works = e.works \ {w} /\ e.link = s.peers[p] /\ g.link = z.peers[p] /\ g.line = L \o z.sends[p] /\ e.line = L \o q
  BY <1>1 DEF PartEnd
<1>6. Ends(p, z) <=> Ends(p, s)
  <2>1. CASE w.does = "accept"
    BY <1>1, <2>1 DEF Ends
  <2>2. CASE w.does # "accept"
    <3>1. PICK type \in {"offer", "answer"} : z.sends[p] = Append(q, Told(type, w.id))
      BY <1>1, <2>2
    <3>2. ToSet(z.sends[p]) = ToSet(q) \cup {Told(type, w.id)}
      BY <1>4, <3>1
    <3> QED BY <3>2 DEF Ends, Told
  <2> QED BY <2>1, <2>2
<1> HIDE DEF e, g, q
<1>7. \/ w.does = "offer" /\ g.link = Staged(e.link, "offered") /\ g.line = Append(e.line, Told("offer", w.id))
      \/ w.does = "answer" /\ g.link = Staged(e.link, "answered") /\ g.line = Append(e.line, Told("answer", w.id))
      \/ w.does = "accept" /\ g.link = Staged(e.link, "accepted") /\ g.line = e.line
  BY <1>1, <1>4, <1>5
<1>8. EndGoes(w, e, g)
  BY <1>5, <1>7 DEF EndGoes
<1> QED BY <1>3, <1>6, <1>8 DEF e, g

\* The work, that is of the end of p.
LEMMA GoesPair ==
  ASSUME NEW n, NEW w, NEW p \in Participants, n # p, NEW s \in Parts, NEW u \in Parts, NEW z, NEW L \in Seq(Signal),
         u.peers = s.peers, u.sends = s.sends, u.works = s.works \ {w}, HasLink(s, p, w.id), w.id \in Ids,
         Goes(n, u, w, p, z), w \in s.works, w.peer = p, NEW h, NEW d, NEW b, Fits(n, p, L, s, h, d, b)
  PROVE  Fits(n, p, L, z, h, d, b)
<1> DEFINE e == PartEnd(L, p, s)
           g == PartEnd(L, p, z)
           x == b \/ Ends(p, s)
<1>1. /\ EndGoes(w, e, g) /\ e.link = s.peers[p] /\ s.peers[p] \in Link
      /\ Ends(p, z) <=> Ends(p, s)
  <2>1. EndGoes(w, e, g) /\ s.peers[p] \in Link /\ (Ends(p, z) <=> Ends(p, s))
    BY GoesEnd
  <2> QED BY <2>1 DEF PartEnd
<1>2. PairOK(n, p, e, h, d, x)
  BY DEF Fits
<1>3. w \in e.works
  BY DEF PartEnd
<1>4. Holds(e, w.id)
  BY <1>1 DEF Holds, HasLink
<1>5. Offer(w.id) = Told("offer", w.id)
  BY DEF Offer, Told
<1>6. \A type \in {"offer", "answer"} : LET k == Told(type, w.id) IN k \in Signal /\ k.type = type /\ k.id = w.id
  BY DEF Told, Signal
<1>7. x => b \/ Ends(p, z)
  BY <1>1
<1>8. \A stage \in {"offered", "accepted", "answered", "ready"} :
        LET l == Staged(e.link, stage) IN
        l \in Link /\ l.id = e.link.id /\ l.initiatedLocally = e.link.initiatedLocally /\ l.stage = stage /\ l # None
  BY <1>1, StagedIs
<1>12. /\ g.works = e.works \ {w}
       /\ \/ w.does = "offer" /\ g.link = Staged(e.link, "offered") /\ g.line = Append(e.line, Told("offer", w.id))
          \/ w.does = "answer" /\ g.link = Staged(e.link, "answered") /\ g.line = Append(e.line, Told("answer", w.id))
          \/ w.does = "accept" /\ g.link = Staged(e.link, "accepted") /\ g.line = e.line
  BY <1>1 DEF EndGoes
<1> HIDE DEF e, g, x
<1>9. CASE w.does = "offer"
  <2>1. g.link = Staged(e.link, "offered") /\ g.line = Append(e.line, Offer(w.id)) /\ Offer(w.id) \in Signal
    BY <1>12, <1>5, <1>6, <1>9
  <2>2. g.link \in Link /\ g.link.id = e.link.id /\ g.link.initiatedLocally = e.link.initiatedLocally
        /\ g.link.stage = "offered" /\ g.link # None
    BY <1>8, <2>1
  <2>3. PairOK(n, p, g, h, d, x)
    BY <1>12, <1>2, <1>3, <1>4, <1>9, <2>1, <2>2, OfferedPair
  <2> QED BY <1>7, <2>3, FitsBy DEF g
<1>10. CASE w.does = "answer"
  <2> DEFINE k == Told("answer", w.id)
  <2>1. g.link = Staged(e.link, "answered") /\ g.line = Append(e.line, k)
        /\ k \in Signal /\ k.type = "answer" /\ k.id = w.id
    BY <1>12, <1>6, <1>10
  <2>2. g.link \in Link /\ g.link.id = e.link.id /\ g.link.initiatedLocally = e.link.initiatedLocally
        /\ g.link.stage = "answered" /\ g.link # None
    BY <1>8, <2>1
  <2> HIDE DEF k
  <2>3. PairOK(n, p, g, h, d, x)
    BY <1>12, <1>2, <1>3, <1>4, <1>10, <2>1, <2>2, AnsweredPair
  <2> QED BY <1>7, <2>3, FitsBy DEF g
<1>11. CASE w.does = "accept"
  <2>1. g.link = Staged(e.link, "accepted") /\ g.line = e.line
    BY <1>12, <1>11
  <2>2. g.link \in Link /\ g.link.id = e.link.id /\ g.link.initiatedLocally = e.link.initiatedLocally
        /\ g.link.stage = "accepted" /\ g.link # None
    BY <1>8, <2>1
  <2>3. PairOK(n, p, g, h, d, x)
    BY <1>12, <1>2, <1>3, <1>4, <1>11, <2>1, <2>2, AcceptedPair
  <2> QED BY <1>7, <2>3, FitsBy DEF g
<1> QED BY <1>12, <1>9, <1>10, <1>11

\* Work goes on, and the chain behind it.
LEMMA ContinueFits ==
  ASSUME PoolTyped, NEW n \in Participants, NEW w \in Work, n # w.peer,
         ~pool[n].closed, pool[n].online, pool[n].generation = 0,
         NEW s \in Within(n), s.peers = peers[n], w \in s.works,
         NEW L \in Seq(Signal), NEW f, NEW d, NEW b, NEW v \in Seq(Signal),
         Fitting(n, w.peer, L, s, f, d, b, v)
  PROVE  LET u == [s EXCEPT !.works = @ \ {w}]
             z == Continued(n, u, w)
         IN  Fitting(n, w.peer, L, IF w.chained THEN Chained(n, z, w.peer) ELSE z, f, d, b, v)
<1> DEFINE p == w.peer
           ws == s.works \ {w}
           u == [s EXCEPT !.works = ws]
           z == Continued(n, u, w)
           h == Facing(f, s.chains[p] \o v)
<1>1. s \in Parts /\ p \in Participants /\ w.id \in Ids
  BY DEF Within, Work
<1>2. u \in Parts /\ u.peers = s.peers /\ u.sends = s.sends /\ u.chains = s.chains /\ u.works = ws
  <2>1. ws \in SUBSET Work
    BY <1>1 DEF Parts
  <2> HIDE DEF ws
  <2>2. u \in Parts
    BY <1>1, <2>1, PartsChanged
  <2> QED BY <1>1, <2>2 DEF Parts
<1>3. u \in Within(n)
  BY <1>2, WithinKept
<1> HIDE DEF u
<1>4. z \in Within(n) /\ z \in Parts
  BY <1>2, <1>3, ContinuedWithin DEF Within
<1>5. Fits(n, p, L, s, h, d, b)
  BY DEF Fitting
<1>6. w.generation = 0
  <2> DEFINE e == PartEnd(L, p, s)
             x == b \/ Ends(p, s)
  <2>1. PairOK(n, p, e, h, d, x) /\ w \in e.works
    BY <1>5 DEF Fits, PartEnd
  <2> HIDE DEF e, h, x
  <2>2. Core(n, p, e, h, d)
    BY <2>1, PairParts
  <2> QED BY <2>1, <2>2 DEF Core, Roles, WorkRole
<1>7. Current(n, u, w) <=> HasLink(s, p, w.id)
  BY <1>2, <1>6 DEF Current, HasLink
<1>8. Fits(n, p, L, z, h, d, b) /\ z.chains = s.chains /\ z.works = ws
  <2>1. CASE Current(n, u, w)
    <3>1. Goes(n, u, w, p, z)
      BY <1>2, <2>1, ContinuedGoes
    <3> HIDE DEF p, z, h
    <3>2. Fits(n, p, L, z, h, d, b)
      BY <1>1, <1>2, <1>5, <1>7, <2>1, <3>1, GoesPair DEF p
    <3>3. z.chains = u.chains /\ z.works = u.works
      BY <1>1, <1>2, <3>1, GoesIs
    <3> QED BY <1>2, <3>2, <3>3
  <2>2. CASE ~Current(n, u, w)
    <3>1. z = u
      BY <2>2 DEF Continued
    <3> DEFINE e == PartEnd(L, p, s)
               g == PartEnd(L, p, u)
               x == b \/ Ends(p, s)
    <3>2. g.link = e.link /\ g.line = e.line /\ g.works = e.works \ {w}
      BY <1>2 DEF PartEnd
    <3>3. ~Holds(e, w.id)
      BY <1>7, <2>2 DEF Holds, HasLink, PartEnd
    <3>4. PairOK(n, p, e, h, d, x)
      BY <1>5 DEF Fits
    <3>5. x => b \/ Ends(p, u)
      BY <1>2 DEF Ends
    <3> HIDE DEF e, g, x, h, p
    <3>6. PairOK(n, p, g, h, d, x)
      BY <3>2, <3>3, <3>4, OverPair
    <3>7. Fits(n, p, L, u, h, d, b)
      BY <3>5, <3>6, FitsBy DEF g
    <3> QED BY <1>2, <3>1, <3>7
  <2> QED BY <2>1, <2>2
<1>9. \A m \in ToSet(s.chains[p]) : m.type \in {"offer", "answer"}
  BY DEF Fitting
<1>10. s.chains[p] # <<>> => Waits(s, p)
  BY DEF Fitting
<1> HIDE DEF z, p
<1>11. CASE w.chained
  <2>1. Fitting(n, p, L, Chained(n, z, p), f, d, b, v)
    BY <1>1, <1>4, <1>8, <1>9, ChainFits DEF h, p
  <2> QED BY <1>11, <2>1 DEF z, u, p
<1>12. CASE ~w.chained
  <2>1. Waits(s, p) => Waits(z, p)
    BY <1>8, <1>12 DEF Waits
  <2>2. Fitting(n, p, L, z, f, d, b, v)
    BY <1>8, <1>9, <1>10, <2>1 DEF Fitting, h
  <2> QED BY <1>12, <2>2 DEF z, u, p
<1> QED BY <1>11, <1>12

\* A link becomes ready.
LEMMA ReadyFits ==
  ASSUME NEW n, NEW p \in Participants, n # p, NEW s \in Parts, NEW L,
         NEW f, NEW d, NEW b, NEW v, NEW t,
         Fitting(n, p, L, s, f, d, b, v), s.peers[p] # None, s.peers[p].stage \in {"accepted", "answered"},
         Turned(p, s, t, Staged(s.peers[p], "ready"), s.sends[p], {})
  PROVE  Fitting(n, p, L, t, f, d, b, v)
<1> DEFINE e == PartEnd(L, p, s)
           g == PartEnd(L, p, t)
           h == Facing(f, s.chains[p] \o v)
           x == b \/ Ends(p, s)
           l == Staged(s.peers[p], "ready")
<1>1. t.peers[p] = l /\ t.sends[p] = s.sends[p] /\ t.chains = s.chains /\ t.works = s.works \cup {}
  <2>1. Turned(p, s, t, l, s.sends[p], {})
    OBVIOUS
  <2> HIDE DEF l
  <2>2. t.peers[p] = l /\ t.sends[p] = s.sends[p]
    BY <2>1, TurnedHas
  <2> QED BY <2>1, <2>2 DEF Turned
<1>2. s.peers[p] \in Link
  BY PartsAt
<1>3. /\ l \in Link /\ l.id = s.peers[p].id
      /\ l.initiatedLocally = s.peers[p].initiatedLocally /\ l.stage = "ready" /\ l # None
  BY <1>2, StagedIs
<1> HIDE DEF l
<1>4. g.link = l /\ e.link = s.peers[p] /\ g.line = e.line /\ g.works = e.works
  BY <1>1 DEF PartEnd
<1>5. PairOK(n, p, e, h, d, x)
  BY DEF Fitting, Fits
<1>6. x => b \/ Ends(p, t)
  BY <1>1 DEF Ends
<1> HIDE DEF e, g, h, x
<1>7. PairOK(n, p, g, h, d, x)
  BY <1>3, <1>4, <1>5, ReadyPair
<1>8. Fits(n, p, L, t, h, d, b)
  BY <1>6, <1>7, FitsBy DEF g
<1>9. Waits(s, p) => Waits(t, p)
  BY <1>1 DEF Waits
<1> QED BY <1>1, <1>8, <1>9 DEF Fitting, h

-------------------------------------------------------------------------------
(* From a pool to the state of all pools.                                    *)

\* What is of a for b stays.
Same(a, b) ==
  /\ peers'[a][b] = peers[a][b] /\ chains'[a][b] = chains[a][b] /\ wire'[a][b] = wire[a][b]
  /\ \A w \in Work : w.peer = b => (w \in works'[a] <=> w \in works[a])

\* The step is of n and p.
Elsewhere(n, p) == \A a, b \in Participants : {a, b} # {n, p} => Same(a, b)

\* A pair that a step has nothing to do with.
LEMMA HoldsKept ==
  ASSUME PartsInv, PartsInv', NEW a \in Participants, NEW b \in Participants, PairHolds(a, b),
         pool'[a] = pool[a], ended \subseteq ended', Same(a, b), Same(b, a),
         \A e, f, x : PairOK(a, b, e, f, drawn, x) => PairOK(a, b, e, f, drawn', x)
  PROVE  PairHolds(a, b)'
<1>1. /\ peers'[a][b] = peers[a][b] /\ chains'[a][b] = chains[a][b] /\ wire'[a][b] = wire[a][b]
      /\ peers'[b][a] = peers[b][a] /\ chains'[b][a] = chains[b][a] /\ wire'[b][a] = wire[b][a]
      /\ \A w \in Work : w.peer = b => (w \in works'[a] <=> w \in works[a])
      /\ \A w \in Work : w.peer = a => (w \in works'[b] <=> w \in works[b])
  BY DEF Same
<1>2. works[a] \subseteq Work /\ works'[a] \subseteq Work /\ works[b] \subseteq Work /\ works'[b] \subseteq Work
  BY DEF PartsInv
<1>3. End(a, b)' = End(a, b) /\ End(b, a)' = End(b, a)
  <2>1. {w \in works'[a] : w.peer = b} = {w \in works[a] : w.peer = b}
    BY <1>1, <1>2
  <2>2. {w \in works'[b] : w.peer = a} = {w \in works[b] : w.peer = a}
    BY <1>1, <1>2
  <2> QED BY <1>1, <2>1, <2>2 DEF End
<1>4. /\ ~pool[a].closed /\ pool[a].online /\ pool[a].generation = 0
      /\ Settled(a, b)
      /\ \A m \in ToSet(chains[a][b]) : m.type \in {"offer", "answer"}
      /\ PairOK(a, b, End(a, b), End(b, a), drawn, Pair(a, b) \in ended)
  BY DEF PairHolds
<1>5. Settled(a, b)'
  BY <1>1, <1>2, <1>4 DEF Settled
<1>6. PairOK(a, b, End(a, b)', End(b, a)', drawn', Pair(a, b) \in ended')
  <2> DEFINE x == Pair(a, b) \in ended
             y == Pair(a, b) \in ended'
             e == End(a, b)
             f == End(b, a)
  <2>1. x => y
    OBVIOUS
  <2>2. PairOK(a, b, e, f, drawn, x)
    BY <1>4
  <2> HIDE DEF x, y, e, f
  <2>3. PairOK(a, b, e, f, drawn', x)
    BY <2>2
  <2>4. PairOK(a, b, e, f, drawn', y)
    BY <2>1, <2>3, PairMore
  <2> QED BY <1>3, <2>4 DEF e, f, y
<1> QED BY <1>1, <1>4, <1>5, <1>6 DEF PairHolds, Pair

\* A step of n for p: n ends in t, and what it says joins the queues.
Turns(n, p, t, queues) ==
  /\ Becomes(n, t) /\ t \in Within(n) /\ Apart(p, Pool(n), t)
  /\ queues \in Queues /\ Sent(n, t, queues)
  /\ \A a, b \in Participants : <<a, b>> # <<p, n>> => queues[a][b] = wire[a][b]

\* The queues after a step of n for p.
LEMMA TurnsWire ==
  ASSUME PartsInv, wire \in Queues, NEW n \in Participants, NEW p \in Participants, n # p,
         NEW t, NEW queues, Turns(n, p, t, queues)
  PROVE  /\ \A a, b \in Participants : a # n => wire'[a][b] = queues[a][b]
         /\ \A q \in Participants : wire'[n][q] =
              IF pool[n].online /\ pool[q].online /\ ~pool[q].closed
              THEN wire[n][q] \o t.sends[q] ELSE wire[n][q]
<1>1. queues \in Queues /\ Sent(n, t, queues) /\ \A q \in Participants : queues[n][q] = wire[n][q]
  BY DEF Turns
<1> QED BY <1>1 DEF Sent, Queues

\* It leaves the other pairs.
LEMMA TurnsElsewhere ==
  ASSUME PartsInv, wire \in Queues, NEW n \in Participants, NEW p \in Participants, n # p,
         NEW t, NEW queues, Turns(n, p, t, queues)
  PROVE  Elsewhere(n, p)
<1> SUFFICES ASSUME NEW a \in Participants, NEW b \in Participants, {a, b} # {n, p} PROVE Same(a, b)
  BY DEF Elsewhere
<1>1. /\ peers' = [peers EXCEPT ![n] = t.peers] /\ chains' = [chains EXCEPT ![n] = t.chains]
      /\ works' = [works EXCEPT ![n] = t.works]
  BY DEF Turns, Becomes
<1>2. Apart(p, Pool(n), t)
  BY DEF Turns
<1>3. CASE a # n
  <2>1. peers'[a] = peers[a] /\ chains'[a] = chains[a] /\ works'[a] = works[a]
    BY <1>1, <1>3 DEF PartsInv
  <2>2. wire'[a][b] = wire[a][b]
    <3>1. <<a, b>> # <<p, n>>
      <4>1. ~(a = p /\ b = n)
        <5>1. {p, n} = {n, p}
          OBVIOUS
        <5> QED BY <5>1, Zenon
      <4> QED BY <4>1
    <3>2. wire'[a][b] = queues[a][b]
      BY <1>3, TurnsWire
    <3> QED BY <3>1, <3>2 DEF Turns
  <2> QED BY <2>1, <2>2 DEF Same
<1>4. CASE a = n
  <2>1. b # p
    BY <1>4
  <2>2. peers'[a] = t.peers /\ chains'[a] = t.chains /\ works'[a] = t.works
    BY <1>1, <1>4 DEF PartsInv
  <2>3. /\ t.peers[b] = peers[n][b] /\ t.chains[b] = chains[n][b] /\ t.sends[b] = <<>>
        /\ \A w \in Work : w.peer = b => (w \in t.works <=> w \in works[n])
    BY <1>2, <2>1 DEF Apart, Pool
  <2>4. wire'[n][b] = wire[n][b]
    <3>1. wire[n][b] \in Seq(Signal)
      BY DEF Queues
    <3>2. wire[n][b] \o <<>> = wire[n][b]
      BY <3>1
    <3>3. wire'[n][b] = wire[n][b] \o t.sends[b] \/ wire'[n][b] = wire[n][b]
      <4>1. wire'[n][b] = IF pool[n].online /\ pool[b].online /\ ~pool[b].closed
                          THEN wire[n][b] \o t.sends[b] ELSE wire[n][b]
        BY TurnsWire, Zenon
      <4> QED BY <4>1
    <3> QED BY <2>3, <3>2, <3>3
  <2> QED BY <1>4, <2>2, <2>3, <2>4 DEF Same
<1> QED BY <1>3, <1>4

\* Three queues in one.
LEMMA Associated ==
  ASSUME NEW q \in Seq(Signal), NEW r \in Seq(Signal), NEW s \in Seq(Signal)
  PROVE  (q \o r) \o s = q \o (r \o s) /\ q \o <<>> = q /\ q \o r \in Seq(Signal)
OBVIOUS

\* The signals of n that p has not handled, and the pool of n before its step.
LEMMA FittingBegins ==
  ASSUME PartsInv, wire \in Queues, NEW n \in Participants, NEW p \in Participants, PairHolds(n, p)
  PROVE  LET L == chains[p][n] \o wire[n][p] IN
         /\ L \in Seq(Signal)
         /\ Fitting(n, p, L, Pool(n), End(p, n), drawn, Pair(n, p) \in ended, wire[p][n])
<1> DEFINE L == chains[p][n] \o wire[n][p]
           s == Pool(n)
           e == End(n, p)
           f == End(p, n)
           x == Pair(n, p) \in ended
<1>1. chains[p][n] \in Seq(Signal) /\ wire[n][p] \in Seq(Signal)
  BY DEF PartsInv, Queues
<1>2. L \in Seq(Signal) /\ L \o <<>> = L
  BY <1>1
<1>3. s.peers = peers[n] /\ s.chains = chains[n] /\ s.works = works[n] /\ s.sends[p] = <<>>
  BY DEF Pool
<1>4. PartEnd(L, p, s) = e
  <2> HIDE DEF s
  <2>1. PartEnd(L, p, s) = [link |-> peers[n][p], line |-> L \o <<>>, works |-> {w \in works[n] : w.peer = p}]
    BY <1>3 DEF PartEnd
  <2>2. PartEnd(L, p, s) = [link |-> peers[n][p], line |-> L, works |-> {w \in works[n] : w.peer = p}]
    BY <1>2, <2>1
  <2> QED BY <2>2 DEF End
<1>5. Facing(f, s.chains[p] \o wire[p][n]) = f
  BY DEF Facing, End, Pool
<1>6. /\ Settled(n, p) /\ PairOK(n, p, e, f, drawn, x)
      /\ \A m \in ToSet(chains[n][p]) : m.type \in {"offer", "answer"}
  BY DEF PairHolds
<1> HIDE DEF s, e, f, x, L
<1>7. Fits(n, p, L, s, Facing(f, s.chains[p] \o wire[p][n]), drawn, x)
  <2>1. PairOK(n, p, PartEnd(L, p, s), Facing(f, s.chains[p] \o wire[p][n]), drawn, x)
    BY <1>4, <1>5, <1>6
  <2> QED BY <2>1, FitsBy
<1>8. s.chains[p] # <<>> => Waits(s, p)
  BY <1>3, <1>6 DEF Settled, Waits
<1>9. Fitting(n, p, L, s, f, drawn, x, wire[p][n])
  BY <1>3, <1>6, <1>7, <1>8 DEF Fitting
<1> QED BY <1>2, <1>9 DEF L, s, f, x

\* The pair of n and p after a step of n for p that leaves it alone.
LEMMA HoldsAfter ==
  ASSUME PartsInv, PartsInv', wire \in Queues, NEW n \in Participants, NEW p \in Participants, n # p,
         pool' = pool, PairHolds(n, p), PairHolds(p, n),
         NEW t, NEW queues, Turns(n, p, t, queues),
         Fitting(n, p, chains[p][n] \o wire[n][p], t, End(p, n), drawn', Pair(n, p) \in ended, queues[p][n])
  PROVE  PairHolds(n, p)' /\ PairHolds(p, n)'
<1> DEFINE L == chains[p][n] \o wire[n][p]
           e == PartEnd(L, p, t)
           f == End(p, n)
           h == Facing(f, t.chains[p] \o queues[p][n])
           b == Pair(n, p) \in ended
           y == Pair(n, p) \in ended'
<1>1. /\ ~pool[n].closed /\ pool[n].online /\ pool[n].generation = 0
      /\ ~pool[p].closed /\ pool[p].online /\ pool[p].generation = 0
      /\ Settled(p, n) /\ \A m \in ToSet(chains[p][n]) : m.type \in {"offer", "answer"}
  BY DEF PairHolds
<1>2. t \in Parts /\ t.sends[p] \in Seq(Signal) /\ t.chains[p] \in Seq(Signal)
  <2>1. t \in Parts
    BY DEF Turns, Within
  <2> QED BY <2>1, PartsAt
<1>3. /\ peers'[n] = t.peers /\ chains'[n] = t.chains /\ works'[n] = t.works
      /\ peers'[p] = peers[p] /\ chains'[p] = chains[p] /\ works'[p] = works[p]
  <2>1. /\ peers' = [peers EXCEPT ![n] = t.peers] /\ chains' = [chains EXCEPT ![n] = t.chains]
        /\ works' = [works EXCEPT ![n] = t.works]
    BY DEF Turns, Becomes
  <2> QED BY <2>1 DEF PartsInv
<1>4. wire'[n][p] = wire[n][p] \o t.sends[p] /\ wire'[p][n] = queues[p][n]
  <2>1. wire'[n][p] = IF pool[n].online /\ pool[p].online /\ ~pool[p].closed
                      THEN wire[n][p] \o t.sends[p] ELSE wire[n][p]
    BY TurnsWire, Zenon
  <2>2. wire'[p][n] = queues[p][n]
    <3>1. \A k, l \in Participants : k # n => wire'[k][l] = queues[k][l]
      BY TurnsWire
    <3> QED BY <3>1
  <2> QED BY <1>1, <2>1, <2>2
<1>5. chains[p][n] \o (wire[n][p] \o t.sends[p]) = L \o t.sends[p]
  <2>1. chains[p][n] \in Seq(Signal) /\ wire[n][p] \in Seq(Signal)
    BY DEF PartsInv, Queues
  <2> DEFINE q == chains[p][n]
             r == wire[n][p]
             u == t.sends[p]
  <2>3. q \in Seq(Signal) /\ r \in Seq(Signal) /\ u \in Seq(Signal)
    BY <1>2, <2>1
  <2> HIDE DEF q, r, u
  <2>4. (q \o r) \o u = q \o (r \o u)
    BY <2>3, Associated
  <2>2. (chains[p][n] \o wire[n][p]) \o t.sends[p] = chains[p][n] \o (wire[n][p] \o t.sends[p])
    BY <2>4 DEF q, r, u
  <2> QED BY <2>2
<1>6. End(n, p)' = e
  <2>1. End(n, p)' = [link |-> peers'[n][p], line |-> chains'[p][n] \o wire'[n][p],
                      works |-> {w \in works'[n] : w.peer = p}]
    BY DEF End
  <2>2. End(n, p)' = [link |-> t.peers[p], line |-> L \o t.sends[p], works |-> {w \in t.works : w.peer = p}]
    BY <1>3, <1>4, <1>5, <2>1
  <2> QED BY <2>2 DEF PartEnd
<1>7. End(p, n)' = h
  <2>1. End(p, n)' = [link |-> peers'[p][n], line |-> chains'[n][p] \o wire'[p][n],
                      works |-> {w \in works'[p] : w.peer = n}]
    BY DEF End
  <2>2. h = [link |-> peers[p][n], line |-> t.chains[p] \o queues[p][n], works |-> {w \in works[p] : w.peer = n}]
    BY DEF Facing, End
  <2> QED BY <1>3, <1>4, <2>1, <2>2
<1>8. b \/ Ends(p, t) => y
  <2>1. ended' = ended \cup {Pair(n, r) : r \in {q \in Participants :
                \E m \in ToSet(t.sends[q]) : m.type \in {"capacity", "close"}}}
    BY DEF Turns, Becomes
  <2> QED BY <2>1 DEF Ends
<1>9. /\ PairOK(n, p, e, h, drawn', b \/ Ends(p, t))
      /\ t.chains[p] # <<>> => Waits(t, p)
      /\ \A m \in ToSet(t.chains[p]) : m.type \in {"offer", "answer"}
  BY DEF Fitting, Fits
<1>10. PairOK(n, p, e, h, drawn', y) /\ PairOK(p, n, h, e, drawn', y)
  <2> DEFINE x == b \/ Ends(p, t)
  <2>1. PairOK(n, p, e, h, drawn', x) /\ (x => y)
    BY <1>8, <1>9
  <2> HIDE DEF x, y, e, h
  <2>2. PairOK(n, p, e, h, drawn', y)
    BY <2>1, PairMore
  <2> QED BY <2>2, PairParts
<1>11. Settled(n, p)' /\ Settled(p, n)'
  <2>1. Settled(n, p)'
    BY <1>3, <1>9 DEF Settled, Waits
  <2>2. Settled(p, n)'
    BY <1>1, <1>3 DEF Settled
  <2> QED BY <2>1, <2>2
<1>12. Pair(p, n) = Pair(n, p)
  BY DEF Pair
<1>13. PairOK(n, p, End(n, p)', End(p, n)', drawn', Pair(n, p) \in ended')
  BY <1>6, <1>7, <1>10
<1>14. PairOK(p, n, End(p, n)', End(n, p)', drawn', Pair(p, n) \in ended')
  BY <1>6, <1>7, <1>10, <1>12
<1>15. (\A m \in ToSet(chains'[n][p]) : m.type \in {"offer", "answer"})
       /\ (\A m \in ToSet(chains'[p][n]) : m.type \in {"offer", "answer"})
  BY <1>1, <1>3, <1>9
<1> HIDE DEF e, h, y, b, L, f
<1>16. PairHolds(n, p)'
  BY <1>1, <1>11, <1>13, <1>15 DEF PairHolds, Pair
<1>17. PairHolds(p, n)'
  BY <1>1, <1>11, <1>14, <1>15 DEF PairHolds, Pair
<1> QED BY <1>16, <1>17

\* No pool has anything to do with itself.
LEMMA SelfKept ==
  ASSUME PartsInv', SelfInv, NEW n \in Participants, NEW p \in Participants, n # p, Elsewhere(n, p)
  PROVE  SelfInv'
<1> SUFFICES ASSUME NEW a \in Participants
             PROVE  peers'[a][a] = None /\ wire'[a][a] = <<>> /\ chains'[a][a] = <<>>
                    /\ \A w \in works'[a] : w.peer # a
  BY DEF SelfInv
<1>1. Same(a, a)
  <2>1. {a, a} # {n, p}
    OBVIOUS
  <2> QED BY <2>1 DEF Elsewhere
<1>2. works'[a] \subseteq Work
  BY DEF PartsInv
<1> QED BY <1>1, <1>2 DEF Same, SelfInv

\* The invariant of the pairs.
Pairwise == PairInv /\ SelfInv /\ DrawnInv

\* A step for one pair, which it leaves as PairInv has it or disturbs.
LEMMA StepKeeps ==
  ASSUME PartsInv, PartsInv', Pairwise, DrawnInv', NEW n \in Participants, NEW p \in Participants, n # p,
         Elsewhere(n, p), pool' = pool, disturbed \subseteq disturbed', ended \subseteq ended',
         \A a, b \in Participants : {a, b} # {n, p} =>
           \A e, f, x : PairOK(a, b, e, f, drawn, x) => PairOK(a, b, e, f, drawn', x),
         Pair(n, p) \in disturbed' \/ (PairHolds(n, p)' /\ PairHolds(p, n)')
  PROVE  Pairwise'
<1>1. SelfInv'
  BY SelfKept DEF Pairwise
<1>2. ASSUME NEW a \in Participants, NEW b \in Participants, a # b, Pair(a, b) \notin disturbed'
      PROVE  PairHolds(a, b)'
  <2>1. CASE {a, b} = {n, p}
    <3>1. (a = n /\ b = p) \/ (a = p /\ b = n)
      BY <1>2, <2>1
    <3>2. Pair(n, p) \notin disturbed'
      BY <1>2, <2>1 DEF Pair
    <3> QED BY <3>1, <3>2
  <2>2. CASE {a, b} # {n, p}
    <3>1. PairHolds(a, b)
      BY <1>2 DEF Pairwise, PairInv
    <3>2. {b, a} # {n, p}
      BY <2>2
    <3>3. Same(a, b) /\ Same(b, a)
      BY <2>2, <3>2 DEF Elsewhere
    <3> QED BY <2>2, <3>1, <3>3, HoldsKept
  <2> QED BY <2>1, <2>2
<1>3. PairInv'
  BY <1>2 DEF PairInv, Pair
<1> QED BY <1>1, <1>3 DEF Pairwise

-------------------------------------------------------------------------------
(* The invariant of the pairs, at first and in a step for one pair.          *)

\* A connection id drawn for another pair.
LEMMA DrawnPair ==
  ASSUME NEW a, NEW b, NEW e, NEW f, NEW d, NEW c, NEW x, NEW id \in Ids, NEW y,
         d[id] = <<>>, c[id] = y, y # <<a, b>>, y # <<b, a>>,
         \A i \in Ids : i # id => c[i] = d[i],
         PairOK(a, b, e, f, d, x)
  PROVE  PairOK(a, b, e, f, c, x)
<1>1. Core(a, b, e, f, d) /\ Core(b, a, f, e, d) /\ Lined(e) /\ Lined(f) /\ (x \/ Unended(a, b, e, f, d))
  BY PairParts
<1>2. \A i \in Ids : /\ d[i] = <<a, b>> => c[i] = <<a, b>>
                     /\ d[i] = <<b, a>> => c[i] = <<b, a>>
                     /\ c[i] \in {<<a, b>>, <<b, a>>} => c[i] = d[i]
  <2>1. <<a, b>> # <<>> /\ <<b, a>> # <<>>
    OBVIOUS
  <2> QED BY <2>1
<1>3. ASSUME NEW k, NEW l, NEW g, \A i \in Ids : /\ d[i] = <<k, l>> => c[i] = <<k, l>>
                                                /\ d[i] = <<l, k>> => c[i] = <<l, k>>,
             Roles(k, l, g, d)
      PROVE  Roles(k, l, g, c)
  <2>1. LinkRole(k, l, g, c)
    BY <1>3 DEF Roles, LinkRole, Link
  <2>2. ASSUME NEW m \in Out(g) PROVE SignalRole(k, l, m, c)
    <3>1. SignalRole(k, l, m, d) /\ m.id \in Ids
      BY <1>3 DEF Roles, SignalRole, Signal
    <3> QED BY <1>3, <3>1 DEF SignalRole
  <2>3. ASSUME NEW w \in g.works PROVE WorkRole(k, l, w, c)
    <3>1. WorkRole(k, l, w, d) /\ w.id \in Ids
      BY <1>3 DEF Roles, WorkRole, Work
    <3> QED BY <1>3, <3>1 DEF WorkRole
  <2> QED BY <2>1, <2>2, <2>3 DEF Roles
<1>4. Core(a, b, e, f, c) /\ Core(b, a, f, e, c)
  <2>1. Roles(a, b, e, d) /\ Roles(b, a, f, d)
    BY <1>1 DEF Core
  <2>2. Roles(a, b, e, c)
    BY <1>2, <1>3, <2>1
  <2>3. Roles(b, a, f, c)
    BY <1>2, <1>3, <2>1
  <2> QED BY <1>1, <2>2, <2>3 DEF Core
<1>5. Unended(a, b, e, f, d) => Unended(a, b, e, f, c)
  BY <1>2 DEF Unended, Undecided
<1> QED BY <1>1, <1>4, <1>5, PairWhole

\* A step for one pair: disturbed, or as the pool that took it leaves it.
LEMMA TurnsKeeps ==
  ASSUME PoolInv, PoolInv', Pairwise, NEW n \in Participants, NEW p \in Participants, n # p,
         NEW t, NEW queues, Turns(n, p, t, queues),
         pool' = pool, drawn' = drawn, disturbed \subseteq disturbed',
         Pair(n, p) \notin disturbed' /\ PairHolds(n, p) /\ PairHolds(p, n) =>
           Fitting(n, p, chains[p][n] \o wire[n][p], t, End(p, n), drawn, Pair(n, p) \in ended, queues[p][n])
  PROVE  Pairwise'
<1>1. PartsInv /\ PartsInv' /\ wire \in Queues
  BY DEF PoolInv
<1>2. Elsewhere(n, p)
  BY <1>1, TurnsElsewhere
<1>3. ended \subseteq ended'
  BY DEF Turns, Becomes
<1>4. DrawnInv'
  BY DEF Pairwise, DrawnInv
<1>5. Pair(n, p) \in disturbed' \/ (PairHolds(n, p)' /\ PairHolds(p, n)')
  <2> SUFFICES ASSUME Pair(n, p) \notin disturbed' PROVE PairHolds(n, p)' /\ PairHolds(p, n)'
    OBVIOUS
  <2>1. PairHolds(n, p) /\ PairHolds(p, n)
    <3>1. Pair(n, p) \notin disturbed /\ Pair(p, n) \notin disturbed
      BY DEF Pair
    <3> QED BY <3>1 DEF Pairwise, PairInv
  <2>2. Fitting(n, p, chains[p][n] \o wire[n][p], t, End(p, n), drawn', Pair(n, p) \in ended, queues[p][n])
    BY <2>1
  <2> QED BY <1>1, <2>1, <2>2, HoldsAfter
<1>6. \A a, b \in Participants : {a, b} # {n, p} =>
        \A e, f, x : PairOK(a, b, e, f, drawn, x) => PairOK(a, b, e, f, drawn', x)
  OBVIOUS
<1> QED BY <1>1, <1>2, <1>3, <1>4, <1>5, <1>6, StepKeeps

\* A step that says nothing.
LEMMA SaysNothing ==
  ASSUME wire \in Queues, NEW n \in Participants, NEW t, t.sends = Pool(n).sends, wire' = wire
  PROVE  Sent(n, t, wire)
<1> DEFINE g == [p \in Participants |->
                   IF pool[n].online /\ pool[p].online /\ ~pool[p].closed
                   THEN wire[n][p] \o t.sends[p] ELSE wire[n][p]]
<1>1. ASSUME NEW p \in Participants PROVE wire[n][p] \o t.sends[p] = wire[n][p]
  <2>1. wire[n][p] \in Seq(Signal)
    BY DEF Queues
  <2>2. wire[n][p] \o <<>> = wire[n][p]
    BY <2>1
  <2>3. t.sends[p] = <<>>
    BY DEF Pool
  <2> QED BY <2>2, <2>3
<1>2. wire[n] = [p \in Participants |-> wire[n][p]]
  BY DEF Queues
<1>3. g = wire[n]
  BY <1>1, <1>2
<1> HIDE DEF g
<1>4. [wire EXCEPT ![n] = g] = wire
  BY <1>3 DEF Queues
<1> QED BY <1>4 DEF Sent, g

\* At first no pool has anything to do with another.
LEMMA PairwiseInit ==
  ASSUME Init
  PROVE  Pairwise
<1>1. SelfInv /\ DrawnInv
  BY DEF Init, SelfInv, DrawnInv
<1>2. ASSUME NEW a \in Participants, NEW b \in Participants PROVE PairHolds(a, b)
  <2> DEFINE e == [link |-> None, line |-> <<>>, works |-> {}]
  <2>1. End(a, b) = e /\ End(b, a) = e
    <3>1. /\ peers[a][b] = None /\ peers[b][a] = None /\ works[a] = {} /\ works[b] = {}
          /\ chains[a][b] = <<>> /\ chains[b][a] = <<>> /\ wire[a][b] = <<>> /\ wire[b][a] = <<>>
      BY DEF Init
    <3>2. <<>> \o <<>> = <<>>
      BY EmptyChain
    <3> QED BY <3>1, <3>2 DEF End
  <2>2. e.link = None /\ e.line = <<>> /\ e.works = {} /\ Out(e) = {}
    BY EmptyChain DEF Out
  <2> HIDE DEF e
  <2>3. Roles(a, b, e, drawn) /\ Roles(b, a, e, drawn) /\ Working(e) /\ Life(e, e) /\ Pending(e, e)
    BY <2>2 DEF Roles, LinkRole, Working, Life, Pending, At, Holds
  <2>4. Lined(e)
    <3>1. e.line \in Seq(Signal) /\ Len(e.line) = 0
      BY <2>2
    <3> QED BY <3>1 DEF Lined, Distinct, Ordered
  <2>5. Unended(a, b, e, e, drawn)
    <3>1. \A i \in Ids : drawn[i] # <<a, b>> /\ drawn[i] # <<b, a>>
      BY DEF Init
    <3> QED BY <2>2, <3>1 DEF Unended, Undecided, Calling, Beaten
  <2>6. PairOK(a, b, e, e, drawn, Pair(a, b) \in ended)
    BY <2>3, <2>4, <2>5 DEF PairOK, Half, Core
  <2>7. /\ ~pool[a].closed /\ pool[a].online /\ pool[a].generation = 0 /\ chains[a][b] = <<>>
    BY DEF Init
  <2>8. Settled(a, b) /\ \A m \in ToSet(chains[a][b]) : m.type \in {"offer", "answer"}
    BY <2>7, EmptyChain DEF Settled
  <2> QED BY <2>1, <2>6, <2>7, <2>8 DEF PairHolds
<1>3. PairInv
  BY <1>2 DEF PairInv
<1> QED BY <1>1, <1>3 DEF Pairwise

-------------------------------------------------------------------------------
(* connect().                                                                *)

DialledLink(id) == [id |-> id, initiatedLocally |-> TRUE, stage |-> "offering"]

\* The pool after a dial.
LEMMA DialTurns ==
  ASSUME PoolInv, NEW n \in Participants, NEW p \in Participants, NEW id \in Ids,
         HasCapacity(Pool(n))
  PROVE  LET t == Begin(n, [Pool(n) EXCEPT !.peers[p] = DialledLink(id)], p, id, "offer") IN
         /\ t \in Within(n)
         /\ Turned(p, Pool(n), t, DialledLink(id), Pool(n).sends[p], {WorkFor(n, p, id, "offer")})
<1> DEFINE l == DialledLink(id)
           s == Pool(n)
           u == [s EXCEPT !.peers[p] = l]
           t == Begin(n, u, p, id, "offer")
           w == WorkFor(n, p, id, "offer")
<1>1. PartsInv /\ PoolTyped
  BY DEF PoolInv, FaultsInv
<1>2. s \in Within(n) /\ s \in Parts /\ IsFiniteSet(Linked(s)) /\ HasCapacity(s)
  BY <1>1, PoolWithin DEF Within
<1>3. l \in Link
  BY DEF Link, DialledLink
<1> HIDE DEF l, s
<1>4. u \in Parts /\ Turned(p, s, u, l, s.sends[p], {})
  BY <1>2, <1>3, LinkIs
<1>5. u.peers = [s.peers EXCEPT ![p] = l] /\ u.sends = s.sends
  BY <1>2 DEF Parts
<1> HIDE DEF u
<1>6. u \in Within(n)
  <2>1. IsFiniteSet(Linked(u)) /\ Size(u) <= MaxPeers
    BY <1>2, <1>5, OneMore
  <2> QED BY <1>2, <1>4, <1>5, <2>1 DEF Within
<1>7. t \in Within(n)
  BY <1>1, <1>6, BeginWithin
<1>8. Turned(p, u, t, l, s.sends[p], {w})
  <2>1. u.peers[p] = l /\ u.sends[p] = s.sends[p]
    BY <1>2, <1>4, TurnedHas
  <2>2. Turned(p, u, t, u.peers[p], u.sends[p], {w})
    BY <1>4, BeginIs
  <2> QED BY <2>1, <2>2
<1> HIDE DEF t, w
<1>9. Turned(p, s, t, l, s.sends[p], {w})
  <2> DEFINE c == s.sends[p]
  <2>1. Turned(p, s, u, l, c, {}) /\ Turned(p, u, t, l, c, {w})
    BY <1>4, <1>8
  <2> HIDE DEF c
  <2>2. Turned(p, s, t, l, c, {} \cup {w})
    BY <1>2, <2>1, TurnedTrans
  <2>3. {} \cup {w} = {w}
    OBVIOUS
  <2> QED BY <2>2, <2>3 DEF c
<1> QED BY <1>7, <1>9 DEF t, w, u, s, l

\* A dial keeps the invariant of the pairs: its id is of nobody else.
LEMMA DialKeeps ==
  ASSUME PoolInv, PoolInv', Pairwise, NEW n \in Participants, NEW p \in Participants, Dial(n, p)
  PROVE  Pairwise'
<1> DEFINE T(id) == Begin(n, [Pool(n) EXCEPT !.peers[p] = DialledLink(id)], p, id, "offer")
<1>1. PICK id \in Ids :
        /\ n # p /\ peers[n][p] = None /\ HasCapacity(Pool(n)) /\ drawn[id] = <<>>
        /\ drawn' = [drawn EXCEPT ![id] = <<n, p>>]
        /\ Becomes(n, T(id)) /\ pool' = pool /\ wire' = wire /\ disturbed' = disturbed
  BY DEF Dial, DialledLink
<1> DEFINE t == T(id)
           w == WorkFor(n, p, id, "offer")
           s == Pool(n)
           l == DialledLink(id)
<1>2. t \in Within(n) /\ Turned(p, s, t, l, s.sends[p], {w})
  BY <1>1, DialTurns
<1>3. PartsInv /\ PartsInv' /\ wire \in Queues /\ PoolTyped
  BY DEF PoolInv, FaultsInv
<1>4. s \in Parts /\ s.peers = peers[n]
  BY <1>3, PoolWithin DEF Within
<1>5. Becomes(n, t)
  BY <1>1
<1> HIDE DEF T
<1>6. Turns(n, p, t, wire)
  <2>1. Apart(p, s, t)
    <3>1. \A v \in {w} : v.peer = p
      BY DEF WorkFor
    <3> HIDE DEF w, s, t, l
    <3> QED BY <1>2, <1>4, <3>1, TurnedApart
  <2>2. t.sends = s.sends
    <3>1. t.sends = [s.sends EXCEPT ![p] = s.sends[p]]
      BY <1>2 DEF Turned
    <3> HIDE DEF s
    <3> QED BY <1>4, <3>1 DEF Parts
  <2>3. Sent(n, t, wire)
    <3> HIDE DEF t
    <3> QED BY <1>1, <1>3, <2>2, SaysNothing
  <2> QED BY <1>2, <1>3, <1>5, <2>1, <2>3 DEF Turns
<1>7. DrawnInv /\ DrawnInv' /\ id \in DOMAIN drawn
  BY <1>1 DEF Pairwise, DrawnInv
<1>8. Pair(n, p) \in disturbed' \/ (PairHolds(n, p)' /\ PairHolds(p, n)')
  <2> SUFFICES ASSUME Pair(n, p) \notin disturbed' PROVE PairHolds(n, p)' /\ PairHolds(p, n)'
    OBVIOUS
  <2>1. PairHolds(n, p) /\ PairHolds(p, n)
    <3>1. Pair(n, p) \notin disturbed /\ Pair(p, n) \notin disturbed
      BY <1>1 DEF Pair
    <3> QED BY <1>1, <3>1 DEF Pairwise, PairInv
  <2> DEFINE L == chains[p][n] \o wire[n][p]
             f == End(p, n)
             v == wire[p][n]
             b == Pair(n, p) \in ended
  <2>2. L \in Seq(Signal) /\ Fitting(n, p, L, s, f, drawn, b, v)
    BY <1>3, <2>1, FittingBegins
  <2>3. v \in Seq(Signal)
    BY <1>3 DEF Queues
  <2>4. pool[n].generation = 0 /\ w \in Work
    <3>1. pool[n].generation = 0 /\ 0 \in 0 .. MaxFaults
      BY <2>1, PoolAssumption DEF PairHolds
    <3> QED BY <3>1 DEF WorkFor, Work
  <2>5. l \in Link /\ l = [id |-> id, initiatedLocally |-> TRUE, stage |-> "offering"]
    BY DEF DialledLink, Link
  <2>6. l # None
    BY <2>5, LinkAssumption
  <2>7. s.peers[p] = None
    BY <1>1, <1>4
  <2> HIDE DEF L, f, v, b, t, s, l
  <2>8. Fitting(n, p, L, t, f, [drawn EXCEPT ![id] = <<n, p>>], b, v)
    BY <1>1, <1>2, <1>4, <1>7, <2>2, <2>3, <2>4, <2>5, <2>6, <2>7, DialFits
  <2>9. Fitting(n, p, chains[p][n] \o wire[n][p], t, End(p, n), drawn', Pair(n, p) \in ended, wire[p][n])
    BY <1>1, <2>8 DEF L, f, v, b
  <2> QED BY <1>1, <1>3, <1>6, <2>1, <2>9, HoldsAfter
<1>9. \A a, b \in Participants : {a, b} # {n, p} =>
        \A e, f, x : PairOK(a, b, e, f, drawn, x) => PairOK(a, b, e, f, drawn', x)
  <2> SUFFICES ASSUME NEW a \in Participants, NEW b \in Participants, {a, b} # {n, p}, NEW e, NEW f, NEW x,
                      PairOK(a, b, e, f, drawn, x)
               PROVE  PairOK(a, b, e, f, drawn', x)
    OBVIOUS
  <2>1. ~(a = n /\ b = p) /\ ~(a = p /\ b = n)
    <3>1. {p, n} = {n, p}
      OBVIOUS
    <3> QED BY <3>1, Zenon
  <2>2. <<n, p>> # <<a, b>> /\ <<n, p>> # <<b, a>>
    BY <2>1
  <2>3. drawn'[id] = <<n, p>> /\ \A i \in Ids : i # id => drawn'[i] = drawn[i]
    BY <1>1, <1>7 DEF DrawnInv
  <2>4. drawn[id] = <<>>
    BY <1>1
  <2> QED BY <2>2, <2>3, <2>4, DrawnPair
<1>10. Elsewhere(n, p)
  BY <1>1, <1>3, <1>6, TurnsElsewhere
<1>11. ended \subseteq ended'
  BY <1>5 DEF Becomes
<1> HIDE DEF t, w, s, l
<1> QED BY <1>1, <1>3, <1>7, <1>8, <1>9, <1>10, <1>11, StepKeeps

-------------------------------------------------------------------------------
(* disconnect(), and the links that go.                                      *)

\* The pair of n and p before a step of n.
LEMMA PairBegins ==
  ASSUME PoolInv, NEW n \in Participants, NEW p \in Participants, PairHolds(n, p)
  PROVE  LET L == chains[p][n] \o wire[n][p] IN
         /\ L \in Seq(Signal) /\ wire[p][n] \in Seq(Signal)
         /\ Fitting(n, p, L, Pool(n), End(p, n), drawn, Pair(n, p) \in ended, wire[p][n])
<1>1. PartsInv /\ wire \in Queues
  BY DEF PoolInv
<1>2. wire[p][n] \in Seq(Signal)
  BY <1>1 DEF Queues
<1> QED BY <1>1, <1>2, FittingBegins

\* The pool of n before its step.
LEMMA PoolParts ==
  ASSUME PoolInv, NEW n \in Participants
  PROVE  /\ PartsInv /\ wire \in Queues /\ PoolTyped /\ Pool(n) \in Within(n) /\ Pool(n) \in Parts
         /\ Pool(n).peers = peers[n] /\ Pool(n).works = works[n] /\ Pool(n).chains = chains[n]
<1>1. PartsInv /\ wire \in Queues /\ PoolTyped
  BY DEF PoolInv, FaultsInv
<1>2. Pool(n) \in Within(n) /\ Pool(n).peers = peers[n] /\ Pool(n).works = works[n]
  BY <1>1, PoolWithin
<1>3. Pool(n).chains = chains[n]
  BY DEF Pool
<1> QED BY <1>1, <1>2, <1>3 DEF Within

\* Two participants that have a link between them are two.
LEMMA LinkOfTwo ==
  ASSUME Pairwise, NEW n \in Participants, NEW p \in Participants,
         peers[n][p] # None \/ wire[p][n] # <<>> \/ \E w \in works[n] : w.peer = p
  PROVE  n # p
BY DEF Pairwise, SelfInv

\* A hang-up ends its pair, and disturbs it when an offer waited in the chain.
LEMMA DisconnectKeeps ==
  ASSUME PoolInv, PoolInv', Pairwise, NEW n \in Participants, NEW p \in Participants, Disconnect(n, p)
  PROVE  Pairwise'
<1> DEFINE s == Pool(n)
           t == Sending(Dropped(s, p), p, "close", s.peers[p].id)
<1>1. PartsInv /\ wire \in Queues /\ PoolTyped /\ s \in Within(n) /\ s \in Parts
      /\ s.peers = peers[n] /\ s.works = works[n] /\ s.chains = chains[n]
  BY PoolParts
<1>2. /\ peers[n][p] # None /\ Becomes(n, t) /\ Sent(n, t, wire) /\ pool' = pool /\ drawn' = drawn
      /\ disturbed' = disturbed \cup {Pair(n, p) : m \in {m \in ToSet(chains[n][p]) : m.type = "offer"}}
  BY DEF Disconnect, Pool
<1>3. n # p
  BY <1>2, LinkOfTwo
<1> HIDE DEF s
<1>4. s.peers[p] # None /\ s.chains[p] = chains[n][p]
  BY <1>1, <1>2
<1>5. t \in Within(n)
  <2>1. Dropped(s, p) \in Within(n)
    BY <1>1, DroppedWithin
  <2>2. s.peers[p].id \in Ids
    <3>1. s.peers[p] \in Link
      BY <1>1, <1>4, PartsAt
    <3> QED BY <3>1 DEF Link
  <2> QED BY <2>1, <2>2, RejectionWithin
<1>6. Apart(p, s, t)
  <2> DEFINE u == Dropped(s, p)
             q == Append(u.sends[p], [type |-> "close", id |-> s.peers[p].id])
  <2>1. u \in Parts /\ Apart(p, s, u)
    BY <1>1, <1>4, DroppedIs, DroppedApart
  <2>2. Turned(p, u, t, u.peers[p], q, {})
    BY <2>1, SendingIs
  <2>3. \A w \in {} : w.peer = p
    OBVIOUS
  <2> HIDE DEF u, t, q
  <2>4. Apart(p, u, t)
    BY <2>1, <2>2, <2>3, TurnedApart
  <2> QED BY <2>1, <2>4, ApartTrans
<1>7. Turns(n, p, t, wire)
  <2> HIDE DEF t
  <2> QED BY <1>1, <1>2, <1>5, <1>6 DEF Turns, s
<1>8. ASSUME Pair(n, p) \notin disturbed', PairHolds(n, p), PairHolds(p, n)
      PROVE  Fitting(n, p, chains[p][n] \o wire[n][p], t, End(p, n), drawn, Pair(n, p) \in ended, wire[p][n])
  <2> DEFINE L == chains[p][n] \o wire[n][p]
             f == End(p, n)
             v == wire[p][n]
             b == Pair(n, p) \in ended
  <2>1. L \in Seq(Signal) /\ v \in Seq(Signal) /\ Fitting(n, p, L, s, f, drawn, b, v)
    BY <1>8, PairBegins DEF s
  <2>2. \A m \in ToSet(s.chains[p]) : m.type # "offer"
    BY <1>2, <1>4, <1>8
  <2> HIDE DEF L, f, v, b
  <2>3. Fitting(n, p, L, t, f, drawn, b, v)
    BY <1>1, <1>3, <1>4, <2>1, <2>2, HangUpFits
  <2> QED BY <2>3 DEF L, f, v, b
<1>9. disturbed \subseteq disturbed'
  BY <1>2
<1> HIDE DEF t
<1> QED BY <1>2, <1>3, <1>7, <1>8, <1>9, TurnsKeeps

\* A link that goes is a step for its pair.
LEMMA GoneTurns ==
  ASSUME PoolInv, NEW n \in Participants, NEW p \in Participants, peers[n][p] # None,
         Becomes(n, Dropped(Pool(n), p)), wire' = wire
  PROVE  Turns(n, p, Dropped(Pool(n), p), wire)
<1> DEFINE s == Pool(n)
           t == Dropped(s, p)
<1>1. PartsInv /\ wire \in Queues /\ s \in Within(n) /\ s \in Parts /\ s.peers = peers[n]
  BY PoolParts
<1>2. s.peers[p] # None
  BY <1>1
<1>3. Becomes(n, t)
  OBVIOUS
<1> HIDE DEF s
<1>4. t \in Within(n) /\ Apart(p, s, t) /\ t.sends = s.sends
  BY <1>1, <1>2, DroppedWithin, DroppedApart, DroppedIs
<1> HIDE DEF t
<1>5. Sent(n, t, wire)
  BY <1>1, <1>4, SaysNothing DEF s
<1>6. Turns(n, p, t, wire)
  BY <1>1, <1>3, <1>4, <1>5 DEF Turns, s
<1> QED BY <1>6 DEF t, s

\* An abandoned link goes.
LEMMA FailedKeeps ==
  ASSUME PoolInv, PoolInv', Pairwise, NEW n \in Participants, NEW p \in Participants, Failed(n, p)
  PROVE  Pairwise'
<1> DEFINE s == Pool(n)
           t == Dropped(s, p)
<1>1. PartsInv /\ wire \in Queues /\ PoolTyped /\ s \in Parts /\ s.peers = peers[n]
  BY PoolParts
<1>2. /\ peers[n][p] # None /\ Becomes(n, t) /\ wire' = wire /\ pool' = pool /\ drawn' = drawn
      /\ disturbed' = disturbed
      /\ peers[n][p].stage \in {"accepted", "answered", "ready"}
      /\ peers[p][n] # None => peers[p][n].id # peers[n][p].id
  BY DEF Failed, LinkGone, Abandoned
<1>3. n # p
  BY <1>2, LinkOfTwo
<1>4. Turns(n, p, t, wire)
  BY <1>2, GoneTurns
<1> HIDE DEF s
<1>5. ASSUME Pair(n, p) \notin disturbed', PairHolds(n, p), PairHolds(p, n)
      PROVE  Fitting(n, p, chains[p][n] \o wire[n][p], t, End(p, n), drawn, Pair(n, p) \in ended, wire[p][n])
  <2> DEFINE L == chains[p][n] \o wire[n][p]
             f == End(p, n)
             v == wire[p][n]
             b == Pair(n, p) \in ended
  <2>1. L \in Seq(Signal) /\ v \in Seq(Signal) /\ Fitting(n, p, L, s, f, drawn, b, v)
    BY <1>5, PairBegins DEF s
  <2>3. s.peers[p] # None /\ s.peers[p].stage \in {"accepted", "answered", "ready"}
    BY <1>1, <1>2
  <2>4. ~Holds(f, s.peers[p].id)
    BY <1>1, <1>2 DEF Holds, End
  <2> HIDE DEF L, f, v, b
  <2>5. Fitting(n, p, L, t, f, drawn, b, v)
    BY <1>1, <1>3, <2>1, <2>3, <2>4, FailFits
  <2> QED BY <2>5 DEF L, f, v, b
<1> HIDE DEF t
<1> QED BY <1>2, <1>3, <1>4, <1>5, TurnsKeeps

\* A link lost disturbs its pair.
LEMMA LinkLostKeeps ==
  ASSUME PoolInv, PoolInv', Pairwise, NEW n \in Participants, NEW p \in Participants, LinkLost(n, p)
  PROVE  Pairwise'
<1> DEFINE t == Dropped(Pool(n), p)
<1>1. /\ peers[n][p] # None /\ Becomes(n, t) /\ wire' = wire /\ pool' = pool /\ drawn' = drawn
      /\ disturbed' = disturbed \cup {Pair(n, p)}
  BY DEF LinkLost, LinkGone
<1>2. n # p
  BY <1>1, LinkOfTwo
<1>3. Turns(n, p, t, wire)
  BY <1>1, GoneTurns
<1>4. Pair(n, p) \in disturbed' /\ disturbed \subseteq disturbed'
  BY <1>1
<1> HIDE DEF t
<1> QED BY <1>1, <1>2, <1>3, <1>4, TurnsKeeps

\* A participant reported gone disturbs its pair.
LEMMA ParticipantDisconnectedKeeps ==
  ASSUME PoolInv, PoolInv', Pairwise, NEW n \in Participants, NEW p \in Participants, n # p,
         ParticipantDisconnected(n, p)
  PROVE  Pairwise'
<1> DEFINE t == Dropped(Pool(n), p)
<1>1. /\ Becomes(n, t) /\ wire' = wire /\ pool' = pool /\ drawn' = drawn
      /\ disturbed' = disturbed \cup {Pair(n, p)}
  BY DEF ParticipantDisconnected, LinkGone
<1>2. PICK u : Turns(n, p, u, wire)
  <2>1. CASE peers[n][p] # None
    BY <1>1, <2>1, GoneTurns
  <2>2. CASE peers[n][p] = None
    <3>1. t = Pool(n)
      BY <2>2 DEF Dropped, Pool
    <3>2. PartsInv /\ wire \in Queues /\ Pool(n) \in Within(n)
      BY PoolParts
    <3>3. Sent(n, Pool(n), wire)
      BY <1>1, <3>2, SaysNothing
    <3>4. Apart(p, Pool(n), Pool(n))
      BY DEF Apart
    <3> HIDE DEF t
    <3>5. Turns(n, p, Pool(n), wire)
      BY <1>1, <3>1, <3>2, <3>3, <3>4 DEF Turns
    <3> QED BY <3>5
  <2> QED BY <2>1, <2>2
<1>3. Pair(n, p) \in disturbed' /\ disturbed \subseteq disturbed'
  BY <1>1
<1> HIDE DEF t
<1> QED BY <1>1, <1>2, <1>3, TurnsKeeps

\* A participant reported there is no step of any pair.
LEMMA ParticipantConnectedKeeps ==
  ASSUME Pairwise, NEW n \in Participants, NEW p \in Participants, ParticipantConnected(n, p)
  PROVE  Pairwise'
<1>1. UNCHANGED <<peers, chains, works, pool, wire, drawn, ended, disturbed>>
  BY DEF ParticipantConnected
<1>2. Pairwise' <=> Pairwise
  BY <1>1 DEF Pairwise, PairInv, SelfInv, DrawnInv, PairHolds, Settled, End
<1> QED BY <1>2

-------------------------------------------------------------------------------
(* Signals and native work.                                                  *)

\* A pool with a link in another stage.
LEMMA ReadyTurns ==
  ASSUME PoolInv, NEW n \in Participants, NEW p \in Participants, Ready(n, p)
  PROVE  LET t == [Pool(n) EXCEPT !.peers[p] = Staged(peers[n][p], "ready")] IN
         /\ t \in Within(n) /\ t.sends = Pool(n).sends /\ Becomes(n, t)
         /\ Turned(p, Pool(n), t, Staged(peers[n][p], "ready"), Pool(n).sends[p], {})
<1> DEFINE s == Pool(n)
           l == Staged(peers[n][p], "ready")
           t == [s EXCEPT !.peers[p] = l]
<1>1. /\ PartsInv /\ s \in Within(n) /\ s \in Parts /\ s.peers = peers[n] /\ s.works = works[n]
      /\ s.chains = chains[n]
  BY PoolParts
<1>2. s.sends = [q \in Participants |-> <<>>]
  BY DEF Pool
<1>3. peers[n][p] \in Link /\ peers[n][p] # None
  BY <1>1 DEF Ready, Joined, PartsInv
<1>4. l \in Link /\ l # None
  BY <1>3, StagedIs
<1>5. peers' = [peers EXCEPT ![n][p] = l] /\ UNCHANGED <<chains, works, ended>>
  BY DEF Ready, Staged
<1> HIDE DEF s, l
<1>6. t \in Parts /\ Turned(p, s, t, l, s.sends[p], {})
  BY <1>1, <1>4, LinkIs
<1>7. t.peers = [s.peers EXCEPT ![p] = l] /\ t.sends = s.sends /\ t.works = s.works /\ t.chains = s.chains
  BY <1>1 DEF Parts
<1> HIDE DEF t
<1>8. t \in Within(n)
  <2>1. Linked(t) = Linked(s)
    BY <1>1, <1>3, <1>4, <1>7 DEF Linked, Parts
  <2>2. Size(t) = Size(s)
    BY <2>1 DEF Size, Linked
  <2> QED BY <1>1, <1>6, <1>7, <2>1, <2>2 DEF Within
<1>9. Becomes(n, t)
  <2>1. peers' = [peers EXCEPT ![n] = t.peers]
    BY <1>1, <1>5, <1>7 DEF PartsInv
  <2>2. chains' = [chains EXCEPT ![n] = t.chains] /\ works' = [works EXCEPT ![n] = t.works]
    BY <1>1, <1>5, <1>7 DEF PartsInv
  <2>3. {Pair(n, r) : r \in {q \in Participants : \E m \in ToSet(t.sends[q]) : m.type \in {"capacity", "close"}}} = {}
    <3>1. \A q \in Participants : ToSet(t.sends[q]) = {}
      BY <1>2, <1>7, EmptyChain
    <3> QED BY <3>1
  <2>4. ended' = ended \cup {Pair(n, r) : r \in {q \in Participants :
                   \E m \in ToSet(t.sends[q]) : m.type \in {"capacity", "close"}}}
    BY <1>5, <2>3
  <2> QED BY <2>1, <2>2, <2>4 DEF Becomes
<1> QED BY <1>6, <1>7, <1>8, <1>9 DEF t, s, l

\* A connection is ready.
LEMMA ReadyKeeps ==
  ASSUME PoolInv, PoolInv', Pairwise, NEW n \in Participants, NEW p \in Participants, Ready(n, p)
  PROVE  Pairwise'
<1> DEFINE s == Pool(n)
           l == Staged(peers[n][p], "ready")
           t == [s EXCEPT !.peers[p] = l]
<1>1. PartsInv /\ wire \in Queues /\ s \in Parts /\ s.peers = peers[n]
  BY PoolParts
<1>2. /\ peers[n][p] # None /\ peers[n][p].stage \in {"accepted", "answered"}
      /\ pool' = pool /\ drawn' = drawn /\ disturbed' = disturbed /\ wire' = wire
  BY DEF Ready, Joined
<1>3. n # p
  BY <1>2, LinkOfTwo
<1>4. t \in Within(n) /\ t.sends = s.sends /\ Becomes(n, t) /\ Turned(p, s, t, l, s.sends[p], {})
  BY ReadyTurns
<1> HIDE DEF s, l, t
<1>5. Turns(n, p, t, wire)
  <2>1. \A w \in {} : w.peer = p
    OBVIOUS
  <2>2. Apart(p, s, t)
    BY <1>1, <1>4, <2>1, TurnedApart
  <2>3. Sent(n, t, wire)
    BY <1>1, <1>2, <1>4, SaysNothing DEF s
  <2> QED BY <1>1, <1>4, <2>2, <2>3 DEF Turns, s
<1>6. ASSUME Pair(n, p) \notin disturbed', PairHolds(n, p), PairHolds(p, n)
      PROVE  Fitting(n, p, chains[p][n] \o wire[n][p], t, End(p, n), drawn, Pair(n, p) \in ended, wire[p][n])
  <2> DEFINE L == chains[p][n] \o wire[n][p]
             f == End(p, n)
             v == wire[p][n]
             b == Pair(n, p) \in ended
  <2>1. L \in Seq(Signal) /\ v \in Seq(Signal) /\ Fitting(n, p, L, s, f, drawn, b, v)
    BY <1>6, PairBegins DEF s
  <2>2. s.peers[p] # None /\ s.peers[p].stage \in {"accepted", "answered"} /\ l = Staged(s.peers[p], "ready")
    BY <1>1, <1>2 DEF l
  <2> HIDE DEF L, f, v, b
  <2>3. Fitting(n, p, L, t, f, drawn, b, v)
    BY <1>1, <1>3, <1>4, <2>1, <2>2, ReadyFits
  <2> QED BY <2>3 DEF L, f, v, b
<1> QED BY <1>2, <1>3, <1>5, <1>6, TurnsKeeps

\* The pool after a signal has come.
Delivered(n, p, m) ==
  IF p \notin roster[n] THEN Pool(n) ELSE
  IF m.type \in {"collision", "capacity", "close"}
  THEN IF HasLink(Pool(n), p, m.id) THEN Dropped(Pool(n), p) ELSE Pool(n)
  ELSE Chained(n, [Pool(n) EXCEPT !.chains[p] = Append(@, m)], p)

\* A signal that comes is about its sender alone.
LEMMA DeliveredTurns ==
  ASSUME PoolInv, NEW n \in Participants, NEW p \in Participants, n # p, NEW m \in Signal
  PROVE  Delivered(n, p, m) \in Within(n) /\ Apart(p, Pool(n), Delivered(n, p, m))
<1> DEFINE s == Pool(n)
           u == [s EXCEPT !.chains[p] = Append(@, m)]
<1>1. PoolTyped /\ s \in Within(n) /\ s \in Parts
  BY PoolParts
<1> HIDE DEF s
<1>2. u \in Within(n) /\ Apart(p, s, Chained(n, u, p))
  BY <1>1, JoinFits
<1> HIDE DEF u
<1>3. Chained(n, u, p) \in Within(n)
  BY <1>1, <1>2, ChainWithin
<1>4. Dropped(s, p) \in Within(n) /\ Apart(p, s, Dropped(s, p)) /\ Apart(p, s, s)
  BY <1>1, DroppedWithin, DroppedApart DEF Apart
<1> QED BY <1>1, <1>2, <1>3, <1>4 DEF Delivered, s, u

\* It is handled, obeyed, passed over or made to wait.
LEMMA DeliveredFits ==
  ASSUME PoolInv, NEW n \in Participants, NEW p \in Participants, n # p, PairHolds(n, p), wire[p][n] # <<>>,
         p \in roster[n]
  PROVE  Fitting(n, p, chains[p][n] \o wire[n][p], Delivered(n, p, Head(wire[p][n])), End(p, n), drawn,
                 Pair(n, p) \in ended, Tail(wire[p][n]))
<1> DEFINE s == Pool(n)
           L == chains[p][n] \o wire[n][p]
           f == End(p, n)
           v == wire[p][n]
           b == Pair(n, p) \in ended
           m == Head(v)
<1>1. PoolTyped /\ s \in Within(n) /\ s \in Parts
  BY PoolParts
<1>2. L \in Seq(Signal) /\ v \in Seq(Signal) /\ Fitting(n, p, L, s, f, drawn, b, v) /\ v # <<>>
  BY PairBegins
<1>3. pool[n].generation = 0
  BY DEF PairHolds
<1> HIDE DEF L, f, v, b, s
<1>4. m \in Signal /\ Tail(v) \in Seq(Signal)
  BY <1>2
<1>5. CASE m.type \in {"collision", "capacity", "close"} /\ HasLink(s, p, m.id)
  <2>1. m.type \in Refusals \cup {"close"}
    BY <1>5 DEF Refusals
  <2>2. Fitting(n, p, L, Dropped(s, p), f, drawn, b, Tail(v))
    BY <1>1, <1>2, <1>4, <1>5, <2>1, ObeyFits
  <2> QED BY <1>5, <2>2 DEF Delivered, L, f, v, b, s
<1>6. CASE m.type \in {"collision", "capacity", "close"} /\ ~HasLink(s, p, m.id)
  <2>1. m.type # "offer"
    BY <1>6
  <2>2. Fitting(n, p, L, s, f, drawn, b, Tail(v))
    BY <1>1, <1>2, <1>4, <1>6, <2>1, PassFits
  <2> QED BY <1>6, <2>2 DEF Delivered, L, f, v, b, s
<1>7. CASE m.type \notin {"collision", "capacity", "close"}
  <2>1. m.type \in {"offer", "answer"}
    BY <1>4, <1>7 DEF Signal
  <2>2. Fitting(n, p, L, Chained(n, [s EXCEPT !.chains[p] = Append(@, Head(v))], p), f, drawn, b, Tail(v))
    BY <1>1, <1>2, <1>3, <2>1, DeliverFits
  <2> QED BY <1>7, <2>2 DEF Delivered, L, f, v, b, s
<1> QED BY <1>5, <1>6, <1>7

\* A signal comes.
LEMMA DeliverKeeps ==
  ASSUME PoolInv, PoolInv', RosterInv, Pairwise, NEW n \in Participants, NEW p \in Participants, Deliver(n, p)
  PROVE  Pairwise'
<1> DEFINE m == Head(wire[p][n])
           t == Delivered(n, p, m)
           queues == [wire EXCEPT ![p][n] = Tail(@)]
<1>1. PartsInv /\ wire \in Queues
  BY PoolParts
<1>2. /\ wire[p][n] # <<>> /\ Becomes(n, t) /\ Sent(n, t, queues)
      /\ pool' = pool /\ drawn' = drawn /\ disturbed' = disturbed
  BY DEF Deliver, Delivered
<1>3. n # p
  BY <1>2, LinkOfTwo
<1>4. m \in Signal /\ Tail(wire[p][n]) \in Seq(Signal)
  <2>1. wire[p][n] \in Seq(Signal)
    BY <1>1 DEF Queues
  <2> QED BY <1>2, <2>1
<1>5. /\ queues \in Queues /\ queues[p][n] = Tail(wire[p][n])
      /\ \A a, b \in Participants : <<a, b>> # <<p, n>> => queues[a][b] = wire[a][b]
  <2>1. \A a, b \in Participants : queues[a][b] = IF a = p /\ b = n THEN Tail(wire[p][n]) ELSE wire[a][b]
    BY <1>1 DEF Queues
  <2>2. queues \in Queues
    BY <1>1, <1>4 DEF Queues
  <2> HIDE DEF queues
  <2> QED BY <2>1, <2>2
<1> HIDE DEF queues
<1>6. t \in Within(n) /\ Apart(p, Pool(n), t)
  <2> HIDE DEF m
  <2> QED BY <1>3, <1>4, DeliveredTurns
<1>7. Turns(n, p, t, queues)
  <2> HIDE DEF t
  <2> QED BY <1>2, <1>5, <1>6 DEF Turns
<1>8. ASSUME Pair(n, p) \notin disturbed', PairHolds(n, p), PairHolds(p, n)
      PROVE  Fitting(n, p, chains[p][n] \o wire[n][p], t, End(p, n), drawn, Pair(n, p) \in ended, queues[p][n])
  <2>0. p \in roster[n]
    BY <1>2, <1>3, <1>8 DEF RosterInv
  <2>1. Fitting(n, p, chains[p][n] \o wire[n][p], Delivered(n, p, Head(wire[p][n])), End(p, n), drawn,
                Pair(n, p) \in ended, Tail(wire[p][n]))
    BY <1>2, <1>3, <1>8, <2>0, DeliveredFits
  <2> QED BY <1>5, <2>1
<1> HIDE DEF t
<1> QED BY <1>2, <1>3, <1>7, <1>8, TurnsKeeps

\* Native work comes back.
LEMMA ContinueKeeps ==
  ASSUME PoolInv, PoolInv', Pairwise, NEW n \in Participants, NEW w \in works[n], Continue(n, w)
  PROVE  Pairwise'
<1> DEFINE p == w.peer
           s == Pool(n)
           z == Continued(n, [s EXCEPT !.works = @ \ {w}], w)
           t == IF w.chained THEN Chained(n, z, p) ELSE z
<1>1. PartsInv /\ wire \in Queues /\ PoolTyped /\ s \in Within(n) /\ s.peers = peers[n] /\ s.works = works[n]
  BY PoolParts
<1>2. w \in Work /\ p \in Participants
  BY <1>1 DEF PartsInv, Work
<1>3. n # p
  BY <1>2, LinkOfTwo
<1>4. Becomes(n, t) /\ Sent(n, t, wire) /\ pool' = pool /\ drawn' = drawn /\ disturbed' = disturbed
  BY DEF Continue, WorkOver, Without
<1>5. t \in Within(n) /\ Apart(p, s, t)
  <2> HIDE DEF s
  <2> QED BY <1>1, <1>2, ContinueApart
<1>6. Turns(n, p, t, wire)
  <2> HIDE DEF t, p
  <2> QED BY <1>1, <1>4, <1>5 DEF Turns
<1>7. ASSUME Pair(n, p) \notin disturbed', PairHolds(n, p), PairHolds(p, n)
      PROVE  Fitting(n, p, chains[p][n] \o wire[n][p], t, End(p, n), drawn, Pair(n, p) \in ended, wire[p][n])
  <2> DEFINE L == chains[p][n] \o wire[n][p]
             f == End(p, n)
             v == wire[p][n]
             b == Pair(n, p) \in ended
  <2>1. L \in Seq(Signal) /\ v \in Seq(Signal) /\ Fitting(n, p, L, s, f, drawn, b, v)
    <3> HIDE DEF p
    <3> QED BY <1>2, <1>7, PairBegins
  <2>2. ~pool[n].closed /\ pool[n].online /\ pool[n].generation = 0
    BY <1>7 DEF PairHolds
  <2> HIDE DEF L, f, v, b, s
  <2>3. Fitting(n, p, L, t, f, drawn, b, v)
    BY <1>1, <1>2, <1>3, <2>1, <2>2, ContinueFits
  <2> QED BY <2>3 DEF L, f, v, b
<1> HIDE DEF t, p
<1> QED BY <1>2, <1>3, <1>4, <1>6, <1>7, TurnsKeeps

\* What a rejection leaves differs from what was there in what is for its peer.
LEMMA RejectedApart ==
  ASSUME PoolTyped, NEW n \in Participants, NEW w \in Work, NEW s \in Within(n)
  PROVE  LET u == [s EXCEPT !.works = @ \ {w}]
             z == Rejected(n, u, w)
             t == IF w.chained THEN Chained(n, z, w.peer) ELSE z
         IN  t \in Within(n) /\ Apart(w.peer, s, t)
<1> DEFINE p == w.peer
           ws == s.works \ {w}
           u == [s EXCEPT !.works = ws]
           z == Rejected(n, u, w)
           t == IF w.chained THEN Chained(n, z, p) ELSE z
<1>1. s \in Parts /\ p \in Participants /\ u \in Within(n) /\ z \in Within(n) /\ t \in Within(n)
  BY RejectedWithin DEF Within, Work
<1>2. u.peers = s.peers /\ u.sends = s.sends /\ u.chains = s.chains /\ u.works = ws /\ u \in Parts
  <2> HIDE DEF ws
  <2>1. u.peers = s.peers /\ u.sends = s.sends /\ u.chains = s.chains /\ u.works = ws
    BY <1>1 DEF Parts
  <2> HIDE DEF u
  <2> QED BY <1>1, <2>1 DEF Within
<1>3. Apart(p, s, u)
  BY <1>2 DEF Apart
<1> HIDE DEF u
<1>4. Apart(p, u, z)
  <2>1. CASE w.does = "offer" /\ u.peers[p] # None
    <3>1. z = Dropped(u, p)
      BY <2>1 DEF Rejected
    <3> QED BY <1>1, <1>2, <2>1, <3>1, DroppedApart
  <2>2. CASE ~(w.does = "offer" /\ u.peers[p] # None)
    <3>1. z = u
      BY <2>2 DEF Rejected, Dropped
    <3> QED BY <3>1 DEF Apart
  <2> QED BY <2>1, <2>2
<1> HIDE DEF p, z
<1>5. Apart(p, z, t)
  <2>1. Apart(p, z, Chained(n, z, p))
    BY <1>1, ChainApart
  <2>2. Apart(p, z, z)
    BY DEF Apart
  <2> QED BY <2>1, <2>2
<1> HIDE DEF t
<1>6. Apart(p, s, t)
  BY <1>3, <1>4, <1>5, ApartTrans
<1> QED BY <1>1, <1>6 DEF t, z, u, p

\* Native work that rejects disturbs its pair.
LEMMA RejectKeeps ==
  ASSUME PoolInv, PoolInv', Pairwise, NEW n \in Participants, NEW w \in works[n], Reject(n, w)
  PROVE  Pairwise'
<1> DEFINE p == w.peer
           s == Pool(n)
           z == Rejected(n, [s EXCEPT !.works = @ \ {w}], w)
           t == IF w.chained THEN Chained(n, z, p) ELSE z
<1>1. PartsInv /\ wire \in Queues /\ PoolTyped /\ s \in Within(n)
  BY PoolParts
<1>2. w \in Work /\ p \in Participants
  BY <1>1 DEF PartsInv, Work
<1>3. n # p
  BY <1>2, LinkOfTwo
<1>4. /\ Becomes(n, t) /\ Sent(n, t, wire) /\ pool' = pool /\ drawn' = drawn
      /\ disturbed' = disturbed \cup {Pair(n, p)}
  BY DEF Reject, WorkOver, Without, Rejected
<1>5. t \in Within(n) /\ Apart(p, s, t)
  <2> HIDE DEF s
  <2> QED BY <1>1, <1>2, RejectedApart
<1>6. Turns(n, p, t, wire)
  <2> HIDE DEF t, p
  <2> QED BY <1>1, <1>4, <1>5 DEF Turns
<1>7. Pair(n, p) \in disturbed' /\ disturbed \subseteq disturbed'
  BY <1>4
<1> HIDE DEF t, p
<1> QED BY <1>2, <1>3, <1>4, <1>6, <1>7, TurnsKeeps

-------------------------------------------------------------------------------
(* The steps of a pool that disturb all its pairs; all steps.                *)

\* A step of n that disturbs all its pairs, and leaves the others.
Alone(n) ==
  /\ drawn' = drawn /\ ended \subseteq ended' /\ disturbed \subseteq disturbed'
  /\ \A p \in Participants : p # n => Pair(n, p) \in disturbed'
  /\ \A a \in Participants : a # n =>
       /\ pool'[a] = pool[a] /\ peers'[a] = peers[a] /\ chains'[a] = chains[a] /\ works'[a] = works[a]
       /\ \A b \in Participants : b # n => wire'[a][b] = wire[a][b]
  /\ peers'[n][n] = None /\ chains'[n][n] = <<>> /\ wire'[n][n] = <<>>
  /\ \A w \in works'[n] : w.peer # n

\* A step that disturbs all pairs of n keeps the others.
LEMMA AloneKeeps ==
  ASSUME PartsInv, PartsInv', Pairwise, NEW n \in Participants, Alone(n)
  PROVE  Pairwise'
<1>1. DrawnInv'
  BY DEF Alone, Pairwise, DrawnInv
<1>2. SelfInv'
  <2> SUFFICES ASSUME NEW a \in Participants
               PROVE  peers'[a][a] = None /\ wire'[a][a] = <<>> /\ chains'[a][a] = <<>>
                      /\ \A w \in works'[a] : w.peer # a
    BY DEF SelfInv
  <2>1. CASE a = n
    BY <2>1 DEF Alone
  <2>2. CASE a # n
    BY <2>2 DEF Alone, Pairwise, SelfInv
  <2> QED BY <2>1, <2>2
<1>3. ASSUME NEW a \in Participants, NEW b \in Participants, a # b, Pair(a, b) \notin disturbed'
      PROVE  PairHolds(a, b)'
  <2>1. a # n /\ b # n
    <3>1. a # n
      BY <1>3 DEF Alone
    <3>2. Pair(b, a) = Pair(a, b)
      BY DEF Pair
    <3>3. b # n
      BY <1>3, <3>2 DEF Alone
    <3> QED BY <3>1, <3>3
  <2>2. PairHolds(a, b)
    BY <1>3 DEF Pairwise, PairInv, Alone
  <2>3. Same(a, b) /\ Same(b, a)
    BY <2>1 DEF Alone, Same
  <2>4. pool'[a] = pool[a] /\ ended \subseteq ended' /\ drawn' = drawn
    BY <2>1 DEF Alone
  <2>5. \A e, f, x : PairOK(a, b, e, f, drawn, x) => PairOK(a, b, e, f, drawn', x)
    BY <2>4
  <2> QED BY <2>2, <2>3, <2>4, <2>5, HoldsKept
<1>4. PairInv'
  BY <1>3 DEF PairInv, Pair
<1> QED BY <1>1, <1>2, <1>4 DEF Pairwise

\* Native work that is in no chain any more is on the same links.
LEMMA UnchainedWork ==
  ASSUME NEW W \in SUBSET Work, NEW n, \A w \in W : w.peer # n
  PROVE  \A w \in {[v EXCEPT !.chained = FALSE] : v \in W} : w.peer # n
BY DEF Work

\* A pool is closed.
LEMMA ClosePoolKeeps ==
  ASSUME PoolInv, PoolInv', Pairwise, NEW n \in Participants, ClosePool(n)
  PROVE  Pairwise'
<1> DEFINE ws == {[w EXCEPT !.chained = FALSE] : w \in works[n]}
<1>1. PartsInv /\ PartsInv' /\ wire \in Queues /\ PoolTyped
  BY DEF PoolInv, FaultsInv
<1>2. /\ drawn' = drawn /\ disturbed' = disturbed \cup {Pair(n, p) : p \in Participants}
      /\ wire' = [p \in Participants |-> [wire[p] EXCEPT ![n] = <<>>]]
      /\ pool' = [pool EXCEPT ![n].closed = TRUE, ![n].generation = @ + 1]
  BY DEF ClosePool
<1>3. /\ peers' = [peers EXCEPT ![n] = [p \in Participants |-> None]]
      /\ chains' = [chains EXCEPT ![n] = [p \in Participants |-> <<>>]]
      /\ works' = [works EXCEPT ![n] = ws] /\ ended \subseteq ended'
  BY DEF ClosePool, Becomes, Pool
<1>4. \A w \in ws : w.peer # n
  <2>1. works[n] \in SUBSET Work /\ \A w \in works[n] : w.peer # n
    BY <1>1 DEF PartsInv, Pairwise, SelfInv
  <2> QED BY <2>1, UnchainedWork
<1> HIDE DEF ws
<1>5. peers'[n][n] = None /\ chains'[n][n] = <<>> /\ wire'[n][n] = <<>> /\ works'[n] = ws
  BY <1>1, <1>2, <1>3 DEF PartsInv, Queues
<1>6. ASSUME NEW a \in Participants, a # n
      PROVE  /\ pool'[a] = pool[a] /\ peers'[a] = peers[a] /\ chains'[a] = chains[a] /\ works'[a] = works[a]
             /\ \A b \in Participants : b # n => wire'[a][b] = wire[a][b]
  <2>1. pool'[a] = pool[a]
    BY <1>1, <1>2, <1>6 DEF PoolTyped
  <2>2. peers'[a] = peers[a] /\ chains'[a] = chains[a] /\ works'[a] = works[a]
    BY <1>1, <1>3, <1>6 DEF PartsInv
  <2>3. \A b \in Participants : b # n => wire'[a][b] = wire[a][b]
    BY <1>1, <1>2, <1>6 DEF Queues
  <2> QED BY <2>1, <2>2, <2>3
<1>7. Alone(n)
  BY <1>2, <1>3, <1>4, <1>5, <1>6 DEF Alone
<1> QED BY <1>1, <1>7, AloneKeeps

\* A socket is lost, and what was on its way to it.
LEMMA SignalingLostKeeps ==
  ASSUME PoolInv, PoolInv', Pairwise, NEW n \in Participants, SignalingLost(n)
  PROVE  Pairwise'
<1>1. PartsInv /\ PartsInv' /\ wire \in Queues /\ PoolTyped
  BY DEF PoolInv, FaultsInv
<1>2. /\ drawn' = drawn /\ disturbed' = disturbed \cup {Pair(n, p) : p \in Participants}
      /\ wire' = [p \in Participants |-> [wire[p] EXCEPT ![n] = <<>>]]
      /\ pool' = [pool EXCEPT ![n].online = FALSE]
      /\ peers' = peers /\ chains' = chains /\ works' = works /\ ended' = ended
  BY DEF SignalingLost
<1>3. /\ peers'[n][n] = None /\ chains'[n][n] = <<>> /\ wire'[n][n] = <<>>
      /\ \A w \in works'[n] : w.peer # n
  BY <1>1, <1>2 DEF Pairwise, SelfInv, Queues
<1>4. ASSUME NEW a \in Participants, a # n
      PROVE  pool'[a] = pool[a] /\ \A b \in Participants : b # n => wire'[a][b] = wire[a][b]
  <2>1. pool'[a] = pool[a]
    BY <1>1, <1>2, <1>4 DEF PoolTyped
  <2>2. \A b \in Participants : b # n => wire'[a][b] = wire[a][b]
    BY <1>1, <1>2, <1>4 DEF Queues
  <2> QED BY <2>1, <2>2
<1>5. Alone(n)
  BY <1>2, <1>3, <1>4 DEF Alone
<1> QED BY <1>1, <1>5, AloneKeeps

\* A pool has another socket: its pairs were disturbed when the last was lost.
LEMMA RebindKeeps ==
  ASSUME PoolInv, PoolInv', Pairwise, NEW n \in Participants, Rebind(n)
  PROVE  Pairwise'
<1> DEFINE ws == {[w EXCEPT !.chained = FALSE] : w \in works[n]}
           left == [p \in Participants |->
                      IF peers[n][p] # None /\ peers[n][p].stage = "ready" THEN peers[n][p] ELSE None]
<1>1. PartsInv /\ PartsInv' /\ wire \in Queues /\ PoolTyped
  BY DEF PoolInv, FaultsInv
<1>2. /\ drawn' = drawn /\ disturbed \subseteq disturbed' /\ wire' = wire /\ ~pool[n].online
      /\ pool' = [pool EXCEPT ![n].online = TRUE, ![n].generation = @ + 1]
  BY DEF Rebind
<1>3. /\ peers' = [peers EXCEPT ![n] = left]
      /\ chains' = [chains EXCEPT ![n] = [p \in Participants |-> <<>>]]
      /\ works' = [works EXCEPT ![n] = ws] /\ ended \subseteq ended'
  BY DEF Rebind, Becomes, Pool
<1>4. \A w \in ws : w.peer # n
  <2>1. works[n] \in SUBSET Work /\ \A w \in works[n] : w.peer # n
    BY <1>1 DEF PartsInv, Pairwise, SelfInv
  <2> QED BY <2>1, UnchainedWork
<1>5. left[n] = None
  BY DEF Pairwise, SelfInv
<1> HIDE DEF ws, left
<1>6. peers'[n][n] = None /\ chains'[n][n] = <<>> /\ wire'[n][n] = <<>> /\ works'[n] = ws
  BY <1>1, <1>2, <1>3, <1>5 DEF PartsInv, Pairwise, SelfInv
<1>7. ASSUME NEW a \in Participants, a # n
      PROVE  pool'[a] = pool[a] /\ peers'[a] = peers[a] /\ chains'[a] = chains[a] /\ works'[a] = works[a]
  <2>1. pool'[a] = pool[a]
    BY <1>1, <1>2, <1>7 DEF PoolTyped
  <2>2. peers'[a] = peers[a] /\ chains'[a] = chains[a] /\ works'[a] = works[a]
    BY <1>1, <1>3, <1>7 DEF PartsInv
  <2> QED BY <2>1, <2>2
<1>8. \A p \in Participants : p # n => Pair(n, p) \in disturbed'
  BY <1>2 DEF Pairwise, PairInv, PairHolds
<1>9. Alone(n)
  BY <1>2, <1>3, <1>4, <1>6, <1>7, <1>8 DEF Alone
<1> QED BY <1>1, <1>9, AloneKeeps

\* Every step keeps the invariant of the pairs.
LEMMA PairwiseStep ==
  ASSUME PoolInv, PoolInv', RosterInv, RosterInv', Pairwise, [PoolNext]_vars
  PROVE  Pairwise'
<1>1. CASE UNCHANGED vars
  <2>1. Pairwise' <=> Pairwise
    BY <1>1 DEF vars, Pairwise, PairInv, SelfInv, DrawnInv, PairHolds, Settled, End
  <2> QED BY <2>1
<1>2. CASE PoolNext
  <2>1. PICK n \in Participants :
          \/ ClosePool(n) \/ SignalingLost(n) \/ Rebind(n)
          \/ \E w \in works[n] : Continue(n, w) \/ Reject(n, w)
          \/ \E p \in Participants :
               \/ Dial(n, p) \/ Disconnect(n, p) \/ Deliver(n, p) \/ Ready(n, p) \/ Failed(n, p)
               \/ LinkLost(n, p) \/ ParticipantDisconnected(n, p) \/ ParticipantConnected(n, p)
    BY <1>2 DEF PoolNext
  <2>2. CASE ClosePool(n)
    BY <2>2, ClosePoolKeeps
  <2>3. CASE SignalingLost(n)
    BY <2>3, SignalingLostKeeps
  <2>4. CASE Rebind(n)
    BY <2>4, RebindKeeps
  <2>5. ASSUME NEW w \in works[n], Continue(n, w) \/ Reject(n, w) PROVE Pairwise'
    BY <2>5, ContinueKeeps, RejectKeeps
  <2>6. ASSUME NEW p \in Participants,
               Dial(n, p) \/ Disconnect(n, p) \/ Deliver(n, p) \/ Ready(n, p) \/ Failed(n, p) \/ LinkLost(n, p)
        PROVE  Pairwise'
    BY <2>6, DialKeeps, DisconnectKeeps, DeliverKeeps, ReadyKeeps, FailedKeeps, LinkLostKeeps
  <2>7. ASSUME NEW p \in Participants, ParticipantDisconnected(n, p) PROVE Pairwise'
    <3>1. CASE p # n
      BY <2>7, <3>1, ParticipantDisconnectedKeeps
    <3>2. CASE p = n
      BY <2>7, <3>2 DEF ParticipantDisconnected, RosterInv
    <3> QED BY <3>1, <3>2
  <2>8. ASSUME NEW p \in Participants, ParticipantConnected(n, p) PROVE Pairwise'
    BY <2>8, ParticipantConnectedKeeps
  <2> QED BY <2>1, <2>2, <2>3, <2>4, <2>5, <2>6, <2>7, <2>8
<1> QED BY <1>1, <1>2

\* What two pools that are left alone have to do with each other, kept by
\* every step of every pool: the dialler of a connection and its stage at both
\* ends, what is said of it and not handled, the work it waits for, and who
\* wins when both dial (content-peer-pool.ts:440-577).
THEOREM PairwiseInvariant == PoolSpec => []Pairwise
<1>1. Init => Pairwise
  BY PairwiseInit
<1>2. PoolInv /\ PoolInv' /\ RosterInv /\ RosterInv' /\ Pairwise /\ [PoolNext]_vars => Pairwise'
  BY PairwiseStep
<1>3. PoolSpec => []PoolInv /\ []RosterInv
  BY PoolInvariant, ListedUnlessDisturbed
<1> QED BY <1>1, <1>2, <1>3, PTL DEF PoolSpec

-------------------------------------------------------------------------------
(* What the invariant says of a pair that is quiet; the theorems.            *)

\* Nothing an end said is unhandled, and its link waits for no work.
Idle(e) == Out(e) = {} /\ \A w \in e.works : ~Holds(e, w.id)

\* A quiet pair has said all, and its links wait for nothing.
LEMMA QuietPair ==
  ASSUME PoolInv, Pairwise, NEW n \in Participants, NEW p \in Participants, n # p,
         Quiet(n, p), Pair(n, p) \notin disturbed
  PROVE  /\ PairOK(n, p, End(n, p), End(p, n), drawn, Pair(n, p) \in ended)
         /\ Idle(End(n, p)) /\ Idle(End(p, n)) /\ ~pool[n].closed /\ ~pool[p].closed
<1>1. PairHolds(n, p) /\ PairHolds(p, n)
  <2>1. Pair(p, n) = Pair(n, p)
    BY DEF Pair
  <2> QED BY <2>1 DEF Pairwise, PairInv
<1>2. ASSUME NEW a \in {n, p}, NEW b \in {n, p}, a # b
      PROVE  /\ \A w \in End(a, b).works : ~Holds(End(a, b), w.id)
             /\ chains[a][b] = <<>>
  <2>1. /\ ~pool[a].closed /\ pool[a].generation = 0 /\ Settled(a, b)
        /\ PairOK(a, b, End(a, b), End(b, a), drawn, Pair(a, b) \in ended)
    BY <1>1, <1>2 DEF PairHolds
  <2>2. Roles(a, b, End(a, b), drawn) /\ Working(End(a, b))
    BY <2>1 DEF PairOK, Half, Core
  <2>3. ASSUME NEW w \in works[a], w.peer = b PROVE ~Holds(End(a, b), w.id)
    <3>1. w \in End(a, b).works
      BY <2>3 DEF End
    <3>2. w.generation = 0
      BY <2>2, <3>1 DEF Roles, WorkRole
    <3>3. ~Current(a, Pool(a), w)
      BY <2>3 DEF Quiet
    <3>4. ~HasLink(Pool(a), b, w.id)
      BY <2>1, <2>3, <3>2, <3>3 DEF Current
    <3> QED BY <3>4 DEF HasLink, Holds, Pool, End
  <2>4. \A w \in End(a, b).works : w \in works[a] /\ w.peer = b
    BY DEF End
  <2>5. chains[a][b] = <<>>
    <3> SUFFICES ASSUME chains[a][b] # <<>> PROVE FALSE
      OBVIOUS
    <3>1. PICK w \in works[a] : w.peer = b /\ w.chained
      BY <2>1 DEF Settled
    <3>2. w \in End(a, b).works
      BY <3>1 DEF End
    <3>3. Holds(End(a, b), w.id)
      BY <2>2, <3>1, <3>2 DEF Working
    <3> QED BY <2>3, <3>1, <3>3
  <2> QED BY <2>3, <2>4, <2>5
<1>3. wire[n][p] = <<>> /\ wire[p][n] = <<>> /\ chains[n][p] = <<>> /\ chains[p][n] = <<>>
  BY <1>2 DEF Quiet
<1>4. Out(End(n, p)) = {} /\ Out(End(p, n)) = {}
  <2>1. <<>> \o <<>> = <<>>
    BY EmptyChain
  <2>2. End(n, p).line = <<>> /\ End(p, n).line = <<>>
    BY <1>3, <2>1 DEF End
  <2> QED BY <2>2, EmptyChain DEF Out
<1> QED BY <1>1, <1>2, <1>4 DEF Idle, PairHolds

\* A dialled link of an idle pair has its answer, and so has a link that
\* answers it.
LEMMA IdleDials ==
  ASSUME NEW a, NEW b, a # b, NEW e, NEW f, NEW d, NEW x, PairOK(a, b, e, f, d, x),
         Idle(e), Idle(f), e.link # None, e.link.initiatedLocally
  PROVE  /\ e.link.stage \in {"accepted", "ready"}
         /\ Holds(f, e.link.id) => f.link.stage \in {"answered", "ready"}
<1>1. /\ Roles(a, b, e, d) /\ Roles(b, a, f, d) /\ Working(e) /\ Working(f) /\ Pending(e, f)
  BY DEF PairOK, Half, Core
<1>2. d[e.link.id] = <<a, b>> /\ e.link.stage \in {"offering", "offered", "accepted", "ready"}
  BY <1>1 DEF Roles, LinkRole
<1>3. ~At(e, "offering")
  BY <1>1 DEF Working, Idle, Holds, At
<1>4. ~At(f, "answering")
  BY <1>1 DEF Working, Idle, Holds, At
<1>5. ~At(e, "offered")
  BY <1>1, <1>4 DEF Pending, Idle, Holds
<1>6. ASSUME Holds(f, e.link.id) PROVE f.link.stage \in {"answered", "ready"}
  <2>1. d[f.link.id] = <<a, b>>
    BY <1>2, <1>6 DEF Holds
  <2>2. <<a, b>> # <<b, a>>
    OBVIOUS
  <2>3. f.link # None
    BY <1>6 DEF Holds
  <2>4. f.link.stage \in {"answering", "answered", "ready"}
    BY <1>1, <2>1, <2>2, <2>3 DEF Roles, LinkRole
  <2> QED BY <1>4, <2>3, <2>4 DEF At
<1> QED BY <1>2, <1>3, <1>5, <1>6 DEF At

\* An idle pair whose dials are not decided has none.
LEMMA IdleDecided ==
  ASSUME NEW a, NEW b, NEW e, NEW f, NEW d, NEW x, PairOK(a, b, e, f, d, x), Idle(e), Idle(f),
         NEW id \in Ids, d[id] = <<a, b>>
  PROVE  ~Undecided(a, b, e, f, d)
<1> SUFFICES ASSUME Undecided(a, b, e, f, d) PROVE FALSE
  OBVIOUS
<1>1. ASSUME NEW g, NEW h, Calling(g, h), Working(g), Idle(g), Idle(h), g.link # None PROVE FALSE
  BY <1>1 DEF Calling, Working, Idle, Beaten, Holds, At
<1>2. Calling(e, f) /\ Calling(f, e) /\ (Hopeful(e, f) \/ Hopeful(f, e))
  BY DEF Undecided
<1>3. Working(e) /\ Working(f)
  BY DEF PairOK, Half, Core
<1> QED BY <1>1, <1>2, <1>3 DEF Hopeful

\* NoDialHangs from the invariant of the pairs.
LEMMA PairwiseDials ==
  ASSUME PoolInv, Pairwise
  PROVE  NoDialHangs
<1> SUFFICES ASSUME NEW n \in Participants, NEW p \in Participants, Quiet(n, p), peers[n][p] # None,
                    peers[n][p].initiatedLocally, Pair(n, p) \notin disturbed
             PROVE  Joined(n, p) \/ Abandoned(n, p)
  BY DEF NoDialHangs
<1>1. n # p
  BY DEF Pairwise, SelfInv
<1>2. /\ PairOK(n, p, End(n, p), End(p, n), drawn, Pair(n, p) \in ended)
      /\ Idle(End(n, p)) /\ Idle(End(p, n))
  BY <1>1, QuietPair
<1>3. End(n, p).link = peers[n][p] /\ End(p, n).link = peers[p][n]
  BY DEF End
<1>4. /\ End(n, p).link.stage \in {"accepted", "ready"}
      /\ Holds(End(p, n), End(n, p).link.id) => End(p, n).link.stage \in {"answered", "ready"}
  BY <1>1, <1>2, <1>3, IdleDials
<1>5. CASE Holds(End(p, n), End(n, p).link.id)
  <2>1. Joined(n, p)
    BY <1>3, <1>4, <1>5 DEF Joined, Holds
  <2> QED BY <2>1
<1>6. CASE ~Holds(End(p, n), End(n, p).link.id)
  <2>1. Abandoned(n, p)
    BY <1>3, <1>4, <1>6 DEF Abandoned, Holds
  <2> QED BY <2>1
<1> QED BY <1>5, <1>6

\* CollisionKeepsOne from the invariant of the pairs.
LEMMA PairwiseCollisions ==
  ASSUME PoolInv, Pairwise
  PROVE  CollisionKeepsOne
<1> SUFFICES ASSUME NEW n \in Participants, NEW p \in Participants, n # p, Quiet(n, p),
                    Pair(n, p) \notin ended \cup disturbed, NEW id \in Ids, drawn[id] = <<n, p>>
             PROVE  Joined(n, p)
  BY DEF CollisionKeepsOne
<1> DEFINE e == End(n, p)
           f == End(p, n)
           x == Pair(n, p) \in ended
<1>1. PairOK(n, p, e, f, drawn, x) /\ Idle(e) /\ Idle(f) /\ ~x
  BY QuietPair
<1>2. e.link = peers[n][p] /\ f.link = peers[p][n]
  BY DEF End
<1> HIDE DEF e, f, x
<1>3. Won(e, f) \/ Won(f, e)
  <2>1. Unended(n, p, e, f, drawn)
    BY <1>1, PairParts
  <2>2. ~Undecided(n, p, e, f, drawn)
    BY <1>1, IdleDecided
  <2> QED BY <2>1, <2>2 DEF Unended
<1>4. CASE Won(e, f)
  <2>1. e.link # None /\ e.link.initiatedLocally /\ Holds(f, e.link.id)
    BY <1>4 DEF Won, Hopeful
  <2>2. e.link.stage \in {"accepted", "ready"} /\ f.link.stage \in {"answered", "ready"}
    BY <1>1, <2>1, IdleDials
  <2> QED BY <1>2, <2>1, <2>2 DEF Joined, Holds
<1>5. CASE Won(f, e)
  <2>1. f.link # None /\ f.link.initiatedLocally /\ Holds(e, f.link.id)
    BY <1>5 DEF Won, Hopeful
  <2>2. PairOK(p, n, f, e, drawn, x)
    BY <1>1, PairParts
  <2>3. f.link.stage \in {"accepted", "ready"} /\ e.link.stage \in {"answered", "ready"}
    BY <1>1, <2>1, <2>2, IdleDials
  <2> QED BY <1>2, <2>1, <2>3 DEF Joined, Holds
<1> QED BY <1>3, <1>4, <1>5

\* Two pools that dialled each other and were left alone end up with one
\* connection and both its ends, whatever order their offers, answers and
\* rejections are handled in: the lower id wins at both, and the loser's
\* answer is not lost behind the work its own dial left
\* (content-peer-pool.ts:440-524).
THEOREM CollisionsKeepOne == PoolSpec => []CollisionKeepsOne
<1>1. PoolInv /\ Pairwise => CollisionKeepsOne
  BY PairwiseCollisions
<1> QED BY <1>1, PoolInvariant, PairwiseInvariant, PTL

\* When nothing is left to happen to a pair that was left alone, no dial of it
\* is left half-way: it was answered, refused or hung up, and no chain waits
\* for work on a connection that is closed (content-peer-pool.ts:455-480,
\* 552-577).
THEOREM DialsEnd == PoolSpec => []NoDialHangs
<1>1. PoolInv /\ Pairwise => NoDialHangs
  BY PairwiseDials
<1> QED BY <1>1, PoolInvariant, PairwiseInvariant, PTL
===============================================================================
