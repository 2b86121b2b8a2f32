----------------------------- MODULE Whc_proofs -----------------------------
(***************************************************************************)
(* Proofs about the writer history cache: the six invariants of Whc, for   *)
(* every number of instances, readers and samples, every history and       *)
(* durability depth and every mix of QoS settings that LifespanIndexed     *)
(* and, for the bound, LifespanNoDispose allow.                            *)
(*                                                                         *)
(* First the operations on a cache.  "Good" is what each of them keeps:    *)
(* the intervals are the maximal runs of the numbers present, samples and  *)
(* the slots of the index name each other, and the counters count what is  *)
(* there.  "Hist" relates the index to what was written: as many later     *)
(* samples of an instance were written as the slot of a sample is old.     *)
(* Each operation gets a predicate that says what it does to the samples   *)
(* and to the index (Deleted, Removal, Inserted, Reindexed, Dropped ...),  *)
(* a lemma that the operator of Whc does that, and a lemma that it keeps   *)
(* Good and Hist.  The running sums over sets need an induction over       *)
(* finite sets; it is stated for a set of subsets in place of a predicate  *)
(* (SubsetInduction), since a theorem with an operator for a parameter     *)
(* cannot be used.                                                         *)
(*                                                                         *)
(* Then the actions.  FullInv is inductive: the acknowledgement state is   *)
(* what the matched readers can have said (Acks), the cache is right for   *)
(* it and for what was written (Cache), what must be kept is there, and    *)
(* every loan is accounted for (Loans).  Bounded is what the bound on the  *)
(* history needs in addition: a sample beyond the transient-local depth    *)
(* waits for the newest of its instance to be acknowledged, which then     *)
(* prunes it.                                                              *)
(***************************************************************************)
EXTENDS Whc, FiniteSetTheorems, WellFoundedInduction, TLAPS

-----------------------------------------------------------------------------
(* The shape of a cache, for an index of depth d *)

\* Intervals, nodes, and the maps of the cache.
Ivs == [min : 1 .. MaxSeq + 1, maxp1 : 1 .. MaxSeq + 1]
Nodes == [inst : Keys \cup {NoInst}, pos : Nat, size : Nat, total : Nat,
          unacked : BOOLEAN, exp : BOOLEAN]
NodeMaps == UNION {[P -> Nodes] : P \in SUBSET Seqs}
IdxMaps(d) == UNION {[K -> [head : Nat, hist : [0 .. d - 1 -> 0 .. MaxSeq]]] : K \in SUBSET Keys}
Caches(d) == [node : NodeMaps, closed : SUBSET Ivs, open : Ivs, maxseq : Nat, size : Int,
              unackedBytes : Int, total : Nat, maxDrop : Nat, idx : IdxMaps(d)]

\* The intervals C and the open one o are the maximal runs of P.
In(x, i) == i.min <= x /\ x < i.maxp1
Covers(P, C, o) == \A x \in Seqs : x \in P <=> \E i \in C \cup {o} : In(x, i)
BeforeOpen(C, o) == \A i \in C : i.min < i.maxp1 /\ i.maxp1 < o.min
Apart(C) == \A i, j \in C : i # j => i.maxp1 < j.min \/ j.maxp1 < i.min
Runs(P, C, o) == Covers(P, C, o) /\ BeforeOpen(C, o) /\ Apart(C) /\ o.min <= o.maxp1

\* A sample that names a slot of an instance is in it, and the other way round.
Linked(w, d) ==
  /\ \A s \in DOMAIN w.node : w.node[s].inst # NoInst =>
       /\ w.node[s].inst \in DOMAIN w.idx /\ w.node[s].pos \in 0 .. d - 1
       /\ w.idx[w.node[s].inst].hist[w.node[s].pos] = s
  /\ \A k \in DOMAIN w.idx, p \in 0 .. d - 1 :
       w.idx[k].hist[p] # 0 => LET s == w.idx[k].hist[p]
                               IN s \in DOMAIN w.node /\ w.node[s].inst = k /\ w.node[s].pos = p
  /\ d > 0 => \A k \in DOMAIN w.idx : w.idx[k].head \in 0 .. d - 1

\* The unacknowledged bytes of the samples in S.
Bytes(w, S) == MapThenSumSet(LAMBDA s : UnackedSize(w, s), S)

\* The part of the invariant that whc_delete_one keeps.
Counted(w) == /\ w.size = Cardinality(DOMAIN w.node)
              /\ w.unackedBytes = Bytes(w, DOMAIN w.node)
Good(w, d) == /\ w \in Caches(d)
              /\ Runs(DOMAIN w.node, w.closed, w.open)
              /\ Linked(w, d)
              /\ Counted(w)

\* maxseq is the highest number present; the writer has written n samples.
IsTop(w, x) == /\ x \in DOMAIN w.node \cup {0}
               /\ \A s \in DOMAIN w.node : s <= x
UpTo(w, n) == IsTop(w, w.maxseq) /\ w.open.maxp1 <= n + 1 /\ \A s \in DOMAIN w.node : s <= n

-----------------------------------------------------------------------------
(* The cache and what was written *)

Carries == {"data", "dispose"}
LaterIn(W, s) == {t \in DOMAIN W : t > s /\ W[t].key = W[s].key /\ W[t].kind \in Carries}
UnregIn(W, s) == \E t \in DOMAIN W : t > s /\ W[t].key = W[s].key /\ W[t].kind = "unregister"
Writings(n) == UNION {[T -> [key : Keys, kind : AllKinds]] : T \in SUBSET (1 .. n)}

AgeAt(x, p, d) == (x.head + (IF p > x.head THEN d ELSE 0)) - p

\* A slot holds a sample of its instance, and as many later ones were written
\* as the slot is old; what lies in older slots was written earlier.
Ages(w, d, W) ==
  \A k \in DOMAIN w.idx, p \in 0 .. d - 1 :
    w.idx[k].hist[p] # 0 =>
      LET s == w.idx[k].hist[p]
      IN /\ W[s].key = k /\ W[s].kind \in Carries
         /\ AgeAt(w.idx[k], p, d) <= Cardinality(LaterIn(W, s))
Ordered(w, d) ==
  \A k \in DOMAIN w.idx : \A p, q \in 0 .. d - 1 :
    /\ w.idx[k].hist[p] # 0 /\ w.idx[k].hist[q] # 0
    /\ AgeAt(w.idx[k], p, d) > AgeAt(w.idx[k], q, d)
    => w.idx[k].hist[p] < w.idx[k].hist[q]
\* A sample outside E left the index because its instance did, or because d newer ones came.
Pushed(w, d, W, E) ==
  d > 0 => \A s \in DOMAIN w.node \ E :
    W[s].kind \in Carries /\ w.node[s].inst = NoInst
      => UnregIn(W, s) \/ d <= Cardinality(LaterIn(W, s))
Hist(w, d, W, E) == DOMAIN w.node \subseteq DOMAIN W /\ Ages(w, d, W) /\ Ordered(w, d) /\ Pushed(w, d, W, E)

\* What is unacknowledged is beyond m, the number all readers have acknowledged.
AckedUpTo(w, m) == \A s \in DOMAIN w.node : w.node[s].unacked <=> s > m
BeyondDrop(w) == \A s \in DOMAIN w.node : w.node[s].unacked => s > w.maxDrop

\* Without an index, a deadline and durability the cache is one run of
\* unacknowledged samples that ends at the last one written.
Single(w, n) ==
  /\ w.closed = {}
  /\ DOMAIN w.node # {} => w.open.maxp1 = n + 1
  /\ \A s \in DOMAIN w.node :
       Bytes(w, {t \in DOMAIN w.node : t > s}) = w.total - w.node[s].total

\* The acknowledged samples of an instance.
KeptOf(w, W, k) == {s \in DOMAIN w.node : W[s].key = k /\ W[s].kind # "empty" /\ ~w.node[s].unacked}
\* With a transient-local depth td, a sample beyond it waits for the newest one
\* to be acknowledged.
Waiting(w, d, td) ==
  \A k \in DOMAIN w.idx, p \in 0 .. d - 1 :
    w.idx[k].hist[p] # 0 =>
      LET h == w.idx[k].hist[w.idx[k].head]
      IN h # 0 /\ (AgeAt(w.idx[k], p, d) >= td => w.node[h].unacked)
InIndex(w, W) ==
  \A s \in DOMAIN w.node : W[s].kind # "empty" /\ ~w.node[s].unacked => w.node[s].inst # NoInst
ExpInIndex(w) == \A s \in DOMAIN w.node : w.node[s].inst # NoInst => w.node[s].exp
Limited(w, td, W) == \A k \in Keys : Cardinality(KeptOf(w, W, k)) <= td
-----------------------------------------------------------------------------
(* Least and greatest numbers *)

\* A set of natural numbers has a least one.
LEMMA LeastOfNat == ASSUME NEW S \in SUBSET Nat, S # {} PROVE \E n \in S : \A k \in S : n <= k
<1>1. PICK n \in S : \A k \in S : <<k, n>> \notin OpToRel(<, Nat)
  BY NatLessThanWellFounded, WFMin
<1>2. \A k \in S : ~(k < n)
  BY <1>1 DEF OpToRel
<1>3. QED
  BY <1>2

\* A bounded set of them has a greatest one.
LEMMA GreatestOfBounded ==
  ASSUME NEW b \in Nat, NEW S \in SUBSET (0 .. b), S # {}
  PROVE  \E n \in S : \A k \in S : k <= n
<1> DEFINE D == {b - k : k \in S}
<1>0. PICK h \in S : TRUE
  OBVIOUS
<1>1. D \in SUBSET Nat /\ D # {}
  <2>1. \A i \in S : b - i \in Nat
    OBVIOUS
  <2>2. b - h \in D
    OBVIOUS
  <2>3. QED
    BY <2>1, <2>2
<1>2. PICK d \in D : \A e \in D : d <= e
  BY <1>1, LeastOfNat
<1>3. PICK n \in S : d = b - n
  OBVIOUS
<1>4. \A k \in S : b - k \in D
  OBVIOUS
<1>5. \A k \in S : d <= b - k
  BY <1>2, <1>4
<1>6. QED
  BY <1>3, <1>5

\* Induction, stated of a set so that a goal is an instance of it.
LEMMA SetInduction ==
  ASSUME NEW A \in SUBSET Nat, 0 \in A, \A n \in A : n + 1 \in A
  PROVE  \A n \in Nat : n \in A
<1> DEFINE B == Nat \ A
<1>1. SUFFICES ASSUME B # {} PROVE FALSE
  OBVIOUS
<1>2. PICK n \in B : \A k \in B : n <= k
  BY <1>1, LeastOfNat
<1>3. n # 0 /\ n - 1 \in Nat /\ n - 1 \in A
  BY <1>2
<1>4. QED
  BY <1>2, <1>3

-----------------------------------------------------------------------------
(* The unacknowledged bytes of a set of samples *)

\* The function MapThenSumSet computes the sum with.
Fold(w, S, f) == f = [s \in SUBSET S |->
                          IF s = {} THEN 0
                          ELSE UnackedSize(w, CHOOSE x \in s : TRUE) + f[s \ {CHOOSE x \in s : TRUE}]]

Folded(w, S) == CHOOSE f : Fold(w, S, f)

\* Bytes is the value of that function at the whole set.
LEMMA BytesIsFold == ASSUME NEW w, NEW S PROVE Bytes(w, S) = Folded(w, S)[S]
  BY DEF Folded, Bytes, MapThenSumSet, MapThenFoldSet, Fold

\* The sample the fold counts next.
Chosen(s) == CHOOSE x \in s : TRUE

\* It is one of the set.
LEMMA ChosenIn == ASSUME NEW s, s # {} PROVE Chosen(s) \in s
  BY DEF Chosen

\* The recursion of the fold has a solution on the subsets of a finite set.
LEMMA FoldExists ==
  ASSUME NEW w, NEW S, IsFiniteSet(S) PROVE \E f : Fold(w, S, f)
<1> DEFINE Part(n) == {s \in SUBSET S : Cardinality(s) <= n}
           F(g, s) == IF s = {} THEN 0 ELSE UnackedSize(w, Chosen(s)) + g[s \ {Chosen(s)}]
           A == {n \in Nat : \E g : g = [s \in Part(n) |-> F(g, s)]}
<1>1. \A s \in SUBSET S : IsFiniteSet(s) /\ Cardinality(s) \in Nat
  BY FS_Subset, FS_CardinalityType
<1>2. \A s \in SUBSET S : s # {} => /\ s \ {Chosen(s)} \in SUBSET S
                                    /\ Cardinality(s \ {Chosen(s)}) = Cardinality(s) - 1
  BY <1>1, ChosenIn, FS_RemoveElement
<1>3. 0 \in A
  <2> DEFINE g == [s \in Part(0) |-> 0]
  <2>1. \A s \in Part(0) : s = {}
    BY <1>1, FS_EmptySet
  <2>2. \A s \in Part(0) : F(g, s) = 0
    BY <2>1
  <2>3. g = [s \in Part(0) |-> F(g, s)]
    BY <2>2
  <2>4. QED
    BY <2>3
<1>4. ASSUME NEW n \in A PROVE n + 1 \in A
  <2>1. PICK g : g = [s \in Part(n) |-> F(g, s)]
    OBVIOUS
  <2> DEFINE h == [s \in Part(n + 1) |-> F(g, s)]
  <2>2. \A s \in Part(n) : s \in Part(n + 1) /\ h[s] = g[s]
    <3>1. \A s \in Part(n) : s \in Part(n + 1)
      BY <1>1
    <3>2. \A s \in Part(n) : g[s] = F(g, s)
      BY <2>1
    <3>3. \A s \in Part(n + 1) : h[s] = F(g, s)
      OBVIOUS
    <3> HIDE DEF F, h, Part
    <3>4. QED
      BY <3>1, <3>2, <3>3
  <2>0. n \in Nat /\ n + 1 \in Nat
    OBVIOUS
  <2>3. \A s \in Part(n + 1) : s # {} => s \ {Chosen(s)} \in Part(n)
    <3> HIDE DEF A
    <3>1. QED
      BY <1>1, <1>2, <2>0
  <2>4. \A s \in Part(n + 1) : F(h, s) = F(g, s)
    <3> HIDE DEF h, Part
    <3>1. QED
      BY <2>2, <2>3
  <2>5. h = [s \in Part(n + 1) |-> F(h, s)]
    <3> HIDE DEF F, Part
    <3>1. QED
      BY <2>4
  <2>6. \E f : f = [s \in Part(n + 1) |-> F(f, s)]
    <3> HIDE DEF h, A
    <3> WITNESS h
    <3>1. QED
      BY <2>5
  <2>7. QED
    BY <2>0, <2>6, Zenon
<1>5. Cardinality(S) \in A
  <2> HIDE DEF A
  <2>1. A \in SUBSET Nat
    BY DEF A
  <2>2. QED
    BY <1>1, <1>3, <1>4, <2>1, SetInduction
<1>6. Part(Cardinality(S)) = SUBSET S
  BY <1>1, FS_Subset
<1>7. PICK g : g = [s \in SUBSET S |-> F(g, s)]
  BY <1>5, <1>6
<1>8. QED
  BY <1>7 DEF Fold, Chosen

\* The chosen function is such a solution.
LEMMA FoldOf ==
  ASSUME NEW w, NEW S, IsFiniteSet(S), NEW s \in SUBSET S
  PROVE  Folded(w, S)[s] = IF s = {} THEN 0
                        ELSE UnackedSize(w, Chosen(s)) + Folded(w, S)[s \ {Chosen(s)}]
<1>1. Fold(w, S, Folded(w, S))
  BY FoldExists, Zenon DEF Folded
<1>2. Folded(w, S) = [u \in SUBSET S |-> IF u = {} THEN 0
                                      ELSE UnackedSize(w, Chosen(u)) + Folded(w, S)[u \ {Chosen(u)}]]
  BY <1>1 DEF Fold, Chosen
<1>3. QED
  BY <1>2

\* The sum over a subset is that of the larger sum's recursion.
LEMMA FoldsAgree ==
  ASSUME NEW w, NEW S, IsFiniteSet(S), NEW R \in SUBSET S
  PROVE  Bytes(w, R) = Folded(w, S)[R]
<1> DEFINE f == Folded(w, S)
           g == Folded(w, R)
           A == {n \in Nat : \A s \in SUBSET R : Cardinality(s) = n => f[s] = g[s]}
<1>1. IsFiniteSet(R) /\ \A s \in SUBSET R : IsFiniteSet(s) /\ Cardinality(s) \in Nat
  BY FS_Subset, FS_CardinalityType
<1>2. /\ \A s \in SUBSET S : f[s] = IF s = {} THEN 0 ELSE UnackedSize(w, Chosen(s)) + f[s \ {Chosen(s)}]
      /\ \A s \in SUBSET R : g[s] = IF s = {} THEN 0 ELSE UnackedSize(w, Chosen(s)) + g[s \ {Chosen(s)}]
  <2>1. \A s \in SUBSET S : f[s] = IF s = {} THEN 0 ELSE UnackedSize(w, Chosen(s)) + f[s \ {Chosen(s)}]
    BY FoldOf
  <2>2. \A s \in SUBSET R : g[s] = IF s = {} THEN 0 ELSE UnackedSize(w, Chosen(s)) + g[s \ {Chosen(s)}]
    <3>1. IsFiniteSet(R)
      BY <1>1
    <3>2. QED
      BY <3>1, FoldOf
  <2>3. QED
    BY <2>1, <2>2
<1>3. Bytes(w, R) = g[R]
  BY BytesIsFold
<1> HIDE DEF f, g
<1>4. \A s \in SUBSET R : s # {} => /\ s \ {Chosen(s)} \in SUBSET R
                                    /\ Cardinality(s \ {Chosen(s)}) = Cardinality(s) - 1
  BY <1>1, ChosenIn, FS_RemoveElement
<1>5. 0 \in A
  <2>1. \A s \in SUBSET R : Cardinality(s) = 0 => s = {}
    BY <1>1, FS_EmptySet
  <2>2. QED
    BY <1>2, <2>1
<1>6. ASSUME NEW n \in A PROVE n + 1 \in A
  <2>1. ASSUME NEW s \in SUBSET R, Cardinality(s) = n + 1 PROVE f[s] = g[s]
    <3>1. s # {}
      BY <2>1, FS_EmptySet
    <3>2. f[s \ {Chosen(s)}] = g[s \ {Chosen(s)}]
      BY <1>4, <2>1, <3>1
    <3>3. f[s] = UnackedSize(w, Chosen(s)) + f[s \ {Chosen(s)}] /\ g[s] = UnackedSize(w, Chosen(s)) + g[s \ {Chosen(s)}]
      BY <1>2, <3>1
    <3>4. QED
      BY <3>2, <3>3
  <2>2. QED
    BY <2>1
<1>7. Cardinality(R) \in A
  <2> HIDE DEF A
  <2>1. A \in SUBSET Nat
    BY DEF A
  <2>2. QED
    BY <1>1, <1>5, <1>6, <2>1, SetInduction
<1>8. f[R] = g[R]
  BY <1>7
<1>9. QED
  BY <1>3, <1>8 DEF f

\* The recursion, of Bytes itself.
LEMMA BytesRemoveChosen ==
  ASSUME NEW w, NEW S, IsFiniteSet(S)
  PROVE  Bytes(w, S) = IF S = {} THEN 0 ELSE UnackedSize(w, Chosen(S)) + Bytes(w, S \ {Chosen(S)})
<1> DEFINE f == Folded(w, S)
<1>1. \A s \in SUBSET S : Bytes(w, s) = f[s]
  BY FoldsAgree
<1>2. \A s \in SUBSET S : f[s] = IF s = {} THEN 0 ELSE UnackedSize(w, Chosen(s)) + f[s \ {Chosen(s)}]
  BY FoldOf
<1> HIDE DEF f
<1>3. S \in SUBSET S /\ S \ {Chosen(S)} \in SUBSET S
  OBVIOUS
<1>4. QED
  BY <1>1, <1>2, <1>3

\* The bytes are a natural number.
LEMMA BytesNat ==
  ASSUME NEW w, NEW S, IsFiniteSet(S), \A s \in S : UnackedSize(w, s) \in Nat PROVE Bytes(w, S) \in Nat
<1> DEFINE A == {n \in Nat : \A s \in SUBSET S : Cardinality(s) = n => Bytes(w, s) \in Nat}
<1>1. \A s \in SUBSET S : IsFiniteSet(s) /\ Cardinality(s) \in Nat
  BY FS_Subset, FS_CardinalityType
<1>2. \A x \in S : UnackedSize(w, x) \in Nat
  OBVIOUS
<1>3. \A s \in SUBSET S : s # {} => /\ Chosen(s) \in s /\ s \ {Chosen(s)} \in SUBSET S
                                    /\ Cardinality(s \ {Chosen(s)}) = Cardinality(s) - 1
                                    /\ Bytes(w, s) = UnackedSize(w, Chosen(s)) + Bytes(w, s \ {Chosen(s)})
  BY <1>1, ChosenIn, FS_RemoveElement, BytesRemoveChosen
<1>4. 0 \in A
  BY <1>1, FS_EmptySet, BytesRemoveChosen
<1>5. ASSUME NEW n \in A PROVE n + 1 \in A
  <2>0. n \in Nat /\ \A s \in SUBSET S : Cardinality(s) = n => Bytes(w, s) \in Nat
    OBVIOUS
  <2>1. ASSUME NEW s \in SUBSET S, Cardinality(s) = n + 1 PROVE Bytes(w, s) \in Nat
    <3> HIDE DEF A
    <3>1. s # {}
      <4>1. Cardinality(s) # 0
        BY <2>0, <2>1
      <4>2. QED
        BY <4>1, FS_EmptySet
    <3>2. Cardinality(s \ {Chosen(s)}) = n
      <4>1. Cardinality(s \ {Chosen(s)}) = Cardinality(s) - 1
        BY <1>3, <3>1
      <4>2. QED
        BY <2>0, <2>1, <4>1
    <3>3. Bytes(w, s \ {Chosen(s)}) \in Nat
      BY <1>3, <2>0, <3>1, <3>2
    <3>4. QED
      BY <1>2, <1>3, <3>1, <3>3
  <2>2. QED
    BY <2>0, <2>1
<1>6. Cardinality(S) \in A
  <2> HIDE DEF A
  <2>1. A \in SUBSET Nat
    BY DEF A
  <2>2. QED
    BY <1>1, <1>4, <1>5, <2>1, SetInduction
<1>7. QED
  BY <1>6

\* It does not matter which sample is counted first.
LEMMA BytesRemove ==
  ASSUME NEW w, NEW S, IsFiniteSet(S), \A s \in S : UnackedSize(w, s) \in Nat
  PROVE  Bytes(w, S) \in Nat /\ \A x \in S : Bytes(w, S) = UnackedSize(w, x) + Bytes(w, S \ {x})
<1> DEFINE P(s) == Bytes(w, s) \in Nat /\ \A x \in s : Bytes(w, s) = UnackedSize(w, x) + Bytes(w, s \ {x})
           A == {n \in Nat : \A s \in SUBSET S : Cardinality(s) = n => P(s)}
<1>1. \A s \in SUBSET S : IsFiniteSet(s) /\ Cardinality(s) \in Nat
  BY FS_Subset, FS_CardinalityType
<1>2. \A x \in S : UnackedSize(w, x) \in Nat
  OBVIOUS
<1>3. \A s \in SUBSET S : \A x \in s : /\ s \ {x} \in SUBSET S
                                       /\ Cardinality(s \ {x}) = Cardinality(s) - 1
  BY <1>1, FS_RemoveElement
<1>4. \A s \in SUBSET S : s # {} => /\ Chosen(s) \in s
                                    /\ Bytes(w, s) = UnackedSize(w, Chosen(s)) + Bytes(w, s \ {Chosen(s)})
  BY <1>1, ChosenIn, BytesRemoveChosen
<1>0. \A s \in SUBSET S : Bytes(w, s) \in Nat
  BY <1>1, BytesNat
<1>5. 0 \in A
  <2>1. \A s \in SUBSET S : Cardinality(s) = 0 => s = {}
    BY <1>1, FS_EmptySet
  <2>2. Bytes(w, {}) = 0
    BY FS_EmptySet, BytesRemoveChosen
  <2>3. P({})
    BY <2>2
  <2> HIDE DEF P
  <2>4. QED
    BY <2>1, <2>3
<1>6. ASSUME NEW n \in A PROVE n + 1 \in A
  <2>0. n \in Nat /\ \A s \in SUBSET S : Cardinality(s) = n => P(s)
    BY Zenon
  <2>1. ASSUME NEW s \in SUBSET S, Cardinality(s) = n + 1 PROVE P(s)
    <3> HIDE DEF A
    <3>1. s # {}
      <4>1. Cardinality(s) # 0
        BY <2>0, <2>1
      <4>2. QED
        BY <4>1, FS_EmptySet
    <3> DEFINE c == Chosen(s)
    <3>2. c \in s /\ Bytes(w, s) = UnackedSize(w, c) + Bytes(w, s \ {c})
      BY <1>4, <3>1
    <3> HIDE DEF c
    <3>3. \A x \in s : P(s \ {x})
      <4> HIDE DEF P
      <4>1. \A x \in s : s \ {x} \in SUBSET S /\ Cardinality(s \ {x}) = n
        BY <1>3, <2>0, <2>1
      <4>2. QED
        BY <2>0, <4>1
    <3>4. ASSUME NEW x \in s PROVE Bytes(w, s) = UnackedSize(w, x) + Bytes(w, s \ {x})
      <4>1. CASE x = c
        BY <3>2, <4>1
      <4>2. CASE x # c
        <5> DEFINE rest == (s \ {x}) \ {c}
        <5>1. Bytes(w, s \ {c}) = UnackedSize(w, x) + Bytes(w, rest)
          <6>1. (s \ {c}) \ {x} = rest
            OBVIOUS
          <6>2. Bytes(w, s \ {c}) = UnackedSize(w, x) + Bytes(w, (s \ {c}) \ {x})
            BY <3>2, <3>3, <4>2
          <6>3. QED
            BY <6>1, <6>2
        <5>2. Bytes(w, s \ {x}) = UnackedSize(w, c) + Bytes(w, rest)
          BY <3>2, <3>3, <4>2
        <5>4. Bytes(w, rest) \in Nat
          BY <1>0
        <5>5. UnackedSize(w, x) \in Nat /\ UnackedSize(w, c) \in Nat
          BY <1>2, <3>2
        <5> HIDE DEF rest
        <5>6. QED
          BY <3>2, <5>1, <5>2, <5>4, <5>5
      <4>3. QED
        BY <4>1, <4>2
    <3>5. Bytes(w, s) \in Nat
      BY <1>0
    <3>6. QED
      BY <3>4, <3>5
  <2>2. QED
    BY <2>0, <2>1
<1>7. Cardinality(S) \in A
  <2> HIDE DEF A
  <2>1. A \in SUBSET Nat
    BY DEF A
  <2>2. QED
    BY <1>1, <1>5, <1>6, <2>1, SetInduction
<1>8. QED
  BY <1>7

\* A new sample adds its size.
LEMMA BytesAdd ==
  ASSUME NEW w, NEW S, IsFiniteSet(S), \A s \in S : UnackedSize(w, s) \in Nat, NEW x, UnackedSize(w, x) \in Nat, x \notin S
  PROVE  IsFiniteSet(S \cup {x}) /\ Bytes(w, S \cup {x}) = Bytes(w, S) + UnackedSize(w, x)
<1>1. IsFiniteSet(S \cup {x}) /\ (\A s \in S \cup {x} : UnackedSize(w, s) \in Nat) /\ (S \cup {x}) \ {x} = S
  BY FS_AddElement
<1>2. Bytes(w, S \cup {x}) = UnackedSize(w, x) + Bytes(w, (S \cup {x}) \ {x})
  BY <1>1, BytesRemove
<1>3. UnackedSize(w, x) \in Nat /\ Bytes(w, S) \in Nat
  BY BytesNat
<1>4. Bytes(w, S \cup {x}) = UnackedSize(w, x) + Bytes(w, S)
  BY <1>1, <1>2
<1>5. QED
  BY <1>1, <1>3, <1>4

\* Induction on the subsets of a finite set, also stated of a set.
LEMMA SubsetInduction ==
  ASSUME NEW S, IsFiniteSet(S), NEW D \in SUBSET (SUBSET S), {} \in D,
         \A T \in D : \A x \in S \ T : T \cup {x} \in D
  PROVE  \A T \in SUBSET S : T \in D
<1> DEFINE A == {n \in Nat : \A T \in SUBSET S : Cardinality(T) = n => T \in D}
<1>1. \A T \in SUBSET S : IsFiniteSet(T) /\ Cardinality(T) \in Nat
  BY FS_Subset, FS_CardinalityType
<1>2. 0 \in A
  BY <1>1, FS_EmptySet
<1>3. ASSUME NEW n \in A PROVE n + 1 \in A
  <2>0. n \in Nat /\ \A T \in SUBSET S : Cardinality(T) = n => T \in D
    OBVIOUS
  <2>1. ASSUME NEW T \in SUBSET S, Cardinality(T) = n + 1 PROVE T \in D
    <3> HIDE DEF A
    <3>1. Cardinality(T) # 0
      BY <2>0, <2>1
    <3>2. PICK x \in T : TRUE
      BY <3>1, FS_EmptySet
    <3>3. Cardinality(T \ {x}) = Cardinality(T) - 1
      BY <1>1, FS_RemoveElement
    <3>4. T \ {x} \in D
      <4>1. Cardinality(T \ {x}) = n
        BY <2>0, <2>1, <3>3
      <4>2. QED
        BY <2>0, <4>1
    <3>5. (T \ {x}) \cup {x} = T /\ x \in S \ (T \ {x})
      OBVIOUS
    <3>6. QED
      BY <3>4, <3>5
  <2>2. QED
    BY <2>0, <2>1
<1>4. \A n \in Nat : n \in A
  <2>1. A \in SUBSET Nat
    OBVIOUS
  <2> HIDE DEF A
  <2>2. QED
    BY <1>2, <1>3, <2>1, SetInduction
<1>5. QED
  BY <1>1, <1>4

\* No samples, no bytes.
LEMMA BytesEmpty == ASSUME NEW w PROVE Bytes(w, {}) = 0
  BY FS_EmptySet, BytesRemoveChosen

\* The bytes are those of a part and of the rest.
LEMMA BytesSplit ==
  ASSUME NEW w, NEW S, IsFiniteSet(S), \A s \in S : UnackedSize(w, s) \in Nat, NEW T \in SUBSET S
  PROVE  Bytes(w, S) = Bytes(w, T) + Bytes(w, S \ T)
<1> DEFINE D == {U \in SUBSET S : Bytes(w, S) = Bytes(w, U) + Bytes(w, S \ U)}
<1>0. \A U \in SUBSET S : IsFiniteSet(U) /\ Bytes(w, U) \in Nat
  BY FS_Subset, BytesNat
<1>1. {} \in D
  <2>1. S \ {} = S
    OBVIOUS
  <2>2. QED
    BY <1>0, <2>1, BytesEmpty
<1>2. ASSUME NEW U \in D, NEW x \in S \ U PROVE U \cup {x} \in D
  <2>1. Bytes(w, U \cup {x}) = Bytes(w, U) + UnackedSize(w, x)
    BY <1>0, BytesAdd
  <2>2. Bytes(w, S \ U) = UnackedSize(w, x) + Bytes(w, (S \ U) \ {x})
    <3>1. IsFiniteSet(S \ U)
      BY <1>0
    <3>2. QED
      BY <3>1, BytesRemove
  <2>3. (S \ U) \ {x} = S \ (U \cup {x})
    OBVIOUS
  <2>4. Bytes(w, S \ U) = UnackedSize(w, x) + Bytes(w, S \ (U \cup {x}))
    BY <2>2, <2>3
  <2>5. /\ Bytes(w, U) \in Nat /\ Bytes(w, S \ (U \cup {x})) \in Nat /\ UnackedSize(w, x) \in Nat
        /\ Bytes(w, S) = Bytes(w, U) + Bytes(w, S \ U)
    BY <1>0
  <2>6. Bytes(w, S) = Bytes(w, U \cup {x}) + Bytes(w, S \ (U \cup {x}))
    BY <2>1, <2>4, <2>5
  <2>7. QED
    BY <2>6
<1>3. \A U \in SUBSET S : U \in D
  <2>1. D \in SUBSET (SUBSET S)
    OBVIOUS
  <2> HIDE DEF D
  <2>2. QED
    BY <1>1, <1>2, <2>1, SubsetInduction
<1>4. QED
  BY <1>3

\* They depend on nothing but the size and the acknowledgement of each sample.
LEMMA BytesSame ==
  ASSUME NEW w, NEW v, NEW S, IsFiniteSet(S), \A s \in S : UnackedSize(w, s) \in Nat,
         \A s \in S : UnackedSize(v, s) = UnackedSize(w, s)
  PROVE  Bytes(v, S) = Bytes(w, S)
<1> DEFINE D == {U \in SUBSET S : Bytes(v, U) = Bytes(w, U)}
<1>0. \A U \in SUBSET S : IsFiniteSet(U)
  BY FS_Subset
<1>1. {} \in D
  BY BytesEmpty
<1>2. ASSUME NEW U \in D, NEW x \in S \ U PROVE U \cup {x} \in D
  <2>1. Bytes(w, U \cup {x}) = Bytes(w, U) + UnackedSize(w, x)
    BY <1>0, BytesAdd
  <2>2. Bytes(v, U \cup {x}) = Bytes(v, U) + UnackedSize(v, x)
    <3>1. IsFiniteSet(U) /\ (\A s \in U : UnackedSize(v, s) \in Nat) /\ UnackedSize(v, x) \in Nat
      BY <1>0
    <3>2. QED
      BY <3>1, BytesAdd
  <2>3. Bytes(v, U \cup {x}) = Bytes(w, U \cup {x})
    BY <2>1, <2>2
  <2>4. QED
    BY <2>3
<1>3. \A U \in SUBSET S : U \in D
  <2>1. D \in SUBSET (SUBSET S)
    OBVIOUS
  <2> HIDE DEF D
  <2>2. QED
    BY <1>1, <1>2, <2>1, SubsetInduction
<1>4. QED
  BY <1>3

\* Acknowledged samples count nothing.
LEMMA BytesZero ==
  ASSUME NEW w, NEW S, IsFiniteSet(S), \A s \in S : UnackedSize(w, s) = 0
  PROVE  Bytes(w, S) = 0
<1> DEFINE D == {U \in SUBSET S : Bytes(w, U) = 0}
<1>0. \A U \in SUBSET S : IsFiniteSet(U)
  BY FS_Subset
<1>1. {} \in D
  BY BytesEmpty
<1>2. ASSUME NEW U \in D, NEW x \in S \ U PROVE U \cup {x} \in D
  <2>1. Bytes(w, U \cup {x}) = Bytes(w, U) + UnackedSize(w, x)
    <3>1. IsFiniteSet(U) /\ (\A s \in U : UnackedSize(w, s) \in Nat) /\ UnackedSize(w, x) \in Nat
      BY <1>0
    <3>2. QED
      BY <3>1, BytesAdd
  <2>2. Bytes(w, U \cup {x}) = 0
    BY <2>1
  <2>3. QED
    BY <2>2
<1>3. \A U \in SUBSET S : U \in D
  <2>1. D \in SUBSET (SUBSET S)
    OBVIOUS
  <2> HIDE DEF D
  <2>2. QED
    BY <1>1, <1>2, <2>1, SubsetInduction
<1>4. QED
  BY <1>3

-----------------------------------------------------------------------------
(* Maxima, minima and remainders *)

\* The greatest element, if there is one.
LEMMA MaxIs ==
  ASSUME NEW S \in SUBSET Int, NEW x \in S, \A y \in S : y <= x
  PROVE  Max(S) = x
<1>1. \A y \in S : x >= y
  OBVIOUS
<1>2. Max(S) \in S /\ \A y \in S : Max(S) >= y
  BY <1>1 DEF Max
<1>3. Max(S) \in Int /\ Max(S) >= x /\ Max(S) <= x
  BY <1>2
<1>4. QED
  BY <1>3

\* The least element, if there is one.
LEMMA MinIs ==
  ASSUME NEW S \in SUBSET Int, NEW x \in S, \A y \in S : x <= y
  PROVE  Min(S) = x
<1>1. Min(S) \in S /\ \A y \in S : Min(S) <= y
  BY DEF Min
<1>2. Min(S) \in Int /\ Min(S) <= x /\ Min(S) >= x
  BY <1>1
<1>3. QED
  BY <1>2

\* The larger of two numbers.
LEMMA MaxOfTwo ==
  ASSUME NEW a \in Int, NEW b \in Int
  PROVE  Max({a, b}) = IF a >= b THEN a ELSE b
<1>1. CASE a >= b
  <2>1. {a, b} \in SUBSET Int /\ a \in {a, b} /\ \A y \in {a, b} : y <= a
    BY <1>1
  <2>2. QED
    BY <1>1, <2>1, MaxIs
<1>2. CASE ~(a >= b)
  <2>1. {a, b} \in SUBSET Int /\ b \in {a, b} /\ \A y \in {a, b} : y <= b
    BY <1>2
  <2>2. QED
    BY <1>2, <2>1, MaxIs
<1>3. QED
  BY <1>1, <1>2

\* The next slot of a circular array.
LEMMA NextSlot ==
  ASSUME NEW d \in Nat, NEW a \in 0 .. d - 1
  PROVE  (a + 1) % d = IF a + 1 = d THEN 0 ELSE a + 1
  OBVIOUS

\* A slot t places back.
LEMMA SlotBack ==
  ASSUME NEW d \in Nat, NEW a \in 0 .. d - 1, NEW t \in 1 .. d - 1
  PROVE  (a + d - t) % d = IF a >= t THEN a - t ELSE a + d - t
  OBVIOUS

-----------------------------------------------------------------------------
(* Intervals *)

\* The bounds of an interval are numbers.
LEMMA IvNat ==
  ASSUME NEW i \in Ivs
  PROVE  /\ i.min \in Nat /\ i.maxp1 \in Nat /\ 1 <= i.min /\ 1 <= i.maxp1
         /\ i.min <= MaxSeq + 1 /\ i.maxp1 <= MaxSeq + 1 /\ MaxSeq \in Nat
  BY WhcAssumption DEF Ivs

\* An interval made from two bounds.
LEMMA IvMade ==
  ASSUME NEW a \in 1 .. MaxSeq + 1, NEW b \in 1 .. MaxSeq + 1, NEW i, i = [min |-> a, maxp1 |-> b]
  PROVE  i \in Ivs /\ i.min = a /\ i.maxp1 = b
  BY DEF Ivs

\* No two intervals have a number in common.
LEMMA InOneRun ==
  ASSUME NEW P \in SUBSET Seqs, NEW C \in SUBSET Ivs, NEW o \in Ivs, Runs(P, C, o),
         NEW x \in Seqs, NEW i \in C \cup {o}, NEW j \in C \cup {o}, In(x, i), In(x, j)
  PROVE  i = j
<1>1. \A k \in C \cup {o} : k.min \in Nat /\ k.maxp1 \in Nat
  BY IvNat
<1>2. x \in Nat
  BY DEF Seqs
<1>3. /\ \A k \in C : k.maxp1 < o.min
      /\ \A k, l \in C : k # l => k.maxp1 < l.min \/ l.maxp1 < k.min
  BY DEF Runs, BeforeOpen, Apart
<1>4. i.min <= x /\ x < i.maxp1 /\ j.min <= x /\ x < j.maxp1
  BY DEF In
<1>5. CASE i \in C /\ j \in C
  BY <1>1, <1>2, <1>3, <1>4, <1>5
<1>6. CASE i \in C /\ j = o
  BY <1>1, <1>2, <1>3, <1>4, <1>6
<1>7. CASE i = o /\ j \in C
  BY <1>1, <1>2, <1>3, <1>4, <1>7
<1>8. QED
  BY <1>5, <1>6, <1>7

\* The interval ddsrt_avl_lookup_pred_eq finds for a number present is the one it is in.
LEMMA IntvOfIn ==
  ASSUME NEW w, NEW P \in SUBSET Seqs, w.closed \in SUBSET Ivs, w.open \in Ivs,
         Runs(P, w.closed, w.open), NEW s \in P
  PROVE  IntvOf(w, s) \in w.closed \cup {w.open} /\ In(s, IntvOf(w, s))
<1> DEFINE C == w.closed
           o == w.open
<1>0. s \in Seqs /\ s \in Nat
  BY DEF Seqs
<1>1. \A k \in C \cup {o} : k.min \in Nat /\ k.maxp1 \in Nat
  BY IvNat
<1>2. PICK i \in C \cup {o} : In(s, i)
  BY <1>0 DEF Runs, Covers
<1>3. i.min <= s /\ s < i.maxp1
  BY <1>2 DEF In
<1>4. ASSUME NEW j \in C \cup {o}, j.min <= s PROVE j.min <= i.min
  <2>1. i.maxp1 < o.min \/ i = o
    BY DEF Runs, BeforeOpen
  <2>2. CASE j \in C /\ i \in C /\ i # j
    <3>1. i.maxp1 < j.min \/ j.maxp1 < i.min
      BY <2>2 DEF Runs, Apart
    <3>2. j.min < j.maxp1
      BY <2>2 DEF Runs, BeforeOpen
    <3>3. QED
      BY <1>0, <1>1, <1>3, <1>4, <3>1, <3>2
  <2>3. CASE j = o
    BY <1>0, <1>1, <1>3, <1>4, <2>1, <2>3
  <2>4. CASE i = o /\ j \in C
    <3>1. j.min < j.maxp1 /\ j.maxp1 < o.min
      BY <2>4 DEF Runs, BeforeOpen
    <3>2. QED
      BY <1>1, <2>4, <3>1
  <2>5. CASE i = j
    BY <1>1, <2>5
  <2>6. QED
    BY <2>2, <2>3, <2>4, <2>5
<1> DEFINE Q(k) == k.min <= s /\ \A j \in C \cup {o} : j.min <= s => j.min <= k.min
<1>5. IntvOf(w, s) = CHOOSE k \in C \cup {o} : Q(k)
  BY DEF IntvOf, Intervals
<1>6. Q(i)
  BY <1>3, <1>4
<1>7. IntvOf(w, s) \in C \cup {o} /\ Q(IntvOf(w, s))
  <2> HIDE DEF Q
  <2>1. QED
    BY <1>2, <1>5, <1>6, Zenon
<1> DEFINE k == IntvOf(w, s)
<1>8. k \in C \cup {o} /\ k.min <= s /\ i.min <= k.min
  BY <1>3, <1>7
<1> HIDE DEF k
<1>9. k = i
  <2>1. k.min <= i.min
    BY <1>4, <1>8
  <2>2. k.min = i.min
    BY <1>1, <1>8, <2>1
  <2>3. CASE k \in C /\ i \in C
    <3>1. k.min < k.maxp1 /\ i.min < i.maxp1
      BY <2>3 DEF Runs, BeforeOpen
    <3>2. k # i => k.maxp1 < i.min \/ i.maxp1 < k.min
      BY <2>3 DEF Runs, Apart
    <3>3. QED
      BY <1>1, <1>8, <2>2, <3>1, <3>2
  <2>4. CASE k \in C /\ i = o
    <3>1. k.min < k.maxp1 /\ k.maxp1 < o.min
      BY <2>4 DEF Runs, BeforeOpen
    <3>2. QED
      BY <1>1, <2>2, <2>4, <3>1
  <2>5. CASE k = o /\ i \in C
    <3>1. i.min < i.maxp1 /\ i.maxp1 < o.min
      BY <2>5 DEF Runs, BeforeOpen
    <3>2. QED
      BY <1>1, <2>2, <2>5, <3>1
  <2>6. QED
    BY <1>8, <2>3, <2>4, <2>5
<1>10. QED
  BY <1>2, <1>9 DEF k

\* A number taken out of a closed interval.
LEMMA CutClosed ==
  ASSUME NEW P \in SUBSET Seqs, NEW C \in SUBSET Ivs, NEW o \in Ivs, Runs(P, C, o),
         NEW s \in P, NEW i \in C, In(s, i), NEW l, NEW r,
         l = [min |-> i.min, maxp1 |-> s], r = [min |-> s + 1, maxp1 |-> i.maxp1]
  PROVE  /\ (C \ {i}) \cup NonEmpty({l, r}) \in SUBSET Ivs
         /\ Runs(P \ {s}, (C \ {i}) \cup NonEmpty({l, r}), o)
<1> DEFINE B == (C \ {i}) \cup NonEmpty({l, r})
<1>0. s \in Seqs /\ s \in Nat /\ s >= 1 /\ s <= MaxSeq /\ MaxSeq \in Nat
  BY WhcAssumption DEF Seqs
<1>1. \A k \in C \cup {o} : k.min \in Nat /\ k.maxp1 \in Nat
  BY IvNat
<1>2. l \in Ivs /\ l.min = i.min /\ l.maxp1 = s
  BY <1>0, IvMade DEF Ivs
<1>3. r \in Ivs /\ r.min = s + 1 /\ r.maxp1 = i.maxp1
  BY <1>0, IvMade DEF Ivs
<1>4. i.min <= s /\ s < i.maxp1 /\ i.maxp1 < o.min
  BY DEF In, Runs, BeforeOpen
<1>5. \A j \in B : \/ j \in C /\ j # i
                   \/ j = l /\ i.min < s
                   \/ j = r /\ s + 1 < i.maxp1
  BY <1>2, <1>3 DEF NonEmpty
<1>6. /\ \A j \in C : j # i => j \in B
      /\ i.min < s => l \in B
      /\ s + 1 < i.maxp1 => r \in B
  BY <1>2, <1>3 DEF NonEmpty
<1>7. B \in SUBSET Ivs
  BY <1>2, <1>3, <1>5
<1>8. /\ \A j \in C : j.min < j.maxp1 /\ j.maxp1 < o.min
      /\ \A j, k \in C : j # k => j.maxp1 < k.min \/ k.maxp1 < j.min
      /\ o.min <= o.maxp1
  BY DEF Runs, BeforeOpen, Apart
<1>9. \A x \in Seqs : x \in P <=> \E j \in C \cup {o} : In(x, j)
  BY DEF Runs, Covers
<1> HIDE DEF B
<1>10. BeforeOpen(B, o)
  BY <1>0, <1>1, <1>2, <1>3, <1>4, <1>5, <1>8 DEF BeforeOpen
<1>11. Apart(B)
  <2>1. ASSUME NEW j \in B, NEW k \in B, j # k PROVE j.maxp1 < k.min \/ k.maxp1 < j.min
    <3>1. \A m \in C : m # i => m.maxp1 < i.min \/ i.maxp1 < m.min
      BY <1>8
    <3>2. CASE j \in C /\ k \in C
      BY <1>8, <2>1, <3>2
    <3>3. CASE j \in C /\ j # i /\ k \notin C
      BY <1>0, <1>1, <1>2, <1>3, <1>4, <1>5, <3>1, <3>3
    <3>4. CASE k \in C /\ k # i /\ j \notin C
      BY <1>0, <1>1, <1>2, <1>3, <1>4, <1>5, <3>1, <3>4
    <3>5. CASE (j = l \/ j = r) /\ (k = l \/ k = r)
      BY <1>0, <1>2, <1>3, <2>1, <3>5
    <3>6. QED
      <4>1. (j \in C /\ j # i) \/ j = l \/ j = r
        BY <1>5
      <4>2. (k \in C /\ k # i) \/ k = l \/ k = r
        BY <1>5
      <4>3. QED
        BY <3>2, <3>3, <3>4, <3>5, <4>1, <4>2
  <2>2. QED
    BY <2>1 DEF Apart
<1>12. Covers(P \ {s}, B, o)
  <2>1. ASSUME NEW x \in Seqs, x \in P \ {s} PROVE \E j \in B \cup {o} : In(x, j)
    <3>0. x \in Nat /\ x # s
      BY <2>1 DEF Seqs
    <3>1. PICK j \in C \cup {o} : In(x, j)
      BY <1>9, <2>1
    <3>2. CASE j # i
      BY <1>6, <3>1, <3>2
    <3>3. CASE j = i /\ x < s
      <4>1. In(x, l) /\ l \in B
        BY <1>0, <1>1, <1>2, <1>6, <3>0, <3>1, <3>3 DEF In
      <4>2. QED
        BY <4>1
    <3>4. CASE j = i /\ x > s
      <4>1. In(x, r) /\ r \in B
        BY <1>0, <1>1, <1>3, <1>6, <3>0, <3>1, <3>4 DEF In
      <4>2. QED
        BY <4>1
    <3>5. QED
      BY <1>0, <3>0, <3>2, <3>3, <3>4
  <2>2. ASSUME NEW x \in Seqs, NEW j \in B \cup {o}, In(x, j) PROVE x \in P \ {s}
    <3>0. x \in Nat
      BY DEF Seqs
    <3>1. CASE j \in C \cup {o} /\ j # i
      <4>1. x \in P
        BY <1>9, <2>2, <3>1
      <4>2. x # s
        <5>1. SUFFICES ASSUME In(s, j) PROVE FALSE
          BY <2>2
        <5>2. i \in C \cup {o} /\ j \in C \cup {o}
          BY <3>1
        <5>3. i = j
          BY <1>0, <5>1, <5>2, InOneRun
        <5>4. QED
          BY <3>1, <5>3
      <4>3. QED
        BY <4>1, <4>2
    <3>2. CASE j = l \/ j = r
      <4>1. In(x, i) /\ x # s
        BY <1>0, <1>1, <1>2, <1>3, <1>4, <2>2, <3>0, <3>2 DEF In
      <4>2. QED
        BY <1>9, <4>1
    <3>3. o # i
      BY <1>1, <1>4, <1>8
    <3>4. QED
      BY <1>5, <3>1, <3>2, <3>3
  <2>3. QED
    BY <2>1, <2>2 DEF Covers
<1>13. QED
  BY <1>7, <1>8, <1>10, <1>11, <1>12 DEF Runs, B

\* A number taken out of the open interval: its last one, ...
LEMMA CutOpenLast ==
  ASSUME NEW P \in SUBSET Seqs, NEW C \in SUBSET Ivs, NEW o \in Ivs, Runs(P, C, o),
         NEW s \in P, In(s, o), s + 1 = o.maxp1, NEW l, l = [min |-> o.min, maxp1 |-> s]
  PROVE  l \in Ivs /\ Runs(P \ {s}, C, l) /\ l.maxp1 <= o.maxp1
<1>0. s \in Seqs /\ s \in Nat /\ s >= 1 /\ s <= MaxSeq /\ MaxSeq \in Nat
  BY WhcAssumption DEF Seqs
<1>1. \A k \in C \cup {o} : k.min \in Nat /\ k.maxp1 \in Nat
  BY IvNat
<1>2. l \in Ivs /\ l.min = o.min /\ l.maxp1 = s
  BY <1>0, IvMade DEF Ivs
<1>3. o.min <= s
  BY DEF In
<1>4. BeforeOpen(C, l) /\ Apart(C) /\ l.min <= l.maxp1 /\ l.maxp1 <= o.maxp1
  BY <1>0, <1>1, <1>2, <1>3 DEF Runs, BeforeOpen
<1>5. \A x \in Seqs : x \in P <=> \E j \in C \cup {o} : In(x, j)
  BY DEF Runs, Covers
<1>6. ASSUME NEW x \in Seqs, x \in P \ {s} PROVE \E j \in C \cup {l} : In(x, j)
  <2>0. x \in Nat /\ x # s
    BY <1>6 DEF Seqs
  <2>1. PICK j \in C \cup {o} : In(x, j)
    BY <1>5, <1>6
  <2>2. CASE j = o
    <3>1. In(x, l)
      BY <1>0, <1>1, <1>2, <2>0, <2>1, <2>2 DEF In
    <3>2. QED
      BY <3>1
  <2>3. QED
    BY <2>1, <2>2
<1>7. ASSUME NEW x \in Seqs, NEW j \in C \cup {l}, In(x, j) PROVE x \in P \ {s}
  <2>0. x \in Nat
    BY DEF Seqs
  <2>1. CASE j = l
    <3>1. In(x, o) /\ x # s
      BY <1>0, <1>1, <1>2, <1>7, <2>0, <2>1 DEF In
    <3>2. QED
      BY <1>5, <3>1
  <2>2. CASE j \in C
    <3>1. j.maxp1 < o.min
      BY <2>2 DEF Runs, BeforeOpen
    <3>2. x # s
      BY <1>0, <1>1, <1>3, <1>7, <2>0, <2>2, <3>1 DEF In
    <3>3. QED
      BY <1>5, <1>7, <2>2, <3>2
  <2>3. QED
    BY <2>1, <2>2
<1>8. QED
  BY <1>2, <1>4, <1>6, <1>7 DEF Runs, Covers

\* ... or another one: what follows it is the open interval.
LEMMA CutOpenFirst ==
  ASSUME NEW P \in SUBSET Seqs, NEW C \in SUBSET Ivs, NEW o \in Ivs, Runs(P, C, o),
         NEW s \in P, In(s, o), NEW l, l = [min |-> o.min, maxp1 |-> s],
         NEW r, r = [min |-> s + 1, maxp1 |-> o.maxp1]
  PROVE  /\ r \in Ivs /\ C \cup NonEmpty({l}) \in SUBSET Ivs
         /\ Runs(P \ {s}, C \cup NonEmpty({l}), r) /\ r.maxp1 <= o.maxp1
<1> DEFINE B == C \cup NonEmpty({l})
<1>0. s \in Seqs /\ s \in Nat /\ s >= 1 /\ s <= MaxSeq /\ MaxSeq \in Nat
  BY WhcAssumption DEF Seqs
<1>1. \A k \in C \cup {o} : k.min \in Nat /\ k.maxp1 \in Nat
  BY IvNat
<1>2. l \in Ivs /\ l.min = o.min /\ l.maxp1 = s
  BY <1>0, IvMade DEF Ivs
<1>9. r \in Ivs /\ r.min = s + 1 /\ r.maxp1 = o.maxp1
  BY <1>0, IvMade DEF Ivs
<1>3. o.min <= s /\ s < o.maxp1
  BY DEF In
<1>10. /\ \A j \in B : j \in C \/ (j = l /\ o.min < s)
       /\ \A j \in C : j \in B
       /\ o.min < s => l \in B
  BY <1>2 DEF NonEmpty
<1>11. \A j \in C : j.min < j.maxp1 /\ j.maxp1 < o.min
  BY DEF Runs, BeforeOpen
<1>12. \A j, k \in C : j # k => j.maxp1 < k.min \/ k.maxp1 < j.min
  BY DEF Runs, Apart
<1> HIDE DEF B
<1>4. BeforeOpen(B, r) /\ Apart(B) /\ r.min <= r.maxp1 /\ r.maxp1 <= o.maxp1
  <2>1. BeforeOpen(B, r)
    BY <1>0, <1>1, <1>2, <1>3, <1>9, <1>10, <1>11 DEF BeforeOpen
  <2>2. Apart(B)
    BY <1>0, <1>1, <1>2, <1>10, <1>11, <1>12 DEF Apart
  <2>3. QED
    BY <1>0, <1>1, <1>3, <1>9, <2>1, <2>2
<1>5. \A x \in Seqs : x \in P <=> \E j \in C \cup {o} : In(x, j)
  BY DEF Runs, Covers
<1>6. ASSUME NEW x \in Seqs, x \in P \ {s} PROVE \E j \in B \cup {r} : In(x, j)
  <2>0. x \in Nat /\ x # s
    BY <1>6 DEF Seqs
  <2>1. PICK j \in C \cup {o} : In(x, j)
    BY <1>5, <1>6
  <2>2. CASE j = o /\ x < s
    <3>1. In(x, l) /\ l \in B
      BY <1>0, <1>1, <1>2, <1>10, <2>0, <2>1, <2>2 DEF In
    <3>2. QED
      BY <3>1
  <2>3. CASE j = o /\ x > s
    <3>1. In(x, r)
      BY <1>0, <1>1, <1>9, <2>0, <2>1, <2>3 DEF In
    <3>2. QED
      BY <3>1
  <2>4. CASE j \in C
    BY <1>10, <2>1, <2>4
  <2>5. QED
    BY <1>0, <2>0, <2>1, <2>2, <2>3, <2>4
<1>7. ASSUME NEW x \in Seqs, NEW j \in B \cup {r}, In(x, j) PROVE x \in P \ {s}
  <2>0. x \in Nat
    BY DEF Seqs
  <2>1. CASE j = l \/ j = r
    <3>1. In(x, o) /\ x # s
      BY <1>0, <1>1, <1>2, <1>3, <1>7, <1>9, <2>0, <2>1 DEF In
    <3>2. QED
      BY <1>5, <3>1
  <2>2. CASE j \in C
    <3>2. x # s
      BY <1>0, <1>1, <1>3, <1>7, <1>11, <2>0, <2>2 DEF In
    <3>3. QED
      BY <1>5, <1>7, <2>2, <3>2
  <2>3. QED
    BY <1>10, <2>1, <2>2
<1>8. QED
  <2>1. Covers(P \ {s}, B, r)
    BY <1>6, <1>7 DEF Covers
  <2>2. B \in SUBSET Ivs
    BY <1>2, <1>10
  <2>3. QED
    BY <1>4, <1>9, <2>1, <2>2 DEF Runs, B

-----------------------------------------------------------------------------
(* Deleting samples *)

\* The fields of a cache have their types.
LEMMA CacheFields ==
  ASSUME NEW d, NEW w \in Caches(d)
  PROVE  /\ DOMAIN w.node \in SUBSET Seqs /\ IsFiniteSet(DOMAIN w.node)
         /\ w.node \in [DOMAIN w.node -> Nodes] /\ w.node \in NodeMaps
         /\ w.closed \in SUBSET Ivs /\ w.open \in Ivs
         /\ w.maxseq \in Nat /\ w.size \in Int /\ w.unackedBytes \in Int
         /\ w.total \in Nat /\ w.maxDrop \in Nat
         /\ DOMAIN w.idx \in SUBSET Keys /\ w.idx \in IdxMaps(d)
         /\ w.idx \in [DOMAIN w.idx -> [head : Nat, hist : [0 .. d - 1 -> 0 .. MaxSeq]]]
<1>1. /\ w.node \in NodeMaps /\ w.closed \in SUBSET Ivs /\ w.open \in Ivs
      /\ w.maxseq \in Nat /\ w.size \in Int /\ w.unackedBytes \in Int
      /\ w.total \in Nat /\ w.maxDrop \in Nat /\ w.idx \in IdxMaps(d)
  BY DEF Caches
<1>2. DOMAIN w.node \in SUBSET Seqs /\ w.node \in [DOMAIN w.node -> Nodes]
  BY <1>1 DEF NodeMaps
<1>3. DOMAIN w.idx \in SUBSET Keys /\ w.idx \in [DOMAIN w.idx -> [head : Nat, hist : [0 .. d - 1 -> 0 .. MaxSeq]]]
  BY <1>1 DEF IdxMaps
<1>4. IsFiniteSet(DOMAIN w.node)
  <2>1. IsFiniteSet(Seqs)
    BY WhcAssumption, FS_Interval DEF Seqs
  <2>2. QED
    BY <1>2, <2>1, FS_Subset
<1>5. QED
  BY <1>1, <1>2, <1>3, <1>4

\* The head of an instance is one of its slots.
LEMMA HeadIn ==
  ASSUME NEW d, NEW w, Linked(w, d), d > 0, NEW k \in DOMAIN w.idx
  PROVE  w.idx[k].head \in 0 .. d - 1
  BY DEF Linked

\* A sample of an instance is in the slot it names.
LEMMA SampleSlot ==
  ASSUME NEW d, NEW w, Linked(w, d), NEW s \in DOMAIN w.node, w.node[s].inst # NoInst
  PROVE  /\ w.node[s].inst \in DOMAIN w.idx /\ w.node[s].pos \in 0 .. d - 1
         /\ w.idx[w.node[s].inst].hist[w.node[s].pos] = s
  BY DEF Linked

\* The sample in a slot names it.
LEMMA SlotSample ==
  ASSUME NEW d, NEW w, Linked(w, d), NEW k \in DOMAIN w.idx, NEW p \in 0 .. d - 1, w.idx[k].hist[p] # 0
  PROVE  /\ w.idx[k].hist[p] \in DOMAIN w.node
         /\ w.node[w.idx[k].hist[p]].inst = k /\ w.node[w.idx[k].hist[p]].pos = p
  BY DEF Linked

\* The sizes of samples are numbers.
LEMMA SizeNat ==
  ASSUME NEW d, NEW w \in Caches(d)
  PROVE  \A s \in DOMAIN w.node : UnackedSize(w, s) \in Nat
<1>1. \A s \in DOMAIN w.node : w.node[s].size \in Nat
  BY CacheFields DEF Nodes
<1>2. QED
  BY <1>1 DEF UnackedSize

\* An index of the same instances is an index.
LEMMA IdxMade ==
  ASSUME NEW d, NEW K \in SUBSET Keys, NEW x \in [K -> [head : Nat, hist : [0 .. d - 1 -> 0 .. MaxSeq]]]
  PROVE  x \in IdxMaps(d)
  BY DEF IdxMaps

\* A map of samples is one.
LEMMA NodesMade ==
  ASSUME NEW P \in SUBSET Seqs, NEW x \in [P -> Nodes]
  PROVE  x \in NodeMaps
  BY DEF NodeMaps

\* Fields no deletion changes.
Rest(w, v) == v.maxseq = w.maxseq /\ v.total = w.total /\ v.maxDrop = w.maxDrop
\* The index of v is that of w without the samples S.
IdxWithout(w, v, S, d) ==
  /\ DOMAIN v.idx = DOMAIN w.idx
  /\ \A k \in DOMAIN w.idx :
       /\ v.idx[k].head = w.idx[k].head
       /\ \A p \in 0 .. d - 1 :
            v.idx[k].hist[p] = IF w.idx[k].hist[p] \in S THEN 0 ELSE w.idx[k].hist[p]

\* delete_one_sample_from_idx empties the slot of the sample, and changes nothing else.
LEMMA UnindexFields ==
  ASSUME NEW d \in Nat, NEW w \in Caches(d), Linked(w, d), NEW s \in DOMAIN w.node,
         NEW v, v = Unindex(w, s)
  PROVE  /\ v \in Caches(d) /\ Rest(w, v) /\ v.node = w.node /\ v.closed = w.closed /\ v.open = w.open
         /\ v.size = w.size /\ v.unackedBytes = w.unackedBytes
         /\ IdxWithout(w, v, {s}, d)
<1> DEFINE n == w.node[s]
<1>0. s # 0
  BY CacheFields DEF Seqs
<1>1. \A k \in DOMAIN w.idx, p \in 0 .. d - 1 :
        w.idx[k].hist[p] = s <=> n.inst # NoInst /\ k = n.inst /\ p = n.pos
  <2>1. NoInst \notin DOMAIN w.idx
    BY CacheFields, WhcAssumption
  <2>2. QED
    BY <1>0, <2>1 DEF Linked
<1>2. CASE n.inst = NoInst
  <2>1. v = w
    BY <1>2 DEF Unindex
  <2>2. \A k \in DOMAIN w.idx, p \in 0 .. d - 1 : w.idx[k].hist[p] \notin {s}
    BY <1>1, <1>2
  <2>3. QED
    BY <2>1, <2>2 DEF Rest, IdxWithout
<1>3. CASE n.inst # NoInst
  <2> DEFINE x == [w.idx EXCEPT ![n.inst].hist[n.pos] = 0]
  <2>1. v = [w EXCEPT !.idx = x]
    BY <1>3 DEF Unindex
  <2>2. n.inst \in DOMAIN w.idx /\ n.pos \in 0 .. d - 1
    BY <1>3 DEF Linked
  <2>3. w.idx \in [DOMAIN w.idx -> [head : Nat, hist : [0 .. d - 1 -> 0 .. MaxSeq]]]
    BY CacheFields
  <2>4. x \in [DOMAIN w.idx -> [head : Nat, hist : [0 .. d - 1 -> 0 .. MaxSeq]]]
    <3>1. 0 \in 0 .. MaxSeq
      BY WhcAssumption
    <3> DEFINE X == [head : Nat, hist : [0 .. d - 1 -> 0 .. MaxSeq]]
               y == [w.idx[n.inst] EXCEPT !.hist[n.pos] = 0]
    <3>2. w.idx[n.inst] \in X
      BY <2>2, <2>3
    <3>3. y \in X
      BY <2>2, <3>1, <3>2
    <3>4. x = [w.idx EXCEPT ![n.inst] = y]
      OBVIOUS
    <3> HIDE DEF X, y, x, n
    <3>5. QED
      BY <2>2, <2>3, <3>3, <3>4 DEF X
  <2>5. \A k \in DOMAIN w.idx :
          /\ x[k].head = w.idx[k].head
          /\ \A p \in 0 .. d - 1 : x[k].hist[p] = IF k = n.inst /\ p = n.pos THEN 0 ELSE w.idx[k].hist[p]
    BY <2>2, <2>3
  <2>6. x \in IdxMaps(d) /\ DOMAIN x = DOMAIN w.idx
    <3>1. DOMAIN w.idx \in SUBSET Keys
      BY CacheFields
    <3> HIDE DEF x
    <3>2. QED
      BY <2>4, <3>1, IdxMade
  <2>7. \A k \in DOMAIN w.idx :
          /\ x[k].head = w.idx[k].head
          /\ \A p \in 0 .. d - 1 : x[k].hist[p] = IF w.idx[k].hist[p] \in {s} THEN 0 ELSE w.idx[k].hist[p]
    <3> HIDE DEF x, n
    <3>1. QED
      BY <1>1, <1>3, <2>5
  <2> HIDE DEF x
  <2>8. /\ v \in Caches(d) /\ v.idx = x /\ Rest(w, v) /\ v.node = w.node /\ v.closed = w.closed
        /\ v.open = w.open /\ v.size = w.size /\ v.unackedBytes = w.unackedBytes
    BY <2>1, <2>6 DEF Caches, Rest
  <2>9. QED
    BY <2>6, <2>7, <2>8 DEF IdxWithout
<1>4. QED
  BY <1>2, <1>3

\* whc_delete_one_intv takes the number out of the intervals, and changes nothing else.
LEMMA CutFields ==
  ASSUME NEW d, NEW w \in Caches(d), Runs(DOMAIN w.node, w.closed, w.open), NEW s \in DOMAIN w.node,
         NEW v, v = CutInterval(w, s)
  PROVE  /\ v \in Caches(d) /\ Rest(w, v) /\ v.node = w.node /\ v.idx = w.idx
         /\ v.size = w.size /\ v.unackedBytes = w.unackedBytes
         /\ Runs(DOMAIN w.node \ {s}, v.closed, v.open) /\ v.open.maxp1 <= w.open.maxp1
<1> DEFINE P == DOMAIN w.node
           i == IntvOf(w, s)
           l == [min |-> i.min, maxp1 |-> s]
           r == [min |-> s + 1, maxp1 |-> i.maxp1]
<1>1. P \in SUBSET Seqs /\ w.closed \in SUBSET Ivs /\ w.open \in Ivs /\ w.open.maxp1 \in Nat
  BY CacheFields, IvNat
<1>2. i \in w.closed \cup {w.open} /\ In(s, i)
  BY <1>1, IntvOfIn
<1>3. v = IF i # w.open THEN [w EXCEPT !.closed = (w.closed \ {i}) \cup NonEmpty({l, r})]
          ELSE IF s # i.min /\ s + 1 = i.maxp1 THEN [w EXCEPT !.open = l]
          ELSE [w EXCEPT !.open = r, !.closed = w.closed \cup NonEmpty({l})]
  BY DEF CutInterval
<1> HIDE DEF i
<1>4. CASE i # w.open
  <2>1. /\ (w.closed \ {i}) \cup NonEmpty({l, r}) \in SUBSET Ivs
        /\ Runs(P \ {s}, (w.closed \ {i}) \cup NonEmpty({l, r}), w.open)
    BY <1>1, <1>2, <1>4, CutClosed
  <2> HIDE DEF l, r
  <2>2. /\ v \in Caches(d) /\ v.closed = (w.closed \ {i}) \cup NonEmpty({l, r}) /\ v.open = w.open
        /\ v.node = w.node /\ v.idx = w.idx /\ Rest(w, v)
        /\ v.size = w.size /\ v.unackedBytes = w.unackedBytes
    BY <1>3, <1>4, <2>1 DEF Caches, Rest
  <2>3. QED
    BY <1>1, <2>1, <2>2
<1>5. CASE i = w.open /\ s # i.min /\ s + 1 = i.maxp1
  <2>1. l \in Ivs /\ Runs(P \ {s}, w.closed, l) /\ l.maxp1 <= w.open.maxp1
    BY <1>1, <1>2, <1>5, CutOpenLast
  <2> HIDE DEF l, r
  <2>2. /\ v \in Caches(d) /\ v.closed = w.closed /\ v.open = l
        /\ v.node = w.node /\ v.idx = w.idx /\ Rest(w, v)
        /\ v.size = w.size /\ v.unackedBytes = w.unackedBytes
    BY <1>3, <1>5, <2>1 DEF Caches, Rest
  <2>3. QED
    BY <2>1, <2>2
<1>6. CASE i = w.open /\ ~(s # i.min /\ s + 1 = i.maxp1)
  <2>1. /\ r \in Ivs /\ w.closed \cup NonEmpty({l}) \in SUBSET Ivs
        /\ Runs(P \ {s}, w.closed \cup NonEmpty({l}), r) /\ r.maxp1 <= w.open.maxp1
    <3>1. /\ In(s, w.open) /\ l = [min |-> w.open.min, maxp1 |-> s]
          /\ r = [min |-> s + 1, maxp1 |-> w.open.maxp1]
      BY <1>2, <1>6
    <3> HIDE DEF l, r
    <3>2. QED
      BY <1>1, <3>1, CutOpenFirst
  <2> HIDE DEF l, r
  <2>2. /\ v \in Caches(d) /\ v.closed = w.closed \cup NonEmpty({l}) /\ v.open = r
        /\ v.node = w.node /\ v.idx = w.idx /\ Rest(w, v)
        /\ v.size = w.size /\ v.unackedBytes = w.unackedBytes
    BY <1>3, <1>6, <2>1 DEF Caches, Rest
  <2>3. QED
    BY <2>1, <2>2
<1>7. QED
  BY <1>4, <1>5, <1>6

\* v is the cache w with the samples S deleted.
Deleted(w, v, S, d) ==
  /\ Good(v, d)
  /\ DOMAIN v.node = DOMAIN w.node \ S
  /\ \A t \in DOMAIN v.node : v.node[t] = w.node[t]
  /\ Rest(w, v) /\ IdxWithout(w, v, S, d)
  /\ v.open.maxp1 <= w.open.maxp1

\* whc_delete_one deletes one sample.
LEMMA DeleteOneDeletes ==
  ASSUME NEW d \in Nat, NEW w, Good(w, d), NEW s \in DOMAIN w.node, NEW v, v = DeleteOne(w, s)
  PROVE  Deleted(w, v, {s}, d)
<1> DEFINE u == Unindex(w, s)
           c == CutInterval(u, s)
           b == [c EXCEPT !.unackedBytes = c.unackedBytes - UnackedSize(w, s)]
<1>0. w \in Caches(d) /\ Linked(w, d) /\ Runs(DOMAIN w.node, w.closed, w.open) /\ Counted(w)
  BY DEF Good
<1>1. /\ u \in Caches(d) /\ Rest(w, u) /\ u.node = w.node /\ u.closed = w.closed /\ u.open = w.open
      /\ u.size = w.size /\ u.unackedBytes = w.unackedBytes
      /\ IdxWithout(w, u, {s}, d)
  BY <1>0, UnindexFields
<1> HIDE DEF u
<1>2. /\ c \in Caches(d) /\ Rest(u, c) /\ c.node = u.node /\ c.idx = u.idx
      /\ c.size = u.size /\ c.unackedBytes = u.unackedBytes
      /\ Runs(DOMAIN u.node \ {s}, c.closed, c.open) /\ c.open.maxp1 <= u.open.maxp1
  BY <1>0, <1>1, CutFields
<1> HIDE DEF c
<1>3. UnackedSize(w, s) \in Nat
  BY <1>0, SizeNat
<1>4. /\ b \in Caches(d) /\ Rest(c, b) /\ b.node = c.node /\ b.idx = c.idx /\ b.size = c.size
      /\ b.closed = c.closed /\ b.open = c.open /\ b.unackedBytes = c.unackedBytes - UnackedSize(w, s)
  <2>1. c.unackedBytes - UnackedSize(w, s) \in Int
    BY <1>2, <1>3, CacheFields
  <2>2. QED
    BY <1>2, <2>1 DEF Caches, Rest
<1>5. v = Forget(b, s)
  BY DEF DeleteOne, b, c, u
<1> HIDE DEF b
<1> DEFINE N == Restrict(b.node, DOMAIN b.node \ {s})
<1>6. N \in NodeMaps /\ DOMAIN N = DOMAIN w.node \ {s} /\ \A t \in DOMAIN N : N[t] = w.node[t]
  <2>1. b.node = w.node
    BY <1>1, <1>2, <1>4
  <2>2. w.node \in [DOMAIN w.node -> Nodes] /\ DOMAIN w.node \ {s} \in SUBSET Seqs
    BY <1>0, CacheFields
  <2>3. N = [t \in DOMAIN w.node \ {s} |-> w.node[t]]
    BY <2>1 DEF Restrict
  <2>4. N \in [DOMAIN w.node \ {s} -> Nodes]
    BY <2>2, <2>3
  <2> HIDE DEF N
  <2>5. QED
    BY <2>2, <2>3, <2>4, NodesMade
<1>7. v = [b EXCEPT !.node = N, !.size = b.size - 1]
  BY <1>5 DEF Forget
<1> HIDE DEF N
<1>8. /\ v \in Caches(d) /\ v.node = N /\ v.size = b.size - 1 /\ Rest(b, v) /\ v.idx = b.idx
      /\ v.closed = b.closed /\ v.open = b.open /\ v.unackedBytes = b.unackedBytes
  <2>1. b.size - 1 \in Int
    BY <1>4, CacheFields
  <2>2. QED
    BY <1>4, <1>6, <1>7, <2>1 DEF Caches, Rest
<1>9. /\ DOMAIN v.node = DOMAIN w.node \ {s} /\ \A t \in DOMAIN v.node : v.node[t] = w.node[t]
      /\ v.size = w.size - 1 /\ v.unackedBytes = w.unackedBytes - UnackedSize(w, s)
  BY <1>1, <1>2, <1>4, <1>6, <1>8
<1>10. Rest(w, v) /\ IdxWithout(w, v, {s}, d) /\ v.open.maxp1 <= w.open.maxp1
  <2>1. Rest(w, v)
    BY <1>1, <1>2, <1>4, <1>8 DEF Rest
  <2>2. IdxWithout(w, v, {s}, d)
    BY <1>1, <1>2, <1>4, <1>8 DEF IdxWithout
  <2>3. QED
    BY <1>1, <1>2, <1>4, <1>8, <2>1, <2>2
<1>11. Runs(DOMAIN v.node, v.closed, v.open)
  BY <1>1, <1>2, <1>4, <1>8, <1>9
<1>12. Linked(v, d)
  <2>1. s # 0
    BY <1>0, CacheFields DEF Seqs
  <2>2. ASSUME NEW t \in DOMAIN v.node, v.node[t].inst # NoInst
        PROVE  /\ v.node[t].inst \in DOMAIN v.idx /\ v.node[t].pos \in 0 .. d - 1
               /\ v.idx[v.node[t].inst].hist[v.node[t].pos] = t
    <3>1. v.node[t] = w.node[t] /\ t \in DOMAIN w.node /\ t # s
      BY <1>9
    <3>2. /\ w.node[t].inst \in DOMAIN w.idx /\ w.node[t].pos \in 0 .. d - 1
          /\ w.idx[w.node[t].inst].hist[w.node[t].pos] = t
      BY <1>0, <2>2, <3>1 DEF Linked
    <3>3. QED
      BY <1>10, <3>1, <3>2 DEF IdxWithout
  <2>3. ASSUME NEW k \in DOMAIN v.idx, NEW p \in 0 .. d - 1, v.idx[k].hist[p] # 0
        PROVE  LET t == v.idx[k].hist[p] IN t \in DOMAIN v.node /\ v.node[t].inst = k /\ v.node[t].pos = p
    <3>1. k \in DOMAIN w.idx /\ v.idx[k].hist[p] = w.idx[k].hist[p] /\ v.idx[k].hist[p] # s
      BY <1>10, <2>3 DEF IdxWithout
    <3>2. LET t == w.idx[k].hist[p] IN t \in DOMAIN w.node /\ w.node[t].inst = k /\ w.node[t].pos = p
      BY <1>0, <2>3, <3>1 DEF Linked
    <3>3. QED
      BY <1>9, <3>1, <3>2
  <2>4. d > 0 => \A k \in DOMAIN v.idx : v.idx[k].head \in 0 .. d - 1
    BY <1>0, <1>10 DEF Linked, IdxWithout
  <2>5. QED
    BY <2>2, <2>3, <2>4 DEF Linked
<1>13. Counted(v)
  <2>1. IsFiniteSet(DOMAIN w.node)
    BY <1>0, CacheFields
  <2>2. v.size = Cardinality(DOMAIN v.node)
    BY <1>0, <1>9, <2>1, FS_RemoveElement DEF Counted
  <2>3. Bytes(w, DOMAIN w.node) = UnackedSize(w, s) + Bytes(w, DOMAIN w.node \ {s})
    BY <1>0, <2>1, SizeNat, BytesRemove
  <2>4. IsFiniteSet(DOMAIN w.node \ {s})
    BY <2>1, FS_RemoveElement
  <2>5. \A t \in DOMAIN w.node \ {s} : UnackedSize(v, t) = UnackedSize(w, t) /\ UnackedSize(w, t) \in Nat
    <3>1. \A t \in DOMAIN w.node : UnackedSize(w, t) \in Nat
      BY <1>0, SizeNat
    <3>2. QED
      BY <1>9, <3>1 DEF UnackedSize
  <2>6. Bytes(v, DOMAIN w.node \ {s}) = Bytes(w, DOMAIN w.node \ {s}) /\ Bytes(w, DOMAIN w.node \ {s}) \in Nat
    BY <2>4, <2>5, BytesSame, BytesNat
  <2>7. w.unackedBytes = Bytes(w, DOMAIN w.node)
    BY <1>0 DEF Counted
  <2>8. v.unackedBytes = Bytes(v, DOMAIN v.node)
    BY <1>3, <1>9, <2>3, <2>6, <2>7
  <2>9. QED
    BY <2>2, <2>8 DEF Counted
<1>14. QED
  BY <1>8, <1>9, <1>10, <1>11, <1>12, <1>13 DEF Deleted, Good

\* Nothing is deleted.
LEMMA DeletedNothing ==
  ASSUME NEW d, NEW w, Good(w, d) PROVE Deleted(w, w, {}, d)
<1>1. w.open.maxp1 <= w.open.maxp1
  BY CacheFields, IvNat DEF Good
<1>2. QED
  BY <1>1 DEF Deleted, Rest, IdxWithout

\* Samples are deleted, and then more.
LEMMA DeletedMore ==
  ASSUME NEW d, NEW w, Good(w, d), NEW v, NEW u, NEW S, NEW T, Deleted(w, v, S, d), Deleted(v, u, T, d)
  PROVE  Deleted(w, u, S \cup T, d)
<1>1. Good(u, d) /\ DOMAIN u.node = DOMAIN w.node \ (S \cup T) /\ \A t \in DOMAIN u.node : u.node[t] = w.node[t]
  BY DEF Deleted
<1>2. Rest(w, u)
  BY DEF Deleted, Rest
<1>3. IdxWithout(w, u, S \cup T, d)
  BY DEF Deleted, IdxWithout
<1>4. u.open.maxp1 <= w.open.maxp1
  <2>1. u.open.maxp1 \in Nat /\ v.open.maxp1 \in Nat /\ w.open.maxp1 \in Nat
    BY CacheFields, IvNat DEF Good, Deleted
  <2>2. QED
    BY <2>1 DEF Deleted
<1>5. QED
  BY <1>1, <1>2, <1>3, <1>4 DEF Deleted

\* The function with which DeleteSet walks the numbers.
WalkStep(w, S, f, s) == IF s = 0 THEN w ELSE IF s \in S THEN DeleteOne(f[s - 1], s) ELSE f[s - 1]
Walk(w, S, f) == f = [s \in 0 .. MaxSeq |-> WalkStep(w, S, f, s)]
Walked(w, S) == CHOOSE f : Walk(w, S, f)

\* DeleteSet is its value at the last number.
LEMMA DeleteSetIsWalk == ASSUME NEW w, NEW S PROVE DeleteSet(w, S) = Walked(w, S)[MaxSeq]
  BY DEF DeleteSet, Walked, Walk, WalkStep

\* There is such a function.
LEMMA WalkExists == ASSUME NEW w, NEW S PROVE \E f : Walk(w, S, f)
<1> DEFINE A == {n \in Nat : \E f : f = [s \in 0 .. n |-> WalkStep(w, S, f, s)]}
<1>1. 0 \in A
  <2> DEFINE g == [s \in 0 .. 0 |-> w]
  <2>1. \A s \in 0 .. 0 : WalkStep(w, S, g, s) = w
    BY DEF WalkStep
  <2>2. g = [s \in 0 .. 0 |-> WalkStep(w, S, g, s)]
    BY <2>1
  <2> HIDE DEF g
  <2>3. QED
    BY <2>2
<1>2. ASSUME NEW n \in A PROVE n + 1 \in A
  <2>1. PICK g : g = [s \in 0 .. n |-> WalkStep(w, S, g, s)]
    OBVIOUS
  <2>0. n \in Nat /\ n + 1 \in Nat
    OBVIOUS
  <2> HIDE DEF A
  <2> DEFINE h == [s \in 0 .. n + 1 |-> WalkStep(w, S, g, s)]
  <2>2. \A s \in 0 .. n : h[s] = g[s]
    <3>1. \A s \in 0 .. n : g[s] = WalkStep(w, S, g, s)
      BY <2>1
    <3>2. \A s \in 0 .. n : s \in 0 .. n + 1
      BY <2>0
    <3>3. QED
      BY <3>1, <3>2
  <2>3. \A s \in 0 .. n + 1 : s # 0 => s - 1 \in 0 .. n
    BY <2>0
  <2>4. \A s \in 0 .. n + 1 : WalkStep(w, S, h, s) = WalkStep(w, S, g, s)
    <3> HIDE DEF h
    <3>1. QED
      BY <2>2, <2>3 DEF WalkStep
  <2>5. h = [s \in 0 .. n + 1 |-> WalkStep(w, S, h, s)]
    BY <2>4
  <2>6. \E f : f = [s \in 0 .. n + 1 |-> WalkStep(w, S, f, s)]
    <3> HIDE DEF h
    <3> WITNESS h
    <3>1. QED
      BY <2>5
  <2>7. QED
    BY <2>0, <2>6, Zenon DEF A
<1>3. \A n \in Nat : n \in A
  <2>1. A \in SUBSET Nat
    OBVIOUS
  <2> HIDE DEF A
  <2>2. QED
    BY <1>1, <1>2, <2>1, SetInduction
<1>4. MaxSeq \in A
  BY <1>3, WhcAssumption
<1>5. QED
  BY <1>4 DEF Walk

\* So the walk does what it says.
LEMMA WalkOf ==
  ASSUME NEW w, NEW S, NEW s \in 0 .. MaxSeq
  PROVE  Walked(w, S)[s] = WalkStep(w, S, Walked(w, S), s)
<1>1. Walk(w, S, Walked(w, S))
  BY WalkExists, Zenon DEF Walked
<1>2. QED
  BY <1>1 DEF Walk

\* DeleteSet deletes a set of samples.
LEMMA DeleteSetDeletes ==
  ASSUME NEW d \in Nat, NEW w, Good(w, d), NEW S \in SUBSET (DOMAIN w.node), NEW v, v = DeleteSet(w, S)
  PROVE  Deleted(w, v, S, d)
<1> DEFINE f == Walked(w, S)
           T(n) == {s \in S : s <= n}
           A == {n \in Nat : n <= MaxSeq => Deleted(w, f[n], T(n), d)}
<1>0. MaxSeq \in Nat /\ S \in SUBSET Seqs /\ S \in SUBSET (1 .. MaxSeq)
  BY WhcAssumption, CacheFields DEF Good, Seqs
<1>1. \A s \in 0 .. MaxSeq : f[s] = IF s = 0 THEN w ELSE IF s \in S THEN DeleteOne(f[s - 1], s) ELSE f[s - 1]
  BY WalkOf DEF WalkStep
<1> HIDE DEF f
<1>2. 0 \in A
  <2>1. T(0) = {}
    BY <1>0
  <2>2. f[0] = w
    BY <1>0, <1>1
  <2>3. Deleted(w, f[0], T(0), d)
    BY <2>1, <2>2, DeletedNothing
  <2>4. QED
    BY <2>3
<1>3. ASSUME NEW n \in A PROVE n + 1 \in A
  <2>0. n \in Nat /\ n + 1 \in Nat /\ (n <= MaxSeq => Deleted(w, f[n], T(n), d))
    OBVIOUS
  <2> HIDE DEF A
  <2>1. SUFFICES ASSUME n + 1 <= MaxSeq PROVE Deleted(w, f[n + 1], T(n + 1), d)
    BY <2>0 DEF A
  <2>2. /\ Deleted(w, f[n], T(n), d) /\ n + 1 \in 0 .. MaxSeq /\ n + 1 # 0 /\ (n + 1) - 1 = n
    BY <1>0, <2>0, <2>1
  <2>3. f[n + 1] = IF n + 1 \in S THEN DeleteOne(f[n], n + 1) ELSE f[n]
    BY <1>1, <2>2
  <2>4. CASE n + 1 \notin S
    <3>1. T(n + 1) = T(n)
      BY <1>0, <2>0, <2>4
    <3>2. QED
      BY <2>2, <2>3, <2>4, <3>1
  <2>5. CASE n + 1 \in S
    <3>1. T(n + 1) = T(n) \cup {n + 1}
      BY <1>0, <2>0, <2>5
    <3>2. n + 1 \notin T(n)
      BY <2>0
    <3> HIDE DEF T
    <3>3. Good(f[n], d) /\ n + 1 \in DOMAIN f[n].node
      BY <2>2, <2>5, <3>2 DEF Deleted
    <3>4. Deleted(f[n], f[n + 1], {n + 1}, d)
      BY <2>3, <2>5, <3>3, DeleteOneDeletes
    <3>5. QED
      BY <2>2, <3>1, <3>4, DeletedMore
  <2>6. QED
    BY <2>4, <2>5
<1>4. MaxSeq \in A
  <2>1. A \in SUBSET Nat
    OBVIOUS
  <2> HIDE DEF A
  <2>2. QED
    BY <1>0, <1>2, <1>3, <2>1, SetInduction
<1>5. Deleted(w, f[MaxSeq], T(MaxSeq), d)
  BY <1>0, <1>4
<1>6. T(MaxSeq) = S
  BY <1>0
<1>7. QED
  BY <1>5, <1>6, DeleteSetIsWalk DEF f

-----------------------------------------------------------------------------
(* What the intervals say *)

\* There is only one highest number.
LEMMA TopOnce ==
  ASSUME NEW d, NEW w \in Caches(d), NEW x, NEW y, IsTop(w, x), IsTop(w, y) PROVE x = y
<1>1. DOMAIN w.node \in SUBSET Nat /\ \A s \in DOMAIN w.node : s >= 1
  BY CacheFields DEF Seqs
<1>2. x \in Nat /\ y \in Nat
  BY <1>1 DEF IsTop
<1>3. QED
  BY <1>1, <1>2 DEF IsTop

\* It is the maximum.
LEMMA TopIsMax ==
  ASSUME NEW d, NEW w \in Caches(d), NEW x, IsTop(w, x) PROVE x = Max(DOMAIN w.node \cup {0})
<1>1. DOMAIN w.node \in SUBSET Nat
  BY CacheFields DEF Seqs
<1>2. /\ DOMAIN w.node \cup {0} \in SUBSET Int /\ x \in DOMAIN w.node \cup {0}
      /\ \A y \in DOMAIN w.node \cup {0} : y <= x
  BY <1>1 DEF IsTop
<1>3. QED
  BY <1>2, MaxIs

\* whc_findmax_procedurally finds it.
LEMMA FindMaxTop ==
  ASSUME NEW d, NEW w, Good(w, d) PROVE IsTop(w, FindMaxProcedurally(w))
<1> DEFINE P == DOMAIN w.node
           C == w.closed
           o == w.open
<1>0. /\ w \in Caches(d) /\ Runs(P, C, o) /\ w.size = Cardinality(P) /\ P \in SUBSET Seqs /\ IsFiniteSet(P)
      /\ C \in SUBSET Ivs /\ o \in Ivs
  BY CacheFields DEF Good, Counted
<1>1. /\ \A k \in C \cup {o} : k.min \in Nat /\ k.maxp1 \in Nat /\ 1 <= k.min /\ k.maxp1 <= MaxSeq + 1
      /\ MaxSeq \in Nat /\ P \in SUBSET Nat
  BY <1>0, IvNat, WhcAssumption DEF Seqs
<1>2. /\ \A x \in P : \E i \in C \cup {o} : i.min <= x /\ x < i.maxp1
      /\ \A x \in Seqs : \A i \in C \cup {o} : i.min <= x /\ x < i.maxp1 => x \in P
  BY <1>0 DEF Runs, Covers, In
<1>3. \A i \in C : i.min < i.maxp1 /\ i.maxp1 < o.min
  BY <1>0 DEF Runs, BeforeOpen
<1> DEFINE M == {i.maxp1 : i \in C}
<1>4. FindMaxProcedurally(w) = IF w.size = 0 THEN 0 ELSE IF o.min < o.maxp1 THEN o.maxp1 - 1 ELSE Max(M) - 1
  BY DEF FindMaxProcedurally
<1>5. CASE w.size = 0
  <2>1. P = {}
    BY <1>0, <1>5, FS_EmptySet
  <2>2. QED
    BY <1>4, <1>5, <2>1 DEF IsTop
<1>6. CASE w.size # 0 /\ o.min < o.maxp1
  <2> DEFINE x == o.maxp1 - 1
  <2>1. x \in Seqs /\ o.min <= x /\ x < o.maxp1
    BY <1>1, <1>6 DEF Seqs
  <2>2. x \in P
    BY <1>2, <2>1
  <2>3. ASSUME NEW y \in P PROVE y <= x
    <3>1. PICK i \in C \cup {o} : i.min <= y /\ y < i.maxp1
      BY <1>2
    <3>2. y \in Nat
      BY <1>1
    <3>3. QED
      BY <1>1, <1>3, <1>6, <3>1, <3>2
  <2>4. FindMaxProcedurally(w) = x
    BY <1>4, <1>6
  <2> HIDE DEF x
  <2>5. QED
    BY <2>2, <2>3, <2>4 DEF IsTop
<1>7. CASE w.size # 0 /\ ~(o.min < o.maxp1)
  <2>1. PICK z \in P : TRUE
    BY <1>0, <1>7, FS_EmptySet
  <2>2. \A y \in P : \E i \in C : i.min <= y /\ y < i.maxp1
    <3>1. SUFFICES ASSUME NEW y \in P PROVE \E i \in C : i.min <= y /\ y < i.maxp1
      OBVIOUS
    <3>2. PICK i \in C \cup {o} : i.min <= y /\ y < i.maxp1
      BY <1>2
    <3>3. i # o
      BY <1>1, <1>7, <3>2
    <3>4. QED
      BY <3>2, <3>3
  <2>3. PICK i \in C : i.min <= z /\ z < i.maxp1
    BY <2>2
  <2>4. M \in SUBSET (0 .. MaxSeq + 1) /\ M # {} /\ MaxSeq + 1 \in Nat
    BY <1>1, <2>3
  <2>5. PICK m \in M : \A y \in M : y <= m
    BY <2>4, GreatestOfBounded
  <2>6. m = Max(M)
    <3>1. M \in SUBSET Int
      BY <2>4
    <3> HIDE DEF M
    <3>2. QED
      BY <2>5, <3>1, MaxIs
  <2>7. PICK j \in C : j.maxp1 = m
    OBVIOUS
  <2>8. m - 1 \in Seqs /\ j.min <= m - 1 /\ m - 1 < j.maxp1
    BY <1>1, <1>3, <2>7 DEF Seqs
  <2>9. m - 1 \in P
    BY <1>2, <2>8
  <2>10. ASSUME NEW y \in P PROVE y <= m - 1
    <3>1. PICK k \in C : k.min <= y /\ y < k.maxp1
      BY <2>2
    <3>2. y \in Nat /\ k.maxp1 <= m /\ k.maxp1 \in Nat /\ m \in Nat
      BY <1>1, <2>5, <2>7
    <3>3. QED
      BY <3>1, <3>2
  <2>11. FindMaxProcedurally(w) = m - 1
    BY <1>4, <1>7, <2>6
  <2>12. QED
    BY <2>9, <2>10, <2>11 DEF IsTop
<1>8. QED
  BY <1>5, <1>6, <1>7

\* The samples after s.
After(w, s) == {t \in DOMAIN w.node : t > s}

\* A non-empty set of samples has a least one.
LEMMA LeastSample ==
  ASSUME NEW d, NEW w \in Caches(d), NEW T \in SUBSET (DOMAIN w.node), T # {}
  PROVE  Min(T) \in T /\ \A t \in T : Min(T) <= t
<1>1. T \in SUBSET Nat /\ T \in SUBSET Int
  BY CacheFields DEF Seqs
<1>2. PICK n \in T : \A k \in T : n <= k
  BY <1>1, LeastOfNat
<1>3. Min(T) = n
  BY <1>1, <1>2, MinIs
<1>4. QED
  BY <1>2, <1>3

\* find_nextseq_intv finds the next sample.
LEMMA NextSeqIs ==
  ASSUME NEW d, NEW w, Good(w, d), IsTop(w, w.maxseq), NEW s \in 0 .. MaxSeq
  PROVE  FindNextSeq(w, s) = IF After(w, s) = {} THEN 0 ELSE Min(After(w, s))
<1> DEFINE P == DOMAIN w.node
           C == w.closed
           o == w.open
           A == After(w, s)
<1>0. /\ w \in Caches(d) /\ Runs(P, C, o) /\ P \in SUBSET Seqs
      /\ C \in SUBSET Ivs /\ o \in Ivs
  BY CacheFields DEF Good
<1>1. /\ \A k \in C \cup {o} : k.min \in Nat /\ k.maxp1 \in Nat /\ 1 <= k.min /\ k.maxp1 <= MaxSeq + 1
      /\ MaxSeq \in Nat /\ P \in SUBSET Nat /\ s \in Nat
  BY <1>0, IvNat, WhcAssumption DEF Seqs
<1>2. /\ \A x \in P : \E i \in C \cup {o} : i.min <= x /\ x < i.maxp1
      /\ \A x \in Seqs : \A i \in C \cup {o} : i.min <= x /\ x < i.maxp1 => x \in P
  BY <1>0 DEF Runs, Covers, In
<1>3. /\ \A i \in C : i.min < i.maxp1 /\ i.maxp1 < o.min
      /\ \A i, j \in C : i # j => i.maxp1 < j.min \/ j.maxp1 < i.min
      /\ o.min <= o.maxp1
  BY <1>0 DEF Runs, BeforeOpen, Apart
<1>4. A = {t \in P : t > s} /\ A \in SUBSET P
  BY DEF After
<1>5. CASE s \in P
  <2>1. FindNextSeq(w, s) = IF s = w.maxseq THEN 0 ELSE Min(A)
    BY <1>5 DEF FindNextSeq, Present, After
  <2>2. s = w.maxseq <=> A = {}
    <3>1. w.maxseq \in P
      BY <1>1, <1>5 DEF IsTop
    <3>2. s <= w.maxseq /\ w.maxseq \in Nat
      BY <1>1, <1>5, <3>1 DEF IsTop
    <3>3. s # w.maxseq => w.maxseq \in A
      BY <1>1, <1>4, <3>1, <3>2
    <3>4. \A t \in P : t <= w.maxseq
      BY DEF IsTop
    <3>5. s = w.maxseq => A = {}
      BY <1>1, <1>4, <3>4
    <3>6. QED
      BY <3>3, <3>5
  <2>3. QED
    BY <2>1, <2>2
<1>6. CASE s \notin P
  <2> DEFINE L == {i \in C \cup {o} : i.min >= s}
             Q(i) == \A j \in L : i.min <= j.min
             c == CHOOSE i \in L : Q(i)
  <2>1. FindNextSeq(w, s) = IF L = {} THEN 0 ELSE IF c.min < c.maxp1 THEN c.min ELSE 0
    BY <1>6 DEF FindNextSeq, Present, Succ, Intervals
  <2>2. \A t \in A : \E i \in L : i.min <= t /\ t < i.maxp1
    <3>1. SUFFICES ASSUME NEW t \in A PROVE \E i \in L : i.min <= t /\ t < i.maxp1
      OBVIOUS
    <3>2. PICK i \in C \cup {o} : i.min <= t /\ t < i.maxp1
      BY <1>2, <1>4
    <3>3. t \in Nat /\ t > s /\ t \in Seqs
      BY <1>0, <1>1, <1>4
    <3>4. i.min >= s
      <4>1. SUFFICES ASSUME i.min < s PROVE FALSE
        BY <1>1
      <4>2. s \in Seqs
        BY <1>1, <3>3, <4>1 DEF Seqs
      <4>3. s \in P
        BY <1>1, <1>2, <3>2, <3>3, <4>1, <4>2
      <4>4. QED
        BY <1>6, <4>3
    <3>5. QED
      BY <3>2, <3>4
  <2>3. CASE L = {}
    <3>1. A = {}
      BY <2>2, <2>3
    <3>2. QED
      BY <2>1, <2>3, <3>1
  <2>4. CASE L # {}
    <3>1. \E i \in L : Q(i)
      <4> DEFINE M == {i.min : i \in L}
      <4>1. M \in SUBSET Nat /\ M # {}
        BY <1>1, <2>4
      <4>2. PICK m \in M : \A k \in M : m <= k
        BY <4>1, LeastOfNat
      <4>3. PICK i \in L : i.min = m
        OBVIOUS
      <4>4. \A j \in L : m <= j.min
        BY <4>2
      <4>5. QED
        BY <4>3, <4>4
    <3>2. c \in L /\ Q(c)
      <4> HIDE DEF Q, L
      <4>1. QED
        BY <3>1, Zenon
    <3>3. c \in C \cup {o} /\ c.min >= s /\ \A j \in L : c.min <= j.min
      BY <3>2
    <3> HIDE DEF c
    <3>4. CASE c.min < c.maxp1
      <4>1. c.min \in Seqs
        BY <1>1, <3>3, <3>4 DEF Seqs
      <4>2. c.min \in P
        BY <1>1, <1>2, <3>3, <3>4, <4>1
      <4>3. c.min # s
        BY <1>6, <4>2
      <4>4. c.min \in A
        BY <1>1, <1>4, <3>3, <4>2, <4>3
      <4>5. \A t \in A : c.min <= t
        <5>1. SUFFICES ASSUME NEW t \in A PROVE c.min <= t
          OBVIOUS
        <5>2. PICK i \in L : i.min <= t /\ t < i.maxp1
          BY <2>2
        <5>3. t \in Nat /\ i.min \in Nat /\ c.min \in Nat /\ c.min <= i.min
          BY <1>1, <1>4, <3>3
        <5>4. QED
          BY <5>2, <5>3
      <4>6. A \in SUBSET Int
        BY <1>1, <1>4
      <4> HIDE DEF A
      <4>7. Min(A) = c.min
        BY <4>4, <4>5, <4>6, MinIs
      <4>8. QED
        BY <2>1, <2>4, <3>4, <4>4, <4>7 DEF A
    <3>5. CASE ~(c.min < c.maxp1)
      <4>1. c = o
        BY <1>3, <3>3, <3>5
      <4>2. A = {}
        <5>1. SUFFICES ASSUME NEW t \in A PROVE FALSE
          OBVIOUS
        <5>2. PICK i \in L : i.min <= t /\ t < i.maxp1
          BY <2>2
        <5>3. t \in Nat /\ o.min <= i.min /\ i \in C \cup {o}
          BY <1>1, <1>4, <3>3, <4>1
        <5>4. QED
          BY <1>1, <1>3, <3>5, <4>1, <5>2, <5>3
      <4>3. QED
        BY <2>1, <2>4, <3>5, <4>2
    <3>6. QED
      BY <3>4, <3>5
  <2>5. QED
    BY <2>3, <2>4
<1>7. QED
  BY <1>5, <1>6

\* So it is a sample after the given one, or 0.
LEMMA NextSeqAfter ==
  ASSUME NEW d, NEW w, Good(w, d), IsTop(w, w.maxseq), NEW s \in 0 .. MaxSeq
  PROVE  FindNextSeq(w, s) = 0 \/ (FindNextSeq(w, s) \in DOMAIN w.node /\ FindNextSeq(w, s) > s)
<1>1. w \in Caches(d)
  BY DEF Good
<1>2. After(w, s) \in SUBSET (DOMAIN w.node)
  BY DEF After
<1>3. CASE After(w, s) = {}
  BY <1>3, NextSeqIs
<1>4. CASE After(w, s) # {}
  <2>1. Min(After(w, s)) \in After(w, s)
    BY <1>1, <1>2, <1>4, LeastSample
  <2>2. FindNextSeq(w, s) = Min(After(w, s))
    BY <1>4, NextSeqIs
  <2>3. QED
    BY <2>1, <2>2 DEF After
<1>5. QED
  BY <1>3, <1>4

\* The interval administration of a good cache is exact.
LEMMA ExactIntervals ==
  ASSUME NEW d, Good(whc, d), IsTop(whc, whc.maxseq) PROVE IntervalsExact
<1> DEFINE P == DOMAIN whc.node
<1>0. /\ whc \in Caches(d) /\ Runs(P, whc.closed, whc.open) /\ P \in SUBSET Seqs
      /\ whc.closed \in SUBSET Ivs /\ whc.open \in Ivs /\ whc.size = Cardinality(P)
  BY CacheFields DEF Good, Counted
<1>1. \A i \in Intervals(whc) : i.min \in Nat /\ i.maxp1 \in Nat /\ 1 <= i.min /\ i.maxp1 <= MaxSeq + 1
  BY <1>0, IvNat DEF Intervals
<1>2. P = UNION {i.min .. i.maxp1 - 1 : i \in Intervals(whc)}
  <2>0. \A x \in Seqs : x \in P <=> \E i \in Intervals(whc) : i.min <= x /\ x < i.maxp1
    BY <1>0 DEF Runs, Covers, In, Intervals
  <2>1. ASSUME NEW x \in P PROVE \E i \in Intervals(whc) : x \in i.min .. i.maxp1 - 1
    <3>1. x \in Seqs /\ x \in Nat
      BY <1>0 DEF Seqs
    <3>2. PICK i \in Intervals(whc) : i.min <= x /\ x < i.maxp1
      BY <2>0, <3>1
    <3>3. x \in i.min .. i.maxp1 - 1
      BY <1>1, <3>1, <3>2
    <3>4. QED
      BY <3>3
  <2>2. ASSUME NEW i \in Intervals(whc), NEW x \in i.min .. i.maxp1 - 1 PROVE x \in P
    <3>1. x \in Seqs /\ i.min <= x /\ x < i.maxp1
      BY <1>1, WhcAssumption DEF Seqs
    <3>2. QED
      BY <2>0, <3>1
  <2>3. QED
    BY <2>1, <2>2
<1>3. whc.maxseq = FindMaxProcedurally(whc)
  BY <1>0, FindMaxTop, TopOnce
<1>4. whc.maxseq = Max(P \cup {0})
  BY <1>0, TopIsMax
<1>5. \A s \in 0 .. MaxSeq : FindNextSeq(whc, s) = IF After(whc, s) = {} THEN 0 ELSE Min(After(whc, s))
  BY NextSeqIs
<1>6. /\ \A i \in whc.closed : i.min < i.maxp1 /\ i.maxp1 < whc.open.min
      /\ \A i, j \in whc.closed : i # j => i.maxp1 < j.min \/ j.maxp1 < i.min
      /\ whc.open.min <= whc.open.maxp1
  BY <1>0 DEF Runs, BeforeOpen, Apart
<1>7. QED
  BY <1>0, <1>2, <1>3, <1>4, <1>5, <1>6 DEF IntervalsExact, Present, After

-----------------------------------------------------------------------------
(* Acknowledging samples *)

\* v is w with the samples K acknowledged.
Same(w, v, t) ==
  /\ v.node[t].inst = w.node[t].inst /\ v.node[t].pos = w.node[t].pos
  /\ v.node[t].size = w.node[t].size /\ v.node[t].total = w.node[t].total
  /\ v.node[t].exp = w.node[t].exp
Acknowledged(w, v, K, d) ==
  /\ Good(v, d) /\ DOMAIN v.node = DOMAIN w.node
  /\ \A t \in DOMAIN w.node :
       Same(w, v, t) /\ v.node[t].unacked = (w.node[t].unacked /\ t \notin K)
  /\ v.idx = w.idx /\ v.open = w.open /\ Rest(w, v)

\* A node that is acknowledged.
LEMMA AckNode ==
  ASSUME NEW n \in Nodes, NEW b, b = [n EXCEPT !.unacked = FALSE]
  PROVE  /\ b \in Nodes /\ b.inst = n.inst /\ b.pos = n.pos /\ b.size = n.size
         /\ b.total = n.total /\ b.exp = n.exp /\ b.unacked = FALSE
  BY DEF Nodes

\* Ack does that.
LEMMA AckDoes ==
  ASSUME NEW d \in Nat, NEW w, Good(w, d), NEW K \in SUBSET (DOMAIN w.node), NEW v, v = Ack(w, K)
  PROVE  Acknowledged(w, v, K, d)
<1> DEFINE P == DOMAIN w.node
           N == [t \in P |-> IF t \in K THEN [w.node[t] EXCEPT !.unacked = FALSE] ELSE w.node[t]]
<1>0. /\ w \in Caches(d) /\ P \in SUBSET Seqs /\ IsFiniteSet(P) /\ w.node \in [P -> Nodes]
      /\ Runs(P, w.closed, w.open) /\ Linked(w, d) /\ Counted(w)
  BY CacheFields DEF Good
<1>1. v = [w EXCEPT !.unackedBytes = w.unackedBytes - Bytes(w, K), !.node = N]
  BY DEF Ack, Bytes
<1>2. \A t \in P : /\ N[t] \in Nodes /\ N[t].inst = w.node[t].inst /\ N[t].pos = w.node[t].pos
                   /\ N[t].size = w.node[t].size /\ N[t].total = w.node[t].total
                   /\ N[t].exp = w.node[t].exp
                   /\ N[t].unacked = (w.node[t].unacked /\ t \notin K)
  <2>1. SUFFICES ASSUME NEW t \in P
                 PROVE  /\ N[t] \in Nodes /\ N[t].inst = w.node[t].inst /\ N[t].pos = w.node[t].pos
                        /\ N[t].size = w.node[t].size /\ N[t].total = w.node[t].total
                        /\ N[t].exp = w.node[t].exp
                        /\ N[t].unacked = (w.node[t].unacked /\ t \notin K)
    OBVIOUS
  <2>2. w.node[t] \in Nodes /\ w.node[t].unacked \in BOOLEAN
    BY <1>0 DEF Nodes
  <2>3. CASE t \in K
    <3> DEFINE b == [w.node[t] EXCEPT !.unacked = FALSE]
    <3>1. N[t] = b
      BY <2>3
    <3>2. /\ b \in Nodes /\ b.inst = w.node[t].inst /\ b.pos = w.node[t].pos /\ b.size = w.node[t].size
          /\ b.total = w.node[t].total /\ b.exp = w.node[t].exp /\ b.unacked = FALSE
      BY <2>2, AckNode
    <3> HIDE DEF b, N
    <3>3. QED
      BY <2>3, <3>1, <3>2
  <2>4. CASE t \notin K
    <3>1. N[t] = w.node[t]
      BY <2>4
    <3> HIDE DEF N
    <3>2. QED
      BY <2>2, <2>4, <3>1
  <2>5. QED
    BY <2>3, <2>4
<1>3. DOMAIN N = P /\ N \in NodeMaps
  <2>1. N \in [P -> Nodes]
    <3>1. \A t \in P : N[t] \in Nodes
      BY <1>2
    <3>2. DOMAIN N = P /\ N = [t \in P |-> N[t]]
      OBVIOUS
    <3> HIDE DEF N
    <3>3. QED
      BY <3>1, <3>2
  <2> HIDE DEF N
  <2>2. QED
    BY <1>0, <2>1, NodesMade
<1>4. /\ \A t \in P : UnackedSize(w, t) \in Nat
      /\ IsFiniteSet(K) /\ IsFiniteSet(P \ K)
  BY <1>0, SizeNat, FS_Subset
<1>5. Bytes(w, K) \in Nat /\ Bytes(w, P \ K) \in Nat
  <2>1. \A t \in K : UnackedSize(w, t) \in Nat
    BY <1>4
  <2>2. \A t \in P \ K : UnackedSize(w, t) \in Nat
    BY <1>4
  <2>3. QED
    BY <1>4, <2>1, <2>2, BytesNat
<1> HIDE DEF N
<1>6. /\ v \in Caches(d) /\ v.node = N /\ v.unackedBytes = w.unackedBytes - Bytes(w, K)
      /\ v.idx = w.idx /\ v.open = w.open /\ v.closed = w.closed /\ v.size = w.size /\ Rest(w, v)
  <2>1. w.unackedBytes - Bytes(w, K) \in Int
    BY <1>0, <1>5, CacheFields
  <2>2. QED
    BY <1>0, <1>1, <1>3, <2>1 DEF Caches, Rest
<1>7. DOMAIN v.node = P /\ \A t \in P : Same(w, v, t) /\ v.node[t].unacked = (w.node[t].unacked /\ t \notin K)
  BY <1>2, <1>3, <1>6 DEF Same
<1>8. Linked(v, d)
  <2>1. \A t \in P : v.node[t].inst = w.node[t].inst /\ v.node[t].pos = w.node[t].pos
    BY <1>7 DEF Same
  <2>2. QED
    BY <1>0, <1>6, <1>7, <2>1, SMTT(30) DEF Linked
<1>9. Counted(v)
  <2>1. \A t \in K : UnackedSize(v, t) = 0
    BY <1>7 DEF UnackedSize
  <2>2. \A t \in P \ K : UnackedSize(v, t) = UnackedSize(w, t) /\ UnackedSize(w, t) \in Nat
    <3>1. \A t \in P \ K : v.node[t].unacked = w.node[t].unacked /\ v.node[t].size = w.node[t].size
      <4>1. \A t \in P : w.node[t].unacked \in BOOLEAN
        BY <1>0 DEF Nodes
      <4>2. QED
        BY <1>7, <4>1 DEF Same
    <3>2. QED
      BY <1>4, <3>1 DEF UnackedSize
  <2>3. Bytes(v, K) = 0 /\ Bytes(v, P \ K) = Bytes(w, P \ K)
    BY <1>4, <2>1, <2>2, BytesZero, BytesSame
  <2>4. Bytes(v, P) = Bytes(v, K) + Bytes(v, P \ K)
    <3>1. \A t \in P : UnackedSize(v, t) \in Nat
      BY <2>1, <2>2
    <3>2. QED
      BY <1>0, <3>1, BytesSplit
  <2>5. Bytes(w, P) = Bytes(w, K) + Bytes(w, P \ K)
    BY <1>0, <1>4, BytesSplit
  <2>6. w.unackedBytes = Bytes(w, P) /\ w.size = Cardinality(P)
    BY <1>0 DEF Counted
  <2>7. v.unackedBytes = Bytes(v, P)
    BY <1>5, <1>6, <2>3, <2>4, <2>5, <2>6
  <2>8. QED
    BY <1>6, <1>7, <2>6, <2>7 DEF Counted
<1>10. QED
  BY <1>0, <1>6, <1>7, <1>8, <1>9 DEF Acknowledged, Good

\* A cache is good whatever maxseq, max_drop_seq and total_bytes are.
LEMMA GoodSame ==
  ASSUME NEW d, NEW w, Good(w, d), NEW v \in Caches(d), v.node = w.node, v.idx = w.idx,
         v.open = w.open, v.closed = w.closed, v.size = w.size, v.unackedBytes = w.unackedBytes
  PROVE  Good(v, d)
<1>1. Linked(v, d)
  <2>1. Linked(w, d)
    BY DEF Good
  <2>2. QED
    BY <2>1, SMTT(30) DEF Linked
<1>2. Counted(v)
  <2>1. Bytes(v, DOMAIN v.node) = Bytes(w, DOMAIN w.node)
    <3>1. \A s \in DOMAIN w.node : UnackedSize(v, s) = UnackedSize(w, s)
      BY DEF UnackedSize
    <3>2. IsFiniteSet(DOMAIN w.node) /\ \A s \in DOMAIN w.node : UnackedSize(w, s) \in Nat
      BY CacheFields, SizeNat DEF Good
    <3>3. QED
      BY <3>1, <3>2, BytesSame
  <2>2. QED
    BY <2>1 DEF Counted, Good
<1>3. QED
  BY <1>1, <1>2 DEF Good

\* Setting maxseq alone.
LEMMA TopFields ==
  ASSUME NEW d, NEW w, Good(w, d), NEW x \in Nat, NEW v, v = [w EXCEPT !.maxseq = x]
  PROVE  /\ Good(v, d) /\ v.node = w.node /\ v.idx = w.idx /\ v.open = w.open /\ v.closed = w.closed
         /\ v.total = w.total /\ v.maxseq = x /\ v.maxDrop = w.maxDrop
<1>1. /\ v \in Caches(d) /\ v.node = w.node /\ v.idx = w.idx /\ v.open = w.open /\ v.closed = w.closed
      /\ v.total = w.total /\ v.maxseq = x /\ v.maxDrop = w.maxDrop /\ v.size = w.size /\ v.unackedBytes = w.unackedBytes
  BY DEF Good, Caches
<1>2. QED
  BY <1>1, GoodSame

\* Setting max_drop_seq alone.
LEMMA DropFields ==
  ASSUME NEW d, NEW w, Good(w, d), NEW m \in Nat, NEW v, v = [w EXCEPT !.maxDrop = m]
  PROVE  /\ Good(v, d) /\ v.node = w.node /\ v.idx = w.idx /\ v.open = w.open /\ v.closed = w.closed
         /\ v.total = w.total /\ v.maxseq = w.maxseq /\ v.maxDrop = m
<1>1. /\ v \in Caches(d) /\ v.node = w.node /\ v.idx = w.idx /\ v.open = w.open /\ v.closed = w.closed
      /\ v.total = w.total /\ v.maxseq = w.maxseq /\ v.maxDrop = m /\ v.size = w.size /\ v.unackedBytes = w.unackedBytes
  BY DEF Good, Caches
<1>2. QED
  BY <1>1, GoodSame

\* A highest number is a number.
LEMMA TopNat == ASSUME NEW d, NEW w \in Caches(d), NEW x, IsTop(w, x) PROVE x \in Nat
  BY CacheFields DEF IsTop, Seqs

-----------------------------------------------------------------------------
(* Removing acknowledged samples *)

\* The depths are numbers, and the index is the deepest.
LEMMA Depths ==
  ASSUME qos \in QosType
  PROVE  /\ IdxDepth \in Nat /\ TLDepth \in Nat /\ HDepth \in Nat
         /\ TLDepth <= IdxDepth /\ HDepth <= IdxDepth
         /\ qos.tl \in BOOLEAN /\ qos.reliable \in BOOLEAN /\ qos.deadline \in BOOLEAN /\ qos.lifespan \in BOOLEAN
         /\ ~qos.tl => TLDepth = 0
<1>1. /\ qos.hdepth \in Nat /\ qos.dsdepth \in Nat /\ qos.tl \in BOOLEAN /\ qos.reliable \in BOOLEAN
      /\ qos.deadline \in BOOLEAN /\ qos.lifespan \in BOOLEAN
  BY DEF QosType
<1>2. QED
  BY <1>1 DEF IdxDepth, TLDepth, HDepth

\* The age of a slot is below the depth.
LEMMA AgeRange ==
  ASSUME NEW d \in Nat, NEW x, x.head \in 0 .. d - 1, NEW p \in 0 .. d - 1
  PROVE  AgeAt(x, p, d) \in 0 .. d - 1
  BY DEF AgeAt

\* whcn_in_tlidx, by the age.
LEMMA InTlidxIs ==
  ASSUME NEW w, NEW s
  PROVE  InTlidx(w, s) <=> /\ w.node[s].inst # NoInst
                           /\ AgeAt(w.idx[w.node[s].inst], w.node[s].pos, IdxDepth) < TLDepth
  BY DEF InTlidx, Age, AgeAt

\* v is w with the samples K acknowledged and the samples S deleted.
Removal(w, v, K, S, d) ==
  /\ Good(v, d) /\ IsTop(v, v.maxseq)
  /\ K \in SUBSET (DOMAIN w.node) /\ S \in SUBSET (DOMAIN w.node)
  /\ DOMAIN v.node = DOMAIN w.node \ S
  /\ \A t \in DOMAIN v.node : Same(w, v, t) /\ v.node[t].unacked = (w.node[t].unacked /\ t \notin K)
  /\ IdxWithout(w, v, S, d) /\ v.total = w.total

\* Which samples are acknowledged and which deleted up to m.
Chosen1(w, v, K, S, m) ==
  /\ \A s \in K \cup S : s <= m
  /\ \A s \in DOMAIN w.node : w.maxDrop < s /\ s <= m => s \in K \cup S
  /\ qos.tl /\ TLDepth = 0 => S = {}
  /\ ~qos.tl => K = {}
  /\ \A s \in S : ~InTlidx(w, s)
Chosen2(w, v, K, d) ==
  TLDepth > 0 =>
    \A s \in K : /\ InTlidx(w, s)
                 /\ \A p \in 0 .. d - 1 :
                      v.idx[w.node[s].inst].hist[p] # 0 => AgeAt(w.idx[w.node[s].inst], p, d) < TLDepth

\* Acknowledging and then deleting.
LEMMA RemovalMade ==
  ASSUME NEW d, NEW w, NEW a, NEW u, NEW v, NEW K \in SUBSET (DOMAIN w.node), NEW S \in SUBSET (DOMAIN w.node),
         Acknowledged(w, a, K, d), Deleted(a, u, S, d), Good(v, d), IsTop(v, v.maxseq),
         v.node = u.node, v.idx = u.idx, v.total = u.total
  PROVE  Removal(w, v, K, S, d)
<1>1. DOMAIN v.node = DOMAIN w.node \ S
  BY DEF Acknowledged, Deleted
<1>2. \A t \in DOMAIN v.node : Same(w, v, t) /\ v.node[t].unacked = (w.node[t].unacked /\ t \notin K)
  <2>1. SUFFICES ASSUME NEW t \in DOMAIN v.node
                 PROVE Same(w, v, t) /\ v.node[t].unacked = (w.node[t].unacked /\ t \notin K)
    OBVIOUS
  <2>2. v.node[t] = a.node[t] /\ t \in DOMAIN w.node
    BY <1>1 DEF Deleted
  <2>3. Same(w, a, t) /\ a.node[t].unacked = (w.node[t].unacked /\ t \notin K)
    BY <2>2 DEF Acknowledged
  <2>4. QED
    BY <2>2, <2>3 DEF Same
<1>3. IdxWithout(w, v, S, d) /\ v.total = w.total
  <2>1. IdxWithout(a, u, S, d) /\ Rest(a, u)
    BY DEF Deleted
  <2>2. a.idx = w.idx /\ Rest(w, a)
    BY DEF Acknowledged
  <2>3. QED
    BY <2>1, <2>2 DEF IdxWithout, Rest
<1>4. QED
  BY <1>1, <1>2, <1>3 DEF Removal

\* whc_default_remove_acked_messages_full.
LEMMA FullRemoves ==
  ASSUME qos \in QosType, NEW w, Good(w, IdxDepth), Ordered(w, IdxDepth), IsTop(w, w.maxseq),
         NEW m \in Nat, NEW v, v = RemoveAckedFull(w, m)
  PROVE  /\ \E K, S : Removal(w, v, K, S, IdxDepth) /\ Chosen1(w, v, K, S, m) /\ Chosen2(w, v, K, IdxDepth)
         /\ v.maxDrop = m /\ v.open.maxp1 <= w.open.maxp1
<1> DEFINE d == IdxDepth
           P == DOMAIN w.node
           range == {s \in P : w.maxDrop < s /\ s <= m}
           keep == {s \in range : InTlidx(w, s)}
           a == Ack(w, keep)
           first == DeleteSet(a, range \ keep)
           old == UNION {Pruned(first, first.idx[first.node[s].inst]) : s \in keep}
           second == IF TLDepth > 0 /\ IdxDepth > TLDepth THEN DeleteSet(first, old) ELSE first
           all == Ack(w, range)
<1>1. v = IF qos.tl /\ TLDepth = 0 THEN [all EXCEPT !.maxDrop = m]
          ELSE [second EXCEPT !.maxseq = FindMaxProcedurally(second), !.maxDrop = m]
  BY DEF RemoveAckedFull, Present
<1>2. d \in Nat /\ TLDepth \in Nat /\ TLDepth <= d /\ (~qos.tl => TLDepth = 0) /\ qos.tl \in BOOLEAN
  BY Depths
<1>3. w \in Caches(d) /\ Linked(w, d) /\ P \in SUBSET Seqs /\ P \in SUBSET Nat /\ w.maxDrop \in Nat
  <2>1. w \in Caches(d) /\ Linked(w, d)
    BY DEF Good
  <2>2. QED
    BY <2>1, CacheFields DEF Seqs
<1>4. w.open.maxp1 \in Nat
  BY <1>3, CacheFields, IvNat
<1>5. CASE qos.tl /\ TLDepth = 0
  <2>1. Acknowledged(w, all, range, d)
    BY <1>2, AckDoes
  <2> HIDE DEF all
  <2>2. Good(all, d) /\ all.open = w.open /\ all.maxseq = w.maxseq /\ DOMAIN all.node = P
    BY <2>1 DEF Acknowledged, Rest
  <2>3. v = [all EXCEPT !.maxDrop = m]
    BY <1>1, <1>5
  <2>4. Good(v, d) /\ v.node = all.node /\ v.idx = all.idx /\ v.open = all.open
        /\ v.total = all.total /\ v.maxseq = all.maxseq /\ v.maxDrop = m
    BY <2>2, <2>3, DropFields
  <2>5. IsTop(v, v.maxseq)
    BY <2>2, <2>4 DEF IsTop
  <2>6. Deleted(all, all, {}, d)
    BY <2>2, DeletedNothing
  <2>7. Removal(w, v, range, {}, d)
    <3>1. range \in SUBSET (DOMAIN w.node) /\ {} \in SUBSET (DOMAIN w.node)
      OBVIOUS
    <3> HIDE DEF range, d
    <3>2. QED
      BY <2>1, <2>4, <2>5, <2>6, <3>1, RemovalMade
  <2>8. Chosen1(w, v, range, {}, m) /\ Chosen2(w, v, range, d)
    <3>1. Chosen1(w, v, range, {}, m)
      BY <1>5 DEF Chosen1
    <3>2. Chosen2(w, v, range, d)
      BY <1>2, <1>5 DEF Chosen2
    <3>3. QED
      BY <3>1, <3>2
  <2> HIDE DEF range, d
  <2>9. v.open.maxp1 <= w.open.maxp1
    BY <1>4, <2>2, <2>4
  <2>10. QED
    BY <2>4, <2>7, <2>8, <2>9 DEF d
<1>6. CASE ~(qos.tl /\ TLDepth = 0)
  <2>0. keep \in SUBSET P /\ range \ keep \in SUBSET P
    OBVIOUS
  <2>1. Acknowledged(w, a, keep, d)
    BY <1>2, <2>0, AckDoes
  <2> HIDE DEF a
  <2>2. Good(a, d) /\ a.idx = w.idx /\ DOMAIN a.node = P /\ a.open = w.open
        /\ \A t \in P : a.node[t].inst = w.node[t].inst /\ a.node[t].pos = w.node[t].pos
    BY <2>1 DEF Acknowledged, Same
  <2>3. Deleted(a, first, range \ keep, d)
    BY <1>2, <2>0, <2>2, DeleteSetDeletes
  <2> HIDE DEF first
  <2>4. /\ Good(first, d) /\ DOMAIN first.node = P \ (range \ keep)
        /\ \A t \in DOMAIN first.node : first.node[t] = a.node[t]
        /\ IdxWithout(w, first, range \ keep, d)
    BY <2>2, <2>3 DEF Deleted, IdxWithout
  <2>5. \A s \in keep : /\ s \in DOMAIN first.node /\ first.node[s].inst = w.node[s].inst
                        /\ w.node[s].inst \in DOMAIN w.idx /\ w.node[s].pos \in 0 .. d - 1 /\ s <= m /\ s \in Nat
                        /\ w.idx[w.node[s].inst].hist[w.node[s].pos] = s /\ s # 0
                        /\ AgeAt(w.idx[w.node[s].inst], w.node[s].pos, d) < TLDepth
    <3>1. SUFFICES ASSUME NEW s \in keep
                   PROVE  /\ s \in DOMAIN first.node /\ first.node[s].inst = w.node[s].inst
                          /\ w.node[s].inst \in DOMAIN w.idx /\ w.node[s].pos \in 0 .. d - 1 /\ s <= m /\ s \in Nat
                          /\ w.idx[w.node[s].inst].hist[w.node[s].pos] = s /\ s # 0
                          /\ AgeAt(w.idx[w.node[s].inst], w.node[s].pos, d) < TLDepth
      OBVIOUS
    <3>2. s \in P /\ InTlidx(w, s) /\ s <= m /\ s \in DOMAIN first.node
      BY <2>4
    <3>3. w.node[s].inst # NoInst /\ AgeAt(w.idx[w.node[s].inst], w.node[s].pos, d) < TLDepth
      BY <3>2, InTlidxIs
    <3>4. /\ w.node[s].inst \in DOMAIN w.idx /\ w.node[s].pos \in 0 .. d - 1
          /\ w.idx[w.node[s].inst].hist[w.node[s].pos] = s
      BY <1>3, <3>2, <3>3 DEF Linked
    <3>5. s # 0 /\ s \in Nat
      BY <1>3, <3>2 DEF Seqs
    <3>6. first.node[s].inst = w.node[s].inst
      BY <2>2, <2>4, <3>2
    <3> HIDE DEF keep, range, P, d
    <3>7. QED
      BY <3>2, <3>3, <3>4, <3>5, <3>6
  \* what is pruned: t lies in a slot of the instance of s that is too old
  <2> DEFINE TooOld(t, s, p) ==
               /\ t = first.idx[w.node[s].inst].hist[p] /\ t # 0
               /\ AgeAt(w.idx[w.node[s].inst], p, d) >= TLDepth
  <2>6. \A t : t \in old <=> \E s \in keep, p \in 0 .. d - 1 : TooOld(t, s, p)
    <3>1. ASSUME NEW s \in keep
          PROVE  \A t : t \in Pruned(first, first.idx[first.node[s].inst]) <=> \E p \in 0 .. d - 1 : TooOld(t, s, p)
      <4> DEFINE k == w.node[s].inst
      <4>1. first.node[s].inst = k /\ k \in DOMAIN w.idx
        BY <2>5
      <4>2. first.idx[k].head = w.idx[k].head
        BY <2>4, <4>1 DEF IdxWithout
      <4>3. \A p : Age(first.idx[k], p) = AgeAt(w.idx[k], p, d)
        BY <4>2 DEF Age, AgeAt
      <4>4. Pruned(first, first.idx[k]) = {first.idx[k].hist[p] : p \in {q \in 0 .. d - 1 : Age(first.idx[k], q) >= TLDepth}} \ {0}
        BY DEF Pruned, PruneSlots, Slots
      <4> HIDE DEF k, d, keep
      <4>5. QED
        BY <4>1, <4>3, <4>4 DEF k
    <3> HIDE DEF TooOld, keep, d
    <3>2. QED
      BY <3>1
  <2>7. old \in SUBSET (DOMAIN first.node) /\ \A t \in old : t \in P /\ t <= m /\ ~InTlidx(w, t)
    <3>1. SUFFICES ASSUME NEW t \in old PROVE t \in DOMAIN first.node /\ t \in P /\ t <= m /\ ~InTlidx(w, t)
      OBVIOUS
    <3>2. PICK s \in keep, p \in 0 .. d - 1 : TooOld(t, s, p)
      <4> HIDE DEF TooOld, keep, d, old
      <4>1. QED
        BY <2>6, <3>1
    <3> DEFINE k == w.node[s].inst
    <3>3. k \in DOMAIN w.idx /\ w.idx[k].hist[w.node[s].pos] = s /\ AgeAt(w.idx[k], w.node[s].pos, d) < TLDepth
          /\ s # 0 /\ s <= m /\ s \in Nat /\ w.node[s].pos \in 0 .. d - 1
      BY <2>5
    <3>4. t = first.idx[k].hist[p] /\ t # 0 /\ AgeAt(w.idx[k], p, d) >= TLDepth
      BY <3>2
    <3> HIDE DEF k, keep, old, range
    <3>5. t = w.idx[k].hist[p]
      BY <2>4, <3>3, <3>4 DEF IdxWithout
    <3>6. t \in P /\ w.node[t].inst = k /\ w.node[t].pos = p
      BY <1>3, <3>3, <3>4, <3>5 DEF Linked
    <3>7. ~InTlidx(w, t)
      <4>1. AgeAt(w.idx[k], p, d) \in Nat
        <5>1. w.idx[k].head \in 0 .. d - 1
          BY <1>2, <1>3, <3>2, <3>3, HeadIn
        <5>2. QED
          BY <1>2, <3>2, <5>1, AgeRange
      <4>2. QED
        BY <1>2, <3>4, <3>6, <4>1, InTlidxIs
    <3>8. t < s
      <4>1. w.idx[k].head \in 0 .. d - 1
        BY <1>2, <1>3, <3>2, <3>3, HeadIn
      <4>2. AgeAt(w.idx[k], p, d) \in Nat /\ AgeAt(w.idx[k], w.node[s].pos, d) \in Nat
        BY <1>2, <3>2, <3>3, <4>1, AgeRange
      <4>3. AgeAt(w.idx[k], p, d) > AgeAt(w.idx[k], w.node[s].pos, d)
        BY <1>2, <3>3, <3>4, <4>2
      <4>4. QED
        BY <3>2, <3>3, <3>4, <3>5, <4>3 DEF Ordered
    <3>9. t \in DOMAIN first.node
      <4>1. Linked(first, d) /\ k \in DOMAIN first.idx
        BY <2>4, <3>3 DEF Good, IdxWithout
      <4>2. QED
        BY <3>2, <3>4, <4>1, SlotSample
    <3>10. t <= m
      <4>1. t \in Nat
        BY <1>3, <3>6
      <4>2. QED
        BY <3>3, <3>8, <4>1
    <3>11. QED
      BY <3>6, <3>7, <3>9, <3>10
  <2> DEFINE T == IF TLDepth > 0 /\ IdxDepth > TLDepth THEN old ELSE {}
  <2>8. Deleted(first, second, T, d)
    <3>1. CASE TLDepth > 0 /\ IdxDepth > TLDepth
      <4> HIDE DEF old
      <4>1. QED
        BY <1>2, <2>4, <2>7, <3>1, DeleteSetDeletes
    <3>2. CASE ~(TLDepth > 0 /\ IdxDepth > TLDepth)
      BY <2>4, <3>2, DeletedNothing
    <3>3. QED
      BY <3>1, <3>2
  <2> HIDE DEF second
  <2> DEFINE S == (range \ keep) \cup T
  <2>9. Deleted(a, second, S, d)
    <3> HIDE DEF T
    <3>1. QED
      BY <2>2, <2>3, <2>8, DeletedMore
  <2>10. Good(second, d) /\ IsTop(second, FindMaxProcedurally(second)) /\ FindMaxProcedurally(second) \in Nat
    <3>1. Good(second, d) /\ second \in Caches(d)
      BY <2>9 DEF Deleted, Good
    <3>2. QED
      BY <3>1, FindMaxTop, TopNat
  <2>11. /\ Good(v, d) /\ v.node = second.node /\ v.idx = second.idx /\ v.open = second.open
         /\ v.total = second.total /\ v.maxseq = FindMaxProcedurally(second) /\ v.maxDrop = m
    <3> DEFINE x == FindMaxProcedurally(second)
    <3>1. v = [second EXCEPT !.maxseq = x, !.maxDrop = m]
      BY <1>1, <1>6
    <3>2. x \in Nat /\ Good(second, d)
      BY <2>10
    <3> HIDE DEF x, d
    <3>3. /\ v \in Caches(d) /\ v.node = second.node /\ v.idx = second.idx /\ v.open = second.open
          /\ v.closed = second.closed /\ v.size = second.size /\ v.unackedBytes = second.unackedBytes
          /\ v.total = second.total /\ v.maxseq = x /\ v.maxDrop = m
      BY <3>1, <3>2 DEF Good, Caches
    <3>4. Good(v, d)
      BY <3>2, <3>3, GoodSame
    <3>5. QED
      BY <3>3, <3>4 DEF x
  <2>12. IsTop(v, v.maxseq)
    BY <2>10, <2>11 DEF IsTop
  <2>13. S \in SUBSET P /\ \A s \in S : s <= m /\ ~InTlidx(w, s)
    <3>1. \A s \in T : s \in P /\ s <= m /\ ~InTlidx(w, s)
      <4> HIDE DEF old
      <4>1. QED
        BY <2>7
    <3>2. \A s \in range \ keep : s \in P /\ s <= m /\ ~InTlidx(w, s)
      OBVIOUS
    <3> HIDE DEF T, range, keep
    <3>3. QED
      BY <3>1, <3>2
  <2>14. Removal(w, v, keep, S, d)
    <3> HIDE DEF S, keep, d, P
    <3>1. keep \in SUBSET (DOMAIN w.node) /\ S \in SUBSET (DOMAIN w.node)
      BY <2>0, <2>13 DEF P
    <3>2. QED
      BY <2>1, <2>9, <2>11, <2>12, <3>1, RemovalMade
  <2>15. Chosen1(w, v, keep, S, m)
    <3>1. \A s \in keep : s <= m
      OBVIOUS
    <3>2. \A s \in P : w.maxDrop < s /\ s <= m => s \in keep \cup S
      OBVIOUS
    <3>3. ~qos.tl => keep = {}
      <4>1. SUFFICES ASSUME ~qos.tl, NEW s \in keep PROVE FALSE
        OBVIOUS
      <4>2. TLDepth = 0
        BY <1>2, <4>1
      <4> DEFINE k == w.node[s].inst
      <4>3. k \in DOMAIN w.idx /\ w.node[s].pos \in 0 .. d - 1 /\ AgeAt(w.idx[k], w.node[s].pos, d) < TLDepth
        BY <2>5
      <4>4. w.idx[k].head \in 0 .. d - 1
        BY <1>2, <1>3, <4>3, HeadIn
      <4>5. AgeAt(w.idx[k], w.node[s].pos, d) \in Nat
        BY <1>2, <4>3, <4>4, AgeRange
      <4>6. QED
        BY <4>2, <4>3, <4>5
    <3> HIDE DEF S, keep
    <3>4. QED
      BY <1>6, <2>13, <3>1, <3>2, <3>3 DEF Chosen1
  <2>16. Chosen2(w, v, keep, d)
    <3>1. SUFFICES ASSUME TLDepth > 0, NEW s \in keep, NEW p \in 0 .. d - 1,
                          v.idx[w.node[s].inst].hist[p] # 0,
                          ~(AgeAt(w.idx[w.node[s].inst], p, d) < TLDepth)
                   PROVE  FALSE
      <4>1. \A s \in keep : InTlidx(w, s)
        OBVIOUS
      <4> HIDE DEF keep
      <4>2. QED
        BY <4>1 DEF Chosen2
    <3> DEFINE k == w.node[s].inst
               t == first.idx[k].hist[p]
    <3>2. k \in DOMAIN w.idx
      BY <2>5
    <3>3. w.idx[k].head \in 0 .. d - 1
      BY <1>2, <1>3, <3>1, <3>2, HeadIn
    <3>4. AgeAt(w.idx[k], p, d) \in 0 .. d - 1
      BY <1>2, <3>1, <3>3, AgeRange
    <3>5. AgeAt(w.idx[k], p, d) >= TLDepth /\ d > TLDepth
      BY <1>2, <3>1, <3>4
    <3>6. T = old
      BY <3>1, <3>5
    <3>7. IdxWithout(first, second, T, d) /\ k \in DOMAIN first.idx
      BY <2>4, <2>8, <3>2 DEF Deleted, IdxWithout
    <3>8. v.idx[k].hist[p] = IF t \in T THEN 0 ELSE t
      <4>1. second.idx[k].hist[p] = IF first.idx[k].hist[p] \in T THEN 0 ELSE first.idx[k].hist[p]
        <5> HIDE DEF T, k, d
        <5>1. QED
          BY <3>1, <3>7 DEF IdxWithout
      <4>2. QED
        BY <2>11, <4>1
    <3>9. t # 0 /\ t \notin old
      <4> HIDE DEF T, t, k, old
      <4>1. v.idx[k].hist[p] # 0
        BY <3>1 DEF k
      <4>2. QED
        BY <3>6, <3>8, <4>1
    <3>10. TooOld(t, s, p)
      BY <3>5, <3>9
    <3>11. QED
      <4> HIDE DEF TooOld, t, old, keep, d
      <4>1. QED
        BY <2>6, <3>1, <3>9, <3>10
  <2>17. v.open.maxp1 <= w.open.maxp1
    <3>1. second.open.maxp1 <= a.open.maxp1
      BY <2>9 DEF Deleted
    <3>2. QED
      BY <2>2, <2>11, <3>1
  <2> HIDE DEF S, keep, d
  <2>18. QED
    BY <2>11, <2>14, <2>15, <2>16, <2>17 DEF d
<1>7. QED
  BY <1>5, <1>6

\* whc_default_remove_acked_messages_noidx: everything up to m goes.
LEMMA NoidxRemoves ==
  ASSUME NEW w, Good(w, 0), NEW n \in 0 .. MaxSeq, UpTo(w, n), Single(w, n), NEW m \in 0 .. n,
         \A s \in DOMAIN w.node : w.node[s].unacked /\ s > w.maxDrop, w.maxDrop <= n,
         NEW v, v = RemoveAckedNoidx(w, m)
  PROVE  /\ \E S : Removal(w, v, {}, S, 0) /\ \A s \in S : s <= m
         /\ UpTo(v, n) /\ Single(v, n) /\ v.maxDrop <= n
         /\ \A s \in DOMAIN v.node : s > m /\ s > v.maxDrop
<1> DEFINE P == DOMAIN w.node
           o == w.open
<1>0. /\ w \in Caches(0) /\ P \in SUBSET Seqs /\ P \in SUBSET Nat /\ IsFiniteSet(P) /\ w.node \in [P -> Nodes]
      /\ o \in Ivs /\ w.maxDrop \in Nat /\ w.total \in Nat /\ w.maxseq \in Nat
      /\ w.unackedBytes \in Int /\ w.size \in Int
  <2>1. w \in Caches(0)
    BY DEF Good
  <2>2. QED
    BY <2>1, CacheFields DEF Seqs
<1>1. /\ n \in Nat /\ m \in Nat /\ m <= n /\ n <= MaxSeq /\ MaxSeq \in Nat /\ w.closed = {}
      /\ o.min \in Nat /\ o.maxp1 \in Nat /\ 1 <= o.min /\ o.min <= MaxSeq + 1
  BY <1>0, WhcAssumption, IvNat DEF Single
<1>2. \A x \in Seqs : x \in P <=> o.min <= x /\ x < o.maxp1
  BY <1>1 DEF Good, Runs, Covers, In
<1>3. w.maxseq \in P \cup {0} /\ (\A s \in P : s <= w.maxseq) /\ o.maxp1 <= n + 1 /\ \A s \in P : s <= n
  BY DEF UpTo, IsTop
<1>4. CASE \/ m <= w.maxDrop
           \/ w.maxseq = 0
           \/ m \notin P /\ m < o.min
  <2> DEFINE x == Max({w.maxDrop, m})
  <2>1. v = [w EXCEPT !.maxDrop = x]
    BY <1>4 DEF RemoveAckedNoidx, Present
  <2>2. x = IF w.maxDrop >= m THEN w.maxDrop ELSE m
    BY <1>0, <1>1, MaxOfTwo
  <2>3. x \in Nat /\ x <= n
    BY <1>0, <1>1, <2>2
  <2>4. \A s \in P : s > m
    <3>1. CASE m <= w.maxDrop
      BY <1>0, <1>1, <3>1
    <3>2. CASE w.maxseq = 0
      <4>1. \A s \in P : s >= 1 /\ s <= 0
        BY <1>0, <1>3, <3>2 DEF Seqs
      <4>2. QED
        BY <1>0, <4>1
    <3>3. CASE m \notin P /\ m < o.min
      BY <1>0, <1>1, <1>2, <3>3
    <3>4. QED
      BY <1>4, <3>1, <3>2, <3>3
  <2> HIDE DEF x
  <2>5. /\ Good(v, 0) /\ v.node = w.node /\ v.idx = w.idx /\ v.open = w.open /\ v.closed = w.closed
        /\ v.total = w.total /\ v.maxseq = w.maxseq /\ v.maxDrop = x
    BY <2>1, <2>3, DropFields
  <2>6. IsTop(v, v.maxseq) /\ UpTo(v, n)
    BY <2>5 DEF UpTo, IsTop
  <2>7. Removal(w, v, {}, {}, 0)
    <3>1. \A t \in P : w.node[t].unacked \in BOOLEAN
      BY <1>0 DEF Nodes
    <3>2. IdxWithout(w, v, {}, 0)
      BY <2>5 DEF IdxWithout
    <3>3. QED
      BY <2>5, <2>6, <3>1, <3>2 DEF Removal, Same
  <2>8. Single(v, n)
    <3>1. ASSUME NEW s \in P PROVE Bytes(v, {t \in P : t > s}) = Bytes(w, {t \in P : t > s})
      <4> DEFINE U == {t \in P : t > s}
      <4>1. U \in SUBSET P
        OBVIOUS
      <4> HIDE DEF U
      <4>2. IsFiniteSet(U)
        BY <1>0, <4>1, FS_Subset
      <4>3. \A t \in U : UnackedSize(v, t) = UnackedSize(w, t) /\ UnackedSize(w, t) \in Nat
        <5>1. \A t \in P : UnackedSize(w, t) \in Nat
          BY <1>0, SizeNat
        <5>2. QED
          BY <2>5, <4>1, <5>1 DEF UnackedSize
      <4>4. Bytes(v, U) = Bytes(w, U)
        BY <4>2, <4>3, BytesSame
      <4>5. QED
        BY <4>4 DEF U
    <3>2. QED
      BY <2>5, <3>1 DEF Single
  <2>9. \A s \in DOMAIN v.node : s > m /\ s > v.maxDrop
    BY <1>0, <1>1, <2>2, <2>4, <2>5
  <2>10. \E S : Removal(w, v, {}, S, 0) /\ \A s \in S : s <= m
    BY <2>7
  <2>11. QED
    BY <2>3, <2>5, <2>6, <2>8, <2>9, <2>10
<1>5. CASE ~(\/ m <= w.maxDrop
             \/ w.maxseq = 0
             \/ m \notin P /\ m < o.min)
  <2>1. o.maxp1 = n + 1
    <3>1. P # {}
      BY <1>3, <1>5
    <3>2. QED
      BY <3>1 DEF Single
  <2>2. P = o.min .. n
    <3>1. ASSUME NEW x \in P PROVE x \in o.min .. n
      BY <1>0, <1>1, <1>2, <2>1
    <3>2. ASSUME NEW x \in o.min .. n PROVE x \in P
      <4>1. x \in Seqs /\ o.min <= x /\ x < o.maxp1
        BY <1>1, <2>1 DEF Seqs
      <4>2. QED
        BY <1>2, <4>1
    <3> HIDE DEF P
    <3>3. QED
      BY <3>1, <3>2
  <2>3. m \in P /\ o.min <= m /\ o.min \in P
    BY <1>1, <1>5, <2>2
  <2> DEFINE Q == {s \in P : s < o.min \/ s > m}
             S == {s \in P : s <= m}
             rest == \E s \in P : s > m
             bytes == BytesOfRun(w, o.min, m)
             N == Restrict(w.node, Q)
             p == [min |-> m + 1, maxp1 |-> IF rest THEN o.maxp1 ELSE m + 1]
  <2>4. Q = (m + 1) .. n /\ Q = P \ S /\ Q = {t \in P : t > m}
    BY <1>0, <1>1, <2>2, <2>3, SMTT(30)
  <2>5. rest <=> m < n
    <3>1. m < n => n \in P
      BY <1>1, <2>2, <2>3
    <3>2. \A s \in P : s <= n /\ s \in Nat
      BY <1>0, <1>3
    <3> HIDE DEF P
    <3>3. QED
      BY <1>1, <3>1, <3>2
  <2>6. v = [w EXCEPT !.node = N, !.open = p, !.maxseq = IF rest THEN w.maxseq ELSE 0,
                      !.unackedBytes = w.unackedBytes - bytes,
                      !.size = w.size - (m - o.min + 1), !.maxDrop = m]
    BY <1>5, <2>3 DEF RemoveAckedNoidx, Present
  <2>7. /\ w.node[m].total \in Nat /\ w.node[o.min].total \in Nat /\ w.node[o.min].size \in Nat
        /\ bytes = w.node[m].total - w.node[o.min].total + w.node[o.min].size
    <3>1. w.node[m] \in Nodes /\ w.node[o.min] \in Nodes
      BY <1>0, <2>3
    <3>2. QED
      BY <3>1 DEF Nodes, BytesOfRun
  <2>8. N \in NodeMaps /\ DOMAIN N = Q /\ \A t \in Q : N[t] = w.node[t]
    <3>1. N = [t \in Q |-> w.node[t]]
      BY DEF Restrict
    <3>2. Q \in SUBSET Seqs /\ Q \in SUBSET P
      BY <1>0
    <3> HIDE DEF N, Q
    <3>3. N \in [Q -> Nodes]
      BY <1>0, <3>1, <3>2
    <3>4. QED
      BY <3>1, <3>2, <3>3, NodesMade
  <2>9. p \in Ivs /\ p.min = m + 1 /\ p.maxp1 = n + 1
    <3>1. (IF rest THEN o.maxp1 ELSE m + 1) = n + 1
      BY <1>1, <2>1, <2>5
    <3>2. p = [min |-> m + 1, maxp1 |-> n + 1]
      BY <3>1
    <3> HIDE DEF p, rest
    <3>3. QED
      BY <1>1, <3>2, IvMade
  <2>10. /\ v \in Caches(0) /\ v.node = N /\ v.open = p /\ v.closed = w.closed /\ v.idx = w.idx
         /\ v.maxseq = (IF rest THEN w.maxseq ELSE 0) /\ v.unackedBytes = w.unackedBytes - bytes
         /\ v.size = w.size - (m - o.min + 1) /\ v.maxDrop = m /\ v.total = w.total
    <3> HIDE DEF N, p, Q, rest, bytes
    <3>1. (IF rest THEN w.maxseq ELSE 0) \in Nat
      BY <1>0
    <3>2. w.unackedBytes - bytes \in Int /\ w.size - (m - o.min + 1) \in Int
      BY <1>0, <1>1, <2>7
    <3>3. QED
      BY <1>0, <1>1, <2>6, <2>8, <2>9, <3>1, <3>2 DEF Caches
  <2>11. DOMAIN v.node = Q /\ \A t \in Q : v.node[t] = w.node[t]
    BY <2>8, <2>10
  <2>12. Runs(Q, v.closed, v.open)
    <3>1. \A x \in Seqs : x \in Q <=> m + 1 <= x /\ x < n + 1
      BY <1>1, <2>4 DEF Seqs
    <3>2. v.closed = {} /\ v.open.min = m + 1 /\ v.open.maxp1 = n + 1
      BY <1>1, <2>9, <2>10
    <3> HIDE DEF Q, p
    <3>3. Covers(Q, v.closed, v.open)
      BY <3>1, <3>2 DEF Covers, In
    <3>4. QED
      BY <1>1, <3>2, <3>3 DEF Runs, BeforeOpen, Apart
  <2>13. Linked(v, 0)
    <3>1. \A s \in P : w.node[s].inst = NoInst
      BY DEF Good, Linked
    <3> HIDE DEF Q
    <3>2. \A s \in Q : w.node[s].inst = NoInst
      BY <2>4, <3>1
    <3>3. QED
      BY <2>11, <3>2 DEF Linked
  \* the bytes of what is left, by the running totals
  <2>14. ASSUME NEW T \in SUBSET Q PROVE Bytes(v, T) = Bytes(w, T) /\ Bytes(w, T) \in Nat
    <3>1. T \in SUBSET P
      BY <2>4
    <3>2. IsFiniteSet(T)
      BY <1>0, <3>1, FS_Subset
    <3>3. \A t \in P : UnackedSize(w, t) \in Nat
      BY <1>0, SizeNat
    <3>4. \A t \in T : UnackedSize(v, t) = UnackedSize(w, t) /\ UnackedSize(w, t) \in Nat
      <4> HIDE DEF Q
      <4>1. QED
        BY <2>11, <3>1, <3>3 DEF UnackedSize
    <3>5. QED
      BY <3>2, <3>4, BytesSame, BytesNat
  <2>15. Counted(v)
    <3>1. Cardinality(P) = n - o.min + 1 /\ Cardinality(Q) = n - m
      <4>1. Cardinality(o.min .. n) = n - o.min + 1
        <5>1. o.min \in Int /\ n \in Int /\ (IF o.min > n THEN 0 ELSE n - o.min + 1) = n - o.min + 1
          BY <1>1, <2>3
        <5>2. QED
          BY <5>1, FS_Interval
      <4>2. Cardinality((m + 1) .. n) = n - m
        <5>1. m + 1 \in Int /\ n \in Int /\ (IF m + 1 > n THEN 0 ELSE n - (m + 1) + 1) = n - m
          BY <1>1
        <5>2. QED
          BY <5>1, FS_Interval
      <4> HIDE DEF Q
      <4>3. QED
        BY <2>2, <2>4, <4>1, <4>2
    <3>2. w.size = n - o.min + 1 /\ w.unackedBytes = Bytes(w, P)
      BY <3>1 DEF Good, Counted
    <3>3. v.size = n - m
      BY <1>1, <2>10, <3>2
    <3>4. \A t \in P : UnackedSize(w, t) \in Nat
      BY <1>0, SizeNat
    <3>5. Bytes(w, P) = UnackedSize(w, o.min) + Bytes(w, P \ {o.min})
      BY <1>0, <2>3, <3>4, BytesRemove
    <3>6. P \ {o.min} = {t \in P : t > o.min}
      BY <1>1, <2>2
    <3>7. Bytes(w, {t \in P : t > o.min}) = w.total - w.node[o.min].total
      BY <2>3 DEF Single
    <3>8. Bytes(w, {t \in P : t > m}) = w.total - w.node[m].total
      BY <2>3 DEF Single
    <3>9. UnackedSize(w, o.min) = w.node[o.min].size
      BY <2>3 DEF UnackedSize
    <3>10. Bytes(w, Q) = w.total - w.node[m].total
      BY <2>4, <3>8
    <3>11. Bytes(w, P) = w.node[o.min].size + w.total - w.node[o.min].total
      <4>1. Bytes(w, P \ {o.min}) = w.total - w.node[o.min].total
        BY <3>6, <3>7
      <4>2. QED
        BY <1>0, <2>7, <3>5, <3>9, <4>1
    <3>12. v.unackedBytes = Bytes(w, Q)
      <4> HIDE DEF Q, bytes, P
      <4>1. v.unackedBytes = Bytes(w, P) - (w.node[m].total - w.node[o.min].total + w.node[o.min].size)
        BY <2>7, <2>10, <3>2
      <4>2. QED
        BY <1>0, <2>7, <3>10, <3>11, <4>1
    <3>13. Bytes(v, Q) = Bytes(w, Q)
      BY <2>14
    <3> HIDE DEF Q
    <3>14. QED
      BY <2>11, <3>1, <3>3, <3>12, <3>13 DEF Counted
  <2>16. Good(v, 0)
    <3> HIDE DEF Q
    <3>1. QED
      BY <2>10, <2>11, <2>12, <2>13, <2>15 DEF Good
  <2>17. IsTop(v, v.maxseq) /\ UpTo(v, n)
    <3>1. w.maxseq = n
      BY <1>0, <1>1, <1>3, <2>2, <2>3, SMTT(30)
    <3>2. CASE rest
      <4>1. v.maxseq = n /\ n \in Q
        BY <1>1, <2>4, <2>5, <2>10, <3>1, <3>2
      <4>2. \A s \in Q : s <= n
        BY <1>3
      <4>3. QED
        <5> HIDE DEF Q, p, N
        <5>1. v.open.maxp1 <= n + 1
          BY <1>1, <2>9, <2>10
        <5>2. IsTop(v, v.maxseq)
          BY <2>11, <4>1, <4>2 DEF IsTop
        <5>3. QED
          BY <2>11, <4>2, <5>1, <5>2 DEF UpTo
    <3>3. CASE ~rest
      <4>1. v.maxseq = 0 /\ Q = {}
        BY <1>1, <2>4, <2>5, <2>10, <3>3
      <4>2. QED
        <5> HIDE DEF Q, p, N
        <5>1. v.open.maxp1 <= n + 1
          BY <1>1, <2>9, <2>10
        <5>2. IsTop(v, v.maxseq)
          BY <2>11, <4>1 DEF IsTop
        <5>3. QED
          BY <2>11, <4>1, <5>1, <5>2 DEF UpTo
    <3>4. QED
      BY <3>2, <3>3
  <2>18. Removal(w, v, {}, S, 0)
    <3>1. \A t \in P : w.node[t].unacked \in BOOLEAN
      BY <1>0 DEF Nodes
    <3>2. IdxWithout(w, v, S, 0)
      BY <2>10 DEF IdxWithout
    <3>3. S \in SUBSET P /\ DOMAIN v.node = P \ S /\ Q \in SUBSET P
      BY <2>4, <2>11
    <3> HIDE DEF Q, S
    <3>4. QED
      BY <2>10, <2>11, <2>16, <2>17, <3>1, <3>2, <3>3 DEF Removal, Same
  <2>19. Single(v, n)
    <3>1. ASSUME NEW s \in Q
          PROVE  Bytes(v, {t \in Q : t > s}) = v.total - v.node[s].total
      <4>1. {t \in Q : t > s} = {t \in P : t > s}
        BY <1>0, <1>1, <2>4
      <4>2. {t \in Q : t > s} \in SUBSET Q /\ s \in P
        OBVIOUS
      <4>3. Bytes(w, {t \in P : t > s}) = w.total - w.node[s].total
        BY <4>2 DEF Single
      <4>4. Bytes(v, {t \in Q : t > s}) = Bytes(w, {t \in Q : t > s})
        <5> DEFINE T == {t \in Q : t > s}
        <5>1. T \in SUBSET Q
          OBVIOUS
        <5> HIDE DEF T, Q
        <5>2. Bytes(v, T) = Bytes(w, T)
          BY <2>14, <5>1
        <5>3. QED
          BY <5>2 DEF T
      <4>5. v.total = w.total /\ v.node[s] = w.node[s]
        BY <2>10, <2>11
      <4>6. QED
        BY <4>1, <4>3, <4>4, <4>5
    <3>2. v.closed = {} /\ v.open.maxp1 = n + 1
      BY <1>1, <2>9, <2>10
    <3> HIDE DEF Q
    <3>3. QED
      BY <2>11, <3>1, <3>2 DEF Single
  <2>20. \A s \in DOMAIN v.node : s > m /\ s > v.maxDrop
    BY <1>0, <1>1, <2>4, <2>10, <2>11
  <2>21. \E T : Removal(w, v, {}, T, 0) /\ \A s \in T : s <= m
    <3>1. \A s \in S : s <= m
      OBVIOUS
    <3>2. QED
      BY <2>18, <3>1
  <2>22. QED
    BY <1>1, <2>10, <2>17, <2>19, <2>20, <2>21
<1>6. QED
  BY <1>4, <1>5

-----------------------------------------------------------------------------
(* Inserting a sample in sequence *)

\* The new number extends the open interval or starts one.
LEMMA RunsAdd ==
  ASSUME NEW P \in SUBSET Seqs, NEW C \in SUBSET Ivs, NEW o \in Ivs, Runs(P, C, o),
         NEW s \in Seqs, s \notin P, o.maxp1 <= s,
         NEW B, o.min = o.maxp1 \/ o.maxp1 = s => B = C,
         o.min # o.maxp1 /\ o.maxp1 # s => B = C \cup {o},
         NEW i \in Ivs, i.maxp1 = s + 1, o.min # o.maxp1 /\ o.maxp1 = s => i.min = o.min,
         o.min = o.maxp1 \/ o.maxp1 # s => i.min = s
  PROVE  B \in SUBSET Ivs /\ Runs(P \cup {s}, B, i)
<1>0. s \in Nat /\ s >= 1 /\ s <= MaxSeq /\ MaxSeq \in Nat
  BY WhcAssumption DEF Seqs
<1>1. \A k \in C \cup {o} : k.min \in Nat /\ k.maxp1 \in Nat /\ 1 <= k.min
  BY IvNat
<1>2. /\ \A x \in Seqs : x \in P <=> \E j \in C \cup {o} : In(x, j)
      /\ \A j \in C : j.min < j.maxp1 /\ j.maxp1 < o.min
      /\ \A j, k \in C : j # k => j.maxp1 < k.min \/ k.maxp1 < j.min
      /\ o.min <= o.maxp1
  BY DEF Runs, Covers, BeforeOpen, Apart
<1>3. CASE o.min # o.maxp1 /\ o.maxp1 = s
  <2>1. B = C
    BY <1>3
  <2>2. i \in Ivs /\ i.min = o.min /\ i.maxp1 = s + 1
    BY <1>3
  <2>3. \A x \in Seqs : In(x, i) <=> In(x, o) \/ x = s
    BY <1>0, <1>1, <1>2, <1>3, <2>2 DEF In, Seqs
  <2>4. Covers(P \cup {s}, B, i)
    <3>1. \A x \in Seqs : x \in P \cup {s} <=> \E j \in C \cup {i} : In(x, j)
      BY <1>2, <2>3
    <3>2. QED
      BY <2>1, <3>1 DEF Covers
  <2>5. BeforeOpen(B, i) /\ Apart(B)
    BY <1>2, <2>1, <2>2 DEF BeforeOpen, Apart
  <2>6. i.min <= i.maxp1
    BY <1>0, <1>1, <1>2, <1>3, <2>2
  <2>7. QED
    BY <2>1, <2>2, <2>4, <2>5, <2>6 DEF Runs
<1>4. CASE o.min = o.maxp1
  <2>1. B = C
    BY <1>4
  <2>2. i \in Ivs /\ i.min = s /\ i.maxp1 = s + 1
    BY <1>4
  <2>3. \A x \in Seqs : (In(x, i) <=> x = s) /\ ~In(x, o)
    BY <1>0, <1>1, <1>4, <2>2 DEF In, Seqs
  <2>4. Covers(P \cup {s}, B, i)
    <3>1. \A x \in Seqs : x \in P \cup {s} <=> \E j \in C \cup {i} : In(x, j)
      BY <1>2, <2>3
    <3>2. QED
      BY <2>1, <3>1 DEF Covers
  <2>5. BeforeOpen(B, i) /\ Apart(B)
    BY <1>0, <1>1, <1>2, <2>1, <2>2 DEF BeforeOpen, Apart
  <2>6. QED
    BY <1>0, <2>1, <2>2, <2>4, <2>5 DEF Runs
<1>5. CASE o.min # o.maxp1 /\ o.maxp1 # s
  <2>1. B = C \cup {o}
    BY <1>5
  <2>2. i \in Ivs /\ i.min = s /\ i.maxp1 = s + 1
    BY <1>5
  <2>3. \A x \in Seqs : In(x, i) <=> x = s
    BY <1>0, <2>2 DEF In, Seqs
  <2>4. Covers(P \cup {s}, B, i)
    <3>1. \A x \in Seqs : x \in P \cup {s} <=> \E j \in (C \cup {o}) \cup {i} : In(x, j)
      BY <1>2, <2>3
    <3>2. QED
      BY <2>1, <3>1 DEF Covers
  <2>5. BeforeOpen(B, i)
    BY <1>0, <1>1, <1>2, <1>5, <2>1, <2>2 DEF BeforeOpen
  <2>6. Apart(B)
    BY <1>1, <1>2, <2>1 DEF Apart
  <2>7. QED
    BY <1>0, <2>1, <2>2, <2>4, <2>5, <2>6 DEF Runs
<1>6. QED
  BY <1>3, <1>4, <1>5

\* v is w with a new sample s at the end.
Inserted(w, v, m, s, kind, d) ==
  /\ Good(v, d) /\ s \notin DOMAIN w.node /\ DOMAIN v.node = DOMAIN w.node \cup {s}
  /\ \A t \in DOMAIN w.node : v.node[t] = w.node[t]
  /\ v.node[s].inst = NoInst /\ v.node[s].size = SizeOf(kind) /\ v.node[s].total = v.total
  /\ v.node[s].unacked = (s > m) /\ v.node[s].exp = Expires(kind)
  /\ v.idx = w.idx /\ v.maxseq = s /\ v.maxDrop = w.maxDrop
  /\ v.total = w.total + SizeOf(kind) /\ v.open.maxp1 = s + 1
  /\ w.closed = {} /\ (DOMAIN w.node = {} \/ w.open.maxp1 = s) => v.closed = {}

\* insert_whcn_in_hash and the intervals.
LEMMA InsertSeqInserts ==
  ASSUME qos \in QosType, NEW d \in Nat, NEW w, Good(w, d), NEW n \in Nat, n < MaxSeq, UpTo(w, n),
         NEW m \in Nat, NEW kind \in AllKinds, NEW s, s = n + 1, NEW v, v = InsertSeq(w, m, s, kind)
  PROVE  Inserted(w, v, m, s, kind, d)
<1> DEFINE P == DOMAIN w.node
           o == w.open
           size == SizeOf(kind)
           unacked == (s > m)
           e == [inst |-> NoInst, pos |-> 0, size |-> size, total |-> w.total + size,
                 unacked |-> unacked, exp |-> Expires(kind)]
           N == [t \in P \cup {s} |-> IF t = s THEN e ELSE w.node[t]]
           B == IF o.min = o.maxp1 \/ o.maxp1 = s THEN w.closed ELSE w.closed \cup {o}
           i == IF o.min # o.maxp1 /\ o.maxp1 = s THEN [o EXCEPT !.maxp1 = s + 1]
                ELSE [min |-> s, maxp1 |-> s + 1]
           bytes == w.unackedBytes + (IF unacked THEN size ELSE 0)
<1>0. /\ w \in Caches(d) /\ P \in SUBSET Seqs /\ IsFiniteSet(P) /\ w.node \in [P -> Nodes]
      /\ w.closed \in SUBSET Ivs /\ o \in Ivs /\ w.total \in Nat /\ w.unackedBytes \in Int /\ w.size \in Int
      /\ Runs(P, w.closed, o) /\ Linked(w, d) /\ Counted(w)
  BY CacheFields DEF Good
<1>1. s \in Seqs /\ s \in Nat /\ s # 0 /\ size \in Nat /\ unacked \in BOOLEAN /\ Expires(kind) \in BOOLEAN
  <2>1. s \in Seqs /\ s \in Nat /\ s # 0
    BY WhcAssumption DEF Seqs
  <2>2. size \in Nat
    BY DEF SizeOf
  <2>3. Expires(kind) \in BOOLEAN
    BY Depths DEF Expires
  <2>4. QED
    BY <2>1, <2>2, <2>3
<1>2. s \notin P /\ o.maxp1 <= s
  BY <1>1 DEF UpTo
<1>3. v = [w EXCEPT !.node = N, !.maxseq = s, !.total = w.total + size, !.unackedBytes = bytes,
                    !.closed = B, !.open = i, !.size = w.size + 1]
  <2>1. ~(o.min = o.maxp1) <=> o.min # o.maxp1
    OBVIOUS
  <2>2. QED
    BY <2>1 DEF InsertSeq
<1>4. /\ e \in Nodes /\ e.inst = NoInst /\ e.size = size /\ e.total = w.total + size
      /\ e.unacked = unacked /\ e.exp = Expires(kind)
  <2> HIDE DEF size, unacked
  <2>1. QED
    BY <1>0, <1>1 DEF Nodes
<1>5. B \in SUBSET Ivs /\ i \in Ivs /\ Runs(P \cup {s}, B, i) /\ i.maxp1 = s + 1
  <2>1. /\ o.min = o.maxp1 \/ o.maxp1 = s => B = w.closed
        /\ o.min # o.maxp1 /\ o.maxp1 # s => B = w.closed \cup {o}
    OBVIOUS
  <2>2. /\ i \in Ivs /\ i.maxp1 = s + 1
        /\ o.min # o.maxp1 /\ o.maxp1 = s => i.min = o.min
        /\ o.min = o.maxp1 \/ o.maxp1 # s => i.min = s
    <3>1. s \in 1 .. MaxSeq + 1 /\ s + 1 \in 1 .. MaxSeq + 1
      BY <1>1, WhcAssumption DEF Seqs
    <3>2. CASE o.min # o.maxp1 /\ o.maxp1 = s
      <4>1. i = [o EXCEPT !.maxp1 = s + 1]
        BY <3>2
      <4> HIDE DEF i
      <4>2. QED
        BY <1>0, <3>1, <3>2, <4>1 DEF Ivs
    <3>3. CASE ~(o.min # o.maxp1 /\ o.maxp1 = s)
      <4>1. i = [min |-> s, maxp1 |-> s + 1]
        BY <3>3
      <4> HIDE DEF i
      <4>2. QED
        BY <3>1, <3>3, <4>1, IvMade
    <3>4. QED
      BY <3>2, <3>3
  <2> HIDE DEF B, i, P, o
  <2>3. QED
    BY <1>0, <1>1, <1>2, <2>1, <2>2, RunsAdd
<1> HIDE DEF e, size, unacked, i, B
<1>6. N \in NodeMaps /\ DOMAIN N = P \cup {s} /\ N[s] = e /\ \A t \in P : N[t] = w.node[t]
  <2>1. DOMAIN N = P \cup {s} /\ N[s] = e /\ \A t \in P : N[t] = w.node[t]
    BY <1>2
  <2>2. P \cup {s} \in SUBSET Seqs
    BY <1>0, <1>1
  <2>3. N \in [P \cup {s} -> Nodes]
    BY <1>0, <1>4
  <2> HIDE DEF N, P
  <2>4. QED
    BY <2>1, <2>2, <2>3, NodesMade
<1>7. /\ v \in Caches(d) /\ v.node = N /\ v.maxseq = s /\ v.total = w.total + size /\ v.unackedBytes = bytes
      /\ v.closed = B /\ v.open = i /\ v.size = w.size + 1 /\ v.idx = w.idx /\ v.maxDrop = w.maxDrop
  <2>1. bytes \in Int /\ w.total + size \in Nat /\ w.size + 1 \in Int
    BY <1>0, <1>1
  <2> HIDE DEF N, bytes
  <2>2. QED
    BY <1>0, <1>1, <1>3, <1>5, <1>6, <2>1 DEF Caches
<1> HIDE DEF N
<1>8. /\ DOMAIN v.node = P \cup {s} /\ v.node[s] = e /\ \A t \in P : v.node[t] = w.node[t]
  BY <1>6, <1>7
<1>9. Linked(v, d)
  <2>1. ASSUME NEW t \in DOMAIN v.node, v.node[t].inst # NoInst
        PROVE  /\ v.node[t].inst \in DOMAIN v.idx /\ v.node[t].pos \in 0 .. d - 1
               /\ v.idx[v.node[t].inst].hist[v.node[t].pos] = t
    <3>1. t \in P
      BY <1>4, <1>8, <2>1
    <3>2. QED
      <4>1. v.node[t] = w.node[t] /\ v.idx = w.idx /\ w.node[t].inst # NoInst
        BY <1>7, <1>8, <2>1, <3>1
      <4>2. /\ w.node[t].inst \in DOMAIN w.idx /\ w.node[t].pos \in 0 .. d - 1
            /\ w.idx[w.node[t].inst].hist[w.node[t].pos] = t
        BY <1>0, <3>1, <4>1, SampleSlot
      <4>3. QED
        BY <4>1, <4>2
  <2>2. ASSUME NEW k \in DOMAIN v.idx, NEW p \in 0 .. d - 1, v.idx[k].hist[p] # 0
        PROVE  LET t == v.idx[k].hist[p] IN t \in DOMAIN v.node /\ v.node[t].inst = k /\ v.node[t].pos = p
    <3>1. LET t == w.idx[k].hist[p] IN t \in P /\ w.node[t].inst = k /\ w.node[t].pos = p
      <4>1. k \in DOMAIN w.idx /\ w.idx[k].hist[p] # 0
        BY <1>7, <2>2
      <4>2. QED
        BY <1>0, <4>1, SlotSample
    <3>2. QED
      BY <1>7, <1>8, <3>1
  <2>3. QED
    BY <1>0, <1>7, <2>1, <2>2 DEF Linked
<1>10. Counted(v)
  <2>1. w.size = Cardinality(P) /\ w.unackedBytes = Bytes(w, P)
    BY <1>0 DEF Counted
  <2>2. v.size = Cardinality(P \cup {s})
    <3>1. Cardinality(P \cup {s}) = Cardinality(P) + 1
      BY <1>0, <1>2, FS_AddElement
    <3>2. QED
      BY <1>7, <2>1, <3>1
  <2>3. \A t \in P : UnackedSize(v, t) = UnackedSize(w, t) /\ UnackedSize(w, t) \in Nat
    <3>1. \A t \in P : UnackedSize(w, t) \in Nat
      BY <1>0, SizeNat
    <3>2. QED
      BY <1>8, <3>1 DEF UnackedSize
  <2>4. UnackedSize(v, s) = (IF unacked THEN size ELSE 0) /\ UnackedSize(v, s) \in Nat
    BY <1>1, <1>4, <1>8 DEF UnackedSize
  <2>5. Bytes(v, P) = Bytes(w, P) /\ Bytes(w, P) \in Nat
    BY <1>0, <2>3, BytesSame, BytesNat
  <2>6. Bytes(v, P \cup {s}) = Bytes(v, P) + UnackedSize(v, s)
    <3>1. \A t \in P : UnackedSize(v, t) \in Nat
      BY <2>3
    <3>2. QED
      BY <1>0, <1>2, <2>4, <3>1, BytesAdd
  <2>7. v.unackedBytes = Bytes(v, P \cup {s})
    BY <1>7, <2>1, <2>4, <2>5, <2>6
  <2>8. QED
    BY <1>8, <2>2, <2>7 DEF Counted
<1>11. Good(v, d)
  BY <1>5, <1>7, <1>8, <1>9, <1>10 DEF Good
<1>12. w.closed = {} /\ (P = {} \/ o.maxp1 = s) => v.closed = {}
  <2>1. P = {} => o.min = o.maxp1
    <3>1. SUFFICES ASSUME P = {}, o.min # o.maxp1 PROVE FALSE
      OBVIOUS
    <3>2. o.min \in Nat /\ o.maxp1 \in Nat /\ o.maxp1 <= MaxSeq + 1 /\ 1 <= o.min /\ MaxSeq \in Nat
      BY <1>0, IvNat
    <3>3. o.min < o.maxp1
      BY <1>0, <3>1, <3>2 DEF Runs
    <3>4. o.min \in Seqs /\ In(o.min, o)
      BY <3>2, <3>3 DEF Seqs, In
    <3>5. o.min \in P
      BY <1>0, <3>4 DEF Runs, Covers
    <3>6. QED
      BY <3>1, <3>5
  <2>2. QED
    BY <1>7, <2>1 DEF B
<1>13. QED
  BY <1>2, <1>4, <1>5, <1>7, <1>8, <1>11, <1>12 DEF Inserted, size, unacked

-----------------------------------------------------------------------------
(* The index of instances *)

\* The sample t of w and v, but for its place in the index.
Weight(w, v, t) ==
  /\ v.node[t].size = w.node[t].size /\ v.node[t].total = w.node[t].total
  /\ v.node[t].unacked = w.node[t].unacked /\ v.node[t].exp = w.node[t].exp
\* Operations on the index leave the rest alone.
OnlyIndex(w, v) ==
  /\ DOMAIN v.node = DOMAIN w.node /\ \A t \in DOMAIN w.node : Weight(w, v, t)
  /\ v.open = w.open /\ v.closed = w.closed /\ v.size = w.size /\ v.unackedBytes = w.unackedBytes
  /\ Rest(w, v)

\* If the links are right, so is the cache.
LEMMA Relinked ==
  ASSUME NEW d, NEW w, Good(w, d), NEW v \in Caches(d), OnlyIndex(w, v), Linked(v, d)
  PROVE  Good(v, d)
<1>1. Bytes(v, DOMAIN w.node) = Bytes(w, DOMAIN w.node)
  <2>1. \A t \in DOMAIN w.node : UnackedSize(v, t) = UnackedSize(w, t)
    BY DEF OnlyIndex, Weight, UnackedSize
  <2>2. IsFiniteSet(DOMAIN w.node) /\ \A t \in DOMAIN w.node : UnackedSize(w, t) \in Nat
    BY CacheFields, SizeNat DEF Good
  <2>3. QED
    BY <2>1, <2>2, BytesSame
<1>2. Counted(v)
  BY <1>1 DEF Counted, Good, OnlyIndex
<1>3. QED
  BY <1>2 DEF Good, OnlyIndex

\* One operation on the index after another.
LEMMA OnlyIndexMore ==
  ASSUME NEW w, NEW u, NEW v, OnlyIndex(w, u), OnlyIndex(u, v)
  PROVE  OnlyIndex(w, v)
<1>1. DOMAIN u.node = DOMAIN w.node /\ DOMAIN v.node = DOMAIN w.node
  BY DEF OnlyIndex
<1>2. ASSUME NEW t \in DOMAIN w.node PROVE Weight(w, v, t)
  <2>1. Weight(w, u, t) /\ Weight(u, v, t)
    BY <1>1 DEF OnlyIndex
  <2>2. QED
    BY <2>1 DEF Weight
<1>3. Rest(w, v)
  BY DEF OnlyIndex, Rest
<1>4. QED
  BY <1>1, <1>2, <1>3 DEF OnlyIndex

\* A node without one.
LEMMA FreeNode ==
  ASSUME NEW n \in Nodes, NEW b, b = [n EXCEPT !.inst = NoInst]
  PROVE  /\ b \in Nodes /\ b.inst = NoInst /\ b.pos = n.pos /\ b.size = n.size
         /\ b.total = n.total /\ b.exp = n.exp /\ b.unacked = n.unacked
  BY DEF Nodes

\* The samples in S lose their place in the index.
LEMMA DetachFields ==
  ASSUME NEW d, NEW w \in Caches(d), NEW S, NEW v, v = Detach(w, S)
  PROVE  /\ v \in Caches(d) /\ v.idx = w.idx /\ OnlyIndex(w, v)
         /\ \A t \in DOMAIN w.node : /\ t \notin S => v.node[t] = w.node[t]
                                     /\ t \in S => v.node[t].inst = NoInst
<1> DEFINE P == DOMAIN w.node
           N == [t \in P |-> IF t \in S THEN [w.node[t] EXCEPT !.inst = NoInst] ELSE w.node[t]]
<1>0. P \in SUBSET Seqs /\ w.node \in [P -> Nodes]
  BY CacheFields
<1>1. v = [w EXCEPT !.node = N]
  BY DEF Detach
<1>2. \A t \in P : /\ N[t] \in Nodes /\ N[t].size = w.node[t].size /\ N[t].total = w.node[t].total
                   /\ N[t].exp = w.node[t].exp /\ N[t].unacked = w.node[t].unacked
                   /\ t \notin S => N[t] = w.node[t]
                   /\ t \in S => N[t].inst = NoInst
  <2>1. SUFFICES ASSUME NEW t \in P
                 PROVE  /\ N[t] \in Nodes /\ N[t].size = w.node[t].size /\ N[t].total = w.node[t].total
                        /\ N[t].exp = w.node[t].exp /\ N[t].unacked = w.node[t].unacked
                        /\ t \notin S => N[t] = w.node[t]
                        /\ t \in S => N[t].inst = NoInst
    OBVIOUS
  <2>2. CASE t \in S
    <3> DEFINE b == [w.node[t] EXCEPT !.inst = NoInst]
    <3>1. N[t] = b
      BY <2>2
    <3>2. /\ b \in Nodes /\ b.inst = NoInst /\ b.size = w.node[t].size
          /\ b.total = w.node[t].total /\ b.exp = w.node[t].exp /\ b.unacked = w.node[t].unacked
      BY <1>0, FreeNode
    <3> HIDE DEF b, N
    <3>3. QED
      BY <2>2, <3>1, <3>2
  <2>3. CASE t \notin S
    <3>1. N[t] = w.node[t] /\ w.node[t] \in Nodes
      BY <1>0, <2>3
    <3> HIDE DEF N
    <3>2. QED
      BY <2>3, <3>1
  <2>4. QED
    BY <2>2, <2>3
<1>3. DOMAIN N = P /\ N \in NodeMaps
  <2>1. DOMAIN N = P /\ N = [t \in P |-> N[t]] /\ \A t \in P : N[t] \in Nodes
    BY <1>2
  <2> HIDE DEF N
  <2>2. N \in [P -> Nodes]
    BY <2>1
  <2>3. QED
    BY <1>0, <2>1, <2>2, NodesMade
<1> HIDE DEF N
<1>4. /\ v \in Caches(d) /\ v.node = N /\ v.idx = w.idx /\ v.open = w.open /\ v.closed = w.closed
      /\ v.size = w.size /\ v.unackedBytes = w.unackedBytes /\ Rest(w, v)
  BY <1>1, <1>3 DEF Caches, Rest
<1>5. QED
  BY <1>2, <1>3, <1>4 DEF OnlyIndex, Weight

\* v is w with the sample s in the slot p of instance k.
Placed(w, v, s, k, p, d) ==
  /\ v \in Caches(d) /\ OnlyIndex(w, v)
  /\ v.node[s].inst = k /\ v.node[s].pos = p
  /\ \A t \in DOMAIN w.node : t # s => v.node[t] = w.node[t]
  /\ DOMAIN v.idx = DOMAIN w.idx
  /\ \A j \in DOMAIN w.idx : j # k => v.idx[j] = w.idx[j]
  /\ v.idx[k].head = p
  /\ \A q \in 0 .. d - 1 : v.idx[k].hist[q] = IF q = p THEN s ELSE w.idx[k].hist[q]

\* Index puts it there.
LEMMA IndexPlaces ==
  ASSUME NEW d \in Nat, NEW w \in Caches(d), NEW s \in DOMAIN w.node, NEW k \in DOMAIN w.idx,
         NEW p \in 0 .. d - 1, NEW v, v = Index(w, s, k, p)
  PROVE  Placed(w, v, s, k, p, d)
<1> DEFINE P == DOMAIN w.node
           X == [head : Nat, hist : [0 .. d - 1 -> 0 .. MaxSeq]]
           b == [w.node[s] EXCEPT !.inst = k, !.pos = p]
           N == [w.node EXCEPT ![s] = b]
           y == [w.idx[k] EXCEPT !.head = p, !.hist = [w.idx[k].hist EXCEPT ![p] = s]]
           I == [w.idx EXCEPT ![k] = y]
<1>0. /\ P \in SUBSET Seqs /\ w.node \in [P -> Nodes] /\ DOMAIN w.idx \in SUBSET Keys
      /\ w.idx \in [DOMAIN w.idx -> X]
  BY CacheFields
<1>1. v = [w EXCEPT !.node = N, !.idx = I]
  <2> DEFINE z == [w.idx[k] EXCEPT !.head = p]
             J == [w.idx EXCEPT ![k] = z]
             w1 == [w EXCEPT !.idx = J]
             w2 == [w1 EXCEPT !.idx = I]
             c == [w.node[s] EXCEPT !.inst = k]
             M == [w.node EXCEPT ![s] = c]
             w3 == [w2 EXCEPT !.node = M]
             w4 == [w3 EXCEPT !.node = N]
  <2>1. w1.idx = J /\ w1.idx[k] = z /\ z.hist = w.idx[k].hist
    <3>1. w1.idx = J
      BY DEF Caches
    <3>2. J[k] = z
      BY <1>0
    <3>3. z.hist = w.idx[k].hist
      <4>1. w.idx[k] \in X
        BY <1>0
      <4>2. QED
        BY <4>1
    <3>4. QED
      BY <3>1, <3>2, <3>3
  <2>2. [w1.idx EXCEPT ![k] = [w1.idx[k] EXCEPT !.hist = [w1.idx[k].hist EXCEPT ![p] = s]]] = I
    <3>1. [z EXCEPT !.hist = [w.idx[k].hist EXCEPT ![p] = s]] = y
      OBVIOUS
    <3> HIDE DEF z, y
    <3>2. [J EXCEPT ![k] = y] = I
      BY <1>0
    <3>3. QED
      BY <2>1, <3>1, <3>2
  <2>3. w2.node = w.node /\ w3.node = M /\ w3.node[s] = c
    <3>1. w2.node = w.node /\ w3.node = M
      BY DEF Caches
    <3>2. M[s] = c
      BY <1>0
    <3>3. QED
      BY <3>1, <3>2
  <2>4. [w3.node EXCEPT ![s] = [w3.node[s] EXCEPT !.pos = p]] = N
    <3>1. [c EXCEPT !.pos = p] = b
      OBVIOUS
    <3> HIDE DEF c, b
    <3>2. [M EXCEPT ![s] = b] = N
      BY <1>0
    <3>3. QED
      BY <2>3, <3>1, <3>2
  <2>5. v = w4
    <3>1. v = [[[[w EXCEPT !.idx[k].head = p] EXCEPT !.idx[k].hist[p] = s]
                  EXCEPT !.node[s].inst = k] EXCEPT !.node[s].pos = p]
      BY Zenon DEF Index
    <3>2. QED
      BY <3>1, <2>1, <2>2, <2>3, <2>4, Zenon
  <2> HIDE DEF I, J, M, N
  <2>6. QED
    BY <2>5 DEF Caches
<1>2. s \in 0 .. MaxSeq /\ p \in Nat
  BY <1>0, WhcAssumption DEF Seqs
<1>3. /\ b \in Nodes /\ b.inst = k /\ b.pos = p /\ b.size = w.node[s].size
      /\ b.total = w.node[s].total /\ b.exp = w.node[s].exp /\ b.unacked = w.node[s].unacked
  <2>1. w.node[s] \in Nodes /\ k \in Keys \cup {NoInst}
    BY <1>0
  <2>2. QED
    BY <1>2, <2>1 DEF Nodes
<1>4. /\ y \in X /\ y.head = p
      /\ \A q \in 0 .. d - 1 : y.hist[q] = IF q = p THEN s ELSE w.idx[k].hist[q]
  <2>1. w.idx[k] \in X
    BY <1>0
  <2>2. QED
    BY <1>2, <2>1
<1> HIDE DEF b, y
<1>5. N \in NodeMaps /\ DOMAIN N = P /\ N[s] = b /\ \A t \in P : t # s => N[t] = w.node[t]
  <2>1. N \in [P -> Nodes] /\ N[s] = b /\ \A t \in P : t # s => N[t] = w.node[t]
    BY <1>0, <1>3
  <2> HIDE DEF N, P
  <2>2. QED
    BY <1>0, <2>1, NodesMade
<1>6. I \in IdxMaps(d) /\ DOMAIN I = DOMAIN w.idx /\ I[k] = y /\ \A j \in DOMAIN w.idx : j # k => I[j] = w.idx[j]
  <2> HIDE DEF X
  <2>1. I \in [DOMAIN w.idx -> X] /\ I[k] = y /\ \A j \in DOMAIN w.idx : j # k => I[j] = w.idx[j]
    BY <1>0, <1>4
  <2> HIDE DEF I
  <2>2. QED
    BY <1>0, <2>1, IdxMade DEF X
<1> HIDE DEF N, I
<1>7. /\ v \in Caches(d) /\ v.node = N /\ v.idx = I /\ v.open = w.open /\ v.closed = w.closed
      /\ v.size = w.size /\ v.unackedBytes = w.unackedBytes /\ Rest(w, v)
  BY <1>1, <1>5, <1>6 DEF Caches, Rest
<1>8. OnlyIndex(w, v)
  BY <1>3, <1>5, <1>7 DEF OnlyIndex, Weight
<1>9. QED
  BY <1>3, <1>4, <1>5, <1>6, <1>7, <1>8 DEF Placed

\* v is w with s in slot p of instance k, in the place of old.
Reindexed(w, v, s, k, p, old, d) ==
  /\ Good(v, d) /\ OnlyIndex(w, v)
  /\ v.node[s].inst = k /\ v.node[s].pos = p
  /\ \A t \in DOMAIN w.node : t # s /\ t # old => v.node[t] = w.node[t]
  /\ old # 0 => old # s /\ old \in DOMAIN w.node /\ v.node[old].inst = NoInst
  /\ DOMAIN v.idx = DOMAIN w.idx
  /\ \A j \in DOMAIN w.idx : j # k => v.idx[j] = w.idx[j]
  /\ v.idx[k].head = p
  /\ \A q \in 0 .. d - 1 : v.idx[k].hist[q] = IF q = p THEN s ELSE w.idx[k].hist[q]

\* A new sample takes the slot of an old one.
LEMMA IndexReplaces ==
  ASSUME NEW d \in Nat, NEW w, Good(w, d), NEW s \in DOMAIN w.node, w.node[s].inst = NoInst,
         NEW k \in DOMAIN w.idx, NEW p \in 0 .. d - 1, NEW old, old = w.idx[k].hist[p],
         NEW v, v = Index(Detach(w, {old}), s, k, p)
  PROVE  Reindexed(w, v, s, k, p, old, d)
<1> DEFINE u == Detach(w, {old})
<1>0. w \in Caches(d) /\ Linked(w, d) /\ 0 \notin DOMAIN w.node /\ NoInst \notin DOMAIN w.idx
  <2>1. w \in Caches(d) /\ Linked(w, d)
    BY DEF Good
  <2>2. QED
    BY <2>1, CacheFields, WhcAssumption DEF Seqs
<1>1. /\ u \in Caches(d) /\ u.idx = w.idx /\ OnlyIndex(w, u)
      /\ \A t \in DOMAIN w.node : /\ t # old => u.node[t] = w.node[t]
                                  /\ t = old => u.node[t].inst = NoInst
  <2>1. \A t : t \in {old} <=> t = old
    OBVIOUS
  <2>2. QED
    BY <1>0, <2>1, DetachFields
<1>2. v = Index(u, s, k, p)
  OBVIOUS
<1> HIDE DEF u
<1>3. DOMAIN u.node = DOMAIN w.node
  BY <1>1 DEF OnlyIndex
<1>4. /\ v \in Caches(d) /\ OnlyIndex(u, v)
      /\ v.node[s].inst = k /\ v.node[s].pos = p
      /\ \A t \in DOMAIN w.node : t # s => v.node[t] = u.node[t]
      /\ DOMAIN v.idx = DOMAIN w.idx
      /\ \A j \in DOMAIN w.idx : j # k => v.idx[j] = w.idx[j]
      /\ v.idx[k].head = p
      /\ \A q \in 0 .. d - 1 : v.idx[k].hist[q] = IF q = p THEN s ELSE w.idx[k].hist[q]
  <2>1. s \in DOMAIN u.node /\ k \in DOMAIN u.idx /\ u \in Caches(d)
    BY <1>1, <1>3
  <2>2. Placed(u, v, s, k, p, d)
    BY <1>2, <2>1, IndexPlaces
  <2>3. u.idx = w.idx
    BY <1>1
  <2>4. QED
    BY <1>3, <2>2, <2>3 DEF Placed
<1>5. OnlyIndex(w, v)
  BY <1>1, <1>4, OnlyIndexMore
<1>6. old # 0 => old \in DOMAIN w.node /\ w.node[old].inst = k /\ w.node[old].pos = p /\ old # s /\ v.node[old].inst = NoInst
  <2>1. SUFFICES ASSUME old # 0
                 PROVE  old \in DOMAIN w.node /\ w.node[old].inst = k /\ w.node[old].pos = p /\ old # s /\ v.node[old].inst = NoInst
    OBVIOUS
  <2>2. old \in DOMAIN w.node /\ w.node[old].inst = k /\ w.node[old].pos = p
    BY <1>0, <2>1 DEF Linked
  <2>3. old # s
    BY <1>0, <2>2
  <2>4. QED
    BY <1>1, <1>4, <2>2, <2>3
<1>7. \A t \in DOMAIN w.node : t # s /\ t # old => v.node[t] = w.node[t]
  BY <1>1, <1>4
<1>8. Linked(v, d)
  <2>1. ASSUME NEW t \in DOMAIN v.node, v.node[t].inst # NoInst
        PROVE  /\ v.node[t].inst \in DOMAIN v.idx /\ v.node[t].pos \in 0 .. d - 1
               /\ v.idx[v.node[t].inst].hist[v.node[t].pos] = t
    <3>1. CASE t = s
      BY <1>4, <3>1
    <3>2. CASE t # s
      <4>1. t # old /\ t \in DOMAIN w.node
        BY <1>0, <1>5, <1>6, <2>1 DEF OnlyIndex
      <4>2. v.node[t] = w.node[t]
        BY <1>7, <3>2, <4>1
      <4>3. /\ w.node[t].inst \in DOMAIN w.idx /\ w.node[t].pos \in 0 .. d - 1
            /\ w.idx[w.node[t].inst].hist[w.node[t].pos] = t
        BY <1>0, <2>1, <4>1, <4>2 DEF Linked
      <4>4. ~(w.node[t].inst = k /\ w.node[t].pos = p)
        BY <4>1, <4>3
      <4>5. CASE w.node[t].inst = k
        <5>1. w.node[t].pos # p
          BY <4>4, <4>5
        <5>2. v.idx[k].hist[w.node[t].pos] = w.idx[k].hist[w.node[t].pos]
          BY <1>4, <4>3, <5>1
        <5>3. QED
          BY <1>4, <4>2, <4>3, <4>5, <5>2
      <4>6. CASE w.node[t].inst # k
        <5>1. v.idx[w.node[t].inst] = w.idx[w.node[t].inst] /\ w.node[t].inst \in DOMAIN v.idx
          BY <1>4, <4>3, <4>6
        <5>2. QED
          BY <4>2, <4>3, <5>1
      <4>7. QED
        BY <4>5, <4>6
    <3>3. QED
      BY <3>1, <3>2
  <2>2. ASSUME NEW j \in DOMAIN v.idx, NEW q \in 0 .. d - 1, v.idx[j].hist[q] # 0
        PROVE  LET t == v.idx[j].hist[q] IN t \in DOMAIN v.node /\ v.node[t].inst = j /\ v.node[t].pos = q
    <3>0. DOMAIN v.node = DOMAIN w.node
      BY <1>5 DEF OnlyIndex
    <3>1. CASE j = k /\ q = p
      BY <1>4, <3>0, <3>1
    <3>2. CASE ~(j = k /\ q = p)
      <4> DEFINE t == w.idx[j].hist[q]
      <4>1. v.idx[j].hist[q] = t /\ j \in DOMAIN w.idx
        <5>1. j \in DOMAIN w.idx
          BY <1>4
        <5>2. CASE j = k
          BY <1>4, <3>2, <5>1, <5>2
        <5>3. CASE j # k
          BY <1>4, <5>1, <5>3
        <5>4. QED
          BY <5>1, <5>2, <5>3
      <4>2. t # 0
        BY <2>2, <4>1
      <4>3. t \in DOMAIN w.node /\ w.node[t].inst = j /\ w.node[t].pos = q
        <5>1. Linked(w, d) /\ j \in DOMAIN w.idx
          BY <1>0, <4>1
        <5>2. QED
          BY <4>2, <5>1, SlotSample
      <4> HIDE DEF t
      <4>4. t # s
        BY <1>0, <4>1, <4>3
      <4>5. t # old
        BY <1>6, <3>2, <4>2, <4>3
      <4>6. v.node[t] = w.node[t] /\ t \in DOMAIN v.node
        BY <1>7, <3>0, <4>3, <4>4, <4>5
      <4>7. QED
        BY <4>1, <4>3, <4>6
    <3>3. QED
      BY <3>1, <3>2
  <2>3. ASSUME NEW j \in DOMAIN v.idx, d > 0 PROVE v.idx[j].head \in 0 .. d - 1
    <3>1. CASE j = k
      BY <1>4, <3>1
    <3>2. CASE j # k
      <4>1. j \in DOMAIN w.idx /\ v.idx[j] = w.idx[j]
        BY <1>4, <3>2
      <4>2. w.idx[j].head \in 0 .. d - 1
        BY <1>0, <2>3, <4>1 DEF Linked
      <4>3. QED
        BY <4>1, <4>2
    <3>3. QED
      BY <3>1, <3>2
  <2>4. QED
    BY <2>1, <2>2, <2>3 DEF Linked
<1>9. Good(v, d)
  BY <1>4, <1>5, <1>8, Relinked
<1>10. QED
  BY <1>4, <1>5, <1>6, <1>7, <1>9 DEF Reindexed

\* v is w with a new instance k.
Fresh(w, v, k, d) ==
  /\ Good(v, d) /\ OnlyIndex(w, v) /\ v.node = w.node /\ DOMAIN v.idx = DOMAIN w.idx \cup {k}
  /\ \A j \in DOMAIN w.idx : v.idx[j] = w.idx[j]
  /\ v.idx[k].head = 0 /\ \A q \in 0 .. d - 1 : v.idx[k].hist[q] = 0

\* What the first part of NewInstance does, before the sample is indexed.
LEMMA NewInstanceFields ==
  ASSUME NEW d \in Nat, NEW w, Good(w, d), NEW k \in Keys, k \notin DOMAIN w.idx, NEW x,
         x = [head |-> 0, hist |-> [q \in 0 .. d - 1 |-> 0]], NEW v,
         v = [w EXCEPT !.idx = [j \in DOMAIN w.idx \cup {k} |-> IF j = k THEN x ELSE w.idx[j]]]
  PROVE  Fresh(w, v, k, d)
<1> DEFINE I == [j \in DOMAIN w.idx \cup {k} |-> IF j = k THEN x ELSE w.idx[j]]
           X == [head : Nat, hist : [0 .. d - 1 -> 0 .. MaxSeq]]
<1>0. w \in Caches(d) /\ Linked(w, d) /\ DOMAIN w.idx \in SUBSET Keys /\ w.idx \in [DOMAIN w.idx -> X]
  BY CacheFields DEF Good
<1>1. x \in X /\ x.head = 0 /\ \A q \in 0 .. d - 1 : x.hist[q] = 0
  BY WhcAssumption
<1>2. /\ I \in IdxMaps(d) /\ DOMAIN I = DOMAIN w.idx \cup {k} /\ I[k] = x
      /\ \A j \in DOMAIN w.idx : I[j] = w.idx[j]
  <2> HIDE DEF X
  <2>1. I \in [DOMAIN w.idx \cup {k} -> X] /\ I[k] = x /\ \A j \in DOMAIN w.idx : I[j] = w.idx[j]
    BY <1>0, <1>1
  <2> HIDE DEF I
  <2>2. DOMAIN w.idx \cup {k} \in SUBSET Keys
    BY <1>0
  <2>3. QED
    BY <2>1, <2>2, IdxMade DEF X
<1>3. v = [w EXCEPT !.idx = I]
  OBVIOUS
<1> HIDE DEF I
<1>4. /\ v \in Caches(d) /\ v.node = w.node /\ v.idx = I /\ v.open = w.open /\ v.closed = w.closed
      /\ v.size = w.size /\ v.unackedBytes = w.unackedBytes /\ Rest(w, v)
  BY <1>0, <1>2, <1>3 DEF Caches, Rest
<1>5. OnlyIndex(w, v)
  BY <1>4 DEF OnlyIndex, Weight
<1>6. Linked(v, d)
  <2>1. ASSUME NEW t \in DOMAIN v.node, v.node[t].inst # NoInst
        PROVE  /\ v.node[t].inst \in DOMAIN v.idx /\ v.node[t].pos \in 0 .. d - 1
               /\ v.idx[v.node[t].inst].hist[v.node[t].pos] = t
    <3> DEFINE j == w.node[t].inst
    <3>1. t \in DOMAIN w.node /\ v.node[t] = w.node[t] /\ j # NoInst
      BY <1>4, <2>1
    <3>2. j \in DOMAIN w.idx /\ w.node[t].pos \in 0 .. d - 1 /\ w.idx[j].hist[w.node[t].pos] = t
      BY <1>0, <3>1, SampleSlot
    <3>3. j \in DOMAIN v.idx /\ v.idx[j] = w.idx[j]
      BY <1>2, <1>4, <3>2
    <3>4. QED
      BY <3>1, <3>2, <3>3
  <2>2. ASSUME NEW j \in DOMAIN v.idx, NEW q \in 0 .. d - 1, v.idx[j].hist[q] # 0
        PROVE  LET t == v.idx[j].hist[q] IN t \in DOMAIN v.node /\ v.node[t].inst = j /\ v.node[t].pos = q
    <3>1. j \in DOMAIN w.idx /\ v.idx[j] = w.idx[j]
      BY <1>1, <1>2, <1>4, <2>2
    <3> DEFINE t == w.idx[j].hist[q]
    <3>2. t \in DOMAIN w.node /\ w.node[t].inst = j /\ w.node[t].pos = q
      <4>1. t # 0
        BY <2>2, <3>1
      <4>2. QED
        BY <1>0, <3>1, <4>1, SlotSample
    <3> HIDE DEF t
    <3>3. QED
      BY <1>4, <3>1, <3>2 DEF t
  <2>3. d > 0 => \A j \in DOMAIN v.idx : v.idx[j].head \in 0 .. d - 1
    <3>1. SUFFICES ASSUME d > 0, NEW j \in DOMAIN v.idx PROVE v.idx[j].head \in 0 .. d - 1
      OBVIOUS
    <3>2. CASE j \in DOMAIN w.idx
      <4>1. w.idx[j].head \in 0 .. d - 1
        BY <1>0, <3>1, <3>2, HeadIn
      <4>2. v.idx[j] = w.idx[j]
        BY <1>2, <1>4, <3>2
      <4>3. QED
        BY <4>1, <4>2
    <3>3. CASE j \notin DOMAIN w.idx
      BY <1>0, <1>1, <1>2, <1>4, <3>1, <3>3
    <3>4. QED
      BY <3>2, <3>3
  <2>4. QED
    BY <2>1, <2>2, <2>3 DEF Linked
<1>7. Good(v, d)
  BY <1>4, <1>5, <1>6, Relinked
<1>8. QED
  BY <1>1, <1>2, <1>4, <1>5, <1>7 DEF Fresh

\* v is w without instance k, whose samples S stay but are no longer indexed.
Unlisted(w, v, k, S, d) ==
  /\ Good(v, d) /\ OnlyIndex(w, v)
  /\ \A t \in DOMAIN w.node : /\ t \in S => v.node[t].inst = NoInst
                              /\ t \notin S => v.node[t] = w.node[t]
  /\ DOMAIN v.idx = DOMAIN w.idx \ {k}
  /\ \A j \in DOMAIN v.idx : v.idx[j] = w.idx[j]

\* The part of delete_one_instance_from_idx that is about the index.
CutOut(w, S, k) == [Detach(w, S) EXCEPT !.idx = Restrict(Detach(w, S).idx, DOMAIN Detach(w, S).idx \ {k})]

\* What taking an instance out of the index does.
LEMMA InstanceUnlisted ==
  ASSUME NEW d \in Nat, NEW w, Good(w, d), NEW k \in DOMAIN w.idx,
         NEW S, S = Range(w.idx[k].hist) \ {0}, NEW v, v = CutOut(w, S, k)
  PROVE  Unlisted(w, v, k, S, d) /\ S = {t \in DOMAIN w.node : w.node[t].inst = k}
<1> DEFINE u == Detach(w, S)
           X == [head : Nat, hist : [0 .. d - 1 -> 0 .. MaxSeq]]
           I == Restrict(u.idx, DOMAIN u.idx \ {k})
<1>0. /\ w \in Caches(d) /\ Linked(w, d) /\ DOMAIN w.idx \in SUBSET Keys /\ w.idx \in [DOMAIN w.idx -> X]
      /\ 0 \notin DOMAIN w.node /\ NoInst \notin DOMAIN w.idx
  <2>1. w \in Caches(d) /\ Linked(w, d)
    BY DEF Good
  <2>2. DOMAIN w.idx \in SUBSET Keys /\ w.idx \in [DOMAIN w.idx -> X] /\ DOMAIN w.node \in SUBSET Seqs
    BY <2>1, CacheFields
  <2>3. NoInst \notin DOMAIN w.idx /\ 0 \notin DOMAIN w.node
    BY <2>2, WhcAssumption DEF Seqs
  <2>4. QED
    BY <2>1, <2>2, <2>3
<1>1. S = {t \in DOMAIN w.node : w.node[t].inst = k}
  <2>1. w.idx[k] \in X
    BY <1>0
  <2>2. \A t : t \in S <=> t # 0 /\ \E q \in 0 .. d - 1 : t = w.idx[k].hist[q]
    BY <2>1 DEF Range
  <2>3. ASSUME NEW t \in S PROVE t \in DOMAIN w.node /\ w.node[t].inst = k
    BY <1>0, <2>2, <2>3 DEF Linked
  <2>4. ASSUME NEW t \in DOMAIN w.node, w.node[t].inst = k PROVE t \in S
    <3>1. w.node[t].pos \in 0 .. d - 1 /\ w.idx[k].hist[w.node[t].pos] = t /\ t # 0
      BY <1>0, <2>4 DEF Linked
    <3>2. QED
      BY <2>2, <3>1
  <2>5. QED
    BY <2>3, <2>4
<1>2. /\ u \in Caches(d) /\ u.idx = w.idx /\ OnlyIndex(w, u)
      /\ \A t \in DOMAIN w.node : /\ t \notin S => u.node[t] = w.node[t]
                                  /\ t \in S => u.node[t].inst = NoInst
  BY <1>0, DetachFields
<1>3. I \in IdxMaps(d) /\ DOMAIN I = DOMAIN w.idx \ {k} /\ \A j \in DOMAIN w.idx \ {k} : I[j] = w.idx[j]
  <2>1. I = [j \in DOMAIN w.idx \ {k} |-> w.idx[j]]
    BY <1>2 DEF Restrict
  <2> HIDE DEF I, X
  <2>2. I \in [DOMAIN w.idx \ {k} -> X] /\ DOMAIN w.idx \ {k} \in SUBSET Keys
    BY <1>0, <2>1
  <2>3. QED
    BY <2>1, <2>2, IdxMade DEF X
<1>4. v = [u EXCEPT !.idx = I]
  BY DEF CutOut
<1> HIDE DEF I, u
<1>5. /\ v \in Caches(d) /\ v.node = u.node /\ v.idx = I /\ v.open = u.open /\ v.closed = u.closed
      /\ v.size = u.size /\ v.unackedBytes = u.unackedBytes /\ Rest(u, v)
  BY <1>2, <1>3, <1>4 DEF Caches, Rest
<1>6. OnlyIndex(w, v)
  <2>1. OnlyIndex(u, v)
    BY <1>5 DEF OnlyIndex, Weight
  <2>2. QED
    BY <1>2, <2>1, OnlyIndexMore
<1>7. \A t \in DOMAIN w.node : (t \in S => v.node[t].inst = NoInst) /\ (t \notin S => v.node[t] = w.node[t])
  BY <1>2, <1>5
<1>8. Linked(v, d)
  <2>0. DOMAIN v.node = DOMAIN w.node
    BY <1>6 DEF OnlyIndex
  <2>1. ASSUME NEW t \in DOMAIN v.node, v.node[t].inst # NoInst
        PROVE  /\ v.node[t].inst \in DOMAIN v.idx /\ v.node[t].pos \in 0 .. d - 1
               /\ v.idx[v.node[t].inst].hist[v.node[t].pos] = t
    <3>1. t \in DOMAIN w.node /\ t \notin S /\ v.node[t] = w.node[t]
      BY <1>7, <2>0, <2>1
    <3>2. w.node[t].inst # k
      BY <1>1, <3>1
    <3>3. /\ w.node[t].inst \in DOMAIN w.idx /\ w.node[t].pos \in 0 .. d - 1
          /\ w.idx[w.node[t].inst].hist[w.node[t].pos] = t
      BY <1>0, <2>1, <3>1 DEF Linked
    <3>4. w.node[t].inst \in DOMAIN v.idx /\ v.idx[w.node[t].inst] = w.idx[w.node[t].inst]
      BY <1>3, <1>5, <3>2, <3>3
    <3>5. QED
      BY <3>1, <3>3, <3>4
  <2>2. ASSUME NEW j \in DOMAIN v.idx, NEW q \in 0 .. d - 1, v.idx[j].hist[q] # 0
        PROVE  LET t == v.idx[j].hist[q] IN t \in DOMAIN v.node /\ v.node[t].inst = j /\ v.node[t].pos = q
    <3>1. j \in DOMAIN w.idx /\ j # k /\ v.idx[j] = w.idx[j]
      BY <1>3, <1>5, <2>2
    <3> DEFINE t == w.idx[j].hist[q]
    <3>2. t \in DOMAIN w.node /\ w.node[t].inst = j /\ w.node[t].pos = q
      <4>1. t # 0
        BY <2>2, <3>1
      <4>2. QED
        BY <1>0, <3>1, <4>1 DEF Linked
    <3>3. t \notin S
      BY <1>1, <3>1, <3>2
    <3> HIDE DEF t
    <3>4. v.node[t] = w.node[t] /\ t \in DOMAIN v.node
      BY <1>7, <2>0, <3>2, <3>3
    <3>5. QED
      BY <3>1, <3>2, <3>4 DEF t
  <2>3. d > 0 => \A j \in DOMAIN v.idx : v.idx[j].head \in 0 .. d - 1
    <3>1. SUFFICES ASSUME d > 0, NEW j \in DOMAIN v.idx PROVE v.idx[j].head \in 0 .. d - 1
      OBVIOUS
    <3>2. j \in DOMAIN w.idx /\ v.idx[j] = w.idx[j]
      BY <1>3, <1>5
    <3>3. QED
      BY <1>0, <3>1, <3>2, HeadIn
  <2>4. QED
    BY <2>1, <2>2, <2>3 DEF Linked
<1>9. Good(v, d)
  BY <1>5, <1>6, <1>8, Relinked
<1>10. QED
  BY <1>1, <1>3, <1>5, <1>6, <1>7, <1>9 DEF Unlisted

-----------------------------------------------------------------------------
(* What was written *)

\* W2 is W with the sample s, the highest, of kind kind in instance k.
Extends(W, W2, s, k, kind) ==
  /\ DOMAIN W \subseteq 1 .. s - 1 /\ DOMAIN W2 = DOMAIN W \cup {s}
  /\ \A t \in DOMAIN W : W2[t] = W[t]
  /\ W2[s].key = k /\ W2[s].kind = kind

\* The later samples are finitely many.
LEMMA LaterFinite ==
  ASSUME NEW W, NEW n \in Nat, DOMAIN W \subseteq 1 .. n, NEW x
  PROVE  IsFiniteSet(LaterIn(W, x)) /\ Cardinality(LaterIn(W, x)) \in Nat
<1>1. IsFiniteSet(1 .. n)
  BY FS_Interval
<1>2. LaterIn(W, x) \subseteq 1 .. n
  BY DEF LaterIn
<1>3. IsFiniteSet(LaterIn(W, x))
  BY <1>1, <1>2, FS_Subset
<1>4. QED
  BY <1>3, FS_CardinalityType

\* There are never fewer of them.
Grown(W, W2, s, k, kind, x) ==
  /\ W2[x] = W[x] /\ x # s /\ x < s /\ x \in Nat
  /\ Cardinality(LaterIn(W, x)) \in Nat /\ Cardinality(LaterIn(W2, x)) \in Nat
  /\ Cardinality(LaterIn(W, x)) <= Cardinality(LaterIn(W2, x))
  /\ UnregIn(W, x) => UnregIn(W2, x)
  /\ W[x].key = k /\ kind \in Carries => Cardinality(LaterIn(W2, x)) = Cardinality(LaterIn(W, x)) + 1
  /\ W[x].key = k /\ kind = "unregister" => UnregIn(W2, x)

\* Writing one more sample makes what was written older.
LEMMA LaterGrows ==
  ASSUME NEW W, NEW W2, NEW s \in Nat \ {0}, NEW k, NEW kind, Extends(W, W2, s, k, kind), NEW x \in DOMAIN W
  PROVE  Grown(W, W2, s, k, kind, x)
<1>0. /\ W2[x] = W[x] /\ x # s /\ x < s /\ x \in 1 .. s - 1 /\ s \notin DOMAIN W
      /\ DOMAIN W \subseteq 1 .. s - 1 /\ DOMAIN W2 \subseteq 1 .. s /\ s - 1 \in Nat
      /\ \A t \in DOMAIN W : t \in DOMAIN W2 /\ W2[t] = W[t]
      /\ s \in DOMAIN W2 /\ W2[s].key = k /\ W2[s].kind = kind
      /\ \A t \in DOMAIN W2 : t \in DOMAIN W \/ t = s
  BY DEF Extends
<1>1. /\ IsFiniteSet(LaterIn(W, x)) /\ Cardinality(LaterIn(W, x)) \in Nat
  BY <1>0, LaterFinite
<1>2. /\ IsFiniteSet(LaterIn(W2, x)) /\ Cardinality(LaterIn(W2, x)) \in Nat
  BY <1>0, LaterFinite
<1>3. LaterIn(W, x) \subseteq LaterIn(W2, x)
  BY <1>0 DEF LaterIn
<1>4. Cardinality(LaterIn(W, x)) <= Cardinality(LaterIn(W2, x))
  BY <1>2, <1>3, FS_Subset
<1>5. ASSUME W[x].key = k, kind \in Carries
      PROVE  Cardinality(LaterIn(W2, x)) = Cardinality(LaterIn(W, x)) + 1
  <2>1. LaterIn(W2, x) = LaterIn(W, x) \cup {s}
    <3>1. ASSUME NEW t \in LaterIn(W2, x) PROVE t \in LaterIn(W, x) \cup {s}
      BY <1>0, <3>1 DEF LaterIn
    <3>2. s \in LaterIn(W2, x)
      BY <1>0, <1>5 DEF LaterIn
    <3>3. QED
      BY <1>3, <3>1, <3>2
  <2>2. s \notin LaterIn(W, x)
    BY <1>0 DEF LaterIn
  <2>3. QED
    BY <1>1, <2>1, <2>2, FS_AddElement
<1>6. UnregIn(W, x) => UnregIn(W2, x)
  BY <1>0 DEF UnregIn
<1>7. W[x].key = k /\ kind = "unregister" => UnregIn(W2, x)
  BY <1>0 DEF UnregIn
<1>8. QED
  BY <1>0, <1>1, <1>2, <1>4, <1>5, <1>6, <1>7 DEF Grown

-----------------------------------------------------------------------------
(* The operations and the history *)

\* The sample in a slot names the slot.
LEMMA SlotNode ==
  ASSUME NEW d, NEW w, Good(w, d), NEW k \in DOMAIN w.idx, NEW p \in 0 .. d - 1, NEW x, x = w.idx[k].hist[p], x # 0
  PROVE  x \in DOMAIN w.node /\ w.node[x].inst = k /\ w.node[x].pos = p
  BY DEF Good, Linked

\* A slot of the index, and what is known of the sample in it.
Slot(w, d, W, k, p, x) ==
  /\ x \in DOMAIN w.node /\ w.node[x].inst = k /\ w.node[x].pos = p /\ x # 0
  /\ W[x].key = k /\ W[x].kind \in Carries /\ x \in DOMAIN W
  /\ AgeAt(w.idx[k], p, d) <= Cardinality(LaterIn(W, x))

\* What a slot that is taken says of its sample.
LEMMA SlotIs ==
  ASSUME NEW d, NEW w, Good(w, d), NEW W, DOMAIN w.node \subseteq DOMAIN W, Ages(w, d, W),
         NEW k \in DOMAIN w.idx, NEW p \in 0 .. d - 1, NEW x, x = w.idx[k].hist[p], x # 0
  PROVE  Slot(w, d, W, k, p, x)
<1>1. x \in DOMAIN w.node /\ w.node[x].inst = k /\ w.node[x].pos = p
  BY SlotNode
<1>2. W[x].key = k /\ W[x].kind \in Carries /\ AgeAt(w.idx[k], p, d) <= Cardinality(LaterIn(W, x))
  BY DEF Ages
<1>3. QED
  BY <1>1, <1>2 DEF Slot

\* A new sample at the end leaves the history as it is.
LEMMA HistInserted ==
  ASSUME NEW d \in Nat, NEW w, Good(w, d), NEW W, NEW W2, Hist(w, d, W, {}), NEW s \in Nat \ {0}, NEW k, NEW kind,
         Extends(W, W2, s, k, kind), NEW m, NEW v, Inserted(w, v, m, s, kind, d)
  PROVE  Hist(v, d, W2, {s})
<1>0. /\ DOMAIN v.node = DOMAIN w.node \cup {s} /\ v.idx = w.idx
      /\ \A t \in DOMAIN w.node : v.node[t] = w.node[t]
  BY DEF Inserted
<1>1. /\ DOMAIN w.node \subseteq DOMAIN W /\ Ages(w, d, W) /\ Ordered(w, d) /\ Pushed(w, d, W, {})
  BY DEF Hist
<1>2. DOMAIN v.node \subseteq DOMAIN W2
  BY <1>0, <1>1 DEF Extends
<1>3. Ages(v, d, W2)
  <2>1. SUFFICES ASSUME NEW j \in DOMAIN w.idx, NEW p \in 0 .. d - 1, w.idx[j].hist[p] # 0
                 PROVE  LET x == w.idx[j].hist[p]
                        IN /\ W2[x].key = j /\ W2[x].kind \in Carries
                           /\ AgeAt(w.idx[j], p, d) <= Cardinality(LaterIn(W2, x))
    BY <1>0 DEF Ages
  <2> DEFINE x == w.idx[j].hist[p]
  <2>2. Slot(w, d, W, j, p, x)
    BY <1>1, <2>1, SlotIs
  <2> HIDE DEF x
  <2>3. x \in DOMAIN W
    BY <2>2 DEF Slot
  <2>4. /\ W2[x] = W[x] /\ Cardinality(LaterIn(W, x)) \in Nat /\ Cardinality(LaterIn(W2, x)) \in Nat
        /\ Cardinality(LaterIn(W, x)) <= Cardinality(LaterIn(W2, x))
    BY <2>3, LaterGrows DEF Grown
  <2>5. AgeAt(w.idx[j], p, d) \in 0 .. d - 1
    <3>1. w.idx[j].head \in 0 .. d - 1
      BY DEF Good, Linked
    <3>2. QED
      BY <3>1, AgeRange
  <2>6. /\ W2[x].key = j /\ W2[x].kind \in Carries
        /\ AgeAt(w.idx[j], p, d) <= Cardinality(LaterIn(W2, x))
    BY <2>2, <2>4, <2>5 DEF Slot
  <2>7. QED
    BY <2>6 DEF x
<1>4. Ordered(v, d)
  BY <1>0, <1>1 DEF Ordered
<1>5. Pushed(v, d, W2, {s})
  <2>1. SUFFICES ASSUME d > 0, NEW t \in DOMAIN v.node, t # s, W2[t].kind \in Carries, v.node[t].inst = NoInst
                 PROVE  UnregIn(W2, t) \/ d <= Cardinality(LaterIn(W2, t))
    BY DEF Pushed
  <2>2. t \in DOMAIN w.node /\ v.node[t] = w.node[t] /\ t \in DOMAIN W
    BY <1>0, <1>1, <2>1
  <2>3. /\ W2[t] = W[t] /\ Cardinality(LaterIn(W, t)) \in Nat /\ Cardinality(LaterIn(W2, t)) \in Nat
        /\ Cardinality(LaterIn(W, t)) <= Cardinality(LaterIn(W2, t)) /\ (UnregIn(W, t) => UnregIn(W2, t))
    <3>1. t \in DOMAIN W
      BY <2>2
    <3>2. Grown(W, W2, s, k, kind, t)
      BY <3>1, LaterGrows
    <3>3. QED
      BY <3>2 DEF Grown
  <2>4. UnregIn(W, t) \/ d <= Cardinality(LaterIn(W, t))
    <3>1. t \in DOMAIN w.node \ {}
      BY <2>2
    <3>2. QED
      BY <1>1, <2>1, <2>2, <2>3, <3>1 DEF Pushed
  <2>5. QED
    BY <2>3, <2>4
<1>6. QED
  BY <1>2, <1>3, <1>4, <1>5 DEF Hist

\* A smaller index with samples that are the same but for the acknowledgement.
Shrunk(w, v, S, d) ==
  /\ DOMAIN v.node = DOMAIN w.node \ S
  /\ \A t \in DOMAIN v.node : v.node[t].inst = w.node[t].inst
  /\ IdxWithout(w, v, S, d)

\* A deletion only shrinks the index.
LEMMA DeletedShrinks ==
  ASSUME NEW d, NEW w, NEW v, NEW S, Deleted(w, v, S, d) PROVE Shrunk(w, v, S, d)
  BY DEF Deleted, Shrunk

\* So does removing what was acknowledged.
LEMMA RemovalShrinks ==
  ASSUME NEW d, NEW w, NEW v, NEW K, NEW S, Removal(w, v, K, S, d) PROVE Shrunk(w, v, S, d)
  BY DEF Removal, Shrunk, Same

\* A slot that is taken was taken before, and by the same sample, at the same age.
LEMMA SlotBefore ==
  ASSUME NEW d, NEW w, NEW v, NEW S, Shrunk(w, v, S, d), NEW k \in DOMAIN v.idx, NEW p \in 0 .. d - 1
  PROVE  /\ k \in DOMAIN w.idx /\ v.idx[k].head = w.idx[k].head /\ AgeAt(v.idx[k], p, d) = AgeAt(w.idx[k], p, d)
         /\ v.idx[k].hist[p] # 0 => v.idx[k].hist[p] = w.idx[k].hist[p] /\ w.idx[k].hist[p] \notin S
<1>1. k \in DOMAIN w.idx
  BY DEF Shrunk, IdxWithout
<1>2. v.idx[k].head = w.idx[k].head /\ v.idx[k].hist[p] = IF w.idx[k].hist[p] \in S THEN 0 ELSE w.idx[k].hist[p]
  BY <1>1 DEF Shrunk, IdxWithout
<1>3. QED
  BY <1>1, <1>2 DEF AgeAt

\* Deleting samples keeps the history.
LEMMA HistShrunk ==
  ASSUME NEW d, NEW w, NEW W, NEW E, Hist(w, d, W, E), NEW S, NEW v, Shrunk(w, v, S, d)
  PROVE  Hist(v, d, W, E)
<1>0. /\ DOMAIN v.node = DOMAIN w.node \ S /\ \A t \in DOMAIN v.node : v.node[t].inst = w.node[t].inst
  BY DEF Shrunk
<1>1. DOMAIN w.node \subseteq DOMAIN W /\ Ages(w, d, W) /\ Ordered(w, d) /\ Pushed(w, d, W, E)
  BY DEF Hist
<1>2. Ages(v, d, W)
  <2>1. SUFFICES ASSUME NEW k \in DOMAIN v.idx, NEW p \in 0 .. d - 1, v.idx[k].hist[p] # 0
                 PROVE  LET x == v.idx[k].hist[p]
                        IN /\ W[x].key = k /\ W[x].kind \in Carries
                           /\ AgeAt(v.idx[k], p, d) <= Cardinality(LaterIn(W, x))
    BY DEF Ages
  <2>2. k \in DOMAIN w.idx /\ AgeAt(v.idx[k], p, d) = AgeAt(w.idx[k], p, d) /\ v.idx[k].hist[p] = w.idx[k].hist[p]
    BY <2>1, SlotBefore
  <2> HIDE DEF AgeAt
  <2>3. QED
    BY <1>1, <2>1, <2>2 DEF Ages
<1>3. Ordered(v, d)
  <2>1. SUFFICES ASSUME NEW k \in DOMAIN v.idx, NEW p \in 0 .. d - 1, NEW q \in 0 .. d - 1,
                        v.idx[k].hist[p] # 0, v.idx[k].hist[q] # 0, AgeAt(v.idx[k], p, d) > AgeAt(v.idx[k], q, d)
                 PROVE  v.idx[k].hist[p] < v.idx[k].hist[q]
    BY DEF Ordered
  <2>2. k \in DOMAIN w.idx /\ AgeAt(v.idx[k], p, d) = AgeAt(w.idx[k], p, d) /\ v.idx[k].hist[p] = w.idx[k].hist[p]
    BY <2>1, SlotBefore
  <2>3. AgeAt(v.idx[k], q, d) = AgeAt(w.idx[k], q, d) /\ v.idx[k].hist[q] = w.idx[k].hist[q]
    BY <2>1, SlotBefore
  <2>4. QED
    BY <1>1, <2>1, <2>2, <2>3 DEF Ordered
<1>4. Pushed(v, d, W, E)
  BY <1>0, <1>1 DEF Pushed
<1>5. QED
  BY <1>0, <1>1, <1>2, <1>3, <1>4 DEF Hist

\* p is the slot after the head.
SlotAfter(x, p, d) == p = (x.head + 1) % d

\* The head moves to the next slot: every other slot is one older.
LEMMA AgeMoves ==
  ASSUME NEW d \in Nat, NEW x, x.head \in 0 .. d - 1, NEW y, SlotAfter(x, y.head, d), NEW q \in 0 .. d - 1
  PROVE  /\ y.head \in 0 .. d - 1
         /\ q # y.head => AgeAt(y, q, d) = AgeAt(x, q, d) + 1
         /\ q = y.head => AgeAt(y, q, d) = 0 /\ AgeAt(x, q, d) = d - 1
<1>1. y.head = IF x.head + 1 = d THEN 0 ELSE x.head + 1
  BY NextSlot DEF SlotAfter
<1>2. QED
  BY <1>1 DEF AgeAt

\* The slot of age t.
LEMMA AgeBack ==
  ASSUME NEW d \in Nat, NEW x, x.head \in 0 .. d - 1, NEW t \in 1 .. d - 1, NEW p, p = (x.head + d - t) % d
  PROVE  /\ p \in 0 .. d - 1 /\ p # x.head /\ AgeAt(x, p, d) = t
         /\ \A q \in 0 .. d - 1 : AgeAt(x, q, d) = t => q = p
<1>1. p = IF x.head >= t THEN x.head - t ELSE x.head + d - t
  BY SlotBack
<1>2. QED
  BY <1>1 DEF AgeAt

\* Two slots of one age are the same.
LEMMA AgeOnce ==
  ASSUME NEW d \in Nat, NEW x, x.head \in 0 .. d - 1, NEW p \in 0 .. d - 1, NEW q \in 0 .. d - 1,
         AgeAt(x, p, d) = AgeAt(x, q, d)
  PROVE  p = q
  BY DEF AgeAt

\* The samples of instance k are one older than their slots say.
Aged(w, d, W, k) ==
  \A p \in 0 .. d - 1 : w.idx[k].hist[p] # 0 =>
    AgeAt(w.idx[k], p, d) + 1 <= Cardinality(LaterIn(W, w.idx[k].hist[p]))

\* They are so when a sample has been written that is not in its slot yet.
LEMMA AgedInserted ==
  ASSUME NEW d \in Nat, NEW w, Good(w, d), NEW W, NEW W2, Hist(w, d, W, {}), NEW s \in Nat \ {0},
         NEW k \in DOMAIN w.idx, NEW kind \in Carries,
         Extends(W, W2, s, k, kind), NEW v, v.idx = w.idx
  PROVE  Aged(v, d, W2, k)
<1>1. SUFFICES ASSUME NEW p \in 0 .. d - 1, w.idx[k].hist[p] # 0
               PROVE  AgeAt(w.idx[k], p, d) + 1 <= Cardinality(LaterIn(W2, w.idx[k].hist[p]))
  BY DEF Aged
<1> DEFINE x == w.idx[k].hist[p]
<1>2. Slot(w, d, W, k, p, x)
  <2>1. DOMAIN w.node \subseteq DOMAIN W /\ Ages(w, d, W)
    BY DEF Hist
  <2>2. QED
    BY <1>1, <2>1, SlotIs
<1> HIDE DEF x
<1>3. x \in DOMAIN W /\ W[x].key = k /\ AgeAt(w.idx[k], p, d) <= Cardinality(LaterIn(W, x))
  BY <1>2 DEF Slot
<1>4. Grown(W, W2, s, k, kind, x)
  BY <1>3, LaterGrows
<1>5. AgeAt(w.idx[k], p, d) \in 0 .. d - 1
  <2>1. w.idx[k].head \in 0 .. d - 1
    BY DEF Good, Linked
  <2>2. QED
    BY <2>1, AgeRange
<1>6. AgeAt(w.idx[k], p, d) + 1 <= Cardinality(LaterIn(W2, x))
  BY <1>3, <1>4, <1>5 DEF Grown
<1>7. QED
  BY <1>6 DEF x

\* A new sample takes a slot: the history is right again.
LEMMA HistReindexed ==
  ASSUME NEW d \in Nat \ {0}, NEW w, Good(w, d), NEW W, NEW s \in Nat \ {0}, Hist(w, d, W, {s}),
         NEW k \in DOMAIN w.idx, NEW p \in 0 .. d - 1, NEW old, NEW v, Reindexed(w, v, s, k, p, old, d),
         s \in DOMAIN w.node, w.node[s].inst = NoInst, DOMAIN W \subseteq 1 .. s, W[s].key = k, W[s].kind \in Carries,
         Aged(w, d, W, k), old # 0 => d <= Cardinality(LaterIn(W, old)),
         \A q \in 0 .. d - 1 : q # p /\ w.idx[k].hist[q] # 0 => AgeAt(v.idx[k], q, d) = AgeAt(w.idx[k], q, d) + 1
  PROVE  Hist(v, d, W, {})
<1>0. /\ DOMAIN w.node \subseteq DOMAIN W /\ Ages(w, d, W) /\ Ordered(w, d) /\ Pushed(w, d, W, {s})
  BY DEF Hist
<1>1. /\ DOMAIN v.node = DOMAIN w.node /\ DOMAIN v.idx = DOMAIN w.idx
      /\ \A j \in DOMAIN w.idx : j # k => v.idx[j] = w.idx[j]
      /\ \A q \in 0 .. d - 1 : v.idx[k].hist[q] = IF q = p THEN s ELSE w.idx[k].hist[q]
      /\ v.idx[k].head = p /\ v.node[s].inst = k
      /\ \A t \in DOMAIN w.node : t # s /\ t # old => v.node[t] = w.node[t]
  BY DEF Reindexed, OnlyIndex
<1>2. k \in Keys /\ k # NoInst /\ 0 \notin DOMAIN w.node
  BY CacheFields, WhcAssumption DEF Good, Seqs
<1>3. AgeAt(v.idx[k], p, d) = 0
  BY <1>1 DEF AgeAt
<1>4. \A j \in DOMAIN w.idx : w.idx[j].head \in 0 .. d - 1
  BY DEF Good, Linked
<1>5. ASSUME NEW q \in 0 .. d - 1, q # p, w.idx[k].hist[q] # 0
      PROVE  LET x == w.idx[k].hist[q]
             IN /\ Slot(w, d, W, k, q, x) /\ x < s /\ x \in Nat
                /\ AgeAt(v.idx[k], q, d) = AgeAt(w.idx[k], q, d) + 1 /\ AgeAt(w.idx[k], q, d) \in 0 .. d - 1
                /\ AgeAt(v.idx[k], q, d) <= Cardinality(LaterIn(W, x))
  <2> DEFINE x == w.idx[k].hist[q]
  <2>1. Slot(w, d, W, k, q, x)
    BY <1>0, <1>5, SlotIs
  <2>2. AgeAt(v.idx[k], q, d) = AgeAt(w.idx[k], q, d) + 1
    BY <1>5
  <2>3. AgeAt(w.idx[k], q, d) + 1 <= Cardinality(LaterIn(W, x))
    BY <1>5 DEF Aged
  <2>4. AgeAt(w.idx[k], q, d) \in 0 .. d - 1
    BY <1>4, AgeRange
  <2> HIDE DEF x
  <2>5. x \in 1 .. s /\ x # s
    BY <1>2, <2>1 DEF Slot
  <2>6. QED
    BY <2>1, <2>2, <2>3, <2>4, <2>5 DEF x
<1>6. Ages(v, d, W)
  <2>1. SUFFICES ASSUME NEW j \in DOMAIN w.idx, NEW q \in 0 .. d - 1, v.idx[j].hist[q] # 0
                 PROVE  LET x == v.idx[j].hist[q]
                        IN /\ W[x].key = j /\ W[x].kind \in Carries
                           /\ AgeAt(v.idx[j], q, d) <= Cardinality(LaterIn(W, x))
    BY <1>1 DEF Ages
  <2>2. CASE j # k
    <3>1. v.idx[j] = w.idx[j]
      BY <1>1, <2>2
    <3>2. QED
      BY <1>0, <2>1, <3>1 DEF Ages
  <2>3. CASE j = k /\ q = p
    <3>1. v.idx[j].hist[q] = s
      BY <1>1, <2>3
    <3>2. Cardinality(LaterIn(W, s)) \in Nat
      BY LaterFinite
    <3>3. QED
      BY <1>3, <2>3, <3>1, <3>2
  <2>4. CASE j = k /\ q # p
    <3>1. v.idx[j].hist[q] = w.idx[k].hist[q] /\ w.idx[k].hist[q] # 0
      BY <1>1, <2>1, <2>4
    <3> DEFINE x == w.idx[k].hist[q]
    <3>2. Slot(w, d, W, k, q, x) /\ AgeAt(v.idx[k], q, d) <= Cardinality(LaterIn(W, x))
      BY <1>5, <2>4, <3>1
    <3> HIDE DEF x
    <3>3. W[x].key = k /\ W[x].kind \in Carries
      BY <3>2 DEF Slot
    <3>4. QED
      BY <2>4, <3>1, <3>2, <3>3 DEF x
  <2>5. QED
    BY <2>2, <2>3, <2>4
<1>7. Ordered(v, d)
  <2>1. SUFFICES ASSUME NEW j \in DOMAIN w.idx, NEW q \in 0 .. d - 1, NEW r \in 0 .. d - 1,
                        v.idx[j].hist[q] # 0, v.idx[j].hist[r] # 0, AgeAt(v.idx[j], q, d) > AgeAt(v.idx[j], r, d)
                 PROVE  v.idx[j].hist[q] < v.idx[j].hist[r]
    BY <1>1 DEF Ordered
  <2>2. CASE j # k
    <3>1. v.idx[j] = w.idx[j]
      BY <1>1, <2>2
    <3>2. QED
      BY <1>0, <2>1, <3>1 DEF Ordered
  <2>3. CASE j = k
    <3>0. v.idx[k].head \in 0 .. d - 1
      BY <1>1
    <3>1. AgeAt(v.idx[k], r, d) \in 0 .. d - 1
      BY <3>0, AgeRange
    <3>2. q # p
      BY <1>3, <2>1, <2>3, <3>1
    <3>3. v.idx[k].hist[q] = w.idx[k].hist[q] /\ w.idx[k].hist[q] # 0
      BY <1>1, <2>1, <2>3, <3>2
    <3>4. w.idx[k].hist[q] < s /\ AgeAt(v.idx[k], q, d) = AgeAt(w.idx[k], q, d) + 1 /\ AgeAt(w.idx[k], q, d) \in 0 .. d - 1
      BY <1>5, <3>2, <3>3
    <3>5. CASE r = p
      BY <1>1, <2>3, <3>3, <3>4, <3>5
    <3>6. CASE r # p
      <4>1. v.idx[k].hist[r] = w.idx[k].hist[r] /\ w.idx[k].hist[r] # 0
        BY <1>1, <2>1, <2>3, <3>6
      <4>2. AgeAt(v.idx[k], r, d) = AgeAt(w.idx[k], r, d) + 1 /\ AgeAt(w.idx[k], r, d) \in 0 .. d - 1
        BY <1>5, <3>6, <4>1
      <4>3. AgeAt(w.idx[k], q, d) > AgeAt(w.idx[k], r, d)
        BY <2>1, <2>3, <3>4, <4>2
      <4>4. w.idx[k].hist[q] < w.idx[k].hist[r]
        BY <1>0, <3>3, <4>1, <4>3 DEF Ordered
      <4>5. QED
        BY <2>3, <3>3, <4>1, <4>4
    <3>7. QED
      BY <3>5, <3>6
  <2>4. QED
    BY <2>2, <2>3
<1>8. Pushed(v, d, W, {})
  <2>1. SUFFICES ASSUME NEW t \in DOMAIN w.node, W[t].kind \in Carries, v.node[t].inst = NoInst
                 PROVE  UnregIn(W, t) \/ d <= Cardinality(LaterIn(W, t))
    BY <1>1 DEF Pushed
  <2>2. t # s
    BY <1>1, <1>2, <2>1
  <2>3. CASE t = old
    BY <1>2, <2>3
  <2>4. CASE t # old
    <3>1. v.node[t] = w.node[t] /\ t \in DOMAIN w.node \ {s}
      BY <1>1, <2>2, <2>4
    <3>2. QED
      BY <1>0, <2>1, <3>1 DEF Pushed
  <2>5. QED
    BY <2>3, <2>4
<1>9. QED
  BY <1>0, <1>1, <1>6, <1>7, <1>8 DEF Hist

\* An instance leaves the index when it is unregistered.
LEMMA HistUnlisted ==
  ASSUME NEW d \in Nat, NEW w, NEW W, NEW E, Hist(w, d, W, E), NEW k, NEW S, NEW v, Unlisted(w, v, k, S, d),
         \A x \in S : x \in DOMAIN w.node => UnregIn(W, x)
  PROVE  Hist(v, d, W, E)
<1>0. /\ DOMAIN w.node \subseteq DOMAIN W /\ Ages(w, d, W) /\ Ordered(w, d) /\ Pushed(w, d, W, E)
  BY DEF Hist
<1>1. /\ DOMAIN v.node = DOMAIN w.node /\ DOMAIN v.idx \subseteq DOMAIN w.idx
      /\ \A j \in DOMAIN v.idx : v.idx[j] = w.idx[j]
      /\ \A t \in DOMAIN w.node : t \notin S => v.node[t] = w.node[t]
  BY DEF Unlisted, OnlyIndex
<1>2. Ages(v, d, W)
  BY <1>0, <1>1 DEF Ages
<1>3. Ordered(v, d)
  BY <1>0, <1>1 DEF Ordered
<1>4. Pushed(v, d, W, E)
  <2>1. SUFFICES ASSUME d > 0, NEW t \in DOMAIN w.node \ E, W[t].kind \in Carries, v.node[t].inst = NoInst
                 PROVE  UnregIn(W, t) \/ d <= Cardinality(LaterIn(W, t))
    BY <1>1 DEF Pushed
  <2>2. CASE t \in S
    BY <2>2
  <2>3. CASE t \notin S
    <3>1. v.node[t] = w.node[t]
      BY <1>1, <2>3
    <3>2. QED
      BY <1>0, <2>1, <3>1 DEF Pushed
  <2>4. QED
    BY <2>2, <2>3
<1>5. QED
  BY <1>0, <1>1, <1>2, <1>3, <1>4 DEF Hist

\* A new instance has an empty history.
LEMMA HistNewInstance ==
  ASSUME NEW d \in Nat, NEW w, NEW W, NEW E, Hist(w, d, W, E), NEW k, NEW v, v.node = w.node,
         DOMAIN v.idx = DOMAIN w.idx \cup {k}, \A j \in DOMAIN w.idx : v.idx[j] = w.idx[j],
         \A q \in 0 .. d - 1 : v.idx[k].hist[q] = 0
  PROVE  Hist(v, d, W, E)
<1>0. /\ DOMAIN w.node \subseteq DOMAIN W /\ Ages(w, d, W) /\ Ordered(w, d) /\ Pushed(w, d, W, E)
  BY DEF Hist
<1>1. ASSUME NEW j \in DOMAIN v.idx, NEW q \in 0 .. d - 1, v.idx[j].hist[q] # 0
      PROVE  j \in DOMAIN w.idx /\ v.idx[j] = w.idx[j]
  BY <1>1
<1>2. Ages(v, d, W)
  <2>1. SUFFICES ASSUME NEW j \in DOMAIN v.idx, NEW q \in 0 .. d - 1, v.idx[j].hist[q] # 0
                 PROVE  LET x == v.idx[j].hist[q]
                        IN /\ W[x].key = j /\ W[x].kind \in Carries
                           /\ AgeAt(v.idx[j], q, d) <= Cardinality(LaterIn(W, x))
    BY DEF Ages
  <2>2. j \in DOMAIN w.idx /\ v.idx[j] = w.idx[j]
    BY <1>1, <2>1
  <2>3. QED
    BY <1>0, <2>1, <2>2 DEF Ages
<1>3. Ordered(v, d)
  <2>1. SUFFICES ASSUME NEW j \in DOMAIN v.idx, NEW q \in 0 .. d - 1, NEW r \in 0 .. d - 1,
                        v.idx[j].hist[q] # 0, v.idx[j].hist[r] # 0, AgeAt(v.idx[j], q, d) > AgeAt(v.idx[j], r, d)
                 PROVE  v.idx[j].hist[q] < v.idx[j].hist[r]
    BY DEF Ordered
  <2>2. j \in DOMAIN w.idx /\ v.idx[j] = w.idx[j]
    BY <1>1, <2>1
  <2>3. QED
    BY <1>0, <2>1, <2>2 DEF Ordered
<1>4. Pushed(v, d, W, E)
  BY <1>0 DEF Pushed
<1>5. QED
  BY <1>0, <1>2, <1>3, <1>4 DEF Hist

-----------------------------------------------------------------------------
(* The cases of whc_default_insert *)

\* The samples D that go when s takes the slot of old in instance k.
Old(m, old, x) == x = old /\ old # 0 /\ MayOverwrite(m, old)
Beyond(m, s, d) == s <= m /\ TLDepth > 0 /\ d > TLDepth
AtDepth(b, k, d, x) == x # 0 /\ \E q \in 0 .. d - 1 : x = b.idx[k].hist[q] /\ AgeAt(b.idx[k], q, d) = TLDepth
Victims(b, D, m, s, k, old, d) ==
  /\ D \in SUBSET (DOMAIN b.node) /\ s \notin D
  /\ \A x \in D : Old(m, old, x) \/ (Beyond(m, s, d) /\ AtDepth(b, k, d, x))
  /\ \A x : Old(m, old, x) => x \in D
  /\ Beyond(m, s, d) => \A x : AtDepth(b, k, d, x) => x \in D

\* Deleting a sample under a condition.
LEMMA DeletedIf ==
  ASSUME NEW d \in Nat, NEW w, Good(w, d), NEW c \in BOOLEAN, NEW x, c => x \in DOMAIN w.node,
         NEW v, v = IF c THEN DeleteOne(w, x) ELSE w
  PROVE  Deleted(w, v, IF c THEN {x} ELSE {}, d)
<1>1. CASE c
  <2>1. x \in DOMAIN w.node /\ v = DeleteOne(w, x)
    BY <1>1
  <2>2. Deleted(w, v, {x}, d)
    BY <2>1, DeleteOneDeletes
  <2>3. QED
    BY <1>1, <2>2
<1>2. CASE ~c
  <2>1. v = w
    BY <1>2
  <2>2. Deleted(w, v, {}, d)
    BY <2>1, DeletedNothing
  <2>3. QED
    BY <1>2, <2>2
<1>3. QED
  BY <1>1, <1>2

\* The sample of instance k that is pushed out of the transient-local history.
LEMMA PruneDoes ==
  ASSUME qos \in QosType, IdxDepth > 0, NEW w, Good(w, IdxDepth), NEW m \in Nat, NEW s \in Nat,
         NEW k \in DOMAIN w.idx, w.idx[k].head \in 0 .. IdxDepth - 1, NEW v, v = PruneBeyondTl(w, m, s, k)
  PROVE  \E X : /\ Deleted(w, v, X, IdxDepth) /\ X \in SUBSET (DOMAIN w.node)
                /\ \A x : x \in X <=> Beyond(m, s, IdxDepth) /\ AtDepth(w, k, IdxDepth, x)
<1> DEFINE d == IdxDepth
           h == w.idx[k]
           pos == (h.head + IdxDepth - TLDepth) % IdxDepth
           c == Beyond(m, s, IdxDepth) /\ h.hist[pos] # 0
           X == IF c THEN {h.hist[pos]} ELSE {}
<1>0. d \in Nat /\ TLDepth \in Nat /\ TLDepth <= d
  BY Depths
<1>1. v = IF c THEN DeleteOne(w, h.hist[pos]) ELSE w
  BY DEF PruneBeyondTl, Beyond
<1>2. c => h.hist[pos] \in DOMAIN w.node
  <2>1. SUFFICES ASSUME c PROVE h.hist[pos] \in DOMAIN w.node
    OBVIOUS
  <2>2. TLDepth \in 1 .. d - 1
    BY <1>0, <2>1 DEF Beyond
  <2>3. pos \in 0 .. d - 1
    BY <1>0, <2>2, AgeBack
  <2>4. QED
    BY <2>1, <2>3 DEF Good, Linked
<1>3. \A x : x \in X <=> Beyond(m, s, IdxDepth) /\ AtDepth(w, k, IdxDepth, x)
  <2>1. CASE Beyond(m, s, IdxDepth)
    <3>1. TLDepth \in 1 .. d - 1
      BY <1>0, <2>1 DEF Beyond
    <3>2. /\ pos \in 0 .. d - 1 /\ AgeAt(h, pos, d) = TLDepth
          /\ \A q \in 0 .. d - 1 : AgeAt(h, q, d) = TLDepth => q = pos
      BY <1>0, <3>1, AgeBack
    <3>3. \A x : x \in X <=> x = h.hist[pos] /\ h.hist[pos] # 0
      BY <2>1
    <3> HIDE DEF pos, X, c
    <3>4. \A x : AtDepth(w, k, IdxDepth, x) <=> x = h.hist[pos] /\ h.hist[pos] # 0
      BY <3>2 DEF AtDepth
    <3>5. QED
      BY <2>1, <3>3, <3>4
  <2>2. CASE ~Beyond(m, s, IdxDepth)
    BY <2>2
  <2>3. QED
    BY <2>1, <2>2
<1>4. c \in BOOLEAN
  BY DEF Beyond
<1>5. Deleted(w, v, X, IdxDepth)
  <2> DEFINE y == h.hist[pos]
  <2>1. v = IF c THEN DeleteOne(w, y) ELSE w
    BY <1>1
  <2>2. c => y \in DOMAIN w.node
    BY <1>2
  <2>3. X = IF c THEN {y} ELSE {}
    OBVIOUS
  <2> HIDE DEF y, X, c
  <2>4. QED
    BY <1>0, <1>4, <2>1, <2>2, <2>3, DeletedIf
<1>6. X \in SUBSET (DOMAIN w.node)
  BY <1>2
<1> HIDE DEF X
<1>7. QED
  BY <1>3, <1>5, <1>6

\* A new sample of a known instance.
LEMMA OverwriteDoes ==
  ASSUME qos \in QosType, IdxDepth > 0, NEW w, Good(w, IdxDepth), NEW m \in Nat, NEW s \in DOMAIN w.node,
         w.node[s].inst = NoInst, NEW k \in DOMAIN w.idx, NEW v, v = Overwrite(w, m, s, k),
         NEW p, SlotAfter(w.idx[k], p, IdxDepth), NEW old, old = w.idx[k].hist[p]
  PROVE  /\ p \in 0 .. IdxDepth - 1
         /\ \E b, D : /\ Reindexed(w, b, s, k, p, old, IdxDepth) /\ Victims(b, D, m, s, k, old, IdxDepth)
                      /\ Deleted(b, v, D, IdxDepth)
<1> DEFINE d == IdxDepth
           b == Index(Detach(w, {old}), s, k, p)
           c == old # 0 /\ MayOverwrite(m, old)
           e == IF c THEN DeleteOne(b, old) ELSE b
           O == IF c THEN {old} ELSE {}
<1>0. d \in Nat /\ TLDepth \in Nat /\ w.idx[k].head \in 0 .. d - 1 /\ s \in Nat /\ k # NoInst
  BY Depths, CacheFields, WhcAssumption DEF Good, Linked, Seqs
<1>1. p \in 0 .. d - 1
  <2>1. p = IF w.idx[k].head + 1 = d THEN 0 ELSE w.idx[k].head + 1
    BY <1>0, NextSlot DEF SlotAfter
  <2>2. QED
    BY <1>0, <2>1
<1>2. Reindexed(w, b, s, k, p, old, d)
  BY <1>0, <1>1, IndexReplaces
<1>3. v = PruneBeyondTl(e, m, s, k)
  BY DEF Overwrite, SlotAfter
<1> HIDE DEF b
<1>4. /\ Good(b, d) /\ b.node[s].inst = k /\ b.node[s].pos = p /\ b.idx[k].head = p /\ k \in DOMAIN b.idx
      /\ b.idx[k].hist[p] = s /\ DOMAIN b.node = DOMAIN w.node
      /\ old # 0 => old # s /\ old \in DOMAIN b.node /\ b.node[old].inst = NoInst
  BY <1>1, <1>2 DEF Reindexed, OnlyIndex
<1>5. Deleted(b, e, O, d)
  <2>1. c \in BOOLEAN /\ (c => old \in DOMAIN b.node) /\ e = (IF c THEN DeleteOne(b, old) ELSE b)
    BY <1>4 DEF MayOverwrite
  <2>2. O = IF c THEN {old} ELSE {}
    OBVIOUS
  <2> HIDE DEF c, e, O
  <2>3. QED
    BY <1>0, <1>4, <2>1, <2>2, DeletedIf
<1>6. \A x : x \in O <=> Old(m, old, x)
  BY DEF Old
<1> HIDE DEF e, O, c
<1>7. Good(e, d) /\ k \in DOMAIN e.idx /\ e.idx[k].head = p /\ DOMAIN e.node = DOMAIN b.node \ O
  BY <1>4, <1>5 DEF Deleted, IdxWithout
<1>8. PICK X : /\ Deleted(e, v, X, d) /\ X \in SUBSET (DOMAIN e.node)
               /\ \A x : x \in X <=> Beyond(m, s, d) /\ AtDepth(e, k, d, x)
  BY <1>0, <1>1, <1>3, <1>7, PruneDoes
<1>9. \A x : AtDepth(e, k, d, x) <=> AtDepth(b, k, d, x)
  <2>1. \A q \in 0 .. d - 1 : e.idx[k].hist[q] = b.idx[k].hist[q] /\ AgeAt(e.idx[k], q, d) = AgeAt(b.idx[k], q, d)
    <3>1. SUFFICES ASSUME NEW q \in 0 .. d - 1
                   PROVE  e.idx[k].hist[q] = b.idx[k].hist[q] /\ AgeAt(e.idx[k], q, d) = AgeAt(b.idx[k], q, d)
      OBVIOUS
    <3>2. e.idx[k].hist[q] = IF b.idx[k].hist[q] \in O THEN 0 ELSE b.idx[k].hist[q]
      BY <1>4, <1>5 DEF Deleted, IdxWithout
    <3>3. b.idx[k].hist[q] \notin O
      <4>1. SUFFICES ASSUME b.idx[k].hist[q] \in O PROVE FALSE
        OBVIOUS
      <4>2. b.idx[k].hist[q] = old /\ old # 0
        BY <1>6, <4>1 DEF Old
      <4>3. b.node[old].inst = k
        <5>1. k \in DOMAIN b.idx /\ Good(b, d)
          BY <1>4
        <5>2. QED
          BY <4>2, <5>1, SlotNode
      <4>4. QED
        BY <1>0, <1>4, <4>2, <4>3
    <3>4. e.idx[k].head = b.idx[k].head
      BY <1>4, <1>7
    <3>5. QED
      BY <3>2, <3>3, <3>4 DEF AgeAt
  <2>2. QED
    BY <2>1 DEF AtDepth
<1>10. s \notin O /\ s \notin X
  <2>1. s \notin O
    BY <1>4, <1>6 DEF Old
  <2>2. SUFFICES ASSUME s \in X PROVE FALSE
    BY <2>1
  <2>3. Beyond(m, s, d) /\ AtDepth(b, k, d, s)
    BY <1>8, <1>9, <2>2
  <2>4. PICK q \in 0 .. d - 1 : s = b.idx[k].hist[q] /\ AgeAt(b.idx[k], q, d) = TLDepth /\ s # 0
    BY <2>3 DEF AtDepth
  <2>5. q = p
    <3>1. k \in DOMAIN b.idx /\ Good(b, d)
      BY <1>4
    <3>2. b.node[s].pos = q
      BY <2>4, <3>1, SlotNode
    <3>3. QED
      BY <1>4, <3>2
  <2>6. AgeAt(b.idx[k], q, d) = 0
    BY <1>0, <1>1, <1>4, <2>5 DEF AgeAt
  <2>7. QED
    BY <2>3, <2>4, <2>6 DEF Beyond
<1>11. Deleted(b, v, O \cup X, d)
  BY <1>4, <1>5, <1>8, DeletedMore
<1>12. Victims(b, O \cup X, m, s, k, old, d)
  <2>1. \A x : x \in O <=> Old(m, old, x)
    BY <1>6 DEF Old
  <2>2. \A x : x \in X <=> Beyond(m, s, d) /\ AtDepth(b, k, d, x)
    BY <1>8, <1>9 DEF Beyond
  <2>3. O \cup X \in SUBSET (DOMAIN b.node)
    <3>1. \A x \in O : x \in DOMAIN b.node
      BY <1>4, <1>6 DEF Old
    <3>2. QED
      BY <1>7, <1>8, <3>1
  <2>4. QED
    BY <1>10, <2>1, <2>2, <2>3 DEF Victims
<1>13. QED
  BY <1>1, <1>2, <1>11, <1>12

\* There is nothing to detach.
LEMMA DetachNone ==
  ASSUME NEW d, NEW w \in Caches(d) PROVE Detach(w, {0}) = w
<1> DEFINE P == DOMAIN w.node
           N == [t \in P |-> IF t \in {0} THEN [w.node[t] EXCEPT !.inst = NoInst] ELSE w.node[t]]
<1>1. w.node \in [P -> Nodes] /\ 0 \notin P
  BY CacheFields DEF Seqs
<1>2. N = w.node
  BY <1>1
<1>3. Detach(w, {0}) = [w EXCEPT !.node = N]
  BY DEF Detach
<1> HIDE DEF N
<1>4. QED
  BY <1>2, <1>3 DEF Caches

\* v is w with a new instance k, and with its first sample s in the index if there is one.
Started(w, b, v, s, k, d) ==
  /\ Fresh(w, b, k, d)
  /\ IF d > 0 THEN Reindexed(b, v, s, k, 0, 0, d) ELSE v = b

\* NewInstance starts an instance with the sample.
LEMMA NewInstanceDoes ==
  ASSUME qos \in QosType, NEW w, Good(w, IdxDepth), NEW s \in DOMAIN w.node, w.node[s].inst = NoInst,
         NEW k \in Keys, k \notin DOMAIN w.idx, NEW v, v = NewInstance(w, s, k)
  PROVE  \E b : Started(w, b, v, s, k, IdxDepth)
<1> DEFINE d == IdxDepth
           x == [head |-> 0, hist |-> [q \in 0 .. d - 1 |-> 0]]
           b == [w EXCEPT !.idx = [j \in DOMAIN w.idx \cup {k} |-> IF j = k THEN x ELSE w.idx[j]]]
<1>0. d \in Nat
  BY Depths
<1>1. v = IF d > 0 THEN Index(b, s, k, 0) ELSE b
  BY DEF NewInstance, Slots
<1>2. Fresh(w, b, k, d)
  <2> DEFINE y == x
             c == b
  <2>1. y = [head |-> 0, hist |-> [q \in 0 .. d - 1 |-> 0]]
    OBVIOUS
  <2>2. c = [w EXCEPT !.idx = [j \in DOMAIN w.idx \cup {k} |-> IF j = k THEN y ELSE w.idx[j]]]
    OBVIOUS
  <2> HIDE DEF y, c, d
  <2>3. Good(w, d)
    BY DEF d
  <2>4. Fresh(w, c, k, d)
    BY <1>0, <2>1, <2>2, <2>3, NewInstanceFields
  <2>5. QED
    BY <2>4 DEF c
<1> HIDE DEF b
<1>3. IF d > 0 THEN Reindexed(b, v, s, k, 0, 0, d) ELSE v = b
  <2>1. CASE d > 0
    <3>1. b \in Caches(d)
      BY <1>2 DEF Good, Fresh
    <3>2. v = Index(Detach(b, {0}), s, k, 0)
      BY <1>1, <2>1, <3>1, DetachNone
    <3>3. 0 \in 0 .. d - 1 /\ 0 = b.idx[k].hist[0] /\ s \in DOMAIN b.node /\ b.node[s].inst = NoInst /\ k \in DOMAIN b.idx
      BY <1>0, <1>2, <2>1 DEF Fresh
    <3>4. Reindexed(b, v, s, k, 0, 0, d)
      <4>1. Good(b, d)
        BY <1>2 DEF Fresh
      <4>2. QED
        BY <1>0, <3>2, <3>3, <4>1, IndexReplaces
    <3>5. QED
      BY <2>1, <3>4
  <2>2. CASE ~(d > 0)
    BY <1>1, <2>2
  <2>3. QED
    BY <2>1, <2>2
<1>4. QED
  BY <1>2, <1>3 DEF Started

\* The cache an unregister leaves, before it is itself dropped.
Cleared(a, c, m, k, d) ==
  IF k \in DOMAIN a.idx
  THEN \E u : LET S == {t \in DOMAIN a.node : a.node[t].inst = k}
              IN Unlisted(a, u, k, S, d) /\ Deleted(u, c, {t \in S : t <= m}, d)
  ELSE c = a

\* DeleteInstance clears the instance.
LEMMA DeleteInstanceDoes ==
  ASSUME NEW d \in Nat, NEW w, Good(w, d), NEW m \in Nat, NEW k \in DOMAIN w.idx, NEW v, v = DeleteInstance(w, m, k)
  PROVE  Cleared(w, v, m, k, d)
<1> DEFINE S == {t \in DOMAIN w.node : w.node[t].inst = k}
           T == Range(w.idx[k].hist) \ {0}
           u == CutOut(w, T, k)
<1>1. v = DeleteSet(u, {t \in T : t <= m})
  BY DEF DeleteInstance, CutOut
<1>2. Unlisted(w, u, k, T, d) /\ T = S
  <2>1. T = Range(w.idx[k].hist) \ {0} /\ u = CutOut(w, T, k)
    OBVIOUS
  <2> HIDE DEF T, u
  <2>2. Unlisted(w, u, k, T, d)
    BY <2>1, InstanceUnlisted
  <2>3. T = {t \in DOMAIN w.node : w.node[t].inst = k}
    BY <2>1, InstanceUnlisted
  <2>4. QED
    BY <2>2, <2>3
<1> HIDE DEF T, u
<1>3. Good(u, d) /\ {t \in T : t <= m} \in SUBSET (DOMAIN u.node)
  BY <1>2 DEF Unlisted, OnlyIndex
<1>4. Deleted(u, v, {t \in T : t <= m}, d)
  BY <1>1, <1>3, DeleteSetDeletes
<1>5. QED
  BY <1>2, <1>4 DEF Cleared

\* The sample before s is the highest when s is gone.
LEMMA PrevIsTop ==
  ASSUME NEW d, NEW w \in Caches(d), NEW s \in Nat, \A t \in DOMAIN w.node : t <= s, NEW v,
         DOMAIN v.node = DOMAIN w.node \ {s}
  PROVE  IsTop(v, PrevSeq(w, s)) /\ PrevSeq(w, s) \in Nat
<1> DEFINE B == {t \in DOMAIN w.node : t < s}
<1>0. DOMAIN w.node \subseteq Nat /\ DOMAIN v.node = B /\ B \subseteq Nat
  BY CacheFields DEF Seqs
<1>1. PrevSeq(w, s) = IF B = {} THEN 0 ELSE Max(B)
  BY DEF PrevSeq, Present
<1> HIDE DEF B
<1>2. CASE B = {}
  BY <1>0, <1>1, <1>2 DEF IsTop
<1>3. CASE B # {}
  <2>1. B \in SUBSET (0 .. s)
    BY <1>0
  <2>2. PICK x \in B : \A y \in B : y <= x
    BY <1>3, <2>1, GreatestOfBounded
  <2>3. Max(B) = x
    BY <1>0, <2>2, MaxIs
  <2>4. QED
    BY <1>0, <1>1, <1>3, <2>2, <2>3 DEF IsTop
<1>4. QED
  BY <1>2, <1>3

\* An unregister that nobody needs goes again.
Dropped(w, v, s, D, d) ==
  /\ Good(v, d) /\ UpTo(v, s) /\ DOMAIN v.node = DOMAIN w.node \ D
  /\ \A t \in DOMAIN v.node : v.node[t] = w.node[t]
  /\ IdxWithout(w, v, D, d) /\ v.maxDrop = w.maxDrop

\* DropNew drops the sample if it is acknowledged already, and only it.
LEMMA DropNewDoes ==
  ASSUME NEW d \in Nat, NEW w, Good(w, d), NEW s \in DOMAIN w.node, UpTo(w, s), w.maxseq = s, w.open.maxp1 <= s + 1,
         NEW m \in Nat, NEW v, v = DropNew(w, m, s), NEW D, D = IF s <= m THEN {s} ELSE {}
  PROVE  Dropped(w, v, s, D, d)
<1> DEFINE u == DeleteOne(w, s)
<1>0. s \in Nat /\ w \in Caches(d) /\ \A t \in DOMAIN w.node : t <= s
  BY CacheFields DEF Good, UpTo, Seqs
<1>1. CASE s <= m
  <2>1. v = [u EXCEPT !.maxseq = PrevSeq(w, s)]
    BY <1>1 DEF DropNew
  <2>2. Deleted(w, u, {s}, d)
    BY DeleteOneDeletes
  <2> HIDE DEF u
  <2>3. /\ Good(u, d) /\ DOMAIN u.node = DOMAIN w.node \ {s} /\ u.maxDrop = w.maxDrop /\ u.open.maxp1 <= w.open.maxp1
        /\ IdxWithout(w, u, {s}, d) /\ \A t \in DOMAIN u.node : u.node[t] = w.node[t]
    BY <2>2 DEF Deleted, Rest
  <2>4. IsTop(u, PrevSeq(w, s)) /\ PrevSeq(w, s) \in Nat
    BY <1>0, <2>3, PrevIsTop
  <2>5. Good(v, d) /\ v.node = u.node /\ v.idx = u.idx /\ v.open = u.open /\ v.maxseq = PrevSeq(w, s) /\ v.maxDrop = u.maxDrop
    BY <2>1, <2>3, <2>4, TopFields
  <2>6. v.open.maxp1 <= s + 1
    <3>1. u.open \in Ivs /\ w.open \in Ivs
      BY <2>3, CacheFields DEF Good
    <3>2. QED
      BY <1>0, <2>3, <2>5, <3>1 DEF Ivs
  <2>7. UpTo(v, s)
    BY <1>0, <2>3, <2>4, <2>5, <2>6 DEF UpTo, IsTop
  <2>8. IdxWithout(w, v, {s}, d)
    BY <2>3, <2>5 DEF IdxWithout
  <2>9. D = {s}
    BY <1>1
  <2>10. QED
    BY <2>3, <2>5, <2>7, <2>8, <2>9 DEF Dropped
<1>2. CASE ~(s <= m)
  <2>1. v = w /\ D = {}
    BY <1>2 DEF DropNew
  <2>2. IdxWithout(w, w, {}, d)
    BY DEF IdxWithout
  <2>3. QED
    BY <2>1, <2>2 DEF Dropped
<1>3. QED
  BY <1>1, <1>2

\* The samples of v are those of w and s, but for their place in the index.
Kin(w, v, m, s, kind) ==
  /\ DOMAIN v.node \subseteq DOMAIN w.node \cup {s}
  /\ \A t \in DOMAIN v.node : t # s => Weight(w, v, t)
  /\ s \in DOMAIN v.node => v.node[s].unacked = (s > m) /\ v.node[s].exp = Expires(kind)
  /\ v.maxDrop = w.maxDrop

\* A change of the index keeps the kinship.
LEMMA KinOnlyIndex ==
  ASSUME NEW w, NEW u, NEW v, NEW m, NEW s, NEW kind, Kin(w, u, m, s, kind), OnlyIndex(u, v)
  PROVE  Kin(w, v, m, s, kind)
<1>1. DOMAIN v.node = DOMAIN u.node /\ v.maxDrop = u.maxDrop /\ \A t \in DOMAIN u.node : Weight(u, v, t)
  BY DEF OnlyIndex, Rest
<1>2. ASSUME NEW t \in DOMAIN v.node, t # s PROVE Weight(w, v, t)
  <2>1. Weight(w, u, t) /\ Weight(u, v, t)
    BY <1>1, <1>2 DEF Kin
  <2>2. QED
    BY <2>1 DEF Weight
<1>3. s \in DOMAIN v.node => v.node[s].unacked = (s > m) /\ v.node[s].exp = Expires(kind)
  BY <1>1 DEF Kin, Weight
<1>4. QED
  BY <1>1, <1>2, <1>3 DEF Kin

\* So does a deletion.
LEMMA KinLess ==
  ASSUME NEW w, NEW u, NEW v, NEW m, NEW s, NEW kind, Kin(w, u, m, s, kind), DOMAIN v.node \subseteq DOMAIN u.node,
         \A t \in DOMAIN v.node : v.node[t] = u.node[t], v.maxDrop = u.maxDrop
  PROVE  Kin(w, v, m, s, kind)
<1>1. ASSUME NEW t \in DOMAIN v.node, t # s PROVE Weight(w, v, t)
  <2>1. Weight(w, u, t) /\ v.node[t] = u.node[t]
    BY <1>1 DEF Kin
  <2>2. QED
    BY <2>1 DEF Weight
<1>2. QED
  BY <1>1 DEF Kin

\* s is the highest number.
Topped(v, s) == v.maxseq = s /\ s \in DOMAIN v.node /\ UpTo(v, s)

\* A change of the index leaves the new sample on top.
LEMMA ToppedOnlyIndex ==
  ASSUME NEW u, NEW v, NEW s, Topped(u, s), OnlyIndex(u, v) PROVE Topped(v, s)
  BY DEF Topped, OnlyIndex, UpTo, IsTop, Rest

\* So does deleting others.
LEMMA ToppedDeleted ==
  ASSUME NEW d, NEW u, Good(u, d), NEW v, NEW s \in Nat, NEW D, Topped(u, s), Deleted(u, v, D, d), s \notin D PROVE Topped(v, s)
<1>1. /\ Good(v, d) /\ DOMAIN v.node = DOMAIN u.node \ D /\ v.maxseq = u.maxseq /\ v.open.maxp1 <= u.open.maxp1
  BY DEF Deleted, Rest
<1>2. v.open \in Ivs /\ u.open \in Ivs
  BY <1>1, CacheFields DEF Good
<1>3. v.open.maxp1 <= s + 1
  BY <1>1, <1>2 DEF Topped, UpTo, Ivs
<1>4. QED
  BY <1>1, <1>3 DEF Topped, UpTo, IsTop

\* Why a sample may go from the cache.
MayGo(W, m, x) ==
  /\ x <= m \/ (HDepth > 0 /\ HDepth <= Cardinality(LaterIn(W, x)))
  /\ qos.tl /\ W[x].kind \in Carries => UnregIn(W, x) \/ (TLDepth > 0 /\ TLDepth <= Cardinality(LaterIn(W, x)))
Gone(w, v, s, m, W) == \A x \in DOMAIN w.node \cup {s} : x \notin DOMAIN v.node => MayGo(W, m, x)

\* What an insertion does.
InsertDone(w, v, m, s, kind, d, W) ==
  Good(v, d) /\ UpTo(v, s) /\ Hist(v, d, W, {}) /\ Kin(w, v, m, s, kind) /\ Gone(w, v, s, m, W)

\* How it begins.
Begun(w, a, m, s, k, kind, d, W) ==
  /\ Good(a, d) /\ Topped(a, s) /\ Hist(a, d, W, {s}) /\ Kin(w, a, m, s, kind)
  /\ a.node[s].inst = NoInst /\ DOMAIN a.node = DOMAIN w.node \cup {s} /\ a.idx = w.idx
  /\ DOMAIN W \subseteq 1 .. s /\ W[s].key = k /\ W[s].kind = kind
  /\ kind \in Carries /\ k \in DOMAIN a.idx => Aged(a, d, W, k)
  /\ kind = "unregister" => \A x \in DOMAIN w.node : W[x].key = k => UnregIn(W, x)

\* What InsertSeq starts with.
LEMMA Begins ==
  ASSUME qos \in QosType, NEW w, Good(w, IdxDepth), NEW n \in Nat, n < MaxSeq, UpTo(w, n), NEW W, NEW W2,
         Hist(w, IdxDepth, W, {}), NEW s, s = n + 1, NEW k \in Keys, NEW kind \in AllKinds,
         Extends(W, W2, s, k, kind), NEW m \in Nat, NEW a, a = InsertSeq(w, m, s, kind)
  PROVE  Begun(w, a, m, s, k, kind, IdxDepth, W2)
<1> DEFINE d == IdxDepth
<1>0. d \in Nat /\ s \in Nat \ {0}
  BY Depths
<1>1. Inserted(w, a, m, s, kind, d)
  BY <1>0, InsertSeqInserts
<1>2. /\ Good(a, d) /\ s \notin DOMAIN w.node /\ DOMAIN a.node = DOMAIN w.node \cup {s}
      /\ \A t \in DOMAIN w.node : a.node[t] = w.node[t]
      /\ a.node[s].inst = NoInst /\ a.node[s].unacked = (s > m) /\ a.node[s].exp = Expires(kind)
      /\ a.idx = w.idx /\ a.maxseq = s /\ a.maxDrop = w.maxDrop /\ a.open.maxp1 = s + 1
  BY <1>1 DEF Inserted
<1>3. Hist(a, d, W2, {s})
  BY <1>0, <1>1, HistInserted
<1>4. Kin(w, a, m, s, kind)
  BY <1>2 DEF Kin, Weight
<1>5. Topped(a, s)
  <2>1. \A t \in DOMAIN w.node : t <= n
    BY DEF UpTo
  <2>2. DOMAIN w.node \subseteq Nat
    BY CacheFields DEF Good, Seqs
  <2>3. QED
    BY <1>0, <1>2, <2>1, <2>2 DEF Topped, UpTo, IsTop
<1>6. DOMAIN W2 \subseteq 1 .. s /\ W2[s].key = k /\ W2[s].kind = kind
  BY <1>0 DEF Extends
<1>7. kind \in Carries /\ k \in DOMAIN a.idx => Aged(a, d, W2, k)
  BY <1>0, <1>2, AgedInserted
<1>8. ASSUME kind = "unregister", NEW x \in DOMAIN w.node, W2[x].key = k PROVE UnregIn(W2, x)
  <2>1. x \in DOMAIN W
    BY DEF Hist
  <2>2. Grown(W, W2, s, k, kind, x)
    BY <1>0, <2>1, LaterGrows
  <2>3. QED
    BY <1>8, <2>2 DEF Grown
<1>9. QED
  BY <1>2, <1>3, <1>4, <1>5, <1>6, <1>7, <1>8 DEF Begun

\* A sample without an instance, or a cache without an index.
LEMMA InsertsPlain ==
  ASSUME NEW d \in Nat, NEW w, NEW v, NEW m, NEW s, NEW k, NEW kind, NEW W, Begun(w, v, m, s, k, kind, d, W),
         d = 0 \/ kind \notin Carries
  PROVE  InsertDone(w, v, m, s, kind, d, W)
<1>1. Hist(v, d, W, {})
  BY DEF Begun, Hist, Pushed
<1>2. Gone(w, v, s, m, W)
  BY DEF Gone, Begun
<1>3. QED
  BY <1>1, <1>2 DEF InsertDone, Begun, Topped

\* A first sample of an instance.
LEMMA InsertsNew ==
  ASSUME qos \in QosType, NEW w, NEW a, NEW m \in Nat, NEW s \in Nat \ {0}, NEW k \in Keys, NEW kind \in Carries, NEW W,
         Begun(w, a, m, s, k, kind, IdxDepth, W), k \notin DOMAIN a.idx,
         NEW b, NEW v, Started(a, b, v, s, k, IdxDepth)
  PROVE  InsertDone(w, v, m, s, kind, IdxDepth, W)
<1> DEFINE d == IdxDepth
<1>0. d \in Nat
  BY Depths
<1>1. /\ Good(a, d) /\ Topped(a, s) /\ Hist(a, d, W, {s}) /\ Kin(w, a, m, s, kind)
      /\ a.node[s].inst = NoInst /\ DOMAIN a.node = DOMAIN w.node \cup {s}
      /\ DOMAIN W \subseteq 1 .. s /\ W[s].key = k /\ W[s].kind = kind
  BY DEF Begun
<1>2. /\ Good(b, d) /\ OnlyIndex(a, b) /\ b.node = a.node /\ DOMAIN b.idx = DOMAIN a.idx \cup {k}
      /\ \A j \in DOMAIN a.idx : b.idx[j] = a.idx[j]
      /\ \A q \in 0 .. d - 1 : b.idx[k].hist[q] = 0
  BY DEF Started, Fresh
<1>3. Hist(b, d, W, {s})
  BY <1>0, <1>1, <1>2, HistNewInstance
<1>4. CASE d > 0
  <2>1. Reindexed(b, v, s, k, 0, 0, d)
    BY <1>4 DEF Started
  <2>2. OnlyIndex(b, v) /\ Good(v, d)
    BY <2>1 DEF Reindexed
  <2>3. Aged(b, d, W, k)
    BY <1>2 DEF Aged
  <2>4. s \in DOMAIN b.node /\ b.node[s].inst = NoInst /\ 0 \in 0 .. d - 1 /\ d \in Nat \ {0} /\ k \in DOMAIN b.idx
    BY <1>0, <1>1, <1>2, <1>4
  <2>5. \A q \in 0 .. d - 1 : q # 0 /\ b.idx[k].hist[q] # 0 => AgeAt(v.idx[k], q, d) = AgeAt(b.idx[k], q, d) + 1
    BY <1>2
  <2>6. Hist(v, d, W, {})
    BY <1>1, <1>2, <1>3, <2>1, <2>3, <2>4, <2>5, HistReindexed
  <2>7. Topped(v, s) /\ Kin(w, v, m, s, kind)
    BY <1>1, <1>2, <2>2, ToppedOnlyIndex, KinOnlyIndex
  <2>8. Gone(w, v, s, m, W)
    BY <1>1, <1>2, <2>2 DEF Gone, OnlyIndex
  <2>9. QED
    BY <2>2, <2>6, <2>7, <2>8 DEF InsertDone, Topped
<1>5. CASE ~(d > 0)
  <2>1. v = b
    BY <1>5 DEF Started
  <2>2. Hist(v, d, W, {})
    BY <1>3, <1>5, <2>1 DEF Hist, Pushed
  <2>3. Topped(v, s) /\ Kin(w, v, m, s, kind)
    BY <1>1, <1>2, <2>1, ToppedOnlyIndex, KinOnlyIndex
  <2>4. Gone(w, v, s, m, W)
    BY <1>1, <1>2, <2>1 DEF Gone
  <2>5. QED
    BY <1>2, <2>1, <2>2, <2>3, <2>4 DEF InsertDone, Topped
<1>6. QED
  BY <1>4, <1>5

\* A sample in the index is in its slot.
LEMMA IndexedIs ==
  ASSUME NEW d, NEW w, Good(w, d), NEW W, DOMAIN w.node \subseteq DOMAIN W, Ages(w, d, W),
         NEW x \in DOMAIN w.node, w.node[x].inst # NoInst, NEW k, k = w.node[x].inst, NEW p, p = w.node[x].pos
  PROVE  k \in DOMAIN w.idx /\ p \in 0 .. d - 1 /\ w.idx[k].hist[p] = x /\ Slot(w, d, W, k, p, x)
<1>1. k \in DOMAIN w.idx /\ p \in 0 .. d - 1 /\ w.idx[k].hist[p] = x
  BY DEF Good, Linked
<1>2. x # 0
  BY CacheFields DEF Good, Seqs
<1>3. Slot(w, d, W, k, p, x)
  BY <1>1, <1>2, SlotIs
<1>4. QED
  BY <1>1, <1>3

\* A later sample of an instance.
LEMMA InsertsKnown ==
  ASSUME qos \in QosType, IdxDepth > 0, NEW w, NEW a, NEW m \in Nat, NEW s \in Nat \ {0}, NEW k \in Keys, NEW kind \in Carries,
         NEW W, Begun(w, a, m, s, k, kind, IdxDepth, W), k \in DOMAIN a.idx,
         NEW p, SlotAfter(a.idx[k], p, IdxDepth), NEW old, old = a.idx[k].hist[p], p \in 0 .. IdxDepth - 1,
         NEW b, NEW D, NEW v, Reindexed(a, b, s, k, p, old, IdxDepth),
         Victims(b, D, m, s, k, old, IdxDepth), Deleted(b, v, D, IdxDepth)
  PROVE  InsertDone(w, v, m, s, kind, IdxDepth, W) /\ Hist(b, IdxDepth, W, {})
<1> DEFINE d == IdxDepth
<1>0. d \in Nat \ {0} /\ TLDepth \in Nat /\ HDepth \in Nat /\ TLDepth <= d /\ HDepth <= d
  BY Depths
<1>1. /\ Good(a, d) /\ Topped(a, s) /\ Hist(a, d, W, {s}) /\ Kin(w, a, m, s, kind)
      /\ a.node[s].inst = NoInst /\ DOMAIN a.node = DOMAIN w.node \cup {s}
      /\ DOMAIN W \subseteq 1 .. s /\ W[s].key = k /\ W[s].kind = kind /\ Aged(a, d, W, k) /\ s \in DOMAIN a.node
  BY DEF Begun, Topped
<1>2. Good(b, d) /\ OnlyIndex(a, b) /\ b.idx[k].head = p /\ DOMAIN b.node = DOMAIN a.node /\ DOMAIN b.idx = DOMAIN a.idx
  BY DEF Reindexed, OnlyIndex
<1>3. a.idx[k].head \in 0 .. d - 1
  BY <1>0, <1>1 DEF Good, Linked
<1>4. \A q \in 0 .. d - 1 : q # p /\ a.idx[k].hist[q] # 0 => AgeAt(b.idx[k], q, d) = AgeAt(a.idx[k], q, d) + 1
  <2>1. SlotAfter(a.idx[k], b.idx[k].head, d)
    BY <1>2
  <2>2. QED
    BY <1>0, <1>2, <1>3, <2>1, AgeMoves
<1>5. old # 0 => d <= Cardinality(LaterIn(W, old))
  <2>1. AgeAt(a.idx[k], p, d) = d - 1
    <3>1. SlotAfter(a.idx[k], b.idx[k].head, d) /\ p = b.idx[k].head
      BY <1>2
    <3>2. QED
      BY <1>0, <1>3, <3>1, AgeMoves
  <2>2. old # 0 => AgeAt(a.idx[k], p, d) + 1 <= Cardinality(LaterIn(W, old))
    BY <1>1 DEF Aged
  <2>3. QED
    <3>1. AgeAt(a.idx[k], p, d) + 1 = d
      BY <1>0, <2>1
    <3>2. QED
      BY <2>2, <3>1
<1>6. Hist(b, d, W, {})
  BY <1>0, <1>1, <1>4, <1>5, HistReindexed
<1>7. Hist(v, d, W, {})
  BY <1>6, HistShrunk, DeletedShrinks
<1>8. Topped(b, s) /\ Kin(w, b, m, s, kind)
  BY <1>1, <1>2, ToppedOnlyIndex, KinOnlyIndex
<1>9. Topped(v, s)
  BY <1>2, <1>8, ToppedDeleted DEF Victims
<1>10. Kin(w, v, m, s, kind) /\ Good(v, d) /\ DOMAIN v.node = DOMAIN b.node \ D
  <2>1. /\ DOMAIN v.node = DOMAIN b.node \ D /\ \A t \in DOMAIN v.node : v.node[t] = b.node[t]
        /\ v.maxDrop = b.maxDrop /\ Good(v, d)
    BY DEF Deleted, Rest
  <2>2. QED
    BY <1>8, <2>1, KinLess
<1>11. ASSUME NEW x \in D PROVE MayGo(W, m, x)
  <2>0. Cardinality(LaterIn(W, x)) \in Nat
    BY <1>1, LaterFinite
  <2>1. CASE Old(m, old, x)
    <3>1. d <= Cardinality(LaterIn(W, x)) /\ (HDepth > 0 \/ x <= m) /\ (~qos.tl \/ TLDepth > 0)
      BY <1>5, <2>1 DEF Old, MayOverwrite
    <3>2. QED
      <4>1. Cardinality(LaterIn(W, x)) >= HDepth /\ Cardinality(LaterIn(W, x)) >= TLDepth
        BY <1>0, <2>0, <3>1
      <4>2. QED
        BY <1>0, <2>0, <3>1, <4>1 DEF MayGo
  <2>2. CASE Beyond(m, s, d) /\ AtDepth(b, k, d, x)
    <3>1. PICK q \in 0 .. d - 1 : x = b.idx[k].hist[q] /\ AgeAt(b.idx[k], q, d) = TLDepth /\ x # 0
      BY <2>2 DEF AtDepth
    <3>2. TLDepth <= Cardinality(LaterIn(W, x))
      BY <1>2, <1>6, <3>1 DEF Hist, Ages
    <3>3. x <= s /\ x \in Nat
      <4>1. x \in DOMAIN b.node /\ \A t \in DOMAIN b.node : t <= s
        BY <1>8, <1>11 DEF Victims, Topped, UpTo
      <4>2. QED
        BY <1>2, <4>1, CacheFields DEF Good, Seqs
    <3>4. QED
      BY <2>2, <3>2, <3>3 DEF MayGo, Beyond
  <2>3. QED
    BY <2>1, <2>2 DEF Victims
<1>12. Gone(w, v, s, m, W)
  BY <1>1, <1>2, <1>10, <1>11 DEF Gone
<1>13. QED
  BY <1>6, <1>7, <1>9, <1>10, <1>12 DEF InsertDone, Topped

\* It keeps what an insertion needs.
LEMMA ClearedKeeps ==
  ASSUME NEW d \in Nat, NEW w, NEW a, NEW m \in Nat, NEW s \in Nat \ {0}, NEW k \in Keys, NEW kind, kind = "unregister",
         NEW W, Begun(w, a, m, s, k, kind, d, W), NEW c, Cleared(a, c, m, k, d)
  PROVE  /\ Good(c, d) /\ Topped(c, s) /\ Hist(c, d, W, {s}) /\ Kin(w, c, m, s, kind)
         /\ \A x \in DOMAIN a.node \ DOMAIN c.node : x <= m /\ UnregIn(W, x)
<1>1. /\ Good(a, d) /\ Topped(a, s) /\ Hist(a, d, W, {s}) /\ Kin(w, a, m, s, kind)
      /\ a.node[s].inst = NoInst /\ DOMAIN a.node = DOMAIN w.node \cup {s}
      /\ \A x \in DOMAIN w.node : W[x].key = k => UnregIn(W, x)
  BY DEF Begun
<1>2. CASE k \in DOMAIN a.idx
  <2> DEFINE S == {t \in DOMAIN a.node : a.node[t].inst = k}
             X == {t \in S : t <= m}
  <2>1. PICK u : Unlisted(a, u, k, S, d) /\ Deleted(u, c, X, d)
    BY <1>2 DEF Cleared
  <2>2. k # NoInst
    BY WhcAssumption
  <2>3. ASSUME NEW x \in S PROVE UnregIn(W, x) /\ x # s /\ x \in DOMAIN a.node
    <3>0. x \in DOMAIN a.node /\ a.node[x].inst = k /\ a.node[x].inst # NoInst
      BY <2>2
    <3>1. DOMAIN a.node \subseteq DOMAIN W /\ Ages(a, d, W)
      BY <1>1 DEF Hist
    <3>2. Slot(a, d, W, k, a.node[x].pos, x)
      BY <1>1, <3>0, <3>1, IndexedIs
    <3>3. x # s
      BY <1>1, <3>0
    <3>4. W[x].key = k /\ x \in DOMAIN w.node
      BY <1>1, <3>0, <3>2, <3>3 DEF Slot
    <3>5. QED
      BY <1>1, <3>0, <3>3, <3>4
  <2> HIDE DEF S
  <2>4. Good(u, d) /\ OnlyIndex(a, u) /\ DOMAIN u.node = DOMAIN a.node
    BY <2>1 DEF Unlisted, OnlyIndex
  <2>5. Topped(u, s) /\ Kin(w, u, m, s, kind)
    BY <1>1, <2>4, ToppedOnlyIndex, KinOnlyIndex
  <2>6. Hist(u, d, W, {s})
    BY <1>1, <2>1, <2>3, HistUnlisted
  <2>7. Hist(c, d, W, {s})
    BY <2>1, <2>6, HistShrunk, DeletedShrinks
  <2>8. s \notin X
    BY <2>3
  <2>9. Topped(c, s)
    BY <2>1, <2>4, <2>5, <2>8, ToppedDeleted
  <2>10. /\ DOMAIN c.node = DOMAIN u.node \ X /\ Good(c, d)
         /\ \A t \in DOMAIN c.node : c.node[t] = u.node[t]
         /\ c.maxDrop = u.maxDrop
    BY <2>1 DEF Deleted, Rest
  <2>11. Kin(w, c, m, s, kind)
    BY <2>5, <2>10, KinLess
  <2>12. \A x \in DOMAIN a.node \ DOMAIN c.node : x <= m /\ UnregIn(W, x)
    BY <2>3, <2>4, <2>10
  <2>13. QED
    BY <2>7, <2>9, <2>10, <2>11, <2>12
<1>3. CASE k \notin DOMAIN a.idx
  <2>1. c = a
    BY <1>3 DEF Cleared
  <2>2. QED
    BY <1>1, <2>1
<1>4. QED
  BY <1>2, <1>3

\* An unregister.
LEMMA InsertsUnregister ==
  ASSUME qos \in QosType, NEW d \in Nat, NEW w, NEW a, NEW m \in Nat, NEW s \in Nat \ {0}, NEW k \in Keys, NEW kind, kind = "unregister",
         NEW W, Begun(w, a, m, s, k, kind, d, W), NEW c, Cleared(a, c, m, k, d),
         NEW v, v = DropNew(c, m, s)
  PROVE  InsertDone(w, v, m, s, kind, d, W)
<1>1. /\ Good(c, d) /\ Topped(c, s) /\ Hist(c, d, W, {s}) /\ Kin(w, c, m, s, kind)
      /\ \A x \in DOMAIN a.node \ DOMAIN c.node : x <= m /\ UnregIn(W, x)
  BY ClearedKeeps
<1>2. s \in DOMAIN c.node /\ UpTo(c, s) /\ c.maxseq = s /\ c.open.maxp1 <= s + 1
  BY <1>1 DEF Topped, UpTo
<1> DEFINE D == IF s <= m THEN {s} ELSE {}
<1>3. /\ Good(v, d) /\ UpTo(v, s) /\ DOMAIN v.node = DOMAIN c.node \ D
      /\ \A t \in DOMAIN v.node : v.node[t] = c.node[t]
      /\ IdxWithout(c, v, D, d) /\ v.maxDrop = c.maxDrop
  <2>1. Dropped(c, v, s, D, d)
    BY <1>1, <1>2, DropNewDoes
  <2>2. QED
    BY <2>1 DEF Dropped
<1>4. Kin(w, v, m, s, kind)
  BY <1>1, <1>3, KinLess
<1>5. Hist(v, d, W, {})
  <2>1. Shrunk(c, v, D, d)
    BY <1>3 DEF Shrunk
  <2>2. Hist(v, d, W, {s})
    BY <1>1, <2>1, HistShrunk
  <2>3. W[s].kind \notin Carries
    BY DEF Begun, Carries
  <2>4. QED
    BY <2>2, <2>3 DEF Hist, Pushed
<1>6. Gone(w, v, s, m, W)
  <2>1. SUFFICES ASSUME NEW x \in DOMAIN w.node \cup {s}, x \notin DOMAIN v.node PROVE MayGo(W, m, x)
    BY DEF Gone
  <2>2. x \in DOMAIN a.node
    BY DEF Begun
  <2>3. CASE x \notin DOMAIN c.node
    BY <1>1, <2>2, <2>3 DEF MayGo
  <2>4. CASE x \in DOMAIN c.node
    <3>1. x = s /\ s <= m
      BY <1>3, <2>1, <2>4
    <3>2. W[s].kind \notin Carries
      BY DEF Begun, Carries
    <3>3. QED
      BY <3>1, <3>2 DEF MayGo
  <2>5. QED
    BY <2>3, <2>4
<1>7. QED
  BY <1>3, <1>4, <1>5, <1>6 DEF InsertDone

\* The cases of whc_default_insert, after the sample a has been put at the end.
PlainCase(a, v, k, kind, d) == v = a /\ (d = 0 \/ kind \notin Carries) /\ (kind \in Carries => k \in DOMAIN a.idx) /\ kind # "unregister"
UnregisterCase(a, v, m, s, k, kind, d) == kind = "unregister" /\ \E c : Cleared(a, c, m, k, d) /\ v = DropNew(c, m, s)
Replaces(a, b, v, p, old, D, m, s, k, d) ==
  /\ SlotAfter(a.idx[k], p, d) /\ p \in 0 .. d - 1 /\ old = a.idx[k].hist[p]
  /\ Reindexed(a, b, s, k, p, old, d) /\ Victims(b, D, m, s, k, old, d) /\ Deleted(b, v, D, d)
KnownCase(a, v, m, s, k, kind, d) ==
  kind \in Carries /\ k \in DOMAIN a.idx /\ d > 0 /\ \E b, p, old, D : Replaces(a, b, v, p, old, D, m, s, k, d)
NewCase(a, v, s, k, kind, d) == kind \in Carries /\ k \notin DOMAIN a.idx /\ \E b : Started(a, b, v, s, k, d)
Shape(w, a, v, m, s, k, kind, d, W) ==
  /\ Begun(w, a, m, s, k, kind, d, W)
  /\ \/ PlainCase(a, v, k, kind, d)
     \/ UnregisterCase(a, v, m, s, k, kind, d)
     \/ KnownCase(a, v, m, s, k, kind, d)
     \/ NewCase(a, v, s, k, kind, d)

\* Insert takes one of the four cases.
LEMMA InsertShapes ==
  ASSUME qos \in QosType, NEW w, Good(w, IdxDepth), NEW n \in Nat, n < MaxSeq, UpTo(w, n), NEW W, NEW W2,
         Hist(w, IdxDepth, W, {}), NEW s, s = n + 1, NEW k \in Keys, NEW kind \in AllKinds,
         Extends(W, W2, s, k, kind), NEW m \in Nat, NEW v, v = Insert(w, m, s, k, kind),
         NEW a, a = InsertSeq(w, m, s, kind)
  PROVE  Shape(w, a, v, m, s, k, kind, IdxDepth, W2)
<1> DEFINE d == IdxDepth
<1>0. d \in Nat /\ s \in Nat \ {0}
  BY Depths
<1>1. Begun(w, a, m, s, k, kind, d, W2)
  BY Begins
<1>2. /\ kind = "empty" => v = a
      /\ kind = "unregister" => v = DropNew(IF k \in DOMAIN a.idx THEN DeleteInstance(a, m, k) ELSE a, m, s)
      /\ kind \in Carries /\ k \in DOMAIN a.idx => v = IF d > 0 THEN Overwrite(a, m, s, k) ELSE a
      /\ kind \in Carries /\ k \notin DOMAIN a.idx => v = NewInstance(a, s, k)
  <2>1. v = CASE kind = "empty" -> a
              [] kind = "unregister" -> DropNew(IF k \in DOMAIN a.idx THEN DeleteInstance(a, m, k) ELSE a, m, s)
              [] kind \in Carries /\ k \in DOMAIN a.idx -> IF d > 0 THEN Overwrite(a, m, s, k) ELSE a
              [] OTHER -> NewInstance(a, s, k)
    BY DEF Insert, Carries
  <2>2. QED
    BY <2>1 DEF Carries
<1>3. Good(a, d) /\ s \in DOMAIN a.node /\ a.node[s].inst = NoInst
  BY <1>1 DEF Begun, Topped
<1>4. CASE kind = "empty"
  BY <1>1, <1>2, <1>4 DEF Carries, Shape, PlainCase
<1>5. CASE kind = "unregister"
  <2> DEFINE c == IF k \in DOMAIN a.idx THEN DeleteInstance(a, m, k) ELSE a
  <2>1. v = DropNew(c, m, s)
    BY <1>2, <1>5
  <2>2. Cleared(a, c, m, k, d)
    <3>1. CASE k \in DOMAIN a.idx
      <4>1. c = DeleteInstance(a, m, k)
        BY <3>1
      <4> HIDE DEF c
      <4>2. QED
        BY <1>0, <1>3, <3>1, <4>1, DeleteInstanceDoes
    <3>2. CASE k \notin DOMAIN a.idx
      BY <3>2 DEF Cleared
    <3>3. QED
      BY <3>1, <3>2
  <2> HIDE DEF c
  <2>3. QED
    BY <1>1, <1>5, <2>1, <2>2 DEF Shape, UnregisterCase
<1>6. CASE kind \in Carries /\ k \in DOMAIN a.idx /\ d > 0
  <2> DEFINE p == (a.idx[k].head + 1) % IdxDepth
             old == a.idx[k].hist[p]
  <2>0. SlotAfter(a.idx[k], p, d)
    BY DEF SlotAfter
  <2> HIDE DEF p
  <2>1. v = Overwrite(a, m, s, k)
    BY <1>2, <1>6
  <2>2. /\ p \in 0 .. d - 1
        /\ \E b, D : /\ Reindexed(a, b, s, k, p, old, d) /\ Victims(b, D, m, s, k, old, d)
                     /\ Deleted(b, v, D, d)
    BY <1>3, <1>6, <2>0, <2>1, OverwriteDoes
  <2>3. PICK b, D : Reindexed(a, b, s, k, p, old, d) /\ Victims(b, D, m, s, k, old, d) /\ Deleted(b, v, D, d)
    BY <2>2
  <2>4. QED
    BY <1>1, <1>6, <2>0, <2>2, <2>3 DEF Shape, KnownCase, Replaces
<1>7. CASE kind \in Carries /\ k \in DOMAIN a.idx /\ ~(d > 0)
  BY <1>0, <1>1, <1>2, <1>7 DEF Shape, PlainCase, Carries
<1>8. CASE kind \in Carries /\ k \notin DOMAIN a.idx
  <2>1. PICK b : Started(a, b, v, s, k, d)
    BY <1>2, <1>3, <1>8, NewInstanceDoes
  <2>2. QED
    BY <1>1, <1>8, <2>1 DEF Shape, NewCase
<1>9. QED
  BY <1>4, <1>5, <1>6, <1>7, <1>8 DEF AllKinds, Carries

\* whc_default_insert, as far as reliability and durability go.
LEMMA InsertDoes ==
  ASSUME qos \in QosType, NEW w, NEW a, NEW v, NEW m \in Nat, NEW s \in Nat \ {0}, NEW k \in Keys, NEW kind \in AllKinds,
         NEW W, Shape(w, a, v, m, s, k, kind, IdxDepth, W)
  PROVE  InsertDone(w, v, m, s, kind, IdxDepth, W)
<1> DEFINE d == IdxDepth
<1>0. d \in Nat /\ Begun(w, a, m, s, k, kind, d, W)
  BY Depths DEF Shape
<1>1. CASE PlainCase(a, v, k, kind, d)
  BY <1>0, <1>1, InsertsPlain DEF PlainCase
<1>2. CASE UnregisterCase(a, v, m, s, k, kind, d)
  <2>1. PICK c : Cleared(a, c, m, k, d) /\ v = DropNew(c, m, s)
    BY <1>2 DEF UnregisterCase
  <2>2. kind = "unregister"
    BY <1>2 DEF UnregisterCase
  <2>3. QED
    BY <1>0, <2>1, <2>2, InsertsUnregister
<1>3. CASE KnownCase(a, v, m, s, k, kind, d)
  <2>1. PICK b, p, old, D : Replaces(a, b, v, p, old, D, m, s, k, d)
    BY <1>3 DEF KnownCase
  <2>2. kind \in Carries /\ k \in DOMAIN a.idx /\ d > 0
    BY <1>3 DEF KnownCase
  <2>3. /\ SlotAfter(a.idx[k], p, d) /\ p \in 0 .. d - 1 /\ old = a.idx[k].hist[p]
        /\ Reindexed(a, b, s, k, p, old, d) /\ Victims(b, D, m, s, k, old, d) /\ Deleted(b, v, D, d)
    BY <2>1 DEF Replaces
  <2>4. QED
    BY <1>0, <2>2, <2>3, InsertsKnown
<1>4. CASE NewCase(a, v, s, k, kind, d)
  <2>1. PICK b : Started(a, b, v, s, k, d)
    BY <1>4 DEF NewCase
  <2>2. kind \in Carries /\ k \notin DOMAIN a.idx
    BY <1>4 DEF NewCase
  <2>3. QED
    BY <1>0, <2>1, <2>2, InsertsNew
<1>5. QED
  BY <1>1, <1>2, <1>3, <1>4 DEF Shape

-----------------------------------------------------------------------------
(* The invariant *)

\* The acknowledgement states there are when n samples have been written.
AckMaps(n) == UNION {[R -> (0 .. n) \cup {MaxSeqNumber}] : R \in SUBSET Readers}
Acks ==
  /\ acked \in AckMaps(wrseq)
  /\ relrd \subseteq DOMAIN acked
  /\ \A r \in DOMAIN acked : acked[r] # MaxSeqNumber => r \in relrd
  /\ relrd # {} => qos.reliable

MNow == MaxDropSeq(acked, wrseq)
NoIndex == IdxDepth = 0 /\ ~qos.deadline /\ ~qos.tl

CacheOk(w, n, m, W) ==
  /\ Good(w, IdxDepth) /\ UpTo(w, n) /\ Hist(w, IdxDepth, W, {})
  /\ AckedUpTo(w, m) /\ BeyondDrop(w) /\ w.maxDrop <= n
  /\ ~qos.tl => \A s \in DOMAIN w.node : w.node[s].unacked
  /\ NoIndex => Single(w, n)
  /\ ~qos.lifespan => \A s \in DOMAIN w.node : ~w.node[s].exp
Cache ==
  /\ qos \in Qos /\ wrseq \in 0 .. MaxSeq /\ settled \in Nat
  /\ written \in Writings(wrseq)
  /\ CacheOk(whc, wrseq, MNow, written)

\* The acknowledged samples that a transient-local writer keeps are within its depth.
Bnd(w, W) ==
  /\ InIndex(w, W) /\ Limited(w, TLDepth, W)
  /\ IdxDepth > TLDepth => Waiting(w, IdxDepth, TLDepth) /\ (qos.lifespan => ExpInIndex(w))
Bounded == qos.tl /\ TLDepth > 0 => Bnd(whc, written)

Loans ==
  /\ loan \in {0} \cup DOMAIN written
  /\ frees \in [Seqs -> Nat]
  /\ \A s \in Seqs \ DOMAIN written : frees[s] = 0
  /\ freed \in BOOLEAN /\ iter \in BOOLEAN
  /\ freed => loan = 0
  /\ iter => loan # 0

Inv == Acks /\ Cache /\ UnackedKept /\ TransientLocalKept
FullInv == Inv /\ Loans /\ ContentsFreedOnce

-----------------------------------------------------------------------------
(* What the readers have acknowledged *)

\* m is the number all have acknowledged.
IsDrop(ack, n, m) ==
  /\ m \in 0 .. n
  /\ \A r \in DOMAIN ack : m <= ack[r]
  /\ \/ m = n /\ \A r \in DOMAIN ack : ack[r] = MaxSeqNumber
     \/ \E r \in DOMAIN ack : ack[r] # MaxSeqNumber /\ m = ack[r]

\* ddsi_writer_max_drop_seq computes that number.
LEMMA MaxDropIs ==
  ASSUME NEW n \in 0 .. MaxSeq, NEW ack \in AckMaps(n), NEW m, m = MaxDropSeq(ack, n)
  PROVE  IsDrop(ack, n, m)
<1> DEFINE V == Range(ack) \cup {MaxSeqNumber}
           x == Min(V)
<1>0. MaxSeq \in Nat
  BY WhcAssumption
<1>1. \A r \in DOMAIN ack : ack[r] \in (0 .. n) \cup {MaxSeqNumber}
  BY DEF AckMaps
<1>2. \A y : y \in V <=> y = MaxSeqNumber \/ \E r \in DOMAIN ack : y = ack[r]
  BY DEF Range
<1>3. V \in SUBSET Nat /\ V # {}
  <2>1. \A y \in V : y \in Nat
    BY <1>0, <1>1, <1>2 DEF MaxSeqNumber
  <2>2. QED
    BY <1>2, <2>1
<1>4. m = IF x = MaxSeqNumber THEN n ELSE x
  BY DEF MaxDropSeq
<1> HIDE DEF V
<1>5. PICK y \in V : \A z \in V : y <= z
  BY <1>3, LeastOfNat
<1>6. x = y
  <2>1. V \in SUBSET Int
    BY <1>3
  <2>2. QED
    BY <1>5, <2>1, MinIs
<1> HIDE DEF x
<1>7. y = MaxSeqNumber \/ \E r \in DOMAIN ack : y = ack[r]
  BY <1>2, <1>5
<1>8. \A r \in DOMAIN ack : y <= ack[r]
  BY <1>2, <1>5
<1>9. y <= MaxSeqNumber
  BY <1>2, <1>5
<1>10. CASE y = MaxSeqNumber
  <2>1. \A r \in DOMAIN ack : ack[r] = MaxSeqNumber
    BY <1>0, <1>1, <1>8, <1>10 DEF MaxSeqNumber
  <2>2. QED
    BY <1>0, <1>4, <1>6, <1>10, <2>1 DEF IsDrop, MaxSeqNumber
<1>11. CASE y # MaxSeqNumber
  <2>1. m = y
    BY <1>4, <1>6, <1>11
  <2>2. PICK r \in DOMAIN ack : y = ack[r]
    BY <1>7, <1>11
  <2>3. m \in 0 .. n
    BY <1>1, <1>11, <2>1, <2>2
  <2>4. QED
    BY <1>8, <1>11, <2>1, <2>2, <2>3 DEF IsDrop
<1>12. QED
  BY <1>10, <1>11

\* What all have acknowledged does not go down when each reader acknowledges more or leaves.
LEMMA DropGrows ==
  ASSUME NEW n \in 0 .. MaxSeq, NEW ack \in AckMaps(n), NEW ack2 \in AckMaps(n), NEW m, NEW m2,
         IsDrop(ack, n, m), IsDrop(ack2, n, m2), DOMAIN ack2 \subseteq DOMAIN ack,
         \A r \in DOMAIN ack2 : ack[r] <= ack2[r]
  PROVE  m <= m2
<1>0. \A r \in DOMAIN ack : ack[r] \in Nat /\ m <= ack[r]
  BY WhcAssumption DEF AckMaps, IsDrop, MaxSeqNumber
<1>1. \A r \in DOMAIN ack2 : ack2[r] \in Nat
  BY WhcAssumption DEF AckMaps, MaxSeqNumber
<1>2. m \in 0 .. n /\ m2 \in 0 .. n
  BY DEF IsDrop
<1>3. CASE m2 = n
  BY <1>2, <1>3
<1>4. CASE m2 # n
  <2>1. PICK r \in DOMAIN ack2 : m2 = ack2[r]
    BY <1>4 DEF IsDrop
  <2>2. QED
    BY <1>0, <1>1, <1>2, <2>1
<1>5. QED
  BY <1>3, <1>4

\* One more sample: what all have acknowledged is the same, or everything.
LEMMA DropNext ==
  ASSUME NEW n \in 0 .. MaxSeq, n < MaxSeq, NEW ack \in AckMaps(n), NEW m, NEW m2, m = MaxDropSeq(ack, n), m2 = MaxDropSeq(ack, n + 1)
  PROVE  m2 = m \/ (m = n /\ m2 = n + 1)
  BY DEF MaxDropSeq

\* More samples, and the acknowledgement states stay what they are.
LEMMA AckMapsGrow ==
  ASSUME NEW n \in Nat, NEW ack \in AckMaps(n) PROVE ack \in AckMaps(n + 1)
<1>1. PICK R \in SUBSET Readers : ack \in [R -> (0 .. n) \cup {MaxSeqNumber}]
  BY DEF AckMaps
<1>2. ack \in [R -> (0 .. n + 1) \cup {MaxSeqNumber}]
  BY <1>1
<1>3. QED
  BY <1>2 DEF AckMaps

-----------------------------------------------------------------------------
(* Removing, seen from the invariant *)

\* What removing the samples up to m does.
RemoveDone(w, v, m, n, d, W) ==
  /\ Good(v, d) /\ UpTo(v, n) /\ Hist(v, d, W, {}) /\ AckedUpTo(v, m) /\ BeyondDrop(v) /\ v.maxDrop <= n
  /\ DOMAIN v.node \subseteq DOMAIN w.node
  /\ \A x \in DOMAIN w.node : x \notin DOMAIN v.node => MayGo(W, m, x)
  /\ \A t \in DOMAIN v.node : v.node[t].exp = w.node[t].exp
  /\ ~qos.tl => \A t \in DOMAIN v.node : /\ w.node[t].unacked => v.node[t].unacked
                                         /\ t <= m => t <= w.maxDrop

\* A sample that is removed may go.
LEMMA RemovedMayGo ==
  ASSUME qos \in QosType, NEW w, Good(w, IdxDepth), NEW W, Hist(w, IdxDepth, W, {}), NEW n \in Nat, DOMAIN W \subseteq 1 .. n,
         NEW m, NEW x \in DOMAIN w.node, x <= m, ~InTlidx(w, x), ~(qos.tl /\ TLDepth = 0)
  PROVE  MayGo(W, m, x)
<1> DEFINE d == IdxDepth
           c == Cardinality(LaterIn(W, x))
<1>0. d \in Nat /\ TLDepth \in Nat /\ TLDepth <= d /\ qos.tl \in BOOLEAN
  BY Depths
<1>1. c \in Nat
  BY LaterFinite
<1>2. SUFFICES ASSUME qos.tl, W[x].kind \in Carries PROVE UnregIn(W, x) \/ (TLDepth > 0 /\ TLDepth <= c)
  BY DEF MayGo
<1>3. TLDepth > 0
  BY <1>0, <1>2
<1>4. CASE w.node[x].inst = NoInst
  <2>1. x \in DOMAIN w.node \ {} /\ d > 0
    BY <1>0, <1>3
  <2>2. UnregIn(W, x) \/ d <= c
    BY <1>2, <1>4, <2>1 DEF Hist, Pushed
  <2>3. QED
    BY <1>0, <1>1, <1>3, <2>2
<1>5. CASE w.node[x].inst # NoInst
  <2> DEFINE k == w.node[x].inst
             p == w.node[x].pos
  <2>1. DOMAIN w.node \subseteq DOMAIN W /\ Ages(w, d, W)
    BY DEF Hist
  <2>2. k \in DOMAIN w.idx /\ p \in 0 .. d - 1 /\ w.idx[k].hist[p] = x /\ Slot(w, d, W, k, p, x)
    BY <1>5, <2>1, IndexedIs
  <2>3. AgeAt(w.idx[k], p, d) <= c
    BY <2>2 DEF Slot
  <2>4. AgeAt(w.idx[k], p, d) \in 0 .. d - 1
    <3>1. w.idx[k].head \in 0 .. d - 1
      <4>1. Linked(w, d) /\ d > 0
        BY <1>0, <1>3, <2>2 DEF Good
      <4>2. QED
        BY <2>2, <4>1, HeadIn
    <3>2. QED
      BY <1>0, <2>2, <3>1, AgeRange
  <2>5. ~(AgeAt(w.idx[k], p, d) < TLDepth)
    BY <1>5, InTlidxIs
  <2> HIDE DEF c, k, p
  <2>6. QED
    BY <1>0, <1>1, <1>3, <2>3, <2>4, <2>5
<1>6. QED
  BY <1>4, <1>5

\* Removing with an index, a deadline or durability.
LEMMA FullDoes ==
  ASSUME qos \in QosType, NEW w, Good(w, IdxDepth), NEW W, Hist(w, IdxDepth, W, {}), NEW n \in 0 .. MaxSeq, DOMAIN W \subseteq 1 .. n,
         UpTo(w, n), BeyondDrop(w), NEW m0 \in Nat, AckedUpTo(w, m0), NEW m \in 0 .. n, m0 <= m,
         NEW v, v = RemoveAckedFull(w, m)
  PROVE  RemoveDone(w, v, m, n, IdxDepth, W)
<1> DEFINE d == IdxDepth
<1>0. Ordered(w, d) /\ IsTop(w, w.maxseq) /\ m \in Nat /\ d \in Nat /\ w.maxDrop \in Nat /\ DOMAIN w.node \subseteq Nat
  BY Depths, CacheFields DEF Hist, UpTo, Good, Seqs
<1>1. /\ \E K, S : Removal(w, v, K, S, d) /\ Chosen1(w, v, K, S, m) /\ Chosen2(w, v, K, d)
      /\ v.maxDrop = m /\ v.open.maxp1 <= w.open.maxp1
  BY <1>0, FullRemoves
<1>2. PICK K, S : Removal(w, v, K, S, d) /\ Chosen1(w, v, K, S, m)
  BY <1>1
<1>3. /\ Good(v, d) /\ IsTop(v, v.maxseq) /\ DOMAIN v.node = DOMAIN w.node \ S /\ S \subseteq DOMAIN w.node
      /\ \A t \in DOMAIN v.node : Same(w, v, t) /\ v.node[t].unacked = (w.node[t].unacked /\ t \notin K)
  BY <1>2 DEF Removal
<1>4. /\ \A s \in K \cup S : s <= m
      /\ \A s \in DOMAIN w.node : w.maxDrop < s /\ s <= m => s \in K \cup S
      /\ qos.tl /\ TLDepth = 0 => S = {}
      /\ ~qos.tl => K = {}
      /\ \A s \in S : ~InTlidx(w, s)
  BY <1>2 DEF Chosen1
<1>5. Hist(v, d, W, {})
  BY <1>2, HistShrunk, RemovalShrinks
<1>6. UpTo(v, n)
  <2>1. v.open \in Ivs /\ w.open \in Ivs
    BY <1>3, CacheFields DEF Good
  <2>2. v.open.maxp1 <= n + 1
    BY <1>1, <2>1 DEF UpTo, Ivs
  <2>3. QED
    BY <1>3, <2>2 DEF UpTo
<1>7. AckedUpTo(v, m)
  <2>1. SUFFICES ASSUME NEW t \in DOMAIN v.node PROVE v.node[t].unacked <=> t > m
    BY DEF AckedUpTo
  <2>2. t \in DOMAIN w.node /\ t \notin S /\ t \in Nat /\ v.node[t].unacked = (w.node[t].unacked /\ t \notin K)
    BY <1>0, <1>3
  <2>3. w.node[t].unacked <=> t > m0
    BY <2>2 DEF AckedUpTo
  <2>4. w.node[t].unacked => t > w.maxDrop
    BY <2>2 DEF BeyondDrop
  <2>5. CASE t > m
    <3>1. t \notin K
      BY <1>0, <1>4, <2>2, <2>5
    <3>2. t > m0
      BY <2>2, <2>5
    <3>3. QED
      BY <2>2, <2>3, <2>5, <3>1, <3>2
  <2>6. CASE ~(t > m)
    <3>1. w.maxDrop < t => t \in K
      BY <1>0, <1>4, <2>2, <2>6
    <3>2. QED
      BY <1>0, <2>2, <2>4, <2>6, <3>1
  <2>7. QED
    BY <2>5, <2>6
<1>8. BeyondDrop(v)
  BY <1>1, <1>7 DEF BeyondDrop, AckedUpTo
<1>9. ASSUME NEW x \in DOMAIN w.node, x \notin DOMAIN v.node PROVE MayGo(W, m, x)
  <2>1. x \in S /\ x <= m /\ ~InTlidx(w, x) /\ ~(qos.tl /\ TLDepth = 0)
    BY <1>3, <1>4, <1>9
  <2>2. QED
    BY <2>1, RemovedMayGo
<1>10. \A t \in DOMAIN v.node : v.node[t].exp = w.node[t].exp
  BY <1>3 DEF Same
<1>11. ASSUME ~qos.tl, NEW t \in DOMAIN v.node PROVE (w.node[t].unacked => v.node[t].unacked) /\ (t <= m => t <= w.maxDrop)
  <2>1. t \in DOMAIN w.node /\ t \notin S /\ t \in Nat /\ v.node[t].unacked = (w.node[t].unacked /\ t \notin K) /\ K = {}
    BY <1>0, <1>3, <1>4, <1>11
  <2>2. ~(w.maxDrop < t /\ t <= m)
    BY <1>4, <2>1
  <2>3. t <= m => t <= w.maxDrop
    BY <1>0, <2>1, <2>2
  <2>4. w.node[t].unacked => v.node[t].unacked
    BY <2>1
  <2>5. QED
    BY <2>3, <2>4
<1>12. v.maxDrop <= n
  BY <1>1
<1>13. QED
  BY <1>3, <1>5, <1>6, <1>7, <1>8, <1>9, <1>10, <1>11, <1>12 DEF RemoveDone

\* Removing without.
LEMMA NoidxDoes ==
  ASSUME qos \in QosType, NoIndex, NEW w, Good(w, IdxDepth), NEW W, Hist(w, IdxDepth, W, {}), NEW n \in 0 .. MaxSeq,
         UpTo(w, n), Single(w, n), \A s \in DOMAIN w.node : w.node[s].unacked, BeyondDrop(w), w.maxDrop <= n,
         NEW m \in 0 .. n, NEW v, v = RemoveAckedNoidx(w, m)
  PROVE  RemoveDone(w, v, m, n, IdxDepth, W) /\ Single(v, n)
<1>0. IdxDepth = 0 /\ Good(w, 0) /\ \A s \in DOMAIN w.node : w.node[s].unacked /\ s > w.maxDrop
  BY DEF NoIndex, BeyondDrop
<1>1. /\ \E S : Removal(w, v, {}, S, 0) /\ \A s \in S : s <= m
      /\ UpTo(v, n) /\ Single(v, n) /\ v.maxDrop <= n
      /\ \A s \in DOMAIN v.node : s > m /\ s > v.maxDrop
  BY <1>0, NoidxRemoves
<1>2. PICK S : Removal(w, v, {}, S, 0) /\ \A s \in S : s <= m
  BY <1>1
<1>3. /\ Good(v, 0) /\ DOMAIN v.node = DOMAIN w.node \ S /\ S \subseteq DOMAIN w.node
      /\ \A t \in DOMAIN v.node : Same(w, v, t) /\ v.node[t].unacked = w.node[t].unacked
  BY <1>2 DEF Removal
<1>4. Hist(v, IdxDepth, W, {})
  <2>1. Hist(w, 0, W, {}) /\ Shrunk(w, v, S, 0)
    BY <1>0, <1>2, RemovalShrinks
  <2>2. Hist(v, 0, W, {})
    BY <2>1, HistShrunk
  <2>3. QED
    BY <1>0, <2>2
<1>5. AckedUpTo(v, m) /\ BeyondDrop(v)
  BY <1>0, <1>1, <1>3 DEF AckedUpTo, BeyondDrop
<1>6. ASSUME NEW x \in DOMAIN w.node, x \notin DOMAIN v.node PROVE MayGo(W, m, x)
  <2>1. x \in S /\ x <= m
    BY <1>2, <1>3, <1>6
  <2>2. ~qos.tl
    BY DEF NoIndex
  <2>3. QED
    BY <2>1, <2>2 DEF MayGo
<1>7. \A t \in DOMAIN v.node : v.node[t].exp = w.node[t].exp
  BY <1>3 DEF Same
<1>8. \A t \in DOMAIN v.node : (w.node[t].unacked => v.node[t].unacked) /\ (t <= m => t <= w.maxDrop)
  <2>1. \A t \in DOMAIN v.node : t \in Nat /\ t > m
    BY <1>1, <1>3, CacheFields DEF Good, Seqs
  <2>2. QED
    BY <1>3, <2>1
<1>9. Good(v, IdxDepth)
  BY <1>0, <1>3
<1>10. RemoveDone(w, v, m, n, IdxDepth, W)
  BY <1>1, <1>3, <1>4, <1>5, <1>6, <1>7, <1>8, <1>9 DEF RemoveDone
<1>11. QED
  BY <1>1, <1>10

-----------------------------------------------------------------------------
(* What is kept *)

\* UnackedKept and TransientLocalKept of the writings W, the samples P, the
\* settled number st and the expired samples ex.
UnackedIn(W, P, st, ex) ==
  \A s \in DOMAIN W :
    s > st /\ s \notin ex /\ (HDepth = 0 \/ Cardinality(LaterIn(W, s)) < HDepth) => s \in P
DurableIn(W, P, ex) ==
  qos.tl => \A s \in DOMAIN W :
    /\ W[s].kind \in Carries /\ s \notin ex /\ ~UnregIn(W, s)
    /\ TLDepth = 0 \/ Cardinality(LaterIn(W, s)) < TLDepth
    => s \in P

\* The two properties, in terms of these.
LEMMA KeptIs ==
  /\ UnackedKept <=> UnackedIn(written, DOMAIN whc.node, settled, expired)
  /\ TransientLocalKept <=> DurableIn(written, DOMAIN whc.node, expired)
<1>1. \A s : Later(s) = LaterIn(written, s) /\ Unregistered(s) = UnregIn(written, s)
  BY DEF Later, LaterIn, Unregistered, UnregIn, Carries
<1>2. UnackedKept <=> UnackedIn(written, DOMAIN whc.node, settled, expired)
  BY <1>1 DEF UnackedKept, UnackedIn, Present
<1>3. TransientLocalKept <=> DurableIn(written, DOMAIN whc.node, expired)
  BY <1>1 DEF TransientLocalKept, DurableIn, Present, Carries
<1>4. QED
  BY <1>2, <1>3

\* What is known of a sample only grows.
Older(W, W2, x) ==
  /\ W2[x] = W[x] /\ Cardinality(LaterIn(W, x)) \in Nat /\ Cardinality(LaterIn(W2, x)) \in Nat
  /\ Cardinality(LaterIn(W, x)) <= Cardinality(LaterIn(W2, x)) /\ (UnregIn(W, x) => UnregIn(W2, x))

\* A step that lets only samples go that may.
LEMMA KeptStep ==
  ASSUME qos \in QosType, NEW W, NEW P, NEW st \in Nat, NEW ex, UnackedIn(W, P, st, ex), DurableIn(W, P, ex),
         NEW W2, NEW P2, NEW st2 \in Nat, NEW ex2, st <= st2, ex \subseteq ex2,
         NEW n \in Nat, DOMAIN W2 \subseteq 1 .. n,
         \A x \in DOMAIN W : Older(W, W2, x),
         \A x \in DOMAIN W2 : x \notin P2 =>
           \/ x \in DOMAIN W /\ x \notin P
           \/ x \in ex2
           \/ \E m \in Nat : m <= st2 /\ MayGo(W2, m, x)
  PROVE  UnackedIn(W2, P2, st2, ex2) /\ DurableIn(W2, P2, ex2)
<1>0. HDepth \in Nat /\ TLDepth \in Nat
  BY Depths
<1>1. ASSUME NEW x \in DOMAIN W2, x > st2, x \notin ex2, HDepth = 0 \/ Cardinality(LaterIn(W2, x)) < HDepth
      PROVE  x \in P2
  <2>1. SUFFICES ASSUME x \notin P2 PROVE FALSE
    OBVIOUS
  <2>0. x \in Nat /\ Cardinality(LaterIn(W2, x)) \in Nat
    BY LaterFinite
  <2>2. CASE x \in DOMAIN W /\ x \notin P
    <3>1. Older(W, W2, x)
      BY <2>2
    <3>2. HDepth = 0 \/ Cardinality(LaterIn(W, x)) < HDepth
      BY <1>0, <1>1, <3>1 DEF Older
    <3>3. x > st /\ x \notin ex
      BY <1>1, <2>0
    <3>4. QED
      BY <2>2, <3>2, <3>3 DEF UnackedIn
  <2>3. CASE \E m \in Nat : m <= st2 /\ MayGo(W2, m, x)
    <3>1. PICK m \in Nat : m <= st2 /\ MayGo(W2, m, x)
      BY <2>3
    <3>2. x <= m \/ (HDepth > 0 /\ HDepth <= Cardinality(LaterIn(W2, x)))
      BY <3>1 DEF MayGo
    <3>3. QED
      BY <1>0, <1>1, <2>0, <3>1, <3>2
  <2>4. QED
    BY <1>1, <2>1, <2>2, <2>3
<1>2. ASSUME qos.tl, NEW x \in DOMAIN W2, W2[x].kind \in Carries, x \notin ex2, ~UnregIn(W2, x),
             TLDepth = 0 \/ Cardinality(LaterIn(W2, x)) < TLDepth
      PROVE  x \in P2
  <2>1. SUFFICES ASSUME x \notin P2 PROVE FALSE
    OBVIOUS
  <2>0. Cardinality(LaterIn(W2, x)) \in Nat
    BY LaterFinite
  <2>2. CASE x \in DOMAIN W /\ x \notin P
    <3>1. Older(W, W2, x)
      BY <2>2
    <3>2. TLDepth = 0 \/ Cardinality(LaterIn(W, x)) < TLDepth
      BY <1>0, <1>2, <3>1 DEF Older
    <3>3. W[x].kind \in Carries /\ x \notin ex /\ ~UnregIn(W, x)
      BY <1>2, <3>1 DEF Older
    <3>4. QED
      BY <1>2, <2>2, <3>2, <3>3 DEF DurableIn
  <2>3. CASE \E m \in Nat : m <= st2 /\ MayGo(W2, m, x)
    <3>1. PICK m \in Nat : m <= st2 /\ MayGo(W2, m, x)
      BY <2>3
    <3>2. UnregIn(W2, x) \/ (TLDepth > 0 /\ TLDepth <= Cardinality(LaterIn(W2, x)))
      BY <1>2, <3>1 DEF MayGo
    <3>3. QED
      BY <1>0, <1>2, <2>0, <3>2
  <2>4. QED
    BY <1>2, <2>1, <2>2, <2>3
<1>3. QED
  BY <1>1, <1>2 DEF UnackedIn, DurableIn

\* The acknowledgements after an insertion.
LEMMA KinAcks ==
  ASSUME NEW w, NEW v, NEW m \in Nat, NEW s \in Nat, NEW kind, Kin(w, v, m, s, kind), AckedUpTo(w, m), BeyondDrop(w), w.maxDrop < s
  PROVE  AckedUpTo(v, m) /\ BeyondDrop(v)
<1>1. ASSUME NEW t \in DOMAIN v.node PROVE (v.node[t].unacked <=> t > m) /\ (v.node[t].unacked => t > v.maxDrop)
  <2>1. CASE t = s
    BY <2>1 DEF Kin
  <2>2. CASE t # s
    <3>1. t \in DOMAIN w.node /\ v.node[t].unacked = w.node[t].unacked /\ v.maxDrop = w.maxDrop
      BY <2>2 DEF Kin, Weight
    <3>2. QED
      BY <3>1 DEF AckedUpTo, BeyondDrop
  <2>3. QED
    BY <2>1, <2>2
<1>2. QED
  BY <1>1 DEF AckedUpTo, BeyondDrop

-----------------------------------------------------------------------------
(* The cache without an index *)

\* If the samples are one run, the intervals are one.
LEMMA OneRun ==
  ASSUME NEW d, NEW w, Good(w, d), w.closed = {}, NEW v, Good(v, d), DOMAIN v.node = DOMAIN w.node,
         v.open.maxp1 <= w.open.maxp1
  PROVE  v.closed = {}
<1>0. /\ w.open \in Ivs /\ v.open \in Ivs /\ v.closed \subseteq Ivs /\ MaxSeq \in Nat
      /\ Runs(DOMAIN w.node, {}, w.open) /\ Runs(DOMAIN w.node, v.closed, v.open)
  BY CacheFields, WhcAssumption DEF Good
<1>1. SUFFICES ASSUME NEW i \in v.closed PROVE FALSE
  OBVIOUS
<1>2. i \in Ivs /\ i.min < i.maxp1 /\ i.maxp1 < v.open.min /\ v.open.min <= v.open.maxp1
  BY <1>0 DEF Runs, BeforeOpen
<1>3. i.maxp1 - 1 \in DOMAIN w.node
  <2>1. i.maxp1 - 1 \in Seqs /\ In(i.maxp1 - 1, i)
    BY <1>0, <1>2 DEF Ivs, In, Seqs
  <2>2. QED
    BY <1>0, <2>1 DEF Runs, Covers
<1>4. i.maxp1 \in Seqs /\ i.maxp1 \notin DOMAIN w.node
  <2>1. i.maxp1 \in Seqs
    BY <1>0, <1>2 DEF Ivs, Seqs
  <2>2. SUFFICES ASSUME i.maxp1 \in DOMAIN w.node PROVE FALSE
    BY <2>1
  <2>3. PICK j \in v.closed \cup {v.open} : In(i.maxp1, j)
    BY <1>0, <2>1, <2>2 DEF Runs, Covers
  <2>4. j # v.open
    BY <1>0, <1>2, <2>3 DEF In, Ivs
  <2>5. j \in v.closed /\ j \in Ivs
    BY <1>0, <2>4
  <2>6. j # i
    BY <1>2, <2>3 DEF In, Ivs
  <2>7. i.maxp1 < j.min \/ j.maxp1 < i.min
    BY <1>0, <2>5, <2>6 DEF Runs, Apart
  <2>8. QED
    BY <1>2, <2>3, <2>5, <2>7 DEF In, Ivs
<1>5. In(i.maxp1 - 1, w.open)
  <2>1. i.maxp1 - 1 \in Seqs
    BY <1>0, <1>2 DEF Ivs, Seqs
  <2>2. QED
    BY <1>0, <1>3, <2>1 DEF Runs, Covers
<1>6. ~In(i.maxp1, w.open)
  BY <1>0, <1>4 DEF Runs, Covers
<1>7. i.maxp1 = w.open.maxp1
  BY <1>0, <1>2, <1>5, <1>6 DEF In, Ivs
<1>8. QED
  BY <1>0, <1>2, <1>7 DEF Ivs

\* The running totals stay right when a sample is written.
LEMMA SingleInserted ==
  ASSUME NEW d \in Nat, NEW w, Good(w, d), NEW n \in Nat, UpTo(w, n), Single(w, n), NEW m, NEW s, s = n + 1, NEW kind, s > m,
         NEW v, Inserted(w, v, m, s, kind, d)
  PROVE  Single(v, s)
<1>0. /\ Good(v, d) /\ s \notin DOMAIN w.node /\ DOMAIN v.node = DOMAIN w.node \cup {s}
      /\ \A t \in DOMAIN w.node : v.node[t] = w.node[t]
      /\ v.node[s].size = SizeOf(kind) /\ v.node[s].total = v.total /\ v.node[s].unacked = (s > m)
      /\ v.total = w.total + SizeOf(kind) /\ v.open.maxp1 = s + 1 /\ v.closed = {}
  BY DEF Inserted, Single
<1>1. /\ IsFiniteSet(DOMAIN w.node) /\ DOMAIN w.node \subseteq Nat /\ w.total \in Nat /\ v.total \in Nat
      /\ \A t \in DOMAIN w.node : w.node[t].total \in Nat
      /\ \A t \in DOMAIN v.node : UnackedSize(v, t) \in Nat
      /\ SizeOf(kind) \in Nat
  <2>1. w \in Caches(d) /\ v \in Caches(d)
    BY <1>0 DEF Good
  <2>2. \A t \in DOMAIN w.node : w.node[t].total \in Nat
    BY <2>1, CacheFields DEF Nodes
  <2>3. QED
    BY <2>1, <2>2, CacheFields, SizeNat DEF Seqs, SizeOf
<1>2. \A t \in DOMAIN w.node : UnackedSize(v, t) = UnackedSize(w, t) /\ UnackedSize(w, t) \in Nat
  BY <1>0, <1>1 DEF UnackedSize
<1>3. UnackedSize(v, s) = SizeOf(kind)
  BY <1>0 DEF UnackedSize
<1>4. ASSUME NEW x \in DOMAIN v.node PROVE Bytes(v, {t \in DOMAIN v.node : t > x}) = v.total - v.node[x].total
  <2>1. CASE x = s
    <3>1. {t \in DOMAIN v.node : t > x} = {}
      BY <1>0, <1>1, <2>1 DEF UpTo
    <3>2. Bytes(v, {t \in DOMAIN v.node : t > x}) = 0
      BY <3>1, BytesEmpty
    <3>3. v.total - v.node[x].total = 0
      BY <1>0, <1>1, <2>1
    <3>4. QED
      BY <3>2, <3>3
  <2>2. CASE x # s
    <3> DEFINE T == {t \in DOMAIN w.node : t > x}
    <3>1. x \in DOMAIN w.node /\ x <= n /\ x \in Nat
      BY <1>0, <1>1, <2>2 DEF UpTo
    <3>2. {t \in DOMAIN v.node : t > x} = T \cup {s}
      BY <1>0, <3>1
    <3>3. IsFiniteSet(T) /\ s \notin T /\ T \subseteq DOMAIN w.node
      BY <1>0, <1>1, FS_Subset
    <3>4. Bytes(w, T) = w.total - w.node[x].total
      BY <3>1 DEF Single
    <3> HIDE DEF T
    <3>5. Bytes(v, T) = Bytes(w, T)
      BY <1>2, <3>3, BytesSame
    <3>6. Bytes(v, T \cup {s}) = Bytes(v, T) + UnackedSize(v, s)
      BY <1>0, <1>1, <3>3, BytesAdd
    <3>7. v.node[x] = w.node[x] /\ w.node[x].total \in Nat
      BY <1>0, <1>1, <3>1
    <3>8. Bytes(v, T \cup {s}) = (w.total - w.node[x].total) + SizeOf(kind)
      BY <1>3, <3>4, <3>5, <3>6
    <3>9. (w.total - w.node[x].total) + SizeOf(kind) = v.total - v.node[x].total
      BY <1>0, <1>1, <3>7
    <3>10. QED
      BY <3>2, <3>8, <3>9
  <2>3. QED
    BY <2>1, <2>2
<1>5. QED
  BY <1>0, <1>4 DEF Single

\* Operations that leave samples and totals alone keep them.
LEMMA SingleKept ==
  ASSUME NEW d \in Nat, NEW w, Good(w, d), NEW n, Single(w, n), NEW v, DOMAIN v.node = DOMAIN w.node,
         \A t \in DOMAIN w.node : Weight(w, v, t), v.total = w.total, v.closed = {}, DOMAIN v.node # {} => v.open.maxp1 = n + 1
  PROVE  Single(v, n)
<1>1. IsFiniteSet(DOMAIN w.node) /\ \A t \in DOMAIN w.node : UnackedSize(w, t) \in Nat /\ UnackedSize(v, t) = UnackedSize(w, t)
  BY CacheFields, SizeNat DEF Good, Weight, UnackedSize
<1>2. ASSUME NEW x \in DOMAIN w.node PROVE Bytes(v, {t \in DOMAIN w.node : t > x}) = v.total - v.node[x].total
  <2> DEFINE T == {t \in DOMAIN w.node : t > x}
  <2>1. IsFiniteSet(T) /\ T \subseteq DOMAIN w.node
    BY <1>1, FS_Subset
  <2>2. Bytes(w, T) = w.total - w.node[x].total
    BY DEF Single
  <2> HIDE DEF T
  <2>3. Bytes(v, T) = Bytes(w, T)
    BY <1>1, <2>1, BytesSame
  <2>4. v.node[x].total = w.node[x].total
    BY DEF Weight
  <2>5. QED
    BY <2>2, <2>3, <2>4 DEF T
<1>3. QED
  BY <1>2 DEF Single

\* whc_default_insert without an index.
LEMMA SingleInsert ==
  ASSUME qos \in QosType, IdxDepth = 0, NEW w, NEW a, NEW v, NEW m \in Nat, NEW s \in Nat \ {0}, s > m, NEW k \in Keys,
         NEW kind \in AllKinds, NEW W, Shape(w, a, v, m, s, k, kind, IdxDepth, W), Single(a, s)
  PROVE  Single(v, s)
<1>0. Begun(w, a, m, s, k, kind, 0, W) /\ Good(a, 0) /\ Topped(a, s) /\ 0 \in Nat
  BY DEF Shape, Begun
<1>1. CASE PlainCase(a, v, k, kind, 0)
  BY <1>1 DEF PlainCase
<1>2. CASE UnregisterCase(a, v, m, s, k, kind, 0)
  <2>1. PICK c : Cleared(a, c, m, k, 0) /\ v = DropNew(c, m, s)
    BY <1>2 DEF UnregisterCase
  <2>2. v = c
    BY <2>1 DEF DropNew
  <2>3. CASE k \in DOMAIN a.idx
    <3> DEFINE S == {t \in DOMAIN a.node : a.node[t].inst = k}
               X == {t \in S : t <= m}
    <3>1. PICK u : Unlisted(a, u, k, S, 0) /\ Deleted(u, c, X, 0)
      BY <2>1, <2>3 DEF Cleared
    <3>2. S = {}
      <4>1. Linked(a, 0) /\ k # NoInst
        BY <1>0, WhcAssumption DEF Good
      <4>2. \A t \in DOMAIN a.node : a.node[t].inst = NoInst
        BY <4>1 DEF Linked
      <4>3. QED
        BY <4>1, <4>2
    <3>3. /\ DOMAIN c.node = DOMAIN a.node /\ c.total = a.total /\ c.open.maxp1 <= a.open.maxp1 /\ Good(c, 0)
          /\ \A t \in DOMAIN a.node : c.node[t] = u.node[t] /\ Weight(a, u, t)
      BY <3>1, <3>2 DEF Unlisted, OnlyIndex, Deleted, Rest
    <3>4. \A t \in DOMAIN a.node : Weight(a, c, t)
      BY <3>3 DEF Weight
    <3>5. c.closed = {}
      BY <1>0, <3>3, OneRun DEF Single
    <3>6. c.open.maxp1 = s + 1
      <4>1. s \in DOMAIN c.node /\ a.open.maxp1 = s + 1 /\ s \in Seqs
        BY <1>0, <3>3, CacheFields DEF Topped, Single, Good
      <4>2. Runs(DOMAIN c.node, {}, c.open) /\ c.open \in Ivs
        BY <3>3, <3>5, CacheFields DEF Good
      <4>3. In(s, c.open)
        BY <4>1, <4>2 DEF Runs, Covers
      <4>4. QED
        BY <3>3, <4>1, <4>2, <4>3 DEF In, Ivs
    <3>7. QED
      BY <1>0, <2>2, <3>3, <3>4, <3>5, <3>6, SingleKept
  <2>4. CASE k \notin DOMAIN a.idx
    BY <2>1, <2>2, <2>4 DEF Cleared
  <2>5. QED
    BY <2>3, <2>4
<1>3. CASE NewCase(a, v, s, k, kind, 0)
  <2>1. PICK b : Started(a, b, v, s, k, 0)
    BY <1>3 DEF NewCase
  <2>2. v = b /\ OnlyIndex(a, b)
    BY <2>1 DEF Started, Fresh
  <2>3. /\ DOMAIN v.node = DOMAIN a.node /\ v.total = a.total /\ v.open = a.open /\ v.closed = a.closed
        /\ \A t \in DOMAIN a.node : Weight(a, v, t)
    BY <2>2 DEF OnlyIndex, Rest
  <2>4. v.closed = {} /\ (DOMAIN v.node # {} => v.open.maxp1 = s + 1)
    BY <2>3 DEF Single
  <2>5. QED
    BY <1>0, <2>3, <2>4, SingleKept
<1>4. ~KnownCase(a, v, m, s, k, kind, 0)
  BY DEF KnownCase
<1>5. QED
  BY <1>1, <1>2, <1>3, <1>4 DEF Shape

-----------------------------------------------------------------------------
(* The operations of the writer *)

\* What CacheOk says.
LEMMA OkFields ==
  ASSUME NEW w, NEW n, NEW m, NEW W, CacheOk(w, n, m, W)
  PROVE  /\ Good(w, IdxDepth) /\ UpTo(w, n) /\ Hist(w, IdxDepth, W, {})
         /\ AckedUpTo(w, m) /\ BeyondDrop(w) /\ w.maxDrop <= n
         /\ ~qos.tl => \A s \in DOMAIN w.node : w.node[s].unacked
         /\ NoIndex => Single(w, n)
         /\ ~qos.lifespan => \A s \in DOMAIN w.node : ~w.node[s].exp
         /\ w.maxDrop \in Nat /\ DOMAIN w.node \subseteq Nat
<1>1. Good(w, IdxDepth)
  BY DEF CacheOk
<1>2. w.maxDrop \in Nat /\ DOMAIN w.node \subseteq Nat
  BY <1>1, CacheFields DEF Good, Seqs
<1>3. QED
  BY <1>2 DEF CacheOk

\* The acknowledgements as the next sample sees them.
LEMMA AcksNext ==
  ASSUME NEW w, NEW n \in Nat, NEW m0 \in Nat, NEW W, CacheOk(w, n, m0, W), NEW m,
         m = m0 \/ (m0 = n /\ m = n + 1)
  PROVE  AckedUpTo(w, m)
<1>1. AckedUpTo(w, m0) /\ UpTo(w, n) /\ DOMAIN w.node \subseteq Nat
  BY OkFields
<1>2. CASE m = m0
  BY <1>1, <1>2
<1>3. CASE m0 = n /\ m = n + 1
  <2>1. ASSUME NEW t \in DOMAIN w.node PROVE ~w.node[t].unacked /\ ~(t > m)
    <3>1. t <= n /\ t \in Nat
      BY <1>1 DEF UpTo
    <3>2. w.node[t].unacked <=> t > m0
      BY <1>1 DEF AckedUpTo
    <3>3. ~(t > m0) /\ ~(t > m)
      BY <1>3, <3>1
    <3>4. QED
      BY <3>2, <3>3
  <2>2. QED
    BY <2>1 DEF AckedUpTo
<1>4. QED
  BY <1>2, <1>3

\* Inserting a sample that stays for its own sake.
InsertIn(w, n, m0, W, W2, s, k, kind, m) ==
  /\ CacheOk(w, n, m0, W) /\ n < MaxSeq /\ s = n + 1 /\ Extends(W, W2, s, k, kind)
  /\ m = m0 \/ (m0 = n /\ m = s)
Made(w, a, v, m, s, k, kind, W) ==
  /\ s \in Nat \ {0} /\ m \in Nat /\ Shape(w, a, v, m, s, k, kind, IdxDepth, W)
  /\ InsertDone(w, v, m, s, kind, IdxDepth, W) /\ AckedUpTo(v, m) /\ BeyondDrop(v) /\ v.maxDrop = w.maxDrop
  /\ ~qos.lifespan => \A t \in DOMAIN v.node : ~v.node[t].exp

\* Insert makes such a cache.
LEMMA InsertMade ==
  ASSUME qos \in QosType, NEW w, NEW n \in Nat, NEW m0 \in 0 .. n, NEW W, NEW W2, NEW s, NEW k \in Keys, NEW kind \in AllKinds,
         NEW m, InsertIn(w, n, m0, W, W2, s, k, kind, m), NEW v, v = Insert(w, m, s, k, kind),
         NEW a, a = InsertSeq(w, m, s, kind)
  PROVE  Made(w, a, v, m, s, k, kind, W2)
<1>0. CacheOk(w, n, m0, W) /\ n < MaxSeq /\ s = n + 1 /\ Extends(W, W2, s, k, kind) /\ (m = m0 \/ (m0 = n /\ m = n + 1))
  BY DEF InsertIn
<1>1. s \in Nat \ {0} /\ m \in Nat
  BY <1>0
<1>2. /\ Good(w, IdxDepth) /\ UpTo(w, n) /\ Hist(w, IdxDepth, W, {}) /\ BeyondDrop(w) /\ w.maxDrop <= n /\ w.maxDrop \in Nat
      /\ ~qos.lifespan => \A t \in DOMAIN w.node : ~w.node[t].exp
  BY <1>0, OkFields
<1>3. Shape(w, a, v, m, s, k, kind, IdxDepth, W2)
  BY <1>0, <1>1, <1>2, InsertShapes
<1>4. InsertDone(w, v, m, s, kind, IdxDepth, W2)
  BY <1>1, <1>3, InsertDoes
<1>5. Kin(w, v, m, s, kind)
  BY <1>4 DEF InsertDone
<1>6. AckedUpTo(w, m)
  BY <1>0, AcksNext
<1>7. AckedUpTo(v, m) /\ BeyondDrop(v) /\ v.maxDrop = w.maxDrop
  <2>1. w.maxDrop < s
    BY <1>0, <1>2
  <2>2. AckedUpTo(v, m) /\ BeyondDrop(v)
    BY <1>1, <1>2, <1>5, <1>6, <2>1, KinAcks
  <2>3. QED
    BY <1>5, <2>2 DEF Kin
<1>8. ASSUME ~qos.lifespan, NEW t \in DOMAIN v.node PROVE ~v.node[t].exp
  <2>1. CASE t = s
    BY <1>5, <1>8, <2>1 DEF Kin, Expires
  <2>2. CASE t # s
    <3>1. t \in DOMAIN w.node /\ v.node[t].exp = w.node[t].exp
      BY <1>5, <2>2 DEF Kin, Weight
    <3>2. QED
      BY <1>2, <1>8, <3>1
  <2>3. QED
    BY <2>1, <2>2
<1>9. QED
  BY <1>1, <1>3, <1>4, <1>7, <1>8 DEF Made

\* The invariant after it.
LEMMA InsertOk ==
  ASSUME qos \in QosType, NEW w, NEW n \in Nat, NEW m0 \in 0 .. n, NEW W, NEW W2, NEW s, NEW k \in Keys, NEW kind \in AllKinds,
         NEW m, InsertIn(w, n, m0, W, W2, s, k, kind, m), NEW v, v = Insert(w, m, s, k, kind), ~qos.tl => m < s
  PROVE  CacheOk(v, s, m, W2)
<1> DEFINE a == InsertSeq(w, m, s, kind)
<1>0. CacheOk(w, n, m0, W) /\ n < MaxSeq /\ s = n + 1 /\ Extends(W, W2, s, k, kind) /\ (m = m0 \/ (m0 = n /\ m = n + 1))
  BY DEF InsertIn
<1>1. /\ s \in Nat \ {0} /\ m \in Nat /\ Shape(w, a, v, m, s, k, kind, IdxDepth, W2)
      /\ InsertDone(w, v, m, s, kind, IdxDepth, W2) /\ AckedUpTo(v, m) /\ BeyondDrop(v) /\ v.maxDrop = w.maxDrop
      /\ ~qos.lifespan => \A t \in DOMAIN v.node : ~v.node[t].exp
  <2>1. Made(w, a, v, m, s, k, kind, W2)
    BY InsertMade
  <2>2. QED
    BY <2>1 DEF Made
<1>2. /\ Good(w, IdxDepth) /\ UpTo(w, n) /\ w.maxDrop <= n /\ w.maxDrop \in Nat
      /\ ~qos.tl => \A t \in DOMAIN w.node : w.node[t].unacked
      /\ NoIndex => Single(w, n)
  BY <1>0, OkFields
<1>3. Good(v, IdxDepth) /\ UpTo(v, s) /\ Hist(v, IdxDepth, W2, {}) /\ Kin(w, v, m, s, kind)
  BY <1>1 DEF InsertDone
<1>4. ASSUME ~qos.tl, NEW t \in DOMAIN v.node PROVE v.node[t].unacked
  <2>1. CASE t = s
    <3>1. s > m
      BY <1>1, <1>4
    <3>2. QED
      BY <1>3, <2>1, <3>1 DEF Kin
  <2>2. CASE t # s
    <3>1. t \in DOMAIN w.node /\ v.node[t].unacked = w.node[t].unacked
      BY <1>3, <2>2 DEF Kin, Weight
    <3>2. QED
      BY <1>2, <1>4, <3>1
  <2>3. QED
    BY <2>1, <2>2
<1>5. ASSUME NoIndex PROVE Single(v, s)
  <2>1. IdxDepth = 0 /\ ~qos.tl /\ s > m
    BY <1>1, <1>5 DEF NoIndex
  <2>2. Inserted(w, a, m, s, kind, 0)
    BY <1>0, <1>1, <1>2, <2>1, InsertSeqInserts
  <2> HIDE DEF a
  <2>3. Single(a, s)
    BY <1>0, <1>2, <1>5, <2>1, <2>2, SingleInserted
  <2>4. QED
    BY <1>1, <2>1, <2>3, SingleInsert
<1>6. v.maxDrop <= s
  BY <1>0, <1>1, <1>2
<1>7. QED
  BY <1>1, <1>3, <1>4, <1>5, <1>6 DEF CacheOk

\* Inserting a sample for its deadline only: it is removed again.
LEMMA InsertRemoveOk ==
  ASSUME qos \in QosType, NEW w, NEW n \in Nat, NEW m0 \in 0 .. n, NEW W, NEW W2, NEW s, NEW k \in Keys, NEW kind \in AllKinds,
         NEW m, InsertIn(w, n, m0, W, W2, s, k, kind, m), NEW u, u = Insert(w, m, s, k, kind), ~qos.tl, qos.deadline, m = s,
         NEW v, v = RemoveAcked(u, s)
  PROVE  /\ CacheOk(v, s, s, W2) /\ InsertDone(w, u, m, s, kind, IdxDepth, W2)
         /\ RemoveDone(u, v, s, s, IdxDepth, W2) /\ s \in Nat \ {0}
<1>0. CacheOk(w, n, m0, W) /\ n < MaxSeq /\ s = n + 1 /\ Extends(W, W2, s, k, kind)
  BY DEF InsertIn
<1>1. /\ s \in Nat \ {0}
      /\ InsertDone(w, u, m, s, kind, IdxDepth, W2) /\ AckedUpTo(u, s) /\ BeyondDrop(u) /\ u.maxDrop = w.maxDrop
      /\ ~qos.lifespan => \A t \in DOMAIN u.node : ~u.node[t].exp
  <2> DEFINE a == InsertSeq(w, m, s, kind)
  <2>1. a = InsertSeq(w, m, s, kind)
    OBVIOUS
  <2> HIDE DEF a
  <2>2. Made(w, a, u, m, s, k, kind, W2)
    BY <2>1, InsertMade
  <2>3. QED
    BY <2>2 DEF Made
<1>2. w.maxDrop <= n /\ w.maxDrop \in Nat /\ \A t \in DOMAIN w.node : w.node[t].unacked
  BY <1>0, OkFields
<1>3. Good(u, IdxDepth) /\ UpTo(u, s) /\ Hist(u, IdxDepth, W2, {}) /\ Kin(w, u, m, s, kind)
  BY <1>1 DEF InsertDone
<1>4. v = RemoveAckedFull(u, s) /\ ~NoIndex
  BY DEF RemoveAcked, NoIndex
<1>5. DOMAIN W2 \subseteq 1 .. s /\ s \in 0 .. MaxSeq /\ s \in 0 .. s
  BY <1>0, <1>1, WhcAssumption DEF Extends
<1>6. RemoveDone(u, v, s, s, IdxDepth, W2)
  BY <1>1, <1>3, <1>4, <1>5, FullDoes
<1>7. /\ Good(v, IdxDepth) /\ UpTo(v, s) /\ Hist(v, IdxDepth, W2, {}) /\ AckedUpTo(v, s) /\ BeyondDrop(v) /\ v.maxDrop <= s
      /\ DOMAIN v.node \subseteq DOMAIN u.node
      /\ \A t \in DOMAIN v.node : v.node[t].exp = u.node[t].exp
      /\ \A t \in DOMAIN v.node : (u.node[t].unacked => v.node[t].unacked) /\ (t <= s => t <= u.maxDrop)
  BY <1>6 DEF RemoveDone
<1>8. ASSUME NEW t \in DOMAIN v.node PROVE v.node[t].unacked
  <2>1. t # s
    BY <1>0, <1>1, <1>2, <1>7
  <2>2. t \in DOMAIN w.node /\ u.node[t].unacked = w.node[t].unacked
    BY <1>3, <1>7, <2>1 DEF Kin, Weight
  <2>3. QED
    BY <1>2, <1>7, <2>2
<1>9. ~qos.lifespan => \A t \in DOMAIN v.node : ~v.node[t].exp
  BY <1>1, <1>7
<1>10. CacheOk(v, s, s, W2)
  BY <1>4, <1>7, <1>8, <1>9 DEF CacheOk
<1>11. QED
  BY <1>1, <1>6, <1>10

\* Removing what has been acknowledged.
LEMMA RemoveOk ==
  ASSUME qos \in QosType, NEW w, NEW n \in 0 .. MaxSeq, NEW m0 \in Nat, NEW W, CacheOk(w, n, m0, W), DOMAIN W \subseteq 1 .. n,
         NEW m \in 0 .. n, m0 <= m, NEW v, v = RemoveAcked(w, m)
  PROVE  CacheOk(v, n, m, W) /\ RemoveDone(w, v, m, n, IdxDepth, W)
<1>1. /\ Good(w, IdxDepth) /\ UpTo(w, n) /\ Hist(w, IdxDepth, W, {})
      /\ AckedUpTo(w, m0) /\ BeyondDrop(w) /\ w.maxDrop <= n
      /\ ~qos.tl => \A s \in DOMAIN w.node : w.node[s].unacked
      /\ NoIndex => Single(w, n)
      /\ ~qos.lifespan => \A s \in DOMAIN w.node : ~w.node[s].exp
  BY OkFields
<1>2. RemoveDone(w, v, m, n, IdxDepth, W) /\ (NoIndex => Single(v, n))
  <2>1. CASE NoIndex
    <3>1. v = RemoveAckedNoidx(w, m) /\ ~qos.tl
      BY <2>1 DEF RemoveAcked, NoIndex
    <3>2. QED
      BY <1>1, <2>1, <3>1, NoidxDoes
  <2>2. CASE ~NoIndex
    <3>1. v = RemoveAckedFull(w, m)
      BY <2>2 DEF RemoveAcked, NoIndex
    <3>2. QED
      BY <1>1, <2>2, <3>1, FullDoes
  <2>3. QED
    BY <2>1, <2>2
<1>3. /\ Good(v, IdxDepth) /\ UpTo(v, n) /\ Hist(v, IdxDepth, W, {}) /\ AckedUpTo(v, m) /\ BeyondDrop(v) /\ v.maxDrop <= n
      /\ DOMAIN v.node \subseteq DOMAIN w.node
      /\ \A t \in DOMAIN v.node : v.node[t].exp = w.node[t].exp
      /\ ~qos.tl => \A t \in DOMAIN v.node : w.node[t].unacked => v.node[t].unacked
  BY <1>2 DEF RemoveDone
<1>4. ~qos.tl => \A t \in DOMAIN v.node : v.node[t].unacked
  BY <1>1, <1>3
<1>5. ~qos.lifespan => \A t \in DOMAIN v.node : ~v.node[t].exp
  BY <1>1, <1>3
<1>6. QED
  BY <1>2, <1>3, <1>4, <1>5 DEF CacheOk

\* Samples expire.
LEMMA ExpireOk ==
  ASSUME qos \in QosType, NEW w, NEW n \in 0 .. MaxSeq, NEW m, NEW W, CacheOk(w, n, m, W),
         NEW S \in SUBSET (DOMAIN w.node), S # {}, \A s \in S : w.node[s].exp, qos.lifespan => ~NoIndex,
         NEW u, u = DeleteSet(w, S), NEW v, v = [u EXCEPT !.maxseq = FindMaxProcedurally(u)]
  PROVE  CacheOk(v, n, m, W) /\ DOMAIN v.node = DOMAIN w.node \ S /\ Deleted(w, u, S, IdxDepth) /\ v.node = u.node /\ v.idx = u.idx
<1> DEFINE d == IdxDepth
<1>0. d \in Nat /\ qos.lifespan \in BOOLEAN
  BY Depths
<1>1. /\ Good(w, d) /\ UpTo(w, n) /\ Hist(w, d, W, {})
      /\ AckedUpTo(w, m) /\ BeyondDrop(w) /\ w.maxDrop <= n
      /\ ~qos.tl => \A s \in DOMAIN w.node : w.node[s].unacked
      /\ ~qos.lifespan => \A s \in DOMAIN w.node : ~w.node[s].exp
  BY OkFields
<1>2. ~NoIndex /\ qos.lifespan
  BY <1>0, <1>1
<1>3. Deleted(w, u, S, d)
  BY <1>0, <1>1, DeleteSetDeletes
<1>4. /\ Good(u, d) /\ DOMAIN u.node = DOMAIN w.node \ S /\ u.maxDrop = w.maxDrop /\ u.open.maxp1 <= w.open.maxp1
      /\ \A t \in DOMAIN u.node : u.node[t] = w.node[t]
  BY <1>3 DEF Deleted, Rest
<1>5. IsTop(u, FindMaxProcedurally(u)) /\ FindMaxProcedurally(u) \in Nat
  <2>1. IsTop(u, FindMaxProcedurally(u)) /\ u \in Caches(d)
    BY <1>4, FindMaxTop DEF Good
  <2>2. QED
    BY <2>1, TopNat
<1>6. Good(v, d) /\ v.node = u.node /\ v.idx = u.idx /\ v.open = u.open /\ v.maxseq = FindMaxProcedurally(u) /\ v.maxDrop = u.maxDrop
  BY <1>4, <1>5, TopFields
<1>7. UpTo(v, n)
  <2>1. u.open \in Ivs /\ w.open \in Ivs
    BY <1>1, <1>4, CacheFields DEF Good
  <2>2. v.open.maxp1 <= n + 1
    BY <1>1, <1>4, <1>6, <2>1 DEF UpTo, Ivs
  <2>3. QED
    BY <1>1, <1>4, <1>5, <1>6, <2>2 DEF UpTo, IsTop
<1>8. Hist(v, d, W, {})
  <2>1. Hist(u, d, W, {})
    BY <1>1, <1>3, HistShrunk, DeletedShrinks
  <2>2. QED
    BY <1>6, <2>1 DEF Hist, Ages, Ordered, Pushed
<1>9. AckedUpTo(v, m) /\ BeyondDrop(v) /\ v.maxDrop <= n
  BY <1>1, <1>4, <1>6 DEF AckedUpTo, BeyondDrop
<1>10. ~qos.tl => \A s \in DOMAIN v.node : v.node[s].unacked
  BY <1>1, <1>4, <1>6
<1>11. CacheOk(v, n, m, W)
  BY <1>2, <1>6, <1>7, <1>8, <1>9, <1>10 DEF CacheOk
<1>12. QED
  BY <1>3, <1>4, <1>6, <1>11

-----------------------------------------------------------------------------
(* The invariant is preserved *)

\* A lifespan comes with an index, a deadline or durability: without them
\* whc_default_remove_acked_messages_noidx does not expect a gap in the cache.
LifespanIndexed == \A q \in Qos : q.lifespan => q.hdepth > 0 \/ q.deadline \/ q.tl

\* What was written up to now has numbers up to now.
LEMMA WritingsDomain ==
  ASSUME NEW n, NEW W \in Writings(n) PROVE DOMAIN W \subseteq 1 .. n
  BY DEF Writings

\* The types the invariant gives.
LEMMA InvTypes ==
  ASSUME Acks, Cache
  PROVE  /\ qos \in QosType /\ wrseq \in 0 .. MaxSeq /\ wrseq \in Nat /\ settled \in Nat /\ MaxSeq \in Nat
         /\ DOMAIN written \subseteq 1 .. wrseq /\ acked \in AckMaps(wrseq)
         /\ IsDrop(acked, wrseq, MNow) /\ MNow \in 0 .. wrseq /\ MNow \in Nat
         /\ CacheOk(whc, wrseq, MNow, written) /\ whc \in Caches(IdxDepth)
         /\ DOMAIN whc.node \subseteq DOMAIN written /\ \A t \in DOMAIN whc.node : t <= wrseq /\ t \in Nat
<1>1. qos \in QosType /\ MaxSeq \in Nat
  BY WhcAssumption DEF Cache
<1>2. wrseq \in 0 .. MaxSeq /\ wrseq \in Nat /\ settled \in Nat /\ acked \in AckMaps(wrseq)
  BY <1>1 DEF Cache, Acks
<1>3. DOMAIN written \subseteq 1 .. wrseq
  BY DEF Cache, Writings
<1>4. IsDrop(acked, wrseq, MNow)
  BY <1>2, MaxDropIs DEF MNow
<1>5. CacheOk(whc, wrseq, MNow, written)
  BY DEF Cache
<1>6. whc \in Caches(IdxDepth) /\ DOMAIN whc.node \subseteq DOMAIN written /\ \A t \in DOMAIN whc.node : t <= wrseq /\ t \in Nat
  BY <1>5, OkFields DEF Good, Hist, UpTo
<1>7. QED
  BY <1>1, <1>2, <1>3, <1>4, <1>5, <1>6 DEF IsDrop

\* The depths do not change.
LEMMA SameQos ==
  ASSUME qos' = qos
  PROVE  IdxDepth' = IdxDepth /\ TLDepth' = TLDepth /\ HDepth' = HDepth /\ (NoIndex' <=> NoIndex)
  BY DEF IdxDepth, TLDepth, HDepth, NoIndex

\* A step keeps the invariant of the cache and what it keeps if the new cache,
\* whose number is m, is right and lets only samples go that may.
LEMMA InvStep ==
  ASSUME Acks, Cache, UnackedKept, TransientLocalKept, qos' = qos, wrseq' \in 0 .. MaxSeq, NEW m \in Nat,
         CacheOk(whc', wrseq', MNow', written'), written' \in Writings(wrseq'), settled' \in Nat, settled <= settled',
         expired \subseteq expired', \A x \in DOMAIN written : Older(written, written', x),
         \A x \in DOMAIN written' : x \notin DOMAIN whc'.node =>
           \/ x \in DOMAIN written /\ x \notin DOMAIN whc.node
           \/ x \in expired'
           \/ m <= settled' /\ MayGo(written', m, x)
  PROVE  Cache' /\ UnackedKept' /\ TransientLocalKept'
<1>0. qos \in QosType /\ settled \in Nat
  BY InvTypes
<1>1. IdxDepth' = IdxDepth /\ TLDepth' = TLDepth /\ HDepth' = HDepth /\ (NoIndex' <=> NoIndex)
  BY SameQos
<1>2. Cache'
  BY <1>1 DEF Cache, CacheOk
<1>3. UnackedIn(written, DOMAIN whc.node, settled, expired) /\ DurableIn(written, DOMAIN whc.node, expired)
  BY KeptIs
<1>4. wrseq' \in Nat /\ DOMAIN written' \subseteq 1 .. wrseq'
  BY WhcAssumption, WritingsDomain
<1>5. UnackedIn(written', DOMAIN whc'.node, settled', expired') /\ DurableIn(written', DOMAIN whc'.node, expired')
  <2>1. \A x \in DOMAIN written' : x \notin DOMAIN whc'.node =>
           \/ x \in DOMAIN written /\ x \notin DOMAIN whc.node
           \/ x \in expired'
           \/ \E i \in Nat : i <= settled' /\ MayGo(written', i, x)
    OBVIOUS
  <2> DEFINE W2 == written'
             P2 == DOMAIN whc'.node
             st2 == settled'
             ex2 == expired'
             n2 == wrseq'
  <2>2. /\ st2 \in Nat /\ settled <= st2 /\ expired \subseteq ex2 /\ n2 \in Nat /\ DOMAIN W2 \subseteq 1 .. n2
        /\ \A x \in DOMAIN written : Older(written, W2, x)
        /\ \A x \in DOMAIN W2 : x \notin P2 =>
             \/ x \in DOMAIN written /\ x \notin DOMAIN whc.node
             \/ x \in ex2
             \/ \E i \in Nat : i <= st2 /\ MayGo(W2, i, x)
    BY <1>4, <2>1
  <2>3. UnackedIn(W2, P2, st2, ex2) /\ DurableIn(W2, P2, ex2)
    <3> HIDE DEF W2, P2, st2, ex2, n2
    <3>1. QED
      BY <1>0, <1>3, <2>2, KeptStep
  <2>4. QED
    BY <2>3
<1>6. UnackedKept' <=> UnackedIn(written', DOMAIN whc'.node, settled', expired')
  <2>1. UnackedKept' <=> UnackedIn(written, DOMAIN whc.node, settled, expired)'
    BY KeptIs, PTL
  <2>2. QED
    BY <1>1, <2>1 DEF UnackedIn
<1>7. TransientLocalKept' <=> DurableIn(written', DOMAIN whc'.node, expired')
  <2>1. TransientLocalKept' <=> DurableIn(written, DOMAIN whc.node, expired)'
    BY KeptIs, PTL
  <2>2. QED
    BY <1>1, <2>1 DEF DurableIn
<1>8. QED
  BY <1>2, <1>5, <1>6, <1>7

\* What was written is extended by one sample.
LEMMA WritesMore ==
  ASSUME NEW n \in Nat, NEW W \in Writings(n), NEW s, s = n + 1, NEW k \in Keys, NEW kind \in AllKinds, NEW W2,
         W2 = [t \in DOMAIN W \cup {s} |-> IF t = s THEN [key |-> k, kind |-> kind] ELSE W[t]]
  PROVE  W2 \in Writings(s) /\ Extends(W, W2, s, k, kind) /\ \A x \in DOMAIN W : Older(W, W2, x)
<1> DEFINE Y == [key : Keys, kind : AllKinds]
<1>1. PICK T \in SUBSET (1 .. n) : W \in [T -> Y]
  BY DEF Writings
<1>2. DOMAIN W = T /\ T \cup {s} \in SUBSET (1 .. s) /\ s \notin T
  BY <1>1
<1>3. [key |-> k, kind |-> kind] \in Y
  OBVIOUS
<1>4. W2 \in [T \cup {s} -> Y]
  <2> HIDE DEF Y
  <2>1. QED
    BY <1>1, <1>2, <1>3
<1>5. W2 \in Writings(s)
  BY <1>2, <1>4 DEF Writings
<1>6. Extends(W, W2, s, k, kind)
  <2>1. DOMAIN W2 = DOMAIN W \cup {s} /\ (\A t \in DOMAIN W : W2[t] = W[t]) /\ W2[s] = [key |-> k, kind |-> kind]
    BY <1>2
  <2>2. QED
    BY <1>2, <2>1 DEF Extends
<1>7. ASSUME NEW x \in DOMAIN W PROVE Older(W, W2, x)
  <2>1. Grown(W, W2, s, k, kind, x)
    BY <1>6, LaterGrows
  <2>2. QED
    BY <2>1 DEF Grown, Older
<1>8. QED
  BY <1>5, <1>6, <1>7

\* Nothing was written.
LEMMA WritesNothing ==
  ASSUME NEW n \in Nat, NEW W, DOMAIN W \subseteq 1 .. n, NEW x PROVE Older(W, W, x)
  BY LaterFinite DEF Older

\* settled only grows.
LEMMA SettledGrows ==
  ASSUME settled \in Nat, NEW m \in Nat, settled' = Max({settled, m})
  PROVE  settled' \in Nat /\ settled <= settled' /\ m <= settled'
<1>1. settled' = IF settled >= m THEN settled ELSE m
  BY MaxOfTwo
<1>2. QED
  BY <1>1

\* A volatile writer that does not keep its samples has nobody to wait for.
LEMMA NobodyWaits ==
  ASSUME Acks, ~Keeps PROVE ~qos.tl /\ \A r \in DOMAIN acked : acked[r] = MaxSeqNumber
  BY DEF Acks, Keeps, HaveReliableSubs, Matched

\* One that keeps them does so for readers or for durability.
LEMMA SomebodyWaits ==
  ASSUME Keeps, ~qos.tl PROVE \E r \in DOMAIN acked : acked[r] # MaxSeqNumber
  BY DEF Keeps, HaveReliableSubs, Matched

\* Write.
LEMMA InvWrite ==
  ASSUME Inv, LifespanIndexed, NEW k \in Keys, NEW kind \in Kinds, Write(k, kind)
  PROVE  Acks' /\ Cache' /\ UnackedKept' /\ TransientLocalKept' /\ DOMAIN whc'.node \subseteq DOMAIN whc.node \cup {wrseq + 1}
<1> DEFINE s == wrseq + 1
           m == MaxDropSeq(acked, s)
           w1 == Insert(whc, m, s, k, kind)
           w2 == IF Keeps THEN w1 ELSE RemoveAcked(w1, s)
<1>0. Acks /\ Cache /\ UnackedKept /\ TransientLocalKept
  BY DEF Inv
<1>1. /\ qos \in QosType /\ wrseq \in 0 .. MaxSeq /\ wrseq \in Nat /\ settled \in Nat /\ MaxSeq \in Nat
      /\ DOMAIN written \subseteq 1 .. wrseq /\ acked \in AckMaps(wrseq)
      /\ IsDrop(acked, wrseq, MNow) /\ MNow \in 0 .. wrseq /\ MNow \in Nat
      /\ CacheOk(whc, wrseq, MNow, written) /\ DOMAIN whc.node \subseteq DOMAIN written
      /\ \A t \in DOMAIN whc.node : t <= wrseq /\ t \in Nat
  BY <1>0, InvTypes
<1>2. /\ wrseq < MaxSeq /\ wrseq' = s /\ qos' = qos /\ acked' = acked /\ relrd' = relrd /\ expired' = expired
      /\ settled' = Max({settled, m})
  BY DEF Write
<1>3. s \in 0 .. MaxSeq /\ s \in Nat /\ kind \in AllKinds
  BY <1>1, <1>2, WhcAssumption
<1>4. acked \in AckMaps(s)
  BY <1>1, AckMapsGrow
<1>5. IsDrop(acked, s, m) /\ m \in Nat
  <2>1. IsDrop(acked, s, m)
    BY <1>3, <1>4, MaxDropIs
  <2>2. QED
    BY <1>3, <2>1 DEF IsDrop
<1>6. m = MNow \/ (MNow = wrseq /\ m = s)
  BY <1>1, <1>2, DropNext DEF MNow
<1>7. MNow' = m
  BY <1>2 DEF MNow
<1>8. settled' \in Nat /\ settled <= settled' /\ m <= settled'
  BY <1>1, <1>2, <1>5, SettledGrows
<1>9. Acks'
  BY <1>0, <1>2, <1>4 DEF Acks
<1>10. IF Keeps \/ qos.deadline
       THEN whc' = w2 /\ written' = [t \in DOMAIN written \cup {s} |->
                                       IF t = s THEN [key |-> k, kind |-> kind] ELSE written[t]]
       ELSE whc' = whc /\ written' = written
  BY DEF Write
<1>11. ~Keeps => ~qos.tl /\ m = s /\ MNow = wrseq
  <2>1. SUFFICES ASSUME ~Keeps PROVE ~qos.tl /\ m = s /\ MNow = wrseq
    OBVIOUS
  <2>2. ~qos.tl /\ \A r \in DOMAIN acked : acked[r] = MaxSeqNumber
    BY <1>0, <2>1, NobodyWaits
  <2>3. QED
    BY <1>1, <1>5, <2>2 DEF IsDrop
<1>12. Keeps /\ ~qos.tl => m < s
  <2>1. SUFFICES ASSUME Keeps, ~qos.tl PROVE m < s
    OBVIOUS
  <2>2. PICK r \in DOMAIN acked : acked[r] # MaxSeqNumber
    BY <2>1, SomebodyWaits
  <2>3. acked[r] \in 0 .. wrseq /\ m <= acked[r]
    BY <1>1, <1>5, <2>2 DEF AckMaps, IsDrop
  <2>4. QED
    BY <1>1, <1>5, <2>3
<1>13. CASE Keeps \/ qos.deadline
  <2>1. /\ whc' = w2
        /\ written' = [t \in DOMAIN written \cup {s} |-> IF t = s THEN [key |-> k, kind |-> kind] ELSE written[t]]
    BY <1>10, <1>13
  <2>2. /\ written' \in Writings(s) /\ Extends(written, written', s, k, kind)
        /\ \A x \in DOMAIN written : Older(written, written', x)
    BY <1>0, <1>1, <1>3, <2>1, WritesMore DEF Cache
  <2>3. InsertIn(whc, wrseq, MNow, written, written', s, k, kind, m)
    BY <1>1, <1>2, <1>6, <2>2 DEF InsertIn
  <2>4. w2 = IF Keeps THEN w1 ELSE RemoveAcked(w1, s)
    OBVIOUS
  <2>5. w1 = Insert(whc, m, s, k, kind)
    OBVIOUS
  <2> HIDE DEF w1, w2, m
  <2>6. CASE Keeps
    <3>1. whc' = w1
      BY <2>1, <2>4, <2>6
    <3>2. ~qos.tl => m < s
      BY <1>12, <2>6
    <3>3. CacheOk(w1, s, m, written')
      BY <1>1, <1>3, <2>3, <2>5, <3>2, InsertOk
    <3>4. InsertDone(whc, w1, m, s, kind, IdxDepth, written')
      <4> DEFINE a == InsertSeq(whc, m, s, kind)
      <4>1. a = InsertSeq(whc, m, s, kind)
        OBVIOUS
      <4> HIDE DEF a
      <4>2. Made(whc, a, w1, m, s, k, kind, written')
        BY <1>1, <1>3, <2>3, <2>5, <4>1, InsertMade
      <4>3. QED
        BY <4>2 DEF Made
    <3>5. Kin(whc, w1, m, s, kind) /\ Gone(whc, w1, s, m, written')
      BY <3>4 DEF InsertDone
    <3>6. \A x \in DOMAIN written' : x \notin DOMAIN whc'.node =>
             \/ x \in DOMAIN written /\ x \notin DOMAIN whc.node
             \/ x \in expired'
             \/ m <= settled' /\ MayGo(written', m, x)
      BY <1>8, <2>2, <3>1, <3>5 DEF Gone, Extends
    <3>7. CacheOk(whc', wrseq', MNow', written') /\ written' \in Writings(wrseq') /\ wrseq' \in 0 .. MaxSeq
      BY <1>2, <1>3, <1>7, <2>2, <3>1, <3>3
    <3>8. Cache' /\ UnackedKept' /\ TransientLocalKept'
      BY <1>0, <1>2, <1>5, <1>8, <2>2, <3>6, <3>7, InvStep
    <3>9. QED
      BY <1>9, <3>1, <3>5, <3>8 DEF Kin
  <2>7. CASE ~Keeps
    <3>1. whc' = RemoveAcked(w1, s) /\ ~qos.tl /\ m = s /\ qos.deadline
      BY <1>11, <1>13, <2>1, <2>4, <2>7
    <3>2. /\ CacheOk(whc', s, s, written') /\ InsertDone(whc, w1, m, s, kind, IdxDepth, written')
          /\ RemoveDone(w1, whc', s, s, IdxDepth, written')
      BY <1>1, <1>3, <2>3, <2>5, <3>1, InsertRemoveOk
    <3>3. Kin(whc, w1, m, s, kind) /\ Gone(whc, w1, s, m, written')
      BY <3>2 DEF InsertDone
    <3>4. /\ DOMAIN whc'.node \subseteq DOMAIN w1.node
          /\ \A x \in DOMAIN w1.node : x \notin DOMAIN whc'.node => MayGo(written', m, x)
      BY <3>1, <3>2 DEF RemoveDone
    <3>5. \A x \in DOMAIN written' : x \notin DOMAIN whc'.node =>
             \/ x \in DOMAIN written /\ x \notin DOMAIN whc.node
             \/ x \in expired'
             \/ m <= settled' /\ MayGo(written', m, x)
      BY <1>8, <2>2, <3>3, <3>4 DEF Gone, Extends
    <3>6. CacheOk(whc', wrseq', MNow', written') /\ written' \in Writings(wrseq') /\ wrseq' \in 0 .. MaxSeq
      BY <1>2, <1>3, <1>7, <2>2, <3>1, <3>2
    <3>7. Cache' /\ UnackedKept' /\ TransientLocalKept'
      BY <1>0, <1>2, <1>5, <1>8, <2>2, <3>5, <3>6, InvStep
    <3>8. QED
      BY <1>9, <3>3, <3>4, <3>7 DEF Kin
  <2>8. QED
    BY <2>6, <2>7
<1>14. CASE ~(Keeps \/ qos.deadline)
  <2>1. whc' = whc /\ written' = written /\ ~qos.tl /\ m = s /\ MNow = wrseq
    BY <1>10, <1>11, <1>14
  <2>2. DOMAIN whc.node = {}
    <3>1. SUFFICES ASSUME NEW t \in DOMAIN whc.node PROVE FALSE
      OBVIOUS
    <3>2. whc.node[t].unacked /\ (whc.node[t].unacked <=> t > wrseq)
      BY <1>1, <2>1, OkFields DEF AckedUpTo
    <3>3. t <= wrseq /\ t \in Nat
      BY <1>1
    <3>4. QED
      BY <1>1, <3>2, <3>3
  <2>3. CacheOk(whc, s, s, written)
    <3>1. /\ Good(whc, IdxDepth) /\ UpTo(whc, wrseq) /\ Hist(whc, IdxDepth, written, {}) /\ BeyondDrop(whc) /\ whc.maxDrop <= wrseq
          /\ whc.maxDrop \in Nat
          /\ NoIndex => Single(whc, wrseq)
      BY <1>1, OkFields
    <3>2. whc.open \in Ivs
      BY <3>1, CacheFields DEF Good
    <3>3. UpTo(whc, s) /\ whc.maxDrop <= s
      <4>1. IsTop(whc, whc.maxseq) /\ whc.open.maxp1 <= wrseq + 1
        BY <3>1 DEF UpTo
      <4>2. whc.open.maxp1 \in 1 .. MaxSeq + 1
        BY <3>2 DEF Ivs
      <4>3. whc.open.maxp1 <= s + 1 /\ whc.maxDrop <= s
        BY <1>1, <3>1, <4>1, <4>2
      <4>4. QED
        BY <2>2, <4>1, <4>3 DEF UpTo
    <3>4. NoIndex => Single(whc, s)
      BY <2>2, <3>1 DEF Single
    <3>5. AckedUpTo(whc, s)
      BY <2>2 DEF AckedUpTo
    <3>6. QED
      BY <2>2, <3>1, <3>3, <3>4, <3>5 DEF CacheOk
  <2>4. written \in Writings(s)
    <3>1. PICK T \in SUBSET (1 .. wrseq) : written \in [T -> [key : Keys, kind : AllKinds]]
      BY <1>0 DEF Cache, Writings
    <3>2. T \in SUBSET (1 .. s)
      BY <1>1
    <3>3. QED
      BY <3>1, <3>2 DEF Writings
  <2>5. CacheOk(whc', wrseq', MNow', written') /\ written' \in Writings(wrseq') /\ wrseq' \in 0 .. MaxSeq
    BY <1>2, <1>3, <1>7, <2>1, <2>3, <2>4
  <2>6. \A x \in DOMAIN written : Older(written, written', x)
    BY <1>1, <2>1, WritesNothing
  <2>7. Cache' /\ UnackedKept' /\ TransientLocalKept'
    BY <1>0, <1>2, <1>5, <1>8, <2>1, <2>5, <2>6, InvStep
  <2>8. QED
    BY <1>9, <2>1, <2>7
<1>15. QED
  BY <1>13, <1>14

\* A step that changes neither the cache nor what was written.
LEMMA InvSame ==
  ASSUME Acks, Cache, UnackedKept, TransientLocalKept, qos' = qos, wrseq' = wrseq, whc' = whc, written' = written,
         settled' = settled, expired' = expired, MNow' = MNow
  PROVE  Cache' /\ UnackedKept' /\ TransientLocalKept'
<1>1. IdxDepth' = IdxDepth /\ TLDepth' = TLDepth /\ HDepth' = HDepth /\ (NoIndex' <=> NoIndex)
  BY SameQos
<1>2. Cache'
  BY <1>1 DEF Cache, CacheOk
<1>3. UnackedKept'
  BY <1>1 DEF UnackedKept, Later, Present
<1>4. TransientLocalKept'
  BY <1>1 DEF TransientLocalKept, Later, Unregistered, Present
<1>5. QED
  BY <1>2, <1>3, <1>4

\* Removing what a new acknowledgement state lets go.
LEMMA InvSetAcked ==
  ASSUME Inv, NEW ack \in AckMaps(wrseq), DOMAIN ack \subseteq DOMAIN acked, SetAcked(ack),
         \A r \in DOMAIN ack : acked[r] <= ack[r] /\ (ack[r] # MaxSeqNumber => r \in relrd)
  PROVE  Acks' /\ Cache' /\ UnackedKept' /\ TransientLocalKept' /\ DOMAIN whc'.node \subseteq DOMAIN whc.node
<1> DEFINE m == MaxDropSeq(ack, wrseq)
<1>0. Acks /\ Cache /\ UnackedKept /\ TransientLocalKept
  BY DEF Inv
<1>1. /\ qos \in QosType /\ wrseq \in 0 .. MaxSeq /\ wrseq \in Nat /\ settled \in Nat
      /\ DOMAIN written \subseteq 1 .. wrseq /\ acked \in AckMaps(wrseq)
      /\ IsDrop(acked, wrseq, MNow) /\ MNow \in Nat
      /\ CacheOk(whc, wrseq, MNow, written)
  BY <1>0, InvTypes
<1>2. /\ acked' = ack /\ settled' = Max({settled, m}) /\ whc' = RemoveAcked(whc, m) /\ relrd' = relrd \cap DOMAIN ack
      /\ qos' = qos /\ wrseq' = wrseq /\ written' = written /\ expired' = expired
  BY DEF SetAcked
<1>3. m = MaxDropSeq(ack, wrseq)
  OBVIOUS
<1>4. MNow' = m
  BY <1>2 DEF MNow
<1> HIDE DEF m
<1>5. IsDrop(ack, wrseq, m)
  BY <1>1, <1>3, MaxDropIs
<1>6. m \in 0 .. wrseq /\ m \in Nat
  BY <1>1, <1>5 DEF IsDrop
<1>7. MNow <= m
  BY <1>1, <1>5, DropGrows
<1>8. CacheOk(whc', wrseq, m, written) /\ RemoveDone(whc, whc', m, wrseq, IdxDepth, written)
  BY <1>1, <1>2, <1>6, <1>7, RemoveOk
<1>9. /\ DOMAIN whc'.node \subseteq DOMAIN whc.node
      /\ \A x \in DOMAIN whc.node : x \notin DOMAIN whc'.node => MayGo(written, m, x)
  BY <1>8 DEF RemoveDone
<1>10. settled' \in Nat /\ settled <= settled' /\ m <= settled'
  BY <1>1, <1>2, <1>6, SettledGrows
<1>11. \A x \in DOMAIN written : Older(written, written', x)
  BY <1>1, <1>2, WritesNothing
<1>12. CacheOk(whc', wrseq', MNow', written') /\ written' \in Writings(wrseq') /\ wrseq' \in 0 .. MaxSeq
  BY <1>0, <1>1, <1>2, <1>4, <1>8 DEF Cache
<1>13. \A x \in DOMAIN written' : x \notin DOMAIN whc'.node =>
           \/ x \in DOMAIN written /\ x \notin DOMAIN whc.node
           \/ x \in expired'
           \/ m <= settled' /\ MayGo(written', m, x)
  BY <1>2, <1>9, <1>10
<1>14. Cache' /\ UnackedKept' /\ TransientLocalKept'
  BY <1>0, <1>2, <1>6, <1>10, <1>11, <1>12, <1>13, InvStep
<1>15. Acks'
  BY <1>0, <1>2 DEF Acks
<1>16. QED
  BY <1>9, <1>14, <1>15

\* The acknowledged numbers are numbers.
LEMMA AckedTypes ==
  ASSUME Acks, Cache
  PROVE  /\ MaxSeqNumber \in Nat /\ wrseq < MaxSeqNumber /\ DOMAIN acked \subseteq Readers
         /\ \A r \in DOMAIN acked : acked[r] \in Nat /\ acked[r] <= MaxSeqNumber /\ acked[r] \in (0 .. wrseq) \cup {MaxSeqNumber}
<1>1. wrseq \in 0 .. MaxSeq /\ MaxSeq \in Nat /\ acked \in AckMaps(wrseq)
  BY InvTypes
<1>2. PICK R \in SUBSET Readers : acked \in [R -> (0 .. wrseq) \cup {MaxSeqNumber}]
  BY <1>1 DEF AckMaps
<1>3. MaxSeqNumber \in Nat /\ wrseq < MaxSeqNumber
  BY <1>1 DEF MaxSeqNumber
<1>4. DOMAIN acked \subseteq Readers /\ \A r \in DOMAIN acked : acked[r] \in (0 .. wrseq) \cup {MaxSeqNumber}
  BY <1>2
<1>5. QED
  BY <1>1, <1>3, <1>4

\* One reader acknowledges b.
LEMMA AckOne ==
  ASSUME Acks, Cache, NEW r \in DOMAIN acked, NEW b \in (0 .. wrseq) \cup {MaxSeqNumber}, NEW ack, ack = [acked EXCEPT ![r] = b]
  PROVE  /\ ack \in AckMaps(wrseq) /\ DOMAIN ack = DOMAIN acked
         /\ \A q \in DOMAIN ack : ack[q] = IF q = r THEN b ELSE acked[q]
<1>1. PICK R \in SUBSET Readers : acked \in [R -> (0 .. wrseq) \cup {MaxSeqNumber}]
  BY InvTypes DEF AckMaps
<1> DEFINE V == (0 .. wrseq) \cup {MaxSeqNumber}
<1>2. ack \in [R -> V] /\ DOMAIN ack = DOMAIN acked /\ \A q \in DOMAIN ack : ack[q] = IF q = r THEN b ELSE acked[q]
  <2>1. acked \in [R -> V] /\ b \in V
    BY <1>1
  <2> HIDE DEF V
  <2>2. QED
    BY <2>1
<1>3. QED
  BY <1>2 DEF AckMaps

\* AckNack.
LEMMA InvAckNack ==
  ASSUME Inv, NEW r \in Readers, NEW b \in Seqs, AckNack(r, b)
  PROVE  Acks' /\ Cache' /\ UnackedKept' /\ TransientLocalKept' /\ DOMAIN whc'.node \subseteq DOMAIN whc.node
<1> DEFINE ack == [acked EXCEPT ![r] = b]
<1>0. Acks /\ Cache
  BY DEF Inv
<1>1. r \in DOMAIN acked /\ acked[r] < b /\ b <= wrseq /\ SetAcked(ack)
  BY DEF AckNack, Matched
<1>2. ack = [acked EXCEPT ![r] = b]
  OBVIOUS
<1> HIDE DEF ack
<1>3. /\ MaxSeqNumber \in Nat /\ wrseq \in Nat /\ wrseq < MaxSeqNumber /\ b \in 0 .. wrseq
      /\ \A q \in DOMAIN acked : acked[q] \in Nat
  BY <1>0, <1>1, AckedTypes, InvTypes DEF Seqs
<1>4. /\ ack \in AckMaps(wrseq) /\ DOMAIN ack = DOMAIN acked
      /\ \A q \in DOMAIN ack : ack[q] = IF q = r THEN b ELSE acked[q]
  BY <1>0, <1>1, <1>2, <1>3, AckOne
<1>5. acked[r] # MaxSeqNumber /\ r \in relrd
  <2>1. acked[r] # MaxSeqNumber
    BY <1>1, <1>3
  <2>2. QED
    BY <1>0, <1>1, <2>1 DEF Acks
<1>6. \A q \in DOMAIN ack : acked[q] <= ack[q] /\ (ack[q] # MaxSeqNumber => q \in relrd)
  <2>1. SUFFICES ASSUME NEW q \in DOMAIN ack PROVE acked[q] <= ack[q] /\ (ack[q] # MaxSeqNumber => q \in relrd)
    OBVIOUS
  <2>2. CASE q = r
    BY <1>1, <1>3, <1>4, <1>5, <2>2
  <2>3. CASE q # r
    <3>1. ack[q] = acked[q] /\ acked[q] \in Nat
      BY <1>3, <1>4, <2>3
    <3>2. acked[q] # MaxSeqNumber => q \in relrd
      BY <1>0, <1>4 DEF Acks
    <3>3. QED
      BY <3>1, <3>2
  <2>4. QED
    BY <2>2, <2>3
<1>7. QED
  BY <1>1, <1>4, <1>6, InvSetAcked

\* AckAllMessages.
LEMMA InvAckAll ==
  ASSUME Inv, NEW r \in Readers, AckAllMessages(r)
  PROVE  Acks' /\ Cache' /\ UnackedKept' /\ TransientLocalKept' /\ DOMAIN whc'.node \subseteq DOMAIN whc.node
<1> DEFINE ack == [acked EXCEPT ![r] = MaxSeqNumber]
<1>0. Acks /\ Cache
  BY DEF Inv
<1>1. r \in DOMAIN acked /\ SetAcked(ack)
  BY DEF AckAllMessages, Matched
<1>2. ack = [acked EXCEPT ![r] = MaxSeqNumber]
  OBVIOUS
<1> HIDE DEF ack
<1>3. MaxSeqNumber \in Nat /\ \A q \in DOMAIN acked : acked[q] \in Nat /\ acked[q] <= MaxSeqNumber
  BY <1>0, AckedTypes
<1>4. /\ ack \in AckMaps(wrseq) /\ DOMAIN ack = DOMAIN acked
      /\ \A q \in DOMAIN ack : ack[q] = IF q = r THEN MaxSeqNumber ELSE acked[q]
  BY <1>0, <1>1, <1>2, AckOne
<1>5. \A q \in DOMAIN ack : acked[q] <= ack[q] /\ (ack[q] # MaxSeqNumber => q \in relrd)
  <2>1. SUFFICES ASSUME NEW q \in DOMAIN ack PROVE acked[q] <= ack[q] /\ (ack[q] # MaxSeqNumber => q \in relrd)
    OBVIOUS
  <2>2. CASE q = r
    BY <1>3, <1>4, <2>2
  <2>3. CASE q # r
    <3>1. ack[q] = acked[q] /\ acked[q] \in Nat
      BY <1>3, <1>4, <2>3
    <3>2. acked[q] # MaxSeqNumber => q \in relrd
      BY <1>0, <1>4 DEF Acks
    <3>3. QED
      BY <3>1, <3>2
  <2>4. QED
    BY <2>2, <2>3
<1>6. QED
  BY <1>1, <1>4, <1>5, InvSetAcked

\* One reader is forgotten.
LEMMA AckWithout ==
  ASSUME Acks, Cache, NEW r PROVE Restrict(acked, DOMAIN acked \ {r}) \in AckMaps(wrseq)
<1> DEFINE V == (0 .. wrseq) \cup {MaxSeqNumber}
           ack == Restrict(acked, DOMAIN acked \ {r})
<1>1. PICK R \in SUBSET Readers : acked \in [R -> V]
  BY InvTypes DEF AckMaps
<1>2. ack \in [R \ {r} -> V]
  <2> HIDE DEF V
  <2>1. QED
    BY <1>1 DEF Restrict
<1>3. R \ {r} \in SUBSET Readers
  OBVIOUS
<1>4. QED
  BY <1>2, <1>3 DEF AckMaps

\* DropConnection.
LEMMA InvDropConnection ==
  ASSUME Inv, NEW r \in Readers, DropConnection(r)
  PROVE  Acks' /\ Cache' /\ UnackedKept' /\ TransientLocalKept' /\ DOMAIN whc'.node \subseteq DOMAIN whc.node
<1> DEFINE ack == Restrict(acked, DOMAIN acked \ {r})
<1>0. Acks /\ Cache
  BY DEF Inv
<1>1. SetAcked(ack)
  BY DEF DropConnection, Matched
<1>2. DOMAIN ack = DOMAIN acked \ {r} /\ \A q \in DOMAIN ack : ack[q] = acked[q]
  BY DEF Restrict
<1>3. ack \in AckMaps(wrseq)
  BY <1>0, AckWithout
<1> HIDE DEF ack
<1>4. \A q \in DOMAIN ack : acked[q] <= ack[q] /\ (ack[q] # MaxSeqNumber => q \in relrd)
  <2>1. SUFFICES ASSUME NEW q \in DOMAIN ack PROVE acked[q] <= ack[q] /\ (ack[q] # MaxSeqNumber => q \in relrd)
    OBVIOUS
  <2>2. q \in DOMAIN acked /\ ack[q] = acked[q]
    BY <1>2
  <2>3. acked[q] \in Nat
    BY <1>0, <2>2, AckedTypes
  <2>4. acked[q] # MaxSeqNumber => q \in relrd
    BY <1>0, <2>2 DEF Acks
  <2>5. QED
    BY <2>2, <2>3, <2>4
<1>5. QED
  BY <1>1, <1>2, <1>3, <1>4, InvSetAcked

\* What all have acknowledged, by the numbers of the others and of reader r.
Rejoins(ack, ack2, r, b) ==
  /\ DOMAIN ack2 = DOMAIN ack \cup {r} /\ ack2[r] = b
  /\ r \in DOMAIN ack => ack[r] = MaxSeqNumber
  /\ \A q \in DOMAIN ack : q # r => ack2[q] = ack[q]
LoweredTo(m, m2, b) == m2 = m \/ (m2 = b /\ b <= m)

\* A reader that comes in at b can only lower that number, and to b.
LEMMA DropWith ==
  ASSUME NEW n \in 0 .. MaxSeq, NEW ack, NEW ack2, NEW m, NEW m2, NEW r, NEW b \in 0 .. n,
         IsDrop(ack, n, m), IsDrop(ack2, n, m2), Rejoins(ack, ack2, r, b)
  PROVE  LoweredTo(m, m2, b)
<1>0. MaxSeq \in Nat /\ n \in Nat /\ MaxSeqNumber \in Nat /\ n < MaxSeqNumber
  BY WhcAssumption DEF MaxSeqNumber
<1>1. m \in 0 .. n /\ m2 \in 0 .. n /\ m2 <= b
  BY DEF IsDrop, Rejoins
<1>2. ASSUME NEW q \in DOMAIN ack, ack[q] # MaxSeqNumber, m = ack[q] PROVE m2 <= m
  <2>1. q # r /\ ack2[q] = ack[q] /\ q \in DOMAIN ack2
    BY <1>2 DEF Rejoins
  <2>2. QED
    BY <1>2, <2>1 DEF IsDrop
<1>3. ASSUME NEW q \in DOMAIN ack2, q # r, m2 = ack2[q] PROVE m <= m2
  <2>1. q \in DOMAIN ack /\ ack2[q] = ack[q]
    BY <1>3 DEF Rejoins
  <2>2. QED
    BY <1>3, <2>1 DEF IsDrop
<1>4. m2 <= m
  <2>1. CASE m = n
    BY <1>0, <1>1, <2>1
  <2>2. CASE \E q \in DOMAIN ack : ack[q] # MaxSeqNumber /\ m = ack[q]
    BY <1>2, <2>2
  <2>3. QED
    BY <2>1, <2>2 DEF IsDrop
<1>5. m2 = b \/ m <= m2
  <2>1. CASE \A q \in DOMAIN ack2 : ack2[q] = MaxSeqNumber
    <3>1. b = MaxSeqNumber
      BY <2>1 DEF Rejoins
    <3>2. QED
      BY <1>0, <3>1
  <2>2. CASE \E q \in DOMAIN ack2 : ack2[q] # MaxSeqNumber /\ m2 = ack2[q]
    BY <1>3, <2>2 DEF Rejoins
  <2>3. QED
    BY <2>1, <2>2 DEF IsDrop
<1>6. QED
  BY <1>0, <1>1, <1>4, <1>5 DEF LoweredTo

\* AddConnection.
LEMMA InvAddConnection ==
  ASSUME Inv, NEW r \in Readers, NEW rel \in BOOLEAN, AddConnection(r, rel)
  PROVE  Acks' /\ Cache' /\ UnackedKept' /\ TransientLocalKept'
<1> DEFINE b == IF rel THEN wrseq ELSE MaxSeqNumber
           V == (0 .. wrseq) \cup {MaxSeqNumber}
<1>0. Acks /\ Cache /\ UnackedKept /\ TransientLocalKept
  BY DEF Inv
<1>1. /\ wrseq \in 0 .. MaxSeq /\ wrseq \in Nat /\ acked \in AckMaps(wrseq) /\ IsDrop(acked, wrseq, MNow) /\ MNow \in 0 .. wrseq
  BY <1>0, InvTypes
<1>2. /\ r \notin DOMAIN acked /\ (rel => qos.reliable)
      /\ acked' = [q \in DOMAIN acked \cup {r} |-> IF q # r THEN acked[q] ELSE b]
      /\ relrd' = IF rel THEN relrd \cup {r} ELSE relrd
      /\ qos' = qos /\ whc' = whc /\ wrseq' = wrseq /\ written' = written /\ expired' = expired /\ settled' = settled
  BY DEF AddConnection, Matched
<1>3. b \in V /\ (rel => b = wrseq) /\ (~rel => b = MaxSeqNumber)
  BY <1>1
<1> HIDE DEF b
<1>4. DOMAIN acked' = DOMAIN acked \cup {r} /\ acked'[r] = b /\ \A q \in DOMAIN acked : q # r /\ acked'[q] = acked[q]
  BY <1>2
<1>5. acked' \in AckMaps(wrseq)
  <2>1. PICK R \in SUBSET Readers : acked \in [R -> V]
    BY <1>1 DEF AckMaps
  <2>2. acked' \in [R \cup {r} -> V]
    <3> HIDE DEF V
    <3>1. QED
      BY <1>2, <1>3, <2>1
  <2>3. R \cup {r} \in SUBSET Readers
    OBVIOUS
  <2>4. QED
    BY <2>2, <2>3 DEF AckMaps
<1>6. MNow' = MaxDropSeq(acked', wrseq)
  BY <1>2 DEF MNow
<1>7. IsDrop(acked', wrseq, MNow')
  BY <1>1, <1>5, <1>6, MaxDropIs
<1>8. MNow' = MNow
  <2>1. CASE rel
    <3>1. b \in 0 .. wrseq /\ b = wrseq
      BY <1>1, <1>3, <2>1
    <3>2. Rejoins(acked, acked', r, b)
      BY <1>2, <1>4 DEF Rejoins
    <3>3. LoweredTo(MNow, MNow', b)
      BY <1>1, <1>7, <3>1, <3>2, DropWith
    <3>4. QED
      BY <1>1, <3>1, <3>3 DEF LoweredTo
  <2>2. CASE ~rel
    <3>1. b = MaxSeqNumber /\ \A q \in DOMAIN acked : acked[q] \in Nat
      BY <1>0, <1>3, <2>2, AckedTypes
    <3>2. MNow' <= MNow
      <4>1. CASE MNow = wrseq
        BY <1>1, <1>7, <4>1 DEF IsDrop
      <4>2. CASE \E q \in DOMAIN acked : MNow = acked[q]
        BY <1>4, <1>7, <4>2 DEF IsDrop
      <4>3. QED
        BY <1>1, <4>1, <4>2 DEF IsDrop
    <3>3. MNow <= MNow'
      <4>1. CASE MNow' = wrseq
        BY <1>1, <4>1
      <4>2. CASE \E q \in DOMAIN acked' : acked'[q] # MaxSeqNumber /\ MNow' = acked'[q]
        BY <1>1, <1>4, <3>1, <4>2 DEF IsDrop
      <4>3. QED
        BY <1>7, <4>1, <4>2 DEF IsDrop
    <3>4. MNow' \in Nat
      BY <1>1, <1>7 DEF IsDrop
    <3>5. QED
      BY <1>1, <3>2, <3>3, <3>4
  <2>3. QED
    BY <2>1, <2>2
<1>9. Cache' /\ UnackedKept' /\ TransientLocalKept'
  BY <1>0, <1>2, <1>8, InvSame
<1>10. Acks'
  <2>1. acked' \in AckMaps(wrseq')
    BY <1>2, <1>5
  <2>2. relrd' \subseteq DOMAIN acked' /\ (relrd' # {} => qos'.reliable)
    BY <1>0, <1>2, <1>4 DEF Acks
  <2>3. \A q \in DOMAIN acked' : acked'[q] # MaxSeqNumber => q \in relrd'
    <3>1. SUFFICES ASSUME NEW q \in DOMAIN acked', acked'[q] # MaxSeqNumber PROVE q \in relrd'
      OBVIOUS
    <3>2. CASE q = r
      BY <1>2, <1>3, <1>4, <3>1, <3>2
    <3>3. CASE q # r
      <4>1. q \in DOMAIN acked /\ acked[q] # MaxSeqNumber
        BY <1>4, <3>1, <3>3
      <4>2. q \in relrd
        BY <1>0, <4>1 DEF Acks
      <4>3. QED
        BY <1>2, <4>2
    <3>4. QED
      BY <3>2, <3>3
  <2>4. QED
    BY <2>1, <2>2, <2>3 DEF Acks
<1>11. QED
  BY <1>9, <1>10

\* A lower number at or beyond the newest sample changes nothing for the cache.
LEMMA AcksLower ==
  ASSUME NEW w, NEW n \in Nat, NEW m \in Nat, NEW W, CacheOk(w, n, m, W), NEW b \in Nat, b <= m, \A t \in DOMAIN w.node : t <= b
  PROVE  CacheOk(w, n, b, W)
<1>1. DOMAIN w.node \subseteq Nat /\ AckedUpTo(w, m)
  BY OkFields
<1>2. AckedUpTo(w, b)
  BY <1>1 DEF AckedUpTo
<1>3. QED
  BY <1>2 DEF CacheOk

\* AckNackResponsive.
LEMMA InvResponsive ==
  ASSUME Inv, NEW r \in Readers, NEW a \in Seqs, AckNackResponsive(r, a)
  PROVE  Acks' /\ Cache' /\ UnackedKept' /\ TransientLocalKept'
<1> DEFINE o == IF whc.size = 0 THEN wrseq ELSE whc.maxseq
           b == Max({a, o})
<1>0. Acks /\ Cache /\ UnackedKept /\ TransientLocalKept
  BY DEF Inv
<1>1. /\ wrseq \in 0 .. MaxSeq /\ wrseq \in Nat /\ acked \in AckMaps(wrseq) /\ IsDrop(acked, wrseq, MNow) /\ MNow \in 0 .. wrseq /\ MNow \in Nat
      /\ CacheOk(whc, wrseq, MNow, written) /\ \A t \in DOMAIN whc.node : t <= wrseq /\ t \in Nat
  BY <1>0, InvTypes
<1>2. /\ r \in relrd /\ acked[r] = MaxSeqNumber /\ a <= wrseq /\ acked' = [acked EXCEPT ![r] = b] /\ relrd' = relrd
      /\ qos' = qos /\ whc' = whc /\ wrseq' = wrseq /\ written' = written /\ expired' = expired /\ settled' = settled
  BY DEF AckNackResponsive
<1>3. r \in DOMAIN acked
  BY <1>0, <1>2 DEF Acks
<1>4. o \in 0 .. wrseq /\ \A t \in DOMAIN whc.node : t <= o
  <2>1. Good(whc, IdxDepth) /\ UpTo(whc, wrseq)
    BY <1>1, OkFields
  <2>2. IsTop(whc, whc.maxseq)
    BY <2>1 DEF UpTo
  <2>3. whc.maxseq \in 0 .. wrseq /\ \A t \in DOMAIN whc.node : t <= whc.maxseq
    BY <1>1, <2>2 DEF IsTop
  <2>4. QED
    BY <1>1, <2>3
<1>5. o = IF whc.size = 0 THEN wrseq ELSE whc.maxseq
  OBVIOUS
<1> HIDE DEF o
<1>6. b = IF a >= o THEN a ELSE o
  <2>1. a \in Nat /\ o \in Nat
    BY <1>1, <1>4, WhcAssumption DEF Seqs
  <2>2. QED
    BY <2>1, MaxOfTwo
<1>7. b \in 0 .. wrseq /\ \A t \in DOMAIN whc.node : t <= b
  <2>1. a \in Nat
    BY WhcAssumption DEF Seqs
  <2>2. QED
    BY <1>1, <1>2, <1>4, <1>6, <2>1
<1> HIDE DEF b
<1>8. /\ acked' \in AckMaps(wrseq) /\ DOMAIN acked' = DOMAIN acked
      /\ \A q \in DOMAIN acked' : acked'[q] = IF q = r THEN b ELSE acked[q]
  BY <1>0, <1>2, <1>3, <1>7, AckOne
<1>9. MNow' = MaxDropSeq(acked', wrseq)
  BY <1>2 DEF MNow
<1>10. IsDrop(acked', wrseq, MNow')
  BY <1>1, <1>8, <1>9, MaxDropIs
<1>11. MNow' = MNow \/ (MNow' = b /\ b <= MNow)
  <2>1. DOMAIN acked' = DOMAIN acked \cup {r} /\ acked'[r] = b /\ \A q \in DOMAIN acked : q # r => acked'[q] = acked[q]
    BY <1>3, <1>8
  <2>2. Rejoins(acked, acked', r, b)
    BY <1>2, <2>1 DEF Rejoins
  <2>3. LoweredTo(MNow, MNow', b)
    BY <1>1, <1>7, <1>10, <2>2, DropWith
  <2>4. QED
    BY <2>3 DEF LoweredTo
<1>12. CacheOk(whc, wrseq, MNow', written)
  <2>1. CASE MNow' = MNow
    BY <1>1, <2>1
  <2>2. CASE MNow' = b /\ b <= MNow
    <3>1. b \in Nat
      BY <1>1, <1>7
    <3>2. CacheOk(whc, wrseq, b, written)
      BY <1>1, <1>7, <2>2, <3>1, AcksLower
    <3>3. QED
      BY <2>2, <3>2
  <2>3. QED
    BY <1>11, <2>1, <2>2
<1>13. Cache' /\ UnackedKept' /\ TransientLocalKept'
  <2>1. CacheOk(whc', wrseq', MNow', written') /\ written' \in Writings(wrseq') /\ wrseq' \in 0 .. MaxSeq
    BY <1>0, <1>1, <1>2, <1>12 DEF Cache
  <2>2. \A x \in DOMAIN written : Older(written, written', x)
    <3>1. DOMAIN written \subseteq 1 .. wrseq
      BY <1>0, InvTypes
    <3>2. QED
      BY <1>1, <1>2, <3>1, WritesNothing
  <2>3. settled \in Nat /\ settled <= settled
    BY <1>0, InvTypes
  <2>4. QED
    BY <1>0, <1>1, <1>2, <2>1, <2>2, <2>3, InvStep
<1>14. Acks'
  <2>1. acked' \in AckMaps(wrseq')
    BY <1>2, <1>8
  <2>2. \A q \in DOMAIN acked' : acked'[q] # MaxSeqNumber => q \in relrd'
    BY <1>0, <1>2, <1>8 DEF Acks
  <2>3. QED
    BY <1>0, <1>2, <1>8, <2>1, <2>2 DEF Acks
<1>15. QED
  BY <1>13, <1>14

\* SampleExpired.
LEMMA InvExpired ==
  ASSUME Inv, LifespanIndexed, NEW S \in SUBSET Seqs, SampleExpired(S)
  PROVE  Acks' /\ Cache' /\ UnackedKept' /\ TransientLocalKept' /\ DOMAIN whc'.node = DOMAIN whc.node \ S
<1> DEFINE u == DeleteSet(whc, S)
<1>0. Acks /\ Cache /\ UnackedKept /\ TransientLocalKept
  BY DEF Inv
<1>1. /\ qos \in QosType /\ wrseq \in 0 .. MaxSeq /\ wrseq \in Nat /\ settled \in Nat
      /\ DOMAIN written \subseteq 1 .. wrseq /\ MNow \in Nat /\ CacheOk(whc, wrseq, MNow, written)
  BY <1>0, InvTypes
<1>2. /\ S # {} /\ S \subseteq DOMAIN whc.node /\ \A s \in S : whc.node[s].exp
      /\ whc' = [u EXCEPT !.maxseq = FindMaxProcedurally(u)] /\ expired' = expired \cup S
      /\ qos' = qos /\ wrseq' = wrseq /\ acked' = acked /\ relrd' = relrd /\ written' = written /\ settled' = settled
  BY DEF SampleExpired, Present
<1>3. qos.lifespan => ~NoIndex
  <2>1. qos \in Qos
    BY <1>0 DEF Cache
  <2>2. qos.lifespan => qos.hdepth > 0 \/ qos.deadline \/ qos.tl
    BY <2>1 DEF LifespanIndexed
  <2>3. qos.hdepth > 0 => IdxDepth # 0
    BY <1>1, Depths DEF IdxDepth, HDepth, QosType
  <2>4. QED
    BY <2>2, <2>3 DEF NoIndex
<1>4. u = DeleteSet(whc, S)
  OBVIOUS
<1> HIDE DEF u
<1>5. CacheOk(whc', wrseq, MNow, written) /\ DOMAIN whc'.node = DOMAIN whc.node \ S
  <2> DEFINE v == whc'
  <2>1. v = [u EXCEPT !.maxseq = FindMaxProcedurally(u)]
    BY <1>2
  <2>2. CacheOk(v, wrseq, MNow, written) /\ DOMAIN v.node = DOMAIN whc.node \ S
    <3> HIDE DEF v
    <3>1. QED
      BY <1>1, <1>2, <1>3, <1>4, <2>1, ExpireOk
  <2>3. QED
    BY <2>2
<1>6. MNow' = MNow
  BY <1>2 DEF MNow
<1>7. CacheOk(whc', wrseq', MNow', written') /\ written' \in Writings(wrseq') /\ wrseq' \in 0 .. MaxSeq
  BY <1>0, <1>1, <1>2, <1>5, <1>6 DEF Cache
<1>8. \A x \in DOMAIN written : Older(written, written', x)
  BY <1>1, <1>2, WritesNothing
<1>9. \A x \in DOMAIN written' : x \notin DOMAIN whc'.node =>
           \/ x \in DOMAIN written /\ x \notin DOMAIN whc.node
           \/ x \in expired'
           \/ MNow <= settled' /\ MayGo(written', MNow, x)
  BY <1>2, <1>5
<1>10. settled' \in Nat /\ settled <= settled' /\ expired \subseteq expired'
  BY <1>1, <1>2
<1>11. Cache' /\ UnackedKept' /\ TransientLocalKept'
  BY <1>0, <1>1, <1>2, <1>7, <1>8, <1>9, <1>10, InvStep
<1>12. Acks'
  BY <1>0, <1>2 DEF Acks
<1>13. QED
  BY <1>5, <1>11, <1>12

\* The steps that lend, return or free samples.
LendsOnly == UNCHANGED <<qos, whc, wrseq, acked, relrd, settled, written, expired>>

\* They keep the invariant.
LEMMA InvLends ==
  ASSUME Inv, LendsOnly PROVE Acks' /\ Cache' /\ UnackedKept' /\ TransientLocalKept'
<1>0. Acks /\ Cache /\ UnackedKept /\ TransientLocalKept
  BY DEF Inv
<1>1. /\ qos' = qos /\ whc' = whc /\ wrseq' = wrseq /\ acked' = acked /\ relrd' = relrd
      /\ settled' = settled /\ written' = written /\ expired' = expired
  BY DEF LendsOnly
<1>2. MNow' = MNow
  BY <1>1 DEF MNow
<1>3. Cache' /\ UnackedKept' /\ TransientLocalKept'
  BY <1>0, <1>1, <1>2, InvSame
<1>4. Acks'
  BY <1>0, <1>1 DEF Acks
<1>5. QED
  BY <1>3, <1>4

\* Which steps those are.
LEMMA Lends ==
  /\ \A s \in Seqs : BorrowSample(s) => LendsOnly
  /\ \A k \in Keys : BorrowSampleKey(k) => LendsOnly
  /\ ReturnSample => LendsOnly
  /\ IterBorrowFirst => LendsOnly
  /\ IterBorrowNext => LendsOnly
  /\ Free => LendsOnly
  /\ UNCHANGED vars => LendsOnly
<1>1. \A s, it : Lend(s, it) => LendsOnly
  BY DEF Lend, LendsOnly
<1>2. Free => LendsOnly
  BY DEF Free, LendsOnly
<1>3. UNCHANGED vars => LendsOnly
  BY DEF vars, LendsOnly
<1>4. QED
  BY <1>1, <1>2, <1>3 DEF BorrowSample, BorrowSampleKey, ReturnSample, IterBorrowFirst, IterBorrowNext

\* Every step keeps the invariant of the cache.
LEMMA InvNext ==
  ASSUME Inv, LifespanIndexed, [Next]_vars PROVE Inv'
<1>1. ASSUME NEW k \in Keys, NEW kind \in Kinds, Write(k, kind) PROVE Inv'
  <2>1. Acks' /\ Cache' /\ UnackedKept' /\ TransientLocalKept'
    BY <1>1, InvWrite
  <2>2. QED
    BY <2>1 DEF Inv
<1>2. ASSUME NEW r \in Readers, NEW rel \in BOOLEAN, AddConnection(r, rel) PROVE Inv'
  BY <1>2, InvAddConnection DEF Inv
<1>3. ASSUME NEW r \in Readers, NEW a \in Seqs, AckNack(r, a) PROVE Inv'
  BY <1>3, InvAckNack DEF Inv
<1>4. ASSUME NEW r \in Readers, NEW a \in Seqs, AckNackResponsive(r, a) PROVE Inv'
  BY <1>4, InvResponsive DEF Inv
<1>5. ASSUME NEW r \in Readers, AckAllMessages(r) PROVE Inv'
  BY <1>5, InvAckAll DEF Inv
<1>6. ASSUME NEW r \in Readers, DropConnection(r) PROVE Inv'
  BY <1>6, InvDropConnection DEF Inv
<1>7. ASSUME NEW S \in SUBSET Seqs, SampleExpired(S) PROVE Inv'
  BY <1>7, InvExpired DEF Inv
<1>8. ASSUME LendsOnly PROVE Inv'
  BY <1>8, InvLends DEF Inv
<1>9. CASE Next
  BY <1>1, <1>2, <1>3, <1>4, <1>5, <1>6, <1>7, <1>8, <1>9, Lends DEF Next
<1>10. CASE UNCHANGED vars
  BY <1>8, <1>10, Lends
<1>11. QED
  BY <1>9, <1>10

\* It holds at first.
LEMMA InvInit == ASSUME Init PROVE Inv
<1> DEFINE e == [node |-> NoIdx, closed |-> {}, open |-> [min |-> 1, maxp1 |-> 1],
                 maxseq |-> 0, size |-> 0, unackedBytes |-> 0, total |-> 0,
                 maxDrop |-> 0, idx |-> NoIdx]
<1>0. /\ qos \in Qos /\ whc = e /\ wrseq = 0 /\ acked = NoIdx /\ relrd = {} /\ settled = 0 /\ written = NoIdx
  BY DEF Init
<1>1. DOMAIN NoIdx = {}
  BY DEF NoIdx
<1>2. MaxSeq \in Nat \ {0} /\ qos \in QosType
  BY <1>0, WhcAssumption
<1>3. /\ DOMAIN whc.node = {} /\ DOMAIN whc.idx = {} /\ whc.closed = {} /\ whc.open = [min |-> 1, maxp1 |-> 1] /\ whc.maxseq = 0
      /\ whc.size = 0 /\ whc.unackedBytes = 0 /\ whc.total = 0 /\ whc.maxDrop = 0 /\ whc.node = NoIdx /\ whc.idx = NoIdx
  BY <1>0, <1>1
<1>4. NoIdx \in NodeMaps /\ NoIdx \in IdxMaps(IdxDepth) /\ NoIdx \in AckMaps(0) /\ NoIdx \in Writings(0)
  <2>1. \A T : NoIdx \in [{} -> T]
    BY DEF NoIdx
  <2>2. NoIdx \in NodeMaps
    BY <2>1 DEF NodeMaps
  <2>3. NoIdx \in IdxMaps(IdxDepth)
    BY <2>1 DEF IdxMaps
  <2>4. NoIdx \in AckMaps(0)
    BY <2>1 DEF AckMaps
  <2>5. NoIdx \in Writings(0)
    BY <2>1 DEF Writings
  <2>6. QED
    BY <2>2, <2>3, <2>4, <2>5
<1>5. [min |-> 1, maxp1 |-> 1] \in Ivs
  BY <1>2 DEF Ivs
<1>6. whc \in Caches(IdxDepth)
  BY <1>0, <1>4, <1>5 DEF Caches
<1>7. Runs(DOMAIN whc.node, whc.closed, whc.open)
  BY <1>2, <1>3 DEF Runs, Covers, BeforeOpen, Apart, In, Seqs
<1>8. Linked(whc, IdxDepth)
  BY <1>3 DEF Linked
<1>9. Counted(whc)
  <2>1. Cardinality({}) = 0
    BY FS_EmptySet
  <2>2. Bytes(whc, {}) = 0
    BY BytesEmpty
  <2>3. QED
    BY <1>3, <2>1, <2>2 DEF Counted
<1>10. Good(whc, IdxDepth)
  BY <1>6, <1>7, <1>8, <1>9 DEF Good
<1>11. UpTo(whc, 0)
  BY <1>3 DEF UpTo, IsTop
<1>12. Hist(whc, IdxDepth, written, {})
  BY <1>3 DEF Hist, Ages, Ordered, Pushed
<1>13. Single(whc, 0)
  BY <1>3 DEF Single
<1>14. CacheOk(whc, wrseq, MNow, written)
  <2>1. AckedUpTo(whc, MNow) /\ BeyondDrop(whc) /\ whc.maxDrop <= 0
    BY <1>3 DEF AckedUpTo, BeyondDrop
  <2>2. QED
    BY <1>0, <1>3, <1>10, <1>11, <1>12, <1>13, <2>1 DEF CacheOk
<1>15. Cache
  BY <1>0, <1>2, <1>4, <1>14 DEF Cache
<1>16. Acks
  BY <1>0, <1>1, <1>4 DEF Acks
<1>17. UnackedKept /\ TransientLocalKept
  BY <1>0, <1>1 DEF UnackedKept, TransientLocalKept
<1>18. QED
  BY <1>15, <1>16, <1>17 DEF Inv

-----------------------------------------------------------------------------
(* Loans *)

\* ContentsFreedOnce for a cache P, a loan l, a state of the cache and the counts f.
FreedIn(W, P, l, over, f) ==
  \A s \in DOMAIN W : f[s] = IF s = l \/ (s \in P /\ ~over) THEN 0 ELSE 1

\* The samples gone are freed, the borrowed one is not.
LEMMA FreedKeeps ==
  ASSUME Inv, Loans, ContentsFreedOnce, ~freed, NEW P2, NEW gone, gone \subseteq Seqs, frees' = FreedBy(gone),
         gone \cap DOMAIN written = DOMAIN whc.node \ P2, P2 \cap DOMAIN written \subseteq DOMAIN whc.node
  PROVE  /\ FreedIn(written, P2, loan, FALSE, frees') /\ frees' \in [Seqs -> Nat]
         /\ \A s \in Seqs : s \notin gone => frees'[s] = frees[s]
         /\ \A s \in gone : s \notin DOMAIN written => frees'[s] = 1
<1>1. frees \in [Seqs -> Nat] /\ loan \in {0} \cup DOMAIN written /\ \A s \in Seqs \ DOMAIN written : frees[s] = 0
  BY DEF Loans
<1>2. DOMAIN written \subseteq Seqs /\ 0 \notin Seqs
  BY InvTypes DEF Inv, Seqs
<1>3. frees' = [s \in Seqs |-> frees[s] + (IF s \in gone /\ s # loan THEN 1 ELSE 0)]
  BY DEF FreedBy
<1>4. frees' \in [Seqs -> Nat]
  BY <1>1, <1>3
<1>5. \A s \in Seqs : s \notin gone => frees'[s] = frees[s]
  BY <1>1, <1>3
<1>6. \A s \in gone : s \notin DOMAIN written => frees'[s] = 1
  BY <1>1, <1>2, <1>3
<1>7. ASSUME NEW s \in DOMAIN written
      PROVE  frees'[s] = IF s = loan \/ s \in P2 THEN 0 ELSE 1
  <2>1. frees[s] = IF s = loan \/ s \in DOMAIN whc.node THEN 0 ELSE 1
    BY DEF ContentsFreedOnce, Present
  <2>2. frees'[s] = frees[s] + (IF s \in gone /\ s # loan THEN 1 ELSE 0)
    BY <1>2, <1>3
  <2>3. s \in gone <=> s \in DOMAIN whc.node /\ s \notin P2
    OBVIOUS
  <2>4. s \in P2 => s \in DOMAIN whc.node
    OBVIOUS
  <2>5. QED
    BY <2>1, <2>2, <2>3, <2>4
<1>8. QED
  BY <1>4, <1>5, <1>6, <1>7 DEF FreedIn

\* A step that frees what leaves the cache.
LEMMA LoansGone ==
  ASSUME Inv, Loans, ContentsFreedOnce, ~freed, NEW gone, gone \subseteq Seqs, frees' = FreedBy(gone),
         gone = DOMAIN whc.node \ DOMAIN whc'.node, DOMAIN whc'.node \subseteq DOMAIN whc.node,
         written' = written, UNCHANGED <<loan, iter, freed>>
  PROVE  Loans' /\ ContentsFreedOnce'
<1>1. DOMAIN whc.node \subseteq DOMAIN written
  BY InvTypes DEF Inv
<1>2. gone \cap DOMAIN written = DOMAIN whc.node \ DOMAIN whc'.node
  BY <1>1
<1> DEFINE P2 == DOMAIN whc'.node
<1>3. gone \cap DOMAIN written = DOMAIN whc.node \ P2 /\ P2 \cap DOMAIN written \subseteq DOMAIN whc.node
  BY <1>2
<1>4. /\ FreedIn(written, P2, loan, FALSE, frees') /\ frees' \in [Seqs -> Nat]
      /\ \A s \in Seqs : s \notin gone => frees'[s] = frees[s]
  <2> HIDE DEF P2
  <2>1. QED
    BY <1>3, FreedKeeps
<1>5. ContentsFreedOnce'
  BY <1>4 DEF FreedIn, ContentsFreedOnce, Present
<1>6. \A s \in Seqs \ DOMAIN written : frees'[s] = 0
  BY <1>1, <1>4 DEF Loans
<1>7. Loans'
  BY <1>4, <1>6 DEF Loans
<1>8. QED
  BY <1>5, <1>7

\* A step that changes nothing here.
LEMMA LoansSame ==
  ASSUME Loans, ContentsFreedOnce, DOMAIN whc'.node = DOMAIN whc.node, written' = written, UNCHANGED <<loan, iter, freed, frees>>
  PROVE  Loans' /\ ContentsFreedOnce'
  BY DEF Loans, ContentsFreedOnce, Present

\* Write.
LEMMA LoansWrite ==
  ASSUME Inv, Loans, ContentsFreedOnce, NEW k \in Keys, NEW kind \in Kinds, Write(k, kind),
         DOMAIN whc'.node \subseteq DOMAIN whc.node \cup {wrseq + 1}
  PROVE  Loans' /\ ContentsFreedOnce'
<1> DEFINE s == wrseq + 1
           w2 == IF Keeps THEN Insert(whc, MaxDropSeq(acked, s), s, k, kind)
                 ELSE RemoveAcked(Insert(whc, MaxDropSeq(acked, s), s, k, kind), s)
           gone == (DOMAIN whc.node \cup {s}) \ DOMAIN whc'.node
           P2 == DOMAIN whc'.node
<1>1. /\ wrseq \in Nat /\ DOMAIN written \subseteq 1 .. wrseq /\ DOMAIN whc.node \subseteq DOMAIN written /\ MaxSeq \in Nat
  BY InvTypes DEF Inv
<1>2. ~freed /\ loan = 0 /\ wrseq < MaxSeq /\ loan' = loan /\ iter' = iter /\ freed' = freed
  BY DEF Write, Unlocked
<1>3. s \in Seqs /\ s \notin DOMAIN written /\ DOMAIN written \subseteq Seqs /\ 0 \notin Seqs
  BY <1>1, <1>2 DEF Seqs
<1>4. CASE Keeps \/ qos.deadline
  <2>1. /\ frees' = FreedBy(gone)
        /\ written' = [t \in DOMAIN written \cup {s} |-> IF t = s THEN [key |-> k, kind |-> kind] ELSE written[t]]
    BY <1>4 DEF Write, Present
  <2>2. DOMAIN written' = DOMAIN written \cup {s}
    BY <2>1
  <2> HIDE DEF s
  <2>3. gone \subseteq Seqs
    BY <1>1, <1>3
  <2>4. gone \cap DOMAIN written = DOMAIN whc.node \ P2 /\ P2 \cap DOMAIN written \subseteq DOMAIN whc.node
    BY <1>1, <1>3 DEF s
  <2>5. s \in gone <=> s \notin P2
    OBVIOUS
  <2> HIDE DEF gone, P2
  <2>6. /\ FreedIn(written, P2, loan, FALSE, frees') /\ frees' \in [Seqs -> Nat]
        /\ \A t \in Seqs : t \notin gone => frees'[t] = frees[t]
        /\ \A t \in gone : t \notin DOMAIN written => frees'[t] = 1
    BY <1>2, <2>1, <2>3, <2>4, FreedKeeps
  <2>7. frees'[s] = IF s \in P2 THEN 0 ELSE 1
    <3>1. frees[s] = 0
      BY <1>3 DEF Loans
    <3>2. QED
      BY <1>3, <2>5, <2>6, <3>1
  <2>8. \A t \in DOMAIN written' : frees'[t] = IF t = loan \/ (t \in P2 /\ ~freed) THEN 0 ELSE 1
    <3>1. SUFFICES ASSUME NEW t \in DOMAIN written' PROVE frees'[t] = IF t = loan \/ (t \in P2 /\ ~freed) THEN 0 ELSE 1
      OBVIOUS
    <3>2. CASE t = s
      BY <1>2, <1>3, <2>7, <3>2
    <3>3. CASE t # s
      <4>1. t \in DOMAIN written
        BY <2>2, <3>3
      <4>2. QED
        BY <1>2, <2>6, <4>1 DEF FreedIn
    <3>4. QED
      BY <3>2, <3>3
  <2>9. ContentsFreedOnce'
    BY <1>2, <2>8 DEF ContentsFreedOnce, Present, P2
  <2>10. \A t \in Seqs \ DOMAIN written' : frees'[t] = 0
    <3>1. SUFFICES ASSUME NEW t \in Seqs \ DOMAIN written' PROVE frees'[t] = 0
      OBVIOUS
    <3>2. t \notin gone /\ t \in Seqs \ DOMAIN written
      BY <1>1, <2>2 DEF gone
    <3>3. QED
      BY <2>6, <3>2 DEF Loans
  <2>11. Loans'
    BY <1>2, <2>2, <2>6, <2>10 DEF Loans
  <2>12. QED
    BY <2>9, <2>11
<1>5. CASE ~(Keeps \/ qos.deadline)
  <2>1. whc' = whc /\ frees' = frees /\ written' = written
    BY <1>5 DEF Write
  <2>2. QED
    BY <1>2, <2>1, LoansSame
<1>6. QED
  BY <1>4, <1>5

\* Borrowing a sample that is there.
LEMMA LoansBorrow ==
  ASSUME Inv, Loans, ContentsFreedOnce, Unlocked, NEW x \in DOMAIN whc.node, NEW it \in BOOLEAN, Lend(x, it), frees' = frees
  PROVE  Loans' /\ ContentsFreedOnce'
<1>1. DOMAIN whc.node \subseteq DOMAIN written /\ DOMAIN written \subseteq Seqs /\ 0 \notin Seqs
  BY InvTypes DEF Inv, Seqs
<1>2. ~freed /\ loan = 0 /\ loan' = x /\ (iter' <=> it /\ x # 0) /\ iter' \in BOOLEAN /\ freed' = freed /\ whc' = whc /\ written' = written
  BY DEF Unlocked, Lend
<1>3. x \in DOMAIN written /\ x # 0
  BY <1>1
<1>4. Loans'
  BY <1>2, <1>3 DEF Loans
<1>5. ContentsFreedOnce'
  BY <1>1, <1>2, <1>3 DEF ContentsFreedOnce, Present
<1>6. QED
  BY <1>4, <1>5

\* Returning the one borrowed, and borrowing another one or none.
LEMMA LoansReturn ==
  ASSUME Inv, Loans, ContentsFreedOnce, loan # 0, ReturnFrees, NEW x, x = 0 \/ (x \in DOMAIN whc.node /\ x # loan),
         NEW it \in BOOLEAN, Lend(x, it)
  PROVE  Loans' /\ ContentsFreedOnce'
<1>1. DOMAIN whc.node \subseteq DOMAIN written /\ DOMAIN written \subseteq Seqs /\ 0 \notin Seqs
  BY InvTypes DEF Inv, Seqs
<1>2. loan' = x /\ (iter' <=> it /\ x # 0) /\ iter' \in BOOLEAN /\ freed' = freed /\ whc' = whc /\ written' = written
  BY DEF Lend
<1>3. ~freed /\ loan \in DOMAIN written /\ frees \in [Seqs -> Nat] /\ \A s \in Seqs \ DOMAIN written : frees[s] = 0
  BY DEF Loans
<1>4. frees' = [frees EXCEPT ![loan] = IF loan \in DOMAIN whc.node THEN frees[loan] ELSE frees[loan] + 1]
  BY DEF ReturnFrees, Present
<1>5. /\ frees' \in [Seqs -> Nat] /\ \A s \in Seqs : s # loan => frees'[s] = frees[s]
      /\ frees'[loan] = IF loan \in DOMAIN whc.node THEN frees[loan] ELSE frees[loan] + 1
  BY <1>1, <1>3, <1>4
<1>6. Loans'
  <2>1. loan' \in {0} \cup DOMAIN written'
    BY <1>1, <1>2
  <2>2. \A s \in Seqs \ DOMAIN written' : frees'[s] = 0
    BY <1>2, <1>3, <1>5
  <2>3. QED
    BY <1>2, <1>3, <1>5, <2>1, <2>2 DEF Loans
<1>7. frees[loan] = 0
  BY <1>3 DEF ContentsFreedOnce
<1>8. ASSUME NEW s \in DOMAIN written
      PROVE  frees'[s] = IF s = x \/ s \in DOMAIN whc.node THEN 0 ELSE 1
  <2>1. CASE s = loan
    <3>1. s # x
      BY <1>1, <2>1
    <3>2. QED
      BY <1>5, <1>7, <2>1, <3>1
  <2>2. CASE s # loan
    <3>1. frees'[s] = frees[s] /\ frees[s] = IF s \in DOMAIN whc.node THEN 0 ELSE 1
      BY <1>1, <1>3, <1>5, <2>2 DEF ContentsFreedOnce, Present
    <3>2. s = x => s \in DOMAIN whc.node
      BY <1>1
    <3>3. QED
      BY <3>1, <3>2
  <2>3. QED
    BY <2>1, <2>2
<1>9. ContentsFreedOnce'
  BY <1>2, <1>3, <1>8 DEF ContentsFreedOnce, Present
<1>10. QED
  BY <1>6, <1>9

\* Freeing the cache.
LEMMA LoansFree ==
  ASSUME Inv, Loans, ContentsFreedOnce, Free PROVE Loans' /\ ContentsFreedOnce'
<1>1. DOMAIN whc.node \subseteq DOMAIN written /\ DOMAIN written \subseteq Seqs /\ 0 \notin Seqs
  BY InvTypes DEF Inv, Seqs
<1>2. ~freed /\ loan = 0 /\ loan' = loan /\ iter' = iter /\ freed' = TRUE /\ whc' = whc /\ written' = written
  BY DEF Free, Unlocked
<1>3. frees \in [Seqs -> Nat] /\ (\A s \in Seqs \ DOMAIN written : frees[s] = 0)
  BY DEF Loans
<1>4. frees' = [s \in Seqs |-> frees[s] + (IF s \in DOMAIN whc.node /\ s # loan THEN 1 ELSE 0)]
  BY DEF Free, FreedBy, Present
<1>5. frees' \in [Seqs -> Nat] /\ (\A s \in Seqs \ DOMAIN written : frees'[s] = 0)
  BY <1>1, <1>3, <1>4
<1>6. Loans'
  BY <1>2, <1>5 DEF Loans
<1>7. ASSUME NEW s \in DOMAIN written PROVE frees'[s] = 1
  <2>1. frees[s] = IF s \in DOMAIN whc.node THEN 0 ELSE 1
    BY <1>1, <1>2 DEF ContentsFreedOnce, Present
  <2>2. s # loan
    BY <1>1, <1>2
  <2>3. QED
    BY <1>1, <1>4, <2>1, <2>2
<1>8. ContentsFreedOnce'
  BY <1>1, <1>2, <1>7 DEF ContentsFreedOnce
<1>9. QED
  BY <1>6, <1>8

\* Every step keeps the whole invariant.
LEMMA LoansNext ==
  ASSUME FullInv, LifespanIndexed, [Next]_vars PROVE Loans' /\ ContentsFreedOnce'
<1>0. Inv /\ Loans /\ ContentsFreedOnce
  BY DEF FullInv
<1>1. /\ whc \in Caches(IdxDepth) /\ Good(whc, IdxDepth) /\ IsTop(whc, whc.maxseq) /\ DOMAIN whc.node \subseteq DOMAIN written
      /\ DOMAIN written \subseteq Seqs /\ MaxSeq \in Nat
  <2>1. CacheOk(whc, wrseq, MNow, written)
    BY <1>0, InvTypes DEF Inv
  <2>2. Good(whc, IdxDepth) /\ UpTo(whc, wrseq)
    BY <2>1, OkFields
  <2>3. whc \in Caches(IdxDepth) /\ DOMAIN whc.node \subseteq DOMAIN written /\ DOMAIN written \subseteq 1 .. wrseq /\ wrseq \in 0 .. MaxSeq /\ MaxSeq \in Nat
    BY <1>0, InvTypes DEF Inv
  <2>4. QED
    BY <2>2, <2>3 DEF UpTo, Seqs
<1>2. ASSUME NEW k \in Keys, NEW kind \in Kinds, Write(k, kind) PROVE Loans' /\ ContentsFreedOnce'
  <2>1. DOMAIN whc'.node \subseteq DOMAIN whc.node \cup {wrseq + 1}
    BY <1>0, <1>2, InvWrite
  <2>2. QED
    BY <1>0, <1>2, <2>1, LoansWrite
<1>3. ASSUME NEW r \in Readers, NEW rel \in BOOLEAN, AddConnection(r, rel) PROVE Loans' /\ ContentsFreedOnce'
  BY <1>0, <1>3, LoansSame DEF AddConnection
<1>4. ASSUME NEW r \in Readers, NEW a \in Seqs, AckNackResponsive(r, a) PROVE Loans' /\ ContentsFreedOnce'
  BY <1>0, <1>4, LoansSame DEF AckNackResponsive
<1>5. ASSUME NEW ack, SetAcked(ack), ~freed, DOMAIN whc'.node \subseteq DOMAIN whc.node PROVE Loans' /\ ContentsFreedOnce'
  <2> DEFINE gone == DOMAIN whc.node \ DOMAIN whc'.node
  <2>1. frees' = FreedBy(gone) /\ written' = written /\ UNCHANGED <<loan, iter, freed>>
    BY <1>5 DEF SetAcked, Present
  <2>2. gone \subseteq Seqs
    BY <1>1
  <2>3. QED
    BY <1>0, <1>5, <2>1, <2>2, LoansGone
<1>6. ASSUME NEW r \in Readers, NEW a \in Seqs, AckNack(r, a) PROVE Loans' /\ ContentsFreedOnce'
  <2>1. DOMAIN whc'.node \subseteq DOMAIN whc.node
    BY <1>0, <1>6, InvAckNack
  <2>2. SetAcked([acked EXCEPT ![r] = a]) /\ ~freed
    BY <1>6 DEF AckNack, Unlocked
  <2>3. QED
    BY <1>5, <2>1, <2>2
<1>7. ASSUME NEW r \in Readers, AckAllMessages(r) PROVE Loans' /\ ContentsFreedOnce'
  <2>1. DOMAIN whc'.node \subseteq DOMAIN whc.node
    BY <1>0, <1>7, InvAckAll
  <2>2. SetAcked([acked EXCEPT ![r] = MaxSeqNumber]) /\ ~freed
    BY <1>7 DEF AckAllMessages, Unlocked
  <2>3. QED
    BY <1>5, <2>1, <2>2
<1>8. ASSUME NEW r \in Readers, DropConnection(r) PROVE Loans' /\ ContentsFreedOnce'
  <2>1. DOMAIN whc'.node \subseteq DOMAIN whc.node
    BY <1>0, <1>8, InvDropConnection
  <2>2. SetAcked(Restrict(acked, Matched \ {r})) /\ ~freed
    BY <1>8 DEF DropConnection, Unlocked
  <2>3. QED
    BY <1>5, <2>1, <2>2
<1>9. ASSUME NEW s \in Seqs, BorrowSample(s) PROVE Loans' /\ ContentsFreedOnce'
  <2>1. s \in DOMAIN whc.node /\ Unlocked /\ Lend(s, FALSE) /\ frees' = frees
    BY <1>9 DEF BorrowSample, Present
  <2>2. QED
    BY <1>0, <2>1, LoansBorrow
<1>10. ASSUME NEW k \in Keys, BorrowSampleKey(k) PROVE Loans' /\ ContentsFreedOnce'
  <2> DEFINE x == whc.idx[k].hist[whc.idx[k].head]
  <2>1. Unlocked /\ k \in DOMAIN whc.idx /\ IdxDepth > 0 /\ x # 0 /\ Lend(x, FALSE) /\ frees' = frees
    BY <1>10 DEF BorrowSampleKey
  <2>2. Linked(whc, IdxDepth)
    BY <1>1 DEF Good
  <2>3. x \in DOMAIN whc.node
    <3>1. whc.idx[k].head \in 0 .. IdxDepth - 1
      BY <2>1, <2>2 DEF Linked
    <3>2. QED
      BY <2>1, <2>2, <3>1 DEF Linked
  <2> HIDE DEF x
  <2>4. QED
    BY <1>0, <2>1, <2>3, LoansBorrow
<1>11. ASSUME ReturnSample PROVE Loans' /\ ContentsFreedOnce'
  <2>1. loan # 0 /\ Lend(0, FALSE) /\ ReturnFrees
    BY <1>11 DEF ReturnSample
  <2>2. QED
    BY <1>0, <2>1, LoansReturn
<1>12. \A s \in 0 .. MaxSeq : FindNextSeq(whc, s) = 0 \/ (FindNextSeq(whc, s) \in DOMAIN whc.node /\ FindNextSeq(whc, s) > s)
  BY <1>1, NextSeqAfter
<1>13. ASSUME IterBorrowFirst PROVE Loans' /\ ContentsFreedOnce'
  <2> DEFINE x == FindNextSeq(whc, 0)
  <2>1. Unlocked /\ x # 0 /\ Lend(x, TRUE) /\ frees' = frees
    BY <1>13 DEF IterBorrowFirst
  <2>2. x \in DOMAIN whc.node
    BY <1>1, <1>12, <2>1
  <2> HIDE DEF x
  <2>3. QED
    BY <1>0, <2>1, <2>2, LoansBorrow
<1>14. ASSUME IterBorrowNext PROVE Loans' /\ ContentsFreedOnce'
  <2> DEFINE x == FindNextSeq(whc, loan)
  <2>1. iter /\ Lend(x, TRUE) /\ ReturnFrees
    BY <1>14 DEF IterBorrowNext
  <2>2. loan # 0 /\ loan \in DOMAIN written
    BY <1>0, <2>1 DEF Loans
  <2>3. loan \in 0 .. MaxSeq
    BY <1>1, <2>2 DEF Seqs
  <2>4. x = 0 \/ (x \in DOMAIN whc.node /\ x > loan)
    BY <1>12, <2>3
  <2>5. x = 0 \/ (x \in DOMAIN whc.node /\ x # loan)
    BY <1>1, <2>3, <2>4 DEF Seqs
  <2> HIDE DEF x
  <2>6. QED
    BY <1>0, <2>1, <2>2, <2>5, LoansReturn
<1>15. ASSUME NEW S \in SUBSET Seqs, SampleExpired(S) PROVE Loans' /\ ContentsFreedOnce'
  <2>1. DOMAIN whc'.node = DOMAIN whc.node \ S
    BY <1>0, <1>15, InvExpired
  <2>2. ~freed /\ S \subseteq DOMAIN whc.node /\ frees' = FreedBy(S) /\ written' = written /\ UNCHANGED <<loan, iter, freed>>
    BY <1>15 DEF SampleExpired, Present
  <2>3. S = DOMAIN whc.node \ DOMAIN whc'.node /\ DOMAIN whc'.node \subseteq DOMAIN whc.node
    BY <2>1, <2>2
  <2>4. QED
    BY <1>0, <2>2, <2>3, LoansGone
<1>16. ASSUME Free PROVE Loans' /\ ContentsFreedOnce'
  BY <1>0, <1>16, LoansFree
<1>17. CASE Next
  BY <1>2, <1>3, <1>4, <1>6, <1>7, <1>8, <1>9, <1>10, <1>11, <1>13, <1>14, <1>15, <1>16, <1>17 DEF Next
<1>18. CASE UNCHANGED vars
  BY <1>0, <1>18, LoansSame DEF vars
<1>19. QED
  BY <1>17, <1>18

\* At first nothing was written.
LEMMA LoansInit == ASSUME Init PROVE Loans /\ ContentsFreedOnce
<1>1. DOMAIN NoIdx = {}
  BY DEF NoIdx
<1>2. loan = 0 /\ iter = FALSE /\ freed = FALSE /\ frees = [s \in Seqs |-> 0] /\ written = NoIdx
  BY DEF Init
<1>3. QED
  BY <1>1, <1>2 DEF Loans, ContentsFreedOnce

-----------------------------------------------------------------------------
(* The transient-local history is bounded *)

\* The slots of instance k that are taken are younger than td.
Young(w, d, td, k) == \A p \in 0 .. d - 1 : w.idx[k].hist[p] # 0 => AgeAt(w.idx[k], p, d) < td

\* The acknowledged samples of an instance are then at most td, since each has an age of its own.
LEMMA FewKept ==
  ASSUME NEW d \in Nat, NEW td \in Nat, d > 0, NEW w, Good(w, d), NEW W, DOMAIN w.node \subseteq DOMAIN W, Ages(w, d, W),
         InIndex(w, W), NEW k, k \in DOMAIN w.idx => Young(w, d, td, k)
  PROVE  Cardinality(KeptOf(w, W, k)) <= td
<1> DEFINE S == KeptOf(w, W, k)
           T == 0 .. td - 1
           f == [x \in S |-> AgeAt(w.idx[k], w.node[x].pos, d)]
<1>1. ASSUME NEW x \in S
      PROVE  /\ k \in DOMAIN w.idx /\ w.node[x].pos \in 0 .. d - 1 /\ w.idx[k].hist[w.node[x].pos] = x /\ x # 0
  <2>1. x \in DOMAIN w.node /\ W[x].key = k /\ w.node[x].inst # NoInst
    BY DEF KeptOf, InIndex
  <2> DEFINE j == w.node[x].inst
             p == w.node[x].pos
  <2>2. j \in DOMAIN w.idx /\ p \in 0 .. d - 1 /\ w.idx[j].hist[p] = x /\ Slot(w, d, W, j, p, x)
    BY <2>1, IndexedIs
  <2>3. j = k /\ x # 0
    BY <2>1, <2>2 DEF Slot
  <2>4. QED
    BY <2>2, <2>3
<1>2. k \in DOMAIN w.idx => w.idx[k].head \in 0 .. d - 1
  BY DEF Good, Linked
<1>3. ASSUME NEW x \in S PROVE f[x] \in T /\ f[x] = AgeAt(w.idx[k], w.node[x].pos, d)
  <2>1. AgeAt(w.idx[k], w.node[x].pos, d) \in 0 .. d - 1
    BY <1>1, <1>2, AgeRange
  <2>2. AgeAt(w.idx[k], w.node[x].pos, d) < td
    BY <1>1 DEF Young
  <2>3. QED
    BY <2>1, <2>2
<1>4. f \in [S -> T]
  BY <1>3
<1>5. \A x, y \in S : f[x] = f[y] => x = y
  <2>1. SUFFICES ASSUME NEW x \in S, NEW y \in S, f[x] = f[y] PROVE x = y
    OBVIOUS
  <2>2. w.node[x].pos = w.node[y].pos
    BY <1>1, <1>2, <1>3, <2>1, AgeOnce
  <2>3. QED
    BY <1>1, <2>2
<1>6. IsFiniteSet(T) /\ Cardinality(T) = td
  BY FS_Interval
<1>7. IsFiniteSet(S)
  <2>1. IsFiniteSet(DOMAIN w.node)
    BY CacheFields DEF Good
  <2>2. S \in SUBSET (DOMAIN w.node)
    BY DEF KeptOf
  <2>3. QED
    BY <2>1, <2>2, FS_Subset
<1> HIDE DEF S, T, f
<1>8. Cardinality(S) \in Nat
  BY <1>7, FS_CardinalityType
<1>9. ~(Cardinality(T) < Cardinality(S))
  BY <1>4, <1>5, <1>6, <1>7, FS_PigeonHole
<1>10. Cardinality(S) <= td
  BY <1>6, <1>8, <1>9
<1>11. QED
  BY <1>10 DEF S

\* Fewer are kept.
LEMMA FewerKept ==
  ASSUME NEW d, NEW w, Good(w, d), NEW td \in Nat, NEW W, NEW k, Cardinality(KeptOf(w, W, k)) <= td,
         NEW T \in SUBSET KeptOf(w, W, k)
  PROVE  Cardinality(T) <= td
<1>1. IsFiniteSet(DOMAIN w.node)
  BY CacheFields DEF Good
<1>2. KeptOf(w, W, k) \in SUBSET (DOMAIN w.node)
  BY DEF KeptOf
<1>3. IsFiniteSet(KeptOf(w, W, k))
  BY <1>1, <1>2, FS_Subset
<1>4. IsFiniteSet(T) /\ Cardinality(T) <= Cardinality(KeptOf(w, W, k))
  BY <1>3, FS_Subset
<1>5. Cardinality(T) \in Nat /\ Cardinality(KeptOf(w, W, k)) \in Nat
  BY <1>3, <1>4, FS_CardinalityType
<1>6. QED
  BY <1>4, <1>5

\* The age of the head is 0.
LEMMA HeadAge ==
  ASSUME NEW d \in Nat, NEW x, x.head \in 0 .. d - 1 PROVE AgeAt(x, x.head, d) = 0
  BY DEF AgeAt

\* Removing the acknowledged samples keeps the history bounded.
LEMMA RemovalBounded ==
  ASSUME qos \in QosType, qos.tl, TLDepth > 0, NEW w, Good(w, IdxDepth), NEW W, Hist(w, IdxDepth, W, {}), Bnd(w, W),
         NEW v, NEW K, NEW S, NEW m, Removal(w, v, K, S, IdxDepth), Chosen1(w, v, K, S, m), Chosen2(w, v, K, IdxDepth)
  PROVE  Bnd(v, W)
<1> DEFINE d == IdxDepth
           td == TLDepth
<1>0. d \in Nat /\ td \in Nat /\ td > 0 /\ d > 0
  BY Depths
<1>1. /\ Good(v, d) /\ DOMAIN v.node = DOMAIN w.node \ S /\ K \subseteq DOMAIN w.node
      /\ \A t \in DOMAIN v.node : /\ v.node[t].inst = w.node[t].inst /\ v.node[t].exp = w.node[t].exp
                                  /\ v.node[t].unacked = (w.node[t].unacked /\ t \notin K)
      /\ IdxWithout(w, v, S, d)
  BY DEF Removal, Same
<1>2. /\ \A s \in S : ~InTlidx(w, s)
      /\ \A s \in K : /\ InTlidx(w, s)
                      /\ \A p \in 0 .. d - 1 : v.idx[w.node[s].inst].hist[p] # 0 => AgeAt(w.idx[w.node[s].inst], p, d) < td
  BY <1>0 DEF Chosen1, Chosen2
<1>3. Shrunk(w, v, S, d)
  BY RemovalShrinks
<1>4. /\ InIndex(w, W) /\ Limited(w, td, W)
      /\ d > td => Waiting(w, d, td) /\ (qos.lifespan => ExpInIndex(w))
  BY DEF Bnd
<1>5. Hist(v, d, W, {}) /\ DOMAIN w.node \subseteq DOMAIN W /\ Ages(w, d, W)
  <2>1. Hist(v, d, W, {})
    BY <1>3, HistShrunk
  <2>2. QED
    BY <2>1 DEF Hist
<1>6. \A s \in K : w.node[s].inst # NoInst
  BY <1>2 DEF InTlidx
<1>7. InIndex(v, W)
  <2>1. SUFFICES ASSUME NEW t \in DOMAIN v.node, W[t].kind # "empty", ~v.node[t].unacked PROVE v.node[t].inst # NoInst
    BY DEF InIndex
  <2>2. t \in DOMAIN w.node /\ v.node[t].inst = w.node[t].inst /\ (~w.node[t].unacked \/ t \in K)
    BY <1>1, <2>1
  <2>3. QED
    BY <1>4, <1>6, <2>1, <2>2 DEF InIndex
<1>8. d > td /\ qos.lifespan => ExpInIndex(v)
  BY <1>1, <1>4 DEF ExpInIndex
<1>9. ASSUME NEW k \in DOMAIN v.idx, NEW s \in K, w.node[s].inst = k PROVE Young(v, d, td, k)
  <2>1. SUFFICES ASSUME NEW p \in 0 .. d - 1, v.idx[k].hist[p] # 0 PROVE AgeAt(v.idx[k], p, d) < td
    BY DEF Young
  <2>2. AgeAt(w.idx[k], p, d) < td
    BY <1>2, <1>9, <2>1
  <2>3. AgeAt(v.idx[k], p, d) = AgeAt(w.idx[k], p, d)
    BY <1>3, SlotBefore
  <2>4. QED
    BY <2>2, <2>3
<1>10. ASSUME d > td PROVE Waiting(v, d, td)
  <2>1. SUFFICES ASSUME NEW k \in DOMAIN v.idx, NEW p \in 0 .. d - 1, v.idx[k].hist[p] # 0
                 PROVE  LET h == v.idx[k].hist[v.idx[k].head]
                        IN h # 0 /\ (AgeAt(v.idx[k], p, d) >= td => v.node[h].unacked)
    BY DEF Waiting
  <2> DEFINE o == w.idx[k].head
             h == w.idx[k].hist[o]
  <2>2. /\ k \in DOMAIN w.idx /\ v.idx[k].head = o /\ AgeAt(v.idx[k], p, d) = AgeAt(w.idx[k], p, d)
        /\ v.idx[k].hist[p] = w.idx[k].hist[p]
    BY <1>3, <2>1, SlotBefore
  <2>3. o \in 0 .. d - 1
    BY <1>0, <2>2 DEF Good, Linked
  <2>4. h # 0 /\ (AgeAt(w.idx[k], p, d) >= td => w.node[h].unacked)
    BY <1>4, <1>10, <2>1, <2>2 DEF Waiting
  <2>5. h \in DOMAIN w.node /\ w.node[h].inst = k /\ w.node[h].pos = o
    <3>1. k \in DOMAIN w.idx /\ h # 0
      BY <2>2, <2>4
    <3>2. QED
      BY <2>3, <3>1, SlotNode
  <2>6. AgeAt(w.idx[k], o, d) = 0
    BY <1>0, <2>3, HeadAge
  <2>7. k # NoInst
    BY <2>2, CacheFields, WhcAssumption DEF Good
  <2>8. InTlidx(w, h)
    BY <1>0, <2>5, <2>6, <2>7, InTlidxIs
  <2>9. h \notin S
    BY <1>2, <2>8
  <2>10. v.idx[k].hist[o] = h
    BY <1>1, <2>2, <2>3, <2>9 DEF IdxWithout
  <2>11. h \in DOMAIN v.node
    BY <1>1, <2>5, <2>9
  <2>12. ASSUME AgeAt(w.idx[k], p, d) >= td PROVE v.node[h].unacked
    <3>1. AgeAt(w.idx[k], p, d) \in 0 .. d - 1
      BY <1>0, <2>3, AgeRange
    <3>2. h \notin K
      <4>1. SUFFICES ASSUME h \in K PROVE FALSE
        OBVIOUS
      <4>2. Young(v, d, td, k)
        BY <1>9, <2>5, <4>1
      <4>3. AgeAt(w.idx[k], p, d) < td
        BY <2>1, <2>2, <4>2 DEF Young
      <4>4. QED
        BY <1>0, <2>12, <3>1, <4>3
    <3>3. QED
      BY <1>1, <2>4, <2>11, <2>12, <3>2
  <2> HIDE DEF h, o
  <2>13. QED
    BY <2>2, <2>4, <2>10, <2>12
<1>11. Limited(v, td, W)
  <2>1. SUFFICES ASSUME NEW k \in Keys PROVE Cardinality(KeptOf(v, W, k)) <= td
    BY DEF Limited
  <2>2. CASE \E s \in K : w.node[s].inst = k
    <3>1. k \in DOMAIN v.idx => Young(v, d, td, k)
      BY <1>9, <2>2
    <3>2. DOMAIN v.node \subseteq DOMAIN W /\ Ages(v, d, W)
      BY <1>5 DEF Hist
    <3>3. QED
      BY <1>0, <1>1, <1>7, <3>1, <3>2, FewKept
  <2>3. CASE ~\E s \in K : w.node[s].inst = k
    <3>1. KeptOf(v, W, k) \in SUBSET KeptOf(w, W, k)
      <4>1. SUFFICES ASSUME NEW x \in KeptOf(v, W, k) PROVE x \in KeptOf(w, W, k)
        OBVIOUS
      <4>2. x \in DOMAIN v.node /\ W[x].key = k /\ W[x].kind # "empty" /\ ~v.node[x].unacked
        BY DEF KeptOf
      <4>3. x \in DOMAIN w.node /\ (~w.node[x].unacked \/ x \in K)
        BY <1>1, <4>2
      <4>4. x \notin K
        <5>1. SUFFICES ASSUME x \in K PROVE FALSE
          OBVIOUS
        <5>2. w.node[x].inst # NoInst
          BY <1>6, <5>1
        <5>3. W[x].key = w.node[x].inst
          <6> DEFINE j == w.node[x].inst
                     p == w.node[x].pos
          <6>1. Slot(w, d, W, j, p, x)
            BY <1>5, <4>3, <5>2, IndexedIs
          <6>2. QED
            BY <6>1 DEF Slot
        <5>4. QED
          BY <2>3, <4>2, <5>1, <5>3
      <4>5. QED
        BY <4>2, <4>3, <4>4 DEF KeptOf
    <3>2. Cardinality(KeptOf(w, W, k)) <= td
      BY <1>4 DEF Limited
    <3>3. QED
      BY <1>0, <3>1, <3>2, FewerKept
  <2>4. QED
    BY <2>2, <2>3
<1>12. QED
  BY <1>7, <1>8, <1>10, <1>11 DEF Bnd

\* The slots of instance j are as they were.
SameSlots(w, v, j, d) ==
  /\ j \in DOMAIN w.idx /\ v.idx[j].head = w.idx[j].head
  /\ \A p \in 0 .. d - 1 : v.idx[j].hist[p] = w.idx[j].hist[p]
\* s is the newest of instance k, and the taken slots are young if s is acknowledged.
Headed(v, m, s, k, d) ==
  /\ v.idx[k].hist[v.idx[k].head] = s
  /\ s <= m => Young(v, d, TLDepth, k)
\* What an insertion does to the index.
Took(w, v, m, s, k, kind, d) ==
  /\ \A t \in DOMAIN v.node : t # s => v.node[t].inst = w.node[t].inst \/ (v.node[t].inst = NoInst /\ t > m)
  /\ \A j \in DOMAIN v.idx : SameSlots(w, v, j, d) \/ (j = k /\ Headed(v, m, s, k, d))
  /\ s \in DOMAIN v.node /\ s <= m /\ kind # "empty" => v.node[s].inst = k /\ k \in DOMAIN v.idx /\ Headed(v, m, s, k, d)
  /\ s \in DOMAIN v.node /\ v.node[s].inst # NoInst => kind \in Carries

\* It keeps the history bounded.
LEMMA TookBounded ==
  ASSUME qos \in QosType, qos.tl, TLDepth > 0, NEW w, Good(w, IdxDepth), NEW W, NEW W2, DOMAIN w.node \subseteq DOMAIN W, Bnd(w, W),
         NEW v, NEW m \in Nat, NEW s \in Nat \ {0}, NEW k \in Keys, NEW kind, Extends(W, W2, s, k, kind),
         InsertDone(w, v, m, s, kind, IdxDepth, W2), AckedUpTo(v, m), Took(w, v, m, s, k, kind, IdxDepth),
         IdxDepth > TLDepth /\ qos.lifespan => kind # "dispose"
  PROVE  Bnd(v, W2)
<1> DEFINE d == IdxDepth
           td == TLDepth
<1>0. d \in Nat /\ td \in Nat /\ td > 0 /\ d > 0 /\ k # NoInst
  BY Depths, WhcAssumption
<1>1. /\ InIndex(w, W) /\ Limited(w, td, W)
      /\ d > td => Waiting(w, d, td) /\ (qos.lifespan => ExpInIndex(w))
  BY DEF Bnd
<1>2. Good(v, d) /\ Hist(v, d, W2, {}) /\ Kin(w, v, m, s, kind)
  BY DEF InsertDone
<1>3. /\ DOMAIN v.node \subseteq DOMAIN w.node \cup {s} /\ DOMAIN v.node \subseteq Nat
      /\ \A t \in DOMAIN v.node : t # s => v.node[t].unacked = w.node[t].unacked /\ v.node[t].exp = w.node[t].exp
      /\ s \in DOMAIN v.node => v.node[s].exp = Expires(kind)
  <2>1. DOMAIN v.node \subseteq Nat
    BY <1>2, CacheFields DEF Good, Seqs
  <2>2. QED
    BY <1>2, <2>1 DEF Kin, Weight
<1>4. /\ DOMAIN W \subseteq 1 .. s - 1 /\ \A t \in DOMAIN W : W2[t] = W[t]
      /\ W2[s].key = k /\ W2[s].kind = kind
  BY DEF Extends
<1>5. \A t \in DOMAIN v.node : v.node[t].unacked <=> t > m
  BY DEF AckedUpTo
<1>6. InIndex(v, W2)
  <2>1. SUFFICES ASSUME NEW t \in DOMAIN v.node, W2[t].kind # "empty", ~v.node[t].unacked PROVE v.node[t].inst # NoInst
    BY DEF InIndex
  <2>2. ~(t > m)
    BY <1>5, <2>1
  <2>3. CASE t = s
    <3>1. kind # "empty" /\ s <= m
      BY <1>3, <1>4, <2>1, <2>2, <2>3
    <3>2. QED
      BY <1>0, <2>3, <3>1 DEF Took
  <2>4. CASE t # s
    <3>1. t \in DOMAIN w.node /\ t \in DOMAIN W /\ W2[t] = W[t] /\ ~w.node[t].unacked
      BY <1>3, <1>4, <2>1, <2>4
    <3>2. w.node[t].inst # NoInst
      BY <1>1, <2>1, <3>1 DEF InIndex
    <3>3. v.node[t].inst = w.node[t].inst
      BY <2>2, <2>4 DEF Took
    <3>4. QED
      BY <3>2, <3>3
  <2>5. QED
    BY <2>3, <2>4
<1>7. d > td /\ qos.lifespan => ExpInIndex(v)
  <2>1. SUFFICES ASSUME d > td, qos.lifespan, NEW t \in DOMAIN v.node, v.node[t].inst # NoInst PROVE v.node[t].exp
    BY DEF ExpInIndex
  <2>2. CASE t = s
    <3>1. kind = "data"
      BY <2>1, <2>2 DEF Took, Carries
    <3>2. QED
      BY <1>3, <2>1, <2>2, <3>1 DEF Expires
  <2>3. CASE t # s
    <3>1. t \in DOMAIN w.node /\ v.node[t].exp = w.node[t].exp /\ w.node[t].inst # NoInst
      BY <1>3, <2>1, <2>3 DEF Took
    <3>2. QED
      BY <1>1, <2>1, <3>1 DEF ExpInIndex
  <2>4. QED
    BY <2>2, <2>3
<1>8. ASSUME d > td PROVE Waiting(v, d, td)
  <2>1. SUFFICES ASSUME NEW j \in DOMAIN v.idx, NEW p \in 0 .. d - 1, v.idx[j].hist[p] # 0
                 PROVE  LET h == v.idx[j].hist[v.idx[j].head]
                        IN h # 0 /\ (AgeAt(v.idx[j], p, d) >= td => v.node[h].unacked)
    BY DEF Waiting
  <2> DEFINE o == v.idx[j].head
             h == v.idx[j].hist[o]
  <2>2. o \in 0 .. d - 1
    BY <1>0, <1>2 DEF Good, Linked
  <2>3. AgeAt(v.idx[j], p, d) \in 0 .. d - 1
    BY <1>0, <2>2, AgeRange
  <2>4. CASE j = k /\ Headed(v, m, s, k, d)
    <3>1. h = s /\ h # 0
      BY <2>4 DEF Headed
    <3>2. s \in DOMAIN v.node
      BY <1>2, <2>2, <3>1, SlotNode
    <3>3. ASSUME AgeAt(v.idx[j], p, d) >= td PROVE v.node[h].unacked
      <4>1. ~(s <= m)
        <5>1. SUFFICES ASSUME s <= m PROVE FALSE
          OBVIOUS
        <5>2. AgeAt(v.idx[j], p, d) < td
          BY <2>1, <2>4, <5>1 DEF Headed, Young
        <5>3. QED
          BY <1>0, <2>3, <3>3, <5>2
      <4>2. s > m
        BY <4>1
      <4>3. QED
        BY <1>5, <3>1, <3>2, <4>2
    <3> HIDE DEF h, o
    <3>4. QED
      BY <3>1, <3>3 DEF h, o
  <2>5. CASE SameSlots(w, v, j, d)
    <3>1. /\ j \in DOMAIN w.idx /\ w.idx[j].head = o /\ w.idx[j].hist[p] # 0 /\ h = w.idx[j].hist[o]
      BY <2>1, <2>2, <2>5 DEF SameSlots
    <3>2. AgeAt(v.idx[j], p, d) = AgeAt(w.idx[j], p, d)
      BY <3>1 DEF AgeAt
    <3>3. h # 0 /\ (AgeAt(w.idx[j], p, d) >= td => w.node[h].unacked)
      BY <1>1, <1>8, <3>1 DEF Waiting
    <3>4. h \in DOMAIN v.node
      BY <1>2, <2>2, <3>3, SlotNode
    <3>5. h \in DOMAIN w.node
      <4>1. w.idx[j].hist[o] # 0
        BY <3>1, <3>3
      <4>2. w.idx[j].hist[o] \in DOMAIN w.node
        BY <2>2, <3>1, <4>1, SlotNode
      <4>3. QED
        BY <3>1, <4>2
    <3>6. h # s
      BY <1>4, <3>5
    <3>7. v.node[h].unacked = w.node[h].unacked
      BY <1>3, <3>4, <3>6
    <3> HIDE DEF h
    <3>8. QED
      BY <3>2, <3>3, <3>7 DEF h
  <2>6. QED
    BY <2>4, <2>5 DEF Took
<1>9. Limited(v, td, W2)
  <2>1. SUFFICES ASSUME NEW j \in Keys PROVE Cardinality(KeptOf(v, W2, j)) <= td
    BY DEF Limited
  <2>2. CASE s \in KeptOf(v, W2, j)
    <3>1. s \in DOMAIN v.node /\ W2[s].key = j /\ W2[s].kind # "empty" /\ ~v.node[s].unacked
      BY <2>2 DEF KeptOf
    <3>2. j = k /\ kind # "empty" /\ s <= m
      <4>1. ~(s > m)
        BY <1>5, <3>1
      <4>2. QED
        BY <1>4, <3>1, <4>1
    <3>3. Young(v, d, td, j)
      BY <3>1, <3>2 DEF Took, Headed
    <3>4. DOMAIN v.node \subseteq DOMAIN W2 /\ Ages(v, d, W2)
      BY <1>2 DEF Hist
    <3>5. QED
      BY <1>0, <1>2, <1>6, <3>3, <3>4, FewKept
  <2>3. CASE s \notin KeptOf(v, W2, j)
    <3>1. KeptOf(v, W2, j) \in SUBSET KeptOf(w, W, j)
      <4>1. SUFFICES ASSUME NEW x \in KeptOf(v, W2, j) PROVE x \in KeptOf(w, W, j)
        OBVIOUS
      <4>2. x \in DOMAIN v.node /\ W2[x].key = j /\ W2[x].kind # "empty" /\ ~v.node[x].unacked /\ x # s
        BY <2>3 DEF KeptOf
      <4>3. x \in DOMAIN w.node /\ x \in DOMAIN W /\ W2[x] = W[x] /\ ~w.node[x].unacked
        BY <1>3, <1>4, <4>2
      <4>4. QED
        BY <4>2, <4>3 DEF KeptOf
    <3>2. Cardinality(KeptOf(w, W, j)) <= td
      BY <1>1 DEF Limited
    <3>3. QED
      BY <1>0, <3>1, <3>2, FewerKept
  <2>4. QED
    BY <2>2, <2>3
<1>10. QED
  BY <1>6, <1>7, <1>8, <1>9 DEF Bnd

\* The cases of whc_default_insert: a sample without an instance.
LEMMA TookPlain ==
  ASSUME NEW d \in Nat \ {0}, NEW w, Good(w, d), NEW a, NEW m, NEW s \in Nat, NEW k, NEW kind \in AllKinds,
         Inserted(w, a, m, s, kind, d), PlainCase(a, a, k, kind, d)
  PROVE  Took(w, a, m, s, k, kind, d)
<1>1. /\ DOMAIN a.node = DOMAIN w.node \cup {s} /\ \A t \in DOMAIN w.node : a.node[t] = w.node[t]
      /\ a.node[s].inst = NoInst /\ a.idx = w.idx
  BY DEF Inserted
<1>2. kind = "empty"
  BY DEF PlainCase, AllKinds, Carries
<1>3. \A j \in DOMAIN a.idx : SameSlots(w, a, j, d)
  BY <1>1 DEF SameSlots
<1>4. QED
  BY <1>1, <1>2, <1>3 DEF Took

\* A new instance.
LEMMA TookNew ==
  ASSUME NEW d \in Nat \ {0}, TLDepth \in Nat, TLDepth > 0, NEW w, Good(w, d), NEW a, NEW m, NEW s \in Nat \ {0}, NEW k, NEW kind \in Carries,
         Inserted(w, a, m, s, kind, d), k \notin DOMAIN a.idx, NEW b, NEW v, Started(a, b, v, s, k, d)
  PROVE  Took(w, v, m, s, k, kind, d)
<1>1. /\ DOMAIN a.node = DOMAIN w.node \cup {s} /\ \A t \in DOMAIN w.node : a.node[t] = w.node[t]
      /\ a.idx = w.idx
  BY DEF Inserted
<1>2. Fresh(a, b, k, d) /\ Reindexed(b, v, s, k, 0, 0, d)
  BY DEF Started
<1>3. /\ b.node = a.node /\ DOMAIN b.idx = DOMAIN a.idx \cup {k} /\ \A j \in DOMAIN a.idx : b.idx[j] = a.idx[j]
      /\ \A q \in 0 .. d - 1 : b.idx[k].hist[q] = 0
  BY <1>2 DEF Fresh
<1>4. /\ Good(v, d) /\ DOMAIN v.node = DOMAIN b.node /\ v.node[s].inst = k
      /\ \A t \in DOMAIN b.node : t # s /\ t # 0 => v.node[t] = b.node[t]
      /\ DOMAIN v.idx = DOMAIN b.idx /\ \A j \in DOMAIN b.idx : j # k => v.idx[j] = b.idx[j]
      /\ v.idx[k].head = 0
      /\ \A q \in 0 .. d - 1 : v.idx[k].hist[q] = IF q = 0 THEN s ELSE b.idx[k].hist[q]
  BY <1>2 DEF Reindexed, OnlyIndex
<1>5. 0 \notin DOMAIN w.node
  BY CacheFields DEF Good, Seqs
<1>6. \A t \in DOMAIN v.node : t # s => v.node[t].inst = w.node[t].inst
  BY <1>1, <1>3, <1>4, <1>5
<1>7. 0 \in 0 .. d - 1
  OBVIOUS
<1>8. AgeAt(v.idx[k], 0, d) = 0
  BY <1>4 DEF AgeAt
<1>9. Young(v, d, TLDepth, k)
  BY <1>3, <1>4, <1>8 DEF Young
<1>10. Headed(v, m, s, k, d)
  BY <1>4, <1>7, <1>9 DEF Headed
<1>11. \A j \in DOMAIN v.idx : SameSlots(w, v, j, d) \/ (j = k /\ Headed(v, m, s, k, d))
  <2>1. SUFFICES ASSUME NEW j \in DOMAIN v.idx, j # k PROVE SameSlots(w, v, j, d)
    BY <1>10
  <2>2. j \in DOMAIN w.idx /\ v.idx[j] = w.idx[j]
    BY <1>1, <1>3, <1>4, <2>1
  <2>3. QED
    BY <2>2 DEF SameSlots
<1>12. QED
  BY <1>3, <1>4, <1>6, <1>10, <1>11 DEF Took

\* A later sample of an instance.
LEMMA TookKnown ==
  ASSUME qos \in QosType, qos.tl, TLDepth > 0, NEW w, Good(w, IdxDepth), IdxDepth > TLDepth => Waiting(w, IdxDepth, TLDepth), NEW a, NEW m \in Nat, AckedUpTo(w, m),
         NEW s \in Nat \ {0}, \A t \in DOMAIN w.node : t < s, NEW k, NEW kind \in Carries,
         Inserted(w, a, m, s, kind, IdxDepth), k \in DOMAIN a.idx,
         NEW b, NEW v, NEW p, NEW old, NEW D, Replaces(a, b, v, p, old, D, m, s, k, IdxDepth)
  PROVE  Took(w, v, m, s, k, kind, IdxDepth)
<1> DEFINE d == IdxDepth
           td == TLDepth
<1>0. d \in Nat \ {0} /\ td \in Nat /\ td > 0 /\ td <= d
  BY Depths
<1>1. /\ DOMAIN a.node = DOMAIN w.node \cup {s} /\ (\A t \in DOMAIN w.node : a.node[t] = w.node[t])
      /\ a.idx = w.idx /\ Good(a, d) /\ a.node[s].inst = NoInst
  BY DEF Inserted
<1>2. /\ SlotAfter(a.idx[k], p, d) /\ p \in 0 .. d - 1 /\ old = a.idx[k].hist[p]
      /\ Reindexed(a, b, s, k, p, old, d) /\ Victims(b, D, m, s, k, old, d) /\ Deleted(b, v, D, d)
  BY DEF Replaces
<1>3. /\ Good(b, d) /\ DOMAIN b.node = DOMAIN a.node /\ b.node[s].inst = k
      /\ (\A t \in DOMAIN a.node : t # s /\ t # old => b.node[t] = a.node[t])
      /\ (old # 0 => b.node[old].inst = NoInst)
      /\ DOMAIN b.idx = DOMAIN a.idx /\ (\A j \in DOMAIN a.idx : j # k => b.idx[j] = a.idx[j])
      /\ b.idx[k].head = p
      /\ \A q \in 0 .. d - 1 : b.idx[k].hist[q] = IF q = p THEN s ELSE a.idx[k].hist[q]
  BY <1>2 DEF Reindexed, OnlyIndex
<1>4. /\ D \in SUBSET (DOMAIN b.node) /\ s \notin D
      /\ (\A x \in D : Old(m, old, x) \/ (Beyond(m, s, d) /\ AtDepth(b, k, d, x)))
      /\ (\A x : Old(m, old, x) => x \in D)
      /\ (Beyond(m, s, d) => \A x : AtDepth(b, k, d, x) => x \in D)
  BY <1>2 DEF Victims
<1>5. /\ Good(v, d) /\ DOMAIN v.node = DOMAIN b.node \ D /\ (\A t \in DOMAIN v.node : v.node[t] = b.node[t])
      /\ DOMAIN v.idx = DOMAIN b.idx
      /\ \A j \in DOMAIN b.idx :
           /\ v.idx[j].head = b.idx[j].head
           /\ \A q \in 0 .. d - 1 : v.idx[j].hist[q] = IF b.idx[j].hist[q] \in D THEN 0 ELSE b.idx[j].hist[q]
  BY <1>2 DEF Deleted, IdxWithout
<1>6. DOMAIN w.node \subseteq Nat /\ 0 \notin DOMAIN w.node /\ 0 \notin DOMAIN a.node /\ s \notin DOMAIN w.node
  <2>1. DOMAIN w.node \subseteq Nat /\ 0 \notin DOMAIN w.node
    BY CacheFields DEF Good, Seqs
  <2>2. QED
    BY <1>1, <2>1
<1>7. \A t \in DOMAIN v.node : t # s => v.node[t].inst = w.node[t].inst \/ (v.node[t].inst = NoInst /\ t > m)
  <2>1. SUFFICES ASSUME NEW t \in DOMAIN v.node, t # s
                 PROVE v.node[t].inst = w.node[t].inst \/ (v.node[t].inst = NoInst /\ t > m)
    OBVIOUS
  <2>2. t \in DOMAIN w.node /\ t \in DOMAIN a.node /\ v.node[t] = b.node[t] /\ t \notin D /\ t # 0
    BY <1>1, <1>3, <1>5, <1>6, <2>1
  <2>3. CASE t # old
    BY <1>1, <1>3, <2>1, <2>2, <2>3
  <2>4. CASE t = old
    <3>1. v.node[t].inst = NoInst
      BY <1>3, <2>2, <2>4
    <3>2. ~Old(m, old, t)
      BY <1>4, <2>2
    <3>3. ~(old <= m)
      BY <2>2, <2>4, <3>2 DEF Old, MayOverwrite
    <3>4. t > m
      BY <1>6, <2>2, <2>4, <3>3
    <3>5. QED
      BY <3>1, <3>4
  <2>5. QED
    BY <2>3, <2>4
<1>8. ASSUME NEW j \in DOMAIN v.idx, j # k PROVE SameSlots(w, v, j, d)
  <2>1. j \in DOMAIN a.idx /\ j \in DOMAIN b.idx /\ b.idx[j] = a.idx[j] /\ a.idx[j] = w.idx[j] /\ j \in DOMAIN w.idx
    BY <1>1, <1>3, <1>5, <1>8
  <2>2. ASSUME NEW q \in 0 .. d - 1 PROVE b.idx[j].hist[q] \notin D
    <3>1. SUFFICES ASSUME b.idx[j].hist[q] \in D PROVE FALSE
      OBVIOUS
    <3> DEFINE x == b.idx[j].hist[q]
    <3>2. x # 0
      BY <1>1, <1>3, <1>4, <1>6, <3>1
    <3>3. b.node[x].inst = j /\ j # NoInst
      <4>1. b.node[x].inst = j
        BY <1>3, <2>1, <3>2, SlotNode
      <4>2. j \in Keys
        BY <1>3, <2>1, CacheFields DEF Good
      <4>3. QED
        BY <4>1, <4>2, WhcAssumption
    <3>4. CASE Old(m, old, x)
      BY <1>3, <3>3, <3>4 DEF Old
    <3>5. CASE AtDepth(b, k, d, x)
      <4>1. PICK r \in 0 .. d - 1 : x = b.idx[k].hist[r]
        BY <3>5 DEF AtDepth
      <4>2. b.node[x].inst = k
        BY <1>1, <1>3, <3>2, <4>1, SlotNode
      <4>3. QED
        BY <1>8, <3>3, <4>2
    <3>6. QED
      BY <1>4, <3>1, <3>4, <3>5
  <2>3. v.idx[j].head = w.idx[j].head
    BY <1>5, <2>1
  <2>4. \A q \in 0 .. d - 1 : v.idx[j].hist[q] = w.idx[j].hist[q]
    BY <1>5, <2>1, <2>2
  <2>5. QED
    BY <2>1, <2>3, <2>4 DEF SameSlots
<1>9. v.idx[k].head = p /\ v.idx[k].hist[p] = s /\ k \in DOMAIN b.idx /\ k \in DOMAIN v.idx /\ k \in DOMAIN w.idx
  <2>1. k \in DOMAIN b.idx /\ k \in DOMAIN v.idx /\ k \in DOMAIN w.idx
    BY <1>1, <1>3, <1>5
  <2>2. b.idx[k].hist[p] = s /\ b.idx[k].head = p
    BY <1>2, <1>3
  <2>3. v.idx[k].head = p
    BY <1>5, <2>1, <2>2
  <2>4. v.idx[k].hist[p] = IF b.idx[k].hist[p] \in D THEN 0 ELSE b.idx[k].hist[p]
    BY <1>2, <1>5, <2>1
  <2>5. v.idx[k].hist[p] = s
    BY <1>4, <2>2, <2>4
  <2>6. QED
    BY <2>1, <2>3, <2>5
<1>10. a.idx[k].head \in 0 .. d - 1
  <2>1. Linked(a, d) /\ d > 0
    BY <1>0, <1>1 DEF Good
  <2>2. QED
    BY <2>1, HeadIn
<1>11. AgeAt(v.idx[k], p, d) = 0
  BY <1>0, <1>2, <1>9, HeadAge
<1>12. ASSUME s <= m, NEW q \in 0 .. d - 1, v.idx[k].hist[q] # 0 PROVE AgeAt(v.idx[k], q, d) < td
  <2>1. CASE q = p
    BY <1>0, <1>11, <2>1
  <2>2. CASE q # p
    <3> DEFINE x == b.idx[k].hist[q]
    <3>1. v.idx[k].hist[q] = x /\ x \notin D /\ x # 0 /\ x = a.idx[k].hist[q] /\ a.idx[k].hist[q] # 0
      BY <1>3, <1>5, <1>9, <1>12, <2>2
    <3>2. AgeAt(v.idx[k], q, d) = AgeAt(b.idx[k], q, d)
      BY <1>5, <1>9 DEF AgeAt
    <3>3. SlotAfter(a.idx[k], b.idx[k].head, d) /\ q # b.idx[k].head
      BY <1>2, <1>3, <2>2
    <3>4. AgeAt(b.idx[k], q, d) = AgeAt(a.idx[k], q, d) + 1
      BY <1>0, <1>10, <3>3, AgeMoves
    <3>5. ASSUME d > td PROVE AgeAt(a.idx[k], q, d) < td
      <4> DEFINE h == w.idx[k].hist[w.idx[k].head]
      <4>1. h # 0 /\ (AgeAt(w.idx[k], q, d) >= td => w.node[h].unacked)
        BY <1>1, <1>9, <3>1, <3>5 DEF Waiting
      <4>2. h \in DOMAIN w.node
        BY <1>1, <1>9, <1>10, <4>1, SlotNode
      <4>3. ~w.node[h].unacked
        <5>1. h \in Nat /\ h < s
          BY <1>6, <4>2
        <5>2. ~(h > m)
          BY <1>12, <5>1
        <5>3. QED
          BY <4>2, <5>2 DEF AckedUpTo
      <4>4. AgeAt(w.idx[k], q, d) \in 0 .. d - 1
        BY <1>0, <1>1, <1>10, AgeRange
      <4>5. ~(AgeAt(w.idx[k], q, d) >= td)
        BY <4>1, <4>3
      <4>6. QED
        BY <1>0, <1>1, <4>4, <4>5
    <3>6. AgeAt(a.idx[k], q, d) \in 0 .. d - 1 /\ AgeAt(b.idx[k], q, d) \in 0 .. d - 1
      <4>1. b.idx[k].head \in 0 .. d - 1
        BY <1>2, <1>3
      <4>2. QED
        BY <1>0, <1>10, <4>1, AgeRange
    <3>7. AgeAt(b.idx[k], q, d) # td
      <4>1. SUFFICES ASSUME AgeAt(b.idx[k], q, d) = td PROVE FALSE
        OBVIOUS
      <4>2. d > td
        BY <1>0, <3>6, <4>1
      <4>3. Beyond(m, s, d)
        BY <1>0, <1>12, <4>2 DEF Beyond
      <4>4. AtDepth(b, k, d, x)
        BY <3>1, <4>1 DEF AtDepth
      <4>5. QED
        BY <1>4, <3>1, <4>3, <4>4
    <3>8. QED
      BY <1>0, <3>2, <3>4, <3>5, <3>6, <3>7
  <2>3. QED
    BY <2>1, <2>2
<1>13. Headed(v, m, s, k, d)
  BY <1>9, <1>12 DEF Headed, Young
<1>14. s \in DOMAIN v.node => v.node[s].inst = k
  BY <1>3, <1>5
<1>15. QED
  BY <1>7, <1>8, <1>9, <1>13, <1>14 DEF Took

\* An unregister.
LEMMA TookUnregister ==
  ASSUME NEW d \in Nat \ {0}, NEW w, Good(w, d), NEW a, NEW m \in Nat, NEW s \in Nat \ {0}, NEW k, NEW kind, NEW c, NEW v, NEW D,
         Inserted(w, a, m, s, kind, d), Cleared(a, c, m, k, d), Dropped(c, v, s, D, d), D = IF s <= m THEN {s} ELSE {}
  PROVE  Took(w, v, m, s, k, kind, d)
<1>1. /\ DOMAIN a.node = DOMAIN w.node \cup {s} /\ (\A t \in DOMAIN w.node : a.node[t] = w.node[t])
      /\ a.idx = w.idx /\ Good(a, d) /\ a.node[s].inst = NoInst /\ s \notin DOMAIN w.node
  BY DEF Inserted
<1>2. /\ DOMAIN v.node = DOMAIN c.node \ D /\ (\A t \in DOMAIN v.node : v.node[t] = c.node[t]) /\ IdxWithout(c, v, D, d)
  BY DEF Dropped
<1>3. DOMAIN w.node \subseteq Nat /\ 0 \notin DOMAIN w.node /\ NoInst \notin DOMAIN w.idx
  BY CacheFields, WhcAssumption DEF Good, Seqs
<1>4. /\ DOMAIN c.node \subseteq DOMAIN a.node
      /\ (\A t \in DOMAIN c.node : c.node[t].inst = a.node[t].inst \/ (c.node[t].inst = NoInst /\ t > m))
      /\ \A j \in DOMAIN c.idx : SameSlots(a, c, j, d)
  <2>1. CASE k \in DOMAIN a.idx
    <3> DEFINE S == {t \in DOMAIN a.node : a.node[t].inst = k}
               X == {t \in S : t <= m}
    <3>1. PICK u : Unlisted(a, u, k, S, d) /\ Deleted(u, c, X, d)
      BY <2>1 DEF Cleared
    <3>2. /\ DOMAIN u.node = DOMAIN a.node
          /\ (\A t \in DOMAIN a.node : (t \in S => u.node[t].inst = NoInst) /\ (t \notin S => u.node[t] = a.node[t]))
          /\ DOMAIN u.idx = DOMAIN a.idx \ {k} /\ (\A j \in DOMAIN u.idx : u.idx[j] = a.idx[j])
      BY <3>1 DEF Unlisted, OnlyIndex
    <3>3. /\ DOMAIN c.node = DOMAIN u.node \ X /\ (\A t \in DOMAIN c.node : c.node[t] = u.node[t]) /\ IdxWithout(u, c, X, d)
      BY <3>1 DEF Deleted
    <3>4. \A t \in DOMAIN c.node : c.node[t].inst = a.node[t].inst \/ (c.node[t].inst = NoInst /\ t > m)
      <4>1. SUFFICES ASSUME NEW t \in DOMAIN c.node PROVE c.node[t].inst = a.node[t].inst \/ (c.node[t].inst = NoInst /\ t > m)
        OBVIOUS
      <4>2. t \in DOMAIN a.node /\ t \notin X /\ c.node[t] = u.node[t]
        BY <3>2, <3>3
      <4>3. CASE t \in S
        <5>1. ~(t <= m) /\ t \in Nat
          BY <1>1, <1>3, <4>2, <4>3
        <5>2. t > m
          BY <5>1
        <5>3. QED
          BY <3>2, <4>2, <4>3, <5>2
      <4>4. CASE t \notin S
        BY <3>2, <4>2, <4>4
      <4>5. QED
        BY <4>3, <4>4
    <3>5. ASSUME NEW j \in DOMAIN c.idx PROVE SameSlots(a, c, j, d)
      <4>1. j \in DOMAIN u.idx /\ j \in DOMAIN a.idx /\ j # k /\ u.idx[j] = a.idx[j] /\ c.idx[j].head = u.idx[j].head
        BY <3>2, <3>3 DEF IdxWithout
      <4>2. ASSUME NEW q \in 0 .. d - 1 PROVE c.idx[j].hist[q] = a.idx[j].hist[q]
        <5>1. c.idx[j].hist[q] = IF a.idx[j].hist[q] \in X THEN 0 ELSE a.idx[j].hist[q]
          BY <3>3, <4>1 DEF IdxWithout
        <5>2. a.idx[j].hist[q] \notin X
          <6>1. SUFFICES ASSUME a.idx[j].hist[q] \in X PROVE FALSE
            OBVIOUS
          <6> DEFINE x == a.idx[j].hist[q]
          <6>2. x # 0 /\ a.node[x].inst = k
            BY <1>1, <1>3, <6>1
          <6>3. a.node[x].inst = j
            BY <1>1, <4>1, <6>2, SlotNode
          <6>4. QED
            BY <4>1, <6>2, <6>3
        <5>3. QED
          BY <5>1, <5>2
      <4>3. QED
        BY <4>1, <4>2 DEF SameSlots
    <3>6. DOMAIN c.node \subseteq DOMAIN a.node
      BY <3>2, <3>3
    <3>7. QED
      BY <3>4, <3>5, <3>6
  <2>2. CASE k \notin DOMAIN a.idx
    <3>1. c = a
      BY <2>2 DEF Cleared
    <3>2. QED
      BY <3>1 DEF SameSlots
  <2>3. QED
    BY <2>1, <2>2
<1>5. ASSUME NEW j \in DOMAIN v.idx PROVE SameSlots(w, v, j, d)
  <2>1. j \in DOMAIN c.idx /\ v.idx[j].head = c.idx[j].head
    BY <1>2 DEF IdxWithout
  <2>2. SameSlots(a, c, j, d)
    BY <1>4, <2>1
  <2>3. j \in DOMAIN w.idx /\ c.idx[j].head = w.idx[j].head /\ \A q \in 0 .. d - 1 : c.idx[j].hist[q] = w.idx[j].hist[q]
    BY <1>1, <2>2 DEF SameSlots
  <2>4. ASSUME NEW q \in 0 .. d - 1 PROVE v.idx[j].hist[q] = w.idx[j].hist[q]
    <3>1. v.idx[j].hist[q] = IF w.idx[j].hist[q] \in D THEN 0 ELSE w.idx[j].hist[q]
      BY <1>2, <2>1, <2>3 DEF IdxWithout
    <3>2. w.idx[j].hist[q] \notin D
      <4>1. w.idx[j].hist[q] # 0 => w.idx[j].hist[q] \in DOMAIN w.node
        BY <2>3, SlotNode
      <4>2. QED
        BY <1>1, <4>1
    <3>3. QED
      BY <3>1, <3>2
  <2>5. QED
    BY <2>1, <2>3, <2>4 DEF SameSlots
<1>6. \A t \in DOMAIN v.node : t # s => v.node[t].inst = w.node[t].inst \/ (v.node[t].inst = NoInst /\ t > m)
  BY <1>1, <1>2, <1>4
<1>7. ~(s \in DOMAIN v.node /\ s <= m)
  BY <1>2
<1>8. s \in DOMAIN v.node => v.node[s].inst = NoInst
  BY <1>1, <1>2, <1>4
<1>9. QED
  BY <1>5, <1>6, <1>7, <1>8 DEF Took

\* An insertion keeps the history bounded.
LEMMA InsertBounded ==
  ASSUME qos \in QosType, qos.tl, TLDepth > 0, NEW w, NEW n \in Nat, NEW m0 \in 0 .. n, NEW W, NEW W2, NEW s, NEW k \in Keys,
         NEW kind \in AllKinds, NEW m, InsertIn(w, n, m0, W, W2, s, k, kind, m), NEW v, v = Insert(w, m, s, k, kind),
         Bnd(w, W), IdxDepth > TLDepth /\ qos.lifespan => kind # "dispose"
  PROVE  Bnd(v, W2)
<1> DEFINE d == IdxDepth
           a == InsertSeq(w, m, s, kind)
<1>0. CacheOk(w, n, m0, W) /\ n < MaxSeq /\ s = n + 1 /\ Extends(W, W2, s, k, kind) /\ (m = m0 \/ (m0 = n /\ m = n + 1))
  BY DEF InsertIn
<1>1. a = InsertSeq(w, m, s, kind)
  OBVIOUS
<1> HIDE DEF a
<1>2. d \in Nat \ {0} /\ d \in Nat /\ TLDepth \in Nat
  BY Depths
<1>3. Made(w, a, v, m, s, k, kind, W2)
  BY <1>1, InsertMade
<1>4. /\ s \in Nat \ {0} /\ m \in Nat /\ Shape(w, a, v, m, s, k, kind, d, W2)
      /\ InsertDone(w, v, m, s, kind, d, W2) /\ AckedUpTo(v, m)
  BY <1>3 DEF Made
<1>5. Good(w, d) /\ UpTo(w, n) /\ Hist(w, d, W, {}) /\ DOMAIN w.node \subseteq Nat
  BY <1>0, OkFields
<1>6. AckedUpTo(w, m)
  BY <1>0, AcksNext
<1>7. Inserted(w, a, m, s, kind, d)
  BY <1>0, <1>1, <1>2, <1>4, <1>5, InsertSeqInserts
<1>8. Begun(w, a, m, s, k, kind, d, W2)
  BY <1>4 DEF Shape
<1>9. \A t \in DOMAIN w.node : t < s
  BY <1>0, <1>5 DEF UpTo
<1>10. d > TLDepth => Waiting(w, d, TLDepth)
  BY DEF Bnd
<1>11. Took(w, v, m, s, k, kind, d)
  <2>1. CASE PlainCase(a, v, k, kind, d)
    <3>1. v = a
      BY <2>1 DEF PlainCase
    <3>2. PlainCase(a, a, k, kind, d)
      BY <2>1, <3>1
    <3>3. Took(w, a, m, s, k, kind, d)
      BY <1>2, <1>4, <1>5, <1>7, <3>2, TookPlain
    <3>4. QED
      BY <3>1, <3>3
  <2>2. CASE UnregisterCase(a, v, m, s, k, kind, d)
    <3>1. PICK c : Cleared(a, c, m, k, d) /\ v = DropNew(c, m, s)
      BY <2>2 DEF UnregisterCase
    <3>2. kind = "unregister"
      BY <2>2 DEF UnregisterCase
    <3>3. Good(c, d) /\ Topped(c, s)
      BY <1>2, <1>4, <1>8, <3>1, <3>2, ClearedKeeps
    <3> DEFINE D == IF s <= m THEN {s} ELSE {}
    <3>4. D = IF s <= m THEN {s} ELSE {}
      OBVIOUS
    <3> HIDE DEF D
    <3>5. s \in DOMAIN c.node /\ UpTo(c, s) /\ c.maxseq = s /\ c.open.maxp1 <= s + 1
      BY <3>3 DEF Topped, UpTo
    <3>6. Dropped(c, v, s, D, d)
      BY <1>2, <1>4, <3>1, <3>3, <3>4, <3>5, DropNewDoes
    <3>7. QED
      BY <1>2, <1>4, <1>5, <1>7, <3>1, <3>4, <3>6, TookUnregister
  <2>3. CASE KnownCase(a, v, m, s, k, kind, d)
    <3>1. kind \in Carries /\ k \in DOMAIN a.idx
      BY <2>3 DEF KnownCase
    <3>2. PICK b, p, old, D : Replaces(a, b, v, p, old, D, m, s, k, d)
      BY <2>3 DEF KnownCase
    <3>3. QED
      BY <1>4, <1>5, <1>6, <1>7, <1>9, <1>10, <3>1, <3>2, TookKnown
  <2>4. CASE NewCase(a, v, s, k, kind, d)
    <3>1. kind \in Carries /\ k \notin DOMAIN a.idx
      BY <2>4 DEF NewCase
    <3>2. PICK b : Started(a, b, v, s, k, d)
      BY <2>4 DEF NewCase
    <3>3. QED
      BY <1>2, <1>4, <1>5, <1>7, <3>1, <3>2, TookNew
  <2>5. QED
    BY <1>4, <2>1, <2>2, <2>3, <2>4 DEF Shape
<1>12. DOMAIN w.node \subseteq DOMAIN W
  BY <1>5 DEF Hist
<1>13. QED
  BY <1>0, <1>4, <1>5, <1>11, <1>12, TookBounded

\* So does removing what has been acknowledged.
LEMMA RemoveBounded ==
  ASSUME qos \in QosType, qos.tl, TLDepth > 0, NEW w, NEW n, NEW m0, NEW W, CacheOk(w, n, m0, W),
         NEW m \in Nat, NEW v, v = RemoveAcked(w, m), Bnd(w, W)
  PROVE  Bnd(v, W)
<1>1. Good(w, IdxDepth) /\ UpTo(w, n) /\ Hist(w, IdxDepth, W, {})
  BY OkFields
<1>2. Ordered(w, IdxDepth) /\ IsTop(w, w.maxseq)
  BY <1>1 DEF Hist, UpTo
<1>3. v = RemoveAckedFull(w, m)
  BY DEF RemoveAcked
<1>4. PICK K, S : Removal(w, v, K, S, IdxDepth) /\ Chosen1(w, v, K, S, m) /\ Chosen2(w, v, K, IdxDepth)
  BY <1>1, <1>2, <1>3, FullRemoves
<1>5. QED
  BY <1>1, <1>4, RemovalBounded

\* And the lifespan callback, as long as every sample of the index expires:
\* the older ones of an instance do so first.
LEMMA ExpireBounded ==
  ASSUME qos \in QosType, qos.tl, TLDepth > 0, qos.lifespan, NEW w, Good(w, IdxDepth), NEW W, Hist(w, IdxDepth, W, {}), Bnd(w, W),
         NEW S, NEW u, Deleted(w, u, S, IdxDepth), NEW v, v.node = u.node, v.idx = u.idx,
         \A s \in S : \A t \in DOMAIN w.node : w.node[t].exp /\ t < s => t \in S
  PROVE  Bnd(v, W)
<1> DEFINE d == IdxDepth
           td == TLDepth
<1>0. d \in Nat /\ td \in Nat /\ td > 0 /\ d > 0
  BY Depths
<1>1. InIndex(w, W) /\ Limited(w, td, W) /\ (d > td => Waiting(w, d, td) /\ ExpInIndex(w))
  BY DEF Bnd
<1>2. DOMAIN v.node = DOMAIN w.node \ S /\ \A t \in DOMAIN v.node : v.node[t] = w.node[t]
  BY DEF Deleted
<1>3. Shrunk(w, v, S, d)
  <2>1. Shrunk(w, u, S, d)
    BY DeletedShrinks
  <2>2. QED
    BY <2>1 DEF Shrunk, IdxWithout
<1>4. InIndex(v, W) /\ (d > td => ExpInIndex(v))
  BY <1>1, <1>2 DEF InIndex, ExpInIndex
<1>5. Limited(v, td, W)
  <2>1. SUFFICES ASSUME NEW k \in Keys PROVE Cardinality(KeptOf(v, W, k)) <= td
    BY DEF Limited
  <2>2. KeptOf(v, W, k) \in SUBSET KeptOf(w, W, k)
    BY <1>2 DEF KeptOf
  <2>3. Cardinality(KeptOf(w, W, k)) <= td
    BY <1>1 DEF Limited
  <2>4. QED
    BY <1>0, <2>2, <2>3, FewerKept
<1>6. ASSUME d > td PROVE Waiting(v, d, td)
  <2>1. SUFFICES ASSUME NEW k \in DOMAIN v.idx, NEW p \in 0 .. d - 1, v.idx[k].hist[p] # 0
                 PROVE  LET h == v.idx[k].hist[v.idx[k].head]
                        IN h # 0 /\ (AgeAt(v.idx[k], p, d) >= td => v.node[h].unacked)
    BY DEF Waiting
  <2> DEFINE o == w.idx[k].head
             h == w.idx[k].hist[o]
             x == w.idx[k].hist[p]
  <2>2. /\ k \in DOMAIN w.idx /\ v.idx[k].head = o /\ AgeAt(v.idx[k], p, d) = AgeAt(w.idx[k], p, d)
        /\ x # 0 /\ x \notin S
    BY <1>3, <2>1, SlotBefore
  <2>3. o \in 0 .. d - 1
    BY <1>0, <2>2 DEF Good, Linked
  <2>4. h # 0 /\ (AgeAt(w.idx[k], p, d) >= td => w.node[h].unacked)
    BY <1>1, <1>6, <2>2 DEF Waiting
  <2>5. h \in DOMAIN w.node
    BY <2>2, <2>3, <2>4, SlotNode
  <2>6. x \in DOMAIN w.node /\ w.node[x].inst = k
    BY <2>2, SlotNode
  <2>7. w.node[x].exp
    <3>1. k # NoInst
      BY <2>2, CacheFields, WhcAssumption DEF Good
    <3>2. QED
      BY <1>1, <1>6, <2>6, <3>1 DEF ExpInIndex
  <2>8. h \notin S
    <3>1. SUFFICES ASSUME h \in S PROVE FALSE
      OBVIOUS
    <3>2. p # o
      BY <2>2, <3>1
    <3>3. AgeAt(w.idx[k], o, d) = 0 /\ AgeAt(w.idx[k], p, d) \in 0 .. d - 1
      BY <1>0, <2>3, HeadAge, AgeRange
    <3>4. AgeAt(w.idx[k], p, d) # 0
      BY <1>0, <2>3, <3>2, <3>3, AgeOnce
    <3>5. AgeAt(w.idx[k], p, d) > AgeAt(w.idx[k], o, d)
      BY <1>0, <3>3, <3>4
    <3>6. x < h
      BY <2>2, <2>3, <2>4, <3>5 DEF Hist, Ordered
    <3>7. QED
      BY <2>2, <2>6, <2>7, <3>1, <3>6
  <2>9. v.idx[k].hist[o] = h
    BY <1>3, <2>2, <2>3, <2>8 DEF Shrunk, IdxWithout
  <2>10. h \in DOMAIN v.node /\ v.node[h] = w.node[h]
    BY <1>2, <2>5, <2>8
  <2> HIDE DEF h, o, x
  <2>11. QED
    BY <2>2, <2>4, <2>9, <2>10
<1>7. QED
  BY <1>4, <1>5, <1>6 DEF Bnd

\* A writer with a lifespan, whose history is deeper than its transient-local
\* history, does not dispose: a dispose does not expire, and when a later sample
\* of the instance has, nothing prunes what that one had pushed back.
LifespanNoDispose ==
  \A q \in Qos : q.tl /\ q.lifespan /\ q.dsdepth > 0 /\ q.hdepth > q.dsdepth => "dispose" \notin Kinds

\* What it says of the writer.
LEMMA NoDispose ==
  ASSUME LifespanNoDispose, qos \in Qos, qos.tl, TLDepth > 0, IdxDepth > TLDepth, qos.lifespan, NEW kind \in Kinds
  PROVE  kind # "dispose"
<1>1. qos.hdepth \in Nat /\ qos.dsdepth \in Nat
  BY WhcAssumption DEF QosType
<1>2. TLDepth = qos.dsdepth
  BY DEF TLDepth
<1>3. qos.hdepth > qos.dsdepth
  BY <1>1, <1>2 DEF IdxDepth, HDepth
<1>4. QED
  BY <1>2, <1>3 DEF LifespanNoDispose

\* The steps keep the bound.
LEMMA BoundedSame ==
  ASSUME Bounded, qos' = qos, whc' = whc, written' = written PROVE Bounded'
<1>1. IdxDepth' = IdxDepth /\ TLDepth' = TLDepth
  BY SameQos
<1>2. QED
  BY <1>1 DEF Bounded, Bnd

\* A new cache is within the bound.
LEMMA BoundedStep ==
  ASSUME qos' = qos, qos.tl /\ TLDepth > 0 => Bnd(whc', written') PROVE Bounded'
<1>1. IdxDepth' = IdxDepth /\ TLDepth' = TLDepth
  BY SameQos
<1>2. QED
  BY <1>1 DEF Bounded, Bnd

\* Write.
LEMMA BoundedWrite ==
  ASSUME Inv, Bounded, LifespanNoDispose, NEW k \in Keys, NEW kind \in Kinds, Write(k, kind) PROVE Bounded'
<1> DEFINE s == wrseq + 1
           m == MaxDropSeq(acked, s)
           w1 == Insert(whc, m, s, k, kind)
<1>0. Acks /\ Cache
  BY DEF Inv
<1>1. /\ qos \in QosType /\ wrseq \in Nat /\ MaxSeq \in Nat /\ acked \in AckMaps(wrseq) /\ MNow \in 0 .. wrseq
      /\ CacheOk(whc, wrseq, MNow, written)
  BY <1>0, InvTypes
<1>2. wrseq < MaxSeq /\ qos' = qos
  BY DEF Write
<1>3. SUFFICES ASSUME qos.tl, TLDepth > 0 PROVE Bnd(whc', written')
  BY <1>2, BoundedStep
<1>4. Keeps
  BY <1>3 DEF Keeps
<1>5. whc' = w1 /\ written' = [t \in DOMAIN written \cup {s} |-> IF t = s THEN [key |-> k, kind |-> kind] ELSE written[t]]
  BY <1>4 DEF Write
<1>6. m = MNow \/ (MNow = wrseq /\ m = s)
  BY <1>1, <1>2, DropNext DEF MNow
<1>7. kind \in AllKinds
  BY WhcAssumption
<1>8. Extends(written, written', s, k, kind)
  BY <1>0, <1>1, <1>5, <1>7, WritesMore DEF Cache
<1>9. InsertIn(whc, wrseq, MNow, written, written', s, k, kind, m)
  BY <1>1, <1>2, <1>6, <1>8 DEF InsertIn
<1>10. IdxDepth > TLDepth /\ qos.lifespan => kind # "dispose"
  BY <1>0, <1>3, NoDispose DEF Cache
<1>11. Bnd(whc, written)
  BY <1>3 DEF Bounded
<1>12. w1 = Insert(whc, m, s, k, kind)
  OBVIOUS
<1> HIDE DEF w1, m, s
<1>13. Bnd(w1, written')
  BY <1>1, <1>3, <1>7, <1>9, <1>10, <1>11, <1>12, InsertBounded
<1>14. QED
  BY <1>5, <1>13

\* A new acknowledgement state.
LEMMA BoundedSetAcked ==
  ASSUME Inv, Bounded, NEW ack \in AckMaps(wrseq), SetAcked(ack) PROVE Bounded'
<1> DEFINE m == MaxDropSeq(ack, wrseq)
<1>0. Acks /\ Cache
  BY DEF Inv
<1>1. qos \in QosType /\ wrseq \in 0 .. MaxSeq /\ wrseq \in Nat /\ CacheOk(whc, wrseq, MNow, written)
  BY <1>0, InvTypes
<1>2. qos' = qos /\ written' = written /\ whc' = RemoveAcked(whc, m)
  BY DEF SetAcked
<1>3. SUFFICES ASSUME qos.tl, TLDepth > 0 PROVE Bnd(whc', written')
  BY <1>2, BoundedStep
<1>4. m \in Nat
  <2>1. IsDrop(ack, wrseq, m)
    BY <1>1, MaxDropIs
  <2>2. QED
    BY <1>1, <2>1 DEF IsDrop
<1>5. Bnd(whc, written)
  BY <1>3 DEF Bounded
<1> HIDE DEF m
<1>6. Bnd(whc', written)
  BY <1>1, <1>2, <1>3, <1>4, <1>5, RemoveBounded
<1>7. QED
  BY <1>2, <1>6

\* SampleExpired.
LEMMA BoundedExpired ==
  ASSUME Inv, Bounded, NEW S \in SUBSET Seqs, SampleExpired(S) PROVE Bounded'
<1> DEFINE u == DeleteSet(whc, S)
<1>0. Acks /\ Cache
  BY DEF Inv
<1>1. qos \in QosType /\ wrseq \in 0 .. MaxSeq /\ CacheOk(whc, wrseq, MNow, written)
  BY <1>0, InvTypes
<1>2. /\ S # {} /\ S \subseteq DOMAIN whc.node /\ (\A s \in S : whc.node[s].exp)
      /\ (\A s \in S : \A t \in DOMAIN whc.node : whc.node[t].exp /\ t < s => t \in S)
      /\ whc' = [u EXCEPT !.maxseq = FindMaxProcedurally(u)] /\ qos' = qos /\ written' = written
  BY DEF SampleExpired, Present
<1>3. SUFFICES ASSUME qos.tl, TLDepth > 0 PROVE Bnd(whc', written')
  BY <1>2, BoundedStep
<1>4. ~NoIndex /\ Bnd(whc, written)
  BY <1>3 DEF NoIndex, Bounded
<1>5. qos.lifespan
  <2>1. ~qos.lifespan => \A s \in DOMAIN whc.node : ~whc.node[s].exp
    BY <1>1, OkFields
  <2>2. QED
    BY <1>2, <2>1
<1>6. Good(whc, IdxDepth) /\ Hist(whc, IdxDepth, written, {})
  BY <1>1, OkFields
<1>7. u = DeleteSet(whc, S)
  OBVIOUS
<1> HIDE DEF u
<1>8. Deleted(whc, u, S, IdxDepth) /\ whc'.node = u.node /\ whc'.idx = u.idx
  <2> DEFINE v == whc'
  <2>1. v = [u EXCEPT !.maxseq = FindMaxProcedurally(u)]
    BY <1>2
  <2>2. S \in SUBSET (DOMAIN whc.node) /\ S # {} /\ \A s \in S : whc.node[s].exp
    BY <1>2
  <2>3. qos.lifespan => ~NoIndex
    BY <1>4
  <2>4. Deleted(whc, u, S, IdxDepth) /\ v.node = u.node /\ v.idx = u.idx
    <3> HIDE DEF v
    <3>1. QED
      BY <1>1, <1>7, <2>1, <2>2, <2>3, ExpireOk
  <2>5. QED
    BY <2>4
<1>9. Bnd(whc', written)
  <2> DEFINE v == whc'
  <2>1. v.node = u.node /\ v.idx = u.idx
    BY <1>8
  <2>2. Bnd(v, written)
    <3> HIDE DEF v
    <3>1. QED
      BY <1>1, <1>2, <1>3, <1>4, <1>5, <1>6, <1>8, <2>1, ExpireBounded
  <2>3. QED
    BY <2>2
<1>10. QED
  BY <1>2, <1>9

\* Every step.
LEMMA BoundedNext ==
  ASSUME Inv, Bounded, LifespanNoDispose, [Next]_vars PROVE Bounded'
<1>0. Acks /\ Cache
  BY DEF Inv
<1>1. ASSUME NEW k \in Keys, NEW kind \in Kinds, Write(k, kind) PROVE Bounded'
  BY <1>1, BoundedWrite
<1>2. ASSUME NEW r \in Readers, NEW rel \in BOOLEAN, AddConnection(r, rel) PROVE Bounded'
  BY <1>2, BoundedSame DEF AddConnection
<1>3. ASSUME NEW r \in Readers, NEW a \in Seqs, AckNack(r, a) PROVE Bounded'
  <2> DEFINE ack == [acked EXCEPT ![r] = a]
  <2>1. SetAcked(ack) /\ r \in DOMAIN acked /\ a <= wrseq
    BY <1>3 DEF AckNack, Matched
  <2>2. a \in 0 .. wrseq
    <3>1. a \in Nat /\ wrseq \in Nat
      BY <1>0, InvTypes, WhcAssumption DEF Seqs
    <3>2. QED
      BY <2>1, <3>1
  <2>3. ack \in AckMaps(wrseq)
    BY <1>0, <2>1, <2>2, AckOne
  <2>4. QED
    BY <2>1, <2>3, BoundedSetAcked
<1>4. ASSUME NEW r \in Readers, NEW a \in Seqs, AckNackResponsive(r, a) PROVE Bounded'
  BY <1>4, BoundedSame DEF AckNackResponsive
<1>5. ASSUME NEW r \in Readers, AckAllMessages(r) PROVE Bounded'
  <2> DEFINE ack == [acked EXCEPT ![r] = MaxSeqNumber]
  <2>1. SetAcked(ack) /\ r \in DOMAIN acked
    BY <1>5 DEF AckAllMessages, Matched
  <2>2. ack \in AckMaps(wrseq)
    BY <1>0, <2>1, AckOne
  <2>3. QED
    BY <2>1, <2>2, BoundedSetAcked
<1>6. ASSUME NEW r \in Readers, DropConnection(r) PROVE Bounded'
  <2> DEFINE ack == Restrict(acked, DOMAIN acked \ {r})
  <2>1. SetAcked(ack)
    BY <1>6 DEF DropConnection, Matched
  <2>2. ack \in AckMaps(wrseq)
    BY <1>0, AckWithout
  <2>3. QED
    BY <2>1, <2>2, BoundedSetAcked
<1>7. ASSUME NEW S \in SUBSET Seqs, SampleExpired(S) PROVE Bounded'
  BY <1>7, BoundedExpired
<1>8. ASSUME LendsOnly PROVE Bounded'
  BY <1>8, BoundedSame DEF LendsOnly
<1>9. CASE Next
  BY <1>1, <1>2, <1>3, <1>4, <1>5, <1>6, <1>7, <1>8, <1>9, Lends DEF Next
<1>10. CASE UNCHANGED vars
  BY <1>8, <1>10, Lends
<1>11. QED
  BY <1>9, <1>10

\* At first there is nothing.
LEMMA BoundedInit == ASSUME Init PROVE Bounded
<1>1. qos \in QosType /\ DOMAIN whc.node = {} /\ DOMAIN whc.idx = {}
  BY WhcAssumption DEF Init, NoIdx
<1>2. TLDepth \in Nat
  BY <1>1, Depths
<1>3. \A k : KeptOf(whc, written, k) = {}
  BY <1>1 DEF KeptOf
<1>4. Cardinality({}) = 0
  BY FS_EmptySet
<1>5. Limited(whc, TLDepth, written)
  BY <1>2, <1>3, <1>4 DEF Limited
<1>6. QED
  BY <1>1, <1>5 DEF Bounded, Bnd, Waiting, InIndex, ExpInIndex

\* Without readers to wait for a volatile writer keeps nothing.
LEMMA NothingKept ==
  ASSUME Inv, ~qos.tl
  PROVE  /\ \A s \in DOMAIN whc.node : whc.node[s].unacked
         /\ ~HaveReliableSubs => DOMAIN whc.node = {} /\ whc.unackedBytes = 0
<1>0. Acks /\ Cache
  BY DEF Inv
<1>1. /\ CacheOk(whc, wrseq, MNow, written) /\ IsDrop(acked, wrseq, MNow) /\ wrseq \in Nat
      /\ \A t \in DOMAIN whc.node : t <= wrseq /\ t \in Nat
  BY <1>0, InvTypes
<1>2. AckedUpTo(whc, MNow) /\ (\A s \in DOMAIN whc.node : whc.node[s].unacked) /\ Good(whc, IdxDepth)
  BY <1>1, OkFields
<1>3. ASSUME ~HaveReliableSubs PROVE DOMAIN whc.node = {} /\ whc.unackedBytes = 0
  <2>1. MNow = wrseq
    BY <1>1, <1>3 DEF IsDrop, HaveReliableSubs, Matched
  <2>2. DOMAIN whc.node = {}
    <3>1. SUFFICES ASSUME NEW t \in DOMAIN whc.node PROVE FALSE
      OBVIOUS
    <3>2. t > wrseq
      BY <1>2, <2>1 DEF AckedUpTo
    <3>3. QED
      BY <1>1, <3>2
  <2>3. whc.unackedBytes = Bytes(whc, {})
    BY <1>2, <2>2 DEF Good, Counted
  <2>4. QED
    BY <2>2, <2>3, BytesEmpty
<1>4. QED
  BY <1>2, <1>3

\* What the invariant says of the history.
LEMMA BoundedHistory == ASSUME Inv, Bounded PROVE HistoryBounded
<1>0. qos \in QosType
  BY InvTypes DEF Inv
<1>1. TLDepth \in Nat /\ (~qos.tl => TLDepth = 0)
  BY <1>0, Depths
<1>2. ASSUME NEW k \in Keys PROVE (qos.tl /\ TLDepth = 0) \/ Cardinality(KeptOf(whc, written, k)) <= TLDepth
  <2>1. CASE qos.tl
    <3>1. SUFFICES ASSUME TLDepth # 0 PROVE Cardinality(KeptOf(whc, written, k)) <= TLDepth
      BY <2>1
    <3>2. TLDepth > 0
      BY <1>1, <3>1
    <3>3. QED
      BY <2>1, <3>2 DEF Bounded, Bnd, Limited
  <2>2. CASE ~qos.tl
    <3>1. KeptOf(whc, written, k) = {}
      BY <2>2, NothingKept DEF KeptOf
    <3>2. Cardinality({}) = 0
      BY FS_EmptySet
    <3>3. QED
      BY <1>1, <2>2, <3>1, <3>2
  <2>3. QED
    BY <2>1, <2>2
<1>3. ~qos.tl /\ ~HaveReliableSubs => Present(whc) = {} /\ whc.unackedBytes = 0
  BY NothingKept DEF Present
<1>4. QED
  BY <1>2, <1>3 DEF HistoryBounded, KeptOf, Present

-----------------------------------------------------------------------------
(* The theorems.  LifespanIndexed says of the QoS settings only that a     *)
(* lifespan comes with an index, a deadline or durability.                 *)

\* The invariant holds at first and every step keeps it.
LEMMA FullInvInit == Init => FullInv
  BY InvInit, LoansInit DEF FullInv

\* Every step keeps it.
LEMMA FullInvNext == ASSUME LifespanIndexed PROVE FullInv /\ [Next]_vars => FullInv'
<1>1. ASSUME FullInv, [Next]_vars PROVE FullInv'
  <2>1. Inv'
    BY <1>1, InvNext DEF FullInv
  <2>2. Loans' /\ ContentsFreedOnce'
    BY <1>1, LoansNext
  <2>3. QED
    BY <2>1, <2>2 DEF FullInv
<1>2. QED
  BY <1>1

\* The intervals of whc_impl are the maximal runs of the numbers present, seq_size
\* and maxseq_node agree with them and find_nextseq_intv finds the next number.
THEOREM IntervalsAreExact == ASSUME LifespanIndexed PROVE Spec => []IntervalsExact
<1>1. Init => FullInv
  BY FullInvInit
<1>2. FullInv /\ [Next]_vars => FullInv'
  BY FullInvNext
<1>3. FullInv => IntervalsExact
  <2>1. SUFFICES ASSUME FullInv PROVE IntervalsExact
    OBVIOUS
  <2>2. CacheOk(whc, wrseq, MNow, written)
    BY <2>1, InvTypes DEF FullInv, Inv
  <2>3. Good(whc, IdxDepth) /\ IsTop(whc, whc.maxseq)
    BY <2>2, OkFields DEF UpTo
  <2>4. QED
    BY <2>3, ExactIntervals
<1>4. QED
  BY <1>1, <1>2, <1>3, PTL DEF Spec

\* unacked_bytes, on which the writer is throttled, is the size of exactly the
\* samples that are not yet acknowledged.
THEOREM UnackedBytesAreExact == ASSUME LifespanIndexed PROVE Spec => []UnackedBytesExact
<1>1. Init => FullInv
  BY FullInvInit
<1>2. FullInv /\ [Next]_vars => FullInv'
  BY FullInvNext
<1>3. FullInv => UnackedBytesExact
  <2>1. SUFFICES ASSUME FullInv PROVE UnackedBytesExact
    OBVIOUS
  <2>2. CacheOk(whc, wrseq, MNow, written)
    BY <2>1, InvTypes DEF FullInv, Inv
  <2>3. Counted(whc)
    BY <2>2, OkFields DEF Good
  <2>4. QED
    BY <2>3 DEF Counted, Bytes, UnackedBytesExact, Present
<1>4. QED
  BY <1>1, <1>2, <1>3, PTL DEF Spec

\* Reliability: what some reader may still ask for is in the cache, unless it
\* expired or a KEEP_LAST history replaced it.
THEOREM UnackedStays == ASSUME LifespanIndexed PROVE Spec => []UnackedKept
<1>1. Init => FullInv
  BY FullInvInit
<1>2. FullInv /\ [Next]_vars => FullInv'
  BY FullInvNext
<1>3. FullInv => UnackedKept
  BY DEF FullInv, Inv
<1>4. QED
  BY <1>1, <1>2, <1>3, PTL DEF Spec

\* Durability: the newest samples of every instance are there for a late joiner.
THEOREM TransientLocalStays == ASSUME LifespanIndexed PROVE Spec => []TransientLocalKept
<1>1. Init => FullInv
  BY FullInvInit
<1>2. FullInv /\ [Next]_vars => FullInv'
  BY FullInvNext
<1>3. FullInv => TransientLocalKept
  BY DEF FullInv, Inv
<1>4. QED
  BY <1>1, <1>2, <1>3, PTL DEF Spec

\* The contents of a sample are freed once, and not while they are borrowed.
THEOREM FreedOnce == ASSUME LifespanIndexed PROVE Spec => []ContentsFreedOnce
<1>1. Init => FullInv
  BY FullInvInit
<1>2. FullInv /\ [Next]_vars => FullInv'
  BY FullInvNext
<1>3. FullInv => ContentsFreedOnce
  BY DEF FullInv
<1>4. QED
  BY <1>1, <1>2, <1>3, PTL DEF Spec

\* Durability's other side: what a transient-local writer keeps of an instance
\* after everyone acknowledged it is within its depth, and a volatile writer keeps
\* nothing once nobody is left to acknowledge.
THEOREM HistoryIsBounded ==
  ASSUME LifespanIndexed, LifespanNoDispose PROVE Spec => []HistoryBounded
<1>1. Init => FullInv /\ Bounded
  BY FullInvInit, BoundedInit
<1>2. FullInv /\ Bounded /\ [Next]_vars => (FullInv /\ Bounded)'
  <2>1. ASSUME FullInv, Bounded, [Next]_vars PROVE FullInv' /\ Bounded'
    <3>1. Bounded'
      BY <2>1, BoundedNext DEF FullInv
    <3>2. FullInv'
      BY <2>1, FullInvNext
    <3>3. QED
      BY <3>1, <3>2
  <2>2. QED
    BY <2>1
<1>3. FullInv /\ Bounded => HistoryBounded
  BY BoundedHistory DEF FullInv
<1>4. QED
  BY <1>1, <1>2, <1>3, PTL DEF Spec
=============================================================================
