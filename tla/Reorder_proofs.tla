--------------------------- MODULE Reorder_proofs ---------------------------
(***************************************************************************)
(* Proofs about the reorder administration for any highest sequence        *)
(* number, any limit on the samples stored and any parameters: the tree is *)
(* well-formed, delivery is in order, nothing is skipped silently, and     *)
(* eviction takes the highest number.                                      *)
(*                                                                         *)
(* The argument has three layers.  (1) What the data operators compute:    *)
(* the sum of the lengths of the chains, the chains of a set of intervals  *)
(* joined in order, the samples of a chain.  They are defined by           *)
(* recursion; that each recursion has a solution, and what it yields, is   *)
(* proved by induction on a set of numbers.  (2) What each branch of       *)
(* nn_reorder_rsample and nn_reorder_gap does to the tree, all of it       *)
(* summed up in one relation, Effect.  (3) An operation with that effect   *)
(* keeps the invariant Inv: the tree is well-formed and counted (Good),    *)
(* all delivered numbers are in order and below next_seq (InOrder),        *)
(* nothing beyond the last known number is accounted for (Heard), and what *)
(* is accounted for was delivered, stored or declared lost (Kept).         *)
(***************************************************************************)
EXTENDS Reorder, FiniteSetTheorems, WellFoundedInduction, SequenceTheorems, TLAPS

\* One more than the highest sequence number.
Bound == MaxSeq + 1
\* The elements of chains.
Elems == [seq : Nat, gap : BOOLEAN]
\* A chain is sorted by number, and lies in [a, b).
Sorted(c) == \A i, j \in 1 .. Len(c) : i < j => c[i].seq < c[j].seq
Within(c, a, b) == \A i \in 1 .. Len(c) : a <= c[i].seq /\ c[i].seq < b

\* An interval and its chain.
Intervals == [min : Nat, maxp1 : 0 .. Bound, chain : Seq(Elems), mem : Elems]
Chained(iv) == /\ iv.chain # <<>> /\ iv.mem = iv.chain[1]
               /\ Sorted(iv.chain) /\ Within(iv.chain, iv.min, iv.maxp1)
\* "Non-overlapping, non-consecutive" intervals, beyond the next number to deliver.
Apart(ivs) == \A i, j \in ivs : i # j => i.maxp1 < j.min \/ j.maxp1 < i.min
Tree(ivs, next) ==
  /\ ivs \in SUBSET Intervals /\ IsFiniteSet(ivs)
  /\ \A iv \in ivs : Chained(iv) /\ next < iv.min
  /\ Apart(ivs)

\* The number of chain elements, n_samples.
Total(ivs) == MapThenSumSet(LAMBDA iv : Len(iv.chain), ivs)

\* The shape of an administration, and the part of the invariant about it alone.
Admins == [ivs : SUBSET Intervals, max : Nat, next : Nat \ {0}, n : Int, mode : Modes,
           maxSamples : Nat, lateAck : BOOLEAN]
Good(r) ==
  /\ r \in Admins /\ Tree(r.ivs, r.next)
  /\ r.max = MaxKey(r.ivs)
  /\ r.n = Total(r.ivs) /\ r.n <= r.maxSamples
  /\ r.mode # "normal" => r.ivs = {}

-----------------------------------------------------------------------------
(* Least and greatest numbers *)

\* A set of natural numbers has a least one.
LEMMA LeastOfNat == ASSUME NEW S \in SUBSET Nat, S # {} PROVE \E n \in S : \A k \in S : n <= k
<1>1. PICK n \in S : \A k \in S : <<k, n>> \notin OpToRel(<, Nat)
  BY NatLessThanWellFounded, WFMin
<1>2. \A k \in S : ~(k < n)
  BY <1>1 DEF OpToRel
<1>3. QED
  BY <1>2

\* A bounded set of them has a greatest one.
LEMMA GreatestOfBounded ==
  ASSUME NEW b \in Nat, NEW S \in SUBSET (0 .. b), S # {}
  PROVE  \E n \in S : \A k \in S : k <= n
<1> DEFINE D == {b - k : k \in S}
<1>0. PICK h \in S : TRUE
  OBVIOUS
<1>1. D \in SUBSET Nat /\ D # {}
  <2>1. \A i \in S : b - i \in Nat
    OBVIOUS
  <2>2. b - h \in D
    OBVIOUS
  <2>3. QED
    BY <2>1, <2>2
<1>2. PICK d \in D : \A e \in D : d <= e
  BY <1>1, LeastOfNat
<1>3. PICK n \in S : d = b - n
  OBVIOUS
<1>4. \A k \in S : b - k \in D
  OBVIOUS
<1>5. \A k \in S : d <= b - k
  BY <1>2, <1>4
<1>6. QED
  BY <1>3, <1>5

\* Induction, stated of a set so that a goal is an instance of it.
LEMMA SetInduction ==
  ASSUME NEW A \in SUBSET Nat, 0 \in A, \A n \in A : n + 1 \in A
  PROVE  \A n \in Nat : n \in A
<1> DEFINE B == Nat \ A
<1>1. SUFFICES ASSUME B # {} PROVE FALSE
  OBVIOUS
<1>2. PICK n \in B : \A k \in B : n <= k
  BY <1>1, LeastOfNat
<1>3. n # 0 /\ n - 1 \in Nat /\ n - 1 \in A
  BY <1>2
<1>4. QED
  BY <1>2, <1>3

-----------------------------------------------------------------------------
(* The sum of the lengths of a set of chains *)

\* The function MapThenSumSet computes the sum with.
Fold(S, iter) == iter = [s \in SUBSET S |->
                          IF s = {} THEN 0
                          ELSE Len((CHOOSE x \in s : TRUE).chain) + iter[s \ {CHOOSE x \in s : TRUE}]]

Folded(S) == CHOOSE iter : Fold(S, iter)

\* Total is the value of that function at the whole set.
LEMMA TotalIsFold == ASSUME NEW S PROVE Total(S) = Folded(S)[S]
  BY DEF Folded, Total, MapThenSumSet, MapThenFoldSet, Fold

\* The interval the fold counts next.
Chosen(s) == CHOOSE x \in s : TRUE

\* It is one of the set.
LEMMA ChosenIn == ASSUME NEW s, s # {} PROVE Chosen(s) \in s
  BY DEF Chosen

\* The recursion of the fold has a solution on the subsets of a finite set.
LEMMA FoldExists ==
  ASSUME NEW S, IsFiniteSet(S) PROVE \E iter : Fold(S, iter)
<1> DEFINE Part(n) == {s \in SUBSET S : Cardinality(s) <= n}
           F(g, s) == IF s = {} THEN 0 ELSE Len(Chosen(s).chain) + g[s \ {Chosen(s)}]
           A == {n \in Nat : \E g : g = [s \in Part(n) |-> F(g, s)]}
<1>1. \A s \in SUBSET S : IsFiniteSet(s) /\ Cardinality(s) \in Nat
  BY FS_Subset, FS_CardinalityType
<1>2. \A s \in SUBSET S : s # {} => /\ s \ {Chosen(s)} \in SUBSET S
                                    /\ Cardinality(s \ {Chosen(s)}) = Cardinality(s) - 1
  BY <1>1, ChosenIn, FS_RemoveElement
<1>3. 0 \in A
  <2> DEFINE g == [s \in Part(0) |-> 0]
  <2>1. \A s \in Part(0) : s = {}
    BY <1>1, FS_EmptySet
  <2>2. \A s \in Part(0) : F(g, s) = 0
    BY <2>1
  <2>3. g = [s \in Part(0) |-> F(g, s)]
    BY <2>2
  <2>4. QED
    BY <2>3
<1>4. ASSUME NEW n \in A PROVE n + 1 \in A
  <2>1. PICK g : g = [s \in Part(n) |-> F(g, s)]
    OBVIOUS
  <2> DEFINE h == [s \in Part(n + 1) |-> F(g, s)]
  <2>2. \A s \in Part(n) : s \in Part(n + 1) /\ h[s] = g[s]
    <3>1. \A s \in Part(n) : s \in Part(n + 1)
      BY <1>1
    <3>2. \A s \in Part(n) : g[s] = F(g, s)
      BY <2>1
    <3>3. \A s \in Part(n + 1) : h[s] = F(g, s)
      OBVIOUS
    <3> HIDE DEF F, h, Part
    <3>4. QED
      BY <3>1, <3>2, <3>3
  <2>0. n \in Nat /\ n + 1 \in Nat
    OBVIOUS
  <2>3. \A s \in Part(n + 1) : s # {} => s \ {Chosen(s)} \in Part(n)
    <3> HIDE DEF A
    <3>1. QED
      BY <1>1, <1>2, <2>0
  <2>4. \A s \in Part(n + 1) : F(h, s) = F(g, s)
    <3> HIDE DEF h, Part
    <3>1. QED
      BY <2>2, <2>3
  <2>5. h = [s \in Part(n + 1) |-> F(h, s)]
    <3> HIDE DEF F, Part
    <3>1. QED
      BY <2>4
  <2>6. \E f : f = [s \in Part(n + 1) |-> F(f, s)]
    <3> HIDE DEF h, A
    <3> WITNESS h
    <3>1. QED
      BY <2>5
  <2>7. QED
    BY <2>0, <2>6, Zenon
<1>5. Cardinality(S) \in A
  <2> HIDE DEF A
  <2>1. A \in SUBSET Nat
    BY DEF A
  <2>2. QED
    BY <1>1, <1>3, <1>4, <2>1, SetInduction
<1>6. Part(Cardinality(S)) = SUBSET S
  BY <1>1, FS_Subset
<1>7. PICK g : g = [s \in SUBSET S |-> F(g, s)]
  BY <1>5, <1>6
<1>8. QED
  BY <1>7 DEF Fold, Chosen

\* The chosen function is such a solution.
LEMMA FoldOf ==
  ASSUME NEW S, IsFiniteSet(S), NEW s \in SUBSET S
  PROVE  Folded(S)[s] = IF s = {} THEN 0
                        ELSE Len(Chosen(s).chain) + Folded(S)[s \ {Chosen(s)}]
<1>1. Fold(S, Folded(S))
  BY FoldExists, Zenon DEF Folded
<1>2. Folded(S) = [u \in SUBSET S |-> IF u = {} THEN 0
                                      ELSE Len(Chosen(u).chain) + Folded(S)[u \ {Chosen(u)}]]
  BY <1>1 DEF Fold, Chosen
<1>3. QED
  BY <1>2

\* The sum over a subset is that of the larger sum's recursion.
LEMMA FoldsAgree ==
  ASSUME NEW S, IsFiniteSet(S), NEW R \in SUBSET S
  PROVE  Total(R) = Folded(S)[R]
<1> DEFINE f == Folded(S)
           g == Folded(R)
           A == {n \in Nat : \A s \in SUBSET R : Cardinality(s) = n => f[s] = g[s]}
<1>1. IsFiniteSet(R) /\ \A s \in SUBSET R : IsFiniteSet(s) /\ Cardinality(s) \in Nat
  BY FS_Subset, FS_CardinalityType
<1>2. /\ \A s \in SUBSET S : f[s] = IF s = {} THEN 0 ELSE Len(Chosen(s).chain) + f[s \ {Chosen(s)}]
      /\ \A s \in SUBSET R : g[s] = IF s = {} THEN 0 ELSE Len(Chosen(s).chain) + g[s \ {Chosen(s)}]
  <2>1. \A s \in SUBSET S : f[s] = IF s = {} THEN 0 ELSE Len(Chosen(s).chain) + f[s \ {Chosen(s)}]
    BY FoldOf
  <2>2. \A s \in SUBSET R : g[s] = IF s = {} THEN 0 ELSE Len(Chosen(s).chain) + g[s \ {Chosen(s)}]
    <3>1. IsFiniteSet(R)
      BY <1>1
    <3>2. QED
      BY <3>1, FoldOf
  <2>3. QED
    BY <2>1, <2>2
<1>3. Total(R) = g[R]
  BY TotalIsFold
<1> HIDE DEF f, g
<1>4. \A s \in SUBSET R : s # {} => /\ s \ {Chosen(s)} \in SUBSET R
                                    /\ Cardinality(s \ {Chosen(s)}) = Cardinality(s) - 1
  BY <1>1, ChosenIn, FS_RemoveElement
<1>5. 0 \in A
  <2>1. \A s \in SUBSET R : Cardinality(s) = 0 => s = {}
    BY <1>1, FS_EmptySet
  <2>2. QED
    BY <1>2, <2>1
<1>6. ASSUME NEW n \in A PROVE n + 1 \in A
  <2>1. ASSUME NEW s \in SUBSET R, Cardinality(s) = n + 1 PROVE f[s] = g[s]
    <3>1. s # {}
      BY <2>1, FS_EmptySet
    <3>2. f[s \ {Chosen(s)}] = g[s \ {Chosen(s)}]
      BY <1>4, <2>1, <3>1
    <3>3. f[s] = Len(Chosen(s).chain) + f[s \ {Chosen(s)}] /\ g[s] = Len(Chosen(s).chain) + g[s \ {Chosen(s)}]
      BY <1>2, <3>1
    <3>4. QED
      BY <3>2, <3>3
  <2>2. QED
    BY <2>1
<1>7. Cardinality(R) \in A
  <2> HIDE DEF A
  <2>1. A \in SUBSET Nat
    BY DEF A
  <2>2. QED
    BY <1>1, <1>5, <1>6, <2>1, SetInduction
<1>8. f[R] = g[R]
  BY <1>7
<1>9. QED
  BY <1>3, <1>8 DEF f

\* The recursion, of Total itself.
LEMMA TotalRemoveChosen ==
  ASSUME NEW S, IsFiniteSet(S)
  PROVE  Total(S) = IF S = {} THEN 0 ELSE Len(Chosen(S).chain) + Total(S \ {Chosen(S)})
<1> DEFINE f == Folded(S)
<1>1. \A s \in SUBSET S : Total(s) = f[s]
  BY FoldsAgree
<1>2. \A s \in SUBSET S : f[s] = IF s = {} THEN 0 ELSE Len(Chosen(s).chain) + f[s \ {Chosen(s)}]
  BY FoldOf
<1> HIDE DEF f
<1>3. S \in SUBSET S /\ S \ {Chosen(S)} \in SUBSET S
  OBVIOUS
<1>4. QED
  BY <1>1, <1>2, <1>3

\* The sum of lengths is a natural number.
LEMMA TotalNat ==
  ASSUME NEW S \in SUBSET Intervals, IsFiniteSet(S) PROVE Total(S) \in Nat
<1> DEFINE A == {n \in Nat : \A s \in SUBSET S : Cardinality(s) = n => Total(s) \in Nat}
<1>1. \A s \in SUBSET S : IsFiniteSet(s) /\ Cardinality(s) \in Nat
  BY FS_Subset, FS_CardinalityType
<1>2. \A x \in S : Len(x.chain) \in Nat
  BY LenProperties DEF Intervals
<1>3. \A s \in SUBSET S : s # {} => /\ Chosen(s) \in s /\ s \ {Chosen(s)} \in SUBSET S
                                    /\ Cardinality(s \ {Chosen(s)}) = Cardinality(s) - 1
                                    /\ Total(s) = Len(Chosen(s).chain) + Total(s \ {Chosen(s)})
  BY <1>1, ChosenIn, FS_RemoveElement, TotalRemoveChosen
<1>4. 0 \in A
  BY <1>1, FS_EmptySet, TotalRemoveChosen
<1>5. ASSUME NEW n \in A PROVE n + 1 \in A
  <2>0. n \in Nat /\ \A s \in SUBSET S : Cardinality(s) = n => Total(s) \in Nat
    OBVIOUS
  <2>1. ASSUME NEW s \in SUBSET S, Cardinality(s) = n + 1 PROVE Total(s) \in Nat
    <3> HIDE DEF A
    <3>1. s # {}
      BY <2>0, <2>1, FS_EmptySet
    <3>2. Cardinality(s \ {Chosen(s)}) = n
      <4>1. Cardinality(s \ {Chosen(s)}) = Cardinality(s) - 1
        BY <1>3, <3>1
      <4>2. QED
        BY <2>0, <2>1, <4>1
    <3>3. Total(s \ {Chosen(s)}) \in Nat
      BY <1>3, <2>0, <3>1, <3>2
    <3>4. QED
      BY <1>2, <1>3, <3>1, <3>3
  <2>2. QED
    BY <2>0, <2>1
<1>6. Cardinality(S) \in A
  <2> HIDE DEF A
  <2>1. A \in SUBSET Nat
    BY DEF A
  <2>2. QED
    BY <1>1, <1>4, <1>5, <2>1, SetInduction
<1>7. QED
  BY <1>6

\* It does not matter which chain is counted first.
LEMMA TotalRemove ==
  ASSUME NEW S \in SUBSET Intervals, IsFiniteSet(S)
  PROVE  Total(S) \in Nat /\ \A x \in S : Total(S) = Len(x.chain) + Total(S \ {x})
<1> DEFINE P(s) == Total(s) \in Nat /\ \A x \in s : Total(s) = Len(x.chain) + Total(s \ {x})
           A == {n \in Nat : \A s \in SUBSET S : Cardinality(s) = n => P(s)}
<1>1. \A s \in SUBSET S : IsFiniteSet(s) /\ Cardinality(s) \in Nat
  BY FS_Subset, FS_CardinalityType
<1>2. \A x \in S : Len(x.chain) \in Nat
  BY LenProperties DEF Intervals
<1>3. \A s \in SUBSET S : \A x \in s : /\ s \ {x} \in SUBSET S
                                       /\ Cardinality(s \ {x}) = Cardinality(s) - 1
  BY <1>1, FS_RemoveElement
<1>4. \A s \in SUBSET S : s # {} => /\ Chosen(s) \in s
                                    /\ Total(s) = Len(Chosen(s).chain) + Total(s \ {Chosen(s)})
  BY <1>1, ChosenIn, TotalRemoveChosen
<1>0. \A s \in SUBSET S : Total(s) \in Nat
  BY <1>1, TotalNat
<1>5. 0 \in A
  <2>1. \A s \in SUBSET S : Cardinality(s) = 0 => s = {}
    BY <1>1, FS_EmptySet
  <2>2. Total({}) = 0
    BY FS_EmptySet, TotalRemoveChosen
  <2>3. P({})
    BY <2>2
  <2> HIDE DEF P
  <2>4. QED
    BY <2>1, <2>3
<1>6. ASSUME NEW n \in A PROVE n + 1 \in A
  <2>0. n \in Nat /\ \A s \in SUBSET S : Cardinality(s) = n => P(s)
    BY Zenon
  <2>1. ASSUME NEW s \in SUBSET S, Cardinality(s) = n + 1 PROVE P(s)
    <3> HIDE DEF A
    <3>1. s # {}
      <4>1. Cardinality(s) # 0
        BY <2>0, <2>1
      <4>2. QED
        BY <4>1, FS_EmptySet
    <3> DEFINE c == Chosen(s)
    <3>2. c \in s /\ Total(s) = Len(c.chain) + Total(s \ {c})
      BY <1>4, <3>1
    <3> HIDE DEF c
    <3>3. \A x \in s : P(s \ {x})
      <4> HIDE DEF P
      <4>1. \A x \in s : s \ {x} \in SUBSET S /\ Cardinality(s \ {x}) = n
        BY <1>3, <2>0, <2>1
      <4>2. QED
        BY <2>0, <4>1
    <3>4. ASSUME NEW x \in s PROVE Total(s) = Len(x.chain) + Total(s \ {x})
      <4>1. CASE x = c
        BY <3>2, <4>1
      <4>2. CASE x # c
        <5> DEFINE rest == (s \ {x}) \ {c}
        <5>1. Total(s \ {c}) = Len(x.chain) + Total(rest)
          <6>1. (s \ {c}) \ {x} = rest
            OBVIOUS
          <6>2. Total(s \ {c}) = Len(x.chain) + Total((s \ {c}) \ {x})
            BY <3>2, <3>3, <4>2
          <6>3. QED
            BY <6>1, <6>2
        <5>2. Total(s \ {x}) = Len(c.chain) + Total(rest)
          BY <3>2, <3>3, <4>2
        <5>4. Total(rest) \in Nat
          BY <1>0
        <5>5. Len(x.chain) \in Nat /\ Len(c.chain) \in Nat
          BY <1>2, <3>2
        <5> HIDE DEF rest
        <5>6. QED
          BY <3>2, <5>1, <5>2, <5>4, <5>5
      <4>3. QED
        BY <4>1, <4>2
    <3>5. Total(s) \in Nat
      BY <1>0
    <3>6. QED
      BY <3>4, <3>5
  <2>2. QED
    BY <2>0, <2>1
<1>7. Cardinality(S) \in A
  <2> HIDE DEF A
  <2>1. A \in SUBSET Nat
    BY DEF A
  <2>2. QED
    BY <1>1, <1>5, <1>6, <2>1, SetInduction
<1>8. QED
  BY <1>7

\* A new interval adds the length of its chain.
LEMMA TotalAdd ==
  ASSUME NEW S \in SUBSET Intervals, IsFiniteSet(S), NEW x \in Intervals, x \notin S
  PROVE  IsFiniteSet(S \cup {x}) /\ Total(S \cup {x}) = Total(S) + Len(x.chain)
<1>1. IsFiniteSet(S \cup {x}) /\ S \cup {x} \in SUBSET Intervals /\ (S \cup {x}) \ {x} = S
  BY FS_AddElement
<1>2. Total(S \cup {x}) = Len(x.chain) + Total((S \cup {x}) \ {x})
  BY <1>1, TotalRemove
<1>3. Len(x.chain) \in Nat /\ Total(S) \in Nat
  BY TotalNat, LenProperties DEF Intervals
<1>4. Total(S \cup {x}) = Len(x.chain) + Total(S)
  BY <1>1, <1>2
<1>5. QED
  BY <1>1, <1>3, <1>4

-----------------------------------------------------------------------------
(* Intervals that are apart, and their order *)

\* The bound is a number.
LEMMA BoundNat == Bound \in Nat
  BY ReorderAssumption DEF Bound

\* An interval with a chain is not empty, and neither is its range.
LEMMA ChainedSpan ==
  ASSUME NEW iv \in Intervals, Chained(iv)
  PROVE  /\ iv.min \in Nat /\ iv.maxp1 \in Nat /\ iv.min < iv.maxp1 /\ iv.maxp1 <= Bound
         /\ Len(iv.chain) \in Nat \ {0} /\ iv.chain[1] \in Elems
<1>1. Len(iv.chain) \in Nat \ {0}
  BY EmptySeq DEF Chained, Intervals
<1>2. iv.chain[1] \in Elems /\ iv.chain[1].seq \in Nat
  <2>1. iv.chain \in Seq(Elems) /\ 1 \in 1 .. Len(iv.chain)
    BY <1>1 DEF Intervals
  <2>2. iv.chain[1] \in Elems
    BY <2>1, ElementOfSeq
  <2>3. QED
    BY <2>2 DEF Elems
<1>3. iv.min <= iv.chain[1].seq /\ iv.chain[1].seq < iv.maxp1
  BY <1>1 DEF Chained, Within
<1>4. iv.min \in Nat /\ iv.maxp1 \in 0 .. Bound
  BY DEF Intervals
<1>5. QED
  BY <1>1, <1>2, <1>3, <1>4, BoundNat

\* Intervals of a tree are distinct by min, and a lower one ends before a higher one begins.
LEMMA TreeSpans ==
  ASSUME NEW b \in Nat, NEW T, Tree(T, b)
  PROVE  /\ \A i \in T : /\ i \in Intervals /\ Chained(i) /\ b < i.min
                         /\ i.min \in Nat /\ i.maxp1 \in Nat /\ i.min < i.maxp1 /\ i.maxp1 <= Bound
         /\ \A i, j \in T : (i.min = j.min => i = j) /\ (i.min < j.min => i.maxp1 < j.min)
<1>1. \A i \in T : /\ i \in Intervals /\ Chained(i) /\ b < i.min
                   /\ i.min \in Nat /\ i.maxp1 \in Nat /\ i.min < i.maxp1 /\ i.maxp1 <= Bound
  BY ChainedSpan DEF Tree
<1>2. \A i, j \in T : i # j => i.maxp1 < j.min \/ j.maxp1 < i.min
  BY DEF Tree, Apart
<1>3. QED
  BY <1>1, <1>2

\* Removing intervals leaves a tree.
LEMMA Subtree ==
  ASSUME NEW b \in Nat, NEW T, Tree(T, b), NEW S \in SUBSET T PROVE Tree(S, b)
  BY FS_Subset DEF Tree, Apart

\* A tree that is not empty has a last interval...
LEMMA TreeLast ==
  ASSUME NEW b \in Nat, NEW T, Tree(T, b), T # {}
  PROVE  \E m \in T : \A j \in T : j.min <= m.min /\ (j # m => j.maxp1 < m.min)
<1> DEFINE M == {i.min : i \in T}
<1>1. \A i \in T : i.min \in 0 .. Bound
  BY TreeSpans, BoundNat
<1>2. M \in SUBSET (0 .. Bound) /\ M # {}
  BY <1>1
<1>3. PICK n \in M : \A k \in M : k <= n
  BY <1>2, BoundNat, GreatestOfBounded
<1>4. PICK m \in T : n = m.min
  OBVIOUS
<1>5. \A j \in T : j.min <= m.min
  BY <1>3, <1>4
<1>6. QED
  BY <1>5, TreeSpans

\* ... and a first one.
LEMMA TreeFirst ==
  ASSUME NEW b \in Nat, NEW T, Tree(T, b), T # {}
  PROVE  \E m \in T : \A j \in T : m.min <= j.min /\ (j # m => m.maxp1 < j.min)
<1> DEFINE M == {i.min : i \in T}
<1>1. \A i \in T : i.min \in Nat
  BY TreeSpans
<1>2. M \in SUBSET Nat /\ M # {}
  BY <1>1
<1>3. PICK n \in M : \A k \in M : n <= k
  BY <1>2, LeastOfNat
<1>4. PICK m \in T : n = m.min
  OBVIOUS
<1>5. \A j \in T : m.min <= j.min
  BY <1>3, <1>4
<1>6. QED
  BY <1>5, TreeSpans

\* The position of an interval: how many lie before it, as ConcatChains counts.
Rank(T, iv) == Cardinality({j \in T : j.min < iv.min})
Nth(T, i) == CHOOSE iv \in T : Rank(T, iv) = i - 1

\* Positions are below the number of intervals.
LEMMA RankBelow ==
  ASSUME NEW b \in Nat, NEW T, Tree(T, b), NEW x \in T
  PROVE  Rank(T, x) \in 0 .. Cardinality(T) - 1
<1> DEFINE U == {j \in T : j.min < x.min}
<1>1. IsFiniteSet(T) /\ U \in SUBSET T
  BY DEF Tree
<1>2. x \notin U /\ U # T
  BY TreeSpans
<1>3. IsFiniteSet(U) /\ Cardinality(U) <= Cardinality(T) /\ Cardinality(U) # Cardinality(T)
  BY <1>1, <1>2, FS_Subset
<1>4. Cardinality(U) \in Nat /\ Cardinality(T) \in Nat
  BY <1>1, <1>3, FS_CardinalityType
<1>5. QED
  BY <1>3, <1>4 DEF Rank

\* No two intervals have the same position.
LEMMA RankUnique ==
  ASSUME NEW b \in Nat, NEW T, Tree(T, b), NEW x \in T, NEW y \in T, Rank(T, x) = Rank(T, y)
  PROVE  x = y
<1>1. ASSUME NEW v \in T, NEW w \in T, v.min < w.min PROVE Rank(T, v) # Rank(T, w)
  <2> DEFINE V == {j \in T : j.min < v.min}
             W == {j \in T : j.min < w.min}
  <2>1. V \in SUBSET W /\ W \in SUBSET T /\ IsFiniteSet(T)
    BY <1>1, TreeSpans DEF Tree
  <2>2. v \in W /\ v \notin V
    BY <1>1, TreeSpans
  <2>3. IsFiniteSet(W)
    BY <2>1, FS_Subset
  <2>4. Cardinality(V) # Cardinality(W)
    BY <2>1, <2>2, <2>3, FS_Subset
  <2>5. QED
    BY <2>4 DEF Rank
<1>2. x.min = y.min
  BY <1>1, TreeSpans
<1>3. QED
  BY <1>2, TreeSpans

\* The last interval comes after all the others, whose ranks do not depend on it.
LEMMA RankLast ==
  ASSUME NEW b \in Nat, NEW T, Tree(T, b), NEW m \in T, \A j \in T : j.min <= m.min
  PROVE  /\ Rank(T, m) = Cardinality(T) - 1
         /\ Cardinality(T \ {m}) = Cardinality(T) - 1
         /\ \A x \in T \ {m} : Rank(T, x) = Rank(T \ {m}, x)
<1>1. {j \in T : j.min < m.min} = T \ {m}
  BY TreeSpans
<1>2. Cardinality(T \ {m}) = Cardinality(T) - 1
  BY FS_RemoveElement DEF Tree
<1>3. ASSUME NEW x \in T \ {m}
      PROVE  {j \in T : j.min < x.min} = {j \in T \ {m} : j.min < x.min}
  BY TreeSpans
<1>4. QED
  BY <1>1, <1>2, <1>3 DEF Rank

\* Every position is taken.
LEMMA RankExists ==
  ASSUME NEW b \in Nat, NEW T, Tree(T, b), NEW i \in 0 .. Cardinality(T) - 1
  PROVE  \E x \in T : Rank(T, x) = i
<1> DEFINE P(S) == \A k \in 0 .. Cardinality(S) - 1 : \E x \in S : Rank(S, x) = k
           A == {n \in Nat : \A S \in SUBSET T : Cardinality(S) = n => P(S)}
<1>1. IsFiniteSet(T) /\ \A S \in SUBSET T : IsFiniteSet(S) /\ Cardinality(S) \in Nat
  BY FS_Subset, FS_CardinalityType DEF Tree
<1>2. 0 \in A
  OBVIOUS
<1>3. ASSUME NEW n \in A PROVE n + 1 \in A
  <2>0. n \in Nat /\ \A S \in SUBSET T : Cardinality(S) = n => P(S)
    BY Zenon
  <2> HIDE DEF A
  <2>1. ASSUME NEW S \in SUBSET T, Cardinality(S) = n + 1 PROVE P(S)
    <3>1. Tree(S, b) /\ S # {}
      <4>1. Cardinality(S) # 0
        BY <2>0, <2>1
      <4>2. QED
        BY <4>1, FS_EmptySet, Subtree
    <3>2. PICK m \in S : \A j \in S : j.min <= m.min
      BY <3>1, TreeLast
    <3>3. /\ Rank(S, m) = n /\ Cardinality(S \ {m}) = n
          /\ \A x \in S \ {m} : Rank(S, x) = Rank(S \ {m}, x)
      <4>1. /\ Rank(S, m) = Cardinality(S) - 1 /\ Cardinality(S \ {m}) = Cardinality(S) - 1
            /\ \A x \in S \ {m} : Rank(S, x) = Rank(S \ {m}, x)
        BY <3>1, <3>2, RankLast
      <4>2. Cardinality(S) - 1 = n
        BY <2>0, <2>1
      <4>3. QED
        BY <4>1, <4>2
    <3>4. P(S \ {m})
      BY <2>0, <3>3
    <3>5. ASSUME NEW k \in 0 .. Cardinality(S) - 1 PROVE \E x \in S : Rank(S, x) = k
      <4>1. CASE k = n
        BY <3>2, <3>3, <4>1
      <4>2. CASE k # n
        <5>1. k \in 0 .. Cardinality(S \ {m}) - 1
          BY <2>0, <2>1, <3>3, <4>2
        <5>2. PICK x \in S \ {m} : Rank(S \ {m}, x) = k
          BY <3>4, <5>1
        <5>3. QED
          BY <3>3, <5>2
      <4>3. QED
        BY <4>1, <4>2
    <3>6. QED
      BY <3>5
  <2>2. QED
    BY <2>0, <2>1 DEF A
<1>4. Cardinality(T) \in A
  <2> HIDE DEF A
  <2>1. A \in SUBSET Nat
    BY DEF A
  <2>2. QED
    BY <1>1, <1>2, <1>3, <2>1, SetInduction
<1>5. P(T)
  BY <1>4
<1>6. QED
  BY <1>5

-----------------------------------------------------------------------------
(* ConcatChains *)

\* The function ConcatChains joins the chains with.
Cat(o, n, g) == g = [i \in 0 .. n |-> IF i = 0 THEN <<>> ELSE g[i - 1] \o o[i].chain]

\* Its recursion has a solution.
LEMMA CatExists == ASSUME NEW o, NEW n \in Nat PROVE \E g : Cat(o, n, g)
<1> DEFINE F(g, i) == IF i = 0 THEN <<>> ELSE g[i - 1] \o o[i].chain
           A == {k \in Nat : \E g : g = [i \in 0 .. k |-> F(g, i)]}
<1>1. 0 \in A
  <2> DEFINE g == [i \in 0 .. 0 |-> <<>>]
  <2>1. \A i \in 0 .. 0 : F(g, i) = <<>>
    OBVIOUS
  <2>2. g = [i \in 0 .. 0 |-> F(g, i)]
    BY <2>1
  <2>3. QED
    BY <2>2
<1>2. ASSUME NEW k \in A PROVE k + 1 \in A
  <2>0. k \in Nat /\ k + 1 \in Nat
    OBVIOUS
  <2>1. PICK g : g = [i \in 0 .. k |-> F(g, i)]
    OBVIOUS
  <2> HIDE DEF A
  <2> DEFINE h == [i \in 0 .. k + 1 |-> F(g, i)]
  <2>2. \A i \in 0 .. k : h[i] = g[i]
    <3>1. \A i \in 0 .. k : g[i] = F(g, i)
      BY <2>1
    <3>2. \A i \in 0 .. k + 1 : h[i] = F(g, i)
      OBVIOUS
    <3> HIDE DEF F, h
    <3>3. QED
      BY <2>0, <3>1, <3>2
  <2>3. \A i \in 0 .. k + 1 : F(h, i) = F(g, i)
    <3> HIDE DEF h
    <3>1. QED
      BY <2>0, <2>2
  <2>4. h = [i \in 0 .. k + 1 |-> F(h, i)]
    <3> HIDE DEF F
    <3>1. QED
      BY <2>3
  <2>5. \E f : f = [i \in 0 .. k + 1 |-> F(f, i)]
    <3> HIDE DEF h
    <3> WITNESS h
    <3>1. QED
      BY <2>4
  <2>6. QED
    BY <2>0, <2>5, Zenon DEF A
<1>3. n \in A
  <2> HIDE DEF A
  <2>1. A \in SUBSET Nat
    BY DEF A
  <2>2. QED
    BY <1>1, <1>2, <2>1, SetInduction
<1>4. QED
  BY <1>3 DEF Cat

\* The intervals in the order of their positions, and the function chosen for them.
Order(T) == [i \in 1 .. Cardinality(T) |-> Nth(T, i)]
Catted(T) == CHOOSE g : Cat(Order(T), Cardinality(T), g)

\* ConcatChains is its value at the last interval.
LEMMA ConcatIsCat == ASSUME NEW T PROVE ConcatChains(T) = Catted(T)[Cardinality(T)]
  BY DEF ConcatChains, Catted, Cat, Order, Nth, Rank

\* The chosen function satisfies the recursion.
LEMMA CatOf ==
  ASSUME NEW T, Cardinality(T) \in Nat
  PROVE  /\ Catted(T)[0] = <<>>
         /\ \A i \in 1 .. Cardinality(T) : Catted(T)[i] = Catted(T)[i - 1] \o Nth(T, i).chain
<1> DEFINE N == Cardinality(T)
           g == Catted(T)
<1>1. Cat(Order(T), N, g)
  BY CatExists, Zenon DEF Catted
<1> HIDE DEF N, g
<1>2. g = [i \in 0 .. N |-> IF i = 0 THEN <<>> ELSE g[i - 1] \o Order(T)[i].chain]
  BY <1>1 DEF Cat
<1>3. N \in Nat
  BY DEF N
<1>4. g[0] = <<>>
  BY <1>2, <1>3
<1>5. ASSUME NEW i \in 1 .. N PROVE g[i] = g[i - 1] \o Nth(T, i).chain
  <2>1. g[i] = g[i - 1] \o Order(T)[i].chain
    BY <1>2, <1>3
  <2>2. Order(T)[i] = Nth(T, i)
    BY DEF Order, N
  <2>3. QED
    BY <2>1, <2>2
<1>6. QED
  BY <1>4, <1>5 DEF N, g

\* Nothing joined is the empty chain.
LEMMA ConcatEmpty == ConcatChains({}) = <<>>
<1>1. Cardinality({}) = 0 /\ Cardinality({}) \in Nat
  BY FS_EmptySet
<1>2. Catted({})[0] = <<>>
  BY <1>1, CatOf
<1>3. QED
  BY <1>1, <1>2, ConcatIsCat

\* The interval at a position is the one of that rank.
LEMMA NthIs ==
  ASSUME NEW b \in Nat, NEW T, Tree(T, b), NEW i \in 1 .. Cardinality(T), NEW x \in T,
         Rank(T, x) = i - 1
  PROVE  Nth(T, i) = x
<1>1. Nth(T, i) \in T /\ Rank(T, Nth(T, i)) = i - 1
  BY DEF Nth
<1>2. QED
  BY <1>1, RankUnique

\* The chain of the last interval comes at the end.
LEMMA ConcatLast ==
  ASSUME NEW b \in Nat, NEW T, Tree(T, b), NEW m \in T, \A j \in T : j.min <= m.min
  PROVE  ConcatChains(T) = ConcatChains(T \ {m}) \o m.chain
<1> DEFINE S == T \ {m}
           N == Cardinality(T)
<1>1. IsFiniteSet(T) /\ N \in Nat /\ Tree(S, b)
  BY Subtree, FS_CardinalityType DEF Tree
<1>2. /\ Rank(T, m) = N - 1 /\ Cardinality(S) = N - 1
      /\ \A x \in S : Rank(T, x) = Rank(S, x)
  BY RankLast
<1>3. N - 1 \in Nat
  BY <1>1, <1>2, FS_CardinalityType DEF Tree
<1>4. Nth(T, N) = m
  BY <1>1, <1>2, <1>3, NthIs
<1>5. ASSUME NEW i \in 1 .. N - 1 PROVE Nth(T, i) = Nth(S, i)
  <2>1. PICK x \in S : Rank(S, x) = i - 1
    BY <1>1, <1>2, <1>3, RankExists
  <2>2. Nth(S, i) = x
    BY <1>1, <1>2, <2>1, NthIs
  <2>3. Rank(T, x) = i - 1 /\ x \in T /\ i \in 1 .. Cardinality(T)
    BY <1>1, <1>2, <2>1
  <2>4. Nth(T, i) = x
    BY <2>3, NthIs
  <2>5. QED
    BY <2>2, <2>4
<1> DEFINE A == {i \in Nat : i <= N - 1 => Catted(T)[i] = Catted(S)[i]}
<1>6. 0 \in A
  BY <1>1, <1>2, <1>3, CatOf
<1>7. ASSUME NEW i \in A PROVE i + 1 \in A
  <2>0. i \in Nat /\ (i <= N - 1 => Catted(T)[i] = Catted(S)[i])
    OBVIOUS
  <2> HIDE DEF A
  <2>1. ASSUME i + 1 <= N - 1 PROVE Catted(T)[i + 1] = Catted(S)[i + 1]
    <3> DEFINE k == i + 1
    <3>1. k \in 1 .. N - 1 /\ k \in 1 .. N /\ k - 1 = i
      BY <1>1, <1>3, <2>0, <2>1
    <3> HIDE DEF k
    <3>2. Catted(T)[k] = Catted(T)[k - 1] \o Nth(T, k).chain
      BY <1>1, <3>1, CatOf
    <3>3. Catted(S)[k] = Catted(S)[k - 1] \o Nth(S, k).chain
      BY <1>2, <1>3, <3>1, CatOf
    <3>4. Nth(T, k) = Nth(S, k)
      BY <1>5, <3>1
    <3>5. i <= N - 1
      BY <1>3, <2>0, <2>1
    <3>6. Catted(T)[k] = Catted(S)[k]
      BY <2>0, <3>1, <3>2, <3>3, <3>4, <3>5
    <3>7. QED
      BY <3>6 DEF k
  <2>2. QED
    BY <2>0, <2>1 DEF A
<1>8. N - 1 \in A
  <2> HIDE DEF A
  <2>1. A \in SUBSET Nat
    BY DEF A
  <2>2. QED
    BY <1>3, <1>6, <1>7, <2>1, SetInduction
<1>9. Catted(T)[N - 1] = Catted(S)[N - 1]
  BY <1>3, <1>8
<1>10. Catted(T)[N] = Catted(T)[N - 1] \o m.chain
  <2>1. N \in 1 .. Cardinality(T)
    BY <1>1, <1>3
  <2>2. QED
    BY <1>1, <1>4, <2>1, CatOf
<1>11. QED
  BY <1>2, <1>9, <1>10, ConcatIsCat

-----------------------------------------------------------------------------
(* Chains *)

\* What the elements of a chain are.
LEMMA ChainElem ==
  ASSUME NEW c \in Seq(Elems)
  PROVE  /\ Len(c) \in Nat
         /\ \A i \in 1 .. Len(c) : c[i] \in Elems /\ c[i].seq \in Nat /\ c[i].gap \in BOOLEAN
<1>1. \A i \in 1 .. Len(c) : c[i] \in Elems
  BY ElementOfSeq
<1>2. QED
  BY <1>1, LenProperties DEF Elems

\* The upper end of the range of a chain may be raised.
LEMMA WithinRaise ==
  ASSUME NEW c \in Seq(Elems), NEW a, NEW b \in Int, NEW x \in Nat, Within(c, a, b), b <= x
  PROVE  Within(c, a, x)
<1> SUFFICES ASSUME NEW i \in 1 .. Len(c) PROVE a <= c[i].seq /\ c[i].seq < x
  BY DEF Within
<1> DEFINE y == c[i].seq
<1>1. y \in Nat /\ a <= y /\ y < b
  BY ChainElem DEF Within
<1> HIDE DEF y
<1>2. y < x
  BY <1>1
<1>3. QED
  BY <1>1, <1>2 DEF y

\* Two chains of which the second comes after the first.
LEMMA ConcatSorted ==
  ASSUME NEW c \in Seq(Elems), NEW d \in Seq(Elems), NEW x \in Int, NEW y \in Int,
         NEW z \in Int, NEW w \in Int,
         Sorted(c), Sorted(d), Within(c, x, y), Within(d, z, w), x <= z, y <= z, y <= w
  PROVE  /\ c \o d \in Seq(Elems) /\ Len(c \o d) = Len(c) + Len(d)
         /\ Sorted(c \o d) /\ Within(c \o d, x, w)
<1> DEFINE e == c \o d
           m == Len(c)
           n == Len(d)
<1>1. /\ e \in Seq(Elems) /\ Len(e) = m + n
      /\ \A i \in 1 .. m + n : e[i] = IF i <= m THEN c[i] ELSE d[i - m]
  BY ConcatProperties
<1>2. /\ m \in Nat /\ n \in Nat
      /\ \A i \in 1 .. m : c[i].seq \in Nat /\ x <= c[i].seq /\ c[i].seq < y
      /\ \A i \in 1 .. n : d[i].seq \in Nat /\ z <= d[i].seq /\ d[i].seq < w
  BY ChainElem DEF Within
<1>3. /\ \A i, j \in 1 .. m : i < j => c[i].seq < c[j].seq
      /\ \A i, j \in 1 .. n : i < j => d[i].seq < d[j].seq
  BY DEF Sorted
<1> HIDE DEF e, m, n
<1>4. ASSUME NEW i \in 1 .. m + n PROVE x <= e[i].seq /\ e[i].seq < w
  <2>1. CASE i <= m
    <3>1. e[i] = c[i] /\ i \in 1 .. m
      BY <1>1, <1>2, <2>1
    <3>2. e[i].seq \in Nat /\ x <= e[i].seq /\ e[i].seq < y
      BY <1>2, <3>1
    <3>3. QED
      BY <3>2
  <2>2. CASE i > m
    <3>1. e[i] = d[i - m] /\ i - m \in 1 .. n
      BY <1>1, <1>2, <2>2
    <3>2. e[i].seq \in Nat /\ z <= e[i].seq /\ e[i].seq < w
      BY <1>2, <3>1
    <3>3. QED
      BY <3>2
  <2>3. QED
    BY <1>2, <2>1, <2>2
<1>5. ASSUME NEW i \in 1 .. m + n, NEW j \in 1 .. m + n, i < j PROVE e[i].seq < e[j].seq
  <2>1. CASE j <= m
    <3>1. i \in 1 .. m /\ j \in 1 .. m /\ e[i] = c[i] /\ e[j] = c[j]
      BY <1>1, <1>2, <1>5, <2>1
    <3>2. QED
      BY <1>3, <1>5, <3>1
  <2>2. CASE i <= m /\ j > m
    <3>1. i \in 1 .. m /\ j - m \in 1 .. n /\ e[i] = c[i] /\ e[j] = d[j - m]
      BY <1>1, <1>2, <1>5, <2>2
    <3>2. e[i].seq \in Nat /\ e[j].seq \in Nat /\ e[i].seq < y /\ z <= e[j].seq
      BY <1>2, <3>1
    <3>3. QED
      BY <3>2
  <2>3. CASE i > m
    <3>1. i - m \in 1 .. n /\ j - m \in 1 .. n /\ e[i] = d[i - m] /\ e[j] = d[j - m] /\ i - m < j - m
      BY <1>1, <1>2, <1>5, <2>3
    <3>2. QED
      BY <1>3, <3>1
  <2>4. QED
    BY <1>2, <2>1, <2>2, <2>3
<1>6. QED
  BY <1>1, <1>4, <1>5 DEF Sorted, Within, e, m, n

\* The chains of intervals that are apart make one chain.
LEMMA ConcatTree ==
  ASSUME NEW b \in Nat, NEW T, Tree(T, b), NEW y \in Nat, \A iv \in T : iv.maxp1 <= y
  PROVE  /\ ConcatChains(T) \in Seq(Elems) /\ Len(ConcatChains(T)) = Total(T)
         /\ Sorted(ConcatChains(T)) /\ Within(ConcatChains(T), b + 1, y)
<1> DEFINE P(S) == /\ ConcatChains(S) \in Seq(Elems) /\ Len(ConcatChains(S)) = Total(S)
                   /\ Sorted(ConcatChains(S))
                   /\ \A x \in Nat : (\A iv \in S : iv.maxp1 <= x) => Within(ConcatChains(S), b + 1, x)
           A == {n \in Nat : \A S \in SUBSET T : Cardinality(S) = n => P(S)}
<1>1. IsFiniteSet(T) /\ \A S \in SUBSET T : IsFiniteSet(S) /\ Cardinality(S) \in Nat
  BY FS_Subset, FS_CardinalityType DEF Tree
<1>2. 0 \in A
  <2>1. ConcatChains({}) = <<>> /\ Total({}) = 0
    BY ConcatEmpty, TotalRemoveChosen, FS_EmptySet
  <2>2. P({})
    <3>1. <<>> \in Seq(Elems) /\ Len(<<>>) = 0
      OBVIOUS
    <3>2. Sorted(<<>>) /\ \A x \in Nat : Within(<<>>, b + 1, x)
      BY <3>1 DEF Sorted, Within
    <3>3. QED
      BY <2>1, <3>1, <3>2
  <2>3. \A S \in SUBSET T : Cardinality(S) = 0 => S = {}
    BY <1>1, FS_EmptySet
  <2> HIDE DEF P
  <2>4. QED
    BY <2>2, <2>3
<1>3. ASSUME NEW n \in A PROVE n + 1 \in A
  <2>0. n \in Nat /\ \A S \in SUBSET T : Cardinality(S) = n => P(S)
    BY Zenon
  <2> HIDE DEF A
  <2>1. ASSUME NEW S \in SUBSET T, Cardinality(S) = n + 1 PROVE P(S)
    <3>1. Tree(S, b) /\ S # {}
      <4>1. Cardinality(S) # 0
        BY <2>0, <2>1
      <4>2. QED
        BY <4>1, FS_EmptySet, Subtree
    <3>2. PICK m \in S : \A j \in S : j.min <= m.min /\ (j # m => j.maxp1 < m.min)
      BY <3>1, TreeLast
    <3> DEFINE R == S \ {m}
    <3>3. ConcatChains(S) = ConcatChains(R) \o m.chain
      BY <3>1, <3>2, ConcatLast
    <3>4. P(R)
      <4>1. Cardinality(R) = Cardinality(S) - 1
        BY <1>1, FS_RemoveElement
      <4>2. Cardinality(R) = n /\ R \in SUBSET T
        BY <2>0, <2>1, <4>1
      <4> HIDE DEF P, R
      <4>3. QED
        BY <2>0, <4>2
    <3>5. /\ m \in Intervals /\ Chained(m) /\ m.min \in Nat /\ m.maxp1 \in Nat
          /\ m.min < m.maxp1 /\ b < m.min
      BY <3>1, TreeSpans
    <3>6. m.chain \in Seq(Elems) /\ Sorted(m.chain) /\ Within(m.chain, m.min, m.maxp1)
      BY <3>5 DEF Chained, Intervals
    <3>7. Within(ConcatChains(R), b + 1, m.min)
      <4>1. \A iv \in R : iv.maxp1 <= m.min
        BY <3>1, <3>2, <3>5, TreeSpans
      <4>2. QED
        BY <3>4, <3>5, <4>1
    <3> DEFINE c == ConcatChains(R)
               d == m.chain
    <3>8. c \in Seq(Elems) /\ Sorted(c) /\ Len(c) = Total(R)
      BY <3>4
    <3> HIDE DEF c, d
    <3>9. /\ c \o d \in Seq(Elems) /\ Len(c \o d) = Len(c) + Len(d)
          /\ Sorted(c \o d) /\ Within(c \o d, b + 1, m.maxp1)
      <4>1. b + 1 \in Int /\ m.min \in Int /\ m.maxp1 \in Int /\ b + 1 <= m.min /\ m.min <= m.maxp1
        BY <3>5
      <4>2. d \in Seq(Elems) /\ Sorted(d) /\ Within(d, m.min, m.maxp1) /\ Within(c, b + 1, m.min)
        BY <3>6, <3>7 DEF c, d
      <4>3. QED
        BY <3>8, <4>1, <4>2, ConcatSorted
    <3>10. Len(c \o d) = Total(S)
      <4>1. Total(S) = Len(d) + Total(R)
        BY <3>1, <3>2, TotalRemove DEF Tree, d
      <4>2. Len(d) \in Nat /\ Len(c) \in Nat
        BY <3>6, <3>8, LenProperties DEF d
      <4>3. QED
        BY <3>8, <3>9, <4>1, <4>2
    <3>11. ASSUME NEW x \in Nat, \A iv \in S : iv.maxp1 <= x PROVE Within(c \o d, b + 1, x)
      <4>1. m.maxp1 <= x
        BY <3>11
      <4>2. c \o d \in Seq(Elems) /\ Within(c \o d, b + 1, m.maxp1) /\ m.maxp1 \in Int
        BY <3>5, <3>9
      <4>3. QED
        BY <4>1, <4>2, WithinRaise
    <3>12. ConcatChains(S) = c \o d
      BY <3>3 DEF c, d
    <3>13. QED
      BY <3>9, <3>10, <3>11, <3>12
  <2> HIDE DEF P
  <2>2. QED
    BY <2>0, <2>1 DEF A
<1>4. Cardinality(T) \in A
  <2> HIDE DEF A
  <2>1. A \in SUBSET Nat
    BY DEF A
  <2>2. QED
    BY <1>1, <1>2, <1>3, <2>1, SetInduction
<1>5. P(T)
  <2> HIDE DEF P
  <2>1. QED
    BY <1>1, <1>4
<1>6. QED
  BY <1>5

\* The elements of a chain as a set.
ElemsOf(c) == {c[i] : i \in 1 .. Len(c)}

\* Two joined chains have the elements of both.
LEMMA ElemsOfConcat ==
  ASSUME NEW c \in Seq(Elems), NEW d \in Seq(Elems)
  PROVE  ElemsOf(c \o d) = ElemsOf(c) \cup ElemsOf(d)
<1>1. /\ Len(c \o d) = Len(c) + Len(d) /\ Len(c) \in Nat /\ Len(d) \in Nat
      /\ \A i \in 1 .. Len(c) + Len(d) : (c \o d)[i] = IF i <= Len(c) THEN c[i] ELSE d[i - Len(c)]
  BY ConcatProperties, LenProperties
<1>2. \A i \in 1 .. Len(c) : c[i] \in ElemsOf(c \o d)
  <2>1. \A i \in 1 .. Len(c) : i \in 1 .. Len(c \o d) /\ (c \o d)[i] = c[i]
    BY <1>1
  <2>2. QED
    BY <2>1 DEF ElemsOf
<1>3. \A i \in 1 .. Len(d) : d[i] \in ElemsOf(c \o d)
  <2>1. \A i \in 1 .. Len(d) : Len(c) + i \in 1 .. Len(c \o d) /\ (c \o d)[Len(c) + i] = d[i]
    BY <1>1
  <2>2. QED
    BY <2>1 DEF ElemsOf
<1>4. \A i \in 1 .. Len(c \o d) : (c \o d)[i] \in ElemsOf(c) \cup ElemsOf(d)
  <2>1. \A i \in 1 .. Len(c \o d) : \/ i \in 1 .. Len(c) /\ (c \o d)[i] = c[i]
                                    \/ i - Len(c) \in 1 .. Len(d) /\ (c \o d)[i] = d[i - Len(c)]
    BY <1>1
  <2>2. QED
    BY <2>1 DEF ElemsOf
<1>5. QED
  BY <1>2, <1>3, <1>4 DEF ElemsOf

\* The chains of a tree, joined: all their elements, the first interval's first element in front.
LEMMA ConcatElems ==
  ASSUME NEW b \in Nat, NEW T, Tree(T, b)
  PROVE  /\ ElemsOf(ConcatChains(T)) = UNION {ElemsOf(iv.chain) : iv \in T}
         /\ \A f \in T : (\A j \in T : f.min <= j.min) =>
              ConcatChains(T) # <<>> /\ ConcatChains(T)[1] = f.chain[1]
<1> DEFINE P(S) == /\ ElemsOf(ConcatChains(S)) = UNION {ElemsOf(iv.chain) : iv \in S}
                   /\ \A f \in S : (\A j \in S : f.min <= j.min) =>
                         ConcatChains(S) # <<>> /\ ConcatChains(S)[1] = f.chain[1]
           A == {n \in Nat : \A S \in SUBSET T : Cardinality(S) = n => P(S)}
<1>1. IsFiniteSet(T) /\ \A S \in SUBSET T : IsFiniteSet(S) /\ Cardinality(S) \in Nat
  BY FS_Subset, FS_CardinalityType DEF Tree
<1>2. 0 \in A
  <2>1. P({})
    BY ConcatEmpty DEF ElemsOf
  <2>2. \A S \in SUBSET T : Cardinality(S) = 0 => S = {}
    BY <1>1, FS_EmptySet
  <2> HIDE DEF P
  <2>3. QED
    BY <2>1, <2>2
<1>3. ASSUME NEW n \in A PROVE n + 1 \in A
  <2>0. n \in Nat /\ \A S \in SUBSET T : Cardinality(S) = n => P(S)
    BY Zenon
  <2> HIDE DEF A
  <2>1. ASSUME NEW S \in SUBSET T, Cardinality(S) = n + 1 PROVE P(S)
    <3>1. Tree(S, b) /\ S # {}
      <4>1. Cardinality(S) # 0
        BY <2>0, <2>1
      <4>2. QED
        BY <4>1, FS_EmptySet, Subtree
    <3>2. PICK m \in S : \A j \in S : j.min <= m.min /\ (j # m => j.maxp1 < m.min)
      BY <3>1, TreeLast
    <3> DEFINE R == S \ {m}
               c == ConcatChains(R)
               d == m.chain
    <3>3. ConcatChains(S) = c \o d
      BY <3>1, <3>2, ConcatLast
    <3>4. P(R)
      <4>1. Cardinality(R) = Cardinality(S) - 1
        BY <1>1, FS_RemoveElement
      <4>2. Cardinality(R) = n /\ R \in SUBSET T
        BY <2>0, <2>1, <4>1
      <4> HIDE DEF P, R
      <4>3. QED
        BY <2>0, <4>2
    <3>5. c \in Seq(Elems) /\ d \in Seq(Elems) /\ Len(d) \in Nat \ {0}
      <4>1. Tree(R, b) /\ \A iv \in R : iv.maxp1 <= Bound
        BY <3>1, Subtree, TreeSpans
      <4>2. m \in Intervals /\ Chained(m)
        BY <3>1, TreeSpans
      <4>3. QED
        BY <4>1, <4>2, BoundNat, ConcatTree, ChainedSpan DEF Intervals
    <3>6. ElemsOf(c) = UNION {ElemsOf(iv.chain) : iv \in R}
      BY <3>4
    <3>7. ASSUME NEW f \in S, \A j \in S : f.min <= j.min
          PROVE  c \o d # <<>> /\ (c \o d)[1] = f.chain[1]
      <4>1. CASE f = m
        <5>1. R = {}
          BY <3>1, <3>2, <3>7, <4>1, TreeSpans
        <5>2. c = <<>>
          BY <5>1, ConcatEmpty
        <5>3. c \o d = d
          BY <3>5, <5>2, ConcatEmptySeq
        <5>4. d # <<>>
          BY <3>5, EmptySeq
        <5>5. QED
          BY <4>1, <5>3, <5>4
      <4>2. CASE f # m
        <5>1. f \in R /\ \A j \in R : f.min <= j.min
          BY <3>7, <4>2
        <5>2. c # <<>> /\ c[1] = f.chain[1]
          BY <3>4, <5>1
        <5> HIDE DEF c, d
        <5>3. Len(c) \in Nat \ {0}
          BY <3>5, <5>2, EmptySeq
        <5>4. (c \o d)[1] = c[1] /\ Len(c \o d) # 0
          BY <3>5, <5>3, ConcatProperties
        <5>5. QED
          BY <5>2, <5>4
      <4>3. QED
        BY <4>1, <4>2
    <3> HIDE DEF c
    <3>8. ElemsOf(c \o d) = UNION {ElemsOf(iv.chain) : iv \in S}
      <4>1. ElemsOf(c \o d) = ElemsOf(c) \cup ElemsOf(d)
        BY <3>5, ElemsOfConcat
      <4>2. QED
        BY <3>2, <3>6, <4>1
    <3>9. QED
      BY <3>3, <3>7, <3>8
  <2> HIDE DEF P
  <2>2. QED
    BY <2>0, <2>1 DEF A
<1>4. Cardinality(T) \in A
  <2> HIDE DEF A
  <2>1. A \in SUBSET Nat
    BY DEF A
  <2>2. QED
    BY <1>1, <1>2, <1>3, <2>1, SetInduction
<1>5. P(T)
  <2> HIDE DEF P
  <2>1. QED
    BY <1>1, <1>4
<1>6. QED
  BY <1>5

-----------------------------------------------------------------------------
(* SampleSeqs *)

\* The function SampleSeqs picks the numbers of the samples with.
Sel(c, n, g) == g = [i \in 0 .. n |-> IF i = 0 THEN <<>>
                                      ELSE IF c[i].gap THEN g[i - 1]
                                      ELSE Append(g[i - 1], c[i].seq)]
Selected(c) == CHOOSE g : Sel(c, Len(c), g)

\* Its recursion has a solution.
LEMMA SelExists == ASSUME NEW c, NEW n \in Nat PROVE \E g : Sel(c, n, g)
<1> DEFINE F(g, i) == IF i = 0 THEN <<>>
                      ELSE IF c[i].gap THEN g[i - 1] ELSE Append(g[i - 1], c[i].seq)
           A == {k \in Nat : \E g : g = [i \in 0 .. k |-> F(g, i)]}
<1>1. 0 \in A
  <2> DEFINE g == [i \in 0 .. 0 |-> <<>>]
  <2>1. \A i \in 0 .. 0 : F(g, i) = <<>>
    OBVIOUS
  <2>2. g = [i \in 0 .. 0 |-> F(g, i)]
    BY <2>1
  <2>3. QED
    BY <2>2
<1>2. ASSUME NEW k \in A PROVE k + 1 \in A
  <2>0. k \in Nat /\ k + 1 \in Nat
    OBVIOUS
  <2>1. PICK g : g = [i \in 0 .. k |-> F(g, i)]
    OBVIOUS
  <2> HIDE DEF A
  <2> DEFINE h == [i \in 0 .. k + 1 |-> F(g, i)]
  <2>2. \A i \in 0 .. k : h[i] = g[i]
    <3>1. \A i \in 0 .. k : g[i] = F(g, i)
      BY <2>1
    <3>2. \A i \in 0 .. k + 1 : h[i] = F(g, i)
      OBVIOUS
    <3> HIDE DEF F, h
    <3>3. QED
      BY <2>0, <3>1, <3>2
  <2>3. \A i \in 0 .. k + 1 : F(h, i) = F(g, i)
    <3> HIDE DEF h
    <3>1. QED
      BY <2>0, <2>2
  <2>4. h = [i \in 0 .. k + 1 |-> F(h, i)]
    <3> HIDE DEF F
    <3>1. QED
      BY <2>3
  <2>5. \E f : f = [i \in 0 .. k + 1 |-> F(f, i)]
    <3> HIDE DEF h
    <3> WITNESS h
    <3>1. QED
      BY <2>4
  <2>6. QED
    BY <2>0, <2>5, Zenon DEF A
<1>3. n \in A
  <2> HIDE DEF A
  <2>1. A \in SUBSET Nat
    BY DEF A
  <2>2. QED
    BY <1>1, <1>2, <2>1, SetInduction
<1>4. QED
  BY <1>3 DEF Sel

\* The samples of a chain, in the order of the chain.
Increasing(q) == \A i, j \in 1 .. Len(q) : i < j => q[i] < q[j]
Picks(c, k, q) ==
  /\ q \in Seq(Nat) /\ Increasing(q)
  /\ \A i \in 1 .. Len(q) : \E j \in 1 .. k : ~ c[j].gap /\ c[j].seq = q[i]
  /\ \A j \in 1 .. k : ~ c[j].gap => \E i \in 1 .. Len(q) : q[i] = c[j].seq

\* A sample is appended to what was picked before it.
LEMMA PicksNext ==
  ASSUME NEW c \in Seq(Elems), Sorted(c), NEW k \in Nat, k + 1 \in 1 .. Len(c),
         NEW q, Picks(c, k, q), ~ c[k + 1].gap
  PROVE  Picks(c, k + 1, Append(q, c[k + 1].seq))
<1> DEFINE s == c[k + 1].seq
           a == Append(q, s)
           m == Len(q)
<1>1. /\ Len(c) \in Nat /\ s \in Nat
      /\ \A i \in 1 .. k : c[i].seq \in Nat /\ c[i].seq < s
  <2>1. Len(c) \in Nat /\ \A i \in 1 .. Len(c) : c[i].seq \in Nat
    BY ChainElem
  <2>2. \A i \in 1 .. k : i \in 1 .. Len(c) /\ i < k + 1
    BY <2>1
  <2>3. QED
    BY <2>1, <2>2 DEF Sorted
<1>2. q \in Seq(Nat) /\ m \in Nat
  BY LenProperties DEF Picks
<1>3. /\ a \in Seq(Nat) /\ Len(a) = m + 1 /\ a[m + 1] = s
      /\ \A i \in 1 .. m : a[i] = q[i]
  <2>1. a \in Seq(Nat) /\ Len(a) = m + 1
    BY <1>1, <1>2, AppendProperties
  <2>2. a[m + 1] = s /\ \A i \in 1 .. m : a[i] = q[i]
    BY <1>1, <1>2, AppendProperties
  <2>3. QED
    BY <2>1, <2>2
<1> HIDE DEF a
<1>4. \A i \in 1 .. m : \E j \in 1 .. k : ~ c[j].gap /\ c[j].seq = q[i]
  BY DEF Picks
<1>5. \A i \in 1 .. m : q[i] < s
  BY <1>1, <1>4
<1> HIDE DEF s, m
<1>6. Increasing(a)
  <2> SUFFICES ASSUME NEW i \in 1 .. m + 1, NEW j \in 1 .. m + 1, i < j PROVE a[i] < a[j]
    BY <1>3 DEF Increasing
  <2>1. i \in 1 .. m
    BY <1>2
  <2>2. CASE j = m + 1
    BY <1>3, <1>5, <2>1, <2>2
  <2>3. CASE j # m + 1
    <3>1. j \in 1 .. m
      BY <1>2, <2>3
    <3>2. q[i] < q[j]
      BY <2>1, <3>1 DEF Picks, Increasing, m
    <3>3. QED
      BY <1>3, <2>1, <3>1, <3>2
  <2>4. QED
    BY <2>2, <2>3
<1>7. ASSUME NEW i \in 1 .. Len(a) PROVE \E j \in 1 .. k + 1 : ~ c[j].gap /\ c[j].seq = a[i]
  <2>1. CASE i = m + 1
    BY <1>3, <2>1 DEF s
  <2>2. CASE i # m + 1
    <3>1. i \in 1 .. m
      BY <1>2, <1>3, <2>2
    <3>2. QED
      BY <1>3, <1>4, <3>1
  <2>3. QED
    BY <2>1, <2>2
<1>8. ASSUME NEW j \in 1 .. k + 1, ~ c[j].gap PROVE \E i \in 1 .. Len(a) : a[i] = c[j].seq
  <2>1. CASE j = k + 1
    <3>1. m + 1 \in 1 .. Len(a) /\ a[m + 1] = c[j].seq
      BY <1>2, <1>3, <2>1 DEF s
    <3>2. QED
      BY <3>1
  <2>2. CASE j # k + 1
    <3>1. j \in 1 .. k
      BY <2>2
    <3>2. PICK i \in 1 .. m : q[i] = c[j].seq
      BY <1>8, <3>1 DEF Picks, m
    <3>3. i \in 1 .. Len(a) /\ a[i] = c[j].seq
      BY <1>2, <1>3, <3>2
    <3>4. QED
      BY <3>3
  <2>3. QED
    BY <2>1, <2>2
<1>9. QED
  BY <1>3, <1>6, <1>7, <1>8 DEF Picks, a, s

\* Delivering a chain yields its samples, all of them, in increasing order.
LEMMA SampleSeqsPicks ==
  ASSUME NEW c \in Seq(Elems), Sorted(c)
  PROVE  Picks(c, Len(c), SampleSeqs(c))
<1> DEFINE n == Len(c)
           g == Selected(c)
           A == {k \in Nat : k <= n => Picks(c, k, g[k])}
<1>1. n \in Nat
  BY LenProperties
<1>2. SampleSeqs(c) = g[n]
  BY DEF SampleSeqs, Selected, Sel
<1>3. Sel(c, n, g)
  BY <1>1, SelExists, Zenon DEF Selected
<1> HIDE DEF g, n
<1>4. /\ g[0] = <<>>
      /\ \A i \in 1 .. n : g[i] = IF c[i].gap THEN g[i - 1] ELSE Append(g[i - 1], c[i].seq)
  <2>1. g = [i \in 0 .. n |-> IF i = 0 THEN <<>>
                             ELSE IF c[i].gap THEN g[i - 1] ELSE Append(g[i - 1], c[i].seq)]
    BY <1>3 DEF Sel
  <2>2. 0 \in 0 .. n /\ \A i \in 1 .. n : i \in 0 .. n /\ i # 0
    BY <1>1
  <2>3. \A i \in 0 .. n : g[i] = IF i = 0 THEN <<>>
                                 ELSE IF c[i].gap THEN g[i - 1] ELSE Append(g[i - 1], c[i].seq)
    BY <2>1, Zenon
  <2>4. g[0] = <<>>
    BY <2>2, <2>3
  <2>5. \A i \in 1 .. n : g[i] = IF c[i].gap THEN g[i - 1] ELSE Append(g[i - 1], c[i].seq)
    BY <2>2, <2>3
  <2>6. QED
    BY <2>4, <2>5
<1>5. 0 \in A
  <2>1. Picks(c, 0, <<>>)
    BY DEF Picks, Increasing
  <2>2. QED
    BY <1>4, <2>1
<1>6. ASSUME NEW k \in A PROVE k + 1 \in A
  <2> SUFFICES ASSUME k + 1 <= n PROVE Picks(c, k + 1, g[k + 1])
    OBVIOUS
  <2>1. k \in Nat /\ k <= n /\ k + 1 \in 1 .. n /\ k + 1 - 1 = k
    BY <1>1
  <2>2. Picks(c, k, g[k])
    BY <2>1
  <2>6. g[k + 1] = IF c[k + 1].gap THEN g[k] ELSE Append(g[k], c[k + 1].seq)
    <3>1. ASSUME NEW p \in 1 .. n, p - 1 = k
          PROVE  g[p] = IF c[p].gap THEN g[k] ELSE Append(g[k], c[p].seq)
      <4>1. g[p] = IF c[p].gap THEN g[p - 1] ELSE Append(g[p - 1], c[p].seq)
        BY <1>4
      <4>2. QED
        BY <3>1, <4>1
    <3>2. QED
      BY <2>1, <3>1
  <2>3. CASE ~ c[k + 1].gap
    <3>1. g[k + 1] = Append(g[k], c[k + 1].seq)
      BY <2>3, <2>6
    <3>2. QED
      BY <2>1, <2>2, <2>3, <3>1, PicksNext DEF n
  <2>4. CASE c[k + 1].gap
    <3>1. g[k + 1] = g[k]
      BY <2>4, <2>6
    <3>2. \A j \in 1 .. k + 1 : ~ c[j].gap => j \in 1 .. k
      BY <2>1, <2>4
    <3>3. \A j \in 1 .. k : j \in 1 .. k + 1
      BY <2>1
    <3>4. QED
      BY <2>2, <3>1, <3>2, <3>3 DEF Picks
  <2>5. QED
    BY <2>3, <2>4
<1>7. n \in A
  <2> HIDE DEF A
  <2>1. A \in SUBSET Nat
    BY DEF A
  <2>2. QED
    BY <1>1, <1>5, <1>6, <2>1, SetInduction
<1>8. QED
  BY <1>2, <1>7 DEF n

\* A chain is no longer than the range of its numbers.
LEMMA SortedLength ==
  ASSUME NEW c \in Seq(Elems), Sorted(c), NEW x \in Nat, NEW y \in Nat, x <= y, Within(c, x, y)
  PROVE  Len(c) <= y - x
<1> DEFINE n == Len(c)
           A == {k \in Nat : k + 1 \in 1 .. n => x + k <= c[k + 1].seq}
<1>1. /\ n \in Nat /\ \A i \in 1 .. n : c[i].seq \in Nat /\ x <= c[i].seq /\ c[i].seq < y
  BY ChainElem DEF Within
<1>2. \A i, j \in 1 .. n : i < j => c[i].seq < c[j].seq
  BY DEF Sorted
<1> HIDE DEF n
<1>3. 0 \in A
  BY <1>1
<1>4. ASSUME NEW k \in A PROVE k + 1 \in A
  <2> SUFFICES ASSUME k + 1 + 1 \in 1 .. n PROVE x + k + 1 <= c[k + 1 + 1].seq
    OBVIOUS
  <2>1. k \in Nat /\ k + 1 \in 1 .. n /\ k + 1 < k + 1 + 1
    BY <1>1
  <2>2. x + k <= c[k + 1].seq
    BY <2>1
  <2>3. c[k + 1].seq < c[k + 1 + 1].seq /\ c[k + 1].seq \in Nat /\ c[k + 1 + 1].seq \in Nat
    BY <1>1, <1>2, <2>1
  <2>4. QED
    BY <2>1, <2>2, <2>3
<1>5. \A k \in Nat : k \in A
  <2> HIDE DEF A
  <2>1. A \in SUBSET Nat
    BY DEF A
  <2>2. QED
    BY <1>3, <1>4, <2>1, SetInduction
<1>6. CASE n = 0
  BY <1>6 DEF n
<1>7. CASE n # 0
  <2>1. n - 1 \in Nat /\ n - 1 + 1 = n /\ n \in 1 .. n
    BY <1>1, <1>7
  <2>2. n - 1 \in A
    BY <1>5, <2>1
  <2>3. x + (n - 1) <= c[n].seq
    BY <2>1, <2>2
  <2>4. c[n].seq \in Nat /\ c[n].seq < y
    BY <1>1, <2>1
  <2>5. QED
    BY <1>1, <2>3, <2>4 DEF n
<1>8. QED
  BY <1>6, <1>7

-----------------------------------------------------------------------------
(* The intervals the operations build *)

\* An interval of the tree, of the right shape.
Whole(iv) == iv \in Intervals /\ Chained(iv)

\* An interval of one element.
LEMMA OneElem ==
  ASSUME NEW e \in Elems, NEW x \in Nat, NEW y \in 0 .. Bound, x <= e.seq, e.seq < y
  PROVE  LET iv == [min |-> x, maxp1 |-> y, chain |-> <<e>>, mem |-> e]
         IN  Whole(iv) /\ Len(iv.chain) = 1 /\ ElemsOf(iv.chain) = {e}
<1> DEFINE iv == [min |-> x, maxp1 |-> y, chain |-> <<e>>, mem |-> e]
<1>1. <<e>> \in Seq(Elems) /\ Len(<<e>>) = 1 /\ <<e>>[1] = e /\ <<e>> # <<>>
  OBVIOUS
<1>2. iv \in Intervals
  BY <1>1 DEF Intervals
<1>3. Sorted(<<e>>) /\ Within(<<e>>, x, y)
  BY <1>1 DEF Sorted, Within
<1>4. Chained(iv)
  BY <1>1, <1>3 DEF Chained
<1>5. ElemsOf(<<e>>) = {e}
  BY <1>1 DEF ElemsOf
<1>6. QED
  BY <1>1, <1>2, <1>4, <1>5 DEF Whole

\* The interval nn_reorder_rsample makes of a sample.
LEMMA SingletonWhole ==
  ASSUME NEW s \in Nat, s < Bound
  PROVE  /\ Whole(Singleton(s)) /\ Singleton(s).min = s /\ Singleton(s).maxp1 = s + 1
         /\ Len(Singleton(s).chain) = 1 /\ ElemsOf(Singleton(s).chain) = {SampleElem(s)}
<1>1. SampleElem(s) \in Elems /\ SampleElem(s).seq = s
  BY DEF SampleElem, Elems
<1>2. s + 1 \in 0 .. Bound
  BY BoundNat
<1>3. QED
  BY <1>1, <1>2, OneElem DEF Singleton

\* An interval is its four fields.
LEMMA Fields ==
  ASSUME NEW a \in Intervals
  PROVE  a = [min |-> a.min, maxp1 |-> a.maxp1, chain |-> a.chain, mem |-> a.mem]
  BY DEF Intervals

\* Replacing the chain and the end keeps min and the owner of the node.
LEMMA ChainAndEnd ==
  ASSUME NEW a \in Intervals, NEW c \in Seq(Elems), NEW y \in 0 .. Bound
  PROVE  [a EXCEPT !.chain = c, !.maxp1 = y]
           = [min |-> a.min, maxp1 |-> y, chain |-> c, mem |-> a.mem]
<1> DEFINE v == [a EXCEPT !.chain = c, !.maxp1 = y]
<1>1. v \in Intervals
  BY DEF Intervals
<1>2. v.min = a.min /\ v.maxp1 = y /\ v.chain = c /\ v.mem = a.mem
  BY DEF Intervals
<1> HIDE DEF v
<1>3. v = [min |-> v.min, maxp1 |-> v.maxp1, chain |-> v.chain, mem |-> v.mem]
  BY <1>1, Fields
<1>4. QED
  BY <1>2, <1>3 DEF v

\* append_rsample_interval: the chains are joined, the end is that of the second.
LEMMA AppendWhole ==
  ASSUME NEW a, Whole(a), NEW d, Whole(d), a.maxp1 <= d.min
  PROVE  LET v == AppendInterval(a, d)
         IN  /\ Whole(v) /\ v.min = a.min /\ v.maxp1 = d.maxp1
             /\ Len(v.chain) = Len(a.chain) + Len(d.chain)
             /\ ElemsOf(v.chain) = ElemsOf(a.chain) \cup ElemsOf(d.chain)
<1> DEFINE v == AppendInterval(a, d)
           e == a.chain \o d.chain
<1>1. /\ a.min \in Nat /\ a.maxp1 \in Nat /\ a.min < a.maxp1 /\ a.maxp1 <= Bound
      /\ d.min \in Nat /\ d.maxp1 \in Nat /\ d.min < d.maxp1 /\ d.maxp1 <= Bound
      /\ Len(a.chain) \in Nat \ {0}
  BY ChainedSpan DEF Whole
<1>2. a.chain \in Seq(Elems) /\ d.chain \in Seq(Elems) /\ a.mem \in Elems
  BY DEF Whole, Intervals
<1>3. /\ e \in Seq(Elems) /\ Len(e) = Len(a.chain) + Len(d.chain)
      /\ Sorted(e) /\ Within(e, a.min, d.maxp1)
  <2>1. /\ Sorted(a.chain) /\ Sorted(d.chain)
        /\ Within(a.chain, a.min, a.maxp1) /\ Within(d.chain, d.min, d.maxp1)
    BY DEF Whole, Chained
  <2>2. /\ a.min \in Int /\ a.maxp1 \in Int /\ d.min \in Int /\ d.maxp1 \in Int
        /\ a.min <= d.min /\ a.maxp1 <= d.maxp1
    BY <1>1
  <2>3. QED
    BY <1>2, <2>1, <2>2, ConcatSorted
<1>4. e # <<>> /\ e[1] = a.chain[1]
  <2> DEFINE m == Len(a.chain)
             n == Len(d.chain)
  <2>1. n \in Nat /\ m \in Nat \ {0} /\ Len(e) = m + n
    BY <1>1, <1>2, <1>3, LenProperties
  <2>2. \A i \in 1 .. m + n : e[i] = IF i <= m THEN a.chain[i] ELSE d.chain[i - m]
    BY <1>2, ConcatProperties
  <2> HIDE DEF m, n
  <2>3. 1 \in 1 .. m + n /\ 1 <= m
    BY <2>1
  <2>4. e[1] = a.chain[1]
    BY <2>2, <2>3
  <2>5. Len(e) # 0
    <3> HIDE DEF e
    <3>1. QED
      BY <2>1
  <2>6. e # <<>>
    <3> HIDE DEF e
    <3>1. QED
      BY <1>3, <2>5, EmptySeq
  <2>7. QED
    BY <2>4, <2>6
<1>5. v = [min |-> a.min, maxp1 |-> d.maxp1, chain |-> e, mem |-> a.mem]
  <2>1. v = [a EXCEPT !.chain = e, !.maxp1 = d.maxp1]
    BY DEF AppendInterval
  <2>2. a \in Intervals /\ e \in Seq(Elems) /\ d.maxp1 \in 0 .. Bound
    BY <1>1, <1>3, BoundNat DEF Whole
  <2>3. QED
    <3> HIDE DEF v, e
    <3>1. QED
      BY <2>1, <2>2, ChainAndEnd, Zenon
<1>6. ElemsOf(e) = ElemsOf(a.chain) \cup ElemsOf(d.chain)
  BY <1>2, ElemsOfConcat
<1>7. a.mem = a.chain[1]
  BY DEF Whole, Chained
<1> HIDE DEF v, e
<1>8. v \in Intervals
  BY <1>1, <1>2, <1>3, <1>5, BoundNat DEF Intervals
<1>9. Chained(v)
  BY <1>3, <1>4, <1>5, <1>7 DEF Chained
<1>10. Whole(v) /\ v.min = a.min /\ v.maxp1 = d.maxp1 /\ v.chain = e
  BY <1>5, <1>8, <1>9 DEF Whole
<1>11. QED
  BY <1>3, <1>6, <1>10 DEF v

\* GrowSuccAtHead.
AtHead(s, succ) ==
  [succ EXCEPT !.min = s, !.chain = <<SampleElem(s)>> \o @, !.mem = SampleElem(s)]

\* A sample put in front: its own memory now holds the node.
LEMMA AtHeadWhole ==
  ASSUME NEW s \in Nat, NEW d, Whole(d), d.min = s + 1
  PROVE  LET v == AtHead(s, d)
         IN  /\ Whole(v) /\ v.min = s /\ v.maxp1 = d.maxp1
             /\ Len(v.chain) = Len(d.chain) + 1
             /\ ElemsOf(v.chain) = {SampleElem(s)} \cup ElemsOf(d.chain)
<1>1. d.maxp1 \in Nat /\ s + 1 < d.maxp1 /\ d.maxp1 <= Bound /\ Len(d.chain) \in Nat
  BY ChainedSpan DEF Whole
<1>2. s < Bound
  BY <1>1, BoundNat
<1> DEFINE a == Singleton(s)
           v == AppendInterval(a, d)
<1>3. /\ Whole(a) /\ a.min = s /\ a.maxp1 = s + 1
      /\ Len(a.chain) = 1 /\ ElemsOf(a.chain) = {SampleElem(s)}
  BY <1>2, SingletonWhole
<1>4. AtHead(s, d) = v
  <2> DEFINE e == <<SampleElem(s)>> \o d.chain
             w == [min |-> s, maxp1 |-> d.maxp1, chain |-> e, mem |-> SampleElem(s)]
  <2>0. e \in Seq(Elems)
    <3>1. d.chain \in Seq(Elems) /\ <<SampleElem(s)>> \in Seq(Elems)
      BY DEF Whole, Intervals, SampleElem, Elems
    <3>2. QED
      BY <3>1, ConcatProperties
  <2>1. d = [min |-> d.min, maxp1 |-> d.maxp1, chain |-> d.chain, mem |-> d.mem]
    BY Fields DEF Whole
  <2>2. AtHead(s, d) = [d EXCEPT !.min = s, !.chain = e, !.mem = SampleElem(s)]
    BY DEF AtHead
  <2>3. AtHead(s, d) = w
    <3> HIDE DEF e
    <3>1. QED
      BY <2>1, <2>2
  <2>4. v = [a EXCEPT !.chain = e, !.maxp1 = d.maxp1]
    BY DEF AppendInterval, Singleton
  <2>5. v = [min |-> a.min, maxp1 |-> d.maxp1, chain |-> e, mem |-> a.mem]
    <3> HIDE DEF e, a, v
    <3>1. a \in Intervals /\ d.maxp1 \in 0 .. Bound
      BY <1>1, <1>3, BoundNat DEF Whole
    <3>2. QED
      BY <2>0, <2>4, <3>1, ChainAndEnd, Zenon
  <2>6. a.min = s /\ a.mem = SampleElem(s)
    BY DEF Singleton
  <2>7. QED
    <3> HIDE DEF e, a, v
    <3>1. QED
      BY <2>3, <2>5, <2>6
<1> HIDE DEF a
<1>5. /\ Whole(v) /\ v.min = a.min /\ v.maxp1 = d.maxp1
      /\ Len(v.chain) = Len(a.chain) + Len(d.chain)
      /\ ElemsOf(v.chain) = ElemsOf(a.chain) \cup ElemsOf(d.chain)
  <2>1. a.maxp1 <= d.min
    BY <1>3
  <2>2. QED
    BY <1>3, <2>1, AppendWhole
<1>6. QED
  BY <1>1, <1>3, <1>4, <1>5

\* DeleteLastSample.
Cut(iv) == [iv EXCEPT !.chain = SubSeq(@, 1, Len(@) - 1), !.maxp1 = @ - 1]

\* The last element cut off was the highest, and the node's owner, the first, stays.
LEMMA CutWhole ==
  ASSUME NEW a, Whole(a), Len(a.chain) # 1
  PROVE  LET v == Cut(a)
             e == a.chain[Len(a.chain)]
         IN  /\ Whole(v) /\ v.min = a.min /\ v.maxp1 = a.maxp1 - 1
             /\ Len(v.chain) = Len(a.chain) - 1
             /\ e \in Elems /\ ElemsOf(a.chain) = ElemsOf(v.chain) \cup {e}
             /\ \A k \in ElemsOf(v.chain) : k.seq < e.seq
<1> DEFINE c == a.chain
           n == Len(c)
           d == SubSeq(c, 1, n - 1)
           v == Cut(a)
<1>1. /\ a.min \in Nat /\ a.maxp1 \in Nat /\ a.min < a.maxp1 /\ a.maxp1 <= Bound
      /\ n \in Nat \ {0}
  BY ChainedSpan DEF Whole
<1>2. c \in Seq(Elems) /\ a.mem \in Elems /\ n - 1 \in Nat \ {0}
  BY <1>1 DEF Whole, Intervals
<1>3. /\ d \in Seq(Elems) /\ Len(d) = n - 1
      /\ \A i \in 1 .. n - 1 : d[i] = c[i]
  <2>1. 1 \in 1 .. n + 1 /\ n - 1 \in 0 .. n
    BY <1>1, <1>2
  <2>2. /\ d \in Seq(Elems)
        /\ Len(d) = IF 1 <= n - 1 THEN n - 1 - 1 + 1 ELSE 0
        /\ \A i \in 1 .. n - 1 - 1 + 1 : d[i] = c[1 + i - 1]
    BY <1>1, <1>2, <2>1, SubSeqProperties
  <2> HIDE DEF n, d, c
  <2>3. n - 1 - 1 + 1 = n - 1 /\ 1 <= n - 1
    BY <1>1, <1>2
  <2>4. \A i \in 1 .. n - 1 : 1 + i - 1 = i
    BY <1>1
  <2>5. QED
    BY <2>2, <2>3, <2>4
<1>4. /\ \A i \in 1 .. n : c[i] \in Elems /\ c[i].seq \in Nat /\ a.min <= c[i].seq /\ c[i].seq < a.maxp1
      /\ \A i, j \in 1 .. n : i < j => c[i].seq < c[j].seq
      /\ a.mem = c[1]
  BY <1>2, ChainElem DEF Whole, Chained, Sorted, Within
<1>5. v = [min |-> a.min, maxp1 |-> a.maxp1 - 1, chain |-> d, mem |-> a.mem]
  <2>1. v = [a EXCEPT !.chain = d, !.maxp1 = a.maxp1 - 1]
    BY DEF Cut
  <2>2. QED
    <3> HIDE DEF v, d
    <3>1. a \in Intervals /\ d \in Seq(Elems) /\ a.maxp1 - 1 \in 0 .. Bound
      BY <1>1, <1>3, BoundNat DEF Whole
    <3>2. QED
      BY <2>1, <3>1, ChainAndEnd, Zenon
<1> HIDE DEF v, d, n, c
<1>6. \A i \in 1 .. n - 1 : c[i].seq < c[n].seq /\ a.min <= c[i].seq /\ c[i].seq < a.maxp1 - 1
  <2> SUFFICES ASSUME NEW i \in 1 .. n - 1
               PROVE  c[i].seq < c[n].seq /\ a.min <= c[i].seq /\ c[i].seq < a.maxp1 - 1
    OBVIOUS
  <2>1. i \in 1 .. n /\ n \in 1 .. n /\ i < n
    BY <1>1
  <2>2. /\ c[i].seq \in Nat /\ c[n].seq \in Nat /\ c[i].seq < c[n].seq
        /\ c[n].seq < a.maxp1 /\ a.min <= c[i].seq
    BY <1>4, <2>1
  <2>3. QED
    BY <1>1, <2>2
<1>7. Sorted(d) /\ Within(d, a.min, a.maxp1 - 1)
  <2>1. Within(d, a.min, a.maxp1 - 1)
    BY <1>3, <1>6 DEF Within
  <2>2. Sorted(d)
    <3>1. \A i \in 1 .. n - 1 : i \in 1 .. n
      BY <1>1
    <3>2. QED
      BY <1>3, <1>4, <3>1 DEF Sorted
  <2>3. QED
    BY <2>1, <2>2
<1>8. Whole(v)
  <2>1. v \in Intervals
    BY <1>1, <1>2, <1>3, <1>5, BoundNat DEF Intervals
  <2>2. 1 \in 1 .. n - 1
    BY <1>1, <1>2
  <2>3. d # <<>> /\ d[1] = c[1]
    BY <1>2, <1>3, <2>2, EmptySeq
  <2>4. Chained(v)
    BY <1>4, <1>5, <1>7, <2>3 DEF Chained
  <2>5. QED
    BY <2>1, <2>4 DEF Whole
<1>9. ElemsOf(c) = ElemsOf(d) \cup {c[n]} /\ \A k \in ElemsOf(d) : k.seq < c[n].seq
  <2>1. \A i \in 1 .. n : i = n \/ i \in 1 .. n - 1
    BY <1>1
  <2>2. \A i \in 1 .. n - 1 : i \in 1 .. n
    BY <1>1
  <2>3. n \in 1 .. n
    BY <1>1
  <2>4. \A e \in ElemsOf(c) : e \in ElemsOf(d) \cup {c[n]}
    BY <1>3, <2>1 DEF ElemsOf, n
  <2>5. \A e \in ElemsOf(d) : e \in ElemsOf(c) /\ e.seq < c[n].seq
    BY <1>3, <1>6, <2>2 DEF ElemsOf, n
  <2>6. c[n] \in ElemsOf(c)
    BY <2>3 DEF ElemsOf, n
  <2>7. QED
    BY <2>4, <2>5, <2>6
<1>10. c[n] \in Elems
  BY <1>1, <1>4
<1>11. QED
  BY <1>3, <1>5, <1>8, <1>9, <1>10 DEF v, n, c

-----------------------------------------------------------------------------
(* Adding, removing and replacing intervals *)

\* The elements stored in, and the numbers spanned by, a set of intervals.
Stored(T) == UNION {ElemsOf(iv.chain) : iv \in T}
Spanned(T) == UNION {Span(iv) : iv \in T}

\* An interval that touches none is added.
LEMMA TreeAdd ==
  ASSUME NEW b \in Nat, NEW T, Tree(T, b), NEW x, Whole(x), b < x.min,
         \A j \in T : j.maxp1 < x.min \/ x.maxp1 < j.min, NEW U, U = T \cup {x}
  PROVE  Tree(U, b) /\ x \notin T /\ Total(U) = Total(T) + Len(x.chain)
<1>1. x \in Intervals /\ Chained(x) /\ x.min \in Nat /\ x.maxp1 \in Nat /\ x.min < x.maxp1
  BY ChainedSpan DEF Whole
<1>2. x \notin T
  BY <1>1
<1>3. /\ T \in SUBSET Intervals /\ IsFiniteSet(T) /\ Apart(T)
      /\ \A iv \in T : Chained(iv) /\ b < iv.min
  BY DEF Tree
<1>4. IsFiniteSet(T \cup {x}) /\ Total(T \cup {x}) = Total(T) + Len(x.chain)
  BY <1>1, <1>2, <1>3, TotalAdd
<1>5. Apart(T \cup {x})
  BY <1>3 DEF Apart
<1>6. QED
  BY <1>1, <1>2, <1>3, <1>4, <1>5 DEF Tree

\* An interval is removed.
LEMMA TreeRemove ==
  ASSUME NEW b \in Nat, NEW T, Tree(T, b), NEW y \in T
  PROVE  /\ Tree(T \ {y}, b) /\ Total(T) \in Nat /\ Total(T \ {y}) \in Nat
         /\ Total(T) = Total(T \ {y}) + Len(y.chain) /\ Len(y.chain) \in Nat \ {0}
<1>1. T \in SUBSET Intervals /\ IsFiniteSet(T) /\ Whole(y)
  BY DEF Tree, Whole
<1>2. Tree(T \ {y}, b)
  BY Subtree
<1>3. Total(T) \in Nat /\ Total(T) = Len(y.chain) + Total(T \ {y})
  BY <1>1, TotalRemove
<1>4. Total(T \ {y}) \in Nat
  BY <1>2, TotalNat DEF Tree
<1>5. Len(y.chain) \in Nat \ {0}
  BY <1>1, ChainedSpan DEF Whole
<1>6. QED
  BY <1>2, <1>3, <1>4, <1>5

\* An interval is replaced by one that touches none of the others.
LEMMA TreeSwap ==
  ASSUME NEW b \in Nat, NEW T, Tree(T, b), NEW y \in T, NEW x, Whole(x), b < x.min,
         \A j \in T \ {y} : j.maxp1 < x.min \/ x.maxp1 < j.min, NEW U, U = (T \ {y}) \cup {x}
  PROVE  Tree(U, b) /\ Total(U) = Total(T) - Len(y.chain) + Len(x.chain)
<1> DEFINE R == T \ {y}
<1>1. /\ Tree(R, b) /\ Total(T) \in Nat /\ Total(R) \in Nat
      /\ Total(T) = Total(R) + Len(y.chain) /\ Len(y.chain) \in Nat \ {0}
  BY TreeRemove
<1> HIDE DEF R
<1>2. Tree(U, b) /\ Total(U) = Total(R) + Len(x.chain)
  BY <1>1, TreeAdd DEF R
<1>3. Len(x.chain) \in Nat
  BY ChainedSpan DEF Whole
<1>4. QED
  BY <1>1, <1>2, <1>3 DEF R

\* The lower bound may be any that is below all intervals.
LEMMA TreeRaise ==
  ASSUME NEW b, NEW T, Tree(T, b), NEW c, \A iv \in T : c < iv.min
  PROVE  Tree(T, c)
  BY DEF Tree

\* The empty tree.
LEMMA TreeEmpty == ASSUME NEW b PROVE Tree({}, b) /\ Total({}) = 0
<1>1. IsFiniteSet({})
  BY FS_EmptySet
<1>2. Total({}) = 0
  BY <1>1, TotalRemoveChosen
<1>3. QED
  BY <1>1, <1>2 DEF Tree, Apart

\* What is stored after adding an interval.
LEMMA StoredAdd ==
  ASSUME NEW T, NEW x
  PROVE  /\ Stored(T \cup {x}) = Stored(T) \cup ElemsOf(x.chain)
         /\ Spanned(T \cup {x}) = Spanned(T) \cup Span(x)
  BY DEF Stored, Spanned

\* What was stored before removing one.
LEMMA StoredRemove ==
  ASSUME NEW T, NEW y \in T
  PROVE  /\ Stored(T) = Stored(T \ {y}) \cup ElemsOf(y.chain)
         /\ Spanned(T) = Spanned(T \ {y}) \cup Span(y)
<1>1. T = (T \ {y}) \cup {y}
  OBVIOUS
<1> DEFINE R == T \ {y}
<1> HIDE DEF R
<1>2. QED
  BY <1>1, StoredAdd DEF R

-----------------------------------------------------------------------------
(* The last interval and max_sampleiv *)

\* MaxKey is the min of the last interval.
LEMMA MaxKeyIs ==
  ASSUME NEW b \in Nat, NEW T, Tree(T, b), NEW m \in T, \A j \in T : j.min <= m.min
  PROVE  MaxKey(T) = m.min
<1>1. \A i \in T : i.min \in Nat
  BY TreeSpans
<1>2. \A i, j \in T : i.min = j.min => i = j
  BY TreeSpans
<1>3. FindMax(T) = {m}
  <2>1. m \in FindMax(T)
    BY DEF FindMax
  <2>2. ASSUME NEW i \in FindMax(T) PROVE i = m
    <3>1. i \in T /\ m.min <= i.min
      BY DEF FindMax
    <3>2. i.min = m.min
      BY <1>1, <3>1
    <3>3. QED
      BY <1>2, <3>1, <3>2
  <2>3. QED
    BY <2>1, <2>2
<1>4. (CHOOSE iv \in {m} : TRUE) = m
  OBVIOUS
<1>5. QED
  BY <1>3, <1>4 DEF MaxKey, KeyOf

\* There is no last interval in the empty tree.
LEMMA MaxKeyEmpty == MaxKey({}) = 0
  BY DEF MaxKey, KeyOf, FindMax

\* MaxKey tells an empty tree from one that is not.
LEMMA MaxKeyNat ==
  ASSUME NEW b \in Nat, NEW T, Tree(T, b) PROVE MaxKey(T) \in Nat /\ (T # {} => MaxKey(T) # 0)
<1>1. CASE T = {}
  BY <1>1, MaxKeyEmpty
<1>2. CASE T # {}
  <2>1. PICK m \in T : \A j \in T : j.min <= m.min
    BY <1>2, TreeLast
  <2>2. m.min \in Nat /\ b < m.min
    BY TreeSpans
  <2>3. QED
    BY <2>1, <2>2, MaxKeyIs
<1>3. QED
  BY <1>1, <1>2

\* max_sampleiv is the interval the assertions of nn_reorder_rsample take it for.
LEMMA LastInterval ==
  ASSUME NEW r, r.next \in Nat, Tree(r.ivs, r.next), r.max = MaxKey(r.ivs), r.ivs # {}
  PROVE  /\ MaxSampleIv(r) \in r.ivs /\ MaxSampleIv(r).min = r.max
         /\ \A j \in r.ivs : j.min <= r.max /\ (j # MaxSampleIv(r) => j.maxp1 < r.max)
<1>1. PICK m \in r.ivs : \A j \in r.ivs : j.min <= m.min /\ (j # m => j.maxp1 < m.min)
  BY TreeLast
<1>2. r.max = m.min
  BY <1>1, MaxKeyIs
<1>3. MaxSampleIv(r) \in r.ivs /\ MaxSampleIv(r).min = r.max
  BY <1>2 DEF MaxSampleIv
<1>4. MaxSampleIv(r) = m
  BY <1>2, <1>3, TreeSpans
<1>5. QED
  BY <1>1, <1>2, <1>3, <1>4

-----------------------------------------------------------------------------
(* What an operation may do *)

\* The numbers that are never asked for again: passed over, or in an interval.
Cover(r) == (1 .. r.next - 1) \cup Spanned(r.ivs)

\* From r to q, delivering out: E are the elements that came in and [lo, hi) the
\* numbers they account for.
Effect(r, q, out, E, lo, hi) ==
  /\ Good(q) /\ q.mode = r.mode /\ q.maxSamples = r.maxSamples
  /\ out \in Seq(Elems) /\ Sorted(out)
  /\ r.mode # "always" => r.next <= q.next /\ Within(out, r.next, q.next)
  /\ r.mode = "normal" =>
       /\ Cover(q) \subseteq Cover(r) \cup (lo .. hi - 1)
       /\ \A e \in Stored(r.ivs) \cup E :
            \/ e \in Stored(q.ivs) \cup ElemsOf(out)
            \/ r.n = r.maxSamples /\ \A k \in Stored(q.ivs) : k.seq < e.seq

\* What is known of an administration.
LEMMA GoodFacts ==
  ASSUME NEW r, Good(r)
  PROVE  /\ r \in Admins /\ r.next \in Nat /\ r.next # 0 /\ r.max \in Nat /\ r.n \in Nat
         /\ r.maxSamples \in Nat /\ r.mode \in Modes /\ Tree(r.ivs, r.next)
         /\ r.n = Total(r.ivs) /\ r.max = MaxKey(r.ivs) /\ r.n <= r.maxSamples
         /\ r.mode # "normal" => r.ivs = {}
<1>1. r.n \in Nat
  BY TotalNat DEF Good, Tree
<1>2. QED
  BY <1>1 DEF Good, Admins

\* The empty chain is a chain...
LEMMA EmptyChain == <<>> \in Seq(Elems) /\ Sorted(<<>>) /\ ElemsOf(<<>>) = {} /\ Len(<<>>) = 0
  BY DEF Sorted, ElemsOf

\* ... that lies in any range.
LEMMA EmptyWithin == ASSUME NEW x, NEW y PROVE Within(<<>>, x, y)
  BY DEF Within

\* Rejecting a sample is one of the things an operation may do.
LEMMA NoEffect == ASSUME NEW r, Good(r), NEW lo, NEW hi PROVE Effect(r, r, <<>>, {}, lo, hi)
<1>1. r.next <= r.next
  BY GoodFacts
<1>2. QED
  BY <1>1, EmptyChain, EmptyWithin DEF Effect

\* Replacing the four fields that operations change.
Updated(r, T, m, x, k) == [r EXCEPT !.ivs = T, !.max = m, !.next = x, !.n = k]

\* Which fields that changes.
LEMMA Update ==
  ASSUME NEW r \in Admins, NEW T \in SUBSET Intervals, NEW m \in Nat, NEW x \in Nat \ {0},
         NEW k \in Int, NEW q, q = Updated(r, T, m, x, k)
  PROVE  /\ q \in Admins /\ q.ivs = T /\ q.max = m /\ q.next = x /\ q.n = k
         /\ q.mode = r.mode /\ q.maxSamples = r.maxSamples
<1> DEFINE p == [r EXCEPT !.ivs = T, !.max = m, !.next = x, !.n = k]
<1>1. p \in Admins
  BY DEF Admins
<1>2. p.ivs = T /\ p.max = m
  BY DEF Admins
<1>3. p.next = x /\ p.n = k
  BY DEF Admins
<1>4. p.mode = r.mode /\ p.maxSamples = r.maxSamples
  BY DEF Admins
<1>5. q = p
  BY DEF Updated
<1> HIDE DEF p
<1>6. QED
  BY <1>1, <1>2, <1>3, <1>4, <1>5

\* The fields nn_reorder_rsample leaves after delivering.
LEMMA DeliverFields ==
  ASSUME NEW r \in Admins, NEW s, NEW t, t = TryAppendAndDiscard(r, Singleton(s), FindMin(r.ivs)),
         t.ivs \in SUBSET Intervals, t.iv.maxp1 \in Nat \ {0}, Len(t.iv.chain) \in Nat,
         NEW q, q = DeliverSample(r, s).r
  PROVE  /\ DeliverSample(r, s).out = t.iv.chain /\ q \in Admins /\ q.ivs = t.ivs
         /\ q.max = (IF t.max THEN 0 ELSE r.max) /\ q.next = t.iv.maxp1
         /\ q.n = r.n - (Len(t.iv.chain) - 1)
         /\ q.mode = r.mode /\ q.maxSamples = r.maxSamples
<1> DEFINE m == IF t.max THEN 0 ELSE r.max
           k == r.n - (Len(t.iv.chain) - 1)
           p == Updated(r, t.ivs, m, t.iv.maxp1, k)
<1>1. DeliverSample(r, s) = [r |-> p, res |-> "deliver", out |-> t.iv.chain]
  BY DEF DeliverSample, Result, Updated
<1>2. m \in Nat /\ k \in Int
  <2>1. r.max \in Nat /\ r.n \in Int
    BY DEF Admins
  <2>2. QED
    BY <2>1
<1>3. q = p /\ DeliverSample(r, s).out = t.iv.chain
  <2> HIDE DEF p
  <2>1. QED
    BY <1>1
<1> HIDE DEF m, k
<1>4. /\ q \in Admins /\ q.ivs = t.ivs /\ q.max = m /\ q.next = t.iv.maxp1 /\ q.n = k
      /\ q.mode = r.mode /\ q.maxSamples = r.maxSamples
  BY <1>2, <1>3, Update
<1>5. QED
  BY <1>3, <1>4 DEF m, k

\* nn_reorder_rsample at the head of the sequence, with nothing stored behind it.
LEMMA DeliverAlone ==
  ASSUME NEW r, Good(r), NEW s \in 1 .. MaxSeq, Deliverable(r, s),
         {d \in FindMin(r.ivs) : s + 1 >= d.min} = {}, \A iv \in r.ivs : s + 1 < iv.min
  PROVE  LET x == DeliverSample(r, s) IN Effect(r, x.r, x.out, {SampleElem(s)}, s, s + 1)
<1> DEFINE a == Singleton(s)
           q == DeliverSample(r, s).r
           t == TryAppendAndDiscard(r, a, FindMin(r.ivs))
<1>1. s \in Nat /\ s < Bound /\ s # 0
  BY BoundNat, ReorderAssumption DEF Bound
<1>2. /\ Whole(a) /\ a.min = s /\ a.maxp1 = s + 1
      /\ Len(a.chain) = 1 /\ ElemsOf(a.chain) = {SampleElem(s)}
  BY <1>1, SingletonWhole
<1>3. r \in Admins /\ r.next \in Nat /\ r.max \in Nat /\ r.n \in Nat /\ Tree(r.ivs, r.next)
  BY GoodFacts
<1> HIDE DEF a
<1>4. t = [ivs |-> r.ivs, iv |-> a, max |-> FALSE]
  BY <1>2 DEF TryAppendAndDiscard
<1>5. t.ivs = r.ivs /\ t.iv = a /\ t.max = FALSE
  BY <1>4
<1> HIDE DEF t
<1>6. /\ DeliverSample(r, s).out = a.chain
      /\ q \in Admins /\ q.ivs = r.ivs /\ q.max = r.max /\ q.next = s + 1 /\ q.n = r.n
      /\ q.mode = r.mode /\ q.maxSamples = r.maxSamples
  <2>1. r.ivs \in SUBSET Intervals /\ s + 1 \in Nat \ {0} /\ 1 \in Nat
    BY <1>1, <1>3 DEF Admins
  <2>2. /\ DeliverSample(r, s).out = a.chain
        /\ q \in Admins /\ q.ivs = r.ivs /\ q.max = (IF FALSE THEN 0 ELSE r.max)
        /\ q.next = s + 1 /\ q.n = r.n - (1 - 1)
        /\ q.mode = r.mode /\ q.maxSamples = r.maxSamples
    <3>1. t = TryAppendAndDiscard(r, Singleton(s), FindMin(r.ivs))
      BY DEF t, a
    <3>2. t.ivs \in SUBSET Intervals /\ t.iv.maxp1 \in Nat \ {0} /\ Len(t.iv.chain) \in Nat
      BY <1>2, <1>5, <2>1
    <3>0. q = DeliverSample(r, s).r
      OBVIOUS
    <3> HIDE DEF q
    <3>3. /\ DeliverSample(r, s).out = t.iv.chain /\ q \in Admins /\ q.ivs = t.ivs
          /\ q.max = (IF t.max THEN 0 ELSE r.max) /\ q.next = t.iv.maxp1
          /\ q.n = r.n - (Len(t.iv.chain) - 1)
          /\ q.mode = r.mode /\ q.maxSamples = r.maxSamples
      BY <1>3, <3>0, <3>1, <3>2, DeliverFields
    <3>4. QED
      BY <1>2, <1>5, <3>3
  <2> HIDE DEF q
  <2>3. r.n - (1 - 1) = r.n
    BY <1>3
  <2>4. QED
    BY <2>2, <2>3
<1> HIDE DEF q
<1>7. Tree(q.ivs, q.next)
  BY <1>3, <1>6, TreeRaise
<1>8. Good(q)
  BY <1>6, <1>7 DEF Good
<1>9. a.chain \in Seq(Elems) /\ Sorted(a.chain) /\ Within(a.chain, s, s + 1)
  BY <1>2 DEF Whole, Chained, Intervals
<1>10. ASSUME r.mode # "always" PROVE r.next <= s
  BY <1>1, <1>3, <1>10 DEF Deliverable
<1>11. ASSUME r.mode # "always" PROVE r.next <= q.next /\ Within(a.chain, r.next, q.next)
  <2>1. \A i \in 1 .. Len(a.chain) : s <= a.chain[i].seq /\ a.chain[i].seq < s + 1
    BY <1>9 DEF Within
  <2>2. \A i \in 1 .. Len(a.chain) : a.chain[i].seq \in Nat
    BY <1>9, ChainElem
  <2>3. QED
    BY <1>1, <1>3, <1>6, <1>10, <1>11, <2>1, <2>2 DEF Within
<1>12. ASSUME r.mode = "normal" PROVE Cover(q) \subseteq Cover(r) \cup (s .. s + 1 - 1)
  <2>1. s = r.next
    BY <1>12 DEF Deliverable
  <2>2. \A i \in 1 .. q.next - 1 : i \in 1 .. r.next - 1 \/ i \in s .. s + 1 - 1
    BY <1>1, <1>6, <2>1
  <2>3. QED
    BY <1>6, <2>2 DEF Cover
<1>13. \A e \in Stored(r.ivs) \cup {SampleElem(s)} : e \in Stored(q.ivs) \cup ElemsOf(a.chain)
  BY <1>2, <1>6
<1>14. Effect(r, q, a.chain, {SampleElem(s)}, s, s + 1)
  BY <1>6, <1>8, <1>9, <1>11, <1>12, <1>13 DEF Effect
<1>15. QED
  BY <1>6, <1>14 DEF q

\* The lookup of the first interval finds it.
LEMMA FindMinIs ==
  ASSUME NEW b \in Nat, NEW T, Tree(T, b), NEW m \in T, \A j \in T : m.min <= j.min
  PROVE  FindMin(T) = {m}
<1>1. \A i \in T : i.min \in Nat
  BY TreeSpans
<1>2. \A i, j \in T : i.min = j.min => i = j
  BY TreeSpans
<1>3. m \in FindMin(T)
  BY DEF FindMin
<1>4. ASSUME NEW i \in FindMin(T) PROVE i = m
  <2>1. i \in T /\ i.min <= m.min
    BY DEF FindMin
  <2>2. i.min = m.min
    BY <1>1, <2>1
  <2>3. QED
    BY <1>2, <2>1, <2>2
<1>5. QED
  BY <1>3, <1>4

\* nn_reorder_rsample at the head of the sequence, closing the hole up to the first interval.
LEMMA DeliverJoin ==
  ASSUME NEW r, Good(r), NEW s \in 1 .. MaxSeq, s = r.next, r.mode = "normal",
         NEW f \in r.ivs, \A j \in r.ivs : f.min <= j.min /\ (j # f => f.maxp1 < j.min),
         s + 1 >= f.min
  PROVE  LET x == DeliverSample(r, s) IN Effect(r, x.r, x.out, {SampleElem(s)}, s, s + 1)
<1> DEFINE a == Singleton(s)
           v == AppendInterval(a, f)
           t == TryAppendAndDiscard(r, a, FindMin(r.ivs))
           q == DeliverSample(r, s).r
           R == r.ivs \ {f}
<1>1. s \in Nat /\ s < Bound /\ s # 0
  BY BoundNat, ReorderAssumption DEF Bound
<1>2. /\ Whole(a) /\ a.min = s /\ a.maxp1 = s + 1
      /\ Len(a.chain) = 1 /\ ElemsOf(a.chain) = {SampleElem(s)}
  BY <1>1, SingletonWhole
<1>3. /\ r \in Admins /\ r.next \in Nat /\ r.max \in Nat /\ r.n \in Nat /\ Tree(r.ivs, r.next)
      /\ r.n = Total(r.ivs) /\ r.max = MaxKey(r.ivs) /\ r.n <= r.maxSamples /\ r.maxSamples \in Nat
  BY GoodFacts
<1>4. /\ Whole(f) /\ f.min \in Nat /\ f.maxp1 \in Nat /\ f.min < f.maxp1 /\ r.next < f.min
  BY <1>3, TreeSpans DEF Whole
<1>5. f.min = s + 1
  BY <1>1, <1>4
<1> HIDE DEF a
<1>6. /\ Whole(v) /\ v.min = s /\ v.maxp1 = f.maxp1
      /\ Len(v.chain) = 1 + Len(f.chain)
      /\ ElemsOf(v.chain) = {SampleElem(s)} \cup ElemsOf(f.chain)
  <2>1. a.maxp1 <= f.min
    BY <1>1, <1>2, <1>5
  <2>2. /\ Whole(v) /\ v.min = a.min /\ v.maxp1 = f.maxp1
        /\ Len(v.chain) = Len(a.chain) + Len(f.chain)
        /\ ElemsOf(v.chain) = ElemsOf(a.chain) \cup ElemsOf(f.chain)
    BY <1>2, <1>4, <2>1, AppendWhole
  <2> HIDE DEF v
  <2>3. QED
    BY <1>2, <2>2
<1>7. t.ivs = R /\ t.iv = v /\ t.max = (f.min = r.max)
  <2>1. FindMin(r.ivs) = {f}
    BY <1>3, FindMinIs
  <2>2. {d \in FindMin(r.ivs) : a.maxp1 >= d.min} = {f}
    BY <1>1, <1>2, <1>5, <2>1
  <2>3. (CHOOSE d \in {f} : TRUE) = f
    OBVIOUS
  <2>4. t = [ivs |-> r.ivs \ {f}, iv |-> v, max |-> f.min = r.max]
    BY <2>2, <2>3 DEF TryAppendAndDiscard
  <2> HIDE DEF v, t
  <2>5. QED
    BY <2>4
<1>8. /\ Tree(R, r.next) /\ Total(r.ivs) \in Nat /\ Total(R) \in Nat
      /\ Total(r.ivs) = Total(R) + Len(f.chain) /\ Len(f.chain) \in Nat \ {0}
  BY <1>3, TreeRemove
<1>9. /\ Stored(r.ivs) = Stored(R) \cup ElemsOf(f.chain)
      /\ Spanned(r.ivs) = Spanned(R) \cup Span(f)
  BY StoredRemove
<1>10. /\ DeliverSample(r, s).out = v.chain
       /\ q \in Admins /\ q.ivs = R /\ q.max = (IF f.min = r.max THEN 0 ELSE r.max)
       /\ q.next = f.maxp1 /\ q.n = r.n - Len(f.chain)
       /\ q.mode = r.mode /\ q.maxSamples = r.maxSamples
  <2>1. t = TryAppendAndDiscard(r, Singleton(s), FindMin(r.ivs))
    BY DEF a
  <2>2. q = DeliverSample(r, s).r
    OBVIOUS
  <2> HIDE DEF q, t, v
  <2>3. t.ivs \in SUBSET Intervals /\ t.iv.maxp1 \in Nat \ {0} /\ Len(t.iv.chain) \in Nat
    <3>1. R \in SUBSET Intervals
      BY <1>3 DEF Admins
    <3>2. v.maxp1 \in Nat \ {0} /\ Len(v.chain) \in Nat
      BY <1>4, <1>6, <1>8
    <3>3. QED
      BY <1>7, <3>1, <3>2
  <2>4. /\ DeliverSample(r, s).out = t.iv.chain /\ q \in Admins /\ q.ivs = t.ivs
        /\ q.max = (IF t.max THEN 0 ELSE r.max) /\ q.next = t.iv.maxp1
        /\ q.n = r.n - (Len(t.iv.chain) - 1)
        /\ q.mode = r.mode /\ q.maxSamples = r.maxSamples
    BY <1>3, <2>1, <2>2, <2>3, DeliverFields
  <2>5. Len(v.chain) - 1 = Len(f.chain)
    BY <1>6, <1>8
  <2>6. QED
    BY <1>6, <1>7, <2>4, <2>5
<1> HIDE DEF q, t, v
<1>11. Tree(q.ivs, q.next)
  <2>1. \A j \in R : f.maxp1 < j.min
    OBVIOUS
  <2> HIDE DEF R
  <2>2. QED
    BY <1>8, <1>10, <2>1, TreeRaise
<1>12. q.max = MaxKey(q.ivs)
  <2>1. r.ivs # {}
    OBVIOUS
  <2>2. PICK m \in r.ivs : \A j \in r.ivs : j.min <= m.min
    BY <1>3, <2>1, TreeLast
  <2>3. r.max = m.min
    BY <1>3, <2>2, MaxKeyIs
  <2>4. CASE m = f
    <3>1. R = {}
      BY <1>3, <1>4, <2>2, <2>4, TreeSpans
    <3>2. QED
      BY <1>10, <2>3, <2>4, <3>1, MaxKeyEmpty
  <2>5. CASE m # f
    <3>1. m \in R /\ \A j \in R : j.min <= m.min
      BY <2>2, <2>5
    <3>2. MaxKey(R) = m.min
      BY <1>8, <1>3, <3>1, MaxKeyIs
    <3>3. f.min # m.min
      BY <1>3, <2>5, TreeSpans
    <3>4. QED
      BY <1>10, <2>3, <3>2, <3>3
  <2>6. QED
    BY <2>4, <2>5
<1>13. q.n = Total(q.ivs) /\ q.n <= q.maxSamples
  <2> HIDE DEF R
  <2>1. QED
    BY <1>3, <1>8, <1>10
<1>14. Good(q)
  BY <1>10, <1>11, <1>12, <1>13 DEF Good
<1>15. /\ v.chain \in Seq(Elems) /\ Sorted(v.chain) /\ Within(v.chain, r.next, q.next)
       /\ r.next <= q.next
  <2>1. v.chain \in Seq(Elems) /\ Sorted(v.chain) /\ Within(v.chain, v.min, v.maxp1)
    BY <1>6 DEF Whole, Chained, Intervals
  <2>2. r.next <= q.next
    BY <1>3, <1>4, <1>10
  <2>3. QED
    BY <1>6, <1>10, <2>1, <2>2
<1>16. Cover(q) \subseteq Cover(r) \cup (s .. s + 1 - 1)
  <2>1. \A i \in 1 .. q.next - 1 : i \in 1 .. r.next - 1 \/ i \in s .. s + 1 - 1 \/ i \in Span(f)
    BY <1>1, <1>4, <1>5, <1>10 DEF Span
  <2> HIDE DEF R
  <2>2. QED
    BY <1>9, <1>10, <2>1 DEF Cover
<1>17. \A e \in Stored(r.ivs) \cup {SampleElem(s)} : e \in Stored(q.ivs) \cup ElemsOf(v.chain)
  BY <1>6, <1>9, <1>10
<1>18. Effect(r, q, v.chain, {SampleElem(s)}, s, s + 1)
  <2>1. q.mode = r.mode /\ q.maxSamples = r.maxSamples
    BY <1>10
  <2> HIDE DEF R
  <2>2. QED
    BY <1>14, <1>15, <1>16, <1>17, <2>1 DEF Effect
<1>19. QED
  BY <1>10, <1>18 DEF q

\* nn_reorder_rsample delivers.
LEMMA Deliver ==
  ASSUME NEW r, Good(r), NEW s \in 1 .. MaxSeq, Deliverable(r, s)
  PROVE  LET x == DeliverSample(r, s) IN Effect(r, x.r, x.out, {SampleElem(s)}, s, s + 1)
<1>1. /\ r.next \in Nat /\ Tree(r.ivs, r.next) /\ r.mode \in Modes
      /\ r.mode # "normal" => r.ivs = {}
  BY GoodFacts
<1>2. CASE r.ivs = {}
  <2>1. {d \in FindMin(r.ivs) : s + 1 >= d.min} = {}
    BY <1>2 DEF FindMin
  <2>2. \A iv \in r.ivs : s + 1 < iv.min
    BY <1>2
  <2>3. QED
    BY <2>1, <2>2, DeliverAlone
<1>3. CASE r.ivs # {}
  <2>1. r.mode = "normal" /\ s = r.next
    BY <1>1, <1>3 DEF Deliverable
  <2>2. PICK f \in r.ivs : \A j \in r.ivs : f.min <= j.min /\ (j # f => f.maxp1 < j.min)
    BY <1>1, <1>3, TreeFirst
  <2>3. CASE s + 1 >= f.min
    BY <2>1, <2>2, <2>3, DeliverJoin
  <2>4. CASE ~ (s + 1 >= f.min)
    <3>1. FindMin(r.ivs) = {f} /\ \A j \in r.ivs : j.min \in Nat
      BY <1>1, <2>2, FindMinIs, TreeSpans
    <3>2. \A iv \in r.ivs : s + 1 < iv.min
      BY <2>2, <2>4, <3>1
    <3>3. {d \in FindMin(r.ivs) : s + 1 >= d.min} = {}
      BY <2>4, <3>1
    <3>4. QED
      BY <3>2, <3>3, DeliverAlone
  <2>5. QED
    BY <2>3, <2>4
<1>4. QED
  BY <1>2, <1>3

-----------------------------------------------------------------------------
(* Storing what cannot be delivered yet *)

\* An operation that delivers nothing leaves next_seq alone.
LEMMA StoreEffect ==
  ASSUME NEW r, Good(r), r.mode = "normal", NEW q \in Admins, NEW E, NEW lo, NEW hi,
         q.next = r.next, q.mode = r.mode, q.maxSamples = r.maxSamples,
         Tree(q.ivs, r.next), q.max = MaxKey(q.ivs), q.n = Total(q.ivs), q.n <= q.maxSamples,
         Spanned(q.ivs) \subseteq Spanned(r.ivs) \cup (lo .. hi - 1),
         \A e \in Stored(r.ivs) \cup E :
            \/ e \in Stored(q.ivs)
            \/ r.n = r.maxSamples /\ \A k \in Stored(q.ivs) : k.seq < e.seq
  PROVE  Effect(r, q, <<>>, E, lo, hi)
<1>1. Good(q)
  BY DEF Good
<1>2. r.next <= q.next
  BY GoodFacts
<1>3. Cover(q) \subseteq Cover(r) \cup (lo .. hi - 1)
  BY DEF Cover
<1>4. QED
  BY <1>1, <1>2, <1>3, EmptyChain, EmptyWithin DEF Effect

\* Replacing one field.
WithIvs(r, T)  == [r EXCEPT !.ivs = T]
WithMax(r, m)  == [r EXCEPT !.max = m]
WithNext(r, x) == [r EXCEPT !.next = x]
WithN(r, k)    == [r EXCEPT !.n = k]

\* The tree is replaced.
LEMMA UpdateIvs ==
  ASSUME NEW r \in Admins, NEW T \in SUBSET Intervals, NEW q, q = WithIvs(r, T)
  PROVE  /\ q \in Admins /\ q.ivs = T /\ q.max = r.max /\ q.next = r.next /\ q.n = r.n
         /\ q.mode = r.mode /\ q.maxSamples = r.maxSamples
  BY DEF Admins, WithIvs

\* max_sampleiv is replaced.
LEMMA UpdateMax ==
  ASSUME NEW r \in Admins, NEW m \in Nat, NEW q, q = WithMax(r, m)
  PROVE  /\ q \in Admins /\ q.ivs = r.ivs /\ q.max = m /\ q.next = r.next /\ q.n = r.n
         /\ q.mode = r.mode /\ q.maxSamples = r.maxSamples
  BY DEF Admins, WithMax

\* next_seq is replaced.
LEMMA UpdateNext ==
  ASSUME NEW r \in Admins, NEW x \in Nat \ {0}, NEW q, q = WithNext(r, x)
  PROVE  /\ q \in Admins /\ q.ivs = r.ivs /\ q.max = r.max /\ q.next = x /\ q.n = r.n
         /\ q.mode = r.mode /\ q.maxSamples = r.maxSamples
  BY DEF Admins, WithNext

\* n_samples is replaced.
LEMMA UpdateN ==
  ASSUME NEW r \in Admins, NEW k \in Int, NEW q, q = WithN(r, k)
  PROVE  /\ q \in Admins /\ q.ivs = r.ivs /\ q.max = r.max /\ q.next = r.next /\ q.n = k
         /\ q.mode = r.mode /\ q.maxSamples = r.maxSamples
  BY DEF Admins, WithN

\* The sample becomes an interval after all others.
LEMMA AddIntervalEffect ==
  ASSUME NEW r, Good(r), r.mode = "normal", NEW s \in 1 .. MaxSeq, r.next < s,
         \A j \in r.ivs : j.maxp1 < s, r.n < r.maxSamples
  PROVE  Effect(r, AddInterval(r, s), <<>>, {SampleElem(s)}, s, s + 1)
<1> DEFINE a == Singleton(s)
           T == r.ivs \cup {a}
           k == r.n + 1
           q == AddInterval(r, s)
<1>1. s \in Nat /\ s < Bound
  BY BoundNat, ReorderAssumption DEF Bound
<1>2. /\ Whole(a) /\ a.min = s /\ a.maxp1 = s + 1
      /\ Len(a.chain) = 1 /\ ElemsOf(a.chain) = {SampleElem(s)}
  BY <1>1, SingletonWhole
<1>3. /\ r \in Admins /\ r.next \in Nat /\ r.n \in Nat /\ Tree(r.ivs, r.next)
      /\ r.n = Total(r.ivs) /\ r.maxSamples \in Nat
  BY GoodFacts
<1> HIDE DEF a
<1>4. Tree(T, r.next) /\ Total(T) = k
  <2>1. \A j \in r.ivs : j.maxp1 < a.min \/ a.maxp1 < j.min
    BY <1>2
  <2>2. r.next < a.min
    BY <1>2
  <2>3. Tree(T, r.next) /\ Total(T) = Total(r.ivs) + Len(a.chain)
    <3>1. r.next \in Nat /\ Tree(r.ivs, r.next) /\ Whole(a)
      BY <1>2, <1>3
    <3>2. T = r.ivs \cup {a}
      OBVIOUS
    <3> HIDE DEF T
    <3>3. QED
      BY <2>1, <2>2, <3>1, <3>2, TreeAdd
  <2>4. QED
    BY <1>2, <1>3, <2>3
<1>5. Stored(T) = Stored(r.ivs) \cup {SampleElem(s)} /\ Spanned(T) = Spanned(r.ivs) \cup Span(a)
  BY <1>2, StoredAdd
<1>6. MaxKey(T) = s
  <2>1. \A j \in r.ivs : j.min \in Nat /\ j.maxp1 \in Nat /\ j.min < j.maxp1
    BY <1>3, TreeSpans
  <2>2. a \in T /\ \A j \in T : j.min <= a.min
    BY <1>1, <1>2, <2>1
  <2>3. QED
    BY <1>2, <1>3, <1>4, <2>2, MaxKeyIs
<1>7. T \in SUBSET Intervals /\ k \in Int
  BY <1>3, <1>4 DEF Tree
<1> HIDE DEF T
<1>8. /\ q \in Admins /\ q.ivs = T /\ q.max = s /\ q.next = r.next /\ q.n = k
      /\ q.mode = r.mode /\ q.maxSamples = r.maxSamples
  <2> DEFINE o == WithIvs(r, T)
             p == WithMax(o, s)
  <2>1. q = WithN(p, k)
    BY DEF AddInterval, T, a, WithIvs, WithMax, WithN
  <2> HIDE DEF o, p, q, k
  <2>2. /\ o \in Admins /\ o.ivs = T /\ o.next = r.next /\ o.n = r.n
        /\ o.mode = r.mode /\ o.maxSamples = r.maxSamples
    BY <1>3, <1>7, UpdateIvs DEF o
  <2>3. /\ p \in Admins /\ p.ivs = T /\ p.max = s /\ p.next = r.next /\ p.n = r.n
        /\ p.mode = r.mode /\ p.maxSamples = r.maxSamples
    BY <1>1, <2>2, UpdateMax DEF p
  <2>4. QED
    BY <1>7, <2>1, <2>3, UpdateN
<1> HIDE DEF q
<1>9. Span(a) = s .. s + 1 - 1
  BY <1>2 DEF Span
<1>10. q.n <= q.maxSamples
  BY <1>3, <1>8
<1>11. QED
  BY <1>4, <1>5, <1>6, <1>8, <1>9, <1>10, StoreEffect DEF q

\* The sample extends the last interval.
LEMMA GrowLastEffect ==
  ASSUME NEW r, Good(r), r.mode = "normal", NEW s \in 1 .. MaxSeq, r.ivs # {},
         s = MaxSampleIv(r).maxp1, r.n < r.maxSamples
  PROVE  Effect(r, GrowLast(r, s), <<>>, {SampleElem(s)}, s, s + 1)
<1> DEFINE a == Singleton(s)
           l == MaxSampleIv(r)
           v == AppendInterval(l, a)
           T == (r.ivs \ {l}) \cup {v}
           k == r.n + 1
           q == GrowLast(r, s)
<1>1. s \in Nat /\ s < Bound
  BY BoundNat, ReorderAssumption DEF Bound
<1>2. /\ Whole(a) /\ a.min = s /\ a.maxp1 = s + 1
      /\ Len(a.chain) = 1 /\ ElemsOf(a.chain) = {SampleElem(s)}
  BY <1>1, SingletonWhole
<1>3. /\ r \in Admins /\ r.next \in Nat /\ r.n \in Nat /\ r.max \in Nat /\ Tree(r.ivs, r.next)
      /\ r.n = Total(r.ivs) /\ r.maxSamples \in Nat /\ r.max = MaxKey(r.ivs)
  BY GoodFacts
<1>4. /\ l \in r.ivs /\ l.min = r.max
      /\ \A j \in r.ivs : j.min <= r.max /\ (j # l => j.maxp1 < r.max)
  BY <1>3, LastInterval
<1>5. /\ Whole(l) /\ r.next < l.min /\ l.min \in Nat /\ l.maxp1 \in Nat /\ l.min < l.maxp1
  BY <1>3, <1>4, TreeSpans DEF Whole
<1> HIDE DEF a, l
<1>6. /\ Whole(v) /\ v.min = l.min /\ v.maxp1 = s + 1
      /\ Len(v.chain) = Len(l.chain) + 1
      /\ ElemsOf(v.chain) = ElemsOf(l.chain) \cup {SampleElem(s)}
  <2>1. l.maxp1 <= a.min
    BY <1>1, <1>2 DEF l
  <2>2. /\ Whole(v) /\ v.min = l.min /\ v.maxp1 = a.maxp1
        /\ Len(v.chain) = Len(l.chain) + Len(a.chain)
        /\ ElemsOf(v.chain) = ElemsOf(l.chain) \cup ElemsOf(a.chain)
    BY <1>2, <1>5, <2>1, AppendWhole
  <2> HIDE DEF v
  <2>3. QED
    BY <1>2, <2>2
<1> HIDE DEF v
<1>7. Tree(T, r.next) /\ Total(T) = k
  <2>1. \A j \in r.ivs \ {l} : j.maxp1 < v.min \/ v.maxp1 < j.min
    BY <1>4, <1>6
  <2>2. Tree(T, r.next) /\ Total(T) = Total(r.ivs) - Len(l.chain) + Len(v.chain)
    <3>1. r.next < v.min
      BY <1>5, <1>6
    <3>2. r.next \in Nat /\ Tree(r.ivs, r.next) /\ Whole(v) /\ l \in r.ivs
      BY <1>3, <1>4, <1>6
    <3>3. T = (r.ivs \ {l}) \cup {v}
      OBVIOUS
    <3> HIDE DEF T
    <3>4. QED
      BY <2>1, <3>1, <3>2, <3>3, TreeSwap
  <2>3. Len(l.chain) \in Nat
    BY <1>3, <1>4, TreeRemove
  <2> HIDE DEF T
  <2>4. QED
    BY <1>3, <1>6, <2>2, <2>3
<1>8. /\ Stored(T) = Stored(r.ivs) \cup {SampleElem(s)}
      /\ Spanned(T) \subseteq Spanned(r.ivs) \cup (s .. s + 1 - 1)
  <2> DEFINE R == r.ivs \ {l}
  <2>1. Stored(r.ivs) = Stored(R) \cup ElemsOf(l.chain) /\ Spanned(r.ivs) = Spanned(R) \cup Span(l)
    BY <1>4, StoredRemove
  <2>2. Stored(T) = Stored(R) \cup ElemsOf(v.chain) /\ Spanned(T) = Spanned(R) \cup Span(v)
    BY StoredAdd
  <2>3. \A i \in Span(v) : i \in Span(l) \/ i \in s .. s + 1 - 1
    BY <1>1, <1>5, <1>6 DEF Span, l
  <2> HIDE DEF R, T
  <2>4. QED
    BY <1>6, <2>1, <2>2, <2>3
<1>9. MaxKey(T) = r.max
  <2>1. v \in T /\ \A j \in T : j.min <= v.min
    BY <1>4, <1>5, <1>6
  <2>2. QED
    BY <1>3, <1>4, <1>6, <1>7, <2>1, MaxKeyIs
<1>10. T \in SUBSET Intervals /\ k \in Int
  BY <1>3, <1>7 DEF Tree
<1>11. /\ q \in Admins /\ q.ivs = T /\ q.max = r.max /\ q.next = r.next /\ q.n = k
       /\ q.mode = r.mode /\ q.maxSamples = r.maxSamples
  <2> DEFINE p == WithIvs(r, T)
  <2>1. q = WithN(p, k)
    BY DEF GrowLast, v, l, a, WithIvs, WithN
  <2> HIDE DEF T, p, q, k
  <2>2. /\ p \in Admins /\ p.ivs = T /\ p.max = r.max /\ p.next = r.next
        /\ p.mode = r.mode /\ p.maxSamples = r.maxSamples
    BY <1>3, <1>10, UpdateIvs DEF p
  <2>3. /\ q \in Admins /\ q.ivs = p.ivs /\ q.max = p.max /\ q.next = p.next /\ q.n = k
        /\ q.mode = p.mode /\ q.maxSamples = p.maxSamples
    <3>1. p \in Admins /\ k \in Int
      BY <1>10, <2>2
    <3>2. QED
      BY <2>1, <3>1 DEF WithN, Admins
  <2>4. QED
    BY <2>2, <2>3
<1> HIDE DEF q, T
<1>12. q.n <= q.maxSamples
  BY <1>3, <1>11
<1>13. QED
  BY <1>7, <1>8, <1>9, <1>11, <1>12, StoreEffect DEF q

\* An element was added to the tree and not counted yet.
Inserted(r, p, E, lo, hi) ==
  /\ p \in Admins /\ p.next = r.next /\ p.n = r.n
  /\ p.mode = r.mode /\ p.maxSamples = r.maxSamples
  /\ Tree(p.ivs, r.next) /\ Total(p.ivs) = r.n + 1
  /\ Spanned(p.ivs) \subseteq Spanned(r.ivs) \cup (lo .. hi - 1)
  /\ Stored(r.ivs) \cup E \subseteq Stored(p.ivs)

\* The interval that ends at s is found by looking for the predecessor of s.
LEMMA PredFound ==
  ASSUME NEW b \in Nat, NEW T, Tree(T, b), NEW s \in Nat, NEW j \in T, j.maxp1 = s
  PROVE  j \in {iv \in PredEq(T, s) : iv.maxp1 = s}
<1>1. /\ \A i \in T : i.min \in Nat /\ i.maxp1 \in Nat /\ i.min < i.maxp1
      /\ \A i, k \in T : i.min < k.min => i.maxp1 < k.min
  BY TreeSpans
<1>2. ASSUME NEW i \in T, i.min <= s PROVE i.min <= j.min
  <2>1. SUFFICES ASSUME j.min < i.min PROVE FALSE
    BY <1>1
  <2>2. j.maxp1 < i.min
    BY <1>1, <2>1
  <2>3. QED
    BY <1>1, <1>2, <2>2
<1>3. QED
  BY <1>1, <1>2 DEF PredEq

\* The sample extends an interval and does not reach the next one.
LEMMA GrowPredAlone ==
  ASSUME NEW r, Good(r), NEW s \in 1 .. MaxSeq, NEW y \in r.ivs, y.maxp1 = s,
         LookupMin(r.ivs, s + 1) = {}
  PROVE  LET p == GrowPred(r, s, y)
         IN  Inserted(r, p, {SampleElem(s)}, s, s + 1) /\ p.max = MaxKey(p.ivs)
<1> DEFINE a == Singleton(s)
           v == AppendInterval(y, a)
           T == (r.ivs \ {y}) \cup {v}
           p == GrowPred(r, s, y)
<1>1. s \in Nat /\ s < Bound
  BY BoundNat, ReorderAssumption DEF Bound
<1>2. /\ Whole(a) /\ a.min = s /\ a.maxp1 = s + 1
      /\ Len(a.chain) = 1 /\ ElemsOf(a.chain) = {SampleElem(s)}
  BY <1>1, SingletonWhole
<1>3. /\ r \in Admins /\ r.next \in Nat /\ r.n \in Nat /\ r.max \in Nat /\ Tree(r.ivs, r.next)
      /\ r.n = Total(r.ivs) /\ r.max = MaxKey(r.ivs)
  BY GoodFacts
<1>4. /\ \A j \in r.ivs : /\ r.next < j.min /\ j.min \in Nat /\ j.maxp1 \in Nat
                          /\ j.min < j.maxp1
      /\ \A i, j \in r.ivs : (i.min = j.min => i = j) /\ (i.min < j.min => i.maxp1 < j.min)
      /\ Whole(y)
  BY <1>3, TreeSpans DEF Whole
<1> HIDE DEF a
<1>5. /\ Whole(v) /\ v.min = y.min /\ v.maxp1 = s + 1
      /\ Len(v.chain) = Len(y.chain) + 1
      /\ ElemsOf(v.chain) = ElemsOf(y.chain) \cup {SampleElem(s)}
  <2>1. y.maxp1 <= a.min
    BY <1>1, <1>2
  <2>2. /\ Whole(v) /\ v.min = y.min /\ v.maxp1 = a.maxp1
        /\ Len(v.chain) = Len(y.chain) + Len(a.chain)
        /\ ElemsOf(v.chain) = ElemsOf(y.chain) \cup ElemsOf(a.chain)
    BY <1>2, <1>4, <2>1, AppendWhole
  <2> HIDE DEF v
  <2>3. QED
    BY <1>2, <2>2
<1>6. p = WithMax(WithIvs(r, T), r.max)
  <2>1. TryAppendAndDiscard([r EXCEPT !.ivs = r.ivs \ {y}], v, LookupMin(r.ivs, s + 1))
          = [ivs |-> [r EXCEPT !.ivs = r.ivs \ {y}].ivs, iv |-> v, max |-> FALSE]
    <3> HIDE DEF v
    <3>1. QED
      BY DEF TryAppendAndDiscard
  <2>2. [r EXCEPT !.ivs = r.ivs \ {y}].ivs = r.ivs \ {y}
    BY <1>3 DEF Admins
  <2> DEFINE t == TryAppendAndDiscard([r EXCEPT !.ivs = r.ivs \ {y}], v, LookupMin(r.ivs, s + 1))
  <2>3. t.ivs = r.ivs \ {y} /\ t.iv = v /\ t.max = FALSE
    <3> HIDE DEF v, t
    <3>1. t = [ivs |-> r.ivs \ {y}, iv |-> v, max |-> FALSE]
      BY <2>1, <2>2 DEF t
    <3>2. QED
      BY <3>1
  <2>4. p = [r EXCEPT !.ivs = t.ivs \cup {t.iv}, !.max = IF t.max THEN y.min ELSE r.max]
    BY DEF GrowPred, a
  <2> HIDE DEF t, v, p
  <2>5. t.ivs \cup {t.iv} = T /\ (IF t.max THEN y.min ELSE r.max) = r.max
    BY <2>3
  <2> HIDE DEF T
  <2>6. QED
    BY <2>4, <2>5 DEF WithIvs, WithMax
<1> HIDE DEF v, p
<1>7. ASSUME NEW j \in r.ivs \ {y} PROVE j.maxp1 < v.min \/ v.maxp1 < j.min
  <2>1. j.min # s + 1
    BY DEF LookupMin
  <2>2. j.maxp1 < y.min \/ s < j.min
    BY <1>4
  <2>3. QED
    BY <1>1, <1>4, <1>5, <2>1, <2>2
<1>8. Tree(T, r.next) /\ Total(T) = r.n + 1
  <2>1. T = (r.ivs \ {y}) \cup {v}
    OBVIOUS
  <2> HIDE DEF T
  <2>2. r.next \in Nat /\ Tree(r.ivs, r.next) /\ Whole(v) /\ r.next < v.min
    BY <1>3, <1>4, <1>5
  <2>3. Tree(T, r.next) /\ Total(T) = Total(r.ivs) - Len(y.chain) + Len(v.chain)
    BY <1>7, <2>1, <2>2, TreeSwap
  <2>4. Len(y.chain) \in Nat
    BY <1>3, TreeRemove
  <2>5. QED
    BY <1>3, <1>5, <2>3, <2>4
<1>9. /\ Stored(T) = Stored(r.ivs) \cup {SampleElem(s)}
      /\ Spanned(T) \subseteq Spanned(r.ivs) \cup (s .. s + 1 - 1)
  <2> DEFINE R == r.ivs \ {y}
  <2>1. Stored(r.ivs) = Stored(R) \cup ElemsOf(y.chain) /\ Spanned(r.ivs) = Spanned(R) \cup Span(y)
    BY StoredRemove
  <2>2. Stored(T) = Stored(R) \cup ElemsOf(v.chain) /\ Spanned(T) = Spanned(R) \cup Span(v)
    BY StoredAdd
  <2>3. \A i \in Span(v) : i \in Span(y) \/ i \in s .. s + 1 - 1
    BY <1>1, <1>4, <1>5 DEF Span
  <2> HIDE DEF R, T
  <2>4. QED
    BY <1>5, <2>1, <2>2, <2>3
<1>10. MaxKey(T) = r.max
  <2>1. PICK m \in r.ivs : \A j \in r.ivs : j.min <= m.min
    BY <1>3, TreeLast
  <2>2. r.max = m.min
    BY <1>3, <2>1, MaxKeyIs
  <2>3. PICK u \in T : u.min = m.min
    BY <1>5
  <2>4. \A j \in T : j.min <= u.min
    BY <1>5, <2>1, <2>3
  <2>5. QED
    BY <1>3, <1>8, <2>2, <2>3, <2>4, MaxKeyIs
<1>11. T \in SUBSET Intervals
  BY <1>8 DEF Tree
<1> HIDE DEF T
<1>12. /\ p \in Admins /\ p.ivs = T /\ p.max = r.max /\ p.next = r.next /\ p.n = r.n
       /\ p.mode = r.mode /\ p.maxSamples = r.maxSamples
  <2> DEFINE o == WithIvs(r, T)
  <2>1. /\ o \in Admins /\ o.ivs = T /\ o.next = r.next /\ o.n = r.n
        /\ o.mode = r.mode /\ o.maxSamples = r.maxSamples
    BY <1>3, <1>11, UpdateIvs
  <2> HIDE DEF o
  <2>2. p = WithMax(o, r.max)
    BY <1>6 DEF o
  <2>3. r.max \in Nat
    BY <1>3
  <2>4. QED
    BY <2>1, <2>2, <2>3, UpdateMax
<1>13. Inserted(r, p, {SampleElem(s)}, s, s + 1) /\ p.max = MaxKey(p.ivs)
  BY <1>8, <1>9, <1>10, <1>12 DEF Inserted
<1>14. QED
  BY <1>13 DEF p

\* The sample closes the hole between two intervals.
LEMMA GrowPredJoin ==
  ASSUME NEW r, Good(r), NEW s \in 1 .. MaxSeq, NEW y \in r.ivs, y.maxp1 = s,
         NEW d \in r.ivs, d.min = s + 1
  PROVE  LET p == GrowPred(r, s, y)
         IN  Inserted(r, p, {SampleElem(s)}, s, s + 1) /\ p.max = MaxKey(p.ivs)
<1> DEFINE a == Singleton(s)
           v == AppendInterval(y, a)
           w == AppendInterval(v, d)
           R == r.ivs \ {y}
           T == (R \ {d}) \cup {w}
           m == IF d.min = r.max THEN y.min ELSE r.max
           p == GrowPred(r, s, y)
<1>1. s \in Nat /\ s < Bound
  BY BoundNat, ReorderAssumption DEF Bound
<1>2. /\ Whole(a) /\ a.min = s /\ a.maxp1 = s + 1
      /\ Len(a.chain) = 1 /\ ElemsOf(a.chain) = {SampleElem(s)}
  BY <1>1, SingletonWhole
<1>3. /\ r \in Admins /\ r.next \in Nat /\ r.n \in Nat /\ r.max \in Nat /\ Tree(r.ivs, r.next)
      /\ r.n = Total(r.ivs) /\ r.max = MaxKey(r.ivs)
  BY GoodFacts
<1>4. /\ \A j \in r.ivs : /\ r.next < j.min /\ j.min \in Nat /\ j.maxp1 \in Nat
                          /\ j.min < j.maxp1
      /\ \A i, j \in r.ivs : (i.min = j.min => i = j) /\ (i.min < j.min => i.maxp1 < j.min)
      /\ Whole(y) /\ Whole(d)
  BY <1>3, TreeSpans DEF Whole
<1> HIDE DEF a
<1>5. /\ Whole(v) /\ v.min = y.min /\ v.maxp1 = s + 1
      /\ Len(v.chain) = Len(y.chain) + 1
      /\ ElemsOf(v.chain) = ElemsOf(y.chain) \cup {SampleElem(s)}
  <2>1. y.maxp1 <= a.min
    BY <1>1, <1>2
  <2>2. /\ Whole(v) /\ v.min = y.min /\ v.maxp1 = a.maxp1
        /\ Len(v.chain) = Len(y.chain) + Len(a.chain)
        /\ ElemsOf(v.chain) = ElemsOf(y.chain) \cup ElemsOf(a.chain)
    BY <1>2, <1>4, <2>1, AppendWhole
  <2> HIDE DEF v
  <2>3. QED
    BY <1>2, <2>2
<1> HIDE DEF v
<1>6. /\ Whole(w) /\ w.min = y.min /\ w.maxp1 = d.maxp1
      /\ Len(w.chain) = Len(y.chain) + 1 + Len(d.chain)
      /\ ElemsOf(w.chain) = ElemsOf(y.chain) \cup {SampleElem(s)} \cup ElemsOf(d.chain)
  <2>1. v.maxp1 <= d.min
    BY <1>1, <1>5
  <2>2. /\ Whole(w) /\ w.min = v.min /\ w.maxp1 = d.maxp1
        /\ Len(w.chain) = Len(v.chain) + Len(d.chain)
        /\ ElemsOf(w.chain) = ElemsOf(v.chain) \cup ElemsOf(d.chain)
    BY <1>4, <1>5, <2>1, AppendWhole
  <2> HIDE DEF w
  <2>3. QED
    BY <1>5, <2>2
<1>7. d # y /\ d \in R
  BY <1>1, <1>4
<1>8. p = WithMax(WithIvs(r, T), m)
  <2> DEFINE q == [r EXCEPT !.ivs = R]
             t == TryAppendAndDiscard(q, v, LookupMin(r.ivs, s + 1))
  <2>1. q.ivs = R /\ q.max = r.max
    BY <1>3 DEF Admins
  <2>2. p = [r EXCEPT !.ivs = t.ivs \cup {t.iv}, !.max = IF t.max THEN y.min ELSE r.max]
    BY DEF GrowPred, a, v
  <2> HIDE DEF q, v
  <2>3. LookupMin(r.ivs, s + 1) = {d}
    BY <1>4 DEF LookupMin
  <2>4. {x \in LookupMin(r.ivs, s + 1) : v.maxp1 >= x.min} = {d}
    BY <1>1, <1>5, <2>3
  <2>5. (CHOOSE x \in {d} : TRUE) = d
    OBVIOUS
  <2>6. t = [ivs |-> q.ivs \ {d}, iv |-> w, max |-> d.min = q.max]
    BY <2>4, <2>5 DEF TryAppendAndDiscard
  <2> HIDE DEF t, w, p
  <2>7. t.ivs = R \ {d} /\ t.iv = w /\ t.max = (d.min = r.max)
    BY <2>1, <2>6
  <2>8. t.ivs \cup {t.iv} = T /\ (IF t.max THEN y.min ELSE r.max) = m
    BY <2>7
  <2> HIDE DEF T, m
  <2>9. QED
    BY <2>2, <2>8 DEF WithIvs, WithMax
<1> HIDE DEF v, w, p
<1>9. ASSUME NEW j \in R \ {d} PROVE j.maxp1 < w.min \/ w.maxp1 < j.min
  <2>1. j.maxp1 < y.min \/ s < j.min
    BY <1>4
  <2>2. j.maxp1 < s + 1 \/ d.maxp1 < j.min
    BY <1>4
  <2>3. QED
    BY <1>1, <1>4, <1>6, <2>1, <2>2
<1>10. Tree(T, r.next) /\ Total(T) = r.n + 1
  <2>1. T = (R \ {d}) \cup {w}
    OBVIOUS
  <2>2. /\ Tree(R, r.next) /\ Total(R) \in Nat
        /\ Total(r.ivs) = Total(R) + Len(y.chain) /\ Len(y.chain) \in Nat \ {0}
    <3>1. r.next \in Nat /\ Tree(r.ivs, r.next)
      BY <1>3
    <3>2. QED
      BY <3>1, TreeRemove
  <2> HIDE DEF T, R
  <2>3. r.next \in Nat /\ Whole(w) /\ r.next < w.min
    BY <1>3, <1>4, <1>6
  <2>4. Tree(T, r.next) /\ Total(T) = Total(R) - Len(d.chain) + Len(w.chain)
    BY <1>7, <1>9, <2>1, <2>2, <2>3, TreeSwap
  <2>5. Len(d.chain) \in Nat
    BY <1>3, TreeRemove
  <2>6. ASSUME NEW tr \in Nat, NEW ly \in Nat, NEW ld \in Nat
        PROVE  tr - ld + (ly + 1 + ld) = tr + ly + 1
    OBVIOUS
  <2>7. Total(R) - Len(d.chain) + (Len(y.chain) + 1 + Len(d.chain)) = Total(R) + Len(y.chain) + 1
    BY <2>2, <2>5, <2>6
  <2>8. Len(w.chain) = Len(y.chain) + 1 + Len(d.chain) /\ r.n = Total(R) + Len(y.chain)
    BY <1>3, <1>6, <2>2
  <2>9. QED
    BY <2>4, <2>7, <2>8
<1>11. /\ Stored(T) = Stored(r.ivs) \cup {SampleElem(s)}
       /\ Spanned(T) \subseteq Spanned(r.ivs) \cup (s .. s + 1 - 1)
  <2> DEFINE Q == R \ {d}
  <2>1. Stored(r.ivs) = Stored(R) \cup ElemsOf(y.chain) /\ Spanned(r.ivs) = Spanned(R) \cup Span(y)
    BY StoredRemove
  <2> HIDE DEF R
  <2>2. Stored(R) = Stored(Q) \cup ElemsOf(d.chain) /\ Spanned(R) = Spanned(Q) \cup Span(d)
    BY <1>7, StoredRemove
  <2>3. Stored(T) = Stored(Q) \cup ElemsOf(w.chain) /\ Spanned(T) = Spanned(Q) \cup Span(w)
    BY StoredAdd
  <2>4. \A i \in Span(w) : i \in Span(y) \/ i \in s .. s + 1 - 1 \/ i \in Span(d)
    BY <1>1, <1>4, <1>6 DEF Span
  <2> HIDE DEF Q, T
  <2>5. QED
    BY <1>6, <2>1, <2>2, <2>3, <2>4
<1>12. MaxKey(T) = m
  <2>1. PICK l \in r.ivs : \A j \in r.ivs : j.min <= l.min
    BY <1>3, TreeLast
  <2>2. r.max = l.min
    BY <1>3, <2>1, MaxKeyIs
  <2>3. CASE l = d
    <3>1. m = w.min
      BY <1>6, <2>2, <2>3
    <3>2. \A j \in T : j.min <= w.min
      BY <1>4, <1>9, <1>6, <2>1, <2>3
    <3>3. w \in T
      OBVIOUS
    <3> HIDE DEF T, m
    <3>4. QED
      BY <1>3, <1>10, <3>1, <3>2, <3>3, MaxKeyIs
  <2>4. CASE l # d
    <3>1. m = l.min
      BY <1>4, <2>2, <2>4
    <3>2. l # y
      BY <1>1, <1>4, <2>1
    <3>3. l \in T /\ \A j \in T : j.min <= l.min
      BY <1>4, <1>6, <2>1, <2>4, <3>2
    <3> HIDE DEF T, m
    <3>4. QED
      BY <1>3, <1>10, <3>1, <3>3, MaxKeyIs
  <2>5. QED
    BY <2>3, <2>4
<1>13. T \in SUBSET Intervals /\ m \in Nat
  BY <1>3, <1>4, <1>10 DEF Tree
<1> HIDE DEF T, m
<1>14. /\ p \in Admins /\ p.ivs = T /\ p.max = m /\ p.next = r.next /\ p.n = r.n
       /\ p.mode = r.mode /\ p.maxSamples = r.maxSamples
  <2> DEFINE o == WithIvs(r, T)
  <2>1. /\ o \in Admins /\ o.ivs = T /\ o.next = r.next /\ o.n = r.n
        /\ o.mode = r.mode /\ o.maxSamples = r.maxSamples
    BY <1>3, <1>13, UpdateIvs
  <2> HIDE DEF o
  <2>2. p = WithMax(o, m)
    BY <1>8 DEF o
  <2>3. QED
    BY <1>13, <2>1, <2>2, UpdateMax
<1>15. Inserted(r, p, {SampleElem(s)}, s, s + 1) /\ p.max = MaxKey(p.ivs)
  BY <1>10, <1>11, <1>12, <1>14 DEF Inserted
<1>16. QED
  BY <1>15 DEF p

\* The sample goes in front of an interval.
LEMMA GrowSucc ==
  ASSUME NEW r, Good(r), NEW s \in 1 .. MaxSeq, r.next < s, NEW d \in r.ivs, d.min = s + 1,
         \A j \in r.ivs : j.maxp1 # s
  PROVE  LET p == GrowSuccAtHead(r, s, d)
         IN  Inserted(r, p, {SampleElem(s)}, s, s + 1) /\ p.max = MaxKey(p.ivs)
<1> DEFINE v == AtHead(s, d)
           T == (r.ivs \ {d}) \cup {v}
           m == IF d.min = r.max THEN s ELSE r.max
           p == GrowSuccAtHead(r, s, d)
<1>1. s \in Nat /\ s < Bound
  BY BoundNat, ReorderAssumption DEF Bound
<1>3. /\ r \in Admins /\ r.next \in Nat /\ r.n \in Nat /\ r.max \in Nat /\ Tree(r.ivs, r.next)
      /\ r.n = Total(r.ivs) /\ r.max = MaxKey(r.ivs)
  BY GoodFacts
<1>4. /\ \A j \in r.ivs : /\ r.next < j.min /\ j.min \in Nat /\ j.maxp1 \in Nat
                          /\ j.min < j.maxp1
      /\ \A i, j \in r.ivs : (i.min = j.min => i = j) /\ (i.min < j.min => i.maxp1 < j.min)
      /\ Whole(d)
  BY <1>3, TreeSpans DEF Whole
<1>5. /\ Whole(v) /\ v.min = s /\ v.maxp1 = d.maxp1
      /\ Len(v.chain) = Len(d.chain) + 1
      /\ ElemsOf(v.chain) = {SampleElem(s)} \cup ElemsOf(d.chain)
  BY <1>1, <1>4, AtHeadWhole
<1>6. p = WithMax(WithIvs(r, T), m)
  BY DEF GrowSuccAtHead, WithIvs, WithMax, AtHead
<1> HIDE DEF v, p
<1>7. ASSUME NEW j \in r.ivs \ {d} PROVE j.maxp1 < v.min \/ v.maxp1 < j.min
  <2>1. j.maxp1 < s + 1 \/ d.maxp1 < j.min
    BY <1>4
  <2>2. j.maxp1 # s
    OBVIOUS
  <2>3. QED
    BY <1>1, <1>4, <1>5, <2>1, <2>2
<1>8. Tree(T, r.next) /\ Total(T) = r.n + 1
  <2>1. T = (r.ivs \ {d}) \cup {v}
    OBVIOUS
  <2> HIDE DEF T
  <2>2. r.next \in Nat /\ Tree(r.ivs, r.next) /\ Whole(v) /\ r.next < v.min
    BY <1>3, <1>5
  <2>3. Tree(T, r.next) /\ Total(T) = Total(r.ivs) - Len(d.chain) + Len(v.chain)
    BY <1>7, <2>1, <2>2, TreeSwap
  <2>4. Len(d.chain) \in Nat
    BY <1>3, TreeRemove
  <2>5. QED
    BY <1>3, <1>5, <2>3, <2>4
<1>9. /\ Stored(T) = Stored(r.ivs) \cup {SampleElem(s)}
      /\ Spanned(T) \subseteq Spanned(r.ivs) \cup (s .. s + 1 - 1)
  <2> DEFINE R == r.ivs \ {d}
  <2>1. Stored(r.ivs) = Stored(R) \cup ElemsOf(d.chain) /\ Spanned(r.ivs) = Spanned(R) \cup Span(d)
    BY StoredRemove
  <2>2. Stored(T) = Stored(R) \cup ElemsOf(v.chain) /\ Spanned(T) = Spanned(R) \cup Span(v)
    BY StoredAdd
  <2>3. \A i \in Span(v) : i \in Span(d) \/ i \in s .. s + 1 - 1
    BY <1>1, <1>4, <1>5 DEF Span
  <2> HIDE DEF R, T
  <2>4. QED
    BY <1>5, <2>1, <2>2, <2>3
<1>10. MaxKey(T) = m
  <2>1. PICK l \in r.ivs : \A j \in r.ivs : j.min <= l.min
    BY <1>3, TreeLast
  <2>2. r.max = l.min
    BY <1>3, <2>1, MaxKeyIs
  <2>3. CASE l = d
    <3>1. m = v.min
      BY <1>5, <2>2, <2>3
    <3>2. \A j \in T : j.min <= v.min
      BY <1>4, <1>5, <1>7, <2>1, <2>3
    <3>3. v \in T
      OBVIOUS
    <3> HIDE DEF T, m
    <3>4. QED
      BY <1>3, <1>8, <3>1, <3>2, <3>3, MaxKeyIs
  <2>4. CASE l # d
    <3>1. m = l.min
      BY <1>4, <2>2, <2>4
    <3>2. s <= l.min
      BY <1>1, <1>4, <2>1
    <3>3. l \in T /\ \A j \in T : j.min <= l.min
      BY <1>4, <1>5, <2>1, <2>4, <3>2
    <3> HIDE DEF T, m
    <3>4. QED
      BY <1>3, <1>8, <3>1, <3>3, MaxKeyIs
  <2>5. QED
    BY <2>3, <2>4
<1>11. T \in SUBSET Intervals /\ m \in Nat
  BY <1>1, <1>3, <1>8 DEF Tree
<1> HIDE DEF T, m
<1>12. /\ p \in Admins /\ p.ivs = T /\ p.max = m /\ p.next = r.next /\ p.n = r.n
       /\ p.mode = r.mode /\ p.maxSamples = r.maxSamples
  <2> DEFINE o == WithIvs(r, T)
  <2>1. /\ o \in Admins /\ o.ivs = T /\ o.next = r.next /\ o.n = r.n
        /\ o.mode = r.mode /\ o.maxSamples = r.maxSamples
    BY <1>3, <1>11, UpdateIvs
  <2> HIDE DEF o
  <2>2. p = WithMax(o, m)
    BY <1>6 DEF o
  <2>3. QED
    BY <1>11, <2>1, <2>2, UpdateMax
<1>13. Inserted(r, p, {SampleElem(s)}, s, s + 1) /\ p.max = MaxKey(p.ivs)
  BY <1>8, <1>9, <1>10, <1>12 DEF Inserted
<1>14. QED
  BY <1>13 DEF p

\* The sample becomes an interval of its own between two others.
LEMMA InsertAlone ==
  ASSUME NEW r, Good(r), NEW s \in 1 .. MaxSeq, r.next < s, r.ivs # {}, s < r.max,
         \A j \in r.ivs : j.maxp1 < s \/ s + 1 < j.min
  PROVE  LET p == [r EXCEPT !.ivs = @ \cup {Singleton(s)}]
         IN  Inserted(r, p, {SampleElem(s)}, s, s + 1) /\ p.max = MaxKey(p.ivs)
<1> DEFINE a == Singleton(s)
           T == r.ivs \cup {a}
           p == WithIvs(r, T)
<1>1. s \in Nat /\ s < Bound
  BY BoundNat, ReorderAssumption DEF Bound
<1>2. /\ Whole(a) /\ a.min = s /\ a.maxp1 = s + 1
      /\ Len(a.chain) = 1 /\ ElemsOf(a.chain) = {SampleElem(s)}
  BY <1>1, SingletonWhole
<1>3. /\ r \in Admins /\ r.next \in Nat /\ r.n \in Nat /\ r.max \in Nat /\ Tree(r.ivs, r.next)
      /\ r.n = Total(r.ivs) /\ r.max = MaxKey(r.ivs)
  BY GoodFacts
<1>4. [r EXCEPT !.ivs = @ \cup {Singleton(s)}] = p
  BY DEF WithIvs
<1> HIDE DEF a
<1>5. Tree(T, r.next) /\ Total(T) = r.n + 1
  <2>1. \A j \in r.ivs : j.maxp1 < a.min \/ a.maxp1 < j.min
    BY <1>2
  <2>2. r.next \in Nat /\ Tree(r.ivs, r.next) /\ Whole(a) /\ r.next < a.min
    BY <1>2, <1>3
  <2>3. T = r.ivs \cup {a}
    OBVIOUS
  <2> HIDE DEF T
  <2>4. Tree(T, r.next) /\ Total(T) = Total(r.ivs) + Len(a.chain)
    BY <2>1, <2>2, <2>3, TreeAdd
  <2>5. QED
    BY <1>2, <1>3, <2>4
<1>6. Stored(T) = Stored(r.ivs) \cup {SampleElem(s)} /\ Spanned(T) = Spanned(r.ivs) \cup Span(a)
  BY <1>2, StoredAdd
<1>7. Span(a) = s .. s + 1 - 1
  BY <1>2 DEF Span
<1>8. MaxKey(T) = r.max
  <2>1. PICK l \in r.ivs : \A j \in r.ivs : j.min <= l.min
    BY <1>3, TreeLast
  <2>2. r.max = l.min
    BY <1>3, <2>1, MaxKeyIs
  <2>3. l \in T /\ \A j \in T : j.min <= l.min
    BY <1>1, <1>2, <1>3, <2>1, <2>2
  <2> HIDE DEF T
  <2>4. QED
    BY <1>3, <1>5, <2>2, <2>3, MaxKeyIs
<1>9. T \in SUBSET Intervals
  BY <1>5 DEF Tree
<1> HIDE DEF T
<1>10. /\ p \in Admins /\ p.ivs = T /\ p.max = r.max /\ p.next = r.next /\ p.n = r.n
       /\ p.mode = r.mode /\ p.maxSamples = r.maxSamples
  BY <1>3, <1>9, UpdateIvs
<1> HIDE DEF p
<1>11. Inserted(r, p, {SampleElem(s)}, s, s + 1) /\ p.max = MaxKey(p.ivs)
  BY <1>5, <1>6, <1>7, <1>8, <1>10 DEF Inserted
<1>12. QED
  BY <1>4, <1>11

\* The sample lies before the end of the last interval: one of the four cases above.
LEMMA InsertInsideInserts ==
  ASSUME NEW r, Good(r), NEW s \in 1 .. MaxSeq, r.next < s, r.ivs # {},
         s < MaxSampleIv(r).maxp1, s \notin Claimed(r)
  PROVE  LET p == InsertInside(r, s)
         IN  Inserted(r, p, {SampleElem(s)}, s, s + 1) /\ p.max = MaxKey(p.ivs)
<1> DEFINE P == {iv \in PredEq(r.ivs, s) : iv.maxp1 = s}
           Q == LookupMin(r.ivs, s + 1)
<1>1. /\ r.next \in Nat /\ Tree(r.ivs, r.next) /\ r.max = MaxKey(r.ivs) /\ s \in Nat
  BY GoodFacts
<1>2. CASE P # {}
  <2> DEFINE y == CHOOSE iv \in P : TRUE
  <2>1. y \in P
    BY <1>2
  <2>2. InsertInside(r, s) = GrowPred(r, s, y)
    BY <1>2 DEF InsertInside
  <2>3. y \in r.ivs /\ y.maxp1 = s
    BY <2>1 DEF PredEq
  <2> HIDE DEF y
  <2>4. CASE Q = {}
    BY <2>2, <2>3, <2>4, GrowPredAlone
  <2>5. CASE Q # {}
    <3>1. PICK d \in r.ivs : d.min = s + 1
      BY <2>5 DEF LookupMin
    <3>2. QED
      BY <2>2, <2>3, <3>1, GrowPredJoin
  <2>6. QED
    BY <2>4, <2>5
<1>3. CASE P = {}
  <2>1. \A j \in r.ivs : j.maxp1 # s
    <3>1. ASSUME NEW j \in r.ivs, j.maxp1 = s PROVE j \in P
      BY <1>1, <3>1, PredFound
    <3> HIDE DEF P
    <3>2. QED
      BY <1>3, <3>1
  <2>2. CASE Q # {}
    <3> DEFINE d == CHOOSE iv \in Q : TRUE
    <3>1. d \in Q
      BY <2>2
    <3>2. InsertInside(r, s) = GrowSuccAtHead(r, s, d)
      BY <1>3, <2>2 DEF InsertInside
    <3>3. d \in r.ivs /\ d.min = s + 1
      BY <3>1 DEF LookupMin
    <3> HIDE DEF d
    <3>4. QED
      BY <2>1, <3>2, <3>3, GrowSucc
  <2>3. CASE Q = {}
    <3>1. InsertInside(r, s) = [r EXCEPT !.ivs = @ \cup {Singleton(s)}]
      BY <1>3, <2>3 DEF InsertInside
    <3>2. \A j \in r.ivs : j.min # s + 1
      BY <2>3 DEF LookupMin
    <3>3. ASSUME NEW j \in r.ivs PROVE j.maxp1 < s \/ s + 1 < j.min
      <4>1. j.min \in Nat /\ j.maxp1 \in Nat
        BY <1>1, TreeSpans
      <4>2. ~ (j.min <= s /\ s <= j.maxp1 - 1)
        BY <1>1, <4>1 DEF Claimed, Span
      <4>3. j.maxp1 # s /\ j.min # s + 1
        BY <2>1, <3>2
      <4>4. QED
        BY <1>1, <4>1, <4>2, <4>3
    <3>4. s < r.max
      <4> DEFINE l == MaxSampleIv(r)
      <4>1. l \in r.ivs /\ l.min = r.max
        BY <1>1, LastInterval
      <4> HIDE DEF l
      <4>2. l.maxp1 < s \/ s + 1 < l.min
        BY <3>3, <4>1
      <4>3. l.maxp1 \in Nat /\ l.min \in Nat
        BY <1>1, <4>1, TreeSpans
      <4>4. s < l.maxp1
        BY DEF l
      <4>5. QED
        BY <1>1, <4>1, <4>2, <4>3, <4>4
    <3>5. QED
      BY <3>1, <3>3, <3>4, InsertAlone
  <2>4. QED
    BY <2>2, <2>3
<1>4. QED
  BY <1>2, <1>3

-----------------------------------------------------------------------------
(* Counting or evicting *)

\* What is left after eviction: everything kept lies below what went.
Evicted(p, q) ==
  /\ q \in Admins /\ q.next = p.next /\ q.mode = p.mode /\ q.maxSamples = p.maxSamples
  /\ q.n = p.n /\ Tree(q.ivs, p.next) /\ Total(q.ivs) = Total(p.ivs) - 1
  /\ q.max = MaxKey(q.ivs)
  /\ Spanned(q.ivs) \subseteq Spanned(p.ivs) /\ Stored(q.ivs) \subseteq Stored(p.ivs)
  /\ \A e \in Stored(p.ivs) : e \in Stored(q.ivs) \/ \A k \in Stored(q.ivs) : k.seq < e.seq

\* Elements of intervals that end before x have numbers below x.
LEMMA StoredBelow ==
  ASSUME NEW b \in Nat, NEW R, Tree(R, b), NEW x \in Nat, \A j \in R : j.maxp1 < x,
         NEW k \in Stored(R)
  PROVE  k.seq \in Nat /\ k.seq < x
<1>1. PICK j \in R : k \in ElemsOf(j.chain)
  BY DEF Stored
<1>2. PICK i \in 1 .. Len(j.chain) : k = j.chain[i]
  BY <1>1 DEF ElemsOf
<1>3. /\ j \in Intervals /\ Chained(j) /\ j.maxp1 \in Nat
  BY TreeSpans
<1>4. j.chain \in Seq(Elems)
  BY <1>3 DEF Intervals
<1>5. k.seq \in Nat
  BY <1>2, <1>4, ChainElem
<1>6. k.seq < j.maxp1
  BY <1>2, <1>3 DEF Chained, Within
<1>7. QED
  BY <1>3, <1>5, <1>6

\* delete_last_sample drops the element with the highest number.
LEMMA DeleteLastEvicts ==
  ASSUME NEW p \in Admins, p.next \in Nat, Tree(p.ivs, p.next), p.max = MaxKey(p.ivs), p.ivs # {}
  PROVE  Evicted(p, DeleteLastSample(p))
<1> DEFINE l == MaxSampleIv(p)
           R == p.ivs \ {l}
           q == DeleteLastSample(p)
<1>1. /\ l \in p.ivs /\ l.min = p.max
      /\ \A j \in p.ivs : j.min <= p.max /\ (j # l => j.maxp1 < p.max)
  BY LastInterval
<1> HIDE DEF l
<1>2. /\ Whole(l) /\ l.min \in Nat /\ l.maxp1 \in Nat /\ l.min < l.maxp1 /\ p.next < l.min
      /\ \A j \in R : j.min \in Nat
  BY <1>1, TreeSpans DEF Whole
<1>3. /\ Tree(R, p.next) /\ Total(p.ivs) \in Nat /\ Total(R) \in Nat
      /\ Total(p.ivs) = Total(R) + Len(l.chain) /\ Len(l.chain) \in Nat \ {0}
  BY <1>1, TreeRemove
<1>4. Stored(p.ivs) = Stored(R) \cup ElemsOf(l.chain) /\ Spanned(p.ivs) = Spanned(R) \cup Span(l)
  BY <1>1, StoredRemove
<1>5. ASSUME NEW k \in Stored(R) PROVE k.seq \in Nat /\ k.seq < l.min
  <2>1. \A j \in R : j.maxp1 < l.min
    BY <1>1
  <2> HIDE DEF R
  <2>2. QED
    BY <1>2, <1>3, <2>1, StoredBelow
<1>6. ASSUME NEW e \in ElemsOf(l.chain) PROVE e.seq \in Nat /\ l.min <= e.seq
  <2>1. PICK i \in 1 .. Len(l.chain) : e = l.chain[i]
    BY DEF ElemsOf
  <2>2. l.chain \in Seq(Elems) /\ Within(l.chain, l.min, l.maxp1)
    BY <1>2 DEF Whole, Chained, Intervals
  <2>3. QED
    BY <2>1, <2>2, ChainElem DEF Within
<1>7. CASE Len(l.chain) = 1
  <2> DEFINE m == MaxKey(R)
             o == WithIvs(p, R)
  <2>1. R \in SUBSET Intervals /\ m \in Nat
    BY <1>3, MaxKeyNat DEF Tree
  <2>2. q = WithMax(o, m)
    BY <1>7 DEF DeleteLastSample, WithIvs, WithMax, l
  <2>3. Total(R) = Total(p.ivs) - 1
    BY <1>3, <1>7
  <2> HIDE DEF R, m, o, q
  <2>4. /\ o \in Admins /\ o.ivs = R /\ o.next = p.next /\ o.n = p.n
        /\ o.mode = p.mode /\ o.maxSamples = p.maxSamples
    BY <2>1, UpdateIvs DEF o
  <2>5. /\ q \in Admins /\ q.ivs = R /\ q.max = m /\ q.next = p.next /\ q.n = p.n
        /\ q.mode = p.mode /\ q.maxSamples = p.maxSamples
    <3>1. o \in Admins /\ m \in Nat /\ q = WithMax(o, m)
      BY <2>1, <2>2, <2>4
    <3>2. /\ q \in Admins /\ q.ivs = o.ivs /\ q.max = m /\ q.next = o.next /\ q.n = o.n
          /\ q.mode = o.mode /\ q.maxSamples = o.maxSamples
      BY <3>1 DEF WithMax, Admins
    <3>3. QED
      BY <2>4, <3>2
  <2>6. ASSUME NEW e \in Stored(p.ivs), e \notin Stored(R), NEW k \in Stored(R)
        PROVE  k.seq < e.seq
    <3>1. e \in ElemsOf(l.chain)
      BY <1>4, <2>6
    <3>2. QED
      BY <1>2, <1>5, <1>6, <3>1
  <2>7. Evicted(p, q)
    BY <1>3, <1>4, <2>3, <2>5, <2>6 DEF Evicted, m
  <2>8. QED
    BY <2>7 DEF q
<1>8. CASE Len(l.chain) # 1
  <2> DEFINE v == Cut(l)
             e == l.chain[Len(l.chain)]
             T == R \cup {v}
  <2>1. /\ Whole(v) /\ v.min = l.min /\ v.maxp1 = l.maxp1 - 1
        /\ Len(v.chain) = Len(l.chain) - 1
        /\ e \in Elems /\ ElemsOf(l.chain) = ElemsOf(v.chain) \cup {e}
        /\ \A k \in ElemsOf(v.chain) : k.seq < e.seq
    BY <1>2, <1>8, CutWhole
  <2>2. q = WithIvs(p, T)
    BY <1>8 DEF DeleteLastSample, WithIvs, Cut, l
  <2> HIDE DEF v, e
  <2>3. \A j \in R : j.maxp1 < v.min \/ v.maxp1 < j.min
    BY <1>1, <2>1
  <2>4. e \in ElemsOf(l.chain)
    BY <2>1
  <2>5. Stored(T) = Stored(R) \cup ElemsOf(v.chain) /\ Spanned(T) = Spanned(R) \cup Span(v)
    BY StoredAdd
  <2>6. Span(v) \subseteq Span(l)
    BY <1>2, <2>1 DEF Span
  <2>7. MaxKey(T) = p.max /\ Tree(T, p.next) /\ Total(T) = Total(p.ivs) - 1
    <3>1. v \in T /\ T = R \cup {v} /\ \A j \in T : j.min <= v.min
      BY <1>1, <1>2, <2>1
    <3>2. p.next < v.min
      BY <1>2, <2>1
    <3> HIDE DEF T, R
    <3>3. Tree(T, p.next) /\ Total(T) = Total(R) + Len(v.chain)
      <4>1. Tree(R, p.next) /\ Whole(v) /\ T = R \cup {v}
        BY <1>3, <2>1, <3>1
      <4>2. QED
        BY <2>3, <3>2, <4>1, TreeAdd
    <3>4. MaxKey(T) = p.max
      BY <1>1, <2>1, <3>1, <3>3, MaxKeyIs
    <3>5. Total(R) + Len(v.chain) = Total(p.ivs) - 1
      BY <1>3, <2>1
    <3>6. QED
      BY <3>3, <3>4, <3>5
  <2>8. T \in SUBSET Intervals
    BY <2>7 DEF Tree
  <2> HIDE DEF T, R, q
  <2>9. /\ q \in Admins /\ q.ivs = T /\ q.max = p.max /\ q.next = p.next /\ q.n = p.n
        /\ q.mode = p.mode /\ q.maxSamples = p.maxSamples
    BY <2>2, <2>8, UpdateIvs
  <2>10. ASSUME NEW d \in Stored(p.ivs), d \notin Stored(T), NEW k \in Stored(T)
         PROVE  k.seq < d.seq
    <3>1. d = e
      BY <1>4, <2>1, <2>5, <2>10
    <3>2. CASE k \in Stored(R)
      BY <1>2, <1>5, <1>6, <2>4, <3>1, <3>2
    <3>3. CASE k \in ElemsOf(v.chain)
      BY <2>1, <3>1, <3>3
    <3>4. QED
      BY <2>5, <3>2, <3>3
  <2>11. Stored(T) \subseteq Stored(p.ivs) /\ Spanned(T) \subseteq Spanned(p.ivs)
    BY <1>4, <2>1, <2>5, <2>6
  <2>12. Evicted(p, q)
    BY <2>7, <2>9, <2>10, <2>11 DEF Evicted
  <2>13. QED
    BY <2>12 DEF q
<1>9. QED
  BY <1>7, <1>8

\* CountOrEvict and its caller's refresh of max_sampleiv, which only nn_reorder_gap needs.
LEMMA CountOrEvictEffect ==
  ASSUME NEW r, Good(r), r.mode = "normal", NEW p, NEW E, NEW lo, NEW hi,
         Inserted(r, p, E, lo, hi), r.n = r.maxSamples => p.max = MaxKey(p.ivs),
         NEW q, q.max = MaxKey(q.ivs), q \in Admins,
         q = CountOrEvict(p) \/ q = WithMax(CountOrEvict(p), MaxKey(CountOrEvict(p).ivs))
  PROVE  Effect(r, q, <<>>, E, lo, hi)
<1> DEFINE c == CountOrEvict(p)
<1>1. /\ r.next \in Nat /\ r.n \in Nat /\ r.maxSamples \in Nat /\ r.n <= r.maxSamples
      /\ r.n = Total(r.ivs)
  BY GoodFacts
<1>2. /\ p \in Admins /\ p.next = r.next /\ p.n = r.n
      /\ p.mode = r.mode /\ p.maxSamples = r.maxSamples
      /\ Tree(p.ivs, r.next) /\ Total(p.ivs) = r.n + 1
      /\ Spanned(p.ivs) \subseteq Spanned(r.ivs) \cup (lo .. hi - 1)
      /\ Stored(r.ivs) \cup E \subseteq Stored(p.ivs)
  BY DEF Inserted
<1>3. /\ c \in Admins /\ c.next = r.next /\ c.mode = r.mode /\ c.maxSamples = r.maxSamples
      /\ Tree(c.ivs, r.next) /\ c.n = Total(c.ivs) /\ c.n <= c.maxSamples
      /\ Spanned(c.ivs) \subseteq Spanned(p.ivs)
      /\ \A e \in Stored(p.ivs) :
            \/ e \in Stored(c.ivs)
            \/ r.n = r.maxSamples /\ \A k \in Stored(c.ivs) : k.seq < e.seq
  <2>1. CASE r.n < r.maxSamples
    <3> DEFINE k == p.n + 1
    <3>1. c = WithN(p, k)
      BY <1>2, <2>1 DEF CountOrEvict, WithN
    <3>2. k \in Int /\ k = Total(p.ivs) /\ k <= p.maxSamples
      BY <1>1, <1>2, <2>1
    <3> HIDE DEF k, c
    <3>3. /\ c \in Admins /\ c.ivs = p.ivs /\ c.next = p.next /\ c.n = k
          /\ c.mode = p.mode /\ c.maxSamples = p.maxSamples
      BY <1>2, <3>1, <3>2, UpdateN
    <3>4. QED
      BY <1>2, <3>2, <3>3
  <2>2. CASE ~ (r.n < r.maxSamples)
    <3>1. c = DeleteLastSample(p) /\ r.n = r.maxSamples
      BY <1>1, <1>2, <2>2 DEF CountOrEvict
    <3>2. p.ivs # {}
      <4>1. SUFFICES ASSUME p.ivs = {} PROVE FALSE
        OBVIOUS
      <4>2. Total(p.ivs) = 0
        BY <4>1, TreeEmpty
      <4>3. QED
        BY <1>1, <1>2, <4>2
    <3>3. Evicted(p, c)
      BY <1>1, <1>2, <3>1, <3>2, DeleteLastEvicts
    <3> HIDE DEF c
    <3>4. Total(c.ivs) = r.n /\ c.n = r.n /\ c.maxSamples = r.maxSamples
      BY <1>1, <1>2, <3>3 DEF Evicted
    <3>5. QED
      BY <1>1, <1>2, <3>1, <3>3, <3>4 DEF Evicted
  <2>3. QED
    BY <2>1, <2>2
<1>4. /\ q.ivs = c.ivs /\ q.next = c.next /\ q.n = c.n
      /\ q.mode = c.mode /\ q.maxSamples = c.maxSamples
  <2>1. CASE q = c
    BY <2>1
  <2>2. CASE q = WithMax(c, MaxKey(c.ivs))
    <3> HIDE DEF c
    <3>1. MaxKey(c.ivs) \in Nat
      BY <1>1, <1>3, MaxKeyNat
    <3>2. QED
      BY <1>3, <2>2, <3>1, UpdateMax
  <2>3. QED
    BY <2>1, <2>2
<1> HIDE DEF c
<1>5. Spanned(q.ivs) \subseteq Spanned(r.ivs) \cup (lo .. hi - 1)
  BY <1>2, <1>3, <1>4
<1>6. \A e \in Stored(r.ivs) \cup E :
        \/ e \in Stored(q.ivs)
        \/ r.n = r.maxSamples /\ \A k \in Stored(q.ivs) : k.seq < e.seq
  BY <1>2, <1>3, <1>4
<1>7. /\ q.next = r.next /\ q.mode = r.mode /\ q.maxSamples = r.maxSamples
      /\ Tree(q.ivs, r.next) /\ q.n = Total(q.ivs) /\ q.n <= q.maxSamples
  BY <1>3, <1>4
<1>8. QED
  BY <1>5, <1>6, <1>7, StoreEffect

-----------------------------------------------------------------------------
(* nn_reorder_rsample *)

\* The sample lies before the end of the last interval, counted or at the expense of the highest.
LEMMA InsideEffect ==
  ASSUME NEW r, Good(r), r.mode = "normal", NEW s \in 1 .. MaxSeq, r.next < s, r.ivs # {},
         s < MaxSampleIv(r).maxp1, s \notin Claimed(r)
  PROVE  Effect(r, CountOrEvict(InsertInside(r, s)), <<>>, {SampleElem(s)}, s, s + 1)
<1> DEFINE p == InsertInside(r, s)
           q == CountOrEvict(p)
<1>1. Inserted(r, p, {SampleElem(s)}, s, s + 1) /\ p.max = MaxKey(p.ivs)
  BY InsertInsideInserts
<1> HIDE DEF p
<1>2. r.next \in Nat /\ r.n \in Nat /\ r.maxSamples \in Nat
  BY GoodFacts
<1>3. /\ p \in Admins /\ p.next = r.next /\ p.n = r.n /\ p.maxSamples = r.maxSamples
      /\ Tree(p.ivs, p.next) /\ Total(p.ivs) = r.n + 1
  BY <1>1 DEF Inserted
<1>4. q \in Admins /\ q.max = MaxKey(q.ivs)
  <2>1. CASE p.n < p.maxSamples
    <3> DEFINE k == p.n + 1
    <3>1. q = WithN(p, k)
      BY <2>1 DEF CountOrEvict, WithN
    <3>2. k \in Int
      BY <1>2, <1>3
    <3> HIDE DEF k, q
    <3>3. q \in Admins /\ q.ivs = p.ivs /\ q.max = p.max
      BY <1>3, <3>1, <3>2 DEF WithN, Admins
    <3>4. QED
      BY <1>1, <3>3
  <2>2. CASE ~ (p.n < p.maxSamples)
    <3>1. q = DeleteLastSample(p)
      BY <2>2 DEF CountOrEvict
    <3>2. p.ivs # {}
      <4>1. SUFFICES ASSUME p.ivs = {} PROVE FALSE
        OBVIOUS
      <4>2. Total(p.ivs) = 0
        BY <4>1, TreeEmpty
      <4>3. QED
        BY <1>2, <1>3, <4>2
    <3>3. Evicted(p, q)
      BY <1>1, <1>2, <1>3, <3>1, <3>2, DeleteLastEvicts
    <3>4. QED
      BY <3>3 DEF Evicted
  <2>3. QED
    BY <2>1, <2>2
<1>5. QED
  BY <1>1, <1>4, CountOrEvictEffect DEF p

\* Whatever the position of the sample, an operation that changes anything accounts for it.
LEMMA RsampleEffect ==
  ASSUME NEW r, Good(r), NEW s \in 1 .. MaxSeq, NEW full \in BOOLEAN
  PROVE  LET x == ReorderRsample(r, s, full)
         IN  \/ Effect(r, x.r, x.out, {SampleElem(s)}, s, s + 1)
             \/ x.r = r /\ x.out = <<>>
<1> DEFINE x == ReorderRsample(r, s, full)
           l == MaxSampleIv(r)
<1>1. /\ r.next \in Nat /\ r.n \in Nat /\ r.maxSamples \in Nat /\ Tree(r.ivs, r.next)
      /\ r.max = MaxKey(r.ivs) /\ r.mode \in Modes /\ s \in Nat
  BY GoodFacts
<1>2. CASE Deliverable(r, s)
  <2>1. x = IF full THEN Reject(r) ELSE DeliverSample(r, s)
    BY <1>1, <1>2 DEF ReorderRsample
  <2>2. CASE full
    BY <2>1, <2>2 DEF Reject, Result
  <2>3. CASE ~ full
    <3>1. x = DeliverSample(r, s)
      BY <2>1, <2>3
    <3> HIDE DEF x
    <3>2. QED
      BY <1>2, <3>1, Deliver DEF x
  <2>4. QED
    BY <2>2, <2>3
<1>3. CASE ~ Deliverable(r, s) /\ s < r.next
  <2>1. x = TooOld(r)
    BY <1>1, <1>3 DEF ReorderRsample
  <2>2. QED
    BY <2>1 DEF TooOld, Result
<1>4. ASSUME ~ Deliverable(r, s), ~ (s < r.next) PROVE s > r.next /\ r.mode = "normal" /\ r.next < s
  BY <1>1, <1>4 DEF Deliverable, Modes
<1>5. CASE ~ Deliverable(r, s) /\ ~ (s < r.next) /\ r.ivs = {}
  <2>1. x = IF r.maxSamples = 0 THEN Reject(r) ELSE Accept(AddInterval(r, s))
    BY <1>1, <1>4, <1>5 DEF ReorderRsample
  <2>2. CASE r.maxSamples = 0
    BY <2>1, <2>2 DEF Reject, Result
  <2>3. CASE r.maxSamples # 0
    <3>1. x = [r |-> AddInterval(r, s), res |-> "accept", out |-> <<>>]
      BY <2>1, <2>3 DEF Accept, Result
    <3>2. r.n = 0
      BY <1>5, GoodFacts, TreeEmpty
    <3>3. r.n < r.maxSamples
      BY <1>1, <2>3, <3>2
    <3>4. Effect(r, AddInterval(r, s), <<>>, {SampleElem(s)}, s, s + 1)
      BY <1>4, <1>5, <3>3, AddIntervalEffect
    <3>5. x.r = AddInterval(r, s) /\ x.out = <<>>
      BY <3>1
    <3>6. QED
      BY <3>4, <3>5
  <2>4. QED
    BY <2>2, <2>3
<1>6. CASE ~ Deliverable(r, s) /\ ~ (s < r.next) /\ r.ivs # {}
  <2> DEFINE room == ~ full /\ r.n < r.maxSamples
  <2>1. /\ l \in r.ivs /\ l.min = r.max
        /\ \A j \in r.ivs : j.min <= r.max /\ (j # l => j.maxp1 < r.max)
    BY <1>1, <1>6, LastInterval
  <2>2. l.maxp1 \in Nat /\ l.min \in Nat /\ l.min < l.maxp1
    BY <1>1, <2>1, TreeSpans
  <2>3. x = CASE s = l.maxp1 -> IF room THEN Accept(GrowLast(r, s)) ELSE Reject(r)
              [] s > l.maxp1 -> IF room THEN Accept(AddInterval(r, s)) ELSE Reject(r)
              [] s < l.maxp1 -> IF (r.lateAck /\ full) \/ s \in Claimed(r)
                                THEN Reject(r)
                                ELSE Accept(CountOrEvict(InsertInside(r, s)))
    BY <1>1, <1>4, <1>6 DEF ReorderRsample
  <2>4. CASE s = l.maxp1
    <3>1. x = IF room THEN Accept(GrowLast(r, s)) ELSE Reject(r)
      BY <1>1, <2>2, <2>3, <2>4
    <3>2. CASE room
      <4>1. Effect(r, GrowLast(r, s), <<>>, {SampleElem(s)}, s, s + 1)
        BY <1>4, <1>6, <2>4, <3>2, GrowLastEffect
      <4>2. x.r = GrowLast(r, s) /\ x.out = <<>>
        BY <3>1, <3>2 DEF Accept, Result
      <4>3. QED
        BY <4>1, <4>2
    <3>3. CASE ~ room
      BY <3>1, <3>3 DEF Reject, Result
    <3>4. QED
      BY <3>2, <3>3
  <2>5. CASE s > l.maxp1
    <3>1. x = IF room THEN Accept(AddInterval(r, s)) ELSE Reject(r)
      BY <1>1, <2>2, <2>3, <2>5
    <3>2. CASE room
      <4>0. \A j \in r.ivs : j.maxp1 < s
        <5>1. \A j \in r.ivs : j.maxp1 \in Nat
          BY <1>1, TreeSpans
        <5>2. QED
          BY <1>1, <2>1, <2>2, <2>5, <5>1
      <4>1. Effect(r, AddInterval(r, s), <<>>, {SampleElem(s)}, s, s + 1)
        BY <1>4, <1>6, <3>2, <4>0, AddIntervalEffect
      <4>2. x.r = AddInterval(r, s) /\ x.out = <<>>
        BY <3>1, <3>2 DEF Accept, Result
      <4>3. QED
        BY <4>1, <4>2
    <3>3. CASE ~ room
      BY <3>1, <3>3 DEF Reject, Result
    <3>4. QED
      BY <3>2, <3>3
  <2>6. CASE s < l.maxp1
    <3> DEFINE q == CountOrEvict(InsertInside(r, s))
    <3>1. x = IF (r.lateAck /\ full) \/ s \in Claimed(r) THEN Reject(r) ELSE Accept(q)
      BY <1>1, <2>2, <2>3, <2>6
    <3>2. CASE ~ ((r.lateAck /\ full) \/ s \in Claimed(r))
      <4>1. Effect(r, q, <<>>, {SampleElem(s)}, s, s + 1)
        BY <1>4, <1>6, <2>6, <3>2, InsideEffect
      <4>2. x.r = q /\ x.out = <<>>
        BY <3>1, <3>2 DEF Accept, Result
      <4>3. QED
        BY <4>1, <4>2
    <3>3. CASE (r.lateAck /\ full) \/ s \in Claimed(r)
      BY <3>1, <3>3 DEF Reject, Result
    <3>4. QED
      BY <3>2, <3>3
  <2>7. QED
    BY <1>1, <2>2, <2>4, <2>5, <2>6
<1>7. QED
  BY <1>2, <1>3, <1>5, <1>6

-----------------------------------------------------------------------------
(* nn_reorder_gap *)

\* What the refresh of max_sampleiv at the end of nn_reorder_gap restores.
LEMMA Refresh ==
  ASSUME NEW p \in Admins, Tree(p.ivs, p.next), NEW q, q = RefreshMax(p)
  PROVE  /\ q \in Admins /\ q.ivs = p.ivs /\ q.max = MaxKey(q.ivs) /\ q.next = p.next /\ q.n = p.n
         /\ q.mode = p.mode /\ q.maxSamples = p.maxSamples
<1> DEFINE m == MaxKey(p.ivs)
<1>1. p.next \in Nat
  BY DEF Admins
<1>2. m \in Nat
  BY <1>1, MaxKeyNat
<1>3. q = WithMax(p, m)
  BY DEF RefreshMax, WithMax
<1> HIDE DEF m
<1>4. /\ q \in Admins /\ q.ivs = p.ivs /\ q.max = m /\ q.next = p.next /\ q.n = p.n
      /\ q.mode = p.mode /\ q.maxSamples = p.maxSamples
  BY <1>2, <1>3, UpdateMax
<1>5. QED
  BY <1>4 DEF m

\* The gap begins at or before the head of the sequence.
LEMMA GapAtHead ==
  ASSUME NEW r, Good(r), r.mode = "normal", NEW min \in Nat, NEW maxp1 \in 0 .. Bound,
         r.next < maxp1, min <= r.next, Touching(r, min, maxp1) = {}
  PROVE  Effect(r, RefreshMax([r EXCEPT !.next = maxp1]), <<>>, {}, min, maxp1)
<1> DEFINE p == WithNext(r, maxp1)
           q == RefreshMax(p)
<1>1. /\ r \in Admins /\ r.next \in Nat /\ r.n \in Nat /\ r.maxSamples \in Nat
      /\ Tree(r.ivs, r.next) /\ r.n = Total(r.ivs) /\ r.n <= r.maxSamples /\ maxp1 \in Nat
  BY GoodFacts, BoundNat
<1>2. maxp1 \in Nat \ {0}
  BY <1>1
<1>3. [r EXCEPT !.next = maxp1] = p
  BY DEF WithNext
<1>4. /\ p \in Admins /\ p.ivs = r.ivs /\ p.next = maxp1 /\ p.n = r.n
      /\ p.mode = r.mode /\ p.maxSamples = r.maxSamples
  BY <1>1, <1>2, UpdateNext
<1> HIDE DEF p
<1>5. Tree(p.ivs, p.next)
  <2>1. ASSUME NEW j \in r.ivs PROVE maxp1 < j.min
    <3>1. r.next < j.min /\ j.min \in Nat /\ j.maxp1 \in Nat /\ j.min < j.maxp1
      BY <1>1, TreeSpans
    <3>2. ~ (j.maxp1 >= min /\ j.min <= maxp1)
      BY DEF Touching
    <3>3. QED
      BY <1>1, <3>1, <3>2
  <2>2. QED
    BY <1>1, <1>4, <2>1, TreeRaise
<1>6. /\ q \in Admins /\ q.ivs = p.ivs /\ q.max = MaxKey(q.ivs) /\ q.next = p.next /\ q.n = p.n
      /\ q.mode = p.mode /\ q.maxSamples = p.maxSamples
  BY <1>4, <1>5, Refresh
<1> HIDE DEF q
<1>7. Good(q)
  BY <1>1, <1>4, <1>5, <1>6 DEF Good
<1>8. Cover(q) \subseteq Cover(r) \cup (min .. maxp1 - 1)
  <2>1. \A i \in 1 .. q.next - 1 : i \in 1 .. r.next - 1 \/ i \in min .. maxp1 - 1
    BY <1>1, <1>4, <1>6
  <2>2. QED
    BY <1>4, <1>6, <2>1 DEF Cover
<1>9. r.next <= q.next /\ q.mode = r.mode /\ q.maxSamples = r.maxSamples /\ q.ivs = r.ivs
  BY <1>1, <1>4, <1>6
<1>10. Effect(r, q, <<>>, {}, min, maxp1)
  BY <1>7, <1>8, <1>9, EmptyChain, EmptyWithin DEF Effect
<1>11. QED
  BY <1>3, <1>10 DEF q

\* The gap is stored, on its own.
LEMMA GapInserted ==
  ASSUME NEW r, Good(r), r.mode = "normal", NEW min \in Nat, NEW maxp1 \in 0 .. Bound,
         min < maxp1, r.next < min, Touching(r, min, maxp1) = {},
         r.n = r.maxSamples => r.max # 0 /\ ~ (min > MaxSampleIv(r).maxp1)
  PROVE  Effect(r, RefreshMax(CountOrEvict(InsertGap(r, min, maxp1))), <<>>, {}, min, maxp1)
<1> DEFINE e == GapElem(min)
           a == [min |-> min, maxp1 |-> maxp1, chain |-> <<e>>, mem |-> e]
           T == r.ivs \cup {a}
           p == InsertGap(r, min, maxp1)
           c == CountOrEvict(p)
           q == RefreshMax(c)
<1>1. /\ r \in Admins /\ r.next \in Nat /\ r.n \in Nat /\ r.maxSamples \in Nat /\ r.max \in Nat
      /\ Tree(r.ivs, r.next) /\ r.n = Total(r.ivs) /\ r.n <= r.maxSamples /\ maxp1 \in Nat
      /\ r.max = MaxKey(r.ivs)
  BY GoodFacts, BoundNat
<1>2. e \in Elems /\ e.seq = min
  BY DEF GapElem, Elems
<1>3. Whole(a) /\ Len(a.chain) = 1
  BY <1>2, OneElem
<1>4. a.min = min /\ a.maxp1 = maxp1
  OBVIOUS
<1>5. p = WithIvs(r, T)
  BY DEF InsertGap, WithIvs
<1> HIDE DEF a, e
<1>6. \A j \in r.ivs : j.maxp1 < min \/ maxp1 < j.min
  <2> SUFFICES ASSUME NEW j \in r.ivs PROVE j.maxp1 < min \/ maxp1 < j.min
    OBVIOUS
  <2>1. j.min \in Nat /\ j.maxp1 \in Nat
    BY <1>1, TreeSpans
  <2>2. ~ (j.maxp1 >= min /\ j.min <= maxp1)
    BY DEF Touching
  <2>3. QED
    BY <1>1, <2>1, <2>2
<1>7. Tree(T, r.next) /\ Total(T) = r.n + 1
  <2>1. T = r.ivs \cup {a} /\ r.next < a.min /\ \A j \in r.ivs : j.maxp1 < a.min \/ a.maxp1 < j.min
    BY <1>4, <1>6
  <2>2. r.next \in Nat /\ Tree(r.ivs, r.next) /\ Whole(a)
    BY <1>1, <1>3
  <2> HIDE DEF T
  <2>3. Tree(T, r.next) /\ Total(T) = Total(r.ivs) + Len(a.chain)
    BY <2>1, <2>2, TreeAdd
  <2>4. QED
    BY <1>1, <1>3, <2>3
<1>8. Stored(T) = Stored(r.ivs) \cup ElemsOf(a.chain) /\ Spanned(T) = Spanned(r.ivs) \cup Span(a)
  BY StoredAdd
<1>9. Span(a) = min .. maxp1 - 1
  BY <1>4 DEF Span
<1>10. ASSUME r.n = r.maxSamples PROVE MaxKey(T) = r.max
  <2> DEFINE l == MaxSampleIv(r)
  <2>1. r.ivs # {}
    BY <1>1, <1>10, MaxKeyEmpty
  <2>2. /\ l \in r.ivs /\ l.min = r.max
        /\ \A j \in r.ivs : j.min <= r.max /\ (j # l => j.maxp1 < r.max)
    BY <1>1, <2>1, LastInterval
  <2>3. l.maxp1 \in Nat /\ ~ (min > l.maxp1)
    BY <1>1, <1>10, <2>2, TreeSpans
  <2> HIDE DEF l
  <2>4. maxp1 < l.min
    BY <1>6, <2>2, <2>3
  <2>5. l \in T /\ \A j \in T : j.min <= l.min
    BY <1>1, <1>4, <2>2, <2>4
  <2> HIDE DEF T
  <2>6. QED
    BY <1>1, <1>7, <2>2, <2>5, MaxKeyIs
<1>11. T \in SUBSET Intervals
  BY <1>7 DEF Tree
<1> HIDE DEF T, p
<1>12. /\ p \in Admins /\ p.ivs = T /\ p.max = r.max /\ p.next = r.next /\ p.n = r.n
       /\ p.mode = r.mode /\ p.maxSamples = r.maxSamples
  BY <1>1, <1>5, <1>11, UpdateIvs
<1>13. Inserted(r, p, {}, min, maxp1)
  BY <1>7, <1>8, <1>9, <1>12 DEF Inserted
<1>14. r.n = r.maxSamples => p.max = MaxKey(p.ivs)
  BY <1>10, <1>12
<1>15. c \in Admins /\ Tree(c.ivs, c.next)
  <2>1. CASE p.n < p.maxSamples
    <3> DEFINE k == p.n + 1
    <3>1. c = WithN(p, k)
      BY <2>1 DEF CountOrEvict, WithN
    <3>2. k \in Int
      BY <1>1, <1>12
    <3> HIDE DEF k, c
    <3>3. c \in Admins /\ c.ivs = p.ivs /\ c.next = p.next
      BY <1>12, <3>1, <3>2, UpdateN
    <3>4. QED
      BY <1>7, <1>12, <3>3
  <2>2. CASE ~ (p.n < p.maxSamples)
    <3>1. c = DeleteLastSample(p) /\ r.n = r.maxSamples
      BY <1>1, <1>12, <2>2 DEF CountOrEvict
    <3>2. p.ivs # {} /\ p.max = MaxKey(p.ivs) /\ Tree(p.ivs, p.next) /\ p.next \in Nat
      <4>1. p.max = MaxKey(p.ivs) /\ Tree(p.ivs, p.next) /\ p.next \in Nat
        BY <1>1, <1>7, <1>12, <1>14, <3>1
      <4>2. SUFFICES ASSUME p.ivs = {} PROVE FALSE
        BY <4>1
      <4>3. Total(T) = 0
        BY <1>12, <4>2, TreeEmpty
      <4>4. QED
        BY <1>1, <1>7, <4>3
    <3>3. Evicted(p, c)
      BY <1>12, <3>1, <3>2, DeleteLastEvicts
    <3> HIDE DEF c
    <3>4. QED
      BY <3>3 DEF Evicted
  <2>3. QED
    BY <2>1, <2>2
<1>16. q = WithMax(c, MaxKey(c.ivs))
  BY DEF RefreshMax, WithMax
<1>17. q \in Admins /\ q.max = MaxKey(q.ivs)
  BY <1>15, Refresh
<1>18. QED
  BY <1>13, <1>14, <1>16, <1>17, CountOrEvictEffect DEF p

\* The sum over a set is that over its parts...
LEMMA TotalSplit ==
  ASSUME NEW S \in SUBSET Intervals, IsFiniteSet(S), NEW T \in SUBSET S
  PROVE  Total(S) = Total(S \ T) + Total(T)
<1> DEFINE P(U) == Total(S) = Total(S \ U) + Total(U)
           A == {k \in Nat : \A U \in SUBSET S : Cardinality(U) = k => P(U)}
<1>1. \A U \in SUBSET S : /\ IsFiniteSet(U) /\ Cardinality(U) \in Nat
                          /\ Total(U) \in Nat /\ Total(S \ U) \in Nat
  <2> SUFFICES ASSUME NEW U \in SUBSET S
               PROVE  /\ IsFiniteSet(U) /\ Cardinality(U) \in Nat
                      /\ Total(U) \in Nat /\ Total(S \ U) \in Nat
    OBVIOUS
  <2>1. IsFiniteSet(U) /\ IsFiniteSet(S \ U)
    BY FS_Subset
  <2>2. Cardinality(U) \in Nat
    BY <2>1, FS_CardinalityType
  <2>3. Total(U) \in Nat /\ Total(S \ U) \in Nat
    BY <2>1, TotalNat
  <2>4. QED
    BY <2>1, <2>2, <2>3
<1>2. 0 \in A
  <2> SUFFICES ASSUME NEW U \in SUBSET S, Cardinality(U) = 0 PROVE P(U)
    OBVIOUS
  <2>1. U = {}
    BY <1>1, FS_EmptySet
  <2>2. S \ U = S /\ Total({}) = 0
    BY <2>1, TreeEmpty
  <2>3. Total(S) \in Nat
    BY <1>1
  <2>4. QED
    BY <2>1, <2>2, <2>3
<1>3. ASSUME NEW k \in A PROVE k + 1 \in A
  <2> SUFFICES ASSUME NEW U \in SUBSET S, Cardinality(U) = k + 1 PROVE P(U)
    OBVIOUS
  <2>0. k \in Nat
    OBVIOUS
  <2>1. U # {}
    BY <1>1, <2>0, FS_EmptySet
  <2>2. PICK x \in U : TRUE
    BY <2>1
  <2> DEFINE V == U \ {x}
  <2>3. V \in SUBSET S /\ Cardinality(V) = k
    <3>1. Cardinality(U \ {x}) = Cardinality(U) - 1
      BY <1>1, FS_RemoveElement
    <3>2. QED
      BY <2>0, <3>1
  <2>4. P(V)
    BY <2>3
  <2>5. Total(U) = Len(x.chain) + Total(V)
    BY <1>1, TotalRemove
  <2>6. Total(S \ V) = Len(x.chain) + Total(S \ U)
    <3> DEFINE W == S \ V
    <3>1. W \in SUBSET Intervals /\ IsFiniteSet(W) /\ x \in W /\ W \ {x} = S \ U
      BY FS_Subset
    <3> HIDE DEF W
    <3>2. Total(W) = Len(x.chain) + Total(W \ {x})
      BY <3>1, TotalRemove
    <3>3. QED
      BY <3>1, <3>2 DEF W
  <2>7. /\ Total(S) \in Nat /\ Total(U) \in Nat /\ Total(V) \in Nat
        /\ Total(S \ U) \in Nat /\ Total(S \ V) \in Nat
    BY <1>1, <2>3
  <2>8. Len(x.chain) \in Nat
    BY LenProperties DEF Intervals
  <2> HIDE DEF V
  <2>9. Total(S) = Total(S \ V) + Total(V)
    BY <2>4
  <2>10. QED
    BY <2>5, <2>6, <2>7, <2>8, <2>9
<1>4. Cardinality(T) \in A
  <2> HIDE DEF A
  <2>1. A \in SUBSET Nat
    BY DEF A
  <2>2. QED
    BY <1>1, <1>2, <1>3, <2>1, SetInduction
<1>5. QED
  BY <1>4

\* ... and so is what is stored.
LEMMA StoredSplit ==
  ASSUME NEW S, NEW T \in SUBSET S
  PROVE  /\ Stored(S) = Stored(S \ T) \cup Stored(T)
         /\ Spanned(S) = Spanned(S \ T) \cup Spanned(T)
  BY DEF Stored, Spanned

\* The interval nn_reorder_gap makes of all the ones the gap touches.
LEMMA CoalesceWhole ==
  ASSUME NEW b \in Nat, NEW T, Tree(T, b), T # {}, NEW min \in Nat, NEW maxp1 \in 0 .. Bound,
         min < maxp1, \A iv \in T : iv.maxp1 >= min /\ iv.min <= maxp1
  PROVE  LET c == Coalesce(T, min, maxp1)
         IN  /\ Whole(c) /\ c.chain = ConcatChains(T) /\ Len(c.chain) = Total(T)
             /\ ElemsOf(c.chain) = Stored(T) /\ Within(c.chain, b + 1, c.maxp1)
             /\ c.min <= min /\ maxp1 <= c.maxp1 /\ \A iv \in T : c.min <= iv.min
             /\ c.min = min \/ \E iv \in T : c.min = iv.min
             /\ c.maxp1 = maxp1 \/ \E iv \in T : c.maxp1 = iv.maxp1
<1> DEFINE c == Coalesce(T, min, maxp1)
           X == {min} \cup {iv.min : iv \in T}
           Y == {maxp1} \cup {iv.maxp1 : iv \in T}
           h == ConcatChains(T)
<1>1. /\ \A i \in T : /\ i \in Intervals /\ Chained(i) /\ b < i.min
                      /\ i.min \in Nat /\ i.maxp1 \in Nat /\ i.min < i.maxp1 /\ i.maxp1 <= Bound
      /\ \A i, j \in T : i.min = j.min => i = j
  BY TreeSpans
<1>2. c.min = MinOf(X) /\ c.maxp1 = MaxOf(Y) /\ c.chain = h
  BY DEF Coalesce
<1>3. c.min \in X /\ \A k \in X : c.min <= k
  <2>1. X \in SUBSET Nat /\ X # {}
    BY <1>1
  <2>2. \E n \in X : \A k \in X : n <= k
    BY <2>1, LeastOfNat
  <2> HIDE DEF X, c
  <2>3. QED
    BY <1>2, <2>2 DEF MinOf
<1>4. c.maxp1 \in Y /\ \A k \in Y : k <= c.maxp1
  <2>1. Y \in SUBSET (0 .. Bound) /\ Y # {}
    BY <1>1, BoundNat
  <2>2. \E n \in Y : \A k \in Y : k <= n
    BY <2>1, BoundNat, GreatestOfBounded
  <2> HIDE DEF Y, c
  <2>3. QED
    BY <1>2, <2>2 DEF MaxOf
<1>5. PICK f \in T : \A j \in T : f.min <= j.min
  BY TreeFirst
<1>6. c.mem = f.mem
  <2>1. FindMin(T) = {f}
    BY <1>5, FindMinIs
  <2>2. (CHOOSE iv \in T : iv \in FindMin(T)) = f
    BY <2>1
  <2>3. QED
    BY <2>2 DEF Coalesce
<1>7. c \in [min : {c.min}, maxp1 : {c.maxp1}, chain : {c.chain}, mem : {c.mem}]
  BY DEF Coalesce
<1> HIDE DEF c
<1>8. /\ c.min \in Nat /\ c.maxp1 \in 0 .. Bound /\ c.min <= min /\ maxp1 <= c.maxp1
      /\ \A iv \in T : c.min <= iv.min /\ iv.maxp1 <= c.maxp1
      /\ c.min = min \/ \E iv \in T : c.min = iv.min
      /\ c.maxp1 = maxp1 \/ \E iv \in T : c.maxp1 = iv.maxp1
  <2>1. /\ c.min <= min /\ \A iv \in T : c.min <= iv.min
        /\ c.min = min \/ \E iv \in T : c.min = iv.min
    BY <1>3
  <2>2. /\ maxp1 <= c.maxp1 /\ \A iv \in T : iv.maxp1 <= c.maxp1
        /\ c.maxp1 = maxp1 \/ \E iv \in T : c.maxp1 = iv.maxp1
    BY <1>4
  <2>3. c.min \in Nat
    BY <1>1, <2>1
  <2>4. c.maxp1 \in 0 .. Bound
    BY <1>1, <2>2, BoundNat
  <2>5. QED
    BY <2>1, <2>2, <2>3, <2>4
<1>9. c.maxp1 \in Nat
  BY <1>8, BoundNat
<1>10. h \in Seq(Elems) /\ Len(h) = Total(T) /\ Sorted(h) /\ Within(h, b + 1, c.maxp1)
  BY <1>8, <1>9, ConcatTree
<1>11. ElemsOf(h) = Stored(T) /\ h # <<>> /\ h[1] = f.chain[1]
  BY <1>5, ConcatElems DEF Stored
<1>12. Within(h, c.min, c.maxp1)
  <2> SUFFICES ASSUME NEW i \in 1 .. Len(h) PROVE c.min <= h[i].seq /\ h[i].seq < c.maxp1
    BY DEF Within
  <2>1. h[i] \in Stored(T) /\ h[i].seq < c.maxp1 /\ h[i].seq \in Nat
    BY <1>10, <1>11, ChainElem DEF ElemsOf, Within
  <2>2. PICK iv \in T : h[i] \in ElemsOf(iv.chain)
    BY <2>1 DEF Stored
  <2>3. iv.min <= h[i].seq
    BY <1>1, <2>2 DEF ElemsOf, Chained, Within
  <2>4. QED
    BY <1>1, <1>8, <2>1, <2>3
<1> HIDE DEF h
<1>13. f.mem = f.chain[1] /\ f.mem \in Elems
  BY <1>1 DEF Chained, Intervals
<1>14. Whole(c)
  <2>1. c \in Intervals
    BY <1>2, <1>6, <1>7, <1>8, <1>10, <1>13 DEF Intervals
  <2>2. Chained(c)
    BY <1>2, <1>6, <1>10, <1>11, <1>12, <1>13 DEF Chained
  <2>3. QED
    BY <2>1, <2>2 DEF Whole
<1>15. QED
  BY <1>2, <1>8, <1>10, <1>11, <1>14 DEF c, h

\* T is touched by the gap, R is not, and [x, y) is the union of T and the gap.
Touched(T, min, maxp1) == \A iv \in T : iv.maxp1 >= min /\ iv.min <= maxp1
Clear(R, min, maxp1) == \A j \in R : ~ (j.maxp1 >= min /\ j.min <= maxp1)
Reach(T, min, maxp1, x, y) ==
  /\ x \in Nat /\ y \in Nat /\ x <= min /\ maxp1 <= y
  /\ x = min \/ \E iv \in T : x = iv.min
  /\ y = maxp1 \/ \E iv \in T : y = iv.maxp1

Aside(R, x, y) == \A j \in R : j.maxp1 < x \/ y < j.min
Filled(T, min, maxp1, x, y) ==
  \A n \in x .. y - 1 : n \in min .. maxp1 - 1 \/ n \in Spanned(T)

\* What the gap does not touch stays apart from the coalesced interval.
LEMMA CoalesceApart ==
  ASSUME NEW b \in Nat, NEW S, Tree(S, b), NEW T \in SUBSET S, NEW R, R = S \ T,
         NEW min \in Nat, NEW maxp1 \in Nat, min < maxp1, Touched(T, min, maxp1),
         Clear(R, min, maxp1), NEW x, NEW y, Reach(T, min, maxp1, x, y)
  PROVE  Aside(R, x, y) /\ Filled(T, min, maxp1, x, y)
<1>0. /\ \A iv \in T : iv.maxp1 >= min /\ iv.min <= maxp1
      /\ \A j \in S \ T : ~ (j.maxp1 >= min /\ j.min <= maxp1)
      /\ x \in Nat /\ y \in Nat /\ x <= min /\ maxp1 <= y
      /\ x = min \/ \E iv \in T : x = iv.min
      /\ y = maxp1 \/ \E iv \in T : y = iv.maxp1
  BY DEF Touched, Clear, Reach
<1>1. /\ \A i \in S : i.min \in Nat /\ i.maxp1 \in Nat /\ i.min < i.maxp1
      /\ \A i, j \in S : (i.min = j.min => i = j) /\ (i.min < j.min => i.maxp1 < j.min)
  BY TreeSpans
<1>2. ASSUME NEW j \in R PROVE j.maxp1 < x \/ y < j.min
  <2>1. j.min \in Nat /\ j.maxp1 \in Nat /\ j.min < j.maxp1
    BY <1>1
  <2>2. CASE j.maxp1 < min
    <3>1. CASE x = min
      BY <2>2, <3>1
    <3>2. CASE x # min
      <4>1. PICK i \in T : x = i.min
        BY <1>0, <3>2
      <4>2. i.maxp1 >= min /\ i \in S /\ i # j
        BY <1>0
      <4>3. j.min < i.min
        BY <1>1, <2>1, <2>2, <4>2
      <4>4. QED
        BY <1>0, <1>1, <4>1, <4>2, <4>3
    <3>3. QED
      BY <3>1, <3>2
  <2>3. CASE maxp1 < j.min
    <3>1. CASE y = maxp1
      BY <2>3, <3>1
    <3>2. CASE y # maxp1
      <4>1. PICK i \in T : y = i.maxp1
        BY <1>0, <3>2
      <4>2. i.min <= maxp1 /\ i \in S /\ i # j
        BY <1>0
      <4>3. i.min < j.min
        BY <1>1, <2>1, <2>3, <4>2
      <4>4. QED
        BY <1>0, <1>1, <4>1, <4>2, <4>3
    <3>3. QED
      BY <3>1, <3>2
  <2>4. QED
    BY <1>0, <2>1, <2>2, <2>3
<1>3. ASSUME NEW n \in x .. y - 1, n \notin min .. maxp1 - 1 PROVE n \in Spanned(T)
  <2>1. CASE n < min
    <3>1. PICK i \in T : x = i.min
      BY <1>0, <2>1
    <3>2. i.maxp1 >= min /\ i.maxp1 \in Nat
      BY <1>0, <1>1
    <3>3. n \in Span(i)
      BY <1>0, <2>1, <3>1, <3>2 DEF Span
    <3>4. QED
      BY <3>3 DEF Spanned
  <2>2. CASE n >= maxp1
    <3>1. PICK i \in T : y = i.maxp1
      BY <1>0, <2>2
    <3>2. i.min <= maxp1 /\ i.min \in Nat
      BY <1>0, <1>1
    <3>3. n \in Span(i)
      BY <1>0, <2>2, <3>1, <3>2 DEF Span
    <3>4. QED
      BY <3>3 DEF Spanned
  <2>3. QED
    BY <1>0, <1>3, <2>1, <2>2
<1>4. QED
  BY <1>2, <1>3 DEF Aside, Filled

\* The gap touches intervals: they become one, delivered at once if it begins at next_seq.
LEMMA GapCoalescedEffect ==
  ASSUME NEW r, Good(r), r.mode = "normal", NEW min \in Nat, NEW maxp1 \in 0 .. Bound,
         min < maxp1, r.next < maxp1, NEW T, T = Touching(r, min, maxp1), T # {}
  PROVE  LET x == GapCoalesced(r, T, min, maxp1) IN Effect(r, x.r, x.out, {}, min, maxp1)
<1> DEFINE c == Coalesce(T, min, maxp1)
           R == r.ivs \ T
           x == GapCoalesced(r, T, min, maxp1)
<1>1. /\ r \in Admins /\ r.next \in Nat /\ r.n \in Nat /\ r.maxSamples \in Nat
      /\ Tree(r.ivs, r.next) /\ r.n = Total(r.ivs) /\ r.n <= r.maxSamples /\ maxp1 \in Nat
  BY GoodFacts, BoundNat
<1>2. /\ T \in SUBSET r.ivs /\ \A iv \in T : iv.maxp1 >= min /\ iv.min <= maxp1
      /\ \A j \in R : ~ (j.maxp1 >= min /\ j.min <= maxp1)
  BY DEF Touching
<1>3. Tree(T, r.next) /\ Tree(R, r.next)
  BY <1>1, <1>2, Subtree
<1>4. /\ Whole(c) /\ c.chain = ConcatChains(T) /\ Len(c.chain) = Total(T)
      /\ ElemsOf(c.chain) = Stored(T) /\ Within(c.chain, r.next + 1, c.maxp1)
      /\ c.min <= min /\ maxp1 <= c.maxp1 /\ \A iv \in T : c.min <= iv.min
      /\ c.min = min \/ \E iv \in T : c.min = iv.min
      /\ c.maxp1 = maxp1 \/ \E iv \in T : c.maxp1 = iv.maxp1
  BY <1>1, <1>2, <1>3, CoalesceWhole
<1>5. x = IF c.min <= r.next
          THEN [r |-> RefreshMax(WithN(WithNext(WithIvs(r, R), c.maxp1), r.n - Len(c.chain))),
                res |-> "deliver", out |-> c.chain]
          ELSE [r |-> RefreshMax(WithIvs(r, R \cup {c})),
                res |-> IF {c} = T THEN "reject" ELSE "accept", out |-> <<>>]
  BY DEF GapCoalesced, Result, WithIvs, WithNext, WithN
<1> HIDE DEF c, x
<1>6. c.min \in Nat /\ c.maxp1 \in Nat /\ c.min < c.maxp1 /\ c.maxp1 <= Bound
  BY <1>4, ChainedSpan DEF Whole
<1>7. /\ \A j \in R : j.maxp1 < c.min \/ c.maxp1 < j.min
      /\ \A n \in c.min .. c.maxp1 - 1 : n \in min .. maxp1 - 1 \/ n \in Spanned(T)
  <2>1. Touched(T, min, maxp1) /\ Clear(R, min, maxp1)
    BY <1>2 DEF Touched, Clear
  <2>2. Reach(T, min, maxp1, c.min, c.maxp1)
    BY <1>4, <1>6 DEF Reach
  <2>3. r.next \in Nat /\ Tree(r.ivs, r.next) /\ maxp1 \in Nat /\ T \in SUBSET r.ivs /\ R = r.ivs \ T
    BY <1>1, <1>2
  <2> HIDE DEF R
  <2>4. Aside(R, c.min, c.maxp1) /\ Filled(T, min, maxp1, c.min, c.maxp1)
    BY <2>1, <2>2, <2>3, CoalesceApart
  <2>5. QED
    BY <2>4 DEF Aside, Filled
<1>8. /\ Total(r.ivs) = Total(R) + Total(T) /\ Total(R) \in Nat /\ Total(T) \in Nat
  <2>1. r.ivs \in SUBSET Intervals /\ IsFiniteSet(r.ivs)
    BY <1>1 DEF Tree
  <2>2. Total(R) \in Nat /\ Total(T) \in Nat
    BY <1>3, TotalNat DEF Tree
  <2>3. QED
    BY <1>2, <2>1, <2>2, TotalSplit
<1>9. /\ Stored(r.ivs) = Stored(R) \cup Stored(T)
      /\ Spanned(r.ivs) = Spanned(R) \cup Spanned(T)
  BY <1>2, StoredSplit
<1>10. \A j \in R : r.next < j.min /\ j.min \in Nat /\ j.maxp1 \in Nat /\ j.min < j.maxp1
  BY <1>1, <1>3, TreeSpans
<1>11. R \in SUBSET Intervals /\ c.chain \in Seq(Elems) /\ Sorted(c.chain)
  BY <1>3, <1>4 DEF Tree, Whole, Intervals, Chained
<1>12. CASE c.min <= r.next
  <2> DEFINE k == r.n - Len(c.chain)
             u == WithIvs(r, R)
             w == WithNext(u, c.maxp1)
             p == WithN(w, k)
             q == RefreshMax(p)
  <2>1. x.r = q /\ x.out = c.chain
    BY <1>5, <1>12
  <2>2. k \in Int /\ k = Total(R) /\ k <= r.maxSamples /\ c.maxp1 \in Nat \ {0}
    BY <1>1, <1>4, <1>6, <1>8
  <2>3. \A j \in R : c.maxp1 < j.min
    BY <1>1, <1>6, <1>7, <1>10, <1>12
  <2> HIDE DEF R, k
  <2>4. /\ u \in Admins /\ u.ivs = R /\ u.next = r.next /\ u.n = r.n
        /\ u.mode = r.mode /\ u.maxSamples = r.maxSamples
    BY <1>1, <1>11, UpdateIvs
  <2> HIDE DEF u
  <2>5. /\ w \in Admins /\ w.ivs = R /\ w.next = c.maxp1 /\ w.n = r.n
        /\ w.mode = r.mode /\ w.maxSamples = r.maxSamples
    BY <2>2, <2>4, UpdateNext
  <2> HIDE DEF w
  <2>6. /\ p \in Admins /\ p.ivs = R /\ p.next = c.maxp1 /\ p.n = k
        /\ p.mode = r.mode /\ p.maxSamples = r.maxSamples
    <3>1. w \in Admins /\ k \in Int
      BY <2>2, <2>5
    <3>2. /\ p \in Admins /\ p.ivs = w.ivs /\ p.next = w.next /\ p.n = k
          /\ p.mode = w.mode /\ p.maxSamples = w.maxSamples
      BY <3>1 DEF WithN, Admins
    <3> HIDE DEF p
    <3>3. QED
      BY <2>5, <3>2
  <2> HIDE DEF p
  <2>7. Tree(p.ivs, p.next)
    BY <1>3, <2>3, <2>6, TreeRaise
  <2>8. /\ q \in Admins /\ q.ivs = p.ivs /\ q.max = MaxKey(q.ivs) /\ q.next = p.next
        /\ q.n = p.n /\ q.mode = p.mode /\ q.maxSamples = p.maxSamples
    BY <2>6, <2>7, Refresh
  <2> HIDE DEF q
  <2>9. Good(q) /\ q.mode = r.mode /\ q.maxSamples = r.maxSamples
    BY <2>2, <2>6, <2>7, <2>8 DEF Good
  <2>10. r.next <= q.next /\ Within(c.chain, r.next, q.next)
    <3>1. q.next = c.maxp1 /\ r.next <= q.next
      BY <1>1, <1>4, <1>6, <2>6, <2>8
    <3>2. \A i \in 1 .. Len(c.chain) : c.chain[i].seq \in Nat
      BY <1>11, ChainElem
    <3>3. \A i \in 1 .. Len(c.chain) : r.next + 1 <= c.chain[i].seq /\ c.chain[i].seq < c.maxp1
      BY <1>4 DEF Within
    <3>4. \A i \in 1 .. Len(c.chain) : r.next <= c.chain[i].seq
      BY <1>1, <3>2, <3>3
    <3>5. QED
      BY <3>1, <3>3, <3>4 DEF Within
  <2>11. Cover(q) \subseteq Cover(r) \cup (min .. maxp1 - 1)
    <3>1. \A i \in 1 .. q.next - 1 : i \in 1 .. r.next - 1 \/ i \in c.min .. c.maxp1 - 1
      BY <1>1, <1>6, <1>12, <2>6, <2>8
    <3>2. q.ivs = R
      BY <2>6, <2>8
    <3>3. QED
      BY <1>7, <1>9, <3>1, <3>2 DEF Cover
  <2>12. \A e \in Stored(r.ivs) : e \in Stored(q.ivs) \cup ElemsOf(c.chain)
    BY <1>4, <1>9, <2>6, <2>8
  <2>13. Effect(r, q, c.chain, {}, min, maxp1)
    BY <1>11, <2>9, <2>10, <2>11, <2>12 DEF Effect
  <2>14. QED
    BY <2>1, <2>13 DEF x
<1>13. CASE ~ (c.min <= r.next)
  <2> DEFINE U == R \cup {c}
             p == WithIvs(r, U)
             q == RefreshMax(p)
  <2>1. x.r = q /\ x.out = <<>>
    BY <1>5, <1>13
  <2>2. r.next < c.min
    BY <1>1, <1>6, <1>13
  <2>3. Tree(U, r.next) /\ Total(U) = Total(R) + Len(c.chain)
    <3>1. U = R \cup {c} /\ Tree(R, r.next) /\ Whole(c) /\ r.next \in Nat
      BY <1>1, <1>3, <1>4
    <3> HIDE DEF U, R
    <3>2. QED
      BY <1>7, <2>2, <3>1, TreeAdd
  <2>4. Stored(U) = Stored(R) \cup Stored(T) /\ Spanned(U) = Spanned(R) \cup Span(c)
    BY <1>4, StoredAdd
  <2>5. Total(U) = r.n
    BY <1>1, <1>4, <1>8, <2>3
  <2> HIDE DEF U, R
  <2>6. U \in SUBSET Intervals
    BY <2>3 DEF Tree
  <2>7. /\ p \in Admins /\ p.ivs = U /\ p.next = r.next /\ p.n = r.n
        /\ p.mode = r.mode /\ p.maxSamples = r.maxSamples
    BY <1>1, <2>6, UpdateIvs
  <2> HIDE DEF p
  <2>8. Tree(p.ivs, p.next)
    BY <2>3, <2>7
  <2>9. /\ q \in Admins /\ q.ivs = p.ivs /\ q.max = MaxKey(q.ivs) /\ q.next = p.next
        /\ q.n = p.n /\ q.mode = p.mode /\ q.maxSamples = p.maxSamples
    BY <2>7, <2>8, Refresh
  <2> HIDE DEF q
  <2>10. Spanned(q.ivs) \subseteq Spanned(r.ivs) \cup (min .. maxp1 - 1)
    <3>1. \A i \in Span(c) : i \in min .. maxp1 - 1 \/ i \in Spanned(T)
      BY <1>7 DEF Span
    <3>2. q.ivs = U
      BY <2>7, <2>9
    <3>3. QED
      BY <1>9, <2>4, <3>1, <3>2
  <2>11. \A e \in Stored(r.ivs) \cup {} : e \in Stored(q.ivs)
    BY <1>9, <2>4, <2>7, <2>9
  <2>12. /\ q.next = r.next /\ q.mode = r.mode /\ q.maxSamples = r.maxSamples
         /\ Tree(q.ivs, r.next) /\ q.n = Total(q.ivs) /\ q.n <= q.maxSamples
    BY <1>1, <2>3, <2>5, <2>7, <2>9
  <2>13. Effect(r, q, <<>>, {}, min, maxp1)
    BY <2>9, <2>10, <2>11, <2>12, StoreEffect
  <2>14. QED
    BY <2>1, <2>13 DEF x
<1>14. QED
  BY <1>12, <1>13

\* nn_reorder_gap, for every gap and wherever it lies.
LEMMA GapEffect ==
  ASSUME NEW r, Good(r), NEW min \in Nat, NEW maxp1 \in 0 .. Bound,
         min < maxp1 \/ maxp1 <= r.next
  PROVE  LET x == ReorderGap(r, min, maxp1) IN Effect(r, x.r, x.out, {}, min, maxp1)
<1> DEFINE x == ReorderGap(r, min, maxp1)
           T == Touching(r, min, maxp1)
<1>1. r.next \in Nat /\ maxp1 \in Nat /\ r.n \in Nat /\ r.maxSamples \in Nat
  BY GoodFacts, BoundNat
<1>2. ASSUME x.r = r, x.out = <<>> PROVE Effect(r, x.r, x.out, {}, min, maxp1)
  BY <1>2, NoEffect
<1>3. CASE maxp1 <= r.next
  <2>1. x = TooOld(r)
    BY <1>1, <1>3 DEF ReorderGap
  <2>2. x.r = r /\ x.out = <<>>
    BY <2>1 DEF TooOld, Result
  <2> HIDE DEF x
  <2>3. QED
    BY <1>2, <2>2 DEF x
<1>4. CASE maxp1 > r.next /\ r.mode # "normal"
  <2>1. x = Reject(r)
    BY <1>1, <1>4 DEF ReorderGap
  <2>2. x.r = r /\ x.out = <<>>
    BY <2>1 DEF Reject, Result
  <2> HIDE DEF x
  <2>3. QED
    BY <1>2, <2>2 DEF x
<1>5. CASE maxp1 > r.next /\ r.mode = "normal" /\ T = {}
  <2>0. r.next < maxp1 /\ min < maxp1
    BY <1>1, <1>5
  <2>1. x = GapAlone(r, min, maxp1)
    BY <1>1, <1>5 DEF ReorderGap
  <2>2. CASE min <= r.next
    <3> DEFINE q == RefreshMax([r EXCEPT !.next = maxp1])
    <3>1. x = Accept(q)
      BY <1>1, <2>1, <2>2 DEF GapAlone
    <3>2. Effect(r, q, <<>>, {}, min, maxp1)
      BY <1>5, <2>0, <2>2, GapAtHead
    <3> HIDE DEF q
    <3>3. x.r = q /\ x.out = <<>>
      BY <3>1 DEF Accept, Result
    <3>4. QED
      BY <3>2, <3>3
  <2> DEFINE full == r.n = r.maxSamples /\ (r.max = 0 \/ min > MaxSampleIv(r).maxp1)
  <2>3. CASE min > r.next /\ full
    <3>1. x = Reject(r)
      BY <1>1, <2>1, <2>3 DEF GapAlone
    <3>2. x.r = r /\ x.out = <<>>
      BY <3>1 DEF Reject, Result
    <3> HIDE DEF x
    <3>3. QED
      BY <1>2, <3>2 DEF x
  <2>4. CASE min > r.next /\ ~ full
    <3> DEFINE q == RefreshMax(CountOrEvict(InsertGap(r, min, maxp1)))
    <3>1. x = Accept(q)
      BY <1>1, <2>1, <2>4 DEF GapAlone
    <3>2. r.next < min /\ (r.n = r.maxSamples => r.max # 0 /\ ~ (min > MaxSampleIv(r).maxp1))
      BY <1>1, <2>4
    <3>3. Effect(r, q, <<>>, {}, min, maxp1)
      BY <1>5, <2>0, <3>2, GapInserted
    <3> HIDE DEF q
    <3>4. x.r = q /\ x.out = <<>>
      BY <3>1 DEF Accept, Result
    <3>5. QED
      BY <3>3, <3>4
  <2>5. QED
    BY <1>1, <2>2, <2>3, <2>4
<1>6. CASE maxp1 > r.next /\ r.mode = "normal" /\ T # {}
  <2>0. r.next < maxp1 /\ min < maxp1
    BY <1>1, <1>6
  <2>1. x = GapCoalesced(r, T, min, maxp1)
    BY <1>1, <1>6 DEF ReorderGap
  <2> HIDE DEF x
  <2>2. QED
    BY <1>6, <2>0, <2>1, GapCoalescedEffect DEF x
<1>7. QED
  BY <1>1, <1>3, <1>4, <1>5, <1>6

-----------------------------------------------------------------------------
(* What was delivered *)

\* The numbers delivered, in increasing order unless the administration keeps no order.
Values(d) == {d[i] : i \in 1 .. Len(d)}
InOrder(r, d) ==
  /\ d \in Seq(Nat)
  /\ r.mode # "always" => Increasing(d) /\ \A i \in 1 .. Len(d) : d[i] < r.next

\* A chain with numbers from next_seq on is delivered after all before it.
LEMMA DeliverMore ==
  ASSUME NEW d \in Seq(Nat), Increasing(d), NEW x \in Nat, NEW y \in Nat, x <= y,
         \A i \in 1 .. Len(d) : d[i] < x,
         NEW out \in Seq(Elems), Sorted(out), Within(out, x, y)
  PROVE  LET e == d \o SampleSeqs(out)
         IN  Increasing(e) /\ \A i \in 1 .. Len(e) : e[i] < y
<1> DEFINE q == SampleSeqs(out)
           e == d \o q
           m == Len(d)
           n == Len(q)
<1>1. /\ q \in Seq(Nat) /\ Increasing(q)
      /\ \A i \in 1 .. n : \E j \in 1 .. Len(out) : ~ out[j].gap /\ out[j].seq = q[i]
  BY SampleSeqsPicks DEF Picks
<1> HIDE DEF q
<1>2. /\ Len(e) = m + n /\ m \in Nat /\ n \in Nat
      /\ \A i \in 1 .. m + n : e[i] = IF i <= m THEN d[i] ELSE q[i - m]
  <2>1. m \in Nat /\ n \in Nat
    BY <1>1, LenProperties
  <2>2. QED
    BY <1>1, <2>1, ConcatProperties
<1>3. \A i \in 1 .. n : q[i] \in Nat /\ x <= q[i] /\ q[i] < y
  <2>1. \A j \in 1 .. Len(out) : x <= out[j].seq /\ out[j].seq < y /\ out[j].seq \in Nat
    BY ChainElem DEF Within
  <2>2. QED
    BY <1>1, <2>1
<1>4. \A i \in 1 .. m : d[i] \in Nat /\ d[i] < x
  BY ElementOfSeq
<1>5. /\ \A i, j \in 1 .. m : i < j => d[i] < d[j]
      /\ \A i, j \in 1 .. n : i < j => q[i] < q[j]
  BY <1>1 DEF Increasing
<1> HIDE DEF e, m, n
<1>6. ASSUME NEW i \in 1 .. m + n PROVE e[i] < y
  <2>1. CASE i <= m
    <3>1. i \in 1 .. m /\ e[i] = d[i]
      BY <1>2, <2>1
    <3>2. QED
      BY <1>4, <3>1
  <2>2. CASE i > m
    <3>1. i - m \in 1 .. n /\ e[i] = q[i - m]
      BY <1>2, <2>2
    <3>2. QED
      BY <1>3, <3>1
  <2>3. QED
    BY <1>2, <2>1, <2>2
<1>7. ASSUME NEW i \in 1 .. m + n, NEW j \in 1 .. m + n, i < j PROVE e[i] < e[j]
  <2>1. CASE j <= m
    <3>1. i \in 1 .. m /\ j \in 1 .. m /\ e[i] = d[i] /\ e[j] = d[j]
      BY <1>2, <1>7, <2>1
    <3>2. QED
      BY <1>5, <1>7, <3>1
  <2>2. CASE i <= m /\ j > m
    <3>1. i \in 1 .. m /\ j - m \in 1 .. n /\ e[i] = d[i] /\ e[j] = q[j - m]
      BY <1>2, <1>7, <2>2
    <3>2. e[i] \in Nat /\ e[j] \in Nat /\ e[i] < x /\ x <= e[j]
      BY <1>3, <1>4, <3>1
    <3>3. QED
      BY <3>2
  <2>3. CASE i > m
    <3>1. i - m \in 1 .. n /\ j - m \in 1 .. n /\ e[i] = q[i - m] /\ e[j] = q[j - m] /\ i - m < j - m
      BY <1>2, <1>7, <2>3
    <3>2. QED
      BY <1>5, <3>1
  <2>4. QED
    BY <1>2, <2>1, <2>2, <2>3
<1>8. Increasing(e) /\ \A i \in 1 .. Len(e) : e[i] < y
  BY <1>2, <1>6, <1>7 DEF Increasing
<1>9. QED
  BY <1>8 DEF e, q

\* Nothing delivered is lost from the record, and every sample of the chain is on it.
LEMMA DeliverValues ==
  ASSUME NEW d \in Seq(Nat), NEW out \in Seq(Elems), Sorted(out)
  PROVE  LET e == d \o SampleSeqs(out)
         IN  /\ e \in Seq(Nat) /\ Values(d) \subseteq Values(e)
             /\ \A n \in Nat : SampleElem(n) \in ElemsOf(out) => n \in Values(e)
<1> DEFINE q == SampleSeqs(out)
           e == d \o q
           m == Len(d)
           n == Len(q)
<1>1. /\ q \in Seq(Nat)
      /\ \A j \in 1 .. Len(out) : ~ out[j].gap => \E i \in 1 .. n : q[i] = out[j].seq
  BY SampleSeqsPicks DEF Picks
<1> HIDE DEF q
<1>2. /\ e \in Seq(Nat) /\ Len(e) = m + n /\ m \in Nat /\ n \in Nat
      /\ \A i \in 1 .. m + n : e[i] = IF i <= m THEN d[i] ELSE q[i - m]
  <2>1. m \in Nat /\ n \in Nat
    BY <1>1, LenProperties
  <2>2. QED
    BY <1>1, <2>1, ConcatProperties
<1> HIDE DEF e, m, n
<1>3. ASSUME NEW i \in 1 .. m PROVE d[i] \in Values(e)
  <2>1. i \in 1 .. Len(e) /\ e[i] = d[i]
    BY <1>2
  <2>2. QED
    BY <2>1 DEF Values
<1>4. ASSUME NEW k \in Nat, SampleElem(k) \in ElemsOf(out) PROVE k \in Values(e)
  <2>1. PICK j \in 1 .. Len(out) : out[j] = SampleElem(k)
    BY <1>4 DEF ElemsOf
  <2>2. ~ out[j].gap /\ out[j].seq = k
    BY <2>1 DEF SampleElem
  <2>3. PICK i \in 1 .. n : q[i] = k
    BY <1>1, <2>2
  <2>4. PICK p \in 1 .. m + n : p = m + i
    BY <1>2
  <2>5. ~ (p <= m) /\ p - m = i
    BY <1>2, <2>4
  <2>6. e[p] = q[p - m]
    BY <1>2, <2>5
  <2>7. e[p] = k
    BY <2>3, <2>5, <2>6
  <2>8. QED
    BY <1>2, <2>7 DEF Values
<1>5. Values(d) \subseteq Values(e)
  BY <1>3 DEF Values, m
<1>6. QED
  BY <1>2, <1>4, <1>5 DEF e, q

-----------------------------------------------------------------------------
(* The inductive invariant *)

\* Nothing the administration accounts for was never heard of.
Heard(r, k) == r.mode = "normal" => \A n \in Cover(r) : n \in Nat /\ n <= k
\* With room for all that can be outstanding, what is accounted for is there or was declared lost.
Kept(r, d, D) ==
  r.maxSamples >= MaxSeq /\ r.mode = "normal" =>
    \A n \in Cover(r) : n \in Values(d) \cup D \/ SampleElem(n) \in Stored(r.ivs)

\* The inductive invariant.
Inv ==
  /\ Good(ro) /\ InOrder(ro, delivered)
  /\ known \in Nat /\ known <= MaxSeq /\ Heard(ro, known)
  /\ Kept(ro, delivered, declared)

\* An administration with room for everything that can be outstanding is never full.
LEMMA RoomLeft ==
  ASSUME NEW r, Good(r), r.maxSamples >= MaxSeq, MaxSeq # 0
  PROVE  r.n # r.maxSamples
<1>1. /\ r.next \in Nat /\ r.next # 0 /\ Tree(r.ivs, r.next) /\ r.n = Total(r.ivs)
      /\ r.maxSamples \in Nat /\ MaxSeq \in Nat /\ Bound = MaxSeq + 1
  BY GoodFacts, ReorderAssumption DEF Bound
<1>2. CASE r.ivs = {}
  <2>1. r.n = 0
    BY <1>1, <1>2, TreeEmpty
  <2>2. QED
    BY <1>1, <2>1
<1>3. CASE r.ivs # {}
  <2> DEFINE h == ConcatChains(r.ivs)
             x == r.next + 1
  <2>1. PICK j \in r.ivs : TRUE
    BY <1>3
  <2>2. r.next < j.min /\ j.min \in Nat /\ j.maxp1 \in Nat /\ j.min < j.maxp1 /\ j.maxp1 <= Bound
    BY <1>1, TreeSpans
  <2>3. x \in Nat /\ x <= Bound /\ Bound \in Nat
    BY <1>1, <2>2
  <2>4. \A iv \in r.ivs : iv.maxp1 <= Bound
    BY <1>1, TreeSpans
  <2>5. h \in Seq(Elems) /\ Len(h) = Total(r.ivs) /\ Sorted(h) /\ Within(h, x, Bound)
    BY <1>1, <2>3, <2>4, ConcatTree
  <2> HIDE DEF h, x
  <2>6. Len(h) <= Bound - x
    BY <2>3, <2>5, SortedLength
  <2>7. r.n <= Bound - (r.next + 1)
    BY <1>1, <2>5, <2>6 DEF x
  <2>8. r.n \in Nat
    BY GoodFacts
  <2>9. QED
    BY <1>1, <2>7, <2>8
<1>4. QED
  BY <1>2, <1>3

\* Numbers below hi and up to k are all at most l.
Reaches(l, k, hi) == k <= l /\ hi <= l + 1

\* An operation, whichever it was, keeps what is delivered in order...
LEMMA EffectDelivers ==
  ASSUME NEW r, Good(r), NEW q, NEW out, NEW E, NEW lo, NEW hi,
         Effect(r, q, out, E, lo, hi), NEW d, InOrder(r, d),
         NEW e, e = d \o SampleSeqs(out)
  PROVE  InOrder(q, e)
<1>1. /\ Good(q) /\ q.mode = r.mode /\ out \in Seq(Elems) /\ Sorted(out)
      /\ r.mode # "always" => r.next <= q.next /\ Within(out, r.next, q.next)
  BY DEF Effect
<1>2. r.next \in Nat /\ q.next \in Nat
  BY <1>1, GoodFacts
<1>3. d \in Seq(Nat) /\ e \in Seq(Nat)
  BY <1>1, DeliverValues DEF InOrder
<1>4. ASSUME q.mode # "always" PROVE Increasing(e) /\ \A i \in 1 .. Len(e) : e[i] < q.next
  <2>1. Increasing(d) /\ \A i \in 1 .. Len(d) : d[i] < r.next
    BY <1>1, <1>4 DEF InOrder
  <2>2. r.next <= q.next /\ Within(out, r.next, q.next)
    BY <1>1, <1>4
  <2>3. QED
    BY <1>1, <1>2, <1>3, <2>1, <2>2, DeliverMore
<1>5. QED
  BY <1>3, <1>4 DEF InOrder

\* ... accounts for no number nobody has heard of...
LEMMA EffectHeard ==
  ASSUME NEW r, NEW q, NEW out, NEW E, NEW lo \in Nat, NEW hi \in Nat,
         Effect(r, q, out, E, lo, hi), NEW k \in Nat, Heard(r, k),
         NEW l \in Nat, Reaches(l, k, hi)
  PROVE  Heard(q, l)
<1> SUFFICES ASSUME q.mode = "normal", NEW n \in Cover(q) PROVE n \in Nat /\ n <= l
  BY DEF Heard
<1>1. q.mode = r.mode /\ (r.mode = "normal" => Cover(q) \subseteq Cover(r) \cup (lo .. hi - 1))
  BY DEF Effect
<1>2. n \in Cover(r) \/ n \in lo .. hi - 1
  BY <1>1
<1>3. CASE n \in Cover(r)
  <2>1. n \in Nat /\ n <= k
    BY <1>1, <1>3 DEF Heard
  <2>2. QED
    BY <2>1 DEF Reaches
<1>4. CASE n \in lo .. hi - 1
  BY <1>4 DEF Reaches
<1>5. QED
  BY <1>2, <1>3, <1>4

\* ... leaves the administration well-formed...
LEMMA EffectGood ==
  ASSUME NEW r, NEW q, NEW out, NEW E, NEW lo, NEW hi, Effect(r, q, out, E, lo, hi) PROVE Good(q)
  BY DEF Effect

\* All numbers of [lo, hi) were declared lost or came in.
Accounted(lo, hi, C, E) == \A n \in lo .. hi - 1 : n \in C \/ SampleElem(n) \in E

\* ... and, with room, loses nothing.
LEMMA EffectSkipsNothing ==
  ASSUME NEW r, Good(r), NEW q, NEW out, NEW E, NEW lo \in Nat, NEW hi \in Nat,
         Effect(r, q, out, E, lo, hi), MaxSeq # 0, NEW k, Heard(r, k),
         NEW d \in Seq(Nat), NEW D, Kept(r, d, D), NEW C, D \subseteq C,
         Accounted(lo, hi, C, E), NEW e, e = d \o SampleSeqs(out)
  PROVE  Kept(q, e, C)
<1> SUFFICES ASSUME q.maxSamples >= MaxSeq, q.mode = "normal", NEW n \in Cover(q)
             PROVE  n \in Values(e) \cup C \/ SampleElem(n) \in Stored(q.ivs)
  BY DEF Kept
<1>1. /\ r.mode = "normal" /\ r.maxSamples >= MaxSeq /\ out \in Seq(Elems) /\ Sorted(out)
      /\ Cover(q) \subseteq Cover(r) \cup (lo .. hi - 1)
      /\ \A x \in Stored(r.ivs) \cup E :
           \/ x \in Stored(q.ivs) \cup ElemsOf(out)
           \/ r.n = r.maxSamples
  BY DEF Effect
<1>2. r.n # r.maxSamples
  BY <1>1, RoomLeft
<1>3. /\ Values(d) \subseteq Values(e)
      /\ \A m \in Nat : SampleElem(m) \in ElemsOf(out) => m \in Values(e)
  BY <1>1, DeliverValues
<1>4. n \in Nat
  <2>1. CASE n \in Cover(r)
    BY <1>1, <2>1 DEF Heard
  <2>2. CASE n \in lo .. hi - 1
    BY <2>2
  <2>3. QED
    BY <1>1, <2>1, <2>2
<1>5. ASSUME SampleElem(n) \in Stored(r.ivs) \cup E
      PROVE  n \in Values(e) \/ SampleElem(n) \in Stored(q.ivs)
  BY <1>1, <1>2, <1>3, <1>4, <1>5
<1>6. CASE n \in Cover(r)
  <2>1. n \in Values(d) \cup D \/ SampleElem(n) \in Stored(r.ivs)
    BY <1>1, <1>6 DEF Kept
  <2>2. QED
    BY <1>3, <1>5, <2>1
<1>7. CASE n \in lo .. hi - 1
  BY <1>5, <1>7 DEF Accounted
<1>8. QED
  BY <1>1, <1>6, <1>7

\* A new administration.
LEMMA InitInv == Init => Inv
<1> SUFFICES ASSUME Init PROVE Inv
  OBVIOUS
<1>1. PICK p \in Params : ro = NewReorder(p.mode, p.maxSamples, p.lateAck)
  BY DEF Init
<1>2. p.mode \in Modes /\ p.maxSamples \in Nat /\ p.lateAck \in BOOLEAN
  BY ReorderAssumption
<1>3. /\ ro.ivs = {} /\ ro.max = 0 /\ ro.next = 1 /\ ro.n = 0 /\ ro.maxSamples = p.maxSamples
      /\ ro \in Admins
  BY <1>1, <1>2 DEF NewReorder, Admins
<1>4. Good(ro)
  BY <1>2, <1>3, TreeEmpty, MaxKeyEmpty DEF Good
<1>5. delivered = <<>> /\ known = 0 /\ declared = {}
  BY DEF Init
<1>6. InOrder(ro, delivered)
  BY <1>5 DEF InOrder, Increasing
<1>7. Cover(ro) = {}
  BY <1>3 DEF Cover, Spanned
<1>8. Heard(ro, known) /\ Kept(ro, delivered, declared)
  BY <1>7 DEF Heard, Kept
<1>9. QED
  BY <1>4, <1>5, <1>6, <1>8, ReorderAssumption DEF Inv

\* Any operation on the administration of a proxy writer.
LEMMA EffectInv ==
  ASSUME Inv, MaxSeq # 0, NEW q, NEW out, NEW E, NEW lo \in Nat, NEW hi \in Nat,
         Effect(ro, q, out, E, lo, hi), NEW l \in Nat, known <= l, hi <= l + 1,
         NEW C, declared \subseteq C, Accounted(lo, hi, C, E),
         NEW e, e = delivered \o SampleSeqs(out)
  PROVE  Good(q) /\ InOrder(q, e) /\ Heard(q, l) /\ Kept(q, e, C)
<1>1. /\ Good(ro) /\ InOrder(ro, delivered) /\ known \in Nat
      /\ Heard(ro, known) /\ Kept(ro, delivered, declared) /\ delivered \in Seq(Nat)
  BY DEF Inv, InOrder
<1>2. Good(q) /\ InOrder(q, e) /\ Heard(q, l)
  <2>1. Reaches(l, known, hi)
    BY DEF Reaches
  <2>2. Good(q)
    BY EffectGood
  <2>3. InOrder(q, e)
    BY <1>1, EffectDelivers
  <2>4. Heard(q, l)
    BY <1>1, <2>1, EffectHeard
  <2>5. QED
    BY <2>2, <2>3, <2>4
<1>3. Kept(q, e, C)
  BY <1>1, EffectSkipsNothing
<1>4. QED
  BY <1>2, <1>3

\* A sample arrives.
LEMMA SampleInv ==
  ASSUME Inv, NEW s \in Seqs, NEW full \in BOOLEAN, Sample(s, full) PROVE Inv'
<1> DEFINE x == ReorderRsample(ro, s, full)
           l == Max2(known, s)
           h == s + 1
<1>1. s \in 1 .. MaxSeq /\ s \in Nat /\ h \in Nat /\ MaxSeq # 0 /\ MaxSeq \in Nat
  BY ReorderAssumption DEF Seqs
<1>2. Good(ro) /\ known \in Nat /\ known <= MaxSeq
  BY DEF Inv
<1>3. /\ ro' = x.r /\ delivered' = delivered \o SampleSeqs(x.out) /\ known' = l
      /\ declared' = declared
  BY DEF Sample
<1>4. l \in Nat /\ known <= l /\ s <= l /\ l <= MaxSeq /\ h <= l + 1 /\ s <= l + 1
  BY <1>1, <1>2 DEF Max2
<1>5. Accounted(s, h, declared, {SampleElem(s)}) /\ Accounted(s, s, declared, {})
  BY <1>1 DEF Accounted
<1>6. \/ Effect(ro, ro', x.out, {SampleElem(s)}, s, h)
      \/ Effect(ro, ro', x.out, {}, s, s)
  <2>1. \/ Effect(ro, x.r, x.out, {SampleElem(s)}, s, s + 1)
        \/ x.r = ro /\ x.out = <<>>
    BY <1>1, <1>2, RsampleEffect
  <2>2. Effect(ro, ro, <<>>, {}, s, s)
    BY <1>2, NoEffect
  <2> HIDE DEF x
  <2>3. QED
    BY <1>3, <2>1, <2>2
<1> HIDE DEF x, l, h
<1>7. declared \subseteq declared
  OBVIOUS
<1>8. Good(ro') /\ InOrder(ro', delivered') /\ Heard(ro', l) /\ Kept(ro', delivered', declared)
  <2>1. CASE Effect(ro, ro', x.out, {SampleElem(s)}, s, h)
    BY <1>1, <1>3, <1>4, <1>5, <1>7, <2>1, EffectInv
  <2>2. CASE Effect(ro, ro', x.out, {}, s, s)
    BY <1>1, <1>3, <1>4, <1>5, <1>7, <2>2, EffectInv
  <2>3. QED
    BY <1>6, <2>1, <2>2
<1>9. QED
  BY <1>3, <1>4, <1>8 DEF Inv

\* A Gap or a heartbeat declares numbers unavailable.
LEMMA GapInv ==
  ASSUME Inv, NEW min \in 1 .. MaxSeq, NEW maxp1 \in min + 1 .. MaxSeq + 1, Gap(min, maxp1)
  PROVE  Inv'
<1> DEFINE x == ReorderGap(ro, min, maxp1)
           l == Max2(known, maxp1 - 1)
<1>1. /\ min \in Nat /\ maxp1 \in Nat /\ maxp1 \in 0 .. Bound /\ min < maxp1 /\ MaxSeq # 0
      /\ MaxSeq \in Nat /\ maxp1 - 1 \in Nat /\ maxp1 - 1 <= MaxSeq
  BY ReorderAssumption DEF Bound
<1>2. Good(ro) /\ known \in Nat /\ known <= MaxSeq
  BY DEF Inv
<1>3. /\ ro' = x.r /\ delivered' = delivered \o SampleSeqs(x.out) /\ known' = l
      /\ declared' = declared \cup (min .. maxp1 - 1)
  BY DEF Gap
<1>4. l \in Nat /\ known <= l /\ maxp1 - 1 <= l /\ l <= MaxSeq /\ maxp1 <= l + 1
  BY <1>1, <1>2 DEF Max2
<1>5. Effect(ro, ro', x.out, {}, min, maxp1)
  BY <1>1, <1>2, <1>3, GapEffect
<1> HIDE DEF x, l
<1>6. declared \subseteq declared' /\ Accounted(min, maxp1, declared', {})
  BY <1>3 DEF Accounted
<1>7. Good(ro') /\ InOrder(ro', delivered') /\ Heard(ro', l) /\ Kept(ro', delivered', declared')
  <2>1. delivered' = delivered \o SampleSeqs(x.out)
    BY <1>3
  <2>2. QED
    BY <1>1, <1>4, <1>5, <1>6, <2>1, EffectInv
<1>8. QED
  BY <1>3, <1>4, <1>7 DEF Inv

\* The last reliable reader goes: all is dropped up to the last known number.
LEMMA DropUptoInv == ASSUME Inv, DropUpto PROVE Inv'
<1> DEFINE x == ReorderGap(ro, 1, known + 1)
<1>1. /\ Good(ro) /\ InOrder(ro, delivered) /\ known \in Nat /\ known <= MaxSeq
      /\ Heard(ro, known) /\ delivered \in Seq(Nat) /\ MaxSeq \in Nat
  BY ReorderAssumption DEF Inv, InOrder
<1>2. /\ ro.mode = "normal" /\ ro' = x.r /\ declared' = declared \cup (1 .. known)
      /\ delivered' = delivered /\ known' = known
  BY DEF DropUpto, ReorderDropUpto
<1>3. ro.next \in Nat /\ ro.next # 0
  BY <1>1, GoodFacts
<1>4. known + 1 \in 0 .. Bound /\ known + 1 \in Nat /\ (1 < known + 1 \/ known + 1 <= ro.next)
  BY <1>1, <1>3 DEF Bound
<1>5. Effect(ro, x.r, x.out, {}, 1, known + 1)
  BY <1>1, <1>4, GapEffect
<1> HIDE DEF x
<1>6. /\ Good(ro') /\ Heard(ro', known')
  <2> DEFINE h == known + 1
  <2>1. h \in Nat /\ 1 \in Nat /\ Effect(ro, ro', x.out, {}, 1, h) /\ Reaches(known, known, h)
    BY <1>1, <1>2, <1>4, <1>5 DEF Reaches
  <2> HIDE DEF h
  <2>2. Good(ro')
    BY <2>1, EffectGood
  <2>3. Heard(ro', known)
    BY <1>1, <2>1, EffectHeard
  <2>4. QED
    BY <1>2, <2>2, <2>3
<1>7. ro'.mode = "normal" /\ ro.next <= ro'.next /\ ro'.next \in Nat
  BY <1>2, <1>5, <1>6, GoodFacts DEF Effect
<1>8. InOrder(ro', delivered')
  <2>1. Increasing(delivered) /\ \A i \in 1 .. Len(delivered) : delivered[i] < ro.next
    BY <1>1, <1>2 DEF InOrder
  <2>2. \A i \in 1 .. Len(delivered) : delivered[i] \in Nat
    BY <1>1, ElementOfSeq
  <2>3. \A i \in 1 .. Len(delivered) : delivered[i] < ro'.next
    BY <1>3, <1>7, <2>1, <2>2
  <2>4. QED
    BY <1>1, <1>2, <2>1, <2>3 DEF InOrder
<1>9. Kept(ro', delivered', declared')
  <2> SUFFICES ASSUME NEW n \in Cover(ro') PROVE n \in declared'
    BY DEF Kept
  <2>1. n \in Nat /\ n <= known
    BY <1>2, <1>6, <1>7 DEF Heard
  <2>2. n # 0
    <3>1. CASE n \in 1 .. ro'.next - 1
      BY <3>1
    <3>2. CASE n \in Spanned(ro'.ivs)
      <4>1. PICK j \in ro'.ivs : n \in Span(j)
        BY <3>2 DEF Spanned
      <4>2. j.min \in Nat /\ j.maxp1 \in Nat /\ ro'.next < j.min
        BY <1>6, <1>7, GoodFacts, TreeSpans
      <4>3. QED
        BY <1>7, <4>1, <4>2 DEF Span
    <3>3. QED
      BY <3>1, <3>2 DEF Cover
  <2>3. QED
    BY <1>2, <2>1, <2>2
<1>10. QED
  BY <1>1, <1>2, <1>6, <1>8, <1>9 DEF Inv

\* Every step keeps the invariant.
LEMMA NextInv == ASSUME Inv, [Next]_vars PROVE Inv'
<1>1. CASE \E s \in Seqs, full \in BOOLEAN : Sample(s, full)
  BY <1>1, SampleInv
<1>2. CASE \E maxp1 \in 2 .. MaxSeq + 1 : Gap(1, maxp1)
  <2>1. PICK maxp1 \in 2 .. MaxSeq + 1 : Gap(1, maxp1)
    BY <1>2
  <2>2. 1 \in 1 .. MaxSeq /\ maxp1 \in 1 + 1 .. MaxSeq + 1
    BY ReorderAssumption
  <2>3. QED
    BY <2>1, <2>2, GapInv
<1>3. CASE InteriorGaps /\ \E min \in 2 .. MaxSeq : \E maxp1 \in min + 1 .. MaxSeq + 1 : Gap(min, maxp1)
  <2>1. PICK min \in 2 .. MaxSeq : \E maxp1 \in min + 1 .. MaxSeq + 1 : Gap(min, maxp1)
    BY <1>3
  <2>2. PICK maxp1 \in min + 1 .. MaxSeq + 1 : Gap(min, maxp1)
    BY <2>1
  <2>3. min \in 1 .. MaxSeq
    BY ReorderAssumption
  <2>4. QED
    BY <2>2, <2>3, GapInv
<1>4. CASE DropUpto
  BY <1>4, DropUptoInv
<1>5. CASE UNCHANGED vars
  BY <1>5 DEF vars, Inv
<1>6. QED
  BY <1>1, <1>2, <1>3, <1>4, <1>5 DEF Next

\* The inductive invariant holds in every reachable state, for any parameters of
\* nn_reorder_new and any order of samples, gaps, heartbeats and drops.
THEOREM Invariant == Spec => []Inv
<1>1. Init => Inv
  BY InitInv
<1>2. Inv /\ [Next]_vars => Inv'
  BY NextInv
<1>3. QED
  BY <1>1, <1>2, PTL DEF Spec

-----------------------------------------------------------------------------
(* The properties *)

\* The invariant implies that the tree is well-formed.
LEMMA InvTree == Inv => TreeWellFormed
<1> SUFFICES ASSUME Inv PROVE TreeWellFormed
  OBVIOUS
<1>1. /\ Tree(ro.ivs, ro.next) /\ ro.next \in Nat /\ ro.max = MaxKey(ro.ivs)
      /\ ro.n = Total(ro.ivs) /\ ro.n <= ro.maxSamples
  BY GoodFacts DEF Inv
<1>2. Apart(ro.ivs) /\ \A iv \in ro.ivs : ro.next < iv.min
  BY <1>1 DEF Tree
<1>3. ASSUME NEW iv \in ro.ivs PROVE \E i \in 1 .. Len(iv.chain) : iv.chain[i] = iv.mem
  <2>1. iv \in Intervals /\ Chained(iv)
    BY <1>1, TreeSpans
  <2>2. Len(iv.chain) \in Nat \ {0}
    BY <2>1, ChainedSpan
  <2>3. 1 \in 1 .. Len(iv.chain) /\ iv.chain[1] = iv.mem
    BY <2>1, <2>2 DEF Chained
  <2>4. QED
    BY <2>3
<1>4. ro.n = MapThenSumSet(LAMBDA iv : Len(iv.chain), ro.ivs)
  BY <1>1 DEF Total
<1>5. QED
  BY <1>1, <1>2, <1>3, <1>4 DEF TreeWellFormed, Apart

\* The assertions of nn_reorder_rsample on the tree and on max_sampleiv always hold,
\* n_samples counts the stored elements exactly and stays within max_samples, and no
\* tree node outlives the receive buffer it lives in.
THEOREM TreeIsWellFormed == Spec => []TreeWellFormed
  BY Invariant, InvTree, PTL

\* nn_reorder_rsample and nn_reorder_gap hand samples to the delivery queue in
\* strictly increasing order in every mode that promises an order, so none twice.
THEOREM DeliveryInOrder == Spec => []DeliveredInOrder
<1>1. Inv => DeliveredInOrder
  <2> SUFFICES ASSUME Inv PROVE DeliveredInOrder
    OBVIOUS
  <2>1. delivered \in Seq(Nat) /\ (ro.mode # "always" => Increasing(delivered))
    BY DEF Inv, InOrder
  <2>2. DOMAIN delivered = 1 .. Len(delivered)
    BY <2>1, LenProperties
  <2>3. QED
    BY <2>1, <2>2 DEF DeliveredInOrder, Increasing
<1>2. QED
  BY <1>1, Invariant, PTL

\* An administration with room never passes over, nor claims to have, a number that was
\* neither delivered nor stored nor declared unavailable: the reader asks for it again.
THEOREM NoSilentLoss == Spec => []NothingSkippedWithRoom
<1>1. Inv => NothingSkippedWithRoom
  <2> SUFFICES ASSUME Inv, ro.maxSamples >= MaxSeq, ro.mode = "normal",
                      NEW s \in (1 .. ro.next - 1) \cup Claimed(ro)
               PROVE  s \in Got \cup declared \/ SampleElem(s) \in StoredIn(ro)
    BY DEF NothingSkippedWithRoom, NothingSkipped
  <2>1. s \in Cover(ro)
    BY DEF Cover, Claimed, Spanned
  <2>2. s \in Values(delivered) \cup declared \/ SampleElem(s) \in Stored(ro.ivs)
    BY <2>1 DEF Inv, Kept
  <2>3. Got = Values(delivered) /\ StoredIn(ro) = Stored(ro.ivs)
    BY DEF Got, Values, StoredIn, Stored, ElemsOf
  <2>4. QED
    BY <2>2, <2>3
<1>2. QED
  BY <1>1, Invariant, PTL

\* An element that an operation dropped without delivering it was the highest.
LEMMA EffectEvictsHighest ==
  ASSUME NEW r, Good(r), NEW q, NEW out, NEW E, NEW lo, NEW hi, Effect(r, q, out, E, lo, hi),
         NEW e \in Stored(r.ivs), e \notin Stored(q.ivs), e.seq >= q.next
  PROVE  \A k \in Stored(q.ivs) : k.seq < e.seq
<1>1. r.mode = "normal"
  <2>1. r.ivs # {}
    BY DEF Stored
  <2>2. QED
    BY <2>1, GoodFacts
<1>2. /\ out \in Seq(Elems) /\ Within(out, r.next, q.next) /\ Good(q)
      /\ e \in ElemsOf(out) \/ \A k \in Stored(q.ivs) : k.seq < e.seq
  BY <1>1 DEF Effect
<1>3. ASSUME e \in ElemsOf(out) PROVE FALSE
  <2>1. PICK i \in 1 .. Len(out) : e = out[i]
    BY <1>3 DEF ElemsOf
  <2>2. e.seq \in Nat /\ e.seq < q.next /\ q.next \in Nat
    BY <1>2, <2>1, ChainElem, GoodFacts DEF Within
  <2>3. QED
    BY <2>2
<1>4. QED
  BY <1>2, <1>3

\* "The policy is to prefer the lowest sequence numbers": when a full administration makes
\* room in nn_reorder_rsample or nn_reorder_gap, what goes lies above all that stays.
THEOREM EvictionPolicy == Spec => EvictsHighest
<1> DEFINE A == ~ DropUpto =>
                  \A e \in StoredIn(ro) \ StoredIn(ro') :
                    e.seq >= ro'.next => \A k \in StoredIn(ro') : k.seq < e.seq
<1>1. Inv /\ [Next]_vars => [A]_vars
  <2> SUFFICES ASSUME Inv, Next, ~ DropUpto,
                      NEW e \in StoredIn(ro) \ StoredIn(ro'), e.seq >= ro'.next,
                      NEW k \in StoredIn(ro')
               PROVE  k.seq < e.seq
    BY DEF vars
  <2>1. StoredIn(ro) = Stored(ro.ivs) /\ StoredIn(ro') = Stored(ro'.ivs)
    BY DEF StoredIn, Stored, ElemsOf
  <2>2. Good(ro)
    BY DEF Inv
  <2>3. ASSUME NEW out, NEW E, NEW lo, NEW hi, Effect(ro, ro', out, E, lo, hi)
        PROVE  k.seq < e.seq
    BY <2>1, <2>2, <2>3, EffectEvictsHighest
  <2>4. ASSUME NEW min \in 1 .. MaxSeq, NEW maxp1 \in min + 1 .. MaxSeq + 1, Gap(min, maxp1)
        PROVE  k.seq < e.seq
    <3>1. min \in Nat /\ maxp1 \in 0 .. Bound /\ min < maxp1
      BY ReorderAssumption DEF Bound
    <3>2. ro' = ReorderGap(ro, min, maxp1).r
      BY <2>4 DEF Gap
    <3>3. Effect(ro, ro', ReorderGap(ro, min, maxp1).out, {}, min, maxp1)
      BY <2>2, <3>1, <3>2, GapEffect
    <3>4. QED
      BY <2>3, <3>3
  <2>5. CASE \E s \in Seqs, full \in BOOLEAN : Sample(s, full)
    <3>1. PICK s \in Seqs, full \in BOOLEAN : Sample(s, full)
      BY <2>5
    <3> DEFINE x == ReorderRsample(ro, s, full)
    <3>2. ro' = x.r /\ s \in 1 .. MaxSeq
      BY <3>1 DEF Sample, Seqs
    <3>3. \/ Effect(ro, x.r, x.out, {SampleElem(s)}, s, s + 1)
          \/ x.r = ro /\ x.out = <<>>
      BY <2>2, <3>2, RsampleEffect
    <3> HIDE DEF x
    <3>4. ro' # ro
      BY <2>1
    <3>5. QED
      BY <2>3, <3>2, <3>3, <3>4
  <2>6. CASE \E maxp1 \in 2 .. MaxSeq + 1 : Gap(1, maxp1)
    <3>1. PICK maxp1 \in 2 .. MaxSeq + 1 : Gap(1, maxp1)
      BY <2>6
    <3>2. 1 \in 1 .. MaxSeq /\ maxp1 \in 1 + 1 .. MaxSeq + 1
      BY ReorderAssumption
    <3>3. QED
      BY <2>4, <3>1, <3>2
  <2>7. CASE \E min \in 2 .. MaxSeq : \E maxp1 \in min + 1 .. MaxSeq + 1 : Gap(min, maxp1)
    <3>1. PICK min \in 2 .. MaxSeq : \E maxp1 \in min + 1 .. MaxSeq + 1 : Gap(min, maxp1)
      BY <2>7
    <3>2. min \in 1 .. MaxSeq
      BY ReorderAssumption
    <3>3. QED
      BY <2>4, <3>1, <3>2
  <2>8. QED
    BY <2>5, <2>6, <2>7 DEF Next
<1>2. QED
  BY <1>1, Invariant, PTL DEF Spec, EvictsHighest

=============================================================================
