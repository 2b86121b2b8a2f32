--------------------------- MODULE ReorderAdmin ---------------------------
(***************************************************************************)
(* The reorder administration of q_radmin.c (struct nn_reorder) as pure    *)
(* operators: every operator takes an administration and returns the one   *)
(* the C function leaves behind together with the function's result.       *)
(*                                                                         *)
(* An administration is a record                                           *)
(*   ivs      sampleivtree: a set of intervals, keyed by their min         *)
(*   max      max_sampleiv: the min of the interval pointed at, 0 if NULL  *)
(*   next     next_seq                                                     *)
(*   n        n_samples                                                    *)
(*   mode, maxSamples, lateAck     the parameters of nn_reorder_new        *)
(* and an interval a record                                                *)
(*   min, maxp1   it claims the sequence numbers [min, maxp1)              *)
(*   chain        its chain elements, in order; Len(chain) is n_samples    *)
(*   mem          the chain element whose receive buffer (rmsg) holds the  *)
(*                tree node itself: nn_rmsg_alloc ties the memory of the   *)
(*                node to that element's reference count                   *)
(* A chain element is a sample or a gap (sampleinfo = NULL).               *)
(***************************************************************************)
EXTENDS Integers, Sequences, FiniteSets

Modes == {"normal", "monotonic", "always"}

SampleElem(s) == [seq |-> s, gap |-> FALSE]
GapElem(m)    == [seq |-> m, gap |-> TRUE]

\* The sequence numbers an interval claims to account for.
Span(iv) == iv.min .. (iv.maxp1 - 1)

\* The singleton interval a sample arrives in.
Singleton(s) ==
  [min |-> s, maxp1 |-> s + 1, chain |-> <<SampleElem(s)>>, mem |-> SampleElem(s)]

Claimed(r)   == UNION {Span(iv) : iv \in r.ivs}
StoredIn(r)  == UNION {{iv.chain[i] : i \in 1 .. Len(iv.chain)} : iv \in r.ivs}
SamplesIn(c) == {c[i].seq : i \in {j \in 1 .. Len(c) : ~ c[j].gap}}

\* ddsrt_avl_find_min, find_max, lookup_pred_eq and lookup: at most one interval each.
FindMin(ivs)     == {iv \in ivs : \A j \in ivs : iv.min <= j.min}
FindMax(ivs)     == {iv \in ivs : \A j \in ivs : j.min <= iv.min}
PredEq(ivs, s)   == {iv \in ivs : iv.min <= s /\ \A j \in ivs : j.min <= s => j.min <= iv.min}
LookupMin(ivs, s) == {iv \in ivs : iv.min = s}

KeyOf(S) == IF S = {} THEN 0 ELSE (CHOOSE iv \in S : TRUE).min
MaxKey(ivs) == KeyOf(FindMax(ivs))
MaxSampleIv(r) == CHOOSE iv \in r.ivs : iv.min = r.max

NewReorder(mode, maxSamples, lateAck) ==
  [ivs |-> {}, max |-> 0, next |-> 1, n |-> 0,
   mode |-> mode, maxSamples |-> maxSamples, lateAck |-> lateAck]

\* What every operation returns: the administration, the verdict, the chain to deliver.
Result(r, res, out) == [r |-> r, res |-> res, out |-> out]
Reject(r) == Result(r, "reject", <<>>)
TooOld(r) == Result(r, "too_old", <<>>)
Accept(r) == Result(r, "accept", <<>>)

----------------------------------------------------------------------------
(* Building blocks. *)

AppendInterval(a, b) ==
  [a EXCEPT !.chain = @ \o b.chain, !.maxp1 = b.maxp1]

\* Fault: the hole between the two intervals is not looked at.
TryAppendAndDiscardNoTest(r, a, D) ==
  IF D = {}
  THEN [ivs |-> r.ivs, iv |-> a, max |-> FALSE]
  ELSE LET d == CHOOSE x \in D : TRUE
       IN  [ivs |-> r.ivs \ {d}, iv |-> AppendInterval(a, d), max |-> d.min = r.max]

\* reorder_try_append_and_discard: D is the candidate, or empty for NULL; the
\* third component tells the caller that max_sampleiv pointed at it.
TryAppendAndDiscard(r, a, D) ==
  LET hit == {d \in D : a.maxp1 >= d.min}
  IN  IF hit = {}
      THEN [ivs |-> r.ivs, iv |-> a, max |-> FALSE]
      ELSE LET d == CHOOSE x \in hit : TRUE
           IN  [ivs |-> r.ivs \ {d}, iv |-> AppendInterval(a, d), max |-> d.min = r.max]

\* Fault: the first element of the last interval is removed.
DeleteFirstSample(r) ==
  LET last == MaxSampleIv(r)
      rest == r.ivs \ {last}
  IN  IF Len(last.chain) = 1
      THEN [r EXCEPT !.ivs = rest, !.max = MaxKey(rest)]
      ELSE [r EXCEPT !.ivs = rest \cup {[last EXCEPT !.chain = Tail(@), !.min = @ + 1,
                                                            !.mem = last.chain[2]]},
                     !.max = @ + 1]

\* Removes the element with the highest sequence number from the last interval.
DeleteLastSample(r) ==
  LET last == MaxSampleIv(r)
      rest == r.ivs \ {last}
  IN  IF Len(last.chain) = 1
      THEN [r EXCEPT !.ivs = rest, !.max = MaxKey(rest)]
      ELSE [r EXCEPT !.ivs = rest \cup
             {[last EXCEPT !.chain = SubSeq(@, 1, Len(@) - 1), !.maxp1 = @ - 1]}]

\* Counting what was just inserted, never beyond max_samples.
CountOrEvict(r) ==
  IF r.n < r.maxSamples THEN [r EXCEPT !.n = @ + 1] ELSE DeleteLastSample(r)

----------------------------------------------------------------------------
(* nn_reorder_rsample, by the position of the sample. *)

Deliverable(r, s) ==
  \/ s = r.next
  \/ s > r.next /\ r.mode = "monotonic"
  \/ r.mode = "always"

DeliverSample(r, s) ==
  LET t == TryAppendAndDiscard(r, Singleton(s), FindMin(r.ivs))
  IN  Result([r EXCEPT !.ivs  = t.ivs,
                       !.max  = IF t.max THEN 0 ELSE @,
                       !.next = t.iv.maxp1,
                       !.n    = @ - (Len(t.iv.chain) - 1)],
             "deliver", t.iv.chain)

AddInterval(r, s) ==
  [r EXCEPT !.ivs = @ \cup {Singleton(s)}, !.max = s, !.n = @ + 1]

GrowLast(r, s) ==
  LET last == MaxSampleIv(r)
  IN  [r EXCEPT !.ivs = (@ \ {last}) \cup {AppendInterval(last, Singleton(s))}, !.n = @ + 1]

\* The sample extends predeq, and may close the hole up to immsucc.
GrowPred(r, s, pred) ==
  LET q == [r EXCEPT !.ivs = @ \ {pred}]
      t == TryAppendAndDiscard(q, AppendInterval(pred, Singleton(s)), LookupMin(r.ivs, s + 1))
  IN  [r EXCEPT !.ivs = t.ivs \cup {t.iv}, !.max = IF t.max THEN pred.min ELSE @]

\* Fault: max_sampleiv keeps pointing at the replaced node.
GrowSuccAtHeadStaleMax(r, s, succ) ==
  [r EXCEPT !.ivs = (@ \ {succ}) \cup
              {[succ EXCEPT !.min = s, !.chain = <<SampleElem(s)>> \o @, !.mem = SampleElem(s)]}]

\* The sample goes in front of immsucc; its own node replaces the one of immsucc
\* because the latter may live in memory of a later sample.
GrowSuccAtHead(r, s, succ) ==
  [r EXCEPT !.ivs = (@ \ {succ}) \cup
              {[succ EXCEPT !.min = s, !.chain = <<SampleElem(s)>> \o @, !.mem = SampleElem(s)]},
            !.max = IF succ.min = @ THEN s ELSE @]

InsertInside(r, s) ==
  LET pred == {iv \in PredEq(r.ivs, s) : iv.maxp1 = s}
      succ == LookupMin(r.ivs, s + 1)
  IN  IF pred # {} THEN GrowPred(r, s, CHOOSE iv \in pred : TRUE)
      ELSE IF succ # {} THEN GrowSuccAtHead(r, s, CHOOSE iv \in succ : TRUE)
      ELSE [r EXCEPT !.ivs = @ \cup {Singleton(s)}]

ReorderRsample(r, s, dqueueFull) ==
  CASE Deliverable(r, s) -> IF dqueueFull THEN Reject(r) ELSE DeliverSample(r, s)
    [] ~ Deliverable(r, s) /\ s < r.next -> TooOld(r)
    [] ~ Deliverable(r, s) /\ s > r.next /\ r.ivs = {} ->
         IF r.maxSamples = 0 THEN Reject(r) ELSE Accept(AddInterval(r, s))
    [] ~ Deliverable(r, s) /\ s > r.next /\ r.ivs # {} ->
         LET maxp1 == MaxSampleIv(r).maxp1
             room  == ~ dqueueFull /\ r.n < r.maxSamples
         IN  CASE s = maxp1 -> IF room THEN Accept(GrowLast(r, s)) ELSE Reject(r)
               [] s > maxp1 -> IF room THEN Accept(AddInterval(r, s)) ELSE Reject(r)
               [] s < maxp1 ->
                    IF (r.lateAck /\ dqueueFull) \/ s \in Claimed(r)
                    THEN Reject(r)
                    ELSE Accept(CountOrEvict(InsertInside(r, s)))

----------------------------------------------------------------------------
(* nn_reorder_gap *)

\* The intervals [m, n) with n >= min and m <= maxp1.
Touching(r, min, maxp1) == {iv \in r.ivs : iv.maxp1 >= min /\ iv.min <= maxp1}

MinOf(S) == CHOOSE x \in S : \A y \in S : x <= y
MaxOf(S) == CHOOSE x \in S : \A y \in S : y <= x

\* The chains of a set of intervals, in the order of their sequence numbers.
ConcatChains(ivs) ==
  LET order == [i \in 1 .. Cardinality(ivs) |->
                  CHOOSE iv \in ivs : Cardinality({j \in ivs : j.min < iv.min}) = i - 1]
      cat[i \in 0 .. Cardinality(ivs)] == IF i = 0 THEN <<>> ELSE cat[i - 1] \o order[i].chain
  IN  cat[Cardinality(ivs)]

\* One interval out of all the ones touching [min, maxp1); the node of the first survives.
Coalesce(T, min, maxp1) ==
  [min   |-> MinOf({min} \cup {iv.min : iv \in T}),
   maxp1 |-> MaxOf({maxp1} \cup {iv.maxp1 : iv \in T}),
   chain |-> ConcatChains(T),
   mem   |-> (CHOOSE iv \in T : iv \in FindMin(T)).mem]

InsertGap(r, min, maxp1) ==
  [r EXCEPT !.ivs = @ \cup {[min |-> min, maxp1 |-> maxp1,
                             chain |-> <<GapElem(min)>>, mem |-> GapElem(min)]}]

RefreshMax(r) == [r EXCEPT !.max = MaxKey(r.ivs)]

GapAlone(r, min, maxp1) ==
  CASE min <= r.next -> Accept(RefreshMax([r EXCEPT !.next = maxp1]))
    [] min > r.next /\ r.n = r.maxSamples /\ (r.max = 0 \/ min > MaxSampleIv(r).maxp1) -> Reject(r)
    [] OTHER -> Accept(RefreshMax(CountOrEvict(InsertGap(r, min, maxp1))))

\* Fault: next_seq moves to the end of the gap, not of the delivered interval.
GapCoalescedShort(r, T, min, maxp1) ==
  LET c    == Coalesce(T, min, maxp1)
      rest == r.ivs \ T
  IN  IF c.min <= r.next
      THEN Result(RefreshMax([r EXCEPT !.ivs = rest, !.next = maxp1, !.n = @ - Len(c.chain)]),
                  "deliver", c.chain)
      ELSE Result(RefreshMax([r EXCEPT !.ivs = rest \cup {c}]),
                  IF {c} = T THEN "reject" ELSE "accept", <<>>)

GapCoalesced(r, T, min, maxp1) ==
  LET c    == Coalesce(T, min, maxp1)
      rest == r.ivs \ T
  IN  IF c.min <= r.next
      THEN Result(RefreshMax([r EXCEPT !.ivs = rest, !.next = c.maxp1, !.n = @ - Len(c.chain)]),
                  "deliver", c.chain)
      ELSE Result(RefreshMax([r EXCEPT !.ivs = rest \cup {c}]),
                  IF {c} = T THEN "reject" ELSE "accept", <<>>)

ReorderGap(r, min, maxp1) ==
  LET T == Touching(r, min, maxp1)
  IN  CASE maxp1 <= r.next -> TooOld(r)
        [] maxp1 > r.next /\ r.mode # "normal" -> Reject(r)
        [] maxp1 > r.next /\ r.mode = "normal" /\ T = {} -> GapAlone(r, min, maxp1)
        [] maxp1 > r.next /\ r.mode = "normal" /\ T # {} -> GapCoalesced(r, T, min, maxp1)

\* nn_reorder_drop_upto: the chain is dropped, not delivered.
ReorderDropUpto(r, maxp1) == ReorderGap(r, 1, maxp1).r

----------------------------------------------------------------------------
(* Queries. *)

ReorderWantsample(r, s) ==
  s >= r.next /\ \A iv \in PredEq(r.ivs, s) : iv.maxp1 <= s

\* nn_reorder_nackmap: the bitmap's base, its length and the numbers whose bit is set.
\* The walk over the tree leaves the loop with i = end, the end of the last interval
\* it visited: notail cuts the map off there.
ReorderNackmap(r, base0, maxseq0, maxsz0, notail) ==
  LET maxsz   == IF maxsz0 > r.maxSamples THEN r.maxSamples ELSE maxsz0
      base    == IF base0 > r.next THEN r.next ELSE base0
      maxseq  == IF maxseq0 + 1 < base THEN base - 1 ELSE maxseq0
      numbits == IF maxseq + 1 - base > maxsz THEN maxsz ELSE maxseq + 1 - base
      visited == {iv \in r.ivs : \A j \in r.ivs : j.min < iv.min => j.maxp1 < base + numbits}
      end     == IF visited = {} THEN base ELSE (CHOOSE iv \in FindMax(visited) : TRUE).maxp1
      cut     == IF notail /\ end < base + numbits THEN end - base ELSE numbits
  IN  [base |-> base, numbits |-> cut, bits |-> (base .. (base + cut - 1)) \ Claimed(r)]
=============================================================================
