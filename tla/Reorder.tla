------------------------------ MODULE Reorder ------------------------------
(***************************************************************************)
(* One reorder administration (q_radmin.c) fed by an unreliable network:   *)
(* samples arrive in any order and any number of times, gaps and           *)
(* heartbeats declare sequence numbers unavailable, and the delivery queue *)
(* may be full at any moment.  All calls are made with the proxy writer    *)
(* locked, so each is one step.                                            *)
(***************************************************************************)
EXTENDS ReorderAdmin, FiniteSetsExt

CONSTANTS
  MaxSeq,        \* highest sequence number of the run
  Params,        \* the parameters of nn_reorder_new explored, a set of records
  InteriorGaps,  \* whether gaps may start above 1 (Gap messages, not just heartbeats)
  MaxAlways      \* bound on the number of deliveries in the mode without order

ASSUME ReorderAssumption ==
  /\ MaxSeq \in Nat /\ MaxAlways \in Nat /\ InteriorGaps \in BOOLEAN
  /\ \A p \in Params : /\ p.mode \in Modes /\ p.maxSamples \in Nat /\ p.lateAck \in BOOLEAN

VARIABLES
  ro,         \* the administration
  delivered,  \* the sequence numbers handed to the delivery queue, in order
  declared,   \* ghost: the numbers a gap or heartbeat declared unavailable
  known       \* pwr->last_seq: the highest number known to exist

vars == <<ro, delivered, declared, known>>

Seqs == 1 .. MaxSeq

Init ==
  /\ \E p \in Params : ro = NewReorder(p.mode, p.maxSamples, p.lateAck)
  /\ delivered = <<>>
  /\ declared = {}
  /\ known = 0

----------------------------------------------------------------------------

\* Delivering a chain skips its gap elements.
SampleSeqs(chain) ==
  LET upto[i \in 0 .. Len(chain)] ==
        IF i = 0 THEN <<>>
        ELSE IF chain[i].gap THEN upto[i - 1] ELSE Append(upto[i - 1], chain[i].seq)
  IN  upto[Len(chain)]

Max2(a, b) == IF a >= b THEN a ELSE b

\* nn_reorder_rsample, as handle_regular calls it.
Sample(s, full) ==
  LET x == ReorderRsample(ro, s, full)
  IN  /\ ro.mode = "always" => Len(delivered) + Len(x.out) <= MaxAlways
      /\ ro' = x.r
      /\ delivered' = delivered \o SampleSeqs(x.out)
      /\ known' = Max2(known, s)
      /\ UNCHANGED declared

\* nn_reorder_gap, for a Gap message (any min) or a heartbeat (min = 1).
Gap(min, maxp1) ==
  LET x == ReorderGap(ro, min, maxp1)
  IN  /\ ro.mode = "always" => Len(delivered) + Len(x.out) <= MaxAlways
      /\ ro' = x.r
      /\ delivered' = delivered \o SampleSeqs(x.out)
      /\ declared' = declared \cup (min .. maxp1 - 1)
      /\ known' = Max2(known, maxp1 - 1)

\* nn_reorder_drop_upto, when the last reliable reader goes away.
DropUpto ==
  /\ ro.mode = "normal"
  /\ ro' = ReorderDropUpto(ro, known + 1)
  /\ declared' = declared \cup (1 .. known)
  /\ UNCHANGED <<delivered, known>>

Next ==
  \/ \E s \in Seqs, full \in BOOLEAN : Sample(s, full)
  \/ \E maxp1 \in 2 .. MaxSeq + 1 : Gap(1, maxp1)
  \/ InteriorGaps /\ \E min \in 2 .. MaxSeq : \E maxp1 \in min + 1 .. MaxSeq + 1 : Gap(min, maxp1)
  \/ DropUpto

Spec == Init /\ [][Next]_vars

----------------------------------------------------------------------------
(* Properties *)

Got == {delivered[i] : i \in 1 .. Len(delivered)}

\* The tree holds "non-overlapping, non-consecutive intervals", all beyond the
\* next number to deliver, and max_sampleiv is its maximum: what the assertions
\* at the head of nn_reorder_rsample and the lookups of nn_reorder_gap rely on.
\* n_samples is the number of chain elements in it and within its limit, however
\* often samples and gaps were merged, delivered or evicted. And the tree node of
\* an interval lives in the receive buffer of one of its own chain elements, so
\* evicting the last element cannot free a node in use.
TreeWellFormed ==
  /\ \A i, j \in ro.ivs : i # j => i.maxp1 < j.min \/ j.maxp1 < i.min
  /\ \A iv \in ro.ivs : ro.next < iv.min
  /\ ro.max = MaxKey(ro.ivs)
  /\ ro.n = MapThenSumSet(LAMBDA iv : Len(iv.chain), ro.ivs) /\ ro.n <= ro.maxSamples
  /\ \A iv \in ro.ivs : \E i \in 1 .. Len(iv.chain) : iv.chain[i] = iv.mem

\* Reliable and best-effort data reaches the delivery queue in increasing
\* order, so never twice.
DeliveredInOrder ==
  ro.mode # "always" => \A i, j \in DOMAIN delivered : i < j => delivered[i] < delivered[j]

\* A reliable stream skips nothing silently: every number that was passed over,
\* or that an interval claims (and that is thus never requested again), was
\* delivered, is stored, or was declared unavailable by the writer.
NothingSkipped ==
  ro.mode = "normal" =>
    \A s \in (1 .. ro.next - 1) \cup Claimed(ro) :
      s \in Got \cup declared \/ SampleElem(s) \in StoredIn(ro)

\* The same for an administration with room for everything that can be outstanding.
NothingSkippedWithRoom == ro.maxSamples >= MaxSeq => NothingSkipped

\* "The policy is to prefer the lowest sequence numbers": what is evicted lies
\* above everything that is kept.
EvictsHighest ==
  [][~ DropUpto =>
       \A e \in StoredIn(ro) \ StoredIn(ro') :
         e.seq >= ro'.next => \A k \in StoredIn(ro') : k.seq < e.seq]_vars

=============================================================================
