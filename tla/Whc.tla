-------------------------------- MODULE Whc --------------------------------
(***************************************************************************)
(* The writer history cache of ddsc (dds_whc.c) together with the part of  *)
(* the writer that calls it: insert_sample_in_whc (q_transmit.c), the      *)
(* acknowledgement state of the matched readers (ddsi_endpoint.c,          *)
(* ddsi_entity_match.c) and the lifespan callback (ddsi_lifespan.c).       *)
(*                                                                         *)
(* A sample is known by its sequence number.  The cache keeps three        *)
(* indices over the samples: a set of contiguous intervals of sequence     *)
(* numbers of which the last one, the open interval, is where the next     *)
(* sample goes; for each instance a circular array "hist" of the newest    *)
(* idxdepth samples; and the number of unacknowledged bytes.  The list     *)
(* that links the samples in sequence order is the order of the numbers.   *)
(*                                                                         *)
(* All calls by the writer are made with wr->e.lock held, the lifespan     *)
(* callback takes only whc->lock: it is the one that runs in between a     *)
(* borrow and the matching return.                                         *)
(***************************************************************************)
EXTENDS Naturals, Integers, FiniteSets, FiniteSetsExt, Functions

CONSTANTS
  Keys,       \* instances (tkmap iids) the application writes
  Readers,    \* proxy readers that may match the writer
  Kinds,      \* kinds of sample written, a subset of AllKinds
  Qos,        \* the QoS settings the writer may be created with
  MaxSeq,     \* bound: number of samples written
  NoInst      \* idxnode = NULL

AllKinds == {"data", "dispose", "unregister", "empty"}

(***************************************************************************)
(* hdepth, tldepth: history and durability-service depth, 0 is KEEP_ALL.   *)
(***************************************************************************)
QosType == [tl : BOOLEAN, reliable : BOOLEAN, deadline : BOOLEAN,
            lifespan : BOOLEAN, hdepth : Nat, dsdepth : Nat]

ASSUME WhcAssumption ==
  /\ IsFiniteSet(Keys) /\ IsFiniteSet(Readers)
  /\ Kinds \subseteq AllKinds
  /\ MaxSeq \in Nat \ {0}
  /\ NoInst \notin Keys
  /\ Qos \subseteq QosType

Seqs == 1 .. MaxSeq

\* MAX_SEQ_NUMBER: what a reader that never acknowledges is said to have acked
MaxSeqNumber == MaxSeq + 1

VARIABLES
  qos,      \* wrinfo and the writer's QoS, fixed at creation
  whc,      \* the cache (struct whc_impl)
  wrseq,    \* wr->seq, the number of the last sample written
  acked,    \* for every matched reader, m->seq
  relrd,    \* the reliable readers among the matched ones
  loan,     \* the sample the holder of wr->e.lock has borrowed, 0 if none
  iter,     \* the loan was made by a whc_sample_iter
  freed,    \* whc_free was called
  frees,    \* how often the contents of each sample were freed
  settled,  \* ghost: the highest number every reader has been said to have acked
  written,  \* ghost: what was inserted, by sequence number
  expired   \* ghost: the samples removed by the lifespan callback

vars == <<qos, whc, wrseq, acked, relrd, loan, iter, freed, frees, settled, written, expired>>

-----------------------------------------------------------------------------
(* Depths (whc_make_wrinfo)                                                *)

HDepth == qos.hdepth
TLDepth == IF qos.tl THEN qos.dsdepth ELSE 0
IdxDepth == IF HDepth > TLDepth THEN HDepth ELSE TLDepth

Slots == 0 .. IdxDepth - 1

NoIdx == [k \in {} |-> 0]

-----------------------------------------------------------------------------
(* Lookups.  They take the cache as an argument because the operations     *)
(* below are compositions of smaller ones.                                 *)

Present(w) == DOMAIN w.node

Intervals(w) == w.closed \cup {w.open}

NonEmpty(I) == {i \in I : i.min < i.maxp1}

\* ddsrt_avl_lookup_pred_eq: the interval with the largest min <= s
IntvOf(w, s) ==
  CHOOSE i \in Intervals(w) :
    i.min <= s /\ \A j \in Intervals(w) : j.min <= s => j.min <= i.min

\* the last sample by the intervals, 0 for none
FindMaxProcedurally(w) ==
  IF w.size = 0 THEN 0
  ELSE IF w.open.min < w.open.maxp1 THEN w.open.maxp1 - 1
  ELSE Max({i.maxp1 : i \in w.closed}) - 1

\* the intervals at or after s, as ddsrt_avl_lookup_succ_eq searches them
Succ(w, s) == {i \in Intervals(w) : i.min >= s}

\* the next sample after s, 0 for none
FindNextSeq(w, s) ==
  IF s \in Present(w)
  THEN IF s = w.maxseq THEN 0 ELSE Min({t \in Present(w) : t > s})
  ELSE LET later == Succ(w, s)
       IN IF later = {} THEN 0
          ELSE LET i == CHOOSE i \in later : \A j \in later : i.min <= j.min
               IN IF i.min < i.maxp1 THEN i.min ELSE 0

\* the sample before s in the list, 0 for none
PrevSeq(w, s) ==
  LET before == {t \in Present(w) : t < s}
  IN IF before = {} THEN 0 ELSE Max(before)

\* distance of a slot from the newest sample of its instance
Age(x, pos) == (x.head + (IF pos > x.head THEN IdxDepth ELSE 0)) - pos

\* mutant: the oldest sample of the transient-local history is not in it
InTlidxShort(w, s) ==
  LET n == w.node[s]
  IN n.inst # NoInst /\ Age(w.idx[n.inst], n.pos) + 1 < TLDepth

InTlidx(w, s) ==
  LET n == w.node[s]
  IN n.inst # NoInst /\ Age(w.idx[n.inst], n.pos) < TLDepth

-----------------------------------------------------------------------------
(* Deleting one sample (whc_delete_one)                                    *)

\* mutant: the split keeps the first half as the open interval
CutIntervalKeepLeft(w, s) ==
  LET i == IntvOf(w, s)
      left == [min |-> i.min, maxp1 |-> s]
      right == [min |-> s + 1, maxp1 |-> i.maxp1]
  IN IF i # w.open
     THEN [w EXCEPT !.closed = (@ \ {i}) \cup NonEmpty({left, right})]
     ELSE IF s # i.min
     THEN [w EXCEPT !.open = left, !.closed = @ \cup NonEmpty({right})]
     ELSE [w EXCEPT !.open = right]

\* whc_delete_one_intv: s leaves its interval, which may vanish or split;
\* what follows s in the open interval stays the open interval
CutInterval(w, s) ==
  LET i == IntvOf(w, s)
      left == [min |-> i.min, maxp1 |-> s]
      right == [min |-> s + 1, maxp1 |-> i.maxp1]
  IN IF i # w.open
     THEN [w EXCEPT !.closed = (@ \ {i}) \cup NonEmpty({left, right})]
     ELSE IF s # i.min /\ s + 1 = i.maxp1
     THEN [w EXCEPT !.open = left]
     ELSE [w EXCEPT !.open = right, !.closed = @ \cup NonEmpty({left})]

\* delete_one_sample_from_idx
Unindex(w, s) ==
  LET n == w.node[s]
  IN IF n.inst = NoInst THEN w
     ELSE [w EXCEPT !.idx[n.inst].hist[n.pos] = 0]

UnackedSize(w, s) == IF w.node[s].unacked THEN w.node[s].size ELSE 0

Forget(w, s) == [w EXCEPT !.node = Restrict(@, DOMAIN @ \ {s}), !.size = @ - 1]

DeleteOne(w, s) ==
  Forget([CutInterval(Unindex(w, s), s)
            EXCEPT !.unackedBytes = @ - UnackedSize(w, s)], s)

\* the loops that delete samples walk them in sequence order
DeleteSet(w, S) ==
  LET del[s \in 0 .. MaxSeq] ==
        IF s = 0 THEN w ELSE IF s \in S THEN DeleteOne(del[s - 1], s) ELSE del[s - 1]
  IN del[MaxSeq]

Ack(w, S) ==
  [w EXCEPT !.unackedBytes = @ - MapThenSumSet(LAMBDA s : UnackedSize(w, s), S),
            !.node = [s \in DOMAIN @ |->
                        IF s \in S THEN [@[s] EXCEPT !.unacked = FALSE] ELSE @[s]]]

-----------------------------------------------------------------------------
(* Removing acknowledged samples (whc_default_remove_acked_messages)       *)

\* mutant: the first sample of the run is not counted
BytesAfterFirst(w, first, last) == w.node[last].total - w.node[first].total

\* the bytes of the samples first .. last, from the running totals
BytesOfRun(w, first, last) ==
  w.node[last].total - w.node[first].total + w.node[first].size

\* no index, no deadline, volatile: everything up to m goes, in one piece
\* from the start of the open interval
RemoveAckedNoidx(w, m) ==
  IF \/ m <= w.maxDrop
     \/ w.maxseq = 0
     \/ m \notin Present(w) /\ m < w.open.min
  THEN [w EXCEPT !.maxDrop = Max({@, m})]
  ELSE LET first == w.open.min
           last == IF m \in Present(w) THEN m ELSE w.maxseq
           rest == \E s \in Present(w) : s > last
       IN [w EXCEPT
             !.node = Restrict(@, {s \in DOMAIN @ : s < first \/ s > last}),
             !.open = [min |-> m + 1,
                       maxp1 |-> IF rest THEN @.maxp1 ELSE m + 1],
             !.maxseq = IF rest THEN @ ELSE 0,
             !.unackedBytes = @ - BytesOfRun(w, first, last),
             !.size = @ - (last - first + 1),
             !.maxDrop = m]

\* the slots of instance x that lie beyond the transient-local depth
PruneSlots(x) == {p \in Slots : Age(x, p) >= TLDepth}

Pruned(w, x) == {x.hist[p] : p \in PruneSlots(x)} \ {0}

\* what is in the transient-local history is kept, the rest deleted; the
\* second pass prunes the instances of the samples that were kept
RemoveAckedFull(w, m) ==
  LET range == {s \in Present(w) : w.maxDrop < s /\ s <= m}
      keep == {s \in range : InTlidx(w, s)}
      first == DeleteSet(Ack(w, keep), range \ keep)
      old == UNION {Pruned(first, first.idx[first.node[s].inst]) : s \in keep}
      second == IF TLDepth > 0 /\ IdxDepth > TLDepth
                THEN DeleteSet(first, old) ELSE first
  IN IF qos.tl /\ TLDepth = 0
     THEN [Ack(w, range) EXCEPT !.maxDrop = m]
     ELSE [second EXCEPT !.maxseq = FindMaxProcedurally(second), !.maxDrop = m]

RemoveAcked(w, m) ==
  IF IdxDepth = 0 /\ ~qos.deadline /\ ~qos.tl
  THEN RemoveAckedNoidx(w, m)
  ELSE RemoveAckedFull(w, m)

-----------------------------------------------------------------------------
(* Inserting a sample (whc_default_insert)                                 *)

SizeOf(kind) == IF kind = "data" THEN 2 ELSE 1

\* only samples that carry data get an expiry time (insert_sample_in_whc)
Expires(kind) == qos.lifespan /\ kind \in {"data", "empty"}

InsertSeq(w, m, s, kind) ==
  LET unacked == s > m
      n == [inst |-> NoInst, pos |-> 0, size |-> SizeOf(kind),
            total |-> w.total + SizeOf(kind), unacked |-> unacked,
            exp |-> Expires(kind)]
      empty == w.open.min = w.open.maxp1
      append == w.open.maxp1 = s
      fresh == [min |-> s, maxp1 |-> s + 1]
  IN [w EXCEPT
        !.node = [t \in DOMAIN @ \cup {s} |-> IF t = s THEN n ELSE @[t]],
        !.maxseq = s,
        !.total = n.total,
        !.unackedBytes = @ + (IF unacked THEN n.size ELSE 0),
        !.closed = IF empty \/ append THEN @ ELSE @ \cup {w.open},
        !.open = IF ~empty /\ append THEN [@ EXCEPT !.maxp1 = s + 1] ELSE fresh,
        !.size = @ + 1]

\* the new sample was an unregister nobody needs: take it out again
DropNew(w, m, s) ==
  IF s <= m THEN [DeleteOne(w, s) EXCEPT !.maxseq = PrevSeq(w, s)] ELSE w

Detach(w, S) ==
  [w EXCEPT !.node = [t \in DOMAIN @ |->
                        IF t \in S THEN [@[t] EXCEPT !.inst = NoInst] ELSE @[t]]]

\* delete_one_instance_from_idx
DeleteInstance(w, m, k) ==
  LET S == Range(w.idx[k].hist) \ {0}
      cut == [Detach(w, S) EXCEPT !.idx = Restrict(@, DOMAIN @ \ {k})]
  IN DeleteSet(cut, {s \in S : s <= m})

Index(w, s, k, p) ==
  [w EXCEPT !.idx[k].head = p, !.idx[k].hist[p] = s,
            !.node[s].inst = k, !.node[s].pos = p]

\* mutant: KEEP_ALL drops what is overwritten in the transient-local index
MayOverwriteAlways(m, old) == ~qos.tl \/ TLDepth > 0

\* an overwritten sample goes at once unless KEEP_ALL still needs it
MayOverwrite(m, old) ==
  (HDepth > 0 \/ old <= m) /\ (~qos.tl \/ TLDepth > 0)

\* mutant: this special case is missing
PruneNothing(w, m, s, k) == w

\* the new sample is acknowledged already for lack of readers, so nothing
\* else will prune what it pushed out of the transient-local history
PruneBeyondTl(w, m, s, k) ==
  LET x == w.idx[k]
      pos == (x.head + IdxDepth - TLDepth) % IdxDepth
  IN IF s <= m /\ TLDepth > 0 /\ IdxDepth > TLDepth /\ x.hist[pos] # 0
     THEN DeleteOne(w, x.hist[pos]) ELSE w

Overwrite(w, m, s, k) ==
  LET p == (w.idx[k].head + 1) % IdxDepth
      old == w.idx[k].hist[p]
      w1 == Index(Detach(w, {old}), s, k, p)
      w2 == IF old # 0 /\ MayOverwrite(m, old) THEN DeleteOne(w1, old) ELSE w1
  IN PruneBeyondTl(w2, m, s, k)

NewInstance(w, s, k) ==
  LET x == [head |-> 0, hist |-> [p \in Slots |-> 0]]
      w1 == [w EXCEPT !.idx = [j \in DOMAIN @ \cup {k} |->
                                 IF j = k THEN x ELSE @[j]]]
  IN IF IdxDepth > 0 THEN Index(w1, s, k, 0) ELSE w1

Insert(w0, m, s, k, kind) ==
  LET w == InsertSeq(w0, m, s, kind)
      known == k \in DOMAIN w.idx
  IN CASE kind = "empty" -> w
       [] kind = "unregister" ->
            DropNew(IF known THEN DeleteInstance(w, m, k) ELSE w, m, s)
       [] kind \in {"data", "dispose"} /\ known ->
            IF IdxDepth > 0 THEN Overwrite(w, m, s, k) ELSE w
       [] OTHER -> NewInstance(w, s, k)

-----------------------------------------------------------------------------
(* The writer                                                              *)

Matched == DOMAIN acked

\* have_reliable_subs
HaveReliableSubs == \E r \in Matched : acked[r] # MaxSeqNumber

\* the sample is inserted for more than its deadline
Keeps == (qos.reliable /\ HaveReliableSubs) \/ qos.tl

\* ddsi_writer_max_drop_seq, for a given acknowledgement state
MaxDropSeq(ack, seq) ==
  LET min == Min(Range(ack) \cup {MaxSeqNumber})
  IN IF min = MaxSeqNumber THEN seq ELSE min

\* mutant: a borrowed sample is freed with the others
FreedByAll(gone) ==
  [s \in Seqs |-> frees[s] + (IF s \in gone THEN 1 ELSE 0)]

\* the samples gone from the cache are freed, but not one that is on loan
FreedBy(gone) ==
  [s \in Seqs |-> frees[s] + (IF s \in gone /\ s # loan THEN 1 ELSE 0)]

Unlocked == ~freed /\ loan = 0

Init ==
  /\ qos \in Qos
  /\ whc = [node |-> NoIdx, closed |-> {}, open |-> [min |-> 1, maxp1 |-> 1],
            maxseq |-> 0, size |-> 0, unackedBytes |-> 0, total |-> 0,
            maxDrop |-> 0, idx |-> NoIdx]
  /\ wrseq = 0
  /\ acked = NoIdx
  /\ relrd = {}
  /\ loan = 0
  /\ iter = FALSE
  /\ freed = FALSE
  /\ frees = [s \in Seqs |-> 0]
  /\ settled = 0
  /\ written = NoIdx
  /\ expired = {}

\* write_sample_eot up to insert_sample_in_whc
Write(k, kind) ==
  /\ Unlocked
  /\ wrseq < MaxSeq
  /\ wrseq' = wrseq + 1
  /\ settled' = Max({settled, MaxDropSeq(acked, wrseq + 1)})
  /\ LET s == wrseq + 1
         w1 == Insert(whc, MaxDropSeq(acked, s), s, k, kind)
         w2 == IF Keeps THEN w1 ELSE RemoveAcked(w1, s)
     IN IF Keeps \/ qos.deadline
        THEN /\ whc' = w2
             /\ frees' = FreedBy((Present(whc) \cup {s}) \ Present(w2))
             /\ written' = [t \in DOMAIN written \cup {s} |->
                   IF t = s THEN [key |-> k, kind |-> kind] ELSE written[t]]
        ELSE UNCHANGED <<whc, frees, written>>
  /\ UNCHANGED <<qos, acked, relrd, loan, iter, freed, expired>>

\* ddsi_remove_acked_messages for a new acknowledgement state
SetAcked(ack) ==
  /\ acked' = ack
  /\ settled' = Max({settled, MaxDropSeq(ack, wrseq)})
  /\ whc' = RemoveAcked(whc, MaxDropSeq(ack, wrseq))
  /\ frees' = FreedBy(Present(whc) \ Present(whc'))
  /\ relrd' = relrd \cap DOMAIN ack
  /\ UNCHANGED <<qos, wrseq, loan, iter, freed, written, expired>>

\* writer_add_connection: a best-effort reader, and one that is already
\* being deleted, counts as having acknowledged everything
AddConnection(r, rel) ==
  /\ Unlocked
  /\ r \notin Matched
  /\ rel => qos.reliable
  /\ acked' = [q \in Matched \cup {r} |->
                 IF q # r THEN acked[q] ELSE IF rel THEN wrseq ELSE MaxSeqNumber]
  /\ relrd' = IF rel THEN relrd \cup {r} ELSE relrd
  /\ UNCHANGED <<qos, whc, wrseq, loan, iter, freed, frees, written, expired, settled>>

\* handle_AckNack, the part that raises the acknowledged number
AckNack(r, a) ==
  /\ Unlocked
  /\ r \in Matched
  /\ acked[r] < a /\ a <= wrseq
  /\ SetAcked([acked EXCEPT ![r] = a])

\* handle_AckNack for a reliable reader that counts as having acknowledged
\* everything: the AckNack overtook the deletion of the reader, which is
\* considered responsive again
AckNackResponsive(r, a) ==
  /\ Unlocked
  /\ r \in relrd
  /\ acked[r] = MaxSeqNumber /\ a <= wrseq
  /\ LET oldest == IF whc.size = 0 THEN wrseq ELSE whc.maxseq
     IN acked' = [acked EXCEPT ![r] = Max({a, oldest})]
  /\ UNCHANGED <<qos, whc, wrseq, relrd, loan, iter, freed, frees, written, expired, settled>>

\* proxy_reader_set_delete_and_ack_all_messages
AckAllMessages(r) ==
  /\ Unlocked
  /\ r \in Matched
  /\ acked[r] # MaxSeqNumber
  /\ SetAcked([acked EXCEPT ![r] = MaxSeqNumber])

\* writer_drop_connection
DropConnection(r) ==
  /\ Unlocked
  /\ r \in Matched
  /\ SetAcked(Restrict(acked, Matched \ {r}))

Lend(s, it) ==
  /\ loan' = s
  /\ iter' = (it /\ s # 0)
  /\ UNCHANGED <<qos, whc, wrseq, acked, relrd, freed, written, expired, settled>>

\* whc_default_borrow_sample, to answer an AckNack or a NackFrag
BorrowSample(s) ==
  /\ Unlocked
  /\ s \in Present(whc)
  /\ Lend(s, FALSE)
  /\ UNCHANGED frees

\* whc_default_borrow_sample_key: the newest sample of an instance, used
\* for resending SPDP data
BorrowSampleKey(k) ==
  /\ Unlocked
  /\ k \in DOMAIN whc.idx
  /\ IdxDepth > 0
  /\ whc.idx[k].hist[whc.idx[k].head] # 0
  /\ Lend(whc.idx[k].hist[whc.idx[k].head], FALSE)
  /\ UNCHANGED frees

\* returning a sample that left the cache means destroying it
ReturnFrees ==
  frees' = [frees EXCEPT ![loan] = IF loan \in Present(whc) THEN @ ELSE @ + 1]

ReturnSample ==
  /\ loan # 0 /\ ~iter
  /\ Lend(0, FALSE)
  /\ ReturnFrees

\* the first whc_default_sample_iter_borrow_next of deliver_historical_data
IterBorrowFirst ==
  /\ Unlocked
  /\ FindNextSeq(whc, 0) # 0
  /\ Lend(FindNextSeq(whc, 0), TRUE)
  /\ UNCHANGED frees

IterBorrowNext ==
  /\ iter
  /\ Lend(FindNextSeq(whc, loan), TRUE)
  /\ ReturnFrees

\* whc_sample_expired_cb: expiry times follow the order of writing
SampleExpired(S) ==
  /\ ~freed
  /\ S # {}
  /\ LET exp == {s \in Present(whc) : whc.node[s].exp}
         w == DeleteSet(whc, S)
     IN /\ S \subseteq exp
        /\ \A s \in S, t \in exp : t < s => t \in S
        /\ whc' = [w EXCEPT !.maxseq = FindMaxProcedurally(w)]
  /\ frees' = FreedBy(S)
  /\ expired' = expired \cup S
  /\ UNCHANGED <<qos, wrseq, acked, relrd, loan, iter, freed, written, settled>>

\* whc_default_free, from gc_delete_writer: the matches are gone
Free ==
  /\ Unlocked
  /\ Matched = {}
  /\ freed' = TRUE
  /\ frees' = FreedBy(Present(whc))
  /\ UNCHANGED <<qos, whc, wrseq, acked, relrd, loan, iter, written, expired, settled>>

Next ==
  \/ \E k \in Keys, kind \in Kinds : Write(k, kind)
  \/ \E r \in Readers, rel \in BOOLEAN : AddConnection(r, rel)
  \/ \E r \in Readers, a \in Seqs : AckNack(r, a) \/ AckNackResponsive(r, a)
  \/ \E r \in Readers : AckAllMessages(r) \/ DropConnection(r)
  \/ \E s \in Seqs : BorrowSample(s)
  \/ \E k \in Keys : BorrowSampleKey(k)
  \/ ReturnSample \/ IterBorrowFirst \/ IterBorrowNext
  \/ \E S \in SUBSET Seqs : SampleExpired(S)
  \/ Free

Spec == Init /\ [][Next]_vars

-----------------------------------------------------------------------------
(* Properties                                                              *)

(***************************************************************************)
(* The interval administration is exact, whatever is overwritten, pruned,  *)
(* expired or acknowledged in between: the non-empty intervals are the     *)
(* maximal runs of sequence numbers present, the open interval is the last *)
(* of them, and seq_size and maxseq_node agree (check_whc and the list of  *)
(* unchecked conditions in its comment). And find_nextseq_intv, which      *)
(* decides where a gap ends in a retransmit and how an iterator goes on    *)
(* after the sample it held has expired, always finds the smallest number  *)
(* present after the given one.                                            *)
(***************************************************************************)
IntervalsExact ==
  /\ Present(whc) = UNION {i.min .. i.maxp1 - 1 : i \in Intervals(whc)}
  /\ \A i \in whc.closed : i.min < i.maxp1 /\ i.maxp1 < whc.open.min
  /\ \A i, j \in whc.closed : i # j => i.maxp1 < j.min \/ j.maxp1 < i.min
  /\ whc.open.min <= whc.open.maxp1
  /\ whc.size = Cardinality(Present(whc))
  /\ whc.maxseq = FindMaxProcedurally(whc)
  /\ whc.maxseq = Max(Present(whc) \cup {0})
  /\ \A s \in 0 .. MaxSeq :
       LET later == {t \in Present(whc) : t > s}
       IN FindNextSeq(whc, s) = IF later = {} THEN 0 ELSE Min(later)

(***************************************************************************)
(* unacked_bytes, on which a writer is throttled, is the size of exactly   *)
(* the samples some reader has yet to acknowledge.                         *)
(***************************************************************************)
UnackedBytesExact ==
  whc.unackedBytes = MapThenSumSet(LAMBDA s : UnackedSize(whc, s), Present(whc))

Later(s) ==
  {t \in DOMAIN written : t > s /\ written[t].key = written[s].key
                                /\ written[t].kind \in {"data", "dispose"}}

(***************************************************************************)
(* Reliability: a sample that some reliable reader has not acknowledged is *)
(* in the cache, to be retransmitted, unless its lifespan has expired or a *)
(* KEEP_LAST history has replaced it by hdepth newer ones.                 *)
(***************************************************************************)
UnackedKept ==
  \A s \in DOMAIN written :
    (/\ s > settled
     /\ s \notin expired
     /\ HDepth = 0 \/ Cardinality(Later(s)) < HDepth)
      => s \in Present(whc)

Unregistered(s) ==
  \E t \in DOMAIN written : t > s /\ written[t].key = written[s].key
                                  /\ written[t].kind = "unregister"

(***************************************************************************)
(* Durability: whatever has been acknowledged, the newest tldepth samples  *)
(* of an instance that has not been unregistered are there for a reader    *)
(* that joins late, and all of them if the depth is KEEP_ALL.              *)
(***************************************************************************)
TransientLocalKept ==
  qos.tl =>
    \A s \in DOMAIN written :
      (/\ written[s].kind \in {"data", "dispose"}
       /\ s \notin expired
       /\ ~Unregistered(s)
       /\ TLDepth = 0 \/ Cardinality(Later(s)) < TLDepth)
        => s \in Present(whc)

(***************************************************************************)
(* The other side of durability: the samples of an instance that are kept  *)
(* although every reader has acknowledged them are never more than the     *)
(* transient-local depth, and those of a volatile writer are none. With    *)
(* nobody left to acknowledge, the cache of a volatile writer is empty: a  *)
(* sample inserted only to renew its deadline does not stay, as the        *)
(* assertion in insert_sample_in_whc has it.                               *)
(***************************************************************************)
HistoryBounded ==
  /\ \A k \in Keys :
       LET kept == {s \in Present(whc) : /\ written[s].key = k
                                         /\ written[s].kind # "empty"
                                         /\ ~whc.node[s].unacked}
       IN (qos.tl /\ TLDepth = 0) \/ Cardinality(kept) <= TLDepth
  /\ ~qos.tl /\ ~HaveReliableSubs => Present(whc) = {} /\ whc.unackedBytes = 0

(***************************************************************************)
(* The contents of a sample are freed exactly once, and not while they are *)
(* borrowed: also if the sample expires, alone of all operations, between  *)
(* the borrow and the return.                                              *)
(***************************************************************************)
ContentsFreedOnce ==
  \A s \in DOMAIN written :
    frees[s] = IF s = loan \/ (s \in Present(whc) /\ ~freed) THEN 0 ELSE 1
=============================================================================
