---------------------------- MODULE ProxyWriter ----------------------------
(***************************************************************************)
(* The receiving end of a reliable writer: a proxy writer, the matches     *)
(* with the readers of its process, and its delivery queue.                *)
(*                                                                         *)
(* A sample goes to the primary reorder administration, whose output is    *)
(* for all readers in sync, and to the administration of each reader that  *)
(* is not.  The output is queued and handed over by a separate thread that *)
(* looks at the synchronisation states when it gets there, not when the    *)
(* sample was queued.  Handlers run with the proxy writer locked and are   *)
(* one step each.  The queue is shared with the other proxy writers of the *)
(* domain, whose traffic is not modelled: it may be found full at any time.*)
(* Samples are not fragmented here, the writer is another Cyclone DDS      *)
(* process, and no reader is content filtered.                             *)
(***************************************************************************)
EXTENDS Endpoints, ReorderAdmin, SequencesExt

CONSTANTS
  PrimaryMax,     \* primary_reorder_maxsamples
  SecondaryMax,   \* secondary_reorder_maxsamples
  All             \* addressee of what is delivered to every reader in sync

ASSUME ProxyWriterAssumption ==
  /\ All \notin Readers
  /\ PrimaryMax \in Nat /\ SecondaryMax \in Nat

VARIABLES
  pwr,     \* deliver_synchronously, have_seen_heartbeat, last_seq and the primary
           \* reorder administration
  match,   \* the match of each reader: in_sync, end_of_tl_seq and its own administration
  dqueue,  \* what waits for the delivery thread: addressee and sequence number
  got,     \* the sequence numbers stored in each reader's history cache
  twice,   \* ghost: the ones that were stored a second time
  behind   \* ghost: the readers whose own administration has waited for a lower number
           \* than the primary one although they were taken to be in step with it

pwrVars == <<pwr, match, dqueue, got, twice, behind>>

NoMatch == [sync |-> "none", eot |-> 0, ro |-> NewReorder("normal", 0, FALSE)]

Matched   == {rd \in Readers : match[rd].sync # "none"}
NReliable == Cardinality(Matched \ BestEffort)

PwrInit ==
  /\ pwr \in [direct : DirectModes, seenHb : {FALSE}, lastSeq : {0},
              ro : {NewReorder("normal", PrimaryMax, FALSE)}]
  /\ match = [rd \in Readers |-> NoMatch]
  /\ dqueue = <<>>
  /\ got = [rd \in Readers |-> {}]
  /\ twice = [rd \in Readers |-> {}]
  /\ behind = {}

----------------------------------------------------------------------------
(* Helpers *)

Larger(a, b) == IF a >= b THEN a ELSE b

\* Faults of two of the operators below, for mutation testing.
OwnGapEndLast(first, gapEnd) == gapEnd
AddresseesMatched(ms, e) ==
  {rd \in IF e.to = All THEN Readers ELSE {e.to} : ms[rd].sync # "none"}

\* A reader on its own waits for the same number as the proxy writer.
InStep(m, p) == m.sync = "out" /\ p.seenHb /\ m.ro.next = p.ro.next

\* maybe_set_reader_in_sync
MaybeSetReaderInSync(m, p, lastDeliv) ==
  IF m.sync = "tlcatchup" \/ InStep(m, p)
  THEN [m EXCEPT !.sync = IF lastDeliv >= m.eot THEN "sync" ELSE "tlcatchup"]
  ELSE m

\* The samples of a chain, addressed to "to".
Entries(to, chain) ==
  LET data == SelectSeq(chain, LAMBDA e : ~ e.gap)
  IN  [i \in 1 .. Len(data) |-> [to |-> to, seq |-> data[i].seq]]

\* The entries of every reader in turn, readers in the order of the match tree.
PerReader(out) ==
  FlattenSeq([i \in 1 .. Cardinality(Readers) |->
                LET rd == SetToSeq(Readers)[i] IN Entries(rd, out[rd])])

\* Who gets an entry: a group entry goes to the readers in sync at that moment.
Addressees(ms, e) ==
  IF e.to = All THEN {rd \in Readers : ms[rd].sync = "sync"}
  ELSE {rd \in {e.to} : ms[rd].sync # "none"}

Addressed(ms, es, rd) == {es[i].seq : i \in {j \in DOMAIN es : rd \in Addressees(ms, es[j])}}

\* Where the gap [1, _) implied by a heartbeat ends in a reader's own administration.
\* Fast-forwarding it like the primary one would skip the historical data.
OwnGapEnd(first, gapEnd) == first

\* Enqueue, or deliver under the lock: the group entries with the states before
\* the handler touched them.
Hand(ms, es) ==
  IF pwr.direct
  THEN /\ got' = [rd \in Readers |-> got[rd] \cup Addressed(ms, es, rd)]
       /\ twice' = [rd \in Readers |-> twice[rd] \cup (got[rd] \cap Addressed(ms, es, rd))]
       /\ UNCHANGED dqueue
  ELSE /\ dqueue' = dqueue \o es
       /\ UNCHANGED <<got, twice>>

\* The readers that fall behind in a step, while they catch up on historical data
\* or in being declared in sync.
NoteBehind ==
  behind' = behind \cup {rd \in Readers : /\ match[rd].sync # "sync"
                                         /\ match'[rd].sync \in {"tlcatchup", "sync"}
                                         /\ match'[rd].ro.next < pwr'.ro.next}

----------------------------------------------------------------------------
(* Handlers *)

\* handle_regular for an unfragmented sample; the readers in full are the ones whose
\* turn came when nn_dqueue_is_full said so.
HandleRegular(s, full) ==
  LET x    == ReorderRsample(pwr.ro, s, FALSE)
      y    == IF x.res = "accept" /\ NReliable = 0 THEN ReorderGap(x.r, 1, s) ELSE x
      p    == [pwr EXCEPT !.lastSeq = Larger(@, s), !.ro = y.r]
      z    == [rd \in Readers |-> IF match[rd].sync \in {"out", "tlcatchup"}
                                  THEN ReorderRsample(match[rd].ro, s, rd \in full)
                                  ELSE Reject(match[rd].ro)]
      m    == [rd \in Readers |-> [match[rd] EXCEPT !.ro = z[rd].r]]
  IN  /\ pwr.seenHb \/ NReliable = 0
      /\ Matched # {}
      /\ pwr' = p
      /\ match' = [rd \in Readers |->
                     IF z[rd].res = "deliver" THEN MaybeSetReaderInSync(m[rd], p, s) ELSE m[rd]]
      /\ Hand(match, Entries(All, y.out) \o PerReader([rd \in Readers |-> z[rd].out]))
      /\ NoteBehind

\* handle_Heartbeat: [first, last] as advertised by the writer.
HandleHeartbeat(first, last) ==
  LET gapEnd == IF pwr.seenHb THEN first ELSE last + 1
      x  == ReorderGap(pwr.ro, 1, gapEnd)
      p  == [pwr EXCEPT !.seenHb = TRUE, !.lastSeq = Larger(@, last), !.ro = x.r]
      z  == [rd \in Readers |-> IF match[rd].sync = "out"
                                THEN ReorderGap(match[rd].ro, 1, OwnGapEnd(first, gapEnd))
                                ELSE Reject(match[rd].ro)]
      m  == [rd \in Readers |->
               [match[rd] EXCEPT !.ro  = z[rd].r,
                                 !.eot = IF @ = MaxSeqNumber /\ match[rd].sync # "sync"
                                         THEN last ELSE @]]
  IN  /\ NReliable > 0
      /\ pwr' = p
      /\ match' = [rd \in Readers |->
                     IF m[rd].sync = "tlcatchup" THEN MaybeSetReaderInSync(m[rd], p, p.ro.next - 1)
                     ELSE MaybeSetReaderInSync(m[rd], p, m[rd].ro.next - 1)]
      /\ Hand(match, Entries(All, x.out) \o PerReader([rd \in Readers |-> z[rd].out]))
      /\ NoteBehind

\* handle_one_gap for [a, b), on the accumulated state of handle_Gap.
HandleOneGap(st, rd, a, b) ==
  LET x == ReorderGap(st.p.ro, a, b)
      p == [st.p EXCEPT !.ro = x.r]
      z == IF st.m.sync = "out" THEN ReorderGap(st.m.ro, a, b) ELSE Reject(st.m.ro)
  IN  [p |-> p,
       m |-> MaybeSetReaderInSync([st.m EXCEPT !.ro = z.r], p, b - 1),
       es |-> st.es \o Entries(All, x.out) \o Entries(rd, z.out)]

\* The maximal runs of a set of numbers, as [a, b) in increasing order.
Runs(S) ==
  LET starts == {s \in S : s - 1 \notin S}
      endOf(s) == MinOf({e \in {t + 1 : t \in S} : e > s /\ e \notin S})
  IN  [i \in 1 .. Cardinality(starts) |->
         LET s == CHOOSE x \in starts : Cardinality({y \in starts : y < x}) = i - 1
         IN  <<s, endOf(s)>>]

\* handle_Gap addressed to one reader: the numbers in miss do not exist (any more),
\* and end - 1 is the last number the message speaks about.
HandleGap(rd, miss, end) ==
  LET runs == Runs(miss)
      go[i \in 0 .. Len(runs)] ==
        IF i = 0 THEN [p |-> pwr, m |-> match[rd], es |-> <<>>]
        ELSE HandleOneGap(go[i - 1], rd, runs[i][1], runs[i][2])
      st == go[Len(runs)]
  IN  /\ match[rd].sync # "none"
      /\ pwr.seenHb \/ NReliable = 0
      /\ pwr' = [st.p EXCEPT !.lastSeq = Larger(@, end - 1)]
      /\ match' = [match EXCEPT ![rd] = st.m]
      /\ Hand(match, st.es)
      /\ NoteBehind

\* The delivery thread: deliver_user_data for the head of the queue.
Deliver ==
  /\ dqueue # <<>>
  /\ LET A == Addressees(match, Head(dqueue))
         s == Head(dqueue).seq
     IN  /\ got' = [rd \in Readers |-> IF rd \in A THEN got[rd] \cup {s} ELSE got[rd]]
         /\ twice' = [rd \in Readers |-> IF rd \in A THEN twice[rd] \cup (got[rd] \cap {s})
                                         ELSE twice[rd]]
  /\ dqueue' = Tail(dqueue)
  /\ UNCHANGED <<pwr, match, behind>>

----------------------------------------------------------------------------
(* Matching *)

\* proxy_writer_add_connection
AddConnection(rd) ==
  /\ match[rd].sync = "none"
  /\ match' = [match EXCEPT ![rd] =
       [sync |-> "out",
        eot  |-> IF pwr.seenHb /\ rd \in TlReaders THEN pwr.lastSeq ELSE MaxSeqNumber,
        ro   |-> NewReorder(IF rd \in BestEffort THEN "monotonic" ELSE "normal",
                            SecondaryMax, FALSE)]]
  /\ UNCHANGED <<pwr, dqueue, got, twice, behind>>

\* proxy_writer_drop_connection: without reliable readers the next first
\* heartbeat starts a new session.
DropConnection(rd) ==
  /\ match[rd].sync # "none"
  /\ match' = [match EXCEPT ![rd] = NoMatch]
  /\ pwr' = IF Matched \ BestEffort \subseteq {rd} /\ pwr.seenHb
            THEN [pwr EXCEPT !.seenHb = FALSE, !.ro = ReorderDropUpto(@, pwr.lastSeq + 1)]
            ELSE pwr
  /\ UNCHANGED <<dqueue, got, twice, behind>>

----------------------------------------------------------------------------
(* Acknowledging *)

\* A fault: the position of the proxy writer is acknowledged for every reader.
NackInfoPrimary(rd) == ReorderNackmap(pwr.ro, pwr.ro.next, pwr.lastSeq, 256, FALSE)

\* add_AckNack_getsource and nn_reorder_nackmap: what a reliable reader would
\* acknowledge (everything below base) and request (bits).
NackInfo(rd) ==
  LET ro == IF match[rd].sync = "out" THEN match[rd].ro ELSE pwr.ro
  IN  ReorderNackmap(ro, ro.next, pwr.lastSeq, 256, FALSE)

----------------------------------------------------------------------------
(* State predicates of the receiving side *)

\* What has reached a reader, or is queued and will.
Received(rd) == got[rd] \cup Addressed(match, dqueue, rd)
=============================================================================
