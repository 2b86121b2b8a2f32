-------------------------- MODULE ReliableWriter --------------------------
(***************************************************************************)
(* The sending end: a reliable writer, what it knows of each matched proxy *)
(* reader, and the messages it puts on the network.  Its history cache is  *)
(* the set of sequence numbers it still holds (module Whc has the details);*)
(* every handler runs with the writer locked.  Timing is left out: a       *)
(* heartbeat or an acknowledgement may be sent at any moment.              *)
(***************************************************************************)
EXTENDS Endpoints, Sequences, FiniteSets

VARIABLES
  wr,     \* seq, seq_xmit, the history cache and the key of every sample
  rn,     \* rn->seq for every matched reader, Unmatched for the others
  join,   \* ghost: wr->seq when the reader was matched
  hbs,    \* the heartbeats sent, as <<first, last>>
  gaps    \* the Gap messages sent

wrVars == <<wr, rn, join, hbs, gaps>>

Unmatched == -1

WrMatched == {rd \in Readers : rn[rd] # Unmatched}

\* rn->seq of a reader that is added when seq has been written: a best-effort reader
\* has acknowledged whatever will be written.
NewRn(rd, seq) == IF rd \in BestEffort THEN MaxSeqNumber ELSE seq

WrInit ==
  /\ wr = [seq |-> 0, xmit |-> 0, whc |-> {}, keys |-> <<>>]
  /\ rn = [rd \in Readers |-> IF rd \in Early THEN NewRn(rd, 0) ELSE Unmatched]
  /\ join = [rd \in Readers |-> 0]
  /\ hbs = {}
  /\ gaps = {}

----------------------------------------------------------------------------
(* Helpers *)

Least(S)    == CHOOSE x \in S : \A y \in S : x <= y
Greatest(S) == CHOOSE x \in S : \A y \in S : y <= x
Smaller(a, b) == IF a <= b THEN a ELSE b

\* ddsi_writer_max_drop_seq
MaxDropSeq(w, r) ==
  LET acked == {r[rd] : rd \in Readers} \ {Unmatched, MaxSeqNumber}
  IN  IF acked = {} THEN w.seq ELSE Least(acked)

HaveReliableSubs == WrMatched \ BestEffort # {}

\* whc_remove_acked_messages: a volatile writer keeps nothing that is acknowledged.
RemoveAcked(w, r) ==
  IF Durable THEN w ELSE [w EXCEPT !.whc = {s \in @ : s > MaxDropSeq(w, r)}]

\* What whc_insert pushes out.
Overwritten(k) == IF KeepLast1 THEN {s \in wr.whc : wr.keys[s] = k} ELSE {}

\* add_Heartbeat
HeartbeatRange(w) ==
  IF w.whc = {} THEN <<w.seq + 1, w.seq>>
  ELSE LET min == Least(w.whc)
       IN  <<min, IF w.xmit < w.seq /\ ~ Durable
                  THEN (IF w.xmit >= min THEN w.xmit ELSE min - 1)
                  ELSE w.seq>>

\* grow_gap_to_next_seq
GrowGap(w, end) ==
  LET later == {s \in w.whc : s >= end}
  IN  IF later = {} THEN w.xmit + 1
      ELSE IF Least(later) > w.xmit THEN w.xmit
      ELSE Least(later)

----------------------------------------------------------------------------
(* Operations *)

\* write_sample_eot and insert_sample_in_whc: the sample gets its number and enters
\* the history cache if somebody may still need it.
Write(k) ==
  LET s == wr.seq + 1
  IN  /\ s <= MaxSeq
      /\ wr' = [wr EXCEPT !.seq = s, !.keys = Append(@, k),
                          !.whc = IF HaveReliableSubs \/ Durable
                                  THEN (@ \ Overwritten(k)) \cup {s} ELSE @]
      /\ UNCHANGED <<rn, join, hbs, gaps>>

\* The packet with the next sample goes out (ddsi_writer_update_seq_xmit).
Transmit ==
  /\ wr.xmit < wr.seq
  /\ wr' = [wr EXCEPT !.xmit = @ + 1]
  /\ UNCHANGED <<rn, join, hbs, gaps>>

\* handle_xevk_heartbeat, the piggybacked heartbeat and force_heartbeat_to_peer.
SendHeartbeat ==
  /\ WrMatched # {}
  /\ hbs' = hbs \cup {HeartbeatRange(wr)}
  /\ UNCHANGED <<wr, rn, join, gaps>>

\* writer_add_connection
WriterAddConnection(rd) ==
  /\ rn[rd] = Unmatched
  /\ rn' = [rn EXCEPT ![rd] = NewRn(rd, wr.seq)]
  /\ join' = [join EXCEPT ![rd] = wr.seq]
  /\ UNCHANGED <<wr, hbs, gaps>>

\* writer_drop_connection
WriterDropConnection(rd) ==
  /\ rn[rd] # Unmatched
  /\ rn' = [rn EXCEPT ![rd] = Unmatched]
  /\ wr' = RemoveAcked(wr, rn')
  /\ UNCHANGED <<join, hbs, gaps>>

\* The numbers of a request that handle_AckNack answers with a Gap: the ones it no
\* longer has and, for a volatile reader, the ones the reader has acknowledged.
Lost(w, r, rd, base, bits) ==
  LET forAcked == rd \notin TlReaders /\ base <= r[rd]
  IN  {s \in bits : s <= w.xmit /\ (s \notin w.whc \/ (forAcked /\ s <= r[rd]))}

\* The Gap message: a first run, which may be extended to the next sample available,
\* and a bitmap; end - 1 is the last number it speaks about.
GapMessage(w, rd, lost, base, numbits) ==
  LET first  == Least(lost)
      endRun == Least({s + 1 : s \in lost} \ lost)
      end    == IF endRun = base + numbits THEN GrowGap(w, endRun) ELSE endRun
      bitmap == {s \in lost : s >= endRun}
  IN  [rd   |-> rd,
       miss |-> (first .. end - 1) \cup bitmap,
       end  |-> IF bitmap = {} THEN end ELSE Greatest(bitmap) + 1]

\* handle_AckNack: the acknowledgement first, then the requested retransmissions
\* (the network may deliver a transmitted sample any number of times) and the Gap.
HandleAckNack(rd, base, numbits, bits) ==
  LET r    == IF base - 1 > rn[rd] THEN [rn EXCEPT ![rd] = Smaller(base - 1, wr.seq)] ELSE rn
      w    == IF base - 1 > rn[rd] THEN RemoveAcked(wr, r) ELSE wr
      lost == Lost(w, r, rd, base, bits)
  IN  /\ rn[rd] # Unmatched
      /\ rn' = r
      /\ wr' = w
      /\ gaps' = IF lost = {} THEN gaps ELSE gaps \cup {GapMessage(w, rd, lost, base, numbits)}
      /\ hbs' = IF (\E s \in bits : s <= w.xmit) \/ (base = 1 /\ numbits = 0) THEN hbs \cup {HeartbeatRange(w)} ELSE hbs
      /\ UNCHANGED join
=============================================================================
