----------------------------- MODULE Reliable -----------------------------
(***************************************************************************)
(* A reliable writer and the readers of one remote process, connected by a *)
(* network that loses, duplicates and reorders: whatever was sent may be   *)
(* received at any later time, any number of times, or never.              *)
(*                                                                         *)
(* Each side learns of a match by itself, so a reader is matched at the    *)
(* two ends at different times and in either order.                        *)
(***************************************************************************)
EXTENDS ProxyWriter, ReliableWriter

VARIABLES
  acks,     \* the AckNack messages sent
  left,     \* the readers that were deleted, or that this behaviour does without
  replaced  \* ghost: the samples pushed out of the history cache by newer ones

vars == <<pwrVars, wrVars, acks, left, setUp, replaced>>

Init ==
  /\ setUp \in SetUps
  /\ PwrInit /\ WrInit /\ acks = {} /\ replaced = {}
  /\ left = Readers \ Taking

----------------------------------------------------------------------------
(* The writer *)

WriterWrite ==
  \E k \in setUp.keys : /\ wr.seq < Samples
                  /\ Write(k)
                  /\ replaced' = replaced \cup Overwritten(k)
                  /\ UNCHANGED <<pwrVars, acks, left, setUp>>

WriterTransmit == Transmit /\ UNCHANGED <<pwrVars, acks, left, setUp, replaced>>

WriterHeartbeat == SendHeartbeat /\ UNCHANGED <<pwrVars, acks, left, setUp, replaced>>

ReceiveAckNack ==
  \E m \in acks : /\ HandleAckNack(m.rd, m.base, m.numbits, m.bits)
                  /\ UNCHANGED <<pwrVars, acks, left, setUp, replaced>>

(* The readers' process *)

ReceiveData ==
  \E s \in 1 .. wr.xmit, full \in IF MayFill THEN SUBSET Readers ELSE {{}} :
    HandleRegular(s, full) /\ UNCHANGED <<wrVars, acks, left, setUp, replaced>>

ReceiveHeartbeat ==
  \E h \in hbs : HandleHeartbeat(h[1], h[2]) /\ UNCHANGED <<wrVars, acks, left, setUp, replaced>>

ReceiveGap ==
  \E g \in gaps : HandleGap(g.rd, g.miss, g.end) /\ UNCHANGED <<wrVars, acks, left, setUp, replaced>>

DeliverNext == Deliver /\ UNCHANGED <<wrVars, acks, left, setUp, replaced>>

\* handle_xevk_acknack: pre-emptive until a heartbeat has been seen; after that the
\* acknowledgement and, unless it repeats a recent one, the request.
SendAckNack ==
  \E rd \in Matched \ BestEffort, nack \in BOOLEAN :
    LET info == NackInfo(rd)
        m == IF ~ pwr.seenHb THEN [rd |-> rd, base |-> 1, numbits |-> 0, bits |-> {}]
             ELSE IF nack THEN [rd |-> rd] @@ info
             ELSE [rd |-> rd, base |-> info.base, numbits |-> 0, bits |-> {}]
    IN  /\ m \in acks \/ Cardinality(acks) < MaxAcks
        /\ acks' = acks \cup {m}
        /\ UNCHANGED <<pwrVars, wrVars, left, setUp, replaced>>

(* Discovery *)

WriterMatches ==
  \E rd \in Readers \ left : WriterAddConnection(rd) /\ UNCHANGED <<pwrVars, acks, left, setUp, replaced>>

ReaderMatches ==
  \E rd \in Readers \ left : AddConnection(rd) /\ UNCHANGED <<wrVars, acks, left, setUp, replaced>>

ReaderLeaves ==
  \E rd \in Readers : /\ MayLeave /\ DropConnection(rd)
                      /\ left' = left \cup {rd}
                      /\ UNCHANGED <<wrVars, acks, setUp, replaced>>

WriterNotices ==
  \E rd \in left : WriterDropConnection(rd) /\ UNCHANGED <<pwrVars, acks, left, setUp, replaced>>

Next ==
  \/ WriterWrite \/ WriterTransmit \/ WriterHeartbeat \/ ReceiveAckNack
  \/ ReceiveData \/ ReceiveHeartbeat \/ ReceiveGap \/ DeliverNext \/ SendAckNack
  \/ WriterMatches \/ ReaderMatches \/ ReaderLeaves \/ WriterNotices

Spec == Init /\ [][Next]_vars

----------------------------------------------------------------------------
(* Properties *)

\* End-to-end reliability: what the writer takes as acknowledged by a reader, and
\* so may drop from its history, has reached that reader, but for samples the
\* writer's own history setting replaced by newer ones, and but for a reader that has
\* fallen behind while it caught up (see HistoryComplete). And no acknowledgement runs
\* ahead of what was written: handle_AckNack caps them to survive that.
AckedMeansReceived ==
  /\ \A rd \in (WrMatched \cap Matched) \ (BestEffort \cup behind) :
       \A s \in join[rd] + 1 .. rn[rd] : s \in Received(rd) \cup replaced
  /\ \A m \in acks : m.base <= wr.seq + 1

\* The samples the writer still holds, that the proxy writer will not ask for again
\* and that have not reached the reader.
Forgotten(rd) == {s \in 1 .. pwr.ro.next - 1 : s \in wr.whc} \ Received(rd)

\* "A transient-local reader should always get all historical data": when it is in
\* sync with its proxy writer, nothing is forgotten. There is one exception, and only
\* one: the comparison in maybe_set_reader_in_sync finds the two administrations waiting
\* for the same number while they hold different samples beyond it, so that the reader's
\* own one then falls behind the primary one while the reader is taken to be in step.
HistoryComplete ==
  \A rd \in TlReaders \ behind : match[rd].sync = "sync" => Forgotten(rd) = {}

\* With delivery in the receive thread no sample is stored twice in the history cache
\* of a reliable reader, although it comes to a reader that is catching up both with the
\* primary administration and with its own. (With the delivery thread it can, and to a
\* best-effort reader, whose own administration may run ahead of the primary one.)
StoredOnce == pwr.direct => \A rd \in Readers \ BestEffort : twice[rd] = {}
=============================================================================
