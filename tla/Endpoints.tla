----------------------------- MODULE Endpoints -----------------------------
(* The readers on the two sides of a reliable connection, shared by the     *)
(* modules of the sending and of the receiving end. The QoS of the writer   *)
(* and its readers, and what happens to them, is chosen in the initial      *)
(* state from a set of set-ups and stays.                                   *)
EXTENDS Integers

CONSTANTS
  Readers,  \* the readers of one process that may match the writer
  Keys,     \* the instances that may be written
  MaxSeq,   \* highest sequence number of the run: a bound
  SetUps    \* records of the fields below

ASSUME EndpointsAssumption ==
  /\ MaxSeq \in Nat
  /\ \A c \in SetUps :
       /\ c.readers \subseteq Readers /\ c.samples \in 1 .. MaxSeq
       /\ c.early \subseteq c.readers
       /\ c.tlReaders \subseteq c.readers
       /\ c.bestEffort \subseteq c.readers \ c.tlReaders
       /\ c.durable \in BOOLEAN /\ c.keepLast1 \in BOOLEAN /\ c.mayFill \in BOOLEAN /\ c.mayLeave \in BOOLEAN /\ c.maxAcks \in Nat
       /\ c.directModes \subseteq BOOLEAN
       /\ c.keys \subseteq Keys
       /\ ~ c.durable => c.tlReaders = {}  \* a volatile writer offers no durability to match

VARIABLE setUp

Taking      == setUp.readers      \* the readers that take part
Early       == setUp.early        \* the ones the writer has matched before it writes
MayLeave    == setUp.mayLeave     \* readers may be deleted
MaxAcks     == setUp.maxAcks      \* bound: how many different AckNack messages are sent
Samples     == setUp.samples      \* bound: how many samples are written
TlReaders   == setUp.tlReaders    \* the transient-local readers
BestEffort  == setUp.bestEffort   \* the best-effort ones
Durable     == setUp.durable      \* wr->handle_as_transient_local
KeepLast1   == setUp.keepLast1    \* history KEEP_LAST with depth 1, KEEP_ALL otherwise
MayFill     == setUp.mayFill      \* the delivery queue can reach delivery_queue_maxsamples
DirectModes == setUp.directModes  \* the values pwr->deliver_synchronously may have

MaxSeqNumber == MaxSeq + 1   \* MAX_SEQ_NUMBER: beyond every number in use
=============================================================================
