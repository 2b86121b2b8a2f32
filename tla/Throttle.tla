------------------------------ MODULE Throttle ------------------------------
(***************************************************************************)
(* One writer, from the DDS API down to its DDSI object: the write that    *)
(* blocks because too much is unacknowledged (throttle_writer), the wait   *)
(* for acknowledgements, and the deletion of the writer, with the linger   *)
(* time and the collector (dds_write.c, dds_writer.c, q_transmit.c,        *)
(* ddsi_endpoint.c).                                                       *)
(*                                                                         *)
(* A critical section of the writer's lock is one step: a wait on          *)
(* throttle_cond ends one.  Every sample counts for one byte, and all      *)
(* matched readers are reliable.  The handle is the pin of each call and   *)
(* the CLOSING flag; Handles has the rest of it.  The collector is a queue *)
(* of requests with the threads each still waits for; Gc has the rest.     *)
(***************************************************************************)
EXTENDS Integers, Sequences, FiniteSets

CONSTANTS
  App,          \* application threads
  Readers,      \* matched remote readers
  None,         \* no thread, no reader
  WhcLow,       \* whc_low
  HighMark,     \* whc_highwater_mark, the largest whc_high
  Adaptive,     \* config.whc_adaptive
  Blockings,    \* the values of max_blocking_time to consider: "finite", "infinite"
  MaxSeq,       \* bound: samples written
  MaxCalls      \* bound: calls of the application

ASSUME ThrottleAssumption ==
  /\ WhcLow \in Nat /\ HighMark \in Nat /\ WhcLow <= HighMark /\ Adaptive \in BOOLEAN
  /\ Blockings \subseteq {"finite", "infinite"}
  /\ MaxSeq \in Nat /\ MaxCalls \in Nat
  /\ None \notin App \cup Readers
  /\ IsFiniteSet(App) /\ App \cap {"recv", "disc", "tev", "gc"} = {}

VARIABLES
  wst,          \* wr->state
  seq,          \* wr->seq
  acked,        \* acked[r]: the seq of the match of reader r, Unmatched when it has none
  rexmit,       \* wr->retransmitting
  high,         \* wr->whc_high
  throttling,   \* wr->throttling
  freed,        \* the memory of the DDSI writer is freed
  hasWr,        \* m_wr of the DDS writer is not NULL
  mutex,        \* the thread that holds m_mutex of the DDS writer
  closing,      \* the handle of the DDS writer is closing
  linger,       \* the timed event that ends the linger time: "no", "scheduled", "done"
  gcq,          \* the collector's queue: callback, argument, threads it waits for
  thr,          \* thr[t]: the call application thread t is in
  svc,          \* svc[s]: what a service thread does
  left,         \* the readers whose proxy is no longer in the index
  calls,        \* calls the application may still make
  blocking      \* max_blocking_time

whcVars == <<seq, acked, rexmit, high>>
apiVars == <<mutex, closing, calls, hasWr>>
vars == <<wst, whcVars, throttling, freed, apiVars, linger, gcq, thr, svc, left, blocking>>

Services == {"recv", "disc", "tev"}
Unmatched == -1
AckedAll == MaxSeq + 1      \* MAX_SEQ_NUMBER

Idle == [pc |-> "idle", op |-> "none", ref |-> 0, rd |-> None, timeout |-> "finite"]
Quiet == [pc |-> "idle", rd |-> None, n |-> 0, nack |-> FALSE]

Init ==
  /\ wst = "operational" /\ seq = 0 /\ acked = [r \in Readers |-> 0]
  /\ rexmit = FALSE /\ high = HighMark /\ throttling = 0
  /\ freed = FALSE /\ hasWr = TRUE /\ mutex = None /\ closing = FALSE
  /\ linger = "no" /\ gcq = <<>> /\ calls = MaxCalls /\ blocking \in Blockings
  /\ thr = [t \in App |-> Idle] /\ svc = [s \in Services |-> Quiet]
  /\ left = {}
-----------------------------------------------------------------------------
(* What the code reads of the state *)

\* ddsi_writer_max_drop_seq over the matches a
MaxDrop(a) == LET m == {a[r] : r \in {x \in Readers : a[x] # Unmatched}} \cup {seq}
              IN  CHOOSE n \in m : \A k \in m : n <= k

\* whc_get_state: unacked_bytes
Unacked(a) == seq - MaxDrop(a)

\* writer_may_continue
MayContinue == (Unacked(acked) <= WhcLow /\ ~rexmit) \/ wst # "operational"

\* The condition on which wait_for_acks stops waiting, ref being the sequence number
\* at its start and rd the reader it asks about, if any.
AcksDone(c) ==
  \/ wst # "operational"
  \/ c.rd = None /\ c.ref <= MaxDrop(acked)
  \/ c.rd # None /\ (acked[c.rd] = Unmatched \/ c.ref <= acked[c.rd])

\* entidx_lookup_writer_guid: the entry goes together with the change to DELETING.
InIndex == wst # "deleting"

Pinned(t) == thr[t].pc \notin {"idle", "gone"}

\* Awake for the collector.  dds_write is awake twice, and sleeping once while it waits
\* leaves it awake; dds_writecdr and dds_forwardcdr are awake once.
AwakeAt(c) ==
  \/ c.pc \in {"write", "flush", "asleep", "interrupt", "close", "sched"}
  \/ c.pc \in {"blocked", "woken"} /\ c.op = "write"

Awake == {t \in App : AwakeAt(thr[t])} \cup {s \in Services : svc[s].pc # "idle"}
-----------------------------------------------------------------------------
(* What the steps do *)

\* Fault: a change of state or of the history wakes only those who wait in a write.
BroadcastToWrites(f) ==
  [t \in App |-> IF f[t].pc = "blocked" THEN [f[t] EXCEPT !.pc = "woken"] ELSE f[t]]

\* ddsrt_cond_broadcast (&wr->throttle_cond)
Broadcast(f) ==
  [t \in App |-> CASE f[t].pc = "blocked" -> [f[t] EXCEPT !.pc = "woken"]
                   [] f[t].pc = "ackwait" -> [f[t] EXCEPT !.pc = "ackwoken"]
                   [] OTHER -> f[t]]

Goto(t, pc) == [thr EXCEPT ![t].pc = pc]
Finished(pc) == [Idle EXCEPT !.pc = pc]

\* thread_state_asleep: no request waits for the thread any longer.
Asleep(q, t) == [i \in DOMAIN q |-> [q[i] EXCEPT !.wait = @ \ {t}]]

\* gcreq_new and gcreq_enqueue, by a thread that goes to sleep right after.
Enqueue(q, t, cb, arg) == Append(Asleep(q, t), [cb |-> cb, arg |-> arg, wait |-> Awake \ {t}])

\* gcreq_writer: which callback depends on whether a write is blocked.
GcreqWriter(q, t) ==
  Enqueue(q, t, IF throttling > 0 THEN "throttlewait" ELSE "writer", None)

\* ddsi_remove_acked_messages with matches a, where the flag is rx before: wakes
\* everybody, clears retransmitting and starts the deletion of a lingering writer
\* (delete_writer_nolinger_locked) when everything is acknowledged.
LastAck(a) == wst = "lingering" /\ Unacked(a) = 0

RemoveAcked(a, rx) ==
  /\ acked' = a
  /\ rexmit' = (rx /\ Unacked(a) # 0)
  /\ thr' = Broadcast(thr)
  /\ wst' = IF LastAck(a) THEN "deleting" ELSE wst

\* What that makes of the queue, by a thread that goes to sleep right after
QueueAfter(q, t, a) == IF LastAck(a) THEN GcreqWriter(q, t) ELSE Asleep(q, t)

\* ddsi_writer_set_retransmitting
LoweredHigh == IF Adaptive /\ high > WhcLow
               THEN IF (8 * high) \div 10 > WhcLow THEN (8 * high) \div 10 ELSE WhcLow
               ELSE high

\* maybe_grow_whc: the time since the last change decides, the step is an abstraction
\* of a 32nd of what is left, or all of it.
GrownHighs == {high} \cup (IF Adaptive /\ ~rexmit /\ Unacked(acked) > high
                           THEN (high + 1) .. HighMark ELSE {})
-----------------------------------------------------------------------------
(* dds_write, dds_writecdr, dds_forwardcdr *)

\* The writes whose sample may still come: MaxSeq bounds these too.
Writing == {t \in App : thr[t].pc \in {"lock", "write", "flush", "blocked", "woken"}}

\* dds_writer_lock: the handle is pinned first
WriteBegin(t, op) ==
  /\ thr[t].pc = "idle" /\ ~closing /\ calls > 0 /\ seq + Cardinality(Writing) < MaxSeq
  /\ calls' = calls - 1
  /\ thr' = [thr EXCEPT ![t] = [Idle EXCEPT !.pc = "lock", !.op = op]]
  /\ UNCHANGED <<wst, whcVars, throttling, freed, mutex, closing, hasWr, linger, gcq, svc, left, blocking>>

\* Fault: the write does not keep the mutex of the writer while it runs.
WriteWithoutLock(t) ==
  /\ thr[t].pc = "lock"
  /\ thr' = Goto(t, "write")
  /\ UNCHANGED <<wst, whcVars, throttling, freed, apiVars, linger, gcq, svc, left, blocking>>

\* m_mutex, held until the call returns; then awake
WriteLock(t) ==
  /\ thr[t].pc = "lock" /\ mutex = None
  /\ mutex' = t
  /\ thr' = Goto(t, "write")
  /\ UNCHANGED <<wst, whcVars, throttling, freed, closing, calls, hasWr, linger, gcq, svc, left, blocking>>

\* The end of write_sample_eot: a sample is stored and sent if the writer still operates.
Insert(t) ==
  /\ seq' = IF wst = "operational" THEN seq + 1 ELSE seq
  /\ UNCHANGED <<acked, rexmit>>

\* write_sample_eot up to the wait.  With too much unacknowledged the write sends out
\* what it has, without the lock, before it waits.
WriteSample(t) ==
  /\ thr[t].pc = "write"
  /\ \E h \in GrownHighs :
       /\ high' = h
       /\ \/ /\ Unacked(acked) <= h
             /\ Insert(t) /\ thr' = Goto(t, "asleep")
             /\ UNCHANGED throttling
          \/ /\ Unacked(acked) > h
             /\ throttling' = throttling + 1
             /\ thr' = Goto(t, "flush")
             /\ UNCHANGED <<seq, acked, rexmit>>
  /\ UNCHANGED <<wst, freed, apiVars, linger, gcq, svc, left, blocking>>

\* The end of throttle_writer: the thread goes on at pc; others may wait for the end.
EndThrottle(t, pc) ==
  LET f == Goto(t, pc)
  IN  /\ throttling' = throttling - 1
      /\ thr' = IF wst # "operational" THEN Broadcast(f) ELSE f

\* The loop of throttle_writer, at its start and after a wake-up, with the lock
ThrottleResume(t) ==
  /\ thr[t].pc \in {"flush", "woken"} /\ MayContinue
  /\ EndThrottle(t, "asleep") /\ Insert(t)
  /\ UNCHANGED <<wst, high, freed, apiVars, linger, gcq, svc, left, blocking>>

ThrottleWait(t) ==
  /\ thr[t].pc \in {"flush", "woken"} /\ ~MayContinue
  /\ thr' = Goto(t, "blocked")
  /\ gcq' = IF thr[t].op = "write" THEN gcq ELSE Asleep(gcq, t)
  /\ UNCHANGED <<wst, whcVars, throttling, freed, apiVars, linger, svc, left, blocking>>

\* The time is up, in the wait or before the next one
ThrottleTimeout(t) ==
  /\ blocking = "finite"
  /\ thr[t].pc = "blocked" \/ (thr[t].pc \in {"flush", "woken"} /\ ~MayContinue)
  /\ EndThrottle(t, "asleep")
  /\ UNCHANGED <<wst, whcVars, freed, apiVars, linger, gcq, svc, left, blocking>>

WriteAsleep(t) ==
  /\ thr[t].pc = "asleep"
  /\ thr' = [thr EXCEPT ![t] = Finished("unlock")] /\ gcq' = Asleep(gcq, t)
  /\ UNCHANGED <<wst, whcVars, throttling, freed, apiVars, linger, svc, left, blocking>>

\* dds_writer_unlock
WriteUnlock(t) ==
  /\ thr[t].pc = "unlock"
  /\ thr' = Goto(t, "unpin") /\ mutex' = None
  /\ UNCHANGED <<wst, whcVars, throttling, freed, closing, calls, hasWr, linger, gcq, svc, left, blocking>>

\* dds_entity_unpin, at the end of writes and of waits
Unpin(t) ==
  /\ thr[t].pc = "unpin"
  /\ thr' = [thr EXCEPT ![t] = Idle]
  /\ UNCHANGED <<wst, whcVars, throttling, freed, apiVars, linger, gcq, svc, left, blocking>>
-----------------------------------------------------------------------------
(* dds_wait_for_acks: pins the writer, does not lock it and is not awake *)

WaitBegin(t, rd, timeout) ==
  /\ thr[t].pc = "idle" /\ ~closing /\ calls > 0
  /\ calls' = calls - 1
  /\ thr' = [thr EXCEPT ![t] = [pc |-> "acks", op |-> "wait", ref |-> 0, rd |-> rd, timeout |-> timeout]]
  /\ UNCHANGED <<wst, whcVars, throttling, freed, mutex, closing, hasWr, linger, gcq, svc, left, blocking>>

\* ddsi_writer_wait_for_acks up to the wait
WaitEnter(t) ==
  /\ thr[t].pc = "acks"
  /\ LET c == [thr[t] EXCEPT !.ref = seq, !.pc = "ackwait"]
     IN  thr' = [thr EXCEPT ![t] = IF ~hasWr \/ AcksDone(c) THEN Finished("unpin") ELSE c]
  /\ UNCHANGED <<wst, whcVars, throttling, freed, apiVars, linger, gcq, svc, left, blocking>>

WaitWoken(t) ==
  /\ thr[t].pc = "ackwoken"
  /\ thr' = [thr EXCEPT ![t] = IF AcksDone(@) THEN Finished("unpin")
                               ELSE [@ EXCEPT !.pc = "ackwait"]]
  /\ UNCHANGED <<wst, whcVars, throttling, freed, apiVars, linger, gcq, svc, left, blocking>>

WaitTimeout(t) ==
  /\ thr[t].pc = "ackwait" /\ thr[t].timeout = "finite"
  /\ thr' = [thr EXCEPT ![t] = Finished("unpin")]
  /\ UNCHANGED <<wst, whcVars, throttling, freed, apiVars, linger, gcq, svc, left, blocking>>
-----------------------------------------------------------------------------
(* dds_delete of the writer *)

\* dds_entity_pin_for_delete sets CLOSING: one thread gets to delete
DeleteBegin(t) ==
  /\ thr[t].pc = "idle" /\ ~closing /\ calls > 0
  /\ calls' = calls - 1 /\ closing' = TRUE
  /\ thr' = [thr EXCEPT ![t] = [Idle EXCEPT !.pc = "dlock", !.op = "delete"]]
  /\ UNCHANGED <<wst, whcVars, throttling, freed, mutex, hasWr, linger, gcq, svc, left, blocking>>

\* dds_delete_impl_pinned takes m_mutex before it interrupts the writer
DeleteLock(t) ==
  /\ thr[t].pc = "dlock" /\ mutex = None
  /\ mutex' = t /\ thr' = Goto(t, "interrupt")
  /\ UNCHANGED <<wst, whcVars, throttling, freed, closing, calls, hasWr, linger, gcq, svc, left, blocking>>

\* dds_writer_interrupt: ddsi_unblock_throttled_writer, then m_mutex is released
DeleteInterrupt(t) ==
  /\ thr[t].pc = "interrupt"
  /\ wst' = "interrupt"
  /\ thr' = Broadcast(Goto(t, "closewait"))
  /\ mutex' = None /\ gcq' = Asleep(gcq, t)
  /\ UNCHANGED <<whcVars, throttling, freed, closing, calls, hasWr, linger, svc, left, blocking>>

\* Fault: the deletion does not wait for the calls that are still in progress.
DeleteClose(t) ==
  /\ thr[t].pc = "closewait"
  /\ thr' = Goto(t, "close")
  /\ UNCHANGED <<wst, whcVars, throttling, freed, apiVars, linger, gcq, svc, left, blocking>>

\* dds_handle_close_wait
DeleteCloseWait(t) ==
  /\ thr[t].pc = "closewait" /\ \A u \in App \ {t} : ~Pinned(u)
  /\ thr' = Goto(t, "close")
  /\ UNCHANGED <<wst, whcVars, throttling, freed, apiVars, linger, gcq, svc, left, blocking>>

\* dds_writer_close, ddsi_delete_writer: at once if everything is acknowledged, or
\* after the linger time; the event for that is scheduled after the lock is released.
DeleteWriter(t) ==
  /\ thr[t].pc = "close"
  /\ IF Unacked(acked) = 0
     THEN /\ wst' = "deleting" /\ thr' = Goto(t, "gone") /\ gcq' = GcreqWriter(gcq, t)
     ELSE /\ wst' = "lingering" /\ thr' = Goto(t, "sched") /\ UNCHANGED gcq
  /\ UNCHANGED <<whcVars, throttling, freed, apiVars, linger, svc, left, blocking>>

\* Fault: the writer lingers until the last acknowledgement, with no limit to the time.
LingerForAcks(t) ==
  /\ thr[t].pc = "sched"
  /\ thr' = Goto(t, "gone") /\ gcq' = Asleep(gcq, t)
  /\ UNCHANGED <<wst, whcVars, throttling, freed, apiVars, linger, svc, left, blocking>>

\* qxev_delete_writer
ScheduleLinger(t) ==
  /\ thr[t].pc = "sched"
  /\ linger' = "scheduled"
  /\ thr' = Goto(t, "gone") /\ gcq' = Asleep(gcq, t)
  /\ UNCHANGED <<wst, whcVars, throttling, freed, apiVars, svc, left, blocking>>

\* dds_writer_close waits for m_wr to become NULL; the DDS writer is freed afterwards.
DeleteGone(t) ==
  /\ thr[t].pc = "gone" /\ ~hasWr /\ mutex = None
  /\ thr' = [thr EXCEPT ![t] = Idle]
  /\ UNCHANGED <<wst, whcVars, throttling, freed, apiVars, linger, gcq, svc, left, blocking>>
-----------------------------------------------------------------------------
(* Service threads: each looks the writer up, awake, and then locks it *)

\* An AckNack of reader r arrives: all below n + 1 acknowledged, n + 1 requested if nack.
RecvLookup(r, n, nack) ==
  /\ svc["recv"].pc = "idle" /\ InIndex /\ r \notin left /\ n <= seq /\ (nack => n < seq)
  /\ svc' = [svc EXCEPT !["recv"] = [pc |-> "ack", rd |-> r, n |-> n, nack |-> nack]]
  /\ UNCHANGED <<wst, whcVars, throttling, freed, apiVars, linger, gcq, thr, left, blocking>>

\* handle_AckNack with the writer locked.  A reader that counted as having acknowledged
\* everything is taken to respond again.  A request for a sample that is not yet
\* acknowledged by all sets retransmitting.
RecvAckNack ==
  LET m == svc["recv"]
      old == acked[m.rd]
      new == old # Unmatched /\ m.n > old
      a == CASE new -> [acked EXCEPT ![m.rd] = m.n]
             [] old = AckedAll -> [acked EXCEPT ![m.rd] = seq]
             [] OTHER -> acked
      begins == old # Unmatched /\ m.nack /\ m.n + 1 > MaxDrop(a)
  IN  /\ m.pc = "ack"
      /\ high' = IF begins /\ ~rexmit THEN LoweredHigh ELSE high
      /\ \/ new /\ RemoveAcked(a, rexmit \/ begins) /\ gcq' = QueueAfter(gcq, "recv", a)
         \/ /\ ~new
            /\ acked' = a /\ rexmit' = (rexmit \/ begins)
            /\ gcq' = Asleep(gcq, "recv")
            /\ UNCHANGED <<wst, thr>>
      /\ svc' = [svc EXCEPT !["recv"] = Quiet]
      /\ UNCHANGED <<seq, throttling, freed, apiVars, linger, left, blocking>>

\* ddsi_delete_proxy_reader: the reader is out of the index, and finds the writer
DiscLookup(r) ==
  /\ svc["disc"].pc = "idle" /\ InIndex /\ r \notin left
  /\ left' = left \cup {r}
  /\ svc' = [svc EXCEPT !["disc"] = [Quiet EXCEPT !.pc = "ackall", !.rd = r]]
  /\ UNCHANGED <<wst, whcVars, throttling, freed, apiVars, linger, gcq, thr, blocking>>

\* proxy_reader_set_delete_and_ack_all_messages, and the request to free the reader
DiscAckAll ==
  LET r == svc["disc"].rd
      a == [acked EXCEPT ![r] = AckedAll]
  IN  /\ svc["disc"].pc = "ackall"
      /\ RemoveAcked(a, FALSE)
      /\ gcq' = Enqueue(QueueAfter(gcq, "disc", a), "disc", "reader", r)
      /\ svc' = [svc EXCEPT !["disc"] = Quiet]
      /\ UNCHANGED <<seq, high, throttling, freed, apiVars, linger, left, blocking>>

\* handle_xevk_delete_writer: ddsi_delete_writer_nolinger looks for the writer
TevLookup ==
  /\ linger = "scheduled" /\ svc["tev"].pc = "idle"
  /\ linger' = "done"
  /\ svc' = IF InIndex THEN [svc EXCEPT !["tev"].pc = "delete"] ELSE svc
  /\ UNCHANGED <<wst, whcVars, throttling, freed, apiVars, gcq, thr, left, blocking>>

\* delete_writer_nolinger_locked, unless the last acknowledgement was first
TevDelete ==
  /\ svc["tev"].pc = "delete"
  /\ IF wst = "deleting" THEN /\ gcq' = Asleep(gcq, "tev") /\ UNCHANGED <<wst, thr>>
     ELSE /\ wst' = "deleting" /\ gcq' = GcreqWriter(gcq, "tev")
          /\ thr' = IF wst = "operational" THEN Broadcast(thr) ELSE thr
  /\ svc' = [svc EXCEPT !["tev"] = Quiet]
  /\ UNCHANGED <<whcVars, throttling, freed, apiVars, linger, left, blocking>>

\* gc_delete_proxy_reader: writer_drop_connection
GcReader ==
  /\ gcq # <<>> /\ Head(gcq).wait = {} /\ Head(gcq).cb = "reader"
  /\ LET a == [acked EXCEPT ![Head(gcq).arg] = Unmatched]
     IN  \/ InIndex /\ RemoveAcked(a, rexmit) /\ gcq' = QueueAfter(Tail(gcq), "gc", a)
         \/ ~InIndex /\ gcq' = Tail(gcq) /\ UNCHANGED <<wst, acked, rexmit, thr>>
  /\ UNCHANGED <<seq, high, throttling, freed, apiVars, linger, svc, left, blocking>>

\* gc_delete_writer: tells the DDS writer, under m_mutex, and frees.  The other callback,
\* gc_delete_writer_throttlewait, is never chosen: ThrottledAlone.
GcWriter ==
  /\ gcq # <<>> /\ Head(gcq).wait = {} /\ Head(gcq).cb = "writer" /\ mutex = None
  /\ freed' = TRUE /\ hasWr' = FALSE /\ gcq' = Tail(gcq)
  /\ UNCHANGED <<wst, whcVars, throttling, mutex, closing, calls, linger, thr, svc, left, blocking>>
-----------------------------------------------------------------------------
\* The rest of a call an application thread is in
Step(t) ==
  \/ WriteLock(t) \/ WriteSample(t) \/ ThrottleResume(t) \/ ThrottleWait(t) \/ ThrottleTimeout(t)
  \/ WriteAsleep(t) \/ WriteUnlock(t) \/ Unpin(t)
  \/ WaitEnter(t) \/ WaitWoken(t) \/ WaitTimeout(t)
  \/ DeleteLock(t) \/ DeleteInterrupt(t) \/ DeleteCloseWait(t) \/ DeleteWriter(t)
  \/ ScheduleLinger(t) \/ DeleteGone(t)

Begin(t) ==
  \/ \E op \in {"write", "writecdr"} : WriteBegin(t, op)
  \/ \E rd \in Readers \cup {None}, timeout \in {"finite", "infinite"} : WaitBegin(t, rd, timeout)
  \/ DeleteBegin(t)

Environment ==
  \/ \E r \in Readers, n \in 0 .. MaxSeq, nack \in BOOLEAN : RecvLookup(r, n, nack)
  \/ \E r \in Readers : DiscLookup(r)

Tev == TevLookup \/ TevDelete
Collect == GcReader \/ GcWriter

Next == \/ \E t \in App : Begin(t) \/ Step(t)
        \/ Environment \/ RecvAckNack \/ DiscAckAll \/ Tev \/ Collect

Spec == Init /\ [][Next]_vars

\* Threads run on and timeouts end; nobody has to call, and no reader has to answer.
FairSpec ==
  /\ Spec
  /\ \A t \in App : WF_vars(Step(t))
  /\ WF_vars(RecvAckNack) /\ WF_vars(DiscAckAll) /\ WF_vars(Tev) /\ WF_vars(Collect)
-----------------------------------------------------------------------------
(* Properties *)

Busy(t) == thr[t].pc # "idle"

\* Whoever holds a pointer to the DDSI writer holds one to live memory: a write, awake or
\* asleep in its wait, a wait for acknowledgements that the collector knows nothing of,
\* and the threads that looked the writer up, while acknowledgement, linger time and
\* deletion race to start the collection (ddsi_endpoint.c:1080, q_transmit.c:1097).
NoUseAfterFree ==
  freed => /\ \A t \in App : thr[t].pc \in {"idle", "gone", "lock", "unlock", "unpin", "dlock"}
           /\ \A s \in Services : svc[s].pc = "idle"

\* Nobody sleeps on throttle_cond while what it waits for is true: each change of the
\* acknowledgements, of retransmitting and of the state wakes both kinds of waiters,
\* and each of them tests again what it needs (q_transmit.c:1088, ddsi_endpoint.c:1210).
NoLostWakeup ==
  \A t \in App : /\ thr[t].pc = "blocked" => ~MayContinue
                 /\ thr[t].pc = "ackwait" => ~AcksDone(thr[t])

\* At most one write is in throttle_writer, and none when the writer goes on to be
\* deleted: the assertions of throttle_writer, writer_set_state and gc_delete_writer
\* hold, and gc_delete_writer_throttlewait is never needed (q_transmit.c:1059,
\* ddsi_endpoint.c:1088, 1162, 1172).
ThrottledAlone ==
  /\ throttling = Cardinality({t \in App : thr[t].pc \in {"flush", "blocked", "woken"}})
  /\ throttling <= 1
  /\ wst \in {"lingering", "deleting"} => throttling = 0
  /\ \A t \in App : /\ thr[t].pc = "interrupt" => wst = "operational"
                    /\ thr[t].pc = "close" => wst = "interrupt"
  /\ \A i, j \in DOMAIN gcq : gcq[i].cb # "reader" /\ gcq[j].cb # "reader" => i = j

\* Every write and every deletion returns when the blocking time is finite or no reader
\* is left, and so does a wait for acknowledgements without a timeout once the writer is
\* being deleted, although readers need not answer (dds_entity.c:453, 466;
\* ddsi_endpoint.c:1185, 1305; ddsi_proxy_endpoint.c:766).
CallsReturn ==
  \A t \in App : (/\ Busy(t) /\ (thr[t].op # "wait" \/ closing)
                  /\ blocking = "finite" \/ left = Readers) ~> ~Busy(t)

\* Deleting a writer makes a write that is blocked in it return ("unblock
\* throttle_writer", ddsi_endpoint.h:51).
DeletionUnblocks ==
  \A t \in App : (thr[t].pc = "blocked" /\ closing) ~> thr[t].pc # "blocked"
=============================================================================
