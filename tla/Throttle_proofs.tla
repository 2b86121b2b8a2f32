--------------------------- MODULE Throttle_proofs ---------------------------
(***************************************************************************)
(* Proofs about Throttle for any number of threads, readers, samples and   *)
(* calls and any water marks: the memory of the writer outlives its users, *)
(* no wake-up is lost, and a throttled write is alone.                     *)
(***************************************************************************)
EXTENDS Throttle, SequenceTheorems, FiniteSetTheorems, WellFoundedInduction, TLAPS

Pcs == {"idle", "lock", "write", "flush", "blocked", "woken", "asleep", "unlock", "unpin",
        "acks", "ackwait", "ackwoken", "dlock", "interrupt", "closewait", "close", "sched",
        "gone"}
Ops == {"none", "write", "writecdr", "wait", "delete"}
Locals == [pc : Pcs, op : Ops, ref : Nat, rd : Readers \cup {None},
           timeout : {"finite", "infinite"}]
SvcLocals == [pc : {"idle", "ack", "ackall", "delete"}, rd : Readers \cup {None},
              n : Nat, nack : BOOLEAN]
Acks == [Readers -> Nat \cup {Unmatched}]
Reqs == [cb : {"reader", "writer"}, arg : Readers \cup {None}, wait : SUBSET (App \cup Services)]

TypeOK ==
  /\ wst \in {"operational", "interrupt", "lingering", "deleting"}
  /\ seq \in Nat /\ acked \in Acks /\ rexmit \in BOOLEAN
  /\ high \in Nat /\ throttling \in Int
  /\ freed \in BOOLEAN /\ hasWr \in BOOLEAN /\ closing \in BOOLEAN
  /\ mutex \in App \cup {None} /\ linger \in {"no", "scheduled", "done"}
  /\ gcq \in Seq(Reqs)
  /\ thr \in [App -> Locals] /\ svc \in [Services -> SvcLocals]
  /\ left \subseteq Readers /\ calls \in Nat /\ blocking \in Blockings

\* What each service thread does, and to which reader.
Duties ==
  /\ svc["recv"].pc \in {"idle", "ack"} /\ svc["disc"].pc \in {"idle", "ackall"}
  /\ svc["tev"].pc \in {"idle", "delete"}
  /\ svc["recv"].pc = "ack" => svc["recv"].rd \in Readers
  /\ svc["disc"].pc = "ackall" => svc["disc"].rd \in Readers
  /\ svc["tev"].pc = "delete" => linger = "done"
  /\ \A i \in 1 .. Len(gcq) : gcq[i].cb = "reader" => gcq[i].arg \in Readers

\* A write, from dds_writer_lock to dds_writer_unlock, and the interrupt hold m_mutex.
LockedPcs == {"write", "flush", "blocked", "woken", "asleep", "unlock", "interrupt"}
Locked == \A t \in App : thr[t].pc \in LockedPcs => mutex = t

\* The counts of the threads in throttle_writer and of the samples to come.
Throttled == {t \in App : thr[t].pc \in {"flush", "blocked", "woken"}}
Counted == /\ throttling = Cardinality(Throttled)
           /\ seq + Cardinality(Writing) <= MaxSeq

\* A wait for acknowledgements asks about samples that were written.
Asked == \A t \in App : thr[t].pc \in {"ackwait", "ackwoken"} => thr[t].ref <= seq

\* One thread deletes, and the state of the writer follows it; by the time the writer
\* lingers or is deleted the pins have kept every other thread out.
Deletes(t) == thr[t].pc \in {"dlock", "interrupt", "closewait", "close", "sched", "gone"}
Ending == wst \in {"lingering", "deleting"}
Deletion ==
  /\ \A t \in App : Deletes(t) => closing /\ \A u \in App : Deletes(u) => u = t
  /\ wst # "operational" => closing
  /\ linger # "no" => Ending
  /\ \A t \in App :
       /\ thr[t].pc \in {"dlock", "interrupt"} => wst = "operational"
       /\ thr[t].pc \in {"closewait", "close"} => wst = "interrupt"
       /\ thr[t].pc \in {"sched", "gone"} => Ending
       /\ thr[t].pc = "sched" => linger = "no"
       /\ thr[t].pc = "close" => \A u \in App \ {t} : thr[u].pc = "idle"
       /\ Ending => thr[t].pc \in {"idle", "sched", "gone"}

\* There is one request to free the writer, made when it becomes DELETING, and it waits
\* for everybody who has looked the writer up.
Collection ==
  /\ freed => wst = "deleting"
  /\ freed => \A t \in App : thr[t].pc # "sched"
  /\ freed => \A s \in Services : svc[s].pc = "idle"
  /\ \A i \in 1 .. Len(gcq) : gcq[i].cb = "writer" =>
       /\ wst = "deleting" /\ ~freed
       /\ \A t \in App : thr[t].pc = "sched" => t \in gcq[i].wait
       /\ \A s \in Services : svc[s].pc # "idle" => s \in gcq[i].wait
  /\ \A i, j \in 1 .. Len(gcq) : gcq[i].cb = "writer" /\ gcq[j].cb = "writer" => i = j

Inv == TypeOK /\ Duties /\ Locked /\ Counted /\ Asked /\ Deletion /\ Collection /\ NoLostWakeup

USE DEF vars, whcVars, apiVars

LEMMA Apart ==
  /\ None \notin App /\ None \notin Readers
  /\ App \cap Services = {} /\ "gc" \notin App
  BY ThrottleAssumption DEF Services

LEMMA Bounds == MaxSeq \in Nat /\ WhcLow \in Nat /\ HighMark \in Nat
  BY ThrottleAssumption
-----------------------------------------------------------------------------
(* ddsi_writer_max_drop_seq *)

LEMMA LeastExists == ASSUME NEW S \in SUBSET Nat, S # {} PROVE \E n \in S : \A k \in S : n <= k
<1>1. PICK n \in S : \A k \in S : ~(<<k, n>> \in OpToRel(<, Nat))
  BY NatLessThanWellFounded, WFMin
<1>2. ASSUME NEW k \in S PROVE n <= k
  <2>1. ~(k < n)
    BY <1>1 DEF OpToRel
  <2>2. QED
    BY <2>1
<1>3. QED
  BY <1>2

\* MaxDrop as a function of the matches and the last sequence number
MinDrop(a, n) == LET m == {a[r] : r \in {x \in Readers : a[x] # Unmatched}} \cup {n}
                 IN  CHOOSE k \in m : \A j \in m : k <= j

LEMMA MaxDropIs == ASSUME NEW a PROVE MaxDrop(a) = MinDrop(a, seq)
  BY DEF MaxDrop, MinDrop

LEMMA MinDropLeast ==
  ASSUME NEW a \in Acks, NEW n \in Nat
  PROVE  /\ MinDrop(a, n) \in Nat /\ MinDrop(a, n) <= n
         /\ \A r \in Readers : a[r] # Unmatched => MinDrop(a, n) <= a[r]
         /\ \/ MinDrop(a, n) = n
            \/ \E r \in Readers : a[r] # Unmatched /\ MinDrop(a, n) = a[r]
<1> DEFINE m == {a[r] : r \in {x \in Readers : a[x] # Unmatched}} \cup {n}
<1>1. m \in SUBSET Nat /\ n \in m /\ m # {}
  BY DEF Acks, Unmatched
<1>2. \E k \in m : \A j \in m : k <= j
  <2> HIDE DEF m
  <2> QED
    BY <1>1, LeastExists
<1>3. MinDrop(a, n) = CHOOSE k \in m : \A j \in m : k <= j
  BY DEF MinDrop
<1>4. MinDrop(a, n) \in m /\ \A j \in m : MinDrop(a, n) <= j
  <2> HIDE DEF m
  <2> QED
    BY <1>2, <1>3
<1>5. QED
  BY <1>1, <1>4
-----------------------------------------------------------------------------
(* The queue of the collector *)

LEMMA AsleepQueue ==
  ASSUME NEW q \in Seq(Reqs), NEW x
  PROVE  /\ Asleep(q, x) \in Seq(Reqs) /\ Len(Asleep(q, x)) = Len(q) /\ Len(q) \in Nat
         /\ \A i \in 1 .. Len(q) : /\ Asleep(q, x)[i].cb = q[i].cb
                                   /\ Asleep(q, x)[i].arg = q[i].arg
                                   /\ Asleep(q, x)[i].wait = q[i].wait \ {x}
<1>1. Len(q) \in Nat /\ DOMAIN q = 1 .. Len(q) /\ \A i \in 1 .. Len(q) : q[i] \in Reqs
  BY LenProperties, ElementOfSeq
<1>2. Asleep(q, x) = [i \in 1 .. Len(q) |-> [q[i] EXCEPT !.wait = q[i].wait \ {x}]]
  BY <1>1 DEF Asleep
<1>3. \A i \in 1 .. Len(q) : [q[i] EXCEPT !.wait = q[i].wait \ {x}] \in Reqs
  BY <1>1 DEF Reqs
<1>4. Asleep(q, x) \in Seq(Reqs) /\ Len(Asleep(q, x)) = Len(q)
  BY <1>1, <1>2, <1>3, IsASeq, LenProperties
<1>5. QED
  BY <1>1, <1>2, <1>4 DEF Reqs

LEMMA AwakeThreads == ASSUME NEW x PROVE Awake \ {x} \in SUBSET (App \cup Services)
  BY DEF Awake

Enqueued(p, q, x, cb, arg) ==
  /\ p \in Seq(Reqs) /\ Len(p) = Len(q) + 1 /\ Len(q) \in Nat
  /\ \A i \in 1 .. Len(q) : /\ p[i].cb = q[i].cb /\ p[i].arg = q[i].arg
                            /\ p[i].wait = q[i].wait \ {x}
  /\ p[Len(q) + 1].cb = cb /\ p[Len(q) + 1].arg = arg /\ p[Len(q) + 1].wait = Awake \ {x}

LEMMA EnqueueQueue ==
  ASSUME NEW q \in Seq(Reqs), NEW x, NEW cb, NEW arg,
         cb \in {"reader", "writer"}, arg \in Readers \cup {None}
  PROVE  Enqueued(Enqueue(q, x, cb, arg), q, x, cb, arg)
<1> DEFINE e == [cb |-> cb, arg |-> arg, wait |-> Awake \ {x}]
           p == Enqueue(q, x, cb, arg)
<1>1. e \in Reqs /\ e.cb = cb /\ e.arg = arg /\ e.wait = Awake \ {x}
  BY AwakeThreads DEF Reqs
<1>2. p = Append(Asleep(q, x), e)
  BY DEF Enqueue
<1> HIDE DEF e, p
<1>3. /\ p \in Seq(Reqs) /\ Len(p) = Len(q) + 1
      /\ \A i \in 1 .. Len(q) : p[i] = Asleep(q, x)[i]
      /\ p[Len(q) + 1] = e
  BY <1>1, <1>2, AsleepQueue, AppendProperties
<1>4. Enqueued(p, q, x, cb, arg)
  BY <1>1, <1>3, AsleepQueue DEF Enqueued
<1>5. QED
  BY <1>4 DEF p
-----------------------------------------------------------------------------
(* What a step makes of the queue: From keeps the requests for the writer, d places
   further on and without waiting for x; Fresh holds the one that x has just made. *)

Args(q) == \A i \in 1 .. Len(q) : q[i].cb = "reader" => q[i].arg \in Readers
NoWriter(q) == \A i \in 1 .. Len(q) : q[i].cb # "writer"

From(p, q, x, d) ==
  /\ p \in Seq(Reqs) /\ Args(p)
  /\ \A i \in 1 .. Len(p) : p[i].cb = "writer" => /\ i + d \in 1 .. Len(q)
                                                  /\ q[i + d].cb = "writer"
                                                  /\ q[i + d].wait \ {x} \subseteq p[i].wait

Fresh(p, x) ==
  /\ p \in Seq(Reqs) /\ Args(p)
  /\ \A i \in 1 .. Len(p) : p[i].cb = "writer" => Awake \ {x} \subseteq p[i].wait
  /\ \A i, j \in 1 .. Len(p) : p[i].cb = "writer" /\ p[j].cb = "writer" => i = j

LEMMA FromSame == ASSUME NEW q \in Seq(Reqs), Args(q), NEW x PROVE From(q, q, x, 0)
<1>1. \A i \in 1 .. Len(q) : i \in Int /\ i + 0 = i
  OBVIOUS
<1>2. QED
  BY <1>1 DEF From

LEMMA FromAsleep ==
  ASSUME NEW q \in Seq(Reqs), Args(q), NEW x PROVE From(Asleep(q, x), q, x, 0)
<1> DEFINE p == Asleep(q, x)
<1>1. /\ p \in Seq(Reqs) /\ Len(p) = Len(q)
      /\ \A i \in 1 .. Len(q) : /\ i + 0 = i /\ p[i].cb = q[i].cb /\ p[i].arg = q[i].arg
                                /\ p[i].wait = q[i].wait \ {x}
  BY AsleepQueue
<1> HIDE DEF p
<1>2. QED
  <2>1. From(p, q, x, 0)
    BY <1>1 DEF From, Args
  <2>2. QED
    BY <2>1 DEF p

LEMMA FromEnqueue ==
  ASSUME NEW q \in Seq(Reqs), Args(q), NEW x, NEW r \in Readers
  PROVE  From(Enqueue(q, x, "reader", r), q, x, 0)
<1> DEFINE p == Enqueue(q, x, "reader", r)
<1>1. Enqueued(p, q, x, "reader", r)
  BY EnqueueQueue
<1> HIDE DEF p
<1>2. From(p, q, x, 0)
  <2>1. \A i \in 1 .. Len(q) : i + 0 = i
    OBVIOUS
  <2>2. QED
    BY <1>1, <2>1 DEF From, Args, Enqueued
<1>3. QED
  BY <1>2 DEF p

LEMMA FromTwice ==
  ASSUME NEW p, NEW q, NEW o, NEW x, From(p, q, x, 0), From(o, p, x, 0) PROVE From(o, q, x, 0)
<1>1. o \in Seq(Reqs) /\ Args(o)
  BY DEF From
<1>2. ASSUME NEW i \in 1 .. Len(o), o[i].cb = "writer"
      PROVE  /\ i + 0 \in 1 .. Len(q) /\ q[i + 0].cb = "writer"
             /\ q[i + 0].wait \ {x} \subseteq o[i].wait
  <2>1. i + 0 = i
    OBVIOUS
  <2>2. i \in 1 .. Len(p) /\ p[i].cb = "writer" /\ p[i].wait \ {x} \subseteq o[i].wait
    BY <1>2, <2>1 DEF From
  <2>3. i \in 1 .. Len(q) /\ q[i].cb = "writer" /\ q[i].wait \ {x} \subseteq p[i].wait
    BY <2>1, <2>2 DEF From
  <2>4. QED
    BY <2>1, <2>2, <2>3
<1>3. QED
  BY <1>1, <1>2 DEF From

LEMMA FromTail ==
  ASSUME NEW q \in Seq(Reqs), Args(q), q # <<>>, NEW x
  PROVE  From(Tail(q), q, x, 1) /\ From(Asleep(Tail(q), x), q, x, 1)
<1> DEFINE p == Tail(q)
<1>1. /\ p \in Seq(Reqs) /\ Len(p) = Len(q) - 1 /\ Len(q) \in Nat
      /\ \A i \in 1 .. Len(p) : i + 1 \in 1 .. Len(q) /\ p[i] = q[i + 1]
  BY HeadTailProperties, LenProperties, EmptySeq
<1>2. From(p, q, x, 1)
  BY <1>1 DEF From, Args
<1>3. From(Asleep(p, x), p, x, 0)
  BY <1>1, <1>2, FromAsleep DEF From
<1> HIDE DEF p
<1>4. From(Asleep(p, x), q, x, 1)
  <2>1. ASSUME NEW i \in 1 .. Len(Asleep(p, x)), Asleep(p, x)[i].cb = "writer"
        PROVE  /\ i + 1 \in 1 .. Len(q) /\ q[i + 1].cb = "writer"
               /\ q[i + 1].wait \ {x} \subseteq Asleep(p, x)[i].wait
    <3>1. i + 0 = i
      OBVIOUS
    <3>2. i \in 1 .. Len(p) /\ p[i].cb = "writer" /\ p[i].wait \ {x} \subseteq Asleep(p, x)[i].wait
      BY <1>3, <2>1, <3>1 DEF From
    <3>3. QED
      BY <1>2, <3>2 DEF From
  <2>2. QED
    BY <1>3, <2>1 DEF From
<1>5. QED
  BY <1>2, <1>4 DEF p

LEMMA FreshWriter ==
  ASSUME NEW q \in Seq(Reqs), Args(q), NoWriter(q), NEW x
  PROVE  Fresh(Enqueue(q, x, "writer", None), x)
<1> DEFINE p == Enqueue(q, x, "writer", None)
<1>1. Enqueued(p, q, x, "writer", None)
  BY EnqueueQueue
<1> HIDE DEF p
<1>2. \A i \in 1 .. Len(p) : i = Len(q) + 1 \/ (i \in 1 .. Len(q) /\ p[i].cb # "writer")
  BY <1>1 DEF NoWriter, Enqueued
<1>3. Fresh(p, x)
  BY <1>1, <1>2 DEF Fresh, Args, Enqueued
<1>4. QED
  BY <1>3 DEF p

LEMMA FreshReader ==
  ASSUME NEW q, NEW x, Fresh(q, x), NEW r \in Readers
  PROVE  Fresh(Enqueue(q, x, "reader", r), x)
<1> DEFINE p == Enqueue(q, x, "reader", r)
<1>1. Enqueued(p, q, x, "reader", r)
  BY EnqueueQueue DEF Fresh
<1> HIDE DEF p
<1>2. \A i \in 1 .. Len(p) : p[i].cb = "writer" =>
        i \in 1 .. Len(q) /\ q[i].cb = "writer" /\ Awake \ {x} \subseteq p[i].wait
  BY <1>1 DEF Fresh, Enqueued
<1>3. Args(p)
  BY <1>1 DEF Fresh, Args, Enqueued
<1>4. Fresh(p, x)
  BY <1>1, <1>2, <1>3 DEF Fresh, Enqueued
<1>5. QED
  BY <1>4 DEF p
-----------------------------------------------------------------------------
(* What a step does to the threads *)

Wake(pc) == CASE pc = "blocked" -> "woken" [] pc = "ackwait" -> "ackwoken" [] OTHER -> pc

\* Thread u stays where it is, or is woken up.
Stays(u) == /\ thr'[u].ref = thr[u].ref /\ thr'[u].rd = thr[u].rd
            /\ thr'[u].pc \in {thr[u].pc, Wake(thr[u].pc)}
Goes(t, pc) == /\ thr' \in [App -> Locals] /\ thr'[t].pc = pc
               /\ \A u \in App \ {t} : Stays(u)
Stir == thr' \in [App -> Locals] /\ \A u \in App : Stays(u)
NoneWaits == \A u \in App : thr[u].pc \notin {"blocked", "ackwait"}

LEMMA GotoGoes ==
  ASSUME TypeOK, NEW t \in App, NEW pc \in Pcs, thr' = Goto(t, pc) PROVE Goes(t, pc)
  BY DEF TypeOK, Locals, Goto, Goes, Stays

LEMMA SetGoes ==
  ASSUME TypeOK, NEW t \in App, NEW c \in Locals, thr' = [thr EXCEPT ![t] = c]
  PROVE  Goes(t, c.pc) /\ thr'[t] = c
  BY DEF TypeOK, Goes, Stays

LEMMA BroadcastIn ==
  ASSUME NEW f \in [App -> Locals]
  PROVE  /\ Broadcast(f) \in [App -> Locals]
         /\ \A u \in App : /\ Broadcast(f)[u].pc = Wake(f[u].pc)
                           /\ Broadcast(f)[u].ref = f[u].ref /\ Broadcast(f)[u].rd = f[u].rd
<1>1. ASSUME NEW u \in App
      PROVE  /\ Broadcast(f)[u] \in Locals /\ Broadcast(f)[u].pc = Wake(f[u].pc)
             /\ Broadcast(f)[u].ref = f[u].ref /\ Broadcast(f)[u].rd = f[u].rd
  <2>1. CASE f[u].pc = "blocked"
    BY <2>1 DEF Broadcast, Wake, Locals, Pcs
  <2>2. CASE f[u].pc = "ackwait"
    BY <2>2 DEF Broadcast, Wake, Locals, Pcs
  <2>3. CASE f[u].pc \notin {"blocked", "ackwait"}
    BY <2>3 DEF Broadcast, Wake, Locals, Pcs
  <2>4. QED
    BY <2>1, <2>2, <2>3
<1>2. QED
  BY <1>1 DEF Broadcast

LEMMA BroadcastStirs == ASSUME TypeOK, thr' = Broadcast(thr) PROVE Stir /\ NoneWaits'
<1>1. thr \in [App -> Locals]
  BY DEF TypeOK
<1>2. QED
  BY <1>1, BroadcastIn DEF Stir, Stays, NoneWaits, Wake

LEMMA BroadcastGoes ==
  ASSUME TypeOK, NEW t \in App, NEW pc \in Pcs, Wake(pc) = pc, thr' = Broadcast(Goto(t, pc))
  PROVE  Goes(t, pc) /\ NoneWaits'
<1> DEFINE f == Goto(t, pc)
<1>1. f \in [App -> Locals] /\ f[t].pc = pc /\ \A u \in App \ {t} : f[u] = thr[u]
  BY DEF TypeOK, Locals, Goto
<1>2. thr' = Broadcast(f)
  OBVIOUS
<1> HIDE DEF f
<1>3. QED
  BY <1>1, <1>2, BroadcastIn DEF Goes, Stays, NoneWaits, Wake

LEMMA EndThrottleGoes ==
  ASSUME TypeOK, NEW t \in App, EndThrottle(t, "asleep") PROVE Goes(t, "asleep")
<1>1. CASE wst # "operational"
  BY <1>1, BroadcastGoes DEF EndThrottle, Pcs, Wake
<1>2. CASE wst = "operational"
  BY <1>2, GotoGoes DEF EndThrottle, Pcs
<1>3. QED
  BY <1>1, <1>2

LEMMA WakeFacts == \A pc : /\ Wake(pc) \notin {"blocked", "ackwait"}
                           /\ Wake(pc) # pc => pc \in {"blocked", "ackwait"}
  BY DEF Wake
-----------------------------------------------------------------------------
(* The counts *)

One(b) == IF b THEN 1 ELSE 0

LEMMA CardChange ==
  ASSUME NEW S, IsFiniteSet(S), NEW T, NEW t, T \ {t} = S \ {t}
  PROVE  IsFiniteSet(T) /\ Cardinality(T) = Cardinality(S) - One(t \in S) + One(t \in T)
<1>1. IsFiniteSet(S \ {t}) /\ Cardinality(S) \in Nat /\ Cardinality(S \ {t}) \in Nat
  BY FS_RemoveElement, FS_CardinalityType
<1>2. Cardinality(S) = Cardinality(S \ {t}) + One(t \in S)
  BY <1>1, FS_RemoveElement DEF One
<1>3. IsFiniteSet(T) /\ Cardinality(T) = Cardinality(S \ {t}) + One(t \in T)
  <2>1. CASE t \in T
    <3>1. T = (S \ {t}) \cup {t}
      BY <2>1
    <3>2. QED
      BY <1>1, <2>1, <3>1, FS_AddElement DEF One
  <2>2. CASE t \notin T
    <3>1. T = S \ {t}
      BY <2>2
    <3>2. QED
      BY <1>1, <2>2, <3>1 DEF One
  <2>3. QED
    BY <2>1, <2>2
<1>4. QED
  BY <1>1, <1>2, <1>3 DEF One

LEMMA CountsFinite ==
  /\ IsFiniteSet(Throttled) /\ Cardinality(Throttled) \in Nat
  /\ IsFiniteSet(Writing) /\ Cardinality(Writing) \in Nat
<1>1. IsFiniteSet(App)
  BY ThrottleAssumption
<1>2. IsFiniteSet(Throttled) /\ IsFiniteSet(Writing)
  BY <1>1, FS_Subset DEF Throttled, Writing
<1>3. QED
  BY <1>2, FS_CardinalityType

ThrottledPcs == {"flush", "blocked", "woken"}
WritingPcs == {"lock", "write", "flush", "blocked", "woken"}

LEMMA GoesCounts ==
  ASSUME TypeOK, NEW t \in App, NEW pc \in Pcs, Goes(t, pc)
  PROVE  /\ Cardinality(Throttled') = Cardinality(Throttled) - One(thr[t].pc \in ThrottledPcs)
                                      + One(pc \in ThrottledPcs)
         /\ Cardinality(Writing') = Cardinality(Writing) - One(thr[t].pc \in WritingPcs)
                                    + One(pc \in WritingPcs)
         /\ Cardinality(Throttled) \in Nat /\ Cardinality(Writing) \in Nat
<1>1. \A u \in App \ {t} : /\ (thr'[u].pc \in ThrottledPcs <=> thr[u].pc \in ThrottledPcs)
                           /\ (thr'[u].pc \in WritingPcs <=> thr[u].pc \in WritingPcs)
  BY DEF Goes, Stays, Wake, ThrottledPcs, WritingPcs
<1>2. /\ Throttled' \ {t} = Throttled \ {t} /\ (t \in Throttled <=> thr[t].pc \in ThrottledPcs)
      /\ (t \in Throttled' <=> pc \in ThrottledPcs)
  BY <1>1 DEF Throttled, ThrottledPcs, Goes
<1>3. /\ Writing' \ {t} = Writing \ {t} /\ (t \in Writing <=> thr[t].pc \in WritingPcs)
      /\ (t \in Writing' <=> pc \in WritingPcs)
  BY <1>1 DEF Writing, WritingPcs, Goes
<1>4. Cardinality(Throttled') =
        Cardinality(Throttled) - One(t \in Throttled) + One(t \in Throttled')
  BY <1>2, CountsFinite, CardChange
<1>5. Cardinality(Writing') = Cardinality(Writing) - One(t \in Writing) + One(t \in Writing')
  BY <1>3, CountsFinite, CardChange
<1>6. QED
  BY <1>2, <1>3, <1>4, <1>5, CountsFinite DEF One

LEMMA StirCounts ==
  ASSUME TypeOK, Stir, Counted, UNCHANGED <<seq, throttling>> PROVE Counted'
<1>1. \A u \in App : /\ (thr'[u].pc \in ThrottledPcs <=> thr[u].pc \in ThrottledPcs)
                     /\ (thr'[u].pc \in WritingPcs <=> thr[u].pc \in WritingPcs)
  BY DEF Stir, Stays, Wake, ThrottledPcs, WritingPcs
<1>2. Throttled' = Throttled
  BY <1>1 DEF Throttled, ThrottledPcs
<1>3. Writing' = Writing
  BY <1>1 DEF Writing, WritingPcs
<1>4. QED
  BY <1>2, <1>3 DEF Counted
-----------------------------------------------------------------------------
(* Parts of the invariant that many steps keep in the same way *)

LEMMA NoWriterYet ==
  ASSUME Collection, wst # "deleting" PROVE NoWriter(gcq) /\ ~freed
  BY DEF Collection, NoWriter

LEMMA CollectionKept ==
  ASSUME Collection, NEW x, NEW d \in {0, 1}, From(gcq', gcq, x, d), UNCHANGED <<freed, wst>>,
         \A t \in App : thr'[t].pc = "sched" => thr[t].pc = "sched" /\ t # x,
         \A s \in Services : svc'[s].pc # "idle" => svc[s].pc # "idle" /\ s # x
  PROVE  Collection'
<1>1. \A i \in 1 .. Len(gcq') : gcq'[i].cb = "writer" =>
        /\ i + d \in 1 .. Len(gcq) /\ gcq[i + d].cb = "writer"
        /\ gcq[i + d].wait \ {x} \subseteq gcq'[i].wait
  BY DEF From
<1>2. ASSUME NEW i \in 1 .. Len(gcq'), gcq'[i].cb = "writer"
      PROVE  /\ wst' = "deleting" /\ ~freed'
             /\ \A t \in App : thr'[t].pc = "sched" => t \in gcq'[i].wait
             /\ \A s \in Services : svc'[s].pc # "idle" => s \in gcq'[i].wait
  BY <1>1, <1>2 DEF Collection
<1>3. \A i, j \in 1 .. Len(gcq') : gcq'[i].cb = "writer" /\ gcq'[j].cb = "writer" => i = j
  BY <1>1 DEF Collection
<1>4. freed' => /\ wst' = "deleting" /\ \A t \in App : thr'[t].pc # "sched"
                /\ \A s \in Services : svc'[s].pc = "idle"
  BY DEF Collection
<1>5. QED
  BY <1>2, <1>3, <1>4 DEF Collection

LEMMA CollectionOpen ==
  ASSUME Collection, wst # "deleting", NEW x, NEW d \in {0, 1}, From(gcq', gcq, x, d),
         UNCHANGED freed
  PROVE  Collection'
<1>1. \A i \in 1 .. Len(gcq') : gcq'[i].cb # "writer"
  BY NoWriterYet DEF From, NoWriter
<1>2. ~freed'
  BY NoWriterYet
<1>3. QED
  BY <1>1, <1>2 DEF Collection

LEMMA CollectionFresh ==
  ASSUME Collection, wst # "deleting", wst' = "deleting", NEW x, Fresh(gcq', x), UNCHANGED freed,
         \A t \in App : thr'[t].pc = "sched" => t \in Awake /\ t # x,
         \A s \in Services : svc'[s].pc # "idle" => s \in Awake /\ s # x
  PROVE  Collection'
<1>1. ~freed'
  BY NoWriterYet
<1>2. QED
  BY <1>1 DEF Collection, Fresh

LEMMA WakeupFrame ==
  ASSUME TypeOK, NoLostWakeup, UNCHANGED <<seq, acked, rexmit, wst>>, NEW t \in App, NEW pc,
         Goes(t, pc), pc \notin {"blocked", "ackwait"}
  PROVE  NoLostWakeup'
<1>1. MaxDrop(acked)' = MaxDrop(acked)
  BY DEF MaxDrop
<1>2. MayContinue' <=> MayContinue
  BY <1>1 DEF MayContinue, Unacked
<1>3. ASSUME NEW u \in App PROVE /\ thr'[u].pc = "blocked" => ~MayContinue'
                                 /\ thr'[u].pc = "ackwait" => ~AcksDone(thr[u])'
  <2>1. CASE u = t
    BY <2>1 DEF Goes
  <2>2. CASE u # t
    <3>1. /\ thr'[u].pc = "blocked" => thr[u].pc = "blocked"
          /\ thr'[u].pc = "ackwait" => thr[u].pc = "ackwait"
          /\ thr'[u].ref = thr[u].ref /\ thr'[u].rd = thr[u].rd
      BY <2>2, WakeFacts DEF Goes, Stays
    <3>2. AcksDone(thr[u])' <=> AcksDone(thr[u])
      BY <1>1, <3>1 DEF AcksDone
    <3>3. QED
      BY <1>2, <3>1, <3>2 DEF NoLostWakeup
  <2>3. QED
    BY <2>1, <2>2
<1>4. QED
  BY <1>3 DEF NoLostWakeup

\* A sample that is stored is no reason to wake anybody: no write is blocked, and those
\* who wait for acknowledgements asked about earlier ones.
LEMMA WakeupInsert ==
  ASSUME TypeOK, Locked, Asked, NoLostWakeup, NEW t \in App, NEW pc, Goes(t, pc),
         thr[t].pc \in LockedPcs, pc \notin {"blocked", "ackwait"},
         UNCHANGED <<acked, rexmit, wst>>, seq' \in {seq, seq + 1}
  PROVE  NoLostWakeup'
<1>1. ASSUME NEW u \in App PROVE /\ thr'[u].pc = "blocked" => ~MayContinue'
                                 /\ thr'[u].pc = "ackwait" => ~AcksDone(thr[u])'
  <2>1. CASE u = t
    BY <2>1 DEF Goes
  <2>2. CASE u # t
    <3>1. /\ thr'[u].pc = "blocked" => thr[u].pc = "blocked"
          /\ thr'[u].pc = "ackwait" => thr[u].pc = "ackwait"
          /\ thr'[u].ref = thr[u].ref /\ thr'[u].rd = thr[u].rd
      BY <2>2, WakeFacts DEF Goes, Stays
    <3>2. thr[u].pc # "blocked"
      BY <2>2 DEF Locked, LockedPcs
    <3>3. ASSUME thr[u].pc = "ackwait" PROVE ~AcksDone(thr[u])'
      <4>1. ~AcksDone(thr[u]) /\ thr[u].ref <= seq /\ thr[u].ref \in Nat
        BY <3>3 DEF NoLostWakeup, Asked, TypeOK, Locals
      <4>2. acked \in Acks /\ seq \in Nat /\ seq' \in Nat
        BY DEF TypeOK
      <4>3. MaxDrop(acked) = MinDrop(acked, seq) /\ MaxDrop(acked)' = MinDrop(acked, seq')
        BY DEF MaxDrop, MinDrop
      <4>4. /\ MinDrop(acked, seq) \in Nat
            /\ MinDrop(acked, seq) = seq
               \/ \E r \in Readers : acked[r] # Unmatched /\ MinDrop(acked, seq) = acked[r]
        BY <4>2, MinDropLeast
      <4>5. /\ MinDrop(acked, seq') \in Nat
            /\ \A r \in Readers : acked[r] # Unmatched => MinDrop(acked, seq') <= acked[r]
        BY <4>2, MinDropLeast
      <4>6. ~(thr[u].ref <= MinDrop(acked, seq)) => ~(thr[u].ref <= MinDrop(acked, seq'))
        BY <4>1, <4>2, <4>4, <4>5
      <4>7. QED
        BY <3>1, <4>1, <4>3, <4>6 DEF AcksDone
    <3>4. QED
      BY <3>1, <3>2, <3>3
  <2>3. QED
    BY <2>1, <2>2
<1>2. QED
  BY <1>1 DEF NoLostWakeup

LEMMA HighsNat ==
  ASSUME TypeOK PROVE GrownHighs \subseteq Nat /\ LoweredHigh \in Nat
<1>1. high \in Nat
  BY DEF TypeOK
<1>2. GrownHighs \subseteq Nat
  BY <1>1, Bounds DEF GrownHighs
<1>3. LoweredHigh \in Nat
  BY <1>1, Bounds DEF LoweredHigh
<1>4. QED
  BY <1>2, <1>3

LEMMA StirFrame ==
  ASSUME TypeOK, Locked, Counted, Asked, Stir, UNCHANGED <<mutex, seq, throttling>>
  PROVE  Locked' /\ Counted' /\ Asked'
<1>1. Locked'
  BY DEF Locked, LockedPcs, Stir, Stays, Wake
<1>2. Asked'
  BY DEF Asked, Stir, Stays, Wake
<1>3. QED
  BY <1>1, <1>2, StirCounts

LEMMA StirDeletion ==
  ASSUME Deletion, Stir, UNCHANGED closing, wst' = wst \/ (Ending /\ Ending'),
         linger' = linger \/ (linger # "no" /\ linger' # "no")
  PROVE  Deletion'
  BY DEF Deletion, Deletes, Ending, Stir, Stays, Wake

LEMMA SameStirs == ASSUME TypeOK, UNCHANGED thr PROVE Stir
  BY DEF TypeOK, Stir, Stays

LEMMA EndingUnthrottled == ASSUME Counted, Deletion, Ending PROVE throttling = 0
<1>1. Throttled = {}
  BY DEF Throttled, Deletion
<1>2. QED
  BY <1>1, FS_EmptySet DEF Counted

\* What ddsi_remove_acked_messages makes of the queue
LEMMA QueueAfterShape ==
  ASSUME Counted, Deletion, Collection, NEW q \in Seq(Reqs), Args(q), NEW x, NEW a,
         wst # "deleting" => NoWriter(q)
  PROVE  /\ LastAck(a) => wst = "lingering" /\ Fresh(QueueAfter(q, x, a), x)
         /\ ~LastAck(a) => QueueAfter(q, x, a) = Asleep(q, x)
<1>1. ASSUME LastAck(a) PROVE wst = "lingering" /\ Fresh(QueueAfter(q, x, a), x)
  <2>1. wst = "lingering"
    BY <1>1 DEF LastAck
  <2>2. throttling = 0
    BY <2>1, EndingUnthrottled DEF Ending
  <2>3. QueueAfter(q, x, a) = Enqueue(q, x, "writer", None)
    BY <1>1, <2>2 DEF QueueAfter, GcreqWriter
  <2>4. QED
    BY <2>1, <2>3, FreshWriter
<1>2. QED
  BY <1>1 DEF QueueAfter

\* An AckNack that acknowledges nothing new gives nobody a reason to go on.
LEMMA WakeupNack ==
  ASSUME TypeOK, Counted, Asked, NoLostWakeup, UNCHANGED <<thr, seq, wst>>, rexmit => rexmit',
         acked' \in Acks,
         \/ acked' = acked
         \/ \E r \in Readers : acked[r] = AckedAll /\ acked' = [acked EXCEPT ![r] = seq]
  PROVE  NoLostWakeup'
<1>1. acked \in Acks /\ seq \in Nat /\ MaxSeq \in Nat /\ thr \in [App -> Locals]
  BY Bounds DEF TypeOK
<1>2. seq < AckedAll /\ AckedAll \in Nat
  BY <1>1, CountsFinite DEF Counted, AckedAll
<1>3. MaxDrop(acked) = MinDrop(acked, seq) /\ MaxDrop(acked)' = MinDrop(acked', seq)
  BY DEF MaxDrop, MinDrop
<1>4. /\ MinDrop(acked, seq) \in Nat
      /\ MinDrop(acked, seq) = seq
         \/ \E r \in Readers : acked[r] # Unmatched /\ MinDrop(acked, seq) = acked[r]
  BY <1>1, MinDropLeast
<1>5. /\ MinDrop(acked', seq) \in Nat /\ MinDrop(acked', seq) <= seq
      /\ \A r \in Readers : acked'[r] # Unmatched => MinDrop(acked', seq) <= acked'[r]
  BY <1>1, MinDropLeast
<1>6. MinDrop(acked', seq) <= MinDrop(acked, seq)
  <2>1. CASE MinDrop(acked, seq) = seq
    BY <1>5, <2>1
  <2>2. ASSUME NEW r \in Readers, acked[r] # Unmatched, MinDrop(acked, seq) = acked[r]
        PROVE  MinDrop(acked', seq) <= MinDrop(acked, seq)
    <3>1. CASE acked'[r] = acked[r]
      BY <1>5, <2>2, <3>1
    <3>2. CASE acked'[r] # acked[r]
      <4>1. acked[r] = AckedAll
        BY <1>1, <3>2 DEF Acks
      <4>2. QED
        BY <1>1, <1>2, <1>5, <2>2, <4>1
    <3>3. QED
      BY <3>1, <3>2
  <2>3. QED
    BY <1>4, <2>1, <2>2
<1>7. ~MayContinue => ~MayContinue'
  <2>1. Unacked(acked) <= Unacked(acked)' /\ Unacked(acked) \in Int /\ Unacked(acked)' \in Int
    BY <1>1, <1>3, <1>4, <1>5, <1>6 DEF Unacked
  <2>2. Unacked(acked)' <= WhcLow => Unacked(acked) <= WhcLow
    BY <2>1, Bounds
  <2>3. QED
    BY <2>2 DEF MayContinue
<1>8. ASSUME NEW t \in App, thr[t].pc = "ackwait" PROVE ~AcksDone(thr[t])'
  <2>1. /\ ~AcksDone(thr[t]) /\ thr[t].ref <= seq /\ thr[t].ref \in Nat
        /\ thr[t].rd \in Readers \cup {None}
    BY <1>1, <1>8 DEF NoLostWakeup, Asked, Locals
  <2>2. thr[t].rd \in Readers => acked'[thr[t].rd] = acked[thr[t].rd] \/ acked[thr[t].rd] = AckedAll
    BY <1>1 DEF Acks
  <2>3. acked[thr[t].rd] = AckedAll => thr[t].ref <= acked[thr[t].rd]
    BY <1>1, <1>2, <2>1
  <2>4. ~(thr[t].ref <= MinDrop(acked, seq)) => ~(thr[t].ref <= MinDrop(acked', seq))
    BY <1>4, <1>5, <1>6, <2>1
  <2>5. QED
    BY <1>3, <2>1, <2>2, <2>3, <2>4 DEF AcksDone
<1>9. QED
  BY <1>7, <1>8 DEF NoLostWakeup

\* Steps of a call that does not delete the writer
LEMMA OtherDeletion ==
  ASSUME Deletion, NEW t \in App, NEW pc, Goes(t, pc), UNCHANGED <<wst, closing, linger>>,
         thr[t].pc \notin {"dlock", "interrupt", "closewait", "close", "sched", "gone"},
         pc \notin {"dlock", "interrupt", "closewait", "close", "sched", "gone"},
         thr[t].pc = "idle" => ~closing
  PROVE  Deletion'
<1>1. ~Ending /\ \A u \in App : thr[u].pc # "close"
  BY DEF Deletion, Deletes, Ending
<1>2. \A u \in App : Deletes(u)' => thr'[u].pc = thr[u].pc /\ Deletes(u)
  BY DEF Goes, Stays, Wake, Deletes
<1>3. QED
  BY <1>1, <1>2 DEF Deletion, Ending, Deletes

LEMMA GoesAsked ==
  ASSUME TypeOK, Asked, NEW t \in App, NEW pc, Goes(t, pc), pc \notin {"ackwait", "ackwoken"},
         seq' \in {seq, seq + 1}
  PROVE  Asked'
<1>1. ASSUME NEW u \in App, thr'[u].pc \in {"ackwait", "ackwoken"} PROVE thr'[u].ref <= seq'
  <2>1. u # t /\ thr'[u].ref = thr[u].ref
    BY <1>1 DEF Goes, Stays
  <2>2. thr[u].pc \in {"ackwait", "ackwoken"}
    BY <1>1, <2>1 DEF Goes, Stays, Wake
  <2>3. thr[u].ref \in Nat /\ seq \in Nat /\ thr[u].ref <= seq
    BY <2>2 DEF TypeOK, Locals, Asked
  <2>4. QED
    BY <2>1, <2>3
<1>2. QED
  BY <1>1 DEF Asked
-----------------------------------------------------------------------------
LEMMA NextInv == ASSUME Inv, [Next]_vars PROVE Inv'
<1> /\ TypeOK /\ Duties /\ Locked /\ Counted /\ Asked /\ Deletion /\ Collection /\ NoLostWakeup
  BY DEF Inv
<1> gcq \in Seq(Reqs) /\ Args(gcq)
  BY DEF TypeOK, Duties, Args
<1>1. ASSUME NEW t \in App, NEW op \in {"write", "writecdr"}, WriteBegin(t, op) PROVE Inv'
  <2> DEFINE c == [Idle EXCEPT !.pc = "lock", !.op = op]
  <2>a. c \in Locals /\ c.pc = "lock"
    BY DEF Idle, Locals, Pcs, Ops
  <2>b. thr' = [thr EXCEPT ![t] = c]
    BY <1>1 DEF WriteBegin
  <2> HIDE DEF c
  <2>0. Goes(t, "lock")
    BY <2>a, <2>b, SetGoes
  <2>1. From(gcq', gcq, "gc", 0)
    BY <1>1, FromSame DEF WriteBegin
  <2>2. TypeOK'
    BY <1>1, <2>0, <2>1 DEF WriteBegin, TypeOK, Goes, From
  <2>3. Duties'
    BY <1>1, <2>1 DEF WriteBegin, Duties, From, Args
  <2>4. Locked'
    BY <1>1, <2>0 DEF WriteBegin, Locked, LockedPcs, Goes, Stays, Wake
  <2>5. Counted'
    <3>1. CASE Goes(t, "lock")
      <4>1. Cardinality(Throttled') = Cardinality(Throttled)
        BY <1>1, <3>1, GoesCounts DEF WriteBegin, Pcs, ThrottledPcs, One
      <4>2. Cardinality(Writing') = Cardinality(Writing) + 1
        BY <1>1, <3>1, GoesCounts DEF WriteBegin, Pcs, WritingPcs, One
      <4>3. QED
        BY <1>1, <2>0, <3>1, <4>1, <4>2, CountsFinite, Bounds DEF WriteBegin, Counted, TypeOK
    <3>2. QED
      BY <2>0, <3>1
  <2>6. Asked'
    BY <1>1, <2>0 DEF WriteBegin, Asked, Goes, Stays, Wake, TypeOK, Locals
  <2>7. Deletion'
    BY <1>1, <2>0, OtherDeletion DEF WriteBegin
  <2>8. Collection'
    <3>1. \A u \in App : thr'[u].pc = "sched" => thr[u].pc = "sched" /\ u # "gc"
      BY <1>1, <2>0, Apart DEF WriteBegin, Goes, Stays, Wake
    <3>2. \A s \in Services : s # "gc"
      BY Apart DEF Services
    <3>3. UNCHANGED <<freed, wst, svc>>
      BY <1>1 DEF WriteBegin
    <3>4. QED
      BY <2>1, <3>1, <3>2, <3>3, CollectionKept
  <2>9. NoLostWakeup'
    BY <1>1, <2>0, WakeupFrame DEF WriteBegin
  <2>10. QED
    BY <2>2, <2>3, <2>4, <2>5, <2>6, <2>7, <2>8, <2>9 DEF Inv
<1>2. ASSUME NEW t \in App, NEW rd \in Readers \cup {None}, NEW timeout \in {"finite",
    "infinite"}, WaitBegin(t, rd, timeout) PROVE Inv'
  <2>0. Goes(t, "acks")
    BY <1>2, SetGoes DEF WaitBegin, Idle, Finished, Locals, Pcs, Ops
  <2>1. From(gcq', gcq, "gc", 0)
    BY <1>2, FromSame DEF WaitBegin
  <2>2. TypeOK'
    BY <1>2, <2>0, <2>1 DEF WaitBegin, TypeOK, Goes, From
  <2>3. Duties'
    BY <1>2, <2>1 DEF WaitBegin, Duties, From, Args
  <2>4. Locked'
    BY <1>2, <2>0 DEF WaitBegin, Locked, LockedPcs, Goes, Stays, Wake
  <2>5. Counted'
    BY <1>2, <2>0, GoesCounts DEF WaitBegin, Counted, Pcs, ThrottledPcs, WritingPcs, One, TypeOK
  <2>6. Asked'
    BY <1>2, <2>0 DEF WaitBegin, Asked, Goes, Stays, Wake, TypeOK, Locals
  <2>7. Deletion'
    BY <1>2, <2>0, OtherDeletion DEF WaitBegin
  <2>8. Collection'
    <3>1. \A u \in App : thr'[u].pc = "sched" => thr[u].pc = "sched" /\ u # "gc"
      BY <1>2, <2>0, Apart DEF WaitBegin, Goes, Stays, Wake
    <3>2. \A s \in Services : s # "gc"
      BY Apart DEF Services
    <3>3. UNCHANGED <<freed, wst, svc>>
      BY <1>2 DEF WaitBegin
    <3>4. QED
      BY <2>1, <3>1, <3>2, <3>3, CollectionKept
  <2>9. NoLostWakeup'
    BY <1>2, <2>0, WakeupFrame DEF WaitBegin
  <2>10. QED
    BY <2>2, <2>3, <2>4, <2>5, <2>6, <2>7, <2>8, <2>9 DEF Inv
<1>3. ASSUME NEW t \in App, DeleteBegin(t) PROVE Inv'
  <2> DEFINE c == [Idle EXCEPT !.pc = "dlock", !.op = "delete"]
  <2>a. c \in Locals /\ c.pc = "dlock"
    BY DEF Idle, Locals, Pcs, Ops
  <2>b. thr' = [thr EXCEPT ![t] = c]
    BY <1>3 DEF DeleteBegin
  <2> HIDE DEF c
  <2>0. Goes(t, "dlock")
    BY <2>a, <2>b, SetGoes
  <2>1. From(gcq', gcq, "gc", 0)
    BY <1>3, FromSame DEF DeleteBegin
  <2>2. TypeOK'
    BY <1>3, <2>0, <2>1 DEF DeleteBegin, TypeOK, Goes, From
  <2>3. Duties'
    BY <1>3, <2>1 DEF DeleteBegin, Duties, From, Args
  <2>4. Locked'
    BY <1>3, <2>0 DEF DeleteBegin, Locked, LockedPcs, Goes, Stays, Wake
  <2>5. Counted'
    BY <1>3, <2>0, GoesCounts DEF DeleteBegin, Counted, Pcs, ThrottledPcs, WritingPcs, One, TypeOK
  <2>6. Asked'
    BY <1>3, <2>0 DEF DeleteBegin, Asked, Goes, Stays, Wake, TypeOK, Locals
  <2>7. Deletion'
    BY <1>3, <2>0 DEF DeleteBegin, Deletion, Deletes, Ending, Goes, Stays, Wake
  <2>8. Collection'
    <3>1. \A u \in App : thr'[u].pc = "sched" => thr[u].pc = "sched" /\ u # "gc"
      BY <1>3, <2>0, Apart DEF DeleteBegin, Goes, Stays, Wake
    <3>2. \A s \in Services : s # "gc"
      BY Apart DEF Services
    <3>3. UNCHANGED <<freed, wst, svc>>
      BY <1>3 DEF DeleteBegin
    <3>4. QED
      BY <2>1, <3>1, <3>2, <3>3, CollectionKept
  <2>9. NoLostWakeup'
    BY <1>3, <2>0, WakeupFrame DEF DeleteBegin
  <2>10. QED
    BY <2>2, <2>3, <2>4, <2>5, <2>6, <2>7, <2>8, <2>9 DEF Inv
<1>4. ASSUME NEW t \in App, WriteLock(t) PROVE Inv'
  <2>0. Goes(t, "write")
    BY <1>4, GotoGoes DEF WriteLock, Pcs
  <2>1. From(gcq', gcq, "gc", 0)
    BY <1>4, FromSame DEF WriteLock
  <2>2. TypeOK'
    BY <1>4, <2>0, <2>1 DEF WriteLock, TypeOK, Goes, From
  <2>3. Duties'
    BY <1>4, <2>1 DEF WriteLock, Duties, From, Args
  <2>4. Locked'
    BY <1>4, <2>0, Apart DEF WriteLock, Locked, LockedPcs, Goes, Stays, Wake
  <2>5. Counted'
    BY <1>4, <2>0, GoesCounts DEF WriteLock, Counted, Pcs, ThrottledPcs, WritingPcs, One, TypeOK
  <2>6. Asked'
    BY <1>4, <2>0 DEF WriteLock, Asked, Goes, Stays, Wake, TypeOK, Locals
  <2>7. Deletion'
    BY <1>4, <2>0, OtherDeletion DEF WriteLock
  <2>8. Collection'
    <3>1. \A u \in App : thr'[u].pc = "sched" => thr[u].pc = "sched" /\ u # "gc"
      BY <1>4, <2>0, Apart DEF WriteLock, Goes, Stays, Wake
    <3>2. \A s \in Services : s # "gc"
      BY Apart DEF Services
    <3>3. UNCHANGED <<freed, wst, svc>>
      BY <1>4 DEF WriteLock
    <3>4. QED
      BY <2>1, <3>1, <3>2, <3>3, CollectionKept
  <2>9. NoLostWakeup'
    BY <1>4, <2>0, WakeupFrame DEF WriteLock
  <2>10. QED
    BY <2>2, <2>3, <2>4, <2>5, <2>6, <2>7, <2>8, <2>9 DEF Inv
<1>5. ASSUME NEW t \in App, WriteSample(t) PROVE Inv'
  <2>0. \/ Goes(t, "asleep") /\ throttling' = throttling /\ seq' \in {seq, seq + 1}
        \/ Goes(t, "flush") /\ throttling' = throttling + 1 /\ seq' = seq
    BY <1>5, GotoGoes DEF WriteSample, Insert, Pcs
  <2>1. From(gcq', gcq, "gc", 0)
    BY <1>5, FromSame DEF WriteSample
  <2>2. TypeOK'
    BY <1>5, <2>0, <2>1, HighsNat DEF WriteSample, Insert, TypeOK, Goes, From
  <2>3. Duties'
    BY <1>5, <2>1 DEF WriteSample, Duties, From, Args
  <2>4. Locked'
    BY <1>5, <2>0 DEF WriteSample, Locked, LockedPcs, Goes, Stays, Wake
  <2>5. Counted'
    <3>1. CASE Goes(t, "asleep") /\ throttling' = throttling /\ seq' \in {seq, seq + 1}
      <4>1. Cardinality(Throttled') = Cardinality(Throttled)
        BY <1>5, <3>1, GoesCounts DEF WriteSample, Pcs, ThrottledPcs, One
      <4>2. Cardinality(Writing') = Cardinality(Writing) - 1
        BY <1>5, <3>1, GoesCounts DEF WriteSample, Pcs, WritingPcs, One
      <4>3. QED
        BY <1>5, <2>0, <3>1, <4>1, <4>2, CountsFinite, Bounds DEF WriteSample, Counted, TypeOK
    <3>2. CASE Goes(t, "flush") /\ throttling' = throttling + 1 /\ seq' = seq
      <4>1. Cardinality(Throttled') = Cardinality(Throttled) + 1
        BY <1>5, <3>2, GoesCounts DEF WriteSample, Pcs, ThrottledPcs, One
      <4>2. Cardinality(Writing') = Cardinality(Writing)
        BY <1>5, <3>2, GoesCounts DEF WriteSample, Pcs, WritingPcs, One
      <4>3. QED
        BY <1>5, <2>0, <3>2, <4>1, <4>2, CountsFinite, Bounds DEF WriteSample, Counted, TypeOK
    <3>3. QED
      BY <2>0, <3>1, <3>2
  <2>6. Asked'
    BY <2>0, GoesAsked
  <2>7. Deletion'
    BY <1>5, <2>0, OtherDeletion DEF WriteSample
  <2>8. Collection'
    <3>1. \A u \in App : thr'[u].pc = "sched" => thr[u].pc = "sched" /\ u # "gc"
      BY <1>5, <2>0, Apart DEF WriteSample, Goes, Stays, Wake
    <3>2. \A s \in Services : s # "gc"
      BY Apart DEF Services
    <3>3. UNCHANGED <<freed, wst, svc>>
      BY <1>5 DEF WriteSample
    <3>4. QED
      BY <2>1, <3>1, <3>2, <3>3, CollectionKept
  <2>9. NoLostWakeup'
    BY <1>5, <2>0, WakeupInsert DEF WriteSample, Insert, LockedPcs
  <2>10. QED
    BY <2>2, <2>3, <2>4, <2>5, <2>6, <2>7, <2>8, <2>9 DEF Inv
<1>6. ASSUME NEW t \in App, ThrottleResume(t) PROVE Inv'
  <2>0. Goes(t, "asleep") /\ throttling' = throttling - 1 /\ seq' \in {seq, seq + 1}
    BY <1>6, EndThrottleGoes DEF ThrottleResume, EndThrottle, Insert
  <2>1. From(gcq', gcq, "gc", 0)
    BY <1>6, FromSame DEF ThrottleResume
  <2>2. TypeOK'
    BY <1>6, <2>0, <2>1 DEF ThrottleResume, Insert, TypeOK, Goes, From
  <2>3. Duties'
    BY <1>6, <2>1 DEF ThrottleResume, Duties, From, Args
  <2>4. Locked'
    BY <1>6, <2>0 DEF ThrottleResume, Locked, LockedPcs, Goes, Stays, Wake
  <2>5. Counted'
    <3>1. CASE Goes(t, "asleep")
      <4>1. Cardinality(Throttled') = Cardinality(Throttled) - 1
        BY <1>6, <3>1, GoesCounts DEF ThrottleResume, Pcs, ThrottledPcs, One
      <4>2. Cardinality(Writing') = Cardinality(Writing) - 1
        BY <1>6, <3>1, GoesCounts DEF ThrottleResume, Pcs, WritingPcs, One
      <4>3. QED
        BY <1>6, <2>0, <3>1, <4>1, <4>2, CountsFinite, Bounds DEF ThrottleResume, Counted, TypeOK
    <3>2. QED
      BY <2>0, <3>1
  <2>6. Asked'
    BY <2>0, GoesAsked
  <2>7. Deletion'
    BY <1>6, <2>0, OtherDeletion DEF ThrottleResume
  <2>8. Collection'
    <3>1. \A u \in App : thr'[u].pc = "sched" => thr[u].pc = "sched" /\ u # "gc"
      BY <1>6, <2>0, Apart DEF ThrottleResume, Goes, Stays, Wake
    <3>2. \A s \in Services : s # "gc"
      BY Apart DEF Services
    <3>3. UNCHANGED <<freed, wst, svc>>
      BY <1>6 DEF ThrottleResume
    <3>4. QED
      BY <2>1, <3>1, <3>2, <3>3, CollectionKept
  <2>9. NoLostWakeup'
    BY <1>6, <2>0, WakeupInsert DEF ThrottleResume, Insert, LockedPcs
  <2>10. QED
    BY <2>2, <2>3, <2>4, <2>5, <2>6, <2>7, <2>8, <2>9 DEF Inv
<1>7. ASSUME NEW t \in App, ThrottleWait(t) PROVE Inv'
  <2>0. Goes(t, "blocked")
    BY <1>7, GotoGoes DEF ThrottleWait, Pcs
  <2>1. From(gcq', gcq, t, 0)
    BY <1>7, FromAsleep, FromSame DEF ThrottleWait
  <2>2. TypeOK'
    BY <1>7, <2>0, <2>1 DEF ThrottleWait, TypeOK, Goes, From
  <2>3. Duties'
    BY <1>7, <2>1 DEF ThrottleWait, Duties, From, Args
  <2>4. Locked'
    BY <1>7, <2>0 DEF ThrottleWait, Locked, LockedPcs, Goes, Stays, Wake
  <2>5. Counted'
    BY <1>7, <2>0, GoesCounts DEF ThrottleWait, Counted, Pcs, ThrottledPcs, WritingPcs, One,
        TypeOK
  <2>6. Asked'
    BY <1>7, <2>0 DEF ThrottleWait, Asked, Goes, Stays, Wake, TypeOK, Locals
  <2>7. Deletion'
    BY <1>7, <2>0, OtherDeletion DEF ThrottleWait
  <2>8. Collection'
    <3>1. \A u \in App : thr'[u].pc = "sched" => thr[u].pc = "sched" /\ u # t
      BY <1>7, <2>0, Apart DEF ThrottleWait, Goes, Stays, Wake
    <3>2. \A s \in Services : s # t
      BY Apart DEF Services
    <3>3. UNCHANGED <<freed, wst, svc>>
      BY <1>7 DEF ThrottleWait
    <3>4. QED
      BY <2>1, <3>1, <3>2, <3>3, CollectionKept
  <2>9. NoLostWakeup'
    <3>1. MaxDrop(acked)' = MaxDrop(acked) /\ UNCHANGED <<wst, seq, acked, rexmit>>
      BY <1>7 DEF ThrottleWait, MaxDrop
    <3>2. ~MayContinue /\ ~MayContinue'
      BY <1>7, <3>1 DEF ThrottleWait, MayContinue, Unacked
    <3>3. ASSUME NEW u \in App, thr'[u].pc = "ackwait" PROVE ~AcksDone(thr[u])'
      <4>1. thr[u].pc = "ackwait" /\ thr'[u].ref = thr[u].ref /\ thr'[u].rd = thr[u].rd
        BY <2>0, <3>3, WakeFacts DEF Goes, Stays
      <4>2. QED
        BY <3>1, <4>1 DEF NoLostWakeup, AcksDone
    <3>4. QED
      BY <3>2, <3>3 DEF NoLostWakeup
  <2>10. QED
    BY <2>2, <2>3, <2>4, <2>5, <2>6, <2>7, <2>8, <2>9 DEF Inv
<1>8. ASSUME NEW t \in App, ThrottleTimeout(t) PROVE Inv'
  <2>0. Goes(t, "asleep") /\ throttling' = throttling - 1
    BY <1>8, EndThrottleGoes DEF ThrottleTimeout, EndThrottle
  <2>1. From(gcq', gcq, "gc", 0)
    BY <1>8, FromSame DEF ThrottleTimeout
  <2>2. TypeOK'
    BY <1>8, <2>0, <2>1 DEF ThrottleTimeout, TypeOK, Goes, From
  <2>3. Duties'
    BY <1>8, <2>1 DEF ThrottleTimeout, Duties, From, Args
  <2>4. Locked'
    BY <1>8, <2>0 DEF ThrottleTimeout, Locked, LockedPcs, Goes, Stays, Wake
  <2>5. Counted'
    <3>1. CASE Goes(t, "asleep")
      <4>1. Cardinality(Throttled') = Cardinality(Throttled) - 1
        BY <1>8, <3>1, GoesCounts DEF ThrottleTimeout, Pcs, ThrottledPcs, One
      <4>2. Cardinality(Writing') = Cardinality(Writing) - 1
        BY <1>8, <3>1, GoesCounts DEF ThrottleTimeout, Pcs, WritingPcs, One
      <4>3. QED
        BY <1>8, <2>0, <3>1, <4>1, <4>2, CountsFinite, Bounds DEF ThrottleTimeout, Counted, TypeOK
    <3>2. QED
      BY <2>0, <3>1
  <2>6. Asked'
    BY <1>8, <2>0 DEF ThrottleTimeout, Asked, Goes, Stays, Wake, TypeOK, Locals
  <2>7. Deletion'
    BY <1>8, <2>0, OtherDeletion DEF ThrottleTimeout
  <2>8. Collection'
    <3>1. \A u \in App : thr'[u].pc = "sched" => thr[u].pc = "sched" /\ u # "gc"
      BY <1>8, <2>0, Apart DEF ThrottleTimeout, Goes, Stays, Wake
    <3>2. \A s \in Services : s # "gc"
      BY Apart DEF Services
    <3>3. UNCHANGED <<freed, wst, svc>>
      BY <1>8 DEF ThrottleTimeout
    <3>4. QED
      BY <2>1, <3>1, <3>2, <3>3, CollectionKept
  <2>9. NoLostWakeup'
    BY <1>8, <2>0, WakeupFrame DEF ThrottleTimeout
  <2>10. QED
    BY <2>2, <2>3, <2>4, <2>5, <2>6, <2>7, <2>8, <2>9 DEF Inv
<1>9. ASSUME NEW t \in App, WriteAsleep(t) PROVE Inv'
  <2>0. Goes(t, "unlock")
    BY <1>9, SetGoes DEF WriteAsleep, Idle, Finished, Locals, Pcs, Ops
  <2>1. From(gcq', gcq, t, 0)
    BY <1>9, FromAsleep DEF WriteAsleep
  <2>2. TypeOK'
    BY <1>9, <2>0, <2>1 DEF WriteAsleep, TypeOK, Goes, From
  <2>3. Duties'
    BY <1>9, <2>1 DEF WriteAsleep, Duties, From, Args
  <2>4. Locked'
    BY <1>9, <2>0 DEF WriteAsleep, Locked, LockedPcs, Goes, Stays, Wake
  <2>5. Counted'
    BY <1>9, <2>0, GoesCounts DEF WriteAsleep, Counted, Pcs, ThrottledPcs, WritingPcs, One, TypeOK
  <2>6. Asked'
    BY <1>9, <2>0 DEF WriteAsleep, Asked, Goes, Stays, Wake, TypeOK, Locals
  <2>7. Deletion'
    BY <1>9, <2>0, OtherDeletion DEF WriteAsleep
  <2>8. Collection'
    <3>1. \A u \in App : thr'[u].pc = "sched" => thr[u].pc = "sched" /\ u # t
      BY <1>9, <2>0, Apart DEF WriteAsleep, Goes, Stays, Wake
    <3>2. \A s \in Services : s # t
      BY Apart DEF Services
    <3>3. UNCHANGED <<freed, wst, svc>>
      BY <1>9 DEF WriteAsleep
    <3>4. QED
      BY <2>1, <3>1, <3>2, <3>3, CollectionKept
  <2>9. NoLostWakeup'
    BY <1>9, <2>0, WakeupFrame DEF WriteAsleep
  <2>10. QED
    BY <2>2, <2>3, <2>4, <2>5, <2>6, <2>7, <2>8, <2>9 DEF Inv
<1>10. ASSUME NEW t \in App, WriteUnlock(t) PROVE Inv'
  <2>0. Goes(t, "unpin")
    BY <1>10, GotoGoes DEF WriteUnlock, Pcs
  <2>1. From(gcq', gcq, "gc", 0)
    BY <1>10, FromSame DEF WriteUnlock
  <2>2. TypeOK'
    BY <1>10, <2>0, <2>1 DEF WriteUnlock, TypeOK, Goes, From
  <2>3. Duties'
    BY <1>10, <2>1 DEF WriteUnlock, Duties, From, Args
  <2>4. Locked'
    BY <1>10, <2>0 DEF WriteUnlock, Locked, LockedPcs, Goes, Stays, Wake
  <2>5. Counted'
    BY <1>10, <2>0, GoesCounts DEF WriteUnlock, Counted, Pcs, ThrottledPcs, WritingPcs, One,
        TypeOK
  <2>6. Asked'
    BY <1>10, <2>0 DEF WriteUnlock, Asked, Goes, Stays, Wake, TypeOK, Locals
  <2>7. Deletion'
    BY <1>10, <2>0, OtherDeletion DEF WriteUnlock
  <2>8. Collection'
    <3>1. \A u \in App : thr'[u].pc = "sched" => thr[u].pc = "sched" /\ u # "gc"
      BY <1>10, <2>0, Apart DEF WriteUnlock, Goes, Stays, Wake
    <3>2. \A s \in Services : s # "gc"
      BY Apart DEF Services
    <3>3. UNCHANGED <<freed, wst, svc>>
      BY <1>10 DEF WriteUnlock
    <3>4. QED
      BY <2>1, <3>1, <3>2, <3>3, CollectionKept
  <2>9. NoLostWakeup'
    BY <1>10, <2>0, WakeupFrame DEF WriteUnlock
  <2>10. QED
    BY <2>2, <2>3, <2>4, <2>5, <2>6, <2>7, <2>8, <2>9 DEF Inv
<1>11. ASSUME NEW t \in App, Unpin(t) PROVE Inv'
  <2>0. Goes(t, "idle")
    BY <1>11, SetGoes DEF Unpin, Idle, Finished, Locals, Pcs, Ops
  <2>1. From(gcq', gcq, "gc", 0)
    BY <1>11, FromSame DEF Unpin
  <2>2. TypeOK'
    BY <1>11, <2>0, <2>1 DEF Unpin, TypeOK, Goes, From
  <2>3. Duties'
    BY <1>11, <2>1 DEF Unpin, Duties, From, Args
  <2>4. Locked'
    BY <1>11, <2>0 DEF Unpin, Locked, LockedPcs, Goes, Stays, Wake
  <2>5. Counted'
    BY <1>11, <2>0, GoesCounts DEF Unpin, Counted, Pcs, ThrottledPcs, WritingPcs, One, TypeOK
  <2>6. Asked'
    BY <1>11, <2>0 DEF Unpin, Asked, Goes, Stays, Wake, TypeOK, Locals
  <2>7. Deletion'
    BY <1>11, <2>0, OtherDeletion DEF Unpin
  <2>8. Collection'
    <3>1. \A u \in App : thr'[u].pc = "sched" => thr[u].pc = "sched" /\ u # "gc"
      BY <1>11, <2>0, Apart DEF Unpin, Goes, Stays, Wake
    <3>2. \A s \in Services : s # "gc"
      BY Apart DEF Services
    <3>3. UNCHANGED <<freed, wst, svc>>
      BY <1>11 DEF Unpin
    <3>4. QED
      BY <2>1, <3>1, <3>2, <3>3, CollectionKept
  <2>9. NoLostWakeup'
    BY <1>11, <2>0, WakeupFrame DEF Unpin
  <2>10. QED
    BY <2>2, <2>3, <2>4, <2>5, <2>6, <2>7, <2>8, <2>9 DEF Inv
<1>12. ASSUME NEW t \in App, WaitEnter(t) PROVE Inv'
  <2> DEFINE c == [thr[t] EXCEPT !.ref = seq, !.pc = "ackwait"]
  <2>a. c \in Locals /\ c.pc = "ackwait" /\ c.ref = seq /\ Finished("unpin") \in Locals
    BY DEF TypeOK, Locals, Pcs, Ops, Finished, Idle
  <2>b. \/ thr' = [thr EXCEPT ![t] = Finished("unpin")]
        \/ thr' = [thr EXCEPT ![t] = c] /\ ~AcksDone(c)
    BY <1>12 DEF WaitEnter
  <2> HIDE DEF c
  <2>0. \/ Goes(t, "unpin")
        \/ Goes(t, "ackwait") /\ thr'[t].ref = seq /\ ~AcksDone(thr'[t])
    BY <2>a, <2>b, SetGoes DEF Finished, Idle
  <2>1. From(gcq', gcq, "gc", 0)
    BY <1>12, FromSame DEF WaitEnter
  <2>2. TypeOK'
    BY <1>12, <2>0, <2>1 DEF WaitEnter, TypeOK, Goes, From
  <2>3. Duties'
    BY <1>12, <2>1 DEF WaitEnter, Duties, From, Args
  <2>4. Locked'
    BY <1>12, <2>0 DEF WaitEnter, Locked, LockedPcs, Goes, Stays, Wake
  <2>5. Counted'
    BY <1>12, <2>0, GoesCounts DEF WaitEnter, Counted, Pcs, ThrottledPcs, WritingPcs, One, TypeOK
  <2>6. Asked'
    BY <1>12, <2>0 DEF WaitEnter, Asked, Goes, Stays, Wake, TypeOK, Locals
  <2>7. Deletion'
    BY <1>12, <2>0, OtherDeletion DEF WaitEnter
  <2>8. Collection'
    <3>1. \A u \in App : thr'[u].pc = "sched" => thr[u].pc = "sched" /\ u # "gc"
      BY <1>12, <2>0, Apart DEF WaitEnter, Goes, Stays, Wake
    <3>2. \A s \in Services : s # "gc"
      BY Apart DEF Services
    <3>3. UNCHANGED <<freed, wst, svc>>
      BY <1>12 DEF WaitEnter
    <3>4. QED
      BY <2>1, <3>1, <3>2, <3>3, CollectionKept
  <2>9. NoLostWakeup'
    <3>1. MaxDrop(acked)' = MaxDrop(acked) /\ UNCHANGED <<wst, seq, acked, rexmit>>
      BY <1>12 DEF WaitEnter, MaxDrop
    <3>2. CASE Goes(t, "unpin")
      BY <3>1, <3>2, WakeupFrame
    <3>3. CASE Goes(t, "ackwait") /\ ~AcksDone(thr'[t])
      <4>1. ~AcksDone(thr[t])'
        BY <3>1, <3>3 DEF AcksDone
      <4>2. MayContinue' <=> MayContinue
        BY <3>1 DEF MayContinue, Unacked
      <4>3. ASSUME NEW u \in App, u # t PROVE /\ thr'[u].pc = "blocked" => ~MayContinue'
                                              /\ thr'[u].pc = "ackwait" => ~AcksDone(thr[u])'
        <5>1. /\ thr'[u].pc = "blocked" => thr[u].pc = "blocked"
              /\ thr'[u].pc = "ackwait" => thr[u].pc = "ackwait"
              /\ thr'[u].ref = thr[u].ref /\ thr'[u].rd = thr[u].rd
          BY <3>3, <4>3, WakeFacts DEF Goes, Stays
        <5>2. AcksDone(thr[u])' <=> AcksDone(thr[u])
          BY <3>1, <5>1 DEF AcksDone
        <5>3. QED
          BY <4>2, <5>1, <5>2 DEF NoLostWakeup
      <4>4. QED
        BY <3>3, <4>1, <4>3 DEF NoLostWakeup, Goes
    <3>4. QED
      BY <2>0, <3>2, <3>3
  <2>10. QED
    BY <2>2, <2>3, <2>4, <2>5, <2>6, <2>7, <2>8, <2>9 DEF Inv
<1>13. ASSUME NEW t \in App, WaitWoken(t) PROVE Inv'
  <2> DEFINE c == [thr[t] EXCEPT !.pc = "ackwait"]
  <2>a. /\ c \in Locals /\ c.pc = "ackwait" /\ c.ref = thr[t].ref /\ c.rd = thr[t].rd
        /\ Finished("unpin") \in Locals
    BY DEF TypeOK, Locals, Pcs, Ops, Finished, Idle
  <2>b. \/ thr' = [thr EXCEPT ![t] = Finished("unpin")]
        \/ thr' = [thr EXCEPT ![t] = c] /\ ~AcksDone(thr[t])
    BY <1>13 DEF WaitWoken
  <2> HIDE DEF c
  <2>c. thr' = [thr EXCEPT ![t] = c] => Goes(t, "ackwait") /\ thr'[t] = c
    BY <2>a, SetGoes
  <2>0. \/ Goes(t, "unpin")
        \/ Goes(t, "ackwait") /\ thr'[t].ref = thr[t].ref /\ ~AcksDone(thr'[t])
    BY <2>a, <2>b, <2>c, SetGoes DEF Finished, Idle, AcksDone
  <2>1. From(gcq', gcq, "gc", 0)
    BY <1>13, FromSame DEF WaitWoken
  <2>2. TypeOK'
    BY <1>13, <2>0, <2>1 DEF WaitWoken, TypeOK, Goes, From
  <2>3. Duties'
    BY <1>13, <2>1 DEF WaitWoken, Duties, From, Args
  <2>4. Locked'
    BY <1>13, <2>0 DEF WaitWoken, Locked, LockedPcs, Goes, Stays, Wake
  <2>5. Counted'
    <3>1. CASE Goes(t, "unpin")
      <4>1. Cardinality(Throttled') = Cardinality(Throttled)
        BY <1>13, <3>1, GoesCounts DEF WaitWoken, Pcs, ThrottledPcs, One
      <4>2. Cardinality(Writing') = Cardinality(Writing)
        BY <1>13, <3>1, GoesCounts DEF WaitWoken, Pcs, WritingPcs, One
      <4>3. QED
        BY <1>13, <2>0, <3>1, <4>1, <4>2, CountsFinite, Bounds DEF WaitWoken, Counted, TypeOK
    <3>2. CASE Goes(t, "ackwait")
      <4>1. Cardinality(Throttled') = Cardinality(Throttled)
        BY <1>13, <3>2, GoesCounts DEF WaitWoken, Pcs, ThrottledPcs, One
      <4>2. Cardinality(Writing') = Cardinality(Writing)
        BY <1>13, <3>2, GoesCounts DEF WaitWoken, Pcs, WritingPcs, One
      <4>3. QED
        BY <1>13, <2>0, <3>2, <4>1, <4>2, CountsFinite, Bounds DEF WaitWoken, Counted, TypeOK
    <3>3. QED
      BY <2>0, <3>1, <3>2
  <2>6. Asked'
    BY <1>13, <2>0 DEF WaitWoken, Asked, Goes, Stays, Wake, TypeOK, Locals
  <2>7. Deletion'
    BY <1>13, <2>0, OtherDeletion DEF WaitWoken
  <2>8. Collection'
    <3>1. \A u \in App : thr'[u].pc = "sched" => thr[u].pc = "sched" /\ u # "gc"
      BY <1>13, <2>0, Apart DEF WaitWoken, Goes, Stays, Wake
    <3>2. \A s \in Services : s # "gc"
      BY Apart DEF Services
    <3>3. UNCHANGED <<freed, wst, svc>>
      BY <1>13 DEF WaitWoken
    <3>4. QED
      BY <2>1, <3>1, <3>2, <3>3, CollectionKept
  <2>9. NoLostWakeup'
    <3>1. MaxDrop(acked)' = MaxDrop(acked) /\ UNCHANGED <<wst, seq, acked, rexmit>>
      BY <1>13 DEF WaitWoken, MaxDrop
    <3>2. CASE Goes(t, "unpin")
      BY <3>1, <3>2, WakeupFrame
    <3>3. CASE Goes(t, "ackwait") /\ ~AcksDone(thr'[t])
      <4>1. ~AcksDone(thr[t])'
        BY <3>1, <3>3 DEF AcksDone
      <4>2. MayContinue' <=> MayContinue
        BY <3>1 DEF MayContinue, Unacked
      <4>3. ASSUME NEW u \in App, u # t PROVE /\ thr'[u].pc = "blocked" => ~MayContinue'
                                              /\ thr'[u].pc = "ackwait" => ~AcksDone(thr[u])'
        <5>1. /\ thr'[u].pc = "blocked" => thr[u].pc = "blocked"
              /\ thr'[u].pc = "ackwait" => thr[u].pc = "ackwait"
              /\ thr'[u].ref = thr[u].ref /\ thr'[u].rd = thr[u].rd
          BY <3>3, <4>3, WakeFacts DEF Goes, Stays
        <5>2. AcksDone(thr[u])' <=> AcksDone(thr[u])
          BY <3>1, <5>1 DEF AcksDone
        <5>3. QED
          BY <4>2, <5>1, <5>2 DEF NoLostWakeup
      <4>4. QED
        BY <3>3, <4>1, <4>3 DEF NoLostWakeup, Goes
    <3>4. QED
      BY <2>0, <3>2, <3>3
  <2>10. QED
    BY <2>2, <2>3, <2>4, <2>5, <2>6, <2>7, <2>8, <2>9 DEF Inv
<1>14. ASSUME NEW t \in App, WaitTimeout(t) PROVE Inv'
  <2>0. Goes(t, "unpin")
    BY <1>14, SetGoes DEF WaitTimeout, Idle, Finished, Locals, Pcs, Ops
  <2>1. From(gcq', gcq, "gc", 0)
    BY <1>14, FromSame DEF WaitTimeout
  <2>2. TypeOK'
    BY <1>14, <2>0, <2>1 DEF WaitTimeout, TypeOK, Goes, From
  <2>3. Duties'
    BY <1>14, <2>1 DEF WaitTimeout, Duties, From, Args
  <2>4. Locked'
    BY <1>14, <2>0 DEF WaitTimeout, Locked, LockedPcs, Goes, Stays, Wake
  <2>5. Counted'
    BY <1>14, <2>0, GoesCounts DEF WaitTimeout, Counted, Pcs, ThrottledPcs, WritingPcs, One,
        TypeOK
  <2>6. Asked'
    BY <1>14, <2>0 DEF WaitTimeout, Asked, Goes, Stays, Wake, TypeOK, Locals
  <2>7. Deletion'
    BY <1>14, <2>0, OtherDeletion DEF WaitTimeout
  <2>8. Collection'
    <3>1. \A u \in App : thr'[u].pc = "sched" => thr[u].pc = "sched" /\ u # "gc"
      BY <1>14, <2>0, Apart DEF WaitTimeout, Goes, Stays, Wake
    <3>2. \A s \in Services : s # "gc"
      BY Apart DEF Services
    <3>3. UNCHANGED <<freed, wst, svc>>
      BY <1>14 DEF WaitTimeout
    <3>4. QED
      BY <2>1, <3>1, <3>2, <3>3, CollectionKept
  <2>9. NoLostWakeup'
    BY <1>14, <2>0, WakeupFrame DEF WaitTimeout
  <2>10. QED
    BY <2>2, <2>3, <2>4, <2>5, <2>6, <2>7, <2>8, <2>9 DEF Inv
<1>15. ASSUME NEW t \in App, DeleteLock(t) PROVE Inv'
  <2>0. Goes(t, "interrupt")
    BY <1>15, GotoGoes DEF DeleteLock, Pcs
  <2>1. From(gcq', gcq, "gc", 0)
    BY <1>15, FromSame DEF DeleteLock
  <2>2. TypeOK'
    BY <1>15, <2>0, <2>1 DEF DeleteLock, TypeOK, Goes, From
  <2>3. Duties'
    BY <1>15, <2>1 DEF DeleteLock, Duties, From, Args
  <2>4. Locked'
    BY <1>15, <2>0, Apart DEF DeleteLock, Locked, LockedPcs, Goes, Stays, Wake
  <2>5. Counted'
    BY <1>15, <2>0, GoesCounts DEF DeleteLock, Counted, Pcs, ThrottledPcs, WritingPcs, One, TypeOK
  <2>6. Asked'
    BY <1>15, <2>0 DEF DeleteLock, Asked, Goes, Stays, Wake, TypeOK, Locals
  <2>7. Deletion'
    BY <1>15, <2>0 DEF DeleteLock, Deletion, Deletes, Ending, Goes, Stays, Wake
  <2>8. Collection'
    <3>1. \A u \in App : thr'[u].pc = "sched" => thr[u].pc = "sched" /\ u # "gc"
      BY <1>15, <2>0, Apart DEF DeleteLock, Goes, Stays, Wake
    <3>2. \A s \in Services : s # "gc"
      BY Apart DEF Services
    <3>3. UNCHANGED <<freed, wst, svc>>
      BY <1>15 DEF DeleteLock
    <3>4. QED
      BY <2>1, <3>1, <3>2, <3>3, CollectionKept
  <2>9. NoLostWakeup'
    BY <1>15, <2>0, WakeupFrame DEF DeleteLock
  <2>10. QED
    BY <2>2, <2>3, <2>4, <2>5, <2>6, <2>7, <2>8, <2>9 DEF Inv
<1>16. ASSUME NEW t \in App, DeleteInterrupt(t) PROVE Inv'
  <2>0. Goes(t, "closewait") /\ NoneWaits'
    BY <1>16, BroadcastGoes DEF DeleteInterrupt, Pcs, Wake
  <2>1. From(gcq', gcq, t, 0)
    BY <1>16, FromAsleep DEF DeleteInterrupt
  <2>2. TypeOK'
    BY <1>16, <2>0, <2>1 DEF DeleteInterrupt, TypeOK, Goes, From
  <2>3. Duties'
    BY <1>16, <2>1 DEF DeleteInterrupt, Duties, From, Args
  <2>4. Locked'
    BY <1>16, <2>0 DEF DeleteInterrupt, Locked, LockedPcs, Goes, Stays, Wake
  <2>5. Counted'
    BY <1>16, <2>0, GoesCounts DEF DeleteInterrupt, Counted, Pcs, ThrottledPcs, WritingPcs,
        One, TypeOK
  <2>6. Asked'
    BY <1>16, <2>0 DEF DeleteInterrupt, Asked, Goes, Stays, Wake, TypeOK, Locals
  <2>7. Deletion'
    BY <1>16, <2>0 DEF DeleteInterrupt, Deletion, Deletes, Ending, Goes, Stays, Wake
  <2>8. Collection'
    BY <1>16, <2>1, CollectionOpen DEF DeleteInterrupt, Deletion
  <2>9. NoLostWakeup'
    BY <2>0 DEF NoLostWakeup, NoneWaits
  <2>10. QED
    BY <2>2, <2>3, <2>4, <2>5, <2>6, <2>7, <2>8, <2>9 DEF Inv
<1>17. ASSUME NEW t \in App, DeleteCloseWait(t) PROVE Inv'
  <2>0. Goes(t, "close")
    BY <1>17, GotoGoes DEF DeleteCloseWait, Pcs
  <2>1. From(gcq', gcq, "gc", 0)
    BY <1>17, FromSame DEF DeleteCloseWait
  <2>2. TypeOK'
    BY <1>17, <2>0, <2>1 DEF DeleteCloseWait, TypeOK, Goes, From
  <2>3. Duties'
    BY <1>17, <2>1 DEF DeleteCloseWait, Duties, From, Args
  <2>4. Locked'
    BY <1>17, <2>0 DEF DeleteCloseWait, Locked, LockedPcs, Goes, Stays, Wake
  <2>5. Counted'
    BY <1>17, <2>0, GoesCounts DEF DeleteCloseWait, Counted, Pcs, ThrottledPcs, WritingPcs,
        One, TypeOK
  <2>6. Asked'
    BY <1>17, <2>0 DEF DeleteCloseWait, Asked, Goes, Stays, Wake, TypeOK, Locals
  <2>7. Deletion'
    <3>1. \A u \in App \ {t} : thr[u].pc = "idle"
      BY <1>17 DEF DeleteCloseWait, Pinned, Deletion, Deletes
    <3>2. \A u \in App \ {t} : thr'[u].pc = "idle"
      BY <2>0, <3>1 DEF Goes, Stays, Wake
    <3>3. thr[t].pc = "closewait" /\ thr'[t].pc = "close" /\ UNCHANGED <<wst, closing, linger>>
      BY <1>17, <2>0 DEF DeleteCloseWait, Goes
    <3>4. QED
      BY <3>1, <3>2, <3>3 DEF Deletion, Deletes, Ending
  <2>8. Collection'
    <3>1. \A u \in App : thr'[u].pc = "sched" => thr[u].pc = "sched" /\ u # "gc"
      BY <1>17, <2>0, Apart DEF DeleteCloseWait, Goes, Stays, Wake
    <3>2. \A s \in Services : s # "gc"
      BY Apart DEF Services
    <3>3. UNCHANGED <<freed, wst, svc>>
      BY <1>17 DEF DeleteCloseWait
    <3>4. QED
      BY <2>1, <3>1, <3>2, <3>3, CollectionKept
  <2>9. NoLostWakeup'
    BY <1>17, <2>0, WakeupFrame DEF DeleteCloseWait
  <2>10. QED
    BY <2>2, <2>3, <2>4, <2>5, <2>6, <2>7, <2>8, <2>9 DEF Inv
<1>18. ASSUME NEW t \in App, DeleteWriter(t) PROVE Inv'
  <2>0. \/ /\ wst' = "deleting" /\ Goes(t, "gone") /\ gcq' = GcreqWriter(gcq, t)
        \/ /\ wst' = "lingering" /\ Goes(t, "sched") /\ gcq' = gcq
    BY <1>18, GotoGoes DEF DeleteWriter, Pcs
  <2>a. throttling = 0
    <3>1. \A u \in App : thr[u].pc \notin {"flush", "blocked", "woken"}
      BY <1>18 DEF DeleteWriter, Deletion
    <3>2. Throttled = {}
      BY <3>1 DEF Throttled
    <3>3. QED
      BY <3>2, FS_EmptySet DEF Counted
  <2>b. wst = "interrupt" /\ UNCHANGED <<freed, svc>>
    BY <1>18 DEF DeleteWriter, Deletion
  <2>1. \/ wst' = "deleting" /\ Fresh(gcq', t)
        \/ wst' = "lingering" /\ From(gcq', gcq, t, 0)
    <3>1. NoWriter(gcq)
      BY <2>b, NoWriterYet
    <3>2. GcreqWriter(gcq, t) = Enqueue(gcq, t, "writer", None)
      BY <2>a DEF GcreqWriter
    <3>3. QED
      BY <2>0, <3>1, <3>2, FreshWriter, FromSame
  <2>2. TypeOK'
    BY <1>18, <2>0, <2>1 DEF DeleteWriter, TypeOK, Goes, From, Fresh
  <2>3. Duties'
    BY <1>18, <2>1 DEF DeleteWriter, Duties, From, Fresh, Args
  <2>4. Locked'
    BY <1>18, <2>0 DEF DeleteWriter, Locked, LockedPcs, Goes, Stays, Wake
  <2>5. Counted'
    BY <1>18, <2>0, GoesCounts DEF DeleteWriter, Counted, Pcs, ThrottledPcs, WritingPcs, One,
        TypeOK
  <2>6. Asked'
    BY <1>18, <2>0 DEF DeleteWriter, Asked, Goes, Stays, Wake, TypeOK, Locals
  <2>7. Deletion'
    BY <1>18, <2>0 DEF DeleteWriter, Deletion, Deletes, Ending, Goes, Stays, Wake
  <2>8. Collection'
    <3>1. CASE wst' = "lingering"
      BY <2>1, <2>b, <3>1, CollectionOpen
    <3>2. CASE wst' = "deleting"
      <4>1. \A u \in App : thr'[u].pc # "sched"
        BY <1>18, <2>0, <3>2 DEF DeleteWriter, Deletion, Goes, Stays, Wake
      <4>2. \A s \in Services : svc'[s].pc # "idle" => s \in Awake /\ s # t
        BY <2>b, Apart DEF Awake
      <4>3. QED
        BY <2>1, <2>b, <3>2, <4>1, <4>2, CollectionFresh
    <3>3. QED
      BY <2>0, <3>1, <3>2
  <2>9. NoLostWakeup'
    BY <1>18, <2>0 DEF DeleteWriter, NoLostWakeup, Deletion, Goes, Stays, Wake
  <2>10. QED
    BY <2>2, <2>3, <2>4, <2>5, <2>6, <2>7, <2>8, <2>9 DEF Inv
<1>19. ASSUME NEW t \in App, ScheduleLinger(t) PROVE Inv'
  <2>0. Goes(t, "gone")
    BY <1>19, GotoGoes DEF ScheduleLinger, Pcs
  <2>1. From(gcq', gcq, t, 0)
    BY <1>19, FromAsleep DEF ScheduleLinger
  <2>2. TypeOK'
    BY <1>19, <2>0, <2>1 DEF ScheduleLinger, TypeOK, Goes, From
  <2>3. Duties'
    BY <1>19, <2>1 DEF ScheduleLinger, Duties, From, Args, Deletion
  <2>4. Locked'
    BY <1>19, <2>0 DEF ScheduleLinger, Locked, LockedPcs, Goes, Stays, Wake
  <2>5. Counted'
    BY <1>19, <2>0, GoesCounts DEF ScheduleLinger, Counted, Pcs, ThrottledPcs, WritingPcs, One,
        TypeOK
  <2>6. Asked'
    BY <1>19, <2>0 DEF ScheduleLinger, Asked, Goes, Stays, Wake, TypeOK, Locals
  <2>7. Deletion'
    BY <1>19, <2>0 DEF ScheduleLinger, Deletion, Deletes, Ending, Goes, Stays, Wake
  <2>8. Collection'
    <3>1. \A u \in App : thr'[u].pc = "sched" => thr[u].pc = "sched" /\ u # t
      BY <1>19, <2>0, Apart DEF ScheduleLinger, Goes, Stays, Wake
    <3>2. \A s \in Services : s # t
      BY Apart DEF Services
    <3>3. UNCHANGED <<freed, wst, svc>>
      BY <1>19 DEF ScheduleLinger
    <3>4. QED
      BY <2>1, <3>1, <3>2, <3>3, CollectionKept
  <2>9. NoLostWakeup'
    BY <1>19, <2>0, WakeupFrame DEF ScheduleLinger
  <2>10. QED
    BY <2>2, <2>3, <2>4, <2>5, <2>6, <2>7, <2>8, <2>9 DEF Inv
<1>20. ASSUME NEW t \in App, DeleteGone(t) PROVE Inv'
  <2>0. Goes(t, "idle")
    BY <1>20, SetGoes DEF DeleteGone, Idle, Finished, Locals, Pcs, Ops
  <2>1. From(gcq', gcq, "gc", 0)
    BY <1>20, FromSame DEF DeleteGone
  <2>2. TypeOK'
    BY <1>20, <2>0, <2>1 DEF DeleteGone, TypeOK, Goes, From
  <2>3. Duties'
    BY <1>20, <2>1 DEF DeleteGone, Duties, From, Args
  <2>4. Locked'
    BY <1>20, <2>0 DEF DeleteGone, Locked, LockedPcs, Goes, Stays, Wake
  <2>5. Counted'
    BY <1>20, <2>0, GoesCounts DEF DeleteGone, Counted, Pcs, ThrottledPcs, WritingPcs, One, TypeOK
  <2>6. Asked'
    BY <1>20, <2>0 DEF DeleteGone, Asked, Goes, Stays, Wake, TypeOK, Locals
  <2>7. Deletion'
    BY <1>20, <2>0 DEF DeleteGone, Deletion, Deletes, Ending, Goes, Stays, Wake
  <2>8. Collection'
    <3>1. \A u \in App : thr'[u].pc = "sched" => thr[u].pc = "sched" /\ u # "gc"
      BY <1>20, <2>0, Apart DEF DeleteGone, Goes, Stays, Wake
    <3>2. \A s \in Services : s # "gc"
      BY Apart DEF Services
    <3>3. UNCHANGED <<freed, wst, svc>>
      BY <1>20 DEF DeleteGone
    <3>4. QED
      BY <2>1, <3>1, <3>2, <3>3, CollectionKept
  <2>9. NoLostWakeup'
    BY <1>20, <2>0, WakeupFrame DEF DeleteGone
  <2>10. QED
    BY <2>2, <2>3, <2>4, <2>5, <2>6, <2>7, <2>8, <2>9 DEF Inv
<1>21. ASSUME NEW r \in Readers, NEW n \in 0 .. MaxSeq, NEW nack \in BOOLEAN, RecvLookup(r, n,
    nack)
       PROVE  Inv'
  <2> DEFINE c == [pc |-> "ack", rd |-> r, n |-> n, nack |-> nack]
  <2>0. c \in SvcLocals /\ c.pc = "ack" /\ c.rd = r
    BY Bounds DEF SvcLocals
  <2>1. /\ svc' = [svc EXCEPT !["recv"] = c] /\ wst # "deleting"
        /\ UNCHANGED <<wst, whcVars, throttling, freed, apiVars, linger, gcq, thr, left, blocking>>
    BY <1>21 DEF RecvLookup, InIndex
  <2> HIDE DEF c
  <2>2. TypeOK'
    BY <2>0, <2>1 DEF TypeOK, Services
  <2>3. Duties'
    BY <2>0, <2>1 DEF Duties, TypeOK, Services
  <2>4. Locked' /\ Counted' /\ Asked' /\ Deletion'
    BY <2>1, SameStirs, StirFrame, StirDeletion
  <2>5. Collection'
    BY <2>1, FromSame, CollectionOpen
  <2>6. NoLostWakeup'
    BY <2>1, <2>2, WakeupNack DEF TypeOK
  <2>7. QED
    BY <2>2, <2>3, <2>4, <2>5, <2>6 DEF Inv
<1>22. ASSUME NEW r \in Readers, DiscLookup(r) PROVE Inv'
  <2> DEFINE c == [Quiet EXCEPT !.pc = "ackall", !.rd = r]
  <2>0. c \in SvcLocals /\ c.pc = "ackall" /\ c.rd = r
    BY DEF SvcLocals, Quiet
  <2>1. /\ svc' = [svc EXCEPT !["disc"] = c] /\ wst # "deleting" /\ left' = left \cup {r}
        /\ UNCHANGED <<wst, whcVars, throttling, freed, apiVars, linger, gcq, thr, blocking>>
    BY <1>22 DEF DiscLookup, InIndex
  <2> HIDE DEF c
  <2>2. TypeOK'
    BY <2>0, <2>1 DEF TypeOK, Services
  <2>3. Duties'
    BY <2>0, <2>1 DEF Duties, TypeOK, Services
  <2>4. Locked' /\ Counted' /\ Asked' /\ Deletion'
    BY <2>1, SameStirs, StirFrame, StirDeletion
  <2>5. Collection'
    BY <2>1, FromSame, CollectionOpen
  <2>6. NoLostWakeup'
    BY <2>1, <2>2, WakeupNack DEF TypeOK
  <2>7. QED
    BY <2>2, <2>3, <2>4, <2>5, <2>6 DEF Inv
<1>23. CASE RecvAckNack
  <2> DEFINE m == svc["recv"]
             old == acked[m.rd]
             new == old # Unmatched /\ m.n > old
             a == CASE new -> [acked EXCEPT ![m.rd] = m.n]
                    [] old = AckedAll -> [acked EXCEPT ![m.rd] = seq]
                    [] OTHER -> acked
             begins == old # Unmatched /\ m.nack /\ m.n + 1 > MaxDrop(a)
  <2>1. /\ m.pc = "ack" /\ high' \in {high, LoweredHigh} /\ svc' = [svc EXCEPT !["recv"] = Quiet]
        /\ UNCHANGED <<seq, throttling, freed, apiVars, linger, left, blocking>>
        /\ \/ new /\ RemoveAcked(a, rexmit \/ begins) /\ gcq' = QueueAfter(gcq, "recv", a)
           \/ /\ ~new /\ acked' = a /\ rexmit' = (rexmit \/ begins)
              /\ gcq' = Asleep(gcq, "recv") /\ UNCHANGED <<wst, thr>>
    BY <1>23 DEF RecvAckNack
  <2>2. m.rd \in Readers /\ m.n \in Nat /\ acked \in Acks /\ seq \in Nat
    BY <2>1 DEF Duties, TypeOK, SvcLocals, Services
  <2>3. a \in Acks
    BY <2>2 DEF Acks
  <2>4. ~new => a = acked \/ \E r \in Readers : acked[r] = AckedAll /\ a = [acked EXCEPT ![r] = seq]
    BY <2>2
  <2>5. /\ Quiet \in SvcLocals /\ svc'["recv"].pc = "idle" /\ svc' \in [Services -> SvcLocals]
        /\ \A s \in Services : s # "recv" => svc'[s] = svc[s]
    BY <2>1 DEF Quiet, SvcLocals, TypeOK, Services
  <2>6. high' \in Nat
    BY <2>1, HighsNat DEF TypeOK
  <2>7. CASE ~new /\ acked' = a /\ rexmit' = (rexmit \/ begins)
             /\ gcq' = Asleep(gcq, "recv") /\ UNCHANGED <<wst, thr>>
    <3> HIDE DEF m, old, new, a, begins
    <3>1. From(gcq', gcq, "recv", 0)
      BY <2>7, FromAsleep
    <3>2. rexmit' \in BOOLEAN /\ (rexmit => rexmit')
      BY <2>7 DEF TypeOK
    <3>3. TypeOK'
      BY <2>1, <2>3, <2>5, <2>6, <2>7, <3>1, <3>2 DEF TypeOK, From
    <3>4. Duties'
      BY <2>1, <2>5, <3>1 DEF Duties, From, Args, Services
    <3>5. Locked' /\ Counted' /\ Asked' /\ Deletion'
      BY <2>1, <2>7, SameStirs, StirFrame, StirDeletion
    <3>6. \A t \in App : t # "recv"
      BY Apart DEF Services
    <3>7. Collection'
      BY <2>1, <2>5, <2>7, <3>1, <3>6, CollectionKept
    <3>8. NoLostWakeup'
      BY <2>1, <2>3, <2>4, <2>7, <3>2, WakeupNack
    <3>9. QED
      BY <3>3, <3>4, <3>5, <3>7, <3>8 DEF Inv
  <2>8. CASE new /\ RemoveAcked(a, rexmit \/ begins) /\ gcq' = QueueAfter(gcq, "recv", a)
    <3> HIDE DEF m, old, new, a, begins
    <3>1. /\ acked' = a /\ rexmit' \in BOOLEAN /\ thr' = Broadcast(thr)
          /\ wst' = IF LastAck(a) THEN "deleting" ELSE wst
      BY <2>8 DEF RemoveAcked
    <3>2. Stir /\ NoneWaits'
      BY <3>1, BroadcastStirs
    <3>3. /\ LastAck(a) => wst = "lingering" /\ Fresh(gcq', "recv")
          /\ ~LastAck(a) => From(gcq', gcq, "recv", 0)
      BY <2>8, QueueAfterShape, NoWriterYet, FromAsleep
    <3>4. gcq' \in Seq(Reqs) /\ Args(gcq')
      BY <3>3 DEF From, Fresh
    <3>5. TypeOK'
      BY <2>1, <2>3, <2>5, <2>6, <3>1, <3>2, <3>4 DEF TypeOK, Stir
    <3>6. Duties'
      BY <2>1, <2>5, <3>4 DEF Duties, Args, Services
    <3>7. Locked' /\ Counted' /\ Asked' /\ Deletion'
      BY <2>1, <3>1, <3>2, <3>3, StirFrame, StirDeletion DEF Ending
    <3>8. /\ \A t \in App : t # "recv" /\ (thr'[t].pc = "sched" => thr[t].pc = "sched")
          /\ \A t \in App : thr[t].pc = "sched" => t \in Awake
          /\ \A s \in Services : svc[s].pc # "idle" => s \in Awake
      BY <3>2, Apart DEF Services, Stir, Stays, Wake, Awake, AwakeAt
    <3>9. Collection'
      <4>1. CASE LastAck(a)
        BY <2>1, <2>5, <3>1, <3>3, <3>8, <4>1, CollectionFresh
      <4>2. CASE ~LastAck(a)
        BY <2>1, <2>5, <3>1, <3>3, <3>8, <4>2, CollectionKept
      <4>3. QED
        BY <4>1, <4>2
    <3>10. NoLostWakeup'
      BY <3>2 DEF NoLostWakeup, NoneWaits
    <3>11. QED
      BY <3>5, <3>6, <3>7, <3>9, <3>10 DEF Inv
  <2>9. QED
    BY <2>1, <2>7, <2>8
<1>24. CASE DiscAckAll
  <2> DEFINE r == svc["disc"].rd
             a == [acked EXCEPT ![r] = AckedAll]
             q == QueueAfter(gcq, "disc", a)
  <2>1. /\ svc["disc"].pc = "ackall" /\ RemoveAcked(a, FALSE)
        /\ gcq' = Enqueue(q, "disc", "reader", r) /\ svc' = [svc EXCEPT !["disc"] = Quiet]
        /\ UNCHANGED <<seq, high, throttling, freed, apiVars, linger, left, blocking>>
    BY <1>24 DEF DiscAckAll
  <2>2. r \in Readers /\ acked \in Acks /\ AckedAll \in Nat
    BY <2>1, Bounds DEF Duties, TypeOK, AckedAll
  <2>3. a \in Acks
    BY <2>2 DEF Acks
  <2>4. /\ Quiet \in SvcLocals /\ svc'["disc"].pc = "idle" /\ svc' \in [Services -> SvcLocals]
        /\ \A s \in Services : s # "disc" => svc'[s] = svc[s]
    BY <2>1 DEF Quiet, SvcLocals, TypeOK, Services
  <2> HIDE DEF r, a
  <2>5. /\ acked' = a /\ rexmit' \in BOOLEAN /\ thr' = Broadcast(thr)
        /\ wst' = IF LastAck(a) THEN "deleting" ELSE wst
    BY <2>1 DEF RemoveAcked
  <2>6. Stir /\ NoneWaits'
    BY <2>5, BroadcastStirs
  <2>7. /\ LastAck(a) => wst = "lingering" /\ Fresh(q, "disc")
        /\ ~LastAck(a) => From(q, gcq, "disc", 0)
    BY QueueAfterShape, NoWriterYet, FromAsleep
  <2> HIDE DEF q
  <2>8. q \in Seq(Reqs) /\ Args(q)
    BY <2>7 DEF From, Fresh
  <2>9. /\ LastAck(a) => Fresh(gcq', "disc")
        /\ ~LastAck(a) => From(gcq', gcq, "disc", 0)
    BY <2>1, <2>2, <2>7, <2>8, FreshReader, FromEnqueue, FromTwice
  <2>10. gcq' \in Seq(Reqs) /\ Args(gcq')
    BY <2>9 DEF From, Fresh
  <2>11. TypeOK'
    BY <2>1, <2>3, <2>4, <2>5, <2>6, <2>10 DEF TypeOK, Stir
  <2>12. Duties'
    BY <2>1, <2>4, <2>10 DEF Duties, Args, Services
  <2>13. Locked' /\ Counted' /\ Asked' /\ Deletion'
    BY <2>1, <2>5, <2>6, <2>7, StirFrame, StirDeletion DEF Ending
  <2>14. /\ \A t \in App : t # "disc" /\ (thr'[t].pc = "sched" => thr[t].pc = "sched")
         /\ \A t \in App : thr[t].pc = "sched" => t \in Awake
         /\ \A s \in Services : svc[s].pc # "idle" => s \in Awake
    BY <2>6, Apart DEF Services, Stir, Stays, Wake, Awake, AwakeAt
  <2>15. Collection'
    <3>1. CASE LastAck(a)
      BY <2>1, <2>4, <2>5, <2>7, <2>9, <2>14, <3>1, CollectionFresh
    <3>2. CASE ~LastAck(a)
      BY <2>1, <2>4, <2>5, <2>9, <2>14, <3>2, CollectionKept
    <3>3. QED
      BY <3>1, <3>2
  <2>16. NoLostWakeup'
    BY <2>6 DEF NoLostWakeup, NoneWaits
  <2>17. QED
    BY <2>11, <2>12, <2>13, <2>15, <2>16 DEF Inv
<1>25. CASE TevLookup
  <2>1. /\ linger = "scheduled" /\ linger' = "done" /\ svc["tev"].pc = "idle"
        /\ svc' = IF InIndex THEN [svc EXCEPT !["tev"].pc = "delete"] ELSE svc
        /\ UNCHANGED <<wst, whcVars, throttling, freed, apiVars, gcq, thr, left, blocking>>
    BY <1>25 DEF TevLookup
  <2>2. /\ svc' \in [Services -> SvcLocals] /\ svc'["tev"].pc \in {"idle", "delete"}
        /\ \A s \in Services : s # "tev" => svc'[s] = svc[s]
        /\ svc'["tev"].pc # "idle" => wst # "deleting"
    BY <2>1 DEF TypeOK, SvcLocals, Services, InIndex
  <2>3. TypeOK'
    BY <2>1, <2>2 DEF TypeOK
  <2>4. Duties'
    BY <2>1, <2>2 DEF Duties, Services
  <2>5. Locked' /\ Counted' /\ Asked' /\ Deletion'
    BY <2>1, SameStirs, StirFrame, StirDeletion
  <2>6. Collection'
    <3>1. CASE wst # "deleting"
      BY <2>1, <3>1, FromSame, CollectionOpen
    <3>2. CASE wst = "deleting"
      <4>1. \A s \in Services : svc'[s].pc # "idle" => svc[s].pc # "idle" /\ s # "gc"
        BY <2>2, <3>2 DEF Services
      <4>2. \A t \in App : t # "gc"
        BY Apart
      <4>3. QED
        BY <2>1, <4>1, <4>2, FromSame, CollectionKept
    <3>3. QED
      BY <3>1, <3>2
  <2>7. NoLostWakeup'
    BY <2>1, <2>3, WakeupNack DEF TypeOK
  <2>8. QED
    BY <2>3, <2>4, <2>5, <2>6, <2>7 DEF Inv
<1>26. CASE TevDelete
  <2>1. /\ svc["tev"].pc = "delete" /\ svc' = [svc EXCEPT !["tev"] = Quiet]
        /\ UNCHANGED <<whcVars, throttling, freed, apiVars, linger, left, blocking>>
        /\ \/ wst = "deleting" /\ gcq' = Asleep(gcq, "tev") /\ UNCHANGED <<wst, thr>>
           \/ /\ wst # "deleting" /\ wst' = "deleting" /\ gcq' = GcreqWriter(gcq, "tev")
              /\ thr' = IF wst = "operational" THEN Broadcast(thr) ELSE thr
    BY <1>26 DEF TevDelete
  <2>2. Ending /\ throttling = 0
    BY <2>1, EndingUnthrottled DEF Duties, Deletion
  <2>3. UNCHANGED thr /\ Stir /\ wst' \in {"lingering", "deleting"}
    BY <2>1, <2>2, SameStirs DEF Ending
  <2>4. /\ svc'["tev"].pc = "idle" /\ svc' \in [Services -> SvcLocals]
        /\ \A s \in Services : s # "tev" => svc'[s] = svc[s]
    BY <2>1 DEF Quiet, SvcLocals, TypeOK, Services
  <2>5. \/ wst = "deleting" /\ wst' = "deleting" /\ From(gcq', gcq, "tev", 0)
        \/ wst # "deleting" /\ wst' = "deleting" /\ Fresh(gcq', "tev")
    <3>1. CASE wst = "deleting"
      BY <2>1, <3>1, FromAsleep
    <3>2. CASE wst # "deleting"
      <4>1. gcq' = Enqueue(gcq, "tev", "writer", None)
        BY <2>1, <2>2, <3>2 DEF GcreqWriter
      <4>2. QED
        BY <2>1, <3>2, <4>1, NoWriterYet, FreshWriter
    <3>3. QED
      BY <3>1, <3>2
  <2>6. gcq' \in Seq(Reqs) /\ Args(gcq')
    BY <2>5 DEF From, Fresh
  <2>7. TypeOK'
    BY <2>1, <2>3, <2>4, <2>6 DEF TypeOK
  <2>8. Duties'
    BY <2>1, <2>4, <2>6 DEF Duties, Args, Services
  <2>9. Locked' /\ Counted' /\ Asked' /\ Deletion'
    BY <2>1, <2>2, <2>3, StirFrame, StirDeletion DEF Ending
  <2>10. /\ \A t \in App : t # "tev" /\ (thr[t].pc = "sched" => t \in Awake)
         /\ \A s \in Services : svc[s].pc # "idle" => s \in Awake
    BY Apart DEF Services, Awake, AwakeAt
  <2>11. Collection'
    BY <2>1, <2>3, <2>4, <2>5, <2>10, CollectionFresh, CollectionKept
  <2>12. NoLostWakeup'
    BY <2>2, <2>3 DEF NoLostWakeup, Deletion
  <2>13. QED
    BY <2>7, <2>8, <2>9, <2>11, <2>12 DEF Inv
<1>27. CASE GcReader
  <2> DEFINE r == Head(gcq).arg
             a == [acked EXCEPT ![r] = Unmatched]
  <2>1. /\ gcq # <<>> /\ Head(gcq).cb = "reader"
        /\ UNCHANGED <<seq, high, throttling, freed, apiVars, linger, svc, left, blocking>>
        /\ \/ /\ wst # "deleting" /\ RemoveAcked(a, rexmit)
              /\ gcq' = QueueAfter(Tail(gcq), "gc", a)
           \/ wst = "deleting" /\ gcq' = Tail(gcq) /\ UNCHANGED <<wst, acked, rexmit, thr>>
    BY <1>27 DEF GcReader, InIndex
  <2>2. a \in Acks
    BY DEF TypeOK, Acks
  <2> HIDE DEF a
  <2>3. From(Tail(gcq), gcq, "gc", 1) /\ From(Asleep(Tail(gcq), "gc"), gcq, "gc", 1)
    BY <2>1, FromTail
  <2>4. \A t \in App \cup Services : t # "gc"
    BY Apart DEF Services
  <2>5. CASE wst = "deleting" /\ gcq' = Tail(gcq) /\ UNCHANGED <<wst, acked, rexmit, thr>>
    <3>1. TypeOK'
      BY <2>1, <2>3, <2>5 DEF TypeOK, From
    <3>2. Duties'
      BY <2>1, <2>3, <2>5 DEF Duties, From, Args
    <3>3. Locked' /\ Counted' /\ Asked' /\ Deletion'
      BY <2>1, <2>5, SameStirs, StirFrame, StirDeletion
    <3>4. Collection'
      BY <2>1, <2>3, <2>4, <2>5, CollectionKept
    <3>5. NoLostWakeup'
      BY <2>1, <2>5, <3>1, WakeupNack DEF TypeOK
    <3>6. QED
      BY <3>1, <3>2, <3>3, <3>4, <3>5 DEF Inv
  <2>6. CASE wst # "deleting" /\ RemoveAcked(a, rexmit) /\ gcq' = QueueAfter(Tail(gcq), "gc", a)
    <3>1. /\ acked' = a /\ rexmit' \in BOOLEAN /\ thr' = Broadcast(thr)
          /\ wst' = IF LastAck(a) THEN "deleting" ELSE wst
      BY <2>6 DEF RemoveAcked
    <3>2. Stir /\ NoneWaits'
      BY <3>1, BroadcastStirs
    <3>3. NoWriter(Tail(gcq)) /\ Tail(gcq) \in Seq(Reqs) /\ Args(Tail(gcq))
      BY <2>3, <2>6, NoWriterYet DEF From, NoWriter
    <3>4. /\ LastAck(a) => wst = "lingering" /\ Fresh(gcq', "gc")
          /\ ~LastAck(a) => From(gcq', gcq, "gc", 1)
      BY <2>3, <2>6, <3>3, QueueAfterShape
    <3>5. gcq' \in Seq(Reqs) /\ Args(gcq')
      BY <3>4 DEF From, Fresh
    <3>6. TypeOK'
      BY <2>1, <2>2, <3>1, <3>2, <3>5 DEF TypeOK, Stir
    <3>7. Duties'
      BY <2>1, <3>5 DEF Duties, Args
    <3>8. Locked' /\ Counted' /\ Asked' /\ Deletion'
      BY <2>1, <3>1, <3>2, <3>4, StirFrame, StirDeletion DEF Ending
    <3>9. /\ \A t \in App : t # "gc" /\ (thr'[t].pc = "sched" => thr[t].pc = "sched")
          /\ \A t \in App : thr[t].pc = "sched" => t \in Awake
          /\ \A s \in Services : s # "gc" /\ (svc[s].pc # "idle" => s \in Awake)
      BY <2>4, <3>2 DEF Stir, Stays, Wake, Awake, AwakeAt
    <3>10. Collection'
      <4>1. CASE LastAck(a)
        BY <2>1, <3>1, <3>4, <3>9, <4>1, CollectionFresh
      <4>2. CASE ~LastAck(a)
        BY <2>1, <2>6, <3>1, <3>4, <4>2, CollectionOpen
      <4>3. QED
        BY <4>1, <4>2
    <3>11. NoLostWakeup'
      BY <3>2 DEF NoLostWakeup, NoneWaits
    <3>12. QED
      BY <3>6, <3>7, <3>8, <3>10, <3>11 DEF Inv
  <2>7. QED
    BY <2>1, <2>5, <2>6
<1>28. CASE GcWriter
  <2>1. /\ gcq # <<>> /\ Head(gcq).wait = {} /\ Head(gcq).cb = "writer"
        /\ freed' = TRUE /\ hasWr' = FALSE /\ gcq' = Tail(gcq)
        /\ UNCHANGED <<wst, whcVars, throttling, mutex, closing, calls, linger, thr, svc, left,
                      blocking>>
    BY <1>28 DEF GcWriter
  <2>2. Len(gcq) \in Nat /\ 1 \in 1 .. Len(gcq) /\ Head(gcq) = gcq[1]
    BY <2>1, HeadTailProperties, LenProperties, EmptySeq
  <2>3. /\ wst = "deleting" /\ \A t \in App : thr[t].pc # "sched"
        /\ \A s \in Services : svc[s].pc = "idle"
    BY <2>1, <2>2 DEF Collection
  <2>4. From(gcq', gcq, "gc", 1)
    BY <2>1, FromTail
  <2>5. NoWriter(gcq')
    <3>1. ASSUME NEW i \in 1 .. Len(gcq'), gcq'[i].cb = "writer" PROVE FALSE
      <4>1. i + 1 \in 1 .. Len(gcq) /\ gcq[i + 1].cb = "writer" /\ i + 1 # 1
        BY <2>4, <3>1 DEF From
      <4>2. QED
        BY <2>1, <2>2, <4>1 DEF Collection
    <3>2. QED
      BY <3>1 DEF NoWriter
  <2>6. TypeOK'
    BY <2>1, <2>4 DEF TypeOK, From
  <2>7. Duties'
    BY <2>1, <2>4 DEF Duties, From, Args
  <2>8. Locked' /\ Counted' /\ Asked' /\ Deletion'
    BY <2>1, SameStirs, StirFrame, StirDeletion
  <2>9. Collection'
    BY <2>1, <2>3, <2>5 DEF Collection, NoWriter
  <2>10. NoLostWakeup'
    BY <2>1, <2>6, WakeupNack DEF TypeOK
  <2>11. QED
    BY <2>6, <2>7, <2>8, <2>9, <2>10 DEF Inv
<1>29. CASE UNCHANGED vars
  <2>1. TypeOK' /\ Duties'
    BY <1>29 DEF TypeOK, Duties
  <2>2. Locked' /\ Counted' /\ Asked' /\ Deletion'
    BY <1>29, SameStirs, StirFrame, StirDeletion
  <2>3. Collection'
    BY <1>29 DEF Collection
  <2>4. NoLostWakeup'
    BY <1>29, <2>1, WakeupNack DEF TypeOK
  <2>5. QED
    BY <2>1, <2>2, <2>3, <2>4 DEF Inv
<1>30. QED
  BY <1>1, <1>2, <1>3, <1>4, <1>5, <1>6, <1>7, <1>8, <1>9, <1>10, <1>11, <1>12, <1>13,
     <1>14, <1>15, <1>16, <1>17, <1>18, <1>19, <1>20, <1>21, <1>22, <1>23, <1>24, <1>25,
     <1>26, <1>27, <1>28, <1>29
  DEF Next, Begin, Step, Environment, Tev, Collect

LEMMA InitInv == ASSUME Init PROVE Inv
<1>1. gcq \in Seq(Reqs) /\ Len(gcq) = 0
  BY EmptySeq DEF Init
<1>2. Idle \in Locals /\ Quiet \in SvcLocals
  BY DEF Idle, Locals, Pcs, Ops, Quiet, SvcLocals
<1>3. TypeOK
  <2>1. MaxCalls \in Nat
    BY ThrottleAssumption
  <2>2. acked \in Acks /\ thr \in [App -> Locals] /\ svc \in [Services -> SvcLocals]
    BY <1>2 DEF Init, Acks
  <2>3. /\ rexmit \in BOOLEAN /\ freed \in BOOLEAN /\ hasWr \in BOOLEAN /\ closing \in BOOLEAN
    BY DEF Init
  <2>4. QED
    BY <1>1, <2>1, <2>2, <2>3, Bounds DEF Init, TypeOK
<1>4. Duties
  BY <1>1 DEF Init, Duties, Services, Quiet
<1>5. \A t \in App : thr[t].pc = "idle"
  BY DEF Init, Idle
<1>6. Locked /\ Asked /\ Deletion /\ NoLostWakeup
  BY <1>5 DEF Init, Locked, LockedPcs, Asked, Deletion, Deletes, Ending, NoLostWakeup
<1>7. Throttled = {} /\ Writing = {}
  BY <1>5 DEF Throttled, Writing
<1>8. Counted
  BY <1>7, FS_EmptySet, Bounds DEF Init, Counted
<1>9. Collection
  BY <1>1 DEF Init, Collection
<1>10. QED
  BY <1>3, <1>4, <1>6, <1>8, <1>9 DEF Inv
-----------------------------------------------------------------------------

\* Type correctness of the writer, from the API to the collector.
THEOREM TypeCorrect == Spec => []TypeOK
<1>1. Init => Inv
  BY InitInv
<1>2. Inv /\ [Next]_vars => Inv'
  BY NextInv
<1>3. Inv => TypeOK
  BY DEF Inv
<1>4. QED
  BY <1>1, <1>2, <1>3, PTL DEF Spec

\* The memory of a writer outlives every write, wait and service thread that uses it,
\* although gc_delete_writer knows of none of those that sleep (ddsi_endpoint.c).
THEOREM Safe == Spec => []NoUseAfterFree
<1>1. Init => Inv
  BY InitInv
<1>2. Inv /\ [Next]_vars => Inv'
  BY NextInv
<1>3. Inv => NoUseAfterFree
  BY DEF Inv, NoUseAfterFree, Collection, Deletion, Ending
<1>4. QED
  BY <1>1, <1>2, <1>3, PTL DEF Spec

\* Nobody sleeps on throttle_cond while what it waits for is true (q_transmit.c,
\* ddsi_endpoint.c).
THEOREM WakeupsKept == Spec => []NoLostWakeup
<1>1. Init => Inv
  BY InitInv
<1>2. Inv /\ [Next]_vars => Inv'
  BY NextInv
<1>3. Inv => NoLostWakeup
  BY DEF Inv
<1>4. QED
  BY <1>1, <1>2, <1>3, PTL DEF Spec

LEMMA InvAlone == ASSUME Inv PROVE ThrottledAlone
<1> /\ TypeOK /\ Locked /\ Counted /\ Deletion /\ Collection
  BY DEF Inv
<1>1. throttling = Cardinality({t \in App : thr[t].pc \in {"flush", "blocked", "woken"}})
  BY DEF Counted, Throttled
<1>2. throttling <= 1
  <2>1. CASE Throttled = {}
    BY <2>1, FS_EmptySet DEF Counted
  <2>2. CASE Throttled # {}
    <3>1. PICK t \in Throttled : TRUE
      BY <2>2
    <3>2. Throttled = {t}
      BY <3>1 DEF Throttled, Locked, LockedPcs
    <3>3. Cardinality(Throttled) = 1
      BY <3>2, FS_Singleton
    <3>4. QED
      BY <3>3 DEF Counted
  <2>3. QED
    BY <2>1, <2>2
<1>3. wst \in {"lingering", "deleting"} => throttling = 0
  BY EndingUnthrottled DEF Ending
<1>4. \A t \in App : /\ thr[t].pc = "interrupt" => wst = "operational"
                     /\ thr[t].pc = "close" => wst = "interrupt"
  BY DEF Deletion
<1>5. \A i, j \in DOMAIN gcq : gcq[i].cb # "reader" /\ gcq[j].cb # "reader" => i = j
  <2>1. DOMAIN gcq = 1 .. Len(gcq) /\ \A i \in 1 .. Len(gcq) : gcq[i] \in Reqs
    BY LenProperties, ElementOfSeq DEF TypeOK
  <2>2. \A i \in 1 .. Len(gcq) : gcq[i].cb # "reader" => gcq[i].cb = "writer"
    BY <2>1 DEF Reqs
  <2>3. QED
    BY <2>1, <2>2 DEF Collection
<1>6. QED
  BY <1>1, <1>2, <1>3, <1>4, <1>5 DEF ThrottledAlone

\* At most one write is throttled, none by the time the writer is deleted: the assertions
\* of throttle_writer, writer_set_state and gc_delete_writer hold.
THEOREM Alone == Spec => []ThrottledAlone
<1>1. Init => Inv
  BY InitInv
<1>2. Inv /\ [Next]_vars => Inv'
  BY NextInv
<1>3. Inv => ThrottledAlone
  BY InvAlone
<1>4. QED
  BY <1>1, <1>2, <1>3, PTL DEF Spec

=============================================================================
