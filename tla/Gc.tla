-------------------------------- MODULE Gc --------------------------------
(***************************************************************************)
(* Deferred reclamation in one domain: the virtual-time clock of every     *)
(* thread (q_thread.h), the requests that wait for the threads that were   *)
(* awake when an object was unlinked, the queue and the thread that        *)
(* processes it, and its shutdown (q_gc.c, with the order rtps_stop and    *)
(* rtps_fini of q_init.c impose on it).                                    *)
(*                                                                         *)
(* A step is one access to memory another thread may see: one atomic load  *)
(* or store, or one critical section of the queue's lock.                  *)
(***************************************************************************)
EXTENDS Integers, Sequences, FiniteSets

CONSTANTS
  Threads,     \* every slot of the thread state table that is in use
  GcThread,    \* the thread that runs gcreq_queue_thread
  Objects,     \* things deleted through a gcreq; each is its own request
  TwoPhase,    \* objects whose callback first calls gcreq_requeue
  NoOp, NoReq, \* gcreq_queue_free's request; the absence of a request
  Domains, Gv, \* all domains of the process; the one this queue belongs to
  TimeMod,     \* number of values of a clock's 28-bit time (2^28)
  MaxNest,     \* largest value of a clock's 4-bit nesting level (15)
  StartTime,   \* time of all clocks initially (any value occurs)
  StopTime,    \* bound: a thread stops waking up when its clock reads this (not in
               \* Times: no bound)
  CrossDomain  \* whether an awake thread may enter another domain

Requests == Objects \cup {NoOp}
Times == 0 .. TimeMod - 1
NotWaiting == -1

ASSUME GcConstants ==
  /\ GcThread \in Threads
  /\ TwoPhase \subseteq Objects
  /\ NoOp \notin Objects
  /\ NoReq \notin Requests
  /\ Gv \in Domains
  /\ TimeMod \in Nat /\ TimeMod > 2
  /\ MaxNest \in Nat /\ MaxNest > 0
  /\ StartTime \in Times
  /\ CrossDomain \in BOOLEAN

ASSUME GcFinite == IsFiniteSet(Threads)

VARIABLES
  time, nest,  \* the two fields of thread_state.vtime: one word, read and written as one
  gv,          \* gv[t]: thread_state.gv
  level,       \* level[t]: the domains t is awake in, innermost last
  pc,          \* pc[t]: where t is in thread_state_awake or gcreq_new
  refs,        \* refs[t]: objects of this domain t has a pointer to
  life,        \* life[o]: "linked", "unlinked", "freed"
  requeued,    \* the objects whose first callback has run
  todo, cand, at, \* locals of t in gather_for_wait: slots to visit, slot and time just
               \* loaded (GcThread and StartTime when they are dead)
  obj,         \* obj[t]: the object for which t is creating a request (NoOp: none)
  ivs,         \* ivs[r][t]: the clock value of t request r waits to see change
  queue, count, terminate,  \* gcreq_queue
  hand, gcpc,  \* request the gc thread works on; where it is in its loop
  spc          \* the thread in rtps_stop / rtps_fini: gcreq_queue_drain, gcreq_queue_free

threadVars == <<time, nest, gv, level, pc, refs>>
gatherVars == <<todo, cand, at, obj>>
queueVars == <<queue, count, terminate>>
vars == <<threadVars, life, requeued, gatherVars, ivs, queueVars, hand, gcpc, spc>>

Init ==
  /\ time = [t \in Threads |-> StartTime]
  /\ nest = [t \in Threads |-> 0]
  /\ gv = [t \in Threads |-> Gv]
  /\ level = [t \in Threads |-> <<>>]
  /\ pc = [t \in Threads |-> "run"]
  /\ refs = [t \in Threads |-> {}]
  /\ life = [o \in Objects |-> "linked"]
  /\ requeued = {}
  /\ todo = [t \in Threads |-> {}]
  /\ cand = [t \in Threads |-> GcThread]
  /\ at = [t \in Threads |-> StartTime]
  /\ obj = [t \in Threads |-> NoOp]
  /\ ivs = [r \in Requests |-> [t \in Threads |-> NotWaiting]]
  /\ queue = <<>> /\ count = 0 /\ terminate = FALSE
  /\ hand = NoReq /\ gcpc = "loop" /\ spc = "running"
-----------------------------------------------------------------------------
(* Clock arithmetic: q_thread.h. Definitions that no other one uses are mutated
   forms of the definition that follows them. *)

AwakeP(t) == nest[t] > 0

VtimeGtReflexive(v1, v0) == 2 * ((v1 - v0) % TimeMod) < TimeMod

VtimeGtUnsigned(v1, v0) == v1 > v0

\* The signed difference is positive: modulo 2^28, less than half a turn ahead.
VtimeGt(v1, v0) == LET d == (v1 - v0) % TimeMod IN d > 0 /\ 2 * d < TimeMod

TickNoWrap(t) == time' = [time EXCEPT ![t] = @ + 1]

Tick(t) == time' = [time EXCEPT ![t] = (@ + 1) % TimeMod]

PopLevel(t) == SubSeq(level[t], 1, Len(level[t]) - 1)

\* The stores of thread_state_asleep: the outermost one advances the time.
\* The caller keeps no pointer past the end of its section in the domain.
Fall(t) ==
  /\ nest' = [nest EXCEPT ![t] = @ - 1]
  /\ IF nest[t] = 1 THEN Tick(t) ELSE UNCHANGED time
  /\ level' = [level EXCEPT ![t] = PopLevel(t)]
  /\ refs' = [refs EXCEPT ![t] = IF \E i \in DOMAIN PopLevel(t) : PopLevel(t)[i] = Gv
                                 THEN @ ELSE {}]

Rise(t) ==
  /\ nest' = [nest EXCEPT ![t] = @ + 1]
  /\ level' = [level EXCEPT ![t] = Append(@, gv[t])]
  /\ UNCHANGED <<time, gv, refs>>

\* A nested section is in the same domain, unless an application's listener
\* that was invoked by one domain calls into another.
MayEnter(t, d) == AwakeP(t) => (d = gv[t] \/ CrossDomain)

\* thread_state_awake, first store: gv. Internal threads keep theirs.
AwakeStoreGv(t, d) ==
  /\ t # GcThread /\ pc[t] = "run"
  /\ nest[t] < MaxNest /\ time[t] # StopTime
  /\ MayEnter(t, d)
  /\ gv' = [gv EXCEPT ![t] = d]
  /\ pc' = [pc EXCEPT ![t] = "waking"]
  /\ UNCHANGED <<time, nest, level, refs, life, requeued, gatherVars, ivs, queueVars, hand, gcpc, spc>>

\* thread_state_awake, second store: vtime.
AwakeStoreVtime(t) ==
  /\ pc[t] = "waking"
  /\ Rise(t)
  /\ pc' = [pc EXCEPT ![t] = "run"]
  /\ UNCHANGED <<life, requeued, gatherVars, ivs, queueVars, hand, gcpc, spc>>

AwakeDomainOk(t) ==
  /\ t # GcThread /\ pc[t] = "run"
  /\ nest[t] < MaxNest /\ time[t] # StopTime
  /\ Rise(t)
  /\ UNCHANGED <<pc, life, requeued, gatherVars, ivs, queueVars, hand, gcpc, spc>>

Asleep(t) ==
  /\ t # GcThread /\ pc[t] = "run" /\ AwakeP(t)
  /\ Fall(t)
  /\ UNCHANGED <<gv, pc, life, requeued, gatherVars, ivs, queueVars, hand, gcpc, spc>>

\* The caller is about to start afresh: it holds no pointer across this.
AwakeToAwakeNoNest(t) ==
  /\ t # GcThread /\ pc[t] = "run" /\ nest[t] = 1
  /\ (time[t] + 1) % TimeMod # StopTime
  /\ Tick(t)
  /\ refs' = [refs EXCEPT ![t] = {}]
  /\ UNCHANGED <<nest, gv, level, pc, life, requeued, gatherVars, ivs, queueVars, hand, gcpc, spc>>
-----------------------------------------------------------------------------
(* What threads do while awake *)

InDomain(t) == /\ pc[t] = "run" /\ AwakeP(t)
               /\ level[t][Len(level[t])] = Gv
               /\ t = GcThread => gcpc \in {"lease", "cb"}

\* A lookup in the entity index or the instance map.
Lookup(t, o) ==
  /\ InDomain(t) /\ life[o] = "linked" /\ o \notin refs[t]
  /\ refs' = [refs EXCEPT ![t] = @ \cup {o}]
  /\ UNCHANGED <<time, nest, gv, level, pc, life, requeued, gatherVars, ivs, queueVars, hand, gcpc, spc>>

\* Take an object out of the tables and start gcreq_new for it. The gc thread
\* does so too: when a lease expires, and when a callback drops other objects.
Unlink(t, o) ==
  /\ InDomain(t) /\ life[o] = "linked"
  /\ life' = [life EXCEPT ![o] = "unlinked"]
  /\ pc' = [pc EXCEPT ![t] = "gather"]
  /\ obj' = [obj EXCEPT ![t] = o]
  /\ todo' = [todo EXCEPT ![t] = Threads]
  /\ UNCHANGED <<time, nest, gv, level, refs, requeued, cand, at, ivs, queueVars, hand, gcpc, spc>>

\* As if a thread need not wait for itself.
GatherSkipSelf(t, u) ==
  /\ pc[t] = "gather" /\ u \in todo[t]
  /\ todo' = [todo EXCEPT ![t] = @ \ {u}]
  /\ IF AwakeP(u) /\ u # t
     THEN /\ cand' = [cand EXCEPT ![t] = u]
          /\ at' = [at EXCEPT ![t] = time[u]]
          /\ pc' = [pc EXCEPT ![t] = "gatherGv"]
     ELSE UNCHANGED <<cand, at, pc>>
  /\ UNCHANGED <<time, nest, gv, level, refs, life, requeued, obj, ivs, queueVars, hand, gcpc, spc>>

\* threads_vtime_gather_for_wait, one slot: load vtime, skip it if asleep ...
GatherLoadVtime(t, u) ==
  /\ pc[t] = "gather" /\ u \in todo[t]
  /\ todo' = [todo EXCEPT ![t] = @ \ {u}]
  /\ IF AwakeP(u)
     THEN /\ cand' = [cand EXCEPT ![t] = u]
          /\ at' = [at EXCEPT ![t] = time[u]]
          /\ pc' = [pc EXCEPT ![t] = "gatherGv"]
     ELSE UNCHANGED <<cand, at, pc>>
  /\ UNCHANGED <<time, nest, gv, level, refs, life, requeued, obj, ivs, queueVars, hand, gcpc, spc>>

\* ... then load gv, and wait for this thread if it is in our domain.
GatherLoadGv(t) ==
  /\ pc[t] = "gatherGv"
  /\ ivs' = IF gv[cand[t]] = Gv THEN [ivs EXCEPT ![obj[t]][cand[t]] = at[t]] ELSE ivs
  /\ pc' = [pc EXCEPT ![t] = "gather"]
  /\ cand' = [cand EXCEPT ![t] = GcThread] /\ at' = [at EXCEPT ![t] = StartTime]
  /\ UNCHANGED <<time, nest, gv, level, refs, life, requeued, todo, obj, queueVars, hand, gcpc, spc>>

GcreqNewUncounted(t) ==
  /\ pc[t] = "gather" /\ todo[t] = {}
  /\ pc' = [pc EXCEPT ![t] = "new"]
  /\ UNCHANGED <<time, nest, gv, level, refs, life, requeued, gatherVars, ivs, queueVars, hand, gcpc, spc>>

GcreqNew(t) ==
  /\ pc[t] = "gather" /\ todo[t] = {}
  /\ count' = count + 1
  /\ pc' = [pc EXCEPT ![t] = "new"]
  /\ UNCHANGED <<time, nest, gv, level, refs, life, requeued, gatherVars, ivs, queue, terminate, hand, gcpc, spc>>

\* Waiters on the queue's condition variable re-evaluate their condition. (The
\* gc thread waits on it too, but with a timeout.)
Broadcast == spc' = CASE spc = "drainWait" -> "drain"
                      [] spc = "freeWait" -> "freeTest"
                      [] OTHER -> spc

GcreqEnqueueCommon(r) ==
  /\ queue' = Append(queue, r)
  /\ IF queue = <<>> THEN Broadcast ELSE UNCHANGED spc

GcreqEnqueue(t) ==
  /\ pc[t] = "new"
  /\ GcreqEnqueueCommon(obj[t])
  /\ pc' = [pc EXCEPT ![t] = "run"]
  /\ obj' = [obj EXCEPT ![t] = NoOp]
  /\ UNCHANGED <<time, nest, gv, level, refs, life, requeued, todo, cand, at, ivs, count, terminate, hand, gcpc>>
-----------------------------------------------------------------------------
(* gcreq_queue_thread *)

MayTerminateEarly == terminate

MayTerminate == terminate /\ count = 0

\* Top of the loop, lock held: unless a request is in hand, take the first.
GcTake ==
  /\ gcpc = "loop" /\ ~MayTerminate
  /\ IF hand = NoReq /\ queue # <<>>
     THEN hand' = Head(queue) /\ queue' = Tail(queue)
     ELSE UNCHANGED <<hand, queue>>
  /\ gcpc' = "leaseWake"
  /\ UNCHANGED <<threadVars, life, requeued, gatherVars, ivs, count, terminate, spc>>

GcExit ==
  /\ gcpc = "loop" /\ MayTerminate
  /\ gcpc' = "done"
  /\ UNCHANGED <<threadVars, life, requeued, gatherVars, ivs, queueVars, hand, spc>>

\* thread_state_awake_fixed_domain, around the lease check and around a callback.
GcWake ==
  /\ gcpc \in {"leaseWake", "cbWake"}
  /\ Rise(GcThread)
  /\ gcpc' = IF gcpc = "leaseWake" THEN "lease" ELSE "cb"
  /\ UNCHANGED <<pc, life, requeued, gatherVars, ivs, queueVars, hand, spc>>

\* check_and_handle_lease_expiration is over: what it does is Lookup and Unlink
\* of the gc thread.
GcLeaseSleep ==
  /\ gcpc = "lease" /\ pc[GcThread] = "run"
  /\ Fall(GcThread)
  /\ gcpc' = IF hand = NoReq THEN "loop" ELSE "check"
  /\ UNCHANGED <<gv, pc, life, requeued, gatherVars, ivs, queueVars, hand, spc>>

\* Whether thread t has not yet moved on since request r recorded its clock.
StillWaiting(r, t) == /\ ivs[r][t] # NotWaiting
                      /\ ~VtimeGt(time[t], ivs[r][t])
                      /\ gv[t] = Gv

\* threads_vtime_check: forget the threads that have; done when none remains.
GcCheck ==
  /\ gcpc = "check"
  /\ ivs' = [ivs EXCEPT ![hand] = [t \in Threads |-> IF StillWaiting(hand, t) THEN @[t]
                                                     ELSE NotWaiting]]
  /\ gcpc' = IF \E t \in Threads : StillWaiting(hand, t) THEN "loop" ELSE "cbWake"
  /\ UNCHANGED <<threadVars, life, requeued, gatherVars, queueVars, hand, spc>>

FreeBroadcastsAtOne == count - 1 = 1

FreeBroadcasts == count - 1 <= 1

\* A callback that frees its object and calls gcreq_free.
GcreqFree ==
  /\ gcpc = "cb" /\ pc[GcThread] = "run"
  /\ hand \in TwoPhase => hand \in requeued
  /\ life' = [o \in Objects |-> IF o = hand THEN "freed" ELSE life[o]]
  /\ count' = count - 1
  /\ IF FreeBroadcasts THEN Broadcast ELSE UNCHANGED spc
  /\ gcpc' = "cbSleep"
  /\ UNCHANGED <<threadVars, requeued, gatherVars, ivs, queue, terminate, hand>>

\* A callback that must let other activity finish first, and then requeues the
\* same request (whose set of threads to wait for is by then empty).
GcreqRequeue ==
  /\ gcpc = "cb" /\ pc[GcThread] = "run"
  /\ hand \in TwoPhase /\ hand \notin requeued
  /\ requeued' = requeued \cup {hand}
  /\ GcreqEnqueueCommon(hand)
  /\ gcpc' = "cbSleep"
  /\ UNCHANGED <<threadVars, life, gatherVars, ivs, count, terminate, hand>>

GcCbSleep ==
  /\ gcpc = "cbSleep"
  /\ Fall(GcThread)
  /\ hand' = NoReq
  /\ gcpc' = "loop"
  /\ UNCHANGED <<gv, pc, life, requeued, gatherVars, ivs, queueVars, spc>>
-----------------------------------------------------------------------------
(* Shutdown: rtps_stop drains the queue, rtps_fini stops it *)

\* rtps_stop gets here once everything has been deleted and the deleting
\* threads are done: from then on no request is added.
DrainBegin ==
  /\ spc = "running"
  /\ \A o \in Objects : life[o] # "linked"
  /\ \A t \in Threads : pc[t] \in {"run", "waking"}
  /\ spc' = "drain"
  /\ UNCHANGED <<threadVars, life, requeued, gatherVars, ivs, queueVars, hand, gcpc>>

GcreqQueueDrain ==
  /\ spc = "drain"
  /\ spc' = IF count = 0 THEN "drained" ELSE "drainWait"
  /\ UNCHANGED <<threadVars, life, requeued, gatherVars, ivs, queueVars, hand, gcpc>>

\* gcreq_queue_free creates a request that waits for no thread ...
QueueFreeNew ==
  /\ spc = "drained"
  /\ count' = count + 1
  /\ ivs' = [ivs EXCEPT ![NoOp] = [t \in Threads |-> NotWaiting]]
  /\ spc' = "freeTerm"
  /\ UNCHANGED <<threadVars, life, requeued, gatherVars, queue, terminate, hand, gcpc>>

\* ... sets terminate, waits until that is the only request ...
QueueFreeWait ==
  /\ spc \in {"freeTerm", "freeTest"}
  /\ terminate' = TRUE
  /\ spc' = IF count = 1 THEN "freeEnqueue" ELSE "freeWait"
  /\ UNCHANGED <<threadVars, life, requeued, gatherVars, ivs, queue, count, hand, gcpc>>

\* ... and enqueues it to wake the gc thread.
QueueFreeEnqueue ==
  /\ spc = "freeEnqueue"
  /\ queue' = Append(queue, NoOp)
  /\ spc' = "join"
  /\ UNCHANGED <<threadVars, life, requeued, gatherVars, ivs, count, terminate, hand, gcpc>>

QueueFreeJoin ==
  /\ spc = "join" /\ gcpc = "done"
  /\ spc' = "joined"
  /\ UNCHANGED <<threadVars, life, requeued, gatherVars, ivs, queueVars, hand, gcpc>>
-----------------------------------------------------------------------------
ThreadStep(t) ==
  \/ \E d \in Domains : AwakeStoreGv(t, d)
  \/ AwakeStoreVtime(t)
  \/ AwakeDomainOk(t)
  \/ Asleep(t)
  \/ AwakeToAwakeNoNest(t)
  \/ \E o \in Objects : Lookup(t, o)
  \/ \E o \in Objects : Unlink(t, o)
  \/ \E u \in Threads : GatherLoadVtime(t, u)
  \/ GatherLoadGv(t)
  \/ GcreqNew(t)
  \/ GcreqEnqueue(t)

GcStep == \/ GcTake
          \/ GcExit
          \/ GcWake
          \/ GcLeaseSleep
          \/ GcCheck
          \/ GcreqFree
          \/ GcreqRequeue
          \/ GcCbSleep

StopStep == \/ DrainBegin
            \/ GcreqQueueDrain
            \/ QueueFreeNew
            \/ QueueFreeWait
            \/ QueueFreeEnqueue
            \/ QueueFreeJoin

Next == (\E t \in Threads : ThreadStep(t)) \/ GcStep \/ StopStep

Spec == Init /\ [][Next]_vars

\* Every section in which a thread is awake ends (an outer one however often
\* nested ones are entered), every call into q_gc.c is completed, and the gc
\* thread, which only ever waits with a timeout, keeps running.
AsleepFrom(t, n) == nest[t] = n /\ Asleep(t)

Progress(t) == \/ AwakeStoreVtime(t)
               \/ \E u \in Threads : GatherLoadVtime(t, u)
               \/ GatherLoadGv(t)
               \/ GcreqNew(t)
               \/ GcreqEnqueue(t)

FairSpec == /\ Spec
            /\ \A t \in Threads : WF_vars(Progress(t))
            /\ \A t \in Threads, n \in 1 .. MaxNest : SF_vars(AsleepFrom(t, n))
            /\ WF_vars(GcStep)
            /\ WF_vars(StopStep)
-----------------------------------------------------------------------------
(* Correctness *)

ThreadTypes ==
  /\ time \in [Threads -> Times]
  /\ nest \in [Threads -> 0 .. MaxNest]
  /\ gv \in [Threads -> Domains]
  /\ level \in [Threads -> Seq(Domains)]
  /\ refs \in [Threads -> SUBSET Objects]

ControlTypes ==
  /\ pc \in [Threads -> {"run", "waking", "gather", "gatherGv", "new"}]
  /\ gcpc \in {"loop", "leaseWake", "lease", "check", "cbWake", "cb", "cbSleep", "done"}
  /\ hand \in Requests \cup {NoReq}
  /\ spc \in {"running", "drain", "drainWait", "drained", "freeTerm", "freeTest",
             "freeWait", "freeEnqueue", "join", "joined"}

RequestTypes ==
  /\ life \in [Objects -> {"linked", "unlinked", "freed"}]
  /\ requeued \subseteq Objects
  /\ todo \in [Threads -> SUBSET Threads]
  /\ cand \in [Threads -> Threads]
  /\ at \in [Threads -> Times]
  /\ obj \in [Threads -> Requests]
  /\ ivs \in [Requests -> [Threads -> Times \cup {NotWaiting}]]
  /\ queue \in Seq(Requests)
  /\ count \in Int
  /\ terminate \in BOOLEAN

\* Type invariant: every variable of the collector keeps its range.
TypeOK == ThreadTypes /\ ControlTypes /\ RequestTypes

\* No thread has a pointer to memory a gc callback has already freed, however
\* its wake-ups, look-ups and sleeps interleave with unlinking, gathering and
\* checking in other threads.
NoUseAfterFree == \A t \in Threads : \A o \in refs[t] : life[o] # "freed"

\* The queue's count is the number of requests somebody still has to process:
\* created and not yet enqueued, queued, in the gc thread's hand and not yet
\* freed or requeued, or held back by gcreq_queue_free. Drain and shutdown wait
\* on this number.
CountsOutstanding ==
  count = Cardinality({t \in Threads : pc[t] = "new"}) + Len(queue)
          + (IF hand # NoReq /\ gcpc # "cbSleep" THEN 1 ELSE 0)
          + (IF spc \in {"freeTerm", "freeTest", "freeWait", "freeEnqueue"} THEN 1 ELSE 0)

\* When gcreq_queue_free has joined the gc thread, nothing is left behind: the
\* queue is empty (its assertion) and every object has been freed.
ShutdownClean ==
  spc = "joined" => /\ queue = <<>> /\ hand = NoReq /\ count = 0
                    /\ \A o \in Objects : life[o] = "freed"

\* The collector does what Reclaim says: it frees only what no thread refers to.
R == INSTANCE Reclaim WITH Threads <- Threads, Objects <- Objects, life <- life, refs <- refs
ImplementsReclaim == R!Spec

\* Everything unlinked is freed eventually, and shutdown completes: no wake-up
\* on the condition variable is lost and no request waits for a thread that
\* has moved on.
UnlinkedIsFreed == \A o \in Objects : life[o] = "unlinked" ~> life[o] = "freed"
ShutdownCompletes == spc = "drain" ~> spc = "joined"
=============================================================================
