----------------------------- MODULE Gc_proofs -----------------------------
(***************************************************************************)
(* Proofs about Gc for any number of threads, objects and domains and any  *)
(* clock width, as long as no thread enters a second domain while awake.   *)
(***************************************************************************)
EXTENDS Gc, SequenceTheorems, FiniteSetTheorems, TLAPS

\* A thread's level list has one entry per nested section, all in the domain
\* its gv names.
Levels == \A t \in Threads : /\ Len(level[t]) = nest[t]
                              /\ \A i \in 1 .. Len(level[t]) : level[t][i] = gv[t]

\* A thread about to be awake has room to nest; the gc thread is awake exactly
\* around the lease check and the callbacks.
Control ==
  /\ \A t \in Threads : pc[t] = "waking" => t # GcThread /\ nest[t] < MaxNest
  /\ gcpc \notin {"lease", "cb"} => pc[GcThread] = "run"
  /\ gcpc \in {"lease", "cb", "cbSleep"} => nest[GcThread] = 1
  /\ gcpc \notin {"lease", "cb", "cbSleep"} => nest[GcThread] = 0

Typed == TypeOK /\ Levels /\ Control

USE DEF threadVars, gatherVars, queueVars, vars

LEMMA InitTyped == Init => Typed
<1> SUFFICES ASSUME Init PROVE Typed
  OBVIOUS
<1> USE GcConstants DEF Init
<1>1. level \in [Threads -> Seq(Domains)] /\ queue \in Seq(Requests)
  BY EmptySeq
<1>2. ThreadTypes
  BY <1>1 DEF ThreadTypes
<1>3. ControlTypes
  BY DEF ControlTypes
<1>4. terminate \in BOOLEAN
  OBVIOUS
<1>5. RequestTypes
  BY <1>1, <1>4 DEF RequestTypes, Requests
<1>6. Levels /\ Control
  BY EmptySeq DEF Levels, Control
<1>7. QED
  BY <1>2, <1>3, <1>5, <1>6 DEF Typed, TypeOK

LEMMA TickType ==
  ASSUME NEW t \in Threads, time \in [Threads -> Times], Tick(t)
  PROVE  time' \in [Threads -> Times]
  BY GcConstants DEF Tick, Times

LEMMA RiseTyped ==
  ASSUME NEW t \in Threads, ThreadTypes, Levels, Rise(t), nest[t] < MaxNest
  PROVE  ThreadTypes' /\ Levels' /\ nest' = [nest EXCEPT ![t] = @ + 1]
  BY GcConstants DEF Rise, ThreadTypes, Levels

LEMMA PopLevelShorter ==
  ASSUME NEW t \in Threads, ThreadTypes, Levels, nest[t] > 0
  PROVE  /\ PopLevel(t) \in Seq(Domains)
         /\ Len(PopLevel(t)) = nest[t] - 1
         /\ \A i \in 1 .. nest[t] - 1 : PopLevel(t)[i] = gv[t]
<1>1. /\ level[t] \in Seq(Domains) /\ Len(level[t]) = nest[t] /\ nest[t] \in Nat
      /\ \A i \in 1 .. Len(level[t]) : level[t][i] = gv[t]
  BY GcConstants DEF ThreadTypes, Levels
<1>2. \A i \in 1 .. Len(level[t]) - 1 : level[t][i] \in Domains
  BY <1>1, ElementOfSeq
<1>3. QED
  BY <1>1, <1>2, SubSeqProperties DEF PopLevel

LEMMA FallTyped ==
  ASSUME NEW t \in Threads, ThreadTypes, Levels, Fall(t), nest[t] > 0, gv' = gv
  PROVE  ThreadTypes' /\ Levels' /\ nest' = [nest EXCEPT ![t] = @ - 1]
<1> USE GcConstants
<1>1. /\ PopLevel(t) \in Seq(Domains)
      /\ Len(PopLevel(t)) = nest[t] - 1
      /\ \A i \in 1 .. nest[t] - 1 : PopLevel(t)[i] = gv[t]
  BY PopLevelShorter
<1>2. time' \in [Threads -> Times]
  BY TickType DEF Fall, ThreadTypes
<1>3. nest' = [nest EXCEPT ![t] = @ - 1] /\ nest' \in [Threads -> 0 .. MaxNest]
  BY DEF Fall, ThreadTypes
<1>4. level' = [level EXCEPT ![t] = PopLevel(t)] /\ level' \in [Threads -> Seq(Domains)]
  BY <1>1 DEF Fall, ThreadTypes
<1>5. refs' \in [Threads -> SUBSET Objects]
  BY DEF Fall, ThreadTypes
<1>6. Levels'
  BY <1>1, <1>3, <1>4 DEF Levels, ThreadTypes
<1>7. QED
  BY <1>2, <1>3, <1>4, <1>5, <1>6 DEF ThreadTypes

LEMMA EnqueueTyped ==
  ASSUME NEW r \in Requests, TypeOK, GcreqEnqueueCommon(r), hand' \in Requests \cup {NoReq},
         pc' \in [Threads -> {"run", "waking", "gather", "gatherGv", "new"}],
         gcpc' \in {"loop", "leaseWake", "lease", "check", "cbWake", "cb", "cbSleep", "done"}
  PROVE  queue' \in Seq(Requests) /\ ControlTypes'
<1>1. queue' \in Seq(Requests)
  BY AppendProperties DEF TypeOK, RequestTypes, GcreqEnqueueCommon
<1>2. CASE queue = <<>>
  BY <1>1, <1>2 DEF TypeOK, ControlTypes, GcreqEnqueueCommon, Broadcast
<1>3. CASE queue # <<>>
  BY <1>1, <1>3 DEF TypeOK, ControlTypes, GcreqEnqueueCommon
<1>4. QED
  BY <1>2, <1>3

LEMMA NextTyped == ASSUME Typed, ~CrossDomain, [Next]_vars PROVE Typed'
<1> USE GcConstants
<1> ThreadTypes /\ ControlTypes /\ RequestTypes /\ TypeOK /\ Levels /\ Control
  BY DEF Typed, TypeOK
<1>1. ASSUME NEW t \in Threads, NEW d \in Domains, AwakeStoreGv(t, d) PROVE Typed'
  <2>2. ThreadTypes' /\ Levels'
    BY <1>1 DEF AwakeStoreGv, MayEnter, AwakeP, ThreadTypes, Levels
  <2>3. ControlTypes'
    BY <1>1 DEF AwakeStoreGv, ControlTypes
  <2>4. RequestTypes'
    BY <1>1 DEF AwakeStoreGv, RequestTypes, ThreadTypes
  <2>5. Control'
    BY <1>1, <2>2 DEF AwakeStoreGv, Control, ThreadTypes, ControlTypes
  <2>6. QED
    BY <2>2, <2>3, <2>4, <2>5 DEF Typed, TypeOK
<1>2. ASSUME NEW t \in Threads, AwakeStoreVtime(t) PROVE Typed'
  <2>1. Rise(t) /\ nest[t] < MaxNest
    BY <1>2 DEF AwakeStoreVtime, Control
  <2>2. ThreadTypes' /\ Levels' /\ nest' = [nest EXCEPT ![t] = @ + 1]
    BY <2>1, RiseTyped
  <2>3. ControlTypes'
    BY <1>2 DEF AwakeStoreVtime, ControlTypes
  <2>4. RequestTypes'
    BY <1>2 DEF AwakeStoreVtime, RequestTypes, ThreadTypes
  <2>5. Control'
    BY <1>2, <2>2 DEF AwakeStoreVtime, Control, ThreadTypes, ControlTypes
  <2>6. QED
    BY <2>2, <2>3, <2>4, <2>5 DEF Typed, TypeOK
<1>3. ASSUME NEW t \in Threads, AwakeDomainOk(t) PROVE Typed'
  <2>1. Rise(t) /\ nest[t] < MaxNest
    BY <1>3 DEF AwakeDomainOk, Control
  <2>2. ThreadTypes' /\ Levels' /\ nest' = [nest EXCEPT ![t] = @ + 1]
    BY <2>1, RiseTyped
  <2>3. ControlTypes'
    BY <1>3 DEF AwakeDomainOk, ControlTypes
  <2>4. RequestTypes'
    BY <1>3 DEF AwakeDomainOk, RequestTypes, ThreadTypes
  <2>5. Control'
    BY <1>3, <2>2 DEF AwakeDomainOk, Control, ThreadTypes, ControlTypes
  <2>6. QED
    BY <2>2, <2>3, <2>4, <2>5 DEF Typed, TypeOK
<1>4. ASSUME NEW t \in Threads, Asleep(t) PROVE Typed'
  <2>1. Fall(t) /\ nest[t] > 0 /\ gv' = gv
    BY <1>4 DEF Asleep, Control, AwakeP
  <2>2. ThreadTypes' /\ Levels' /\ nest' = [nest EXCEPT ![t] = @ - 1]
    BY <2>1, FallTyped
  <2>3. ControlTypes'
    BY <1>4 DEF Asleep, ControlTypes
  <2>4. RequestTypes'
    BY <1>4 DEF Asleep, RequestTypes, ThreadTypes
  <2>5. Control'
    BY <1>4, <2>2 DEF Asleep, Control, ThreadTypes, ControlTypes
  <2>6. QED
    BY <2>2, <2>3, <2>4, <2>5 DEF Typed, TypeOK
<1>5. ASSUME NEW t \in Threads, AwakeToAwakeNoNest(t) PROVE Typed'
  <2>2. ThreadTypes' /\ Levels'
    BY <1>5, TickType DEF AwakeToAwakeNoNest, ThreadTypes, Levels
  <2>3. ControlTypes'
    BY <1>5 DEF AwakeToAwakeNoNest, ControlTypes
  <2>4. RequestTypes'
    BY <1>5 DEF AwakeToAwakeNoNest, RequestTypes, ThreadTypes
  <2>5. Control'
    BY <1>5, <2>2 DEF AwakeToAwakeNoNest, Control, ThreadTypes, ControlTypes
  <2>6. QED
    BY <2>2, <2>3, <2>4, <2>5 DEF Typed, TypeOK
<1>6. ASSUME NEW t \in Threads, NEW o \in Objects, Lookup(t, o) PROVE Typed'
  <2>2. ThreadTypes' /\ Levels'
    BY <1>6 DEF Lookup, ThreadTypes, Levels
  <2>3. ControlTypes'
    BY <1>6 DEF Lookup, ControlTypes
  <2>4. RequestTypes'
    BY <1>6 DEF Lookup, RequestTypes, ThreadTypes
  <2>5. Control'
    BY <1>6, <2>2 DEF Lookup, Control, ThreadTypes, ControlTypes
  <2>6. QED
    BY <2>2, <2>3, <2>4, <2>5 DEF Typed, TypeOK
<1>7. ASSUME NEW t \in Threads, NEW o \in Objects, Unlink(t, o) PROVE Typed'
  <2>2. ThreadTypes' /\ Levels'
    BY <1>7 DEF Unlink, ThreadTypes, Levels
  <2>3. ControlTypes'
    BY <1>7 DEF Unlink, ControlTypes, InDomain, Requests
  <2>4. RequestTypes'
    BY <1>7 DEF Unlink, RequestTypes, ThreadTypes, InDomain, Requests
  <2>5. Control'
    BY <1>7, <2>2 DEF Unlink, Control, ThreadTypes, ControlTypes, InDomain
  <2>6. QED
    BY <2>2, <2>3, <2>4, <2>5 DEF Typed, TypeOK
<1>8. ASSUME NEW t \in Threads, NEW u \in Threads, GatherLoadVtime(t, u) PROVE Typed'
  <2>2. ThreadTypes' /\ Levels'
    BY <1>8 DEF GatherLoadVtime, ThreadTypes, Levels
  <2>3. ControlTypes'
    BY <1>8 DEF GatherLoadVtime, ControlTypes
  <2>4. RequestTypes'
    <3>1. todo' \in [Threads -> SUBSET Threads]
      BY <1>8 DEF GatherLoadVtime, RequestTypes
    <3>2. cand' \in [Threads -> Threads] /\ at' \in [Threads -> Times]
      <4>1. CASE AwakeP(u)
        <5>1. cand' = [cand EXCEPT ![t] = u] /\ at' = [at EXCEPT ![t] = time[u]]
          BY <1>8, <4>1 DEF GatherLoadVtime
        <5>2. time[u] \in Times
          BY DEF ThreadTypes
        <5>3. QED
          BY <5>1, <5>2 DEF RequestTypes
      <4>2. CASE ~AwakeP(u)
        BY <1>8, <4>2 DEF GatherLoadVtime, RequestTypes
      <4>3. QED
        BY <4>1, <4>2
    <3>3. QED
      BY <1>8, <3>1, <3>2 DEF GatherLoadVtime, RequestTypes
  <2>5. Control'
    BY <1>8, <2>2 DEF GatherLoadVtime, Control, ThreadTypes, ControlTypes
  <2>6. QED
    BY <2>2, <2>3, <2>4, <2>5 DEF Typed, TypeOK
<1>9. ASSUME NEW t \in Threads, GatherLoadGv(t) PROVE Typed'
  <2>2. ThreadTypes' /\ Levels'
    BY <1>9 DEF GatherLoadGv, ThreadTypes, Levels
  <2>3. ControlTypes'
    BY <1>9 DEF GatherLoadGv, ControlTypes
  <2>4. RequestTypes'
    BY <1>9 DEF GatherLoadGv, RequestTypes, ThreadTypes
  <2>5. Control'
    BY <1>9, <2>2 DEF GatherLoadGv, Control, ThreadTypes, ControlTypes
  <2>6. QED
    BY <2>2, <2>3, <2>4, <2>5 DEF Typed, TypeOK
<1>10. ASSUME NEW t \in Threads, GcreqNew(t) PROVE Typed'
  <2>2. ThreadTypes' /\ Levels'
    BY <1>10 DEF GcreqNew, ThreadTypes, Levels
  <2>3. ControlTypes'
    BY <1>10 DEF GcreqNew, ControlTypes
  <2>4. RequestTypes'
    BY <1>10 DEF GcreqNew, RequestTypes, ThreadTypes
  <2>5. Control'
    BY <1>10, <2>2 DEF GcreqNew, Control, ThreadTypes, ControlTypes
  <2>6. QED
    BY <2>2, <2>3, <2>4, <2>5 DEF Typed, TypeOK
<1>11. ASSUME NEW t \in Threads, GcreqEnqueue(t) PROVE Typed'
  <2>2. ThreadTypes' /\ Levels'
    BY <1>11 DEF GcreqEnqueue, ThreadTypes, Levels
  <2>3. queue' \in Seq(Requests) /\ ControlTypes'
    BY <1>11, EnqueueTyped DEF GcreqEnqueue, ControlTypes, RequestTypes, Requests
  <2>4. RequestTypes'
    BY <1>11, <2>3 DEF GcreqEnqueue, RequestTypes, Requests
  <2>5. Control'
    BY <1>11, <2>2 DEF GcreqEnqueue, Control, ThreadTypes, ControlTypes
  <2>6. QED
    BY <2>2, <2>3, <2>4, <2>5 DEF Typed, TypeOK
<1>12. ASSUME GcTake PROVE Typed'
  <2>2. ThreadTypes' /\ Levels'
    BY <1>12 DEF GcTake, ThreadTypes, Levels
  <2>3. queue' \in Seq(Requests) /\ hand' \in Requests \cup {NoReq}
    <3>1. CASE hand = NoReq /\ queue # <<>>
      <4>1. Head(queue) \in Requests /\ Tail(queue) \in Seq(Requests)
        BY <3>1, HeadTailProperties DEF RequestTypes
      <4>2. QED
        BY <1>12, <3>1, <4>1 DEF GcTake
    <3>2. CASE ~(hand = NoReq /\ queue # <<>>)
      BY <1>12, <3>2 DEF GcTake, RequestTypes, ControlTypes
    <3>3. QED
      BY <3>1, <3>2
  <2>4. ControlTypes' /\ RequestTypes'
    BY <1>12, <2>3 DEF GcTake, ControlTypes, RequestTypes
  <2>5. Control'
    BY <1>12, <2>2 DEF GcTake, Control, ThreadTypes, ControlTypes
  <2>6. QED
    BY <2>2, <2>3, <2>4, <2>5 DEF Typed, TypeOK
<1>13. ASSUME GcExit PROVE Typed'
  <2>2. ThreadTypes' /\ Levels'
    BY <1>13 DEF GcExit, ThreadTypes, Levels
  <2>3. ControlTypes'
    BY <1>13 DEF GcExit, ControlTypes
  <2>4. RequestTypes'
    BY <1>13 DEF GcExit, RequestTypes, ThreadTypes
  <2>5. Control'
    BY <1>13, <2>2 DEF GcExit, Control, ThreadTypes, ControlTypes
  <2>6. QED
    BY <2>2, <2>3, <2>4, <2>5 DEF Typed, TypeOK
<1>14. ASSUME GcWake PROVE Typed'
  <2>1. Rise(GcThread) /\ nest[GcThread] < MaxNest
    BY <1>14 DEF GcWake, Control
  <2>2. ThreadTypes' /\ Levels' /\ nest' = [nest EXCEPT ![GcThread] = @ + 1]
    BY <2>1, RiseTyped
  <2>3. ControlTypes'
    BY <1>14 DEF GcWake, ControlTypes
  <2>4. RequestTypes'
    BY <1>14 DEF GcWake, RequestTypes, ThreadTypes
  <2>5. Control'
    BY <1>14, <2>2 DEF GcWake, Control, ThreadTypes, ControlTypes
  <2>6. QED
    BY <2>2, <2>3, <2>4, <2>5 DEF Typed, TypeOK
<1>15. ASSUME GcLeaseSleep PROVE Typed'
  <2>1. Fall(GcThread) /\ nest[GcThread] > 0 /\ gv' = gv
    BY <1>15 DEF GcLeaseSleep, Control, AwakeP
  <2>2. ThreadTypes' /\ Levels' /\ nest' = [nest EXCEPT ![GcThread] = @ - 1]
    BY <2>1, FallTyped
  <2>3. ControlTypes'
    BY <1>15 DEF GcLeaseSleep, ControlTypes
  <2>4. RequestTypes'
    BY <1>15 DEF GcLeaseSleep, RequestTypes, ThreadTypes
  <2>5. Control'
    BY <1>15, <2>2 DEF GcLeaseSleep, Control, ThreadTypes, ControlTypes
  <2>6. QED
    BY <2>2, <2>3, <2>4, <2>5 DEF Typed, TypeOK
<1>16. ASSUME GcCheck PROVE Typed'
  <2>2. ThreadTypes' /\ Levels'
    BY <1>16 DEF GcCheck, ThreadTypes, Levels
  <2>3. ControlTypes'
    BY <1>16 DEF GcCheck, ControlTypes
  <2>4. RequestTypes'
    <3>1. ivs' \in [Requests -> [Threads -> Times \cup {NotWaiting}]]
      BY <1>16 DEF GcCheck, RequestTypes
    <3>2. QED
      BY <1>16, <3>1 DEF GcCheck, RequestTypes
  <2>5. Control'
    BY <1>16, <2>2 DEF GcCheck, Control, ThreadTypes, ControlTypes
  <2>6. QED
    BY <2>2, <2>3, <2>4, <2>5 DEF Typed, TypeOK
<1>17. ASSUME GcreqFree PROVE Typed'
  <2>2. ThreadTypes' /\ Levels'
    BY <1>17 DEF GcreqFree, ThreadTypes, Levels
  <2>3. ControlTypes'
    BY <1>17 DEF GcreqFree, ControlTypes, Broadcast
  <2>4. RequestTypes'
    BY <1>17 DEF GcreqFree, RequestTypes, ThreadTypes, Broadcast
  <2>5. Control'
    BY <1>17, <2>2 DEF GcreqFree, Control, ThreadTypes, ControlTypes
  <2>6. QED
    BY <2>2, <2>3, <2>4, <2>5 DEF Typed, TypeOK
<1>18. ASSUME GcreqRequeue PROVE Typed'
  <2>2. ThreadTypes' /\ Levels'
    BY <1>18 DEF GcreqRequeue, ThreadTypes, Levels
  <2>3. queue' \in Seq(Requests) /\ ControlTypes'
    BY <1>18, EnqueueTyped DEF GcreqRequeue, ControlTypes, RequestTypes, Requests
  <2>4. RequestTypes'
    BY <1>18, <2>3 DEF GcreqRequeue, RequestTypes, Requests
  <2>5. Control'
    BY <1>18, <2>2 DEF GcreqRequeue, Control, ThreadTypes, ControlTypes
  <2>6. QED
    BY <2>2, <2>3, <2>4, <2>5 DEF Typed, TypeOK
<1>19. ASSUME GcCbSleep PROVE Typed'
  <2>1. Fall(GcThread) /\ nest[GcThread] > 0 /\ gv' = gv
    BY <1>19 DEF GcCbSleep, Control, AwakeP
  <2>2. ThreadTypes' /\ Levels' /\ nest' = [nest EXCEPT ![GcThread] = @ - 1]
    BY <2>1, FallTyped
  <2>3. ControlTypes'
    BY <1>19 DEF GcCbSleep, ControlTypes
  <2>4. RequestTypes'
    BY <1>19 DEF GcCbSleep, RequestTypes, ThreadTypes
  <2>5. Control'
    BY <1>19, <2>2 DEF GcCbSleep, Control, ThreadTypes, ControlTypes
  <2>6. QED
    BY <2>2, <2>3, <2>4, <2>5 DEF Typed, TypeOK
<1>20. ASSUME DrainBegin PROVE Typed'
  <2>2. ThreadTypes' /\ Levels'
    BY <1>20 DEF DrainBegin, ThreadTypes, Levels
  <2>3. ControlTypes'
    BY <1>20 DEF DrainBegin, ControlTypes
  <2>4. RequestTypes'
    BY <1>20 DEF DrainBegin, RequestTypes, ThreadTypes
  <2>5. Control'
    BY <1>20, <2>2 DEF DrainBegin, Control, ThreadTypes, ControlTypes
  <2>6. QED
    BY <2>2, <2>3, <2>4, <2>5 DEF Typed, TypeOK
<1>21. ASSUME GcreqQueueDrain PROVE Typed'
  <2>2. ThreadTypes' /\ Levels'
    BY <1>21 DEF GcreqQueueDrain, ThreadTypes, Levels
  <2>3. ControlTypes'
    BY <1>21 DEF GcreqQueueDrain, ControlTypes
  <2>4. RequestTypes'
    BY <1>21 DEF GcreqQueueDrain, RequestTypes, ThreadTypes
  <2>5. Control'
    BY <1>21, <2>2 DEF GcreqQueueDrain, Control, ThreadTypes, ControlTypes
  <2>6. QED
    BY <2>2, <2>3, <2>4, <2>5 DEF Typed, TypeOK
<1>22. ASSUME QueueFreeNew PROVE Typed'
  <2>2. ThreadTypes' /\ Levels'
    BY <1>22 DEF QueueFreeNew, ThreadTypes, Levels
  <2>3. ControlTypes'
    BY <1>22 DEF QueueFreeNew, ControlTypes
  <2>4. RequestTypes'
    <3>1. ivs' \in [Requests -> [Threads -> Times \cup {NotWaiting}]]
      BY <1>22 DEF QueueFreeNew, RequestTypes
    <3>2. QED
      BY <1>22, <3>1 DEF QueueFreeNew, RequestTypes
  <2>5. Control'
    BY <1>22, <2>2 DEF QueueFreeNew, Control, ThreadTypes, ControlTypes
  <2>6. QED
    BY <2>2, <2>3, <2>4, <2>5 DEF Typed, TypeOK
<1>23. ASSUME QueueFreeWait PROVE Typed'
  <2>2. ThreadTypes' /\ Levels'
    BY <1>23 DEF QueueFreeWait, ThreadTypes, Levels
  <2>3. ControlTypes'
    BY <1>23 DEF QueueFreeWait, ControlTypes
  <2>4. RequestTypes'
    BY <1>23 DEF QueueFreeWait, RequestTypes, ThreadTypes
  <2>5. Control'
    BY <1>23, <2>2 DEF QueueFreeWait, Control, ThreadTypes, ControlTypes
  <2>6. QED
    BY <2>2, <2>3, <2>4, <2>5 DEF Typed, TypeOK
<1>24. ASSUME QueueFreeEnqueue PROVE Typed'
  <2>2. ThreadTypes' /\ Levels'
    BY <1>24 DEF QueueFreeEnqueue, ThreadTypes, Levels
  <2>3. ControlTypes'
    BY <1>24 DEF QueueFreeEnqueue, ControlTypes, Requests
  <2>4. RequestTypes'
    BY <1>24 DEF QueueFreeEnqueue, RequestTypes, ThreadTypes, Requests
  <2>5. Control'
    BY <1>24, <2>2 DEF QueueFreeEnqueue, Control, ThreadTypes, ControlTypes
  <2>6. QED
    BY <2>2, <2>3, <2>4, <2>5 DEF Typed, TypeOK
<1>25. ASSUME QueueFreeJoin PROVE Typed'
  <2>2. ThreadTypes' /\ Levels'
    BY <1>25 DEF QueueFreeJoin, ThreadTypes, Levels
  <2>3. ControlTypes'
    BY <1>25 DEF QueueFreeJoin, ControlTypes
  <2>4. RequestTypes'
    BY <1>25 DEF QueueFreeJoin, RequestTypes, ThreadTypes
  <2>5. Control'
    BY <1>25, <2>2 DEF QueueFreeJoin, Control, ThreadTypes, ControlTypes
  <2>6. QED
    BY <2>2, <2>3, <2>4, <2>5 DEF Typed, TypeOK
<1>26. CASE UNCHANGED vars
  BY <1>26 DEF Typed, TypeOK, ThreadTypes, ControlTypes, RequestTypes, Levels, Control
<1>27. QED
  BY <1>1, <1>2, <1>3, <1>4, <1>5, <1>6, <1>7, <1>8, <1>9, <1>10, <1>11, <1>12, <1>13,
     <1>14, <1>15, <1>16, <1>17, <1>18, <1>19, <1>20, <1>21, <1>22, <1>23, <1>24, <1>25,
     <1>26 DEF Next, ThreadStep, GcStep, StopStep

\* Type correctness of the collector, q_gc.c.
THEOREM TypeCorrect == ASSUME ~CrossDomain PROVE Spec => []TypeOK
<1>1. Init => Typed
  BY InitTyped
<1>2. Typed /\ [Next]_vars => Typed'
  BY NextTyped
<1>3. Typed => TypeOK
  BY DEF Typed
<1>4. QED
  BY <1>1, <1>2, <1>3, PTL DEF Spec

(***************************************************************************)
(* The inductive invariant behind NoUseAfterFree.                          *)
(***************************************************************************)

Making(s) == pc[s] \in {"gather", "gatherGv", "new"}
Gathering(s) == pc[s] \in {"gather", "gatherGv"}
Queued(r) == \E i \in 1 .. Len(queue) : queue[i] = r

\* An unlinked object has its request in one place: with the thread that is
\* creating it, in the queue, or in the gc thread's hand.
OnePlace ==
  /\ \A s \in Threads : Making(s) => /\ obj[s] \in Objects
                                      /\ life[obj[s]] = "unlinked"
                                      /\ obj[s] # hand /\ ~Queued(obj[s])
  /\ \A s, u \in Threads : Making(s) /\ Making(u) /\ obj[s] = obj[u] => s = u
  /\ \A i \in 1 .. Len(queue) : queue[i] \in Objects => life[queue[i]] = "unlinked"
  /\ \A i, j \in 1 .. Len(queue) : queue[i] = queue[j] => i = j
  /\ hand \in Objects => life[hand] # "linked"
  /\ gcpc # "cbSleep" => /\ ~Queued(hand)
                         /\ hand \in Objects => life[hand] = "unlinked"
  /\ spc \notin {"join", "joined"} => hand # NoOp /\ ~Queued(NoOp)

\* A request in hand has been checked before its callback runs.
Checked ==
  /\ gcpc \in {"check", "cbWake", "cb", "cbSleep"} => hand # NoReq
  /\ gcpc \in {"cbWake", "cb"} => \A t \in Threads : ivs[hand][t] = NotWaiting

\* gather_for_wait visits every thread once: before that it is not recorded.
Unvisited ==
  /\ \A o \in Objects : life[o] = "linked" => \A t \in Threads : ivs[o][t] = NotWaiting
  /\ \A s \in Threads : Gathering(s) => \A u \in todo[s] : ivs[obj[s]][u] = NotWaiting
  /\ \A s \in Threads : pc[s] = "gatherGv" => /\ cand[s] \notin todo[s]
                                               /\ ivs[obj[s]][cand[s]] = NotWaiting

\* Only a thread awake in the domain holds pointers into it.
Holders == \A t \in Threads : refs[t] # {} => nest[t] > 0 /\ gv[t] = Gv

\* The request for o will not become ready before thread t moves on: t is yet
\* to be visited, or its present clock value was loaded, or is recorded.
Watched(o, t) ==
  \/ ivs[o][t] = time[t]
  \/ \E s \in Threads : /\ Gathering(s) /\ obj[s] = o
                         /\ \/ t \in todo[s]
                            \/ pc[s] = "gatherGv" /\ cand[s] = t /\ at[s] = time[t]

Protected == \A t \in Threads : \A o \in refs[t] :
                \/ life[o] = "linked"
                \/ life[o] = "unlinked" /\ Watched(o, t)

IInv == Typed /\ OnePlace /\ Checked /\ Unvisited /\ Holders /\ Protected

\* Steps that move no request and no object from one place to another.
LEMMA OnePlaceFrame ==
  ASSUME OnePlace, UNCHANGED <<life, queue, hand, obj>>,
         \A s \in Threads : Making(s)' => Making(s),
         gcpc = "cbSleep" => gcpc' = "cbSleep",
         spc \in {"join", "joined"} => spc' \in {"join", "joined"}
  PROVE  OnePlace'
  BY DEF OnePlace, Queued

LEMMA AppendQueued ==
  ASSUME NEW r \in Requests, queue \in Seq(Requests), queue' = Append(queue, r)
  PROVE  /\ Len(queue') = Len(queue) + 1 /\ Len(queue) \in Nat
         /\ queue'[Len(queue) + 1] = r
         /\ \A i \in 1 .. Len(queue) : queue'[i] = queue[i]
         /\ \A x : Queued(x)' <=> Queued(x) \/ x = r
<1>1. /\ Len(queue') = Len(queue) + 1 /\ Len(queue) \in Nat
      /\ queue'[Len(queue) + 1] = r
      /\ \A i \in 1 .. Len(queue) : queue'[i] = queue[i]
  BY AppendProperties, LenProperties
<1>2. ASSUME NEW x PROVE Queued(x)' <=> Queued(x) \/ x = r
  BY <1>1 DEF Queued
<1>3. QED
  BY <1>1, <1>2

LEMMA EnqueueSpc ==
  ASSUME NEW r, GcreqEnqueueCommon(r) \/ Broadcast
  PROVE  spc \in {"join", "joined"} <=> spc' \in {"join", "joined"}
  BY DEF GcreqEnqueueCommon, Broadcast

LEMMA NextOnePlace ==
  ASSUME Typed, OnePlace, Checked, [Next]_vars PROVE OnePlace'
<1> USE GcConstants
<1> ThreadTypes /\ ControlTypes /\ RequestTypes /\ Control
  BY DEF Typed, TypeOK
<1>1. ASSUME NEW t \in Threads, NEW o \in Objects, Unlink(t, o) PROVE OnePlace'
  <2>1. ~Making(t) /\ life[o] = "linked"
    BY <1>1 DEF Unlink, InDomain, Making
  <2>2. /\ \A s \in Threads : Making(s)' <=> Making(s) \/ s = t
        /\ obj' = [obj EXCEPT ![t] = o] /\ life' = [life EXCEPT ![o] = "unlinked"]
        /\ UNCHANGED <<queue, hand, gcpc, spc>>
    BY <1>1 DEF Unlink, Making, ControlTypes
  <2>3. o # hand /\ ~Queued(o) /\ \A s \in Threads : Making(s) => obj[s] # o
    BY <2>1 DEF OnePlace, Queued
  <2>4. QED
    BY <2>1, <2>2, <2>3 DEF OnePlace, Queued, RequestTypes
<1>2. ASSUME NEW t \in Threads, GcreqEnqueue(t) PROVE OnePlace'
  <2>1. /\ Making(t) /\ queue' = Append(queue, obj[t]) /\ obj[t] \in Objects
        /\ \A s \in Threads : Making(s)' => Making(s) /\ s # t
        /\ \A s \in Threads : s # t => obj'[s] = obj[s]
        /\ UNCHANGED <<hand, gcpc, life>>
    BY <1>2 DEF GcreqEnqueue, GcreqEnqueueCommon, Making, ControlTypes, RequestTypes, OnePlace
  <2>2. /\ Len(queue') = Len(queue) + 1 /\ Len(queue) \in Nat
        /\ queue'[Len(queue) + 1] = obj[t]
        /\ \A i \in 1 .. Len(queue) : queue'[i] = queue[i]
        /\ \A x : Queued(x)' <=> Queued(x) \/ x = obj[t]
    BY <2>1, AppendQueued DEF RequestTypes
  <2>3. spc' \notin {"join", "joined"} => spc \notin {"join", "joined"}
    BY <1>2, EnqueueSpc DEF GcreqEnqueue
  <2>4. QED
    BY <2>1, <2>2, <2>3 DEF OnePlace, Queued
<1>3. CASE GcTake
  <2>1. CASE hand = NoReq /\ queue # <<>>
    <3>1. /\ hand' = queue[1] /\ Len(queue) \in Nat /\ Len(queue) > 0
          /\ Len(queue') = Len(queue) - 1
          /\ \A i \in 1 .. Len(queue') : queue'[i] = queue[i + 1]
      <4>1. hand' = Head(queue) /\ queue' = Tail(queue) /\ queue \in Seq(Requests)
        BY <1>3, <2>1 DEF GcTake, RequestTypes
      <4>2. /\ Len(Tail(queue)) = Len(queue) - 1
            /\ \A i \in 1 .. Len(Tail(queue)) : Tail(queue)[i] = queue[i + 1]
        BY <2>1, <4>1, HeadTailProperties
      <4>3. Len(queue) \in Nat /\ Len(queue) > 0
        BY <2>1, <4>1, LenProperties, EmptySeq
      <4>4. QED
        BY <4>1, <4>2, <4>3
    <3>2. /\ UNCHANGED <<life, obj, spc, pc>>
          /\ gcpc # "cbSleep" /\ gcpc' # "cbSleep"
      BY <1>3 DEF GcTake
    <3>3. \A x : Queued(x)' => Queued(x)
      BY <3>1 DEF Queued
    <3>4. \A i \in 1 .. Len(queue') : queue'[i] # hand'
      BY <3>1 DEF OnePlace
    <3>5. hand' \in Objects => life[hand'] = "unlinked"
      BY <3>1 DEF OnePlace
    <3>6. \A s \in Threads : Making(s) => obj[s] # hand'
      BY <3>1 DEF OnePlace, Queued
    <3>7. spc \notin {"join", "joined"} => hand' # NoOp
      BY <3>1 DEF OnePlace, Queued
    <3>8. \A s \in Threads : Making(s)' <=> Making(s)
      BY <3>2 DEF Making
    <3>9. \A i \in 1 .. Len(queue') : queue'[i] \in Objects => life'[queue'[i]] = "unlinked"
      BY <3>1, <3>2 DEF OnePlace
    <3>10. \A i, j \in 1 .. Len(queue') : queue'[i] = queue'[j] => i = j
      BY <3>1 DEF OnePlace
    <3>11. ~Queued(hand)' /\ (spc \notin {"join", "joined"} => ~Queued(NoOp)')
      BY <3>3, <3>4 DEF OnePlace, Queued
    <3>12. \A s \in Threads : Making(s)' => /\ obj'[s] \in Objects
                                              /\ life'[obj'[s]] = "unlinked"
                                              /\ obj'[s] # hand' /\ ~Queued(obj[s])'
      BY <3>2, <3>3, <3>6, <3>8 DEF OnePlace
    <3>13. \A s, u \in Threads : Making(s)' /\ Making(u)' /\ obj'[s] = obj'[u] => s = u
      BY <3>2, <3>8 DEF OnePlace
    <3>14. QED
      BY <3>2, <3>5, <3>7, <3>9, <3>10, <3>11, <3>12, <3>13 DEF OnePlace
  <2>2. CASE ~(hand = NoReq /\ queue # <<>>)
    BY <1>3, <2>2, OnePlaceFrame DEF GcTake, Making
  <2>3. QED
    BY <2>1, <2>2
<1>4. CASE GcreqFree
  <2>1. /\ gcpc = "cb" /\ gcpc' = "cbSleep" /\ UNCHANGED <<queue, hand, obj, pc>>
        /\ \A o \in Objects : life'[o] = IF o = hand THEN "freed" ELSE life[o]
    BY <1>4 DEF GcreqFree
  <2>2. spc' \notin {"join", "joined"} => spc \notin {"join", "joined"}
    BY <1>4, EnqueueSpc DEF GcreqFree
  <2>3. QED
    BY <2>1, <2>2 DEF OnePlace, Queued, Making
<1>5. CASE GcreqRequeue
  <2>1. /\ gcpc = "cb" /\ gcpc' = "cbSleep" /\ UNCHANGED <<hand, obj, pc, life>>
        /\ queue' = Append(queue, hand) /\ hand \in Objects
    BY <1>5 DEF GcreqRequeue, GcreqEnqueueCommon
  <2>2. /\ Len(queue') = Len(queue) + 1 /\ Len(queue) \in Nat
        /\ queue'[Len(queue) + 1] = hand
        /\ \A i \in 1 .. Len(queue) : queue'[i] = queue[i]
        /\ \A x : Queued(x)' <=> Queued(x) \/ x = hand
    BY <2>1, AppendQueued DEF RequestTypes, Requests
  <2>3. spc' \notin {"join", "joined"} => spc \notin {"join", "joined"}
    BY <1>5, EnqueueSpc DEF GcreqRequeue
  <2>4. QED
    BY <2>1, <2>2, <2>3 DEF OnePlace, Queued, Making
<1>6. CASE GcCbSleep
  <2>1. hand' = NoReq /\ UNCHANGED <<queue, obj, pc, life, spc>>
    BY <1>6 DEF GcCbSleep
  <2>2. ~Queued(NoReq)
    BY ElementOfSeq DEF Queued, RequestTypes
  <2>3. QED
    BY <2>1, <2>2 DEF OnePlace, Queued, Making, Requests
<1>7. CASE QueueFreeEnqueue
  <2>1. /\ UNCHANGED <<hand, obj, pc, life, gcpc>> /\ spc = "freeEnqueue" /\ spc' = "join"
        /\ queue' = Append(queue, NoOp)
    BY <1>7 DEF QueueFreeEnqueue
  <2>2. /\ Len(queue') = Len(queue) + 1 /\ Len(queue) \in Nat
        /\ queue'[Len(queue) + 1] = NoOp
        /\ \A i \in 1 .. Len(queue) : queue'[i] = queue[i]
        /\ \A x : Queued(x)' <=> Queued(x) \/ x = NoOp
    BY <2>1, AppendQueued DEF RequestTypes, Requests
  <2>3. QED
    BY <2>1, <2>2 DEF OnePlace, Queued, Making
<1>8. ASSUME NEW t \in Threads,
             \/ \E d \in Domains : AwakeStoreGv(t, d)
             \/ AwakeStoreVtime(t) \/ AwakeDomainOk(t) \/ Asleep(t) \/ AwakeToAwakeNoNest(t)
             \/ \E o \in Objects : Lookup(t, o)
             \/ \E u \in Threads : GatherLoadVtime(t, u)
             \/ GatherLoadGv(t) \/ GcreqNew(t)
      PROVE  OnePlace'
  <2>1. \A s \in Threads : Making(s)' => Making(s)
    BY <1>8 DEF Making, ControlTypes, AwakeStoreGv, AwakeStoreVtime, AwakeDomainOk, Asleep,
                AwakeToAwakeNoNest, Lookup, GatherLoadVtime, GatherLoadGv, GcreqNew
  <2>2. UNCHANGED <<life, queue, hand, obj, gcpc, spc>>
    BY <1>8 DEF AwakeStoreGv, AwakeStoreVtime, AwakeDomainOk, Asleep, AwakeToAwakeNoNest,
                Lookup, GatherLoadVtime, GatherLoadGv, GcreqNew
  <2>3. QED
    BY <2>1, <2>2, OnePlaceFrame
<1>9. CASE \/ GcExit \/ GcWake \/ GcLeaseSleep \/ GcCheck \/ DrainBegin \/ GcreqQueueDrain
           \/ QueueFreeNew \/ QueueFreeWait \/ QueueFreeJoin \/ UNCHANGED vars
  <2>1. /\ UNCHANGED <<life, queue, hand, obj, pc>>
        /\ gcpc = "cbSleep" => gcpc' = "cbSleep"
        /\ spc \in {"join", "joined"} => spc' \in {"join", "joined"}
    BY <1>9 DEF GcExit, GcWake, GcLeaseSleep, GcCheck, DrainBegin, GcreqQueueDrain,
                QueueFreeNew, QueueFreeWait, QueueFreeJoin
  <2>2. QED
    BY <2>1, OnePlaceFrame DEF Making
<1>10. QED
  BY <1>1, <1>2, <1>3, <1>4, <1>5, <1>6, <1>7, <1>8, <1>9 DEF Next, ThreadStep, GcStep, StopStep

LEMMA NextChecked ==
  ASSUME Typed, OnePlace, Checked, [Next]_vars PROVE Checked'
<1> USE GcConstants
<1> ThreadTypes /\ ControlTypes /\ RequestTypes /\ Control
  BY DEF Typed, TypeOK
<1>1. ASSUME NEW t \in Threads, GatherLoadGv(t) PROVE Checked'
  <2>1. obj[t] # hand /\ UNCHANGED <<hand, gcpc>>
    BY <1>1 DEF GatherLoadGv, OnePlace, Making
  <2>2. \A u \in Threads : hand # NoReq => ivs'[hand][u] = ivs[hand][u]
    BY <1>1, <2>1 DEF GatherLoadGv, RequestTypes, ControlTypes
  <2>3. QED
    BY <2>1, <2>2 DEF Checked
<1>2. CASE GcCheck
  <2>1. hand \in Requests /\ UNCHANGED hand /\ gcpc' \in {"loop", "cbWake"}
    BY <1>2 DEF GcCheck, Checked, ControlTypes
  <2>2. gcpc' = "cbWake" => \A t \in Threads : ~StillWaiting(hand, t)
    BY <1>2 DEF GcCheck
  <2>3. \A t \in Threads : ~StillWaiting(hand, t) => ivs'[hand][t] = NotWaiting
    BY <1>2, <2>1 DEF GcCheck, RequestTypes
  <2>4. QED
    BY <2>1, <2>2, <2>3 DEF Checked
<1>3. CASE QueueFreeNew
  <2>1. hand # NoOp /\ UNCHANGED <<hand, gcpc>>
    BY <1>3 DEF QueueFreeNew, OnePlace
  <2>2. \A u \in Threads : hand # NoReq => ivs'[hand][u] = ivs[hand][u]
    BY <1>3, <2>1 DEF QueueFreeNew, RequestTypes, ControlTypes
  <2>3. QED
    BY <2>1, <2>2 DEF Checked
<1>4. CASE GcTake \/ GcWake \/ GcLeaseSleep \/ GcreqFree \/ GcreqRequeue \/ GcCbSleep \/ GcExit
  <2>1. UNCHANGED ivs
    BY <1>4 DEF GcTake, GcWake, GcLeaseSleep, GcreqFree, GcreqRequeue, GcCbSleep, GcExit
  <2>2. QED
    BY <1>4, <2>1 DEF Checked, ControlTypes, GcTake, GcWake, GcLeaseSleep, GcreqFree,
                      GcreqRequeue, GcCbSleep, GcExit
<1>5. ASSUME NEW t \in Threads, ThreadStep(t), ~GatherLoadGv(t) PROVE Checked'
  <2>1. UNCHANGED <<ivs, hand, gcpc>>
    BY <1>5 DEF ThreadStep, AwakeStoreGv, AwakeStoreVtime, AwakeDomainOk, Asleep,
                AwakeToAwakeNoNest, Lookup, Unlink, GatherLoadVtime, GcreqNew, GcreqEnqueue
  <2>2. QED
    BY <2>1 DEF Checked
<1>6. CASE (StopStep /\ ~QueueFreeNew) \/ UNCHANGED vars
  <2>1. UNCHANGED <<ivs, hand, gcpc>>
    BY <1>6 DEF StopStep, DrainBegin, GcreqQueueDrain, QueueFreeWait, QueueFreeEnqueue,
                QueueFreeJoin
  <2>2. QED
    BY <2>1 DEF Checked
<1>7. QED
  BY <1>1, <1>2, <1>3, <1>4, <1>5, <1>6 DEF Next, GcStep

LEMMA NextUnvisited ==
  ASSUME Typed, OnePlace, Checked, Unvisited, [Next]_vars PROVE Unvisited'
<1> USE GcConstants
<1> ThreadTypes /\ ControlTypes /\ RequestTypes /\ Control
  BY DEF Typed, TypeOK
<1>1. ASSUME NEW t \in Threads, NEW o \in Objects, Unlink(t, o) PROVE Unvisited'
  <2>1. /\ life[o] = "linked" /\ life' = [life EXCEPT ![o] = "unlinked"] /\ ivs' = ivs
        /\ pc' = [pc EXCEPT ![t] = "gather"] /\ obj' = [obj EXCEPT ![t] = o]
        /\ todo' = [todo EXCEPT ![t] = Threads] /\ cand' = cand
    BY <1>1 DEF Unlink
  <2>2. \A u \in Threads : ivs[o][u] = NotWaiting
    BY <2>1 DEF Unvisited
  <2>3. QED
    BY <2>1, <2>2 DEF Unvisited, Gathering, ControlTypes, RequestTypes
<1>2. ASSUME NEW t \in Threads, NEW u \in Threads, GatherLoadVtime(t, u) PROVE Unvisited'
  <2>1. /\ pc[t] = "gather" /\ u \in todo[t] /\ UNCHANGED <<ivs, life, obj>>
        /\ todo' = [todo EXCEPT ![t] = @ \ {u}]
        /\ \/ cand' = [cand EXCEPT ![t] = u] /\ pc' = [pc EXCEPT ![t] = "gatherGv"]
           \/ UNCHANGED <<cand, pc>>
    BY <1>2 DEF GatherLoadVtime
  <2>2. QED
    BY <2>1 DEF Unvisited, Gathering, ControlTypes, RequestTypes
<1>3. ASSUME NEW t \in Threads, GatherLoadGv(t) PROVE Unvisited'
  <2> DEFINE c == cand[t]
  <2>1. /\ pc[t] = "gatherGv" /\ UNCHANGED <<life, obj, todo>>
        /\ pc' = [pc EXCEPT ![t] = "gather"] /\ c \notin todo[t]
        /\ obj[t] \in Objects /\ life[obj[t]] = "unlinked"
        /\ \A s \in Threads : s # t => cand'[s] = cand[s]
        /\ \A s \in Threads : Gathering(s) /\ obj[s] = obj[t] => s = t
    BY <1>3 DEF GatherLoadGv, Unvisited, OnePlace, Making, Gathering, RequestTypes
  <2>2. \A r \in Requests, u \in Threads : r # obj[t] \/ u # c => ivs'[r][u] = ivs[r][u]
    BY <1>3 DEF GatherLoadGv, RequestTypes
  <2>3. \A s \in Threads : obj[s] \in Requests /\ cand[s] \in Threads /\ todo[s] \subseteq Threads
    BY DEF RequestTypes
  <2>4. \A s \in Threads : pc'[s] = "gatherGv" => s # t /\ pc[s] = "gatherGv"
    BY <2>1 DEF ControlTypes
  <2>5. \A s \in Threads : Gathering(s)' => Gathering(s)
    BY <2>1 DEF ControlTypes, Gathering
  <2>6. \A o \in Objects : o \in Requests
    BY DEF Requests
  <2>7. \A o \in Objects : life'[o] = "linked" => \A u \in Threads : ivs'[o][u] = NotWaiting
    BY <2>1, <2>2, <2>6 DEF Unvisited
  <2>8. \A s \in Threads : Gathering(s)' => \A u \in todo'[s] : ivs'[obj'[s]][u] = NotWaiting
    BY <2>1, <2>2, <2>3, <2>5 DEF Unvisited
  <2>9. \A s \in Threads : pc'[s] = "gatherGv" => /\ cand'[s] \notin todo'[s]
                                                  /\ ivs'[obj'[s]][cand'[s]] = NotWaiting
    BY <2>1, <2>2, <2>3, <2>4 DEF Unvisited, Gathering
  <2>10. QED
    BY <2>7, <2>8, <2>9 DEF Unvisited
<1>4. CASE GcCheck
  <2>1. hand \in Requests /\ UNCHANGED <<life, obj, todo, pc, cand>>
    BY <1>4 DEF GcCheck, Checked, ControlTypes
  <2>2. \A r \in Requests, u \in Threads : ivs[r][u] = NotWaiting => ivs'[r][u] = NotWaiting
    BY <1>4, <2>1 DEF GcCheck, RequestTypes
  <2>3. QED
    BY <2>1, <2>2 DEF Unvisited, Gathering, RequestTypes, Requests
<1>5. CASE QueueFreeNew
  <2>1. UNCHANGED <<life, obj, todo, pc, cand>>
    BY <1>5 DEF QueueFreeNew
  <2>2. \A r \in Requests, u \in Threads : ivs[r][u] = NotWaiting => ivs'[r][u] = NotWaiting
    BY <1>5 DEF QueueFreeNew, RequestTypes
  <2>3. QED
    BY <2>1, <2>2 DEF Unvisited, Gathering, RequestTypes, Requests
<1>6. CASE GcreqFree
  BY <1>6 DEF GcreqFree, Unvisited, Gathering
<1>7. ASSUME NEW t \in Threads,
             \/ \E d \in Domains : AwakeStoreGv(t, d)
             \/ AwakeStoreVtime(t) \/ AwakeDomainOk(t) \/ Asleep(t) \/ AwakeToAwakeNoNest(t)
             \/ \E o \in Objects : Lookup(t, o)
             \/ GcreqNew(t) \/ GcreqEnqueue(t)
      PROVE  Unvisited'
  <2>1. UNCHANGED <<life, ivs, todo, cand>>
    BY <1>7 DEF AwakeStoreGv, AwakeStoreVtime, AwakeDomainOk, Asleep, AwakeToAwakeNoNest,
                Lookup, GcreqNew, GcreqEnqueue
  <2>2. \A s \in Threads : Gathering(s)' => pc'[s] = pc[s] /\ obj'[s] = obj[s]
    BY <1>7 DEF Gathering, ControlTypes, RequestTypes, AwakeStoreGv, AwakeStoreVtime,
                AwakeDomainOk, Asleep, AwakeToAwakeNoNest, Lookup, GcreqNew, GcreqEnqueue
  <2>3. QED
    BY <2>1, <2>2 DEF Unvisited, Gathering
<1>8. CASE (GcStep /\ ~GcCheck /\ ~GcreqFree) \/ (StopStep /\ ~QueueFreeNew) \/ UNCHANGED vars
  <2>1. UNCHANGED <<life, ivs, todo, cand, pc, obj>>
    BY <1>8 DEF GcStep, StopStep, GcTake, GcExit, GcWake, GcLeaseSleep, GcreqRequeue,
                GcCbSleep, DrainBegin, GcreqQueueDrain, QueueFreeWait, QueueFreeEnqueue,
                QueueFreeJoin
  <2>2. QED
    BY <2>1 DEF Unvisited, Gathering
<1>9. QED
  BY <1>1, <1>2, <1>3, <1>4, <1>5, <1>6, <1>7, <1>8 DEF Next, ThreadStep, GcStep, StopStep

\* thread_state_asleep: a thread that keeps a pointer keeps its clock value.
LEMMA FallRefs ==
  ASSUME NEW t \in Threads, ThreadTypes, Levels, Fall(t), nest[t] > 0
  PROVE  \A u \in Threads : /\ refs'[u] \subseteq refs[u]
                            /\ refs'[u] # {} => time'[u] = time[u]
                            /\ refs'[t] # {} => nest[t] > 1
<1> USE GcConstants
<1>1. nest[t] \in Nat
  BY DEF ThreadTypes
<1>2. CASE nest[t] = 1
  <2>1. PopLevel(t) \in Seq(Domains) /\ Len(PopLevel(t)) = 0
    BY <1>2, PopLevelShorter
  <2>2. DOMAIN PopLevel(t) = {}
    BY <2>1, LenProperties
  <2>3. refs' = [refs EXCEPT ![t] = {}]
    BY <2>2 DEF Fall
  <2>4. time' = [time EXCEPT ![t] = (@ + 1) % TimeMod]
    BY <1>2 DEF Fall, Tick
  <2>5. QED
    BY <2>3, <2>4 DEF ThreadTypes
<1>3. CASE nest[t] # 1
  <2>1. time' = time
    BY <1>3 DEF Fall
  <2>2. refs'[t] \subseteq refs[t] /\ \A u \in Threads : u # t => refs'[u] = refs[u]
    BY DEF Fall, ThreadTypes
  <2>3. QED
    BY <1>1, <1>3, <2>1, <2>2
<1>4. QED
  BY <1>2, <1>3

LEMMA NextHolders ==
  ASSUME Typed, ~CrossDomain, Holders, [Next]_vars PROVE Holders'
<1> USE GcConstants
<1> ThreadTypes /\ ControlTypes /\ Levels /\ Control
  BY DEF Typed, TypeOK
<1>1. ASSUME NEW t \in Threads, NEW d \in Domains, AwakeStoreGv(t, d) PROVE Holders'
  BY <1>1 DEF AwakeStoreGv, MayEnter, AwakeP, Holders, ThreadTypes
<1>2. ASSUME NEW t \in Threads, AwakeStoreVtime(t) \/ AwakeDomainOk(t) \/ (t = GcThread /\ GcWake)
      PROVE  Holders'
  <2>1. UNCHANGED <<gv, refs>> /\ nest' = [nest EXCEPT ![t] = @ + 1]
    BY <1>2 DEF AwakeStoreVtime, AwakeDomainOk, GcWake, Rise
  <2>2. \A u \in Threads : nest[u] > 0 => nest'[u] > 0
    BY <2>1 DEF ThreadTypes
  <2>3. QED
    BY <2>1, <2>2 DEF Holders
<1>3. ASSUME NEW t \in Threads,
             Asleep(t) \/ (t = GcThread /\ (GcLeaseSleep \/ GcCbSleep))
      PROVE  Holders'
  <2>1. Fall(t) /\ nest[t] > 0 /\ gv' = gv
    BY <1>3 DEF Asleep, GcLeaseSleep, GcCbSleep, AwakeP, Control
  <2>2. \A u \in Threads : /\ refs'[u] \subseteq refs[u]
                           /\ refs'[t] # {} => nest[t] > 1
    BY <2>1, FallRefs
  <2>3. nest' = [nest EXCEPT ![t] = @ - 1]
    BY <2>1 DEF Fall
  <2>4. QED
    <3>1. ASSUME NEW u \in Threads, refs'[u] # {}, nest[u] > 0 PROVE nest'[u] > 0
      <4>1. CASE u = t
        <5>1. nest[t] > 1 /\ nest[t] \in Nat
          BY <2>2, <3>1, <4>1 DEF ThreadTypes
        <5>2. nest'[t] = nest[t] - 1
          BY <2>3 DEF ThreadTypes
        <5>3. QED
          BY <4>1, <5>1, <5>2
      <4>2. CASE u # t
        BY <2>3, <3>1, <4>2 DEF ThreadTypes
      <4>3. QED
        BY <4>1, <4>2
    <3>2. \A u \in Threads : refs'[u] # {} => refs[u] # {}
      BY <2>2
    <3>3. QED
      BY <2>1, <3>1, <3>2 DEF Holders
<1>4. ASSUME NEW t \in Threads, AwakeToAwakeNoNest(t) PROVE Holders'
  BY <1>4 DEF AwakeToAwakeNoNest, Holders, ThreadTypes
<1>5. ASSUME NEW t \in Threads, NEW o \in Objects, Lookup(t, o) PROVE Holders'
  <2>1. nest[t] > 0 /\ level[t][Len(level[t])] = Gv
    BY <1>5 DEF Lookup, InDomain, AwakeP
  <2>2. gv[t] = Gv
    BY <2>1 DEF Levels, ThreadTypes
  <2>3. QED
    BY <1>5, <2>1, <2>2 DEF Lookup, Holders, ThreadTypes
<1>6. ASSUME NEW t \in Threads,
             \/ \E o \in Objects : Unlink(t, o)
             \/ \E u \in Threads : GatherLoadVtime(t, u)
             \/ GatherLoadGv(t) \/ GcreqNew(t) \/ GcreqEnqueue(t)
      PROVE  Holders'
  BY <1>6 DEF Unlink, GatherLoadVtime, GatherLoadGv, GcreqNew, GcreqEnqueue, Holders
<1>7. CASE GcTake \/ GcExit \/ GcCheck \/ GcreqFree \/ GcreqRequeue \/ StopStep \/ UNCHANGED vars
  BY <1>7 DEF GcTake, GcExit, GcCheck, GcreqFree, GcreqRequeue, StopStep, DrainBegin,
              GcreqQueueDrain, QueueFreeNew, QueueFreeWait, QueueFreeEnqueue, QueueFreeJoin,
              Holders
<1>8. QED
  BY <1>1, <1>2, <1>3, <1>4, <1>5, <1>6, <1>7 DEF Next, ThreadStep, GcStep

\* Steps that add no pointer, advance no holder's clock and record nothing.
LEMMA ProtectedFrame ==
  ASSUME Protected, UNCHANGED <<life, ivs, todo, cand, at>>,
         \A u \in Threads : refs'[u] \subseteq refs[u],
         \A u \in Threads : refs'[u] # {} => time'[u] = time[u],
         \A s \in Threads : Gathering(s) => pc'[s] = pc[s] /\ obj'[s] = obj[s]
  PROVE  Protected'
<1> SUFFICES ASSUME NEW t \in Threads, NEW o \in refs'[t], life[o] # "linked"
             PROVE  life[o] = "unlinked" /\ Watched(o, t)'
  BY DEF Protected
<1>1. o \in refs[t] /\ time'[t] = time[t]
  OBVIOUS
<1>2. life[o] = "unlinked" /\ Watched(o, t)
  BY <1>1 DEF Protected
<1>3. QED
  BY <1>1, <1>2 DEF Watched, Gathering

LEMMA VtimeGtIrreflexive == ASSUME NEW v \in Times PROVE ~VtimeGt(v, v)
  BY GcConstants DEF VtimeGt, Times

\* When a callback runs, nobody has a pointer to the object it deletes.
LEMMA HandUnreferenced ==
  ASSUME IInv, gcpc = "cb" PROVE \A t \in Threads : hand \notin refs[t]
<1> ThreadTypes /\ RequestTypes /\ OnePlace /\ Checked /\ Protected
  BY DEF IInv, Typed, TypeOK
<1>1. ASSUME NEW t \in Threads, hand \in refs[t] PROVE FALSE
  <2>1. hand \in Objects /\ life[hand] = "unlinked"
    BY <1>1 DEF OnePlace, ThreadTypes
  <2>2. Watched(hand, t)
    BY <1>1, <2>1 DEF Protected
  <2>3. ivs[hand][t] # time[t]
    BY GcConstants DEF Checked, ThreadTypes, Times, NotWaiting
  <2>4. \A s \in Threads : Gathering(s) => obj[s] # hand
    BY DEF OnePlace, Making, Gathering
  <2>5. QED
    BY <2>2, <2>3, <2>4 DEF Watched
<1>2. QED
  BY <1>1

LEMMA NextProtected ==
  ASSUME IInv, ~CrossDomain, [Next]_vars PROVE Protected'
<1> USE GcConstants
<1> /\ ThreadTypes /\ ControlTypes /\ RequestTypes /\ Levels /\ Control /\ OnePlace /\ Checked
    /\ Unvisited /\ Holders /\ Protected
  BY DEF IInv, Typed, TypeOK
<1>1. ASSUME NEW t \in Threads,
             \/ \E d \in Domains : AwakeStoreGv(t, d)
             \/ AwakeStoreVtime(t) \/ AwakeDomainOk(t) \/ (t = GcThread /\ GcWake)
             \/ AwakeToAwakeNoNest(t) \/ GcreqEnqueue(t)
      PROVE  Protected'
  <2>1. UNCHANGED <<life, ivs, todo, cand, at>>
    BY <1>1 DEF AwakeStoreGv, AwakeStoreVtime, AwakeDomainOk, GcWake, AwakeToAwakeNoNest,
                GcreqEnqueue
  <2>2. \A s \in Threads : Gathering(s) => pc'[s] = pc[s] /\ obj'[s] = obj[s]
    BY <1>1 DEF AwakeStoreGv, AwakeStoreVtime, AwakeDomainOk, GcWake, AwakeToAwakeNoNest,
                GcreqEnqueue, Gathering, ControlTypes, RequestTypes
  <2>3. \A u \in Threads : refs'[u] \subseteq refs[u] /\ (refs'[u] # {} => time'[u] = time[u])
    BY <1>1 DEF AwakeStoreGv, AwakeStoreVtime, AwakeDomainOk, GcWake, AwakeToAwakeNoNest,
                GcreqEnqueue, Rise, Tick, ThreadTypes
  <2>4. QED
    BY <2>1, <2>2, <2>3, ProtectedFrame
<1>2. ASSUME NEW t \in Threads, Asleep(t) \/ (t = GcThread /\ (GcLeaseSleep \/ GcCbSleep))
      PROVE  Protected'
  <2>1. Fall(t) /\ nest[t] > 0 /\ UNCHANGED <<life, ivs, todo, cand, at, pc, obj>>
    BY <1>2 DEF Asleep, GcLeaseSleep, GcCbSleep, AwakeP, Control
  <2>2. \A u \in Threads : refs'[u] \subseteq refs[u] /\ (refs'[u] # {} => time'[u] = time[u])
    BY <2>1, FallRefs
  <2>3. QED
    BY <2>1, <2>2, ProtectedFrame
<1>3. ASSUME NEW t \in Threads, NEW o \in Objects, Lookup(t, o) PROVE Protected'
  <2>1. /\ refs' = [refs EXCEPT ![t] = @ \cup {o}] /\ life[o] = "linked"
        /\ UNCHANGED <<life, ivs, time, pc, obj, todo, cand, at>>
    BY <1>3 DEF Lookup
  <2>2. QED
    BY <2>1 DEF Protected, Watched, Gathering, ThreadTypes
<1>4. ASSUME NEW t \in Threads, NEW o \in Objects, Unlink(t, o) PROVE Protected'
  <2>1. /\ pc[t] = "run" /\ life' = [life EXCEPT ![o] = "unlinked"]
        /\ pc' = [pc EXCEPT ![t] = "gather"] /\ obj' = [obj EXCEPT ![t] = o]
        /\ todo' = [todo EXCEPT ![t] = Threads]
        /\ UNCHANGED <<refs, ivs, time, cand, at>>
    BY <1>4 DEF Unlink, InDomain
  <2>2. \A u \in Threads : Watched(o, u)'
    BY <2>1 DEF Watched, Gathering, ControlTypes, RequestTypes
  <2>3. \A u \in Threads, x \in Objects : Watched(x, u) => Watched(x, u)'
    BY <2>1 DEF Watched, Gathering, ControlTypes, RequestTypes
  <2>4. QED
    BY <2>1, <2>2, <2>3 DEF Protected, ThreadTypes, RequestTypes
<1>5. ASSUME NEW s \in Threads, NEW u \in Threads, GatherLoadVtime(s, u) PROVE Protected'
  <2>1. /\ pc[s] = "gather" /\ u \in todo[s] /\ todo' = [todo EXCEPT ![s] = @ \ {u}]
        /\ UNCHANGED <<refs, ivs, time, obj, life, nest>>
    BY <1>5 DEF GatherLoadVtime
  <2>2. CASE AwakeP(u)
    <3>1. /\ cand' = [cand EXCEPT ![s] = u] /\ at' = [at EXCEPT ![s] = time[u]]
          /\ pc' = [pc EXCEPT ![s] = "gatherGv"]
      BY <1>5, <2>2 DEF GatherLoadVtime
    <3>2. \A t \in Threads, x \in Objects : Watched(x, t) => Watched(x, t)'
      BY <2>1, <3>1 DEF Watched, Gathering, ControlTypes, RequestTypes
    <3>3. QED
      BY <2>1, <3>2 DEF Protected, ThreadTypes
  <2>3. CASE ~AwakeP(u)
    <3>1. UNCHANGED <<cand, at, pc>>
      BY <1>5, <2>3 DEF GatherLoadVtime
    <3>2. refs[u] = {}
      BY <2>3 DEF Holders, AwakeP
    <3>3. \A t \in Threads, x \in Objects : t # u /\ Watched(x, t) => Watched(x, t)'
      BY <2>1, <3>1 DEF Watched, Gathering, RequestTypes
    <3>4. QED
      BY <2>1, <3>2, <3>3 DEF Protected, ThreadTypes
  <2>4. QED
    BY <2>2, <2>3
<1>6. ASSUME NEW s \in Threads, GatherLoadGv(s) PROVE Protected'
  <2> DEFINE c == cand[s]
  <2>1. /\ pc[s] = "gatherGv" /\ pc' = [pc EXCEPT ![s] = "gather"] /\ c \in Threads
        /\ obj[s] \in Objects /\ obj[s] \in Requests
        /\ UNCHANGED <<refs, time, obj, life, todo>>
        /\ \A q \in Threads : q # s => cand'[q] = cand[q] /\ at'[q] = at[q]
    BY <1>6 DEF GatherLoadGv, RequestTypes, OnePlace, Making
  <2>2. \A r \in Requests, u \in Threads : r # obj[s] \/ u # c => ivs'[r][u] = ivs[r][u]
    BY <1>6 DEF GatherLoadGv, RequestTypes
  <2>3. gv[c] = Gv => ivs'[obj[s]][c] = at[s]
    BY <1>6, <2>1 DEF GatherLoadGv, RequestTypes
  <2>4. \A t \in Threads, x \in Objects :
           (t # c \/ x # obj[s]) /\ Watched(x, t) => Watched(x, t)'
    BY <2>1, <2>2 DEF Watched, Gathering, ControlTypes, Requests
  <2>5. Watched(obj[s], c) => at[s] = time[c]
    <3>1. ivs[obj[s]][c] # time[c] /\ c \notin todo[s]
      <4>1. ivs[obj[s]][c] = NotWaiting /\ c \notin todo[s]
        BY <2>1 DEF Unvisited
      <4>2. time[c] \in Times
        BY <2>1 DEF ThreadTypes
      <4>3. QED
        BY <4>1, <4>2 DEF Times, NotWaiting
    <3>2. \A q \in Threads : Gathering(q) /\ obj[q] = obj[s] => q = s
      BY <2>1 DEF OnePlace, Making, Gathering
    <3>3. QED
      BY <3>1, <3>2 DEF Watched
  <2>6. refs[c] # {} => gv[c] = Gv
    BY <2>1 DEF Holders
  <2>7. ASSUME NEW t \in Threads, NEW x \in refs[t], Watched(x, t) PROVE Watched(x, t)'
    <3>1. CASE t = c /\ x = obj[s]
      BY <2>1, <2>3, <2>5, <2>6, <2>7, <3>1 DEF Watched
    <3>2. CASE t # c \/ x # obj[s]
      BY <2>4, <2>7, <3>2 DEF ThreadTypes
    <3>3. QED
      BY <3>1, <3>2
  <2>8. QED
    BY <2>1, <2>7 DEF Protected
<1>7. ASSUME NEW s \in Threads, GcreqNew(s) PROVE Protected'
  <2>1. /\ pc[s] = "gather" /\ todo[s] = {} /\ pc' = [pc EXCEPT ![s] = "new"]
        /\ UNCHANGED <<refs, time, obj, life, todo, cand, at, ivs>>
    BY <1>7 DEF GcreqNew
  <2>2. \A t \in Threads, x \in Objects : Watched(x, t) => Watched(x, t)'
    BY <2>1 DEF Watched, Gathering, ControlTypes
  <2>3. QED
    BY <2>1, <2>2 DEF Protected, ThreadTypes
<1>8. CASE GcCheck
  <2>1. UNCHANGED <<refs, time, obj, life, todo, cand, at, pc, gv>> /\ hand \in Requests
    BY <1>8 DEF GcCheck, Checked, ControlTypes
  <2>2. ASSUME NEW t \in Threads, NEW x \in Objects, refs[t] # {}, ivs[x][t] = time[t]
        PROVE  ivs'[x][t] = time[t]
    <3>1. gv[t] = Gv /\ time[t] \in Times /\ time[t] # NotWaiting
      BY <2>2 DEF Holders, ThreadTypes, Times, NotWaiting
    <3>2. StillWaiting(x, t)
      BY <2>2, <3>1, VtimeGtIrreflexive DEF StillWaiting
    <3>3. QED
      BY <1>8, <2>1, <2>2, <3>2 DEF GcCheck, RequestTypes, Requests
  <2>3. \A t \in Threads, x \in Objects : refs[t] # {} /\ Watched(x, t) => Watched(x, t)'
    BY <2>1, <2>2 DEF Watched, Gathering
  <2>4. QED
    BY <2>1, <2>3 DEF Protected, ThreadTypes
<1>9. CASE QueueFreeNew
  <2>1. UNCHANGED <<refs, time, obj, life, todo, cand, at, pc>>
    BY <1>9 DEF QueueFreeNew
  <2>2. \A x \in Objects : ivs'[x] = ivs[x]
    BY <1>9 DEF QueueFreeNew, RequestTypes, Requests
  <2>3. \A t \in Threads, x \in Objects : refs[t] # {} /\ Watched(x, t) => Watched(x, t)'
    BY <2>1, <2>2 DEF Watched, Gathering
  <2>4. QED
    BY <2>1, <2>3 DEF Protected, ThreadTypes
<1>10. CASE GcreqFree
  <2>1. /\ gcpc = "cb" /\ UNCHANGED <<refs, time, obj, todo, cand, at, pc, ivs>>
        /\ \A o \in Objects : o # hand => life'[o] = life[o]
    BY <1>10 DEF GcreqFree
  <2>2. \A t \in Threads : hand \notin refs[t]
    BY <2>1, HandUnreferenced
  <2>3. \A t \in Threads, x \in Objects : Watched(x, t) => Watched(x, t)'
    BY <2>1 DEF Watched, Gathering
  <2>4. ASSUME NEW t \in Threads, NEW o \in refs'[t]
        PROVE  life'[o] = "linked" \/ (life'[o] = "unlinked" /\ Watched(o, t)')
    <3>1. o \in refs[t] /\ o \in Objects /\ life'[o] = life[o]
      BY <2>1, <2>2, <2>4 DEF ThreadTypes
    <3>2. life[o] = "linked" \/ (life[o] = "unlinked" /\ Watched(o, t))
      BY <3>1 DEF Protected
    <3>3. QED
      BY <2>3, <3>1, <3>2
  <2>5. QED
    BY <2>4 DEF Protected
<1>11. CASE \/ GcTake \/ GcExit \/ GcreqRequeue \/ DrainBegin \/ GcreqQueueDrain
            \/ QueueFreeWait \/ QueueFreeEnqueue \/ QueueFreeJoin \/ UNCHANGED vars
  <2>1. UNCHANGED <<refs, time, obj, life, todo, cand, at, pc, ivs>>
    BY <1>11 DEF GcTake, GcExit, GcreqRequeue, DrainBegin, GcreqQueueDrain, QueueFreeWait,
                 QueueFreeEnqueue, QueueFreeJoin
  <2>2. QED
    BY <2>1, ProtectedFrame
<1>12. QED
  BY <1>1, <1>2, <1>3, <1>4, <1>5, <1>6, <1>7, <1>8, <1>9, <1>10, <1>11
  DEF Next, ThreadStep, GcStep, StopStep

LEMMA InitIInv == Init => IInv
<1> SUFFICES ASSUME Init PROVE IInv
  OBVIOUS
<1>1. Typed
  BY InitTyped
<1>2. OnePlace
  BY GcConstants, EmptySeq DEF Init, OnePlace, Making, Queued, Requests
<1>3. Checked /\ Unvisited /\ Holders /\ Protected
  BY GcConstants DEF Init, Checked, Unvisited, Holders, Protected, Gathering, Requests
<1>4. QED
  BY <1>1, <1>2, <1>3 DEF IInv

LEMMA NextIInv == ASSUME IInv, ~CrossDomain, [Next]_vars PROVE IInv'
  BY NextTyped, NextOnePlace, NextChecked, NextUnvisited, NextHolders, NextProtected DEF IInv

\* The memory-safety promise of q_gc.c, for any number of threads and objects
\* and any width of the clocks: no thread has a pointer to a freed object.
THEOREM Safe == ASSUME ~CrossDomain PROVE Spec => []NoUseAfterFree
<1>1. Init => IInv
  BY InitIInv
<1>2. IInv /\ [Next]_vars => IInv'
  BY NextIInv
<1>3. IInv => NoUseAfterFree
  BY DEF IInv, Protected, NoUseAfterFree
<1>4. QED
  BY <1>1, <1>2, <1>3, PTL DEF Spec

\* Every step of the collector is one of Reclaim's, or leaves life and refs alone.
LEMMA StepImplementsReclaim ==
  ASSUME IInv, [Next]_vars PROVE [R!Next]_(R!rvars)
<1> USE GcConstants
<1> ThreadTypes /\ ControlTypes /\ RequestTypes /\ Levels /\ Control /\ OnePlace /\ Checked
  BY DEF IInv, Typed, TypeOK
<1>1. ASSUME NEW t \in Threads,
             \/ Asleep(t) \/ AwakeToAwakeNoNest(t)
             \/ (t = GcThread /\ (GcLeaseSleep \/ GcCbSleep))
      PROVE  R!Release(t) \/ UNCHANGED R!rvars
  <2>1. UNCHANGED life
    BY <1>1 DEF Asleep, AwakeToAwakeNoNest, GcLeaseSleep, GcCbSleep
  <2>2. refs' = [refs EXCEPT ![t] = {}] \/ refs' = [refs EXCEPT ![t] = @]
    BY <1>1 DEF Asleep, AwakeToAwakeNoNest, GcLeaseSleep, GcCbSleep, Fall
  <2>3. QED
    BY <2>1, <2>2 DEF R!Release, R!rvars, ThreadTypes
<1>2. ASSUME NEW t \in Threads, NEW o \in Objects, Lookup(t, o) PROVE R!Acquire(t, o)
  BY <1>2 DEF Lookup, R!Acquire
<1>3. ASSUME NEW t \in Threads, NEW o \in Objects, Unlink(t, o) PROVE R!Retire(o)
  BY <1>3 DEF Unlink, R!Retire
<1>4. CASE GcreqFree
  <2>1. gcpc = "cb" /\ UNCHANGED refs
    BY <1>4 DEF GcreqFree
  <2>2. life' = [o \in Objects |-> IF o = hand THEN "freed" ELSE life[o]]
    BY <1>4 DEF GcreqFree
  <2>3. CASE hand \in Objects
    <3>1. life[hand] = "unlinked" /\ \A t \in Threads : hand \notin refs[t]
      BY <2>1, <2>3, HandUnreferenced DEF OnePlace
    <3>2. life' = [life EXCEPT ![hand] = "freed"]
      BY <2>2, <2>3 DEF RequestTypes
    <3>3. R!Free(hand)
      BY <2>1, <3>1, <3>2 DEF R!Free
    <3>4. QED
      BY <2>3, <3>3 DEF R!Next
  <2>4. CASE hand \notin Objects
    <3>1. life' = life
      BY <2>2, <2>4 DEF RequestTypes
    <3>2. QED
      BY <2>1, <3>1 DEF R!rvars
  <2>5. QED
    BY <2>3, <2>4
<1>5. ASSUME NEW t \in Threads,
             \/ \E d \in Domains : AwakeStoreGv(t, d)
             \/ AwakeStoreVtime(t) \/ AwakeDomainOk(t)
             \/ \E u \in Threads : GatherLoadVtime(t, u)
             \/ GatherLoadGv(t) \/ GcreqNew(t) \/ GcreqEnqueue(t)
      PROVE  UNCHANGED R!rvars
  BY <1>5 DEF AwakeStoreGv, AwakeStoreVtime, AwakeDomainOk, Rise, GatherLoadVtime,
              GatherLoadGv, GcreqNew, GcreqEnqueue, R!rvars
<1>6. CASE GcTake \/ GcExit \/ GcWake \/ GcCheck \/ GcreqRequeue \/ StopStep \/ UNCHANGED vars
  BY <1>6 DEF GcTake, GcExit, GcWake, Rise, GcCheck, GcreqRequeue, StopStep, DrainBegin,
              GcreqQueueDrain, QueueFreeNew, QueueFreeWait, QueueFreeEnqueue, QueueFreeJoin,
              R!rvars
<1>7. QED
  BY <1>1, <1>2, <1>3, <1>4, <1>5, <1>6 DEF Next, ThreadStep, GcStep, R!Next

\* The clocks, requests and queue of q_gc.c implement the abstract collector.
THEOREM Implements == ASSUME ~CrossDomain PROVE Spec => ImplementsReclaim
<1>1. Init => IInv /\ R!Init
  BY InitIInv DEF Init, R!Init
<1>2. IInv /\ [Next]_vars => IInv' /\ [R!Next]_(R!rvars)
  BY NextIInv, StepImplementsReclaim
<1>3. QED
  BY <1>1, <1>2, PTL DEF Spec, ImplementsReclaim, R!Spec

(***************************************************************************)
(* The count of the queue, and what the shutdown leaves behind.            *)
(***************************************************************************)

News == {t \in Threads : pc[t] = "new"}
InHand == IF hand # NoReq /\ gcpc # "cbSleep" THEN 1 ELSE 0
HeldBack == IF spc \in {"freeTerm", "freeTest", "freeWait", "freeEnqueue"} THEN 1 ELSE 0

LEMMA CountsAs ==
  CountsOutstanding <=> count = Cardinality(News) + Len(queue) + InHand + HeldBack
  BY DEF CountsOutstanding, News, InHand, HeldBack

LEMMA NewsFinite == IsFiniteSet(News) /\ Cardinality(News) \in Nat
<1>1. IsFiniteSet(News)
  BY GcFinite, FS_Subset DEF News
<1>2. QED
  BY <1>1, FS_CardinalityType

LEMMA NewsAdd ==
  ASSUME NEW t \in Threads, ControlTypes, pc[t] = "gather", pc' = [pc EXCEPT ![t] = "new"]
  PROVE  Cardinality(News') = Cardinality(News) + 1
<1>1. News' = News \cup {t} /\ t \notin News
  BY DEF News, ControlTypes
<1>2. QED
  BY <1>1, NewsFinite, FS_AddElement

LEMMA NewsRemove ==
  ASSUME NEW t \in Threads, ControlTypes, pc[t] = "new", pc' = [pc EXCEPT ![t] = "run"]
  PROVE  Cardinality(News') = Cardinality(News) - 1
<1>1. News' = News \ {t} /\ t \in News
  BY DEF News, ControlTypes
<1>2. QED
  BY <1>1, NewsFinite, FS_RemoveElement

LEMMA BroadcastHeldBack == ASSUME Broadcast \/ UNCHANGED spc PROVE UNCHANGED HeldBack
  BY DEF Broadcast, HeldBack

LEMMA NextCounts ==
  ASSUME Typed, Checked, CountsOutstanding, [Next]_vars PROVE CountsOutstanding'
<1> SUFFICES count' = Cardinality(News') + Len(queue') + InHand' + HeldBack'
  BY DEF CountsOutstanding, News, InHand, HeldBack
<1> ThreadTypes /\ ControlTypes /\ RequestTypes /\ Control
  BY DEF Typed, TypeOK
<1> count = Cardinality(News) + Len(queue) + InHand + HeldBack
  BY CountsAs
<1> /\ Cardinality(News) \in Nat /\ Len(queue) \in Nat /\ count \in Int
    /\ InHand \in Nat /\ HeldBack \in Nat /\ queue \in Seq(Requests)
  BY NewsFinite, LenProperties DEF RequestTypes, InHand, HeldBack
<1>1. ASSUME NEW t \in Threads, GcreqNew(t)
      PROVE  count' = Cardinality(News') + Len(queue') + InHand' + HeldBack'
  <2>1. Cardinality(News') = Cardinality(News) + 1
    BY <1>1, NewsAdd DEF GcreqNew
  <2>2. UNCHANGED <<queue, InHand, HeldBack>> /\ count' = count + 1
    BY <1>1 DEF GcreqNew, InHand, HeldBack
  <2>3. QED
    BY <2>1, <2>2
<1>2. ASSUME NEW t \in Threads, GcreqEnqueue(t)
      PROVE  count' = Cardinality(News') + Len(queue') + InHand' + HeldBack'
  <2>1. Cardinality(News') = Cardinality(News) - 1
    BY <1>2, NewsRemove DEF GcreqEnqueue
  <2>2. Len(queue') = Len(queue) + 1
    BY <1>2, AppendProperties DEF GcreqEnqueue, GcreqEnqueueCommon, RequestTypes
  <2>3. UNCHANGED <<count, InHand>>
    BY <1>2 DEF GcreqEnqueue, InHand
  <2>4. UNCHANGED HeldBack
    BY <1>2, BroadcastHeldBack DEF GcreqEnqueue, GcreqEnqueueCommon
  <2>5. QED
    BY <2>1, <2>2, <2>3, <2>4
<1>3. CASE GcTake
  <2>1. UNCHANGED <<News, HeldBack, count>>
    BY <1>3 DEF GcTake, News, HeldBack
  <2>2. CASE hand = NoReq /\ queue # <<>>
    <3>1. Len(queue') = Len(queue) - 1 /\ hand' \in Requests
      BY <1>3, <2>2, HeadTailProperties DEF GcTake
    <3>2. InHand = 0 /\ InHand' = 1
      BY <1>3, <2>2, <3>1, GcConstants DEF GcTake, InHand
    <3>3. QED
      BY <2>1, <3>1, <3>2
  <2>3. CASE ~(hand = NoReq /\ queue # <<>>)
    BY <1>3, <2>1, <2>3 DEF GcTake, InHand
  <2>4. QED
    BY <2>2, <2>3
<1>4. CASE GcreqFree
  <2>1. UNCHANGED <<News, queue>> /\ count' = count - 1
    BY <1>4 DEF GcreqFree, News
  <2>2. InHand = 1 /\ InHand' = 0
    BY <1>4 DEF GcreqFree, Checked, InHand
  <2>3. UNCHANGED HeldBack
    BY <1>4, BroadcastHeldBack DEF GcreqFree
  <2>4. QED
    BY <2>1, <2>2, <2>3
<1>5. CASE GcreqRequeue
  <2>1. UNCHANGED <<News, count>> /\ hand \in Requests
    BY <1>5, GcConstants DEF GcreqRequeue, News, Requests
  <2>2. Len(queue') = Len(queue) + 1
    BY <1>5, <2>1, AppendProperties DEF GcreqRequeue, GcreqEnqueueCommon
  <2>3. InHand = 1 /\ InHand' = 0
    BY <1>5 DEF GcreqRequeue, Checked, InHand
  <2>4. UNCHANGED HeldBack
    BY <1>5, BroadcastHeldBack DEF GcreqRequeue, GcreqEnqueueCommon
  <2>5. QED
    BY <2>1, <2>2, <2>3, <2>4
<1>6. CASE GcCbSleep
  <2>1. UNCHANGED <<News, HeldBack, queue, count>> /\ InHand = 0 /\ InHand' = 0
    BY <1>6 DEF GcCbSleep, News, HeldBack, InHand
  <2>2. QED
    BY <2>1
<1>7. CASE QueueFreeNew
  <2>1. UNCHANGED <<News, InHand, queue>> /\ HeldBack = 0 /\ HeldBack' = 1 /\ count' = count + 1
    BY <1>7 DEF QueueFreeNew, News, HeldBack, InHand
  <2>2. QED
    BY <2>1
<1>8. CASE QueueFreeEnqueue
  <2>1. UNCHANGED <<News, InHand, count>> /\ HeldBack = 1 /\ HeldBack' = 0
    BY <1>8 DEF QueueFreeEnqueue, News, HeldBack, InHand
  <2>2. Len(queue') = Len(queue) + 1
    BY <1>8, AppendProperties DEF QueueFreeEnqueue, Requests
  <2>3. QED
    BY <2>1, <2>2
<1>9. ASSUME NEW t \in Threads,
             \/ \E d \in Domains : AwakeStoreGv(t, d)
             \/ AwakeStoreVtime(t) \/ AwakeDomainOk(t) \/ Asleep(t) \/ AwakeToAwakeNoNest(t)
             \/ \E o \in Objects : Lookup(t, o)
             \/ \E o \in Objects : Unlink(t, o)
             \/ \E u \in Threads : GatherLoadVtime(t, u)
             \/ GatherLoadGv(t)
      PROVE  count' = Cardinality(News') + Len(queue') + InHand' + HeldBack'
  <2>1. UNCHANGED News
    BY <1>9 DEF News, ControlTypes, AwakeStoreGv, AwakeStoreVtime, AwakeDomainOk, Asleep,
                AwakeToAwakeNoNest, Lookup, Unlink, InDomain, GatherLoadVtime, GatherLoadGv
  <2>2. UNCHANGED <<InHand, HeldBack, queue, count>>
    BY <1>9 DEF InHand, HeldBack, AwakeStoreGv, AwakeStoreVtime, AwakeDomainOk, Asleep,
                AwakeToAwakeNoNest, Lookup, Unlink, GatherLoadVtime, GatherLoadGv
  <2>3. QED
    BY <2>1, <2>2
<1>10. CASE \/ GcExit \/ GcWake \/ GcLeaseSleep \/ GcCheck \/ DrainBegin \/ GcreqQueueDrain
            \/ QueueFreeWait \/ QueueFreeJoin \/ UNCHANGED vars
  <2>1. UNCHANGED <<News, queue, count, InHand>>
    BY <1>10 DEF News, InHand, GcExit, GcWake, GcLeaseSleep, GcCheck, DrainBegin,
                 GcreqQueueDrain, QueueFreeWait, QueueFreeJoin
  <2>2. UNCHANGED HeldBack
    BY <1>10 DEF HeldBack, GcExit, GcWake, GcLeaseSleep, GcCheck, DrainBegin,
                 GcreqQueueDrain, QueueFreeWait, QueueFreeJoin
  <2>3. QED
    BY <2>1, <2>2
<1>11. QED
  BY <1>1, <1>2, <1>3, <1>4, <1>5, <1>6, <1>7, <1>8, <1>9, <1>10
  DEF Next, ThreadStep, GcStep, StopStep

LEMMA InitCounts == ASSUME Init PROVE CountsOutstanding
<1>1. News = {} /\ Len(queue) = 0 /\ InHand = 0 /\ HeldBack = 0 /\ count = 0
  BY EmptySeq DEF Init, News, InHand, HeldBack
<1>2. QED
  BY <1>1, FS_EmptySet, CountsAs

\* gcreq_queue's count is the number of requests that exist (q_gc.c): what
\* gcreq_queue_drain and gcreq_queue_free wait on neither misses nor invents one.
THEOREM CountExact == ASSUME ~CrossDomain PROVE Spec => []CountsOutstanding
<1>1. Init => IInv /\ CountsOutstanding
  BY InitIInv, InitCounts
<1>2. IInv /\ CountsOutstanding /\ [Next]_vars => IInv' /\ CountsOutstanding'
  BY NextIInv, NextCounts DEF IInv
<1>3. QED
  BY <1>1, <1>2, PTL DEF Spec

\* An unlinked object has a request somebody will see to.
Somewhere == \A o \in Objects : life[o] = "unlinked" =>
               \/ \E t \in Threads : Making(t) /\ obj[t] = o
               \/ Queued(o)
               \/ hand = o /\ gcpc # "cbSleep"

\* Once the drain has begun no object is left to unlink and no request is being
\* made; the gc thread stops when gcreq_queue_free says so and nothing is left.
Stopping ==
  /\ spc # "running" => /\ \A o \in Objects : life[o] # "linked"
                        /\ \A t \in Threads : ~Making(t)
  /\ terminate => spc \in {"freeTest", "freeWait", "freeEnqueue", "join", "joined"}
  /\ gcpc = "done" => terminate /\ count = 0
  /\ spc = "joined" => gcpc = "done"

LEMMA NextSomewhere ==
  ASSUME Typed, OnePlace, Checked, Somewhere, [Next]_vars PROVE Somewhere'
<1> ThreadTypes /\ ControlTypes /\ RequestTypes /\ Control
  BY DEF Typed, TypeOK
<1>1. ASSUME NEW t \in Threads, NEW o \in Objects, Unlink(t, o) PROVE Somewhere'
  <2>1. /\ \A s \in Threads : (Making(s)' <=> Making(s) \/ s = t) /\ (s # t => obj'[s] = obj[s])
        /\ obj'[t] = o /\ ~Making(t)
        /\ \A x \in Objects : x # o => life'[x] = life[x]
        /\ UNCHANGED <<queue, hand, gcpc>>
    BY <1>1 DEF Unlink, InDomain, Making, ControlTypes, RequestTypes
  <2>2. QED
    BY <2>1 DEF Somewhere, Queued
<1>2. ASSUME NEW t \in Threads, GcreqEnqueue(t) PROVE Somewhere'
  <2>1. /\ queue' = Append(queue, obj[t]) /\ obj[t] \in Requests
        /\ \A s \in Threads : s # t => (Making(s)' <=> Making(s)) /\ obj'[s] = obj[s]
        /\ UNCHANGED <<hand, gcpc, life>>
    BY <1>2 DEF GcreqEnqueue, GcreqEnqueueCommon, Making, ControlTypes, RequestTypes
  <2>2. \A x : Queued(x)' <=> Queued(x) \/ x = obj[t]
    BY <2>1, AppendQueued DEF RequestTypes
  <2>3. QED
    BY <2>1, <2>2 DEF Somewhere
<1>3. CASE GcTake
  <2>1. UNCHANGED <<life, obj, pc>> /\ gcpc' # "cbSleep"
    BY <1>3 DEF GcTake
  <2>2. CASE hand = NoReq /\ queue # <<>>
    <3>1. /\ hand' = Head(queue) /\ queue' = Tail(queue) /\ queue \in Seq(Requests)
      BY <1>3, <2>2 DEF GcTake, RequestTypes
    <3>2. /\ Len(queue) \in Nat /\ Len(queue) > 0 /\ Head(queue) = queue[1]
          /\ Len(Tail(queue)) = Len(queue) - 1
          /\ \A i \in 1 .. Len(Tail(queue)) : Tail(queue)[i] = queue[i + 1]
      BY <2>2, <3>1, HeadTailProperties, LenProperties, EmptySeq
    <3>3. ASSUME NEW x, Queued(x) PROVE Queued(x)' \/ x = hand'
      <4>1. PICK i \in 1 .. Len(queue) : queue[i] = x
        BY <3>3 DEF Queued
      <4>2. CASE i = 1
        BY <3>1, <3>2, <4>1, <4>2
      <4>3. CASE i # 1
        <5>1. i - 1 \in 1 .. Len(queue') /\ queue'[i - 1] = x
          BY <3>1, <3>2, <4>1, <4>3
        <5>2. QED
          BY <5>1 DEF Queued
      <4>4. QED
        BY <4>2, <4>3
    <3>4. \A o \in Objects : hand # o
      BY <2>2, GcConstants DEF Requests
    <3>5. QED
      BY <2>1, <3>3, <3>4 DEF Somewhere, Making
  <2>3. CASE ~(hand = NoReq /\ queue # <<>>)
    BY <1>3, <2>1, <2>3 DEF GcTake, Somewhere, Making, Queued
  <2>4. QED
    BY <2>2, <2>3
<1>4. CASE GcreqFree
  <2>1. /\ UNCHANGED <<queue, hand, obj, pc>>
        /\ \A o \in Objects : life'[o] = IF o = hand THEN "freed" ELSE life[o]
    BY <1>4 DEF GcreqFree
  <2>2. QED
    BY <2>1 DEF Somewhere, Queued, Making
<1>5. CASE GcreqRequeue
  <2>1. UNCHANGED <<hand, obj, pc, life>> /\ queue' = Append(queue, hand) /\ hand \in Requests
    BY <1>5, GcConstants DEF GcreqRequeue, GcreqEnqueueCommon, Requests
  <2>2. \A x : Queued(x)' <=> Queued(x) \/ x = hand
    BY <2>1, AppendQueued DEF RequestTypes
  <2>3. QED
    BY <2>1, <2>2 DEF Somewhere, Making
<1>6. CASE GcCbSleep
  BY <1>6 DEF GcCbSleep, Somewhere, Making, Queued
<1>7. CASE QueueFreeEnqueue
  <2>1. UNCHANGED <<hand, obj, pc, life, gcpc>> /\ queue' = Append(queue, NoOp)
    BY <1>7 DEF QueueFreeEnqueue
  <2>2. \A x : Queued(x)' <=> Queued(x) \/ x = NoOp
    BY <2>1, AppendQueued DEF RequestTypes, Requests
  <2>3. QED
    BY <2>1, <2>2 DEF Somewhere, Making
<1>8. ASSUME NEW t \in Threads,
             \/ \E d \in Domains : AwakeStoreGv(t, d)
             \/ AwakeStoreVtime(t) \/ AwakeDomainOk(t) \/ Asleep(t) \/ AwakeToAwakeNoNest(t)
             \/ \E o \in Objects : Lookup(t, o)
             \/ \E u \in Threads : GatherLoadVtime(t, u)
             \/ GatherLoadGv(t) \/ GcreqNew(t)
      PROVE  Somewhere'
  <2>1. \A s \in Threads : Making(s) => Making(s)'
    BY <1>8 DEF Making, ControlTypes, AwakeStoreGv, AwakeStoreVtime, AwakeDomainOk, Asleep,
                AwakeToAwakeNoNest, Lookup, GatherLoadVtime, GatherLoadGv, GcreqNew
  <2>2. UNCHANGED <<life, queue, hand, obj, gcpc>>
    BY <1>8 DEF AwakeStoreGv, AwakeStoreVtime, AwakeDomainOk, Asleep, AwakeToAwakeNoNest,
                Lookup, GatherLoadVtime, GatherLoadGv, GcreqNew
  <2>3. QED
    BY <2>1, <2>2 DEF Somewhere, Queued
<1>9. CASE \/ GcExit \/ GcWake \/ GcLeaseSleep \/ GcCheck \/ DrainBegin \/ GcreqQueueDrain
           \/ QueueFreeNew \/ QueueFreeWait \/ QueueFreeJoin \/ UNCHANGED vars
  <2>1. UNCHANGED <<life, queue, hand, obj, pc>> /\ (gcpc' = "cbSleep" => gcpc = "cbSleep")
    BY <1>9 DEF GcExit, GcWake, GcLeaseSleep, GcCheck, DrainBegin, GcreqQueueDrain,
                QueueFreeNew, QueueFreeWait, QueueFreeJoin
  <2>2. QED
    BY <2>1 DEF Somewhere, Making, Queued
<1>10. QED
  BY <1>1, <1>2, <1>3, <1>4, <1>5, <1>6, <1>7, <1>8, <1>9 DEF Next, ThreadStep, GcStep, StopStep

LEMMA NextStopping ==
  ASSUME Typed, CountsOutstanding, Stopping, [Next]_vars PROVE Stopping'
<1> ThreadTypes /\ ControlTypes /\ RequestTypes /\ Control
  BY DEF Typed, TypeOK
<1>1. ASSUME NEW t \in Threads, NEW o \in Objects, Unlink(t, o) PROVE Stopping'
  <2>1. spc = "running"
    BY <1>1 DEF Unlink, Stopping
  <2>2. UNCHANGED <<spc, terminate, gcpc, count>>
    BY <1>1 DEF Unlink
  <2>3. QED
    BY <2>1, <2>2 DEF Stopping
<1>2. ASSUME NEW t \in Threads, GcreqNew(t) \/ GcreqEnqueue(t) PROVE Stopping'
  <2>1. spc = "running" /\ ~terminate /\ gcpc # "done"
    BY <1>2 DEF GcreqNew, GcreqEnqueue, Stopping, Making
  <2>2. spc' = "running" /\ UNCHANGED <<terminate, gcpc>>
    BY <1>2, <2>1 DEF GcreqNew, GcreqEnqueue, GcreqEnqueueCommon, Broadcast
  <2>3. QED
    BY <2>1, <2>2 DEF Stopping
<1>3. CASE GcreqFree
  <2>1. /\ UNCHANGED <<pc, terminate>> /\ gcpc = "cb" /\ gcpc' = "cbSleep"
        /\ \A o \in Objects : life'[o] = "linked" => life[o] = "linked"
    BY <1>3 DEF GcreqFree
  <2>2. \/ UNCHANGED spc
        \/ spc = "drainWait" /\ spc' = "drain"
        \/ spc = "freeWait" /\ spc' = "freeTest"
    BY <1>3 DEF GcreqFree, Broadcast
  <2>3. QED
    BY <2>1, <2>2 DEF Stopping, Making
<1>4. CASE GcreqRequeue
  <2>1. UNCHANGED <<pc, terminate, life>> /\ gcpc = "cb" /\ gcpc' = "cbSleep"
    BY <1>4 DEF GcreqRequeue
  <2>2. \/ UNCHANGED spc
        \/ spc = "drainWait" /\ spc' = "drain"
        \/ spc = "freeWait" /\ spc' = "freeTest"
    BY <1>4 DEF GcreqRequeue, GcreqEnqueueCommon, Broadcast
  <2>3. QED
    BY <2>1, <2>2 DEF Stopping, Making
<1>5. CASE GcExit
  BY <1>5 DEF GcExit, MayTerminate, Stopping, Making
<1>6. CASE QueueFreeNew
  BY <1>6 DEF QueueFreeNew, Stopping, Making
<1>7. CASE DrainBegin
  <2>1. \A t \in Threads : ~Making(t)'
    BY <1>7 DEF DrainBegin, Making
  <2>2. UNCHANGED <<life, gcpc, terminate>> /\ spc = "running" /\ spc' = "drain"
        /\ \A o \in Objects : life[o] # "linked"
    BY <1>7 DEF DrainBegin
  <2>3. QED
    BY <2>1, <2>2 DEF Stopping
<1>8. CASE GcreqQueueDrain \/ QueueFreeWait \/ QueueFreeEnqueue \/ QueueFreeJoin
  <2>1. UNCHANGED <<pc, life, gcpc, count>>
    BY <1>8 DEF GcreqQueueDrain, QueueFreeWait, QueueFreeEnqueue, QueueFreeJoin
  <2>2. QED
    BY <1>8, <2>1 DEF GcreqQueueDrain, QueueFreeWait, QueueFreeEnqueue, QueueFreeJoin,
                      Stopping, Making
<1>9. ASSUME NEW t \in Threads,
             \/ \E d \in Domains : AwakeStoreGv(t, d)
             \/ AwakeStoreVtime(t) \/ AwakeDomainOk(t) \/ Asleep(t) \/ AwakeToAwakeNoNest(t)
             \/ \E o \in Objects : Lookup(t, o)
             \/ \E u \in Threads : GatherLoadVtime(t, u)
             \/ GatherLoadGv(t)
      PROVE  Stopping'
  <2>1. \A s \in Threads : Making(s)' => Making(s)
    BY <1>9 DEF Making, ControlTypes, AwakeStoreGv, AwakeStoreVtime, AwakeDomainOk, Asleep,
                AwakeToAwakeNoNest, Lookup, GatherLoadVtime, GatherLoadGv
  <2>2. UNCHANGED <<life, terminate, gcpc, spc, count>>
    BY <1>9 DEF AwakeStoreGv, AwakeStoreVtime, AwakeDomainOk, Asleep, AwakeToAwakeNoNest,
                Lookup, GatherLoadVtime, GatherLoadGv
  <2>3. QED
    BY <2>1, <2>2 DEF Stopping
<1>10. CASE GcTake \/ GcWake \/ GcLeaseSleep \/ GcCheck \/ GcCbSleep \/ UNCHANGED vars
  <2>1. /\ UNCHANGED <<life, pc, terminate, spc, count>>
        /\ (gcpc = "done" <=> gcpc' = "done")
    BY <1>10 DEF GcTake, GcWake, GcLeaseSleep, GcCheck, GcCbSleep
  <2>2. QED
    BY <2>1 DEF Stopping, Making
<1>11. QED
  BY <1>1, <1>2, <1>3, <1>4, <1>5, <1>6, <1>7, <1>8, <1>9, <1>10
  DEF Next, ThreadStep, GcStep, StopStep

LEMMA JoinedClean ==
  ASSUME Typed, CountsOutstanding, Somewhere, Stopping, spc = "joined"
  PROVE  /\ queue = <<>> /\ hand = NoReq /\ count = 0
         /\ \A o \in Objects : life[o] = "freed"
<1>1. gcpc = "done" /\ count = 0
  BY DEF Stopping
<1>2. queue \in Seq(Requests) /\ life \in [Objects -> {"linked", "unlinked", "freed"}]
  BY DEF Typed, TypeOK, RequestTypes
<1>3. count = Cardinality(News) + Len(queue) + InHand + HeldBack
  BY CountsAs
<1>4. Cardinality(News) \in Nat /\ Len(queue) \in Nat /\ InHand \in Nat /\ HeldBack = 0
  BY <1>2, NewsFinite, LenProperties DEF InHand, HeldBack
<1>5. Len(queue) = 0 /\ InHand = 0
  BY <1>1, <1>3, <1>4
<1>6. queue = <<>>
  BY <1>2, <1>5, EmptySeq
<1>7. hand = NoReq
  BY <1>1, <1>5 DEF InHand
<1>8. \A o \in Objects : life[o] = "freed"
  BY <1>2, <1>5, <1>7, GcConstants DEF Stopping, Somewhere, Queued, Requests
<1>9. QED
  BY <1>1, <1>6, <1>7, <1>8

\* What rtps_fini relies on: when gcreq_queue_free has joined the gc thread, no
\* request is left and no object has been forgotten.
THEOREM CleanShutdown == ASSUME ~CrossDomain PROVE Spec => []ShutdownClean
<1> DEFINE J == IInv /\ CountsOutstanding /\ Somewhere /\ Stopping
<1>1. Init => J
  <2> SUFFICES ASSUME Init PROVE J
    OBVIOUS
  <2>1. Somewhere /\ Stopping
    BY DEF Init, Somewhere, Stopping
  <2>2. QED
    BY <2>1, InitIInv, InitCounts
<1>2. J /\ [Next]_vars => J'
  BY NextIInv, NextCounts, NextSomewhere, NextStopping DEF IInv
<1>3. J => ShutdownClean
  BY JoinedClean DEF IInv, ShutdownClean
<1>4. QED
  BY <1>1, <1>2, <1>3, PTL DEF Spec

=============================================================================
