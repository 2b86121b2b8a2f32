--------------------------- MODULE Listener_proofs ---------------------------
(***************************************************************************)
(* Proofs about Listener for any number of threads and callbacks and any   *)
(* number of events and calls: listeners stay in place while their         *)
(* callbacks run, nothing is left with a freed reader, and no waitset      *)
(* misses a status.                                                        *)
(***************************************************************************)
EXTENDS Listener, FiniteSetTheorems, TLAPS

Ops == {"none", "event", "set", "push", "mask", "take", "wait", "delete"}
Pcs == {"idle", "enter", "reenter", "entered", "pending", "running", "getting", "returned",
        "test", "pin", "mutex", "asleep", "pinned", "close"}
Locals == [op : Ops, pc : Pcs, f : Listeners, signal : BOOLEAN, arg : Listeners \cup BOOLEAN]

TypeOK ==
  /\ status \in BOOLEAN /\ mask \in BOOLEAN /\ unsignalled \in BOOLEAN
  /\ lst \in [f : Listeners, inh : BOOLEAN] /\ plst \in Listeners
  /\ cbCount \in {0, 1} /\ cbPending \in Nat
  /\ lock \in Threads \cup {None} /\ sleepers \subseteq Threads
  /\ attached \in BOOLEAN /\ trig \in BOOLEAN /\ dozers \subseteq Threads
  /\ closed \in BOOLEAN /\ reader \in {"live", "deleted", "gone"} /\ freed \in BOOLEAN
  /\ thr \in [Threads -> Locals]
  /\ events \in Nat /\ calls \in Nat

\* Where each operation can be, and on whose thread.
Invoking == {"enter", "reenter", "entered", "running", "getting", "returned"}

Places ==
  \A t \in Threads :
    /\ thr[t].op = "none" => thr[t].pc = "idle"
    /\ thr[t].op = "event" => thr[t].pc \in Invoking
    /\ thr[t].op = "set" => thr[t].pc \in {"test", "pending"} \cup Invoking
    /\ thr[t].op = "push" =>
         thr[t].pc \in {"pin", "test", "pending", "running", "getting", "returned"}
    /\ thr[t].op = "mask" => thr[t].pc \in {"mutex", "test"} /\ thr[t].arg \in BOOLEAN
    /\ thr[t].op = "take" => thr[t].pc = "mutex"
    /\ thr[t].op = "wait" => thr[t].pc = "asleep"
    /\ thr[t].op = "delete" => thr[t].pc \in {"mutex", "test", "pinned", "close"}
    /\ thr[t].op = "event" => t \in Mid
    /\ thr[t].op \notin {"none", "event"} => t \in App
    /\ thr[t].op \in {"set", "push"} => thr[t].arg \in Listeners
    /\ thr[t].signal => thr[t].pc \in {"running", "getting", "returned"}

\* m_cb_pending_count is the number of invocations that are wanted or running.
Wants(t) == thr[t].pc \in {"reenter", "entered", "pending", "running", "getting", "returned"}
Wanting == {t \in Threads : Wants(t)}
PendingExact == cbPending = Cardinality(Wanting)

\* m_cb_count belongs to one thread at a time.
Turn(t) == /\ thr[t].op \in {"event", "set"}
           /\ thr[t].pc \in {"entered", "pending", "running", "getting", "returned"}
OneTurn == /\ \A t \in Threads : Turn(t) => cbCount = 1
           /\ \A t, u \in Threads : Turn(t) /\ Turn(u) => t = u

\* A running callback is the installed one.
Stable == \A t \in Threads : Running(t) => thr[t].f = lst.f

\* What is inherited is what the parent has, unless a push-down has yet to get there.
Inherited == lst.inh /\ ~closed =>
               lst.f = plst \/ \E t \in App : thr[t].op = "push" /\ thr[t].pc \in {"pin", "test"}

\* One thread deletes the reader; the handle's pins and the collector keep the
\* others away from what it frees.
Deletion ==
  /\ \A t \in Threads : thr[t].op = "delete" =>
       /\ closed /\ ~freed
       /\ thr[t].pc # "close" => reader = "live"
       /\ \A u \in Threads : thr[u].op = "delete" => u = t
  /\ reader # "live" => closed /\ \A t \in Threads : ~Pinned(t)
  /\ reader = "gone" => \A t \in Threads : thr[t].op # "event"
  /\ freed => reader = "gone" /\ ~attached

\* A waitset that has not been told of the status will be.
Told == attached /\ ~trig /\ Triggered => unsignalled \/ \E t \in Mid : thr[t].signal

Inv == TypeOK /\ Places /\ PendingExact /\ OneTurn /\ Stable /\ Inherited /\ Deletion /\ Told

USE DEF vars, statusVars, waitVars, listVars, lifeVars, budget, At

LEMMA Apart == None \notin Threads /\ App \cap Mid = {} /\ App \subseteq Threads /\ Mid \subseteq Threads
  BY ListenerAssumption DEF Threads

-----------------------------------------------------------------------------
(* What a step does to the thread that takes it *)

Moves(t, op, pc, f, signal, arg) ==
  /\ thr' \in [Threads -> Locals]
  /\ \A u \in Threads : u # t => thr'[u] = thr[u]
  /\ thr'[t].op = op /\ thr'[t].pc = pc /\ thr'[t].f = f
  /\ thr'[t].signal = signal /\ thr'[t].arg = arg
Stays(t, pc) == Moves(t, thr[t].op, pc, thr[t].f, thr[t].signal, thr[t].arg)
Returns(t) == Moves(t, "none", "idle", None, FALSE, None)
FromIdle(t) == thr[t].op = "none" /\ thr[t].pc = "idle" /\ thr[t].signal = FALSE

LEMMA GotoMoves ==
  ASSUME TypeOK, NEW t \in Threads, NEW pc \in Pcs, Goto(t, pc) PROVE Stays(t, pc)
  BY DEF TypeOK, Locals, Goto, Stays, Moves

LEMMA ReturnMoves ==
  ASSUME TypeOK, NEW t \in Threads, Return(t) PROVE Returns(t)
  BY DEF TypeOK, Locals, Listeners, Ops, Pcs, Return, Idle, Returns, Moves

LEMMA RecordMoves ==
  ASSUME TypeOK, NEW t \in Threads, NEW r \in Locals, thr' = [thr EXCEPT ![t] = r]
  PROVE  Moves(t, r.op, r.pc, r.f, r.signal, r.arg)
  BY DEF TypeOK, Moves

LEMMA AssignMoves ==
  ASSUME TypeOK, NEW t \in Threads, NEW pc \in Pcs, NEW f \in Listeners, NEW b \in BOOLEAN,
         thr' = [thr EXCEPT ![t].pc = pc, ![t].f = f, ![t].signal = b]
  PROVE  Moves(t, thr[t].op, pc, f, b, thr[t].arg)
<1> DEFINE r == [thr[t] EXCEPT !.pc = pc, !.f = f, !.signal = b]
<1>1. thr[t] \in Locals
  BY DEF TypeOK
<1>2. r \in Locals
  BY <1>1 DEF Locals
<1>3. r.op = thr[t].op /\ r.pc = pc /\ r.f = f /\ r.signal = b /\ r.arg = thr[t].arg
  BY <1>1 DEF Locals
<1>4. thr' = [thr EXCEPT ![t] = r]
  BY DEF TypeOK
<1> HIDE DEF r
<1>5. Moves(t, r.op, r.pc, r.f, r.signal, r.arg)
  BY <1>2, <1>4, RecordMoves
<1>6. QED
  BY <1>3, <1>5

LEMMA ReturnedMoves ==
  ASSUME TypeOK, NEW t \in Threads, NEW f \in Listeners, NEW b \in BOOLEAN,
         thr' = [thr EXCEPT ![t].pc = "returned", ![t].f = f, ![t].signal = b]
  PROVE  Moves(t, thr[t].op, "returned", f, b, thr[t].arg)
  BY AssignMoves DEF Pcs

LEMMA SignalMoves ==
  ASSUME TypeOK, NEW t \in Threads, NEW b \in BOOLEAN,
         thr' = [thr EXCEPT ![t].pc = "returned", ![t].signal = b]
  PROVE  Moves(t, thr[t].op, "returned", thr[t].f, b, thr[t].arg)
  BY DEF TypeOK, Locals, Pcs, Moves

LEMMA CallMoves ==
  ASSUME TypeOK, NEW t \in Threads, NEW op \in Ops, NEW pc \in Pcs,
         NEW arg \in Listeners \cup BOOLEAN, Call(t, op, pc, arg)
  PROVE  FromIdle(t) /\ Moves(t, op, pc, None, FALSE, arg) /\ calls' \in Nat /\ events' \in Nat
<1>1. FromIdle(t) /\ calls' \in Nat /\ events' \in Nat
  BY DEF TypeOK, Call, FromIdle, Idle
<1> DEFINE r == [Idle EXCEPT !.op = op, !.pc = pc, !.arg = arg]
<1>2. r \in Locals
  BY DEF Idle, Locals, Listeners, Ops, Pcs
<1>3. r.op = op /\ r.pc = pc /\ r.f = None /\ r.signal = FALSE /\ r.arg = arg
  BY DEF Idle
<1>4. thr' = [thr EXCEPT ![t] = r]
  BY DEF Call
<1> HIDE DEF r
<1>5. QED
  BY <1>1, <1>2, <1>3, <1>4 DEF TypeOK, Moves

LEMMA InvokeMoves ==
  ASSUME TypeOK, NEW t \in Threads, Invoke(t)
  PROVE  \/ /\ Moves(t, thr[t].op, "running", lst.f, FALSE, thr[t].arg)
            /\ status' = FALSE /\ unsignalled' = FALSE /\ mask' = mask
         \/ /\ Moves(t, thr[t].op, "running", lst.f, ~status /\ mask, thr[t].arg)
            /\ status' = TRUE /\ mask' = mask
            /\ unsignalled' = (unsignalled \/ (thr[t].op # "event" /\ ~status /\ mask))
<1>0. lst.f \in Listeners /\ "running" \in Pcs
  BY DEF TypeOK, Pcs
<1>1. CASE lst.f \in ResetOn
  <2>1. thr' = [thr EXCEPT ![t].pc = "running", ![t].f = lst.f, ![t].signal = FALSE]
    BY <1>1 DEF Invoke
  <2>2. Moves(t, thr[t].op, "running", lst.f, FALSE, thr[t].arg)
    BY <1>0, <2>1, AssignMoves
  <2>3. QED
    BY <1>1, <2>2 DEF Invoke, ClearStatus
<1>2. CASE lst.f \notin ResetOn
  <2>2. PICK b \in BOOLEAN : b = MustSignal /\ b = (~status /\ mask)
    BY DEF MustSignal, TypeOK
  <2>1. thr' = [thr EXCEPT ![t].pc = "running", ![t].f = lst.f, ![t].signal = b]
    BY <1>2, <2>2 DEF Invoke
  <2>3. Moves(t, thr[t].op, "running", lst.f, b, thr[t].arg)
    BY <1>0, <2>1, AssignMoves
  <2>4. /\ status' = TRUE /\ mask' = mask
        /\ unsignalled' = (unsignalled \/ (thr[t].op # "event" /\ b))
    BY <1>2, <2>2 DEF Invoke
  <2>5. QED
    BY <2>2, <2>3, <2>4
<1>3. QED
  BY <1>1, <1>2

-----------------------------------------------------------------------------
(* The threads that want to invoke a callback *)

LEMMA WantingFinite == IsFiniteSet(Wanting) /\ Cardinality(Wanting) \in Nat
<1>1. IsFiniteSet(Threads)
  BY ListenerAssumption, FS_Union DEF Threads
<1>2. Wanting \in SUBSET Threads
  BY DEF Wanting
<1>3. QED
  BY <1>1, <1>2, FS_Subset, FS_CardinalityType

LEMMA WantingKept ==
  ASSUME PendingExact, cbPending' = cbPending, \A u \in Threads : Wants(u)' <=> Wants(u)
  PROVE  PendingExact'
<1>1. Wanting' = Wanting
  BY DEF Wanting
<1>2. QED
  BY <1>1 DEF PendingExact

LEMMA WantingMore ==
  ASSUME PendingExact, NEW t \in Threads, cbPending' = cbPending + 1, ~Wants(t), Wants(t)',
         \A u \in Threads \ {t} : Wants(u)' <=> Wants(u)
  PROVE  PendingExact'
<1>1. Wanting' = Wanting \cup {t} /\ t \notin Wanting
  BY DEF Wanting
<1>2. Cardinality(Wanting \cup {t}) = Cardinality(Wanting) + 1
  BY <1>1, WantingFinite, FS_AddElement
<1>3. QED
  BY <1>1, <1>2 DEF PendingExact

LEMMA WantingLess ==
  ASSUME PendingExact, NEW t \in Threads, cbPending' = cbPending - 1, Wants(t), ~Wants(t)',
         \A u \in Threads \ {t} : Wants(u)' <=> Wants(u)
  PROVE  PendingExact' /\ cbPending \in Nat \ {0}
<1>1. Wanting' = Wanting \ {t} /\ t \in Wanting
  BY DEF Wanting
<1>2. Cardinality(Wanting \ {t}) = Cardinality(Wanting) - 1 /\ Cardinality(Wanting) # 0
  BY <1>1, WantingFinite, FS_RemoveElement, FS_EmptySet
<1>3. QED
  BY <1>1, <1>2, WantingFinite DEF PendingExact

\* With no invocation pending, nobody wants or runs a callback.
LEMMA NonePending ==
  ASSUME PendingExact, cbPending = 0
  PROVE  \A t \in Threads : ~Wants(t) /\ ~Running(t)
<1>1. Wanting = {}
  BY WantingFinite, FS_EmptySet DEF PendingExact
<1>2. QED
  BY <1>1 DEF Wanting, Wants, Running

-----------------------------------------------------------------------------
LEMMA InitInv == Init => Inv
<1> SUFFICES ASSUME Init PROVE Inv
  OBVIOUS
<1> USE DEF Init
<1>1. Idle \in Locals
  BY DEF Idle, Locals, Ops, Pcs, Listeners
<1>2. TypeOK
  <2>1. thr \in [Threads -> Locals] /\ events \in Nat /\ calls \in Nat
    BY <1>1, ListenerAssumption
  <2>2. CASE lst = [f |-> plst, inh |-> plst # None]
    BY <2>1, <2>2 DEF TypeOK, Listeners
  <2>3. CASE \E c \in Callbacks : lst = [f |-> c, inh |-> FALSE]
    <3>1. lst \in [f : Listeners, inh : BOOLEAN]
      BY <2>3 DEF Listeners
    <3>2. QED
      BY <2>1, <3>1 DEF TypeOK
  <2>4. QED
    BY <2>2, <2>3
<1>3. Places /\ OneTurn /\ Stable /\ Inherited /\ Deletion /\ Told
  BY DEF Idle, Places, OneTurn, Turn, Stable, Running, Inherited, Deletion, Told, Triggered
<1>4. Wanting = {}
  BY DEF Idle, Wanting, Wants
<1>5. PendingExact
  BY <1>4, FS_EmptySet DEF PendingExact
<1>6. QED
  BY <1>2, <1>3, <1>5 DEF Inv

\* The invariant is inductive: one step per operation.
LEMMA NextInv == ASSUME Inv, [Next]_vars PROVE Inv'
<1> USE Apart
<1> TypeOK /\ Places /\ PendingExact /\ OneTurn /\ Stable /\ Inherited /\ Deletion /\ Told
  BY DEF Inv
<1>1. ASSUME NEW t \in Threads, Enter(t) PROVE Inv'
  <2>0. \/ Stays(t, "entered") /\ cbCount = 0 /\ cbCount' = 1
        \/ Stays(t, "reenter") /\ cbCount' = cbCount
    BY <1>1, GotoMoves DEF Enter, AcquireOrSleep, Acquire, Sleep, Pcs
  <2>1. TypeOK'
    BY <1>1, <2>0 DEF Enter, AcquireOrSleep, Acquire, Sleep, Stays, Moves, TypeOK
  <2>2. Places'
    BY <1>1, <2>0 DEF Enter, Stays, Moves, TypeOK, Places, Invoking
  <2>3. PendingExact'
    <3>1. ~Wants(t) /\ Wants(t)' /\ \A u \in Threads \ {t} : Wants(u)' <=> Wants(u)
      BY <1>1, <2>0 DEF Enter, Stays, Moves, Wants
    <3> QED BY <1>1, <3>1, WantingMore DEF Enter, Stays, Moves
  <2>4. OneTurn'
    BY <1>1, <2>0 DEF Enter, Stays, Moves, TypeOK, OneTurn, Turn, Places
  <2>5. Stable'
    BY <1>1, <2>0 DEF Enter, Stays, Moves, TypeOK, Stable, Running, Places
  <2>6. Inherited'
    BY <1>1, <2>0 DEF Enter, Stays, Moves, TypeOK, Inherited, Places
  <2>7. Deletion'
    BY <1>1, <2>0 DEF Enter, Stays, Moves, TypeOK, Deletion, Pinned, Places
  <2>8. Told'
    BY <1>1, <2>0 DEF Enter, Stays, Moves, TypeOK, Told, Triggered, Places
  <2> QED BY <2>1, <2>2, <2>3, <2>4, <2>5, <2>6, <2>7, <2>8 DEF Inv
<1>2. ASSUME NEW t \in Threads, Reenter(t) PROVE Inv'
  <2>0. \/ Stays(t, "entered") /\ cbCount = 0 /\ cbCount' = 1
        \/ Stays(t, "reenter") /\ cbCount' = cbCount
    BY <1>2, GotoMoves DEF Reenter, AcquireOrSleep, Acquire, Sleep, Pcs
  <2>1. TypeOK'
    BY <1>2, <2>0 DEF Reenter, AcquireOrSleep, Acquire, Sleep, Stays, Moves, TypeOK
  <2>2. Places'
    BY <1>2, <2>0 DEF Reenter, Stays, Moves, TypeOK, Places, Invoking
  <2>3. PendingExact'
    <3>1. \A u \in Threads : Wants(u)' <=> Wants(u)
      BY <1>2, <2>0 DEF Reenter, Stays, Moves, Wants, Places
    <3> QED BY <1>2, <2>0, <3>1, WantingKept DEF Reenter, Stays, Moves
  <2>4. OneTurn'
    BY <1>2, <2>0 DEF Reenter, Stays, Moves, TypeOK, OneTurn, Turn, Places
  <2>5. Stable'
    BY <1>2, <2>0 DEF Reenter, Stays, Moves, TypeOK, Stable, Running, Places
  <2>6. Inherited'
    BY <1>2, <2>0 DEF Reenter, Stays, Moves, TypeOK, Inherited, Places
  <2>7. Deletion'
    BY <1>2, <2>0 DEF Reenter, Stays, Moves, TypeOK, Deletion, Pinned, Places
  <2>8. Told'
    BY <1>2, <2>0 DEF Reenter, Stays, Moves, TypeOK, Told, Triggered, Places
  <2> QED BY <2>1, <2>2, <2>3, <2>4, <2>5, <2>6, <2>7, <2>8 DEF Inv
<1>3. ASSUME NEW t \in Threads, PendingInvoke(t) PROVE Inv'
  <2>0. \/ /\ Moves(t, thr[t].op, "running", lst.f, FALSE, thr[t].arg)
           /\ status' = FALSE /\ unsignalled' = FALSE /\ mask' = mask
        \/ /\ Moves(t, thr[t].op, "running", lst.f, ~status /\ mask, thr[t].arg)
           /\ status' = TRUE /\ mask' = mask
           /\ unsignalled' = (unsignalled \/ (thr[t].op # "event" /\ ~status /\ mask))
    BY <1>3, InvokeMoves DEF PendingInvoke
  <2>1. TypeOK'
    <3>1. thr' \in [Threads -> Locals] /\ status' \in BOOLEAN /\ mask' \in BOOLEAN
      BY <2>0 DEF Moves, TypeOK
    <3>2. unsignalled' \in BOOLEAN
      BY <2>0, Zenon DEF TypeOK
    <3>3. QED
      BY <1>3, <3>1, <3>2 DEF PendingInvoke, Invoke, TypeOK
  <2>2. Places'
    BY <1>3, <2>0 DEF PendingInvoke, Moves, TypeOK, Places, Invoking
  <2>3. PendingExact'
    <3>1. \A u \in Threads : Wants(u)' <=> Wants(u)
      BY <1>3, <2>0 DEF PendingInvoke, Moves, Wants, Places
    <3> QED BY <1>3, <2>0, <3>1, WantingKept DEF PendingInvoke, Moves
  <2>4. OneTurn'
    BY <1>3, <2>0 DEF PendingInvoke, Moves, TypeOK, OneTurn, Turn, Places
  <2>5. Stable'
    BY <1>3, <2>0 DEF PendingInvoke, Moves, TypeOK, Stable, Running, Places
  <2>6. Inherited'
    BY <1>3, <2>0 DEF PendingInvoke, Moves, TypeOK, Inherited, Places
  <2>7. Deletion'
    BY <1>3, <2>0 DEF PendingInvoke, Moves, TypeOK, Deletion, Pinned, Places
  <2>8. Told'
    BY <1>3, <2>0 DEF PendingInvoke, Moves, TypeOK, Told, Triggered, Places
  <2> QED BY <2>1, <2>2, <2>3, <2>4, <2>5, <2>6, <2>7, <2>8 DEF Inv
<1>4. ASSUME NEW t \in Threads, CallbackGets(t) PROVE Inv'
  <2>0. Stays(t, "getting")
    BY <1>4, GotoMoves DEF CallbackGets, Pcs
  <2>1. TypeOK'
    BY <1>4, <2>0 DEF CallbackGets, Stays, Moves, TypeOK
  <2>2. Places'
    BY <1>4, <2>0 DEF CallbackGets, Stays, Moves, TypeOK, Places, Invoking
  <2>3. PendingExact'
    <3>1. \A u \in Threads : Wants(u)' <=> Wants(u)
      BY <1>4, <2>0 DEF CallbackGets, Stays, Moves, Wants, Places
    <3> QED BY <1>4, <2>0, <3>1, WantingKept DEF CallbackGets, Stays, Moves
  <2>4. OneTurn'
    BY <1>4, <2>0 DEF CallbackGets, Stays, Moves, TypeOK, OneTurn, Turn, Places
  <2>5. Stable'
    BY <1>4, <2>0 DEF CallbackGets, Stays, Moves, TypeOK, Stable, Running, Places
  <2>6. Inherited'
    BY <1>4, <2>0 DEF CallbackGets, Stays, Moves, TypeOK, Inherited, Places
  <2>7. Deletion'
    BY <1>4, <2>0 DEF CallbackGets, Stays, Moves, TypeOK, Deletion, Pinned, Places
  <2>8. Told'
    BY <1>4, <2>0 DEF CallbackGets, Stays, Moves, TypeOK, Told, Triggered, Places
  <2> QED BY <2>1, <2>2, <2>3, <2>4, <2>5, <2>6, <2>7, <2>8 DEF Inv
<1>5. ASSUME NEW t \in Threads, CallbackGot(t) PROVE Inv'
  <2>0. Stays(t, "running")
    BY <1>5, GotoMoves DEF CallbackGot, Pcs
  <2>1. TypeOK'
    BY <1>5, <2>0 DEF CallbackGot, ClearStatus, Stays, Moves, TypeOK
  <2>2. Places'
    BY <1>5, <2>0 DEF CallbackGot, ClearStatus, Stays, Moves, TypeOK, Places, Invoking
  <2>3. PendingExact'
    <3>1. \A u \in Threads : Wants(u)' <=> Wants(u)
      BY <1>5, <2>0 DEF CallbackGot, ClearStatus, Stays, Moves, Wants, Places
    <3> QED BY <1>5, <2>0, <3>1, WantingKept DEF CallbackGot, ClearStatus, Stays, Moves
  <2>4. OneTurn'
    BY <1>5, <2>0 DEF CallbackGot, ClearStatus, Stays, Moves, TypeOK, OneTurn, Turn, Places
  <2>5. Stable'
    BY <1>5, <2>0 DEF CallbackGot, ClearStatus, Stays, Moves, TypeOK, Stable, Running, Places
  <2>6. Inherited'
    BY <1>5, <2>0 DEF CallbackGot, ClearStatus, Stays, Moves, TypeOK, Inherited, Places
  <2>7. Deletion'
    BY <1>5, <2>0 DEF CallbackGot, ClearStatus, Stays, Moves, TypeOK, Deletion, Pinned, Places
  <2>8. Told'
    BY <1>5, <2>0 DEF CallbackGot, ClearStatus, Stays, Moves, TypeOK, Told, Triggered, Places
  <2> QED BY <2>1, <2>2, <2>3, <2>4, <2>5, <2>6, <2>7, <2>8 DEF Inv
<1>6. ASSUME NEW t \in Threads, CallbackReturns(t) PROVE Inv'
  <2>0. \E b \in BOOLEAN : /\ b = (thr[t].signal /\ status /\ mask)
                          /\ Moves(t, thr[t].op, "returned", None, b, thr[t].arg)
    <3>1. PICK b \in BOOLEAN : b = (thr[t].signal /\ status /\ mask)
      BY DEF TypeOK, Locals
    <3>2. thr' = [thr EXCEPT ![t].pc = "returned", ![t].f = None, ![t].signal = b]
      BY <1>6, <3>1 DEF CallbackReturns
    <3>3. Moves(t, thr[t].op, "returned", None, b, thr[t].arg)
      BY <3>2, ReturnedMoves DEF Listeners
    <3> QED BY <3>1, <3>3
  <2>1. TypeOK'
    BY <1>6, <2>0 DEF CallbackReturns, Moves, TypeOK
  <2>2. Places'
    BY <1>6, <2>0 DEF CallbackReturns, Moves, TypeOK, Places, Invoking
  <2>3. PendingExact'
    <3>1. \A u \in Threads : Wants(u)' <=> Wants(u)
      BY <1>6, <2>0 DEF CallbackReturns, Moves, Wants, Places
    <3> QED BY <1>6, <2>0, <3>1, WantingKept DEF CallbackReturns, Moves
  <2>4. OneTurn'
    BY <1>6, <2>0 DEF CallbackReturns, Moves, TypeOK, OneTurn, Turn, Places
  <2>5. Stable'
    BY <1>6, <2>0 DEF CallbackReturns, Moves, TypeOK, Stable, Running, Places
  <2>6. Inherited'
    BY <1>6, <2>0 DEF CallbackReturns, Moves, TypeOK, Inherited, Places
  <2>7. Deletion'
    BY <1>6, <2>0 DEF CallbackReturns, Moves, TypeOK, Deletion, Pinned, Places
  <2>8. Told'
    <3>1. UNCHANGED <<attached, trig, status, mask, unsignalled>>
      BY <1>6 DEF CallbackReturns
    <3>2. status /\ mask => \A u \in Mid : thr[u].signal => thr'[u].signal
      BY <2>0 DEF Moves, TypeOK, Locals
    <3> QED BY <3>1, <3>2 DEF Told, Triggered
  <2> QED BY <2>1, <2>2, <2>3, <2>4, <2>5, <2>6, <2>7, <2>8 DEF Inv
<1>7. ASSUME NEW t \in Mid, Event(t) PROVE Inv'
  <2> t \in Threads
    BY DEF Threads
  <2>0. FromIdle(t) /\ Moves(t, "event", "enter", None, FALSE, None)
    BY <1>7 DEF Event, TypeOK, Locals, Ops, Pcs, Moves, FromIdle, Idle
  <2>1. TypeOK'
    BY <1>7, <2>0 DEF Event, FromIdle, Moves, TypeOK
  <2>2. Places'
    BY <1>7, <2>0 DEF Event, FromIdle, Moves, TypeOK, Places, Invoking
  <2>3. PendingExact'
    <3>1. \A u \in Threads : Wants(u)' <=> Wants(u)
      BY <1>7, <2>0 DEF Event, FromIdle, Moves, Wants, Places
    <3> QED BY <1>7, <2>0, <3>1, WantingKept DEF Event, FromIdle, Moves
  <2>4. OneTurn'
    BY <1>7, <2>0 DEF Event, FromIdle, Moves, TypeOK, OneTurn, Turn, Places
  <2>5. Stable'
    BY <1>7, <2>0 DEF Event, FromIdle, Moves, TypeOK, Stable, Running, Places
  <2>6. Inherited'
    BY <1>7, <2>0 DEF Event, FromIdle, Moves, TypeOK, Inherited, Places
  <2>7. Deletion'
    BY <1>7, <2>0 DEF Event, FromIdle, Moves, TypeOK, Deletion, Pinned, Places
  <2>8. Told'
    BY <1>7, <2>0 DEF Event, FromIdle, Moves, TypeOK, Told, Triggered, Places
  <2> QED BY <2>1, <2>2, <2>3, <2>4, <2>5, <2>6, <2>7, <2>8 DEF Inv
<1>8. ASSUME NEW t \in Mid, EventInvoke(t) PROVE Inv'
  <2> t \in Threads
    BY DEF Threads
  <2>0. \/ /\ Moves(t, thr[t].op, "running", lst.f, FALSE, thr[t].arg)
           /\ status' = FALSE /\ unsignalled' = FALSE /\ mask' = mask
        \/ /\ Moves(t, thr[t].op, "running", lst.f, ~status /\ mask, thr[t].arg)
           /\ status' = TRUE /\ mask' = mask
           /\ unsignalled' = (unsignalled \/ (thr[t].op # "event" /\ ~status /\ mask))
    BY <1>8, InvokeMoves DEF EventInvoke
  <2>1. TypeOK'
    <3>1. thr' \in [Threads -> Locals] /\ status' \in BOOLEAN /\ mask' \in BOOLEAN
      BY <2>0 DEF Moves, TypeOK
    <3>2. unsignalled' \in BOOLEAN
      BY <2>0, Zenon DEF TypeOK
    <3>3. QED
      BY <1>8, <3>1, <3>2 DEF EventInvoke, Invoke, TypeOK
  <2>2. Places'
    BY <1>8, <2>0 DEF EventInvoke, Moves, TypeOK, Places, Invoking
  <2>3. PendingExact'
    <3>1. \A u \in Threads : Wants(u)' <=> Wants(u)
      BY <1>8, <2>0 DEF EventInvoke, Moves, Wants, Places
    <3> QED BY <1>8, <2>0, <3>1, WantingKept DEF EventInvoke, Moves
  <2>4. OneTurn'
    BY <1>8, <2>0 DEF EventInvoke, Moves, TypeOK, OneTurn, Turn, Places
  <2>5. Stable'
    BY <1>8, <2>0 DEF EventInvoke, Moves, TypeOK, Stable, Running, Places
  <2>6. Inherited'
    BY <1>8, <2>0 DEF EventInvoke, Moves, TypeOK, Inherited, Places
  <2>7. Deletion'
    BY <1>8, <2>0 DEF EventInvoke, Moves, TypeOK, Deletion, Pinned, Places
  <2>8. Told'
    BY <1>8, <2>0 DEF EventInvoke, Moves, TypeOK, Told, Triggered, Places
  <2> QED BY <2>1, <2>2, <2>3, <2>4, <2>5, <2>6, <2>7, <2>8 DEF Inv
<1>9. ASSUME NEW t \in Mid, EventSet(t) PROVE Inv'
  <2> t \in Threads
    BY DEF Threads
  <2>0. \E b \in BOOLEAN : /\ b = (~status /\ mask)
                          /\ Moves(t, thr[t].op, "returned", thr[t].f, b, thr[t].arg)
    <3>1. PICK b \in BOOLEAN : b = (~status /\ mask)
      BY DEF TypeOK
    <3>2. thr' = [thr EXCEPT ![t].pc = "returned", ![t].signal = b]
      BY <1>9, <3>1 DEF EventSet, MustSignal
    <3>3. Moves(t, thr[t].op, "returned", thr[t].f, b, thr[t].arg)
      BY <3>2, SignalMoves
    <3> QED BY <3>1, <3>3
  <2>1. TypeOK'
    BY <1>9, <2>0 DEF EventSet, Moves, TypeOK
  <2>2. Places'
    BY <1>9, <2>0 DEF EventSet, Moves, TypeOK, Places, Invoking
  <2>3. PendingExact'
    <3>1. \A u \in Threads : Wants(u)' <=> Wants(u)
      BY <1>9, <2>0 DEF EventSet, Moves, Wants, Places
    <3> QED BY <1>9, <2>0, <3>1, WantingKept DEF EventSet, Moves
  <2>4. OneTurn'
    BY <1>9, <2>0 DEF EventSet, Moves, TypeOK, OneTurn, Turn, Places
  <2>5. Stable'
    BY <1>9, <2>0 DEF EventSet, Moves, TypeOK, Stable, Running, Places
  <2>6. Inherited'
    BY <1>9, <2>0 DEF EventSet, Moves, TypeOK, Inherited, Places
  <2>7. Deletion'
    BY <1>9, <2>0 DEF EventSet, Moves, TypeOK, Deletion, Pinned, Places
  <2>8. Told'
    <3>1. UNCHANGED <<attached, trig, mask, unsignalled>> /\ ~thr[t].signal
      BY <1>9 DEF EventSet, Places, TypeOK, Locals
    <3>2. CASE ~status /\ mask
      <4>1. thr'[t].signal
        BY <2>0, <3>2 DEF Moves
      <4> QED BY <4>1 DEF Told
    <3>3. CASE status \/ ~mask
      <4>1. \A u \in Mid : thr[u].signal => thr'[u].signal
        BY <2>0, <3>1 DEF Moves
      <4> QED BY <3>1, <3>3, <4>1 DEF Told, Triggered
    <3> QED BY <3>2, <3>3 DEF TypeOK
  <2> QED BY <2>1, <2>2, <2>3, <2>4, <2>5, <2>6, <2>7, <2>8 DEF Inv
<1>10. ASSUME NEW t \in Mid, EventLeave(t) PROVE Inv'
  <2> t \in Threads
    BY DEF Threads
  <2>0. Returns(t)
    BY <1>10, ReturnMoves DEF EventLeave, Leave
  <2>9. Wants(t) /\ ~Wants(t)' /\ \A u \in Threads \ {t} : Wants(u)' <=> Wants(u)
    BY <1>10, <2>0 DEF EventLeave, Leave, Signal, Returns, Moves, Wants
  <2>1. TypeOK'
    <3>1. cbPending' \in Nat /\ cbCount' \in {0, 1}
      BY <1>10, <2>9, WantingLess DEF EventLeave, Leave, Signal, Returns, Moves, OneTurn, Turn,
          TypeOK
    <3> QED BY <1>10, <2>0, <3>1 DEF EventLeave, Leave, Signal, Returns, Moves, Broadcast, TypeOK
  <2>2. Places'
    BY <1>10, <2>0 DEF EventLeave, Leave, Signal, Returns, Moves, TypeOK, Places, Invoking
  <2>3. PendingExact'
    BY <1>10, <2>9, WantingLess DEF EventLeave, Leave, Signal, Returns, Moves
  <2>4. OneTurn'
    BY <1>10, <2>0 DEF EventLeave, Leave, Signal, Returns, Moves, TypeOK, OneTurn, Turn, Places
  <2>5. Stable'
    BY <1>10, <2>0 DEF EventLeave, Leave, Signal, Returns, Moves, TypeOK, Stable, Running, Places
  <2>6. Inherited'
    BY <1>10, <2>0 DEF EventLeave, Leave, Signal, Returns, Moves, TypeOK, Inherited, Places
  <2>7. Deletion'
    BY <1>10, <2>0 DEF EventLeave, Leave, Signal, Returns, Moves, TypeOK, Deletion, Pinned, Places
  <2>8. Told'
    <3>1. CASE thr[t].signal
      <4>1. trig' = attached /\ attached' = attached
        BY <1>10, <3>1 DEF EventLeave, Signal
      <4> QED BY <4>1 DEF Told, TypeOK
    <3>2. CASE ~thr[t].signal
      <4>1. UNCHANGED <<attached, trig, status, mask, unsignalled>>
        BY <1>10, <3>2 DEF EventLeave
      <4>2. \A u \in Mid : thr[u].signal => thr'[u].signal
        BY <2>0, <3>2 DEF Returns, Moves
      <4> QED BY <4>1, <4>2 DEF Told, Triggered
    <3> QED BY <3>1, <3>2
  <2> QED BY <2>1, <2>2, <2>3, <2>4, <2>5, <2>6, <2>7, <2>8 DEF Inv
<1>11. ASSUME NEW t \in App, SetBegin(t) PROVE Inv'
  <2> t \in Threads
    BY DEF Threads
  <2>0. FromIdle(t) /\ \E l \in Listeners : Moves(t, "set", "test", None, FALSE, l)
    BY <1>11, CallMoves DEF SetBegin, Ops, Pcs
  <2>1. TypeOK'
    BY <1>11, <2>0 DEF SetBegin, Call, FromIdle, Moves, TypeOK
  <2>2. Places'
    BY <1>11, <2>0 DEF SetBegin, FromIdle, Moves, TypeOK, Places, Invoking
  <2>3. PendingExact'
    <3>1. \A u \in Threads : Wants(u)' <=> Wants(u)
      BY <1>11, <2>0 DEF SetBegin, FromIdle, Moves, Wants, Places
    <3> QED BY <1>11, <2>0, <3>1, WantingKept DEF SetBegin, FromIdle, Moves
  <2>4. OneTurn'
    BY <1>11, <2>0 DEF SetBegin, FromIdle, Moves, TypeOK, OneTurn, Turn, Places
  <2>5. Stable'
    BY <1>11, <2>0 DEF SetBegin, FromIdle, Moves, TypeOK, Stable, Running, Places
  <2>6. Inherited'
    BY <1>11, <2>0 DEF SetBegin, FromIdle, Moves, TypeOK, Inherited, Places
  <2>7. Deletion'
    BY <1>11, <2>0 DEF SetBegin, FromIdle, Moves, TypeOK, Deletion, Pinned, Places
  <2>8. Told'
    BY <1>11, <2>0 DEF SetBegin, FromIdle, Moves, TypeOK, Told, Triggered, Places
  <2> QED BY <2>1, <2>2, <2>3, <2>4, <2>5, <2>6, <2>7, <2>8 DEF Inv
<1>12. ASSUME NEW t \in App, SetTest(t) PROVE Inv'
  <2> t \in Threads
    BY DEF Threads
  <2>0. \/ UNCHANGED <<lst, thr>>
        \/ cbPending = 0 /\ lst' = Combined(thr[t].arg) /\ Stays(t, "enter")
    BY <1>12, GotoMoves DEF SetTest, Sleep, Pcs
  <2>1. TypeOK'
    <3>1. Combined(thr[t].arg) \in [f : Listeners, inh : BOOLEAN]
      BY <1>12 DEF SetTest, Combined, TypeOK, Places
    <3>2. lst' \in [f : Listeners, inh : BOOLEAN]
      BY <2>0, <3>1 DEF TypeOK
    <3> QED BY <1>12, <2>0, <3>2 DEF SetTest, Sleep, Stays, Moves, TypeOK
  <2>2. Places'
    BY <1>12, <2>0 DEF SetTest, Combined, Stays, Moves, TypeOK, Places, Invoking
  <2>3. PendingExact'
    <3>1. \A u \in Threads : Wants(u)' <=> Wants(u)
      BY <1>12, <2>0 DEF SetTest, Combined, Stays, Moves, Wants, Places
    <3> QED BY <1>12, <2>0, <3>1, WantingKept DEF SetTest, Combined, Stays, Moves
  <2>4. OneTurn'
    BY <1>12, <2>0 DEF SetTest, Combined, Stays, Moves, TypeOK, OneTurn, Turn, Places
  <2>5. Stable'
    <3>1. CASE cbPending = 0
      BY <1>12, <2>0, <3>1, NonePending DEF SetTest, Combined, Stays, Moves, Stable, Running
    <3>2. CASE cbPending # 0
      BY <1>12, <2>0, <3>2 DEF SetTest, Combined, Stays, Moves, Stable, Running
    <3> QED BY <3>1, <3>2
  <2>6. Inherited'
    BY <1>12, <2>0 DEF SetTest, Combined, Stays, Moves, TypeOK, Inherited, Places
  <2>7. Deletion'
    BY <1>12, <2>0 DEF SetTest, Combined, Stays, Moves, TypeOK, Deletion, Pinned, Places
  <2>8. Told'
    BY <1>12, <2>0 DEF SetTest, Combined, Stays, Moves, TypeOK, Told, Triggered, Places
  <2> QED BY <2>1, <2>2, <2>3, <2>4, <2>5, <2>6, <2>7, <2>8 DEF Inv
<1>13. ASSUME NEW t \in App, SetPending(t) PROVE Inv'
  <2> t \in Threads
    BY DEF Threads
  <2>0. Stays(t, "pending")
    BY <1>13, GotoMoves DEF SetPending, Pcs
  <2>1. TypeOK'
    BY <1>13, <2>0 DEF SetPending, Stays, Moves, TypeOK
  <2>2. Places'
    BY <1>13, <2>0 DEF SetPending, Stays, Moves, TypeOK, Places, Invoking
  <2>3. PendingExact'
    <3>1. \A u \in Threads : Wants(u)' <=> Wants(u)
      BY <1>13, <2>0 DEF SetPending, Stays, Moves, Wants, Places
    <3> QED BY <1>13, <2>0, <3>1, WantingKept DEF SetPending, Stays, Moves
  <2>4. OneTurn'
    BY <1>13, <2>0 DEF SetPending, Stays, Moves, TypeOK, OneTurn, Turn, Places
  <2>5. Stable'
    BY <1>13, <2>0 DEF SetPending, Stays, Moves, TypeOK, Stable, Running, Places
  <2>6. Inherited'
    BY <1>13, <2>0 DEF SetPending, Stays, Moves, TypeOK, Inherited, Places
  <2>7. Deletion'
    BY <1>13, <2>0 DEF SetPending, Stays, Moves, TypeOK, Deletion, Pinned, Places
  <2>8. Told'
    BY <1>13, <2>0 DEF SetPending, Stays, Moves, TypeOK, Told, Triggered, Places
  <2> QED BY <2>1, <2>2, <2>3, <2>4, <2>5, <2>6, <2>7, <2>8 DEF Inv
<1>14. ASSUME NEW t \in App, SetLeave(t) PROVE Inv'
  <2> t \in Threads
    BY DEF Threads
  <2>0. Returns(t)
    BY <1>14, ReturnMoves DEF SetLeave, Leave
  <2>9. Wants(t) /\ ~Wants(t)' /\ \A u \in Threads \ {t} : Wants(u)' <=> Wants(u)
    BY <1>14, <2>0 DEF SetLeave, Leave, Returns, Moves, Wants
  <2>1. TypeOK'
    <3>1. cbPending' \in Nat /\ cbCount' \in {0, 1}
      BY <1>14, <2>9, WantingLess DEF SetLeave, Leave, Returns, Moves, OneTurn, Turn, TypeOK
    <3> QED BY <1>14, <2>0, <3>1 DEF SetLeave, Leave, Returns, Moves, Broadcast, TypeOK
  <2>2. Places'
    BY <1>14, <2>0 DEF SetLeave, Leave, Returns, Moves, TypeOK, Places, Invoking
  <2>3. PendingExact'
    BY <1>14, <2>9, WantingLess DEF SetLeave, Leave, Returns, Moves
  <2>4. OneTurn'
    BY <1>14, <2>0 DEF SetLeave, Leave, Returns, Moves, TypeOK, OneTurn, Turn, Places
  <2>5. Stable'
    BY <1>14, <2>0 DEF SetLeave, Leave, Returns, Moves, TypeOK, Stable, Running, Places
  <2>6. Inherited'
    BY <1>14, <2>0 DEF SetLeave, Leave, Returns, Moves, TypeOK, Inherited, Places
  <2>7. Deletion'
    BY <1>14, <2>0 DEF SetLeave, Leave, Returns, Moves, TypeOK, Deletion, Pinned, Places
  <2>8. Told'
    BY <1>14, <2>0 DEF SetLeave, Leave, Returns, Moves, TypeOK, Told, Triggered, Places
  <2> QED BY <2>1, <2>2, <2>3, <2>4, <2>5, <2>6, <2>7, <2>8 DEF Inv
<1>15. ASSUME NEW t \in App, PushBegin(t) PROVE Inv'
  <2> t \in Threads
    BY DEF Threads
  <2>0. FromIdle(t) /\ \E l \in Listeners : plst' = l /\ Moves(t, "push", "pin", None, FALSE, l)
    BY <1>15, CallMoves DEF PushBegin, Ops, Pcs
  <2>1. TypeOK'
    BY <1>15, <2>0 DEF PushBegin, Call, FromIdle, Moves, TypeOK
  <2>2. Places'
    BY <1>15, <2>0 DEF PushBegin, FromIdle, Moves, TypeOK, Places, Invoking
  <2>3. PendingExact'
    <3>1. \A u \in Threads : Wants(u)' <=> Wants(u)
      BY <1>15, <2>0 DEF PushBegin, FromIdle, Moves, Wants, Places
    <3> QED BY <1>15, <2>0, <3>1, WantingKept DEF PushBegin, FromIdle, Moves
  <2>4. OneTurn'
    BY <1>15, <2>0 DEF PushBegin, FromIdle, Moves, TypeOK, OneTurn, Turn, Places
  <2>5. Stable'
    BY <1>15, <2>0 DEF PushBegin, FromIdle, Moves, TypeOK, Stable, Running, Places
  <2>6. Inherited'
    BY <1>15, <2>0 DEF PushBegin, FromIdle, Moves, TypeOK, Inherited, Places
  <2>7. Deletion'
    BY <1>15, <2>0 DEF PushBegin, FromIdle, Moves, TypeOK, Deletion, Pinned, Places
  <2>8. Told'
    BY <1>15, <2>0 DEF PushBegin, FromIdle, Moves, TypeOK, Told, Triggered, Places
  <2> QED BY <2>1, <2>2, <2>3, <2>4, <2>5, <2>6, <2>7, <2>8 DEF Inv
<1>16. ASSUME NEW t \in App, PushPin(t) PROVE Inv'
  <2> t \in Threads
    BY DEF Threads
  <2>0. (closed /\ Returns(t)) \/ (~closed /\ Stays(t, "test"))
    <3>1. CASE closed
      BY <1>16, <3>1, ReturnMoves DEF PushPin
    <3>2. CASE ~closed
      BY <1>16, <3>2, GotoMoves DEF PushPin, Pcs
    <3> QED BY <3>1, <3>2
  <2>1. TypeOK'
    BY <1>16, <2>0 DEF PushPin, Stays, Returns, Moves, TypeOK
  <2>2. Places'
    BY <1>16, <2>0 DEF PushPin, Stays, Returns, Moves, TypeOK, Places, Invoking
  <2>3. PendingExact'
    <3>1. \A u \in Threads : Wants(u)' <=> Wants(u)
      BY <1>16, <2>0 DEF PushPin, Stays, Returns, Moves, Wants, Places
    <3> QED BY <1>16, <2>0, <3>1, WantingKept DEF PushPin, Stays, Returns, Moves
  <2>4. OneTurn'
    BY <1>16, <2>0 DEF PushPin, Stays, Returns, Moves, TypeOK, OneTurn, Turn, Places
  <2>5. Stable'
    BY <1>16, <2>0 DEF PushPin, Stays, Returns, Moves, TypeOK, Stable, Running, Places
  <2>6. Inherited'
    BY <1>16, <2>0 DEF PushPin, Stays, Returns, Moves, TypeOK, Inherited, Places
  <2>7. Deletion'
    BY <1>16, <2>0 DEF PushPin, Stays, Returns, Moves, TypeOK, Deletion, Pinned, Places
  <2>8. Told'
    BY <1>16, <2>0 DEF PushPin, Stays, Returns, Moves, TypeOK, Told, Triggered, Places
  <2> QED BY <2>1, <2>2, <2>3, <2>4, <2>5, <2>6, <2>7, <2>8 DEF Inv
<1>17. ASSUME NEW t \in App, PushTest(t) PROVE Inv'
  <2> t \in Threads
    BY DEF Threads
  <2>0. \/ UNCHANGED <<lst, thr, cbPending>>
        \/ /\ cbPending = 0 /\ lst' = Overridden
           /\ \/ Stays(t, "pending") /\ cbPending' = cbPending + 1
              \/ Returns(t) /\ cbPending' = cbPending
    BY <1>17, GotoMoves, ReturnMoves DEF PushTest, Sleep, Pcs
  <2>1. TypeOK'
    BY <1>17, <2>0 DEF PushTest, Sleep, Overridden, Stays, Returns, Moves, TypeOK
  <2>2. Places'
    BY <1>17, <2>0 DEF PushTest, Overridden, Stays, Returns, Moves, TypeOK, Places, Invoking
  <2>3. PendingExact'
    <3>1. CASE cbPending' = cbPending
      <4>1. \A u \in Threads : Wants(u)' <=> Wants(u)
        BY <1>17, <2>0, <3>1 DEF PushTest, Overridden, Stays, Returns, Moves, Wants, TypeOK
      <4> QED BY <3>1, <4>1, WantingKept
    <3>2. CASE cbPending' # cbPending
      <4>1. cbPending' = cbPending + 1 /\ Stays(t, "pending")
        BY <2>0, <3>2
      <4>2. ~Wants(t) /\ Wants(t)' /\ \A u \in Threads \ {t} : Wants(u)' <=> Wants(u)
        BY <1>17, <4>1 DEF PushTest, Overridden, Stays, Returns, Moves, Wants
      <4> QED BY <4>1, <4>2, WantingMore
    <3> QED BY <3>1, <3>2
  <2>4. OneTurn'
    BY <1>17, <2>0 DEF PushTest, Overridden, Stays, Returns, Moves, TypeOK, OneTurn, Turn, Places
  <2>5. Stable'
    <3>1. CASE cbPending = 0
      BY <1>17, <2>0, <3>1, NonePending DEF PushTest, Overridden, Stays, Returns, Moves,
          Stable, Running
    <3>2. CASE cbPending # 0
      BY <1>17, <2>0, <3>2 DEF PushTest, Overridden, Stays, Returns, Moves, Stable, Running
    <3> QED BY <3>1, <3>2
  <2>6. Inherited'
    BY <1>17, <2>0 DEF PushTest, Overridden, Stays, Returns, Moves, TypeOK, Inherited, Places
  <2>7. Deletion'
    BY <1>17, <2>0 DEF PushTest, Overridden, Stays, Returns, Moves, TypeOK, Deletion, Pinned,
        Places
  <2>8. Told'
    BY <1>17, <2>0 DEF PushTest, Overridden, Stays, Returns, Moves, TypeOK, Told, Triggered,
        Places
  <2> QED BY <2>1, <2>2, <2>3, <2>4, <2>5, <2>6, <2>7, <2>8 DEF Inv
<1>18. ASSUME NEW t \in App, PushLeave(t) PROVE Inv'
  <2> t \in Threads
    BY DEF Threads
  <2>0. Returns(t)
    BY <1>18, ReturnMoves DEF PushLeave
  <2>9. Wants(t) /\ ~Wants(t)' /\ \A u \in Threads \ {t} : Wants(u)' <=> Wants(u)
    BY <1>18, <2>0 DEF PushLeave, Returns, Moves, Wants
  <2>1. TypeOK'
    <3>1. cbPending' \in Nat /\ cbCount' \in {0, 1}
      BY <1>18, <2>9, WantingLess DEF PushLeave, Returns, Moves, OneTurn, Turn, TypeOK
    <3> QED BY <1>18, <2>0, <3>1 DEF PushLeave, Returns, Moves, Broadcast, TypeOK
  <2>2. Places'
    BY <1>18, <2>0 DEF PushLeave, Returns, Moves, TypeOK, Places, Invoking
  <2>3. PendingExact'
    BY <1>18, <2>9, WantingLess DEF PushLeave, Returns, Moves
  <2>4. OneTurn'
    BY <1>18, <2>0 DEF PushLeave, Returns, Moves, TypeOK, OneTurn, Turn, Places
  <2>5. Stable'
    BY <1>18, <2>0 DEF PushLeave, Returns, Moves, TypeOK, Stable, Running, Places
  <2>6. Inherited'
    BY <1>18, <2>0 DEF PushLeave, Returns, Moves, TypeOK, Inherited, Places
  <2>7. Deletion'
    BY <1>18, <2>0 DEF PushLeave, Returns, Moves, TypeOK, Deletion, Pinned, Places
  <2>8. Told'
    BY <1>18, <2>0 DEF PushLeave, Returns, Moves, TypeOK, Told, Triggered, Places
  <2> QED BY <2>1, <2>2, <2>3, <2>4, <2>5, <2>6, <2>7, <2>8 DEF Inv
<1>19. ASSUME NEW t \in App, MaskBegin(t) PROVE Inv'
  <2> t \in Threads
    BY DEF Threads
  <2>0. FromIdle(t) /\ \E m \in BOOLEAN : Moves(t, "mask", "mutex", None, FALSE, m)
    BY <1>19, CallMoves DEF MaskBegin, Ops, Pcs
  <2>1. TypeOK'
    BY <1>19, <2>0 DEF MaskBegin, Call, FromIdle, Moves, TypeOK
  <2>2. Places'
    BY <1>19, <2>0 DEF MaskBegin, FromIdle, Moves, TypeOK, Places, Invoking
  <2>3. PendingExact'
    <3>1. \A u \in Threads : Wants(u)' <=> Wants(u)
      BY <1>19, <2>0 DEF MaskBegin, FromIdle, Moves, Wants, Places
    <3> QED BY <1>19, <2>0, <3>1, WantingKept DEF MaskBegin, FromIdle, Moves
  <2>4. OneTurn'
    BY <1>19, <2>0 DEF MaskBegin, FromIdle, Moves, TypeOK, OneTurn, Turn, Places
  <2>5. Stable'
    BY <1>19, <2>0 DEF MaskBegin, FromIdle, Moves, TypeOK, Stable, Running, Places
  <2>6. Inherited'
    BY <1>19, <2>0 DEF MaskBegin, FromIdle, Moves, TypeOK, Inherited, Places
  <2>7. Deletion'
    BY <1>19, <2>0 DEF MaskBegin, FromIdle, Moves, TypeOK, Deletion, Pinned, Places
  <2>8. Told'
    BY <1>19, <2>0 DEF MaskBegin, FromIdle, Moves, TypeOK, Told, Triggered, Places
  <2> QED BY <2>1, <2>2, <2>3, <2>4, <2>5, <2>6, <2>7, <2>8 DEF Inv
<1>20. ASSUME NEW t \in App, MaskLock(t) PROVE Inv'
  <2> t \in Threads
    BY DEF Threads
  <2>0. Returns(t) \/ (Stays(t, "test") /\ ~closed)
    <3>1. CASE closed
      BY <1>20, <3>1, ReturnMoves DEF MaskLock
    <3>2. CASE ~closed
      BY <1>20, <3>2, GotoMoves DEF MaskLock, Pcs
    <3> QED BY <3>1, <3>2
  <2>1. TypeOK'
    BY <1>20, <2>0 DEF MaskLock, Stays, Returns, Moves, TypeOK
  <2>2. Places'
    BY <1>20, <2>0 DEF MaskLock, Stays, Returns, Moves, TypeOK, Places, Invoking
  <2>3. PendingExact'
    <3>1. \A u \in Threads : Wants(u)' <=> Wants(u)
      BY <1>20, <2>0 DEF MaskLock, Stays, Returns, Moves, Wants, Places
    <3> QED BY <1>20, <2>0, <3>1, WantingKept DEF MaskLock, Stays, Returns, Moves
  <2>4. OneTurn'
    BY <1>20, <2>0 DEF MaskLock, Stays, Returns, Moves, TypeOK, OneTurn, Turn, Places
  <2>5. Stable'
    BY <1>20, <2>0 DEF MaskLock, Stays, Returns, Moves, TypeOK, Stable, Running, Places
  <2>6. Inherited'
    BY <1>20, <2>0 DEF MaskLock, Stays, Returns, Moves, TypeOK, Inherited, Places
  <2>7. Deletion'
    BY <1>20, <2>0 DEF MaskLock, Stays, Returns, Moves, TypeOK, Deletion, Pinned, Places
  <2>8. Told'
    BY <1>20, <2>0 DEF MaskLock, Stays, Returns, Moves, TypeOK, Told, Triggered, Places
  <2> QED BY <2>1, <2>2, <2>3, <2>4, <2>5, <2>6, <2>7, <2>8 DEF Inv
<1>21. ASSUME NEW t \in App, MaskTest(t) PROVE Inv'
  <2> t \in Threads
    BY DEF Threads
  <2>0. \/ UNCHANGED <<mask, unsignalled, thr>>
        \/ /\ mask' = thr[t].arg /\ Returns(t)
           /\ unsignalled' = (unsignalled \/ (thr[t].arg /\ ~mask /\ status))
    BY <1>21, ReturnMoves DEF MaskTest, Sleep
  <2>1. TypeOK'
    <3>1. mask' \in BOOLEAN /\ unsignalled' \in BOOLEAN
      BY <1>21, <2>0 DEF MaskTest, TypeOK, Places
    <3> QED BY <1>21, <2>0, <3>1 DEF MaskTest, Returns, Moves, Sleep, TypeOK
  <2>2. Places'
    BY <1>21, <2>0 DEF MaskTest, Returns, Moves, TypeOK, Places, Invoking
  <2>3. PendingExact'
    <3>1. \A u \in Threads : Wants(u)' <=> Wants(u)
      BY <1>21, <2>0 DEF MaskTest, Returns, Moves, Wants, Places
    <3> QED BY <1>21, <2>0, <3>1, WantingKept DEF MaskTest, Returns, Moves
  <2>4. OneTurn'
    BY <1>21, <2>0 DEF MaskTest, Returns, Moves, TypeOK, OneTurn, Turn, Places
  <2>5. Stable'
    BY <1>21, <2>0 DEF MaskTest, Returns, Moves, TypeOK, Stable, Running, Places
  <2>6. Inherited'
    BY <1>21, <2>0 DEF MaskTest, Returns, Moves, TypeOK, Inherited, Places
  <2>7. Deletion'
    BY <1>21, <2>0 DEF MaskTest, Returns, Moves, TypeOK, Deletion, Pinned, Places
  <2>8. Told'
    BY <1>21, <2>0 DEF MaskTest, Returns, Moves, TypeOK, Told, Triggered, Places
  <2> QED BY <2>1, <2>2, <2>3, <2>4, <2>5, <2>6, <2>7, <2>8 DEF Inv
<1>22. ASSUME NEW t \in App, TakeBegin(t) PROVE Inv'
  <2> t \in Threads
    BY DEF Threads
  <2>0. FromIdle(t) /\ Moves(t, "take", "mutex", None, FALSE, None)
    BY <1>22, CallMoves DEF TakeBegin, Ops, Pcs, Listeners
  <2>1. TypeOK'
    BY <1>22, <2>0 DEF TakeBegin, Call, FromIdle, Moves, TypeOK
  <2>2. Places'
    BY <1>22, <2>0 DEF TakeBegin, FromIdle, Moves, TypeOK, Places, Invoking
  <2>3. PendingExact'
    <3>1. \A u \in Threads : Wants(u)' <=> Wants(u)
      BY <1>22, <2>0 DEF TakeBegin, FromIdle, Moves, Wants, Places
    <3> QED BY <1>22, <2>0, <3>1, WantingKept DEF TakeBegin, FromIdle, Moves
  <2>4. OneTurn'
    BY <1>22, <2>0 DEF TakeBegin, FromIdle, Moves, TypeOK, OneTurn, Turn, Places
  <2>5. Stable'
    BY <1>22, <2>0 DEF TakeBegin, FromIdle, Moves, TypeOK, Stable, Running, Places
  <2>6. Inherited'
    BY <1>22, <2>0 DEF TakeBegin, FromIdle, Moves, TypeOK, Inherited, Places
  <2>7. Deletion'
    BY <1>22, <2>0 DEF TakeBegin, FromIdle, Moves, TypeOK, Deletion, Pinned, Places
  <2>8. Told'
    BY <1>22, <2>0 DEF TakeBegin, FromIdle, Moves, TypeOK, Told, Triggered, Places
  <2> QED BY <2>1, <2>2, <2>3, <2>4, <2>5, <2>6, <2>7, <2>8 DEF Inv
<1>23. ASSUME NEW t \in App, Take(t) PROVE Inv'
  <2> t \in Threads
    BY DEF Threads
  <2>0. Returns(t)
    BY <1>23, ReturnMoves DEF Take
  <2>1. TypeOK'
    BY <1>23, <2>0 DEF Take, ClearStatus, Returns, Moves, TypeOK
  <2>2. Places'
    BY <1>23, <2>0 DEF Take, ClearStatus, Returns, Moves, TypeOK, Places, Invoking
  <2>3. PendingExact'
    <3>1. \A u \in Threads : Wants(u)' <=> Wants(u)
      BY <1>23, <2>0 DEF Take, ClearStatus, Returns, Moves, Wants, Places
    <3> QED BY <1>23, <2>0, <3>1, WantingKept DEF Take, ClearStatus, Returns, Moves
  <2>4. OneTurn'
    BY <1>23, <2>0 DEF Take, ClearStatus, Returns, Moves, TypeOK, OneTurn, Turn, Places
  <2>5. Stable'
    BY <1>23, <2>0 DEF Take, ClearStatus, Returns, Moves, TypeOK, Stable, Running, Places
  <2>6. Inherited'
    BY <1>23, <2>0 DEF Take, ClearStatus, Returns, Moves, TypeOK, Inherited, Places
  <2>7. Deletion'
    BY <1>23, <2>0 DEF Take, ClearStatus, Returns, Moves, TypeOK, Deletion, Pinned, Places
  <2>8. Told'
    BY <1>23, <2>0 DEF Take, ClearStatus, Returns, Moves, TypeOK, Told, Triggered, Places
  <2> QED BY <2>1, <2>2, <2>3, <2>4, <2>5, <2>6, <2>7, <2>8 DEF Inv
<1>24. ASSUME NEW t \in App, WaitBegin(t) PROVE Inv'
  <2> t \in Threads
    BY DEF Threads
  <2>0. UNCHANGED thr \/ (FromIdle(t) /\ Moves(t, "wait", "asleep", None, FALSE, None))
    <3>1. CASE UNCHANGED thr
      BY <3>1
    <3>2. CASE Call(t, "wait", "asleep", None)
      BY <3>2, CallMoves DEF Ops, Pcs, Listeners
    <3> QED BY <1>24, <3>1, <3>2 DEF WaitBegin
  <2>1. TypeOK'
    BY <1>24, <2>0 DEF WaitBegin, Call, Doze, Triggered, FromIdle, Moves, TypeOK
  <2>2. Places'
    BY <1>24, <2>0 DEF WaitBegin, FromIdle, Moves, TypeOK, Places, Invoking
  <2>3. PendingExact'
    <3>1. \A u \in Threads : Wants(u)' <=> Wants(u)
      BY <1>24, <2>0 DEF WaitBegin, FromIdle, Moves, Wants, Places
    <3> QED BY <1>24, <2>0, <3>1, WantingKept DEF WaitBegin, FromIdle, Moves
  <2>4. OneTurn'
    BY <1>24, <2>0 DEF WaitBegin, FromIdle, Moves, TypeOK, OneTurn, Turn, Places
  <2>5. Stable'
    BY <1>24, <2>0 DEF WaitBegin, FromIdle, Moves, TypeOK, Stable, Running, Places
  <2>6. Inherited'
    BY <1>24, <2>0 DEF WaitBegin, FromIdle, Moves, TypeOK, Inherited, Places
  <2>7. Deletion'
    BY <1>24, <2>0 DEF WaitBegin, FromIdle, Moves, TypeOK, Deletion, Pinned, Places
  <2>8. Told'
    BY <1>24, <2>0 DEF WaitBegin, FromIdle, Moves, TypeOK, Told, Triggered, Places
  <2> QED BY <2>1, <2>2, <2>3, <2>4, <2>5, <2>6, <2>7, <2>8 DEF Inv
<1>25. ASSUME NEW t \in App, WaitWoken(t) PROVE Inv'
  <2> t \in Threads
    BY DEF Threads
  <2>0. UNCHANGED thr \/ Returns(t)
    BY <1>25, ReturnMoves DEF WaitWoken
  <2>1. TypeOK'
    BY <1>25, <2>0 DEF WaitWoken, Doze, Returns, Moves, TypeOK
  <2>2. Places'
    BY <1>25, <2>0 DEF WaitWoken, Returns, Moves, TypeOK, Places, Invoking
  <2>3. PendingExact'
    <3>1. \A u \in Threads : Wants(u)' <=> Wants(u)
      BY <1>25, <2>0 DEF WaitWoken, Returns, Moves, Wants, Places
    <3> QED BY <1>25, <2>0, <3>1, WantingKept DEF WaitWoken, Returns, Moves
  <2>4. OneTurn'
    BY <1>25, <2>0 DEF WaitWoken, Returns, Moves, TypeOK, OneTurn, Turn, Places
  <2>5. Stable'
    BY <1>25, <2>0 DEF WaitWoken, Returns, Moves, TypeOK, Stable, Running, Places
  <2>6. Inherited'
    BY <1>25, <2>0 DEF WaitWoken, Returns, Moves, TypeOK, Inherited, Places
  <2>7. Deletion'
    BY <1>25, <2>0 DEF WaitWoken, Returns, Moves, TypeOK, Deletion, Pinned, Places
  <2>8. Told'
    BY <1>25, <2>0 DEF WaitWoken, Returns, Moves, TypeOK, Told, Triggered, Places
  <2> QED BY <2>1, <2>2, <2>3, <2>4, <2>5, <2>6, <2>7, <2>8 DEF Inv
<1>26. ASSUME NEW t \in App, WaitTimeout(t) PROVE Inv'
  <2> t \in Threads
    BY DEF Threads
  <2>0. Returns(t)
    BY <1>26, ReturnMoves DEF WaitTimeout
  <2>1. TypeOK'
    BY <1>26, <2>0 DEF WaitTimeout, Returns, Moves, TypeOK
  <2>2. Places'
    BY <1>26, <2>0 DEF WaitTimeout, Returns, Moves, TypeOK, Places, Invoking
  <2>3. PendingExact'
    <3>1. \A u \in Threads : Wants(u)' <=> Wants(u)
      BY <1>26, <2>0 DEF WaitTimeout, Returns, Moves, Wants, Places
    <3> QED BY <1>26, <2>0, <3>1, WantingKept DEF WaitTimeout, Returns, Moves
  <2>4. OneTurn'
    BY <1>26, <2>0 DEF WaitTimeout, Returns, Moves, TypeOK, OneTurn, Turn, Places
  <2>5. Stable'
    BY <1>26, <2>0 DEF WaitTimeout, Returns, Moves, TypeOK, Stable, Running, Places
  <2>6. Inherited'
    BY <1>26, <2>0 DEF WaitTimeout, Returns, Moves, TypeOK, Inherited, Places
  <2>7. Deletion'
    BY <1>26, <2>0 DEF WaitTimeout, Returns, Moves, TypeOK, Deletion, Pinned, Places
  <2>8. Told'
    BY <1>26, <2>0 DEF WaitTimeout, Returns, Moves, TypeOK, Told, Triggered, Places
  <2> QED BY <2>1, <2>2, <2>3, <2>4, <2>5, <2>6, <2>7, <2>8 DEF Inv
<1>27. ASSUME NEW t \in App, Attach(t) PROVE Inv'
  <2> t \in Threads
    BY DEF Threads
  <2>1. TypeOK'
    BY <1>27 DEF Attach, WakeWaits, Triggered, TypeOK
  <2>2. Places'
    BY <1>27 DEF Attach, Triggered, TypeOK, Places, Invoking
  <2>3. PendingExact'
    <3>1. \A u \in Threads : Wants(u)' <=> Wants(u)
      BY <1>27 DEF Attach, Triggered, Wants, Places
    <3> QED BY <1>27, <3>1, WantingKept DEF Attach, Triggered
  <2>4. OneTurn'
    BY <1>27 DEF Attach, Triggered, TypeOK, OneTurn, Turn, Places
  <2>5. Stable'
    BY <1>27 DEF Attach, Triggered, TypeOK, Stable, Running, Places
  <2>6. Inherited'
    BY <1>27 DEF Attach, Triggered, TypeOK, Inherited, Places
  <2>7. Deletion'
    BY <1>27 DEF Attach, Triggered, TypeOK, Deletion, Pinned, Places
  <2>8. Told'
    BY <1>27 DEF Attach, Triggered, TypeOK, Told, Triggered, Places
  <2> QED BY <2>1, <2>2, <2>3, <2>4, <2>5, <2>6, <2>7, <2>8 DEF Inv
<1>28. ASSUME NEW t \in App, Detach(t) PROVE Inv'
  <2> t \in Threads
    BY DEF Threads
  <2>1. TypeOK'
    <3>1. dozers' = {} /\ attached' = FALSE /\ trig' = FALSE
      BY <1>28 DEF Detach, RemoveObserver, WakeWaits
    <3>2. calls' \in Nat /\ events' = events
      BY <1>28 DEF Detach, TypeOK
    <3>3. UNCHANGED <<status, mask, unsignalled, lst, plst, closed, reader, freed, thr, cbCount,
                      cbPending, lock, sleepers>>
      BY <1>28 DEF Detach
    <3> QED BY <3>1, <3>2, <3>3 DEF TypeOK
  <2>2. Places'
    BY <1>28 DEF Detach, RemoveObserver, TypeOK, Places, Invoking
  <2>3. PendingExact'
    <3>1. \A u \in Threads : Wants(u)' <=> Wants(u)
      BY <1>28 DEF Detach, RemoveObserver, Wants, Places
    <3> QED BY <1>28, <3>1, WantingKept DEF Detach, RemoveObserver
  <2>4. OneTurn'
    BY <1>28 DEF Detach, RemoveObserver, TypeOK, OneTurn, Turn, Places
  <2>5. Stable'
    BY <1>28 DEF Detach, RemoveObserver, TypeOK, Stable, Running, Places
  <2>6. Inherited'
    BY <1>28 DEF Detach, RemoveObserver, TypeOK, Inherited, Places
  <2>7. Deletion'
    BY <1>28 DEF Detach, RemoveObserver, TypeOK, Deletion, Pinned, Places
  <2>8. Told'
    BY <1>28 DEF Detach, RemoveObserver, TypeOK, Told, Triggered, Places
  <2> QED BY <2>1, <2>2, <2>3, <2>4, <2>5, <2>6, <2>7, <2>8 DEF Inv
<1>29. ASSUME NEW t \in App, DeleteBegin(t) PROVE Inv'
  <2> t \in Threads
    BY DEF Threads
  <2>0. FromIdle(t) /\ Moves(t, "delete", "mutex", None, FALSE, None)
    BY <1>29, CallMoves DEF DeleteBegin, Ops, Pcs, Listeners
  <2>1. TypeOK'
    BY <1>29, <2>0 DEF DeleteBegin, Call, FromIdle, Moves, TypeOK
  <2>2. Places'
    BY <1>29, <2>0 DEF DeleteBegin, FromIdle, Moves, TypeOK, Places, Invoking
  <2>3. PendingExact'
    <3>1. \A u \in Threads : Wants(u)' <=> Wants(u)
      BY <1>29, <2>0 DEF DeleteBegin, FromIdle, Moves, Wants, Places
    <3> QED BY <1>29, <2>0, <3>1, WantingKept DEF DeleteBegin, FromIdle, Moves
  <2>4. OneTurn'
    BY <1>29, <2>0 DEF DeleteBegin, FromIdle, Moves, TypeOK, OneTurn, Turn, Places
  <2>5. Stable'
    BY <1>29, <2>0 DEF DeleteBegin, FromIdle, Moves, TypeOK, Stable, Running, Places
  <2>6. Inherited'
    BY <1>29, <2>0 DEF DeleteBegin, FromIdle, Moves, TypeOK, Inherited, Places
  <2>7. Deletion'
    BY <1>29, <2>0 DEF DeleteBegin, FromIdle, Moves, TypeOK, Deletion, Pinned, Places
  <2>8. Told'
    BY <1>29, <2>0 DEF DeleteBegin, FromIdle, Moves, TypeOK, Told, Triggered, Places
  <2> QED BY <2>1, <2>2, <2>3, <2>4, <2>5, <2>6, <2>7, <2>8 DEF Inv
<1>30. ASSUME NEW t \in App, DeleteLock(t) PROVE Inv'
  <2> t \in Threads
    BY DEF Threads
  <2>0. Stays(t, "test")
    BY <1>30, GotoMoves DEF DeleteLock, Pcs
  <2>1. TypeOK'
    BY <1>30, <2>0 DEF DeleteLock, Stays, Moves, TypeOK
  <2>2. Places'
    BY <1>30, <2>0 DEF DeleteLock, Stays, Moves, TypeOK, Places, Invoking
  <2>3. PendingExact'
    <3>1. \A u \in Threads : Wants(u)' <=> Wants(u)
      BY <1>30, <2>0 DEF DeleteLock, Stays, Moves, Wants, Places
    <3> QED BY <1>30, <2>0, <3>1, WantingKept DEF DeleteLock, Stays, Moves
  <2>4. OneTurn'
    BY <1>30, <2>0 DEF DeleteLock, Stays, Moves, TypeOK, OneTurn, Turn, Places
  <2>5. Stable'
    BY <1>30, <2>0 DEF DeleteLock, Stays, Moves, TypeOK, Stable, Running, Places
  <2>6. Inherited'
    BY <1>30, <2>0 DEF DeleteLock, Stays, Moves, TypeOK, Inherited, Places
  <2>7. Deletion'
    BY <1>30, <2>0 DEF DeleteLock, Stays, Moves, TypeOK, Deletion, Pinned, Places
  <2>8. Told'
    BY <1>30, <2>0 DEF DeleteLock, Stays, Moves, TypeOK, Told, Triggered, Places
  <2> QED BY <2>1, <2>2, <2>3, <2>4, <2>5, <2>6, <2>7, <2>8 DEF Inv
<1>31. ASSUME NEW t \in App, DeleteTest(t) PROVE Inv'
  <2> t \in Threads
    BY DEF Threads
  <2>0. \/ UNCHANGED <<lst, thr>>
        \/ cbPending = 0 /\ lst' = [f |-> None, inh |-> FALSE] /\ Stays(t, "pinned")
    BY <1>31, GotoMoves DEF DeleteTest, Sleep, Pcs
  <2>1. TypeOK'
    <3>1. [f |-> None, inh |-> FALSE] \in [f : Listeners, inh : BOOLEAN]
      BY DEF Listeners
    <3>2. lst' \in [f : Listeners, inh : BOOLEAN]
      BY <2>0, <3>1 DEF TypeOK
    <3> QED BY <1>31, <2>0, <3>2 DEF DeleteTest, Sleep, Stays, Moves, TypeOK
  <2>2. Places'
    BY <1>31, <2>0 DEF DeleteTest, Stays, Moves, TypeOK, Places, Invoking
  <2>3. PendingExact'
    <3>1. \A u \in Threads : Wants(u)' <=> Wants(u)
      BY <1>31, <2>0 DEF DeleteTest, Stays, Moves, Wants, Places
    <3> QED BY <1>31, <2>0, <3>1, WantingKept DEF DeleteTest, Stays, Moves
  <2>4. OneTurn'
    BY <1>31, <2>0 DEF DeleteTest, Stays, Moves, TypeOK, OneTurn, Turn, Places
  <2>5. Stable'
    <3>1. CASE cbPending = 0
      BY <1>31, <2>0, <3>1, NonePending DEF DeleteTest, Stays, Moves, Stable, Running
    <3>2. CASE cbPending # 0
      BY <1>31, <2>0, <3>2 DEF DeleteTest, Stays, Moves, Stable, Running
    <3> QED BY <3>1, <3>2
  <2>6. Inherited'
    BY <1>31, <2>0 DEF DeleteTest, Stays, Moves, TypeOK, Inherited, Places
  <2>7. Deletion'
    BY <1>31, <2>0 DEF DeleteTest, Stays, Moves, TypeOK, Deletion, Pinned, Places
  <2>8. Told'
    BY <1>31, <2>0 DEF DeleteTest, Stays, Moves, TypeOK, Told, Triggered, Places
  <2> QED BY <2>1, <2>2, <2>3, <2>4, <2>5, <2>6, <2>7, <2>8 DEF Inv
<1>32. ASSUME NEW t \in App, DeleteClose(t) PROVE Inv'
  <2> t \in Threads
    BY DEF Threads
  <2>0. Stays(t, "close")
    BY <1>32, GotoMoves DEF DeleteClose, Pcs
  <2>1. TypeOK'
    BY <1>32, <2>0 DEF DeleteClose, Stays, Moves, TypeOK
  <2>2. Places'
    BY <1>32, <2>0 DEF DeleteClose, Stays, Moves, TypeOK, Places, Invoking
  <2>3. PendingExact'
    <3>1. \A u \in Threads : Wants(u)' <=> Wants(u)
      BY <1>32, <2>0 DEF DeleteClose, Stays, Moves, Wants, Places
    <3> QED BY <1>32, <2>0, <3>1, WantingKept DEF DeleteClose, Stays, Moves
  <2>4. OneTurn'
    BY <1>32, <2>0 DEF DeleteClose, Stays, Moves, TypeOK, OneTurn, Turn, Places
  <2>5. Stable'
    BY <1>32, <2>0 DEF DeleteClose, Stays, Moves, TypeOK, Stable, Running, Places
  <2>6. Inherited'
    BY <1>32, <2>0 DEF DeleteClose, Stays, Moves, TypeOK, Inherited, Places
  <2>7. Deletion'
    BY <1>32, <2>0 DEF DeleteClose, Stays, Moves, TypeOK, Deletion, Pinned, Places
  <2>8. Told'
    BY <1>32, <2>0 DEF DeleteClose, Stays, Moves, TypeOK, Told, Triggered, Places
  <2> QED BY <2>1, <2>2, <2>3, <2>4, <2>5, <2>6, <2>7, <2>8 DEF Inv
<1>33. ASSUME NEW t \in App, DeleteFree(t) PROVE Inv'
  <2> t \in Threads
    BY DEF Threads
  <2>0. Returns(t)
    BY <1>33, ReturnMoves DEF DeleteFree
  <2>1. TypeOK'
    BY <1>33, <2>0 DEF DeleteFree, RemoveObserver, WakeWaits, Returns, Moves, TypeOK
  <2>2. Places'
    BY <1>33, <2>0 DEF DeleteFree, RemoveObserver, Returns, Moves, TypeOK, Places, Invoking
  <2>3. PendingExact'
    <3>1. \A u \in Threads : Wants(u)' <=> Wants(u)
      BY <1>33, <2>0 DEF DeleteFree, RemoveObserver, Returns, Moves, Wants, Places
    <3> QED BY <1>33, <2>0, <3>1, WantingKept DEF DeleteFree, RemoveObserver, Returns, Moves
  <2>4. OneTurn'
    BY <1>33, <2>0 DEF DeleteFree, RemoveObserver, Returns, Moves, TypeOK, OneTurn, Turn, Places
  <2>5. Stable'
    BY <1>33, <2>0 DEF DeleteFree, RemoveObserver, Returns, Moves, TypeOK, Stable, Running, Places
  <2>6. Inherited'
    BY <1>33, <2>0 DEF DeleteFree, RemoveObserver, Returns, Moves, TypeOK, Inherited, Places
  <2>7. Deletion'
    BY <1>33, <2>0 DEF DeleteFree, RemoveObserver, Returns, Moves, TypeOK, Deletion, Pinned,
        Places
  <2>8. Told'
    BY <1>33, <2>0 DEF DeleteFree, RemoveObserver, Returns, Moves, TypeOK, Told, Triggered, Places
  <2> QED BY <2>1, <2>2, <2>3, <2>4, <2>5, <2>6, <2>7, <2>8 DEF Inv
<1>34. CASE ReaderGone
  <2>1. TypeOK' /\ Places' /\ OneTurn' /\ Stable' /\ Inherited' /\ Told'
    BY <1>34 DEF ReaderGone, TypeOK, Places, OneTurn, Turn, Stable, Running, Inherited, Told,
        Triggered
  <2>2. PendingExact'
    BY <1>34, WantingKept DEF ReaderGone, Wants
  <2>3. Deletion'
    BY <1>34 DEF ReaderGone, Deletion, Pinned, TypeOK
  <2> QED BY <2>1, <2>2, <2>3 DEF Inv
<1>35. CASE UNCHANGED vars
  <2>1. TypeOK' /\ Places' /\ OneTurn' /\ Stable' /\ Inherited' /\ Told'
    BY <1>35 DEF TypeOK, Places, OneTurn, Turn, Stable, Running, Inherited, Told, Triggered
  <2>2. PendingExact' /\ Deletion'
    BY <1>35, WantingKept DEF Wants, Deletion, Pinned
  <2> QED BY <2>1, <2>2 DEF Inv
<1> QED
  BY <1>1, <1>2, <1>3, <1>4, <1>5, <1>6, <1>7, <1>8, <1>9, <1>10, <1>11, <1>12, <1>13, <1>14,
      <1>15, <1>16, <1>17, <1>18, <1>19, <1>20, <1>21, <1>22, <1>23, <1>24, <1>25, <1>26,
      <1>27, <1>28, <1>29, <1>30, <1>31, <1>32, <1>33, <1>34, <1>35 DEF Next, Invocation,
      Callback, EventStep, SetListener, PushDown, Status, Waitset, Delete

LEMMA AlwaysInv == Spec => []Inv
<1>1. Inv /\ [Next]_vars => Inv'
  BY NextInv
<1>2. QED
  BY InitInv, <1>1, PTL DEF Spec

\* Type correctness of the status, the listener and the threads.
THEOREM TypeCorrect == Spec => []TypeOK
<1>1. Inv => TypeOK
  BY DEF Inv
<1>2. QED
  BY AlwaysInv, <1>1, PTL

\* The two counters of dds_entity.c keep a listener in place while its callback
\* runs, let one event or call of dds_set_listener in at a time, and with the
\* pins of the handle keep everybody away from a reader that is freed.
THEOREM ListenersStable == Spec => []ListenerStable
<1>1. Inv => ListenerStable
  <2> SUFFICES ASSUME Inv PROVE ListenerStable
    OBVIOUS
  <2> DEFINE S == {t \in Threads : Running(t) /\ thr[t].op # "push"}
  <2>1. \A t \in Threads : Running(t) => thr[t].f = lst.f
    BY DEF Inv, Stable
  <2>2. \A t, u \in S : t = u
    BY DEF Inv, OneTurn, Turn, Running, Places, TypeOK, Locals, Ops
  <2>3. Cardinality(S) <= 1
    <3>1. CASE S = {}
      BY <3>1, FS_EmptySet
    <3>2. CASE S # {}
      <4>1. PICK x \in S : S = {x}
        BY <2>2, <3>2
      <4>2. QED
        BY <4>1, FS_Singleton
    <3>3. QED
      BY <3>1, <3>2
  <2>4. ASSUME freed
        PROVE  /\ ~attached
               /\ \A t \in Threads : /\ thr[t].op \notin {"event", "set", "mask", "take"}
                                     /\ ~Running(t)
    BY <2>4 DEF Inv, Deletion, Pinned, Running, Places, TypeOK, Locals, Ops
  <2>5. lst.inh /\ ~closed => lst.f = plst \/ \E t \in App : thr[t].op = "push"
    BY DEF Inv, Inherited
  <2>6. QED
    BY <2>1, <2>3, <2>4, <2>5 DEF ListenerStable
<1>2. QED
  BY AlwaysInv, <1>1, PTL

\* A thread in dds_waitset_wait is told of a status that becomes visible to it, or
\* will be by the event that set it, but for the two cases the history variable
\* records.
THEOREM TriggersNotMissed == Spec => []NoMissedTrigger
<1>1. Inv => NoMissedTrigger
  BY DEF Inv, Told, NoMissedTrigger
<1>2. QED
  BY AlwaysInv, <1>1, PTL
=============================================================================
