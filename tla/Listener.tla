------------------------------ MODULE Listener ------------------------------
(***************************************************************************)
(* The status of one reader, the listener and the waitset that are told of *)
(* it, and the calls that change them (dds_reader.c, dds_entity.c,         *)
(* dds_listener.c, dds_waitset.c).                                         *)
(*                                                                         *)
(* Events reach the reader on threads of the middleware.  One status kind  *)
(* is kept, of those STATUS_CB_IMPL generates.  The reader has one parent  *)
(* whose listener it may inherit.  m_observers_lock is released while a    *)
(* callback runs and while a thread sleeps on m_observers_cond: the two    *)
(* counters m_cb_count and m_cb_pending_count are what keeps the listener  *)
(* in place meanwhile.  The status and its mask are one atomic word that   *)
(* some operations change without the lock: where the code reads it and    *)
(* later writes it there are two steps.                                    *)
(*                                                                         *)
(* The handle is the pin of each call and the CLOSING flag; Handles has    *)
(* the rest of it.  The collector is the step ReaderGone, which waits for  *)
(* the threads that are in an event; Gc has the rest.                      *)
(***************************************************************************)
EXTENDS Naturals, FiniteSets

CONSTANTS
  App,          \* application threads
  Mid,          \* threads of the middleware on which events arrive
  None,         \* no thread, no callback
  Callbacks,    \* the callbacks the application has
  ResetOn,      \* the callbacks with reset_on_invoke
  MaxEvents,    \* bound: events
  MaxCalls      \* bound: calls of the application

ASSUME ListenerAssumption ==
  /\ ResetOn \subseteq Callbacks
  /\ None \notin App \cup Mid \cup Callbacks
  /\ App \cap Mid = {} /\ IsFiniteSet(App) /\ IsFiniteSet(Mid)
  /\ MaxEvents \in Nat /\ MaxCalls \in Nat

VARIABLES
  status, mask, \* the status bit of m_status_and_mask, and its enabled bit
  lst,          \* m_listener of the reader: the callback, and whether it is inherited
  plst,         \* m_listener of the parent
  cbCount,      \* m_cb_count
  cbPending,    \* m_cb_pending_count
  lock,         \* the thread that is inside m_observers_lock across a step
  sleepers,     \* the threads asleep on m_observers_cond
  attached,     \* the reader is among the entities of the waitset
  trig,         \* it is in the triggered part of them
  dozers,       \* the threads asleep on wait_cond of the waitset
  closed,       \* the handle of the reader is closing
  reader,       \* the DDSI reader: "live", "deleted" (out of the index), "gone" (m_rd is NULL)
  freed,        \* the memory of the reader is freed
  thr,          \* thr[t]: what thread t is doing
  events, calls,\* events and calls that may still come
  unsignalled   \* history: the status is visible to waitsets that were never told

vars == <<status, mask, lst, plst, cbCount, cbPending, lock, sleepers, attached, trig,
          dozers, closed, reader, freed, thr, events, calls, unsignalled>>
statusVars == <<status, mask, unsignalled>>
waitVars == <<attached, trig, dozers>>
listVars == <<lst, plst>>
lifeVars == <<closed, reader, freed>>
budget == <<events, calls>>

Threads == App \cup Mid
Listeners == Callbacks \cup {None}

(* What a thread does: the call it is in (op), the place in it (pc), the     *)
(* callback it runs (f), the local "signal" of the invocation, and the       *)
(* argument of the call.                                                     *)
Idle == [op |-> "none", pc |-> "idle", f |-> None, signal |-> FALSE, arg |-> None]

Goto(t, pc) == thr' = [thr EXCEPT ![t].pc = pc]
Return(t) == thr' = [thr EXCEPT ![t] = Idle]
At(t, op, pc) == thr[t].op = op /\ thr[t].pc = pc

(* The threads that have the reader pinned: the calls on it, the push-down  *)
(* that reached it, and a callback inside dds_get_*_status.                 *)
Pinned(t) ==
  \/ thr[t].op \in {"set", "mask", "take"}
  \/ thr[t].op = "push" /\ thr[t].pc # "pin"
  \/ thr[t].pc = "getting"

(* m_mutex of the reader: only dds_set_status_mask keeps it over a sleep. *)
MutexFree == \A t \in App : ~At(t, "mask", "test")
LockFree == lock = None

(* A turn of the loop on m_observers_cond: the thread is awake and the lock *)
(* is free.                                                                  *)
MayTest(t) == LockFree /\ t \notin sleepers
Sleep(t) == sleepers' = sleepers \cup {t}
Broadcast == sleepers' = {}

-----------------------------------------------------------------------------
Init ==
  /\ status = FALSE /\ mask = TRUE /\ unsignalled = FALSE
  /\ plst \in Listeners
  /\ lst \in {[f |-> c, inh |-> FALSE] : c \in Callbacks} \cup {[f |-> plst, inh |-> plst # None]}
  /\ cbCount = 0 /\ cbPending = 0 /\ lock = None /\ sleepers = {}
  /\ attached = FALSE /\ trig = FALSE /\ dozers = {}
  /\ closed = FALSE /\ reader = "live" /\ freed = FALSE
  /\ thr = [t \in Threads |-> Idle]
  /\ events = MaxEvents /\ calls = MaxCalls

(* A call of the application, from a thread that is in none. *)
Call(t, op, pc, arg) ==
  /\ thr[t] = Idle /\ calls > 0
  /\ calls' = calls - 1 /\ UNCHANGED events
  /\ thr' = [thr EXCEPT ![t] = [Idle EXCEPT !.op = op, !.pc = pc, !.arg = arg]]

-----------------------------------------------------------------------------
(* One invocation at a time: m_cb_count is the right to call.               *)

(* m_cb_pending_count goes up, and the thread waits for m_cb_count = 0. *)
Acquire(t) == cbCount' = 1 /\ lock' = t /\ Goto(t, "entered") /\ UNCHANGED sleepers
AcquireOrSleep(t) ==
  \/ cbCount = 0 /\ Acquire(t)
  \/ cbCount > 0 /\ Sleep(t) /\ Goto(t, "reenter") /\ UNCHANGED <<cbCount, lock>>
Enter(t) ==
  /\ thr[t].pc = "enter" /\ LockFree
  /\ cbPending' = cbPending + 1
  /\ AcquireOrSleep(t)
  /\ UNCHANGED <<statusVars, waitVars, listVars, lifeVars, budget>>
Reenter(t) ==
  /\ thr[t].pc = "reenter" /\ MayTest(t)
  /\ AcquireOrSleep(t)
  /\ UNCHANGED <<statusVars, waitVars, listVars, lifeVars, budget, cbPending>>

(* dds_entity_observers_signal, with dds_waitset_observer. *)
Signal == trig' = attached /\ dozers' = IF attached THEN {} ELSE dozers
Leave(t) ==
  /\ cbCount' = cbCount - 1 /\ cbPending' = cbPending - 1
  /\ Broadcast /\ lock' = None /\ Return(t)

(* dds_entity_status_set: the status, and whether waitsets must be told. *)
MustSignal == ~status /\ mask
(* Clearing the status also ends what waitsets could have missed. *)
ClearStatus == status' = FALSE /\ unsignalled' = FALSE /\ UNCHANGED mask
(* status_cb_*_invoke up to the call: the lock is released around it. *)
Invoke(t) ==
  /\ lst.f # None
  /\ lock' = None
  /\ \/ /\ lst.f \in ResetOn
        /\ ClearStatus
        /\ thr' = [thr EXCEPT ![t].pc = "running", ![t].f = lst.f, ![t].signal = FALSE]
     \/ /\ lst.f \notin ResetOn
        /\ status' = TRUE /\ UNCHANGED mask
        /\ unsignalled' = (unsignalled \/ (thr[t].op # "event" /\ MustSignal))
        /\ thr' = [thr EXCEPT ![t].pc = "running", ![t].f = lst.f, ![t].signal = MustSignal]

(* The callback calls dds_get_*_status on its reader, and it returns. *)
CallbackGets(t) ==
  /\ thr[t].pc = "running" /\ ~closed
  /\ Goto(t, "getting")
  /\ UNCHANGED <<statusVars, waitVars, listVars, lifeVars, budget, cbCount, cbPending, lock, sleepers>>
CallbackGot(t) ==
  /\ thr[t].pc = "getting" /\ MutexFree /\ LockFree
  /\ ClearStatus
  /\ Goto(t, "running")
  /\ UNCHANGED <<waitVars, listVars, lifeVars, budget, cbCount, cbPending, lock, sleepers>>
CallbackReturns(t) ==
  /\ thr[t].pc = "running" /\ LockFree
  /\ lock' = t
  /\ thr' = [thr EXCEPT ![t].pc = "returned", ![t].f = None,
                        ![t].signal = @ /\ status /\ mask]
  /\ UNCHANGED <<statusVars, waitVars, listVars, lifeVars, budget, cbCount, cbPending, sleepers>>

-----------------------------------------------------------------------------
(* An event: dds_reader_status_cb on a thread that found the DDSI reader.   *)
Event(t) ==
  /\ thr[t] = Idle /\ events > 0 /\ reader = "live"
  /\ events' = events - 1 /\ UNCHANGED calls
  /\ thr' = [thr EXCEPT ![t].op = "event", ![t].pc = "enter"]
  /\ UNCHANGED <<statusVars, waitVars, listVars, lifeVars, cbCount, cbPending, lock, sleepers>>
EventInvoke(t) ==
  /\ At(t, "event", "entered")
  /\ Invoke(t)
  /\ UNCHANGED <<waitVars, listVars, lifeVars, budget, cbCount, cbPending, sleepers>>
(* Without a listener the status is set at once. *)
EventSet(t) ==
  /\ At(t, "event", "entered") /\ lst.f = None
  /\ status' = TRUE /\ UNCHANGED <<mask, unsignalled>>
  /\ thr' = [thr EXCEPT ![t].pc = "returned", ![t].signal = MustSignal]
  /\ UNCHANGED <<waitVars, listVars, lifeVars, budget, cbCount, cbPending, lock, sleepers>>
EventLeave(t) ==
  /\ At(t, "event", "returned")
  /\ \/ thr[t].signal /\ Signal /\ UNCHANGED attached
     \/ ~thr[t].signal /\ UNCHANGED waitVars
  /\ Leave(t)
  /\ UNCHANGED <<statusVars, listVars, lifeVars, budget>>

-----------------------------------------------------------------------------
(* dds_set_listener on the reader.  Its children are conditions, which have *)
(* no listener: the push-down from it changes nothing.                      *)
SetBegin(t) ==
  /\ ~closed /\ \E l \in Listeners : Call(t, "set", "test", l)
  /\ UNCHANGED <<statusVars, waitVars, listVars, lifeVars, cbCount, cbPending, lock, sleepers>>
(* The new listener is its own, and what it lacks it inherits. *)
Combined(l) == IF l # None THEN [f |-> l, inh |-> FALSE] ELSE [f |-> plst, inh |-> plst # None]
\* Fault: the listener is replaced without waiting for the invocations in progress.
SetAtOnce(t) ==
  /\ At(t, "set", "test") /\ MayTest(t)
  /\ lst' = Combined(thr[t].arg) /\ Goto(t, "enter")
  /\ UNCHANGED <<statusVars, waitVars, plst, lifeVars, budget, cbCount, cbPending, lock, sleepers>>
SetTest(t) ==
  /\ At(t, "set", "test") /\ MayTest(t)
  /\ \/ cbPending > 0 /\ Sleep(t) /\ UNCHANGED <<lst, thr>>
     \/ cbPending = 0 /\ lst' = Combined(thr[t].arg) /\ Goto(t, "enter") /\ UNCHANGED sleepers
  /\ UNCHANGED <<statusVars, waitVars, plst, lifeVars, budget, cbCount, cbPending, lock>>
(* A status that is already set is passed to the new listener. *)
SetPending(t) ==
  /\ At(t, "set", "entered") /\ thr[t].arg # None /\ status /\ lst.f # None
  /\ Goto(t, "pending")
  /\ UNCHANGED <<statusVars, waitVars, listVars, lifeVars, budget, cbCount, cbPending, lock, sleepers>>
SetLeave(t) ==
  /\ \/ At(t, "set", "returned")
     \/ At(t, "set", "entered") /\ ~(thr[t].arg # None /\ status /\ lst.f # None)
  /\ Leave(t)
  /\ UNCHANGED <<statusVars, waitVars, listVars, lifeVars, budget>>
PendingInvoke(t) ==
  /\ thr[t].pc = "pending"
  /\ Invoke(t)
  /\ UNCHANGED <<waitVars, listVars, lifeVars, budget, cbCount, cbPending, sleepers>>

-----------------------------------------------------------------------------
(* dds_set_listener on the parent, and pushdown_listener from it.  The      *)
(* parent has none of these statuses, so that its own waits for callbacks   *)
(* end at once.                                                             *)
PushBegin(t) ==
  \E l \in Listeners :
    /\ plst' = l
    /\ Call(t, "push", "pin", l)
    /\ UNCHANGED <<statusVars, waitVars, lst, lifeVars, cbCount, cbPending, lock, sleepers>>
(* A reader that is being deleted cannot be pinned and is passed over. *)
PushPin(t) ==
  /\ At(t, "push", "pin")
  /\ IF closed THEN Return(t) ELSE Goto(t, "test")
  /\ UNCHANGED <<statusVars, waitVars, listVars, lifeVars, budget, cbCount, cbPending, lock, sleepers>>
(* dds_override_inherited_listener: only an inherited callback is replaced. *)
Overridden == IF lst.inh THEN [lst EXCEPT !.f = plst] ELSE lst
PushTest(t) ==
  /\ At(t, "push", "test") /\ MayTest(t)
  /\ \/ cbPending > 0 /\ Sleep(t) /\ UNCHANGED <<lst, thr, cbPending, lock>>
     \/ /\ cbPending = 0 /\ UNCHANGED sleepers
        /\ lst' = Overridden
        /\ IF status /\ Overridden.f # None
           THEN cbPending' = cbPending + 1 /\ lock' = t /\ Goto(t, "pending")
           ELSE Return(t) /\ UNCHANGED <<cbPending, lock>>
  /\ UNCHANGED <<statusVars, waitVars, plst, lifeVars, budget, cbCount>>
(* The count goes down without a broadcast. *)
PushLeave(t) ==
  /\ At(t, "push", "returned")
  /\ cbPending' = cbPending - 1
  /\ lock' = None /\ Return(t)
  /\ UNCHANGED <<statusVars, waitVars, listVars, lifeVars, budget, cbCount, sleepers>>

-----------------------------------------------------------------------------
(* dds_set_status_mask, which keeps m_mutex, and dds_take_status.           *)
MaskBegin(t) ==
  /\ ~closed /\ \E m \in BOOLEAN : Call(t, "mask", "mutex", m)
  /\ UNCHANGED <<statusVars, waitVars, listVars, lifeVars, cbCount, cbPending, lock, sleepers>>
MaskLock(t) ==
  /\ At(t, "mask", "mutex") /\ MutexFree
  /\ IF closed THEN Return(t) ELSE Goto(t, "test")
  /\ UNCHANGED <<statusVars, waitVars, listVars, lifeVars, budget, cbCount, cbPending, lock, sleepers>>
MaskTest(t) ==
  /\ At(t, "mask", "test") /\ MayTest(t)
  /\ \/ cbPending > 0 /\ Sleep(t) /\ UNCHANGED <<mask, unsignalled, thr>>
     \/ /\ cbPending = 0 /\ UNCHANGED sleepers
        /\ mask' = thr[t].arg
        /\ unsignalled' = (unsignalled \/ (thr[t].arg /\ ~mask /\ status))
        /\ Return(t)
  /\ UNCHANGED <<status, waitVars, listVars, lifeVars, budget, cbCount, cbPending, lock>>
TakeBegin(t) ==
  /\ ~closed /\ status /\ Call(t, "take", "mutex", None)
  /\ UNCHANGED <<statusVars, waitVars, listVars, lifeVars, cbCount, cbPending, lock, sleepers>>
Take(t) ==
  /\ At(t, "take", "mutex") /\ MutexFree
  /\ ClearStatus /\ Return(t)
  /\ UNCHANGED <<waitVars, listVars, lifeVars, budget, cbCount, cbPending, lock, sleepers>>

-----------------------------------------------------------------------------
(* The waitset.  Its wait_lock is taken last, and never over a step.        *)
Triggered == status /\ mask     \* is_triggered
Doze(t) == dozers' = dozers \cup {t}
WakeWaits == dozers' = {}

(* The wait starts with all entities tested anew. *)
WaitBegin(t) ==
  /\ attached /\ trig' = Triggered
  /\ \/ trig' /\ calls > 0 /\ calls' = calls - 1 /\ thr[t] = Idle /\ UNCHANGED <<events, thr, dozers>>
     \/ ~trig' /\ Call(t, "wait", "asleep", None) /\ Doze(t)
  /\ UNCHANGED <<statusVars, attached, listVars, lifeVars, cbCount, cbPending, lock, sleepers>>
WaitWoken(t) ==
  /\ At(t, "wait", "asleep") /\ t \notin dozers
  /\ \/ attached /\ ~trig /\ Doze(t) /\ UNCHANGED thr
     \/ (~attached \/ trig) /\ Return(t) /\ UNCHANGED dozers
  /\ UNCHANGED <<statusVars, attached, trig, listVars, lifeVars, budget, cbCount, cbPending, lock, sleepers>>
WaitTimeout(t) ==
  /\ At(t, "wait", "asleep") /\ t \in dozers
  /\ dozers' = dozers \ {t} /\ Return(t)
  /\ UNCHANGED <<statusVars, attached, trig, listVars, lifeVars, budget, cbCount, cbPending, lock, sleepers>>
\* Fault: a reader is attached without a look at its status.
AttachUntested(t) ==
  /\ thr[t] = Idle /\ calls > 0 /\ calls' = calls - 1
  /\ ~closed /\ LockFree /\ ~attached
  /\ attached' = TRUE /\ trig' = FALSE /\ WakeWaits
  /\ UNCHANGED <<statusVars, listVars, lifeVars, thr, events, cbCount, cbPending, lock, sleepers>>
Attach(t) ==
  /\ thr[t] = Idle /\ calls > 0 /\ calls' = calls - 1
  /\ ~closed /\ LockFree /\ ~attached
  /\ attached' = TRUE /\ trig' = Triggered /\ WakeWaits
  /\ UNCHANGED <<statusVars, listVars, lifeVars, thr, events, cbCount, cbPending, lock, sleepers>>
RemoveObserver == attached' = FALSE /\ trig' = FALSE /\ IF attached THEN WakeWaits ELSE UNCHANGED dozers
Detach(t) ==
  /\ thr[t] = Idle /\ calls > 0 /\ calls' = calls - 1
  /\ ~closed /\ LockFree /\ attached
  /\ RemoveObserver
  /\ UNCHANGED <<statusVars, listVars, lifeVars, thr, events, cbCount, cbPending, lock, sleepers>>

-----------------------------------------------------------------------------
(* dds_delete of the reader.                                                *)
DeleteBegin(t) ==
  /\ ~closed /\ closed' = TRUE
  /\ Call(t, "delete", "mutex", None)
  /\ UNCHANGED <<statusVars, waitVars, listVars, reader, freed, cbCount, cbPending, lock, sleepers>>
DeleteLock(t) ==
  /\ At(t, "delete", "mutex") /\ MutexFree
  /\ Goto(t, "test")
  /\ UNCHANGED <<statusVars, waitVars, listVars, lifeVars, budget, cbCount, cbPending, lock, sleepers>>
DeleteTest(t) ==
  /\ At(t, "delete", "test") /\ MayTest(t)
  /\ \/ cbPending > 0 /\ Sleep(t) /\ UNCHANGED <<lst, thr>>
     \/ /\ cbPending = 0 /\ UNCHANGED sleepers
        /\ lst' = [f |-> None, inh |-> FALSE]
        /\ Goto(t, "pinned")
  /\ UNCHANGED <<statusVars, waitVars, plst, lifeVars, budget, cbCount, cbPending, lock>>
(* dds_handle_close_wait, and dds_reader_close up to its own wait. *)
DeleteClose(t) ==
  /\ At(t, "delete", "pinned") /\ \A u \in Threads : ~Pinned(u)
  /\ reader' = "deleted" /\ Goto(t, "close")
  /\ UNCHANGED <<statusVars, waitVars, listVars, closed, freed, budget, cbCount, cbPending, lock, sleepers>>
(* The collector calls dds_reader_status_cb without data once no thread that *)
(* may have found the DDSI reader is still at work.                           *)
ReaderGone ==
  /\ reader = "deleted" /\ MutexFree
  /\ \A t \in Threads : thr[t].op # "event"
  /\ reader' = "gone"
  /\ UNCHANGED <<statusVars, waitVars, listVars, closed, freed, budget, thr, cbCount, cbPending, lock, sleepers>>
(* dds_entity_observers_signal_delete, and the end of the reader. *)
DeleteFree(t) ==
  /\ At(t, "delete", "close") /\ reader = "gone"
  /\ RemoveObserver /\ freed' = TRUE /\ Return(t)
  /\ UNCHANGED <<statusVars, listVars, closed, reader, budget, cbCount, cbPending, lock, sleepers>>

-----------------------------------------------------------------------------
Callback(t) == CallbackGets(t) \/ CallbackGot(t) \/ CallbackReturns(t)
Invocation(t) == Enter(t) \/ Reenter(t) \/ PendingInvoke(t) \/ Callback(t)
EventStep(t) == Event(t) \/ EventInvoke(t) \/ EventSet(t) \/ EventLeave(t)
SetListener(t) == SetBegin(t) \/ SetTest(t) \/ SetPending(t) \/ SetLeave(t)
PushDown(t) == PushBegin(t) \/ PushPin(t) \/ PushTest(t) \/ PushLeave(t)
Status(t) == MaskBegin(t) \/ MaskLock(t) \/ MaskTest(t) \/ TakeBegin(t) \/ Take(t)
Waitset(t) == WaitBegin(t) \/ WaitWoken(t) \/ WaitTimeout(t) \/ Attach(t) \/ Detach(t)
Delete(t) == DeleteBegin(t) \/ DeleteLock(t) \/ DeleteTest(t) \/ DeleteClose(t) \/ DeleteFree(t)

Next ==
  \/ \E t \in Threads : Invocation(t)
  \/ \E t \in Mid : EventStep(t)
  \/ \E t \in App : SetListener(t) \/ PushDown(t) \/ Status(t) \/ Waitset(t) \/ Delete(t)
  \/ ReaderGone

Spec == Init /\ [][Next]_vars

-----------------------------------------------------------------------------
Running(t) == thr[t].pc \in {"running", "getting"}

(* A callback runs with the listener it was found in still installed ("the  *)
(* listener function and argument pointers are stable"), two of them run    *)
(* together only if one is passed a pending status by a push-down, and      *)
(* neither an event nor the waitset is left with a reader that is freed.    *)
(* What a reader inherits is what its parent has, unless a push-down is     *)
(* still on its way to it.                                                  *)
ListenerStable ==
  /\ \A t \in Threads : Running(t) => thr[t].f = lst.f
  /\ Cardinality({t \in Threads : Running(t) /\ thr[t].op # "push"}) <= 1
  /\ freed => ~attached /\ \A t \in Threads : thr[t].op \notin {"event", "set", "mask", "take"} /\ ~Running(t)
  /\ lst.inh /\ ~closed => lst.f = plst \/ \E t \in App : thr[t].op = "push"

(* Nobody sleeps in a wait while the status it waits for is set and         *)
(* enabled, except until an event that has set it has signalled, and in the *)
(* two cases in which the code tells no waitset: the status was set before  *)
(* dds_set_status_mask enabled it, or the call of a listener for a pending  *)
(* status set it again after it had been taken.                             *)
NoMissedTrigger ==
  (dozers # {} /\ attached /\ ~trig /\ Triggered) =>
    unsignalled \/ \E t \in Mid : thr[t].signal
=============================================================================
