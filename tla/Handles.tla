------------------------------ MODULE Handles ------------------------------
(***************************************************************************)
(* Entity handles and the deletion of entities (dds_handles.c,             *)
(* dds_entity.c).  Each handle has a word of flags, a reference count and  *)
(* a pin count that threads update without the entity's mutex.  Deleting   *)
(* an entity closes its handle, waits for the pins of other threads to go, *)
(* deletes the children, leaves the parent, drops the reference to its     *)
(* topic and frees the memory; that may go on to delete the topic, and the *)
(* parent if it was created implicitly for its children.                   *)
(*                                                                         *)
(* A step is one access to a word of flags and counts or one critical      *)
(* section of a mutex.  A thread's calls are a stack of frames, the        *)
(* current one first.  Not modelled: listeners, observers, built-in topics *)
(* (NO_USER_ACCESS), and readers created directly in a participant.        *)
(***************************************************************************)
EXTENDS Integers, Sequences, FiniteSets

CONSTANTS
  Threads,
  Entities,
  Topics,          \* the topics: their references are readers, not children
  Root,            \* the participant: the entity without a parent
  Nobody, None,    \* no thread; no entity
  Parent(_),       \* m_parent
  TopicOf(_),      \* the topic of a reader, None for other entities
  Iid(_),          \* m_iid, which orders the children of an entity
  Scenarios,       \* what the application does: the entities that exist at first (the
                   \* others may be created), the ones created implicitly, and the ones
                   \* that may be deleted, each once
  MaxOps           \* bound: number of calls of the application

ASSUME HandlesAssumption ==
  /\ Topics \subseteq Entities /\ Root \in Entities \ Topics
  /\ None \notin Entities /\ Nobody \notin Threads
  /\ IsFiniteSet(Entities)
  /\ \A s \in Scenarios :
       /\ s.exist \cup s.implicit \cup s.deletable \subseteq Entities
       /\ \A e \in s.exist : {Parent(e), TopicOf(e)} \subseteq s.exist \cup {None}
  /\ \A e \in Entities : /\ Iid(e) \in Nat \ {0}
                         /\ \A f \in Entities : Iid(e) = Iid(f) => e = f
                         /\ TopicOf(e) \in Topics \cup {None}
                         /\ Parent(e) \in (Entities \ Topics) \cup {None}
                         /\ (Parent(e) = None) <=> (e = Root)
                         /\ Parent(e) # e
  /\ \A e \in Topics : Parent(e) = Root /\ TopicOf(e) = None
  /\ MaxOps \in Nat

VARIABLES
  hdl,        \* hdl[e]: the handle: is it in the table, its flags and its counts
  life,       \* life[e]: "none", "alive", "freed": the memory of the entity
  children,   \* children[e]: m_children
  mutex,      \* mutex[e]: the thread that holds m_mutex
  stack,      \* stack[t]: the calls t is in
  ops,        \* number of calls still to be made by the application
  implicit,   \* the entities with DDS_ENTITY_IMPLICIT
  deletable   \* the entities the application will still delete

entityVars == <<hdl, life, children, mutex>>
envVars == <<ops, implicit, deletable>>
vars == <<entityVars, stack, envVars>>

NoHandle == [in |-> FALSE, closing |-> FALSE, deferred |-> FALSE, pending |-> FALSE,
             refs |-> 0, pins |-> 0]

\* dds_handle_create: the handle of an explicitly created entity has a reference.
NewHandle(e) == [NoHandle EXCEPT !.in = TRUE, !.pending = TRUE, !.pins = 1,
                                 !.refs = IF e \in implicit THEN 0 ELSE 1]

InitFrom(s) ==
  /\ implicit = s.implicit /\ deletable = s.deletable /\ ops = MaxOps
  /\ life = [e \in Entities |-> IF e \in s.exist THEN "alive" ELSE "none"]
  /\ children = [e \in Entities |-> {c \in s.exist : Parent(c) = e}]
  /\ hdl = [e \in Entities |->
              IF e \notin s.exist THEN NoHandle
              ELSE [NoHandle EXCEPT !.in = TRUE,
                      !.refs = (IF e \in s.implicit THEN 0 ELSE 1)
                               + Cardinality({c \in s.exist : Parent(c) = e \/ TopicOf(c) = e})]]
  /\ mutex = [e \in Entities |-> Nobody]
  /\ stack = [t \in Threads |-> <<>>]

Init == \E s \in Scenarios : InitFrom(s)
-----------------------------------------------------------------------------
(* Threads *)

\* A call of dds_delete_impl: how says on whose behalf, cursor and pass are the
\* locals of delete_children, up whether the parent is to be deleted next.
DeleteCall(e, how) ==
  [pc |-> "pin", e |-> e, how |-> how, pass |-> 1, cursor |-> 0, up |-> FALSE, new |-> None]

\* An operation on e with e pinned and locked; new is the entity it creates in e.
UseCall(e, c) ==
  [pc |-> "lock", e |-> e, how |-> "user", pass |-> 1, cursor |-> 0, up |-> FALSE, new |-> c]

Is(t, pc) == stack[t] # <<>> /\ Head(stack[t]).pc = pc
Me(t)     == Head(stack[t])

Goto(t, pc)  == [stack EXCEPT ![t] = <<[Head(@) EXCEPT !.pc = pc]>> \o Tail(@)]
Return(t)    == [stack EXCEPT ![t] = Tail(@)]

\* A broadcast: those that wait at "from", for entity e if it is the condition
\* variable of an entity, continue at "to".
Woken(st, Waits(_), to) ==
  [t \in Threads |-> IF st[t] # <<>> /\ Waits(Head(st[t]))
                     THEN <<[Head(st[t]) EXCEPT !.pc = to]>> \o Tail(st[t]) ELSE st[t]]

\* handles.cond, when only the thread that deletes the entity has it pinned.
HandleBroadcast(st, h) ==
  IF h.closing /\ h.pins = 1
  THEN Woken(st, LAMBDA f : f.pc = "closeWaiting", "closeWait") ELSE st

\* m_cond of entity e
EntityBroadcast(st, e) == Woken(st, LAMBDA f : f.pc = "childWaiting" /\ f.e = e, "nextChild")

Unlocked(e) == mutex[e] = Nobody
-----------------------------------------------------------------------------
(* dds_handles.c: what an operation makes of a handle *)

PinFails(h) == ~h.in \/ h.closing \/ h.pending

\* dds_handle_pin_for_delete.  Nobody calls it for a child deleting its parent.
PinForDelete(e, h) ==
  LET pinned  == [h EXCEPT !.pins = @ + 1, !.closing = TRUE]
      dropped == [pinned EXCEPT !.refs = @ - 1]
  IN  CASE PinFails(h) -> [rc |-> "bad", h |-> h]
        [] ~PinFails(h) /\ h.deferred /\ h.refs > 0 -> [rc |-> "already", h |-> h]
        [] ~PinFails(h) /\ h.deferred /\ h.refs = 0 -> [rc |-> "ok", h |-> pinned]
        [] ~PinFails(h) /\ ~h.deferred /\ e \in implicit -> [rc |-> "ok", h |-> pinned]
        [] ~PinFails(h) /\ ~h.deferred /\ e \notin implicit ->
             IF h.refs = 1 \/ e \notin Topics THEN [rc |-> "ok", h |-> dropped]
             ELSE [rc |-> "again", h |-> [h EXCEPT !.refs = @ - 1, !.deferred = TRUE]]

\* Fault: an implicit parent is left to itself.
DropChildrefOnly(e, h, mayDelete) == [up |-> FALSE, h |-> [h EXCEPT !.refs = @ - 1]]

\* dds_handle_drop_childref_and_pin
DropChildref(e, h, mayDelete) ==
  LET up == ~h.closing /\ ~h.pending /\ e \in implicit /\ h.refs = 1 /\ mayDelete
  IN  [up |-> up, h |-> [h EXCEPT !.refs = @ - 1, !.pins = IF up THEN @ + 1 ELSE @]]
-----------------------------------------------------------------------------
(* dds_delete_impl *)

DeleteBegin(t, e) ==
  /\ stack[t] = <<>> /\ ops > 0 /\ e \in deletable /\ life[e] # "none"
  /\ stack' = [stack EXCEPT ![t] = <<DeleteCall(e, "user")>>]
  /\ ops' = ops - 1 /\ deletable' = deletable \ {e}
  /\ UNCHANGED <<entityVars, implicit>>

DeletePin(t) ==
  /\ Is(t, "pin")
  /\ LET e == Me(t).e
         x == PinForDelete(e, hdl[e])
     IN  /\ hdl' = [hdl EXCEPT ![e] = x.h]
         /\ stack' = IF x.rc = "ok" THEN Goto(t, "interrupt") ELSE Return(t)
  /\ UNCHANGED <<life, children, mutex, envVars>>

\* Locks the mutex for dds_entity_deriver_interrupt and unlocks it.
Interrupt(t) ==
  /\ Is(t, "interrupt") /\ Unlocked(Me(t).e)
  /\ stack' = Goto(t, "closeWait")
  /\ UNCHANGED <<entityVars, envVars>>

\* Fault: no wait for the pins of others.
MayCloseAtOnce(h) == TRUE

\* The test of dds_handle_close_wait.
MayClose(h) == h.pins = 1

CloseWait(t) ==
  /\ Is(t, "closeWait")
  /\ stack' = Goto(t, IF MayClose(hdl[Me(t).e]) THEN "close" ELSE "closeWaiting")
  /\ UNCHANGED <<entityVars, envVars>>

\* dds_entity_deriver_close: a topic leaves the tables of its participant, a reader
\* waits for the collector to be done with its DDSI reader, which it will be.
Close(t) ==
  /\ Is(t, "close")
  /\ Me(t).e \in Topics => Unlocked(Root)
  /\ stack' = Goto(t, "nextChild")
  /\ UNCHANGED <<entityVars, envVars>>

\* get_next_child: topics only in the second pass.
Candidates(f) ==
  {c \in children[f.e] : Iid(c) > f.cursor /\ (f.pass = 1 => c \notin Topics)}

\* delete_children, down to the call for the next child.
NextChild(t) ==
  /\ Is(t, "nextChild") /\ Unlocked(Me(t).e)
  /\ LET f == Me(t)
         C == Candidates(f)
         c == CHOOSE x \in C : \A y \in C : Iid(x) <= Iid(y)
         rest == Tail(stack[t])
     IN  stack' = [stack EXCEPT ![t] =
           IF C # {} THEN <<DeleteCall(c, "parent"),
                            [f EXCEPT !.pc = "childReturned", !.cursor = Iid(c)]>> \o rest
           ELSE IF f.pass = 1 THEN <<[f EXCEPT !.pass = 2, !.cursor = 0]>> \o rest
           ELSE <<[f EXCEPT !.pc = "handleDelete"]>> \o rest]
  /\ UNCHANGED <<entityVars, envVars>>

\* Fault: a child that another thread deletes is not waited for.
NoWaitForChild(f) == FALSE

\* "The dds_delete can fail if the child is being deleted in parallel, in which
\* case: wait until it is has gone."
MustWaitForChild(f) == \E c \in children[f.e] : Iid(c) = f.cursor

ChildReturned(t) ==
  /\ Is(t, "childReturned") /\ Unlocked(Me(t).e)
  /\ stack' = Goto(t, IF MustWaitForChild(Me(t)) THEN "childWaiting" ELSE "nextChild")
  /\ UNCHANGED <<entityVars, envVars>>

\* dds_handle_delete
HandleDelete(t) ==
  /\ Is(t, "handleDelete")
  /\ hdl' = [hdl EXCEPT ![Me(t).e].in = FALSE]
  /\ stack' = Goto(t, IF Me(t).e = Root THEN "dropTopic" ELSE "leaveParent")
  /\ UNCHANGED <<life, children, mutex, envVars>>

\* Removal from the parent; if it is to be deleted too, its mutex is kept until
\* its handle is closed.
LeaveParent(t) ==
  /\ Is(t, "leaveParent")
  /\ LET e == Me(t).e
         p == Parent(e)
         x == DropChildref(p, hdl[p], Me(t).how # "parent")
     IN  /\ Unlocked(p)
         /\ children' = [children EXCEPT ![p] = @ \ {e}]
         /\ hdl' = [hdl EXCEPT ![p] = x.h]
         /\ IF x.up THEN /\ mutex' = [mutex EXCEPT ![p] = t]
                         /\ stack' = Goto(t, "closeParent")
            ELSE /\ stack' = EntityBroadcast(Goto(t, "dropTopic"), p)
                 /\ UNCHANGED mutex
  /\ UNCHANGED <<life, envVars>>

\* dds_handle_close on the parent
CloseParent(t) ==
  /\ Is(t, "closeParent")
  /\ LET p == Parent(Me(t).e)
         st == [stack EXCEPT ![t] = <<[Head(@) EXCEPT !.pc = "dropTopic", !.up = TRUE]>> \o Tail(@)]
     IN  /\ hdl' = [hdl EXCEPT ![p].closing = TRUE]
         /\ mutex' = [mutex EXCEPT ![p] = Nobody]
         /\ stack' = EntityBroadcast(st, p)
  /\ UNCHANGED <<life, children, envVars>>

\* dds_reader_delete: dds_entity_drop_ref on the topic.
DropTopic(t) ==
  /\ Is(t, "dropTopic")
  /\ LET tp == TopicOf(Me(t).e)
         h  == [hdl[tp] EXCEPT !.refs = @ - 1]
     IN  IF tp = None THEN stack' = Goto(t, "free") /\ UNCHANGED hdl
         ELSE /\ hdl' = [hdl EXCEPT ![tp] = h]
              /\ stack' = HandleBroadcast(Goto(t, IF h.refs = 0 THEN "deleteTopic" ELSE "free"), h)
  /\ UNCHANGED <<life, children, mutex, envVars>>

\* The last reference is gone: the topic is deleted by its handle.
DeleteTopic(t) ==
  /\ Is(t, "deleteTopic")
  /\ stack' = [stack EXCEPT ![t] = <<DeleteCall(TopicOf(Head(@).e), "explicit"),
                                     [Head(@) EXCEPT !.pc = "free"]>> \o Tail(@)]
  /\ UNCHANGED <<entityVars, envVars>>

\* dds_free, then dds_delete_impl_pinned on the parent.
Free(t) ==
  /\ Is(t, "free")
  /\ life' = [life EXCEPT ![Me(t).e] = "freed"]
  /\ stack' = IF Me(t).up
              THEN [stack EXCEPT ![t] =
                      <<[DeleteCall(Parent(Head(@).e), "implicit") EXCEPT !.pc = "interrupt"]>> \o Tail(@)]
              ELSE Return(t)
  /\ UNCHANGED <<hdl, children, mutex, envVars>>
-----------------------------------------------------------------------------
(* Operations on an entity: dds_entity_lock ... dds_entity_unlock, in between *)
(* dds_create_subscriber or dds_create_reader on it.                          *)

UseBegin(t, e) ==
  /\ stack[t] = <<>> /\ ops > 0 /\ e \notin Topics
  /\ ops' = ops - 1
  /\ IF PinFails(hdl[e]) THEN UNCHANGED <<stack, hdl>>
     ELSE /\ hdl' = [hdl EXCEPT ![e].pins = @ + 1]
          /\ \E c \in {x \in Entities : Parent(x) = e /\ life[x] = "none"} \cup {None} :
               stack' = [stack EXCEPT ![t] = <<UseCall(e, c)>>]
  /\ UNCHANGED <<life, children, mutex, implicit, deletable>>

\* At most one thread at a time creates a given entity: the others give up.
UseLock(t) ==
  /\ Is(t, "lock") /\ Unlocked(Me(t).e)
  /\ mutex' = [mutex EXCEPT ![Me(t).e] = t]
  /\ stack' = Goto(t, IF Me(t).new = None \/ life[Me(t).new] # "none" THEN "unlock"
                      ELSE IF TopicOf(Me(t).new) = None THEN "new" ELSE "pinTopic")
  /\ UNCHANGED <<hdl, life, children, envVars>>

PinTopic(t) ==
  /\ Is(t, "pinTopic")
  /\ LET tp == TopicOf(Me(t).new)
     IN  IF PinFails(hdl[tp]) THEN stack' = Goto(t, "unlock") /\ UNCHANGED hdl
         ELSE stack' = Goto(t, "deferQos") /\ hdl' = [hdl EXCEPT ![tp].pins = @ + 1]
  /\ UNCHANGED <<life, children, mutex, envVars>>

\* dds_topic_defer_set_qos locks and unlocks the participant; the QoS may then
\* turn out to be invalid, and nothing is created.
DeferSetQos(t) ==
  /\ Is(t, "deferQos") /\ Unlocked(Root)
  /\ \E pc \in {"new", "allowQos"} : stack' = Goto(t, pc)
  /\ UNCHANGED <<entityVars, envVars>>

\* dds_entity_init and, for a reader, its reference to the topic.
NewEntity(t) ==
  /\ Is(t, "new")
  /\ LET c  == Me(t).new
         tp == TopicOf(c)
     IN  /\ life' = [life EXCEPT ![c] = "alive"]
         /\ hdl' = [e \in Entities |-> CASE e = c -> NewHandle(c)
                                         [] e = tp -> [hdl[tp] EXCEPT !.refs = @ + 1]
                                         [] OTHER -> hdl[e]]
  /\ stack' = Goto(t, "register")
  /\ UNCHANGED <<children, mutex, envVars>>

\* Fault: the child is not counted.
RegisterChildUncounted(t) ==
  /\ Is(t, "register")
  /\ LET c == Me(t).new
         e == Me(t).e
     IN  /\ children' = [children EXCEPT ![e] = @ \cup {c}]
         /\ hdl' = [hdl EXCEPT ![c].pending = FALSE, ![c].pins = @ - 1]
         /\ stack' = Goto(t, IF TopicOf(c) = None THEN "unlock" ELSE "allowQos")
  /\ UNCHANGED <<life, mutex, envVars>>

\* dds_entity_init_complete and dds_entity_register_child: one step, as nobody
\* else knows the handle of the child before the parent is unlocked.
RegisterChild(t) ==
  /\ Is(t, "register")
  /\ LET c == Me(t).new
         e == Me(t).e
     IN  /\ children' = [children EXCEPT ![e] = @ \cup {c}]
         /\ hdl' = [hdl EXCEPT ![e].refs = @ + 1, ![c].pending = FALSE, ![c].pins = @ - 1]
         /\ stack' = Goto(t, IF TopicOf(c) = None THEN "unlock" ELSE "allowQos")
  /\ UNCHANGED <<life, mutex, envVars>>

\* defer_set_qos: the calls between dds_topic_defer_set_qos and this.
Deferring == {t \in Threads : \E pc \in {"new", "register", "allowQos"} :
                                Is(t, pc) /\ TopicOf(Me(t).new) # None}

\* dds_topic_allow_set_qos
AllowSetQos(t) ==
  /\ Is(t, "allowQos") /\ Unlocked(Root)
  /\ LET st == Goto(t, "unpinTopic")
     IN  stack' = IF Deferring = {t} THEN EntityBroadcast(st, Root) ELSE st
  /\ UNCHANGED <<entityVars, envVars>>

\* Fault: the thread that waits for the pins to go is not woken.
UnpinSilently(e, st) == hdl' = [hdl EXCEPT ![e].pins = @ - 1] /\ stack' = st

\* dds_handle_unpin
Unpin(e, st) ==
  LET h == [hdl[e] EXCEPT !.pins = @ - 1]
  IN  hdl' = [hdl EXCEPT ![e] = h] /\ stack' = HandleBroadcast(st, h)

UnpinTopic(t) ==
  /\ Is(t, "unpinTopic")
  /\ Unpin(TopicOf(Me(t).new), Goto(t, "unlock"))
  /\ UNCHANGED <<life, children, mutex, envVars>>

Unlock(t) ==
  /\ Is(t, "unlock")
  /\ mutex' = [mutex EXCEPT ![Me(t).e] = Nobody]
  /\ stack' = Goto(t, "unpin")
  /\ UNCHANGED <<hdl, life, children, envVars>>

UseEnd(t) ==
  /\ Is(t, "unpin")
  /\ Unpin(Me(t).e, Return(t))
  /\ UNCHANGED <<life, children, mutex, envVars>>
-----------------------------------------------------------------------------
Continue(t) ==
  \/ DeletePin(t) \/ Interrupt(t) \/ CloseWait(t) \/ Close(t) \/ NextChild(t)
  \/ ChildReturned(t) \/ HandleDelete(t) \/ LeaveParent(t) \/ CloseParent(t)
  \/ DropTopic(t) \/ DeleteTopic(t) \/ Free(t)
  \/ UseLock(t) \/ PinTopic(t) \/ DeferSetQos(t) \/ NewEntity(t) \/ RegisterChild(t)
  \/ AllowSetQos(t) \/ UnpinTopic(t) \/ Unlock(t) \/ UseEnd(t)

Next == \E t \in Threads : \/ Continue(t)
                           \/ \E e \in Entities : DeleteBegin(t, e) \/ UseBegin(t, e)

\* A thread in a call goes on with it unless it has to wait.
Spec == Init /\ [][Next]_vars /\ \A t \in Threads : WF_vars(Continue(t))
-----------------------------------------------------------------------------
(* Correctness *)

\* The calls, as threads and depths: the oldest call of a thread has depth 1.
Frames == UNION {{t} \X (1 .. Len(stack[t])) : t \in Threads}
Frame(x) == stack[x[1]][Len(stack[x[1]]) + 1 - x[2]]
UsePcs == {"lock", "pinTopic", "deferQos", "new", "register", "allowQos", "unpinTopic",
           "unlock", "unpin"}
Deleting(e) == {x \in Frames : Frame(x).e = e /\ Frame(x).pc \notin UsePcs \cup {"pin"}}

\* The entities whose memory a call is about to use: its own, the parent it leaves,
\* the topic it refers to.  Before it has pinned its entity it has only a handle.
Touches(f) ==
  ({f.e} \ (IF f.pc = "pin" THEN {f.e} ELSE {}))
  \cup (IF f.pc \in {"leaveParent", "closeParent"} THEN {Parent(f.e)} ELSE {})
  \cup (IF f.pc = "close" /\ f.e \in Topics THEN {Root} ELSE {})
  \cup (IF f.pc \in {"dropTopic", "deleteTopic"} THEN {TopicOf(f.e)} \ {None} ELSE {})
  \cup (IF f.pc \in {"deferQos", "allowQos"} THEN {Root, TopicOf(f.new)} ELSE {})
  \cup (IF f.pc = "unpinTopic" THEN {TopicOf(f.new)} ELSE {})

\* No call uses the memory of an entity that has been freed.
NoUseAfterFree == \A x \in Frames : \A e \in Touches(Frame(x)) : life[e] # "freed"

\* Only one thread deletes an entity ("Only one can succeed"); and the assertions
\* of dds_handle_delete: by the time the handle goes nobody else has
\* the entity pinned, nothing refers to it and it has no children.
DeletedOnce ==
  /\ \A e \in Entities : Cardinality(Deleting(e)) <= 1
  /\ \A x \in Frames : Frame(x).pc = "handleDelete" =>
       LET e == Frame(x).e
       IN  hdl[e].closing /\ hdl[e].pins = 1 /\ hdl[e].refs = 0 /\ children[e] = {}

\* A reader that still has its reference to topic e.
Refers(r, e) == /\ TopicOf(r) = e /\ life[r] = "alive"
                /\ \A x \in Frames : Frame(x).e = r => Frame(x).pc \notin {"deleteTopic", "free"}

\* The calls that have e pinned.
Pinners(e) ==
  {x \in Frames : Frame(x).e = e /\ Frame(x).pc # "pin"}
  \cup {x \in Frames : /\ Frame(x).new # None
                       /\ \/ e = TopicOf(Frame(x).new) /\ Frame(x).pc \in {"deferQos", "new", "register", "allowQos", "unpinTopic"}
                          \/ e = Frame(x).new /\ Frame(x).pc = "register"}
  \cup {x \in Frames : Parent(Frame(x).e) = e /\ (Frame(x).up \/ Frame(x).pc = "closeParent")}

\* The counts of a handle are exact until it is deleted: a reference for each child,
\* or for each reader of a topic, and one for the handle itself until it is deleted;
\* a pin for each call that works with the entity.
CountsExact ==
  \A e \in Entities : hdl[e].in =>
    /\ hdl[e].refs = (IF e \in implicit \/ hdl[e].closing \/ hdl[e].deferred THEN 0 ELSE 1)
                     + Cardinality(children[e]) + Cardinality({r \in Entities : Refers(r, e)})
    /\ hdl[e].pins = Cardinality(Pinners(e))

\* Every call returns: no thread waits for ever for a pin, a child or a mutex.
CallsReturn == \A t \in Threads : (stack[t] # <<>>) ~> (stack[t] = <<>>)

\* When all calls have returned, no entity outlives its parent, no implicit one
\* stays behind without children and no deleted topic without readers.
NoOrphans ==
  (\A t \in Threads : stack[t] = <<>>) =>
    \A e \in Entities : life[e] = "alive" =>
      /\ e # Root => life[Parent(e)] = "alive"
      /\ e \in implicit => children[e] # {}
      /\ hdl[e].deferred => \E r \in Entities : Refers(r, e)
      /\ ~hdl[e].closing
=============================================================================
