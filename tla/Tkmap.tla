------------------------------- MODULE Tkmap -------------------------------
(***************************************************************************)
(* The map from keys to instance ids of a domain (ddsi_tkmap.c): a         *)
(* concurrent hash table that is searched without a lock, instances with a *)
(* reference count that doubles as a "being deleted" mark, finders that    *)
(* wait for a deletion to be completed, and memory that is handed to the   *)
(* garbage collector.                                                      *)
(*                                                                         *)
(* A step is one access to shared memory: an operation on the hash table,  *)
(* one atomic operation on a count, or taking m_lock. Of the collector     *)
(* only its promise is used (Reclaim, which Gc implements): memory is      *)
(* freed once every thread that was awake at gcreq_new has been asleep.    *)
(***************************************************************************)
EXTENDS Integers, FiniteSets

CONSTANTS
  Threads,
  Caches,     \* slots of writer and reader caches that keep a reference
  Keys,
  Instances,  \* the tkmap instances (and instance ids) of one behaviour: a bound
  None

Owners == Threads \cup Caches

ASSUME TkmapConstants ==
  /\ IsFiniteSet(Threads) /\ IsFiniteSet(Caches)
  /\ Threads \cap Caches = {}
  /\ Instances \subseteq Nat
  /\ None \notin Instances /\ None \notin Owners /\ None \notin Keys

VARIABLES
  life,      \* life[i]: "unused", "private" to its creator, "linked" in m_hh,
             \* "removed" from it, "retired" to the collector, "freed"
  key,       \* key[i]: the key of m_sample
  refc, del, \* refc[i], del[i]: m_refc, without and only the bit REFC_DELETE
  blockers,  \* blockers[i]: the threads the collector waits for before it frees i
  awake,     \* the threads that are awake
  pc,        \* pc[t]: where t is in a function of ddsi_tkmap.c
  arg, create, \* arg[t], create[t]: the key looked for; whether to create it
  sd,        \* sd[t]: the instance whose m_sample is that key (ddsi_tkmap_find_by_id)
  tk,        \* tk[t]: the local variable tk
  old,       \* old[t]: the count loaded before a compare-and-swap
  rel,       \* rel[t]: the owner whose reference t is dropping
  hold,      \* hold[o]: the instance owner o has a reference to
  lock       \* the thread that holds m_lock

memVars == <<life, key, refc, del, blockers>>
callVars == <<arg, create, sd, tk, old, rel>>
vars == <<memVars, awake, pc, callVars, hold, lock>>

Init ==
  /\ life = [i \in Instances |-> "unused"]
  /\ key = [i \in Instances |-> None]
  /\ refc = [i \in Instances |-> 0]
  /\ del = [i \in Instances |-> FALSE]
  /\ blockers = [i \in Instances |-> {}]
  /\ awake = {}
  /\ pc = [t \in Threads |-> "idle"]
  /\ arg = [t \in Threads |-> None]
  /\ create = [t \in Threads |-> FALSE]
  /\ sd = [t \in Threads |-> None]
  /\ tk = [t \in Threads |-> None]
  /\ old = [t \in Threads |-> 0]
  /\ rel = [t \in Threads |-> None]
  /\ hold = [o \in Owners |-> None]
  /\ lock = None

-----------------------------------------------------------------------------
(* Definitions that no other one uses are mutated forms of the definition that
   follows them. *)

\* ddsrt_chh_lookup: the element with this key that is in the hash table.
InTable(k) == {i \in Instances : life[i] = "linked" /\ key[i] = k}

Goto(t, l) == pc' = [pc EXCEPT ![t] = l]

\* Return from ddsi_tkmap_find or ddsi_tkmap_lookup.
Return(t) ==
  /\ Goto(t, "idle")
  /\ arg' = [arg EXCEPT ![t] = None]
  /\ create' = [create EXCEPT ![t] = FALSE]
  /\ sd' = [sd EXCEPT ![t] = None]
  /\ tk' = [tk EXCEPT ![t] = None]

\* thread_state_awake, by the callers of ddsi_tkmap.c.
Awake(t) ==
  /\ t \notin awake
  /\ awake' = awake \cup {t}
  /\ UNCHANGED <<memVars, pc, callVars, hold, lock>>

\* thread_state_asleep: the collector no longer waits for t.
Asleep(t) ==
  /\ t \in awake /\ pc[t] = "idle"
  /\ awake' = awake \ {t}
  /\ blockers' = [i \in Instances |-> blockers[i] \ {t}]
  /\ UNCHANGED <<life, key, refc, del, pc, callVars, hold, lock>>

Calls(t) == t \in awake /\ pc[t] = "idle"
-----------------------------------------------------------------------------
(* ddsi_tkmap_lookup: the instance id of a key, without a reference *)

LookupBegin(t, k) ==
  /\ Calls(t)
  /\ \E i \in InTable(k) : tk' = [tk EXCEPT ![t] = i]
  /\ Goto(t, "readIid")
  /\ UNCHANGED <<memVars, awake, arg, create, sd, old, rel, hold, lock>>

LookupReadIid(t) ==
  /\ pc[t] = "readIid"
  /\ Return(t)
  /\ UNCHANGED <<memVars, awake, old, rel, hold, lock>>
-----------------------------------------------------------------------------
(* ddsi_tkmap_find *)

\* Bound: a call that may create an instance begins only if one is left for it.
RoomToCreate == Cardinality({i \in Instances : life[i] = "unused"})
                  > Cardinality({u \in Threads : create[u] /\ pc[u] # "add"})

FindBegin(t, k, c) ==
  /\ Calls(t) /\ hold[t] = None /\ (c => RoomToCreate)
  /\ arg' = [arg EXCEPT ![t] = k]
  /\ create' = [create EXCEPT ![t] = c]
  /\ Goto(t, "lookup")
  /\ UNCHANGED <<memVars, awake, sd, tk, old, rel, hold, lock>>

FindLookup(t) ==
  /\ pc[t] = "lookup"
  /\ IF InTable(arg[t]) # {}
     THEN /\ \E i \in InTable(arg[t]) : tk' = [tk EXCEPT ![t] = i]
          /\ Goto(t, "inc")
          /\ UNCHANGED <<arg, create, sd>>
     ELSE IF create[t]
          THEN Goto(t, "alloc") /\ UNCHANGED <<arg, create, sd, tk>>
          ELSE Return(t)
  /\ UNCHANGED <<memVars, awake, old, rel, hold, lock>>

FindIncNoCheck(t) ==
  /\ pc[t] = "inc"
  /\ refc' = [refc EXCEPT ![tk[t]] = @ + 1]
  /\ Return(t) /\ hold' = [hold EXCEPT ![t] = tk[t]]
  /\ UNCHANGED <<life, key, del, blockers, awake, old, rel, lock>>

\* Count first, then see whether that was too late.
FindInc(t) ==
  /\ pc[t] = "inc"
  /\ refc' = [refc EXCEPT ![tk[t]] = @ + 1]
  /\ IF del[tk[t]]
     THEN Goto(t, "dec") /\ UNCHANGED <<hold, arg, create, sd, tk>>
     ELSE Return(t) /\ hold' = [hold EXCEPT ![t] = tk[t]]
  /\ UNCHANGED <<life, key, del, blockers, awake, old, rel, lock>>

FindDecWaitAtOnce(t) ==
  /\ pc[t] = "dec"
  /\ refc' = [refc EXCEPT ![tk[t]] = @ - 1]
  /\ tk' = [tk EXCEPT ![t] = None]
  /\ Goto(t, "wait")
  /\ UNCHANGED <<life, key, del, blockers, awake, arg, create, sd, old, rel, hold, lock>>

FindDec(t) ==
  /\ pc[t] = "dec"
  /\ refc' = [refc EXCEPT ![tk[t]] = @ - 1]
  /\ tk' = [tk EXCEPT ![t] = None]
  /\ Goto(t, "lock")
  /\ UNCHANGED <<life, key, del, blockers, awake, arg, create, sd, old, rel, hold, lock>>

\* Take m_lock, for the first time or when ddsrt_cond_wait returns.
FindLock(t) ==
  /\ pc[t] \in {"lock", "relock"} /\ lock = None
  /\ lock' = t
  /\ Goto(t, "waitLookup")
  /\ UNCHANGED <<memVars, awake, callVars, hold>>

\* The condition of the while loop: look the key up ...
FindWaitLookup(t) ==
  /\ pc[t] = "waitLookup"
  /\ IF InTable(arg[t]) # {}
     THEN /\ \E i \in InTable(arg[t]) : tk' = [tk EXCEPT ![t] = i]
          /\ Goto(t, "waitTest") /\ UNCHANGED lock
     ELSE Goto(t, "lookup") /\ lock' = None /\ UNCHANGED tk
  /\ UNCHANGED <<memVars, awake, arg, create, sd, old, rel, hold>>

\* ... and see whether it is still being deleted; ddsrt_cond_wait releases the lock.
FindWaitTest(t) ==
  /\ pc[t] = "waitTest"
  /\ Goto(t, IF del[tk[t]] THEN "wait" ELSE "lookup")
  /\ tk' = [tk EXCEPT ![t] = None]
  /\ lock' = None
  /\ UNCHANGED <<memVars, awake, arg, create, sd, old, rel, hold>>

\* Ids come from a generator, in sequence.
FindAlloc(t) ==
  /\ pc[t] = "alloc"
  /\ \E i \in Instances :
       /\ life[i] = "unused" /\ \A j \in Instances : life[j] = "unused" => i <= j
       /\ life' = [life EXCEPT ![i] = "private"]
       /\ key' = [key EXCEPT ![i] = arg[t]]
       /\ refc' = [refc EXCEPT ![i] = 1]
       /\ tk' = [tk EXCEPT ![t] = i]
  /\ Goto(t, "add")
  /\ UNCHANGED <<del, blockers, awake, arg, create, sd, old, rel, hold, lock>>

\* ddsrt_chh_add fails when the key is in the table: lost a race, free the new
\* instance, whose id nobody has seen, and retry.
FindAdd(t) ==
  /\ pc[t] = "add"
  /\ IF InTable(arg[t]) = {}
     THEN /\ life' = [life EXCEPT ![tk[t]] = "linked"]
          /\ hold' = [hold EXCEPT ![t] = tk[t]]
          /\ Return(t)
     ELSE /\ life' = [life EXCEPT ![tk[t]] = "unused"]
          /\ tk' = [tk EXCEPT ![t] = None]
          /\ Goto(t, "lookup") /\ UNCHANGED <<hold, arg, create, sd>>
  /\ UNCHANGED <<key, refc, del, blockers, awake, old, rel, lock>>
-----------------------------------------------------------------------------
(* ddsi_tkmap_find_by_id *)

\* The scan of the table. When the id is not in it there is nothing to do.
FindByIdScan(t, i) ==
  /\ Calls(t) /\ hold[t] = None /\ life[i] = "linked"
  /\ tk' = [tk EXCEPT ![t] = i]
  /\ Goto(t, "idLoad")
  /\ UNCHANGED <<memVars, awake, arg, create, sd, old, rel, hold, lock>>

\* Continue as ddsi_tkmap_find with the key in the instance that was found.
FindInstead(t) ==
  /\ sd' = [sd EXCEPT ![t] = tk[t]]
  /\ arg' = [arg EXCEPT ![t] = key[tk[t]]]
  /\ tk' = [tk EXCEPT ![t] = None]
  /\ Goto(t, "lookup")

FindByIdLoad(t) ==
  /\ pc[t] = "idLoad"
  /\ IF del[tk[t]]
     THEN FindInstead(t) /\ UNCHANGED old
     ELSE /\ old' = [old EXCEPT ![t] = refc[tk[t]]]
          /\ Goto(t, "idCas") /\ UNCHANGED <<sd, arg, tk>>
  /\ UNCHANGED <<memVars, awake, create, rel, hold, lock>>

FindByIdCas(t) ==
  /\ pc[t] = "idCas"
  /\ old' = [old EXCEPT ![t] = 0]
  /\ IF refc[tk[t]] = old[t] /\ ~del[tk[t]]
     THEN /\ refc' = [refc EXCEPT ![tk[t]] = @ + 1]
          /\ hold' = [hold EXCEPT ![t] = tk[t]]
          /\ Return(t)
     ELSE FindInstead(t) /\ UNCHANGED <<refc, hold, create>>
  /\ UNCHANGED <<life, key, del, blockers, awake, rel, lock>>
-----------------------------------------------------------------------------
(* ddsi_tkmap_instance_ref, and what the callers do with a reference *)

\* A cache that stores a sample of the instance takes a reference of its own.
InstanceRef(t, c) ==
  /\ Calls(t) /\ hold[t] # None /\ hold[c] = None
  /\ refc' = [refc EXCEPT ![hold[t]] = @ + 1]
  /\ hold' = [hold EXCEPT ![c] = hold[t]]
  /\ UNCHANGED <<life, key, del, blockers, awake, pc, callVars, lock>>

\* ddsi_tkmap_instance_unref of the thread's own reference, or of the one of a
\* cache, whose lock makes it one thread that drops it.
UnrefBegin(t, o) ==
  /\ Calls(t) /\ o \in Caches \cup {t} /\ hold[o] # None
  /\ \A u \in Threads : rel[u] # o
  /\ rel' = [rel EXCEPT ![t] = o]
  /\ tk' = [tk EXCEPT ![t] = hold[o]]
  /\ Goto(t, "unrefLoad")
  /\ UNCHANGED <<memVars, awake, arg, create, sd, old, hold, lock>>

UnrefLoad(t) ==
  /\ pc[t] = "unrefLoad"
  /\ old' = [old EXCEPT ![t] = refc[tk[t]]]
  /\ Goto(t, "unrefCas")
  /\ UNCHANGED <<memVars, awake, arg, create, sd, tk, rel, hold, lock>>

UnrefCasStaleOld(t) ==
  /\ pc[t] = "unrefCas"
  /\ old' = [old EXCEPT ![t] = 0]
  /\ refc' = [refc EXCEPT ![tk[t]] = old[t] - 1]
  /\ del' = [del EXCEPT ![tk[t]] = old[t] = 1]
  /\ hold' = [hold EXCEPT ![rel[t]] = None]
  /\ rel' = [rel EXCEPT ![t] = None]
  /\ IF old[t] = 1 THEN Goto(t, "remove") /\ UNCHANGED tk
     ELSE Goto(t, "idle") /\ tk' = [tk EXCEPT ![t] = None]
  /\ UNCHANGED <<life, key, blockers, awake, arg, create, sd, lock>>

\* The reference is gone with the compare-and-swap; that of the last one also
\* marks the instance.
UnrefCas(t) ==
  /\ pc[t] = "unrefCas"
  /\ old' = [old EXCEPT ![t] = 0]
  /\ IF refc[tk[t]] = old[t] /\ ~del[tk[t]]
     THEN /\ refc' = [refc EXCEPT ![tk[t]] = @ - 1]
          /\ del' = [del EXCEPT ![tk[t]] = old[t] = 1]
          /\ hold' = [hold EXCEPT ![rel[t]] = None]
          /\ rel' = [rel EXCEPT ![t] = None]
          /\ IF old[t] = 1 THEN Goto(t, "remove") /\ UNCHANGED tk
             ELSE Goto(t, "idle") /\ tk' = [tk EXCEPT ![t] = None]
     ELSE Goto(t, "unrefLoad") /\ UNCHANGED <<refc, del, hold, rel, tk>>
  /\ UNCHANGED <<life, key, blockers, awake, arg, create, sd, lock>>

UnrefRemove(t) ==
  /\ pc[t] = "remove"
  /\ life' = [life EXCEPT ![tk[t]] = "removed"]
  /\ Goto(t, "broadcast")
  /\ UNCHANGED <<key, refc, del, blockers, awake, callVars, hold, lock>>

UnrefBroadcast(t) ==
  /\ pc[t] = "broadcast" /\ lock = None
  /\ pc' = [u \in Threads |-> CASE u = t -> "gc"
                              [] pc[u] = "wait" -> "relock"
                              [] OTHER -> pc[u]]
  /\ UNCHANGED <<memVars, awake, callVars, hold, lock>>

FreeAtOnce(t) ==
  /\ pc[t] = "gc"
  /\ life' = [life EXCEPT ![tk[t]] = "freed"]
  /\ tk' = [tk EXCEPT ![t] = None]
  /\ Goto(t, "idle")
  /\ UNCHANGED <<key, refc, del, blockers, awake, arg, create, sd, old, rel, hold, lock>>

\* gcreq_new: everybody who is awake may have a pointer, the caller included.
GcTkmapInstance(t) ==
  /\ pc[t] = "gc"
  /\ life' = [life EXCEPT ![tk[t]] = "retired"]
  /\ blockers' = [blockers EXCEPT ![tk[t]] = awake]
  /\ tk' = [tk EXCEPT ![t] = None]
  /\ Goto(t, "idle")
  /\ UNCHANGED <<key, refc, del, awake, arg, create, sd, old, rel, hold, lock>>

\* gc_tkmap_instance_impl, on the gc thread.
GcTkmapInstanceImpl(i) ==
  /\ life[i] = "retired" /\ blockers[i] = {}
  /\ life' = [life EXCEPT ![i] = "freed"]
  /\ UNCHANGED <<key, refc, del, blockers, awake, pc, callVars, hold, lock>>
-----------------------------------------------------------------------------
\* The steps of a call that has begun.
Continue(t) ==
  \/ LookupReadIid(t)
  \/ FindLookup(t)
  \/ FindInc(t)
  \/ FindDec(t)
  \/ FindLock(t)
  \/ FindWaitLookup(t)
  \/ FindWaitTest(t)
  \/ FindAlloc(t)
  \/ FindAdd(t)
  \/ FindByIdLoad(t)
  \/ FindByIdCas(t)
  \/ UnrefLoad(t)
  \/ UnrefCas(t)
  \/ UnrefRemove(t)
  \/ UnrefBroadcast(t)
  \/ GcTkmapInstance(t)

Begin(t) ==
  \/ Awake(t)
  \/ Asleep(t)
  \/ \E k \in Keys : LookupBegin(t, k)
  \/ \E k \in Keys, c \in BOOLEAN : FindBegin(t, k, c)
  \/ \E i \in Instances : FindByIdScan(t, i)
  \/ \E c \in Caches : InstanceRef(t, c)
  \/ \E o \in Owners : UnrefBegin(t, o)

Next == \/ \E t \in Threads : Continue(t) \/ Begin(t)
        \/ \E i \in Instances : GcTkmapInstanceImpl(i)

Spec == Init /\ [][Next]_vars

\* A thread in a call keeps running, unless it waits.
FairSpec == Spec /\ \A t \in Threads : WF_vars(Continue(t))
-----------------------------------------------------------------------------
(* Correctness *)

Pcs == {"idle", "readIid", "lookup", "inc", "dec", "lock", "relock", "waitLookup",
        "waitTest", "wait", "alloc", "add", "idLoad", "idCas", "unrefLoad", "unrefCas",
        "remove", "broadcast", "gc"}

\* Type invariant of the map's memory, its calls and its lock.
TypeOK ==
  /\ life \in [Instances -> {"unused", "private", "linked", "removed", "retired", "freed"}]
  /\ key \in [Instances -> Keys \cup {None}]
  /\ refc \in [Instances -> Int]
  /\ del \in [Instances -> BOOLEAN]
  /\ blockers \in [Instances -> SUBSET Threads]
  /\ awake \subseteq Threads
  /\ pc \in [Threads -> Pcs]
  /\ arg \in [Threads -> Keys \cup {None}]
  /\ create \in [Threads -> BOOLEAN]
  /\ sd \in [Threads -> Instances \cup {None}]
  /\ tk \in [Threads -> Instances \cup {None}]
  /\ old \in [Threads -> Int]
  /\ rel \in [Threads -> Owners \cup {None}]
  /\ hold \in [Owners -> Instances \cup {None}]
  /\ lock \in Threads \cup {None}

\* Nobody reads freed memory: neither a thread through a pointer it found in the
\* table and has no reference for (the count it is about to change, the key it
\* passes on), nor the owner of a counted reference.
NoUseAfterFree ==
  /\ \A t \in Threads : \A i \in {tk[t], sd[t]} \ {None} : life[i] # "freed"
  /\ \A o \in Owners : hold[o] # None => life[hold[o]] # "freed"

\* The count of an instance in the table is the number of its owners plus the
\* finders that came too late and have not yet taken back their increment; the
\* deletion mark is set exactly when it has no owner left. The owner of a
\* reference therefore always finds its instance in the table, unmarked.
Holders(i) == {o \in Owners : hold[o] = i}
LateFinders(i) == {t \in Threads : pc[t] = "dec" /\ tk[t] = i}

RefcExact ==
  \A i \in Instances : life[i] \notin {"unused", "private"} =>
     /\ refc[i] = Cardinality(Holders(i)) + Cardinality(LateFinders(i))
     /\ del[i] <=> Holders(i) = {}
     /\ Holders(i) # {} => life[i] = "linked"

\* The map implements KeyMap: an instance counts as bound to its key from the
\* moment it is in the table until its count drops to the deletion mark, however
\* late it is taken out of the table and freed.
Bound(k) == LET live == {i \in InTable(k) : ~del[i]}
            IN  IF live = {} THEN None ELSE CHOOSE i \in live : TRUE

KM == INSTANCE KeyMap WITH
        bound <- [k \in Keys |-> Bound(k)],
        ref <- hold,
        used <- {i \in Instances : life[i] \in {"linked", "removed", "retired", "freed"}}

ImplementsKeyMap == KM!Spec

\* Every look-up returns: a thread that waits for a deletion to be completed does
\* not miss the broadcast.
FindReturns == \A t \in Threads : pc[t] = "lookup" ~> pc[t] = "idle"
=============================================================================
