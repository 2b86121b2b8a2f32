----------------------------- MODULE ProxyLease -----------------------------
(***************************************************************************)
(* Liveliness of a remote participant and its writers: the leases and      *)
(* their heap (q_lease.c), the proxy participant that is watched through a *)
(* clone of the shortest of its leases (ddsi_proxy_participant.c), and the *)
(* proxy writers that become alive, lose liveliness, come and go           *)
(* (ddsi_proxy_endpoint.c).                                                *)
(*                                                                         *)
(* The receive thread renews leases without a lock; the discovery thread   *)
(* creates and deletes proxies; the gc thread handles expiry and frees     *)
(* memory, under the promise of Reclaim. A step is one atomic operation or *)
(* one critical section, except that what only a lock's owner can see is   *)
(* done with the step that takes the lock.                                 *)
(*                                                                         *)
(* Times are relative to now, which makes a step of the clock a            *)
(* subtraction. Memory that has been freed keeps its contents.             *)
(***************************************************************************)
EXTENDS Integers, Sequences, FiniteSets, FiniteSetsExt

CONSTANTS
  PP,        \* the proxy participant; also its own lease, proxypp->lease
  Writers,   \* proxy writers; each is also its own lease, pwr->lease
  PPDur,     \* lease duration of the participant
  QoS,       \* liveliness of a writer: kind "auto", "man" (by participant) or "topic",
             \* and lease duration dur
  Clones,    \* leases made for minl_auto and minl_man: a bound
  Late,      \* bound: a message is handled within this time
  MaxRetired,\* bound: nothing new begins while more leases than this await the collector
  None

Threads == {"recv", "disc", "gc"}
Leases == {PP} \cup Writers \cup Clones

ASSUME ProxyLeaseConstants ==
  /\ PPDur \in Nat \ {0}
  /\ QoS \subseteq [kind : {"auto", "man", "topic"}, dur : Nat]
  /\ Late \in Nat /\ MaxRetired \in Nat
  /\ None \notin Leases \cup Threads /\ PP \notin Writers /\ Clones # {}
  /\ Clones \cap (Writers \cup {PP}) = {}

VARIABLES
  qos,         \* qos[w]: does not change
  index,       \* participant and writers in the entity index
  alive,       \* alive[w]: pwr->alive
  minl,        \* minl_auto, minl_man
  pheap, top,  \* leaseheap_auto, leaseheap_man (by duration); the minimum of each
  endpoints, ppref, deleting,  \* references to the participant; its deleting flag
  tend, tsched, ent, \* of a lease that may get on the heap: when it ends, its place
               \* on the heap, its entity (which gives its duration)
  heap,        \* the leases in gv->leaseheap
  life,        \* life[l]: "none", "live", "freed"
  gcq, blk,    \* objects handed to the collector; the threads it waits for
  awake,       \* the threads that are awake
  pc, wr, lp, new, kids, ret, \* locals of a thread: see the actions
  tm, rq, data,\* of the receive thread: when the message came, what it has still to
               \* renew, and whether it is data
  wlock, plock,\* owner of pwr->e.lock, of proxypp->e.lock
  silent       \* the remote participant sends nothing any more

leaseVars == <<tend, tsched, ent, heap, life>>
ppVars == <<qos, index, minl, pheap, top, endpoints, ppref, deleting>>
gcVars == <<gcq, blk>>
localVars == <<wr, lp, new, kids, ret>>
msgVars == <<tm, rq, data>>
lockVars == <<wlock, plock>>
vars == <<ppVars, alive, leaseVars, gcVars, awake, pc, localVars, msgVars, lockVars, silent>>

Dur(e) == IF e = PP THEN PPDur ELSE qos[e].dur
HeapOf(w) == IF qos[w].kind = "man" THEN "man" ELSE "auto"
Watched(w) == qos[w].kind # "topic"   \* by way of the participant

\* What ddsrt_fibheap_min can return for a heap of the leases S, which compares
\* durations only: which one of several that are equally short depends on the shape
\* that earlier insertions and deletions have given the heap.
MinLeases(S) == IF S = {} THEN {None} ELSE {l \in S : \A m \in S : Dur(l) <= Dur(m)}

\* The participant has been discovered, none of its writers has: a clone of its
\* lease is on the heap.
Init ==
  /\ qos \in [Writers -> QoS]
  /\ index = {PP}
  /\ alive = [w \in Writers |-> FALSE]
  /\ pheap = [h \in {"auto", "man"} |-> IF h = "auto" THEN {PP} ELSE {}]
  /\ top = [h \in {"auto", "man"} |-> IF h = "auto" THEN PP ELSE None]
  /\ LET c == CHOOSE c \in Clones : TRUE
     IN /\ minl = [h \in {"auto", "man"} |-> IF h = "auto" THEN c ELSE None]
        /\ heap = {c}
        /\ ent = [l \in Leases |-> IF l \notin Clones THEN l ELSE IF l = c THEN PP ELSE None]
        /\ life = [l \in Leases |-> IF l \in {PP, c} THEN "live" ELSE "none"]
  /\ tend = [l \in Leases |-> IF l \in heap THEN Dur(PP) ELSE 0]
  /\ tsched = tend
  /\ endpoints = {} /\ ppref = TRUE /\ deleting = FALSE
  /\ gcq = {} /\ blk = [l \in Leases |-> {}]
  /\ awake = {}
  /\ pc = [t \in Threads |-> "idle"]
  /\ wr = [t \in Threads |-> None] /\ lp = [t \in Threads |-> None]
  /\ new = [t \in Threads |-> None] /\ kids = [t \in Threads |-> {}]
  /\ ret = [t \in Threads |-> "done"]
  /\ tm = 0 /\ rq = <<>> /\ data = FALSE
  /\ wlock = [w \in Writers |-> None] /\ plock = None
  /\ silent = FALSE
-----------------------------------------------------------------------------
(* Definitions that no other one uses are mutated forms of the definition that
   follows them. *)

Goto(t, l) == pc' = [pc EXCEPT ![t] = l]

\* thread_state_asleep at the end of what the thread was doing.
Done(t) ==
  /\ Goto(t, "idle")
  /\ awake' = awake \ {t}
  /\ blk' = [l \in Leases |-> blk[l] \ {t}]
  /\ wr' = [wr EXCEPT ![t] = None] /\ lp' = [lp EXCEPT ![t] = None]
  /\ new' = [new EXCEPT ![t] = None] /\ ret' = [ret EXCEPT ![t] = "done"]

\* The thread goes on at l, with the locks it holds released if unlock is TRUE.
Continue(t, l, unlock) ==
  /\ IF l = "done" THEN Done(t) ELSE Goto(t, l) /\ UNCHANGED <<awake, blk, wr, lp, new, ret>>
  /\ IF unlock
     THEN /\ wlock' = [w \in Writers |-> IF wlock[w] = t THEN None ELSE wlock[w]]
          /\ plock' = IF plock = t THEN None ELSE plock
     ELSE UNCHANGED lockVars

\* Time passes: a step for everybody. A message is handled within Late.
Tick ==
  /\ pc["recv"] \in {"load", "renew"} => tm > -Late
  /\ tend' = [l \in Leases |-> IF l \in heap /\ tend[l] > -Late THEN tend[l] - 1 ELSE tend[l]]
  /\ tsched' = [l \in Leases |-> IF l \in heap /\ tsched[l] > 0 THEN tsched[l] - 1 ELSE tsched[l]]
  /\ tm' = IF pc["recv"] \in {"load", "renew"} THEN tm - 1 ELSE tm
  /\ UNCHANGED <<ppVars, alive, ent, heap, life, gcVars, awake, pc, localVars, rq, data,
                 lockVars, silent>>

RemoteFallsSilent ==
  /\ ~silent
  /\ silent' = TRUE
  /\ UNCHANGED <<ppVars, alive, leaseVars, gcVars, awake, pc, localVars, msgVars, lockVars>>
-----------------------------------------------------------------------------
(* The lease heap of the domain. *)

\* lease_new and, if reg, lease_register: c becomes a lease of e that ends in d.
NewLease(c, e, d, reg) ==
  /\ life' = [life EXCEPT ![c] = "live"]
  /\ ent' = [ent EXCEPT ![c] = e]
  /\ tend' = [tend EXCEPT ![c] = d]
  /\ IF reg THEN heap' = heap \cup {c} /\ tsched' = [tsched EXCEPT ![c] = d]
            ELSE UNCHANGED <<heap, tsched>>

\* lease_unregister.
Unregister(l) ==
  /\ heap' = heap \ {l}
  /\ tsched' = [tsched EXCEPT ![l] = 0]
  /\ tend' = [tend EXCEPT ![l] = 0]

\* lease_renew by a message that came at tm: the loop around the compare and
\* swap is one step, in which the lease is neither shortened nor brought back
\* once it had expired when the message came.
Renewed(l) ==
  IF l \notin heap \/ tm + Dur(ent[l]) <= tend[l] \/ tm >= tend[l] THEN tend ELSE [tend EXCEPT ![l] = tm + Dur(ent[l])]

\* The clones that can be used for a new lease.
FreeClones == {c \in Clones : life[c] # "live" /\ \A t \in Threads : lp[t] # c}
Room == Cardinality(gcq \cap Clones) <= MaxRetired
-----------------------------------------------------------------------------
(* The leases of the participant, with its lock held. minl is a clone of the  *)
(* shortest one. The thread goes on at next when that is so again.            *)

\* proxy_participant_replace_minl is to put c in the place of minl[h].
StartReplace(t, h, c, next) ==
  /\ Goto(t, "retire") /\ ret' = [ret EXCEPT ![t] = next]
  /\ lp' = [lp EXCEPT ![t] = minl[h]] /\ new' = [new EXCEPT ![t] = c]
  /\ plock' = t
  /\ UNCHANGED <<minl, wr, awake, blk, wlock>>

\* The heap becomes S with minimum min; if that is another lease than before,
\* whatever their durations, its clone ends in d.
ChangeLeases(t, h, S, min, d, next) ==
  LET prev == top[h]
      c == CHOOSE c \in FreeClones : TRUE
  IN /\ pheap' = [pheap EXCEPT ![h] = S]
     /\ top' = [top EXCEPT ![h] = min]
     /\ \/ /\ prev = min
           /\ Continue(t, next, TRUE)
           /\ UNCHANGED <<minl, leaseVars>>
        \/ /\ prev # min /\ min = None
           /\ StartReplace(t, h, None, next)
           /\ UNCHANGED leaseVars
        \/ /\ prev = None /\ min # None /\ FreeClones # {}
           /\ NewLease(c, min, d, TRUE)
           /\ minl' = [minl EXCEPT ![h] = c]
           /\ Continue(t, next, TRUE)
        \/ /\ prev # min /\ None \notin {prev, min} /\ FreeClones # {}
           /\ NewLease(c, min, d, FALSE)
           /\ StartReplace(t, h, c, next)

AddLeaseKeepMin(t, w, next) ==
  /\ pheap' = [pheap EXCEPT ![HeapOf(w)] = @ \cup {w}]
  /\ Continue(t, next, TRUE)
  /\ UNCHANGED <<top, minl, leaseVars>>

\* ddsi_proxy_participant_add_pwr_lease_locked: only a strictly shorter lease
\* becomes the minimum.
AddLease(t, w, next) ==
  LET h == HeapOf(w)
      min == IF top[h] = None THEN w ELSE IF Dur(w) < Dur(top[h]) THEN w ELSE top[h]
  IN ChangeLeases(t, h, pheap[h] \cup {w}, min, Dur(min), next)

\* ddsi_proxy_participant_remove_pwr_lease_locked: what is left of the next
\* lease if the one that was the minimum has just expired. The minimum can move to
\* an equally short lease, whose clone then ends at once, even if it was another
\* lease that has been removed.
RemoveLease(t, w, next) ==
  LET h == HeapOf(w)
  IN \E min \in MinLeases(pheap[h] \ {w}) :
       ChangeLeases(t, h, pheap[h] \ {w}, min, IF min = None THEN 0 ELSE Dur(min) - Dur(top[h]), next)

\* proxy_participant_replace_minl, up to and including gcreq_enqueue: the
\* request waits for the threads that are awake now.
Retire(t) ==
  /\ pc[t] = "retire"
  /\ Unregister(lp[t])
  /\ gcq' = gcq \cup {lp[t]}
  /\ blk' = [blk EXCEPT ![lp[t]] = awake]
  /\ Goto(t, "replace")
  /\ UNCHANGED <<ppVars, alive, ent, life, awake, localVars, msgVars, lockVars, silent>>

ReplaceUnregistered(t) ==
  /\ pc[t] = "replace"
  /\ minl' = [h \in DOMAIN minl |-> IF minl[h] = lp[t] THEN new[t] ELSE minl[h]]
  /\ Continue(t, ret[t], TRUE)
  /\ UNCHANGED <<qos, index, pheap, top, endpoints, ppref, deleting, alive, leaseVars, gcq, kids, msgVars,
                 silent>>

\* The rest of it, and lease_register of the new lease.
Replace(t) ==
  /\ pc[t] = "replace"
  /\ minl' = [h \in DOMAIN minl |-> IF minl[h] = lp[t] THEN new[t] ELSE minl[h]]
  /\ IF new[t] = None THEN UNCHANGED <<heap, tsched>>
     ELSE heap' = heap \cup {new[t]} /\ tsched' = [tsched EXCEPT ![new[t]] = tend[new[t]]]
  /\ Continue(t, ret[t], TRUE)
  /\ UNCHANGED <<qos, index, pheap, top, endpoints, ppref, deleting, alive, tend, ent, life, gcq, kids,
                 msgVars, silent>>
-----------------------------------------------------------------------------
(* The receive thread. *)

\* What a message makes it renew: data and a heartbeat from any writer
\* minl_auto; data of the application minl_man; data the lease of a writer that
\* asserts liveliness by itself; a heartbeat with the liveliness flag minl_man
\* and the lease of a writer that is not automatic, with the writer locked. (The
\* own lease of a MANUAL_BY_PARTICIPANT writer is renewed too: only its duration
\* is ever looked at.)
Renewals(w, m) ==
  LET own == IF qos[w].kind = "topic" THEN <<"own">> ELSE <<>>
  IN CASE m = "data" -> <<"auto", "man">> \o own
       [] m = "heartbeat" -> <<"auto", "lock">>
       [] m = "liveliness" -> IF qos[w].kind = "auto" THEN <<"auto", "lock">>
                              ELSE <<"auto", "lock", "man">> \o own

\* handle_regular or handle_Heartbeat, up to the look-up of the writer.
Receive(w, m) ==
  /\ pc["recv"] = "idle" /\ ~silent
  /\ w \in index
  /\ awake' = awake \cup {"recv"}
  /\ wr' = [wr EXCEPT !["recv"] = w]
  /\ tm' = 0 /\ rq' = Renewals(w, m) /\ data' = (m = "data")
  /\ Goto("recv", "load")
  /\ UNCHANGED <<ppVars, alive, leaseVars, gcVars, lp, new, kids, ret, lockVars, silent>>

\* The pointer is loaded; if it is null there is nothing to renew.
Load ==
  /\ pc["recv"] = "load" /\ rq # <<>> /\ Head(rq) # "lock"
  /\ LET l == IF Head(rq) = "own" THEN wr["recv"] ELSE minl[Head(rq)]
     IN /\ lp' = [lp EXCEPT !["recv"] = l]
        /\ IF l = None THEN rq' = Tail(rq) /\ UNCHANGED pc ELSE Goto("recv", "renew") /\ UNCHANGED rq
  /\ UNCHANGED <<ppVars, alive, leaseVars, gcVars, awake, wr, new, kids, ret, tm, data, lockVars,
                 silent>>

\* ddsrt_mutex_lock (&pwr->e.lock) of handle_Heartbeat.
LockHeartbeat ==
  /\ pc["recv"] = "load" /\ rq # <<>> /\ Head(rq) = "lock"
  /\ wlock[wr["recv"]] = None
  /\ wlock' = [wlock EXCEPT ![wr["recv"]] = "recv"]
  /\ rq' = Tail(rq)
  /\ UNCHANGED <<ppVars, alive, leaseVars, gcVars, awake, pc, localVars, tm, data, plock, silent>>

Renew ==
  /\ pc["recv"] = "renew"
  /\ tend' = Renewed(lp["recv"])
  /\ rq' = Tail(rq)
  /\ lp' = [lp EXCEPT !["recv"] = None]
  /\ Goto("recv", "load")
  /\ UNCHANGED <<ppVars, alive, tsched, ent, heap, life, gcVars, awake, wr, new, kids, ret, tm,
                 data, lockVars, silent>>

\* The end of a heartbeat; or data, which brings a writer back to life.
EndRenewals ==
  /\ pc["recv"] = "load" /\ rq = <<>>
  /\ LET w == wr["recv"]
     IN \/ ~data /\ Continue("recv", "done", TRUE)
        \/ data /\ wlock[w] = None /\ alive[w] /\ Continue("recv", "done", FALSE)
        \/ /\ data /\ wlock[w] = None /\ ~alive[w]
           /\ Goto("recv", "exists") /\ wlock' = [wlock EXCEPT ![w] = "recv"]
           /\ UNCHANGED <<awake, blk, wr, lp, new, ret, plock>>
  /\ tm' = 0 /\ data' = FALSE
  /\ UNCHANGED <<ppVars, alive, leaseVars, gcq, kids, rq, silent>>

\* ddsi_proxy_writer_set_alive_may_unlock: the writer is still in the index.
SetAliveLookup ==
  /\ pc["recv"] = "exists"
  /\ Continue("recv", IF wr["recv"] \in index THEN "alive" ELSE "done", wr["recv"] \notin index)
  /\ UNCHANGED <<ppVars, alive, leaseVars, gcq, kids, msgVars, silent>>

\* Its rest, with the lock of the participant; for MANUAL_BY_TOPIC with
\* lease_set_expiry.
SetAlive ==
  LET w == wr["recv"]
  IN /\ pc["recv"] = "alive" /\ plock = None
     /\ alive' = [alive EXCEPT ![w] = TRUE]
     /\ IF Watched(w) THEN AddLease("recv", w, "done")
        ELSE /\ tend' = [tend EXCEPT ![w] = Dur(w)]
             /\ heap' = heap \cup {w}
             /\ tsched' = [tsched EXCEPT ![w] = IF w \in heap THEN Min({@, Dur(w)}) ELSE Dur(w)]
             /\ Continue("recv", "done", TRUE)
             /\ UNCHANGED <<ent, life, minl, pheap, top>>
     /\ UNCHANGED <<qos, index, endpoints, ppref, deleting, gcq, kids, msgVars, silent>>
-----------------------------------------------------------------------------
(* Loss of liveliness, by the gc thread when a lease expires and by whoever    *)
(* deletes the writer. It is followed by next, "dGc" for a deletion.           *)

\* ddsi_proxy_writer_set_notalive: a writer that is not alive is left alone.
LockNotAlive(t) ==
  LET w == wr[t]
  IN /\ pc[t] = "naLock" /\ wlock[w] = None
     /\ \/ ~alive[w] /\ Continue(t, ret[t], FALSE)
        \/ /\ alive[w] /\ Goto(t, "naSet") /\ wlock' = [wlock EXCEPT ![w] = t]
           /\ UNCHANGED <<awake, blk, wr, lp, new, ret, plock>>
     /\ UNCHANGED <<ppVars, alive, leaseVars, gcq, kids, msgVars, silent>>

SetNotAliveKeepLease(t) ==
  /\ pc[t] = "naSet" /\ plock = None
  /\ alive' = [alive EXCEPT ![wr[t]] = FALSE]
  /\ Continue(t, ret[t], TRUE)
  /\ UNCHANGED <<ppVars, leaseVars, gcq, kids, msgVars, silent>>

SetNotAlive(t) ==
  LET w == wr[t]
  IN /\ pc[t] = "naSet" /\ plock = None
     /\ alive' = [alive EXCEPT ![w] = FALSE]
     /\ IF Watched(w) THEN RemoveLease(t, w, ret[t])
        ELSE Continue(t, ret[t], TRUE) /\ UNCHANGED <<minl, pheap, top, leaseVars>>
     /\ UNCHANGED <<qos, index, endpoints, ppref, deleting, gcq, kids, msgVars, silent>>
-----------------------------------------------------------------------------
(* Discovery: SEDP announces and withdraws writers, SPDP the participant.      *)

\* ddsi_new_proxy_writer: the participant is known.
NewPwr(w) ==
  /\ pc["disc"] = "idle" /\ ~silent /\ Room
  /\ life[w] = "none" /\ PP \in index
  /\ awake' = awake \cup {"disc"}
  /\ wr' = [wr EXCEPT !["disc"] = w]
  /\ Goto("disc", "nRef")
  /\ UNCHANGED <<ppVars, alive, leaseVars, gcVars, lp, new, kids, ret, msgVars, lockVars, silent>>

\* ddsi_ref_proxy_participant, which refuses if it is being deleted.
NewPwrRef ==
  LET w == wr["disc"]
  IN /\ pc["disc"] = "nRef" /\ plock = None
     /\ \/ deleting /\ Continue("disc", "done", FALSE) /\ UNCHANGED <<endpoints, alive, life>>
        \/ /\ ~deleting /\ Continue("disc", "nLease", FALSE)
           /\ endpoints' = endpoints \cup {w}
           /\ alive' = [alive EXCEPT ![w] = TRUE]
           /\ life' = [life EXCEPT ![w] = "live"]
     /\ UNCHANGED <<qos, index, minl, pheap, top, ppref, deleting, tend, tsched, ent, heap, gcq, kids,
                    msgVars, silent>>

\* Its lease, watched by way of the participant or by itself.
NewPwrLease ==
  LET w == wr["disc"]
  IN /\ pc["disc"] = "nLease"
     /\ \/ Watched(w) /\ plock = None /\ AddLease("disc", w, "nInsert")
        \/ /\ ~Watched(w)
           /\ NewLease(w, w, Dur(w), TRUE)
           /\ Continue("disc", "nInsert", FALSE)
           /\ UNCHANGED <<minl, pheap, top>>
     /\ UNCHANGED <<qos, index, endpoints, ppref, deleting, alive, gcq, kids, msgVars, silent>>

\* entidx_insert_proxy_writer_guid, with the writer locked.
NewPwrInsert ==
  LET w == wr["disc"]
  IN /\ pc["disc"] = "nInsert" /\ wlock[w] = None
     /\ index' = index \cup {w}
     /\ Continue("disc", "done", FALSE)
     /\ UNCHANGED <<qos, minl, pheap, top, endpoints, ppref, deleting, alive, leaseVars, gcq, kids, msgVars,
                    silent>>

\* ddsi_delete_proxy_writer for SEDP.
DeletePwr(w) ==
  /\ pc["disc"] = "idle" /\ ~silent /\ Room /\ w \in index
  /\ awake' = awake \cup {"disc"}
  /\ wr' = [wr EXCEPT !["disc"] = w]
  /\ Goto("disc", "dIndex")
  /\ UNCHANGED <<ppVars, alive, leaseVars, gcVars, lp, new, kids, ret, msgVars, lockVars, silent>>

\* Its look-up and removal from the index, under gv->lock.
DeletePwrIndex(t) ==
  LET w == wr[t]
  IN /\ pc[t] = "dIndex"
     /\ index' = index \ {w}
     /\ \/ w \notin index /\ Continue(t, "next", FALSE)
        \/ /\ w \in index /\ Goto(t, IF Watched(w) THEN "naLock" ELSE "dUnreg")
           /\ ret' = [ret EXCEPT ![t] = "dGc"]
           /\ UNCHANGED <<awake, blk, wr, lp, new, lockVars>>
     /\ UNCHANGED <<qos, minl, pheap, top, endpoints, ppref, deleting, alive, leaseVars, gcq, kids, msgVars,
                    silent>>

\* lease_unregister of a MANUAL_BY_TOPIC writer: without its lock.
DeletePwrUnregister(t) ==
  /\ pc[t] = "dUnreg"
  /\ Unregister(wr[t])
  /\ Continue(t, "naLock", FALSE)
  /\ UNCHANGED <<ppVars, alive, ent, life, gcq, kids, msgVars, silent>>

\* gcreq_proxy_writer.
DeletePwrGc(t) ==
  /\ pc[t] = "dGc"
  /\ gcq' = gcq \cup {wr[t]}
  /\ blk' = [blk EXCEPT ![wr[t]] = awake]
  /\ Goto(t, "next")
  /\ UNCHANGED <<ppVars, alive, leaseVars, awake, localVars, msgVars, lockVars, silent>>

\* ddsi_delete_proxy_participant_by_guid for SPDP.
DeletePp ==
  /\ pc["disc"] = "idle" /\ ~silent /\ Room /\ PP \in index
  /\ awake' = awake \cup {"disc"}
  /\ Goto("disc", "pIndex")
  /\ UNCHANGED <<ppVars, alive, leaseVars, gcVars, localVars, msgVars, lockVars, silent>>

\* Its look-up and removal from the index, under gv->lock.
DeletePpIndex(t) ==
  /\ pc[t] = "pIndex"
  /\ index' = index \ {PP}
  /\ Continue(t, IF PP \in index THEN "pSnap" ELSE "next", FALSE)
  /\ UNCHANGED <<qos, minl, pheap, top, endpoints, ppref, deleting, alive, leaseVars, gcq, kids, msgVars,
                 silent>>

\* delete_ppt up to the snapshot of the endpoints; the participant comes last.
DeletePpSnapshot(t) ==
  /\ pc[t] = "pSnap" /\ plock = None
  /\ deleting' = TRUE
  /\ kids' = [kids EXCEPT ![t] = endpoints \cup {PP}]
  /\ Continue(t, "next", FALSE)
  /\ UNCHANGED <<qos, index, minl, pheap, top, endpoints, ppref, alive, leaseVars, gcq, msgVars, silent>>

\* The next endpoint of the snapshot, gcreq_proxy_participant, or the end.
DeleteNext(t) ==
  /\ pc[t] = "next"
  /\ \/ /\ kids[t] = {} /\ Continue(t, "done", FALSE) /\ UNCHANGED <<kids, gcq>>
     \/ /\ kids[t] = {PP}
        /\ kids' = [kids EXCEPT ![t] = {}]
        /\ gcq' = gcq \cup {PP} /\ blk' = [blk EXCEPT ![PP] = awake]
        /\ UNCHANGED <<pc, awake, wr, lp, new, ret, lockVars>>
     \/ \E w \in kids[t] \ {PP} :
          /\ kids' = [kids EXCEPT ![t] = @ \ {w}]
          /\ wr' = [wr EXCEPT ![t] = w]
          /\ Goto(t, "dIndex")
          /\ UNCHANGED <<gcq, blk, awake, lp, new, ret, lockVars>>
  /\ UNCHANGED <<ppVars, alive, leaseVars, msgVars, silent>>
-----------------------------------------------------------------------------
(* The gc thread: expiry and reclamation. *)

ExpireDropRenewed ==
  /\ pc["gc"] = "idle" /\ Room
  /\ \E l \in heap :
       /\ tsched[l] <= 0
       /\ Unregister(l)
       /\ \/ /\ tend[l] > 0
             /\ UNCHANGED <<pc, awake, lp>>
          \/ /\ tend[l] <= 0
             /\ awake' = awake \cup {"gc"} /\ lp' = [lp EXCEPT !["gc"] = l]
             /\ Goto("gc", "act")
  /\ UNCHANGED <<ppVars, alive, ent, life, gcVars, wr, new, kids, ret, msgVars, lockVars,
                 silent>>

\* check_and_handle_lease_expiration: a lease whose time on the heap has come
\* is put back if it has been renewed, or is taken off to be acted upon.
Expire ==
  /\ pc["gc"] = "idle" /\ Room
  /\ \E l \in heap :
       /\ tsched[l] <= 0 /\ \A m \in heap : tsched[l] <= tsched[m]
       /\ \/ /\ tend[l] > 0
             /\ tsched' = [tsched EXCEPT ![l] = tend[l]]
             /\ UNCHANGED <<heap, tend, pc, awake, lp>>
          \/ /\ tend[l] <= 0
             /\ Unregister(l)
             /\ awake' = awake \cup {"gc"} /\ lp' = [lp EXCEPT !["gc"] = l]
             /\ Goto("gc", "act")
  /\ UNCHANGED <<ppVars, alive, ent, life, gcVars, wr, new, kids, ret, msgVars, lockVars,
                 silent>>

\* With the heap unlocked, what the kind of the entity asks for. The loop over
\* the heap continues with the next Expire.
ExpireAct ==
  LET e == ent[lp["gc"]]
  IN /\ pc["gc"] = "act"
     /\ Goto("gc", IF e = PP THEN "pIndex" ELSE "naLock")
     /\ wr' = [wr EXCEPT !["gc"] = e]
     /\ lp' = [lp EXCEPT !["gc"] = None]
     /\ UNCHANGED <<ppVars, alive, leaseVars, gcVars, awake, new, kids, ret, msgVars, lockVars,
                    silent>>

\* ddsi_gc_participant_lease; gc_delete_proxy_writer, phases 2 and 3 included;
\* gc_delete_proxy_participant. The last reference takes the participant along:
\* free_proxy_participant.
GcFree(x) ==
  /\ pc["gc"] = "idle"
  /\ x \in gcq /\ blk[x] = {}
  /\ gcq' = gcq \ {x}
  /\ endpoints' = endpoints \ {x}
  /\ ppref' = (ppref /\ x # PP)
  /\ LET pp == x \notin Clones /\ endpoints' = {} /\ ~ppref'
     IN /\ life' = [l \in Leases |-> IF (l = x /\ x # PP) \/ (pp /\ l \in {PP, minl["auto"]})
                                     THEN "freed" ELSE life[l]]
        /\ ent' = IF x \in Clones THEN [ent EXCEPT ![x] = None] ELSE ent
        /\ pheap' = IF pp THEN [pheap EXCEPT !["auto"] = @ \ {PP}] ELSE pheap
        /\ top' \in IF pp THEN {[top EXCEPT !["auto"] = m] : m \in MinLeases(pheap'["auto"])} ELSE {top}
        /\ IF pp THEN Unregister(minl["auto"]) ELSE UNCHANGED <<heap, tsched, tend>>
  /\ UNCHANGED <<qos, index, minl, deleting, alive, blk, awake, pc, localVars, msgVars, lockVars,
                 silent>>
-----------------------------------------------------------------------------
RecvStep == Load \/ LockHeartbeat \/ Renew \/ EndRenewals \/ SetAliveLookup \/ SetAlive
NewPwrStep == NewPwrRef \/ NewPwrLease \/ NewPwrInsert
DeleteStep(t) ==
  \/ DeletePwrIndex(t) \/ DeletePwrUnregister(t) \/ DeletePwrGc(t)
  \/ DeletePpIndex(t) \/ DeletePpSnapshot(t) \/ DeleteNext(t)
NotAliveStep(t) == LockNotAlive(t) \/ SetNotAlive(t)
ReplaceStep(t) == Retire(t) \/ Replace(t)

GcStep ==
  \/ Expire \/ ExpireAct \/ \E x \in Leases : GcFree(x)
  \/ NotAliveStep("gc") \/ DeleteStep("gc") \/ ReplaceStep("gc")
RecvThread == RecvStep \/ ReplaceStep("recv")
DiscThread == NewPwrStep \/ DeleteStep("disc") \/ NotAliveStep("disc") \/ ReplaceStep("disc")

Next ==
  \/ Tick \/ RemoteFallsSilent
  \/ \E w \in Writers : NewPwr(w) \/ DeletePwr(w)
                        \/ \E m \in {"data", "heartbeat", "liveliness"} : Receive(w, m)
  \/ DeletePp
  \/ RecvThread \/ DiscThread \/ GcStep

Spec == Init /\ [][Next]_vars

\* The clock runs, and a thread that has begun something goes on with it; what
\* the remote participant sends is its own affair.
FairSpec ==
  Spec /\ WF_vars(Tick) /\ WF_vars(RecvThread) /\ WF_vars(DiscThread) /\ WF_vars(GcStep)
-----------------------------------------------------------------------------
\* What minl_auto and minl_man point to is a live clone of the minimum of their heap,
\* which no lease of that heap is shorter than, and a writer is alive exactly if its
\* lease is in that heap ("pwr->alive <=> (pwr->lease in proxypp's lease heap)"),
\* whenever the participant is not locked and not freed.
MinlIsMin ==
  plock = None /\ life[PP] = "live" =>
    /\ \A h \in {"auto", "man"} :
         IF pheap[h] = {} THEN minl[h] = None
         ELSE minl[h] # None /\ life[minl[h]] = "live" /\ ent[minl[h]] = top[h] /\ top[h] \in MinLeases(pheap[h])
    /\ \A w \in endpoints :
         Watched(w) /\ ~(pc["disc"] = "nLease" /\ wr["disc"] = w)
           => (alive[w] <=> w \in pheap[HeapOf(w)])

\* A participant that is known is never left without supervision: the clone of
\* its shortest lease is on the heap, or the gc thread is acting on its expiry.
AlwaysMonitored ==
  PP \in index /\ plock = None =>
    \/ minl["auto"] \in heap
    \/ pc["gc"] = "act" /\ lp["gc"] = minl["auto"]
    \/ pc["gc"] \in {"naLock", "naSet", "pIndex"} /\ wr["gc"] = ent[minl["auto"]]

\* The assertions of free_proxy_participant, and what it leaves behind.
FreeClean ==
  life[PP] = "freed" =>
    /\ pheap = [h \in {"auto", "man"} |-> {}]
    /\ minl["man"] = None /\ ent[minl["auto"]] = PP
    /\ heap \cap Clones = {}

\* A participant that says nothing any more is forgotten.
SilentDies == silent ~> PP \notin index

\* "By delaying freeing the lease through the garbage collector, we ensure whatever
\* lease update occurs in parallel completes before the memory is released."
RenewalsOnLiveLeases == pc["recv"] = "renew" => life[lp["recv"]] = "live"
=============================================================================
