-------------------------- MODULE ProxyLease_proofs --------------------------
(***************************************************************************)
(* Proofs about ProxyLease for any set of writers with any lease durations,*)
(* equal ones too, and any number of clones: minl_auto and minl_man are    *)
(* clones of shortest leases, a known participant is always supervised,    *)
(* and a participant that is freed leaves nothing on the heap.             *)
(***************************************************************************)
EXTENDS ProxyLease, TLAPS

Heaps == {"auto", "man"}
Entities == {PP} \cup Writers
Labels == {"idle", "load", "renew", "exists", "alive", "nRef", "nLease", "nInsert", "dIndex",
           "dUnreg", "naLock", "naSet", "dGc", "pIndex", "pSnap", "next", "act", "retire",
           "replace"}
Swapping == {"retire", "replace"}

TypeOK ==
  /\ qos \in [Writers -> QoS]
  /\ index \subseteq Entities /\ endpoints \subseteq Writers /\ gcq \subseteq Leases
  /\ alive \in [Writers -> BOOLEAN] /\ ppref \in BOOLEAN /\ deleting \in BOOLEAN
  /\ minl \in [Heaps -> Clones \cup {None}] /\ pheap \in [Heaps -> SUBSET Entities]
  /\ top \in [Heaps -> Entities \cup {None}]
  /\ ent \in [Leases -> Entities \cup {None}] /\ heap \subseteq Leases
  /\ life \in [Leases -> {"none", "live", "freed"}]
  /\ pc \in [Threads -> Labels] /\ wr \in [Threads -> Entities \cup {None}]
  /\ lp \in [Threads -> Leases \cup {None}] /\ new \in [Threads -> Clones \cup {None}]
  /\ kids \in [Threads -> SUBSET Entities] /\ ret \in [Threads -> {"done", "dGc", "nInsert"}]
  /\ rq \in Seq({"auto", "man", "own", "lock"}) /\ (pc["recv"] = "renew" => rq # <<>>)
  /\ wlock \in [Writers -> Threads \cup {None}] /\ plock \in Threads \cup {None}
  /\ tend \in [Leases -> Int] /\ tsched \in [Leases -> Int] /\ tm \in Int
  /\ data \in BOOLEAN /\ silent \in BOOLEAN
  /\ awake \subseteq Threads /\ blk \in [Leases -> SUBSET Threads]

\* What each thread can be doing, when it has a writer in hand, and where it
\* goes on when the leases of the participant are in order again.
Own == [recv |-> {"idle", "load", "renew", "exists", "alive"} \cup Swapping,
        disc |-> {"idle", "nRef", "nLease", "nInsert", "dIndex", "dUnreg", "naLock", "naSet",
                  "dGc", "pIndex", "pSnap", "next"} \cup Swapping,
        gc |-> {"idle", "act", "dIndex", "dUnreg", "naLock", "naSet", "dGc", "pIndex", "pSnap",
                "next"} \cup Swapping]

Places ==
  /\ \A t \in Threads :
       /\ pc[t] \in Own[t]
       /\ pc[t] \notin {"idle", "act", "pIndex", "pSnap", "next"} => wr[t] \in Writers
       /\ pc[t] \in {"idle", "act"} => ret[t] = "done"
  /\ ret["recv"] = "done"
  /\ pc["disc"] \in {"dUnreg", "naLock", "naSet", "dGc"} => ret["disc"] = "dGc"
  /\ pc["disc"] \in Swapping => ret["disc"] # "done"
  /\ pc["gc"] \in {"dUnreg", "dGc"} => ret["gc"] = "dGc"
  /\ ret["gc"] # "nInsert"

\* The participant's lock is held while a clone is replaced; the writer's lock by
\* who is about to change its liveliness or has just done so.
Locks ==
  /\ \A t \in Threads : plock = t <=> pc[t] \in Swapping
  /\ \A t \in Threads :
       pc[t] \in {"exists", "alive", "naSet"} \/ (pc[t] \in Swapping /\ ret[t] # "nInsert")
         => wlock[wr[t]] = t

\* The life of a writer. Creating: discovery has made it and not yet inserted it.
\* Deleting: the thread has taken it out of the index and not yet handed it to
\* the collector. Born: its lease has been where it belongs.
Creating(w) ==
  /\ wr["disc"] = w
  /\ pc["disc"] \in {"nLease", "nInsert"} \/ (pc["disc"] \in Swapping /\ ret["disc"] = "nInsert")
Deleting(t) == \/ pc[t] \in {"dUnreg", "dGc"}
               \/ pc[t] \in {"naLock", "naSet"} \cup Swapping /\ ret[t] = "dGc"
Born(w) == life[w] # "none" /\ ~(pc["disc"] = "nLease" /\ wr["disc"] = w)

Writer(w) ==
  /\ life[w] = "live" <=> w \in endpoints
  /\ w \in index => w \in endpoints \ gcq /\ ~Creating(w)
  /\ w \in gcq => w \in endpoints
  /\ alive[w] => w \in endpoints \ gcq
  /\ w \in heap => Born(w)
  /\ Creating(w) => w \in endpoints \ gcq
  /\ ent[w] = w

\* What a thread relies on for the writer it has in hand.
Reliance(t) ==
  /\ Deleting(t) => /\ wr[t] \in endpoints \ (index \cup gcq) /\ ~Creating(wr[t])
                    /\ \A u \in Threads : Deleting(u) /\ wr[u] = wr[t] => u = t
  /\ pc[t] \in {"dGc"} \cup Swapping /\ ret[t] = "dGc" => ~alive[wr[t]]
  /\ pc[t] \in {"alive", "naLock", "naSet"} => Born(wr[t])
  /\ pc[t] \in {"nLease", "naSet"} => alive[wr[t]]
  /\ pc[t] \in {"alive"} \cup Swapping =>
       wr[t] \in endpoints \ gcq /\ \A u \in Threads : pc[u] = "dGc" => wr[u] # wr[t]
  /\ pc[t] = "nRef" => life[wr[t]] = "none"

\* A writer is alive exactly if its lease is among those of the participant.
Listed(w) ==
  /\ \A h \in Heaps : w \in pheap[h] => alive[w] /\ Watched(w) /\ Born(w) /\ h = HeapOf(w)
  /\ alive[w] /\ Watched(w) /\ Born(w) => w \in pheap[HeapOf(w)]
AliveInHeap == \A w \in Writers : Listed(w)

\* The participant is deleted after it has left the index, and freed with the
\* last reference.
Participant ==
  /\ deleting => PP \notin index
  /\ \A t \in Threads : (pc[t] = "pSnap" => PP \notin index) /\ (kids[t] # {} => deleting)
  /\ PP \in gcq \/ ~ppref => deleting
  /\ life[PP] # "none" /\ ent[PP] = PP /\ PP \notin heap
  /\ life[PP] = "freed" => endpoints = {} /\ ~ppref
  /\ PP \notin pheap["man"] /\ (PP \in pheap["auto"] <=> life[PP] = "live")

\* Clones: what is on the heap or with the collector, and what a thread that
\* replaces one has in its hands.
IsMin(h, c) == IF pheap[h] = {} THEN c = None
               ELSE c \in Clones /\ life[c] = "live" /\ ent[c] = top[h]
Swaps(t, h) == pc[t] \in Swapping /\ lp[t] = minl[h]

Clone(c) ==
  /\ c \in heap => life[c] = "live" /\ c \notin gcq /\ \E h \in Heaps : c = minl[h]
  /\ c \in gcq => life[c] = "live"
  /\ c \in gcq => \A h \in Heaps : c = minl[h] => \E t \in Threads : pc[t] = "replace" /\ lp[t] = c
  /\ life[c] = "live" => ent[c] # None
  /\ ent[c] \in Writers => Born(ent[c])

Swap(t, h) ==
  /\ lp[t] = minl[h] /\ minl[h] # None
  /\ IsMin(h, new[t])
  /\ new[t] # None => new[t] \notin heap \cup gcq /\ \A g \in Heaps : new[t] # minl[g]
  /\ pc[t] = "retire" => life[lp[t]] = "live" /\ lp[t] \notin gcq
  /\ pc[t] = "replace" => lp[t] \notin heap

Shortest ==
  /\ minl["auto"] # None /\ minl["auto"] # minl["man"]
  /\ \A c \in Clones : Clone(c)
  /\ \A t \in Threads : pc[t] \in Swapping => \E h \in Heaps : Swap(t, h)
  /\ life[PP] = "live" =>
       \A h \in Heaps : (\A t \in Threads : ~Swaps(t, h)) => IsMin(h, minl[h])
  /\ pc["gc"] = "act" => /\ lp["gc"] # None /\ (lp["gc"] \in Clones => life[lp["gc"]] = "live")
                         /\ lp["gc"] \in Writers => Born(lp["gc"])
                         /\ lp["gc"] # PP

Gone == life[PP] = "freed" => minl["man"] = None /\ ent[minl["auto"]] = PP /\ life[minl["auto"]] # "live"

Supervised ==
  PP \in index /\ (\A t \in Threads : ~Swaps(t, "auto")) =>
    \/ minl["auto"] \in heap
    \/ pc["gc"] = "act" /\ lp["gc"] = minl["auto"]
    \/ pc["gc"] \in {"naLock", "naSet", "pIndex"} /\ wr["gc"] = ent[minl["auto"]]

Inv == /\ TypeOK /\ Places /\ Locks /\ (\A w \in Writers : Writer(w)) /\ (\A t \in Threads : Reliance(t))
       /\ AliveInHeap
       /\ Participant /\ Shortest /\ Gone /\ Supervised

\* What each heap gives as its minimum is one of its shortest leases.
Tops == \A h \in Heaps : top[h] \in MinLeases(pheap[h])

USE DEF ppVars, leaseVars, gcVars, localVars, msgVars, lockVars, vars

LEMMA Names ==
  /\ None \notin Clones /\ None \notin Writers /\ None # PP /\ PP \notin Writers /\ PP \notin Clones
  /\ Clones \cap Writers = {} /\ None \notin Threads /\ Clones # {}
  BY ProxyLeaseConstants DEF Leases

-----------------------------------------------------------------------------
(* What a step does to the thread that takes it *)

\* t goes to q, with these local variables.
Moves(t, q, w, l, n, r) ==
  /\ pc' \in [Threads -> Labels] /\ wr' \in [Threads -> Entities \cup {None}]
  /\ lp' \in [Threads -> Leases \cup {None}] /\ new' \in [Threads -> Clones \cup {None}]
  /\ ret' \in [Threads -> {"done", "dGc", "nInsert"}]
  /\ \A u \in Threads : u # t => /\ pc'[u] = pc[u] /\ wr'[u] = wr[u] /\ lp'[u] = lp[u]
                                 /\ new'[u] = new[u] /\ ret'[u] = ret[u]
  /\ pc'[t] = q /\ wr'[t] = w /\ lp'[t] = l /\ new'[t] = n /\ ret'[t] = r
Stays(t, q) == Moves(t, q, wr[t], lp[t], new[t], ret[t])
Leaves(t) == Moves(t, "idle", None, None, None, "done")
Awake == awake' \subseteq Threads /\ blk' \in [Leases -> SUBSET Threads]

\* Where Continue(t, q, u) takes t.
Goes(t, q) == (q = "done" /\ Leaves(t)) \/ (q # "done" /\ Stays(t, q))

\* The locks of t are released, kept, or that of w is taken.
Release(t) == /\ wlock' = [w \in Writers |-> IF wlock[w] = t THEN None ELSE wlock[w]]
              /\ plock' = IF plock = t THEN None ELSE plock
Keep == wlock' = wlock /\ plock' = plock
Take(t, w) == wlock[w] = None /\ wlock' = [wlock EXCEPT ![w] = t] /\ plock' = plock

LEMMA DoneLeaves ==
  ASSUME TypeOK, NEW t \in Threads, Done(t)
  PROVE  Leaves(t) /\ Awake
<1>1. /\ pc' = [pc EXCEPT ![t] = "idle"] /\ wr' = [wr EXCEPT ![t] = None]
      /\ lp' = [lp EXCEPT ![t] = None] /\ new' = [new EXCEPT ![t] = None]
      /\ ret' = [ret EXCEPT ![t] = "done"]
  BY DEF Done, Goto
<1>2. "idle" \in Labels
  BY DEF Labels
<1>3. Leaves(t)
  BY <1>1, <1>2 DEF TypeOK, Leaves, Moves
<1>4. Awake
  BY DEF TypeOK, Done, Awake
<1>5. QED
  BY <1>3, <1>4

LEMMA ContinueGoes ==
  ASSUME TypeOK, NEW t \in Threads, NEW q \in Labels \cup {"done"}, NEW u \in BOOLEAN,
         Continue(t, q, u)
  PROVE  /\ Goes(t, q) /\ Awake
         /\ u => Release(t)
         /\ ~u => Keep
<1>1. CASE q = "done"
  <2>1. Leaves(t) /\ Awake
    BY <1>1, DoneLeaves DEF Continue
  <2>2. QED
    BY <1>1, <2>1 DEF Goes, Continue, Release, Keep
<1>2. CASE q # "done"
  <2>1. Stays(t, q)
    BY <1>2 DEF TypeOK, Continue, Goto, Stays, Moves
  <2>2. Awake
    BY <1>2 DEF TypeOK, Continue, Awake
  <2>3. QED
    BY <1>2, <2>1, <2>2 DEF Goes, Continue, Release, Keep
<1>3. QED
  BY <1>1, <1>2

-----------------------------------------------------------------------------
(* Steps that change nothing but the local variables of a thread and locks *)

Quiet == /\ UNCHANGED <<qos, index, alive, minl, pheap, top, endpoints, ppref, deleting, ent, heap, life, gcq>>
         /\ kids' \in [Threads -> SUBSET Entities] /\ \A t \in Threads : kids'[t] \subseteq kids[t]
Aside == Labels \ ({"nLease", "nInsert"} \cup Swapping)

\* All that most of the proofs need of a minimum.
Among(m, S) == IF S = {} THEN m = None ELSE m \in S

LEMMA TopAmong == ASSUME Tops PROVE \A h \in Heaps : Among(top[h], pheap[h])
  BY DEF Tops, MinLeases, Among

LEMMA ListedKept ==
  ASSUME NEW v \in Writers, Listed(v), qos' = qos, alive'[v] = alive[v], Born(v)' <=> Born(v),
         \A h \in Heaps : v \in pheap'[h] <=> v \in pheap[h]
  PROVE  Listed(v)'
  BY DEF Listed, Watched, HeapOf, Heaps

LEMMA QuietWriters ==
  ASSUME Inv, Quiet, NEW t \in Threads, NEW q \in Aside, pc[t] \in Aside,
         NEW w, NEW l, NEW n, NEW r, Moves(t, q, w, l, n, r)
  PROVE  /\ \A v \in Writers : Born(v)' <=> Born(v)
         /\ \A v \in Writers : Creating(v)' <=> Creating(v)
         /\ \A v \in Writers : Writer(v)'
         /\ AliveInHeap'
<1> USE Names DEF Inv, Quiet, Aside, Swapping, Moves, Threads
<1>1. \A v \in Writers : Born(v)' <=> Born(v)
  BY DEF Born
<1>2. \A v \in Writers : Creating(v)' <=> Creating(v)
  BY DEF Creating
<1>3. \A v \in Writers : Writer(v)'
  BY <1>1, <1>2 DEF Writer
<1>4. AliveInHeap'
  BY <1>1, ListedKept DEF AliveInHeap
<1>5. QED
  BY <1>1, <1>2, <1>3, <1>4

\* The leases of the participant and its life are left alone, and so are the
\* clones, except that one may leave the heap.
Fewer == /\ UNCHANGED <<qos, minl, pheap, top>> /\ life'[PP] = life[PP]
         /\ \A c \in Clones : /\ c \in heap' => c \in heap
                              /\ c \in gcq' <=> c \in gcq
                              /\ life'[c] = life[c] /\ ent'[c] = ent[c]
         /\ \A v \in Writers : Born(v) => Born(v)'
Calm == Fewer /\ \A c \in Clones : c \in heap => c \in heap'

LEMMA FewerMin ==
  ASSUME Fewer PROVE \A h \in Heaps, c \in Clones \cup {None} : IsMin(h, c)' <=> IsMin(h, c)
  BY DEF IsMin, Fewer

LEMMA FewerShortest ==
  ASSUME Inv, Fewer, NEW t \in Threads, NEW q, q \notin Swapping, pc[t] \notin Swapping,
         NEW w, NEW l, NEW n, NEW r, Moves(t, q, w, l, n, r),
         q = "act" => /\ l \notin {None, PP} /\ (l \in Clones => life[l] = "live")
                      /\ l \in Writers => Born(l)
  PROVE  Shortest' /\ Gone'
<1> USE Names DEF Inv
<1>1. \A h \in Heaps, c \in Clones \cup {None} : IsMin(h, c)' <=> IsMin(h, c)
  BY FewerMin
<1>2. ASSUME NEW c \in Clones PROVE Clone(c)'
  <2>1. Clone(c) /\ c \in Leases
    BY DEF Shortest, Leases
  <2>2. \A u \in Threads : pc'[u] = "replace" /\ lp'[u] = c <=> pc[u] = "replace" /\ lp[u] = c
    BY DEF Moves, Swapping
  <2>3. QED
    BY <2>1, <2>2 DEF Clone, Fewer
<1>3. \A u \in Threads, h \in Heaps : Swaps(u, h)' <=> Swaps(u, h)
  BY DEF Swaps, Moves, Fewer
<1>4. ASSUME NEW u \in Threads, pc'[u] \in Swapping PROVE \E h \in Heaps : Swap(u, h)'
  <2>1. pc[u] \in Swapping /\ pc'[u] = pc[u] /\ lp'[u] = lp[u] /\ new'[u] = new[u]
    BY <1>4 DEF Moves
  <2>2. PICK h \in Heaps : Swap(u, h)
    BY <1>4, <2>1 DEF Shortest
  <2>3. new[u] \in Clones \cup {None} /\ lp[u] \in Clones
    BY <2>2 DEF TypeOK, Swap
  <2>4. IsMin(h, new[u])'
    BY <1>1, <2>1, <2>2, <2>3 DEF Swap, IsMin
  <2>5. QED
    BY <2>1, <2>2, <2>3, <2>4 DEF Swap, Fewer
<1>5. pc'["gc"] = "act" =>
        \E k \in Leases : /\ lp'["gc"] = k /\ k # PP /\ (k \in Clones => life[k] = "live")
                          /\ k \in Writers => Born(k)
  BY DEF Moves, Threads, Shortest, TypeOK
<1>6. Shortest'
  <2>1. pc'["gc"] = "act" =>
          /\ lp'["gc"] # None /\ (lp'["gc"] \in Clones => life'[lp'["gc"]] = "live")
          /\ lp'["gc"] \in Writers => Born(lp["gc"])'
          /\ lp'["gc"] # PP
    BY <1>5 DEF Fewer, Leases, Born
  <2>2. minl' = minl /\ life'[PP] = life[PP]
    BY DEF Fewer
  <2>3. life'[PP] = "live" => \A h \in Heaps : (\A u \in Threads : ~Swaps(u, h)') => IsMin(h, minl[h])'
    <3>1. \A h \in Heaps : IsMin(h, minl[h]) <=> IsMin(h, minl[h])'
      BY <1>1, <2>2 DEF TypeOK, IsMin
    <3>2. QED
      BY <1>3, <2>2, <3>1 DEF Shortest
  <2>4. QED
    BY <1>2, <1>4, <2>1, <2>2, <2>3 DEF Shortest, IsMin
<1>7. Gone'
  BY DEF Gone, Shortest, Fewer, TypeOK, Heaps
<1>8. QED
  BY <1>6, <1>7

LEMMA CalmShortest ==
  ASSUME Inv, Calm, NEW t \in Threads, NEW q, q \notin Swapping \cup {"act"}, pc[t] \notin Swapping,
         NEW w, NEW l, NEW n, NEW r, Moves(t, q, w, l, n, r)
  PROVE  Shortest' /\ Gone'
  BY FewerShortest DEF Calm, Fewer

\* The gc thread has taken a lease off the heap and acts on it.
Acting(t) == t = "gc" /\ pc[t] \in {"act", "naLock", "naSet", "pIndex"}

LEMMA CalmSupervised ==
  ASSUME Inv, Calm, NEW t \in Threads, NEW q, PP \in index' => PP \in index /\ ~Acting(t),
         q \notin Swapping, pc[t] \notin Swapping, NEW w, NEW l, NEW n, NEW r, Moves(t, q, w, l, n, r)
  PROVE  Supervised'
<1>1. \A u \in Threads, h \in Heaps : Swaps(u, h)' <=> Swaps(u, h)
  BY DEF Calm, Fewer, Swaps, Moves
<1>2. minl["auto"] \in Clones
  BY DEF Inv, Shortest, TypeOK, Heaps
<1>3. QED
  BY <1>1, <1>2 DEF Inv, Supervised, Calm, Fewer, Moves, Threads, Heaps, Acting

LEMMA QuietCalm ==
  ASSUME Inv, Quiet, NEW t \in Threads, NEW q \in Aside, pc[t] \in Aside,
         NEW w, NEW l, NEW n, NEW r, Moves(t, q, w, l, n, r)
  PROVE  Calm
<1>1. \A v \in Writers : Born(v)' <=> Born(v)
  BY QuietWriters
<1>2. QED
  BY <1>1 DEF Calm, Fewer, Quiet

LEMMA QuietLeases ==
  ASSUME Inv, Quiet, NEW t \in Threads, NEW q \in Aside \ {"act"}, pc[t] \in Aside,
         q = "pSnap" => PP \notin index,
         NEW w, NEW l, NEW n, NEW r, Moves(t, q, w, l, n, r)
  PROVE  Participant' /\ Shortest' /\ Gone' /\ (~Acting(t) => Supervised')
<1>1. Participant'
  BY DEF Inv, Quiet, Participant, Moves
<1>2. Calm /\ index' = index
  BY QuietCalm DEF Quiet
<1>3. QED
  BY <1>1, <1>2, QuietCalm, CalmShortest, CalmSupervised DEF Aside, Quiet

\* Types, from the parts of a step.
Clocks == /\ tend' \in [Leases -> Int] /\ tsched' \in [Leases -> Int] /\ tm' \in Int
          /\ rq' \in Seq({"auto", "man", "own", "lock"}) /\ (pc'["recv"] = "renew" => rq' # <<>>)
          /\ data' \in BOOLEAN /\ silent' \in BOOLEAN
LocksTyped == wlock' \in [Writers -> Threads \cup {None}] /\ plock' \in Threads \cup {None}

LEMMA QuietTypeOK ==
  ASSUME TypeOK, Quiet, Clocks, LocksTyped, Awake, NEW t, NEW q, NEW w, NEW l, NEW n, NEW r,
         Moves(t, q, w, l, n, r)
  PROVE  TypeOK'
  BY DEF TypeOK, Quiet, Clocks, LocksTyped, Awake, Moves

Locking == {"exists", "alive", "naSet"} \cup Swapping

LEMMA LocksKept ==
  ASSUME TypeOK, Places, Locks, Keep, NEW t \in Threads, NEW q, q \notin Locking,
         pc[t] \notin Swapping, NEW w, NEW l, NEW n, NEW r, Moves(t, q, w, l, n, r)
  PROVE  Locks' /\ LocksTyped
<1>1. LocksTyped
  BY DEF TypeOK, Keep, LocksTyped
<1>2. /\ pc'[t] = q /\ plock' = plock /\ wlock' = wlock
      /\ \A u \in Threads : u # t => pc'[u] = pc[u] /\ wr'[u] = wr[u] /\ ret'[u] = ret[u]
  BY DEF Keep, Moves
<1>3. \A u \in Threads : plock' = u <=> pc'[u] \in Swapping
  BY <1>2 DEF Locks, Locking
<1>4. \A u \in Threads :
        pc'[u] \in {"exists", "alive", "naSet"} \/ (pc'[u] \in Swapping /\ ret'[u] # "nInsert")
          => wlock'[wr'[u]] = u
  BY <1>2 DEF Locks, Locking
<1>5. QED
  BY <1>1, <1>3, <1>4 DEF Locks

LEMMA LocksReleased ==
  ASSUME TypeOK, Places, Locks, NEW t \in Threads, Release(t), NEW q, q \notin Locking,
         NEW w, NEW l, NEW n, NEW r, Moves(t, q, w, l, n, r)
  PROVE  Locks' /\ LocksTyped
<1> USE Names DEF TypeOK, Release, Moves, Locking
<1>1. LocksTyped
  BY DEF LocksTyped
<1>2. \A u \in Threads : plock' = u <=> pc'[u] \in Swapping
  BY DEF Locks
<1>3. ASSUME NEW u \in Threads,
             pc'[u] \in {"exists", "alive", "naSet"} \/ (pc'[u] \in Swapping /\ ret'[u] # "nInsert")
      PROVE  wlock'[wr'[u]] = u
  <2>1. u # t /\ pc'[u] = pc[u] /\ wr'[u] = wr[u] /\ ret'[u] = ret[u]
    BY <1>3
  <2>2. wlock[wr[u]] = u
    BY <1>3, <2>1 DEF Locks
  <2>3. wr[u] \in Writers
    BY <1>3, <2>1 DEF Places, Swapping
  <2>4. QED
    BY <2>1, <2>2, <2>3
<1>4. QED
  BY <1>1, <1>2, <1>3 DEF Locks

LEMMA LocksTaken ==
  ASSUME TypeOK, Places, Locks, NEW t \in Threads, NEW w \in Writers, Take(t, w), NEW q,
         q \notin Swapping, pc[t] \notin Swapping, NEW l, NEW n, NEW r, Moves(t, q, w, l, n, r)
  PROVE  Locks' /\ LocksTyped
<1> USE Names DEF TypeOK, Take, Moves
<1>1. LocksTyped
  BY DEF LocksTyped
<1>2. \A u \in Threads : plock' = u <=> pc'[u] \in Swapping
  BY DEF Locks
<1>3. ASSUME NEW u \in Threads \ {t},
             pc'[u] \in {"exists", "alive", "naSet"} \/ (pc'[u] \in Swapping /\ ret'[u] # "nInsert")
      PROVE  wlock'[wr'[u]] = u
  <2>1. wlock[wr[u]] = u
    BY <1>3 DEF Locks
  <2>2. wr[u] \in Writers
    BY <1>3 DEF Places, Swapping
  <2>3. QED
    BY <2>1, <2>2, <1>3
<1>4. QED
  BY <1>1, <1>2, <1>3 DEF Locks

\* Nothing but time and the wish to send changes.
LEMMA StillInv ==
  ASSUME Inv, Quiet, Clocks, UNCHANGED <<pc, wr, lp, new, ret, wlock, plock, awake, blk>>
  PROVE  Inv'
<1> USE DEF Inv, Quiet
<1>1. TypeOK'
  BY DEF TypeOK, Clocks
<1>3. \A h \in Heaps, c \in Clones \cup {None} : IsMin(h, c)' <=> IsMin(h, c)
  BY DEF IsMin
<1>4. Places' /\ Locks' /\ Participant' /\ Gone'
  BY DEF Places, Locks, Participant, Gone
<1>5. \A v \in Writers : Writer(v)'
  BY DEF Writer, Born, Creating
<1>6. (\A t \in Threads : Reliance(t)') /\ AliveInHeap' /\ Supervised'
  BY DEF Reliance, Deleting, Born, Creating, AliveInHeap, Listed, Watched, HeapOf, Supervised,
      Swaps
<1>7. Shortest'
  <2>1. \A c \in Clones : Clone(c)'
    BY DEF Shortest, Clone, Born
  <2>2. \A t \in Threads, h \in Heaps : (Swaps(t, h)' <=> Swaps(t, h))
    BY DEF Swaps
  <2>3. \A t \in Threads, h \in Heaps : Swap(t, h) => Swap(t, h)'
    BY <1>3 DEF Swap, TypeOK
  <2>4. QED
    BY <1>3, <2>1, <2>2, <2>3 DEF Shortest, Born, TypeOK
<1>8. QED
  BY <1>1, <1>4, <1>5, <1>6, <1>7

\* A thread that goes to a place without obligations.
Free == {"idle", "load", "renew", "exists", "nRef", "dIndex", "pIndex", "pSnap", "next", "act"}

\* What the others rely on is kept when t goes to q with w in hand.
OthersKept(t, q, w) ==
  \A u \in Threads : u # t =>
    /\ Deleting(u) => wr[u] \in endpoints' \ (index' \cup gcq') /\ ~Creating(wr[u])'
    /\ pc[u] \in {"alive"} \cup Swapping => wr[u] \in endpoints' \ gcq'
    /\ pc[u] \in {"alive", "naLock", "naSet"} => Born(wr[u])'
    /\ pc[u] \in {"nLease", "naSet", "dGc"} \cup Swapping => alive'[wr[u]] = alive[wr[u]]
    /\ pc[u] = "nRef" => life'[wr[u]] = life[wr[u]]
    /\ Deleting(t)' /\ Deleting(u) => wr[u] # w
    /\ q = "dGc" /\ pc[u] \in {"alive"} \cup Swapping => wr[u] # w

LEMMA OthersRely ==
  ASSUME Inv, NEW t \in Threads, NEW q, NEW w, NEW l, NEW n, NEW r, Moves(t, q, w, l, n, r),
         OthersKept(t, q, w)
  PROVE  \A u \in Threads : u # t => Reliance(u)'
<1> USE DEF OthersKept
<1> SUFFICES ASSUME NEW u \in Threads, u # t PROVE Reliance(u)'
  OBVIOUS
<1>1. /\ Reliance(u) /\ pc'[u] = pc[u] /\ wr'[u] = wr[u]
      /\ ret'[u] = ret[u] /\ pc'[t] = q /\ wr'[t] = w
  BY DEF Inv, Moves
<1>2. \A v \in Threads : v # t => (Deleting(v)' <=> Deleting(v))
  BY DEF Deleting, Moves
<1>3. Deleting(u)' => /\ wr'[u] \in endpoints' \ (index' \cup gcq') /\ ~Creating(wr[u])'
                      /\ \A v \in Threads : Deleting(v)' /\ wr'[v] = wr'[u] => v = u
  BY <1>1, <1>2 DEF Reliance, Moves
<1>4. pc'[u] \in {"alive", "naLock", "naSet"} => Born(wr[u])'
  BY <1>1
<1>5. pc'[u] \in {"alive"} \cup Swapping =>
        wr'[u] \in endpoints' \ gcq' /\ \A v \in Threads : pc'[v] = "dGc" => wr'[v] # wr'[u]
  BY <1>1 DEF Reliance, Moves
<1>6. /\ pc'[u] \in {"dGc"} \cup Swapping /\ ret'[u] = "dGc" => ~alive'[wr'[u]]
      /\ pc'[u] \in {"nLease", "naSet"} => alive'[wr'[u]]
      /\ pc'[u] = "nRef" => life'[wr'[u]] = "none"
  BY <1>1 DEF Reliance
<1>7. QED
  BY <1>1, <1>3, <1>4, <1>5, <1>6 DEF Reliance, Creating, Born

LEMMA FreeRelies ==
  ASSUME NEW t \in Threads, NEW q \in Free \cup {"nLease", "nInsert"}, NEW w, NEW l, NEW n, NEW r,
         Moves(t, q, w, l, n, r), q = "nRef" => life'[w] = "none",
         q = "nLease" => alive'[w]
  PROVE  Reliance(t)' /\ ~Deleting(t)' /\ q # "dGc"
  BY DEF Reliance, Deleting, Moves, Free, Swapping

LEMMA InHand ==
  ASSUME Inv, NEW u \in Threads,
         Deleting(u) \/ pc[u] \notin {"idle", "act", "pIndex", "pSnap", "next"}
  PROVE  wr[u] \in Writers /\ wr[u] \in Leases
  BY DEF Inv, Places, Deleting, Swapping, Leases

LEMMA QuietOthers ==
  ASSUME Inv, Quiet, NEW t \in Threads, NEW q \in Aside, pc[t] \in Aside,
         NEW w, NEW l, NEW n, NEW r, Moves(t, q, w, l, n, r),
         \A u \in Threads : u # t =>
           /\ Deleting(t)' /\ Deleting(u) => wr[u] # w
           /\ q = "dGc" /\ pc[u] \in {"alive"} \cup Swapping => wr[u] # w
  PROVE  \A u \in Threads : u # t => Reliance(u)'
<1>1. /\ \A v \in Writers : Born(v)' <=> Born(v)
      /\ \A v \in Writers : Creating(v)' <=> Creating(v)
  BY QuietWriters
<1>2. \A u \in Threads : u # t =>
        /\ Deleting(u) => wr[u] \in endpoints' \ (index' \cup gcq') /\ ~Creating(wr[u])'
        /\ pc[u] \in {"alive"} \cup Swapping => wr[u] \in endpoints' \ gcq'
        /\ pc[u] \in {"alive", "naLock", "naSet"} => Born(wr[u])'
  <2>1. \A u \in Threads : u # t => wr'[u] = wr[u]
    BY DEF Moves
  <2>2. QED
    BY <1>1, <2>1, InHand DEF Inv, Reliance, Quiet, Swapping
<1>3. alive' = alive /\ life' = life
  BY DEF Quiet
<1>4. QED
  BY <1>2, <1>3, OthersRely DEF OthersKept

LEMMA QuietDeletions ==
  ASSUME Inv, Quiet, NEW t \in Threads, NEW q \in Free, pc[t] \in Aside,
         NEW w, q = "nRef" => life[w] = "none", NEW l, NEW n, NEW r, Moves(t, q, w, l, n, r)
  PROVE  \A u \in Threads : Reliance(u)'
<1>1. Reliance(t)' /\ ~Deleting(t)' /\ q # "dGc"
  <2>1. q # "nLease" /\ (q = "nRef" => life'[w] = "none")
    BY DEF Free, Quiet
  <2>2. QED
    BY <2>1, FreeRelies
<1>2. q \in Aside
  BY DEF Free, Aside, Labels, Swapping
<1>3. \A u \in Threads : u # t => Reliance(u)'
  BY <1>1, <1>2, QuietOthers
<1>4. QED
  BY <1>1, <1>3

\* All of them, for a step to such a place.
LEMMA QuietInv ==
  ASSUME Inv, Quiet, Clocks, Awake, LocksTyped, Locks', Places',
         NEW t \in Threads, ~Acting(t), NEW q \in Free \ {"act"}, pc[t] \in Aside,
         q = "pSnap" => PP \notin index,
         NEW w, q = "nRef" => life[w] = "none", NEW l, NEW n, NEW r, Moves(t, q, w, l, n, r)
  PROVE  Inv'
<1>1. q \in Aside \ {"act"}
  BY DEF Free, Aside, Labels, Swapping
<1>2. TypeOK'
  BY QuietTypeOK DEF Inv
<1>3. \A u \in Threads : Reliance(u)'
  BY QuietDeletions
<1>4. QED
  BY <1>1, <1>2, <1>3, QuietWriters, QuietLeases DEF Inv

-----------------------------------------------------------------------------
(* The receive thread *)

LEMMA RenewalsTyped ==
  ASSUME NEW v, NEW m \in {"data", "heartbeat", "liveliness"}
  PROVE  Renewals(v, m) \in Seq({"auto", "man", "own", "lock"})
<1> DEFINE Target == {"auto", "man", "own", "lock"}
           own == IF qos[v].kind = "topic" THEN <<"own">> ELSE <<>>
<1>1. own \in Seq(Target)
  <2>1. <<"own">> \in Seq(Target)
    OBVIOUS
  <2>2. <<>> \in Seq(Target)
    OBVIOUS
  <2>3. QED
    BY <2>1, <2>2, Zenon
<1>2. <<"auto", "man">> \in Seq(Target) /\ <<"auto", "lock">> \in Seq(Target)
      /\ <<"auto", "lock", "man">> \in Seq(Target)
  OBVIOUS
<1>3. \/ Renewals(v, m) = <<"auto", "man">> \o own
      \/ Renewals(v, m) = <<"auto", "lock">>
      \/ Renewals(v, m) = <<"auto", "lock", "man">> \o own
  BY DEF Renewals
<1> HIDE DEF Target, own
<1>4. \A p, q \in Seq(Target) : p \o q \in Seq(Target)
  OBVIOUS
<1>5. Renewals(v, m) \in Seq(Target)
  BY <1>1, <1>2, <1>3, <1>4
<1>6. QED
  BY <1>5 DEF Target

LEMMA ReceiveInv ==
  ASSUME Inv, NEW v \in Writers, NEW m \in {"data", "heartbeat", "liveliness"}, Receive(v, m)
  PROVE  Inv'
<1> USE DEF Inv
<1>1. Moves("recv", "load", v, lp["recv"], new["recv"], ret["recv"]) /\ Quiet /\ Awake /\ Keep
  BY DEF Receive, Goto, TypeOK, Moves, Quiet, Awake, Keep, Threads, Labels, Entities
<1>2. Renewals(v, m) \in Seq({"auto", "man", "own", "lock"})
  BY RenewalsTyped
<1>3. Clocks
  BY <1>1, <1>2 DEF Receive, TypeOK, Clocks, Moves
<1>4. Places'
  BY <1>1 DEF Places, Moves, Own, Threads
<1>5. pc["recv"] = "idle"
  BY DEF Receive
<1>6. Locks' /\ LocksTyped
  BY <1>1, <1>5, LocksKept DEF Threads, Swapping, Locking
<1>7. QED
  BY <1>1, <1>3, <1>4, <1>5, <1>6, QuietInv DEF Acting, Free, Aside, Labels, Swapping, Threads

LEMMA LoadInv == ASSUME Inv, Load PROVE Inv'
<1> USE DEF Inv
<1> DEFINE l == IF Head(rq) = "own" THEN wr["recv"] ELSE minl[Head(rq)]
<1>1. pc["recv"] = "load" /\ wr["recv"] \in Writers
  BY DEF Load, Places, Threads
<1>2. Head(rq) \in {"auto", "man", "own"} /\ Tail(rq) \in Seq({"auto", "man", "own", "lock"})
  BY DEF Load, TypeOK
<1>3. l \in Leases \cup {None}
  BY <1>1, <1>2 DEF TypeOK, Heaps, Leases
<1> HIDE DEF l
<1>4. lp' = [lp EXCEPT !["recv"] = l]
  BY DEF Load, l
<1>5. PICK q \in {"load", "renew"} : pc' = [pc EXCEPT !["recv"] = q]
  BY <1>1 DEF Load, Goto, TypeOK
<1>6. Moves("recv", q, wr["recv"], l, new["recv"], ret["recv"])
  BY <1>3, <1>4, <1>5 DEF Load, TypeOK, Moves, Threads, Labels
<1>7. Quiet /\ Awake /\ Keep
  BY DEF Load, TypeOK, Quiet, Awake, Keep
<1>8. Clocks
  BY <1>1, <1>2, <1>5 DEF Load, Goto, TypeOK, Clocks
<1>9. Places'
  BY <1>1, <1>6 DEF Places, Moves, Own, Threads
<1>10. Locks' /\ LocksTyped
  BY <1>1, <1>6, <1>7, LocksKept DEF Threads, Swapping, Locking
<1>11. QED
  BY <1>1, <1>5, <1>6, <1>7, <1>8, <1>9, <1>10, QuietInv DEF Acting, Free, Aside, Labels,
      Swapping, Threads

LEMMA LockHeartbeatInv == ASSUME Inv, LockHeartbeat PROVE Inv'
<1> USE DEF Inv
<1>1. pc["recv"] = "load" /\ wr["recv"] \in Writers
  BY DEF LockHeartbeat, Places, Threads
<1>2. Moves("recv", "load", wr["recv"], lp["recv"], new["recv"], ret["recv"]) /\ Quiet /\ Awake
  BY <1>1 DEF LockHeartbeat, TypeOK, Moves, Quiet, Awake, Threads
<1>3. Tail(rq) \in Seq({"auto", "man", "own", "lock"})
  BY DEF LockHeartbeat, TypeOK
<1>4. Clocks
  BY <1>1, <1>3 DEF LockHeartbeat, TypeOK, Clocks
<1>5. Places'
  BY <1>1, <1>2 DEF Places, Moves, Own, Threads
<1>6. Take("recv", wr["recv"])
  BY DEF LockHeartbeat, Take
<1>7. Locks' /\ LocksTyped
  BY <1>1, <1>2, <1>6, LocksTaken DEF Threads, Swapping
<1>8. QED
  BY <1>1, <1>2, <1>4, <1>5, <1>7, QuietInv DEF Acting, Free, Aside, Labels, Swapping, Threads

LEMMA RenewInv == ASSUME Inv, Renew PROVE Inv'
<1> USE DEF Inv
<1>1. pc["recv"] = "renew" /\ wr["recv"] \in Writers
  BY DEF Renew, Places, Threads
<1>2. Moves("recv", "load", wr["recv"], None, new["recv"], ret["recv"]) /\ Quiet /\ Awake /\ Keep
  BY DEF Renew, Goto, TypeOK, Moves, Quiet, Awake, Keep, Threads, Labels
<1>3. Renewed(lp["recv"]) \in [Leases -> Int]
  <2>1. CASE lp["recv"] \in heap
    <3>1. ent[lp["recv"]] \in Entities
      BY <2>1, Names DEF TypeOK, Entities, Leases, Writer, Participant, Shortest, Clone
    <3>2. Dur(ent[lp["recv"]]) \in Nat
      BY <3>1, ProxyLeaseConstants DEF TypeOK, Dur, Entities
    <3>3. QED
      BY <2>1, <3>2 DEF TypeOK, Renewed
  <2>2. CASE lp["recv"] \notin heap
    BY <2>2 DEF TypeOK, Renewed
  <2>3. QED
    BY <2>1, <2>2
<1>4. Clocks
  BY <1>1, <1>2, <1>3 DEF Renew, TypeOK, Clocks, Moves
<1>5. Places'
  BY <1>1, <1>2 DEF Places, Moves, Own, Threads
<1>6. Locks' /\ LocksTyped
  BY <1>1, <1>2, LocksKept DEF Threads, Swapping, Locking
<1>7. QED
  BY <1>1, <1>2, <1>4, <1>5, <1>6, QuietInv DEF Acting, Free, Aside, Labels, Swapping, Threads

LEMMA TickInv == ASSUME Inv, Tick PROVE Inv'
<1>1. Quiet
  BY DEF Tick, Quiet, Inv, TypeOK
<1>2. Clocks
  BY DEF Tick, Inv, TypeOK, Clocks
<1>3. QED
  BY <1>1, <1>2, StillInv DEF Tick

LEMMA RemoteFallsSilentInv == ASSUME Inv, RemoteFallsSilent PROVE Inv'
<1>1. Quiet
  BY DEF RemoteFallsSilent, Quiet, Inv, TypeOK
<1>2. Clocks
  BY DEF RemoteFallsSilent, Inv, TypeOK, Clocks
<1>3. QED
  BY <1>1, <1>2, StillInv DEF RemoteFallsSilent

LEMMA EndRenewalsInv == ASSUME Inv, EndRenewals PROVE Inv'
<1> USE DEF Inv
<1>1. pc["recv"] = "load" /\ wr["recv"] \in Writers /\ "recv" \in Threads
  BY DEF EndRenewals, Places, Threads
<1>2. Quiet /\ tm' = 0 /\ data' \in BOOLEAN /\ UNCHANGED <<tend, tsched, rq, silent>>
  BY DEF EndRenewals, Quiet, TypeOK
<1>3. CASE Continue("recv", "done", TRUE) \/ Continue("recv", "done", FALSE)
  <2>1. Leaves("recv") /\ Awake /\ (Release("recv") \/ Keep)
    BY <1>1, <1>3, ContinueGoes DEF Goes
  <2>2. Clocks
    BY <1>2, <2>1 DEF TypeOK, Clocks, Leaves, Moves
  <2>3. Places'
    BY <2>1 DEF Places, Leaves, Moves, Own, Threads
  <2>4. Locks' /\ LocksTyped
    BY <1>1, <2>1, LocksKept, LocksReleased DEF Leaves, Swapping, Locking
  <2>5. QED
    BY <1>1, <1>2, <2>1, <2>2, <2>3, <2>4, QuietInv
    DEF Acting, Free, Aside, Labels, Swapping, Threads, Leaves
<1>4. CASE Goto("recv", "exists") /\ UNCHANGED <<awake, blk, wr, lp, new, ret, plock>>
           /\ Take("recv", wr["recv"])
  <2>1. Stays("recv", "exists") /\ Awake
    BY <1>1, <1>4 DEF Goto, TypeOK, Stays, Moves, Awake, Labels
  <2>2. Clocks
    BY <1>2, <2>1 DEF TypeOK, Clocks, Stays, Moves
  <2>3. Places'
    BY <1>1, <2>1 DEF Places, Stays, Moves, Own, Threads
  <2>4. Locks' /\ LocksTyped
    BY <1>1, <1>4, <2>1, LocksTaken DEF Stays, Swapping
  <2>5. QED
    BY <1>1, <1>2, <2>1, <2>2, <2>3, <2>4, QuietInv
    DEF Acting, Free, Aside, Labels, Swapping, Threads, Stays
<1>5. QED
  BY <1>3, <1>4 DEF EndRenewals, Take

LEMMA SetAliveLookupInv == ASSUME Inv, SetAliveLookup PROVE Inv'
<1> USE DEF Inv
<1>1. PICK v \in Writers : v = wr["recv"] /\ pc["recv"] = "exists" /\ "recv" \in Threads
  BY DEF SetAliveLookup, Places, Threads
<1>2. Quiet
  BY DEF SetAliveLookup, Quiet, TypeOK
<1>3. CASE v \notin index
  <2>1. Leaves("recv") /\ Awake /\ Release("recv")
    BY <1>1, <1>3, ContinueGoes DEF SetAliveLookup, Goes
  <2>2. Clocks
    BY <2>1 DEF SetAliveLookup, TypeOK, Clocks, Leaves, Moves
  <2>3. Places'
    BY <2>1 DEF Places, Leaves, Moves, Own, Threads
  <2>4. Locks' /\ LocksTyped
    BY <1>1, <2>1, LocksReleased DEF Leaves, Swapping, Locking
  <2>5. QED
    BY <1>1, <1>2, <2>1, <2>2, <2>3, <2>4, QuietInv
    DEF Acting, Free, Aside, Labels, Swapping, Threads, Leaves
<1>4. CASE v \in index
  <2>1. Stays("recv", "alive") /\ Awake /\ Keep
    BY <1>1, <1>4, ContinueGoes DEF SetAliveLookup, Goes, Labels
  <2>2. Clocks
    BY <2>1 DEF SetAliveLookup, TypeOK, Clocks, Stays, Moves
  <2>3. Places'
    BY <1>1, <2>1 DEF Places, Stays, Moves, Own, Threads
  <2>4. Locks' /\ LocksTyped
    <3>1. LocksTyped
      BY <2>1 DEF TypeOK, LocksTyped, Keep
    <3>2. wlock[v] = "recv" /\ \A u \in Threads : plock' = u <=> pc'[u] \in Swapping
      BY <1>1, <2>1 DEF Locks, Keep, Stays, Moves, Swapping
    <3>3. QED
      BY <1>1, <2>1, <3>1, <3>2 DEF Locks, Keep, Stays, Moves
  <2>5. /\ \A x \in Writers : Born(x)' <=> Born(x)
        /\ \A x \in Writers : Creating(x)' <=> Creating(x)
        /\ \A x \in Writers : Writer(x)'
        /\ AliveInHeap'
    BY <1>1, <1>2, <2>1, QuietWriters DEF Stays, Aside, Labels, Swapping
  <2>6. Participant' /\ Shortest' /\ Gone' /\ Supervised'
    BY <1>1, <1>2, <2>1, QuietLeases DEF Acting, Stays, Aside, Labels, Swapping, Threads
  <2>7. TypeOK'
    BY <1>2, <2>1, <2>2, <2>4, QuietTypeOK DEF Stays
  <2>8. v \in endpoints \ gcq /\ \A u \in Threads : Deleting(u) => wr[u] # v
    BY <1>1, <1>4 DEF Writer, Reliance
  <2>9. \A u \in Threads : u # "recv" => Reliance(u)'
    <3>1. ~Deleting("recv")'
      BY <2>1 DEF Deleting, Stays, Moves, Swapping
    <3>2. QED
      BY <1>1, <1>2, <2>1, <3>1, QuietOthers DEF Stays, Aside, Labels, Swapping
  <2>10. Reliance("recv")'
    <3>1. \A u \in Threads : pc'[u] = "dGc" => Deleting(u) /\ wr'[u] = wr[u]
      BY <1>1, <2>1 DEF Stays, Moves, Deleting
    <3>2. Born(v)'
      BY <1>1, <1>4, <2>5 DEF Writer, Born, Creating
    <3>3. QED
      BY <1>1, <1>2, <2>1, <2>8, <3>1, <3>2 DEF Reliance, Deleting, Stays, Moves, Swapping, Quiet
  <2>11. QED
    BY <2>3, <2>4, <2>5, <2>6, <2>7, <2>9, <2>10
<1>5. QED
  BY <1>3, <1>4

-----------------------------------------------------------------------------
(* Discovery *)

LEMMA NewPwrInv == ASSUME Inv, NEW v \in Writers, NewPwr(v) PROVE Inv'
<1> USE DEF Inv
<1>1. pc["disc"] = "idle" /\ life[v] = "none"
  BY DEF NewPwr
<1>2. Moves("disc", "nRef", v, lp["disc"], new["disc"], ret["disc"]) /\ Quiet /\ Awake /\ Keep
  BY DEF NewPwr, Goto, TypeOK, Moves, Quiet, Awake, Keep, Threads, Labels, Entities
<1>3. Clocks
  BY <1>2 DEF NewPwr, TypeOK, Clocks, Moves, Threads
<1>4. Places'
  BY <1>2 DEF Places, Moves, Own, Threads, Swapping
<1>5. Locks' /\ LocksTyped
  BY <1>1, <1>2, LocksKept DEF Threads, Swapping, Locking
<1>6. QED
  BY <1>1, <1>2, <1>3, <1>4, <1>5, QuietInv DEF Acting, Free, Aside, Labels, Swapping, Threads

LEMMA DeletePwrInv == ASSUME Inv, NEW v \in Writers, DeletePwr(v) PROVE Inv'
<1> USE DEF Inv
<1>1. pc["disc"] = "idle"
  BY DEF DeletePwr
<1>2. Moves("disc", "dIndex", v, lp["disc"], new["disc"], ret["disc"]) /\ Quiet /\ Awake /\ Keep
  BY DEF DeletePwr, Goto, TypeOK, Moves, Quiet, Awake, Keep, Threads, Labels, Entities
<1>3. Clocks
  BY <1>2 DEF DeletePwr, TypeOK, Clocks, Moves, Threads
<1>4. Places'
  BY <1>2 DEF Places, Moves, Own, Threads, Swapping
<1>5. Locks' /\ LocksTyped
  BY <1>1, <1>2, LocksKept DEF Threads, Swapping, Locking
<1>6. QED
  BY <1>1, <1>2, <1>3, <1>4, <1>5, QuietInv DEF Acting, Free, Aside, Labels, Swapping, Threads

LEMMA DeletePpInv == ASSUME Inv, DeletePp PROVE Inv'
<1> USE DEF Inv
<1>1. pc["disc"] = "idle"
  BY DEF DeletePp
<1>2. Stays("disc", "pIndex") /\ Quiet /\ Awake /\ Keep
  BY DEF DeletePp, Goto, TypeOK, Stays, Moves, Quiet, Awake, Keep, Threads, Labels
<1>3. Clocks
  BY <1>2 DEF DeletePp, TypeOK, Clocks, Stays, Moves, Threads
<1>4. Places'
  BY <1>2 DEF Places, Stays, Moves, Own, Threads, Swapping
<1>5. Locks' /\ LocksTyped
  BY <1>1, <1>2, LocksKept DEF Stays, Threads, Swapping, Locking
<1>6. QED
  BY <1>1, <1>2, <1>3, <1>4, <1>5, QuietInv DEF Acting, Stays, Free, Aside, Labels, Swapping,
      Threads

\* The writer gets its reference to the participant.
LEMMA NewPwrRefInv == ASSUME Inv, NewPwrRef PROVE Inv'
<1> USE Names DEF Inv
<1>1. PICK v \in Writers : /\ v = wr["disc"] /\ pc["disc"] = "nRef" /\ "disc" \in Threads
                          /\ life[v] = "none" /\ v \in Leases
  BY DEF NewPwrRef, Places, Reliance, Threads, Leases
<1>2. CASE deleting /\ Continue("disc", "done", FALSE) /\ UNCHANGED <<endpoints, alive, life>>
  <2>1. Leaves("disc") /\ Awake /\ Keep
    BY <1>1, <1>2, ContinueGoes DEF Goes
  <2>2. Quiet
    BY <1>2 DEF NewPwrRef, Quiet, TypeOK
  <2>3. Clocks
    BY <2>1 DEF NewPwrRef, TypeOK, Clocks, Leaves, Moves, Threads
  <2>4. Places'
    BY <2>1 DEF Places, Leaves, Moves, Own, Threads, Swapping
  <2>5. Locks' /\ LocksTyped
    BY <1>1, <2>1, LocksKept DEF Leaves, Swapping, Locking
  <2>6. QED
    BY <1>1, <2>1, <2>2, <2>3, <2>4, <2>5, QuietInv
    DEF Acting, Free, Aside, Labels, Swapping, Threads, Leaves
<1>3. CASE /\ ~deleting /\ Continue("disc", "nLease", FALSE)
           /\ endpoints' = endpoints \cup {v}
           /\ alive' = [alive EXCEPT ![v] = TRUE]
           /\ life' = [life EXCEPT ![v] = "live"]
  <2>1. Stays("disc", "nLease") /\ Awake /\ Keep
    BY <1>1, <1>3, ContinueGoes DEF Goes, Labels
  <2>2. UNCHANGED <<qos, index, minl, pheap, top, ppref, deleting, tend, tsched, ent, heap, gcq, kids, tm,
                    rq, data, silent>>
    BY DEF NewPwrRef
  <2>3. v \notin endpoints \cup index \cup gcq \cup heap /\ ~alive[v]
    BY <1>1 DEF Writer, Born
  <2>4. TypeOK'
    BY <1>1, <1>3, <2>1, <2>2 DEF TypeOK, Stays, Moves, Awake, Keep, Threads
  <2>5. Places'
    BY <1>1, <2>1 DEF Places, Stays, Moves, Own, Threads, Swapping
  <2>6. Locks'
    BY <1>1, <2>1, LocksKept DEF Stays, Swapping, Locking
  <2>7. /\ \A x \in Writers \ {v} : Born(x)' <=> Born(x)
        /\ ~Born(v)'
        /\ \A x \in Writers : Creating(x)' <=> x = v
        /\ \A x \in Writers : ~Creating(x)
    BY <1>1, <1>3, <2>1 DEF Born, Creating, Stays, Moves, TypeOK, Threads, Swapping, Leases
  <2>8. ~Born(v)
    BY <1>1 DEF Born
  <2>9. \A x \in Writers : Writer(x)'
    BY <1>1, <1>3, <2>2, <2>3, <2>7, <2>8 DEF Writer, TypeOK, Leases
  <2>10. \A u \in Threads : Reliance(u)'
    <3>1. Reliance("disc")' /\ ~Deleting("disc")'
      <4>1. alive'[v]
        BY <1>3 DEF TypeOK
      <4>2. QED
        BY <1>1, <2>1, <4>1, FreeRelies DEF Stays
    <3>2. \A u \in Threads : u # "disc" =>
             /\ wr'[u] = wr[u]
             /\ Deleting(u) \/ pc[u] \in {"alive", "naLock", "naSet", "dGc"} \cup Swapping =>
                  wr[u] \in Writers \ {v}
      <4>1. ASSUME NEW u \in Threads \ {"disc"},
                   Deleting(u) \/ pc[u] \in {"alive", "naLock", "naSet", "dGc"} \cup Swapping
            PROVE  wr[u] \in Writers \ {v}
        <5>1. wr[u] \in Writers
          BY <4>1, InHand DEF Swapping
        <5>2. wr[u] \in endpoints \/ Born(wr[u])
          BY <4>1 DEF Reliance, Deleting
        <5>3. QED
          BY <2>3, <2>8, <5>1, <5>2
      <4>2. QED
        BY <2>1, <4>1 DEF Stays, Moves
    <3>3. \A u \in Threads : u # "disc" =>
             /\ Deleting(u) => wr[u] \in endpoints' \ (index' \cup gcq') /\ ~Creating(wr[u])'
             /\ pc[u] \in {"alive"} \cup Swapping => wr[u] \in endpoints' \ gcq'
             /\ pc[u] \in {"alive", "naLock", "naSet"} => Born(wr[u])'
      BY <1>1, <1>3, <2>2, <2>7, <3>2 DEF Reliance
    <3>4. \A u \in Threads : u # "disc" =>
             /\ pc[u] \in {"nLease", "naSet", "dGc"} \cup Swapping => alive'[wr[u]] = alive[wr[u]]
             /\ pc[u] # "nRef"
      BY <1>1, <1>3, <3>2 DEF TypeOK, Places, Own, Threads, Swapping
    <3>5. \A u \in Threads : u # "disc" => Reliance(u)'
      BY <1>1, <2>1, <3>1, <3>3, <3>4, OthersRely DEF OthersKept, Stays
    <3>6. QED
      BY <3>1, <3>5
  <2>11. AliveInHeap'
    <3>1. \A x \in Writers : x # v => alive'[x] = alive[x]
      BY <1>1, <1>3 DEF TypeOK
    <3>2. \A h \in Heaps : v \notin pheap[h]
      BY <1>1, <2>3 DEF AliveInHeap, Listed
    <3>3. Listed(v)'
      BY <2>2, <2>7, <3>2 DEF Listed
    <3>4. QED
      BY <2>2, <2>7, <3>1, <3>3, ListedKept DEF AliveInHeap
  <2>12. Participant'
    BY <1>1, <1>3, <2>1, <2>2 DEF Participant, Stays, Moves, TypeOK, Leases, Heaps
  <2>13. Calm
    BY <1>1, <1>3, <2>2, <2>7, <2>8 DEF Calm, Fewer, TypeOK, Leases
  <2>14. Shortest' /\ Gone'
    BY <1>1, <2>1, <2>13, CalmShortest DEF Stays, Swapping
  <2>15. Supervised'
    BY <1>1, <2>1, <2>2, <2>13, CalmSupervised DEF Acting, Stays, Swapping
  <2>16. QED
    BY <2>4, <2>5, <2>6, <2>9, <2>10, <2>11, <2>12, <2>14, <2>15
<1>4. QED
  BY <1>1, <1>2, <1>3 DEF NewPwrRef

LEMMA NewPwrInsertInv == ASSUME Inv, NewPwrInsert PROVE Inv'
<1> USE Names DEF Inv
<1>1. PICK v \in Writers : v = wr["disc"] /\ pc["disc"] = "nInsert" /\ "disc" \in Threads
  BY DEF NewPwrInsert, Places, Threads
<1>2. Leaves("disc") /\ Awake /\ Keep
  BY <1>1, ContinueGoes DEF NewPwrInsert, Goes
<1>3. /\ index' = index \cup {v}
      /\ UNCHANGED <<qos, minl, pheap, top, endpoints, ppref, deleting, alive, tend, tsched, ent, heap, life,
                     gcq, kids, tm, rq, data, silent>>
  BY <1>1 DEF NewPwrInsert
<1>4. TypeOK'
  BY <1>1, <1>2, <1>3 DEF TypeOK, Leaves, Moves, Awake, Keep, Threads, Entities
<1>5. Places'
  BY <1>2 DEF Places, Leaves, Moves, Own, Threads, Swapping
<1>6. Locks'
  BY <1>1, <1>2, LocksKept DEF Leaves, Swapping, Locking
<1>7. /\ \A x \in Writers : Born(x)' <=> Born(x)
      /\ \A x \in Writers : ~Creating(x)' /\ (Creating(x) <=> x = v)
  BY <1>1, <1>2, <1>3 DEF Born, Creating, Leaves, Moves, Threads, Swapping
<1>8. \A x \in Writers : Writer(x)'
  BY <1>3, <1>7 DEF Writer
<1>9. \A u \in Threads : Reliance(u)'
  <2>1. Reliance("disc")' /\ ~Deleting("disc")'
    BY <1>1, <1>2, FreeRelies DEF Leaves, Free
  <2>2. \A u \in Threads : u # "disc" => wr'[u] = wr[u] /\ pc[u] # "nRef"
    BY <1>2 DEF Leaves, Moves, Places, Own, Threads, Swapping
  <2>3. \A u \in Threads : u # "disc" =>
          /\ Deleting(u) => wr[u] \in endpoints' \ (index' \cup gcq') /\ ~Creating(wr[u])'
          /\ pc[u] \in {"alive"} \cup Swapping => wr[u] \in endpoints' \ gcq'
          /\ pc[u] \in {"alive", "naLock", "naSet"} => Born(wr[u])'
    BY <1>1, <1>3, <1>7, <2>2, InHand DEF Reliance, Swapping
  <2>4. \A u \in Threads : u # "disc" => Reliance(u)'
    BY <1>1, <1>2, <1>3, <2>1, <2>2, <2>3, OthersRely DEF OthersKept, Leaves
  <2>5. QED
    BY <2>1, <2>4
<1>10. AliveInHeap'
  BY <1>3, <1>7, ListedKept DEF AliveInHeap
<1>11. Participant'
  BY <1>1, <1>2, <1>3 DEF Participant, Leaves, Moves
<1>12. Calm
  BY <1>3, <1>7 DEF Calm, Fewer
<1>13. Shortest' /\ Gone'
  BY <1>1, <1>2, <1>12, CalmShortest DEF Leaves, Swapping
<1>14. Supervised'
  BY <1>1, <1>2, <1>3, <1>12, CalmSupervised DEF Acting, Leaves, Swapping
<1>15. QED
  BY <1>4, <1>5, <1>6, <1>8, <1>9, <1>10, <1>11, <1>13, <1>14

-----------------------------------------------------------------------------
(* Deletion, by the discovery thread or the gc thread *)

LEMMA DeletePwrIndexInv == ASSUME Inv, NEW t \in {"disc", "gc"}, DeletePwrIndex(t) PROVE Inv'
<1> USE Names DEF Inv
<1>1. PICK v \in Writers : v = wr[t] /\ pc[t] = "dIndex" /\ t \in Threads
  BY DEF DeletePwrIndex, Places, Threads
<1>2. /\ index' = index \ {v}
      /\ UNCHANGED <<qos, minl, pheap, top, endpoints, ppref, deleting, alive, tend, tsched, ent, heap, life,
                     gcq, kids, tm, rq, data, silent>>
  BY <1>1 DEF DeletePwrIndex
<1>3. CASE v \notin index
  <2>1. Stays(t, "next") /\ Awake /\ Keep
    BY <1>1, <1>3, ContinueGoes DEF DeletePwrIndex, Goes, Labels
  <2>2. Quiet /\ index' = index
    BY <1>2, <1>3 DEF Quiet, TypeOK
  <2>3. Clocks
    BY <1>1, <1>2, <2>1 DEF TypeOK, Clocks, Stays, Moves, Threads
  <2>4. Places'
    BY <1>1, <2>1 DEF Places, Stays, Moves, Own, Threads, Swapping
  <2>5. Locks' /\ LocksTyped
    BY <1>1, <2>1, LocksKept DEF Stays, Swapping, Locking
  <2>6. QED
    BY <1>1, <2>1, <2>2, <2>3, <2>4, <2>5, QuietInv DEF Acting, Stays, Free, Aside, Labels,
        Swapping
<1>4. CASE v \in index
  <2>0. PICK q \in {"naLock", "dUnreg"} : /\ pc' = [pc EXCEPT ![t] = q]
                                          /\ ret' = [ret EXCEPT ![t] = "dGc"]
                                          /\ UNCHANGED <<wr, lp, new>>
    BY <1>1, <1>4 DEF DeletePwrIndex, Goto
  <2>1. Moves(t, q, v, lp[t], new[t], "dGc")
    BY <1>1, <2>0 DEF TypeOK, Moves, Labels
  <2>2. Awake /\ Keep
    BY <1>1, <1>4 DEF DeletePwrIndex, Awake, Keep, TypeOK
  <2>3. TypeOK'
    BY <1>1, <1>2, <2>1, <2>2 DEF TypeOK, Moves, Awake, Keep, Threads
  <2>4. Places'
    BY <1>1, <2>1 DEF Places, Moves, Own, Threads, Swapping
  <2>5. Locks'
    BY <1>1, <2>1, <2>2, LocksKept DEF Swapping, Locking
  <2>6. /\ \A x \in Writers : Born(x)' <=> Born(x)
        /\ \A x \in Writers : Creating(x)' <=> Creating(x)
    BY <1>1, <1>2, <2>1 DEF Born, Creating, Moves, Threads, Swapping
  <2>7. \A x \in Writers : Writer(x)'
    BY <1>2, <2>6 DEF Writer
  <2>8. v \in endpoints \ gcq /\ ~Creating(v) /\ Born(v)
    BY <1>4 DEF Writer, Born, Creating
  <2>9. \A u \in Threads : u # t => wr'[u] = wr[u] /\ (Deleting(u) => wr[u] # v) /\ (Deleting(u)' <=> Deleting(u))
    BY <1>4, <2>1 DEF Moves, Reliance, Deleting
  <2>10. \A u \in Threads : u # t => Reliance(u)'
    <3>1. \A u \in Threads : u # t =>
            /\ Deleting(u) => wr[u] \in endpoints' \ (index' \cup gcq') /\ ~Creating(wr[u])'
            /\ pc[u] \in {"alive"} \cup Swapping => wr[u] \in endpoints' \ gcq'
            /\ pc[u] \in {"alive", "naLock", "naSet"} => Born(wr[u])'
      BY <1>2, <2>6, <2>9, InHand DEF Reliance, Swapping
    <3>2. QED
      BY <1>1, <1>2, <2>1, <2>9, <3>1, OthersRely DEF OthersKept
  <2>11. Reliance(t)'
    BY <1>1, <1>2, <2>1, <2>6, <2>8, <2>9 DEF Reliance, Moves, Swapping
  <2>12. AliveInHeap'
    BY <1>2, <2>6, ListedKept DEF AliveInHeap
  <2>13. Participant'
    BY <1>1, <1>2, <2>1 DEF Participant, Moves
  <2>14. Calm
    BY <1>2, <2>6 DEF Calm, Fewer
  <2>15. Shortest' /\ Gone'
    BY <1>1, <2>1, <2>14, CalmShortest DEF Swapping
  <2>16. Supervised'
    BY <1>1, <1>2, <2>1, <2>14, CalmSupervised DEF Acting, Swapping
  <2>17. QED
    BY <2>3, <2>4, <2>5, <2>7, <2>10, <2>11, <2>12, <2>13, <2>15, <2>16
<1>5. QED
  BY <1>3, <1>4

LEMMA DeletePwrUnregisterInv ==
  ASSUME Inv, NEW t \in {"disc", "gc"}, DeletePwrUnregister(t) PROVE Inv'
<1> USE Names DEF Inv
<1>1. PICK v \in Writers : /\ v = wr[t] /\ pc[t] = "dUnreg" /\ t \in Threads /\ v \in Leases
                           /\ ret[t] = "dGc"
  BY DEF DeletePwrUnregister, Places, Threads, Leases
<1>2. Stays(t, "naLock") /\ Awake /\ Keep
  BY <1>1, ContinueGoes DEF DeletePwrUnregister, Goes, Labels
<1>3. /\ heap' = heap \ {v} /\ tsched' = [tsched EXCEPT ![v] = 0] /\ tend' = [tend EXCEPT ![v] = 0]
      /\ UNCHANGED <<qos, index, minl, pheap, top, endpoints, ppref, deleting, alive, ent, life, gcq, kids,
                     tm, rq, data, silent>>
  BY <1>1 DEF DeletePwrUnregister, Unregister
<1>4. TypeOK'
  BY <1>1, <1>2, <1>3 DEF TypeOK, Stays, Moves, Awake, Keep, Threads
<1>5. Places'
  BY <1>1, <1>2 DEF Places, Stays, Moves, Own, Threads, Swapping
<1>6. Locks'
  BY <1>1, <1>2, LocksKept DEF Stays, Swapping, Locking
<1>7. /\ \A x \in Writers : Born(x)' <=> Born(x)
      /\ \A x \in Writers : Creating(x)' <=> Creating(x)
  BY <1>1, <1>2, <1>3 DEF Born, Creating, Stays, Moves, Threads, Swapping
<1>8. \A x \in Writers : Writer(x)'
  BY <1>3, <1>7 DEF Writer
<1>9. \A u \in Threads : u # t => wr'[u] = wr[u] /\ (Deleting(u)' <=> Deleting(u))
  BY <1>2 DEF Stays, Moves, Deleting
<1>10. Deleting(t) /\ Reliance(t) /\ v \in endpoints \ (index \cup gcq) /\ ~Creating(v)
  BY <1>1 DEF Reliance, Deleting
<1>11. \A u \in Threads : u # t => Reliance(u)'
  <2>1. \A u \in Threads : u # t =>
          /\ Deleting(u) => wr[u] \in endpoints' \ (index' \cup gcq') /\ ~Creating(wr[u])'
          /\ pc[u] \in {"alive"} \cup Swapping => wr[u] \in endpoints' \ gcq'
          /\ pc[u] \in {"alive", "naLock", "naSet"} => Born(wr[u])'
          /\ Deleting(u) => wr[u] # v
    BY <1>1, <1>3, <1>7, <1>9, <1>10, InHand DEF Reliance, Swapping
  <2>2. QED
    BY <1>1, <1>2, <1>3, <2>1, OthersRely DEF OthersKept, Stays
<1>12. Reliance(t)'
  <2>1. Born(v)
    BY <1>10 DEF Writer, Born, Creating
  <2>2. QED
    BY <1>1, <1>2, <1>3, <1>7, <1>9, <1>10, <2>1 DEF Reliance, Stays, Moves, Swapping
<1>13. AliveInHeap'
  BY <1>3, <1>7, ListedKept DEF AliveInHeap
<1>14. Participant'
  <2>1. \A u \in Threads : pc'[u] = "pSnap" => pc[u] = "pSnap"
    BY <1>1, <1>2 DEF Stays, Moves
  <2>2. QED
    BY <1>3, <2>1 DEF Participant
<1>15. Calm
  BY <1>3, <1>7 DEF Calm, Fewer
<1>16. Shortest' /\ Gone'
  BY <1>1, <1>2, <1>15, CalmShortest DEF Stays, Swapping
<1>17. Supervised'
  BY <1>1, <1>2, <1>3, <1>15, CalmSupervised DEF Acting, Stays, Swapping
<1>18. QED
  BY <1>4, <1>5, <1>6, <1>8, <1>11, <1>12, <1>13, <1>14, <1>16, <1>17

LEMMA DeletePwrGcInv == ASSUME Inv, NEW t \in {"disc", "gc"}, DeletePwrGc(t) PROVE Inv'
<1> USE Names DEF Inv
<1>1. PICK v \in Writers : /\ v = wr[t] /\ pc[t] = "dGc" /\ t \in Threads /\ v \in Leases
  BY DEF DeletePwrGc, Places, Threads, Leases
<1>2. Stays(t, "next") /\ Awake /\ Keep
  BY <1>1 DEF DeletePwrGc, Goto, TypeOK, Stays, Moves, Awake, Keep, Labels
<1>3. /\ gcq' = gcq \cup {v}
      /\ UNCHANGED <<qos, index, minl, pheap, top, endpoints, ppref, deleting, alive, tend, tsched, ent, heap,
                     life, kids, tm, rq, data, silent>>
  BY <1>1 DEF DeletePwrGc
<1>4. TypeOK'
  BY <1>1, <1>2, <1>3 DEF TypeOK, Stays, Moves, Awake, Keep, Threads
<1>5. Places'
  BY <1>1, <1>2 DEF Places, Stays, Moves, Own, Threads, Swapping
<1>6. Locks'
  BY <1>1, <1>2, LocksKept DEF Stays, Swapping, Locking
<1>7. /\ \A x \in Writers : Born(x)' <=> Born(x)
      /\ \A x \in Writers : Creating(x)' <=> Creating(x)
  BY <1>1, <1>2, <1>3 DEF Born, Creating, Stays, Moves, Threads, Swapping
<1>8. Deleting(t) /\ v \in endpoints \ (index \cup gcq) /\ ~Creating(v) /\ ~alive[v]
  BY <1>1 DEF Reliance, Deleting, Places, Threads
<1>9. \A x \in Writers : Writer(x)'
  BY <1>3, <1>7, <1>8 DEF Writer
<1>10. \A u \in Threads : Reliance(u)'
  <2>1. Reliance(t)' /\ ~Deleting(t)'
    BY <1>1, <1>2, FreeRelies DEF Stays, Free
  <2>2. \A u \in Threads : u # t => wr'[u] = wr[u]
    BY <1>2 DEF Stays, Moves
  <2>3. \A u \in Threads : u # t =>
          /\ Deleting(u) => wr[u] # v
          /\ pc[u] \in {"alive"} \cup Swapping => wr[u] # v
    BY <1>1, <1>8 DEF Reliance
  <2>4. \A u \in Threads : u # t =>
          /\ Deleting(u) => wr[u] \in endpoints' \ (index' \cup gcq') /\ ~Creating(wr[u])'
          /\ pc[u] \in {"alive"} \cup Swapping => wr[u] \in endpoints' \ gcq'
          /\ pc[u] \in {"alive", "naLock", "naSet"} => Born(wr[u])'
    BY <1>3, <1>7, <2>2, <2>3, InHand DEF Reliance, Swapping
  <2>5. \A u \in Threads : u # t => Reliance(u)'
    BY <1>1, <1>2, <1>3, <2>1, <2>4, OthersRely DEF OthersKept, Stays
  <2>6. QED
    BY <2>1, <2>5
<1>11. AliveInHeap'
  BY <1>3, <1>7, ListedKept DEF AliveInHeap
<1>12. Participant'
  BY <1>1, <1>2, <1>3 DEF Participant, Stays, Moves
<1>13. Calm
  BY <1>3, <1>7 DEF Calm, Fewer
<1>14. Shortest' /\ Gone'
  BY <1>1, <1>2, <1>13, CalmShortest DEF Stays, Swapping
<1>15. Supervised'
  BY <1>1, <1>2, <1>3, <1>13, CalmSupervised DEF Acting, Stays, Swapping
<1>16. QED
  BY <1>4, <1>5, <1>6, <1>9, <1>10, <1>11, <1>12, <1>14, <1>15

LEMMA DeletePpIndexInv == ASSUME Inv, NEW t \in {"disc", "gc"}, DeletePpIndex(t) PROVE Inv'
<1> USE Names DEF Inv
<1>1. pc[t] = "pIndex" /\ t \in Threads
  BY DEF DeletePpIndex, Threads
<1>2. PICK q \in {"pSnap", "next"} : Stays(t, q) /\ Awake /\ Keep
  BY <1>1, ContinueGoes DEF DeletePpIndex, Goes, Labels
<1>3. /\ index' = index \ {PP}
      /\ UNCHANGED <<qos, minl, pheap, top, endpoints, ppref, deleting, alive, tend, tsched, ent, heap, life,
                     gcq, kids, tm, rq, data, silent>>
  BY DEF DeletePpIndex
<1>4. TypeOK'
  BY <1>1, <1>2, <1>3 DEF TypeOK, Stays, Moves, Awake, Keep, Threads
<1>5. Places'
  BY <1>1, <1>2 DEF Places, Stays, Moves, Own, Threads, Swapping
<1>6. Locks'
  BY <1>1, <1>2, LocksKept DEF Stays, Swapping, Locking
<1>7. /\ \A x \in Writers : Born(x)' <=> Born(x)
      /\ \A x \in Writers : Creating(x)' <=> Creating(x)
      /\ \A x \in Writers : x \in index' <=> x \in index
  BY <1>1, <1>2, <1>3 DEF Born, Creating, Stays, Moves, Threads, Swapping
<1>8. \A x \in Writers : Writer(x)'
  BY <1>3, <1>7 DEF Writer
<1>9. \A u \in Threads : Reliance(u)'
  <2>1. Reliance(t)' /\ ~Deleting(t)'
    BY <1>1, <1>2, FreeRelies DEF Stays, Free
  <2>2. \A u \in Threads : u # t => wr'[u] = wr[u]
    BY <1>2 DEF Stays, Moves
  <2>3. \A u \in Threads : u # t =>
          /\ Deleting(u) => wr[u] \in endpoints' \ (index' \cup gcq') /\ ~Creating(wr[u])'
          /\ pc[u] \in {"alive"} \cup Swapping => wr[u] \in endpoints' \ gcq'
          /\ pc[u] \in {"alive", "naLock", "naSet"} => Born(wr[u])'
    BY <1>3, <1>7, <2>2, InHand DEF Reliance, Swapping
  <2>4. alive' = alive /\ life' = life
    BY <1>3
  <2>5. \A u \in Threads : u # t => Reliance(u)'
    BY <1>1, <1>2, <2>1, <2>3, <2>4, OthersRely DEF OthersKept, Stays
  <2>6. QED
    BY <2>1, <2>5
<1>10. AliveInHeap'
  BY <1>3, <1>7, ListedKept DEF AliveInHeap
<1>11. Participant'
  BY <1>1, <1>2, <1>3 DEF Participant, Stays, Moves
<1>12. Calm
  BY <1>3, <1>7 DEF Calm, Fewer
<1>13. Shortest' /\ Gone'
  BY <1>1, <1>2, <1>12, CalmShortest DEF Stays, Swapping
<1>14. Supervised'
  BY <1>3 DEF Supervised
<1>15. QED
  BY <1>4, <1>5, <1>6, <1>8, <1>9, <1>10, <1>11, <1>13, <1>14

LEMMA DeletePpSnapshotInv == ASSUME Inv, NEW t \in {"disc", "gc"}, DeletePpSnapshot(t) PROVE Inv'
<1> USE Names DEF Inv
<1>1. pc[t] = "pSnap" /\ t \in Threads /\ PP \notin index
  BY DEF DeletePpSnapshot, Participant, Threads
<1>2. Stays(t, "next") /\ Awake /\ Keep
  BY <1>1, ContinueGoes DEF DeletePpSnapshot, Goes, Labels
<1>3. /\ deleting' = TRUE /\ kids' = [kids EXCEPT ![t] = endpoints \cup {PP}]
      /\ UNCHANGED <<qos, index, minl, pheap, top, endpoints, ppref, alive, tend, tsched, ent, heap, life,
                     gcq, tm, rq, data, silent>>
  BY DEF DeletePpSnapshot
<1>4. TypeOK'
  BY <1>1, <1>2, <1>3 DEF TypeOK, Stays, Moves, Awake, Keep, Threads, Entities
<1>5. Places'
  BY <1>1, <1>2 DEF Places, Stays, Moves, Own, Threads, Swapping
<1>6. Locks'
  BY <1>1, <1>2, LocksKept DEF Stays, Swapping, Locking
<1>7. /\ \A x \in Writers : Born(x)' <=> Born(x)
      /\ \A x \in Writers : Creating(x)' <=> Creating(x)
  BY <1>1, <1>2, <1>3 DEF Born, Creating, Stays, Moves, Threads, Swapping
<1>8. \A x \in Writers : Writer(x)'
  BY <1>3, <1>7 DEF Writer
<1>9. \A u \in Threads : Reliance(u)'
  <2>1. Reliance(t)' /\ ~Deleting(t)'
    BY <1>1, <1>2, FreeRelies DEF Stays, Free
  <2>2. \A u \in Threads : u # t => wr'[u] = wr[u]
    BY <1>2 DEF Stays, Moves
  <2>3. \A u \in Threads : u # t =>
          /\ Deleting(u) => wr[u] \in endpoints' \ (index' \cup gcq') /\ ~Creating(wr[u])'
          /\ pc[u] \in {"alive"} \cup Swapping => wr[u] \in endpoints' \ gcq'
          /\ pc[u] \in {"alive", "naLock", "naSet"} => Born(wr[u])'
    BY <1>3, <1>7, <2>2, InHand DEF Reliance, Swapping
  <2>4. alive' = alive /\ life' = life /\ Moves(t, "next", wr[t], lp[t], new[t], ret[t])
    BY <1>2, <1>3 DEF Stays
  <2>5. \A u \in Threads : u # t => Reliance(u)'
    <3>1. t \in Threads /\ "next" # "dGc"
      BY <1>1
    <3>2. OthersKept(t, "next", wr[t])
      BY <2>1, <2>3, <2>4 DEF OthersKept
    <3> HIDE DEF Inv
    <3>3. QED
      BY <2>4, <3>1, <3>2, OthersRely
  <2>6. QED
    BY <2>1, <2>5
<1>10. AliveInHeap'
  BY <1>3, <1>7, ListedKept DEF AliveInHeap
<1>11. Participant'
  BY <1>1, <1>2, <1>3 DEF Participant, Stays, Moves
<1>12. Calm
  BY <1>3, <1>7 DEF Calm, Fewer
<1>13. Shortest' /\ Gone'
  BY <1>1, <1>2, <1>12, CalmShortest DEF Stays, Swapping
<1>14. Supervised'
  BY <1>1, <1>3 DEF Supervised
<1>15. QED
  BY <1>4, <1>5, <1>6, <1>8, <1>9, <1>10, <1>11, <1>13, <1>14

LEMMA DeleteNextInv == ASSUME Inv, NEW t \in {"disc", "gc"}, DeleteNext(t) PROVE Inv'
<1> USE Names DEF Inv
<1>1. pc[t] = "next" /\ t \in Threads
  BY DEF DeleteNext, Threads
<1>2. UNCHANGED <<qos, index, minl, pheap, top, endpoints, ppref, deleting, alive, tend, tsched, ent, heap,
                  life, tm, rq, data, silent>>
  BY DEF DeleteNext
<1>3. CASE Continue(t, "done", FALSE) /\ UNCHANGED <<kids, gcq>>
  <2>1. Leaves(t) /\ Awake /\ Keep
    BY <1>1, <1>3, ContinueGoes DEF Goes
  <2>2. Quiet
    BY <1>2, <1>3 DEF Quiet, TypeOK
  <2>3. Clocks
    BY <1>1, <1>2, <2>1 DEF TypeOK, Clocks, Leaves, Moves, Threads
  <2>4. Places'
    BY <1>1, <2>1 DEF Places, Leaves, Moves, Own, Threads, Swapping
  <2>5. Locks' /\ LocksTyped
    BY <1>1, <2>1, LocksKept DEF Leaves, Swapping, Locking
  <2>6. QED
    BY <1>1, <2>1, <2>2, <2>3, <2>4, <2>5, QuietInv DEF Acting, Leaves, Free, Aside, Labels,
        Swapping
<1>4. ASSUME NEW v \in kids[t] \ {PP}, kids' = [kids EXCEPT ![t] = @ \ {v}],
             wr' = [wr EXCEPT ![t] = v], Goto(t, "dIndex"),
             UNCHANGED <<gcq, blk, awake, lp, new, ret, wlock, plock>>
      PROVE  Inv'
  <2>1. v \in Writers
    BY <1>1 DEF TypeOK, Entities
  <2>2. Moves(t, "dIndex", v, lp[t], new[t], ret[t]) /\ Awake /\ Keep
    BY <1>1, <1>4, <2>1 DEF TypeOK, Goto, Moves, Awake, Keep, Labels, Entities
  <2>3. Quiet
    BY <1>1, <1>2, <1>4 DEF Quiet, TypeOK
  <2>4. Clocks
    BY <1>1, <1>2, <2>2 DEF TypeOK, Clocks, Moves, Threads
  <2>5. Places'
    BY <1>1, <2>1, <2>2 DEF Places, Moves, Own, Threads, Swapping
  <2>6. Locks' /\ LocksTyped
    BY <1>1, <2>2, LocksKept DEF Swapping, Locking
  <2>7. QED
    BY <1>1, <2>2, <2>3, <2>4, <2>5, <2>6, QuietInv DEF Acting, Free, Aside, Labels, Swapping
<1>5. CASE /\ kids[t] = {PP} /\ kids' = [kids EXCEPT ![t] = {}]
           /\ gcq' = gcq \cup {PP} /\ blk' = [blk EXCEPT ![PP] = awake]
           /\ UNCHANGED <<pc, awake, wr, lp, new, ret, wlock, plock>>
  <2>1. Stays(t, "next") /\ Awake /\ Keep
    BY <1>1, <1>5 DEF TypeOK, Stays, Moves, Awake, Keep
  <2>2. TypeOK'
    BY <1>1, <1>2, <1>5 DEF TypeOK, Leases
  <2>3. Places' /\ Locks'
    BY <1>5 DEF Places, Locks
  <2>4. /\ \A x \in Writers : Born(x)' <=> Born(x)
        /\ \A x \in Writers : Creating(x)' <=> Creating(x)
        /\ \A x \in Writers : x \in gcq' <=> x \in gcq
    BY <1>2, <1>5 DEF Born, Creating
  <2>5. \A x \in Writers : Writer(x)'
    BY <1>2, <2>4 DEF Writer
  <2>6. \A u \in Threads : Reliance(u)'
    <3>1. Reliance(t)' /\ ~Deleting(t)'
      BY <1>1, <2>1, FreeRelies DEF Stays, Free
    <3>2. \A u \in Threads : u # t =>
            /\ Deleting(u) => wr[u] \in endpoints' \ (index' \cup gcq') /\ ~Creating(wr[u])'
            /\ pc[u] \in {"alive"} \cup Swapping => wr[u] \in endpoints' \ gcq'
            /\ pc[u] \in {"alive", "naLock", "naSet"} => Born(wr[u])'
      BY <1>2, <1>5, <2>4, InHand DEF Reliance, Swapping
    <3>3. \A u \in Threads : u # t => Reliance(u)'
      BY <1>1, <1>2, <2>1, <3>1, <3>2, OthersRely DEF OthersKept, Stays
    <3>4. QED
      BY <3>1, <3>3
  <2>7. AliveInHeap'
    BY <1>2, <2>4, ListedKept DEF AliveInHeap
  <2>8. Participant'
    BY <1>1, <1>2, <1>5 DEF Participant, TypeOK
  <2>9. Calm
    BY <1>2, <1>5, <2>4 DEF Calm, Fewer
  <2>10. Shortest' /\ Gone'
    BY <1>1, <2>1, <2>9, CalmShortest DEF Stays, Swapping
  <2>11. Supervised'
    BY <1>1, <1>2, <2>1, <2>9, CalmSupervised DEF Acting, Stays, Swapping
  <2>12. QED
    BY <2>2, <2>3, <2>5, <2>6, <2>7, <2>8, <2>10, <2>11
<1>6. QED
  BY <1>3, <1>4, <1>5 DEF DeleteNext

-----------------------------------------------------------------------------
(* Loss of liveliness *)

\* While the participant is known, minl_auto is a clone of one of its leases.
LEMMA AutoIsMin ==
  ASSUME Inv, Tops, PP \in index, \A t \in Threads : ~Swaps(t, "auto")
  PROVE  /\ life[PP] = "live" /\ IsMin("auto", minl["auto"])
         /\ ent[minl["auto"]] = top["auto"] /\ ent[minl["auto"]] \in pheap["auto"]
<1>1. life[PP] = "live" /\ pheap["auto"] # {} /\ pheap["auto"] \in SUBSET Entities
  BY DEF Inv, Participant, TypeOK, Heaps, Leases
<1>2. IsMin("auto", minl["auto"])
  BY <1>1 DEF Inv, Shortest, Heaps
<1>3. QED
  BY <1>1, <1>2, TopAmong DEF IsMin, Among, Heaps

LEMMA LockNotAliveInv == ASSUME Inv, Tops, NEW t \in {"disc", "gc"}, LockNotAlive(t) PROVE Inv'
<1> USE Names DEF Inv
<1>1. PICK v \in Writers : v = wr[t] /\ pc[t] = "naLock" /\ t \in Threads /\ wlock[v] = None
  BY DEF LockNotAlive, Places, Threads
<1>2. Quiet /\ UNCHANGED <<tend, tsched, tm, rq, data, silent>>
  BY DEF LockNotAlive, Quiet, TypeOK
<1>3. Reliance(t) /\ Born(v)
  BY <1>1 DEF Reliance
<1>4. CASE alive[v]
  <2>0. /\ pc' = [pc EXCEPT ![t] = "naSet"] /\ wlock' = [wlock EXCEPT ![v] = t]
        /\ UNCHANGED <<awake, blk, wr, lp, new, ret, plock>>
    BY <1>1, <1>4 DEF LockNotAlive, Goto
  <2>1. Stays(t, "naSet") /\ Awake /\ Take(t, v)
    BY <1>1, <2>0 DEF TypeOK, Stays, Moves, Awake, Take, Labels
  <2>2. Clocks
    BY <1>1, <1>2, <2>1 DEF TypeOK, Clocks, Stays, Moves, Threads
  <2>3. Places'
    BY <1>1, <2>1 DEF Places, Stays, Moves, Own, Threads, Swapping
  <2>4. Locks' /\ LocksTyped
    BY <1>1, <2>1, LocksTaken DEF Stays, Swapping
  <2>5. TypeOK'
    BY <1>2, <2>1, <2>2, <2>4, QuietTypeOK DEF Stays
  <2>6. /\ \A x \in Writers : Born(x)' <=> Born(x)
        /\ \A x \in Writers : Creating(x)' <=> Creating(x)
        /\ \A x \in Writers : Writer(x)'
        /\ AliveInHeap'
    BY <1>1, <1>2, <2>1, QuietWriters DEF Stays, Aside, Labels, Swapping
  <2>7. Participant' /\ Shortest' /\ Gone'
    BY <1>1, <1>2, <2>1, QuietLeases DEF Stays, Aside, Labels, Swapping
  <2>8. (Deleting(t)' <=> Deleting(t)) /\ (\A u \in Threads : u # t => wr'[u] = wr[u] /\ (Deleting(u)' <=> Deleting(u)))
    BY <1>1, <2>1 DEF Deleting, Stays, Moves, Swapping
  <2>9. \A u \in Threads : u # t => Reliance(u)'
    BY <1>1, <1>2, <1>3, <2>1, <2>8, QuietOthers DEF Reliance, Stays, Aside, Labels, Swapping
  <2>10. Reliance(t)'
    BY <1>1, <1>2, <1>3, <1>4, <2>1, <2>6, <2>8 DEF Reliance, Quiet, Stays, Moves, Swapping
  <2>11. Supervised'
    <3>1. \A u \in Threads, h \in Heaps : Swaps(u, h)' <=> Swaps(u, h)
      BY <1>1, <1>2, <2>1 DEF Quiet, Swaps, Stays, Moves, Swapping
    <3>2. QED
      BY <1>1, <1>2, <2>1, <3>1 DEF Supervised, Quiet, Stays, Moves, Threads, Heaps
  <2>12. QED
    BY <2>3, <2>4, <2>5, <2>6, <2>7, <2>9, <2>10, <2>11
<1>5. CASE ~alive[v]
  <2>0. Continue(t, ret[t], FALSE) /\ ret[t] \in Labels \cup {"done"}
    <3>1. ret[t] \in {"done", "dGc"}
      BY <1>1 DEF TypeOK, Places, Threads
    <3>2. QED
      BY <1>1, <1>5, <3>1 DEF LockNotAlive, Labels
  <2>1. Goes(t, ret[t]) /\ Awake /\ Keep
    BY <1>1, <2>0, ContinueGoes
  <2>2. PICK q, w, l, n, r :
          /\ q \in {"idle", "dGc"} /\ Moves(t, q, w, l, n, r)
          /\ q = "dGc" => w = v /\ ret[t] = "dGc" /\ r = "dGc"
          /\ q = "idle" => r = "done"
    BY <1>1, <2>1 DEF Goes, Leaves, Stays, TypeOK, Places, Threads
  <2>3. Clocks
    BY <1>1, <1>2, <2>2 DEF TypeOK, Clocks, Moves, Threads
  <2>4. Places'
    BY <1>1, <2>2 DEF Places, Moves, Own, Threads, Swapping
  <2>5. Locks' /\ LocksTyped
    BY <1>1, <2>1, <2>2, LocksKept DEF Swapping, Locking
  <2>6. TypeOK'
    BY <1>2, <2>1, <2>2, <2>3, <2>5, QuietTypeOK
  <2>7. /\ \A x \in Writers : Born(x)' <=> Born(x)
        /\ \A x \in Writers : Creating(x)' <=> Creating(x)
        /\ \A x \in Writers : Writer(x)'
        /\ AliveInHeap'
    BY <1>1, <1>2, <2>2, QuietWriters DEF Aside, Labels, Swapping
  <2>8. Participant' /\ Shortest' /\ Gone'
    BY <1>1, <1>2, <2>2, QuietLeases DEF Aside, Labels, Swapping
  <2>9. Supervised'
    <3>1. \A u \in Threads, h \in Heaps : Swaps(u, h)' <=> Swaps(u, h)
      BY <1>1, <1>2, <2>2 DEF Quiet, Swaps, Moves, Swapping
    <3>2. ASSUME PP \in index, \A u \in Threads : ~Swaps(u, "auto"), t = "gc"
          PROVE  wr[t] # ent[minl["auto"]]
      BY <1>1, <1>5, <3>2, AutoIsMin DEF AliveInHeap, Listed, Heaps
    <3>3. QED
      BY <1>1, <1>2, <2>2, <3>1, <3>2 DEF Supervised, Quiet, Moves, Threads, Heaps
  <2>10. CASE q = "idle"
    <3>1. \A u \in Threads : Reliance(u)'
      BY <1>1, <1>2, <2>2, <2>10, QuietDeletions DEF Free, Aside, Labels, Swapping
    <3>2. QED
      BY <2>4, <2>5, <2>6, <2>7, <2>8, <2>9, <3>1
  <2>11. CASE q = "dGc"
    <3>1. Deleting(t) /\ (\A u \in Threads : u # t => wr'[u] = wr[u] /\ (Deleting(u)' <=> Deleting(u)))
      BY <1>1, <2>2, <2>11 DEF Deleting, Moves, Swapping
    <3>2. \A u \in Threads : u # t /\ pc[u] \in {"alive"} \cup Swapping => wr[u] # v
      <4>1. ~Creating(v)
        BY <1>1, <1>3, <3>1 DEF Reliance
      <4>2. ASSUME NEW u \in Threads, pc[u] \in {"alive"} \cup Swapping, wr[u] = v PROVE FALSE
        <5>1. wlock[wr[u]] # u
          BY <1>1, <4>2
        <5>2. pc[u] \in Swapping /\ ret[u] = "nInsert"
          BY <4>2, <5>1 DEF Locks
        <5>3. u = "disc"
          BY <5>2 DEF Places, Threads
        <5>4. QED
          BY <4>1, <4>2, <5>2, <5>3 DEF Creating
      <4>3. QED
        BY <4>2
    <3>3. \A u \in Threads : u # t => Reliance(u)'
      BY <1>1, <1>2, <1>3, <2>2, <2>11, <3>1, <3>2, QuietOthers DEF Reliance, Aside, Labels,
          Swapping
    <3>4. Reliance(t)'
      BY <1>1, <1>2, <1>3, <1>5, <2>2, <2>7, <2>11, <3>1 DEF Reliance, Quiet, Moves, Swapping
    <3>5. QED
      BY <2>4, <2>5, <2>6, <2>7, <2>8, <2>9, <3>3, <3>4
  <2>12. QED
    BY <2>2, <2>10, <2>11
<1>6. QED
  BY <1>4, <1>5

-----------------------------------------------------------------------------
(* The gc thread *)

LEMMA ExpireInv == ASSUME Inv, Expire PROVE Inv'
<1> USE Names DEF Inv
<1>1. pc["gc"] = "idle" /\ "gc" \in Threads
  BY DEF Expire, Threads
<1>2. UNCHANGED <<qos, index, minl, pheap, top, endpoints, ppref, deleting, alive, ent, life, gcq, blk, wr,
                  new, kids, ret, tm, rq, data, wlock, plock, silent>>
  BY DEF Expire
<1>3. ASSUME NEW l \in heap, tsched' = [tsched EXCEPT ![l] = tend[l]],
             UNCHANGED <<heap, tend, pc, awake, lp>>
      PROVE  Inv'
  <2>1. Quiet
    BY <1>2, <1>3 DEF Quiet, TypeOK
  <2>2. Clocks
    BY <1>2, <1>3 DEF TypeOK, Clocks
  <2>3. QED
    BY <1>2, <1>3, <2>1, <2>2, StillInv
<1>4. ASSUME NEW l \in heap, Unregister(l), awake' = awake \cup {"gc"},
             lp' = [lp EXCEPT !["gc"] = l], Goto("gc", "act")
      PROVE  Inv'
  <2>1. /\ heap' = heap \ {l} /\ tsched' = [tsched EXCEPT ![l] = 0] /\ tend' = [tend EXCEPT ![l] = 0]
        /\ pc' = [pc EXCEPT !["gc"] = "act"] /\ l \in Leases
    BY <1>4 DEF Unregister, Goto, TypeOK
  <2>2. Moves("gc", "act", wr["gc"], l, new["gc"], ret["gc"])
    BY <1>1, <1>2, <1>4, <2>1 DEF TypeOK, Moves, Labels
  <2>3. Awake /\ Keep
    BY <1>1, <1>2, <1>4 DEF TypeOK, Awake, Keep
  <2>4. TypeOK'
    BY <1>2, <2>1, <2>2, <2>3 DEF TypeOK, Moves, Awake, Threads
  <2>5. Places'
    BY <1>1, <2>2 DEF Places, Moves, Own, Threads, Swapping
  <2>6. Locks'
    BY <1>1, <2>2, <2>3, LocksKept DEF Swapping, Locking
  <2>7. /\ \A x \in Writers : Born(x)' <=> Born(x)
        /\ \A x \in Writers : Creating(x)' <=> Creating(x)
    BY <1>1, <1>2, <2>2 DEF Born, Creating, Moves, Threads, Swapping
  <2>8. \A x \in Writers : Writer(x)'
    BY <1>2, <2>1, <2>7 DEF Writer
  <2>9. \A u \in Threads : Reliance(u)'
    <3>1. Reliance("gc")' /\ ~Deleting("gc")'
      BY <1>1, <2>2, FreeRelies DEF Free
    <3>2. \A u \in Threads : u # "gc" => wr'[u] = wr[u]
      BY <2>2 DEF Moves
    <3>3. \A u \in Threads : u # "gc" =>
            /\ Deleting(u) => wr[u] \in endpoints' \ (index' \cup gcq') /\ ~Creating(wr[u])'
            /\ pc[u] \in {"alive"} \cup Swapping => wr[u] \in endpoints' \ gcq'
            /\ pc[u] \in {"alive", "naLock", "naSet"} => Born(wr[u])'
      BY <1>2, <2>7, <3>2, InHand DEF Reliance, Swapping
    <3>4. alive' = alive /\ life' = life
      BY <1>2
    <3>5. \A u \in Threads : u # "gc" => Reliance(u)'
      <4> HIDE DEF Inv
      <4> QED
        BY <1>1, <2>2, <3>1, <3>3, <3>4, OthersRely DEF OthersKept
    <3>6. QED
      BY <3>1, <3>5
  <2>10. AliveInHeap'
    BY <1>2, <2>7, ListedKept DEF AliveInHeap
  <2>11. Participant'
    BY <1>1, <1>2, <2>1, <2>2 DEF Participant, Moves
  <2>12. Fewer
    BY <1>2, <2>1, <2>7 DEF Fewer
  <2>13. /\ l \notin {None, PP} /\ (l \in Clones => life[l] = "live")
         /\ l \in Writers => Born(l)
    BY <1>4, <2>1 DEF Leases, Participant, Shortest, Clone, Writer
  <2>14. Shortest' /\ Gone'
    BY <1>1, <2>2, <2>12, <2>13, FewerShortest DEF Swapping
  <2>15. Supervised'
    <3>1. \A u \in Threads, h \in Heaps : Swaps(u, h)' <=> Swaps(u, h)
      BY <1>1, <1>2, <2>2 DEF Swaps, Moves, Swapping
    <3>2. QED
      BY <1>1, <1>2, <2>1, <2>2, <3>1 DEF Supervised, Moves, Threads, Heaps
  <2>16. QED
    BY <2>4, <2>5, <2>6, <2>8, <2>9, <2>10, <2>11, <2>14, <2>15
<1>5. QED
  BY <1>3, <1>4 DEF Expire

LEMMA ExpireActInv == ASSUME Inv, ExpireAct PROVE Inv'
<1> USE Names DEF Inv
<1>1. PICK e \in Entities : /\ e = ent[lp["gc"]] /\ pc["gc"] = "act" /\ "gc" \in Threads
                           /\ lp["gc"] \in Leases /\ (e \in Writers => Born(e))
  <2>1. pc["gc"] = "act" /\ lp["gc"] \in Leases \ {PP}
    BY DEF ExpireAct, TypeOK, Shortest, Threads
  <2>2. ent[lp["gc"]] \in Entities /\ (ent[lp["gc"]] \in Writers => Born(ent[lp["gc"]]))
    BY <2>1 DEF TypeOK, Shortest, Clone, Leases, Entities, Writer
  <2>3. QED
    BY <2>1, <2>2 DEF Threads
<1>2. PICK q \in {"pIndex", "naLock"} : pc' = [pc EXCEPT !["gc"] = q] /\ (q = "naLock" => e \in Writers)
  BY <1>1 DEF ExpireAct, Goto, Entities
<1>3. wr' = [wr EXCEPT !["gc"] = e] /\ lp' = [lp EXCEPT !["gc"] = None] /\ UNCHANGED <<new, ret>>
  BY <1>1 DEF ExpireAct
<1>4. Moves("gc", q, e, None, new["gc"], ret["gc"])
  BY <1>1, <1>2, <1>3 DEF TypeOK, Moves, Labels
<1>5. Quiet /\ Awake /\ Keep /\ UNCHANGED <<tend, tsched, tm, rq, data, silent>>
  BY DEF ExpireAct, TypeOK, Quiet, Awake, Keep
<1>6. Clocks
  BY <1>1, <1>4, <1>5 DEF TypeOK, Clocks, Moves, Threads
<1>7. Places'
  BY <1>1, <1>2, <1>4 DEF Places, Moves, Own, Threads, Swapping
<1>8. Locks' /\ LocksTyped
  BY <1>1, <1>4, <1>5, LocksKept DEF Swapping, Locking
<1>9. TypeOK'
  BY <1>4, <1>5, <1>6, <1>8, QuietTypeOK
<1>10. /\ \A x \in Writers : Born(x)' <=> Born(x)
       /\ \A x \in Writers : Creating(x)' <=> Creating(x)
       /\ \A x \in Writers : Writer(x)'
       /\ AliveInHeap'
  BY <1>1, <1>4, <1>5, QuietWriters DEF Aside, Labels, Swapping
<1>11. Participant' /\ Shortest' /\ Gone'
  BY <1>1, <1>4, <1>5, QuietLeases DEF Aside, Labels, Swapping
<1>12. Supervised'
  <2>1. \A u \in Threads, h \in Heaps : Swaps(u, h)' <=> Swaps(u, h)
    BY <1>1, <1>4, <1>5 DEF Quiet, Swaps, Moves, Swapping
  <2>2. QED
    BY <1>1, <1>4, <1>5, <2>1 DEF Supervised, Quiet, Moves, Threads, Heaps
<1>13. ret["gc"] = "done"
  BY <1>1 DEF Places
<1>14. ~Deleting("gc")' /\ q # "dGc"
  BY <1>1, <1>4, <1>13 DEF Deleting, Moves, Swapping
<1>15. \A u \in Threads : u # "gc" => Reliance(u)'
  BY <1>1, <1>4, <1>5, <1>14, QuietOthers DEF Aside, Labels, Swapping
<1>16. Reliance("gc")'
  BY <1>1, <1>2, <1>4, <1>10, <1>13, <1>14 DEF Reliance, Moves, Swapping
<1>17. QED
  BY <1>7, <1>8, <1>9, <1>10, <1>11, <1>12, <1>15, <1>16

-----------------------------------------------------------------------------
(* proxy_participant_replace_minl *)

\* The thread that replaces a clone is the only one, and the participant exists.
LEMMA OnlySwap ==
  ASSUME Inv, NEW t \in Threads, pc[t] \in Swapping
  PROVE  /\ \A u \in Threads : pc[u] \in Swapping => u = t
         /\ wr[t] \in Writers /\ life[PP] = "live"
<1>1. \A u \in Threads : pc[u] \in Swapping => u = t
  BY DEF Inv, Locks
<1>2. wr[t] \in Writers /\ wr[t] \in endpoints
  BY DEF Inv, Reliance, Places, Swapping
<1>3. life[PP] = "live"
  BY <1>2 DEF Inv, Participant, TypeOK, Leases
<1>4. QED
  BY <1>1, <1>2, <1>3

LEMMA RetireInv == ASSUME Inv, NEW t \in Threads, Retire(t) PROVE Inv'
<1> USE Names DEF Inv
<1>1. pc[t] = "retire" /\ pc[t] \in Swapping
  BY DEF Retire, Swapping
<1>2. PICK g \in Heaps : Swap(t, g)
  BY <1>1 DEF Shortest
<1>3. PICK k \in Clones : k = lp[t] /\ k = minl[g] /\ k \in Leases /\ life[k] = "live" /\ k \notin gcq
  BY <1>1, <1>2 DEF Swap, TypeOK, Leases
<1>4. /\ heap' = heap \ {k} /\ tsched' = [tsched EXCEPT ![k] = 0] /\ tend' = [tend EXCEPT ![k] = 0]
      /\ gcq' = gcq \cup {k} /\ blk' = [blk EXCEPT ![k] = awake]
      /\ pc' = [pc EXCEPT ![t] = "replace"]
      /\ UNCHANGED <<qos, index, minl, pheap, top, endpoints, ppref, deleting, alive, ent, life, awake, wr, lp,
                     new, kids, ret, tm, rq, data, wlock, plock, silent>>
  BY <1>3 DEF Retire, Unregister, Goto
<1>5. Stays(t, "replace")
  BY <1>4 DEF TypeOK, Stays, Moves, Labels
<1>6. TypeOK'
  BY <1>1, <1>3, <1>4, <1>5 DEF TypeOK, Stays, Moves, Threads
<1>7. Places'
  BY <1>1, <1>5 DEF Places, Stays, Moves, Own, Threads, Swapping
<1>8. Locks'
  BY <1>1, <1>4, <1>5 DEF Locks, Stays, Moves, Swapping
<1>9. /\ \A x \in Writers : Born(x)' <=> Born(x)
      /\ \A x \in Writers : Creating(x)' <=> Creating(x)
      /\ \A x \in Writers : (x \in gcq' <=> x \in gcq) /\ (x \in heap' <=> x \in heap)
      /\ \A u \in Threads : Deleting(u)' <=> Deleting(u)
  BY <1>1, <1>3, <1>4, <1>5 DEF Born, Creating, Deleting, Stays, Moves, Threads, Swapping
<1>10. \A x \in Writers : Writer(x)'
  BY <1>4, <1>9 DEF Writer
<1>11. \A u \in Threads : Reliance(u)'
  <2>1. \A u \in Threads : wr'[u] = wr[u] /\ ret'[u] = ret[u]
    BY <1>4
  <2>2. \A u \in Threads : u # t =>
          /\ Deleting(u) => wr[u] \in endpoints' \ (index' \cup gcq') /\ ~Creating(wr[u])'
          /\ pc[u] \in {"alive"} \cup Swapping => wr[u] \in endpoints' \ gcq'
          /\ pc[u] \in {"alive", "naLock", "naSet"} => Born(wr[u])'
          /\ Deleting(t)' /\ Deleting(u) => wr[u] # wr[t]
    BY <1>4, <1>9, <2>1, InHand DEF Reliance, Swapping
  <2>3. alive' = alive /\ life' = life /\ Moves(t, "replace", wr[t], lp[t], new[t], ret[t])
    BY <1>4, <1>5 DEF Stays
  <2>4. \A u \in Threads : u # t => Reliance(u)'
    <3> HIDE DEF Inv
    <3> QED
      BY <2>2, <2>3, OthersRely DEF OthersKept
  <2>5. Reliance(t)'
    <3>1. wr[t] \in Writers
      BY <1>1, InHand DEF Swapping
    <3>2. \A u \in Threads : pc'[u] = "dGc" <=> pc[u] = "dGc"
      BY <1>1, <1>5 DEF Stays, Moves
    <3>3. QED
      BY <1>1, <1>4, <1>5, <1>9, <2>1, <3>1, <3>2 DEF Reliance, Stays, Moves, Swapping
  <2>6. QED
    BY <2>4, <2>5
<1>12. AliveInHeap'
  BY <1>4, <1>9, ListedKept DEF AliveInHeap
<1>13. Participant'
  BY <1>1, <1>3, <1>4, <1>5 DEF Participant, Stays, Moves
<1>15. \A h \in Heaps, c \in Clones \cup {None} : IsMin(h, c)' <=> IsMin(h, c)
  BY <1>4 DEF IsMin
<1>16. \A u \in Threads, h \in Heaps : Swaps(u, h)' <=> Swaps(u, h)
  BY <1>1, <1>4, <1>5 DEF Swaps, Stays, Moves, Swapping
<1>17. ASSUME NEW c \in Clones PROVE Clone(c)'
  <2>1. Clone(c)
    BY DEF Shortest
  <2>2. \A u \in Threads : pc[u] = "replace" => pc'[u] = "replace"
    BY <1>1, <1>5 DEF Stays, Moves
  <2>3. pc'[t] = "replace"
    BY <1>5 DEF Stays, Moves
  <2>4. QED
    BY <1>3, <1>4, <1>9, <2>1, <2>2, <2>3 DEF Clone
<1>18. Swap(t, g)'
  <2>1. new[t] \in Clones \cup {None}
    BY DEF TypeOK
  <2>2. IsMin(g, new[t])'
    BY <1>2, <1>4, <1>15, <2>1 DEF Swap, IsMin
  <2>3. pc'[t] = "replace"
    BY <1>5 DEF Stays, Moves
  <2>4. QED
    BY <1>2, <1>3, <1>4, <2>2, <2>3 DEF Swap
<1>19. Shortest'
  <2>1. \A u \in Threads : pc'[u] \in Swapping => u = t
    BY <1>1, <1>5, OnlySwap DEF Stays, Moves
  <2>2. life[PP] = "live" =>
          \A h \in Heaps : (\A u \in Threads : ~Swaps(u, h)') => IsMin(h, minl[h])'
    <3>1. \A h \in Heaps : IsMin(h, minl[h]) <=> IsMin(h, minl[h])'
      BY <1>4, <1>15 DEF TypeOK, IsMin
    <3>2. QED
      BY <1>16, <3>1 DEF Shortest
  <2>3. pc'["gc"] = "act" => pc["gc"] = "act"
    BY <1>1, <1>5 DEF Stays, Moves, Threads
  <2>4. QED
    BY <1>4, <1>17, <1>18, <2>1, <2>2, <2>3 DEF Shortest, Born
<1>20. Gone'
  BY <1>4 DEF Gone
<1>21. Supervised'
  <2>1. ASSUME \A u \in Threads : ~Swaps(u, "auto") PROVE minl["auto"] # k
    BY <1>1, <1>3, <2>1 DEF Swaps
  <2>2. pc'["gc"] = pc["gc"] \/ ("gc" = t /\ pc["gc"] = "retire")
    BY <1>1, <1>5 DEF Stays, Moves, Threads
  <2>3. QED
    BY <1>4, <1>16, <2>1, <2>2 DEF Supervised, Heaps
<1>22. QED
  BY <1>6, <1>7, <1>8, <1>10, <1>11, <1>12, <1>13, <1>19, <1>20, <1>21

\* Where a thread goes on: at next, or at the end of what it was doing.
GoesOn(t, next, q, w, r) ==
  \/ q = "idle" /\ next = "done" /\ r = "done"
  \/ q = next /\ next # "done" /\ w = wr[t] /\ r = ret[t]

LEMMA GoesMoves ==
  ASSUME NEW t, NEW next, Goes(t, next)
  PROVE  \E q, w, l, n, r : Moves(t, q, w, l, n, r) /\ GoesOn(t, next, q, w, r)
  BY DEF Goes, Leaves, Stays, GoesOn

LEMMA ReplaceInv == ASSUME Inv, NEW t \in Threads, Replace(t) PROVE Inv'
<1> USE Names DEF Inv
<1>1. pc[t] = "replace" /\ pc[t] \in Swapping
  BY DEF Replace, Swapping
<1>2. PICK g \in Heaps : Swap(t, g)
  BY <1>1 DEF Shortest
<1>3. PICK k \in Clones : k = lp[t] /\ k = minl[g] /\ k \notin heap
  BY <1>1, <1>2 DEF Swap, TypeOK
<1>4. PICK c \in Clones \cup {None} : c = new[t]
  BY DEF TypeOK
<1>5. /\ IsMin(g, c)
      /\ c # None => c \in Leases /\ c \notin heap \cup gcq /\ life[c] = "live"
      /\ c # None => \A h \in Heaps : c # minl[h]
  BY <1>2, <1>4 DEF Swap, IsMin, Leases
<1>6. life[PP] = "live" /\ wr[t] \in Writers /\ \A u \in Threads : pc[u] \in Swapping => u = t
  BY <1>1, OnlySwap
<1>7. /\ minl' = [h \in Heaps |-> IF minl[h] = k THEN c ELSE minl[h]]
      /\ heap' = IF c = None THEN heap ELSE heap \cup {c}
      /\ UNCHANGED <<qos, index, pheap, top, endpoints, ppref, deleting, alive, tend, ent, life, gcq, kids, tm,
                     rq, data, silent>>
  BY <1>3, <1>4 DEF Replace, TypeOK
<1>8. tsched' \in [Leases -> Int]
  BY <1>4, <1>5 DEF Replace, TypeOK
<1>9. Continue(t, ret[t], TRUE) /\ ret[t] \in Labels \cup {"done"}
  BY DEF Replace, TypeOK, Labels
<1>10. Goes(t, ret[t]) /\ Awake /\ Release(t)
  BY <1>9, ContinueGoes
<1>11. PICK q, w, l, n, r : Moves(t, q, w, l, n, r) /\ GoesOn(t, ret[t], q, w, r)
  BY <1>10, GoesMoves
<1>12. q \in {"idle", "dGc", "nInsert"}
  BY <1>11 DEF GoesOn, TypeOK
<1>13. Locks' /\ LocksTyped
  BY <1>10, <1>11, <1>12, LocksReleased DEF Locking, Swapping
<1>14. minl' \in [Heaps -> Clones \cup {None}] /\ heap' \subseteq Leases
  BY <1>4, <1>5, <1>7 DEF TypeOK
<1>15. TypeOK'
  BY <1>7, <1>8, <1>10, <1>11, <1>12, <1>13, <1>14, <1>1 DEF TypeOK, Moves, Awake, LocksTyped,
      Threads
<1>16. Places'
  BY <1>1, <1>6, <1>11, <1>12 DEF Places, Moves, GoesOn, Own, Threads, Swapping
<1>17. /\ \A x \in Writers : Born(x)' <=> Born(x)
       /\ \A x \in Writers : Creating(x)' <=> Creating(x)
       /\ \A x \in Writers : x \in heap' <=> x \in heap
       /\ \A u \in Threads : Deleting(u)' <=> Deleting(u)
  <2>1. \A x \in Writers : Born(x)' <=> Born(x)
    BY <1>1, <1>7, <1>11, <1>12 DEF Born, Moves, Threads
  <2>2. \A x \in Writers : Creating(x)' <=> Creating(x)
    BY <1>1, <1>11, <1>12 DEF Creating, GoesOn, Moves, Threads, Swapping
  <2>3. \A u \in Threads : Deleting(u)' <=> Deleting(u)
    BY <1>1, <1>11, <1>12 DEF Deleting, GoesOn, Moves, Swapping
  <2>4. QED
    BY <1>7, <2>1, <2>2, <2>3
<1>18. \A x \in Writers : Writer(x)'
  BY <1>7, <1>17 DEF Writer
<1>19. \A u \in Threads : Reliance(u)'
  <2>1. \A u \in Threads : u # t => wr'[u] = wr[u]
    BY <1>11 DEF Moves
  <2>2. Deleting(t)' => w = wr[t] /\ r = "dGc" /\ ret[t] = "dGc"
    BY <1>1, <1>11, <1>12 DEF Deleting, GoesOn, Moves, Swapping
  <2>3. q = "dGc" => /\ w = wr[t] /\ ret[t] = "dGc" /\ Deleting(t)
                     /\ \A u \in Threads : u # t /\ pc[u] \in {"alive"} \cup Swapping => wr[u] # w
    <3>1. q = "dGc" => w = wr[t] /\ ret[t] = "dGc" /\ wlock[wr[t]] = t /\ Deleting(t)
      BY <1>1, <1>11 DEF GoesOn, Locks, Deleting
    <3>2. \A u \in Threads : u # t /\ pc[u] \in {"alive"} \cup Swapping => wlock[wr[u]] = u
      BY <1>6 DEF Locks
    <3>3. QED
      BY <3>1, <3>2
  <2>4. \A u \in Threads : u # t =>
          /\ Deleting(u) => wr[u] \in endpoints' \ (index' \cup gcq') /\ ~Creating(wr[u])'
          /\ pc[u] \in {"alive"} \cup Swapping => wr[u] \in endpoints' \ gcq'
          /\ pc[u] \in {"alive", "naLock", "naSet"} => Born(wr[u])'
          /\ Deleting(t)' /\ Deleting(u) => wr[u] # w
    BY <1>7, <1>17, <2>1, <2>2, InHand DEF Reliance, Swapping
  <2>5. alive' = alive /\ life' = life
    BY <1>7
  <2>6. \A u \in Threads : u # t => Reliance(u)'
    <3> HIDE DEF Inv
    <3> QED
      BY <1>11, <2>3, <2>4, <2>5, OthersRely DEF OthersKept
  <2>7. Reliance(t)'
    <3>1. CASE q # "dGc"
      BY <1>11, <1>12, <3>1, FreeRelies DEF Free
    <3>2. CASE q = "dGc"
      <4>1. /\ wr'[t] = wr[t] /\ pc'[t] = "dGc" /\ Reliance(t) /\ Deleting(t)
            /\ ~alive[wr[t]]
        BY <1>1, <1>11, <2>3, <3>2 DEF Moves, Reliance
      <4>2. \A u \in Threads : Deleting(u)' /\ wr'[u] = wr'[t] => u = t
        BY <1>17, <2>1, <4>1 DEF Reliance
      <4>3. QED
        BY <1>6, <1>7, <1>17, <4>1, <4>2 DEF Reliance, Swapping
    <3>3. QED
      BY <3>1, <3>2
  <2>8. QED
    BY <2>6, <2>7
<1>20. AliveInHeap'
  BY <1>7, <1>17, ListedKept DEF AliveInHeap
<1>21. Participant'
  BY <1>1, <1>5, <1>7, <1>11, <1>12 DEF Participant, Moves
<1>22. \A h \in Heaps, x \in Clones \cup {None} : IsMin(h, x)' <=> IsMin(h, x)
  BY <1>7 DEF IsMin
<1>23. \A h \in Heaps : h # g => minl[h] # k
  BY <1>3 DEF Heaps, Shortest
<1>24. \A h \in Heaps : minl'[h] = IF h = g THEN c ELSE minl[h]
  BY <1>3, <1>7, <1>23
<1>25. \A h \in Heaps : IsMin(h, minl[h])'
  <2>1. \A h \in Heaps : h # g => IsMin(h, minl[h])
    <3>1. \A h \in Heaps, u \in Threads : h # g => ~Swaps(u, h)
      BY <1>3, <1>6, <1>23 DEF Swaps
    <3>2. QED
      BY <1>6, <3>1 DEF Shortest
  <2>2. \A h \in Heaps : IsMin(h, minl'[h])
    BY <1>5, <1>24, <2>1
  <2>3. QED
    BY <1>14, <1>22, <2>2 DEF IsMin
<1>26. minl'["auto"] # None /\ minl'["auto"] # minl'["man"]
  <2>1. pheap'["auto"] # {}
    BY <1>6, <1>7 DEF Participant
  <2>2. minl'["auto"] # None
    BY <1>25, <2>1 DEF IsMin, Heaps
  <2>3. QED
    BY <1>5, <1>24, <2>2 DEF Heaps, Shortest
<1>27. ASSUME NEW x \in Clones PROVE Clone(x)'
  <2>1. Clone(x)
    BY DEF Shortest
  <2>2. x \in heap' => life[x] = "live" /\ x \notin gcq /\ \E h \in Heaps : x = minl'[h]
    BY <1>3, <1>5, <1>7, <1>24, <2>1 DEF Clone
  <2>3. x \in gcq => \A h \in Heaps : x # minl'[h]
    <3>1. ASSUME x \in gcq, NEW h \in Heaps, x = minl'[h] PROVE FALSE
      <4>1. h # g /\ x = minl[h]
        BY <1>5, <1>24, <3>1
      <4>2. PICK u \in Threads : pc[u] = "replace" /\ lp[u] = x
        BY <2>1, <3>1, <4>1 DEF Clone
      <4>3. u = t /\ x = k
        BY <1>3, <1>6, <4>2 DEF Swapping
      <4>4. QED
        BY <1>23, <4>1, <4>3
    <3>2. QED
      BY <3>1
  <2>4. QED
    BY <1>7, <1>17, <2>1, <2>2, <2>3 DEF Clone
<1>28. \A u \in Threads : pc'[u] \notin Swapping
  BY <1>6, <1>11, <1>12 DEF Moves, Swapping
<1>29. Shortest'
  <2>1. pc'["gc"] = "act" => pc["gc"] = "act" /\ lp'["gc"] = lp["gc"]
    BY <1>11, <1>12 DEF Moves, Threads
  <2>2. pc'["gc"] = "act" =>
          /\ lp'["gc"] # None /\ (lp'["gc"] \in Clones => life'[lp'["gc"]] = "live")
          /\ lp'["gc"] \in Writers => Born(lp["gc"])'
          /\ lp'["gc"] # PP
    BY <1>7, <1>17, <2>1 DEF Shortest
  <2>3. QED
    BY <1>25, <1>26, <1>27, <1>28, <2>2 DEF Shortest
<1>30. Gone'
  BY <1>6, <1>7 DEF Gone
<1>31. Supervised'
  <2>1. CASE g = "auto"
    BY <1>7, <1>24, <1>26, <2>1 DEF Supervised, Heaps
  <2>2. CASE g # "auto"
    <3>1. minl'["auto"] = minl["auto"] /\ \A u \in Threads : ~Swaps(u, "auto")
      BY <1>3, <1>6, <1>23, <1>24, <2>2 DEF Swaps, Heaps
    <3>2. t # "gc" => pc'["gc"] = pc["gc"] /\ lp'["gc"] = lp["gc"] /\ wr'["gc"] = wr["gc"]
      BY <1>11 DEF Moves, Threads
    <3>3. t = "gc" => pc["gc"] = "replace"
      BY <1>1
    <3>4. QED
      BY <1>7, <3>1, <3>2, <3>3 DEF Supervised
  <2>3. QED
    BY <2>1, <2>2
<1>32. QED
  BY <1>13, <1>15, <1>16, <1>18, <1>19, <1>20, <1>21, <1>29, <1>30, <1>31

-----------------------------------------------------------------------------
(* The collector *)

\* What the step that frees the participant finds: no writer is left that could
\* be alive or that somebody replaces a clone for.
LEMMA LastReference ==
  ASSUME Inv, Tops, life[PP] = "live", NEW x \in gcq, endpoints \subseteq {x}
  PROVE  /\ \A t \in Threads : pc[t] \notin Swapping
         /\ pheap["auto"] = {PP} /\ minl["man"] = None
         /\ ent[minl["auto"]] = PP /\ minl["auto"] \notin gcq
<1> USE Names DEF Inv
<1>1. \A t \in Threads : pc[t] \notin Swapping
  BY DEF Reliance
<1>2. \A v \in Writers : ~alive[v]
  BY DEF Writer
<1>3. pheap["auto"] = {PP} /\ pheap["man"] = {}
  <2>1. \A h \in Heaps : pheap[h] \subseteq Entities /\ \A v \in Writers : v \notin pheap[h]
    BY <1>2 DEF TypeOK, AliveInHeap, Listed
  <2>2. QED
    BY <2>1 DEF Participant, Heaps, Entities
<1>4. \A h \in Heaps : IsMin(h, minl[h])
  BY <1>1 DEF Shortest, Swaps
<1>6. top["auto"] = PP
  BY <1>3, TopAmong DEF Among, Heaps
<1>7. minl["man"] = None /\ minl["auto"] \in Clones /\ ent[minl["auto"]] = PP
  BY <1>3, <1>4, <1>6 DEF IsMin, Heaps
<1>8. minl["auto"] \notin gcq
  BY <1>1, <1>7 DEF Shortest, Clone, Heaps, Swapping
<1>9. QED
  BY <1>1, <1>3, <1>7, <1>8

LEMMA GcFreeInv == ASSUME Inv, Tops, NEW x \in Leases, GcFree(x) PROVE Inv'
<1> USE Names DEF Inv
<1>1. pc["gc"] = "idle" /\ x \in gcq
  BY DEF GcFree
<1>2. /\ gcq' = gcq \ {x} /\ endpoints' = endpoints \ {x}
      /\ UNCHANGED <<qos, index, minl, deleting, alive, blk, awake, pc, wr, lp, new, kids, ret, tm, rq,
                     data, wlock, plock, silent>>
  BY DEF GcFree
<1>3. ppref' \in BOOLEAN /\ (ppref' <=> ppref /\ x # PP)
  BY DEF GcFree, TypeOK
<1>4. PICK a \in Clones : a = minl["auto"] /\ a \in Leases
  BY DEF TypeOK, Shortest, Heaps, Leases
<1> DEFINE pp == x \notin Clones /\ endpoints' = {} /\ ~ppref'
<1>5. /\ life' = [l \in Leases |-> IF (l = x /\ x # PP) \/ (pp /\ l \in {PP, a}) THEN "freed" ELSE life[l]]
      /\ ent' = IF x \in Clones THEN [ent EXCEPT ![x] = None] ELSE ent
      /\ pheap' = IF pp THEN [pheap EXCEPT !["auto"] = @ \ {PP}] ELSE pheap
      /\ heap' = IF pp THEN heap \ {a} ELSE heap
      /\ top' \in IF pp THEN {[top EXCEPT !["auto"] = m] : m \in MinLeases(pheap'["auto"])} ELSE {top}
  BY <1>4 DEF GcFree, Unregister
<1>6. tsched' \in [Leases -> Int] /\ tend' \in [Leases -> Int]
  BY <1>4 DEF GcFree, Unregister, TypeOK
<1>7. pp => deleting
  BY <1>1, <1>3 DEF Participant
<1>8. pp => /\ \A t \in Threads : pc[t] \notin Swapping
            /\ pheap'["auto"] = {} /\ minl["man"] = None /\ ent[a] = PP /\ a \notin gcq
  <2>1. CASE life[PP] = "live"
    BY <1>1, <1>2, <1>4, <1>5, <2>1, LastReference DEF TypeOK, Heaps
  <2>2. CASE life[PP] # "live"
    <3>1. life[PP] = "freed" /\ endpoints = {}
      BY <2>2 DEF Participant, TypeOK, Leases
    <3>2. \A t \in Threads : pc[t] \notin Swapping
      BY <3>1 DEF Reliance
    <3>3. minl["man"] = None /\ ent[a] = PP /\ a \notin gcq
      BY <1>4, <3>1 DEF Gone, Shortest, Clone
    <3>4. \A v \in Writers : ~alive[v]
      BY <3>1 DEF Writer
    <3>5. pheap["auto"] = {}
      <4>1. pheap["auto"] \subseteq Entities /\ \A v \in Writers : v \notin pheap["auto"]
        BY <3>4 DEF TypeOK, AliveInHeap, Listed, Heaps
      <4>2. QED
        BY <3>1, <4>1 DEF Participant, Entities
    <3>6. QED
      BY <1>5, <3>2, <3>3, <3>5 DEF TypeOK, Heaps
  <2>3. QED
    BY <2>1, <2>2
<1>9. TypeOK'
  <2>1. life' \in [Leases -> {"none", "live", "freed"}] /\ ent' \in [Leases -> Entities \cup {None}]
    BY <1>5 DEF TypeOK
  <2>2. pheap' \in [Heaps -> SUBSET Entities] /\ heap' \subseteq Leases
    BY <1>5 DEF TypeOK
  <2>3. top' \in [Heaps -> Entities \cup {None}]
    <3>1. MinLeases(pheap'["auto"]) \subseteq Entities \cup {None}
      BY <2>2 DEF MinLeases, Heaps
    <3>2. CASE ~pp
      BY <1>5, <3>2 DEF TypeOK
    <3>3. CASE pp
      <4>1. PICK m \in MinLeases(pheap'["auto"]) : top' = [top EXCEPT !["auto"] = m]
        BY <1>5, <3>3
      <4>2. m \in Entities \cup {None}
        BY <3>1
      <4>3. QED
        BY <4>1, <4>2 DEF TypeOK
    <3>4. QED
      BY <3>2, <3>3
  <2>4. QED
    BY <1>2, <1>3, <1>6, <2>1, <2>2, <2>3 DEF TypeOK
<1>10. Places' /\ Locks'
  BY <1>2 DEF Places, Locks
<1>11. \A v \in Writers : v \in Leases /\ v # PP /\ v \notin Clones
  BY DEF Leases
<1>12. x \in Writers => x \in endpoints /\ x \notin index /\ ~alive[x] /\ ~Creating(x) /\ Born(x)
  BY <1>1 DEF Writer, Born, Creating
<1>13. /\ \A v \in Writers : Born(v)' <=> Born(v)
       /\ \A v \in Writers : Creating(v)' <=> Creating(v)
       /\ \A v \in Writers : life'[v] = IF v = x THEN "freed" ELSE life[v]
       /\ \A v \in Writers : ent'[v] = ent[v] /\ (v \in heap' <=> v \in heap)
       /\ \A v \in Writers, h \in Heaps : v \in pheap'[h] <=> v \in pheap[h]
  <2>1. \A v \in Writers : life'[v] = IF v = x THEN "freed" ELSE life[v]
    BY <1>4, <1>5, <1>11
  <2>2. \A v \in Writers : Born(v)' <=> Born(v)
    BY <1>2, <1>12, <2>1 DEF Born
  <2>3. \A v \in Writers : Creating(v)' <=> Creating(v)
    BY <1>2 DEF Creating
  <2>4. \A v \in Writers : ent'[v] = ent[v] /\ (v \in heap' <=> v \in heap)
    BY <1>4, <1>5, <1>11 DEF TypeOK
  <2>5. \A v \in Writers, h \in Heaps : v \in pheap'[h] <=> v \in pheap[h]
    BY <1>5, <1>11 DEF TypeOK, Heaps
  <2>6. QED
    BY <2>1, <2>2, <2>3, <2>4, <2>5
<1>14. \A v \in Writers : Writer(v)'
  BY <1>2, <1>12, <1>13 DEF Writer
<1>15. \A u \in Threads : Reliance(u)'
  <2>1. \A u \in Threads : Deleting(u)' <=> Deleting(u)
    BY <1>2 DEF Deleting
  <2>2. ASSUME NEW u \in Threads PROVE Reliance(u)'
    <3>1. Reliance(u) /\ wr'[u] = wr[u] /\ pc'[u] = pc[u] /\ ret'[u] = ret[u]
      BY <1>2
    <3>2. Deleting(u)' => /\ wr'[u] \in endpoints' \ (index' \cup gcq') /\ ~Creating(wr[u])'
                          /\ \A v \in Threads : Deleting(v)' /\ wr'[v] = wr'[u] => v = u
      BY <1>1, <1>2, <1>13, <2>1, <3>1, InHand DEF Reliance
    <3>3. pc'[u] \in {"alive", "naLock", "naSet"} => Born(wr[u])'
      BY <1>13, <3>1, InHand DEF Reliance
    <3>4. pc'[u] \in {"alive"} \cup Swapping =>
            wr'[u] \in endpoints' \ gcq' /\ \A v \in Threads : pc'[v] = "dGc" => wr'[v] # wr'[u]
      BY <1>1, <1>2, <3>1 DEF Reliance
    <3>5. pc'[u] = "nRef" => life'[wr'[u]] = "none"
      <4>1. pc[u] = "nRef" => wr[u] \in Writers /\ life[wr[u]] = "none" /\ ~Born(wr[u])
        BY <3>1, InHand DEF Reliance, Born
      <4>2. x \in Writers => Born(x)
        BY <1>12
      <4>3. QED
        BY <1>13, <3>1, <4>1, <4>2
    <3>6. QED
      BY <1>2, <3>1, <3>2, <3>3, <3>4, <3>5 DEF Reliance
  <2>3. QED
    BY <2>2
<1>16. AliveInHeap'
  BY <1>2, <1>13, ListedKept DEF AliveInHeap
<1>17. life'[PP] = IF pp THEN "freed" ELSE life[PP]
  BY <1>5 DEF Leases
<1>18. Participant'
  <2>1. ent'[PP] = ent[PP] /\ PP \notin heap' /\ PP \notin pheap'["man"]
    BY <1>5 DEF TypeOK, Participant, Leases, Heaps
  <2>2. PP \in pheap'["auto"] <=> life'[PP] = "live"
    BY <1>5, <1>8, <1>17 DEF Participant
  <2>3. life'[PP] = "freed" => endpoints' = {} /\ ~ppref'
    BY <1>2, <1>3, <1>17 DEF Participant
  <2>4. PP \in gcq' \/ ~ppref' => deleting
    BY <1>1, <1>2, <1>3 DEF Participant
  <2>5. QED
    BY <1>2, <1>17, <2>1, <2>2, <2>3, <2>4 DEF Participant
<1>19. \A c \in Clones : /\ c # x /\ ~(pp /\ c = a) => life'[c] = life[c]
                         /\ c # x => ent'[c] = ent[c]
                         /\ c = x => life'[c] = "freed" /\ ent'[c] = None
  BY <1>5 DEF TypeOK, Leases
<1>20. ASSUME NEW c \in Clones PROVE Clone(c)'
  <2>1. Clone(c)
    BY DEF Shortest
  <2>2. c \in heap' => c # x /\ ~(pp /\ c = a) /\ c \in heap
    BY <1>1, <1>5, <2>1 DEF Clone
  <2>3. c \in gcq' => c # x /\ ~(pp /\ c = a) /\ c \in gcq
    BY <1>2, <1>8
  <2>4. life'[c] = "live" => c # x /\ life[c] = "live"
    BY <1>5, <1>19 DEF Leases
  <2>5. ent'[c] \in Writers => Born(ent[c]) /\ ent'[c] = ent[c] /\ ent[c] \in Writers
    BY <1>19, <2>1 DEF Clone
  <2>6. ent'[c] \in Writers => Born(ent[c])'
    BY <1>13, <2>5
  <2>7. QED
    BY <1>2, <1>19, <2>1, <2>2, <2>3, <2>4, <2>6 DEF Clone
<1>21. ~pp => pheap' = pheap /\ top' = top
  BY <1>5
<1>22. ASSUME NEW u \in Threads, pc[u] \in Swapping PROVE \E h \in Heaps : Swap(u, h)'
  <2>1. PICK h \in Heaps : Swap(u, h)
    BY <1>22 DEF Shortest
  <2>2. ~pp
    BY <1>8, <1>22
  <2>3. new[u] \in Clones \cup {None} /\ new[u] # x
    BY <1>1, <2>1 DEF TypeOK, Swap, Leases
  <2>4. IsMin(h, new[u])'
    BY <1>2, <1>19, <1>21, <2>1, <2>2, <2>3 DEF Swap, IsMin
  <2>5. lp[u] \in Clones
    BY <2>1 DEF Swap, TypeOK
  <2>6. QED
    BY <1>1, <1>2, <1>5, <1>19, <2>1, <2>2, <2>4, <2>5 DEF Swap
<1>23. ASSUME life'[PP] = "live", NEW h \in Heaps, \A u \in Threads : ~Swaps(u, h)
       PROVE  IsMin(h, minl[h])'
  <2>1. ~pp /\ life[PP] = "live"
    BY <1>17, <1>23
  <2>2. IsMin(h, minl[h])
    BY <1>23, <2>1 DEF Shortest
  <2>3. minl[h] \in Clones => minl[h] # x
    BY <1>1, <1>23 DEF Shortest, Clone, Swaps, Swapping
  <2>4. QED
    BY <1>2, <1>19, <1>21, <2>1, <2>2, <2>3 DEF IsMin
<1>24. \A u \in Threads, h \in Heaps : Swaps(u, h)' <=> Swaps(u, h)
  BY <1>2 DEF Swaps
<1>25. Shortest'
  BY <1>1, <1>2, <1>20, <1>22, <1>23, <1>24 DEF Shortest
<1>26. Gone'
  <2>1. CASE pp
    <3>1. a # x
      BY <2>1
    <3>2. life'[a] = "freed" /\ ent'[a] = PP
      BY <1>4, <1>5, <1>8, <1>19, <2>1, <3>1
    <3>3. QED
      BY <1>2, <1>4, <1>8, <2>1, <3>2 DEF Gone
  <2>2. CASE ~pp
    <3>1. life[PP] = "freed" => a # x
      BY <1>1, <1>4 DEF Gone, Shortest, Clone
    <3>2. QED
      BY <1>2, <1>4, <1>17, <1>19, <2>2, <3>1 DEF Gone
  <2>3. QED
    BY <2>1, <2>2
<1>27. Supervised'
  <2>1. CASE pp
    BY <1>2, <1>7, <2>1 DEF Supervised, Participant
  <2>2. CASE ~pp
    BY <1>1, <1>2, <1>5, <1>24, <2>2 DEF Supervised, Heaps
  <2>3. QED
    BY <2>1, <2>2
<1>28. QED
  BY <1>9, <1>10, <1>14, <1>15, <1>16, <1>18, <1>25, <1>26, <1>27

-----------------------------------------------------------------------------
(* A change of the leases of the participant *)

\* The clone c is made a lease of m.
NewClone(c, m) ==
  /\ life[c] # "live" /\ \A u \in Threads : lp[u] # c
  /\ life' = [life EXCEPT ![c] = "live"] /\ ent' = [ent EXCEPT ![c] = m]

\* What ChangeLeases does to the clone and the thread.
Changed(t, h, S, min, next) ==
  \/ /\ top[h] = min /\ (pheap[h] = {} <=> S = {})
     /\ Continue(t, next, TRUE) /\ UNCHANGED <<minl, ent, heap, life>>
  \/ /\ pheap[h] # {} /\ S = {}
     /\ StartReplace(t, h, None, next) /\ UNCHANGED <<minl, ent, heap, life>>
  \/ \E c \in Clones :
       /\ pheap[h] = {} /\ S # {} /\ NewClone(c, min)
       /\ heap' = heap \cup {c} /\ minl' = [minl EXCEPT ![h] = c]
       /\ Continue(t, next, TRUE)
  \/ \E c \in Clones :
       /\ pheap[h] # {} /\ S # {} /\ NewClone(c, min)
       /\ StartReplace(t, h, c, next) /\ UNCHANGED <<minl, heap>>

LEMMA ChangeCases ==
  ASSUME TypeOK, Tops, NEW t \in Threads, NEW h \in Heaps, NEW S \in SUBSET Entities, NEW min,
         Among(min, S), NEW d \in Int, NEW next, ChangeLeases(t, h, S, min, d, next)
  PROVE  /\ pheap' = [pheap EXCEPT ![h] = S] /\ top' = [top EXCEPT ![h] = min]
         /\ tend' \in [Leases -> Int] /\ tsched' \in [Leases -> Int]
         /\ Changed(t, h, S, min, next)
<1> USE DEF Changed
<1> USE Names
<1> DEFINE prev == top[h]
           c == CHOOSE c \in FreeClones : TRUE
<1>1. pheap[h] \in SUBSET Entities
  BY DEF TypeOK
<1>2. (S = {} <=> min = None) /\ (pheap[h] = {} <=> prev = None)
  BY <1>1, TopAmong DEF Among, Entities
<1>3. min # None => min \in Entities
  BY <1>2 DEF Among
<1>4. FreeClones # {} => /\ c \in Clones /\ c \in Leases /\ life[c] # "live"
                         /\ \A u \in Threads : lp[u] # c
  BY DEF FreeClones, Leases
<1>5. pheap' = [pheap EXCEPT ![h] = S] /\ top' = [top EXCEPT ![h] = min]
  BY DEF ChangeLeases
<1>6. CASE prev = min /\ Continue(t, next, TRUE) /\ UNCHANGED <<minl, leaseVars>>
  BY <1>2, <1>5, <1>6 DEF TypeOK
<1>7. CASE prev # min /\ min = None /\ StartReplace(t, h, None, next) /\ UNCHANGED leaseVars
  BY <1>2, <1>5, <1>7 DEF TypeOK, StartReplace
<1>8. CASE /\ prev = None /\ min # None /\ FreeClones # {}
           /\ NewLease(c, min, d, TRUE)
           /\ minl' = [minl EXCEPT ![h] = c]
           /\ Continue(t, next, TRUE)
  <2>0. /\ heap' = heap \cup {c}
        /\ tend' = [tend EXCEPT ![c] = d] /\ tsched' = [tsched EXCEPT ![c] = d]
    BY <1>8 DEF NewLease
  <2>1. tend' \in [Leases -> Int] /\ tsched' \in [Leases -> Int] /\ heap' = heap \cup {c}
    <3> HIDE DEF c
    <3> QED
      BY <2>0 DEF TypeOK
  <2>2. NewClone(c, min)
    BY <1>4, <1>8 DEF NewLease, NewClone
  <2>3. QED
    BY <1>2, <1>4, <1>5, <1>8, <2>1, <2>2
<1>9. CASE /\ prev # min /\ None \notin {prev, min} /\ FreeClones # {}
           /\ NewLease(c, min, d, FALSE)
           /\ StartReplace(t, h, c, next)
  <2>1. tend' \in [Leases -> Int] /\ tsched' \in [Leases -> Int] /\ heap' = heap
    BY <1>3, <1>4, <1>9 DEF NewLease, TypeOK
  <2>2. NewClone(c, min)
    BY <1>4, <1>9 DEF NewLease, NewClone
  <2>3. minl' = minl
    BY <1>9 DEF StartReplace
  <2>4. QED
    BY <1>2, <1>4, <1>5, <1>9, <2>1, <2>2, <2>3
<1>10. QED
  BY <1>6, <1>7, <1>8, <1>9 DEF ChangeLeases

\* Where the thread is afterwards: it goes on, its locks released, or it is about
\* to replace a clone with the participant locked.
Arrives(t, next, q, w, r) ==
  \/ GoesOn(t, next, q, w, r) /\ Release(t)
  \/ q = "retire" /\ w = wr[t] /\ r = next /\ wlock' = wlock /\ plock' = t

LEMMA ChangeControl ==
  ASSUME Inv, Tops, NEW t \in Threads, NEW h \in Heaps, NEW S \in SUBSET Entities, NEW min,
         Among(min, S), NEW d \in Int, NEW next \in {"done", "dGc", "nInsert"}, ChangeLeases(t, h, S, min, d, next)
  PROVE  Awake /\ \E q, w, l, n, r : Moves(t, q, w, l, n, r) /\ Arrives(t, next, q, w, r)
<1> USE DEF Inv
<1>1. CASE Continue(t, next, TRUE)
  <2>1. Goes(t, next) /\ Awake /\ Release(t)
    BY <1>1, ContinueGoes DEF Labels
  <2>2. QED
    BY <2>1, GoesMoves DEF Arrives
<1>2. ASSUME NEW c \in Clones \cup {None}, StartReplace(t, h, c, next)
      PROVE  Awake /\ \E q, w, l, n, r : Moves(t, q, w, l, n, r) /\ Arrives(t, next, q, w, r)
  <2>1. minl[h] \in Leases \cup {None}
    BY DEF TypeOK, Leases
  <2>2. Moves(t, "retire", wr[t], minl[h], c, next)
    BY <1>2, <2>1 DEF StartReplace, Goto, TypeOK, Moves, Labels
  <2>3. Awake /\ wlock' = wlock /\ plock' = t
    BY <1>2 DEF StartReplace, TypeOK, Awake
  <2>4. QED
    BY <2>2, <2>3 DEF Arrives
<1>3. QED
  BY <1>1, <1>2, ChangeCases DEF Changed

\* The variables keep their types, and what is not a clone is left alone.
Framed(h, S) ==
  /\ pheap' = [pheap EXCEPT ![h] = S] /\ pheap' \in [Heaps -> SUBSET Entities]
  /\ top' \in [Heaps -> Entities \cup {None}]
  /\ tend' \in [Leases -> Int] /\ tsched' \in [Leases -> Int]
  /\ minl' \in [Heaps -> Clones \cup {None}] /\ heap' \subseteq Leases
  /\ ent' \in [Leases -> Entities \cup {None}] /\ life' \in [Leases -> {"none", "live", "freed"}]
  /\ \A e \in Entities : life'[e] = life[e] /\ ent'[e] = ent[e] /\ (e \in heap' <=> e \in heap)

LEMMA ChangeFrame ==
  ASSUME Inv, Tops, NEW t \in Threads, NEW h \in Heaps, NEW S \in SUBSET Entities, NEW min,
         Among(min, S), NEW d \in Int, NEW next, ChangeLeases(t, h, S, min, d, next)
  PROVE  Framed(h, S)
<1> USE DEF Framed
<1> USE Names DEF Inv
<1>1. /\ pheap' = [pheap EXCEPT ![h] = S] /\ pheap' \in [Heaps -> SUBSET Entities]
      /\ top' = [top EXCEPT ![h] = min] /\ top' \in [Heaps -> Entities \cup {None}]
  <2>1. pheap' = [pheap EXCEPT ![h] = S] /\ top' = [top EXCEPT ![h] = min]
    BY DEF ChangeLeases
  <2>2. min \in Entities \cup {None}
    BY DEF Among
  <2>3. QED
    BY <2>1, <2>2 DEF TypeOK
<1>2. tend' \in [Leases -> Int] /\ tsched' \in [Leases -> Int]
  BY ChangeCases
<1>3. CASE UNCHANGED <<minl, ent, heap, life>>
  BY <1>1, <1>2, <1>3 DEF TypeOK
<1>4. ASSUME NEW c \in Clones, S # {}, NewClone(c, min), heap' \in {heap, heap \cup {c}},
             minl' \in {minl, [minl EXCEPT ![h] = c]}
      PROVE  /\ minl' \in [Heaps -> Clones \cup {None}] /\ heap' \subseteq Leases
             /\ ent' \in [Leases -> Entities \cup {None}] /\ life' \in [Leases -> {"none", "live", "freed"}]
             /\ \A e \in Entities : life'[e] = life[e] /\ ent'[e] = ent[e] /\ (e \in heap' <=> e \in heap)
  <2>1. min \in Entities
    BY <1>4 DEF Among
  <2>2. c \in Leases /\ c \notin Entities /\ Entities \subseteq Leases
    BY DEF Leases, Entities
  <2>3. ent' \in [Leases -> Entities \cup {None}] /\ life' \in [Leases -> {"none", "live", "freed"}]
    BY <1>4, <2>1 DEF NewClone, TypeOK
  <2>4. \A e \in Entities : life'[e] = life[e] /\ ent'[e] = ent[e]
    BY <1>4, <2>2 DEF NewClone, TypeOK
  <2>5. heap' \subseteq Leases /\ \A e \in Entities : e \in heap' <=> e \in heap
    BY <1>4, <2>2 DEF TypeOK
  <2>6. minl' \in [Heaps -> Clones \cup {None}]
    BY <1>4 DEF TypeOK
  <2>7. QED
    BY <2>3, <2>4, <2>5, <2>6
<1>5. CASE UNCHANGED <<minl, ent, heap, life>>
  BY <1>1, <1>2, <1>3, <1>5
<1>6. CASE \E c \in Clones : /\ S # {} /\ NewClone(c, min) /\ heap' \in {heap, heap \cup {c}}
                           /\ minl' \in {minl, [minl EXCEPT ![h] = c]}
  BY <1>1, <1>2, <1>4, <1>6
<1>7. TypeOK
  OBVIOUS
<1> HIDE DEF Inv
<1>8. \/ UNCHANGED <<minl, ent, heap, life>>
      \/ \E c \in Clones : /\ S # {} /\ NewClone(c, min) /\ heap' = heap \cup {c}
                           /\ minl' = [minl EXCEPT ![h] = c]
      \/ \E c \in Clones : S # {} /\ NewClone(c, min) /\ UNCHANGED <<minl, heap>>
  <2>1. Changed(t, h, S, min, next)
    BY <1>7, ChangeCases
  <2>2. QED
    BY <2>1 DEF Changed
<1>9. QED
  BY <1>5, <1>6, <1>8

LEMMA ChangeShortest ==
  ASSUME Inv, Tops, NEW t \in Threads, NEW h \in Heaps, NEW S \in SUBSET Entities, NEW min,
         Among(min, S), NEW d \in Int, NEW next \in {"done", "dGc", "nInsert"}, ChangeLeases(t, h, S, min, d, next),
         plock = None, life[PP] = "live", h = "auto" => PP \in S,
         gcq' = gcq, qos' = qos, index' = index,
         \A v \in Writers : Born(v) => Born(v)', \A v \in Writers : v \in S => Born(v)',
         pc[t] \in {"alive", "nLease", "naSet"},
         t = "gc" => wr[t] \in Writers /\ wr[t] \notin S /\ h = HeapOf(wr[t])
  PROVE  Shortest' /\ Gone' /\ Supervised'
<1> USE Names DEF Inv
<1>1. \A u \in Threads : pc[u] \notin Swapping
  BY DEF Locks
<1>2. \A g \in Heaps : IsMin(g, minl[g])
  BY <1>1 DEF Shortest, Swaps
<1>3. PICK a \in Clones : a = minl["auto"] /\ a # minl["man"]
  BY DEF TypeOK, Shortest, Heaps
<1>4. \A g \in Heaps : /\ minl[g] # None => minl[g] \in Clones /\ life[minl[g]] = "live" /\ minl[g] \notin gcq
                       /\ minl[g] = None <=> pheap[g] = {}
  BY <1>1, <1>2 DEF IsMin, Shortest, Clone, Swapping, TypeOK
<1>5. /\ pheap' = [pheap EXCEPT ![h] = S] /\ pheap' \in [Heaps -> SUBSET Entities]
      /\ top' = [top EXCEPT ![h] = min]
      /\ minl' \in [Heaps -> Clones \cup {None}] /\ life'[PP] = "live"
  <2>1. PP \in Entities
    BY DEF Entities
  <2>2. pheap' = [pheap EXCEPT ![h] = S] /\ top' = [top EXCEPT ![h] = min]
    BY DEF ChangeLeases
  <2>3. /\ pheap' \in [Heaps -> SUBSET Entities] /\ minl' \in [Heaps -> Clones \cup {None}]
        /\ \A e \in Entities : life'[e] = life[e]
    <3> HIDE DEF Inv
    <3> QED
      BY ChangeFrame DEF Framed
  <2>4. QED
    BY <2>1, <2>2, <2>3
<1>6. /\ \A g \in Heaps : g # h => pheap'[g] = pheap[g] /\ top'[g] = top[g]
      /\ pheap'[h] = S /\ top'[h] = min
  BY <1>5 DEF TypeOK
<1>7. Gone'
  BY <1>5 DEF Gone
<1>8. ASSUME \A c \in Clones : life[c] = "live" => life'[c] = "live" /\ ent'[c] = ent[c]
      PROVE  \A g \in Heaps : g # h /\ minl'[g] = minl[g] => IsMin(g, minl[g])'
  BY <1>2, <1>4, <1>6, <1>8 DEF IsMin
<1>9. /\ \A u \in Threads : u # t => pc'[u] = pc[u] /\ lp'[u] = lp[u] /\ wr'[u] = wr[u]
      /\ pc'[t] \in {"idle", "dGc", "nInsert", "retire"}
  <2>1. PICK q, w, l, n, r : Moves(t, q, w, l, n, r) /\ Arrives(t, next, q, w, r)
    BY ChangeControl
  <2>2. QED
    BY <2>1 DEF Moves, Arrives, GoesOn
<1>10. ASSUME \A c \in Clones : life[c] = "live" => life'[c] = "live"
       PROVE  pc'["gc"] = "act" =>
                /\ lp'["gc"] # None /\ (lp'["gc"] \in Clones => life'[lp'["gc"]] = "live")
                /\ lp'["gc"] \in Writers => Born(lp["gc"])'
                /\ lp'["gc"] # PP
  BY <1>9, <1>10 DEF Shortest, Threads, Born
<1>11. ASSUME NEW c \in Clones, UNCHANGED <<heap, minl>>,
              life'[c] = life[c] /\ ent'[c] = ent[c]
       PROVE  Clone(c)'
  BY <1>1, <1>11 DEF Shortest, Clone, Swapping
\* As long as minl_auto stays, it is watched as before.
<1>12. ASSUME PP \in index, minl'["auto"] = a, a \in heap => a \in heap', ent'[a] = ent[a],
              t = "gc" => h # "auto" \/ top[h] = min
       PROVE  \/ minl'["auto"] \in heap'
              \/ pc'["gc"] = "act" /\ lp'["gc"] = minl'["auto"]
              \/ pc'["gc"] \in {"naLock", "naSet", "pIndex"} /\ wr'["gc"] = ent'[minl'["auto"]]
  <2>1. CASE t # "gc"
    BY <1>1, <1>3, <1>9, <1>12, <2>1 DEF Supervised, Swaps, Threads
  <2>2. CASE t = "gc"
    <3>1. a \in heap \/ wr[t] = ent[a]
      BY <1>1, <1>3, <1>12, <2>2 DEF Supervised, Swaps
    <3>2. ASSUME wr[t] = ent[a] PROVE FALSE
      <4>1. wr[t] \in pheap["auto"] /\ wr[t] = top["auto"]
        BY <1>1, <1>3, <1>12, <3>2, AutoIsMin DEF Swaps
      <4>2. h = "auto"
        BY <2>2, <4>1 DEF AliveInHeap, Listed, Heaps
      <4>3. min \in S
        BY <4>2 DEF Among
      <4>4. QED
        BY <1>12, <2>2, <4>1, <4>2, <4>3
    <3>3. QED
      BY <1>12, <3>1, <3>2
  <2>3. QED
    BY <2>1, <2>2
<1>13. CASE /\ top[h] = min /\ (pheap[h] = {} <=> S = {})
            /\ Continue(t, next, TRUE) /\ UNCHANGED <<minl, ent, heap, life>>
  <2>1. IsMin(h, minl[h])'
    BY <1>2, <1>6, <1>13 DEF IsMin
  <2>2. \A g \in Heaps : IsMin(g, minl[g])'
    BY <1>8, <1>13, <2>1
  <2>3. \A c \in Clones : Clone(c)'
    BY <1>11, <1>13
  <2>4. \A u \in Threads : pc'[u] \notin Swapping
    <3>1. Goes(t, next)
      BY <1>13, ContinueGoes DEF Labels
    <3>2. QED
      BY <1>1, <1>9, <3>1 DEF Goes, Leaves, Stays, Moves, Swapping
  <2>5. Shortest'
    BY <1>10, <1>13, <2>2, <2>3, <2>4 DEF Shortest
  <2>6. Supervised'
    BY <1>3, <1>12, <1>13 DEF Supervised
  <2>7. QED
    BY <1>7, <2>5, <2>6
<1>14. CASE /\ pheap[h] # {} /\ S = {}
            /\ StartReplace(t, h, None, next) /\ UNCHANGED <<minl, ent, heap, life>>
  <2>1. h = "man"
    BY <1>14 DEF Heaps
  <2>2. /\ pc' = [pc EXCEPT ![t] = "retire"] /\ lp' = [lp EXCEPT ![t] = minl[h]]
        /\ new' = [new EXCEPT ![t] = None]
    BY <1>14 DEF StartReplace, Goto
  <2>3. pc'[t] = "retire" /\ lp'[t] = minl[h] /\ new'[t] = None
    BY <2>2 DEF TypeOK
  <2>4. \A u \in Threads : pc'[u] \in Swapping => u = t
    BY <1>1, <1>9
  <2>5. Swap(t, h)'
    <3>1. IsMin(h, new[t])'
      BY <1>6, <1>14, <2>3 DEF IsMin
    <3>2. QED
      BY <1>4, <1>14, <2>3, <3>1 DEF Swap
  <2>6. \A c \in Clones : Clone(c)'
    BY <1>11, <1>14
  <2>7. Swaps(t, h)'
    BY <1>14, <2>3 DEF Swaps, Swapping
  <2>8. \A g \in Heaps : (\A u \in Threads : ~Swaps(u, g)') => IsMin(g, minl[g])'
    BY <1>8, <1>14, <2>7
  <2>9. Shortest'
    BY <1>10, <1>14, <2>4, <2>5, <2>6, <2>8 DEF Shortest
  <2>10. Supervised'
    BY <1>3, <1>12, <1>14, <2>1 DEF Supervised
  <2>11. QED
    BY <1>7, <2>9, <2>10
<1>15. ASSUME NEW c \in Clones, pheap[h] = {}, S # {}, NewClone(c, min),
              heap' = heap \cup {c}, minl' = [minl EXCEPT ![h] = c], Continue(t, next, TRUE)
       PROVE  Shortest' /\ Gone' /\ Supervised'
  <2>1. h = "man"
    BY <1>4, <1>15, <1>3 DEF Heaps
  <2>2. minl'["auto"] = a /\ minl'["man"] = c /\ minl["man"] = None
    BY <1>3, <1>4, <1>15, <2>1 DEF TypeOK, Heaps
  <2>3. /\ c \in Leases /\ life'[c] = "live" /\ ent'[c] = min
        /\ \A x \in Clones : x # c => life'[x] = life[x] /\ ent'[x] = ent[x]
    BY <1>15 DEF NewClone, TypeOK, Leases
  <2>4. life[c] # "live"
    BY <1>15 DEF NewClone
  <2>5. c # a /\ c \notin gcq
    BY <1>3, <1>4, <2>4 DEF Heaps, Shortest, Clone
  <2>6. IsMin(h, minl[h])'
    BY <1>6, <1>15, <2>1, <2>2, <2>3 DEF IsMin, Heaps
  <2>7. \A g \in Heaps : IsMin(g, minl[g])'
    BY <1>3, <1>8, <2>1, <2>2, <2>3, <2>4, <2>6 DEF Heaps
  <2>8. min \in S /\ min # None
    BY <1>15 DEF Among, Entities
  <2>9. Clone(c)'
    <3>1. ent'[c] \in Writers => Born(ent[c])'
      BY <2>3, <2>8
    <3>2. QED
      BY <2>1, <2>2, <2>3, <2>5, <2>8, <3>1 DEF Clone, Heaps
  <2>10. ASSUME NEW x \in Clones, x # c PROVE Clone(x)'
    <3>1. Clone(x) /\ life'[x] = life[x] /\ ent'[x] = ent[x]
      BY <2>3, <2>10 DEF Shortest
    <3>2. x \in heap' => life[x] = "live" /\ x \notin gcq /\ \E g \in Heaps : x = minl'[g]
      BY <1>3, <1>15, <2>2, <2>10, <3>1 DEF Clone, Heaps
    <3>3. x \in gcq => \A g \in Heaps : x # minl'[g]
      BY <1>3, <1>4, <2>2, <2>10 DEF Heaps
    <3>4. QED
      BY <3>1, <3>2, <3>3 DEF Clone
  <2>11. \A u \in Threads : pc'[u] \notin Swapping
    <3>1. Goes(t, next)
      BY <1>15, ContinueGoes DEF Labels
    <3>2. QED
      BY <1>1, <1>9, <3>1 DEF Goes, Leaves, Stays, Moves, Swapping
  <2>12. \A x \in Clones : life[x] = "live" => life'[x] = "live"
    BY <2>3
  <2>13. \A x \in Clones : Clone(x)'
    BY <2>9, <2>10
  <2>14. Shortest'
    BY <1>10, <2>2, <2>5, <2>7, <2>11, <2>12, <2>13 DEF Shortest
  <2>15. Supervised'
    BY <1>12, <1>15, <2>1, <2>2, <2>3, <2>5 DEF Supervised
  <2>16. QED
    BY <1>7, <2>14, <2>15
<1>16. ASSUME NEW c \in Clones, pheap[h] # {}, S # {}, NewClone(c, min),
              StartReplace(t, h, c, next), UNCHANGED <<minl, heap>>
       PROVE  Shortest' /\ Gone' /\ Supervised'
  <2>1. /\ pc' = [pc EXCEPT ![t] = "retire"] /\ lp' = [lp EXCEPT ![t] = minl[h]]
        /\ new' = [new EXCEPT ![t] = c]
    BY <1>16 DEF StartReplace, Goto
  <2>2. pc'[t] = "retire" /\ lp'[t] = minl[h] /\ new'[t] = c
    BY <2>1 DEF TypeOK
  <2>3. /\ life'[c] = "live" /\ ent'[c] = min
        /\ \A x \in Clones : x # c => life'[x] = life[x] /\ ent'[x] = ent[x]
    BY <1>16 DEF NewClone, TypeOK, Leases
  <2>4. life[c] # "live"
    BY <1>16 DEF NewClone
  <2>5. c \notin gcq /\ c \notin heap /\ \A g \in Heaps : c # minl[g]
    BY <1>4, <2>4 DEF Shortest, Clone
  <2>6. min \in S /\ min # None
    BY <1>16 DEF Among, Entities
  <2>7. \A u \in Threads : pc'[u] \in Swapping => u = t
    BY <1>1, <1>9
  <2>8. minl[h] # None
    BY <1>4, <1>16
  <2>9. Swap(t, h)'
    <3>1. IsMin(h, new[t])'
      BY <1>6, <1>16, <2>2, <2>3 DEF IsMin
    <3>2. life'[minl[h]] = "live" /\ minl[h] \notin gcq
      BY <1>4, <2>3, <2>5, <2>8
    <3>3. QED
      BY <1>16, <2>2, <2>5, <2>8, <3>1, <3>2 DEF Swap
  <2>10. ASSUME NEW x \in Clones PROVE Clone(x)'
    <3>1. CASE x # c
      BY <1>11, <1>16, <2>3, <3>1
    <3>2. CASE x = c
      <4>1. ent'[c] \in Writers => Born(ent[c])'
        BY <2>3, <2>6
      <4>2. QED
        BY <1>16, <2>3, <2>5, <2>6, <3>2, <4>1 DEF Clone
    <3>3. QED
      BY <3>1, <3>2
  <2>11. Swaps(t, h)'
    BY <1>16, <2>2 DEF Swaps, Swapping
  <2>12. \A g \in Heaps : (\A u \in Threads : ~Swaps(u, g)') => IsMin(g, minl[g])'
    BY <1>8, <1>16, <2>3, <2>4, <2>11
  <2>13. \A x \in Clones : life[x] = "live" => life'[x] = "live"
    BY <2>3
  <2>14. Shortest'
    BY <1>3, <1>10, <1>16, <2>7, <2>9, <2>10, <2>12, <2>13 DEF Shortest
  <2>15. Supervised'
    <3>1. CASE h = "auto"
      BY <2>11, <3>1 DEF Supervised
    <3>2. CASE h # "auto"
      BY <1>3, <1>12, <1>16, <2>3, <2>5, <3>2 DEF Supervised, Heaps
    <3>3. QED
      BY <3>1, <3>2
  <2>16. QED
    BY <1>7, <2>14, <2>15
<1>17. \/ /\ top[h] = min /\ (pheap[h] = {} <=> S = {})
          /\ Continue(t, next, TRUE) /\ UNCHANGED <<minl, ent, heap, life>>
       \/ /\ pheap[h] # {} /\ S = {}
          /\ StartReplace(t, h, None, next) /\ UNCHANGED <<minl, ent, heap, life>>
       \/ \E c \in Clones :
            /\ pheap[h] = {} /\ S # {} /\ NewClone(c, min)
            /\ heap' = heap \cup {c} /\ minl' = [minl EXCEPT ![h] = c]
            /\ Continue(t, next, TRUE)
       \/ \E c \in Clones :
            /\ pheap[h] # {} /\ S # {} /\ NewClone(c, min)
            /\ StartReplace(t, h, c, next) /\ UNCHANGED <<minl, heap>>
  BY ChangeCases DEF Changed
<1>18. QED
  BY <1>13, <1>14, <1>15, <1>16, <1>17

LEMMA ArrivesLocks ==
  ASSUME Inv, plock = None, NEW t \in Threads, pc[t] \in {"alive", "nLease", "naSet"},
         NEW next \in {"done", "dGc", "nInsert"}, next # "nInsert" => wlock[wr[t]] = t,
         NEW q, NEW w, NEW l, NEW n, NEW r, Moves(t, q, w, l, n, r), Arrives(t, next, q, w, r)
  PROVE  Locks' /\ LocksTyped /\ q \in {"idle", "dGc", "nInsert", "retire"}
<1> USE DEF Inv
<1>1. q \in {"idle", "dGc", "nInsert", "retire"}
  BY DEF Arrives, GoesOn
<1>2. CASE GoesOn(t, next, q, w, r) /\ Release(t)
  <2>1. q \notin Locking
    BY <1>2 DEF GoesOn, Locking, Swapping
  <2>2. QED
    BY <1>1, <1>2, <2>1, LocksReleased
<1>3. CASE q = "retire" /\ w = wr[t] /\ r = next /\ wlock' = wlock /\ plock' = t
  <2>1. LocksTyped
    BY <1>3 DEF TypeOK, LocksTyped
  <2>2. \A u \in Threads : pc[u] \notin Swapping
    BY Names DEF Locks
  <2>3. \A u \in Threads : plock' = u <=> pc'[u] \in Swapping
    BY <1>3, <2>2 DEF Moves, Swapping
  <2>4. QED
    BY <1>1, <1>3, <2>1, <2>2, <2>3 DEF Locks, Moves, Swapping
<1>4. QED
  BY <1>2, <1>3 DEF Arrives

LEMMA ArrivesPlaces ==
  ASSUME Inv, NEW t \in Threads, wr[t] \in Writers, NEW next \in {"done", "dGc", "nInsert"},
         t = "recv" => next = "done", t = "disc" => next # "done", t = "gc" => next # "nInsert",
         next = "dGc" => ret[t] = "dGc",
         NEW q, NEW w, NEW l, NEW n, NEW r, Moves(t, q, w, l, n, r), Arrives(t, next, q, w, r)
  PROVE  Places'
  BY DEF Inv, Places, Moves, Arrives, GoesOn, Own, Threads, Swapping

\* What is inserted or removed gives a heap with one of its shortest leases as
\* minimum.
LEMMA Durations == ASSUME TypeOK PROVE \A e \in Entities : Dur(e) \in Nat
  BY ProxyLeaseConstants DEF TypeOK, Dur, Entities

LEMMA AddLeaseMin ==
  ASSUME TypeOK, Tops, NEW t, NEW v \in Writers, NEW next, AddLease(t, v, next)
  PROVE  \E min \in Entities \cup {None}, d \in Int :
           /\ ChangeLeases(t, HeapOf(v), pheap[HeapOf(v)] \cup {v}, min, d, next)
           /\ Among(min, pheap[HeapOf(v)] \cup {v})
           /\ \A m \in pheap[HeapOf(v)] \cup {v} : Dur(min) <= Dur(m)
<1> DEFINE h == HeapOf(v)
           S == pheap[h] \cup {v}
           min == IF top[h] = None THEN v ELSE IF Dur(v) < Dur(top[h]) THEN v ELSE top[h]
<1>1. h \in Heaps /\ v \in Entities /\ pheap[h] \in SUBSET Entities
  BY DEF HeapOf, Heaps, Entities, TypeOK
<1>2. ChangeLeases(t, h, S, min, Dur(min), next)
  BY DEF AddLease
<1>3. top[h] \in MinLeases(pheap[h])
  BY <1>1 DEF Tops
<1>4. pheap[h] = {} => top[h] = None
  BY <1>3 DEF MinLeases
<1>5. pheap[h] # {} => top[h] \in pheap[h] /\ top[h] # None /\ \A m \in pheap[h] : Dur(top[h]) <= Dur(m)
  BY <1>1, <1>3, Names DEF MinLeases, Entities
<1>6. min \in S
  BY <1>4, <1>5
<1>7. \A e \in Entities : Dur(e) \in Nat
  BY Durations
<1>8. ASSUME NEW m \in S PROVE Dur(min) <= Dur(m)
  <2>1. CASE pheap[h] = {}
    <3>1. min = v /\ m = v
      BY <1>4, <2>1
    <3>2. QED
      BY <1>1, <1>7, <3>1
  <2>2. CASE pheap[h] # {}
    <3>1. Dur(top[h]) \in Nat /\ Dur(v) \in Nat /\ Dur(m) \in Nat
      BY <1>1, <1>5, <1>7, <2>2
    <3>2. m = v \/ Dur(top[h]) <= Dur(m)
      BY <1>5, <2>2
    <3>3. CASE Dur(v) < Dur(top[h])
      <4>1. min = v
        BY <1>5, <2>2, <3>3
      <4>2. QED
        BY <3>1, <3>2, <3>3, <4>1
    <3>4. CASE ~(Dur(v) < Dur(top[h]))
      <4>1. min = top[h]
        BY <1>5, <2>2, <3>4
      <4>2. QED
        BY <3>1, <3>2, <3>4, <4>1
    <3>5. QED
      BY <3>3, <3>4
  <2>3. QED
    BY <2>1, <2>2
<1>9. Among(min, S) /\ Dur(min) \in Int /\ min \in Entities \cup {None}
  BY <1>1, <1>6, <1>7 DEF Among
<1> HIDE DEF min
<1>10. QED
  BY <1>2, <1>8, <1>9

LEMMA RemoveLeaseMin ==
  ASSUME TypeOK, Tops, NEW t, NEW v \in Writers, v \in pheap[HeapOf(v)], NEW next, RemoveLease(t, v, next)
  PROVE  \E min \in Entities \cup {None}, d \in Int :
           /\ ChangeLeases(t, HeapOf(v), pheap[HeapOf(v)] \ {v}, min, d, next)
           /\ Among(min, pheap[HeapOf(v)] \ {v}) /\ min \in MinLeases(pheap[HeapOf(v)] \ {v})
<1> DEFINE h == HeapOf(v)
           S == pheap[h] \ {v}
<1>1. h \in Heaps /\ pheap[h] \in SUBSET Entities /\ pheap[h] # {}
  BY DEF HeapOf, Heaps, TypeOK
<1>2. PICK min \in MinLeases(S) :
        ChangeLeases(t, h, S, min, IF min = None THEN 0 ELSE Dur(min) - Dur(top[h]), next)
  BY DEF RemoveLease
<1>3. Among(min, S)
  BY <1>2 DEF MinLeases, Among
<1>4. top[h] \in pheap[h]
  BY <1>1, TopAmong DEF Among
<1>5. min # None => min \in Entities
  BY <1>1, <1>3 DEF Among
<1>6. (IF min = None THEN 0 ELSE Dur(min) - Dur(top[h])) \in Int
  BY <1>1, <1>4, <1>5, Durations
<1>7. min \in Entities \cup {None}
  BY <1>5
<1>8. QED
  BY <1>2, <1>3, <1>6, <1>7

LEMMA SetAliveInv == ASSUME Inv, Tops, SetAlive PROVE Inv'
<1> USE Names DEF Inv
<1>1. PICK v \in Writers : /\ v = wr["recv"] /\ pc["recv"] = "alive" /\ plock = None
                           /\ "recv" \in Threads /\ v \in Leases
  BY DEF SetAlive, Places, Threads, Leases
<1>2. /\ alive' = [alive EXCEPT ![v] = TRUE]
      /\ UNCHANGED <<qos, index, endpoints, ppref, deleting, gcq, kids, tm, rq, data, silent>>
  BY <1>1 DEF SetAlive
<1>3. /\ v \in endpoints \ gcq /\ Born(v) /\ wlock[v] = "recv"
      /\ \A u \in Threads : pc[u] = "dGc" => wr[u] # v
  BY <1>1 DEF Reliance, Locks
<1>4. life[PP] = "live"
  BY <1>3 DEF Participant, TypeOK, Leases
<1>5. \A x \in Writers : x # v => alive'[x] = alive[x]
  BY <1>2 DEF TypeOK
<1>6. alive'[v] /\ alive' \in [Writers -> BOOLEAN]
  BY <1>2 DEF TypeOK
<1>7. \A u \in Threads : u # "recv" /\ pc[u] \in {"nLease", "naSet", "dGc"} \cup Swapping =>
        wr[u] \in Writers /\ wr[u] # v
  <2>1. \A u \in Threads : pc[u] \notin Swapping
    BY <1>1 DEF Locks
  <2>2. \A u \in Threads : u # "recv" /\ pc[u] = "naSet" => wr[u] # v
    BY <1>3 DEF Locks
  <2>3. \A u \in Threads : pc[u] = "nLease" => wr[u] # v
    BY <1>3 DEF Born, Places, Own, Threads, Swapping
  <2>4. QED
    BY <1>3, <2>1, <2>2, <2>3, InHand
<1>8. ASSUME NEW q, NEW w, NEW l, NEW n, NEW r, Moves("recv", q, w, l, n, r), q \in {"idle",
    "retire"},
             q = "retire" => w = v /\ r = "done", \A x \in Writers : life'[x] = life[x]
      PROVE  /\ \A x \in Writers : Born(x)' <=> Born(x)
             /\ \A x \in Writers : Creating(x)' <=> Creating(x)
             /\ \A u \in Threads : Reliance(u)'
  <2>1. \A x \in Writers : Born(x)' <=> Born(x)
    BY <1>8 DEF Born, Moves, Threads
  <2>2. \A x \in Writers : Creating(x)' <=> Creating(x)
    BY <1>8 DEF Creating, Moves, Threads
  <2>3. \A u \in Threads : u # "recv" => wr'[u] = wr[u] /\ pc'[u] = pc[u]
    BY <1>8 DEF Moves
  <2>4. ~Deleting("recv")' /\ q # "dGc"
    BY <1>1, <1>8 DEF Deleting, Moves, Swapping
  <2>5. \A u \in Threads : u # "recv" =>
          /\ Deleting(u) => wr[u] \in endpoints' \ (index' \cup gcq') /\ ~Creating(wr[u])'
          /\ pc[u] \in {"alive"} \cup Swapping => wr[u] \in endpoints' \ gcq'
          /\ pc[u] \in {"alive", "naLock", "naSet"} => Born(wr[u])'
    BY <1>2, <2>1, <2>2, <2>3, InHand DEF Reliance, Swapping
  <2>6. \A u \in Threads : u # "recv" =>
          /\ pc[u] \in {"nLease", "naSet", "dGc"} \cup Swapping => alive'[wr[u]] = alive[wr[u]]
          /\ pc[u] = "nRef" => life'[wr[u]] = life[wr[u]]
    BY <1>5, <1>7, <1>8, InHand
  <2>7. \A u \in Threads : u # "recv" => Reliance(u)'
    <3> HIDE DEF Inv
    <3> QED
      BY <1>1, <1>8, <2>4, <2>5, <2>6, OthersRely DEF OthersKept
  <2>8. Reliance("recv")'
    <3>1. CASE q = "idle"
      BY <1>1, <1>8, <3>1, FreeRelies DEF Free
    <3>2. CASE q = "retire"
      <4>1. pc'["recv"] = "retire" /\ wr'["recv"] = v /\ ret'["recv"] = "done"
        BY <1>8, <3>2 DEF Moves
      <4>2. \A u \in Threads : pc'[u] = "dGc" => wr'[u] # v
        BY <1>3, <2>3, <4>1
      <4>3. QED
        BY <1>2, <1>3, <2>4, <4>1, <4>2 DEF Reliance, Swapping
    <3>3. QED
      BY <1>8, <3>1, <3>2
  <2>9. QED
    BY <2>1, <2>2, <2>7, <2>8
<1>9. CASE Watched(v)
  <2> DEFINE h == HeapOf(v)
             S == pheap[h] \cup {v}
  <2>1. h \in Heaps /\ S \in SUBSET Entities /\ (h = "auto" => PP \in S)
    BY <1>4 DEF HeapOf, Heaps, TypeOK, Entities, Participant
  <2>2. PICK min \in Entities \cup {None}, d \in Int : ChangeLeases("recv", h, S, min, d, "done") /\ Among(min, S)
    <3>1. AddLease("recv", v, "done")
      BY <1>1, <1>9 DEF SetAlive
    <3>2. QED
      BY <3>1, AddLeaseMin
  <2> HIDE DEF S
  <2>3. PICK q, w, l, n, r : Moves("recv", q, w, l, n, r) /\ Arrives("recv", "done", q, w, r)
    BY <1>1, <2>1, <2>2, ChangeControl
  <2>4. Locks' /\ LocksTyped
    BY <1>1, <1>3, <2>3, ArrivesLocks
  <2>5. Places'
    BY <1>1, <2>3, ArrivesPlaces
  <2>6. q \in {"idle", "retire"} /\ (q = "retire" => w = v /\ r = "done")
    BY <1>1, <2>3 DEF Arrives, GoesOn
  <2>7. /\ pheap' = [pheap EXCEPT ![h] = S] /\ pheap' \in [Heaps -> SUBSET Entities]
        /\ top' \in [Heaps -> Entities \cup {None}]
        /\ tend' \in [Leases -> Int] /\ tsched' \in [Leases -> Int]
        /\ minl' \in [Heaps -> Clones \cup {None}] /\ heap' \subseteq Leases
        /\ ent' \in [Leases -> Entities \cup {None}] /\ life' \in [Leases -> {"none", "live", "freed"}]
        /\ \A e \in Entities : life'[e] = life[e] /\ ent'[e] = ent[e] /\ (e \in heap' <=> e \in heap)
    <3> HIDE DEF Inv, h
    <3>1. Framed(h, S)
      BY <1>1, <2>1, <2>2, ChangeFrame
    <3>2. QED
      BY <3>1 DEF Framed
  <2>8. Awake
    BY <1>1, <2>1, <2>2, ChangeControl
  <2>9. TypeOK'
    BY <1>1, <1>2, <1>6, <2>3, <2>4, <2>6, <2>7, <2>8 DEF TypeOK, Moves, Awake, LocksTyped
  <2>10. \A x \in Writers : life'[x] = life[x] /\ ent'[x] = ent[x] /\ (x \in heap' <=> x \in heap)
    BY <2>7 DEF Entities
  <2>11. /\ \A x \in Writers : Born(x)' <=> Born(x)
         /\ \A x \in Writers : Creating(x)' <=> Creating(x)
         /\ \A u \in Threads : Reliance(u)'
    BY <1>8, <2>3, <2>6, <2>10
  <2>12. \A x \in Writers : Writer(x)'
    BY <1>2, <1>3, <1>5, <2>10, <2>11 DEF Writer
  <2>13. AliveInHeap'
    <3>1. \A g \in Heaps, x \in Writers : x # v => (x \in pheap'[g] <=> x \in pheap[g])
      BY <2>1, <2>7 DEF TypeOK, S
    <3>2. \A g \in Heaps : v \in pheap'[g] => g = h
      <4>1. \A g \in Heaps : v \in pheap[g] => g = h
        BY DEF AliveInHeap, Listed
      <4>2. QED
        BY <2>1, <2>7, <4>1 DEF TypeOK
    <3>3. v \in pheap'[h]
      BY <2>1, <2>7 DEF TypeOK, S
    <3>4. Listed(v)'
      BY <1>2, <1>3, <1>6, <1>9, <2>1, <2>11, <3>2, <3>3 DEF Listed, Watched, HeapOf
    <3>5. \A x \in Writers : x # v => Listed(x)'
      BY <1>2, <1>5, <2>11, <3>1, ListedKept DEF AliveInHeap
    <3>6. QED
      BY <3>4, <3>5 DEF AliveInHeap
  <2>14. Participant'
    <3>1. PP \in pheap'["auto"] <=> PP \in pheap["auto"]
      BY <2>1, <2>7 DEF TypeOK, Heaps, S
    <3>2. PP \in pheap'["man"] <=> PP \in pheap["man"]
      BY <2>1, <2>7 DEF TypeOK, Heaps, S
    <3>3. life'[PP] = life[PP] /\ ent'[PP] = ent[PP] /\ (PP \in heap' <=> PP \in heap)
      BY <2>7 DEF Entities
    <3>4. QED
      BY <1>2, <2>3, <2>6, <3>1, <3>2, <3>3 DEF Participant, Moves
  <2>15. Shortest' /\ Gone' /\ Supervised'
    <3>1. \A x \in Writers : x \in S => Born(x)'
      <4>1. \A x \in Writers : x \in S => Born(x)
        BY <1>3, <2>1 DEF S, AliveInHeap, Listed
      <4>2. QED
        BY <2>11, <4>1
    <3>2. \A x \in Writers : Born(x) => Born(x)'
      BY <2>11
    <3>3. "recv" # "gc" /\ gcq' = gcq /\ qos' = qos /\ index' = index
      BY <1>2
    <3> HIDE DEF Inv, h
    <3>4. QED
      BY <1>1, <1>4, <2>1, <2>2, <3>1, <3>2, <3>3, ChangeShortest
  <2>16. QED
    BY <2>4, <2>5, <2>9, <2>11, <2>12, <2>13, <2>14, <2>15
<1>10. CASE ~Watched(v)
  <2>1. /\ tend' = [tend EXCEPT ![v] = Dur(v)] /\ heap' = heap \cup {v}
        /\ tsched' = [tsched EXCEPT ![v] = IF v \in heap THEN Min({tsched[v], Dur(v)}) ELSE Dur(v)]
        /\ Continue("recv", "done", TRUE)
        /\ UNCHANGED <<ent, life, minl, pheap, top>>
    BY <1>1, <1>10 DEF SetAlive
  <2>2. Leaves("recv") /\ Awake /\ Release("recv")
    BY <1>1, <2>1, ContinueGoes DEF Goes
  <2>3. tend' \in [Leases -> Int] /\ tsched' \in [Leases -> Int]
    <3>1. Dur(v) \in Int /\ tsched[v] \in Int
      BY <1>1, ProxyLeaseConstants DEF TypeOK, Dur
    <3>2. Min({tsched[v], Dur(v)}) \in Int
      BY <3>1 DEF Min
    <3>3. QED
      BY <2>1, <3>1, <3>2 DEF TypeOK
  <2>4. Locks' /\ LocksTyped
    BY <1>1, <2>2, LocksReleased DEF Leaves, Swapping, Locking
  <2>5. Places'
    BY <2>2 DEF Places, Leaves, Moves, Own, Threads
  <2>6. TypeOK'
    BY <1>1, <1>2, <1>6, <2>1, <2>2, <2>3, <2>4 DEF TypeOK, Leaves, Moves, Awake, LocksTyped
  <2>7. /\ \A x \in Writers : Born(x)' <=> Born(x)
        /\ \A x \in Writers : Creating(x)' <=> Creating(x)
        /\ \A u \in Threads : Reliance(u)'
    BY <1>8, <2>1, <2>2 DEF Leaves
  <2>8. \A x \in Writers : Writer(x)'
    BY <1>2, <1>3, <1>5, <2>1, <2>7 DEF Writer
  <2>9. AliveInHeap'
    <3>1. Listed(v)'
      BY <1>2, <1>10, <2>1 DEF AliveInHeap, Listed, Watched
    <3>2. \A x \in Writers : x # v => Listed(x)'
      BY <1>2, <1>5, <2>1, <2>7, ListedKept DEF AliveInHeap
    <3>3. QED
      BY <3>1, <3>2 DEF AliveInHeap
  <2>10. Participant'
    BY <1>1, <1>2, <2>1, <2>2 DEF Participant, Leaves, Moves
  <2>11. Calm
    BY <1>2, <2>1, <2>7 DEF Calm, Fewer
  <2>12. Shortest' /\ Gone'
    BY <1>1, <2>2, <2>11, CalmShortest DEF Leaves, Swapping
  <2>13. Supervised'
    BY <1>1, <1>2, <2>2, <2>11, CalmSupervised DEF Acting, Leaves, Swapping
  <2>14. QED
    BY <2>4, <2>5, <2>6, <2>7, <2>8, <2>9, <2>10, <2>12, <2>13
<1>11. QED
  BY <1>9, <1>10

LEMMA SetNotAliveInv == ASSUME Inv, Tops, NEW t \in {"disc", "gc"}, SetNotAlive(t) PROVE Inv'
<1> USE Names DEF Inv
<1>1. PICK v \in Writers : /\ v = wr[t] /\ pc[t] = "naSet" /\ plock = None
                           /\ t \in Threads /\ v \in Leases
  BY DEF SetNotAlive, Places, Threads, Leases
<1>2. /\ alive' = [alive EXCEPT ![v] = FALSE]
      /\ UNCHANGED <<qos, index, endpoints, ppref, deleting, gcq, kids, tm, rq, data, silent>>
  BY <1>1 DEF SetNotAlive
<1>3. Reliance(t) /\ alive[v] /\ Born(v) /\ v \in endpoints \ gcq /\ wlock[v] = t
  BY <1>1 DEF Reliance, Locks, Writer
<1>4. life[PP] = "live"
  BY <1>3 DEF Participant, TypeOK, Leases
<1>5. \A x \in Writers : x # v => alive'[x] = alive[x]
  BY <1>2 DEF TypeOK
<1>6. ~alive'[v] /\ alive' \in [Writers -> BOOLEAN]
  BY <1>2 DEF TypeOK
<1>7. /\ \A u \in Threads : u # t /\ pc[u] \in {"nLease", "naSet", "dGc"} \cup Swapping =>
           wr[u] \in Writers /\ wr[u] # v
      /\ \A u \in Threads : u # t /\ pc[u] \in {"alive"} \cup Swapping => wr[u] # v
  <2>1. \A u \in Threads : pc[u] \notin Swapping
    BY <1>1 DEF Locks
  <2>2. \A u \in Threads : u # t /\ pc[u] \in {"alive", "naSet"} => wr[u] # v
    BY <1>3 DEF Locks
  <2>3. \A u \in Threads : pc[u] = "nLease" => wr[u] # v
    BY <1>3 DEF Born, Places, Own, Threads, Swapping
  <2>4. \A u \in Threads : pc[u] = "dGc" => wr[u] # v
    BY <1>3 DEF Reliance, Places, Own, Threads, Swapping
  <2>5. QED
    BY <2>1, <2>2, <2>3, <2>4, InHand
<1>8. PICK next \in {"done", "dGc"} : /\ next = ret[t] /\ (t = "disc" => next = "dGc")
                                     /\ (Deleting(t) <=> next = "dGc")
  BY <1>1 DEF Places, TypeOK, Threads, Deleting, Swapping
<1>9. ASSUME NEW q, NEW w, NEW l, NEW n, NEW r, Moves(t, q, w, l, n, r), q \in {"idle", "dGc",
    "retire"},
             q # "idle" => w = v /\ r = next, q = "dGc" => next = "dGc",
             \A x \in Writers : life'[x] = life[x]
      PROVE  /\ \A x \in Writers : Born(x)' <=> Born(x)
             /\ \A x \in Writers : Creating(x)' <=> Creating(x)
             /\ \A u \in Threads : Reliance(u)'
  <2>1. \A x \in Writers : Born(x)' <=> Born(x)
    BY <1>1, <1>9 DEF Born, Moves, Threads
  <2>2. \A x \in Writers : Creating(x)' <=> Creating(x)
    BY <1>1, <1>9 DEF Creating, Moves, Threads, Swapping
  <2>3. \A u \in Threads : u # t => wr'[u] = wr[u] /\ pc'[u] = pc[u] /\ (Deleting(u)' <=> Deleting(u))
    BY <1>9 DEF Moves, Deleting
  <2>4. Deleting(t)' => Deleting(t) /\ w = v
    BY <1>8, <1>9 DEF Deleting, Moves, Swapping
  <2>5. \A u \in Threads : u # t =>
          /\ Deleting(u) => wr[u] \in endpoints' \ (index' \cup gcq') /\ ~Creating(wr[u])'
          /\ pc[u] \in {"alive"} \cup Swapping => wr[u] \in endpoints' \ gcq'
          /\ pc[u] \in {"alive", "naLock", "naSet"} => Born(wr[u])'
    BY <1>2, <2>1, <2>2, <2>3, InHand DEF Reliance, Swapping
  <2>6. \A u \in Threads : u # t =>
          /\ pc[u] \in {"nLease", "naSet", "dGc"} \cup Swapping => alive'[wr[u]] = alive[wr[u]]
          /\ pc[u] = "nRef" => life'[wr[u]] = life[wr[u]]
    BY <1>5, <1>7, <1>9, InHand
  <2>7. \A u \in Threads : u # t =>
          /\ Deleting(t)' /\ Deleting(u) => wr[u] # w
          /\ q = "dGc" /\ pc[u] \in {"alive"} \cup Swapping => wr[u] # w
    BY <1>1, <1>3, <1>7, <1>9, <2>4 DEF Reliance
  <2>8. \A u \in Threads : u # t => Reliance(u)'
    <3> HIDE DEF Inv
    <3> QED
      BY <1>1, <1>9, <2>5, <2>6, <2>7, OthersRely DEF OthersKept
  <2>9. Reliance(t)'
    <3>1. CASE q = "idle"
      BY <1>1, <1>9, <3>1, FreeRelies DEF Free
    <3>2. CASE q # "idle"
      <4>1. pc'[t] = q /\ wr'[t] = v /\ ret'[t] = next
        BY <1>9, <3>2 DEF Moves
      <4>2. \A u \in Threads : u # t /\ pc'[u] = "dGc" => wr'[u] # v
        BY <1>7, <2>3
      <4>3. Deleting(t)' => /\ v \in endpoints' \ (index' \cup gcq') /\ ~Creating(v)'
                            /\ \A u \in Threads : Deleting(u)' /\ wr'[u] = v => u = t
        BY <1>1, <1>2, <1>3, <2>2, <2>3, <2>4 DEF Reliance
      <4>4. QED
        BY <1>2, <1>3, <1>6, <1>9, <3>2, <4>1, <4>2, <4>3 DEF Reliance, Swapping
    <3>3. QED
      BY <3>1, <3>2
  <2>10. QED
    BY <2>1, <2>2, <2>8, <2>9
<1>10. CASE Watched(v)
  <2> DEFINE h == HeapOf(v)
             S == pheap[h] \ {v}
  <2>1. h \in Heaps /\ S \in SUBSET Entities /\ (h = "auto" => PP \in S)
    BY <1>4 DEF HeapOf, Heaps, TypeOK, Entities, Participant
  <2>2. PICK min \in Entities \cup {None}, d \in Int : ChangeLeases(t, h, S, min, d, next) /\ Among(min, S)
    <3>1. RemoveLease(t, v, next) /\ v \in pheap[h]
      BY <1>1, <1>3, <1>8, <1>10 DEF SetNotAlive, AliveInHeap, Listed
    <3>2. QED
      BY <3>1, RemoveLeaseMin
  <2> HIDE DEF S
  <2>3. PICK q, w, l, n, r : Moves(t, q, w, l, n, r) /\ Arrives(t, next, q, w, r)
    BY <1>1, <2>1, <2>2, ChangeControl
  <2>4. Locks' /\ LocksTyped
    BY <1>1, <1>3, <2>3, ArrivesLocks
  <2>5. Places'
    BY <1>1, <1>8, <2>3, ArrivesPlaces
  <2>6. q \in {"idle", "dGc", "retire"} /\ (q # "idle" => w = v /\ r = next) /\ (q = "dGc" => next = "dGc")
    BY <1>1, <1>8, <2>3 DEF Arrives, GoesOn
  <2>7. /\ pheap' = [pheap EXCEPT ![h] = S] /\ pheap' \in [Heaps -> SUBSET Entities]
        /\ top' \in [Heaps -> Entities \cup {None}]
        /\ tend' \in [Leases -> Int] /\ tsched' \in [Leases -> Int]
        /\ minl' \in [Heaps -> Clones \cup {None}] /\ heap' \subseteq Leases
        /\ ent' \in [Leases -> Entities \cup {None}] /\ life' \in [Leases -> {"none", "live", "freed"}]
        /\ \A e \in Entities : life'[e] = life[e] /\ ent'[e] = ent[e] /\ (e \in heap' <=> e \in heap)
    <3> HIDE DEF Inv, h
    <3>1. Framed(h, S)
      BY <1>1, <2>1, <2>2, ChangeFrame
    <3>2. QED
      BY <3>1 DEF Framed
  <2>8. Awake
    BY <1>1, <2>1, <2>2, ChangeControl
  <2>9. TypeOK'
    BY <1>1, <1>2, <1>6, <2>3, <2>4, <2>6, <2>7, <2>8 DEF TypeOK, Moves, Awake, LocksTyped,
        Threads
  <2>10. \A x \in Writers : life'[x] = life[x] /\ ent'[x] = ent[x] /\ (x \in heap' <=> x \in heap)
    BY <2>7 DEF Entities
  <2>11. /\ \A x \in Writers : Born(x)' <=> Born(x)
         /\ \A x \in Writers : Creating(x)' <=> Creating(x)
         /\ \A u \in Threads : Reliance(u)'
    BY <1>9, <2>3, <2>6, <2>10
  <2>12. \A x \in Writers : Writer(x)'
    BY <1>2, <1>5, <1>6, <2>10, <2>11 DEF Writer
  <2>13. AliveInHeap'
    <3>1. \A g \in Heaps, x \in Writers : x # v => (x \in pheap'[g] <=> x \in pheap[g])
      BY <2>1, <2>7 DEF TypeOK, S
    <3>2. \A g \in Heaps : v \notin pheap'[g]
      <4>1. \A g \in Heaps : v \in pheap[g] => g = h
        BY DEF AliveInHeap, Listed
      <4>2. QED
        BY <2>1, <2>7, <4>1 DEF TypeOK, S
    <3>3. Listed(v)'
      BY <1>6, <3>2 DEF Listed
    <3>4. \A x \in Writers : x # v => Listed(x)'
      BY <1>2, <1>5, <2>11, <3>1, ListedKept DEF AliveInHeap
    <3>5. QED
      BY <3>3, <3>4 DEF AliveInHeap
  <2>14. Participant'
    <3>1. PP \in pheap'["auto"] <=> PP \in pheap["auto"]
      BY <2>1, <2>7 DEF TypeOK, Heaps, S
    <3>2. PP \in pheap'["man"] <=> PP \in pheap["man"]
      BY <2>1, <2>7 DEF TypeOK, Heaps, S
    <3>3. life'[PP] = life[PP] /\ ent'[PP] = ent[PP] /\ (PP \in heap' <=> PP \in heap)
      BY <2>7 DEF Entities
    <3>4. QED
      BY <1>2, <2>3, <2>6, <3>1, <3>2, <3>3 DEF Participant, Moves
  <2>15. Shortest' /\ Gone' /\ Supervised'
    <3>1. \A x \in Writers : x \in S => Born(x)'
      BY <2>1, <2>11 DEF S, AliveInHeap, Listed
    <3>2. \A x \in Writers : Born(x) => Born(x)'
      BY <2>11
    <3>3. v \notin S /\ gcq' = gcq /\ qos' = qos /\ index' = index
      BY <1>2 DEF S
    <3>4. h = HeapOf(wr[t]) /\ wr[t] \notin S /\ wr[t] \in Writers
      BY <1>1, <3>3
    <3> HIDE DEF Inv, h
    <3>5. QED
      BY <1>1, <1>4, <2>1, <2>2, <3>1, <3>2, <3>3, <3>4, ChangeShortest
  <2>16. QED
    BY <2>4, <2>5, <2>9, <2>11, <2>12, <2>13, <2>14, <2>15
<1>11. CASE ~Watched(v)
  <2>1. Continue(t, next, TRUE) /\ UNCHANGED <<minl, pheap, top, tend, tsched, ent, heap, life>>
    BY <1>1, <1>8, <1>11 DEF SetNotAlive
  <2>2. Goes(t, next) /\ Awake /\ Release(t)
    BY <1>1, <2>1, ContinueGoes DEF Labels
  <2>3. PICK q, w, l, n, r : Moves(t, q, w, l, n, r) /\ GoesOn(t, next, q, w, r)
    BY <2>2, GoesMoves
  <2>4. q \in {"idle", "dGc"} /\ (q # "idle" => w = v /\ r = next) /\ (q = "dGc" => next = "dGc")
    BY <1>1, <1>8, <2>3 DEF GoesOn
  <2>5. Arrives(t, next, q, w, r)
    BY <2>2, <2>3 DEF Arrives
  <2>6. Locks' /\ LocksTyped
    BY <1>1, <1>3, <2>3, <2>5, ArrivesLocks
  <2>7. Places'
    BY <1>1, <1>8, <2>3, <2>5, ArrivesPlaces
  <2>8. TypeOK'
    BY <1>1, <1>2, <1>6, <2>1, <2>2, <2>3, <2>4, <2>6 DEF TypeOK, Moves, Awake, LocksTyped,
        Threads
  <2>9. /\ \A x \in Writers : Born(x)' <=> Born(x)
        /\ \A x \in Writers : Creating(x)' <=> Creating(x)
        /\ \A u \in Threads : Reliance(u)'
    BY <1>9, <2>1, <2>3, <2>4
  <2>10. \A x \in Writers : Writer(x)'
    BY <1>2, <1>5, <1>6, <2>1, <2>9 DEF Writer
  <2>11. AliveInHeap'
    <3>1. Listed(v)'
      BY <1>2, <1>6, <1>11, <2>1 DEF AliveInHeap, Listed, Watched
    <3>2. \A x \in Writers : x # v => Listed(x)'
      BY <1>2, <1>5, <2>1, <2>9, ListedKept DEF AliveInHeap
    <3>3. QED
      BY <3>1, <3>2 DEF AliveInHeap
  <2>12. Participant'
    <3>1. \A u \in Threads : pc'[u] = "pSnap" => pc[u] = "pSnap"
      BY <2>3, <2>4 DEF Moves
    <3>2. QED
      BY <1>2, <2>1, <3>1 DEF Participant
  <2>13. Calm
    BY <1>2, <2>1, <2>9 DEF Calm, Fewer
  <2>14. Shortest' /\ Gone'
    BY <1>1, <2>3, <2>4, <2>13, CalmShortest DEF Swapping
  <2>15. Supervised'
    <3>1. \A u \in Threads, h \in Heaps : Swaps(u, h)' <=> Swaps(u, h)
      BY <1>1, <2>1, <2>3, <2>4 DEF Swaps, Moves, Swapping
    <3>2. ASSUME PP \in index, \A u \in Threads : ~Swaps(u, "auto")
          PROVE  v # ent[minl["auto"]]
      BY <1>1, <1>11, <3>2, AutoIsMin DEF AliveInHeap, Listed, Heaps
    <3>3. QED
      BY <1>1, <1>2, <2>1, <2>3, <3>1, <3>2 DEF Supervised, Moves, Threads, Heaps
  <2>16. QED
    BY <2>6, <2>7, <2>8, <2>9, <2>10, <2>11, <2>12, <2>14, <2>15
<1>12. QED
  BY <1>10, <1>11

LEMMA NewPwrLeaseInv == ASSUME Inv, Tops, NewPwrLease PROVE Inv'
<1> USE Names DEF Inv
<1>1. PICK v \in Writers : v = wr["disc"] /\ pc["disc"] = "nLease" /\ "disc" \in Threads /\ v \in Leases
  BY DEF NewPwrLease, Places, Threads, Leases
<1>2. UNCHANGED <<qos, index, endpoints, ppref, deleting, alive, gcq, kids, tm, rq, data, silent>>
  BY DEF NewPwrLease
<1>3. Creating(v) /\ v \in endpoints \ gcq /\ v \notin index /\ alive[v] /\ life[v] = "live" /\ ent[v] = v
  BY <1>1 DEF Creating, Writer, Reliance
<1>4. life[PP] = "live"
  BY <1>3 DEF Participant, TypeOK, Leases
<1>5. ASSUME NEW q \in {"nInsert", "retire"}, NEW l, NEW n, NEW r, Moves("disc", q, v, l, n, r),
             q = "retire" => r = "nInsert", \A x \in Writers : life'[x] = life[x]
      PROVE  /\ \A x \in Writers : x # v => (Born(x)' <=> Born(x))
             /\ Born(v)' /\ ~Born(v)
             /\ \A x \in Writers : Creating(x)' <=> Creating(x)
             /\ \A u \in Threads : Reliance(u)'
  <2>1. \A x \in Writers : x # v => (Born(x)' <=> Born(x))
    BY <1>1, <1>5 DEF Born, Moves
  <2>2. Born(v)' /\ ~Born(v)
    BY <1>1, <1>3, <1>5 DEF Born, Moves
  <2>3. \A x \in Writers : Creating(x)' <=> Creating(x)
    BY <1>1, <1>5 DEF Creating, Moves, Swapping
  <2>4. \A u \in Threads : u # "disc" => wr'[u] = wr[u] /\ pc'[u] = pc[u]
    BY <1>5 DEF Moves
  <2>5. ~Deleting("disc")' /\ q # "dGc"
    BY <1>1, <1>5 DEF Deleting, Moves, Swapping
  <2>6. \A x \in Writers : Born(x) => Born(x)'
    BY <2>1, <2>2
  <2>7. \A u \in Threads : u # "disc" =>
          /\ Deleting(u) => wr[u] \in endpoints' \ (index' \cup gcq') /\ ~Creating(wr[u])'
          /\ pc[u] \in {"alive"} \cup Swapping => wr[u] \in endpoints' \ gcq'
          /\ pc[u] \in {"alive", "naLock", "naSet"} => Born(wr[u])'
    BY <1>2, <2>3, <2>4, <2>6, InHand DEF Reliance, Swapping
  <2>8. \A u \in Threads : u # "disc" => (pc[u] = "nRef" => life'[wr[u]] = life[wr[u]])
    BY <1>5, InHand
  <2>9. alive' = alive
    BY <1>2
  <2>10. \A u \in Threads : u # "disc" => Reliance(u)'
    <3> HIDE DEF Inv
    <3> QED
      BY <1>1, <1>5, <2>5, <2>7, <2>8, <2>9, OthersRely DEF OthersKept
  <2>11. Reliance("disc")'
    <3>1. CASE q = "nInsert"
      BY <1>1, <1>5, <3>1, FreeRelies
    <3>2. CASE q = "retire"
      <4>1. pc'["disc"] = "retire" /\ wr'["disc"] = v /\ ret'["disc"] = "nInsert"
        BY <1>1, <1>5, <3>2 DEF Moves
      <4>2. \A u \in Threads : pc[u] = "dGc" => wr[u] # v
        BY <1>3 DEF Reliance, Deleting
      <4>3. \A u \in Threads : pc'[u] = "dGc" => wr'[u] # v
        BY <2>4, <4>1, <4>2
      <4>4. QED
        BY <1>2, <1>3, <2>5, <4>1, <4>3 DEF Reliance, Swapping
    <3>3. QED
      BY <3>1, <3>2
  <2>12. QED
    BY <2>1, <2>2, <2>3, <2>10, <2>11
<1>6. CASE Watched(v) /\ plock = None /\ AddLease("disc", v, "nInsert")
  <2> DEFINE h == HeapOf(v)
             S == pheap[h] \cup {v}
  <2>1. h \in Heaps /\ S \in SUBSET Entities /\ (h = "auto" => PP \in S)
    BY <1>4 DEF HeapOf, Heaps, TypeOK, Entities, Participant
  <2>2. PICK min \in Entities \cup {None}, d \in Int : ChangeLeases("disc", h, S, min, d, "nInsert") /\ Among(min, S)
    BY <1>6, AddLeaseMin
  <2> HIDE DEF S
  <2>3. PICK q, w, l, n, r : Moves("disc", q, w, l, n, r) /\ Arrives("disc", "nInsert", q, w, r)
    BY <1>1, <2>1, <2>2, ChangeControl
  <2>4. Locks' /\ LocksTyped
    BY <1>1, <1>6, <2>3, ArrivesLocks
  <2>5. Places'
    BY <1>1, <2>3, ArrivesPlaces
  <2>6. q \in {"nInsert", "retire"} /\ w = v /\ (q = "retire" => r = "nInsert")
    BY <1>1, <2>3 DEF Arrives, GoesOn
  <2>7. /\ pheap' = [pheap EXCEPT ![h] = S] /\ pheap' \in [Heaps -> SUBSET Entities]
        /\ top' \in [Heaps -> Entities \cup {None}]
        /\ tend' \in [Leases -> Int] /\ tsched' \in [Leases -> Int]
        /\ minl' \in [Heaps -> Clones \cup {None}] /\ heap' \subseteq Leases
        /\ ent' \in [Leases -> Entities \cup {None}] /\ life' \in [Leases -> {"none", "live", "freed"}]
        /\ \A e \in Entities : life'[e] = life[e] /\ ent'[e] = ent[e] /\ (e \in heap' <=> e \in heap)
    <3> HIDE DEF Inv, h
    <3>1. Framed(h, S)
      BY <1>1, <2>1, <2>2, ChangeFrame
    <3>2. QED
      BY <3>1 DEF Framed
  <2>8. Awake
    BY <1>1, <2>1, <2>2, ChangeControl
  <2>9. TypeOK'
    BY <1>1, <1>2, <2>3, <2>4, <2>6, <2>7, <2>8 DEF TypeOK, Moves, Awake, LocksTyped, Threads
  <2>10. \A x \in Writers : life'[x] = life[x] /\ ent'[x] = ent[x] /\ (x \in heap' <=> x \in heap)
    BY <2>7 DEF Entities
  <2>11. /\ \A x \in Writers : x # v => (Born(x)' <=> Born(x))
         /\ Born(v)' /\ ~Born(v)
         /\ \A x \in Writers : Creating(x)' <=> Creating(x)
         /\ \A u \in Threads : Reliance(u)'
    BY <1>5, <2>3, <2>6, <2>10
  <2>12. \A x \in Writers : Writer(x)'
    BY <1>2, <2>10, <2>11 DEF Writer
  <2>13. AliveInHeap'
    <3>1. \A g \in Heaps, x \in Writers : x # v => (x \in pheap'[g] <=> x \in pheap[g])
      BY <2>1, <2>7 DEF TypeOK, S
    <3>2. \A g \in Heaps : v \in pheap'[g] => g = h
      <4>1. \A g \in Heaps : v \in pheap[g] => g = h
        BY DEF AliveInHeap, Listed
      <4>2. QED
        BY <2>1, <2>7, <4>1 DEF TypeOK
    <3>3. v \in pheap'[h]
      BY <2>1, <2>7 DEF TypeOK, S
    <3>4. Listed(v)'
      BY <1>2, <1>3, <1>6, <2>1, <2>11, <3>2, <3>3 DEF Listed, Watched, HeapOf
    <3>5. \A x \in Writers : x # v => Listed(x)'
      BY <1>2, <2>11, <3>1, ListedKept DEF AliveInHeap
    <3>6. QED
      BY <3>4, <3>5 DEF AliveInHeap
  <2>14. Participant'
    <3>1. PP \in pheap'["auto"] <=> PP \in pheap["auto"]
      BY <2>1, <2>7 DEF TypeOK, Heaps, S
    <3>2. PP \in pheap'["man"] <=> PP \in pheap["man"]
      BY <2>1, <2>7 DEF TypeOK, Heaps, S
    <3>3. life'[PP] = life[PP] /\ ent'[PP] = ent[PP] /\ (PP \in heap' <=> PP \in heap)
      BY <2>7 DEF Entities
    <3>4. QED
      BY <1>2, <2>3, <2>6, <3>1, <3>2, <3>3 DEF Participant, Moves
  <2>15. Shortest' /\ Gone' /\ Supervised'
    <3>1. \A x \in Writers : x \in S => Born(x)'
      BY <2>1, <2>11 DEF S, AliveInHeap, Listed
    <3>2. \A x \in Writers : Born(x) => Born(x)'
      BY <2>11
    <3>3. "disc" # "gc" /\ gcq' = gcq /\ qos' = qos /\ index' = index
      BY <1>2
    <3> HIDE DEF Inv, h
    <3>4. QED
      BY <1>1, <1>4, <1>6, <2>1, <2>2, <3>1, <3>2, <3>3, ChangeShortest
  <2>16. QED
    BY <2>4, <2>5, <2>9, <2>11, <2>12, <2>13, <2>14, <2>15
<1>7. CASE /\ ~Watched(v) /\ NewLease(v, v, Dur(v), TRUE) /\ Continue("disc", "nInsert", FALSE)
           /\ UNCHANGED <<minl, pheap, top>>
  <2>1. /\ life' = life /\ ent' = ent /\ heap' = heap \cup {v}
        /\ tend' = [tend EXCEPT ![v] = Dur(v)] /\ tsched' = [tsched EXCEPT ![v] = Dur(v)]
    BY <1>1, <1>3, <1>7 DEF NewLease, TypeOK
  <2>2. Stays("disc", "nInsert") /\ Awake /\ Keep
    BY <1>1, <1>7, ContinueGoes DEF Goes, Labels
  <2>3. tend' \in [Leases -> Int] /\ tsched' \in [Leases -> Int]
    <3>1. Dur(v) \in Int
      BY <1>1, ProxyLeaseConstants DEF TypeOK, Dur
    <3>2. QED
      BY <2>1, <3>1 DEF TypeOK
  <2>4. Locks' /\ LocksTyped
    BY <1>1, <2>2, LocksKept DEF Stays, Swapping, Locking
  <2>5. Places'
    BY <1>1, <2>2 DEF Places, Stays, Moves, Own, Threads, Swapping
  <2>6. TypeOK'
    BY <1>1, <1>2, <1>7, <2>1, <2>2, <2>3, <2>4 DEF TypeOK, Stays, Moves, Awake, LocksTyped,
        Threads
  <2>7. /\ \A x \in Writers : x # v => (Born(x)' <=> Born(x))
        /\ Born(v)' /\ ~Born(v)
        /\ \A x \in Writers : Creating(x)' <=> Creating(x)
        /\ \A u \in Threads : Reliance(u)'
    BY <1>1, <1>5, <2>1, <2>2 DEF Stays
  <2>8. \A x \in Writers : Writer(x)'
    BY <1>2, <2>1, <2>7 DEF Writer
  <2>9. AliveInHeap'
    <3>1. Listed(v)'
      BY <1>2, <1>7 DEF AliveInHeap, Listed, Watched
    <3>2. \A x \in Writers : x # v => Listed(x)'
      BY <1>2, <1>7, <2>7, ListedKept DEF AliveInHeap
    <3>3. QED
      BY <3>1, <3>2 DEF AliveInHeap
  <2>10. Participant'
    BY <1>1, <1>2, <1>7, <2>1, <2>2 DEF Participant, Stays, Moves
  <2>11. Calm
    BY <1>2, <1>7, <2>1, <2>7 DEF Calm, Fewer
  <2>12. Shortest' /\ Gone'
    BY <1>1, <2>2, <2>11, CalmShortest DEF Stays, Swapping
  <2>13. Supervised'
    BY <1>1, <1>2, <2>2, <2>11, CalmSupervised DEF Acting, Stays, Swapping
  <2>14. QED
    BY <2>4, <2>5, <2>6, <2>7, <2>8, <2>9, <2>10, <2>12, <2>13
<1>8. QED
  BY <1>1, <1>6, <1>7 DEF NewPwrLease

-----------------------------------------------------------------------------
(* The theorems *)

LEMMA InitInv == Init => Inv /\ Tops
<1> SUFFICES ASSUME Init PROVE Inv /\ Tops
  OBVIOUS
<1> USE Names
<1>1. PICK c \in Clones :
        /\ minl = [h \in {"auto", "man"} |-> IF h = "auto" THEN c ELSE None]
        /\ heap = {c}
        /\ ent = [l \in Leases |-> IF l \notin Clones THEN l ELSE IF l = c THEN PP ELSE None]
        /\ life = [l \in Leases |-> IF l \in {PP, c} THEN "live" ELSE "none"]
  BY DEF Init
<1>2. /\ PP \in Leases /\ c \in Leases /\ Clones \subseteq Leases /\ Writers \subseteq Leases
      /\ Entities = {PP} \cup Writers
  BY DEF Leases, Entities
<1>3. Dur(PP) \in Int
  BY ProxyLeaseConstants DEF Dur
<1>4. TypeOK
  <2>1. /\ qos \in [Writers -> QoS] /\ index \subseteq Entities /\ endpoints \subseteq Writers
        /\ gcq \subseteq Leases /\ alive \in [Writers -> BOOLEAN] /\ ppref \in BOOLEAN
        /\ deleting \in BOOLEAN
    BY <1>2 DEF Init
  <2>2. /\ minl \in [Heaps -> Clones \cup {None}] /\ pheap \in [Heaps -> SUBSET Entities]
        /\ top \in [Heaps -> Entities \cup {None}]
    BY <1>1, <1>2 DEF Init, Heaps
  <2>3. /\ ent \in [Leases -> Entities \cup {None}] /\ heap \subseteq Leases
        /\ life \in [Leases -> {"none", "live", "freed"}]
    BY <1>1, <1>2 DEF Leases
  <2>4. /\ pc \in [Threads -> Labels] /\ wr \in [Threads -> Entities \cup {None}]
        /\ lp \in [Threads -> Leases \cup {None}] /\ new \in [Threads -> Clones \cup {None}]
        /\ kids \in [Threads -> SUBSET Entities] /\ ret \in [Threads -> {"done", "dGc", "nInsert"}]
    BY DEF Init, Labels
  <2>5. /\ rq \in Seq({"auto", "man", "own", "lock"}) /\ (pc["recv"] = "renew" => rq # <<>>)
        /\ wlock \in [Writers -> Threads \cup {None}] /\ plock \in Threads \cup {None}
        /\ tm \in Int /\ awake \subseteq Threads /\ blk \in [Leases -> SUBSET Threads]
        /\ data \in BOOLEAN /\ silent \in BOOLEAN
    <3>1. rq = <<>> /\ <<>> \in Seq({"auto", "man", "own", "lock"}) /\ tm = 0 /\ awake = {}
      BY DEF Init
    <3>2. pc["recv"] = "idle"
      BY DEF Init, Threads
    <3>3. wlock \in [Writers -> Threads \cup {None}] /\ plock \in Threads \cup {None}
      BY DEF Init
    <3>4. blk \in [Leases -> SUBSET Threads]
      BY DEF Init
    <3>5. data \in BOOLEAN /\ silent \in BOOLEAN
      BY DEF Init
    <3>6. QED
      BY <3>1, <3>2, <3>3, <3>4, <3>5
  <2>6. tend \in [Leases -> Int] /\ tsched \in [Leases -> Int]
    BY <1>3 DEF Init
  <2>7. QED
    BY <2>1, <2>2, <2>3, <2>4, <2>5, <2>6 DEF TypeOK
<1>5. \A t \in Threads : pc[t] = "idle" /\ ret[t] = "done" /\ kids[t] = {} /\ pc[t] \notin Swapping
  BY DEF Init, Swapping
<1>6. Places /\ Locks
  BY <1>5 DEF Init, Places, Locks, Own, Threads, Swapping
<1>7. \A w \in Writers : ~Creating(w) /\ life[w] = "none" /\ ent[w] = w /\ w \notin heap
  BY <1>1, <1>2, <1>5 DEF Creating, Threads, Swapping
<1>8. \A w \in Writers : Writer(w)
  BY <1>7 DEF Init, Writer
<1>9. \A t \in Threads : Reliance(t)
  BY <1>5 DEF Reliance, Deleting, Swapping
<1>10. AliveInHeap
  BY DEF Init, AliveInHeap, Listed, Heaps
<1>11. life[PP] = "live" /\ ent[PP] = PP /\ pheap["auto"] = {PP} /\ pheap["man"] = {}
  BY <1>1, <1>2 DEF Init
<1>12. Participant
  BY <1>1, <1>5, <1>11 DEF Init, Participant, Heaps
<1>13. top["auto"] = PP /\ top["man"] = None
  BY DEF Init
<1>14. minl["auto"] = c /\ minl["man"] = None /\ life[c] = "live" /\ ent[c] = PP
  BY <1>1, <1>2
<1>15. \A h \in Heaps : IsMin(h, minl[h])
  BY <1>11, <1>13, <1>14 DEF IsMin, Heaps
<1>16. ASSUME NEW x \in Clones PROVE Clone(x)
  <2>1. x # c => x \notin heap /\ life[x] = "none" /\ ent[x] = None
    BY <1>1, <1>2
  <2>2. gcq = {}
    BY DEF Init
  <2>3. QED
    BY <1>14, <2>1, <2>2 DEF Clone, Heaps
<1>17. Shortest
  BY <1>5, <1>14, <1>15, <1>16 DEF Shortest, Threads
<1>18. Gone /\ Supervised
  BY <1>1, <1>11, <1>14 DEF Gone, Supervised
<1>19. Tops
  <2>1. Dur(PP) <= Dur(PP)
    BY <1>3
  <2>2. QED
    BY <1>11, <1>13, <2>1 DEF Tops, MinLeases, Heaps
<1>20. QED
  BY <1>4, <1>6, <1>8, <1>9, <1>10, <1>12, <1>17, <1>18, <1>19 DEF Inv

\* The minimum of a heap stays right: only an insertion, a removal and the end of
\* the participant change a heap.
LEMMA TopsKept == ASSUME Tops, UNCHANGED <<qos, pheap, top>> PROVE Tops'
  BY DEF Tops, MinLeases, Dur

LEMMA TopsChanged ==
  ASSUME TypeOK, Tops, qos' = qos, NEW h \in Heaps, NEW S, NEW min \in MinLeases(S),
         pheap' = [pheap EXCEPT ![h] = S], top' = [top EXCEPT ![h] = min]
  PROVE  Tops'
<1>1. /\ \A g \in Heaps : g # h => pheap'[g] = pheap[g] /\ top'[g] = top[g]
      /\ pheap'[h] = S /\ top'[h] = min
  BY DEF TypeOK
<1>2. ASSUME NEW g \in Heaps, g # h PROVE (top[g] \in MinLeases(pheap[g]))'
  <2>1. top[g] \in MinLeases(pheap[g]) /\ pheap'[g] = pheap[g] /\ top'[g] = top[g]
    BY <1>1, <1>2 DEF Tops
  <2>2. QED
    BY <2>1 DEF MinLeases, Dur
<1>3. (top[h] \in MinLeases(pheap[h]))'
  BY <1>1 DEF MinLeases, Dur
<1>4. QED
  BY <1>2, <1>3 DEF Tops

LEMMA AddLeaseTops ==
  ASSUME TypeOK, Tops, qos' = qos, NEW t, NEW v \in Writers, NEW next, AddLease(t, v, next) PROVE Tops'
<1> DEFINE h == HeapOf(v)
           S == pheap[h] \cup {v}
<1>1. h \in Heaps
  BY DEF HeapOf, Heaps
<1>2. PICK min \in Entities \cup {None}, d \in Int : /\ ChangeLeases(t, h, S, min, d, next) /\ Among(min, S)
                            /\ \A m \in S : Dur(min) <= Dur(m)
  BY AddLeaseMin
<1>3. min \in MinLeases(S)
  BY <1>2 DEF MinLeases, Among
<1>4. pheap' = [pheap EXCEPT ![h] = S] /\ top' = [top EXCEPT ![h] = min]
  BY <1>2 DEF ChangeLeases
<1> HIDE DEF h, S
<1>5. QED
  BY <1>1, <1>3, <1>4, TopsChanged

LEMMA RemoveLeaseTops ==
  ASSUME TypeOK, Tops, qos' = qos, NEW t, NEW v \in Writers, v \in pheap[HeapOf(v)], NEW next,
         RemoveLease(t, v, next)
  PROVE  Tops'
<1> DEFINE h == HeapOf(v)
           S == pheap[h] \ {v}
<1>1. h \in Heaps
  BY DEF HeapOf, Heaps
<1>2. PICK min \in Entities \cup {None}, d \in Int : ChangeLeases(t, h, S, min, d, next) /\ min \in MinLeases(S)
  BY RemoveLeaseMin
<1>3. pheap' = [pheap EXCEPT ![h] = S] /\ top' = [top EXCEPT ![h] = min]
  BY <1>2 DEF ChangeLeases
<1> HIDE DEF h, S
<1>4. QED
  BY <1>1, <1>2, <1>3, TopsChanged

LEMMA GcFreeTops == ASSUME Inv, Tops, NEW x \in Leases, GcFree(x) PROVE Tops'
<1> DEFINE pp == x \notin Clones /\ endpoints' = {} /\ ~ppref'
<1>1. /\ qos' = qos
      /\ pheap' = IF pp THEN [pheap EXCEPT !["auto"] = @ \ {PP}] ELSE pheap
      /\ top' \in IF pp THEN {[top EXCEPT !["auto"] = m] : m \in MinLeases(pheap'["auto"])} ELSE {top}
  BY DEF GcFree
<1>2. CASE ~pp
  BY <1>1, <1>2, TopsKept
<1>3. CASE pp
  <2> DEFINE S == pheap["auto"] \ {PP}
  <2>1. "auto" \in Heaps /\ pheap' = [pheap EXCEPT !["auto"] = S] /\ pheap'["auto"] = S
    BY <1>1, <1>3 DEF Inv, TypeOK, Heaps
  <2>2. PICK m \in MinLeases(S) : top' = [top EXCEPT !["auto"] = m]
    BY <1>1, <1>3, <2>1
  <2> HIDE DEF S
  <2>3. QED
    BY <1>1, <2>1, <2>2, TopsChanged DEF Inv
<1>4. QED
  BY <1>2, <1>3

LEMMA TopsNext == ASSUME Inv, Tops, [Next]_vars PROVE Tops'
<1>2. ASSUME UNCHANGED <<qos, pheap, top>> PROVE Tops'
  BY <1>2, TopsKept
<1>3. ASSUME NEW t \in Threads, ReplaceStep(t) PROVE Tops'
  BY <1>2, <1>3 DEF ReplaceStep, Retire, Replace
<1>4. ASSUME NEW t \in {"disc", "gc"}, DeleteStep(t) PROVE Tops'
  BY <1>2, <1>4 DEF DeleteStep, DeletePwrIndex, DeletePwrUnregister, DeletePwrGc, DeletePpIndex,
     DeletePpSnapshot, DeleteNext
<1>5. ASSUME NEW t \in {"disc", "gc"}, NotAliveStep(t) PROVE Tops'
  <2>1. CASE LockNotAlive(t)
    BY <1>2, <2>1 DEF LockNotAlive
  <2>2. CASE SetNotAlive(t)
    <3>1. pc[t] = "naSet" /\ qos' = qos
      BY <2>2 DEF SetNotAlive
    <3>2. PICK v \in Writers : v = wr[t] /\ alive[v] /\ Born(v) /\ Listed(v)
      BY <3>1 DEF Inv, Places, Reliance, AliveInHeap, Threads
    <3>3. CASE Watched(v)
      <4>1. v \in pheap[HeapOf(v)] /\ RemoveLease(t, v, ret[t])
        BY <2>2, <3>2, <3>3 DEF Listed, SetNotAlive
      <4>2. QED
        BY <3>1, <4>1, RemoveLeaseTops DEF Inv
    <3>4. CASE ~Watched(v)
      BY <1>2, <2>2, <3>2, <3>4 DEF SetNotAlive
    <3>5. QED
      BY <3>3, <3>4
  <2>3. QED
    BY <1>5, <2>1, <2>2 DEF NotAliveStep
<1>6. CASE SetAlive
  <2>1. pc["recv"] = "alive" /\ qos' = qos
    BY <1>6 DEF SetAlive
  <2>2. PICK v \in Writers : v = wr["recv"]
    BY <2>1 DEF Inv, Places, Threads
  <2>3. CASE Watched(v)
    <3>1. AddLease("recv", v, "done")
      BY <1>6, <2>2, <2>3 DEF SetAlive
    <3>2. QED
      BY <2>1, <3>1, AddLeaseTops DEF Inv
  <2>4. CASE ~Watched(v)
    BY <1>2, <1>6, <2>2, <2>4 DEF SetAlive
  <2>5. QED
    BY <2>3, <2>4
<1>7. CASE NewPwrLease
  <2>1. pc["disc"] = "nLease" /\ qos' = qos
    BY <1>7 DEF NewPwrLease
  <2>2. PICK v \in Writers : v = wr["disc"]
    BY <2>1 DEF Inv, Places, Threads
  <2>3. CASE AddLease("disc", v, "nInsert")
    BY <2>1, <2>3, AddLeaseTops DEF Inv
  <2>4. CASE UNCHANGED <<minl, pheap, top>>
    BY <1>2, <2>1, <2>4
  <2>5. QED
    BY <1>7, <2>2, <2>3, <2>4 DEF NewPwrLease
<1>8. CASE RecvThread
  <2>1. "recv" \in Threads
    BY DEF Threads
  <2>2. CASE Load \/ LockHeartbeat \/ Renew \/ EndRenewals \/ SetAliveLookup
    BY <1>2, <2>2 DEF Load, LockHeartbeat, Renew, EndRenewals, SetAliveLookup
  <2>3. QED
    BY <1>3, <1>6, <1>8, <2>1, <2>2 DEF RecvThread, RecvStep
<1>9. CASE DiscThread
  <2>1. "disc" \in Threads
    BY DEF Threads
  <2>2. CASE NewPwrRef \/ NewPwrInsert
    BY <1>2, <2>2 DEF NewPwrRef, NewPwrInsert
  <2>3. QED
    BY <1>3, <1>4, <1>5, <1>7, <1>9, <2>1, <2>2 DEF DiscThread, NewPwrStep
<1>10. CASE GcStep
  <2>1. "gc" \in Threads
    BY DEF Threads
  <2>2. CASE Expire \/ ExpireAct
    BY <1>2, <2>2 DEF Expire, ExpireAct
  <2>3. QED
    BY <1>3, <1>4, <1>5, <1>10, <2>1, <2>2, GcFreeTops DEF GcStep
<1>11. CASE Tick \/ RemoteFallsSilent \/ DeletePp
  BY <1>2, <1>11 DEF Tick, RemoteFallsSilent, DeletePp
<1>12. CASE \E w \in Writers : NewPwr(w) \/ DeletePwr(w)
                               \/ \E m \in {"data", "heartbeat", "liveliness"} : Receive(w, m)
  BY <1>2, <1>12 DEF NewPwr, DeletePwr, Receive
<1>13. CASE UNCHANGED vars
  BY <1>2, <1>13
<1>14. QED
  BY <1>8, <1>9, <1>10, <1>11, <1>12, <1>13 DEF Next

LEMMA NextInv == Inv /\ Tops /\ [Next]_vars => Inv'
<1> SUFFICES ASSUME Inv, Tops, [Next]_vars PROVE Inv'
  OBVIOUS
<1>1. CASE UNCHANGED vars
  <2>1. Quiet /\ Clocks
    BY <1>1 DEF Quiet, Clocks, Inv, TypeOK
  <2>2. QED
    BY <1>1, <2>1, StillInv
<1>2. ASSUME NEW t \in Threads, ReplaceStep(t) PROVE Inv'
  BY <1>2, RetireInv, ReplaceInv DEF ReplaceStep
<1>3. ASSUME NEW t \in {"disc", "gc"}, DeleteStep(t) \/ NotAliveStep(t) PROVE Inv'
  BY <1>3, DeletePwrIndexInv, DeletePwrUnregisterInv, DeletePwrGcInv, DeletePpIndexInv,
     DeletePpSnapshotInv, DeleteNextInv, LockNotAliveInv, SetNotAliveInv DEF DeleteStep, NotAliveStep
<1>4. CASE RecvThread
  <2>1. "recv" \in Threads
    BY DEF Threads
  <2>2. QED
    BY <1>2, <1>4, <2>1, LoadInv, LockHeartbeatInv, RenewInv, EndRenewalsInv, SetAliveLookupInv,
       SetAliveInv DEF RecvThread, RecvStep
<1>5. CASE DiscThread
  <2>1. "disc" \in Threads
    BY DEF Threads
  <2>2. QED
    BY <1>2, <1>3, <1>5, <2>1, NewPwrRefInv, NewPwrLeaseInv, NewPwrInsertInv DEF DiscThread,
        NewPwrStep
<1>6. CASE GcStep
  <2>1. "gc" \in Threads
    BY DEF Threads
  <2>2. QED
    BY <1>2, <1>3, <1>6, <2>1, ExpireInv, ExpireActInv, GcFreeInv DEF GcStep
<1>7. QED
  BY <1>1, <1>4, <1>5, <1>6, TickInv, RemoteFallsSilentInv, NewPwrInv, DeletePwrInv, ReceiveInv,
     DeletePpInv DEF Next

\* Inv and Tops hold of every state.
THEOREM Invariance == Spec => [](Inv /\ Tops)
<1>1. Inv /\ Tops /\ [Next]_vars => (Inv /\ Tops)'
  BY NextInv, TopsNext
<1>2. QED
  BY InitInv, <1>1, PTL DEF Spec

\* While the participant is unlocked nobody is replacing a clone.
LEMMA Unlocked == ASSUME Inv, plock = None PROVE \A t \in Threads, h \in Heaps : ~Swaps(t, h)
  BY Names DEF Inv, Locks, Swaps

\* minl_auto and minl_man are live clones of the minimum of their heap, which is one
\* of the shortest leases in it, and a writer is alive exactly if its lease is among
\* those of the participant, however many writers there are and whether or not their
\* lease durations are equal to one another's or to the participant's: ddsi_proxy_participant_add_pwr_lease_locked and
\* ddsi_proxy_participant_remove_pwr_lease_locked keep them so.
THEOREM MinlCorrect == Spec => []MinlIsMin
<1>1. ASSUME Inv, Tops PROVE MinlIsMin
  <2> SUFFICES ASSUME plock = None, life[PP] = "live" PROVE MinlIsMin
    BY DEF MinlIsMin
  <2>1. \A h \in Heaps : IsMin(h, minl[h])
    BY <1>1, Unlocked DEF Inv, Shortest
  <2>2. \A h \in Heaps :
          IF pheap[h] = {} THEN minl[h] = None
          ELSE /\ minl[h] # None /\ life[minl[h]] = "live" /\ ent[minl[h]] = top[h]
               /\ top[h] \in MinLeases(pheap[h])
    BY <1>1, <2>1, Names DEF IsMin, Tops
  <2>3. ASSUME NEW w \in endpoints, Watched(w), ~(pc["disc"] = "nLease" /\ wr["disc"] = w)
        PROVE  alive[w] <=> w \in pheap[HeapOf(w)]
    <3>1. w \in Writers /\ Listed(w) /\ Born(w) /\ HeapOf(w) \in Heaps
      BY <1>1, <2>3 DEF Inv, TypeOK, AliveInHeap, Writer, Born, HeapOf, Heaps
    <3>2. QED
      BY <2>3, <3>1 DEF Listed
  <2>4. QED
    BY <2>2, <2>3 DEF MinlIsMin, Heaps
<1>2. QED
  BY <1>1, Invariance, PTL

\* A participant that is known is supervised at all times: of its shortest lease
\* a clone is on the heap, unless the gc thread acts on its expiry
\* (check_and_handle_lease_expiration).
THEOREM Monitored == Spec => []AlwaysMonitored
<1>1. ASSUME Inv PROVE AlwaysMonitored
  BY <1>1, Unlocked DEF Inv, Supervised, AlwaysMonitored, Heaps
<1>2. QED
  BY <1>1, Invariance, PTL

\* The assertions of free_proxy_participant hold, and no clone is left on the heap.
THEOREM CleanFree == Spec => []FreeClean
<1>1. ASSUME Inv PROVE FreeClean
  <2> SUFFICES ASSUME life[PP] = "freed" PROVE FreeClean
    BY DEF FreeClean
  <2> USE <1>1 DEF Inv
  <2>1. endpoints = {} /\ PP \notin pheap["auto"] /\ PP \notin pheap["man"]
    BY DEF Participant
  <2>2. \A h \in Heaps : pheap[h] = {}
    <3>1. \A v \in Writers : ~alive[v]
      BY <2>1 DEF Writer
    <3>2. \A h \in Heaps : pheap[h] \subseteq Entities /\ \A v \in Writers : v \notin pheap[h]
      BY <3>1 DEF TypeOK, AliveInHeap, Listed
    <3>3. QED
      BY <2>1, <3>2 DEF Entities, Heaps
  <2>3. pheap = [h \in {"auto", "man"} |-> {}]
    BY <2>2 DEF TypeOK, Heaps
  <2>4. minl["man"] = None /\ ent[minl["auto"]] = PP /\ life[minl["auto"]] # "live"
    BY DEF Gone
  <2>5. heap \cap Clones = {}
    BY <2>4, Names DEF Shortest, Clone, Heaps
  <2>6. QED
    BY <2>3, <2>4, <2>5 DEF FreeClean
<1>2. QED
  BY <1>1, Invariance, PTL
=============================================================================
