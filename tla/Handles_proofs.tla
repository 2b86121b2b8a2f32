--------------------------- MODULE Handles_proofs ---------------------------
(***************************************************************************)
(* Proofs about Handles: reference and pin counts are exact, what is       *)
(* pinned is alive and a handle is deleted with one pin left, whatever the *)
(* application creates and deletes, from however many threads, and         *)
(* whatever was created implicitly.                                        *)
(*                                                                         *)
(* The calls of all threads are seen as one function C from threads and    *)
(* depths; H, L, K and I stand for hdl, life, children and implicit.       *)
(* "Sound" is what every step keeps: besides the counts, what is pinned is *)
(* alive (PinnedAlive), whoever is past dds_handle_close_wait is the only  *)
(* one with a pin (Alone), its handle is closed (Shut) and in the table    *)
(* until dds_handle_delete (Listed), parents and topics exist (Existing),  *)
(* what is to be created does not (Fresh), and the children are those that *)
(* registered and have not left (Kin).  "Settled" is what the stacks and   *)
(* the mutexes are like.                                                   *)
(*                                                                         *)
(* First how the calls change when a stack does; then, for each thing that *)
(* can happen to an entity (PinnedForDelete, ParentLeft, TopicDropped,     *)
(* EntityFreed, Created ...), that it keeps Sound; then the actions.       *)
(***************************************************************************)
EXTENDS Handles, FiniteSetTheorems, NaturalsInduction, WellFoundedInduction, TLAPS

Early == {"interrupt", "closeWait", "closeWaiting"}
Mid   == {"close", "nextChild", "childReturned", "childWaiting", "handleDelete"}
Late  == {"leaveParent", "closeParent", "dropTopic", "deleteTopic", "free"}
Left  == {"closeParent", "dropTopic", "deleteTopic", "free"}
TopicPcs == {"deferQos", "new", "register", "allowQos", "unpinTopic"}
Owning == {"pinTopic", "deferQos", "new", "register", "allowQos", "unpinTopic", "unlock"}
Pcs == {"pin"} \cup Early \cup Mid \cup Late \cup UsePcs

Call == [pc : Pcs, e : Entities, how : {"user", "parent", "explicit", "implicit"}, pass : {1, 2},
         cursor : Nat, up : BOOLEAN, new : Entities \cup {None}]
Handle == [in : BOOLEAN, closing : BOOLEAN, deferred : BOOLEAN, pending : BOOLEAN,
           refs : Int, pins : Int]

\* The calls of all threads in one function: a thread and a depth at which it has
\* no call is mapped to Gone.
Slots == Threads \X (Nat \ {0})
Gone == [pc |-> "gone", e |-> None, how |-> "user", pass |-> 1, cursor |-> 0, up |-> FALSE, new |-> None]
CallAt(st, x) == IF x[2] <= Len(st[x[1]]) THEN st[x[1]][Len(st[x[1]]) + 1 - x[2]] ELSE Gone
Calls(st) == [x \in Slots |-> CallAt(st, x)]
Top(st, t) == <<t, Len(st[t])>>

\* Call f has e pinned.
PinsIt(f, e) ==
  \/ f.e = e /\ f.pc \notin {"pin", "gone"}
  \/ f.new # None /\ \/ e = TopicOf(f.new) /\ f.pc \in TopicPcs
                     \/ e = f.new /\ f.pc = "register"
  \/ Parent(f.e) = e /\ (f.up \/ f.pc = "closeParent")

PinnersIn(C, e) == {x \in Slots : PinsIt(C[x], e)}
RefersIn(C, L, r, e) ==
  TopicOf(r) = e /\ L[r] = "alive" /\ \A x \in Slots : C[x].e = r => C[x].pc \notin {"deleteTopic", "free"}

\* What the calls are like, with I for the implicit entities.
Proper(f, I) ==
  /\ f.pc \in UsePcs => ~f.up /\ f.e \notin Topics /\ (f.new # None => Parent(f.new) = f.e)
  /\ f.pc \in TopicPcs \cup {"pinTopic"} => f.new # None
  /\ f.pc \in {"pinTopic", "deferQos", "allowQos", "unpinTopic"} => TopicOf(f.new) # None
  /\ f.pc \notin UsePcs => f.new = None
  /\ f.up => f.pc \in {"dropTopic", "deleteTopic", "free"}
  /\ f.up \/ f.pc = "closeParent" => Parent(f.e) \in I
  /\ f.pc = "leaveParent" => f.e # Root
  /\ f.pc = "deleteTopic" => TopicOf(f.e) # None
AllProper(C, I) == \A x \in Slots : Proper(C[x], I)

\* What is pinned is alive.
PinnedAlive(C, L) == \A x \in Slots, e \in Entities : PinsIt(C[x], e) => L[e] = "alive"
\* A call that has waited for the pins of others is the only one with a pin.
Alone(C) ==
  \A x, y \in Slots : C[x].pc \in Mid \cup Late /\ PinsIt(C[y], C[x].e) => y = x
\* Whoever deletes an entity has closed its handle.
Shut(C, H) == \A x \in Slots : /\ C[x].pc \in Early \cup Mid \cup Late => H[C[x].e].closing
                               /\ C[x].up => H[Parent(C[x].e)].closing
\* The handle is there until dds_handle_delete.
Listed(C, H) == \A x \in Slots : /\ C[x].pc \in Early \cup Mid => H[C[x].e].in
                                 /\ C[x].pc \in Late => ~H[C[x].e].in
                                 /\ C[x].up \/ C[x].pc = "closeParent" => H[Parent(C[x].e)].in
\* What exists has a parent and a topic, and a handle unless it is being deleted.
Existing(H, L) ==
  \A e \in Entities : /\ H[e].in => L[e] = "alive"
                      /\ L[e] # "none" => /\ H[e].in \/ H[e].closing
                                          /\ TopicOf(e) # None => L[TopicOf(e)] # "none"
                                          /\ e # Root => L[Parent(e)] # "none"
\* An entity about to be created does not exist.
Fresh(C, L) == \A x \in Slots : C[x].pc \in {"pinTopic", "deferQos", "new"} => L[C[x].new] = "none"
\* The children of an entity are the ones that were registered and have not left.
Outside(f, c) == (f.pc = "register" /\ f.new = c) \/ (f.e = c /\ f.pc \in Left)
Kin(C, L, K) ==
  \A p, c \in Entities :
    c \in K[p] <=> Parent(c) = p /\ L[c] = "alive" /\ \A x \in Slots : ~Outside(C[x], c)
RefsExact(C, H, L, K, I) ==
  \A e \in Entities : H[e].in =>
    H[e].refs = (IF e \in I \/ H[e].closing \/ H[e].deferred THEN 0 ELSE 1)
                + Cardinality(K[e]) + Cardinality({r \in Entities : RefersIn(C, L, r, e)})
PinsExact(C, H) == \A e \in Entities : H[e].in => H[e].pins = Cardinality(PinnersIn(C, e))

\* Finitely many calls are being made.
Few(C) == IsFiniteSet({x \in Slots : C[x].pc # "gone"})

Sound(C, H, L, K, I) ==
  /\ Few(C) /\ AllProper(C, I) /\ PinnedAlive(C, L) /\ Alone(C) /\ Shut(C, H) /\ Listed(C, H)
  /\ Existing(H, L) /\ Fresh(C, L) /\ Kin(C, L, K)
  /\ RefsExact(C, H, L, K, I) /\ PinsExact(C, H)

\* A thread works on its topmost call; the others wait for it to return.
Shape(st) ==
  \A t \in Threads : \A i \in 1 .. Len(st[t]) :
    /\ i > 1 => st[t][i].pc \in {"childReturned", "free"}
    /\ st[t][i].pc \in UsePcs => Len(st[t]) = 1
\* The mutex of the entity an operation works on, and of a parent to be closed.
Locks(st, M) ==
  \A t \in Threads : st[t] # <<>> =>
    /\ Head(st[t]).pc \in Owning => M[Head(st[t]).e] = t
    /\ Head(st[t]).pc = "closeParent" => Parent(Head(st[t]).e) \in Entities /\ M[Parent(Head(st[t]).e)] = t

-----------------------------------------------------------------------------
(* The stacks of calls *)

Stacks == [Threads -> Seq(Call)]

\* The topmost call is at the depth of the stack.
LEMMA TopCall ==
  ASSUME NEW st \in Stacks, NEW t \in Threads, st[t] # <<>>
  PROVE  /\ Head(st[t]) \in Call /\ Top(st, t) \in Slots /\ Calls(st)[Top(st, t)] = Head(st[t])
         /\ Len(st[t]) \in Nat \ {0} /\ Head(st[t]) = st[t][1]
<1>1. st[t] \in Seq(Call) /\ Len(st[t]) \in Nat /\ Len(st[t]) # 0
  BY DEF Stacks
<1>2. Head(st[t]) = st[t][1] /\ st[t][1] \in Call
  BY <1>1
<1>3. Top(st, t) \in Slots /\ Top(st, t)[1] = t /\ Top(st, t)[2] = Len(st[t])
  BY <1>1 DEF Top, Slots
<1>4. QED
  BY <1>1, <1>2, <1>3 DEF Calls, CallAt

Replaced(st, sv, t, g) == sv = [st EXCEPT ![t] = <<g>> \o Tail(st[t])]

\* The topmost call is replaced by g.
LEMMA CallMoved ==
  ASSUME NEW st \in Stacks, NEW t \in Threads, st[t] # <<>>, NEW g \in Call,
         NEW sv, Replaced(st, sv, t, g)
  PROVE  /\ sv \in Stacks /\ sv[t] # <<>> /\ Head(sv[t]) = g
         /\ \A u \in Threads : u # t => sv[u] = st[u]
         /\ Len(sv[t]) = Len(st[t]) /\ \A i \in 2 .. Len(st[t]) : sv[t][i] = st[t][i]
         /\ \A x \in Slots : Calls(sv)[x] = IF x = Top(st, t) THEN g ELSE Calls(st)[x]
<1> DEFINE s == st[t]
           v == <<g>> \o Tail(s)
<1>1. s \in Seq(Call) /\ Len(s) \in Nat \ {0}
  BY TopCall DEF Stacks
<1>2. v \in Seq(Call) /\ Len(v) = Len(s) /\ v[1] = g /\ \A i \in 2 .. Len(s) : v[i] = s[i]
  BY <1>1
<1>10. sv = [st EXCEPT ![t] = v]
  BY DEF Replaced
<1> HIDE DEF v
<1>3. sv \in Stacks /\ sv[t] = v /\ \A u \in Threads : u # t => sv[u] = st[u]
  BY <1>2, <1>10 DEF Stacks
<1>4. v # <<>> /\ Head(v) = g
  BY <1>1, <1>2
<1> HIDE DEF s
<1>5. ASSUME NEW x \in Slots PROVE Calls(sv)[x] = IF x = Top(st, t) THEN g ELSE Calls(st)[x]
  <2>1. PICK u \in Threads, d \in Nat \ {0} : x = <<u, d>>
    BY DEF Slots
  <2>2. CASE u # t
    BY <1>3, <2>1, <2>2 DEF Calls, CallAt, Top
  <2>3. CASE u = t /\ d = Len(s)
    BY <1>1, <1>2, <1>3, <2>1, <2>3 DEF Calls, CallAt, Top, s
  <2>4. CASE u = t /\ d # Len(s)
    <3>1. x # Top(st, t)
      BY <2>1, <2>4 DEF Top, s
    <3>2. CallAt(sv, x) = CallAt(st, x)
      <4>1. CASE d > Len(s)
        BY <1>1, <1>2, <1>3, <2>1, <2>4, <4>1 DEF CallAt, s
      <4>2. CASE d < Len(s)
        <5>1. Len(s) + 1 - d \in 2 .. Len(s)
          BY <1>1, <4>2
        <5>2. v[Len(s) + 1 - d] = s[Len(s) + 1 - d]
          BY <1>2, <5>1
        <5>3. QED
          BY <1>1, <1>2, <1>3, <2>1, <2>4, <4>2, <5>2 DEF CallAt, s
      <4>3. QED
        BY <1>1, <2>4, <4>1, <4>2
    <3>3. QED
      BY <3>1, <3>2 DEF Calls
  <2>5. QED
    BY <2>2, <2>3, <2>4
<1>6. QED
  BY <1>2, <1>3, <1>4, <1>5 DEF s, v

Pushed(st, sv, t, g, h) == sv = [st EXCEPT ![t] = <<h, g>> \o Tail(st[t])]

\* The topmost call is replaced by g, and h is called.
LEMMA CallPushed ==
  ASSUME NEW st \in Stacks, NEW t \in Threads, st[t] # <<>>, NEW g \in Call, NEW h \in Call,
         NEW sv, Pushed(st, sv, t, g, h)
  PROVE  /\ sv \in Stacks /\ sv[t] # <<>> /\ Head(sv[t]) = h
         /\ \A u \in Threads : u # t => sv[u] = st[u]
         /\ Len(sv[t]) = Len(st[t]) + 1 /\ sv[t][1] = h /\ sv[t][2] = g
         /\ \A i \in 3 .. Len(sv[t]) : sv[t][i] = st[t][i - 1]
         /\ \A x \in Slots : Calls(sv)[x] = IF x = Top(st, t) THEN g
                                            ELSE IF x = <<t, Len(st[t]) + 1>> THEN h
                                            ELSE Calls(st)[x]
         /\ Calls(st)[<<t, Len(st[t]) + 1>>] = Gone
<1> DEFINE s == st[t]
           v == <<h, g>> \o Tail(s)
<1>1. s \in Seq(Call) /\ Len(s) \in Nat \ {0}
  BY TopCall DEF Stacks
<1>2. v \in Seq(Call) /\ Len(v) = Len(s) + 1 /\ v[1] = h /\ v[2] = g
  BY <1>1
<1>20. \A i \in 3 .. Len(v) : v[i] = s[i - 1]
  BY <1>1, <1>2
<1>10. sv = [st EXCEPT ![t] = v]
  BY DEF Pushed
<1> HIDE DEF v
<1>3. sv \in Stacks /\ sv[t] = v /\ \A u \in Threads : u # t => sv[u] = st[u]
  BY <1>2, <1>10 DEF Stacks
<1>4. v # <<>> /\ Head(v) = h
  BY <1>1, <1>2
<1>40. Calls(st)[<<t, Len(s) + 1>>] = Gone
  BY <1>1 DEF Calls, CallAt, Slots
<1> HIDE DEF s
<1>5. ASSUME NEW x \in Slots
      PROVE Calls(sv)[x] = IF x = Top(st, t) THEN g ELSE IF x = <<t, Len(s) + 1>> THEN h ELSE Calls(st)[x]
  <2>1. PICK u \in Threads, d \in Nat \ {0} : x = <<u, d>>
    BY DEF Slots
  <2>2. CASE u # t
    BY <1>3, <2>1, <2>2 DEF Calls, CallAt, Top
  <2>3. CASE u = t /\ d = Len(s)
    BY <1>1, <1>2, <1>3, <2>1, <2>3 DEF Calls, CallAt, Top, s
  <2>4. CASE u = t /\ d = Len(s) + 1
    BY <1>1, <1>2, <1>3, <2>1, <2>4 DEF Calls, CallAt, Top, s
  <2>5. CASE u = t /\ d # Len(s) /\ d # Len(s) + 1
    <3>1. x # Top(st, t) /\ x # <<t, Len(s) + 1>>
      BY <2>1, <2>5 DEF Top, s
    <3>2. CallAt(sv, x) = CallAt(st, x)
      <4>1. CASE d > Len(s) + 1
        BY <1>1, <1>2, <1>3, <2>1, <2>5, <4>1 DEF CallAt, s
      <4>2. CASE d < Len(s)
        <5>1. Len(v) + 1 - d \in 3 .. Len(v) /\ Len(v) + 1 - d - 1 = Len(s) + 1 - d
          BY <1>1, <1>2, <4>2
        <5>2. v[Len(v) + 1 - d] = s[Len(s) + 1 - d]
          BY <1>20, <5>1
        <5>3. QED
          BY <1>1, <1>2, <1>3, <2>1, <2>5, <4>2, <5>2 DEF CallAt, s
      <4>3. QED
        BY <1>1, <2>5, <4>1, <4>2
    <3>3. QED
      BY <3>1, <3>2 DEF Calls
  <2>6. QED
    BY <2>2, <2>3, <2>4, <2>5
<1>6. QED
  BY <1>2, <1>20, <1>3, <1>4, <1>40, <1>5 DEF s, v

Popped(st, sv, t) == sv = [st EXCEPT ![t] = Tail(st[t])]

\* The topmost call returns.
LEMMA CallPopped ==
  ASSUME NEW st \in Stacks, NEW t \in Threads, st[t] # <<>>,
         NEW sv, Popped(st, sv, t)
  PROVE  /\ sv \in Stacks /\ \A u \in Threads : u # t => sv[u] = st[u]
         /\ Len(sv[t]) = Len(st[t]) - 1
         /\ \A i \in 1 .. Len(sv[t]) : sv[t][i] = st[t][i + 1]
         /\ \A x \in Slots : Calls(sv)[x] = IF x = Top(st, t) THEN Gone ELSE Calls(st)[x]
<1> DEFINE s == st[t]
           v == Tail(s)
<1>1. s \in Seq(Call) /\ Len(s) \in Nat \ {0}
  BY TopCall DEF Stacks
<1>2. v \in Seq(Call) /\ Len(v) = Len(s) - 1 /\ \A i \in 1 .. Len(v) : v[i] = s[i + 1]
  BY <1>1
<1>10. sv = [st EXCEPT ![t] = v]
  BY DEF Popped
<1> HIDE DEF v
<1>3. sv \in Stacks /\ sv[t] = v /\ \A u \in Threads : u # t => sv[u] = st[u]
  BY <1>2, <1>10 DEF Stacks
<1> HIDE DEF s
<1>5. ASSUME NEW x \in Slots PROVE Calls(sv)[x] = IF x = Top(st, t) THEN Gone ELSE Calls(st)[x]
  <2>1. PICK u \in Threads, d \in Nat \ {0} : x = <<u, d>>
    BY DEF Slots
  <2>2. CASE u # t
    BY <1>3, <2>1, <2>2 DEF Calls, CallAt, Top
  <2>3. CASE u = t /\ d = Len(s)
    BY <1>1, <1>2, <1>3, <2>1, <2>3 DEF Calls, CallAt, Top, s
  <2>4. CASE u = t /\ d # Len(s)
    <3>1. x # Top(st, t)
      BY <2>1, <2>4 DEF Top, s
    <3>2. CallAt(sv, x) = CallAt(st, x)
      <4>1. CASE d > Len(s)
        BY <1>1, <1>2, <1>3, <2>1, <2>4, <4>1 DEF CallAt, s
      <4>2. CASE d < Len(s)
        <5>1. Len(v) + 1 - d \in 1 .. Len(v) /\ Len(v) + 1 - d + 1 = Len(s) + 1 - d
          BY <1>1, <1>2, <4>2
        <5>2. v[Len(v) + 1 - d] = s[Len(s) + 1 - d]
          BY <1>2, <5>1
        <5>3. QED
          BY <1>1, <1>2, <1>3, <2>1, <2>4, <4>2, <5>2 DEF CallAt, s
      <4>3. QED
        BY <1>1, <2>4, <4>1, <4>2
    <3>3. QED
      BY <3>1, <3>2 DEF Calls
  <2>5. QED
    BY <2>2, <2>3, <2>4
<1>6. QED
  BY <1>2, <1>3, <1>5 DEF s, v

Begun(st, sv, t, h) == sv = [st EXCEPT ![t] = <<h>>]

\* A thread without a call makes the call h.
LEMMA CallBegun ==
  ASSUME NEW st \in Stacks, NEW t \in Threads, st[t] = <<>>, NEW h \in Call,
         NEW sv, Begun(st, sv, t, h)
  PROVE  /\ sv \in Stacks /\ sv[t] = <<h>> /\ \A u \in Threads : u # t => sv[u] = st[u]
         /\ \A x \in Slots : Calls(sv)[x] = IF x = <<t, 1>> THEN h ELSE Calls(st)[x]
         /\ <<t, 1>> \in Slots /\ Calls(st)[<<t, 1>>] = Gone
<1>1. sv \in Stacks /\ sv[t] = <<h>> /\ \A u \in Threads : u # t => sv[u] = st[u]
  BY DEF Stacks, Begun
<1>2. <<t, 1>> \in Slots /\ Calls(st)[<<t, 1>>] = Gone
  BY DEF Slots, Calls, CallAt
<1>3. ASSUME NEW x \in Slots PROVE Calls(sv)[x] = IF x = <<t, 1>> THEN h ELSE Calls(st)[x]
  <2>1. PICK u \in Threads, d \in Nat \ {0} : x = <<u, d>>
    BY DEF Slots
  <2>2. CASE u # t
    BY <1>1, <2>1, <2>2 DEF Calls, CallAt
  <2>0. Len(sv[t]) = 1 /\ sv[t][1] = h /\ Len(st[t]) = 0
    BY <1>1
  <2>3. CASE u = t /\ d = 1
    <3>1. CallAt(sv, x) = h
      BY <2>0, <2>1, <2>3 DEF CallAt
    <3>2. QED
      BY <2>1, <2>3, <3>1 DEF Calls
  <2>4. CASE u = t /\ d > 1
    <3>2. CallAt(sv, x) = Gone /\ CallAt(st, x) = Gone
      <4>1. x[1] = t /\ x[2] = d /\ ~(d <= 1) /\ ~(d <= 0)
        BY <2>1, <2>4
      <4>2. QED
        BY <2>0, <4>1 DEF CallAt
    <3>3. QED
      BY <2>1, <2>4, <3>2 DEF Calls
  <2>5. QED
    BY <2>2, <2>3, <2>4
<1>4. QED
  BY <1>1, <1>2, <1>3

-----------------------------------------------------------------------------
(* One call changes *)

CallMaps == [Slots -> Call \cup {Gone}]
Handles == [Entities -> Handle]
Lives == [Entities -> {"none", "alive", "freed"}]
Trees == [Entities -> SUBSET Entities]

Changed(C, D, x) == \A y \in Slots : y # x => D[y] = C[y]

Own(H, e, I) == IF e \in I \/ H[e].closing \/ H[e].deferred THEN 0 ELSE 1
One(b) == IF b THEN 1 ELSE 0

\* A set that changes in one element only.
LEMMA CardStep ==
  ASSUME NEW S, NEW T, IsFiniteSet(S), NEW a, \A b \in S \cup T : b # a => (b \in S <=> b \in T)
  PROVE  /\ IsFiniteSet(T) /\ Cardinality(S) \in Nat /\ Cardinality(T) \in Nat
         /\ Cardinality(T) = Cardinality(S) + One(a \in T) - One(a \in S)
<1>0. Cardinality(S) \in Nat
  BY FS_CardinalityType
<1>1. CASE a \in S /\ a \in T
  <2>1. S = T
    BY <1>1
  <2>2. QED
    BY <1>0, <1>1, <2>1 DEF One
<1>2. CASE a \notin S /\ a \notin T
  <2>1. S = T
    BY <1>2
  <2>2. QED
    BY <1>0, <1>2, <2>1 DEF One
<1>3. CASE a \in S /\ a \notin T
  <2>1. T = S \ {a}
    BY <1>3
  <2>2. IsFiniteSet(T) /\ Cardinality(T) = Cardinality(S) - 1
    BY <1>3, <2>1, FS_RemoveElement
  <2>3. Cardinality(T) \in Nat
    BY <2>2, FS_CardinalityType
  <2>4. QED
    BY <1>0, <1>3, <2>2, <2>3 DEF One
<1>4. CASE a \notin S /\ a \in T
  <2>1. T = S \cup {a}
    BY <1>4
  <2>2. IsFiniteSet(T) /\ Cardinality(T) = Cardinality(S) + 1
    BY <1>4, <2>1, FS_AddElement
  <2>3. Cardinality(T) \in Nat
    BY <2>2, FS_CardinalityType
  <2>4. QED
    BY <1>0, <1>4, <2>2, <2>3 DEF One
<1>5. QED
  BY <1>1, <1>2, <1>3, <1>4

\* A call with a pin is past its first step; its entity is one.
LEMMA CallKinds ==
  ASSUME NEW f \in Call \cup {Gone}, NEW I, Proper(f, I)
  PROVE  /\ \A e : PinsIt(f, e) => f.pc \notin {"pin", "gone"}
         /\ f.pc # "gone" => f \in Call /\ f.e \in Entities
         /\ f.pc \notin {"pin", "gone"} => PinsIt(f, f.e)
         /\ f.up \/ f.pc \in {"leaveParent", "closeParent"} => f.pc \in Late /\ Parent(f.e) \in Entities \cup {None}
         /\ f.up \/ f.pc = "closeParent" => PinsIt(f, Parent(f.e))
<1>1. f.pc # "gone" => f \in Call /\ f.e \in Entities
  BY DEF Call, Gone
<1>2. f = Gone => f.pc = "gone" /\ ~f.up /\ f.new = None
  BY DEF Gone
<1>3. f.up \in BOOLEAN
  <2>1. CASE f \in Call
    BY <2>1 DEF Call
  <2>2. CASE f = Gone
    BY <2>2 DEF Gone
  <2>3. QED
    BY <2>1, <2>2
<1>4. QED
  BY <1>1, <1>2, <1>3, HandlesAssumption DEF PinsIt, Proper, TopicPcs, Late, UsePcs

\* Those who have e pinned are finitely many, and change with the call that does.
LEMMA PinnersStep ==
  ASSUME NEW C \in CallMaps, NEW D \in CallMaps, NEW x \in Slots, NEW I, AllProper(C, I), Few(C),
         Changed(C, D, x), NEW e
  PROVE  /\ Cardinality(PinnersIn(C, e)) \in Nat
         /\ Cardinality(PinnersIn(D, e)) = Cardinality(PinnersIn(C, e))
              + (IF PinsIt(D[x], e) THEN 1 ELSE 0) - (IF PinsIt(C[x], e) THEN 1 ELSE 0)
<1>1. PinnersIn(C, e) \subseteq {y \in Slots : C[y].pc # "gone"}
  <2>1. ASSUME NEW y \in Slots, PinsIt(C[y], e) PROVE C[y].pc # "gone"
    BY <2>1, CallKinds DEF CallMaps, AllProper
  <2>2. QED
    BY <2>1 DEF PinnersIn
<1>2. IsFiniteSet(PinnersIn(C, e))
  BY <1>1, FS_Subset DEF Few
<1>3. \A y \in PinnersIn(C, e) \cup PinnersIn(D, e) : y # x => (y \in PinnersIn(C, e) <=> y \in PinnersIn(D, e))
  BY DEF PinnersIn, Changed
<1>4. (x \in PinnersIn(C, e) <=> PinsIt(C[x], e)) /\ (x \in PinnersIn(D, e) <=> PinsIt(D[x], e))
  BY DEF PinnersIn
<1> DEFINE S == PinnersIn(C, e)
           T == PinnersIn(D, e)
<1> HIDE DEF S, T
<1>5. /\ Cardinality(S) \in Nat
      /\ Cardinality(T) = Cardinality(S) + One(x \in T) - One(x \in S)
  <2>1. IsFiniteSet(S) /\ \A y \in S \cup T : y # x => (y \in S <=> y \in T)
    BY <1>2, <1>3 DEF S, T
  <2>2. QED
    BY <2>1, CardStep
<1>6. QED
  BY <1>4, <1>5 DEF S, T, One

LEMMA StepFew ==
  ASSUME NEW C, NEW D, NEW x \in Slots, Few(C), Changed(C, D, x)
  PROVE  Few(D)
<1> DEFINE S == {y \in Slots : C[y].pc # "gone"}
           T == {y \in Slots : D[y].pc # "gone"}
<1>1. \A y \in S \cup T : y # x => (y \in S <=> y \in T)
  BY DEF Changed
<1>2. QED
  BY <1>1, CardStep DEF Few

LEMMA StepProper ==
  ASSUME NEW C, NEW D, NEW x \in Slots, NEW I, AllProper(C, I), Changed(C, D, x), Proper(D[x], I)
  PROVE  AllProper(D, I)
  BY DEF AllProper, Changed

LEMMA StepPinned ==
  ASSUME NEW C, NEW D, NEW x \in Slots, NEW L, NEW M, PinnedAlive(C, L), Changed(C, D, x),
         \A e \in Entities : PinsIt(D[x], e) => M[e] = "alive",
         \A e \in Entities : L[e] = "alive" /\ M[e] # "alive" => \A y \in Slots : y # x => ~PinsIt(C[y], e)
  PROVE  PinnedAlive(D, M)
  BY DEF PinnedAlive, Changed

LEMMA StepAlone ==
  ASSUME NEW C \in CallMaps, NEW D \in CallMaps, NEW x \in Slots, NEW I, NEW H, NEW L, AllProper(C, I), AllProper(D, I),
         PinnedAlive(C, L), Alone(C), Shut(C, H), Changed(C, D, x),
         \A e \in Entities : PinsIt(D[x], e) => PinsIt(C[x], e) \/ ~H[e].closing \/ L[e] = "none",
         D[x].pc \in Mid \cup Late =>
           \/ C[x].pc \in Mid \cup Late /\ C[x].e = D[x].e
           \/ PinnersIn(C, D[x].e) \subseteq {x}
  PROVE  Alone(D)
<1> SUFFICES ASSUME NEW y \in Slots, NEW z \in Slots, D[y].pc \in Mid \cup Late, PinsIt(D[z], D[y].e)
             PROVE  z = y
  BY DEF Alone
<1>1. CASE y # x /\ z # x
  BY <1>1 DEF Alone, Changed
<1>2. CASE y # x /\ z = x
  <2>1. D[y] = C[y] /\ C[y] \in Call \cup {Gone} /\ Proper(C[y], I)
    BY <1>2 DEF Changed, CallMaps, AllProper
  <2>2. C[y].pc \notin {"pin", "gone"}
    BY <2>1 DEF Mid, Late
  <2>3. C[y].e \in Entities /\ PinsIt(C[y], C[y].e)
    BY <2>1, <2>2, CallKinds
  <2>4. H[C[y].e].closing /\ L[C[y].e] = "alive"
    BY <2>1, <2>3 DEF Shut, PinnedAlive
  <2>5. PinsIt(C[x], C[y].e)
    BY <1>2, <2>1, <2>3, <2>4
  <2>6. QED
    BY <2>1, <2>5, <1>2 DEF Alone
<1>3. CASE y = x /\ z # x
  <2>1. PinsIt(C[z], D[x].e)
    BY <1>3 DEF Changed
  <2>2. QED
    BY <1>3, <2>1 DEF Alone, PinnersIn
<1>4. QED
  BY <1>1, <1>2, <1>3

LEMMA StepShut ==
  ASSUME NEW C \in CallMaps, NEW D \in CallMaps, NEW x \in Slots, NEW I, NEW H, NEW G, NEW L, AllProper(C, I),
         PinnedAlive(C, L), Shut(C, H), Changed(C, D, x), I \in SUBSET Entities,
         D[x].pc \in Early \cup Mid \cup Late => G[D[x].e].closing,
         D[x].up => G[Parent(D[x].e)].closing,
         \A e \in Entities : L[e] = "alive" /\ H[e].closing => G[e].closing
  PROVE  Shut(D, G)
<1> SUFFICES ASSUME NEW y \in Slots, y # x
             PROVE  /\ C[y].pc \in Early \cup Mid \cup Late => G[C[y].e].closing
                    /\ C[y].up => G[Parent(C[y].e)].closing
  BY DEF Shut, Changed
<1>1. C[y] \in Call \cup {Gone} /\ Proper(C[y], I)
  BY DEF CallMaps, AllProper
<1>2. ASSUME C[y].pc \in Early \cup Mid \cup Late PROVE G[C[y].e].closing
  <2>1. C[y].pc \notin {"pin", "gone"}
    BY <1>2 DEF Early, Mid, Late
  <2>2. C[y].e \in Entities /\ PinsIt(C[y], C[y].e)
    BY <1>1, <2>1, CallKinds
  <2>3. QED
    BY <1>2, <2>2 DEF Shut, PinnedAlive
<1>3. ASSUME C[y].up PROVE G[Parent(C[y].e)].closing
  <2>1. PinsIt(C[y], Parent(C[y].e)) /\ Parent(C[y].e) \in Entities
    BY <1>1, <1>3, CallKinds DEF Proper
  <2>2. QED
    BY <1>3, <2>1 DEF Shut, PinnedAlive
<1>4. QED
  BY <1>2, <1>3

ListedChange(C, D, x, H, G, L) ==
  /\ D[x].pc \in Early \cup Mid => G[D[x].e].in
  /\ D[x].pc \in Late => ~G[D[x].e].in
  /\ D[x].up \/ D[x].pc = "closeParent" => G[Parent(D[x].e)].in
  /\ \A e \in Entities : L[e] = "alive" =>
       (G[e].in <=> H[e].in) \/ \A y \in Slots : y # x => ~PinsIt(C[y], e)

LEMMA StepListed ==
  ASSUME NEW C \in CallMaps, NEW D \in CallMaps, NEW x \in Slots, NEW I, NEW H, NEW G, NEW L, AllProper(C, I),
         PinnedAlive(C, L), Listed(C, H), Changed(C, D, x), I \in SUBSET Entities,
         ListedChange(C, D, x, H, G, L)
  PROVE  Listed(D, G)
<1> SUFFICES ASSUME NEW y \in Slots, y # x
             PROVE  /\ C[y].pc \in Early \cup Mid => G[C[y].e].in
                    /\ C[y].pc \in Late => ~G[C[y].e].in
                    /\ C[y].up \/ C[y].pc = "closeParent" => G[Parent(C[y].e)].in
  BY DEF Listed, Changed, ListedChange
<1>1. C[y] \in Call \cup {Gone} /\ Proper(C[y], I)
  BY DEF CallMaps, AllProper
<1>2. ASSUME C[y].pc \in Early \cup Mid \cup Late PROVE G[C[y].e].in <=> H[C[y].e].in
  <2>1. C[y].pc \notin {"pin", "gone"}
    BY <1>2 DEF Early, Mid, Late
  <2>2. C[y].e \in Entities /\ PinsIt(C[y], C[y].e)
    BY <1>1, <2>1, CallKinds
  <2>3. QED
    BY <1>2, <2>2 DEF PinnedAlive, ListedChange
<1>3. ASSUME C[y].up \/ C[y].pc = "closeParent" PROVE G[Parent(C[y].e)].in
  <2>1. PinsIt(C[y], Parent(C[y].e)) /\ Parent(C[y].e) \in Entities
    BY <1>1, <1>3, CallKinds DEF Proper
  <2>2. QED
    BY <1>3, <2>1 DEF Listed, PinnedAlive, ListedChange
<1>4. QED
  BY <1>2, <1>3 DEF Listed

LEMMA StepFresh ==
  ASSUME NEW C, NEW D, NEW x \in Slots, NEW L, NEW M, Fresh(C, L), Changed(C, D, x),
         D[x].pc \in {"pinTopic", "deferQos", "new"} => M[D[x].new] = "none",
         \A y \in Slots : y # x /\ C[y].pc \in {"pinTopic", "deferQos", "new"} /\ L[C[y].new] = "none"
                            => M[C[y].new] = "none"
  PROVE  Fresh(D, M)
  BY DEF Fresh, Changed

LEMMA StepKin ==
  ASSUME NEW C, NEW D, NEW x \in Slots, NEW L, NEW K, Kin(C, L, K), Changed(C, D, x),
         \A c \in Entities : Outside(D[x], c) <=> Outside(C[x], c)
  PROVE  Kin(D, L, K)
<1>1. \A c \in Entities, y \in Slots : Outside(D[y], c) <=> Outside(C[y], c)
  BY DEF Changed
<1>2. QED
  BY <1>1 DEF Kin

\* A call that has given up the reference to the topic of its entity.
Unreferring(f, r) == f.e = r /\ f.pc \in {"deleteTopic", "free"}

LEMMA RefersSame ==
  ASSUME NEW C, NEW D, NEW x \in Slots, NEW L, Changed(C, D, x),
         \A r \in Entities : Unreferring(D[x], r) <=> Unreferring(C[x], r), NEW e
  PROVE  {r \in Entities : RefersIn(D, L, r, e)} = {r \in Entities : RefersIn(C, L, r, e)}
<1>1. \A r \in Entities, y \in Slots : Unreferring(D[y], r) <=> Unreferring(C[y], r)
  BY DEF Changed
<1>2. ASSUME NEW r \in Entities PROVE RefersIn(D, L, r, e) <=> RefersIn(C, L, r, e)
  BY <1>1 DEF RefersIn, Unreferring
<1>3. QED
  BY <1>2

\* The references do not change but for the one of an entity to itself.
LEMMA StepRefs ==
  ASSUME NEW C, NEW D, NEW x \in Slots, NEW H \in Handles, NEW G \in Handles, NEW L, NEW K \in Trees, NEW I,
         RefsExact(C, H, L, K, I), Changed(C, D, x),
         \A r \in Entities : Unreferring(D[x], r) <=> Unreferring(C[x], r),
         \A e \in Entities : G[e].in =>
           H[e].in /\ G[e].refs - (IF e \in I \/ G[e].closing \/ G[e].deferred THEN 0 ELSE 1)
                      = H[e].refs - (IF e \in I \/ H[e].closing \/ H[e].deferred THEN 0 ELSE 1)
  PROVE  RefsExact(D, G, L, K, I)
<1> SUFFICES ASSUME NEW e \in Entities, G[e].in
             PROVE  G[e].refs = (IF e \in I \/ G[e].closing \/ G[e].deferred THEN 0 ELSE 1)
                + Cardinality(K[e]) + Cardinality({r \in Entities : RefersIn(D, L, r, e)})
  BY DEF RefsExact
<1> DEFINE R == {r \in Entities : RefersIn(C, L, r, e)}
<1>1. {r \in Entities : RefersIn(D, L, r, e)} = R
  BY RefersSame
<1>2. Cardinality(R) \in Nat /\ Cardinality(K[e]) \in Nat
  <2>1. R \subseteq Entities /\ K[e] \subseteq Entities /\ IsFiniteSet(Entities)
    BY HandlesAssumption DEF Trees
  <2> HIDE DEF R
  <2>2. QED
    BY <2>1, FS_Subset, FS_CardinalityType
<1>3. H[e].in /\ H[e].refs = (IF e \in I \/ H[e].closing \/ H[e].deferred THEN 0 ELSE 1) + Cardinality(K[e]) + Cardinality(R)
  BY DEF RefsExact
<1>4. G[e].refs \in Int /\ H[e].refs \in Int
  BY DEF Handles, Handle
<1> DEFINE a == IF e \in I \/ H[e].closing \/ H[e].deferred THEN 0 ELSE 1
           b == IF e \in I \/ G[e].closing \/ G[e].deferred THEN 0 ELSE 1
<1>5. a \in Int /\ b \in Int /\ G[e].refs - b = H[e].refs - a
  OBVIOUS
<1>6. H[e].refs = a + Cardinality(K[e]) + Cardinality(R)
  BY <1>3
<1> HIDE DEF R, a, b
<1>7. G[e].refs = b + Cardinality(K[e]) + Cardinality(R)
  BY <1>2, <1>4, <1>5, <1>6
<1>8. QED
  BY <1>1, <1>7 DEF b

\* A pin is counted for every call that takes one.
LEMMA StepPins ==
  ASSUME NEW C \in CallMaps, NEW D \in CallMaps, NEW x \in Slots, NEW H \in Handles, NEW G \in Handles, NEW I,
         AllProper(C, I), Few(C), PinsExact(C, H), Changed(C, D, x),
         \A e \in Entities : G[e].in =>
           H[e].in /\ G[e].pins = H[e].pins + (IF PinsIt(D[x], e) THEN 1 ELSE 0) - (IF PinsIt(C[x], e) THEN 1 ELSE 0)
  PROVE  PinsExact(D, G)
<1> SUFFICES ASSUME NEW e \in Entities, G[e].in PROVE G[e].pins = Cardinality(PinnersIn(D, e))
  BY DEF PinsExact
<1>1. H[e].pins = Cardinality(PinnersIn(C, e))
  BY DEF PinsExact
<1>2. QED
  BY <1>1, PinnersStep

LEMMA StepExisting ==
  ASSUME NEW H, NEW G, NEW L, Existing(H, L),
         \A e \in Entities : (G[e].in => H[e].in) /\ (H[e].in \/ H[e].closing => G[e].in \/ G[e].closing)
  PROVE  Existing(G, L)
  BY DEF Existing

World(C, H, L, K, I) ==
  /\ C \in CallMaps /\ H \in Handles /\ L \in Lives /\ K \in Trees /\ I \in SUBSET Entities
  /\ Sound(C, H, L, K, I)

\* Two stages of a call between which nothing changes hands.
Like(f, g) ==
  \/ f.pc \in {"pin", "gone"} /\ g.pc \in {"pin", "gone"}
  \/ /\ g.e = f.e /\ g.new = f.new /\ g.up = f.up
     /\ \/ g.pc = f.pc
        \/ {f.pc, g.pc} \subseteq Early
        \/ {f.pc, g.pc} \subseteq Mid
        \/ {f.pc, g.pc} \subseteq {"deleteTopic", "free"}
        \/ {f.pc, g.pc} \subseteq {"lock", "pinTopic", "unlock", "unpin"}
        \/ {f.pc, g.pc} \subseteq {"deferQos", "new", "allowQos", "unpinTopic"}

LEMMA LikeMeans ==
  ASSUME NEW f \in Call \cup {Gone}, NEW g \in Call \cup {Gone}, NEW I, Proper(f, I), Proper(g, I), Like(f, g)
  PROVE  /\ \A e : PinsIt(g, e) <=> PinsIt(f, e)
         /\ \A c \in Entities : Outside(g, c) <=> Outside(f, c)
         /\ \A r \in Entities : Unreferring(g, r) <=> Unreferring(f, r)
         /\ g.pc \in Early <=> f.pc \in Early
         /\ g.pc \in Mid <=> f.pc \in Mid
         /\ g.pc \in Late <=> f.pc \in Late
         /\ g.pc = "closeParent" <=> f.pc = "closeParent"
         /\ g.up <=> f.up
         /\ g.pc \in Early \cup Mid \cup Late \/ g.up => g.e = f.e
<1>1. CASE f.pc \in {"pin", "gone"} /\ g.pc \in {"pin", "gone"}
  <2>1. ~f.up /\ ~g.up
    BY <1>1 DEF Proper
  <2>2. (\A e : ~PinsIt(f, e)) /\ (\A e : ~PinsIt(g, e))
    BY <1>1, CallKinds
  <2>3. QED
    BY <1>1, <2>1, <2>2 DEF Outside, Unreferring, Early, Mid, Late, Left
<1>2. CASE ~(f.pc \in {"pin", "gone"} /\ g.pc \in {"pin", "gone"})
  <2>1. g.e = f.e /\ g.new = f.new /\ g.up = f.up
    BY <1>2 DEF Like
  <2>2. \A e : PinsIt(g, e) <=> PinsIt(f, e)
    BY <1>2, <2>1 DEF PinsIt, Like, Early, Mid, TopicPcs
  <2>3. QED
    BY <1>2, <2>1, <2>2 DEF Like, Outside, Unreferring, Early, Mid, Late, Left
<1>3. QED
  BY <1>1, <1>2

\* Nothing changes hands.
LEMMA Quiet ==
  ASSUME NEW C, NEW D \in CallMaps, NEW H, NEW L, NEW K, NEW I, World(C, H, L, K, I),
         Few(D), AllProper(D, I), Fresh(D, L), \A x \in Slots : Like(C[x], D[x])
  PROVE  World(D, H, L, K, I)
<1>0. /\ C \in CallMaps /\ H \in Handles /\ L \in Lives /\ K \in Trees /\ I \in SUBSET Entities
      /\ AllProper(C, I) /\ PinnedAlive(C, L) /\ Alone(C) /\ Shut(C, H) /\ Listed(C, H)
      /\ Existing(H, L) /\ Kin(C, L, K) /\ RefsExact(C, H, L, K, I) /\ PinsExact(C, H)
  BY DEF World, Sound
<1>1. ASSUME NEW x \in Slots
      PROVE  LET f == C[x]
                 g == D[x]
             IN  /\ \A e : PinsIt(g, e) <=> PinsIt(f, e)
                 /\ \A c \in Entities : Outside(g, c) <=> Outside(f, c)
                 /\ \A r \in Entities : Unreferring(g, r) <=> Unreferring(f, r)
                 /\ g.pc \in Early <=> f.pc \in Early
                 /\ g.pc \in Mid <=> f.pc \in Mid
                 /\ g.pc \in Late <=> f.pc \in Late
                 /\ g.pc = "closeParent" <=> f.pc = "closeParent"
                 /\ g.up <=> f.up
                 /\ g.pc \in Early \cup Mid \cup Late \/ g.up => g.e = f.e
  <2>1. C[x] \in Call \cup {Gone} /\ D[x] \in Call \cup {Gone} /\ Proper(C[x], I) /\ Proper(D[x], I) /\ Like(C[x], D[x])
    BY <1>0 DEF CallMaps, AllProper
  <2>2. QED
    BY <2>1, LikeMeans
<1>2. PinnedAlive(D, L)
  BY <1>0, <1>1 DEF PinnedAlive
<1>3. Alone(D)
  BY <1>0, <1>1 DEF Alone
<1>4. Shut(D, H)
  BY <1>0, <1>1 DEF Shut
<1>5. Listed(D, H)
  <2> SUFFICES ASSUME NEW x \in Slots
               PROVE  /\ D[x].pc \in Early \cup Mid => H[D[x].e].in
                      /\ D[x].pc \in Late => ~H[D[x].e].in
                      /\ D[x].up \/ D[x].pc = "closeParent" => H[Parent(D[x].e)].in
    BY DEF Listed
  <2>1. D[x].pc = "closeParent" => D[x].pc \in Late
    BY DEF Late
  <2>2. QED
    BY <1>0, <1>1, <2>1 DEF Listed
<1>6. Kin(D, L, K)
  <2>1. \A c \in Entities, x \in Slots : Outside(D[x], c) <=> Outside(C[x], c)
    BY <1>1
  <2>2. QED
    BY <1>0, <2>1 DEF Kin
<1>7. RefsExact(D, H, L, K, I)
  <2>1. \A r \in Entities, x \in Slots : Unreferring(D[x], r) <=> Unreferring(C[x], r)
    BY <1>1
  <2>2. \A r \in Entities, e \in Entities : RefersIn(D, L, r, e) <=> RefersIn(C, L, r, e)
    BY <2>1 DEF RefersIn, Unreferring
  <2>3. \A e \in Entities : {r \in Entities : RefersIn(D, L, r, e)} = {r \in Entities : RefersIn(C, L, r, e)}
    BY <2>2
  <2>4. QED
    BY <1>0, <2>3 DEF RefsExact
<1>8. PinsExact(D, H)
  <2>1. \A e \in Entities : PinnersIn(D, e) = PinnersIn(C, e)
    BY <1>1 DEF PinnersIn
  <2>2. QED
    BY <1>0, <2>1 DEF PinsExact
<1>9. QED
  BY <1>0, <1>2, <1>3, <1>4, <1>5, <1>6, <1>7, <1>8 DEF World, Sound

\* What World says, in parts.
LEMMA WorldParts ==
  ASSUME NEW C, NEW H, NEW L, NEW K, NEW I, World(C, H, L, K, I)
  PROVE  /\ C \in CallMaps /\ H \in Handles /\ L \in Lives /\ K \in Trees /\ I \in SUBSET Entities
         /\ Few(C) /\ AllProper(C, I) /\ PinnedAlive(C, L) /\ Alone(C) /\ Shut(C, H) /\ Listed(C, H)
         /\ Existing(H, L) /\ Fresh(C, L) /\ Kin(C, L, K) /\ RefsExact(C, H, L, K, I) /\ PinsExact(C, H)
  BY DEF World, Sound

\* What is known of the call that changes.
LEMMA CallFacts ==
  ASSUME NEW C, NEW H, NEW L, NEW K, NEW I, World(C, H, L, K, I), NEW x \in Slots
  PROVE  /\ C[x] \in Call \cup {Gone} /\ Proper(C[x], I)
         /\ C[x].pc # "gone" => C[x] \in Call /\ C[x].e \in Entities
         /\ C[x].pc \notin {"pin", "gone"} => PinsIt(C[x], C[x].e) /\ L[C[x].e] = "alive"
<1>1. C[x] \in Call \cup {Gone} /\ Proper(C[x], I)
  BY WorldParts DEF CallMaps, AllProper
<1>2. QED
  BY <1>1, CallKinds, WorldParts DEF PinnedAlive

MovedTo(f, g, pc) == g \in Call /\ g.pc = pc /\ g.e = f.e /\ g.new = f.new /\ g.up = f.up

\* Only the handles change, and so that the counts still agree.
LEMMA HandlesOnly ==
  ASSUME NEW C, NEW H, NEW L, NEW K, NEW I, World(C, H, L, K, I), NEW G \in Handles, NEW x \in Slots,
         \A e \in Entities : G[e].in = H[e].in /\ G[e].closing = H[e].closing /\ G[e].pins = H[e].pins,
         \A e \in Entities : G[e].refs - (IF e \in I \/ G[e].closing \/ G[e].deferred THEN 0 ELSE 1)
                              = H[e].refs - (IF e \in I \/ H[e].closing \/ H[e].deferred THEN 0 ELSE 1)
  PROVE  World(C, G, L, K, I)
<1>0. /\ C \in CallMaps /\ H \in Handles /\ L \in Lives /\ K \in Trees /\ I \in SUBSET Entities
      /\ Few(C) /\ AllProper(C, I) /\ PinnedAlive(C, L) /\ Alone(C) /\ Shut(C, H) /\ Listed(C, H)
      /\ Existing(H, L) /\ Fresh(C, L) /\ Kin(C, L, K) /\ RefsExact(C, H, L, K, I) /\ PinsExact(C, H)
  BY WorldParts
<1>1. ASSUME NEW y \in Slots
      PROVE  /\ C[y].pc \in Early \cup Mid \cup Late => C[y].e \in Entities
             /\ C[y].up \/ C[y].pc = "closeParent" => Parent(C[y].e) \in Entities
  BY <1>0, CallFacts DEF Early, Mid, Late, Proper
<1>2. Shut(C, G)
  BY <1>0, <1>1 DEF Shut
<1>3. Listed(C, G)
  BY <1>0, <1>1 DEF Listed
<1>4. Existing(G, L)
  BY <1>0, StepExisting
<1>5. PinsExact(C, G)
  BY <1>0 DEF PinsExact
<1>6. RefsExact(C, G, L, K, I)
  <2>1. Changed(C, C, x)
    BY DEF Changed
  <2>2. \A e \in Entities : G[e].in =>
           H[e].in /\ G[e].refs - (IF e \in I \/ G[e].closing \/ G[e].deferred THEN 0 ELSE 1)
                      = H[e].refs - (IF e \in I \/ H[e].closing \/ H[e].deferred THEN 0 ELSE 1)
    OBVIOUS
  <2>3. QED
    BY <1>0, <2>1, <2>2, StepRefs
<1>7. QED
  BY <1>0, <1>2, <1>3, <1>4, <1>5, <1>6 DEF World, Sound
-----------------------------------------------------------------------------
(* What changes hands *)

\* dds_handle_pin_for_delete closes and pins.
LEMMA PinnedForDelete ==
  ASSUME NEW C, NEW H, NEW L, NEW K, NEW I, World(C, H, L, K, I), NEW D \in CallMaps, NEW x \in Slots,
         Changed(C, D, x), C[x].pc = "pin", MovedTo(C[x], D[x], "interrupt"),
         NEW e, e = C[x].e, ~PinFails(H[e]), NEW G \in Handles, \A d \in Entities : d # e => G[d] = H[d],
         G[e].in, G[e].closing, G[e].pins = H[e].pins + 1,
         G[e].refs = H[e].refs - (IF e \in I \/ H[e].deferred THEN 0 ELSE 1)
  PROVE  World(D, G, L, K, I)
<1>0. /\ C \in CallMaps /\ H \in Handles /\ L \in Lives /\ K \in Trees /\ I \in SUBSET Entities
      /\ Few(C) /\ AllProper(C, I) /\ PinnedAlive(C, L) /\ Alone(C) /\ Shut(C, H) /\ Listed(C, H)
      /\ Existing(H, L) /\ Fresh(C, L) /\ Kin(C, L, K) /\ RefsExact(C, H, L, K, I) /\ PinsExact(C, H)
  BY WorldParts
<1>1. C[x] \in Call /\ Proper(C[x], I) /\ e \in Entities /\ D[x] \in Call
  BY CallFacts DEF MovedTo
<1>2. ~D[x].up /\ D[x].new = None /\ C[x].new = None /\ ~C[x].up /\ D[x].pc = "interrupt" /\ D[x].e = e
  BY <1>1 DEF Proper, MovedTo, UsePcs
<1>3. H[e].in /\ ~H[e].closing
  BY DEF PinFails
<1>4. (\A d \in Entities : PinsIt(D[x], d) <=> d = e) /\ (\A d \in Entities : ~PinsIt(C[x], d))
  BY <1>1, <1>2 DEF PinsIt
<1>5. AllProper(D, I)
  <2>1. Proper(D[x], I)
    BY <1>1, <1>2 DEF Proper, UsePcs, TopicPcs
  <2>2. QED
    BY <1>0, <2>1, StepProper
<1>6. PinnedAlive(D, L)
  <2>1. L[e] = "alive"
    BY <1>0, <1>1, <1>3 DEF Existing
  <2>2. QED
    BY <1>0, <1>4, <2>1, StepPinned
<1>7. Alone(D)
  <2>1. D[x].pc \notin Mid \cup Late
    BY <1>2 DEF Mid, Late
  <2>2. \A d \in Entities : PinsIt(D[x], d) => PinsIt(C[x], d) \/ ~H[d].closing \/ L[d] = "none"
    BY <1>3, <1>4
  <2>3. QED
    BY <1>0, <1>5, <2>1, <2>2, StepAlone
<1>8. Shut(D, G)
  <2>1. \A d \in Entities : L[d] = "alive" /\ H[d].closing => G[d].closing
    BY <1>3
  <2>2. QED
    BY <1>0, <1>2, <2>1, StepShut
<1>9. Listed(D, G)
  <2>1. \A d \in Entities : G[d].in = H[d].in
    <3>1. G[e].in \in BOOLEAN /\ H[e].in \in BOOLEAN
      BY <1>0, <1>1 DEF Handles, Handle
    <3>2. QED
      BY <1>3, <3>1
  <2>2. D[x].pc \notin Late /\ D[x].pc # "closeParent"
    BY <1>2 DEF Late
  <2>3. QED
    <3>1. /\ D[x].pc \in Early \cup Mid => G[D[x].e].in
          /\ D[x].pc \in Late => ~G[D[x].e].in
          /\ D[x].up \/ D[x].pc = "closeParent" => G[Parent(D[x].e)].in
      BY <1>2, <2>2
    <3>2. \A d \in Entities : L[d] = "alive" =>
            (G[d].in <=> H[d].in) \/ \A y \in Slots : y # x => ~PinsIt(C[y], d)
      BY <2>1
    <3>3. ListedChange(C, D, x, H, G, L)
      BY <3>1, <3>2 DEF ListedChange
    <3>4. QED
      BY <1>0, <3>3, StepListed
<1>10. Existing(G, L)
  BY <1>0, <1>3, StepExisting
<1>11. Fresh(D, L)
  BY <1>0, <1>2, StepFresh
<1>12. Kin(D, L, K)
  <2>1. \A c \in Entities : Outside(D[x], c) <=> Outside(C[x], c)
    BY <1>2 DEF Outside, Left
  <2>2. QED
    BY <1>0, <2>1, StepKin
<1>13. RefsExact(D, G, L, K, I)
  <2>1. \A r \in Entities : Unreferring(D[x], r) <=> Unreferring(C[x], r)
    BY <1>2 DEF Unreferring
  <2>2. ASSUME NEW d \in Entities, G[d].in
        PROVE  H[d].in /\ G[d].refs - (IF d \in I \/ G[d].closing \/ G[d].deferred THEN 0 ELSE 1)
                      = H[d].refs - (IF d \in I \/ H[d].closing \/ H[d].deferred THEN 0 ELSE 1)
    <3>1. CASE d # e
      BY <2>2, <3>1
    <3>2. CASE d = e
      <4>1. G[e].refs \in Int /\ H[e].refs \in Int
        BY <1>0, <1>1 DEF Handles, Handle
      <4>2. CASE e \in I \/ H[e].deferred
        BY <1>3, <3>2, <4>1, <4>2
      <4>3. CASE ~(e \in I \/ H[e].deferred)
        BY <1>3, <3>2, <4>1, <4>3
      <4>4. QED
        BY <4>2, <4>3
    <3>3. QED
      BY <3>1, <3>2
  <2>3. QED
    BY <1>0, <2>1, <2>2, StepRefs
<1>14. PinsExact(D, G)
  <2>1. ASSUME NEW d \in Entities, G[d].in
        PROVE  H[d].in /\ G[d].pins = H[d].pins + (IF PinsIt(D[x], d) THEN 1 ELSE 0) - (IF PinsIt(C[x], d) THEN 1 ELSE 0)
    <3>1. G[d].pins \in Int /\ H[d].pins \in Int
      BY <1>0 DEF Handles, Handle
    <3>2. QED
      BY <1>3, <1>4, <2>1, <3>1
  <2>2. QED
    BY <1>0, <2>1, StepPins
<1>15. Few(D)
  BY <1>0, StepFew
<1>16. QED
  BY <1>0, <1>5, <1>6, <1>7, <1>8, <1>9, <1>10, <1>11, <1>12, <1>13, <1>14, <1>15 DEF World, Sound

\* dds_handle_close_wait finds that the only pin is its own.
LEMMA OthersGone ==
  ASSUME NEW C, NEW H, NEW L, NEW K, NEW I, World(C, H, L, K, I), NEW D \in CallMaps, NEW x \in Slots,
         Changed(C, D, x), C[x].pc = "closeWait", MovedTo(C[x], D[x], "close"),
         H[C[x].e].pins = 1
  PROVE  World(D, H, L, K, I)
<1>0. /\ C \in CallMaps /\ H \in Handles /\ L \in Lives /\ K \in Trees /\ I \in SUBSET Entities
      /\ Few(C) /\ AllProper(C, I) /\ PinnedAlive(C, L) /\ Alone(C) /\ Shut(C, H) /\ Listed(C, H)
      /\ Existing(H, L) /\ Fresh(C, L) /\ Kin(C, L, K) /\ RefsExact(C, H, L, K, I) /\ PinsExact(C, H)
  BY WorldParts
<1> DEFINE e == C[x].e
<1>1. C[x] \in Call /\ Proper(C[x], I) /\ e \in Entities /\ D[x] \in Call /\ PinsIt(C[x], e) /\ L[e] = "alive"
  BY CallFacts DEF MovedTo
<1>2. ~D[x].up /\ D[x].new = None /\ C[x].new = None /\ ~C[x].up /\ D[x].pc = "close" /\ D[x].e = e
  BY <1>1 DEF Proper, MovedTo, UsePcs
<1>3. H[e].in /\ H[e].closing
  BY <1>0 DEF Listed, Shut, Early
<1>4. \A d \in Entities : PinsIt(D[x], d) <=> PinsIt(C[x], d)
  BY <1>1, <1>2 DEF PinsIt
<1>5. AllProper(D, I)
  <2>1. Proper(D[x], I)
    BY <1>1, <1>2 DEF Proper, UsePcs, TopicPcs
  <2>2. QED
    BY <1>0, <2>1, StepProper
<1>6. PinnedAlive(D, L)
  <2>1. \A d \in Entities : PinsIt(D[x], d) => L[d] = "alive"
    BY <1>0, <1>4 DEF PinnedAlive
  <2>2. QED
    BY <1>0, <2>1, StepPinned
<1>7. Alone(D)
  <2>1. Cardinality(PinnersIn(C, e)) = 1
    BY <1>0, <1>1, <1>3 DEF PinsExact
  <2>2. x \in PinnersIn(C, e)
    BY <1>1 DEF PinnersIn
  <2>3. IsFiniteSet(PinnersIn(C, e))
    <3>1. PinnersIn(C, e) \subseteq {y \in Slots : C[y].pc # "gone"}
      <4>1. ASSUME NEW y \in Slots, PinsIt(C[y], e) PROVE C[y].pc # "gone"
        BY <1>0, <4>1, CallKinds DEF CallMaps, AllProper
      <4>2. QED
        BY <4>1 DEF PinnersIn
    <3>2. QED
      BY <1>0, <3>1, FS_Subset DEF Few
  <2>4. PinnersIn(C, e) \subseteq {x}
    <3>1. Cardinality(PinnersIn(C, e) \ {x}) = 0 /\ IsFiniteSet(PinnersIn(C, e) \ {x})
      BY <2>1, <2>2, <2>3, FS_RemoveElement
    <3>2. PinnersIn(C, e) \ {x} = {}
      BY <3>1, FS_EmptySet
    <3>3. QED
      BY <3>2
  <2>5. QED
    <3>1. PinnersIn(C, D[x].e) \subseteq {x}
      BY <1>2, <2>4
    <3>2. \A d \in Entities : PinsIt(D[x], d) => PinsIt(C[x], d) \/ ~H[d].closing \/ L[d] = "none"
      BY <1>4
    <3>3. QED
      BY <1>0, <1>5, <3>1, <3>2, StepAlone
<1>8. Shut(D, H)
  BY <1>0, <1>2, <1>3, StepShut
<1>9. Listed(D, H)
  <2>1. D[x].pc \notin Late /\ D[x].pc # "closeParent"
    BY <1>2 DEF Late
  <2>2. QED
    BY <1>0, <1>2, <1>3, <2>1, StepListed DEF ListedChange
<1>11. Fresh(D, L)
  BY <1>0, <1>2, StepFresh
<1>12. Kin(D, L, K)
  <2>1. \A c \in Entities : Outside(D[x], c) <=> Outside(C[x], c)
    BY <1>2 DEF Outside, Left
  <2>2. QED
    BY <1>0, <2>1, StepKin
<1>13. RefsExact(D, H, L, K, I)
  <2>1. \A r \in Entities : Unreferring(D[x], r) <=> Unreferring(C[x], r)
    BY <1>2 DEF Unreferring
  <2>2. QED
    BY <1>0, <2>1, StepRefs
<1>14. PinsExact(D, H)
  <2>1. ASSUME NEW d \in Entities, H[d].in
        PROVE  H[d].pins = H[d].pins + (IF PinsIt(D[x], d) THEN 1 ELSE 0) - (IF PinsIt(C[x], d) THEN 1 ELSE 0)
    <3>1. H[d].pins \in Int
      BY <1>0 DEF Handles, Handle
    <3>2. QED
      BY <1>4, <3>1
  <2>2. QED
    BY <1>0, <2>1, StepPins
<1>15. Few(D)
  BY <1>0, StepFew
<1>16. QED
  BY <1>0, <1>5, <1>6, <1>7, <1>8, <1>9, <1>11, <1>12, <1>13, <1>14, <1>15 DEF World, Sound

\* dds_handle_delete
LEMMA HandleDeleted ==
  ASSUME NEW C, NEW H, NEW L, NEW K, NEW I, World(C, H, L, K, I), NEW D \in CallMaps, NEW x \in Slots,
         Changed(C, D, x), C[x].pc = "handleDelete",
         NEW e, e = C[x].e, MovedTo(C[x], D[x], IF e = Root THEN "dropTopic" ELSE "leaveParent"),
         NEW G \in Handles, \A d \in Entities : d # e => G[d] = H[d], ~G[e].in, G[e].closing = H[e].closing
  PROVE  World(D, G, L, K, I)
<1>0. /\ C \in CallMaps /\ H \in Handles /\ L \in Lives /\ K \in Trees /\ I \in SUBSET Entities
      /\ Few(C) /\ AllProper(C, I) /\ PinnedAlive(C, L) /\ Alone(C) /\ Shut(C, H) /\ Listed(C, H)
      /\ Existing(H, L) /\ Fresh(C, L) /\ Kin(C, L, K) /\ RefsExact(C, H, L, K, I) /\ PinsExact(C, H)
  BY WorldParts
<1>1. C[x] \in Call /\ Proper(C[x], I) /\ e \in Entities /\ D[x] \in Call /\ PinsIt(C[x], e) /\ L[e] = "alive"
  BY CallFacts DEF MovedTo
<1>2. /\ ~D[x].up /\ D[x].new = None /\ C[x].new = None /\ ~C[x].up /\ D[x].e = e
      /\ D[x].pc \in {"dropTopic", "leaveParent"} /\ (D[x].pc = "leaveParent" => e # Root)
      /\ (D[x].pc = "dropTopic" => e = Root)
  BY <1>1 DEF Proper, MovedTo, UsePcs
<1>3. H[e].closing /\ \A y \in Slots : PinsIt(C[y], e) => y = x
  BY <1>0 DEF Shut, Alone, Mid
<1>4. \A d \in Entities : PinsIt(D[x], d) <=> PinsIt(C[x], d)
  BY <1>1, <1>2 DEF PinsIt
<1>5. AllProper(D, I)
  <2>1. Proper(D[x], I)
    BY <1>1, <1>2 DEF Proper, UsePcs, TopicPcs
  <2>2. QED
    BY <1>0, <2>1, StepProper
<1>6. PinnedAlive(D, L)
  <2>1. \A d \in Entities : PinsIt(D[x], d) => L[d] = "alive"
    BY <1>0, <1>4 DEF PinnedAlive
  <2>2. QED
    BY <1>0, <2>1, StepPinned
<1>7. Alone(D)
  <2>1. C[x].pc \in Mid \cup Late /\ C[x].e = D[x].e
    BY <1>2 DEF Mid
  <2>2. QED
    <3>1. \A d \in Entities : PinsIt(D[x], d) => PinsIt(C[x], d) \/ ~H[d].closing \/ L[d] = "none"
      BY <1>4
    <3>2. QED
      BY <1>0, <1>5, <2>1, <3>1, StepAlone
<1>8. Shut(D, G)
  <2>1. \A d \in Entities : H[d].closing => G[d].closing
    BY <1>3
  <2>2. G[D[x].e].closing /\ ~D[x].up
    BY <1>2, <1>3
  <2>3. QED
    BY <1>0, <2>1, <2>2, StepShut
<1>9. Listed(D, G)
  <2>1. D[x].pc \notin Early \cup Mid /\ D[x].pc # "closeParent"
    BY <1>2 DEF Early, Mid
  <2>2. \A d \in Entities : (G[d].in <=> H[d].in) \/ \A y \in Slots : y # x => ~PinsIt(C[y], d)
    BY <1>3
  <2>3. QED
    BY <1>0, <1>2, <2>1, <2>2, StepListed DEF ListedChange
<1>10. Existing(G, L)
  <2>1. \A d \in Entities : (G[d].in => H[d].in) /\ (H[d].in \/ H[d].closing => G[d].in \/ G[d].closing)
    BY <1>3
  <2>2. QED
    BY <1>0, <2>1, StepExisting
<1>11. Fresh(D, L)
  BY <1>0, <1>2, StepFresh
<1>12. Kin(D, L, K)
  <2>1. CASE e # Root
    <3>1. \A c \in Entities : Outside(D[x], c) <=> Outside(C[x], c)
      BY <1>2, <2>1 DEF Outside, Left
    <3>2. QED
      BY <1>0, <3>1, StepKin
  <2>2. CASE e = Root
    <3>1. \A c \in Entities : c # Root => (Outside(D[x], c) <=> Outside(C[x], c))
      BY <1>2, <2>2 DEF Outside, Left
    <3>2. \A c \in Entities : c # Root => \A y \in Slots : Outside(D[y], c) <=> Outside(C[y], c)
      BY <3>1 DEF Changed
    <3>3. \A p \in Entities : Parent(Root) # p
      BY HandlesAssumption
    <3>4. QED
      BY <1>0, <3>2, <3>3 DEF Kin
  <2>3. QED
    BY <2>1, <2>2
<1>13. RefsExact(D, G, L, K, I)
  <2>1. \A r \in Entities : Unreferring(D[x], r) <=> Unreferring(C[x], r)
    BY <1>2 DEF Unreferring
  <2>2. \A d \in Entities : G[d].in => G[d] = H[d]
    OBVIOUS
  <2>3. QED
    BY <1>0, <2>1, <2>2, StepRefs
<1>14. PinsExact(D, G)
  <2>1. ASSUME NEW d \in Entities, G[d].in
        PROVE  H[d].in /\ G[d].pins = H[d].pins + (IF PinsIt(D[x], d) THEN 1 ELSE 0) - (IF PinsIt(C[x], d) THEN 1 ELSE 0)
    <3>1. H[d].pins \in Int /\ G[d] = H[d]
      BY <1>0, <2>1 DEF Handles, Handle
    <3>2. QED
      BY <1>4, <2>1, <3>1
  <2>2. QED
    BY <1>0, <2>1, StepPins
<1>15. Few(D)
  BY <1>0, StepFew
<1>16. QED
  BY <1>0, <1>5, <1>6, <1>7, <1>8, <1>9, <1>10, <1>11, <1>12, <1>13, <1>14, <1>15 DEF World, Sound

\* A call that is outside for c has it pinned.
LEMMA OutsidePins ==
  ASSUME NEW f, NEW I, Proper(f, I), NEW c \in Entities, Outside(f, c)
  PROVE  PinsIt(f, c)
<1>1. None \notin Entities
  BY HandlesAssumption
<1>2. QED
  BY <1>1 DEF Outside, PinsIt, Left

\* The sets that are counted are finite.
LEMMA RefSets ==
  ASSUME NEW C, NEW L, NEW K \in Trees, NEW e \in Entities
  PROVE  /\ IsFiniteSet(K[e]) /\ Cardinality(K[e]) \in Nat
         /\ IsFiniteSet({r \in Entities : RefersIn(C, L, r, e)})
         /\ Cardinality({r \in Entities : RefersIn(C, L, r, e)}) \in Nat
<1> DEFINE R == {r \in Entities : RefersIn(C, L, r, e)}
<1>1. R \subseteq Entities /\ K[e] \subseteq Entities /\ IsFiniteSet(Entities)
  BY HandlesAssumption DEF Trees
<1> HIDE DEF R
<1>2. QED
  <2>1. IsFiniteSet(R) /\ IsFiniteSet(K[e])
    BY <1>1, FS_Subset
  <2>2. QED
    BY <2>1, FS_CardinalityType DEF R

\* At most child c and reader q come or go.
CountsChange(C, D, L, M, H, G, K, J, I, c, q) ==
  /\ \A e, b \in Entities : b # c => (b \in J[e] <=> b \in K[e])
  /\ \A e, r \in Entities : r # q => (RefersIn(D, M, r, e) <=> RefersIn(C, L, r, e))
  /\ \A e \in Entities : G[e].in =>
       H[e].in /\ G[e].refs = H[e].refs + Own(G, e, I) - Own(H, e, I) + One(c \in J[e]) - One(c \in K[e])
                            + One(RefersIn(D, M, q, e)) - One(RefersIn(C, L, q, e))
\* Then the references are counted.
LEMMA CountsStep ==
  ASSUME NEW C, NEW D, NEW L, NEW M, NEW H \in Handles, NEW G \in Handles, NEW K \in Trees, NEW J \in Trees, NEW I,
         RefsExact(C, H, L, K, I), NEW c, NEW q \in Entities, CountsChange(C, D, L, M, H, G, K, J, I, c, q)
  PROVE  RefsExact(D, G, M, J, I)
<1>0. /\ \A e, b \in Entities : b # c => (b \in J[e] <=> b \in K[e])
      /\ \A e, r \in Entities : r # q => (RefersIn(D, M, r, e) <=> RefersIn(C, L, r, e))
      /\ \A e \in Entities : G[e].in =>
           H[e].in /\ G[e].refs = H[e].refs + Own(G, e, I) - Own(H, e, I) + One(c \in J[e]) - One(c \in K[e])
                            + One(RefersIn(D, M, q, e)) - One(RefersIn(C, L, q, e))
  BY DEF CountsChange
<1> SUFFICES ASSUME NEW e \in Entities, G[e].in
             PROVE  G[e].refs = (IF e \in I \/ G[e].closing \/ G[e].deferred THEN 0 ELSE 1)
                + Cardinality(J[e]) + Cardinality({r \in Entities : RefersIn(D, M, r, e)})
  BY DEF RefsExact
<1> DEFINE R == {r \in Entities : RefersIn(C, L, r, e)}
           Q == {r \in Entities : RefersIn(D, M, r, e)}
<1>1. H[e].in /\ H[e].refs = Own(H, e, I) + Cardinality(K[e]) + Cardinality(R)
  BY <1>0 DEF RefsExact, Own
<1>2. IsFiniteSet(R) /\ IsFiniteSet(K[e]) /\ Cardinality(R) \in Nat /\ Cardinality(K[e]) \in Nat
  BY RefSets
<1>3. (q \in R <=> RefersIn(C, L, q, e)) /\ (q \in Q <=> RefersIn(D, M, q, e))
  OBVIOUS
<1>4. \A r \in R \cup Q : r # q => (r \in R <=> r \in Q)
  BY <1>0
<1>5. \A b \in K[e] \cup J[e] : b # c => (b \in K[e] <=> b \in J[e])
  BY <1>0 DEF Trees
<1> HIDE DEF R, Q
<1>6. Cardinality(Q) = Cardinality(R) + One(q \in Q) - One(q \in R) /\ Cardinality(Q) \in Nat
  BY <1>2, <1>4, CardStep
<1>7. Cardinality(J[e]) = Cardinality(K[e]) + One(c \in J[e]) - One(c \in K[e]) /\ Cardinality(J[e]) \in Nat
  BY <1>2, <1>5, CardStep
<1>8. One(q \in Q) = One(RefersIn(D, M, q, e)) /\ One(q \in R) = One(RefersIn(C, L, q, e))
  BY <1>3 DEF One
<1>9. Own(G, e, I) \in Int /\ Own(H, e, I) \in Int /\ \A b \in BOOLEAN : One(b) \in Int
  BY DEF Own, One
<1>10. G[e].refs = H[e].refs + Own(G, e, I) - Own(H, e, I) + One(c \in J[e]) - One(c \in K[e])
                            + One(q \in Q) - One(q \in R)
  BY <1>0, <1>8
<1>11. /\ One(c \in J[e]) \in Int /\ One(c \in K[e]) \in Int /\ One(q \in Q) \in Int /\ One(q \in R) \in Int
       /\ H[e].refs \in Int /\ G[e].refs \in Int
  BY DEF One, Handles, Handle
<1>12. G[e].refs = Own(G, e, I) + Cardinality(J[e]) + Cardinality(Q)
  BY <1>1, <1>2, <1>6, <1>7, <1>9, <1>10, <1>11
<1>13. QED
  BY <1>12 DEF Own, Q

\* The entity leaves its parent, whose handle loses a reference; with b, the
\* parent is pinned to be deleted as well.
LEMMA ParentLeft ==
  ASSUME NEW C, NEW H, NEW L, NEW K, NEW I, World(C, H, L, K, I), NEW D \in CallMaps, NEW x \in Slots,
         Changed(C, D, x), C[x].pc = "leaveParent", NEW b \in BOOLEAN, NEW e, e = C[x].e, NEW p, p = Parent(e),
         MovedTo(C[x], D[x], IF b THEN "closeParent" ELSE "dropTopic"), b => ~H[p].closing /\ p \in I,
         NEW G \in Handles, \A d \in Entities : d # p => G[d] = H[d],
         G[p].in = H[p].in, G[p].closing = H[p].closing, G[p].deferred = H[p].deferred,
         G[p].refs = H[p].refs - 1, G[p].pins = H[p].pins + (IF b THEN 1 ELSE 0),
         NEW J \in Trees, J[p] = K[p] \ {e}, \A d \in Entities : d # p => J[d] = K[d]
  PROVE  World(D, G, L, J, I)
<1>0. /\ C \in CallMaps /\ H \in Handles /\ L \in Lives /\ K \in Trees /\ I \in SUBSET Entities
      /\ Few(C) /\ AllProper(C, I) /\ PinnedAlive(C, L) /\ Alone(C) /\ Shut(C, H) /\ Listed(C, H)
      /\ Existing(H, L) /\ Fresh(C, L) /\ Kin(C, L, K) /\ RefsExact(C, H, L, K, I) /\ PinsExact(C, H)
  BY WorldParts
<1>1. C[x] \in Call /\ Proper(C[x], I) /\ e \in Entities /\ D[x] \in Call /\ PinsIt(C[x], e) /\ L[e] = "alive"
  BY CallFacts DEF MovedTo
<1>2. /\ ~D[x].up /\ D[x].new = None /\ C[x].new = None /\ ~C[x].up /\ D[x].e = e
      /\ D[x].pc = (IF b THEN "closeParent" ELSE "dropTopic")
  BY <1>1 DEF Proper, MovedTo, UsePcs
<1>3. H[e].closing /\ ~H[e].in /\ \A y \in Slots : PinsIt(C[y], e) => y = x
  BY <1>0 DEF Shut, Alone, Late, Listed
<1>4. p \in Entities /\ p # e /\ e # Root
  BY <1>1, HandlesAssumption DEF Proper
<1>5. \A d \in Entities : PinsIt(D[x], d) <=> d = e \/ (b /\ d = p)
  BY <1>1, <1>2 DEF PinsIt
<1>6. \A d \in Entities : PinsIt(C[x], d) <=> d = e
  BY <1>1, <1>2 DEF PinsIt
<1>7. AllProper(D, I)
  <2>1. Proper(D[x], I)
    BY <1>1, <1>2 DEF Proper, UsePcs, TopicPcs
  <2>2. QED
    BY <1>0, <2>1, StepProper
<1>8. b => H[p].in /\ L[p] = "alive"
  BY <1>0, <1>1, <1>4 DEF Existing
<1>9. PinnedAlive(D, L)
  <2>1. \A d \in Entities : PinsIt(D[x], d) => L[d] = "alive"
    BY <1>1, <1>5, <1>8
  <2>2. QED
    BY <1>0, <2>1, StepPinned
<1>10. Alone(D)
  <2>1. C[x].pc \in Mid \cup Late /\ C[x].e = D[x].e
    BY <1>2 DEF Late
  <2>2. \A d \in Entities : PinsIt(D[x], d) => PinsIt(C[x], d) \/ ~H[d].closing \/ L[d] = "none"
    BY <1>5, <1>6
  <2>3. QED
    BY <1>0, <1>7, <2>1, <2>2, StepAlone
<1>11. Shut(D, G)
  <2>1. \A d \in Entities : H[d].closing => G[d].closing
    OBVIOUS
  <2>2. G[D[x].e].closing /\ ~D[x].up
    BY <1>2, <1>3, <1>1, <2>1
  <2>3. QED
    BY <1>0, <2>1, <2>2, StepShut
<1>12. Listed(D, G)
  <2>1. \A d \in Entities : L[d] = "alive" => (G[d].in <=> H[d].in) \/ \A y \in Slots : y # x => ~PinsIt(C[y], d)
    OBVIOUS
  <2>2. /\ D[x].pc \in Early \cup Mid => G[D[x].e].in
        /\ D[x].pc \in Late => ~G[D[x].e].in
        /\ D[x].up \/ D[x].pc = "closeParent" => G[Parent(D[x].e)].in
    BY <1>1, <1>2, <1>3, <1>4, <1>8 DEF Early, Mid
  <2>3. ListedChange(C, D, x, H, G, L)
    BY <2>1, <2>2 DEF ListedChange
  <2>4. QED
    BY <1>0, <2>3, StepListed
<1>13. Existing(G, L)
  BY <1>0, StepExisting
<1>14. Fresh(D, L)
  <2>1. D[x].pc \notin {"pinTopic", "deferQos", "new"}
    BY <1>2
  <2>2. QED
    BY <1>0, <2>1, StepFresh
<1>15. e \in K[p]
  <2>1. \A y \in Slots : ~Outside(C[y], e)
    <3>1. ~Outside(C[x], e)
      BY <1>2 DEF Outside, Left
    <3>2. \A y \in Slots : Outside(C[y], e) => PinsIt(C[y], e)
      BY <1>0, <1>1, OutsidePins DEF AllProper
    <3>3. QED
      BY <1>3, <3>1, <3>2
  <2>2. QED
    BY <1>0, <1>1, <1>4, <2>1 DEF Kin
<1>16. Kin(D, L, J)
  <2>1. Outside(D[x], e)
    BY <1>2 DEF Outside, Left
  <2>2. \A c \in Entities : c # e => \A y \in Slots : Outside(D[y], c) <=> Outside(C[y], c)
    <3>1. \A c \in Entities : c # e => ~Outside(D[x], c) /\ ~Outside(C[x], c)
      BY <1>2 DEF Outside
    <3>2. QED
      BY <3>1 DEF Changed
  <2>3. ASSUME NEW q \in Entities, NEW c \in Entities
        PROVE  c \in J[q] <=> Parent(c) = q /\ L[c] = "alive" /\ \A y \in Slots : ~Outside(D[y], c)
    <3>0. c \in K[q] <=> Parent(c) = q /\ L[c] = "alive" /\ \A y \in Slots : ~Outside(C[y], c)
      BY <1>0 DEF Kin
    <3>1. CASE c = e
      <4>1. c \notin J[q]
        BY <3>0, <3>1
      <4>2. QED
        BY <2>1, <3>1, <4>1
    <3>2. CASE c # e
      <4>1. c \in J[q] <=> c \in K[q]
        BY <3>2
      <4>2. QED
        BY <2>2, <3>0, <3>2, <4>1
    <3>3. QED
      BY <3>1, <3>2
  <2>4. QED
    BY <2>3 DEF Kin
<1>17. RefsExact(D, G, L, J, I)
  <2>1. \A d, c \in Entities : c # e => (c \in J[d] <=> c \in K[d])
    OBVIOUS
  <2>2. \A d, r \in Entities : RefersIn(D, L, r, d) <=> RefersIn(C, L, r, d)
    <3>1. \A r \in Entities, y \in Slots : Unreferring(D[y], r) <=> Unreferring(C[y], r)
      BY <1>2 DEF Unreferring, Changed
    <3>2. QED
      BY <3>1 DEF RefersIn, Unreferring
  <2>3. ASSUME NEW d \in Entities, G[d].in
        PROVE  H[d].in /\ G[d].refs = H[d].refs + Own(G, d, I) - Own(H, d, I) + One(e \in J[d]) - One(e \in K[d])
                            + One(RefersIn(D, L, e, d)) - One(RefersIn(C, L, e, d))
    <3>1. RefersIn(D, L, e, d) <=> RefersIn(C, L, e, d)
      BY <1>1, <2>2
    <3>2. Own(G, d, I) = Own(H, d, I) /\ H[d].in
      BY <2>3 DEF Own
    <3>3. CASE d = p
      <4>1. e \in K[d] /\ e \notin J[d]
        BY <1>15, <3>3
      <4>2. QED
        BY <1>0, <3>1, <3>2, <3>3, <4>1 DEF One, Own, Handles, Handle
    <3>4. CASE d # p
      <4>1. J[d] = K[d] /\ G[d] = H[d]
        BY <3>4
      <4>2. QED
        BY <1>0, <3>1, <3>2, <4>1 DEF One, Own, Handles, Handle
    <3>5. QED
      BY <3>3, <3>4
  <2>4. \A d, r \in Entities : r # e => (RefersIn(D, L, r, d) <=> RefersIn(C, L, r, d))
    BY <2>2
  <2>5. CountsChange(C, D, L, L, H, G, K, J, I, e, e)
    BY <2>1, <2>3, <2>4 DEF CountsChange
  <2>6. QED
    BY <1>0, <1>1, <2>5, CountsStep
<1>18. PinsExact(D, G)
  <2>1. ASSUME NEW d \in Entities, G[d].in
        PROVE  H[d].in /\ G[d].pins = H[d].pins + (IF PinsIt(D[x], d) THEN 1 ELSE 0) - (IF PinsIt(C[x], d) THEN 1 ELSE 0)
    <3>1. G[d].pins \in Int /\ H[d].pins \in Int /\ H[d].in
      BY <1>0, <2>1 DEF Handles, Handle
    <3>2. d # e
      BY <1>3, <3>1
    <3>3. QED
      BY <1>4, <1>5, <1>6, <3>1, <3>2
  <2>2. QED
    BY <1>0, <2>1, StepPins
<1>19. Few(D)
  BY <1>0, StepFew
<1>20. QED
  BY <1>0, <1>7, <1>9, <1>10, <1>11, <1>12, <1>13, <1>14, <1>16, <1>17, <1>18, <1>19 DEF World, Sound

\* dds_handle_close on the parent
LEMMA ParentClosed ==
  ASSUME NEW C, NEW H, NEW L, NEW K, NEW I, World(C, H, L, K, I), NEW D \in CallMaps, NEW x \in Slots,
         Changed(C, D, x), C[x].pc = "closeParent", NEW p, p = Parent(C[x].e),
         D[x] \in Call, D[x].pc = "dropTopic", D[x].e = C[x].e, D[x].new = C[x].new, D[x].up,
         NEW G \in Handles, \A d \in Entities : d # p => G[d] = H[d],
         G[p].in = H[p].in, G[p].closing, G[p].deferred = H[p].deferred,
         G[p].refs = H[p].refs, G[p].pins = H[p].pins
  PROVE  World(D, G, L, K, I)
<1>0. /\ C \in CallMaps /\ H \in Handles /\ L \in Lives /\ K \in Trees /\ I \in SUBSET Entities
      /\ Few(C) /\ AllProper(C, I) /\ PinnedAlive(C, L) /\ Alone(C) /\ Shut(C, H) /\ Listed(C, H)
      /\ Existing(H, L) /\ Fresh(C, L) /\ Kin(C, L, K) /\ RefsExact(C, H, L, K, I) /\ PinsExact(C, H)
  BY WorldParts
<1> DEFINE e == C[x].e
<1>1. C[x] \in Call /\ Proper(C[x], I) /\ e \in Entities /\ PinsIt(C[x], e) /\ L[e] = "alive"
  BY CallFacts
<1>2. D[x].new = None /\ C[x].new = None /\ ~C[x].up /\ p \in I /\ p \in Entities
  BY <1>0, <1>1 DEF Proper, UsePcs
<1>3. H[e].closing /\ ~H[e].in /\ H[p].in
  BY <1>0 DEF Shut, Late, Listed
<1>4. p # e
  BY <1>1, HandlesAssumption
<1>5. \A d \in Entities : PinsIt(D[x], d) <=> PinsIt(C[x], d)
  BY <1>1, <1>2 DEF PinsIt
<1>7. AllProper(D, I)
  <2>1. Proper(D[x], I)
    BY <1>1, <1>2 DEF Proper, UsePcs, TopicPcs
  <2>2. QED
    BY <1>0, <2>1, StepProper
<1>9. PinnedAlive(D, L)
  <2>1. \A d \in Entities : PinsIt(D[x], d) => L[d] = "alive"
    BY <1>0, <1>5 DEF PinnedAlive
  <2>2. QED
    BY <1>0, <2>1, StepPinned
<1>10. Alone(D)
  <2>1. C[x].pc \in Mid \cup Late /\ C[x].e = D[x].e
    BY DEF Late
  <2>2. \A d \in Entities : PinsIt(D[x], d) => PinsIt(C[x], d) \/ ~H[d].closing \/ L[d] = "none"
    BY <1>5
  <2>3. QED
    BY <1>0, <1>7, <2>1, <2>2, StepAlone
<1>11. Shut(D, G)
  <2>1. \A d \in Entities : H[d].closing => G[d].closing
    OBVIOUS
  <2>2. G[D[x].e].closing /\ G[Parent(D[x].e)].closing
    BY <1>2, <1>3, <1>1, <2>1
  <2>3. QED
    BY <1>0, <2>1, <2>2, StepShut
<1>12. Listed(D, G)
  <2>1. \A d \in Entities : L[d] = "alive" => (G[d].in <=> H[d].in) \/ \A y \in Slots : y # x => ~PinsIt(C[y], d)
    OBVIOUS
  <2>2. /\ D[x].pc \in Early \cup Mid => G[D[x].e].in
        /\ D[x].pc \in Late => ~G[D[x].e].in
        /\ D[x].up \/ D[x].pc = "closeParent" => G[Parent(D[x].e)].in
    BY <1>1, <1>2, <1>3, <1>4 DEF Early, Mid
  <2>3. ListedChange(C, D, x, H, G, L)
    BY <2>1, <2>2 DEF ListedChange
  <2>4. QED
    BY <1>0, <2>3, StepListed
<1>13. Existing(G, L)
  <2>1. \A d \in Entities : (G[d].in => H[d].in) /\ (H[d].in \/ H[d].closing => G[d].in \/ G[d].closing)
    BY <1>2
  <2>2. QED
    BY <1>0, <2>1, StepExisting
<1>14. Fresh(D, L)
  BY <1>0, StepFresh
<1>16. Kin(D, L, K)
  <2>1. \A c \in Entities : Outside(D[x], c) <=> Outside(C[x], c)
    BY DEF Outside, Left
  <2>2. QED
    BY <1>0, <2>1, StepKin
<1>17. RefsExact(D, G, L, K, I)
  <2>0. \A r \in Entities : Unreferring(D[x], r) <=> Unreferring(C[x], r)
    BY DEF Unreferring
  <2>1. ASSUME NEW d \in Entities, G[d].in
        PROVE  H[d].in /\ G[d].refs - (IF d \in I \/ G[d].closing \/ G[d].deferred THEN 0 ELSE 1)
                      = H[d].refs - (IF d \in I \/ H[d].closing \/ H[d].deferred THEN 0 ELSE 1)
    BY <1>2, <2>1
  <2>2. QED
    BY <1>0, <2>0, <2>1, StepRefs
<1>18. PinsExact(D, G)
  <2>1. ASSUME NEW d \in Entities, G[d].in
        PROVE  H[d].in /\ G[d].pins = H[d].pins + (IF PinsIt(D[x], d) THEN 1 ELSE 0) - (IF PinsIt(C[x], d) THEN 1 ELSE 0)
    <3>1. G[d].pins \in Int /\ H[d].pins \in Int /\ H[d].in /\ G[d].pins = H[d].pins
      BY <1>0, <2>1 DEF Handles, Handle
    <3>3. QED
      BY <1>5, <3>1
  <2>2. QED
    BY <1>0, <2>1, StepPins
<1>19. Few(D)
  BY <1>0, StepFew
<1>20. QED
  BY <1>0, <1>7, <1>9, <1>10, <1>11, <1>12, <1>13, <1>14, <1>16, <1>17, <1>18, <1>19 DEF World, Sound

\* The reader gives up the reference to its topic.
LEMMA TopicDropped ==
  ASSUME NEW C, NEW H, NEW L, NEW K, NEW I, World(C, H, L, K, I), NEW D \in CallMaps, NEW x \in Slots,
         Changed(C, D, x), C[x].pc = "dropTopic", NEW e, e = C[x].e, NEW pc \in {"deleteTopic", "free"},
         MovedTo(C[x], D[x], pc), pc = "deleteTopic" => TopicOf(e) # None,
         NEW G \in Handles, \A d \in Entities : d # TopicOf(e) => G[d] = H[d],
         TopicOf(e) # None =>
           LET g == G[TopicOf(e)]
               h == H[TopicOf(e)]
           IN  g.in = h.in /\ g.closing = h.closing /\ g.deferred = h.deferred /\ g.pins = h.pins /\ g.refs = h.refs - 1
  PROVE  World(D, G, L, K, I)
<1>0. /\ C \in CallMaps /\ H \in Handles /\ L \in Lives /\ K \in Trees /\ I \in SUBSET Entities
      /\ Few(C) /\ AllProper(C, I) /\ PinnedAlive(C, L) /\ Alone(C) /\ Shut(C, H) /\ Listed(C, H)
      /\ Existing(H, L) /\ Fresh(C, L) /\ Kin(C, L, K) /\ RefsExact(C, H, L, K, I) /\ PinsExact(C, H)
  BY WorldParts
<1>1. C[x] \in Call /\ Proper(C[x], I) /\ e \in Entities /\ D[x] \in Call /\ PinsIt(C[x], e) /\ L[e] = "alive"
  BY CallFacts DEF MovedTo
<1>2. /\ D[x].up = C[x].up /\ D[x].new = None /\ C[x].new = None /\ D[x].e = e /\ D[x].pc = pc
  BY <1>1 DEF Proper, MovedTo, UsePcs
<1>3. H[e].closing /\ ~H[e].in /\ \A y \in Slots : PinsIt(C[y], e) => y = x
  BY <1>0 DEF Shut, Alone, Late, Listed
<1>4. TopicOf(e) # None => TopicOf(e) \in Entities
  BY <1>1, HandlesAssumption
<1>5. \A d \in Entities : PinsIt(D[x], d) <=> PinsIt(C[x], d)
  BY <1>1, <1>2 DEF PinsIt
<1>6. \A d \in Entities : G[d].in = H[d].in /\ G[d].closing = H[d].closing /\ G[d].deferred = H[d].deferred /\ G[d].pins = H[d].pins
  <2>1. None \notin Entities
    BY HandlesAssumption
  <2>2. QED
    BY <2>1
<1>7. AllProper(D, I)
  <2>1. Proper(D[x], I)
    BY <1>1, <1>2 DEF Proper, UsePcs, TopicPcs
  <2>2. QED
    BY <1>0, <2>1, StepProper
<1>9. PinnedAlive(D, L)
  <2>1. \A d \in Entities : PinsIt(D[x], d) => L[d] = "alive"
    BY <1>0, <1>5 DEF PinnedAlive
  <2>2. QED
    BY <1>0, <2>1, StepPinned
<1>10. Alone(D)
  <2>1. C[x].pc \in Mid \cup Late /\ C[x].e = D[x].e
    BY <1>2 DEF Late
  <2>2. \A d \in Entities : PinsIt(D[x], d) => PinsIt(C[x], d) \/ ~H[d].closing \/ L[d] = "none"
    BY <1>5
  <2>3. QED
    BY <1>0, <1>7, <2>1, <2>2, StepAlone
<1>11. Shut(D, G)
  <2>1. \A d \in Entities : H[d].closing => G[d].closing
    BY <1>6
  <2>2. G[D[x].e].closing
    BY <1>2, <1>3, <1>1, <2>1
  <2>3. D[x].up => G[Parent(D[x].e)].closing
    <3>1. C[x].up => H[Parent(e)].closing /\ Parent(e) \in Entities
      BY <1>0, <1>1 DEF Shut, Proper
    <3>2. QED
      BY <1>2, <2>1, <3>1
  <2>4. QED
    BY <1>0, <2>1, <2>2, <2>3, StepShut
<1>12. Listed(D, G)
  <2>1. \A d \in Entities : L[d] = "alive" => (G[d].in <=> H[d].in) \/ \A y \in Slots : y # x => ~PinsIt(C[y], d)
    BY <1>6
  <2>2. D[x].pc \notin Early \cup Mid /\ D[x].pc # "closeParent" /\ ~G[D[x].e].in
    BY <1>1, <1>2, <1>3, <1>6 DEF Early, Mid
  <2>3. D[x].up => G[Parent(D[x].e)].in
    <3>1. C[x].up => H[Parent(e)].in /\ Parent(e) \in Entities
      BY <1>0, <1>1 DEF Listed, Proper
    <3>2. QED
      BY <1>2, <1>6, <3>1
  <2>4. ListedChange(C, D, x, H, G, L)
    BY <2>1, <2>2, <2>3 DEF ListedChange
  <2>5. QED
    BY <1>0, <2>4, StepListed
<1>13. Existing(G, L)
  BY <1>0, <1>6, StepExisting
<1>14. Fresh(D, L)
  <2>1. D[x].pc \notin {"pinTopic", "deferQos", "new"}
    BY <1>2
  <2>2. QED
    BY <1>0, <2>1, StepFresh
<1>16. Kin(D, L, K)
  <2>1. \A c \in Entities : Outside(D[x], c) <=> Outside(C[x], c)
    BY <1>2 DEF Outside, Left
  <2>2. QED
    BY <1>0, <2>1, StepKin
<1>17. RefsExact(D, G, L, K, I)
  <2>1. \A d, r \in Entities : r # e => (RefersIn(D, L, r, d) <=> RefersIn(C, L, r, d))
    <3>1. \A r \in Entities, y \in Slots : r # e => (Unreferring(D[y], r) <=> Unreferring(C[y], r))
      BY <1>2 DEF Unreferring, Changed
    <3>2. QED
      BY <3>1 DEF RefersIn, Unreferring
  <2>2. \A d \in Entities : ~RefersIn(D, L, e, d)
    BY <1>2 DEF RefersIn
  <2>3. \A d \in Entities : RefersIn(C, L, e, d) <=> d = TopicOf(e)
    <3>1. \A y \in Slots : C[y].e = e => C[y].pc \notin {"deleteTopic", "free"}
      <4>1. ASSUME NEW y \in Slots, C[y].e = e, C[y].pc \in {"deleteTopic", "free"} PROVE FALSE
        <5>1. PinsIt(C[y], e)
          BY <4>1 DEF PinsIt
        <5>2. QED
          BY <1>3, <4>1, <5>1
      <4>2. QED
        BY <4>1
    <3>2. QED
      BY <1>1, <3>1 DEF RefersIn
  <2>4. ASSUME NEW d \in Entities, G[d].in
        PROVE  H[d].in /\ G[d].refs = H[d].refs + Own(G, d, I) - Own(H, d, I) + One(e \in K[d]) - One(e \in K[d])
                            + One(RefersIn(D, L, e, d)) - One(RefersIn(C, L, e, d))
    <3>2. Own(G, d, I) = Own(H, d, I) /\ H[d].in /\ Own(H, d, I) \in Int /\ One(e \in K[d]) \in Int
      BY <1>6, <2>4 DEF Own, One
    <3>3. CASE d = TopicOf(e)
      <4>1. G[d].refs = H[d].refs - 1 /\ H[d].refs \in Int /\ G[d].refs \in Int
        BY <1>0, <3>3, HandlesAssumption DEF Handles, Handle
      <4>2. One(RefersIn(D, L, e, d)) = 0 /\ One(RefersIn(C, L, e, d)) = 1
        BY <2>2, <2>3, <3>3 DEF One
      <4>3. QED
        BY <3>2, <4>1, <4>2
    <3>4. CASE d # TopicOf(e)
      <4>1. G[d].refs = H[d].refs /\ H[d].refs \in Int
        BY <1>0, <3>4 DEF Handles, Handle
      <4>2. One(RefersIn(D, L, e, d)) = 0 /\ One(RefersIn(C, L, e, d)) = 0
        BY <2>2, <2>3, <3>4 DEF One
      <4>3. QED
        BY <3>2, <4>1, <4>2
    <3>5. QED
      BY <3>3, <3>4
  <2>5. CountsChange(C, D, L, L, H, G, K, K, I, e, e)
    BY <2>1, <2>4 DEF CountsChange
  <2>6. QED
    BY <1>0, <1>1, <2>5, CountsStep
<1>18. PinsExact(D, G)
  <2>1. ASSUME NEW d \in Entities, G[d].in
        PROVE  H[d].in /\ G[d].pins = H[d].pins + (IF PinsIt(D[x], d) THEN 1 ELSE 0) - (IF PinsIt(C[x], d) THEN 1 ELSE 0)
    <3>1. H[d].pins \in Int /\ H[d].in /\ G[d].pins = H[d].pins
      BY <1>0, <1>6, <2>1 DEF Handles, Handle
    <3>3. QED
      BY <1>5, <3>1
  <2>2. QED
    BY <1>0, <2>1, StepPins
<1>19. Few(D)
  BY <1>0, StepFew
<1>20. QED
  BY <1>0, <1>7, <1>9, <1>10, <1>11, <1>12, <1>13, <1>14, <1>16, <1>17, <1>18, <1>19 DEF World, Sound

\* The memory is freed; if the parent is to be deleted, that comes next.
LEMMA EntityFreed ==
  ASSUME NEW C, NEW H, NEW L, NEW K, NEW I, World(C, H, L, K, I), NEW D \in CallMaps, NEW x \in Slots,
         Changed(C, D, x), C[x].pc = "free", NEW e, e = C[x].e, NEW M \in Lives, M[e] = "freed",
         \A d \in Entities : d # e => M[d] = L[d],
         ~C[x].up => D[x] = Gone,
         C[x].up => D[x] \in Call /\ D[x].pc = "interrupt" /\ D[x].e = Parent(e) /\ D[x].new = None /\ ~D[x].up
  PROVE  World(D, H, M, K, I)
<1>0. /\ C \in CallMaps /\ H \in Handles /\ L \in Lives /\ K \in Trees /\ I \in SUBSET Entities
      /\ Few(C) /\ AllProper(C, I) /\ PinnedAlive(C, L) /\ Alone(C) /\ Shut(C, H) /\ Listed(C, H)
      /\ Existing(H, L) /\ Fresh(C, L) /\ Kin(C, L, K) /\ RefsExact(C, H, L, K, I) /\ PinsExact(C, H)
  BY WorldParts
<1>1. C[x] \in Call /\ Proper(C[x], I) /\ e \in Entities /\ PinsIt(C[x], e) /\ L[e] = "alive"
  BY CallFacts
<1> DEFINE p == Parent(e)
<1>2. /\ ~D[x].up /\ D[x].new = None /\ C[x].new = None
      /\ D[x].pc = (IF C[x].up THEN "interrupt" ELSE "gone")
      /\ C[x].up => D[x].e = p /\ p \in Entities /\ H[p].in /\ H[p].closing /\ PinsIt(C[x], p) /\ L[p] = "alive"
  <2>1. C[x].new = None
    BY <1>1 DEF Proper, UsePcs
  <2>2. ASSUME C[x].up
        PROVE D[x].e = p /\ p \in Entities /\ H[p].in /\ H[p].closing /\ PinsIt(C[x], p) /\ L[p] = "alive"
    <3>1. p \in Entities /\ PinsIt(C[x], p)
      BY <1>0, <1>1, <2>2 DEF Proper, PinsIt
    <3>2. H[p].in /\ H[p].closing /\ L[p] = "alive"
      BY <1>0, <2>2, <3>1 DEF Listed, Shut, PinnedAlive
    <3>3. QED
      BY <2>2, <3>1, <3>2
  <2>3. C[x].up \in BOOLEAN
    BY <1>1 DEF Call
  <2>4. QED
    BY <2>1, <2>2, <2>3 DEF Gone
<1>3. ~H[e].in /\ \A y \in Slots : PinsIt(C[y], e) => y = x
  BY <1>0 DEF Alone, Late, Listed
<1>4. p # e
  BY <1>1, HandlesAssumption
<1>5. \A d \in Entities : d # e => (PinsIt(D[x], d) <=> PinsIt(C[x], d))
  BY <1>1, <1>2, <1>4 DEF PinsIt
<1>6. ~PinsIt(D[x], e)
  BY <1>2, <1>4 DEF PinsIt
<1>7. AllProper(D, I)
  <2>1. Proper(D[x], I)
    BY <1>1, <1>2 DEF Proper, UsePcs, TopicPcs
  <2>2. QED
    BY <1>0, <2>1, StepProper
<1>9. PinnedAlive(D, M)
  <2>1. \A d \in Entities : PinsIt(D[x], d) => M[d] = "alive"
    BY <1>0, <1>5, <1>6 DEF PinnedAlive
  <2>2. \A d \in Entities : L[d] = "alive" /\ M[d] # "alive" => \A y \in Slots : y # x => ~PinsIt(C[y], d)
    BY <1>3
  <2>3. QED
    BY <1>0, <2>1, <2>2, StepPinned
<1>10. Alone(D)
  <2>1. D[x].pc \notin Mid \cup Late
    BY <1>2 DEF Mid, Late
  <2>2. \A d \in Entities : PinsIt(D[x], d) => PinsIt(C[x], d) \/ ~H[d].closing \/ L[d] = "none"
    BY <1>5, <1>6
  <2>3. QED
    BY <1>0, <1>7, <2>1, <2>2, StepAlone
<1>11. Shut(D, H)
  <2>1. D[x].pc \in Early \cup Mid \cup Late => H[D[x].e].closing
    BY <1>2 DEF Early, Mid, Late
  <2>2. ~D[x].up
    BY <1>2
  <2>3. QED
    BY <1>0, <2>1, <2>2, StepShut
<1>12. Listed(D, H)
  <2>1. /\ D[x].pc \in Early \cup Mid => H[D[x].e].in
        /\ D[x].pc \notin Late
        /\ ~D[x].up /\ D[x].pc # "closeParent"
    BY <1>2 DEF Early, Mid, Late
  <2>2. ListedChange(C, D, x, H, H, L)
    BY <2>1 DEF ListedChange
  <2>3. QED
    BY <1>0, <2>2, StepListed
<1>13. Existing(H, M)
  <2>1. \A d \in Entities : M[d] # "none" <=> L[d] # "none"
    BY <1>1
  <2>2. \A d \in Entities : (TopicOf(d) # None => TopicOf(d) \in Entities) /\ (d # Root => Parent(d) \in Entities)
    BY HandlesAssumption
  <2>3. QED
    BY <1>0, <1>3, <2>1, <2>2 DEF Existing
<1>14. Fresh(D, M)
  <2>1. D[x].pc \notin {"pinTopic", "deferQos", "new"}
    BY <1>2
  <2>2. ASSUME NEW y \in Slots, y # x, C[y].pc \in {"pinTopic", "deferQos", "new"}, L[C[y].new] = "none"
        PROVE  M[C[y].new] = "none"
    <3>1. C[y] \in Call /\ Proper(C[y], I)
      BY <2>2, CallFacts
    <3>2. C[y].new \in Entities
      BY <2>2, <3>1 DEF Proper, TopicPcs, Call
    <3>3. QED
      BY <1>1, <2>2, <3>2
  <2>3. QED
    BY <1>0, <2>1, <2>2, StepFresh
<1>16. Kin(D, M, K)
  <2>1. Outside(C[x], e)
    BY <1>1 DEF Outside, Left
  <2>2. \A c \in Entities : c # e => \A y \in Slots : Outside(D[y], c) <=> Outside(C[y], c)
    <3>1. \A c \in Entities : c # e => ~Outside(D[x], c) /\ ~Outside(C[x], c)
      BY <1>2 DEF Outside, Left
    <3>2. QED
      BY <3>1 DEF Changed
  <2>3. ASSUME NEW q \in Entities, NEW c \in Entities
        PROVE  c \in K[q] <=> Parent(c) = q /\ M[c] = "alive" /\ \A y \in Slots : ~Outside(D[y], c)
    <3>0. c \in K[q] <=> Parent(c) = q /\ L[c] = "alive" /\ \A y \in Slots : ~Outside(C[y], c)
      BY <1>0 DEF Kin
    <3>1. CASE c = e
      BY <2>1, <3>0, <3>1
    <3>2. CASE c # e
      BY <2>2, <3>0, <3>2
    <3>3. QED
      BY <3>1, <3>2
  <2>4. QED
    BY <2>3 DEF Kin
<1>17. RefsExact(D, H, M, K, I)
  <2>1. \A d, r \in Entities : r # e => (RefersIn(D, M, r, d) <=> RefersIn(C, L, r, d))
    <3>1. \A r \in Entities, y \in Slots : r # e => (Unreferring(D[y], r) <=> Unreferring(C[y], r))
      BY <1>2 DEF Unreferring, Changed
    <3>2. QED
      BY <3>1 DEF RefersIn, Unreferring
  <2>2. \A d \in Entities : ~RefersIn(D, M, e, d) /\ ~RefersIn(C, L, e, d)
    BY DEF RefersIn
  <2>3. \A d \in Entities : {r \in Entities : RefersIn(D, M, r, d)} = {r \in Entities : RefersIn(C, L, r, d)}
    BY <2>1, <2>2
  <2>4. QED
    BY <1>0, <2>3 DEF RefsExact
<1>18. PinsExact(D, H)
  <2>1. ASSUME NEW d \in Entities, H[d].in
        PROVE  H[d].pins = H[d].pins + (IF PinsIt(D[x], d) THEN 1 ELSE 0) - (IF PinsIt(C[x], d) THEN 1 ELSE 0)
    <3>1. H[d].pins \in Int /\ d # e
      BY <1>0, <1>3, <2>1 DEF Handles, Handle
    <3>3. QED
      BY <1>5, <3>1
  <2>2. QED
    BY <1>0, <2>1, StepPins
<1>19. Few(D)
  BY <1>0, StepFew
<1>20. QED
  BY <1>0, <1>7, <1>9, <1>10, <1>11, <1>12, <1>13, <1>14, <1>16, <1>17, <1>18, <1>19 DEF World, Sound

\* An operation takes or gives up pins; it deletes nothing and has registered no child.
UseStages == (UsePcs \cup {"gone"}) \ {"register"}
UsePinChange(C, D, x, H, G, L) ==
  /\ C[x].pc \in UseStages /\ D[x].pc \in UseStages
  /\ D[x].pc \in {"pinTopic", "deferQos", "new"} => L[D[x].new] = "none"
  /\ \A d \in Entities : PinsIt(D[x], d) => PinsIt(C[x], d) \/ ~PinFails(H[d])
  /\ \A d \in Entities : /\ G[d].in = H[d].in /\ G[d].closing = H[d].closing
                         /\ G[d].deferred = H[d].deferred /\ G[d].refs = H[d].refs
                         /\ G[d].pins = H[d].pins + One(PinsIt(D[x], d)) - One(PinsIt(C[x], d))

LEMMA UsePin ==
  ASSUME NEW C, NEW H, NEW L, NEW K, NEW I, World(C, H, L, K, I), NEW D \in CallMaps, NEW x \in Slots,
         Changed(C, D, x), NEW G \in Handles, Proper(D[x], I), UsePinChange(C, D, x, H, G, L)
  PROVE  World(D, G, L, K, I)
<1>0. /\ C \in CallMaps /\ H \in Handles /\ L \in Lives /\ K \in Trees /\ I \in SUBSET Entities
      /\ Few(C) /\ AllProper(C, I) /\ PinnedAlive(C, L) /\ Alone(C) /\ Shut(C, H) /\ Listed(C, H)
      /\ Existing(H, L) /\ Fresh(C, L) /\ Kin(C, L, K) /\ RefsExact(C, H, L, K, I) /\ PinsExact(C, H)
  BY WorldParts
<1>1. C[x] \in Call \cup {Gone} /\ Proper(C[x], I) /\ D[x] \in Call \cup {Gone}
  BY CallFacts DEF CallMaps
<1>2. /\ C[x].pc \notin {"pin", "register"} \cup Early \cup Mid \cup Late
      /\ D[x].pc \notin {"pin", "register"} \cup Early \cup Mid \cup Late
  BY DEF UsePinChange, UseStages, UsePcs, Early, Mid, Late
<1>3. ~C[x].up /\ ~D[x].up /\ C[x].pc # "closeParent" /\ D[x].pc # "closeParent"
  <2>1. C[x].pc # "dropTopic" /\ C[x].pc # "deleteTopic" /\ C[x].pc # "free" /\ C[x].pc # "closeParent"
        /\ D[x].pc # "dropTopic" /\ D[x].pc # "deleteTopic" /\ D[x].pc # "free" /\ D[x].pc # "closeParent"
    BY <1>2 DEF Late
  <2>2. QED
    BY <1>1, <2>1 DEF Proper
<1>4. /\ \A d \in Entities : PinsIt(D[x], d) => PinsIt(C[x], d) \/ (H[d].in /\ ~H[d].closing)
      /\ \A d \in Entities : /\ G[d].in = H[d].in /\ G[d].closing = H[d].closing
                             /\ G[d].deferred = H[d].deferred /\ G[d].refs = H[d].refs
      /\ \A d \in Entities : G[d].pins = H[d].pins + One(PinsIt(D[x], d)) - One(PinsIt(C[x], d))
  BY DEF UsePinChange, PinFails
<1>5. AllProper(D, I)
  BY <1>0, StepProper
<1>6. PinnedAlive(D, L)
  <2>1. \A d \in Entities : PinsIt(D[x], d) => L[d] = "alive"
    BY <1>0, <1>4 DEF Existing, PinnedAlive
  <2>2. QED
    BY <1>0, <2>1, StepPinned
<1>7. Alone(D)
  <2>1. D[x].pc \notin Mid \cup Late
    BY <1>2
  <2>2. \A d \in Entities : PinsIt(D[x], d) => PinsIt(C[x], d) \/ ~H[d].closing \/ L[d] = "none"
    BY <1>4
  <2>3. QED
    BY <1>0, <1>5, <2>1, <2>2, StepAlone
<1>8. Shut(D, G)
  <2>1. \A d \in Entities : L[d] = "alive" /\ H[d].closing => G[d].closing
    BY <1>4
  <2>2. D[x].pc \notin Early \cup Mid \cup Late
    BY <1>2
  <2>3. QED
    BY <1>0, <1>3, <2>1, <2>2, StepShut
<1>9. Listed(D, G)
  <2>1. \A d \in Entities : L[d] = "alive" => (G[d].in <=> H[d].in) \/ \A y \in Slots : y # x => ~PinsIt(C[y], d)
    BY <1>4
  <2>2. D[x].pc \notin Early \cup Mid \cup Late
    BY <1>2
  <2>3. ListedChange(C, D, x, H, G, L)
    BY <1>3, <2>1, <2>2 DEF ListedChange
  <2>4. QED
    BY <1>0, <2>3, StepListed
<1>10. Existing(G, L)
  BY <1>0, <1>4, StepExisting
<1>11. Fresh(D, L)
  BY <1>0, StepFresh DEF UsePinChange
<1>12. Kin(D, L, K)
  <2>1. \A c \in Entities : Outside(D[x], c) <=> Outside(C[x], c)
    BY <1>2 DEF Outside, Left, Late
  <2>2. QED
    BY <1>0, <2>1, StepKin
<1>13. RefsExact(D, G, L, K, I)
  <2>1. \A r \in Entities : Unreferring(D[x], r) <=> Unreferring(C[x], r)
    BY <1>2 DEF Unreferring, Late
  <2>2. QED
    BY <1>0, <1>4, <2>1, StepRefs
<1>14. PinsExact(D, G)
  <2>1. \A d \in Entities : G[d].in =>
           H[d].in /\ G[d].pins = H[d].pins + (IF PinsIt(D[x], d) THEN 1 ELSE 0) - (IF PinsIt(C[x], d) THEN 1 ELSE 0)
    BY <1>4 DEF One
  <2>2. QED
    BY <1>0, <2>1, StepPins
<1>15. Few(D)
  BY <1>0, StepFew
<1>16. QED
  BY <1>0, <1>5, <1>6, <1>7, <1>8, <1>9, <1>10, <1>11, <1>12, <1>13, <1>14, <1>15 DEF World, Sound

\* No other operation works on the entity: it is locked.
Sole(C, x) == \A y \in Slots : y # x /\ C[y].pc \in Owning => C[y].e # C[x].e

\* The child is counted and its parent gives up the pin it was created with.
ChildCounted(H, G, K, J, e, c) ==
  /\ \A d \in Entities : /\ G[d].in = H[d].in /\ G[d].closing = H[d].closing
                         /\ G[d].deferred = H[d].deferred
  /\ \A d \in Entities : G[d].refs = H[d].refs + One(d = e) /\ G[d].pins = H[d].pins - One(d = c)
  /\ J[e] = K[e] \cup {c} /\ \A d \in Entities : d # e => J[d] = K[d]

LEMMA Registered ==
  ASSUME NEW C, NEW H, NEW L, NEW K, NEW I, World(C, H, L, K, I), NEW D \in CallMaps, NEW x \in Slots,
         Changed(C, D, x), Sole(C, x), C[x].pc = "register", NEW c, c = C[x].new, NEW e, e = C[x].e,
         MovedTo(C[x], D[x], IF TopicOf(c) = None THEN "unlock" ELSE "allowQos"),
         NEW G \in Handles, NEW J \in Trees, ChildCounted(H, G, K, J, e, c)
  PROVE  World(D, G, L, J, I)
<1>a. /\ \A d \in Entities : /\ G[d].in = H[d].in /\ G[d].closing = H[d].closing
                            /\ G[d].deferred = H[d].deferred
      /\ \A d \in Entities : G[d].refs = H[d].refs + One(d = e) /\ G[d].pins = H[d].pins - One(d = c)
      /\ J[e] = K[e] \cup {c} /\ \A d \in Entities : d # e => J[d] = K[d]
  BY DEF ChildCounted
<1>0. /\ C \in CallMaps /\ H \in Handles /\ L \in Lives /\ K \in Trees /\ I \in SUBSET Entities
      /\ Few(C) /\ AllProper(C, I) /\ PinnedAlive(C, L) /\ Alone(C) /\ Shut(C, H) /\ Listed(C, H)
      /\ Existing(H, L) /\ Fresh(C, L) /\ Kin(C, L, K) /\ RefsExact(C, H, L, K, I) /\ PinsExact(C, H)
  BY WorldParts
<1>1. C[x] \in Call /\ Proper(C[x], I) /\ e \in Entities /\ D[x] \in Call /\ PinsIt(C[x], e) /\ L[e] = "alive"
  BY CallFacts DEF MovedTo
<1>2. /\ c # None /\ c \in Entities /\ Parent(c) = e /\ ~C[x].up /\ ~D[x].up /\ D[x].e = e /\ D[x].new = c
      /\ e \notin Topics /\ D[x].pc = (IF TopicOf(c) = None THEN "unlock" ELSE "allowQos")
  <2>1. c # None /\ Parent(c) = e /\ ~C[x].up /\ e \notin Topics
    BY <1>1 DEF Proper, UsePcs, TopicPcs
  <2>2. c \in Entities
    BY <1>1, <2>1 DEF Call
  <2>3. QED
    BY <2>1, <2>2 DEF MovedTo
<1>3. c # e /\ TopicOf(c) # c /\ None \notin Entities
  BY <1>1, <1>2, HandlesAssumption
<1>4. PinsIt(C[x], c) /\ L[c] = "alive"
  BY <1>0, <1>2 DEF PinsIt, PinnedAlive
<1>5. \A d \in Entities : PinsIt(D[x], d) <=> PinsIt(C[x], d) /\ d # c
  <2>1. CASE TopicOf(c) = None
    BY <1>2, <1>3, <2>1 DEF PinsIt, TopicPcs
  <2>2. CASE TopicOf(c) # None
    BY <1>2, <1>3, <2>2 DEF PinsIt, TopicPcs
  <2>3. QED
    BY <2>1, <2>2
<1>6. D[x].pc \notin {"register"} \cup Early \cup Mid \cup Late /\ C[x].pc \notin Early \cup Mid \cup Late
  BY <1>2 DEF Early, Mid, Late
<1>7. AllProper(D, I)
  <2>1. Proper(D[x], I)
    BY <1>1, <1>2 DEF Proper, UsePcs, TopicPcs
  <2>2. QED
    BY <1>0, <2>1, StepProper
<1>8. PinnedAlive(D, L)
  <2>1. \A d \in Entities : PinsIt(D[x], d) => L[d] = "alive"
    BY <1>0, <1>5 DEF PinnedAlive
  <2>2. QED
    BY <1>0, <2>1, StepPinned
<1>9. Alone(D)
  <2>2. \A d \in Entities : PinsIt(D[x], d) => PinsIt(C[x], d) \/ ~H[d].closing \/ L[d] = "none"
    BY <1>5
  <2>3. QED
    BY <1>0, <1>6, <1>7, <2>2, StepAlone
<1>10. Shut(D, G)
  <2>1. \A d \in Entities : L[d] = "alive" /\ H[d].closing => G[d].closing
    BY <1>a
  <2>3. QED
    BY <1>0, <1>2, <1>6, <2>1, StepShut
<1>11. Listed(D, G)
  <2>1. \A d \in Entities : L[d] = "alive" => (G[d].in <=> H[d].in) \/ \A y \in Slots : y # x => ~PinsIt(C[y], d)
    BY <1>a
  <2>2. D[x].pc # "closeParent"
    BY <1>2
  <2>3. ListedChange(C, D, x, H, G, L)
    BY <1>2, <1>6, <2>1, <2>2 DEF ListedChange
  <2>4. QED
    BY <1>0, <2>3, StepListed
<1>12. Existing(G, L)
  BY <1>a, <1>0, StepExisting
<1>13. Fresh(D, L)
  <2>1. D[x].pc \notin {"pinTopic", "deferQos", "new"}
    BY <1>2
  <2>2. QED
    BY <1>0, <2>1, StepFresh
<1>14. Outside(C[x], c) /\ \A b \in Entities : (b # c => ~Outside(C[x], b)) /\ ~Outside(D[x], b)
  BY <1>2, <1>6 DEF Outside, Left, Late
<1>15. \A y \in Slots : ~Outside(D[y], c)
  <2>1. ASSUME NEW y \in Slots, y # x, Outside(C[y], c) PROVE FALSE
    <3>1. C[y] \in Call \cup {Gone} /\ Proper(C[y], I)
      BY CallFacts
    <3>2. CASE C[y].pc = "register" /\ C[y].new = c
      <4>1. Parent(c) = C[y].e
        BY <1>2, <3>1, <3>2 DEF Proper, UsePcs
      <4>2. QED
        BY <1>2, <2>1, <3>2, <4>1 DEF Sole, Owning
    <3>3. CASE C[y].e = c /\ C[y].pc \in Left
      <4>1. C[y].pc \in Mid \cup Late
        BY <3>3 DEF Left, Late
      <4>2. QED
        BY <1>0, <1>4, <2>1, <3>3, <4>1 DEF Alone
    <3>4. QED
      BY <2>1, <3>2, <3>3 DEF Outside
  <2>2. QED
    BY <1>2, <1>14, <2>1 DEF Changed
<1>16. Kin(D, L, J)
  <2>2. \A b \in Entities : b # c => \A y \in Slots : Outside(D[y], b) <=> Outside(C[y], b)
    BY <1>14 DEF Changed
  <2>3. ASSUME NEW q \in Entities, NEW b \in Entities
        PROVE  b \in J[q] <=> Parent(b) = q /\ L[b] = "alive" /\ \A y \in Slots : ~Outside(D[y], b)
    <3>0. b \in K[q] <=> Parent(b) = q /\ L[b] = "alive" /\ \A y \in Slots : ~Outside(C[y], b)
      BY <1>0 DEF Kin
    <3>1. CASE b = c
      <4>1. b \in J[q] <=> q = e
        BY <1>a, <1>2, <1>14, <3>0, <3>1
      <4>2. QED
        BY <1>2, <1>4, <1>15, <3>1, <4>1
    <3>2. CASE b # c
      <4>1. b \in J[q] <=> b \in K[q]
        BY <1>a, <3>2
      <4>2. QED
        BY <2>2, <3>0, <3>2, <4>1
    <3>3. QED
      BY <3>1, <3>2
  <2>4. QED
    BY <2>3 DEF Kin
<1>17. RefsExact(D, G, L, J, I)
  <2>1. \A d, b \in Entities : b # c => (b \in J[d] <=> b \in K[d])
    BY <1>a
  <2>2. \A d, r \in Entities : RefersIn(D, L, r, d) <=> RefersIn(C, L, r, d)
    <3>1. \A r \in Entities, y \in Slots : Unreferring(D[y], r) <=> Unreferring(C[y], r)
      BY <1>6 DEF Unreferring, Changed, Late
    <3>2. QED
      BY <3>1 DEF RefersIn, Unreferring
  <2>3. ASSUME NEW d \in Entities, G[d].in
        PROVE  H[d].in /\ G[d].refs = H[d].refs + Own(G, d, I) - Own(H, d, I) + One(c \in J[d]) - One(c \in K[d])
                            + One(RefersIn(D, L, c, d)) - One(RefersIn(C, L, c, d))
    <3>1. One(RefersIn(D, L, c, d)) = One(RefersIn(C, L, c, d)) /\ One(RefersIn(C, L, c, d)) \in Int
      BY <1>2, <2>2 DEF One
    <3>2. Own(G, d, I) = Own(H, d, I) /\ H[d].in /\ Own(H, d, I) \in Int
      BY <1>a, <2>3 DEF Own
    <3>3. One(c \in K[d]) = 0 /\ One(c \in J[d]) = One(d = e) /\ One(d = e) \in Int
      <4>1. c \notin K[d]
        BY <1>0, <1>2, <1>14 DEF Kin
      <4>2. c \in J[d] <=> d = e
        BY <1>a, <1>2, <4>1
      <4>3. QED
        BY <4>1, <4>2 DEF One
    <3>4. H[d].refs \in Int /\ G[d].refs = H[d].refs + One(d = e)
      BY <1>a, <1>0 DEF Handles, Handle
    <3>5. QED
      BY <3>1, <3>2, <3>3, <3>4
  <2>5. CountsChange(C, D, L, L, H, G, K, J, I, c, c)
    BY <2>1, <2>2, <2>3 DEF CountsChange
  <2>6. QED
    BY <1>0, <1>2, <2>5, CountsStep
<1>18. PinsExact(D, G)
  <2>1. ASSUME NEW d \in Entities, G[d].in
        PROVE  H[d].in /\ G[d].pins = H[d].pins + (IF PinsIt(D[x], d) THEN 1 ELSE 0) - (IF PinsIt(C[x], d) THEN 1 ELSE 0)
    <3>1. H[d].pins \in Int /\ H[d].in /\ G[d].pins = H[d].pins - One(d = c)
      BY <1>a, <1>0, <2>1 DEF Handles, Handle
    <3>2. CASE d = c
      BY <1>4, <1>5, <3>1, <3>2 DEF One
    <3>3. CASE d # c
      BY <1>5, <3>1, <3>3 DEF One
    <3>4. QED
      BY <3>2, <3>3
  <2>2. QED
    BY <1>0, <2>1, StepPins
<1>19. Few(D)
  BY <1>0, StepFew
<1>20. QED
  BY <1>0, <1>7, <1>8, <1>9, <1>10, <1>11, <1>12, <1>13, <1>16, <1>17, <1>18, <1>19 DEF World, Sound

\* An entity comes into being, pinned by the operation that creates it, with a
\* reference to its topic.
LEMMA Created ==
  ASSUME NEW C, NEW H, NEW L, NEW K, NEW I, World(C, H, L, K, I), NEW D \in CallMaps, NEW x \in Slots,
         Changed(C, D, x), Sole(C, x), C[x].pc = "new", NEW c, c = C[x].new, MovedTo(C[x], D[x], "register"),
         NEW M \in Lives, M[c] = "alive", \A d \in Entities : d # c => M[d] = L[d],
         NEW G \in Handles, G[c].in, ~G[c].closing, ~G[c].deferred, G[c].pins = 1, G[c].refs = One(c \notin I),
         \A d \in Entities : d # c => /\ G[d].in = H[d].in /\ G[d].closing = H[d].closing
                                      /\ G[d].deferred = H[d].deferred /\ G[d].pins = H[d].pins
                                      /\ G[d].refs = H[d].refs + One(d = TopicOf(c))
  PROVE  World(D, G, M, K, I)
<1>0. /\ C \in CallMaps /\ H \in Handles /\ L \in Lives /\ K \in Trees /\ I \in SUBSET Entities
      /\ Few(C) /\ AllProper(C, I) /\ PinnedAlive(C, L) /\ Alone(C) /\ Shut(C, H) /\ Listed(C, H)
      /\ Existing(H, L) /\ Fresh(C, L) /\ Kin(C, L, K) /\ RefsExact(C, H, L, K, I) /\ PinsExact(C, H)
  BY WorldParts
<1> DEFINE e == C[x].e
<1>1. C[x] \in Call /\ Proper(C[x], I) /\ e \in Entities /\ D[x] \in Call /\ PinsIt(C[x], e) /\ L[e] = "alive"
  BY CallFacts DEF MovedTo
<1>2. /\ c # None /\ c \in Entities /\ Parent(c) = e /\ ~C[x].up /\ ~D[x].up /\ D[x].e = e /\ D[x].new = c
      /\ e \notin Topics /\ D[x].pc = "register" /\ L[c] = "none"
  <2>1. c # None /\ Parent(c) = e /\ ~C[x].up /\ e \notin Topics
    BY <1>1 DEF Proper, UsePcs, TopicPcs
  <2>2. c \in Entities
    BY <1>1, <2>1 DEF Call
  <2>3. L[c] = "none"
    BY <1>0 DEF Fresh
  <2>4. QED
    BY <2>1, <2>2, <2>3 DEF MovedTo
<1>3. c # e /\ TopicOf(c) # c /\ None \notin Entities /\ (\A b \in Entities : TopicOf(b) = c => b # c)
      /\ (TopicOf(c) # None => TopicOf(c) \in Entities) /\ c # Root
  BY <1>1, <1>2, HandlesAssumption
<1>4. \A y \in Slots : ~PinsIt(C[y], c)
  BY <1>0, <1>2 DEF PinnedAlive
<1>5. \A d \in Entities : PinsIt(D[x], d) <=> PinsIt(C[x], d) \/ d = c
  BY <1>1, <1>2, <1>3 DEF PinsIt, TopicPcs
<1>6. D[x].pc \notin Early \cup Mid \cup Late /\ C[x].pc \notin Early \cup Mid \cup Late
  BY <1>2 DEF Early, Mid, Late
<1>7. AllProper(D, I)
  <2>1. Proper(D[x], I)
    BY <1>1, <1>2 DEF Proper, UsePcs, TopicPcs
  <2>2. QED
    BY <1>0, <2>1, StepProper
<1>8. PinnedAlive(D, M)
  <2>1. \A d \in Entities : PinsIt(D[x], d) => M[d] = "alive"
    BY <1>0, <1>5 DEF PinnedAlive
  <2>2. \A d \in Entities : L[d] = "alive" /\ M[d] # "alive" => \A y \in Slots : y # x => ~PinsIt(C[y], d)
    BY <1>2
  <2>3. QED
    BY <1>0, <2>1, <2>2, StepPinned
<1>9. Alone(D)
  <2>2. \A d \in Entities : PinsIt(D[x], d) => PinsIt(C[x], d) \/ ~H[d].closing \/ L[d] = "none"
    BY <1>2, <1>5
  <2>3. QED
    BY <1>0, <1>6, <1>7, <2>2, StepAlone
<1>10. Shut(D, G)
  <2>1. \A d \in Entities : L[d] = "alive" /\ H[d].closing => G[d].closing
    BY <1>2
  <2>3. QED
    BY <1>0, <1>2, <1>6, <2>1, StepShut
<1>11. Listed(D, G)
  <2>1. \A d \in Entities : L[d] = "alive" => (G[d].in <=> H[d].in) \/ \A y \in Slots : y # x => ~PinsIt(C[y], d)
    BY <1>2
  <2>2. D[x].pc # "closeParent"
    BY <1>2
  <2>3. ListedChange(C, D, x, H, G, L)
    BY <1>2, <1>6, <2>1, <2>2 DEF ListedChange
  <2>4. QED
    BY <1>0, <2>3, StepListed
<1>12. Existing(G, M)
  <2>1. \A d \in Entities : (TopicOf(d) # None => TopicOf(d) \in Entities) /\ (d # Root => Parent(d) \in Entities)
    BY HandlesAssumption
  <2>2. TopicOf(c) # None => L[TopicOf(c)] = "alive"
    <3>1. TopicOf(c) # None => PinsIt(C[x], TopicOf(c))
      BY <1>2 DEF PinsIt, TopicPcs
    <3>2. QED
      BY <1>0, <1>3, <3>1 DEF PinnedAlive
  <2>3. \A d \in Entities : L[d] # "none" => M[d] # "none"
    OBVIOUS
  <2>4. ASSUME NEW d \in Entities
        PROVE  /\ G[d].in => M[d] = "alive"
               /\ M[d] # "none" => /\ G[d].in \/ G[d].closing
                                   /\ TopicOf(d) # None => M[TopicOf(d)] # "none"
                                   /\ d # Root => M[Parent(d)] # "none"
    <3>1. CASE d = c
      BY <1>1, <1>2, <1>3, <2>2, <2>3, <3>1
    <3>2. CASE d # c
      <4>1. /\ H[d].in => L[d] = "alive"
            /\ L[d] # "none" => /\ H[d].in \/ H[d].closing
                                /\ TopicOf(d) # None => L[TopicOf(d)] # "none"
                                /\ d # Root => L[Parent(d)] # "none"
        BY <1>0 DEF Existing
      <4>2. QED
        BY <2>1, <2>3, <3>2, <4>1
    <3>3. QED
      BY <3>1, <3>2
  <2>5. QED
    BY <2>4 DEF Existing
<1>13. Fresh(D, M)
  <2>1. D[x].pc \notin {"pinTopic", "deferQos", "new"}
    BY <1>2
  <2>2. ASSUME NEW y \in Slots, y # x, C[y].pc \in {"pinTopic", "deferQos", "new"}, L[C[y].new] = "none"
        PROVE  M[C[y].new] = "none"
    <3>1. C[y] \in Call /\ Proper(C[y], I)
      BY <2>2, CallFacts
    <3>2. C[y].new \in Entities /\ Parent(C[y].new) = C[y].e
      BY <2>2, <3>1 DEF Proper, TopicPcs, UsePcs, Call
    <3>3. C[y].e # e
      BY <2>2 DEF Sole, Owning
    <3>4. C[y].new # c
      BY <1>2, <3>2, <3>3
    <3>5. QED
      BY <2>2, <3>2, <3>4
  <2>3. QED
    BY <1>0, <2>1, <2>2, StepFresh
<1>14. Outside(D[x], c) /\ \A b \in Entities : ~Outside(C[x], b) /\ (b # c => ~Outside(D[x], b))
  BY <1>2, <1>6 DEF Outside, Left, Late
<1>16. Kin(D, M, K)
  <2>2. \A b \in Entities : b # c => \A y \in Slots : Outside(D[y], b) <=> Outside(C[y], b)
    BY <1>14 DEF Changed
  <2>3. ASSUME NEW q \in Entities, NEW b \in Entities
        PROVE  b \in K[q] <=> Parent(b) = q /\ M[b] = "alive" /\ \A y \in Slots : ~Outside(D[y], b)
    <3>0. b \in K[q] <=> Parent(b) = q /\ L[b] = "alive" /\ \A y \in Slots : ~Outside(C[y], b)
      BY <1>0 DEF Kin
    <3>1. CASE b = c
      BY <1>2, <1>14, <3>0, <3>1
    <3>2. CASE b # c
      BY <2>2, <3>0, <3>2
    <3>3. QED
      BY <3>1, <3>2
  <2>4. QED
    BY <2>3 DEF Kin
<1> DEFINE F == [G EXCEPT ![c] = [G[c] EXCEPT !.in = FALSE]]
<1>15. F \in Handles /\ ~F[c].in /\ \A d \in Entities : d # c => F[d] = G[d]
  BY <1>2 DEF Handles, Handle
<1> HIDE DEF F
<1>17. RefsExact(D, F, M, K, I)
  <2>2. \A d, r \in Entities : r # c => (RefersIn(D, M, r, d) <=> RefersIn(C, L, r, d))
    <3>1. \A r \in Entities, y \in Slots : Unreferring(D[y], r) <=> Unreferring(C[y], r)
      BY <1>6 DEF Unreferring, Changed, Late
    <3>2. QED
      BY <3>1 DEF RefersIn, Unreferring
  <2>3. \A d \in Entities : ~RefersIn(C, L, c, d)
    BY <1>2 DEF RefersIn
  <2>4. \A d \in Entities : RefersIn(D, M, c, d) <=> d = TopicOf(c)
    <3>1. \A y \in Slots : ~Unreferring(C[y], c)
      <4>1. \A y \in Slots : Unreferring(C[y], c) => PinsIt(C[y], c)
        BY DEF Unreferring, PinsIt
      <4>2. QED
        BY <1>4, <4>1
    <3>2. \A y \in Slots : ~Unreferring(D[y], c)
      BY <1>2, <3>1 DEF Unreferring, Changed
    <3>3. QED
      BY <3>2 DEF RefersIn, Unreferring
  <2>5. ASSUME NEW d \in Entities, F[d].in
        PROVE  H[d].in /\ F[d].refs = H[d].refs + Own(F, d, I) - Own(H, d, I) + One(c \in K[d]) - One(c \in K[d])
                            + One(RefersIn(D, M, c, d)) - One(RefersIn(C, L, c, d))
    <3>1. d # c /\ F[d] = G[d]
      BY <1>15, <2>5
    <3>2. Own(F, d, I) = Own(H, d, I) /\ H[d].in /\ Own(H, d, I) \in Int
      BY <2>5, <3>1 DEF Own
    <3>3. One(c \in K[d]) \in Int /\ One(RefersIn(C, L, c, d)) = 0
      BY <2>3 DEF One
    <3>4. One(RefersIn(D, M, c, d)) = One(d = TopicOf(c)) /\ One(d = TopicOf(c)) \in Int
      BY <2>4 DEF One
    <3>5. H[d].refs \in Int /\ F[d].refs = H[d].refs + One(d = TopicOf(c))
      BY <1>0, <3>1 DEF Handles, Handle
    <3>6. QED
      BY <3>2, <3>3, <3>4, <3>5
  <2>6. CountsChange(C, D, L, M, H, F, K, K, I, c, c)
    BY <2>2, <2>5 DEF CountsChange
  <2>7. QED
    BY <1>0, <1>2, <1>15, <2>6, CountsStep
<1>18. RefsExact(D, G, M, K, I)
  <2>1. K[c] = {}
    <3>1. ASSUME NEW b \in K[c] PROVE FALSE
      <4>1. b \in Entities /\ Parent(b) = c /\ L[b] = "alive"
        BY <1>0, <1>2 DEF Kin, Trees
      <4>2. b # Root
        BY <1>2, <1>3, <4>1, HandlesAssumption
      <4>3. QED
        BY <1>0, <1>2, <4>1, <4>2 DEF Existing
    <3>2. QED
      BY <3>1
  <2>2. {r \in Entities : RefersIn(D, M, r, c)} = {}
    <3>1. ASSUME NEW r \in Entities, RefersIn(D, M, r, c) PROVE FALSE
      <4>1. TopicOf(r) = c /\ M[r] = "alive" /\ r # c
        BY <1>3, <3>1 DEF RefersIn
      <4>2. L[r] = "alive"
        BY <4>1
      <4>3. QED
        BY <1>0, <1>2, <4>1, <4>2 DEF Existing
    <3>2. QED
      BY <3>1
  <2>3. Cardinality({}) = 0
    BY FS_EmptySet
  <2>4. G[c].refs = (IF c \in I \/ G[c].closing \/ G[c].deferred THEN 0 ELSE 1)
                  + Cardinality(K[c]) + Cardinality({r \in Entities : RefersIn(D, M, r, c)})
    <3>1. Cardinality(K[c]) = 0 /\ Cardinality({r \in Entities : RefersIn(D, M, r, c)}) = 0
      BY <2>1, <2>2, <2>3
    <3>2. One(c \notin I) = (IF c \in I \/ G[c].closing \/ G[c].deferred THEN 0 ELSE 1)
      BY DEF One
    <3>3. One(c \notin I) \in Int
      BY DEF One
    <3>4. QED
      BY <3>1, <3>2, <3>3
  <2>5. ASSUME NEW d \in Entities, G[d].in
        PROVE  G[d].refs = (IF d \in I \/ G[d].closing \/ G[d].deferred THEN 0 ELSE 1)
                  + Cardinality(K[d]) + Cardinality({r \in Entities : RefersIn(D, M, r, d)})
    <3>1. CASE d = c
      BY <2>4, <3>1
    <3>2. CASE d # c
      <4>1. F[d] = G[d] /\ F[d].in
        BY <1>15, <2>5, <3>2
      <4>2. F[d].refs = (IF d \in I \/ F[d].closing \/ F[d].deferred THEN 0 ELSE 1)
                  + Cardinality(K[d]) + Cardinality({r \in Entities : RefersIn(D, M, r, d)})
        BY <1>17, <4>1 DEF RefsExact
      <4>3. QED
        BY <4>1, <4>2
    <3>3. QED
      BY <3>1, <3>2
  <2>6. QED
    BY <2>5 DEF RefsExact
<1>19. PinsExact(D, G)
  <2>1. ASSUME NEW d \in Entities, F[d].in
        PROVE  H[d].in /\ F[d].pins = H[d].pins + (IF PinsIt(D[x], d) THEN 1 ELSE 0) - (IF PinsIt(C[x], d) THEN 1 ELSE 0)
    <3>1. d # c /\ F[d] = G[d]
      BY <1>15, <2>1
    <3>2. H[d].pins \in Int /\ H[d].in /\ F[d].pins = H[d].pins
      BY <1>0, <2>1, <3>1 DEF Handles, Handle
    <3>3. QED
      BY <1>5, <3>1, <3>2
  <2>2. PinsExact(D, F)
    BY <1>0, <1>15, <2>1, StepPins
  <2>3. PinnersIn(D, c) = {x}
    BY <1>2, <1>4, <1>5 DEF PinnersIn, Changed
  <2>4. G[c].pins = Cardinality(PinnersIn(D, c))
    <3>1. Cardinality({x}) = 1
      BY FS_Singleton
    <3>2. QED
      BY <2>3, <3>1
  <2>5. QED
    BY <1>15, <2>2, <2>4 DEF PinsExact
<1>20. Few(D)
  BY <1>0, StepFew
<1>21. QED
  BY <1>0, <1>7, <1>8, <1>9, <1>10, <1>11, <1>12, <1>13, <1>16, <1>18, <1>19, <1>20 DEF World, Sound
-----------------------------------------------------------------------------
(* The stacks, one step at a time *)

Settled(st, M) == st \in Stacks /\ Shape(st) /\ Locks(st, M)

\* Whatever t does to the mutexes, the others keep theirs.
KeepsLocks(M, N, t) == \A u \in Threads, d \in Entities : u # t /\ M[d] = u => N[d] = u
HasLocks(f, N, t) == /\ f.pc \in Owning => N[f.e] = t
                     /\ f.pc = "closeParent" => Parent(f.e) \in Entities /\ N[Parent(f.e)] = t

LEMMA CallsType ==
  ASSUME NEW st \in Stacks
  PROVE  Calls(st) \in CallMaps
<1>1. ASSUME NEW x \in Slots PROVE CallAt(st, x) \in Call \cup {Gone}
  <2>1. PICK u \in Threads, d \in Nat \ {0} : x = <<u, d>>
    BY DEF Slots
  <2>2. st[u] \in Seq(Call)
    BY DEF Stacks
  <2>3. d <= Len(st[u]) => Len(st[u]) + 1 - d \in 1 .. Len(st[u])
    BY <2>2
  <2>4. QED
    BY <2>1, <2>2, <2>3 DEF CallAt
<1>2. QED
  BY <1>1 DEF Calls, CallMaps

LEMMA LocksStep ==
  ASSUME NEW st \in Stacks, NEW sv \in Stacks, NEW t \in Threads, \A u \in Threads : u # t => sv[u] = st[u],
         NEW M, NEW N, Locks(st, M), KeepsLocks(M, N, t),
         sv[t] # <<>> => HasLocks(Head(sv[t]), N, t)
  PROVE  Locks(sv, N)
<1> SUFFICES ASSUME NEW u \in Threads, sv[u] # <<>>
             PROVE  /\ Head(sv[u]).pc \in Owning => N[Head(sv[u]).e] = u
                    /\ Head(sv[u]).pc = "closeParent" => Parent(Head(sv[u]).e) \in Entities /\ N[Parent(Head(sv[u]).e)] = u
  BY DEF Locks
<1>1. CASE u = t
  BY <1>1 DEF HasLocks
<1>2. CASE u # t
  <2>1. Head(st[u]) \in Call /\ sv[u] = st[u]
    BY <1>2, TopCall
  <2>2. Head(st[u]).e \in Entities
    BY <2>1 DEF Call
  <2>3. QED
    BY <1>2, <2>1, <2>2 DEF Locks, KeepsLocks
<1>3. QED
  BY <1>1, <1>2

\* The topmost call goes on as g.
LEMMA Moves ==
  ASSUME NEW st, NEW M, Settled(st, M), NEW t \in Threads, st[t] # <<>>, NEW g \in Call, NEW N,
         g.pc \in UsePcs => Head(st[t]).pc \in UsePcs, KeepsLocks(M, N, t), HasLocks(g, N, t),
         NEW sv, Replaced(st, sv, t, g)
  PROVE  /\ Settled(sv, N) /\ Changed(Calls(st), Calls(sv), Top(st, t)) /\ Calls(sv)[Top(st, t)] = g
         /\ Calls(sv) \in CallMaps /\ Top(st, t) \in Slots /\ Calls(st)[Top(st, t)] = Head(st[t])
         /\ sv[t] # <<>> /\ Head(sv[t]) = g
<1>0. st \in Stacks /\ Shape(st) /\ Locks(st, M)
  BY DEF Settled
<1>1. /\ sv \in Stacks /\ sv[t] # <<>> /\ Head(sv[t]) = g
      /\ \A u \in Threads : u # t => sv[u] = st[u]
      /\ Len(sv[t]) = Len(st[t]) /\ \A i \in 2 .. Len(st[t]) : sv[t][i] = st[t][i]
      /\ \A x \in Slots : Calls(sv)[x] = IF x = Top(st, t) THEN g ELSE Calls(st)[x]
  BY <1>0, CallMoved
<1>2. /\ Head(st[t]) \in Call /\ Top(st, t) \in Slots /\ Calls(st)[Top(st, t)] = Head(st[t])
      /\ Len(st[t]) \in Nat \ {0} /\ Head(st[t]) = st[t][1]
  BY <1>0, TopCall
<1>3. sv[t][1] = g
  BY <1>1, TopCall
<1>4. Shape(sv)
  <2>1. ASSUME NEW u \in Threads, NEW i \in 1 .. Len(sv[u])
        PROVE  /\ i > 1 => sv[u][i].pc \in {"childReturned", "free"}
               /\ sv[u][i].pc \in UsePcs => Len(sv[u]) = 1
    <3>0. u \in Threads /\ i \in 1 .. Len(st[u])
      BY <1>1, <2>1
    <3>1. /\ i > 1 => st[u][i].pc \in {"childReturned", "free"}
          /\ st[u][i].pc \in UsePcs => Len(st[u]) = 1
      BY <1>0, <3>0 DEF Shape
    <3>2. CASE u # t
      BY <1>1, <3>1, <3>2
    <3>3. CASE u = t /\ i = 1
      BY <1>1, <1>2, <1>3, <3>1, <3>3
    <3>4. CASE u = t /\ i # 1
      <4>1. i \in 2 .. Len(st[t])
        BY <1>2, <3>0, <3>4
      <4>2. QED
        BY <1>1, <3>1, <3>4, <4>1
    <3>5. QED
      BY <3>2, <3>3, <3>4
  <2>2. QED
    BY <2>1 DEF Shape
<1>5. Locks(sv, N)
  BY <1>0, <1>1, LocksStep
<1>6. Changed(Calls(st), Calls(sv), Top(st, t)) /\ Calls(sv)[Top(st, t)] = g /\ Calls(sv) \in CallMaps
  BY <1>1, <1>2, CallsType DEF Changed
<1>7. QED
  BY <1>1, <1>2, <1>4, <1>5, <1>6 DEF Settled

\* The topmost call returns.
LEMMA Returns ==
  ASSUME NEW st, NEW M, Settled(st, M), NEW t \in Threads, st[t] # <<>>, NEW N, KeepsLocks(M, N, t),
         NEW sv, Popped(st, sv, t)
  PROVE  /\ Settled(sv, N) /\ Changed(Calls(st), Calls(sv), Top(st, t)) /\ Calls(sv)[Top(st, t)] = Gone
         /\ Calls(sv) \in CallMaps /\ Top(st, t) \in Slots /\ Calls(st)[Top(st, t)] = Head(st[t])
<1>0. st \in Stacks /\ Shape(st) /\ Locks(st, M)
  BY DEF Settled
<1>1. /\ sv \in Stacks /\ \A u \in Threads : u # t => sv[u] = st[u]
      /\ Len(sv[t]) = Len(st[t]) - 1
      /\ \A i \in 1 .. Len(sv[t]) : sv[t][i] = st[t][i + 1]
      /\ \A x \in Slots : Calls(sv)[x] = IF x = Top(st, t) THEN Gone ELSE Calls(st)[x]
  BY <1>0, CallPopped
<1>2. /\ Head(st[t]) \in Call /\ Top(st, t) \in Slots /\ Calls(st)[Top(st, t)] = Head(st[t])
      /\ Len(st[t]) \in Nat \ {0} /\ Head(st[t]) = st[t][1]
  BY <1>0, TopCall
<1>3. \A i \in 1 .. Len(sv[t]) : sv[t][i].pc \in {"childReturned", "free"}
  <2>1. ASSUME NEW i \in 1 .. Len(sv[t]) PROVE sv[t][i].pc \in {"childReturned", "free"}
    <3>1. i + 1 \in 1 .. Len(st[t]) /\ i + 1 > 1
      BY <1>1, <1>2
    <3>2. st[t][i + 1].pc \in {"childReturned", "free"}
      BY <1>0, <3>1 DEF Shape
    <3>3. QED
      BY <1>1, <3>2
  <2>2. QED
    BY <2>1
<1>4. Shape(sv)
  BY <1>0, <1>1, <1>3 DEF Shape, UsePcs
<1>5. Locks(sv, N)
  <2>1. sv[t] # <<>> => HasLocks(Head(sv[t]), N, t)
    <3>1. SUFFICES ASSUME sv[t] # <<>> PROVE HasLocks(Head(sv[t]), N, t)
      OBVIOUS
    <3>2. Head(sv[t]) = sv[t][1] /\ 1 \in 1 .. Len(sv[t])
      BY <1>1, <3>1, TopCall
    <3>3. Head(sv[t]).pc \in {"childReturned", "free"}
      BY <1>3, <3>2
    <3>4. QED
      BY <3>3 DEF HasLocks, Owning
  <2>2. QED
    BY <1>0, <1>1, <2>1, LocksStep
<1>6. Changed(Calls(st), Calls(sv), Top(st, t)) /\ Calls(sv)[Top(st, t)] = Gone /\ Calls(sv) \in CallMaps
  BY <1>1, <1>2, CallsType DEF Changed
<1>7. QED
  BY <1>2, <1>1, <1>4, <1>5, <1>6 DEF Settled

\* A thread without a call makes one.
LEMMA Begins ==
  ASSUME NEW st, NEW M, Settled(st, M), NEW t \in Threads, st[t] = <<>>, NEW h \in Call, h.pc \in {"pin", "lock"},
         NEW sv, Begun(st, sv, t, h)
  PROVE  /\ Settled(sv, M) /\ Changed(Calls(st), Calls(sv), <<t, 1>>) /\ Calls(sv)[<<t, 1>>] = h
         /\ Calls(sv) \in CallMaps /\ <<t, 1>> \in Slots /\ Calls(st)[<<t, 1>>] = Gone
<1>0. st \in Stacks /\ Shape(st) /\ Locks(st, M)
  BY DEF Settled
<1>1. /\ sv \in Stacks /\ sv[t] = <<h>> /\ \A u \in Threads : u # t => sv[u] = st[u]
      /\ \A x \in Slots : Calls(sv)[x] = IF x = <<t, 1>> THEN h ELSE Calls(st)[x]
      /\ <<t, 1>> \in Slots /\ Calls(st)[<<t, 1>>] = Gone
  BY <1>0, CallBegun
<1>2. Len(sv[t]) = 1 /\ Head(sv[t]) = h
  BY <1>1
<1>3. Shape(sv)
  <2>1. ASSUME NEW u \in Threads, NEW i \in 1 .. Len(sv[u])
        PROVE  /\ i > 1 => sv[u][i].pc \in {"childReturned", "free"}
               /\ sv[u][i].pc \in UsePcs => Len(sv[u]) = 1
    <3>1. CASE u # t
      BY <1>0, <1>1, <3>1 DEF Shape
    <3>2. CASE u = t
      BY <1>2, <3>2
    <3>3. QED
      BY <3>1, <3>2
  <2>2. QED
    BY <2>1 DEF Shape
<1>4. Locks(sv, M)
  <2>1. HasLocks(Head(sv[t]), M, t) /\ KeepsLocks(M, M, t)
    BY <1>2 DEF HasLocks, KeepsLocks, Owning
  <2>2. QED
    BY <1>0, <1>1, <2>1, LocksStep
<1>5. QED
  BY <1>1, <1>3, <1>4, CallsType DEF Settled, Changed

\* The topmost call goes on as g once the call h it makes has returned.
LEMMA Pushes ==
  ASSUME NEW st, NEW M, Settled(st, M), NEW t \in Threads, st[t] # <<>>, NEW g \in Call, NEW h \in Call,
         g.pc \in {"childReturned", "free"}, h.pc = "pin", ~h.up, h.new = None,
         NEW mv, Replaced(st, mv, t, g), NEW H, NEW L, NEW K, NEW I, World(Calls(mv), H, L, K, I),
         NEW sv, Pushed(st, sv, t, g, h)
  PROVE  Settled(sv, M) /\ World(Calls(sv), H, L, K, I)
<1>0. st \in Stacks /\ Shape(st) /\ Locks(st, M)
  BY DEF Settled
<1>1. /\ sv \in Stacks /\ sv[t] # <<>> /\ Head(sv[t]) = h
      /\ \A u \in Threads : u # t => sv[u] = st[u]
      /\ Len(sv[t]) = Len(st[t]) + 1 /\ sv[t][1] = h /\ sv[t][2] = g
      /\ \A i \in 3 .. Len(sv[t]) : sv[t][i] = st[t][i - 1]
      /\ \A x \in Slots : Calls(sv)[x] = IF x = Top(st, t) THEN g
                                         ELSE IF x = <<t, Len(st[t]) + 1>> THEN h
                                         ELSE Calls(st)[x]
      /\ Calls(st)[<<t, Len(st[t]) + 1>>] = Gone
  BY <1>0, CallPushed
<1>2. /\ mv \in Stacks
      /\ \A x \in Slots : Calls(mv)[x] = IF x = Top(st, t) THEN g ELSE Calls(st)[x]
  BY <1>0, CallMoved
<1>3. /\ Len(st[t]) \in Nat \ {0} /\ Head(st[t]) = st[t][1]
  BY <1>0, TopCall
<1> DEFINE z == <<t, Len(st[t]) + 1>>
<1>4. z \in Slots /\ z # Top(st, t)
  BY <1>3 DEF Slots, Top
<1>5. Calls(mv)[z] = Gone /\ Calls(sv)[z] = h /\ \A x \in Slots : x # z => Calls(sv)[x] = Calls(mv)[x]
  BY <1>1, <1>2, <1>4
<1> HIDE DEF z
<1>6. World(Calls(sv), H, L, K, I)
  <2>1. Calls(sv) \in CallMaps /\ Changed(Calls(mv), Calls(sv), z)
    BY <1>1, <1>5, CallsType DEF Changed
  <2>2. Few(Calls(mv)) /\ AllProper(Calls(mv), I) /\ Fresh(Calls(mv), L)
    BY WorldParts
  <2>3. Few(Calls(sv))
    BY <1>4, <2>1, <2>2, StepFew
  <2>4. AllProper(Calls(sv), I)
    <3>1. Proper(h, I)
      BY DEF Proper, UsePcs, TopicPcs
    <3>2. QED
      BY <1>4, <1>5, <2>1, <2>2, <3>1, StepProper
  <2>5. Fresh(Calls(sv), L)
    BY <1>4, <1>5, <2>1, <2>2, StepFresh
  <2>6. \A x \in Slots : Like(Calls(mv)[x], Calls(sv)[x])
    <3>1. Like(Gone, h)
      BY DEF Like, Gone
    <3>2. \A x \in Slots : Like(Calls(mv)[x], Calls(mv)[x])
      BY DEF Like
    <3>3. QED
      BY <1>5, <3>1, <3>2
  <2>7. QED
    BY <2>1, <2>3, <2>4, <2>5, <2>6, Quiet
<1>7. Shape(sv)
  <2>1. ASSUME NEW u \in Threads, NEW i \in 1 .. Len(sv[u])
        PROVE  /\ i > 1 => sv[u][i].pc \in {"childReturned", "free"}
               /\ sv[u][i].pc \in UsePcs => Len(sv[u]) = 1
    <3>1. CASE u # t
      BY <1>0, <1>1, <3>1 DEF Shape
    <3>2. CASE u = t /\ i = 1
      BY <1>1, <3>2 DEF UsePcs
    <3>3. CASE u = t /\ i = 2
      BY <1>1, <3>3 DEF UsePcs
    <3>4. CASE u = t /\ i # 1 /\ i # 2
      <4>1. i \in 3 .. Len(sv[t]) /\ i - 1 \in 1 .. Len(st[t]) /\ i - 1 > 1
        BY <1>1, <1>3, <3>4
      <4>2. st[t][i - 1].pc \in {"childReturned", "free"}
        BY <1>0, <4>1 DEF Shape
      <4>3. QED
        BY <1>1, <3>4, <4>1, <4>2 DEF UsePcs
    <3>5. QED
      BY <3>1, <3>2, <3>3, <3>4
  <2>2. QED
    BY <2>1 DEF Shape
<1>8. Locks(sv, M)
  <2>1. HasLocks(Head(sv[t]), M, t) /\ KeepsLocks(M, M, t)
    BY <1>1 DEF HasLocks, KeepsLocks, Owning
  <2>2. QED
    BY <1>0, <1>1, <2>1, LocksStep
<1>9. QED
  BY <1>1, <1>6, <1>7, <1>8 DEF Settled

\* A broadcast changes at most where a thread that waits goes on.
Wakes(f, g) ==
  /\ g \in Call /\ g.e = f.e /\ g.new = f.new /\ g.up = f.up
  /\ \/ f.pc = "closeWaiting" /\ g.pc = "closeWait"
     \/ f.pc = "childWaiting" /\ g.pc = "nextChild"
Awoken(st, sv) ==
  /\ sv \in Stacks
  /\ \A t \in Threads : \/ sv[t] = st[t]
                        \/ st[t] # <<>> /\ \E g \in Call : Wakes(Head(st[t]), g) /\ sv[t] = <<g>> \o Tail(st[t])

LEMMA AwokenCalls ==
  ASSUME NEW st \in Stacks, NEW sv, Awoken(st, sv)
  PROVE  /\ \A t \in Threads : /\ Len(sv[t]) = Len(st[t]) /\ \A i \in 2 .. Len(st[t]) : sv[t][i] = st[t][i]
                               /\ st[t] # <<>> => /\ sv[t] # <<>> /\ Head(sv[t]) = sv[t][1]
                                                  /\ Head(sv[t]) = Head(st[t]) \/ Wakes(Head(st[t]), Head(sv[t]))
         /\ \A x \in Slots : Calls(sv)[x] = Calls(st)[x] \/ Wakes(Calls(st)[x], Calls(sv)[x])
<1>1. ASSUME NEW t \in Threads
      PROVE  /\ Len(sv[t]) = Len(st[t]) /\ \A i \in 2 .. Len(st[t]) : sv[t][i] = st[t][i]
             /\ st[t] # <<>> => /\ sv[t] # <<>> /\ Head(sv[t]) = sv[t][1]
                                /\ Head(sv[t]) = Head(st[t]) \/ Wakes(Head(st[t]), Head(sv[t]))
             /\ \A x \in Slots : x[1] = t => Calls(sv)[x] = Calls(st)[x] \/ Wakes(Calls(st)[x], Calls(sv)[x])
  <2>0. sv \in Stacks
    BY DEF Awoken
  <2>1. CASE sv[t] = st[t]
    <3>1. \A x \in Slots : x[1] = t => Calls(sv)[x] = Calls(st)[x]
      BY <2>1 DEF Calls, CallAt
    <3>2. st[t] # <<>> => Head(sv[t]) = sv[t][1]
      BY <2>0, <2>1, TopCall
    <3>3. QED
      BY <2>1, <3>1, <3>2
  <2>2. CASE st[t] # <<>> /\ \E g \in Call : Wakes(Head(st[t]), g) /\ sv[t] = <<g>> \o Tail(st[t])
    <3>1. PICK g \in Call : Wakes(Head(st[t]), g) /\ sv[t] = <<g>> \o Tail(st[t])
      BY <2>2
    <3> DEFINE sw == [st EXCEPT ![t] = <<g>> \o Tail(st[t])]
    <3>2. Replaced(st, sw, t, g) /\ sw[t] = sv[t]
      BY <3>1 DEF Replaced, Stacks
    <3> HIDE DEF sw
    <3>3. /\ sw[t] # <<>> /\ Head(sw[t]) = g
          /\ Len(sw[t]) = Len(st[t]) /\ \A i \in 2 .. Len(st[t]) : sw[t][i] = st[t][i]
          /\ \A x \in Slots : Calls(sw)[x] = IF x = Top(st, t) THEN g ELSE Calls(st)[x]
      BY <2>2, <3>2, CallMoved
    <3>4. \A x \in Slots : x[1] = t => Calls(sv)[x] = Calls(sw)[x]
      BY <3>2 DEF Calls, CallAt
    <3>5. Calls(st)[Top(st, t)] = Head(st[t]) /\ Head(sv[t]) = sv[t][1]
      BY <2>0, <2>2, <3>2, <3>3, TopCall
    <3>6. \A x \in Slots : x[1] = t => Calls(sv)[x] = Calls(st)[x] \/ Wakes(Calls(st)[x], Calls(sv)[x])
      BY <3>1, <3>3, <3>4, <3>5
    <3>7. QED
      BY <3>1, <3>2, <3>3, <3>5, <3>6
  <2>3. QED
    BY <2>1, <2>2 DEF Awoken
<1>2. \A x \in Slots : x[1] \in Threads
  BY DEF Slots
<1>3. QED
  BY <1>1, <1>2

LEMMA AwokenSettled ==
  ASSUME NEW st, NEW M, Settled(st, M), NEW sv, Awoken(st, sv)
  PROVE  Settled(sv, M)
<1>0. st \in Stacks /\ Shape(st) /\ Locks(st, M) /\ sv \in Stacks
  BY DEF Settled, Awoken
<1>1. ASSUME NEW t \in Threads
      PROVE  /\ Len(sv[t]) = Len(st[t]) /\ \A i \in 2 .. Len(st[t]) : sv[t][i] = st[t][i]
             /\ st[t] # <<>> => /\ sv[t] # <<>> /\ Head(sv[t]) = sv[t][1]
                                /\ Head(sv[t]) = Head(st[t]) \/ Wakes(Head(st[t]), Head(sv[t]))
  BY <1>0, AwokenCalls
<1>2. Shape(sv)
  <2>1. ASSUME NEW u \in Threads, NEW i \in 1 .. Len(sv[u])
        PROVE  /\ i > 1 => sv[u][i].pc \in {"childReturned", "free"}
               /\ sv[u][i].pc \in UsePcs => Len(sv[u]) = 1
    <3>0. st[u] \in Seq(Call) /\ Len(sv[u]) = Len(st[u]) /\ i \in 1 .. Len(st[u])
      BY <1>0, <1>1 DEF Stacks
    <3>1. CASE i # 1
      <4>1. i \in 2 .. Len(st[u])
        BY <3>0, <3>1
      <4>2. sv[u][i] = st[u][i]
        BY <1>1, <4>1
      <4>3. QED
        BY <1>0, <3>0, <4>2 DEF Shape
    <3>2. CASE i = 1
      <4>1. st[u] # <<>> /\ Head(st[u]) = st[u][1]
        BY <1>0, <3>0, <3>2, TopCall
      <4>2. sv[u][1] = st[u][1] \/ Wakes(st[u][1], sv[u][1])
        BY <1>1, <4>1
      <4>3. Wakes(st[u][1], sv[u][1]) => sv[u][1].pc \notin UsePcs
        BY DEF Wakes, UsePcs
      <4>4. QED
        BY <1>0, <3>0, <3>2, <4>2, <4>3 DEF Shape
    <3>3. QED
      BY <3>1, <3>2
  <2>2. QED
    BY <2>1 DEF Shape
<1>3. Locks(sv, M)
  <2>1. ASSUME NEW u \in Threads, sv[u] # <<>>
        PROVE  /\ Head(sv[u]).pc \in Owning => M[Head(sv[u]).e] = u
               /\ Head(sv[u]).pc = "closeParent" => Parent(Head(sv[u]).e) \in Entities /\ M[Parent(Head(sv[u]).e)] = u
    <3>1. st[u] # <<>>
      <4>1. Len(sv[u]) = Len(st[u]) /\ sv[u] \in Seq(Call) /\ st[u] \in Seq(Call)
        BY <1>0, <1>1 DEF Stacks
      <4>2. QED
        BY <2>1, <4>1
    <3>2. Head(sv[u]) = Head(st[u]) \/ Wakes(Head(st[u]), Head(sv[u]))
      BY <1>1, <3>1
    <3>3. Wakes(Head(st[u]), Head(sv[u])) => Head(sv[u]).pc \notin Owning \cup {"closeParent"}
      BY DEF Wakes, Owning
    <3>4. QED
      BY <1>0, <3>1, <3>2, <3>3 DEF Locks
  <2>2. QED
    BY <2>1 DEF Locks
<1>4. QED
  BY <1>0, <1>2, <1>3 DEF Settled

LEMMA AwokenWorld ==
  ASSUME NEW st \in Stacks, NEW sv, Awoken(st, sv), NEW H, NEW L, NEW K, NEW I, World(Calls(st), H, L, K, I)
  PROVE  World(Calls(sv), H, L, K, I)
<1> DEFINE C == Calls(st)
           D == Calls(sv)
<1>1. D \in CallMaps
  BY CallsType DEF Awoken
<1>2. \A x \in Slots : D[x] = C[x] \/ Wakes(C[x], D[x])
  BY AwokenCalls
<1>3. Few(C) /\ AllProper(C, I) /\ Fresh(C, L)
  BY WorldParts
<1> HIDE DEF C, D
<1>4. Few(D)
  <2>1. \A x \in Slots : D[x].pc # "gone" <=> C[x].pc # "gone"
    BY <1>2 DEF Wakes
  <2>2. {x \in Slots : D[x].pc # "gone"} = {x \in Slots : C[x].pc # "gone"}
    BY <2>1
  <2>3. QED
    BY <1>3, <2>2 DEF Few
<1>5. AllProper(D, I)
  <2>1. ASSUME NEW x \in Slots PROVE Proper(D[x], I)
    <3>1. Proper(C[x], I)
      BY <1>3 DEF AllProper
    <3>2. ASSUME Wakes(C[x], D[x]) PROVE Proper(D[x], I)
      BY <3>1, <3>2 DEF Wakes, Proper, UsePcs, TopicPcs
    <3>3. QED
      BY <1>2, <3>1, <3>2
  <2>2. QED
    BY <2>1 DEF AllProper
<1>6. Fresh(D, L)
  BY <1>2, <1>3 DEF Fresh, Wakes
<1>7. \A x \in Slots : Like(C[x], D[x])
  <2>1. ASSUME NEW x \in Slots PROVE Like(C[x], D[x])
    <3>1. CASE D[x] = C[x]
      BY <3>1 DEF Like
    <3>2. CASE Wakes(C[x], D[x])
      BY <3>2 DEF Like, Wakes, Early, Mid
    <3>3. QED
      BY <1>2, <3>1, <3>2
  <2>2. QED
    BY <2>1
<1>8. World(D, H, L, K, I)
  BY <1>1, <1>4, <1>5, <1>6, <1>7, Quiet DEF C
<1>9. QED
  BY <1>8 DEF D

LEMMA EntityBroadcastWakes ==
  ASSUME NEW st \in Stacks, NEW e
  PROVE  Awoken(st, EntityBroadcast(st, e))
<1> DEFINE W(t) == st[t] # <<>> /\ Head(st[t]).pc = "childWaiting" /\ Head(st[t]).e = e
           v(t) == <<[Head(st[t]) EXCEPT !.pc = "nextChild"]>> \o Tail(st[t])
           sv == [t \in Threads |-> IF W(t) THEN v(t) ELSE st[t]]
<1>1. EntityBroadcast(st, e) = sv
  BY DEF EntityBroadcast, Woken
<1>2. ASSUME NEW t \in Threads, W(t)
      PROVE  v(t) \in Seq(Call) /\ \E g \in Call : Wakes(Head(st[t]), g) /\ v(t) = <<g>> \o Tail(st[t])
  <2> DEFINE f == Head(st[t])
             g == [f EXCEPT !.pc = "nextChild"]
  <2>1. f \in Call /\ st[t] \in Seq(Call) /\ f.pc = "childWaiting"
    BY <1>2, TopCall DEF Stacks
  <2>2. g \in Call /\ Wakes(f, g)
    BY <2>1 DEF Wakes, Call, Pcs, Mid
  <2>3. v(t) = <<g>> \o Tail(st[t])
    OBVIOUS
  <2> HIDE DEF g
  <2>4. <<g>> \o Tail(st[t]) \in Seq(Call)
    BY <1>2, <2>1, <2>2
  <2>5. QED
    BY <2>2, <2>3, <2>4
<1> HIDE DEF v
<1>3. sv \in Stacks
  BY <1>2 DEF Stacks
<1>4. ASSUME NEW t \in Threads
      PROVE  \/ sv[t] = st[t]
             \/ st[t] # <<>> /\ \E g \in Call : Wakes(Head(st[t]), g) /\ sv[t] = <<g>> \o Tail(st[t])
  BY <1>2
<1> HIDE DEF sv
<1>5. QED
  BY <1>1, <1>3, <1>4 DEF Awoken

LEMMA HandleBroadcastWakes ==
  ASSUME NEW st \in Stacks, NEW h
  PROVE  Awoken(st, HandleBroadcast(st, h))
<1> DEFINE W(t) == st[t] # <<>> /\ Head(st[t]).pc = "closeWaiting"
           v(t) == <<[Head(st[t]) EXCEPT !.pc = "closeWait"]>> \o Tail(st[t])
           sv == [t \in Threads |-> IF W(t) THEN v(t) ELSE st[t]]
<1>1. HandleBroadcast(st, h) = IF h.closing /\ h.pins = 1 THEN sv ELSE st
  BY DEF HandleBroadcast, Woken
<1>2. ASSUME NEW t \in Threads, W(t)
      PROVE  v(t) \in Seq(Call) /\ \E g \in Call : Wakes(Head(st[t]), g) /\ v(t) = <<g>> \o Tail(st[t])
  <2> DEFINE f == Head(st[t])
             g == [f EXCEPT !.pc = "closeWait"]
  <2>1. f \in Call /\ st[t] \in Seq(Call) /\ f.pc = "closeWaiting"
    BY <1>2, TopCall DEF Stacks
  <2>2. g \in Call /\ Wakes(f, g)
    BY <2>1 DEF Wakes, Call, Pcs, Early
  <2>3. v(t) = <<g>> \o Tail(st[t])
    OBVIOUS
  <2> HIDE DEF g
  <2>4. <<g>> \o Tail(st[t]) \in Seq(Call)
    BY <1>2, <2>1, <2>2
  <2>5. QED
    BY <2>2, <2>3, <2>4
<1> HIDE DEF v
<1>3. sv \in Stacks
  BY <1>2 DEF Stacks
<1>4. ASSUME NEW t \in Threads
      PROVE  \/ sv[t] = st[t]
             \/ st[t] # <<>> /\ \E g \in Call : Wakes(Head(st[t]), g) /\ sv[t] = <<g>> \o Tail(st[t])
  BY <1>2
<1> HIDE DEF sv
<1>5. Awoken(st, sv) /\ Awoken(st, st)
  BY <1>3, <1>4 DEF Awoken
<1>6. QED
  BY <1>1, <1>5

\* The one who works on an entity has it locked.
LEMMA SoleLock ==
  ASSUME NEW st, NEW M, Settled(st, M), NEW t \in Threads, st[t] # <<>>, Head(st[t]).pc \in Owning
  PROVE  Sole(Calls(st), Top(st, t))
<1>0. st \in Stacks /\ Shape(st) /\ Locks(st, M)
  BY DEF Settled
<1>1. M[Head(st[t]).e] = t /\ Calls(st)[Top(st, t)] = Head(st[t])
  BY <1>0, TopCall DEF Locks
<1>2. ASSUME NEW y \in Slots, y # Top(st, t), Calls(st)[y].pc \in Owning PROVE Calls(st)[y].e # Head(st[t]).e
  <2>1. PICK u \in Threads, d \in Nat \ {0} : y = <<u, d>>
    BY DEF Slots
  <2>2. st[u] \in Seq(Call)
    BY <1>0 DEF Stacks
  <2>3. Calls(st)[y] = IF d <= Len(st[u]) THEN st[u][Len(st[u]) + 1 - d] ELSE Gone
    BY <2>1 DEF Calls, CallAt
  <2>4. d <= Len(st[u])
    BY <1>2, <2>3 DEF Gone, Owning
  <2>5. Len(st[u]) + 1 - d \in 1 .. Len(st[u])
    BY <2>2, <2>4
  <2>6. Calls(st)[y].pc \in UsePcs
    BY <1>2 DEF Owning, UsePcs
  <2>7. Len(st[u]) = 1
    BY <1>0, <2>3, <2>4, <2>5, <2>6 DEF Shape
  <2>8. y = Top(st, u) /\ st[u] # <<>>
    BY <2>1, <2>4, <2>7 DEF Top
  <2>9. Calls(st)[y] = Head(st[u])
    BY <1>0, <2>8, TopCall
  <2>10. M[Calls(st)[y].e] = u
    BY <1>0, <1>2, <2>8, <2>9 DEF Locks
  <2>11. u # t
    BY <1>2, <2>8
  <2>12. QED
    BY <1>1, <2>10, <2>11
<1>3. QED
  BY <1>1, <1>2 DEF Sole
-----------------------------------------------------------------------------
(* The inductive invariant *)

Inv == /\ mutex \in [Entities -> Threads \cup {Nobody}] /\ Settled(stack, mutex)
       /\ World(Calls(stack), hdl, life, children, implicit)

\* A step of a call in which nothing changes hands.
LEMMA QuietMove ==
  ASSUME NEW C, NEW H, NEW L, NEW K, NEW I, World(C, H, L, K, I), NEW D \in CallMaps, NEW x \in Slots,
         Changed(C, D, x), Proper(D[x], I), Like(C[x], D[x]),
         D[x].pc \in {"pinTopic", "deferQos", "new"} => L[D[x].new] = "none"
  PROVE  World(D, H, L, K, I)
<1>1. Few(C) /\ AllProper(C, I) /\ Fresh(C, L)
  BY WorldParts
<1>2. Few(D) /\ AllProper(D, I)
  BY <1>1, StepFew, StepProper
<1>3. Fresh(D, L)
  BY <1>1, StepFresh
<1>4. \A y \in Slots : Like(C[y], D[y])
  <2>1. \A y \in Slots : Like(C[y], C[y])
    BY DEF Like
  <2>2. QED
    BY <2>1 DEF Changed
<1>5. QED
  BY <1>2, <1>3, <1>4, Quiet

\* What is known of the call that thread t is in.
LEMMA Acting ==
  ASSUME Inv, NEW t \in Threads, NEW pc, Is(t, pc)
  PROVE  /\ stack[t] # <<>> /\ Me(t) = Head(stack[t]) /\ Me(t) \in Call /\ Me(t).pc = pc /\ Me(t).e \in Entities
         /\ Top(stack, t) \in Slots /\ Calls(stack)[Top(stack, t)] = Me(t) /\ Proper(Me(t), implicit)
         /\ stack \in Stacks /\ Calls(stack) \in CallMaps /\ stack[t] \in Seq(Call)
<1>1. stack \in Stacks /\ World(Calls(stack), hdl, life, children, implicit)
  BY DEF Inv, Settled
<1>2. stack[t] # <<>> /\ Me(t) = Head(stack[t]) /\ Me(t).pc = pc
  BY DEF Is, Me
<1>3. /\ Me(t) \in Call /\ Top(stack, t) \in Slots /\ Calls(stack)[Top(stack, t)] = Me(t)
  BY <1>1, <1>2, TopCall
<1>4. Proper(Me(t), implicit)
  BY <1>1, <1>3, CallFacts
<1>5. QED
  BY <1>1, <1>2, <1>3, <1>4, CallsType DEF Call, Stacks

\* The call of t goes on at pc.
GoneTo(t, pc, sv, N) ==
  LET C == Calls(stack)
      D == Calls(sv)
      x == Top(stack, t)
  IN  /\ Settled(sv, N) /\ sv \in Stacks /\ Changed(C, D, x) /\ D \in CallMaps
      /\ MovedTo(C[x], D[x], pc)

LEMMA Goes ==
  ASSUME Inv, NEW t \in Threads, NEW from, Is(t, from), NEW pc \in Pcs, pc \in UsePcs => from \in UsePcs,
         NEW N, KeepsLocks(mutex, N, t), pc \in Owning => N[Me(t).e] = t,
         pc = "closeParent" => Parent(Me(t).e) \in Entities /\ N[Parent(Me(t).e)] = t
  PROVE  GoneTo(t, pc, Goto(t, pc), N)
<1> DEFINE f == Me(t)
           g == [f EXCEPT !.pc = pc]
           sv == Goto(t, pc)
<1>0. Settled(stack, mutex)
  BY DEF Inv
<1>1. /\ stack[t] # <<>> /\ f = Head(stack[t]) /\ f \in Call /\ f.pc = from
      /\ Top(stack, t) \in Slots /\ Calls(stack)[Top(stack, t)] = f /\ stack \in Stacks
  BY Acting
<1>2. g \in Call /\ MovedTo(f, g, pc)
  BY <1>1 DEF MovedTo, Call
<1>3. Replaced(stack, sv, t, g)
  BY <1>1 DEF Replaced, Goto, Stacks
<1>4. HasLocks(g, N, t)
  BY <1>2 DEF HasLocks, MovedTo
<1>5. g.pc \in UsePcs => Head(stack[t]).pc \in UsePcs
  BY <1>1, <1>2 DEF MovedTo
<1> HIDE DEF g, sv
<1>6. /\ Settled(sv, N) /\ Changed(Calls(stack), Calls(sv), Top(stack, t)) /\ Calls(sv)[Top(stack, t)] = g
      /\ Calls(sv) \in CallMaps
  BY <1>0, <1>1, <1>2, <1>3, <1>4, <1>5, Moves
<1>7. QED
  BY <1>1, <1>2, <1>6 DEF GoneTo, Settled, sv

\* Nothing but the stage of the call changes.
LEMMA GoesQuietly ==
  ASSUME Inv, NEW t \in Threads, NEW from, Is(t, from), NEW pc \in Pcs,
         {from, pc} \subseteq Early \/ {from, pc} \subseteq Mid
  PROVE  Settled(Goto(t, pc), mutex) /\ World(Calls(Goto(t, pc)), hdl, life, children, implicit)
<1> DEFINE sv == Goto(t, pc)
           f == Me(t)
           g == Calls(sv)[Top(stack, t)]
<1>1. pc \notin UsePcs /\ pc # "closeParent" /\ pc \notin Owning /\ KeepsLocks(mutex, mutex, t)
  BY DEF Early, Mid, UsePcs, Owning, KeepsLocks
<1>2. GoneTo(t, pc, sv, mutex)
  BY <1>1, Goes
<1>3. f \in Call /\ f.pc = from /\ Top(stack, t) \in Slots /\ Calls(stack)[Top(stack, t)] = f /\ Proper(f, implicit)
  BY Acting
<1> HIDE DEF sv
<1>4. /\ Settled(sv, mutex) /\ Changed(Calls(stack), Calls(sv), Top(stack, t)) /\ Calls(sv) \in CallMaps /\ MovedTo(f, g, pc)
  BY <1>2, <1>3 DEF GoneTo
<1> HIDE DEF f, g
<1>5. Like(f, g)
  BY <1>3, <1>4 DEF Like, MovedTo
<1>6. Proper(g, implicit) /\ g.pc \notin {"pinTopic", "deferQos", "new"}
  BY <1>3, <1>4 DEF Proper, MovedTo, Early, Mid, UsePcs, TopicPcs
<1>7. World(Calls(stack), hdl, life, children, implicit)
  BY DEF Inv
<1>8. World(Calls(sv), hdl, life, children, implicit)
  BY <1>3, <1>4, <1>5, <1>6, <1>7, QuietMove DEF f, g
<1>9. QED
  BY <1>4, <1>8 DEF sv

LEMMA InterruptInv ==
  ASSUME Inv, NEW t \in Threads, Interrupt(t)
  PROVE  Inv'
<1>1. Is(t, "interrupt") /\ "closeWait" \in Pcs /\ {"interrupt", "closeWait"} \subseteq Early
  BY DEF Interrupt, Pcs, Early
<1>2. Settled(Goto(t, "closeWait"), mutex) /\ World(Calls(Goto(t, "closeWait")), hdl, life, children, implicit)
  BY <1>1, GoesQuietly
<1>3. QED
  BY <1>2 DEF Inv, Interrupt, entityVars, envVars

LEMMA CloseInv ==
  ASSUME Inv, NEW t \in Threads, Close(t)
  PROVE  Inv'
<1>1. Is(t, "close") /\ "nextChild" \in Pcs /\ {"close", "nextChild"} \subseteq Mid
  BY DEF Close, Pcs, Mid
<1>2. Settled(Goto(t, "nextChild"), mutex) /\ World(Calls(Goto(t, "nextChild")), hdl, life, children, implicit)
  BY <1>1, GoesQuietly
<1>3. QED
  BY <1>2 DEF Inv, Close, entityVars, envVars

LEMMA ChildReturnedInv ==
  ASSUME Inv, NEW t \in Threads, ChildReturned(t)
  PROVE  Inv'
<1>1. PICK pc \in {"childWaiting", "nextChild"} : stack' = Goto(t, pc)
  BY DEF ChildReturned
<1>2. Is(t, "childReturned") /\ pc \in Pcs /\ {"childReturned", pc} \subseteq Mid
  BY DEF ChildReturned, Pcs, Mid
<1>3. Settled(Goto(t, pc), mutex) /\ World(Calls(Goto(t, pc)), hdl, life, children, implicit)
  BY <1>2, GoesQuietly
<1>4. QED
  BY <1>1, <1>3 DEF Inv, ChildReturned, entityVars, envVars

LEMMA CloseWaitInv ==
  ASSUME Inv, NEW t \in Threads, CloseWait(t)
  PROVE  Inv'
<1>0. Is(t, "closeWait") /\ World(Calls(stack), hdl, life, children, implicit)
  BY DEF CloseWait, Inv
<1>1. CASE stack' = Goto(t, "closeWaiting")
  <2>1. "closeWaiting" \in Pcs /\ {"closeWait", "closeWaiting"} \subseteq Early
    BY DEF Pcs, Early
  <2>2. Settled(Goto(t, "closeWaiting"), mutex) /\ World(Calls(Goto(t, "closeWaiting")), hdl, life, children, implicit)
    BY <1>0, <2>1, GoesQuietly
  <2>3. QED
    BY <1>1, <2>2 DEF Inv, CloseWait, entityVars, envVars
<1>2. CASE stack' = Goto(t, "close") /\ hdl[Me(t).e].pins = 1
  <2> DEFINE sv == Goto(t, "close")
             x == Top(stack, t)
  <2>1. "close" \in Pcs /\ "close" \notin UsePcs /\ "close" \notin Owning /\ KeepsLocks(mutex, mutex, t)
    BY DEF Pcs, Mid, UsePcs, Owning, KeepsLocks
  <2>2. GoneTo(t, "close", sv, mutex)
    BY <1>0, <2>1, Goes
  <2>3. Me(t).pc = "closeWait" /\ x \in Slots /\ Calls(stack)[x] = Me(t)
    BY <1>0, Acting
  <2> HIDE DEF sv
  <2>4. /\ Settled(sv, mutex) /\ Changed(Calls(stack), Calls(sv), x) /\ Calls(sv) \in CallMaps
        /\ MovedTo(Calls(stack)[x], Calls(sv)[x], "close")
    BY <2>2 DEF GoneTo
  <2>5. Calls(stack)[x].pc = "closeWait" /\ hdl[Calls(stack)[x].e].pins = 1
    BY <1>2, <2>3
  <2> HIDE DEF x
  <2>6. World(Calls(sv), hdl, life, children, implicit)
    BY <1>0, <2>3, <2>4, <2>5, OthersGone
  <2>7. QED
    BY <1>2, <2>4, <2>6 DEF Inv, CloseWait, entityVars, envVars, sv
<1>3. QED
  BY <1>1, <1>2 DEF CloseWait, MayClose

LEMMA DeleteCallType ==
  ASSUME NEW e \in Entities, NEW how \in {"user", "parent", "explicit", "implicit"}, NEW I
  PROVE  LET f == DeleteCall(e, how)
         IN  f \in Call /\ f.pc = "pin" /\ f.e = e /\ ~f.up /\ f.new = None /\ Proper(f, I) /\ Like(Gone, f) /\ Like(f, Gone)
  BY DEF DeleteCall, Call, Pcs, Proper, UsePcs, TopicPcs, Like, Gone

LEMMA DeleteBeginInv ==
  ASSUME Inv, NEW t \in Threads, NEW e \in Entities, DeleteBegin(t, e)
  PROVE  Inv'
<1> DEFINE h == DeleteCall(e, "user")
           x == <<t, 1>>
<1>1. h \in Call /\ h.pc = "pin" /\ Proper(h, implicit) /\ Like(Gone, h)
  BY DeleteCallType
<1>2. Settled(stack, mutex) /\ World(Calls(stack), hdl, life, children, implicit) /\ stack[t] = <<>>
  BY DEF Inv, DeleteBegin
<1>3. Begun(stack, stack', t, h)
  BY DEF DeleteBegin, Begun
<1> HIDE DEF h
<1>4. /\ Settled(stack', mutex) /\ Changed(Calls(stack), Calls(stack'), x) /\ Calls(stack')[x] = h
      /\ Calls(stack') \in CallMaps /\ x \in Slots /\ Calls(stack)[x] = Gone
  BY <1>1, <1>2, <1>3, Begins
<1> HIDE DEF x
<1>5. World(Calls(stack'), hdl, life, children, implicit)
  BY <1>1, <1>2, <1>4, QuietMove
<1>6. QED
  BY <1>4, <1>5 DEF Inv, DeleteBegin, entityVars

LEMMA RefsNat ==
  ASSUME NEW C, NEW H, NEW L, NEW K, NEW I, World(C, H, L, K, I), NEW e \in Entities, H[e].in
  PROVE  H[e].refs \in Nat
<1> DEFINE R == {r \in Entities : RefersIn(C, L, r, e)}
<1>1. RefsExact(C, H, L, K, I) /\ K \in Trees
  BY WorldParts
<1>2. Cardinality(K[e]) \in Nat /\ Cardinality(R) \in Nat
  BY <1>1, RefSets
<1>3. H[e].refs = Own(H, e, I) + Cardinality(K[e]) + Cardinality(R)
  BY <1>1 DEF RefsExact, Own
<1>4. Own(H, e, I) \in Nat
  BY DEF Own
<1> HIDE DEF R
<1>5. QED
  BY <1>2, <1>3, <1>4

\* What dds_handle_pin_for_delete may do.
LEMMA PinForDeleteCases ==
  ASSUME NEW e, NEW h \in Handle, h.in => h.refs \in Nat, NEW x, x = PinForDelete(e, h)
  PROVE  \/ x.rc # "ok" /\ x.h = h
         \/ /\ x.rc = "ok" /\ ~PinFails(h) /\ x.h \in Handle /\ x.h.in /\ x.h.closing /\ x.h.pins = h.pins + 1
            /\ x.h.refs = h.refs - (IF e \in implicit \/ h.deferred THEN 0 ELSE 1)
         \/ /\ x.rc # "ok" /\ ~PinFails(h) /\ ~h.deferred /\ e \notin implicit /\ x.h \in Handle
            /\ x.h.in = h.in /\ x.h.closing = h.closing /\ x.h.pins = h.pins /\ x.h.deferred /\ x.h.refs = h.refs - 1
<1> DEFINE pinned  == [h EXCEPT !.pins = @ + 1, !.closing = TRUE]
           dropped == [pinned EXCEPT !.refs = @ - 1]
           again == [h EXCEPT !.refs = @ - 1, !.deferred = TRUE]
<1>0. /\ pinned \in Handle /\ pinned.in = h.in /\ pinned.closing /\ pinned.pins = h.pins + 1 /\ pinned.refs = h.refs
      /\ dropped \in Handle /\ dropped.in = h.in /\ dropped.closing /\ dropped.pins = h.pins + 1 /\ dropped.refs = h.refs - 1
      /\ again \in Handle /\ again.in = h.in /\ again.closing = h.closing /\ again.pins = h.pins
      /\ again.deferred /\ again.refs = h.refs - 1
  <2>1. /\ pinned \in Handle /\ pinned.in = h.in /\ pinned.closing /\ pinned.pins = h.pins + 1 /\ pinned.refs = h.refs
    <3> DEFINE a == [h EXCEPT !.pins = @ + 1]
               b == [a EXCEPT !.closing = TRUE]
    <3>1. pinned = b
      OBVIOUS
    <3>2. a \in Handle /\ a.in = h.in /\ a.pins = h.pins + 1 /\ a.refs = h.refs
      BY DEF Handle
    <3> HIDE DEF a
    <3>3. b \in Handle /\ b.in = a.in /\ b.closing /\ b.pins = a.pins /\ b.refs = a.refs
      BY <3>2 DEF Handle
    <3> HIDE DEF b
    <3>4. QED
      BY <3>1, <3>2, <3>3
  <2>2. /\ again \in Handle /\ again.in = h.in /\ again.closing = h.closing /\ again.pins = h.pins
        /\ again.deferred /\ again.refs = h.refs - 1
    <3> DEFINE a == [h EXCEPT !.refs = @ - 1]
               b == [a EXCEPT !.deferred = TRUE]
    <3>1. again = b
      OBVIOUS
    <3>2. a \in Handle /\ a.in = h.in /\ a.closing = h.closing /\ a.pins = h.pins /\ a.refs = h.refs - 1
      BY DEF Handle
    <3> HIDE DEF a
    <3>3. b \in Handle /\ b.in = a.in /\ b.closing = a.closing /\ b.pins = a.pins /\ b.refs = a.refs /\ b.deferred
      BY <3>2 DEF Handle
    <3> HIDE DEF b
    <3>4. QED
      BY <3>1, <3>2, <3>3
  <2> HIDE DEF pinned
  <2>3. /\ dropped \in Handle /\ dropped.in = h.in /\ dropped.closing /\ dropped.pins = h.pins + 1 /\ dropped.refs = h.refs - 1
    BY <2>1 DEF Handle
  <2>4. QED
    BY <2>1, <2>2, <2>3
<1>1. CASE PinFails(h)
  <2>1. x = [rc |-> "bad", h |-> h]
    BY <1>1 DEF PinForDelete
  <2>2. QED
    BY <2>1
<1>2. CASE ~PinFails(h) /\ h.deferred /\ h.refs > 0
  <2>1. x = [rc |-> "already", h |-> h]
    BY <1>2 DEF PinForDelete
  <2>2. QED
    BY <2>1
<1>3. CASE ~PinFails(h) /\ h.deferred /\ h.refs = 0
  <2>1. x = [rc |-> "ok", h |-> pinned]
    BY <1>3 DEF PinForDelete
  <2> HIDE DEF pinned, dropped, again
  <2>2. QED
    BY <1>0, <1>3, <2>1 DEF PinFails
<1>4. CASE ~PinFails(h) /\ ~h.deferred /\ e \in implicit
  <2>1. x = [rc |-> "ok", h |-> pinned]
    BY <1>4 DEF PinForDelete
  <2> HIDE DEF pinned, dropped, again
  <2>2. h.refs \in Int
    BY DEF Handle
  <2>3. QED
    BY <1>0, <1>4, <2>1, <2>2 DEF PinFails
<1>5. CASE ~PinFails(h) /\ ~h.deferred /\ e \notin implicit
  <2>1. x = IF h.refs = 1 \/ e \notin Topics THEN [rc |-> "ok", h |-> dropped] ELSE [rc |-> "again", h |-> again]
    BY <1>5 DEF PinForDelete
  <2> HIDE DEF pinned, dropped, again
  <2>2. CASE x = [rc |-> "ok", h |-> dropped]
    BY <1>0, <1>5, <2>2 DEF PinFails
  <2>3. CASE x = [rc |-> "again", h |-> again]
    BY <1>0, <1>5, <2>3 DEF PinFails
  <2>4. QED
    BY <2>1, <2>2, <2>3
<1>6. QED
  <2>1. ~PinFails(h) => h.refs \in Nat
    BY DEF PinFails
  <2>2. QED
    BY <1>1, <1>2, <1>3, <1>4, <1>5, <2>1

LEMMA ReturnFromPin ==
  ASSUME Inv, NEW t \in Threads, Is(t, "pin"), NEW G, World(Calls(stack), G, life, children, implicit)
  PROVE  Settled(Return(t), mutex) /\ World(Calls(Return(t)), G, life, children, implicit)
<1> DEFINE sv == Return(t)
           x == Top(stack, t)
<1>1. Settled(stack, mutex) /\ KeepsLocks(mutex, mutex, t)
  BY DEF Inv, KeepsLocks
<1>2. stack[t] # <<>> /\ stack \in Stacks /\ x \in Slots /\ Calls(stack)[x] = Me(t) /\ Me(t).pc = "pin"
  BY Acting
<1>3. Popped(stack, sv, t)
  BY <1>2 DEF Popped, Return, Stacks
<1> HIDE DEF sv
<1>4. /\ Settled(sv, mutex) /\ Changed(Calls(stack), Calls(sv), Top(stack, t)) /\ Calls(sv)[Top(stack, t)] = Gone
      /\ Calls(sv) \in CallMaps
  BY <1>1, <1>2, <1>3, Returns
<1> HIDE DEF x
<1>5. Proper(Gone, implicit) /\ Like(Me(t), Gone) /\ Gone.pc = "gone"
  BY <1>2 DEF Proper, Like, Gone, UsePcs, TopicPcs
<1>6. World(Calls(sv), G, life, children, implicit)
  BY <1>2, <1>4, <1>5, QuietMove DEF x
<1>7. QED
  BY <1>4, <1>6 DEF sv

LEMMA DeletePinInv ==
  ASSUME Inv, NEW t \in Threads, DeletePin(t)
  PROVE  Inv'
<1> DEFINE e == Me(t).e
           h == hdl[e]
           y == PinForDelete(e, h)
           x == Top(stack, t)
<1>0. Is(t, "pin") /\ World(Calls(stack), hdl, life, children, implicit)
  BY DEF DeletePin, Inv
<1>1. x \in Slots /\ Calls(stack)[x] = Me(t) /\ Me(t).pc = "pin" /\ e \in Entities /\ stack[t] # <<>>
  BY <1>0, Acting
<1>2. hdl \in Handles /\ h \in Handle /\ (h.in => h.refs \in Nat)
  BY <1>0, <1>1, WorldParts, RefsNat DEF Handles
<1>3. /\ hdl' = [hdl EXCEPT ![e] = y.h]
      /\ stack' = IF y.rc = "ok" THEN Goto(t, "interrupt") ELSE Return(t)
      /\ life' = life /\ children' = children /\ mutex' = mutex /\ implicit' = implicit
  BY DEF DeletePin, envVars
<1>4. \/ y.rc # "ok" /\ y.h = h
      \/ /\ y.rc = "ok" /\ ~PinFails(h) /\ y.h \in Handle /\ y.h.in /\ y.h.closing /\ y.h.pins = h.pins + 1
         /\ y.h.refs = h.refs - (IF e \in implicit \/ h.deferred THEN 0 ELSE 1)
      \/ /\ y.rc # "ok" /\ ~PinFails(h) /\ ~h.deferred /\ e \notin implicit /\ y.h \in Handle
         /\ y.h.in = h.in /\ y.h.closing = h.closing /\ y.h.pins = h.pins /\ y.h.deferred /\ y.h.refs = h.refs - 1
  BY <1>2, PinForDeleteCases
<1> HIDE DEF y
<1>5. CASE y.rc # "ok" /\ y.h = h
  <2>1. hdl' = hdl /\ stack' = Return(t)
    BY <1>2, <1>3, <1>5 DEF Handles
  <2>2. Settled(Return(t), mutex) /\ World(Calls(Return(t)), hdl, life, children, implicit)
    BY <1>0, ReturnFromPin
  <2>3. QED
    BY <1>3, <2>1, <2>2 DEF Inv
<1>6. CASE /\ y.rc = "ok" /\ ~PinFails(h) /\ y.h \in Handle /\ y.h.in /\ y.h.closing /\ y.h.pins = h.pins + 1
           /\ y.h.refs = h.refs - (IF e \in implicit \/ h.deferred THEN 0 ELSE 1)
  <2> DEFINE sv == Goto(t, "interrupt")
             G == hdl'
  <2>1. "interrupt" \in Pcs /\ "interrupt" \notin UsePcs /\ "interrupt" \notin Owning /\ KeepsLocks(mutex, mutex, t)
    BY DEF Pcs, Early, UsePcs, Owning, KeepsLocks
  <2>2. GoneTo(t, "interrupt", sv, mutex)
    BY <1>0, <2>1, Goes
  <2> HIDE DEF sv
  <2>3. /\ Settled(sv, mutex) /\ Changed(Calls(stack), Calls(sv), x) /\ Calls(sv) \in CallMaps
        /\ MovedTo(Calls(stack)[x], Calls(sv)[x], "interrupt")
    BY <2>2 DEF GoneTo
  <2>4. G \in Handles /\ G[e] = y.h /\ \A d \in Entities : d # e => G[d] = hdl[d]
    BY <1>1, <1>2, <1>3, <1>6 DEF Handles
  <2>5. Calls(stack)[x].pc = "pin" /\ e = Calls(stack)[x].e
    BY <1>1
  <2>6. /\ ~PinFails(hdl[e]) /\ G[e].in /\ G[e].closing /\ G[e].pins = hdl[e].pins + 1
        /\ G[e].refs = hdl[e].refs - (IF e \in implicit \/ hdl[e].deferred THEN 0 ELSE 1)
    BY <1>6, <2>4
  <2> HIDE DEF x, e, G, h
  <2>7. World(Calls(sv), G, life, children, implicit)
    BY <1>0, <1>1, <2>3, <2>4, <2>5, <2>6, PinnedForDelete
  <2>8. QED
    BY <1>3, <1>6, <2>3, <2>7 DEF Inv, sv, G
<1>7. CASE /\ y.rc # "ok" /\ ~PinFails(h) /\ ~h.deferred /\ e \notin implicit /\ y.h \in Handle
           /\ y.h.in = h.in /\ y.h.closing = h.closing /\ y.h.pins = h.pins /\ y.h.deferred /\ y.h.refs = h.refs - 1
  <2> DEFINE G == hdl'
  <2>1. G \in Handles /\ G[e] = y.h /\ \A d \in Entities : d # e => G[d] = hdl[d]
    BY <1>1, <1>2, <1>3, <1>7 DEF Handles
  <2>2. \A d \in Entities : G[d].in = hdl[d].in /\ G[d].closing = hdl[d].closing /\ G[d].pins = hdl[d].pins
    BY <1>7, <2>1
  <2>3. ASSUME NEW d \in Entities
        PROVE  G[d].refs - (IF d \in implicit \/ G[d].closing \/ G[d].deferred THEN 0 ELSE 1)
                              = hdl[d].refs - (IF d \in implicit \/ hdl[d].closing \/ hdl[d].deferred THEN 0 ELSE 1)
    <3>1. CASE d = e
      <4>1. h.refs \in Int /\ ~h.closing
        BY <1>2, <1>7 DEF Handle, PinFails
      <4>2. QED
        BY <1>7, <2>1, <3>1, <4>1
    <3>2. CASE d # e
      BY <2>1, <3>2
    <3>3. QED
      BY <3>1, <3>2
  <2> HIDE DEF x, e, G, h
  <2>4. World(Calls(stack), G, life, children, implicit)
    BY <1>0, <1>1, <2>1, <2>2, <2>3, HandlesOnly
  <2>5. Settled(Return(t), mutex) /\ World(Calls(Return(t)), G, life, children, implicit)
    BY <1>0, <2>4, ReturnFromPin
  <2>6. QED
    BY <1>3, <1>7, <2>5 DEF Inv, G
<1>8. QED
  BY <1>4, <1>5, <1>6, <1>7

\* The call goes on as g, which holds what it held.
LEMMA GoesOnAs ==
  ASSUME Inv, NEW t \in Threads, NEW from, Is(t, from), NEW g \in Call,
         g.e = Me(t).e, g.new = Me(t).new, g.up = Me(t).up,
         {from, g.pc} \subseteq Mid \/ (from = "deleteTopic" /\ g.pc = "free"),
         NEW sv, Replaced(stack, sv, t, g)
  PROVE  Settled(sv, mutex) /\ World(Calls(sv), hdl, life, children, implicit)
<1> DEFINE f == Me(t)
           x == Top(stack, t)
<1>1. /\ f \in Call /\ f.pc = from /\ x \in Slots /\ Calls(stack)[x] = f /\ Proper(f, implicit)
      /\ stack[t] # <<>> /\ f = Head(stack[t])
  BY Acting
<1>2. Settled(stack, mutex) /\ World(Calls(stack), hdl, life, children, implicit) /\ KeepsLocks(mutex, mutex, t)
  BY DEF Inv, KeepsLocks
<1>3. g.pc \notin UsePcs /\ HasLocks(g, mutex, t) /\ g.pc \notin {"pinTopic", "deferQos", "new"}
  BY DEF Mid, UsePcs, HasLocks, Owning
<1>4. /\ Settled(sv, mutex) /\ Changed(Calls(stack), Calls(sv), x) /\ Calls(sv)[x] = g /\ Calls(sv) \in CallMaps
  BY <1>1, <1>2, <1>3, Moves
<1> HIDE DEF f, x
<1>5. Like(f, g)
  BY <1>1 DEF Like, f
<1>6. Proper(g, implicit)
  BY <1>1 DEF Proper, Mid, UsePcs, TopicPcs, f
<1>7. World(Calls(sv), hdl, life, children, implicit)
  BY <1>1, <1>2, <1>3, <1>4, <1>5, <1>6, QuietMove
<1>8. QED
  BY <1>4, <1>7

\* A set of natural numbers has a least one.
LEMMA LeastOfNat == ASSUME NEW S \in SUBSET Nat, S # {} PROVE \E n \in S : \A k \in S : n <= k
<1>1. PICK n \in S : \A k \in S : <<k, n>> \notin OpToRel(<, Nat)
  BY NatLessThanWellFounded, WFMin
<1>2. \A k \in S : ~(k < n)
  BY <1>1 DEF OpToRel
<1>3. QED
  BY <1>2

LEMMA NextChildInv ==
  ASSUME Inv, NEW t \in Threads, NextChild(t)
  PROVE  Inv'
<1> DEFINE f == Me(t)
           C == Candidates(f)
           c == CHOOSE x \in C : \A y \in C : Iid(x) <= Iid(y)
           rest == Tail(stack[t])
<1>0. /\ Is(t, "nextChild") /\ UNCHANGED <<entityVars, envVars>>
      /\ stack' = [stack EXCEPT ![t] =
           IF C # {} THEN <<DeleteCall(c, "parent"),
                            [f EXCEPT !.pc = "childReturned", !.cursor = Iid(c)]>> \o rest
           ELSE IF f.pass = 1 THEN <<[f EXCEPT !.pass = 2, !.cursor = 0]>> \o rest
           ELSE <<[f EXCEPT !.pc = "handleDelete"]>> \o rest]
  BY DEF NextChild
<1>1. /\ f \in Call /\ f.pc = "nextChild" /\ f.e \in Entities /\ stack[t] # <<>> /\ stack \in Stacks
  BY <1>0, Acting
<1>2. Settled(stack, mutex) /\ World(Calls(stack), hdl, life, children, implicit) /\ children \in Trees
  BY WorldParts DEF Inv
<1>3. C \subseteq Entities
  BY <1>1, <1>2 DEF Candidates, Trees
<1>4. CASE C # {}
  <2> DEFINE g == [f EXCEPT !.pc = "childReturned", !.cursor = Iid(c)]
             h == DeleteCall(c, "parent")
             mv == [stack EXCEPT ![t] = <<g>> \o Tail(stack[t])]
  <2>1. c \in C
    <3> HIDE DEF C
    <3> DEFINE S == {Iid(x) : x \in C}
    <3>1. S \in SUBSET Nat /\ S # {}
      BY <1>3, <1>4, HandlesAssumption
    <3>2. PICK n \in S : \A k \in S : n <= k
      BY <3>1, LeastOfNat
    <3>3. \E x \in C : \A y \in C : Iid(x) <= Iid(y)
      BY <3>2
    <3>4. QED
      BY <3>3
  <2> HIDE DEF C, c
  <2>2. c \in Entities /\ Iid(c) \in Nat
    BY <1>3, <2>1, HandlesAssumption
  <2>3. g \in Call /\ g.pc = "childReturned" /\ g.e = f.e /\ g.new = f.new /\ g.up = f.up
    <3> DEFINE a == [f EXCEPT !.pc = "childReturned"]
               b == [a EXCEPT !.cursor = Iid(c)]
    <3>1. g = b
      OBVIOUS
    <3>2. a \in Call /\ a.pc = "childReturned" /\ a.e = f.e /\ a.new = f.new /\ a.up = f.up
      BY <1>1 DEF Call, Pcs, Mid
    <3> HIDE DEF a
    <3>3. b \in Call /\ b.pc = a.pc /\ b.e = a.e /\ b.new = a.new /\ b.up = a.up
      BY <2>2, <3>2 DEF Call
    <3> HIDE DEF b
    <3>4. QED
      BY <3>1, <3>2, <3>3
  <2>4. h \in Call /\ h.pc = "pin" /\ ~h.up /\ h.new = None
    BY <2>2, DeleteCallType
  <2>5. Replaced(stack, mv, t, g) /\ Pushed(stack, stack', t, g, h)
    BY <1>0, <1>4 DEF Replaced, Pushed
  <2> HIDE DEF g, h, mv
  <2>6. {"nextChild", g.pc} \subseteq Mid
    BY <2>3 DEF Mid
  <2>7. World(Calls(mv), hdl, life, children, implicit)
    BY <1>0, <2>3, <2>5, <2>6, GoesOnAs
  <2>8. Settled(stack', mutex) /\ World(Calls(stack'), hdl, life, children, implicit)
    BY <1>1, <1>2, <2>3, <2>4, <2>5, <2>7, Pushes
  <2>9. QED
    BY <1>0, <2>8 DEF Inv, entityVars, envVars
<1>5. CASE C = {} /\ f.pass = 1
  <2> DEFINE g == [f EXCEPT !.pass = 2, !.cursor = 0]
  <2>1. g \in Call /\ g.pc = "nextChild" /\ g.e = f.e /\ g.new = f.new /\ g.up = f.up
    <3> DEFINE a == [f EXCEPT !.pass = 2]
               b == [a EXCEPT !.cursor = 0]
    <3>1. g = b
      OBVIOUS
    <3>2. a \in Call /\ a.pc = f.pc /\ a.e = f.e /\ a.new = f.new /\ a.up = f.up
      BY <1>1 DEF Call
    <3> HIDE DEF a
    <3>3. b \in Call /\ b.pc = a.pc /\ b.e = a.e /\ b.new = a.new /\ b.up = a.up
      BY <3>2 DEF Call
    <3> HIDE DEF b
    <3>4. QED
      BY <1>1, <3>1, <3>2, <3>3
  <2>2. Replaced(stack, stack', t, g)
    BY <1>0, <1>5 DEF Replaced
  <2> HIDE DEF g
  <2>3. {"nextChild", g.pc} \subseteq Mid
    BY <2>1 DEF Mid
  <2>4. Settled(stack', mutex) /\ World(Calls(stack'), hdl, life, children, implicit)
    BY <1>0, <2>1, <2>2, <2>3, GoesOnAs
  <2>5. QED
    BY <1>0, <2>4 DEF Inv, entityVars, envVars
<1>6. CASE C = {} /\ f.pass # 1
  <2> DEFINE g == [f EXCEPT !.pc = "handleDelete"]
  <2>1. g \in Call /\ g.pc = "handleDelete" /\ g.e = f.e /\ g.new = f.new /\ g.up = f.up
    BY <1>1 DEF Call, Pcs, Mid
  <2>2. Replaced(stack, stack', t, g)
    BY <1>0, <1>6 DEF Replaced
  <2> HIDE DEF g
  <2>3. {"nextChild", g.pc} \subseteq Mid
    BY <2>1 DEF Mid
  <2>4. Settled(stack', mutex) /\ World(Calls(stack'), hdl, life, children, implicit)
    BY <1>0, <2>1, <2>2, <2>3, GoesOnAs
  <2>5. QED
    BY <1>0, <2>4 DEF Inv, entityVars, envVars
<1>7. QED
  BY <1>4, <1>5, <1>6

LEMMA DeleteTopicInv ==
  ASSUME Inv, NEW t \in Threads, DeleteTopic(t)
  PROVE  Inv'
<1> DEFINE f == Me(t)
           g == [f EXCEPT !.pc = "free"]
           h == DeleteCall(TopicOf(f.e), "explicit")
           mv == [stack EXCEPT ![t] = <<g>> \o Tail(stack[t])]
<1>0. Is(t, "deleteTopic") /\ UNCHANGED <<entityVars, envVars>>
  BY DEF DeleteTopic
<1>1. /\ f \in Call /\ f.pc = "deleteTopic" /\ f.e \in Entities /\ stack[t] # <<>> /\ stack \in Stacks
      /\ Proper(f, implicit) /\ f = Head(stack[t])
  BY <1>0, Acting
<1>2. TopicOf(f.e) \in Entities
  BY <1>1, HandlesAssumption DEF Proper
<1>3. Settled(stack, mutex)
  BY DEF Inv
<1>4. g \in Call /\ g.pc = "free" /\ g.e = f.e /\ g.new = f.new /\ g.up = f.up
  BY <1>1 DEF Call, Pcs, Late
<1>5. h \in Call /\ h.pc = "pin" /\ ~h.up /\ h.new = None
  BY <1>2, DeleteCallType
<1>6. Replaced(stack, mv, t, g) /\ Pushed(stack, stack', t, g, h)
  BY <1>1 DEF Replaced, Pushed, DeleteTopic, Stacks
<1> HIDE DEF g, h, mv
<1>8. World(Calls(mv), hdl, life, children, implicit)
  BY <1>0, <1>4, <1>6, GoesOnAs
<1>9. Settled(stack', mutex) /\ World(Calls(stack'), hdl, life, children, implicit)
  BY <1>1, <1>3, <1>4, <1>5, <1>6, <1>8, Pushes
<1>10. QED
  BY <1>0, <1>9 DEF Inv, entityVars, envVars

LEMMA HandleDeleteInv ==
  ASSUME Inv, NEW t \in Threads, HandleDelete(t)
  PROVE  Inv'
<1> DEFINE e == Me(t).e
           x == Top(stack, t)
           pc == IF e = Root THEN "dropTopic" ELSE "leaveParent"
           sv == Goto(t, pc)
           G == hdl'
<1>0. Is(t, "handleDelete") /\ World(Calls(stack), hdl, life, children, implicit) /\ hdl \in Handles
  BY WorldParts DEF HandleDelete, Inv
<1>1. x \in Slots /\ Calls(stack)[x] = Me(t) /\ Me(t).pc = "handleDelete" /\ e \in Entities
  BY <1>0, Acting
<1>2. /\ G = [hdl EXCEPT ![e].in = FALSE] /\ stack' = sv
      /\ life' = life /\ children' = children /\ mutex' = mutex /\ implicit' = implicit
  BY DEF HandleDelete, envVars
<1>3. pc \in Pcs /\ pc \notin UsePcs /\ pc \notin Owning /\ pc # "closeParent" /\ KeepsLocks(mutex, mutex, t)
  BY DEF Pcs, Late, UsePcs, Owning, KeepsLocks
<1> HIDE DEF pc
<1>4. GoneTo(t, pc, sv, mutex)
  BY <1>0, <1>3, Goes
<1> HIDE DEF sv
<1>5. /\ Settled(sv, mutex) /\ Changed(Calls(stack), Calls(sv), x) /\ Calls(sv) \in CallMaps
      /\ MovedTo(Calls(stack)[x], Calls(sv)[x], pc)
  BY <1>4 DEF GoneTo
<1>6. MovedTo(Calls(stack)[x], Calls(sv)[x], IF e = Root THEN "dropTopic" ELSE "leaveParent")
  BY <1>5 DEF pc
<1>7. G \in Handles /\ ~G[e].in /\ G[e].closing = hdl[e].closing /\ \A d \in Entities : d # e => G[d] = hdl[d]
  <2>1. hdl[e] \in Handle
    BY <1>0, <1>1 DEF Handles
  <2> DEFINE k == [hdl[e] EXCEPT !.in = FALSE]
  <2>2. k \in Handle /\ ~k.in /\ k.closing = hdl[e].closing
    BY <2>1 DEF Handle
  <2>3. G = [hdl EXCEPT ![e] = k]
    BY <1>2
  <2> HIDE DEF k, G
  <2>4. QED
    BY <1>0, <1>1, <2>2, <2>3 DEF Handles
<1>8. Calls(stack)[x].pc = "handleDelete" /\ e = Calls(stack)[x].e
  BY <1>1
<1> HIDE DEF x, e, G
<1>9. World(Calls(sv), G, life, children, implicit)
  BY <1>0, <1>1, <1>5, <1>6, <1>7, <1>8, HandleDeleted
<1>10. QED
  BY <1>2, <1>5, <1>9 DEF Inv, G

LEMMA LeaveParentInv ==
  ASSUME Inv, NEW t \in Threads, LeaveParent(t)
  PROVE  Inv'
<1> DEFINE e == Me(t).e
           p == Parent(e)
           h == hdl[p]
           x == Top(stack, t)
           y == DropChildref(p, h, Me(t).how # "parent")
           b == y.up
           pc == IF b THEN "closeParent" ELSE "dropTopic"
           G == hdl'
           J == children'
           N == mutex'
           sv == Goto(t, pc)
<1>0. /\ Is(t, "leaveParent") /\ World(Calls(stack), hdl, life, children, implicit) /\ hdl \in Handles
      /\ children \in Trees /\ mutex \in [Entities -> Threads \cup {Nobody}]
  BY WorldParts DEF LeaveParent, Inv
<1>1. x \in Slots /\ Calls(stack)[x] = Me(t) /\ Me(t).pc = "leaveParent" /\ e \in Entities /\ Proper(Me(t), implicit)
  BY <1>0, Acting
<1>2. p \in Entities /\ Nobody \notin Threads
  BY <1>1, HandlesAssumption DEF Proper
<1>3. /\ mutex[p] = Nobody /\ J = [children EXCEPT ![p] = @ \ {e}] /\ G = [hdl EXCEPT ![p] = y.h]
      /\ life' = life /\ implicit' = implicit
      /\ b => N = [mutex EXCEPT ![p] = t] /\ stack' = sv
      /\ ~b => N = mutex /\ stack' = EntityBroadcast(sv, p)
  BY DEF LeaveParent, envVars, Unlocked
<1>4. b \in BOOLEAN /\ (b => ~h.closing /\ p \in implicit)
  BY DEF DropChildref
<1>5. /\ y.h \in Handle /\ y.h.in = h.in /\ y.h.closing = h.closing /\ y.h.deferred = h.deferred
      /\ y.h.refs = h.refs - 1 /\ y.h.pins = h.pins + (IF b THEN 1 ELSE 0)
  <2>1. h \in Handle
    BY <1>0, <1>2 DEF Handles
  <2> DEFINE a == [h EXCEPT !.refs = @ - 1]
             k == [a EXCEPT !.pins = IF b THEN @ + 1 ELSE @]
  <2>2. y.h = k
    BY DEF DropChildref
  <2>3. /\ a \in Handle /\ a.in = h.in /\ a.closing = h.closing /\ a.deferred = h.deferred /\ a.refs = h.refs - 1
        /\ a.pins = h.pins /\ h.pins \in Int
    BY <2>1 DEF Handle
  <2> HIDE DEF a, y
  <2>4. /\ k \in Handle /\ k.in = a.in /\ k.closing = a.closing /\ k.deferred = a.deferred /\ k.refs = a.refs
        /\ k.pins = a.pins + (IF b THEN 1 ELSE 0)
    BY <2>3 DEF Handle
  <2> HIDE DEF k
  <2>5. QED
    BY <2>2, <2>3, <2>4
<1> HIDE DEF y
<1>6. N \in [Entities -> Threads \cup {Nobody}] /\ KeepsLocks(mutex, N, t) /\ (b => N[p] = t)
  BY <1>0, <1>2, <1>3, <1>4 DEF KeepsLocks
<1>7. pc \in Pcs /\ pc \notin UsePcs /\ pc \notin Owning /\ (pc = "closeParent" => b)
  BY DEF Pcs, Late, UsePcs, Owning
<1> HIDE DEF pc
<1>8. GoneTo(t, pc, sv, N)
  <2>1. pc = "closeParent" => Parent(Me(t).e) \in Entities /\ N[Parent(Me(t).e)] = t
    BY <1>2, <1>6, <1>7
  <2> HIDE DEF N
  <2>2. QED
    BY <1>0, <1>6, <1>7, <2>1, Goes
<1> HIDE DEF sv
<1>9. /\ Settled(sv, N) /\ Changed(Calls(stack), Calls(sv), x) /\ Calls(sv) \in CallMaps /\ sv \in Stacks
      /\ MovedTo(Calls(stack)[x], Calls(sv)[x], IF b THEN "closeParent" ELSE "dropTopic")
  BY <1>8 DEF GoneTo, pc
<1>10. /\ G \in Handles /\ G[p] = y.h /\ \A d \in Entities : d # p => G[d] = hdl[d]
  BY <1>0, <1>2, <1>3, <1>5 DEF Handles
<1>11. /\ J \in Trees /\ J[p] = children[p] \ {e} /\ \A d \in Entities : d # p => J[d] = children[d]
  <2>1. children[p] \ {e} \in SUBSET Entities
    BY <1>0, <1>2 DEF Trees
  <2>2. QED
    BY <1>0, <1>2, <1>3, <2>1 DEF Trees
<1>12. Calls(stack)[x].pc = "leaveParent" /\ e = Calls(stack)[x].e /\ p = Parent(e)
  BY <1>1
<1>13. /\ b => ~hdl[p].closing /\ p \in implicit
       /\ G[p].in = hdl[p].in /\ G[p].closing = hdl[p].closing /\ G[p].deferred = hdl[p].deferred
       /\ G[p].refs = hdl[p].refs - 1 /\ G[p].pins = hdl[p].pins + (IF b THEN 1 ELSE 0)
  BY <1>4, <1>5, <1>10
<1> HIDE DEF x, e, p, h, b, G, J, N
<1>14. World(Calls(sv), G, life, J, implicit)
  BY <1>0, <1>1, <1>4, <1>9, <1>10, <1>11, <1>12, <1>13, ParentLeft
<1>15. Settled(stack', N) /\ World(Calls(stack'), G, life, J, implicit)
  <2>1. CASE b
    BY <1>3, <1>9, <1>14, <2>1
  <2>2. CASE ~b
    <3>1. Awoken(sv, stack')
      BY <1>3, <1>9, <2>2, EntityBroadcastWakes
    <3>2. QED
      BY <1>9, <1>14, <3>1, AwokenSettled, AwokenWorld
  <2>3. QED
    BY <2>1, <2>2
<1>16. QED
  BY <1>3, <1>6, <1>15 DEF Inv, G, J, N

LEMMA CloseParentInv ==
  ASSUME Inv, NEW t \in Threads, CloseParent(t)
  PROVE  Inv'
<1> DEFINE f == Me(t)
           p == Parent(f.e)
           x == Top(stack, t)
           g == [f EXCEPT !.pc = "dropTopic", !.up = TRUE]
           G == hdl'
           N == mutex'
           sv == [stack EXCEPT ![t] = <<g>> \o Tail(stack[t])]
<1>0. /\ Is(t, "closeParent") /\ World(Calls(stack), hdl, life, children, implicit) /\ hdl \in Handles
      /\ mutex \in [Entities -> Threads \cup {Nobody}] /\ Settled(stack, mutex) /\ implicit \in SUBSET Entities
  BY WorldParts DEF CloseParent, Inv
<1>1. /\ x \in Slots /\ Calls(stack)[x] = f /\ f.pc = "closeParent" /\ f \in Call /\ f.e \in Entities
      /\ Proper(f, implicit) /\ stack[t] # <<>> /\ f = Head(stack[t]) /\ stack \in Stacks
  BY <1>0, Acting
<1>2. p \in Entities /\ Nobody \notin Threads /\ mutex[p] = t
  BY <1>0, <1>1, HandlesAssumption DEF Proper, Settled, Locks
<1>3. /\ G = [hdl EXCEPT ![p].closing = TRUE] /\ N = [mutex EXCEPT ![p] = Nobody]
      /\ stack' = EntityBroadcast([stack EXCEPT ![t] = <<[Head(@) EXCEPT !.pc = "dropTopic", !.up = TRUE]>> \o Tail(@)], p)
      /\ life' = life /\ children' = children /\ implicit' = implicit
  BY DEF CloseParent, envVars
<1>4. stack' = EntityBroadcast(sv, p) /\ Replaced(stack, sv, t, g)
  BY <1>1, <1>3 DEF Replaced, Stacks
<1>5. g \in Call /\ g.pc = "dropTopic" /\ g.e = f.e /\ g.new = f.new /\ g.up = TRUE
  <2> DEFINE a == [f EXCEPT !.pc = "dropTopic"]
             k == [a EXCEPT !.up = TRUE]
  <2>1. g = k
    OBVIOUS
  <2>2. a \in Call /\ a.pc = "dropTopic" /\ a.e = f.e /\ a.new = f.new
    BY <1>1 DEF Call, Pcs, Late
  <2> HIDE DEF a
  <2>3. k \in Call /\ k.pc = a.pc /\ k.e = a.e /\ k.new = a.new /\ k.up = TRUE
    BY <2>2 DEF Call
  <2> HIDE DEF k
  <2>4. QED
    BY <2>1, <2>2, <2>3
<1> HIDE DEF g, sv
<1>6. N \in [Entities -> Threads \cup {Nobody}] /\ KeepsLocks(mutex, N, t) /\ HasLocks(g, N, t) /\ g.pc \notin UsePcs
  <2>1. N \in [Entities -> Threads \cup {Nobody}] /\ KeepsLocks(mutex, N, t)
    BY <1>0, <1>2, <1>3 DEF KeepsLocks
  <2>2. QED
    BY <1>5, <2>1 DEF HasLocks, Owning, UsePcs
<1> HIDE DEF N
<1>7. /\ Settled(sv, N) /\ Changed(Calls(stack), Calls(sv), x) /\ Calls(sv)[x] = g
      /\ Calls(sv) \in CallMaps /\ sv \in Stacks
  BY <1>0, <1>1, <1>4, <1>5, <1>6, Moves DEF Settled
<1>8. /\ G \in Handles /\ (\A d \in Entities : d # p => G[d] = hdl[d])
      /\ G[p].in = hdl[p].in /\ G[p].closing /\ G[p].deferred = hdl[p].deferred
      /\ G[p].refs = hdl[p].refs /\ G[p].pins = hdl[p].pins
  <2>1. hdl[p] \in Handle
    BY <1>0, <1>2 DEF Handles
  <2> DEFINE k == [hdl[p] EXCEPT !.closing = TRUE]
  <2>2. k \in Handle /\ k.in = hdl[p].in /\ k.closing /\ k.deferred = hdl[p].deferred /\ k.refs = hdl[p].refs /\ k.pins = hdl[p].pins
    BY <2>1 DEF Handle
  <2>3. G = [hdl EXCEPT ![p] = k]
    BY <1>3
  <2> HIDE DEF k, G, p
  <2>4. G \in Handles /\ G[p] = k /\ (\A d \in Entities : d # p => G[d] = hdl[d])
    BY <1>0, <1>2, <2>2, <2>3 DEF Handles
  <2>5. QED
    BY <2>2, <2>4
<1>9. Calls(stack)[x].pc = "closeParent" /\ p = Parent(Calls(stack)[x].e)
  BY <1>1
<1>10. /\ Calls(sv)[x] \in Call /\ Calls(sv)[x].pc = "dropTopic" /\ Calls(sv)[x].e = Calls(stack)[x].e
       /\ Calls(sv)[x].new = Calls(stack)[x].new /\ Calls(sv)[x].up
  BY <1>1, <1>5, <1>7
<1> HIDE DEF x, f, p, G
<1>11. World(Calls(sv), G, life, children, implicit)
  BY <1>0, <1>1, <1>7, <1>8, <1>9, <1>10, ParentClosed
<1>12. Awoken(sv, stack')
  BY <1>4, <1>7, EntityBroadcastWakes
<1>13. Settled(stack', N) /\ World(Calls(stack'), G, life, children, implicit)
  BY <1>7, <1>11, <1>12, AwokenSettled, AwokenWorld
<1>14. QED
  BY <1>3, <1>6, <1>13 DEF Inv, G, N

LEMMA DropTopicInv ==
  ASSUME Inv, NEW t \in Threads, DropTopic(t)
  PROVE  Inv'
<1> DEFINE e == Me(t).e
           tp == TopicOf(e)
           h == [hdl[tp] EXCEPT !.refs = @ - 1]
           pc == IF tp # None /\ h.refs = 0 THEN "deleteTopic" ELSE "free"
           x == Top(stack, t)
           G == hdl'
           sv == Goto(t, pc)
<1>0. /\ Is(t, "dropTopic") /\ World(Calls(stack), hdl, life, children, implicit) /\ hdl \in Handles
  BY WorldParts DEF DropTopic, Inv
<1>1. x \in Slots /\ Calls(stack)[x] = Me(t) /\ Me(t).pc = "dropTopic" /\ e \in Entities
  BY <1>0, Acting
<1>2. (tp # None => tp \in Entities) /\ None \notin Entities
  BY <1>1, HandlesAssumption
<1>3. /\ life' = life /\ children' = children /\ mutex' = mutex /\ implicit' = implicit
      /\ tp = None => G = hdl /\ stack' = sv
      /\ tp # None => G = [hdl EXCEPT ![tp] = h] /\ stack' = HandleBroadcast(sv, h)
  BY DEF DropTopic, envVars
<1>4. tp # None => /\ h \in Handle /\ h.in = hdl[tp].in /\ h.closing = hdl[tp].closing /\ h.deferred = hdl[tp].deferred
                   /\ h.pins = hdl[tp].pins /\ h.refs = hdl[tp].refs - 1
  <2>1. tp # None => hdl[tp] \in Handle
    BY <1>0, <1>2 DEF Handles
  <2>2. QED
    BY <2>1 DEF Handle
<1> HIDE DEF h
<1>5. /\ pc \in {"deleteTopic", "free"} /\ (pc = "deleteTopic" => tp # None)
      /\ pc \in Pcs /\ pc \notin UsePcs /\ pc \notin Owning /\ pc # "closeParent" /\ KeepsLocks(mutex, mutex, t)
  BY DEF Pcs, Late, UsePcs, Owning, KeepsLocks
<1> HIDE DEF pc
<1>6. GoneTo(t, pc, sv, mutex)
  BY <1>0, <1>5, Goes
<1> HIDE DEF sv
<1>7. /\ Settled(sv, mutex) /\ Changed(Calls(stack), Calls(sv), x) /\ Calls(sv) \in CallMaps /\ sv \in Stacks
      /\ MovedTo(Calls(stack)[x], Calls(sv)[x], pc)
  BY <1>6 DEF GoneTo
<1>8. /\ G \in Handles /\ \A d \in Entities : d # TopicOf(e) => G[d] = hdl[d]
      /\ tp # None => G[tp] = h
  <2>1. CASE tp = None
    BY <1>0, <1>3, <2>1
  <2>2. CASE tp # None
    BY <1>0, <1>2, <1>3, <1>4, <2>2 DEF Handles
  <2>3. QED
    BY <2>1, <2>2
<1>9. TopicOf(e) # None =>
           LET k == G[TopicOf(e)]
               l == hdl[TopicOf(e)]
           IN  k.in = l.in /\ k.closing = l.closing /\ k.deferred = l.deferred /\ k.pins = l.pins /\ k.refs = l.refs - 1
  BY <1>4, <1>8
<1>10. Calls(stack)[x].pc = "dropTopic" /\ e = Calls(stack)[x].e /\ (pc = "deleteTopic" => TopicOf(e) # None)
  BY <1>1, <1>5
<1>11. G \in Handles /\ \A d \in Entities : d # TopicOf(e) => G[d] = hdl[d]
  BY <1>8
<1> HIDE DEF x, e, G
<1>12. World(Calls(sv), G, life, children, implicit)
  BY <1>0, <1>1, <1>5, <1>7, <1>9, <1>10, <1>11, TopicDropped
<1>13. Settled(stack', mutex) /\ World(Calls(stack'), G, life, children, implicit)
  <2>1. CASE tp = None
    BY <1>3, <1>7, <1>12, <2>1
  <2>2. CASE tp # None
    <3>1. Awoken(sv, stack')
      BY <1>3, <1>7, <2>2, HandleBroadcastWakes
    <3>2. QED
      BY <1>7, <1>12, <3>1, AwokenSettled, AwokenWorld
  <2>3. QED
    BY <2>1, <2>2
<1>14. QED
  BY <1>3, <1>13 DEF Inv, G

LEMMA FreeInv ==
  ASSUME Inv, NEW t \in Threads, Free(t)
  PROVE  Inv'
<1> DEFINE f == Me(t)
           e == f.e
           x == Top(stack, t)
           M == life'
<1>0. /\ Is(t, "free") /\ World(Calls(stack), hdl, life, children, implicit) /\ life \in Lives
      /\ Settled(stack, mutex) /\ KeepsLocks(mutex, mutex, t) /\ implicit \in SUBSET Entities
  BY WorldParts DEF Free, Inv, KeepsLocks
<1>1. /\ x \in Slots /\ Calls(stack)[x] = f /\ f.pc = "free" /\ e \in Entities /\ Proper(f, implicit) /\ f \in Call
      /\ stack[t] # <<>> /\ f = Head(stack[t]) /\ stack \in Stacks
  BY <1>0, Acting
<1>2. /\ M = [life EXCEPT ![e] = "freed"]
      /\ hdl' = hdl /\ children' = children /\ mutex' = mutex /\ implicit' = implicit
  BY DEF Free, envVars
<1>3. M \in Lives /\ M[e] = "freed" /\ \A d \in Entities : d # e => M[d] = life[d]
  BY <1>0, <1>1, <1>2 DEF Lives
<1>4. Calls(stack)[x].pc = "free" /\ e = Calls(stack)[x].e /\ f.up \in BOOLEAN
  BY <1>1 DEF Call
<1>5. CASE ~f.up
  <2>1. Popped(stack, stack', t)
    BY <1>1, <1>5 DEF Free, Return, Popped, Stacks
  <2>2. /\ Settled(stack', mutex) /\ Changed(Calls(stack), Calls(stack'), x) /\ Calls(stack')[x] = Gone
        /\ Calls(stack') \in CallMaps
    BY <1>0, <1>1, <2>1, Returns
  <2>3. (~Calls(stack)[x].up => Calls(stack')[x] = Gone) /\ ~Calls(stack)[x].up
    BY <1>1, <1>5, <2>2
  <2> HIDE DEF x, M, e, f
  <2>4. World(Calls(stack'), hdl, M, children, implicit)
    BY <1>0, <1>1, <1>3, <1>4, <2>2, <2>3, EntityFreed
  <2>5. QED
    BY <1>2, <2>2, <2>4 DEF Inv, M
<1>6. CASE f.up
  <2> DEFINE k == DeleteCall(Parent(e), "implicit")
             g == [k EXCEPT !.pc = "interrupt"]
  <2>0. Parent(e) \in Entities
    BY <1>0, <1>1, <1>6 DEF Proper
  <2>1. k \in Call /\ k.e = Parent(e) /\ ~k.up /\ k.new = None
    BY <2>0, DeleteCallType
  <2>2. Replaced(stack, stack', t, g)
    BY <1>1, <1>6 DEF Free, Replaced, Stacks
  <2> HIDE DEF k
  <2>3. g \in Call /\ g.pc = "interrupt" /\ g.e = Parent(e) /\ ~g.up /\ g.new = None
    BY <2>1 DEF Call, Pcs, Early
  <2> HIDE DEF g
  <2>4. HasLocks(g, mutex, t) /\ g.pc \notin UsePcs
    BY <2>3 DEF HasLocks, Owning, UsePcs
  <2>5. /\ Settled(stack', mutex) /\ Changed(Calls(stack), Calls(stack'), x) /\ Calls(stack')[x] = g
        /\ Calls(stack') \in CallMaps
    BY <1>0, <1>1, <2>2, <2>3, <2>4, Moves
  <2>6. /\ ~Calls(stack)[x].up => Calls(stack')[x] = Gone
        /\ Calls(stack)[x].up => /\ Calls(stack')[x] \in Call /\ Calls(stack')[x].pc = "interrupt" /\ Calls(stack')[x].e = Parent(e)
                                 /\ Calls(stack')[x].new = None /\ ~Calls(stack')[x].up
    BY <1>1, <1>6, <2>3, <2>5
  <2> HIDE DEF x, M, e, f
  <2>7. World(Calls(stack'), hdl, M, children, implicit)
    BY <1>0, <1>1, <1>3, <1>4, <2>5, <2>6, EntityFreed
  <2>8. QED
    BY <1>2, <2>5, <2>7 DEF Inv, M
<1>7. QED
  BY <1>4, <1>5, <1>6
-----------------------------------------------------------------------------
(* The operations *)

\* What an operation has pinned when it is at pc and has no child to register.
PinsAt(f, pc, d) == d = f.e \/ (f.new # None /\ d = TopicOf(f.new) /\ pc \in TopicPcs)

UseGoing(t, from, pc, G) ==
  /\ {from, pc} \subseteq UsePcs \ {"register"}
  /\ pc \in TopicPcs \cup {"pinTopic"} => Me(t).new # None
  /\ pc \in {"pinTopic", "deferQos", "allowQos", "unpinTopic"} => TopicOf(Me(t).new) # None
  /\ pc \in {"pinTopic", "deferQos", "new"} => life[Me(t).new] = "none"
  /\ \A d \in Entities : PinsAt(Me(t), pc, d) => PinsAt(Me(t), from, d) \/ ~PinFails(hdl[d])
  /\ \A d \in Entities : /\ G[d].in = hdl[d].in /\ G[d].closing = hdl[d].closing
                         /\ G[d].deferred = hdl[d].deferred /\ G[d].refs = hdl[d].refs
                         /\ G[d].pins = hdl[d].pins + One(PinsAt(Me(t), pc, d)) - One(PinsAt(Me(t), from, d))

LEMMA PinsAtIs ==
  ASSUME NEW f, NEW I, Proper(f, I), f.pc \in UsePcs \ {"register"}, NEW d
  PROVE  PinsIt(f, d) <=> PinsAt(f, f.pc, d)
<1>1. ~f.up /\ f.pc # "closeParent" /\ f.pc \notin {"pin", "gone", "register"}
  BY DEF Proper, UsePcs
<1>2. QED
  BY <1>1 DEF PinsIt, PinsAt

LEMMA UseGoes ==
  ASSUME Inv, NEW t \in Threads, NEW from, Is(t, from), NEW pc, NEW G \in Handles, UseGoing(t, from, pc, G),
         NEW N, KeepsLocks(mutex, N, t), pc \in Owning => N[Me(t).e] = t
  PROVE  Settled(Goto(t, pc), N) /\ World(Calls(Goto(t, pc)), G, life, children, implicit) /\ Goto(t, pc) \in Stacks
<1> DEFINE f == Me(t)
           x == Top(stack, t)
           sv == Goto(t, pc)
           C == Calls(stack)
           D == Calls(sv)
           g == D[x]
<1>0. World(C, hdl, life, children, implicit)
  BY DEF Inv
<1>1. x \in Slots /\ C[x] = f /\ f.pc = from /\ f.e \in Entities /\ Proper(f, implicit)
  BY Acting
<1>2. from \in UsePcs \ {"register"} /\ pc \in UsePcs \ {"register"} /\ pc \in Pcs /\ pc # "closeParent"
  BY DEF UseGoing, Pcs, UsePcs
<1>3. GoneTo(t, pc, sv, N)
  BY <1>2, Goes
<1> HIDE DEF sv
<1>4. /\ Settled(sv, N) /\ Changed(C, D, x) /\ D \in CallMaps /\ sv \in Stacks /\ MovedTo(f, g, pc)
  BY <1>1, <1>3 DEF GoneTo
<1>5. g.pc = pc /\ g.e = f.e /\ g.new = f.new /\ g.up = f.up
  BY <1>4 DEF MovedTo
<1>6. Proper(g, implicit)
  <2>1. ~f.up /\ f.e \notin Topics /\ (f.new # None => Parent(f.new) = f.e)
    BY <1>1, <1>2 DEF Proper
  <2>2. pc \notin {"leaveParent", "deleteTopic"}
    BY <1>2 DEF UsePcs
  <2>3. QED
    BY <1>2, <1>5, <2>1, <2>2 DEF Proper, UseGoing
<1>7. /\ \A d \in Entities : PinsIt(f, d) <=> PinsAt(f, from, d)
      /\ \A d \in Entities : PinsIt(g, d) <=> PinsAt(f, pc, d)
  <2>1. \A d \in Entities : PinsIt(f, d) <=> PinsAt(f, from, d)
    BY <1>1, <1>2, PinsAtIs
  <2>2. \A d \in Entities : PinsIt(g, d) <=> PinsAt(g, pc, d)
    BY <1>2, <1>5, <1>6, PinsAtIs
  <2>3. \A d \in Entities : PinsAt(g, pc, d) <=> PinsAt(f, pc, d)
    BY <1>5 DEF PinsAt
  <2>4. QED
    BY <2>1, <2>2, <2>3
<1>8. UsePinChange(C, D, x, hdl, G, life)
  <2>1. C[x].pc \in UseStages /\ D[x].pc \in UseStages
    BY <1>1, <1>2, <1>5 DEF UseStages
  <2>2. D[x].pc \in {"pinTopic", "deferQos", "new"} => life[D[x].new] = "none"
    BY <1>5 DEF UseGoing
  <2>3. \A d \in Entities : PinsIt(D[x], d) => PinsIt(C[x], d) \/ ~PinFails(hdl[d])
    BY <1>1, <1>7 DEF UseGoing
  <2>4. ASSUME NEW d \in Entities
        PROVE  /\ G[d].in = hdl[d].in /\ G[d].closing = hdl[d].closing
               /\ G[d].deferred = hdl[d].deferred /\ G[d].refs = hdl[d].refs
               /\ G[d].pins = hdl[d].pins + One(PinsIt(D[x], d)) - One(PinsIt(C[x], d))
    <3>1. One(PinsIt(D[x], d)) = One(PinsAt(f, pc, d)) /\ One(PinsIt(C[x], d)) = One(PinsAt(f, from, d))
      BY <1>1, <1>7 DEF One
    <3>2. QED
      BY <3>1 DEF UseGoing
  <2>5. QED
    BY <2>1, <2>2, <2>3, <2>4 DEF UsePinChange
<1> HIDE DEF C, D, x
<1>9. World(D, G, life, children, implicit)
  BY <1>0, <1>1, <1>4, <1>6, <1>8, UsePin
<1>10. QED
  BY <1>4, <1>9 DEF D, sv

\* Nothing is pinned or unpinned.
LEMMA UseGoesQuietly ==
  ASSUME Inv, NEW t \in Threads, NEW from, Is(t, from), NEW pc, {from, pc} \subseteq UsePcs \ {"register"},
         pc \in TopicPcs \cup {"pinTopic"} => Me(t).new # None,
         pc \in {"pinTopic", "deferQos", "allowQos", "unpinTopic"} => TopicOf(Me(t).new) # None,
         pc \in {"pinTopic", "deferQos", "new"} => life[Me(t).new] = "none",
         pc \in TopicPcs /\ from \notin TopicPcs => TopicOf(Me(t).new) = None,
         from \in TopicPcs /\ pc \notin TopicPcs => TopicOf(Me(t).new) = None,
         NEW N, KeepsLocks(mutex, N, t), pc \in Owning => N[Me(t).e] = t
  PROVE  Settled(Goto(t, pc), N) /\ World(Calls(Goto(t, pc)), hdl, life, children, implicit) /\ Goto(t, pc) \in Stacks
<1>1. hdl \in Handles
  BY WorldParts DEF Inv
<1>2. None \notin Entities
  BY HandlesAssumption
<1>3. \A d \in Entities : PinsAt(Me(t), pc, d) <=> PinsAt(Me(t), from, d)
  BY <1>2 DEF PinsAt
<1>4. \A d \in Entities : hdl[d].pins = hdl[d].pins + One(PinsAt(Me(t), pc, d)) - One(PinsAt(Me(t), from, d))
  <2>1. ASSUME NEW d \in Entities
        PROVE  hdl[d].pins = hdl[d].pins + One(PinsAt(Me(t), pc, d)) - One(PinsAt(Me(t), from, d))
    <3>1. hdl[d].pins \in Int
      BY <1>1 DEF Handles, Handle
    <3>2. One(PinsAt(Me(t), pc, d)) = One(PinsAt(Me(t), from, d)) /\ One(PinsAt(Me(t), from, d)) \in Int
      BY <1>3 DEF One
    <3>3. QED
      BY <3>1, <3>2
  <2>2. QED
    BY <2>1
<1>5. UseGoing(t, from, pc, hdl)
  BY <1>3, <1>4 DEF UseGoing
<1>6. QED
  BY <1>1, <1>5, UseGoes

\* An entity is pinned, or unpinned.
Repinned(H, G, e, n) == G = [H EXCEPT ![e] = [H[e] EXCEPT !.pins = n]]

LEMMA PinsChange ==
  ASSUME NEW H \in Handles, NEW e \in Entities, NEW n \in Int, NEW G, Repinned(H, G, e, n)
  PROVE  /\ G \in Handles /\ G[e].pins = n
         /\ \A d \in Entities : /\ G[d].in = H[d].in /\ G[d].closing = H[d].closing
                                /\ G[d].deferred = H[d].deferred /\ G[d].refs = H[d].refs
                                /\ d # e => G[d].pins = H[d].pins
<1> DEFINE k == [H[e] EXCEPT !.pins = n]
<1>1. H[e] \in Handle
  BY DEF Handles
<1>2. /\ k \in Handle /\ k.pins = n /\ k.in = H[e].in /\ k.closing = H[e].closing /\ k.deferred = H[e].deferred /\ k.refs = H[e].refs
  BY <1>1 DEF Handle
<1>3. G = [H EXCEPT ![e] = k]
  BY DEF Repinned
<1> HIDE DEF k
<1>4. G \in Handles /\ G[e] = k /\ \A d \in Entities : d # e => G[d] = H[d]
  BY <1>2, <1>3 DEF Handles
<1>5. QED
  BY <1>2, <1>4

LEMMA UseBeginInv ==
  ASSUME Inv, NEW t \in Threads, NEW e \in Entities, UseBegin(t, e)
  PROVE  Inv'
<1>0. /\ Settled(stack, mutex) /\ World(Calls(stack), hdl, life, children, implicit) /\ hdl \in Handles
      /\ stack[t] = <<>> /\ e \notin Topics
      /\ life' = life /\ children' = children /\ mutex' = mutex /\ implicit' = implicit
  BY WorldParts DEF Inv, UseBegin
<1>1. CASE PinFails(hdl[e])
  BY <1>0, <1>1 DEF UseBegin, Inv
<1>2. CASE ~PinFails(hdl[e])
  <2>1. PICK c \in {y \in Entities : Parent(y) = e /\ life[y] = "none"} \cup {None} :
          stack' = [stack EXCEPT ![t] = <<UseCall(e, c)>>]
    BY <1>2 DEF UseBegin
  <2> DEFINE g == UseCall(e, c)
             x == <<t, 1>>
             G == hdl'
             C == Calls(stack)
             D == Calls(stack')
  <2>2. /\ g \in Call /\ g.pc = "lock" /\ g.e = e /\ g.new = c /\ ~g.up /\ Proper(g, implicit)
    BY <1>0 DEF UseCall, Call, Pcs, UsePcs, Proper, TopicPcs
  <2>3. Begun(stack, stack', t, g)
    BY <2>1 DEF Begun
  <2> HIDE DEF g
  <2>4. /\ Settled(stack', mutex) /\ Changed(C, D, x) /\ D[x] = g /\ D \in CallMaps /\ x \in Slots /\ C[x] = Gone
    BY <1>0, <2>2, <2>3, Begins
  <2>5. Repinned(hdl, G, e, hdl[e].pins + 1)
    BY <1>2 DEF UseBegin, Repinned
  <2>6. hdl[e].pins \in Int /\ hdl[e].pins + 1 \in Int
    BY <1>0 DEF Handles, Handle
  <2>7. /\ G \in Handles /\ G[e].pins = hdl[e].pins + 1
        /\ \A d \in Entities : /\ G[d].in = hdl[d].in /\ G[d].closing = hdl[d].closing
                               /\ G[d].deferred = hdl[d].deferred /\ G[d].refs = hdl[d].refs
                               /\ d # e => G[d].pins = hdl[d].pins
    BY <1>0, <2>5, <2>6, PinsChange
  <2>8. (\A d \in Entities : ~PinsIt(Gone, d)) /\ \A d \in Entities : PinsIt(g, d) <=> d = e
    <3>1. \A d \in Entities : ~PinsIt(Gone, d)
      BY DEF PinsIt, Gone
    <3>2. \A d \in Entities : PinsIt(g, d) <=> d = e
      BY <2>2 DEF PinsIt, TopicPcs
    <3>3. QED
      BY <3>1, <3>2
  <2>9. UsePinChange(C, D, x, hdl, G, life)
    <3>1. C[x].pc \in UseStages /\ D[x].pc \in UseStages /\ D[x].pc \notin {"pinTopic", "deferQos", "new"}
      BY <2>2, <2>4 DEF Gone, UseStages, UsePcs
    <3>2. \A d \in Entities : PinsIt(D[x], d) => PinsIt(C[x], d) \/ ~PinFails(hdl[d])
      BY <1>2, <2>4, <2>8
    <3>3. \A d \in Entities : G[d].pins = hdl[d].pins + One(PinsIt(D[x], d)) - One(PinsIt(C[x], d))
      <4>1. ASSUME NEW d \in Entities
            PROVE  G[d].pins = hdl[d].pins + One(PinsIt(D[x], d)) - One(PinsIt(C[x], d))
        <5>1. hdl[d].pins \in Int
          BY <1>0 DEF Handles, Handle
        <5>2. One(PinsIt(C[x], d)) = 0 /\ One(PinsIt(D[x], d)) = IF d = e THEN 1 ELSE 0
          BY <2>4, <2>8 DEF One
        <5>3. QED
          BY <2>7, <5>1, <5>2
      <4>2. QED
        BY <4>1
    <3>4. QED
      BY <2>7, <3>1, <3>2, <3>3 DEF UsePinChange
  <2>10. Proper(D[x], implicit)
    BY <2>2, <2>4
  <2> HIDE DEF C, D, x, G
  <2>11. World(D, G, life, children, implicit)
    BY <1>0, <2>4, <2>7, <2>9, <2>10, UsePin DEF C
  <2>12. QED
    BY <1>0, <2>4, <2>11 DEF Inv, D, G
<1>3. QED
  BY <1>1, <1>2

LEMMA UseLockInv ==
  ASSUME Inv, NEW t \in Threads, UseLock(t)
  PROVE  Inv'
<1> DEFINE f == Me(t)
           N == mutex'
           pc == IF f.new = None \/ life[f.new] # "none" THEN "unlock"
                 ELSE IF TopicOf(f.new) = None THEN "new" ELSE "pinTopic"
<1>0. /\ Is(t, "lock") /\ mutex[f.e] = Nobody /\ N = [mutex EXCEPT ![f.e] = t] /\ stack' = Goto(t, pc)
      /\ hdl' = hdl /\ life' = life /\ children' = children /\ implicit' = implicit
  BY DEF UseLock, envVars, Unlocked
<1>1. f.e \in Entities /\ mutex \in [Entities -> Threads \cup {Nobody}] /\ Nobody \notin Threads
  BY <1>0, Acting, HandlesAssumption DEF Inv
<1>2. N \in [Entities -> Threads \cup {Nobody}] /\ KeepsLocks(mutex, N, t) /\ N[f.e] = t
  BY <1>0, <1>1 DEF KeepsLocks
<1> HIDE DEF N
<1>3. /\ {"lock", pc} \subseteq UsePcs \ {"register"}
      /\ pc \in TopicPcs \cup {"pinTopic"} => f.new # None
      /\ pc \in {"pinTopic", "deferQos", "allowQos", "unpinTopic"} => TopicOf(f.new) # None
      /\ pc \in {"pinTopic", "deferQos", "new"} => life[f.new] = "none"
      /\ pc \in TopicPcs => TopicOf(f.new) = None
      /\ "lock" \notin TopicPcs
  BY DEF UsePcs, TopicPcs
<1> HIDE DEF pc
<1>4. Settled(Goto(t, pc), N) /\ World(Calls(Goto(t, pc)), hdl, life, children, implicit)
  BY <1>0, <1>2, <1>3, UseGoesQuietly
<1>5. QED
  BY <1>0, <1>2, <1>4 DEF Inv, N

LEMMA UnlockInv ==
  ASSUME Inv, NEW t \in Threads, Unlock(t)
  PROVE  Inv'
<1> DEFINE f == Me(t)
           N == mutex'
<1>0. /\ Is(t, "unlock") /\ N = [mutex EXCEPT ![f.e] = Nobody] /\ stack' = Goto(t, "unpin")
      /\ hdl' = hdl /\ life' = life /\ children' = children /\ implicit' = implicit
  BY DEF Unlock, envVars
<1>1. /\ f.e \in Entities /\ mutex \in [Entities -> Threads \cup {Nobody}] /\ Nobody \notin Threads
      /\ stack[t] # <<>> /\ f = Head(stack[t]) /\ f.pc = "unlock"
  BY <1>0, Acting, HandlesAssumption DEF Inv
<1>2. mutex[f.e] = t
  BY <1>1 DEF Inv, Settled, Locks, Owning
<1>3. N \in [Entities -> Threads \cup {Nobody}] /\ KeepsLocks(mutex, N, t)
  BY <1>0, <1>1, <1>2 DEF KeepsLocks
<1> HIDE DEF N
<1>4. /\ {"unlock", "unpin"} \subseteq UsePcs \ {"register"}
      /\ "unpin" \notin TopicPcs \cup {"pinTopic"} \cup Owning /\ "unlock" \notin TopicPcs
      /\ "unpin" \notin {"pinTopic", "deferQos", "allowQos", "unpinTopic", "new"}
  BY DEF UsePcs, TopicPcs, Owning
<1>5. Settled(Goto(t, "unpin"), N) /\ World(Calls(Goto(t, "unpin")), hdl, life, children, implicit)
  BY <1>0, <1>3, <1>4, UseGoesQuietly
<1>6. QED
  BY <1>0, <1>3, <1>5 DEF Inv, N

\* The facts about an operation that is past its lock.
LEMMA UseFacts ==
  ASSUME Inv, NEW t \in Threads, NEW pc \in Owning, Is(t, pc)
  PROVE  /\ mutex[Me(t).e] = t /\ KeepsLocks(mutex, mutex, t) /\ Me(t).e \notin Topics
         /\ pc \in TopicPcs \cup {"pinTopic"} => Me(t).new # None /\ Me(t).new \in Entities
         /\ pc \in {"pinTopic", "deferQos", "allowQos", "unpinTopic"} =>
              TopicOf(Me(t).new) # None /\ TopicOf(Me(t).new) \in Topics
         /\ pc \in {"pinTopic", "deferQos", "new"} => life[Me(t).new] = "none"
<1> DEFINE f == Me(t)
<1>1. /\ f \in Call /\ f.pc = pc /\ Proper(f, implicit) /\ stack[t] # <<>> /\ f = Head(stack[t])
      /\ Top(stack, t) \in Slots /\ Calls(stack)[Top(stack, t)] = f
  BY Acting
<1>2. mutex[f.e] = t /\ KeepsLocks(mutex, mutex, t)
  BY <1>1 DEF Inv, Settled, Locks, KeepsLocks
<1>3. f.e \notin Topics
  BY <1>1 DEF Proper, UsePcs, Owning
<1>4. pc \in TopicPcs \cup {"pinTopic"} => f.new # None /\ f.new \in Entities
  BY <1>1 DEF Proper, Call
<1>5. pc \in {"pinTopic", "deferQos", "allowQos", "unpinTopic"} => TopicOf(f.new) # None /\ TopicOf(f.new) \in Topics
  <2>1. pc \in {"pinTopic", "deferQos", "allowQos", "unpinTopic"} => TopicOf(f.new) # None /\ f.new \in Entities
    BY <1>1, <1>4 DEF Proper, TopicPcs
  <2>2. QED
    BY <2>1, HandlesAssumption
<1>6. pc \in {"pinTopic", "deferQos", "new"} => life[f.new] = "none"
  <2>1. Fresh(Calls(stack), life)
    BY WorldParts DEF Inv
  <2>2. QED
    BY <1>1, <2>1 DEF Fresh
<1>7. QED
  BY <1>2, <1>3, <1>4, <1>5, <1>6

LEMMA PinTopicInv ==
  ASSUME Inv, NEW t \in Threads, PinTopic(t)
  PROVE  Inv'
<1> DEFINE f == Me(t)
           tp == TopicOf(f.new)
           G == hdl'
<1>0. /\ Is(t, "pinTopic") /\ life' = life /\ children' = children /\ mutex' = mutex /\ implicit' = implicit
      /\ PinFails(hdl[tp]) => stack' = Goto(t, "unlock") /\ G = hdl
      /\ ~PinFails(hdl[tp]) => stack' = Goto(t, "deferQos") /\ G = [hdl EXCEPT ![tp] = [hdl[tp] EXCEPT !.pins = hdl[tp].pins + 1]]
  BY DEF PinTopic, envVars
<1>1. /\ mutex[f.e] = t /\ KeepsLocks(mutex, mutex, t) /\ f.e \notin Topics /\ f.new # None /\ tp # None /\ tp \in Topics
      /\ life[f.new] = "none"
  BY <1>0, UseFacts DEF Owning
<1>2. tp \in Entities /\ hdl \in Handles /\ f.e \in Entities /\ f.e # tp
  BY <1>0, <1>1, Acting, WorldParts, HandlesAssumption DEF Inv
<1>3. CASE PinFails(hdl[tp])
  <2>1. {"pinTopic", "unlock"} \subseteq UsePcs \ {"register"} /\ "unlock" \notin TopicPcs \cup {"pinTopic", "deferQos", "allowQos", "unpinTopic", "new"}
        /\ "pinTopic" \notin TopicPcs
    BY DEF UsePcs, TopicPcs
  <2>2. Settled(Goto(t, "unlock"), mutex) /\ World(Calls(Goto(t, "unlock")), hdl, life, children, implicit)
    BY <1>0, <1>1, <2>1, UseGoesQuietly
  <2>3. QED
    BY <1>0, <1>3, <2>2 DEF Inv
<1>4. CASE ~PinFails(hdl[tp])
  <2>1. hdl[tp].pins \in Int /\ hdl[tp].pins + 1 \in Int /\ Repinned(hdl, G, tp, hdl[tp].pins + 1)
    BY <1>0, <1>2, <1>4 DEF Handles, Handle, Repinned
  <2> HIDE DEF G, tp
  <2>2. /\ G \in Handles /\ G[tp].pins = hdl[tp].pins + 1
        /\ \A d \in Entities : /\ G[d].in = hdl[d].in /\ G[d].closing = hdl[d].closing
                               /\ G[d].deferred = hdl[d].deferred /\ G[d].refs = hdl[d].refs
                               /\ d # tp => G[d].pins = hdl[d].pins
    BY <1>2, <2>1, PinsChange
  <2>3. /\ \A d \in Entities : PinsAt(f, "deferQos", d) <=> d = f.e \/ d = tp
        /\ \A d \in Entities : PinsAt(f, "pinTopic", d) <=> d = f.e
    BY <1>1 DEF PinsAt, TopicPcs, tp
  <2>4. ASSUME NEW d \in Entities
        PROVE  G[d].pins = hdl[d].pins + One(PinsAt(f, "deferQos", d)) - One(PinsAt(f, "pinTopic", d))
    <3>1. hdl[d].pins \in Int
      BY <1>2 DEF Handles, Handle
    <3>2. CASE d = tp
      BY <1>2, <2>2, <2>3, <3>1, <3>2 DEF One
    <3>3. CASE d # tp
      <4>1. One(PinsAt(f, "deferQos", d)) = One(PinsAt(f, "pinTopic", d)) /\ One(PinsAt(f, "pinTopic", d)) \in Int
        BY <2>3, <3>3 DEF One
      <4>2. QED
        BY <2>2, <3>1, <3>3, <4>1
    <3>4. QED
      BY <3>2, <3>3
  <2>5. UseGoing(t, "pinTopic", "deferQos", G)
    <3>1. {"pinTopic", "deferQos"} \subseteq UsePcs \ {"register"}
      BY DEF UsePcs
    <3>2. \A d \in Entities : PinsAt(f, "deferQos", d) => PinsAt(f, "pinTopic", d) \/ ~PinFails(hdl[d])
      BY <1>4, <2>3
    <3>3. QED
      BY <1>1, <2>2, <2>4, <3>1, <3>2 DEF UseGoing, tp
  <2>6. Settled(Goto(t, "deferQos"), mutex) /\ World(Calls(Goto(t, "deferQos")), G, life, children, implicit)
    BY <1>0, <1>1, <2>2, <2>5, UseGoes
  <2>7. QED
    BY <1>0, <1>4, <2>6 DEF Inv, G
<1>5. QED
  BY <1>3, <1>4

LEMMA DeferSetQosInv ==
  ASSUME Inv, NEW t \in Threads, DeferSetQos(t)
  PROVE  Inv'
<1>0. Is(t, "deferQos") /\ UNCHANGED <<entityVars, envVars>>
  BY DEF DeferSetQos
<1>1. PICK pc \in {"new", "allowQos"} : stack' = Goto(t, pc)
  BY DEF DeferSetQos
<1>2. /\ mutex[Me(t).e] = t /\ KeepsLocks(mutex, mutex, t) /\ Me(t).new # None /\ TopicOf(Me(t).new) # None
      /\ life[Me(t).new] = "none"
  BY <1>0, UseFacts DEF Owning, TopicPcs
<1>3. {"deferQos", pc} \subseteq UsePcs \ {"register"} /\ pc \in TopicPcs /\ "deferQos" \in TopicPcs
  BY DEF UsePcs, TopicPcs
<1>4. Settled(Goto(t, pc), mutex) /\ World(Calls(Goto(t, pc)), hdl, life, children, implicit)
  BY <1>0, <1>2, <1>3, UseGoesQuietly
<1>5. QED
  BY <1>0, <1>1, <1>4 DEF Inv, entityVars, envVars

LEMMA AllowSetQosInv ==
  ASSUME Inv, NEW t \in Threads, AllowSetQos(t)
  PROVE  Inv'
<1> DEFINE sv == Goto(t, "unpinTopic")
<1>0. /\ Is(t, "allowQos") /\ UNCHANGED <<entityVars, envVars>>
      /\ stack' = sv \/ stack' = EntityBroadcast(sv, Root)
  BY DEF AllowSetQos
<1>2. /\ mutex[Me(t).e] = t /\ KeepsLocks(mutex, mutex, t) /\ Me(t).new # None /\ TopicOf(Me(t).new) # None
  BY <1>0, UseFacts DEF Owning, TopicPcs
<1>3. /\ {"allowQos", "unpinTopic"} \subseteq UsePcs \ {"register"} /\ "unpinTopic" \in TopicPcs /\ "allowQos" \in TopicPcs
      /\ "unpinTopic" \notin {"pinTopic", "deferQos", "new"}
  BY DEF UsePcs, TopicPcs
<1>4. Settled(sv, mutex) /\ World(Calls(sv), hdl, life, children, implicit) /\ sv \in Stacks
  BY <1>0, <1>2, <1>3, UseGoesQuietly
<1> HIDE DEF sv
<1>5. Settled(stack', mutex) /\ World(Calls(stack'), hdl, life, children, implicit)
  <2>1. CASE stack' = sv
    BY <1>4, <2>1
  <2>2. CASE stack' = EntityBroadcast(sv, Root)
    <3>1. Awoken(sv, stack')
      BY <1>4, <2>2, EntityBroadcastWakes
    <3>2. QED
      BY <1>4, <3>1, AwokenSettled, AwokenWorld
  <2>3. QED
    BY <1>0, <2>1, <2>2
<1>6. QED
  BY <1>0, <1>5 DEF Inv, entityVars, envVars

LEMMA UnpinTopicInv ==
  ASSUME Inv, NEW t \in Threads, UnpinTopic(t)
  PROVE  Inv'
<1> DEFINE f == Me(t)
           tp == TopicOf(f.new)
           G == hdl'
           h == [hdl[tp] EXCEPT !.pins = @ - 1]
           sv == Goto(t, "unlock")
<1>0. /\ Is(t, "unpinTopic") /\ life' = life /\ children' = children /\ mutex' = mutex /\ implicit' = implicit
      /\ G = [hdl EXCEPT ![tp] = h] /\ stack' = HandleBroadcast(sv, h)
  BY DEF UnpinTopic, Unpin, envVars
<1>1. /\ mutex[f.e] = t /\ KeepsLocks(mutex, mutex, t) /\ f.e \notin Topics /\ f.new # None /\ tp # None /\ tp \in Topics
  BY <1>0, UseFacts DEF Owning, TopicPcs
<1>2. tp \in Entities /\ hdl \in Handles /\ f.e \in Entities /\ f.e # tp
  BY <1>0, <1>1, Acting, WorldParts, HandlesAssumption DEF Inv
<1>3. hdl[tp].pins \in Int /\ hdl[tp].pins - 1 \in Int /\ Repinned(hdl, G, tp, hdl[tp].pins - 1)
  BY <1>0, <1>2 DEF Handles, Handle, Repinned
<1> HIDE DEF G, tp, h
<1>4. /\ G \in Handles /\ G[tp].pins = hdl[tp].pins - 1
      /\ \A d \in Entities : /\ G[d].in = hdl[d].in /\ G[d].closing = hdl[d].closing
                             /\ G[d].deferred = hdl[d].deferred /\ G[d].refs = hdl[d].refs
                             /\ d # tp => G[d].pins = hdl[d].pins
  BY <1>2, <1>3, PinsChange
<1>5. /\ \A d \in Entities : PinsAt(f, "unpinTopic", d) <=> d = f.e \/ d = tp
      /\ \A d \in Entities : PinsAt(f, "unlock", d) <=> d = f.e
  BY <1>1 DEF PinsAt, TopicPcs, tp
<1>6. ASSUME NEW d \in Entities
      PROVE  G[d].pins = hdl[d].pins + One(PinsAt(f, "unlock", d)) - One(PinsAt(f, "unpinTopic", d))
  <2>1. hdl[d].pins \in Int
    BY <1>2 DEF Handles, Handle
  <2>2. CASE d = tp
    BY <1>2, <1>4, <1>5, <2>1, <2>2 DEF One
  <2>3. CASE d # tp
    <3>1. One(PinsAt(f, "unlock", d)) = One(PinsAt(f, "unpinTopic", d)) /\ One(PinsAt(f, "unpinTopic", d)) \in Int
      BY <1>5, <2>3 DEF One
    <3>2. QED
      BY <1>4, <2>1, <2>3, <3>1
  <2>4. QED
    BY <2>2, <2>3
<1>7. UseGoing(t, "unpinTopic", "unlock", G)
  <2>1. /\ {"unpinTopic", "unlock"} \subseteq UsePcs \ {"register"}
        /\ "unlock" \notin TopicPcs \cup {"pinTopic", "deferQos", "allowQos", "unpinTopic", "new"}
    BY DEF UsePcs, TopicPcs
  <2>2. \A d \in Entities : PinsAt(f, "unlock", d) => PinsAt(f, "unpinTopic", d)
    BY <1>5
  <2>3. QED
    BY <1>4, <1>6, <2>1, <2>2 DEF UseGoing
<1>8. Settled(sv, mutex) /\ World(Calls(sv), G, life, children, implicit) /\ sv \in Stacks
  BY <1>0, <1>1, <1>4, <1>7, UseGoes
<1> HIDE DEF sv
<1>9. Awoken(sv, stack')
  BY <1>0, <1>8, HandleBroadcastWakes
<1>10. Settled(stack', mutex) /\ World(Calls(stack'), G, life, children, implicit)
  BY <1>8, <1>9, AwokenSettled, AwokenWorld
<1>11. QED
  BY <1>0, <1>10 DEF Inv, G

LEMMA UseEndInv ==
  ASSUME Inv, NEW t \in Threads, UseEnd(t)
  PROVE  Inv'
<1> DEFINE f == Me(t)
           e == f.e
           x == Top(stack, t)
           G == hdl'
           h == [hdl[e] EXCEPT !.pins = @ - 1]
           sv == Return(t)
           C == Calls(stack)
           D == Calls(sv)
<1>0. /\ Is(t, "unpin") /\ life' = life /\ children' = children /\ mutex' = mutex /\ implicit' = implicit
      /\ G = [hdl EXCEPT ![e] = h] /\ stack' = HandleBroadcast(sv, h)
  BY DEF UseEnd, Unpin, envVars
<1>1. /\ x \in Slots /\ C[x] = f /\ f.pc = "unpin" /\ f \in Call /\ e \in Entities
      /\ Proper(f, implicit) /\ stack[t] # <<>> /\ f = Head(stack[t]) /\ stack \in Stacks
  BY <1>0, Acting
<1>2. Settled(stack, mutex) /\ World(C, hdl, life, children, implicit) /\ hdl \in Handles /\ KeepsLocks(mutex, mutex, t)
  BY WorldParts DEF Inv, KeepsLocks
<1>3. Popped(stack, sv, t)
  BY <1>1 DEF Popped, Return, Stacks
<1>4. hdl[e].pins \in Int /\ hdl[e].pins - 1 \in Int /\ Repinned(hdl, G, e, hdl[e].pins - 1)
  BY <1>0, <1>1, <1>2 DEF Handles, Handle, Repinned
<1> HIDE DEF sv, h, G, e
<1>5. Settled(sv, mutex) /\ Changed(C, D, x) /\ D[x] = Gone /\ D \in CallMaps /\ sv \in Stacks
  BY <1>1, <1>2, <1>3, Returns DEF Settled
<1>6. /\ G \in Handles /\ G[e].pins = hdl[e].pins - 1
      /\ \A d \in Entities : /\ G[d].in = hdl[d].in /\ G[d].closing = hdl[d].closing
                             /\ G[d].deferred = hdl[d].deferred /\ G[d].refs = hdl[d].refs
                             /\ d # e => G[d].pins = hdl[d].pins
  BY <1>1, <1>2, <1>4, PinsChange
<1>7. (\A d \in Entities : ~PinsIt(Gone, d)) /\ \A d \in Entities : PinsIt(f, d) <=> d = e
  <2>1. \A d \in Entities : ~PinsIt(Gone, d)
    BY DEF PinsIt, Gone
  <2>2. ~f.up
    BY <1>1 DEF Proper, UsePcs
  <2>3. \A d \in Entities : PinsIt(f, d) <=> d = e
    BY <1>1, <2>2 DEF PinsIt, TopicPcs, e
  <2>4. QED
    BY <2>1, <2>3
<1>8. UsePinChange(C, D, x, hdl, G, life)
  <2>1. C[x].pc \in UseStages /\ D[x].pc \in UseStages /\ D[x].pc \notin {"pinTopic", "deferQos", "new"}
    BY <1>1, <1>5 DEF Gone, UseStages, UsePcs
  <2>2. \A d \in Entities : PinsIt(D[x], d) => PinsIt(C[x], d) \/ ~PinFails(hdl[d])
    BY <1>5, <1>7
  <2>3. ASSUME NEW d \in Entities
        PROVE  G[d].pins = hdl[d].pins + One(PinsIt(D[x], d)) - One(PinsIt(C[x], d))
    <3>1. hdl[d].pins \in Int
      BY <1>2 DEF Handles, Handle
    <3>2. One(PinsIt(D[x], d)) = 0 /\ One(PinsIt(C[x], d)) = IF d = e THEN 1 ELSE 0
      BY <1>1, <1>5, <1>7 DEF One
    <3>3. QED
      BY <1>6, <3>1, <3>2
  <2>4. QED
    BY <1>6, <2>1, <2>2, <2>3 DEF UsePinChange
<1>9. Proper(D[x], implicit)
  BY <1>5 DEF Proper, Gone, UsePcs, TopicPcs
<1> HIDE DEF C, D, x
<1>10. World(D, G, life, children, implicit)
  BY <1>1, <1>2, <1>5, <1>6, <1>8, <1>9, UsePin
<1>11. Awoken(sv, stack')
  BY <1>0, <1>5, HandleBroadcastWakes
<1>12. Settled(stack', mutex) /\ World(Calls(stack'), G, life, children, implicit)
  BY <1>5, <1>10, <1>11, AwokenSettled, AwokenWorld DEF D
<1>13. QED
  BY <1>0, <1>12 DEF Inv, G

LEMMA NewEntityInv ==
  ASSUME Inv, NEW t \in Threads, NewEntity(t)
  PROVE  Inv'
<1> DEFINE f == Me(t)
           c == f.new
           tp == TopicOf(c)
           x == Top(stack, t)
           G == hdl'
           M == life'
           sv == Goto(t, "register")
           C == Calls(stack)
           D == Calls(sv)
<1>0. /\ Is(t, "new") /\ M = [life EXCEPT ![c] = "alive"]
      /\ G = [e \in Entities |-> CASE e = c -> NewHandle(c)
                                   [] e = tp -> [hdl[tp] EXCEPT !.refs = @ + 1]
                                   [] OTHER -> hdl[e]]
      /\ stack' = sv /\ children' = children /\ mutex' = mutex /\ implicit' = implicit
  BY DEF NewEntity, envVars
<1>1. mutex[f.e] = t /\ KeepsLocks(mutex, mutex, t) /\ c # None /\ c \in Entities
  BY <1>0, UseFacts DEF Owning, TopicPcs
<1>2. x \in Slots /\ C[x] = f /\ f.pc = "new" /\ stack[t] # <<>> /\ f = Head(stack[t])
  BY <1>0, Acting
<1>3. /\ World(C, hdl, life, children, implicit) /\ hdl \in Handles /\ life \in Lives /\ Settled(stack, mutex)
  BY WorldParts DEF Inv
<1>4. GoneTo(t, "register", sv, mutex)
  BY <1>0, <1>1, Goes DEF Pcs, UsePcs, Owning
<1> HIDE DEF sv
<1>5. /\ Settled(sv, mutex) /\ Changed(C, D, x) /\ D \in CallMaps /\ MovedTo(C[x], D[x], "register")
  BY <1>4 DEF GoneTo
<1>6. Sole(C, x)
  BY <1>2, <1>3, SoleLock DEF Owning
<1>7. M \in Lives /\ M[c] = "alive" /\ \A d \in Entities : d # c => M[d] = life[d]
  BY <1>0, <1>1, <1>3 DEF Lives
<1>8. /\ NewHandle(c) \in Handle /\ NewHandle(c).in /\ ~NewHandle(c).closing /\ ~NewHandle(c).deferred
      /\ NewHandle(c).pins = 1 /\ NewHandle(c).refs = One(c \notin implicit)
  <2> DEFINE n == IF c \in implicit THEN 0 ELSE 1
  <2> DEFINE a == [NoHandle EXCEPT !.in = TRUE]
             b == [a EXCEPT !.pending = TRUE]
             k == [b EXCEPT !.pins = 1]
             l == [k EXCEPT !.refs = n]
  <2>1. NewHandle(c) = l
    BY DEF NewHandle
  <2>2. NoHandle \in Handle /\ ~NoHandle.closing /\ ~NoHandle.deferred
    BY DEF NoHandle, Handle
  <2>3. a \in Handle /\ a.in /\ ~a.closing /\ ~a.deferred
    BY <2>2 DEF Handle
  <2> HIDE DEF a
  <2>4. b \in Handle /\ b.in /\ ~b.closing /\ ~b.deferred
    BY <2>3 DEF Handle
  <2> HIDE DEF b
  <2>5. k \in Handle /\ k.in /\ ~k.closing /\ ~k.deferred /\ k.pins = 1
    BY <2>4 DEF Handle
  <2> HIDE DEF k
  <2>6. n \in Int /\ n = One(c \notin implicit)
    BY DEF One
  <2> HIDE DEF n
  <2>7. l \in Handle /\ l.in /\ ~l.closing /\ ~l.deferred /\ l.pins = 1 /\ l.refs = n
    BY <2>5, <2>6 DEF Handle
  <2> HIDE DEF l
  <2>8. QED
    BY <2>1, <2>6, <2>7
<1>9. ASSUME NEW d \in Entities, d # c
      PROVE  /\ G[d] \in Handle /\ G[d].in = hdl[d].in /\ G[d].closing = hdl[d].closing
             /\ G[d].deferred = hdl[d].deferred /\ G[d].pins = hdl[d].pins
             /\ G[d].refs = hdl[d].refs + One(d = TopicOf(c))
  <2>1. hdl[d] \in Handle
    BY <1>3 DEF Handles
  <2>2. CASE d = tp
    <3>1. G[d] = [hdl[d] EXCEPT !.refs = hdl[d].refs + 1]
      BY <1>0, <1>9, <2>2
    <3>2. One(d = TopicOf(c)) = 1
      BY <2>2 DEF One
    <3> HIDE DEF G
    <3>3. QED
      BY <2>1, <3>1, <3>2 DEF Handle
  <2>3. CASE d # tp
    <3>1. G[d] = hdl[d]
      BY <1>0, <1>9, <2>3
    <3>2. One(d = TopicOf(c)) = 0
      BY <2>3 DEF One
    <3> HIDE DEF G
    <3>3. QED
      BY <2>1, <3>1, <3>2 DEF Handle
  <2>4. QED
    BY <2>2, <2>3
<1>10. G[c] = NewHandle(c)
  <2>1. c # tp
    BY <1>1, HandlesAssumption
  <2>2. QED
    BY <1>0, <1>1, <2>1
<1>11. G \in Handles
  <2>1. \A d \in Entities : G[d] \in Handle
    BY <1>8, <1>9, <1>10
  <2>2. G = [e \in Entities |-> G[e]]
    BY <1>0
  <2> HIDE DEF G
  <2>3. QED
    BY <2>1, <2>2 DEF Handles
<1>12. G[c].in /\ ~G[c].closing /\ ~G[c].deferred /\ G[c].pins = 1 /\ G[c].refs = One(c \notin implicit)
  BY <1>8, <1>10
<1>13. C[x].pc = "new" /\ c = C[x].new
  BY <1>2
<1> HIDE DEF f, c, x, G, M, C, D
<1>14. World(D, G, M, children, implicit)
  BY <1>2, <1>3, <1>5, <1>6, <1>7, <1>9, <1>11, <1>12, <1>13, Created
<1>15. QED
  BY <1>0, <1>5, <1>14 DEF Inv, G, M, D

LEMMA RegisterChildInv ==
  ASSUME Inv, NEW t \in Threads, RegisterChild(t)
  PROVE  Inv'
<1> DEFINE f == Me(t)
           c == f.new
           e == f.e
           pc == IF TopicOf(c) = None THEN "unlock" ELSE "allowQos"
           x == Top(stack, t)
           G == hdl'
           J == children'
           sv == Goto(t, pc)
           C == Calls(stack)
           D == Calls(sv)
<1>0. /\ Is(t, "register") /\ J = [children EXCEPT ![e] = @ \cup {c}]
      /\ G = [hdl EXCEPT ![e].refs = @ + 1, ![c].pending = FALSE, ![c].pins = @ - 1]
      /\ stack' = sv /\ life' = life /\ mutex' = mutex /\ implicit' = implicit
  BY DEF RegisterChild, envVars
<1>1. mutex[f.e] = t /\ KeepsLocks(mutex, mutex, t) /\ c # None /\ c \in Entities
  BY <1>0, UseFacts DEF Owning, TopicPcs
<1>2. x \in Slots /\ C[x] = f /\ f.pc = "register" /\ stack[t] # <<>> /\ f = Head(stack[t]) /\ e \in Entities /\ Proper(f, implicit)
  BY <1>0, Acting
<1>3. /\ World(C, hdl, life, children, implicit) /\ hdl \in Handles /\ children \in Trees /\ Settled(stack, mutex)
  BY WorldParts DEF Inv
<1>4. c # e
  <2>1. Parent(c) = e
    BY <1>1, <1>2 DEF Proper, UsePcs
  <2>2. QED
    BY <1>1, <2>1, HandlesAssumption
<1>5. GoneTo(t, pc, sv, mutex)
  <2>1. pc \in Pcs /\ pc # "closeParent" /\ "register" \in UsePcs
    BY DEF Pcs, UsePcs
  <2> HIDE DEF pc
  <2>2. QED
    BY <1>0, <1>1, <2>1, Goes
<1> HIDE DEF sv
<1>6. /\ Settled(sv, mutex) /\ Changed(C, D, x) /\ D \in CallMaps /\ MovedTo(C[x], D[x], pc)
  BY <1>5 DEF GoneTo
<1>7. Sole(C, x)
  BY <1>2, <1>3, SoleLock DEF Owning
<1>8. J \in Trees /\ J[e] = children[e] \cup {c} /\ \A d \in Entities : d # e => J[d] = children[d]
  BY <1>0, <1>1, <1>2, <1>3 DEF Trees
<1>9. /\ G \in Handles /\ \A d \in Entities : /\ G[d].in = hdl[d].in /\ G[d].closing = hdl[d].closing
                                              /\ G[d].deferred = hdl[d].deferred
      /\ \A d \in Entities : G[d].refs = hdl[d].refs + One(d = e) /\ G[d].pins = hdl[d].pins - One(d = c)
  <2> DEFINE a == [hdl[e] EXCEPT !.refs = hdl[e].refs + 1]
             b == [hdl[c] EXCEPT !.pending = FALSE]
             k == [b EXCEPT !.pins = b.pins - 1]
             B == [hdl EXCEPT ![e] = a]
  <2>1. hdl[e] \in Handle /\ hdl[c] \in Handle
    BY <1>1, <1>2, <1>3 DEF Handles
  <2>2. /\ a \in Handle /\ a.in = hdl[e].in /\ a.closing = hdl[e].closing /\ a.deferred = hdl[e].deferred
        /\ a.pins = hdl[e].pins /\ a.refs = hdl[e].refs + 1
    BY <2>1 DEF Handle
  <2>3. /\ b \in Handle /\ b.in = hdl[c].in /\ b.closing = hdl[c].closing /\ b.deferred = hdl[c].deferred
        /\ b.pins = hdl[c].pins /\ b.refs = hdl[c].refs
    BY <2>1 DEF Handle
  <2>4. G = [B EXCEPT ![c] = k]
    <3>1. B \in [Entities -> Handle] /\ B[c] = hdl[c]
      BY <1>1, <1>2, <1>3, <1>4, <2>2 DEF Handles
    <3>2. G = [[B EXCEPT ![c].pending = FALSE] EXCEPT ![c].pins = @ - 1]
      BY <1>0
    <3> HIDE DEF B, G, c
    <3>3. [B EXCEPT ![c].pending = FALSE] = [B EXCEPT ![c] = b]
      BY <3>1
    <3> DEFINE A == [B EXCEPT ![c] = b]
    <3>4. A[c] = b /\ A \in [Entities -> Handle]
      BY <1>1, <2>3, <3>1
    <3>5. G = [A EXCEPT ![c] = [A[c] EXCEPT !.pins = A[c].pins - 1]]
      BY <3>2, <3>3
    <3> HIDE DEF b
    <3>6. G = [A EXCEPT ![c] = k]
      BY <3>4, <3>5
    <3> HIDE DEF k
    <3>7. QED
      BY <3>1, <3>6
  <2> HIDE DEF a, b
  <2>5. /\ k \in Handle /\ k.in = b.in /\ k.closing = b.closing /\ k.deferred = b.deferred
        /\ k.refs = b.refs /\ k.pins = b.pins - 1
    BY <2>3 DEF Handle
  <2> HIDE DEF k, G, c, e
  <2>6. G \in Handles /\ G[e] = a /\ G[c] = k /\ \A d \in Entities : d # e /\ d # c => G[d] = hdl[d]
    BY <1>1, <1>2, <1>3, <1>4, <2>2, <2>4, <2>5 DEF Handles
  <2>7. ASSUME NEW d \in Entities
        PROVE  /\ G[d].in = hdl[d].in /\ G[d].closing = hdl[d].closing /\ G[d].deferred = hdl[d].deferred
               /\ G[d].refs = hdl[d].refs + One(d = e) /\ G[d].pins = hdl[d].pins - One(d = c)
    <3>1. hdl[d].refs \in Int /\ hdl[d].pins \in Int
      BY <1>3 DEF Handles, Handle
    <3>2. CASE d = e
      BY <1>4, <2>2, <2>6, <3>1, <3>2 DEF One
    <3>3. CASE d = c
      BY <1>4, <2>3, <2>5, <2>6, <3>1, <3>3 DEF One
    <3>4. CASE d # e /\ d # c
      BY <2>6, <3>1, <3>4 DEF One
    <3>5. QED
      BY <3>2, <3>3, <3>4
  <2>8. QED
    BY <2>6, <2>7
<1>10. C[x].pc = "register" /\ c = C[x].new /\ e = C[x].e
  BY <1>2
<1>11. /\ MovedTo(C[x], D[x], IF TopicOf(c) = None THEN "unlock" ELSE "allowQos")
       /\ ChildCounted(hdl, G, children, J, e, c) /\ G \in Handles /\ J \in Trees
  BY <1>6, <1>8, <1>9 DEF ChildCounted
<1> HIDE DEF f, c, e, x, G, J, C, D
<1>12. World(D, G, life, J, implicit)
  BY <1>2, <1>3, <1>6, <1>7, <1>10, <1>11, Registered
<1>13. QED
  BY <1>0, <1>6, <1>12 DEF Inv, G, J, D
-----------------------------------------------------------------------------
(* The theorem *)

LEMMA InvInit ==
  ASSUME Init
  PROVE  Inv
<1> DEFINE C == Calls(stack)
<1>0. PICK s \in Scenarios : InitFrom(s)
  BY DEF Init
<1> DEFINE X == s.exist
           A(e) == {c \in X : Parent(c) = e}
           B(e) == {c \in X : TopicOf(c) = e}
           Q(e) == {c \in X : Parent(c) = e \/ TopicOf(c) = e}
           n(e) == (IF e \in implicit THEN 0 ELSE 1) + Cardinality(Q(e))
           a(e) == [NoHandle EXCEPT !.in = TRUE]
           b(e) == [a(e) EXCEPT !.refs = n(e)]
<1>1. /\ implicit = s.implicit
      /\ life = [e \in Entities |-> IF e \in X THEN "alive" ELSE "none"]
      /\ children = [e \in Entities |-> A(e)]
      /\ hdl = [e \in Entities |-> IF e \notin X THEN NoHandle ELSE b(e)]
      /\ mutex = [e \in Entities |-> Nobody] /\ stack = [t \in Threads |-> <<>>]
  BY <1>0 DEF InitFrom
<1>2. /\ X \in SUBSET Entities /\ implicit \in SUBSET Entities /\ IsFiniteSet(Entities) /\ None \notin Entities
      /\ \A e \in X : {Parent(e), TopicOf(e)} \subseteq X \cup {None}
      /\ \A e \in Entities : /\ TopicOf(e) \in Topics \cup {None} /\ Parent(e) \notin Topics
                             /\ (Parent(e) = None) <=> (e = Root)
  BY <1>1, HandlesAssumption
<1>3. mutex \in [Entities -> Threads \cup {Nobody}]
  BY <1>1
<1>4. Settled(stack, mutex)
  <2>0. stack = [t \in Threads |-> <<>>] /\ <<>> \in Seq(Call) /\ Len(<<>>) = 0
    <3>1. stack = [t \in Threads |-> <<>>]
      BY <1>1, Zenon
    <3>2. <<>> \in Seq(Call) /\ Len(<<>>) = 0
      OBVIOUS
    <3>3. QED
      BY <3>1, <3>2
  <2>1. stack \in Stacks
    BY <2>0 DEF Stacks
  <2>2. \A t \in Threads : stack[t] = <<>> /\ 1 .. Len(stack[t]) = {}
    BY <2>0
  <2>3. QED
    BY <2>1, <2>2 DEF Settled, Shape, Locks
<1>5. C \in CallMaps /\ \A x \in Slots : C[x] = Gone
  <2>1. C \in CallMaps
    BY <1>4, CallsType DEF Settled
  <2>2. ASSUME NEW x \in Slots PROVE C[x] = Gone
    <3>1. PICK u \in Threads, d \in Nat \ {0} : x = <<u, d>>
      BY DEF Slots
    <3>2. Len(stack[u]) = 0
      BY <1>1
    <3>3. QED
      BY <3>1, <3>2 DEF Calls, CallAt
  <2>3. QED
    BY <2>1, <2>2
<1> HIDE DEF C, X
<1>6. ASSUME NEW e \in Entities
      PROVE  /\ A(e) \in SUBSET Entities /\ B(e) \in SUBSET Entities /\ Cardinality(A(e)) \in Nat /\ Cardinality(B(e)) \in Nat
             /\ Cardinality(Q(e)) = Cardinality(A(e)) + Cardinality(B(e))
  <2>1. A(e) \in SUBSET Entities /\ B(e) \in SUBSET Entities
    BY <1>2
  <2>2. IsFiniteSet(A(e)) /\ IsFiniteSet(B(e))
    BY <1>2, <2>1, FS_Subset
  <2>3. Q(e) = A(e) \cup B(e)
    OBVIOUS
  <2>4. A(e) \cap B(e) = {}
    <3>1. ASSUME NEW c, c \in A(e), c \in B(e) PROVE FALSE
      <4>1. c \in Entities /\ Parent(c) = e /\ TopicOf(c) = e
        BY <1>2, <3>1
      <4>2. QED
        BY <1>2, <4>1
    <3>2. QED
      BY <3>1
  <2> HIDE DEF A, B, Q
  <2>5. Cardinality(A(e) \cup B(e)) = Cardinality(A(e)) + Cardinality(B(e)) - Cardinality(A(e) \cap B(e))
    BY <2>2, FS_Union
  <2>6. Cardinality(A(e)) \in Nat /\ Cardinality(B(e)) \in Nat /\ Cardinality(A(e) \cap B(e)) = 0
    BY <2>2, <2>4, FS_CardinalityType, FS_EmptySet
  <2>7. QED
    BY <2>1, <2>3, <2>5, <2>6
<1>7. NoHandle \in Handle /\ ~NoHandle.in /\ ~NoHandle.closing /\ ~NoHandle.deferred /\ NoHandle.pins = 0
  BY DEF NoHandle, Handle
<1>8. ASSUME NEW e \in Entities
      PROVE  /\ b(e) \in Handle /\ b(e).in /\ ~b(e).closing /\ ~b(e).deferred /\ b(e).pins = 0
             /\ b(e).refs = (IF e \in implicit THEN 0 ELSE 1) + Cardinality(A(e)) + Cardinality(B(e))
  <2>1. n(e) \in Int /\ n(e) = (IF e \in implicit THEN 0 ELSE 1) + Cardinality(A(e)) + Cardinality(B(e))
    <3>1. Cardinality(Q(e)) = Cardinality(A(e)) + Cardinality(B(e)) /\ Cardinality(A(e)) \in Nat /\ Cardinality(B(e)) \in Nat
      BY <1>6
    <3> HIDE DEF A, B, Q
    <3>2. QED
      BY <3>1
  <2>2. a(e) \in Handle /\ a(e).in /\ ~a(e).closing /\ ~a(e).deferred /\ a(e).pins = 0
    BY <1>7 DEF Handle
  <2> HIDE DEF n, a, A, B
  <2>3. b(e) \in Handle /\ b(e).in /\ ~b(e).closing /\ ~b(e).deferred /\ b(e).pins = 0 /\ b(e).refs = n(e)
    BY <2>1, <2>2 DEF Handle
  <2> HIDE DEF b
  <2>4. QED
    BY <2>1, <2>3
<1> HIDE DEF n, a, b
<1>9. hdl \in Handles /\ life \in Lives /\ children \in Trees
  <2>1. hdl \in Handles
    BY <1>1, <1>7, <1>8 DEF Handles
  <2>2. life \in Lives
    BY <1>1 DEF Lives
  <2>3. children \in Trees
    BY <1>1, <1>6 DEF Trees
  <2>4. QED
    BY <2>1, <2>2, <2>3
<1>10. ASSUME NEW e \in Entities
       PROVE  /\ hdl[e].in <=> e \in X
              /\ ~hdl[e].closing /\ ~hdl[e].deferred /\ hdl[e].pins = 0
              /\ life[e] = (IF e \in X THEN "alive" ELSE "none") /\ children[e] = A(e)
              /\ e \in X => hdl[e].refs = (IF e \in implicit THEN 0 ELSE 1) + Cardinality(A(e)) + Cardinality(B(e))
  <2>1. /\ hdl[e] = (IF e \notin X THEN NoHandle ELSE b(e))
        /\ life[e] = (IF e \in X THEN "alive" ELSE "none") /\ children[e] = A(e)
    BY <1>1
  <2>2. CASE e \in X
    BY <1>8, <2>1, <2>2
  <2>3. CASE e \notin X
    BY <1>7, <2>1, <2>3
  <2>4. QED
    BY <2>2, <2>3
<1>11. \A d : ~PinsIt(Gone, d)
  BY DEF PinsIt, Gone
<1>12. /\ Few(C) /\ AllProper(C, implicit) /\ PinnedAlive(C, life) /\ Alone(C) /\ Shut(C, hdl) /\ Listed(C, hdl) /\ Fresh(C, life)
  <2>1. Few(C)
    <3>1. {x \in Slots : C[x].pc # "gone"} = {}
      BY <1>5 DEF Gone
    <3>2. QED
      BY <3>1, FS_EmptySet DEF Few
  <2>2. AllProper(C, implicit)
    <3>1. Proper(Gone, implicit)
      BY DEF Proper, Gone, UsePcs, TopicPcs
    <3>2. QED
      BY <1>5, <3>1 DEF AllProper
  <2>3. PinnedAlive(C, life) /\ Alone(C)
    BY <1>5, <1>11 DEF PinnedAlive, Alone
  <2>4. Gone.pc \notin {"pinTopic", "deferQos", "new", "closeParent"} \cup Early \cup Mid \cup Late /\ ~Gone.up
    BY DEF Gone, Early, Mid, Late
  <2>5. Shut(C, hdl) /\ Listed(C, hdl) /\ Fresh(C, life)
    BY <1>5, <2>4 DEF Shut, Listed, Fresh
  <2>6. QED
    BY <2>1, <2>2, <2>3, <2>5
<1>13. Existing(hdl, life)
  <2>1. ASSUME NEW e \in Entities
        PROVE  /\ hdl[e].in => life[e] = "alive"
               /\ life[e] # "none" => /\ hdl[e].in \/ hdl[e].closing
                                      /\ TopicOf(e) # None => life[TopicOf(e)] # "none"
                                      /\ e # Root => life[Parent(e)] # "none"
    <3>1. e \in X => (TopicOf(e) # None => TopicOf(e) \in X) /\ (e # Root => Parent(e) \in X)
      BY <1>2
    <3>2. \A d \in X : d \in Entities /\ life[d] # "none"
      BY <1>2, <1>10
    <3>3. QED
      BY <1>10, <3>1, <3>2
  <2>2. QED
    BY <2>1 DEF Existing
<1>14. Kin(C, life, children)
  <2>1. \A c : ~Outside(Gone, c)
    BY DEF Outside, Gone, Left
  <2>2. ASSUME NEW p \in Entities, NEW c \in Entities
        PROVE  c \in children[p] <=> Parent(c) = p /\ life[c] = "alive" /\ \A x \in Slots : ~Outside(C[x], c)
    <3>1. children[p] = {d \in X : Parent(d) = p} /\ (life[c] = "alive" <=> c \in X)
      BY <1>10
    <3>2. \A x \in Slots : ~Outside(C[x], c)
      BY <1>5, <2>1
    <3>3. QED
      BY <3>1, <3>2
  <2>3. QED
    BY <2>2 DEF Kin
<1>15. RefsExact(C, hdl, life, children, implicit)
  <2>1. ASSUME NEW e \in Entities, hdl[e].in
        PROVE  hdl[e].refs = (IF e \in implicit \/ hdl[e].closing \/ hdl[e].deferred THEN 0 ELSE 1)
                + Cardinality(children[e]) + Cardinality({r \in Entities : RefersIn(C, life, r, e)})
    <3>1. \A r \in Entities : RefersIn(C, life, r, e) <=> TopicOf(r) = e /\ r \in X
      <4>1. \A r \in Entities : life[r] = "alive" <=> r \in X
        BY <1>10
      <4>2. \A x \in Slots : C[x].pc \notin {"deleteTopic", "free"}
        BY <1>5 DEF Gone
      <4>3. QED
        BY <4>1, <4>2 DEF RefersIn
    <3>2. {r \in Entities : RefersIn(C, life, r, e)} = B(e)
      BY <1>2, <3>1
    <3> HIDE DEF A, B
    <3>3. QED
      BY <1>10, <2>1, <3>2
  <2>2. QED
    BY <2>1 DEF RefsExact
<1>16. PinsExact(C, hdl)
  <2>1. ASSUME NEW e \in Entities PROVE PinnersIn(C, e) = {}
    BY <1>5, <1>11 DEF PinnersIn
  <2>2. QED
    BY <1>10, <2>1, FS_EmptySet DEF PinsExact
<1>17. QED
  BY <1>2, <1>3, <1>4, <1>5, <1>9, <1>12, <1>13, <1>14, <1>15, <1>16 DEF Inv, World, Sound, C

LEMMA InvNext ==
  ASSUME Inv, [Next]_vars
  PROVE  Inv'
<1>1. CASE UNCHANGED vars
  BY <1>1 DEF vars, entityVars, envVars, Inv
<1>2. ASSUME NEW t \in Threads, Continue(t) PROVE Inv'
  BY <1>2, DeletePinInv, InterruptInv, CloseWaitInv, CloseInv, NextChildInv, ChildReturnedInv, HandleDeleteInv,
     LeaveParentInv, CloseParentInv, DropTopicInv, DeleteTopicInv, FreeInv, UseLockInv, PinTopicInv, DeferSetQosInv,
     NewEntityInv, RegisterChildInv, AllowSetQosInv, UnpinTopicInv, UnlockInv, UseEndInv DEF Continue
<1>3. ASSUME NEW t \in Threads, NEW e \in Entities, DeleteBegin(t, e) \/ UseBegin(t, e) PROVE Inv'
  BY <1>3, DeleteBeginInv, UseBeginInv
<1>4. QED
  BY <1>1, <1>2, <1>3 DEF Next

\* The calls as CountsExact sees them.
LEMMA FramesAreCalls ==
  ASSUME stack \in Stacks
  PROVE  /\ Frames = {x \in Slots : Calls(stack)[x].pc # "gone"}
         /\ \A x \in Frames : x \in Slots /\ Frame(x) = Calls(stack)[x]
<1>1. ASSUME NEW t \in Threads, NEW d \in Nat \ {0}
      PROVE  /\ <<t, d>> \in Slots
             /\ d \in 1 .. Len(stack[t]) => Calls(stack)[<<t, d>>] = Frame(<<t, d>>) /\ Frame(<<t, d>>) \in Call
             /\ d \notin 1 .. Len(stack[t]) => Calls(stack)[<<t, d>>] = Gone
  <2>1. <<t, d>> \in Slots
    BY DEF Slots
  <2>2. stack[t] \in Seq(Call)
    BY DEF Stacks
  <2>3. Len(stack[t]) \in Nat /\ (d \in 1 .. Len(stack[t]) <=> d <= Len(stack[t]))
    BY <2>2
  <2>4. d <= Len(stack[t]) => stack[t][Len(stack[t]) + 1 - d] \in Call
    BY <2>2
  <2>5. Calls(stack)[<<t, d>>] = IF d <= Len(stack[t]) THEN stack[t][Len(stack[t]) + 1 - d] ELSE Gone
    BY <2>1 DEF Calls, CallAt
  <2>6. QED
    BY <2>1, <2>3, <2>4, <2>5 DEF Frame
<1>2. \A f \in Call : f.pc # "gone"
  BY DEF Call, Pcs, Early, Mid, Late, UsePcs
<1>3. ASSUME NEW x \in Frames PROVE x \in Slots /\ Calls(stack)[x].pc # "gone" /\ Frame(x) = Calls(stack)[x]
  <2>1. PICK t \in Threads : x \in {t} \X (1 .. Len(stack[t]))
    BY DEF Frames
  <2>2. PICK d \in 1 .. Len(stack[t]) : x = <<t, d>>
    BY <2>1
  <2>3. d \in Nat \ {0}
    BY <2>2 DEF Stacks
  <2>4. QED
    BY <1>1, <1>2, <2>2, <2>3
<1>4. ASSUME NEW x \in Slots, Calls(stack)[x].pc # "gone" PROVE x \in Frames
  <2>1. PICK t \in Threads, d \in Nat \ {0} : x = <<t, d>>
    BY DEF Slots
  <2>2. d \in 1 .. Len(stack[t])
    BY <1>1, <1>4, <2>1 DEF Gone
  <2>3. QED
    BY <2>1, <2>2 DEF Frames
<1>5. QED
  BY <1>3, <1>4

\* The calls that have an entity pinned.
LEMMA PinnersAre ==
  ASSUME Inv
  PROVE  \A e \in Entities : Pinners(e) = PinnersIn(Calls(stack), e)
<1> DEFINE C == Calls(stack)
<1>1. /\ stack \in Stacks /\ RefsExact(C, hdl, life, children, implicit) /\ PinsExact(C, hdl) /\ C \in CallMaps
  BY WorldParts DEF Inv, Settled
<1>2. /\ Frames = {x \in Slots : C[x].pc # "gone"}
      /\ \A x \in Frames : x \in Slots /\ Frame(x) = C[x]
  BY <1>1, FramesAreCalls
<1>3. \A x \in Slots : x \notin Frames => C[x] = Gone
  <2>1. \A f \in Call : f.pc # "gone"
    BY DEF Call, Pcs, Early, Mid, Late, UsePcs
  <2>2. ASSUME NEW x \in Slots, x \notin Frames PROVE C[x] = Gone
    <3>1. C[x] \in Call \cup {Gone} /\ C[x].pc = "gone"
      BY <1>1, <1>2, <2>2 DEF CallMaps
    <3>2. QED
      BY <2>1, <3>1
  <2>3. QED
    BY <2>2
<1> HIDE DEF C
<1>4. ASSUME NEW e \in Entities PROVE Pinners(e) = PinnersIn(C, e)
  <2>1. ~PinsIt(Gone, e)
    BY DEF PinsIt, Gone
  <2>2. ASSUME NEW x \in Slots PROVE x \in Pinners(e) <=> PinsIt(C[x], e)
    <3>1. CASE x \notin Frames
      <4>1. x \notin Pinners(e)
        BY <3>1 DEF Pinners
      <4>2. QED
        BY <1>3, <2>1, <3>1, <4>1
    <3>2. CASE x \in Frames
      <4>1. Frame(x) = C[x] /\ C[x].pc # "gone"
        BY <1>2, <3>2
      <4>2. QED
        BY <3>2, <4>1 DEF Pinners, PinsIt, TopicPcs
    <3>3. QED
      BY <3>1, <3>2
  <2>3. \A x \in Pinners(e) : x \in Slots
    BY <1>2 DEF Pinners
  <2>4. QED
    BY <2>2, <2>3 DEF PinnersIn
<1>5. QED
  BY <1>4 DEF C

LEMMA InvCounts ==
  ASSUME Inv
  PROVE  CountsExact
<1> DEFINE C == Calls(stack)
<1>1. /\ stack \in Stacks /\ RefsExact(C, hdl, life, children, implicit) /\ PinsExact(C, hdl) /\ C \in CallMaps
  BY WorldParts DEF Inv, Settled
<1>2. /\ Frames = {x \in Slots : C[x].pc # "gone"}
      /\ \A x \in Frames : x \in Slots /\ Frame(x) = C[x]
  BY <1>1, FramesAreCalls
<1>3. \A x \in Slots : x \notin Frames => C[x] = Gone
  <2>1. \A f \in Call : f.pc # "gone"
    BY DEF Call, Pcs, Early, Mid, Late, UsePcs
  <2>2. ASSUME NEW x \in Slots, x \notin Frames PROVE C[x] = Gone
    <3>1. C[x] \in Call \cup {Gone} /\ C[x].pc = "gone"
      BY <1>1, <1>2, <2>2 DEF CallMaps
    <3>2. QED
      BY <2>1, <3>1
  <2>3. QED
    BY <2>2
<1> HIDE DEF C
<1>4. \A e \in Entities : Pinners(e) = PinnersIn(C, e)
  BY PinnersAre DEF C
<1>5. ASSUME NEW e \in Entities, NEW r \in Entities PROVE Refers(r, e) <=> RefersIn(C, life, r, e)
  <2>1. (\A x \in Frames : Frame(x).e = r => Frame(x).pc \notin {"deleteTopic", "free"})
        <=> \A x \in Slots : C[x].e = r => C[x].pc \notin {"deleteTopic", "free"}
    <3>1. Gone.pc \notin {"deleteTopic", "free"}
      BY DEF Gone
    <3>2. QED
      BY <1>2, <1>3, <3>1
  <2>2. QED
    BY <2>1 DEF Refers, RefersIn
<1>6. ASSUME NEW e \in Entities, hdl[e].in
      PROVE  /\ hdl[e].refs = (IF e \in implicit \/ hdl[e].closing \/ hdl[e].deferred THEN 0 ELSE 1)
                     + Cardinality(children[e]) + Cardinality({r \in Entities : Refers(r, e)})
             /\ hdl[e].pins = Cardinality(Pinners(e))
  <2>1. {r \in Entities : Refers(r, e)} = {r \in Entities : RefersIn(C, life, r, e)}
    BY <1>5
  <2>2. QED
    BY <1>1, <1>4, <1>6, <2>1 DEF RefsExact, PinsExact
<1>7. QED
  BY <1>6 DEF CountsExact

\* Whatever entities an application creates, uses and deletes, and from however many
\* threads, until dds_handle_delete the reference count of a handle is the number of
\* children or readers that refer to the entity, one more while the handle itself has
\* not been deleted, and its pin count is the number of calls that work with the entity.
THEOREM CountsAreExact == Spec => []CountsExact
<1>1. Init => Inv
  BY InvInit
<1>2. Inv /\ [Next]_vars => Inv'
  BY InvNext
<1>3. Inv => CountsExact
  BY InvCounts
<1>4. QED
  BY <1>1, <1>2, <1>3, PTL DEF Spec

\* What is pinned stays: while a call has an entity pinned the entity exists and its
\* memory has not been freed (dds_delete_impl frees it only after dds_handle_close_wait).
PinnedIsAlive == \A e \in Entities : Pinners(e) # {} => life[e] = "alive"

\* By the time of dds_handle_delete the handle is still in the table, it is closed and
\* the only pin left is that of the call that deletes the entity, as the function asserts.
HandleDeletedUnpinned ==
  \A x \in Frames : Frame(x).pc = "handleDelete" =>
    LET e == Frame(x).e IN hdl[e].in /\ hdl[e].closing /\ hdl[e].pins = 1 /\ Pinners(e) = {x}

LEMMA InvPinned ==
  ASSUME Inv
  PROVE  PinnedIsAlive
<1>1. PinnedAlive(Calls(stack), life)
  BY WorldParts DEF Inv
<1>2. QED
  BY <1>1, PinnersAre DEF PinnedIsAlive, PinnedAlive, PinnersIn

LEMMA InvUnpinned ==
  ASSUME Inv
  PROVE  HandleDeletedUnpinned
<1> DEFINE C == Calls(stack)
<1>1. /\ World(C, hdl, life, children, implicit) /\ stack \in Stacks /\ Alone(C) /\ Shut(C, hdl) /\ Listed(C, hdl)
      /\ PinsExact(C, hdl) /\ C \in CallMaps
  BY WorldParts DEF Inv, Settled
<1>2. ASSUME NEW x \in Frames, Frame(x).pc = "handleDelete", NEW e, e = Frame(x).e
      PROVE  hdl[e].in /\ hdl[e].closing /\ hdl[e].pins = 1 /\ Pinners(e) = {x}
  <2>1. x \in Slots /\ C[x] = Frame(x) /\ C[x].pc # "gone"
    BY <1>1, FramesAreCalls
  <2>2. C[x] \in Call /\ e \in Entities
    <3>1. C[x] \in Call
      BY <1>1, <2>1 DEF CallMaps, Gone
    <3>2. QED
      BY <1>2, <2>1, <3>1 DEF Call
  <2>3. C[x].pc \in Mid /\ C[x].e = e
    BY <1>2, <2>1 DEF Mid
  <2>4. PinsIt(C[x], e)
    BY <1>2, <2>1 DEF PinsIt
  <2> HIDE DEF C
  <2>5. hdl[e].in /\ hdl[e].closing
    BY <1>1, <2>1, <2>3 DEF Listed, Shut
  <2>6. PinnersIn(C, e) = {x}
    BY <1>1, <2>1, <2>3, <2>4 DEF PinnersIn, Alone
  <2>7. hdl[e].pins = 1
    <3>1. hdl[e].pins = Cardinality(PinnersIn(C, e))
      BY <1>1, <2>2, <2>5 DEF PinsExact
    <3>2. Cardinality({x}) = 1
      BY FS_Singleton
    <3>3. QED
      BY <2>6, <3>1, <3>2
  <2>8. QED
    BY <2>2, <2>5, <2>6, <2>7, PinnersAre DEF C
<1>3. QED
  BY <1>2 DEF HandleDeletedUnpinned

\* An entity that a call has pinned is not freed: the pin protects it from every
\* deletion, by whatever thread and for whatever reason.
THEOREM PinsProtect == Spec => []PinnedIsAlive
<1>1. Init => Inv
  BY InvInit
<1>2. Inv /\ [Next]_vars => Inv'
  BY InvNext
<1>3. Inv => PinnedIsAlive
  BY InvPinned
<1>4. QED
  BY <1>1, <1>2, <1>3, PTL DEF Spec

\* The assertions of dds_handle_delete on the flags and the pin count hold: the wait in
\* dds_handle_close_wait has outlasted every other pin, and no new one was taken.
THEOREM DeletedUnpinned == Spec => []HandleDeletedUnpinned
<1>1. Init => Inv
  BY InvInit
<1>2. Inv /\ [Next]_vars => Inv'
  BY InvNext
<1>3. Inv => HandleDeletedUnpinned
  BY InvUnpinned
<1>4. QED
  BY <1>1, <1>2, <1>3, PTL DEF Spec
=============================================================================
