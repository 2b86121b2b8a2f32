---------------------------- MODULE Tkmap_proofs ----------------------------
(***************************************************************************)
(* Proofs about Tkmap for any number of threads, caches, keys and          *)
(* instances: the counts are exact, no freed instance is used, and the map *)
(* implements KeyMap.                                                      *)
(***************************************************************************)
EXTENDS Tkmap, FiniteSetTheorems, TLAPS

Finding == {"lookup", "inc", "dec", "lock", "relock", "waitLookup", "waitTest", "wait",
            "alloc", "add"}
Pointing == {"readIid", "inc", "dec", "waitTest", "add", "idLoad", "idCas", "unrefLoad",
             "unrefCas", "remove", "broadcast", "gc"}
Releasing == {"unrefLoad", "unrefCas"}
Deleting == {"remove", "broadcast", "gc"}

\* Only threads that are awake are in a call; which of the local variables are
\* in use is told by the place in the call.
Locals ==
  \A t \in Threads :
    /\ t \notin awake => pc[t] = "idle"
    /\ tk[t] # None <=> pc[t] \in Pointing
    /\ sd[t] # None => pc[t] \in Finding
    /\ pc[t] \in Finding => arg[t] \in Keys
    /\ pc[t] \in Finding \cup {"idLoad", "idCas"} => hold[t] = None

\* A reference is dropped by one thread, and it is there until it is dropped.
Releases ==
  \A t \in Threads :
    /\ rel[t] # None <=> pc[t] \in Releasing
    /\ rel[t] # None => rel[t] \in Caches \cup {t} /\ hold[rel[t]] = tk[t]
    /\ \A u \in Threads : rel[t] # None /\ rel[u] = rel[t] => u = t

\* What a thread finds in the table may be removed and retired under its hands,
\* but then the collector waits for that thread.
Protected(t, i) == \/ life[i] \in {"linked", "removed"}
                   \/ life[i] = "retired" /\ t \in blockers[i]

Protections ==
  \A t \in Threads : /\ tk[t] # None /\ pc[t] # "add" => Protected(t, tk[t])
                     /\ sd[t] # None => Protected(t, sd[t])

\* An instance that is being added is its creator's alone.
Additions ==
  \A t \in Threads : pc[t] = "add" =>
    /\ life[tk[t]] = "private" /\ key[tk[t]] = arg[t] /\ refc[tk[t]] = 1
    /\ \A u \in Threads : pc[u] = "add" /\ tk[u] = tk[t] => u = t

\* The thread that dropped the last reference is the only one to remove and
\* retire the instance; a finder takes back its increment only from an instance
\* that is marked.
Deletions ==
  \A t \in Threads :
    /\ pc[t] = "remove" => life[tk[t]] = "linked" /\ del[tk[t]]
    /\ pc[t] \in {"broadcast", "gc"} => life[tk[t]] = "removed"
    /\ pc[t] \in Deleting =>
         \A u \in Threads : pc[u] \in Deleting /\ tk[u] = tk[t] => u = t
    /\ pc[t] = "dec" => del[tk[t]]

\* No two instances in the table have the same key; outside it there are no
\* references.
Table ==
  \A i \in Instances :
    /\ life[i] \in {"unused", "private"} => ~del[i] /\ Holders(i) = {}
    /\ life[i] \notin {"unused", "private"} => key[i] \in Keys
    /\ \A j \in Instances : life[i] = "linked" /\ life[j] = "linked" /\ key[i] = key[j] => i = j

Inv == /\ TypeOK /\ Locals /\ Releases /\ Protections /\ Additions /\ Deletions /\ Table
       /\ RefcExact
USE DEF memVars, callVars, vars

-----------------------------------------------------------------------------
(* Holders and late finders *)

LEMMA NoneElsewhere ==
  None \notin Instances /\ None \notin Owners /\ None \notin Keys /\ Threads \cap Caches = {}
  BY TkmapConstants

LEMMA OwnersFinite == IsFiniteSet(Owners) /\ IsFiniteSet(Threads)
  BY TkmapConstants, FS_Union DEF Owners

LEMMA CountsNat ==
  ASSUME NEW i \in Instances
  PROVE  /\ IsFiniteSet(Holders(i)) /\ Cardinality(Holders(i)) \in Nat
         /\ IsFiniteSet(LateFinders(i)) /\ Cardinality(LateFinders(i)) \in Nat
<1>1. Holders(i) \in SUBSET Owners /\ LateFinders(i) \in SUBSET Threads
  BY DEF Holders, LateFinders
<1>2. QED
  BY <1>1, OwnersFinite, FS_Subset, FS_CardinalityType

LEMMA HoldersKept == ASSUME hold' = hold PROVE \A i \in Instances : Holders(i)' = Holders(i)
  BY DEF Holders

\* An owner without a reference gets one to j.
LEMMA HoldersAdd ==
  ASSUME TypeOK, NEW o \in Owners, NEW j \in Instances, hold[o] = None,
         hold' = [hold EXCEPT ![o] = j]
  PROVE  /\ Holders(j)' # {} /\ Cardinality(Holders(j)') = Cardinality(Holders(j)) + 1
         /\ Holders(j) = {} => Cardinality(Holders(j)') = 1
         /\ \A i \in Instances \ {j} : Holders(i)' = Holders(i)
<1> USE NoneElsewhere DEF TypeOK
<1>1. Holders(j)' = Holders(j) \cup {o} /\ o \notin Holders(j)
  BY DEF Holders
<1>2. \A i \in Instances \ {j} : Holders(i)' = Holders(i)
  BY DEF Holders
<1>3. Cardinality(Holders(j) \cup {o}) = Cardinality(Holders(j)) + 1
  BY <1>1, CountsNat, FS_AddElement
<1>4. Holders(j) = {} => Cardinality(Holders(j)) = 0
  BY FS_EmptySet
<1>5. QED
  BY <1>1, <1>2, <1>3, <1>4

\* An owner drops its reference to j.
LEMMA HoldersDrop ==
  ASSUME TypeOK, NEW o \in Owners, NEW j \in Instances, hold[o] = j,
         hold' = [hold EXCEPT ![o] = None]
  PROVE  /\ Holders(j)' = Holders(j) \ {o} /\ o \in Holders(j)
         /\ Cardinality(Holders(j)') = Cardinality(Holders(j)) - 1
         /\ Holders(j)' = {} <=> Cardinality(Holders(j)) = 1
         /\ \A i \in Instances \ {j} : Holders(i)' = Holders(i)
<1> USE NoneElsewhere DEF TypeOK
<1>1. Holders(j)' = Holders(j) \ {o} /\ o \in Holders(j)
  BY DEF Holders
<1>2. \A i \in Instances \ {j} : Holders(i)' = Holders(i)
  BY DEF Holders
<1>3. Cardinality(Holders(j)') = Cardinality(Holders(j)) - 1 /\ IsFiniteSet(Holders(j)')
  BY <1>1, CountsNat, FS_RemoveElement
<1>4. Holders(j)' = {} <=> Cardinality(Holders(j)) = 1
  BY <1>3, CountsNat, FS_EmptySet
<1>5. QED
  BY <1>1, <1>2, <1>3, <1>4

LateSame == \A u \in Threads, i \in Instances :
              (pc'[u] = "dec" /\ tk'[u] = i) <=> (pc[u] = "dec" /\ tk[u] = i)

LEMMA LateKept == ASSUME LateSame PROVE \A i \in Instances : LateFinders(i)' = LateFinders(i)
  BY DEF LateSame, LateFinders

\* A finder sees that it came too late, and takes its increment back.
LEMMA LateAdd ==
  ASSUME TypeOK, NEW t \in Threads, NEW j \in Instances, tk[t] = j, pc[t] # "dec",
         pc' = [pc EXCEPT ![t] = "dec"], tk' = tk
  PROVE  /\ Cardinality(LateFinders(j)') = Cardinality(LateFinders(j)) + 1
         /\ \A i \in Instances \ {j} : LateFinders(i)' = LateFinders(i)
<1>1. /\ LateFinders(j)' = LateFinders(j) \cup {t} /\ t \notin LateFinders(j)
      /\ \A i \in Instances \ {j} : LateFinders(i)' = LateFinders(i)
  BY DEF LateFinders, TypeOK
<1>2. Cardinality(LateFinders(j) \cup {t}) = Cardinality(LateFinders(j)) + 1
  BY <1>1, CountsNat, FS_AddElement
<1>3. QED
  BY <1>1, <1>2

LEMMA LateDrop ==
  ASSUME TypeOK, NEW t \in Threads, NEW j \in Instances, tk[t] = j, pc[t] = "dec",
         pc' = [pc EXCEPT ![t] = "lock"], tk' = [tk EXCEPT ![t] = None]
  PROVE  /\ Cardinality(LateFinders(j)') = Cardinality(LateFinders(j)) - 1
         /\ \A i \in Instances \ {j} : LateFinders(i)' = LateFinders(i)
<1>1. /\ LateFinders(j)' = LateFinders(j) \ {t} /\ t \in LateFinders(j)
      /\ \A i \in Instances \ {j} : LateFinders(i)' = LateFinders(i)
  BY NoneElsewhere DEF LateFinders, TypeOK
<1>2. Cardinality(LateFinders(j) \ {t}) = Cardinality(LateFinders(j)) - 1
  BY <1>1, CountsNat, FS_RemoveElement
<1>3. QED
  BY <1>1, <1>2

\* Steps that change neither counts nor references, and life only where nobody
\* has a reference.
LEMMA CountsKept ==
  ASSUME RefcExact, LateSame, UNCHANGED <<refc, del, hold>>,
         \A i \in Instances : \/ life'[i] = life[i]
                              \/ life'[i] \in {"unused", "private"}
                              \/ life[i] \notin {"unused", "private"} /\ Holders(i) = {}
  PROVE  RefcExact'
<1>1. \A i \in Instances : Holders(i)' = Holders(i) /\ LateFinders(i)' = LateFinders(i)
  BY HoldersKept, LateKept
<1>2. QED
  BY <1>1 DEF RefcExact

\* The owner of a reference finds its instance in the table, unmarked.
LEMMA HeldLinked ==
  ASSUME TypeOK, Table, RefcExact, NEW o \in Owners, hold[o] # None
  PROVE  hold[o] \in Instances /\ life[hold[o]] = "linked" /\ ~del[hold[o]]
<1>1. hold[o] \in Instances /\ o \in Holders(hold[o])
  BY DEF TypeOK, Holders
<1>2. QED
  BY <1>1 DEF Table, RefcExact

\* An unmarked instance that was ever in the table still is, and nobody is late.
LEMMA UnmarkedLinked ==
  ASSUME TypeOK, Locals, Deletions, RefcExact, NEW i \in Instances,
         life[i] \notin {"unused", "private"}, ~del[i]
  PROVE  /\ life[i] = "linked" /\ LateFinders(i) = {} /\ refc[i] = Cardinality(Holders(i))
<1>1. LateFinders(i) = {}
  BY DEF LateFinders, Deletions, Locals
<1>2. QED
  BY <1>1, CountsNat, FS_EmptySet DEF RefcExact

LEMMA ReturnTyped ==
  ASSUME TypeOK, NEW t \in Threads, Return(t)
  PROVE  /\ pc' \in [Threads -> Pcs] /\ arg' \in [Threads -> Keys \cup {None}]
         /\ create' \in [Threads -> BOOLEAN]
         /\ sd' \in [Threads -> Instances \cup {None}]
         /\ tk' \in [Threads -> Instances \cup {None}]
  BY DEF TypeOK, Return, Goto, Pcs

LEMMA PointsTo ==
  ASSUME TypeOK, Locals, NEW t \in Threads, pc[t] \in Pointing
  PROVE  tk[t] \in Instances
  BY DEF TypeOK, Locals

-----------------------------------------------------------------------------
LEMMA InitInv == Init => Inv
<1> SUFFICES ASSUME Init PROVE Inv
  OBVIOUS
<1> USE NoneElsewhere DEF Init
<1>1. TypeOK
  BY DEF TypeOK, Pcs, Owners
<1>2. Locals /\ Releases
  BY DEF Locals, Releases, Finding, Pointing, Releasing, Owners
<1>3. Protections /\ Additions /\ Deletions
  BY DEF Protections, Additions, Deletions, Deleting
<1>4. Table /\ RefcExact
  BY DEF Table, RefcExact, Holders, Owners
<1>5. QED
  BY <1>1, <1>2, <1>3, <1>4 DEF Inv

\* The invariant is inductive: one step per operation.
LEMMA NextInv == ASSUME Inv, [Next]_vars PROVE Inv'
<1> USE NoneElsewhere
<1> TypeOK /\ Locals /\ Releases /\ Protections /\ Additions /\ Deletions /\ Table /\ RefcExact
  BY DEF Inv
<1>1. ASSUME NEW t \in Threads, Awake(t) PROVE Inv'
  <2>1. TypeOK'
    BY <1>1 DEF Awake, TypeOK, Pcs, Owners
  <2>2. Locals'
    BY <1>1, <2>1 DEF Awake, TypeOK, Locals, Finding, Pointing, Owners
  <2>3. Releases'
    BY <1>1, <2>1 DEF Awake, TypeOK, Releases, Releasing, Finding, Pointing, Locals, Owners
  <2>4. Protections'
    BY <1>1, <2>1 DEF Awake, TypeOK, Protections, Protected, Locals, Pointing, Finding
  <2>5. Additions'
    BY <1>1, <2>1 DEF Awake, TypeOK, Additions, Locals, Pointing
  <2>6. Deletions'
    BY <1>1, <2>1 DEF Awake, TypeOK, Deletions, Deleting, Locals, Pointing
  <2>7. Table'
    BY <1>1, <2>1 DEF Awake, TypeOK, Table, Holders, Locals
  <2>8. RefcExact'
    <3>1. LateSame
      BY <1>1, <2>1 DEF Awake, LateSame, TypeOK
    <3> QED BY <1>1, <3>1, CountsKept DEF Awake
  <2> QED BY <2>1, <2>2, <2>3, <2>4, <2>5, <2>6, <2>7, <2>8 DEF Inv
<1>2. ASSUME NEW t \in Threads, Asleep(t) PROVE Inv'
  <2>1. TypeOK'
    BY <1>2 DEF Asleep, TypeOK, Pcs, Owners
  <2>2. Locals'
    BY <1>2, <2>1 DEF Asleep, TypeOK, Locals, Finding, Pointing, Owners
  <2>3. Releases'
    BY <1>2, <2>1 DEF Asleep, TypeOK, Releases, Releasing, Finding, Pointing, Locals, Owners
  <2>4. Protections'
    BY <1>2, <2>1 DEF Asleep, TypeOK, Protections, Protected, Locals, Pointing, Finding
  <2>5. Additions'
    BY <1>2, <2>1 DEF Asleep, TypeOK, Additions, Locals, Pointing
  <2>6. Deletions'
    BY <1>2, <2>1 DEF Asleep, TypeOK, Deletions, Deleting, Locals, Pointing
  <2>7. Table'
    BY <1>2, <2>1 DEF Asleep, TypeOK, Table, Holders, Locals
  <2>8. RefcExact'
    <3>1. LateSame
      BY <1>2, <2>1 DEF Asleep, LateSame, TypeOK
    <3> QED BY <1>2, <3>1, CountsKept DEF Asleep
  <2> QED BY <2>1, <2>2, <2>3, <2>4, <2>5, <2>6, <2>7, <2>8 DEF Inv
<1>3. ASSUME NEW t \in Threads, NEW k \in Keys, LookupBegin(t, k) PROVE Inv'
  <2>1. TypeOK'
    BY <1>3 DEF LookupBegin, Goto, InTable, Calls, TypeOK, Pcs, Owners
  <2>2. Locals'
    BY <1>3, <2>1 DEF LookupBegin, Goto, InTable, Calls, TypeOK, Locals, Finding, Pointing, Owners
  <2>3. Releases'
    BY <1>3, <2>1 DEF LookupBegin, Goto, InTable, Calls, TypeOK, Releases, Releasing, Finding,
        Pointing, Locals, Owners
  <2>4. Protections'
    BY <1>3, <2>1 DEF LookupBegin, Goto, InTable, Calls, TypeOK, Protections, Protected,
        Locals, Pointing, Finding
  <2>5. Additions'
    BY <1>3, <2>1 DEF LookupBegin, Goto, InTable, Calls, TypeOK, Additions, Locals, Pointing
  <2>6. Deletions'
    BY <1>3, <2>1 DEF LookupBegin, Goto, InTable, Calls, TypeOK, Deletions, Deleting, Locals,
        Pointing
  <2>7. Table'
    BY <1>3, HoldersKept DEF LookupBegin, Table
  <2>8. RefcExact'
    <3>1. LateSame
      BY <1>3, <2>1 DEF LookupBegin, Goto, InTable, Calls, LateSame, TypeOK
    <3> QED BY <1>3, <3>1, CountsKept DEF LookupBegin, Goto, InTable, Calls
  <2> QED BY <2>1, <2>2, <2>3, <2>4, <2>5, <2>6, <2>7, <2>8 DEF Inv
<1>4. ASSUME NEW t \in Threads, LookupReadIid(t) PROVE Inv'
  <2>0. tk[t] \in Instances
    BY <1>4, PointsTo DEF LookupReadIid, Pointing
  <2>1. TypeOK'
    BY <1>4, <2>0 DEF LookupReadIid, Goto, Return, TypeOK, Pcs, Owners
  <2>2. Locals'
    BY <1>4, <2>0, <2>1 DEF LookupReadIid, Goto, Return, TypeOK, Locals, Finding, Pointing, Owners
  <2>3. Releases'
    BY <1>4, <2>0, <2>1 DEF LookupReadIid, Goto, Return, TypeOK, Releases, Releasing, Finding,
        Pointing, Locals, Owners
  <2>4. Protections'
    BY <1>4, <2>0, <2>1 DEF LookupReadIid, Goto, Return, TypeOK, Protections, Protected,
        Locals, Pointing, Finding
  <2>5. Additions'
    BY <1>4, <2>0, <2>1 DEF LookupReadIid, Goto, Return, TypeOK, Additions, Locals, Pointing,
        Protections, Protected, Deletions
  <2>6. Deletions'
    BY <1>4, <2>0, <2>1 DEF LookupReadIid, Goto, Return, TypeOK, Deletions, Deleting, Locals,
        Pointing
  <2>7. Table'
    BY <1>4, <2>0, <2>1 DEF LookupReadIid, Goto, Return, TypeOK, Table, Holders, Locals
  <2>8. RefcExact'
    <3>1. LateSame
      BY <1>4, <2>1 DEF LookupReadIid, Goto, Return, LateSame, TypeOK
    <3> QED BY <1>4, <3>1, CountsKept DEF LookupReadIid, Goto, Return
  <2> QED BY <2>1, <2>2, <2>3, <2>4, <2>5, <2>6, <2>7, <2>8 DEF Inv
<1>5. ASSUME NEW t \in Threads, NEW k \in Keys, NEW c \in BOOLEAN, FindBegin(t, k, c) PROVE Inv'
  <2>1. TypeOK'
    BY <1>5 DEF FindBegin, Goto, Calls, TypeOK, Pcs, Owners
  <2>2. Locals'
    BY <1>5, <2>1 DEF FindBegin, Goto, Calls, TypeOK, Locals, Finding, Pointing, Owners
  <2>3. Releases'
    BY <1>5, <2>1 DEF FindBegin, Goto, Calls, TypeOK, Releases, Releasing, Finding, Pointing,
        Locals, Owners
  <2>4. Protections'
    BY <1>5, <2>1 DEF FindBegin, Goto, Calls, TypeOK, Protections, Protected, Locals, Pointing,
        Finding
  <2>5. Additions'
    BY <1>5, <2>1 DEF FindBegin, Goto, Calls, TypeOK, Additions, Locals, Pointing
  <2>6. Deletions'
    BY <1>5, <2>1 DEF FindBegin, Goto, Calls, TypeOK, Deletions, Deleting, Locals, Pointing
  <2>7. Table'
    BY <1>5, <2>1 DEF FindBegin, Goto, Calls, TypeOK, Table, Holders, Locals
  <2>8. RefcExact'
    <3>1. LateSame
      BY <1>5, <2>1 DEF FindBegin, Goto, Calls, LateSame, TypeOK
    <3> QED BY <1>5, <3>1, CountsKept DEF FindBegin, Goto, Calls
  <2> QED BY <2>1, <2>2, <2>3, <2>4, <2>5, <2>6, <2>7, <2>8 DEF Inv
<1>6. ASSUME NEW t \in Threads, FindLookup(t) PROVE Inv'
  <2>1. TypeOK'
    <3>1. CASE InTable(arg[t]) # {}
      BY <1>6, <3>1 DEF FindLookup, Goto, InTable, TypeOK, Pcs
    <3>2. CASE InTable(arg[t]) = {} /\ create[t]
      BY <1>6, <3>2 DEF FindLookup, Goto, TypeOK, Pcs
    <3>3. CASE InTable(arg[t]) = {} /\ ~create[t]
      BY <1>6, <3>3, ReturnTyped DEF FindLookup, TypeOK
    <3> QED BY <3>1, <3>2, <3>3
  <2>2. Locals'
    BY <1>6, <2>1 DEF FindLookup, Goto, Return, InTable, TypeOK, Locals, Finding, Pointing, Owners
  <2>3. Releases'
    BY <1>6, <2>1 DEF FindLookup, Goto, Return, InTable, TypeOK, Releases, Releasing, Finding,
        Pointing, Locals, Owners
  <2>4. Protections'
    BY <1>6, <2>1 DEF FindLookup, Goto, Return, InTable, TypeOK, Protections, Protected,
        Locals, Pointing, Finding
  <2>5. Additions'
    BY <1>6, <2>1 DEF FindLookup, Goto, Return, InTable, TypeOK, Additions, Locals, Pointing
  <2>6. Deletions'
    BY <1>6, <2>1 DEF FindLookup, Goto, Return, InTable, TypeOK, Deletions, Deleting, Locals,
        Pointing
  <2>7. Table'
    BY <1>6, <2>1 DEF FindLookup, Goto, Return, InTable, TypeOK, Table, Holders, Locals
  <2>8. RefcExact'
    <3>1. LateSame
      BY <1>6, <2>1 DEF FindLookup, Goto, Return, InTable, LateSame, TypeOK
    <3> QED BY <1>6, <3>1, CountsKept DEF FindLookup, Goto, Return, InTable
  <2> QED BY <2>1, <2>2, <2>3, <2>4, <2>5, <2>6, <2>7, <2>8 DEF Inv
<1>7. ASSUME NEW t \in Threads, FindInc(t) PROVE Inv'
  <2>0. tk[t] \in Instances
    BY <1>7, PointsTo DEF FindInc, Pointing
  <2>1. TypeOK'
    <3>1. refc' \in [Instances -> Int] /\ hold' \in [Owners -> Instances \cup {None}]
      BY <1>7, <2>0 DEF FindInc, Owners, TypeOK
    <3>2. CASE del[tk[t]]
      BY <1>7, <2>0, <3>1, <3>2 DEF FindInc, Goto, Return, TypeOK, Pcs
    <3>3. CASE ~(del[tk[t]])
      BY <1>7, <3>1, <3>3, ReturnTyped DEF FindInc, TypeOK
    <3> QED BY <3>2, <3>3
  <2>2. Locals'
    BY <1>7, <2>0, <2>1 DEF FindInc, Goto, Return, TypeOK, Locals, Finding, Pointing, Owners
  <2>3. Releases'
    BY <1>7, <2>0, <2>1 DEF FindInc, Goto, Return, TypeOK, Releases, Releasing, Finding,
        Pointing, Locals, Owners
  <2>4. Protections'
    BY <1>7, <2>0, <2>1 DEF FindInc, Goto, Return, TypeOK, Protections, Protected, Locals,
        Pointing, Finding
  <2>5. Additions'
    BY <1>7, <2>0, <2>1 DEF FindInc, Goto, Return, TypeOK, Additions, Locals, Pointing,
        Protections, Protected, Deletions
  <2>6. Deletions'
    BY <1>7, <2>0, <2>1 DEF FindInc, Goto, Return, TypeOK, Deletions, Deleting, Locals, Pointing
  <2>7. Table'
    <3>1. CASE ~del[tk[t]]
      <4>1. life[tk[t]] = "linked" /\ hold' = [hold EXCEPT ![t] = tk[t]] /\ UNCHANGED <<life, key, del>>
        BY <1>7, <2>0, <3>1, UnmarkedLinked DEF FindInc, Locals, Pointing, Protections, Protected
      <4> QED BY <2>0, <4>1 DEF Table, Holders, TypeOK
    <3>2. CASE ~(~del[tk[t]])
      <4>1. hold' = hold /\ UNCHANGED <<life, key, del>>
        BY <1>7, <3>2 DEF FindInc
      <4> QED BY <4>1, HoldersKept DEF Table
    <3> QED BY <3>1, <3>2
  <2>8. RefcExact'
    <3>0. PICK j \in Instances : j = tk[t]
      BY <2>0
    <3>1. life[j] \notin {"unused", "private"}
      BY <3>0, <1>7, <2>0 DEF FindInc, Locals, Pointing, Protections, Protected
    <3>2. CASE del[j]
      <4>1. /\ Cardinality(LateFinders(j)') = Cardinality(LateFinders(j)) + 1
            /\ \A i \in Instances \ {j} : LateFinders(i)' = LateFinders(i)
        BY <3>0, <1>7, <2>0, <3>2, LateAdd DEF FindInc, Goto
      <4>2. \A i \in Instances : Holders(i)' = Holders(i)
        BY <3>0, <1>7, <2>0, <3>2, HoldersKept DEF FindInc
      <4>3. refc' = [refc EXCEPT ![j] = @ + 1] /\ UNCHANGED <<life, del>>
        BY <3>0, <1>7 DEF FindInc
      <4> QED BY <3>0, <2>0, <3>1, <4>1, <4>2, <4>3, CountsNat DEF RefcExact, TypeOK
    <3>3. CASE ~del[j]
      <4>1. hold[t] = None /\ t \in Owners
        BY <3>0, <1>7 DEF FindInc, Locals, Finding, Owners
      <4>2. /\ Holders(j)' # {} /\ Cardinality(Holders(j)') = Cardinality(Holders(j)) + 1
            /\ \A i \in Instances \ {j} : Holders(i)' = Holders(i)
        BY <3>0, <1>7, <2>0, <3>3, <4>1, HoldersAdd DEF FindInc
      <4>3. LateSame
        BY <3>0, <1>7, <2>0, <2>1, <3>3 DEF FindInc, Return, Goto, LateSame, TypeOK
      <4>4. \A i \in Instances : LateFinders(i)' = LateFinders(i)
        BY <3>0, <4>3, LateKept
      <4>5. refc' = [refc EXCEPT ![j] = @ + 1] /\ UNCHANGED <<life, del>>
        BY <3>0, <1>7 DEF FindInc
      <4>6. life[j] = "linked"
        BY <3>0, <2>0, <3>1, <3>3, UnmarkedLinked
      <4> QED BY <3>0, <2>0, <3>1, <3>3, <4>2, <4>4, <4>5, <4>6, CountsNat DEF RefcExact, TypeOK
    <3> QED BY <3>2, <3>3
  <2> QED BY <2>1, <2>2, <2>3, <2>4, <2>5, <2>6, <2>7, <2>8 DEF Inv
<1>8. ASSUME NEW t \in Threads, FindDec(t) PROVE Inv'
  <2>0. tk[t] \in Instances
    BY <1>8, PointsTo DEF FindDec, Pointing
  <2>1. TypeOK'
    <3>1. refc' \in [Instances -> Int]
      BY <1>8, <2>0 DEF FindDec, TypeOK
    <3> QED BY <1>8, <2>0, <3>1 DEF FindDec, Goto, TypeOK, Pcs, Owners
  <2>2. Locals'
    BY <1>8, <2>0, <2>1 DEF FindDec, Goto, TypeOK, Locals, Finding, Pointing, Owners
  <2>3. Releases'
    BY <1>8, <2>0, <2>1 DEF FindDec, Goto, TypeOK, Releases, Releasing, Finding, Pointing,
        Locals, Owners
  <2>4. Protections'
    BY <1>8, <2>0, <2>1 DEF FindDec, Goto, TypeOK, Protections, Protected, Locals, Pointing,
        Finding
  <2>5. Additions'
    BY <1>8, <2>0, <2>1 DEF FindDec, Goto, TypeOK, Additions, Locals, Pointing, Protections,
        Protected, Deletions
  <2>6. Deletions'
    BY <1>8, <2>0, <2>1 DEF FindDec, Goto, TypeOK, Deletions, Deleting, Locals, Pointing
  <2>7. Table'
    BY <1>8, <2>0, <2>1 DEF FindDec, Goto, TypeOK, Table, Holders, Locals
  <2>8. RefcExact'
    <3>0. PICK j \in Instances : j = tk[t]
      BY <2>0
    <3>1. /\ Cardinality(LateFinders(j)') = Cardinality(LateFinders(j)) - 1
          /\ \A i \in Instances \ {j} : LateFinders(i)' = LateFinders(i)
      BY <3>0, <1>8, <2>0, LateDrop DEF FindDec, Goto
    <3>2. \A i \in Instances : Holders(i)' = Holders(i)
      BY <3>0, <1>8, HoldersKept DEF FindDec
    <3>3. refc' = [refc EXCEPT ![j] = @ - 1] /\ UNCHANGED <<life, del>>
      BY <3>0, <1>8 DEF FindDec
    <3> QED BY <3>0, <2>0, <3>1, <3>2, <3>3, CountsNat DEF RefcExact, TypeOK
  <2> QED BY <2>1, <2>2, <2>3, <2>4, <2>5, <2>6, <2>7, <2>8 DEF Inv
<1>9. ASSUME NEW t \in Threads, FindLock(t) PROVE Inv'
  <2>1. TypeOK'
    BY <1>9 DEF FindLock, Goto, TypeOK, Pcs, Owners
  <2>2. Locals'
    BY <1>9, <2>1 DEF FindLock, Goto, TypeOK, Locals, Finding, Pointing, Owners
  <2>3. Releases'
    BY <1>9, <2>1 DEF FindLock, Goto, TypeOK, Releases, Releasing, Finding, Pointing, Locals,
        Owners
  <2>4. Protections'
    BY <1>9, <2>1 DEF FindLock, Goto, TypeOK, Protections, Protected, Locals, Pointing, Finding
  <2>5. Additions'
    BY <1>9, <2>1 DEF FindLock, Goto, TypeOK, Additions, Locals, Pointing
  <2>6. Deletions'
    BY <1>9, <2>1 DEF FindLock, Goto, TypeOK, Deletions, Deleting, Locals, Pointing
  <2>7. Table'
    BY <1>9, <2>1 DEF FindLock, Goto, TypeOK, Table, Holders, Locals
  <2>8. RefcExact'
    <3>1. LateSame
      BY <1>9, <2>1 DEF FindLock, Goto, LateSame, TypeOK
    <3> QED BY <1>9, <3>1, CountsKept DEF FindLock, Goto
  <2> QED BY <2>1, <2>2, <2>3, <2>4, <2>5, <2>6, <2>7, <2>8 DEF Inv
<1>10. ASSUME NEW t \in Threads, FindWaitLookup(t) PROVE Inv'
  <2>1. TypeOK'
    BY <1>10 DEF FindWaitLookup, Goto, InTable, TypeOK, Pcs, Owners
  <2>2. Locals'
    BY <1>10, <2>1 DEF FindWaitLookup, Goto, InTable, TypeOK, Locals, Finding, Pointing, Owners
  <2>3. Releases'
    BY <1>10, <2>1 DEF FindWaitLookup, Goto, InTable, TypeOK, Releases, Releasing, Finding,
        Pointing, Locals, Owners
  <2>4. Protections'
    BY <1>10, <2>1 DEF FindWaitLookup, Goto, InTable, TypeOK, Protections, Protected, Locals,
        Pointing, Finding
  <2>5. Additions'
    BY <1>10, <2>1 DEF FindWaitLookup, Goto, InTable, TypeOK, Additions, Locals, Pointing
  <2>6. Deletions'
    BY <1>10, <2>1 DEF FindWaitLookup, Goto, InTable, TypeOK, Deletions, Deleting, Locals,
        Pointing
  <2>7. Table'
    BY <1>10, <2>1 DEF FindWaitLookup, Goto, InTable, TypeOK, Table, Holders, Locals
  <2>8. RefcExact'
    <3>1. LateSame
      BY <1>10, <2>1 DEF FindWaitLookup, Goto, InTable, LateSame, TypeOK
    <3> QED BY <1>10, <3>1, CountsKept DEF FindWaitLookup, Goto, InTable
  <2> QED BY <2>1, <2>2, <2>3, <2>4, <2>5, <2>6, <2>7, <2>8 DEF Inv
<1>11. ASSUME NEW t \in Threads, FindWaitTest(t) PROVE Inv'
  <2>0. tk[t] \in Instances
    BY <1>11, PointsTo DEF FindWaitTest, Pointing
  <2>1. TypeOK'
    BY <1>11, <2>0 DEF FindWaitTest, Goto, TypeOK, Pcs, Owners
  <2>2. Locals'
    BY <1>11, <2>0, <2>1 DEF FindWaitTest, Goto, TypeOK, Locals, Finding, Pointing, Owners
  <2>3. Releases'
    BY <1>11, <2>0, <2>1 DEF FindWaitTest, Goto, TypeOK, Releases, Releasing, Finding,
        Pointing, Locals, Owners
  <2>4. Protections'
    BY <1>11, <2>0, <2>1 DEF FindWaitTest, Goto, TypeOK, Protections, Protected, Locals,
        Pointing, Finding
  <2>5. Additions'
    BY <1>11, <2>0, <2>1 DEF FindWaitTest, Goto, TypeOK, Additions, Locals, Pointing,
        Protections, Protected, Deletions
  <2>6. Deletions'
    BY <1>11, <2>0, <2>1 DEF FindWaitTest, Goto, TypeOK, Deletions, Deleting, Locals, Pointing
  <2>7. Table'
    BY <1>11, <2>0, <2>1 DEF FindWaitTest, Goto, TypeOK, Table, Holders, Locals
  <2>8. RefcExact'
    <3>1. LateSame
      BY <1>11, <2>1 DEF FindWaitTest, Goto, LateSame, TypeOK
    <3> QED BY <1>11, <3>1, CountsKept DEF FindWaitTest, Goto
  <2> QED BY <2>1, <2>2, <2>3, <2>4, <2>5, <2>6, <2>7, <2>8 DEF Inv
<1>12. ASSUME NEW t \in Threads, FindAlloc(t) PROVE Inv'
  <2>1. TypeOK'
    BY <1>12 DEF FindAlloc, Goto, TypeOK, Pcs, Owners
  <2>2. Locals'
    BY <1>12, <2>1 DEF FindAlloc, Goto, TypeOK, Locals, Finding, Pointing, Owners
  <2>3. Releases'
    BY <1>12, <2>1 DEF FindAlloc, Goto, TypeOK, Releases, Releasing, Finding, Pointing, Locals,
        Owners
  <2>4. Protections'
    BY <1>12, <2>1 DEF FindAlloc, Goto, TypeOK, Protections, Protected, Locals, Pointing, Finding
  <2>5. Additions'
    BY <1>12, <2>1 DEF FindAlloc, Goto, TypeOK, Additions, Locals, Pointing
  <2>6. Deletions'
    BY <1>12, <2>1 DEF FindAlloc, Goto, TypeOK, Deletions, Deleting, Locals, Pointing
  <2>7. Table'
    <3>1. PICK i \in Instances : /\ life[i] = "unused" /\ life' = [life EXCEPT ![i] = "private"]
                                /\ key' = [key EXCEPT ![i] = arg[t]]
      BY <1>12 DEF FindAlloc
    <3> QED BY <1>12, <3>1, HoldersKept DEF FindAlloc, Table, TypeOK
  <2>8. RefcExact'
    <3>1. PICK i \in Instances : /\ life' = [life EXCEPT ![i] = "private"]
                                /\ refc' = [refc EXCEPT ![i] = 1]
      BY <1>12 DEF FindAlloc
    <3>2. LateSame
      BY <1>12, <2>1 DEF FindAlloc, Goto, LateSame, TypeOK
    <3>3. \A m \in Instances : LateFinders(m)' = LateFinders(m) /\ Holders(m)' = Holders(m)
      BY <1>12, <3>2, LateKept, HoldersKept DEF FindAlloc
    <3> QED BY <1>12, <3>1, <3>3 DEF FindAlloc, RefcExact, TypeOK
  <2> QED BY <2>1, <2>2, <2>3, <2>4, <2>5, <2>6, <2>7, <2>8 DEF Inv
<1>13. ASSUME NEW t \in Threads, FindAdd(t) PROVE Inv'
  <2>0. tk[t] \in Instances
    BY <1>13, PointsTo DEF FindAdd, Pointing
  <2>1. TypeOK'
    <3>1. hold' \in [Owners -> Instances \cup {None}]
      BY <1>13, <2>0 DEF FindAdd, TypeOK, Owners
    <3>2. CASE InTable(arg[t]) = {}
      BY <1>13, <2>0, <3>1, <3>2, ReturnTyped DEF FindAdd, TypeOK
    <3>3. CASE InTable(arg[t]) # {}
      BY <1>13, <2>0, <3>1, <3>3 DEF FindAdd, Goto, TypeOK, Pcs
    <3> QED BY <3>2, <3>3
  <2>2. Locals'
    BY <1>13, <2>0, <2>1 DEF FindAdd, Goto, Return, InTable, TypeOK, Locals, Finding, Pointing,
        Owners
  <2>3. Releases'
    BY <1>13, <2>0, <2>1 DEF FindAdd, Goto, Return, InTable, TypeOK, Releases, Releasing,
        Finding, Pointing, Locals, Owners
  <2>4. Protections'
    <3>1. CASE InTable(arg[t]) # {}
      <4>1. /\ life' = [life EXCEPT ![tk[t]] = "unused"] /\ life[tk[t]] = "private"
            /\ pc' = [pc EXCEPT ![t] = "lookup"] /\ tk' = [tk EXCEPT ![t] = None]
            /\ UNCHANGED <<sd, hold, arg, key, refc, del, blockers>>
        BY <1>13, <3>1 DEF FindAdd, Goto, Additions
      <4> QED BY <1>13, <2>0, <2>1, <4>1 DEF FindAdd, TypeOK, Protections, Protected, Locals,
          Pointing
    <3>2. CASE InTable(arg[t]) = {}
      <4>1. /\ life' = [life EXCEPT ![tk[t]] = "linked"] /\ life[tk[t]] = "private"
            /\ pc' = [pc EXCEPT ![t] = "idle"] /\ tk' = [tk EXCEPT ![t] = None]
            /\ sd' = [sd EXCEPT ![t] = None] /\ arg' = [arg EXCEPT ![t] = None]
            /\ hold' = [hold EXCEPT ![t] = tk[t]] /\ UNCHANGED <<key, refc, del, blockers>>
        BY <1>13, <3>2 DEF FindAdd, Return, Goto, Additions
      <4> QED BY <1>13, <2>0, <2>1, <3>2, <4>1 DEF FindAdd, TypeOK, Protections, Protected,
          Locals, Pointing
    <3> QED BY <3>1, <3>2
  <2>5. Additions'
    <3>1. CASE InTable(arg[t]) # {}
      <4>1. /\ life' = [life EXCEPT ![tk[t]] = "unused"] /\ life[tk[t]] = "private"
            /\ pc' = [pc EXCEPT ![t] = "lookup"] /\ tk' = [tk EXCEPT ![t] = None]
            /\ UNCHANGED <<sd, hold, arg, key, refc, del, blockers>>
        BY <1>13, <3>1 DEF FindAdd, Goto, Additions
      <4> QED BY <1>13, <2>0, <2>1, <4>1 DEF FindAdd, TypeOK, Additions, Locals, Pointing
    <3>2. CASE InTable(arg[t]) = {}
      <4>1. /\ life' = [life EXCEPT ![tk[t]] = "linked"] /\ life[tk[t]] = "private"
            /\ pc' = [pc EXCEPT ![t] = "idle"] /\ tk' = [tk EXCEPT ![t] = None]
            /\ sd' = [sd EXCEPT ![t] = None] /\ arg' = [arg EXCEPT ![t] = None]
            /\ hold' = [hold EXCEPT ![t] = tk[t]] /\ UNCHANGED <<key, refc, del, blockers>>
        BY <1>13, <3>2 DEF FindAdd, Return, Goto, Additions
      <4> QED BY <1>13, <2>0, <2>1, <3>2, <4>1 DEF FindAdd, TypeOK, Additions, Locals, Pointing
    <3> QED BY <3>1, <3>2
  <2>6. Deletions'
    <3>1. CASE InTable(arg[t]) # {}
      <4>1. /\ life' = [life EXCEPT ![tk[t]] = "unused"] /\ life[tk[t]] = "private"
            /\ pc' = [pc EXCEPT ![t] = "lookup"] /\ tk' = [tk EXCEPT ![t] = None]
            /\ UNCHANGED <<sd, hold, arg, key, refc, del, blockers>>
        BY <1>13, <3>1 DEF FindAdd, Goto, Additions
      <4> QED BY <1>13, <2>0, <2>1, <4>1 DEF FindAdd, TypeOK, Deletions, Deleting, Locals,
          Pointing, Protections, Protected
    <3>2. CASE InTable(arg[t]) = {}
      <4>1. /\ life' = [life EXCEPT ![tk[t]] = "linked"] /\ life[tk[t]] = "private"
            /\ pc' = [pc EXCEPT ![t] = "idle"] /\ tk' = [tk EXCEPT ![t] = None]
            /\ sd' = [sd EXCEPT ![t] = None] /\ arg' = [arg EXCEPT ![t] = None]
            /\ hold' = [hold EXCEPT ![t] = tk[t]] /\ UNCHANGED <<key, refc, del, blockers>>
        BY <1>13, <3>2 DEF FindAdd, Return, Goto, Additions
      <4> QED BY <1>13, <2>0, <2>1, <3>2, <4>1 DEF FindAdd, TypeOK, Deletions, Deleting,
          Locals, Pointing, Protections, Protected
    <3> QED BY <3>1, <3>2
  <2>7. Table'
    <3>1. CASE InTable(arg[t]) # {}
      <4>1. /\ life' = [life EXCEPT ![tk[t]] = "unused"] /\ life[tk[t]] = "private"
            /\ pc' = [pc EXCEPT ![t] = "lookup"] /\ tk' = [tk EXCEPT ![t] = None]
            /\ UNCHANGED <<sd, hold, arg, key, refc, del, blockers>>
        BY <1>13, <3>1 DEF FindAdd, Goto, Additions
      <4> QED BY <1>13, <2>0, <2>1, <4>1, HoldersKept DEF FindAdd, TypeOK, Table
    <3>2. CASE InTable(arg[t]) = {}
      <4>1. /\ life' = [life EXCEPT ![tk[t]] = "linked"] /\ life[tk[t]] = "private"
            /\ pc' = [pc EXCEPT ![t] = "idle"] /\ tk' = [tk EXCEPT ![t] = None]
            /\ sd' = [sd EXCEPT ![t] = None] /\ arg' = [arg EXCEPT ![t] = None]
            /\ hold' = [hold EXCEPT ![t] = tk[t]] /\ UNCHANGED <<key, refc, del, blockers>>
        BY <1>13, <3>2 DEF FindAdd, Return, Goto, Additions
      <4> QED BY <1>13, <2>0, <2>1, <3>2, <4>1 DEF FindAdd, TypeOK, Table, Additions, InTable,
          Locals, Finding, Holders
    <3> QED BY <3>1, <3>2
  <2>8. RefcExact'
    <3>0. PICK j \in Instances : j = tk[t]
      BY <2>0
    <3>1. LateSame
      BY <3>0, <1>13, <2>0, <2>1 DEF FindAdd, Goto, Return, LateSame, TypeOK
    <3>2. \A i \in Instances : LateFinders(i)' = LateFinders(i)
      BY <3>0, <3>1, LateKept
    <3>3. CASE InTable(arg[t]) # {}
      BY <3>0, <1>13, <2>0, <3>1, <3>3, CountsKept DEF FindAdd, TypeOK
    <3>4. CASE InTable(arg[t]) = {}
      <4>1. hold[t] = None /\ t \in Owners /\ life[j] = "private" /\ refc[j] = 1
        BY <3>0, <1>13 DEF FindAdd, Locals, Finding, Owners, Additions
      <4>2. LateFinders(j) = {} /\ Holders(j) = {} /\ ~del[j]
        BY <3>0, <1>13, <2>0, <4>1 DEF LateFinders, Protections, Protected, Locals, Pointing,
            Table
      <4>3. /\ Holders(j)' # {} /\ Cardinality(Holders(j)') = 1
            /\ \A i \in Instances \ {j} : Holders(i)' = Holders(i)
        BY <3>0, <1>13, <2>0, <3>4, <4>1, <4>2, HoldersAdd DEF FindAdd
      <4>4. life' = [life EXCEPT ![j] = "linked"] /\ UNCHANGED <<refc, del>>
        BY <3>0, <1>13, <3>4 DEF FindAdd
      <4>5. Cardinality(LateFinders(j)) = 0
        BY <3>0, <4>2, FS_EmptySet
      <4>6. /\ life'[j] = "linked" /\ refc'[j] = 1 /\ ~del'[j]
            /\ \A i \in Instances \ {j} : life'[i] = life[i] /\ refc'[i] = refc[i] /\ del'[i] = del[i]
        BY <4>1, <4>2, <4>4 DEF TypeOK
      <4> QED BY <3>2, <4>3, <4>5, <4>6 DEF RefcExact
    <3> QED BY <3>3, <3>4
  <2> QED BY <2>1, <2>2, <2>3, <2>4, <2>5, <2>6, <2>7, <2>8 DEF Inv
<1>14. ASSUME NEW t \in Threads, NEW i \in Instances, FindByIdScan(t, i) PROVE Inv'
  <2>1. TypeOK'
    BY <1>14 DEF FindByIdScan, Goto, Calls, TypeOK, Pcs, Owners
  <2>2. Locals'
    BY <1>14, <2>1 DEF FindByIdScan, Goto, Calls, TypeOK, Locals, Finding, Pointing, Owners
  <2>3. Releases'
    BY <1>14, <2>1 DEF FindByIdScan, Goto, Calls, TypeOK, Releases, Releasing, Finding,
        Pointing, Locals, Owners
  <2>4. Protections'
    BY <1>14, <2>1 DEF FindByIdScan, Goto, Calls, TypeOK, Protections, Protected, Locals,
        Pointing, Finding
  <2>5. Additions'
    BY <1>14, <2>1 DEF FindByIdScan, Goto, Calls, TypeOK, Additions, Locals, Pointing
  <2>6. Deletions'
    BY <1>14, <2>1 DEF FindByIdScan, Goto, Calls, TypeOK, Deletions, Deleting, Locals, Pointing
  <2>7. Table'
    BY <1>14, <2>1 DEF FindByIdScan, Goto, Calls, TypeOK, Table, Holders, Locals
  <2>8. RefcExact'
    <3>1. LateSame
      BY <1>14, <2>1 DEF FindByIdScan, Goto, Calls, LateSame, TypeOK
    <3> QED BY <1>14, <3>1, CountsKept DEF FindByIdScan, Goto, Calls
  <2> QED BY <2>1, <2>2, <2>3, <2>4, <2>5, <2>6, <2>7, <2>8 DEF Inv
<1>15. ASSUME NEW t \in Threads, FindByIdLoad(t) PROVE Inv'
  <2>0. tk[t] \in Instances
    BY <1>15, PointsTo DEF FindByIdLoad, Pointing
  <2>1. TypeOK'
    <3>1. refc[tk[t]] \in Int /\ key[tk[t]] \in Keys \cup {None}
      BY <2>0 DEF TypeOK
    <3>2. CASE del[tk[t]]
      BY <1>15, <2>0, <3>1, <3>2 DEF FindByIdLoad, Goto, FindInstead, TypeOK, Pcs
    <3>3. CASE ~del[tk[t]]
      BY <1>15, <2>0, <3>1, <3>3 DEF FindByIdLoad, Goto, FindInstead, TypeOK, Pcs
    <3> QED BY <3>2, <3>3
  <2>2. Locals'
    <3>1. key[tk[t]] \in Keys
      BY <1>15, <2>0 DEF FindByIdLoad, Table, Protections, Protected, Locals, Pointing
    <3>2. CASE del[tk[t]]
      BY <1>15, <2>0, <2>1, <3>1, <3>2 DEF FindByIdLoad, Goto, FindInstead, TypeOK, Locals,
          Finding, Pointing, Owners
    <3>3. CASE ~(del[tk[t]])
      BY <1>15, <2>0, <2>1, <3>1, <3>3 DEF FindByIdLoad, Goto, FindInstead, TypeOK, Locals,
          Finding, Pointing, Owners
    <3> QED BY <3>2, <3>3
  <2>3. Releases'
    BY <1>15, <2>0, <2>1 DEF FindByIdLoad, Goto, FindInstead, TypeOK, Releases, Releasing,
        Finding, Pointing, Locals, Owners
  <2>4. Protections'
    BY <1>15, <2>0, <2>1 DEF FindByIdLoad, Goto, FindInstead, TypeOK, Protections, Protected,
        Locals, Pointing, Finding
  <2>5. Additions'
    BY <1>15, <2>0, <2>1 DEF FindByIdLoad, Goto, FindInstead, TypeOK, Additions, Locals,
        Pointing, Protections, Protected, Deletions
  <2>6. Deletions'
    BY <1>15, <2>0, <2>1 DEF FindByIdLoad, Goto, FindInstead, TypeOK, Deletions, Deleting,
        Locals, Pointing
  <2>7. Table'
    BY <1>15, <2>0, <2>1 DEF FindByIdLoad, Goto, FindInstead, TypeOK, Table, Holders, Locals
  <2>8. RefcExact'
    <3>1. LateSame
      BY <1>15, <2>1 DEF FindByIdLoad, Goto, FindInstead, LateSame, TypeOK
    <3> QED BY <1>15, <3>1, CountsKept DEF FindByIdLoad, Goto, FindInstead
  <2> QED BY <2>1, <2>2, <2>3, <2>4, <2>5, <2>6, <2>7, <2>8 DEF Inv
<1>16. ASSUME NEW t \in Threads, FindByIdCas(t) PROVE Inv'
  <2>0. tk[t] \in Instances
    BY <1>16, PointsTo DEF FindByIdCas, Pointing
  <2>1. TypeOK'
    <3>1. refc' \in [Instances -> Int] /\ hold' \in [Owners -> Instances \cup {None}]
      BY <1>16, <2>0 DEF FindByIdCas, Owners, TypeOK
    <3>2. CASE refc[tk[t]] = old[t] /\ ~del[tk[t]]
      <4>1. Return(t) /\ UNCHANGED <<life, key, del, blockers, awake, rel, lock>>
        BY <1>16, <3>2 DEF FindByIdCas
      <4>2. old' \in [Threads -> Int]
        BY <1>16 DEF FindByIdCas, TypeOK
      <4> QED BY <3>1, <4>1, <4>2 DEF Return, Goto, TypeOK, Pcs
    <3>3. CASE ~(refc[tk[t]] = old[t] /\ ~del[tk[t]])
      BY <1>16, <2>0, <3>1, <3>3 DEF FindByIdCas, Goto, Return, FindInstead, TypeOK, Pcs
    <3> QED BY <3>2, <3>3
  <2>2. Locals'
    <3>1. key[tk[t]] \in Keys
      BY <1>16, <2>0 DEF FindByIdCas, Table, Protections, Protected, Locals, Pointing
    <3>2. CASE refc[tk[t]] = old[t] /\ ~del[tk[t]]
      BY <1>16, <2>0, <2>1, <3>1, <3>2 DEF FindByIdCas, Goto, Return, FindInstead, TypeOK,
          Locals, Finding, Pointing, Owners
    <3>3. CASE ~(refc[tk[t]] = old[t] /\ ~del[tk[t]])
      BY <1>16, <2>0, <2>1, <3>1, <3>3 DEF FindByIdCas, Goto, Return, FindInstead, TypeOK,
          Locals, Finding, Pointing, Owners
    <3> QED BY <3>2, <3>3
  <2>3. Releases'
    BY <1>16, <2>0, <2>1 DEF FindByIdCas, Goto, Return, FindInstead, TypeOK, Releases,
        Releasing, Finding, Pointing, Locals, Owners
  <2>4. Protections'
    BY <1>16, <2>0, <2>1 DEF FindByIdCas, Goto, Return, FindInstead, TypeOK, Protections,
        Protected, Locals, Pointing, Finding
  <2>5. Additions'
    <3>1. CASE refc[tk[t]] = old[t] /\ ~del[tk[t]]
      <4>1. life[tk[t]] = "linked"
        BY <1>16, <2>0, <3>1, UnmarkedLinked DEF FindByIdCas, Locals, Pointing, Protections,
            Protected
      <4> QED BY <1>16, <2>0, <2>1, <3>1, <4>1 DEF FindByIdCas, Goto, Return, FindInstead,
          TypeOK, Additions, Locals, Pointing
    <3>2. CASE ~(refc[tk[t]] = old[t] /\ ~del[tk[t]])
      BY <1>16, <2>0, <2>1, <3>2 DEF FindByIdCas, Goto, Return, FindInstead, TypeOK, Additions,
          Locals, Pointing
    <3> QED BY <3>1, <3>2
  <2>6. Deletions'
    BY <1>16, <2>0, <2>1 DEF FindByIdCas, Goto, Return, FindInstead, TypeOK, Deletions,
        Deleting, Locals, Pointing
  <2>7. Table'
    <3>1. CASE refc[tk[t]] = old[t] /\ ~del[tk[t]]
      <4>1. life[tk[t]] = "linked" /\ hold' = [hold EXCEPT ![t] = tk[t]] /\ UNCHANGED <<life, key, del>>
        BY <1>16, <2>0, <3>1, UnmarkedLinked DEF FindByIdCas, Locals, Pointing, Protections,
            Protected
      <4> QED BY <2>0, <4>1 DEF Table, Holders, TypeOK
    <3>2. CASE ~(refc[tk[t]] = old[t] /\ ~del[tk[t]])
      <4>1. hold' = hold /\ UNCHANGED <<life, key, del>>
        BY <1>16, <3>2 DEF FindByIdCas
      <4> QED BY <4>1, HoldersKept DEF Table
    <3> QED BY <3>1, <3>2
  <2>8. RefcExact'
    <3>0. PICK j \in Instances : j = tk[t]
      BY <2>0
    <3>1. LateSame
      BY <3>0, <1>16, <2>0, <2>1 DEF FindByIdCas, Goto, Return, FindInstead, LateSame, TypeOK
    <3>2. \A i \in Instances : LateFinders(i)' = LateFinders(i)
      BY <3>0, <3>1, LateKept
    <3>3. CASE ~(refc[j] = old[t] /\ ~del[j])
      BY <3>0, <1>16, <3>1, <3>3, CountsKept DEF FindByIdCas
    <3>4. CASE refc[j] = old[t] /\ ~del[j]
      <4>1. hold[t] = None /\ t \in Owners /\ life[j] \notin {"unused", "private"}
        BY <3>0, <1>16, <2>0 DEF FindByIdCas, Locals, Finding, Pointing, Owners, Protections,
            Protected
      <4>2. life[j] = "linked"
        BY <3>0, <2>0, <3>4, <4>1, UnmarkedLinked
      <4>3. /\ Holders(j)' # {} /\ Cardinality(Holders(j)') = Cardinality(Holders(j)) + 1
            /\ \A i \in Instances \ {j} : Holders(i)' = Holders(i)
        BY <3>0, <1>16, <2>0, <3>4, <4>1, HoldersAdd DEF FindByIdCas
      <4>4. refc' = [refc EXCEPT ![j] = @ + 1] /\ UNCHANGED <<life, del>>
        BY <3>0, <1>16, <3>4 DEF FindByIdCas
      <4>5. /\ life'[j] = "linked" /\ refc'[j] = refc[j] + 1 /\ ~del'[j]
            /\ \A i \in Instances \ {j} : life'[i] = life[i] /\ refc'[i] = refc[i] /\ del'[i] = del[i]
        BY <3>0, <3>4, <4>2, <4>4 DEF TypeOK
      <4> QED BY <3>2, <4>2, <4>3, <4>5, CountsNat DEF RefcExact
    <3> QED BY <3>3, <3>4
  <2> QED BY <2>1, <2>2, <2>3, <2>4, <2>5, <2>6, <2>7, <2>8 DEF Inv
<1>17. ASSUME NEW t \in Threads, NEW c \in Caches, InstanceRef(t, c) PROVE Inv'
  <2>h. hold[t] \in Instances /\ life[hold[t]] = "linked" /\ ~del[hold[t]]
    BY <1>17, HeldLinked DEF InstanceRef, Calls, Owners
  <2>1. TypeOK'
    <3>1. refc' \in [Instances -> Int]
      BY <1>17, <2>h DEF InstanceRef, TypeOK
    <3> QED BY <1>17, <2>h, <3>1 DEF InstanceRef, Calls, TypeOK, Pcs, Owners
  <2>2. Locals'
    BY <1>17, <2>h, <2>1 DEF InstanceRef, Calls, TypeOK, Locals, Finding, Pointing, Owners
  <2>3. Releases'
    BY <1>17, <2>h, <2>1 DEF InstanceRef, Calls, TypeOK, Releases, Releasing, Finding,
        Pointing, Locals, Owners
  <2>4. Protections'
    BY <1>17, <2>h, <2>1 DEF InstanceRef, Calls, TypeOK, Protections, Protected, Locals,
        Pointing, Finding
  <2>5. Additions'
    BY <1>17, <2>h, <2>1 DEF InstanceRef, Calls, TypeOK, Additions, Locals, Pointing,
        Protections, Protected, Deletions
  <2>6. Deletions'
    BY <1>17, <2>h, <2>1 DEF InstanceRef, Calls, TypeOK, Deletions, Deleting, Locals, Pointing
  <2>7. Table'
    BY <1>17, <2>h, <2>1 DEF InstanceRef, Calls, TypeOK, Table, Holders, Locals
  <2>8. RefcExact'
    <3>0. PICK j \in Instances : j = hold[t]
      BY <2>h
    <3>1. LateSame
      BY <3>0, <1>17 DEF InstanceRef, LateSame
    <3>2. \A i \in Instances : LateFinders(i)' = LateFinders(i)
      BY <3>0, <3>1, LateKept
    <3>3. /\ Holders(j)' # {} /\ Cardinality(Holders(j)') = Cardinality(Holders(j)) + 1
          /\ \A i \in Instances \ {j} : Holders(i)' = Holders(i)
      BY <3>0, <1>17, <2>h, HoldersAdd DEF InstanceRef, Owners
    <3>4. refc' = [refc EXCEPT ![j] = @ + 1] /\ UNCHANGED <<life, del>>
      BY <3>0, <1>17 DEF InstanceRef
    <3> QED BY <3>0, <2>h, <3>2, <3>3, <3>4, CountsNat DEF RefcExact, TypeOK
  <2> QED BY <2>1, <2>2, <2>3, <2>4, <2>5, <2>6, <2>7, <2>8 DEF Inv
<1>18. ASSUME NEW t \in Threads, NEW o \in Owners, UnrefBegin(t, o) PROVE Inv'
  <2>h. hold[o] \in Instances /\ life[hold[o]] = "linked" /\ ~del[hold[o]]
    BY <1>18, HeldLinked DEF UnrefBegin, Goto, Calls
  <2>1. TypeOK'
    BY <1>18, <2>h DEF UnrefBegin, Goto, Calls, TypeOK, Pcs, Owners
  <2>2. Locals'
    BY <1>18, <2>h, <2>1 DEF UnrefBegin, Goto, Calls, TypeOK, Locals, Finding, Pointing, Owners
  <2>3. Releases'
    BY <1>18, <2>h, <2>1 DEF UnrefBegin, Goto, Calls, TypeOK, Releases, Releasing, Finding,
        Pointing, Locals, Owners
  <2>4. Protections'
    BY <1>18, <2>h, <2>1 DEF UnrefBegin, Goto, Calls, TypeOK, Protections, Protected, Locals,
        Pointing, Finding
  <2>5. Additions'
    BY <1>18, <2>h, <2>1 DEF UnrefBegin, Goto, Calls, TypeOK, Additions, Locals, Pointing
  <2>6. Deletions'
    BY <1>18, <2>h, <2>1 DEF UnrefBegin, Goto, Calls, TypeOK, Deletions, Deleting, Locals,
        Pointing
  <2>7. Table'
    BY <1>18, <2>h, <2>1 DEF UnrefBegin, Goto, Calls, TypeOK, Table, Holders, Locals
  <2>8. RefcExact'
    <3>1. LateSame
      BY <1>18, <2>1 DEF UnrefBegin, Goto, Calls, LateSame, TypeOK
    <3> QED BY <1>18, <3>1, CountsKept DEF UnrefBegin, Goto, Calls
  <2> QED BY <2>1, <2>2, <2>3, <2>4, <2>5, <2>6, <2>7, <2>8 DEF Inv
<1>19. ASSUME NEW t \in Threads, UnrefLoad(t) PROVE Inv'
  <2>0. tk[t] \in Instances
    BY <1>19, PointsTo DEF UnrefLoad, Pointing
  <2>1. TypeOK'
    BY <1>19, <2>0 DEF UnrefLoad, Goto, TypeOK, Pcs, Owners
  <2>2. Locals'
    BY <1>19, <2>0, <2>1 DEF UnrefLoad, Goto, TypeOK, Locals, Finding, Pointing, Owners
  <2>3. Releases'
    BY <1>19, <2>0, <2>1 DEF UnrefLoad, Goto, TypeOK, Releases, Releasing, Finding, Pointing,
        Locals, Owners
  <2>4. Protections'
    BY <1>19, <2>0, <2>1 DEF UnrefLoad, Goto, TypeOK, Protections, Protected, Locals, Pointing,
        Finding
  <2>5. Additions'
    BY <1>19, <2>0, <2>1 DEF UnrefLoad, Goto, TypeOK, Additions, Locals, Pointing, Protections,
        Protected, Deletions
  <2>6. Deletions'
    BY <1>19, <2>0, <2>1 DEF UnrefLoad, Goto, TypeOK, Deletions, Deleting, Locals, Pointing
  <2>7. Table'
    BY <1>19, <2>0, <2>1 DEF UnrefLoad, Goto, TypeOK, Table, Holders, Locals
  <2>8. RefcExact'
    <3>1. LateSame
      BY <1>19, <2>1 DEF UnrefLoad, Goto, LateSame, TypeOK
    <3> QED BY <1>19, <3>1, CountsKept DEF UnrefLoad, Goto
  <2> QED BY <2>1, <2>2, <2>3, <2>4, <2>5, <2>6, <2>7, <2>8 DEF Inv
<1>20. ASSUME NEW t \in Threads, UnrefCas(t) PROVE Inv'
  <2>0. tk[t] \in Instances
    BY <1>20, PointsTo DEF UnrefCas, Pointing
  <2>h. /\ rel[t] \in Owners /\ rel[t] # None /\ hold[rel[t]] = tk[t]
        /\ life[tk[t]] = "linked" /\ ~del[tk[t]]
    BY <1>20, <2>0, HeldLinked DEF UnrefCas, Releases, Releasing, Owners, TypeOK
  <2>1. TypeOK'
    <3>1. refc' \in [Instances -> Int] /\ hold' \in [Owners -> Instances \cup {None}]
      BY <1>20, <2>0, <2>h DEF UnrefCas, TypeOK
    <3>2. CASE refc[tk[t]] = old[t] /\ ~del[tk[t]]
      <4>1. old' \in [Threads -> Int] /\ rel' \in [Threads -> Owners \cup {None}]
        BY <1>20 DEF UnrefCas, TypeOK
      <4>2. del' \in [Instances -> BOOLEAN]
        BY <1>20, <2>0, <3>2 DEF UnrefCas, TypeOK
      <4> QED BY <1>20, <3>1, <3>2, <4>1, <4>2 DEF UnrefCas, Goto, TypeOK, Pcs
    <3>3. CASE ~(refc[tk[t]] = old[t] /\ ~del[tk[t]])
      BY <1>20, <2>0, <2>h, <3>1, <3>3 DEF UnrefCas, Goto, TypeOK, Pcs
    <3> QED BY <3>2, <3>3
  <2>2. Locals'
    BY <1>20, <2>0, <2>h, <2>1 DEF UnrefCas, Goto, TypeOK, Locals, Finding, Pointing, Owners
  <2>3. Releases'
    BY <1>20, <2>0, <2>h, <2>1 DEF UnrefCas, Goto, TypeOK, Releases, Releasing, Finding,
        Pointing, Locals, Owners
  <2>4. Protections'
    BY <1>20, <2>0, <2>h, <2>1 DEF UnrefCas, Goto, TypeOK, Protections, Protected, Locals,
        Pointing, Finding
  <2>5. Additions'
    <3>1. CASE refc[tk[t]] = old[t] /\ ~del[tk[t]]
      <4>1. CASE old[t] = 1
        BY <1>20, <2>0, <2>h, <2>1, <3>1, <4>1 DEF UnrefCas, Goto, TypeOK, Additions, Locals,
            Pointing
      <4>2. CASE old[t] # 1
        BY <1>20, <2>0, <2>h, <2>1, <3>1, <4>2 DEF UnrefCas, Goto, TypeOK, Additions, Locals,
            Pointing
      <4> QED BY <4>1, <4>2
    <3>2. CASE ~(refc[tk[t]] = old[t] /\ ~del[tk[t]])
      BY <1>20, <2>0, <2>h, <2>1, <3>2 DEF UnrefCas, Goto, TypeOK, Additions, Locals, Pointing
    <3> QED BY <3>1, <3>2
  <2>6. Deletions'
    <3>1. CASE refc[tk[t]] = old[t] /\ ~del[tk[t]]
      <4>1. CASE old[t] = 1
        BY <1>20, <2>0, <2>h, <2>1, <3>1, <4>1 DEF UnrefCas, Goto, TypeOK, Deletions, Deleting,
            Locals, Pointing
      <4>2. CASE old[t] # 1
        BY <1>20, <2>0, <2>h, <2>1, <3>1, <4>2 DEF UnrefCas, Goto, TypeOK, Deletions, Deleting,
            Locals, Pointing
      <4> QED BY <4>1, <4>2
    <3>2. CASE ~(refc[tk[t]] = old[t] /\ ~del[tk[t]])
      BY <1>20, <2>0, <2>h, <2>1, <3>2 DEF UnrefCas, Goto, TypeOK, Deletions, Deleting, Locals,
          Pointing
    <3> QED BY <3>1, <3>2
  <2>7. Table'
    BY <1>20, <2>0, <2>h, <2>1 DEF UnrefCas, Goto, TypeOK, Table, Holders, Locals
  <2>8. RefcExact'
    <3>0. PICK j \in Instances : j = tk[t]
      BY <2>0
    <3>1. LateSame
      BY <3>0, <1>20, <2>0, <2>1 DEF UnrefCas, Goto, LateSame, TypeOK
    <3>2. \A i \in Instances : LateFinders(i)' = LateFinders(i)
      BY <3>0, <3>1, LateKept
    <3>3. CASE ~(refc[j] = old[t] /\ ~del[j])
      BY <3>0, <1>20, <3>1, <3>3, CountsKept DEF UnrefCas
    <3>4. CASE refc[j] = old[t] /\ ~del[j]
      <4>1. /\ Holders(j)' = {} <=> Cardinality(Holders(j)) = 1
            /\ Cardinality(Holders(j)') = Cardinality(Holders(j)) - 1
            /\ \A i \in Instances \ {j} : Holders(i)' = Holders(i)
        BY <3>0, <1>20, <2>0, <2>h, <3>4, HoldersDrop DEF UnrefCas
      <4>2. refc[j] = Cardinality(Holders(j)) /\ LateFinders(j) = {}
        BY <3>0, <2>0, <2>h, UnmarkedLinked
      <4>3. /\ refc' = [refc EXCEPT ![j] = @ - 1] /\ UNCHANGED life
            /\ del' = [del EXCEPT ![j] = refc[j] = 1]
        BY <3>0, <1>20, <3>4 DEF UnrefCas
      <4>4. Cardinality(LateFinders(j)) = 0
        BY <3>0, <4>2, FS_EmptySet
      <4>5. /\ life'[j] = "linked" /\ refc'[j] = refc[j] - 1 /\ (del'[j] <=> refc[j] = 1)
            /\ \A i \in Instances \ {j} : life'[i] = life[i] /\ refc'[i] = refc[i] /\ del'[i] = del[i]
        BY <3>0, <2>h, <4>3 DEF TypeOK
      <4>6. refc'[j] = Cardinality(Holders(j)') + Cardinality(LateFinders(j)')
        <5>1. Cardinality(Holders(j)) \in Int /\ Cardinality(LateFinders(j)') = 0
          BY <3>2, <4>4, CountsNat
        <5> QED BY <4>1, <4>2, <4>5, <5>1
      <4>7. del'[j] <=> Holders(j)' = {}
        BY <4>1, <4>2, <4>5
      <4> QED BY <3>2, <4>1, <4>5, <4>6, <4>7 DEF RefcExact
    <3> QED BY <3>3, <3>4
  <2> QED BY <2>1, <2>2, <2>3, <2>4, <2>5, <2>6, <2>7, <2>8 DEF Inv
<1>21. ASSUME NEW t \in Threads, UnrefRemove(t) PROVE Inv'
  <2>0. tk[t] \in Instances
    BY <1>21, PointsTo DEF UnrefRemove, Pointing
  <2>1. TypeOK'
    BY <1>21, <2>0 DEF UnrefRemove, Goto, TypeOK, Pcs, Owners
  <2>2. Locals'
    BY <1>21, <2>0, <2>1 DEF UnrefRemove, Goto, TypeOK, Locals, Finding, Pointing, Owners
  <2>3. Releases'
    BY <1>21, <2>0, <2>1 DEF UnrefRemove, Goto, TypeOK, Releases, Releasing, Finding, Pointing,
        Locals, Owners
  <2>4. Protections'
    BY <1>21, <2>0, <2>1 DEF UnrefRemove, Goto, TypeOK, Protections, Protected, Locals,
        Pointing, Finding
  <2>5. Additions'
    BY <1>21, <2>0, <2>1 DEF UnrefRemove, Goto, TypeOK, Additions, Locals, Pointing,
        Protections, Protected, Deletions
  <2>6. Deletions'
    BY <1>21, <2>0, <2>1 DEF UnrefRemove, Goto, TypeOK, Deletions, Deleting, Locals, Pointing
  <2>7. Table'
    BY <1>21, <2>0, HoldersKept DEF UnrefRemove, TypeOK, Table, Deletions
  <2>8. RefcExact'
    <3>1. LateSame
      BY <1>21, <2>1 DEF UnrefRemove, Goto, LateSame, TypeOK
    <3>2. Holders(tk[t]) = {} /\ life[tk[t]] \notin {"unused", "private"}
      BY <1>21, <2>0 DEF UnrefRemove, Deletions, RefcExact
    <3> QED BY <1>21, <2>0, <3>1, <3>2, CountsKept DEF UnrefRemove, Goto, TypeOK
  <2> QED BY <2>1, <2>2, <2>3, <2>4, <2>5, <2>6, <2>7, <2>8 DEF Inv
<1>22. ASSUME NEW t \in Threads, UnrefBroadcast(t) PROVE Inv'
  <2>0. tk[t] \in Instances
    BY <1>22, PointsTo DEF UnrefBroadcast, Pointing
  <2>1. TypeOK'
    BY <1>22, <2>0 DEF UnrefBroadcast, TypeOK, Pcs, Owners
  <2>2. Locals'
    BY <1>22, <2>0, <2>1 DEF UnrefBroadcast, TypeOK, Locals, Finding, Pointing, Owners
  <2>3. Releases'
    BY <1>22, <2>0, <2>1 DEF UnrefBroadcast, TypeOK, Releases, Releasing, Finding, Pointing,
        Locals, Owners
  <2>4. Protections'
    BY <1>22, <2>0, <2>1 DEF UnrefBroadcast, TypeOK, Protections, Protected, Locals, Pointing,
        Finding
  <2>5. Additions'
    BY <1>22, <2>0, <2>1 DEF UnrefBroadcast, TypeOK, Additions, Locals, Pointing, Protections,
        Protected, Deletions
  <2>6. Deletions'
    BY <1>22, <2>0, <2>1 DEF UnrefBroadcast, TypeOK, Deletions, Deleting, Locals, Pointing
  <2>7. Table'
    BY <1>22, <2>0, <2>1 DEF UnrefBroadcast, TypeOK, Table, Holders, Locals
  <2>8. RefcExact'
    <3>1. LateSame
      BY <1>22, <2>1 DEF UnrefBroadcast, LateSame, TypeOK
    <3> QED BY <1>22, <3>1, CountsKept DEF UnrefBroadcast
  <2> QED BY <2>1, <2>2, <2>3, <2>4, <2>5, <2>6, <2>7, <2>8 DEF Inv
<1>23. ASSUME NEW t \in Threads, GcTkmapInstance(t) PROVE Inv'
  <2>0. tk[t] \in Instances
    BY <1>23, PointsTo DEF GcTkmapInstance, Pointing
  <2>1. TypeOK'
    BY <1>23, <2>0 DEF GcTkmapInstance, Goto, TypeOK, Pcs, Owners
  <2>2. Locals'
    BY <1>23, <2>0, <2>1 DEF GcTkmapInstance, Goto, TypeOK, Locals, Finding, Pointing, Owners
  <2>3. Releases'
    BY <1>23, <2>0, <2>1 DEF GcTkmapInstance, Goto, TypeOK, Releases, Releasing, Finding,
        Pointing, Locals, Owners
  <2>4. Protections'
    BY <1>23, <2>0, <2>1 DEF GcTkmapInstance, Goto, TypeOK, Protections, Protected, Locals,
        Pointing, Finding
  <2>5. Additions'
    BY <1>23, <2>0, <2>1 DEF GcTkmapInstance, Goto, TypeOK, Additions, Locals, Pointing,
        Protections, Protected, Deletions
  <2>6. Deletions'
    BY <1>23, <2>0, <2>1 DEF GcTkmapInstance, Goto, TypeOK, Deletions, Deleting, Locals, Pointing
  <2>7. Table'
    BY <1>23, <2>0, HoldersKept DEF GcTkmapInstance, TypeOK, Table, Deletions
  <2>8. RefcExact'
    <3>1. LateSame
      BY <1>23, <2>1 DEF GcTkmapInstance, Goto, LateSame, TypeOK
    <3>2. Holders(tk[t]) = {} /\ life[tk[t]] \notin {"unused", "private"}
      BY <1>23, <2>0 DEF GcTkmapInstance, Deletions, RefcExact
    <3> QED BY <1>23, <2>0, <3>1, <3>2, CountsKept DEF GcTkmapInstance, Goto, TypeOK
  <2> QED BY <2>1, <2>2, <2>3, <2>4, <2>5, <2>6, <2>7, <2>8 DEF Inv
<1>24. ASSUME NEW i \in Instances, GcTkmapInstanceImpl(i) PROVE Inv'
  <2>1. TypeOK'
    BY <1>24 DEF GcTkmapInstanceImpl, TypeOK, Pcs, Owners
  <2>2. Locals'
    BY <1>24, <2>1 DEF GcTkmapInstanceImpl, TypeOK, Locals, Finding, Pointing, Owners
  <2>3. Releases'
    BY <1>24, <2>1 DEF GcTkmapInstanceImpl, TypeOK, Releases, Releasing, Finding, Pointing,
        Locals, Owners
  <2>4. Protections'
    BY <1>24, <2>1 DEF GcTkmapInstanceImpl, TypeOK, Protections, Protected, Locals, Pointing,
        Finding
  <2>5. Additions'
    BY <1>24, <2>1 DEF GcTkmapInstanceImpl, TypeOK, Additions, Locals, Pointing
  <2>6. Deletions'
    BY <1>24, <2>1 DEF GcTkmapInstanceImpl, TypeOK, Deletions, Deleting, Locals, Pointing
  <2>7. Table'
    BY <1>24, <2>1 DEF GcTkmapInstanceImpl, TypeOK, Table, Holders, Locals
  <2>8. RefcExact'
    <3>1. LateSame
      BY <1>24, <2>1 DEF GcTkmapInstanceImpl, LateSame, TypeOK
    <3> QED BY <1>24, <3>1, CountsKept DEF GcTkmapInstanceImpl, TypeOK, RefcExact
  <2> QED BY <2>1, <2>2, <2>3, <2>4, <2>5, <2>6, <2>7, <2>8 DEF Inv
<1>25. CASE UNCHANGED vars
  <2>1. TypeOK' /\ Locals' /\ Releases' /\ Protections' /\ Additions' /\ Deletions'
    BY <1>25 DEF TypeOK, Locals, Releases, Protections, Protected, Additions, Deletions
  <2>2. Table'
    BY <1>25, HoldersKept DEF Table
  <2>3. LateSame
    BY <1>25 DEF LateSame
  <2>4. RefcExact'
    BY <1>25, <2>3, CountsKept
  <2> QED BY <2>1, <2>2, <2>4 DEF Inv
<1> QED BY <1>1, <1>2, <1>3, <1>4, <1>5, <1>6, <1>7, <1>8, <1>9, <1>10, <1>11, <1>12, <1>13,
    <1>14, <1>15, <1>16, <1>17, <1>18, <1>19, <1>20, <1>21, <1>22, <1>23, <1>24,
    <1>25 DEF Next, Begin, Continue

LEMMA AlwaysInv == Spec => []Inv
<1>1. Inv /\ [Next]_vars => Inv'
  BY NextInv
<1>2. QED
  BY InitInv, <1>1, PTL DEF Spec

\* Type correctness of the map's memory, its calls and its lock.
THEOREM TypeCorrect == Spec => []TypeOK
<1>1. Inv => TypeOK
  BY DEF Inv
<1>2. QED
  BY AlwaysInv, <1>1, PTL

\* The counts of ddsi_tkmap.c, for any number of threads, caches and keys.
THEOREM RefcCorrect == Spec => []RefcExact
<1>1. Inv => RefcExact
  BY DEF Inv
<1>2. QED
  BY AlwaysInv, <1>1, PTL

\* Neither a pointer found in the hash table nor a counted reference leads to
\* memory that gc_tkmap_instance_impl has freed.
THEOREM Safe == Spec => []NoUseAfterFree
<1>1. Inv => NoUseAfterFree
  <2> SUFFICES ASSUME Inv PROVE NoUseAfterFree
    OBVIOUS
  <2>1. \A o \in Owners : hold[o] # None => life[hold[o]] # "freed"
    BY HeldLinked DEF Inv
  <2>2. \A t \in Threads : \A i \in {tk[t], sd[t]} \ {None} : life[i] # "freed"
    BY DEF Inv, Protections, Protected, Additions
  <2>3. QED
    BY <2>1, <2>2 DEF NoUseAfterFree
<1>2. QED
  BY AlwaysInv, <1>1, PTL

-----------------------------------------------------------------------------
(* Refinement: the references and the unmarked instances of the table, seen  *)
(* as the map from keys to ids that KeyMap describes.                        *)

Live(i) == life[i] = "linked" /\ ~del[i]
Used(i) == life[i] \in {"linked", "removed", "retired", "freed"}

\* The instance bound to a key is the one in the table that is not marked.
BoundIsLive ==
  \A k \in Keys : /\ Bound(k) \in Instances \cup {None}
                  /\ \A i \in Instances : Bound(k) = i <=> Live(i) /\ key[i] = k

LEMMA BoundLive == TypeOK /\ Table => BoundIsLive
<1> SUFFICES ASSUME TypeOK, Table, NEW k \in Keys
    PROVE  /\ Bound(k) \in Instances \cup {None}
           /\ \A i \in Instances : Bound(k) = i <=> Live(i) /\ key[i] = k
  BY DEF BoundIsLive
<1> DEFINE live == {i \in InTable(k) : ~del[i]}
<1>1. \A i \in Instances : i \in live <=> Live(i) /\ key[i] = k
  BY DEF InTable, Live
<1>2. \A i, j \in live : i = j
  BY DEF InTable, Table
<1>3. live \subseteq Instances
  BY DEF InTable
<1>4. Bound(k) = IF live = {} THEN None ELSE CHOOSE i \in live : TRUE
  BY DEF Bound
<1> HIDE DEF live
<1>5. CASE live = {}
  BY <1>1, <1>4, <1>5, NoneElsewhere
<1>6. CASE live # {}
  <2>1. Bound(k) \in live
    BY <1>4, <1>6
  <2>2. QED
    BY <1>1, <1>2, <1>3, <2>1
<1>7. QED
  BY <1>5, <1>6

LEMMA BoundLiveNext == TypeOK' /\ Table' => BoundIsLive'
  BY BoundLive, PTL

\* Steps that neither bind nor unbind a key.
LiveSame == \A i \in Instances, k \in Keys : (Live(i)' /\ key'[i] = k) <=> (Live(i) /\ key[i] = k)
UsedSame == \A i \in Instances : Used(i)' <=> Used(i)

LEMMA BoundKept ==
  ASSUME BoundIsLive, BoundIsLive', LiveSame
  PROVE  \A k \in Keys : Bound(k)' = Bound(k)
<1> SUFFICES ASSUME NEW k \in Keys PROVE Bound(k)' = Bound(k)
  OBVIOUS
<1>1. /\ Bound(k)' \in Instances \cup {None}
      /\ \A i \in Instances : Bound(k)' = i <=> Live(i)' /\ key'[i] = k
  BY DEF BoundIsLive
<1>2. /\ Bound(k) \in Instances \cup {None}
      /\ \A i \in Instances : Bound(k) = i <=> Live(i) /\ key[i] = k
  BY DEF BoundIsLive
<1>3. QED
  BY <1>1, <1>2 DEF LiveSame

LEMMA UsedKept == ASSUME UsedSame
  PROVE {i \in Instances : life[i] \in {"linked", "removed", "retired", "freed"}}'
          = {i \in Instances : life[i] \in {"linked", "removed", "retired", "freed"}}
  BY DEF UsedSame, Used

LEMMA Stutters ==
  ASSUME BoundIsLive, BoundIsLive', LiveSame, UsedSame, hold' = hold
  PROVE  UNCHANGED KM!kvars
  BY BoundKept, UsedKept DEF KM!kvars

\* Every step is one of KeyMap's or leaves its variables alone.
LEMMA StepImplementsKeyMap ==
  ASSUME Inv, Inv', [Next]_vars PROVE [KM!Next]_(KM!kvars)
<1> USE NoneElsewhere
<1> /\ TypeOK /\ Locals /\ Releases /\ Protections /\ Additions /\ Deletions /\ Table /\ RefcExact
    /\ TypeOK' /\ RefcExact' /\ BoundIsLive /\ BoundIsLive'
  BY BoundLive, BoundLiveNext DEF Inv
<1>1. ASSUME UNCHANGED <<life, key, del, hold>> PROVE UNCHANGED KM!kvars
  <2>1. LiveSame /\ UsedSame
    BY <1>1 DEF LiveSame, UsedSame, Live, Used
  <2>2. QED
    BY <1>1, <2>1, Stutters
<1>2. ASSUME NEW t \in Threads, FindAlloc(t) PROVE UNCHANGED KM!kvars
  <2>1. PICK i \in Instances : /\ life[i] = "unused" /\ life' = [life EXCEPT ![i] = "private"]
                              /\ key' = [key EXCEPT ![i] = arg[t]]
    BY <1>2 DEF FindAlloc
  <2>2. LiveSame /\ UsedSame
    BY <1>2, <2>1 DEF FindAlloc, LiveSame, UsedSame, Live, Used, TypeOK
  <2>3. QED
    BY <1>2, <2>2, Stutters DEF FindAlloc
<1>3. ASSUME NEW t \in Threads, UnrefRemove(t) PROVE UNCHANGED KM!kvars
  <2>1. LiveSame /\ UsedSame
    BY <1>3, PointsTo DEF UnrefRemove, Pointing, LiveSame, UsedSame, Live, Used, TypeOK, Deletions
  <2>2. QED
    BY <1>3, <2>1, Stutters DEF UnrefRemove
<1>4. ASSUME NEW t \in Threads, GcTkmapInstance(t) PROVE UNCHANGED KM!kvars
  <2>1. LiveSame /\ UsedSame
    BY <1>4, PointsTo DEF GcTkmapInstance, Pointing, LiveSame, UsedSame, Live, Used, TypeOK,
        Deletions
  <2>2. QED
    BY <1>4, <2>1, Stutters DEF GcTkmapInstance
<1>5. ASSUME NEW i \in Instances, GcTkmapInstanceImpl(i) PROVE UNCHANGED KM!kvars
  <2>1. LiveSame /\ UsedSame
    BY <1>5 DEF GcTkmapInstanceImpl, LiveSame, UsedSame, Live, Used, TypeOK
  <2>2. QED
    BY <1>5, <2>1, Stutters DEF GcTkmapInstanceImpl
\* ddsi_tkmap_find and ddsi_tkmap_find_by_id take a reference to what is bound.
<1>6. ASSUME NEW t \in Threads, FindInc(t) \/ FindByIdCas(t)
      PROVE  KM!Next \/ UNCHANGED KM!kvars
  <2>1. tk[t] \in Instances /\ hold[t] = None /\ t \in Owners
    BY <1>6, PointsTo DEF FindInc, FindByIdCas, Pointing, Finding, Locals, Owners
  <2>2. UNCHANGED <<life, key, del>>
    BY <1>6 DEF FindInc, FindByIdCas
  <2>3. CASE hold' = hold
    BY <1>1, <2>2, <2>3
  <2>4. CASE hold' # hold
    <3>1. hold' = [hold EXCEPT ![t] = tk[t]] /\ ~del[tk[t]]
      BY <1>6, <2>4 DEF FindInc, FindByIdCas
    <3>2. life[tk[t]] \notin {"unused", "private"} /\ key[tk[t]] \in Keys
      BY <1>6, <2>1 DEF FindInc, FindByIdCas, Protections, Protected, Locals, Pointing, Table
    <3>3. Live(tk[t])
      BY <2>1, <3>1, <3>2, UnmarkedLinked DEF Live
    <3>4. Bound(key[tk[t]]) = tk[t]
      BY <2>1, <3>2, <3>3 DEF BoundIsLive
    <3>5. LiveSame /\ UsedSame
      BY <2>2 DEF LiveSame, UsedSame, Live, Used
    <3>6. \A k \in Keys : Bound(k)' = Bound(k)
      BY <3>5, BoundKept
    <3>7. KM!Acquire(t, key[tk[t]])
      BY <2>1, <3>1, <3>2, <3>4, <3>5, <3>6, UsedKept DEF KM!Acquire
    <3>8. QED
      BY <2>1, <3>2, <3>7 DEF KM!Next
  <2>5. QED
    BY <2>3, <2>4
\* ddsrt_chh_add succeeds: nothing was bound to the key, and the id is new.
<1>7. ASSUME NEW t \in Threads, FindAdd(t) PROVE KM!Next \/ UNCHANGED KM!kvars
  <2> PICK j \in Instances : j = tk[t]
    BY <1>7, PointsTo DEF FindAdd, Pointing
  <2>1. /\ hold[t] = None /\ t \in Owners /\ arg[t] \in Keys
        /\ life[j] = "private" /\ key[j] = arg[t]
        /\ UNCHANGED <<key, del>>
    BY <1>7 DEF FindAdd, Locals, Finding, Additions, Owners
  <2>2. CASE InTable(arg[t]) # {}
    <3>1. hold' = hold /\ life' = [life EXCEPT ![j] = "unused"]
      BY <1>7, <2>2 DEF FindAdd
    <3>2. LiveSame /\ UsedSame
      BY <2>1, <3>1 DEF LiveSame, UsedSame, Live, Used, TypeOK
    <3>3. QED
      BY <3>1, <3>2, Stutters
  <2>3. CASE InTable(arg[t]) = {}
    <3>1. hold' = [hold EXCEPT ![t] = j] /\ life' = [life EXCEPT ![j] = "linked"]
      BY <1>7, <2>3 DEF FindAdd
    <3>2. \A i \in Instances : ~(Live(i) /\ key[i] = arg[t])
      BY <2>3 DEF InTable, Live
    <3>3. Bound(arg[t]) = None
      BY <2>1, <3>2 DEF BoundIsLive
    <3>4. Live(j)' /\ Used(j)' /\ ~Used(j)
      BY <2>1, <3>1 DEF Live, Used, TypeOK, Table
    <3>5. \A i \in Instances \ {j} : (Live(i)' <=> Live(i)) /\ (Used(i)' <=> Used(i))
      BY <2>1, <3>1 DEF Live, Used, TypeOK
    <3>6. \A k \in Keys : Bound(k)' = IF k = arg[t] THEN j ELSE Bound(k)
      <4> SUFFICES ASSUME NEW k \in Keys PROVE Bound(k)' = IF k = arg[t] THEN j ELSE Bound(k)
        OBVIOUS
      <4>1. /\ Bound(k)' \in Instances \cup {None}
            /\ \A i \in Instances : Bound(k)' = i <=> Live(i)' /\ key[i] = k
        BY <2>1 DEF BoundIsLive
      <4>2. /\ Bound(k) \in Instances \cup {None}
            /\ \A i \in Instances : Bound(k) = i <=> Live(i) /\ key[i] = k
        BY DEF BoundIsLive
      <4>3. CASE k = arg[t]
        BY <2>1, <3>4, <4>1, <4>3
      <4>4. CASE k # arg[t]
        BY <2>1, <3>5, <4>1, <4>2, <4>4
      <4>5. QED
        BY <4>3, <4>4
    <3>7. {i \in Instances : Used(i)}' = {i \in Instances : Used(i)} \cup {j}
      BY <3>4, <3>5
    <3>8. KM!Create(t, arg[t], j)
      BY <2>1, <3>1, <3>3, <3>4, <3>6, <3>7 DEF KM!Create, Used
    <3>9. QED
      BY <2>1, <3>8 DEF KM!Next
  <2>4. QED
    BY <2>2, <2>3
<1>8. ASSUME NEW t \in Threads, NEW c \in Caches, InstanceRef(t, c) PROVE KM!Next
  <2>1. t \in Owners /\ c \in Owners /\ hold[t] # None /\ hold[c] = None
    BY <1>8 DEF InstanceRef, Owners
  <2>2. LiveSame /\ UsedSame
    BY <1>8 DEF InstanceRef, LiveSame, UsedSame, Live, Used
  <2>3. KM!Share(t, c)
    BY <1>8, <2>1, <2>2, BoundKept, UsedKept DEF InstanceRef, KM!Share
  <2>4. QED
    BY <2>1, <2>3 DEF KM!Next
\* The compare-and-swap of ddsi_tkmap_instance_unref drops a reference, and the
\* last one unbinds the key.
<1>9. ASSUME NEW t \in Threads, UnrefCas(t) PROVE KM!Next \/ UNCHANGED KM!kvars
  <2>1. tk[t] \in Instances
    BY <1>9, PointsTo DEF UnrefCas, Pointing
  <2> PICK j \in Instances : j = tk[t]
    BY <2>1
  <2>2. rel[t] \in Owners /\ hold[rel[t]] = j /\ life[j] = "linked" /\ ~del[j]
    BY <1>9, <2>1, HeldLinked DEF UnrefCas, Releases, Releasing, Owners, TypeOK
  <2> PICK o \in Owners : o = rel[t]
    BY <2>2
  <2>3. CASE refc[j] # old[t]
    BY <1>1, <1>9, <2>2, <2>3 DEF UnrefCas
  <2>4. CASE refc[j] = old[t]
    <3>1. /\ hold' = [hold EXCEPT ![o] = None] /\ UNCHANGED <<life, key>>
          /\ \E b \in BOOLEAN : del' = [del EXCEPT ![j] = b]
      BY <1>9, <2>2, <2>4 DEF UnrefCas
    <3>2. Holders(j)' = Holders(j) \ {o}
      BY <2>2, <3>1, HoldersDrop
    <3>3. del'[j] <=> ~ \E p \in Owners \ {o} : hold[p] = hold[o]
      <4>1. del'[j] <=> Holders(j)' = {}
        BY <2>2, <3>1 DEF RefcExact
      <4>2. Holders(j) \ {o} = {} <=> ~ \E p \in Owners \ {o} : hold[p] = j
        BY DEF Holders
      <4>3. QED
        BY <2>2, <3>2, <4>1, <4>2
    <3>4. UsedSame /\ \A i \in Instances \ {j} : Live(i)' <=> Live(i)
      BY <3>1 DEF UsedSame, Used, Live, TypeOK
    <3>5. Live(j) /\ (Live(j)' <=> ~del'[j])
      BY <2>2, <3>1 DEF Live
    <3>6. CASE del'[j]
      <4>1. \A k \in Keys : Bound(k)' = IF Bound(k) = j THEN None ELSE Bound(k)
        <5> SUFFICES ASSUME NEW k \in Keys
                     PROVE  Bound(k)' = IF Bound(k) = j THEN None ELSE Bound(k)
          OBVIOUS
        <5>1. /\ Bound(k)' \in Instances \cup {None}
              /\ \A i \in Instances : Bound(k)' = i <=> Live(i)' /\ key[i] = k
          BY <3>1 DEF BoundIsLive
        <5>2. /\ Bound(k) \in Instances \cup {None}
              /\ \A i \in Instances : Bound(k) = i <=> Live(i) /\ key[i] = k
          BY DEF BoundIsLive
        <5>3. QED
          BY <3>4, <3>5, <3>6, <5>1, <5>2
      <4>2. KM!Release(o)
        BY <2>2, <3>1, <3>3, <3>4, <3>6, <4>1, UsedKept DEF KM!Release
      <4>3. QED
        BY <4>2 DEF KM!Next
    <3>7. CASE ~del'[j]
      <4>1. LiveSame
        BY <3>1, <3>4, <3>5, <3>7 DEF LiveSame
      <4>2. KM!Release(o)
        BY <2>2, <3>1, <3>3, <3>4, <3>7, <4>1, BoundKept, UsedKept DEF KM!Release
      <4>3. QED
        BY <4>2 DEF KM!Next
    <3>8. QED
      BY <3>6, <3>7
  <2>5. QED
    BY <2>3, <2>4
<1>10. ASSUME NEW t \in Threads,
              \/ Awake(t) \/ Asleep(t) \/ (\E k \in Keys : LookupBegin(t, k)) \/ LookupReadIid(t)
              \/ (\E k \in Keys, c \in BOOLEAN : FindBegin(t, k, c)) \/ FindLookup(t) \/ FindDec(t)
              \/ FindLock(t) \/ FindWaitLookup(t) \/ FindWaitTest(t) \/ FindByIdLoad(t)
              \/ (\E i \in Instances : FindByIdScan(t, i)) \/ (\E o \in Owners : UnrefBegin(t, o))
              \/ UnrefLoad(t) \/ UnrefBroadcast(t)
       PROVE  UNCHANGED KM!kvars
  BY <1>1, <1>10 DEF Awake, Asleep, LookupBegin, LookupReadIid, FindBegin, FindLookup, FindDec,
       FindLock, FindWaitLookup, FindWaitTest, FindByIdLoad, FindByIdScan, UnrefBegin, UnrefLoad,
       UnrefBroadcast
<1>11. CASE UNCHANGED vars
  BY <1>1, <1>11
<1>12. QED
  BY <1>2, <1>3, <1>4, <1>5, <1>6, <1>7, <1>8, <1>9, <1>10, <1>11 DEF Next, Begin, Continue

\* The lock-free table, the counts with their deletion mark and the retries of
\* ddsi_tkmap.c implement the map from keys to ids of KeyMap.
THEOREM Implements == Spec => ImplementsKeyMap
<1>1. Init => Inv
  BY InitInv
<1>2. Inv /\ [Next]_vars => Inv'
  BY NextInv
<1>3. Init => KM!Init
  <2> SUFFICES ASSUME Init PROVE KM!Init
    OBVIOUS
  <2>1. \A k \in Keys : Bound(k) = None
    BY DEF Init, Bound, InTable
  <2>2. QED
    BY <2>1 DEF Init, KM!Init
<1>4. Inv /\ Inv' /\ [Next]_vars => [KM!Next]_(KM!kvars)
  BY StepImplementsKeyMap
<1>5. QED
  BY <1>1, <1>2, <1>3, <1>4, PTL DEF Spec, ImplementsKeyMap, KM!Spec
=============================================================================
