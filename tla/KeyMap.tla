------------------------------- MODULE KeyMap -------------------------------
(***************************************************************************)
(* What the key-to-instance map promises its users, without memory, atomic *)
(* counters or waiting: a key that somebody refers to has one instance id, *)
(* the same for everybody; the last reference ends it, and a later         *)
(* reference to the key gets an id that was never used before.             *)
(***************************************************************************)
CONSTANTS Owners, Keys, Instances, None

VARIABLES bound,  \* bound[k]: the instance id of key k, None when it has none
          ref,    \* ref[o]: the instance owner o has a reference to, or None
          used    \* instance ids that have been handed out

kvars == <<bound, ref, used>>

Init == /\ bound = [k \in Keys |-> None]
        /\ ref = [o \in Owners |-> None]
        /\ used = {}

Acquire(o, k) == /\ ref[o] = None /\ bound[k] # None
                 /\ ref' = [ref EXCEPT ![o] = bound[k]]
                 /\ UNCHANGED <<bound, used>>

Create(o, k, i) == /\ ref[o] = None /\ bound[k] = None /\ i \notin used
                   /\ bound' = [bound EXCEPT ![k] = i]
                   /\ ref' = [ref EXCEPT ![o] = i]
                   /\ used' = used \cup {i}

Share(o, p) == /\ ref[o] # None /\ ref[p] = None
               /\ ref' = [ref EXCEPT ![p] = ref[o]]
               /\ UNCHANGED <<bound, used>>

Release(o) == /\ ref[o] # None
              /\ ref' = [ref EXCEPT ![o] = None]
              /\ bound' = IF \E p \in Owners \ {o} : ref[p] = ref[o] THEN bound
                          ELSE [k \in Keys |-> IF bound[k] = ref[o] THEN None ELSE bound[k]]
              /\ UNCHANGED used

Next == \/ \E o \in Owners, k \in Keys : Acquire(o, k)
        \/ \E o \in Owners, k \in Keys, i \in Instances : Create(o, k, i)
        \/ \E o, p \in Owners : Share(o, p)
        \/ \E o \in Owners : Release(o)

Spec == Init /\ [][Next]_kvars
=============================================================================
