------------------------------ MODULE Reclaim ------------------------------
(***************************************************************************)
(* What the garbage collector of q_gc.c promises the rest of the stack,    *)
(* without threads' clocks, requests or queues: an object that has been    *)
(* taken out of the lookup tables keeps existing for as long as a thread   *)
(* may still be using a pointer it obtained before, and is freed once.     *)
(***************************************************************************)
CONSTANTS Threads, Objects

VARIABLES life,   \* life[o]: "linked" in a table, "unlinked" from it, "freed"
          refs    \* refs[t]: the objects to which thread t holds a pointer

rvars == <<life, refs>>

Init == /\ life = [o \in Objects |-> "linked"]
        /\ refs = [t \in Threads |-> {}]

Acquire(t, o) == /\ life[o] = "linked"
                 /\ refs' = [refs EXCEPT ![t] = @ \cup {o}]
                 /\ UNCHANGED life

Release(t) == /\ refs' = [refs EXCEPT ![t] = {}]
              /\ UNCHANGED life

Retire(o) == /\ life[o] = "linked"
             /\ life' = [life EXCEPT ![o] = "unlinked"]
             /\ UNCHANGED refs

Free(o) == /\ life[o] = "unlinked"
           /\ \A t \in Threads : o \notin refs[t]
           /\ life' = [life EXCEPT ![o] = "freed"]
           /\ UNCHANGED refs

Next == \/ \E t \in Threads : Release(t) \/ \E o \in Objects : Acquire(t, o)
        \/ \E o \in Objects : Retire(o) \/ Free(o)

Spec == Init /\ [][Next]_rvars
=============================================================================
