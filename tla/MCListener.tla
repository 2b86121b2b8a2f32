----------------------------- MODULE MCListener -----------------------------
(* Model-checking instance of Listener. *)
EXTENDS Listener, TLC

(* Nothing tells the threads of a kind apart. *)
Symmetry == Permutations(App) \cup Permutations(Mid)
=============================================================================
