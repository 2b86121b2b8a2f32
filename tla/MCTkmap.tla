------------------------------ MODULE MCTkmap ------------------------------
(* Small instances of Tkmap for TLC. *)
EXTENDS Tkmap, TLC
=============================================================================
