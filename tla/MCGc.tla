-------------------------------- MODULE MCGc --------------------------------
(* Small instances of Gc for TLC: the constants are given in the configuration. *)
EXTENDS Gc
=============================================================================
