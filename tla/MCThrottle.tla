----------------------------- MODULE MCThrottle -----------------------------
(* Model-checking instance of Throttle. *)
EXTENDS Throttle

=============================================================================
