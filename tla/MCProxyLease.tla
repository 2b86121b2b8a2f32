---------------------------- MODULE MCProxyLease ----------------------------
(* Instances of ProxyLease for TLC. *)
EXTENDS ProxyLease

\* One writer of any kind, its lease shorter than, as long as or longer than that of
\* the participant.
Liveliness == {[kind |-> "auto", dur |-> d] : d \in 1 .. 3}
              \cup {[kind |-> "man", dur |-> 1], [kind |-> "topic", dur |-> 1]}
=============================================================================
