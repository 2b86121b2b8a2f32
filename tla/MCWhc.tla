------------------------------- MODULE MCWhc -------------------------------
(***************************************************************************)
(* Instances of Whc for TLC.  The QoS sets name the writer configurations  *)
(* that take different paths through dds_whc.c.                            *)
(***************************************************************************)
EXTENDS Whc, TLC

Wr(tl, deadline, lifespan, hdepth, dsdepth) ==
  [tl |-> tl, reliable |-> TRUE, deadline |-> deadline, lifespan |-> lifespan,
   hdepth |-> hdepth, dsdepth |-> dsdepth]

\* volatile: KEEP_LAST, KEEP_ALL with the single interval, KEEP_ALL with a
\* deadline, best-effort
VolatileQos ==
  {Wr(FALSE, FALSE, FALSE, 0, 1), Wr(FALSE, FALSE, FALSE, 2, 1), Wr(FALSE, TRUE, FALSE, 0, 1),
   [Wr(FALSE, TRUE, FALSE, 1, 1) EXCEPT !.reliable = FALSE]}

\* transient-local: durability history deeper and shallower than the writer
\* history, and KEEP_ALL for either
TransientLocalQos ==
  {Wr(TRUE, FALSE, FALSE, 1, 2), Wr(TRUE, FALSE, FALSE, 3, 1),
   Wr(TRUE, FALSE, FALSE, 0, 1), Wr(TRUE, FALSE, FALSE, 1, 0)}

\* samples that expire, with an index
LifespanQos == {Wr(FALSE, FALSE, TRUE, 2, 1), Wr(TRUE, FALSE, TRUE, 0, 2)}

AllQos == VolatileQos \cup TransientLocalQos \cup LifespanQos

Symmetry == Permutations(Readers) \cup Permutations(Keys)
=============================================================================
