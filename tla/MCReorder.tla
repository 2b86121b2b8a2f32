----------------------------- MODULE MCReorder -----------------------------
(* Instances of Reorder for TLC. *)
EXTENDS Reorder

P(mode, n, late) == [mode |-> mode, maxSamples |-> n, lateAck |-> late]

\* Room for every number of the run, max_samples reached, and max_samples 0; all modes.
AllParams ==
  {P("normal", MaxSeq, FALSE), P("normal", 2, FALSE), P("normal", 2, TRUE), P("normal", 0, FALSE),
   P("monotonic", 2, FALSE), P("always", 2, FALSE)}
=============================================================================
