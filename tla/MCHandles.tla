----------------------------- MODULE MCHandles -----------------------------
(* Instances of Handles for TLC: a participant with a topic and a subscriber *)
(* with two readers of that topic, the second of which does not exist yet.   *)
EXTENDS Handles, TLC

CONSTANTS pp, sub, rd1, rd2, top

MCEntities == {pp, sub, rd1, rd2, top}
MCParent(e) == CASE e = pp -> None [] e \in {sub, top} -> pp [] OTHER -> sub
MCTopicOf(e) == IF e \in {rd1, rd2} THEN top ELSE None
MCIid(e) == CASE e = pp -> 1 [] e = top -> 2 [] e = sub -> 3 [] e = rd1 -> 4 [] OTHER -> 5

S(ex, imp, del) == [exist |-> ex, implicit |-> imp, deletable |-> del]

\* Parents and children are deleted while a reader is created; the topic and its
\* readers are deleted; the readers of an implicit subscriber are deleted while
\* another one is created.
SafeScenarios ==
  {S({pp, sub, rd1, top}, {}, {pp, sub, rd1}),
   S({pp, sub, rd1, rd2, top}, {}, {top, rd1, rd2}),
   S({pp, sub, rd1, top}, {sub}, {rd1, rd2})}
=============================================================================
