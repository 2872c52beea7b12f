---------------------------- MODULE MCTaskBoard ----------------------------
(* Instances of TaskBoard for TLC. *)
EXTENDS TaskBoard, TLC

\* Two documents are created in each tick: equal created_at happens.
TwoPerTick == [i \in Ids |-> (i + 1) \div 2]
\* A value that cannot be decoded, in a task that is completed or not by its filter.
Written == [done : {"no"}, decodes : BOOLEAN] \cup [done : {"yes"}, decodes : {TRUE}]
Symmetry == Permutations(Titles) \cup Permutations(Creates)
=============================================================================
