---------------------------- MODULE MCGoalRuntime ----------------------------
(* Two independent workers handed out by two control planes; or one, on     *)
(* which a worker, a synthesis or neither depends.                          *)
EXTENDS GoalRuntime, TLC

CONSTANTS a, b, s, p, q

NeedsNothing == [n \in Nodes |-> {}]
NeedsFirst == [n \in Nodes |-> IF n = b THEN {a} ELSE {}]
TakesFirst == [n \in Nodes |-> IF n = s THEN {a} ELSE {}]

Interchangeable == Permutations(Nodes) \cup Permutations(Planes)
=============================================================================
