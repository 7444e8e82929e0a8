---------------------------- MODULE MCWeakTable ----------------------------
(* Hash functions and clients for checking WeakTable. *)
EXTENDS WeakTable

CONSTANTS o1, o2, o3, l1, l2, l3, l4, l5

\* Clusters that wrap around the end of the array.
Number(x) == CASE x \in {o1, l1} -> 3 [] x \in {o2, l2} -> 7
               [] x \in {o3, l3} -> 3 [] x = l4 -> 15 [] x = l5 -> 0
Clustered == [x \in Objects \cup Locations |-> Number(x)]

\* Two variables for any object, the others for o1 only.
SomeShared == [l \in Locations |-> IF l \in {l1, l2} THEN Objects ELSE {o1}]
=============================================================================
