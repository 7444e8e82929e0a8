--------------------------- MODULE MCMethodCache ---------------------------
(* Selectors that collide for checking MethodCache. *)
EXTENDS MethodCache, TLC

CONSTANTS s1, s2, s3, s4

\* All start at the last bucket of four; s4 moves on when the array doubles.
Colliding == [s \in Sels |-> IF s = s4 THEN 7 ELSE 3]

Symmetry == Permutations(Threads) \cup Permutations({s1, s2, s3})
=============================================================================
