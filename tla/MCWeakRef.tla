----------------------------- MODULE MCWeakRef -----------------------------
(* Side tables and classes for checking WeakRef. *)
EXTENDS WeakRef, TLC

CONSTANTS o1, o2, A, B

\* Two stripes: o1 shares nil's.
TwoTables == [o \in Objects \cup {Nil} |-> IF o = o2 THEN 2 ELSE 1]

\* Different at first; object_setClass may make them the same.
TwoClasses == [o \in Objects |-> IF o = o1 THEN A ELSE B]

Symmetry == Permutations(Threads)
=============================================================================
