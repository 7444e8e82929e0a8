----------------------------- MODULE MCRefCount -----------------------------
(* Model values and symmetry for checking RefCount. *)
EXTENDS RefCount, TLC

Symmetry == Permutations(Threads) \cup Permutations(Refs)
=============================================================================
