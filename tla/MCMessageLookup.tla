-------------------------- MODULE MCMessageLookup --------------------------
(* A superclass and a subclass for checking MessageLookup. *)
EXTENDS MessageLookup, TLC

CONSTANTS Root, Sub, K1, K2

SuperOf == (Root :> Nil) @@ (Sub :> Root)
ChainOf == (Root :> <<Root>>) @@ (Sub :> <<Sub, Root>>)
Extended == (K1 :> Root) @@ (K2 :> Root)

Symmetry == Permutations(Threads)
=============================================================================
