------------------------- MODULE MCClassInitialize -------------------------
(* A class hierarchy for checking ClassInitialize. *)
EXTENDS ClassInitialize, TLC

CONSTANTS Root, A, B, C

\* Root <- A <- B <- C.  A's +initialize messages its descendants, which then
\* wait for A to finish, and C's messages A: no cycle between threads.
ChainSuper == (Root :> Nil) @@ (A :> Root) @@ (B :> A) @@ (C :> B)
FamilyMessages == [c \in {Root, A, B, C} |->
                    IF c = A THEN {A, B, C} ELSE IF c = C THEN {A} ELSE {}]
=============================================================================
