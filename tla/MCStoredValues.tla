--------------------------- MODULE MCStoredValues ---------------------------
(* Objects, owners and struct variables for checking StoredValues. *)
EXTENDS StoredValues, TLC

CONSTANTS t1, t2, a, b, c, P, L, Q, M1, M2

\* Both threads own the host a; b is a value; c is free memory.
Owners == (a :> {t1, t2}) @@ (b :> {t1}) @@ (c :> {})

\* One policy of each kind.
SomePolicies == {<<"assign", FALSE>>, <<"retain", FALSE>>, <<"copy", TRUE>>}

\* a's places are empty, or two hold b.
Strong(setter) == [value |-> b, setter |-> setter, atomic |-> TRUE]
Places == LET empty == [s \in Slots |-> None]
          IN {empty, [empty EXCEPT !["key"] = Strong("copy"), !["atomic"] = Strong("retain")]}

\* A C++ property Q and a struct property P, and variables of the threads; L
\* shares the lock of P.
Local == [x \in Cells |-> CASE x \in {P, Q} -> NoThread
                            [] x \in {L, M1} -> t1
                            [] x = M2 -> t2]
Stripe == [x \in Cells |-> IF x \in {M1, M2} THEN 1 ELSE 2]
=============================================================================
