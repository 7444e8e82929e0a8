----------------------------- MODULE MCObjcSync -----------------------------
(* Stripes and nesting order for checking ObjcSync. *)
EXTENDS ObjcSync

CONSTANTS o1, o2

\* All objects in one list: blocks are reused for other objects.
OneList == [o \in Objects |-> 1]

FixedOrder == [o \in Objects |-> IF o = o1 THEN 1 ELSE 2]
=============================================================================
