--------------------------- MODULE RecursiveLocks ---------------------------
(* What @synchronized promises: one recursive lock per object. *)
EXTENDS Naturals

CONSTANTS Threads, Objects

VARIABLE held  \* held[t][o]: how many times t is inside @synchronized(o)

Init == held = [t \in Threads |-> [o \in Objects |-> 0]]

Enter(t, o) == /\ \A u \in Threads \ {t} : held[u][o] = 0
               /\ held' = [held EXCEPT ![t][o] = @ + 1]

Exit(t, o) == /\ held[t][o] > 0
              /\ held' = [held EXCEPT ![t][o] = @ - 1]

Next == \E t \in Threads, o \in Objects : Enter(t, o) \/ Exit(t, o)

Spec == Init /\ [][Next]_held
=============================================================================
