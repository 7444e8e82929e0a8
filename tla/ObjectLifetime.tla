--------------------------- MODULE ObjectLifetime ---------------------------
(***************************************************************************)
(* What reference counting promises its clients, without any counter: the  *)
(* object is a set of references, each owned by one thread.  The drop of   *)
(* the last reference starts -dealloc, in the same step and on the         *)
(* dropping thread; from then on nobody else can obtain a reference, not   *)
(* even through the weak variable; memory is freed only after the weak     *)
(* variable was zeroed.  RefCount implements this specification.           *)
(***************************************************************************)
CONSTANTS Threads, Refs, NoThread

VARIABLES owner,        \* who owns each reference, or NoThread
          deallocator,  \* the thread running -dealloc, or NoThread
          loc,          \* does the weak variable hold the object?
          freed         \* was the memory returned?

lifetimeVars == <<owner, deallocator, loc, freed>>

Init == /\ \E r \in Refs, t \in Threads :
             owner = [q \in Refs |-> IF q = r THEN t ELSE NoThread]
        /\ deallocator = NoThread
        /\ loc = FALSE
        /\ freed = FALSE

\* A retain, or a weak load that returned the object.
Acquire(t, r) == /\ owner[r] = NoThread
                 /\ deallocator \in {NoThread, t}
                 /\ ~freed
                 /\ owner' = [owner EXCEPT ![r] = t]
                 /\ UNCHANGED <<deallocator, loc, freed>>

Drop(t, r) == /\ owner[r] = t
              /\ owner' = [owner EXCEPT ![r] = NoThread]
              /\ deallocator' = IF /\ deallocator = NoThread
                                   /\ \A q \in Refs \ {r} : owner[q] = NoThread
                                THEN t ELSE deallocator
              /\ UNCHANGED <<loc, freed>>

Give(t, u, r) == /\ owner[r] = t
                 /\ deallocator = NoThread
                 /\ owner' = [owner EXCEPT ![r] = u]
                 /\ UNCHANGED <<deallocator, loc, freed>>

PointWeak == /\ deallocator = NoThread
             /\ loc' = TRUE
             /\ UNCHANGED <<owner, deallocator, freed>>

ZeroWeak == /\ deallocator # NoThread
            /\ loc' = FALSE
            /\ UNCHANGED <<owner, deallocator, freed>>

Free == /\ deallocator # NoThread
        /\ \A r \in Refs : owner[r] = NoThread
        /\ ~loc
        /\ ~freed
        /\ freed' = TRUE
        /\ UNCHANGED <<owner, deallocator, loc>>

Next == \/ \E t \in Threads, r \in Refs : Acquire(t, r) \/ Drop(t, r)
        \/ \E t, u \in Threads, r \in Refs : Give(t, u, r)
        \/ PointWeak
        \/ ZeroWeak
        \/ Free

Spec == Init /\ [][Next]_lifetimeVars
=============================================================================
