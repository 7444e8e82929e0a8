------------------------------ MODULE WeakRef ------------------------------
(***************************************************************************)
(* Weak variables shared by threads (NSObject.mm): storeWeak in its three  *)
(* forms, objc_loadWeakRetained, the clearing of weak variables in         *)
(* -dealloc, and how they meet +initialize.  Side tables are locked in     *)
(* address order; *location is read before the lock that protects it is    *)
(* known.                                                                  *)
(*                                                                         *)
(* A thread's calls form a stack, because storeWeak, objc_loadWeakRetained *)
(* and object_setClass may run a +initialize method, and a release may run *)
(* -dealloc: both are client code that may use weak variables again.       *)
(* objc_copyWeak and objc_moveWeak are sequences of the calls below.  The  *)
(* weak table itself is module WeakTable, the counting module RefCount and *)
(* class initialization module ClassInitialize; here they are sets.        *)
(*                                                                         *)
(* Client code also runs under the lock of a side table, in classes with   *)
(* their own retain/release: -allowsWeakReference (weak_register_no_lock)  *)
(* and -retainWeakReference.  It may refuse, and is assumed to use no weak *)
(* variable and to revive no deallocating object.                          *)
(***************************************************************************)
EXTENDS Integers, Sequences, FiniteSets

CONSTANTS
  Threads, Objects, Classes,
  Shared,        \* weak variables that any thread may store to and load
  Private,       \* weak variables that one thread creates and destroys
  Nil, NoThread,
  tableOf,       \* tableOf[o]: the side table of o, by address; nil has one too
  CustomRR,      \* the classes that override retain/release
  classOf,       \* the class each object is created with
  MaxCalls,      \* bound on calls by clients
  MaxStack       \* bound on their nesting

Locations == Shared \cup Private
Tables == {tableOf[o] : o \in Objects \cup {Nil}}

ASSUME WeakRefAssumption ==
  /\ Nil \notin Objects \cup Classes
  /\ NoThread \notin Threads
  /\ Shared \cap Private = {}
  /\ tableOf \in [Objects \cup {Nil} -> Nat]
  /\ CustomRR \subseteq Classes
  /\ classOf \in [Objects -> Classes]
  /\ MaxCalls \in Nat /\ MaxStack \in Nat

VARIABLES
  loc,          \* *location
  valid,        \* the weak variables that exist
  referrers,    \* referrers[o]: the weak table's entry for o
  weak,         \* the objects marked weakly_referenced
  lock,         \* lock[s]: owner of the side table's lock
  cls,          \* the class of each object
  class,        \* +initialize state of each class
  initializer,  \* the thread that runs its +initialize
  own,          \* own[o]: the threads that own strong references
  life,         \* "alive", "deallocating" or "freed"
  stack,        \* per thread: its calls, innermost first
  calls

vars == <<loc, valid, referrers, weak, lock, cls, class, initializer, own, life,
          stack, calls>>
weakVars == <<loc, valid, referrers, weak>>
classVars == <<class, initializer>>
counts == <<own, life>>

Ops == {"storeWeak", "initWeak", "destroyWeak", "loadWeak", "setClass",
        "initialize", "dealloc"}
PCs == {"read", "lock", "check", "classInit", "changeIsa", "client", "finish",
        "clear", "free"}

\* obj: newObj, or the object to change or deallocate; old: the value read
\* from *location; c: previouslyInitializedClass, newCls or the class.
Frame == [op : Ops, pc : PCs, l : Locations \cup {Nil}, obj : Objects \cup {Nil},
          old : Objects \cup {Nil}, c : Classes \cup {Nil}]

Init ==
  /\ loc = [l \in Locations |-> Nil]
  /\ valid = Shared
  /\ referrers = [o \in Objects |-> {}]
  /\ weak = {}
  /\ lock = [s \in Tables |-> NoThread]
  /\ cls = classOf
  /\ class = [c \in Classes |-> "uninitialized"]
  /\ initializer = [c \in Classes |-> NoThread]
  /\ own \in [Objects -> {{t} : t \in Threads}]
  /\ life = [o \in Objects |-> "alive"]
  /\ stack = [t \in Threads |-> <<>>]
  /\ calls = 0
-----------------------------------------------------------------------------
Top(t) == Head(stack[t])
At(t, p) == stack[t] # <<>> /\ Top(t).pc = p
In(t, ops, p) == At(t, p) /\ Top(t).op \in ops

SetTop(t, f) == stack' = [stack EXCEPT ![t] = <<f>> \o Tail(@)]
Goto(t, p) == SetTop(t, [Top(t) EXCEPT !.pc = p])
Push(t, f) == stack' = [stack EXCEPT ![t] = <<f>> \o @]
Return(t) == stack' = [stack EXCEPT ![t] = Tail(@)]

Held(t) == {s \in Tables : lock[s] = t}
Unlock(t) == lock' = [s \in Tables |-> IF lock[s] = t THEN NoThread ELSE lock[s]]

\* Client code runs outside any call and in +initialize and -dealloc methods.
InClientCode(t) == /\ stack[t] = <<>> \/ At(t, "client")
                   /\ calls < MaxCalls
                   /\ Len(stack[t]) < MaxStack

MayUse(t, o) == \/ t \in own[o]
                \/ stack[t] # <<>> /\ Top(t).op = "dealloc" /\ Top(t).obj = o

Call(t, op, pc, l, o, c) ==
  /\ InClientCode(t)
  /\ calls' = calls + 1
  /\ Push(t, [op |-> op, pc |-> pc, l |-> l, obj |-> o, old |-> Nil, c |-> c])
  /\ UNCHANGED <<weakVars, lock, cls, classVars, counts>>

objc_storeWeakOrNil(t, l, o) == /\ l \in Shared
                                /\ o # Nil => MayUse(t, o)
                                /\ Call(t, "storeWeak", "read", l, o, Nil)

objc_initWeakOrNil(t, l, o) == /\ l \in Private \ valid
                               /\ \A u \in Threads : \A i \in DOMAIN stack[u] : stack[u][i].l # l
                               /\ MayUse(t, o)
                               /\ Call(t, "initWeak", "read", l, o, Nil)

objc_destroyWeak(t, l) == /\ l \in Private \cap valid
                          /\ \A u \in Threads : \A i \in DOMAIN stack[u] : stack[u][i].l # l
                          /\ Call(t, "destroyWeak", "read", l, Nil, Nil)

objc_loadWeakRetained(t, l) == /\ l \in valid
                               /\ \A u \in Threads : \A i \in DOMAIN stack[u] :
                                    stack[u][i].l = l => stack[u][i].op # "destroyWeak"
                               /\ Call(t, "loadWeak", "read", l, Nil, Nil)

\* object_setClass
object_setClass(t, o, c) ==
  /\ MayUse(t, o)
  /\ Call(t, "setClass",
          IF class[c] = "initialized" THEN "changeIsa" ELSE "classInit", Nil, o, c)
-----------------------------------------------------------------------------
(* storeWeak and objc_loadWeakRetained *)

WeakOps == {"storeWeak", "initWeak", "destroyWeak", "loadWeak"}
HaveOld(f) == f.op # "initWeak"
HaveNew(f) == f.op \in {"storeWeak", "initWeak"}

\* *location is read without a lock.  A load of nil is done.
ReadLocation(t) ==
  /\ In(t, WeakOps, "read")
  /\ IF Top(t).op = "loadWeak" /\ loc[Top(t).l] = Nil THEN Return(t)
     ELSE SetTop(t, [Top(t) EXCEPT !.pc = "lock",
                                   !.old = IF HaveOld(Top(t)) THEN loc[Top(t).l] ELSE Nil])
  /\ UNCHANGED <<weakVars, lock, cls, classVars, counts, calls>>

TablesFor(f) == (IF HaveOld(f) THEN {tableOf[f.old]} ELSE {})
                \cup (IF HaveNew(f) THEN {tableOf[f.obj]} ELSE {})

\* lockTwo: address-ordered, and once when both values share a table.
LockNext(t) ==
  LET need == TablesFor(Top(t)) \ Held(t) IN
  /\ In(t, WeakOps, "lock")
  /\ IF need = {} THEN Goto(t, "check") /\ UNCHANGED lock
     ELSE LET s == CHOOSE r \in need : \A q \in need : r <= q
          IN lock[s] = NoThread /\ lock' = [lock EXCEPT ![s] = t] /\ UNCHANGED stack
  /\ UNCHANGED <<weakVars, cls, classVars, counts, calls>>

\* Mutant of Changed: the value is not checked again.
Changed_Never(f) == FALSE

\* The value of *location changed before it was locked.
Changed(f) == HaveOld(f) /\ loc[f.l] # f.old

Retry(t) == /\ In(t, WeakOps, "check")
            /\ Changed(Top(t))
            /\ Unlock(t)
            /\ Goto(t, "read")
            /\ UNCHANGED <<weakVars, cls, classVars, counts, calls>>

\* The class under which +initialize must be provoked, outside the locks.
hasCustomRR(c) == class[c] \in {"uninitialized", "initializing"} \/ c \in CustomRR

\* Mutant of MustInitialize: a store does not look at the class.
MustInitialize_NotForStores(t, f) ==
  /\ f.op = "loadWeak"
  /\ hasCustomRR(cls[f.old])
  /\ class[cls[f.old]] # "initialized"
  /\ initializer[cls[f.old]] # t

MustInitialize(t, f) ==
  \/ /\ HaveNew(f) /\ f.obj # Nil
     /\ cls[f.obj] # f.c
     /\ class[cls[f.obj]] # "initialized"
  \/ /\ f.op = "loadWeak"
     /\ hasCustomRR(cls[f.old])
     /\ class[cls[f.old]] # "initialized"
     /\ initializer[cls[f.old]] # t

\* Mutant of UnlockAndInitialize: the side tables stay locked.
UnlockAndInitialize_Locked(t) ==
  /\ In(t, WeakOps, "check")
  /\ ~Changed(Top(t))
  /\ MustInitialize(t, Top(t))
  /\ SetTop(t, [Top(t) EXCEPT !.pc = "classInit",
                !.c = IF HaveNew(Top(t)) THEN cls[Top(t).obj] ELSE cls[Top(t).old]])
  /\ UNCHANGED <<lock, weakVars, cls, classVars, counts, calls>>

\* "Prevent a deadlock between the weak reference machinery and the +initialize
\* machinery."
UnlockAndInitialize(t) ==
  /\ In(t, WeakOps, "check")
  /\ ~Changed(Top(t))
  /\ MustInitialize(t, Top(t))
  /\ Unlock(t)
  /\ SetTop(t, [Top(t) EXCEPT !.pc = "classInit",
                !.c = IF HaveNew(Top(t)) THEN cls[Top(t).obj] ELSE cls[Top(t).old]])
  /\ UNCHANGED <<weakVars, cls, classVars, counts, calls>>

Ready(t, op) == /\ In(t, op, "check")
                /\ ~Changed(Top(t))
                /\ ~MustInitialize(t, Top(t))

\* The value that ends up in *location, and the mark on its object.
Register(l, o) ==
  /\ loc' = [loc EXCEPT ![l] = o]
  /\ weak' = weak \cup ({o} \ {Nil})

\* -allowsWeakReference and -retainWeakReference of a class with its own
\* retain/release.  They run with the side table locked, and may refuse an object
\* that is alive.
MayRefuse(o) == cls[o] \in CustomRR

\* What weak_register_no_lock returns for o: nil if it is deallocating.
Viable(o) == IF o # Nil /\ life[o] = "alive" THEN {o} \cup (IF MayRefuse(o) THEN {Nil} ELSE {})
             ELSE {Nil}

\* Unregister the old value, register the new one if it is viable, set
\* *location.
CommitStore(t) ==
  LET f == Top(t)
  IN /\ Ready(t, {"storeWeak", "initWeak"})
     /\ \E new \in Viable(f.obj) :
          /\ referrers' = [o \in Objects |->
               (IF HaveOld(f) /\ o = f.old THEN referrers[o] \ {f.l} ELSE referrers[o])
               \cup (IF o = new THEN {f.l} ELSE {})]
          /\ Register(f.l, new)
     /\ valid' = valid \cup {f.l}
     /\ Unlock(t)
     /\ Return(t)
     /\ UNCHANGED <<cls, classVars, counts, calls>>

\* "No new value. The storage is not changed."
CommitDestroy(t) ==
  LET f == Top(t) IN
  /\ Ready(t, {"destroyWeak"})
  /\ referrers' = [o \in Objects |-> IF o = f.old THEN referrers[o] \ {f.l} ELSE referrers[o]]
  /\ valid' = valid \ {f.l}
  /\ Unlock(t)
  /\ Return(t)
  /\ UNCHANGED <<loc, weak, cls, classVars, counts, calls>>

\* Mutant of TryRetain: the deallocating state is not tested.
TryRetain_Always(t, o) == own' = [own EXCEPT ![o] = @ \cup {t}]

\* rootTryRetain, or -retainWeakReference.
TryRetain(t, o) == \/ own' = IF life[o] = "alive" THEN [own EXCEPT ![o] = @ \cup {t}]
                                                  ELSE own
                   \/ MayRefuse(o) /\ UNCHANGED own

\* The retain, in the fast case or after +initialize.
CommitLoad(t) ==
  LET o == Top(t).old IN
  /\ Ready(t, {"loadWeak"})
  /\ TryRetain(t, o)
  /\ Unlock(t)
  /\ Return(t)
  /\ UNCHANGED <<weakVars, cls, classVars, life, calls>>
-----------------------------------------------------------------------------
(* _class_initialize, seen from the weak entry points *)

AfterInit(f) == IF f.op = "setClass" THEN "changeIsa" ELSE "read"

\* This thread runs +initialize.
BeginInitialize(t) ==
  LET c == Top(t).c IN
  /\ At(t, "classInit")
  /\ class[c] = "uninitialized"
  /\ class' = [class EXCEPT ![c] = "initializing"]
  /\ initializer' = [initializer EXCEPT ![c] = t]
  /\ Push(t, [op |-> "initialize", pc |-> "client", l |-> Nil, obj |-> Nil,
              old |-> Nil, c |-> c])
  /\ UNCHANGED <<weakVars, lock, cls, counts, calls>>

\* The class is done, or is this thread's own; otherwise the thread waits.
ClassInitReturns(t) ==
  /\ At(t, "classInit")
  /\ class[Top(t).c] = "initialized" \/ initializer[Top(t).c] = t
  /\ Goto(t, AfterInit(Top(t)))
  /\ UNCHANGED <<weakVars, lock, cls, classVars, counts, calls>>

\* setInitialized: setHasDefaultRR comes before the change of the flags.
InitializeReturns(t) ==
  /\ In(t, {"initialize"}, "client")
  /\ class' = [class EXCEPT ![Top(t).c] = "defaultRR"]
  /\ Goto(t, "finish")
  /\ UNCHANGED <<weakVars, lock, cls, initializer, counts, calls>>

SetInitialized(t) ==
  /\ In(t, {"initialize"}, "finish")
  /\ class' = [class EXCEPT ![Top(t).c] = "initialized"]
  /\ Return(t)
  /\ UNCHANGED <<weakVars, lock, cls, initializer, counts, calls>>

changeIsa(t) ==
  /\ In(t, {"setClass"}, "changeIsa")
  /\ cls' = [cls EXCEPT ![Top(t).obj] = Top(t).c]
  /\ Return(t)
  /\ UNCHANGED <<weakVars, lock, classVars, counts, calls>>
-----------------------------------------------------------------------------
(* The last release runs -dealloc. *)

InUse(t, o) == \E i \in DOMAIN stack[t] : stack[t][i].obj = o

Release(t, o) ==
  /\ stack[t] = <<>> \/ At(t, "client")
  /\ t \in own[o]
  /\ ~InUse(t, o)
  /\ own' = [own EXCEPT ![o] = @ \ {t}]
  /\ IF own[o] = {t}
     THEN /\ life' = [life EXCEPT ![o] = "deallocating"]
          /\ Push(t, [op |-> "dealloc", pc |-> "client", l |-> Nil, obj |-> o,
                      old |-> Nil, c |-> Nil])
     ELSE UNCHANGED <<life, stack>>
  /\ UNCHANGED <<weakVars, lock, cls, classVars, calls>>

\* rootDealloc: only a weakly referenced object needs its table.
rootDealloc(t) ==
  /\ In(t, {"dealloc"}, "client")
  /\ Goto(t, IF Top(t).obj \in weak THEN "clear" ELSE "free")
  /\ UNCHANGED <<weakVars, lock, cls, classVars, counts, calls>>

\* clearDeallocating_slow: weak_clear_no_lock under the table's lock.
clearDeallocating(t) ==
  LET o == Top(t).obj IN
  /\ In(t, {"dealloc"}, "clear")
  /\ lock[tableOf[o]] = NoThread
  /\ loc' = [l \in Locations |-> IF l \in referrers[o] /\ loc[l] = o THEN Nil ELSE loc[l]]
  /\ referrers' = [referrers EXCEPT ![o] = {}]
  /\ Goto(t, "free")
  /\ UNCHANGED <<valid, weak, lock, cls, classVars, counts, calls>>

Free(t) ==
  /\ In(t, {"dealloc"}, "free")
  /\ life' = [life EXCEPT ![Top(t).obj] = "freed"]
  /\ Return(t)
  /\ UNCHANGED <<weakVars, lock, cls, classVars, own, calls>>

Step(t) ==
  \/ ReadLocation(t) \/ LockNext(t) \/ Retry(t) \/ UnlockAndInitialize(t)
  \/ CommitStore(t) \/ CommitDestroy(t) \/ CommitLoad(t)
  \/ BeginInitialize(t) \/ ClassInitReturns(t) \/ InitializeReturns(t)
  \/ SetInitialized(t) \/ changeIsa(t)
  \/ rootDealloc(t) \/ clearDeallocating(t) \/ Free(t)

Calls(t) ==
  \/ \E l \in Locations, o \in Objects \cup {Nil} : objc_storeWeakOrNil(t, l, o)
  \/ \E l \in Locations, o \in Objects : objc_initWeakOrNil(t, l, o)
  \/ \E l \in Locations : objc_destroyWeak(t, l) \/ objc_loadWeakRetained(t, l)
  \/ \E o \in Objects, c \in Classes : object_setClass(t, o, c)
  \/ \E o \in Objects : Release(t, o)

Next == \E t \in Threads : Calls(t) \/ Step(t)

Spec == Init /\ [][Next]_vars

-----------------------------------------------------------------------------
(* Properties *)

TypeOK ==
  /\ loc \in [Locations -> Objects \cup {Nil}]
  /\ valid \subseteq Locations
  /\ referrers \in [Objects -> SUBSET Locations]
  /\ weak \subseteq Objects
  /\ lock \in [Tables -> Threads \cup {NoThread}]
  /\ cls \in [Objects -> Classes]
  /\ class \in [Classes -> {"uninitialized", "initializing", "defaultRR", "initialized"}]
  /\ initializer \in [Classes -> Threads \cup {NoThread}]
  /\ own \in [Objects -> SUBSET Threads]
  /\ life \in [Objects -> {"alive", "deallocating", "freed"}]
  /\ \A t \in Threads : \A i \in DOMAIN stack[t] : stack[t][i] \in Frame
  /\ calls \in 0 .. MaxCalls

\* While the table of an object is unlocked, its entry lists exactly the weak
\* variables that hold it: no variable is missed when the object dies, and no
\* dead variable is written.
RegistrationExact ==
  \A o \in Objects :
    lock[tableOf[o]] = NoThread => referrers[o] = {l \in valid : loc[l] = o}

\* No weak variable holds a freed object.
NoDangling == \A o \in Objects : life[o] = "freed" => \A l \in valid : loc[l] # o

\* objc_loadWeakRetained never revives an object: whoever owns a reference
\* owns it to an object whose -dealloc has not begun.
OwnedIsAlive == \A o \in Objects : own[o] # {} <=> life[o] = "alive"

\* A weak variable never leads to a dead object.
DeadStaysDead == NoDangling /\ OwnedIsAlive

\* "ensuring that no weakly-referenced object has an un-+initialized isa"
WeakIsInitialized ==
  \A l \in valid : loc[l] # Nil => class[cls[loc[l]]] # "uninitialized"

\* "Prevent a deadlock between the weak reference machinery and the +initialize
\* machinery": when nobody can go on, every call waits for a +initialize method
\* of another thread (which clients can bring about), and never for a side table.
NoDeadlock ==
  (\A t \in Threads : ~ENABLED Step(t)) =>
    \A t \in Threads : stack[t] = <<>> \/ At(t, "classInit")

=============================================================================
