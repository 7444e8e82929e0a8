---------------------------- MODULE StoredValues ----------------------------
(***************************************************************************)
(* The places where the runtime itself keeps references for a program:     *)
(* associated objects (objc-references.mm) and declared properties         *)
(* (objc-accessors.mm), with what happens to them when their owner is      *)
(* deallocated (objc_destructInstance).  New values are retained or copied *)
(* before the lock is taken, old ones released after it: a release may run *)
(* client -dealloc code, which may use the same table again.  Struct and   *)
(* C++ properties are copied under two locks; a C++ object is copied by    *)
(* client code that runs with them held.                                   *)
(*                                                                         *)
(* Reference counts are atomic counters here (module RefCount has their    *)
(* protocol; a class's own -retain, which getters call with the lock held, *)
(* is assumed to count and do nothing else).  An autoreleased value        *)
(* belongs to the thread until it drops it.  Clients use what they own     *)
(* and, while an object is deallocated, that object: from its -dealloc and *)
(* its C++ destructors, and from all client code called meanwhile.         *)
(***************************************************************************)
EXTENDS Integers, FiniteSets, Sequences, SequencesExt

CONSTANTS
  Threads, Objects, Hosts,  \* Hosts: the objects that have associations and properties
  Keys,                     \* association keys
  owners,                   \* owners[o]: the threads that own the object at first
  Used,                     \* the association policies that clients use
  Filled,                   \* what the places of the hosts may hold at first
  mainThread,               \* the only user of nonatomic properties
  Cells, local, stripe,     \* struct and C++ variables, whose (or shared), their locks
  CppObjects,               \* the cells that are C++ objects
  Nil, NoThread,
  MaxCalls

Properties == {"atomic", "nonatomic"}
Slots == Keys \cup Properties
None == [value |-> Nil, setter |-> "assign", atomic |-> FALSE]

\* OBJC_ASSOCIATION_...: how a value is stored, and whether the getter retains.
Policies == {<<"assign", FALSE>>, <<"retain", FALSE>>, <<"copy", FALSE>>,
             <<"retain", TRUE>>, <<"copy", TRUE>>}

\* What place s may hold.
Entries(s) ==
  {None} \cup {[value |-> v, setter |-> p[1], atomic |-> p[2]] : v \in Objects,
              p \in IF s \in Keys THEN Policies ELSE {"retain", "copy"} \X {s = "atomic"}}

ASSUME StoredValuesAssumption ==
  /\ IsFiniteSet(Threads) /\ IsFiniteSet(Hosts) /\ IsFiniteSet(Keys)
  /\ Hosts \subseteq Objects /\ Nil \notin Objects /\ Keys \cap Properties = {}
  /\ Used \subseteq Policies
  /\ Filled \subseteq [Slots -> UNION {Entries(s) : s \in Slots}]
  /\ \A h \in Filled, s \in Slots : h[s] \in Entries(s)
  /\ owners \in [Objects -> SUBSET Threads]
  /\ mainThread \in Threads /\ NoThread \notin Threads
  /\ local \in [Cells -> Threads \cup {NoThread}] /\ stripe \in [Cells -> Nat]
  /\ CppObjects \subseteq Cells
  /\ MaxCalls \in Nat

VARIABLES
  count,      \* reference counts
  life,       \* "live", "deallocating" or "free" (memory that may be reused)
  own,        \* own[t][o]: references of the client
  held,       \* held[o][s]: the association with key s, or the ivar of property s
  tables,     \* objects that have an ObjectAssociationMap
  has_assoc,  \* objects with that bit in the isa
  late,       \* history: addresses where a map was made too late to be removed
  mem,        \* the two words of a struct or C++ object
  locks,      \* owners of AssociationsManagerLock, PropertyLocks, StructLocks...
  stack,      \* per thread: the calls it is in
  calls

counts == <<count, life, own>>
places == <<held, tables, has_assoc, late>>
vars == <<counts, places, mem, locks, stack, calls>>

StructLock(c) == <<IF c \in CppObjects THEN "CppObjectLocks" ELSE "StructLocks", stripe[c]>>
PropertyLock == <<"PropertyLocks", 0>>   \* all slots in one stripe
AssociationsManagerLock == <<"AssociationsManagerLock", 0>>
Locks == {StructLock(c) : c \in Cells} \cup {PropertyLock, AssociationsManagerLock}

LocksFor(s) == CASE s \in Keys -> <<AssociationsManagerLock>>
                 [] s = "atomic" -> <<PropertyLock>>
                 [] s = "nonatomic" -> <<>>

\* Mutant of releaseValue: only for a retained value.
releaseValue_NotCopies(e) == e.value # Nil /\ e.setter = "retain"

\* releaseValue tests the bit that SETTER_RETAIN and SETTER_COPY share.
releaseValue(e) == e.value # Nil /\ e.setter # "assign"

\* What is released when these places of o are emptied.
Values(o, slots) == {<<s, held[o][s].value>> : s \in {k \in slots : releaseValue(held[o][k])}}

\* The places that own a reference to o.
InPlaces(o) == {p \in Hosts \X Slots : LET e == held[p[1]][p[2]]
                                       IN e.value = o /\ e.setter # "assign"}

Init ==
  /\ held \in [Hosts -> Filled]
  /\ count = [o \in Objects |-> Cardinality(owners[o]) + Cardinality(InPlaces(o))]
  /\ life = [o \in Objects |-> IF count[o] = 0 THEN "free" ELSE "live"]
  /\ \A o \in Hosts : life[o] = "free" => held[o] = [s \in Slots |-> None]
  /\ own = [t \in Threads |-> [o \in Objects |-> IF t \in owners[o] THEN 1 ELSE 0]]
  /\ tables = {o \in Hosts : \E k \in Keys : held[o][k] # None}
  /\ has_assoc = tables
  /\ late = {}
  /\ mem = [c \in Cells |-> <<c, c>>]
  /\ locks = [l \in Locks |-> NoThread]
  /\ stack = [t \in Threads |-> <<>>]
  /\ calls = 0
-----------------------------------------------------------------------------
(* Frames: what to lock, what to do then, what to release, what comes after. *)

Frame(do, o, s) ==
  [pc |-> IF LocksFor(s) = <<>> THEN do ELSE "lock", want |-> LocksFor(s), do |-> do, obj |-> o, slot |-> s, new |-> None,
   todo |-> {}, then |-> "return", src |-> Nil]

Top(t) == Last(stack[t])
At(t, p) == stack[t] # <<>> /\ Top(t).pc = p
With(t, f) == stack' = [stack EXCEPT ![t] = Append(Front(@), f)]
Push(t, f) == stack' = [stack EXCEPT ![t] = Append(@, f)]
Pop(t) == stack' = [stack EXCEPT ![t] = Front(@)]

\* copyHelper, client code.
Helping(f) == f.pc = "move2" /\ f.obj \in CppObjects

\* A call of the client: from its own code, a -dealloc method, a C++ destructor
\* or a copyHelper.
Call(t) == /\ stack[t] # <<>> => Top(t).pc \in {"-dealloc", "cxx"} \/ Helping(Top(t))
           /\ calls < MaxCalls
           /\ calls' = calls + 1

\* A frame that deallocates an object, before and after the ivars are destroyed.
IsDealloc(f) == f.pc = "-dealloc" \/ f.then # "return"
Intact(f) == f.pc \in {"-dealloc", "cxx"}

\* The client may use o, may access place s of it, may pass v.
Deallocates(t, o) == {i \in DOMAIN stack[t] : IsDealloc(stack[t][i]) /\ stack[t][i].obj = o}
Usable(t, o) == own[t][o] > 0 \/ Deallocates(t, o) # {}
Accessible(t, o, s) ==
  Usable(t, o) /\ (s \in Properties => \A i \in Deallocates(t, o) : Intact(stack[t][i]))
Passable(t) == {v \in Objects : own[t][v] > 0}

\* objc_retain, or -copy, which returns a new object or the same one.
Acquire(v, setter, r) ==
  CASE setter = "assign" -> r = v /\ UNCHANGED <<count, life>>
    [] setter = "retain" -> r = v /\ count' = [count EXCEPT ![v] = @ + 1] /\ UNCHANGED life
    [] setter = "copy" ->
         \/ r = v /\ count' = [count EXCEPT ![v] = @ + 1] /\ UNCHANGED life
         \/ /\ life[r] = "free"
            /\ count' = [count EXCEPT ![r] = 1]
            /\ life' = [life EXCEPT ![r] = "live"]
-----------------------------------------------------------------------------
(* Calls *)

\* objc_setAssociatedObject with a value; acquireValue runs without the lock.
objc_setAssociatedObject(t, o, k, v, setter, atomic) ==
  /\ Call(t) /\ Usable(t, o)
  /\ \E r \in Objects :
       /\ Acquire(v, setter, r)
       /\ Push(t, [Frame("swap", o, k) EXCEPT
                     !.new = [value |-> r, setter |-> setter, atomic |-> atomic]])
  /\ UNCHANGED <<own, places, mem, locks>>

\* objc_setAssociatedObject with nil, or a property set to nil.
SetNil(t, o, s) ==
  /\ Call(t) /\ Accessible(t, o, s)
  /\ Push(t, Frame("swap", o, s))
  /\ UNCHANGED <<counts, places, mem, locks>>

\* objc_setProperty and its variants.  The test for the same value is made
\* without the lock.
reallySetProperty(t, o, s, v, setter) ==
  /\ Call(t) /\ Accessible(t, o, s)
  /\ IF setter = "retain" /\ held[o][s].value = v THEN UNCHANGED <<count, life, stack>>
     ELSE \E r \in Objects :
            /\ Acquire(v, setter, r)
            /\ Push(t, [Frame("swap", o, s) EXCEPT
                          !.new = [value |-> r, setter |-> setter, atomic |-> s = "atomic"]])
  /\ UNCHANGED <<own, places, mem, locks>>

\* objc_getAssociatedObject, objc_getProperty.
Get(t, o, s) ==
  /\ Call(t) /\ Accessible(t, o, s)
  /\ Push(t, Frame("read", o, s))
  /\ UNCHANGED <<counts, places, mem, locks>>

objc_removeAssociatedObjects(t, o) ==
  /\ Call(t) /\ Usable(t, o) /\ o \in has_assoc
  /\ Push(t, [Frame("remove", o, "nonatomic") EXCEPT
                !.pc = "lock", !.want = <<AssociationsManagerLock>>])
  /\ UNCHANGED <<counts, places, mem, locks>>

\* The client drops a reference, its own or an autoreleased one.
Release(t, o) ==
  /\ Call(t) /\ own[t][o] > 0
  /\ own' = [own EXCEPT ![t][o] = @ - 1]
  /\ Push(t, [Frame("none", o, "nonatomic") EXCEPT !.pc = "release", !.todo = {<<"nonatomic", o>>}])
  /\ UNCHANGED <<count, life, places, mem, locks>>

\* Mutants of lockTwo: takes the source's lock first, or only that one.
lockTwo_AsGiven(a, b) == <<StructLock(a), StructLock(b)>>
lockTwo_One(a, b) == <<StructLock(a)>>

\* Address-ordered, and once if both are the same.
lockTwo(a, b) == IF stripe[a] < stripe[b] THEN <<StructLock(a), StructLock(b)>>
                 ELSE IF stripe[a] = stripe[b] THEN <<StructLock(b)>>
                 ELSE <<StructLock(b), StructLock(a)>>

\* objc_copyStruct, objc_copyCppObjectAtomic: between a property and a
\* variable of the thread.  A copyHelper copies no other C++ property: with two
\* stripes locked already, that could be a deadlock.
objc_copyStruct(t, dest, src) ==
  /\ Call(t)
  /\ {local[dest], local[src]} = {t, NoThread}
  /\ dest \in CppObjects <=> src \in CppObjects
  /\ dest \in CppObjects => \A i \in DOMAIN stack[t] : ~Helping(stack[t][i])
  /\ Push(t, [Frame("move", dest, "nonatomic") EXCEPT
                !.pc = "lock", !.want = lockTwo(src, dest), !.src = src])
  /\ UNCHANGED <<counts, places, mem, locks>>

ObjectCall(t) ==
  \/ \E o \in Hosts :
       \/ \E s \in Keys, v \in Passable(t), p \in Used :
            objc_setAssociatedObject(t, o, s, v, p[1], p[2])
       \/ \E s \in Slots : /\ s = "nonatomic" => t = mainThread
                           /\ \/ SetNil(t, o, s)
                              \/ Get(t, o, s)
                              \/ \E v \in Passable(t), setter \in {"retain", "copy"} :
                                   s \in Properties /\ reallySetProperty(t, o, s, v, setter)
       \/ objc_removeAssociatedObjects(t, o)
  \/ \E o \in Objects : Release(t, o)

ClientCall(t) == ObjectCall(t) \/ \E c, d \in Cells : objc_copyStruct(t, c, d)
-----------------------------------------------------------------------------
(* Steps *)

Lock(t) ==
  /\ At(t, "lock")
  /\ LET f == Top(t)
         rest == Tail(f.want)
     IN /\ locks[Head(f.want)] = NoThread
        /\ locks' = [locks EXCEPT ![Head(f.want)] = t]
        /\ With(t, [f EXCEPT !.want = rest, !.pc = IF rest = <<>> THEN f.do ELSE "lock"])
  /\ UNCHANGED <<counts, places, mem, calls>>

\* The locks of a critical section.
LocksOf(f) == CASE f.do = "move" -> {StructLock(f.obj), StructLock(f.src)}
                [] f.do = "remove" -> {AssociationsManagerLock}
                [] OTHER -> ToSet(LocksFor(f.slot))

Unlock(f) == locks' = [l \in Locks |-> IF l \in LocksOf(f) THEN NoThread ELSE locks[l]]

setHasAssociatedObjects(o) == has_assoc' = has_assoc \cup {o}

\* The first association makes the map and sets the bit.  It is late when
\* objc_destructInstance found the bit clear before, or has removed a map and is
\* releasing what it held.
NewTable(t, o) ==
  /\ tables' = tables \cup {o}
  /\ setHasAssociatedObjects(o)
  /\ late' = IF \E i \in Deallocates(t, o) :
                  \/ stack[t][i].pc # "-dealloc" /\ o \notin has_assoc
                  \/ stack[t][i].pc = "release" /\ stack[t][i].then = "free"
             THEN late \cup {o} ELSE late

\* The critical section of a setter; the old value is released after it.
Swap(t) ==
  /\ At(t, "swap")
  /\ LET f == Top(t)
     IN /\ held' = [held EXCEPT ![f.obj][f.slot] = f.new]
        /\ IF f.slot \in Keys /\ f.new.value # Nil /\ f.obj \notin tables THEN NewTable(t, f.obj)
           ELSE UNCHANGED <<tables, has_assoc, late>>
        /\ With(t, [f EXCEPT !.pc = "release", !.new = None,
                             !.todo = Values(f.obj, {f.slot})])
        /\ Unlock(f)
  /\ UNCHANGED <<counts, mem, calls>>

\* Mutant of StayLocked: unlocks before the retain.
StayLocked_Not(f) == Unlock(f)

\* The value is retained under the lock.
StayLocked(f) == UNCHANGED locks

\* The critical section of a getter; nonatomic ones return the bare pointer.
Read(t) ==
  /\ At(t, "read")
  /\ LET f == Top(t)
         e == held[f.obj][f.slot]
     IN IF e.value # Nil /\ e.atomic
        THEN With(t, [f EXCEPT !.pc = "retain", !.new = e]) /\ StayLocked(f)
        ELSE Pop(t) /\ Unlock(f)
  /\ UNCHANGED <<counts, places, mem, calls>>

\* objc_retain under the lock, objc_autorelease after it.
RetainAutorelease(t) ==
  /\ At(t, "retain")
  /\ LET v == Top(t).new.value
     IN /\ count' = [count EXCEPT ![v] = @ + 1]
        /\ own' = [own EXCEPT ![t][v] = @ + 1]
  /\ Pop(t)
  /\ Unlock(Top(t))
  /\ UNCHANGED <<life, places, mem, calls>>

\* _object_remove_assocations: empty the table, release after the lock.
object_remove_associations(t) ==
  /\ At(t, "remove")
  /\ LET f == Top(t)
     IN /\ held' = [held EXCEPT ![f.obj] = [s \in Slots |-> IF s \in Keys THEN None ELSE @[s]]]
        /\ tables' = tables \ {f.obj}
        /\ With(t, [f EXCEPT !.pc = "release", !.todo = Values(f.obj, Keys)])
        /\ Unlock(f)
  /\ UNCHANGED <<counts, has_assoc, late, mem, calls>>

\* memmove or copyHelper, word by word.
Move(t) ==
  /\ At(t, "move") \/ At(t, "move2")
  /\ LET f == Top(t)
         w == IF f.pc = "move" THEN 1 ELSE 2
     IN /\ mem' = [mem EXCEPT ![f.obj][w] = mem[f.src][w]]
        /\ IF w = 1 THEN With(t, [f EXCEPT !.pc = "move2"]) /\ UNCHANGED locks
           ELSE Pop(t) /\ Unlock(f)
  /\ UNCHANGED <<counts, places, calls>>

\* objc_release of the next value, in the order of a hash table; the last
\* reference runs -dealloc.
ReleaseNext(t) ==
  /\ At(t, "release")
  /\ \E e \in Top(t).todo :
       LET v == e[2]
           rest == [Top(t) EXCEPT !.todo = @ \ {e}]
       IN /\ count' = [count EXCEPT ![v] = @ - 1]
          /\ IF count[v] = 1
             THEN /\ life' = [life EXCEPT ![v] = "deallocating"]
                  /\ stack' = [stack EXCEPT ![t] = Append(Append(Front(@), rest),
                        [Frame("remove", v, "nonatomic") EXCEPT !.pc = "-dealloc"])]
             ELSE With(t, rest) /\ UNCHANGED life
  /\ UNCHANGED <<own, places, mem, locks, calls>>

Released(t) ==
  /\ At(t, "release")
  /\ Top(t).todo = {}
  /\ IF Top(t).then = "return" THEN Pop(t) ELSE With(t, [Top(t) EXCEPT !.pc = Top(t).then])
  /\ UNCHANGED <<counts, places, mem, locks, calls>>

\* Mutant of objc_destructInstance: takes the associations away before the
\* destructors run, not after them.
objc_destructInstance_AssocFirst(t) ==
  /\ At(t, "-dealloc")
  /\ With(t, [Top(t) EXCEPT !.pc = "cxx", !.then = "free"])
  /\ held' = [o \in Hosts |-> [s \in Slots |-> IF o = Top(t).obj /\ s \in Keys THEN None
                                               ELSE held[o][s]]]
  /\ tables' = tables \ {Top(t).obj}
  /\ UNCHANGED <<counts, has_assoc, late, mem, locks, calls>>

\* [super dealloc] reaches objc_destructInstance: all flags are read at once,
\* then object_cxxDestruct calls C++ destructors.
objc_destructInstance(t) ==
  /\ At(t, "-dealloc")
  /\ With(t, [Top(t) EXCEPT !.pc = "cxx",
                            !.then = IF Top(t).obj \in has_assoc THEN "assoc" ELSE "free"])
  /\ UNCHANGED <<counts, places, mem, locks, calls>>

\* .cxx_destruct also releases the properties.
object_cxxDestruct(t) ==
  /\ At(t, "cxx")
  /\ LET f == Top(t)
         host == f.obj \in Hosts
     IN /\ held' = IF host THEN [held EXCEPT ![f.obj] = [s \in Slots |->
                               IF s \in Properties THEN None ELSE @[s]]]
                   ELSE held
        /\ With(t, [f EXCEPT !.pc = "release",
                             !.todo = IF host THEN Values(f.obj, Properties) ELSE {}])
  /\ UNCHANGED <<counts, tables, has_assoc, late, mem, locks, calls>>

\* if (assoc) _object_remove_assocations(obj)
RemoveAssociations(t) ==
  /\ At(t, "assoc")
  /\ With(t, [Top(t) EXCEPT !.pc = "lock", !.want = <<AssociationsManagerLock>>, !.then = "free"])
  /\ UNCHANGED <<counts, places, mem, locks, calls>>

\* free(obj): the address can be allocated again.
Free(t) ==
  /\ At(t, "free")
  /\ life' = [life EXCEPT ![Top(t).obj] = "free"]
  /\ has_assoc' = has_assoc \ {Top(t).obj}
  /\ Pop(t)
  /\ UNCHANGED <<count, own, held, tables, late, mem, locks, calls>>

Step(t) == \/ Lock(t) \/ Swap(t) \/ Read(t) \/ RetainAutorelease(t) \/ object_remove_associations(t) \/ Move(t)
           \/ ReleaseNext(t) \/ Released(t)
           \/ objc_destructInstance(t) \/ object_cxxDestruct(t) \/ RemoveAssociations(t) \/ Free(t)
-----------------------------------------------------------------------------
Next == \E t \in Threads : ClientCall(t) \/ Step(t)

Spec == Init /\ [][Next]_vars

\* Every thread runs; -dealloc methods, destructors and copyHelpers return.
FairSpec == Spec /\ \A t \in Threads : WF_vars(Step(t))
-----------------------------------------------------------------------------
(* Properties *)

Frames == UNION {{t} \X DOMAIN stack[t] : t \in Threads}
FrameOf(p) == stack[p[1]][p[2]]

\* References to o of clients, on their way into a place and out of it.
OfClients(o) == UNION {{t} \X (1 .. own[t][o]) : t \in Threads}
OnTheWayIn(o) == {p \in Frames : /\ FrameOf(p).do = "swap" /\ FrameOf(p).new.value = o
                                 /\ FrameOf(p).new.setter # "assign"}
OnTheWayOut(o) == {p \in Frames \X Slots : <<p[2], o>> \in FrameOf(p[1]).todo}

\* A reference count is the number of clients' references, filled places and
\* values under way: no setter leaks its old value or releases it twice,
\* whatever races with it and whatever the policies were.
RefsExact ==
  \A o \in Objects :
    count[o] = Cardinality(OfClients(o)) + Cardinality(InPlaces(o))
                 + Cardinality(OnTheWayIn(o)) + Cardinality(OnTheWayOut(o))

\* A getter that retains finds the value alive: no setter's release comes
\* between its read and its retain.
NoUseAfterFree == \A t \in Threads : At(t, "retain") => life[Top(t).new.value] = "live"

\* Freed memory has no values left, and no associations: an object allocated
\* at the same address does not inherit any.  Associations that destructors and
\* released values make are removed too, except at addresses where a map was
\* made late: that one stays.
NothingLeftBehind ==
  \A o \in Hosts : life[o] = "free" =>
    \A s \in Slots : held[o][s] = None \/ (s \in Keys /\ o \in late)

\* A struct that nobody is copying is one that was stored as a whole.
NoTornStruct ==
  \A c \in Cells : locks[StructLock(c)] = NoThread => mem[c][1] = mem[c][2]

\* Every accessor returns: the locks are ordered, the two locks of a copy can be
\* one, and client code runs without locks or, in a copyHelper, with those of
\* C++ objects, which come before all others.
CallsReturn == \A t \in Threads : stack[t] # <<>> ~> stack[t] = <<>>
=============================================================================
