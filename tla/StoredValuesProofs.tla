------------------------- MODULE StoredValuesProofs -------------------------
(***************************************************************************)
(* Proofs about StoredValues, for any number of threads, objects, keys and *)
(* calls: reference counts are exact, getters retain what is alive, freed  *)
(* memory holds nothing but what came late, and structs are never torn.    *)
(*                                                                         *)
(* The inductive invariant says of each call what it may rely on: the      *)
(* client owns the object it works on or was called while that object is   *)
(* deallocated, an object has one -dealloc at most, what a critical        *)
(* section has read in an earlier step is protected by a lock it holds,    *)
(* and a deallocation that will not remove a map left one only if late.    *)
(***************************************************************************)
EXTENDS StoredValues, FiniteSetTheorems, SequenceTheorems, TLAPS

Entry == UNION {Entries(s) : s \in Slots}
PCs == {"lock", "swap", "read", "retain", "remove", "move", "move2", "release",
        "-dealloc", "cxx", "assoc", "free"}
FrameType ==
  [pc : PCs, want : Seq(Locks), do : {"swap", "read", "remove", "move", "none"},
   obj : Objects \cup Cells, slot : Slots, new : Entry, todo : SUBSET (Slots \X Objects),
   then : {"return", "assoc", "free"}, src : Cells \cup {Nil}]

Typed ==
  /\ count \in [Objects -> Nat]
  /\ life \in [Objects -> {"live", "deallocating", "free"}]
  /\ own \in [Threads -> [Objects -> Nat]]
  /\ held \in [Hosts -> [Slots -> Entry]]
  /\ \A o \in Hosts, s \in Slots : held[o][s] \in Entries(s)
  /\ has_assoc \subseteq Hosts /\ tables \subseteq Hosts /\ late \subseteq Hosts
  /\ mem \in [Cells -> [{1, 2} -> Cells]]
  /\ locks \in [Locks -> Threads \cup {NoThread}]
  /\ stack \in [Threads -> Seq(FrameType)]

\* What a frame is at each point of its call.
Shape(f) ==
  /\ f.pc = "lock" => f.want # <<>> /\ f.do # "none"
  /\ f.pc \in {"swap", "read", "remove"} => f.do = f.pc
  /\ f.pc = "retain" => f.do = "read"
  /\ f.pc \in {"move", "move2"} => f.do = "move"
  /\ f.pc = "release" => f.do \in {"swap", "remove", "none"}
  /\ f.pc \in {"-dealloc", "cxx", "assoc", "free"} => f.do = "remove"
  /\ f.pc = "-dealloc" => f.then = "return"
  /\ f.pc = "cxx" => f.then # "return"
  /\ f.pc \in {"assoc", "free"} => f.then = f.pc
  /\ f.then # "return" => f.do = "remove"
  /\ f.then = "assoc" => f.pc \in {"cxx", "release", "assoc"} /\ f.obj \in Hosts
  /\ f.do = "move" => /\ f.obj \in Cells /\ f.src \in Cells /\ f.obj # f.src
                      /\ f.obj \in CppObjects <=> f.src \in CppObjects
  /\ f.do # "move" => f.obj \in Objects
  /\ f.do \in {"swap", "read"} \/ (f.do = "remove" /\ f.pc \in {"lock", "remove"}) => f.obj \in Hosts
  /\ f.do = "swap" => /\ f.pc \in {"lock", "swap", "release"}
                      /\ f.new \in Entries(f.slot)
                      /\ f.pc = "release" => f.new = None
  /\ f.todo # {} => f.pc = "release"

\* Only the innermost call works; the others wait for client code.
Waits(f) == f.pc \in {"release", "-dealloc", "cxx"} \/ Helping(f)

Shapes ==
  \A t \in Threads : \A i \in 1 .. Len(stack[t]) :
    /\ Shape(stack[t][i])
    /\ i < Len(stack[t]) => Waits(stack[t][i])

\* -dealloc runs for objects without references, once.
Alive == \A o \in Objects : life[o] = "live" <=> count[o] > 0

Deallocs ==
  \A t \in Threads : \A i \in 1 .. Len(stack[t]) :
    IsDealloc(stack[t][i]) =>
      /\ life[stack[t][i].obj] = "deallocating"
      /\ \A u \in Threads : \A j \in 1 .. Len(stack[u]) :
           IsDealloc(stack[u][j]) /\ stack[u][j].obj = stack[t][i].obj => u = t /\ j = i

\* A call works on an object that its thread owns, or is deallocating in a call
\* further out.  A C++ object is not copied from within a copyHelper.
MadeIn(d, f) == /\ IsDealloc(d) /\ d.obj = f.obj
                /\ f.do \in {"swap", "read"} /\ f.slot \in Properties => Intact(d)

UserAt(t, i) ==
  LET f == stack[t][i] IN
  /\ f.pc \in {"lock", "swap", "read", "retain", "remove"} /\ f.do # "move" /\ ~IsDealloc(f) =>
       own[t][f.obj] > 0 \/ \E j \in 1 .. i - 1 : MadeIn(stack[t][j], f)
  /\ f.do = "move" /\ f.obj \in CppObjects => \A j \in 1 .. i - 1 : ~Helping(stack[t][j])

Users == \A t \in Threads : \A i \in 1 .. Len(stack[t]) : UserAt(t, i)

\* Of an object being destroyed the properties are empty; if its associations
\* are not going to be removed, any more or at all, it has none that are not late.
ClearedIn(f, h, maps, bits, exempt) ==
  f.then # "return" /\ f.obj \in Hosts =>
    /\ f.pc # "cxx" => \A s \in Properties : h[f.obj][s] = None
    /\ f.then = "free" /\ f.pc \notin {"lock", "remove"} /\ f.obj \in maps => f.obj \in exempt
    /\ f.then = "free" /\ f.pc = "cxx" /\ f.obj \in bits => f.obj \in exempt

ClearedAt(f) == ClearedIn(f, held, tables, has_assoc, late)

Cleared == \A t \in Threads : \A i \in 1 .. Len(stack[t]) : ClearedAt(stack[t][i])

\* Associations are in the map of their object, and the isa says so.
AssocBit ==
  \A o \in Hosts : /\ o \in tables /\ o \notin late => o \in has_assoc
                   /\ o \notin tables => \A k \in Keys : held[o][k] = None

\* What the lock protects.
LockOf(s) == IF s \in Keys THEN AssociationsManagerLock ELSE PropertyLock

LockedAt(t, f) ==
  /\ f.pc = "lock" /\ f.do \in {"swap", "read"} =>
       f.slot # "nonatomic" /\ f.want = <<LockOf(f.slot)>>
  /\ f.pc = "lock" /\ f.do = "remove" => f.want = <<AssociationsManagerLock>>
  /\ f.pc \in {"swap", "read", "retain"} /\ f.slot # "nonatomic" => locks[LockOf(f.slot)] = t
  /\ f.pc = "remove" => locks[AssociationsManagerLock] = t
  /\ f.pc = "retain" => /\ f.new = held[f.obj][f.slot]
                        /\ f.new.value # Nil /\ f.new.atomic

Locked == \A t \in Threads : \A i \in 1 .. Len(stack[t]) : LockedAt(t, stack[t][i])

StructLockedAt(t, f) ==
  LET two == lockTwo(f.src, f.obj)
  IN /\ f.pc = "lock" /\ f.do = "move" =>
          f.want = two \/ (f.want = Tail(two) /\ locks[Head(two)] = t)
     /\ f.pc \in {"move", "move2"} =>
          locks[StructLock(f.obj)] = t /\ locks[StructLock(f.src)] = t

StructsLocked == \A t \in Threads : \A i \in 1 .. Len(stack[t]) : StructLockedAt(t, stack[t][i])

\* A struct in two parts is one that is being written.
Structs ==
  /\ \A c \in Cells : mem[c][1] # mem[c][2] =>
       \E t \in Threads : \E i \in 1 .. Len(stack[t]) : stack[t][i].pc = "move2" /\ stack[t][i].obj = c
  /\ \A t \in Threads : \A i \in 1 .. Len(stack[t]) :
       stack[t][i].pc = "move2" => mem[stack[t][i].obj][1] = mem[stack[t][i].src][1]

IInv == /\ Typed /\ Shapes /\ Alive /\ Deallocs /\ Users /\ Cleared /\ AssocBit
        /\ Locked /\ StructsLocked /\ Structs
        /\ RefsExact /\ NothingLeftBehind
-----------------------------------------------------------------------------
(* The call stacks. *)

\* The calls of the other threads and the first k of t stay; at most the
\* innermost call of t goes.
Kept(t, k) ==
  /\ stack' \in [Threads -> Seq(FrameType)]
  /\ \A u \in Threads \ {t} : stack'[u] = stack[u]
  /\ k \in Nat /\ k <= Len(stack'[t]) /\ (k = Len(stack[t]) \/ k + 1 = Len(stack[t]))
  /\ \A i \in 1 .. k : stack'[t][i] = stack[t][i]

Pushed(t, f) == /\ Kept(t, Len(stack[t])) /\ Len(stack'[t]) = Len(stack[t]) + 1
                /\ stack'[t][Len(stack[t]) + 1] = f
Replaced(t, f) == /\ stack[t] # <<>> /\ Kept(t, Len(stack[t]) - 1)
                  /\ Len(stack'[t]) = Len(stack[t]) /\ stack'[t][Len(stack[t])] = f
Popped(t) == /\ stack[t] # <<>> /\ Kept(t, Len(stack[t]) - 1)
             /\ Len(stack'[t]) = Len(stack[t]) - 1
Called(t, f, g) == /\ stack[t] # <<>> /\ Kept(t, Len(stack[t]) - 1)
                   /\ Len(stack'[t]) = Len(stack[t]) + 1 /\ stack'[t][Len(stack[t])] = f
                   /\ stack'[t][Len(stack[t]) + 1] = g

LEMMA StackOps ==
  ASSUME NEW s \in Seq(FrameType), NEW f \in FrameType
  PROVE  /\ Append(s, f) \in Seq(FrameType) /\ Len(Append(s, f)) = Len(s) + 1
         /\ Append(s, f)[Len(s) + 1] = f
         /\ \A i \in 1 .. Len(s) : Append(s, f)[i] = s[i]
  OBVIOUS

LEMMA FrontOps ==
  ASSUME NEW s \in Seq(FrameType), s # <<>>
  PROVE  /\ Front(s) \in Seq(FrameType) /\ Len(Front(s)) = Len(s) - 1
         /\ \A i \in 1 .. Len(s) - 1 : Front(s)[i] = s[i]
         /\ Len(s) \in Nat /\ Len(s) >= 1
<1>1. PICK n \in Nat : n = Len(s) - 1 /\ n < Len(s)
  <2>1. Len(s) - 1 \in Nat /\ Len(s) - 1 < Len(s)
    OBVIOUS
  <2> QED
    BY <2>1
<1>2. Len(SubSeq(s, 1, n)) = n
  BY <1>1
<1>3. SubSeq(s, 1, n) \in Seq(FrameType) /\ \A i \in 1 .. n : SubSeq(s, 1, n)[i] = s[i]
  BY <1>1
<1> QED
  BY <1>1, <1>2, <1>3 DEF Front

\* The innermost call.
LEMMA TopFrame ==
  ASSUME Typed, NEW t \in Threads
  PROVE  /\ stack[t] \in Seq(FrameType) /\ Len(stack[t]) \in Nat
         /\ \A i \in 1 .. Len(stack[t]) : stack[t][i] \in FrameType
         /\ stack[t] # <<>> => /\ Len(stack[t]) >= 1 /\ Top(t) = stack[t][Len(stack[t])]
                               /\ Top(t) \in FrameType
<1>1. PICK s \in Seq(FrameType) : s = stack[t]
  BY DEF Typed
<1>2. Len(s) \in Nat /\ (s # <<>> => Len(s) >= 1) /\ \A i \in 1 .. Len(s) : s[i] \in FrameType
  OBVIOUS
<1> QED
  BY <1>1, <1>2 DEF Top, Last

LEMMA PushOp ==
  ASSUME Typed, NEW t \in Threads, NEW f \in FrameType, Push(t, f)
  PROVE  Pushed(t, f)
<1>1. PICK s \in Seq(FrameType) : s = stack[t]
  BY DEF Typed
<1>2. PICK r \in Seq(FrameType) : /\ r = Append(s, f) /\ Len(r) = Len(s) + 1
                                  /\ r[Len(s) + 1] = f /\ \A i \in 1 .. Len(s) : r[i] = s[i]
  BY StackOps
<1>3. stack' = [stack EXCEPT ![t] = r]
  BY <1>1, <1>2 DEF Push
<1>4. stack' \in [Threads -> Seq(FrameType)] /\ stack'[t] = r
      /\ \A u \in Threads \ {t} : stack'[u] = stack[u]
  BY <1>3 DEF Typed
<1>5. Len(s) \in Nat /\ Len(s) <= Len(s) + 1
  OBVIOUS
<1> QED
  BY <1>1, <1>2, <1>4, <1>5 DEF Pushed, Kept

LEMMA WithOp ==
  ASSUME Typed, NEW t \in Threads, NEW f \in FrameType, stack[t] # <<>>, With(t, f)
  PROVE  Replaced(t, f)
<1>1. PICK s \in Seq(FrameType) : s = stack[t] /\ s # <<>>
  BY DEF Typed
<1>2. PICK q \in Seq(FrameType) : /\ q = Front(s) /\ Len(q) = Len(s) - 1
                                  /\ \A i \in 1 .. Len(s) - 1 : q[i] = s[i]
  BY <1>1, FrontOps
<1>3. PICK r \in Seq(FrameType) : /\ r = Append(q, f) /\ Len(r) = Len(q) + 1
                                  /\ r[Len(q) + 1] = f /\ \A i \in 1 .. Len(q) : r[i] = q[i]
  BY StackOps
<1>4. stack' = [stack EXCEPT ![t] = r]
  BY <1>1, <1>2, <1>3 DEF With
<1>5. stack' \in [Threads -> Seq(FrameType)] /\ stack'[t] = r
      /\ \A u \in Threads \ {t} : stack'[u] = stack[u]
  BY <1>4 DEF Typed
<1>6. Len(s) \in Nat /\ Len(s) - 1 \in Nat /\ Len(s) - 1 <= Len(s) /\ (Len(s) - 1) + 1 = Len(s)
  BY <1>1, FrontOps
<1>7. Len(r) = Len(s) /\ r[Len(s)] = f /\ \A i \in 1 .. Len(s) - 1 : r[i] = s[i]
  BY <1>2, <1>3, <1>6
<1> QED
  BY <1>1, <1>5, <1>6, <1>7 DEF Replaced, Kept

LEMMA PopOp ==
  ASSUME Typed, NEW t \in Threads, stack[t] # <<>>, Pop(t)
  PROVE  Popped(t)
<1>1. PICK s \in Seq(FrameType) : s = stack[t] /\ s # <<>>
  BY DEF Typed
<1>2. PICK q \in Seq(FrameType) : /\ q = Front(s) /\ Len(q) = Len(s) - 1
                                  /\ \A i \in 1 .. Len(s) - 1 : q[i] = s[i]
  BY <1>1, FrontOps
<1>4. stack' = [stack EXCEPT ![t] = q]
  BY <1>1, <1>2 DEF Pop
<1>5. stack' \in [Threads -> Seq(FrameType)] /\ stack'[t] = q
      /\ \A u \in Threads \ {t} : stack'[u] = stack[u]
  BY <1>4 DEF Typed
<1>6. Len(s) \in Nat /\ Len(s) - 1 \in Nat /\ (Len(s) - 1) + 1 = Len(s) /\ Len(s) - 1 <= Len(s) - 1
  BY <1>1, FrontOps
<1> QED
  BY <1>1, <1>2, <1>5, <1>6 DEF Popped, Kept

LEMMA CallOp ==
  ASSUME Typed, NEW t \in Threads, NEW f \in FrameType, NEW g \in FrameType, stack[t] # <<>>,
         stack' = [stack EXCEPT ![t] = Append(Append(Front(@), f), g)]
  PROVE  Called(t, f, g)
<1>1. PICK s \in Seq(FrameType) : s = stack[t] /\ s # <<>>
  BY DEF Typed
<1>2. PICK q \in Seq(FrameType) : /\ q = Front(s) /\ Len(q) = Len(s) - 1
                                  /\ \A i \in 1 .. Len(s) - 1 : q[i] = s[i]
  BY <1>1, FrontOps
<1>3. PICK r \in Seq(FrameType) : /\ r = Append(q, f) /\ Len(r) = Len(q) + 1
                                  /\ r[Len(q) + 1] = f /\ \A i \in 1 .. Len(q) : r[i] = q[i]
  BY StackOps
<1>4. PICK p \in Seq(FrameType) : /\ p = Append(r, g) /\ Len(p) = Len(r) + 1
                                  /\ p[Len(r) + 1] = g /\ \A i \in 1 .. Len(r) : p[i] = r[i]
  BY StackOps
<1>5. stack' = [stack EXCEPT ![t] = p]
  BY <1>1, <1>2, <1>3, <1>4
<1>6. stack' \in [Threads -> Seq(FrameType)] /\ stack'[t] = p
      /\ \A u \in Threads \ {t} : stack'[u] = stack[u]
  BY <1>5 DEF Typed
<1>7. Len(s) \in Nat /\ Len(s) >= 1
  BY <1>1, FrontOps
<1>8. Len(q) + 1 = Len(s) /\ Len(r) = Len(s) /\ Len(p) = Len(s) + 1 /\ r[Len(s)] = f
  BY <1>2, <1>3, <1>4, <1>7
<1>9. p[Len(s)] = f /\ p[Len(s) + 1] = g /\ \A i \in 1 .. Len(s) - 1 : p[i] = s[i]
  BY <1>2, <1>3, <1>4, <1>7, <1>8
<1>10. Len(s) - 1 \in Nat /\ Len(s) - 1 <= Len(s) + 1 /\ (Len(s) - 1) + 1 = Len(s)
  BY <1>7
<1> QED
  BY <1>1, <1>6, <1>8, <1>9, <1>10 DEF Called, Kept

(* Entries, locks and new frames. *)

LEMMA EntryFacts ==
  /\ \A s \in Slots : None \in Entries(s)
  /\ None \in Entry
  /\ \A s \in Slots : \A e \in Entries(s) :
       /\ e \in Entry /\ e.value \in Objects \cup {Nil}
       /\ e.value = Nil => e = None
       /\ e.atomic => e.value \in Objects /\ e.setter # "assign" /\ s # "nonatomic"
  /\ \A e \in Entry : e.value \in Objects \cup {Nil} /\ e.atomic \in BOOLEAN
  /\ None.value = Nil /\ None.setter = "assign"
<1> USE StoredValuesAssumption
<1>1. None.value = Nil /\ None.setter = "assign" /\ None.atomic = FALSE
  BY DEF None
<1>2. \A s \in Slots : None \in Entries(s)
  BY DEF Entries
<1>3. "atomic" \in Slots
  BY DEF Slots, Properties
<1>4. None \in Entry
  BY <1>2, <1>3 DEF Entry
<1>5. ASSUME NEW s \in Slots, NEW e \in Entries(s)
      PROVE  /\ e \in Entry /\ e.value \in Objects \cup {Nil} /\ e.atomic \in BOOLEAN
             /\ e.value = Nil => e = None
             /\ e.atomic => e.value \in Objects /\ e.setter # "assign" /\ s # "nonatomic"
  <2>1. e \in Entry
    BY DEF Entry
  <2>2. CASE e = None
    BY <1>1, <2>1, <2>2
  <2>3. CASE e # None
    <3>1. PICK v \in Objects, p \in IF s \in Keys THEN Policies ELSE {"retain", "copy"} \X {s = "atomic"} :
            e = [value |-> v, setter |-> p[1], atomic |-> p[2]]
      BY <2>3 DEF Entries
    <3>2. CASE s \in Keys
      <4>1. s # "nonatomic"
        BY <3>2 DEF Properties
      <4>2. p \in Policies
        BY <3>1, <3>2
      <4>3. p[2] \in BOOLEAN /\ (p[2] => p[1] # "assign")
        <5>1. CASE p = <<"assign", FALSE>>
          BY <5>1
        <5>2. CASE p = <<"retain", FALSE>>
          BY <5>2
        <5>3. CASE p = <<"copy", FALSE>>
          BY <5>3
        <5>4. CASE p = <<"retain", TRUE>>
          BY <5>4
        <5>5. CASE p = <<"copy", TRUE>>
          BY <5>5
        <5> QED
          BY <4>2, <5>1, <5>2, <5>3, <5>4, <5>5 DEF Policies
      <4> QED
        BY <2>1, <3>1, <4>1, <4>3
    <3>3. CASE s \notin Keys
      <4>1. p[1] \in {"retain", "copy"} /\ p[2] = (s = "atomic")
        BY <3>1, <3>3
      <4> QED
        BY <2>1, <3>1, <4>1
    <3> QED
      BY <3>2, <3>3
  <2> QED
    BY <2>2, <2>3
<1>6. \A e \in Entry : e.value \in Objects \cup {Nil} /\ e.atomic \in BOOLEAN
  BY <1>5 DEF Entry
<1> QED
  BY <1>1, <1>2, <1>4, <1>5, <1>6

LEMMA SlotFacts ==
  /\ "atomic" \in Slots /\ "nonatomic" \in Slots /\ Keys \subseteq Slots /\ Properties \subseteq Slots
  /\ "nonatomic" \notin Keys /\ "atomic" \notin Keys
  /\ \A s \in Slots : s \in Keys \/ s = "atomic" \/ s = "nonatomic"
  /\ \A s \in Slots : s \in Keys <=> s \notin Properties
  BY StoredValuesAssumption DEF Slots, Properties

LEMMA LockFacts ==
  /\ AssociationsManagerLock \in Locks /\ PropertyLock \in Locks
  /\ \A c \in Cells : StructLock(c) \in Locks
  /\ \A s \in Slots : LockOf(s) \in Locks
  /\ <<>> \in Seq(Locks) /\ <<AssociationsManagerLock>> \in Seq(Locks)
  /\ <<AssociationsManagerLock>> # <<>>
  /\ \A s \in Slots : /\ LocksFor(s) \in Seq(Locks)
                      /\ LocksFor(s) = IF s = "nonatomic" THEN <<>> ELSE <<LockOf(s)>>
                      /\ LocksFor(s) = <<>> <=> s = "nonatomic"
<1>1. AssociationsManagerLock \in Locks /\ PropertyLock \in Locks
      /\ \A c \in Cells : StructLock(c) \in Locks
  BY DEF Locks
<1>2. \A s \in Slots : LockOf(s) \in Locks
  BY <1>1 DEF LockOf
<1>3. ASSUME NEW s \in Slots
      PROVE  LocksFor(s) = IF s = "nonatomic" THEN <<>> ELSE <<LockOf(s)>>
  BY SlotFacts DEF LocksFor, LockOf
<1>4. ASSUME NEW l \in Locks PROVE <<l>> \in Seq(Locks) /\ <<l>> # <<>>
  OBVIOUS
<1>5. <<>> \in Seq(Locks)
  OBVIOUS
<1> QED
  BY <1>1, <1>2, <1>3, <1>4, <1>5

\* The fields of a new frame.
LEMMA FrameFacts ==
  ASSUME NEW do \in {"swap", "read", "remove", "move", "none"}, NEW o \in Objects \cup Cells,
         NEW s \in Slots
  PROVE  /\ Frame(do, o, s) = [Frame(do, o, s) EXCEPT !.pc = Frame(do, o, s).pc]
         /\ Frame(do, o, s).pc = (IF s = "nonatomic" THEN do ELSE "lock")
         /\ Frame(do, o, s).want = LocksFor(s)
         /\ Frame(do, o, s).do = do /\ Frame(do, o, s).obj = o /\ Frame(do, o, s).slot = s
         /\ Frame(do, o, s).new = None /\ Frame(do, o, s).todo = {}
         /\ Frame(do, o, s).then = "return" /\ Frame(do, o, s).src = Nil
         /\ \A pc \in PCs : [Frame(do, o, s) EXCEPT !.pc = pc] \in FrameType
<1>1. LocksFor(s) \in Seq(Locks) /\ (LocksFor(s) = <<>> <=> s = "nonatomic")
  BY LockFacts
<1>2. None \in Entry
  BY EntryFacts
<1>3. ASSUME NEW pc \in PCs PROVE [Frame(do, o, s) EXCEPT !.pc = pc] \in FrameType
  BY <1>1, <1>2 DEF Frame, FrameType, PCs
<1> QED
  BY <1>1, <1>3 DEF Frame

(* Counting references. *)

\* What the frame at position n of t's stack carries in, and from which places
\* the references to o are that it is to release.
Carries(f, o) == f.do = "swap" /\ f.new.value = o /\ f.new.setter # "assign"
Drops(f, o) == {s \in Slots : <<s, o>> \in f.todo}
Carry(t, n, o) == n \in 1 .. Len(stack[t]) /\ Carries(stack[t][n], o)
Carried(t, n, o) == IF Carry(t, n, o) THEN 1 ELSE 0
Drop(t, n, o) == IF n \in 1 .. Len(stack[t]) THEN Drops(stack[t][n], o) ELSE {}

LEMMA FramePlaces ==
  ASSUME Typed
  PROVE  /\ IsFiniteSet(Frames)
         /\ \A p \in Frames : \E u \in Threads : \E i \in 1 .. Len(stack[u]) : p = <<u, i>>
         /\ \A u \in Threads : \A i : <<u, i>> \in Frames <=> i \in 1 .. Len(stack[u])
<1>1. ASSUME NEW u \in Threads
      PROVE  /\ DOMAIN stack[u] = 1 .. Len(stack[u]) /\ IsFiniteSet({u} \X DOMAIN stack[u])
  <2>1. Len(stack[u]) \in Nat /\ DOMAIN stack[u] = 1 .. Len(stack[u])
    <3>1. PICK s \in Seq(FrameType) : s = stack[u]
      BY DEF Typed
    <3> QED
      BY <3>1
  <2>2. IsFiniteSet(1 .. Len(stack[u]))
    BY <2>1, FS_Interval
  <2>3. IsFiniteSet({u})
    BY FS_Singleton
  <2> QED
    BY <2>1, <2>2, <2>3, FS_Product
<1>2. IsFiniteSet({{t} \X DOMAIN stack[t] : t \in Threads})
  <2>1. IsFiniteSet(Threads)
    BY StoredValuesAssumption
  <2> DEFINE g == [t \in Threads |-> {t} \X DOMAIN stack[t]]
             T == {{t} \X DOMAIN stack[t] : t \in Threads}
  <2>2. g \in Surjection(Threads, T)
    BY DEF Surjection
  <2> QED
    BY <2>1, <2>2, FS_Surjection
<1>3. IsFiniteSet(Frames)
  BY <1>1, <1>2, FS_UNION DEF Frames
<1>4. ASSUME NEW p \in Frames PROVE \E u \in Threads : \E i \in 1 .. Len(stack[u]) : p = <<u, i>>
  BY <1>1 DEF Frames
<1>5. ASSUME NEW u \in Threads, NEW i PROVE <<u, i>> \in Frames <=> i \in 1 .. Len(stack[u])
  <2>1. ASSUME <<u, i>> \in Frames PROVE i \in 1 .. Len(stack[u])
    <3>1. PICK t \in Threads : <<u, i>> \in {t} \X DOMAIN stack[t]
      BY <2>1 DEF Frames
    <3> QED
      BY <1>1, <3>1
  <2>2. ASSUME i \in 1 .. Len(stack[u]) PROVE <<u, i>> \in Frames
    <3>1. <<u, i>> \in {u} \X DOMAIN stack[u]
      BY <1>1, <2>2
    <3> QED
      BY <3>1 DEF Frames
  <2> QED
    BY <2>1, <2>2
<1> QED
  BY <1>3, <1>4, <1>5

LEMMA SlotsFinite == IsFiniteSet(Slots) /\ IsFiniteSet(Hosts \X Slots)
<1>1. IsFiniteSet(Properties)
  <2>1. IsFiniteSet({"atomic"}) /\ IsFiniteSet({"nonatomic"})
    BY FS_Singleton
  <2>2. Properties = {"atomic"} \cup {"nonatomic"}
    BY DEF Properties
  <2> QED
    BY <2>1, <2>2, FS_Union
<1>2. IsFiniteSet(Slots)
  BY <1>1, FS_Union, StoredValuesAssumption DEF Slots
<1> QED
  BY <1>2, FS_Product, StoredValuesAssumption

\* References under way can be counted.
Countable ==
  \A o \in Objects :
    /\ IsFiniteSet(OnTheWayIn(o)) /\ Cardinality(OnTheWayIn(o)) \in Nat
    /\ IsFiniteSet(OnTheWayOut(o)) /\ Cardinality(OnTheWayOut(o)) \in Nat
    /\ IsFiniteSet(InPlaces(o)) /\ Cardinality(InPlaces(o)) \in Nat

LEMMA TypedCountable == Typed => Countable
<1> SUFFICES ASSUME Typed, NEW o \in Objects
             PROVE  /\ IsFiniteSet(OnTheWayIn(o)) /\ Cardinality(OnTheWayIn(o)) \in Nat
                    /\ IsFiniteSet(OnTheWayOut(o)) /\ Cardinality(OnTheWayOut(o)) \in Nat
                    /\ IsFiniteSet(InPlaces(o)) /\ Cardinality(InPlaces(o)) \in Nat
  BY DEF Countable
<1>1. IsFiniteSet(Frames) /\ IsFiniteSet(Slots) /\ IsFiniteSet(Hosts \X Slots)
  BY FramePlaces, SlotsFinite
<1>2. IsFiniteSet(Frames \X Slots)
  BY <1>1, FS_Product
<1>3. /\ OnTheWayIn(o) \in SUBSET Frames /\ OnTheWayOut(o) \in SUBSET (Frames \X Slots)
      /\ InPlaces(o) \in SUBSET (Hosts \X Slots)
  BY DEF OnTheWayIn, OnTheWayOut, InPlaces
<1> QED
  BY <1>1, <1>2, <1>3, FS_Subset, FS_CardinalityType

\* Where the references under way are.
UnderWay ==
  \A o \in Objects :
    /\ \A u \in Threads : \A i : <<u, i>> \in OnTheWayIn(o) <=> Carry(u, i, o)
    /\ \A p \in OnTheWayIn(o) : \E u \in Threads : \E i : p = <<u, i>>
    /\ \A u \in Threads : \A i, s : <<<<u, i>>, s>> \in OnTheWayOut(o) <=> s \in Drop(u, i, o)
    /\ \A p \in OnTheWayOut(o) : \E u \in Threads : \E i, s : p = <<<<u, i>>, s>>

LEMMA TypedUnderWay == Typed => UnderWay
<1> SUFFICES ASSUME Typed, NEW o \in Objects
             PROVE  /\ \A u \in Threads : \A i : <<u, i>> \in OnTheWayIn(o) <=> Carry(u, i, o)
                    /\ \A p \in OnTheWayIn(o) : \E u \in Threads : \E i : p = <<u, i>>
                    /\ \A u \in Threads : \A i, s :
                         <<<<u, i>>, s>> \in OnTheWayOut(o) <=> s \in Drop(u, i, o)
                    /\ \A p \in OnTheWayOut(o) :
                         \E u \in Threads : \E i, s : p = <<<<u, i>>, s>>
  BY DEF UnderWay
<1>1. ASSUME NEW u \in Threads, NEW i PROVE <<u, i>> \in OnTheWayIn(o) <=> Carry(u, i, o)
  <2>1. <<u, i>> \in Frames <=> i \in 1 .. Len(stack[u])
    BY FramePlaces
  <2>2. FrameOf(<<u, i>>) = stack[u][i]
    BY DEF FrameOf
  <2> QED
    BY <2>1, <2>2 DEF OnTheWayIn, Carry, Carries
<1>2. ASSUME NEW p \in OnTheWayIn(o)
      PROVE \E u \in Threads : \E i : p = <<u, i>>
  BY FramePlaces DEF OnTheWayIn
<1>3. ASSUME NEW u \in Threads, NEW i, NEW s
      PROVE  <<<<u, i>>, s>> \in OnTheWayOut(o) <=> s \in Drop(u, i, o)
  <2>1. <<u, i>> \in Frames <=> i \in 1 .. Len(stack[u])
    BY FramePlaces
  <2>2. FrameOf(<<u, i>>) = stack[u][i]
    BY DEF FrameOf
  <2>3. PICK q : q = <<u, i>>
    OBVIOUS
  <2>4. <<q, s>> \in OnTheWayOut(o) <=> /\ q \in Frames /\ s \in Slots
                                       /\ <<s, o>> \in FrameOf(q).todo
    BY DEF OnTheWayOut
  <2> QED
    BY <2>1, <2>2, <2>3, <2>4 DEF Drop, Drops
<1>4. ASSUME NEW p \in OnTheWayOut(o)
      PROVE  \E u \in Threads : \E i, s : p = <<<<u, i>>, s>>
  <2>1. PICK q \in Frames, s \in Slots : p = <<q, s>>
    BY DEF OnTheWayOut
  <2>2. PICK u \in Threads : \E i \in 1 .. Len(stack[u]) : q = <<u, i>>
    BY FramePlaces
  <2> QED
    BY <2>1, <2>2
<1> QED
  BY <1>1, <1>2, <1>3, <1>4

\* Two sets that differ in what they say of p only.
Apart(R, p, D) == \A s \in D : <<p, s>> \notin R

LEMMA SplitCount ==
  ASSUME NEW R, IsFiniteSet(R), NEW p, NEW D, IsFiniteSet(D), Apart(R, p, D)
  PROVE  Cardinality(R \cup ({p} \X D)) = Cardinality(R) + Cardinality(D)
<1>1. IsFiniteSet({p}) /\ Cardinality({p}) = 1
  BY FS_Singleton
<1>2. Cardinality({}) = 0
  BY FS_EmptySet
<1>3. Cardinality(R) \in Nat /\ Cardinality(D) \in Nat
  BY FS_CardinalityType
<1>4. R \cap ({p} \X D) = {}
  BY DEF Apart
<1>5. IsFiniteSet({p} \X D) /\ Cardinality({p} \X D) = 1 * Cardinality(D)
  BY <1>1, FS_Product
<1>6. Cardinality(R \cup ({p} \X D)) = Cardinality(R) + Cardinality({p} \X D) - Cardinality({})
  BY <1>4, <1>5, FS_Union
<1> QED
  BY <1>2, <1>3, <1>5, <1>6

\* A step of t that changes the frame at position n only, as far as references
\* are concerned.
LEMMA RefsStep ==
  ASSUME Typed, Typed', NEW t \in Threads, NEW n \in Nat, n >= 1, n >= Len(stack[t]), Kept(t, n - 1),
         NEW o \in Objects,
         \A i \in 1 .. Len(stack'[t]) : i > n => ~Carries(stack'[t][i], o) /\ Drops(stack'[t][i], o) = {}
  PROVE  /\ Cardinality(OnTheWayIn(o)') + Carried(t, n, o)
              = Cardinality(OnTheWayIn(o)) + Carried(t, n, o)'
         /\ Cardinality(OnTheWayOut(o)') + Cardinality(Drop(t, n, o))
              = Cardinality(OnTheWayOut(o)) + Cardinality(Drop(t, n, o)')
<1>0. PICK p : p = <<t, n>>
  OBVIOUS
<1>1. Len(stack[t]) \in Nat /\ Len(stack'[t]) \in Nat
  <2>1. stack[t] \in Seq(FrameType) /\ stack'[t] \in Seq(FrameType)
    BY DEF Typed
  <2> QED
    BY <2>1
<1>2. ASSUME NEW u \in Threads, NEW i, <<u, i>> # p
      PROVE  (Carry(u, i, o)' <=> Carry(u, i, o)) /\ Drop(u, i, o)' = Drop(u, i, o)
  <2>1. CASE u # t
    BY <2>1 DEF Carry, Drop, Kept
  <2>2. CASE u = t /\ i \in 1 .. n - 1
    <3>1. i \in 1 .. Len(stack[t]) /\ i \in 1 .. Len(stack'[t]) /\ stack'[t][i] = stack[t][i]
      BY <1>1, <2>2 DEF Kept
    <3> QED
      BY <2>2, <3>1 DEF Carry, Drop
  <2>3. CASE u = t /\ i \notin 1 .. n - 1
    <3>1. i # n
      BY <1>0, <1>2, <2>3
    <3>2. i \notin 1 .. Len(stack[t])
      BY <1>1, <2>3, <3>1
    <3>3. i \in 1 .. Len(stack'[t]) => i > n
      BY <1>1, <2>3, <3>1
    <3> QED
      BY <2>3, <3>2, <3>3 DEF Carry, Drop
  <2> QED
    BY <2>1, <2>2, <2>3
<1>3. Countable /\ Countable' /\ UnderWay /\ UnderWay'
  <2>1. Countable /\ UnderWay
    BY TypedCountable, TypedUnderWay
  <2>2. Countable' /\ UnderWay'
    BY TypedCountable, TypedUnderWay, PTL
  <2> QED
    BY <2>1, <2>2
<1>4. Cardinality(OnTheWayIn(o)') + Carried(t, n, o)
        = Cardinality(OnTheWayIn(o)) + Carried(t, n, o)'
  <2>1. PICK I : I = OnTheWayIn(o)
    OBVIOUS
  <2>2. PICK J : J = OnTheWayIn(o)'
    OBVIOUS
  <2>3. IsFiniteSet(I) /\ IsFiniteSet(J) /\ Cardinality(I) \in Nat /\ Cardinality(J) \in Nat
    BY <1>3, <2>1, <2>2 DEF Countable
  <2>4. /\ \A u \in Threads : \A i : <<u, i>> \in J <=> Carry(u, i, o)'
        /\ \A q \in J : \E u \in Threads : \E i : q = <<u, i>>
    BY <1>3, <2>2 DEF UnderWay
  <2>5. /\ \A u \in Threads : \A i : <<u, i>> \in I <=> Carry(u, i, o)
        /\ \A q \in I : \E u \in Threads : \E i : q = <<u, i>>
    BY <1>3, <2>1 DEF UnderWay
  <2>6. J \ {p} = I \ {p}
    BY <1>0, <1>2, <2>4, <2>5
  <2>7. (p \in J <=> Carry(t, n, o)') /\ (p \in I <=> Carry(t, n, o))
    BY <1>0, <2>4, <2>5
  <2>8. /\ Cardinality(I \ {p}) = IF p \in I THEN Cardinality(I) - 1 ELSE Cardinality(I)
        /\ Cardinality(J \ {p}) = IF p \in J THEN Cardinality(J) - 1 ELSE Cardinality(J)
    BY <2>3, FS_RemoveElement
  <2>9. PICK a \in Nat, b \in Nat, c \in Int :
          /\ a = Cardinality(I) /\ b = Cardinality(J)
          /\ c = (IF p \in I THEN a - 1 ELSE a) /\ c = (IF p \in J THEN b - 1 ELSE b)
    <3>1. (IF p \in I THEN Cardinality(I) - 1 ELSE Cardinality(I))
            = (IF p \in J THEN Cardinality(J) - 1 ELSE Cardinality(J))
      BY <2>6, <2>8
    <3> QED
      BY <2>3, <3>1
  <2>10. /\ Carried(t, n, o) = IF p \in I THEN 1 ELSE 0
         /\ Carried(t, n, o)' = IF p \in J THEN 1 ELSE 0
    BY <2>7 DEF Carried
  <2>11. b + (IF p \in I THEN 1 ELSE 0) = a + (IF p \in J THEN 1 ELSE 0)
    BY <2>9
  <2> QED
    BY <2>1, <2>2, <2>9, <2>10, <2>11
<1>5. Cardinality(OnTheWayOut(o)') + Cardinality(Drop(t, n, o))
        = Cardinality(OnTheWayOut(o)) + Cardinality(Drop(t, n, o)')
  <2>1. PICK I : I = OnTheWayOut(o)
    OBVIOUS
  <2>2. PICK J : J = OnTheWayOut(o)'
    OBVIOUS
  <2>3. PICK D : D = Drop(t, n, o)
    OBVIOUS
  <2>4. PICK E : E = Drop(t, n, o)'
    OBVIOUS
  <2>5. D \in SUBSET Slots /\ E \in SUBSET Slots
    BY <2>3, <2>4 DEF Drop, Drops
  <2>6. IsFiniteSet(D) /\ IsFiniteSet(E)
    BY <2>5, SlotsFinite, FS_Subset
  <2>7. /\ \A u \in Threads : \A i, s : <<<<u, i>>, s>> \in J <=> s \in Drop(u, i, o)'
        /\ \A q \in J : \E u \in Threads : \E i, s : q = <<<<u, i>>, s>>
    BY <1>3, <2>2 DEF UnderWay
  <2>8. /\ \A u \in Threads : \A i, s : <<<<u, i>>, s>> \in I <=> s \in Drop(u, i, o)
        /\ \A q \in I : \E u \in Threads : \E i, s : q = <<<<u, i>>, s>>
    BY <1>3, <2>1 DEF UnderWay
  <2>9. IsFiniteSet(I) /\ IsFiniteSet(J)
    BY <1>3, <2>1, <2>2 DEF Countable
  <2>10. PICK R : R = I \ ({p} \X Slots)
    OBVIOUS
  <2>11. IsFiniteSet(R)
    BY <2>9, <2>10, FS_Difference
  <2>12. \A s \in Slots : <<p, s>> \notin R
    BY <2>10
  <2>13. I = R \cup ({p} \X D)
    <3>1. ASSUME NEW s PROVE <<p, s>> \in I <=> s \in D
      BY <1>0, <2>3, <2>8
    <3> QED
      BY <2>5, <2>10, <3>1
  <2>14. J = R \cup ({p} \X E)
    <3>1. ASSUME NEW s PROVE <<p, s>> \in J <=> s \in E
      BY <1>0, <2>4, <2>7
    <3>2. ASSUME NEW q, q \notin {p} \X Slots PROVE q \in J <=> q \in I
      <4>1. ASSUME NEW u \in Threads, NEW i, NEW s, q = <<<<u, i>>, s>>
            PROVE  q \in J <=> q \in I
        <5>1. CASE <<u, i>> # p
          BY <1>2, <2>7, <2>8, <4>1, <5>1
        <5>2. CASE <<u, i>> = p
          <6>1. u = t /\ i = n /\ s \notin Slots
            BY <1>0, <3>2, <4>1, <5>2
          <6> QED
            BY <2>3, <2>4, <2>5, <2>7, <2>8, <4>1, <6>1
        <5> QED
          BY <5>1, <5>2
      <4> QED
        BY <2>7, <2>8, <4>1
    <3> QED
      BY <2>5, <2>10, <3>1, <3>2
  <2>15. Cardinality(J) + Cardinality(D) = Cardinality(I) + Cardinality(E)
    <3>1. Apart(R, p, D)
      BY <2>5, <2>12 DEF Apart
    <3>2. Apart(R, p, E)
      BY <2>5, <2>12 DEF Apart
    <3>3. Cardinality(R \cup ({p} \X D)) = Cardinality(R) + Cardinality(D)
      BY ONLY <2>6, <2>11, <3>1, SplitCount
    <3>4. Cardinality(R \cup ({p} \X E)) = Cardinality(R) + Cardinality(E)
      BY ONLY <2>6, <2>11, <3>2, SplitCount
    <3>5. Cardinality(R) \in Nat /\ Cardinality(D) \in Nat /\ Cardinality(E) \in Nat
      BY <2>6, <2>11, FS_CardinalityType
    <3> QED
      BY <2>13, <2>14, <3>3, <3>4, <3>5
  <2> QED
    BY <2>1, <2>2, <2>3, <2>4, <2>15
<1> QED
  BY <1>4, <1>5

\* Places of h, among those in S, that own a reference to o.
Owned(h, S, o) == {s \in S : held[h][s].value = o /\ held[h][s].setter # "assign"}

LEMMA PlacesStep ==
  ASSUME Typed, Typed', NEW h \in Hosts, NEW S, S \in SUBSET Slots, NEW o \in Objects,
         \A g \in Hosts \ {h} : held'[g] = held[g],
         \A s \in Slots \ S : held'[h][s] = held[h][s]
  PROVE  /\ Cardinality(InPlaces(o)') + Cardinality(Owned(h, S, o))
              = Cardinality(InPlaces(o)) + Cardinality(Owned(h, S, o)')
         /\ Cardinality(Owned(h, S, o)) \in Nat /\ Cardinality(Owned(h, S, o)') \in Nat
<1>1. PICK I : I = InPlaces(o)
  OBVIOUS
<1>2. PICK J : J = InPlaces(o)'
  OBVIOUS
<1>3. PICK D : D = Owned(h, S, o)
  OBVIOUS
<1>4. PICK E : E = Owned(h, S, o)'
  OBVIOUS
<1>5. D \in SUBSET S /\ E \in SUBSET S /\ D \in SUBSET Slots /\ E \in SUBSET Slots
  BY <1>3, <1>4 DEF Owned
<1>6. IsFiniteSet(D) /\ IsFiniteSet(E)
  BY <1>5, SlotsFinite, FS_Subset
<1>7. IsFiniteSet(I) /\ IsFiniteSet(J)
  <2>1. Countable
    BY TypedCountable
  <2>2. Countable'
    BY TypedCountable, PTL
  <2> QED
    BY <1>1, <1>2, <2>1, <2>2 DEF Countable
<1>8. PICK R : R = I \ ({h} \X S)
  OBVIOUS
<1>9. IsFiniteSet(R)
  BY <1>7, <1>8, FS_Difference
<1>10. \A s \in S : <<h, s>> \notin R
  BY <1>8
<1>11. ASSUME NEW g \in Hosts, NEW s \in Slots
       PROVE  /\ <<g, s>> \in I <=> held[g][s].value = o /\ held[g][s].setter # "assign"
              /\ <<g, s>> \in J <=> held'[g][s].value = o /\ held'[g][s].setter # "assign"
  BY <1>1, <1>2 DEF InPlaces
<1>12. /\ \A p \in I \cup J : \E g \in Hosts : \E s \in Slots : p = <<g, s>>
  BY <1>1, <1>2 DEF InPlaces
<1>13. I = R \cup ({h} \X D)
  <2>1. ASSUME NEW s \in S PROVE <<h, s>> \in I <=> s \in D
    BY <1>3, <1>11 DEF Owned
  <2> QED
    BY <1>5, <1>8, <2>1
<1>14. J = R \cup ({h} \X E)
  <2>1. ASSUME NEW s \in S PROVE <<h, s>> \in J <=> s \in E
    BY <1>4, <1>11 DEF Owned
  <2>2. ASSUME NEW q, q \notin {h} \X S PROVE q \in J <=> q \in I
    <3>1. ASSUME NEW g \in Hosts, NEW s \in Slots, q = <<g, s>> PROVE q \in J <=> q \in I
      <4>1. held'[g][s] = held[g][s]
        BY <2>2, <3>1
      <4> QED
        BY <1>11, <3>1, <4>1
    <3> QED
      BY <1>12, <3>1
  <2> QED
    BY <1>5, <1>8, <2>1, <2>2
<1>20. PICK p : p = h
  OBVIOUS
<1>15. Apart(R, p, D)
  BY <1>5, <1>10, <1>20 DEF Apart
<1>16. Apart(R, p, E)
  BY <1>5, <1>10, <1>20 DEF Apart
<1>17. Cardinality(R \cup ({p} \X D)) = Cardinality(R) + Cardinality(D)
  BY ONLY <1>6, <1>9, <1>15, SplitCount
<1>18. Cardinality(R \cup ({p} \X E)) = Cardinality(R) + Cardinality(E)
  BY ONLY <1>6, <1>9, <1>16, SplitCount
<1>19. Cardinality(R) \in Nat /\ Cardinality(D) \in Nat /\ Cardinality(E) \in Nat
  BY <1>6, <1>9, FS_CardinalityType
<1> QED
  BY <1>1, <1>2, <1>3, <1>4, <1>13, <1>14, <1>17, <1>18, <1>19, <1>20

\* What is released when places are emptied is what they owned.
LEMMA ValuesOwned ==
  ASSUME Typed, NEW h \in Hosts, NEW S \in SUBSET Slots
  PROVE  /\ Values(h, S) \in SUBSET (Slots \X Objects)
         /\ \A o \in Objects : {s \in Slots : <<s, o>> \in Values(h, S)} = Owned(h, S, o)
<1>1. ASSUME NEW s \in S, releaseValue(held[h][s]) PROVE held[h][s].value \in Objects
  <2>1. held[h][s] \in Entries(s) /\ s \in Slots
    BY DEF Typed
  <2> QED
    BY <1>1, <2>1, EntryFacts DEF releaseValue
<1>2. Values(h, S) \in SUBSET (Slots \X Objects)
  BY <1>1 DEF Values
<1>3. ASSUME NEW o \in Objects, NEW s \in Slots
      PROVE  <<s, o>> \in Values(h, S) <=> s \in Owned(h, S, o)
  BY StoredValuesAssumption DEF Values, Owned, releaseValue
<1> QED
  BY <1>2, <1>3 DEF Owned

\* References of the clients: f[t] of thread t.
Refs(f) == UNION {{t} \X (1 .. f[t]) : t \in Threads}

LEMMA RefsFacts ==
  ASSUME NEW f \in [Threads -> Nat]
  PROVE  /\ IsFiniteSet(Refs(f)) /\ Cardinality(Refs(f)) \in Nat
         /\ \A t \in Threads : \A i : <<t, i>> \in Refs(f) <=> i \in 1 .. f[t]
         /\ \A p \in Refs(f) : \E t \in Threads : \E i : p = <<t, i>>
<1>1. ASSUME NEW t \in Threads PROVE IsFiniteSet({t} \X (1 .. f[t]))
  <2>1. IsFiniteSet(1 .. f[t])
    <3>1. 0 \in Int /\ 1 \in Int /\ f[t] \in Int
      OBVIOUS
    <3> QED
      BY <3>1, FS_Interval
  <2>2. IsFiniteSet({t})
    BY FS_Singleton
  <2> QED
    BY <2>1, <2>2, FS_Product
<1>2. IsFiniteSet({{t} \X (1 .. f[t]) : t \in Threads})
  <2>1. IsFiniteSet(Threads)
    BY StoredValuesAssumption
  <2> DEFINE g == [t \in Threads |-> {t} \X (1 .. f[t])]
             T == {{t} \X (1 .. f[t]) : t \in Threads}
  <2>2. g \in Surjection(Threads, T)
    BY DEF Surjection
  <2> QED
    BY <2>1, <2>2, FS_Surjection
<1>3. IsFiniteSet(Refs(f))
  BY <1>1, <1>2, FS_UNION DEF Refs
<1>4. ASSUME NEW t \in Threads, NEW i PROVE <<t, i>> \in Refs(f) <=> i \in 1 .. f[t]
  <2>1. ASSUME <<t, i>> \in Refs(f) PROVE i \in 1 .. f[t]
    <3>1. PICK u \in Threads : <<t, i>> \in {u} \X (1 .. f[u])
      BY <2>1 DEF Refs
    <3> QED
      BY <3>1
  <2>2. ASSUME i \in 1 .. f[t] PROVE <<t, i>> \in Refs(f)
    <3>1. <<t, i>> \in {t} \X (1 .. f[t])
      BY <2>2
    <3> QED
      BY <3>1 DEF Refs
  <2> QED
    BY <2>1, <2>2
<1>5. ASSUME NEW p \in Refs(f) PROVE \E t \in Threads : \E i : p = <<t, i>>
  BY DEF Refs
<1> QED
  BY <1>3, <1>4, <1>5, FS_CardinalityType

\* One reference more.
LEMMA RefsMore ==
  ASSUME NEW f \in [Threads -> Nat], NEW g \in [Threads -> Nat], NEW t \in Threads,
         g[t] = f[t] + 1, \A u \in Threads \ {t} : g[u] = f[u]
  PROVE  Cardinality(Refs(g)) = Cardinality(Refs(f)) + 1
<1>1. PICK A : A = Refs(f)
  OBVIOUS
<1>2. PICK B : B = Refs(g)
  OBVIOUS
<1>3. PICK p : p = <<t, f[t] + 1>>
  OBVIOUS
<1>4. /\ IsFiniteSet(A)
      /\ \A u \in Threads : \A i : <<u, i>> \in A <=> i \in 1 .. f[u]
      /\ \A q \in A : \E u \in Threads : \E i : q = <<u, i>>
  BY <1>1, RefsFacts
<1>5. /\ \A u \in Threads : \A i : <<u, i>> \in B <=> i \in 1 .. g[u]
      /\ \A q \in B : \E u \in Threads : \E i : q = <<u, i>>
  BY <1>2, RefsFacts
<1>6. p \notin A
  BY <1>3, <1>4
<1>7. B = A \cup {p}
  <2>1. ASSUME NEW u \in Threads, NEW i
        PROVE  <<u, i>> \in B <=> <<u, i>> \in A \/ <<u, i>> = p
    <3>1. CASE u = t
      <4>1. <<u, i>> = p <=> i = f[t] + 1
        BY <1>3, <3>1
      <4>2. i \in 1 .. f[t] + 1 <=> i \in 1 .. f[t] \/ i = f[t] + 1
        OBVIOUS
      <4> QED
        BY <1>4, <1>5, <3>1, <4>1, <4>2
    <3>2. CASE u # t
      BY <1>3, <1>4, <1>5, <3>2
    <3> QED
      BY <3>1, <3>2
  <2> QED
    BY <1>3, <1>4, <1>5, <2>1
<1>8. Cardinality(A \cup {p}) = Cardinality(A) + 1
  BY ONLY <1>4, <1>6, FS_AddElement
<1> QED
  BY <1>1, <1>2, <1>7, <1>8

ClientRefs(o) == [t \in Threads |-> own[t][o]]

LEMMA OfClientsRefs ==
  ASSUME Typed, NEW o \in Objects
  PROVE  /\ OfClients(o) = Refs(ClientRefs(o)) /\ ClientRefs(o) \in [Threads -> Nat]
         /\ IsFiniteSet(OfClients(o)) /\ Cardinality(OfClients(o)) \in Nat
         /\ (\E t \in Threads : own[t][o] > 0) => Cardinality(OfClients(o)) > 0
<1>1. ClientRefs(o) \in [Threads -> Nat]
  BY DEF Typed, ClientRefs
<1>2. OfClients(o) = Refs(ClientRefs(o))
  BY DEF OfClients, Refs, ClientRefs
<1>3. ASSUME NEW t \in Threads, own[t][o] > 0 PROVE Cardinality(OfClients(o)) > 0
  <2>1. own[t][o] \in Nat /\ 1 \in 1 .. own[t][o] /\ ClientRefs(o)[t] = own[t][o]
    BY <1>3 DEF Typed, ClientRefs
  <2>2. <<t, 1>> \in Refs(ClientRefs(o)) /\ IsFiniteSet(Refs(ClientRefs(o)))
        /\ Cardinality(Refs(ClientRefs(o))) \in Nat
    BY <1>1, <2>1, RefsFacts
  <2>3. Refs(ClientRefs(o)) # {}
    BY <2>2
  <2>4. Cardinality(Refs(ClientRefs(o))) # 0
    BY <2>2, <2>3, FS_EmptySet
  <2> QED
    BY <1>2, <2>2, <2>4
<1> QED
  BY <1>1, <1>2, <1>3, RefsFacts

(* What a step leaves alone. *)

\* t works in calls from k + 1 on; those before wait.
Works(t, k) ==
  /\ Kept(t, k)
  /\ \A i \in 1 .. k : i \in 1 .. Len(stack[t]) /\ Waits(stack[t][i])

LEMMA WorksAbove ==
  ASSUME Typed, Shapes, NEW t \in Threads, stack[t] # <<>>, Kept(t, Len(stack[t]) - 1)
  PROVE  Works(t, Len(stack[t]) - 1)
<1>1. Len(stack[t]) \in Nat
  BY TopFrame
<1>2. ASSUME NEW i \in 1 .. Len(stack[t]) - 1
      PROVE  i \in 1 .. Len(stack[t]) /\ i < Len(stack[t])
  BY <1>1
<1> QED
  BY <1>2 DEF Works, Shapes

LEMMA WorksCalled ==
  ASSUME Typed, Shapes, NEW t \in Threads, Kept(t, Len(stack[t])),
         stack[t] # <<>> => Waits(Top(t))
  PROVE  Works(t, Len(stack[t]))
<1>1. Len(stack[t]) \in Nat
  BY TopFrame
<1>2. ASSUME NEW i \in 1 .. Len(stack[t])
      PROVE  Waits(stack[t][i])
  <2>1. CASE i < Len(stack[t])
    BY <2>1 DEF Shapes
  <2>2. CASE ~(i < Len(stack[t]))
    <3>1. i = Len(stack[t]) /\ Len(stack[t]) >= 1
      BY <1>1, <2>2
    <3>2. stack[t] # <<>>
      <4>1. stack[t] \in Seq(FrameType)
        BY TopFrame
      <4> QED
        BY <3>1, <4>1
    <3> QED
      BY <3>1, <3>2, TopFrame
  <2> QED
    BY <2>1, <2>2
<1> QED
  BY <1>2 DEF Works

\* The calls of a state are those of others, those that wait and the others of t.
LEMMA Calls ==
  ASSUME Typed, Typed', NEW t \in Threads, NEW k, Works(t, k), NEW u \in Threads,
         NEW i \in 1 .. Len(stack'[u])
  PROVE  /\ \/ u # t /\ stack'[u] = stack[u] /\ i \in 1 .. Len(stack[u])
            \/ /\ u = t /\ i \in 1 .. k /\ stack'[u][i] = stack[u][i] /\ i \in 1 .. Len(stack[u])
               /\ Waits(stack[u][i])
            \/ u = t /\ i > k /\ i \in 1 .. Len(stack'[t])
         /\ k \in Nat /\ i \in Nat /\ stack'[u][i] \in FrameType
<1>1. stack'[u] \in Seq(FrameType)
  BY DEF Typed
<1>2. Len(stack'[u]) \in Nat /\ stack'[u][i] \in FrameType
  BY <1>1
<1>3. i \in Nat /\ k \in Nat /\ i >= 1
  BY <1>2 DEF Works, Kept
<1>4. CASE u # t
  <2>1. stack'[u] = stack[u]
    BY <1>4 DEF Works, Kept
  <2> QED
    BY <1>2, <1>3, <1>4, <2>1
<1>5. CASE u = t /\ i <= k
  <2>1. i \in 1 .. k
    BY <1>3, <1>5
  <2> QED
    BY <1>2, <1>3, <1>5, <2>1 DEF Works, Kept
<1>6. CASE u = t /\ i > k
  BY <1>2, <1>3, <1>6
<1> QED
  BY <1>3, <1>4, <1>5, <1>6

LEMMA ShapesStep ==
  ASSUME Typed, Typed', Shapes, NEW t \in Threads, NEW k, Works(t, k),
         \A i \in 1 .. Len(stack'[t]) : i > k =>
            /\ Shape(stack'[t][i])
            /\ i < Len(stack'[t]) => Waits(stack'[t][i])
  PROVE  Shapes'
<1> SUFFICES ASSUME NEW u \in Threads, NEW i \in 1 .. Len(stack'[u])
             PROVE  /\ Shape(stack'[u][i])
                    /\ i < Len(stack'[u]) => Waits(stack'[u][i])
  <2>1. \A f : (Shape(f)' <=> Shape(f)) /\ (Waits(f)' <=> Waits(f))
    BY DEF Shape, Waits, Helping
  <2> QED
    BY <2>1 DEF Shapes
<1> QED
  BY Calls DEF Shapes

LEMMA UserSame ==
  ASSUME NEW t \in Threads, NEW i \in Nat, i >= 1, \A j \in 1 .. i : stack'[t][j] = stack[t][j],
         UserAt(t, i), own'[t] = own[t] \/ Waits(stack[t][i])
  PROVE  UserAt(t, i)'
<1>1. i \in 1 .. i /\ \A j \in 1 .. i - 1 : j \in 1 .. i
  OBVIOUS
<1>2. PICK f : f = stack[t][i] /\ f = stack'[t][i]
  BY <1>1
<1>3. \A j \in 1 .. i - 1 : stack'[t][j] = stack[t][j]
  BY <1>1
<1>4. \A d : (MadeIn(d, f)' <=> MadeIn(d, f)) /\ (IsDealloc(f)' <=> IsDealloc(f)) /\ (Helping(d)' <=> Helping(d))
  BY DEF MadeIn, IsDealloc, Intact, Helping, Properties
<1>5. f.pc \in {"lock", "swap", "read", "retain", "remove"} => own'[t] = own[t]
  BY <1>2 DEF Waits, Helping
<1>6. f.pc \in {"lock", "swap", "read", "retain", "remove"} /\ f.do # "move" /\ ~IsDealloc(f) =>
        own'[t][f.obj] > 0 \/ \E j \in 1 .. i - 1 : MadeIn(stack'[t][j], f)
  BY <1>2, <1>3, <1>5 DEF UserAt
<1>7. f.do = "move" /\ f.obj \in CppObjects => \A j \in 1 .. i - 1 : ~Helping(stack'[t][j])
  BY <1>2, <1>3 DEF UserAt
<1> QED
  BY <1>2, <1>6, <1>7 DEF UserAt, MadeIn, IsDealloc, Intact, Helping, Properties

LEMMA UsersStep ==
  ASSUME Typed, Typed', Users, NEW t \in Threads, NEW k, Works(t, k),
         \A u \in Threads \ {t} : own'[u] = own[u],
         \A i \in 1 .. Len(stack'[t]) : i > k => UserAt(t, i)'
  PROVE  Users'
<1> SUFFICES ASSUME NEW u \in Threads, NEW i \in 1 .. Len(stack'[u])
             PROVE  UserAt(u, i)'
  BY DEF Users
<1>0. i \in Nat /\ i >= 1 /\ k \in Nat
  BY Calls
<1>1. CASE u # t /\ stack'[u] = stack[u] /\ i \in 1 .. Len(stack[u])
  <2>1. UserAt(u, i) /\ own'[u] = own[u]
    BY <1>1 DEF Users
  <2> QED
    BY <1>0, <1>1, <2>1, UserSame
<1>2. CASE u = t /\ i \in 1 .. k /\ i \in 1 .. Len(stack[u]) /\ Waits(stack[u][i])
  <2>1. \A j \in 1 .. i : stack'[t][j] = stack[t][j]
    <3>1. \A j \in 1 .. i : j \in 1 .. k
      BY <1>0, <1>2
    <3> QED
      BY <3>1 DEF Works, Kept
  <2>2. UserAt(t, i)
    BY <1>2 DEF Users
  <2> QED
    BY <1>0, <1>2, <2>1, <2>2, UserSame
<1>3. CASE u = t /\ i > k
  BY <1>3
<1> QED
  BY <1>1, <1>2, <1>3, Calls

LEMMA ClearedStep ==
  ASSUME Typed, Typed', NEW t \in Threads, NEW k, Works(t, k),
         \A u \in Threads : \A i \in 1 .. Len(stack[u]) :
            ClearedIn(stack[u][i], held', tables', has_assoc', late'),
         \A i \in 1 .. Len(stack'[t]) : i > k => ClearedAt(stack[t][i])'
  PROVE  Cleared'
<1> SUFFICES ASSUME NEW u \in Threads, NEW i \in 1 .. Len(stack'[u])
             PROVE  ClearedAt(stack[u][i])'
  BY DEF Cleared
<1>1. CASE stack'[u][i] = stack[u][i] /\ i \in 1 .. Len(stack[u])
  <2>1. ClearedIn(stack[u][i], held', tables', has_assoc', late')
    BY <1>1
  <2> QED
    BY <1>1, <2>1 DEF ClearedAt, ClearedIn
<1>2. CASE u = t /\ i > k
  BY <1>2
<1> QED
  BY <1>1, <1>2, Calls

LEMMA LockedStep ==
  ASSUME Typed, Typed', Locked, NEW t \in Threads, NEW k, Works(t, k),
         \A l \in Locks : \A u \in Threads \ {t} : locks[l] = u => locks'[l] = u,
         \A u \in Threads \ {t} : \A i \in 1 .. Len(stack[u]) :
            stack[u][i].pc = "retain" =>
              held'[stack[u][i].obj][stack[u][i].slot] = held[stack[u][i].obj][stack[u][i].slot],
         \A i \in 1 .. Len(stack'[t]) : i > k => LockedAt(t, stack[t][i])'
  PROVE  Locked'
<1> SUFFICES ASSUME NEW u \in Threads, NEW i \in 1 .. Len(stack'[u])
             PROVE  LockedAt(u, stack[u][i])'
  BY DEF Locked
<1>1. CASE u # t /\ stack'[u] = stack[u] /\ i \in 1 .. Len(stack[u])
  <2>1. LockedAt(u, stack[u][i])
    BY <1>1 DEF Locked
  <2>2. PICK f \in FrameType : f = stack[u][i] /\ f = stack'[u][i]
    BY <1>1, TopFrame
  <2>3. f.pc = "retain" => held'[f.obj][f.slot] = held[f.obj][f.slot]
    BY <1>1, <2>2
  <2>4. LockOf(f.slot) \in Locks /\ AssociationsManagerLock \in Locks
    BY LockFacts DEF FrameType
  <2>5. /\ locks[LockOf(f.slot)] = u => locks'[LockOf(f.slot)] = u
        /\ locks[AssociationsManagerLock] = u => locks'[AssociationsManagerLock] = u
    BY <1>1, <2>4
  <2> QED
    BY <2>1, <2>2, <2>3, <2>5 DEF LockedAt, LockOf, AssociationsManagerLock, PropertyLock
<1>2. CASE u = t /\ Waits(stack'[u][i])
  BY <1>2 DEF LockedAt, Waits, Helping
<1>3. CASE u = t /\ i > k
  BY <1>3
<1> QED
  BY <1>1, <1>2, <1>3, Calls

\* The locks of the copyHelpers that t is in stay taken.
HelpersHold(t) ==
  \A i \in 1 .. Len(stack[t]) : Helping(stack[t][i]) /\ i <= Len(stack'[t]) =>
    locks'[StructLock(stack[t][i].obj)] = t /\ locks'[StructLock(stack[t][i].src)] = t

LEMMA StructsLockedStep ==
  ASSUME Typed, Typed', Shapes, StructsLocked, NEW t \in Threads, NEW k, Works(t, k),
         \A l \in Locks : \A u \in Threads \ {t} : locks[l] = u => locks'[l] = u,
         HelpersHold(t),
         \A i \in 1 .. Len(stack'[t]) : i > k => StructLockedAt(t, stack[t][i])'
  PROVE  StructsLocked'
<1> SUFFICES ASSUME NEW u \in Threads, NEW i \in 1 .. Len(stack'[u])
             PROVE  StructLockedAt(u, stack[u][i])'
  BY DEF StructsLocked
<1>1. CASE u # t /\ stack'[u] = stack[u] /\ i \in 1 .. Len(stack[u])
  <2>1. StructLockedAt(u, stack[u][i]) /\ Shape(stack[u][i])
    BY <1>1 DEF StructsLocked, Shapes
  <2>2. PICK f : f = stack[u][i] /\ f = stack'[u][i]
    BY <1>1
  <2>3. f.do = "move" => f.src \in Cells /\ f.obj \in Cells
    BY <2>1, <2>2 DEF Shape
  <2>4. PICK two : two = lockTwo(f.src, f.obj)
    OBVIOUS
  <2>5. f.do = "move" => Head(two) \in Locks /\ StructLock(f.obj) \in Locks /\ StructLock(f.src) \in Locks
    BY <2>3, <2>4, LockFacts DEF lockTwo
  <2>6. f.pc \in {"move", "move2"} => f.do = "move"
    BY <2>1, <2>2 DEF Shape
  <2>7. lockTwo(f.src, f.obj)' = two /\ \A c : StructLock(c)' = StructLock(c)
    BY <2>4 DEF lockTwo, StructLock
  <2>8. f.do = "move" => /\ locks[Head(two)] = u => locks'[Head(two)] = u
                         /\ locks[StructLock(f.obj)] = u => locks'[StructLock(f.obj)] = u
                         /\ locks[StructLock(f.src)] = u => locks'[StructLock(f.src)] = u
    BY <1>1, <2>5
  <2>9. /\ f.pc = "lock" /\ f.do = "move" =>
            f.want = two \/ (f.want = Tail(two) /\ locks'[Head(two)] = u)
        /\ f.pc \in {"move", "move2"} =>
            locks'[StructLock(f.obj)] = u /\ locks'[StructLock(f.src)] = u
    BY <2>1, <2>2, <2>4, <2>6, <2>8 DEF StructLockedAt
  <2> QED
    BY <2>2, <2>7, <2>9 DEF StructLockedAt
<1>2. CASE u = t /\ i \in 1 .. k /\ stack'[u][i] = stack[u][i] /\ i \in 1 .. Len(stack[u]) /\ Waits(stack[u][i])
  <2>1. PICK f : f = stack[u][i] /\ f = stack'[u][i]
    BY <1>2
  <2>2. f.pc \in {"move", "move2", "lock"} => Helping(f)
    BY <1>2, <2>1 DEF Waits, Helping
  <2>3. f.pc \in {"move", "move2"} => locks'[StructLock(f.obj)] = t /\ locks'[StructLock(f.src)] = t
    <3>1. Len(stack'[t]) \in Nat /\ i \in Nat
      <4>1. stack'[t] \in Seq(FrameType)
        BY DEF Typed
      <4> QED
        BY <1>2, <4>1
    <3>2. i <= Len(stack'[t])
      BY <1>2, <3>1
    <3> QED
      BY <1>2, <2>1, <2>2, <3>2 DEF HelpersHold
  <2>4. f.pc # "lock"
    BY <2>2 DEF Helping
  <2> QED
    BY <1>2, <2>1, <2>3, <2>4 DEF StructLockedAt, StructLock
<1>3. CASE u = t /\ i > k
  BY <1>3
<1> QED
  BY <1>1, <1>2, <1>3, Calls

\* No object becomes one being deallocated, and those that are stay so.
LEMMA DeallocsStep ==
  ASSUME Typed, Typed', Deallocs, NEW t \in Threads, NEW k, Works(t, k),
         \A o \in Objects : life[o] = "deallocating" => life'[o] = "deallocating",
         \A u \in Threads : \A i \in 1 .. Len(stack[u]) :
            IsDealloc(stack[u][i]) => stack[u][i].obj \in Objects,
         \A i \in 1 .. Len(stack'[t]) : i > k /\ IsDealloc(stack'[t][i]) =>
            /\ i \in 1 .. Len(stack[t]) /\ IsDealloc(stack[t][i])
            /\ stack'[t][i].obj = stack[t][i].obj
  PROVE  Deallocs'
<1>1. ASSUME NEW u \in Threads, NEW i \in 1 .. Len(stack'[u]), IsDealloc(stack'[u][i])
      PROVE  i \in 1 .. Len(stack[u]) /\ IsDealloc(stack[u][i]) /\ stack'[u][i].obj = stack[u][i].obj
  BY <1>1, Calls
<1>2. \A f : IsDealloc(f)' <=> IsDealloc(f)
  BY DEF IsDealloc
<1>3. ASSUME NEW u \in Threads, NEW i \in 1 .. Len(stack'[u]), IsDealloc(stack'[u][i])
      PROVE  life'[stack'[u][i].obj] = "deallocating"
  <2>1. life[stack[u][i].obj] = "deallocating" /\ stack[u][i].obj \in Objects
    BY <1>1, <1>3 DEF Deallocs
  <2> QED
    BY <1>1, <1>3, <2>1
<1>4. ASSUME NEW u \in Threads, NEW i \in 1 .. Len(stack'[u]), IsDealloc(stack'[u][i]),
             NEW v \in Threads, NEW j \in 1 .. Len(stack'[v]), IsDealloc(stack'[v][j]),
             stack'[v][j].obj = stack'[u][i].obj
      PROVE  v = u /\ j = i
  BY <1>1, <1>4 DEF Deallocs
<1> QED
  BY <1>2, <1>3, <1>4 DEF Deallocs

\* What the other calls rely on.
Others(t) ==
  /\ \A u \in Threads \ {t} : own'[u] = own[u]
  /\ \A l \in Locks : \A u \in Threads \ {t} : locks[l] = u => locks'[l] = u
  /\ \A u \in Threads \ {t} : \A i \in 1 .. Len(stack[u]) :
       stack[u][i].pc = "retain" =>
         held'[stack[u][i].obj][stack[u][i].slot] = held[stack[u][i].obj][stack[u][i].slot]
  /\ \A u \in Threads : \A i \in 1 .. Len(stack[u]) :
       ClearedIn(stack[u][i], held', tables', has_assoc', late')
  /\ HelpersHold(t)

SamePlaces == held' = held /\ tables' = tables /\ has_assoc' = has_assoc /\ late' = late

LEMMA HelpersKeep ==
  ASSUME Shapes, StructsLocked, NEW t \in Threads,
         \A c \in Cells : locks[StructLock(c)] = t => locks'[StructLock(c)] = t
  PROVE  HelpersHold(t)
<1> SUFFICES ASSUME NEW i \in 1 .. Len(stack[t]), Helping(stack[t][i])
             PROVE  locks'[StructLock(stack[t][i].obj)] = t /\ locks'[StructLock(stack[t][i].src)] = t
  BY DEF HelpersHold
<1>1. PICK f : f = stack[t][i] /\ Shape(f) /\ StructLockedAt(t, f) /\ f.pc = "move2"
  BY DEF Shapes, StructsLocked, Helping
<1>2. f.obj \in Cells /\ f.src \in Cells
  BY <1>1 DEF Shape
<1>3. locks[StructLock(f.obj)] = t /\ locks[StructLock(f.src)] = t
  BY <1>1 DEF StructLockedAt
<1> QED
  BY <1>1, <1>2, <1>3

LEMMA OthersSame ==
  ASSUME IInv, NEW t \in Threads, SamePlaces, \A u \in Threads \ {t} : own'[u] = own[u],
         \A l \in Locks : \A u \in Threads \ {t} : locks[l] = u => locks'[l] = u, HelpersHold(t)
  PROVE  Others(t)
<1>1. \A u \in Threads : \A i \in 1 .. Len(stack[u]) :
        ClearedIn(stack[u][i], held', tables', has_assoc', late')
  BY DEF SamePlaces, IInv, Cleared, ClearedAt
<1> QED
  BY <1>1 DEF Others, SamePlaces

LEMMA OthersHeld ==
  ASSUME IInv, NEW t \in Threads, SamePlaces, \A u \in Threads \ {t} : own'[u] = own[u],
         \A l \in Locks : \A u \in Threads \ {t} : locks[l] = u => locks'[l] = u,
         \A c \in Cells : locks[StructLock(c)] = t => locks'[StructLock(c)] = t
  PROVE  Others(t)
  BY HelpersKeep, OthersSame DEF IInv

\* A call that is not waiting, or one that waits below it.
CallOk(t, i) ==
  /\ Shape(stack[t][i]) /\ UserAt(t, i) /\ ClearedAt(stack[t][i])
  /\ LockedAt(t, stack[t][i]) /\ StructLockedAt(t, stack[t][i])
  /\ i < Len(stack[t]) => Waits(stack[t][i])

CallsOk == Shapes /\ Users /\ Cleared /\ Locked /\ StructsLocked

LEMMA CallsStep ==
  ASSUME Typed, Typed', CallsOk, NEW t \in Threads, NEW k, Works(t, k), Others(t),
         \A i \in 1 .. Len(stack'[t]) : i > k => CallOk(t, i)'
  PROVE  CallsOk'
<1>1. ASSUME NEW i \in 1 .. Len(stack'[t]), i > k
      PROVE  /\ Shape(stack'[t][i]) /\ UserAt(t, i)' /\ ClearedAt(stack[t][i])'
             /\ LockedAt(t, stack[t][i])' /\ StructLockedAt(t, stack[t][i])'
             /\ i < Len(stack'[t]) => Waits(stack'[t][i])
  <2>1. CallOk(t, i)'
    BY <1>1
  <2>2. (Shape(stack[t][i])' <=> Shape(stack'[t][i])) /\ (Waits(stack[t][i])' <=> Waits(stack'[t][i]))
    BY DEF Shape, Waits, Helping
  <2> QED
    BY <2>1, <2>2 DEF CallOk
<1>2. Shapes'
  BY <1>1, ShapesStep DEF CallsOk
<1>3. Users'
  BY <1>1, UsersStep DEF CallsOk, Others
<1>4. Cleared'
  BY <1>1, ClearedStep DEF CallsOk, Others
<1>5. Locked'
  BY <1>1, LockedStep DEF CallsOk, Others
<1>6. StructsLocked'
  BY <1>1, StructsLockedStep DEF CallsOk, Others
<1> QED
  BY <1>2, <1>3, <1>4, <1>5, <1>6 DEF CallsOk

LEMMA CallsReplaced ==
  ASSUME IInv, Typed', NEW t \in Threads, NEW n \in Nat, n = Len(stack[t]), NEW g, Replaced(t, g), Others(t),
         CallOk(t, n)'
  PROVE  CallsOk' /\ Works(t, n - 1)
<1>1. Works(t, n - 1)
  BY WorksAbove DEF Replaced, IInv
<1>2. ASSUME NEW i \in 1 .. Len(stack'[t]), i > n - 1 PROVE i = n
  BY <1>2 DEF Replaced
<1>3. CallsOk
  BY DEF IInv, CallsOk
<1>4. \A i \in 1 .. Len(stack'[t]) : i > n - 1 => CallOk(t, i)'
  BY <1>2
<1>5. CallsOk'
  BY <1>1, <1>3, <1>4, CallsStep DEF IInv
<1> QED
  BY <1>1, <1>5

LEMMA CallsPopped ==
  ASSUME IInv, Typed', NEW t \in Threads, NEW n \in Nat, n = Len(stack[t]), Popped(t), Others(t)
  PROVE  CallsOk' /\ Works(t, n - 1)
<1>1. Works(t, n - 1)
  BY WorksAbove DEF Popped, IInv
<1>2. ASSUME NEW i \in 1 .. Len(stack'[t]), i > n - 1 PROVE FALSE
  BY <1>2 DEF Popped
<1>3. CallsOk
  BY DEF IInv, CallsOk
<1>4. \A i \in 1 .. Len(stack'[t]) : i > n - 1 => CallOk(t, i)'
  BY <1>2
<1>5. CallsOk'
  BY <1>1, <1>3, <1>4, CallsStep DEF IInv
<1> QED
  BY <1>1, <1>5

LEMMA CallsPushed ==
  ASSUME IInv, Typed', NEW t \in Threads, NEW n \in Nat, n = Len(stack[t]) + 1, NEW g, Pushed(t, g), Others(t),
         stack[t] # <<>> => Waits(Top(t)), CallOk(t, n)'
  PROVE  CallsOk' /\ Works(t, n - 1)
<1>0. Len(stack[t]) \in Nat
  BY TopFrame DEF IInv
<1>1. Works(t, n - 1)
  <2>1. Works(t, Len(stack[t]))
    BY WorksCalled DEF Pushed, IInv
  <2> QED
    BY <1>0, <2>1
<1>2. ASSUME NEW i \in 1 .. Len(stack'[t]), i > n - 1 PROVE i = n
  BY <1>0, <1>2 DEF Pushed
<1>3. CallsOk
  BY DEF IInv, CallsOk
<1>4. \A i \in 1 .. Len(stack'[t]) : i > n - 1 => CallOk(t, i)'
  BY <1>2
<1>5. CallsOk'
  BY <1>1, <1>3, <1>4, CallsStep DEF IInv
<1> QED
  BY <1>1, <1>5

\* Structs are not touched.
LEMMA StructsSame ==
  ASSUME Typed, Typed', Structs, NEW t \in Threads, NEW k, Works(t, k), mem' = mem,
         \A i \in 1 .. Len(stack[t]) : i > k => stack[t][i].pc # "move2",
         \A i \in 1 .. Len(stack'[t]) : i > k => stack'[t][i].pc # "move2"
  PROVE  Structs'
<1>1. ASSUME NEW c \in Cells, mem'[c][1] # mem'[c][2]
      PROVE  \E u \in Threads : \E i \in 1 .. Len(stack'[u]) : stack'[u][i].pc = "move2" /\ stack'[u][i].obj = c
  <2>0. PICK u \in Threads : \E i \in 1 .. Len(stack[u]) : stack[u][i].pc = "move2" /\ stack[u][i].obj = c
    BY <1>1 DEF Structs
  <2>1. PICK i \in 1 .. Len(stack[u]) : stack[u][i].pc = "move2" /\ stack[u][i].obj = c
    BY <2>0
  <2>2. CASE u # t
    BY <2>1, <2>2 DEF Works, Kept
  <2>3. CASE u = t
    <3>1. i \in Nat /\ k \in Nat /\ Len(stack'[t]) \in Nat /\ k <= Len(stack'[t])
      <4>1. stack[t] \in Seq(FrameType) /\ stack'[t] \in Seq(FrameType)
        BY DEF Typed
      <4>2. Len(stack[t]) \in Nat /\ Len(stack'[t]) \in Nat
        BY <4>1
      <4> QED
        BY <2>3, <4>2 DEF Works, Kept
    <3>2. i <= k
      BY <2>1, <2>3, <3>1
    <3>3. i \in 1 .. k /\ i \in 1 .. Len(stack'[t])
      BY <2>3, <3>1, <3>2
    <3> QED
      BY <2>1, <2>3, <3>3 DEF Works, Kept
  <2> QED
    BY <2>2, <2>3
<1>2. ASSUME NEW u \in Threads, NEW i \in 1 .. Len(stack'[u]), stack'[u][i].pc = "move2"
      PROVE  mem'[stack'[u][i].obj][1] = mem'[stack'[u][i].src][1]
  <2>1. stack'[u][i] = stack[u][i] /\ i \in 1 .. Len(stack[u])
    BY <1>2, Calls
  <2> QED
    BY <1>2, <2>1 DEF Structs
<1> QED
  BY <1>1, <1>2 DEF Structs

ClientsCountable == \A o \in Objects : Cardinality(OfClients(o)) \in Nat

LEMMA TypedClients == Typed => ClientsCountable
  BY OfClientsRefs DEF ClientsCountable

\* The references of a step add up.
Balanced(t, n, o) ==
  count'[o] + Cardinality(OfClients(o)) + Cardinality(InPlaces(o))
      + Carried(t, n, o) + Cardinality(Drop(t, n, o))
    = count[o] + Cardinality(OfClients(o)') + Cardinality(InPlaces(o)')
      + Carried(t, n, o)' + Cardinality(Drop(t, n, o)')

LEMMA DropFinite ==
  ASSUME NEW t, NEW n, NEW o
  PROVE  /\ IsFiniteSet(Drop(t, n, o)) /\ Cardinality(Drop(t, n, o)) \in Nat
         /\ IsFiniteSet(Drop(t, n, o)') /\ Cardinality(Drop(t, n, o)') \in Nat
         /\ Carried(t, n, o) \in {0, 1} /\ Carried(t, n, o)' \in {0, 1}
<1>1. Drop(t, n, o) \in SUBSET Slots /\ Drop(t, n, o)' \in SUBSET Slots
  BY DEF Drop, Drops
<1> QED
  BY <1>1, SlotsFinite, FS_Subset, FS_CardinalityType DEF Carried

LEMMA RefsExactStep ==
  ASSUME IInv, Typed', NEW t \in Threads, NEW n \in Nat, n >= 1, n >= Len(stack[t]), Kept(t, n - 1),
         \A i \in 1 .. Len(stack'[t]) : i > n => stack'[t][i].do # "swap" /\ stack'[t][i].todo = {},
         \A o \in Objects : Balanced(t, n, o)
  PROVE  RefsExact'
<1> SUFFICES ASSUME NEW o \in Objects
             PROVE  count'[o] = Cardinality(OfClients(o)') + Cardinality(InPlaces(o)')
                        + Cardinality(OnTheWayIn(o)') + Cardinality(OnTheWayOut(o)')
  BY DEF RefsExact
<1>1. \A i \in 1 .. Len(stack'[t]) : i > n => ~Carries(stack'[t][i], o) /\ Drops(stack'[t][i], o) = {}
  BY DEF Carries, Drops
<1>2. /\ Cardinality(OnTheWayIn(o)') + Carried(t, n, o)
           = Cardinality(OnTheWayIn(o)) + Carried(t, n, o)'
      /\ Cardinality(OnTheWayOut(o)') + Cardinality(Drop(t, n, o))
           = Cardinality(OnTheWayOut(o)) + Cardinality(Drop(t, n, o)')
  BY <1>1, RefsStep DEF IInv
<1>3. Countable
  BY TypedCountable DEF IInv
<1>4. Countable'
  BY TypedCountable, PTL
<1>5. Cardinality(OfClients(o)) \in Nat
  BY OfClientsRefs DEF IInv
<1>6. Cardinality(OfClients(o)') \in Nat
  <2>1. ClientsCountable'
    BY TypedClients, PTL
  <2> QED
    BY <2>1 DEF ClientsCountable
<1>7. count[o] \in Nat /\ count'[o] \in Nat
  BY DEF Typed, IInv
<1>8. count[o] = Cardinality(OfClients(o)) + Cardinality(InPlaces(o))
                 + Cardinality(OnTheWayIn(o)) + Cardinality(OnTheWayOut(o))
  BY DEF IInv, RefsExact
<1>9. /\ Cardinality(InPlaces(o)) \in Nat /\ Cardinality(OnTheWayIn(o)) \in Nat
      /\ Cardinality(OnTheWayOut(o)) \in Nat
      /\ Cardinality(InPlaces(o)') \in Nat /\ Cardinality(OnTheWayIn(o)') \in Nat
      /\ Cardinality(OnTheWayOut(o)') \in Nat
  BY <1>3, <1>4 DEF Countable
<1>10. /\ Cardinality(Drop(t, n, o)) \in Nat /\ Cardinality(Drop(t, n, o)') \in Nat
       /\ Carried(t, n, o) \in Nat /\ Carried(t, n, o)' \in Nat
  BY DropFinite
<1>11. Balanced(t, n, o)
  OBVIOUS
<1>12. PICK i0 \in Nat, i1 \in Nat, k0 \in Nat, k1 \in Nat :
         /\ i0 = Cardinality(OnTheWayIn(o)) /\ i1 = Cardinality(OnTheWayIn(o)')
         /\ k0 = Carried(t, n, o) /\ k1 = Carried(t, n, o)'
         /\ i1 + k0 = i0 + k1
  BY <1>2, <1>9, <1>10
<1>13. PICK o0 \in Nat, o1 \in Nat, d0 \in Nat, d1 \in Nat :
         /\ o0 = Cardinality(OnTheWayOut(o)) /\ o1 = Cardinality(OnTheWayOut(o)')
         /\ d0 = Cardinality(Drop(t, n, o)) /\ d1 = Cardinality(Drop(t, n, o)')
         /\ o1 + d0 = o0 + d1
  BY <1>2, <1>9, <1>10
<1>14. PICK c0 \in Nat, c1 \in Nat, r0 \in Nat, r1 \in Nat :
         /\ c0 = count[o] /\ c1 = count'[o]
         /\ r0 = Cardinality(OfClients(o)) /\ r1 = Cardinality(OfClients(o)')
  BY <1>5, <1>6, <1>7
<1>15. PICK p0 \in Nat, p1 \in Nat :
         p0 = Cardinality(InPlaces(o)) /\ p1 = Cardinality(InPlaces(o)')
  BY <1>9
<1>16. c0 = r0 + p0 + i0 + o0
  BY <1>8, <1>12, <1>13, <1>14, <1>15
<1>17. c1 + r0 + p0 + k0 + d0 = c0 + r1 + p1 + k1 + d1
  BY <1>11, <1>12, <1>13, <1>14, <1>15 DEF Balanced
<1>18. i1 + k0 = i0 + k1 /\ o1 + d0 = o0 + d1
  BY <1>12, <1>13
<1>19. c1 = r1 + p1 + i1 + o1
  BY ONLY <1>16, <1>17, <1>18, i0 \in Nat, i1 \in Nat, k0 \in Nat, k1 \in Nat, o0 \in Nat, o1 \in Nat,
          d0 \in Nat, d1 \in Nat, c0 \in Nat, c1 \in Nat, r0 \in Nat, r1 \in Nat, p0 \in Nat, p1 \in Nat
<1> QED
  BY <1>12, <1>13, <1>14, <1>15, <1>19

(* What a call may rely on. *)

LEMMA AtTop ==
  ASSUME IInv, NEW t \in Threads, stack[t] # <<>>
  PROVE  /\ Top(t) \in FrameType /\ Top(t) = stack[t][Len(stack[t])]
         /\ Len(stack[t]) \in Nat /\ Len(stack[t]) >= 1 /\ Len(stack[t]) \in 1 .. Len(stack[t])
         /\ CallOk(t, Len(stack[t]))
         /\ Shape(Top(t)) /\ ClearedAt(Top(t)) /\ LockedAt(t, Top(t)) /\ StructLockedAt(t, Top(t))
<1>1. /\ Top(t) \in FrameType /\ Top(t) = stack[t][Len(stack[t])]
      /\ Len(stack[t]) \in Nat /\ Len(stack[t]) >= 1
  BY TopFrame DEF IInv
<1>2. Len(stack[t]) \in 1 .. Len(stack[t])
  BY <1>1
<1>3. CallOk(t, Len(stack[t]))
  BY <1>1, <1>2 DEF CallOk, IInv, Shapes, Users, Cleared, Locked, StructsLocked
<1> QED
  BY <1>1, <1>2, <1>3 DEF CallOk

\* What a client owns lives, and so does what a place holds.
LEMMA OwnedLive ==
  ASSUME IInv, NEW o \in Objects,
         \/ \E t \in Threads : own[t][o] > 0
         \/ InPlaces(o) # {}
         \/ OnTheWayOut(o) # {}
         \/ OnTheWayIn(o) # {}
  PROVE  count[o] > 0 /\ life[o] = "live"
<1>1. Countable /\ Cardinality(OfClients(o)) \in Nat
  BY TypedCountable, OfClientsRefs DEF IInv
<1>2. /\ Cardinality(InPlaces(o)) \in Nat /\ Cardinality(OnTheWayIn(o)) \in Nat
      /\ Cardinality(OnTheWayOut(o)) \in Nat
      /\ IsFiniteSet(InPlaces(o)) /\ IsFiniteSet(OnTheWayOut(o)) /\ IsFiniteSet(OnTheWayIn(o))
  BY <1>1 DEF Countable
<1>3. /\ InPlaces(o) # {} => Cardinality(InPlaces(o)) # 0
      /\ OnTheWayOut(o) # {} => Cardinality(OnTheWayOut(o)) # 0
      /\ OnTheWayIn(o) # {} => Cardinality(OnTheWayIn(o)) # 0
  BY <1>2, FS_EmptySet
<1>4. (\E t \in Threads : own[t][o] > 0) => Cardinality(OfClients(o)) > 0
  BY OfClientsRefs DEF IInv
<1>5. count[o] = Cardinality(OfClients(o)) + Cardinality(InPlaces(o))
                 + Cardinality(OnTheWayIn(o)) + Cardinality(OnTheWayOut(o))
  BY DEF IInv, RefsExact
<1>6. count[o] > 0
  BY <1>1, <1>2, <1>3, <1>4, <1>5
<1> QED
  BY <1>6 DEF IInv, Alive

LEMMA DeallocObj ==
  ASSUME IInv, NEW u \in Threads, NEW j \in 1 .. Len(stack[u]), IsDealloc(stack[u][j])
  PROVE  stack[u][j].obj \in Objects /\ life[stack[u][j].obj] = "deallocating"
<1>1. Shape(stack[u][j]) /\ stack[u][j] \in FrameType
  BY TopFrame DEF IInv, Shapes
<1>2. stack[u][j].do = "remove"
  BY <1>1 DEF IsDealloc, Shape
<1> QED
  BY <1>1, <1>2 DEF Shape, IInv, Deallocs

\* The object a call works on is not free; if it is being deallocated, then in
\* a call further out, and its properties are still there if they are used.
LEMMA WorkedOn ==
  ASSUME IInv, NEW t \in Threads, NEW i \in 1 .. Len(stack[t]), NEW f, f = stack[t][i],
         f.pc \in {"lock", "swap", "read", "retain", "remove"}, f.do # "move", ~IsDealloc(f)
  PROVE  /\ f.obj \in Hosts /\ f.obj \in Objects
         /\ life[f.obj] \in {"live", "deallocating"}
         /\ \A u \in Threads : \A j \in 1 .. Len(stack[u]) :
              IsDealloc(stack[u][j]) /\ stack[u][j].obj = f.obj =>
                /\ u = t /\ j < i
                /\ f.do \in {"swap", "read"} /\ f.slot \in Properties => Intact(stack[u][j])
<1>1. Shape(f) /\ UserAt(t, i)
  BY DEF IInv, Shapes, Users
<1>2. f.obj \in Hosts /\ f.obj \in Objects
  <2>1. f.do \in {"swap", "read"} \/ (f.do = "remove" /\ f.pc \in {"lock", "remove"})
    BY <1>1, TopFrame DEF Shape, IInv, FrameType
  <2> QED
    BY <1>1, <2>1, StoredValuesAssumption DEF Shape
<1>3. CASE own[t][f.obj] > 0
  <2>1. life[f.obj] = "live"
    BY <1>2, <1>3, OwnedLive
  <2> QED
    BY <1>2, <2>1, DeallocObj
<1>4. CASE \E j \in 1 .. i - 1 : MadeIn(stack[t][j], f)
  <2>0. Len(stack[t]) \in Nat /\ i \in Nat
    BY TopFrame DEF IInv
  <2>1. PICK k \in 1 .. i - 1 : MadeIn(stack[t][k], f)
    BY <1>4
  <2>2. k \in 1 .. Len(stack[t]) /\ k < i
    BY <2>0
  <2>3. IsDealloc(stack[t][k]) /\ stack[t][k].obj = f.obj
        /\ (f.do \in {"swap", "read"} /\ f.slot \in Properties => Intact(stack[t][k]))
    BY <2>1 DEF MadeIn
  <2>4. life[f.obj] = "deallocating"
    BY <2>2, <2>3, DeallocObj
  <2>5. \A u \in Threads : \A j \in 1 .. Len(stack[u]) :
          IsDealloc(stack[u][j]) /\ stack[u][j].obj = f.obj => u = t /\ j = k
    BY <2>2, <2>3 DEF IInv, Deallocs
  <2> QED
    BY <1>2, <2>2, <2>3, <2>4, <2>5
<1> QED
  BY <1>1, <1>3, <1>4 DEF UserAt

(* The references of the innermost call. *)

LEMMA CarriedBefore ==
  ASSUME IInv, NEW t \in Threads, stack[t] # <<>>, NEW o \in Objects
  PROVE  /\ Carried(t, Len(stack[t]), o) = IF Carries(Top(t), o) THEN 1 ELSE 0
         /\ Drop(t, Len(stack[t]), o) = Drops(Top(t), o)
  BY AtTop DEF Carried, Carry, Drop

LEMMA CarriedNew ==
  ASSUME IInv, NEW t \in Threads, NEW o \in Objects, NEW n, n = Len(stack[t]) + 1
  PROVE  Carried(t, n, o) = 0 /\ Drop(t, n, o) = {}
<1>1. Len(stack[t]) \in Nat
  BY TopFrame DEF IInv
<1>2. n \notin 1 .. Len(stack[t])
  BY <1>1
<1> QED
  BY <1>2 DEF Carried, Carry, Drop

LEMMA CarriedAfter ==
  ASSUME Typed', NEW t \in Threads, NEW o \in Objects, NEW n \in 1 .. Len(stack'[t]), NEW g, g = stack'[t][n]
  PROVE  /\ Carried(t, n, o)' = IF Carries(g, o) THEN 1 ELSE 0
         /\ Drop(t, n, o)' = Drops(g, o)
  BY DEF Carried, Carry, Drop, Carries, Drops

LEMMA CarriedGone ==
  ASSUME Typed', NEW t \in Threads, NEW o \in Objects, NEW n, n = Len(stack'[t]) + 1
  PROVE  Carried(t, n, o)' = 0 /\ Drop(t, n, o)' = {}
<1>1. Len(stack'[t]) \in Nat
  <2>1. stack'[t] \in Seq(FrameType)
    BY DEF Typed
  <2> QED
    BY <2>1
<1>2. n \notin 1 .. Len(stack'[t])
  BY <1>1
<1> QED
  BY <1>2 DEF Carried, Carry, Drop

\* Counts of references stay what they are.
SameRefs == count' = count /\ own' = own /\ held' = held

LEMMA BalancedSame ==
  ASSUME IInv, SameRefs, NEW t, NEW n, NEW o \in Objects,
         Carried(t, n, o)' = Carried(t, n, o), Drop(t, n, o)' = Drop(t, n, o)
  PROVE  Balanced(t, n, o)
<1>1. OfClients(o)' = OfClients(o) /\ InPlaces(o)' = InPlaces(o)
  BY DEF SameRefs, OfClients, InPlaces
<1> QED
  BY <1>1 DEF SameRefs, Balanced

LEMMA RefsReplaced ==
  ASSUME IInv, Typed', SameRefs, NEW t \in Threads, NEW g, Replaced(t, g),
         \A o \in Objects : Carries(g, o) <=> Carries(Top(t), o), g.todo = Top(t).todo
  PROVE  RefsExact'
<1>1. PICK n \in Nat : n = Len(stack[t]) /\ n >= 1 /\ n = Len(stack'[t]) /\ n \in 1 .. Len(stack'[t])
  BY AtTop DEF Replaced
<1>2. Kept(t, n - 1) /\ stack[t] # <<>> /\ g = stack'[t][n]
  BY <1>1 DEF Replaced
<1>3. /\ n >= Len(stack[t])
      /\ \A i \in 1 .. Len(stack'[t]) : i > n => stack'[t][i].do # "swap" /\ stack'[t][i].todo = {}
  BY <1>1
<1>4. ASSUME NEW o \in Objects PROVE Balanced(t, n, o)
  <2>1. Drops(g, o) = Drops(Top(t), o)
    BY DEF Drops
  <2>2. Carried(t, n, o)' = Carried(t, n, o) /\ Drop(t, n, o)' = Drop(t, n, o)
    BY <1>1, <1>2, <2>1, CarriedBefore, CarriedAfter
  <2> QED
    BY <2>2, BalancedSame
<1> QED
  BY <1>1, <1>2, <1>3, <1>4, RefsExactStep

LEMMA RefsPopped ==
  ASSUME IInv, Typed', SameRefs, NEW t \in Threads, Popped(t),
         \A o \in Objects : ~Carries(Top(t), o), Top(t).todo = {}
  PROVE  RefsExact'
<1>1. PICK n \in Nat : n = Len(stack[t]) /\ n >= 1 /\ n = Len(stack'[t]) + 1
  BY AtTop DEF Popped
<1>2. Kept(t, n - 1) /\ stack[t] # <<>>
  BY <1>1 DEF Popped
<1>3. /\ n >= Len(stack[t])
      /\ \A i \in 1 .. Len(stack'[t]) : i > n => stack'[t][i].do # "swap" /\ stack'[t][i].todo = {}
  BY <1>1
<1>4. ASSUME NEW o \in Objects PROVE Balanced(t, n, o)
  <2>1. Drops(Top(t), o) = {}
    BY DEF Drops
  <2>2. Carried(t, n, o)' = Carried(t, n, o) /\ Drop(t, n, o)' = Drop(t, n, o)
    BY <1>1, <1>2, <2>1, CarriedBefore, CarriedGone
  <2> QED
    BY <2>2, BalancedSame
<1> QED
  BY <1>1, <1>2, <1>3, <1>4, RefsExactStep

LEMMA RefsPushed ==
  ASSUME IInv, Typed', SameRefs, NEW t \in Threads, NEW g, Pushed(t, g),
         \A o \in Objects : ~Carries(g, o), g.todo = {}
  PROVE  RefsExact'
<1>1. PICK n \in Nat : n = Len(stack[t]) + 1 /\ n >= 1 /\ n = Len(stack'[t]) /\ n \in 1 .. Len(stack'[t])
                      /\ n >= Len(stack[t]) /\ n - 1 = Len(stack[t])
  <2>1. Len(stack[t]) \in Nat
    BY TopFrame DEF IInv
  <2> QED
    BY <2>1 DEF Pushed
<1>2. Kept(t, n - 1) /\ g = stack'[t][n]
  BY <1>1 DEF Pushed
<1>3. /\ n >= Len(stack[t])
      /\ \A i \in 1 .. Len(stack'[t]) : i > n => stack'[t][i].do # "swap" /\ stack'[t][i].todo = {}
  BY <1>1
<1>4. ASSUME NEW o \in Objects PROVE Balanced(t, n, o)
  <2>1. Drops(g, o) = {}
    BY DEF Drops
  <2>2. Carried(t, n, o)' = Carried(t, n, o) /\ Drop(t, n, o)' = Drop(t, n, o)
    BY <1>1, <1>2, <2>1, CarriedNew, CarriedAfter
  <2> QED
    BY <2>2, BalancedSame
<1> QED
  BY <1>1, <1>2, <1>3, <1>4, RefsExactStep

\* A step that changes a stack and locks only.
Quiet == SameRefs /\ life' = life /\ SamePlaces

LEMMA QuietStep ==
  ASSUME IInv, Quiet
  PROVE  Alive' /\ AssocBit' /\ NothingLeftBehind'
  BY DEF IInv, Quiet, SameRefs, SamePlaces, Alive, AssocBit, NothingLeftBehind

\* No -dealloc begins or ends.
LEMMA DeallocsReplaced ==
  ASSUME IInv, Typed', life' = life, NEW t \in Threads, NEW g, Replaced(t, g),
         IsDealloc(g) => IsDealloc(Top(t)) /\ g.obj = Top(t).obj
  PROVE  Deallocs'
<1>1. PICK n \in Nat : n = Len(stack[t]) /\ n >= 1 /\ n = Len(stack'[t]) /\ n \in 1 .. Len(stack[t])
  BY AtTop DEF Replaced
<1>2. Works(t, n - 1)
  BY <1>1, WorksAbove DEF Replaced, IInv
<1>3. ASSUME NEW i \in 1 .. Len(stack'[t]), i > n - 1
      PROVE  i = n /\ i \in 1 .. Len(stack[t]) /\ stack[t][i] = Top(t) /\ stack'[t][i] = g
  BY <1>1, <1>3, AtTop DEF Replaced
<1>4. \A i \in 1 .. Len(stack'[t]) : i > n - 1 /\ IsDealloc(stack'[t][i]) =>
        /\ i \in 1 .. Len(stack[t]) /\ IsDealloc(stack[t][i])
        /\ stack'[t][i].obj = stack[t][i].obj
  BY <1>3
<1> QED
  BY <1>2, <1>4, DeallocsStep, DeallocObj DEF IInv

LEMMA DeallocsPopped ==
  ASSUME IInv, Typed', NEW t \in Threads, Popped(t),
         \A o \in Objects : life[o] = "deallocating" => life'[o] = "deallocating"
  PROVE  Deallocs'
<1>1. PICK n \in Nat : n = Len(stack[t]) /\ n >= 1 /\ n = Len(stack'[t]) + 1
  BY AtTop DEF Popped
<1>2. Works(t, n - 1)
  BY <1>1, WorksAbove DEF Popped, IInv
<1>3. \A i \in 1 .. Len(stack'[t]) : ~(i > n - 1)
  BY <1>1
<1> QED
  BY <1>2, <1>3, DeallocsStep, DeallocObj DEF IInv

LEMMA DeallocsPushed ==
  ASSUME IInv, Typed', NEW t \in Threads, NEW g, Pushed(t, g), Works(t, Len(stack[t])), ~IsDealloc(g),
         \A o \in Objects : life[o] = "deallocating" => life'[o] = "deallocating"
  PROVE  Deallocs'
<1>1. PICK n \in Nat : n = Len(stack[t]) /\ n + 1 = Len(stack'[t])
  BY TopFrame DEF Pushed, IInv
<1>2. \A i \in 1 .. Len(stack'[t]) : i > n => stack'[t][i] = g
  BY <1>1 DEF Pushed
<1> QED
  BY <1>1, <1>2, DeallocsStep, DeallocObj DEF IInv

(* The steps. *)

LEMMA Parts ==
  ASSUME Typed', CallsOk', Alive', Deallocs', AssocBit', Structs', RefsExact', NothingLeftBehind'
  PROVE  IInv'
  BY DEF IInv, CallsOk

\* The call below the innermost one is where it was.
LEMMA UserKept ==
  ASSUME IInv, NEW t \in Threads, NEW n \in Nat, n = Len(stack[t]), NEW g, Replaced(t, g),
         g.obj = Top(t).obj, g.do = Top(t).do, g.slot = Top(t).slot, own'[t] = own[t],
         g.pc \in {"lock", "swap", "read", "retain", "remove"} /\ g.do # "move" /\ ~IsDealloc(g) =>
           /\ Top(t).pc \in {"lock", "swap", "read", "retain", "remove"}
           /\ ~IsDealloc(Top(t))
  PROVE  UserAt(t, n)'
<1>1. CallOk(t, n) /\ Top(t) = stack[t][n] /\ n >= 1
  BY AtTop DEF Replaced
<1>2. PICK f : f = Top(t) /\ f = stack[t][n] /\ f.obj = g.obj /\ f.do = g.do /\ f.slot = g.slot
  BY <1>1
<1>3. stack'[t][n] = g /\ \A j \in 1 .. n - 1 : stack'[t][j] = stack[t][j]
  BY <1>1 DEF Replaced, Kept
<1>4. /\ f.pc \in {"lock", "swap", "read", "retain", "remove"} /\ f.do # "move" /\ ~IsDealloc(f) =>
           own[t][f.obj] > 0 \/ \E j \in 1 .. n - 1 : MadeIn(stack[t][j], f)
      /\ f.do = "move" /\ f.obj \in CppObjects => \A j \in 1 .. n - 1 : ~Helping(stack[t][j])
  BY <1>1, <1>2 DEF CallOk, UserAt
<1>5. \A d : MadeIn(d, f) <=> MadeIn(d, g)
  BY <1>2 DEF MadeIn
<1>6. g.pc \in {"lock", "swap", "read", "retain", "remove"} /\ g.do # "move" /\ ~IsDealloc(g) =>
        own'[t][g.obj] > 0 \/ \E j \in 1 .. n - 1 : MadeIn(stack'[t][j], g)
  BY <1>2, <1>3, <1>4, <1>5
<1>7. g.do = "move" /\ g.obj \in CppObjects => \A j \in 1 .. n - 1 : ~Helping(stack'[t][j])
  BY <1>2, <1>3, <1>4
<1> QED
  BY <1>3, <1>6, <1>7 DEF UserAt, MadeIn, IsDealloc, Intact, Helping, Properties

LEMMA CallOkNew ==
  ASSUME NEW t \in Threads, NEW n \in Nat, NEW g, stack'[t][n] = g, Len(stack'[t]) = n, Shape(g),
         UserAt(t, n)', ClearedAt(g)', LockedAt(t, g)', StructLockedAt(t, g)'
  PROVE  CallOk(t, n)'
<1>1. Shape(stack[t][n])' <=> Shape(stack'[t][n])
  BY DEF Shape
<1>2. ~(n < Len(stack[t]))'
  OBVIOUS
<1> QED
  BY <1>1, <1>2 DEF CallOk, ClearedAt, LockedAt, StructLockedAt

\* A call that works on nothing.
LEMMA Idle ==
  ASSUME NEW t \in Threads, NEW n, NEW g, stack'[t][n] = g, Shape(g),
         g.pc \in {"release", "-dealloc", "cxx", "assoc", "free"}
  PROVE  UserAt(t, n)' /\ LockedAt(t, g)' /\ StructLockedAt(t, g)'
<1>1. g.do # "move"
  BY DEF Shape
<1> QED
  BY <1>1 DEF UserAt, LockedAt, StructLockedAt

LEMMA StructsReplaced ==
  ASSUME IInv, Typed', mem' = mem, NEW t \in Threads, NEW n \in Nat, n = Len(stack[t]), NEW g, Replaced(t, g),
         Works(t, n - 1), Top(t).pc # "move2", g.pc # "move2"
  PROVE  Structs'
<1>1. \A i \in 1 .. Len(stack'[t]) : i > n - 1 => stack'[t][i].pc # "move2"
  BY DEF Replaced
<1>2. \A i \in 1 .. Len(stack[t]) : i > n - 1 => stack[t][i].pc # "move2"
  BY AtTop DEF Replaced
<1> QED
  BY <1>1, <1>2, StructsSame DEF IInv

LEMMA StructsPopped ==
  ASSUME IInv, Typed', mem' = mem, NEW t \in Threads, NEW n \in Nat, n = Len(stack[t]), Popped(t),
         Works(t, n - 1), Top(t).pc # "move2"
  PROVE  Structs'
<1>1. \A i \in 1 .. Len(stack'[t]) : i > n - 1 => stack'[t][i].pc # "move2"
  BY DEF Popped
<1>2. \A i \in 1 .. Len(stack[t]) : i > n - 1 => stack[t][i].pc # "move2"
  BY AtTop DEF Popped
<1> QED
  BY <1>1, <1>2, StructsSame DEF IInv

LEMMA StructsPushed ==
  ASSUME IInv, Typed', mem' = mem, NEW t \in Threads, NEW n \in Nat, n = Len(stack[t]) + 1, NEW g, Pushed(t, g),
         Works(t, n - 1), stack[t] # <<>> => Waits(Top(t)), g.pc # "move2"
  PROVE  Structs'
<1>1. Len(stack[t]) \in Nat
  BY TopFrame DEF IInv
<1>2. \A i \in 1 .. Len(stack'[t]) : i > n - 1 => stack'[t][i].pc # "move2"
  BY <1>1 DEF Pushed
<1>3. \A i \in 1 .. Len(stack[t]) : ~(i > n - 1)
  BY <1>1
<1> QED
  BY <1>2, <1>3, StructsSame DEF IInv

\* The locks of a critical section are its own, and not those of a copy unless
\* it is one.
LEMMA UnlockOp ==
  ASSUME Typed, NEW t \in Threads, NEW f \in FrameType, Shape(f), LockedAt(t, f), Unlock(f),
         f.pc \in {"swap", "read", "retain", "remove"}
  PROVE  /\ locks' \in [Locks -> Threads \cup {NoThread}]
         /\ \A l \in Locks : \A u \in Threads \ {t} : locks[l] = u => locks'[l] = u
         /\ \A c \in Cells : locks'[StructLock(c)] = locks[StructLock(c)]
<1>1. f.do \in {"swap", "read", "remove"} /\ f.slot \in Slots
  BY DEF Shape, FrameType
<1>2. \A l \in LocksOf(f) : /\ l \in {AssociationsManagerLock, PropertyLock}
                            /\ locks[l] = t
  <2>1. CASE f.do = "remove"
    BY <2>1, <1>1 DEF LocksOf, LockedAt, Shape
  <2>2. CASE f.do \in {"swap", "read"}
    <3>1. LocksOf(f) = ToSet(LocksFor(f.slot))
      BY <2>2 DEF LocksOf
    <3>2. CASE f.slot = "nonatomic"
      <4>1. LocksFor(f.slot) = << >>
        BY <3>2, StoredValuesAssumption DEF LocksFor, Properties
      <4> QED
        BY <3>1, <4>1 DEF ToSet
    <3>3. CASE f.slot # "nonatomic"
      <4>1. LocksFor(f.slot) = <<LockOf(f.slot)>>
        BY <1>1, <3>3, LockFacts
      <4>2. LocksOf(f) = {LockOf(f.slot)}
        BY <3>1, <4>1 DEF ToSet
      <4>3. locks[LockOf(f.slot)] = t
        BY <2>2, <3>3 DEF LockedAt, Shape
      <4> QED
        BY <4>2, <4>3 DEF LockOf
    <3> QED
      BY <3>2, <3>3
  <2> QED
    BY <1>1, <2>1, <2>2
<1>3. \A c \in Cells : StructLock(c) \in Locks /\ StructLock(c) \notin {AssociationsManagerLock, PropertyLock}
  BY LockFacts DEF StructLock, AssociationsManagerLock, PropertyLock
<1>4. \A l \in Locks : locks'[l] = IF l \in LocksOf(f) THEN NoThread ELSE locks[l]
  BY DEF Unlock
<1>5. locks' \in [Locks -> Threads \cup {NoThread}]
  BY DEF Typed, Unlock
<1>6. \A c \in Cells : locks'[StructLock(c)] = locks[StructLock(c)]
  BY <1>2, <1>3, <1>4
<1> QED
  BY <1>2, <1>4, <1>5, <1>6

LEMMA TailOp ==
  ASSUME NEW s \in Seq(Locks), s # <<>>
  PROVE  Tail(s) \in Seq(Locks)
  BY HeadTailProperties

LEMMA LockTwoFacts ==
  ASSUME NEW a \in Cells, NEW b \in Cells, a \in CppObjects <=> b \in CppObjects
  PROVE  /\ lockTwo(a, b) \in Seq(Locks) /\ lockTwo(a, b) # <<>>
         /\ \/ /\ lockTwo(a, b) = <<StructLock(b)>> /\ StructLock(a) = StructLock(b)
               /\ Tail(lockTwo(a, b)) = <<>> /\ Head(lockTwo(a, b)) = StructLock(b)
            \/ \E x, y \in Locks :
                 /\ lockTwo(a, b) = <<x, y>> /\ {x, y} = {StructLock(a), StructLock(b)}
                 /\ Tail(lockTwo(a, b)) = <<y>> /\ Head(lockTwo(a, b)) = x
<1>1. StructLock(a) \in Locks /\ StructLock(b) \in Locks
  BY LockFacts
<1>2. ASSUME NEW x \in Locks PROVE <<x>> \in Seq(Locks) /\ <<x>> # <<>> /\ Tail(<<x>>) = <<>> /\ Head(<<x>>) = x
  OBVIOUS
<1>3. ASSUME NEW x \in Locks, NEW y \in Locks
      PROVE  <<x, y>> \in Seq(Locks) /\ <<x, y>> # <<>> /\ Tail(<<x, y>>) = <<y>> /\ Head(<<x, y>>) = x
  OBVIOUS
<1>4. CASE stripe[a] < stripe[b]
  <2>1. lockTwo(a, b) = <<StructLock(a), StructLock(b)>>
    BY <1>4 DEF lockTwo
  <2> QED
    BY <1>1, <1>3, <2>1
<1>5. CASE stripe[a] = stripe[b]
  <2>1. lockTwo(a, b) = <<StructLock(b)>>
    BY <1>5, StoredValuesAssumption DEF lockTwo
  <2>2. StructLock(a) = StructLock(b)
    BY <1>5 DEF StructLock
  <2> QED
    BY <1>1, <1>2, <2>1, <2>2
<1>6. CASE ~(stripe[a] < stripe[b]) /\ stripe[a] # stripe[b]
  <2>1. lockTwo(a, b) = <<StructLock(b), StructLock(a)>>
    BY <1>6 DEF lockTwo
  <2> QED
    BY <1>1, <1>3, <2>1
<1> QED
  BY <1>4, <1>5, <1>6

LEMMA LockStep ==
  ASSUME IInv, NEW t \in Threads, Lock(t)
  PROVE  IInv'
<1>1. PICK n \in Nat, f \in FrameType :
        /\ n = Len(stack[t]) /\ n >= 1 /\ f = Top(t) /\ f = stack[t][n] /\ f.pc = "lock"
        /\ Shape(f) /\ ClearedAt(f) /\ LockedAt(t, f) /\ StructLockedAt(t, f) /\ stack[t] # <<>>
  BY AtTop DEF Lock, At
<1>2. f.want \in Seq(Locks) /\ f.want # <<>> /\ f.do \in {"swap", "read", "remove", "move"}
      /\ f.then # "assoc" /\ f.todo = {}
  BY <1>1 DEF Shape, FrameType
<1>3. PICK rest \in Seq(Locks) : rest = Tail(f.want)
  BY <1>2, TailOp
<1>4. PICK l \in Locks : l = Head(f.want)
  BY <1>2
<1>5. PICK g : g = [f EXCEPT !.want = rest, !.pc = IF rest = <<>> THEN f.do ELSE "lock"]
  OBVIOUS
<1>6. /\ g \in FrameType /\ g.want = rest /\ g.pc = (IF rest = <<>> THEN f.do ELSE "lock")
      /\ g.do = f.do /\ g.obj = f.obj /\ g.slot = f.slot /\ g.new = f.new /\ g.todo = f.todo
      /\ g.then = f.then /\ g.src = f.src
  BY <1>2, <1>5 DEF FrameType, PCs
<1>7. With(t, g) /\ locks[l] = NoThread /\ locks' = [locks EXCEPT ![l] = t]
  BY <1>1, <1>3, <1>4, <1>5 DEF Lock
<1>8. Replaced(t, g)
  BY <1>1, <1>6, <1>7, WithOp DEF IInv
<1>9. Quiet /\ mem' = mem
  BY DEF Lock, counts, places, Quiet, SameRefs, SamePlaces
<1>10. Typed'
  <2>1. locks' \in [Locks -> Threads \cup {NoThread}]
    BY <1>7 DEF IInv, Typed
  <2> QED
    BY <1>8, <1>9, <2>1 DEF IInv, Typed, Quiet, SameRefs, SamePlaces, Replaced, Kept
<1>11. locks'[l] = t /\ \A k \in Locks : locks[k] = t => locks'[k] = t
  BY <1>7 DEF IInv, Typed
<1>12. Others(t)
  <2>1. \A k \in Locks : \A u \in Threads \ {t} : locks[k] = u => locks'[k] = u
    BY <1>7, StoredValuesAssumption DEF IInv, Typed
  <2>2. \A c \in Cells : locks[StructLock(c)] = t => locks'[StructLock(c)] = t
    BY <1>11, LockFacts
  <2> QED
    BY <1>9, <2>1, <2>2, OthersHeld DEF Quiet, SameRefs, SamePlaces, IInv
<1>13. Shape(g)
  BY <1>1, <1>2, <1>6 DEF Shape
<1>14. UserAt(t, n)'
  BY <1>1, <1>2, <1>6, <1>8, <1>9, UserKept DEF Quiet, SameRefs, SamePlaces, IsDealloc
<1>15. ClearedAt(g)'
  BY <1>1, <1>2, <1>6, <1>9 DEF Quiet, SameRefs, SamePlaces, ClearedAt, ClearedIn, Shape
<1>16. LockedAt(t, g)'
  <2>1. CASE f.do \in {"swap", "read"}
    <3>1. f.slot # "nonatomic" /\ f.want = <<LockOf(f.slot)>>
      BY <1>1, <2>1 DEF LockedAt
    <3>2. rest = <<>> /\ l = LockOf(f.slot)
      BY <1>3, <1>4, <3>1
    <3>3. LockOf(g.slot)' = l
      BY <1>6, <3>2 DEF LockOf, AssociationsManagerLock, PropertyLock
    <3> QED
      BY <1>6, <1>11, <2>1, <3>2, <3>3 DEF LockedAt
  <2>2. CASE f.do = "remove"
    <3>1. f.want = <<AssociationsManagerLock>>
      BY <1>1, <2>2 DEF LockedAt
    <3>2. rest = <<>> /\ l = AssociationsManagerLock
      BY <1>3, <1>4, <3>1
    <3> QED
      BY <1>6, <1>11, <2>2, <3>2 DEF LockedAt, AssociationsManagerLock
  <2>3. CASE f.do = "move"
    BY <1>6, <2>3 DEF LockedAt
  <2> QED
    BY <1>2, <2>1, <2>2, <2>3
<1>17. StructLockedAt(t, g)'
  <2>1. CASE f.do # "move"
    BY <1>2, <1>6, <2>1 DEF StructLockedAt
  <2>2. CASE f.do = "move"
    <3>1. f.obj \in Cells /\ f.src \in Cells /\ (f.src \in CppObjects <=> f.obj \in CppObjects)
      BY <1>1, <2>2 DEF Shape
    <3>2. PICK two : two = lockTwo(f.src, f.obj)
      OBVIOUS
    <3>3. PICK a \in Locks, b \in Locks : a = StructLock(f.src) /\ b = StructLock(f.obj)
      BY <3>1, LockFacts
    <3>4. f.want = two \/ (f.want = Tail(two) /\ locks[Head(two)] = t)
      BY <1>1, <2>2, <3>2 DEF StructLockedAt
    <3>5. IF rest = <<>> THEN locks'[a] = t /\ locks'[b] = t
          ELSE rest = Tail(two) /\ locks'[Head(two)] = t
      <4>1. CASE Tail(two) = <<>> /\ a = b /\ Head(two) = b
        <5>1. f.want = two
          BY <1>2, <3>4, <4>1
        <5> QED
          BY <1>3, <1>4, <1>11, <4>1, <5>1
      <4>2. CASE \E x, y \in Locks : two = <<x, y>> /\ {x, y} = {a, b}
                                     /\ Tail(two) = <<y>> /\ Head(two) = x
        <5>1. PICK x \in Locks, y \in Locks : two = <<x, y>> /\ {x, y} = {a, b}
                                     /\ Tail(two) = <<y>> /\ Head(two) = x
          BY <4>2
        <5>2. CASE f.want = two
          <6>1. rest = <<y>> /\ l = x
            BY <1>3, <1>4, <5>1, <5>2
          <6>2. <<y>> # <<>>
            OBVIOUS
          <6> QED
            BY <1>11, <5>1, <6>1, <6>2
        <5>3. CASE f.want = Tail(two) /\ locks[Head(two)] = t
          <6>1. rest = <<>> /\ l = y
            BY <1>3, <1>4, <5>1, <5>3
          <6>2. locks'[x] = t /\ locks'[y] = t
            BY <1>11, <5>1, <5>3, <6>1
          <6>3. (a = x \/ a = y) /\ (b = x \/ b = y)
            BY <5>1
          <6> QED
            BY <6>1, <6>2, <6>3
        <5> QED
          BY <3>4, <5>2, <5>3
      <4> QED
        BY <3>1, <3>2, <3>3, <4>1, <4>2, LockTwoFacts
    <3>6. lockTwo(g.src, g.obj)' = two /\ StructLock(g.obj)' = b /\ StructLock(g.src)' = a
      BY <1>6, <3>2, <3>3 DEF lockTwo, StructLock
    <3>7. rest # <<>> => g.pc = "lock"
      BY <1>6
    <3>8. rest = <<>> => g.pc = "move"
      BY <1>6, <2>2
    <3> QED
      BY <1>6, <2>2, <3>5, <3>6, <3>7, <3>8 DEF StructLockedAt
  <2> QED
    BY <2>1, <2>2
<1>18. CallOk(t, n)'
  BY <1>1, <1>8, <1>13, <1>14, <1>15, <1>16, <1>17, CallOkNew DEF Replaced
<1>19. CallsOk' /\ Works(t, n - 1)
  BY <1>1, <1>8, <1>10, <1>12, <1>18, CallsReplaced
<1>20. Deallocs'
  BY <1>1, <1>6, <1>8, <1>9, <1>10, <1>2, DeallocsReplaced DEF Quiet, IsDealloc
<1>21. Structs'
  BY <1>1, <1>2, <1>6, <1>8, <1>9, <1>10, <1>19, StructsReplaced
<1>22. RefsExact'
  <2>1. \A o \in Objects : Carries(g, o) <=> Carries(Top(t), o)
    BY <1>1, <1>6 DEF Carries
  <2> QED
    BY <1>1, <1>6, <1>8, <1>9, <1>10, <2>1, RefsReplaced DEF Quiet
<1> QED
  BY <1>9, <1>10, <1>19, <1>20, <1>21, <1>22, QuietStep, Parts

LEMMA ReleasedStep ==
  ASSUME IInv, NEW t \in Threads, Released(t)
  PROVE  IInv'
<1>1. PICK n \in Nat, f \in FrameType :
        /\ n = Len(stack[t]) /\ n >= 1 /\ f = Top(t) /\ f = stack[t][n] /\ f.pc = "release"
        /\ Shape(f) /\ ClearedAt(f) /\ stack[t] # <<>> /\ f.todo = {}
  BY AtTop DEF Released, At
<1>2. Quiet /\ mem' = mem /\ locks' = locks
  BY DEF Released, counts, places, Quiet, SameRefs, SamePlaces
<1>3. Others(t)
  BY <1>2, OthersHeld DEF Quiet, SameRefs, SamePlaces, IInv
<1>4. \A o \in Objects : ~Carries(f, o)
  BY <1>1, EntryFacts, StoredValuesAssumption DEF Carries, Shape
<1>5. CASE f.then = "return"
  <2>1. Popped(t)
    BY <1>1, <1>5, PopOp DEF Released, IInv
  <2>2. Typed'
    BY <1>2, <2>1 DEF IInv, Typed, Quiet, SameRefs, SamePlaces, Popped, Kept
  <2>3. CallsOk' /\ Works(t, n - 1)
    BY <1>1, <1>3, <2>1, <2>2, CallsPopped
  <2>4. Deallocs'
    BY <1>2, <2>1, <2>2, DeallocsPopped DEF Quiet
  <2>5. Structs'
    BY <1>1, <1>2, <2>1, <2>2, <2>3, StructsPopped
  <2>6. RefsExact'
    BY <1>1, <1>2, <1>4, <2>1, <2>2, RefsPopped DEF Quiet
  <2> QED
    BY <1>2, <2>2, <2>3, <2>4, <2>5, <2>6, QuietStep, Parts
<1>6. CASE f.then # "return"
  <2>1. f.do = "remove" /\ f.then \in {"assoc", "free"}
    BY <1>1, <1>6 DEF Shape, FrameType
  <2>2. PICK g : g = [f EXCEPT !.pc = f.then]
    OBVIOUS
  <2>3. /\ g \in FrameType /\ g.pc = f.then /\ g.do = f.do /\ g.obj = f.obj /\ g.new = f.new
        /\ g.todo = f.todo /\ g.then = f.then /\ g.slot = f.slot
    BY <2>1, <2>2 DEF FrameType, PCs
  <2>4. Replaced(t, g)
    BY <1>1, <1>6, <2>2, <2>3, WithOp DEF Released, IInv
  <2>5. Typed'
    BY <1>2, <2>4 DEF IInv, Typed, Quiet, SameRefs, SamePlaces, Replaced, Kept
  <2>6. Shape(g)
    BY <1>1, <2>1, <2>3 DEF Shape
  <2>7. ClearedAt(g)'
    BY <1>1, <1>2, <2>1, <2>3 DEF Quiet, SameRefs, SamePlaces, ClearedAt, ClearedIn
  <2>8. stack'[t][n] = g /\ Len(stack'[t]) = n
    BY <1>1, <2>4 DEF Replaced
  <2>9. CallOk(t, n)'
    BY <1>1, <2>1, <2>3, <2>6, <2>7, <2>8, CallOkNew, Idle
  <2>10. CallsOk' /\ Works(t, n - 1)
    BY <1>1, <1>3, <2>4, <2>5, <2>9, CallsReplaced
  <2>11. Deallocs'
    BY <1>1, <1>2, <1>6, <2>3, <2>4, <2>5, DeallocsReplaced DEF Quiet, IsDealloc
  <2>12. Structs'
    BY <1>1, <1>2, <2>1, <2>3, <2>4, <2>5, <2>10, StructsReplaced
  <2>13. \A o \in Objects : Carries(g, o) <=> Carries(Top(t), o)
    BY <1>1, <2>3 DEF Carries
  <2>14. RefsExact'
    BY <1>1, <1>2, <2>3, <2>4, <2>5, <2>13, RefsReplaced DEF Quiet
  <2> QED
    BY <1>2, <2>5, <2>10, <2>11, <2>12, <2>14, QuietStep, Parts
<1> QED
  BY <1>5, <1>6

LEMMA RemoveAssociationsStep ==
  ASSUME IInv, NEW t \in Threads, RemoveAssociations(t)
  PROVE  IInv'
<1>1. PICK n \in Nat, f \in FrameType :
        /\ n = Len(stack[t]) /\ n >= 1 /\ f = Top(t) /\ f = stack[t][n] /\ f.pc = "assoc"
        /\ Shape(f) /\ ClearedAt(f) /\ stack[t] # <<>>
  BY AtTop DEF RemoveAssociations, At
<1>2. Quiet /\ mem' = mem /\ locks' = locks
  BY DEF RemoveAssociations, counts, places, Quiet, SameRefs, SamePlaces
<1>3. Others(t)
  BY <1>2, OthersHeld DEF Quiet, SameRefs, SamePlaces, IInv
<1>4. f.do = "remove" /\ f.then = "assoc" /\ f.obj \in Hosts /\ f.obj \in Objects /\ f.todo = {}
  BY <1>1 DEF Shape
<1>5. PICK g : g = [f EXCEPT !.pc = "lock", !.want = <<AssociationsManagerLock>>, !.then = "free"]
  OBVIOUS
<1>6. /\ g \in FrameType /\ g.pc = "lock" /\ g.do = f.do /\ g.obj = f.obj /\ g.new = f.new
      /\ g.todo = f.todo /\ g.then = "free" /\ g.slot = f.slot /\ g.want = <<AssociationsManagerLock>>
  BY <1>4, <1>5, LockFacts DEF FrameType, PCs
<1>7. Replaced(t, g)
  BY <1>1, <1>5, <1>6, WithOp DEF RemoveAssociations, IInv
<1>8. Typed'
  BY <1>2, <1>7 DEF IInv, Typed, Quiet, SameRefs, SamePlaces, Replaced, Kept
<1>9. Shape(g)
  BY <1>1, <1>4, <1>6, LockFacts DEF Shape
<1>10. ClearedAt(g)'
  BY <1>1, <1>2, <1>4, <1>6 DEF Quiet, SameRefs, SamePlaces, ClearedAt, ClearedIn
<1>11. stack'[t][n] = g /\ Len(stack'[t]) = n
  BY <1>1, <1>7 DEF Replaced
<1>12. UserAt(t, n)' /\ LockedAt(t, g)' /\ StructLockedAt(t, g)'
  <2>1. UserAt(t, n)'
    BY <1>4, <1>6, <1>11 DEF UserAt, IsDealloc
  <2>2. LockedAt(t, g)'
    BY <1>4, <1>6 DEF LockedAt, AssociationsManagerLock
  <2>3. StructLockedAt(t, g)'
    BY <1>4, <1>6 DEF StructLockedAt
  <2> QED
    BY <2>1, <2>2, <2>3
<1>13. CallOk(t, n)'
  BY <1>9, <1>10, <1>11, <1>12, CallOkNew
<1>14. CallsOk' /\ Works(t, n - 1)
  BY <1>1, <1>3, <1>7, <1>8, <1>13, CallsReplaced
<1>15. Deallocs'
  BY <1>1, <1>2, <1>4, <1>6, <1>7, <1>8, DeallocsReplaced DEF Quiet, IsDealloc
<1>16. Structs'
  BY <1>1, <1>2, <1>6, <1>7, <1>8, <1>14, StructsReplaced
<1>17. \A o \in Objects : Carries(g, o) <=> Carries(Top(t), o)
  BY <1>1, <1>6 DEF Carries
<1>18. RefsExact'
  BY <1>1, <1>2, <1>6, <1>7, <1>8, <1>17, RefsReplaced DEF Quiet
<1> QED
  BY <1>2, <1>8, <1>14, <1>15, <1>16, <1>18, QuietStep, Parts

LEMMA ReadStep ==
  ASSUME IInv, NEW t \in Threads, Read(t)
  PROVE  IInv'
<1>1. PICK n \in Nat, f \in FrameType :
        /\ n = Len(stack[t]) /\ n >= 1 /\ f = Top(t) /\ f = stack[t][n] /\ f.pc = "read"
        /\ Shape(f) /\ ClearedAt(f) /\ LockedAt(t, f) /\ stack[t] # <<>>
  BY AtTop DEF Read, At
<1>2. Quiet /\ mem' = mem
  BY DEF Read, counts, places, Quiet, SameRefs, SamePlaces
<1>3. f.do = "read" /\ f.obj \in Hosts /\ f.slot \in Slots /\ f.todo = {} /\ f.then = "return"
  BY <1>1 DEF Shape, FrameType
<1>4. PICK e : e = held[f.obj][f.slot]
  OBVIOUS
<1>5. e \in Entries(f.slot) /\ e \in Entry
  BY <1>3, <1>4, EntryFacts DEF IInv, Typed
<1>6. \A o \in Objects : ~Carries(f, o)
  BY <1>3 DEF Carries
<1>7. CASE ~(e.value # Nil /\ e.atomic)
  <2>1. Pop(t) /\ Unlock(f)
    BY <1>1, <1>4, <1>7 DEF Read
  <2>2. Popped(t)
    BY <1>1, <2>1, PopOp DEF IInv
  <2>3. Typed'
    BY <1>1, <1>2, <2>1, <2>2, UnlockOp DEF IInv, Typed, Quiet, SameRefs, SamePlaces, Popped, Kept
  <2>4. Others(t)
    BY <1>1, <1>2, <2>1, UnlockOp, OthersHeld DEF Quiet, SameRefs, SamePlaces, IInv
  <2>5. CallsOk' /\ Works(t, n - 1)
    BY <1>1, <2>2, <2>3, <2>4, CallsPopped
  <2>6. Deallocs'
    BY <1>2, <2>2, <2>3, DeallocsPopped DEF Quiet
  <2>7. Structs'
    BY <1>1, <1>2, <2>2, <2>3, <2>5, StructsPopped
  <2>8. RefsExact'
    BY <1>1, <1>2, <1>3, <1>6, <2>2, <2>3, RefsPopped DEF Quiet
  <2> QED
    BY <1>2, <2>3, <2>5, <2>6, <2>7, <2>8, QuietStep, Parts
<1>8. CASE e.value # Nil /\ e.atomic
  <2>1. PICK g : g = [f EXCEPT !.pc = "retain", !.new = e]
    OBVIOUS
  <2>2. /\ g \in FrameType /\ g.pc = "retain" /\ g.do = f.do /\ g.obj = f.obj /\ g.new = e
        /\ g.todo = f.todo /\ g.then = f.then /\ g.slot = f.slot
    BY <1>5, <2>1 DEF FrameType, PCs
  <2>3. With(t, g) /\ locks' = locks
    BY <1>1, <1>4, <1>8, <2>1 DEF Read, StayLocked
  <2>4. Replaced(t, g)
    BY <1>1, <2>2, <2>3, WithOp DEF IInv
  <2>5. Typed'
    BY <1>2, <2>3, <2>4 DEF IInv, Typed, Quiet, SameRefs, SamePlaces, Replaced, Kept
  <2>6. Others(t)
    BY <1>2, <2>3, OthersHeld DEF Quiet, SameRefs, SamePlaces, IInv
  <2>7. Shape(g)
    BY <1>1, <1>3, <2>2 DEF Shape
  <2>8. ClearedAt(g)' /\ StructLockedAt(t, g)'
    BY <1>3, <2>2 DEF ClearedAt, ClearedIn, StructLockedAt
  <2>9. LockedAt(t, g)'
    <3>1. f.slot # "nonatomic"
      BY <1>3, <1>5, <1>8, EntryFacts
    <3>2. locks[LockOf(f.slot)] = t
      BY <1>1, <3>1 DEF LockedAt
    <3>3. held' = held
      BY <1>2 DEF Quiet, SameRefs, SamePlaces
    <3> QED
      BY <1>4, <1>8, <2>2, <2>3, <3>2, <3>3 DEF LockedAt, LockOf, AssociationsManagerLock, PropertyLock
  <2>10. UserAt(t, n)'
    BY <1>1, <1>2, <1>3, <2>2, <2>4, UserKept DEF Quiet, SameRefs, SamePlaces, IsDealloc
  <2>11. CallOk(t, n)'
    BY <1>1, <2>4, <2>7, <2>8, <2>9, <2>10, CallOkNew DEF Replaced
  <2>12. CallsOk' /\ Works(t, n - 1)
    BY <1>1, <2>4, <2>5, <2>6, <2>11, CallsReplaced
  <2>13. Deallocs'
    BY <1>1, <1>2, <1>3, <2>2, <2>4, <2>5, DeallocsReplaced DEF Quiet, IsDealloc
  <2>14. Structs'
    BY <1>1, <1>2, <2>2, <2>4, <2>5, <2>12, StructsReplaced
  <2>15. \A o \in Objects : Carries(g, o) <=> Carries(Top(t), o)
    BY <1>1, <1>3, <2>2 DEF Carries
  <2>16. RefsExact'
    BY <1>1, <1>2, <2>2, <2>4, <2>5, <2>15, RefsReplaced DEF Quiet
  <2> QED
    BY <1>2, <2>5, <2>12, <2>13, <2>14, <2>16, QuietStep, Parts
<1> QED
  BY <1>7, <1>8

\* References of clients that a step adds, or does not touch.
ClientsAre == \A o \in Objects : /\ OfClients(o) = Refs(ClientRefs(o))
                                 /\ ClientRefs(o) \in [Threads -> Nat]
                                 /\ Cardinality(OfClients(o)) \in Nat

LEMMA TypedClientsAre == Typed => ClientsAre
  BY OfClientsRefs DEF ClientsAre

LEMMA ClientsSame ==
  ASSUME NEW o \in Objects, \A u \in Threads : own'[u][o] = own[u][o]
  PROVE  OfClients(o)' = OfClients(o)
  BY DEF OfClients

LEMMA ClientsMore ==
  ASSUME Typed, Typed', NEW t \in Threads, NEW v \in Objects, own' = [own EXCEPT ![t][v] = @ + 1]
  PROVE  /\ \A u \in Threads \ {t} : own'[u] = own[u]
         /\ Cardinality(OfClients(v)') = Cardinality(OfClients(v)) + 1
         /\ \A o \in Objects \ {v} : OfClients(o)' = OfClients(o)
<1>1. ClientsAre
  BY TypedClientsAre
<1>2. ClientsAre'
  BY TypedClientsAre, PTL
<1>3. own \in [Threads -> [Objects -> Nat]]
  BY DEF Typed
<1>4. /\ \A u \in Threads \ {t} : own'[u] = own[u]
      /\ own'[t][v] = own[t][v] + 1
      /\ \A o \in Objects \ {v} : own'[t][o] = own[t][o]
  BY <1>3
<1>5. ASSUME NEW o \in Objects \ {v} PROVE OfClients(o)' = OfClients(o)
  BY <1>4, ClientsSame
<1>6. PICK f \in [Threads -> Nat] : f = ClientRefs(v) /\ OfClients(v) = Refs(f)
  BY <1>1 DEF ClientsAre
<1>7. PICK g \in [Threads -> Nat] : g = ClientRefs(v)' /\ OfClients(v)' = Refs(g)
  <2>1. OfClients(v)' = Refs(ClientRefs(v)')
    BY <1>2 DEF ClientsAre, Refs
  <2> QED
    BY <1>2, <2>1 DEF ClientsAre
<1>8. g[t] = f[t] + 1 /\ \A u \in Threads \ {t} : g[u] = f[u]
  BY <1>4, <1>6, <1>7 DEF ClientRefs
<1>9. Cardinality(Refs(g)) = Cardinality(Refs(f)) + 1
  BY <1>8, RefsMore
<1> QED
  BY <1>4, <1>5, <1>6, <1>7, <1>9

LEMMA ClientsLess ==
  ASSUME Typed, Typed', NEW t \in Threads, NEW v \in Objects, own' = [own EXCEPT ![t][v] = @ - 1]
  PROVE  /\ \A u \in Threads \ {t} : own'[u] = own[u]
         /\ Cardinality(OfClients(v)') + 1 = Cardinality(OfClients(v))
         /\ \A o \in Objects \ {v} : OfClients(o)' = OfClients(o)
<1>1. ClientsAre
  BY TypedClientsAre
<1>2. ClientsAre'
  BY TypedClientsAre, PTL
<1>3. own \in [Threads -> [Objects -> Nat]]
  BY DEF Typed
<1>4. /\ \A u \in Threads \ {t} : own'[u] = own[u]
      /\ own'[t][v] + 1 = own[t][v]
      /\ \A o \in Objects \ {v} : own'[t][o] = own[t][o]
  BY <1>3
<1>5. ASSUME NEW o \in Objects \ {v} PROVE OfClients(o)' = OfClients(o)
  BY <1>4, ClientsSame
<1>6. PICK f \in [Threads -> Nat] : f = ClientRefs(v) /\ OfClients(v) = Refs(f)
  BY <1>1 DEF ClientsAre
<1>7. PICK g \in [Threads -> Nat] : g = ClientRefs(v)' /\ OfClients(v)' = Refs(g)
  <2>1. OfClients(v)' = Refs(ClientRefs(v)')
    BY <1>2 DEF ClientsAre, Refs
  <2> QED
    BY <1>2, <2>1 DEF ClientsAre
<1>8. f[t] = g[t] + 1 /\ \A u \in Threads \ {t} : f[u] = g[u]
  BY <1>4, <1>6, <1>7 DEF ClientRefs
<1>9. Cardinality(Refs(f)) = Cardinality(Refs(g)) + 1
  BY <1>8, RefsMore
<1> QED
  BY <1>4, <1>5, <1>6, <1>7, <1>9

\* A value that a getter is about to retain is one that the place owns.
LEMMA Retained ==
  ASSUME IInv, NEW t \in Threads, At(t, "retain")
  PROVE  Top(t).new.value \in Objects /\ life[Top(t).new.value] = "live"
<1>1. PICK f \in FrameType : f = Top(t) /\ f.pc = "retain" /\ Shape(f) /\ LockedAt(t, f)
  BY AtTop DEF At
<1>2. f.do = "read" /\ f.obj \in Hosts /\ f.slot \in Slots
  BY <1>1 DEF Shape, FrameType
<1>3. f.new = held[f.obj][f.slot] /\ f.new.atomic
  BY <1>1 DEF LockedAt
<1>4. f.new \in Entries(f.slot)
  BY <1>2, <1>3 DEF IInv, Typed
<1>5. f.new.value \in Objects /\ f.new.setter # "assign"
  BY <1>2, <1>3, <1>4, EntryFacts
<1>6. <<f.obj, f.slot>> \in InPlaces(f.new.value)
  BY <1>2, <1>3, <1>5 DEF InPlaces
<1> QED
  BY <1>1, <1>5, <1>6, OwnedLive

LEMMA RetainAutoreleaseStep ==
  ASSUME IInv, NEW t \in Threads, RetainAutorelease(t)
  PROVE  IInv'
<1>1. PICK n \in Nat, f \in FrameType :
        /\ n = Len(stack[t]) /\ n >= 1 /\ f = Top(t) /\ f = stack[t][n] /\ f.pc = "retain"
        /\ Shape(f) /\ LockedAt(t, f) /\ stack[t] # <<>>
  BY AtTop DEF RetainAutorelease, At
<1>2. PICK v \in Objects : v = f.new.value /\ life[v] = "live"
  BY <1>1, Retained DEF RetainAutorelease
<1>3. /\ count' = [count EXCEPT ![v] = @ + 1] /\ own' = [own EXCEPT ![t][v] = @ + 1]
      /\ life' = life /\ held' = held /\ SamePlaces /\ mem' = mem
      /\ Pop(t) /\ Unlock(f)
  BY <1>1, <1>2 DEF RetainAutorelease, places, SamePlaces
<1>4. f.do = "read" /\ f.todo = {}
  BY <1>1 DEF Shape
<1>5. Popped(t)
  BY <1>1, <1>3, PopOp DEF IInv
<1>6. count[v] \in Nat /\ count'[v] = count[v] + 1 /\ (\A o \in Objects \ {v} : count'[o] = count[o])
  BY <1>3 DEF IInv, Typed
<1>7. Typed'
  <2>1. count' \in [Objects -> Nat]
    BY <1>3, <1>6 DEF IInv, Typed
  <2>2. own' \in [Threads -> [Objects -> Nat]]
    BY <1>3 DEF IInv, Typed
  <2>3. locks' \in [Locks -> Threads \cup {NoThread}]
    BY <1>1, <1>3, UnlockOp DEF IInv
  <2> QED
    BY <1>3, <1>5, <2>1, <2>2, <2>3 DEF IInv, Typed, SamePlaces, Popped, Kept
<1>8. /\ \A u \in Threads \ {t} : own'[u] = own[u]
      /\ Cardinality(OfClients(v)') = Cardinality(OfClients(v)) + 1
      /\ \A o \in Objects \ {v} : OfClients(o)' = OfClients(o)
  BY <1>3, <1>7, ClientsMore DEF IInv
<1>9. Others(t)
  BY <1>1, <1>3, <1>8, UnlockOp, OthersHeld DEF IInv
<1>10. CallsOk' /\ Works(t, n - 1)
  BY <1>1, <1>5, <1>7, <1>9, CallsPopped
<1>11. Deallocs'
  BY <1>3, <1>5, <1>7, DeallocsPopped
<1>12. Structs'
  BY <1>1, <1>3, <1>5, <1>7, <1>10, StructsPopped
<1>13. AssocBit' /\ NothingLeftBehind'
  BY <1>3 DEF IInv, SamePlaces, AssocBit, NothingLeftBehind
<1>14. Alive'
  <2>1. ASSUME NEW o \in Objects PROVE life'[o] = "live" <=> count'[o] > 0
    <3>1. CASE o = v
      BY <1>2, <1>3, <1>6, <3>1
    <3>2. CASE o # v
      BY <1>3, <1>6, <3>2 DEF IInv, Alive
    <3> QED
      BY <3>1, <3>2
  <2> QED
    BY <2>1 DEF Alive
<1>15. RefsExact'
  <2>1. n = Len(stack'[t]) + 1 /\ Kept(t, n - 1)
    BY <1>1, <1>5 DEF Popped
  <2>2. ASSUME NEW o \in Objects PROVE Balanced(t, n, o)
    <3>1. Carried(t, n, o) = 0 /\ Drop(t, n, o) = {}
      <4>1. ~Carries(f, o) /\ Drops(f, o) = {}
        BY <1>4 DEF Carries, Drops
      <4> QED
        BY <1>1, <4>1, CarriedBefore
    <3>2. Carried(t, n, o)' = 0 /\ Drop(t, n, o)' = {}
      BY <1>7, <2>1, CarriedGone
    <3>3. InPlaces(o)' = InPlaces(o)
      BY <1>3 DEF InPlaces
    <3>4. Cardinality(OfClients(o)) \in Nat /\ Cardinality(InPlaces(o)) \in Nat /\ count[o] \in Nat
      BY OfClientsRefs, TypedCountable DEF Countable, IInv, Typed
    <3>5. Cardinality({}) = 0
      BY FS_EmptySet
    <3>6. CASE o = v
      BY <1>6, <1>8, <3>1, <3>2, <3>3, <3>4, <3>5, <3>6 DEF Balanced
    <3>7. CASE o # v
      BY <1>6, <1>8, <3>1, <3>2, <3>3, <3>4, <3>5, <3>7 DEF Balanced
    <3> QED
      BY <3>6, <3>7
  <2>3. /\ n >= Len(stack[t])
        /\ \A i \in 1 .. Len(stack'[t]) : i > n => stack'[t][i].do # "swap" /\ stack'[t][i].todo = {}
    BY <1>1, <2>1
  <2> QED
    BY <1>1, <1>7, <2>1, <2>2, <2>3, RefsExactStep
<1> QED
  BY <1>7, <1>10, <1>11, <1>12, <1>13, <1>14, <1>15, Parts

LEMMA FreeStep ==
  ASSUME IInv, NEW t \in Threads, Free(t)
  PROVE  IInv'
<1>1. PICK n \in Nat, f \in FrameType :
        /\ n = Len(stack[t]) /\ n >= 1 /\ f = Top(t) /\ f = stack[t][n] /\ f.pc = "free"
        /\ Shape(f) /\ ClearedAt(f) /\ stack[t] # <<>> /\ n \in 1 .. Len(stack[t])
  BY AtTop DEF Free, At
<1>2. f.do = "remove" /\ f.then = "free" /\ f.obj \in Objects /\ f.todo = {} /\ IsDealloc(f)
  BY <1>1 DEF Shape, IsDealloc
<1>3. PICK o \in Objects : o = f.obj /\ life[o] = "deallocating"
  BY <1>1, <1>2, DeallocObj
<1>4. /\ life' = [life EXCEPT ![o] = "free"] /\ has_assoc' = has_assoc \ {o}
      /\ tables' = tables /\ late' = late
      /\ SameRefs /\ mem' = mem /\ locks' = locks /\ Pop(t)
  BY <1>1, <1>3 DEF Free, SameRefs
<1>5. Popped(t)
  BY <1>1, <1>4, PopOp DEF IInv
<1>6. Typed'
  <2>1. life' \in [Objects -> {"live", "deallocating", "free"}] /\ has_assoc' \subseteq Hosts
    BY <1>4 DEF IInv, Typed
  <2> QED
    BY <1>4, <1>5, <2>1 DEF IInv, Typed, SameRefs, Popped, Kept
<1>7. Others(t)
  <2>1. \A u \in Threads : \A i \in 1 .. Len(stack[u]) :
          ClearedIn(stack[u][i], held', tables', has_assoc', late')
    BY <1>4 DEF SameRefs, IInv, Cleared, ClearedAt, ClearedIn
  <2>2. HelpersHold(t)
    BY <1>4, HelpersKeep DEF IInv
  <2> QED
    BY <1>4, <2>1, <2>2 DEF SameRefs, Others
<1>8. CallsOk' /\ Works(t, n - 1)
  BY <1>1, <1>5, <1>6, <1>7, CallsPopped
<1>9. Deallocs'
  <2>1. ASSUME NEW u \in Threads, NEW i \in 1 .. Len(stack'[u])
        PROVE  i \in 1 .. Len(stack[u]) /\ stack'[u][i] = stack[u][i] /\ (u # t \/ i # n)
    <3>1. ~(u = t /\ i > n - 1)
      BY <1>1, <1>5 DEF Popped
    <3> QED
      BY <1>1, <1>6, <1>8, <3>1, Calls DEF IInv
  <2>2. ASSUME NEW u \in Threads, NEW i \in 1 .. Len(stack'[u]), IsDealloc(stack'[u][i])
        PROVE  life'[stack'[u][i].obj] = "deallocating"
    <3>1. stack[u][i].obj \in Objects /\ life[stack[u][i].obj] = "deallocating"
      BY <2>1, <2>2, DeallocObj
    <3>2. stack[u][i].obj # o
      BY <1>1, <1>2, <1>3, <2>1, <2>2 DEF IInv, Deallocs
    <3> QED
      BY <1>4, <2>1, <3>1, <3>2 DEF IInv, Typed
  <2>3. ASSUME NEW u \in Threads, NEW i \in 1 .. Len(stack'[u]), IsDealloc(stack'[u][i]),
               NEW w \in Threads, NEW j \in 1 .. Len(stack'[w]), IsDealloc(stack'[w][j]),
               stack'[w][j].obj = stack'[u][i].obj
        PROVE  w = u /\ j = i
    <3>1. i \in 1 .. Len(stack[u]) /\ stack'[u][i] = stack[u][i]
      BY <2>1
    <3>2. j \in 1 .. Len(stack[w]) /\ stack'[w][j] = stack[w][j]
      BY <2>1
    <3>3. IsDealloc(stack[u][i]) /\ IsDealloc(stack[w][j]) /\ stack[w][j].obj = stack[u][i].obj
      BY <2>3, <3>1, <3>2
    <3> QED
      BY <3>1, <3>2, <3>3 DEF IInv, Deallocs
  <2>4. \A g : IsDealloc(g)' <=> IsDealloc(g)
    BY DEF IsDealloc
  <2> QED
    BY <2>2, <2>3, <2>4 DEF Deallocs
<1>10. Structs'
  BY <1>1, <1>4, <1>5, <1>6, <1>8, StructsPopped
<1>11. o \in Hosts => (\A s \in Properties : held[o][s] = None) /\ (o \in tables => o \in late)
  BY <1>1, <1>2, <1>3 DEF ClearedAt, ClearedIn
<1>12. AssocBit'
  <2>1. ASSUME NEW h \in Hosts, h \in tables, h \notin late PROVE h \in has_assoc'
    BY <1>4, <1>11, <2>1 DEF IInv, AssocBit
  <2> QED
    BY <1>4, <2>1 DEF IInv, AssocBit, SameRefs
<1>13. NothingLeftBehind'
  <2>1. ASSUME NEW h \in Hosts, life'[h] = "free", NEW s \in Slots
        PROVE  held'[h][s] = None \/ (s \in Keys /\ h \in late')
    <3>1. CASE h = o
      BY <1>4, <1>11, <3>1, SlotFacts DEF IInv, AssocBit, SameRefs
    <3>2. CASE h # o
      BY <1>4, <2>1, <3>2, StoredValuesAssumption DEF IInv, Typed, NothingLeftBehind, SameRefs
    <3> QED
      BY <3>1, <3>2
  <2> QED
    BY <2>1 DEF NothingLeftBehind
<1>14. Alive'
  BY <1>3, <1>4 DEF IInv, Alive, Typed, SameRefs
<1>15. RefsExact'
  <2>1. \A x \in Objects : ~Carries(Top(t), x)
    BY <1>1, <1>2 DEF Carries
  <2> QED
    BY <1>1, <1>2, <1>4, <1>5, <1>6, <2>1, RefsPopped
<1> QED
  BY <1>6, <1>8, <1>9, <1>10, <1>12, <1>13, <1>14, <1>15, Parts

LEMMA MoveStep ==
  ASSUME IInv, NEW t \in Threads, Move(t)
  PROVE  IInv'
<1>1. PICK n \in Nat, f \in FrameType :
        /\ n = Len(stack[t]) /\ n >= 1 /\ f = Top(t) /\ f = stack[t][n] /\ f.pc \in {"move", "move2"}
        /\ Shape(f) /\ StructLockedAt(t, f) /\ stack[t] # <<>> /\ n \in 1 .. Len(stack[t]) /\ UserAt(t, n)
  BY AtTop DEF Move, At, CallOk
<1>2. f.do = "move" /\ f.obj \in Cells /\ f.src \in Cells /\ f.obj # f.src /\ f.todo = {} /\ f.then = "return"
  BY <1>1 DEF Shape
<1>3. PICK w \in {1, 2} : w = IF f.pc = "move" THEN 1 ELSE 2
  BY <1>1
<1>4. Quiet /\ mem' = [mem EXCEPT ![f.obj][w] = mem[f.src][w]]
  BY <1>1, <1>3 DEF Move, counts, places, Quiet, SameRefs, SamePlaces
<1>5. mem' \in [Cells -> [{1, 2} -> Cells]]
  <2>1. mem \in [Cells -> [{1, 2} -> Cells]]
    BY DEF IInv, Typed
  <2>2. mem[f.src][w] \in Cells
    BY <1>2, <2>1
  <2> QED
    BY <1>2, <1>4, <2>1, <2>2
<1>6. /\ \A c \in Cells \ {f.obj} : mem'[c] = mem[c]
      /\ mem'[f.obj][w] = mem[f.src][w]
      /\ \A x \in {1, 2} \ {w} : mem'[f.obj][x] = mem[f.obj][x]
  BY <1>2, <1>4 DEF IInv, Typed
<1>7. \A o \in Objects : ~Carries(f, o)
  BY <1>2 DEF Carries
<1>8. locks[StructLock(f.obj)] = t /\ locks[StructLock(f.src)] = t
  BY <1>1 DEF StructLockedAt
<1>9. ASSUME NEW u \in Threads, NEW i \in 1 .. Len(stack[u]), u # t \/ i < n, stack[u][i].pc = "move2"
      PROVE  /\ stack[u][i].obj \in Cells \ {f.obj, f.src} /\ stack[u][i].src \in Cells \ {f.obj}
             /\ mem[stack[u][i].obj][1] = mem[stack[u][i].src][1]
             /\ \A l \in {StructLock(f.obj), StructLock(f.src)} :
                  l # StructLock(stack[u][i].obj) /\ l # StructLock(stack[u][i].src)
             /\ locks[StructLock(stack[u][i].obj)] = u /\ locks[StructLock(stack[u][i].src)] = u
  <2>1. PICK g : g = stack[u][i] /\ Shape(g) /\ StructLockedAt(u, g)
    BY DEF IInv, Shapes, StructsLocked
  <2>2. g.obj \in Cells /\ g.src \in Cells /\ (g.obj \in CppObjects <=> g.src \in CppObjects)
    BY <1>9, <2>1 DEF Shape
  <2>3. locks[StructLock(g.obj)] = u /\ locks[StructLock(g.src)] = u
    BY <1>9, <2>1 DEF StructLockedAt
  <2>4. mem[g.obj][1] = mem[g.src][1]
    BY <1>9, <2>1 DEF IInv, Structs
  <2>5. \A l \in {StructLock(f.obj), StructLock(f.src)} : l # StructLock(g.obj) /\ l # StructLock(g.src)
    <3>1. CASE u # t
      BY <1>8, <2>3, <3>1
    <3>2. CASE u = t /\ i < n
      <4>1. Helping(g)
        BY <1>1, <1>9, <2>1, <3>2 DEF IInv, Shapes, Waits
      <4>2. i \in 1 .. n - 1
        BY <1>1, <3>2
      <4>3. f.obj \notin CppObjects
        BY <1>1, <1>2, <2>1, <3>2, <4>1, <4>2 DEF UserAt
      <4>4. f.src \notin CppObjects /\ g.obj \in CppObjects /\ g.src \in CppObjects
        BY <1>1, <1>2, <2>2, <4>1, <4>3 DEF Shape, Helping
      <4> QED
        BY <4>3, <4>4 DEF StructLock
    <3> QED
      BY <1>9, <3>1, <3>2
  <2> QED
    BY <2>1, <2>2, <2>3, <2>4, <2>5
<1>10. ASSUME Works(t, n - 1), NEW u \in Threads, NEW i \in 1 .. Len(stack[u]), u # t \/ i < n,
              Len(stack'[t]) \in Nat
       PROVE  i \in 1 .. Len(stack'[u]) /\ stack'[u][i] = stack[u][i]
  <2>1. CASE u # t
    BY <1>10, <2>1 DEF Works, Kept
  <2>2. CASE u = t /\ i < n
    <3>1. i \in 1 .. n - 1 /\ n - 1 <= Len(stack'[t])
      BY <1>1, <1>10, <2>2 DEF Works, Kept
    <3> QED
      BY <1>1, <1>10, <2>2, <3>1 DEF Works, Kept
  <2> QED
    BY <1>10, <2>1, <2>2
<1>11. CASE f.pc = "move"
  <2>1. w = 1
    BY <1>3, <1>11
  <2>2. PICK g : g = [f EXCEPT !.pc = "move2"]
    OBVIOUS
  <2>3. /\ g \in FrameType /\ g.pc = "move2" /\ g.do = f.do /\ g.obj = f.obj /\ g.new = f.new
        /\ g.todo = f.todo /\ g.then = f.then /\ g.slot = f.slot /\ g.src = f.src
    BY <2>2 DEF FrameType, PCs
  <2>4. With(t, g) /\ locks' = locks
    BY <1>1, <1>11, <2>2 DEF Move
  <2>5. Replaced(t, g)
    BY <1>1, <2>3, <2>4, WithOp DEF IInv
  <2>6. Typed'
    BY <1>4, <1>5, <2>4, <2>5 DEF IInv, Typed, Quiet, SameRefs, SamePlaces, Replaced, Kept
  <2>7. Others(t)
    BY <1>4, <2>4, OthersHeld DEF Quiet, SameRefs, SamePlaces, IInv
  <2>8. Shape(g)
    BY <1>1, <1>2, <2>3 DEF Shape
  <2>9. ClearedAt(g)' /\ LockedAt(t, g)'
    BY <1>2, <2>3 DEF ClearedAt, ClearedIn, LockedAt
  <2>10. StructLockedAt(t, g)'
    BY <1>8, <2>3, <2>4 DEF StructLockedAt, StructLock
  <2>11. stack'[t][n] = g /\ Len(stack'[t]) = n
    BY <1>1, <2>5 DEF Replaced
  <2>12. UserAt(t, n)'
    BY <1>1, <1>2, <1>4, <2>3, <2>5, UserKept DEF Quiet, SameRefs
  <2>13. CallOk(t, n)'
    BY <2>8, <2>9, <2>10, <2>11, <2>12, CallOkNew
  <2>14. CallsOk' /\ Works(t, n - 1)
    BY <1>1, <2>5, <2>6, <2>7, <2>13, CallsReplaced
  <2>15. Deallocs'
    BY <1>2, <1>4, <2>3, <2>5, <2>6, DeallocsReplaced DEF Quiet, IsDealloc
  <2>16. Structs'
    <3>1. n \in 1 .. Len(stack'[t]) /\ Len(stack'[t]) \in Nat
      BY <1>1, <2>11
    <3>2. ASSUME NEW c \in Cells, mem'[c][1] # mem'[c][2]
          PROVE  \E u \in Threads : \E i \in 1 .. Len(stack'[u]) : stack'[u][i].pc = "move2" /\ stack'[u][i].obj = c
      <4>1. CASE c = f.obj
        BY <2>3, <2>11, <3>1, <4>1
      <4>2. CASE c # f.obj
        <5>1. mem[c][1] # mem[c][2]
          BY <1>6, <3>2, <4>2
        <5>2. PICK u \in Threads : \E i \in 1 .. Len(stack[u]) : stack[u][i].pc = "move2" /\ stack[u][i].obj = c
          BY <5>1 DEF IInv, Structs
        <5>3. PICK i \in 1 .. Len(stack[u]) : stack[u][i].pc = "move2" /\ stack[u][i].obj = c
          BY <5>2
        <5>4. u # t \/ i < n
          BY <1>1, <1>11, <5>3
        <5> QED
          BY <1>10, <2>14, <3>1, <5>3, <5>4
      <4> QED
        BY <4>1, <4>2
    <3>3. ASSUME NEW u \in Threads, NEW i \in 1 .. Len(stack'[u]), stack'[u][i].pc = "move2"
          PROVE  mem'[stack'[u][i].obj][1] = mem'[stack'[u][i].src][1]
      <4>1. CASE i \in 1 .. Len(stack[u]) /\ stack'[u][i] = stack[u][i] /\ (u # t \/ i < n)
        BY <1>6, <1>9, <3>3, <4>1
      <4>0. u = t /\ i \in 1 .. n - 1 => i < n
        BY <1>1
      <4>2. CASE u = t /\ i > n - 1
        <5>1. i = n
          BY <1>1, <2>11, <4>2
        <5> QED
          BY <1>2, <1>6, <2>1, <2>3, <2>11, <4>2, <5>1
      <4> QED
        BY <2>6, <2>14, <3>3, <4>0, <4>1, <4>2, Calls DEF IInv
    <3> QED
      BY <3>2, <3>3 DEF Structs
  <2>17. \A o \in Objects : Carries(g, o) <=> Carries(Top(t), o)
    BY <1>1, <2>3 DEF Carries
  <2>18. RefsExact'
    BY <1>1, <1>4, <2>3, <2>5, <2>6, <2>17, RefsReplaced DEF Quiet
  <2> QED
    BY <1>4, <2>6, <2>14, <2>15, <2>16, <2>18, QuietStep, Parts
<1>12. CASE f.pc = "move2"
  <2>1. w = 2
    BY <1>3, <1>12
  <2>2. Pop(t) /\ Unlock(f)
    BY <1>1, <1>12 DEF Move
  <2>3. Popped(t)
    BY <1>1, <2>2, PopOp DEF IInv
  <2>4. Typed'
    <3>1. locks' \in [Locks -> Threads \cup {NoThread}]
      BY <2>2 DEF Unlock, IInv, Typed
    <3> QED
      BY <1>4, <1>5, <2>3, <3>1 DEF IInv, Typed, Quiet, SameRefs, SamePlaces, Popped, Kept
  <2>5. Others(t)
    <3>1. \A l \in Locks : locks'[l] = IF l \in {StructLock(f.obj), StructLock(f.src)} THEN NoThread ELSE locks[l]
      BY <1>2, <2>2 DEF Unlock, LocksOf
    <3>2. \A l \in Locks : \A u \in Threads \ {t} : locks[l] = u => locks'[l] = u
      BY <1>8, <3>1
    <3>3. HelpersHold(t)
      <4>1. ASSUME NEW i \in 1 .. Len(stack[t]), Helping(stack[t][i]), i <= Len(stack'[t])
            PROVE  locks'[StructLock(stack[t][i].obj)] = t /\ locks'[StructLock(stack[t][i].src)] = t
        <5>1. i < n /\ stack[t][i].pc = "move2"
          BY <1>1, <2>3, <4>1 DEF Popped, Helping
        <5>2. StructLock(stack[t][i].obj) \in Locks /\ StructLock(stack[t][i].src) \in Locks
          BY <1>9, <5>1, LockFacts
        <5> QED
          BY <1>9, <3>1, <5>1, <5>2
      <4> QED
        BY <4>1 DEF HelpersHold
    <3> QED
      BY <1>4, <3>2, <3>3, OthersSame DEF Quiet, SameRefs
  <2>6. CallsOk' /\ Works(t, n - 1)
    BY <1>1, <2>3, <2>4, <2>5, CallsPopped
  <2>7. Deallocs'
    BY <1>4, <2>3, <2>4, DeallocsPopped DEF Quiet
  <2>8. Structs'
    <3>1. mem[f.src][1] = mem[f.src][2]
      <4>1. ASSUME NEW u \in Threads, NEW i \in 1 .. Len(stack[u]), stack[u][i].pc = "move2",
                   stack[u][i].obj = f.src
            PROVE  FALSE
        <5>1. CASE u = t /\ i = n
          BY <1>1, <1>2, <4>1, <5>1
        <5>2. CASE u # t \/ i < n
          BY <1>9, <4>1, <5>2
        <5> QED
          BY <1>1, <5>1, <5>2
      <4> QED
        BY <1>2, <4>1 DEF IInv, Structs
    <3>2. mem[f.obj][1] = mem[f.src][1]
      BY <1>1, <1>12 DEF IInv, Structs
    <3>3. mem'[f.obj][1] = mem'[f.obj][2]
      BY <1>6, <2>1, <3>1, <3>2
    <3>4. ASSUME NEW c \in Cells, mem'[c][1] # mem'[c][2]
          PROVE  \E u \in Threads : \E i \in 1 .. Len(stack'[u]) : stack'[u][i].pc = "move2" /\ stack'[u][i].obj = c
      <4>1. c # f.obj
        BY <3>3, <3>4
      <4>2. mem[c][1] # mem[c][2]
        BY <1>6, <3>4, <4>1
      <4>3. PICK u \in Threads : \E i \in 1 .. Len(stack[u]) : stack[u][i].pc = "move2" /\ stack[u][i].obj = c
        BY <4>2 DEF IInv, Structs
      <4>4. PICK i \in 1 .. Len(stack[u]) : stack[u][i].pc = "move2" /\ stack[u][i].obj = c
        BY <4>3
      <4>5. u # t \/ i < n
        BY <1>1, <4>1, <4>4
      <4>6. Len(stack'[t]) \in Nat
        BY <1>1, <2>3 DEF Popped
      <4> QED
        BY <1>10, <2>6, <4>4, <4>5, <4>6
    <3>5. ASSUME NEW u \in Threads, NEW i \in 1 .. Len(stack'[u]), stack'[u][i].pc = "move2"
          PROVE  mem'[stack'[u][i].obj][1] = mem'[stack'[u][i].src][1]
      <4>1. ~(u = t /\ i > n - 1)
        BY <1>1, <2>3 DEF Popped
      <4>0. u = t /\ i \in 1 .. n - 1 => i < n
        BY <1>1
      <4>2. (u # t \/ i < n) /\ stack'[u][i] = stack[u][i] /\ i \in 1 .. Len(stack[u])
        BY <2>4, <2>6, <3>5, <4>0, <4>1, Calls DEF IInv
      <4>3. PICK g : g = stack[u][i] /\ g.pc = "move2"
        BY <3>5, <4>2
      <4>4. /\ g.obj \in Cells \ {f.obj} /\ g.src \in Cells \ {f.obj}
            /\ mem[g.obj][1] = mem[g.src][1]
        BY <1>9, <4>2, <4>3
      <4>5. mem'[g.obj] = mem[g.obj] /\ mem'[g.src] = mem[g.src]
        BY <1>6, <4>4
      <4> QED
        BY <4>2, <4>3, <4>4, <4>5
    <3> QED
      BY <3>4, <3>5 DEF Structs
  <2>9. RefsExact'
    BY <1>1, <1>2, <1>4, <1>7, <2>3, <2>4, RefsPopped DEF Quiet
  <2> QED
    BY <1>4, <2>4, <2>6, <2>7, <2>8, <2>9, QuietStep, Parts
<1> QED
  BY <1>1, <1>11, <1>12

\* A step changes the places S of h, and no others.
OnlyPlaces(h, S) == /\ \A x \in Hosts \ {h} : held'[x] = held[x]
                    /\ \A s \in Slots \ S : held'[h][s] = held[h][s]

\* What the call f carried is then in these places; g carries nothing.
PutIn(f, g, h, S) == \A o \in Objects :
  ~Carries(g, o) /\ Cardinality(Owned(h, S, o)') = IF Carries(f, o) THEN 1 ELSE 0

\* The references in places that become references to release.
LEMMA PlacesDropped ==
  ASSUME IInv, Typed', NEW t \in Threads, NEW n \in Nat, n = Len(stack[t]), NEW g, Replaced(t, g),
         count' = count, own' = own, NEW h \in Hosts, NEW S, S \in SUBSET Slots,
         OnlyPlaces(h, S), Top(t).todo = {}, g.todo = Values(h, S), PutIn(Top(t), g, h, S)
  PROVE  RefsExact'
<1>1. n >= 1 /\ n = Len(stack'[t]) /\ n \in 1 .. Len(stack'[t]) /\ Kept(t, n - 1) /\ stack[t] # <<>>
      /\ g = stack'[t][n]
  BY AtTop DEF Replaced
<1>2. ASSUME NEW o \in Objects PROVE Balanced(t, n, o)
  <2>1. /\ Carried(t, n, o) = (IF Carries(Top(t), o) THEN 1 ELSE 0) /\ Drop(t, n, o) = {}
    <3>1. Drops(Top(t), o) = {}
      BY DEF Drops
    <3> QED
      BY <1>1, <3>1, CarriedBefore
  <2>2. Carried(t, n, o)' = 0 /\ Drop(t, n, o)' = Owned(h, S, o)
    <3>1. Drops(g, o) = Owned(h, S, o)
      BY ValuesOwned DEF Drops, IInv
    <3> QED
      BY <1>1, <3>1, CarriedAfter DEF PutIn
  <2>3. /\ Cardinality(InPlaces(o)') + Cardinality(Owned(h, S, o))
             = Cardinality(InPlaces(o)) + Cardinality(Owned(h, S, o)')
        /\ Cardinality(Owned(h, S, o)) \in Nat
    BY PlacesStep DEF IInv, OnlyPlaces
  <2>4. OfClients(o)' = OfClients(o) /\ count'[o] = count[o]
    BY DEF OfClients
  <2>5. Cardinality(OfClients(o)) \in Nat /\ count[o] \in Nat
    BY OfClientsRefs DEF IInv, Typed
  <2>6. Cardinality(InPlaces(o)) \in Nat /\ Cardinality(InPlaces(o)') \in Nat
    <3>1. Countable
      BY TypedCountable DEF IInv
    <3>2. Countable'
      BY TypedCountable, PTL
    <3> QED
      BY <3>1, <3>2 DEF Countable
  <2>7. Cardinality({}) = 0
    BY FS_EmptySet
  <2>8. PICK k \in {0, 1} : k = Cardinality(Owned(h, S, o)') /\ k = Carried(t, n, o)
    BY <2>1 DEF PutIn
  <2>9. PICK c \in Nat, r \in Nat, p0 \in Nat, p1 \in Nat, d \in Nat :
          /\ c = count[o] /\ r = Cardinality(OfClients(o)) /\ d = Cardinality(Owned(h, S, o))
          /\ p0 = Cardinality(InPlaces(o)) /\ p1 = Cardinality(InPlaces(o)')
    BY <2>3, <2>5, <2>6
  <2>10. p1 + d = p0 + k
    BY <2>3, <2>8, <2>9
  <2>11. c + r + p0 + k + 0 = c + r + p1 + 0 + d
    BY ONLY <2>10, c \in Nat, r \in Nat, p0 \in Nat, p1 \in Nat, d \in Nat, k \in {0, 1}
  <2>12. /\ count'[o] = c /\ Cardinality(OfClients(o)') = r /\ Cardinality(Drop(t, n, o)) = 0
         /\ Cardinality(Drop(t, n, o)') = d
    BY <2>1, <2>2, <2>4, <2>7, <2>9
  <2> QED
    BY <2>2, <2>8, <2>9, <2>11, <2>12 DEF Balanced
<1>3. /\ n >= Len(stack[t])
      /\ \A i \in 1 .. Len(stack'[t]) : i > n => stack'[t][i].do # "swap" /\ stack'[t][i].todo = {}
  BY <1>1
<1> QED
  BY <1>1, <1>2, <1>3, RefsExactStep

\* Emptied places own nothing.
LEMMA NoneOwned ==
  ASSUME NEW h \in Hosts, NEW S, \A s \in S : held'[h][s] = None, NEW o \in Objects
  PROVE  Cardinality(Owned(h, S, o)') = 0
<1>1. Owned(h, S, o)' = {}
  BY EntryFacts, StoredValuesAssumption DEF Owned
<1> QED
  BY <1>1, FS_EmptySet

LEMMA SwapStep ==
  ASSUME IInv, NEW t \in Threads, Swap(t)
  PROVE  IInv'
<1>1. PICK n \in Nat, f \in FrameType :
        /\ n = Len(stack[t]) /\ n >= 1 /\ f = Top(t) /\ f = stack[t][n] /\ f.pc = "swap"
        /\ Shape(f) /\ LockedAt(t, f) /\ stack[t] # <<>> /\ n \in 1 .. Len(stack[t])
  BY AtTop DEF Swap, At
<1>2. /\ f.do = "swap" /\ f.obj \in Hosts /\ f.slot \in Slots /\ f.todo = {} /\ f.then = "return"
      /\ f.new \in Entries(f.slot) /\ f.obj \in Objects
  BY <1>1 DEF Shape, FrameType
<1>3. PICK h \in Hosts, s \in Slots : h = f.obj /\ s = f.slot
  BY <1>2
<1>4. PICK S : S = {s} /\ S \in SUBSET Slots
  OBVIOUS
<1>5. PICK g : g = [f EXCEPT !.pc = "release", !.new = None, !.todo = Values(h, S)]
  OBVIOUS
<1>6. /\ g \in FrameType /\ g.pc = "release" /\ g.do = f.do /\ g.obj = f.obj /\ g.new = None
      /\ g.todo = Values(h, S) /\ g.then = f.then /\ g.slot = f.slot
  <2>1. Values(h, S) \in SUBSET (Slots \X Objects)
    BY <1>4, ValuesOwned DEF IInv
  <2> QED
    BY <1>5, <2>1, EntryFacts DEF FrameType, PCs
<1>7. /\ held' = [held EXCEPT ![h][s] = f.new]
      /\ IF s \in Keys /\ f.new.value # Nil /\ h \notin tables THEN NewTable(t, h)
         ELSE tables' = tables /\ has_assoc' = has_assoc /\ late' = late
      /\ With(t, g) /\ Unlock(f)
      /\ count' = count /\ life' = life /\ own' = own /\ mem' = mem
  BY <1>1, <1>3, <1>4, <1>5 DEF Swap, counts
<1>maps. /\ tables' \subseteq tables \cup {h} /\ has_assoc' \subseteq has_assoc \cup {h}
         /\ late' \subseteq late \cup {h} /\ late \subseteq late'
         /\ \A x \in Hosts \ {h} : /\ x \in tables' <=> x \in tables
                                   /\ x \in has_assoc' <=> x \in has_assoc
                                   /\ x \in late' <=> x \in late
         /\ h \in has_assoc => h \in has_assoc'
         /\ h \in tables => h \in tables'
         /\ h \notin tables' => s \notin Keys \/ f.new.value = Nil
         /\ h \in tables' /\ h \notin tables => h \in has_assoc'
  BY <1>7 DEF NewTable, setHasAssociatedObjects
<1>late. ASSUME \/ h \in tables' /\ h \notin tables
                \/ h \in has_assoc' /\ h \notin has_assoc,
                NEW i \in 1 .. Len(stack[t]), IsDealloc(stack[t][i]), stack[t][i].obj = h,
                \/ stack[t][i].pc # "-dealloc" /\ h \notin has_assoc
                \/ stack[t][i].pc = "release" /\ stack[t][i].then = "free"
         PROVE  h \in late'
  <2>1. NewTable(t, h)
    BY <1>7, <1>late
  <2>2. i \in Deallocates(t, h)
    <3>1. DOMAIN stack[t] = 1 .. Len(stack[t])
      BY TopFrame DEF IInv
    <3> QED
      BY <1>late, <3>1 DEF Deallocates
  <2> QED
    BY <1>late, <2>1, <2>2 DEF NewTable
<1>8. Replaced(t, g)
  BY <1>1, <1>6, <1>7, WithOp DEF IInv
<1>9. /\ \A x \in Hosts \ {h} : held'[x] = held[x]
      /\ \A x \in Slots \ S : held'[h][x] = held[h][x]
      /\ held'[h][s] = f.new
  BY <1>4, <1>7 DEF IInv, Typed
<1>10. Typed'
  <2>1. f.new \in Entry
    BY <1>2, EntryFacts
  <2>2. held' \in [Hosts -> [Slots -> Entry]]
    BY <1>7, <2>1 DEF IInv, Typed
  <2>3. \A x \in Hosts, y \in Slots : held'[x][y] \in Entries(y)
    BY <1>2, <1>3, <1>4, <1>9 DEF IInv, Typed
  <2>4. has_assoc' \subseteq Hosts /\ tables' \subseteq Hosts /\ late' \subseteq Hosts
    BY <1>maps DEF IInv, Typed
  <2>5. locks' \in [Locks -> Threads \cup {NoThread}]
    BY <1>1, <1>7, UnlockOp DEF IInv
  <2> QED
    BY <1>7, <1>8, <2>2, <2>3, <2>4, <2>5 DEF IInv, Typed, Replaced, Kept
<1>11. /\ life[h] \in {"live", "deallocating"}
       /\ \A u \in Threads : \A j \in 1 .. Len(stack[u]) :
            IsDealloc(stack[u][j]) /\ stack[u][j].obj = h =>
              u = t /\ j < n /\ (s \in Properties => Intact(stack[u][j]))
  <2>1. ~IsDealloc(f)
    BY <1>1, <1>2 DEF IsDealloc
  <2> QED
    BY <1>1, <1>2, <1>3, <2>1, WorkedOn
<1>12. Others(t)
  <2>1. ASSUME NEW u \in Threads \ {t}, NEW i \in 1 .. Len(stack[u]), stack[u][i].pc = "retain"
        PROVE  held'[stack[u][i].obj][stack[u][i].slot] = held[stack[u][i].obj][stack[u][i].slot]
    <3>1. PICK x \in FrameType : x = stack[u][i] /\ Shape(x) /\ LockedAt(u, x)
      BY TopFrame DEF IInv, Shapes, Locked
    <3>2. x.obj \in Hosts /\ x.slot \in Slots /\ x.new = held[x.obj][x.slot] /\ x.new.atomic
      BY <2>1, <3>1 DEF Shape, LockedAt, FrameType
    <3>3. x.slot # "nonatomic"
      <4>1. x.new \in Entries(x.slot)
        BY <3>2 DEF IInv, Typed
      <4> QED
        BY <3>2, <4>1, EntryFacts
    <3>4. locks[LockOf(x.slot)] = u
      BY <2>1, <3>1, <3>3 DEF LockedAt
    <3>5. s # "nonatomic" => locks[LockOf(s)] = t
      BY <1>1, <1>3 DEF LockedAt
    <3>6. x.slot # s
      BY <3>3, <3>4, <3>5
    <3> QED
      BY <1>4, <1>9, <3>1, <3>2, <3>6
  <2>2. ASSUME NEW u \in Threads, NEW i \in 1 .. Len(stack[u])
        PROVE  ClearedIn(stack[u][i], held', tables', has_assoc', late')
    <3>1. PICK x : x = stack[u][i] /\ Shape(x) /\ ClearedIn(x, held, tables, has_assoc, late)
      BY DEF IInv, Shapes, Cleared, ClearedAt
    <3>2. CASE x.then = "return" \/ x.obj \notin Hosts
      BY <3>1, <3>2 DEF ClearedIn
    <3>3. CASE x.obj \in Hosts \ {h}
      BY <1>9, <1>maps, <3>1, <3>3 DEF ClearedIn
    <3>4. CASE x.then # "return" /\ x.obj = h
      <4>1. IsDealloc(x) /\ u = t /\ i < n /\ (s \in Properties => Intact(x))
        BY <1>11, <3>1, <3>4 DEF IsDealloc
      <4>2. x.pc # "-dealloc" /\ x.do = "remove"
        BY <3>1, <3>4 DEF Shape
      <4>3. x.pc \in {"release", "cxx"}
        <5>1. Waits(x)
          BY <1>1, <3>1, <4>1 DEF IInv, Shapes
        <5> QED
          BY <3>1, <4>2, <5>1 DEF Waits, Helping, Shape
      <4>4. x.pc # "cxx" => \A p \in Properties : held'[h][p] = None
        <5>1. x.pc # "cxx" => s \notin Properties
          BY <4>1, <4>2 DEF Intact
        <5>2. x.pc # "cxx" => \A p \in Properties : held[h][p] = None
          BY <3>1, <3>4 DEF ClearedIn
        <5> QED
          BY <1>4, <1>9, <5>1, <5>2, SlotFacts
      <4>5. x.then = "free" /\ h \in tables => h \in late'
        BY <1>maps, <3>1, <3>4, <4>3 DEF ClearedIn
      <4>6. x.then = "free" /\ x.pc = "cxx" /\ h \in has_assoc => h \in late'
        BY <1>maps, <3>1, <3>4 DEF ClearedIn
      <4>7. x.then = "free" /\ h \in tables' /\ h \notin tables => h \in late'
        BY <1>late, <3>1, <3>4, <4>1, <4>2, <4>3, <4>6
      <4>8. x.then = "free" /\ x.pc = "cxx" /\ h \in has_assoc' /\ h \notin has_assoc => h \in late'
        BY <1>late, <3>1, <3>4, <4>1, <4>2
      <4> QED
        BY <3>1, <3>4, <4>4, <4>5, <4>6, <4>7, <4>8 DEF ClearedIn
    <3> QED
      BY <3>2, <3>3, <3>4
  <2>3. /\ \A l \in Locks : \A u \in Threads \ {t} : locks[l] = u => locks'[l] = u
        /\ \A c \in Cells : locks'[StructLock(c)] = locks[StructLock(c)]
    BY <1>1, <1>7, UnlockOp DEF IInv
  <2>4. HelpersHold(t)
    BY <2>3, HelpersKeep DEF IInv
  <2> QED
    BY <1>7, <2>1, <2>2, <2>3, <2>4 DEF Others
<1>13. Shape(g)
  BY <1>1, <1>2, <1>6, EntryFacts DEF Shape
<1>14. ClearedAt(g)'
  BY <1>2, <1>6 DEF ClearedAt, ClearedIn
<1>15. stack'[t][n] = g /\ Len(stack'[t]) = n
  BY <1>1, <1>8 DEF Replaced
<1>16. CallOk(t, n)'
  BY <1>6, <1>13, <1>14, <1>15, CallOkNew, Idle
<1>17. CallsOk' /\ Works(t, n - 1)
  BY <1>1, <1>8, <1>10, <1>12, <1>16, CallsReplaced
<1>18. Deallocs'
  BY <1>1, <1>2, <1>6, <1>7, <1>8, <1>10, DeallocsReplaced DEF IsDealloc
<1>19. Structs'
  BY <1>1, <1>6, <1>7, <1>8, <1>10, <1>17, StructsReplaced
<1>20. AssocBit'
  <2>1. ASSUME NEW x \in Hosts, x \notin tables', NEW k \in Keys PROVE held'[x][k] = None
    <3>1. k \in Slots /\ held[x][k] = None
      BY <1>maps, <2>1, SlotFacts DEF IInv, AssocBit
    <3>2. CASE x = h /\ k = s
      <4>1. f.new.value = Nil
        BY <1>maps, <2>1, <3>2
      <4>2. f.new = None
        BY <1>2, <4>1, EntryFacts
      <4> QED
        BY <1>9, <3>2, <4>2
    <3>3. CASE ~(x = h /\ k = s)
      BY <1>4, <1>9, <3>1, <3>3
    <3> QED
      BY <3>2, <3>3
  <2>2. ASSUME NEW x \in Hosts, x \in tables', x \notin late' PROVE x \in has_assoc'
    BY <1>maps, <2>2 DEF IInv, AssocBit
  <2> QED
    BY <2>1, <2>2 DEF AssocBit
<1>21. NothingLeftBehind'
  <2>1. ASSUME NEW x \in Hosts, life'[x] = "free", NEW y \in Slots
        PROVE  held'[x][y] = None \/ (y \in Keys /\ x \in late')
    BY <1>7, <1>9, <1>11, <1>maps, <2>1 DEF IInv, NothingLeftBehind
  <2> QED
    BY <2>1 DEF NothingLeftBehind
<1>22. Alive'
  BY <1>7 DEF IInv, Alive
<1>23. RefsExact'
  <2>1. ASSUME NEW o \in Objects
        PROVE  /\ ~Carries(g, o)
               /\ Cardinality(Owned(h, S, o)') = IF Carries(Top(t), o) THEN 1 ELSE 0
    <3>1. ~Carries(g, o)
      BY <1>6, EntryFacts, StoredValuesAssumption DEF Carries
    <3>2. Owned(h, S, o)' = IF Carries(f, o) THEN {s} ELSE {}
      BY <1>2, <1>4, <1>9 DEF Owned, Carries
    <3>3. Cardinality({s}) = 1 /\ Cardinality({}) = 0
      BY FS_Singleton, FS_EmptySet
    <3> QED
      BY <1>1, <3>1, <3>2, <3>3
  <2>2. Top(t).todo = {} /\ PutIn(Top(t), g, h, S) /\ OnlyPlaces(h, S)
    BY <1>1, <1>2, <1>9, <2>1 DEF PutIn, OnlyPlaces
  <2> QED
    BY <1>1, <1>4, <1>6, <1>7, <1>8, <1>10, <2>2, PlacesDropped
<1> QED
  BY <1>10, <1>17, <1>18, <1>19, <1>20, <1>21, <1>22, <1>23, Parts

\* Places emptied and maps removed disturb no deallocation.
LEMMA ClearedLess ==
  ASSUME Cleared, \A x \in Hosts, y \in Slots : held'[x][y] = held[x][y] \/ held'[x][y] = None,
         tables' \subseteq tables, has_assoc' = has_assoc, late' = late
  PROVE  \A u \in Threads : \A i \in 1 .. Len(stack[u]) :
           ClearedIn(stack[u][i], held', tables', has_assoc', late')
<1> SUFFICES ASSUME NEW u \in Threads, NEW i \in 1 .. Len(stack[u])
             PROVE  ClearedIn(stack[u][i], held', tables', has_assoc', late')
  OBVIOUS
<1>1. PICK x : x = stack[u][i] /\ ClearedIn(x, held, tables, has_assoc, late)
  BY DEF Cleared, ClearedAt
<1>2. x.obj \in Hosts => \A s \in Properties : held[x.obj][s] = None => held'[x.obj][s] = None
  BY SlotFacts
<1> QED
  BY <1>1, <1>2 DEF ClearedIn

LEMMA RemoveStep ==
  ASSUME IInv, NEW t \in Threads, object_remove_associations(t)
  PROVE  IInv'
<1>1. PICK n \in Nat, f \in FrameType :
        /\ n = Len(stack[t]) /\ n >= 1 /\ f = Top(t) /\ f = stack[t][n] /\ f.pc = "remove"
        /\ Shape(f) /\ ClearedAt(f) /\ LockedAt(t, f) /\ stack[t] # <<>> /\ n \in 1 .. Len(stack[t])
  BY AtTop DEF object_remove_associations, At
<1>2. /\ f.do = "remove" /\ f.obj \in Hosts /\ f.todo = {} /\ f.then # "assoc" /\ f.obj \in Objects
  BY <1>1 DEF Shape, FrameType
<1>3. PICK h \in Hosts : h = f.obj
  BY <1>2
<1>4. PICK g : g = [f EXCEPT !.pc = "release", !.todo = Values(h, Keys)]
  OBVIOUS
<1>5. Keys \in SUBSET Slots
  BY SlotFacts
<1>6. /\ g \in FrameType /\ g.pc = "release" /\ g.do = f.do /\ g.obj = f.obj /\ g.new = f.new
      /\ g.todo = Values(h, Keys) /\ g.then = f.then /\ g.slot = f.slot
  <2>1. Values(h, Keys) \in SUBSET (Slots \X Objects)
    BY <1>5, ValuesOwned DEF IInv
  <2> QED
    BY <1>4, <2>1 DEF FrameType, PCs
<1>7. /\ held' = [held EXCEPT ![h] = [s \in Slots |-> IF s \in Keys THEN None ELSE @[s]]]
      /\ tables' = tables \ {h} /\ has_assoc' = has_assoc /\ late' = late /\ With(t, g) /\ Unlock(f)
      /\ count' = count /\ life' = life /\ own' = own /\ mem' = mem
  BY <1>1, <1>3, <1>4 DEF object_remove_associations, counts
<1>8. Replaced(t, g)
  BY <1>1, <1>6, <1>7, WithOp DEF IInv
<1>9. /\ \A x \in Hosts \ {h} : held'[x] = held[x]
      /\ \A x \in Slots \ Keys : held'[h][x] = held[h][x]
      /\ \A k \in Keys : held'[h][k] = None
  BY <1>5, <1>7 DEF IInv, Typed
<1>10. \A x \in Hosts, y \in Slots : held'[x][y] = held[x][y] \/ held'[x][y] = None
  BY <1>9
<1>11. Typed'
  <2>1. held' \in [Hosts -> [Slots -> Entry]]
    BY <1>7, EntryFacts DEF IInv, Typed
  <2>2. \A x \in Hosts, y \in Slots : held'[x][y] \in Entries(y)
    BY <1>10, EntryFacts DEF IInv, Typed
  <2>3. locks' \in [Locks -> Threads \cup {NoThread}]
    BY <1>1, <1>7, UnlockOp DEF IInv
  <2> QED
    BY <1>7, <1>8, <2>1, <2>2, <2>3 DEF IInv, Typed, Replaced, Kept
<1>12. Others(t)
  <2>1. ASSUME NEW u \in Threads \ {t}, NEW i \in 1 .. Len(stack[u]), stack[u][i].pc = "retain"
        PROVE  held'[stack[u][i].obj][stack[u][i].slot] = held[stack[u][i].obj][stack[u][i].slot]
    <3>1. PICK x \in FrameType : x = stack[u][i] /\ Shape(x) /\ LockedAt(u, x)
      BY TopFrame DEF IInv, Shapes, Locked
    <3>2. x.obj \in Hosts /\ x.slot \in Slots
      BY <2>1, <3>1 DEF Shape, FrameType
    <3>3. x.slot \in Keys => locks[AssociationsManagerLock] = u
      BY <2>1, <3>1, SlotFacts DEF LockedAt, LockOf
    <3>4. locks[AssociationsManagerLock] = t
      BY <1>1 DEF LockedAt
    <3>5. x.slot \notin Keys
      BY <3>3, <3>4
    <3> QED
      BY <1>9, <3>1, <3>2, <3>5
  <2>2. \A u \in Threads : \A i \in 1 .. Len(stack[u]) :
          ClearedIn(stack[u][i], held', tables', has_assoc', late')
    BY <1>7, <1>10, ClearedLess DEF IInv
  <2>3. /\ \A l \in Locks : \A u \in Threads \ {t} : locks[l] = u => locks'[l] = u
        /\ \A c \in Cells : locks'[StructLock(c)] = locks[StructLock(c)]
    BY <1>1, <1>7, UnlockOp DEF IInv
  <2>4. HelpersHold(t)
    BY <2>3, HelpersKeep DEF IInv
  <2> QED
    BY <1>7, <2>1, <2>2, <2>3, <2>4 DEF Others
<1>13. Shape(g)
  BY <1>1, <1>2, <1>6 DEF Shape
<1>14. ClearedAt(g)'
  <2>1. f.then # "return" => \A s \in Properties : held[h][s] = None
    BY <1>1, <1>3 DEF ClearedAt, ClearedIn
  <2>2. f.then # "return" => \A s \in Properties : held'[h][s] = None
    BY <1>10, <2>1, SlotFacts
  <2> QED
    BY <1>3, <1>6, <1>7, <2>2 DEF ClearedAt, ClearedIn
<1>15. stack'[t][n] = g /\ Len(stack'[t]) = n
  BY <1>1, <1>8 DEF Replaced
<1>16. CallOk(t, n)'
  BY <1>6, <1>13, <1>14, <1>15, CallOkNew, Idle
<1>17. CallsOk' /\ Works(t, n - 1)
  BY <1>1, <1>8, <1>11, <1>12, <1>16, CallsReplaced
<1>18. Deallocs'
  BY <1>1, <1>6, <1>7, <1>8, <1>11, DeallocsReplaced DEF IsDealloc
<1>19. Structs'
  BY <1>1, <1>6, <1>7, <1>8, <1>11, <1>17, StructsReplaced
<1>20. AssocBit' /\ NothingLeftBehind' /\ Alive'
  <2>1. AssocBit'
    <3>1. ASSUME NEW o \in Hosts, o \notin tables', NEW k \in Keys PROVE held'[o][k] = None
      <4>1. CASE o = h
        BY <1>9, <4>1
      <4>2. CASE o # h
        BY <1>7, <1>9, <3>1, <4>2 DEF IInv, AssocBit
      <4> QED
        BY <4>1, <4>2
    <3>2. ASSUME NEW o \in Hosts, o \in tables', o \notin late' PROVE o \in has_assoc'
      BY <1>7, <3>2 DEF IInv, AssocBit
    <3> QED
      BY <3>1, <3>2 DEF AssocBit
  <2> QED
    BY <1>7, <1>10, <2>1 DEF IInv, NothingLeftBehind, Alive
<1>21. RefsExact'
  <2>1. ASSUME NEW o \in Objects
        PROVE  ~Carries(g, o) /\ Cardinality(Owned(h, Keys, o)') = IF Carries(f, o) THEN 1 ELSE 0
    <3>1. ~Carries(g, o) /\ ~Carries(f, o)
      BY <1>2, <1>6 DEF Carries
    <3>2. Cardinality(Owned(h, Keys, o)') = 0
      BY <1>9, NoneOwned
    <3> QED
      BY <3>1, <3>2
  <2>2. Top(t).todo = {} /\ PutIn(Top(t), g, h, Keys) /\ OnlyPlaces(h, Keys)
    BY <1>1, <1>2, <1>9, <2>1 DEF PutIn, OnlyPlaces
  <2> QED
    BY <1>1, <1>5, <1>6, <1>7, <1>8, <1>11, <2>2, PlacesDropped
<1> QED
  BY <1>11, <1>17, <1>18, <1>19, <1>20, <1>21, Parts

LEMMA DestructStep ==
  ASSUME IInv, NEW t \in Threads, objc_destructInstance(t)
  PROVE  IInv'
<1>1. PICK n \in Nat, f \in FrameType :
        /\ n = Len(stack[t]) /\ n >= 1 /\ f = Top(t) /\ f = stack[t][n] /\ f.pc = "-dealloc"
        /\ Shape(f) /\ stack[t] # <<>>
  BY AtTop DEF objc_destructInstance, At
<1>2. Quiet /\ mem' = mem /\ locks' = locks
  BY DEF objc_destructInstance, counts, places, Quiet, SameRefs, SamePlaces
<1>3. Others(t)
  BY <1>2, OthersHeld DEF Quiet, SameRefs, SamePlaces, IInv
<1>4. f.do = "remove" /\ f.obj \in Objects /\ f.todo = {} /\ IsDealloc(f)
  BY <1>1 DEF Shape, IsDealloc
<1>5. PICK then \in {"assoc", "free"} : then = IF f.obj \in has_assoc THEN "assoc" ELSE "free"
  OBVIOUS
<1>6. PICK g : g = [f EXCEPT !.pc = "cxx", !.then = then]
  OBVIOUS
<1>7. /\ g \in FrameType /\ g.pc = "cxx" /\ g.do = f.do /\ g.obj = f.obj /\ g.new = f.new
      /\ g.todo = f.todo /\ g.then = then /\ g.slot = f.slot
  BY <1>5, <1>6 DEF FrameType, PCs
<1>8. Replaced(t, g)
  BY <1>1, <1>5, <1>6, <1>7, WithOp DEF objc_destructInstance, IInv
<1>9. Typed'
  BY <1>2, <1>8 DEF IInv, Typed, Quiet, SameRefs, SamePlaces, Replaced, Kept
<1>10. Shape(g)
  <2>1. then = "assoc" => f.obj \in Hosts
    BY <1>5 DEF IInv, Typed
  <2> QED
    BY <1>1, <1>4, <1>5, <1>7, <2>1 DEF Shape
<1>11. ClearedAt(g)'
  <2>1. then = "free" /\ f.obj \in Hosts => f.obj \notin has_assoc /\ (f.obj \in tables => f.obj \in late)
    BY <1>5 DEF IInv, AssocBit
  <2> QED
    BY <1>2, <1>7, <2>1 DEF Quiet, SamePlaces, ClearedAt, ClearedIn
<1>12. stack'[t][n] = g /\ Len(stack'[t]) = n
  BY <1>1, <1>8 DEF Replaced
<1>13. CallOk(t, n)'
  BY <1>7, <1>10, <1>11, <1>12, CallOkNew, Idle
<1>14. CallsOk' /\ Works(t, n - 1)
  BY <1>1, <1>3, <1>8, <1>9, <1>13, CallsReplaced
<1>15. Deallocs'
  BY <1>1, <1>2, <1>4, <1>7, <1>8, <1>9, DeallocsReplaced DEF Quiet
<1>16. Structs'
  BY <1>1, <1>2, <1>7, <1>8, <1>9, <1>14, StructsReplaced
<1>17. \A o \in Objects : Carries(g, o) <=> Carries(Top(t), o)
  BY <1>1, <1>7 DEF Carries
<1>18. RefsExact'
  BY <1>1, <1>2, <1>7, <1>8, <1>9, <1>17, RefsReplaced DEF Quiet
<1> QED
  BY <1>2, <1>9, <1>14, <1>15, <1>16, <1>18, QuietStep, Parts

LEMMA CxxDestructStep ==
  ASSUME IInv, NEW t \in Threads, object_cxxDestruct(t)
  PROVE  IInv'
<1>1. PICK n \in Nat, f \in FrameType :
        /\ n = Len(stack[t]) /\ n >= 1 /\ f = Top(t) /\ f = stack[t][n] /\ f.pc = "cxx"
        /\ Shape(f) /\ ClearedAt(f) /\ stack[t] # <<>> /\ n \in 1 .. Len(stack[t])
  BY AtTop DEF object_cxxDestruct, At
<1>2. f.do = "remove" /\ f.todo = {} /\ f.then # "return" /\ f.obj \in Objects /\ IsDealloc(f)
  BY <1>1 DEF Shape, IsDealloc
<1>3. PICK todo : todo = IF f.obj \in Hosts THEN Values(f.obj, Properties) ELSE {}
  OBVIOUS
<1>5. PICK g : g = [f EXCEPT !.pc = "release", !.todo = todo]
  OBVIOUS
<1>6. Properties \in SUBSET Slots
  BY SlotFacts
<1>7. /\ g \in FrameType /\ g.pc = "release" /\ g.do = f.do /\ g.obj = f.obj /\ g.new = f.new
      /\ g.todo = todo /\ g.then = f.then /\ g.slot = f.slot
  <2>1. todo \in SUBSET (Slots \X Objects)
    BY <1>3, <1>6, ValuesOwned DEF IInv
  <2> QED
    BY <1>5, <2>1 DEF FrameType, PCs
<1>8. /\ held' = IF f.obj \in Hosts THEN [held EXCEPT ![f.obj] = [s \in Slots |->
                               IF s \in Properties THEN None ELSE @[s]]] ELSE held
      /\ tables' = tables /\ has_assoc' = has_assoc /\ late' = late /\ With(t, g) /\ locks' = locks
      /\ count' = count /\ life' = life /\ own' = own /\ mem' = mem
  BY <1>1, <1>3, <1>5 DEF object_cxxDestruct, counts
<1>9. Replaced(t, g)
  BY <1>1, <1>7, <1>8, WithOp DEF IInv
<1>10. /\ \A x \in Hosts \ {f.obj} : held'[x] = held[x]
       /\ f.obj \in Hosts => /\ \A x \in Slots \ Properties : held'[f.obj][x] = held[f.obj][x]
                             /\ \A s \in Properties : held'[f.obj][s] = None
  BY <1>6, <1>8 DEF IInv, Typed
<1>11. \A x \in Hosts, y \in Slots : held'[x][y] = held[x][y] \/ held'[x][y] = None
  BY <1>10
<1>12. Typed'
  <2>1. held' \in [Hosts -> [Slots -> Entry]]
    BY <1>8, EntryFacts DEF IInv, Typed
  <2>2. \A x \in Hosts, y \in Slots : held'[x][y] \in Entries(y)
    BY <1>11, EntryFacts DEF IInv, Typed
  <2> QED
    BY <1>8, <1>9, <2>1, <2>2 DEF IInv, Typed, Replaced, Kept
<1>13. Others(t)
  <2>1. ASSUME NEW u \in Threads \ {t}, NEW i \in 1 .. Len(stack[u]), stack[u][i].pc = "retain"
        PROVE  held'[stack[u][i].obj][stack[u][i].slot] = held[stack[u][i].obj][stack[u][i].slot]
    <3>1. PICK x \in FrameType : x = stack[u][i] /\ Shape(x)
      BY TopFrame DEF IInv, Shapes
    <3>2. x.do = "read" /\ x.then = "return"
      BY <2>1, <3>1 DEF Shape, FrameType
    <3>3. /\ x.obj \in Hosts
          /\ \A w \in Threads : \A j \in 1 .. Len(stack[w]) :
               IsDealloc(stack[w][j]) /\ stack[w][j].obj = x.obj => w = u
      BY <2>1, <3>1, <3>2, WorkedOn DEF IsDealloc
    <3>4. x.obj # f.obj
      BY <1>1, <1>2, <3>3
    <3> QED
      BY <1>10, <3>1, <3>3, <3>4
  <2>2. \A u \in Threads : \A i \in 1 .. Len(stack[u]) :
          ClearedIn(stack[u][i], held', tables', has_assoc', late')
    BY <1>8, <1>11, ClearedLess DEF IInv
  <2>3. HelpersHold(t)
    BY <1>8, HelpersKeep DEF IInv
  <2> QED
    BY <1>8, <2>1, <2>2, <2>3 DEF Others
<1>14. Shape(g)
  BY <1>1, <1>2, <1>7 DEF Shape
<1>15. ClearedAt(g)'
  BY <1>1, <1>7, <1>8, <1>10 DEF ClearedAt, ClearedIn
<1>16. stack'[t][n] = g /\ Len(stack'[t]) = n
  BY <1>1, <1>9 DEF Replaced
<1>17. CallOk(t, n)'
  BY <1>7, <1>14, <1>15, <1>16, CallOkNew, Idle
<1>18. CallsOk' /\ Works(t, n - 1)
  BY <1>1, <1>9, <1>12, <1>13, <1>17, CallsReplaced
<1>19. Deallocs'
  BY <1>1, <1>2, <1>7, <1>8, <1>9, <1>12, DeallocsReplaced
<1>20. Structs'
  BY <1>1, <1>7, <1>8, <1>9, <1>12, <1>18, StructsReplaced
<1>21. AssocBit' /\ NothingLeftBehind' /\ Alive'
  BY <1>8, <1>11, SlotFacts DEF IInv, AssocBit, NothingLeftBehind, Alive
<1>22. RefsExact'
  <2>1. CASE f.obj \in Hosts
    <3>1. PICK h \in Hosts : h = f.obj
      BY <2>1
    <3>2. ASSUME NEW o \in Objects
          PROVE  ~Carries(g, o) /\ Cardinality(Owned(h, Properties, o)') = IF Carries(f, o) THEN 1 ELSE 0
      <4>1. ~Carries(g, o) /\ ~Carries(f, o)
        BY <1>2, <1>7 DEF Carries
      <4>2. Cardinality(Owned(h, Properties, o)') = 0
        BY <1>10, <3>1, NoneOwned
      <4> QED
        BY <4>1, <4>2
    <3>3. Top(t).todo = {} /\ PutIn(Top(t), g, h, Properties) /\ OnlyPlaces(h, Properties)
      BY <1>1, <1>2, <1>10, <3>1, <3>2 DEF PutIn, OnlyPlaces
    <3>4. g.todo = Values(h, Properties)
      BY <1>3, <1>7, <3>1
    <3> QED
      BY <1>1, <1>6, <1>7, <1>8, <1>9, <1>12, <3>3, <3>4, PlacesDropped
  <2>2. CASE f.obj \notin Hosts
    <3>1. \A o \in Objects : Carries(g, o) <=> Carries(Top(t), o)
      BY <1>1, <1>7 DEF Carries
    <3>2. SameRefs /\ g.todo = Top(t).todo
      BY <1>1, <1>2, <1>3, <1>7, <1>8, <2>2 DEF SameRefs
    <3> QED
      BY <1>9, <1>12, <3>1, <3>2, RefsReplaced
  <2> QED
    BY <2>1, <2>2
<1> QED
  BY <1>12, <1>18, <1>19, <1>20, <1>21, <1>22, Parts

\* A reference that is released.
LEMMA DropOne ==
  ASSUME IInv, NEW t \in Threads, NEW f \in FrameType, NEW g, NEW e \in f.todo, NEW v \in Objects, v = e[2],
         g.todo = f.todo \ {e}
  PROVE  /\ Cardinality(Drops(g, v)) + 1 = Cardinality(Drops(f, v))
         /\ Cardinality(Drops(f, v)) \in Nat /\ Cardinality(Drops(g, v)) \in Nat
         /\ \A o \in Objects \ {v} : Drops(g, o) = Drops(f, o)
<1>1. PICK s \in Slots : e = <<s, v>>
  <2>1. e \in Slots \X Objects
    BY DEF FrameType
  <2> QED
    BY <2>1
<1>2. \A o \in Objects \ {v} : Drops(g, o) = Drops(f, o)
  BY <1>1 DEF Drops
<1>3. PICK D : D = Drops(f, v)
  OBVIOUS
<1>4. s \in D /\ Drops(g, v) = D \ {s}
  BY <1>1, <1>3 DEF Drops
<1>5. D \in SUBSET Slots
  BY <1>3 DEF Drops
<1>6. IsFiniteSet(D)
  BY <1>5, SlotsFinite, FS_Subset
<1>7. Cardinality(D) \in Nat
  BY <1>6, FS_CardinalityType
<1>8. IsFiniteSet(D \ {s}) /\ Cardinality(D \ {s}) = Cardinality(D) - 1
  BY <1>4, <1>6, FS_RemoveElement
<1>9. Cardinality(D \ {s}) \in Nat
  BY <1>8, FS_CardinalityType
<1> QED
  BY <1>2, <1>3, <1>4, <1>7, <1>8, <1>9

LEMMA ReleaseNextStep ==
  ASSUME IInv, NEW t \in Threads, ReleaseNext(t)
  PROVE  IInv'
<1>1. PICK n \in Nat, f \in FrameType :
        /\ n = Len(stack[t]) /\ n >= 1 /\ f = Top(t) /\ f = stack[t][n] /\ f.pc = "release"
        /\ Shape(f) /\ ClearedAt(f) /\ stack[t] # <<>> /\ n \in 1 .. Len(stack[t])
  BY AtTop DEF ReleaseNext, At
<1>2. PICK e \in f.todo : LET v == e[2]
           rest == [Top(t) EXCEPT !.todo = @ \ {e}]
       IN /\ count' = [count EXCEPT ![v] = @ - 1]
          /\ IF count[v] = 1
             THEN /\ life' = [life EXCEPT ![v] = "deallocating"]
                  /\ stack' = [stack EXCEPT ![t] = Append(Append(Front(@), rest),
                        [Frame("remove", v, "nonatomic") EXCEPT !.pc = "-dealloc"])]
             ELSE With(t, rest) /\ UNCHANGED life
  BY <1>1 DEF ReleaseNext
<1>3. PICK s \in Slots, v \in Objects : e = <<s, v>> /\ v = e[2]
  <2>1. e \in Slots \X Objects
    BY DEF FrameType
  <2> QED
    BY <2>1
<1>4. PICK g : g = [f EXCEPT !.todo = f.todo \ {e}]
  OBVIOUS
<1>5. /\ g \in FrameType /\ g.pc = "release" /\ g.do = f.do /\ g.obj = f.obj /\ g.new = f.new
      /\ g.todo = f.todo \ {e} /\ g.then = f.then /\ g.slot = f.slot /\ g.want = f.want
  BY <1>1, <1>4 DEF FrameType
<1>6. /\ count' = [count EXCEPT ![v] = @ - 1]
      /\ held' = held /\ SamePlaces /\ own' = own /\ mem' = mem /\ locks' = locks
  BY <1>2, <1>3 DEF ReleaseNext, places, SamePlaces
<1>7. count[v] > 0 /\ life[v] = "live" /\ count[v] \in Nat
  <2>1. UnderWay
    BY TypedUnderWay DEF IInv
  <2>2. s \in Drop(t, n, v)
    BY <1>1, <1>3 DEF Drop, Drops
  <2>3. <<<<t, n>>, s>> \in OnTheWayOut(v)
    BY <2>1, <2>2 DEF UnderWay
  <2> QED
    BY <2>3, OwnedLive DEF IInv, Typed
<1>8. /\ count' \in [Objects -> Nat] /\ count'[v] = count[v] - 1
      /\ \A o \in Objects \ {v} : count'[o] = count[o]
  BY <1>6, <1>7 DEF IInv, Typed
<1>9. Others(t)
  BY <1>6, OthersHeld DEF IInv
<1>10. Shape(g) /\ ClearedAt(g)'
  <2>1. Shape(g)
    BY <1>1, <1>5 DEF Shape
  <2>2. ClearedAt(g)'
    BY <1>1, <1>5, <1>6 DEF SamePlaces, ClearedAt, ClearedIn
  <2> QED
    BY <2>1, <2>2
<1>11. AssocBit'
  BY <1>6 DEF IInv, SamePlaces, AssocBit
<1>12. ASSUME NEW o \in Objects, Typed', n \in 1 .. Len(stack'[t]), g = stack'[t][n] PROVE Balanced(t, n, o)
  <2>1. Carried(t, n, o)' = Carried(t, n, o)
    <3>1. Carries(g, o) <=> Carries(f, o)
      BY <1>5 DEF Carries
    <3> QED
      BY <1>1, <1>12, <3>1, CarriedBefore, CarriedAfter
  <2>2. Drop(t, n, o) = Drops(f, o) /\ Drop(t, n, o)' = Drops(g, o)
    BY <1>1, <1>12, CarriedBefore, CarriedAfter
  <2>3. OfClients(o)' = OfClients(o) /\ InPlaces(o)' = InPlaces(o)
    BY <1>6 DEF OfClients, InPlaces
  <2>4. /\ Cardinality(Drops(g, v)) + 1 = Cardinality(Drops(f, v))
        /\ Cardinality(Drops(f, v)) \in Nat /\ Cardinality(Drops(g, v)) \in Nat
        /\ \A x \in Objects \ {v} : Drops(g, x) = Drops(f, x)
    BY <1>3, <1>5, DropOne
  <2>5. CASE o # v
    BY <1>8, <2>1, <2>2, <2>3, <2>4, <2>5 DEF Balanced
  <2>6. CASE o = v
    <3>1. PICK d \in Nat, d1 \in Nat, c \in Nat, c1 \in Nat, k \in {0, 1} :
            /\ d = Cardinality(Drops(f, v)) /\ d1 = Cardinality(Drops(g, v)) /\ k = Carried(t, n, v)
            /\ c = count[v] /\ c1 = count'[v] /\ d1 + 1 = d /\ c1 = c - 1
      BY <1>7, <1>8, <2>4, DropFinite
    <3>2. PICK r \in Nat, p \in Nat : r = Cardinality(OfClients(v)) /\ p = Cardinality(InPlaces(v))
      BY OfClientsRefs, TypedCountable DEF Countable, IInv
    <3>3. d1 + 1 = d /\ c1 = c - 1
      BY <3>1
    <3>4. c1 + r + p + k + d = c + r + p + k + d1
      BY ONLY <3>3, d \in Nat, d1 \in Nat, c \in Nat, c1 \in Nat, k \in {0, 1}, r \in Nat, p \in Nat
    <3> QED
      BY <2>1, <2>2, <2>3, <2>6, <3>1, <3>2, <3>4 DEF Balanced
  <2> QED
    BY <2>5, <2>6
<1>13. CASE count[v] # 1
  <2>1. With(t, g) /\ life' = life
    BY <1>1, <1>2, <1>3, <1>4, <1>13
  <2>2. Replaced(t, g)
    BY <1>1, <1>5, <2>1, WithOp DEF IInv
  <2>3. Typed'
    BY <1>6, <1>8, <2>1, <2>2 DEF IInv, Typed, SamePlaces, Replaced, Kept
  <2>4. stack'[t][n] = g /\ Len(stack'[t]) = n /\ Kept(t, n - 1)
    BY <1>1, <2>2 DEF Replaced
  <2>5. CallOk(t, n)'
    BY <1>5, <1>10, <2>4, CallOkNew, Idle
  <2>6. CallsOk' /\ Works(t, n - 1)
    BY <1>1, <1>9, <2>2, <2>3, <2>5, CallsReplaced
  <2>7. Deallocs'
    BY <1>1, <1>5, <2>1, <2>2, <2>3, DeallocsReplaced DEF IsDealloc
  <2>8. Structs'
    BY <1>1, <1>5, <1>6, <2>2, <2>3, <2>6, StructsReplaced
  <2>9. NothingLeftBehind'
    BY <1>6, <2>1 DEF IInv, SamePlaces, NothingLeftBehind
  <2>10. Alive'
    <3>1. ASSUME NEW o \in Objects PROVE life'[o] = "live" <=> count'[o] > 0
      <4>1. CASE o = v
        BY <1>7, <1>8, <1>13, <2>1, <4>1
      <4>2. CASE o # v
        BY <1>8, <2>1, <4>2 DEF IInv, Alive
      <4> QED
        BY <4>1, <4>2
    <3> QED
      BY <3>1 DEF Alive
  <2>11. RefsExact'
    <3>1. \A o \in Objects : Balanced(t, n, o)
      BY <1>1, <1>12, <2>3, <2>4
    <3>2. /\ n >= Len(stack[t])
          /\ \A i \in 1 .. Len(stack'[t]) : i > n => stack'[t][i].do # "swap" /\ stack'[t][i].todo = {}
      BY <1>1, <2>4
    <3> QED
      BY <1>1, <2>3, <2>4, <3>1, <3>2, RefsExactStep
  <2> QED
    BY <1>11, <2>3, <2>6, <2>7, <2>8, <2>9, <2>10, <2>11, Parts
<1>14. CASE count[v] = 1
  <2>1. PICK d : d = [Frame("remove", v, "nonatomic") EXCEPT !.pc = "-dealloc"]
    OBVIOUS
  <2>2. /\ d \in FrameType /\ d.pc = "-dealloc" /\ d.do = "remove" /\ d.obj = v /\ d.todo = {}
        /\ d.then = "return" /\ d.new = None
    <3>1. "nonatomic" \in Slots /\ "-dealloc" \in PCs
      BY SlotFacts DEF PCs
    <3>2. d \in FrameType
      BY <2>1, <3>1, FrameFacts
    <3> QED
      BY <2>1, <3>2 DEF Frame
  <2>3. life' = [life EXCEPT ![v] = "deallocating"]
        /\ stack' = [stack EXCEPT ![t] = Append(Append(Front(@), g), d)]
    BY <1>1, <1>2, <1>3, <1>4, <1>14, <2>1
  <2>4. Called(t, g, d)
    BY <1>1, <1>5, <2>2, <2>3, CallOp DEF IInv
  <2>5. Typed'
    <3>1. life' \in [Objects -> {"live", "deallocating", "free"}]
      BY <2>3 DEF IInv, Typed
    <3> QED
      BY <1>6, <1>8, <2>4, <3>1 DEF IInv, Typed, SamePlaces, Called, Kept
  <2>6. /\ stack'[t][n] = g /\ Len(stack'[t]) = n + 1 /\ Kept(t, n - 1) /\ stack'[t][n + 1] = d
    BY <1>1, <2>4 DEF Called
  <2>7. \A i \in 1 .. Len(stack'[t]) : i > n - 1 => i = n \/ i = n + 1
    BY <1>1, <2>6
  <2>8. Works(t, n - 1)
    BY <1>1, <2>6, WorksAbove DEF IInv
  <2>9. CallOk(t, n)'
    <3>1. (Shape(stack[t][n])' <=> Shape(stack'[t][n])) /\ (Waits(stack[t][n])' <=> Waits(stack'[t][n]))
      BY DEF Shape, Waits, Helping
    <3>2. UserAt(t, n)' /\ LockedAt(t, g)' /\ StructLockedAt(t, g)'
      BY <1>5, <1>10, <2>6, Idle
    <3>3. Waits(g)
      BY <1>5 DEF Waits
    <3> QED
      BY <1>5, <1>10, <2>6, <3>1, <3>2, <3>3 DEF CallOk, ClearedAt, ClearedIn, LockedAt, StructLockedAt
  <2>10. CallOk(t, n + 1)'
    <3>1. Shape(d)
      BY <2>2 DEF Shape
    <3>2. ClearedAt(d)'
      BY <2>2 DEF ClearedAt, ClearedIn
    <3>3. UserAt(t, n + 1)' /\ LockedAt(t, d)' /\ StructLockedAt(t, d)'
      BY <2>2, <2>6, <3>1, Idle
    <3> QED
      BY <2>6, <3>1, <3>2, <3>3, CallOkNew
  <2>11. CallsOk'
    <3>1. CallsOk
      BY DEF IInv, CallsOk
    <3>2. \A i \in 1 .. Len(stack'[t]) : i > n - 1 => CallOk(t, i)'
      BY <2>7, <2>9, <2>10
    <3> QED
      BY <1>9, <2>5, <2>8, <3>1, <3>2, CallsStep DEF IInv
  <2>12. Deallocs'
    <3>1. ASSUME NEW u \in Threads, NEW i \in 1 .. Len(stack'[u]), IsDealloc(stack'[u][i])
          PROVE  \/ /\ i \in 1 .. Len(stack[u]) /\ IsDealloc(stack[u][i])
                    /\ stack'[u][i].obj = stack[u][i].obj
                    /\ stack[u][i].obj \in Objects /\ life[stack[u][i].obj] = "deallocating"
                    /\ stack'[u][i].obj # v
                 \/ u = t /\ i = n + 1 /\ stack'[u][i].obj = v
      <4>1. CASE i \in 1 .. Len(stack[u]) /\ stack'[u][i] = stack[u][i]
        BY <1>7, <3>1, <4>1, DeallocObj
      <4>2. CASE u = t /\ i > n - 1
        <5>1. CASE i = n
          <6>1. IsDealloc(f) /\ g.obj = f.obj
            BY <1>1, <1>5, <2>6, <3>1, <4>2, <5>1 DEF IsDealloc
          <6> QED
            BY <1>1, <1>7, <2>6, <4>2, <5>1, <6>1, DeallocObj
        <5>2. CASE i = n + 1
          BY <2>2, <2>6, <4>2, <5>2
        <5> QED
          BY <2>7, <4>2, <5>1, <5>2
      <4> QED
        BY <2>5, <2>8, <4>1, <4>2, Calls DEF IInv
    <3>2. ASSUME NEW u \in Threads, NEW i \in 1 .. Len(stack'[u]), IsDealloc(stack'[u][i])
          PROVE  life'[stack'[u][i].obj] = "deallocating"
      BY <2>3, <3>1, <3>2 DEF IInv, Typed
    <3>3. ASSUME NEW u \in Threads, NEW i \in 1 .. Len(stack'[u]), IsDealloc(stack'[u][i]),
                 NEW w \in Threads, NEW j \in 1 .. Len(stack'[w]), IsDealloc(stack'[w][j]),
                 stack'[w][j].obj = stack'[u][i].obj
          PROVE  w = u /\ j = i
      <4>1. CASE stack'[u][i].obj = v
        BY <3>1, <3>3, <4>1
      <4>2. CASE stack'[u][i].obj # v
        <5>1. i \in 1 .. Len(stack[u]) /\ IsDealloc(stack[u][i]) /\ stack'[u][i].obj = stack[u][i].obj
          BY <3>1, <3>3, <4>2
        <5>2. j \in 1 .. Len(stack[w]) /\ IsDealloc(stack[w][j]) /\ stack'[w][j].obj = stack[w][j].obj
          BY <3>1, <3>3, <4>2
        <5>3. stack[w][j].obj = stack[u][i].obj
          BY <3>3, <5>1, <5>2
        <5> QED
          BY <5>1, <5>2, <5>3 DEF IInv, Deallocs
      <4> QED
        BY <4>1, <4>2
    <3>4. \A x : IsDealloc(x)' <=> IsDealloc(x)
      BY DEF IsDealloc
    <3> QED
      BY <3>2, <3>3, <3>4 DEF Deallocs
  <2>13. Structs'
    <3>1. \A i \in 1 .. Len(stack'[t]) : i > n - 1 => stack'[t][i].pc # "move2"
      BY <1>5, <2>2, <2>6, <2>7
    <3>2. \A i \in 1 .. Len(stack[t]) : i > n - 1 => stack[t][i].pc # "move2"
      BY <1>1
    <3> QED
      BY <1>1, <1>6, <2>5, <2>8, <3>1, <3>2, StructsSame DEF IInv
  <2>14. NothingLeftBehind'
    BY <1>6, <2>3, StoredValuesAssumption DEF IInv, Typed, SamePlaces, NothingLeftBehind
  <2>15. Alive'
    <3>1. ASSUME NEW o \in Objects PROVE life'[o] = "live" <=> count'[o] > 0
      <4>1. CASE o = v
        BY <1>8, <1>14, <2>3, <4>1 DEF IInv, Typed
      <4>2. CASE o # v
        BY <1>8, <2>3, <4>2 DEF IInv, Typed, Alive
      <4> QED
        BY <4>1, <4>2
    <3> QED
      BY <3>1 DEF Alive
  <2>16. RefsExact'
    <3>0. n \in 1 .. Len(stack'[t])
      BY <1>1, <2>6
    <3>1. \A o \in Objects : Balanced(t, n, o)
      BY <1>12, <2>5, <2>6, <3>0
    <3>2. /\ n >= Len(stack[t])
          /\ \A i \in 1 .. Len(stack'[t]) : i > n => stack'[t][i].do # "swap" /\ stack'[t][i].todo = {}
      BY <1>1, <2>2, <2>6, <2>7
    <3> QED
      BY <1>1, <2>5, <2>6, <3>1, <3>2, RefsExactStep
  <2> QED
    BY <1>11, <2>5, <2>11, <2>12, <2>13, <2>14, <2>15, <2>16, Parts
<1> QED
  BY <1>13, <1>14

(* The calls of clients. *)

\* What a client may begin to do.
Allowed(t, g) ==
  /\ g.do # "move" => own[t][g.obj] > 0 \/ \E j \in 1 .. Len(stack[t]) : MadeIn(stack[t][j], g)
  /\ g.do = "move" /\ g.obj \in CppObjects => \A j \in 1 .. Len(stack[t]) : ~Helping(stack[t][j])

LEMMA UsableAllowed ==
  ASSUME IInv, NEW t \in Threads, NEW g, g.do # "move", Usable(t, g.obj),
         g.do \in {"swap", "read"} /\ g.slot \in Properties =>
           \A i \in Deallocates(t, g.obj) : Intact(stack[t][i])
  PROVE  Allowed(t, g)
<1>1. DOMAIN stack[t] = 1 .. Len(stack[t])
  BY TopFrame DEF IInv
<1>2. CASE own[t][g.obj] > 0
  BY <1>2 DEF Allowed
<1>3. CASE Deallocates(t, g.obj) # {}
  <2>1. PICK i \in 1 .. Len(stack[t]) : i \in Deallocates(t, g.obj)
    BY <1>1, <1>3 DEF Deallocates
  <2>2. MadeIn(stack[t][i], g)
    BY <2>1 DEF Deallocates, MadeIn
  <2> QED
    BY <2>2 DEF Allowed
<1> QED
  BY <1>2, <1>3 DEF Usable

LEMMA UserNew ==
  ASSUME IInv, NEW t \in Threads, NEW n \in Nat, n = Len(stack[t]) + 1, NEW g, Pushed(t, g), own' = own,
         Allowed(t, g)
  PROVE  UserAt(t, n)'
<1>1. n - 1 = Len(stack[t])
  BY TopFrame DEF IInv
<1>2. stack'[t][n] = g /\ \A j \in 1 .. n - 1 : stack'[t][j] = stack[t][j]
  BY <1>1 DEF Pushed, Kept
<1>3. g.do # "move" => own'[t][g.obj] > 0 \/ \E j \in 1 .. n - 1 : MadeIn(stack'[t][j], g)
  BY <1>1, <1>2 DEF Allowed
<1>4. g.do = "move" /\ g.obj \in CppObjects => \A j \in 1 .. n - 1 : ~Helping(stack'[t][j])
  BY <1>1, <1>2 DEF Allowed
<1> QED
  BY <1>2, <1>3, <1>4 DEF UserAt, MadeIn, IsDealloc, Intact, Helping, Properties

\* A call begins.
Begins(t, g) ==
  /\ Pushed(t, g)
  /\ stack[t] # <<>> => Waits(Top(t))
  /\ SamePlaces /\ mem' = mem /\ locks' = locks
  /\ \A u \in Threads \ {t} : own'[u] = own[u]
  /\ \A o \in Objects : life[o] = "deallocating" => life'[o] = "deallocating"
  /\ \A o \in Objects : life'[o] = "free" => life[o] = "free"

LEMMA BeginsStep ==
  ASSUME IInv, Typed', NEW t \in Threads, NEW n \in Nat, n = Len(stack[t]) + 1, NEW g, Begins(t, g), Shape(g),
         g.pc \notin {"move2", "-dealloc"}, g.then = "return",
         UserAt(t, n)', LockedAt(t, g)', StructLockedAt(t, g)'
  PROVE  CallsOk' /\ Deallocs' /\ Structs' /\ AssocBit' /\ NothingLeftBehind'
<1>1. Others(t)
  BY OthersHeld DEF IInv, Begins
<1>2. stack'[t][n] = g /\ Len(stack'[t]) = n
  BY DEF Begins, Pushed
<1>3. ClearedAt(g)'
  BY DEF ClearedAt, ClearedIn
<1>4. CallOk(t, n)'
  BY <1>2, <1>3, CallOkNew
<1>5. CallsOk' /\ Works(t, n - 1)
  BY <1>1, <1>4, CallsPushed DEF Begins
<1>6. Deallocs'
  <2>1. Len(stack[t]) \in Nat
    BY TopFrame DEF IInv
  <2>2. Works(t, Len(stack[t]))
    BY <1>5, <2>1
  <2> QED
    BY <2>2, DeallocsPushed DEF Begins, IsDealloc
<1>7. Structs'
  BY <1>5, StructsPushed DEF Begins
<1>8. AssocBit' /\ NothingLeftBehind'
  BY StoredValuesAssumption DEF Begins, SamePlaces, IInv, AssocBit, NothingLeftBehind
<1> QED
  BY <1>5, <1>6, <1>7, <1>8

LEMMA BeginsTyped ==
  ASSUME IInv, NEW t \in Threads, NEW g, Begins(t, g), count' \in [Objects -> Nat],
         life' \in [Objects -> {"live", "deallocating", "free"}], own' \in [Threads -> [Objects -> Nat]]
  PROVE  Typed'
  BY DEF IInv, Typed, Begins, SamePlaces, Pushed, Kept

\* One that takes no reference.
LEMMA QuietCall ==
  ASSUME IInv, NEW t \in Threads, NEW n \in Nat, n = Len(stack[t]) + 1, NEW g \in FrameType, Push(t, g),
         stack[t] # <<>> => Waits(Top(t)),
         count' = count, life' = life, own' = own, SamePlaces, mem' = mem,
         locks' = locks, Shape(g), g.pc \notin {"move2", "-dealloc"}, g.then = "return",
         \A o \in Objects : ~Carries(g, o), g.todo = {},
         Allowed(t, g), LockedAt(t, g), StructLockedAt(t, g)
  PROVE  IInv'
<1>1. Pushed(t, g)
  BY PushOp DEF IInv
<1>2. Begins(t, g)
  BY <1>1 DEF Begins
<1>3. Typed'
  BY <1>2, BeginsTyped DEF IInv, Typed
<1>4. UserAt(t, n)'
  BY <1>1, UserNew
<1>5. LockedAt(t, g)'
  BY DEF SamePlaces, LockedAt, LockOf, AssociationsManagerLock, PropertyLock
<1>6. StructLockedAt(t, g)'
  BY DEF StructLockedAt, lockTwo, StructLock
<1>7. CallsOk' /\ Deallocs' /\ Structs' /\ AssocBit' /\ NothingLeftBehind'
  BY <1>2, <1>3, <1>4, <1>5, <1>6, BeginsStep
<1>8. RefsExact'
  BY <1>1, <1>3, RefsPushed DEF SameRefs, SamePlaces
<1>9. Alive'
  BY DEF IInv, Alive
<1> QED
  BY <1>3, <1>7, <1>8, <1>9, Parts

FreshFrame(do, o, s, e) == [Frame(do, o, s) EXCEPT !.new = e]

LEMMA NewFrame ==
  ASSUME NEW t \in Threads, NEW do \in {"swap", "read"}, NEW o \in Hosts, NEW s \in Slots, NEW e \in Entries(s),
         do = "read" => e = None, NEW g, g = FreshFrame(do, o, s, e)
  PROVE  /\ g \in FrameType /\ Shape(g) /\ LockedAt(t, g) /\ StructLockedAt(t, g)
         /\ g.obj = o /\ g.slot = s /\ g.do = do /\ g.new = e /\ g.todo = {} /\ g.then = "return"
         /\ g.pc \in {"lock", "swap", "read"}
<1>1. PICK h : h = Frame(do, o, s)
  OBVIOUS
<1>2. /\ h.pc = (IF s = "nonatomic" THEN do ELSE "lock")
      /\ h.want = LocksFor(s) /\ h.do = do /\ h.obj = o /\ h.slot = s
      /\ h.new = None /\ h.todo = {} /\ h.then = "return" /\ h.src = Nil
      /\ \A pc \in PCs : [h EXCEPT !.pc = pc] \in FrameType
      /\ h = [h EXCEPT !.pc = h.pc]
  BY <1>1, FrameFacts, StoredValuesAssumption
<1>3. h \in FrameType
  BY <1>2 DEF PCs
<1>4. e \in Entry
  BY EntryFacts
<1>5. /\ g \in FrameType /\ g.pc = h.pc /\ g.want = h.want /\ g.do = h.do /\ g.obj = h.obj
      /\ g.slot = h.slot /\ g.new = e /\ g.todo = h.todo /\ g.then = h.then /\ g.src = h.src
  BY <1>1, <1>3, <1>4 DEF FrameType, FreshFrame
<1>6. /\ LocksFor(s) = IF s = "nonatomic" THEN <<>> ELSE <<LockOf(s)>>
      /\ LocksFor(s) = <<>> <=> s = "nonatomic"
  BY LockFacts
<1>7. Shape(g)
  BY <1>2, <1>5, <1>6, StoredValuesAssumption DEF Shape
<1>8. LockedAt(t, g)
  BY <1>2, <1>5, <1>6 DEF LockedAt
<1>9. StructLockedAt(t, g)
  BY <1>2, <1>5 DEF StructLockedAt
<1> QED
  BY <1>2, <1>5, <1>7, <1>8, <1>9

LEMMA PlainFrame ==
  ASSUME NEW do \in {"swap", "read"}, NEW o \in Hosts, NEW s \in Slots
  PROVE  Frame(do, o, s) = FreshFrame(do, o, s, None)
<1>1. PICK pc : pc = IF LocksFor(s) = <<>> THEN do ELSE "lock"
  OBVIOUS
<1>2. PICK want : want = LocksFor(s)
  OBVIOUS
<1>3. PICK new : new = None
  OBVIOUS
<1>4. PICK f : f = [pc |-> pc, want |-> want, do |-> do, obj |-> o, slot |-> s, new |-> new,
                    todo |-> {}, then |-> "return", src |-> Nil]
  OBVIOUS
<1>5. f = [f EXCEPT !.new = new]
  BY ONLY <1>4
<1>6. Frame(do, o, s) = f
  BY <1>1, <1>2, <1>3, <1>4 DEF Frame
<1> QED
  BY <1>3, <1>5, <1>6 DEF FreshFrame

LEMMA SetNilStep ==
  ASSUME IInv, NEW t \in Threads, NEW o \in Hosts, NEW s \in Slots, SetNil(t, o, s)
  PROVE  IInv'
<1>1. PICK g : g = Frame("swap", o, s) /\ g = FreshFrame("swap", o, s, None)
  BY PlainFrame
<1>2. None \in Entries(s)
  BY EntryFacts
<1>3. /\ g \in FrameType /\ Shape(g) /\ LockedAt(t, g) /\ StructLockedAt(t, g)
      /\ g.obj = o /\ g.slot = s /\ g.do = "swap" /\ g.new = None /\ g.todo = {} /\ g.then = "return"
      /\ g.pc \in {"lock", "swap", "read"}
  BY <1>1, <1>2, NewFrame
<1>4. \A x \in Objects : ~Carries(g, x)
  BY <1>3, EntryFacts, StoredValuesAssumption DEF Carries
<1>5. PICK n \in Nat : n = Len(stack[t]) + 1
  BY TopFrame DEF IInv
<1>6. /\ Push(t, g) /\ (stack[t] # <<>> => Waits(Top(t))) /\ Accessible(t, o, s)
      /\ count' = count /\ life' = life /\ own' = own /\ SamePlaces
      /\ mem' = mem /\ locks' = locks
  BY <1>1, <1>3 DEF SetNil, Call, Waits, counts, places, SamePlaces
<1>7. Allowed(t, g)
  BY <1>3, <1>6, UsableAllowed DEF Accessible
<1> QED
  BY <1>3, <1>4, <1>5, <1>6, <1>7, QuietCall

LEMMA GetStep ==
  ASSUME IInv, NEW t \in Threads, NEW o \in Hosts, NEW s \in Slots, Get(t, o, s)
  PROVE  IInv'
<1>1. PICK g : g = Frame("read", o, s) /\ g = FreshFrame("read", o, s, None)
  BY PlainFrame
<1>2. None \in Entries(s)
  BY EntryFacts
<1>3. /\ g \in FrameType /\ Shape(g) /\ LockedAt(t, g) /\ StructLockedAt(t, g)
      /\ g.obj = o /\ g.slot = s /\ g.do = "read" /\ g.new = None /\ g.todo = {} /\ g.then = "return"
      /\ g.pc \in {"lock", "swap", "read"}
  BY <1>1, <1>2, NewFrame
<1>4. \A x \in Objects : ~Carries(g, x)
  BY <1>3 DEF Carries
<1>5. PICK n \in Nat : n = Len(stack[t]) + 1
  BY TopFrame DEF IInv
<1>6. /\ Push(t, g) /\ (stack[t] # <<>> => Waits(Top(t))) /\ Accessible(t, o, s)
      /\ count' = count /\ life' = life /\ own' = own /\ SamePlaces
      /\ mem' = mem /\ locks' = locks
  BY <1>1, <1>3 DEF Get, Call, Waits, counts, places, SamePlaces
<1>7. Allowed(t, g)
  BY <1>3, <1>6, UsableAllowed DEF Accessible
<1> QED
  BY <1>3, <1>4, <1>5, <1>6, <1>7, QuietCall

LEMMA RemoveCallStep ==
  ASSUME IInv, NEW t \in Threads, NEW o \in Hosts, objc_removeAssociatedObjects(t, o)
  PROVE  IInv'
<1>1. PICK g : g = [Frame("remove", o, "nonatomic") EXCEPT
                      !.pc = "lock", !.want = <<AssociationsManagerLock>>]
  OBVIOUS
<1>2. /\ g \in FrameType /\ g.pc = "lock" /\ g.want = <<AssociationsManagerLock>> /\ g.do = "remove"
      /\ g.obj = o /\ g.new = None /\ g.todo = {} /\ g.then = "return" /\ g.src = Nil
  BY <1>1, EntryFacts, LockFacts, SlotFacts, StoredValuesAssumption DEF Frame, FrameType, PCs
<1>3. Shape(g) /\ LockedAt(t, g) /\ StructLockedAt(t, g)
  BY <1>2, LockFacts, StoredValuesAssumption DEF Shape, LockedAt, StructLockedAt
<1>4. \A x \in Objects : ~Carries(g, x)
  BY <1>2 DEF Carries
<1>5. PICK n \in Nat : n = Len(stack[t]) + 1
  BY TopFrame DEF IInv
<1>6. /\ Push(t, g) /\ (stack[t] # <<>> => Waits(Top(t))) /\ Usable(t, g.obj)
      /\ count' = count /\ life' = life /\ own' = own /\ SamePlaces
      /\ mem' = mem /\ locks' = locks
  BY <1>1, <1>2 DEF objc_removeAssociatedObjects, Call, Waits, counts, places, SamePlaces
<1>7. Allowed(t, g)
  BY <1>2, <1>6, UsableAllowed
<1> QED
  BY <1>2, <1>3, <1>4, <1>5, <1>6, <1>7, QuietCall

LEMMA CopyStructStep ==
  ASSUME IInv, NEW t \in Threads, NEW dest \in Cells, NEW src \in Cells, objc_copyStruct(t, dest, src)
  PROVE  IInv'
<1>0. src \in CppObjects <=> dest \in CppObjects
  BY DEF objc_copyStruct
<1>1. PICK two \in Seq(Locks) : two = lockTwo(src, dest) /\ two # <<>>
  BY <1>0, LockTwoFacts
<1>2. PICK g : g = [Frame("move", dest, "nonatomic") EXCEPT !.pc = "lock", !.want = two, !.src = src]
  OBVIOUS
<1>3. /\ g \in FrameType /\ g.pc = "lock" /\ g.want = two /\ g.do = "move"
      /\ g.obj = dest /\ g.new = None /\ g.todo = {} /\ g.then = "return" /\ g.src = src
  BY <1>2, EntryFacts, SlotFacts DEF Frame, FrameType, PCs
<1>4. dest # src
  BY StoredValuesAssumption DEF objc_copyStruct
<1>5. Shape(g) /\ LockedAt(t, g) /\ StructLockedAt(t, g)
  BY <1>0, <1>1, <1>3, <1>4 DEF Shape, LockedAt, StructLockedAt
<1>6. \A x \in Objects : ~Carries(g, x)
  BY <1>3 DEF Carries
<1>7. PICK n \in Nat : n = Len(stack[t]) + 1
  BY TopFrame DEF IInv
<1>8. /\ Push(t, g) /\ (stack[t] # <<>> => Waits(Top(t)))
      /\ count' = count /\ life' = life /\ own' = own /\ SamePlaces
      /\ mem' = mem /\ locks' = locks
  BY <1>1, <1>2 DEF objc_copyStruct, Call, Waits, counts, places, SamePlaces
<1>9. Allowed(t, g)
  <2>1. DOMAIN stack[t] = 1 .. Len(stack[t])
    BY TopFrame DEF IInv
  <2> QED
    BY <1>3, <2>1 DEF objc_copyStruct, Allowed
<1> QED
  BY <1>3, <1>5, <1>6, <1>7, <1>8, <1>9, QuietCall

\* What retaining or copying an owned value does.
LEMMA AcquireOp ==
  ASSUME IInv, NEW t \in Threads, NEW v \in Objects, own[t][v] > 0, NEW setter \in {"assign", "retain", "copy"},
         NEW r \in Objects, Acquire(v, setter, r)
  PROVE  /\ count' \in [Objects -> Nat] /\ life' \in [Objects -> {"live", "deallocating", "free"}]
         /\ count'[r] = count[r] + (IF setter = "assign" THEN 0 ELSE 1)
         /\ \A o \in Objects \ {r} : count'[o] = count[o]
         /\ \A o \in Objects : life[o] = "deallocating" => life'[o] = "deallocating"
         /\ \A o \in Objects : life'[o] = "free" => life[o] = "free"
         /\ Alive'
<1>1. count[v] > 0 /\ life[v] = "live" /\ count \in [Objects -> Nat]
      /\ life \in [Objects -> {"live", "deallocating", "free"}]
  BY OwnedLive DEF IInv, Typed
<1>2. CASE setter = "assign"
  <2>1. r = v /\ count' = count /\ life' = life
    BY <1>2 DEF Acquire
  <2>2. Alive'
    BY <2>1 DEF IInv, Alive
  <2> QED
    BY <1>1, <1>2, <2>1, <2>2
<1>3. CASE setter # "assign" /\ r = v /\ count' = [count EXCEPT ![v] = @ + 1] /\ life' = life
  <2>1. count[v] \in Nat /\ count'[v] = count[v] + 1 /\ \A o \in Objects \ {v} : count'[o] = count[o]
    BY <1>1, <1>3
  <2>2. ASSUME NEW o \in Objects PROVE life'[o] = "live" <=> count'[o] > 0
    <3>1. CASE o = v
      BY <1>1, <1>3, <2>1, <3>1
    <3>2. CASE o # v
      BY <1>3, <2>1, <3>2 DEF IInv, Alive
    <3> QED
      BY <3>1, <3>2
  <2>3. Alive'
    BY <2>2 DEF Alive
  <2>4. count' \in [Objects -> Nat]
    BY <1>1, <1>3
  <2> QED
    BY <1>1, <1>3, <2>1, <2>3, <2>4
<1>4. CASE /\ setter # "assign" /\ life[r] = "free" /\ count' = [count EXCEPT ![r] = 1]
           /\ life' = [life EXCEPT ![r] = "live"]
  <2>1. count[r] = 0
    BY <1>1, <1>4 DEF IInv, Alive
  <2>2. /\ count'[r] = count[r] + 1 /\ life'[r] = "live"
        /\ \A o \in Objects \ {r} : count'[o] = count[o] /\ life'[o] = life[o]
    BY <1>1, <1>4, <2>1
  <2>3. ASSUME NEW o \in Objects PROVE life'[o] = "live" <=> count'[o] > 0
    BY <2>1, <2>2 DEF IInv, Alive
  <2>4. Alive'
    BY <2>3 DEF Alive
  <2>5. count' \in [Objects -> Nat] /\ life' \in [Objects -> {"live", "deallocating", "free"}]
    BY <1>1, <1>4
  <2> QED
    BY <1>4, <2>2, <2>4, <2>5
<1> QED
  BY <1>2, <1>3, <1>4 DEF Acquire

\* A setter with a value takes a reference to it and goes on.
SetterFrame(t, g, o, s, e) ==
  /\ g \in FrameType /\ Shape(g) /\ LockedAt(t, g) /\ StructLockedAt(t, g)
  /\ g.obj = o /\ g.slot = s /\ g.do = "swap" /\ g.new = e /\ g.todo = {} /\ g.then = "return"
  /\ g.pc \in {"lock", "swap", "read"}

LEMMA SetterFrameOk ==
  ASSUME NEW t \in Threads, NEW o \in Hosts, NEW s \in Slots, NEW e \in Entries(s), NEW g,
         g = FreshFrame("swap", o, s, e)
  PROVE  SetterFrame(t, g, o, s, e)
<1>1. PICK do \in {"swap", "read"} : do = "swap"
  OBVIOUS
<1>2. (do = "read" => e = None) /\ g = FreshFrame(do, o, s, e)
  BY <1>1
<1>3. /\ g \in FrameType /\ Shape(g) /\ LockedAt(t, g) /\ StructLockedAt(t, g)
      /\ g.obj = o /\ g.slot = s /\ g.do = do /\ g.new = e /\ g.todo = {} /\ g.then = "return"
      /\ g.pc \in {"lock", "swap", "read"}
  BY <1>2, NewFrame
<1> QED
  BY <1>1, <1>3 DEF SetterFrame

LEMMA SetterStep ==
  ASSUME IInv, NEW t \in Threads, NEW o \in Hosts, NEW s \in Slots, NEW v \in Objects, own[t][v] > 0,
         NEW setter \in {"assign", "retain", "copy"}, NEW e, NEW r \in Objects,
         e.value = r, e.setter = setter, Acquire(v, setter, r), Accessible(t, o, s),
         stack[t] # <<>> => Waits(Top(t)),
         NEW g, SetterFrame(t, g, o, s, e), Push(t, g),
         own' = own, SamePlaces, mem' = mem, locks' = locks
  PROVE  IInv'
<1>2. /\ g \in FrameType /\ Shape(g) /\ LockedAt(t, g) /\ StructLockedAt(t, g)
      /\ g.obj = o /\ g.slot = s /\ g.do = "swap" /\ g.new = e /\ g.todo = {} /\ g.then = "return"
      /\ g.pc \in {"lock", "swap", "read"}
  BY DEF SetterFrame
<1>3. PICK n \in Nat : n = Len(stack[t]) + 1 /\ n >= 1 /\ n >= Len(stack[t]) /\ n - 1 = Len(stack[t])
  BY TopFrame DEF IInv
<1>4. /\ count' \in [Objects -> Nat] /\ life' \in [Objects -> {"live", "deallocating", "free"}]
      /\ count'[r] = count[r] + (IF setter = "assign" THEN 0 ELSE 1)
      /\ \A x \in Objects \ {r} : count'[x] = count[x]
      /\ \A x \in Objects : life[x] = "deallocating" => life'[x] = "deallocating"
      /\ \A x \in Objects : life'[x] = "free" => life[x] = "free"
      /\ Alive'
  BY AcquireOp
<1>5. Pushed(t, g)
  BY <1>2, PushOp DEF IInv
<1>6. Begins(t, g)
  BY <1>4, <1>5 DEF Begins
<1>7. Typed'
  BY <1>4, <1>6, BeginsTyped DEF IInv, Typed
<1>8. UserAt(t, n)'
  <2>1. Allowed(t, g)
    BY <1>2, UsableAllowed DEF Accessible
  <2> QED
    BY <1>2, <1>3, <1>5, <2>1, UserNew
<1>9. LockedAt(t, g)' /\ StructLockedAt(t, g)'
  BY <1>2 DEF LockedAt, LockOf, AssociationsManagerLock, PropertyLock, StructLockedAt
<1>10. CallsOk' /\ Deallocs' /\ Structs' /\ AssocBit' /\ NothingLeftBehind'
  BY <1>2, <1>3, <1>6, <1>7, <1>8, <1>9, BeginsStep
<1>11. RefsExact'
  <2>1. n = Len(stack'[t]) /\ Kept(t, n - 1) /\ g = stack'[t][n] /\ n \in 1 .. Len(stack'[t])
    BY <1>3, <1>5 DEF Pushed
  <2>2. ASSUME NEW x \in Objects PROVE Balanced(t, n, x)
    <3>1. Carried(t, n, x) = 0 /\ Drop(t, n, x) = {}
      BY <1>3, CarriedNew
    <3>2. Drop(t, n, x)' = {} /\ Carried(t, n, x)' = IF x = r /\ setter # "assign" THEN 1 ELSE 0
      <4>1. Drops(g, x) = {} /\ (Carries(g, x) <=> x = r /\ setter # "assign")
        BY <1>2 DEF Drops, Carries
      <4> QED
        BY <1>7, <2>1, <4>1, CarriedAfter
    <3>3. OfClients(x)' = OfClients(x) /\ InPlaces(x)' = InPlaces(x)
      BY DEF OfClients, InPlaces, SamePlaces
    <3>4. PICK p \in Nat, q \in Nat, c \in Nat :
            p = Cardinality(OfClients(x)) /\ q = Cardinality(InPlaces(x)) /\ c = count[x]
      BY OfClientsRefs, TypedCountable DEF Countable, IInv, Typed
    <3>5. Cardinality({}) = 0
      BY FS_EmptySet
    <3>6. PICK k \in {0, 1} : k = Carried(t, n, x)' /\ count'[x] = c + k
      BY <1>4, <3>2, <3>4
    <3>7. (c + k) + p + q + 0 + 0 = c + p + q + k + 0
      BY ONLY p \in Nat, q \in Nat, c \in Nat, k \in {0, 1}
    <3> QED
      BY <3>1, <3>2, <3>3, <3>4, <3>5, <3>6, <3>7 DEF Balanced
  <2>3. \A i \in 1 .. Len(stack'[t]) : i > n => stack'[t][i].do # "swap" /\ stack'[t][i].todo = {}
    BY <2>1
  <2> QED
    BY <1>3, <1>7, <2>1, <2>2, <2>3, RefsExactStep
<1> QED
  BY <1>4, <1>7, <1>10, <1>11, Parts

LEMMA SetAssociatedStep ==
  ASSUME IInv, NEW t \in Threads, NEW o \in Hosts, NEW k \in Keys, NEW v \in Passable(t), NEW p \in Policies,
         objc_setAssociatedObject(t, o, k, v, p[1], p[2])
  PROVE  IInv'
<1>1. v \in Objects /\ own[t][v] > 0 /\ k \in Slots
  BY SlotFacts DEF Passable
<1>2. p[1] \in {"assign", "retain", "copy"}
  <2>1. CASE p = <<"assign", FALSE>>
    BY <2>1
  <2>2. CASE p = <<"retain", FALSE>>
    BY <2>2
  <2>3. CASE p = <<"copy", FALSE>>
    BY <2>3
  <2>4. CASE p = <<"retain", TRUE>>
    BY <2>4
  <2>5. CASE p = <<"copy", TRUE>>
    BY <2>5
  <2> QED
    BY <2>1, <2>2, <2>3, <2>4, <2>5 DEF Policies
<1>3. PICK r \in Objects : /\ Acquire(v, p[1], r)
                           /\ Push(t, [Frame("swap", o, k) EXCEPT
                                !.new = [value |-> r, setter |-> p[1], atomic |-> p[2]]])
  BY DEF objc_setAssociatedObject
<1>4. PICK e : e = [value |-> r, setter |-> p[1], atomic |-> p[2]]
  OBVIOUS
<1>5. e \in Entries(k) /\ e.value = r /\ e.setter = p[1]
  <2>1. p \in IF k \in Keys THEN Policies ELSE {"retain", "copy"} \X {k = "atomic"}
    OBVIOUS
  <2> QED
    BY <1>4, <2>1 DEF Entries
<1>6. /\ Accessible(t, o, k) /\ (stack[t] # <<>> => Waits(Top(t)))
      /\ own' = own /\ SamePlaces /\ mem' = mem /\ locks' = locks
  BY <1>1, SlotFacts DEF objc_setAssociatedObject, Accessible, Call, Waits, places, SamePlaces
<1>7. PICK g : g = FreshFrame("swap", o, k, e) /\ Push(t, g)
  BY <1>3, <1>4 DEF FreshFrame
<1>8. SetterFrame(t, g, o, k, e)
  BY <1>1, <1>5, <1>7, SetterFrameOk
<1> QED
  BY <1>1, <1>2, <1>3, <1>5, <1>6, <1>7, <1>8, SetterStep

LEMMA Stutter ==
  ASSUME IInv, count' = count, life' = life, own' = own, SamePlaces,
         mem' = mem, locks' = locks, stack' = stack
  PROVE  IInv'
<1>1. Typed' /\ Alive' /\ AssocBit' /\ NothingLeftBehind'
  BY DEF IInv, SamePlaces, Typed, Alive, AssocBit, NothingLeftBehind
<1>2. Shapes' /\ Deallocs'
  BY DEF IInv, Shapes, Shape, Waits, Helping, Deallocs, IsDealloc
<1>3. Users' /\ Cleared'
  <2>1. Users'
    BY DEF IInv, Users, UserAt, MadeIn, IsDealloc, Intact, Helping, Properties
  <2>2. Cleared'
    BY DEF IInv, SamePlaces, Cleared, ClearedAt, ClearedIn
  <2> QED
    BY <2>1, <2>2
<1>4. Locked' /\ StructsLocked'
  <2>1. ASSUME NEW t \in Threads, NEW f PROVE LockedAt(t, f)' <=> LockedAt(t, f)
    BY DEF SamePlaces, LockedAt, LockOf, AssociationsManagerLock, PropertyLock
  <2>2. ASSUME NEW t \in Threads, NEW f PROVE StructLockedAt(t, f)' <=> StructLockedAt(t, f)
    BY DEF StructLockedAt, lockTwo, StructLock
  <2>3. ASSUME NEW t \in Threads, NEW i \in 1 .. Len(stack'[t])
        PROVE  LockedAt(t, stack[t][i])' /\ StructLockedAt(t, stack[t][i])'
    <3>1. PICK f : f = stack[t][i] /\ f = stack'[t][i]
      OBVIOUS
    <3>2. LockedAt(t, f) /\ StructLockedAt(t, f)
      BY <3>1 DEF IInv, Locked, StructsLocked
    <3>3. LockedAt(t, f)' /\ StructLockedAt(t, f)'
      BY <2>1, <2>2, <3>2
    <3> QED
      BY <3>1, <3>3 DEF LockedAt, StructLockedAt
  <2> QED
    BY <2>3 DEF Locked, StructsLocked
<1>5. Structs'
  BY DEF IInv, Structs
<1>6. RefsExact'
  <2>1. ASSUME NEW o
        PROVE  OfClients(o)' = OfClients(o) /\ InPlaces(o)' = InPlaces(o)
    BY DEF SamePlaces, OfClients, InPlaces
  <2>2. Frames' = Frames /\ \A p : FrameOf(p)' = FrameOf(p)
    BY DEF Frames, FrameOf
  <2>3. ASSUME NEW o
        PROVE  OnTheWayIn(o)' = OnTheWayIn(o) /\ OnTheWayOut(o)' = OnTheWayOut(o)
    BY <2>2 DEF OnTheWayIn, OnTheWayOut
  <2> QED
    BY <2>1, <2>3 DEF IInv, RefsExact
<1> QED
  BY <1>1, <1>2, <1>3, <1>4, <1>5, <1>6 DEF IInv

LEMMA SetPropertyStep ==
  ASSUME IInv, NEW t \in Threads, NEW o \in Hosts, NEW s \in Slots, s \in Properties, NEW v \in Passable(t),
         NEW setter \in {"retain", "copy"}, reallySetProperty(t, o, s, v, setter)
  PROVE  IInv'
<1>1. v \in Objects /\ own[t][v] > 0
  BY DEF Passable
<1>2. /\ Accessible(t, o, s) /\ (stack[t] # <<>> => Waits(Top(t)))
      /\ own' = own /\ SamePlaces /\ mem' = mem /\ locks' = locks
  BY DEF reallySetProperty, Call, Waits, places, SamePlaces
<1>3. CASE setter = "retain" /\ held[o][s].value = v
  <2>1. count' = count /\ life' = life /\ stack' = stack
    BY <1>3 DEF reallySetProperty
  <2> QED
    BY <1>2, <2>1, Stutter
<1>4. CASE ~(setter = "retain" /\ held[o][s].value = v)
  <2>1. PICK r \in Objects : /\ Acquire(v, setter, r)
                             /\ Push(t, [Frame("swap", o, s) EXCEPT
                                  !.new = [value |-> r, setter |-> setter, atomic |-> s = "atomic"]])
    BY <1>4 DEF reallySetProperty
  <2>2. PICK e : e = [value |-> r, setter |-> setter, atomic |-> s = "atomic"]
    OBVIOUS
  <2>3. PICK p : p = <<setter, s = "atomic">>
    OBVIOUS
  <2>4. s \notin Keys
    BY SlotFacts
  <2>5. p \in {"retain", "copy"} \X {s = "atomic"} /\ p[1] = setter /\ p[2] = (s = "atomic")
    BY <2>3
  <2>6. e = [value |-> r, setter |-> p[1], atomic |-> p[2]] /\ e.value = r /\ e.setter = setter
    BY <2>2, <2>5
  <2>7. e \in Entries(s)
    BY <2>4, <2>5, <2>6 DEF Entries
  <2>8. PICK g : g = FreshFrame("swap", o, s, e) /\ Push(t, g)
    BY <2>1, <2>2 DEF FreshFrame
  <2>9. SetterFrame(t, g, o, s, e)
    BY <2>7, <2>8, SetterFrameOk
  <2> QED
    BY <1>1, <1>2, <2>1, <2>6, <2>8, <2>9, SetterStep
<1> QED
  BY <1>3, <1>4

LEMMA ReleaseStep ==
  ASSUME IInv, NEW t \in Threads, NEW o \in Objects, Release(t, o)
  PROVE  IInv'
<1>1. PICK todo : todo = {<<"nonatomic", o>>}
  OBVIOUS
<1>2. PICK g : g = [Frame("none", o, "nonatomic") EXCEPT !.pc = "release", !.todo = todo]
  OBVIOUS
<1>3. /\ g \in FrameType /\ g.pc = "release" /\ g.do = "none" /\ g.obj = o /\ g.new = None
      /\ g.todo = todo /\ g.then = "return"
  <2>1. todo \in SUBSET (Slots \X Objects)
    BY <1>1, SlotFacts
  <2>2. LocksFor("nonatomic") = <<>>
    BY LockFacts, SlotFacts
  <2>3. g = [pc |-> "release", want |-> <<>>, do |-> "none", obj |-> o, slot |-> "nonatomic",
             new |-> None, todo |-> todo, then |-> "return", src |-> Nil]
    BY <1>2, <2>2 DEF Frame
  <2> QED
    BY <2>1, <2>3, EntryFacts, LockFacts, SlotFacts DEF FrameType, PCs
<1>4. PICK n \in Nat : n = Len(stack[t]) + 1 /\ n >= 1 /\ n >= Len(stack[t]) /\ n - 1 = Len(stack[t])
  BY TopFrame DEF IInv
<1>5. /\ Push(t, g) /\ (stack[t] # <<>> => Waits(Top(t))) /\ own[t][o] > 0
      /\ own' = [own EXCEPT ![t][o] = @ - 1]
      /\ count' = count /\ life' = life /\ held' = held /\ SamePlaces
      /\ mem' = mem /\ locks' = locks
  BY <1>1, <1>2 DEF Release, Call, Waits, places, SamePlaces
<1>6. Pushed(t, g)
  BY <1>3, <1>5, PushOp DEF IInv
<1>7. own' \in [Threads -> [Objects -> Nat]] /\ \A u \in Threads \ {t} : own'[u] = own[u]
  <2>1. own \in [Threads -> [Objects -> Nat]]
    BY DEF IInv, Typed
  <2>2. own[t][o] - 1 \in Nat
    BY <1>5, <2>1
  <2> QED
    BY <1>5, <2>1, <2>2
<1>8. Begins(t, g)
  BY <1>5, <1>6, <1>7 DEF Begins
<1>9. Typed'
  BY <1>5, <1>7, <1>8, BeginsTyped DEF IInv, Typed
<1>10. Shape(g)
  BY <1>3 DEF Shape
<1>11. stack'[t][n] = g /\ n = Len(stack'[t]) /\ n \in 1 .. Len(stack'[t]) /\ Kept(t, n - 1)
  BY <1>4, <1>6 DEF Pushed
<1>12. UserAt(t, n)' /\ LockedAt(t, g)' /\ StructLockedAt(t, g)'
  BY <1>3, <1>10, <1>11, Idle
<1>13. CallsOk' /\ Deallocs' /\ Structs' /\ AssocBit' /\ NothingLeftBehind'
  BY <1>3, <1>4, <1>8, <1>9, <1>10, <1>12, BeginsStep
<1>14. Alive'
  BY <1>5 DEF IInv, Alive
<1>15. RefsExact'
  <2>1. /\ Cardinality(OfClients(o)') + 1 = Cardinality(OfClients(o))
        /\ \A x \in Objects \ {o} : OfClients(x)' = OfClients(x)
    BY <1>5, <1>9, ClientsLess DEF IInv
  <2>2. ASSUME NEW x \in Objects PROVE Balanced(t, n, x)
    <3>1. Carried(t, n, x) = 0 /\ Drop(t, n, x) = {}
      BY <1>4, CarriedNew
    <3>2. Carried(t, n, x)' = 0 /\ Drop(t, n, x)' = IF x = o THEN {"nonatomic"} ELSE {}
      <4>1. ~Carries(g, x) /\ Drops(g, x) = IF x = o THEN {"nonatomic"} ELSE {}
        BY <1>1, <1>3, SlotFacts DEF Drops, Carries
      <4> QED
        BY <1>9, <1>11, <4>1, CarriedAfter
    <3>3. InPlaces(x)' = InPlaces(x) /\ count'[x] = count[x]
      BY <1>5 DEF InPlaces
    <3>4. PICK p \in Nat, p1 \in Nat, q \in Nat, c \in Nat :
            /\ p = Cardinality(OfClients(x)) /\ p1 = Cardinality(OfClients(x)')
            /\ q = Cardinality(InPlaces(x)) /\ c = count[x]
      <4>1. ClientsAre'
        BY <1>9, TypedClientsAre, PTL
      <4> QED
        BY <4>1, OfClientsRefs, TypedCountable DEF Countable, IInv, Typed, ClientsAre
    <3>5. Cardinality({}) = 0 /\ Cardinality({"nonatomic"}) = 1
      BY FS_EmptySet, FS_Singleton
    <3>6. PICK k \in {0, 1} : k = Cardinality(Drop(t, n, x)') /\ p1 + k = p
      BY <2>1, <3>2, <3>4, <3>5
    <3>7. p1 + k = p
      BY <3>6
    <3>8. c + p + q + 0 + 0 = c + p1 + q + 0 + k
      BY ONLY <3>7, p \in Nat, p1 \in Nat, q \in Nat, c \in Nat, k \in {0, 1}
    <3> QED
      BY <3>1, <3>2, <3>3, <3>4, <3>5, <3>6, <3>8 DEF Balanced
  <2>3. \A i \in 1 .. Len(stack'[t]) : i > n => stack'[t][i].do # "swap" /\ stack'[t][i].todo = {}
    BY <1>11
  <2> QED
    BY <1>4, <1>9, <1>11, <2>2, <2>3, RefsExactStep
<1> QED
  BY <1>9, <1>13, <1>14, <1>15, Parts

LEMMA ObjectCallStep ==
  ASSUME IInv, NEW t \in Threads, ObjectCall(t)
  PROVE  IInv'
<1>1. CASE \E o \in Hosts : \E s \in Keys, v \in Passable(t), p \in Used :
             objc_setAssociatedObject(t, o, s, v, p[1], p[2])
  BY <1>1, SetAssociatedStep, StoredValuesAssumption
<1>2. CASE \E o \in Hosts : \E s \in Slots : SetNil(t, o, s)
  BY <1>2, SetNilStep
<1>3. CASE \E o \in Hosts : \E s \in Slots : Get(t, o, s)
  BY <1>3, GetStep
<1>4. CASE \E o \in Hosts : \E s \in Slots : \E v \in Passable(t), setter \in {"retain", "copy"} :
             s \in Properties /\ reallySetProperty(t, o, s, v, setter)
  BY <1>4, SetPropertyStep
<1>5. CASE \E o \in Hosts : objc_removeAssociatedObjects(t, o)
  BY <1>5, RemoveCallStep
<1>6. CASE \E o \in Objects : Release(t, o)
  BY <1>6, ReleaseStep
<1> QED
  BY <1>1, <1>2, <1>3, <1>4, <1>5, <1>6, Zenon DEF ObjectCall

LEMMA NextStep == IInv /\ [Next]_vars => IInv'
<1> SUFFICES ASSUME IInv, [Next]_vars PROVE IInv'
  OBVIOUS
<1>1. CASE UNCHANGED vars
  BY <1>1, Stutter DEF vars, counts, places, SamePlaces
<1>2. ASSUME NEW t \in Threads, ClientCall(t) PROVE IInv'
  <2>1. CASE \E c, d \in Cells : objc_copyStruct(t, c, d)
    BY <2>1, CopyStructStep
  <2>2. CASE ObjectCall(t)
    BY <2>2, ObjectCallStep
  <2> QED
    BY <1>2, <2>1, <2>2 DEF ClientCall
<1>3. ASSUME NEW t \in Threads, Step(t) PROVE IInv'
  BY <1>3, LockStep, SwapStep, ReadStep, RetainAutoreleaseStep, RemoveStep, MoveStep, ReleaseNextStep,
     ReleasedStep, DestructStep, CxxDestructStep, RemoveAssociationsStep, FreeStep DEF Step
<1> QED
  BY <1>1, <1>2, <1>3 DEF Next

LEMMA InitOk == Init => IInv
<1> SUFFICES ASSUME Init PROVE IInv
  OBVIOUS
<1>1. stack = [t \in Threads |-> <<>>] /\ \A t \in Threads : Len(stack[t]) = 0 /\ stack[t] = <<>>
  BY DEF Init
<1>2. held \in [Hosts -> [Slots -> Entry]] /\ \A o \in Hosts, s \in Slots : held[o][s] \in Entries(s)
  BY StoredValuesAssumption DEF Init, Entry
<1>3. \A o \in Objects : IsFiniteSet(owners[o]) /\ Cardinality(owners[o]) \in Nat
  BY StoredValuesAssumption, FS_Subset, FS_CardinalityType
<1>4. \A o \in Objects : Cardinality(InPlaces(o)) \in Nat
  <2>1. \A o \in Objects : InPlaces(o) \in SUBSET (Hosts \X Slots)
    BY DEF InPlaces
  <2> QED
    BY <2>1, SlotsFinite, FS_Subset, FS_CardinalityType
<1>5. \A o \in Objects : count[o] = Cardinality(owners[o]) + Cardinality(InPlaces(o))
  BY DEF Init
<1>6. count \in [Objects -> Nat]
  <2>1. ASSUME NEW o \in Objects PROVE Cardinality(owners[o]) + Cardinality(InPlaces(o)) \in Nat
    BY <1>3, <1>4
  <2> QED
    BY <2>1 DEF Init
<1>7. /\ life \in [Objects -> {"live", "deallocating", "free"}]
      /\ \A o \in Objects : life[o] = IF count[o] = 0 THEN "free" ELSE "live"
  BY DEF Init
<1>8. mem \in [Cells -> [{1, 2} -> Cells]] /\ \A c \in Cells : mem[c][1] = mem[c][2]
  <2>1. ASSUME NEW c \in Cells PROVE <<c, c>> \in [{1, 2} -> Cells] /\ <<c, c>>[1] = <<c, c>>[2]
    <3>1. {1, 2} = 1 .. 2
      OBVIOUS
    <3> QED
      BY <3>1
  <2> QED
    BY <2>1 DEF Init
<1>9. /\ own \in [Threads -> [Objects -> Nat]]
      /\ \A t \in Threads, o \in Objects : own[t][o] = IF t \in owners[o] THEN 1 ELSE 0
  BY DEF Init
<1>10. locks \in [Locks -> Threads \cup {NoThread}] /\ has_assoc \subseteq Hosts
       /\ tables \subseteq Hosts /\ late \subseteq Hosts
  BY DEF Init
<1>11. Typed
  <2>1. stack \in [Threads -> Seq(FrameType)]
    BY <1>1
  <2> QED
    BY <1>2, <1>6, <1>7, <1>8, <1>9, <1>10, <2>1 DEF Typed
<1>12. Alive
  BY <1>6, <1>7 DEF Alive
<1>13. AssocBit /\ NothingLeftBehind
  <2>1. AssocBit
    BY DEF Init, AssocBit
  <2>2. NothingLeftBehind
    BY DEF Init, NothingLeftBehind
  <2> QED
    BY <2>1, <2>2
<1>14. \A t \in Threads : \A i \in 1 .. Len(stack[t]) : FALSE
  BY <1>1
<1>15. Shapes /\ Deallocs /\ Users /\ Cleared /\ Locked /\ StructsLocked
  BY <1>14 DEF Shapes, Deallocs, Users, Cleared, Locked, StructsLocked
<1>16. Structs
  BY <1>8, <1>14 DEF Structs
<1>17. RefsExact
  <2>1. UnderWay
    BY <1>11, TypedUnderWay
  <2>2. ASSUME NEW o \in Objects PROVE OnTheWayIn(o) = {} /\ OnTheWayOut(o) = {}
    <3>1. \A u \in Threads : \A i : ~Carry(u, i, o) /\ Drop(u, i, o) = {}
      BY <1>14 DEF Carry, Drop
    <3> QED
      BY <2>1, <3>1 DEF UnderWay
  <2>3. ASSUME NEW o \in Objects PROVE Cardinality(OfClients(o)) = Cardinality(owners[o])
    <3>1. PICK R : R = OfClients(o)
      OBVIOUS
    <3>2. PICK f \in [Threads -> Nat] : f = ClientRefs(o) /\ R = Refs(f)
      BY <1>11, <3>1, OfClientsRefs
    <3>3. \A t \in Threads : f[t] = IF t \in owners[o] THEN 1 ELSE 0
      BY <1>9, <3>2 DEF ClientRefs
    <3>4. /\ \A t \in Threads : \A i : <<t, i>> \in R <=> i \in 1 .. f[t]
          /\ \A p \in R : \E t \in Threads : \E i : p = <<t, i>>
      BY <3>2, RefsFacts
    <3>5. PICK A : A = owners[o] /\ IsFiniteSet(A) /\ A \in SUBSET Threads
      BY <1>3, StoredValuesAssumption
    <3>6. R = A \X {1}
      <4>1. ASSUME NEW t \in Threads, NEW i PROVE <<t, i>> \in R <=> t \in A /\ i = 1
        BY <3>3, <3>4, <3>5
      <4> QED
        BY <3>4, <3>5, <4>1
    <3>7. IsFiniteSet({1}) /\ Cardinality({1}) = 1
      BY FS_Singleton
    <3>8. Cardinality(A \X {1}) = Cardinality(A) * Cardinality({1})
      BY <3>5, <3>7, FS_Product
    <3>9. Cardinality(A) \in Nat
      BY <3>5, FS_CardinalityType
    <3> QED
      BY <3>1, <3>5, <3>6, <3>7, <3>8, <3>9
  <2>4. Cardinality({}) = 0
    BY FS_EmptySet
  <2>5. ASSUME NEW o \in Objects
        PROVE  count[o] = Cardinality(OfClients(o)) + Cardinality(InPlaces(o))
                   + Cardinality(OnTheWayIn(o)) + Cardinality(OnTheWayOut(o))
    BY <1>3, <1>4, <1>5, <2>2, <2>3, <2>4
  <2> QED
    BY <2>5 DEF RefsExact
<1> QED
  BY <1>11, <1>12, <1>13, <1>15, <1>16, <1>17 DEF IInv

\* Every behaviour of the accessors and the association table keeps the whole
\* inductive invariant: what each call relies on between its steps.
THEOREM InductiveInvariant == Spec => []IInv
<1>1. IInv /\ [Next]_vars => IInv'
  BY NextStep
<1> QED
  BY <1>1, InitOk, PTL DEF Spec

\* objc-references.mm and objc-accessors.mm never lose a reference and never
\* drop one twice: an object's count is what its clients, its places and the
\* calls under way own, whatever the setters race with.
THEOREM ReferencesExact == Spec => []RefsExact
<1>1. IInv => RefsExact
  BY DEF IInv
<1> QED
  BY <1>1, InductiveInvariant, PTL

\* What a getter reads under the lock is alive when it retains it: neither a
\* setter nor objc_removeAssociatedObjects releases it in between.
THEOREM GettersRetainLive == Spec => []NoUseAfterFree
<1>1. IInv => NoUseAfterFree
  BY Retained DEF NoUseAfterFree
<1> QED
  BY <1>1, InductiveInvariant, PTL

\* Memory that objc_destructInstance and free leave has no value in an instance
\* variable, and no association in the table: what client code adds in -dealloc,
\* in destructors or when a value is released is removed too, unless the map was
\* made after has_assoc was found clear or after the map was removed.
THEOREM FreedHoldsNothing == Spec => []NothingLeftBehind
<1>1. IInv => NothingLeftBehind
  BY DEF IInv
<1> QED
  BY <1>1, InductiveInvariant, PTL

\* A struct whose lock is free is in one piece: objc_copyStruct holds the locks
\* of both its arguments for as long as it moves their parts.
THEOREM StructsNeverTorn == Spec => []NoTornStruct
<1>1. ASSUME IInv, NEW c \in Cells, mem[c][1] # mem[c][2] PROVE locks[StructLock(c)] # NoThread
  <2>1. PICK t \in Threads : \E i \in 1 .. Len(stack[t]) : stack[t][i].pc = "move2" /\ stack[t][i].obj = c
    BY <1>1 DEF IInv, Structs
  <2>2. PICK i \in 1 .. Len(stack[t]) : stack[t][i].pc = "move2" /\ stack[t][i].obj = c
    BY <2>1
  <2>3. locks[StructLock(c)] = t
    BY <1>1, <2>2 DEF IInv, StructsLocked, StructLockedAt
  <2> QED
    BY <2>3, StoredValuesAssumption
<1>2. IInv => NoTornStruct
  BY <1>1 DEF NoTornStruct
<1> QED
  BY <1>2, InductiveInvariant, PTL
=============================================================================
