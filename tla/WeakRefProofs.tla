--------------------------- MODULE WeakRefProofs ---------------------------
(***************************************************************************)
(* Proofs about WeakRef: the weak table lists exactly the variables that   *)
(* hold an object, no variable leads to a dead one, and none holds an      *)
(* object whose class was never sent +initialize, for any number of        *)
(* threads, objects, variables, classes and side tables and any nesting of *)
(* calls.  The invariant is built in layers: what a frame of the call      *)
(* stack may look like, what it promises about the classes, the lives and  *)
(* the variables, and then the properties themselves.                      *)
(***************************************************************************)
EXTENDS WeakRef, TLAPS

\* What the frame of each call looks like.
FrameShape(f) ==
  /\ f.op \in WeakOps =>
       f.pc \in {"read", "lock", "check", "classInit"} /\ f.l \in Locations
  /\ f.op = "storeWeak" => f.l \in Shared
  /\ f.op \in {"initWeak", "destroyWeak"} => f.l \in Private
  /\ f.op = "initWeak" => f.obj \in Objects
  /\ f.op = "loadWeak" /\ f.pc # "read" => f.old \in Objects
  /\ f.op = "setClass" =>
       f.pc \in {"classInit", "changeIsa"} /\ f.obj \in Objects /\ f.c \in Classes
  /\ f.op = "initialize" => f.pc \in {"client", "finish"} /\ f.c \in Classes
  /\ f.op = "dealloc" => f.pc \in {"client", "clear", "free"} /\ f.obj \in Objects
  /\ f.pc = "classInit" => f.c \in Classes

\* Only one call creates a variable.
OneCreator ==
  \A t, u \in Threads : \A i \in DOMAIN stack[t], j \in DOMAIN stack[u] :
    /\ stack[t][i].op = "initWeak" /\ stack[u][j].op = "initWeak"
    /\ stack[t][i].l = stack[u][j].l
    => t = u /\ i = j

\* First layer: types, the frames, and that only +initialize and -dealloc
\* methods, and calls that wait for a +initialize method, have calls on top.
StackOK ==
  /\ stack \in [Threads -> Seq(Frame)]
  /\ \A t \in Threads : \A i \in DOMAIN stack[t] :
       /\ FrameShape(stack[t][i])
       /\ i > 1 => stack[t][i].pc \in {"client", "classInit"}
  /\ OneCreator

StackInv == TypeOK /\ StackOK

\* A side table is locked by a thread that is in a weak operation and needs it;
\* a thread that got past lockTwo has all it needs, and one that waits in it
\* waits for a table after all those it holds.
LocksOf(t) ==
  /\ \A s \in Held(t) : /\ stack[t] # <<>>
                         /\ Top(t).op \in WeakOps /\ Top(t).pc \in {"lock", "check"}
                         /\ s \in TablesFor(Top(t))
  /\ In(t, WeakOps, "check") => TablesFor(Top(t)) \subseteq Held(t)
  /\ In(t, WeakOps, "lock") =>
       \A h \in Held(t), n \in TablesFor(Top(t)) \ Held(t) : h < n

LocksInv == \A t \in Threads : LocksOf(t)

\* A class that a call believes to be initialized has at least begun to be.
ClassesBegun ==
  /\ \A c \in Classes : initializer[c] # NoThread => class[c] # "uninitialized"
  /\ \A t \in Threads : \A i \in DOMAIN stack[t] :
       /\ stack[t][i].op \in WeakOps \cup {"setClass"}
       /\ stack[t][i].pc # "classInit" /\ stack[t][i].c # Nil
       => class[stack[t][i].c] # "uninitialized"

\* An object whose -dealloc runs is not alive, and before it is freed no weak
\* variable holds it.
Dying ==
  /\ \A o \in Objects : life[o] = "freed" => \A l \in valid : loc[l] # o
  /\ \A t \in Threads : \A i \in DOMAIN stack[t] :
       stack[t][i].op = "dealloc" =>
         /\ life[stack[t][i].obj] # "alive"
         /\ stack[t][i].pc = "free" => \A l \in valid : loc[l] # stack[t][i].obj

\* The variable that objc_initWeak creates does not exist yet.
Creating ==
  /\ Shared \subseteq valid
  /\ \A t \in Threads : \A i \in DOMAIN stack[t] :
       stack[t][i].op = "initWeak" => stack[t][i].l \notin valid

\* The weak table is exact, locked or not: every change to it comes with the
\* change to the variable.  Every object in a variable is marked.
Exact ==
  /\ \A o \in Objects : referrers[o] = {l \in valid : loc[l] = o}
  /\ \A l \in valid : loc[l] # Nil => loc[l] \in weak

IInv == /\ StackInv /\ LocksInv /\ ClassesBegun /\ Dying /\ Creating /\ Exact
        /\ OwnedIsAlive /\ WeakIsInitialized
-----------------------------------------------------------------------------
(* The call stack. *)

\* What the three ways to change a stack do to its frames.
LEMMA StackOps ==
  ASSUME NEW s \in Seq(Frame), NEW f \in Frame
  PROVE  /\ /\ <<f>> \o s \in Seq(Frame) /\ Len(<<f>> \o s) = Len(s) + 1
            /\ (<<f>> \o s)[1] = f
            /\ \A i \in 1 .. Len(s) : (<<f>> \o s)[i + 1] = s[i]
         /\ s # <<>> =>
              /\ Tail(s) \in Seq(Frame) /\ Len(Tail(s)) = Len(s) - 1
              /\ \A i \in 1 .. Len(s) - 1 : Tail(s)[i] = s[i + 1]
         /\ s # <<>> =>
              /\ <<f>> \o Tail(s) \in Seq(Frame) /\ Len(<<f>> \o Tail(s)) = Len(s)
              /\ (<<f>> \o Tail(s))[1] = f
              /\ \A i \in 2 .. Len(s) : (<<f>> \o Tail(s))[i] = s[i]
  OBVIOUS

\* The innermost call.
LEMMA TopFrame ==
  ASSUME StackInv, NEW t \in Threads, stack[t] # <<>>
  PROVE  /\ stack[t] \in Seq(Frame) /\ Len(stack[t]) >= 1
         /\ 1 \in DOMAIN stack[t] /\ Top(t) = stack[t][1]
         /\ Top(t) \in Frame /\ FrameShape(Top(t))
  BY DEF StackInv, StackOK, Top

\* After a step of t every frame was there before, except perhaps the innermost
\* frame of t, which is f.
FramesFrom(t, f) ==
  /\ \A u \in Threads : u # t => stack'[u] = stack[u]
  /\ \A i \in DOMAIN stack'[t] :
       \/ i = 1 /\ stack'[t][i] = f
       \/ \E j \in DOMAIN stack[t] : stack'[t][i] = stack[t][j]

\* A call is made.
LEMMA PushFrames ==
  ASSUME StackInv, NEW t \in Threads, NEW f \in Frame, FrameShape(f), Push(t, f),
         stack[t] = <<>> \/ Top(t).pc \in {"client", "classInit"},
         f.op = "initWeak" =>
           \A u \in Threads : \A i \in DOMAIN stack[u] : stack[u][i].l # f.l
  PROVE  StackOK' /\ FramesFrom(t, f)
<1>1. /\ stack[t] \in Seq(Frame) /\ stack'[t] = <<f>> \o stack[t]
      /\ \A u \in Threads : u # t => stack'[u] = stack[u]
  BY DEF StackInv, StackOK, Push
<1>2. /\ stack'[t] \in Seq(Frame) /\ Len(stack'[t]) = Len(stack[t]) + 1 /\ stack'[t][1] = f
      /\ \A i \in 1 .. Len(stack[t]) : stack'[t][i + 1] = stack[t][i]
  BY <1>1, StackOps
<1>3. \A i \in DOMAIN stack'[t] : i # 1 =>
        i - 1 \in DOMAIN stack[t] /\ stack'[t][i] = stack[t][i - 1]
  <2> SUFFICES ASSUME NEW i \in 1 .. Len(stack[t]) + 1, i # 1
               PROVE  i - 1 \in 1 .. Len(stack[t]) /\ stack'[t][i] = stack[t][i - 1]
    BY <1>1, <1>2
  <2>1. i - 1 \in 1 .. Len(stack[t]) /\ (i - 1) + 1 = i
    BY <1>1
  <2> QED
    BY <1>2, <2>1
<1>4. FramesFrom(t, f)
  BY <1>1, <1>2, <1>3 DEF FramesFrom
<1>5. \A i \in DOMAIN stack'[t] : /\ FrameShape(stack'[t][i])
                                  /\ i > 1 => stack'[t][i].pc \in {"client", "classInit"}
  <2> SUFFICES ASSUME NEW i \in DOMAIN stack'[t]
               PROVE  /\ FrameShape(stack'[t][i])
                      /\ i > 1 => stack'[t][i].pc \in {"client", "classInit"}
    OBVIOUS
  <2>1. CASE i = 1
    BY <1>2, <2>1
  <2>2. CASE i # 1
    <3>1. i - 1 \in DOMAIN stack[t] /\ stack'[t][i] = stack[t][i - 1]
      BY <1>3, <2>2
    <3>2. FrameShape(stack[t][i - 1])
      BY <3>1 DEF StackInv, StackOK
    <3>3. i - 1 > 1 => stack[t][i - 1].pc \in {"client", "classInit"}
      BY <3>1 DEF StackInv, StackOK
    <3>4. i - 1 = 1 => stack[t][i - 1].pc \in {"client", "classInit"}
      BY <3>1, TopFrame
    <3>5. i - 1 > 1 \/ i - 1 = 1
      BY <1>1, <3>1
    <3> QED
      BY <3>1, <3>2, <3>3, <3>4, <3>5
  <2> QED
    BY <2>1, <2>2
<1>6. stack' \in [Threads -> Seq(Frame)]
  BY <1>2 DEF StackInv, StackOK, Push
<1>7. OneCreator'
  <2> SUFFICES ASSUME NEW u \in Threads, NEW v \in Threads,
                      NEW i \in DOMAIN stack'[u], NEW j \in DOMAIN stack'[v],
                      stack'[u][i].op = "initWeak", stack'[v][j].op = "initWeak",
                      stack'[u][i].l = stack'[v][j].l
               PROVE  u = v /\ i = j
    BY DEF OneCreator
  <2>0. \A w \in Threads : \A k \in DOMAIN stack'[w] :
          ~(w = t /\ k = 1) /\ f.op = "initWeak" => stack'[w][k].l # f.l
    <3> SUFFICES ASSUME NEW w \in Threads, NEW k \in DOMAIN stack'[w], ~(w = t /\ k = 1),
                        f.op = "initWeak"
                 PROVE  stack'[w][k].l # f.l
      OBVIOUS
    <3>1. CASE w = t
      BY <1>3, <3>1
    <3>2. CASE w # t
      BY <1>1, <3>2
    <3> QED
      BY <3>1, <3>2
  <2>1. CASE (u = t /\ i = 1) \/ (v = t /\ j = 1)
    <3>1. CASE u = t /\ i = 1
      BY <1>2, <2>0, <3>1
    <3>2. CASE v = t /\ j = 1
      BY <1>2, <2>0, <3>2
    <3> QED
      BY <2>1, <3>1, <3>2
  <2>2. CASE ~(u = t /\ i = 1) /\ ~(v = t /\ j = 1)
    <3>1. PICK k \in DOMAIN stack[u] : /\ stack'[u][i] = stack[u][k]
                                       /\ k = IF u = t THEN i - 1 ELSE i
      BY <1>1, <1>3, <2>2
    <3>2. PICK n \in DOMAIN stack[v] : /\ stack'[v][j] = stack[v][n]
                                       /\ n = IF v = t THEN j - 1 ELSE j
      BY <1>1, <1>3, <2>2
    <3>3. u = v /\ k = n
      BY <3>1, <3>2 DEF StackInv, StackOK, OneCreator
    <3>4. i \in Nat /\ j \in Nat
      BY <1>6
    <3> QED
      BY <3>1, <3>2, <3>3, <3>4
  <2> QED
    BY <2>1, <2>2
<1>8. \A u \in Threads : \A i \in DOMAIN stack'[u] :
        /\ FrameShape(stack'[u][i])
        /\ i > 1 => stack'[u][i].pc \in {"client", "classInit"}
  BY <1>1, <1>5 DEF StackInv, StackOK
<1> QED
  BY <1>4, <1>6, <1>7, <1>8 DEF StackOK

\* The innermost call goes on.
LEMMA SetTopFrames ==
  ASSUME StackInv, NEW t \in Threads, NEW f \in Frame, FrameShape(f), SetTop(t, f),
         stack[t] # <<>>, f.op = Top(t).op, f.l = Top(t).l
  PROVE  StackOK' /\ FramesFrom(t, f) /\ stack'[t] # <<>> /\ Top(t)' = f
<1>1. /\ stack[t] \in Seq(Frame) /\ stack'[t] = <<f>> \o Tail(stack[t])
      /\ \A u \in Threads : u # t => stack'[u] = stack[u]
  BY DEF StackInv, StackOK, SetTop
<1>2. /\ stack'[t] \in Seq(Frame) /\ Len(stack'[t]) = Len(stack[t]) /\ stack'[t][1] = f
      /\ \A i \in 2 .. Len(stack[t]) : stack'[t][i] = stack[t][i]
  BY <1>1, StackOps
<1>3. \A i \in DOMAIN stack'[t] : i # 1 =>
        i \in DOMAIN stack[t] /\ i > 1 /\ stack'[t][i] = stack[t][i]
  BY <1>1, <1>2
<1>4. FramesFrom(t, f)
  BY <1>1, <1>2, <1>3 DEF FramesFrom
<1>5. stack' \in [Threads -> Seq(Frame)]
  BY <1>2 DEF StackInv, StackOK, SetTop
<1>6. stack'[t] # <<>> /\ Top(t)' = f
  BY <1>1, <1>2 DEF Top
<1>7. \A u \in Threads : \A i \in DOMAIN stack'[u] :
        /\ FrameShape(stack'[u][i])
        /\ i > 1 => stack'[u][i].pc \in {"client", "classInit"}
  <2> SUFFICES ASSUME NEW u \in Threads, NEW i \in DOMAIN stack'[u]
               PROVE  /\ FrameShape(stack'[u][i])
                      /\ i > 1 => stack'[u][i].pc \in {"client", "classInit"}
    OBVIOUS
  <2>1. CASE u = t /\ i = 1
    BY <1>2, <2>1
  <2>2. CASE ~(u = t /\ i = 1)
    <3>1. i \in DOMAIN stack[u] /\ stack'[u][i] = stack[u][i]
      BY <1>1, <1>3, <2>2
    <3> QED
      BY <3>1 DEF StackInv, StackOK
  <2> QED
    BY <2>1, <2>2
<1>8. OneCreator'
  <2>1. \A u \in Threads : \A i \in DOMAIN stack'[u] :
          /\ i \in DOMAIN stack[u]
          /\ stack'[u][i].op = stack[u][i].op /\ stack'[u][i].l = stack[u][i].l
    BY <1>1, <1>2, <1>3, TopFrame
  <2>2. OneCreator
    BY DEF StackInv, StackOK
  <2> QED
    BY <2>1, <2>2 DEF OneCreator
<1> QED
  BY <1>4, <1>5, <1>6, <1>7, <1>8 DEF StackOK

\* The innermost call returns.
LEMMA ReturnFrames ==
  ASSUME StackInv, NEW t \in Threads, Return(t), stack[t] # <<>>, NEW f
  PROVE  StackOK' /\ FramesFrom(t, f)
<1>1. /\ stack[t] \in Seq(Frame) /\ stack'[t] = Tail(stack[t])
      /\ \A u \in Threads : u # t => stack'[u] = stack[u]
  BY DEF StackInv, StackOK, Return
<1>2. /\ stack'[t] \in Seq(Frame) /\ Len(stack'[t]) = Len(stack[t]) - 1
      /\ \A i \in 1 .. Len(stack[t]) - 1 : stack'[t][i] = stack[t][i + 1]
  <2>1. 1 \in DOMAIN stack[t]
    BY TopFrame
  <2>2. stack[t][1] \in Frame
    BY <1>1, <2>1
  <2> QED
    BY <1>1, <2>2, StackOps
<1>3. \A i \in DOMAIN stack'[t] : /\ i + 1 \in DOMAIN stack[t] /\ i + 1 > 1
                                  /\ stack'[t][i] = stack[t][i + 1]
  BY <1>1, <1>2
<1>4. FramesFrom(t, f)
  BY <1>1, <1>3 DEF FramesFrom
<1>5. stack' \in [Threads -> Seq(Frame)]
  BY <1>2 DEF StackInv, StackOK, Return
<1>6. OneCreator'
  <2>1. \A u \in Threads : \A i \in DOMAIN stack'[u] : i \in Nat /\
          \E k \in DOMAIN stack[u] : /\ stack'[u][i] = stack[u][k]
                                     /\ k = IF u = t THEN i + 1 ELSE i
    BY <1>1, <1>3, <1>5
  <2> QED
    BY <2>1 DEF StackInv, StackOK, OneCreator
<1>7. \A u \in Threads : \A i \in DOMAIN stack'[u] :
        /\ FrameShape(stack'[u][i])
        /\ i > 1 => stack'[u][i].pc \in {"client", "classInit"}
  BY <1>1, <1>3, SMTT(30) DEF StackInv, StackOK
<1> QED
  BY <1>4, <1>5, <1>6, <1>7 DEF StackOK
-----------------------------------------------------------------------------
\* What is known of the innermost frame f that a step of t leaves, from what it
\* looked at: the class is at least being initialized, the object is dying, its
\* variables are cleared, the variable to create does not exist.
Known(t, f) ==
  /\ f.op \in WeakOps \cup {"setClass"} /\ f.pc # "classInit" /\ f.c # Nil =>
       \/ class[f.c] = "initialized" \/ initializer[f.c] = t
       \/ /\ stack[t] # <<>> /\ Top(t).op \in WeakOps \cup {"setClass"}
          /\ Top(t).pc # "classInit" /\ f.c = Top(t).c
  /\ f.op = "dealloc" =>
       \/ life'[f.obj] = "deallocating"
       \/ stack[t] # <<>> /\ Top(t).op = "dealloc" /\ f.obj = Top(t).obj
  /\ f.op = "dealloc" /\ f.pc = "free" =>
       /\ stack[t] # <<>> /\ Top(t).op = "dealloc" /\ f.obj = Top(t).obj
       /\ f.obj \notin weak \/ clearDeallocating(t)
  /\ f.op = "initWeak" =>
       \/ f.l \notin valid
       \/ stack[t] # <<>> /\ Top(t).op = "initWeak" /\ f.l = Top(t).l

Arrives(t) == \E f : FramesFrom(t, f) /\ Known(t, f)

\* A call that returns leaves nothing new.
LEMMA ReturnArrives ==
  ASSUME StackInv, NEW t \in Threads, Return(t), stack[t] # <<>>
  PROVE  StackOK' /\ Arrives(t)
<1> DEFINE f == [op |-> "none"]
<1>1. StackOK' /\ FramesFrom(t, f)
  BY ReturnFrames
<1>2. Known(t, f)
  BY DEF Known, WeakOps
<1> QED
  BY <1>1, <1>2 DEF Arrives

\* Nor does a step that leaves the stacks alone.
LEMMA StayArrives ==
  ASSUME StackInv, NEW t \in Threads, stack' = stack
  PROVE  StackOK' /\ Arrives(t)
<1> DEFINE f == [op |-> "none"]
<1>1. StackOK' /\ FramesFrom(t, f)
  BY DEF StackInv, StackOK, OneCreator, FramesFrom
<1>2. Known(t, f)
  BY DEF Known, WeakOps
<1> QED
  BY <1>1, <1>2 DEF Arrives

\* A call by client code.
LEMMA CallArrives ==
  ASSUME StackInv, NEW t \in Threads,
         NEW op \in Ops, NEW pc \in PCs, NEW l \in Locations \cup {Nil},
         NEW o \in Objects \cup {Nil}, NEW c \in Classes \cup {Nil},
         Call(t, op, pc, l, o, c),
         FrameShape([op |-> op, pc |-> pc, l |-> l, obj |-> o, old |-> Nil, c |-> c]),
         op \notin {"initialize", "dealloc"},
         op = "initWeak" => l \notin valid /\
           \A u \in Threads : \A i \in DOMAIN stack[u] : stack[u][i].l # l,
         pc # "classInit" /\ c # Nil => class[c] = "initialized"
  PROVE  StackOK' /\ Arrives(t)
<1> DEFINE f == [op |-> op, pc |-> pc, l |-> l, obj |-> o, old |-> Nil, c |-> c]
<1>1. f \in Frame /\ FrameShape(f)
  BY DEF Frame
<1>2. /\ stack[t] = <<>> \/ Top(t).pc \in {"client", "classInit"}
      /\ Push(t, f)
  BY DEF Call, InClientCode, At
<1>3. Known(t, f)
  BY DEF Known
<1>4. /\ f.op = op /\ f.l = l
  OBVIOUS
<1> HIDE DEF f
<1>5. StackOK' /\ FramesFrom(t, f)
  BY <1>1, <1>2, <1>4, PushFrames
<1> QED
  BY <1>3, <1>5 DEF Arrives

\* The calls of client code, and the release that runs -dealloc.
LEMMA CallsArrive ==
  ASSUME StackInv, NEW t \in Threads, Calls(t)
  PROVE  StackOK' /\ Arrives(t)
<1>1. CASE \E l \in Locations, o \in Objects \cup {Nil} : objc_storeWeakOrNil(t, l, o)
  BY <1>1, CallArrives DEF objc_storeWeakOrNil, FrameShape, WeakOps, Ops, PCs
<1>2. CASE \E l \in Locations, o \in Objects : objc_initWeakOrNil(t, l, o)
  BY <1>2, CallArrives DEF objc_initWeakOrNil, FrameShape, WeakOps, Ops, PCs
<1>3. CASE \E l \in Locations : objc_destroyWeak(t, l) \/ objc_loadWeakRetained(t, l)
  BY <1>3, CallArrives DEF objc_destroyWeak, objc_loadWeakRetained, FrameShape, WeakOps,
                           Ops, PCs
<1>4. CASE \E o \in Objects, c \in Classes : object_setClass(t, o, c)
  BY <1>4, CallArrives DEF object_setClass, FrameShape, WeakOps, Ops, PCs
<1>5. CASE \E o \in Objects : Release(t, o)
  <2> PICK o \in Objects : Release(t, o)
    BY <1>5
  <2>1. CASE own[o] = {t}
    <3> DEFINE f == [op |-> "dealloc", pc |-> "client", l |-> Nil, obj |-> o,
                     old |-> Nil, c |-> Nil]
    <3>1. f \in Frame /\ FrameShape(f) /\ f.op = "dealloc"
      BY DEF Frame, Ops, PCs, FrameShape, WeakOps
    <3>2. Push(t, f) /\ (stack[t] = <<>> \/ Top(t).pc \in {"client", "classInit"})
      BY <2>1 DEF Release, At
    <3>3. Known(t, f)
      BY <2>1 DEF Known, Release, WeakOps, StackInv, TypeOK
    <3> HIDE DEF f
    <3> QED
      BY <3>1, <3>2, <3>3, PushFrames DEF Arrives
  <2>2. CASE own[o] # {t}
    BY <2>2, StayArrives DEF Release
  <2> QED
    BY <2>1, <2>2
<1> QED
  BY <1>1, <1>2, <1>3, <1>4, <1>5 DEF Calls
\* The innermost call goes on: only its pc, the value read and the class change.
LEMMA GoArrives ==
  ASSUME StackInv, NEW t \in Threads, stack[t] # <<>>, NEW pc \in PCs,
         NEW old \in Objects \cup {Nil}, NEW c \in Classes \cup {Nil},
         SetTop(t, [Top(t) EXCEPT !.pc = pc, !.old = old, !.c = c]),
         FrameShape([Top(t) EXCEPT !.pc = pc, !.old = old, !.c = c]),
         Known(t, [Top(t) EXCEPT !.pc = pc, !.old = old, !.c = c])
  PROVE  StackOK' /\ Arrives(t)
<1> DEFINE f == [Top(t) EXCEPT !.pc = pc, !.old = old, !.c = c]
<1>1. f \in Frame /\ f.op = Top(t).op /\ f.l = Top(t).l
  BY TopFrame DEF Frame
<1>2. SetTop(t, f) /\ FrameShape(f) /\ Known(t, f)
  OBVIOUS
<1> HIDE DEF f
<1> QED
  BY <1>1, <1>2, SetTopFrames DEF Arrives

\* Going on to another pc, and nothing else.
LEMMA GotoArrives ==
  ASSUME StackInv, NEW t \in Threads, stack[t] # <<>>, NEW pc \in PCs, Goto(t, pc),
         FrameShape([Top(t) EXCEPT !.pc = pc]), Known(t, [Top(t) EXCEPT !.pc = pc])
  PROVE  StackOK' /\ Arrives(t)
<1>1. Top(t) \in Frame
  BY TopFrame
<1>2. [Top(t) EXCEPT !.pc = pc] = [Top(t) EXCEPT !.pc = pc, !.old = Top(t).old, !.c = Top(t).c]
  BY <1>1 DEF Frame
<1>3. Top(t).old \in Objects \cup {Nil} /\ Top(t).c \in Classes \cup {Nil}
  BY <1>1 DEF Frame
<1> QED
  BY <1>2, <1>3, GoArrives DEF Goto

\* The steps of storeWeak and objc_loadWeakRetained.
LEMMA WeakOpsArrive ==
  ASSUME StackInv, NEW t \in Threads,
         \/ ReadLocation(t) \/ LockNext(t) \/ Retry(t) \/ UnlockAndInitialize(t)
         \/ CommitStore(t) \/ CommitDestroy(t) \/ CommitLoad(t)
  PROVE  StackOK' /\ Arrives(t)
<1>0. stack[t] # <<>> /\ Top(t).op \in WeakOps /\ Top(t).pc \in {"read", "lock", "check"}
  BY DEF ReadLocation, LockNext, Retry, UnlockAndInitialize, CommitStore, CommitDestroy,
         CommitLoad, Ready, In, At, WeakOps
<1>1. Top(t) \in Frame /\ FrameShape(Top(t))
  BY <1>0, TopFrame
<1>2. CASE ReadLocation(t)
  <2>1. CASE Return(t)
    BY <1>0, <2>1, ReturnArrives
  <2>2. CASE ~Return(t)
    <3> DEFINE old == IF HaveOld(Top(t)) THEN loc[Top(t).l] ELSE Nil
               f == [Top(t) EXCEPT !.pc = "lock", !.old = old]
    <3>1. /\ SetTop(t, f) /\ (Top(t).op = "loadWeak" => loc[Top(t).l] # Nil)
          /\ Top(t).pc = "read"
      BY <1>2, <2>2 DEF ReadLocation, In, At
    <3>2. loc[Top(t).l] \in Objects \cup {Nil} /\ old \in Objects \cup {Nil}
      BY <1>0, <1>1 DEF FrameShape, StackInv, TypeOK
    <3>3. Top(t).op = "loadWeak" => old \in Objects
      BY <3>1, <3>2 DEF HaveOld
    <3>4. f = [Top(t) EXCEPT !.pc = "lock", !.old = old, !.c = Top(t).c]
          /\ Top(t).c \in Classes \cup {Nil}
      BY <1>1 DEF Frame
    <3> HIDE DEF old
    <3>5. FrameShape(f)
      BY <1>0, <1>1, <3>3 DEF FrameShape, Frame, WeakOps
    <3>6. Known(t, f)
      BY <1>0, <1>1, <3>1 DEF Known, Frame, WeakOps
    <3> QED
      BY <1>0, <3>1, <3>2, <3>4, <3>5, <3>6, GoArrives DEF PCs
  <2> QED
    BY <2>1, <2>2
<1>3. CASE LockNext(t)
  <2>1. CASE stack' = stack
    BY <2>1, StayArrives
  <2>2. CASE Goto(t, "check")
    <3>1. FrameShape([Top(t) EXCEPT !.pc = "check"])
      BY <1>0, <1>1, <1>3 DEF LockNext, In, At, FrameShape, Frame, WeakOps
    <3>2. Known(t, [Top(t) EXCEPT !.pc = "check"])
      BY <1>0, <1>1 DEF Known, Frame, WeakOps
    <3> QED
      BY <1>0, <2>2, <3>1, <3>2, GotoArrives DEF PCs
  <2> QED
    BY <1>3, <2>1, <2>2 DEF LockNext
<1>4. CASE Retry(t)
  <2>1. FrameShape([Top(t) EXCEPT !.pc = "read"])
    BY <1>0, <1>1 DEF FrameShape, Frame, WeakOps
  <2>2. Known(t, [Top(t) EXCEPT !.pc = "read"])
    BY <1>0, <1>1 DEF Known, Frame, WeakOps
  <2> QED
    BY <1>0, <1>4, <2>1, <2>2, GotoArrives DEF PCs, Retry
<1>5. CASE UnlockAndInitialize(t)
  <2> DEFINE c == IF HaveNew(Top(t)) THEN cls[Top(t).obj] ELSE cls[Top(t).old]
             f == [Top(t) EXCEPT !.pc = "classInit", !.c = c]
  <2>1. SetTop(t, f) /\ Top(t).pc = "check"
    BY <1>5 DEF UnlockAndInitialize, In, At
  <2>2. c \in Classes
    <3>1. \/ HaveNew(Top(t)) /\ Top(t).obj # Nil
          \/ Top(t).op = "loadWeak"
      BY <1>5 DEF UnlockAndInitialize, MustInitialize
    <3>2. IF HaveNew(Top(t)) THEN Top(t).obj \in Objects ELSE Top(t).old \in Objects
      BY <1>1, <2>1, <3>1 DEF Frame, FrameShape, HaveNew
    <3> QED
      BY <3>2 DEF StackInv, TypeOK
  <2>3. f = [Top(t) EXCEPT !.pc = "classInit", !.old = Top(t).old, !.c = c]
        /\ Top(t).old \in Objects \cup {Nil}
    BY <1>1 DEF Frame
  <2> HIDE DEF c
  <2>4. FrameShape(f)
    BY <1>0, <1>1, <2>1, <2>2 DEF FrameShape, Frame, WeakOps
  <2>5. Known(t, f)
    BY <1>0, <1>1 DEF Known, Frame, WeakOps
  <2> QED
    BY <1>0, <2>1, <2>2, <2>3, <2>4, <2>5, GoArrives DEF PCs
<1>6. CASE CommitStore(t) \/ CommitDestroy(t) \/ CommitLoad(t)
  BY <1>0, <1>6, ReturnArrives DEF CommitStore, CommitDestroy, CommitLoad
<1> QED
  BY <1>2, <1>3, <1>4, <1>5, <1>6

\* The steps of +initialize, object_setClass and -dealloc.
LEMMA ClientArrives ==
  ASSUME StackInv, NEW t \in Threads,
         \/ BeginInitialize(t) \/ ClassInitReturns(t) \/ InitializeReturns(t)
         \/ SetInitialized(t) \/ changeIsa(t)
         \/ rootDealloc(t) \/ clearDeallocating(t) \/ Free(t)
  PROVE  StackOK' /\ Arrives(t)
<1>0. stack[t] # <<>>
  BY DEF BeginInitialize, ClassInitReturns, InitializeReturns, SetInitialized, changeIsa,
         rootDealloc, clearDeallocating, Free, In, At
<1>1. Top(t) \in Frame /\ FrameShape(Top(t))
  BY <1>0, TopFrame
<1>2. CASE BeginInitialize(t)
  <2> DEFINE f == [op |-> "initialize", pc |-> "client", l |-> Nil, obj |-> Nil,
                   old |-> Nil, c |-> Top(t).c]
  <2>1. Push(t, f) /\ Top(t).pc = "classInit"
    BY <1>2 DEF BeginInitialize, At
  <2>2. f \in Frame /\ FrameShape(f) /\ f.op = "initialize"
    BY <1>1, <2>1 DEF Frame, Ops, PCs, FrameShape, WeakOps
  <2>3. Known(t, f)
    BY DEF Known, WeakOps
  <2> HIDE DEF f
  <2> QED
    BY <2>1, <2>2, <2>3, PushFrames DEF Arrives
<1>3. CASE ClassInitReturns(t)
  <2>1. /\ Goto(t, AfterInit(Top(t))) /\ Top(t).pc = "classInit"
        /\ class[Top(t).c] = "initialized" \/ initializer[Top(t).c] = t
    BY <1>3 DEF ClassInitReturns, At
  <2>2. Top(t).op \in WeakOps \cup {"setClass"} /\ AfterInit(Top(t)) \in PCs
    BY <1>1, <2>1 DEF Frame, Ops, FrameShape, WeakOps, AfterInit, PCs
  <2>3. FrameShape([Top(t) EXCEPT !.pc = AfterInit(Top(t))])
    BY <1>1, <2>1, <2>2 DEF FrameShape, Frame, WeakOps, AfterInit
  <2>4. Known(t, [Top(t) EXCEPT !.pc = AfterInit(Top(t))])
    BY <1>0, <1>1, <2>1, <2>2 DEF Known, Frame, WeakOps, AfterInit
  <2> QED
    BY <1>0, <2>1, <2>2, <2>3, <2>4, GotoArrives
<1>4. CASE InitializeReturns(t)
  <2>1. Goto(t, "finish") /\ Top(t).op = "initialize"
    BY <1>4 DEF InitializeReturns, In, At
  <2>2. FrameShape([Top(t) EXCEPT !.pc = "finish"])
    BY <1>1, <2>1 DEF FrameShape, Frame, WeakOps
  <2>3. Known(t, [Top(t) EXCEPT !.pc = "finish"])
    BY <1>1, <2>1 DEF Known, Frame, WeakOps
  <2> QED
    BY <1>0, <2>1, <2>2, <2>3, GotoArrives DEF PCs
<1>5. CASE SetInitialized(t) \/ changeIsa(t) \/ Free(t)
  BY <1>0, <1>5, ReturnArrives DEF SetInitialized, changeIsa, Free
<1>6. CASE rootDealloc(t) \/ clearDeallocating(t)
  <2>1. PICK pc \in {"clear", "free"} :
          /\ Goto(t, pc) /\ Top(t).op = "dealloc"
          /\ pc = "free" => Top(t).obj \notin weak \/ clearDeallocating(t)
    BY <1>6 DEF rootDealloc, clearDeallocating, In, At
  <2>2. FrameShape([Top(t) EXCEPT !.pc = pc])
    BY <1>1, <2>1 DEF FrameShape, Frame, WeakOps
  <2>3. Known(t, [Top(t) EXCEPT !.pc = pc])
    BY <1>0, <1>1, <2>1 DEF Known, Frame, WeakOps
  <2> QED
    BY <1>0, <2>1, <2>2, <2>3, GotoArrives DEF PCs
<1> QED
  BY <1>2, <1>3, <1>4, <1>5, <1>6
-----------------------------------------------------------------------------
(* The first layer. *)

\* A step of any call by thread t.
Move(t) == Calls(t) \/ Step(t)

\* The variables other than the stack keep their types.
VarsOK ==
  /\ loc \in [Locations -> Objects \cup {Nil}]
  /\ valid \subseteq Locations
  /\ referrers \in [Objects -> SUBSET Locations]
  /\ weak \subseteq Objects
  /\ lock \in [Tables -> Threads \cup {NoThread}]
  /\ cls \in [Objects -> Classes]
  /\ class \in [Classes -> {"uninitialized", "initializing", "defaultRR", "initialized"}]
  /\ initializer \in [Classes -> Threads \cup {NoThread}]
  /\ own \in [Objects -> SUBSET Threads]
  /\ life \in [Objects -> {"alive", "deallocating", "freed"}]
  /\ calls \in 0 .. MaxCalls

USE DEF weakVars, classVars, counts

\* TypeOK is the types of the variables and of the frames.
LEMMA TypeParts == TypeOK <=> VarsOK /\ \A t \in Threads : \A i \in DOMAIN stack[t] :
                                          stack[t][i] \in Frame
  BY DEF TypeOK, VarsOK

\* Calls of client code keep the types.
LEMMA CallsTyped ==
  ASSUME VarsOK, NEW t \in Threads, Calls(t)
  PROVE  VarsOK'
<1>1. CASE \E o \in Objects : Release(t, o)
  BY <1>1 DEF Release, VarsOK
<1>2. CASE ~\E o \in Objects : Release(t, o)
  <2>1. /\ UNCHANGED <<weakVars, lock, cls, classVars, counts>>
        /\ calls < MaxCalls /\ calls' = calls + 1
    BY <1>2 DEF Calls, objc_storeWeakOrNil, objc_initWeakOrNil, objc_destroyWeak,
                objc_loadWeakRetained, object_setClass, Call, InClientCode
  <2> QED
    BY <2>1, WeakRefAssumption DEF VarsOK
<1> QED
  BY <1>1, <1>2

\* So do the steps of the calls.
LEMMA StepTyped ==
  ASSUME StackInv, VarsOK, NEW t \in Threads, Step(t)
  PROVE  VarsOK'
<1>0. stack[t] # <<>>
  BY DEF Step, ReadLocation, LockNext, Retry, UnlockAndInitialize, CommitStore,
         CommitDestroy, CommitLoad, Ready, BeginInitialize, ClassInitReturns,
         InitializeReturns, SetInitialized, changeIsa, rootDealloc, clearDeallocating,
         Free, In, At
<1>1. Top(t) \in Frame /\ FrameShape(Top(t))
  BY <1>0, TopFrame
<1>2. CASE ReadLocation(t) \/ LockNext(t) \/ Retry(t) \/ UnlockAndInitialize(t)
  BY <1>2 DEF VarsOK, ReadLocation, LockNext, Retry, UnlockAndInitialize, Unlock
<1>3. CASE CommitStore(t)
  <2>1. Top(t).l \in Locations /\ Top(t).obj \in Objects \cup {Nil}
    BY <1>1, <1>3 DEF CommitStore, Ready, In, At, FrameShape, WeakOps, Frame
  <2>2. valid' \subseteq Locations /\ lock' \in [Tables -> Threads \cup {NoThread}]
    BY <1>3, <2>1 DEF VarsOK, CommitStore, Unlock
  <2>3. referrers' \in [Objects -> SUBSET Locations]
    BY <1>3, <2>1 DEF VarsOK, CommitStore
  <2>4. loc' \in [Locations -> Objects \cup {Nil}] /\ weak' \subseteq Objects
    BY <1>3, <2>1 DEF VarsOK, CommitStore, Register, Viable
  <2> QED
    BY <1>3, <2>2, <2>3, <2>4 DEF VarsOK, CommitStore
<1>4. CASE CommitDestroy(t)
  BY <1>4 DEF VarsOK, CommitDestroy, Unlock
<1>5. CASE CommitLoad(t)
  BY <1>5 DEF VarsOK, CommitLoad, TryRetain, Unlock
<1>6. CASE BeginInitialize(t) \/ ClassInitReturns(t) \/ InitializeReturns(t)
  BY <1>6 DEF VarsOK, BeginInitialize, ClassInitReturns, InitializeReturns
<1>7. CASE SetInitialized(t) \/ rootDealloc(t) \/ Free(t)
  BY <1>7 DEF VarsOK, SetInitialized, rootDealloc, Free
<1>8. CASE changeIsa(t)
  <2>1. Top(t).c \in Classes
    BY <1>1, <1>8 DEF changeIsa, In, At, FrameShape
  <2> QED
    BY <1>8, <2>1 DEF VarsOK, changeIsa
<1>9. CASE clearDeallocating(t)
  BY <1>9 DEF VarsOK, clearDeallocating
<1> QED
  BY <1>2, <1>3, <1>4, <1>5, <1>6, <1>7, <1>8, <1>9 DEF Step

\* Every step keeps the first layer and leaves a frame of which enough is known.
LEMMA StackStep ==
  ASSUME StackInv, NEW t \in Threads, Move(t)
  PROVE  StackInv' /\ Arrives(t)
<1>1. StackOK' /\ Arrives(t)
  BY CallsArrive, WeakOpsArrive, ClientArrives DEF Move, Step
<1>2. VarsOK'
  BY CallsTyped, StepTyped, TypeParts DEF Move, StackInv
<1>3. \A u \in Threads : \A i \in DOMAIN stack'[u] : stack'[u][i] \in Frame
  BY <1>1 DEF StackOK
<1> QED
  BY <1>1, <1>2, <1>3, TypeParts DEF StackInv, TypeOK, VarsOK

\* The first layer holds initially.
LEMMA InitStack == Init => StackInv
<1> SUFFICES ASSUME Init PROVE StackInv
  OBVIOUS
<1>1. VarsOK
  BY WeakRefAssumption DEF Init, VarsOK, Locations
<1>2. StackOK
  BY DEF Init, StackOK, OneCreator
<1>3. \A t \in Threads : \A i \in DOMAIN stack[t] : stack[t][i] \in Frame
  BY DEF Init
<1> QED
  BY <1>1, <1>2, <1>3, TypeParts DEF StackInv
-----------------------------------------------------------------------------
(* The second layer. *)

\* A class never goes back, and what a thread initializes has begun.
LEMMA ClassesMove ==
  ASSUME StackInv, ClassesBegun, NEW t \in Threads, Move(t), NEW c \in Classes
  PROVE  /\ class[c] # "uninitialized" => class'[c] # "uninitialized"
         /\ initializer'[c] # NoThread => class'[c] # "uninitialized"
<1>1. CASE UNCHANGED classVars
  BY <1>1 DEF ClassesBegun
<1>2. CASE BeginInitialize(t)
  BY <1>2 DEF BeginInitialize, ClassesBegun, StackInv, TypeOK
<1>3. CASE InitializeReturns(t)
  BY <1>3 DEF InitializeReturns, ClassesBegun, StackInv, TypeOK
<1>4. CASE SetInitialized(t)
  BY <1>4 DEF SetInitialized, ClassesBegun, StackInv, TypeOK
<1> QED
  BY <1>1, <1>2, <1>3, <1>4
     DEF Move, Step, Calls, objc_storeWeakOrNil, objc_initWeakOrNil, objc_destroyWeak,
         objc_loadWeakRetained, object_setClass, Call, Release, ReadLocation, LockNext,
         Retry, UnlockAndInitialize, CommitStore, CommitDestroy, CommitLoad,
         ClassInitReturns, changeIsa, rootDealloc, clearDeallocating, Free

LEMMA ClassesStep ==
  ASSUME StackInv, ClassesBegun, NEW t \in Threads, Move(t)
  PROVE  ClassesBegun'
<1>0. \A c \in Classes : /\ class[c] # "uninitialized" => class'[c] # "uninitialized"
                         /\ initializer'[c] # NoThread => class'[c] # "uninitialized"
  BY ClassesMove
<1> SUFFICES ASSUME NEW u \in Threads, NEW i \in DOMAIN stack'[u],
                    stack'[u][i].op \in WeakOps \cup {"setClass"},
                    stack'[u][i].pc # "classInit", stack'[u][i].c # Nil
             PROVE  class'[stack'[u][i].c] # "uninitialized"
  BY <1>0 DEF ClassesBegun
<1>1. stack'[u][i].c \in Classes
  <2>1. StackOK'
    BY StackStep DEF StackInv
  <2>2. stack'[u] \in Seq(Frame)
    BY <2>1 DEF StackOK
  <2>3. stack'[u][i] \in Frame
    BY <2>2
  <2> QED
    BY <2>3 DEF Frame
<1>2. PICK f : FramesFrom(t, f) /\ Known(t, f)
  BY StackStep DEF Arrives
<1>3. CASE \E j \in DOMAIN stack[u] : stack'[u][i] = stack[u][j]
  BY <1>0, <1>1, <1>3 DEF ClassesBegun
<1>4. CASE stack'[u][i] = f /\ u = t
  <2>1. \/ class[f.c] = "initialized" \/ initializer[f.c] = t
        \/ /\ stack[t] # <<>> /\ Top(t).op \in WeakOps \cup {"setClass"}
           /\ Top(t).pc # "classInit" /\ f.c = Top(t).c
    BY <1>2, <1>4 DEF Known
  <2>2. class[f.c] # "uninitialized"
    <3>1. CASE class[f.c] = "initialized" \/ initializer[f.c] = t
      BY <1>1, <1>4, <3>1, WeakRefAssumption DEF ClassesBegun
    <3>2. CASE /\ stack[t] # <<>> /\ Top(t).op \in WeakOps \cup {"setClass"}
               /\ Top(t).pc # "classInit" /\ f.c = Top(t).c
      <4>1. 1 \in DOMAIN stack[t] /\ Top(t) = stack[t][1]
        BY <3>2, TopFrame
      <4> QED
        BY <1>1, <1>4, <3>2, <4>1 DEF ClassesBegun
    <3> QED
      BY <2>1, <3>1, <3>2
  <2> QED
    BY <1>0, <1>1, <1>4, <2>2
<1> QED
  BY <1>2, <1>3, <1>4 DEF FramesFrom

\* Strong references: nobody gets one to an object that is being deallocated.
LEMMA OwnedStep ==
  ASSUME StackInv, Dying, OwnedIsAlive, NEW t \in Threads, Move(t)
  PROVE  /\ OwnedIsAlive'
         /\ \A o \in Objects : life[o] # "alive" => life'[o] # "alive"
<1>1. CASE UNCHANGED counts
  BY <1>1 DEF OwnedIsAlive
<1>2. CASE CommitLoad(t)
  BY <1>2 DEF CommitLoad, TryRetain, OwnedIsAlive, StackInv, TypeOK
<1>3. CASE \E o \in Objects : Release(t, o)
  BY <1>3 DEF Release, OwnedIsAlive, StackInv, TypeOK
<1>4. CASE Free(t)
  <2>1. stack[t] # <<>> /\ Top(t).op = "dealloc"
    BY <1>4 DEF Free, In, At
  <2>2. 1 \in DOMAIN stack[t] /\ Top(t) = stack[t][1] /\ Top(t).obj \in Objects
    BY <2>1, TopFrame DEF FrameShape
  <2>3. life[Top(t).obj] # "alive"
    BY <2>1, <2>2 DEF Dying
  <2> QED
    BY <1>4, <2>2, <2>3 DEF Free, OwnedIsAlive, StackInv, TypeOK
<1> QED
  BY <1>1, <1>2, <1>3, <1>4
     DEF Move, Step, Calls, objc_storeWeakOrNil, objc_initWeakOrNil, objc_destroyWeak,
         objc_loadWeakRetained, object_setClass, Call, ReadLocation, LockNext,
         Retry, UnlockAndInitialize, CommitStore, CommitDestroy,
         BeginInitialize, InitializeReturns, SetInitialized,
         ClassInitReturns, changeIsa, rootDealloc, clearDeallocating
\* The only steps that change what the variables hold or which exist.
LEMMA VariablesMove ==
  ASSUME NEW t \in Threads, Move(t)
  PROVE  \/ UNCHANGED weakVars
         \/ CommitStore(t) \/ CommitDestroy(t) \/ clearDeallocating(t)
  BY DEF Move, Step, Calls, objc_storeWeakOrNil, objc_initWeakOrNil, objc_destroyWeak,
         objc_loadWeakRetained, object_setClass, Call, Release, ReadLocation, LockNext,
         Retry, UnlockAndInitialize, CommitLoad, BeginInitialize, InitializeReturns,
         SetInitialized, ClassInitReturns, changeIsa, rootDealloc, Free

\* What CommitStore does: the variable f.l, which held f.old if it existed, gets
\* an object that is alive, or nil.
LEMMA StoreEffect ==
  ASSUME StackInv, Creating, NEW t \in Threads, CommitStore(t)
  PROVE  \E new \in Objects \cup {Nil} :
           /\ Top(t).l \in Locations
           /\ new # Nil => /\ life[new] = "alive" /\ new = Top(t).obj
                           /\ \/ cls[new] = Top(t).c
                              \/ class[cls[new]] = "initialized"
           /\ loc' = [loc EXCEPT ![Top(t).l] = new]
           /\ valid' = valid \cup {Top(t).l}
           /\ weak' = weak \cup ({new} \ {Nil})
           /\ \/ Top(t).op = "storeWeak" /\ Top(t).l \in valid /\ loc[Top(t).l] = Top(t).old
              \/ Top(t).op = "initWeak" /\ Top(t).l \notin valid
           /\ referrers' = [o \in Objects |->
                (IF Top(t).op = "storeWeak" /\ o = Top(t).old
                 THEN referrers[o] \ {Top(t).l} ELSE referrers[o])
                \cup (IF o = new THEN {Top(t).l} ELSE {})]
<1>1. /\ stack[t] # <<>> /\ Top(t).op \in {"storeWeak", "initWeak"}
      /\ ~Changed(Top(t)) /\ ~MustInitialize(t, Top(t))
  BY DEF CommitStore, Ready, In, At
<1>2. /\ Top(t).l \in Locations /\ Top(t).obj \in Objects \cup {Nil}
      /\ 1 \in DOMAIN stack[t] /\ Top(t) = stack[t][1]
      /\ Top(t).op = "storeWeak" => Top(t).l \in Shared
  BY <1>1, TopFrame DEF FrameShape, Frame, WeakOps
<1>3. \/ Top(t).op = "storeWeak" /\ Top(t).l \in valid /\ loc[Top(t).l] = Top(t).old
      \/ Top(t).op = "initWeak" /\ Top(t).l \notin valid
  BY <1>1, <1>2 DEF Changed, HaveOld, Creating
<1>4. HaveOld(Top(t)) <=> Top(t).op = "storeWeak"
  BY <1>1 DEF HaveOld
<1>5. PICK new \in Viable(Top(t).obj) :
        /\ loc' = [loc EXCEPT ![Top(t).l] = new]
        /\ weak' = weak \cup ({new} \ {Nil})
        /\ referrers' = [o \in Objects |->
                (IF Top(t).op = "storeWeak" /\ o = Top(t).old
                 THEN referrers[o] \ {Top(t).l} ELSE referrers[o])
                \cup (IF o = new THEN {Top(t).l} ELSE {})]
  BY <1>4 DEF CommitStore, Register
<1>6. /\ new \in Objects \cup {Nil}
      /\ new # Nil => /\ life[new] = "alive" /\ new = Top(t).obj
                      /\ \/ cls[new] = Top(t).c
                         \/ class[cls[new]] = "initialized"
  BY <1>1, <1>2 DEF Viable, MustInitialize, HaveNew
<1>7. valid' = valid \cup {Top(t).l}
  BY DEF CommitStore
<1> QED
  BY <1>2, <1>3, <1>5, <1>6, <1>7

\* An object that is not alive and is in no variable never gets into one.
LEMMA NoNewReference ==
  ASSUME StackInv, Creating, NEW t \in Threads, Move(t), NEW o \in Objects,
         life[o] # "alive", \A l \in valid : loc[l] # o
  PROVE  \A l \in valid' : loc'[l] # o
<1>1. CASE UNCHANGED weakVars
  BY <1>1
<1>2. CASE CommitStore(t)
  BY <1>2, StoreEffect, WeakRefAssumption DEF StackInv, TypeOK
<1>3. CASE CommitDestroy(t)
  BY <1>3 DEF CommitDestroy
<1>4. CASE clearDeallocating(t)
  BY <1>4, WeakRefAssumption DEF clearDeallocating, StackInv, TypeOK
<1> QED
  BY <1>1, <1>2, <1>3, <1>4, VariablesMove

\* When weak_clear_no_lock is done no variable holds the object.
LEMMA Cleared ==
  ASSUME StackInv, Exact, NEW t \in Threads, clearDeallocating(t)
  PROVE  \A l \in valid' : loc'[l] # Top(t).obj
<1>1. Top(t).obj \in Objects
  BY TopFrame DEF clearDeallocating, In, At, FrameShape
<1>2. referrers[Top(t).obj] = {l \in valid : loc[l] = Top(t).obj}
  BY <1>1 DEF Exact
<1> QED
  BY <1>1, <1>2, WeakRefAssumption DEF clearDeallocating, StackInv, TypeOK

\* No weak variable leads to an object that is being freed.
LEMMA DyingStep ==
  ASSUME StackInv, Creating, Exact, Dying, OwnedIsAlive, NEW t \in Threads, Move(t)
  PROVE  Dying'
<1>1. \A o \in Objects : life[o] # "alive" => life'[o] # "alive"
  BY OwnedStep
<1>2. \A o \in Objects : life'[o] = "freed" => \A l \in valid' : loc'[l] # o
  <2> SUFFICES ASSUME NEW o \in Objects, life'[o] = "freed"
               PROVE  \A l \in valid' : loc'[l] # o
    OBVIOUS
  <2>1. CASE life[o] = "freed"
    BY <2>1, NoNewReference DEF Dying
  <2>2. CASE life[o] # "freed"
    <3>1. Free(t) /\ Top(t).obj = o
      BY <2>2
         DEF Move, Step, Calls, objc_storeWeakOrNil, objc_initWeakOrNil, objc_destroyWeak,
         objc_loadWeakRetained, object_setClass, Call, Release, ReadLocation, LockNext,
         Retry, UnlockAndInitialize, CommitStore, CommitDestroy, CommitLoad,
         BeginInitialize, InitializeReturns, SetInitialized, ClassInitReturns, changeIsa,
         rootDealloc, clearDeallocating, Free, StackInv, TypeOK
    <3>2. stack[t] # <<>> /\ Top(t).op = "dealloc" /\ Top(t).pc = "free"
      BY <3>1 DEF Free, In, At
    <3>3. 1 \in DOMAIN stack[t] /\ Top(t) = stack[t][1]
      BY <3>2, TopFrame
    <3> QED
      BY <3>1, <3>2, <3>3 DEF Dying, Free
  <2> QED
    BY <2>1, <2>2
<1>3. ASSUME NEW u \in Threads, NEW i \in DOMAIN stack'[u], stack'[u][i].op = "dealloc"
      PROVE  /\ life'[stack'[u][i].obj] # "alive"
             /\ stack'[u][i].pc = "free" => \A l \in valid' : loc'[l] # stack'[u][i].obj
  <2>1. stack'[u][i].obj \in Objects
    <3>1. StackOK'
      BY StackStep DEF StackInv
    <3> QED
      BY <1>3, <3>1 DEF StackOK, FrameShape
  <2>2. PICK f : FramesFrom(t, f) /\ Known(t, f)
    BY StackStep DEF Arrives
  <2>3. CASE \E j \in DOMAIN stack[u] : stack'[u][i] = stack[u][j]
    <3>1. PICK j \in DOMAIN stack[u] : stack'[u][i] = stack[u][j]
      BY <2>3
    <3>2. /\ life[stack[u][j].obj] # "alive"
          /\ stack[u][j].pc = "free" => \A l \in valid : loc[l] # stack[u][j].obj
      BY <1>3, <3>1 DEF Dying
    <3> QED
      BY <1>1, <2>1, <3>1, <3>2, NoNewReference
  <2>4. CASE stack'[u][i] = f /\ u = t
    <3>1. stack[t] # <<>> => 1 \in DOMAIN stack[t] /\ Top(t) = stack[t][1]
      BY TopFrame
    <3>2. life'[f.obj] # "alive"
      <4>1. \/ life'[f.obj] = "deallocating"
            \/ stack[t] # <<>> /\ Top(t).op = "dealloc" /\ f.obj = Top(t).obj
        BY <1>3, <2>2, <2>4 DEF Known
      <4> QED
        BY <1>1, <2>1, <2>4, <3>1, <4>1 DEF Dying
    <3>3. ASSUME f.pc = "free" PROVE \A l \in valid' : loc'[l] # f.obj
      <4>1. /\ stack[t] # <<>> /\ Top(t).op = "dealloc" /\ f.obj = Top(t).obj
            /\ f.obj \notin weak \/ clearDeallocating(t)
        BY <1>3, <2>2, <2>4, <3>3 DEF Known
      <4>2. life[f.obj] # "alive"
        BY <3>1, <4>1 DEF Dying
      <4>3. CASE f.obj \notin weak
        <5>1. \A l \in valid : loc[l] # f.obj
          BY <2>1, <2>4, <4>3, WeakRefAssumption DEF Exact
        <5> QED
          BY <2>1, <2>4, <4>2, <5>1, NoNewReference
      <4>4. CASE clearDeallocating(t)
        BY <4>1, <4>4, Cleared
      <4> QED
        BY <4>1, <4>3, <4>4
    <3> QED
      BY <2>4, <3>2, <3>3
  <2> QED
    BY <2>2, <2>3, <2>4 DEF FramesFrom
<1> QED
  BY <1>2, <1>3 DEF Dying
\* The variable that a call creates does not come to exist before it returns.
LEMMA CreatingStep ==
  ASSUME StackInv, Creating, NEW t \in Threads, Move(t)
  PROVE  Creating'
<1>1. StackOK' /\ StackOK
  BY StackStep DEF StackInv
<1>2. CASE valid' \subseteq valid
  <2>1. Shared \subseteq valid'
    <3>1. CASE UNCHANGED weakVars
      BY <3>1 DEF Creating
    <3>2. CASE CommitStore(t)
      BY <3>2, StoreEffect DEF Creating
    <3>3. CASE CommitDestroy(t)
      <4>1. Top(t).l \in Private
        BY <3>3, TopFrame DEF CommitDestroy, Ready, In, At, FrameShape
      <4> QED
        BY <3>3, <4>1, WeakRefAssumption DEF CommitDestroy, Creating
    <3>4. CASE clearDeallocating(t)
      BY <3>4 DEF clearDeallocating, Creating
    <3> QED
      BY <3>1, <3>2, <3>3, <3>4, VariablesMove
  <2>2. ASSUME NEW u \in Threads, NEW i \in DOMAIN stack'[u], stack'[u][i].op = "initWeak"
        PROVE  stack'[u][i].l \notin valid'
    <3>1. PICK f : FramesFrom(t, f) /\ Known(t, f)
      BY StackStep DEF Arrives
    <3>2. CASE \E j \in DOMAIN stack[u] : stack'[u][i] = stack[u][j]
      BY <1>2, <2>2, <3>2 DEF Creating
    <3>3. CASE stack'[u][i] = f
      <4>1. \/ f.l \notin valid
            \/ stack[t] # <<>> /\ Top(t).op = "initWeak" /\ f.l = Top(t).l
        BY <2>2, <3>1, <3>3 DEF Known
      <4>2. stack[t] # <<>> => 1 \in DOMAIN stack[t] /\ Top(t) = stack[t][1]
        BY TopFrame
      <4> QED
        BY <1>2, <3>3, <4>1, <4>2 DEF Creating
    <3> QED
      BY <3>1, <3>2, <3>3 DEF FramesFrom
  <2> QED
    BY <2>1, <2>2 DEF Creating
<1>3. CASE CommitStore(t)
  <2>1. /\ stack[t] # <<>> /\ Top(t).op \in {"storeWeak", "initWeak"} /\ Return(t)
        /\ valid' = valid \cup {Top(t).l}
    BY <1>3 DEF CommitStore, Ready, In, At
  <2>2. /\ stack[t] \in Seq(Frame) /\ 1 \in DOMAIN stack[t] /\ Top(t) = stack[t][1]
        /\ Top(t).op = "storeWeak" => Top(t).l \in Shared
    BY <2>1, TopFrame DEF FrameShape
  <2>3. ASSUME NEW u \in Threads, NEW i \in DOMAIN stack'[u], stack'[u][i].op = "initWeak"
        PROVE  stack'[u][i].l \notin valid'
    <3>1. PICK j \in DOMAIN stack[u] : stack'[u][i] = stack[u][j] /\ ~(u = t /\ j = 1)
      <4>1. CASE u = t
        <5>1. stack'[t] = Tail(stack[t]) /\ i \in DOMAIN Tail(stack[t])
          BY <2>1, <2>3, <4>1, <1>1 DEF Return, StackOK
        <5>2. i + 1 \in DOMAIN stack[t] /\ stack'[t][i] = stack[t][i + 1] /\ i + 1 # 1
          BY <2>1, <2>2, <5>1
        <5> QED
          BY <4>1, <5>2
      <4>2. CASE u # t
        BY <2>1, <2>3, <4>2, <1>1 DEF Return, StackOK
      <4> QED
        BY <4>1, <4>2
    <3>2. stack[u][j].l \notin valid /\ stack[u][j].l \in Private
      BY <1>1, <2>3, <3>1 DEF Creating, StackOK, FrameShape
    <3>3. stack[u][j].l # Top(t).l
      <4>1. CASE Top(t).op = "storeWeak"
        BY <2>2, <3>2, <4>1, WeakRefAssumption
      <4>2. CASE Top(t).op = "initWeak"
        BY <1>1, <2>2, <2>3, <3>1, <4>2 DEF StackOK, OneCreator
      <4> QED
        BY <2>1, <4>1, <4>2
    <3> QED
      BY <2>1, <3>1, <3>2, <3>3
  <2> QED
    BY <2>1, <2>3 DEF Creating
<1>4. valid' \subseteq valid \/ CommitStore(t)
  BY VariablesMove DEF CommitDestroy, clearDeallocating
<1> QED
  BY <1>2, <1>3, <1>4

\* The table and the variables change together.
LEMMA ExactStep ==
  ASSUME StackInv, Creating, Exact, NEW t \in Threads, Move(t)
  PROVE  Exact'
<1>0. loc \in [Locations -> Objects \cup {Nil}] /\ valid \subseteq Locations
  BY DEF StackInv, TypeOK
<1>1. CASE UNCHANGED weakVars
  BY <1>1 DEF Exact
<1>2. CASE CommitStore(t)
  <2>1. PICK new \in Objects \cup {Nil} :
           /\ Top(t).l \in Locations
           /\ loc' = [loc EXCEPT ![Top(t).l] = new]
           /\ valid' = valid \cup {Top(t).l}
           /\ weak' = weak \cup ({new} \ {Nil})
           /\ \/ Top(t).op = "storeWeak" /\ Top(t).l \in valid /\ loc[Top(t).l] = Top(t).old
              \/ Top(t).op = "initWeak" /\ Top(t).l \notin valid
           /\ referrers' = [o \in Objects |->
                (IF Top(t).op = "storeWeak" /\ o = Top(t).old
                 THEN referrers[o] \ {Top(t).l} ELSE referrers[o])
                \cup (IF o = new THEN {Top(t).l} ELSE {})]
    BY <1>2, StoreEffect
  <2>2. ASSUME NEW o \in Objects PROVE referrers'[o] = {l \in valid' : loc'[l] = o}
    <3>1. referrers[o] = {l \in valid : loc[l] = o}
      BY DEF Exact
    <3>2. referrers'[o] = (IF Top(t).op = "storeWeak" /\ o = Top(t).old
                           THEN referrers[o] \ {Top(t).l} ELSE referrers[o])
                          \cup (IF o = new THEN {Top(t).l} ELSE {})
      BY <2>1
    <3>3. loc'[Top(t).l] = new /\ \A l \in valid : l # Top(t).l => loc'[l] = loc[l]
      BY <1>0, <2>1
    <3> QED
      BY <2>1, <3>1, <3>2, <3>3
  <2>3. \A l \in valid' : loc'[l] # Nil => loc'[l] \in weak'
    BY <1>0, <2>1 DEF Exact
  <2> QED
    BY <2>2, <2>3 DEF Exact
<1>3. CASE CommitDestroy(t)
  <2>1. /\ loc[Top(t).l] = Top(t).old /\ UNCHANGED <<loc, weak>>
        /\ valid' = valid \ {Top(t).l}
        /\ referrers' = [o \in Objects |-> IF o = Top(t).old THEN referrers[o] \ {Top(t).l}
                                           ELSE referrers[o]]
    BY <1>3 DEF CommitDestroy, Ready, In, At, Changed, HaveOld
  <2> QED
    BY <2>1 DEF Exact
<1>4. CASE clearDeallocating(t)
  <2>1. Top(t).obj \in Objects
    BY <1>4, TopFrame DEF clearDeallocating, In, At, FrameShape
  <2>2. /\ UNCHANGED <<valid, weak>>
        /\ loc' = [l \in Locations |->
                     IF l \in referrers[Top(t).obj] /\ loc[l] = Top(t).obj
                     THEN Nil ELSE loc[l]]
        /\ referrers' = [referrers EXCEPT ![Top(t).obj] = {}]
    BY <1>4 DEF clearDeallocating
  <2>3. ASSUME NEW o \in Objects PROVE referrers'[o] = {l \in valid' : loc'[l] = o}
    <3>1. referrers'[o] = IF o = Top(t).obj THEN {} ELSE referrers[o]
      BY <2>1, <2>2 DEF StackInv, TypeOK
    <3>2. \A l \in valid : loc'[l] = IF loc[l] = Top(t).obj THEN Nil ELSE loc[l]
      BY <1>0, <2>1, <2>2 DEF Exact
    <3> QED
      BY <2>1, <2>2, <3>1, <3>2, WeakRefAssumption DEF Exact
  <2>4. \A l \in valid' : loc'[l] # Nil => loc'[l] \in weak'
    BY <1>0, <2>2 DEF Exact
  <2> QED
    BY <2>3, <2>4 DEF Exact
<1> QED
  BY <1>1, <1>2, <1>3, <1>4, VariablesMove

\* The class of an object in a weak variable has begun to be initialized.
LEMMA InitializedStep ==
  ASSUME StackInv, ClassesBegun, Creating, WeakIsInitialized, NEW t \in Threads, Move(t)
  PROVE  WeakIsInitialized'
<1>0. /\ loc \in [Locations -> Objects \cup {Nil}] /\ valid \subseteq Locations
      /\ cls \in [Objects -> Classes]
  BY DEF StackInv, TypeOK
<1>1. \A c \in Classes : class[c] # "uninitialized" => class'[c] # "uninitialized"
  BY ClassesMove
<1>2. CASE changeIsa(t)
  <2>1. /\ stack[t] # <<>> /\ Top(t).op = "setClass" /\ Top(t).pc = "changeIsa"
        /\ cls' = [cls EXCEPT ![Top(t).obj] = Top(t).c] /\ UNCHANGED <<weakVars, class>>
    BY <1>2 DEF changeIsa, In, At
  <2>2. /\ 1 \in DOMAIN stack[t] /\ Top(t) = stack[t][1]
        /\ Top(t).c \in Classes
    BY <2>1, TopFrame DEF FrameShape
  <2>3. class[Top(t).c] # "uninitialized"
    BY <2>1, <2>2, WeakRefAssumption DEF ClassesBegun
  <2> QED
    BY <1>0, <2>1, <2>2, <2>3 DEF WeakIsInitialized
<1>3. CASE CommitStore(t)
  <2>1. PICK new \in Objects \cup {Nil} :
           /\ Top(t).l \in Locations
           /\ new # Nil => cls[new] = Top(t).c \/ class[cls[new]] = "initialized"
           /\ loc' = [loc EXCEPT ![Top(t).l] = new]
           /\ valid' = valid \cup {Top(t).l}
    BY <1>3, StoreEffect
  <2>2. /\ stack[t] # <<>> /\ Top(t).op \in {"storeWeak", "initWeak"} /\ Top(t).pc = "check"
        /\ UNCHANGED <<cls, class>>
    BY <1>3 DEF CommitStore, Ready, In, At
  <2>3. 1 \in DOMAIN stack[t] /\ Top(t) = stack[t][1]
    BY <2>2, TopFrame
  <2>4. new # Nil => class[cls[new]] # "uninitialized"
    <3> SUFFICES ASSUME new # Nil, cls[new] = Top(t).c PROVE class[cls[new]] # "uninitialized"
      BY <2>1
    <3>1. Top(t).c \in Classes
      BY <1>0
    <3> QED
      BY <2>2, <2>3, <3>1, WeakRefAssumption DEF ClassesBegun, WeakOps
  <2> QED
    BY <1>0, <2>1, <2>2, <2>4 DEF WeakIsInitialized
<1>4. CASE CommitDestroy(t)
  BY <1>4 DEF CommitDestroy, WeakIsInitialized
<1>5. CASE clearDeallocating(t)
  BY <1>0, <1>5 DEF clearDeallocating, WeakIsInitialized
<1>6. CASE UNCHANGED <<weakVars, cls>>
  BY <1>0, <1>1, <1>6 DEF WeakIsInitialized
<1>7. cls' = cls \/ changeIsa(t)
  BY DEF Move, Step, Calls, objc_storeWeakOrNil, objc_initWeakOrNil, objc_destroyWeak,
         objc_loadWeakRetained, object_setClass, Call, Release, ReadLocation, LockNext,
         Retry, UnlockAndInitialize, CommitStore, CommitDestroy, CommitLoad,
         BeginInitialize, InitializeReturns, SetInitialized, ClassInitReturns,
         rootDealloc, clearDeallocating, Free
<1> QED
  BY <1>2, <1>3, <1>4, <1>5, <1>6, <1>7, VariablesMove
-----------------------------------------------------------------------------
(* The side tables' locks. *)

\* What a weak operation locks is one or two side tables.
LEMMA TablesTyped ==
  ASSUME StackInv, NEW t \in Threads, stack[t] # <<>>, Top(t).op \in WeakOps
  PROVE  /\ TablesFor(Top(t)) \subseteq Tables /\ Tables \subseteq Nat
         /\ \A need \in SUBSET TablesFor(Top(t)) :
              need # {} => \E r \in need : \A q \in need : r <= q
<1>1. Top(t).old \in Objects \cup {Nil} /\ Top(t).obj \in Objects \cup {Nil}
  BY TopFrame DEF Frame
<1>2. Tables \subseteq Nat
  BY WeakRefAssumption DEF Tables
<1>3. TablesFor(Top(t)) \subseteq {tableOf[Top(t).old], tableOf[Top(t).obj]}
  BY DEF TablesFor
<1>4. tableOf[Top(t).old] \in Tables /\ tableOf[Top(t).obj] \in Tables
  BY <1>1 DEF Tables
<1>5. ASSUME NEW need \in SUBSET TablesFor(Top(t)), need # {}
      PROVE  \E r \in need : \A q \in need : r <= q
  <2> DEFINE a == tableOf[Top(t).old]
             b == tableOf[Top(t).obj]
  <2>1. a \in Nat /\ b \in Nat /\ \A q \in need : q = a \/ q = b
    BY <1>2, <1>3, <1>4
  <2> HIDE DEF a, b
  <2>2. CASE a \in need /\ b \in need
    BY <2>1, <2>2
  <2>3. CASE ~(a \in need /\ b \in need)
    BY <1>5, <2>1, <2>3
  <2> QED
    BY <2>2, <2>3
<1> QED
  BY <1>2, <1>3, <1>4, <1>5

\* Outside lockTwo a thread releases what it holds, or holds nothing.
LEMMA RestAfter ==
  ASSUME StackInv, LocksInv, NEW t \in Threads, Move(t), ~LockNext(t)
  PROVE  Held(t)' = {} /\ ~In(t, WeakOps, "check")'
<1>0. StackOK /\ StackOK' /\ lock \in [Tables -> Threads \cup {NoThread}]
  BY StackStep DEF StackInv, TypeOK
<1>1. \/ Unlock(t)
      \/ lock' = lock /\ (stack[t] = <<>> \/ Top(t).pc \notin {"lock", "check"})
  BY DEF Move, Step, Calls, objc_storeWeakOrNil, objc_initWeakOrNil, objc_destroyWeak,
         objc_loadWeakRetained, object_setClass, Call, Release, ReadLocation, InClientCode,
         Retry, UnlockAndInitialize, CommitStore, CommitDestroy, CommitLoad,
         BeginInitialize, InitializeReturns, SetInitialized, ClassInitReturns, changeIsa,
         rootDealloc, clearDeallocating, Free, In, At
<1>2. Held(t)' = {}
  <2>1. CASE Unlock(t)
    BY <1>0, <2>1, WeakRefAssumption DEF Unlock, Held
  <2>2. CASE lock' = lock /\ (stack[t] = <<>> \/ Top(t).pc \notin {"lock", "check"})
    <3>1. Held(t) = {}
      BY <2>2 DEF LocksInv, LocksOf
    <3> QED
      BY <2>2, <3>1 DEF Held
  <2> QED
    BY <1>1, <2>1, <2>2
<1>3. ~In(t, WeakOps, "check")'
  <2>0. stack[t] \in Seq(Frame)
    BY <1>0 DEF StackOK
  <2>1. CASE stack' = stack /\ (stack[t] = <<>> \/ Top(t).pc # "check")
    BY <2>1 DEF In, At, Top
  <2>2. CASE Return(t) /\ stack[t] # <<>>
    <3>1. stack'[t] = Tail(stack[t])
      BY <1>0, <2>2 DEF Return, StackOK
    <3>2. stack'[t] # <<>> => 2 \in DOMAIN stack[t] /\ Head(stack'[t]) = stack[t][2]
      BY <2>0, <2>2, <3>1
    <3> QED
      BY <1>0, <3>2 DEF StackOK, In, At, Top
  <2>3. ASSUME NEW f, Push(t, f) \/ (SetTop(t, f) /\ stack[t] # <<>>), f.pc # "check"
        PROVE  ~In(t, WeakOps, "check")'
    <3>1. stack'[t] = <<f>> \o stack[t] \/ stack'[t] = <<f>> \o Tail(stack[t])
      BY <1>0, <2>3 DEF StackOK, Push, SetTop
    <3>2. Head(stack'[t]) = f
      <4>1. stack[t] \in Seq(Frame) /\ (stack[t] # <<>> => Tail(stack[t]) \in Seq(Frame))
        BY <2>0
      <4>2. \A q \in Seq(Frame) : Head(<<f>> \o q) = f
        OBVIOUS
      <4> QED
        BY <1>0, <2>3, <3>1, <4>1, <4>2 DEF StackOK, Push, SetTop
    <3> QED
      BY <2>3, <3>2 DEF In, At, Top
  <2>4. \/ stack' = stack /\ (stack[t] = <<>> \/ Top(t).pc # "check")
        \/ Return(t) /\ stack[t] # <<>>
        \/ \E f : /\ Push(t, f) \/ (SetTop(t, f) /\ stack[t] # <<>>)
                  /\ f.pc # "check"
    <3>1. CASE Calls(t)
      <4>1. CASE \E o \in Objects : Release(t, o)
        <5>1. PICK o \in Objects : Release(t, o)
          BY <4>1
        <5>2. stack[t] = <<>> \/ Top(t).pc = "client"
          BY <5>1 DEF Release, At
        <5>3. CASE stack' = stack
          BY <5>2, <5>3
        <5>4. CASE stack' # stack
          <6> DEFINE f == [op |-> "dealloc", pc |-> "client", l |-> Nil, obj |-> o,
                           old |-> Nil, c |-> Nil]
          <6>1. Push(t, f) /\ f.pc = "client"
            BY <5>1, <5>4 DEF Release
          <6> HIDE DEF f
          <6> QED
            BY <6>1
        <5> QED
          BY <5>3, <5>4
      <4>2. ASSUME NEW op, NEW pc, NEW l, NEW o, NEW c, Call(t, op, pc, l, o, c), pc # "check"
            PROVE  \E f : Push(t, f) /\ f.pc # "check"
        <5> DEFINE f == [op |-> op, pc |-> pc, l |-> l, obj |-> o, old |-> Nil, c |-> c]
        <5>1. Push(t, f) /\ f.pc = pc
          BY <4>2 DEF Call
        <5> HIDE DEF f
        <5> QED
          BY <4>2, <5>1
      <4> QED
        BY <3>1, <4>1, <4>2 DEF Calls, objc_storeWeakOrNil, objc_initWeakOrNil,
           objc_destroyWeak, objc_loadWeakRetained, object_setClass
    <3>2. CASE Step(t)
      <4>0. stack[t] # <<>>
        BY <3>2 DEF Step, ReadLocation, LockNext, Retry, UnlockAndInitialize, CommitStore,
           CommitDestroy, CommitLoad, Ready, BeginInitialize, ClassInitReturns,
           InitializeReturns, SetInitialized, changeIsa, rootDealloc, clearDeallocating,
           Free, In, At
      <4>1. Top(t) \in Frame
        BY <4>0, TopFrame
      <4>2. ASSUME NEW pc, Goto(t, pc), pc # "check"
            PROVE  \E f : SetTop(t, f) /\ f.pc # "check"
        BY <4>1, <4>2 DEF Goto, Frame
      <4>3. CASE ReadLocation(t)
        <5>1. CASE Return(t)
          BY <4>0, <5>1
        <5>2. CASE ~Return(t)
          <6> DEFINE f == [Top(t) EXCEPT !.pc = "lock",
                             !.old = IF HaveOld(Top(t)) THEN loc[Top(t).l] ELSE Nil]
          <6>1. SetTop(t, f) /\ f.pc = "lock"
            BY <4>1, <4>3, <5>2 DEF ReadLocation, Frame
          <6> HIDE DEF f
          <6> QED
            BY <4>0, <6>1
        <5> QED
          BY <5>1, <5>2
      <4>4. CASE UnlockAndInitialize(t)
        <5> DEFINE f == [Top(t) EXCEPT !.pc = "classInit",
                    !.c = IF HaveNew(Top(t)) THEN cls[Top(t).obj] ELSE cls[Top(t).old]]
        <5>1. SetTop(t, f) /\ f.pc = "classInit"
          BY <4>1, <4>4 DEF UnlockAndInitialize, Frame
        <5> HIDE DEF f
        <5> QED
          BY <4>0, <5>1
      <4>5. CASE BeginInitialize(t)
        <5> DEFINE f == [op |-> "initialize", pc |-> "client", l |-> Nil, obj |-> Nil,
                         old |-> Nil, c |-> Top(t).c]
        <5>1. Push(t, f) /\ f.pc = "client"
          BY <4>5 DEF BeginInitialize
        <5> HIDE DEF f
        <5> QED
          BY <5>1
      <4>6. CASE Retry(t) \/ ClassInitReturns(t) \/ InitializeReturns(t)
                 \/ rootDealloc(t) \/ clearDeallocating(t)
        BY <4>0, <4>2, <4>6 DEF Retry, ClassInitReturns, AfterInit, InitializeReturns,
           rootDealloc, clearDeallocating
      <4>7. CASE \/ CommitStore(t) \/ CommitDestroy(t) \/ CommitLoad(t)
                 \/ SetInitialized(t) \/ changeIsa(t) \/ Free(t)
        BY <4>0, <4>7 DEF CommitStore, CommitDestroy, CommitLoad, SetInitialized, changeIsa,
           Free
      <4> QED
        BY <3>2, <4>3, <4>4, <4>5, <4>6, <4>7 DEF Step
    <3> QED
      BY <3>1, <3>2 DEF Move
  <2> QED
    BY <2>1, <2>2, <2>3, <2>4
<1> QED
  BY <1>2, <1>3
\* lockTwo takes the tables in address order.
LEMMA LockStep ==
  ASSUME StackInv, LocksInv, NEW t \in Threads, LockNext(t)
  PROVE  LocksOf(t)'
<1>0. /\ stack[t] # <<>> /\ Top(t).op \in WeakOps /\ Top(t).pc = "lock"
      /\ lock \in [Tables -> Threads \cup {NoThread}] /\ Top(t) \in Frame
  BY TopFrame DEF LockNext, In, At, StackInv, TypeOK
<1>1. /\ TablesFor(Top(t)) \subseteq Tables /\ Tables \subseteq Nat
      /\ \A need \in SUBSET TablesFor(Top(t)) :
           need # {} => \E r \in need : \A q \in need : r <= q
  BY <1>0, TablesTyped
<1>2. /\ \A h \in Held(t), n \in TablesFor(Top(t)) \ Held(t) : h < n
      /\ Held(t) \subseteq TablesFor(Top(t)) /\ Held(t) \subseteq Tables
  BY <1>0 DEF LocksInv, LocksOf, In, At, Held
<1> DEFINE need == TablesFor(Top(t)) \ Held(t)
<1>3. CASE need = {}
  <2> DEFINE f == [Top(t) EXCEPT !.pc = "check"]
  <2>1. SetTop(t, f) /\ lock' = lock
    BY <1>3 DEF LockNext, Goto
  <2>2. /\ f \in Frame /\ f.op = Top(t).op /\ f.l = Top(t).l /\ f.pc = "check"
        /\ f.obj = Top(t).obj /\ f.old = Top(t).old
    BY <1>0 DEF Frame, PCs
  <2>3. FrameShape(f)
    <3>1. FrameShape(Top(t))
      BY <1>0, TopFrame
    <3> QED
      BY <1>0, <3>1 DEF FrameShape, Frame, WeakOps
  <2> HIDE DEF f
  <2>4. stack'[t] # <<>> /\ Top(t)' = f
    BY <1>0, <2>1, <2>2, <2>3, SetTopFrames
  <2>5. Held(t)' = Held(t) /\ TablesFor(Top(t))' = TablesFor(Top(t))
    BY <2>1, <2>2, <2>4 DEF Held, TablesFor, HaveOld, HaveNew
  <2> QED
    BY <1>0, <1>2, <1>3, <2>2, <2>4, <2>5 DEF LocksOf, In, At
<1>4. CASE need # {}
  <2> DEFINE s == CHOOSE r \in need : \A q \in need : r <= q
  <2>1. s \in need /\ \A q \in need : s <= q
    BY <1>1, <1>4
  <2>2. lock' = [lock EXCEPT ![s] = t] /\ stack' = stack
    BY <1>4 DEF LockNext
  <2> HIDE DEF s
  <2>3. Held(t)' = Held(t) \cup {s}
    BY <1>0, <1>1, <2>1, <2>2 DEF Held
  <2>4. Top(t)' = Top(t) /\ TablesFor(Top(t))' = TablesFor(Top(t))
    BY <2>2 DEF Top, TablesFor, HaveOld, HaveNew
  <2>5. ASSUME NEW h \in Held(t) \cup {s}, NEW n \in TablesFor(Top(t)) \ (Held(t) \cup {s})
        PROVE  h < n
    <3>1. n \in need /\ n # s /\ n \in Nat /\ s \in Nat
      BY <1>1, <2>1
    <3>2. s <= n
      BY <2>1, <3>1
    <3>3. CASE h = s
      BY <3>1, <3>2, <3>3
    <3>4. CASE h \in Held(t)
      BY <1>2, <3>1, <3>4
    <3> QED
      BY <3>3, <3>4
  <2> QED
    BY <1>0, <1>2, <2>1, <2>2, <2>3, <2>4, <2>5 DEF LocksOf, In, At
<1> QED
  BY <1>3, <1>4

\* Nobody else's locks change.
LEMMA LocksStep ==
  ASSUME StackInv, LocksInv, NEW t \in Threads, Move(t)
  PROVE  LocksInv'
<1>1. LocksOf(t)'
  BY LockStep, RestAfter DEF LocksOf
<1>2. ASSUME NEW u \in Threads, u # t PROVE LocksOf(u)'
  <2>1. stack'[u] = stack[u]
    BY <1>2, StackStep DEF Arrives, FramesFrom
  <2>2. Held(u)' = Held(u)
    <3>1. \/ lock' = lock \/ Unlock(t)
          \/ \E s \in Tables : lock[s] = NoThread /\ lock' = [lock EXCEPT ![s] = t]
      <4>1. CASE LockNext(t)
        <5>1. /\ TablesFor(Top(t)) \subseteq Tables
              /\ \A need \in SUBSET TablesFor(Top(t)) :
                   need # {} => \E r \in need : \A q \in need : r <= q
          BY <4>1, TablesTyped DEF LockNext, In, At
        <5> QED
          BY <4>1, <5>1 DEF LockNext
      <4>2. CASE ~LockNext(t)
        BY <4>2 DEF Move, Step, Calls, objc_storeWeakOrNil, objc_initWeakOrNil,
         objc_destroyWeak, objc_loadWeakRetained, object_setClass, Call, Release,
         ReadLocation, Retry, UnlockAndInitialize, CommitStore, CommitDestroy, CommitLoad,
         BeginInitialize, InitializeReturns, SetInitialized, ClassInitReturns, changeIsa,
         rootDealloc, clearDeallocating, Free
      <4> QED
        BY <4>1, <4>2
    <3>2. lock \in [Tables -> Threads \cup {NoThread}]
      BY DEF StackInv, TypeOK
    <3> QED
      BY <1>2, <3>1, <3>2, WeakRefAssumption DEF Held, Unlock
  <2>3. Top(u)' = Top(u) /\ TablesFor(Top(u))' = TablesFor(Top(u))
    BY <2>1 DEF Top, TablesFor, HaveOld, HaveNew
  <2>4. LocksOf(u)
    BY DEF LocksInv
  <2> QED
    BY <2>1, <2>2, <2>3, <2>4 DEF LocksOf, In, At
<1> QED
  BY <1>1, <1>2 DEF LocksInv
-----------------------------------------------------------------------------
(* The theorems. *)

\* All layers hold initially.
LEMMA InitIInv == Init => IInv
<1> SUFFICES ASSUME Init PROVE IInv
  OBVIOUS
<1>1. StackInv
  BY InitStack
<1>2. LocksInv
  BY WeakRefAssumption DEF Init, LocksInv, LocksOf, Held, In, At
<1>3. ClassesBegun /\ Dying /\ Creating
  BY DEF Init, ClassesBegun, Dying, Creating
<1>4. Exact /\ WeakIsInitialized
  BY WeakRefAssumption DEF Init, Exact, WeakIsInitialized, Locations
<1>5. OwnedIsAlive
  BY DEF Init, OwnedIsAlive
<1> QED
  BY <1>1, <1>2, <1>3, <1>4, <1>5 DEF IInv

\* All layers hold in every reachable state.
LEMMA WeakCorrect == Spec => []IInv
<1>1. IInv /\ [Next]_vars => IInv'
  <2> SUFFICES ASSUME IInv, [Next]_vars PROVE IInv'
    OBVIOUS
  <2>1. CASE UNCHANGED vars
    <3>1. StackInv'
      BY <2>1 DEF vars, IInv, StackInv, StackOK, TypeOK, OneCreator
    <3>2. LocksInv'
      BY <2>1 DEF vars, IInv, LocksInv, LocksOf, Held, In, At, Top, TablesFor, HaveOld, HaveNew
    <3>3. ClassesBegun' /\ Dying' /\ Creating'
      BY <2>1 DEF vars, IInv, ClassesBegun, Dying, Creating
    <3>4. Exact' /\ OwnedIsAlive' /\ WeakIsInitialized'
      BY <2>1 DEF vars, IInv, Exact, OwnedIsAlive, WeakIsInitialized
    <3> QED
      BY <3>1, <3>2, <3>3, <3>4 DEF IInv
  <2>2. ASSUME NEW t \in Threads, Move(t) PROVE IInv'
    BY <2>2, StackStep, LocksStep, ClassesStep, DyingStep, CreatingStep, ExactStep, OwnedStep,
       InitializedStep DEF IInv
  <2>3. Next => \E t \in Threads : Move(t)
    BY DEF Next, Move
  <2> QED
    BY <2>1, <2>2, <2>3
<1> QED
  BY <1>1, InitIInv, PTL DEF Spec

\* The weak table lists exactly the weak variables that hold an object, whatever
\* stores, loads, destructions and deallocations interleave.
THEOREM TableIsExact == Spec => []RegistrationExact
<1>1. IInv => RegistrationExact
  BY DEF IInv, Exact, RegistrationExact
<1> QED
  BY <1>1, WeakCorrect, PTL

\* No weak variable holds a freed object, and objc_loadWeakRetained revives none.
THEOREM NothingDangles == Spec => []DeadStaysDead
<1>1. IInv => DeadStaysDead
  BY DEF IInv, Dying, DeadStaysDead, NoDangling
<1> QED
  BY <1>1, WeakCorrect, PTL

\* The class of an object in a weak variable was at least being initialized when
\* the variable was set, and object_setClass keeps it so.
THEOREM WeakClassesBegun == Spec => []WeakIsInitialized
<1>1. IInv => WeakIsInitialized
  BY DEF IInv
<1> QED
  BY <1>1, WeakCorrect, PTL

\* Side tables are only locked by weak operations that need them, in address
\* order, and a thread past lockTwo holds every table of the values it changes:
\* no cycle of threads waits for side tables.
THEOREM TablesInOrder == Spec => []LocksInv
<1>1. IInv => LocksInv
  BY DEF IInv
<1> QED
  BY <1>1, WeakCorrect, PTL
=============================================================================
