----------------------- MODULE ClassInitializeProofs -----------------------
(***************************************************************************)
(* Proofs about ClassInitialize: +initialize goes down the hierarchy, one  *)
(* thread initializes each class and sends it at most once, and no fatal   *)
(* error of the initialization machinery is reached, for any class         *)
(* hierarchy, any number of threads, any nesting of +initialize methods,   *)
(* and a fork() at any moment.                                             *)
(*                                                                         *)
(* The argument follows where a class that is being initialized can be: in *)
(* the frame of the call that marked it, queued behind its superclass by   *)
(* the same thread, or on the list that this thread is marking; after a    *)
(* fork() it may also belong to nobody.                                    *)
(***************************************************************************)
EXTENDS ClassInitialize, TLAPS

Elems(s) == {s[i] : i \in DOMAIN s}
NoRepeat(s) == \A i, j \in DOMAIN s : s[i] = s[j] => i = j

\* A frame that stands for the initialization of its class by this thread.
Owning == {"begin", "initialize", "finish"}

Typed ==
  /\ initializing \subseteq Classes /\ initialized \subseteq Classes
  /\ classInitLock \in Threads \cup {NoThread}
  /\ metaclasses \in [Threads -> SUBSET Classes]
  /\ pendingInitialize \in [Classes -> Seq(Classes)]
  /\ stack \in [Threads -> Seq(Frame)]
  /\ todo \in [Threads -> Seq(Classes)]
  /\ MultithreadedForkChild \in BOOLEAN
  /\ alive \subseteq Threads
  /\ sent \in [Classes -> Nat]

\* After fork() one thread is left, and nothing of the others but their marks.
Forked ==
  /\ MultithreadedForkChild => \E t \in Threads : alive = {t}
  /\ \A t \in Threads \ alive : stack[t] = <<>> /\ metaclasses[t] = {}

\* The superclass is initialized, or t is in the middle of initializing it.
SuperDone(t, c) == IsInitialized(superclass[c]) \/ superclass[c] \in metaclasses[t]
Done(t) == {c \in Classes : SuperDone(t, c)}

\* Only a +initialize method, or the initialization of a subclass, has calls on
\* top of it, and a +initialize method that does nothing has none.  The call has
\* dealt with the superclass of its class (D has the classes for which this is
\* so), or is doing so.
Below(D, s) ==
  \A i \in DOMAIN s : i > 1 =>
    /\ s[i].pc \in {"try", "initialize"}
    /\ s[i].pc = "initialize" => s[i].cls \in D \ Trivial
    /\ s[i].cls \in D \/ s[i - 1].cls = superclass[s[i].cls]

\* So has the innermost call, past its first step.
Rules(D, s) == Below(D, s) /\ (s # <<>> => s[1].pc = "super" \/ s[1].cls \in D)

Nested == \A t \in Threads : Rules(Done(t), stack[t])

\* What each call knows about its class.
FrameKnows(t, f) ==
  /\ f.pc = "begin" => /\ f.cls \in initializing /\ sent[f.cls] = 0
                       /\ pendingInitialize[f.cls] = <<>>
                       /\ \A u \in Threads : f.cls \notin metaclasses[u]
  /\ f.pc \in {"initialize", "finish"} => f.cls \in metaclasses[t]
  /\ f.pc = "finishing" => /\ classInitLock = t
                           /\ f.cls \in initialized \cup Elems(todo[t])
  /\ f.pc = "check" => f.cls \in initialized \cup initializing
  /\ f.pc = "checkAgain" => f.cls \in initialized
  /\ f.pc = "forkChild" => /\ MultithreadedForkChild /\ f.cls \notin metaclasses[t]
                           /\ f.cls \in initializing

Knowledge ==
  \A t \in Threads : \A i \in DOMAIN stack[t] : FrameKnows(t, stack[t][i])

\* At most one call stands for the initialization of a class.
OneOwner ==
  \A t, u \in Threads : \A i \in DOMAIN stack[t], j \in DOMAIN stack[u] :
    /\ stack[t][i].pc \in Owning /\ stack[u][j].pc \in Owning
    /\ stack[t][i].cls = stack[u][j].cls
    => t = u /\ i = j

\* The flags, and the threads that are initializing classes.
Flags ==
  /\ initializing \cap initialized = {}
  /\ \A t \in Threads : metaclasses[t] \subseteq initializing
  /\ \A t, u \in Threads : t # u => metaclasses[t] \cap metaclasses[u] = {}
  /\ \A c \in Classes : /\ sent[c] <= 1
                        /\ c \notin initializing \cup initialized => sent[c] = 0

\* No call stands for the initialization of c.
Left(c) == \A t \in Threads : \A i \in DOMAIN stack[t] :
             stack[t][i].cls = c => stack[t][i].pc \notin Owning

\* c waits behind its superclass, or is on the list of t.
Waits(c) == superclass[c] \in Classes /\ c \in Elems(pendingInitialize[superclass[c]])
Listed(c, t) == c \in Elems(todo[t])

\* A queued class is queued once, behind its superclass, which is not done; the
\* thread that will finish the superclass is the one that initializes the class.
Pending ==
  \A s \in Classes :
    /\ NoRepeat(pendingInitialize[s])
    /\ \A c \in Elems(pendingInitialize[s]) :
         /\ superclass[c] = s /\ c \in initializing /\ s \in initializing
         /\ Left(c) /\ \A t \in Threads : ~Listed(c, t)
         /\ \A t \in Threads : s \in metaclasses[t] => c \in metaclasses[t]
    \* Only a +initialize method that does something can leave a class behind.
    /\ s \in Trivial /\ pendingInitialize[s] # <<>> =>
         Waits(s) \/ \E t \in Threads : Listed(s, t)

\* The list that _finishInitializing works on.
Listing ==
  \A t \in Threads :
    /\ NoRepeat(todo[t])
    /\ \A c \in Elems(todo[t]) :
         c \in metaclasses[t] /\ IsInitialized(superclass[c]) /\ Left(c)
    /\ todo[t] # <<>> => classInitLock = t
    /\ classInitLock = t =>
         /\ t \in alive
         /\ stack[t] # <<>> /\ stack[t][1].pc = "finishing"

\* Where a class that is being initialized can be.
Whereabouts ==
  \A t \in Threads : \A c \in metaclasses[t] :
    \/ \E i \in DOMAIN stack[t] :
         stack[t][i].cls = c /\ stack[t][i].pc \in {"initialize", "finish"}
    \/ Waits(c) \/ Listed(c, t)

Inner == /\ Typed /\ Forked /\ Nested /\ Knowledge /\ OneOwner /\ Flags
         /\ Pending /\ Listing /\ Whereabouts /\ Contiguous

IInv == /\ halted = "no" => Inner
        /\ HierarchyOrder /\ OneInitializer /\ NoFatal
-----------------------------------------------------------------------------
(* The call stack. *)

USE DEF flags, monitor, process

\* What the three ways to change a stack do to its frames.
LEMMA StackOps ==
  ASSUME NEW s \in Seq(Frame), NEW f \in Frame
  PROVE  /\ /\ <<f>> \o s \in Seq(Frame) /\ Len(<<f>> \o s) = Len(s) + 1
            /\ (<<f>> \o s)[1] = f
            /\ \A i \in 1 .. Len(s) : (<<f>> \o s)[i + 1] = s[i]
         /\ s # <<>> =>
              /\ Tail(s) \in Seq(Frame) /\ Len(Tail(s)) = Len(s) - 1
              /\ \A i \in 1 .. Len(s) - 1 : Tail(s)[i] = s[i + 1]
         /\ s # <<>> =>
              /\ <<f>> \o Tail(s) \in Seq(Frame) /\ Len(<<f>> \o Tail(s)) = Len(s)
              /\ (<<f>> \o Tail(s))[1] = f
              /\ \A i \in 2 .. Len(s) : (<<f>> \o Tail(s))[i] = s[i]
  OBVIOUS

\* The innermost call.
LEMMA TopFrame ==
  ASSUME NEW s \in Seq(Frame), s # <<>>
  PROVE  /\ 1 \in DOMAIN s /\ Head(s) = s[1] /\ s[1] \in Frame
         /\ s[1].cls \in Classes /\ s[1].pc \in PCs
<1>1. 1 \in DOMAIN s /\ Head(s) = s[1] /\ s[1] \in Frame
  OBVIOUS
<1> QED
  BY <1>1 DEF Frame

\* Knowing more classes to be dealt with breaks no rule.
LEMMA RulesGrow ==
  ASSUME NEW D, NEW E, D \subseteq E, NEW s \in Seq(Frame)
  PROVE  /\ Below(D, s) => Below(E, s)
         /\ Rules(D, s) => Rules(E, s)
  BY DEF Below, Rules

\* A call is made.
LEMMA PushRules ==
  ASSUME NEW D, NEW s \in Seq(Frame), NEW f \in Frame, Below(D, s),
         s # <<>> => /\ s[1].pc \in {"try", "initialize"}
                     /\ s[1].pc = "initialize" => s[1].cls \in D \ Trivial
                     /\ s[1].cls \in D \/ f.cls = superclass[s[1].cls]
  PROVE  Below(D, <<f>> \o s)
<1> DEFINE q == <<f>> \o s
<1>1. /\ q \in Seq(Frame) /\ Len(q) = Len(s) + 1 /\ q[1] = f
      /\ \A i \in 1 .. Len(s) : q[i + 1] = s[i]
  BY StackOps
<1> HIDE DEF q
<1> SUFFICES ASSUME NEW i \in DOMAIN q, i > 1
             PROVE  /\ q[i].pc \in {"try", "initialize"}
                    /\ q[i].pc = "initialize" => q[i].cls \in D \ Trivial
                    /\ q[i].cls \in D \/ q[i - 1].cls = superclass[q[i].cls]
  BY DEF Below, q
<1>2. i - 1 \in DOMAIN s /\ q[i] = s[i - 1] /\ s # <<>>
  <2>1. i - 1 \in 1 .. Len(s) /\ (i - 1) + 1 = i
    BY <1>1
  <2> QED
    BY <1>1, <2>1
<1>3. CASE i = 2
  BY <1>1, <1>2, <1>3
<1>4. CASE i # 2
  <2>1. i - 2 \in 1 .. Len(s) /\ (i - 2) + 1 = i - 1 /\ i - 1 > 1
    BY <1>1, <1>4
  <2>2. q[i - 1] = s[i - 2] /\ (i - 1) - 1 = i - 2
    BY <1>1, <2>1
  <2> QED
    BY <1>2, <2>1, <2>2 DEF Below
<1> QED
  BY <1>3, <1>4

\* The innermost call goes on, for the same class.
LEMMA GoRules ==
  ASSUME NEW D, NEW s \in Seq(Frame), s # <<>>, NEW f \in Frame, Below(D, s),
         f.cls = s[1].cls
  PROVE  Below(D, <<f>> \o Tail(s))
<1> DEFINE q == <<f>> \o Tail(s)
<1>1. /\ q \in Seq(Frame) /\ Len(q) = Len(s) /\ q[1] = f
      /\ \A i \in 2 .. Len(s) : q[i] = s[i]
  BY StackOps
<1> HIDE DEF q
<1>2. \A i \in DOMAIN q : i > 1 => /\ i \in DOMAIN s /\ q[i] = s[i]
                                   /\ q[i - 1].cls = s[i - 1].cls
  BY <1>1
<1> QED
  BY <1>2 DEF Below, q

\* The innermost call returns: the superclass that it was made for is done.
LEMMA ReturnRules ==
  ASSUME NEW D, NEW s \in Seq(Frame), s # <<>>, Below(D, s),
         \A c \in Classes : superclass[c] = s[1].cls => c \in D
  PROVE  Rules(D, Tail(s))
<1> DEFINE q == Tail(s)
<1>1. /\ q \in Seq(Frame) /\ Len(q) = Len(s) - 1
      /\ \A i \in 1 .. Len(s) - 1 : q[i] = s[i + 1]
  BY TopFrame, StackOps
<1>2. \A i \in DOMAIN q : i + 1 \in DOMAIN s /\ q[i] = s[i + 1] /\ s[i + 1] \in Frame
  BY <1>1
<1> HIDE DEF q
<1>3. Below(D, q)
  <2> SUFFICES ASSUME NEW i \in DOMAIN q, i > 1
               PROVE  /\ q[i].pc \in {"try", "initialize"}
                      /\ q[i].pc = "initialize" => q[i].cls \in D \ Trivial
                      /\ q[i].cls \in D \/ q[i - 1].cls = superclass[q[i].cls]
    BY DEF Below
  <2>1. i - 1 \in 1 .. Len(s) - 1 /\ (i - 1) + 1 = i /\ (i + 1) - 1 = i
    BY <1>1
  <2>2. q[i - 1] = s[i]
    BY <1>1, <2>1
  <2> QED
    BY <1>1, <1>2, <2>1, <2>2 DEF Below
<1>4. q # <<>> => q[1].cls \in D
  <2> SUFFICES ASSUME q # <<>> PROVE q[1].cls \in D
    OBVIOUS
  <2>1. 1 \in DOMAIN q /\ 2 \in DOMAIN s
    BY <1>1
  <2>2. q[1] = s[2] /\ s[2] \in Frame
    BY <1>2, <2>1
  <2>3. s[2].cls \in D \/ s[1].cls = superclass[s[2].cls]
    BY <2>1 DEF Below
  <2> QED
    BY <2>2, <2>3 DEF Frame
<1> QED
  BY <1>3, <1>4 DEF Rules, q
\* How a step of t changes the stacks.  Every frame of t was there before, or is
\* one of F; the frames that stand for a class in metaclasses still do.
FramesFrom(t, F) ==
  /\ \A u \in Threads : u # t => stack'[u] = stack[u]
  /\ \A i \in DOMAIN stack'[t] :
       \/ stack'[t][i] \in F
       \/ \E j \in DOMAIN stack[t] : stack'[t][i] = stack[t][j]

InMethod(t, c) == \E i \in DOMAIN stack[t] :
                    stack[t][i].cls = c /\ stack[t][i].pc \in {"initialize", "finish"}

Persist(t) == \A c \in Classes : InMethod(t, c) => InMethod(t, c)'

\* OneOwner from an injection of the frames.
LEMMA OwnersMove ==
  ASSUME OneOwner, NEW t \in Threads,
         \A u \in Threads : u # t => stack'[u] = stack[u],
         \A i \in DOMAIN stack'[t] : stack'[t][i].pc \in Owning =>
           \E k \in DOMAIN stack[t] :
             stack[t][k].pc \in Owning /\ stack[t][k].cls = stack'[t][i].cls,
         \A i, j \in DOMAIN stack'[t] :
           /\ stack'[t][i].pc \in Owning /\ stack'[t][j].pc \in Owning
           /\ stack'[t][i].cls = stack'[t][j].cls
           => i = j
  PROVE  OneOwner'
<1> SUFFICES ASSUME NEW u \in Threads, NEW v \in Threads,
                    NEW i \in DOMAIN stack'[u], NEW j \in DOMAIN stack'[v],
                    stack'[u][i].pc \in Owning, stack'[v][j].pc \in Owning,
                    stack'[u][i].cls = stack'[v][j].cls
             PROVE  u = v /\ i = j
  BY DEF OneOwner
<1>1. PICK k \in DOMAIN stack[u] :
        stack[u][k].pc \in Owning /\ stack[u][k].cls = stack'[u][i].cls
  <2>1. CASE u = t
    BY <2>1
  <2>2. CASE u # t
    BY <2>2
  <2> QED
    BY <2>1, <2>2
<1>2. PICK n \in DOMAIN stack[v] :
        stack[v][n].pc \in Owning /\ stack[v][n].cls = stack'[v][j].cls
  <2>1. CASE v = t
    BY <2>1
  <2>2. CASE v # t
    BY <2>2
  <2> QED
    BY <2>1, <2>2
<1>3. u = v
  BY <1>1, <1>2 DEF OneOwner
<1>4. CASE u = t
  BY <1>3, <1>4
<1>5. CASE u # t
  BY <1>3, <1>5 DEF OneOwner
<1> QED
  BY <1>3, <1>4, <1>5

\* A message to a class.
LEMMA PushFrames ==
  ASSUME Typed, OneOwner, NEW t \in Threads, NEW f \in Frame, f.pc \notin Owning,
         stack' = [stack EXCEPT ![t] = <<f>> \o @]
  PROVE  stack' \in [Threads -> Seq(Frame)] /\ FramesFrom(t, {f}) /\ Persist(t) /\ OneOwner'
<1>1. /\ stack[t] \in Seq(Frame) /\ stack'[t] = <<f>> \o stack[t]
      /\ \A u \in Threads : u # t => stack'[u] = stack[u]
  BY DEF Typed
<1>2. /\ stack'[t] \in Seq(Frame) /\ Len(stack'[t]) = Len(stack[t]) + 1 /\ stack'[t][1] = f
      /\ \A i \in 1 .. Len(stack[t]) : stack'[t][i + 1] = stack[t][i]
  BY <1>1, StackOps
<1>3. \A i \in DOMAIN stack'[t] : i # 1 =>
        i - 1 \in DOMAIN stack[t] /\ stack'[t][i] = stack[t][i - 1]
  <2> SUFFICES ASSUME NEW i \in 1 .. Len(stack[t]) + 1, i # 1
               PROVE  i - 1 \in 1 .. Len(stack[t]) /\ stack'[t][i] = stack[t][i - 1]
    BY <1>1, <1>2
  <2>1. i - 1 \in 1 .. Len(stack[t]) /\ (i - 1) + 1 = i
    BY <1>1
  <2> QED
    BY <1>2, <2>1
<1>4. FramesFrom(t, {f})
  BY <1>1, <1>2, <1>3 DEF FramesFrom
<1>5. stack' \in [Threads -> Seq(Frame)]
  BY <1>2 DEF Typed
<1>6. Persist(t)
  <2>1. \A i \in DOMAIN stack[t] : i + 1 \in DOMAIN stack'[t] /\ stack'[t][i + 1] = stack[t][i]
    BY <1>1, <1>2
  <2> QED
    BY <2>1 DEF Persist, InMethod
<1>7. OneOwner'
  <2>1. \A i \in DOMAIN stack'[t] : stack'[t][i].pc \in Owning => i # 1 /\ i \in Nat
    BY <1>2
  <2>2. ASSUME NEW i \in DOMAIN stack'[t], NEW j \in DOMAIN stack'[t],
               stack'[t][i].pc \in Owning, stack'[t][j].pc \in Owning,
               stack'[t][i].cls = stack'[t][j].cls
        PROVE  i = j
    <3>1. i # 1 /\ j # 1 /\ i \in Nat /\ j \in Nat
      BY <2>1, <2>2
    <3>2. i - 1 = j - 1
      BY <1>3, <2>2, <3>1 DEF OneOwner
    <3> QED
      BY <3>1, <3>2
  <2>3. \A i \in DOMAIN stack'[t] : stack'[t][i].pc \in Owning =>
          \E k \in DOMAIN stack[t] :
            stack[t][k].pc \in Owning /\ stack[t][k].cls = stack'[t][i].cls
    BY <1>3, <2>1
  <2> QED
    BY <1>1, <2>2, <2>3, OwnersMove
<1> QED
  BY <1>4, <1>5, <1>6, <1>7

\* The innermost call goes on.
LEMMA GoFrames ==
  ASSUME Typed, OneOwner, NEW t \in Threads, stack[t] # <<>>, NEW p \in PCs, Goto(t, p),
         p \in Owning => Head(stack[t]).pc \in Owning \/ Left(Cls(t))
  PROVE  /\ stack' \in [Threads -> Seq(Frame)]
         /\ FramesFrom(t, {[cls |-> Cls(t), pc |-> p]}) /\ OneOwner'
         /\ \/ Persist(t)
            \/ /\ Head(stack[t]).pc \in {"initialize", "finish"}
               /\ p \notin {"initialize", "finish"}
         /\ \A c \in Classes : InMethod(t, c) => InMethod(t, c)' \/ c = Cls(t)
         /\ DOMAIN stack'[t] = DOMAIN stack[t]
         /\ \A i \in DOMAIN stack[t] : i # 1 => stack'[t][i] = stack[t][i]
         /\ stack'[t] # <<>> /\ stack'[t][1] = [cls |-> Cls(t), pc |-> p]
         /\ stack'[t] = <<[cls |-> Cls(t), pc |-> p]>> \o Tail(stack[t])
<1> DEFINE f == [cls |-> Cls(t), pc |-> p]
<1>0. /\ stack[t] \in Seq(Frame) /\ 1 \in DOMAIN stack[t] /\ Head(stack[t]) = stack[t][1]
      /\ Cls(t) \in Classes
  BY TopFrame DEF Typed, Cls
<1>1. /\ stack'[t] = <<f>> \o Tail(stack[t])
      /\ \A u \in Threads : u # t => stack'[u] = stack[u]
  BY DEF Typed, Goto, WithPC
<1>2. f \in Frame /\ f.cls = Cls(t) /\ f.pc = p
  BY <1>0 DEF Frame
<1> HIDE DEF f
<1>3. /\ stack'[t] \in Seq(Frame) /\ Len(stack'[t]) = Len(stack[t]) /\ stack'[t][1] = f
      /\ \A i \in 2 .. Len(stack[t]) : stack'[t][i] = stack[t][i]
  BY <1>0, <1>1, <1>2, StackOps
<1>4. DOMAIN stack'[t] = DOMAIN stack[t] /\
      \A i \in DOMAIN stack'[t] : i # 1 => stack'[t][i] = stack[t][i]
  BY <1>0, <1>3
<1>5. FramesFrom(t, {f})
  BY <1>1, <1>3, <1>4 DEF FramesFrom
<1>6. stack' \in [Threads -> Seq(Frame)]
  BY <1>1, <1>3 DEF Typed, Goto
<1>7. /\ \/ Persist(t)
         \/ /\ Head(stack[t]).pc \in {"initialize", "finish"}
            /\ p \notin {"initialize", "finish"}
      /\ \A c \in Classes : InMethod(t, c) => InMethod(t, c)' \/ c = Cls(t)
  BY <1>0, <1>2, <1>3, <1>4 DEF Persist, InMethod, Cls
<1>8. stack'[t] # <<>>
  BY <1>0, <1>3
<1>9. OneOwner'
  <2>1. CASE p \in Owning => Head(stack[t]).pc \in Owning
    <3>1. \A i \in DOMAIN stack'[t] : stack'[t][i].pc \in Owning =>
            stack[t][i].pc \in Owning /\ stack[t][i].cls = stack'[t][i].cls
      BY <1>0, <1>2, <1>3, <1>4, <2>1 DEF Cls
    <3>2. \A i \in DOMAIN stack'[t] : stack'[t][i].pc \in Owning =>
            \E k \in DOMAIN stack[t] :
              stack[t][k].pc \in Owning /\ stack[t][k].cls = stack'[t][i].cls
      BY <1>4, <3>1
    <3>3. \A i, j \in DOMAIN stack'[t] :
            /\ stack'[t][i].pc \in Owning /\ stack'[t][j].pc \in Owning
            /\ stack'[t][i].cls = stack'[t][j].cls
            => i = j
      BY <1>4, <3>1 DEF OneOwner
    <3> QED
      BY <1>1, <3>2, <3>3, OwnersMove
  <2>2. CASE Left(Cls(t))
    <3> SUFFICES ASSUME NEW u \in Threads, NEW v \in Threads,
                    NEW i \in DOMAIN stack'[u], NEW j \in DOMAIN stack'[v],
                    stack'[u][i].pc \in Owning, stack'[v][j].pc \in Owning,
                    stack'[u][i].cls = stack'[v][j].cls
             PROVE  u = v /\ i = j
      BY DEF OneOwner
    <3>1. \A w \in Threads : \A k \in DOMAIN stack'[w] : ~(w = t /\ k = 1) =>
            k \in DOMAIN stack[w] /\ stack'[w][k] = stack[w][k]
      BY <1>1, <1>4
    <3>2. \A w \in Threads : \A k \in DOMAIN stack'[w] :
            ~(w = t /\ k = 1) /\ stack'[w][k].pc \in Owning => stack'[w][k].cls # f.cls
      BY <1>2, <2>2, <3>1 DEF Left
    <3>3. CASE (u = t /\ i = 1) \/ (v = t /\ j = 1)
      BY <1>3, <3>2, <3>3
    <3>4. CASE ~(u = t /\ i = 1) /\ ~(v = t /\ j = 1)
      BY <3>1, <3>4 DEF OneOwner
    <3> QED
      BY <3>3, <3>4
  <2> QED
    BY <2>1, <2>2
<1> QED
  BY <1>1, <1>3, <1>4, <1>5, <1>6, <1>7, <1>8, <1>9 DEF f

\* The innermost call returns.
LEMMA ReturnFrames ==
  ASSUME Typed, OneOwner, NEW t \in Threads, stack[t] # <<>>, Return(t)
  PROVE  /\ stack' \in [Threads -> Seq(Frame)] /\ FramesFrom(t, {}) /\ OneOwner'
         /\ stack'[t] = Tail(stack[t])
         /\ \A c \in Classes : InMethod(t, c) =>
              InMethod(t, c)' \/ (c = Cls(t) /\ Head(stack[t]).pc \in {"initialize", "finish"})
<1>0. /\ stack[t] \in Seq(Frame) /\ 1 \in DOMAIN stack[t] /\ Head(stack[t]) = stack[t][1]
      /\ stack[t][1] \in Frame
  BY TopFrame DEF Typed
<1>1. /\ stack'[t] = Tail(stack[t])
      /\ \A u \in Threads : u # t => stack'[u] = stack[u]
  BY DEF Typed, Return
<1>2. /\ stack'[t] \in Seq(Frame) /\ Len(stack'[t]) = Len(stack[t]) - 1
      /\ \A i \in 1 .. Len(stack[t]) - 1 : stack'[t][i] = stack[t][i + 1]
  BY <1>0, <1>1, StackOps
<1>3. /\ Len(stack[t]) \in Nat /\ DOMAIN stack'[t] = 1 .. Len(stack[t]) - 1
      /\ \A i \in DOMAIN stack'[t] : /\ i + 1 \in DOMAIN stack[t] /\ i \in Nat
                                     /\ stack'[t][i] = stack[t][i + 1]
  <2>1. /\ Len(stack[t]) \in Nat /\ DOMAIN stack'[t] = 1 .. Len(stack[t]) - 1
        /\ DOMAIN stack[t] = 1 .. Len(stack[t])
    BY <1>0, <1>2
  <2> QED
    BY <1>2, <2>1
<1>4. FramesFrom(t, {})
  BY <1>1, <1>3 DEF FramesFrom
<1>5. stack' \in [Threads -> Seq(Frame)]
  BY <1>1, <1>2 DEF Typed, Return
<1>6. ASSUME NEW c \in Classes, InMethod(t, c)
      PROVE  InMethod(t, c)' \/ (c = Cls(t) /\ Head(stack[t]).pc \in {"initialize", "finish"})
  <2>1. PICK i \in DOMAIN stack[t] :
          stack[t][i].cls = c /\ stack[t][i].pc \in {"initialize", "finish"}
    BY <1>6 DEF InMethod
  <2>2. CASE i = 1
    BY <1>0, <2>1, <2>2 DEF Cls
  <2>3. CASE i # 1
    <3>1. i - 1 \in DOMAIN stack'[t] /\ stack'[t][i - 1] = stack[t][i]
      <4>1. i - 1 \in 1 .. Len(stack[t]) - 1 /\ (i - 1) + 1 = i
        BY <1>0, <2>1, <2>3
      <4> QED
        BY <1>2, <1>3, <4>1
    <3> QED
      BY <2>1, <3>1 DEF InMethod
  <2> QED
    BY <2>2, <2>3
<1>7. OneOwner'
  <2>1. ASSUME NEW i \in DOMAIN stack'[t], NEW j \in DOMAIN stack'[t],
               stack'[t][i].pc \in Owning, stack'[t][j].pc \in Owning,
               stack'[t][i].cls = stack'[t][j].cls
        PROVE  i = j
    <3>1. i + 1 = j + 1 /\ i \in Nat /\ j \in Nat
      BY <1>3, <2>1, SMTT(30) DEF OneOwner
    <3> QED
      BY <3>1
  <2> QED
    BY <1>1, <1>3, <2>1, OwnersMove
<1> QED
  BY <1>1, <1>4, <1>5, <1>6, <1>7
-----------------------------------------------------------------------------
(* Steps that change nothing but a stack. *)

rest == <<initializing, initialized, classInitLock, metaclasses, pendingInitialize,
          todo, MultithreadedForkChild, alive, sent>>

\* A class that no call stands for is taken up by no call.
LEMMA LeftKept ==
  ASSUME NEW t \in Threads, NEW F, FramesFrom(t, F), NEW c, Left(c),
         \A f \in F : f.pc \in Owning /\ f.cls = c => ~Left(c)
  PROVE  Left(c)'
<1> SUFFICES ASSUME NEW u \in Threads, NEW i \in DOMAIN stack'[u], stack'[u][i].cls = c,
                    stack'[u][i].pc \in Owning
             PROVE  FALSE
  BY DEF Left
<1>1. CASE u # t
  BY <1>1 DEF FramesFrom, Left
<1>2. CASE u = t
  <2>1. CASE stack'[u][i] \in F
    BY <2>1
  <2>2. CASE \E j \in DOMAIN stack[t] : stack'[t][i] = stack[t][j]
    BY <1>2, <2>2 DEF Left
  <2> QED
    BY <1>2, <2>1, <2>2 DEF FramesFrom
<1> QED
  BY <1>1, <1>2

\* The new frames of t know what they should, and take up no new class.
Informed(t, F) == \A f \in F : FrameKnows(t, f) /\ (f.pc \in Owning => ~Left(f.cls))

\* Whatever changes only the stack of t, and keeps the rules of the stack.
LEMMA QuietInner ==
  ASSUME Inner, NEW t \in alive, UNCHANGED rest,
         stack' \in [Threads -> Seq(Frame)], OneOwner', NEW F, FramesFrom(t, F), Persist(t),
         classInitLock # t, Rules(Done(t), stack'[t]), Informed(t, F)
  PROVE  Inner'
<1>0. t \in Threads
  BY DEF Inner, Typed
<1>1. Typed' /\ Flags' /\ Contiguous'
  BY DEF Inner, Typed, Flags, Contiguous, IsInitialized, rest
<1>2. Forked'
  <2>1. \A u \in Threads : u # t => stack'[u] = stack[u]
    BY DEF FramesFrom
  <2> QED
    BY <2>1 DEF Inner, Forked, rest
<1>3. Nested'
  <2>1. \A u \in Threads : Done(u)' = Done(u)
    BY DEF Done, SuperDone, IsInitialized, rest
  <2>2. \A u \in Threads : u # t => stack'[u] = stack[u]
    BY DEF FramesFrom
  <2>3. ASSUME NEW u \in Threads PROVE Rules(Done(u), stack'[u])
    <3>1. CASE u = t
      BY <3>1
    <3>2. CASE u # t
      BY <2>2, <3>2 DEF Inner, Nested
    <3> QED
      BY <3>1, <3>2
  <2> QED
    BY <2>1, <2>3 DEF Nested
<1>4. Knowledge'
  <2> SUFFICES ASSUME NEW u \in Threads, NEW i \in DOMAIN stack'[u]
               PROVE  FrameKnows(u, stack[u][i])'
    BY DEF Knowledge
  <2>1. FrameKnows(u, stack'[u][i])
    <3>1. CASE u # t
      BY <3>1 DEF FramesFrom, Inner, Knowledge
    <3>2. CASE u = t
      <4>1. CASE stack'[u][i] \in F
        BY <3>2, <4>1 DEF Informed
      <4>2. CASE \E j \in DOMAIN stack[t] : stack'[t][i] = stack[t][j]
        BY <1>0, <3>2, <4>2 DEF Inner, Knowledge
      <4> QED
        BY <3>2, <4>1, <4>2 DEF FramesFrom
    <3> QED
      BY <3>1, <3>2
  <2> QED
    BY <2>1 DEF FrameKnows, rest
<1>5. \A c : Left(c) => Left(c)'
  BY <1>0, LeftKept DEF Informed
<1>6. Pending'
  BY <1>5 DEF Inner, Pending, Waits, Listed, rest
<1>7. Listing'
  <2>1. \A u \in Threads : u # t => stack'[u] = stack[u]
    BY DEF FramesFrom
  <2> QED
    BY <1>5, <2>1 DEF Inner, Listing, IsInitialized, rest
<1>8. Whereabouts'
  <2> SUFFICES ASSUME NEW u \in Threads, NEW c \in metaclasses[u]
               PROVE  InMethod(u, c)' \/ Waits(c)' \/ Listed(c, u)'
    BY DEF Whereabouts, InMethod, rest
  <2>1. InMethod(u, c) \/ Waits(c) \/ Listed(c, u)
    BY DEF Inner, Whereabouts, InMethod
  <2>2. c \in Classes
    BY DEF Inner, Typed
  <2>3. InMethod(u, c) => InMethod(u, c)'
    <3>1. CASE u = t
      BY <2>2, <3>1 DEF Persist
    <3>2. CASE u # t
      BY <3>2 DEF FramesFrom, InMethod
    <3> QED
      BY <3>1, <3>2
  <2> QED
    BY <2>1, <2>3 DEF Waits, Listed, rest
<1> QED
  BY <1>1, <1>2, <1>3, <1>4, <1>6, <1>7, <1>8 DEF Inner
\* What holds of the innermost call of a thread.
LEMMA TopKnows ==
  ASSUME Inner, NEW t \in Threads, stack[t] # <<>>
  PROVE  /\ t \in alive /\ stack[t] \in Seq(Frame)
         /\ 1 \in DOMAIN stack[t] /\ Head(stack[t]) = stack[t][1]
         /\ Head(stack[t]) \in Frame /\ Cls(t) \in Classes /\ Head(stack[t]).pc \in PCs
         /\ FrameKnows(t, Head(stack[t]))
         /\ Below(Done(t), stack[t])
         /\ Head(stack[t]).pc = "super" \/ Cls(t) \in Done(t)
         /\ Head(stack[t]).pc # "finishing" => classInitLock # t
         /\ Head(stack[t]).pc \in Owning => ~Left(Cls(t))
<1>1. t \in alive /\ stack[t] \in Seq(Frame)
  BY DEF Inner, Forked, Typed
<1>2. /\ 1 \in DOMAIN stack[t] /\ Head(stack[t]) = stack[t][1] /\ Head(stack[t]) \in Frame
      /\ Cls(t) \in Classes /\ Head(stack[t]).pc \in PCs
  BY <1>1, TopFrame DEF Cls
<1>3. FrameKnows(t, Head(stack[t]))
  BY <1>2 DEF Inner, Knowledge
<1>4. Rules(Done(t), stack[t])
  BY DEF Inner, Nested
<1>5. Head(stack[t]).pc # "finishing" => classInitLock # t
  BY <1>2 DEF Inner, Listing
<1>6. Head(stack[t]).pc \in Owning => ~Left(Cls(t))
  BY <1>2 DEF Left, Cls
<1> QED
  BY <1>1, <1>2, <1>3, <1>4, <1>5, <1>6 DEF Rules, Cls

\* Going on, where nothing but the pc changes.
LEMMA GotoInner ==
  ASSUME Inner, NEW t \in Threads, stack[t] # <<>>, NEW p \in PCs, Goto(t, p),
         UNCHANGED rest, Head(stack[t]).pc \notin {"super", "finishing"},
         FrameKnows(t, [cls |-> Cls(t), pc |-> p]),
         p \in Owning => Head(stack[t]).pc \in Owning,
         Head(stack[t]).pc \in {"initialize", "finish"} => p \in {"initialize", "finish"}
  PROVE  Inner'
<1> DEFINE f == [cls |-> Cls(t), pc |-> p]
<1>0. Typed /\ OneOwner
  BY DEF Inner
<1>1. /\ stack' \in [Threads -> Seq(Frame)] /\ FramesFrom(t, {f}) /\ Persist(t) /\ OneOwner'
      /\ stack'[t] # <<>> /\ stack'[t][1] = f /\ stack'[t] = <<f>> \o Tail(stack[t])
  BY <1>0, GoFrames
<1>2. /\ t \in alive /\ classInitLock # t /\ stack[t] \in Seq(Frame)
      /\ Below(Done(t), stack[t]) /\ Cls(t) \in Done(t)
      /\ Head(stack[t]) = stack[t][1] /\ Cls(t) \in Classes
      /\ Head(stack[t]).pc \in Owning => ~Left(Cls(t))
  BY TopKnows
<1>3. f \in Frame /\ f.cls = Cls(t) /\ f.pc = p /\ FrameKnows(t, f)
  BY <1>2 DEF Frame
<1> HIDE DEF f
<1>4. Below(Done(t), stack'[t])
  BY <1>1, <1>2, <1>3, GoRules DEF Cls
<1>5. Rules(Done(t), stack'[t])
  BY <1>1, <1>2, <1>3, <1>4 DEF Rules
<1>6. Informed(t, {f})
  BY <1>2, <1>3 DEF Informed
<1> QED
  BY <1>1, <1>2, <1>5, <1>6, QuietInner

\* Returning, where the class is initialized or this thread's own.
LEMMA ReturnInner ==
  ASSUME Inner, NEW t \in Threads, stack[t] # <<>>, Return(t), UNCHANGED rest,
         Head(stack[t]).pc \notin {"initialize", "finish", "finishing"},
         Cls(t) \in initialized \cup metaclasses[t]
  PROVE  Inner'
<1>0. Typed /\ OneOwner
  BY DEF Inner
<1>1. /\ stack' \in [Threads -> Seq(Frame)] /\ FramesFrom(t, {}) /\ OneOwner'
      /\ stack'[t] = Tail(stack[t])
      /\ \A c \in Classes : InMethod(t, c) => InMethod(t, c)'
  BY <1>0, ReturnFrames
<1>2. /\ t \in alive /\ classInitLock # t /\ stack[t] \in Seq(Frame)
      /\ Below(Done(t), stack[t]) /\ Head(stack[t]) = stack[t][1]
  BY TopKnows
<1>3. \A c \in Classes : superclass[c] = Cls(t) => c \in Done(t)
  BY DEF Done, SuperDone, IsInitialized
<1>4. Rules(Done(t), stack'[t])
  BY <1>1, <1>2, <1>3, ReturnRules DEF Cls
<1>5. Persist(t)
  BY <1>1 DEF Persist
<1>6. Informed(t, {})
  BY DEF Informed
<1> QED
  BY <1>1, <1>2, <1>4, <1>5, <1>6, QuietInner

\* A message to an uninitialized class.
LEMMA MessageInner ==
  ASSUME Inner, NEW t \in Threads, NEW c \in Classes, Message(t, c)
  PROVE  Inner'
<1> DEFINE f == [cls |-> c, pc |-> "super"]
<1>0. Typed /\ OneOwner
  BY DEF Inner
<1>1. /\ stack' = [stack EXCEPT ![t] = <<f>> \o @] /\ UNCHANGED rest
      /\ stack[t] = <<>> \/ (At(t, "initialize") /\ c \in Messages[Cls(t)])
      /\ stack[t] = <<>> => t \in alive
  BY DEF Message, rest, InClientCode, At
<1>2. f \in Frame /\ f.cls = c /\ f.pc = "super"
  BY DEF Frame, PCs
<1> HIDE DEF f
<1>3. /\ stack' \in [Threads -> Seq(Frame)] /\ FramesFrom(t, {f}) /\ Persist(t) /\ OneOwner'
  BY <1>0, <1>1, <1>2, PushFrames DEF Owning
<1>4. /\ t \in alive /\ classInitLock # t /\ stack[t] \in Seq(Frame)
      /\ Below(Done(t), stack[t])
      /\ stack[t] # <<>> => stack[t][1].pc = "initialize" /\ stack[t][1].cls \in Done(t) \ Trivial
  <2>1. CASE stack[t] = <<>>
    BY <1>1, <2>1 DEF Inner, Typed, Listing, Nested, Rules
  <2>2. CASE stack[t] # <<>>
    <3>1. Head(stack[t]).pc = "initialize" /\ Messages[Cls(t)] # {}
      BY <1>1, <2>2 DEF At
    <3>2. /\ t \in alive /\ classInitLock # t /\ stack[t] \in Seq(Frame)
          /\ Below(Done(t), stack[t]) /\ Head(stack[t]) = stack[t][1] /\ Cls(t) \in Done(t)
      BY <2>2, <3>1, TopKnows
    <3> QED
      BY <3>1, <3>2, ClassInitializeAssumption DEF Cls
  <2> QED
    BY <2>1, <2>2
<1>5. stack'[t] = <<f>> \o stack[t]
  BY <1>0, <1>1 DEF Typed
<1>6. Below(Done(t), stack'[t])
  BY <1>2, <1>4, <1>5, PushRules
<1>7. stack'[t][1] = f
  BY <1>2, <1>4, <1>5, StackOps
<1>8. Rules(Done(t), stack'[t]) /\ FrameKnows(t, f)
  BY <1>2, <1>6, <1>7 DEF Rules, FrameKnows
<1>9. Informed(t, {f})
  BY <1>2, <1>8 DEF Informed, Owning
<1> QED
  BY <1>1, <1>3, <1>4, <1>8, <1>9, QuietInner
\* "Make sure super is done initializing BEFORE beginning to initialize cls."
LEMMA SuperInner ==
  ASSUME Inner, NEW t \in Threads, InitializeSuper(t)
  PROVE  Inner'
<1> DEFINE g == [cls |-> Cls(t), pc |-> "try"]
           f == [cls |-> Super(t), pc |-> "super"]
           q == <<g>> \o Tail(stack[t])
<1>0. Typed /\ OneOwner /\ stack[t] # <<>> /\ Head(stack[t]).pc = "super" /\ UNCHANGED rest
  BY DEF Inner, InitializeSuper, At, rest
<1>1. /\ t \in alive /\ classInitLock # t /\ stack[t] \in Seq(Frame)
      /\ Below(Done(t), stack[t]) /\ 1 \in DOMAIN stack[t]
      /\ Head(stack[t]) = stack[t][1] /\ Cls(t) \in Classes
  BY <1>0, TopKnows
<1>2. g \in Frame /\ g.cls = Cls(t) /\ g.pc = "try" /\ FrameKnows(t, g)
  BY <1>1 DEF Frame, PCs, FrameKnows
<1>3. /\ q \in Seq(Frame) /\ Len(q) = Len(stack[t]) /\ q[1] = g /\ q # <<>>
      /\ \A i \in 2 .. Len(stack[t]) : q[i] = stack[t][i]
  <2> HIDE DEF g
  <2>1. /\ q \in Seq(Frame) /\ Len(q) = Len(stack[t]) /\ q[1] = g
        /\ \A i \in 2 .. Len(stack[t]) : q[i] = stack[t][i]
    BY <1>0, <1>1, <1>2, StackOps
  <2> QED
    BY <1>0, <1>1, <2>1
<1>4. Below(Done(t), q)
  <2> HIDE DEF g
  <2> QED
    BY <1>0, <1>1, <1>2, GoRules DEF Cls
<1>5. CASE IsInitialized(Super(t))
  <2>1. Goto(t, "try")
    BY <1>5 DEF InitializeSuper, Goto
  <2>2. /\ stack' \in [Threads -> Seq(Frame)] /\ FramesFrom(t, {g}) /\ Persist(t) /\ OneOwner'
        /\ stack'[t] = q
    BY <1>0, <2>1, GoFrames DEF PCs, Owning
  <2>3. Cls(t) \in Done(t)
    BY <1>1, <1>5 DEF Done, SuperDone, Super
  <2> HIDE DEF g, q
  <2>4. Rules(Done(t), stack'[t])
    BY <1>2, <1>3, <1>4, <2>2, <2>3 DEF Rules
  <2>5. Informed(t, {g})
    BY <1>2 DEF Informed, Owning
  <2> QED
    BY <1>0, <1>1, <2>2, <2>4, <2>5, QuietInner
<1>6. CASE ~IsInitialized(Super(t))
  <2>0. Super(t) \in Classes
    BY <1>1, <1>6, ClassInitializeAssumption DEF IsInitialized, Super
  <2>1. /\ stack' = [stack EXCEPT ![t] = <<f>> \o q] /\ stack'[t] = <<f>> \o q
        /\ \A u \in Threads : u # t => stack'[u] = stack[u]
    BY <1>0, <1>6 DEF InitializeSuper, WithPC, Typed
  <2>2. f \in Frame /\ f.pc = "super" /\ f.cls = superclass[g.cls] /\ FrameKnows(t, f)
    BY <2>0 DEF Frame, PCs, FrameKnows, Super
  <2> HIDE DEF f, g, q
  <2>3. /\ stack'[t] \in Seq(Frame) /\ Len(stack'[t]) = Len(q) + 1 /\ stack'[t][1] = f
        /\ \A i \in 1 .. Len(q) : stack'[t][i + 1] = q[i]
    BY <1>3, <2>1, <2>2, StackOps
  <2>4. \A i \in DOMAIN stack'[t] :
          \/ stack'[t][i] \in {f, g}
          \/ i - 1 \in DOMAIN stack[t] /\ i \in Nat /\ stack'[t][i] = stack[t][i - 1]
    <3> SUFFICES ASSUME NEW i \in DOMAIN stack'[t], stack'[t][i] # f, stack'[t][i] # g
                 PROVE  i - 1 \in DOMAIN stack[t] /\ i \in Nat /\ stack'[t][i] = stack[t][i - 1]
      OBVIOUS
    <3>1. i \in 1 .. Len(q) + 1 /\ i # 1
      BY <2>3
    <3>2. i - 1 \in 1 .. Len(q) /\ (i - 1) + 1 = i
      BY <1>3, <3>1
    <3>3. stack'[t][i] = q[i - 1]
      BY <2>3, <3>2
    <3>4. i - 1 # 1
      BY <1>3, <3>3
    <3>5. i - 1 \in 2 .. Len(stack[t])
      BY <1>1, <1>3, <3>2, <3>4
    <3> QED
      BY <1>1, <1>3, <3>1, <3>3, <3>5
  <2>5. FramesFrom(t, {f, g})
    BY <2>1, <2>4 DEF FramesFrom
  <2>6. stack' \in [Threads -> Seq(Frame)]
    BY <1>0, <2>1, <2>3 DEF Typed
  <2>7. Persist(t)
    <3>1. ASSUME NEW i \in DOMAIN stack[t], stack[t][i].pc \in {"initialize", "finish"}
          PROVE  i + 1 \in DOMAIN stack'[t] /\ stack'[t][i + 1] = stack[t][i]
      <4>1. i \in 2 .. Len(stack[t])
        BY <1>0, <1>1, <3>1
      <4>2. i \in 1 .. Len(q) /\ i + 1 \in 1 .. Len(q) + 1
        BY <1>3, <4>1
      <4> QED
        BY <1>3, <2>3, <4>1, <4>2
    <3> QED
      BY <3>1 DEF Persist, InMethod
  <2>8. OneOwner'
    <3>1. \A i \in DOMAIN stack'[t] : stack'[t][i].pc \in Owning =>
            i - 1 \in DOMAIN stack[t] /\ i \in Nat /\ stack'[t][i] = stack[t][i - 1]
      BY <1>2, <2>2, <2>4 DEF Owning
    <3>2. \A i \in DOMAIN stack'[t] : stack'[t][i].pc \in Owning =>
            \E k \in DOMAIN stack[t] :
              stack[t][k].pc \in Owning /\ stack[t][k].cls = stack'[t][i].cls
      BY <3>1
    <3>3. ASSUME NEW i \in DOMAIN stack'[t], NEW j \in DOMAIN stack'[t],
                 stack'[t][i].pc \in Owning, stack'[t][j].pc \in Owning,
                 stack'[t][i].cls = stack'[t][j].cls
          PROVE  i = j
      <4>1. i - 1 = j - 1 /\ i \in Nat /\ j \in Nat
        BY <1>0, <3>1, <3>3 DEF OneOwner
      <4> QED
        BY <4>1
    <3> QED
      BY <1>0, <2>1, <3>2, <3>3, OwnersMove
  <2>9. Rules(Done(t), stack'[t])
    <3>1. Below(Done(t), stack'[t])
      BY <1>2, <1>3, <1>4, <2>1, <2>2, PushRules
    <3> QED
      BY <2>2, <2>3, <3>1 DEF Rules
  <2>10. Informed(t, {f, g})
    BY <1>2, <2>2 DEF Informed, Owning
  <2> QED
    BY <1>0, <1>1, <2>5, <2>6, <2>7, <2>8, <2>9, <2>10, QuietInner
<1> QED
  BY <1>5, <1>6

\* A +initialize method returns; a class somebody else marked is looked at again.
LEMMA CheckInner ==
  ASSUME Inner, NEW t \in Threads, halted' = "no",
         \/ InitializeReturns(t) \/ CheckInitializing(t) \/ CheckInitialized(t)
         \/ WaitForInitializeToComplete(t)
  PROVE  Inner'
<1>0. stack[t] # <<>> /\ UNCHANGED rest
  BY DEF InitializeReturns, CheckInitializing, CheckInitialized,
         WaitForInitializeToComplete, At, rest
<1>1. /\ FrameKnows(t, Head(stack[t])) /\ Cls(t) = Head(stack[t]).cls
  BY <1>0, TopKnows DEF Cls
<1>2. CASE InitializeReturns(t)
  <2>1. Goto(t, "finish") /\ Head(stack[t]).pc = "initialize"
    BY <1>2 DEF InitializeReturns, At
  <2>2. FrameKnows(t, [cls |-> Cls(t), pc |-> "finish"])
    BY <1>1, <2>1 DEF FrameKnows
  <2> QED
    BY <1>0, <2>1, <2>2, GotoInner DEF PCs, Owning
<1>3. CASE CheckInitializing(t)
  <2>0. Head(stack[t]).pc = "check"
    BY <1>3 DEF CheckInitializing, At
  <2>1. CASE Cls(t) \notin initializing
    <3>1. Goto(t, "checkAgain")
      BY <1>3, <2>1 DEF CheckInitializing
    <3>2. FrameKnows(t, [cls |-> Cls(t), pc |-> "checkAgain"])
      BY <1>1, <2>0, <2>1 DEF FrameKnows
    <3> QED
      BY <1>0, <2>0, <3>1, <3>2, GotoInner DEF PCs, Owning
  <2>2. CASE Cls(t) \in initializing /\ Cls(t) \in metaclasses[t]
    BY <1>0, <1>3, <2>0, <2>2, ReturnInner DEF CheckInitializing
  <2>3. CASE Cls(t) \in initializing /\ Cls(t) \notin metaclasses[t]
    <3>1. PICK p \in {"forkChild", "wait"} :
            Goto(t, p) /\ (p = "forkChild" => MultithreadedForkChild)
      BY <1>3, <2>3 DEF CheckInitializing
    <3>2. FrameKnows(t, [cls |-> Cls(t), pc |-> p])
      BY <2>3, <3>1 DEF FrameKnows
    <3> QED
      BY <1>0, <2>0, <3>1, <3>2, GotoInner DEF PCs, Owning
  <2> QED
    BY <2>1, <2>2, <2>3
<1>4. CASE CheckInitialized(t)
  <2>1. Head(stack[t]).pc = "checkAgain"
    BY <1>4 DEF CheckInitialized, At
  <2>2. Cls(t) \in initialized
    BY <1>1, <2>1 DEF FrameKnows
  <2> QED
    BY <1>0, <1>4, <2>1, <2>2, ReturnInner DEF CheckInitialized
<1>5. CASE WaitForInitializeToComplete(t)
  <2>1. Head(stack[t]).pc = "wait"
    BY <1>5 DEF WaitForInitializeToComplete, At
  <2>2. CASE Cls(t) \in initialized
    BY <1>0, <1>5, <2>1, <2>2, ReturnInner DEF WaitForInitializeToComplete
  <2>3. CASE Cls(t) \notin initialized
    <3>1. stack' = stack /\ Typed /\ OneOwner
      BY <1>5, <2>3 DEF WaitForInitializeToComplete, Inner
    <3>2. /\ stack' \in [Threads -> Seq(Frame)] /\ OneOwner' /\ FramesFrom(t, {}) /\ Persist(t)
      BY <3>1 DEF Typed, OneOwner, FramesFrom, Persist, InMethod
    <3>3. t \in alive /\ classInitLock # t /\ Rules(Done(t), stack'[t])
      BY <1>0, <2>1, <3>1, TopKnows DEF Inner, Nested
    <3>4. Informed(t, {})
      BY DEF Informed
    <3> QED
      BY <1>0, <3>2, <3>3, <3>4, QuietInner
  <2> QED
    BY <2>2, <2>3
<1> QED
  BY <1>2, <1>3, <1>4, <1>5
-----------------------------------------------------------------------------
(* The queues. *)

\* The elements of the sequences that the queues are built with.
LEMMA QueueOps ==
  /\ Elems(<<>>) = {} /\ NoRepeat(<<>>)
  /\ \A c \in Classes : Elems(<<c>>) = {c} /\ NoRepeat(<<c>>) /\ <<c>> \in Seq(Classes)
  /\ \A s \in Seq(Classes) : Elems(s) \subseteq Classes /\ (s # <<>> => Elems(s) # {})
  BY DEF Elems, NoRepeat

LEMMA QueueTail ==
  ASSUME NEW s \in Seq(Classes), s # <<>>, NoRepeat(s)
  PROVE  /\ Head(s) \in Classes /\ Tail(s) \in Seq(Classes) /\ NoRepeat(Tail(s))
         /\ Elems(s) = {Head(s)} \cup Elems(Tail(s)) /\ Head(s) \notin Elems(Tail(s))
<1>1. /\ Head(s) \in Classes /\ Tail(s) \in Seq(Classes) /\ Len(s) \in Nat /\ Len(s) >= 1
      /\ Head(s) = s[1] /\ Len(Tail(s)) = Len(s) - 1
      /\ \A i \in 1 .. Len(s) - 1 : Tail(s)[i] = s[i + 1]
      /\ DOMAIN s = 1 .. Len(s) /\ DOMAIN Tail(s) = 1 .. Len(s) - 1
  OBVIOUS
<1> DEFINE q == Tail(s)
<1> HIDE DEF q
<1>2. \A i \in DOMAIN q : i + 1 \in DOMAIN s /\ q[i] = s[i + 1] /\ i + 1 # 1 /\ i \in Nat
  BY <1>1 DEF q
<1>3. \A i \in DOMAIN s : i # 1 => i - 1 \in DOMAIN q /\ q[i - 1] = s[i]
  <2> SUFFICES ASSUME NEW i \in DOMAIN s, i # 1 PROVE i - 1 \in DOMAIN q /\ q[i - 1] = s[i]
    OBVIOUS
  <2>1. i - 1 \in 1 .. Len(s) - 1 /\ (i - 1) + 1 = i
    BY <1>1
  <2> QED
    BY <1>1, <2>1 DEF q
<1>4. NoRepeat(q) /\ Head(s) \notin Elems(q)
  <2>1. Head(s) \notin Elems(q)
    BY <1>1, <1>2 DEF NoRepeat, Elems
  <2>2. ASSUME NEW i \in DOMAIN q, NEW j \in DOMAIN q, q[i] = q[j] PROVE i = j
    <3>1. i + 1 = j + 1 /\ i \in Nat /\ j \in Nat
      BY <1>2, <2>2 DEF NoRepeat
    <3> QED
      BY <3>1
  <2> QED
    BY <2>1, <2>2 DEF NoRepeat
<1>5. Elems(s) = {Head(s)} \cup Elems(q)
  <2>1. Elems(s) \subseteq {Head(s)} \cup Elems(q)
    BY <1>1, <1>3 DEF Elems
  <2>2. {Head(s)} \cup Elems(q) \subseteq Elems(s)
    BY <1>1, <1>2 DEF Elems
  <2> QED
    BY <2>1, <2>2
<1> QED
  BY <1>1, <1>4, <1>5 DEF q

LEMMA QueueJoin ==
  ASSUME NEW a \in Seq(Classes), NEW b \in Seq(Classes), NoRepeat(a), NoRepeat(b),
         Elems(a) \cap Elems(b) = {}
  PROVE  a \o b \in Seq(Classes) /\ Elems(a \o b) = Elems(a) \cup Elems(b) /\ NoRepeat(a \o b)
<1> DEFINE q == a \o b
<1>1. /\ q \in Seq(Classes) /\ Len(a) \in Nat /\ Len(b) \in Nat
      /\ DOMAIN a = 1 .. Len(a) /\ DOMAIN b = 1 .. Len(b)
      /\ DOMAIN q = 1 .. Len(a) + Len(b)
      /\ \A i \in 1 .. Len(a) + Len(b) : q[i] = IF i <= Len(a) THEN a[i] ELSE b[i - Len(a)]
  OBVIOUS
<1> HIDE DEF q
<1>2. \A i \in DOMAIN q :
        \/ i \in DOMAIN a /\ q[i] = a[i]
        \/ i - Len(a) \in DOMAIN b /\ q[i] = b[i - Len(a)] /\ i \in Nat
  BY <1>1
<1>3. /\ \A i \in DOMAIN a : i \in DOMAIN q /\ q[i] = a[i]
      /\ \A i \in DOMAIN b : i + Len(a) \in DOMAIN q /\ q[i + Len(a)] = b[i]
  BY <1>1
<1>4. Elems(q) = Elems(a) \cup Elems(b)
  <2>1. Elems(q) \subseteq Elems(a) \cup Elems(b)
    BY <1>2 DEF Elems
  <2>2. Elems(a) \cup Elems(b) \subseteq Elems(q)
    BY <1>3 DEF Elems
  <2> QED
    BY <2>1, <2>2
<1>5. NoRepeat(q)
  <2> SUFFICES ASSUME NEW i \in DOMAIN q, NEW j \in DOMAIN q, q[i] = q[j] PROVE i = j
    BY DEF NoRepeat
  <2>1. CASE i \in DOMAIN a /\ q[i] = a[i] /\ j \in DOMAIN a /\ q[j] = a[j]
    BY <2>1 DEF NoRepeat
  <2>2. CASE /\ i - Len(a) \in DOMAIN b /\ q[i] = b[i - Len(a)] /\ i \in Nat
             /\ j - Len(a) \in DOMAIN b /\ q[j] = b[j - Len(a)] /\ j \in Nat
    <3>1. i - Len(a) = j - Len(a)
      BY <2>2 DEF NoRepeat
    <3> QED
      BY <1>1, <2>2, <3>1
  <2>3. CASE q[i] \in Elems(a) /\ q[j] \in Elems(b)
    BY <2>3
  <2>4. CASE q[i] \in Elems(b) /\ q[j] \in Elems(a)
    BY <2>4
  <2> QED
    BY <1>2, <2>1, <2>2, <2>3, <2>4 DEF Elems
<1> QED
  BY <1>1, <1>4, <1>5 DEF q
-----------------------------------------------------------------------------
(* Steps that change what the innermost call knows. *)

\* All but the innermost call of t stay as they are.
OthersStay(t) ==
  \A u \in Threads : \A i \in DOMAIN stack'[u] :
    ~(u = t /\ i = 1) => i \in DOMAIN stack[u] /\ stack'[u][i] = stack[u][i]

\* Any set that has the classes dealt with so far.
RulesFrom(t) == \A D : Done(t) \subseteq D => Rules(D, stack'[t])

LEMMA GoShape ==
  ASSUME Inner, NEW t \in Threads, stack[t] # <<>>, NEW p \in PCs, Goto(t, p),
         p \in Owning => Head(stack[t]).pc \in Owning \/ Left(Cls(t)),
         Head(stack[t]).pc # "super"
  PROVE  /\ stack' \in [Threads -> Seq(Frame)] /\ OneOwner'
         /\ stack'[t] # <<>> /\ 1 \in DOMAIN stack'[t]
         /\ stack'[t][1].cls = Cls(t) /\ stack'[t][1].pc = p
         /\ OthersStay(t) /\ \A u \in Threads : u # t => stack'[u] = stack[u]
         /\ RulesFrom(t)
         /\ \A c : Left(c) /\ (p \in Owning => c # Cls(t)) => Left(c)'
         /\ \A u \in Threads, c \in Classes :
              InMethod(u, c) => InMethod(u, c)' \/ (u = t /\ c = Cls(t))
         /\ \A c : c = Cls(t) /\ p \in {"initialize", "finish"} => InMethod(t, c)'
<1> DEFINE f == [cls |-> Cls(t), pc |-> p]
<1>0. Typed /\ OneOwner
  BY DEF Inner
<1>1. /\ stack' \in [Threads -> Seq(Frame)] /\ OneOwner' /\ FramesFrom(t, {f})
      /\ \A c \in Classes : InMethod(t, c) => InMethod(t, c)' \/ c = Cls(t)
      /\ DOMAIN stack'[t] = DOMAIN stack[t]
      /\ \A i \in DOMAIN stack[t] : i # 1 => stack'[t][i] = stack[t][i]
      /\ stack'[t] # <<>> /\ stack'[t][1] = f /\ stack'[t] = <<f>> \o Tail(stack[t])
  BY <1>0, GoFrames
<1>2. /\ stack[t] \in Seq(Frame) /\ Below(Done(t), stack[t]) /\ Cls(t) \in Done(t)
      /\ Head(stack[t]) = stack[t][1] /\ Cls(t) \in Classes /\ 1 \in DOMAIN stack[t]
  BY TopKnows
<1>3. f \in Frame /\ f.cls = Cls(t) /\ f.pc = p
  BY <1>2 DEF Frame
<1> HIDE DEF f
<1>4. \A u \in Threads : u # t => stack'[u] = stack[u]
  BY <1>1 DEF FramesFrom
<1>5. OthersStay(t)
  BY <1>1, <1>4 DEF OthersStay
<1>6. RulesFrom(t)
  <2>1. Below(Done(t), stack'[t])
    BY <1>1, <1>2, <1>3, GoRules DEF Cls
  <2>2. Rules(Done(t), stack'[t])
    BY <1>1, <1>2, <1>3, <2>1 DEF Rules
  <2>3. stack'[t] \in Seq(Frame)
    BY <1>1
  <2> QED
    BY <2>2, <2>3, RulesGrow DEF RulesFrom
<1>7. ASSUME NEW c, Left(c), p \in Owning => c # Cls(t) PROVE Left(c)'
  BY <1>1, <1>3, <1>7, LeftKept
<1>8. ASSUME NEW u \in Threads, NEW c \in Classes, InMethod(u, c)
      PROVE  InMethod(u, c)' \/ (u = t /\ c = Cls(t))
  <2>1. CASE u = t
    BY <1>1, <1>8, <2>1
  <2>2. CASE u # t
    BY <1>4, <1>8, <2>2 DEF InMethod
  <2> QED
    BY <2>1, <2>2
<1>9. \A c : c = Cls(t) /\ p \in {"initialize", "finish"} => InMethod(t, c)'
  BY <1>1, <1>2, <1>3 DEF InMethod
<1> QED
  BY <1>1, <1>2, <1>3, <1>4, <1>5, <1>6, <1>7, <1>8, <1>9

\* The rules of the stacks, when no class stops being dealt with.
LEMMA NestedGrows ==
  ASSUME Inner, NEW t \in Threads, \A u \in Threads : u # t => stack'[u] = stack[u],
         \A u \in Threads : Done(u) \subseteq Done(u)', RulesFrom(t)
  PROVE  Nested'
<1> SUFFICES ASSUME NEW u \in Threads PROVE Rules(Done(u)', stack'[u])
  BY DEF Nested
<1>1. CASE u = t
  BY <1>1 DEF RulesFrom
<1>2. CASE u # t
  <2>1. Rules(Done(u), stack[u]) /\ stack[u] \in Seq(Frame) /\ stack'[u] = stack[u]
    BY <1>2 DEF Inner, Nested, Typed
  <2> QED
    BY <2>1, RulesGrow
<1> QED
  BY <1>1, <1>2

\* The election of the initializing thread, under classInitLock.
LEMMA TrySetInner ==
  ASSUME Inner, NEW t \in Threads, TrySetInitializing(t)
  PROVE  Inner'
<1>0. stack[t] # <<>> /\ Head(stack[t]).pc = "try" /\ classInitLock = NoThread
  BY DEF TrySetInitializing, At
<1>1. t \in alive /\ Cls(t) \in Classes /\ Cls(t) \in Done(t)
  BY <1>0, TopKnows
<1>2. CASE Cls(t) \in initialized \cup initializing
  <2>1. Goto(t, "check") /\ UNCHANGED rest
    BY <1>2 DEF TrySetInitializing, rest
  <2>2. FrameKnows(t, [cls |-> Cls(t), pc |-> "check"])
    BY <1>2 DEF FrameKnows
  <2> QED
    BY <1>0, <2>1, <2>2, GotoInner DEF PCs, Owning
<1>3. CASE Cls(t) \notin initialized \cup initializing
  <2> DEFINE c == Cls(t)
  <2>1. /\ Goto(t, "begin") /\ initializing' = initializing \cup {c}
        /\ UNCHANGED <<initialized, classInitLock, metaclasses, pendingInitialize, todo,
                       MultithreadedForkChild, alive, sent>>
    BY <1>3 DEF TrySetInitializing
  <2>2. /\ sent[c] = 0 /\ \A u \in Threads : c \notin metaclasses[u]
    BY <1>1, <1>3 DEF Inner, Flags
  <2>3. pendingInitialize[c] = <<>>
    BY <1>1, <1>3, QueueOps DEF Inner, Pending, Typed
  <2>4. Left(c)
    <3> SUFFICES ASSUME NEW u \in Threads, NEW i \in DOMAIN stack[u], stack[u][i].cls = c,
                        stack[u][i].pc \in Owning
                 PROVE  FALSE
      BY DEF Left
    <3>1. FrameKnows(u, stack[u][i])
      BY DEF Inner, Knowledge
    <3> QED
      BY <1>3, <2>2, <3>1 DEF FrameKnows, Owning
  <2>5. "begin" \in PCs
    BY DEF PCs
  <2>6. /\ stack' \in [Threads -> Seq(Frame)] /\ OneOwner'
        /\ stack'[t] # <<>> /\ stack'[t][1].cls = c /\ stack'[t][1].pc = "begin"
        /\ OthersStay(t) /\ \A u \in Threads : u # t => stack'[u] = stack[u]
        /\ RulesFrom(t) /\ \A d : Left(d) /\ d # c => Left(d)'
        /\ \A u \in Threads, d \in Classes :
              InMethod(u, d) => InMethod(u, d)' \/ (u = t /\ d = c)
    BY <1>0, <2>1, <2>4, <2>5, GoShape DEF Owning
  <2> HIDE DEF c
  <2>7. Typed' /\ Flags'
    BY <1>1, <2>1, <2>2, <2>6, <1>3 DEF Inner, Typed, Flags, c
  <2>8. Forked'
    BY <1>1, <2>1, <2>6 DEF Inner, Forked
  <2>9. Nested'
    <3>1. \A u \in Threads : Done(u) \subseteq Done(u)'
      BY <2>1 DEF Done, SuperDone, IsInitialized
    <3> QED
      BY <2>6, <3>1, NestedGrows
  <2>10. Knowledge'
    <3> SUFFICES ASSUME NEW u \in Threads, NEW i \in DOMAIN stack'[u]
                 PROVE  FrameKnows(u, stack[u][i])'
      BY DEF Knowledge
    <3>1. CASE u = t /\ i = 1
      BY <2>1, <2>2, <2>3, <2>6, <3>1 DEF FrameKnows
    <3>2. CASE ~(u = t /\ i = 1)
      <4>1. FrameKnows(u, stack[u][i]) /\ stack'[u][i] = stack[u][i]
        BY <2>6, <3>2 DEF OthersStay, Inner, Knowledge
      <4> QED
        BY <2>1, <4>1 DEF FrameKnows
    <3> QED
      BY <3>1, <3>2
  <2>11. Pending'
    <3>1. \A s \in Classes : \A d \in Elems(pendingInitialize[s]) : d # c
      BY <1>3 DEF Inner, Pending, c
    <3> QED
      BY <2>1, <2>6, <3>1, ZenonT(60) DEF Inner, Pending, Waits, Listed
  <2>12. Listing'
    <3>1. \A u \in Threads : \A d \in Elems(todo[u]) : d # c
      BY <2>2 DEF Inner, Listing
    <3>2. \A u \in Threads : classInitLock # u
      BY <1>0, ClassInitializeAssumption
    <3> QED
      BY <2>1, <2>6, <3>1, <3>2 DEF Inner, Listing, IsInitialized
  <2>13. Whereabouts'
    <3> SUFFICES ASSUME NEW u \in Threads, NEW d \in metaclasses[u]
                 PROVE  InMethod(u, d)' \/ Waits(d)' \/ Listed(d, u)'
      BY <2>1 DEF Whereabouts, InMethod
    <3>1. d \in Classes /\ d # c /\ (InMethod(u, d) \/ Waits(d) \/ Listed(d, u))
      BY <2>2 DEF Inner, Whereabouts, InMethod, Typed
    <3> QED
      BY <2>1, <2>6, <3>1 DEF Waits, Listed
  <2>14. Contiguous'
    <3>1. superclass[c] \in {Nil} \cup initializing \cup initialized
      BY <1>1 DEF Done, SuperDone, IsInitialized, Inner, Flags, c
    <3> QED
      BY <2>1, <3>1 DEF Inner, Contiguous, IsInitialized
  <2> QED
    BY <2>6, <2>7, <2>8, <2>9, <2>10, <2>11, <2>12, <2>13, <2>14 DEF Inner
<1> QED
  BY <1>2, <1>3

\* Nobody is the initializer of c, and nothing is left of its initialization.
Free(c) == /\ c \in initializing /\ pendingInitialize[c] = <<>> /\ ~Waits(c)
           /\ \A u \in Threads : c \notin metaclasses[u]

\* This thread becomes the initializer of the class.
LEMMA TakeUp ==
  ASSUME Inner, NEW t \in Threads, stack[t] # <<>>, NEW p \in {"initialize", "finish"},
         Goto(t, p), Free(Cls(t)),
         \/ Head(stack[t]).pc = "begin"
         \/ Head(stack[t]).pc = "forkChild" /\ Left(Cls(t)),
         metaclasses' = [metaclasses EXCEPT ![t] = @ \cup {Cls(t)}],
         \/ sent' = sent
         \/ sent' = [sent EXCEPT ![Cls(t)] = @ + 1] /\ sent[Cls(t)] = 0,
         UNCHANGED <<initializing, initialized, classInitLock, pendingInitialize, todo,
                     MultithreadedForkChild, alive>>
  PROVE  Inner'
<1> DEFINE c == Cls(t)
<1>1. t \in alive /\ c \in Classes /\ classInitLock # t
  BY TopKnows
<1>2. /\ p \in PCs /\ p \in Owning
      /\ Head(stack[t]).pc # "super" /\ (Head(stack[t]).pc \in Owning \/ Left(c))
  BY DEF PCs, Owning
<1>3. /\ stack' \in [Threads -> Seq(Frame)] /\ OneOwner'
      /\ stack'[t] # <<>> /\ 1 \in DOMAIN stack'[t]
      /\ stack'[t][1].cls = c /\ stack'[t][1].pc = p
      /\ OthersStay(t) /\ \A u \in Threads : u # t => stack'[u] = stack[u]
      /\ RulesFrom(t) /\ \A d : Left(d) /\ d # c => Left(d)'
      /\ \A u \in Threads, d \in Classes :
              InMethod(u, d) => InMethod(u, d)' \/ (u = t /\ d = c)
      /\ \A d : d = c => InMethod(t, d)'
  BY <1>2, GoShape
<1>4. /\ c \in initializing /\ pendingInitialize[c] = <<>> /\ ~Waits(c)
      /\ \A u \in Threads : c \notin metaclasses[u]
  BY DEF Free
<1>5. /\ metaclasses' \in [Threads -> SUBSET Classes]
      /\ metaclasses'[t] = metaclasses[t] \cup {c}
      /\ \A u \in Threads : u # t => metaclasses'[u] = metaclasses[u]
  BY <1>1 DEF Inner, Typed
<1>6. /\ sent' \in [Classes -> Nat] /\ sent'[c] \in {sent[c], 1}
      /\ \A d \in Classes : d # c => sent'[d] = sent[d]
  <2>0. sent \in [Classes -> Nat]
    BY DEF Inner, Typed
  <2> HIDE DEF c
  <2>1. CASE sent' = sent
    BY <2>0, <2>1
  <2>2. CASE sent' = [sent EXCEPT ![c] = @ + 1] /\ sent[c] = 0
    BY <1>1, <2>0, <2>2
  <2> QED
    BY <2>1, <2>2 DEF c
<1> HIDE DEF c
<1>7. Typed'
  BY <1>3, <1>5, <1>6 DEF Inner, Typed
<1>8. Flags'
  <2>1. \A u \in Threads : metaclasses'[u] \subseteq initializing
    BY <1>4, <1>5 DEF Inner, Flags
  <2>2. ASSUME NEW u \in Threads, NEW v \in Threads, u # v
        PROVE  metaclasses'[u] \cap metaclasses'[v] = {}
    BY <1>4, <1>5, <2>2 DEF Inner, Flags
  <2>3. \A d \in Classes : /\ sent'[d] <= 1
                           /\ d \notin initializing \cup initialized => sent'[d] = 0
    BY <1>4, <1>6 DEF Inner, Flags
  <2> QED
    BY <2>1, <2>2, <2>3 DEF Flags, Inner
<1>9. Forked'
  BY <1>1, <1>3, <1>5 DEF Inner, Forked
<1>10. Nested'
  <2>1. \A u \in Threads : Done(u) \subseteq Done(u)'
    BY <1>5 DEF Done, SuperDone, IsInitialized
  <2> QED
    BY <1>3, <2>1, NestedGrows
<1>11. Knowledge'
  <2> SUFFICES ASSUME NEW u \in Threads, NEW i \in DOMAIN stack'[u]
               PROVE  FrameKnows(u, stack[u][i])'
    BY DEF Knowledge
  <2>1. CASE u = t /\ i = 1
    BY <1>3, <1>5, <2>1 DEF FrameKnows
  <2>2. CASE ~(u = t /\ i = 1)
    <3>1. FrameKnows(u, stack[u][i]) /\ i \in DOMAIN stack[u] /\ stack'[u][i] = stack[u][i]
      BY <1>3, <2>2 DEF OthersStay, Inner, Knowledge
    <3>2. stack'[u][i].pc = "begin" => stack'[u][i].cls # c
      BY <1>2, <1>3, <2>2 DEF OneOwner, Owning
    <3>3. stack[u] \in Seq(Frame) /\ Below(Done(u), stack[u])
      BY DEF Inner, Nested, Rules, Typed
    <3>4. stack[u][i] \in Frame /\ (i # 1 => i > 1)
      BY <3>1, <3>3
    <3>5. stack'[u][i].pc = "forkChild" => u # t
      BY <2>2, <3>1, <3>3, <3>4 DEF Below
    <3>6. stack[u][i].cls \in Classes
      BY <3>4 DEF Frame
    <3> QED
      BY <1>5, <1>6, <3>1, <3>2, <3>5, <3>6 DEF FrameKnows
  <2> QED
    BY <2>1, <2>2
<1>12. Pending'
  <2>1. ASSUME NEW s \in Classes, NEW d \in Elems(pendingInitialize[s])
        PROVE  /\ superclass[d] = s /\ d \in initializing /\ s \in initializing
               /\ Left(d)' /\ \A u \in Threads : ~Listed(d, u)
               /\ \A u \in Threads : s \in metaclasses'[u] => d \in metaclasses'[u]
    <3>1. /\ superclass[d] = s /\ d \in initializing /\ s \in initializing
          /\ Left(d) /\ \A u \in Threads : ~Listed(d, u)
          /\ \A u \in Threads : s \in metaclasses[u] => d \in metaclasses[u]
      BY <2>1 DEF Inner, Pending
    <3>2. d # c /\ s # c
      BY <1>4, <3>1, <2>1, QueueOps DEF Waits
    <3> QED
      BY <1>3, <1>5, <3>1, <3>2
  <2> QED
    BY <2>1 DEF Inner, Pending, Waits, Listed
<1>13. Listing'
  <2>1. \A u \in Threads : \A d \in Elems(todo[u]) : d # c
    BY <1>4 DEF Inner, Listing
  <2> QED
    BY <1>1, <1>3, <1>5, <2>1 DEF Inner, Listing, IsInitialized
<1>14. Whereabouts'
  <2> SUFFICES ASSUME NEW u \in Threads, NEW d \in metaclasses'[u]
               PROVE  InMethod(u, d)' \/ Waits(d)' \/ Listed(d, u)'
    BY DEF Whereabouts, InMethod
  <2>1. CASE d = c
    BY <1>3, <1>4, <1>5, <2>1
  <2>2. CASE d # c
    <3>1. d \in metaclasses[u]
      BY <1>5, <2>2
    <3>2. d \in Classes /\ (InMethod(u, d) \/ Waits(d) \/ Listed(d, u))
      BY <3>1 DEF Inner, Whereabouts, InMethod, Typed
    <3> QED
      BY <1>3, <2>2, <3>2 DEF Waits, Listed
  <2> QED
    BY <2>1, <2>2
<1>15. Contiguous'
  BY DEF Inner, Contiguous, IsInitialized
<1> QED
  BY <1>3, <1>7, <1>8, <1>9, <1>10, <1>11, <1>12, <1>13, <1>14, <1>15 DEF Inner

\* +initialize is sent.
LEMMA CallInner ==
  ASSUME Inner, NEW t \in Threads, CallInitialize(t)
  PROVE  Inner' /\ halted' = halted
<1>1. /\ stack[t] # <<>> /\ Head(stack[t]).pc = "begin" /\ Goto(t, "initialize")
      /\ SetThisThreadIsInitializingClass(t)
      /\ sent' = [sent EXCEPT ![Cls(t)] = @ + 1]
      /\ UNCHANGED <<initializing, initialized, classInitLock, pendingInitialize, todo,
                     MultithreadedForkChild, alive>>
  BY DEF CallInitialize, At
<1>2. FrameKnows(t, Head(stack[t])) /\ ~Left(Cls(t)) /\ Cls(t) \in Classes
  BY <1>1, TopKnows DEF Owning
<1>3. /\ Cls(t) \in initializing /\ sent[Cls(t)] = 0 /\ pendingInitialize[Cls(t)] = <<>>
      /\ \A u \in Threads : Cls(t) \notin metaclasses[u]
  BY <1>1, <1>2 DEF FrameKnows, Cls
<1>4. ~Waits(Cls(t))
  BY <1>2 DEF Waits, Inner, Pending
<1>5. Free(Cls(t))
  BY <1>3, <1>4 DEF Free
<1>6. halted' = halted /\ metaclasses' = [metaclasses EXCEPT ![t] = @ \cup {Cls(t)}]
  BY <1>1, <1>3 DEF SetThisThreadIsInitializingClass
<1> QED
  BY <1>1, <1>3, <1>5, <1>6, TakeUp

\* After a fork() no class is initialized twice at once either: the class belongs
\* to a thread that is gone, and what it was queued behind does too.
LEMMA ForkChildFree ==
  ASSUME Inner, NEW t \in Threads, stack[t] # <<>>, Head(stack[t]).pc = "forkChild",
         Cls(t) \in Trivial
  PROVE  Free(Cls(t)) /\ Left(Cls(t))
<1> DEFINE c == Cls(t)
<1>0. /\ FrameKnows(t, Head(stack[t])) /\ t \in alive /\ c \in Classes /\ c \in Done(t)
      /\ Below(Done(t), stack[t]) /\ Head(stack[t]) = stack[t][1] /\ stack[t] \in Seq(Frame)
  BY TopKnows
<1>1. MultithreadedForkChild /\ c \notin metaclasses[t] /\ c \in initializing
  BY <1>0 DEF FrameKnows, Cls
<1>2. alive = {t} /\ \A u \in Threads : u # t => stack[u] = <<>> /\ metaclasses[u] = {}
  BY <1>0, <1>1 DEF Inner, Forked
<1>3. \A u \in Threads : c \notin metaclasses[u]
  BY <1>1, <1>2
<1> HIDE DEF c
<1>4. ~Waits(c)
  <2> SUFFICES ASSUME Waits(c) PROVE FALSE
    OBVIOUS
  <2>1. /\ superclass[c] \in initializing
        /\ \A u \in Threads : superclass[c] \in metaclasses[u] => c \in metaclasses[u]
    BY DEF Waits, Inner, Pending
  <2>2. superclass[c] \in Classes
    BY DEF Waits
  <2> QED
    BY <1>0, <1>3, <2>1, <2>2, ClassInitializeAssumption
    DEF Done, SuperDone, IsInitialized, Inner, Flags
<1>5. pendingInitialize[c] = <<>>
  <2>1. \A u \in Threads : ~Listed(c, u)
    BY <1>3 DEF Inner, Listing, Listed
  <2> QED
    BY <1>0, <1>4, <2>1 DEF Inner, Pending, c
<1>6. Left(c)
  <2> SUFFICES ASSUME NEW u \in Threads, NEW i \in DOMAIN stack[u], stack[u][i].cls = c,
                      stack[u][i].pc \in Owning
               PROVE  FALSE
    BY DEF Left
  <2>1. u = t
    <3>1. u # t => stack[u] = <<>>
      BY <1>2
    <3>2. stack[u] # <<>>
      BY DEF Inner, Typed
    <3> QED
      BY <3>1, <3>2
  <2>2. i # 1
    BY <1>0, <2>1 DEF Owning
  <2>3. stack[u][i].pc # "begin"
    BY <1>0, <2>1, <2>2 DEF Below
  <2>4. FrameKnows(u, stack[u][i])
    BY DEF Inner, Knowledge
  <2> QED
    BY <1>3, <2>3, <2>4 DEF FrameKnows, Owning
<1> QED
  BY <1>1, <1>3, <1>4, <1>5, <1>6 DEF Free, c

\* performForkChildInitialize, where it is not fatal.
LEMMA ForkChildInner ==
  ASSUME Inner, NEW t \in Threads, halted = "no", PerformForkChildInitialize(t)
  PROVE  IF Cls(t) \in Trivial THEN Inner' /\ halted' = halted
                               ELSE halted' = "initialize after fork"
<1>1. CASE Cls(t) \notin Trivial
  BY <1>1 DEF PerformForkChildInitialize
<1>2. CASE Cls(t) \in Trivial
  <2>1. /\ stack[t] # <<>> /\ Head(stack[t]).pc \in {"begin", "forkChild"}
        /\ Goto(t, "finish") /\ SetThisThreadIsInitializingClass(t) /\ sent' = sent
        /\ UNCHANGED <<initializing, initialized, classInitLock, pendingInitialize, todo,
                       MultithreadedForkChild, alive>>
    BY <1>2 DEF PerformForkChildInitialize, At
  <2>2. Free(Cls(t)) /\ (Head(stack[t]).pc = "forkChild" => Left(Cls(t)))
    <3>1. CASE Head(stack[t]).pc = "begin"
      <4>1. FrameKnows(t, Head(stack[t])) /\ ~Left(Cls(t)) /\ Cls(t) \in Classes
        BY <2>1, <3>1, TopKnows DEF Owning
      <4>2. ~Waits(Cls(t))
        BY <4>1 DEF Waits, Inner, Pending
      <4> QED
        BY <3>1, <4>1, <4>2 DEF FrameKnows, Cls, Free
    <3>2. CASE Head(stack[t]).pc = "forkChild"
      BY <1>2, <2>1, <3>2, ForkChildFree
    <3> QED
      BY <2>1, <3>1, <3>2
  <2>3. halted' = halted /\ metaclasses' = [metaclasses EXCEPT ![t] = @ \cup {Cls(t)}]
    BY <2>1, <2>2 DEF SetThisThreadIsInitializingClass, Free
  <2> QED
    BY <1>2, <2>1, <2>2, <2>3, TakeUp
<1> QED
  BY <1>1, <1>2
-----------------------------------------------------------------------------
(* lockAndFinishInitializing and _finishInitializing. *)

\* Nobody is marking classes while classInitLock is free.
LEMMA LockFree ==
  ASSUME Inner, classInitLock = NoThread
  PROVE  /\ \A u \in Threads : classInitLock # u /\ todo[u] = <<>>
         /\ \A u \in Threads : \A d : ~Listed(d, u)
         /\ \A u \in Threads : \A i \in DOMAIN stack[u] : stack[u][i].pc # "finishing"
<1>1. \A u \in Threads : classInitLock # u
  BY ClassInitializeAssumption
<1>2. \A u \in Threads : todo[u] = <<>>
  BY <1>1 DEF Inner, Listing
<1>3. \A u \in Threads : \A d : ~Listed(d, u)
  BY <1>2, QueueOps DEF Listed
<1>4. \A u \in Threads : \A i \in DOMAIN stack[u] : stack[u][i].pc # "finishing"
  BY <1>1 DEF Inner, Knowledge, FrameKnows
<1> QED
  BY <1>1, <1>2, <1>3, <1>4

\* The superclass is initialized: this thread starts to mark the class.
LEMMA FinishNowInner ==
  ASSUME Inner, NEW t \in Threads, FinishInitializingNow(t), NEW c, c = Cls(t)
  PROVE  Inner'
<1>0. /\ stack[t] # <<>> /\ Head(stack[t]).pc = "finish" /\ classInitLock = NoThread
      /\ classInitLock' = t /\ todo' = [todo EXCEPT ![t] = <<c>>] /\ Goto(t, "finishing")
      /\ UNCHANGED <<initializing, initialized, metaclasses, pendingInitialize,
                     MultithreadedForkChild, alive, sent>>
      /\ IsInitialized(superclass[c])
  BY DEF FinishInitializingNow, At, Super
<1>1. /\ t \in alive /\ c \in Classes /\ 1 \in DOMAIN stack[t] /\ Head(stack[t]) = stack[t][1]
      /\ FrameKnows(t, Head(stack[t])) /\ ~Left(c)
  BY <1>0, TopKnows DEF Owning
<1>2. c \in metaclasses[t]
  BY <1>0, <1>1 DEF FrameKnows, Cls
<1>3. /\ \A u \in Threads : classInitLock # u /\ todo[u] = <<>>
      /\ \A u \in Threads : \A d : ~Listed(d, u)
      /\ \A u \in Threads : \A i \in DOMAIN stack[u] : stack[u][i].pc # "finishing"
  BY <1>0, LockFree
<1>4. "finishing" \in PCs /\ "finishing" \notin Owning
  BY DEF PCs, Owning
<1>5. /\ stack' \in [Threads -> Seq(Frame)] /\ OneOwner'
      /\ stack'[t] # <<>> /\ 1 \in DOMAIN stack'[t]
      /\ stack'[t][1].cls = c /\ stack'[t][1].pc = "finishing"
      /\ OthersStay(t) /\ \A u \in Threads : u # t => stack'[u] = stack[u]
      /\ RulesFrom(t) /\ \A d : Left(d) => Left(d)'
      /\ \A u \in Threads, d \in Classes :
              InMethod(u, d) => InMethod(u, d)' \/ (u = t /\ d = c)
  BY <1>0, <1>4, GoShape
<1>6. Left(c)'
  <2> SUFFICES ASSUME NEW u \in Threads, NEW i \in DOMAIN stack'[u], stack'[u][i].cls = c,
                      stack'[u][i].pc \in Owning
               PROVE  FALSE
    BY DEF Left
  <2>1. ~(u = t /\ i = 1)
    BY <1>4, <1>5
  <2>2. i \in DOMAIN stack[u] /\ stack'[u][i] = stack[u][i]
    BY <1>5, <2>1 DEF OthersStay
  <2>3. stack[t][1].cls = c /\ stack[t][1].pc \in Owning
    BY <1>0, <1>1 DEF Cls, Owning
  <2> QED
    BY <1>1, <2>1, <2>2, <2>3 DEF Inner, OneOwner
<1>7. /\ todo' \in [Threads -> Seq(Classes)] /\ todo'[t] = <<c>>
      /\ Elems(todo'[t]) = {c} /\ NoRepeat(todo'[t])
      /\ \A u \in Threads : u # t => todo'[u] = <<>> /\ Elems(todo'[u]) = {} /\ NoRepeat(todo'[u])
  <2>1. todo' \in [Threads -> Seq(Classes)] /\ todo'[t] = <<c>>
    BY <1>0, <1>1 DEF Inner, Typed
  <2>2. \A u \in Threads : u # t => todo'[u] = <<>>
    BY <1>0, <1>3 DEF Inner, Typed
  <2> QED
    BY <1>1, <2>1, <2>2, QueueOps
<1>8. Typed' /\ Flags' /\ Contiguous' /\ Forked'
  <2>1. Typed'
    BY <1>0, <1>5, <1>7 DEF Inner, Typed
  <2>2. Flags' /\ Contiguous'
    BY <1>0 DEF Inner, Flags, Contiguous, IsInitialized
  <2>3. Forked'
    BY <1>0, <1>1, <1>5 DEF Inner, Forked
  <2> QED
    BY <2>1, <2>2, <2>3
<1>9. Nested'
  <2>1. \A u \in Threads : Done(u) \subseteq Done(u)'
    BY <1>0 DEF Done, SuperDone, IsInitialized
  <2> QED
    BY <1>5, <2>1, NestedGrows
<1>10. Knowledge'
  <2> SUFFICES ASSUME NEW u \in Threads, NEW i \in DOMAIN stack'[u]
               PROVE  FrameKnows(u, stack[u][i])'
    BY DEF Knowledge
  <2>1. CASE u = t /\ i = 1
    BY <1>0, <1>5, <1>7, <2>1 DEF FrameKnows
  <2>2. CASE ~(u = t /\ i = 1)
    <3>1. FrameKnows(u, stack[u][i]) /\ i \in DOMAIN stack[u] /\ stack'[u][i] = stack[u][i]
      BY <1>5, <2>2 DEF OthersStay, Inner, Knowledge
    <3>2. stack[u][i].pc # "finishing"
      BY <1>3, <3>1
    <3> QED
      BY <1>0, <3>1, <3>2 DEF FrameKnows
  <2> QED
    BY <2>1, <2>2
<1>11. Pending'
  <2> SUFFICES ASSUME NEW s \in Classes
               PROVE  /\ NoRepeat(pendingInitialize[s])
                      /\ \A d \in Elems(pendingInitialize[s]) :
                           /\ superclass[d] = s /\ d \in initializing /\ s \in initializing
                           /\ Left(d)' /\ \A u \in Threads : ~Listed(d, u)'
                           /\ \A u \in Threads : s \in metaclasses[u] => d \in metaclasses[u]
                      /\ s \in Trivial /\ pendingInitialize[s] # <<>> => Waits(s)'
    BY <1>0 DEF Pending
  <2>1. \A d \in Elems(pendingInitialize[s]) : Left(d)' /\ \A u \in Threads : ~Listed(d, u)'
    BY <1>1, <1>5, <1>7 DEF Inner, Pending, Listed
  <2>2. s \in Trivial /\ pendingInitialize[s] # <<>> => Waits(s)'
    BY <1>0, <1>3 DEF Inner, Pending, Waits
  <2> QED
    BY <2>1, <2>2 DEF Inner, Pending
<1>12. Listing'
  <2> SUFFICES ASSUME NEW u \in Threads
               PROVE  /\ NoRepeat(todo'[u])
                      /\ \A d \in Elems(todo'[u]) :
                          d \in metaclasses'[u] /\ IsInitialized(superclass[d])' /\ Left(d)'
                      /\ todo'[u] # <<>> => classInitLock' = u
                      /\ classInitLock' = u =>
                           /\ u \in alive'
                           /\ stack'[u] # <<>> /\ stack'[u][1].pc = "finishing"
    BY DEF Listing
  <2>1. CASE u = t
    BY <1>0, <1>1, <1>2, <1>5, <1>6, <1>7, <2>1 DEF IsInitialized
  <2>2. CASE u # t
    BY <1>0, <1>7, <2>2
  <2> QED
    BY <2>1, <2>2
<1>13. Whereabouts'
  <2> SUFFICES ASSUME NEW u \in Threads, NEW d \in metaclasses[u]
               PROVE  InMethod(u, d)' \/ Waits(d)' \/ Listed(d, u)'
    BY <1>0 DEF Whereabouts, InMethod
  <2>1. d \in Classes /\ (InMethod(u, d) \/ Waits(d))
    BY <1>3 DEF Inner, Whereabouts, InMethod, Typed
  <2>2. u = t /\ d = c => Listed(d, u)'
    BY <1>7 DEF Listed
  <2> QED
    BY <1>0, <1>5, <2>1, <2>2 DEF Waits
<1> QED
  BY <1>5, <1>8, <1>9, <1>10, <1>11, <1>12, <1>13 DEF Inner

\* A call that returns leaves the other frames.
LEMMA ReturnShape ==
  ASSUME Inner, NEW t \in Threads, stack[t] # <<>>, Return(t),
         \A c \in Classes : superclass[c] = Cls(t) => c \in Done(t)
  PROVE  /\ stack' \in [Threads -> Seq(Frame)] /\ OneOwner'
         /\ \A u \in Threads : u # t => stack'[u] = stack[u]
         /\ RulesFrom(t) /\ \A c : Left(c) => Left(c)'
         /\ \A u \in Threads : \A i \in DOMAIN stack'[u] : \E j \in DOMAIN stack[u] :
              stack'[u][i] = stack[u][j] /\ ~(u = t /\ j = 1)
         /\ \A u \in Threads, c \in Classes :
              InMethod(u, c) =>
                \/ InMethod(u, c)'
                \/ u = t /\ c = Cls(t) /\ Head(stack[t]).pc \in {"initialize", "finish"}
<1>0. Typed /\ OneOwner
  BY DEF Inner
<1>1. /\ stack' \in [Threads -> Seq(Frame)] /\ FramesFrom(t, {}) /\ OneOwner'
      /\ stack'[t] = Tail(stack[t])
      /\ \A c \in Classes : InMethod(t, c) =>
           InMethod(t, c)' \/ (c = Cls(t) /\ Head(stack[t]).pc \in {"initialize", "finish"})
  BY <1>0, ReturnFrames
<1>2. /\ stack[t] \in Seq(Frame) /\ Below(Done(t), stack[t]) /\ Head(stack[t]) = stack[t][1]
      /\ stack[t][1] \in Frame
  BY TopKnows
<1>3. \A u \in Threads : u # t => stack'[u] = stack[u]
  BY <1>1 DEF FramesFrom
<1>4. RulesFrom(t)
  <2>1. Rules(Done(t), stack'[t])
    BY <1>1, <1>2, ReturnRules DEF Cls
  <2>2. stack'[t] \in Seq(Frame)
    BY <1>1
  <2> QED
    BY <2>1, <2>2, RulesGrow DEF RulesFrom
<1>5. \A c : Left(c) => Left(c)'
  BY <1>1, LeftKept
<1>6. ASSUME NEW u \in Threads, NEW i \in DOMAIN stack'[u]
      PROVE  \E j \in DOMAIN stack[u] : stack'[u][i] = stack[u][j] /\ ~(u = t /\ j = 1)
  <2>1. CASE u # t
    BY <1>3, <2>1
  <2>2. CASE u = t
    <3>1. /\ Len(stack'[t]) = Len(stack[t]) - 1 /\ stack'[t] \in Seq(Frame)
          /\ \A k \in 1 .. Len(stack[t]) - 1 : stack'[t][k] = stack[t][k + 1]
      BY <1>1, <1>2, StackOps
    <3>2. i \in 1 .. Len(stack[t]) - 1 /\ i + 1 \in DOMAIN stack[t] /\ i + 1 # 1
      BY <1>2, <2>2, <3>1
    <3> QED
      BY <2>2, <3>1, <3>2
  <2> QED
    BY <2>1, <2>2
<1>7. ASSUME NEW u \in Threads, NEW c \in Classes, InMethod(u, c)
      PROVE  \/ InMethod(u, c)'
             \/ u = t /\ c = Cls(t) /\ Head(stack[t]).pc \in {"initialize", "finish"}
  <2>1. CASE u = t
    BY <1>1, <1>7, <2>1
  <2>2. CASE u # t
    BY <1>3, <1>7, <2>2 DEF InMethod
  <2> QED
    BY <2>1, <2>2
<1> QED
  BY <1>1, <1>3, <1>4, <1>5, <1>6, <1>7

\* The superclass is not initialized yet: the class is queued behind it.
LEMMA FinishAfterInner ==
  ASSUME Inner, NEW t \in Threads, FinishInitializingAfter(t), NEW c, c = Cls(t)
  PROVE  Inner'
<1> DEFINE p == superclass[c]
<1>0. /\ stack[t] # <<>> /\ Head(stack[t]).pc = "finish" /\ classInitLock = NoThread
      /\ pendingInitialize' = [pendingInitialize EXCEPT ![p] = <<c>> \o @] /\ Return(t)
      /\ UNCHANGED <<initializing, initialized, classInitLock, metaclasses, todo,
                     MultithreadedForkChild, alive, sent>>
      /\ ~IsInitialized(p)
  BY DEF FinishInitializingAfter, At, Super
<1>1. /\ t \in alive /\ c \in Classes /\ 1 \in DOMAIN stack[t] /\ Head(stack[t]) = stack[t][1]
      /\ FrameKnows(t, Head(stack[t])) /\ ~Left(c) /\ c \in Done(t) /\ stack[t] \in Seq(Frame)
      /\ Below(Done(t), stack[t])
  BY <1>0, TopKnows DEF Owning
<1>2. /\ c \in metaclasses[t] /\ p \in metaclasses[t] /\ p \in Classes
      /\ c \in initializing /\ p \in initializing
  <2>1. c \in metaclasses[t]
    BY <1>0, <1>1 DEF FrameKnows, Cls
  <2>2. p \in metaclasses[t]
    BY <1>0, <1>1 DEF Done, SuperDone
  <2> QED
    BY <2>1, <2>2 DEF Inner, Typed, Flags
<1>3. /\ \A u \in Threads : classInitLock # u /\ todo[u] = <<>>
      /\ \A u \in Threads : \A d : ~Listed(d, u)
      /\ \A u \in Threads : \A i \in DOMAIN stack[u] : stack[u][i].pc # "finishing"
  BY <1>0, LockFree
<1>4. \A d \in Classes : superclass[d] = Cls(t) => d \in Done(t)
  BY <1>2 DEF Done, SuperDone
<1>5. /\ stack' \in [Threads -> Seq(Frame)] /\ OneOwner'
      /\ \A u \in Threads : u # t => stack'[u] = stack[u]
      /\ RulesFrom(t) /\ \A d : Left(d) => Left(d)'
      /\ \A u \in Threads : \A i \in DOMAIN stack'[u] : \E j \in DOMAIN stack[u] :
           stack'[u][i] = stack[u][j] /\ ~(u = t /\ j = 1)
      /\ \A u \in Threads, d \in Classes :
           InMethod(u, d) => InMethod(u, d)' \/ (u = t /\ d = c)
  BY <1>0, <1>4, ReturnShape
<1> HIDE DEF p
<1>6. Left(c)'
  <2> SUFFICES ASSUME NEW u \in Threads, NEW i \in DOMAIN stack'[u], stack'[u][i].cls = c,
                      stack'[u][i].pc \in Owning
               PROVE  FALSE
    BY DEF Left
  <2>1. PICK j \in DOMAIN stack[u] : stack'[u][i] = stack[u][j] /\ ~(u = t /\ j = 1)
    BY <1>5
  <2>2. stack[t][1].cls = c /\ stack[t][1].pc \in Owning
    BY <1>0, <1>1 DEF Cls, Owning
  <2> QED
    BY <1>1, <2>1, <2>2 DEF Inner, OneOwner
<1>7. /\ pendingInitialize' \in [Classes -> Seq(Classes)]
      /\ Elems(pendingInitialize'[p]) = {c} \cup Elems(pendingInitialize[p])
      /\ NoRepeat(pendingInitialize'[p])
      /\ \A s \in Classes : s # p => pendingInitialize'[s] = pendingInitialize[s]
  <2>1. /\ pendingInitialize[p] \in Seq(Classes) /\ NoRepeat(pendingInitialize[p])
        /\ <<c>> \in Seq(Classes) /\ NoRepeat(<<c>>) /\ Elems(<<c>>) = {c}
    BY <1>1, <1>2, QueueOps DEF Inner, Typed, Pending
  <2>2. c \notin Elems(pendingInitialize[p])
    BY <1>1, <1>2 DEF Inner, Pending
  <2>3. /\ <<c>> \o pendingInitialize[p] \in Seq(Classes)
        /\ Elems(<<c>> \o pendingInitialize[p]) = {c} \cup Elems(pendingInitialize[p])
        /\ NoRepeat(<<c>> \o pendingInitialize[p])
    BY <2>1, <2>2, QueueJoin, ZenonT(60)
  <2>4. /\ pendingInitialize'[p] = <<c>> \o pendingInitialize[p]
        /\ \A s \in Classes : s # p => pendingInitialize'[s] = pendingInitialize[s]
        /\ DOMAIN pendingInitialize' = Classes
        /\ pendingInitialize' = [s \in Classes |-> pendingInitialize'[s]]
    BY <1>0, <1>2 DEF Inner, Typed
  <2>5. \A s \in Classes : pendingInitialize'[s] \in Seq(Classes)
    BY <2>3, <2>4 DEF Inner, Typed
  <2> QED
    BY <2>3, <2>4, <2>5
<1>8. Typed' /\ Flags' /\ Contiguous' /\ Forked'
  <2>1. Typed'
    BY <1>0, <1>5, <1>7 DEF Inner, Typed
  <2>2. Flags' /\ Contiguous'
    BY <1>0 DEF Inner, Flags, Contiguous, IsInitialized
  <2>3. Forked'
    BY <1>0, <1>1, <1>5 DEF Inner, Forked
  <2> QED
    BY <2>1, <2>2, <2>3
<1>9. Nested'
  <2>1. \A u \in Threads : Done(u) \subseteq Done(u)'
    BY <1>0 DEF Done, SuperDone, IsInitialized
  <2> QED
    BY <1>5, <2>1, NestedGrows
<1>10. Knowledge'
  <2> SUFFICES ASSUME NEW u \in Threads, NEW i \in DOMAIN stack'[u]
               PROVE  FrameKnows(u, stack[u][i])'
    BY DEF Knowledge
  <2>1. PICK j \in DOMAIN stack[u] : stack'[u][i] = stack[u][j]
    BY <1>5
  <2>2. FrameKnows(u, stack'[u][i]) /\ stack'[u][i] \in Frame
    BY <2>1 DEF Inner, Knowledge, Typed
  <2>3. stack'[u][i].cls \in Classes
    BY <2>2 DEF Frame
  <2>4. stack'[u][i].pc = "begin" => pendingInitialize'[stack'[u][i].cls] = <<>>
    BY <1>2, <1>7, <2>2, <2>3 DEF FrameKnows
  <2> QED
    BY <1>0, <2>2, <2>4 DEF FrameKnows
<1>11. \A d : Waits(d) => Waits(d)'
  BY <1>7 DEF Waits
<1>12. Waits(c)'
  BY <1>2, <1>7 DEF Waits, p
<1>13. Pending'
  <2> SUFFICES ASSUME NEW s \in Classes
               PROVE  /\ NoRepeat(pendingInitialize'[s])
                      /\ \A d \in Elems(pendingInitialize'[s]) :
                           /\ superclass[d] = s /\ d \in initializing /\ s \in initializing
                           /\ Left(d)' /\ \A u \in Threads : ~Listed(d, u)'
                           /\ \A u \in Threads : s \in metaclasses[u] => d \in metaclasses[u]
                      /\ s \in Trivial /\ pendingInitialize'[s] # <<>> => Waits(s)'
    BY <1>0 DEF Pending
  <2>1. NoRepeat(pendingInitialize'[s])
    BY <1>7 DEF Inner, Pending
  <2>2. ASSUME NEW d \in Elems(pendingInitialize'[s])
        PROVE  /\ superclass[d] = s /\ d \in initializing /\ s \in initializing
               /\ Left(d)' /\ \A u \in Threads : ~Listed(d, u)'
               /\ \A u \in Threads : s \in metaclasses[u] => d \in metaclasses[u]
    <3>0. \A u \in Threads : ~Listed(d, u)'
      BY <1>0, <1>3 DEF Listed
    <3>1. CASE d \in Elems(pendingInitialize[s])
      BY <1>5, <3>0, <3>1 DEF Inner, Pending
    <3>2. CASE s = p /\ d = c
      <4>1. \A u \in Threads : s \in metaclasses[u] => d \in metaclasses[u]
        BY <1>2, <3>2 DEF Inner, Flags
      <4> QED
        BY <1>2, <1>6, <3>0, <3>2, <4>1 DEF p
    <3> QED
      BY <1>7, <3>1, <3>2
  <2>3. ASSUME s \in Trivial, pendingInitialize'[s] # <<>>
        PROVE  Waits(s)'
    <3>1. CASE s # p
      BY <1>3, <1>7, <1>11, <2>3, <3>1 DEF Inner, Pending
    <3>2. CASE s = p
      <4>1. InMethod(t, p) \/ Waits(p)
        BY <1>2, <1>3 DEF Inner, Whereabouts, InMethod
      <4>2. CASE Waits(p)
        BY <1>11, <3>2, <4>2
      <4>3. CASE InMethod(t, p)
        <5>1. PICK i \in DOMAIN stack[t] :
                stack[t][i].cls = p /\ stack[t][i].pc \in {"initialize", "finish"}
          BY <4>3 DEF InMethod
        <5>2. CASE i = 1
          BY <1>1, <1>12, <3>2, <5>1, <5>2 DEF Cls
        <5>3. CASE i # 1
          <6>1. i > 1
            BY <1>1, <5>1, <5>3
          <6> QED
            BY <1>1, <2>3, <3>2, <5>1, <6>1 DEF Below
        <5> QED
          BY <5>2, <5>3
      <4> QED
        BY <4>1, <4>2, <4>3
    <3> QED
      BY <3>1, <3>2
  <2> QED
    BY <2>1, <2>2, <2>3
<1>14. Listing'
  <2>1. \A u \in Threads : Elems(todo'[u]) = {} /\ NoRepeat(todo'[u])
    BY <1>0, <1>3, QueueOps
  <2> QED
    BY <1>0, <1>3, <2>1 DEF Listing
<1>15. Whereabouts'
  <2> SUFFICES ASSUME NEW u \in Threads, NEW d \in metaclasses[u]
               PROVE  InMethod(u, d)' \/ Waits(d)' \/ Listed(d, u)'
    BY <1>0 DEF Whereabouts, InMethod
  <2>1. d \in Classes /\ (InMethod(u, d) \/ Waits(d))
    BY <1>3 DEF Inner, Whereabouts, InMethod, Typed
  <2> QED
    BY <1>5, <1>11, <1>12, <2>1
<1> QED
  BY <1>5, <1>8, <1>9, <1>10, <1>13, <1>14, <1>15 DEF Inner

\* Marking is done, and classInitLock is released.
LEMMA FinishDoneInner ==
  ASSUME Inner, NEW t \in Threads, FinishDone(t)
  PROVE  Inner'
<1>0. /\ stack[t] # <<>> /\ Head(stack[t]).pc = "finishing" /\ todo[t] = <<>>
      /\ classInitLock' = NoThread /\ Return(t)
      /\ UNCHANGED <<initializing, initialized, metaclasses, pendingInitialize, todo,
                     MultithreadedForkChild, alive, sent>>
  BY DEF FinishDone, At
<1>1. /\ t \in alive /\ Cls(t) \in Classes /\ Head(stack[t]) = stack[t][1]
      /\ FrameKnows(t, Head(stack[t])) /\ stack[t] \in Seq(Frame) /\ Below(Done(t), stack[t])
  BY <1>0, TopKnows
<1>2. classInitLock = t /\ Cls(t) \in initialized
  BY <1>0, <1>1, QueueOps DEF FrameKnows, Cls
<1>3. \A u \in Threads : todo[u] = <<>>
  BY <1>0, <1>2 DEF Inner, Listing
<1>4. \A d \in Classes : superclass[d] = Cls(t) => d \in Done(t)
  BY <1>2 DEF Done, SuperDone, IsInitialized
<1>5. /\ stack' \in [Threads -> Seq(Frame)] /\ OneOwner'
      /\ \A u \in Threads : u # t => stack'[u] = stack[u]
      /\ RulesFrom(t) /\ \A d : Left(d) => Left(d)'
      /\ \A u \in Threads : \A i \in DOMAIN stack'[u] : \E j \in DOMAIN stack[u] :
           stack'[u][i] = stack[u][j] /\ ~(u = t /\ j = 1)
      /\ \A u \in Threads, d \in Classes : InMethod(u, d) => InMethod(u, d)'
  BY <1>0, <1>4, ReturnShape
<1>6. Typed' /\ Flags' /\ Contiguous' /\ Forked'
  <2>1. Typed'
    BY <1>0, <1>5 DEF Inner, Typed
  <2>2. Flags' /\ Contiguous'
    BY <1>0 DEF Inner, Flags, Contiguous, IsInitialized
  <2>3. Forked'
    BY <1>0, <1>1, <1>5 DEF Inner, Forked
  <2> QED
    BY <2>1, <2>2, <2>3
<1>7. Nested'
  <2>1. \A u \in Threads : Done(u) \subseteq Done(u)'
    BY <1>0 DEF Done, SuperDone, IsInitialized
  <2> QED
    BY <1>5, <2>1, NestedGrows
<1>8. Knowledge'
  <2> SUFFICES ASSUME NEW u \in Threads, NEW i \in DOMAIN stack'[u]
               PROVE  FrameKnows(u, stack[u][i])'
    BY DEF Knowledge
  <2>1. PICK j \in DOMAIN stack[u] : stack'[u][i] = stack[u][j] /\ ~(u = t /\ j = 1)
    BY <1>5
  <2>2. FrameKnows(u, stack'[u][i])
    BY <2>1 DEF Inner, Knowledge
  <2>3. stack'[u][i].pc # "finishing"
    <3>1. CASE u # t
      BY <1>2, <2>2, <3>1 DEF FrameKnows
    <3>2. CASE u = t
      <4>1. j > 1
        BY <1>1, <2>1, <3>2
      <4> QED
        BY <1>1, <2>1, <3>2, <4>1 DEF Below
    <3> QED
      BY <3>1, <3>2
  <2> QED
    BY <1>0, <2>2, <2>3 DEF FrameKnows
<1>9. Pending'
  BY <1>0, <1>5 DEF Inner, Pending, Waits, Listed
<1>10. Listing'
  <2>1. \A u \in Threads : Elems(todo'[u]) = {} /\ NoRepeat(todo'[u])
    BY <1>0, <1>3, QueueOps
  <2>2. \A u \in Threads : classInitLock' # u
    BY <1>0, ClassInitializeAssumption
  <2> QED
    BY <1>0, <1>3, <2>1, <2>2 DEF Listing
<1>11. Whereabouts'
  <2> SUFFICES ASSUME NEW u \in Threads, NEW d \in metaclasses[u]
               PROVE  InMethod(u, d)' \/ Waits(d)' \/ Listed(d, u)'
    BY <1>0 DEF Whereabouts, InMethod
  <2>1. d \in Classes /\ (InMethod(u, d) \/ Waits(d) \/ Listed(d, u))
    BY DEF Inner, Whereabouts, InMethod, Typed
  <2> QED
    BY <1>0, <1>5, <2>1 DEF Waits, Listed
<1> QED
  BY <1>5, <1>6, <1>7, <1>8, <1>9, <1>10, <1>11 DEF Inner

\* One round of _finishInitializing: the class is marked, and the subclasses that
\* were merely waiting for it join the list.
LEMMA FinishOneInner ==
  ASSUME Inner, NEW t \in Threads, FinishOne(t), NEW c, c = Head(todo[t])
  PROVE  Inner' /\ halted' = halted
<1>0. /\ stack[t] # <<>> /\ Head(stack[t]).pc = "finishing" /\ todo[t] # <<>>
      /\ initialized' = initialized \cup {c} /\ initializing' = initializing \ {c}
      /\ metaclasses' = [metaclasses EXCEPT ![t] = @ \ {c}]
      /\ halted' = IF c \in metaclasses[t] THEN halted ELSE "not initializing"
      /\ todo' = [todo EXCEPT ![t] = pendingInitialize[c] \o Tail(todo[t])]
      /\ pendingInitialize' = [pendingInitialize EXCEPT ![c] = <<>>]
      /\ UNCHANGED <<classInitLock, stack, MultithreadedForkChild, alive, sent>>
  BY DEF FinishOne, At, Inner, Typed
<1>1. /\ todo[t] \in Seq(Classes) /\ NoRepeat(todo[t]) /\ classInitLock = t /\ t \in alive
  BY <1>0 DEF Inner, Typed, Listing
<1>2. /\ c \in Classes /\ Tail(todo[t]) \in Seq(Classes) /\ NoRepeat(Tail(todo[t]))
      /\ Elems(todo[t]) = {c} \cup Elems(Tail(todo[t])) /\ c \notin Elems(Tail(todo[t]))
  BY <1>0, <1>1, QueueTail
<1>3. c \in metaclasses[t] /\ c \in initializing /\ IsInitialized(superclass[c]) /\ Left(c)
  BY <1>2 DEF Inner, Listing, Flags
<1>4. /\ pendingInitialize[c] \in Seq(Classes) /\ NoRepeat(pendingInitialize[c])
      /\ \A d \in Elems(pendingInitialize[c]) :
           /\ superclass[d] = c /\ d \notin Elems(todo[t]) /\ d \in metaclasses[t] /\ Left(d)
  BY <1>2, <1>3 DEF Inner, Typed, Pending, Listed
<1>5. /\ todo' \in [Threads -> Seq(Classes)] /\ NoRepeat(todo'[t])
      /\ Elems(todo'[t]) = Elems(pendingInitialize[c]) \cup Elems(Tail(todo[t]))
      /\ \A u \in Threads : u # t => todo'[u] = todo[u] /\ todo[u] = <<>>
  <2>1. /\ pendingInitialize[c] \o Tail(todo[t]) \in Seq(Classes)
        /\ Elems(pendingInitialize[c] \o Tail(todo[t])) =
             Elems(pendingInitialize[c]) \cup Elems(Tail(todo[t]))
        /\ NoRepeat(pendingInitialize[c] \o Tail(todo[t]))
    BY <1>2, <1>4, QueueJoin
  <2>2. /\ todo'[t] = pendingInitialize[c] \o Tail(todo[t])
        /\ \A u \in Threads : u # t => todo'[u] = todo[u]
    BY <1>0 DEF Inner, Typed
  <2>3. todo' \in [Threads -> Seq(Classes)]
    BY <1>0, <2>1 DEF Inner, Typed
  <2>4. \A u \in Threads : u # t => todo[u] = <<>>
    BY <1>1 DEF Inner, Listing
  <2> QED
    BY <2>1, <2>2, <2>3, <2>4
<1>6. /\ metaclasses' \in [Threads -> SUBSET Classes] /\ metaclasses'[t] = metaclasses[t] \ {c}
      /\ \A u \in Threads : u # t => metaclasses'[u] = metaclasses[u] /\ c \notin metaclasses[u]
  <2>1. /\ metaclasses' \in [Threads -> SUBSET Classes]
        /\ metaclasses'[t] = metaclasses[t] \ {c}
        /\ \A u \in Threads : u # t => metaclasses'[u] = metaclasses[u]
    BY <1>0 DEF Inner, Typed
  <2>2. \A u \in Threads : u # t => c \notin metaclasses[u]
    BY <1>3 DEF Inner, Flags
  <2> QED
    BY <2>1, <2>2
<1>7. /\ pendingInitialize' \in [Classes -> Seq(Classes)] /\ pendingInitialize'[c] = <<>>
      /\ \A s \in Classes : s # c => pendingInitialize'[s] = pendingInitialize[s]
  <2>1. <<>> \in Seq(Classes)
    OBVIOUS
  <2> QED
    BY <1>0, <1>2, <2>1 DEF Inner, Typed
<1>8. Typed'
  BY <1>0, <1>2, <1>5, <1>6, <1>7 DEF Inner, Typed
<1>9. Flags'
  <2>1. initializing' \cap initialized' = {}
    BY <1>0 DEF Inner, Flags
  <2>2. \A u \in Threads : metaclasses'[u] \subseteq initializing'
    BY <1>0, <1>6 DEF Inner, Flags
  <2>3. \A u, v \in Threads : u # v => metaclasses'[u] \cap metaclasses'[v] = {}
    BY <1>6 DEF Inner, Flags
  <2>4. \A d \in Classes : /\ sent'[d] <= 1
                           /\ d \notin initializing' \cup initialized' => sent'[d] = 0
    BY <1>0 DEF Inner, Flags
  <2> QED
    BY <2>1, <2>2, <2>3, <2>4 DEF Flags
<1>10. Contiguous'
  BY <1>0, <1>3 DEF Inner, Contiguous, IsInitialized
<1>11. Forked'
  BY <1>0, <1>1, <1>6 DEF Inner, Forked
<1>12. \A d : (Left(d) => Left(d)') /\ \A u \in Threads : InMethod(u, d) => InMethod(u, d)'
  BY <1>0 DEF Left, InMethod
<1>13. Nested'
  <2>1. \A u \in Threads : Done(u) \subseteq Done(u)'
    <3> SUFFICES ASSUME NEW u \in Threads, NEW d \in Classes, SuperDone(u, d)
                 PROVE  SuperDone(u, d)'
      BY DEF Done
    <3> QED
      BY <1>0, <1>6 DEF SuperDone, IsInitialized
  <2>2. Rules(Done(t), stack[t]) /\ stack[t] \in Seq(Frame) /\ stack' = stack
    BY <1>0 DEF Inner, Nested, Typed
  <2>3. RulesFrom(t)
    BY <2>2, RulesGrow DEF RulesFrom
  <2> QED
    BY <2>1, <2>2, <2>3, NestedGrows
<1>14. Knowledge'
  <2> SUFFICES ASSUME NEW u \in Threads, NEW i \in DOMAIN stack[u]
               PROVE  FrameKnows(u, stack[u][i])'
    BY <1>0 DEF Knowledge
  <2>1. FrameKnows(u, stack[u][i]) /\ stack'[u][i] = stack[u][i]
    BY <1>0 DEF Inner, Knowledge
  <2>2. stack[u][i].cls \in Classes
    <3>1. stack[u] \in Seq(Frame)
      BY DEF Inner, Typed
    <3>2. stack[u][i] \in Frame
      BY <3>1
    <3> QED
      BY <3>2 DEF Frame
  <2>3. stack[u][i].pc = "begin" =>
          stack[u][i].cls # c /\ \A v \in Threads : stack[u][i].cls \notin metaclasses'[v]
    BY <1>3, <1>6, <2>1 DEF FrameKnows
  <2>4. stack[u][i].pc \in {"initialize", "finish"} => stack[u][i].cls # c
    BY <1>3 DEF Left, Owning
  <2>5. stack[u][i].pc = "finishing" =>
          u = t /\ stack[u][i].cls \in initialized' \cup Elems(todo'[t])
    BY <1>0, <1>1, <1>2, <1>5, <2>1 DEF FrameKnows
  <2>6. stack[u][i].pc = "forkChild" => stack[u][i].cls # c
    <3> SUFFICES ASSUME stack[u][i].pc = "forkChild" PROVE stack[u][i].cls # c
      OBVIOUS
    <3>1. MultithreadedForkChild /\ stack[u][i].cls \notin metaclasses[u]
      BY <2>1 DEF FrameKnows
    <3>2. stack[u] # <<>>
      BY DEF Inner, Typed
    <3>3. u = t
      BY <1>1, <3>1, <3>2 DEF Inner, Forked
    <3> QED
      BY <1>3, <3>1, <3>3
  <2>7. stack[u][i].pc \in {"initialize", "finish"} => stack[u][i].cls \in metaclasses'[u]
    BY <1>6, <2>1, <2>4 DEF FrameKnows
  <2>8. stack[u][i].pc = "forkChild" => stack[u][i].cls \notin metaclasses'[u]
    BY <1>6, <2>1, <2>6 DEF FrameKnows
  <2> QED
    BY <1>0, <1>1, <1>7, <2>1, <2>2, <2>3, <2>5, <2>6, <2>7, <2>8 DEF FrameKnows
<1>15. Pending'
  <2> SUFFICES ASSUME NEW s \in Classes
               PROVE  /\ NoRepeat(pendingInitialize'[s])
                      /\ \A d \in Elems(pendingInitialize'[s]) :
                           /\ superclass[d] = s /\ d \in initializing' /\ s \in initializing'
                           /\ Left(d)' /\ \A u \in Threads : ~Listed(d, u)'
                           /\ \A u \in Threads : s \in metaclasses'[u] => d \in metaclasses'[u]
                      /\ s \in Trivial /\ pendingInitialize'[s] # <<>> =>
                           Waits(s)' \/ \E u \in Threads : Listed(s, u)'
    BY DEF Pending
  <2>1. CASE s = c
    BY <1>7, <2>1, QueueOps
  <2>2. CASE s # c
    <3>0. pendingInitialize'[s] = pendingInitialize[s] /\ NoRepeat(pendingInitialize[s])
      BY <1>7, <2>2 DEF Inner, Pending
    <3>1. ASSUME NEW d \in Elems(pendingInitialize[s])
          PROVE  /\ superclass[d] = s /\ d \in initializing' /\ s \in initializing'
                 /\ Left(d)' /\ \A u \in Threads : ~Listed(d, u)'
                 /\ \A u \in Threads : s \in metaclasses'[u] => d \in metaclasses'[u]
      <4>1. /\ superclass[d] = s /\ d \in initializing /\ s \in initializing
            /\ Left(d) /\ \A u \in Threads : ~Listed(d, u)
            /\ \A u \in Threads : s \in metaclasses[u] => d \in metaclasses[u]
        BY <3>1 DEF Inner, Pending
      <4>2. d # c
        BY <1>2, <4>1 DEF Listed
      <4>3. \A u \in Threads : ~Listed(d, u)'
        BY <1>2, <1>4, <1>5, <2>2, <4>1 DEF Listed
      <4>4. \A u \in Threads : s \in metaclasses'[u] => d \in metaclasses'[u]
        BY <1>6, <4>1, <4>2
      <4> QED
        BY <1>0, <1>12, <2>2, <4>1, <4>2, <4>3, <4>4
    <3>2. ASSUME s \in Trivial, pendingInitialize[s] # <<>>
          PROVE  Waits(s)' \/ \E u \in Threads : Listed(s, u)'
      <4>1. Waits(s) \/ \E u \in Threads : Listed(s, u)
        BY <3>2 DEF Inner, Pending
      <4>2. CASE \E u \in Threads : Listed(s, u)
        <5>1. Listed(s, t)
          BY <1>1, <1>5, <4>2, QueueOps DEF Listed
        <5> QED
          BY <1>2, <1>5, <2>2, <5>1 DEF Listed
      <4>3. CASE Waits(s) /\ superclass[s] = c
        BY <1>5, <4>3 DEF Waits, Listed
      <4>4. CASE Waits(s) /\ superclass[s] # c
        BY <1>7, <4>4 DEF Waits
      <4> QED
        BY <4>1, <4>2, <4>3, <4>4
    <3> QED
      BY <3>0, <3>1, <3>2
  <2> QED
    BY <2>1, <2>2
<1>16. Listing'
  <2> SUFFICES ASSUME NEW u \in Threads
               PROVE  /\ NoRepeat(todo'[u])
                      /\ \A d \in Elems(todo'[u]) :
                          d \in metaclasses'[u] /\ IsInitialized(superclass[d])' /\ Left(d)'
                      /\ todo'[u] # <<>> => classInitLock' = u
                      /\ classInitLock' = u =>
                           /\ u \in alive'
                           /\ stack'[u] # <<>> /\ stack'[u][1].pc = "finishing"
    BY DEF Listing
  <2>0. classInitLock' = u =>
          u \in alive' /\ stack'[u] # <<>> /\ stack'[u][1].pc = "finishing"
    BY <1>0 DEF Inner, Listing
  <2>1. CASE u = t
    <3>1. ASSUME NEW d \in Elems(pendingInitialize[c])
          PROVE  d \in metaclasses'[t] /\ IsInitialized(superclass[d])' /\ Left(d)'
      BY <1>0, <1>2, <1>4, <1>6, <1>12, <3>1 DEF IsInitialized
    <3>2. ASSUME NEW d \in Elems(Tail(todo[t]))
          PROVE  d \in metaclasses'[t] /\ IsInitialized(superclass[d])' /\ Left(d)'
      <4>1. d \in metaclasses[t] /\ IsInitialized(superclass[d]) /\ Left(d) /\ d # c
        BY <1>2, <3>2 DEF Inner, Listing
      <4> QED
        BY <1>0, <1>6, <1>12, <4>1 DEF IsInitialized
    <3> QED
      BY <1>0, <1>1, <1>5, <2>0, <2>1, <3>1, <3>2
  <2>2. CASE u # t
    BY <1>0, <1>1, <1>5, <2>2, QueueOps
  <2> QED
    BY <2>1, <2>2
<1>17. Whereabouts'
  <2> SUFFICES ASSUME NEW u \in Threads, NEW d \in metaclasses'[u]
               PROVE  InMethod(u, d)' \/ Waits(d)' \/ Listed(d, u)'
    BY DEF Whereabouts, InMethod
  <2>1. d \in metaclasses[u] /\ d # c /\ d \in Classes
    BY <1>6
  <2>2. InMethod(u, d) \/ Waits(d) \/ Listed(d, u)
    BY <2>1 DEF Inner, Whereabouts, InMethod
  <2>3. CASE InMethod(u, d)
    BY <1>12, <2>3
  <2>4. CASE Listed(d, u)
    BY <1>2, <1>5, <2>1, <2>4, QueueOps DEF Listed
  <2>5. CASE Waits(d) /\ superclass[d] # c
    BY <1>7, <2>5 DEF Waits
  <2>6. CASE Waits(d) /\ superclass[d] = c
    <3>1. d \in Elems(pendingInitialize[c])
      BY <2>6 DEF Waits
    <3>2. u = t
      BY <1>4, <2>1, <3>1 DEF Inner, Flags
    <3> QED
      BY <1>5, <3>1, <3>2 DEF Listed
  <2> QED
    BY <2>2, <2>3, <2>4, <2>5, <2>6
<1>18. OneOwner' /\ halted' = halted
  BY <1>0, <1>3 DEF Inner, OneOwner
<1> QED
  BY <1>8, <1>9, <1>10, <1>11, <1>13, <1>14, <1>15, <1>16, <1>17, <1>18 DEF Inner

\* fork(): the other threads are gone, their marks are not.
LEMMA ForkInner ==
  ASSUME Inner, NEW t \in Threads, Fork(t)
  PROVE  Inner'
<1>0. /\ classInitLock = NoThread /\ MultithreadedForkChild' = TRUE /\ alive' = {t}
      /\ stack' = [u \in Threads |-> IF u = t THEN stack[t] ELSE <<>>]
      /\ metaclasses' = [u \in Threads |-> IF u = t THEN metaclasses[t] ELSE {}]
      /\ UNCHANGED <<initializing, initialized, classInitLock, pendingInitialize, todo, sent>>
  BY DEF Fork
<1>1. /\ stack' \in [Threads -> Seq(Frame)] /\ stack'[t] = stack[t]
      /\ metaclasses' \in [Threads -> SUBSET Classes] /\ metaclasses'[t] = metaclasses[t]
      /\ \A u \in Threads : u # t => stack'[u] = <<>> /\ metaclasses'[u] = {}
  BY <1>0 DEF Inner, Typed
<1>2. /\ \A u \in Threads : classInitLock # u /\ todo[u] = <<>>
      /\ \A u \in Threads : \A d : ~Listed(d, u)
  BY <1>0, LockFree
<1>3. \A u \in Threads : \A i \in DOMAIN stack'[u] :
        u = t /\ i \in DOMAIN stack[u] /\ stack'[u][i] = stack[u][i]
  <2>1. DOMAIN <<>> = {}
    OBVIOUS
  <2> QED
    BY <1>1, <2>1
<1>4. OneOwner' /\ \A d : Left(d) => Left(d)'
  BY <1>3 DEF Inner, OneOwner, Left
<1>5. Typed' /\ Flags' /\ Contiguous' /\ Forked'
  <2>1. Typed'
    BY <1>0, <1>1 DEF Inner, Typed
  <2>2. Flags' /\ Contiguous'
    BY <1>0, <1>1 DEF Inner, Flags, Contiguous, IsInitialized
  <2>3. Forked'
    BY <1>0, <1>1 DEF Forked
  <2> QED
    BY <2>1, <2>2, <2>3
<1>6. Nested'
  <2> SUFFICES ASSUME NEW u \in Threads PROVE Rules(Done(u)', stack'[u])
    BY DEF Nested
  <2>1. CASE u = t
    <3>1. Done(t)' = Done(t)
      BY <1>0, <1>1 DEF Done, SuperDone, IsInitialized
    <3> QED
      BY <1>1, <2>1, <3>1 DEF Inner, Nested
  <2>2. CASE u # t
    BY <1>1, <2>2 DEF Rules, Below
  <2> QED
    BY <2>1, <2>2
<1>7. Knowledge'
  <2> SUFFICES ASSUME NEW u \in Threads, NEW i \in DOMAIN stack'[u]
               PROVE  FrameKnows(u, stack[u][i])'
    BY DEF Knowledge
  <2>1. FrameKnows(u, stack[u][i]) /\ stack'[u][i] = stack[u][i] /\ u = t
    BY <1>3 DEF Inner, Knowledge
  <2> QED
    BY <1>0, <1>1, <2>1 DEF FrameKnows
<1>8. Pending'
  <2>1. \A u \in Threads : metaclasses'[u] \in {{}, metaclasses[u]}
    BY <1>1
  <2> QED
    BY <1>0, <1>4, <2>1 DEF Inner, Pending, Waits, Listed
<1>9. Listing'
  <2>1. \A u \in Threads : Elems(todo'[u]) = {} /\ NoRepeat(todo'[u])
    BY <1>0, <1>2, QueueOps
  <2> QED
    BY <1>0, <1>2, <2>1 DEF Listing
<1>10. Whereabouts'
  <2> SUFFICES ASSUME NEW u \in Threads, NEW d \in metaclasses'[u]
               PROVE  InMethod(u, d)' \/ Waits(d)' \/ Listed(d, u)'
    BY DEF Whereabouts, InMethod
  <2>1. u = t /\ d \in metaclasses[t]
    BY <1>1
  <2>2. InMethod(t, d) \/ Waits(d)
    BY <1>2, <2>1 DEF Inner, Whereabouts, InMethod
  <2> QED
    BY <1>0, <1>1, <2>1, <2>2 DEF InMethod, Waits
<1> QED
  BY <1>4, <1>5, <1>6, <1>7, <1>8, <1>9, <1>10 DEF Inner
-----------------------------------------------------------------------------
(* The specification. *)

LEMMA InitInner == Init => Inner
<1> SUFFICES ASSUME Init PROVE Inner
  OBVIOUS
<1>1. /\ <<>> \in Seq(Frame) /\ <<>> \in Seq(Classes) /\ DOMAIN <<>> = {}
      /\ \A t \in Threads : stack[t] = <<>> /\ todo[t] = <<>> /\ metaclasses[t] = {}
      /\ \A c \in Classes : pendingInitialize[c] = <<>>
  BY DEF Init
<1>2. Typed
  BY <1>1 DEF Init, Typed
<1>3. Forked /\ Flags /\ Contiguous
  BY <1>1 DEF Init, Forked, Flags, Contiguous
<1>4. Nested /\ Knowledge /\ OneOwner /\ Whereabouts
  BY <1>1 DEF Nested, Rules, Below, Knowledge, OneOwner, Whereabouts
<1>5. Pending /\ Listing
  BY <1>1, QueueOps, ClassInitializeAssumption DEF Init, Pending, Listing
<1> QED
  BY <1>2, <1>3, <1>4, <1>5 DEF Inner

\* What the invariant says about the hierarchy.
LEMMA InnerGives ==
  ASSUME Inner
  PROVE  HierarchyOrder /\ OneInitializer
<1>1. ASSUME NEW t \in alive, NEW f \in Frames(t), f.pc = "initialize"
      PROVE  IsInitialized(superclass[f.cls]) \/ superclass[f.cls] \in metaclasses[t]
  <2>1. PICK i \in DOMAIN stack[t] : f = stack[t][i]
    BY <1>1 DEF Frames
  <2>2. t \in Threads /\ stack[t] \in Seq(Frame) /\ Rules(Done(t), stack[t])
    BY DEF Inner, Typed, Nested
  <2>3. i = 1 \/ i > 1
    BY <2>1, <2>2
  <2>4. stack[t] # <<>>
    BY <2>1, <2>2
  <2>5. f.cls \in Done(t)
    BY <1>1, <2>1, <2>2, <2>3, <2>4 DEF Rules, Below
  <2> QED
    BY <2>5 DEF Done, SuperDone
<1>2. OneInitializer
  BY DEF Inner, Flags, OneInitializer, Typed
<1> QED
  BY <1>1, <1>2 DEF HierarchyOrder, SuperclassFirst, Inner

\* The one fatal error, "in progress in another thread when fork() was called":
\* it leaves the order of initialization as it was.
LEMMA FatalKeepsOrder ==
  ASSUME Inner, NEW t \in Threads, halted = "no", PerformForkChildInitialize(t),
         Cls(t) \notin Trivial
  PROVE  HierarchyOrder' /\ OneInitializer'
<1> DEFINE f == [cls |-> Cls(t), pc |-> "finish"]
<1>0. HierarchyOrder /\ OneInitializer
  BY InnerGives
<1>1. /\ stack[t] # <<>>
      /\ UNCHANGED <<metaclasses, initializing, initialized, alive, sent>>
      /\ stack' = [stack EXCEPT ![t] = <<f>> \o Tail(stack[t])]
  BY DEF PerformForkChildInitialize, At, Goto, WithPC
<1>2. stack[t] \in Seq(Frame) /\ Cls(t) \in Classes
  BY <1>1, TopKnows
<1>3. f \in Frame /\ f.pc = "finish"
  BY <1>2 DEF Frame, PCs
<1> HIDE DEF f
<1>4. /\ Len(stack'[t]) = Len(stack[t]) /\ stack'[t] \in Seq(Frame) /\ stack'[t][1] = f
      /\ \A i \in 2 .. Len(stack[t]) : stack'[t][i] = stack[t][i]
      /\ \A u \in Threads : u # t => stack'[u] = stack[u]
  <2>1. /\ stack'[t] = <<f>> \o Tail(stack[t])
        /\ \A u \in Threads : u # t => stack'[u] = stack[u]
    BY <1>1 DEF Inner, Typed
  <2> QED
    BY <1>1, <1>2, <1>3, <2>1, StackOps
<1>5. ASSUME NEW u \in alive, NEW g \in Frames(u)', g.pc = "initialize"
      PROVE  g \in Frames(u)
  <2>0. u \in Threads
    BY DEF Inner, Typed
  <2>1. PICK i \in DOMAIN stack'[u] : g = stack'[u][i]
    BY <1>5 DEF Frames
  <2>2. CASE u # t
    BY <1>4, <2>0, <2>1, <2>2 DEF Frames
  <2>3. CASE u = t
    <3>1. i \in 2 .. Len(stack[t]) /\ i \in DOMAIN stack[t]
      BY <1>2, <1>3, <1>4, <1>5, <2>1, <2>3
    <3> QED
      BY <1>4, <2>1, <2>3, <3>1 DEF Frames
  <2> QED
    BY <2>2, <2>3
<1>6. SuperclassFirst'
  <2> SUFFICES ASSUME NEW u \in alive, NEW g \in Frames(u)', g.pc = "initialize"
               PROVE  IsInitialized(superclass[g.cls]) \/ superclass[g.cls] \in metaclasses[u]
    BY <1>1 DEF SuperclassFirst, IsInitialized
  <2> QED
    BY <1>0, <1>5 DEF HierarchyOrder, SuperclassFirst
<1> QED
  BY <1>0, <1>1, <1>6 DEF HierarchyOrder, Contiguous, IsInitialized, OneInitializer

\* Every step of the running process.
LEMMA StepInner ==
  ASSUME Inner, halted = "no", Next
  PROVE  \/ Inner' /\ halted' = "no"
         \/ halted' = "initialize after fork" /\ HierarchyOrder' /\ OneInitializer'
<1>1. PICK t \in Threads : (\E c \in Classes : Message(t, c)) \/ Step(t) \/ Fork(t)
  BY DEF Next
<1>2. CASE \E c \in Classes : Message(t, c)
  BY <1>2, MessageInner DEF Message
<1>3. CASE Fork(t)
  BY <1>3, ForkInner DEF Fork
<1>4. CASE InitializeSuper(t)
  BY <1>4, SuperInner DEF InitializeSuper
<1>5. CASE TrySetInitializing(t)
  BY <1>5, TrySetInner DEF TrySetInitializing
<1>6. CASE CallInitialize(t)
  BY <1>6, CallInner
<1>7. CASE PerformForkChildInitialize(t)
  BY <1>7, ForkChildInner, FatalKeepsOrder
<1>8. CASE InitializeReturns(t)
  BY <1>8, CheckInner DEF InitializeReturns
<1>9. CASE FinishInitializingNow(t)
  BY <1>9, FinishNowInner DEF FinishInitializingNow
<1>10. CASE FinishInitializingAfter(t)
  BY <1>10, FinishAfterInner DEF FinishInitializingAfter
<1>11. CASE FinishOne(t)
  BY <1>11, FinishOneInner
<1>12. CASE FinishDone(t)
  BY <1>12, FinishDoneInner DEF FinishDone
<1>13. CASE CheckInitializing(t)
  BY <1>13, CheckInner DEF CheckInitializing
<1>14. CASE CheckInitialized(t)
  <2>1. stack[t] # <<>> /\ Head(stack[t]).pc = "checkAgain"
    BY <1>14 DEF CheckInitialized, At
  <2>2. Cls(t) \in initialized
    BY <2>1, TopKnows DEF FrameKnows, Cls
  <2>3. halted' = "no"
    BY <1>14, <2>2 DEF CheckInitialized
  <2> QED
    BY <1>14, <2>3, CheckInner
<1>15. CASE WaitForInitializeToComplete(t)
  BY <1>15, CheckInner DEF WaitForInitializeToComplete
<1> QED
  BY <1>1, <1>2, <1>3, <1>4, <1>5, <1>6, <1>7, <1>8, <1>9, <1>10, <1>11, <1>12, <1>13,
     <1>14, <1>15 DEF Step

\* A process that died takes no step.
LEMMA OnlyTheLiving ==
  ASSUME Next PROVE halted = "no"
  BY DEF Next, Step, Message, InClientCode, At, InitializeSuper, TrySetInitializing,
         CallInitialize, PerformForkChildInitialize, InitializeReturns,
         FinishInitializingNow, FinishInitializingAfter, FinishOne, FinishDone,
         CheckInitializing, CheckInitialized, WaitForInitializeToComplete, Fork

LEMMA IInvCorrect == Spec => []IInv
<1>1. Init => IInv
  <2>1. Init => halted = "no"
    BY DEF Init
  <2> QED
    BY <2>1, InitInner, InnerGives DEF IInv, NoFatal
<1>2. IInv /\ [Next]_vars => IInv'
  <2> SUFFICES ASSUME IInv, [Next]_vars PROVE IInv'
    OBVIOUS
  <2>1. CASE Next
    <3>1. halted = "no" /\ Inner
      BY <2>1, OnlyTheLiving DEF IInv
    <3>2. CASE Inner' /\ halted' = "no"
      <4>1. HierarchyOrder' /\ OneInitializer'
        BY <3>2, InnerGives, PTL
      <4> QED
        BY <3>2, <4>1 DEF IInv, NoFatal
    <3>3. CASE halted' = "initialize after fork" /\ HierarchyOrder' /\ OneInitializer'
      BY <3>3 DEF IInv, NoFatal
    <3> QED
      BY <2>1, <3>1, <3>2, <3>3, StepInner
  <2>2. CASE UNCHANGED vars
    <3>0. /\ \A c : Left(c)' = Left(c) /\ Waits(c)' = Waits(c)
          /\ \A t \in Threads : Done(t)' = Done(t)
          /\ \A t \in Threads : \A i \in DOMAIN stack[t] :
               FrameKnows(t, stack[t][i]) => FrameKnows(t, stack[t][i])'
      BY <2>2 DEF vars, Left, Waits, Done, SuperDone, IsInitialized, FrameKnows
    <3>1. (Nested => Nested') /\ (Knowledge => Knowledge')
      BY <2>2, <3>0 DEF vars, Nested, Knowledge
    <3>2. /\ Typed => Typed'
          /\ Forked => Forked'
          /\ OneOwner => OneOwner'
          /\ Flags => Flags'
          /\ Contiguous => Contiguous'
      BY <2>2 DEF vars, Typed, Forked, OneOwner, Flags, Contiguous, IsInitialized
    <3>3. /\ Pending => Pending'
          /\ Listing => Listing'
          /\ Whereabouts => Whereabouts'
      BY <2>2, <3>0 DEF vars, Pending, Listing, Whereabouts, Listed, IsInitialized
    <3>4. /\ HierarchyOrder => HierarchyOrder'
          /\ OneInitializer => OneInitializer'
          /\ halted' = halted
      BY <2>2, <3>2 DEF vars, HierarchyOrder, SuperclassFirst, IsInitialized, Frames,
         OneInitializer
    <3> QED
      BY <3>1, <3>2, <3>3, <3>4 DEF IInv, NoFatal, Inner
  <2> QED
    BY <2>1, <2>2
<1> QED
  BY <1>1, <1>2, PTL DEF Spec

\* +initialize goes down the hierarchy: the part that is initialized, and the part
\* that is initialized or being initialized, are closed under superclasses; a
\* +initialize method only runs when the superclass is initialized or is being
\* initialized by the same thread.
THEOREM SuperclassesFirst == Spec => []HierarchyOrder
  BY IInvCorrect, PTL DEF IInv

\* classInitLock elects one initializing thread per class, and no class is sent
\* +initialize twice, a fork() in between included.
THEOREM OneThreadInitializes == Spec => []OneInitializer
  BY IInvCorrect, PTL DEF IInv

\* None of the _objc_fatal calls of objc-initialize.mm is reached, except the
\* deliberate one for a +initialize that was in progress at fork().
THEOREM NoFatalError == Spec => []NoFatal
  BY IInvCorrect, PTL DEF IInv
=============================================================================
