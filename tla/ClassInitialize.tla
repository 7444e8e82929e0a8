-------------------------- MODULE ClassInitialize --------------------------
(***************************************************************************)
(* Thread-safe +initialize (objc-initialize.mm): the first message to a    *)
(* class makes the sending thread run _class_initialize, which initializes *)
(* the superclass first, elects one initializing thread per class under    *)
(* classInitLock, sends +initialize with no lock held, and marks the class *)
(* initialized once its superclass is.  A +initialize method is client     *)
(* code: it may message other classes, and so nest any number of calls.    *)
(* After fork() only the forking thread exists in the child.               *)
(*                                                                         *)
(* Reads of the flags outside classInitLock are steps of their own.        *)
(***************************************************************************)
EXTENDS Integers, Sequences, FiniteSets

CONSTANTS
  Threads, Classes,
  superclass,   \* superclass[c], or Nil for a root class
  Messages,     \* Messages[c]: the classes +[c initialize] may message
  Trivial,      \* classes whose +initialize does nothing
  MayFork,      \* may a thread call fork()?
  Nil, NoThread,
  MaxMessages   \* bound on the messages sent to uninitialized classes

ASSUME ClassInitializeAssumption ==
  /\ Nil \notin Classes
  /\ NoThread \notin Threads
  /\ superclass \in [Classes -> Classes \cup {Nil}]
  /\ Messages \in [Classes -> SUBSET Classes]
  /\ Trivial \subseteq Classes
  /\ \A c \in Trivial : Messages[c] = {}
  /\ \A c \in Classes : superclass[c] = Nil => c \in Trivial
  /\ MayFork \in BOOLEAN
  /\ MaxMessages \in Nat

VARIABLES
  initializing, initialized,  \* the classes with RW_INITIALIZING, RW_INITIALIZED
  classInitLock,              \* owner of the monitor's mutex
  waiting,                    \* threads asleep in classInitLock.wait()
  metaclasses,                \* per thread: the classes it is initializing
  pendingInitialize,          \* per class: subclasses to mark after it
  stack,                      \* per thread: its _class_initialize calls, top first
  todo,                       \* per thread: what _finishInitializing has to mark
  MultithreadedForkChild,
  alive,                      \* the threads of this process
  sent,                       \* how often +initialize was sent to each class
  halted,                     \* how the process died, or "no"
  messages                    \* messages sent so far

vars == <<initializing, initialized, classInitLock, waiting, metaclasses,
          pendingInitialize, stack, todo, MultithreadedForkChild, alive, sent,
          halted, messages>>

flags == <<initializing, initialized>>
monitor == <<classInitLock, waiting>>
process == <<MultithreadedForkChild, alive, messages>>

PCs == {"super", "try", "begin", "initialize", "finish", "finishing",
        "check", "checkAgain", "wait", "forkChild"}
Frame == [cls : Classes, pc : PCs]

Init ==
  /\ initializing = {} /\ initialized = {}
  /\ classInitLock = NoThread
  /\ waiting = {}
  /\ metaclasses = [t \in Threads |-> {}]
  /\ pendingInitialize = [c \in Classes |-> <<>>]
  /\ stack = [t \in Threads |-> <<>>]
  /\ todo = [t \in Threads |-> <<>>]
  /\ MultithreadedForkChild = FALSE
  /\ alive = Threads
  /\ sent = [c \in Classes |-> 0]
  /\ halted = "no"
  /\ messages = 0
-----------------------------------------------------------------------------
(* The call stack. *)

At(t, p) == halted = "no" /\ stack[t] # <<>> /\ Head(stack[t]).pc = p
Cls(t) == Head(stack[t]).cls
Super(t) == superclass[Cls(t)]

WithPC(t, p) == <<[cls |-> Cls(t), pc |-> p]>> \o Tail(stack[t])
Goto(t, p) == stack' = [stack EXCEPT ![t] = WithPC(t, p)]
Return(t) == stack' = [stack EXCEPT ![t] = Tail(@)]

\* Where client code runs: outside any call, or inside a +initialize method.
InClientCode(t) == \/ halted = "no" /\ t \in alive /\ stack[t] = <<>>
                   \/ At(t, "initialize")

IsInitialized(c) == c = Nil \/ c \in initialized
-----------------------------------------------------------------------------
\* lookUpImpOrForward: a message to an uninitialized class.
Message(t, c) ==
  /\ InClientCode(t)
  /\ At(t, "initialize") => c \in Messages[Cls(t)]
  /\ c \notin initialized
  /\ messages < MaxMessages
  /\ messages' = messages + 1
  /\ stack' = [stack EXCEPT ![t] = <<[cls |-> c, pc |-> "super"]>> \o @]
  /\ UNCHANGED <<flags, monitor, metaclasses, pendingInitialize, todo,
                 MultithreadedForkChild, alive, sent, halted>>

\* Mutant of InitializeSuper: does not initialize the superclass first.
InitializeSuper_Skips(t) ==
  /\ At(t, "super")
  /\ Goto(t, "try")
  /\ UNCHANGED <<flags, monitor, metaclasses, pendingInitialize, todo, process,
                 sent, halted>>

\* "Make sure super is done initializing BEFORE beginning to initialize cls."
InitializeSuper(t) ==
  /\ At(t, "super")
  /\ stack' = [stack EXCEPT ![t] =
       IF IsInitialized(Super(t)) THEN WithPC(t, "try")
       ELSE <<[cls |-> Super(t), pc |-> "super"]>> \o WithPC(t, "try")]
  /\ UNCHANGED <<flags, monitor, metaclasses, pendingInitialize, todo, process,
                 sent, halted>>

\* Mutant of TrySetInitializing: the test is not atomic with the set.
TrySetInitializing_NoTest(t) ==
  /\ At(t, "try")
  /\ classInitLock = NoThread
  /\ IF Cls(t) \notin initialized
     THEN initializing' = initializing \cup {Cls(t)} /\ Goto(t, "begin")
     ELSE UNCHANGED initializing /\ Goto(t, "check")
  /\ UNCHANGED <<initialized, monitor, metaclasses, pendingInitialize, todo,
                 process, sent, halted>>

\* "Try to atomically set CLS_INITIALIZING."
TrySetInitializing(t) ==
  /\ At(t, "try")
  /\ classInitLock = NoThread
  /\ IF Cls(t) \notin initialized \cup initializing
     THEN initializing' = initializing \cup {Cls(t)} /\ Goto(t, "begin")
     ELSE UNCHANGED initializing /\ Goto(t, "check")
  /\ UNCHANGED <<initialized, monitor, metaclasses, pendingInitialize, todo,
                 process, sent, halted>>

\* _setThisThreadIsInitializingClass, fatal for a duplicate.
SetThisThreadIsInitializingClass(t) ==
  /\ metaclasses' = [metaclasses EXCEPT ![t] = @ \cup {Cls(t)}]
  /\ halted' = IF Cls(t) \in metaclasses[t] THEN "already initializing" ELSE halted

\* Send +initialize.
CallInitialize(t) ==
  /\ At(t, "begin")
  /\ ~MultithreadedForkChild
  /\ SetThisThreadIsInitializingClass(t)
  /\ sent' = [sent EXCEPT ![Cls(t)] = @ + 1]
  /\ Goto(t, "initialize")
  /\ UNCHANGED <<flags, monitor, pendingInitialize, todo, process>>

\* Mutant of PerformForkChildInitialize: this thread is not recorded as the
\* initializer of a class that another thread was initializing.
PerformForkChildInitialize_NotRecorded(t) ==
  /\ At(t, "begin") \/ At(t, "forkChild")
  /\ MultithreadedForkChild
  /\ IF Cls(t) \in Trivial
     THEN IF At(t, "begin") THEN SetThisThreadIsInitializingClass(t)
                            ELSE UNCHANGED <<metaclasses, halted>>
     ELSE halted' = "initialize after fork" /\ UNCHANGED metaclasses
  /\ Goto(t, "finish")
  /\ UNCHANGED <<flags, monitor, pendingInitialize, todo, process, sent>>

\* performForkChildInitialize, for a class this thread has just marked or for
\* one that was initializing when the parent forked.
PerformForkChildInitialize(t) ==
  /\ At(t, "begin") \/ At(t, "forkChild")
  /\ MultithreadedForkChild
  /\ IF Cls(t) \in Trivial
     THEN SetThisThreadIsInitializingClass(t)
     ELSE halted' = "initialize after fork" /\ UNCHANGED metaclasses
  /\ Goto(t, "finish")
  /\ UNCHANGED <<flags, monitor, pendingInitialize, todo, process, sent>>

\* The +initialize method returned or threw.
InitializeReturns(t) ==
  /\ At(t, "initialize")
  /\ Goto(t, "finish")
  /\ UNCHANGED <<flags, monitor, metaclasses, pendingInitialize, todo, process,
                 sent, halted>>
-----------------------------------------------------------------------------
(* lockAndFinishInitializing *)

\* The superclass is initialized: _finishInitializing, under the lock.
FinishInitializingNow(t) ==
  /\ At(t, "finish")
  /\ classInitLock = NoThread
  /\ IsInitialized(Super(t))
  /\ classInitLock' = t
  /\ todo' = [todo EXCEPT ![t] = <<Cls(t)>>]
  /\ Goto(t, "finishing")
  /\ UNCHANGED <<flags, waiting, metaclasses, pendingInitialize, process, sent,
                 halted>>

\* _finishInitializingAfter: queue cls behind its superclass.
FinishInitializingAfter(t) ==
  /\ At(t, "finish")
  /\ classInitLock = NoThread
  /\ ~IsInitialized(Super(t))
  /\ pendingInitialize' = [pendingInitialize EXCEPT ![Super(t)] = <<Cls(t)>> \o @]
  /\ Return(t)
  /\ UNCHANGED <<flags, monitor, metaclasses, todo, process, sent, halted>>

\* Mutant of FinishOne: the subclasses that were merely waiting are forgotten.
FinishOne_ForgetsPending(t) ==
  LET c == Head(todo[t]) IN
  /\ At(t, "finishing")
  /\ todo[t] # <<>>
  /\ initialized' = initialized \cup {c}
  /\ initializing' = initializing \ {c}
  /\ waiting' = {}
  /\ metaclasses' = [metaclasses EXCEPT ![t] = @ \ {c}]
  /\ halted' = IF c \in metaclasses[t] THEN halted ELSE "not initializing"
  /\ todo' = [todo EXCEPT ![t] = Tail(@)]
  /\ UNCHANGED <<classInitLock, pendingInitialize, stack, process, sent>>

\* One round of _finishInitializing: setInitialized, notifyAll,
\* _setThisThreadIsNotInitializingClass, then the subclasses that were merely
\* waiting for this class.
FinishOne(t) ==
  LET c == Head(todo[t]) IN
  /\ At(t, "finishing")
  /\ todo[t] # <<>>
  /\ initialized' = initialized \cup {c}
  /\ initializing' = initializing \ {c}
  /\ waiting' = {}
  /\ metaclasses' = [metaclasses EXCEPT ![t] = @ \ {c}]
  /\ halted' = IF c \in metaclasses[t] THEN halted ELSE "not initializing"
  /\ todo' = [todo EXCEPT ![t] = pendingInitialize[c] \o Tail(@)]
  /\ pendingInitialize' = [pendingInitialize EXCEPT ![c] = <<>>]
  /\ UNCHANGED <<classInitLock, stack, process, sent>>

FinishDone(t) ==
  /\ At(t, "finishing")
  /\ todo[t] = <<>>
  /\ classInitLock' = NoThread
  /\ Return(t)
  /\ UNCHANGED <<flags, waiting, metaclasses, pendingInitialize, todo, process,
                 sent, halted>>
-----------------------------------------------------------------------------
(* Somebody else set RW_INITIALIZING or RW_INITIALIZED. *)

CheckInitializing(t) ==
  /\ At(t, "check")
  /\ IF Cls(t) \notin initializing THEN Goto(t, "checkAgain")
     ELSE IF Cls(t) \in metaclasses[t] THEN Return(t)
     ELSE Goto(t, IF MultithreadedForkChild THEN "forkChild" ELSE "wait")
  /\ UNCHANGED <<flags, monitor, metaclasses, pendingInitialize, todo, process,
                 sent, halted>>

\* "NOTE this check must come AFTER the ISINITIALIZING case."
CheckInitialized(t) ==
  /\ At(t, "checkAgain")
  /\ IF Cls(t) \in initialized THEN Return(t) /\ UNCHANGED halted
     ELSE halted' = "class init is buggy" /\ UNCHANGED stack
  /\ UNCHANGED <<flags, monitor, metaclasses, pendingInitialize, todo, process,
                 sent>>

\* waitForInitializeToComplete: test the flag under the lock, or sleep.
WaitForInitializeToComplete(t) ==
  /\ At(t, "wait")
  /\ t \notin waiting
  /\ classInitLock = NoThread
  /\ IF Cls(t) \in initialized THEN Return(t) /\ UNCHANGED waiting
     ELSE waiting' = waiting \cup {t} /\ UNCHANGED stack
  /\ UNCHANGED <<flags, classInitLock, metaclasses, pendingInitialize, todo,
                 process, sent, halted>>
-----------------------------------------------------------------------------
\* fork() by t, seen from the child: _objc_atfork_prepare held every lock, the
\* other threads are gone, their marks on classes are not.
Fork(t) ==
  /\ MayFork
  /\ ~MultithreadedForkChild
  /\ alive # {t}
  /\ InClientCode(t)
  /\ classInitLock = NoThread
  /\ MultithreadedForkChild' = TRUE
  /\ alive' = {t}
  /\ waiting' = {}
  /\ stack' = [u \in Threads |-> IF u = t THEN stack[t] ELSE <<>>]
  /\ metaclasses' = [u \in Threads |-> IF u = t THEN metaclasses[t] ELSE {}]
  /\ UNCHANGED <<flags, classInitLock, pendingInitialize, todo, sent, halted,
                 messages>>

Step(t) == \/ InitializeSuper(t) \/ TrySetInitializing(t) \/ CallInitialize(t)
           \/ PerformForkChildInitialize(t) \/ InitializeReturns(t)
           \/ FinishInitializingNow(t) \/ FinishInitializingAfter(t)
           \/ FinishOne(t) \/ FinishDone(t)
           \/ CheckInitializing(t) \/ CheckInitialized(t)
           \/ WaitForInitializeToComplete(t)

Next == \E t \in Threads : \/ \E c \in Classes : Message(t, c)
                           \/ Step(t)
                           \/ Fork(t)

Spec == Init /\ [][Next]_vars

\* Threads are scheduled, and +initialize methods return.
Fairness == \A t \in Threads : WF_vars(Step(t))
FairSpec == Spec /\ Fairness
-----------------------------------------------------------------------------
(* Properties *)

TypeOK ==
  /\ initializing \subseteq Classes /\ initialized \subseteq Classes
  /\ classInitLock \in Threads \cup {NoThread}
  /\ waiting \subseteq Threads
  /\ metaclasses \in [Threads -> SUBSET Classes]
  /\ \A c \in Classes : pendingInitialize[c] \in Seq(Classes)
  /\ \A t \in Threads : stack[t] \in Seq(Frame) /\ todo[t] \in Seq(Classes)
  /\ MultithreadedForkChild \in BOOLEAN
  /\ alive \subseteq Threads
  /\ sent \in [Classes -> Nat]
  /\ messages \in 0 .. MaxMessages

Frames(t) == {stack[t][i] : i \in DOMAIN stack[t]}

\* "the initializing+initialized part of the class hierarchy will be a
\* contiguous subtree starting at the root", and so is the initialized part.
Contiguous ==
  /\ \A c \in initialized : IsInitialized(superclass[c])
  /\ \A c \in initializing : superclass[c] \in {Nil} \cup initializing \cup initialized

\* While +initialize of a class runs, its superclass is initialized or this
\* same thread is in the middle of initializing it.
SuperclassFirst ==
  \A t \in alive : \A f \in Frames(t) :
    f.pc = "initialize" => \/ IsInitialized(superclass[f.cls])
                           \/ superclass[f.cls] \in metaclasses[t]

\* +initialize goes down the hierarchy, whichever threads do the work.
HierarchyOrder == Contiguous /\ SuperclassFirst

\* "Only one thread is allowed to actually initialize a class and send
\* +initialize."
OneInitializer ==
  /\ \A t, u \in alive : t # u => metaclasses[t] \cap metaclasses[u] = {}
  /\ \A c \in Classes : sent[c] <= 1

\* None of the fatal errors of _setThisThreadIsInitializingClass,
\* _setThisThreadIsNotInitializingClass and _class_initialize is reached: in
\* particular whoever finishes a class is the initializer of every subclass
\* queued behind it.
NoFatal == halted \in {"no", "initialize after fork"}

\* Every _class_initialize returns, when +initialize methods only message
\* classes of their own branch of the hierarchy.
CallsReturn == \A t \in Threads : stack[t] # <<>> ~> (stack[t] = <<>> \/ halted # "no")

\* Every class whose +initialize was sent is eventually marked initialized,
\* unless the thread that sent it is lost in a fork.
InitializedAtLast ==
  \A c \in Classes : sent[c] > 0 ~> (c \in initialized \/ MultithreadedForkChild)

\* Nobody waits for ever, and no pending class is forgotten.
Progress == CallsReturn /\ InitializedAtLast
=============================================================================
