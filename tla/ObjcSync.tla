------------------------------ MODULE ObjcSync ------------------------------
(***************************************************************************)
(* @synchronized (objc-sync.mm): objc_sync_enter and objc_sync_exit find   *)
(* the recursive mutex of an object through id2data, first in the thread's *)
(* own cache, then in one of the striped lists of SyncData blocks, whose   *)
(* blocks are reused for other objects once no thread uses them.           *)
(*                                                                         *)
(* The single-entry fast cache and the SyncCache list of a thread are      *)
(* searched one after the other and updated alike; lockCount stands for    *)
(* both.  threadCount is decremented without the list lock.                *)
(***************************************************************************)
EXTENDS Integers, Sequences, FiniteSets

CONSTANTS
  Threads, Objects,
  Blocks,           \* the SyncData blocks malloc can hand out
  Lists, listOf,    \* sDataLists, and the list an object hashes to
  order,            \* order[o]: clients nest @synchronized in this order
  UnbalancedExits,  \* may clients exit an object they did not enter?
  NoThread, NoBlock, NoObject,
  MaxDepth,         \* bound on recursive entry
  MaxEnters         \* bound on calls

ASSUME ObjcSyncAssumption ==
  /\ NoThread \notin Threads
  /\ NoBlock \notin Blocks
  /\ NoObject \notin Objects
  /\ IsFiniteSet(Threads)
  /\ listOf \in [Objects -> Lists]
  /\ order \in [Objects -> Nat]
  /\ UnbalancedExits \in BOOLEAN
  /\ MaxDepth \in Nat /\ MaxEnters \in Nat

VARIABLES
  data,          \* data[l]: the blocks of list l, first to last
  spin,          \* spin[l]: owner of the list's lock
  object, threadCount,   \* fields of a SyncData
  mutex, depth,  \* its recursive mutex: owner and recursion depth
  lockCount,     \* lockCount[t][b]: count of b in t's caches, 0 if absent
  held,          \* held[t][o]: how often client t is inside @synchronized(o)
  pc, obj, why,  \* per thread: program counter and id2data's arguments
  next, firstUnused, result,  \* per thread: id2data's locals
  fatal,         \* an _objc_fatal was reached
  enters         \* calls so far

vars == <<data, spin, object, threadCount, mutex, depth, lockCount, held,
          pc, obj, why, next, firstUnused, result, fatal, enters>>
shared == <<data, spin, object, threadCount, mutex, depth>>
walkVars == <<next, firstUnused>>

PCs == {"idle", "lookup", "lock", "walk", "unlock", "save",
        "mutexLock", "mutexUnlock"}

Init ==
  /\ data = [l \in Lists |-> <<>>]
  /\ spin = [l \in Lists |-> NoThread]
  /\ object = [b \in Blocks |-> NoObject]
  /\ threadCount = [b \in Blocks |-> 0]
  /\ mutex = [b \in Blocks |-> NoThread]
  /\ depth = [b \in Blocks |-> 0]
  /\ lockCount = [t \in Threads |-> [b \in Blocks |-> 0]]
  /\ held = [t \in Threads |-> [o \in Objects |-> 0]]
  /\ pc = [t \in Threads |-> "idle"]
  /\ obj = [t \in Threads |-> NoObject]
  /\ why = [t \in Threads |-> "ACQUIRE"]
  /\ next = [t \in Threads |-> 1]
  /\ firstUnused = [t \in Threads |-> NoBlock]
  /\ result = [t \in Threads |-> NoBlock]
  /\ fatal = FALSE
  /\ enters = 0
-----------------------------------------------------------------------------
Goto(t, p) == pc' = [pc EXCEPT ![t] = p]
List(t) == listOf[obj[t]]

\* The call returns and its locals die.
Return(t) == /\ Goto(t, "idle")
             /\ obj' = [obj EXCEPT ![t] = NoObject]
             /\ why' = [why EXCEPT ![t] = "ACQUIRE"]
             /\ next' = [next EXCEPT ![t] = 1]
             /\ firstUnused' = [firstUnused EXCEPT ![t] = NoBlock]
             /\ result' = [result EXCEPT ![t] = NoBlock]

\* objc_sync_enter(o)
Enter(t, o) ==
  /\ pc[t] = "idle"
  /\ enters < MaxEnters
  /\ held[t][o] < MaxDepth
  /\ \A q \in Objects : held[t][q] > 0 => order[q] <= order[o]
  /\ enters' = enters + 1
  /\ obj' = [obj EXCEPT ![t] = o]
  /\ why' = [why EXCEPT ![t] = "ACQUIRE"]
  /\ Goto(t, "lookup")
  /\ UNCHANGED <<shared, lockCount, held, walkVars, result, fatal>>

\* objc_sync_exit(o): the client has left the critical section.
Exit(t, o) ==
  /\ pc[t] = "idle"
  /\ held[t][o] > 0
  /\ held' = [held EXCEPT ![t][o] = @ - 1]
  /\ obj' = [obj EXCEPT ![t] = o]
  /\ why' = [why EXCEPT ![t] = "RELEASE"]
  /\ Goto(t, "lookup")
  /\ UNCHANGED <<shared, lockCount, walkVars, result, fatal, enters>>

\* An exit of an object this thread is not inside of.
UnbalancedExit(t, o) ==
  /\ UnbalancedExits
  /\ pc[t] = "idle"
  /\ held[t][o] = 0
  /\ enters < MaxEnters
  /\ enters' = enters + 1
  /\ obj' = [obj EXCEPT ![t] = o]
  /\ why' = [why EXCEPT ![t] = "RELEASE"]
  /\ Goto(t, "lookup")
  /\ UNCHANGED <<shared, lockCount, held, walkVars, result, fatal>>
-----------------------------------------------------------------------------
(* id2data *)

\* The blocks of this thread's caches that belong to the object.
Hits(t) == {b \in Blocks : lockCount[t][b] > 0 /\ object[b] = obj[t]}

AcquireCached(t) ==
  /\ pc[t] = "lookup" /\ why[t] = "ACQUIRE"
  /\ \E b \in Hits(t) :
       /\ result' = [result EXCEPT ![t] = b]
       /\ lockCount' = [lockCount EXCEPT ![t][b] = @ + 1]
       /\ fatal' = (fatal \/ threadCount[b] <= 0)
  /\ Goto(t, "mutexLock")
  /\ UNCHANGED <<shared, held, obj, why, walkVars, enters>>

\* The thread's last release gives up its use of the block, before the mutex
\* is unlocked.
ReleaseCached(t) ==
  /\ pc[t] = "lookup" /\ why[t] = "RELEASE"
  /\ \E b \in Hits(t) :
       /\ result' = [result EXCEPT ![t] = b]
       /\ lockCount' = [lockCount EXCEPT ![t][b] = @ - 1]
       /\ threadCount' = IF lockCount[t][b] = 1
                         THEN [threadCount EXCEPT ![b] = @ - 1] ELSE threadCount
       /\ fatal' = (fatal \/ threadCount[b] <= 0)
  /\ Goto(t, "mutexUnlock")
  /\ UNCHANGED <<data, spin, object, mutex, depth, held, obj, why, walkVars, enters>>

NotCached(t) ==
  /\ pc[t] = "lookup"
  /\ Hits(t) = {}
  /\ Goto(t, "lock")
  /\ UNCHANGED <<shared, lockCount, held, obj, why, walkVars, result, fatal, enters>>

\* Mutant of LockList: the list is walked without its lock.
LockList_NoLock(t) ==
  /\ pc[t] = "lock"
  /\ Goto(t, "walk")
  /\ UNCHANGED <<shared, lockCount, held, obj, why, walkVars, result, fatal, enters>>

LockList(t) ==
  /\ pc[t] = "lock"
  /\ spin[List(t)] = NoThread
  /\ spin' = [spin EXCEPT ![List(t)] = t]
  /\ Goto(t, "walk")
  /\ UNCHANGED <<data, object, threadCount, mutex, depth, lockCount, held,
                 obj, why, walkVars, result, fatal, enters>>

Walking(t) == pc[t] = "walk" /\ next[t] <= Len(data[List(t)])
Here(t) == data[List(t)][next[t]]

\* Mutant of WalkFound: the found block is not counted.
WalkFound_NotCounted(t) ==
  /\ Walking(t)
  /\ object[Here(t)] = obj[t]
  /\ result' = [result EXCEPT ![t] = Here(t)]
  /\ Goto(t, "unlock")
  /\ UNCHANGED <<shared, lockCount, held, obj, why, walkVars, fatal, enters>>

\* The object's block: counted whatever the caller wants.
WalkFound(t) ==
  /\ Walking(t)
  /\ object[Here(t)] = obj[t]
  /\ result' = [result EXCEPT ![t] = Here(t)]
  /\ threadCount' = [threadCount EXCEPT ![Here(t)] = @ + 1]
  /\ Goto(t, "unlock")
  /\ UNCHANGED <<data, spin, object, mutex, depth, lockCount, held,
                 obj, why, walkVars, fatal, enters>>

WalkPast(t) ==
  /\ Walking(t)
  /\ object[Here(t)] # obj[t]
  /\ firstUnused' = IF firstUnused[t] = NoBlock /\ threadCount[Here(t)] = 0
                    THEN [firstUnused EXCEPT ![t] = Here(t)] ELSE firstUnused
  /\ next' = [next EXCEPT ![t] = @ + 1]
  /\ UNCHANGED <<shared, lockCount, held, pc, obj, why, result, fatal, enters>>

WalkedAll(t) == pc[t] = "walk" /\ next[t] > Len(data[List(t)])

ReleaseNotFound(t) ==
  /\ WalkedAll(t) /\ why[t] = "RELEASE"
  /\ Goto(t, "unlock")
  /\ UNCHANGED <<shared, lockCount, held, obj, why, walkVars, result, fatal, enters>>

\* Make b the object's block, in use by this thread.
Claim(t, b) == /\ result' = [result EXCEPT ![t] = b]
               /\ object' = [object EXCEPT ![b] = obj[t]]
               /\ threadCount' = [threadCount EXCEPT ![b] = 1]
               /\ Goto(t, "unlock")
               /\ UNCHANGED <<spin, lockCount, held, obj, why, walkVars, fatal, enters>>

ReuseBlock(t) ==
  /\ WalkedAll(t) /\ why[t] = "ACQUIRE"
  /\ firstUnused[t] # NoBlock
  /\ Claim(t, firstUnused[t])
  /\ UNCHANGED <<data, mutex, depth>>

InList(b) == \E l \in Lists : \E i \in DOMAIN data[l] : data[l][i] = b

\* A block fresh from the allocator goes to the head of the list.
NewBlock(t) ==
  /\ WalkedAll(t) /\ why[t] = "ACQUIRE"
  /\ firstUnused[t] = NoBlock
  /\ \E b \in Blocks :
       /\ ~InList(b)
       /\ Claim(t, b)
       /\ data' = [data EXCEPT ![List(t)] = <<b>> \o @]
  /\ UNCHANGED <<mutex, depth>>

\* Mutant of UnlockList: a release that found nothing keeps the lock.
UnlockList_KeepsLock(t) ==
  /\ pc[t] = "unlock"
  /\ spin' = IF result[t] = NoBlock
             THEN spin ELSE [spin EXCEPT ![List(t)] = NoThread]
  /\ Goto(t, "save")
  /\ UNCHANGED <<data, object, threadCount, mutex, depth, lockCount, held,
                 obj, why, walkVars, result, fatal, enters>>

UnlockList(t) ==
  /\ pc[t] = "unlock"
  /\ spin' = [spin EXCEPT ![List(t)] = NoThread]
  /\ Goto(t, "save")
  /\ UNCHANGED <<data, object, threadCount, mutex, depth, lockCount, held,
                 obj, why, walkVars, result, fatal, enters>>

\* "Probably some thread is incorrectly exiting while the object is held by
\* another thread": OBJC_SYNC_NOT_OWNING_THREAD_ERROR.
ReleaseFails(t) ==
  /\ pc[t] = "save" /\ why[t] = "RELEASE"
  /\ Return(t)
  /\ UNCHANGED <<shared, lockCount, held, fatal, enters>>

\* Save in the thread's cache.
SaveInCache(t) ==
  /\ pc[t] = "save" /\ why[t] = "ACQUIRE"
  /\ lockCount' = [lockCount EXCEPT ![t][result[t]] = 1]
  /\ fatal' = (fatal \/ object[result[t]] # obj[t])
  /\ Goto(t, "mutexLock")
  /\ UNCHANGED <<shared, held, obj, why, walkVars, result, enters>>
-----------------------------------------------------------------------------
(* The recursive mutex of the block. *)

MutexLock(t) ==
  LET b == result[t] IN
  /\ pc[t] = "mutexLock"
  /\ mutex[b] \in {NoThread, t}
  /\ mutex' = [mutex EXCEPT ![b] = t]
  /\ depth' = [depth EXCEPT ![b] = @ + 1]
  /\ held' = [held EXCEPT ![t][obj[t]] = @ + 1]
  /\ Return(t)
  /\ UNCHANGED <<data, spin, object, threadCount, lockCount, fatal, enters>>

\* tryUnlock fails unless this thread owns the mutex.
TryUnlock(t) ==
  LET b == result[t] IN
  /\ pc[t] = "mutexUnlock"
  /\ IF mutex[b] = t
     THEN /\ depth' = [depth EXCEPT ![b] = @ - 1]
          /\ mutex' = [mutex EXCEPT ![b] = IF depth[b] = 1 THEN NoThread ELSE t]
     ELSE UNCHANGED <<mutex, depth>>
  /\ Return(t)
  /\ UNCHANGED <<data, spin, object, threadCount, lockCount, held, fatal, enters>>

Step(t) ==
  \/ AcquireCached(t) \/ ReleaseCached(t) \/ NotCached(t) \/ LockList(t)
  \/ WalkFound(t) \/ WalkPast(t) \/ ReleaseNotFound(t) \/ ReuseBlock(t)
  \/ NewBlock(t) \/ UnlockList(t) \/ ReleaseFails(t) \/ SaveInCache(t)
  \/ MutexLock(t) \/ TryUnlock(t)

Next == \E t \in Threads :
          \/ Step(t)
          \/ \E o \in Objects : Enter(t, o) \/ Exit(t, o) \/ UnbalancedExit(t, o)

Spec == Init /\ [][Next]_vars

\* Threads are scheduled, and a client inside @synchronized leaves it.
Fairness == \A t \in Threads : /\ WF_vars(Step(t))
                               /\ WF_vars(\E o \in Objects : Exit(t, o))
FairSpec == Spec /\ Fairness
-----------------------------------------------------------------------------
(* Properties *)

TypeOK ==
  /\ \A l \in Lists : data[l] \in Seq(Blocks)
  /\ spin \in [Lists -> Threads \cup {NoThread}]
  /\ object \in [Blocks -> Objects \cup {NoObject}]
  /\ threadCount \in [Blocks -> Nat]
  /\ mutex \in [Blocks -> Threads \cup {NoThread}]
  /\ depth \in [Blocks -> Nat]
  /\ lockCount \in [Threads -> [Blocks -> Nat]]
  /\ held \in [Threads -> [Objects -> 0 .. MaxDepth]]
  /\ pc \in [Threads -> PCs]
  /\ obj \in [Threads -> Objects \cup {NoObject}]
  /\ why \in [Threads -> {"ACQUIRE", "RELEASE"}]
  /\ next \in [Threads -> Nat]
  /\ firstUnused \in [Threads -> Blocks \cup {NoBlock}]
  /\ result \in [Threads -> Blocks \cup {NoBlock}]
  /\ fatal \in BOOLEAN
  /\ enters \in 0 .. MaxEnters

\* "Spinlock prevents multiple threads from creating multiple locks for the
\* same new object": no two blocks of the lists belong to one object.
OneBlockPerObject ==
  \A b, d \in Blocks : InList(b) /\ InList(d) /\ object[b] = object[d] => b = d

\* The threads that use a block, by id2data's own bookkeeping.
Users(b) == {t \in Threads : \/ lockCount[t][b] > 0
                             \/ pc[t] \in {"unlock", "save"} /\ result[t] = b}

\* "threadCount: number of THREADS using this block" is never too low, so no
\* block in use is given to another object.  (It is too high after a failed
\* exit, which counts a use that never ends.)
ThreadCountCovers == \A b \in Blocks : threadCount[b] >= Cardinality(Users(b))

\* objc_sync_exit never returns OBJC_SYNC_NOT_OWNING_THREAD_ERROR to a thread
\* that is inside: its release is served by its cache, and the mutex it unlocks
\* is its own.  No _objc_fatal of id2data is reached.
OwnerCanExit ==
  /\ ~fatal
  /\ \A t \in Threads :
       /\ pc[t] = "mutexUnlock" => mutex[result[t]] = t
       /\ why[t] = "RELEASE" /\ pc[t] \notin {"lookup", "mutexUnlock"} =>
            \A b \in Blocks : object[b] = obj[t] => mutex[b] # t

\* The bookkeeping of id2data, in the face of racing and unbalanced clients.
BlocksSound == OneBlockPerObject /\ ThreadCountCovers /\ OwnerCanExit

\* Every objc_sync_enter and objc_sync_exit returns, for clients that nest in
\* one order and leave again.
CallsReturn == \A t \in Threads : pc[t] # "idle" ~> pc[t] = "idle"

\* How deep t is inside o according to the mutex of o's block.  A thread about
\* to unlock has left already: its block may serve another object by now.
Inside(t, o) ==
  LET Left(b) == IF pc[t] = "mutexUnlock" /\ result[t] = b THEN 1 ELSE 0
      Mine == {b \in Blocks : object[b] = o /\ mutex[b] = t}
      mine == CHOOSE b \in Mine : TRUE  \* the only one, by OneBlockPerObject
  IN IF Mine = {} THEN 0 ELSE depth[mine] - Left(mine)

\* @synchronized is one recursive lock per object, although the block that
\* implements it changes: locking a block's mutex is Enter, and giving up the
\* block in id2data is Exit.
Locks == INSTANCE RecursiveLocks
           WITH held <- [t \in Threads |-> [o \in Objects |-> Inside(t, o)]]
ImplementsLocks == Locks!Spec
=============================================================================
