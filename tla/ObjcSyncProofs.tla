--------------------------- MODULE ObjcSyncProofs ---------------------------
(***************************************************************************)
(* Proofs about ObjcSync: the bookkeeping of id2data is sound, and so      *)
(* @synchronized is one recursive lock per object, although the block that *)
(* implements it is handed from object to object and its threadCount is    *)
(* decremented without the lock of its list.                               *)
(*                                                                         *)
(* The argument: a block is given to another object only by the holder of  *)
(* its list's lock, and only while its threadCount is zero.  A count of    *)
(* zero means no user, so a block that some thread has cached, or is about *)
(* to cache, keeps its object; what a thread knows about its caches after  *)
(* a miss, and about the part of the list it has walked, stays true.       *)
(***************************************************************************)
EXTENDS ObjcSync, FiniteSetTheorems, TLAPS

\* The variables that the argument is about, and their types.
Typed ==
  /\ data \in [Lists -> Seq(Blocks)]
  /\ spin \in [Lists -> Threads \cup {NoThread}]
  /\ object \in [Blocks -> Objects \cup {NoObject}]
  /\ threadCount \in [Blocks -> Nat]
  /\ mutex \in [Blocks -> Threads \cup {NoThread}]
  /\ depth \in [Blocks -> Nat]
  /\ lockCount \in [Threads -> [Blocks -> Nat]]
  /\ pc \in [Threads -> PCs]
  /\ obj \in [Threads -> Objects \cup {NoObject}]
  /\ why \in [Threads -> {"ACQUIRE", "RELEASE"}]
  /\ next \in [Threads -> Nat]
  /\ firstUnused \in [Threads -> Blocks \cup {NoBlock}]
  /\ result \in [Threads -> Blocks \cup {NoBlock}]

\* What each place in id2data implies about the locals.
Frame(t) ==
  /\ pc[t] # "idle" => obj[t] \in Objects
  /\ pc[t] \in {"idle", "mutexLock"} => why[t] = "ACQUIRE"
  /\ pc[t] \in {"idle", "lookup", "lock"} => next[t] = 1 /\ firstUnused[t] = NoBlock
  /\ pc[t] \in {"idle", "lookup", "lock", "walk"} => result[t] = NoBlock
  /\ pc[t] \in {"unlock", "save"} /\ why[t] = "ACQUIRE" => result[t] \in Blocks
  /\ pc[t] \in {"mutexLock", "mutexUnlock"} => result[t] \in Blocks
  /\ pc[t] = "walk" => next[t] >= 1

\* The list's lock is held while the list is walked and changed.
Spins == \A t \in Threads : pc[t] \in {"walk", "unlock"} => spin[List(t)] = t

Has(s, b) == \E i \in DOMAIN s : s[i] = b
OnList(l, b) == Has(data[l], b)

\* A block is in the list that its object hashes to; outside the lists blocks
\* are untouched.
Placed ==
  /\ \A l \in Lists, b \in Blocks : OnList(l, b) =>
       object[b] \in Objects /\ listOf[object[b]] = l
  /\ \A b \in Blocks : ~InList(b) =>
       /\ threadCount[b] = 0 /\ mutex[b] = NoThread
       /\ \A t \in Threads : result[t] # b

\* What a thread has learned on its way through the list l: the blocks that it
\* has passed are not its object's, and the block it may reuse is unused.
Seen(t, l) == \A i \in 1 .. Len(data[l]) : i < next[t] => object[data[l][i]] # obj[t]
Spare(t, l) == \A b \in Blocks : b = firstUnused[t] => threadCount[b] = 0 /\ OnList(l, b)
Walked == \A t \in Threads, l \in Lists :
            pc[t] = "walk" /\ l = List(t) => Seen(t, l) /\ Spare(t, l)

\* What a thread knows after its caches missed, and about the block it found.
Missed ==
  \A t \in Threads :
    /\ pc[t] \in {"lock", "walk", "unlock", "save"} =>
         \A b \in Blocks : lockCount[t][b] > 0 => object[b] # obj[t]
    /\ pc[t] \in {"unlock", "save"} /\ result[t] # NoBlock => object[result[t]] = obj[t]
    /\ pc[t] = "mutexLock" => object[result[t]] = obj[t]

\* How often t has locked the mutex of b, and what its call in progress owes.
Locked(t, b) == IF mutex[b] = t THEN depth[b] ELSE 0
Due(t, b) == IF result[t] # b THEN 0
             ELSE IF pc[t] = "mutexLock" THEN 1
             ELSE IF pc[t] = "mutexUnlock" THEN -1 ELSE 0

\* A cache counts what its thread has locked, save for the call in progress.
Counted ==
  /\ \A b \in Blocks : mutex[b] = NoThread <=> depth[b] = 0
  /\ \A t \in Threads, b \in Blocks : lockCount[t][b] = Locked(t, b) + Due(t, b)

IInv == /\ Typed
        /\ \A t \in Threads : Frame(t)
        /\ Spins /\ Placed /\ Walked /\ Missed /\ Counted
        /\ OneBlockPerObject /\ ThreadCountCovers
        /\ ~fatal

\* One step of thread t.
Act(t) == Step(t) \/ \E o \in Objects : Enter(t, o) \/ Exit(t, o) \/ UnbalancedExit(t, o)
-----------------------------------------------------------------------------
\* The constants, in the form in which the steps below use them.
LEMMA ConstantTypes ==
  /\ NoThread \notin Threads /\ NoBlock \notin Blocks /\ NoObject \notin Objects
  /\ IsFiniteSet(Threads) /\ listOf \in [Objects -> Lists]
  BY ObjcSyncAssumption

\* A block at the head of a list.
LEMMA Prepend ==
  ASSUME NEW s \in Seq(Blocks), NEW b \in Blocks
  PROVE  /\ <<b>> \o s \in Seq(Blocks)
         /\ \A c \in Blocks : Has(<<b>> \o s, c) <=> c = b \/ Has(s, c)
<1> DEFINE q == <<b>> \o s
<1>1. /\ q \in Seq(Blocks) /\ Len(q) = Len(s) + 1 /\ Len(s) \in Nat
      /\ q[1] = b /\ \A i \in 1 .. Len(s) : q[i + 1] = s[i]
  OBVIOUS
<1>2. DOMAIN q = 1 .. Len(s) + 1 /\ DOMAIN s = 1 .. Len(s)
  BY <1>1
<1>3. \A i \in 1 .. Len(s) + 1 : i = 1 \/ \E j \in 1 .. Len(s) : i = j + 1
  BY <1>1
<1> HIDE DEF q
<1>4. ASSUME NEW c, NEW i \in DOMAIN q, q[i] = c PROVE c = b \/ \E j \in DOMAIN s : s[j] = c
  BY <1>1, <1>2, <1>3, <1>4
<1>5. \E i \in DOMAIN q : q[i] = b
  BY <1>1, <1>2
<1>6. ASSUME NEW j \in DOMAIN s PROVE \E i \in DOMAIN q : q[i] = s[j]
  <2>1. j + 1 \in DOMAIN q /\ q[j + 1] = s[j]
    BY <1>1, <1>2
  <2> QED
    BY <2>1
<1>7. q \in Seq(Blocks) /\ \A c \in Blocks : Has(q, c) <=> c = b \/ Has(s, c)
  BY <1>1, <1>4, <1>5, <1>6 DEF Has
<1> QED
  BY <1>7 DEF q

\* A user of a block is counted, and the users are finitely many.
LEMMA UserCounts ==
  ASSUME IInv, NEW b \in Blocks
  PROVE  /\ IsFiniteSet(Users(b)) /\ Cardinality(Users(b)) \in Nat
         /\ threadCount[b] \in Nat /\ threadCount[b] >= Cardinality(Users(b))
         /\ \A t \in Users(b) : threadCount[b] > 0
<1>1. IsFiniteSet(Threads) /\ Users(b) \subseteq Threads
  BY ConstantTypes DEF Users
<1>2. IsFiniteSet(Users(b)) /\ Cardinality(Users(b)) \in Nat
  BY <1>1, FS_Subset, FS_CardinalityType
<1>3. threadCount[b] \in Nat /\ threadCount[b] >= Cardinality(Users(b))
  BY DEF IInv, Typed, ThreadCountCovers
<1>4. ASSUME NEW t \in Users(b) PROVE Cardinality(Users(b)) # 0
  BY <1>2, FS_EmptySet
<1> QED
  BY <1>2, <1>3, <1>4

\* A block whose threadCount is zero is in nobody's cache, and nobody is about
\* to put it there.
LEMMA Unused ==
  ASSUME IInv, NEW b \in Blocks, threadCount[b] = 0, NEW t \in Threads
  PROVE  /\ lockCount[t][b] = 0
         /\ pc[t] \in {"unlock", "save", "mutexLock"} => result[t] # b
<1>1. t \notin Users(b)
  BY UserCounts
<1>2. lockCount[t][b] = 0
  BY <1>1 DEF Users, IInv, Typed
<1>3. ASSUME pc[t] = "mutexLock", result[t] = b PROVE FALSE
  <2>1. Due(t, b) = 1 /\ Locked(t, b) \in Nat
    BY <1>3 DEF Due, Locked, IInv, Typed
  <2>2. lockCount[t][b] = Locked(t, b) + Due(t, b)
    BY DEF IInv, Counted
  <2> QED
    BY <1>2, <2>1, <2>2
<1> QED
  BY <1>1, <1>2, <1>3 DEF Users

\* The block that a thread gives to its object is unused and not another's.
LEMMA ClaimUnused ==
  ASSUME IInv, NEW t \in Threads, WalkedAll(t), why[t] = "ACQUIRE", NEW b \in Blocks,
         \/ b = firstUnused[t]
         \/ ~InList(b)
  PROVE  /\ threadCount[b] = 0 /\ (b = firstUnused[t] => OnList(List(t), b))
         /\ \A c \in Blocks : InList(c) => object[c] # obj[t]
         /\ \A u \in Threads : u # t /\ pc[u] \in {"walk", "unlock"} => List(u) # List(t)
         /\ obj[t] \in Objects /\ List(t) \in Lists
<1>1. pc[t] = "walk" /\ obj[t] \in Objects /\ List(t) \in Lists
  BY ConstantTypes DEF WalkedAll, IInv, Frame, List
<1>2. threadCount[b] = 0 /\ (b = firstUnused[t] => OnList(List(t), b))
  BY <1>1, ConstantTypes DEF IInv, Placed, Walked, Spare, InList, OnList, Has
<1>3. ASSUME NEW i \in DOMAIN data[List(t)] PROVE object[data[List(t)][i]] # obj[t]
  <2>1. data[List(t)] \in Seq(Blocks) /\ next[t] \in Nat
    BY <1>1 DEF IInv, Typed
  <2>2. i \in 1 .. Len(data[List(t)]) /\ i < next[t]
    BY <2>1 DEF WalkedAll
  <2>3. Seen(t, List(t))
    BY <1>1 DEF IInv, Walked
  <2> QED
    BY <2>2, <2>3 DEF Seen
<1>4. ASSUME NEW c \in Blocks, InList(c), object[c] = obj[t] PROVE FALSE
  <2>1. PICK l \in Lists : OnList(l, c)
    BY <1>4 DEF InList, OnList, Has
  <2>2. l = List(t)
    BY <1>4, <2>1 DEF IInv, Placed, List
  <2> QED
    BY <1>3, <1>4, <2>1, <2>2 DEF OnList, Has
<1>5. \A u \in Threads : u # t /\ pc[u] \in {"walk", "unlock"} => List(u) # List(t)
  BY <1>1 DEF IInv, Spins
<1> QED
  BY <1>1, <1>2, <1>4, <1>5

\* The walk is inside the list.
LEMMA HereBlock ==
  ASSUME IInv, NEW t \in Threads, Walking(t)
  PROVE  /\ List(t) \in Lists /\ obj[t] \in Objects /\ next[t] \in DOMAIN data[List(t)]
         /\ Here(t) \in Blocks /\ OnList(List(t), Here(t))
<1>1. List(t) \in Lists /\ obj[t] \in Objects
  BY ConstantTypes DEF Walking, List, IInv, Frame
<1>2. data[List(t)] \in Seq(Blocks)
  BY <1>1 DEF IInv, Typed
<1>3. next[t] \in 1 .. Len(data[List(t)])
  BY <1>2 DEF Walking, IInv, Typed, Frame
<1> QED
  BY <1>1, <1>2, <1>3 DEF Here, OnList, Has

\* A thread that found the block in its cache is counted, and owns the mutex.
LEMMA HitCounts ==
  ASSUME IInv, NEW t \in Threads, pc[t] = "lookup", NEW b \in Hits(t)
  PROVE  threadCount[b] > 0 /\ mutex[b] = t /\ lockCount[t][b] > 0 /\ InList(b)
<1>1. b \in Blocks /\ t \in Users(b) /\ lockCount[t][b] > 0
  BY DEF Hits, Users
<1>2. threadCount[b] > 0
  BY <1>1, UserCounts
<1>3. mutex[b] = t
  BY <1>1 DEF IInv, Counted, Locked, Due
<1> QED
  BY <1>1, <1>2, <1>3 DEF IInv, Placed
-----------------------------------------------------------------------------
(* One conjunct of the invariant at a time. *)

\* Types.
LEMMA TypedStep ==
  ASSUME IInv, NEW t \in Threads, Act(t)
  PROVE  Typed'
<1> USE ConstantTypes DEF IInv, Typed, PCs, Frame, Goto, shared, walkVars, List
<1>1. CASE AcquireCached(t)
  BY <1>1 DEF AcquireCached, Hits
<1>2. CASE ReleaseCached(t)
  <2>1. PICK b \in Hits(t) :
          /\ result' = [result EXCEPT ![t] = b]
          /\ lockCount' = [lockCount EXCEPT ![t][b] = @ - 1]
          /\ threadCount' = IF lockCount[t][b] = 1
                            THEN [threadCount EXCEPT ![b] = @ - 1] ELSE threadCount
    BY <1>2 DEF ReleaseCached
  <2>2. b \in Blocks /\ threadCount[b] - 1 \in Nat /\ lockCount[t][b] - 1 \in Nat
    BY <1>2, HitCounts, SMTT(30) DEF ReleaseCached, Hits
  <2> QED
    BY <1>2, <2>1, <2>2 DEF ReleaseCached
<1>3. CASE NotCached(t)
  BY <1>3 DEF NotCached, Hits
<1>4. CASE LockList(t)
  BY <1>4 DEF LockList
<1>5. CASE WalkFound(t)
  <2>1. Here(t) \in Blocks
    BY <1>5, HereBlock DEF WalkFound
  <2>2. threadCount' \in [Blocks -> Nat] /\ result' \in [Threads -> Blocks \cup {NoBlock}]
    BY <1>5, <2>1 DEF WalkFound
  <2> QED
    BY <1>5, <2>2 DEF WalkFound
<1>6. CASE WalkPast(t)
  <2>1. Here(t) \in Blocks
    BY <1>6, HereBlock DEF WalkPast
  <2> QED
    BY <1>6, <2>1 DEF WalkPast
<1>7. CASE ReleaseNotFound(t)
  BY <1>7 DEF ReleaseNotFound, WalkedAll
<1>8. CASE ReuseBlock(t)
  BY <1>8 DEF ReuseBlock, WalkedAll, Claim
<1>9. CASE NewBlock(t)
  BY <1>9, Prepend DEF NewBlock, WalkedAll, Claim
<1>10. CASE UnlockList(t)
  BY <1>10 DEF UnlockList
<1>11. CASE ReleaseFails(t)
  BY <1>11 DEF ReleaseFails, Return
<1>12. CASE SaveInCache(t)
  BY <1>12 DEF SaveInCache
<1>13. CASE MutexLock(t)
  BY <1>13 DEF MutexLock, Return
<1>14. CASE TryUnlock(t)
  <2>1. result[t] \in Blocks /\ (mutex[result[t]] = t => depth[result[t]] # 0)
    BY <1>14 DEF TryUnlock, Counted
  <2>2. depth' \in [Blocks -> Nat]
    <3>1. CASE mutex[result[t]] = t
      <4>1. depth' = [depth EXCEPT ![result[t]] = depth[result[t]] - 1]
        BY <1>14, <3>1 DEF TryUnlock
      <4>2. depth[result[t]] - 1 \in Nat
        BY <2>1, <3>1
      <4> QED
        BY <4>1, <4>2
    <3>2. CASE mutex[result[t]] # t
      BY <1>14, <3>2 DEF TryUnlock
    <3> QED
      BY <3>1, <3>2
  <2>3. mutex' \in [Blocks -> Threads \cup {NoThread}]
    BY <1>14, <2>1 DEF TryUnlock
  <2> QED
    BY <1>14, <2>2, <2>3 DEF TryUnlock, Return
<1>15. CASE \E o \in Objects : Enter(t, o)
  BY <1>15 DEF Enter
<1>16. CASE \E o \in Objects : Exit(t, o)
  BY <1>16 DEF Exit
<1>17. CASE \E o \in Objects : UnbalancedExit(t, o)
  BY <1>17 DEF UnbalancedExit
<1> QED
  BY <1>1, <1>2, <1>3, <1>4, <1>5, <1>6, <1>7, <1>8, <1>9, <1>10, <1>11, <1>12,
     <1>13, <1>14, <1>15, <1>16, <1>17 DEF Act, Step

\* What the program counter implies about the locals.
LEMMA FrameStep ==
  ASSUME IInv, NEW t \in Threads, Act(t)
  PROVE  \A u \in Threads : Frame(u)'
<1> USE ConstantTypes DEF IInv, Typed, PCs, Frame, Goto, shared, walkVars
<1>1. CASE AcquireCached(t)
  BY <1>1 DEF AcquireCached, Hits
<1>2. CASE ReleaseCached(t)
  BY <1>2 DEF ReleaseCached, Hits
<1>3. CASE NotCached(t)
  BY <1>3 DEF NotCached, Hits
<1>4. CASE LockList(t)
  BY <1>4 DEF LockList
<1>5. CASE WalkFound(t)
  <2>1. Here(t) \in Blocks
    BY <1>5, HereBlock DEF WalkFound
  <2> QED
    BY <1>5, <2>1 DEF WalkFound, Walking
<1>6. CASE WalkPast(t)
  <2>1. /\ pc[t] = "walk" /\ next'[t] = next[t] + 1 /\ next[t] \in Nat
        /\ UNCHANGED <<pc, obj, why, result>>
        /\ \A u \in Threads \ {t} : next'[u] = next[u] /\ firstUnused'[u] = firstUnused[u]
    BY <1>6 DEF WalkPast, Walking
  <2>2. \A u \in Threads \ {t} : Frame(u)'
    BY <2>1
  <2>3. Frame(t)'
    BY <2>1
  <2> QED
    BY <2>2, <2>3
<1>7. CASE ReleaseNotFound(t)
  BY <1>7 DEF ReleaseNotFound, WalkedAll
<1>8. CASE ReuseBlock(t)
  BY <1>8 DEF ReuseBlock, WalkedAll, Claim
<1>9. CASE NewBlock(t)
  BY <1>9 DEF NewBlock, WalkedAll, Claim
<1>10. CASE UnlockList(t)
  BY <1>10 DEF UnlockList
<1>11. CASE ReleaseFails(t)
  BY <1>11 DEF ReleaseFails, Return
<1>12. CASE SaveInCache(t)
  BY <1>12 DEF SaveInCache
<1>13. CASE MutexLock(t)
  BY <1>13 DEF MutexLock, Return
<1>14. CASE TryUnlock(t)
  BY <1>14 DEF TryUnlock, Return
<1>15. CASE \E o \in Objects : Enter(t, o)
  BY <1>15 DEF Enter
<1>16. CASE \E o \in Objects : Exit(t, o)
  BY <1>16 DEF Exit
<1>17. CASE \E o \in Objects : UnbalancedExit(t, o)
  BY <1>17 DEF UnbalancedExit
<1> QED
  BY <1>1, <1>2, <1>3, <1>4, <1>5, <1>6, <1>7, <1>8, <1>9, <1>10, <1>11, <1>12,
     <1>13, <1>14, <1>15, <1>16, <1>17 DEF Act, Step

\* The lock of the list.
LEMMA SpinsStep ==
  ASSUME IInv, NEW t \in Threads, Act(t)
  PROVE  Spins'
<1> USE ConstantTypes DEF IInv, Typed, PCs, Frame, Goto, shared, walkVars, Spins, List
<1>1. CASE AcquireCached(t)
  BY <1>1 DEF AcquireCached, Hits
<1>2. CASE ReleaseCached(t)
  BY <1>2 DEF ReleaseCached, Hits
<1>3. CASE NotCached(t)
  BY <1>3 DEF NotCached, Hits
<1>4. CASE LockList(t)
  BY <1>4 DEF LockList
<1>5. CASE WalkFound(t)
  BY <1>5 DEF WalkFound, Walking, Here
<1>6. CASE WalkPast(t)
  BY <1>6 DEF WalkPast, Walking, Here
<1>7. CASE ReleaseNotFound(t)
  BY <1>7 DEF ReleaseNotFound, WalkedAll
<1>8. CASE ReuseBlock(t)
  BY <1>8 DEF ReuseBlock, WalkedAll, Claim
<1>9. CASE NewBlock(t)
  BY <1>9 DEF NewBlock, WalkedAll, Claim
<1>10. CASE UnlockList(t)
  BY <1>10 DEF UnlockList
<1>11. CASE ReleaseFails(t)
  BY <1>11 DEF ReleaseFails, Return
<1>12. CASE SaveInCache(t)
  BY <1>12 DEF SaveInCache
<1>13. CASE MutexLock(t)
  BY <1>13 DEF MutexLock, Return
<1>14. CASE TryUnlock(t)
  BY <1>14 DEF TryUnlock, Return
<1>15. CASE \E o \in Objects : Enter(t, o)
  BY <1>15 DEF Enter
<1>16. CASE \E o \in Objects : Exit(t, o)
  BY <1>16 DEF Exit
<1>17. CASE \E o \in Objects : UnbalancedExit(t, o)
  BY <1>17 DEF UnbalancedExit
<1> QED
  BY <1>1, <1>2, <1>3, <1>4, <1>5, <1>6, <1>7, <1>8, <1>9, <1>10, <1>11, <1>12,
     <1>13, <1>14, <1>15, <1>16, <1>17 DEF Act, Step


\* Only a new block changes what is in the lists.
LEMMA SameLists ==
  ASSUME UNCHANGED data
  PROVE  /\ \A l \in Lists, b \in Blocks : OnList(l, b)' <=> OnList(l, b)
         /\ \A b \in Blocks : InList(b)' <=> InList(b)
  BY DEF OnList, Has, InList

LEMMA MoreLists ==
  ASSUME IInv, NEW m \in Lists, NEW b \in Blocks, data' = [data EXCEPT ![m] = <<b>> \o @]
  PROVE  /\ \A l \in Lists, c \in Blocks :
              OnList(l, c)' <=> OnList(l, c) \/ (l = m /\ c = b)
         /\ \A c \in Blocks : InList(c)' <=> InList(c) \/ c = b
<1>1. data \in [Lists -> Seq(Blocks)]
  BY DEF IInv, Typed
<1>2. data'[m] = <<b>> \o data[m] /\ \A l \in Lists \ {m} : data'[l] = data[l]
  BY <1>1
<1>3. ASSUME NEW l \in Lists, NEW c \in Blocks
      PROVE  OnList(l, c)' <=> OnList(l, c) \/ (l = m /\ c = b)
  <2>1. CASE l = m
    <3>1. data[m] \in Seq(Blocks)
      BY <1>1
    <3>2. Has(<<b>> \o data[m], c) <=> c = b \/ Has(data[m], c)
      BY <3>1, Prepend
    <3> QED
      BY <1>2, <2>1, <3>2 DEF OnList
  <2>2. CASE l # m
    BY <1>2, <2>2 DEF OnList
  <2> QED
    BY <2>1, <2>2
<1>4. \A c \in Blocks : InList(c) <=> \E l \in Lists : OnList(l, c)
  BY DEF InList, OnList, Has
<1>5. \A c \in Blocks : InList(c)' <=> \E l \in Lists : OnList(l, c)'
  BY DEF InList, OnList, Has
<1> QED
  BY <1>3, <1>4, <1>5

\* A block on some list is in the lists.
LEMMA OnListIn == \A l \in Lists, b \in Blocks : OnList(l, b) => InList(b)
  BY DEF InList, OnList, Has

\* Where the blocks are.
LEMMA PlacedStep ==
  ASSUME IInv, NEW t \in Threads, Act(t)
  PROVE  Placed'
<1> USE ConstantTypes, SameLists DEF IInv, Typed, PCs, Frame, Goto, shared, walkVars, Placed
<1>1. CASE AcquireCached(t)
  BY <1>1, HitCounts DEF AcquireCached, Hits
<1>2. CASE ReleaseCached(t)
  <2>1. \A b \in Hits(t) : b \in Blocks /\ InList(b)
    BY <1>2, HitCounts DEF ReleaseCached, Hits
  <2> QED
    BY <1>2, <2>1 DEF ReleaseCached
<1>3. CASE NotCached(t)
  BY <1>3 DEF NotCached, Hits
<1>4. CASE LockList(t)
  BY <1>4 DEF LockList
<1>5. CASE WalkFound(t)
  <2>1. Here(t) \in Blocks /\ InList(Here(t))
    BY <1>5, HereBlock, OnListIn DEF WalkFound
  <2> QED
    BY <1>5, <2>1 DEF WalkFound
<1>6. CASE WalkPast(t)
  BY <1>6 DEF WalkPast, Walking, Here
<1>7. CASE ReleaseNotFound(t)
  BY <1>7 DEF ReleaseNotFound, WalkedAll
<1>8. CASE ReuseBlock(t)
  <2> DEFINE b == firstUnused[t]
  <2>1. b \in Blocks /\ OnList(List(t), b) /\ List(t) \in Lists /\ InList(b)
        /\ obj[t] \in Objects
    BY <1>8, ClaimUnused, OnListIn DEF ReuseBlock
  <2>2. \A l \in Lists : OnList(l, b) => l = List(t)
    BY <2>1
  <2> HIDE DEF b
  <2>3. /\ object' = [object EXCEPT ![b] = obj[t]] /\ data' = data /\ mutex' = mutex
        /\ threadCount' = [threadCount EXCEPT ![b] = 1] /\ result' = [result EXCEPT ![t] = b]
    BY <1>8 DEF ReuseBlock, Claim, b
  <2> QED
    BY <2>1, <2>2, <2>3 DEF List
<1>9. CASE NewBlock(t)
  <2>1. PICK b \in Blocks :
          /\ ~InList(b) /\ Claim(t, b)
          /\ data' = [data EXCEPT ![List(t)] = <<b>> \o @]
    BY <1>9 DEF NewBlock
  <2>2. List(t) \in Lists /\ obj[t] \in Objects
    BY <1>9, <2>1, ClaimUnused DEF NewBlock
  <2>3. PICK m \in Lists : m = List(t)
    BY <2>2
  <2>4. /\ \A l \in Lists, c \in Blocks :
              OnList(l, c)' <=> OnList(l, c) \/ (l = m /\ c = b)
        /\ \A c \in Blocks : InList(c)' <=> InList(c) \/ c = b
    BY <2>1, <2>3, MoreLists
  <2>5. \A l \in Lists : ~OnList(l, b)
    BY <2>1, OnListIn
  <2> QED
    BY <1>9, <2>1, <2>2, <2>3, <2>4, <2>5 DEF NewBlock, Claim, List
<1>10. CASE UnlockList(t)
  BY <1>10 DEF UnlockList
<1>11. CASE ReleaseFails(t)
  BY <1>11 DEF ReleaseFails, Return
<1>12. CASE SaveInCache(t)
  BY <1>12 DEF SaveInCache
<1>13. CASE MutexLock(t)
  BY <1>13 DEF MutexLock, Return
<1>14. CASE TryUnlock(t)
  BY <1>14 DEF TryUnlock, Return
<1>15. CASE \E o \in Objects : Enter(t, o)
  BY <1>15 DEF Enter
<1>16. CASE \E o \in Objects : Exit(t, o)
  BY <1>16 DEF Exit
<1>17. CASE \E o \in Objects : UnbalancedExit(t, o)
  BY <1>17 DEF UnbalancedExit
<1> QED
  BY <1>1, <1>2, <1>3, <1>4, <1>5, <1>6, <1>7, <1>8, <1>9, <1>10, <1>11, <1>12,
     <1>13, <1>14, <1>15, <1>16, <1>17 DEF Act, Step


\* What another thread has learned about list l survives what is done elsewhere.
LEMMA WalkFrame ==
  ASSUME NEW u \in Threads, NEW l \in Lists, data[l] \in Seq(Blocks),
         Seen(u, l), Spare(u, l), data'[l] = data[l], obj'[u] = obj[u], next'[u] = next[u],
         firstUnused'[u] = firstUnused[u],
         \A b \in Blocks : OnList(l, b) => object'[b] = object[b],
         \A b \in Blocks : OnList(l, b) /\ threadCount[b] = 0 => threadCount'[b] = 0
  PROVE  Seen(u, l)' /\ Spare(u, l)'
<1>2. ASSUME NEW i \in 1 .. Len(data'[l]), i < next'[u] PROVE object'[data'[l][i]] # obj'[u]
  <2>1. i \in 1 .. Len(data[l]) /\ data[l][i] \in Blocks /\ OnList(l, data[l][i])
    BY <1>2 DEF OnList, Has
  <2>2. object[data[l][i]] # obj[u]
    BY <1>2, <2>1 DEF Seen
  <2> QED
    BY <2>1, <2>2
<1>3. Spare(u, l)'
  BY DEF Spare, OnList
<1> QED
  BY <1>2, <1>3 DEF Seen

\* What the walk has shown.
LEMMA WalkedStep ==
  ASSUME IInv, NEW t \in Threads, Act(t)
  PROVE  Walked'
<1> USE ConstantTypes DEF IInv, Typed, PCs, Frame, Goto, shared, walkVars, Walked
<1>1. CASE AcquireCached(t)
  <2>1. ASSUME NEW u \in Threads, NEW l \in Lists, pc'[u] = "walk", l = List(u)'
        PROVE  Seen(u, l)' /\ Spare(u, l)'
    <3>1. /\ u # t /\ pc[u] = "walk" /\ l = List(u) /\ data'[l] = data[l]
          /\ obj'[u] = obj[u] /\ next'[u] = next[u] /\ firstUnused'[u] = firstUnused[u]
      BY <1>1, <2>1 DEF AcquireCached, List
    <3>2. /\ \A c \in Blocks : OnList(l, c) => object'[c] = object[c]
          /\ \A c \in Blocks : OnList(l, c) /\ threadCount[c] = 0 => threadCount'[c] = 0
      BY <1>1, <3>1 DEF AcquireCached
    <3>3. Seen(u, l) /\ Spare(u, l) /\ data[l] \in Seq(Blocks)
      BY <3>1
    <3> HIDE DEF IInv
    <3> QED
      BY <3>1, <3>2, <3>3, WalkFrame
  <2> QED
    BY <2>1
<1>2. CASE ReleaseCached(t)
  <2>1. \A b \in Hits(t) : b \in Blocks /\ threadCount[b] > 0
    BY <1>2, HitCounts DEF ReleaseCached, Hits
  <2>2. ASSUME NEW u \in Threads, NEW l \in Lists, pc'[u] = "walk", l = List(u)'
        PROVE  Seen(u, l)' /\ Spare(u, l)'
    <3>1. /\ u # t /\ pc[u] = "walk" /\ l = List(u) /\ data'[l] = data[l]
          /\ obj'[u] = obj[u] /\ next'[u] = next[u] /\ firstUnused'[u] = firstUnused[u]
      BY <1>2, <2>2, <2>1 DEF ReleaseCached, List
    <3>2. /\ \A c \in Blocks : OnList(l, c) => object'[c] = object[c]
          /\ \A c \in Blocks : OnList(l, c) /\ threadCount[c] = 0 => threadCount'[c] = 0
      BY <1>2, <3>1, <2>1 DEF ReleaseCached
    <3>3. Seen(u, l) /\ Spare(u, l) /\ data[l] \in Seq(Blocks)
      BY <3>1
    <3> HIDE DEF IInv
    <3> QED
      BY <3>1, <3>2, <3>3, WalkFrame
  <2> QED
    BY <2>2
<1>3. CASE NotCached(t)
  <2>1. ASSUME NEW u \in Threads, NEW l \in Lists, pc'[u] = "walk", l = List(u)'
        PROVE  Seen(u, l)' /\ Spare(u, l)'
    <3>1. /\ u # t /\ pc[u] = "walk" /\ l = List(u) /\ data'[l] = data[l]
          /\ obj'[u] = obj[u] /\ next'[u] = next[u] /\ firstUnused'[u] = firstUnused[u]
      BY <1>3, <2>1 DEF NotCached, List
    <3>2. /\ \A c \in Blocks : OnList(l, c) => object'[c] = object[c]
          /\ \A c \in Blocks : OnList(l, c) /\ threadCount[c] = 0 => threadCount'[c] = 0
      BY <1>3, <3>1 DEF NotCached
    <3>3. Seen(u, l) /\ Spare(u, l) /\ data[l] \in Seq(Blocks)
      BY <3>1
    <3> HIDE DEF IInv
    <3> QED
      BY <3>1, <3>2, <3>3, WalkFrame
  <2> QED
    BY <2>1
<1>4. CASE LockList(t)
  <2>1. /\ next[t] = 1 /\ firstUnused[t] = NoBlock /\ NoBlock \notin Blocks
        /\ UNCHANGED <<data, object, obj, threadCount, next, firstUnused>>
    BY <1>4 DEF LockList
  <2>2. ASSUME NEW l \in Lists PROVE Seen(t, l)' /\ Spare(t, l)'
    BY <2>1 DEF Seen, Spare
  <2>3. ASSUME NEW u \in Threads, u # t, NEW l \in Lists, pc'[u] = "walk", l = List(u)'
        PROVE  Seen(u, l)' /\ Spare(u, l)'
    <3>1. pc[u] = "walk" /\ l = List(u)
      BY <1>4, <2>3 DEF LockList, List
    <3> QED
      BY <2>1, <3>1, WalkFrame
  <2> QED
    BY <2>2, <2>3
<1>5. CASE WalkFound(t)
  <2>1. List(t) \in Lists /\ Here(t) \in Blocks /\ OnList(List(t), Here(t))
    BY <1>5, HereBlock DEF WalkFound
  <2>2. \A u \in Threads \ {t} : pc[u] = "walk" => List(u) # List(t)
    BY <1>5 DEF WalkFound, Walking, Spins
  <2>3. \A l \in Lists : OnList(l, Here(t)) => l = List(t)
    BY <2>1 DEF Placed
  <2>4. ASSUME NEW u \in Threads, NEW l \in Lists, pc'[u] = "walk", l = List(u)'
        PROVE  Seen(u, l)' /\ Spare(u, l)'
    <3>1. /\ u # t /\ pc[u] = "walk" /\ l = List(u) /\ data'[l] = data[l]
          /\ obj'[u] = obj[u] /\ next'[u] = next[u] /\ firstUnused'[u] = firstUnused[u]
      BY <1>5, <2>4, <2>1, <2>2, <2>3 DEF WalkFound, Walking, List
    <3>2. /\ \A c \in Blocks : OnList(l, c) => object'[c] = object[c]
          /\ \A c \in Blocks : OnList(l, c) /\ threadCount[c] = 0 => threadCount'[c] = 0
      BY <1>5, <3>1, <2>1, <2>2, <2>3 DEF WalkFound, Walking
    <3>3. Seen(u, l) /\ Spare(u, l) /\ data[l] \in Seq(Blocks)
      BY <3>1
    <3> HIDE DEF IInv
    <3> QED
      BY <3>1, <3>2, <3>3, WalkFrame
  <2> QED
    BY <2>4
<1>6. CASE WalkPast(t)
  <2>1. /\ List(t) \in Lists /\ Here(t) \in Blocks /\ OnList(List(t), Here(t))
        /\ pc[t] = "walk" /\ data[List(t)] \in Seq(Blocks) /\ next[t] \in Nat
    BY <1>6, HereBlock DEF WalkPast, Walking
  <2>2. PICK m \in Lists : m = List(t)
    BY <2>1
  <2>3. UNCHANGED <<data, object, obj, threadCount>> /\ next' = [next EXCEPT ![t] = @ + 1]
    BY <1>6 DEF WalkPast
  <2>4. Seen(t, m)'
    <3>1. ASSUME NEW i \in 1 .. Len(data[m]), i < next[t] + 1 PROVE object[data[m][i]] # obj[t]
      <4>1. CASE i < next[t]
        BY <2>1, <2>2, <4>1 DEF Seen
      <4>2. CASE i = next[t]
        BY <1>6, <2>2, <4>2 DEF WalkPast, Here
      <4> QED
        BY <2>1, <3>1, <4>1, <4>2
    <3> QED
      BY <2>3, <3>1 DEF Seen
  <2>5. Spare(t, m)'
    <3>1. Spare(t, m)
      BY <2>1, <2>2
    <3>2. \/ firstUnused'[t] = firstUnused[t]
          \/ firstUnused'[t] = Here(t) /\ threadCount[Here(t)] = 0
      <4>1. \/ firstUnused' = firstUnused
            \/ firstUnused' = [firstUnused EXCEPT ![t] = Here(t)] /\ threadCount[Here(t)] = 0
        BY <1>6 DEF WalkPast
      <4>2. firstUnused \in [Threads -> Blocks \cup {NoBlock}]
        OBVIOUS
      <4> QED
        BY <4>1, <4>2
    <3> QED
      BY <2>1, <2>2, <2>3, <3>1, <3>2 DEF Spare, OnList
  <2>6. ASSUME NEW u \in Threads, u # t, NEW l \in Lists, pc'[u] = "walk", l = List(u)'
        PROVE  Seen(u, l)' /\ Spare(u, l)'
    <3>1. /\ pc[u] = "walk" /\ l = List(u)
          /\ obj'[u] = obj[u] /\ next'[u] = next[u] /\ firstUnused'[u] = firstUnused[u]
      BY <1>6, <2>6 DEF WalkPast, List
    <3> QED
      BY <2>3, <3>1, WalkFrame
  <2>7. List(t)' = List(t)
    BY <2>3 DEF List
  <2> QED
    BY <2>2, <2>4, <2>5, <2>6, <2>7
<1>7. CASE ReleaseNotFound(t)
  <2>1. ASSUME NEW u \in Threads, NEW l \in Lists, pc'[u] = "walk", l = List(u)'
        PROVE  Seen(u, l)' /\ Spare(u, l)'
    <3>1. /\ u # t /\ pc[u] = "walk" /\ l = List(u) /\ data'[l] = data[l]
          /\ obj'[u] = obj[u] /\ next'[u] = next[u] /\ firstUnused'[u] = firstUnused[u]
      BY <1>7, <2>1 DEF ReleaseNotFound, WalkedAll, List
    <3>2. /\ \A c \in Blocks : OnList(l, c) => object'[c] = object[c]
          /\ \A c \in Blocks : OnList(l, c) /\ threadCount[c] = 0 => threadCount'[c] = 0
      BY <1>7, <3>1 DEF ReleaseNotFound, WalkedAll
    <3>3. Seen(u, l) /\ Spare(u, l) /\ data[l] \in Seq(Blocks)
      BY <3>1
    <3> HIDE DEF IInv
    <3> QED
      BY <3>1, <3>2, <3>3, WalkFrame
  <2> QED
    BY <2>1
<1>8. CASE ReuseBlock(t)
  <2> DEFINE b == firstUnused[t]
  <2>1. b \in Blocks /\ Claim(t, b)
    BY <1>8 DEF ReuseBlock
  <2>2. /\ List(t) \in Lists /\ OnList(List(t), b)
        /\ \A u \in Threads : u # t /\ pc[u] \in {"walk", "unlock"} => List(u) # List(t)
    BY <1>8, <2>1, ClaimUnused DEF ReuseBlock
  <2>3. \A l \in Lists : OnList(l, b) => l = List(t)
    BY <2>1, <2>2 DEF Placed
  <2> HIDE DEF b
  <2>4. ASSUME NEW u \in Threads, NEW l \in Lists, pc'[u] = "walk", l = List(u)'
        PROVE  Seen(u, l)' /\ Spare(u, l)'
    <3>1. /\ u # t /\ pc[u] = "walk" /\ l = List(u) /\ data'[l] = data[l]
          /\ obj'[u] = obj[u] /\ next'[u] = next[u] /\ firstUnused'[u] = firstUnused[u]
      BY <1>8, <2>4, <2>1, <2>2, <2>3 DEF ReuseBlock, Claim, List
    <3>2. /\ \A c \in Blocks : OnList(l, c) => object'[c] = object[c]
          /\ \A c \in Blocks : OnList(l, c) /\ threadCount[c] = 0 => threadCount'[c] = 0
      BY <1>8, <3>1, <2>1, <2>2, <2>3 DEF ReuseBlock, Claim
    <3>3. Seen(u, l) /\ Spare(u, l) /\ data[l] \in Seq(Blocks)
      BY <3>1
    <3> HIDE DEF IInv
    <3> QED
      BY <3>1, <3>2, <3>3, WalkFrame
  <2> QED
    BY <2>4
<1>9. CASE NewBlock(t)
  <2>1. PICK b \in Blocks :
          /\ ~InList(b) /\ Claim(t, b)
          /\ data' = [data EXCEPT ![List(t)] = <<b>> \o @]
    BY <1>9 DEF NewBlock
  <2>2. /\ List(t) \in Lists
        /\ \A u \in Threads : u # t /\ pc[u] \in {"walk", "unlock"} => List(u) # List(t)
    BY <1>9, <2>1, ClaimUnused DEF NewBlock
  <2>3. \A l \in Lists : ~OnList(l, b)
    BY <2>1, OnListIn
  <2>4. ASSUME NEW u \in Threads, NEW l \in Lists, pc'[u] = "walk", l = List(u)'
        PROVE  Seen(u, l)' /\ Spare(u, l)'
    <3>1. /\ u # t /\ pc[u] = "walk" /\ l = List(u) /\ data'[l] = data[l]
          /\ obj'[u] = obj[u] /\ next'[u] = next[u] /\ firstUnused'[u] = firstUnused[u]
      BY <1>9, <2>4, <2>1, <2>2, <2>3 DEF Claim, List
    <3>2. /\ \A c \in Blocks : OnList(l, c) => object'[c] = object[c]
          /\ \A c \in Blocks : OnList(l, c) /\ threadCount[c] = 0 => threadCount'[c] = 0
      BY <1>9, <3>1, <2>1, <2>2, <2>3 DEF Claim
    <3>3. Seen(u, l) /\ Spare(u, l) /\ data[l] \in Seq(Blocks)
      BY <3>1
    <3> HIDE DEF IInv
    <3> QED
      BY <3>1, <3>2, <3>3, WalkFrame
  <2> QED
    BY <2>4
<1>10. CASE UnlockList(t)
  <2>1. ASSUME NEW u \in Threads, NEW l \in Lists, pc'[u] = "walk", l = List(u)'
        PROVE  Seen(u, l)' /\ Spare(u, l)'
    <3>1. /\ u # t /\ pc[u] = "walk" /\ l = List(u) /\ data'[l] = data[l]
          /\ obj'[u] = obj[u] /\ next'[u] = next[u] /\ firstUnused'[u] = firstUnused[u]
      BY <1>10, <2>1 DEF UnlockList, List
    <3>2. /\ \A c \in Blocks : OnList(l, c) => object'[c] = object[c]
          /\ \A c \in Blocks : OnList(l, c) /\ threadCount[c] = 0 => threadCount'[c] = 0
      BY <1>10, <3>1 DEF UnlockList
    <3>3. Seen(u, l) /\ Spare(u, l) /\ data[l] \in Seq(Blocks)
      BY <3>1
    <3> HIDE DEF IInv
    <3> QED
      BY <3>1, <3>2, <3>3, WalkFrame
  <2> QED
    BY <2>1
<1>11. CASE ReleaseFails(t)
  <2>1. ASSUME NEW u \in Threads, NEW l \in Lists, pc'[u] = "walk", l = List(u)'
        PROVE  Seen(u, l)' /\ Spare(u, l)'
    <3>1. /\ u # t /\ pc[u] = "walk" /\ l = List(u) /\ data'[l] = data[l]
          /\ obj'[u] = obj[u] /\ next'[u] = next[u] /\ firstUnused'[u] = firstUnused[u]
      BY <1>11, <2>1 DEF ReleaseFails, Return, List
    <3>2. /\ \A c \in Blocks : OnList(l, c) => object'[c] = object[c]
          /\ \A c \in Blocks : OnList(l, c) /\ threadCount[c] = 0 => threadCount'[c] = 0
      BY <1>11, <3>1 DEF ReleaseFails, Return
    <3>3. Seen(u, l) /\ Spare(u, l) /\ data[l] \in Seq(Blocks)
      BY <3>1
    <3> HIDE DEF IInv
    <3> QED
      BY <3>1, <3>2, <3>3, WalkFrame
  <2> QED
    BY <2>1
<1>12. CASE SaveInCache(t)
  <2>1. ASSUME NEW u \in Threads, NEW l \in Lists, pc'[u] = "walk", l = List(u)'
        PROVE  Seen(u, l)' /\ Spare(u, l)'
    <3>1. /\ u # t /\ pc[u] = "walk" /\ l = List(u) /\ data'[l] = data[l]
          /\ obj'[u] = obj[u] /\ next'[u] = next[u] /\ firstUnused'[u] = firstUnused[u]
      BY <1>12, <2>1 DEF SaveInCache, List
    <3>2. /\ \A c \in Blocks : OnList(l, c) => object'[c] = object[c]
          /\ \A c \in Blocks : OnList(l, c) /\ threadCount[c] = 0 => threadCount'[c] = 0
      BY <1>12, <3>1 DEF SaveInCache
    <3>3. Seen(u, l) /\ Spare(u, l) /\ data[l] \in Seq(Blocks)
      BY <3>1
    <3> HIDE DEF IInv
    <3> QED
      BY <3>1, <3>2, <3>3, WalkFrame
  <2> QED
    BY <2>1
<1>13. CASE MutexLock(t)
  <2>1. ASSUME NEW u \in Threads, NEW l \in Lists, pc'[u] = "walk", l = List(u)'
        PROVE  Seen(u, l)' /\ Spare(u, l)'
    <3>1. /\ u # t /\ pc[u] = "walk" /\ l = List(u) /\ data'[l] = data[l]
          /\ obj'[u] = obj[u] /\ next'[u] = next[u] /\ firstUnused'[u] = firstUnused[u]
      BY <1>13, <2>1 DEF MutexLock, Return, List
    <3>2. /\ \A c \in Blocks : OnList(l, c) => object'[c] = object[c]
          /\ \A c \in Blocks : OnList(l, c) /\ threadCount[c] = 0 => threadCount'[c] = 0
      BY <1>13, <3>1 DEF MutexLock, Return
    <3>3. Seen(u, l) /\ Spare(u, l) /\ data[l] \in Seq(Blocks)
      BY <3>1
    <3> HIDE DEF IInv
    <3> QED
      BY <3>1, <3>2, <3>3, WalkFrame
  <2> QED
    BY <2>1
<1>14. CASE TryUnlock(t)
  <2>1. ASSUME NEW u \in Threads, NEW l \in Lists, pc'[u] = "walk", l = List(u)'
        PROVE  Seen(u, l)' /\ Spare(u, l)'
    <3>1. /\ u # t /\ pc[u] = "walk" /\ l = List(u) /\ data'[l] = data[l]
          /\ obj'[u] = obj[u] /\ next'[u] = next[u] /\ firstUnused'[u] = firstUnused[u]
      BY <1>14, <2>1 DEF TryUnlock, Return, List
    <3>2. /\ \A c \in Blocks : OnList(l, c) => object'[c] = object[c]
          /\ \A c \in Blocks : OnList(l, c) /\ threadCount[c] = 0 => threadCount'[c] = 0
      BY <1>14, <3>1 DEF TryUnlock, Return
    <3>3. Seen(u, l) /\ Spare(u, l) /\ data[l] \in Seq(Blocks)
      BY <3>1
    <3> HIDE DEF IInv
    <3> QED
      BY <3>1, <3>2, <3>3, WalkFrame
  <2> QED
    BY <2>1
<1>15. CASE \E o \in Objects : Enter(t, o)
  <2>1. ASSUME NEW u \in Threads, NEW l \in Lists, pc'[u] = "walk", l = List(u)'
        PROVE  Seen(u, l)' /\ Spare(u, l)'
    <3>1. /\ u # t /\ pc[u] = "walk" /\ l = List(u) /\ data'[l] = data[l]
          /\ obj'[u] = obj[u] /\ next'[u] = next[u] /\ firstUnused'[u] = firstUnused[u]
      BY <1>15, <2>1 DEF Enter, List
    <3>2. /\ \A c \in Blocks : OnList(l, c) => object'[c] = object[c]
          /\ \A c \in Blocks : OnList(l, c) /\ threadCount[c] = 0 => threadCount'[c] = 0
      BY <1>15, <3>1 DEF Enter
    <3>3. Seen(u, l) /\ Spare(u, l) /\ data[l] \in Seq(Blocks)
      BY <3>1
    <3> HIDE DEF IInv
    <3> QED
      BY <3>1, <3>2, <3>3, WalkFrame
  <2> QED
    BY <2>1
<1>16. CASE \E o \in Objects : Exit(t, o)
  <2>1. ASSUME NEW u \in Threads, NEW l \in Lists, pc'[u] = "walk", l = List(u)'
        PROVE  Seen(u, l)' /\ Spare(u, l)'
    <3>1. /\ u # t /\ pc[u] = "walk" /\ l = List(u) /\ data'[l] = data[l]
          /\ obj'[u] = obj[u] /\ next'[u] = next[u] /\ firstUnused'[u] = firstUnused[u]
      BY <1>16, <2>1 DEF Exit, List
    <3>2. /\ \A c \in Blocks : OnList(l, c) => object'[c] = object[c]
          /\ \A c \in Blocks : OnList(l, c) /\ threadCount[c] = 0 => threadCount'[c] = 0
      BY <1>16, <3>1 DEF Exit
    <3>3. Seen(u, l) /\ Spare(u, l) /\ data[l] \in Seq(Blocks)
      BY <3>1
    <3> HIDE DEF IInv
    <3> QED
      BY <3>1, <3>2, <3>3, WalkFrame
  <2> QED
    BY <2>1
<1>17. CASE \E o \in Objects : UnbalancedExit(t, o)
  <2>1. ASSUME NEW u \in Threads, NEW l \in Lists, pc'[u] = "walk", l = List(u)'
        PROVE  Seen(u, l)' /\ Spare(u, l)'
    <3>1. /\ u # t /\ pc[u] = "walk" /\ l = List(u) /\ data'[l] = data[l]
          /\ obj'[u] = obj[u] /\ next'[u] = next[u] /\ firstUnused'[u] = firstUnused[u]
      BY <1>17, <2>1 DEF UnbalancedExit, List
    <3>2. /\ \A c \in Blocks : OnList(l, c) => object'[c] = object[c]
          /\ \A c \in Blocks : OnList(l, c) /\ threadCount[c] = 0 => threadCount'[c] = 0
      BY <1>17, <3>1 DEF UnbalancedExit
    <3>3. Seen(u, l) /\ Spare(u, l) /\ data[l] \in Seq(Blocks)
      BY <3>1
    <3> HIDE DEF IInv
    <3> QED
      BY <3>1, <3>2, <3>3, WalkFrame
  <2> QED
    BY <2>1
<1> QED
  BY <1>1, <1>2, <1>3, <1>4, <1>5, <1>6, <1>7, <1>8, <1>9, <1>10, <1>11, <1>12,
     <1>13, <1>14, <1>15, <1>16, <1>17 DEF Act, Step

\* What is known after a miss, and of the block that was found.
LEMMA MissedStep ==
  ASSUME IInv, NEW t \in Threads, Act(t)
  PROVE  Missed'
<1> USE ConstantTypes DEF IInv, Typed, PCs, Frame, Goto, shared, walkVars, Missed
<1>1. CASE AcquireCached(t)
  BY <1>1 DEF AcquireCached, Hits
<1>2. CASE ReleaseCached(t)
  BY <1>2 DEF ReleaseCached, Hits
<1>3. CASE NotCached(t)
  BY <1>3 DEF NotCached, Hits
<1>4. CASE LockList(t)
  BY <1>4 DEF LockList
<1>5. CASE WalkFound(t)
  <2>1. Here(t) \in Blocks /\ object[Here(t)] = obj[t] /\ pc[t] = "walk"
    BY <1>5, HereBlock DEF WalkFound, Walking
  <2> QED
    BY <1>5, <2>1 DEF WalkFound
<1>6. CASE WalkPast(t)
  BY <1>6 DEF WalkPast, Walking, Here
<1>7. CASE ReleaseNotFound(t)
  BY <1>7 DEF ReleaseNotFound, WalkedAll
<1>8. CASE ReuseBlock(t)
  <2>0. firstUnused[t] \in Blocks
    BY <1>8 DEF ReuseBlock
  <2>1. PICK b \in Blocks :
          b = firstUnused[t] /\ Claim(t, b) /\ UNCHANGED <<data, mutex, depth>>
    BY <1>8, <2>0 DEF ReuseBlock
  <2>2. /\ threadCount[b] = 0 /\ obj[t] \in Objects
        /\ \A c \in Blocks : InList(c) => object[c] # obj[t]
    BY <1>8, <2>1, ClaimUnused DEF ReuseBlock
  <2>3. InList(b)
    BY <1>8, <2>1, ClaimUnused, OnListIn DEF ReuseBlock
  <2>4. \A u \in Threads :
          /\ lockCount[u][b] = 0
          /\ pc[u] \in {"unlock", "save", "mutexLock"} => result[u] # b
    BY <2>1, <2>2, Unused
  <2>5. /\ object' = [object EXCEPT ![b] = obj[t]] /\ result' = [result EXCEPT ![t] = b]
        /\ pc' = [pc EXCEPT ![t] = "unlock"] /\ UNCHANGED <<lockCount, obj, why>>
        /\ pc[t] = "walk"
    BY <1>8, <2>1 DEF Claim, ReuseBlock, WalkedAll
  <2>6. \A c \in Blocks \ {b} : object'[c] = object[c]
    BY <2>1, <2>5
  <2>7. ASSUME NEW u \in Threads, NEW c \in Blocks, lockCount[u][c] > 0
        PROVE  object'[c] = object[c]
    <3>1. lockCount[u][b] = 0
      BY <2>4
    <3> QED
      BY <2>7, <2>6, <3>1
  <2>8. \A u \in Threads : pc[u] \in {"unlock", "save", "mutexLock"} /\ result[u] # NoBlock
          => object'[result[u]] = object[result[u]]
    BY <2>4, <2>6
  <2>9. object'[b] = obj[t] /\ result'[t] = b
    BY <2>1, <2>5
  <2> QED
    BY <2>5, <2>7, <2>8, <2>9
<1>9. CASE NewBlock(t)
  <2>1. PICK b \in Blocks :
          /\ ~InList(b) /\ Claim(t, b)
          /\ data' = [data EXCEPT ![List(t)] = <<b>> \o @]
    BY <1>9 DEF NewBlock
  <2>2. /\ threadCount[b] = 0 /\ obj[t] \in Objects /\ List(t) \in Lists
        /\ \A c \in Blocks : InList(c) => object[c] # obj[t]
    BY <1>9, <2>1, ClaimUnused DEF NewBlock
  <2>3. UNCHANGED <<mutex, depth>> /\ pc[t] = "walk"
    BY <1>9 DEF NewBlock, WalkedAll
  <2>4. \A u \in Threads :
          /\ lockCount[u][b] = 0
          /\ pc[u] \in {"unlock", "save", "mutexLock"} => result[u] # b
    BY <2>1, <2>2, Unused
  <2>5. /\ object' = [object EXCEPT ![b] = obj[t]] /\ result' = [result EXCEPT ![t] = b]
        /\ pc' = [pc EXCEPT ![t] = "unlock"] /\ UNCHANGED <<lockCount, obj, why>>
        /\ pc[t] = "walk"
    BY <1>9, <2>1 DEF Claim, NewBlock, WalkedAll
  <2>6. \A c \in Blocks \ {b} : object'[c] = object[c]
    BY <2>1, <2>5
  <2>7. ASSUME NEW u \in Threads, NEW c \in Blocks, lockCount[u][c] > 0
        PROVE  object'[c] = object[c]
    <3>1. lockCount[u][b] = 0
      BY <2>4
    <3> QED
      BY <2>7, <2>6, <3>1
  <2>8. \A u \in Threads : pc[u] \in {"unlock", "save", "mutexLock"} /\ result[u] # NoBlock
          => object'[result[u]] = object[result[u]]
    BY <2>4, <2>6
  <2>9. object'[b] = obj[t] /\ result'[t] = b
    BY <2>1, <2>5
  <2> QED
    BY <2>5, <2>7, <2>8, <2>9
<1>10. CASE UnlockList(t)
  BY <1>10 DEF UnlockList
<1>11. CASE ReleaseFails(t)
  BY <1>11 DEF ReleaseFails, Return
<1>12. CASE SaveInCache(t)
  BY <1>12 DEF SaveInCache
<1>13. CASE MutexLock(t)
  BY <1>13 DEF MutexLock, Return
<1>14. CASE TryUnlock(t)
  BY <1>14 DEF TryUnlock, Return
<1>15. CASE \E o \in Objects : Enter(t, o)
  BY <1>15 DEF Enter
<1>16. CASE \E o \in Objects : Exit(t, o)
  BY <1>16 DEF Exit
<1>17. CASE \E o \in Objects : UnbalancedExit(t, o)
  BY <1>17 DEF UnbalancedExit
<1> QED
  BY <1>1, <1>2, <1>3, <1>4, <1>5, <1>6, <1>7, <1>8, <1>9, <1>10, <1>11, <1>12,
     <1>13, <1>14, <1>15, <1>16, <1>17 DEF Act, Step

\* The counts of the caches.
LEMMA CountedStep ==
  ASSUME IInv, NEW t \in Threads, Act(t)
  PROVE  Counted'
<1> USE ConstantTypes DEF IInv, Typed, PCs, Frame, Goto, shared, walkVars, Counted, Locked, Due
<1>1. CASE AcquireCached(t)
  BY <1>1 DEF AcquireCached, Hits
<1>2. CASE ReleaseCached(t)
  BY <1>2 DEF ReleaseCached, Hits
<1>3. CASE NotCached(t)
  BY <1>3 DEF NotCached, Hits
<1>4. CASE LockList(t)
  BY <1>4 DEF LockList
<1>5. CASE WalkFound(t)
  <2>1. Here(t) \in Blocks /\ pc[t] = "walk"
    BY <1>5, HereBlock DEF WalkFound, Walking
  <2>2. /\ result' = [result EXCEPT ![t] = Here(t)] /\ pc' = [pc EXCEPT ![t] = "unlock"]
        /\ UNCHANGED <<mutex, depth, lockCount>>
    BY <1>5 DEF WalkFound
  <2>3. \A u \in Threads, c \in Blocks : Locked(u, c)' = Locked(u, c) /\ Due(u, c)' = Due(u, c)
    BY <2>1, <2>2
  <2> HIDE DEF Locked, Due
  <2> QED
    BY <2>2, <2>3
<1>6. CASE WalkPast(t)
  BY <1>6 DEF WalkPast, Walking, Here
<1>7. CASE ReleaseNotFound(t)
  BY <1>7 DEF ReleaseNotFound, WalkedAll
<1>8. CASE ReuseBlock(t)
  BY <1>8 DEF ReuseBlock, WalkedAll, Claim
<1>9. CASE NewBlock(t)
  BY <1>9 DEF NewBlock, WalkedAll, Claim
<1>10. CASE UnlockList(t)
  BY <1>10 DEF UnlockList
<1>11. CASE ReleaseFails(t)
  BY <1>11 DEF ReleaseFails, Return
<1>12. CASE SaveInCache(t)
  BY <1>12 DEF SaveInCache, Missed
<1>13. CASE MutexLock(t)
  BY <1>13, SMTT(30) DEF MutexLock, Return
<1>14. CASE TryUnlock(t)
  <2> DEFINE b == result[t]
  <2>1. b \in Blocks /\ pc[t] = "mutexUnlock" /\ mutex[b] = t /\ depth[b] # 0
    <3>1. b \in Blocks /\ pc[t] = "mutexUnlock"
      BY <1>14 DEF TryUnlock
    <3>2. Due(t, b) = -1
      BY <3>1
    <3>3. /\ lockCount[t][b] = Locked(t, b) + Due(t, b)
          /\ lockCount[t][b] \in Nat /\ Locked(t, b) \in Nat
      <4>1. lockCount[t][b] \in Nat /\ Locked(t, b) \in Nat
        BY <3>1
      <4> HIDE DEF Locked, Due
      <4> QED
        BY <3>1, <4>1
    <3>4. Locked(t, b) # 0
      <4> HIDE DEF Locked, Due, b, IInv
      <4> QED
        BY <3>2, <3>3
    <3>5. mutex[b] = t
      BY <3>4
    <3> QED
      BY <3>1, <3>5
  <2>2. /\ depth' = [depth EXCEPT ![b] = @ - 1] /\ UNCHANGED lockCount
        /\ mutex' = [mutex EXCEPT ![b] = IF depth[b] = 1 THEN NoThread ELSE t]
        /\ pc' = [pc EXCEPT ![t] = "idle"] /\ result' = [result EXCEPT ![t] = NoBlock]
    BY <1>14, <2>1 DEF TryUnlock, Return
  <2>3. \A c \in Blocks : (mutex'[c] = NoThread) <=> (depth'[c] = 0)
    BY <2>1, <2>2
  <2>4. ASSUME NEW u \in Threads, NEW c \in Blocks
        PROVE  (Locked(u, c) + Due(u, c))' = Locked(u, c) + Due(u, c)
    <3>1. CASE u = t /\ c = b
      <4>1. Locked(u, c) = depth[b] /\ Due(u, c) = -1 /\ Due(u, c)' = 0
        BY <2>1, <2>2, <3>1
      <4>2. Locked(u, c)' = depth[b] - 1
        BY <2>1, <2>2, <3>1
      <4> HIDE DEF Locked, Due
      <4> QED
        BY <2>1, <4>1, <4>2
    <3>2. CASE u = t /\ c # b
      BY <2>1, <2>2, <3>2
    <3>3. CASE u # t
      BY <2>1, <2>2, <3>3
    <3> QED
      BY <3>1, <3>2, <3>3
  <2> HIDE DEF b, Locked, Due
  <2> QED
    BY <2>2, <2>3, <2>4
<1>15. CASE \E o \in Objects : Enter(t, o)
  BY <1>15 DEF Enter
<1>16. CASE \E o \in Objects : Exit(t, o)
  BY <1>16 DEF Exit
<1>17. CASE \E o \in Objects : UnbalancedExit(t, o)
  BY <1>17 DEF UnbalancedExit
<1> QED
  BY <1>1, <1>2, <1>3, <1>4, <1>5, <1>6, <1>7, <1>8, <1>9, <1>10, <1>11, <1>12,
     <1>13, <1>14, <1>15, <1>16, <1>17 DEF Act, Step

\* A block is claimed only for an object that has none.
LEMMA OneBlockStep ==
  ASSUME IInv, NEW t \in Threads, Act(t)
  PROVE  OneBlockPerObject'
<1> USE ConstantTypes, SameLists DEF IInv, Typed, PCs, Frame, Goto, shared, walkVars, OneBlockPerObject
<1>1. CASE AcquireCached(t)
  BY <1>1 DEF AcquireCached, Hits
<1>2. CASE ReleaseCached(t)
  BY <1>2 DEF ReleaseCached, Hits
<1>3. CASE NotCached(t)
  BY <1>3 DEF NotCached, Hits
<1>4. CASE LockList(t)
  BY <1>4 DEF LockList
<1>5. CASE WalkFound(t)
  BY <1>5 DEF WalkFound, Walking, Here
<1>6. CASE WalkPast(t)
  BY <1>6 DEF WalkPast, Walking, Here
<1>7. CASE ReleaseNotFound(t)
  BY <1>7 DEF ReleaseNotFound, WalkedAll
<1>8. CASE ReuseBlock(t)
  <2>0. firstUnused[t] \in Blocks
    BY <1>8 DEF ReuseBlock
  <2>1. PICK b \in Blocks :
          b = firstUnused[t] /\ Claim(t, b) /\ UNCHANGED <<data, mutex, depth>>
    BY <1>8, <2>0 DEF ReuseBlock
  <2>2. /\ threadCount[b] = 0 /\ obj[t] \in Objects
        /\ \A c \in Blocks : InList(c) => object[c] # obj[t]
    BY <1>8, <2>1, ClaimUnused DEF ReuseBlock
  <2>3. InList(b)
    BY <1>8, <2>1, ClaimUnused, OnListIn DEF ReuseBlock
  <2>4. /\ object' = [object EXCEPT ![b] = obj[t]]
        /\ \A c \in Blocks : InList(c)' => InList(c) \/ c = b
    BY <2>1 DEF Claim
  <2> QED
    BY <2>1, <2>2, <2>4
<1>9. CASE NewBlock(t)
  <2>1. PICK b \in Blocks :
          /\ ~InList(b) /\ Claim(t, b)
          /\ data' = [data EXCEPT ![List(t)] = <<b>> \o @]
    BY <1>9 DEF NewBlock
  <2>2. /\ threadCount[b] = 0 /\ obj[t] \in Objects /\ List(t) \in Lists
        /\ \A c \in Blocks : InList(c) => object[c] # obj[t]
    BY <1>9, <2>1, ClaimUnused DEF NewBlock
  <2>3. UNCHANGED <<mutex, depth>> /\ pc[t] = "walk"
    BY <1>9 DEF NewBlock, WalkedAll
  <2>4. /\ object' = [object EXCEPT ![b] = obj[t]]
        /\ \A c \in Blocks : InList(c)' => InList(c) \/ c = b
    BY <2>1, <2>2, MoreLists DEF Claim
  <2> QED
    BY <2>1, <2>2, <2>4
<1>10. CASE UnlockList(t)
  BY <1>10 DEF UnlockList
<1>11. CASE ReleaseFails(t)
  BY <1>11 DEF ReleaseFails, Return
<1>12. CASE SaveInCache(t)
  BY <1>12 DEF SaveInCache
<1>13. CASE MutexLock(t)
  BY <1>13 DEF MutexLock, Return
<1>14. CASE TryUnlock(t)
  BY <1>14 DEF TryUnlock, Return
<1>15. CASE \E o \in Objects : Enter(t, o)
  BY <1>15 DEF Enter
<1>16. CASE \E o \in Objects : Exit(t, o)
  BY <1>16 DEF Exit
<1>17. CASE \E o \in Objects : UnbalancedExit(t, o)
  BY <1>17 DEF UnbalancedExit
<1> QED
  BY <1>1, <1>2, <1>3, <1>4, <1>5, <1>6, <1>7, <1>8, <1>9, <1>10, <1>11, <1>12,
     <1>13, <1>14, <1>15, <1>16, <1>17 DEF Act, Step


\* The counts still cover the users when no block gains one.
LEMMA CoverSame ==
  ASSUME IInv, \A b \in Blocks : Users(b)' \subseteq Users(b), UNCHANGED threadCount
  PROVE  ThreadCountCovers'
<1> SUFFICES ASSUME NEW b \in Blocks PROVE threadCount'[b] >= Cardinality(Users(b)')
  BY DEF ThreadCountCovers
<1>1. Cardinality(Users(b)') <= Cardinality(Users(b)) /\ Cardinality(Users(b)') \in Nat
  BY UserCounts, FS_Subset, FS_CardinalityType
<1> QED
  BY <1>1, UserCounts

\* One block changes its count and its users.
LEMMA CoverOne ==
  ASSUME IInv, NEW b \in Blocks, NEW n \in Nat, threadCount' = [threadCount EXCEPT ![b] = n],
         n >= Cardinality(Users(b)'),
         \A c \in Blocks \ {b} : Users(c)' \subseteq Users(c)
  PROVE  ThreadCountCovers'
<1> SUFFICES ASSUME NEW c \in Blocks PROVE threadCount'[c] >= Cardinality(Users(c)')
  BY DEF ThreadCountCovers
<1>1. threadCount \in [Blocks -> Nat]
  BY DEF IInv, Typed
<1>2. CASE c = b
  BY <1>1, <1>2
<1>3. CASE c # b
  <2>1. Cardinality(Users(c)') <= Cardinality(Users(c)) /\ Cardinality(Users(c)') \in Nat
    BY <1>3, UserCounts, FS_Subset, FS_CardinalityType
  <2> QED
    BY <1>1, <1>3, <2>1, UserCounts
<1> QED
  BY <1>2, <1>3

\* Thread t is the only new user, or the only one that left.
LEMMA OneUser ==
  ASSUME IInv, NEW t \in Threads, NEW b \in Blocks
  PROVE  /\ Users(b)' \subseteq Users(b) \cup {t} =>
              Cardinality(Users(b)') <= Cardinality(Users(b)) + 1
         /\ Users(b)' \subseteq {t} => Cardinality(Users(b)') <= 1
         /\ t \in Users(b) /\ Users(b)' \subseteq Users(b) \ {t} =>
              Cardinality(Users(b)') <= Cardinality(Users(b)) - 1
<1> DEFINE U == Users(b)
           V == Users(b)'
<1>1. IsFiniteSet(U) /\ Cardinality(U) \in Nat
  BY UserCounts
<1> HIDE DEF U, V
<1>2. /\ IsFiniteSet(U \cup {t}) /\ IsFiniteSet(U \ {t}) /\ IsFiniteSet({t})
      /\ Cardinality(U \cup {t}) <= Cardinality(U) + 1 /\ Cardinality({t}) = 1
      /\ t \in U => Cardinality(U \ {t}) = Cardinality(U) - 1
  <2>1. /\ IsFiniteSet(U \cup {t})
        /\ Cardinality(U \cup {t}) = IF t \in U THEN Cardinality(U) ELSE Cardinality(U) + 1
    BY <1>1, FS_AddElement
  <2>2. /\ IsFiniteSet(U \ {t})
        /\ Cardinality(U \ {t}) = IF t \in U THEN Cardinality(U) - 1 ELSE Cardinality(U)
    BY <1>1, FS_RemoveElement
  <2>3. IsFiniteSet({t}) /\ Cardinality({t}) = 1
    BY FS_Singleton
  <2> QED
    BY <1>1, <2>1, <2>2, <2>3
<1>3. /\ Cardinality(U \cup {t}) \in Nat /\ Cardinality(U \ {t}) \in Nat
      /\ V \subseteq U \cup {t} => Cardinality(V) \in Nat
      /\ V \subseteq U \cup {t} => Cardinality(V) <= Cardinality(U \cup {t})
      /\ V \subseteq {t} => Cardinality(V) <= Cardinality({t})
      /\ V \subseteq U \ {t} => Cardinality(V) <= Cardinality(U \ {t})
  BY <1>2, FS_Subset, FS_CardinalityType
<1>4. /\ V \subseteq U \cup {t} => Cardinality(V) <= Cardinality(U) + 1
      /\ V \subseteq {t} => Cardinality(V) <= 1
      /\ t \in U /\ V \subseteq U \ {t} => Cardinality(V) <= Cardinality(U) - 1
  BY <1>1, <1>2, <1>3
<1> QED
  BY <1>4 DEF U, V


\* The users of a block in the next state are finitely many too.
LEMMA UsersFinite == \A b \in Blocks : Cardinality(Users(b)') \in Nat
<1> SUFFICES ASSUME NEW b \in Blocks PROVE Cardinality(Users(b)') \in Nat
  OBVIOUS
<1>1. IsFiniteSet(Threads) /\ Users(b)' \subseteq Threads
  BY ConstantTypes DEF Users
<1> QED
  BY <1>1, FS_Subset, FS_CardinalityType

\* The counts cover the users.
LEMMA CoversStep ==
  ASSUME IInv, NEW t \in Threads, Act(t)
  PROVE  ThreadCountCovers'
<1> USE ConstantTypes DEF IInv, Typed, PCs, Frame, Goto, shared, walkVars, Users
<1>1. CASE AcquireCached(t)
  <2>1. UNCHANGED threadCount /\ \A b \in Blocks : Users(b)' \subseteq Users(b)
    BY <1>1 DEF AcquireCached, Hits
  <2> QED
    BY <2>1, CoverSame
<1>2. CASE ReleaseCached(t)
  <2>1. PICK b \in Hits(t) :
          /\ result' = [result EXCEPT ![t] = b]
          /\ lockCount' = [lockCount EXCEPT ![t][b] = @ - 1]
          /\ threadCount' = IF lockCount[t][b] = 1
                            THEN [threadCount EXCEPT ![b] = @ - 1] ELSE threadCount
    BY <1>2 DEF ReleaseCached
  <2>2. /\ b \in Blocks /\ lockCount[t][b] > 0 /\ t \in Users(b) /\ pc[t] = "lookup"
        /\ pc' = [pc EXCEPT ![t] = "mutexUnlock"]
    BY <1>2 DEF ReleaseCached, Hits
  <2>3. \A c \in Blocks : Users(c)' \subseteq Users(c)
    BY <2>1, <2>2
  <2>4. CASE lockCount[t][b] = 1
    <3>1. Users(b)' \subseteq Users(b) \ {t}
      BY <2>1, <2>2, <2>4
    <3> HIDE DEF Users
    <3>2. /\ Cardinality(Users(b)') <= Cardinality(Users(b)) - 1
          /\ threadCount[b] >= Cardinality(Users(b)) /\ threadCount[b] \in Nat
          /\ Cardinality(Users(b)) \in Nat /\ Cardinality(Users(b)') \in Nat
          /\ threadCount[b] > 0
      BY <2>2, <3>1, OneUser, UserCounts, UsersFinite
    <3>3. threadCount[b] - 1 >= Cardinality(Users(b)') /\ threadCount[b] - 1 \in Nat
      BY <3>2
    <3>4. threadCount' = [threadCount EXCEPT ![b] = threadCount[b] - 1]
      BY <2>1, <2>4
    <3> QED
      BY <2>2, <2>3, <3>3, <3>4, CoverOne
  <2>5. CASE lockCount[t][b] # 1
    <3> HIDE DEF Users
    <3> QED
      BY <2>1, <2>3, <2>5, CoverSame
  <2> QED
    BY <2>4, <2>5
<1>3. CASE NotCached(t)
  <2>1. UNCHANGED threadCount /\ \A b \in Blocks : Users(b)' \subseteq Users(b)
    BY <1>3 DEF NotCached, Hits
  <2> QED
    BY <2>1, CoverSame
<1>4. CASE LockList(t)
  <2>1. UNCHANGED threadCount /\ \A b \in Blocks : Users(b)' \subseteq Users(b)
    BY <1>4 DEF LockList
  <2> QED
    BY <2>1, CoverSame
<1>5. CASE WalkFound(t)
  <2>1. Here(t) \in Blocks /\ pc[t] = "walk"
    BY <1>5, HereBlock DEF WalkFound, Walking
  <2>2. PICK b \in Blocks : b = Here(t)
    BY <2>1
  <2>3. /\ result' = [result EXCEPT ![t] = b] /\ pc' = [pc EXCEPT ![t] = "unlock"]
        /\ threadCount' = [threadCount EXCEPT ![b] = threadCount[b] + 1]
        /\ UNCHANGED lockCount
    BY <1>5, <2>2 DEF WalkFound
  <2>4. /\ Users(b)' \subseteq Users(b) \cup {t}
        /\ \A c \in Blocks \ {b} : Users(c)' \subseteq Users(c)
    BY <2>1, <2>3
  <2> HIDE DEF Users
  <2>5. /\ Cardinality(Users(b)') <= Cardinality(Users(b)) + 1
        /\ threadCount[b] >= Cardinality(Users(b)) /\ threadCount[b] \in Nat
        /\ Cardinality(Users(b)) \in Nat /\ Cardinality(Users(b)') \in Nat
    BY <2>4, OneUser, UserCounts, UsersFinite
  <2>6. threadCount[b] + 1 >= Cardinality(Users(b)') /\ threadCount[b] + 1 \in Nat
    BY <2>5
  <2> QED
    BY <2>3, <2>4, <2>6, CoverOne
<1>6. CASE WalkPast(t)
  <2>1. UNCHANGED threadCount /\ \A b \in Blocks : Users(b)' \subseteq Users(b)
    BY <1>6 DEF WalkPast, Walking, Here
  <2> QED
    BY <2>1, CoverSame
<1>7. CASE ReleaseNotFound(t)
  <2>1. UNCHANGED threadCount /\ \A b \in Blocks : Users(b)' \subseteq Users(b)
    BY <1>7 DEF ReleaseNotFound, WalkedAll
  <2> QED
    BY <2>1, CoverSame
<1>8. CASE ReuseBlock(t)
  <2>0. firstUnused[t] \in Blocks
    BY <1>8 DEF ReuseBlock
  <2>1. PICK b \in Blocks :
          b = firstUnused[t] /\ Claim(t, b) /\ UNCHANGED <<data, mutex, depth>>
    BY <1>8, <2>0 DEF ReuseBlock
  <2>2. /\ threadCount[b] = 0 /\ obj[t] \in Objects
        /\ \A c \in Blocks : InList(c) => object[c] # obj[t]
    BY <1>8, <2>1, ClaimUnused DEF ReuseBlock
  <2>3. InList(b)
    BY <1>8, <2>1, ClaimUnused, OnListIn DEF ReuseBlock
  <2>4. \A u \in Threads :
          /\ lockCount[u][b] = 0
          /\ pc[u] \in {"unlock", "save", "mutexLock"} => result[u] # b
    BY <2>1, <2>2, Unused
  <2>5. /\ result' = [result EXCEPT ![t] = b] /\ pc' = [pc EXCEPT ![t] = "unlock"]
        /\ threadCount' = [threadCount EXCEPT ![b] = 1]
        /\ UNCHANGED lockCount /\ pc[t] = "walk"
    BY <1>8, <2>1 DEF Claim, ReuseBlock, WalkedAll
  <2>6. Users(b)' \subseteq {t} /\ \A c \in Blocks \ {b} : Users(c)' \subseteq Users(c)
    BY <2>1, <2>4, <2>5
  <2>7. Cardinality(Users(b)') <= 1 /\ Cardinality(Users(b)') \in Nat
    <3> HIDE DEF Users
    <3> QED
      BY <2>1, <2>6, OneUser, UsersFinite
  <2> HIDE DEF Users
  <2>8. 1 >= Cardinality(Users(b)')
    BY <2>7
  <2> QED
    BY <2>1, <2>5, <2>6, <2>8, CoverOne
<1>9. CASE NewBlock(t)
  <2>1. PICK b \in Blocks :
          /\ ~InList(b) /\ Claim(t, b)
          /\ data' = [data EXCEPT ![List(t)] = <<b>> \o @]
    BY <1>9 DEF NewBlock
  <2>2. /\ threadCount[b] = 0 /\ obj[t] \in Objects /\ List(t) \in Lists
        /\ \A c \in Blocks : InList(c) => object[c] # obj[t]
    BY <1>9, <2>1, ClaimUnused DEF NewBlock
  <2>3. UNCHANGED <<mutex, depth>> /\ pc[t] = "walk"
    BY <1>9 DEF NewBlock, WalkedAll
  <2>4. \A u \in Threads :
          /\ lockCount[u][b] = 0
          /\ pc[u] \in {"unlock", "save", "mutexLock"} => result[u] # b
    BY <2>1, <2>2, Unused
  <2>5. /\ result' = [result EXCEPT ![t] = b] /\ pc' = [pc EXCEPT ![t] = "unlock"]
        /\ threadCount' = [threadCount EXCEPT ![b] = 1]
        /\ UNCHANGED lockCount /\ pc[t] = "walk"
    BY <1>9, <2>1 DEF Claim, NewBlock, WalkedAll
  <2>6. Users(b)' \subseteq {t} /\ \A c \in Blocks \ {b} : Users(c)' \subseteq Users(c)
    BY <2>1, <2>4, <2>5
  <2>7. Cardinality(Users(b)') <= 1 /\ Cardinality(Users(b)') \in Nat
    <3> HIDE DEF Users
    <3> QED
      BY <2>1, <2>6, OneUser, UsersFinite
  <2> HIDE DEF Users
  <2>8. 1 >= Cardinality(Users(b)')
    BY <2>7
  <2> QED
    BY <2>1, <2>5, <2>6, <2>8, CoverOne
<1>10. CASE UnlockList(t)
  <2>1. UNCHANGED threadCount /\ \A b \in Blocks : Users(b)' \subseteq Users(b)
    BY <1>10 DEF UnlockList
  <2> QED
    BY <2>1, CoverSame
<1>11. CASE ReleaseFails(t)
  <2>1. UNCHANGED threadCount /\ \A b \in Blocks : Users(b)' \subseteq Users(b)
    BY <1>11 DEF ReleaseFails, Return
  <2> QED
    BY <2>1, CoverSame
<1>12. CASE SaveInCache(t)
  <2>1. UNCHANGED threadCount /\ \A b \in Blocks : Users(b)' \subseteq Users(b)
    BY <1>12 DEF SaveInCache
  <2> QED
    BY <2>1, CoverSame
<1>13. CASE MutexLock(t)
  <2>1. UNCHANGED threadCount /\ \A b \in Blocks : Users(b)' \subseteq Users(b)
    BY <1>13 DEF MutexLock, Return
  <2> QED
    BY <2>1, CoverSame
<1>14. CASE TryUnlock(t)
  <2>1. UNCHANGED threadCount /\ \A b \in Blocks : Users(b)' \subseteq Users(b)
    BY <1>14 DEF TryUnlock, Return
  <2> QED
    BY <2>1, CoverSame
<1>15. CASE \E o \in Objects : Enter(t, o)
  <2>1. UNCHANGED threadCount /\ \A b \in Blocks : Users(b)' \subseteq Users(b)
    BY <1>15 DEF Enter
  <2> QED
    BY <2>1, CoverSame
<1>16. CASE \E o \in Objects : Exit(t, o)
  <2>1. UNCHANGED threadCount /\ \A b \in Blocks : Users(b)' \subseteq Users(b)
    BY <1>16 DEF Exit
  <2> QED
    BY <2>1, CoverSame
<1>17. CASE \E o \in Objects : UnbalancedExit(t, o)
  <2>1. UNCHANGED threadCount /\ \A b \in Blocks : Users(b)' \subseteq Users(b)
    BY <1>17 DEF UnbalancedExit
  <2> QED
    BY <2>1, CoverSame
<1> QED
  BY <1>1, <1>2, <1>3, <1>4, <1>5, <1>6, <1>7, <1>8, <1>9, <1>10, <1>11, <1>12,
     <1>13, <1>14, <1>15, <1>16, <1>17 DEF Act, Step

\* No _objc_fatal of id2data is reached.
LEMMA FatalStep ==
  ASSUME IInv, NEW t \in Threads, Act(t)
  PROVE  ~fatal'
<1> USE ConstantTypes DEF IInv, Goto, shared
<1>1. CASE AcquireCached(t)
  <2>1. \A b \in Hits(t) : threadCount[b] \in Nat /\ threadCount[b] > 0
    BY <1>1, HitCounts DEF AcquireCached, Hits, Typed
  <2>2. PICK b \in Hits(t) : fatal' = (fatal \/ threadCount[b] <= 0)
    BY <1>1 DEF AcquireCached
  <2>3. ~(threadCount[b] <= 0)
    BY <2>1
  <2>4. ~fatal
    OBVIOUS
  <2> HIDE DEF IInv
  <2> QED
    BY <2>2, <2>3, <2>4
<1>2. CASE ReleaseCached(t)
  <2>1. \A b \in Hits(t) : threadCount[b] \in Nat /\ threadCount[b] > 0
    BY <1>2, HitCounts DEF ReleaseCached, Hits, Typed
  <2>2. PICK b \in Hits(t) : fatal' = (fatal \/ threadCount[b] <= 0)
    BY <1>2 DEF ReleaseCached
  <2>3. ~(threadCount[b] <= 0)
    BY <2>1
  <2>4. ~fatal
    OBVIOUS
  <2> HIDE DEF IInv
  <2> QED
    BY <2>2, <2>3, <2>4
<1>3. CASE NotCached(t)
  BY <1>3 DEF NotCached, Hits
<1>4. CASE LockList(t)
  BY <1>4 DEF LockList
<1>5. CASE WalkFound(t)
  BY <1>5 DEF WalkFound, Walking, Here
<1>6. CASE WalkPast(t)
  BY <1>6 DEF WalkPast, Walking, Here
<1>7. CASE ReleaseNotFound(t)
  BY <1>7 DEF ReleaseNotFound, WalkedAll
<1>8. CASE ReuseBlock(t)
  BY <1>8 DEF ReuseBlock, WalkedAll, Claim
<1>9. CASE NewBlock(t)
  BY <1>9 DEF NewBlock, WalkedAll, Claim
<1>10. CASE UnlockList(t)
  BY <1>10 DEF UnlockList
<1>11. CASE ReleaseFails(t)
  BY <1>11 DEF ReleaseFails, Return
<1>12. CASE SaveInCache(t)
  BY <1>12 DEF SaveInCache, Missed, Frame
<1>13. CASE MutexLock(t)
  BY <1>13 DEF MutexLock, Return
<1>14. CASE TryUnlock(t)
  BY <1>14 DEF TryUnlock, Return
<1>15. CASE \E o \in Objects : Enter(t, o)
  BY <1>15 DEF Enter
<1>16. CASE \E o \in Objects : Exit(t, o)
  BY <1>16 DEF Exit
<1>17. CASE \E o \in Objects : UnbalancedExit(t, o)
  BY <1>17 DEF UnbalancedExit
<1> QED
  BY <1>1, <1>2, <1>3, <1>4, <1>5, <1>6, <1>7, <1>8, <1>9, <1>10, <1>11, <1>12,
     <1>13, <1>14, <1>15, <1>16, <1>17 DEF Act, Step

-----------------------------------------------------------------------------
(* The invariant. *)

LEMMA InitIInv == Init => IInv
<1> SUFFICES ASSUME Init PROVE IInv
  OBVIOUS
<1> USE ConstantTypes DEF Init
<1>1. Typed /\ (\A t \in Threads : Frame(t)) /\ Spins /\ Walked /\ Missed
  BY DEF Typed, PCs, Frame, Spins, Walked, Missed
<1>2. \A b \in Blocks : ~InList(b) /\ \A l \in Lists : ~OnList(l, b)
  BY DEF InList, OnList, Has
<1>3. Placed /\ OneBlockPerObject
  BY <1>2 DEF Placed, OneBlockPerObject
<1>4. Counted
  BY DEF Counted, Locked, Due
<1>5. \A b \in Blocks : Users(b) = {}
  BY DEF Users
<1>6. ThreadCountCovers
  <2>1. \A b \in Blocks : threadCount[b] = 0 /\ Cardinality(Users(b)) = 0
    BY <1>5, FS_EmptySet
  <2> QED
    BY <2>1 DEF ThreadCountCovers
<1> QED
  BY <1>1, <1>3, <1>4, <1>6 DEF IInv

LEMMA StepIInv == IInv /\ [Next]_vars => IInv'
<1> SUFFICES ASSUME IInv, [Next]_vars PROVE IInv'
  OBVIOUS
<1>1. ASSUME NEW t \in Threads, Act(t) PROVE IInv'
  BY <1>1, TypedStep, FrameStep, SpinsStep, PlacedStep, WalkedStep, MissedStep, CountedStep,
     OneBlockStep, CoversStep, FatalStep DEF IInv
<1>2. CASE UNCHANGED vars
  <2>1. UNCHANGED <<data, spin, object, threadCount, mutex, depth, lockCount, pc, obj, why,
                    next, firstUnused, result, fatal>>
    BY <1>2 DEF vars
  <2>2. Typed' /\ (\A t \in Threads : Frame(t)') /\ Spins'
    BY <2>1 DEF IInv, Typed, Frame, Spins, List
  <2>3. Placed' /\ Walked' /\ Missed'
    BY <2>1 DEF IInv, Placed, InList, OnList, Has, Walked, Seen, Spare, Missed, List
  <2>4. Counted' /\ OneBlockPerObject' /\ ThreadCountCovers'
    BY <2>1 DEF IInv, Counted, Locked, Due, OneBlockPerObject, InList, ThreadCountCovers, Users
  <2> QED
    BY <2>1, <2>2, <2>3, <2>4 DEF IInv
<1> QED
  BY <1>1, <1>2 DEF Next, Act

\* A thread inside @synchronized owns the mutex that its exit unlocks, and its
\* exit finds the block in its cache.
LEMMA ExitsServed == IInv => OwnerCanExit
<1> SUFFICES ASSUME IInv PROVE OwnerCanExit
  OBVIOUS
<1>1. ASSUME NEW t \in Threads, NEW b \in Blocks
      PROVE  /\ lockCount[t][b] = Locked(t, b) + Due(t, b)
             /\ lockCount[t][b] \in Nat /\ Locked(t, b) \in Nat
             /\ mutex[b] = t => Locked(t, b) # 0
             /\ Locked(t, b) # 0 => mutex[b] = t
  <2>1. lockCount[t][b] = Locked(t, b) + Due(t, b)
    BY DEF IInv, Counted
  <2> QED
    BY <2>1, ConstantTypes DEF IInv, Typed, Counted, Locked
<1>2. ASSUME NEW t \in Threads, pc[t] = "mutexUnlock" PROVE mutex[result[t]] = t
  <2>1. result[t] \in Blocks
    BY <1>2 DEF IInv, Frame
  <2>2. Due(t, result[t]) = -1
    BY <1>2 DEF Due
  <2> QED
    BY <1>1, <2>1, <2>2
<1>3. ASSUME NEW t \in Threads, why[t] = "RELEASE", pc[t] \notin {"lookup", "mutexUnlock"},
             NEW b \in Blocks, object[b] = obj[t], mutex[b] = t
      PROVE  FALSE
  <2>1. pc[t] \in {"lock", "walk", "unlock", "save"}
    BY <1>3 DEF IInv, Typed, PCs, Frame
  <2>2. Due(t, b) = 0
    BY <2>1 DEF Due
  <2>3. lockCount[t][b] > 0
    BY <1>1, <1>3, <2>2
  <2> QED
    BY <1>3, <2>1, <2>3 DEF IInv, Missed
<1>4. ~fatal
  BY DEF IInv
<1> QED
  BY <1>2, <1>3, <1>4 DEF OwnerCanExit

\* The bookkeeping of id2data is sound for any number of threads, objects, blocks
\* and lists, whatever the clients do: one block per object, no block in use is
\* reused, and the thread that is inside can always leave.
THEOREM SyncBlocksSound == Spec => []BlocksSound
<1>1. IInv => BlocksSound
  BY ExitsServed DEF IInv, BlocksSound
<1> QED
  BY <1>1, InitIInv, StepIInv, PTL DEF Spec
-----------------------------------------------------------------------------
(* ObjcSync implements RecursiveLocks. *)

\* t is about to unlock b's mutex, and has left already.
Leaving(t, b) == IF pc[t] = "mutexUnlock" /\ result[t] = b THEN 1 ELSE 0
Owned(t, o, b) == object[b] = o /\ mutex[b] = t

\* What the refinement mapping is: the depth of the one block of the object.
InsideIs ==
  \A t \in Threads, o \in Objects :
    /\ \A b \in Blocks : Owned(t, o, b) => Inside(t, o) = depth[b] - Leaving(t, b)
    /\ (\A b \in Blocks : ~Owned(t, o, b)) => Inside(t, o) = 0

LEMMA InsideValue == IInv => InsideIs
<1> SUFFICES ASSUME IInv, NEW t \in Threads, NEW o \in Objects
             PROVE  /\ \A b \in Blocks : Owned(t, o, b) => Inside(t, o) = depth[b] - Leaving(t, b)
                    /\ (\A b \in Blocks : ~Owned(t, o, b)) => Inside(t, o) = 0
  BY DEF InsideIs
<1> DEFINE Mine == {b \in Blocks : object[b] = o /\ mutex[b] = t}
           mine == CHOOSE b \in Mine : TRUE
<1>1. Inside(t, o) = IF Mine = {} THEN 0 ELSE depth[mine] - Leaving(t, mine)
  BY DEF Inside, Leaving
<1>2. ASSUME NEW b \in Blocks, Owned(t, o, b) PROVE Mine = {b}
  <2>1. \A c \in Mine : InList(c)
    BY ConstantTypes DEF IInv, Placed
  <2>2. b \in Mine
    BY <1>2 DEF Owned
  <2> QED
    BY <2>1, <2>2 DEF IInv, OneBlockPerObject
<1>3. ASSUME NEW b \in Blocks, Owned(t, o, b) PROVE Inside(t, o) = depth[b] - Leaving(t, b)
  <2>1. Mine = {b}
    BY <1>2, <1>3
  <2>2. mine = b /\ Mine # {}
    BY <2>1
  <2> HIDE DEF mine, Mine
  <2> QED
    BY <1>1, <2>2
<1>4. (\A b \in Blocks : ~Owned(t, o, b)) => Inside(t, o) = 0
  BY <1>1 DEF Owned
<1> QED
  BY <1>3, <1>4

LEMMA InsideValueNext == IInv' => InsideIs'
  BY InsideValue, PTL

\* What t holds of o stays, when the blocks that count before and those that
\* count after have the same depth.
Kept(u, o) ==
  \A c \in Blocks :
    /\ Owned(u, o, c) /\ ~Owned(u, o, c)' => depth[c] - Leaving(u, c) = 0
    /\ ~Owned(u, o, c) /\ Owned(u, o, c)' => (depth[c] - Leaving(u, c))' = 0
    /\ Owned(u, o, c) /\ Owned(u, o, c)' =>
         (depth[c] - Leaving(u, c))' = depth[c] - Leaving(u, c)

LEMMA InsideKept ==
  ASSUME IInv, IInv', NEW u \in Threads, NEW o \in Objects, Kept(u, o)
  PROVE  Inside(u, o)' = Inside(u, o)
<1>1. /\ \A b \in Blocks : Owned(u, o, b) => Inside(u, o) = depth[b] - Leaving(u, b)
      /\ (\A b \in Blocks : ~Owned(u, o, b)) => Inside(u, o) = 0
  BY InsideValue DEF InsideIs
<1>2. /\ \A b \in Blocks : Owned(u, o, b)' => Inside(u, o)' = (depth[b] - Leaving(u, b))'
      /\ (\A b \in Blocks : ~Owned(u, o, b)') => Inside(u, o)' = 0
  BY InsideValueNext DEF InsideIs
<1> QED
  BY <1>1, <1>2 DEF Kept

Held == [t \in Threads |-> [o \in Objects |-> Inside(t, o)]]

\* One entry of the mapped state changes.
LEMMA HeldChange ==
  ASSUME NEW t \in Threads, NEW o \in Objects, NEW n, Inside(t, o)' = n,
         \A u \in Threads, q \in Objects : u # t \/ q # o => Inside(u, q)' = Inside(u, q)
  PROVE  Held' = [Held EXCEPT ![t][o] = n]
  BY DEF Held

\* A step of the specification of recursive locks, or none.
Mapped == Locks!Next \/ UNCHANGED Held

LEMMA AllKept ==
  ASSUME IInv, IInv', \A u \in Threads, o \in Objects : Kept(u, o)
  PROVE  Mapped
<1>1. \A u \in Threads, o \in Objects : Inside(u, o)' = Inside(u, o)
  BY InsideKept
<1> QED
  BY <1>1 DEF Mapped, Held


\* The two ways to take a step.
LEMMA EnterMapped ==
  ASSUME NEW t \in Threads, NEW o \in Objects, \A u \in Threads \ {t} : Inside(u, o) = 0,
         Held' = [Held EXCEPT ![t][o] = Inside(t, o) + 1]
  PROVE  Mapped
<1>1. Held[t][o] = Inside(t, o) /\ \A u \in Threads \ {t} : Held[u][o] = 0
  BY DEF Held
<1>2. Locks!Enter(t, o)
  BY <1>1 DEF Locks!Enter, Held
<1> QED
  BY <1>2 DEF Mapped, Locks!Next

LEMMA ExitMapped ==
  ASSUME NEW t \in Threads, NEW o \in Objects, Inside(t, o) > 0,
         Held' = [Held EXCEPT ![t][o] = Inside(t, o) - 1]
  PROVE  Mapped
<1>1. Held[t][o] = Inside(t, o)
  BY DEF Held
<1>2. Locks!Exit(t, o)
  BY <1>1 DEF Locks!Exit, Held
<1> QED
  BY <1>2 DEF Mapped, Locks!Next

\* Every step of a thread is Enter, Exit or none.
LEMMA ActMapped ==
  ASSUME IInv, IInv', NEW t \in Threads, Act(t)
  PROVE  Mapped
<1> USE DEF IInv, Typed, PCs, Frame, Goto, shared, walkVars, Kept, Owned, Leaving
<1>1. CASE AcquireCached(t)
  <2>1. /\ UNCHANGED <<object, mutex, depth>>
        /\ \A u \in Threads, c \in Blocks : Leaving(u, c)' = Leaving(u, c)
    BY <1>1 DEF AcquireCached, Hits
  <2>2. \A u \in Threads, o \in Objects : Kept(u, o)
    BY <2>1
  <2> QED
    BY <2>2, AllKept
<1>2. CASE ReleaseCached(t)
  <2>1. PICK b \in Hits(t) : result' = [result EXCEPT ![t] = b]
    BY <1>2 DEF ReleaseCached
  <2>2. PICK o \in Objects : o = obj[t]
    BY <1>2 DEF ReleaseCached
  <2>3. /\ b \in Blocks /\ Owned(t, o, b) /\ Owned(t, o, b)' /\ depth[b] \in Nat /\ depth[b] # 0
        /\ UNCHANGED <<object, mutex, depth>> /\ pc[t] = "lookup"
        /\ pc' = [pc EXCEPT ![t] = "mutexUnlock"]
    <3>1. /\ UNCHANGED <<object, mutex, depth>> /\ pc[t] = "lookup"
          /\ pc' = [pc EXCEPT ![t] = "mutexUnlock"]
      BY <1>2 DEF ReleaseCached
    <3>2. b \in Blocks /\ object[b] = o
      BY <2>2 DEF Hits
    <3>3. mutex[b] = t
      BY <3>1, HitCounts
    <3>4. depth[b] \in Nat /\ depth[b] # 0
      BY <3>2, <3>3, ConstantTypes DEF Counted
    <3> QED
      BY <3>1, <3>2, <3>3, <3>4
  <2>4. /\ Leaving(t, b) = 0 /\ Leaving(t, b)' = 1
        /\ \A u \in Threads, c \in Blocks :
             u # t \/ c # b => Leaving(u, c)' = Leaving(u, c)
    BY <2>1, <2>3
  <2>5. Inside(t, o) = depth[b] /\ Inside(t, o)' = depth[b] - 1
    <3>1. Inside(t, o) = depth[b] - Leaving(t, b)
      BY <2>3, InsideValue DEF InsideIs
    <3>2. Owned(t, o, b)' /\ Leaving(t, b)' = 1
      BY <2>3, <2>4
    <3>3. Inside(t, o)' = (depth[b] - Leaving(t, b))'
      BY <3>2, InsideValueNext DEF InsideIs
    <3>4. depth'[b] = depth[b]
      BY <2>3
    <3> HIDE DEF Leaving
    <3> QED
      BY <2>3, <2>4, <3>1, <3>3, <3>4
  <2>6. ASSUME NEW u \in Threads, NEW q \in Objects, u # t \/ q # o
        PROVE  Inside(u, q)' = Inside(u, q)
    <3>1. Kept(u, q)
      BY <2>3, <2>4, <2>6, SMTT(30)
    <3> QED
      BY <3>1, InsideKept
  <2>7. Held' = [Held EXCEPT ![t][o] = Inside(t, o) - 1]
    BY <2>3, <2>5, <2>6, HeldChange
  <2>8. Inside(t, o) > 0
    BY <2>3, <2>5
  <2> QED
    BY <2>7, <2>8, ExitMapped
<1>3. CASE NotCached(t)
  <2>1. /\ UNCHANGED <<object, mutex, depth>>
        /\ \A u \in Threads, c \in Blocks : Leaving(u, c)' = Leaving(u, c)
    BY <1>3 DEF NotCached
  <2>2. \A u \in Threads, o \in Objects : Kept(u, o)
    BY <2>1
  <2> QED
    BY <2>2, AllKept
<1>4. CASE LockList(t)
  <2>1. /\ UNCHANGED <<object, mutex, depth>>
        /\ \A u \in Threads, c \in Blocks : Leaving(u, c)' = Leaving(u, c)
    BY <1>4 DEF LockList
  <2>2. \A u \in Threads, o \in Objects : Kept(u, o)
    BY <2>1
  <2> QED
    BY <2>2, AllKept
<1>5. CASE WalkFound(t)
  <2>1. /\ UNCHANGED <<object, mutex, depth>>
        /\ \A u \in Threads, c \in Blocks : Leaving(u, c)' = Leaving(u, c)
    BY <1>5 DEF WalkFound, Walking, Here
  <2>2. \A u \in Threads, o \in Objects : Kept(u, o)
    BY <2>1
  <2> QED
    BY <2>2, AllKept
<1>6. CASE WalkPast(t)
  <2>1. /\ UNCHANGED <<object, mutex, depth>>
        /\ \A u \in Threads, c \in Blocks : Leaving(u, c)' = Leaving(u, c)
    BY <1>6 DEF WalkPast, Walking, Here
  <2>2. \A u \in Threads, o \in Objects : Kept(u, o)
    BY <2>1
  <2> QED
    BY <2>2, AllKept
<1>7. CASE ReleaseNotFound(t)
  <2>1. /\ UNCHANGED <<object, mutex, depth>>
        /\ \A u \in Threads, c \in Blocks : Leaving(u, c)' = Leaving(u, c)
    BY <1>7 DEF ReleaseNotFound, WalkedAll
  <2>2. \A u \in Threads, o \in Objects : Kept(u, o)
    BY <2>1
  <2> QED
    BY <2>2, AllKept
<1>8. CASE ReuseBlock(t)
  <2>0. firstUnused[t] \in Blocks
    BY <1>8 DEF ReuseBlock
  <2>1. PICK b \in Blocks :
          b = firstUnused[t] /\ Claim(t, b) /\ UNCHANGED <<data, mutex, depth>>
    BY <1>8, <2>0 DEF ReuseBlock
  <2>2. /\ threadCount[b] = 0 /\ obj[t] \in Objects
        /\ \A c \in Blocks : InList(c) => object[c] # obj[t]
    BY <1>8, <2>1, ClaimUnused DEF ReuseBlock
  <2>3. InList(b)
    BY <1>8, <2>1, ClaimUnused, OnListIn DEF ReuseBlock
  <2>4. \A u \in Threads :
          /\ lockCount[u][b] = 0
          /\ pc[u] \in {"unlock", "save", "mutexLock"} => result[u] # b
    BY <2>1, <2>2, Unused
  <2>5. /\ result' = [result EXCEPT ![t] = b] /\ pc' = [pc EXCEPT ![t] = "unlock"]
        /\ object' = [object EXCEPT ![b] = obj[t]]
        /\ UNCHANGED <<mutex, depth>> /\ pc[t] = "walk"
    BY <1>8, <2>1, <2>3 DEF Claim, ReuseBlock, WalkedAll
  <2>6. ASSUME NEW u \in Threads, mutex[b] = u PROVE depth[b] - Leaving(u, b) = 0
    <3>1. lockCount[u][b] = Locked(u, b) + Due(u, b) /\ Locked(u, b) = depth[b]
      BY <2>6 DEF Counted, Locked
    <3>2. Due(u, b) = 0 - Leaving(u, b)
      BY <2>4 DEF Due
    <3> QED
      BY <2>4, <3>1, <3>2
  <2>7. \A u \in Threads, c \in Blocks : Leaving(u, c)' = Leaving(u, c)
    BY <2>5
  <2>8. \A c \in Blocks \ {b} : object'[c] = object[c]
    BY <2>5
  <2>9. ASSUME NEW u \in Threads, NEW o \in Objects PROVE Kept(u, o)
    <3> SUFFICES ASSUME NEW c \in Blocks
                 PROVE  /\ Owned(u, o, c) /\ ~Owned(u, o, c)' => depth[c] - Leaving(u, c) = 0
                        /\ ~Owned(u, o, c) /\ Owned(u, o, c)' => (depth[c] - Leaving(u, c))' = 0
                        /\ Owned(u, o, c) /\ Owned(u, o, c)' =>
                             (depth[c] - Leaving(u, c))' = depth[c] - Leaving(u, c)
      BY DEF Kept
    <3> HIDE DEF Leaving
    <3>1. CASE c = b
      BY <2>5, <2>6, <2>7, <3>1
    <3>2. CASE c # b
      BY <2>5, <2>7, <2>8, <3>2
    <3> QED
      BY <3>1, <3>2
  <2> QED
    BY <2>9, AllKept
<1>9. CASE NewBlock(t)
  <2>1. PICK b \in Blocks :
          /\ ~InList(b) /\ Claim(t, b)
          /\ data' = [data EXCEPT ![List(t)] = <<b>> \o @]
    BY <1>9 DEF NewBlock
  <2>2. /\ threadCount[b] = 0 /\ obj[t] \in Objects /\ List(t) \in Lists
        /\ \A c \in Blocks : InList(c) => object[c] # obj[t]
    BY <1>9, <2>1, ClaimUnused DEF NewBlock
  <2>3. UNCHANGED <<mutex, depth>> /\ pc[t] = "walk"
    BY <1>9 DEF NewBlock, WalkedAll
  <2>4. \A u \in Threads :
          /\ lockCount[u][b] = 0
          /\ pc[u] \in {"unlock", "save", "mutexLock"} => result[u] # b
    BY <2>1, <2>2, Unused
  <2>5. /\ result' = [result EXCEPT ![t] = b] /\ pc' = [pc EXCEPT ![t] = "unlock"]
        /\ object' = [object EXCEPT ![b] = obj[t]]
        /\ UNCHANGED <<mutex, depth>> /\ pc[t] = "walk"
    BY <1>9, <2>1, <2>3 DEF Claim, NewBlock, WalkedAll
  <2>6. ASSUME NEW u \in Threads, mutex[b] = u PROVE depth[b] - Leaving(u, b) = 0
    <3>1. lockCount[u][b] = Locked(u, b) + Due(u, b) /\ Locked(u, b) = depth[b]
      BY <2>6 DEF Counted, Locked
    <3>2. Due(u, b) = 0 - Leaving(u, b)
      BY <2>4 DEF Due
    <3> QED
      BY <2>4, <3>1, <3>2
  <2>7. \A u \in Threads, c \in Blocks : Leaving(u, c)' = Leaving(u, c)
    BY <2>5
  <2>8. \A c \in Blocks \ {b} : object'[c] = object[c]
    BY <2>5
  <2>9. ASSUME NEW u \in Threads, NEW o \in Objects PROVE Kept(u, o)
    <3> SUFFICES ASSUME NEW c \in Blocks
                 PROVE  /\ Owned(u, o, c) /\ ~Owned(u, o, c)' => depth[c] - Leaving(u, c) = 0
                        /\ ~Owned(u, o, c) /\ Owned(u, o, c)' => (depth[c] - Leaving(u, c))' = 0
                        /\ Owned(u, o, c) /\ Owned(u, o, c)' =>
                             (depth[c] - Leaving(u, c))' = depth[c] - Leaving(u, c)
      BY DEF Kept
    <3> HIDE DEF Leaving
    <3>1. CASE c = b
      BY <2>5, <2>6, <2>7, <3>1
    <3>2. CASE c # b
      BY <2>5, <2>7, <2>8, <3>2
    <3> QED
      BY <3>1, <3>2
  <2> QED
    BY <2>9, AllKept
<1>10. CASE UnlockList(t)
  <2>1. /\ UNCHANGED <<object, mutex, depth>>
        /\ \A u \in Threads, c \in Blocks : Leaving(u, c)' = Leaving(u, c)
    BY <1>10 DEF UnlockList
  <2>2. \A u \in Threads, o \in Objects : Kept(u, o)
    BY <2>1
  <2> QED
    BY <2>2, AllKept
<1>11. CASE ReleaseFails(t)
  <2>1. /\ UNCHANGED <<object, mutex, depth>>
        /\ \A u \in Threads, c \in Blocks : Leaving(u, c)' = Leaving(u, c)
    BY <1>11 DEF ReleaseFails, Return
  <2>2. \A u \in Threads, o \in Objects : Kept(u, o)
    BY <2>1
  <2> QED
    BY <2>2, AllKept
<1>12. CASE SaveInCache(t)
  <2>1. /\ UNCHANGED <<object, mutex, depth>>
        /\ \A u \in Threads, c \in Blocks : Leaving(u, c)' = Leaving(u, c)
    BY <1>12 DEF SaveInCache
  <2>2. \A u \in Threads, o \in Objects : Kept(u, o)
    BY <2>1
  <2> QED
    BY <2>2, AllKept
<1>13. CASE MutexLock(t)
  <2>1. PICK b \in Blocks : b = result[t]
    BY <1>13 DEF MutexLock
  <2>2. PICK o \in Objects : o = obj[t]
    BY <1>13 DEF MutexLock
  <2>3. /\ object[b] = o /\ mutex[b] \in {NoThread, t} /\ depth[b] \in Nat
        /\ mutex' = [mutex EXCEPT ![b] = t] /\ depth' = [depth EXCEPT ![b] = @ + 1]
        /\ UNCHANGED object /\ pc[t] = "mutexLock" /\ pc' = [pc EXCEPT ![t] = "idle"]
        /\ result' = [result EXCEPT ![t] = NoBlock]
        /\ mutex[b] = NoThread => depth[b] = 0
    BY <1>13, <2>1, <2>2 DEF MutexLock, Return, Missed, Counted
  <2>4. \A u \in Threads, c \in Blocks : Leaving(u, c)' = Leaving(u, c)
    BY <2>3
  <2>5. ASSUME NEW u \in Threads, NEW c \in Blocks, Owned(u, o, c) PROVE u = t /\ c = b
    <3>1. InList(b)
      BY <2>1 DEF Placed
    <3>2. InList(c)
      <4>1. mutex[c] # NoThread
        BY <2>5, ConstantTypes
      <4> QED
        BY <4>1 DEF Placed
    <3>3. object[c] = o /\ object[b] = o /\ mutex[c] = u
      BY <2>3, <2>5
    <3>4. c = b
      BY <3>1, <3>2, <3>3 DEF OneBlockPerObject
    <3>5. u = t
      BY <2>3, <3>3, <3>4, ConstantTypes
    <3> QED
      BY <3>4, <3>5
  <2>6. \A u \in Threads \ {t} : Inside(u, o) = 0
    <3>1. ASSUME NEW u \in Threads \ {t}, NEW c \in Blocks PROVE ~Owned(u, o, c)
      BY <2>5
    <3> HIDE DEF Owned
    <3> QED
      BY <3>1, InsideValue DEF InsideIs
  <2>7. Leaving(t, b) = 0
    BY <2>3
  <2>8. Inside(t, o) = depth[b]
    <3>1. CASE mutex[b] = t
      <4>1. Owned(t, o, b)
        BY <2>3, <3>1
      <4>2. Inside(t, o) = depth[b] - Leaving(t, b)
        BY <4>1, InsideValue, SMTT(30) DEF InsideIs
      <4> QED
        BY <2>3, <2>7, <4>2
    <3>2. CASE mutex[b] # t
      <4>1. \A c \in Blocks : ~Owned(t, o, c)
        BY <2>5, <3>2
      <4>2. Inside(t, o) = 0
        BY <4>1, InsideValue DEF InsideIs
      <4> QED
        BY <2>3, <3>2, <4>2
    <3> QED
      BY <3>1, <3>2
  <2>9. Inside(t, o)' = depth[b] + 1
    <3>1. Owned(t, o, b)' /\ depth'[b] = depth[b] + 1 /\ Leaving(t, b)' = 0
      BY <2>3, <2>4, <2>7
    <3>2. Inside(t, o)' = (depth[b] - Leaving(t, b))'
      BY <3>1, InsideValueNext DEF InsideIs
    <3> QED
      BY <2>3, <3>1, <3>2
  <2>10. ASSUME NEW u \in Threads, NEW q \in Objects, u # t \/ q # o
         PROVE  Inside(u, q)' = Inside(u, q)
    <3>1. Kept(u, q)
      <4> SUFFICES ASSUME NEW c \in Blocks
                   PROVE  /\ Owned(u, q, c)' <=> Owned(u, q, c)
                          /\ Owned(u, q, c) => depth'[c] = depth[c]
        BY <2>4 DEF Kept
      <4>1. CASE c = b
        <5>1. mutex'[c] = t /\ object'[c] = o /\ object[c] = o /\ mutex[c] \in {NoThread, t}
          BY <2>3, <4>1
        <5>2. ~Owned(u, q, c) /\ ~Owned(u, q, c)'
          BY <2>10, <5>1, ConstantTypes
        <5> QED
          BY <5>2
      <4>2. CASE c # b
        BY <2>3, <4>2
      <4> QED
        BY <4>1, <4>2
    <3> QED
      BY <3>1, InsideKept
  <2>11. Held' = [Held EXCEPT ![t][o] = Inside(t, o) + 1]
    BY <2>8, <2>9, <2>10, HeldChange
  <2> QED
    BY <2>6, <2>11, EnterMapped
<1>14. CASE TryUnlock(t)
  <2>1. PICK b \in Blocks : b = result[t]
    BY <1>14 DEF TryUnlock
  <2>2. pc[t] = "mutexUnlock" /\ mutex[b] = t
    BY <1>14, <2>1, ExitsServed DEF TryUnlock, OwnerCanExit
  <2>3. /\ depth' = [depth EXCEPT ![b] = @ - 1] /\ UNCHANGED object
        /\ mutex' = [mutex EXCEPT ![b] = IF depth[b] = 1 THEN NoThread ELSE t]
        /\ pc' = [pc EXCEPT ![t] = "idle"] /\ result' = [result EXCEPT ![t] = NoBlock]
    BY <1>14, <2>1, <2>2 DEF TryUnlock, Return
  <2>4. /\ Leaving(t, b) = 1 /\ Leaving(t, b)' = 0
        /\ \A u \in Threads, c \in Blocks :
             u # t \/ c # b => Leaving(u, c)' = Leaving(u, c)
    BY <2>1, <2>2, <2>3
  <2>5. ASSUME NEW u \in Threads, NEW o \in Objects PROVE Kept(u, o)
    <3> SUFFICES ASSUME NEW c \in Blocks
                 PROVE  /\ Owned(u, o, c) /\ ~Owned(u, o, c)' => depth[c] - Leaving(u, c) = 0
                        /\ ~Owned(u, o, c) /\ Owned(u, o, c)' => (depth[c] - Leaving(u, c))' = 0
                        /\ Owned(u, o, c) /\ Owned(u, o, c)' =>
                             (depth[c] - Leaving(u, c))' = depth[c] - Leaving(u, c)
      BY DEF Kept
    <3> HIDE DEF Leaving
    <3>1. CASE c = b /\ u = t
      BY <2>2, <2>3, <2>4, <3>1
    <3>2. CASE c = b /\ u # t
      BY <2>2, <2>3, <3>2, ConstantTypes
    <3>3. CASE c # b
      BY <2>3, <2>4, <3>3
    <3> QED
      BY <3>1, <3>2, <3>3
  <2> QED
    BY <2>5, AllKept
<1>15. CASE \E o \in Objects : Enter(t, o)
  <2>1. /\ UNCHANGED <<object, mutex, depth>>
        /\ \A u \in Threads, c \in Blocks : Leaving(u, c)' = Leaving(u, c)
    BY <1>15 DEF Enter
  <2>2. \A u \in Threads, o \in Objects : Kept(u, o)
    BY <2>1
  <2> QED
    BY <2>2, AllKept
<1>16. CASE \E o \in Objects : Exit(t, o)
  <2>1. /\ UNCHANGED <<object, mutex, depth>>
        /\ \A u \in Threads, c \in Blocks : Leaving(u, c)' = Leaving(u, c)
    BY <1>16 DEF Exit
  <2>2. \A u \in Threads, o \in Objects : Kept(u, o)
    BY <2>1
  <2> QED
    BY <2>2, AllKept
<1>17. CASE \E o \in Objects : UnbalancedExit(t, o)
  <2>1. /\ UNCHANGED <<object, mutex, depth>>
        /\ \A u \in Threads, c \in Blocks : Leaving(u, c)' = Leaving(u, c)
    BY <1>17 DEF UnbalancedExit
  <2>2. \A u \in Threads, o \in Objects : Kept(u, o)
    BY <2>1
  <2> QED
    BY <2>2, AllKept
<1> QED
  BY <1>1, <1>2, <1>3, <1>4, <1>5, <1>6, <1>7, <1>8, <1>9, <1>10, <1>11, <1>12,
     <1>13, <1>14, <1>15, <1>16, <1>17 DEF Act, Step


\* Every step of ObjcSync is one of RecursiveLocks or leaves its state alone.
LEMMA StepMapped == IInv /\ [Next]_vars => [Locks!Next]_Held
<1> SUFFICES ASSUME IInv, [Next]_vars PROVE Mapped
  BY DEF Mapped
<1>1. IInv'
  BY StepIInv
<1>2. CASE UNCHANGED vars
  <2>1. \A u \in Threads, o \in Objects : Kept(u, o)
    BY <1>2 DEF vars, Kept, Owned, Leaving
  <2> QED
    BY <1>1, <2>1, AllKept
<1>3. ASSUME NEW t \in Threads, Act(t) PROVE Mapped
  BY <1>1, <1>3, ActMapped
<1> QED
  BY <1>2, <1>3 DEF Next, Act

\* @synchronized is one recursive lock per object: id2data, its caches and the
\* reuse of blocks implement RecursiveLocks.
THEOREM SyncImplementsLocks == Spec => ImplementsLocks
<1>1. Init => Locks!Init
  <2> SUFFICES ASSUME Init PROVE Locks!Init
    OBVIOUS
  <2>1. \A t \in Threads, o \in Objects : Inside(t, o) = 0
    BY InitIInv, InsideValue, ConstantTypes DEF InsideIs, Owned, Init
  <2> QED
    BY <2>1 DEF Locks!Init
<1>2. IInv /\ [Next]_vars => [Locks!Next]_Held
  BY StepMapped
<1>3. Locks!Spec <=> Locks!Init /\ [][Locks!Next]_Held
  BY PTL DEF Locks!Spec, Held
<1> QED
  BY <1>1, <1>2, <1>3, InitIInv, StepIInv, PTL DEF Spec, ImplementsLocks
=============================================================================
