--------------------------- MODULE RefCountProofs ---------------------------
(***************************************************************************)
(* Proofs about RefCount.  First, for every choice of its constants, what  *)
(* does not depend on the count: the types, the asserts of the side-table  *)
(* code, and that a raw isa is final.                                      *)
(*                                                                         *)
(* Then the count: wherever its parts are, it is the number of references, *)
(* and so RefCount implements ObjectLifetime.  The count is exact as long  *)
(* as it is not pinned, which NotPinned says; SIDE_TABLE_RC_PINNED stands  *)
(* for 2^61 references.                                                    *)
(*                                                                         *)
(* The invariant has two layers.  Control says what a thread in the middle *)
(* of an operation holds and remembers: its reference token, the side-     *)
(* table lock, the isa it loaded.  Account says what the words add up to:  *)
(* the inline count, the side-table count and what the holder of the lock  *)
(* is moving between them are together one less than the references.       *)
(***************************************************************************)
EXTENDS RefCount, FiniteSetTheorems, TLAPS

(***************************************************************************)
(* The part of the inductive invariant that concerns what a thread         *)
(* remembers between LoadExclusive and StoreExclusive, and the raw isa     *)
(* being final.                                                            *)
(***************************************************************************)
Remembers(t) ==
  /\ pc[t] = "releaseStore" => old[t].extra_rc > 0
  /\ pc[t] = "borrowAgain" => old[t].extra_rc + RC_HALF - 1 < 2 * RC_HALF
  /\ pc[t] \in {"sidetable_retain", "sidetable_release", "changeIsaMove"}
       => ~isa.nonpointer

Halves(n) == \E k \in Nat : n = k * RC_HALF

WordInv == /\ TypeOK
           /\ \A t \in Threads : Remembers(t)
           /\ isa.nonpointer => ~side.deallocating /\ ~side.weak /\ Halves(side.rc)

\* Half the inline range is what moves in and out of the side table: adding or
\* taking a half keeps a count of whole halves one.
LEMMA HalvesAdd == \A n \in Nat : Halves(n) => Halves(n + RC_HALF)
<1> SUFFICES ASSUME NEW n \in Nat, NEW k \in Nat, n = k * RC_HALF
             PROVE  \E j \in Nat : n + RC_HALF = j * RC_HALF
  BY DEF Halves
<1>1. n + RC_HALF = (k + 1) * RC_HALF
  BY RefCountAssumption
<1> QED
  BY <1>1

\* Taking a half out of a count of whole halves leaves whole halves.
LEMMA HalvesSub ==
  \A n \in Nat : Halves(n) /\ n # 0 => n - RC_HALF \in Nat /\ Halves(n - RC_HALF)
<1> SUFFICES ASSUME NEW n \in Nat, NEW k \in Nat, n = k * RC_HALF, n # 0
             PROVE  /\ n - RC_HALF \in Nat
                    /\ \E j \in Nat : n - RC_HALF = j * RC_HALF
  BY DEF Halves
<1>0. RC_HALF \in Nat /\ RC_HALF >= 1
  BY RefCountAssumption
<1>1. k # 0
  BY <1>0
<1>2. k - 1 \in Nat
  BY <1>1
<1>3. n - RC_HALF = (k - 1) * RC_HALF
  BY <1>0
<1>4. (k - 1) * RC_HALF \in Nat
  BY <1>0, <1>2
<1> QED
  BY <1>2, <1>3, <1>4

\* The saturation count and zero are whole halves.
LEMMA HalvesPinned == Halves(RC_PINNED) /\ Halves(0)
<1>1. 0 = 0 * RC_HALF
  BY RefCountAssumption
<1> QED
  BY <1>1, RefCountAssumption DEF Halves

USE DEF isa_t, Entry

\* The constants, in the form in which the steps below use them.
LEMMA ConstantTypes ==
  /\ NoThread \notin Threads /\ NoRef \notin Refs /\ RawClasses \subseteq Classes
  /\ RC_HALF \in Nat /\ RC_HALF >= 1
  /\ RC_PINNED \in Nat /\ RC_PINNED >= 1
  /\ LLSC \in BOOLEAN /\ MaxOps \in Nat
BY RefCountAssumption

\* A local that is not in use holds an isa word too.
LEMMA DeadIsaType == DeadIsa \in isa_t /\ DeadIsa.cls \in Classes
BY RefCountAssumption DEF DeadIsa, initIsa

\* The side-table operations yield entries, and keep whole halves.
LEMMA SideOps ==
  ASSUME NEW s \in Entry
  PROVE  /\ sidetable_addExtraRC_nolock(s, RC_HALF) \in Entry
         /\ sidetable_incr(s) \in Entry
         /\ sidetable_decr(s) \in Entry
         /\ \A i \in isa_t : sidetable_moveExtraRC_nolock(s, i) \in Entry
         /\ sidetable_addExtraRC_nolock(s, RC_HALF).deallocating = s.deallocating
         /\ sidetable_addExtraRC_nolock(s, RC_HALF).weak = s.weak
         /\ Halves(s.rc) => Halves(sidetable_addExtraRC_nolock(s, RC_HALF).rc)
<1>0. RC_HALF \in Nat /\ RC_PINNED \in Nat /\ RC_PINNED >= 1 /\ s.rc \in Nat
  BY RefCountAssumption
<1>1. /\ sidetable_addExtraRC_nolock(s, RC_HALF) \in Entry
      /\ sidetable_addExtraRC_nolock(s, RC_HALF).deallocating = s.deallocating
      /\ sidetable_addExtraRC_nolock(s, RC_HALF).weak = s.weak
  BY <1>0 DEF sidetable_addExtraRC_nolock, WithCount, Pinned
<1>2. sidetable_incr(s) \in Entry
  BY <1>0 DEF sidetable_incr, WithCount, Pinned
<1>3. sidetable_decr(s) \in Entry
  BY <1>0 DEF sidetable_decr, WithCount, LastReference, Pinned
<1>4. \A i \in isa_t : sidetable_moveExtraRC_nolock(s, i) \in Entry
  BY <1>0 DEF sidetable_moveExtraRC_nolock
<1>5. sidetable_addExtraRC_nolock(s, RC_HALF).rc
        \in {s.rc, RC_PINNED, s.rc + RC_HALF}
  BY <1>0 DEF sidetable_addExtraRC_nolock, WithCount, Pinned
<1>6. Halves(s.rc) => Halves(sidetable_addExtraRC_nolock(s, RC_HALF).rc)
  BY <1>0, <1>5, HalvesAdd, HalvesPinned
<1> QED
  BY <1>1, <1>2, <1>3, <1>4, <1>6

\* A new object satisfies the invariant.
LEMMA InitWordInv == Init => WordInv
<1> SUFFICES ASSUME Init PROVE WordInv
  OBVIOUS
<1>1. isa \in isa_t
  BY RefCountAssumption DEF Init, initIsa
<1>2. side \in Entry /\ side.rc = 0 /\ ~side.deallocating /\ ~side.weak
  BY RefCountAssumption DEF Init, NoEntry
<1>3. /\ lock \in Threads \cup {NoThread}
      /\ loc \in BOOLEAN /\ freed \in BOOLEAN
      /\ deallocator \in Threads \cup {NoThread}
      /\ owner \in [Refs -> Threads \cup {NoThread}]
      /\ pc \in [Threads -> PCs]
      /\ try \in [Threads -> BOOLEAN]
      /\ tok \in [Threads -> Refs \cup {NoRef}]
  BY DEF Init, PCs
<1>4. old \in [Threads -> isa_t] /\ cls \in [Threads -> Classes]
  BY DeadIsaType DEF Init
<1>5. ops \in 0 .. MaxOps
  BY RefCountAssumption DEF Init
<1>6. \A t \in Threads : Remembers(t)
  BY DEF Init, Remembers
<1> QED
  BY <1>1, <1>2, <1>3, <1>4, <1>5, <1>6, HalvesPinned DEF WordInv, TypeOK

USE DEF WordInv, TypeOK, Remembers, PCs, mem, Goto, Return, Lock, Unlock,
        LoadExclusive, StoreExclusive, Gain, Lose, Call

\* rootRetain, sidetable_retain and sidetable_tryRetain preserve it.
LEMMA RetainWordInv ==
  ASSUME WordInv, NEW t \in Threads, Retain(t)
  PROVE  WordInv'
<1> USE ConstantTypes, DeadIsaType
<1>1. CASE RetainRaw(t)
  BY <1>1 DEF RetainRaw
<1>2. CASE sidetable_retain(t)
  BY <1>2, SideOps DEF sidetable_retain
<1>3. CASE sidetable_tryRetain(t)
  <2>1. side' \in Entry /\ ~isa.nonpointer
    BY <1>3, SideOps DEF sidetable_tryRetain
  <2>2. owner' \in [Refs -> Threads \cup {NoThread}]
    BY <1>3 DEF sidetable_tryRetain
  <2> QED
    BY <1>3, <2>1, <2>2 DEF sidetable_tryRetain
<1>4. CASE TryRetainFails(t)
  BY <1>4 DEF TryRetainFails
<1>5. CASE RetainLoad(t)
  BY <1>5 DEF RetainLoad
<1>6. CASE RetainLock(t)
  BY <1>6 DEF RetainLock
<1>7. CASE RetainStore(t)
  <2>1. isa = old[t] /\ isa' = [isa EXCEPT !.extra_rc = isa.extra_rc + 1]
    BY <1>7 DEF RetainStore
  <2>2. isa.extra_rc \in 0 .. 2 * RC_HALF - 1 /\ isa.extra_rc # 2 * RC_HALF - 1
    BY <1>7 DEF RetainStore, Carry
  <2>3. \A n \in 0 .. 2 * RC_HALF - 1 : n # 2 * RC_HALF - 1 => n + 1 \in 0 .. 2 * RC_HALF - 1
    OBVIOUS
  <2>4. isa' \in isa_t /\ isa'.nonpointer = isa.nonpointer
    BY <2>1, <2>2, <2>3
  <2> QED
    BY <1>7, <2>4 DEF RetainStore
<1>8. CASE RetainStoreHalf(t)
  <2>1. isa' \in isa_t /\ isa'.nonpointer = isa.nonpointer
    BY <1>8 DEF RetainStoreHalf, Halved
  <2> QED
    BY <1>8, <2>1 DEF RetainStoreHalf
<1>9. CASE RetainStoreFails(t)
  BY <1>9 DEF RetainStoreFails
<1>10. CASE RetainSide(t)
  BY <1>10, SideOps DEF RetainSide
<1> QED
  BY <1>1, <1>2, <1>3, <1>4, <1>5, <1>6, <1>7, <1>8, <1>9, <1>10 DEF Retain

\* rootRelease preserves it, through the borrow and the put-back.
LEMMA ReleaseWordInv ==
  ASSUME WordInv, NEW t \in Threads, Release(t)
  PROVE  WordInv'
<1> USE ConstantTypes, DeadIsaType
<1>1. CASE ReleaseRaw(t)
  BY <1>1 DEF ReleaseRaw
<1>2. CASE sidetable_release(t)
  BY <1>2, SideOps DEF sidetable_release
<1>3. CASE ReleaseLoad(t)
  BY <1>3 DEF ReleaseLoad
<1>4. CASE ReleaseStore(t)
  <2>1. isa' \in isa_t /\ isa'.nonpointer = isa.nonpointer
    BY <1>4, SMTT(30) DEF ReleaseStore
  <2> QED
    BY <1>4, <2>1 DEF ReleaseStore
<1>5. CASE ReleaseStoreFails(t)
  BY <1>5 DEF ReleaseStoreFails
<1>6. CASE UnderflowNeedsLock(t)
  BY <1>6 DEF UnderflowNeedsLock
<1>7. CASE ReleaseLock(t)
  BY <1>7 DEF ReleaseLock
<1>8. CASE UnderflowBorrow(t)
  <2>1. Borrowed = RC_HALF /\ side.rc # 0
    BY <1>8 DEF UnderflowBorrow, Borrowed, sidetable_subExtraRC_nolock
  <2>2. isa.nonpointer
    BY <1>8 DEF UnderflowBorrow, Underflow
  <2>3. side.rc - RC_HALF \in Nat /\ Halves(side.rc - RC_HALF)
    BY <2>1, <2>2, HalvesSub
  <2>4. side' \in Entry /\ side'.rc = side.rc - RC_HALF
        /\ ~side'.deallocating /\ ~side'.weak
    BY <1>8, <2>1, <2>2, <2>3 DEF UnderflowBorrow
  <2> QED
    BY <1>8, <2>2, <2>3, <2>4 DEF UnderflowBorrow
<1>9. CASE BorrowStore(t)
  <2>1. isa' \in isa_t /\ isa'.nonpointer = isa.nonpointer
    BY <1>9 DEF BorrowStore
  <2> QED
    BY <1>9, <2>1 DEF BorrowStore
<1>10. CASE BorrowStoreFails(t)
  <2>0. \/ side' = side
        \/ side' = sidetable_addExtraRC_nolock(side, RC_HALF)
    BY <1>10 DEF BorrowStoreFails
  <2>1. /\ side' \in Entry
        /\ side'.deallocating = side.deallocating /\ side'.weak = side.weak
        /\ Halves(side.rc) => Halves(side'.rc)
    BY <2>0, SideOps
  <2>2. CASE isa.nonpointer /\ isa.extra_rc + RC_HALF - 1 < 2 * RC_HALF
    BY <1>10, <2>1, <2>2 DEF BorrowStoreFails
  <2>3. CASE ~(isa.nonpointer /\ isa.extra_rc + RC_HALF - 1 < 2 * RC_HALF)
    BY <1>10, <2>1, <2>3 DEF BorrowStoreFails
  <2> QED
    BY <2>2, <2>3
<1>11. CASE BorrowAgain(t)
  <2>1. isa' \in isa_t /\ isa'.nonpointer = isa.nonpointer
    BY <1>11, SMTT(30) DEF BorrowAgain
  <2> QED
    BY <1>11, <2>1 DEF BorrowAgain
<1>12. CASE BorrowAgainFails(t)
  BY <1>12, SideOps DEF BorrowAgainFails
<1>13. CASE UnderflowDealloc(t)
  BY <1>13 DEF UnderflowDealloc
<1>14. CASE DeallocStore(t)
  BY <1>14 DEF DeallocStore
<1> QED
  BY <1>1, <1>2, <1>3, <1>4, <1>5, <1>6, <1>7, <1>8, <1>9, <1>10, <1>11, <1>12, <1>13, <1>14 DEF Release

\* Loading and storing weak references preserves it.
LEMMA WeakWordInv ==
  ASSUME WordInv, NEW t \in Threads, Weak(t)
  PROVE  WordInv'
<1> USE ConstantTypes, DeadIsaType
<1>1. CASE WeakRead(t)
  <2>1. UNCHANGED mem
    BY <1>1 DEF WeakRead
  <2>2. \/ /\ pc' = [pc EXCEPT ![t] = "weakLoadLock"]
           /\ UNCHANGED <<old, try, tok, cls, ops>>
        \/ Return(t)
    BY <1>1, Zenon DEF WeakRead
  <2>3. CASE pc' = [pc EXCEPT ![t] = "weakLoadLock"] /\ UNCHANGED <<old, try, tok, cls, ops>>
    BY <2>1, <2>3
  <2>4. CASE Return(t)
    BY <2>1, <2>4
  <2> QED
    BY <2>2, <2>3, <2>4
<1>2. CASE LoadWeakLock(t)
  <2>1. UNCHANGED <<isa, side, loc, freed, deallocator, owner, old, tok, cls, ops>>
    BY <1>2 DEF LoadWeakLock
  <2>2. \/ /\ pc' = [pc EXCEPT ![t] = "retain"]
           /\ lock' = t
           /\ try' = [try EXCEPT ![t] = TRUE]
        \/ pc' = [pc EXCEPT ![t] = "weakRead"] /\ UNCHANGED <<lock, try>>
    BY <1>2, Zenon DEF LoadWeakLock
  <2>3. CASE pc' = [pc EXCEPT ![t] = "retain"] /\ lock' = t
             /\ try' = [try EXCEPT ![t] = TRUE]
    BY <2>1, <2>3
  <2>4. CASE pc' = [pc EXCEPT ![t] = "weakRead"] /\ UNCHANGED <<lock, try>>
    BY <2>1, <2>4
  <2> QED
    BY <2>2, <2>3, <2>4
<1>3. CASE StoreWeakRejected(t)
  <2>1. loc' = FALSE /\ UNCHANGED <<isa, side, lock, freed, deallocator, owner>>
    BY <1>3 DEF StoreWeakRejected
  <2>2. Return(t)
    BY <1>3, Zenon DEF StoreWeakRejected
  <2>3. TypeOK'
    <3>1. /\ isa' \in isa_t /\ side' \in Entry /\ lock' \in Threads \cup {NoThread}
          /\ loc' \in BOOLEAN /\ freed' \in BOOLEAN /\ deallocator' \in Threads \cup {NoThread}
          /\ owner' \in [Refs -> Threads \cup {NoThread}]
      BY <2>1
    <3>2. pc' \in [Threads -> PCs] /\ try' \in [Threads -> BOOLEAN]
      BY <2>2
    <3>3. tok' \in [Threads -> Refs \cup {NoRef}] /\ cls' \in [Threads -> Classes] /\ ops' \in 0 .. MaxOps
      BY <2>2
    <3>4. old' \in [Threads -> isa_t]
      BY <2>2
    <3> QED
      BY <3>1, <3>2, <3>3, <3>4
  <2>4. \A u \in Threads : Remembers(u)'
    BY <2>1, <2>2
  <2> QED
    BY <2>1, <2>3, <2>4
<1>4. CASE StoreWeakLock(t)
  BY <1>4 DEF StoreWeakLock
<1>5. CASE WeakMark(t)
  <2>1. side' \in Entry /\ (isa.nonpointer => side' = side)
    BY <1>5 DEF WeakMark, FinishStoreWeak, sidetable_setWeaklyReferenced_nolock
  <2> QED
    BY <1>5, <2>1 DEF WeakMark, FinishStoreWeak
<1>6. CASE WeakMarkLoad(t)
  BY <1>6 DEF WeakMarkLoad
<1>7. CASE WeakMarkStore(t)
  <2>1. isa' \in isa_t /\ isa'.nonpointer = isa.nonpointer
    BY <1>7 DEF WeakMarkStore
  <2> QED
    BY <1>7, <2>1 DEF WeakMarkStore, FinishStoreWeak
<1>8. CASE WeakMarkStoreFails(t)
  BY <1>8 DEF WeakMarkStoreFails
<1> QED
  BY <1>1, <1>2, <1>3, <1>4, <1>5, <1>6, <1>7, <1>8 DEF Weak

\* changeIsa preserves it.
LEMMA ChangeIsaWordInv ==
  ASSUME WordInv, NEW t \in Threads, ChangeIsa(t)
  PROVE  WordInv'
<1> USE ConstantTypes, DeadIsaType
<1>1. CASE ChangeIsaLoad(t)
  BY <1>1 DEF ChangeIsaLoad
<1>2. CASE ChangeIsaLock(t)
  BY <1>2 DEF ChangeIsaLock
<1>3. CASE ChangeIsaStore(t)
  BY <1>3 DEF ChangeIsaStore
<1>4. CASE ChangeIsaStoreRaw(t)
  <2>1. isa' \in isa_t /\ ~isa'.nonpointer
    BY <1>4 DEF ChangeIsaStoreRaw, initIsa, Transcribe
  <2> QED
    BY <1>4, <2>1 DEF ChangeIsaStoreRaw
<1>5. CASE ChangeIsaStoreFails(t)
  BY <1>5 DEF ChangeIsaStoreFails
<1>6. CASE ChangeIsaMove(t)
  <2>1. side' \in Entry /\ ~isa.nonpointer
    BY <1>6, SideOps DEF ChangeIsaMove
  <2> QED
    BY <1>6, <2>1 DEF ChangeIsaMove
<1> QED
  BY <1>1, <1>2, <1>3, <1>4, <1>5, <1>6 DEF ChangeIsa

\* rootDealloc and the clearing of the side table preserve it.
LEMMA DeallocWordInv ==
  ASSUME WordInv, NEW t \in Threads, Dealloc(t)
  PROVE  WordInv'
<1> USE ConstantTypes, DeadIsaType
<1>1. CASE rootDealloc(t)
  BY <1>1 DEF rootDealloc
<1>2. CASE clearDeallocating_slow(t)
  <2>1. NoEntry \in Entry /\ ~NoEntry.deallocating /\ ~NoEntry.weak /\ NoEntry.rc = 0
    BY DEF NoEntry
  <2>2. /\ side' \in Entry /\ loc' \in BOOLEAN
        /\ isa.nonpointer => ~side'.deallocating /\ ~side'.weak /\ Halves(side'.rc)
    BY <1>2, <2>1, HalvesPinned DEF clearDeallocating_slow
  <2> QED
    BY <1>2, <2>2 DEF clearDeallocating_slow
<1>3. CASE sidetable_clearDeallocating(t)
  <2>1. NoEntry \in Entry /\ ~NoEntry.deallocating /\ ~NoEntry.weak /\ NoEntry.rc = 0
    BY DEF NoEntry
  <2>2. loc' \in BOOLEAN /\ side' = NoEntry
    BY <1>3 DEF sidetable_clearDeallocating
  <2> QED
    BY <1>3, <2>1, <2>2, HalvesPinned DEF sidetable_clearDeallocating
<1>4. CASE Free(t)
  BY <1>4 DEF Free
<1> QED
  BY <1>1, <1>2, <1>3, <1>4 DEF Dealloc

\* Beginning a call preserves it.
LEMMA CallsWordInv ==
  ASSUME WordInv, NEW t \in Threads, Calls(t)
  PROVE  WordInv'
<1> USE ConstantTypes, DeadIsaType
<1>1. CASE CallRetain(t)
  BY <1>1 DEF CallRetain, FreeRefs
<1>2. CASE CallRelease(t)
  BY <1>2 DEF CallRelease
<1>3. CASE CallLoadWeak(t)
  BY <1>3 DEF CallLoadWeak, FreeRefs
<1>4. CASE CallStoreWeak(t)
  BY <1>4 DEF CallStoreWeak
<1>5. CASE CallChangeIsa(t)
  BY <1>5 DEF CallChangeIsa
<1> QED
  BY <1>1, <1>2, <1>3, <1>4, <1>5 DEF Calls

\* So does a step that changes nothing.
LEMMA StutterWordInv == WordInv /\ UNCHANGED vars => WordInv'
BY DEF vars

\* Every step preserves the invariant.
LEMMA NextWordInv == WordInv /\ [Next]_vars => WordInv'
<1> SUFFICES ASSUME WordInv, [Next]_vars PROVE WordInv'
  OBVIOUS
<1>1. CASE UNCHANGED vars
  BY <1>1, StutterWordInv
<1>2. ASSUME NEW t \in Threads, Calls(t) PROVE WordInv'
  BY <1>2, CallsWordInv
<1>3. ASSUME NEW t \in Threads, Step(t) PROVE WordInv'
  BY <1>3, RetainWordInv, ReleaseWordInv, WeakWordInv, ChangeIsaWordInv,
     DeallocWordInv DEF Step
<1>4. ASSUME NEW t \in Threads, NEW u \in Threads, Transfer(t, u) PROVE WordInv'
  BY <1>4 DEF Transfer
<1> QED
  BY <1>1, <1>2, <1>3, <1>4 DEF Next

\* The inductive invariant holds in every reachable state.
THEOREM WordInvariant == Spec => []WordInv
BY InitWordInv, NextWordInv, PTL DEF Spec

\* Every variable keeps its type, for any number of threads and references
\* and even when counts are pinned; a borrow never takes more than the side
\* table holds.
THEOREM TypeCorrect == Spec => []TypeOK
<1>1. WordInv => TypeOK
  OBVIOUS
<1> QED
  BY <1>1, WordInvariant, PTL

\* The asserts of the side-table helpers hold: under a non-pointer isa the
\* entry has no flag bits and holds whole halves.
THEOREM SideTableAssertsHold == Spec => []SideTableAsserts
<1>1. ASSUME WordInv, isa.nonpointer
      PROVE  \E k \in 0 .. side.rc : side.rc = k * RC_HALF
  <2>1. PICK k \in Nat : side.rc = k * RC_HALF
    BY <1>1 DEF Halves
  <2>2. k <= k * RC_HALF
    BY ConstantTypes
  <2> QED
    BY <1>1, <2>1, <2>2
<1>2. WordInv => SideTableAsserts
  BY <1>1 DEF SideTableAsserts
<1> QED
  BY <1>2, WordInvariant, PTL

\* No step takes the isa back from raw to non-pointer, or clears
\* has_sidetable_rc, weakly_referenced or deallocating of a non-pointer isa.
THEOREM IsaNeverGoesBack == Spec => IsaMonotone
<1> USE DEF IsaStep
<1>1. ASSUME isa' = isa PROVE IsaStep
  BY <1>1
<1>2. ASSUME WordInv, NEW t \in Threads, RetainStore(t) PROVE IsaStep
  BY <1>2, ConstantTypes DEF RetainStore
<1>3. ASSUME WordInv, NEW t \in Threads, RetainStoreHalf(t) PROVE IsaStep
  BY <1>3, ConstantTypes DEF RetainStoreHalf, Halved
<1>4. ASSUME WordInv, NEW t \in Threads, ReleaseStore(t) PROVE IsaStep
  BY <1>4, ConstantTypes DEF ReleaseStore
<1>5. ASSUME WordInv, NEW t \in Threads, BorrowStore(t) PROVE IsaStep
  BY <1>5, ConstantTypes DEF BorrowStore
<1>6. ASSUME WordInv, NEW t \in Threads, BorrowAgain(t) PROVE IsaStep
  BY <1>6, ConstantTypes DEF BorrowAgain
<1>7. ASSUME WordInv, NEW t \in Threads, DeallocStore(t) PROVE IsaStep
  BY <1>7, ConstantTypes DEF DeallocStore
<1>8. ASSUME WordInv, NEW t \in Threads, WeakMarkStore(t) PROVE IsaStep
  BY <1>8, ConstantTypes DEF WeakMarkStore
<1>9. ASSUME WordInv, NEW t \in Threads, ChangeIsaStore(t) PROVE IsaStep
  BY <1>9, ConstantTypes DEF ChangeIsaStore
<1>10. ASSUME WordInv, NEW t \in Threads, ChangeIsaStoreRaw(t) PROVE IsaStep
  BY <1>10, ConstantTypes DEF ChangeIsaStoreRaw, initIsa, Transcribe
<1>11. ASSUME WordInv, NEW t \in Threads, Calls(t) PROVE isa' = isa
  BY <1>11 DEF Calls, CallRetain, CallRelease, CallLoadWeak, CallStoreWeak,
     CallChangeIsa
<1>12. ASSUME WordInv, NEW t \in Threads, Retain(t) PROVE IsaStep
  BY <1>12, <1>1, <1>2, <1>3 DEF Retain, RetainRaw, sidetable_retain,
     sidetable_tryRetain, TryRetainFails, RetainLoad, RetainLock,
     RetainStoreFails, RetainSide
<1>13. ASSUME WordInv, NEW t \in Threads, Release(t) PROVE IsaStep
  BY <1>13, <1>1, <1>4, <1>5, <1>6, <1>7 DEF Release, ReleaseRaw, sidetable_release,
     ReleaseLoad, ReleaseStoreFails, UnderflowNeedsLock, ReleaseLock,
     UnderflowBorrow, BorrowStoreFails, BorrowAgainFails, UnderflowDealloc
<1>14. ASSUME WordInv, NEW t \in Threads, Weak(t) PROVE IsaStep
  BY <1>14, <1>1, <1>8 DEF Weak, WeakRead, LoadWeakLock, StoreWeakRejected,
     StoreWeakLock, WeakMark, WeakMarkLoad, WeakMarkStoreFails
<1>15. ASSUME WordInv, NEW t \in Threads, ChangeIsa(t) PROVE IsaStep
  BY <1>15, <1>1, <1>9, <1>10 DEF ChangeIsa, ChangeIsaLoad, ChangeIsaLock,
     ChangeIsaStoreFails, ChangeIsaMove
<1>16. ASSUME WordInv, NEW t \in Threads, Dealloc(t) PROVE isa' = isa
  BY <1>16 DEF Dealloc, rootDealloc, clearDeallocating_slow,
     sidetable_clearDeallocating, Free
<1>17. ASSUME NEW t \in Threads, NEW u \in Threads, Transfer(t, u) PROVE isa' = isa
  BY <1>17 DEF Transfer
<1>18. WordInv /\ [Next]_vars => [IsaStep]_vars
  BY <1>1, <1>11, <1>12, <1>13, <1>14, <1>15, <1>16, <1>17 DEF Next, Step
<1> QED
  BY <1>18, WordInvariant, PTL DEF Spec, IsaMonotone

HIDE DEF isa_t, Entry, WordInv, TypeOK, Remembers, PCs, mem, Goto, Return, Lock, Unlock,
         LoadExclusive, StoreExclusive, Gain, Lose, Call
-----------------------------------------------------------------------------
(* The count, and the refinement. *)

\* The number of references fits below SIDE_TABLE_RC_PINNED.
NotPinned == Cardinality(Refs) < RC_PINNED

\* Where a call is about to create its reference, and where about to drop it.
Gaining == {"retain", "retainLock", "retainStore", "sidetable_retain",
            "weakRead", "weakLoadLock"}
Losing == {"release", "releaseLock", "releaseStore", "borrowStore", "borrowAgain",
           "deallocStore", "sidetable_release", "overreleased"}

\* Every call works on a reference of its own.
Tokens ==
  /\ \A t \in Threads :
       /\ pc[t] \in Gaining => tok[t] \in Refs /\ owner[tok[t]] = NoThread
       /\ pc[t] \in Losing \cup {"retainSide"} => tok[t] \in Refs /\ owner[tok[t]] = t
       /\ pc[t] \notin Gaining \cup Losing \cup {"retainSide"} => tok[t] = NoRef
  /\ \A t, u \in Threads : tok[t] = tok[u] /\ tok[t] # NoRef => t = u

\* Who holds the side-table lock.
Locked ==
  \A t \in Threads :
    /\ pc[t] \in {"retainSide", "borrowStore", "borrowAgain", "changeIsaMove",
                  "weakMark", "weakMarkStore"} => lock = t
    /\ pc[t] = "retainStore" /\ Carry(old[t]) => lock = t
    /\ pc[t] = "changeIsaStore" /\ Transcribe(t, old[t]) => lock = t
    /\ pc[t] = "deallocStore" /\ old[t].has_sidetable_rc => lock = t
    /\ try[t] => lock = t /\ pc[t] \in {"retain", "retainStore", "retainSide"} /\ loc

\* What a thread knows from the isa it loaded, and what the lock lets it rely on.
Knows(t) ==
  /\ pc[t] \in {"retainLock", "retainStore", "releaseStore", "borrowStore",
                "borrowAgain", "deallocStore", "weakMarkStore", "changeIsaMove"}
       => old[t].nonpointer
  /\ pc[t] = "retainStore" /\ try[t] => ~old[t].deallocating
  /\ pc[t] \in {"borrowStore", "deallocStore"} => old[t].extra_rc = 0
  /\ pc[t] \in {"retainSide", "borrowStore", "borrowAgain"}
       => isa.nonpointer /\ isa.has_sidetable_rc
  /\ pc[t] = "deallocStore" =>
       ~old[t].deallocating /\ (old[t].has_sidetable_rc => side.rc = 0)

\* A raw isa has no inline count, and a non-pointer one says where to look.
Words == /\ ~isa.nonpointer => isa.extra_rc = 0
         /\ isa.nonpointer /\ ~isa.has_sidetable_rc => side = NoEntry
         /\ \A t \in Threads : Knows(t)

Control == WordInv /\ Tokens /\ Locked /\ Words
-----------------------------------------------------------------------------
\* What the holder of the lock has taken out of one word and not yet put into
\* the other.
Moving(t) == IF pc[t] \in {"retainSide", "borrowStore", "borrowAgain"} THEN RC_HALF
             ELSE IF pc[t] = "changeIsaMove" THEN old[t].extra_rc ELSE 0
InFlight == IF lock = NoThread THEN 0 ELSE Moving(lock)

Total == isa.extra_rc + side.rc + InFlight
Begun == IF deallocator = NoThread THEN 0 ELSE 1

\* The count is one less than the number of references, until -dealloc begins.
Count == 1 + Total = Cardinality(Live) + Begun

\* Where a client uses the object on the strength of a reference it owns.
Using == {"retain", "retainLock", "retainStore", "sidetable_retain", "weakStoreLock",
          "changeIsa", "changeIsaLock", "changeIsaStore", "changeIsaMove"}

Clients ==
  \A t \in Threads :
    /\ pc[t] \in Using /\ ~try[t] => MayUse(t)
    /\ pc[t] \in {"weakMark", "weakMarkStore"} => Owns(t) /\ deallocator = NoThread

\* -dealloc cleared the weak variable and the side-table entry.
Cleared == freed \/ \E t \in Threads : pc[t] = "free"

\* The deallocating bit and the weak bit are where the isa says.
Bits ==
  /\ isa.nonpointer => /\ isa.deallocating <=> deallocator # NoThread
                       /\ loc => isa.weakly_referenced
  /\ \A t \in Threads : pc[t] = "changeIsaMove" =>
       /\ old[t].deallocating <=> deallocator # NoThread
       /\ loc => old[t].weakly_referenced
       /\ ~side.deallocating
  /\ ~isa.nonpointer /\ ~Cleared /\ (\A t \in Threads : pc[t] # "changeIsaMove") =>
       /\ side.deallocating <=> deallocator # NoThread
       /\ loc => side.weak

\* -dealloc runs on one thread, once there are no references.
Ending ==
  /\ NoPrematureDealloc
  /\ \A t \in Threads : pc[t] \in {"clearSlow", "clearRaw", "free"} =>
       /\ deallocator = t /\ ~freed /\ Live = {}
       /\ pc[t] = "clearSlow" => isa.nonpointer
       /\ pc[t] = "clearRaw" => ~isa.nonpointer
  /\ freed => deallocator # NoThread /\ Live = {}
  /\ Cleared => ~loc /\ side = NoEntry

Account == Count /\ Clients /\ Bits /\ Ending
-----------------------------------------------------------------------------
(* Control. *)


\* Tokens, kept by rootRetain.
LEMMA RetainTokens ==
  ASSUME Control, NEW t \in Threads, Retain(t)
  PROVE  Tokens'
<1> USE ConstantTypes DEF Control, WordInv, TypeOK, PCs, Tokens, Gaining, Losing, Goto,
        Return, Gain, Lose, mem
<1>1. CASE RetainRaw(t)
  BY <1>1 DEF RetainRaw
<1>2. CASE sidetable_retain(t)
  BY <1>2 DEF sidetable_retain
<1>3. CASE sidetable_tryRetain(t)
  BY <1>3 DEF sidetable_tryRetain
<1>4. CASE TryRetainFails(t)
  BY <1>4 DEF TryRetainFails
<1>5. CASE RetainLoad(t)
  BY <1>5 DEF RetainLoad
<1>6. CASE RetainLock(t)
  BY <1>6 DEF RetainLock
<1>7. CASE RetainStore(t)
  BY <1>7 DEF RetainStore
<1>8. CASE RetainStoreHalf(t)
  BY <1>8 DEF RetainStoreHalf
<1>9. CASE RetainStoreFails(t)
  BY <1>9 DEF RetainStoreFails
<1>10. CASE RetainSide(t)
  BY <1>10 DEF RetainSide
<1> QED
  BY <1>1, <1>2, <1>3, <1>4, <1>5, <1>6, <1>7, <1>8, <1>9, <1>10 DEF Retain

\* Tokens, kept by rootRelease.
LEMMA ReleaseTokens ==
  ASSUME Control, NEW t \in Threads, Release(t)
  PROVE  Tokens'
<1> USE ConstantTypes DEF Control, WordInv, TypeOK, PCs, Tokens, Gaining, Losing, Goto,
        Return, Gain, Lose, mem
<1>1. CASE ReleaseRaw(t)
  BY <1>1 DEF ReleaseRaw
<1>2. CASE sidetable_release(t)
  BY <1>2 DEF sidetable_release
<1>3. CASE ReleaseLoad(t)
  BY <1>3 DEF ReleaseLoad
<1>4. CASE ReleaseStore(t)
  BY <1>4 DEF ReleaseStore
<1>5. CASE ReleaseStoreFails(t)
  BY <1>5 DEF ReleaseStoreFails
<1>6. CASE UnderflowNeedsLock(t)
  BY <1>6 DEF UnderflowNeedsLock
<1>7. CASE ReleaseLock(t)
  BY <1>7 DEF ReleaseLock
<1>8. CASE UnderflowBorrow(t)
  BY <1>8 DEF UnderflowBorrow, Underflow, Borrowed
<1>9. CASE BorrowStore(t)
  BY <1>9 DEF BorrowStore
<1>10. CASE BorrowStoreFails(t)
  BY <1>10 DEF BorrowStoreFails
<1>11. CASE BorrowAgain(t)
  BY <1>11 DEF BorrowAgain
<1>12. CASE BorrowAgainFails(t)
  BY <1>12 DEF BorrowAgainFails
<1>13. CASE UnderflowDealloc(t)
  BY <1>13 DEF UnderflowDealloc, Underflow, Borrowed,
         sidetable_subExtraRC_nolock
<1>14. CASE DeallocStore(t)
  BY <1>14 DEF DeallocStore
<1> QED
  BY <1>1, <1>2, <1>3, <1>4, <1>5, <1>6, <1>7, <1>8, <1>9, <1>10, <1>11, <1>12, <1>13,
     <1>14 DEF Release

\* Tokens, kept by the weak-reference entry points.
LEMMA WeakTokens ==
  ASSUME Control, NEW t \in Threads, Weak(t)
  PROVE  Tokens'
<1> USE ConstantTypes DEF Control, WordInv, TypeOK, PCs, Tokens, Gaining, Losing, Goto,
        Return, Gain, Lose, mem
<1>1. CASE WeakRead(t)
  BY <1>1 DEF WeakRead
<1>2. CASE LoadWeakLock(t)
  BY <1>2 DEF LoadWeakLock
<1>3. CASE StoreWeakRejected(t)
  BY <1>3 DEF StoreWeakRejected
<1>4. CASE StoreWeakLock(t)
  BY <1>4 DEF StoreWeakLock
<1>5. CASE WeakMark(t)
  BY <1>5 DEF WeakMark, FinishStoreWeak
<1>6. CASE WeakMarkLoad(t)
  BY <1>6 DEF WeakMarkLoad
<1>7. CASE WeakMarkStore(t)
  BY <1>7 DEF WeakMarkStore, FinishStoreWeak
<1>8. CASE WeakMarkStoreFails(t)
  BY <1>8 DEF WeakMarkStoreFails
<1> QED
  BY <1>1, <1>2, <1>3, <1>4, <1>5, <1>6, <1>7, <1>8 DEF Weak

\* Tokens, kept by changeIsa.
LEMMA ChangeIsaTokens ==
  ASSUME Control, NEW t \in Threads, ChangeIsa(t)
  PROVE  Tokens'
<1> USE ConstantTypes DEF Control, WordInv, TypeOK, PCs, Tokens, Gaining, Losing, Goto,
        Return, Gain, Lose, mem
<1>1. CASE ChangeIsaLoad(t)
  BY <1>1 DEF ChangeIsaLoad
<1>2. CASE ChangeIsaLock(t)
  BY <1>2 DEF ChangeIsaLock
<1>3. CASE ChangeIsaStore(t)
  BY <1>3 DEF ChangeIsaStore
<1>4. CASE ChangeIsaStoreRaw(t)
  BY <1>4 DEF ChangeIsaStoreRaw
<1>5. CASE ChangeIsaStoreFails(t)
  BY <1>5 DEF ChangeIsaStoreFails
<1>6. CASE ChangeIsaMove(t)
  BY <1>6 DEF ChangeIsaMove
<1> QED
  BY <1>1, <1>2, <1>3, <1>4, <1>5, <1>6 DEF ChangeIsa

\* Tokens, kept by -dealloc.
LEMMA DeallocTokens ==
  ASSUME Control, NEW t \in Threads, Dealloc(t)
  PROVE  Tokens'
<1> USE ConstantTypes DEF Control, WordInv, TypeOK, PCs, Tokens, Gaining, Losing, Goto,
        Return, Gain, Lose, mem
<1>1. CASE rootDealloc(t)
  BY <1>1 DEF rootDealloc
<1>2. CASE clearDeallocating_slow(t)
  BY <1>2 DEF clearDeallocating_slow
<1>3. CASE sidetable_clearDeallocating(t)
  BY <1>3 DEF sidetable_clearDeallocating
<1>4. CASE Free(t)
  BY <1>4 DEF Free
<1> QED
  BY <1>1, <1>2, <1>3, <1>4 DEF Dealloc

\* Tokens, kept by the beginning of a call.
LEMMA CallsTokens ==
  ASSUME Control, NEW t \in Threads, Calls(t)
  PROVE  Tokens'
<1> USE ConstantTypes DEF Control, WordInv, TypeOK, PCs, Tokens, Gaining, Losing, Goto,
        Return, Gain, Lose, mem
<1>1. CASE CallRetain(t)
  BY <1>1 DEF CallRetain, Call, FreeRefs
<1>2. CASE CallRelease(t)
  BY <1>2 DEF CallRelease
<1>3. CASE CallLoadWeak(t)
  BY <1>3 DEF CallLoadWeak, Call, FreeRefs
<1>4. CASE CallStoreWeak(t)
  BY <1>4 DEF CallStoreWeak, Call
<1>5. CASE CallChangeIsa(t)
  BY <1>5 DEF CallChangeIsa, Call
<1> QED
  BY <1>1, <1>2, <1>3, <1>4, <1>5 DEF Calls

\* Locked, kept by rootRetain.
LEMMA RetainLocked ==
  ASSUME Control, NEW t \in Threads, Retain(t)
  PROVE  Locked'
<1> USE ConstantTypes DEF Control, WordInv, TypeOK, PCs, Locked, Goto, Return, Lock,
        Unlock, LoadExclusive, mem, Transcribe
<1>1. CASE RetainRaw(t)
  BY <1>1 DEF RetainRaw
<1>2. CASE sidetable_retain(t)
  BY <1>2 DEF sidetable_retain
<1>3. CASE sidetable_tryRetain(t)
  BY <1>3 DEF sidetable_tryRetain
<1>4. CASE TryRetainFails(t)
  BY <1>4 DEF TryRetainFails
<1>5. CASE RetainLoad(t)
  BY <1>5 DEF RetainLoad
<1>6. CASE RetainLock(t)
  BY <1>6 DEF RetainLock
<1>7. CASE RetainStore(t)
  BY <1>7 DEF RetainStore
<1>8. CASE RetainStoreHalf(t)
  BY <1>8 DEF RetainStoreHalf
<1>9. CASE RetainStoreFails(t)
  BY <1>9 DEF RetainStoreFails
<1>10. CASE RetainSide(t)
  BY <1>10 DEF RetainSide
<1> QED
  BY <1>1, <1>2, <1>3, <1>4, <1>5, <1>6, <1>7, <1>8, <1>9, <1>10 DEF Retain

\* Locked, kept by rootRelease.
LEMMA ReleaseLocked ==
  ASSUME Control, NEW t \in Threads, Release(t)
  PROVE  Locked'
<1> USE ConstantTypes DEF Control, WordInv, TypeOK, PCs, Locked, Goto, Return, Lock,
        Unlock, LoadExclusive, mem, Transcribe
<1>1. CASE ReleaseRaw(t)
  BY <1>1 DEF ReleaseRaw
<1>2. CASE sidetable_release(t)
  BY <1>2 DEF sidetable_release
<1>3. CASE ReleaseLoad(t)
  BY <1>3 DEF ReleaseLoad
<1>4. CASE ReleaseStore(t)
  BY <1>4 DEF ReleaseStore
<1>5. CASE ReleaseStoreFails(t)
  BY <1>5 DEF ReleaseStoreFails
<1>6. CASE UnderflowNeedsLock(t)
  BY <1>6 DEF UnderflowNeedsLock
<1>7. CASE ReleaseLock(t)
  BY <1>7 DEF ReleaseLock
<1>8. CASE UnderflowBorrow(t)
  BY <1>8 DEF UnderflowBorrow, Underflow, Borrowed
<1>9. CASE BorrowStore(t)
  BY <1>9 DEF BorrowStore
<1>10. CASE BorrowStoreFails(t)
  BY <1>10 DEF BorrowStoreFails
<1>11. CASE BorrowAgain(t)
  BY <1>11 DEF BorrowAgain
<1>12. CASE BorrowAgainFails(t)
  BY <1>12 DEF BorrowAgainFails
<1>13. CASE UnderflowDealloc(t)
  BY <1>13 DEF UnderflowDealloc, Underflow, Borrowed,
         sidetable_subExtraRC_nolock
<1>14. CASE DeallocStore(t)
  BY <1>14 DEF DeallocStore
<1> QED
  BY <1>1, <1>2, <1>3, <1>4, <1>5, <1>6, <1>7, <1>8, <1>9, <1>10, <1>11, <1>12, <1>13,
     <1>14 DEF Release

\* Locked, kept by the weak-reference entry points.
LEMMA WeakLocked ==
  ASSUME Control, NEW t \in Threads, Weak(t)
  PROVE  Locked'
<1> USE ConstantTypes DEF Control, WordInv, TypeOK, PCs, Locked, Goto, Return, Lock,
        Unlock, LoadExclusive, mem, Transcribe
<1>1. CASE WeakRead(t)
  BY <1>1 DEF WeakRead
<1>2. CASE LoadWeakLock(t)
  BY <1>2 DEF LoadWeakLock
<1>3. CASE StoreWeakRejected(t)
  BY <1>3 DEF StoreWeakRejected
<1>4. CASE StoreWeakLock(t)
  BY <1>4 DEF StoreWeakLock
<1>5. CASE WeakMark(t)
  BY <1>5 DEF WeakMark, FinishStoreWeak
<1>6. CASE WeakMarkLoad(t)
  BY <1>6 DEF WeakMarkLoad
<1>7. CASE WeakMarkStore(t)
  BY <1>7 DEF WeakMarkStore, FinishStoreWeak
<1>8. CASE WeakMarkStoreFails(t)
  BY <1>8 DEF WeakMarkStoreFails
<1> QED
  BY <1>1, <1>2, <1>3, <1>4, <1>5, <1>6, <1>7, <1>8 DEF Weak

\* Locked, kept by changeIsa.
LEMMA ChangeIsaLocked ==
  ASSUME Control, NEW t \in Threads, ChangeIsa(t)
  PROVE  Locked'
<1> USE ConstantTypes DEF Control, WordInv, TypeOK, PCs, Locked, Goto, Return, Lock,
        Unlock, LoadExclusive, mem, Transcribe
<1>1. CASE ChangeIsaLoad(t)
  BY <1>1 DEF ChangeIsaLoad
<1>2. CASE ChangeIsaLock(t)
  BY <1>2 DEF ChangeIsaLock
<1>3. CASE ChangeIsaStore(t)
  BY <1>3 DEF ChangeIsaStore
<1>4. CASE ChangeIsaStoreRaw(t)
  BY <1>4 DEF ChangeIsaStoreRaw
<1>5. CASE ChangeIsaStoreFails(t)
  BY <1>5 DEF ChangeIsaStoreFails
<1>6. CASE ChangeIsaMove(t)
  BY <1>6 DEF ChangeIsaMove
<1> QED
  BY <1>1, <1>2, <1>3, <1>4, <1>5, <1>6 DEF ChangeIsa

\* Locked, kept by -dealloc.
LEMMA DeallocLocked ==
  ASSUME Control, NEW t \in Threads, Dealloc(t)
  PROVE  Locked'
<1> USE ConstantTypes DEF Control, WordInv, TypeOK, PCs, Locked, Goto, Return, Lock,
        Unlock, LoadExclusive, mem, Transcribe
<1>1. CASE rootDealloc(t)
  BY <1>1 DEF rootDealloc
<1>2. CASE clearDeallocating_slow(t)
  BY <1>2 DEF clearDeallocating_slow
<1>3. CASE sidetable_clearDeallocating(t)
  BY <1>3 DEF sidetable_clearDeallocating
<1>4. CASE Free(t)
  BY <1>4 DEF Free
<1> QED
  BY <1>1, <1>2, <1>3, <1>4 DEF Dealloc

\* Locked, kept by the beginning of a call.
LEMMA CallsLocked ==
  ASSUME Control, NEW t \in Threads, Calls(t)
  PROVE  Locked'
<1> USE ConstantTypes DEF Control, WordInv, TypeOK, PCs, Locked, Goto, Return, Lock,
        Unlock, LoadExclusive, mem, Transcribe
<1>1. CASE CallRetain(t)
  BY <1>1 DEF CallRetain, Call, FreeRefs
<1>2. CASE CallRelease(t)
  BY <1>2 DEF CallRelease
<1>3. CASE CallLoadWeak(t)
  BY <1>3 DEF CallLoadWeak, Call, FreeRefs
<1>4. CASE CallStoreWeak(t)
  BY <1>4 DEF CallStoreWeak, Call
<1>5. CASE CallChangeIsa(t)
  BY <1>5 DEF CallChangeIsa, Call
<1> QED
  BY <1>1, <1>2, <1>3, <1>4, <1>5 DEF Calls

\* Words, kept by rootRetain.
LEMMA RetainWords ==
  ASSUME Control, NEW t \in Threads, Retain(t)
  PROVE  Words'
<1> USE ConstantTypes DEF Control, WordInv, TypeOK, isa_t, Entry, PCs, Tokens, Gaining,
        Losing, Locked, Words, Knows, Remembers, Goto, Return, Lock, Unlock,
        LoadExclusive, StoreExclusive, mem
<1>1. CASE RetainRaw(t)
  BY <1>1 DEF RetainRaw
<1>2. CASE sidetable_retain(t)
  BY <1>2 DEF sidetable_retain
<1>3. CASE sidetable_tryRetain(t)
  BY <1>3 DEF sidetable_tryRetain
<1>4. CASE TryRetainFails(t)
  BY <1>4 DEF TryRetainFails
<1>5. CASE RetainLoad(t)
  BY <1>5 DEF RetainLoad
<1>6. CASE RetainLock(t)
  BY <1>6 DEF RetainLock
<1>7. CASE RetainStore(t)
  BY <1>7 DEF RetainStore, Carry
<1>8. CASE RetainStoreHalf(t)
  BY <1>8 DEF RetainStoreHalf, Halved
<1>9. CASE RetainStoreFails(t)
  BY <1>9 DEF RetainStoreFails
<1>10. CASE RetainSide(t)
  BY <1>10 DEF RetainSide
<1> QED
  BY <1>1, <1>2, <1>3, <1>4, <1>5, <1>6, <1>7, <1>8, <1>9, <1>10 DEF Retain

\* Words, kept by rootRelease.
LEMMA ReleaseWords ==
  ASSUME Control, NEW t \in Threads, Release(t)
  PROVE  Words'
<1> USE ConstantTypes DEF Control, WordInv, TypeOK, isa_t, Entry, PCs, Tokens, Gaining,
        Losing, Locked, Words, Knows, Remembers, Goto, Return, Lock, Unlock,
        LoadExclusive, StoreExclusive, mem
<1>1. CASE ReleaseRaw(t)
  BY <1>1 DEF ReleaseRaw
<1>2. CASE sidetable_release(t)
  BY <1>2 DEF sidetable_release
<1>3. CASE ReleaseLoad(t)
  BY <1>3 DEF ReleaseLoad
<1>4. CASE ReleaseStore(t)
  BY <1>4 DEF ReleaseStore
<1>5. CASE ReleaseStoreFails(t)
  BY <1>5 DEF ReleaseStoreFails
<1>6. CASE UnderflowNeedsLock(t)
  BY <1>6 DEF UnderflowNeedsLock
<1>7. CASE ReleaseLock(t)
  BY <1>7 DEF ReleaseLock
<1>8. CASE UnderflowBorrow(t)
  BY <1>8 DEF UnderflowBorrow, Underflow, Borrowed
<1>9. CASE BorrowStore(t)
  BY <1>9 DEF BorrowStore
<1>10. CASE BorrowStoreFails(t)
  BY <1>10 DEF BorrowStoreFails
<1>11. CASE BorrowAgain(t)
  BY <1>11 DEF BorrowAgain
<1>12. CASE BorrowAgainFails(t)
  BY <1>12 DEF BorrowAgainFails
<1>13. CASE UnderflowDealloc(t)
  BY <1>13 DEF UnderflowDealloc, Underflow, Borrowed,
         sidetable_subExtraRC_nolock
<1>14. CASE DeallocStore(t)
  BY <1>14 DEF DeallocStore
<1> QED
  BY <1>1, <1>2, <1>3, <1>4, <1>5, <1>6, <1>7, <1>8, <1>9, <1>10, <1>11, <1>12, <1>13,
     <1>14 DEF Release

\* Words, kept by the weak-reference entry points.
LEMMA WeakWords ==
  ASSUME Control, NEW t \in Threads, Weak(t)
  PROVE  Words'
<1> USE ConstantTypes DEF Control, WordInv, TypeOK, isa_t, Entry, PCs, Tokens, Gaining,
        Losing, Locked, Words, Knows, Remembers, Goto, Return, Lock, Unlock,
        LoadExclusive, StoreExclusive, mem
<1>1. CASE WeakRead(t)
  BY <1>1 DEF WeakRead
<1>2. CASE LoadWeakLock(t)
  BY <1>2 DEF LoadWeakLock
<1>3. CASE StoreWeakRejected(t)
  BY <1>3 DEF StoreWeakRejected
<1>4. CASE StoreWeakLock(t)
  BY <1>4 DEF StoreWeakLock
<1>5. CASE WeakMark(t)
  BY <1>5 DEF WeakMark, FinishStoreWeak
<1>6. CASE WeakMarkLoad(t)
  BY <1>6 DEF WeakMarkLoad
<1>7. CASE WeakMarkStore(t)
  BY <1>7 DEF WeakMarkStore, FinishStoreWeak
<1>8. CASE WeakMarkStoreFails(t)
  BY <1>8 DEF WeakMarkStoreFails
<1> QED
  BY <1>1, <1>2, <1>3, <1>4, <1>5, <1>6, <1>7, <1>8 DEF Weak

\* Words, kept by changeIsa.
LEMMA ChangeIsaWords ==
  ASSUME Control, NEW t \in Threads, ChangeIsa(t)
  PROVE  Words'
<1> USE ConstantTypes DEF Control, WordInv, TypeOK, isa_t, Entry, PCs, Tokens, Gaining,
        Losing, Locked, Words, Knows, Remembers, Goto, Return, Lock, Unlock,
        LoadExclusive, StoreExclusive, mem
<1>1. CASE ChangeIsaLoad(t)
  BY <1>1 DEF ChangeIsaLoad
<1>2. CASE ChangeIsaLock(t)
  BY <1>2 DEF ChangeIsaLock
<1>3. CASE ChangeIsaStore(t)
  BY <1>3 DEF ChangeIsaStore, Transcribe
<1>4. CASE ChangeIsaStoreRaw(t)
  BY <1>4 DEF ChangeIsaStoreRaw, initIsa, Transcribe
<1>5. CASE ChangeIsaStoreFails(t)
  BY <1>5 DEF ChangeIsaStoreFails
<1>6. CASE ChangeIsaMove(t)
  BY <1>6 DEF ChangeIsaMove
<1> QED
  BY <1>1, <1>2, <1>3, <1>4, <1>5, <1>6 DEF ChangeIsa

\* Words, kept by -dealloc.
LEMMA DeallocWords ==
  ASSUME Control, NEW t \in Threads, Dealloc(t)
  PROVE  Words'
<1> USE ConstantTypes DEF Control, WordInv, TypeOK, isa_t, Entry, PCs, Tokens, Gaining,
        Losing, Locked, Words, Knows, Remembers, Goto, Return, Lock, Unlock,
        LoadExclusive, StoreExclusive, mem
<1>1. CASE rootDealloc(t)
  BY <1>1 DEF rootDealloc
<1>2. CASE clearDeallocating_slow(t)
  BY <1>2 DEF clearDeallocating_slow
<1>3. CASE sidetable_clearDeallocating(t)
  BY <1>3 DEF sidetable_clearDeallocating
<1>4. CASE Free(t)
  BY <1>4 DEF Free
<1> QED
  BY <1>1, <1>2, <1>3, <1>4 DEF Dealloc

\* Words, kept by the beginning of a call.
LEMMA CallsWords ==
  ASSUME Control, NEW t \in Threads, Calls(t)
  PROVE  Words'
<1> USE ConstantTypes DEF Control, WordInv, TypeOK, isa_t, Entry, PCs, Tokens, Gaining,
        Losing, Locked, Words, Knows, Remembers, Goto, Return, Lock, Unlock,
        LoadExclusive, StoreExclusive, mem
<1>1. CASE CallRetain(t)
  BY <1>1 DEF CallRetain, Call, FreeRefs
<1>2. CASE CallRelease(t)
  BY <1>2 DEF CallRelease
<1>3. CASE CallLoadWeak(t)
  BY <1>3 DEF CallLoadWeak, Call, FreeRefs
<1>4. CASE CallStoreWeak(t)
  BY <1>4 DEF CallStoreWeak, Call
<1>5. CASE CallChangeIsa(t)
  BY <1>5 DEF CallChangeIsa, Call
<1> QED
  BY <1>1, <1>2, <1>3, <1>4, <1>5 DEF Calls

\* Every step keeps Control.
LEMMA ControlStep ==
  ASSUME Control, [Next]_vars
  PROVE  Control'
<1>0. WordInv'
  BY NextWordInv DEF Control
<1>1. CASE UNCHANGED vars
  <2>1. UNCHANGED <<isa, side, lock, loc, owner, pc, old, try, tok, cls>>
    BY <1>1 DEF vars
  <2>2. Tokens' /\ Locked' /\ Words'
    BY <2>1 DEF Control, Tokens, Locked, Carry, Transcribe, Words, Knows
  <2> QED
    BY <1>0, <2>2 DEF Control
<1>2. ASSUME NEW t \in Threads, Calls(t) PROVE Control'
  BY <1>0, <1>2, CallsTokens, CallsLocked, CallsWords DEF Control
<1>3. ASSUME NEW t \in Threads, Step(t) PROVE Control'
  <2>1. CASE Retain(t)
    BY <1>0, <2>1, RetainTokens, RetainLocked, RetainWords DEF Control
  <2>2. CASE Release(t)
    BY <1>0, <2>2, ReleaseTokens, ReleaseLocked, ReleaseWords DEF Control
  <2>3. CASE Weak(t)
    BY <1>0, <2>3, WeakTokens, WeakLocked, WeakWords DEF Control
  <2>4. CASE ChangeIsa(t)
    BY <1>0, <2>4, ChangeIsaTokens, ChangeIsaLocked, ChangeIsaWords DEF Control
  <2>5. CASE Dealloc(t)
    BY <1>0, <2>5, DeallocTokens, DeallocLocked, DeallocWords DEF Control
  <2> QED
    BY <1>3, <2>1, <2>2, <2>3, <2>4, <2>5 DEF Step
<1>4. ASSUME NEW t \in Threads, NEW u \in Threads, Transfer(t, u) PROVE Control'
  <2>1. /\ UNCHANGED <<isa, side, lock, loc, pc, old, try, tok, cls>> /\ pc[t] = "idle"
        /\ \E r \in Refs : owner[r] = t /\ owner' = [owner EXCEPT ![r] = u]
    BY <1>4 DEF Transfer
  <2>2. Tokens'
    BY <2>1, ConstantTypes DEF Control, WordInv, TypeOK, Tokens, Gaining, Losing
  <2>3. Locked' /\ Words'
    BY <2>1 DEF Control, Locked, Carry, Transcribe, Words, Knows
  <2> QED
    BY <1>0, <2>2, <2>3 DEF Control
<1> QED
  BY <1>1, <1>2, <1>3, <1>4 DEF Next

LEMMA InitControl == Init => Control
<1> SUFFICES ASSUME Init PROVE Control
  OBVIOUS
<1>1. WordInv
  BY InitWordInv
<1>2. Tokens
  BY DEF Init, Tokens, Gaining, Losing
<1>3. Locked
  BY DEF Init, Locked
<1>4. Words
  BY DEF Init, Words, Knows, initIsa
<1> QED
  BY <1>1, <1>2, <1>3, <1>4 DEF Control
-----------------------------------------------------------------------------
(* The set of references. *)

\* The references are finitely many.
LEMMA LiveCard ==
  ASSUME Control
  PROVE  /\ IsFiniteSet(Live) /\ Cardinality(Live) \in Nat
         /\ Cardinality(Live) <= Cardinality(Refs) /\ Cardinality(Refs) \in Nat
         /\ Cardinality(Live) = 0 <=> Live = {}
         /\ \A r \in Live : Cardinality(Live) = 1 => Live = {r}
<1>1. IsFiniteSet(Refs) /\ Live \subseteq Refs
  BY RefCountAssumption DEF Live
<1>2. /\ IsFiniteSet(Live) /\ Cardinality(Live) \in Nat
      /\ Cardinality(Live) <= Cardinality(Refs) /\ Cardinality(Refs) \in Nat
  BY <1>1, FS_Subset, FS_CardinalityType
<1>3. Cardinality(Live) = 0 <=> Live = {}
  BY <1>2, FS_EmptySet
<1>4. ASSUME NEW r \in Live, Cardinality(Live) = 1 PROVE Live = {r}
  <2>1. /\ IsFiniteSet(Live \ {r})
        /\ Cardinality(Live \ {r}) = Cardinality(Live) - 1
    BY <1>2, FS_RemoveElement
  <2>2. Live \ {r} = {}
    BY <1>4, <2>1, FS_EmptySet
  <2> QED
    BY <2>2
<1> QED
  BY <1>2, <1>3, <1>4

\* A retain adds its token to the references.
LEMMA GainLive ==
  ASSUME Control, NEW t \in Threads, pc[t] \in Gaining, Gain(t)
  PROVE  /\ Cardinality(Live') = Cardinality(Live) + 1 /\ Live' = Live \cup {tok[t]}
         /\ \A u \in Threads : Owns(u) => Owns(u)'
         /\ Owns(t)'
<1>1. /\ tok[t] \in Refs /\ owner[tok[t]] = NoThread
      /\ owner \in [Refs -> Threads \cup {NoThread}]
      /\ owner' = [owner EXCEPT ![tok[t]] = t]
  BY DEF Control, Tokens, WordInv, TypeOK, Gain
<1>2. tok[t] \notin Live /\ Live' = Live \cup {tok[t]}
  BY <1>1, ConstantTypes DEF Live
<1>3. Cardinality(Live \cup {tok[t]}) = Cardinality(Live) + 1
  BY <1>2, LiveCard, FS_AddElement
<1>4. (\A u \in Threads : Owns(u) => Owns(u)') /\ Owns(t)'
  BY <1>1, ConstantTypes DEF Owns
<1> QED
  BY <1>2, <1>3, <1>4

\* A release takes its token away.
LEMMA LoseLive ==
  ASSUME Control, NEW t \in Threads, pc[t] \in Losing, Lose(t)
  PROVE  /\ Cardinality(Live') = Cardinality(Live) - 1 /\ Live' = Live \ {tok[t]}
         /\ tok[t] \in Live
         /\ \A u \in Threads : u # t /\ Owns(u) => Owns(u)'
<1>1. /\ tok[t] \in Refs /\ owner[tok[t]] = t
      /\ owner \in [Refs -> Threads \cup {NoThread}]
      /\ owner' = [owner EXCEPT ![tok[t]] = NoThread]
  BY DEF Control, Tokens, WordInv, TypeOK, Lose
<1>2. tok[t] \in Live /\ Live' = Live \ {tok[t]}
  BY <1>1, ConstantTypes DEF Live
<1>3. Cardinality(Live \ {tok[t]}) = Cardinality(Live) - 1
  BY <1>2, LiveCard, FS_RemoveElement
<1>4. \A u \in Threads : u # t /\ Owns(u) => Owns(u)'
  BY <1>1, ConstantTypes DEF Owns
<1> QED
  BY <1>2, <1>3, <1>4

\* Below the pinned count, whatever is being moved fits.
LEMMA Fits ==
  ASSUME Control, Count, NotPinned
  PROVE  /\ isa.extra_rc \in Nat /\ side.rc \in Nat /\ InFlight \in Nat
         /\ isa.extra_rc + side.rc + InFlight < RC_PINNED
         /\ isa.extra_rc + side.rc + InFlight + 1 = Cardinality(Live) + Begun
<1>1. isa.extra_rc \in Nat /\ side.rc \in Nat /\ InFlight \in Nat
  BY ConstantTypes DEF Control, WordInv, TypeOK, isa_t, Entry, InFlight, Moving
<1>2. Begun \in {0, 1}
  BY DEF Begun
<1> QED
  BY <1>1, <1>2, LiveCard, ConstantTypes DEF Count, Total, NotPinned
-----------------------------------------------------------------------------
(* Count. *)

LEMMA CountSame ==
  ASSUME Count, UNCHANGED <<owner, deallocator>>, Total' = Total
  PROVE  Count'
  BY DEF Count, Live, Begun

\* Without references there are no counts, and -dealloc began.
LEMMA Emptied ==
  ASSUME Control, Count, NotPinned, Live = {}
  PROVE  isa.extra_rc = 0 /\ side.rc = 0 /\ deallocator # NoThread
<1>1. /\ isa.extra_rc \in Nat /\ side.rc \in Nat /\ InFlight \in Nat
      /\ isa.extra_rc + side.rc + InFlight + 1 = Cardinality(Live) + Begun
  BY Fits
<1>2. Cardinality(Live) = 0 /\ Begun \in {0, 1}
  BY LiveCard DEF Begun
<1>3. \A a, b, c \in Nat : \A d \in {0, 1} : a + b + c + 1 = 0 + d => a = 0 /\ b = 0 /\ d = 1
  OBVIOUS
<1>4. isa.extra_rc + side.rc + InFlight + 1 = 0 + Begun
  BY <1>1, <1>2
<1>5. isa.extra_rc = 0 /\ side.rc = 0 /\ Begun = 1
  BY <1>1, <1>2, <1>3, <1>4
<1> QED
  BY <1>5 DEF Begun

LEMMA CountUp ==
  ASSUME Control, Account, NotPinned, UNCHANGED deallocator,
         Cardinality(Live') = Cardinality(Live) + 1, Total' = Total + 1
  PROVE  Count'
  BY Fits, LiveCard DEF Account, Count, Begun, Total

LEMMA CountDown ==
  ASSUME Control, Account, NotPinned, UNCHANGED deallocator,
         Cardinality(Live') = Cardinality(Live) - 1, Total' = Total - 1
  PROVE  Count'
  BY Fits, LiveCard DEF Account, Count, Begun, Total

\* Count, kept by rootRetain.
LEMMA RetainCount ==
  ASSUME Control, Account, NotPinned, NEW t \in Threads, Retain(t)
  PROVE  Count'
<1>0. Count
  BY DEF Account
<1> USE <1>0, ConstantTypes DEF Control, WordInv, TypeOK, isa_t, Entry, PCs, Locked, Words, Knows,
        Remembers, InFlight, Moving, Begun, Goto, Return, Lock, Unlock, LoadExclusive,
        StoreExclusive, mem
<1>1. CASE RetainRaw(t)
  <2>1. UNCHANGED <<owner, deallocator>> /\ Total' = Total
    BY <1>1 DEF RetainRaw, Total
  <2> QED
    BY <2>1, CountSame
<1>2. CASE sidetable_retain(t)
  <2>1. Cardinality(Live') = Cardinality(Live) + 1
    BY <1>2, GainLive DEF sidetable_retain, Gaining
  <2>2. UNCHANGED deallocator /\ Total' = Total + 1
    BY <1>2, Fits DEF sidetable_retain, sidetable_incr, WithCount, Pinned, Total
  <2> QED
    BY <2>1, <2>2, CountUp
<1>3. CASE sidetable_tryRetain(t)
  <2>1. lock = t /\ ~isa.nonpointer /\ isa' = isa /\ lock' = NoThread /\ pc[t] = "retain"
        /\ pc' = [pc EXCEPT ![t] = "idle"] /\ deallocator' = deallocator
    BY <1>3 DEF sidetable_tryRetain
  <2>2. InFlight' = InFlight
    BY <2>1
  <2>3. CASE side.deallocating
    <3>1. UNCHANGED <<side, owner>>
      BY <1>3, <2>3 DEF sidetable_tryRetain
    <3> QED
      BY <2>1, <2>2, <3>1, CountSame DEF Total
  <2>4. CASE ~side.deallocating
    <3>1. side' = sidetable_incr(side) /\ Gain(t)
      BY <1>3, <2>4 DEF sidetable_tryRetain
    <3>2. Cardinality(Live') = Cardinality(Live) + 1
      BY <2>1, <3>1, GainLive DEF Gaining
    <3>3. side'.rc = side.rc + 1
      BY <3>1, Fits DEF sidetable_incr, WithCount, Pinned
    <3> QED
      BY <2>1, <2>2, <3>2, <3>3, CountUp DEF Total
  <2> QED
    BY <2>3, <2>4
<1>4. CASE TryRetainFails(t)
  <2>1. UNCHANGED <<owner, deallocator>> /\ Total' = Total
    BY <1>4 DEF TryRetainFails, Total
  <2> QED
    BY <2>1, CountSame
<1>5. CASE RetainLoad(t)
  <2>1. UNCHANGED <<owner, deallocator>> /\ Total' = Total
    BY <1>5 DEF RetainLoad, Total
  <2> QED
    BY <2>1, CountSame
<1>6. CASE RetainLock(t)
  <2>1. UNCHANGED <<owner, deallocator>> /\ Total' = Total
    BY <1>6 DEF RetainLock, Total
  <2> QED
    BY <2>1, CountSame
<1>7. CASE RetainStore(t)
  <2>1. Cardinality(Live') = Cardinality(Live) + 1
    BY <1>7, GainLive DEF RetainStore, Gaining
  <2>2. UNCHANGED deallocator /\ Total' = Total + 1
    BY <1>7 DEF RetainStore, Total
  <2> QED
    BY <2>1, <2>2, CountUp
<1>8. CASE RetainStoreHalf(t)
  <2>1. Cardinality(Live') = Cardinality(Live) + 1
    BY <1>8, GainLive DEF RetainStoreHalf, Gaining
  <2>2. UNCHANGED deallocator /\ Total' = Total + 1
    BY <1>8 DEF RetainStoreHalf, Halved, Carry, Total
  <2> QED
    BY <2>1, <2>2, CountUp
<1>9. CASE RetainStoreFails(t)
  <2>1. UNCHANGED <<owner, deallocator>> /\ Total' = Total
    BY <1>9 DEF RetainStoreFails, Total
  <2> QED
    BY <2>1, CountSame
<1>10. CASE RetainSide(t)
  <2>1. UNCHANGED <<owner, deallocator>> /\ Total' = Total
    BY <1>10, Fits DEF RetainSide, sidetable_addExtraRC_nolock, WithCount, Pinned, Total
  <2> QED
    BY <2>1, CountSame
<1> QED
  BY <1>1, <1>2, <1>3, <1>4, <1>5, <1>6, <1>7, <1>8, <1>9, <1>10 DEF Retain

\* Count, kept by rootRelease.
LEMMA ReleaseCount ==
  ASSUME Control, Account, NotPinned, NEW t \in Threads, Release(t)
  PROVE  Count'
<1>0. Count
  BY DEF Account
<1> USE <1>0, ConstantTypes DEF Control, WordInv, TypeOK, isa_t, Entry, PCs, Locked, Words, Knows,
        Remembers, InFlight, Moving, Begun, Goto, Return, Lock, Unlock, LoadExclusive,
        StoreExclusive, mem
<1>1. CASE ReleaseRaw(t)
  <2>1. UNCHANGED <<owner, deallocator>> /\ Total' = Total
    BY <1>1 DEF ReleaseRaw, Total
  <2> QED
    BY <2>1, CountSame
<1>2. CASE sidetable_release(t)
  <2>1. /\ Cardinality(Live') = Cardinality(Live) - 1 /\ tok[t] \in Live
        /\ Cardinality(Live) # 0
    BY <1>2, LoseLive, LiveCard DEF sidetable_release, Losing
  <2>2. lock = NoThread /\ lock' = NoThread /\ isa' = isa /\ side' = sidetable_decr(side)
    BY <1>2 DEF sidetable_release
  <2>3. InFlight = 0 /\ InFlight' = 0 /\ isa.extra_rc = 0
    BY <1>2, <2>2 DEF sidetable_release
  <2>4. \A u \in Threads : pc[u] # "changeIsaMove"
    BY <2>2
  <2>5. side.deallocating <=> deallocator # NoThread
    BY <1>2, <2>1, <2>4, LiveCard DEF Account, Bits, Ending, Cleared, sidetable_release
  <2>6. CASE LastReference(side)
    <3>1. deallocator = NoThread /\ deallocator' = t /\ side'.rc = 0 /\ side.rc = 0
      BY <1>2, <2>2, <2>5, <2>6 DEF sidetable_release, sidetable_decr, LastReference
    <3>2. Total = 0 /\ Total' = 0 /\ Begun = 0 /\ Begun' = 1
      BY <2>2, <2>3, <3>1 DEF Total, Begun
    <3>3. 1 + Total = Cardinality(Live) + Begun
      BY DEF Count
    <3> QED
      BY <2>1, <3>2, <3>3, LiveCard DEF Count
  <2>7. CASE ~LastReference(side)
    <3>1. deallocator' = deallocator
      BY <1>2, <2>7 DEF sidetable_release
    <3>2. side.rc # 0
      BY <2>1, <2>3, <2>5, <2>7, Fits, LiveCard DEF LastReference
    <3>3. side'.rc = side.rc - 1
      BY <2>2, <2>7, <3>2, Fits DEF sidetable_decr, WithCount, Pinned
    <3> QED
      BY <2>1, <2>2, <2>3, <3>1, <3>3, CountDown DEF Total
  <2> QED
    BY <2>6, <2>7
<1>3. CASE ReleaseLoad(t)
  <2>1. UNCHANGED <<owner, deallocator>> /\ Total' = Total
    BY <1>3 DEF ReleaseLoad, Total
  <2> QED
    BY <2>1, CountSame
<1>4. CASE ReleaseStore(t)
  <2>1. Cardinality(Live') = Cardinality(Live) - 1
    BY <1>4, LoseLive DEF ReleaseStore, Losing
  <2>2. UNCHANGED deallocator /\ Total' = Total - 1
    BY <1>4 DEF ReleaseStore, Total
  <2> QED
    BY <2>1, <2>2, CountDown
<1>5. CASE ReleaseStoreFails(t)
  <2>1. UNCHANGED <<owner, deallocator>> /\ Total' = Total
    BY <1>5 DEF ReleaseStoreFails, Total
  <2> QED
    BY <2>1, CountSame
<1>6. CASE UnderflowNeedsLock(t)
  <2>1. UNCHANGED <<owner, deallocator>> /\ Total' = Total
    BY <1>6 DEF UnderflowNeedsLock, Total
  <2> QED
    BY <2>1, CountSame
<1>7. CASE ReleaseLock(t)
  <2>1. UNCHANGED <<owner, deallocator>> /\ Total' = Total
    BY <1>7 DEF ReleaseLock, Total
  <2> QED
    BY <2>1, CountSame
<1>8. CASE UnderflowBorrow(t)
  <2>1. UNCHANGED <<owner, deallocator>> /\ Total' = Total
    BY <1>8 DEF UnderflowBorrow, Underflow, Borrowed, sidetable_subExtraRC_nolock, Total
  <2> QED
    BY <2>1, CountSame
<1>9. CASE BorrowStore(t)
  <2>1. Cardinality(Live') = Cardinality(Live) - 1
    BY <1>9, LoseLive DEF BorrowStore, Losing
  <2>2. UNCHANGED deallocator /\ Total' = Total - 1
    BY <1>9 DEF BorrowStore, Total
  <2> QED
    BY <2>1, <2>2, CountDown
<1>10. CASE BorrowStoreFails(t)
  <2>1. UNCHANGED <<owner, deallocator>> /\ Total' = Total
    BY <1>10, Fits DEF BorrowStoreFails, sidetable_addExtraRC_nolock, WithCount, Pinned, Total
  <2> QED
    BY <2>1, CountSame
<1>11. CASE BorrowAgain(t)
  <2>1. Cardinality(Live') = Cardinality(Live) - 1
    BY <1>11, LoseLive DEF BorrowAgain, Losing
  <2>2. UNCHANGED deallocator /\ Total' = Total - 1
    BY <1>11 DEF BorrowAgain, Total
  <2> QED
    BY <2>1, <2>2, CountDown
<1>12. CASE BorrowAgainFails(t)
  <2>1. UNCHANGED <<owner, deallocator>> /\ Total' = Total
    BY <1>12, Fits DEF BorrowAgainFails, sidetable_addExtraRC_nolock, WithCount, Pinned, Total
  <2> QED
    BY <2>1, CountSame
<1>13. CASE UnderflowDealloc(t)
  <2>1. UNCHANGED <<owner, deallocator>> /\ Total' = Total
    BY <1>13 DEF UnderflowDealloc, Underflow, Borrowed,
         sidetable_subExtraRC_nolock, Total
  <2> QED
    BY <2>1, CountSame
<1>14. CASE DeallocStore(t)
  <2>1. /\ Cardinality(Live') = Cardinality(Live) - 1 /\ tok[t] \in Live
    BY <1>14, LoseLive DEF DeallocStore, Losing
  <2>2. /\ isa = old[t] /\ isa.nonpointer /\ isa.extra_rc = 0 /\ ~isa.deallocating
        /\ isa'.extra_rc = 0 /\ side' = side /\ side.rc = 0 /\ deallocator' = t
    BY <1>14 DEF DeallocStore, NoEntry
  <2>3. InFlight = 0 /\ InFlight' = 0
    BY <1>14, <2>2 DEF DeallocStore
  <2>4. deallocator = NoThread
    BY <2>2 DEF Account, Bits
  <2> QED
    BY <2>1, <2>2, <2>3, <2>4, LiveCard DEF Account, Count, Total
<1> QED
  BY <1>1, <1>2, <1>3, <1>4, <1>5, <1>6, <1>7, <1>8, <1>9, <1>10, <1>11, <1>12, <1>13,
     <1>14 DEF Release

\* Count, kept by the weak-reference entry points.
LEMMA WeakCount ==
  ASSUME Control, Account, NotPinned, NEW t \in Threads, Weak(t)
  PROVE  Count'
<1>0. Count
  BY DEF Account
<1> USE <1>0, ConstantTypes DEF Control, WordInv, TypeOK, isa_t, Entry, PCs, Locked, Words, Knows,
        Remembers, InFlight, Moving, Begun, Goto, Return, Lock, Unlock, LoadExclusive,
        StoreExclusive, mem
<1>1. CASE WeakRead(t)
  <2>1. UNCHANGED <<owner, deallocator>> /\ Total' = Total
    BY <1>1 DEF WeakRead, Total
  <2> QED
    BY <2>1, CountSame
<1>2. CASE LoadWeakLock(t)
  <2>1. UNCHANGED <<owner, deallocator>> /\ Total' = Total
    BY <1>2 DEF LoadWeakLock, Total
  <2> QED
    BY <2>1, CountSame
<1>3. CASE StoreWeakRejected(t)
  <2>1. UNCHANGED <<owner, deallocator>> /\ Total' = Total
    BY <1>3 DEF StoreWeakRejected, Total
  <2> QED
    BY <2>1, CountSame
<1>4. CASE StoreWeakLock(t)
  <2>1. UNCHANGED <<owner, deallocator>> /\ Total' = Total
    BY <1>4 DEF StoreWeakLock, Total
  <2> QED
    BY <2>1, CountSame
<1>5. CASE WeakMark(t)
  <2>1. UNCHANGED <<owner, deallocator>> /\ Total' = Total
    BY <1>5 DEF WeakMark, FinishStoreWeak, sidetable_setWeaklyReferenced_nolock, Total
  <2> QED
    BY <2>1, CountSame
<1>6. CASE WeakMarkLoad(t)
  <2>1. UNCHANGED <<owner, deallocator>> /\ Total' = Total
    BY <1>6 DEF WeakMarkLoad, Total
  <2> QED
    BY <2>1, CountSame
<1>7. CASE WeakMarkStore(t)
  <2>1. UNCHANGED <<owner, deallocator>> /\ Total' = Total
    BY <1>7 DEF WeakMarkStore, FinishStoreWeak, Total
  <2> QED
    BY <2>1, CountSame
<1>8. CASE WeakMarkStoreFails(t)
  <2>1. UNCHANGED <<owner, deallocator>> /\ Total' = Total
    BY <1>8 DEF WeakMarkStoreFails, Total
  <2> QED
    BY <2>1, CountSame
<1> QED
  BY <1>1, <1>2, <1>3, <1>4, <1>5, <1>6, <1>7, <1>8 DEF Weak

\* Count, kept by changeIsa.
LEMMA ChangeIsaCount ==
  ASSUME Control, Account, NotPinned, NEW t \in Threads, ChangeIsa(t)
  PROVE  Count'
<1>0. Count
  BY DEF Account
<1> USE <1>0, ConstantTypes DEF Control, WordInv, TypeOK, isa_t, Entry, PCs, Locked, Words, Knows,
        Remembers, InFlight, Moving, Begun, Goto, Return, Lock, Unlock, LoadExclusive,
        StoreExclusive, mem
<1>1. CASE ChangeIsaLoad(t)
  <2>1. UNCHANGED <<owner, deallocator>> /\ Total' = Total
    BY <1>1 DEF ChangeIsaLoad, Total
  <2> QED
    BY <2>1, CountSame
<1>2. CASE ChangeIsaLock(t)
  <2>1. UNCHANGED <<owner, deallocator>> /\ Total' = Total
    BY <1>2 DEF ChangeIsaLock, Total
  <2> QED
    BY <2>1, CountSame
<1>3. CASE ChangeIsaStore(t)
  <2>1. UNCHANGED <<owner, deallocator>> /\ Total' = Total
    BY <1>3 DEF ChangeIsaStore, Total
  <2> QED
    BY <2>1, CountSame
<1>4. CASE ChangeIsaStoreRaw(t)
  <2>1. UNCHANGED <<owner, deallocator>> /\ Total' = Total
    BY <1>4 DEF ChangeIsaStoreRaw, Transcribe, initIsa, Total
  <2> QED
    BY <2>1, CountSame
<1>5. CASE ChangeIsaStoreFails(t)
  <2>1. UNCHANGED <<owner, deallocator>> /\ Total' = Total
    BY <1>5 DEF ChangeIsaStoreFails, Total
  <2> QED
    BY <2>1, CountSame
<1>6. CASE ChangeIsaMove(t)
  <2>1. UNCHANGED <<owner, deallocator>> /\ Total' = Total
    BY <1>6, Fits DEF ChangeIsaMove, sidetable_moveExtraRC_nolock, Total
  <2> QED
    BY <2>1, CountSame
<1> QED
  BY <1>1, <1>2, <1>3, <1>4, <1>5, <1>6 DEF ChangeIsa

\* Count, kept by -dealloc.
LEMMA DeallocCount ==
  ASSUME Control, Account, NotPinned, NEW t \in Threads, Dealloc(t)
  PROVE  Count'
<1>0. Count
  BY DEF Account
<1> USE <1>0, ConstantTypes DEF Control, WordInv, TypeOK, isa_t, Entry, PCs, Locked, Words, Knows,
        Remembers, InFlight, Moving, Begun, Goto, Return, Lock, Unlock, LoadExclusive,
        StoreExclusive, mem
<1>1. CASE rootDealloc(t)
  <2>1. UNCHANGED <<owner, deallocator>> /\ Total' = Total
    BY <1>1 DEF rootDealloc, Total
  <2> QED
    BY <2>1, CountSame
<1>2. CASE clearDeallocating_slow(t)
  <2>1. pc[t] = "clearSlow" /\ lock = NoThread /\ lock' = NoThread
        /\ isa' = isa /\ side' \in {side, NoEntry} /\ UNCHANGED <<owner, deallocator>>
    BY <1>2 DEF clearDeallocating_slow
  <2>2. Live = {} /\ Begun = 1
    BY <2>1 DEF Account, Ending, Begun
  <2>3. side.rc = 0
    BY <2>2, Emptied
  <2>4. side'.rc = 0
    BY <2>1, <2>3 DEF NoEntry
  <2>5. Total' = Total
    BY <2>1, <2>3, <2>4 DEF Total
  <2> QED
    BY <2>1, <2>5, CountSame
<1>3. CASE sidetable_clearDeallocating(t)
  <2>1. pc[t] = "clearRaw" /\ lock = NoThread /\ lock' = NoThread
        /\ isa' = isa /\ side' \in {side, NoEntry} /\ UNCHANGED <<owner, deallocator>>
    BY <1>3 DEF sidetable_clearDeallocating
  <2>2. Live = {} /\ Begun = 1
    BY <2>1 DEF Account, Ending, Begun
  <2>3. side.rc = 0
    BY <2>2, Emptied
  <2>4. side'.rc = 0
    BY <2>1, <2>3 DEF NoEntry
  <2>5. Total' = Total
    BY <2>1, <2>3, <2>4 DEF Total
  <2> QED
    BY <2>1, <2>5, CountSame
<1>4. CASE Free(t)
  <2>1. UNCHANGED <<owner, deallocator>> /\ Total' = Total
    BY <1>4 DEF Free, Total
  <2> QED
    BY <2>1, CountSame
<1> QED
  BY <1>1, <1>2, <1>3, <1>4 DEF Dealloc

\* Count, kept by the beginning of a call.
LEMMA CallsCount ==
  ASSUME Control, Account, NotPinned, NEW t \in Threads, Calls(t)
  PROVE  Count'
<1>0. Count
  BY DEF Account
<1> USE <1>0, ConstantTypes DEF Control, WordInv, TypeOK, isa_t, Entry, PCs, Locked, Words, Knows,
        Remembers, InFlight, Moving, Begun, Goto, Return, Lock, Unlock, LoadExclusive,
        StoreExclusive, mem
<1>1. CASE CallRetain(t)
  <2>1. UNCHANGED <<owner, deallocator>> /\ Total' = Total
    BY <1>1 DEF CallRetain, Call, FreeRefs, Total
  <2> QED
    BY <2>1, CountSame
<1>2. CASE CallRelease(t)
  <2>1. UNCHANGED <<owner, deallocator>> /\ Total' = Total
    BY <1>2 DEF CallRelease, Total
  <2> QED
    BY <2>1, CountSame
<1>3. CASE CallLoadWeak(t)
  <2>1. UNCHANGED <<owner, deallocator>> /\ Total' = Total
    BY <1>3 DEF CallLoadWeak, Call, FreeRefs, Total
  <2> QED
    BY <2>1, CountSame
<1>4. CASE CallStoreWeak(t)
  <2>1. UNCHANGED <<owner, deallocator>> /\ Total' = Total
    BY <1>4 DEF CallStoreWeak, Call, Total
  <2> QED
    BY <2>1, CountSame
<1>5. CASE CallChangeIsa(t)
  <2>1. UNCHANGED <<owner, deallocator>> /\ Total' = Total
    BY <1>5 DEF CallChangeIsa, Call, Total
  <2> QED
    BY <2>1, CountSame
<1> QED
  BY <1>1, <1>2, <1>3, <1>4, <1>5 DEF Calls
-----------------------------------------------------------------------------
(* Who may still act once -dealloc began. *)

\* -dealloc is past its client part: the object is being torn down.
Ended == freed \/ \E t \in Threads : pc[t] \in {"clearSlow", "clearRaw", "free"}

\* A thread that owns or holds on to a reference rules the end of -dealloc out.
LEMMA ActiveAlone ==
  ASSUME Control, Account, NEW t \in Threads,
         \/ pc[t] \in Using /\ ~try[t]
         \/ pc[t] \in Losing \cup {"retainSide", "weakMark", "weakMarkStore"}
  PROVE  ~Ended /\ deallocator \in {NoThread, t}
<1>1. owner \in [Refs -> Threads \cup {NoThread}] /\ NoThread \notin Threads
  BY ConstantTypes DEF Control, WordInv, TypeOK
<1>2. MayUse(t)
  BY DEF Account, Clients, Control, Tokens, Losing, MayUse, Owns
<1>3. Owns(t) => Live # {}
  BY <1>1 DEF Owns, Live
<1>4. pc[t] \notin {"clearSlow", "clearRaw", "free"}
  BY DEF Using, Losing
<1>5. ~freed
  BY <1>2, <1>3 DEF MayUse, Account, Ending
<1>6. ASSUME NEW u \in Threads, pc[u] \in {"clearSlow", "clearRaw", "free"} PROVE FALSE
  BY <1>2, <1>3, <1>4, <1>6 DEF MayUse, Account, Ending
<1>7. deallocator \in {NoThread, t}
  BY <1>1, <1>2 DEF MayUse, Owns, Account, Ending, NoPrematureDealloc
<1> QED
  BY <1>5, <1>6, <1>7 DEF Ended

\* Where the deallocating bit is, for a thread that holds the lock or finds it free.
LEMMA BitsRead ==
  ASSUME Control, Account, ~Cleared, \A u \in Threads : pc[u] # "changeIsaMove"
  PROVE  /\ rootIsDeallocating <=> deallocator # NoThread
         /\ loc => IF isa.nonpointer THEN isa.weakly_referenced ELSE side.weak
  BY DEF Account, Bits, rootIsDeallocating

\* A try-retain that is about to succeed does so before -dealloc begins.
LEMMA TryInTime ==
  ASSUME Control, Account, NEW t \in Threads, try[t],
         \/ pc[t] = "retainStore" /\ isa = old[t]
         \/ pc[t] = "retain" /\ ~isa.nonpointer /\ ~side.deallocating
  PROVE  ~Ended /\ deallocator = NoThread
<1>1. lock = t /\ loc
  BY DEF Control, Locked
<1>2. \A u \in Threads : pc[u] # "changeIsaMove"
  BY <1>1 DEF Control, Locked
<1>3. ~Cleared
  BY <1>1 DEF Account, Ending
<1>4. deallocator = NoThread
  BY <1>2, <1>3, BitsRead DEF rootIsDeallocating, Control, Words, Knows
<1> QED
  BY <1>4, ConstantTypes DEF Ended, Account, Ending

\* The release that finds no counts left drops the last reference.
LEMMA LastDrop ==
  ASSUME Control, Account, NotPinned, NEW t \in Threads, Lose(t),
         \/ pc[t] = "deallocStore" /\ isa = old[t]
         \/ pc[t] = "sidetable_release" /\ lock = NoThread /\ LastReference(side)
  PROVE  /\ deallocator = NoThread /\ ~Ended /\ Live = {tok[t]} /\ Live' = {}
         /\ tok[t] \in Refs /\ owner[tok[t]] = t
         /\ \A u \in Threads \ {t} : ~MayUse(u)
<1>1. pc[t] \in Losing
  BY DEF Losing
<1>2. ~Ended /\ ~Cleared
  BY <1>1, ActiveAlone DEF Ended, Cleared
<1>3. \A u \in Threads : pc[u] # "changeIsaMove"
  BY ConstantTypes DEF Control, Locked, Words, Knows, WordInv, Remembers
<1>4. deallocator = NoThread
  BY <1>2, <1>3, BitsRead DEF rootIsDeallocating, LastReference, Control, Words, Knows,
     WordInv, Remembers
<1>5. isa.extra_rc = 0 /\ side.rc = 0 /\ InFlight = 0
  BY ConstantTypes DEF Control, Words, Knows, WordInv, TypeOK, Remembers, LastReference,
     NoEntry, Locked, InFlight, Moving
<1>6. Cardinality(Live) = 1
  <2>1. 1 + (0 + 0 + 0) = Cardinality(Live) + 0
    BY <1>4, <1>5 DEF Account, Count, Total, Begun
  <2> QED
    BY <2>1, LiveCard
<1>7. Live = {tok[t]} /\ Live' = {}
  BY <1>1, <1>6, LoseLive, LiveCard
<1>8. tok[t] \in Refs /\ owner[tok[t]] = t
  BY <1>1 DEF Control, Tokens
<1>9. ASSUME NEW u \in Threads \ {t} PROVE ~MayUse(u)
  BY <1>4, <1>7, <1>8, ConstantTypes DEF MayUse, Owns, Live
<1> QED
  BY <1>2, <1>4, <1>7, <1>8, <1>9
-----------------------------------------------------------------------------
(* Clients. *)

\* Clients, kept by rootRetain.
LEMMA RetainClients ==
  ASSUME Control, Account, NotPinned, Control', NEW t \in Threads, Retain(t)
  PROVE  Clients'
<1> USE ConstantTypes DEF Control, WordInv, TypeOK, PCs, Account, Clients, Using,
        MayUse, Owns, Goto, Return, mem
<1>1. CASE RetainRaw(t)
  BY <1>1 DEF RetainRaw
<1>2. CASE sidetable_retain(t)
  BY <1>2, GainLive DEF sidetable_retain, Gaining
<1>3. CASE sidetable_tryRetain(t)
  BY <1>3, GainLive DEF sidetable_tryRetain, Gaining
<1>4. CASE TryRetainFails(t)
  BY <1>4 DEF TryRetainFails
<1>5. CASE RetainLoad(t)
  BY <1>5 DEF RetainLoad
<1>6. CASE RetainLock(t)
  BY <1>6 DEF RetainLock
<1>7. CASE RetainStore(t)
  BY <1>7, GainLive DEF RetainStore, Gaining
<1>8. CASE RetainStoreHalf(t)
  BY <1>8, GainLive DEF RetainStoreHalf, Gaining
<1>9. CASE RetainStoreFails(t)
  BY <1>9 DEF RetainStoreFails
<1>10. CASE RetainSide(t)
  BY <1>10 DEF RetainSide
<1> QED
  BY <1>1, <1>2, <1>3, <1>4, <1>5, <1>6, <1>7, <1>8, <1>9, <1>10 DEF Retain

\* Clients, kept by rootRelease.
LEMMA ReleaseClients ==
  ASSUME Control, Account, NotPinned, Control', NEW t \in Threads, Release(t)
  PROVE  Clients'
<1> USE ConstantTypes DEF Control, WordInv, TypeOK, PCs, Account, Clients, Using,
        MayUse, Owns, Goto, Return, mem
<1>1. CASE ReleaseRaw(t)
  BY <1>1 DEF ReleaseRaw
<1>2. CASE sidetable_release(t)
  <2>1. CASE LastReference(side)
    BY <1>2, <2>1, LastDrop DEF sidetable_release
  <2>2. CASE ~LastReference(side)
    BY <1>2, <2>2, LoseLive DEF sidetable_release, Losing
  <2> QED
    BY <2>1, <2>2
<1>3. CASE ReleaseLoad(t)
  BY <1>3 DEF ReleaseLoad
<1>4. CASE ReleaseStore(t)
  BY <1>4, LoseLive DEF ReleaseStore, Losing
<1>5. CASE ReleaseStoreFails(t)
  BY <1>5 DEF ReleaseStoreFails
<1>6. CASE UnderflowNeedsLock(t)
  BY <1>6 DEF UnderflowNeedsLock
<1>7. CASE ReleaseLock(t)
  BY <1>7 DEF ReleaseLock
<1>8. CASE UnderflowBorrow(t)
  BY <1>8 DEF UnderflowBorrow, Underflow, Borrowed
<1>9. CASE BorrowStore(t)
  BY <1>9, LoseLive DEF BorrowStore, Losing
<1>10. CASE BorrowStoreFails(t)
  BY <1>10 DEF BorrowStoreFails
<1>11. CASE BorrowAgain(t)
  BY <1>11, LoseLive DEF BorrowAgain, Losing
<1>12. CASE BorrowAgainFails(t)
  BY <1>12 DEF BorrowAgainFails
<1>13. CASE UnderflowDealloc(t)
  BY <1>13 DEF UnderflowDealloc, Underflow, Borrowed,
         sidetable_subExtraRC_nolock
<1>14. CASE DeallocStore(t)
  BY <1>14, LastDrop DEF DeallocStore, StoreExclusive
<1> QED
  BY <1>1, <1>2, <1>3, <1>4, <1>5, <1>6, <1>7, <1>8, <1>9, <1>10, <1>11, <1>12, <1>13,
     <1>14 DEF Release

\* Clients, kept by the weak-reference entry points.
LEMMA WeakClients ==
  ASSUME Control, Account, NotPinned, Control', NEW t \in Threads, Weak(t)
  PROVE  Clients'
<1> USE ConstantTypes DEF Control, WordInv, TypeOK, PCs, Account, Clients, Using,
        MayUse, Owns, Goto, Return, mem
<1>1. CASE WeakRead(t)
  BY <1>1 DEF WeakRead
<1>2. CASE LoadWeakLock(t)
  BY <1>2 DEF LoadWeakLock
<1>3. CASE StoreWeakRejected(t)
  BY <1>3 DEF StoreWeakRejected
<1>4. CASE StoreWeakLock(t)
  <2>1. pc[t] = "weakStoreLock" /\ ~try[t] /\ lock = NoThread /\ ~rootIsDeallocating
    BY <1>4 DEF StoreWeakLock, Lock, Locked
  <2>2. ~Ended
    BY <2>1, ActiveAlone
  <2>3. deallocator = NoThread
    BY <2>1, <2>2, BitsRead DEF Ended, Cleared, Locked
  <2> QED
    BY <1>4, <2>1, <2>3 DEF StoreWeakLock
<1>5. CASE WeakMark(t)
  BY <1>5 DEF WeakMark, FinishStoreWeak
<1>6. CASE WeakMarkLoad(t)
  BY <1>6 DEF WeakMarkLoad
<1>7. CASE WeakMarkStore(t)
  BY <1>7 DEF WeakMarkStore, FinishStoreWeak
<1>8. CASE WeakMarkStoreFails(t)
  BY <1>8 DEF WeakMarkStoreFails
<1> QED
  BY <1>1, <1>2, <1>3, <1>4, <1>5, <1>6, <1>7, <1>8 DEF Weak

\* Clients, kept by changeIsa.
LEMMA ChangeIsaClients ==
  ASSUME Control, Account, NotPinned, Control', NEW t \in Threads, ChangeIsa(t)
  PROVE  Clients'
<1> USE ConstantTypes DEF Control, WordInv, TypeOK, PCs, Account, Clients, Using,
        MayUse, Owns, Goto, Return, mem
<1>1. CASE ChangeIsaLoad(t)
  BY <1>1 DEF ChangeIsaLoad
<1>2. CASE ChangeIsaLock(t)
  BY <1>2 DEF ChangeIsaLock
<1>3. CASE ChangeIsaStore(t)
  BY <1>3 DEF ChangeIsaStore
<1>4. CASE ChangeIsaStoreRaw(t)
  BY <1>4 DEF ChangeIsaStoreRaw
<1>5. CASE ChangeIsaStoreFails(t)
  BY <1>5 DEF ChangeIsaStoreFails
<1>6. CASE ChangeIsaMove(t)
  BY <1>6 DEF ChangeIsaMove
<1> QED
  BY <1>1, <1>2, <1>3, <1>4, <1>5, <1>6 DEF ChangeIsa

\* Clients, kept by -dealloc.
LEMMA DeallocClients ==
  ASSUME Control, Account, NotPinned, Control', NEW t \in Threads, Dealloc(t)
  PROVE  Clients'
<1> USE ConstantTypes DEF Control, WordInv, TypeOK, PCs, Account, Clients, Using,
        MayUse, Owns, Goto, Return, mem
<1>1. CASE rootDealloc(t)
  BY <1>1 DEF rootDealloc
<1>2. CASE clearDeallocating_slow(t)
  BY <1>2 DEF clearDeallocating_slow
<1>3. CASE sidetable_clearDeallocating(t)
  BY <1>3 DEF sidetable_clearDeallocating
<1>4. CASE Free(t)
  BY <1>4 DEF Free, Ending, Live
<1> QED
  BY <1>1, <1>2, <1>3, <1>4 DEF Dealloc

\* Clients, kept by the beginning of a call.
LEMMA CallsClients ==
  ASSUME Control, Account, NotPinned, Control', NEW t \in Threads, Calls(t)
  PROVE  Clients'
<1> USE ConstantTypes DEF Control, WordInv, TypeOK, PCs, Account, Clients, Using,
        MayUse, Owns, Goto, Return, mem
<1>1. CASE CallRetain(t)
  BY <1>1 DEF CallRetain, Call, FreeRefs
<1>2. CASE CallRelease(t)
  BY <1>2 DEF CallRelease
<1>3. CASE CallLoadWeak(t)
  BY <1>3 DEF CallLoadWeak, Call, FreeRefs
<1>4. CASE CallStoreWeak(t)
  BY <1>4 DEF CallStoreWeak, Call
<1>5. CASE CallChangeIsa(t)
  BY <1>5 DEF CallChangeIsa, Call
<1> QED
  BY <1>1, <1>2, <1>3, <1>4, <1>5 DEF Calls
-----------------------------------------------------------------------------
(* Ending. *)

\* Ending, kept by rootRetain.
LEMMA RetainEnding ==
  ASSUME Control, Account, NotPinned, Control', NEW t \in Threads, Retain(t)
  PROVE  Ending'
<1> USE ConstantTypes DEF Control, WordInv, TypeOK, PCs, Account, Ending, Cleared, Ended,
        NoPrematureDealloc, Live, Using, Losing, Locked, Goto, Return, StoreExclusive, mem
<1>1. CASE RetainRaw(t)
  BY <1>1 DEF RetainRaw
<1>2. CASE sidetable_retain(t)
  BY <1>2, ActiveAlone, TryInTime DEF sidetable_retain, Gain, Gaining, Tokens
<1>3. CASE sidetable_tryRetain(t)
  BY <1>3, ActiveAlone, TryInTime DEF sidetable_tryRetain, Gain, Gaining, Tokens
<1>4. CASE TryRetainFails(t)
  BY <1>4 DEF TryRetainFails
<1>5. CASE RetainLoad(t)
  BY <1>5 DEF RetainLoad
<1>6. CASE RetainLock(t)
  BY <1>6 DEF RetainLock
<1>7. CASE RetainStore(t)
  BY <1>7, ActiveAlone, TryInTime DEF RetainStore, Gain, Gaining, Tokens
<1>8. CASE RetainStoreHalf(t)
  BY <1>8, ActiveAlone, TryInTime DEF RetainStoreHalf, Gain, Gaining, Tokens, Halved
<1>9. CASE RetainStoreFails(t)
  BY <1>9 DEF RetainStoreFails
<1>10. CASE RetainSide(t)
  BY <1>10, ActiveAlone DEF RetainSide
<1> QED
  BY <1>1, <1>2, <1>3, <1>4, <1>5, <1>6, <1>7, <1>8, <1>9, <1>10 DEF Retain

\* Ending, kept by rootRelease.
LEMMA ReleaseEnding ==
  ASSUME Control, Account, NotPinned, Control', NEW t \in Threads, Release(t)
  PROVE  Ending'
<1> USE ConstantTypes DEF Control, WordInv, TypeOK, PCs, Account, Ending, Cleared, Ended,
        NoPrematureDealloc, Live, Using, Losing, Locked, Goto, Return, StoreExclusive, mem
<1>1. CASE ReleaseRaw(t)
  BY <1>1 DEF ReleaseRaw
<1>2. CASE sidetable_release(t)
  <2>1. CASE LastReference(side)
    <3>1. ~freed /\ \A u \in Threads : pc[u] \notin {"clearSlow", "clearRaw", "free"}
      BY <1>2, <2>1, LastDrop DEF sidetable_release
    <3>2. \A r \in Refs : owner'[r] = NoThread
      <4>1. Live' = {}
        BY <1>2, <2>1, LastDrop DEF sidetable_release
      <4> QED
        BY <4>1
    <3>3. ~freed' /\ \A u \in Threads : pc'[u] \notin {"clearSlow", "clearRaw", "free"}
      BY <1>2, <3>1 DEF sidetable_release
    <3> QED
      BY <3>2, <3>3
  <2>2. CASE ~LastReference(side)
    BY <1>2, <2>2, ActiveAlone DEF sidetable_release, Lose, Tokens
  <2> QED
    BY <2>1, <2>2
<1>3. CASE ReleaseLoad(t)
  BY <1>3 DEF ReleaseLoad
<1>4. CASE ReleaseStore(t)
  BY <1>4, ActiveAlone DEF ReleaseStore, Lose, Tokens
<1>5. CASE ReleaseStoreFails(t)
  BY <1>5 DEF ReleaseStoreFails
<1>6. CASE UnderflowNeedsLock(t)
  BY <1>6 DEF UnderflowNeedsLock
<1>7. CASE ReleaseLock(t)
  BY <1>7 DEF ReleaseLock
<1>8. CASE UnderflowBorrow(t)
  BY <1>8, ActiveAlone DEF UnderflowBorrow, Underflow, Borrowed
<1>9. CASE BorrowStore(t)
  BY <1>9, ActiveAlone DEF BorrowStore, Lose, Tokens
<1>10. CASE BorrowStoreFails(t)
  BY <1>10, ActiveAlone DEF BorrowStoreFails
<1>11. CASE BorrowAgain(t)
  BY <1>11, ActiveAlone DEF BorrowAgain, Lose, Tokens
<1>12. CASE BorrowAgainFails(t)
  BY <1>12, ActiveAlone DEF BorrowAgainFails
<1>13. CASE UnderflowDealloc(t)
  BY <1>13 DEF UnderflowDealloc, Underflow, Borrowed,
         sidetable_subExtraRC_nolock
<1>14. CASE DeallocStore(t)
  <2>1. ~freed /\ \A u \in Threads : pc[u] \notin {"clearSlow", "clearRaw", "free"}
    BY <1>14, LastDrop DEF DeallocStore
  <2>2. \A r \in Refs : owner'[r] = NoThread
    <3>1. Live' = {}
      BY <1>14, LastDrop DEF DeallocStore
    <3> QED
      BY <3>1
  <2>3. ~freed' /\ \A u \in Threads : pc'[u] \notin {"clearSlow", "clearRaw", "free"}
    BY <1>14, <2>1 DEF DeallocStore
  <2> QED
    BY <2>2, <2>3
<1> QED
  BY <1>1, <1>2, <1>3, <1>4, <1>5, <1>6, <1>7, <1>8, <1>9, <1>10, <1>11, <1>12, <1>13,
     <1>14 DEF Release

\* Ending, kept by the weak-reference entry points.
LEMMA WeakEnding ==
  ASSUME Control, Account, NotPinned, Control', NEW t \in Threads, Weak(t)
  PROVE  Ending'
<1> USE ConstantTypes DEF Control, WordInv, TypeOK, PCs, Account, Ending, Cleared, Ended,
        NoPrematureDealloc, Live, Using, Losing, Locked, Goto, Return, StoreExclusive, mem
<1>1. CASE WeakRead(t)
  BY <1>1 DEF WeakRead
<1>2. CASE LoadWeakLock(t)
  BY <1>2 DEF LoadWeakLock
<1>3. CASE StoreWeakRejected(t)
  BY <1>3 DEF StoreWeakRejected
<1>4. CASE StoreWeakLock(t)
  BY <1>4 DEF StoreWeakLock
<1>5. CASE WeakMark(t)
  BY <1>5, ActiveAlone DEF WeakMark, FinishStoreWeak
<1>6. CASE WeakMarkLoad(t)
  BY <1>6 DEF WeakMarkLoad
<1>7. CASE WeakMarkStore(t)
  BY <1>7, ActiveAlone DEF WeakMarkStore, FinishStoreWeak
<1>8. CASE WeakMarkStoreFails(t)
  BY <1>8 DEF WeakMarkStoreFails
<1> QED
  BY <1>1, <1>2, <1>3, <1>4, <1>5, <1>6, <1>7, <1>8 DEF Weak

\* Ending, kept by changeIsa.
LEMMA ChangeIsaEnding ==
  ASSUME Control, Account, NotPinned, Control', NEW t \in Threads, ChangeIsa(t)
  PROVE  Ending'
<1> USE ConstantTypes DEF Control, WordInv, TypeOK, PCs, Account, Ending, Cleared, Ended,
        NoPrematureDealloc, Live, Using, Losing, Locked, Goto, Return, StoreExclusive, mem
<1>1. CASE ChangeIsaLoad(t)
  BY <1>1 DEF ChangeIsaLoad
<1>2. CASE ChangeIsaLock(t)
  BY <1>2 DEF ChangeIsaLock
<1>3. CASE ChangeIsaStore(t)
  BY <1>3, ActiveAlone DEF ChangeIsaStore
<1>4. CASE ChangeIsaStoreRaw(t)
  BY <1>4, ActiveAlone DEF ChangeIsaStoreRaw, Transcribe, initIsa
<1>5. CASE ChangeIsaStoreFails(t)
  BY <1>5 DEF ChangeIsaStoreFails
<1>6. CASE ChangeIsaMove(t)
  BY <1>6, ActiveAlone DEF ChangeIsaMove
<1> QED
  BY <1>1, <1>2, <1>3, <1>4, <1>5, <1>6 DEF ChangeIsa

\* Ending, kept by -dealloc.
LEMMA DeallocEnding ==
  ASSUME Control, Account, NotPinned, Control', NEW t \in Threads, Dealloc(t)
  PROVE  Ending'
<1> USE ConstantTypes DEF Control, WordInv, TypeOK, PCs, Account, Ending, Cleared, Ended,
        NoPrematureDealloc, Live, Using, Losing, Locked, Goto, Return, StoreExclusive, mem
<1>1. CASE rootDealloc(t)
  <2>1. Live = {} /\ deallocator = t /\ ~freed /\ UNCHANGED mem /\ pc[t] = "idle"
    BY <1>1 DEF rootDealloc, Owns
  <2>2. pc' = [pc EXCEPT ![t] = "free"] => isa.nonpointer /\ ~isa.weakly_referenced /\ ~isa.has_sidetable_rc
    BY <1>1 DEF rootDealloc
  <2>3. pc' = [pc EXCEPT ![t] = "free"] => ~loc /\ side = NoEntry
    BY <2>2 DEF Bits, Words
  <2> QED
    <3>1. \E p \in {"clearRaw", "clearSlow", "free"} :
            /\ pc' = [pc EXCEPT ![t] = p]
            /\ p = "clearSlow" => isa.nonpointer
            /\ p = "clearRaw" => ~isa.nonpointer
            /\ p = "free" => ~loc /\ side = NoEntry
      BY <1>1, <2>3 DEF rootDealloc
    <3> QED
      BY <2>1, <3>1
<1>2. CASE clearDeallocating_slow(t)
  <2>1. loc => isa.weakly_referenced
    BY <1>2 DEF clearDeallocating_slow, Bits
  <2>2. ~isa.has_sidetable_rc => side = NoEntry
    BY <1>2 DEF clearDeallocating_slow, Words
  <2> QED
    BY <1>2, <2>1, <2>2 DEF clearDeallocating_slow
<1>3. CASE sidetable_clearDeallocating(t)
  <2>1. ~Cleared /\ \A u \in Threads : pc[u] # "changeIsaMove"
    BY <1>3 DEF sidetable_clearDeallocating
  <2>2. loc => side.weak
    BY <1>3, <2>1, BitsRead DEF sidetable_clearDeallocating
  <2> QED
    BY <1>3, <2>2 DEF sidetable_clearDeallocating
<1>4. CASE Free(t)
  BY <1>4 DEF Free
<1> QED
  BY <1>1, <1>2, <1>3, <1>4 DEF Dealloc

\* Ending, kept by the beginning of a call.
LEMMA CallsEnding ==
  ASSUME Control, Account, NotPinned, Control', NEW t \in Threads, Calls(t)
  PROVE  Ending'
<1> USE ConstantTypes DEF Control, WordInv, TypeOK, PCs, Account, Ending, Cleared, Ended,
        NoPrematureDealloc, Live, Using, Losing, Locked, Goto, Return, StoreExclusive, mem
<1>1. CASE CallRetain(t)
  BY <1>1 DEF CallRetain, Call, FreeRefs
<1>2. CASE CallRelease(t)
  BY <1>2 DEF CallRelease
<1>3. CASE CallLoadWeak(t)
  BY <1>3 DEF CallLoadWeak, Call, FreeRefs
<1>4. CASE CallStoreWeak(t)
  BY <1>4 DEF CallStoreWeak, Call
<1>5. CASE CallChangeIsa(t)
  BY <1>5 DEF CallChangeIsa, Call
<1> QED
  BY <1>1, <1>2, <1>3, <1>4, <1>5 DEF Calls
-----------------------------------------------------------------------------
(* Bits. *)

\* Bits, kept by rootRetain.
LEMMA RetainBits ==
  ASSUME Control, Account, NotPinned, Control', NEW t \in Threads, Retain(t)
  PROVE  Bits'
<1> USE ConstantTypes DEF Control, WordInv, TypeOK, PCs, Remembers, Words, Knows, Account, Bits,
        Cleared, Ended, Locked, Goto, Return, Unlock, Lock, StoreExclusive, LoadExclusive, mem
<1>1. CASE RetainRaw(t)
  BY <1>1 DEF RetainRaw
<1>2. CASE sidetable_retain(t)
  BY <1>2 DEF sidetable_retain, sidetable_incr, WithCount
<1>3. CASE sidetable_tryRetain(t)
  BY <1>3 DEF sidetable_tryRetain, sidetable_incr, WithCount
<1>4. CASE TryRetainFails(t)
  BY <1>4 DEF TryRetainFails
<1>5. CASE RetainLoad(t)
  BY <1>5 DEF RetainLoad
<1>6. CASE RetainLock(t)
  BY <1>6 DEF RetainLock
<1>7. CASE RetainStore(t)
  BY <1>7 DEF RetainStore
<1>8. CASE RetainStoreHalf(t)
  BY <1>8 DEF RetainStoreHalf, Halved
<1>9. CASE RetainStoreFails(t)
  BY <1>9 DEF RetainStoreFails
<1>10. CASE RetainSide(t)
  BY <1>10 DEF RetainSide, sidetable_addExtraRC_nolock, WithCount
<1> QED
  BY <1>1, <1>2, <1>3, <1>4, <1>5, <1>6, <1>7, <1>8, <1>9, <1>10 DEF Retain

\* Bits, kept by rootRelease.
LEMMA ReleaseBits ==
  ASSUME Control, Account, NotPinned, Control', NEW t \in Threads, Release(t)
  PROVE  Bits'
<1> USE ConstantTypes DEF Control, WordInv, TypeOK, PCs, Remembers, Words, Knows, Account, Bits,
        Cleared, Ended, Locked, Goto, Return, Unlock, Lock, StoreExclusive, LoadExclusive, mem
<1>1. CASE ReleaseRaw(t)
  BY <1>1 DEF ReleaseRaw
<1>2. CASE sidetable_release(t)
  <2>1. CASE LastReference(side)
    BY <1>2, <2>1, LastDrop DEF sidetable_release, sidetable_decr
  <2>2. CASE ~LastReference(side)
    BY <1>2, <2>2 DEF sidetable_release, sidetable_decr, WithCount
  <2> QED
    BY <2>1, <2>2
<1>3. CASE ReleaseLoad(t)
  BY <1>3 DEF ReleaseLoad
<1>4. CASE ReleaseStore(t)
  BY <1>4 DEF ReleaseStore
<1>5. CASE ReleaseStoreFails(t)
  BY <1>5 DEF ReleaseStoreFails
<1>6. CASE UnderflowNeedsLock(t)
  BY <1>6 DEF UnderflowNeedsLock
<1>7. CASE ReleaseLock(t)
  BY <1>7 DEF ReleaseLock
<1>8. CASE UnderflowBorrow(t)
  BY <1>8 DEF UnderflowBorrow, Underflow, Borrowed
<1>9. CASE BorrowStore(t)
  BY <1>9 DEF BorrowStore
<1>10. CASE BorrowStoreFails(t)
  BY <1>10 DEF BorrowStoreFails, sidetable_addExtraRC_nolock, WithCount
<1>11. CASE BorrowAgain(t)
  BY <1>11 DEF BorrowAgain
<1>12. CASE BorrowAgainFails(t)
  BY <1>12 DEF BorrowAgainFails, sidetable_addExtraRC_nolock, WithCount
<1>13. CASE UnderflowDealloc(t)
  BY <1>13 DEF UnderflowDealloc, Underflow, Borrowed,
         sidetable_subExtraRC_nolock
<1>14. CASE DeallocStore(t)
  BY <1>14, LastDrop DEF DeallocStore
<1> QED
  BY <1>1, <1>2, <1>3, <1>4, <1>5, <1>6, <1>7, <1>8, <1>9, <1>10, <1>11, <1>12, <1>13,
     <1>14 DEF Release

\* Bits, kept by the weak-reference entry points.
LEMMA WeakBits ==
  ASSUME Control, Account, NotPinned, Control', NEW t \in Threads, Weak(t)
  PROVE  Bits'
<1> USE ConstantTypes DEF Control, WordInv, TypeOK, PCs, Remembers, Words, Knows, Account, Bits,
        Cleared, Ended, Locked, Goto, Return, Unlock, Lock, StoreExclusive, LoadExclusive, mem
<1>1. CASE WeakRead(t)
  BY <1>1 DEF WeakRead
<1>2. CASE LoadWeakLock(t)
  BY <1>2 DEF LoadWeakLock
<1>3. CASE StoreWeakRejected(t)
  BY <1>3 DEF StoreWeakRejected
<1>4. CASE StoreWeakLock(t)
  BY <1>4 DEF StoreWeakLock
<1>5. CASE WeakMark(t)
  BY <1>5 DEF WeakMark, FinishStoreWeak, sidetable_setWeaklyReferenced_nolock
<1>6. CASE WeakMarkLoad(t)
  BY <1>6 DEF WeakMarkLoad
<1>7. CASE WeakMarkStore(t)
  BY <1>7 DEF WeakMarkStore, FinishStoreWeak
<1>8. CASE WeakMarkStoreFails(t)
  BY <1>8 DEF WeakMarkStoreFails
<1> QED
  BY <1>1, <1>2, <1>3, <1>4, <1>5, <1>6, <1>7, <1>8 DEF Weak

\* Bits, kept by changeIsa.
LEMMA ChangeIsaBits ==
  ASSUME Control, Account, NotPinned, Control', NEW t \in Threads, ChangeIsa(t)
  PROVE  Bits'
<1> USE ConstantTypes DEF Control, WordInv, TypeOK, PCs, Remembers, Words, Knows, Account, Bits,
        Cleared, Ended, Locked, Goto, Return, Unlock, Lock, StoreExclusive, LoadExclusive, mem
<1>1. CASE ChangeIsaLoad(t)
  BY <1>1 DEF ChangeIsaLoad
<1>2. CASE ChangeIsaLock(t)
  BY <1>2 DEF ChangeIsaLock
<1>3. CASE ChangeIsaStore(t)
  BY <1>3 DEF ChangeIsaStore, Transcribe
<1>4. CASE ChangeIsaStoreRaw(t)
  BY <1>4 DEF ChangeIsaStoreRaw, Transcribe, initIsa
<1>5. CASE ChangeIsaStoreFails(t)
  BY <1>5 DEF ChangeIsaStoreFails
<1>6. CASE ChangeIsaMove(t)
  BY <1>6 DEF ChangeIsaMove, sidetable_moveExtraRC_nolock
<1> QED
  BY <1>1, <1>2, <1>3, <1>4, <1>5, <1>6 DEF ChangeIsa

\* Bits, kept by -dealloc.
LEMMA DeallocBits ==
  ASSUME Control, Account, NotPinned, Control', NEW t \in Threads, Dealloc(t)
  PROVE  Bits'
<1> USE ConstantTypes DEF Control, WordInv, TypeOK, PCs, Remembers, Words, Knows, Account, Bits,
        Cleared, Ended, Locked, Goto, Return, Unlock, Lock, StoreExclusive, LoadExclusive, mem
<1>1. CASE rootDealloc(t)
  BY <1>1 DEF rootDealloc
<1>2. CASE clearDeallocating_slow(t)
  BY <1>2 DEF clearDeallocating_slow
<1>3. CASE sidetable_clearDeallocating(t)
  BY <1>3 DEF sidetable_clearDeallocating
<1>4. CASE Free(t)
  BY <1>4 DEF Free
<1> QED
  BY <1>1, <1>2, <1>3, <1>4 DEF Dealloc

\* Bits, kept by the beginning of a call.
LEMMA CallsBits ==
  ASSUME Control, Account, NotPinned, Control', NEW t \in Threads, Calls(t)
  PROVE  Bits'
<1> USE ConstantTypes DEF Control, WordInv, TypeOK, PCs, Remembers, Words, Knows, Account, Bits,
        Cleared, Ended, Locked, Goto, Return, Unlock, Lock, StoreExclusive, LoadExclusive, mem
<1>1. CASE CallRetain(t)
  BY <1>1 DEF CallRetain, Call, FreeRefs
<1>2. CASE CallRelease(t)
  BY <1>2 DEF CallRelease
<1>3. CASE CallLoadWeak(t)
  BY <1>3 DEF CallLoadWeak, Call, FreeRefs
<1>4. CASE CallStoreWeak(t)
  BY <1>4 DEF CallStoreWeak, Call
<1>5. CASE CallChangeIsa(t)
  BY <1>5 DEF CallChangeIsa, Call
<1> QED
  BY <1>1, <1>2, <1>3, <1>4, <1>5 DEF Calls
-----------------------------------------------------------------------------
(* The account is kept by every step. *)

\* Handing a reference on changes its owner, not the number of references.
LEMMA TransferAccount ==
  ASSUME Control, Account, NEW t \in Threads, NEW u \in Threads, Transfer(t, u)
  PROVE  Account'
<1>1. PICK r \in Refs : owner[r] = t /\ owner' = [owner EXCEPT ![r] = u]
  BY DEF Transfer
<1>2. /\ UNCHANGED <<isa, side, lock, loc, freed, deallocator, pc, old, try, tok, cls, ops>>
      /\ pc[t] = "idle" /\ deallocator = NoThread
  BY DEF Transfer
<1>3. owner \in [Refs -> Threads \cup {NoThread}]
  BY DEF Control, WordInv, TypeOK
<1>4. Live' = Live
  BY <1>1, <1>3, ConstantTypes DEF Live
<1>5. \A v \in Threads \ {t} : MayUse(v) => MayUse(v)'
  BY <1>1, <1>2, <1>3 DEF MayUse, Owns
<1>6. \A v \in Threads \ {t} : Owns(v) => Owns(v)'
  BY <1>1, <1>3 DEF Owns
<1>7. Count'
  <2>1. Count
    BY DEF Account
  <2> QED
    BY <1>2, <1>4, <2>1 DEF Count, Total, InFlight, Moving, Begun
<1>8. Clients'
  BY <1>2, <1>5, <1>6 DEF Account, Clients, Using
<1>9. Bits'
  BY <1>2 DEF Account, Bits, Cleared
<1>10. Ending'
  BY <1>2, <1>4 DEF Account, Ending, Cleared, NoPrematureDealloc
<1> QED
  BY <1>7, <1>8, <1>9, <1>10 DEF Account

\* Every step keeps both layers.
LEMMA AccountStep == NotPinned /\ Control /\ Account /\ [Next]_vars => (Control /\ Account)'
<1> SUFFICES ASSUME NotPinned, Control, Account, [Next]_vars PROVE Control' /\ Account'
  OBVIOUS
<1>1. Control'
  BY ControlStep
<1>2. CASE UNCHANGED vars
  <2>1. UNCHANGED <<isa, side, lock, loc, freed, deallocator, owner, pc, old, try, tok>>
    BY <1>2 DEF vars
  <2>2. Count'
    BY <2>1 DEF Account, Count, Total, InFlight, Moving, Begun, Live
  <2>3. Clients' /\ Bits' /\ Ending'
    BY <2>1 DEF Account, Clients, Using, MayUse, Owns, Bits, Cleared, Ending,
       NoPrematureDealloc, Live
  <2> QED
    BY <1>1, <2>2, <2>3 DEF Account
<1>3. ASSUME NEW t \in Threads, Calls(t) PROVE Account'
  BY <1>1, <1>3, CallsCount, CallsClients, CallsBits, CallsEnding DEF Account
<1>4. ASSUME NEW t \in Threads, Step(t) PROVE Account'
  <2>1. CASE Retain(t)
    BY <1>1, <2>1, RetainCount, RetainClients, RetainBits, RetainEnding DEF Account
  <2>2. CASE Release(t)
    BY <1>1, <2>2, ReleaseCount, ReleaseClients, ReleaseBits, ReleaseEnding DEF Account
  <2>3. CASE Weak(t)
    BY <1>1, <2>3, WeakCount, WeakClients, WeakBits, WeakEnding DEF Account
  <2>4. CASE ChangeIsa(t)
    BY <1>1, <2>4, ChangeIsaCount, ChangeIsaClients, ChangeIsaBits, ChangeIsaEnding
       DEF Account
  <2>5. CASE Dealloc(t)
    BY <1>1, <2>5, DeallocCount, DeallocClients, DeallocBits, DeallocEnding DEF Account
  <2> QED
    BY <1>4, <2>1, <2>2, <2>3, <2>4, <2>5 DEF Step
<1>5. ASSUME NEW t \in Threads, NEW u \in Threads, Transfer(t, u) PROVE Account'
  BY <1>5, TransferAccount
<1> QED
  BY <1>1, <1>2, <1>3, <1>4, <1>5 DEF Next

\* A new object has one reference and no counts.
LEMMA InitAccount == Init => Account
<1> SUFFICES ASSUME Init PROVE Account
  OBVIOUS
<1>1. PICK r \in Refs, t \in Threads :
        owner = [q \in Refs |-> IF q = r THEN t ELSE NoThread]
  BY DEF Init
<1>2. Live = {r}
  BY <1>1, ConstantTypes DEF Live
<1>3. Cardinality(Live) = 1
  BY <1>2, FS_Singleton
<1>4. /\ isa.extra_rc = 0 /\ ~isa.deallocating /\ side = NoEntry /\ lock = NoThread
      /\ loc = FALSE /\ freed = FALSE /\ deallocator = NoThread
      /\ pc = [u \in Threads |-> "idle"]
  BY DEF Init, initIsa
<1>5. Count
  BY <1>3, <1>4 DEF Count, Total, InFlight, Begun, NoEntry
<1>6. Clients /\ Bits /\ Ending
  BY <1>4 DEF Clients, Using, Bits, Cleared, NoEntry, Ending, NoPrematureDealloc
<1> QED
  BY <1>5, <1>6 DEF Account

\* The words of an object account for its references in every reachable state:
\* what is in the isa, what is in the side table and what rootRetain, rootRelease
\* and changeIsa are moving between them under the side-table lock.
THEOREM CountsBalance == NotPinned => (Spec => [](Control /\ Account))
<1> SUFFICES ASSUME NotPinned PROVE Spec => [](Control /\ Account)
  OBVIOUS
<1>1. Init => Control /\ Account
  BY InitControl, InitAccount
<1>2. Control /\ Account /\ [Next]_vars => (Control /\ Account)'
  BY AccountStep
<1> QED
  BY <1>1, <1>2, PTL DEF Spec

\* -dealloc is sent with the last release, not before and not later, however the
\* count is split between the isa and the side table at that moment.
THEOREM DeallocWithLastRelease == NotPinned => (Spec => []DeallocAtLastRelease)
<1> SUFFICES ASSUME NotPinned PROVE Spec => []DeallocAtLastRelease
  OBVIOUS
<1>1. Control /\ Account => DeallocAtLastRelease
  BY Emptied DEF Account, Ending, DeallocAtLastRelease, NoLeak
<1> QED
  BY <1>1, CountsBalance, PTL

\* When rootDealloc frees the memory nothing is left that reaches it: no
\* reference, no weak variable, no side-table entry, no operation in flight.
THEOREM FreedIsUnreachable == NotPinned => (Spec => []NoUseAfterFree)
<1> SUFFICES ASSUME NotPinned PROVE Spec => []NoUseAfterFree
  OBVIOUS
<1>1. Control /\ Account => NoUseAfterFree
  <2> SUFFICES ASSUME Control, Account, freed PROVE NoUseAfterFree
    BY DEF NoUseAfterFree
  <2>1. Live = {} /\ ~loc /\ side = NoEntry
    BY DEF Account, Ending, Cleared
  <2>2. ASSUME NEW t \in Threads, pc[t] \in Touches PROVE FALSE
    <3>1. ~try[t]
      BY <2>1 DEF Control, Locked
    <3>2. pc[t] \in Using \cup Losing \cup {"retainSide", "weakMark", "weakMarkStore"}
      BY <2>2 DEF Touches, PCs, Using, Losing, Account, Ending
    <3> QED
      BY <3>1, <3>2, ActiveAlone DEF Ended
  <2> QED
    BY <2>1, <2>2 DEF NoUseAfterFree
<1> QED
  BY <1>1, CountsBalance, PTL

\* With no operation in flight rootRetainCount is the number of references, and
\* one more once -dealloc began.
THEOREM RetainCountIsExact == NotPinned => (Spec => []RetainCountExact)
<1> SUFFICES ASSUME NotPinned PROVE Spec => []RetainCountExact
  OBVIOUS
<1>1. Control /\ Account => RetainCountExact
  <2> SUFFICES ASSUME Control, Account, \A t \in Threads : pc[t] = "idle"
               PROVE  rootRetainCount = Cardinality(Live)
                                        + (IF deallocator = NoThread THEN 0 ELSE 1)
    BY DEF RetainCountExact
  <2>1. isa.extra_rc \in Nat /\ side.rc \in Nat
    BY Fits DEF Account
  <2>2. InFlight = 0
    BY DEF InFlight, Moving, Control, WordInv, TypeOK
  <2>3. rootRetainCount = 1 + isa.extra_rc + side.rc
    BY <2>1 DEF rootRetainCount, Control, Words, NoEntry
  <2>4. 1 + (isa.extra_rc + side.rc + InFlight) = Cardinality(Live) + Begun
    BY DEF Account, Count, Total
  <2> QED
    BY <2>1, <2>2, <2>3, <2>4, LiveCard DEF Begun
<1> QED
  BY <1>1, CountsBalance, PTL
-----------------------------------------------------------------------------
(* RefCount implements ObjectLifetime. *)

\* A step of the specification of lifetimes, or none.
Mapped == Lifetime!Next \/ UNCHANGED Lifetime!lifetimeVars

\* A release maps to Drop, and must send -dealloc if and only if it was the last.
LEMMA DropStep ==
  ASSUME Control, NEW t \in Threads, pc[t] \in Losing, Lose(t), UNCHANGED <<loc, freed>>,
         \/ deallocator = NoThread /\ Live' = {} /\ deallocator' = t
         \/ ~(deallocator = NoThread /\ Live' = {}) /\ UNCHANGED deallocator
  PROVE  Mapped
<1>1. tok[t] \in Refs /\ owner[tok[t]] = t /\ owner \in [Refs -> Threads \cup {NoThread}]
  BY DEF Control, Tokens, WordInv, TypeOK
<1>2. Live' = {} <=> \A q \in Refs \ {tok[t]} : owner[q] = NoThread
  BY <1>1 DEF Live, Lose
<1>3. Lifetime!Drop(t, tok[t])
  BY <1>1, <1>2 DEF Lifetime!Drop, Lose
<1> QED
  BY <1>1, <1>3 DEF Mapped, Lifetime!Next

\* A release that leaves the count above zero is not the last.
LEMMA NotLast ==
  ASSUME Control, Account, NotPinned, NEW t \in Threads, Control', Account',
         UNCHANGED deallocator
  PROVE  ~(deallocator = NoThread /\ Live' = {})
<1> SUFFICES ASSUME deallocator = NoThread, Live' = {} PROVE FALSE
  OBVIOUS
<1>1. Cardinality(Live') = 0 /\ Begun' = 0
  BY LiveCard, FS_EmptySet DEF Begun
<1>2. 1 + Total' = Cardinality(Live') + Begun'
  BY DEF Account, Count
<1>3. Total' \in Nat
  <2>1. isa' \in isa_t /\ side' \in Entry /\ old' \in [Threads -> isa_t]
        /\ lock' \in Threads \cup {NoThread}
    BY DEF Control, WordInv, TypeOK
  <2>2. isa'.extra_rc \in Nat /\ side'.rc \in Nat
    BY <2>1, ConstantTypes DEF isa_t, Entry
  <2>3. InFlight' \in Nat
    <3>1. CASE lock' = NoThread
      BY <3>1 DEF InFlight
    <3>2. CASE lock' \in Threads
      <4>1. old'[lock'].extra_rc \in Nat
        BY <2>1, <3>2, ConstantTypes DEF isa_t
      <4> QED
        BY <3>2, <4>1, ConstantTypes DEF InFlight, Moving
    <3> QED
      BY <2>1, <3>1, <3>2
  <2> QED
    BY <2>2, <2>3 DEF Total
<1> QED
  BY <1>1, <1>2, <1>3

\* rootRetain takes a step of ObjectLifetime, or none.
LEMMA RetainMapped ==
  ASSUME Control, Account, NotPinned, Control', Account', NEW t \in Threads, Retain(t)
  PROVE  Mapped
<1> USE ConstantTypes DEF Mapped, Lifetime!Next, Lifetime!lifetimeVars, mem
<1>1. CASE RetainRaw(t)
  BY <1>1 DEF RetainRaw
<1>2. CASE sidetable_retain(t)
  <2>1. ~Ended /\ deallocator \in {NoThread, t}
    BY <1>2, ActiveAlone, TryInTime DEF sidetable_retain, Using, Control, Locked
  <2>2. tok[t] \in Refs /\ Lifetime!Acquire(t, tok[t])
    BY <1>2, <2>1 DEF sidetable_retain, Gain, Control, Tokens, Gaining, Lifetime!Acquire, Ended
  <2> QED
    BY <2>2
<1>3. CASE sidetable_tryRetain(t)
  <2>1. CASE side.deallocating
    BY <1>3, <2>1 DEF sidetable_tryRetain
  <2>2. CASE ~side.deallocating
    <3>1. ~Ended /\ deallocator = NoThread
      BY <1>3, <2>2, TryInTime DEF sidetable_tryRetain
    <3>2. tok[t] \in Refs /\ Lifetime!Acquire(t, tok[t])
      BY <1>3, <2>2, <3>1 DEF sidetable_tryRetain, Gain, Control, Tokens, Gaining,
         Lifetime!Acquire, Ended
    <3> QED
      BY <3>2
  <2> QED
    BY <2>1, <2>2
<1>4. CASE TryRetainFails(t)
  BY <1>4 DEF TryRetainFails
<1>5. CASE RetainLoad(t)
  BY <1>5 DEF RetainLoad
<1>6. CASE RetainLock(t)
  BY <1>6 DEF RetainLock
<1>7. CASE RetainStore(t)
  <2>1. ~Ended /\ deallocator \in {NoThread, t}
    BY <1>7, ActiveAlone, TryInTime DEF RetainStore, Using, Control, Locked, StoreExclusive
  <2>2. tok[t] \in Refs /\ Lifetime!Acquire(t, tok[t])
    BY <1>7, <2>1 DEF RetainStore, Gain, Control, Tokens, Gaining, Lifetime!Acquire, Ended
  <2> QED
    BY <2>2
<1>8. CASE RetainStoreHalf(t)
  <2>1. ~Ended /\ deallocator \in {NoThread, t}
    BY <1>8, ActiveAlone, TryInTime DEF RetainStoreHalf, Using, Control, Locked, StoreExclusive
  <2>2. tok[t] \in Refs /\ Lifetime!Acquire(t, tok[t])
    BY <1>8, <2>1 DEF RetainStoreHalf, Gain, Control, Tokens, Gaining, Lifetime!Acquire, Ended
  <2> QED
    BY <2>2
<1>9. CASE RetainStoreFails(t)
  BY <1>9 DEF RetainStoreFails
<1>10. CASE RetainSide(t)
  BY <1>10 DEF RetainSide
<1> QED
  BY <1>1, <1>2, <1>3, <1>4, <1>5, <1>6, <1>7, <1>8, <1>9, <1>10 DEF Retain

\* rootRelease takes a step of ObjectLifetime, or none.
LEMMA ReleaseMapped ==
  ASSUME Control, Account, NotPinned, Control', Account', NEW t \in Threads, Release(t)
  PROVE  Mapped
<1> USE ConstantTypes DEF Mapped, Lifetime!Next, Lifetime!lifetimeVars, mem
<1>1. CASE ReleaseRaw(t)
  BY <1>1 DEF ReleaseRaw
<1>2. CASE sidetable_release(t)
  <2>1. CASE LastReference(side)
    <3>1. deallocator = NoThread /\ Live' = {}
      BY <1>2, <2>1, LastDrop DEF sidetable_release
    <3> QED
      BY <1>2, <2>1, <3>1, DropStep DEF sidetable_release, Losing
  <2>2. CASE ~LastReference(side)
    BY <1>2, <2>2, NotLast, DropStep DEF sidetable_release, Losing
  <2> QED
    BY <2>1, <2>2
<1>3. CASE ReleaseLoad(t)
  BY <1>3 DEF ReleaseLoad
<1>4. CASE ReleaseStore(t)
  BY <1>4, NotLast, DropStep DEF ReleaseStore, Losing
<1>5. CASE ReleaseStoreFails(t)
  BY <1>5 DEF ReleaseStoreFails
<1>6. CASE UnderflowNeedsLock(t)
  BY <1>6 DEF UnderflowNeedsLock
<1>7. CASE ReleaseLock(t)
  BY <1>7 DEF ReleaseLock
<1>8. CASE UnderflowBorrow(t)
  BY <1>8 DEF UnderflowBorrow, Underflow, Borrowed
<1>9. CASE BorrowStore(t)
  BY <1>9, NotLast, DropStep DEF BorrowStore, Losing
<1>10. CASE BorrowStoreFails(t)
  BY <1>10 DEF BorrowStoreFails
<1>11. CASE BorrowAgain(t)
  BY <1>11, NotLast, DropStep DEF BorrowAgain, Losing
<1>12. CASE BorrowAgainFails(t)
  BY <1>12 DEF BorrowAgainFails
<1>13. CASE UnderflowDealloc(t)
  BY <1>13 DEF UnderflowDealloc, Underflow, Borrowed,
         sidetable_subExtraRC_nolock
<1>14. CASE DeallocStore(t)
  <2>1. deallocator = NoThread /\ Live' = {}
    BY <1>14, LastDrop DEF DeallocStore, StoreExclusive
  <2> QED
    BY <1>14, <2>1, DropStep DEF DeallocStore, Losing
<1> QED
  BY <1>1, <1>2, <1>3, <1>4, <1>5, <1>6, <1>7, <1>8, <1>9, <1>10, <1>11, <1>12, <1>13,
     <1>14 DEF Release

\* The weak-reference entry points takes a step of ObjectLifetime, or none.
LEMMA WeakMapped ==
  ASSUME Control, Account, NotPinned, Control', Account', NEW t \in Threads, Weak(t)
  PROVE  Mapped
<1> USE ConstantTypes DEF Mapped, Lifetime!Next, Lifetime!lifetimeVars, mem
<1>1. CASE WeakRead(t)
  BY <1>1 DEF WeakRead
<1>2. CASE LoadWeakLock(t)
  BY <1>2 DEF LoadWeakLock
<1>3. CASE StoreWeakRejected(t)
  <2>1. pc[t] = "weakStoreLock" /\ ~try[t] /\ lock = NoThread /\ rootIsDeallocating
    BY <1>3 DEF StoreWeakRejected, Control, Locked
  <2>2. ~Ended
    BY <2>1, ActiveAlone DEF Using
  <2>3. deallocator # NoThread
    BY <2>1, <2>2, BitsRead DEF Ended, Cleared, Control, Locked
  <2> QED
    BY <1>3, <2>3 DEF StoreWeakRejected, Lifetime!ZeroWeak
<1>4. CASE StoreWeakLock(t)
  BY <1>4 DEF StoreWeakLock
<1>5. CASE WeakMark(t)
  <2>1. deallocator = NoThread
    BY <1>5 DEF WeakMark, Account, Clients
  <2> QED
    BY <1>5, <2>1 DEF WeakMark, FinishStoreWeak, Lifetime!PointWeak
<1>6. CASE WeakMarkLoad(t)
  BY <1>6 DEF WeakMarkLoad
<1>7. CASE WeakMarkStore(t)
  <2>1. deallocator = NoThread
    BY <1>7 DEF WeakMarkStore, Account, Clients
  <2> QED
    BY <1>7, <2>1 DEF WeakMarkStore, FinishStoreWeak, Lifetime!PointWeak
<1>8. CASE WeakMarkStoreFails(t)
  BY <1>8 DEF WeakMarkStoreFails
<1> QED
  BY <1>1, <1>2, <1>3, <1>4, <1>5, <1>6, <1>7, <1>8 DEF Weak

\* changeIsa takes a step of ObjectLifetime, or none.
LEMMA ChangeIsaMapped ==
  ASSUME Control, Account, NotPinned, Control', Account', NEW t \in Threads, ChangeIsa(t)
  PROVE  Mapped
<1> USE ConstantTypes DEF Mapped, Lifetime!Next, Lifetime!lifetimeVars, mem
<1>1. CASE ChangeIsaLoad(t)
  BY <1>1 DEF ChangeIsaLoad
<1>2. CASE ChangeIsaLock(t)
  BY <1>2 DEF ChangeIsaLock
<1>3. CASE ChangeIsaStore(t)
  BY <1>3 DEF ChangeIsaStore
<1>4. CASE ChangeIsaStoreRaw(t)
  BY <1>4 DEF ChangeIsaStoreRaw
<1>5. CASE ChangeIsaStoreFails(t)
  BY <1>5 DEF ChangeIsaStoreFails
<1>6. CASE ChangeIsaMove(t)
  BY <1>6 DEF ChangeIsaMove
<1> QED
  BY <1>1, <1>2, <1>3, <1>4, <1>5, <1>6 DEF ChangeIsa

\* -dealloc takes a step of ObjectLifetime, or none.
LEMMA DeallocMapped ==
  ASSUME Control, Account, NotPinned, Control', Account', NEW t \in Threads, Dealloc(t)
  PROVE  Mapped
<1> USE ConstantTypes DEF Mapped, Lifetime!Next, Lifetime!lifetimeVars, mem
<1>1. CASE rootDealloc(t)
  BY <1>1 DEF rootDealloc
<1>2. CASE clearDeallocating_slow(t)
  <2>1. deallocator # NoThread /\ loc \in BOOLEAN
    BY <1>2 DEF clearDeallocating_slow, Account, Ending, Control, WordInv, TypeOK
  <2>2. loc' = loc \/ loc' = FALSE
    BY <1>2, <2>1 DEF clearDeallocating_slow
  <2> QED
    BY <1>2, <2>1, <2>2 DEF clearDeallocating_slow, Lifetime!ZeroWeak
<1>3. CASE sidetable_clearDeallocating(t)
  <2>1. deallocator # NoThread /\ loc \in BOOLEAN
    BY <1>3 DEF sidetable_clearDeallocating, Account, Ending, Control, WordInv, TypeOK
  <2>2. loc' = loc \/ loc' = FALSE
    BY <1>3, <2>1 DEF sidetable_clearDeallocating
  <2> QED
    BY <1>3, <2>1, <2>2 DEF sidetable_clearDeallocating, Lifetime!ZeroWeak
<1>4. CASE Free(t)
  <2>1. deallocator # NoThread /\ Live = {} /\ ~loc /\ ~freed
    BY <1>4 DEF Free, Account, Ending, Cleared
  <2> QED
    BY <1>4, <2>1 DEF Free, Lifetime!Free, Live
<1> QED
  BY <1>1, <1>2, <1>3, <1>4 DEF Dealloc

\* The beginning of a call takes a step of ObjectLifetime, or none.
LEMMA CallsMapped ==
  ASSUME Control, Account, NotPinned, Control', Account', NEW t \in Threads, Calls(t)
  PROVE  Mapped
<1> USE ConstantTypes DEF Mapped, Lifetime!Next, Lifetime!lifetimeVars, mem
<1>1. CASE CallRetain(t)
  BY <1>1 DEF CallRetain, Call, FreeRefs
<1>2. CASE CallRelease(t)
  BY <1>2 DEF CallRelease
<1>3. CASE CallLoadWeak(t)
  BY <1>3 DEF CallLoadWeak, Call, FreeRefs
<1>4. CASE CallStoreWeak(t)
  BY <1>4 DEF CallStoreWeak, Call
<1>5. CASE CallChangeIsa(t)
  BY <1>5 DEF CallChangeIsa, Call
<1> QED
  BY <1>1, <1>2, <1>3, <1>4, <1>5 DEF Calls

\* Every step of RefCount is a step of ObjectLifetime or leaves its state alone.
LEMMA StepMapped ==
  NotPinned /\ Control /\ Account /\ [Next]_vars => [Lifetime!Next]_Lifetime!lifetimeVars
<1> SUFFICES ASSUME NotPinned, Control, Account, [Next]_vars PROVE Mapped
  BY DEF Mapped
<1>1. Control' /\ Account'
  BY AccountStep
<1>2. CASE UNCHANGED vars
  BY <1>2 DEF vars, Mapped, Lifetime!lifetimeVars
<1>3. ASSUME NEW t \in Threads, Calls(t) \/ Step(t) PROVE Mapped
  BY <1>1, <1>3, CallsMapped, RetainMapped, ReleaseMapped, WeakMapped, ChangeIsaMapped,
     DeallocMapped DEF Step
<1>4. ASSUME NEW t \in Threads, NEW u \in Threads, Transfer(t, u) PROVE Mapped
  <2>1. \E r \in Refs : Lifetime!Give(t, u, r)
    BY <1>4 DEF Transfer, Lifetime!Give
  <2> QED
    BY <2>1 DEF Mapped, Lifetime!Next
<1> QED
  BY <1>2, <1>3, <1>4 DEF Next

\* Counting implements ownership: every behaviour of RefCount is a behaviour of
\* ObjectLifetime, in which there is no count but the references themselves.
THEOREM CountingImplementsOwnership == NotPinned => (Spec => ImplementsLifetime)
<1> SUFFICES ASSUME NotPinned PROVE Spec => Lifetime!Spec
  BY DEF ImplementsLifetime
<1>1. Init => Lifetime!Init
  BY DEF Init, Lifetime!Init
<1>2. Control /\ Account /\ [Next]_vars => [Lifetime!Next]_Lifetime!lifetimeVars
  BY StepMapped
<1> QED
  BY <1>1, <1>2, CountsBalance, PTL DEF Spec, Lifetime!Spec
=============================================================================
