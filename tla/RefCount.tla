------------------------------ MODULE RefCount ------------------------------
(***************************************************************************)
(* The retain count of one object: the inline count in the non-pointer isa *)
(* (objc-object.h), its overflow to and borrowing from the side table      *)
(* (NSObject.mm), the transition of the isa from non-pointer to raw        *)
(* (changeIsa), and the weak-reference entry points that meet the count    *)
(* under the side-table lock.                                              *)
(*                                                                         *)
(* Every isa update is a LoadExclusive followed, any number of steps of    *)
(* other threads later, by a StoreExclusive.  The refcnts entry and the    *)
(* weak entry of the object are only touched by the holder of the side-    *)
(* table lock, so work done inside one lock hold is one step unless an isa *)
(* access falls between.  The frameless fast path (handleOverflow and      *)
(* handleUnderflow false) differs from the framed one only by abandoning   *)
(* a load that changed nothing; it is not told apart.                      *)
(***************************************************************************)
EXTENDS Integers, FiniteSets

CONSTANTS
  Threads,     \* the threads that use the object
  Refs,        \* reference tokens: the strong references clients may own
  Classes,     \* classes the object's isa may be changed to
  RawClasses,  \* those of them that cannot have a non-pointer isa
  NoThread, NoRef,
  RC_HALF,     \* half the range of extra_rc (isa.h)
  RC_PINNED,   \* side-table count at which SIDE_TABLE_RC_PINNED is set
  LLSC,        \* TRUE: StoreExclusive may fail spuriously (arm64)
  MaxOps       \* bound on retains, weak loads and stores, isa changes

ASSUME RefCountAssumption ==
  /\ NoThread \notin Threads
  /\ NoRef \notin Refs
  /\ IsFiniteSet(Refs)
  /\ Classes # {}
  /\ RawClasses \subseteq Classes
  /\ RC_HALF \in Nat \ {0}
  /\ RC_PINNED \in Nat \ {0}
  /\ \E m \in 1 .. RC_PINNED : RC_PINNED = m * RC_HALF  \* both powers of two
  /\ LLSC \in BOOLEAN
  /\ MaxOps \in Nat

VARIABLES
  isa,          \* the isa word
  side,         \* the object's entry in SideTable.refcnts
  lock,         \* owner of SideTable.slock
  loc,          \* TRUE: a registered __weak variable holds the object
  freed,        \* the memory was freed
  deallocator,  \* thread that -dealloc was sent on
  owner,        \* client bookkeeping: owner of each reference token
  pc, old,      \* per thread: program counter, oldisa
  try,          \* per thread: tryRetain
  tok,          \* per thread: the reference being created or dropped
  cls,          \* per thread: changeIsa's newCls
  ops           \* calls made so far

vars == <<isa, side, lock, loc, freed, deallocator, owner, pc, old, try, tok,
          cls, ops>>
mem == <<isa, side, lock, loc, freed, deallocator, owner>>
locals == <<pc, old, try, tok, cls, ops>>

isa_t == [nonpointer : BOOLEAN, cls : Classes, extra_rc : 0 .. 2 * RC_HALF - 1,
          has_sidetable_rc : BOOLEAN, deallocating : BOOLEAN,
          weakly_referenced : BOOLEAN]

\* initIsa: a non-pointer isa with no extra references, or a raw class pointer.
initIsa(c) ==
  [nonpointer |-> c \notin RawClasses, cls |-> c, extra_rc |-> 0,
   has_sidetable_rc |-> FALSE, deallocating |-> FALSE,
   weakly_referenced |-> FALSE]

\* The value of a local that is not in use.
DeadIsa == initIsa(CHOOSE c \in Classes : TRUE)

Entry == [present : BOOLEAN, rc : 0 .. 2 * RC_PINNED - 1,
          deallocating : BOOLEAN, weak : BOOLEAN]

NoEntry == [present |-> FALSE, rc |-> 0, deallocating |-> FALSE, weak |-> FALSE]

PCs == {"idle",
        "retain", "retainLock", "retainStore", "retainSide", "sidetable_retain",
        "release", "releaseLock", "releaseStore", "borrowStore", "borrowAgain",
        "deallocStore", "sidetable_release", "overreleased",
        "weakRead", "weakLoadLock", "weakStoreLock", "weakMark", "weakMarkStore",
        "changeIsa", "changeIsaLock", "changeIsaStore", "changeIsaMove",
        "clearSlow", "clearRaw", "free"}

Init ==
  /\ \E c \in Classes : isa = initIsa(c)
  /\ side = NoEntry
  /\ lock = NoThread
  /\ loc = FALSE
  /\ freed = FALSE
  /\ deallocator = NoThread
  /\ \E r \in Refs, t \in Threads :
       owner = [q \in Refs |-> IF q = r THEN t ELSE NoThread]
  /\ pc = [t \in Threads |-> "idle"]
  /\ old = [t \in Threads |-> DeadIsa]
  /\ try = [t \in Threads |-> FALSE]
  /\ tok = [t \in Threads |-> NoRef]
  /\ cls = [t \in Threads |-> DeadIsa.cls]
  /\ ops = 0
-----------------------------------------------------------------------------
(* The refcnts entry: SIDE_TABLE_RC_ONE is one unit of rc, and the pinned  *)
(* bit is the top bit of the count field.                                  *)

Pinned(s) == s.rc >= RC_PINNED

\* The entry with n as its count, created if need be.
WithCount(s, n) == [present |-> TRUE, rc |-> n,
                    deallocating |-> s.deallocating, weak |-> s.weak]

sidetable_addExtraRC_nolock(s, d) ==
  WithCount(s, IF Pinned(s) THEN s.rc
               ELSE IF s.rc + d >= 2 * RC_PINNED THEN RC_PINNED ELSE s.rc + d)

\* Mutant of sidetable_subExtraRC_nolock: takes one count too many.
SubExtraRC_OneTooMany(s, d) ==
  IF s.rc = 0 THEN 0 ELSE d + 1

\* What is borrowed: all of the request, or nothing from an empty entry.
sidetable_subExtraRC_nolock(s, d) ==
  IF s.rc = 0 THEN 0 ELSE d

sidetable_moveExtraRC_nolock(s, i) ==
  [present |-> TRUE,
   rc |-> IF s.rc + i.extra_rc >= 2 * RC_PINNED THEN RC_PINNED
          ELSE s.rc + i.extra_rc,
   deallocating |-> s.deallocating \/ i.deallocating,
   weak |-> s.weak \/ i.weakly_referenced]

sidetable_incr(s) == WithCount(s, IF Pinned(s) THEN s.rc ELSE s.rc + 1)

\* An entry below SIDE_TABLE_DEALLOCATING: no extra references, flag clear.
LastReference(s) == s.rc = 0 /\ ~s.deallocating

sidetable_decr(s) ==
  IF LastReference(s)
  THEN [present |-> TRUE, rc |-> 0, deallocating |-> TRUE, weak |-> s.weak]
  ELSE WithCount(s, IF Pinned(s) THEN s.rc
                    ELSE IF s.rc = 0 THEN 2 * RC_PINNED - 1 ELSE s.rc - 1)

sidetable_setWeaklyReferenced_nolock(s) ==
  [present |-> TRUE, rc |-> s.rc, deallocating |-> s.deallocating, weak |-> TRUE]

rootIsDeallocating == IF isa.nonpointer THEN isa.deallocating
                                        ELSE side.deallocating

rootRetainCount ==
  1 + (IF isa.nonpointer THEN isa.extra_rc ELSE 0)
    + (IF isa.nonpointer /\ ~isa.has_sidetable_rc THEN 0 ELSE side.rc)
-----------------------------------------------------------------------------
(* Control helpers. *)

Goto(t, p) == pc' = [pc EXCEPT ![t] = p]

\* The call returns and its locals die.
Return(t) == /\ Goto(t, "idle")
             /\ old' = [old EXCEPT ![t] = DeadIsa]
             /\ try' = [try EXCEPT ![t] = FALSE]
             /\ tok' = [tok EXCEPT ![t] = NoRef]
             /\ cls' = [cls EXCEPT ![t] = DeadIsa.cls]
             /\ UNCHANGED ops

Lock(t) == lock = NoThread /\ lock' = t
Unlock(t) == lock' = IF lock = t THEN NoThread ELSE lock

LoadExclusive(t) == old' = [old EXCEPT ![t] = isa]
StoreExclusive(t, new) == isa = old[t] /\ isa' = new
StoreExclusiveFails(t) == isa # old[t] \/ LLSC

Owns(t) == \E r \in Refs : owner[r] = t
FreeRefs == {r \in Refs : owner[r] = NoThread /\ \A t \in Threads : tok[t] # r}
Live == {r \in Refs : owner[r] # NoThread}

Gain(t) == owner' = [owner EXCEPT ![tok[t]] = t]
Lose(t) == owner' = [owner EXCEPT ![tok[t]] = NoThread]

\* A client may use the object while it owns a reference or runs its -dealloc.
MayUse(t) == Owns(t) \/ (deallocator = t /\ ~freed)

Call(t, p) == /\ pc[t] = "idle"
              /\ ops < MaxOps
              /\ ops' = ops + 1
              /\ Goto(t, p)
              /\ UNCHANGED <<mem, old>>
-----------------------------------------------------------------------------
(* objc_object::rootRetain *)

CallRetain(t) == /\ MayUse(t)
                 /\ Call(t, "retain")
                 /\ \E r \in FreeRefs : tok' = [tok EXCEPT ![t] = r]
                 /\ UNCHANGED <<try, cls>>

\* Raw isa: give up any lock of ours and go to the side table.
RetainRaw(t) == /\ pc[t] = "retain" /\ ~try[t]
                /\ ~isa.nonpointer
                /\ Unlock(t)
                /\ Goto(t, "sidetable_retain")
                /\ UNCHANGED <<isa, side, loc, freed, deallocator, owner,
                               old, try, tok, cls, ops>>

sidetable_retain(t) == /\ pc[t] = "sidetable_retain"
                       /\ lock = NoThread
                       /\ side' = sidetable_incr(side)
                       /\ Gain(t)
                       /\ Return(t)
                       /\ UNCHANGED <<isa, lock, loc, freed, deallocator>>

\* sidetable_tryRetain, inside objc_loadWeakRetained's lock, which is then
\* released.
sidetable_tryRetain(t) ==
  /\ pc[t] = "retain" /\ try[t]
  /\ ~isa.nonpointer
  /\ IF side.deallocating THEN UNCHANGED <<side, owner>>
     ELSE side' = sidetable_incr(side) /\ Gain(t)
  /\ Unlock(t)
  /\ Return(t)
  /\ UNCHANGED <<isa, loc, freed, deallocator>>

TryRetainFails(t) == /\ pc[t] = "retain" /\ try[t]
                     /\ isa.nonpointer /\ isa.deallocating
                     /\ Unlock(t)
                     /\ Return(t)
                     /\ UNCHANGED <<isa, side, loc, freed, deallocator, owner>>

Carry(i) == i.extra_rc = 2 * RC_HALF - 1

\* Mutant of RetainLoad: tryRetain does not look at the deallocating bit.
RetainLoad_AnyTime(t) ==
  /\ pc[t] = "retain"
  /\ isa.nonpointer
  /\ LoadExclusive(t)
  /\ Goto(t, IF Carry(isa) /\ lock # t THEN "retainLock" ELSE "retainStore")
  /\ UNCHANGED <<mem, try, tok, cls, ops>>

RetainLoad(t) ==
  /\ pc[t] = "retain"
  /\ isa.nonpointer
  /\ ~(try[t] /\ isa.deallocating)
  /\ LoadExclusive(t)
  /\ Goto(t, IF Carry(isa) /\ lock # t THEN "retainLock" ELSE "retainStore")
  /\ UNCHANGED <<mem, try, tok, cls, ops>>

RetainLock(t) == /\ pc[t] = "retainLock"
                 /\ Lock(t)
                 /\ Goto(t, "retainStore")
                 /\ UNCHANGED <<isa, side, loc, freed, deallocator, owner,
                                old, try, tok, cls, ops>>

\* extra_rc++
RetainStore(t) ==
  /\ pc[t] = "retainStore"
  /\ ~Carry(old[t])
  /\ StoreExclusive(t, [old[t] EXCEPT !.extra_rc = @ + 1])
  /\ Gain(t)
  /\ Unlock(t)
  /\ Return(t)
  /\ UNCHANGED <<side, loc, freed, deallocator>>

\* The isa after an overflow.
Halved(i) == [nonpointer |-> i.nonpointer, cls |-> i.cls, extra_rc |-> RC_HALF,
              has_sidetable_rc |-> TRUE, deallocating |-> i.deallocating,
              weakly_referenced |-> i.weakly_referenced]

\* Overflow: keep half of the counts inline; the other half is copied next.
RetainStoreHalf(t) ==
  /\ pc[t] = "retainStore"
  /\ Carry(old[t])
  /\ StoreExclusive(t, Halved(old[t]))
  /\ Gain(t)
  /\ Goto(t, "retainSide")
  /\ UNCHANGED <<side, lock, loc, freed, deallocator, old, try, tok, cls, ops>>

RetainStoreFails(t) == /\ pc[t] = "retainStore"
                       /\ StoreExclusiveFails(t)
                       /\ Goto(t, "retain")
                       /\ UNCHANGED <<mem, old, try, tok, cls, ops>>

\* Mutant of RetainSide: the lock is not released.
RetainSide_KeepsLock(t) ==
  /\ pc[t] = "retainSide"
  /\ side' = sidetable_addExtraRC_nolock(side, RC_HALF)
  /\ Return(t)
  /\ UNCHANGED <<isa, lock, loc, freed, deallocator, owner>>

RetainSide(t) == /\ pc[t] = "retainSide"
                 /\ side' = sidetable_addExtraRC_nolock(side, RC_HALF)
                 /\ Unlock(t)
                 /\ Return(t)
                 /\ UNCHANGED <<isa, loc, freed, deallocator, owner>>

Retain(t) ==
  \/ RetainRaw(t) \/ sidetable_retain(t) \/ sidetable_tryRetain(t)
  \/ TryRetainFails(t) \/ RetainLoad(t) \/ RetainLock(t)
  \/ RetainStore(t) \/ RetainStoreHalf(t) \/ RetainStoreFails(t) \/ RetainSide(t)
-----------------------------------------------------------------------------
(* objc_object::rootRelease *)

CallRelease(t) == /\ pc[t] = "idle"
                  /\ \E r \in Refs : /\ owner[r] = t
                                     /\ tok' = [tok EXCEPT ![t] = r]
                  /\ Goto(t, "release")
                  /\ UNCHANGED <<mem, old, try, cls, ops>>

ReleaseRaw(t) == /\ pc[t] = "release"
                 /\ ~isa.nonpointer
                 /\ Unlock(t)
                 /\ Goto(t, "sidetable_release")
                 /\ UNCHANGED <<isa, side, loc, freed, deallocator, owner,
                                old, try, tok, cls, ops>>

sidetable_release(t) ==
  /\ pc[t] = "sidetable_release"
  /\ lock = NoThread
  /\ side' = sidetable_decr(side)
  /\ deallocator' = IF LastReference(side) THEN t ELSE deallocator
  /\ Lose(t)
  /\ Return(t)
  /\ UNCHANGED <<isa, lock, loc, freed>>

ReleaseLoad(t) == /\ pc[t] = "release"
                  /\ isa.nonpointer /\ isa.extra_rc > 0
                  /\ LoadExclusive(t)
                  /\ Goto(t, "releaseStore")
                  /\ UNCHANGED <<mem, try, tok, cls, ops>>

\* extra_rc--
ReleaseStore(t) ==
  /\ pc[t] = "releaseStore"
  /\ StoreExclusive(t, [old[t] EXCEPT !.extra_rc = @ - 1])
  /\ Lose(t)
  /\ Unlock(t)
  /\ Return(t)
  /\ UNCHANGED <<side, loc, freed, deallocator>>

ReleaseStoreFails(t) == /\ pc[t] \in {"releaseStore", "deallocStore"}
                        /\ StoreExclusiveFails(t)
                        /\ Goto(t, "release")
                        /\ UNCHANGED <<mem, old, try, tok, cls, ops>>

\* Underflow with counts in the side table: lock it and start over.
UnderflowNeedsLock(t) == /\ pc[t] = "release"
                         /\ isa.nonpointer /\ isa.extra_rc = 0
                         /\ isa.has_sidetable_rc
                         /\ lock # t
                         /\ Goto(t, "releaseLock")
                         /\ UNCHANGED <<mem, old, try, tok, cls, ops>>

ReleaseLock(t) == /\ pc[t] = "releaseLock"
                  /\ Lock(t)
                  /\ Goto(t, "release")
                  /\ UNCHANGED <<isa, side, loc, freed, deallocator, owner,
                                 old, try, tok, cls, ops>>

\* Mutant of Underflow: does not insist on the lock.
Underflow_Unlocked(t) == /\ pc[t] = "release"
                         /\ isa.nonpointer /\ isa.extra_rc = 0

Underflow(t) == /\ pc[t] = "release"
                /\ isa.nonpointer /\ isa.extra_rc = 0
                /\ isa.has_sidetable_rc => lock = t

Borrowed == IF isa.has_sidetable_rc
            THEN sidetable_subExtraRC_nolock(side, RC_HALF) ELSE 0

\* Take RC_HALF counts out of the side table, holding its lock.
UnderflowBorrow(t) ==
  /\ Underflow(t)
  /\ Borrowed > 0
  /\ LoadExclusive(t)
  /\ side' = [side EXCEPT !.rc = @ - Borrowed]
  /\ Goto(t, "borrowStore")
  /\ UNCHANGED <<isa, lock, loc, freed, deallocator, owner, try, tok, cls, ops>>

\* Mutant of BorrowStore: clears has_sidetable_rc when it emptied the entry.
BorrowStore_ClearsFlag(t) ==
  /\ pc[t] = "borrowStore"
  /\ StoreExclusive(t, [old[t] EXCEPT !.extra_rc = RC_HALF - 1,
                                      !.has_sidetable_rc = side.rc > 0])
  /\ Lose(t)
  /\ Unlock(t)
  /\ Return(t)
  /\ UNCHANGED <<side, loc, freed, deallocator>>

\* The borrowed counts, less the decrement, become the inline count.
BorrowStore(t) ==
  /\ pc[t] = "borrowStore"
  /\ StoreExclusive(t, [old[t] EXCEPT !.extra_rc = RC_HALF - 1])
  /\ Lose(t)
  /\ Unlock(t)
  /\ Return(t)
  /\ UNCHANGED <<side, loc, freed, deallocator>>

\* The inline update failed: load again and add to whatever is there now, or
\* put the counts back if that would overflow.
BorrowStoreFails(t) ==
  /\ pc[t] = "borrowStore"
  /\ StoreExclusiveFails(t)
  /\ LoadExclusive(t)
  /\ IF isa.nonpointer /\ isa.extra_rc + RC_HALF - 1 < 2 * RC_HALF
     THEN Goto(t, "borrowAgain") /\ UNCHANGED side
     ELSE /\ Goto(t, "release")
          /\ side' = sidetable_addExtraRC_nolock(side, RC_HALF)
  /\ UNCHANGED <<isa, lock, loc, freed, deallocator, owner, try, tok, cls, ops>>

BorrowAgain(t) ==
  /\ pc[t] = "borrowAgain"
  /\ StoreExclusive(t, [old[t] EXCEPT !.extra_rc = @ + RC_HALF - 1])
  /\ Lose(t)
  /\ Unlock(t)
  /\ Return(t)
  /\ UNCHANGED <<side, loc, freed, deallocator>>

\* Mutant of BorrowAgainFails: the borrowed counts are not put back.
BorrowAgainFails_Forgets(t) ==
  /\ pc[t] = "borrowAgain"
  /\ StoreExclusiveFails(t)
  /\ Goto(t, "release")
  /\ UNCHANGED <<mem, old, try, tok, cls, ops>>

BorrowAgainFails(t) ==
  /\ pc[t] = "borrowAgain"
  /\ StoreExclusiveFails(t)
  /\ side' = sidetable_addExtraRC_nolock(side, RC_HALF)
  /\ Goto(t, "release")
  /\ UNCHANGED <<isa, lock, loc, freed, deallocator, owner,
                 old, try, tok, cls, ops>>

\* Nothing to borrow: really deallocate, unless that already began.
UnderflowDealloc(t) ==
  /\ Underflow(t)
  /\ Borrowed = 0
  /\ LoadExclusive(t)
  /\ IF isa.deallocating THEN Goto(t, "overreleased") /\ Unlock(t)
     ELSE Goto(t, "deallocStore") /\ UNCHANGED lock
  /\ UNCHANGED <<isa, side, loc, freed, deallocator, owner, try, tok, cls, ops>>

DeallocStore(t) ==
  /\ pc[t] = "deallocStore"
  /\ StoreExclusive(t, [old[t] EXCEPT !.deallocating = TRUE])
  /\ deallocator' = t
  /\ Lose(t)
  /\ Unlock(t)
  /\ Return(t)
  /\ UNCHANGED <<side, loc, freed>>

Release(t) ==
  \/ ReleaseRaw(t) \/ sidetable_release(t) \/ ReleaseLoad(t) \/ ReleaseStore(t)
  \/ ReleaseStoreFails(t) \/ UnderflowNeedsLock(t) \/ ReleaseLock(t)
  \/ UnderflowBorrow(t) \/ BorrowStore(t) \/ BorrowStoreFails(t)
  \/ BorrowAgain(t) \/ BorrowAgainFails(t)
  \/ UnderflowDealloc(t) \/ DeallocStore(t)
-----------------------------------------------------------------------------
(* objc_loadWeakRetained and storeWeak, for one weak variable that is nil  *)
(* or holds the object.                                                    *)

CallLoadWeak(t) == /\ Call(t, "weakRead")
                   /\ \E r \in FreeRefs : tok' = [tok EXCEPT ![t] = r]
                   /\ UNCHANGED <<try, cls>>

\* obj = *location, before the lock is known.
WeakRead(t) == /\ pc[t] = "weakRead"
               /\ IF loc THEN Goto(t, "weakLoadLock") /\ UNCHANGED <<old, try, tok, cls, ops>>
                         ELSE Return(t)
               /\ UNCHANGED mem

\* Under the lock: start over if *location changed, else rootTryRetain.
LoadWeakLock(t) ==
  /\ pc[t] = "weakLoadLock"
  /\ lock = NoThread
  /\ IF loc THEN /\ lock' = t
                 /\ try' = [try EXCEPT ![t] = TRUE]
                 /\ Goto(t, "retain")
            ELSE Goto(t, "weakRead") /\ UNCHANGED <<lock, try>>
  /\ UNCHANGED <<isa, side, loc, freed, deallocator, owner, old, tok, cls, ops>>

\* objc_storeWeakOrNil; objc_storeWeak halts where this one is rejected.
CallStoreWeak(t) == /\ MayUse(t)
                    /\ Call(t, "weakStoreLock")
                    /\ UNCHANGED <<try, tok, cls>>

\* weak_register_no_lock refuses an object that is deallocating, and nil is
\* stored instead.
StoreWeakRejected(t) == /\ pc[t] = "weakStoreLock"
                        /\ lock = NoThread
                        /\ rootIsDeallocating
                        /\ loc' = FALSE
                        /\ Return(t)
                        /\ UNCHANGED <<isa, side, lock, freed, deallocator, owner>>

StoreWeakLock(t) == /\ pc[t] = "weakStoreLock"
                    /\ ~rootIsDeallocating
                    /\ Lock(t)
                    /\ Goto(t, "weakMark")
                    /\ UNCHANGED <<isa, side, loc, freed, deallocator, owner,
                                   old, try, tok, cls, ops>>

\* *location = newObj, unlock.
FinishStoreWeak(t) == /\ loc' = TRUE
                      /\ Unlock(t)
                      /\ Return(t)
                      /\ UNCHANGED <<freed, deallocator, owner>>

\* Mutant of WeakMark: marks the side-table entry whatever the isa is.
WeakMark_AlwaysSide(t) == /\ pc[t] = "weakMark"
                          /\ side' = sidetable_setWeaklyReferenced_nolock(side)
                          /\ FinishStoreWeak(t)
                          /\ UNCHANGED isa

\* setWeaklyReferenced_nolock: raw isa, or bit already set.
WeakMark(t) == /\ pc[t] = "weakMark"
               /\ ~isa.nonpointer \/ isa.weakly_referenced
               /\ side' = IF isa.nonpointer THEN side
                          ELSE sidetable_setWeaklyReferenced_nolock(side)
               /\ FinishStoreWeak(t)
               /\ UNCHANGED isa

WeakMarkLoad(t) == /\ pc[t] = "weakMark"
                   /\ isa.nonpointer /\ ~isa.weakly_referenced
                   /\ LoadExclusive(t)
                   /\ Goto(t, "weakMarkStore")
                   /\ UNCHANGED <<mem, try, tok, cls, ops>>

WeakMarkStore(t) ==
  /\ pc[t] = "weakMarkStore"
  /\ StoreExclusive(t, [old[t] EXCEPT !.weakly_referenced = TRUE])
  /\ FinishStoreWeak(t)
  /\ UNCHANGED side

WeakMarkStoreFails(t) == /\ pc[t] = "weakMarkStore"
                         /\ StoreExclusiveFails(t)
                         /\ Goto(t, "weakMark")
                         /\ UNCHANGED <<mem, old, try, tok, cls, ops>>

Weak(t) ==
  \/ WeakRead(t) \/ LoadWeakLock(t) \/ StoreWeakRejected(t) \/ StoreWeakLock(t)
  \/ WeakMark(t) \/ WeakMarkLoad(t) \/ WeakMarkStore(t) \/ WeakMarkStoreFails(t)
-----------------------------------------------------------------------------
(* objc_object::changeIsa *)

CallChangeIsa(t) == /\ MayUse(t)
                    /\ Call(t, "changeIsa")
                    /\ \E c \in Classes : cls' = [cls EXCEPT ![t] = c]
                    /\ UNCHANGED <<try, tok>>

\* nonpointer -> raw pointer: the counts must move to the side table.
Transcribe(t, i) == i.nonpointer /\ cls[t] \in RawClasses

ChangeIsaLoad(t) ==
  /\ pc[t] = "changeIsa"
  /\ LoadExclusive(t)
  /\ Goto(t, IF Transcribe(t, isa) /\ lock # t THEN "changeIsaLock"
                                              ELSE "changeIsaStore")
  /\ UNCHANGED <<mem, try, tok, cls, ops>>

ChangeIsaLock(t) == /\ pc[t] = "changeIsaLock"
                    /\ Lock(t)
                    /\ Goto(t, "changeIsaStore")
                    /\ UNCHANGED <<isa, side, loc, freed, deallocator, owner,
                                   old, try, tok, cls, ops>>

\* nonpointer -> nonpointer keeps the counts, raw -> raw has none.
ChangeIsaStore(t) ==
  /\ pc[t] = "changeIsaStore"
  /\ ~Transcribe(t, old[t])
  /\ StoreExclusive(t, [old[t] EXCEPT !.cls = cls[t]])
  /\ Unlock(t)
  /\ Return(t)
  /\ UNCHANGED <<side, loc, freed, deallocator, owner>>

ChangeIsaStoreRaw(t) ==
  /\ pc[t] = "changeIsaStore"
  /\ Transcribe(t, old[t])
  /\ StoreExclusive(t, initIsa(cls[t]))
  /\ Goto(t, "changeIsaMove")
  /\ UNCHANGED <<side, lock, loc, freed, deallocator, owner,
                 old, try, tok, cls, ops>>

ChangeIsaStoreFails(t) == /\ pc[t] = "changeIsaStore"
                          /\ StoreExclusiveFails(t)
                          /\ Goto(t, "changeIsa")
                          /\ UNCHANGED <<mem, old, try, tok, cls, ops>>

ChangeIsaMove(t) == /\ pc[t] = "changeIsaMove"
                    /\ side' = sidetable_moveExtraRC_nolock(side, old[t])
                    /\ Unlock(t)
                    /\ Return(t)
                    /\ UNCHANGED <<isa, loc, freed, deallocator, owner>>

ChangeIsa(t) ==
  \/ ChangeIsaLoad(t) \/ ChangeIsaLock(t) \/ ChangeIsaStore(t)
  \/ ChangeIsaStoreRaw(t) \/ ChangeIsaStoreFails(t) \/ ChangeIsaMove(t)
-----------------------------------------------------------------------------
(* -dealloc: rootDealloc, clearDeallocating, free. *)

\* Mutant of rootDealloc: the fast path ignores weakly_referenced.
rootDealloc_IgnoresWeak(t) ==
  /\ pc[t] = "idle"
  /\ deallocator = t
  /\ ~freed
  /\ ~Owns(t)
  /\ Goto(t, IF ~isa.nonpointer THEN "clearRaw"
             ELSE IF isa.has_sidetable_rc THEN "clearSlow" ELSE "free")
  /\ UNCHANGED <<mem, old, try, tok, cls, ops>>

\* Once the client's part of -dealloc has dropped what it retained itself.
rootDealloc(t) ==
  /\ pc[t] = "idle"
  /\ deallocator = t
  /\ ~freed
  /\ ~Owns(t)
  /\ Goto(t, IF ~isa.nonpointer THEN "clearRaw"
             ELSE IF isa.weakly_referenced \/ isa.has_sidetable_rc
                  THEN "clearSlow" ELSE "free")
  /\ UNCHANGED <<mem, old, try, tok, cls, ops>>

clearDeallocating_slow(t) ==
  /\ pc[t] = "clearSlow"
  /\ lock = NoThread
  /\ loc' = (loc /\ ~isa.weakly_referenced)
  /\ side' = IF isa.has_sidetable_rc THEN NoEntry ELSE side
  /\ Goto(t, "free")
  /\ UNCHANGED <<isa, lock, freed, deallocator, owner, old, try, tok, cls, ops>>

sidetable_clearDeallocating(t) ==
  /\ pc[t] = "clearRaw"
  /\ lock = NoThread
  /\ loc' = (loc /\ ~side.weak)
  /\ side' = NoEntry
  /\ Goto(t, "free")
  /\ UNCHANGED <<isa, lock, freed, deallocator, owner, old, try, tok, cls, ops>>

Free(t) == /\ pc[t] = "free"
           /\ freed' = TRUE
           /\ Return(t)
           /\ UNCHANGED <<isa, side, lock, loc, deallocator, owner>>

Dealloc(t) == \/ rootDealloc(t) \/ clearDeallocating_slow(t)
              \/ sidetable_clearDeallocating(t) \/ Free(t)
-----------------------------------------------------------------------------
\* A client hands one of its references to another thread.
Transfer(t, u) == /\ pc[t] = "idle"
                  /\ deallocator = NoThread
                  /\ \E r \in Refs : /\ owner[r] = t
                                     /\ owner' = [owner EXCEPT ![r] = u]
                  /\ UNCHANGED <<isa, side, lock, loc, freed, deallocator,
                                 pc, old, try, tok, cls, ops>>

Calls(t) == \/ CallRetain(t) \/ CallRelease(t) \/ CallLoadWeak(t)
            \/ CallStoreWeak(t) \/ CallChangeIsa(t)

Step(t) == Retain(t) \/ Release(t) \/ Weak(t) \/ ChangeIsa(t) \/ Dealloc(t)

Next == \/ \E t \in Threads : Calls(t) \/ Step(t)
        \/ \E t, u \in Threads : Transfer(t, u)

Spec == Init /\ [][Next]_vars

\* Threads are scheduled; and a -dealloc that retained self releases it again.
Fairness == \A t \in Threads : /\ WF_vars(Step(t))
                               /\ WF_vars(deallocator = t /\ CallRelease(t))

FairSpec == Spec /\ Fairness
-----------------------------------------------------------------------------
(* Properties *)

\* Every variable keeps its type; in particular no borrow takes more than the
\* side table holds (the assert "shouldn't underflow" of
\* sidetable_subExtraRC_nolock).
TypeOK ==
  /\ isa \in isa_t
  /\ side \in Entry
  /\ lock \in Threads \cup {NoThread}
  /\ loc \in BOOLEAN
  /\ freed \in BOOLEAN
  /\ deallocator \in Threads \cup {NoThread}
  /\ owner \in [Refs -> Threads \cup {NoThread}]
  /\ pc \in [Threads -> PCs]
  /\ old \in [Threads -> isa_t]
  /\ try \in [Threads -> BOOLEAN]
  /\ tok \in [Threads -> Refs \cup {NoRef}]
  /\ cls \in [Threads -> Classes]
  /\ ops \in 0 .. MaxOps

\* rootRelease and sidetable_release send -dealloc only when no thread owns a
\* reference any more; afterwards only -dealloc itself may own one.
NoPrematureDealloc ==
  deallocator # NoThread => \A r \in Refs : owner[r] \in {NoThread, deallocator}

\* The last release is recognised: an unreferenced object is being deallocated
\* (no leak when the count is split between the isa and the side table).
NoLeak == Live = {} => deallocator # NoThread

\* The split count reaches zero with the last reference, not before and not
\* later: -dealloc is sent exactly then.
DeallocAtLastRelease == NoPrematureDealloc /\ NoLeak

\* Steps of a call that read or write the object's memory.
Touches == PCs \ {"idle", "weakRead", "weakLoadLock"}

\* rootDealloc frees the memory only when no reference, no weak variable and
\* no side-table entry is left, and no thread is inside an operation that
\* touches the object.
NoUseAfterFree ==
  freed => /\ Live = {}
           /\ ~loc
           /\ side = NoEntry
           /\ \A t \in Threads : pc[t] \notin Touches

\* With no operation in flight, -retainCount is the number of references;
\* inside -dealloc it is one more than what -dealloc itself retained.
RetainCountExact ==
  (~freed /\ \A t \in Threads : pc[t] = "idle")
    => rootRetainCount = Cardinality(Live)
                         + (IF deallocator = NoThread THEN 0 ELSE 1)

\* The asserts of sidetable_addExtraRC_nolock, sidetable_subExtraRC_nolock
\* and sidetable_moveExtraRC_nolock: under a non-pointer isa the entry holds
\* no flag bits, and whole halves only.
SideTableAsserts ==
  isa.nonpointer => /\ ~side.deallocating /\ ~side.weak
                    /\ \E k \in 0 .. side.rc : side.rc = k * RC_HALF

\* One step of the isa: raw stays raw, and no flag of a non-pointer isa is
\* cleared.
IsaStep == /\ ~isa.nonpointer => ~isa'.nonpointer
           /\ isa'.nonpointer => /\ isa.has_sidetable_rc => isa'.has_sidetable_rc
                                 /\ isa.weakly_referenced => isa'.weakly_referenced
                                 /\ isa.deallocating => isa'.deallocating

\* The isa never goes from raw back to non-pointer, and while it is
\* non-pointer has_sidetable_rc, weakly_referenced and deallocating are never
\* cleared (rootRelease: "has_sidetable_rc must remain set").
IsaMonotone == [][IsaStep]_vars

\* An object whose last reference was released is freed.
DeallocFinishes == deallocator # NoThread ~> freed

\* Every call returns: no operation livelocks on StoreExclusive or blocks on
\* the side-table lock for ever.
CallsReturn == \A t \in Threads : pc[t] # "idle" ~> pc[t] = "idle"

\* Both together, under the fairness of the scheduler.
Progress == CallsReturn /\ DeallocFinishes

\* Counting implements ownership: each step that changes the references is
\* one Acquire, Drop, Give, weak store or free of ObjectLifetime.
Lifetime == INSTANCE ObjectLifetime
              WITH owner <- owner, deallocator <- deallocator, loc <- loc, freed <- freed
ImplementsLifetime == Lifetime!Spec
=============================================================================
