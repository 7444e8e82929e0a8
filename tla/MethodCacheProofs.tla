------------------------- MODULE MethodCacheProofs -------------------------
(***************************************************************************)
(* Proofs about MethodCache, for any number of threads and selectors, any  *)
(* hash and any threshold: a messenger never reads outside an allocated    *)
(* bucket array, a send never ends in a stale implementation, and no array *)
(* is lost, freed twice or overfilled.                                     *)
(***************************************************************************)
EXTENDS MethodCache, FiniteSetTheorems, WellFoundedInduction, TLAPS

\* A thread in one of these states has taken cacheUpdateLock.
UpdateHeld == {"setMask", "collect", "setImp", "setKey", "flushed", "bad_cache"}

PCs == {"idle", "mask", "buckets", "scan", "imp", "done", "uncached", "found",
        "fill", "flush", "collectAll"} \cup UpdateHeld

\* A thread in one of these states is sending a message.
Sending == {"mask", "buckets", "scan", "imp", "done", "uncached", "found", "fill"}

Imps == (Sels \X Nat) \cup {NoImp}
Bucket == [key : Sels \cup {NoSel}, imp : Imps]

Reasons == {"none", "send", "lookup", "edit", "flushAll", "collectALot"}

\* Which operation a thread is in, and that it sends a known selector.
Busy(t) ==
  /\ pc[t] \in Sending \cup {"setImp", "setKey", "bad_cache"} => sel[t] \in Sels
  /\ why[t] = "lookup" => sel[t] \in Sels
  /\ pc[t] \in {"mask", "buckets", "scan", "imp", "uncached"} => why[t] = "send"
  /\ pc[t] \in {"found", "fill", "setImp", "setKey", "bad_cache"} => why[t] = "lookup"
  /\ pc[t] = "setMask" => why[t] \in {"lookup", "edit", "flushAll"}
  /\ pc[t] = "collect" => why[t] \in {"lookup", "edit", "flushAll", "collectALot"}
  /\ pc[t] = "flushed" => why[t] \in {"edit", "flushAll", "collectALot"}
  /\ pc[t] = "flush" => why[t] \in {"edit", "flushAll"}
  /\ pc[t] = "collectAll" => why[t] = "flushAll"
  /\ sel[t] \in Sels => why[t] \in {"send", "lookup"}
  /\ pc[t] = "idle" => why[t] = "none"

\* The threads that hold runtimeLock.
RuntimeHeld(t) ==
  \/ pc[t] \in {"found", "fill", "flush"}
  \/ pc[t] \in UpdateHeld /\ why[t] # "collectALot"

Locks(t) ==
  /\ pc[t] \in UpdateHeld <=> cacheUpdateLock = t
  /\ RuntimeHeld(t) <=> runtimeLock = t

\* First layer: who is where, and who holds which lock.
ControlInv ==
  /\ pc \in [Threads -> PCs] /\ why \in [Threads -> Reasons]
  /\ sel \in [Threads -> Sels \cup {NoSel}]
  /\ wrapped \in [Threads -> BOOLEAN]
  /\ valid \in [Threads -> SUBSET (Sels \X Nat)]
  /\ left \in [Threads -> SUBSET Threads]
  /\ methods \in [Sels -> Nat] /\ replaced \subseteq Sels \X Nat
  /\ edits \in Nat
  /\ runtimeLock \in Threads \cup {NoThread}
  /\ cacheUpdateLock \in Threads \cup {NoThread}
  /\ \A t \in Threads : Busy(t) /\ Locks(t)

\* A thread that is replacing the array, before the mask is stored.
Replacing == \E t \in Threads : pc[t] = "setMask"

\* A thread that is about to store an entry.
WillStore(t) == \/ pc[t] \in {"setImp", "setKey"}
                \/ pc[t] = "collect" /\ why[t] = "lookup"

\* The mask is never larger than the array allows.
MaskBound == buckets # Empty => mask < CapacityOf(buckets)

\* It lags behind the array only between the two stores of setBucketsAndMask.
Settled ==
  ~Replacing => /\ buckets # Empty => CapacityOf(buckets) = mask + 1
                /\ buckets = Empty => occupied = 0

\* A mask that a messenger has read is no larger than the one in place.
ReadMasks == \A t \in Threads : pc[t] = "buckets" => m[t] <= mask

\* A lookup installs a larger array, an erase the constant empty one.
Purpose ==
  \A t \in Threads : pc[t] = "setMask" => (buckets # Empty <=> why[t] = "lookup")

\* There is room for the entry about to be stored.
Room == \A t \in Threads : WillStore(t) => buckets # Empty /\ HasRoom

\* The array being replaced is known to the thread that replaces it only.
OldArrays == \A t \in Threads : old[t] # Empty => pc[t] = "setMask"

\* A messenger that can still reach the garbage is one that the collector has
\* yet to look at.
ReadersSeen ==
  \A t, u \in Threads :
    pc[t] = "collect" /\ pc[u] \in {"scan", "imp"} /\ at[u][1] \in garbage => u \in left[t]

\* The buckets of the current array that are in use.
Used == {i \in 0 .. mask : heap[buckets][i].key # NoSel}

\* occupied counts the buckets in use; a new array has none.
Counted ==
  /\ ~Replacing /\ buckets # Empty =>
       /\ occupied = Cardinality(Used)
       /\ occupied <= (capacity \div 4) * 3
  /\ Replacing /\ buckets # Empty =>
       \A i \in DOMAIN heap[buckets] : heap[buckets][i].key = NoSel
  /\ \A t \in Threads : pc[t] # "bad_cache"

\* What the cache may hold for a selector: its implementation, or the one that
\* the edit in progress has just replaced.
Current(s) == {Imp(s, methods[s])} \cup {i \in replaced : i[1] = s}

\* An implementation is only remembered as replaced while the edit holds
\* runtimeLock.
Editing == replaced # {} => \E t \in Threads : runtimeLock = t /\ why[t] = "edit"

\* The current array holds only what may be cached.
EntriesCurrent ==
  buckets # Empty =>
    \A i \in DOMAIN heap[buckets] :
      heap[buckets][i].key # NoSel =>
        heap[buckets][i].imp \in Current(heap[buckets][i].key)

\* What may be cached for the selector being sent was its implementation during
\* the send, and so was what the slow path found.
Meaning(t) ==
  /\ pc[t] \in Sending \/ why[t] = "lookup" => Current(sel[t]) \subseteq valid[t]
  /\ why[t] = "lookup" /\ pc[t] # "done" => got[t] = Imp(sel[t], methods[sel[t]])
  /\ why[t] = "lookup" \/ pc[t] = "done" => got[t] \in valid[t]

\* So was every implementation that a messenger can meet in its array.
Seen(t) ==
  /\ pc[t] \in {"scan", "imp"} /\ at[t][1] # Empty =>
       \A i \in DOMAIN heap[at[t][1]] :
         heap[at[t][1]][i].key = sel[t] => heap[at[t][1]][i].imp \in valid[t]
  /\ pc[t] = "imp" => heap[at[t][1]][at[t][2]].key = sel[t]

\* An edit empties the cache before it ends; the bucket about to get its key
\* already has its implementation.
Chosen(t) ==
  /\ pc[t] = "flushed" /\ why[t] = "edit" => buckets = Empty \/ occupied = 0
  /\ pc[t] \in {"setMask", "collect"} /\ why[t] = "edit" => buckets = Empty
  /\ pc[t] = "setKey" =>
       heap[buckets][Probe(sel[t], Min(FreeProbes(sel[t])))].imp = got[t]

\* Third layer: what the entries mean.
Fresh == /\ Editing /\ EntriesCurrent
         /\ \A t \in Threads : Meaning(t) /\ Seen(t) /\ Chosen(t)

\* Second layer: the arrays, and the messengers that read them.
HeapShape ==
  /\ DOMAIN heap \subseteq Nat \ {Empty} /\ IsFiniteSet(DOMAIN heap)
  /\ heap = [a \in DOMAIN heap |-> heap[a]]
  /\ \A a \in DOMAIN heap : /\ CapacityOf(a) \in Nat /\ CapacityOf(a) >= 4
                            /\ heap[a] \in [0 .. CapacityOf(a) - 1 -> Bucket]
  /\ mask \in Nat /\ (mask = 0 \/ mask >= 3) /\ occupied \in Nat
  /\ buckets \in DOMAIN heap \cup {Empty}

Locals ==
  /\ m \in [Threads -> Nat]
  /\ got \in [Threads -> Imps]
  /\ at \in [Threads -> Nat \X Nat]
  /\ old \in [Threads -> Nat]

\* Between its two stores, the writer still finds the bucket it has chosen.
Target == \A t \in Threads : pc[t] = "setKey" => FreeProbes(sel[t]) # {}

\* A messenger that found its selector looks at a bucket, not at the end marker.
HitInside ==
  \A t \in Threads : pc[t] = "imp" =>
    at[t][1] \in DOMAIN heap /\ at[t][2] \in 0 .. CapacityOf(at[t][1]) - 1

Arrays == OldArrays /\ ArraysAccounted
Readers == NoWildRead /\ HitInside /\ ReadersSeen

MaskFits == MaskBound /\ Settled /\ Purpose /\ Room

HeapInv == HeapShape /\ Locals /\ MaskFits /\ ReadMasks /\ Arrays /\ Readers
-----------------------------------------------------------------------------
USE DEF Goto, cache, table, locks, counts, reader

\* The first layer holds initially.
LEMMA InitControl == Init => ControlInv
BY MethodCacheAssumption
   DEF Init, ControlInv, Busy, Locks, RuntimeHeld, PCs, UpdateHeld, Sending, Reasons

\* Every step of a messenger keeps it.
LEMMA ReadControl ==
  ASSUME ControlInv, NEW t \in Threads, Read(t)
  PROVE  ControlInv'
<1> USE MethodCacheAssumption
    DEF ControlInv, Busy, Locks, RuntimeHeld, PCs, UpdateHeld, Sending, Reasons
<1>1. CASE ReadMask(t)
  BY <1>1 DEF ReadMask
<1>2. CASE ReadBuckets(t)
  BY <1>2 DEF ReadBuckets
<1>3. CASE Scan(t)
  <2>1. \/ pc' = pc
        \/ pc[t] = "scan" /\ pc' = [pc EXCEPT ![t] = "uncached"]
        \/ pc[t] = "scan" /\ pc' = [pc EXCEPT ![t] = "imp"]
    BY <1>3, Zenon DEF Scan, Miss
  <2>2. wrapped' \in [Threads -> BOOLEAN]
    BY <1>3, ZenonT(60) DEF Scan, Miss
  <2>3. UNCHANGED <<table, locks, sel, valid, why, left, counts>>
    BY <1>3 DEF Scan
  <2>4. pc' \in [Threads -> PCs] /\ \A u \in Threads : Busy(u)' /\ Locks(u)'
    BY <2>1, <2>3
  <2> QED
    BY <2>2, <2>3, <2>4
<1>4. CASE CacheHit(t)
  BY <1>4 DEF CacheHit
<1>5. CASE Dispatched(t)
  BY <1>5 DEF Dispatched
<1> QED
  BY <1>1, <1>2, <1>3, <1>4, <1>5 DEF Read

\* So does every step of a lookup that missed, which fills the cache.
LEMMA FillControl ==
  ASSUME ControlInv, NEW t \in Threads, Fill(t)
  PROVE  ControlInv'
<1> USE MethodCacheAssumption
    DEF ControlInv, Busy, Locks, RuntimeHeld, PCs, UpdateHeld, Sending, Reasons
<1>1. CASE LookUp(t)
  BY <1>1 DEF LookUp
<1>2. CASE Found(t)
  BY <1>2 DEF Found
<1>3. CASE cache_fill(t)
  BY <1>3 DEF cache_fill, reallocate
<1>4. CASE SetMask(t)
  BY <1>4 DEF SetMask, After
<1>5. CASE CollectLook(t)
  BY <1>5 DEF CollectLook, After
<1>6. CASE CollectFree(t)
  BY <1>6 DEF CollectFree, After
<1>7. CASE SetImp(t)
  BY <1>7 DEF SetImp
<1>8. CASE SetKey(t)
  BY <1>8 DEF SetKey
<1> QED
  BY <1>1, <1>2, <1>3, <1>4, <1>5, <1>6, <1>7, <1>8 DEF Fill

\* And every step of a method edit or a flush.
LEMMA FlushControl ==
  ASSUME ControlInv, NEW t \in Threads, Flush(t)
  PROVE  ControlInv'
<1> USE MethodCacheAssumption
    DEF ControlInv, Busy, Locks, RuntimeHeld, PCs, UpdateHeld, Sending, Reasons
<1>1. CASE cache_erase_nolock(t)
  BY <1>1 DEF cache_erase_nolock
<1>2. CASE Flushed(t)
  BY <1>2 DEF Flushed
<1>3. CASE CollectALot(t)
  BY <1>3 DEF CollectALot
<1> QED
  BY <1>1, <1>2, <1>3 DEF Flush

\* And every call that begins an operation.
LEMMA BeginControl ==
  ASSUME ControlInv, NEW t \in Threads,
         \/ \E s \in Sels : objc_msgSend(t, s) \/ method_setImplementation(t, s)
         \/ objc_flush_caches(t)
  PROVE  ControlInv'
<1> USE MethodCacheAssumption
    DEF ControlInv, Busy, Locks, RuntimeHeld, PCs, UpdateHeld, Sending, Reasons
<1>1. ASSUME NEW s \in Sels, objc_msgSend(t, s) PROVE ControlInv'
  BY <1>1 DEF objc_msgSend, Imp
<1>2. ASSUME NEW s \in Sels, method_setImplementation(t, s) PROVE ControlInv'
  BY <1>2 DEF method_setImplementation, Imp
<1>3. CASE objc_flush_caches(t)
  BY <1>3 DEF objc_flush_caches
<1> QED
  BY <1>1, <1>2, <1>3

\* The locks and the control of the threads, in every reachable state.
THEOREM ControlCorrect == Spec => []ControlInv
<1>1. ControlInv /\ [Next]_vars => ControlInv'
  <2> SUFFICES ASSUME ControlInv, [Next]_vars PROVE ControlInv'
    OBVIOUS
  <2>1. CASE UNCHANGED vars
    BY <2>1 DEF vars, ControlInv, Busy, Locks, RuntimeHeld
  <2>2. CASE Next
    BY <2>2, ReadControl, FillControl, FlushControl, BeginControl DEF Next, Step
  <2> QED
    BY <2>1, <2>2
<1> QED
  BY <1>1, InitControl, PTL DEF Spec
-----------------------------------------------------------------------------
\* A hash reduced by a mask lies within the array that the mask is for.
LEMMA HashInRange ==
  \A h, k \in Nat : h % (k + 1) \in Nat /\ h % (k + 1) <= k
OBVIOUS

\* calloc returns an address that is not in use.
LEMMA NewAddressFresh ==
  ASSUME DOMAIN heap \subseteq Nat \ {Empty}, IsFiniteSet(DOMAIN heap)
  PROVE  NewAddress \in Nat \ {Empty} /\ NewAddress \notin DOMAIN heap
<1> DEFINE n == Cardinality(DOMAIN heap)
<1>1. n \in Nat
  BY FS_CardinalityType
<1>2. Cardinality(1 .. n + 1) = n + 1
  BY <1>1, FS_Interval
<1>3. ~(1 .. n + 1 \subseteq DOMAIN heap)
  <2> SUFFICES ASSUME 1 .. n + 1 \subseteq DOMAIN heap PROVE FALSE
    OBVIOUS
  <2>1. Cardinality(1 .. n + 1) <= n
    BY FS_Subset
  <2> QED
    BY <1>1, <1>2, <2>1
<1>4. \E a \in 1 .. n + 1 : a \notin DOMAIN heap
  BY <1>3
<1>5. NewAddress \in 1 .. n + 1 /\ NewAddress \notin DOMAIN heap
  BY <1>4 DEF NewAddress
<1> QED
  BY <1>1, <1>5 DEF Empty

\* A new array has the capacity asked for, and the others stay as they are.
LEMMA AllocatedShape ==
  ASSUME NEW a, NEW cap \in Nat, cap >= 4, allocateBuckets(a, cap)
  PROVE  /\ DOMAIN heap' = DOMAIN heap \cup {a}
         /\ heap' = [b \in DOMAIN heap' |-> heap'[b]]
         /\ heap'[a] = [i \in 0 .. cap - 1 |-> Zero]
         /\ Cardinality(DOMAIN heap'[a]) = cap
         /\ \A b \in DOMAIN heap : b # a => heap'[b] = heap[b]
<1>1. heap'[a] = [i \in 0 .. cap - 1 |-> Zero]
  BY DEF allocateBuckets
<1>2. Cardinality(0 .. cap - 1) = cap
  BY FS_Interval
<1> QED
  BY <1>1, <1>2 DEF allocateBuckets

\* The second layer holds initially.
LEMMA InitHeap == Init => HeapInv
BY FS_EmptySet, MethodCacheAssumption
   DEF Init, HeapInv, MaskFits, MaskBound, Settled, Purpose, Room, ReadMasks, Replacing, WillStore, OldArrays, ArraysAccounted,
       NoWildRead, HitInside, ReadersSeen, Imps, Empty, HeapShape, Locals, Arrays, Readers


\* A step that leaves cache_t and its arrays alone keeps what is said of them.
LEMMA QuietHeap ==
  ASSUME ControlInv, HeapInv, NEW t \in Threads, UNCHANGED <<cache, old>>,
         NEW p \in PCs, pc' = [pc EXCEPT ![t] = p],
         pc[t] # "setMask", p # "setMask",
         \A u \in Threads : u # t => why'[u] = why[u],
         WillStore(t)' => buckets # Empty /\ HasRoom
  PROVE  HeapShape' /\ MaskFits' /\ Arrays'
<1>1. HeapShape'
  BY DEF HeapInv, HeapShape, CapacityOf
<1>2. Arrays'
  BY DEF HeapInv, Arrays, OldArrays, ArraysAccounted, ControlInv
<1>3. MaskBound'
  BY DEF HeapInv, MaskFits, MaskBound, CapacityOf
<1>4. Settled'
  <2>1. Replacing' <=> Replacing
    BY DEF Replacing, ControlInv
  <2> QED
    BY <2>1 DEF HeapInv, MaskFits, Settled, CapacityOf
<1>5. Purpose'
  BY DEF HeapInv, MaskFits, Purpose, ControlInv
<1>6. Room'
  <2>1. HasRoom' <=> HasRoom
    BY DEF HasRoom, capacity
  <2>2. \A u \in Threads : u # t => (WillStore(u)' <=> WillStore(u))
    BY DEF WillStore, ControlInv
  <2> QED
    BY <2>1, <2>2 DEF HeapInv, MaskFits, Room
<1> QED
  BY <1>1, <1>2, <1>3, <1>4, <1>5, <1>6 DEF MaskFits

\* The types that the steps below need most, on their own.
LEMMA HeapTypes ==
  ASSUME ControlInv, HeapInv
  PROVE  /\ pc \in [Threads -> PCs] /\ why \in [Threads -> Reasons]
         /\ mask \in Nat /\ occupied \in Nat /\ buckets \in Nat
         /\ buckets # Empty =>
              buckets \in DOMAIN heap /\ CapacityOf(buckets) \in Nat /\ mask < CapacityOf(buckets)
         /\ m \in [Threads -> Nat] /\ got \in [Threads -> Imps]
         /\ at \in [Threads -> Nat \X Nat] /\ old \in [Threads -> Nat]
         /\ \A a \in DOMAIN heap : CapacityOf(a) \in Nat /\ DOMAIN heap[a] = 0 .. CapacityOf(a) - 1
BY DEF ControlInv, HeapInv, HeapShape, Locals, MaskFits, MaskBound, Empty

\* The messengers write nothing, and read inside the arrays.
LEMMA ReadHeap ==
  ASSUME ControlInv, HeapInv, NEW t \in Threads, Read(t)
  PROVE  HeapInv'
<1> USE HeapTypes DEF ReadMasks, NoWildRead, HitInside, ReadersSeen, Locals, CapacityOf
<1>0. NoWildRead /\ HitInside /\ ReadersSeen /\ ReadMasks
  BY DEF HeapInv, Readers
<1>1. CASE ReadMask(t)
  <2>1. HeapShape' /\ MaskFits' /\ Arrays'
    BY <1>1, QuietHeap DEF ReadMask, PCs, WillStore
  <2>2. Locals'
    BY <1>1 DEF ReadMask
  <2>3. ReadMasks'
    BY <1>0, <1>1 DEF ReadMask
  <2>4. NoWildRead' /\ HitInside' /\ ReadersSeen'
    BY <1>0, <1>1 DEF ReadMask
  <2> QED
    BY <2>1, <2>2, <2>3, <2>4 DEF HeapInv, Readers
<1>2. CASE ReadBuckets(t)
  <2>0. cache_hash(sel[t], m[t]) \in Nat /\ cache_hash(sel[t], m[t]) <= mask
    <3>1. sel[t] \in Sels /\ hash[sel[t]] \in Nat /\ m[t] \in Nat /\ m[t] <= mask
      BY <1>0, <1>2, MethodCacheAssumption DEF ReadBuckets, ControlInv, Busy, Sending
    <3> QED
      BY <3>1, HashInRange, Z3T(30) DEF cache_hash
  <2>1. HeapShape' /\ MaskFits' /\ Arrays'
    BY <1>2, QuietHeap DEF ReadBuckets, PCs, WillStore
  <2>2. Locals'
    BY <1>2, <2>0 DEF ReadBuckets
  <2>3. ReadMasks'
    BY <1>0, <1>2 DEF ReadBuckets
  <2>4. NoWildRead'
    BY <1>0, <1>2, <2>0 DEF ReadBuckets
  <2>6. HitInside'
    BY <1>0, <1>2 DEF ReadBuckets
  <2>5. ReadersSeen'
    BY <1>0, <1>2 DEF ReadBuckets, HeapInv, Arrays, ArraysAccounted
  <2> QED
    BY <2>1, <2>2, <2>3, <2>4, <2>5, <2>6 DEF HeapInv, Readers
<1>3. CASE Scan(t)
  <2> DEFINE a == at[t][1]
             i == at[t][2]
  <2>0. pc[t] = "scan" /\ a \in Nat /\ i \in Nat /\ sel[t] # NoSel
    BY <1>3, MethodCacheAssumption DEF Scan, ControlInv, Busy, Sending
  <2>1. UNCHANGED <<cache, old, why, got, left>>
    BY <1>3 DEF Scan
  <2>2. CASE /\ pc' = [pc EXCEPT ![t] = "uncached"]
             /\ at' = [at EXCEPT ![t] = <<Empty, 0>>]
             /\ m' = [m EXCEPT ![t] = 0]
    <3>1. HeapShape' /\ MaskFits' /\ Arrays'
      BY <2>0, <2>1, <2>2, QuietHeap DEF PCs, WillStore
    <3>2. Locals' /\ ReadMasks'
      BY <1>0, <2>1, <2>2 DEF Empty
    <3>3. NoWildRead' /\ HitInside' /\ ReadersSeen'
      BY <1>0, <2>1, <2>2
    <3> QED
      BY <3>1, <3>2, <3>3 DEF HeapInv, Readers
  <2>3. CASE /\ ~AtEndMarker(t) /\ At(a, i).key = sel[t]
             /\ pc' = [pc EXCEPT ![t] = "imp"]
             /\ UNCHANGED <<at, m>>
    <3>1. HeapShape' /\ MaskFits' /\ Arrays'
      BY <2>0, <2>1, <2>3, QuietHeap DEF PCs, WillStore
    <3>2. Locals' /\ ReadMasks'
      BY <1>0, <2>1, <2>3
    <3>3. a # Empty /\ i # CapacityOf(a)
      BY <2>0, <2>3 DEF AtEndMarker, At, Zero
    <3>4. a \in DOMAIN heap /\ i \in 0 .. CapacityOf(a) - 1
      BY <1>0, <2>0, <3>3
    <3>5. NoWildRead' /\ HitInside'
      BY <1>0, <2>0, <2>1, <2>3, <3>4
    <3>6. ReadersSeen'
      BY <1>0, <2>0, <2>1, <2>3
    <3> QED
      BY <3>1, <3>2, <3>5, <3>6 DEF HeapInv, Readers
  <2>4. CASE \E k \in Nat : /\ at' = [at EXCEPT ![t] = <<a, k>>]
                            /\ a # Empty => k <= CapacityOf(a)
                            /\ UNCHANGED <<pc, m>>
    <3>0. PICK k \in Nat : /\ at' = [at EXCEPT ![t] = <<a, k>>]
                           /\ a # Empty => k <= CapacityOf(a)
                           /\ UNCHANGED <<pc, m>>
      BY <2>4
    <3>1. HeapShape' /\ MaskFits' /\ Arrays'
      <4>1. pc' = [pc EXCEPT ![t] = "scan"]
        BY <2>0, <3>0
      <4> QED
        BY <2>0, <2>1, <4>1, QuietHeap DEF PCs, WillStore
    <3>2. Locals' /\ ReadMasks'
      BY <1>0, <2>0, <2>1, <3>0
    <3>3. NoWildRead' /\ HitInside'
      BY <1>0, <2>0, <2>1, <3>0
    <3>4. ReadersSeen'
      BY <1>0, <2>0, <2>1, <3>0
    <3> QED
      BY <3>1, <3>2, <3>3, <3>4 DEF HeapInv, Readers
  <2>5. a # Empty => i <= CapacityOf(a) /\ CapacityOf(a) \in Nat
    BY <1>0, <2>0
  <2>6. CASE AtEndMarker(t) /\ ~wrapped[t]
    <3>1. at' = [at EXCEPT ![t] = <<a, 0>>] /\ UNCHANGED <<pc, m>>
      BY <1>3, <2>6, Zenon DEF Scan
    <3>2. \E k \in Nat : /\ at' = [at EXCEPT ![t] = <<a, k>>]
                         /\ a # Empty => k <= CapacityOf(a)
                         /\ UNCHANGED <<pc, m>>
      <4> WITNESS 0 \in Nat
      <4> QED
        BY <2>5, <3>1
    <3> QED
      BY <2>4, <3>2
  <2>7. CASE ~AtEndMarker(t) /\ At(a, i).key \notin {sel[t], NoSel}
    <3>1. at' = [at EXCEPT ![t] = <<a, i + 1>>] /\ UNCHANGED <<pc, m>>
      BY <1>3, <2>7, Zenon DEF Scan
    <3>2. a # Empty => i + 1 <= CapacityOf(a)
      BY <2>0, <2>5, <2>7 DEF AtEndMarker
    <3>3. \E k \in Nat : /\ at' = [at EXCEPT ![t] = <<a, k>>]
                         /\ a # Empty => k <= CapacityOf(a)
                         /\ UNCHANGED <<pc, m>>
      <4>1. i + 1 \in Nat
        BY <2>0
      <4> WITNESS i + 1 \in Nat
      <4> QED
        BY <3>1, <3>2
    <3> QED
      BY <2>4, <3>3
  <2>8. CASE \/ AtEndMarker(t) /\ wrapped[t]
             \/ ~AtEndMarker(t) /\ At(a, i).key = NoSel
    BY <1>3, <2>0, <2>2, <2>8, Zenon DEF Scan, Miss
  <2>9. CASE ~AtEndMarker(t) /\ At(a, i).key = sel[t]
    BY <1>3, <2>0, <2>3, <2>9, Zenon DEF Scan
  <2>10. \/ AtEndMarker(t) \/ At(a, i).key \notin {sel[t], NoSel}
         \/ At(a, i).key = NoSel \/ At(a, i).key = sel[t]
    OBVIOUS
  <2> QED
    BY <2>6, <2>7, <2>8, <2>9, <2>10
<1>4. CASE CacheHit(t)
  <2>0. At(at[t][1], at[t][2]).imp \in Imps
    BY <1>0, <1>4 DEF CacheHit, At, HeapInv, HeapShape, Bucket, Empty
  <2>1. HeapShape' /\ MaskFits' /\ Arrays'
    BY <1>4, QuietHeap DEF CacheHit, PCs, WillStore
  <2>2. Locals'
    BY <1>4, <2>0 DEF CacheHit, Empty
  <2>3. ReadMasks'
    BY <1>0, <1>4 DEF CacheHit
  <2>4. NoWildRead' /\ HitInside' /\ ReadersSeen'
    BY <1>0, <1>4 DEF CacheHit
  <2> QED
    BY <2>1, <2>2, <2>3, <2>4 DEF HeapInv, Readers
<1>5. CASE Dispatched(t)
  <2>1. HeapShape' /\ MaskFits' /\ Arrays'
    BY <1>5, QuietHeap DEF Dispatched, PCs, WillStore
  <2>2. Locals' /\ ReadMasks'
    BY <1>0, <1>5 DEF Dispatched, Imps
  <2>3. NoWildRead' /\ HitInside' /\ ReadersSeen'
    BY <1>0, <1>5 DEF Dispatched
  <2> QED
    BY <2>1, <2>2, <2>3 DEF HeapInv, Readers
<1> QED
  BY <1>1, <1>2, <1>3, <1>4, <1>5 DEF Read

\* The entry that a locked cache_getImp finds is an entry of the current array.
LEMMA CachedEntry ==
  ASSUME ControlInv, HeapInv, NEW s, Cached(s)
  PROVE  /\ buckets # Empty
         /\ \E i \in 0 .. mask : /\ i \in DOMAIN heap[buckets]
                                /\ heap[buckets][i] \in Bucket
                                /\ heap[buckets][i].key = s
                                /\ CachedImp(s) = heap[buckets][i].imp
<1>1. buckets # Empty /\ Entries = {heap[buckets][i] : i \in 0 .. mask}
  BY DEF Cached, Entries
<1>2. (CHOOSE b \in Entries : b.key = s) \in Entries
      /\ (CHOOSE b \in Entries : b.key = s).key = s
  BY DEF Cached
<1>3. PICK i \in 0 .. mask : (CHOOSE b \in Entries : b.key = s) = heap[buckets][i]
  BY <1>1, <1>2
<1>4. i \in DOMAIN heap[buckets] /\ heap[buckets][i] \in Bucket
  BY <1>1, HeapTypes DEF HeapInv, HeapShape
<1> QED
  BY <1>1, <1>2, <1>3, <1>4 DEF CachedImp

\* While nobody holds cacheUpdateLock the array and the mask agree.
LEMMA UnlockedHeap ==
  ASSUME ControlInv, HeapInv, cacheUpdateLock = NoThread
  PROVE  /\ \A t \in Threads : pc[t] \notin UpdateHeld /\ old[t] = Empty
         /\ ~Replacing
         /\ buckets # Empty => CapacityOf(buckets) = mask + 1 /\ mask >= 3
         /\ buckets = Empty => occupied = 0
         /\ DOMAIN heap = ({buckets} \ {Empty}) \cup garbage
<1>1. \A t \in Threads : pc[t] \notin UpdateHeld
  BY MethodCacheAssumption DEF ControlInv, Locks
<1>2. ~Replacing /\ \A t \in Threads : old[t] = Empty
  BY <1>1 DEF Replacing, UpdateHeld, HeapInv, Arrays, OldArrays
<1>3. DOMAIN heap = ({buckets} \ {Empty}) \cup garbage
  BY <1>2 DEF HeapInv, Arrays, ArraysAccounted
<1>4. /\ buckets # Empty => CapacityOf(buckets) = mask + 1
      /\ buckets = Empty => occupied = 0
  BY <1>2 DEF HeapInv, MaskFits, Settled
<1>5. buckets # Empty => mask >= 3
  BY <1>4 DEF HeapInv, HeapShape
<1> QED
  BY <1>1, <1>2, <1>3, <1>4, <1>5

\* Installing a new array that is no smaller keeps every messenger inside its
\* array, whichever of the two stores it sees.
LEMMA ReallocateHeap ==
  ASSUME ControlInv, HeapInv, NEW t \in Threads, cacheUpdateLock = NoThread,
         NEW cap \in Nat, cap >= 4, cap >= mask + 1,
         reallocate(t, cap), pc[t] = "fill", UNCHANGED <<reader, why, left>>
  PROVE  HeapInv'
<1> DEFINE new == NewAddress
<1>0. new \in Nat \ {Empty} /\ new \notin DOMAIN heap
  BY NewAddressFresh DEF HeapInv, HeapShape
<1>1. /\ DOMAIN heap' = DOMAIN heap \cup {new}
      /\ heap' = [b \in DOMAIN heap' |-> heap'[b]]
      /\ heap'[new] = [i \in 0 .. cap - 1 |-> Zero]
      /\ Cardinality(DOMAIN heap'[new]) = cap
      /\ \A b \in DOMAIN heap : heap'[b] = heap[b]
  <2>1. allocateBuckets(new, cap)
    BY DEF reallocate
  <2> HIDE DEF new
  <2> QED
    BY <1>0, <2>1, AllocatedShape DEF allocateBuckets
<1>2. /\ buckets' = new /\ old' = [old EXCEPT ![t] = buckets]
      /\ pc' = [pc EXCEPT ![t] = "setMask"]
      /\ UNCHANGED <<mask, occupied, garbage, reader, why, left>>
  BY DEF reallocate
<1>3. why[t] = "lookup"
  BY DEF ControlInv, Busy
<1> HIDE DEF new
<1>4. HeapShape'
  <2>1. IsFiniteSet(DOMAIN heap')
    BY <1>1, FS_AddElement DEF HeapInv, HeapShape
  <2>2. DOMAIN heap' \subseteq Nat \ {Empty}
    BY <1>0, <1>1 DEF HeapInv, HeapShape
  <2>3. Zero \in Bucket
    BY DEF Zero, Bucket, Imps
  <2>4. \A a \in DOMAIN heap' : /\ CapacityOf(a)' \in Nat /\ CapacityOf(a)' >= 4
                                /\ heap'[a] \in [0 .. CapacityOf(a)' - 1 -> Bucket]
    <3> SUFFICES ASSUME NEW a \in DOMAIN heap'
                 PROVE  /\ CapacityOf(a)' \in Nat /\ CapacityOf(a)' >= 4
                        /\ heap'[a] \in [0 .. CapacityOf(a)' - 1 -> Bucket]
      OBVIOUS
    <3>1. CASE a = new
      BY <1>1, <2>3, <3>1 DEF CapacityOf
    <3>2. CASE a \in DOMAIN heap
      BY <1>1, <3>2 DEF CapacityOf, HeapInv, HeapShape
    <3> QED
      BY <1>1, <3>1, <3>2
  <2> QED
    BY <1>1, <1>2, <2>1, <2>2, <2>4 DEF HeapShape, HeapInv
<1>5. Locals' /\ ReadMasks'
  BY <1>2, HeapTypes DEF Locals, ReadMasks, HeapInv
<1>6. MaskBound'
  BY <1>1, <1>2, HeapTypes DEF MaskBound, CapacityOf
<1>7. Settled'
  BY <1>2, HeapTypes DEF Settled, Replacing
<1>8. Purpose'
  BY <1>0, <1>2, <1>3, HeapTypes, UnlockedHeap DEF Purpose, UpdateHeld
<1>9. Room'
  BY <1>2, HeapTypes, UnlockedHeap DEF Room, WillStore, UpdateHeld
<1>10. OldArrays'
  BY <1>2, HeapTypes, UnlockedHeap DEF OldArrays
<1>11. ArraysAccounted'
  <2>1. \A u \in Threads : old'[u] = IF u = t THEN buckets ELSE Empty
    BY <1>2, HeapTypes, UnlockedHeap
  <2>2. DOMAIN heap = ({buckets} \ {Empty}) \cup garbage /\ buckets \notin garbage
    BY UnlockedHeap DEF HeapInv, Arrays, ArraysAccounted
  <2>3. {old'[u] : u \in Threads} \ {Empty} = {buckets} \ {Empty}
    BY <2>1
  <2> QED
    BY <1>0, <1>1, <1>2, <2>1, <2>2, <2>3 DEF ArraysAccounted
<1>12. NoWildRead' /\ HitInside'
  <2>1. \A u \in Threads : pc'[u] \in {"scan", "imp"} => pc[u] = pc'[u]
    BY <1>2, HeapTypes
  <2>2. at' = at /\ NoWildRead /\ HitInside
    BY <1>2 DEF HeapInv, Readers
  <2>3. \A b \in DOMAIN heap : b \in DOMAIN heap' /\ CapacityOf(b)' = CapacityOf(b)
    BY <1>1 DEF CapacityOf
  <2> QED
    BY <2>1, <2>2, <2>3 DEF NoWildRead, HitInside
<1>13. ReadersSeen'
  BY <1>2, HeapTypes, UnlockedHeap DEF ReadersSeen, UpdateHeld
<1> QED
  BY <1>4, <1>5, <1>6, <1>7, <1>8, <1>9, <1>10, <1>11, <1>12, <1>13
     DEF HeapInv, MaskFits, Arrays, Readers

\* A step of thread t that moves no messenger keeps the messengers in their
\* arrays, as long as those arrays stay.
LEMMA ReadersStay ==
  ASSUME ControlInv, HeapInv, NEW t \in Threads, NEW p \in PCs,
         pc' = [pc EXCEPT ![t] = p], p \notin {"scan", "imp"}, at' = at,
         \A a \in DOMAIN heap :
           (\E u \in Threads \ {t} : pc[u] \in {"scan", "imp"} /\ at[u][1] = a)
             => a \in DOMAIN heap' /\ CapacityOf(a)' = CapacityOf(a)
  PROVE  NoWildRead' /\ HitInside'
<1>1. \A u \in Threads : pc'[u] \in {"scan", "imp"} => u # t /\ pc[u] = pc'[u]
  BY HeapTypes
<1>2. NoWildRead /\ HitInside
  BY DEF HeapInv, Readers
<1>3. NoWildRead'
  BY <1>1, <1>2 DEF NoWildRead
<1>4. HitInside'
  BY <1>1, <1>2 DEF HitInside
<1> QED
  BY <1>3, <1>4

\* A lookup under runtimeLock writes nothing to the cache.
LEMMA LookUpHeap ==
  ASSUME ControlInv, HeapInv, NEW t \in Threads, LookUp(t) \/ Found(t)
  PROVE  HeapInv'
<1>0. /\ ControlInv /\ HeapInv /\ UNCHANGED <<cache, old, m, at, left>>
      /\ pc[t] # "setMask"
      /\ \E p \in {"found", "fill", "done"} : pc' = [pc EXCEPT ![t] = p]
      /\ why' \in {why, [why EXCEPT ![t] = "lookup"]}
  BY DEF LookUp, Found
<1>1. HeapShape' /\ MaskFits' /\ Arrays'
  BY <1>0, QuietHeap, HeapTypes DEF PCs, WillStore
<1>2. got' \in [Threads -> Imps]
  <2>1. CASE Found(t)
    BY <2>1, HeapTypes DEF Found
  <2>2. CASE LookUp(t)
    <3>1. Cached(sel[t]) => CachedImp(sel[t]) \in Imps
      BY CachedEntry DEF Bucket
    <3>2. Imp(sel[t], methods[sel[t]]) \in Imps
      BY <2>2 DEF LookUp, ControlInv, Busy, Sending, Imp, Imps
    <3> QED
      BY <2>2, <3>1, <3>2, HeapTypes DEF LookUp
  <2> QED
    BY <2>1, <2>2
<1>3. Locals' /\ ReadMasks'
  BY <1>0, <1>2, HeapTypes DEF Locals, ReadMasks, HeapInv
<1>4. NoWildRead' /\ HitInside'
  BY <1>0, ReadersStay DEF PCs, CapacityOf
<1>5. ReadersSeen'
  BY <1>0, HeapTypes DEF ReadersSeen, HeapInv, Readers
<1> QED
  BY <1>1, <1>3, <1>4, <1>5 DEF HeapInv, Readers

\* cache_fill keeps the array, or installs one of at least the old capacity.
LEMMA cache_fillHeap ==
  ASSUME ControlInv, HeapInv, NEW t \in Threads, cache_fill(t)
  PROVE  HeapInv'
<1>0. pc[t] = "fill" /\ cacheUpdateLock = NoThread /\ UNCHANGED <<reader, why, left>>
  BY DEF cache_fill
<1>1. CASE \/ Cached(sel[t])
           \/ ~isConstantEmptyCache /\ HasRoom
  <2>1. /\ UNCHANGED <<cache, old>>
        /\ \/ pc' = [pc EXCEPT ![t] = "found"]
           \/ /\ pc' = [pc EXCEPT ![t] = "setImp"]
              /\ ~isConstantEmptyCache /\ HasRoom
    BY <1>1 DEF cache_fill
  <2>2. ~isConstantEmptyCache => buckets # Empty
    BY <1>0, UnlockedHeap DEF isConstantEmptyCache
  <2>3. HeapShape' /\ MaskFits' /\ Arrays'
    BY <1>0, <2>1, <2>2, QuietHeap, HeapTypes DEF PCs, UpdateHeld, WillStore
  <2>4. Locals' /\ ReadMasks'
    BY <1>0, <2>1, HeapTypes DEF Locals, ReadMasks, HeapInv
  <2>5. NoWildRead' /\ HitInside'
    BY <1>0, <2>1, ReadersStay DEF PCs, UpdateHeld, CapacityOf
  <2>6. ReadersSeen'
    BY <1>0, <2>1, HeapTypes DEF ReadersSeen, HeapInv, Readers
  <2> QED
    BY <2>3, <2>4, <2>5, <2>6 DEF HeapInv, Readers
<1>2. CASE ~Cached(sel[t]) /\ isConstantEmptyCache
  <2> DEFINE cap == IF capacity = 0 THEN INIT_CACHE_SIZE ELSE capacity
  <2>1. reallocate(t, cap)
    BY <1>2 DEF cache_fill
  <2>2. cap \in Nat /\ cap >= 4 /\ cap >= mask + 1
    BY MethodCacheAssumption DEF capacity, HeapInv, HeapShape
  <2> HIDE DEF cap
  <2> QED
    BY <1>0, <2>1, <2>2, ReallocateHeap DEF reallocate
<1>3. CASE ~Cached(sel[t]) /\ ~isConstantEmptyCache /\ ~HasRoom
  <2>1. reallocate(t, 2 * capacity)
    BY <1>3 DEF cache_fill
  <2>2. buckets # Empty
    BY <1>0, <1>3, UnlockedHeap DEF isConstantEmptyCache
  <2>3. 2 * capacity \in Nat /\ 2 * capacity >= 4 /\ 2 * capacity >= mask + 1
    BY <1>0, <2>2, UnlockedHeap, HeapTypes DEF capacity
  <2> DEFINE cap == 2 * capacity
  <2>4. reallocate(t, cap) /\ cap \in Nat /\ cap >= 4 /\ cap >= mask + 1
    BY <2>1, <2>3
  <2> HIDE DEF cap
  <2> QED
    BY <1>0, <2>4, ReallocateHeap DEF reallocate
<1> QED
  BY <1>1, <1>2, <1>3

\* The holder of cacheUpdateLock is alone in replacing, collecting and storing.
LEMMA HolderAlone ==
  ASSUME ControlInv, HeapInv, NEW t \in Threads, pc[t] \in UpdateHeld
  PROVE  /\ \A u \in Threads : u # t => pc[u] \notin UpdateHeld /\ old[u] = Empty
         /\ pc[t] # "setMask" => ~Replacing /\ old[t] = Empty
<1>1. \A u \in Threads : u # t => pc[u] \notin UpdateHeld
  BY DEF ControlInv, Locks
<1> QED
  BY <1>1 DEF UpdateHeld, Replacing, HeapInv, Arrays, OldArrays

\* Storing the mask makes it the one of the new array.
LEMMA SetMaskHeap ==
  ASSUME ControlInv, HeapInv, NEW t \in Threads, SetMask(t)
  PROVE  HeapInv'
<1>1. pc[t] = "setMask" /\ UNCHANGED <<heap, buckets, why>> /\ UNCHANGED reader
  BY DEF SetMask
<1>2. \A u \in Threads : u # t => pc[u] \notin UpdateHeld /\ old[u] = Empty
  BY <1>1, HolderAlone DEF UpdateHeld
<1>3. PICK p \in {"collect", "setImp", "flushed"} :
        /\ pc' = [pc EXCEPT ![t] = p]
        /\ p = "collect" => left' = [left EXCEPT ![t] = Threads \ {t}]
        /\ p = "setImp" => why[t] = "lookup"
  BY DEF SetMask, After
<1>4. /\ mask' = (IF buckets = Empty THEN mask ELSE CapacityOf(buckets) - 1)
      /\ occupied' = 0
      /\ garbage' = garbage \cup ({old[t]} \ {Empty})
      /\ old' = [old EXCEPT ![t] = Empty]
  BY DEF SetMask, Discarded
<1>5. mask' \in Nat /\ mask' >= mask /\ (mask' = 0 \/ mask' >= 3)
      /\ (buckets # Empty => mask' >= 3)
  BY <1>4, HeapTypes DEF HeapInv, HeapShape
<1>6. HeapShape'
  BY <1>1, <1>4, <1>5 DEF HeapInv, HeapShape, CapacityOf
<1>7. Locals' /\ ReadMasks'
  <2>1. Locals'
    BY <1>1, <1>4, HeapTypes DEF Locals, Empty
  <2>2. ReadMasks'
    <3>1. \A u \in Threads : pc'[u] = "buckets" => pc[u] = "buckets"
      BY <1>3, HeapTypes
    <3>2. ReadMasks /\ m' = m /\ \A u \in Threads : m[u] \in Nat
      BY <1>1, HeapTypes DEF HeapInv
    <3> QED
      BY <1>5, <3>1, <3>2, HeapTypes DEF ReadMasks
  <2> QED
    BY <2>1, <2>2
<1>8. MaskBound'
  BY <1>1, <1>4, HeapTypes DEF MaskBound, CapacityOf
<1>9. Settled'
  BY <1>1, <1>4, HeapTypes DEF Settled, CapacityOf
<1>10. Purpose'
  BY <1>1, <1>2, <1>3, HeapTypes DEF Purpose, UpdateHeld
<1>11. Room'
  <2>1. buckets # Empty => HasRoom'
    BY <1>4, <1>5 DEF HasRoom, capacity
  <2>2. \A u \in Threads : u # t => ~WillStore(u)'
    BY <1>1, <1>2, <1>3, HeapTypes DEF WillStore, UpdateHeld
  <2>3. WillStore(t)' => buckets # Empty
    BY <1>1, <1>3, HeapTypes DEF WillStore, HeapInv, MaskFits, Purpose
  <2> QED
    BY <1>1, <2>1, <2>2, <2>3 DEF Room
<1>12. Arrays'
  <2>1. \A u \in Threads : old'[u] = Empty
    BY <1>2, <1>4, HeapTypes
  <2>2. {old[u] : u \in Threads} \ {Empty} = {old[t]} \ {Empty}
    BY <1>2
  <2>3. {old'[u] : u \in Threads} \ {Empty} = {}
    BY <2>1
  <2> QED
    BY <1>1, <1>4, <2>1, <2>2, <2>3 DEF Arrays, OldArrays, ArraysAccounted, HeapInv
<1>13. NoWildRead' /\ HitInside'
  BY <1>1, <1>3, ReadersStay DEF PCs, UpdateHeld, CapacityOf
<1>14. ReadersSeen'
  BY <1>2, <1>3, HeapTypes DEF ReadersSeen, UpdateHeld, ControlInv
<1> QED
  BY <1>6, <1>7, <1>8, <1>9, <1>10, <1>11, <1>12, <1>13, <1>14
     DEF HeapInv, MaskFits, Arrays, Readers

\* Looking at another thread's pc: one that is seen outside the messenger has
\* no address of a bucket.
LEMMA CollectLookHeap ==
  ASSUME ControlInv, HeapInv, NEW t \in Threads, CollectLook(t)
  PROVE  HeapInv'
<1>1. pc[t] = "collect" /\ UNCHANGED <<cache, old, why>> /\ UNCHANGED reader
  BY DEF CollectLook
<1>2. PICK p \in {"collect", "setImp", "flushed"} :
        /\ pc' = [pc EXCEPT ![t] = p]
        /\ p = "setImp" => why[t] = "lookup"
        /\ p = "collect" =>
             \/ left' = [left EXCEPT ![t] = Threads \ {t}]
             \/ \E u \in left[t] : /\ pc[u] \notin {"scan", "imp"}
                                   /\ left' = [left EXCEPT ![t] = @ \ {u}]
  <2>1. PICK u \in left[t] :
          IF pc[u] \in InCritical
          THEN IF why[t] = "collectALot"
               THEN left' = [left EXCEPT ![t] = Threads \ {t}] /\ UNCHANGED pc
               ELSE left' = [left EXCEPT ![t] = {}] /\ Goto(t, After(t))
          ELSE left' = [left EXCEPT ![t] = @ \ {u}] /\ UNCHANGED pc
    BY DEF CollectLook
  <2>2. pc = [pc EXCEPT ![t] = "collect"]
    BY <1>1, HeapTypes
  <2> QED
    BY <2>1, <2>2 DEF After, InCritical
<1>3. WillStore(t)' => buckets # Empty /\ HasRoom
  BY <1>1, <1>2, HeapTypes DEF WillStore, HeapInv, MaskFits, Room
<1>4. HeapShape' /\ MaskFits' /\ Arrays'
  BY <1>1, <1>2, <1>3, QuietHeap DEF PCs, UpdateHeld
<1>5. Locals' /\ ReadMasks'
  BY <1>1, <1>2, HeapTypes DEF Locals, ReadMasks, HeapInv
<1>6. NoWildRead' /\ HitInside'
  BY <1>1, <1>2, ReadersStay DEF PCs, UpdateHeld, CapacityOf
<1>7. ReadersSeen'
  <2> SUFFICES ASSUME NEW u \in Threads, p = "collect",
                      pc'[u] \in {"scan", "imp"}, at[u][1] \in garbage
               PROVE  u \in left'[t]
    <3>1. \A v \in Threads : pc'[v] = "collect" => v = t /\ p = "collect"
      BY <1>1, <1>2, HolderAlone, HeapTypes DEF UpdateHeld
    <3> QED
      BY <1>1, <3>1 DEF ReadersSeen
  <2>1. u # t /\ pc[u] \in {"scan", "imp"}
    BY <1>2, HeapTypes
  <2>2. u \in left[t]
    BY <1>1, <2>1 DEF ReadersSeen, HeapInv, Readers
  <2>3. left \in [Threads -> SUBSET Threads]
    BY DEF ControlInv
  <2> QED
    BY <1>2, <2>1, <2>2, <2>3
<1> QED
  BY <1>4, <1>5, <1>6, <1>7 DEF HeapInv, Readers

\* A non-empty set of naturals has a least element.
LEMMA LeastNatural ==
  ASSUME NEW S \in SUBSET Nat, S # {}
  PROVE  Min(S) \in S /\ \A y \in S : Min(S) <= y
<1> DEFINE Below == {0 .. x : x \in S}
<1>1. Below \subseteq FiniteSubsetsOf(Nat) /\ Below # {}
  <2>1. \A x \in Nat : IsFiniteSet(0 .. x) /\ 0 .. x \in SUBSET Nat
    BY FS_Interval
  <2> QED
    BY <2>1 DEF FiniteSubsetsOf
<1>2. PICK B \in Below : \A C \in Below : ~(<<C, B>> \in StrictSubsetOrdering(Nat))
  BY <1>1, FS_StrictSubsetOrderingWellFounded, WFMin
<1>3. PICK x \in S : B = 0 .. x
  OBVIOUS
<1>4. ASSUME NEW y \in S, y < x PROVE FALSE
  <2>1. 0 .. y \subseteq 0 .. x /\ 0 .. y # 0 .. x
    <3>1. x \in 0 .. x /\ x \notin 0 .. y
      BY <1>4
    <3> QED
      BY <1>4, <3>1
  <2>2. <<0 .. y, 0 .. x>> \in StrictSubsetOrdering(Nat)
    BY <2>1 DEF StrictSubsetOrdering
  <2> QED
    BY <1>2, <1>3, <2>2
<1>5. \A y \in S : x <= y
  BY <1>4
<1> QED
  BY <1>5 DEF Min

\* Freeing the garbage takes no array from under a messenger: all were seen.
LEMMA CollectFreeHeap ==
  ASSUME ControlInv, HeapInv, NEW t \in Threads, CollectFree(t)
  PROVE  HeapInv'
<1>1. /\ pc[t] = "collect" /\ left[t] = {}
      /\ heap' = [a \in DOMAIN heap \ garbage |-> heap[a]] /\ garbage' = {}
      /\ UNCHANGED <<buckets, mask, occupied, why, old>> /\ UNCHANGED reader
  BY DEF CollectFree
<1>2. PICK p \in {"setImp", "flushed"} :
        pc' = [pc EXCEPT ![t] = p] /\ (p = "setImp" => why[t] = "lookup")
  BY DEF CollectFree, After
<1>3. /\ \A u \in Threads : old[u] = Empty
      /\ \A u \in Threads : u # t => pc[u] \notin UpdateHeld
      /\ ~Replacing
  BY <1>1, HolderAlone DEF UpdateHeld
<1>4. DOMAIN heap = ({buckets} \ {Empty}) \cup garbage /\ buckets \notin garbage
  <2>1. {old[u] : u \in Threads} \ {Empty} = {}
    BY <1>3
  <2> QED
    BY <2>1 DEF HeapInv, Arrays, ArraysAccounted
<1>5. /\ DOMAIN heap' = {buckets} \ {Empty}
      /\ \A a \in DOMAIN heap' : /\ a \in DOMAIN heap /\ heap'[a] = heap[a]
                                 /\ CapacityOf(a)' = CapacityOf(a)
  BY <1>1, <1>4 DEF CapacityOf
<1>6. HeapShape'
  <2>1. IsFiniteSet(DOMAIN heap')
    BY <1>4, <1>5, FS_Subset DEF HeapInv, HeapShape
  <2>2. \A a \in DOMAIN heap' : /\ CapacityOf(a)' \in Nat /\ CapacityOf(a)' >= 4
                                /\ heap'[a] \in [0 .. CapacityOf(a)' - 1 -> Bucket]
    BY <1>5 DEF HeapInv, HeapShape
  <2>3. heap' = [a \in DOMAIN heap' |-> heap'[a]]
    BY <1>1
  <2> QED
    BY <1>1, <1>5, <2>1, <2>2, <2>3 DEF HeapInv, HeapShape
<1>7. Locals' /\ ReadMasks'
  BY <1>1, <1>2, HeapTypes DEF Locals, ReadMasks, HeapInv
<1>8. MaskBound' /\ Settled'
  BY <1>1, <1>3, <1>5, HeapTypes DEF HeapInv, MaskFits, MaskBound, Settled
<1>9. Purpose'
  BY <1>1, <1>2, <1>3, HeapTypes DEF Purpose, UpdateHeld
<1>10. Room'
  <2>1. HasRoom' <=> HasRoom
    BY <1>1 DEF HasRoom, capacity
  <2>2. \A u \in Threads : u # t => ~WillStore(u)'
    BY <1>1, <1>2, <1>3, HeapTypes DEF WillStore, UpdateHeld
  <2>3. WillStore(t)' => WillStore(t)
    BY <1>1, <1>2, HeapTypes DEF WillStore
  <2> QED
    BY <1>1, <2>1, <2>2, <2>3 DEF Room, HeapInv, MaskFits
<1>11. Arrays'
  <2>1. {old'[u] : u \in Threads} \ {Empty} = {}
    BY <1>1, <1>3
  <2> QED
    BY <1>1, <1>3, <1>5, <2>1 DEF Arrays, OldArrays, ArraysAccounted
<1>12. NoWildRead' /\ HitInside'
  <2>1. \A u \in Threads : pc[u] \in {"scan", "imp"} => at[u][1] \notin garbage
    BY <1>1 DEF HeapInv, Readers, ReadersSeen
  <2>2. \A a \in DOMAIN heap : a \notin garbage =>
          a \in DOMAIN heap' /\ CapacityOf(a)' = CapacityOf(a)
    BY <1>4, <1>5
  <2>3. \A a \in DOMAIN heap :
           (\E u \in Threads \ {t} : pc[u] \in {"scan", "imp"} /\ at[u][1] = a)
             => a \in DOMAIN heap' /\ CapacityOf(a)' = CapacityOf(a)
    BY <2>1, <2>2
  <2> QED
    BY <1>1, <1>2, <2>3, ReadersStay DEF PCs, UpdateHeld
<1>13. ReadersSeen'
  BY <1>1 DEF ReadersSeen
<1> QED
  BY <1>6, <1>7, <1>8, <1>9, <1>10, <1>11, <1>12, <1>13
     DEF HeapInv, MaskFits, Arrays, Readers

\* Where cache_t::find stops lies in the array, and holds no selector yet.
LEMMA FreeBucket ==
  ASSUME ControlInv, HeapInv, buckets # Empty, NEW s \in Sels, FreeProbes(s) # {}
  PROVE  LET i == Probe(s, Min(FreeProbes(s)))
         IN  /\ i \in 0 .. mask /\ i \in 0 .. CapacityOf(buckets) - 1
             /\ heap[buckets][i].key = NoSel
<1> DEFINE k == Min(FreeProbes(s))
<1>1. k \in FreeProbes(s)
  <2>1. FreeProbes(s) \in SUBSET Nat
    BY HeapTypes DEF FreeProbes
  <2> QED
    BY <2>1, LeastNatural
<1> HIDE DEF k
<1>2. k \in Nat /\ heap[buckets][Probe(s, k)].key = NoSel
  BY <1>1, HeapTypes DEF FreeProbes
<1>3. Probe(s, k) \in Nat /\ Probe(s, k) <= mask
  <2> DEFINE h == hash[s] + k
  <2>1. h \in Nat /\ mask \in Nat /\ Probe(s, k) = h % (mask + 1)
    BY <1>2, MethodCacheAssumption, HeapTypes DEF Probe
  <2> HIDE DEF h
  <2>2. h % (mask + 1) \in Nat /\ h % (mask + 1) <= mask
    BY <2>1, HashInRange
  <2> QED
    BY <2>1, <2>2
<1> QED
  BY <1>2, <1>3, HeapTypes DEF k

\* bucket_t::set writes one word of one bucket.
LEMMA StoreEffect ==
  ASSUME HeapShape, buckets # Empty, NEW i \in 0 .. CapacityOf(buckets) - 1, NEW v,
         \/ heap' = [heap EXCEPT ![buckets][i].imp = v] /\ v \in Imps
         \/ heap' = [heap EXCEPT ![buckets][i].key = v] /\ v \in Sels
  PROVE  /\ DOMAIN heap' = DOMAIN heap /\ heap' = [a \in DOMAIN heap |-> heap'[a]]
         /\ \A a \in DOMAIN heap : CapacityOf(a)' = CapacityOf(a)
         /\ \A a \in DOMAIN heap : DOMAIN heap'[a] = DOMAIN heap[a]
         /\ \A a \in DOMAIN heap : a # buckets => heap'[a] = heap[a]
         /\ \A j \in DOMAIN heap[buckets] : j # i => heap'[buckets][j] = heap[buckets][j]
         /\ heap'[buckets] \in [0 .. CapacityOf(buckets) - 1 -> Bucket]
<1>1. /\ buckets \in DOMAIN heap /\ heap = [a \in DOMAIN heap |-> heap[a]]
      /\ heap[buckets] \in [0 .. CapacityOf(buckets) - 1 -> Bucket]
  BY DEF HeapShape
<1>2. PICK b \in Bucket : heap' = [heap EXCEPT ![buckets] = [@ EXCEPT ![i] = b]]
  <2>1. heap[buckets][i] \in Bucket
    BY <1>1
  <2>2. CASE heap' = [heap EXCEPT ![buckets][i].imp = v] /\ v \in Imps
    <3>1. [heap[buckets][i] EXCEPT !.imp = v] \in Bucket
      BY <2>1, <2>2 DEF Bucket
    <3> QED
      BY <2>2, <3>1
  <2>3. CASE heap' = [heap EXCEPT ![buckets][i].key = v] /\ v \in Sels
    <3>1. [heap[buckets][i] EXCEPT !.key = v] \in Bucket
      BY <2>1, <2>3 DEF Bucket
    <3> QED
      BY <2>3, <3>1
  <2> QED
    BY <2>2, <2>3
<1>3. heap'[buckets] = [heap[buckets] EXCEPT ![i] = b] /\ DOMAIN heap' = DOMAIN heap
      /\ heap' = [a \in DOMAIN heap |-> heap'[a]]
      /\ \A a \in DOMAIN heap : a # buckets => heap'[a] = heap[a]
  BY <1>1, <1>2
<1>4. /\ DOMAIN heap'[buckets] = DOMAIN heap[buckets]
      /\ \A j \in DOMAIN heap[buckets] : j # i => heap'[buckets][j] = heap[buckets][j]
      /\ heap'[buckets] \in [0 .. CapacityOf(buckets) - 1 -> Bucket]
  BY <1>1, <1>3
<1>5. \A a \in DOMAIN heap : DOMAIN heap'[a] = DOMAIN heap[a]
  BY <1>3, <1>4
<1>6. \A a \in DOMAIN heap : CapacityOf(a)' = CapacityOf(a)
  BY <1>5 DEF CapacityOf
<1> QED
  BY <1>3, <1>4, <1>5, <1>6

\* A store into a bucket changes the shape of nothing.
LEMMA StoreHeap ==
  ASSUME ControlInv, HeapInv, NEW t \in Threads, pc[t] \in {"setImp", "setKey"},
         NEW i \in 0 .. CapacityOf(buckets) - 1, NEW v,
         \/ heap' = [heap EXCEPT ![buckets][i].imp = v] /\ v \in Imps
         \/ heap' = [heap EXCEPT ![buckets][i].key = v] /\ v \in Sels,
         UNCHANGED <<buckets, mask, garbage, old, why, left>>, UNCHANGED reader,
         NEW p \in {"setKey", "found"}, pc' = [pc EXCEPT ![t] = p],
         occupied' \in {occupied, occupied + 1},
         p = "setKey" => occupied' = occupied
  PROVE  HeapInv'
<1>1. buckets # Empty /\ HasRoom /\ ~Replacing
  BY HolderAlone DEF HeapInv, MaskFits, Room, WillStore, UpdateHeld
<1>2. /\ DOMAIN heap' = DOMAIN heap /\ heap' = [a \in DOMAIN heap |-> heap'[a]]
      /\ \A a \in DOMAIN heap : CapacityOf(a)' = CapacityOf(a)
      /\ \A a \in DOMAIN heap : a # buckets => heap'[a] = heap[a]
      /\ heap'[buckets] \in [0 .. CapacityOf(buckets) - 1 -> Bucket]
  BY <1>1, StoreEffect DEF HeapInv
<1>3. \A u \in Threads : u # t => pc[u] \notin UpdateHeld
  BY HolderAlone DEF UpdateHeld
<1>4. HeapShape'
  <2>1. \A a \in DOMAIN heap' : /\ CapacityOf(a)' \in Nat /\ CapacityOf(a)' >= 4
                                /\ heap'[a] \in [0 .. CapacityOf(a)' - 1 -> Bucket]
    BY <1>2 DEF HeapInv, HeapShape
  <2>2. occupied' \in Nat
    BY HeapTypes
  <2> QED
    BY <1>2, <2>1, <2>2 DEF HeapInv, HeapShape
<1>5. Locals' /\ ReadMasks'
  BY HeapTypes DEF Locals, ReadMasks, HeapInv
<1>6. MaskBound' /\ Settled'
  <2>1. CapacityOf(buckets)' = CapacityOf(buckets)
    BY <1>1, <1>2, HeapTypes
  <2>2. CapacityOf(buckets) = mask + 1 /\ mask < CapacityOf(buckets)
    BY <1>1, HeapTypes DEF HeapInv, MaskFits, Settled
  <2> QED
    BY <1>1, <2>1, <2>2 DEF MaskBound, Settled
<1>7. Purpose'
  BY <1>3, HeapTypes DEF Purpose, UpdateHeld
<1>8. Room'
  <2>1. \A u \in Threads : u # t => ~WillStore(u)'
    BY <1>3, HeapTypes DEF WillStore, UpdateHeld
  <2>2. WillStore(t)' => occupied' = occupied
    BY HeapTypes DEF WillStore
  <2>3. WillStore(t)' => HasRoom'
    BY <1>1, <2>2 DEF HasRoom, capacity
  <2> QED
    BY <1>1, <2>1, <2>3 DEF Room
<1>9. Arrays'
  <2>1. OldArrays'
    BY <1>3, HolderAlone, HeapTypes DEF OldArrays, UpdateHeld
  <2>2. ArraysAccounted'
    BY <1>2 DEF HeapInv, Arrays, ArraysAccounted
  <2> QED
    BY <2>1, <2>2 DEF Arrays
<1>10. NoWildRead' /\ HitInside'
  BY <1>2, ReadersStay DEF PCs, UpdateHeld
<1>11. ReadersSeen'
  BY <1>3, HeapTypes DEF ReadersSeen, UpdateHeld
<1> QED
  BY <1>4, <1>5, <1>6, <1>7, <1>8, <1>9, <1>10, <1>11 DEF HeapInv, MaskFits, Readers

\* The first of the two stores of bucket_t::set.
LEMMA SetImpHeap ==
  ASSUME ControlInv, HeapInv, NEW t \in Threads, SetImp(t)
  PROVE  HeapInv'
<1>1. pc[t] = "setImp" /\ UNCHANGED <<buckets, mask, occupied, garbage, old, why, left>>
      /\ UNCHANGED reader
  BY DEF SetImp
<1>2. sel[t] \in Sels /\ buckets # Empty
  BY <1>1 DEF ControlInv, Busy, HeapInv, MaskFits, Room, WillStore
<1>3. CASE FreeProbes(sel[t]) = {}
  <2>1. pc' = [pc EXCEPT ![t] = "bad_cache"] /\ heap' = heap
    BY <1>3 DEF SetImp
  <2>2. HeapShape' /\ MaskFits' /\ Arrays'
    BY <1>1, <2>1, QuietHeap, HeapTypes DEF PCs, UpdateHeld, WillStore
  <2>3. Locals' /\ ReadMasks'
    BY <1>1, <2>1, HeapTypes DEF Locals, ReadMasks, HeapInv
  <2>4. NoWildRead' /\ HitInside'
    BY <1>1, <2>1, ReadersStay DEF PCs, UpdateHeld, CapacityOf
  <2>5. ReadersSeen'
    BY <1>1, <2>1, HeapTypes DEF ReadersSeen, HeapInv, Readers
  <2> QED
    BY <2>2, <2>3, <2>4, <2>5 DEF HeapInv, Readers
<1>4. CASE FreeProbes(sel[t]) # {}
  <2> DEFINE i == Probe(sel[t], Min(FreeProbes(sel[t])))
  <2>1. i \in 0 .. CapacityOf(buckets) - 1
    BY <1>2, <1>4, FreeBucket
  <2>2. heap' = [heap EXCEPT ![buckets][i].imp = got[t]]
        /\ pc' = [pc EXCEPT ![t] = "setKey"]
    BY <1>4 DEF SetImp
  <2>3. got[t] \in Imps
    BY HeapTypes
  <2> HIDE DEF i
  <2> QED
    BY <1>1, <2>1, <2>2, <2>3, StoreHeap
<1> QED
  BY <1>3, <1>4

\* The second one, which makes the entry visible.
LEMMA SetKeyHeap ==
  ASSUME ControlInv, HeapInv, Target, NEW t \in Threads, SetKey(t)
  PROVE  HeapInv'
<1>1. pc[t] = "setKey" /\ UNCHANGED <<buckets, mask, garbage, old, why, left>>
      /\ UNCHANGED reader /\ occupied' = occupied + 1
      /\ pc' = [pc EXCEPT ![t] = "found"]
  BY DEF SetKey
<1>2. sel[t] \in Sels /\ buckets # Empty /\ FreeProbes(sel[t]) # {}
  BY <1>1 DEF ControlInv, Busy, HeapInv, MaskFits, Room, WillStore, Target
<1> DEFINE i == Probe(sel[t], Min(FreeProbes(sel[t])))
<1>3. i \in 0 .. CapacityOf(buckets) - 1
  BY <1>2, FreeBucket
<1>4. heap' = [heap EXCEPT ![buckets][i].key = sel[t]]
  BY DEF SetKey
<1> HIDE DEF i
<1> QED
  BY <1>1, <1>2, <1>3, <1>4, StoreHeap

\* Erasing installs the constant empty array, which any mask fits.
LEMMA EraseHeap ==
  ASSUME ControlInv, HeapInv, NEW t \in Threads, cache_erase_nolock(t)
  PROVE  HeapInv'
<1>1. /\ pc[t] = "flush" /\ cacheUpdateLock = NoThread
      /\ UNCHANGED <<heap, mask, occupied, garbage, why, left>> /\ UNCHANGED reader
  BY DEF cache_erase_nolock
<1>2. CASE ~NeedsErase
  <2>1. pc' = [pc EXCEPT ![t] = "flushed"] /\ UNCHANGED <<cache, old>>
    BY <1>1, <1>2 DEF cache_erase_nolock
  <2>2. HeapShape' /\ MaskFits' /\ Arrays'
    BY <1>1, <2>1, QuietHeap, HeapTypes DEF PCs, UpdateHeld, WillStore
  <2>3. Locals' /\ ReadMasks'
    BY <1>1, <2>1, HeapTypes DEF Locals, ReadMasks, HeapInv
  <2>4. NoWildRead' /\ HitInside'
    BY <1>1, <2>1, ReadersStay DEF PCs, UpdateHeld, CapacityOf
  <2>5. ReadersSeen'
    BY <1>1, <2>1, HeapTypes DEF ReadersSeen, HeapInv, Readers
  <2> QED
    BY <2>2, <2>3, <2>4, <2>5 DEF HeapInv, Readers
<1>3. CASE NeedsErase
  <2>1. /\ buckets' = Empty /\ old' = [old EXCEPT ![t] = buckets]
        /\ pc' = [pc EXCEPT ![t] = "setMask"]
    BY <1>3 DEF cache_erase_nolock
  <2>2. why[t] # "lookup"
    BY <1>1 DEF ControlInv, Busy
  <2>3. \A u \in Threads : pc[u] \notin UpdateHeld /\ old[u] = Empty
    BY <1>1, UnlockedHeap
  <2>4. HeapShape'
    BY <1>1, <2>1 DEF HeapInv, HeapShape, CapacityOf
  <2>5. Locals' /\ ReadMasks'
    BY <1>1, <2>1, HeapTypes DEF Locals, ReadMasks, HeapInv
  <2>6. MaskBound' /\ Settled'
    BY <2>1, HeapTypes DEF MaskBound, Settled, Replacing
  <2>7. Purpose'
    BY <1>1, <2>1, <2>2, <2>3, HeapTypes DEF Purpose, UpdateHeld
  <2>8. Room'
    BY <1>1, <2>1, <2>3, HeapTypes DEF Room, WillStore, UpdateHeld
  <2>9. Arrays'
    <3>1. \A u \in Threads : old'[u] = IF u = t THEN buckets ELSE Empty
      BY <2>1, <2>3, HeapTypes
    <3>2. {old'[u] : u \in Threads} \ {Empty} = {buckets} \ {Empty}
      BY <3>1
    <3>3. DOMAIN heap = ({buckets} \ {Empty}) \cup garbage /\ buckets \notin garbage
      BY <1>1, UnlockedHeap DEF HeapInv, Arrays, ArraysAccounted
    <3>4. OldArrays'
      BY <2>1, <3>1, HeapTypes DEF OldArrays
    <3>5. Empty \notin garbage
      BY <3>3 DEF HeapInv, HeapShape
    <3>6. ArraysAccounted'
      BY <1>1, <2>1, <3>1, <3>2, <3>3, <3>5 DEF ArraysAccounted
    <3> QED
      BY <3>4, <3>6 DEF Arrays
  <2>10. NoWildRead' /\ HitInside'
    BY <1>1, <2>1, ReadersStay DEF PCs, UpdateHeld, CapacityOf
  <2>11. ReadersSeen'
    BY <2>1, <2>3, HeapTypes DEF ReadersSeen, UpdateHeld
  <2> QED
    BY <2>4, <2>5, <2>6, <2>7, <2>8, <2>9, <2>10, <2>11 DEF HeapInv, MaskFits, Readers
<1> QED
  BY <1>2, <1>3

\* The steps of an edit or a flush that leave the arrays alone.
LEMMA FlushHeap ==
  ASSUME ControlInv, HeapInv, NEW t \in Threads, Flushed(t) \/ CollectALot(t)
  PROVE  HeapInv'
<1>1. /\ pc[t] \in {"flushed", "collectAll"} /\ UNCHANGED <<cache, old>> /\ UNCHANGED reader
      /\ \E p \in {"collectAll", "idle", "collect"} :
           /\ pc' = [pc EXCEPT ![t] = p]
           /\ p = "collect" => /\ left' = [left EXCEPT ![t] = Threads \ {t}]
                               /\ cacheUpdateLock = NoThread
                               /\ why' = [why EXCEPT ![t] = "collectALot"]
           /\ p # "collect" => left' = left
      /\ \E w : why' = [why EXCEPT ![t] = w]
  <2>1. CASE Flushed(t)
    <3>1. why = [why EXCEPT ![t] = why[t]]
      BY HeapTypes
    <3> QED
      BY <2>1, <3>1 DEF Flushed
  <2>2. CASE CollectALot(t)
    BY <2>2 DEF CollectALot
  <2> QED
    BY <2>1, <2>2
<1>2. HeapShape' /\ MaskFits' /\ Arrays'
  <2>1. ~WillStore(t)'
    BY <1>1, HeapTypes DEF WillStore
  <2>2. \A u \in Threads : u # t => why'[u] = why[u]
    BY <1>1, HeapTypes
  <2> QED
    BY <1>1, <2>1, <2>2, QuietHeap, HeapTypes, ZenonT(60) DEF PCs, UpdateHeld
<1>3. Locals' /\ ReadMasks'
  BY <1>1, HeapTypes DEF Locals, ReadMasks, HeapInv
<1>4. NoWildRead' /\ HitInside'
  BY <1>1, ReadersStay DEF PCs, UpdateHeld, CapacityOf
<1>5. ReadersSeen'
  <2>1. CASE pc' = [pc EXCEPT ![t] = "collect"] /\ left' = [left EXCEPT ![t] = Threads \ {t}]
             /\ cacheUpdateLock = NoThread
    <3>1. \A u \in Threads : pc'[u] = "collect" => u = t
      BY <2>1, UnlockedHeap, HeapTypes DEF UpdateHeld
    <3>2. \A u \in Threads : pc'[u] \in {"scan", "imp"} => u # t
      BY <2>1, HeapTypes
    <3>3. left'[t] = Threads \ {t}
      BY <2>1 DEF ControlInv
    <3> QED
      BY <3>1, <3>2, <3>3 DEF ReadersSeen
  <2>2. CASE left' = left /\ \E p \in {"collectAll", "idle"} : pc' = [pc EXCEPT ![t] = p]
    BY <1>1, <2>2, HeapTypes DEF ReadersSeen, HeapInv, Readers
  <2> QED
    BY <1>1, <2>1, <2>2
<1> QED
  BY <1>2, <1>3, <1>4, <1>5 DEF HeapInv, Readers

\* The calls that begin an operation.
LEMMA BeginHeap ==
  ASSUME ControlInv, HeapInv, NEW t \in Threads,
         \/ \E s \in Sels : objc_msgSend(t, s) \/ method_setImplementation(t, s)
         \/ objc_flush_caches(t)
  PROVE  HeapInv'
<1>1. /\ pc[t] = "idle" /\ UNCHANGED <<cache, old, left, m, at, got>>
      /\ \E p \in {"mask", "flush"} : pc' = [pc EXCEPT ![t] = p]
      /\ \E w : why' = [why EXCEPT ![t] = w]
  BY DEF objc_msgSend, method_setImplementation, objc_flush_caches
<1>2. HeapShape' /\ MaskFits' /\ Arrays'
  BY <1>1, QuietHeap, HeapTypes DEF PCs, WillStore
<1>3. Locals' /\ ReadMasks'
  BY <1>1, HeapTypes DEF Locals, ReadMasks, HeapInv
<1>4. NoWildRead' /\ HitInside'
  BY <1>1, ReadersStay DEF PCs, CapacityOf
<1>5. ReadersSeen'
  BY <1>1, HeapTypes DEF ReadersSeen, HeapInv, Readers
<1> QED
  BY <1>2, <1>3, <1>4, <1>5 DEF HeapInv, Readers

\* A step of any operation by thread t.
Move(t) == \/ \E s \in Sels : objc_msgSend(t, s) \/ method_setImplementation(t, s)
           \/ objc_flush_caches(t)
           \/ Step(t)

\* Nobody touches the cache, or what the holder remembers, while another thread
\* holds cacheUpdateLock.
LEMMA Bystander ==
  ASSUME ControlInv, HeapInv, NEW t \in Threads, NEW u \in Threads, u # t,
         pc[u] \in UpdateHeld, Move(t)
  PROVE  UNCHANGED cache /\ pc'[u] = pc[u] /\ sel'[u] = sel[u] /\ got'[u] = got[u]
         /\ why'[u] = why[u]
<1>1. cacheUpdateLock # NoThread /\ pc[t] \notin UpdateHeld
  BY MethodCacheAssumption DEF ControlInv, Locks
<1> USE HeapTypes DEF ControlInv
<1>2. CASE \/ \E s \in Sels : objc_msgSend(t, s) \/ method_setImplementation(t, s)
           \/ objc_flush_caches(t)
  BY <1>2 DEF objc_msgSend, method_setImplementation, objc_flush_caches
<1>3. CASE Read(t)
  <2>1. CASE Scan(t)
    BY <2>1 DEF Scan, Miss
  <2> QED
    BY <1>3, <2>1 DEF Read, ReadMask, ReadBuckets, CacheHit, Dispatched
<1>4. CASE Fill(t)
  BY <1>1, <1>4, SMTT(30) DEF Fill, LookUp, Found, cache_fill, SetMask, CollectLook, CollectFree,
                    SetImp, SetKey, UpdateHeld
<1>5. CASE Flush(t)
  BY <1>1, <1>5 DEF Flush, cache_erase_nolock, Flushed, CollectALot, UpdateHeld
<1> QED
  BY <1>2, <1>3, <1>4, <1>5 DEF Move, Step

\* Probing stays inside the current array.
LEMMA ProbeInside ==
  ASSUME ControlInv, HeapInv, NEW s \in Sels, NEW k \in Nat
  PROVE  Probe(s, k) \in 0 .. mask
<1> DEFINE h == hash[s] + k
<1>1. h \in Nat /\ mask \in Nat /\ Probe(s, k) = h % (mask + 1)
  BY MethodCacheAssumption, HeapTypes DEF Probe
<1> HIDE DEF h
<1>2. h % (mask + 1) \in Nat /\ h % (mask + 1) <= mask
  BY <1>1, HashInRange
<1> QED
  BY <1>1, <1>2

\* The first store of bucket_t::set leaves all keys as they are, so the second
\* one finds the same bucket.
LEMMA SetImpEffect ==
  ASSUME ControlInv, HeapInv, NEW t \in Threads, SetImp(t), FreeProbes(sel[t]) # {}
  PROVE  LET i == Probe(sel[t], Min(FreeProbes(sel[t])))
         IN  /\ buckets # Empty /\ UNCHANGED <<buckets, mask, occupied, sel, got>>
             /\ pc' = [pc EXCEPT ![t] = "setKey"]
             /\ \A a \in DOMAIN heap : a # buckets => heap'[a] = heap[a]
             /\ \A a \in DOMAIN heap : DOMAIN heap'[a] = DOMAIN heap[a]
             /\ i \in 0 .. mask /\ i \in DOMAIN heap[buckets]
             /\ heap[buckets][i].key = NoSel
             /\ heap'[buckets][i].imp = got[t]
             /\ \A j \in DOMAIN heap[buckets] :
                  /\ heap'[buckets][j].key = heap[buckets][j].key
                  /\ j # i => heap'[buckets][j] = heap[buckets][j]
             /\ \A s \in Sels : FreeProbes(s)' = FreeProbes(s)
             /\ \A s \in Sels : Probe(s, Min(FreeProbes(s)))' = Probe(s, Min(FreeProbes(s)))
<1> DEFINE i == Probe(sel[t], Min(FreeProbes(sel[t])))
<1>1. pc[t] = "setImp" /\ UNCHANGED <<buckets, mask, occupied, sel, got>>
      /\ pc' = [pc EXCEPT ![t] = "setKey"]
      /\ heap' = [heap EXCEPT ![buckets][i].imp = got[t]]
  BY DEF SetImp
<1>2. sel[t] \in Sels /\ buckets # Empty
  BY <1>1 DEF ControlInv, Busy, HeapInv, MaskFits, Room, WillStore
<1>3. i \in 0 .. mask /\ i \in 0 .. CapacityOf(buckets) - 1 /\ heap[buckets][i].key = NoSel
  BY <1>2, FreeBucket
<1> HIDE DEF i
<1>4. /\ \A a \in DOMAIN heap : a # buckets => heap'[a] = heap[a]
      /\ \A a \in DOMAIN heap : DOMAIN heap'[a] = DOMAIN heap[a]
      /\ \A j \in DOMAIN heap[buckets] : j # i => heap'[buckets][j] = heap[buckets][j]
  BY <1>1, <1>2, <1>3, StoreEffect, HeapTypes DEF HeapInv
<1>5. /\ buckets \in DOMAIN heap /\ i \in DOMAIN heap[buckets]
      /\ heap[buckets][i] \in Bucket /\ 0 .. mask \subseteq DOMAIN heap[buckets]
  BY <1>2, <1>3, HeapTypes DEF HeapInv, HeapShape
<1>6. heap'[buckets][i] = [heap[buckets][i] EXCEPT !.imp = got[t]]
  BY <1>1, <1>5
<1>7. heap'[buckets][i].imp = got[t] /\ heap'[buckets][i].key = heap[buckets][i].key
  BY <1>5, <1>6 DEF Bucket
<1>8. \A j \in DOMAIN heap[buckets] : heap'[buckets][j].key = heap[buckets][j].key
  BY <1>4, <1>7
<1>9. ASSUME NEW s \in Sels
      PROVE  /\ FreeProbes(s)' = FreeProbes(s)
             /\ Probe(s, Min(FreeProbes(s)))' = Probe(s, Min(FreeProbes(s)))
  <2>1. \A k \in 0 .. mask : Probe(s, k) \in DOMAIN heap[buckets] /\ Probe(s, k)' = Probe(s, k)
    <3>1. \A k \in 0 .. mask : Probe(s, k) \in 0 .. mask
      BY ProbeInside, HeapTypes
    <3> QED
      BY <1>1, <1>5, <3>1 DEF Probe
  <2>2. FreeProbes(s)' = FreeProbes(s)
    BY <1>1, <1>8, <2>1 DEF FreeProbes
  <2> QED
    BY <1>1, <2>2 DEF Probe
<1> QED
  BY <1>1, <1>2, <1>3, <1>4, <1>5, <1>7, <1>8, <1>9 DEF i

\* A step of one thread moves no other.
LEMMA OthersStay ==
  ASSUME ControlInv, HeapInv, NEW t \in Threads, Move(t), NEW u \in Threads, u # t
  PROVE  /\ pc'[u] = pc[u] /\ why'[u] = why[u] /\ sel'[u] = sel[u]
         /\ got'[u] = got[u] /\ at'[u] = at[u] /\ valid[u] \subseteq valid'[u]
<1> USE HeapTypes DEF ControlInv
<1>1. CASE \/ \E s \in Sels : objc_msgSend(t, s) \/ method_setImplementation(t, s)
           \/ objc_flush_caches(t)
  <2>1. CASE objc_flush_caches(t)
    BY <2>1 DEF objc_flush_caches
  <2>2. ASSUME NEW s \in Sels, objc_msgSend(t, s)
        PROVE  /\ pc'[u] = pc[u] /\ why'[u] = why[u] /\ sel'[u] = sel[u]
               /\ got'[u] = got[u] /\ at'[u] = at[u] /\ valid[u] \subseteq valid'[u]
    BY <2>2 DEF objc_msgSend
  <2>3. ASSUME NEW s \in Sels, method_setImplementation(t, s)
        PROVE  /\ pc'[u] = pc[u] /\ why'[u] = why[u] /\ sel'[u] = sel[u]
               /\ got'[u] = got[u] /\ at'[u] = at[u] /\ valid[u] \subseteq valid'[u]
    <3>1. valid'[u] = IF sel[u] = s THEN valid[u] \cup {Imp(s, edits + 1)} ELSE valid[u]
      BY <2>3 DEF method_setImplementation
    <3> QED
      BY <2>3, <3>1 DEF method_setImplementation
  <2> QED
    BY <1>1, <2>1, <2>2, <2>3
<1>2. CASE Read(t)
  BY <1>2, SMTT(30) DEF Read, ReadMask, ReadBuckets, Scan, Miss, CacheHit, Dispatched
<1>3. CASE Fill(t)
  BY <1>3 DEF Fill, LookUp, Found, cache_fill, reallocate, SetMask, CollectLook,
              CollectFree, SetImp, SetKey
<1>4. CASE Flush(t)
  BY <1>4 DEF Flush, cache_erase_nolock, Flushed, CollectALot
<1> QED
  BY <1>1, <1>2, <1>3, <1>4 DEF Move, Step

\* Whoever is about to store a key keeps its bucket.
LEMMA TargetStep ==
  ASSUME ControlInv, HeapInv, Target, NEW t \in Threads, Move(t), ControlInv'
  PROVE  Target'
<1> SUFFICES ASSUME NEW u \in Threads, pc'[u] = "setKey"
             PROVE  FreeProbes(sel[u])' # {}
  BY DEF Target
<1>1. CASE u # t /\ pc[u] = "setKey"
  BY <1>1, Bystander DEF UpdateHeld, Target, FreeProbes, Probe
<1>2. CASE u # t /\ pc[u] # "setKey"
  <2>1. pc'[u] = pc[u]
    BY <1>2, OthersStay
  <2> QED
    BY <1>2, <2>1
<1>3. CASE u = t
  <2>1. SetImp(t)
    <3> USE <1>3, HeapTypes
    <3>1. CASE \/ \E s \in Sels : objc_msgSend(t, s) \/ method_setImplementation(t, s)
               \/ objc_flush_caches(t)
      BY <3>1 DEF objc_msgSend, method_setImplementation, objc_flush_caches
    <3>2. CASE Read(t)
      BY <3>2 DEF Read, ReadMask, ReadBuckets, Scan, Miss, CacheHit, Dispatched
    <3>3. CASE Fill(t)
      BY <3>3 DEF Fill, LookUp, Found, cache_fill, reallocate, SetMask, CollectLook,
                  CollectFree, SetKey, After
    <3>4. CASE Flush(t)
      BY <3>4 DEF Flush, cache_erase_nolock, Flushed, CollectALot
    <3> QED
      BY <3>1, <3>2, <3>3, <3>4 DEF Move, Step
  <2>2. FreeProbes(sel[t]) # {}
    BY <1>3, <2>1, HeapTypes DEF SetImp
  <2>3. sel[t] \in Sels /\ sel' = sel
    BY <2>1 DEF SetImp, ControlInv, Busy
  <2> QED
    BY <1>3, <2>1, <2>2, <2>3, SetImpEffect
<1> QED
  BY <1>1, <1>2, <1>3

\* The arrays and the messengers, in every reachable state.
LEMMA HeapCorrect == Spec => [](ControlInv /\ HeapInv /\ Target)
<1>1. Init => HeapInv /\ Target
  BY InitHeap DEF Init, Target
<1>2. ControlInv /\ HeapInv /\ Target /\ [Next]_vars /\ ControlInv' => HeapInv' /\ Target'
  <2> SUFFICES ASSUME ControlInv, HeapInv, Target, [Next]_vars, ControlInv'
               PROVE  HeapInv' /\ Target'
    OBVIOUS
  <2>1. CASE UNCHANGED vars
    <3>1. HeapShape' /\ Locals' /\ ReadMasks'
      BY <2>1 DEF vars, HeapInv, HeapShape, Locals, ReadMasks, CapacityOf
    <3>2. MaskBound' /\ Settled' /\ Purpose' /\ Room'
      BY <2>1 DEF vars, HeapInv, MaskFits, MaskBound, Settled, Purpose, Room, Replacing,
                  WillStore, HasRoom, capacity, CapacityOf
    <3>3. Arrays' /\ Readers'
      BY <2>1 DEF vars, HeapInv, Arrays, OldArrays, ArraysAccounted, Readers, NoWildRead,
                  HitInside, ReadersSeen, CapacityOf
    <3>4. Target'
      BY <2>1 DEF vars, Target, FreeProbes, Probe
    <3> QED
      BY <3>1, <3>2, <3>3, <3>4 DEF HeapInv, MaskFits
  <2>2. ASSUME NEW t \in Threads, Move(t) PROVE HeapInv' /\ Target'
    <3>1. HeapInv'
      BY <2>2, BeginHeap, ReadHeap, LookUpHeap, cache_fillHeap, SetMaskHeap,
         CollectLookHeap, CollectFreeHeap, SetImpHeap, SetKeyHeap, EraseHeap, FlushHeap
         DEF Move, Step, Fill, Flush
    <3>2. Target'
      BY <2>2, TargetStep
    <3> QED
      BY <3>1, <3>2
  <2>3. Next => \E t \in Threads : Move(t)
    BY DEF Next, Move
  <2> QED
    BY <2>1, <2>2, <2>3
<1> QED
  BY <1>1, <1>2, ControlCorrect, PTL DEF Spec

\* A messenger never reads outside an allocated bucket array, however its reads
\* of mask, buckets and the entries interleave with replacing, erasing and
\* collecting arrays: cache_collect frees nothing that can still be reached.
THEOREM MessengerReadsSafely == Spec => []NoWildRead
<1>1. HeapInv => NoWildRead
  BY DEF HeapInv, Readers
<1> QED
  BY <1>1, HeapCorrect, PTL
-----------------------------------------------------------------------------
\* Dividing a sum of a multiple and a remainder gives the remainder back.
LEMMA Remainder ==
  ASSUME NEW n \in Nat, n > 0, NEW q \in Nat, NEW j \in 0 .. n - 1
  PROVE  (q * n + j) % n = j
<1> DEFINE a == q * n + j
           d == a \div n
           r == a % n
<1>1. a \in Nat /\ d \in Nat /\ r \in 0 .. n - 1 /\ a = d * n + r
  OBVIOUS
<1> QED
  BY <1>1

\* Probing from any hash reaches every bucket.
LEMMA EveryBucketProbed ==
  ASSUME NEW h \in Nat, NEW n \in Nat, n > 0, NEW j \in 0 .. n - 1
  PROVE  \E k \in 0 .. n - 1 : (h + k) % n = j
<1> DEFINE q == h \div n
           r == h % n
<1>1. q \in Nat /\ r \in 0 .. n - 1 /\ h = q * n + r
  OBVIOUS
<1> HIDE DEF q, r
<1>2. CASE j >= r
  <2>1. h + (j - r) = q * n + j /\ j - r \in 0 .. n - 1
    BY <1>1, <1>2
  <2> QED
    BY <1>1, <2>1, Remainder
<1>3. CASE j < r
  <2>1. h + (j - r + n) = (q + 1) * n + j /\ j - r + n \in 0 .. n - 1 /\ q + 1 \in Nat
    BY <1>1, <1>3
  <2> QED
    BY <2>1, Remainder
<1> QED
  BY <1>1, <1>2, <1>3

\* "There is guaranteed to be an empty slot": with room left by the count, the
\* probe sequence of any selector meets a free bucket.
LEMMA RoomMeansFree ==
  ASSUME ControlInv, HeapInv, Counted, ~Replacing, buckets # Empty, HasRoom, NEW s \in Sels
  PROVE  FreeProbes(s) # {}
<1> DEFINE n == mask + 1
<1>1. n \in Nat /\ n > 0 /\ mask \in Nat /\ occupied < n
  BY HeapTypes DEF HasRoom, capacity
<1>2. Used # 0 .. mask
  <2>1. Cardinality(0 .. mask) = mask + 1
    BY <1>1, FS_Interval
  <2> QED
    BY <1>1, <2>1 DEF Counted
<1>3. PICK j \in 0 .. mask : heap[buckets][j].key = NoSel
  BY <1>2 DEF Used
<1>4. PICK k \in 0 .. n - 1 : (hash[s] + k) % n = j
  <2> DEFINE h == hash[s]
  <2>1. h \in Nat /\ j \in 0 .. n - 1
    BY <1>1, MethodCacheAssumption
  <2> HIDE DEF n, h
  <2>2. \E k \in 0 .. n - 1 : (h + k) % n = j
    BY <1>1, <2>1, EveryBucketProbed
  <2> QED
    BY <2>2 DEF h
<1>5. k \in 0 .. mask /\ Probe(s, k) = j
  BY <1>1, <1>4 DEF Probe
<1> QED
  BY <1>3, <1>5 DEF FreeProbes

\* What a step of thread t does to the cache: nothing, or one of the writes.
LEMMA Writers ==
  ASSUME ControlInv, HeapInv, NEW t \in Threads, Move(t)
  PROVE  \/ UNCHANGED cache /\ (Replacing' <=> Replacing) /\ pc'[t] # "bad_cache"
         \/ cache_fill(t) \/ SetMask(t) \/ CollectFree(t) \/ SetImp(t) \/ SetKey(t)
         \/ cache_erase_nolock(t)
<1> SUFFICES ASSUME ~(\/ cache_fill(t) \/ SetMask(t) \/ CollectFree(t) \/ SetImp(t)
                      \/ SetKey(t) \/ cache_erase_nolock(t))
             PROVE  UNCHANGED cache /\ (Replacing' <=> Replacing) /\ pc'[t] # "bad_cache"
  OBVIOUS
<1>1. /\ UNCHANGED cache /\ pc[t] # "setMask"
      /\ \E p \in PCs : /\ pc' = [pc EXCEPT ![t] = p]
                        /\ p # "setMask" /\ p # "bad_cache"
  <2> USE HeapTypes DEF PCs, UpdateHeld
  <2>1. CASE \/ \E s \in Sels : objc_msgSend(t, s) \/ method_setImplementation(t, s)
             \/ objc_flush_caches(t)
    BY <2>1 DEF objc_msgSend, method_setImplementation, objc_flush_caches
  <2>2. CASE ReadMask(t) \/ ReadBuckets(t) \/ CacheHit(t) \/ Dispatched(t)
    BY <2>2 DEF ReadMask, ReadBuckets, CacheHit, Dispatched
  <2>3. CASE Scan(t)
    <3>1. pc[t] = "scan" /\ UNCHANGED cache
      BY <2>3 DEF Scan
    <3>2. pc' = pc \/ pc' = [pc EXCEPT ![t] = "uncached"] \/ pc' = [pc EXCEPT ![t] = "imp"]
      BY <2>3, Zenon DEF Scan, Miss
    <3>3. pc = [pc EXCEPT ![t] = "scan"]
      BY <3>1
    <3> QED
      BY <3>1, <3>2, <3>3
  <2>4. CASE LookUp(t) \/ Found(t)
    BY <2>4 DEF LookUp, Found
  <2>5. CASE CollectLook(t)
    <3>1. pc[t] = "collect" /\ UNCHANGED cache
      BY <2>5 DEF CollectLook
    <3>2. pc' = pc \/ pc' = [pc EXCEPT ![t] = After(t)]
      BY <2>5 DEF CollectLook
    <3>3. pc = [pc EXCEPT ![t] = "collect"]
      BY <3>1
    <3> QED
      BY <3>1, <3>2, <3>3 DEF After
  <2>6. CASE Flushed(t) \/ CollectALot(t)
    BY <2>6 DEF Flushed, CollectALot
  <2> QED
    BY <2>1, <2>2, <2>3, <2>4, <2>5, <2>6 DEF Move, Step, Read, Fill, Flush
<1>2. Replacing' <=> Replacing
  BY <1>1, HeapTypes DEF Replacing
<1> QED
  BY <1>1, <1>2, HeapTypes

\* A new array is empty.
LEMMA FillCounted ==
  ASSUME ControlInv, HeapInv, Counted, NEW t \in Threads, cache_fill(t)
  PROVE  Counted'
<1>0. pc[t] = "fill" /\ cacheUpdateLock = NoThread
  BY DEF cache_fill
<1>1. CASE UNCHANGED cache /\ \E p \in {"found", "setImp"} : pc' = [pc EXCEPT ![t] = p]
  <2>1. (Replacing' <=> Replacing) /\ \A u \in Threads : pc'[u] # "bad_cache"
    BY <1>0, <1>1, HeapTypes DEF Replacing, Counted
  <2> QED
    BY <1>1, <2>1 DEF Counted, Used, capacity
<1>2. CASE \E cap \in Nat : cap >= 4 /\ reallocate(t, cap)
  <2>1. PICK cap \in Nat : cap >= 4 /\ reallocate(t, cap)
    BY <1>2
  <2>2. /\ buckets' = NewAddress /\ pc' = [pc EXCEPT ![t] = "setMask"]
        /\ heap'[NewAddress] = [i \in 0 .. cap - 1 |-> Zero]
    BY <2>1, AllocatedShape DEF reallocate, allocateBuckets
  <2>3. Replacing' /\ \A u \in Threads : pc'[u] # "bad_cache"
    BY <2>2, HeapTypes DEF Replacing, Counted
  <2>4. \A i \in DOMAIN heap'[buckets'] : heap'[buckets'][i].key = NoSel
    BY <2>2 DEF Zero
  <2> QED
    BY <2>3, <2>4 DEF Counted
<1>3. INIT_CACHE_SIZE \in Nat /\ INIT_CACHE_SIZE >= 4
      /\ capacity \in Nat /\ (capacity # 0 => capacity >= 4)
      /\ (~isConstantEmptyCache => capacity # 0)
  BY <1>0, UnlockedHeap, MethodCacheAssumption
     DEF capacity, HeapInv, HeapShape, isConstantEmptyCache
<1>4. \/ UNCHANGED cache /\ \E p \in {"found", "setImp"} : pc' = [pc EXCEPT ![t] = p]
      \/ reallocate(t, IF capacity = 0 THEN INIT_CACHE_SIZE ELSE capacity)
      \/ ~isConstantEmptyCache /\ reallocate(t, 2 * capacity)
  BY DEF cache_fill
<1>5. CASE reallocate(t, IF capacity = 0 THEN INIT_CACHE_SIZE ELSE capacity)
  <2> DEFINE cap == IF capacity = 0 THEN INIT_CACHE_SIZE ELSE capacity
  <2>1. cap \in Nat /\ cap >= 4 /\ reallocate(t, cap)
    BY <1>3, <1>5
  <2> QED
    BY <1>2, <2>1
<1>6. CASE ~isConstantEmptyCache /\ reallocate(t, 2 * capacity)
  <2>1. 2 * capacity \in Nat /\ 2 * capacity >= 4
    BY <1>3, <1>6
  <2> QED
    BY <1>2, <1>6, <2>1
<1> QED
  BY <1>1, <1>4, <1>5, <1>6

\* Every step keeps the count right, and none runs out of buckets.
LEMMA CountedStep ==
  ASSUME ControlInv, HeapInv, Target, Counted, NEW t \in Threads, Move(t)
  PROVE  Counted'
<1>1. CASE UNCHANGED cache /\ (Replacing' <=> Replacing) /\ pc'[t] # "bad_cache"
  <2>1. \A u \in Threads : pc'[u] # "bad_cache"
    <3>1. \A u \in Threads : u # t => pc'[u] = pc[u]
      BY OthersStay
    <3> QED
      BY <1>1, <3>1 DEF Counted
  <2> QED
    BY <1>1, <2>1 DEF Counted, Used, capacity
<1>2. CASE cache_fill(t)
  BY <1>2, FillCounted
<1>3. CASE SetMask(t)
  <2>1. pc[t] = "setMask" /\ UNCHANGED <<heap, buckets>> /\ occupied' = 0
        /\ mask' = (IF buckets = Empty THEN mask ELSE CapacityOf(buckets) - 1)
        /\ \E p \in {"collect", "setImp", "flushed"} : pc' = [pc EXCEPT ![t] = p]
    BY <1>3 DEF SetMask, After
  <2>2. Replacing /\ ~Replacing'
    BY <2>1, HolderAlone, HeapTypes DEF Replacing, UpdateHeld
  <2>3. buckets # Empty => Used' = {}
    <3> SUFFICES ASSUME buckets # Empty PROVE Used' = {}
      OBVIOUS
    <3>1. 0 .. mask' = DOMAIN heap[buckets]
      BY <2>1, HeapTypes
    <3> QED
      BY <2>1, <2>2, <3>1 DEF Used, Counted
  <2>4. buckets # Empty => 0 <= (capacity' \div 4) * 3
    BY <2>1, HeapTypes DEF capacity
  <2>5. \A u \in Threads : pc'[u] # "bad_cache"
    BY <2>1, HeapTypes DEF Counted
  <2> QED
    BY <2>1, <2>2, <2>3, <2>4, <2>5, FS_EmptySet DEF Counted
<1>4. CASE CollectFree(t)
  <2>1. /\ pc[t] = "collect" /\ heap' = [a \in DOMAIN heap \ garbage |-> heap[a]]
        /\ UNCHANGED <<buckets, mask, occupied>>
        /\ \E p \in {"setImp", "flushed"} : pc' = [pc EXCEPT ![t] = p]
    BY <1>4 DEF CollectFree, After
  <2>2. ~Replacing /\ ~Replacing'
    BY <2>1, HolderAlone, HeapTypes DEF Replacing, UpdateHeld
  <2>3. buckets # Empty => heap'[buckets] = heap[buckets]
    BY <2>1, HeapTypes DEF HeapInv, Arrays, ArraysAccounted
  <2>4. \A u \in Threads : pc'[u] # "bad_cache"
    BY <2>1, HeapTypes DEF Counted
  <2> QED
    BY <2>1, <2>2, <2>3, <2>4 DEF Counted, Used, capacity
<1>5. CASE SetImp(t)
  <2>1. pc[t] = "setImp" /\ ~Replacing /\ buckets # Empty /\ HasRoom /\ sel[t] \in Sels
    BY <1>5, HolderAlone
       DEF SetImp, UpdateHeld, HeapInv, MaskFits, Room, WillStore, ControlInv, Busy
  <2>2. FreeProbes(sel[t]) # {}
    BY <2>1, RoomMeansFree
  <2>3. /\ UNCHANGED <<buckets, mask, occupied>>
        /\ pc' = [pc EXCEPT ![t] = "setKey"]
        /\ \A j \in DOMAIN heap[buckets] : heap'[buckets][j].key = heap[buckets][j].key
    BY <1>5, <2>2, SetImpEffect
  <2>4. ~Replacing' /\ \A u \in Threads : pc'[u] # "bad_cache"
    BY <2>1, <2>3, HeapTypes DEF Replacing, Counted
  <2>5. Used' = Used
    <3>1. 0 .. mask \subseteq DOMAIN heap[buckets]
      BY <2>1, HeapTypes
    <3> QED
      BY <2>3, <3>1 DEF Used
  <2> QED
    BY <2>1, <2>3, <2>4, <2>5 DEF Counted, capacity
<1>6. CASE SetKey(t)
  <2>1. /\ pc[t] = "setKey" /\ ~Replacing /\ buckets # Empty /\ HasRoom /\ sel[t] \in Sels
        /\ FreeProbes(sel[t]) # {}
    BY <1>6, HolderAlone
       DEF SetKey, UpdateHeld, HeapInv, MaskFits, Room, WillStore, ControlInv, Busy, Target
  <2> DEFINE i == Probe(sel[t], Min(FreeProbes(sel[t])))
  <2>2. i \in 0 .. mask /\ i \in 0 .. CapacityOf(buckets) - 1 /\ heap[buckets][i].key = NoSel
    BY <2>1, FreeBucket
  <2>3. /\ heap' = [heap EXCEPT ![buckets][i].key = sel[t]]
        /\ UNCHANGED <<buckets, mask>> /\ occupied' = occupied + 1
        /\ pc' = [pc EXCEPT ![t] = "found"]
    BY <1>6 DEF SetKey
  <2> HIDE DEF i
  <2>4. \A j \in DOMAIN heap[buckets] : j # i => heap'[buckets][j] = heap[buckets][j]
    BY <2>1, <2>2, <2>3, StoreEffect DEF HeapInv
  <2>5. heap'[buckets][i].key = sel[t] /\ sel[t] # NoSel
    <3>1. buckets \in DOMAIN heap /\ i \in DOMAIN heap[buckets] /\ heap[buckets][i] \in Bucket
      BY <2>1, <2>2, HeapTypes DEF HeapInv, HeapShape
    <3>2. heap'[buckets][i] = [heap[buckets][i] EXCEPT !.key = sel[t]]
      BY <2>3, <3>1
    <3> QED
      BY <2>1, <3>1, <3>2, MethodCacheAssumption DEF Bucket
  <2>6. Used' = Used \cup {i} /\ i \notin Used
    <3>1. 0 .. mask \subseteq DOMAIN heap[buckets]
      BY <2>1, HeapTypes
    <3> QED
      BY <2>2, <2>3, <2>4, <2>5, <3>1 DEF Used
  <2>7. IsFiniteSet(Used)
    <3>1. mask \in Int /\ 0 \in Int
      BY HeapTypes
    <3>2. IsFiniteSet(0 .. mask)
      BY <3>1, FS_Interval
    <3>3. Used \in SUBSET (0 .. mask)
      BY DEF Used
    <3> QED
      BY <3>2, <3>3, FS_Subset
  <2>8. Cardinality(Used') = Cardinality(Used) + 1
    BY <2>6, <2>7, FS_AddElement
  <2>9. ~Replacing' /\ \A u \in Threads : pc'[u] # "bad_cache"
    BY <2>1, <2>3, HeapTypes DEF Replacing, Counted
  <2>10. occupied' <= (capacity' \div 4) * 3
    BY <2>1, <2>3 DEF HasRoom, capacity
  <2> QED
    BY <2>1, <2>3, <2>8, <2>9, <2>10 DEF Counted
<1>7. CASE cache_erase_nolock(t)
  <2>1. \/ UNCHANGED cache /\ pc' = [pc EXCEPT ![t] = "flushed"]
        \/ buckets' = Empty /\ pc' = [pc EXCEPT ![t] = "setMask"]
    BY <1>7 DEF cache_erase_nolock
  <2>2. pc[t] = "flush" /\ \A u \in Threads : pc'[u] # "bad_cache"
    BY <1>7, <2>1, HeapTypes DEF cache_erase_nolock, Counted
  <2>3. CASE buckets' = Empty
    BY <2>2, <2>3 DEF Counted
  <2>4. CASE UNCHANGED cache /\ pc' = [pc EXCEPT ![t] = "flushed"]
    <3>1. Replacing' <=> Replacing
      BY <2>2, <2>4, HeapTypes DEF Replacing
    <3> QED
      BY <2>2, <2>4, <3>1 DEF Counted, Used, capacity
  <2> QED
    BY <2>1, <2>3, <2>4
<1> QED
  BY <1>1, <1>2, <1>3, <1>4, <1>5, <1>6, <1>7, Writers

\* The third layer holds initially.
LEMMA InitFresh == Init => Counted /\ Fresh
BY DEF Init, Counted, Fresh, Editing, EntriesCurrent, Meaning, Seen, Chosen, Sending,
       Replacing

\* A step leaves alone what its thread does not touch.
LEMMA OthersFresh ==
  ASSUME ControlInv, HeapInv, Fresh, NEW t \in Threads, Move(t),
         UNCHANGED table, NEW u \in Threads, u # t
  PROVE  /\ Meaning(u)'
         /\ UNCHANGED cache => Seen(u)' /\ Chosen(u)'
         /\ pc[u] \notin UpdateHeld => Chosen(u)'
<1>1. /\ pc'[u] = pc[u] /\ why'[u] = why[u] /\ sel'[u] = sel[u]
      /\ got'[u] = got[u] /\ at'[u] = at[u] /\ valid[u] \subseteq valid'[u]
  BY OthersStay
<1>2. Meaning(u) /\ Seen(u) /\ Chosen(u)
  BY DEF Fresh
<1>3. Meaning(u)'
  BY <1>1, <1>2 DEF Meaning, Current, Imp
<1>4. UNCHANGED cache => Seen(u)'
  BY <1>1, <1>2 DEF Seen
<1>5. UNCHANGED cache => Chosen(u)'
  BY <1>1, <1>2 DEF Chosen, Probe, FreeProbes
<1>6. pc[u] \notin UpdateHeld => Chosen(u)'
  BY <1>1 DEF Chosen, UpdateHeld
<1> QED
  BY <1>3, <1>4, <1>5, <1>6

\* A messenger ends in an implementation its selector had during the send.
LEMMA ReadFresh ==
  ASSUME ControlInv, HeapInv, Fresh, NEW t \in Threads, Read(t)
  PROVE  Fresh'
<1>0. UNCHANGED <<cache, table, locks>>
  BY DEF Read, ReadMask, ReadBuckets, Scan, CacheHit, Dispatched
<1>1. Move(t)
  BY DEF Move, Step
<1>2. \A u \in Threads : u # t => Meaning(u)' /\ Seen(u)' /\ Chosen(u)'
  BY <1>0, <1>1, OthersFresh
<1>3. EntriesCurrent'
  BY <1>0 DEF Fresh, EntriesCurrent, Current, Imp
<1>4. Meaning(t) /\ Seen(t)
  BY DEF Fresh
<1>5. CASE Dispatched(t)
  <2>1. pc'[t] = "idle" /\ why'[t] = "none" /\ pc[t] = "done"
    BY <1>5, HeapTypes DEF Dispatched
  <2>2. Editing'
    BY <1>0, <1>5, <2>1, HeapTypes DEF Fresh, Editing, Dispatched, ControlInv, Locks, RuntimeHeld, UpdateHeld
  <2>3. Meaning(t)' /\ Seen(t)' /\ Chosen(t)'
    BY <2>1 DEF Meaning, Seen, Chosen, Sending
  <2> QED
    BY <1>2, <1>3, <2>2, <2>3 DEF Fresh
<1>6. ASSUME UNCHANGED <<sel, valid, why>>, pc'[t] \in {"buckets", "scan", "imp", "uncached", "done"},
             pc[t] \in {"mask", "buckets", "scan", "imp"},
             why[t] # "lookup", Seen(t)', pc'[t] = "done" => got'[t] \in valid[t]
      PROVE  Fresh'
  <2>1. Editing'
    BY <1>0, <1>6 DEF Fresh, Editing
  <2>2. Meaning(t)'
    BY <1>0, <1>4, <1>6 DEF Meaning, Sending, Current, Imp
  <2>3. Chosen(t)'
    BY <1>6 DEF Chosen
  <2> QED
    BY <1>2, <1>3, <1>6, <2>1, <2>2, <2>3 DEF Fresh
<1>7. pc[t] \in {"mask", "buckets", "scan", "imp"} => why[t] # "lookup"
  BY DEF ControlInv, Busy
<1>8. CASE ReadMask(t)
  <2>1. pc[t] = "mask" /\ pc'[t] = "buckets" /\ UNCHANGED <<sel, valid, why>>
    BY <1>8, HeapTypes DEF ReadMask
  <2> QED
    BY <1>6, <1>7, <2>1 DEF Seen
<1>9. CASE ReadBuckets(t)
  <2>1. /\ pc[t] = "buckets" /\ pc'[t] = "scan" /\ UNCHANGED <<sel, valid, why>>
        /\ at'[t][1] = buckets
    BY <1>9, HeapTypes DEF ReadBuckets
  <2>2. sel[t] # NoSel /\ Current(sel[t]) \subseteq valid[t]
    BY <1>4, <2>1, MethodCacheAssumption DEF Meaning, Sending, ControlInv, Busy
  <2>3. Seen(t)'
    BY <1>0, <2>1, <2>2 DEF Seen, Fresh, EntriesCurrent
  <2> QED
    BY <1>6, <1>7, <2>1, <2>3
<1>10. CASE Scan(t)
  <2>1. pc[t] = "scan" /\ UNCHANGED <<sel, valid, why>> /\ pc'[t] \in {"scan", "imp", "uncached"}
    BY <1>10, HeapTypes DEF Scan, Miss
  <2>2. pc'[t] # "uncached" => at'[t][1] = at[t][1]
    BY <1>10, <2>1, HeapTypes DEF Scan, Miss
  <2>3. pc'[t] = "imp" => /\ at' = at
                          /\ At(at[t][1], at[t][2]).key = sel[t]
    BY <1>10, <2>1, HeapTypes DEF Scan, Miss
  <2>4. sel[t] # NoSel
    BY <2>1, MethodCacheAssumption DEF ControlInv, Busy, Sending
  <2>5. pc'[t] = "imp" => heap[at[t][1]][at[t][2]].key = sel[t]
    BY <2>3, <2>4 DEF At, Zero
  <2>6. Seen(t)'
    BY <1>0, <1>4, <2>1, <2>2, <2>3, <2>5 DEF Seen
  <2> QED
    BY <1>6, <1>7, <2>1, <2>6
<1>11. CASE CacheHit(t)
  <2>1. /\ pc[t] = "imp" /\ pc'[t] = "done" /\ UNCHANGED <<sel, valid, why>>
        /\ got'[t] = At(at[t][1], at[t][2]).imp
    BY <1>11, HeapTypes DEF CacheHit
  <2>2. /\ at[t][1] \in DOMAIN heap /\ at[t][1] # Empty
        /\ at[t][2] \in DOMAIN heap[at[t][1]]
    BY <2>1, HeapTypes DEF HeapInv, HeapShape, Readers, HitInside
  <2>3. got'[t] \in valid[t]
    BY <1>4, <2>1, <2>2 DEF Seen, At
  <2>4. Seen(t)'
    BY <2>1 DEF Seen
  <2> QED
    BY <1>6, <1>7, <2>1, <2>3, <2>4
<1> QED
  BY <1>5, <1>8, <1>9, <1>10, <1>11 DEF Read

\* A lookup under runtimeLock finds the implementation that is current.
LEMMA LookUpFresh ==
  ASSUME ControlInv, HeapInv, Fresh, NEW t \in Threads, LookUp(t) \/ Found(t)
  PROVE  Fresh'
<1>0. UNCHANGED <<cache, table, sel, valid, at>> /\ Move(t)
  BY DEF LookUp, Found, Move, Step, Fill
<1>1. \A u \in Threads : u # t => Meaning(u)' /\ Seen(u)' /\ Chosen(u)'
  BY <1>0, OthersFresh
<1>2. EntriesCurrent' /\ Meaning(t)
  BY <1>0 DEF Fresh, EntriesCurrent, Current, Imp
<1>3. replaced = {}
  BY MethodCacheAssumption
     DEF LookUp, Found, Fresh, Editing, ControlInv, Busy, Locks, RuntimeHeld
<1>4. Editing'
  BY <1>0, <1>3 DEF Editing
<1>5. pc'[t] \in {"found", "fill", "done"} /\ sel[t] \in Sels /\ sel[t] # NoSel
  <2>1. pc'[t] \in {"found", "fill", "done"} /\ pc[t] \in {"uncached", "found"}
    BY HeapTypes DEF LookUp, Found
  <2>2. sel[t] \in Sels
    BY <2>1 DEF ControlInv, Busy, Sending
  <2> QED
    BY <2>1, <2>2, MethodCacheAssumption
<1>6. Current(sel[t]) = {Imp(sel[t], methods[sel[t]])}
  BY <1>3 DEF Current
<1>7. Seen(t)' /\ Chosen(t)'
  BY <1>5 DEF Seen, Chosen
<1>8. Meaning(t)'
  <2>1. CASE Found(t)
    <3>1. /\ pc[t] = "found" /\ pc'[t] = "done" /\ why'[t] = why[t] /\ why[t] = "lookup"
          /\ got'[t] = got[t]
      BY <2>1, HeapTypes DEF Found, ControlInv, Busy
    <3> QED
      BY <1>0, <1>2, <3>1 DEF Meaning, Sending, Current, Imp
  <2>2. CASE LookUp(t)
    <3>1. Cached(sel[t]) => CachedImp(sel[t]) \in Current(sel[t])
      BY <1>5, CachedEntry DEF Fresh, EntriesCurrent
    <3>2. /\ pc[t] = "uncached" /\ pc'[t] \in {"found", "fill"} /\ why'[t] = "lookup"
          /\ got'[t] = Imp(sel[t], methods[sel[t]])
      BY <1>6, <2>2, <3>1, HeapTypes DEF LookUp
    <3>3. Current(sel[t]) \subseteq valid[t]
      BY <1>2, <3>2 DEF Meaning, Sending
    <3> QED
      BY <1>0, <1>6, <3>2, <3>3 DEF Meaning, Current, Imp
  <2> QED
    BY <2>1, <2>2
<1> QED
  BY <1>1, <1>2, <1>4, <1>7, <1>8 DEF Fresh

\* The steps that work on the arrays leave the method table, the locks of
\* others and the messengers' registers alone.
ArrayStep(t) == \/ cache_fill(t) \/ SetMask(t) \/ CollectLook(t) \/ CollectFree(t)
                \/ SetImp(t) \/ SetKey(t) \/ cache_erase_nolock(t)

\* What remains to be shown of such a step: that what is said of the current
\* array, of the arrays being read and of the holder still holds.
LEMMA ArrayStepFresh ==
  ASSUME ControlInv, HeapInv, Fresh, NEW t \in Threads, ArrayStep(t),
         EntriesCurrent', Chosen(t)', \A u \in Threads : u # t => Seen(u)'
  PROVE  Fresh'
<1>0. /\ UNCHANGED <<table, sel, got, valid, at, why, runtimeLock>> /\ Move(t)
      /\ pc[t] \in {"fill", "flush"} \cup UpdateHeld
  BY DEF ArrayStep, cache_fill, SetMask, CollectLook, CollectFree, SetImp, SetKey,
         cache_erase_nolock, Move, Step, Fill, Flush, UpdateHeld
<1>1. pc'[t] \in {"found"} \cup UpdateHeld
  <2> USE HeapTypes DEF UpdateHeld
  <2>1. CASE cache_fill(t)
    BY <2>1 DEF cache_fill, reallocate
  <2>2. CASE SetMask(t)
    BY <2>2 DEF SetMask, After
  <2>3. CASE CollectLook(t)
    BY <2>3 DEF CollectLook, After
  <2>4. CASE CollectFree(t)
    BY <2>4 DEF CollectFree, After
  <2>5. CASE SetImp(t) \/ SetKey(t)
    BY <2>5 DEF SetImp, SetKey
  <2>6. CASE cache_erase_nolock(t)
    BY <2>6 DEF cache_erase_nolock
  <2> QED
    BY <2>1, <2>2, <2>3, <2>4, <2>5, <2>6 DEF ArrayStep
<1>2. Editing'
  BY <1>0 DEF Fresh, Editing
<1>3. Seen(t)'
  BY <1>1 DEF Seen, UpdateHeld
<1>4. Meaning(t)'
  <2>1. pc'[t] = "found" => why[t] = "lookup"
    BY HeapTypes DEF ArrayStep, cache_fill, reallocate, SetMask, CollectLook, CollectFree,
       SetImp, SetKey, cache_erase_nolock, After, ControlInv, Busy, UpdateHeld
  <2>2. Meaning(t) /\ pc[t] # "done"
    BY <1>0 DEF Fresh, UpdateHeld
  <2> QED
    BY <1>0, <1>1, <2>1, <2>2 DEF Meaning, Sending, UpdateHeld, Current, Imp
<1>5. ASSUME NEW u \in Threads, u # t PROVE Meaning(u)' /\ Chosen(u)'
  <2>1. CASE pc[u] \in UpdateHeld
    <3>1. UNCHANGED cache
      BY <1>0, <1>5, <2>1, Bystander
    <3> QED
      BY <1>0, <1>5, <3>1, OthersFresh
  <2>2. CASE pc[u] \notin UpdateHeld
    BY <1>0, <1>5, <2>2, OthersFresh
  <2> QED
    BY <2>1, <2>2
<1> QED
  BY <1>2, <1>3, <1>4, <1>5 DEF Fresh

\* Entries that messengers see are kept with the arrays that are.
LEMMA SeenKept ==
  ASSUME ControlInv, HeapInv, Fresh, NEW t \in Threads, Move(t), NEW u \in Threads, u # t,
         pc[u] \in {"scan", "imp"} /\ at[u][1] \in DOMAIN heap =>
           heap'[at[u][1]] = heap[at[u][1]]
  PROVE  Seen(u)'
<1>1. /\ pc'[u] = pc[u] /\ sel'[u] = sel[u] /\ at'[u] = at[u] /\ valid[u] \subseteq valid'[u]
  BY OthersStay
<1>2. Seen(u)
  BY DEF Fresh
<1>3. pc[u] \in {"scan", "imp"} /\ at[u][1] # Empty => at[u][1] \in DOMAIN heap
  BY DEF HeapInv, Readers, NoWildRead
<1>4. pc[u] = "imp" => at[u][1] # Empty
  BY DEF HeapInv, HeapShape, Readers, HitInside
<1> QED
  BY <1>1, <1>2, <1>3, <1>4 DEF Seen

\* A new array holds nothing; the arrays being read stay as they are.
LEMMA cache_fillFresh ==
  ASSUME ControlInv, HeapInv, Fresh, NEW t \in Threads, cache_fill(t)
  PROVE  Fresh'
<1>0. pc[t] = "fill" /\ Move(t) /\ ArrayStep(t) /\ UNCHANGED table
  BY DEF cache_fill, Move, Step, Fill, ArrayStep
<1>1. CASE UNCHANGED cache /\ pc'[t] \in {"found", "setImp"}
  <2>1. EntriesCurrent'
    BY <1>0, <1>1 DEF Fresh, EntriesCurrent, Current, Imp
  <2>2. Chosen(t)'
    BY <1>1 DEF Chosen
  <2>3. \A u \in Threads : u # t => Seen(u)'
    BY <1>0, <1>1, OthersFresh
  <2> QED
    BY <1>0, <2>1, <2>2, <2>3, ArrayStepFresh
<1>2. CASE \E cap : reallocate(t, cap)
  <2>1. PICK cap : reallocate(t, cap)
    BY <1>2
  <2>2. NewAddress \notin DOMAIN heap
    BY NewAddressFresh DEF HeapInv, HeapShape
  <2>3. /\ buckets' = NewAddress /\ pc' = [pc EXCEPT ![t] = "setMask"]
        /\ heap'[NewAddress] = [i \in 0 .. cap - 1 |-> Zero]
        /\ \A a \in DOMAIN heap : heap'[a] = heap[a]
    BY <2>1, <2>2 DEF reallocate, allocateBuckets
  <2>4. EntriesCurrent'
    BY <2>3 DEF EntriesCurrent, Zero
  <2>5. pc'[t] = "setMask" /\ why'[t] = "lookup"
    BY <1>0, <2>3, HeapTypes DEF cache_fill, ControlInv, Busy
  <2>6. Chosen(t)'
    BY <2>5 DEF Chosen
  <2>7. \A u \in Threads : u # t => Seen(u)'
    BY <1>0, <2>3, SeenKept
  <2> QED
    BY <1>0, <2>4, <2>6, <2>7, ArrayStepFresh
<1> QED
  BY <1>1, <1>2, HeapTypes DEF cache_fill

\* Storing the mask, and looking at threads, write no entry.
LEMMA QuietArrayFresh ==
  ASSUME ControlInv, HeapInv, Fresh, NEW t \in Threads, SetMask(t) \/ CollectLook(t)
  PROVE  Fresh'
<1>0. /\ pc[t] \in {"setMask", "collect"} /\ Move(t) /\ ArrayStep(t)
      /\ UNCHANGED <<table, heap, buckets, why>>
  BY DEF SetMask, CollectLook, Move, Step, Fill, ArrayStep
<1>1. EntriesCurrent'
  BY <1>0 DEF Fresh, EntriesCurrent, Current, Imp
<1>2. pc'[t] \in {"setImp", "collect", "flushed"}
  <2>1. CASE SetMask(t)
    BY <2>1, HeapTypes DEF SetMask, After
  <2>2. CASE CollectLook(t)
    BY <2>2, HeapTypes DEF CollectLook, After
  <2> QED
    BY <2>1, <2>2
<1>3. Chosen(t)'
  BY <1>0, <1>2 DEF Fresh, Chosen
<1>4. \A u \in Threads : u # t => Seen(u)'
  BY <1>0, SeenKept
<1> QED
  BY <1>0, <1>1, <1>3, <1>4, ArrayStepFresh

\* The arrays that messengers read are not among those that are freed.
LEMMA CollectFreeFresh ==
  ASSUME ControlInv, HeapInv, Fresh, NEW t \in Threads, CollectFree(t)
  PROVE  Fresh'
<1>0. /\ pc[t] = "collect" /\ left[t] = {} /\ Move(t) /\ ArrayStep(t)
      /\ heap' = [a \in DOMAIN heap \ garbage |-> heap[a]]
      /\ UNCHANGED <<table, buckets, why>>
  BY DEF CollectFree, Move, Step, Fill, ArrayStep
<1>1. buckets # Empty => heap'[buckets] = heap[buckets]
  BY <1>0, HeapTypes DEF HeapInv, Arrays, ArraysAccounted
<1>2. EntriesCurrent'
  BY <1>0, <1>1 DEF Fresh, EntriesCurrent, Current, Imp
<1>3. pc'[t] \in {"setImp", "flushed"}
  BY HeapTypes DEF CollectFree, After
<1>4. Chosen(t)'
  BY <1>0, <1>3 DEF Fresh, Chosen
<1>5. \A u \in Threads : pc[u] \in {"scan", "imp"} => at[u][1] \notin garbage
  BY <1>0 DEF HeapInv, Readers, ReadersSeen
<1>6. \A u \in Threads : u # t => Seen(u)'
  BY <1>0, <1>5, SeenKept
<1> QED
  BY <1>0, <1>2, <1>4, <1>6, ArrayStepFresh

\* An erase empties the cache, or finds it empty.
LEMMA EraseFresh ==
  ASSUME ControlInv, HeapInv, Fresh, NEW t \in Threads, cache_erase_nolock(t)
  PROVE  Fresh'
<1>0. /\ pc[t] = "flush" /\ cacheUpdateLock = NoThread /\ Move(t) /\ ArrayStep(t)
      /\ UNCHANGED <<table, heap, why, occupied>>
  BY DEF cache_erase_nolock, Move, Step, Flush, ArrayStep
<1>1. \A u \in Threads : u # t => Seen(u)'
  BY <1>0, SeenKept
<1>2. CASE NeedsErase
  <2>1. buckets' = Empty /\ pc'[t] = "setMask"
    BY <1>2, HeapTypes DEF cache_erase_nolock
  <2>2. EntriesCurrent' /\ Chosen(t)'
    BY <2>1 DEF EntriesCurrent, Chosen
  <2> QED
    BY <1>0, <1>1, <2>2, ArrayStepFresh
<1>3. CASE ~NeedsErase
  <2>1. buckets' = buckets /\ pc'[t] = "flushed"
    BY <1>3, HeapTypes DEF cache_erase_nolock
  <2>2. buckets = Empty \/ occupied = 0
    BY <1>0, <1>3, UnlockedHeap, HeapTypes DEF NeedsErase, capacity
  <2>3. EntriesCurrent' /\ Chosen(t)'
    BY <1>0, <2>1, <2>2 DEF Fresh, EntriesCurrent, Chosen, Current, Imp
  <2> QED
    BY <1>0, <1>1, <2>3, ArrayStepFresh
<1> QED
  BY <1>2, <1>3

\* The implementation is stored while the bucket has no key, so nobody uses it.
LEMMA SetImpFresh ==
  ASSUME ControlInv, HeapInv, Counted, Fresh, NEW t \in Threads, SetImp(t)
  PROVE  Fresh'
<1>0. pc[t] = "setImp" /\ Move(t) /\ ArrayStep(t) /\ UNCHANGED <<table, sel, got, at, valid>>
  BY DEF SetImp, Move, Step, Fill, ArrayStep
<1>1. ~Replacing /\ buckets # Empty /\ HasRoom /\ sel[t] \in Sels
  BY <1>0, HolderAlone DEF UpdateHeld, HeapInv, MaskFits, Room, WillStore, ControlInv, Busy
<1>2. FreeProbes(sel[t]) # {}
  BY <1>1, RoomMeansFree
<1> DEFINE i == Probe(sel[t], Min(FreeProbes(sel[t])))
<1>3. /\ buckets' = buckets /\ pc' = [pc EXCEPT ![t] = "setKey"]
      /\ \A a \in DOMAIN heap : a # buckets => heap'[a] = heap[a]
      /\ \A a \in DOMAIN heap : DOMAIN heap'[a] = DOMAIN heap[a]
      /\ i \in DOMAIN heap[buckets] /\ heap[buckets][i].key = NoSel
      /\ heap'[buckets][i].imp = got[t]
      /\ \A j \in DOMAIN heap[buckets] :
           /\ heap'[buckets][j].key = heap[buckets][j].key
           /\ j # i => heap'[buckets][j] = heap[buckets][j]
      /\ i' = i
  BY <1>0, <1>1, <1>2, SetImpEffect
<1> HIDE DEF i
<1>4. buckets \in DOMAIN heap
  BY <1>1, HeapTypes
<1>5. EntriesCurrent'
  <2> SUFFICES ASSUME NEW j \in DOMAIN heap[buckets], heap[buckets][j].key # NoSel
               PROVE  heap'[buckets][j].imp \in Current(heap'[buckets][j].key)
    BY <1>0, <1>3, <1>4 DEF EntriesCurrent, Current, Imp
  <2>2. j # i /\ heap'[buckets][j] = heap[buckets][j]
    BY <1>3
  <2>3. heap[buckets][j].imp \in Current(heap[buckets][j].key)
    BY <1>1 DEF Fresh, EntriesCurrent
  <2> QED
    BY <2>2, <2>3
<1>6. Chosen(t)'
  <2>1. pc'[t] = "setKey"
    BY <1>3, HeapTypes
  <2>2. heap'[buckets'][i'].imp = got'[t]
    BY <1>0, <1>3
  <2> QED
    BY <2>1, <2>2 DEF Chosen, i
<1>7. ASSUME NEW u \in Threads, u # t PROVE Seen(u)'
  <2>1. CASE at[u][1] # buckets
    BY <1>0, <1>3, <1>7, <2>1, SeenKept
  <2>2. CASE at[u][1] = buckets
    <3>1. pc'[u] = pc[u] /\ Seen(u)
      BY <1>0, <1>7, OthersStay DEF Fresh
    <3>2. pc[u] \in {"scan", "imp"} => sel[u] # NoSel
      BY MethodCacheAssumption DEF ControlInv, Busy, Sending
    <3>3. pc[u] = "imp" => at[u][2] \in DOMAIN heap[buckets]
      BY <2>2, HeapTypes DEF HeapInv, Readers, HitInside
    <3> QED
      BY <1>0, <1>1, <1>3, <1>4, <2>2, <3>1, <3>2, <3>3 DEF Seen
  <2> QED
    BY <2>1, <2>2
<1> QED
  BY <1>0, <1>5, <1>6, <1>7, ArrayStepFresh

\* The key makes visible an implementation that is current, and that every
\* messenger of this selector may end in.
LEMMA SetKeyFresh ==
  ASSUME ControlInv, HeapInv, Target, Fresh, NEW t \in Threads, SetKey(t)
  PROVE  Fresh'
<1>0. /\ pc[t] = "setKey" /\ Move(t) /\ ArrayStep(t) /\ buckets' = buckets
      /\ UNCHANGED <<table, sel, got, at, valid>> /\ pc' = [pc EXCEPT ![t] = "found"]
  BY DEF SetKey, Move, Step, Fill, ArrayStep
<1>1. buckets # Empty /\ sel[t] \in Sels /\ FreeProbes(sel[t]) # {} /\ why[t] = "lookup"
  BY <1>0 DEF HeapInv, MaskFits, Room, WillStore, ControlInv, Busy, Target
<1> DEFINE i == Probe(sel[t], Min(FreeProbes(sel[t])))
<1>2. i \in 0 .. CapacityOf(buckets) - 1 /\ heap[buckets][i].key = NoSel
  BY <1>1, FreeBucket
<1>3. heap' = [heap EXCEPT ![buckets][i].key = sel[t]]
  BY DEF SetKey
<1>4. heap[buckets][i].imp = got[t] /\ got[t] = Imp(sel[t], methods[sel[t]])
  BY <1>0, <1>1 DEF Fresh, Chosen, Meaning
<1> HIDE DEF i
<1>5. /\ buckets \in DOMAIN heap /\ i \in DOMAIN heap[buckets] /\ heap[buckets][i] \in Bucket
      /\ \A a \in DOMAIN heap : a # buckets => heap'[a] = heap[a]
      /\ DOMAIN heap'[buckets] = DOMAIN heap[buckets]
      /\ \A j \in DOMAIN heap[buckets] : j # i => heap'[buckets][j] = heap[buckets][j]
  <2>1. buckets \in DOMAIN heap /\ i \in DOMAIN heap[buckets] /\ heap[buckets][i] \in Bucket
    BY <1>1, <1>2, HeapTypes DEF HeapInv, HeapShape
  <2> QED
    BY <1>1, <1>2, <1>3, <2>1, StoreEffect DEF HeapInv
<1>6. heap'[buckets][i].key = sel[t] /\ heap'[buckets][i].imp = Imp(sel[t], methods[sel[t]])
  <2>1. heap'[buckets][i] = [heap[buckets][i] EXCEPT !.key = sel[t]]
    BY <1>3, <1>5
  <2> QED
    BY <1>4, <1>5, <2>1 DEF Bucket
<1>7. EntriesCurrent'
  <2> SUFFICES ASSUME NEW j \in DOMAIN heap[buckets], heap'[buckets][j].key # NoSel
               PROVE  heap'[buckets][j].imp \in Current(heap'[buckets][j].key)
    BY <1>0, <1>5 DEF EntriesCurrent, Current, Imp
  <2>1. CASE j = i
    BY <1>6, <2>1 DEF Current
  <2>2. CASE j # i
    BY <1>1, <1>5, <2>2 DEF Fresh, EntriesCurrent
  <2> QED
    BY <2>1, <2>2
<1>8. Chosen(t)'
  BY <1>0, HeapTypes DEF Chosen
<1>9. ASSUME NEW u \in Threads, u # t PROVE Seen(u)'
  <2>1. CASE at[u][1] # buckets
    BY <1>0, <1>5, <1>9, <2>1, SeenKept
  <2>2. CASE at[u][1] = buckets /\ pc[u] \in {"scan", "imp"}
    <3>1. pc'[u] = pc[u] /\ Seen(u) /\ Current(sel[u]) \subseteq valid[u]
      BY <1>0, <1>9, <2>2, OthersStay DEF Fresh, Meaning, Sending
    <3>2. pc[u] = "imp" => at[u][2] \in DOMAIN heap[buckets] /\ sel[u] # NoSel
      BY <2>2, HeapTypes, MethodCacheAssumption
         DEF HeapInv, Readers, HitInside, ControlInv, Busy, Sending
    <3>3. \A j \in DOMAIN heap[buckets] :
            heap'[buckets][j].key = sel[u] => heap'[buckets][j].imp \in valid[u]
      <4> SUFFICES ASSUME NEW j \in DOMAIN heap[buckets], heap'[buckets][j].key = sel[u]
                   PROVE  heap'[buckets][j].imp \in valid[u]
        OBVIOUS
      <4>1. CASE j = i
        BY <1>6, <3>1, <4>1 DEF Current
      <4>2. CASE j # i
        BY <1>1, <1>5, <2>2, <3>1, <4>2 DEF Seen
      <4> QED
        BY <4>1, <4>2
    <3>4. pc[u] = "imp" => heap'[buckets][at[u][2]].key = sel[u]
      BY <1>2, <1>5, <2>2, <3>1, <3>2 DEF Seen
    <3> QED
      BY <1>0, <1>5, <2>2, <3>1, <3>3, <3>4 DEF Seen
  <2>3. CASE pc[u] \notin {"scan", "imp"}
    BY <1>0, <1>9, <2>3, SeenKept
  <2> QED
    BY <2>1, <2>2, <2>3
<1> QED
  BY <1>0, <1>7, <1>8, <1>9, ArrayStepFresh

\* When an edit ends the cache is empty, so nothing stale can be found later.
LEMMA FlushedFresh ==
  ASSUME ControlInv, HeapInv, Counted, Fresh, NEW t \in Threads, Flushed(t) \/ CollectALot(t)
  PROVE  Fresh'
<1>0. /\ UNCHANGED <<cache, methods, sel, got, valid, at>> /\ Move(t)
      /\ pc[t] \in {"flushed", "collectAll"} /\ replaced' \subseteq replaced
      /\ pc'[t] \in {"collectAll", "idle", "collect"}
      /\ why'[t] \in {"flushAll", "none", "collectALot"} /\ why[t] # "lookup"
  BY HeapTypes DEF Flushed, CollectALot, Move, Step, Flush, ControlInv, Busy
<1>1. Seen(t)' /\ Chosen(t)' /\ Meaning(t)'
  BY <1>0 DEF Seen, Chosen, Meaning, Sending
<1>2. ASSUME NEW u \in Threads, u # t PROVE Meaning(u)' /\ Seen(u)' /\ Chosen(u)'
  <2>1. /\ pc'[u] = pc[u] /\ why'[u] = why[u] /\ sel'[u] = sel[u]
        /\ got'[u] = got[u] /\ at'[u] = at[u] /\ valid'[u] = valid[u]
    BY <1>0, <1>2, OthersStay
  <2>2. Meaning(u) /\ Seen(u) /\ Chosen(u)
    BY DEF Fresh
  <2>3. Meaning(u)'
    BY <1>0, <2>1, <2>2 DEF Meaning, Current, Imp
  <2>4. Seen(u)'
    BY <1>0, <2>1, <2>2 DEF Seen
  <2>5. Chosen(u)'
    BY <1>0, <2>1, <2>2 DEF Chosen, Probe, FreeProbes
  <2> QED
    BY <2>3, <2>4, <2>5
<1>3. Editing'
  <2>1. CASE replaced = {}
    BY <1>0, <2>1 DEF Editing
  <2>2. CASE replaced # {}
    <3>1. PICK h \in Threads : runtimeLock = h /\ why[h] = "edit"
      BY <2>2 DEF Fresh, Editing
    <3>2. CASE h = t
      <4>1. Flushed(t)
        BY <3>1, <3>2 DEF CollectALot, ControlInv, Busy
      <4>2. replaced' = {}
        BY <3>1, <3>2, <4>1 DEF Flushed
      <4> QED
        BY <4>2 DEF Editing
    <3>3. CASE h # t
      <4>1. runtimeLock' = runtimeLock
        <5>1. CASE CollectALot(t)
          BY <5>1 DEF CollectALot
        <5>2. CASE Flushed(t) /\ why[t] = "collectALot"
          BY <5>2 DEF Flushed
        <5>3. CASE Flushed(t) /\ why[t] # "collectALot"
          <6>1. runtimeLock = t
            BY <5>3 DEF Flushed, ControlInv, Locks, RuntimeHeld, UpdateHeld
          <6> QED
            BY <3>1, <3>3, <6>1
        <5> QED
          BY <5>1, <5>2, <5>3
      <4>2. why'[h] = "edit"
        BY <1>0, <3>1, <3>3, OthersStay
      <4> QED
        BY <3>1, <4>1, <4>2 DEF Editing
    <3> QED
      BY <3>2, <3>3
  <2> QED
    BY <2>1, <2>2
<1>4. EntriesCurrent'
  <2>1. CASE replaced' = replaced
    BY <1>0, <2>1 DEF Fresh, EntriesCurrent, Current, Imp
  <2>2. CASE Flushed(t) /\ why[t] = "edit"
    <3>1. pc[t] = "flushed"
      BY <2>2 DEF Flushed
    <3>2. ~Replacing /\ (buckets = Empty \/ occupied = 0)
      BY <2>2, <3>1, HolderAlone DEF UpdateHeld, Fresh, Chosen
    <3>3. CASE buckets = Empty
      BY <1>0, <3>3 DEF EntriesCurrent
    <3>4. CASE buckets # Empty
      <4>1. Cardinality(Used) = 0
        BY <3>2, <3>4 DEF Counted
      <4>2. mask \in Int /\ 0 \in Int
        BY HeapTypes
      <4>3. IsFiniteSet(0 .. mask)
        BY <4>2, FS_Interval
      <4>4. Used \in SUBSET (0 .. mask)
        BY DEF Used
      <4>5. IsFiniteSet(Used)
        BY <4>3, <4>4, FS_Subset
      <4>6. Used = {}
        BY <4>1, <4>5, FS_EmptySet
      <4>7. CapacityOf(buckets) = mask + 1
        BY <3>2, <3>4 DEF HeapInv, MaskFits, Settled
      <4>8. DOMAIN heap[buckets] = 0 .. mask
        BY <3>4, <4>7, HeapTypes
      <4> QED
        BY <1>0, <4>6, <4>8 DEF EntriesCurrent, Used
    <3> QED
      BY <3>3, <3>4
  <2>3. replaced' = replaced \/ (Flushed(t) /\ why[t] = "edit")
    BY DEF Flushed, CollectALot
  <2> QED
    BY <2>1, <2>2, <2>3
<1> QED
  BY <1>1, <1>2, <1>3, <1>4 DEF Fresh

\* A send starts with what its selector may mean, and an edit adds to that.
LEMMA BeginFresh ==
  ASSUME ControlInv, HeapInv, Fresh, NEW t \in Threads,
         \/ \E s \in Sels : objc_msgSend(t, s) \/ method_setImplementation(t, s)
         \/ objc_flush_caches(t)
  PROVE  Fresh'
<1>0. Move(t) /\ pc[t] = "idle" /\ UNCHANGED cache /\ why[t] = "none"
  BY DEF Move, objc_msgSend, method_setImplementation, objc_flush_caches, ControlInv, Busy
<1>1. CASE objc_flush_caches(t)
  <2>1. /\ UNCHANGED table /\ pc'[t] = "flush" /\ why'[t] = "flushAll" /\ runtimeLock = NoThread
        /\ runtimeLock' = t
    BY <1>1, HeapTypes DEF objc_flush_caches
  <2>2. Editing'
    BY <2>1, MethodCacheAssumption DEF Fresh, Editing
  <2>3. EntriesCurrent'
    BY <1>0, <2>1 DEF Fresh, EntriesCurrent, Current, Imp
  <2>4. Meaning(t)' /\ Seen(t)' /\ Chosen(t)'
    BY <2>1 DEF Meaning, Seen, Chosen, Sending
  <2> QED
    BY <1>0, <2>1, <2>2, <2>3, <2>4, OthersFresh DEF Fresh
<1>2. ASSUME NEW s \in Sels, objc_msgSend(t, s) PROVE Fresh'
  <2>1. /\ UNCHANGED <<table, runtimeLock>> /\ pc'[t] = "mask" /\ why' = [why EXCEPT ![t] = "send"]
        /\ sel'[t] = s /\ valid'[t] = Current(s)
    BY <1>2, HeapTypes DEF objc_msgSend, ControlInv, Current
  <2>2. Editing'
    BY <1>0, <2>1, HeapTypes DEF Fresh, Editing
  <2>3. EntriesCurrent'
    BY <1>0, <2>1 DEF Fresh, EntriesCurrent, Current, Imp
  <2>4. Meaning(t)'
    BY <2>1, HeapTypes DEF Meaning, Current, Imp
  <2>5. Seen(t)' /\ Chosen(t)'
    BY <2>1 DEF Seen, Chosen
  <2> QED
    BY <1>0, <2>1, <2>2, <2>3, <2>4, <2>5, OthersFresh DEF Fresh
<1>3. ASSUME NEW s \in Sels, method_setImplementation(t, s) PROVE Fresh'
  <2>1. /\ runtimeLock = NoThread /\ runtimeLock' = t /\ pc'[t] = "flush" /\ why'[t] = "edit"
        /\ replaced' = {Imp(s, methods[s])}
        /\ methods' = [methods EXCEPT ![s] = edits + 1]
        /\ \A u \in Threads : valid'[u] = IF sel[u] = s THEN valid[u] \cup {Imp(s, edits + 1)}
                                          ELSE valid[u]
    BY <1>3, HeapTypes DEF method_setImplementation
  <2>2. replaced = {}
    BY <2>1, MethodCacheAssumption DEF Fresh, Editing
  <2>3. Editing'
    BY <2>1 DEF Editing
  <2>4. /\ methods'[s] = edits + 1
        /\ \A x \in Sels : x # s => methods'[x] = methods[x]
    BY <2>1 DEF ControlInv
  <2>5. \A x \in Sels : /\ Current(x) = {Imp(x, methods[x])}
                       /\ Current(x)' = IF x = s THEN {Imp(s, edits + 1), Imp(s, methods[s])}
                                        ELSE Current(x)
    BY <2>1, <2>2, <2>4 DEF Current, Imp
  <2>6. EntriesCurrent'
    <3> SUFFICES ASSUME buckets # Empty, NEW i \in DOMAIN heap[buckets],
                        heap[buckets][i].key # NoSel
                 PROVE  heap[buckets][i].imp \in
                          {Imp(heap[buckets][i].key, methods'[heap[buckets][i].key])}
                            \cup {r \in replaced' : r[1] = heap[buckets][i].key}
      BY <1>0 DEF EntriesCurrent, Current, Imp
    <3>1. heap[buckets][i].key \in Sels
      BY HeapTypes DEF HeapInv, HeapShape, Bucket
    <3>2. heap[buckets][i].imp = Imp(heap[buckets][i].key, methods[heap[buckets][i].key])
      BY <2>5, <3>1 DEF Fresh, EntriesCurrent
    <3> QED
      BY <2>1, <2>4, <3>1, <3>2 DEF Imp
  <2>7. Meaning(t)' /\ Seen(t)' /\ Chosen(t)'
    BY <2>1 DEF Meaning, Seen, Chosen, Sending
  <2>8. ASSUME NEW u \in Threads, u # t PROVE Meaning(u)' /\ Seen(u)' /\ Chosen(u)'
    <3>1. /\ pc'[u] = pc[u] /\ why'[u] = why[u] /\ sel'[u] = sel[u]
          /\ got'[u] = got[u] /\ at'[u] = at[u] /\ valid[u] \subseteq valid'[u]
      BY <1>0, <2>8, OthersStay
    <3>2. Meaning(u) /\ Seen(u) /\ Chosen(u)
      BY DEF Fresh
    <3>3. Seen(u)'
      BY <1>0, <3>1, <3>2 DEF Seen
    <3>4. Chosen(u)'
      BY <1>0, <3>1, <3>2 DEF Chosen, Probe, FreeProbes
    <3>5. why[u] = "lookup" => pc[u] = "done"
      <4>1. ~RuntimeHeld(u)
        BY <2>1, MethodCacheAssumption DEF ControlInv, Locks
      <4> QED
        BY <4>1, HeapTypes DEF RuntimeHeld, ControlInv, Busy, PCs, UpdateHeld
    <3>6. pc[u] \in Sending \/ why[u] = "lookup" => sel[u] \in Sels
      BY DEF ControlInv, Busy
    <3>7. pc[u] \in Sending \/ why[u] = "lookup" => Current(sel[u])' \subseteq valid'[u]
      <4> SUFFICES ASSUME pc[u] \in Sending \/ why[u] = "lookup"
                   PROVE  Current(sel[u])' \subseteq valid'[u]
        OBVIOUS
      <4>1. Imp(sel[u], methods[sel[u]]) \in valid[u]
        BY <3>2 DEF Meaning, Current
      <4>2. Imp(sel[u], methods'[sel[u]]) \in valid'[u]
        BY <2>1, <2>4, <3>1, <3>6, <4>1
      <4>3. sel[u] = s => Imp(s, methods[s]) \in valid'[u]
        BY <3>1, <4>1
      <4> QED
        BY <2>1, <3>1, <3>6, <4>2, <4>3 DEF Current, Imp
    <3>8. Meaning(u)'
      BY <3>1, <3>2, <3>5, <3>7 DEF Meaning
    <3> QED
      BY <3>3, <3>4, <3>8
  <2> QED
    BY <2>3, <2>6, <2>7, <2>8 DEF Fresh
<1> QED
  BY <1>1, <1>2, <1>3
-----------------------------------------------------------------------------
\* The meaning of the entries, in every reachable state.
LEMMA FreshCorrect == Spec => [](Counted /\ Fresh)
<1>1. /\ ControlInv /\ HeapInv /\ Target /\ Counted /\ Fresh /\ [Next]_vars
      => Counted' /\ Fresh'
  <2> SUFFICES ASSUME ControlInv, HeapInv, Target, Counted, Fresh, [Next]_vars
               PROVE  Counted' /\ Fresh'
    OBVIOUS
  <2>1. CASE UNCHANGED vars
    <3>1. Counted'
      BY <2>1 DEF vars, Counted, Replacing, Used, capacity
    <3>2. Editing' /\ EntriesCurrent'
      BY <2>1 DEF vars, Fresh, Editing, EntriesCurrent, Current, Imp
    <3>3. ASSUME NEW t \in Threads PROVE Meaning(t)' /\ Seen(t)' /\ Chosen(t)'
      <4>1. Meaning(t) /\ Seen(t) /\ Chosen(t)
        BY DEF Fresh
      <4>2. Meaning(t)'
        BY <2>1, <4>1 DEF vars, Meaning, Current, Imp
      <4>3. Seen(t)'
        BY <2>1, <4>1 DEF vars, Seen
      <4>4. Chosen(t)'
        BY <2>1, <4>1 DEF vars, Chosen, Probe, FreeProbes
      <4> QED
        BY <4>2, <4>3, <4>4
    <3> QED
      BY <3>1, <3>2, <3>3 DEF Fresh
  <2>2. ASSUME NEW t \in Threads, Move(t) PROVE Counted' /\ Fresh'
    <3>1. Counted'
      BY <2>2, CountedStep
    <3>2. Fresh'
      BY <2>2, BeginFresh, ReadFresh, LookUpFresh, cache_fillFresh, QuietArrayFresh,
         CollectFreeFresh, SetImpFresh, SetKeyFresh, EraseFresh, FlushedFresh
         DEF Move, Step, Fill, Flush
    <3> QED
      BY <3>1, <3>2
  <2>3. Next => \E t \in Threads : Move(t)
    BY DEF Next, Move
  <2> QED
    BY <2>1, <2>2, <2>3
<1> QED
  BY <1>1, InitFresh, HeapCorrect, PTL DEF Spec

\* objc_msgSend ends in an implementation its selector had at some moment of the
\* send, for any number of threads sending, filling, editing and flushing: the
\* caches of replaced implementations are empty before the edit ends.
THEOREM SendsAreCurrent == Spec => []DispatchIsCurrent
<1>1. Fresh => DispatchIsCurrent
  BY DEF Fresh, Meaning, DispatchIsCurrent
<1> QED
  BY <1>1, FreshCorrect, PTL

\* No bucket array is lost, freed twice or freed in use, and cache_t::find always
\* has an empty bucket to end at: bad_cache is never called.
THEOREM BucketArraysSound == Spec => []ArraysSound
<1>1. ControlInv /\ HeapInv /\ Counted => ArraysSound
  <2> SUFFICES ASSUME ControlInv, HeapInv, Counted PROVE ArraysAccounted /\ RoomLeft
    BY DEF ArraysSound
  <2>1. ArraysAccounted
    BY DEF HeapInv, Arrays
  <2>2. RoomLeft
    BY UnlockedHeap DEF RoomLeft, Counted, Used
  <2> QED
    BY <2>1, <2>2
<1> QED
  BY <1>1, HeapCorrect, FreshCorrect, PTL
=============================================================================
