---------------------------- MODULE MethodCache ----------------------------
(***************************************************************************)
(* The method cache of one class (objc-cache.mm): objc_msgSend and         *)
(* cache_getImp read it without a lock, one machine access at a time (the  *)
(* x86_64 messenger: mask, then buckets, then the selectors of the         *)
(* buckets, then the implementation; the two comparisons with a bucket's   *)
(* selector are one step, between them a bucket could only be filled, and  *)
(* the scan would pass it by), while cache_fill and flushCaches            *)
(* replace the bucket array under cacheUpdateLock and free old arrays only *)
(* after looking at the program counter of every other thread, one by one. *)
(*                                                                         *)
(* A cache miss runs the part of lookUpImpOrForward that a class without   *)
(* superclass needs; the class is initialized.  MessageLookup models the   *)
(* rest.  Stores are seen in program order (x86, and mega_barrier).        *)
(***************************************************************************)
EXTENDS Integers, FiniteSets, FiniteSetsExt

CONSTANTS
  Threads,
  Sels,               \* selectors the class implements
  hash,               \* hash[s]: the selector's address, as cache_hash sees it
  NoThread, NoSel, NoImp,
  INIT_CACHE_SIZE,
  garbage_threshold,  \* in buckets
  MaxSends, MaxEdits, MaxFlushes

ASSUME MethodCacheAssumption ==
  /\ NoThread \notin Threads
  /\ NoSel \notin Sels
  /\ hash \in [Sels -> Nat]
  /\ INIT_CACHE_SIZE \in Nat /\ INIT_CACHE_SIZE >= 4
  /\ {garbage_threshold, MaxSends, MaxEdits, MaxFlushes} \subseteq Nat

VARIABLES
  heap,         \* the bucket arrays that are allocated, by address
  buckets, mask, occupied,   \* the fields of cache_t
  garbage,      \* garbage_refs
  methods,      \* the implementation in the method list, per selector
  replaced,     \* the implementation that a method edit in progress replaced
  runtimeLock, cacheUpdateLock,
  pc,
  sel,          \* per thread: _cmd
  m,            \* per thread: the mask the messenger read
  at,           \* per thread: address of the bucket it looks at
  wrapped,      \* per thread: the scan passed the end marker
  got,          \* per thread: the implementation found
  valid,        \* per thread: what _cmd has meant since the send began
  why,          \* per thread: the operation it is in
  old,          \* per thread: the array that is being replaced
  left,         \* per thread: threads whose pc is still to be looked at
  sends, edits, flushes

reader == <<sel, m, at, wrapped, got, valid>>
cache == <<heap, buckets, mask, occupied, garbage>>
table == <<methods, replaced>>
locks == <<runtimeLock, cacheUpdateLock>>
counts == <<sends, edits, flushes>>
vars == <<cache, table, locks, pc, reader, why, old, left, counts>>

Empty == 0   \* &_objc_empty_cache

\* The n-th implementation of selector s.
Imp(s, n) == <<s, n>>

Zero == [key |-> NoSel, imp |-> NoImp]

Init ==
  /\ heap = [a \in {} |-> Zero]
  /\ buckets = Empty /\ mask = 0 /\ occupied = 0
  /\ garbage = {}
  /\ methods = [s \in Sels |-> 0]
  /\ replaced = {}
  /\ runtimeLock = NoThread /\ cacheUpdateLock = NoThread
  /\ pc = [t \in Threads |-> "idle"]
  /\ sel = [t \in Threads |-> NoSel]
  /\ m = [t \in Threads |-> 0]
  /\ at = [t \in Threads |-> <<Empty, 0>>]
  /\ wrapped = [t \in Threads |-> FALSE]
  /\ got = [t \in Threads |-> NoImp]
  /\ valid = [t \in Threads |-> {}]
  /\ why = [t \in Threads |-> "none"]
  /\ old = [t \in Threads |-> Empty]
  /\ left = [t \in Threads |-> {}]
  /\ sends = 0 /\ edits = 0 /\ flushes = 0
-----------------------------------------------------------------------------
Goto(t, p) == pc' = [pc EXCEPT ![t] = p]

CapacityOf(a) == Cardinality(DOMAIN heap[a])
capacity == IF mask = 0 THEN 0 ELSE mask + 1
cache_hash(s, msk) == hash[s] % (msk + 1)

\* What a bucket of array a holds; the constant empty cache is all zeros.
At(a, i) == IF a = Empty THEN Zero ELSE heap[a][i]

\* The bucket after the last one carries key 1 and the array's address.
AtEndMarker(t) == at[t][1] # Empty /\ at[t][2] = CapacityOf(at[t][1])

isConstantEmptyCache == occupied = 0 /\ buckets = Empty

\* cache_getImp by the holder of a lock that keeps others from writing.
Entries == IF buckets = Empty THEN {} ELSE {heap[buckets][i] : i \in 0 .. mask}
Cached(s) == \E b \in Entries : b.key = s
CachedImp(s) == (CHOOSE b \in Entries : b.key = s).imp
-----------------------------------------------------------------------------
(* The reader: objc_msgSend. *)

\* Mutant of InCritical: takes the jump to the implementation for harmless.
InCritical_NotJump == {"mask", "buckets", "scan"}

\* While the pc is here collecting_in_critical sees the thread.
InCritical == {"mask", "buckets", "scan", "imp"}

objc_msgSend(t, s) ==
  /\ pc[t] = "idle"
  /\ sends < MaxSends
  /\ sends' = sends + 1
  /\ sel' = [sel EXCEPT ![t] = s]
  /\ why' = [why EXCEPT ![t] = "send"]
  /\ valid' = [valid EXCEPT ![t] = {Imp(s, methods[s])} \cup
                                   {i \in replaced : i[1] = s}]
  /\ Goto(t, "mask")
  /\ UNCHANGED <<cache, table, locks, m, at, wrapped, got, old, left, edits, flushes>>

\* andl  24(%r10), %r11d
ReadMask(t) ==
  /\ pc[t] = "mask"
  /\ m' = [m EXCEPT ![t] = mask]
  /\ Goto(t, "buckets")
  /\ UNCHANGED <<cache, table, locks, sel, at, wrapped, got, valid, why, old, left, counts>>

\* addq  16(%r10), %r11
ReadBuckets(t) ==
  /\ pc[t] = "buckets"
  /\ at' = [at EXCEPT ![t] = <<buckets, cache_hash(sel[t], m[t])>>]
  /\ wrapped' = [wrapped EXCEPT ![t] = FALSE]
  /\ Goto(t, "scan")
  /\ UNCHANGED <<cache, table, locks, sel, m, got, valid, why, old, left, counts>>

Miss(t) == /\ Goto(t, "uncached")
           /\ at' = [at EXCEPT ![t] = <<Empty, 0>>]
           /\ m' = [m EXCEPT ![t] = 0]
           /\ wrapped' = [wrapped EXCEPT ![t] = FALSE]

\* One round of CacheLookup: hit, empty bucket, end marker or next bucket.
Scan(t) ==
  /\ pc[t] = "scan"
  /\ LET a == at[t][1]
         i == at[t][2]
     IN \/ /\ AtEndMarker(t)
           /\ IF wrapped[t] THEN Miss(t)
              ELSE /\ at' = [at EXCEPT ![t] = <<a, 0>>]
                   /\ wrapped' = [wrapped EXCEPT ![t] = TRUE]
                   /\ UNCHANGED <<pc, m>>
        \/ /\ ~AtEndMarker(t)
           /\ At(a, i).key = NoSel
           /\ Miss(t)
        \/ /\ ~AtEndMarker(t)
           /\ At(a, i).key = sel[t]
           /\ Goto(t, "imp")
           /\ UNCHANGED <<at, wrapped, m>>
        \/ /\ ~AtEndMarker(t)
           /\ At(a, i).key \notin {sel[t], NoSel}
           /\ at' = [at EXCEPT ![t] = <<a, i + 1>>]
           /\ UNCHANGED <<pc, wrapped, m>>
  /\ UNCHANGED <<cache, table, locks, sel, got, valid, why, old, left, counts>>

\* jmp *cached_imp(%r11)
CacheHit(t) ==
  /\ pc[t] = "imp"
  /\ got' = [got EXCEPT ![t] = At(at[t][1], at[t][2]).imp]
  /\ Goto(t, "done")
  /\ at' = [at EXCEPT ![t] = <<Empty, 0>>]
  /\ m' = [m EXCEPT ![t] = 0]
  /\ wrapped' = [wrapped EXCEPT ![t] = FALSE]
  /\ UNCHANGED <<cache, table, locks, sel, valid, why, old, left, counts>>

\* The implementation runs; the call is over for the runtime.
Dispatched(t) ==
  /\ pc[t] = "done"
  /\ Goto(t, "idle")
  /\ sel' = [sel EXCEPT ![t] = NoSel]
  /\ got' = [got EXCEPT ![t] = NoImp]
  /\ valid' = [valid EXCEPT ![t] = {}]
  /\ why' = [why EXCEPT ![t] = "none"]
  /\ UNCHANGED <<cache, table, locks, m, at, wrapped, old, left, counts>>

Read(t) == ReadMask(t) \/ ReadBuckets(t) \/ Scan(t) \/ CacheHit(t) \/ Dispatched(t)
-----------------------------------------------------------------------------
(* The slow path: lookUpImpOrForward. *)

\* Take runtimeLock, look into the cache again (it can only change under this
\* lock, and is no garbage), then "Try this class's method lists."
LookUp(t) ==
  /\ pc[t] = "uncached"
  /\ runtimeLock = NoThread
  /\ runtimeLock' = t
  /\ IF Cached(sel[t])
     THEN got' = [got EXCEPT ![t] = CachedImp(sel[t])] /\ Goto(t, "found")
     ELSE got' = [got EXCEPT ![t] = Imp(sel[t], methods[sel[t]])] /\ Goto(t, "fill")
  /\ why' = [why EXCEPT ![t] = "lookup"]
  /\ UNCHANGED <<cache, table, cacheUpdateLock, sel, m, at, wrapped, valid, old, left,
                 counts>>

\* done: runtimeLock.unlock()
Found(t) ==
  /\ pc[t] = "found"
  /\ runtimeLock' = NoThread
  /\ Goto(t, "done")
  /\ UNCHANGED <<cache, table, cacheUpdateLock, reader, why, old, left, counts>>
-----------------------------------------------------------------------------
(* Replacing the array: reallocate, cache_erase_nolock. *)

NewAddress == CHOOSE a \in 1 .. Cardinality(DOMAIN heap) + 1 : a \notin DOMAIN heap

allocateBuckets(a, cap) ==
  heap' = [b \in DOMAIN heap \cup {a} |->
             IF b = a THEN [i \in 0 .. cap - 1 |-> Zero] ELSE heap[b]]

\* _buckets = newBuckets, the first half of setBucketsAndMask; the old array
\* is garbage unless it is the constant empty one (canBeFreed).
reallocate(t, cap) ==
  /\ allocateBuckets(NewAddress, cap)
  /\ buckets' = NewAddress
  /\ old' = [old EXCEPT ![t] = buckets]
  /\ Goto(t, "setMask")
  /\ UNCHANGED <<mask, occupied, garbage>>

\* "Use the cache as-is if it is less than 3/4 full"
HasRoom == occupied + 1 <= (capacity \div 4) * 3

\* cache_fill_nolock up to the choice of the array, with cacheUpdateLock taken.
\* The mask is as wide as the capacity needs here, so expand always doubles.
cache_fill(t) ==
  /\ pc[t] = "fill"
  /\ cacheUpdateLock = NoThread
  /\ IF Cached(sel[t])
     THEN Goto(t, "found") /\ UNCHANGED <<cache, old, cacheUpdateLock>>
     ELSE /\ cacheUpdateLock' = t
          /\ IF isConstantEmptyCache
             THEN reallocate(t, IF capacity = 0 THEN INIT_CACHE_SIZE ELSE capacity)
             ELSE IF HasRoom
             THEN Goto(t, "setImp") /\ UNCHANGED <<cache, old>>
             ELSE reallocate(t, 2 * capacity)
  /\ UNCHANGED <<table, runtimeLock, reader, why, left, counts>>

ByteSize(g) == MapThenSumSet(LAMBDA a : CapacityOf(a) + 1, g)

\* Where setBucketsAndMask and the collection return to.
After(t) == IF why[t] = "lookup" THEN "setImp" ELSE "flushed"

\* Mutant of Discarded: cache_erase_nolock does not collect the old array.
Discarded_NotErased(a) == IF buckets = Empty THEN {} ELSE {a}

\* cache_collect_free, unless the array is the constant empty one (canBeFreed).
Discarded(a) == {a} \ {Empty}

\* The second half of setBucketsAndMask, then cache_collect_free and the
\* threshold test of cache_collect(false).
SetMask(t) ==
  /\ pc[t] = "setMask"
  /\ mask' = (IF buckets = Empty THEN mask ELSE CapacityOf(buckets) - 1)
  /\ occupied' = 0
  /\ garbage' = garbage \cup Discarded(old[t])
  /\ IF old[t] # Empty /\ ByteSize(garbage') >= garbage_threshold
     THEN Goto(t, "collect") /\ left' = [left EXCEPT ![t] = Threads \ {t}]
     ELSE Goto(t, After(t)) /\ UNCHANGED left
  /\ old' = [old EXCEPT ![t] = Empty]
  /\ UNCHANGED <<heap, buckets, table, locks, reader, why, counts>>

\* collecting_in_critical looks at the next thread.  If that one is reading a
\* cache, cache_collect(false) gives up and cache_collect(true) starts over.
CollectLook(t) ==
  /\ pc[t] = "collect"
  /\ \E u \in left[t] :
       IF pc[u] \in InCritical
       THEN IF why[t] = "collectALot"
            THEN left' = [left EXCEPT ![t] = Threads \ {t}] /\ UNCHANGED pc
            ELSE left' = [left EXCEPT ![t] = {}] /\ Goto(t, After(t))
       ELSE left' = [left EXCEPT ![t] = @ \ {u}] /\ UNCHANGED pc
  /\ UNCHANGED <<cache, table, locks, reader, why, old, counts>>

\* Nobody was seen: "Dispose all refs now in the garbage".
CollectFree(t) ==
  /\ pc[t] = "collect"
  /\ left[t] = {}
  /\ heap' = [a \in DOMAIN heap \ garbage |-> heap[a]]
  /\ garbage' = {}
  /\ Goto(t, After(t))
  /\ UNCHANGED <<buckets, mask, occupied, table, locks, reader, why, old, left, counts>>

\* cache_t::find for the writer: the first bucket free from the hash on.
Probe(s, k) == (hash[s] + k) % (mask + 1)
FreeProbes(s) == {k \in 0 .. mask : heap[buckets][Probe(s, k)].key = NoSel}

\* bucket_t::set, first half: _imp = newImp.  bad_cache when no bucket is free.
SetImp(t) ==
  /\ pc[t] = "setImp"
  /\ IF FreeProbes(sel[t]) = {} THEN Goto(t, "bad_cache") /\ UNCHANGED heap
     ELSE /\ heap' = [heap EXCEPT
                        ![buckets][Probe(sel[t], Min(FreeProbes(sel[t])))].imp = got[t]]
          /\ Goto(t, "setKey")
  /\ UNCHANGED <<buckets, mask, occupied, garbage, table, locks, reader, why, old,
                 left, counts>>

\* Second half: _key = newKey; then both locks are released.
SetKey(t) ==
  /\ pc[t] = "setKey"
  /\ heap' = [heap EXCEPT
                ![buckets][Probe(sel[t], Min(FreeProbes(sel[t])))].key = sel[t]]
  /\ occupied' = occupied + 1
  /\ cacheUpdateLock' = NoThread
  /\ Goto(t, "found")
  /\ UNCHANGED <<buckets, mask, garbage, table, runtimeLock, reader, why, old, left,
                 counts>>

Fill(t) == \/ LookUp(t) \/ Found(t) \/ cache_fill(t) \/ SetMask(t)
           \/ CollectLook(t) \/ CollectFree(t) \/ SetImp(t) \/ SetKey(t)
-----------------------------------------------------------------------------
(* Method edits and explicit flushes. *)

\* method_setImplementation: runtimeLock, then m->imp = imp.
method_setImplementation(t, s) ==
  /\ pc[t] = "idle"
  /\ edits < MaxEdits
  /\ runtimeLock = NoThread
  /\ edits' = edits + 1
  /\ runtimeLock' = t
  /\ replaced' = {Imp(s, methods[s])}
  /\ methods' = [methods EXCEPT ![s] = edits + 1]
  /\ valid' = [u \in Threads |->
                 IF sel[u] = s THEN valid[u] \cup {Imp(s, edits + 1)} ELSE valid[u]]
  /\ why' = [why EXCEPT ![t] = "edit"]
  /\ Goto(t, "flush")
  /\ UNCHANGED <<cache, cacheUpdateLock, sel, m, at, wrapped, got, old, left,
                 sends, flushes>>

\* _objc_flush_caches(nil)
objc_flush_caches(t) ==
  /\ pc[t] = "idle"
  /\ flushes < MaxFlushes
  /\ runtimeLock = NoThread
  /\ flushes' = flushes + 1
  /\ runtimeLock' = t
  /\ why' = [why EXCEPT ![t] = "flushAll"]
  /\ Goto(t, "flush")
  /\ UNCHANGED <<cache, table, cacheUpdateLock, reader, old, left, sends, edits>>

\* Mutant of NeedsErase: leaves a single entry alone.
NeedsErase_Two == capacity > 0 /\ occupied > 1

NeedsErase == capacity > 0 /\ occupied > 0

\* flushCaches takes cacheUpdateLock; cache_erase_nolock leaves a cache without
\* entries alone and gives any other the constant empty array.
cache_erase_nolock(t) ==
  /\ pc[t] = "flush"
  /\ cacheUpdateLock = NoThread
  /\ cacheUpdateLock' = t
  /\ IF NeedsErase
     THEN /\ buckets' = Empty
          /\ old' = [old EXCEPT ![t] = buckets]
          /\ Goto(t, "setMask")
     ELSE Goto(t, "flushed") /\ UNCHANGED <<buckets, old>>
  /\ UNCHANGED <<heap, mask, occupied, garbage, table, runtimeLock, reader, why,
                 left, counts>>

\* Both locks are released, and the edit is over; _objc_flush_caches goes on.
Flushed(t) ==
  /\ pc[t] = "flushed"
  /\ cacheUpdateLock' = NoThread
  /\ runtimeLock' = (IF why[t] = "collectALot" THEN runtimeLock ELSE NoThread)
  /\ replaced' = (IF why[t] = "edit" THEN {} ELSE replaced)
  /\ IF why[t] = "flushAll"
     THEN Goto(t, "collectAll") /\ UNCHANGED why
     ELSE Goto(t, "idle") /\ why' = [why EXCEPT ![t] = "none"]
  /\ UNCHANGED <<cache, methods, reader, old, left, counts>>

\* cache_collect(true)
CollectALot(t) ==
  /\ pc[t] = "collectAll"
  /\ cacheUpdateLock = NoThread
  /\ cacheUpdateLock' = t
  /\ why' = [why EXCEPT ![t] = "collectALot"]
  /\ left' = [left EXCEPT ![t] = Threads \ {t}]
  /\ Goto(t, "collect")
  /\ UNCHANGED <<cache, table, runtimeLock, reader, old, counts>>

Flush(t) == cache_erase_nolock(t) \/ Flushed(t) \/ CollectALot(t)
-----------------------------------------------------------------------------
Step(t) == Read(t) \/ Fill(t) \/ Flush(t)

Next == \E t \in Threads : \/ \E s \in Sels : objc_msgSend(t, s)
                           \/ \E s \in Sels : method_setImplementation(t, s)
                           \/ objc_flush_caches(t)
                           \/ Step(t)

Spec == Init /\ [][Next]_vars
-----------------------------------------------------------------------------
(* Properties *)

\* A reader that holds the address of a bucket holds one inside an array that
\* is still allocated: arrays never shrink under a mask already read, and
\* cache_collect frees nothing that a messenger can still reach.
NoWildRead ==
  \A t \in Threads : pc[t] \in {"scan", "imp"} /\ at[t][1] # Empty =>
    /\ at[t][1] \in DOMAIN heap
    /\ at[t][2] <= CapacityOf(at[t][1])

\* objc_msgSend ends in an implementation the selector had at some moment of
\* the send: never another selector's, never nil, never one that an edit
\* replaced before the send began.
DispatchIsCurrent ==
  \A t \in Threads : pc[t] = "done" => got[t] \in valid[t]

\* Every array is in use, in the garbage or being replaced, and only one of
\* these: none leaks and none is freed twice or while in use.
ArraysAccounted ==
  /\ DOMAIN heap = ({buckets} \ {Empty}) \cup garbage
                     \cup ({old[t] : t \in Threads} \ {Empty})
  /\ buckets \notin garbage
  /\ \A t \in Threads : old[t] # Empty => old[t] \notin garbage \cup {buckets}

\* "There is guaranteed to be an empty slot": cache_t::find never calls
\* bad_cache, and between fills occupied counts the buckets in use.
RoomLeft ==
  /\ \A t \in Threads : pc[t] # "bad_cache"
  /\ cacheUpdateLock = NoThread =>
       /\ (buckets = Empty => occupied = 0)
       /\ (buckets # Empty =>
             /\ occupied = Cardinality({i \in 0 .. mask : heap[buckets][i].key # NoSel})
             /\ occupied <= (capacity \div 4) * 3)

\* The bucket arrays are neither lost nor overfilled.
ArraysSound == ArraysAccounted /\ RoomLeft
=============================================================================
