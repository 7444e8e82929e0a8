# A TLA+ model of the Objective-C runtime (objc4-750)

This directory models the concurrent and re-entrant core of the runtime in
`src/runtime`: reference counting, weak references, autorelease pools,
`+initialize`, `@synchronized`, method caches, message lookup with categories and
method edits, `+load`, associated objects and property accessors. Every module is written from the source of
the modern runtime (`__OBJC2__`, `SUPPORT_NONPOINTER_ISA`); the TLC runs check
small instances, and the `...Proofs` modules prove nearly all of their safety properties
and both refinements for every value of the constants.

## 1. The system

The repository holds the runtime (`src/runtime`, about 56,000 lines), its tests
(`src/test`), a sample client (`src/debug-objc`) and third-party trees kept for
reading (`xnu-1228.0.2`, `RuntimeLoop`, `dyld`, `include`, `libSystem`). Only the
runtime is the program. Its parts:

| Part | State | Operations | What makes it hard | What makes it correct |
|---|---|---|---|---|
| Reference counting (`objc-object.h`, `NSObject.mm`) | the isa word with its inline count; an entry in a striped `SideTable` | retain, release, tryRetain, changeIsa, dealloc | one count split over a lock-free word and a locked table; a half moves between them in two steps; the isa may turn raw meanwhile | the object dies exactly when its last reference goes; nothing touches it afterwards |
| Weak references (`NSObject.mm`, `objc-weak.mm`) | the weak variables; per side table a hash table of entries, each a small array or a hash table of referrers | store, init, destroy, load, clear | the variable is read before its lock is known; two locks; `+initialize` in the middle; open addressing without tombstones | a variable is registered with what it holds; none is missed when the object dies; a load never revives |
| Autorelease pools (`NSObject.mm`) | per thread a list of pages and the hot page | push, pop, autorelease, thread exit | a pop releases objects whose `-dealloc` uses the same stack | a pop restores the stack; each autorelease is one release; tokens stay valid |
| `+initialize` (`objc-initialize.mm`) | two flags per class, the classes each thread initializes, pending subclasses, a monitor | the first message to a class | election, waiting, recursion through `+initialize`, fork | once, superclass first, and nobody waits for ever |
| `@synchronized` (`objc-sync.mm`) | striped lists of blocks, a cache per thread | enter, exit | blocks are found by lock-free caches, counted without the lock, and reused for other objects | one recursive lock per object |
| Method caches (`objc-cache.mm`, `Messengers.subproj`) | a bucket array with mask and count per class; the garbage | find, fill, expand, flush, collect | readers take no lock and read word by word; old arrays are freed after a look at every thread's program counter | no read outside an allocated array; the answer was current during the send; arrays are neither lost nor overfilled |
| Message lookup, realization, categories, method editing (`objc-runtime-new.mm`) | method lists, unattached categories, caches, flags | look up, resolve, realize, attach, add, replace, exchange | lazy realization; client code (`+initialize`, resolvers) in the middle; caches filled while lists change | caches agree with the lists; load order decides; no message before `+initialize`; a resolver is not bypassed |
| `+load` and images (`objc-loadmethod.mm`, `objc-runtime-new.mm`) | lists of loadable classes and categories, a flag per class | map, load, unmap, call | `+load` methods map and unmap further images while the lists are worked off | superclass and extended class first; each once; none of an image that is gone |
| Associated objects (`objc-references.mm`), accessors (`objc-accessors.mm`) | a table of tables; ivars; striped locks | set, get, remove, copy | retains before and releases after the lock; a release runs `-dealloc`, which uses the same table; two locks for a struct | every reference is counted once; a getter never revives; freed memory keeps no association that was made in time; nothing torn, nobody stuck |
| Selectors, hash tables, locks and fork handlers, exceptions, trampolines, layouts, encodings | | | | see "What is not modelled" |

How they interact: a weak load ends in `rootTryRetain` and holds the side-table
lock that release also takes before it lets an object die; `rootDealloc` clears
the weak table; storing and loading weak references provoke `+initialize` with
the locks dropped; a pop and a release run client code (`-dealloc`), and so does
`+initialize`. A cache miss in a messenger enters `lookUpImpOrForward`, which
realizes and initializes the class under `runtimeLock` and fills the cache under
`cacheUpdateLock`; edits of method lists flush caches under both locks.
`objc_destructInstance` removes associations and property values. A module that
needs another part takes over what that part's module shows (for instance
`MessageLookup` has `+initialize` as the protocol that `ClassInitialize` checks).

`PROJECT.json` lists each part with its files, and every hazard of the code with
the properties that would show it going wrong.

## 2. Modules

| Module | Models | Notes |
|---|---|---|
| `ObjectLifetime` | what counting promises | the references, acquire and drop, the weak variable, freeing |
| `RefCount` | `objc-object.h`, side-table part of `NSObject.mm` | refines `ObjectLifetime`; `RefCountProofs` |
| `WeakRef` | `storeWeak`, `objc_loadWeakRetained`, `object_setClass`, clearing | composes weak references with `+initialize` and `-dealloc`; the table is a set here; `WeakRefProofs` |
| `WeakTable` | `objc-weak.mm` | the table under the lock, sequential |
| `AutoreleasePool` | `AutoreleasePoolPage` | one thread; `AutoreleasePoolProofs` |
| `ClassInitialize` | `objc-initialize.mm`, the fork handlers as far as they concern it | `ClassInitializeProofs` |
| `RecursiveLocks` | what `@synchronized` promises | one recursive lock per object |
| `ObjcSync` | `objc-sync.mm` | refines `RecursiveLocks`; `ObjcSyncProofs` |
| `MethodCache` | `objc-cache.mm`, the cache lookup of the x86_64 messenger | one class, several selectors; `MethodCacheProofs` |
| `MessageLookup` | `lookUpImpOrForward`, realization, categories, method editing | a hierarchy, one selector; `MessageLookupProofs` |
| `LoadMethods` | `objc-loadmethod.mm`, `load_images`, `unmap_image` | dyld is external |
| `StoredValues` | `objc-references.mm`, `objc-accessors.mm`, `objc_destructInstance` | `StoredValuesProofs` |
| `MC...` | constants of the runs | hash functions, hierarchies, stripes, symmetry |

**RefCount.** `isa` is the isa word as a record of its bit fields and `side` the
object's `refcnts` entry; `old`, `try`, `tok` and `pc` are a thread's locals. One
action is what happens between two accesses to the isa word: `RetainLoad` is the
`LoadExclusive` with the tests that follow it, `RetainStore` the `StoreExclusive`,
`RetainStoreFails` its failure, which with `LLSC` may be spurious. Work under the
side-table lock is one step unless the isa is accessed in between. `owner` is the
clients' bookkeeping (which reference token belongs to which thread); clients
release only what they own, and may use the object only while they own a
reference or run its `-dealloc`. Tagged pointers and the frameless fast path
(which only abandons a load that changed nothing) are left out. The weak store is
`objc_storeWeakOrNil`; `objc_storeWeak` halts where the other stores nil.

**WeakRef.** A thread's calls form a stack, since `+initialize` and `-dealloc` are
client code that may use weak variables. `read`, `lock`, `check` and commit are
the stages of `storeWeak` and `objc_loadWeakRetained`; `LockNext` takes the next
lock in address order. `own` and `life` stand for the reference count and `class`
for the flags of `+initialize`, with the moment between `setHasDefaultRR` and the
flags as a state of its own. A class with its own retain/release has methods that run
under the side-table lock: `-allowsWeakReference` (objc-weak.mm:404-414) and
`-retainWeakReference` (NSObject.mm:497-506). They may refuse (`MayRefuse`); it is
assumed that they use no weak variable, which would take a side table again, and that
they do not revive a deallocating object.

**WeakTable.** Both kinds of open-addressed table (entries, and referrers out of
line) are one record `[slots, num, max]` with `Insert`, `Find`, `Erase` and
`Rehash`. The union of `weak_entry_t` matters at one place, `LooksEmpty`.

**AutoreleasePool.** `pages[i]` is the contents of the page at depth `i - 1`, `tls`
the hot page or the placeholder, and `frames` the client code and the pops it is
in, innermost last. The stack is the function from the slots in use to what they
hold. `ReleaseOne` is one round of `releaseUntil`; it may put a `-dealloc` frame on
top. `PopDone` is what follows the loop, the deletion of pages included. A token
remembers the stack below it (`below`) only for the property `PopRestores`.

**ClassInitialize.** A frame is an activation of `_class_initialize`; `todo` is the
work of `_finishInitializing` under the monitor. `Fork` keeps only the forking
thread, and the marks of the others on classes stay.

**ObjcSync.** `lockCount[t][b]` is the thread's cache (the single-entry and the
array cache behave alike and are not told apart), `threadCount` the shared
count, `mutex` and `depth` the recursive mutex of a block. The walk along a list
takes one step per block, because `threadCount` changes under it. The refinement
mapping computes the abstract lock of an object from the mutex of its block;
`lockCount`, the thread's own idea of it, plays no part in it. The linearisation
point of an exit is inside `id2data`, where the block may already be given up.

**MethodCache.** `heap` holds the allocated bucket arrays by address, so that a
freed address can be used again; `buckets`, `mask` and `occupied` are the fields of
`cache_t`. A reader performs one access per step: `ReadMask`, `ReadBuckets`, `Scan`
for each bucket, `CacheHit`. `Scan` merges the two comparisons with a bucket's selector
(objc-msg-x86_64.s:302 and 312, 317 and 337): were the bucket filled between them, the
scan would pass it by and at worst miss. `reallocate` and `SetMask` are the two stores of
`setBucketsAndMask`, `SetImp` and `SetKey` those of `bucket_t::set`. `CollectLook`
looks at one thread's program counter. `valid` remembers, for the property
`DispatchIsCurrent` only, what the selector has meant since the send began. Stores
are seen in program order, as on x86; the barriers in the code give the same on
arm64 for the writers.

**MessageLookup.** A thread's calls form a stack of lookups, edits and client
methods. `lists` are the method lists that contain the one selector, the first one
wins; `cache` is what a class's cache answers for it. `SlowPath` is the part up to
the call of `_class_initialize`, `Search` the part from `retry:` on, `Fill` the cache
fill and the unlock. An edit holds `runtimeLock` from its change until `flushCaches`
has visited every class it must. `arrived` records, for `LoadOrderWins`, the order
in which categories and methods came. The constant `chain` gives each class its
superclasses in order, as the loop over `curClass->superclass` meets them; the
assumption that it follows `superclass` and is finite is the code's "Halt if there is
a cycle in the superclass chain".

**LoadMethods.** `detached` is the local list that `call_class_loads` and
`call_category_loads` work through, `running` the `+load` that executes; meanwhile
client actions may map and unmap images. `loadMethodLock` is recursive and held by
the outermost `load_images`, so one thread is enough. The constant
`UnmapDetached` says whether an image may go while entries of it are in `detached`.
dyld maps an image after those it links against and unmaps it when nothing
mapped links against it.

**StoredValues.** A frame names the locks to take, the critical section, the values
to release afterwards, and what follows. `Acquire` is retain or copy (a copy is the
same object or a new one at a free address), `Swap` the critical section of every
setter, `Read` that of every getter. Client code is what runs outside all frames, in
`-dealloc` methods, in C++ destructors (pc `"cxx"`) and in a `copyHelper`, which
`objc_copyCppObjectAtomic` calls with both `CppObjectLocks` held (`Helping`); all of it
may call everything again, within the bound `MaxCalls`. An object is usable to the
threads that own it and to the thread that deallocates it, until its memory is freed:
from its `-dealloc`, its destructors, and the `-dealloc` methods of the values that are
released with it. `objc_destructInstance` reads `has_assoc` before the destructors run
and acts on what it read. `tables` are the objects that have a table of associations,
since only making the table sets the bit (`NewTable`). `late` is a history variable for
`NothingLeftBehind`: the addresses where a table was made after the bit was read clear,
or after the removal; the code leaves these behind (section 4).

What is assumed of clients: nonatomic properties are used by one thread, as their
contract demands, and properties are not used once `.cxx_destruct` has released them.
A class's own `-retain`, which getters call under the lock (objc-references.mm:246,
objc-accessors.mm:60), counts and does nothing else. A `copyHelper` does not copy
another atomic C++ property: it would lock further stripes without regard to the order.

## 3. Runs

| Run | Config | Shows |
|---|---|---|
| `refcount` | 3 threads, 4 references, `RC_HALF` 1, 6 calls | dealloc at the last release and not before, no use after free, an exact count, the side-table asserts |
| `refcount_live` | 2 threads, 3 references, 4 calls | every call returns and the object is freed (`Progress`), the isa is monotone, `ObjectLifetime` is implemented |
| `weakref` | 2 threads, 2 objects in 2 side tables, 2 classes, one with custom retain/release (the objects may change class), a shared and a private variable, 4 calls nested 3 deep | registration is exact, a dead object stays dead, classes of weakly referenced objects are initialized, no side table takes part in a deadlock, if the client methods that run under its lock use no weak variable |
| `weak_table` | 3 colliding objects, 5 variables | the entry lists what holds the object; everything stays findable, no error report, empty inline entries go |
| `autorelease` | pages of 2 slots, 7 calls, 3 levels of `-dealloc`, all debug options | a pop restores the stack, no release is lost, tokens stay valid and pages are reclaimed, the `while` can be `if` |
| `initialize` | 2 threads, a chain of 4 classes, 5 messages, fork at any time | superclass first, once, no fatal error, every message returns and every class ends up initialized |
| `sync` | 3 threads, 2 objects in one stripe, unbalanced exits too | the blocks' bookkeeping, calls return, `RecursiveLocks` is implemented |
| `method_cache` | 2 threads, 4 colliding selectors, 5 sends, an edit, a flush | no wild read, dispatch is current, arrays are accounted for and have room |
| `lookup` | 2 threads, a class and a subclass with a resolver, 2 categories, 3 sends, an edit, 4 frames | caches are coherent, load order wins, no early message, the resolver wins |
| `load` | 4 images, 5 classes, 4 categories, 3 unmaps, none of an image in the detached list | parents first, exactly once, no stale call |
| `load_unmap` | the same, an image in the detached list may go | the finding below (expected violation of `NoStaleCall`) |
| `stored_values` | 2 threads, a host, a value and free memory, struct and C++ variables, 3 calls, nested or not | references exact, no use after free, nothing left behind but late associations, no torn struct, calls return |

**Bounds.** `RC_HALF` = 1 makes the inline count one bit, so the third reference
overflows, and with four references and six calls a count can overflow, be
borrowed, be put back and overflow again while two other threads interfere; the
theorems cover other values of `RC_HALF` and saturation. In `weak_table` the
sizes are scaled down (`WEAK_INLINE_COUNT` 2 instead of 4, first referrer array 4
instead of 8, compaction at 16 instead of 1024) so that a handful of objects causes
every growth and compaction, and the hash values collide and wrap around. With
two-slot pages every third slot starts a page; seven calls fill up to four. A chain
of four classes is enough for a class that waits in the pending table of a class
that itself waits. Three threads and two blocks in a stripe let one thread walk the
list while another gives up the block and a third wants it. In `method_cache` the
fourth selector makes the array of four grow, all selectors start at the last bucket
so that scans pass the end marker, and the garbage threshold of five buckets (32 KB
in the code) lets the first replaced array be freed while the other thread is
anywhere in its read; the address is then used again. In `lookup` two categories of
the superclass arrive before, between and after realization, and the second thread
interferes with a lookup that is inside `+initialize` or the resolver. In `load` the
images are a library, two clients of it and one with a category of a client's class,
so that lists grow while they are worked off and images come back after being
unmapped. In `stored_values` the places start empty or filled, so that two racing
calls and a third from `-dealloc`, a destructor or a `copyHelper` are enough for every
pair of operations on a slot, and for an association made while its object is
destroyed, in time and late. `Used` has one policy of each kind. The struct property
`P` shares a stripe with the variable `L`; the C++ property `Q` is in another stripe
than the variables `M1` and `M2` of the two threads, which copy in both directions.
Every counter in a guard (`MaxOps`, `MaxCalls`, `MaxMessages`, `MaxEnters`, `MaxDepth`,
`MaxStack`, `MaxNesting`, `MaxSends`, `MaxEdits`, `MaxFlushes`, `MaxUnmaps`) is such a bound.
Symmetry is used for threads, references and selectors that the constants do not
distinguish, and only in runs without temporal properties.

**Deadlock checking** is off: clients stop when their calls are used up, and an
exited thread does nothing. That the runtime itself does not block is what
`Progress` and `CallsReturn` say, and in `weakref` the invariant `NoDeadlock`: there two
clients can make their `+initialize` methods wait for each other, which the runtime
does not prevent, so the property is that nobody waits for a side table. It rests on
the assumption about `-allowsWeakReference` and `-retainWeakReference` above.

**Fairness** (`refcount_live`, `initialize`, `sync`, `stored_values`). Weak fairness of
each thread's steps: the scheduler runs every thread, and the locks are fair enough
that a thread is not passed over for ever (in the bounded instances only finitely
many other calls can get in between). `refcount_live` lets `StoreExclusive` fail only
because of another store (`LLSC` = FALSE): unbounded spurious failures would make
liveness false and no processor produces them. `+initialize` and `-dealloc` methods,
C++ destructors and `copyHelper`s return; a `-dealloc` that retained self releases it again; in `sync` a client that
entered leaves, and nests in one order; in `initialize` the methods message only
classes of their own branch. The code relies on the same of its clients.

**Refinement.** `RefCount` implements `ObjectLifetime` with the clients' references,
the weak variable and the freeing as abstract state (`ImplementsLifetime`); `ObjcSync`
implements `RecursiveLocks` with `held[t][o]` computed from the mutexes of the blocks
that belong to `o` (`ImplementsLocks`).

## 4. Findings

- **`+load` of an unmapped image** (`load_unmap`). `remove_class_from_loadable_list` and
  its counterpart for categories clear entries of the global lists
  (objc-loadmethod.mm:137 and 162), but `call_class_loads` and `call_category_loads`
  work through local copies. A `+load` that maps images, one of whose `+load`s unmaps
  another of them, leads to a call into the image that is gone. `load` shows that
  nothing else in the unmapping goes wrong.

Noted without a run:

- `objc_sync_exit` of an object that another thread holds: `id2data` increments
  `threadCount` (objc-sync.mm:211) and returns nil without decrementing it. The block
  is never reused again. Exclusion survives: `sync` includes such exits, and
  `BlocksSound` says that the count is never too low.
- A weak entry that went out of line is never removed by `weak_unregister_no_lock`: it
  tests the inline view of the union, whose first word is then the non-null pointer
  `referrers` (objc-weak.mm:361). `TableSound` says so of inline entries only.
- The assert in `objc_loadWeakRetained` (NSObject.mm:489) can fail: `setInitialized`
  publishes default-RR before the initialized flag, against the comment two lines
  above it. Only builds with asserts notice; `weakref` includes the moment in between.
- `sidetable_subExtraRC_nolock` subtracts from a pinned count, which unpins it
  (NSObject.mm:1371); on 64-bit this takes about 2^61 references.
- An association that is made while its object is destroyed can outlive it.
  `objc_destructInstance` reads `has_assoc` (objc-runtime-new.mm:6768), runs the
  destructors (6771) and then removes the associations if the bit was set (6772). If
  the object had none before and a destructor, or the `-dealloc` of a value released
  there, makes the first one, or if the `-dealloc` of an association released at 6772
  makes a new one, it stays in the global table, and an object allocated at the same
  address has it, without the bit. The description in runtime.h:1020, "removes any
  associated references this instance might have had", does not say so.
  `NothingLeftBehind` names exactly these cases (`late`) and shows that there are no
  others: what destructors add to an existing table is removed, which is why "This
  order is important" (6770).
- `objc_copyCppObjectAtomic` calls the client's `copyHelper` with one or two
  `CppObjectLocks` held (objc-accessors.mm:154-159). A helper that copies another atomic
  C++ property could lock a stripe that it holds already, or lock stripes against the
  address order. `CallsReturn` shows that any other accessor is safe to use there.
- The comment in `releaseUntil`, "I think this `while` can be `if`, but I can't prove
  it", is right: theorem `TheWhileCanBeAnIf`, for any page size, any nesting of pops in
  `-dealloc` methods and either debug option.

## 5. Proofs

Each proof module EXTENDS the module it is about. The assumptions are the named
`...Assumption` of that module (types of the constants, distinct null values, a
class hierarchy without cycles), which TLC evaluates in the runs; nothing bounds the
number of threads, objects, classes, lists, selectors or calls. The one further
hypothesis is `NotPinned`, below.

| Module | Theorem | States |
|---|---|---|
| `RefCountProofs` | `TypeCorrect`, `SideTableAssertsHold`, `IsaNeverGoesBack` | `TypeOK`, `SideTableAsserts`, `IsaMonotone` |
| | `DeallocWithLastRelease`, `FreedIsUnreachable`, `RetainCountIsExact` | `DeallocAtLastRelease`, `NoUseAfterFree`, `RetainCountExact` |
| | `CountingImplementsOwnership` | `ImplementsLifetime` |
| `AutoreleasePoolProofs` | `PopsRestoreTheStack`, `AutoreleasesBalance`, `TheWhileCanBeAnIf`, `PagesLiveAsLongAsTheirPools` | `PopRestores`, `NoLostRelease`, `WhileCanBeIf`, `PageLifetime` |
| `WeakRefProofs` | `TableIsExact`, `NothingDangles`, `WeakClassesBegun` | `RegistrationExact`, `DeadStaysDead`, `WeakIsInitialized` |
| | `TablesInOrder` | the lock order behind `NoDeadlock` |
| `ClassInitializeProofs` | `SuperclassesFirst`, `OneThreadInitializes`, `NoFatalError` | `HierarchyOrder`, `OneInitializer`, `NoFatal` |
| `ObjcSyncProofs` | `SyncBlocksSound` | `BlocksSound` |
| | `SyncImplementsLocks` | `ImplementsLocks` |
| `MethodCacheProofs` | `MessengerReadsSafely`, `SendsAreCurrent`, `BucketArraysSound` | `NoWildRead`, `DispatchIsCurrent`, `ArraysSound` |
| `MessageLookupProofs` | `CachesAnswerRight`, `OrderOfLoading`, `InitializedFirst`, `ResolverIsAsked` | `CacheCoherent`, `LoadOrderWins`, `NoEarlyMessage`, `ResolverWins` |
| `StoredValuesProofs` | `ReferencesExact`, `GettersRetainLive`, `FreedHoldsNothing`, `StructsNeverTorn` | `RefsExact`, `NoUseAfterFree`, `NothingLeftBehind`, `NoTornStruct` |

None of these properties is inductive. The invariants that are, and why they are
needed:

**RefCountProofs.** `WordInv` (theorem `WordInvariant`). `TypeOK` alone is not
inductive: a release that stores `extra_rc - 1` relies on `old[t].extra_rc > 0`,
known since its load; the second borrow attempt relies on the sum fitting into the
field; borrowing `RC_HALF` from a positive count relies on the count being a
multiple of `RC_HALF` as long as the isa is non-pointer; and the steps that count
in the raw form rely on the isa staying raw. `WordInv` is `TypeOK` with these facts,
`Remembers(t)` for what a program counter implies and `Halves` for the count.

For the count and the refinement, two layers on top of `WordInv` (`CountsBalance`).
`Control` says what a thread in the middle of an operation holds: its reference
token, the side-table lock, the isa it loaded. `Account` says what the words add
up to: inline count, side-table count and the half that the holder of the lock is
moving (a borrow that is not stored yet, an overflow that is not added yet, the
count that `changeIsa` carries over) are together one less than the references.
From it follows that a release which finds nothing left is the last one, that no
operation is in flight when the memory is freed, and that every step maps to a step
of `ObjectLifetime`. All of it is for objects with fewer references than saturate
the side table (`NotPinned`: `Cardinality(Refs) < RC_PINNED`, which the instance of
run `refcount` satisfies); at 2^61 references the count is pinned on purpose, and
the code does not promise these properties.

**AutoreleasePoolProofs.** A pop works on a page and a slot it computed before it
called any `-dealloc`, so `IInv` (theorem `InductiveInvariant`) must say what client
code cannot disturb. `Layout`: the pages after the hot one are empty, and those
before it are full, unless each pool starts a page. `TokenOk`: the boundary of an
open pool is in its slot, and the stack below it is what it was at the push.
`WorkOk`, `InFrame` and `Nesting`: a pop's page is still there, and the client code
that the pop called keeps its pools above the slot at which that pop stops. This is
strict but for one case: at thread exit without debug options the client code may
push a pool into the very first slot. From these follow `PopRestores` and the
validity of tokens. `Holes` is what the while of `releaseUntil` needs: if each pool
starts a page, the hot page can have an empty parent only if a `-dealloc` found the
parent emptied and pushed its first pool, and that `-dealloc` has to pop it before
the loop goes on, which kills the page. `ColdBoundary`, `ColdPool`, `HotInUse`,
`FewPages` and `PoolStarts` say which pages the debug options leave allocated. The
account of releases is a cardinality of slots, to which each step adds, or from
which it takes, one slot.

**WeakRefProofs.** `IInv` in layers: the shape of the frames on a thread's call
stack and which of them may have calls on top (`StackInv`); which side tables a
thread in each stage holds (`LocksInv`); that a class a call takes for initialized
has begun to be (`ClassesBegun`), that an object whose `-dealloc` has cleared the
table is in no variable (`Dying`), and that the table is exact, locked or not
(`Exact`). Clearing is the delicate step: it is sound because a store that has
passed `check` holds the table's lock, and one that has not will find the object
dying.

**ClassInitializeProofs.** The invariant says where a class that is being
initialized can be: in exactly one frame of the thread that marked it, queued behind
its superclass by that thread, or on the list that the thread is marking; after a
fork it may belong to nobody. Without it a `finish` could find its class already
gone from the thread's set, or a pending class could be finished by another thread
than its initializer.

**ObjcSyncProofs.** A block is given to another object only under the lock of its
list and only while its `threadCount` is zero, although other threads decrement
that count without the lock. `IInv` says that the count covers the users, that a
cache counts what its thread has locked up to the call in progress (`Counted`), and
that what a thread has learned stays true: the blocks it walked past are not its
object's, the block it may reuse is still unused (`Walked`), its caches miss
(`Missed`). So an object has one block, and the refinement maps its mutex to the
abstract lock; a reused block is one that counts for nobody before and after.

**MethodCacheProofs.** Three layers. `ControlInv` has the locks and what each
program counter implies. `HeapInv` has the arrays: a mask that a messenger has read
is no larger than any array it can still meet, because the mask is stored after the
array that fits it; and a messenger that can still reach garbage is one that the
collector has yet to look at (`ReadersSeen`). `Fresh` has the entries: an array that
a messenger can read holds implementations that were current during its send.

**MessageLookupProofs.** `IInv` in five layers. `Control`: a resolver runs on top of
the lookup that asked for it, and `runtimeLock` is held exactly by a thread that is
searching, filling or flushing. `Flags`: realized and initialized go down the
hierarchy (a pending subclass is completed only with its superclasses), a cache is
filled only in a class that has both, and a lookup remembers them. `Ordered`: what
is not attached yet is what has arrived, in order, and a method list belongs to one
class. `Coherent`: a cache is right or the edit in progress has yet to flush it, and
what a search has found is still what the lists mean when it is put in the cache.
The last part needs the lock to be held from the search to the fill, and needs that
a search which ends in a superclass's cache finds what the search from that
superclass would find (`NearestFrom`). `Resolving`: a lookup in a class with a
resolver gives up on it only once the class has the method, and then finds it before
any superclass's forward entry. What a chain of superclasses looks like follows
from `chain`'s equation by taking a least counterexample (`Least`, `Suffix`).

**StoredValuesProofs.** `IInv` (theorem `InductiveInvariant`) says of every frame of
every stack what its call may rely on. `Shapes`: only the innermost call is at work,
the ones below wait in a release or in client code (`-dealloc`, a destructor, a
`copyHelper`). `Deallocs`: an object has one
`-dealloc` at most, and its count is zero from then on. `Users`: a call works on an
object that its thread owns, or that a call further out deallocates; if it works on a
property, that call has not destroyed the instance variables. `Cleared`: the
properties of an object are empty once its destructors have run, and an object whose
table is not going to be removed, any more or at all, has none or a late one.
`AssocBit`: an association is in the table of its object, and an object with a table
that is not late has the isa bit, so that `objc_destructInstance` will look.
`Locked`, `StructsLocked`,
`Structs`: what a getter has read is still in its place while it holds the lock, and
a struct in two parts is one that a thread with its lock is writing. `RefsExact` is
an equation between cardinalities, and each step is proved by what it adds to and
takes from the four sets (`Balanced`, `RefsExactStep`); a step changes the innermost
frame only, so the sums over all frames reduce to that frame (`RefsStep`). That a
getter's value is alive follows from it: the value is in its place, the place counts,
and an object with a count is live.

**Only model-checked.** Every liveness property (`Progress`, `CallsReturn`, the
return of `+initialize`) and `NoDeadlock`, which needs ENABLED: temporal reasoning
with fairness is out of the prover's reach. The properties of `WeakTable`
(`ListsEveryLocation`, `TableSound`): that a table of referrers holds what was put in
follows an insertion along its probe sequence and a rehash over all its slots, which
are folds, and proving anything about those needs an induction whose predicate the
provers cannot instantiate. `LoadMethods` (`ParentsFirst`, `ExactlyOnce`,
`NoStaleCall`) for the same reason: the order of its lists is a fold over the
hierarchy.

## 6. Plan

1. Proofs: `LoadMethods`, with the hierarchy given as in `MessageLookup`, where the
   chains of superclasses could be reasoned about without folds; the same for the
   probe sequences of `WeakTable`.
2. Models: the messenger on weakly ordered machines; `NXMapTable` against a
   reference map; class pairs made and disposed at run time.

None of the modules declares a RECURSIVE operator, so each can be proved about.

## 7. What is not modelled

- The third-party trees kept for reading (xnu, CoreFoundation under `RuntimeLoop`,
  dyld, libSystem, `include`): about 95% of the repository's lines, not built into
  the runtime. A share of the repository's lines is therefore no measure of these
  modules; of `src/runtime` they cover the parts where threads, re-entrance and
  ordering matter.
- The old runtime (32-bit macOS only).
- Of the messengers everything but the cache lookup; block trampolines (memory
  remapping); exceptions (the C++ unwinder does the work).
- Type encodings, layouts, option parsing, the Mach-O readers (pure functions of
  compiler output); selectors and the hash and map tables (sequential, under a
  lock); ivar layout, protocols, future classes, and class pairs.
- The lock order of the fork handlers beyond `+initialize`: a static list, which
  `objc-lockdebug.mm` checks against every acquisition in debug builds.
- Tagged pointers, which have no count; the return-value optimisation of
  autorelease, which depends on the caller's machine code; the clean-up at thread
  exit, except for autorelease pools; memory ordering weaker than sequential
  consistency; hiwat and other diagnostics.

The mutexes and monitors themselves are the system's and are taken to work.
