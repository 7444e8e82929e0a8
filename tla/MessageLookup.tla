--------------------------- MODULE MessageLookup ---------------------------
(***************************************************************************)
(* What a message means (objc-runtime-new.mm): lookUpImpOrForward with     *)
(* lazy realization, +initialize, the search along the superclasses, the   *)
(* method resolver and the caches, against the operations that change      *)
(* method lists: categories of newly mapped images, class_addMethod,       *)
(* class_replaceMethod, method_setImplementation and the exchange of two.  *)
(*                                                                         *)
(* One selector.  A cache is what it answers for that selector (module     *)
(* MethodCache has the bucket arrays), and +initialize is the protocol     *)
(* that ClassInitialize shows: superclass first, others wait, a subclass   *)
(* stays pending until its superclass is done.  +initialize and            *)
(* +resolveInstanceMethod: are client code and may call anything again.    *)
(***************************************************************************)
EXTENDS Naturals, Sequences, SequencesExt

CONSTANTS
  Threads, Classes, superclass,
  chain,                \* chain[c]: c and its superclasses, upwards
  Categories, classOf,  \* categories that implement the selector
  Bases,                \* possible sets of classes that implement it themselves
  Resolvers,            \* classes whose +resolveInstanceMethod: adds it
  Nil, NoThread,
  MaxSends, MaxEdits, MaxDepth

ASSUME MessageLookupAssumption ==
  /\ superclass \in [Classes -> Classes \cup {Nil}]
  /\ chain \in [Classes -> Seq(Classes)]
  /\ \A c \in Classes : chain[c] = <<c>> \o (IF superclass[c] = Nil THEN <<>>
                                             ELSE chain[superclass[c]])
  /\ classOf \in [Categories -> Classes]
  /\ Resolvers \subseteq Classes /\ Bases \subseteq SUBSET Classes
  /\ Nil \notin Classes /\ {NoThread, "no", "yes"} \cap Threads = {}
  /\ {MaxSends, MaxEdits, MaxDepth} \subseteq Nat

VARIABLES
  base,         \* the classes whose own method list has the selector
  realized,     \* RW_REALIZED
  unattached,   \* unattachedCategories, oldest first
  lists,        \* rw->methods: the lists with the selector, first wins
  imp,          \* the implementation in each list
  cache,        \* what each class's cache answers
  init,         \* "no", the thread that runs +initialize, or "yes"
  pending,      \* classes that wait for their superclass's +initialize
  arrived,      \* per class: categories and additions in the order they came
  runtimeLock,
  stack,        \* per thread: lookups, edits and client code it is in
  sends, edits

table == <<base, realized, unattached, lists, imp, arrived>>
inits == <<init, pending>>
vars == <<table, cache, inits, runtimeLock, stack, sends, edits>>

None == <<>>
Forward == <<"_objc_msgForward_impcache">>

Own(c) == <<"base", c>>
Added(c) == <<"added", c>>
Cat(k) == <<"category", k>>
Lists == {Own(c) : c \in Classes} \cup {Added(c) : c \in Classes} \cup {Cat(k) : k \in Categories}

Init ==
  /\ base \in Bases
  /\ realized = {}
  /\ unattached = [c \in Classes |-> <<>>]
  /\ lists = [c \in Classes |-> <<>>]
  /\ imp = [l \in Lists |-> <<l, 0>>]
  /\ cache = [c \in Classes |-> None]
  /\ init = [c \in Classes |-> "no"]
  /\ pending = {}
  /\ arrived = [c \in Classes |-> <<>>]
  /\ runtimeLock = NoThread
  /\ stack = [t \in Threads |-> <<>>]
  /\ sends = 0 /\ edits = 0

\* The first class from c upwards that is in S, or Nil.
Nearest(c, S) == LET at == {i \in DOMAIN chain[c] : chain[c][i] \in S}
                 IN IF at = {} THEN Nil ELSE chain[c][Min(at)]

Supers(c) == Range(Tail(chain[c]))
Family(c) == {k \in Classes : c \in Range(chain[k])}   \* c and its subclasses
-----------------------------------------------------------------------------
(* Frames *)

Lookup(c, initialize, resolver) ==
  [pc |-> "cached", cls |-> c, initialize |-> initialize, resolver |-> resolver,
   got |-> None, todo |-> {}]
ClientCode(c, m) ==
  [pc |-> m, cls |-> c, initialize |-> FALSE, resolver |-> FALSE, got |-> None, todo |-> {}]
Edit(flush) ==
  [pc |-> "flush", cls |-> Nil, initialize |-> FALSE, resolver |-> FALSE, got |-> None,
   todo |-> flush]

Top(t) == Last(stack[t])
At(t, p) == stack[t] # <<>> /\ Top(t).pc = p
With(t, f) == stack' = [stack EXCEPT ![t] = Append(Front(@), f)]
Goto(t, p) == With(t, [Top(t) EXCEPT !.pc = p])
Push(t, f) == stack' = [stack EXCEPT ![t] = Append(@, f)]
Pop(t) == stack' = [stack EXCEPT ![t] = Front(@)]

\* The thread executes code of the program, which may call the runtime.
InClient(t) == /\ Len(stack[t]) < MaxDepth
               /\ stack[t] # <<>> => Top(t).pc \in {"+initialize", "+resolve"}

Lock(t) == runtimeLock = NoThread /\ runtimeLock' = t
Unlock(t) == runtimeLock' = NoThread
-----------------------------------------------------------------------------
(* lookUpImpOrForward *)

objc_msgSend(t, c) ==
  /\ InClient(t)
  /\ sends < MaxSends
  /\ sends' = sends + 1
  /\ Push(t, Lookup(c, TRUE, TRUE))
  /\ UNCHANGED <<table, cache, inits, runtimeLock, edits>>

\* The messenger, or cache_getImp before the lock is taken.
CacheLookup(t) ==
  /\ At(t, "cached")
  /\ LET hit == cache[Top(t).cls]
     IN With(t, [Top(t) EXCEPT !.got = hit, !.pc = IF hit # None THEN "done" ELSE "slow"])
  /\ UNCHANGED <<table, cache, inits, runtimeLock, sends, edits>>

\* Mutant of attachCategories: oldest first.
attachCategories_Forward(cats, old) == [k \in DOMAIN cats |-> Cat(cats[k])] \o old

\* "Count backwards through cats to get newest categories first", then
\* attachLists puts them before the lists that are there.
attachCategories(cats, old) == Reverse([k \in DOMAIN cats |-> Cat(cats[k])]) \o old

\* realizeClass of c and its superclasses, methodizeClass included.
realizeClass(c) ==
  LET new == Range(chain[c]) \ realized
      baseMethods(k) == IF k \in base THEN <<Own(k)>> ELSE <<>>
  IN /\ realized' = realized \cup new
     /\ lists' = [k \in Classes |->
                    IF k \in new THEN attachCategories(unattached[k], baseMethods(k))
                    ELSE lists[k]]
     /\ unattached' = [k \in Classes |-> IF k \in new THEN <<>> ELSE unattached[k]]

\* Lock, realize, and unlock again if +initialize is needed.
SlowPath(t) ==
  /\ At(t, "slow")
  /\ runtimeLock = NoThread
  /\ realizeClass(Top(t).cls)
  /\ IF Top(t).initialize /\ init[Top(t).cls] # "yes"
     THEN Goto(t, "initialize") /\ UNCHANGED runtimeLock
     ELSE Goto(t, "search") /\ runtimeLock' = t
  /\ UNCHANGED <<base, imp, arrived, cache, inits, sends, edits>>

\* "retry:", after +initialize or the resolver.
Relock(t) ==
  /\ At(t, "relock")
  /\ Lock(t)
  /\ Goto(t, "search")
  /\ UNCHANGED <<table, cache, inits, sends, edits>>

\* What class k contributes to a search: its cache, or its method lists.
Answer(k) == IF cache[k] # None THEN cache[k]
             ELSE IF lists[k] # <<>> THEN imp[Head(lists[k])] ELSE None

\* Mutant of IsFound: takes a superclass's forward entry for an answer.
IsFound_Any(c, k) == TRUE

\* A forward entry of a superclass is no answer: "don't cache yet; call method
\* resolver for this class first."
IsFound(c, k) == Answer(k) # Forward \/ k = c

\* Mutant of KeepLock: unlocks before the cache is filled.
KeepLock_Not == runtimeLock' = NoThread

\* "method-lookup + cache-fill atomic with respect to method addition"
KeepLock == UNCHANGED runtimeLock

\* This class, then the superclasses.  The resolver is
\* asked once (triedResolver).
Search(t) ==
  /\ At(t, "search")
  /\ LET f == Top(t)
         k == Nearest(f.cls, {d \in Classes : Answer(d) # None})
     IN IF k # Nil /\ IsFound(f.cls, k)
        THEN With(t, [f EXCEPT !.pc = "fill", !.got = Answer(k)]) /\ KeepLock
        ELSE IF f.resolver
        THEN With(t, [f EXCEPT !.pc = "resolve", !.resolver = FALSE]) /\ Unlock(t)
        ELSE With(t, [f EXCEPT !.pc = "fill", !.got = Forward]) /\ KeepLock
  /\ UNCHANGED <<table, cache, inits, sends, edits>>

\* Mutant of MayCache: although +initialize is not done.
MayCache_Early(c) == cache[c] = None

\* "Never cache before +initialize is done", and not twice.
MayCache(c) == init[c] = "yes" /\ cache[c] = None

\* cache_fill
Fill(t) ==
  /\ At(t, "fill")
  /\ LET f == Top(t)
     IN cache' = IF MayCache(f.cls) THEN [cache EXCEPT ![f.cls] = f.got] ELSE cache
  /\ Unlock(t)
  /\ Goto(t, "done")
  /\ UNCHANGED <<table, inits, sends, edits>>

\* The lookup returns; a message is delivered.
Dispatch(t) ==
  /\ At(t, "done")
  /\ Pop(t)
  /\ UNCHANGED <<table, cache, inits, runtimeLock, sends, edits>>
-----------------------------------------------------------------------------
(* +initialize and the resolver *)

\* _class_initialize: the first class from the root that this thread must
\* initialize, or wait for; it returns when there is none.
class_initialize(t) ==
  /\ At(t, "initialize")
  /\ LET open == {k \in Range(chain[Top(t).cls]) : init[k] \notin {"yes", t}}
     IN \/ open = {} /\ Goto(t, "relock") /\ UNCHANGED init
        \/ \E k \in open : /\ Supers(k) \cap open = {} /\ init[k] = "no"
                           /\ init' = [init EXCEPT ![k] = t]
                           /\ Push(t, ClientCode(k, "+initialize"))
  /\ UNCHANGED <<table, cache, pending, runtimeLock, sends, edits>>

\* +initialize returns.  The class is initialized if its superclasses are,
\* and then so are the subclasses that were pending.
finishInitializing(t) ==
  /\ At(t, "+initialize")
  /\ LET c == Top(t).cls
         ready == \A k \in Supers(c) : init[k] = "yes"
         done == {c} \cup {k \in pending : \A s \in Supers(k) : init[s] = "yes" \/ s \in pending \cup {c}}
     IN IF ready
        THEN /\ init' = [k \in Classes |-> IF k \in done THEN "yes" ELSE init[k]]
             /\ pending' = pending \ done
        ELSE pending' = pending \cup {c} /\ UNCHANGED init
  /\ Pop(t)
  /\ UNCHANGED <<table, cache, runtimeLock, sends, edits>>

\* _class_resolveInstanceMethod sends +resolveInstanceMethod: to the class.
class_resolveMethod(t) ==
  /\ At(t, "resolve")
  /\ stack' = [stack EXCEPT ![t] = Front(@) \o <<[Top(t) EXCEPT !.pc = "resolved"],
                                               ClientCode(Top(t).cls, "+resolve")>>]
  /\ UNCHANGED <<table, cache, inits, runtimeLock, sends, edits>>

\* A resolver that can add the method has done so when it returns.
ResolverReturns(t) ==
  /\ At(t, "+resolve")
  /\ Top(t).cls \in Resolvers => lists[Top(t).cls] # <<>>
  /\ Pop(t)
  /\ UNCHANGED <<table, cache, inits, runtimeLock, sends, edits>>

\* "Cache the result (good or bad) so the resolver doesn't fire next time."
Resolved(t) ==
  /\ At(t, "resolved")
  /\ stack' = [stack EXCEPT ![t] = Front(@) \o <<[Top(t) EXCEPT !.pc = "relock"],
                                               Lookup(Top(t).cls, FALSE, FALSE)>>]
  /\ UNCHANGED <<table, cache, inits, runtimeLock, sends, edits>>

LookupStep(t) ==
  \/ CacheLookup(t) \/ SlowPath(t) \/ Relock(t) \/ Search(t) \/ Fill(t) \/ Dispatch(t)
  \/ class_initialize(t) \/ finishInitializing(t)
  \/ class_resolveMethod(t) \/ ResolverReturns(t) \/ Resolved(t)
-----------------------------------------------------------------------------
(* Edits.  runtimeLock is held until the caches are flushed. *)

\* foreach_realized_class_and_subclass
Flushed(c) == Family(c) \cap realized

\* _read_images finds a category: it is attached now or when the class is
\* realized.
map_category(t, k) ==
  LET c == classOf[k] IN
  /\ InClient(t)
  /\ Cat(k) \notin UNION {Range(arrived[d]) : d \in Classes}
  /\ Lock(t)
  /\ arrived' = [arrived EXCEPT ![c] = Append(@, Cat(k))]
  /\ IF c \in realized
     THEN /\ lists' = [lists EXCEPT ![c] = attachCategories(<<k>>, @)]
          /\ Push(t, Edit(Flushed(c)))
          /\ UNCHANGED unattached
     ELSE /\ unattached' = [unattached EXCEPT ![c] = Append(@, k)]
          /\ Push(t, Edit({}))
          /\ UNCHANGED lists
  /\ UNCHANGED <<base, realized, imp, cache, inits, sends, edits>>

\* class_addMethod: addMethod with replace NO.  The resolver's call is not
\* counted as an edit of the client.
class_addMethod(t, c) ==
  /\ InClient(t)
  /\ c \in realized
  /\ lists[c] = <<>>
  /\ IF At(t, "+resolve") /\ c = Top(t).cls THEN c \in Resolvers /\ UNCHANGED edits
     ELSE edits < MaxEdits /\ edits' = edits + 1
  /\ Lock(t)
  /\ lists' = [lists EXCEPT ![c] = <<Added(c)>>]
  /\ arrived' = [arrived EXCEPT ![c] = Append(@, Added(c))]
  /\ Push(t, Edit(Flushed(c)))
  /\ UNCHANGED <<base, realized, unattached, imp, cache, inits, sends>>

\* What class_getInstanceMethod finds in the realized classes.
Methods == {Head(lists[c]) : c \in {d \in realized : lists[d] # <<>>}}

\* _method_setImplementation, by method_setImplementation, which flushes all
\* caches, or by class_replaceMethod, which flushes those of the class.
setImplementation(t, l, flush) ==
  /\ InClient(t)
  /\ edits < MaxEdits
  /\ edits' = edits + 1
  /\ Lock(t)
  /\ imp' = [imp EXCEPT ![l] = <<l, edits + 1>>]
  /\ Push(t, Edit(flush))
  /\ UNCHANGED <<base, realized, unattached, lists, arrived, cache, inits, sends>>

method_exchangeImplementations(t, l, n) ==
  /\ InClient(t)
  /\ edits < MaxEdits
  /\ l # n
  /\ edits' = edits + 1
  /\ Lock(t)
  /\ imp' = [imp EXCEPT ![l] = imp[n], ![n] = imp[l]]
  /\ Push(t, Edit(realized))
  /\ UNCHANGED <<base, realized, unattached, lists, arrived, cache, inits, sends>>

\* flushCaches, class by class; the edit returns when all are empty.
flushCaches(t) ==
  /\ At(t, "flush")
  /\ IF Top(t).todo = {} THEN Unlock(t) /\ Pop(t) /\ UNCHANGED cache
     ELSE \E c \in Top(t).todo :
            /\ cache' = [cache EXCEPT ![c] = None]
            /\ With(t, [Top(t) EXCEPT !.todo = @ \ {c}])
            /\ UNCHANGED runtimeLock
  /\ UNCHANGED <<table, inits, sends, edits>>

\* The cache grows because of other selectors, and forgets.
expand(c) ==
  /\ runtimeLock = NoThread
  /\ cache[c] # None
  /\ cache' = [cache EXCEPT ![c] = None]
  /\ UNCHANGED <<table, inits, runtimeLock, stack, sends, edits>>

EditStep(t) ==
  \/ \E k \in Categories : map_category(t, k)
  \/ \E c \in Classes : class_addMethod(t, c)
  \/ \E l \in Methods : setImplementation(t, l, realized)
  \/ \E c \in realized : lists[c] # <<>> /\ setImplementation(t, Head(lists[c]), Flushed(c))
  \/ \E l, n \in Methods : method_exchangeImplementations(t, l, n)
  \/ flushCaches(t)
-----------------------------------------------------------------------------
Next == \/ \E t \in Threads : \/ \E c \in Classes : objc_msgSend(t, c)
                              \/ LookupStep(t)
                              \/ EditStep(t)
        \/ \E c \in Classes : expand(c)

Spec == Init /\ [][Next]_vars
-----------------------------------------------------------------------------
(* Properties *)

\* The method lists a class has, or will have once it is realized: what came
\* last first, the class's own methods last.
Expected(c) == Reverse(arrived[c]) \o (IF c \in base THEN <<Own(c)>> ELSE <<>>)

\* The implementation the message means for instances of c.
Meaning(c) ==
  LET k == Nearest(c, {d \in Classes : Expected(d) # <<>>})
  IN IF k = Nil THEN Forward ELSE imp[Head(Expected(k))]

\* Whenever runtimeLock is free a cache answers nothing or what the method
\* lists of the class and its superclasses mean: no category or new method is
\* "ignored indefinitely because the cache was re-filled with the old value".
CacheCoherent ==
  runtimeLock = NoThread => \A c \in Classes : cache[c] \in {None, Meaning(c)}

\* Which category wins depends on the order of loading only, not on when the
\* class was realized.
LoadOrderWins ==
  \A c \in Classes :
    IF c \in realized THEN lists[c] = Expected(c)
    ELSE [k \in DOMAIN unattached[c] |-> Cat(unattached[c][k])] = arrived[c]

\* A message is delivered only after +initialize of the class and its
\* superclasses, or on the thread that runs it; a cache is no way around it.
NoEarlyMessage ==
  \A t \in Threads :
    At(t, "done") /\ Top(t).initialize =>
      \A k \in Range(chain[Top(t).cls]) : init[k] \in {"yes", t}

\* A class whose resolver can add the method never forwards the message,
\* whatever its superclasses have cached and whoever resolves at the same time.
ResolverWins ==
  \A t \in Threads :
    At(t, "done") /\ Top(t).initialize /\ Top(t).cls \in Resolvers => Top(t).got # Forward
=============================================================================
