-------------------------- MODULE AutoreleasePool --------------------------
(***************************************************************************)
(* The autorelease pools of one thread (AutoreleasePoolPage, NSObject.mm): *)
(* a stack of objects and pool boundaries, divided into pages.  Popping a  *)
(* pool releases objects one at a time, and a release may run -dealloc,    *)
(* client code that autoreleases more objects and pushes and pops pools of *)
(* its own while the outer pop is at work.                                 *)
(*                                                                         *)
(* pages[i] is the contents of the page at depth i - 1; parent and child   *)
(* are its neighbours.                                                     *)
(***************************************************************************)
EXTENDS Integers, FiniteSets, Sequences, SequencesExt

CONSTANTS
  Objects, POOL_BOUNDARY,
  COUNT,                \* slots of a page
  Environments,         \* the debug options a process may be started with
  MaxCalls,             \* bound on autoreleases and pushes
  MaxNesting            \* bound on -dealloc inside -dealloc

ASSUME AutoreleasePoolAssumption ==
  /\ POOL_BOUNDARY \notin Objects
  /\ COUNT \in Nat /\ COUNT >= 2
  /\ Environments \subseteq SUBSET {"MissingPools", "PoolAllocation"}
  /\ MaxCalls \in Nat /\ MaxNesting \in Nat

nil == 0
EMPTY_POOL_PLACEHOLDER == -1

VARIABLES
  pages,    \* the pages, coldest first
  tls,      \* the hot page, nil or EMPTY_POOL_PLACEHOLDER
  frames,   \* client code and the pops it is in, innermost last
  balance,  \* balance[o]: autoreleases of o that were not yet released
  fatal,    \* badPop
  env,      \* the debug options in force
  calls

vars == <<pages, tls, frames, balance, fatal, env, calls>>

\* The slots in use, as pairs of page and position.
Slots(pgs) == UNION {{i} \X DOMAIN pgs[i] : i \in DOMAIN pgs}

\* The stack the pages hold, and the part of it below slot s of page i.
Stack == [p \in Slots(pages) |-> pages[p[1]][p[2]]]
Under(pgs, i, s) ==
  [p \in {p \in Slots(pgs) : p[1] < i \/ (p[1] = i /\ p[2] < s)} |-> pgs[p[1]][p[2]]]

\* A token names the slot of its boundary; below is the stack under it.
Placeholder == [page |-> EMPTY_POOL_PLACEHOLDER, slot |-> 0, below |-> Under(<<>>, 1, 1)]

\* this and stop are releaseUntil's; below is what the popped token remembers.
Working(pc, tokens, this, stop, below) ==
  [pc |-> pc, tokens |-> tokens, this |-> this, stop |-> stop, below |-> below]
Frame(pc, tokens) == Working(pc, tokens, nil, 0, Under(<<>>, 1, 1))

Init == /\ pages = <<>>
        /\ tls = nil
        /\ frames = <<Frame("client", <<>>)>>
        /\ balance = [o \in Objects |-> 0]
        /\ fatal = FALSE
        /\ env \in Environments
        /\ calls = 0
-----------------------------------------------------------------------------
DebugMissingPools == "MissingPools" \in env
DebugPoolAllocation == "PoolAllocation" \in env

hotPage == IF tls = EMPTY_POOL_PLACEHOLDER THEN nil ELSE tls
empty(i) == pages[i] = <<>>

full(i) == Len(pages[i]) = COUNT
lessThanHalfFull(s) == Len(s) < COUNT \div 2

Top == frames[Len(frames)]
SetTop(f) == frames' = [frames EXCEPT ![Len(frames)] = f]
InClientCode == ~fatal /\ Top.pc = "client"

\* Mutant of NextPage: a new page, past the children that were kept.
NextPage_New(i) == Len(pages) + 1

\* The first page after i that is not full; it may be a new one.
NextPage(i) == CHOOSE j \in i + 1 .. Len(pages) + 1 :
                 /\ j = Len(pages) + 1 \/ ~full(j)
                 /\ \A k \in i + 1 .. j - 1 : full(k)

\* add(x) to page i, created if need be, which becomes the hot page.
AddTo(i, x) == /\ pages' = IF i > Len(pages) THEN Append(pages, <<x>>)
                           ELSE [pages EXCEPT ![i] = Append(@, x)]
               /\ tls' = i

autoreleaseFullPage(x) == AddTo(NextPage(hotPage), x)

\* The first page; a boundary on behalf of the placeholder comes first.
autoreleaseNoPage(x) ==
  /\ pages' = IF tls = EMPTY_POOL_PLACEHOLDER THEN <<<<POOL_BOUNDARY, x>>>>
                                              ELSE <<<<x>>>>
  /\ tls' = 1

autoreleaseFast(x) ==
  IF hotPage = nil THEN autoreleaseNoPage(x)
  ELSE IF full(hotPage) THEN autoreleaseFullPage(x)
  ELSE AddTo(hotPage, x)

Count == /\ InClientCode
         /\ calls < MaxCalls
         /\ calls' = calls + 1

autorelease(o) ==
  /\ Count
  /\ IF hotPage = nil /\ tls # EMPTY_POOL_PLACEHOLDER /\ DebugMissingPools
     THEN UNCHANGED <<pages, tls, balance>>  \* "just leaking"
     ELSE /\ autoreleaseFast(o)
          /\ balance' = [balance EXCEPT ![o] = @ + 1]
  /\ UNCHANGED <<frames, fatal, env>>

PushToken(token) == SetTop(Frame("client", Append(Top.tokens, token)))

\* push() with no pool in place.
PushPlaceholder ==
  /\ Count
  /\ tls = nil /\ ~DebugPoolAllocation
  /\ tls' = EMPTY_POOL_PLACEHOLDER
  /\ PushToken(Placeholder)
  /\ UNCHANGED <<pages, balance, fatal, env>>

Push ==
  /\ Count
  /\ tls # nil \/ DebugPoolAllocation
  /\ IF DebugPoolAllocation /\ hotPage # nil THEN autoreleaseFullPage(POOL_BOUNDARY)
     ELSE autoreleaseFast(POOL_BOUNDARY)
  /\ PushToken([page |-> tls', slot |-> Len(pages'[tls']),
                below |-> Under(pages', tls', Len(pages'[tls']))])
  /\ UNCHANGED <<balance, fatal, env>>
-----------------------------------------------------------------------------
(* pop(token), for the innermost pool of this client code or, after an     *)
(* exception, for an outer one.                                            *)

\* The top-level pool was never used.
PopPlaceholder ==
  /\ InClientCode
  /\ Top.tokens # <<>> /\ Top.tokens[1] = Placeholder
  /\ hotPage = nil
  /\ tls' = nil
  /\ SetTop(Frame("client", <<>>))
  /\ UNCHANGED <<pages, balance, fatal, env, calls>>

\* The slot that a token stands for: the placeholder is the cold page's first.
SlotOf(token) == IF token.page = EMPTY_POOL_PLACEHOLDER THEN <<1, 1>>
                 ELSE <<token.page, token.slot>>

\* "Start of coldest page may correctly not be POOL_BOUNDARY."
BadToken(p, s) == /\ <<p, s>> # <<1, 1>>
                  /\ ~(p <= Len(pages) /\ s <= Len(pages[p]) /\ pages[p][s] = POOL_BOUNDARY)

Pop(n) ==
  LET token == Top.tokens[n]
      at == SlotOf(token)
  IN /\ InClientCode
     /\ n \in DOMAIN Top.tokens
     /\ hotPage # nil
     /\ IF BadToken(at[1], at[2])
        THEN fatal' = TRUE /\ UNCHANGED frames
        ELSE /\ SetTop(Working("releasing", SubSeq(Top.tokens, 1, n - 1), at[1], at[2], token.below))
             /\ UNCHANGED fatal
     /\ UNCHANGED <<pages, tls, balance, env, calls>>

Looping == Top.pc \in {"releasing", "exiting"} /\ Len(pages[Top.this]) # Top.stop - 1

\* Restart from the hot page, stepping over empty ones.
HotNonEmpty == CHOOSE i \in 1 .. hotPage :
                 ~empty(i) /\ \A j \in i + 1 .. hotPage : empty(j)

\* Mutant of ReleaseOne: goes on with the page it started from.
ReleaseOne_ThisPage ==
  LET x == Last(pages[Top.this]) IN
  /\ Looping
  /\ pages' = [pages EXCEPT ![Top.this] = Front(@)]
  /\ balance' = IF x = POOL_BOUNDARY THEN balance ELSE [balance EXCEPT ![x] = @ - 1]
  /\ \/ UNCHANGED frames
     \/ /\ x # POOL_BOUNDARY
        /\ Len(frames) <= MaxNesting
        /\ frames' = Append(frames, Frame("client", <<>>))
  /\ UNCHANGED <<tls, fatal, env, calls>>

\* Mutant of ReleaseOne: the slot is not cleared before the release.
ReleaseOne_ReleaseFirst ==
  LET i == HotNonEmpty
      x == Last(pages[i])
  IN /\ Looping
     /\ tls' = i
     /\ pages' = IF x = POOL_BOUNDARY THEN [pages EXCEPT ![i] = Front(@)] ELSE pages
     /\ balance' = IF x = POOL_BOUNDARY THEN balance ELSE [balance EXCEPT ![x] = @ - 1]
     /\ UNCHANGED <<frames, fatal, env, calls>>

\* One round of releaseUntil; the release may run client code.
ReleaseOne ==
  LET i == HotNonEmpty
      x == Last(pages[i])
  IN /\ Looping
     /\ tls' = i
     /\ pages' = [pages EXCEPT ![i] = Front(@)]
     /\ balance' = IF x = POOL_BOUNDARY THEN balance ELSE [balance EXCEPT ![x] = @ - 1]
     /\ \/ UNCHANGED frames
        \/ /\ x # POOL_BOUNDARY
           /\ Len(frames) <= MaxNesting
           /\ frames' = Append(frames, Frame("client", <<>>))
     /\ UNCHANGED <<fatal, env, calls>>

\* Mutant of Kept: the page itself goes, not its child.
Kept_NotThis(i) == i - 1

\* How many pages pop leaves after releaseUntil(stop) on page i.
Kept(i) ==
  IF DebugPoolAllocation /\ empty(i) THEN i - 1
  ELSE IF DebugMissingPools /\ empty(i) /\ i = 1 THEN 0
  ELSE IF lessThanHalfFull(pages[i]) THEN i
  ELSE IF i + 1 <= Len(pages) THEN i + 1 ELSE i

\* The pages after the first n are killed; the hot page is i or, if i is
\* killed, its parent.
Kill(i, n) == /\ pages' = SubSeq(pages, 1, n)
              /\ tls' = IF i <= n THEN i ELSE n

PopDone ==
  /\ Top.pc = "releasing"
  /\ ~Looping
  /\ Kill(Top.this, Kept(Top.this))
  /\ SetTop(Frame("client", Top.tokens))
  /\ UNCHANGED <<balance, fatal, env, calls>>

\* -dealloc returns to the pop that released the object; it has popped every
\* pool it pushed.
DeallocReturns ==
  /\ InClientCode
  /\ Len(frames) > 1
  /\ Top.tokens = <<>>
  /\ frames' = Front(frames)
  /\ UNCHANGED <<pages, tls, balance, fatal, env, calls>>
-----------------------------------------------------------------------------
(* tls_dealloc, when the thread exits. *)

ThreadExit ==
  /\ InClientCode
  /\ Len(frames) = 1
  /\ IF hotPage # nil /\ ~empty(1)
     THEN SetTop(Working("exiting", <<>>, 1, 1, Under(<<>>, 1, 1)))
          /\ UNCHANGED <<pages, tls>>
     ELSE SetTop(Frame("exited", <<>>)) /\ pages' = <<>> /\ tls' = nil
  /\ UNCHANGED <<balance, fatal, env, calls>>

\* The pop's own clean-up, then all the pages.
ThreadExitDone ==
  /\ Top.pc = "exiting"
  /\ ~Looping
  /\ pages' = <<>>
  /\ tls' = nil
  /\ SetTop(Frame("exited", <<>>))
  /\ UNCHANGED <<balance, fatal, env, calls>>

Next == \/ \E o \in Objects : autorelease(o)
        \/ PushPlaceholder
        \/ Push
        \/ PopPlaceholder
        \/ \E n \in 1 .. MaxCalls : Pop(n)
        \/ ReleaseOne
        \/ PopDone
        \/ DeallocReturns
        \/ ThreadExit
        \/ ThreadExitDone

Spec == Init /\ [][Next]_vars
-----------------------------------------------------------------------------
(* Properties *)

\* No page holds more than COUNT, and the hot page is one of the pages.
TypeOK ==
  /\ \A i \in DOMAIN pages : /\ pages[i] \in Seq(Objects \cup {POOL_BOUNDARY})
                             /\ Len(pages[i]) <= COUNT
  /\ tls \in {nil, EMPTY_POOL_PLACEHOLDER} \cup DOMAIN pages
  /\ balance \in [Objects -> Nat]
  /\ calls \in 0 .. MaxCalls

\* "When the pool is popped, every object hotter than the sentinel is
\* released", also those that were autoreleased meanwhile, and nothing colder.
PopRestores ==
  Top.pc = "releasing" /\ ~Looping => Stack = Top.below

\* Every autorelease is matched by exactly one release or is still pending.
NoLostRelease ==
  \A o \in Objects : balance[o] = Cardinality({p \in Slots(pages) : Stack[p] = o})

\* A pool token stays valid until its pool is popped: badPop is not reached,
\* and no page that a pop in progress works on is killed.
TokensValid ==
  /\ ~fatal
  /\ \A k \in DOMAIN frames :
       /\ frames[k].this <= Len(pages)
       /\ \A n \in DOMAIN frames[k].tokens :
            LET token == frames[k].tokens[n]
                at == SlotOf(token)
            IN tls # EMPTY_POOL_PLACEHOLDER => ~BadToken(at[1], at[2])

\* releaseUntil: "fixme I think this `while` can be `if`, but I can't prove
\* it".  When the hot page is empty its parent exists and is not empty.
WhileCanBeIf == Looping /\ empty(hotPage) => hotPage > 1 /\ ~empty(hotPage - 1)

\* What the pops leave allocated, once none is in progress: "keep one empty
\* child"; with OBJC_DEBUG_POOL_ALLOCATION "each autorelease pool starts on a
\* new pool page" that goes with it; with OBJC_DEBUG_MISSING_POOLS no page
\* outside every pool, so that an autorelease there is always reported.
PagesReclaimed ==
  InClientCode /\ Len(frames) = 1 =>
    /\ pages # <<>> => Len(pages) <= hotPage + 1
    /\ DebugPoolAllocation =>
         /\ hotPage = Len(pages)
         /\ \A i \in DOMAIN pages : \A s \in DOMAIN pages[i] :
              pages[i][s] = POOL_BOUNDARY => s = 1
    /\ DebugMissingPools /\ Top.tokens = <<>> => pages = <<>> /\ tls = nil

\* A pop kills the pages it should, neither too many nor too few.
PageLifetime == TokensValid /\ PagesReclaimed
=============================================================================
