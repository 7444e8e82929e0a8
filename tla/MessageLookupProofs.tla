------------------------ MODULE MessageLookupProofs -------------------------
(***************************************************************************)
(* Proofs about MessageLookup, for any hierarchy of classes, any number of *)
(* threads, categories and edits and any nesting of client code: a cache   *)
(* answers what the method lists mean, the order of loading decides which  *)
(* category wins, no message comes before +initialize, and a resolver is   *)
(* not bypassed.                                                           *)
(*                                                                         *)
(* The invariant is built in layers: the call stacks and who holds         *)
(* runtimeLock; the flags of the classes; the method lists; and then the   *)
(* caches, which are right except for those that an edit has yet to flush. *)
(***************************************************************************)
EXTENDS MessageLookup, WellFoundedInduction, SequenceTheorems, TLAPS

Imps == Lists \X Nat
Answers == Imps \cup {None, Forward}

\* A lookup in one of these states holds runtimeLock, or an edit does.
Locking == {"search", "fill", "flush"}

\* Frames that may have others on top of them.
Waiting == {"initialize", "+initialize", "+resolve", "resolved", "relock"}

PCs == {"cached", "slow", "resolve", "done"} \cup Locking \cup Waiting

Frames == [pc : PCs, cls : Classes \cup {Nil}, initialize : BOOLEAN,
           resolver : BOOLEAN, got : Answers, todo : SUBSET Classes]

Typed ==
  /\ base \subseteq Classes /\ realized \subseteq Classes /\ pending \subseteq Classes
  /\ unattached \in [Classes -> Seq(Categories)]
  /\ lists \in [Classes -> Seq(Lists)] /\ arrived \in [Classes -> Seq(Lists)]
  /\ imp \in [Lists -> Imps] /\ cache \in [Classes -> Answers]
  /\ init \in [Classes -> {"no", "yes"} \cup Threads]
  /\ runtimeLock \in Threads \cup {NoThread}
  /\ sends \in Nat /\ edits \in Nat

\* What a frame is: a lookup, a method of the client or an edit.
Shape(f) ==
  /\ f.pc # "flush" => f.cls \in Classes
  /\ f.pc \in {"flush", "+initialize", "+resolve"} => ~f.initialize

\* A resolver runs on top of the lookup that asked for it.
Stacked(s) ==
  \A i \in DOMAIN s : i < Len(s) =>
    /\ s[i].pc \in Waiting
    /\ s[i].pc = "resolved" => s[i + 1].pc = "+resolve" /\ s[i + 1].cls = s[i].cls

\* The stacks are well formed.
Stacks ==
  /\ stack \in [Threads -> Seq(Frames)]
  /\ \A t \in Threads : Stacked(stack[t]) /\ \A i \in DOMAIN stack[t] : Shape(stack[t][i])

\* runtimeLock is held by the thread that is in code that has taken it.
OnLock(t) == stack[t] # <<>> /\ Top(t).pc \in Locking
Locks == \A t \in Threads : runtimeLock = t <=> OnLock(t)

\* First layer: the stacks, and the lock.
Control == Typed /\ Stacks /\ Locks

\* Lookups past the slow path have a realized class, and those past
\* _class_initialize an initialized one, as far as this thread is concerned.
Past == {"relock", "search", "fill", "resolve", "resolved"}
Begun(t, c) == \A k \in Range(chain[c]) : init[k] \in {"yes", t}
Ready(t, f) ==
  /\ f.pc \in Past \cup {"initialize"} => f.cls \in realized
  /\ f.pc \in Past \cup {"done"} /\ f.initialize => Begun(t, f.cls)

\* Second layer: the flags of the classes go down the hierarchy, and a cache is
\* only filled for a class that has them.
RealizedUp == \A c \in realized : Range(chain[c]) \subseteq realized
InitUp == \A c \in Classes : init[c] = "yes" => \A k \in Range(chain[c]) : init[k] = "yes"
CachedReady == \A c \in Classes : cache[c] # None => c \in realized /\ init[c] = "yes"
AllReady == \A t \in Threads : \A i \in DOMAIN stack[t] : Ready(t, stack[t][i])
Flags == RealizedUp /\ InitUp /\ CachedReady /\ AllReady

\* Third layer: a method list belongs to one class, and before a class is
\* realized it has none.
ListsOf(c) == {Own(c), Added(c)} \cup {Cat(k) : k \in {j \in Categories : classOf[j] = c}}
OwnLists == \A c \in Classes : Range(arrived[c]) \subseteq ListsOf(c)
NotYetListed == \A c \in Classes \ realized : lists[c] = <<>>
Ordered == LoadOrderWins /\ OwnLists /\ NotYetListed

\* Fourth layer: a cache is right, or the edit that made it wrong will flush it;
\* a lookup that is about to fill it has found what the lists mean.
Stale(c) == \E t \in Threads : At(t, "flush") /\ c \in Top(t).todo
CachesRight == \A c \in Classes : cache[c] \in {None, Meaning(c)} \/ Stale(c)
FillsRight ==
  \A t \in Threads, c \in Classes : At(t, "fill") /\ Top(t).cls = c => Top(t).got = Meaning(c)
Coherent == CachesRight /\ FillsRight

\* Fifth layer: a lookup in a class with a resolver does without it only once the
\* class has the method.
Tried == {"cached", "slow", "initialize", "relock", "search", "fill", "done"}
Asked(f) ==
  f.cls \in Resolvers =>
    /\ f.pc \in Tried /\ ~f.resolver => lists[f.cls] # <<>>
    /\ f.got # Forward
NoForward == \A c \in Resolvers : cache[c] # Forward
AllAsked == \A t \in Threads : \A i \in DOMAIN stack[t] : Asked(stack[t][i])
ResolvedNow ==
  \A t \in Threads :
    At(t, "resolved") /\ Top(t).cls \in Resolvers => lists[Top(t).cls] # <<>>
Resolving == NoForward /\ AllAsked /\ ResolvedNow

IInv == Control /\ Flags /\ Ordered /\ Coherent /\ Resolving
-----------------------------------------------------------------------------
(* The hierarchy. *)

\* A non-empty set of numbers has a least one.
LEMMA Least ==
  ASSUME NEW T, T \subseteq Nat, T # {}
  PROVE  \E n \in T : \A m \in T : n <= m
<1>1. IsWellFoundedOn(OpToRel(<, Nat), Nat)
  BY NatLessThanWellFounded, Zenon
<1>2. PICK n \in T : \A m \in T : <<m, n>> \notin OpToRel(<, Nat)
  BY <1>1, WFMin, Zenon
<1>3. \A m \in T : ~(m < n)
  BY <1>2 DEF OpToRel
<1> QED
  BY <1>3

\* The constants, in the form in which the steps below use them.
LEMMA Constants ==
  /\ superclass \in [Classes -> Classes \cup {Nil}]
  /\ Nil \notin Classes /\ NoThread \notin Threads
  /\ "no" \notin Threads /\ "yes" \notin Threads
  /\ classOf \in [Categories -> Classes] /\ Resolvers \subseteq Classes
  /\ \A b \in Bases : b \subseteq Classes
  BY MessageLookupAssumption

\* A chain starts at its class, and goes on with that of the superclass.
LEMMA ChainStep ==
  ASSUME NEW c \in Classes
  PROVE  /\ chain[c] \in Seq(Classes) /\ Len(chain[c]) \in Nat /\ Len(chain[c]) >= 1
         /\ chain[c][1] = c
         /\ Len(chain[c]) > 1 =>
              /\ superclass[c] \in Classes
              /\ Len(chain[superclass[c]]) = Len(chain[c]) - 1
              /\ \A i \in 1 .. Len(chain[c]) - 1 : chain[superclass[c]][i] = chain[c][i + 1]
<1>1. CASE superclass[c] = Nil
  <2>1. chain[c] = <<c>> \o <<>>
    BY <1>1, MessageLookupAssumption
  <2>2. chain[c] = <<c>>
    BY <2>1
  <2> QED
    BY <2>2
<1>2. CASE superclass[c] # Nil
  <2>1. superclass[c] \in Classes
    BY <1>2, Constants
  <2>2. chain[c] = <<c>> \o chain[superclass[c]]
    BY <1>2, MessageLookupAssumption
  <2>3. PICK s \in Seq(Classes) : s = chain[superclass[c]]
    BY <2>1, MessageLookupAssumption
  <2>4. /\ Len(<<c>> \o s) = Len(s) + 1 /\ (<<c>> \o s)[1] = c /\ <<c>> \o s \in Seq(Classes)
        /\ Len(s) \in Nat /\ \A i \in 1 .. Len(s) : (<<c>> \o s)[i + 1] = s[i]
    OBVIOUS
  <2> QED
    BY <2>1, <2>2, <2>3, <2>4
<1> QED
  BY <1>1, <1>2

\* The part of a chain from one of its classes on is the chain of that class.
SuffixAt(c, i) ==
  LET k == chain[c][i]
  IN /\ Len(chain[k]) = Len(chain[c]) - i + 1
     /\ \A j \in 1 .. Len(chain[k]) : chain[k][j] = chain[c][i + j - 1]

LEMMA Suffix ==
  ASSUME NEW c \in Classes, NEW i \in DOMAIN chain[c]
  PROVE  chain[c][i] \in Classes /\ SuffixAt(c, i)
<1>1. /\ chain[c] \in Seq(Classes) /\ DOMAIN chain[c] = 1 .. Len(chain[c])
      /\ Len(chain[c]) \in Nat /\ Len(chain[c]) >= 1 /\ chain[c][1] = c
  BY ChainStep
<1> DEFINE T == {n \in DOMAIN chain[c] : ~SuffixAt(c, n)}
<1>2. T = {}
  <2> SUFFICES ASSUME T # {} PROVE FALSE
    OBVIOUS
  <2>0. T \subseteq Nat
    BY <1>1
  <2> HIDE DEF T
  <2>1. PICK n \in T : \A m \in T : n <= m
    BY <2>0, Least
  <2> USE DEF T
  <2>2. n \in 1 .. Len(chain[c]) /\ ~SuffixAt(c, n)
    BY <1>1, <2>1
  <2>3. SuffixAt(c, 1)
    BY <1>1 DEF SuffixAt
  <2>4. n > 1 /\ n - 1 \in 1 .. Len(chain[c]) /\ n - 1 \notin T
    BY <1>1, <2>1, <2>2, <2>3
  <2>5. SuffixAt(c, n - 1)
    BY <1>1, <2>4
  <2>6. PICK k \in Classes : k = chain[c][n - 1]
    BY <1>1, <2>4
  <2>7. Len(chain[k]) = Len(chain[c]) - n + 2
    BY <1>1, <2>2, <2>5, <2>6 DEF SuffixAt
  <2>8. \A j \in 1 .. Len(chain[k]) : chain[k][j] = chain[c][n + j - 2]
    <3>1. \A j \in 1 .. Len(chain[k]) : chain[k][j] = chain[c][(n - 1) + j - 1]
      BY <2>5, <2>6 DEF SuffixAt
    <3>2. \A j \in 1 .. Len(chain[k]) : (n - 1) + j - 1 = n + j - 2
      BY <1>1, <2>2
    <3> QED
      BY <3>1, <3>2
  <2>9. PICK d \in Classes : /\ d = superclass[k] /\ Len(chain[d]) = Len(chain[k]) - 1
                             /\ \A j \in 1 .. Len(chain[k]) - 1 : chain[d][j] = chain[k][j + 1]
    <3>1. Len(chain[k]) > 1
      BY <1>1, <2>2, <2>7
    <3> QED
      BY <3>1, ChainStep
  <2>10. chain[d][1] = d /\ Len(chain[d]) = Len(chain[c]) - n + 1
    <3>1. chain[d][1] = d
      BY ChainStep
    <3>2. Len(chain[d]) = Len(chain[k]) - 1
      BY <2>9
    <3> QED
      BY <1>1, <2>2, <2>7, <3>1, <3>2
  <2>11. d = chain[c][n]
    <3>1. chain[d][1] = chain[k][2] /\ chain[k][2] = chain[c][n]
      <4>1. 1 \in 1 .. Len(chain[k]) - 1 /\ 2 \in 1 .. Len(chain[k]) /\ n + 2 - 2 = n
        BY <1>1, <2>2, <2>7
      <4>2. chain[d][1] = chain[k][1 + 1]
        BY <2>9, <4>1
      <4>3. chain[k][2] = chain[c][n + 2 - 2]
        BY <2>8, <4>1
      <4> QED
        BY <4>1, <4>2, <4>3
    <3> QED
      BY <2>10, <3>1
  <2>12. ASSUME NEW j \in 1 .. Len(chain[d]) PROVE chain[d][j] = chain[c][n + j - 1]
    <3>1. /\ j \in 1 .. Len(chain[k]) - 1 /\ j + 1 \in 1 .. Len(chain[k])
          /\ n + (j + 1) - 2 = n + j - 1
      BY <1>1, <2>2, <2>7, <2>10
    <3>2. chain[d][j] = chain[k][j + 1]
      BY <2>9, <3>1
    <3>3. chain[k][j + 1] = chain[c][n + (j + 1) - 2]
      BY <2>8, <3>1
    <3> QED
      BY <3>1, <3>2, <3>3
  <2> QED
    BY <2>2, <2>10, <2>11, <2>12 DEF SuffixAt
<1> QED
  BY <1>1, <1>2

\* What the chain of a class has in common with those of its superclasses.
LEMMA Chains ==
  ASSUME NEW c \in Classes
  PROVE  /\ c \in Range(chain[c]) /\ Range(chain[c]) \subseteq Classes
         /\ \A k \in Range(chain[c]) : Range(chain[k]) \subseteq Range(chain[c])
         /\ Range(chain[c]) = Supers(c) \cup {c}
<1>1. /\ chain[c] \in Seq(Classes) /\ DOMAIN chain[c] = 1 .. Len(chain[c])
      /\ Len(chain[c]) \in Nat /\ Len(chain[c]) >= 1 /\ chain[c][1] = c
  BY ChainStep
<1>2. c \in Range(chain[c]) /\ Range(chain[c]) \subseteq Classes
  BY <1>1 DEF Range
<1>3. ASSUME NEW i \in DOMAIN chain[c], NEW j \in DOMAIN chain[chain[c][i]]
      PROVE  chain[chain[c][i]][j] \in Range(chain[c])
  <2>1. PICK k \in Classes : k = chain[c][i]
    BY Suffix
  <2>2. Len(chain[k]) = Len(chain[c]) - i + 1
    BY <2>1, Suffix DEF SuffixAt
  <2>3. DOMAIN chain[k] = 1 .. Len(chain[k]) /\ j \in 1 .. Len(chain[k])
    BY <1>3, <2>1, ChainStep
  <2>4. chain[k][j] = chain[c][i + j - 1]
    BY <2>1, <2>3, Suffix DEF SuffixAt
  <2>5. i + j - 1 \in DOMAIN chain[c]
    BY <1>1, <2>2, <2>3
  <2> QED
    BY <2>1, <2>4, <2>5 DEF Range
<1>4. \A k \in Range(chain[c]) : Range(chain[k]) \subseteq Range(chain[c])
  BY <1>3 DEF Range
<1>5. Range(chain[c]) = Supers(c) \cup {c}
  <2>1. PICK s \in Seq(Classes) : s = chain[c] /\ s # <<>> /\ s[1] = c
    BY <1>1
  <2>2. DOMAIN Tail(s) = 1 .. Len(s) - 1 /\ \A i \in 1 .. Len(s) - 1 : Tail(s)[i] = s[i + 1]
    BY <2>1
  <2>3. DOMAIN s = 1 .. Len(s) /\ Len(s) \in Nat /\ Len(s) >= 1
    BY <1>1, <2>1
  <2>4. ASSUME NEW i \in DOMAIN s, s[i] # c PROVE s[i] \in Range(Tail(s))
    <3>1. i - 1 \in DOMAIN Tail(s) /\ Tail(s)[i - 1] = s[i]
      BY <2>1, <2>2, <2>3, <2>4
    <3> QED
      BY <3>1 DEF Range
  <2>5. ASSUME NEW i \in DOMAIN Tail(s) PROVE Tail(s)[i] \in Range(s)
    <3>1. i + 1 \in DOMAIN s /\ Tail(s)[i] = s[i + 1]
      BY <2>2, <2>3
    <3> QED
      BY <3>1 DEF Range
  <2>6. Range(s) \subseteq Range(Tail(s)) \cup {c} /\ Range(Tail(s)) \subseteq Range(s)
    BY <2>4, <2>5 DEF Range
  <2> QED
    BY <1>2, <2>1, <2>6 DEF Supers
<1> QED
  BY <1>2, <1>4, <1>5

\* The first class from c upwards that is in S.
LEMMA NearestAt ==
  ASSUME NEW c \in Classes, NEW S, NEW i \in DOMAIN chain[c], chain[c][i] \in S,
         \A j \in DOMAIN chain[c] : j < i => chain[c][j] \notin S
  PROVE  Nearest(c, S) = chain[c][i] /\ Nearest(c, S) # Nil
<1>1. DOMAIN chain[c] = 1 .. Len(chain[c]) /\ Len(chain[c]) \in Nat
  BY ChainStep
<1>2. PICK at : at = {j \in DOMAIN chain[c] : chain[c][j] \in S}
  OBVIOUS
<1>3. i \in at /\ \A j \in at : i <= j /\ j \in Nat
  BY <1>1, <1>2
<1>4. \A j \in at : (\A m \in at : j <= m) => j = i
  BY <1>1, <1>2, <1>3
<1>5. Min(at) = i
  BY <1>3, <1>4 DEF Min
<1>6. at # {}
  BY <1>3
<1>7. Nearest(c, S) = IF at = {} THEN Nil ELSE chain[c][Min(at)]
  BY <1>2 DEF Nearest
<1> QED
  BY <1>5, <1>6, <1>7, Suffix, Constants

LEMMA NearestNone ==
  ASSUME NEW c \in Classes, NEW S, \A k \in Range(chain[c]) : k \notin S
  PROVE  Nearest(c, S) = Nil
  BY DEF Nearest, Range

\* Either there is none, or it is at some place of the chain.
LEMMA NearestIs ==
  ASSUME NEW c \in Classes, NEW S
  PROVE  \/ Nearest(c, S) = Nil /\ \A k \in Range(chain[c]) : k \notin S
         \/ \E i \in DOMAIN chain[c] :
              /\ Nearest(c, S) = chain[c][i] /\ chain[c][i] \in S /\ Nearest(c, S) # Nil
              /\ \A j \in DOMAIN chain[c] : j < i => chain[c][j] \notin S
<1>1. CASE \A k \in Range(chain[c]) : k \notin S
  BY <1>1, NearestNone
<1>2. CASE \E k \in Range(chain[c]) : k \in S
  <2>1. DOMAIN chain[c] = 1 .. Len(chain[c]) /\ Len(chain[c]) \in Nat
    BY ChainStep
  <2>2. PICK at : at = {j \in DOMAIN chain[c] : chain[c][j] \in S}
    OBVIOUS
  <2>3. at \subseteq Nat /\ at # {}
    BY <1>2, <2>1, <2>2 DEF Range
  <2>4. PICK i \in at : \A j \in at : i <= j
    BY <2>3, Least
  <2>5. i \in DOMAIN chain[c] /\ chain[c][i] \in S
    BY <2>2
  <2>6. \A j \in DOMAIN chain[c] : j < i => chain[c][j] \notin S
    BY <2>1, <2>2, <2>4
  <2> QED
    BY <2>5, <2>6, NearestAt
<1> QED
  BY <1>1, <1>2

\* Only the classes of the chain matter.
LEMMA NearestSame ==
  ASSUME NEW c \in Classes, NEW S, NEW T,
         \A k \in Range(chain[c]) : k \in S <=> k \in T
  PROVE  Nearest(c, S) = Nearest(c, T)
<1>1. {i \in DOMAIN chain[c] : chain[c][i] \in S} = {i \in DOMAIN chain[c] : chain[c][i] \in T}
  BY DEF Range
<1> QED
  BY <1>1 DEF Nearest

\* The search may start at a superclass, if those before it are not in S.
LEMMA NearestFrom ==
  ASSUME NEW c \in Classes, NEW S, NEW i \in DOMAIN chain[c],
         \A j \in DOMAIN chain[c] : j < i => chain[c][j] \notin S
  PROVE  Nearest(c, S) = Nearest(chain[c][i], S)
<1>1. PICK k \in Classes : k = chain[c][i]
  BY Suffix
<1>2. /\ DOMAIN chain[c] = 1 .. Len(chain[c]) /\ Len(chain[c]) \in Nat
      /\ DOMAIN chain[k] = 1 .. Len(chain[k]) /\ Len(chain[k]) \in Nat
  BY ChainStep
<1>3. Len(chain[k]) = Len(chain[c]) - i + 1
  BY <1>1, Suffix DEF SuffixAt
<1>4. \A j \in DOMAIN chain[k] : chain[k][j] = chain[c][i + j - 1]
  <2>1. SuffixAt(c, i)
    BY Suffix
  <2>2. \A j \in 1 .. Len(chain[k]) : chain[k][j] = chain[c][i + j - 1]
    BY <1>1, <2>1 DEF SuffixAt
  <2> QED
    BY <1>2, <2>2
<1>5. CASE \A d \in Range(chain[c]) : d \notin S
  <2>1. Range(chain[k]) \subseteq Range(chain[c])
    <3>1. k \in Range(chain[c])
      BY <1>1 DEF Range
    <3> QED
      BY <3>1, Chains
  <2>2. Nearest(c, S) = Nil /\ Nearest(k, S) = Nil
    BY <1>5, <2>1, NearestNone
  <2> QED
    BY <1>1, <2>2
<1>6. CASE \E n \in DOMAIN chain[c] :
             /\ Nearest(c, S) = chain[c][n] /\ chain[c][n] \in S
             /\ \A j \in DOMAIN chain[c] : j < n => chain[c][j] \notin S
  <2>1. PICK n \in DOMAIN chain[c] :
             /\ Nearest(c, S) = chain[c][n] /\ chain[c][n] \in S
             /\ \A j \in DOMAIN chain[c] : j < n => chain[c][j] \notin S
    BY <1>6
  <2>2. n >= i /\ n \in Nat /\ i \in Nat
    BY <1>2, <2>1
  <2>3. PICK p : p = n - i + 1
    OBVIOUS
  <2>4. p \in DOMAIN chain[k] /\ i + p - 1 = n
    <3>1. n \in 1 .. Len(chain[c]) /\ i \in 1 .. Len(chain[c]) /\ n >= i
      BY <1>2, <2>1, <2>2
    <3>2. p \in 1 .. Len(chain[k]) /\ i + p - 1 = n
      BY <1>2, <1>3, <2>3, <3>1
    <3> QED
      BY <1>2, <3>2
  <2>5. chain[k][p] = chain[c][n]
    BY <1>4, <2>4
  <2>6. ASSUME NEW j \in DOMAIN chain[k], j < p PROVE chain[k][j] \notin S
    <3>1. i + j - 1 \in DOMAIN chain[c] /\ i + j - 1 < n
      <4>1. j \in Nat /\ j >= 1 /\ i >= 1 /\ n \in Nat /\ i \in Nat /\ n <= Len(chain[c])
        BY <1>2, <2>1, <2>2
      <4>2. i + j - 1 < n
        BY <2>3, <2>6, <4>1
      <4>3. i + j - 1 \in 1 .. Len(chain[c])
        BY <1>2, <4>1, <4>2
      <4> QED
        BY <1>2, <4>2, <4>3
    <3> QED
      BY <1>4, <2>1, <3>1
  <2>7. Nearest(k, S) = chain[k][p]
    BY <2>1, <2>4, <2>5, <2>6, NearestAt
  <2> QED
    BY <1>1, <2>1, <2>5, <2>7
<1> QED
  BY <1>5, <1>6, NearestIs
-----------------------------------------------------------------------------
(* The call stacks. *)

\* What the ways to change a stack do to its frames.
LEMMA StackOps ==
  ASSUME NEW s \in Seq(Frames), NEW f \in Frames
  PROVE  /\ Append(s, f) \in Seq(Frames) /\ Len(Append(s, f)) = Len(s) + 1
         /\ Append(s, f)[Len(s) + 1] = f
         /\ \A i \in 1 .. Len(s) : Append(s, f)[i] = s[i]
         /\ s # <<>> =>
              /\ Front(s) \in Seq(Frames) /\ Len(Front(s)) = Len(s) - 1
              /\ \A i \in 1 .. Len(s) - 1 : Front(s)[i] = s[i]
         /\ s # <<>> =>
              /\ Append(Front(s), f) \in Seq(Frames) /\ Len(Append(Front(s), f)) = Len(s)
              /\ Append(Front(s), f)[Len(s)] = f
              /\ \A i \in 1 .. Len(s) - 1 : Append(Front(s), f)[i] = s[i]
<1>1. Len(s) \in Nat /\ (s # <<>> => Len(s) >= 1)
  OBVIOUS
<1>2. /\ Append(s, f) \in Seq(Frames) /\ Len(Append(s, f)) = Len(s) + 1
      /\ Append(s, f)[Len(s) + 1] = f
      /\ \A i \in 1 .. Len(s) : Append(s, f)[i] = s[i]
  OBVIOUS
<1>3. ASSUME s # <<>>
      PROVE  /\ Front(s) \in Seq(Frames) /\ Len(Front(s)) = Len(s) - 1
             /\ \A i \in 1 .. Len(s) - 1 : Front(s)[i] = s[i]
  <2>0. Len(s) - 1 \in Nat /\ Len(s) - 1 < Len(s)
    BY <1>1, <1>3
  <2>1. PICK n \in Nat : n = Len(s) - 1 /\ n < Len(s)
    BY <2>0
  <2>2. Len(SubSeq(s, 1, n)) = n
    BY <2>1
  <2>3. SubSeq(s, 1, n) \in Seq(Frames) /\ \A i \in 1 .. n : SubSeq(s, 1, n)[i] = s[i]
    BY <2>1
  <2> QED
    BY <2>1, <2>2, <2>3 DEF Front
<1>4. ASSUME s # <<>>
      PROVE  /\ Append(Front(s), f) \in Seq(Frames) /\ Len(Append(Front(s), f)) = Len(s)
             /\ Append(Front(s), f)[Len(s)] = f
             /\ \A i \in 1 .. Len(s) - 1 : Append(Front(s), f)[i] = s[i]
  BY <1>1, <1>3, <1>4
<1> QED
  BY <1>2, <1>3, <1>4

\* The innermost frame goes on as f, with the call g on top.
Called(s, f, g) == Front(s) \o <<f, g>>

LEMMA CalledOps ==
  ASSUME NEW s \in Seq(Frames), NEW f \in Frames, NEW g \in Frames, s # <<>>
  PROVE  /\ Called(s, f, g) \in Seq(Frames)
         /\ Len(Called(s, f, g)) = Len(s) + 1
         /\ Called(s, f, g)[Len(s)] = f
         /\ Called(s, f, g)[Len(s) + 1] = g
         /\ \A i \in 1 .. Len(s) - 1 : Called(s, f, g)[i] = s[i]
<1>1. PICK r \in Seq(Frames) : /\ r = Front(s) /\ Len(r) = Len(s) - 1
                               /\ \A i \in 1 .. Len(s) - 1 : r[i] = s[i]
  BY StackOps
<1>2. PICK q \in Seq(Frames) : q = <<f, g>> /\ Len(q) = 2 /\ q[1] = f /\ q[2] = g
  <2>1. <<f, g>> \in Seq(Frames) /\ Len(<<f, g>>) = 2 /\ <<f, g>>[1] = f /\ <<f, g>>[2] = g
    OBVIOUS
  <2> QED
    BY <2>1
<1>3. /\ r \o q \in Seq(Frames) /\ Len(r \o q) = Len(r) + 2
      /\ (r \o q)[Len(r) + 1] = q[1] /\ (r \o q)[Len(r) + 2] = q[2]
      /\ \A i \in 1 .. Len(r) : (r \o q)[i] = r[i]
  BY <1>2
<1>4. Len(r) + 1 = Len(s) /\ Len(r) + 2 = Len(s) + 1 /\ 1 .. Len(r) = 1 .. Len(s) - 1
  BY <1>1
<1>5. \A i \in 1 .. Len(s) - 1 : (r \o q)[i] = s[i]
  BY <1>1, <1>3, <1>4
<1> QED
  BY <1>1, <1>2, <1>3, <1>4, <1>5 DEF Called

\* After a step of t its innermost frame is f, every other frame is in N or was
\* there before, under the innermost one.
Grown(t, N, f) ==
  /\ \A u \in Threads \ {t} : stack'[u] = stack[u]
  /\ stack'[t] # <<>> /\ Top(t)' = f
  /\ \A i \in DOMAIN stack'[t] :
       \/ stack'[t][i] \in N
       \/ i \in DOMAIN stack[t] /\ stack'[t][i] = stack[t][i] /\ i < Len(stack'[t])

\* After a step of t its innermost frame is gone, and the frame under it, if any,
\* goes on.
Popped(t) ==
  /\ \A u \in Threads \ {t} : stack'[u] = stack[u]
  /\ stack'[t] # <<>> => Top(t)'.pc \in Waiting
  /\ \A i \in DOMAIN stack'[t] :
       /\ i \in DOMAIN stack[t] /\ stack'[t][i] = stack[t][i]
       /\ i = Len(stack'[t]) /\ stack[t][i].pc = "resolved" =>
            Top(t).pc = "+resolve" /\ Top(t).cls = stack[t][i].cls

\* The innermost frame.
LEMMA TopFrame ==
  ASSUME Control, NEW t \in Threads, stack[t] # <<>>
  PROVE  /\ stack[t] \in Seq(Frames) /\ Len(stack[t]) \in Nat /\ Len(stack[t]) >= 1
         /\ DOMAIN stack[t] = 1 .. Len(stack[t])
         /\ Len(stack[t]) \in DOMAIN stack[t] /\ Top(t) = stack[t][Len(stack[t])]
         /\ Top(t) \in Frames /\ Shape(Top(t))
<1>1. /\ stack[t] \in Seq(Frames) /\ Len(stack[t]) \in Nat /\ Len(stack[t]) >= 1
      /\ DOMAIN stack[t] = 1 .. Len(stack[t])
  BY DEF Control, Stacks
<1>2. Len(stack[t]) \in DOMAIN stack[t] /\ Top(t) = stack[t][Len(stack[t])]
  BY <1>1 DEF Top, Last
<1>3. Top(t) \in Frames
  BY <1>1, <1>2
<1> QED
  BY <1>1, <1>2, <1>3 DEF Control, Stacks

\* A call is made.
LEMMA PushFrames ==
  ASSUME Control, NEW t \in Threads, NEW f \in Frames, Shape(f), Push(t, f),
         stack[t] = <<>> \/ Top(t).pc \in Waiting \ {"resolved"}
  PROVE  Stacks' /\ Grown(t, {f}, f)
<1>1. PICK s \in Seq(Frames) : s = stack[t]
  BY DEF Control, Stacks
<1>2. PICK r \in Seq(Frames) : /\ r = Append(s, f) /\ Len(r) = Len(s) + 1 /\ r[Len(s) + 1] = f
                               /\ \A i \in 1 .. Len(s) : r[i] = s[i]
  BY StackOps
<1>3. stack' = [stack EXCEPT ![t] = r]
  BY <1>1, <1>2 DEF Push
<1>4. stack' \in [Threads -> Seq(Frames)] /\ stack'[t] = r
      /\ \A u \in Threads \ {t} : stack'[u] = stack[u]
  BY <1>3 DEF Control, Stacks
<1>5. /\ DOMAIN r = 1 .. Len(s) + 1 /\ DOMAIN s = 1 .. Len(s) /\ Len(s) \in Nat
      /\ \A i \in DOMAIN r : i = Len(s) + 1 \/ i \in DOMAIN s
  BY <1>2
<1>6. Stacked(s) /\ \A i \in DOMAIN s : Shape(s[i])
  BY <1>1 DEF Control, Stacks
<1>7. s = <<>> \/ s[Len(s)].pc \in Waiting \ {"resolved"}
  BY <1>1 DEF Top, Last
<1>8. ASSUME NEW i \in DOMAIN r, i < Len(r)
      PROVE  /\ r[i].pc \in Waiting
             /\ r[i].pc = "resolved" => r[i + 1].pc = "+resolve" /\ r[i + 1].cls = r[i].cls
  <2>1. i \in DOMAIN s /\ r[i] = s[i] /\ s # <<>>
    BY <1>2, <1>5, <1>8
  <2>2. CASE i = Len(s)
    BY <1>7, <2>1, <2>2
  <2>3. CASE i < Len(s)
    <3>1. i + 1 \in 1 .. Len(s) /\ r[i + 1] = s[i + 1]
      BY <1>2, <1>5, <2>1, <2>3
    <3> QED
      BY <1>6, <2>1, <2>3, <3>1 DEF Stacked
  <2> QED
    BY <1>5, <2>1, <2>2, <2>3
<1>9. Stacked(r) /\ \A i \in DOMAIN r : Shape(r[i])
  <2>1. \A i \in DOMAIN r : Shape(r[i])
    BY <1>2, <1>5, <1>6
  <2> QED
    BY <1>8, <2>1 DEF Stacked
<1>10. Stacks'
  BY <1>4, <1>9 DEF Stacks, Control
<1>11. r # <<>> /\ r[Len(r)] = f
  BY <1>2, <1>5
<1>12. \A i \in DOMAIN r : r[i] \in {f} \/ (i \in DOMAIN s /\ r[i] = s[i] /\ i < Len(r))
  BY <1>2, <1>5
<1>13. Grown(t, {f}, f)
  BY <1>1, <1>4, <1>11, <1>12 DEF Grown, Top, Last
<1> QED
  BY <1>10, <1>13

\* The innermost frame goes on.
LEMMA WithFrames ==
  ASSUME Control, NEW t \in Threads, NEW f \in Frames, Shape(f), With(t, f),
         stack[t] # <<>>, Top(t).pc # "+resolve"
  PROVE  Stacks' /\ Grown(t, {f}, f)
<1>1. PICK s \in Seq(Frames) : s = stack[t] /\ s # <<>> /\ Len(s) >= 1
  BY TopFrame
<1>2. PICK r \in Seq(Frames) : /\ r = Append(Front(s), f) /\ Len(r) = Len(s) /\ r[Len(s)] = f
                               /\ \A i \in 1 .. Len(s) - 1 : r[i] = s[i]
  <2>1. /\ Append(Front(s), f) \in Seq(Frames) /\ Len(Append(Front(s), f)) = Len(s)
        /\ Append(Front(s), f)[Len(s)] = f
        /\ \A i \in 1 .. Len(s) - 1 : Append(Front(s), f)[i] = s[i]
    BY <1>1, StackOps
  <2> QED
    BY <2>1
<1>3. stack' = [stack EXCEPT ![t] = r]
  BY <1>1, <1>2 DEF With
<1>4. stack' \in [Threads -> Seq(Frames)] /\ stack'[t] = r
      /\ \A u \in Threads \ {t} : stack'[u] = stack[u]
  BY <1>3 DEF Control, Stacks
<1>5. /\ DOMAIN r = 1 .. Len(s) /\ DOMAIN s = 1 .. Len(s) /\ Len(s) \in Nat
      /\ \A i \in DOMAIN r : i = Len(s) \/ i \in 1 .. Len(s) - 1
  BY <1>2
<1>6. Stacked(s) /\ \A i \in DOMAIN s : Shape(s[i])
  BY <1>1 DEF Control, Stacks
<1>7. s[Len(s)].pc # "+resolve"
  BY <1>1 DEF Top, Last
<1>8. ASSUME NEW i \in DOMAIN r, i < Len(r)
      PROVE  /\ r[i].pc \in Waiting
             /\ r[i].pc = "resolved" => r[i + 1].pc = "+resolve" /\ r[i + 1].cls = r[i].cls
  <2>1. i \in DOMAIN s /\ r[i] = s[i] /\ i < Len(s)
    BY <1>2, <1>5, <1>8
  <2>2. CASE i + 1 = Len(s)
    <3>1. s[i].pc \in Waiting /\ s[i].pc # "resolved"
      BY <1>6, <1>7, <2>1, <2>2 DEF Stacked
    <3> QED
      BY <2>1, <3>1
  <2>3. CASE i + 1 < Len(s)
    <3>1. i + 1 \in 1 .. Len(s) - 1 /\ r[i + 1] = s[i + 1]
      BY <1>2, <1>5, <2>1, <2>3
    <3> QED
      BY <1>6, <2>1, <3>1 DEF Stacked
  <2> QED
    BY <1>5, <2>1, <2>2, <2>3
<1>9. Stacked(r) /\ \A i \in DOMAIN r : Shape(r[i])
  <2>1. \A i \in DOMAIN r : Shape(r[i])
    BY <1>2, <1>5, <1>6
  <2> QED
    BY <1>8, <2>1 DEF Stacked
<1>10. Stacks'
  BY <1>4, <1>9 DEF Stacks, Control
<1>11. r # <<>> /\ r[Len(r)] = f
  BY <1>1, <1>2, <1>5
<1>12. \A i \in DOMAIN r : r[i] \in {f} \/ (i \in DOMAIN s /\ r[i] = s[i] /\ i < Len(r))
  BY <1>2, <1>5
<1>13. Grown(t, {f}, f)
  BY <1>1, <1>4, <1>11, <1>12 DEF Grown, Top, Last
<1> QED
  BY <1>10, <1>13

\* The innermost frame goes on, with a call on top.
Calls(t, f, g) == stack' = [stack EXCEPT ![t] = Called(@, f, g)]

LEMMA CallFrames ==
  ASSUME Control, NEW t \in Threads, NEW f \in Frames, NEW g \in Frames, Shape(f), Shape(g),
         Calls(t, f, g), stack[t] # <<>>, Top(t).pc # "+resolve", f.pc \in Waiting,
         f.pc = "resolved" => g.pc = "+resolve" /\ g.cls = f.cls
  PROVE  Stacks' /\ Grown(t, {f, g}, g)
<1>1. PICK s \in Seq(Frames) : s = stack[t] /\ s # <<>> /\ Len(s) >= 1
  BY TopFrame
<1>2. PICK r \in Seq(Frames) :
        /\ r = Called(s, f, g) /\ Len(r) = Len(s) + 1 /\ r[Len(s)] = f
        /\ r[Len(s) + 1] = g /\ \A i \in 1 .. Len(s) - 1 : r[i] = s[i]
  <2>1. s # <<>>
    BY <1>1
  <2>2. /\ Called(s, f, g) \in Seq(Frames)
        /\ Len(Called(s, f, g)) = Len(s) + 1
        /\ Called(s, f, g)[Len(s)] = f
        /\ Called(s, f, g)[Len(s) + 1] = g
        /\ \A i \in 1 .. Len(s) - 1 : Called(s, f, g)[i] = s[i]
    BY <2>1, CalledOps, ZenonT(60)
  <2> QED
    BY <2>2
<1>3. stack' = [stack EXCEPT ![t] = r]
  BY <1>1, <1>2 DEF Calls
<1>4. stack' \in [Threads -> Seq(Frames)] /\ stack'[t] = r
      /\ \A u \in Threads \ {t} : stack'[u] = stack[u]
  BY <1>3 DEF Control, Stacks
<1>5. /\ DOMAIN r = 1 .. Len(s) + 1 /\ DOMAIN s = 1 .. Len(s) /\ Len(s) \in Nat
      /\ \A i \in DOMAIN r : i = Len(s) + 1 \/ i = Len(s) \/ i \in 1 .. Len(s) - 1
  BY <1>2
<1>6. Stacked(s) /\ \A i \in DOMAIN s : Shape(s[i])
  BY <1>1 DEF Control, Stacks
<1>7. s[Len(s)].pc # "+resolve"
  BY <1>1 DEF Top, Last
<1>8. ASSUME NEW i \in DOMAIN r, i < Len(r)
      PROVE  /\ r[i].pc \in Waiting
             /\ r[i].pc = "resolved" => r[i + 1].pc = "+resolve" /\ r[i + 1].cls = r[i].cls
  <2>1. CASE i = Len(s)
    BY <1>2, <2>1
  <2>2. CASE i + 1 = Len(s)
    <3>1. i \in DOMAIN s /\ r[i] = s[i] /\ i < Len(s)
      BY <1>2, <1>5, <1>8, <2>2
    <3>2. s[i].pc \in Waiting /\ s[i].pc # "resolved"
      BY <1>6, <1>7, <2>2, <3>1 DEF Stacked
    <3> QED
      BY <3>1, <3>2
  <2>3. CASE i + 1 < Len(s)
    <3>1. i \in 1 .. Len(s) - 1 /\ i + 1 \in 1 .. Len(s) - 1
      BY <1>5, <2>3
    <3>2. i \in DOMAIN s /\ r[i] = s[i] /\ i < Len(s) /\ r[i + 1] = s[i + 1]
      BY <1>2, <1>5, <3>1
    <3> QED
      BY <1>6, <3>2 DEF Stacked
  <2> QED
    BY <1>2, <1>5, <1>8, <2>1, <2>2, <2>3
<1>9. Stacked(r) /\ \A i \in DOMAIN r : Shape(r[i])
  <2>1. ASSUME NEW i \in DOMAIN r PROVE Shape(r[i])
    <3>1. CASE i \in 1 .. Len(s) - 1
      BY <1>2, <1>5, <1>6, <3>1
    <3>2. CASE i = Len(s) \/ i = Len(s) + 1
      BY <1>2, <3>2
    <3> QED
      BY <1>5, <3>1, <3>2
  <2> QED
    BY <1>8, <2>1 DEF Stacked
<1>10. Stacks'
  BY <1>4, <1>9 DEF Stacks, Control
<1>11. r # <<>> /\ r[Len(r)] = g
  BY <1>1, <1>2, <1>5
<1>12. ASSUME NEW i \in DOMAIN r
       PROVE  r[i] \in {f, g} \/ (i \in DOMAIN s /\ r[i] = s[i] /\ i < Len(r))
  <2>1. CASE i \in 1 .. Len(s) - 1
    BY <1>2, <1>5, <2>1
  <2>2. CASE i = Len(s) \/ i = Len(s) + 1
    BY <1>2, <2>2
  <2> QED
    BY <1>5, <2>1, <2>2
<1>13. Grown(t, {f, g}, g)
  BY <1>1, <1>4, <1>11, <1>12 DEF Grown, Top, Last
<1> QED
  BY <1>10, <1>13

\* The innermost frame returns.
LEMMA PopFrames ==
  ASSUME Control, NEW t \in Threads, Pop(t), stack[t] # <<>>
  PROVE  Stacks' /\ Popped(t)
<1>1. PICK s \in Seq(Frames) : s = stack[t] /\ s # <<>> /\ Len(s) >= 1
  BY TopFrame
<1>2. PICK r \in Seq(Frames) : /\ r = Front(s) /\ Len(r) = Len(s) - 1
                               /\ \A i \in 1 .. Len(s) - 1 : r[i] = s[i]
  <2>1. \E f \in Frames : TRUE
    BY TopFrame
  <2> QED
    BY <1>1, <2>1, StackOps
<1>3. stack' = [stack EXCEPT ![t] = r]
  BY <1>1, <1>2 DEF Pop
<1>4. stack' \in [Threads -> Seq(Frames)] /\ stack'[t] = r
      /\ \A u \in Threads \ {t} : stack'[u] = stack[u]
  BY <1>3 DEF Control, Stacks
<1>5. /\ DOMAIN r = 1 .. Len(s) - 1 /\ DOMAIN s = 1 .. Len(s) /\ Len(s) \in Nat
      /\ \A i \in DOMAIN r : i \in DOMAIN s /\ i < Len(s) /\ r[i] = s[i]
  BY <1>2
<1>6. Stacked(s) /\ \A i \in DOMAIN s : Shape(s[i])
  BY <1>1 DEF Control, Stacks
<1>7. Stacked(r) /\ \A i \in DOMAIN r : Shape(r[i])
  <2>1. \A i \in DOMAIN r : Shape(r[i])
    BY <1>5, <1>6
  <2>2. ASSUME NEW i \in DOMAIN r, i < Len(r)
        PROVE  i + 1 \in DOMAIN r
    BY <1>2, <1>5, <2>2
  <2> QED
    BY <1>5, <1>6, <2>1, <2>2 DEF Stacked
<1>8. Stacks'
  BY <1>4, <1>7 DEF Stacks, Control
<1>9. r # <<>> => r[Len(r)].pc \in Waiting
  <2>1. r # <<>> => Len(r) \in DOMAIN r
    BY <1>2, <1>5
  <2> QED
    BY <1>5, <1>6, <2>1 DEF Stacked
<1>10. ASSUME NEW i \in DOMAIN r, i = Len(r), s[i].pc = "resolved"
       PROVE  s[Len(s)].pc = "+resolve" /\ s[Len(s)].cls = s[i].cls
  <2>1. i + 1 = Len(s)
    BY <1>2, <1>5, <1>10
  <2> QED
    BY <1>5, <1>6, <1>10, <2>1 DEF Stacked
<1>11. Popped(t)
  BY <1>1, <1>4, <1>5, <1>9, <1>10 DEF Popped, Top, Last
<1> QED
  BY <1>8, <1>11

\* A lookup f goes on at p as g, with the answer a and the flag r.
Onward(f, g, p, a, r) ==
  \/ g = [f EXCEPT !.pc = p] /\ a = f.got /\ r = f.resolver
  \/ g = [f EXCEPT !.pc = p, !.got = a] /\ r = f.resolver
  \/ g = [f EXCEPT !.got = a, !.pc = p] /\ r = f.resolver
  \/ g = [f EXCEPT !.pc = p, !.resolver = r] /\ a = f.got

LEMMA FrameGoes ==
  ASSUME NEW f \in Frames, Shape(f), f.pc \notin {"flush", "+initialize", "+resolve"},
         NEW p \in PCs \ {"flush", "+initialize", "+resolve"}, NEW a \in Answers,
         NEW r \in BOOLEAN, NEW g, Onward(f, g, p, a, r)
  PROVE  /\ g \in Frames /\ Shape(g) /\ g.cls \in Classes /\ g.pc = p /\ g.cls = f.cls
         /\ g.initialize = f.initialize /\ g.resolver = r /\ g.got = a /\ g.todo = f.todo
<1>1. f.cls \in Classes
  BY DEF Shape
<1>2. /\ g \in Frames /\ g.pc = p /\ g.cls = f.cls
      /\ g.initialize = f.initialize /\ g.resolver = r /\ g.got = a /\ g.todo = f.todo
  BY DEF Frames, Onward
<1> QED
  BY <1>1, <1>2 DEF Shape

\* The frames of new calls.
LEMMA NewFrames ==
  /\ \A c \in Classes, i, r \in BOOLEAN :
       Lookup(c, i, r) \in Frames /\ Shape(Lookup(c, i, r))
  /\ \A c \in Classes, m \in {"+initialize", "+resolve"} :
       ClientCode(c, m) \in Frames /\ Shape(ClientCode(c, m))
  /\ \A s \in SUBSET Classes : Edit(s) \in Frames /\ Shape(Edit(s))
<1>1. \A c \in Classes, i, r \in BOOLEAN : Lookup(c, i, r) \in Frames /\ Shape(Lookup(c, i, r))
  BY DEF Lookup, Frames, Shape, PCs, Answers
<1>2. \A c \in Classes, m \in {"+initialize", "+resolve"} :
        ClientCode(c, m) \in Frames /\ Shape(ClientCode(c, m))
  BY DEF ClientCode, Frames, Shape, PCs, Waiting, Answers
<1>3. \A s \in SUBSET Classes : Edit(s) \in Frames /\ Shape(Edit(s))
  BY DEF Edit, Frames, Shape, PCs, Locking, Answers
<1> QED
  BY <1>1, <1>2, <1>3

\* A step of t takes runtimeLock, frees it or leaves it.
LEMMA LockStep ==
  ASSUME Control, NEW t \in Threads, \A u \in Threads \ {t} : stack'[u] = stack[u],
         \/ runtimeLock' = runtimeLock /\ (OnLock(t)' <=> OnLock(t))
         \/ runtimeLock = NoThread /\ runtimeLock' = t /\ OnLock(t)'
         \/ OnLock(t) /\ runtimeLock' = NoThread /\ ~OnLock(t)'
  PROVE  Locks'
<1>1. \A u \in Threads : runtimeLock = u <=> OnLock(u)
  BY DEF Control, Locks
<1>2. \A u \in Threads \ {t} : OnLock(u)' <=> OnLock(u)
  BY DEF OnLock, Top
<1>3. NoThread \notin Threads
  BY Constants
<1> QED
  BY <1>1, <1>2, <1>3 DEF Locks

\* The innermost frame of t is a lookup and goes on at p.
Goes(t, p, a, r) ==
  \E g \in Frames :
    /\ Grown(t, {g}, g) /\ Shape(g) /\ g.pc = p /\ g.cls = Top(t).cls
    /\ g.initialize = Top(t).initialize /\ g.resolver = r /\ g.got = a

LEMMA GoesStep ==
  ASSUME Control, NEW t \in Threads, stack[t] # <<>>,
         Top(t).pc \notin {"flush", "+initialize", "+resolve"},
         NEW p \in PCs \ {"flush", "+initialize", "+resolve"}, NEW a \in Answers,
         NEW r \in BOOLEAN, NEW g, With(t, g), Onward(Top(t), g, p, a, r),
         \/ runtimeLock' = runtimeLock /\ (p \in Locking <=> Top(t).pc \in Locking)
         \/ runtimeLock = NoThread /\ runtimeLock' = t /\ p \in Locking
         \/ Top(t).pc \in Locking /\ runtimeLock' = NoThread /\ p \notin Locking
  PROVE  Stacks' /\ Locks' /\ Goes(t, p, a, r)
<1>1. Top(t) \in Frames /\ Shape(Top(t))
  BY TopFrame
<1>2. PICK f \in Frames : f = Top(t) /\ Shape(f)
  BY <1>1
<1>3. Onward(f, g, p, a, r)
  BY <1>2
<1>4. f.pc \notin {"flush", "+initialize", "+resolve"}
  BY <1>2
<1>5. /\ g \in Frames /\ Shape(g) /\ g.pc = p /\ g.cls = f.cls
      /\ g.initialize = f.initialize /\ g.resolver = r /\ g.got = a
  BY <1>2, <1>3, <1>4, FrameGoes
<1>6. Stacks' /\ Grown(t, {g}, g)
  BY <1>5, WithFrames
<1>7. /\ \A u \in Threads \ {t} : stack'[u] = stack[u]
      /\ OnLock(t)' <=> p \in Locking
      /\ OnLock(t) <=> Top(t).pc \in Locking
  BY <1>5, <1>6 DEF Grown, OnLock
<1>8. Locks'
  BY <1>7, LockStep
<1> QED
  BY <1>2, <1>5, <1>6, <1>8 DEF Goes

\* A call is made, of a lookup or a method, or of an edit that takes the lock.
LEMMA CallStep ==
  ASSUME Control, NEW t \in Threads, NEW f \in Frames, Shape(f), Push(t, f),
         InClient(t) \/ At(t, "initialize"),
         \/ runtimeLock' = runtimeLock /\ f.pc \notin Locking
         \/ runtimeLock = NoThread /\ runtimeLock' = t /\ f.pc \in Locking
  PROVE  Stacks' /\ Locks' /\ Grown(t, {f}, f)
<1>1. stack[t] = <<>> \/ Top(t).pc \in {"initialize", "+initialize", "+resolve"}
  BY DEF InClient, At
<1>2. stack[t] = <<>> \/ Top(t).pc \in Waiting \ {"resolved"}
  BY <1>1 DEF Waiting
<1>3. Stacks' /\ Grown(t, {f}, f)
  BY <1>2, PushFrames
<1>4. /\ \A u \in Threads \ {t} : stack'[u] = stack[u]
      /\ OnLock(t)' <=> f.pc \in Locking
  BY <1>3 DEF Grown, OnLock
<1>5. ~OnLock(t)
  BY <1>1 DEF OnLock, Locking
<1>6. Locks'
  BY <1>4, <1>5, LockStep
<1> QED
  BY <1>3, <1>6

\* The innermost frame goes on, with a call on top; neither has the lock.
LEMMA NestStep ==
  ASSUME Control, NEW t \in Threads, stack[t] # <<>>, Top(t).pc \in {"resolve", "resolved"},
         NEW p \in {"resolved", "relock"}, NEW g \in Frames, Shape(g), g.pc \notin Locking,
         Calls(t, [Top(t) EXCEPT !.pc = p], g), UNCHANGED runtimeLock,
         p = "resolved" => g.pc = "+resolve" /\ g.cls = Top(t).cls
  PROVE  /\ Stacks' /\ Locks'
         /\ \E f \in Frames : /\ Grown(t, {f, g}, g) /\ f.pc = p /\ f.cls = Top(t).cls
                              /\ f.initialize = Top(t).initialize
                              /\ f.resolver = Top(t).resolver /\ f.got = Top(t).got
<1>1. Top(t) \in Frames /\ Shape(Top(t))
  BY TopFrame
<1>2. PICK h \in Frames : h = Top(t) /\ Shape(h)
  BY <1>1
<1>3. PICK f : f = [h EXCEPT !.pc = p] /\ Onward(h, f, p, h.got, h.resolver)
  BY DEF Onward
<1>4. h.pc \notin {"flush", "+initialize", "+resolve"} /\ h.got \in Answers /\ h.resolver \in BOOLEAN
  BY <1>2 DEF Frames
<1>5. p \in PCs \ {"flush", "+initialize", "+resolve"} /\ p \in Waiting
  BY DEF PCs, Waiting
<1>6. /\ f \in Frames /\ Shape(f) /\ f.pc = p /\ f.cls = h.cls
      /\ f.initialize = h.initialize /\ f.resolver = h.resolver /\ f.got = h.got
  BY <1>2, <1>3, <1>4, <1>5, FrameGoes
<1>7. Calls(t, f, g) /\ Top(t).pc # "+resolve" /\ f.pc \in Waiting
      /\ (f.pc = "resolved" => g.pc = "+resolve" /\ g.cls = f.cls)
  BY <1>2, <1>3, <1>5, <1>6
<1>8. Stacks' /\ Grown(t, {f, g}, g)
  BY <1>6, <1>7, CallFrames
<1>9. /\ \A u \in Threads \ {t} : stack'[u] = stack[u]
      /\ ~OnLock(t)' /\ ~OnLock(t)
  BY <1>8 DEF Grown, OnLock, Locking
<1>10. Locks'
  BY <1>9, LockStep
<1> QED
  BY <1>2, <1>6, <1>8, <1>10

\* The innermost frame returns; only that of an edit gives the lock back.
LEMMA ReturnStep ==
  ASSUME Control, NEW t \in Threads, stack[t] # <<>>, Pop(t),
         \/ runtimeLock' = runtimeLock /\ Top(t).pc \notin Locking
         \/ runtimeLock' = NoThread /\ Top(t).pc \in Locking
  PROVE  Stacks' /\ Locks' /\ Popped(t)
<1>1. Stacks' /\ Popped(t)
  BY PopFrames
<1>2. /\ \A u \in Threads \ {t} : stack'[u] = stack[u]
      /\ ~OnLock(t)' /\ (OnLock(t) <=> Top(t).pc \in Locking)
  BY <1>1 DEF Popped, OnLock, Locking, Waiting
<1>3. Locks'
  BY <1>2, LockStep
<1> QED
  BY <1>1, <1>3
-----------------------------------------------------------------------------
(* Method lists. *)

\* The lists of the categories cats.
Named(cats) == [k \in DOMAIN cats |-> Cat(cats[k])]

LEMMA NamedOps ==
  ASSUME NEW cats \in Seq(Categories), NEW k \in Categories
  PROVE  /\ Named(cats) \in Seq(Lists) /\ Len(Named(cats)) = Len(cats)
         /\ Named(Append(cats, k)) = Append(Named(cats), Cat(k))
         /\ Named(<<k>>) = <<Cat(k)>>
<1>1. \A j \in Categories : Cat(j) \in Lists
  BY DEF Lists
<1>2. Named(cats) \in Seq(Lists) /\ Len(Named(cats)) = Len(cats)
  BY <1>1 DEF Named
<1>3. Named(<<k>>) = <<Cat(k)>>
  BY DEF Named
<1>4. Named(Append(cats, k)) = Append(Named(cats), Cat(k))
  <2>1. PICK r \in Seq(Categories) : /\ r = Append(cats, k) /\ Len(r) = Len(cats) + 1
                                     /\ r[Len(cats) + 1] = k
                                     /\ \A i \in 1 .. Len(cats) : r[i] = cats[i]
    <3>1. /\ Append(cats, k) \in Seq(Categories) /\ Len(Append(cats, k)) = Len(cats) + 1
          /\ Append(cats, k)[Len(cats) + 1] = k
          /\ \A i \in 1 .. Len(cats) : Append(cats, k)[i] = cats[i]
      OBVIOUS
    <3> QED
      BY <3>1
  <2>2. /\ Named(r) \in Seq(Lists) /\ Len(Named(r)) = Len(cats) + 1
        /\ \A i \in 1 .. Len(cats) + 1 : Named(r)[i] = Cat(r[i])
    BY <1>1, <2>1 DEF Named
  <2>3. PICK a \in Seq(Lists) : /\ a = Named(cats) /\ Len(a) = Len(cats)
                                /\ \A i \in 1 .. Len(cats) : a[i] = Cat(cats[i])
    <3>1. \A i \in 1 .. Len(cats) : Named(cats)[i] = Cat(cats[i])
      BY DEF Named
    <3> QED
      BY <1>2, <3>1
  <2>4. /\ Append(a, Cat(k)) \in Seq(Lists) /\ Len(Append(a, Cat(k))) = Len(cats) + 1
        /\ Append(a, Cat(k))[Len(cats) + 1] = Cat(k)
        /\ \A i \in 1 .. Len(cats) : Append(a, Cat(k))[i] = Cat(cats[i])
    BY <1>1, <2>3
  <2>5. \A i \in 1 .. Len(cats) + 1 : i = Len(cats) + 1 \/ i \in 1 .. Len(cats)
    OBVIOUS
  <2>6. \A i \in 1 .. Len(cats) + 1 : Named(r)[i] = Append(a, Cat(k))[i]
    BY <2>1, <2>2, <2>4, <2>5
  <2>7. Named(r) = Append(a, Cat(k))
    BY <2>2, <2>4, <2>6, SeqEqual
  <2> QED
    BY <2>1, <2>3, <2>7
<1> QED
  BY <1>2, <1>3, <1>4

LEMMA ReverseOps ==
  ASSUME NEW s \in Seq(Lists)
  PROVE  /\ Reverse(s) \in Seq(Lists) /\ Len(Reverse(s)) = Len(s)
         /\ \A i \in 1 .. Len(s) : Reverse(s)[i] = s[(Len(s) - i) + 1]
         /\ Reverse(s) = <<>> <=> s = <<>>
         /\ Range(Reverse(s)) = Range(s)
<1>1. \A i \in 1 .. Len(s) : (Len(s) - i) + 1 \in 1 .. Len(s)
  OBVIOUS
<1>2. \A i \in 1 .. Len(s) : s[(Len(s) - i) + 1] \in Lists
  BY <1>1
<1>3. Reverse(s) \in Seq(Lists) /\ Len(Reverse(s)) = Len(s)
  BY <1>2 DEF Reverse
<1>4. \A i \in 1 .. Len(s) : Reverse(s)[i] = s[(Len(s) - i) + 1]
  BY DEF Reverse
<1>5. Reverse(s) = <<>> <=> s = <<>>
  BY <1>3
<1>6. Range(Reverse(s)) = Range(s)
  <2>1. DOMAIN s = 1 .. Len(s) /\ DOMAIN Reverse(s) = 1 .. Len(s)
    BY <1>3
  <2>2. Range(Reverse(s)) \subseteq Range(s)
    BY <1>1, <1>4, <2>1 DEF Range
  <2>3. ASSUME NEW i \in 1 .. Len(s) PROVE s[i] \in Range(Reverse(s))
    <3>1. PICK j \in 1 .. Len(s) : (Len(s) - j) + 1 = i
      <4>1. (Len(s) - i) + 1 \in 1 .. Len(s) /\ (Len(s) - ((Len(s) - i) + 1)) + 1 = i
        OBVIOUS
      <4> QED
        BY <4>1
    <3>2. Reverse(s)[j] = s[i]
      BY <1>4, <3>1
    <3> QED
      BY <2>1, <3>2 DEF Range
  <2> QED
    BY <2>1, <2>2, <2>3 DEF Range
<1> QED
  BY <1>3, <1>4, <1>5, <1>6

LEMMA Associative ==
  ASSUME NEW u \in Seq(Lists), NEW v \in Seq(Lists), NEW w \in Seq(Lists)
  PROVE  (u \o v) \o w = u \o (v \o w)
  BY SMTT(40)

\* What comes last is found first.
LEMMA ReverseAppend ==
  ASSUME NEW s \in Seq(Lists), NEW x \in Lists, NEW b \in Seq(Lists)
  PROVE  Reverse(Append(s, x)) \o b = <<x>> \o (Reverse(s) \o b)
<1>1. PICK n \in Nat : n = Len(s)
  OBVIOUS
<1>2. PICK a \in Seq(Lists) : /\ a = Append(s, x) /\ Len(a) = n + 1 /\ a[n + 1] = x
                              /\ \A i \in 1 .. n : a[i] = s[i]
  <2>1. /\ Append(s, x) \in Seq(Lists) /\ Len(Append(s, x)) = n + 1 /\ Append(s, x)[n + 1] = x
        /\ \A i \in 1 .. n : Append(s, x)[i] = s[i]
    BY <1>1
  <2> QED
    BY <2>1
<1>3. PICK ra \in Seq(Lists) : /\ ra = Reverse(a) /\ Len(ra) = n + 1
                               /\ \A i \in 1 .. n + 1 : ra[i] = a[((n + 1) - i) + 1]
  <2>1. /\ Reverse(a) \in Seq(Lists) /\ Len(Reverse(a)) = Len(a)
        /\ \A i \in 1 .. Len(a) : Reverse(a)[i] = a[(Len(a) - i) + 1]
    BY ReverseOps, Zenon
  <2> QED
    BY <1>2, <2>1
<1>4. PICK rs \in Seq(Lists) : /\ rs = Reverse(s) /\ Len(rs) = n
                               /\ \A i \in 1 .. n : rs[i] = s[(n - i) + 1]
  <2>1. /\ Reverse(s) \in Seq(Lists) /\ Len(Reverse(s)) = Len(s)
        /\ \A i \in 1 .. Len(s) : Reverse(s)[i] = s[(Len(s) - i) + 1]
    BY ReverseOps, Zenon
  <2> QED
    BY <1>1, <2>1
<1>5. PICK y \in Seq(Lists) : y = <<x>> /\ Len(y) = 1 /\ y[1] = x
  <2>1. <<x>> \in Seq(Lists) /\ Len(<<x>>) = 1 /\ <<x>>[1] = x
    OBVIOUS
  <2> QED
    BY <2>1
<1>6. PICK z \in Seq(Lists) : /\ z = y \o rs /\ Len(z) = n + 1 /\ z[1] = x
                              /\ \A i \in 2 .. n + 1 : z[i] = rs[i - 1]
  <2>1. /\ y \o rs \in Seq(Lists) /\ Len(y \o rs) = n + 1 /\ (y \o rs)[1] = x
        /\ \A i \in 2 .. n + 1 : (y \o rs)[i] = rs[i - 1]
    BY <1>4, <1>5
  <2> QED
    BY <2>1
<1>7. ASSUME NEW i \in 1 .. n + 1 PROVE ra[i] = z[i]
  <2>1. CASE i = 1
    <3>1. ((n + 1) - i) + 1 = n + 1
      BY <2>1
    <3> QED
      BY <1>2, <1>3, <1>6, <2>1, <3>1
  <2>2. CASE i \in 2 .. n + 1
    <3>1. /\ ((n + 1) - i) + 1 \in 1 .. n /\ i - 1 \in 1 .. n
          /\ (n - (i - 1)) + 1 = ((n + 1) - i) + 1
      BY <2>2
    <3>2. ra[i] = s[((n + 1) - i) + 1]
      BY <1>2, <1>3, <3>1
    <3>3. z[i] = s[(n - (i - 1)) + 1]
      BY <1>4, <1>6, <2>2, <3>1
    <3> QED
      BY <3>1, <3>2, <3>3
  <2> QED
    BY <2>1, <2>2
<1>8. ra = z
  BY <1>3, <1>6, <1>7, SeqEqual
<1>9. (y \o rs) \o b = y \o (rs \o b)
  BY Associative, ZenonT(60)
<1> QED
  BY <1>2, <1>3, <1>4, <1>5, <1>6, <1>8, <1>9

\* The lists that attachCategories makes.
LEMMA Attached ==
  ASSUME NEW cats \in Seq(Categories), NEW k \in Categories, NEW old \in Seq(Lists)
  PROVE  /\ attachCategories(cats, old) = Reverse(Named(cats)) \o old
         /\ attachCategories(cats, old) \in Seq(Lists)
         /\ attachCategories(<<k>>, old) = <<Cat(k)>> \o old
         /\ <<Cat(k)>> \o old \in Seq(Lists)
<1>1. attachCategories(cats, old) = Reverse(Named(cats)) \o old
  BY DEF attachCategories, Named
<1>2. Reverse(Named(cats)) \in Seq(Lists)
  BY NamedOps, ReverseOps
<1>3. attachCategories(<<k>>, old) = Reverse(Named(<<k>>)) \o old
  BY DEF attachCategories, Named
<1>4. Named(<<k>>) = <<Cat(k)>> /\ Cat(k) \in Lists
  BY NamedOps DEF Lists
<1>5. Reverse(<<Cat(k)>>) = <<Cat(k)>>
  <2>1. PICK x \in Lists : x = Cat(k)
    BY <1>4
  <2>2. <<x>> \in Seq(Lists) /\ Len(<<x>>) = 1 /\ <<x>>[1] = x
    OBVIOUS
  <2>3. Reverse(<<x>>) \in Seq(Lists) /\ Len(Reverse(<<x>>)) = 1 /\ Reverse(<<x>>)[1] = x
    <3>1. PICK y \in Seq(Lists) : y = <<x>> /\ Len(y) = 1 /\ y[1] = x
      BY <2>2
    <3>2. /\ Reverse(y) \in Seq(Lists) /\ Len(Reverse(y)) = Len(y)
          /\ \A i \in 1 .. Len(y) : Reverse(y)[i] = y[(Len(y) - i) + 1]
      BY ReverseOps, Zenon
    <3>3. Reverse(y)[1] = y[(1 - 1) + 1]
      BY <3>1, <3>2
    <3> QED
      BY <3>1, <3>2, <3>3
  <2>4. Reverse(<<x>>) = <<x>>
    BY <2>2, <2>3, SeqEqual
  <2> QED
    BY <2>1, <2>4
<1>6. Reverse(Named(cats)) \o old \in Seq(Lists)
  BY <1>2
<1>7. <<Cat(k)>> \o old \in Seq(Lists)
  BY <1>4
<1>8. attachCategories(<<k>>, old) = <<Cat(k)>> \o old
  BY <1>3, <1>4, <1>5, Zenon
<1> QED
  BY <1>1, <1>6, <1>7, <1>8, Zenon
-----------------------------------------------------------------------------
(* First layer: Control, and what each operation does to the stack of its *)
(* thread. *)

LEMMA StepSend ==
  ASSUME Control, NEW t \in Threads, NEW c \in Classes, objc_msgSend(t, c)
  PROVE  Control' /\ Grown(t, {Lookup(c, TRUE, TRUE)}, Lookup(c, TRUE, TRUE))
<1>1. PICK f \in Frames : f = Lookup(c, TRUE, TRUE) /\ Shape(f)
  BY NewFrames
<1>2. InClient(t) /\ Push(t, f) /\ runtimeLock' = runtimeLock
  BY <1>1 DEF objc_msgSend
<1>3. f.pc \notin Locking
  BY <1>1 DEF Lookup, Locking
<1>4. Stacks' /\ Locks' /\ Grown(t, {f}, f)
  BY <1>2, <1>3, <1>1, CallStep
<1>5. Typed'
  BY DEF objc_msgSend, Control, Typed, table, inits
<1> QED
  BY <1>1, <1>4, <1>5 DEF Control

LEMMA StepCached ==
  ASSUME Control, NEW t \in Threads, CacheLookup(t)
  PROVE  /\ Control' /\ stack[t] # <<>> /\ Top(t).pc = "cached"
         /\ \/ /\ cache[Top(t).cls] # None
               /\ Goes(t, "done", cache[Top(t).cls], Top(t).resolver)
            \/ Goes(t, "slow", None, Top(t).resolver)
<1>1. stack[t] # <<>> /\ Top(t).pc = "cached" /\ UNCHANGED runtimeLock
  BY DEF CacheLookup, At
<1>2. Top(t) \in Frames /\ Shape(Top(t)) /\ Top(t).resolver \in BOOLEAN
  BY <1>1, TopFrame DEF Frames
<1>3. PICK a \in Answers : a = cache[Top(t).cls]
  BY <1>1, <1>2 DEF Shape, Control, Typed
<1>4. PICK p : p = IF a # None THEN "done" ELSE "slow"
  OBVIOUS
<1>5. p \in PCs \ {"flush", "+initialize", "+resolve"} /\ p \notin Locking
  BY <1>4 DEF PCs, Locking
<1>6. PICK g : g = [Top(t) EXCEPT !.got = a, !.pc = p] /\ With(t, g)
  BY <1>3, <1>4 DEF CacheLookup
<1>7. Onward(Top(t), g, p, a, Top(t).resolver)
  BY <1>6 DEF Onward
<1>8. Top(t).pc \notin {"flush", "+initialize", "+resolve"} /\ Top(t).pc \notin Locking
  BY <1>1 DEF Locking
<1>9. Stacks' /\ Locks' /\ Goes(t, p, a, Top(t).resolver)
  BY <1>1, <1>2, <1>5, <1>6, <1>7, <1>8, GoesStep
<1>10. Typed'
  BY DEF CacheLookup, Control, Typed, table, inits
<1> QED
  BY <1>1, <1>3, <1>4, <1>9, <1>10 DEF Control

\* What realizeClass makes of the tables.
LEMMA Realized ==
  ASSUME Typed, NEW c \in Classes, realizeClass(c)
  PROVE  /\ realized' = realized \cup Range(chain[c]) /\ realized' \subseteq Classes
         /\ lists' \in [Classes -> Seq(Lists)] /\ unattached' \in [Classes -> Seq(Categories)]
         /\ \A k \in Classes :
              IF k \in Range(chain[c]) \ realized
              THEN /\ lists'[k] = Reverse(Named(unattached[k]))
                                     \o (IF k \in base THEN <<Own(k)>> ELSE <<>>)
                   /\ unattached'[k] = <<>>
              ELSE lists'[k] = lists[k] /\ unattached'[k] = unattached[k]
<1> DEFINE new == Range(chain[c]) \ realized
           baseMethods(k) == IF k \in base THEN <<Own(k)>> ELSE <<>>
<1>1. /\ realized' = realized \cup new
      /\ lists' = [k \in Classes |->
                     IF k \in new THEN attachCategories(unattached[k], baseMethods(k))
                     ELSE lists[k]]
      /\ unattached' = [k \in Classes |-> IF k \in new THEN <<>> ELSE unattached[k]]
  BY DEF realizeClass
<1>2. realized' = realized \cup Range(chain[c]) /\ realized' \subseteq Classes
  BY <1>1, Chains DEF Typed
<1>3. \A k \in Classes : baseMethods(k) \in Seq(Lists)
  <2>1. \A k \in Classes : Own(k) \in Lists
    BY DEF Lists
  <2> QED
    BY <2>1
<1>4. ASSUME NEW k \in Classes
      PROVE  /\ attachCategories(unattached[k], baseMethods(k))
                  = Reverse(Named(unattached[k])) \o baseMethods(k)
             /\ attachCategories(unattached[k], baseMethods(k)) \in Seq(Lists)
  <2>1. PICK u \in Seq(Categories) : u = unattached[k]
    BY DEF Typed
  <2>2. PICK b \in Seq(Lists) : b = baseMethods(k)
    BY <1>3
  <2>3. attachCategories(u, b) = Reverse(Named(u)) \o b
    BY DEF attachCategories, Named
  <2>4. Named(u) \in Seq(Lists)
    <3>1. \A j \in Categories : Cat(j) \in Lists
      BY DEF Lists
    <3> QED
      BY <3>1 DEF Named
  <2>5. Reverse(Named(u)) \in Seq(Lists)
    BY <2>4, ReverseOps
  <2>6. Reverse(Named(u)) \o b \in Seq(Lists)
    BY <2>5
  <2> QED
    BY <2>1, <2>2, <2>3, <2>6
<1> HIDE DEF new, baseMethods
<1>5. /\ lists' \in [Classes -> Seq(Lists)]
      /\ \A k \in Classes : lists'[k] = IF k \in new
                                        THEN Reverse(Named(unattached[k])) \o baseMethods(k)
                                        ELSE lists[k]
  BY <1>1, <1>4 DEF Typed
<1>6. /\ unattached' \in [Classes -> Seq(Categories)]
      /\ \A k \in Classes : unattached'[k] = IF k \in new THEN <<>> ELSE unattached[k]
  BY <1>1 DEF Typed
<1> USE DEF new, baseMethods
<1> QED
  BY <1>2, <1>5, <1>6

LEMMA StepSlow ==
  ASSUME Control, NEW t \in Threads, SlowPath(t)
  PROVE  /\ Control' /\ stack[t] # <<>> /\ Top(t).pc = "slow" /\ Top(t).cls \in Classes
         /\ runtimeLock = NoThread /\ realizeClass(Top(t).cls)
         /\ \/ Goes(t, "initialize", Top(t).got, Top(t).resolver)
            \/ /\ Top(t).initialize => init[Top(t).cls] = "yes"
               /\ Goes(t, "search", Top(t).got, Top(t).resolver)
<1>1. /\ stack[t] # <<>> /\ Top(t).pc = "slow" /\ runtimeLock = NoThread
      /\ realizeClass(Top(t).cls)
  BY DEF SlowPath, At
<1>2. /\ Top(t) \in Frames /\ Shape(Top(t)) /\ Top(t).resolver \in BOOLEAN
      /\ Top(t).got \in Answers /\ Top(t).initialize \in BOOLEAN
  BY <1>1, TopFrame DEF Frames
<1>3. Top(t).cls \in Classes
  BY <1>1, <1>2 DEF Shape
<1>4. PICK p : /\ p \in {"initialize", "search"}
               /\ p = "initialize" => UNCHANGED runtimeLock
               /\ p = "search" =>
                    runtimeLock' = t /\ (Top(t).initialize => init[Top(t).cls] = "yes")
               /\ Goto(t, p)
  <2>1. CASE Top(t).initialize /\ init[Top(t).cls] # "yes"
    BY <2>1 DEF SlowPath
  <2>2. CASE ~(Top(t).initialize /\ init[Top(t).cls] # "yes")
    BY <2>2 DEF SlowPath
  <2> QED
    BY <2>1, <2>2
<1>5. PICK g : g = [Top(t) EXCEPT !.pc = p] /\ With(t, g)
  BY <1>4 DEF Goto
<1>6. Onward(Top(t), g, p, Top(t).got, Top(t).resolver)
  BY <1>5 DEF Onward
<1>7. /\ Top(t).pc \notin {"flush", "+initialize", "+resolve"} /\ Top(t).pc \notin Locking
      /\ p \in PCs \ {"flush", "+initialize", "+resolve"}
      /\ p \in Locking <=> p = "search"
  BY <1>1, <1>4 DEF Locking, PCs, Waiting
<1>8. Stacks' /\ Locks' /\ Goes(t, p, Top(t).got, Top(t).resolver)
  BY <1>1, <1>2, <1>4, <1>5, <1>6, <1>7, GoesStep
<1>9. Typed'
  <2>1. /\ lists' \in [Classes -> Seq(Lists)] /\ unattached' \in [Classes -> Seq(Categories)]
        /\ realized' \subseteq Classes
    BY <1>1, <1>3, Realized DEF Control
  <2>2. runtimeLock' \in Threads \cup {NoThread}
    BY <1>1, <1>4
  <2>3. UNCHANGED <<base, imp, arrived, cache, init, pending, sends, edits>>
    BY DEF SlowPath, inits
  <2> QED
    BY <2>1, <2>2, <2>3 DEF Control, Typed
<1> QED
  BY <1>1, <1>3, <1>4, <1>8, <1>9 DEF Control

LEMMA StepRelock ==
  ASSUME Control, NEW t \in Threads, Relock(t)
  PROVE  /\ Control' /\ stack[t] # <<>> /\ Top(t).pc = "relock"
         /\ Goes(t, "search", Top(t).got, Top(t).resolver)
<1>1. /\ stack[t] # <<>> /\ Top(t).pc = "relock" /\ runtimeLock = NoThread
      /\ runtimeLock' = t
  BY DEF Relock, At, Lock
<1>2. /\ Top(t) \in Frames /\ Shape(Top(t)) /\ Top(t).resolver \in BOOLEAN
      /\ Top(t).got \in Answers
  BY <1>1, TopFrame DEF Frames
<1>3. PICK g : g = [Top(t) EXCEPT !.pc = "search"] /\ With(t, g)
  BY DEF Relock, Goto
<1>4. Onward(Top(t), g, "search", Top(t).got, Top(t).resolver)
  BY <1>3 DEF Onward
<1>5. /\ Top(t).pc \notin {"flush", "+initialize", "+resolve"}
      /\ "search" \in PCs \ {"flush", "+initialize", "+resolve"} /\ "search" \in Locking
  BY <1>1 DEF Locking, PCs
<1>6. Stacks' /\ Locks' /\ Goes(t, "search", Top(t).got, Top(t).resolver)
  BY <1>1, <1>2, <1>3, <1>4, <1>5, GoesStep
<1>7. Typed'
  BY <1>1 DEF Relock, Control, Typed, table, inits
<1> QED
  BY <1>1, <1>6, <1>7 DEF Control

\* The answers of classes.
LEMMA AnswerType ==
  ASSUME Typed, NEW k \in Classes
  PROVE  /\ Answer(k) \in Answers
         /\ cache[k] = None => /\ Answer(k) = None <=> lists[k] = <<>>
                               /\ Answer(k) # Forward
         /\ cache[k] # None => Answer(k) = cache[k]
<1>1. cache[k] \in Answers /\ lists[k] \in Seq(Lists)
  BY DEF Typed
<1>2. lists[k] # <<>> => Head(lists[k]) \in Lists
  BY <1>1
<1>3. lists[k] # <<>> => imp[Head(lists[k])] \in Imps
  BY <1>2 DEF Typed
<1>4. \A a \in Imps : a # None /\ a # Forward
  <2>1. ASSUME NEW a \in Imps PROVE Len(a) = 2
    <3>1. PICK l \in Lists, n \in Nat : a = <<l, n>>
      BY DEF Imps
    <3> QED
      BY <3>1
  <2>2. Len(Forward) = 1 /\ Len(None) = 0
    BY DEF Forward, None
  <2> QED
    BY <2>1, <2>2
<1>5. Imps \subseteq Answers /\ None \in Answers /\ None # Forward
  BY DEF Answers, None, Forward
<1> QED
  BY <1>1, <1>3, <1>4, <1>5 DEF Answer

\* What the search along the superclasses ends with.
Searched(c) == Nearest(c, {d \in Classes : Answer(d) # None})

LEMMA StepSearch ==
  ASSUME Control, NEW t \in Threads, Search(t)
  PROVE  /\ Control' /\ stack[t] # <<>> /\ Top(t).pc = "search" /\ Top(t).cls \in Classes
         /\ runtimeLock = t
         /\ \/ /\ Searched(Top(t).cls) # Nil /\ IsFound(Top(t).cls, Searched(Top(t).cls))
               /\ Goes(t, "fill", Answer(Searched(Top(t).cls)), Top(t).resolver)
            \/ Goes(t, "resolve", Top(t).got, FALSE)
            \/ /\ Searched(Top(t).cls) = Nil \/ ~IsFound(Top(t).cls, Searched(Top(t).cls))
               /\ ~Top(t).resolver
               /\ Goes(t, "fill", Forward, Top(t).resolver)
<1>1. stack[t] # <<>> /\ Top(t).pc = "search"
  BY DEF Search, At
<1>2. /\ Top(t) \in Frames /\ Shape(Top(t)) /\ Top(t).resolver \in BOOLEAN
      /\ Top(t).got \in Answers
  BY <1>1, TopFrame DEF Frames
<1>3. Top(t).cls \in Classes
  BY <1>1, <1>2 DEF Shape
<1>4. /\ Top(t).pc \notin {"flush", "+initialize", "+resolve"} /\ Top(t).pc \in Locking
      /\ {"fill", "resolve"} \subseteq PCs \ {"flush", "+initialize", "+resolve"}
      /\ "fill" \in Locking /\ "resolve" \notin Locking
  BY <1>1 DEF Locking, PCs
<1>5. runtimeLock = t
  BY <1>1, <1>4 DEF Control, Locks, OnLock
<1>6. PICK k : k = Searched(Top(t).cls)
  OBVIOUS
<1>7. k # Nil => k \in Classes
  <2>1. Range(chain[Top(t).cls]) \subseteq Classes
    BY <1>3, Chains
  <2>2. \A i \in DOMAIN chain[Top(t).cls] : chain[Top(t).cls][i] \in Classes
    BY <2>1 DEF Range
  <2>3. k = Nil \/ \E i \in DOMAIN chain[Top(t).cls] : k = chain[Top(t).cls][i]
    <3>1. PICK c \in Classes : c = Top(t).cls
      BY <1>3
    <3>2. PICK S : k = Nearest(c, S)
      BY <1>6, <3>1 DEF Searched
    <3>3. k = Nil \/ \E i \in DOMAIN chain[c] : k = chain[c][i]
      BY <3>2, NearestIs
    <3> QED
      BY <3>1, <3>3
  <2> QED
    BY <2>2, <2>3
<1>8. IF k # Nil /\ IsFound(Top(t).cls, k)
      THEN With(t, [Top(t) EXCEPT !.pc = "fill", !.got = Answer(k)]) /\ UNCHANGED runtimeLock
      ELSE IF Top(t).resolver
      THEN With(t, [Top(t) EXCEPT !.pc = "resolve", !.resolver = FALSE])
           /\ runtimeLock' = NoThread
      ELSE With(t, [Top(t) EXCEPT !.pc = "fill", !.got = Forward]) /\ UNCHANGED runtimeLock
  BY <1>6 DEF Search, Searched, KeepLock, Unlock
<1>9. runtimeLock' \in {t, NoThread}
  BY <1>5, <1>8
<1>10. Typed'
  BY <1>9 DEF Search, Control, Typed, table, inits
<1>11. CASE k # Nil /\ IsFound(Top(t).cls, k)
  <2>1. PICK a \in Answers : a = Answer(k)
    BY <1>7, <1>11, AnswerType DEF Control
  <2>2. PICK g : g = [Top(t) EXCEPT !.pc = "fill", !.got = a] /\ With(t, g)
    BY <1>8, <1>11, <2>1
  <2>3. Onward(Top(t), g, "fill", a, Top(t).resolver)
    BY <2>2 DEF Onward
  <2>4. runtimeLock' = runtimeLock
    BY <1>8, <1>11
  <2>5. Stacks' /\ Locks' /\ Goes(t, "fill", a, Top(t).resolver)
    BY <1>1, <1>2, <1>4, <2>2, <2>3, <2>4, GoesStep
  <2> QED
    BY <1>1, <1>3, <1>5, <1>6, <1>10, <1>11, <2>1, <2>5 DEF Control
<1>12. CASE ~(k # Nil /\ IsFound(Top(t).cls, k)) /\ Top(t).resolver
  <2>1. PICK g : g = [Top(t) EXCEPT !.pc = "resolve", !.resolver = FALSE] /\ With(t, g)
    BY <1>8, <1>12
  <2>2. Onward(Top(t), g, "resolve", Top(t).got, FALSE)
    BY <2>1 DEF Onward
  <2>3. runtimeLock' = NoThread
    BY <1>8, <1>12
  <2>4. Stacks' /\ Locks' /\ Goes(t, "resolve", Top(t).got, FALSE)
    BY <1>1, <1>2, <1>4, <2>1, <2>2, <2>3, GoesStep
  <2> QED
    BY <1>1, <1>3, <1>5, <1>10, <2>4 DEF Control
<1>13. CASE ~(k # Nil /\ IsFound(Top(t).cls, k)) /\ ~Top(t).resolver
  <2>1. PICK g : g = [Top(t) EXCEPT !.pc = "fill", !.got = Forward] /\ With(t, g)
    BY <1>8, <1>13
  <2>2. Onward(Top(t), g, "fill", Forward, Top(t).resolver) /\ Forward \in Answers
    BY <2>1 DEF Onward, Answers
  <2>3. runtimeLock' = runtimeLock
    BY <1>8, <1>13
  <2>4. Stacks' /\ Locks' /\ Goes(t, "fill", Forward, Top(t).resolver)
    BY <1>1, <1>2, <1>4, <2>1, <2>2, <2>3, GoesStep
  <2> QED
    BY <1>1, <1>3, <1>5, <1>6, <1>10, <1>13, <2>4 DEF Control
<1> QED
  BY <1>11, <1>12, <1>13

LEMMA StepFill ==
  ASSUME Control, NEW t \in Threads, Fill(t)
  PROVE  /\ Control' /\ stack[t] # <<>> /\ Top(t).pc = "fill" /\ Top(t).cls \in Classes
         /\ runtimeLock = t
         /\ \/ cache' = cache
            \/ /\ init[Top(t).cls] = "yes" /\ cache' = [cache EXCEPT ![Top(t).cls] = Top(t).got]
         /\ Goes(t, "done", Top(t).got, Top(t).resolver)
<1>1. stack[t] # <<>> /\ Top(t).pc = "fill" /\ runtimeLock' = NoThread
  BY DEF Fill, At, Unlock
<1>2. /\ Top(t) \in Frames /\ Shape(Top(t)) /\ Top(t).resolver \in BOOLEAN
      /\ Top(t).got \in Answers
  BY <1>1, TopFrame DEF Frames
<1>3. Top(t).cls \in Classes
  BY <1>1, <1>2 DEF Shape
<1>4. /\ Top(t).pc \notin {"flush", "+initialize", "+resolve"} /\ Top(t).pc \in Locking
      /\ "done" \in PCs \ {"flush", "+initialize", "+resolve"} /\ "done" \notin Locking
  BY <1>1 DEF Locking, PCs
<1>5. runtimeLock = t
  BY <1>1, <1>4 DEF Control, Locks, OnLock
<1>6. PICK g : g = [Top(t) EXCEPT !.pc = "done"] /\ With(t, g)
  BY DEF Fill, Goto
<1>7. Onward(Top(t), g, "done", Top(t).got, Top(t).resolver)
  BY <1>6 DEF Onward
<1>8. Stacks' /\ Locks' /\ Goes(t, "done", Top(t).got, Top(t).resolver)
  BY <1>1, <1>2, <1>4, <1>6, <1>7, GoesStep
<1>9. \/ cache' = cache
      \/ init[Top(t).cls] = "yes" /\ cache' = [cache EXCEPT ![Top(t).cls] = Top(t).got]
  BY DEF Fill, MayCache
<1>10. cache' \in [Classes -> Answers]
  BY <1>2, <1>9 DEF Control, Typed
<1>11. Typed'
  BY <1>1, <1>10 DEF Fill, Control, Typed, table, inits
<1> QED
  BY <1>1, <1>3, <1>5, <1>8, <1>9, <1>11 DEF Control

LEMMA StepDispatch ==
  ASSUME Control, NEW t \in Threads, Dispatch(t)
  PROVE  Control' /\ Popped(t) /\ stack[t] # <<>> /\ Top(t).pc = "done"
<1>1. stack[t] # <<>> /\ Top(t).pc = "done" /\ Pop(t) /\ UNCHANGED runtimeLock
  BY DEF Dispatch, At
<1>2. Top(t).pc \notin Locking
  BY <1>1 DEF Locking
<1>3. Stacks' /\ Locks' /\ Popped(t)
  BY <1>1, <1>2, ReturnStep
<1>4. Typed'
  BY DEF Dispatch, Control, Typed, table, inits
<1> QED
  BY <1>1, <1>3, <1>4 DEF Control

LEMMA StepInitialize ==
  ASSUME Control, NEW t \in Threads, class_initialize(t)
  PROVE  /\ Control' /\ stack[t] # <<>> /\ Top(t).pc = "initialize" /\ Top(t).cls \in Classes
         /\ \/ /\ Begun(t, Top(t).cls) /\ init' = init
               /\ Goes(t, "relock", Top(t).got, Top(t).resolver)
            \/ \E k \in Classes :
                 /\ init[k] = "no" /\ init' = [init EXCEPT ![k] = t]
                 /\ Grown(t, {ClientCode(k, "+initialize")}, ClientCode(k, "+initialize"))
<1>1. stack[t] # <<>> /\ Top(t).pc = "initialize" /\ UNCHANGED runtimeLock
  BY DEF class_initialize, At
<1>2. /\ Top(t) \in Frames /\ Shape(Top(t)) /\ Top(t).resolver \in BOOLEAN
      /\ Top(t).got \in Answers
  BY <1>1, TopFrame DEF Frames
<1>3. Top(t).cls \in Classes
  BY <1>1, <1>2 DEF Shape
<1>4. PICK open : open = {k \in Range(chain[Top(t).cls]) : init[k] \notin {"yes", t}}
  OBVIOUS
<1>5. open \subseteq Classes
  BY <1>3, <1>4, Chains
<1>6. \/ open = {} /\ Goto(t, "relock") /\ UNCHANGED init
      \/ \E k \in open : /\ init[k] = "no" /\ init' = [init EXCEPT ![k] = t]
                         /\ Push(t, ClientCode(k, "+initialize"))
  BY <1>4 DEF class_initialize
<1>7. init' \in [Classes -> {"no", "yes"} \cup Threads]
  BY <1>5, <1>6 DEF Control, Typed
<1>8. Typed'
  BY <1>7 DEF class_initialize, Control, Typed, table
<1>9. CASE open = {} /\ Goto(t, "relock") /\ UNCHANGED init
  <2>1. PICK g : g = [Top(t) EXCEPT !.pc = "relock"] /\ With(t, g)
    BY <1>9 DEF Goto
  <2>2. Onward(Top(t), g, "relock", Top(t).got, Top(t).resolver)
    BY <2>1 DEF Onward
  <2>3. /\ Top(t).pc \notin {"flush", "+initialize", "+resolve"} /\ Top(t).pc \notin Locking
        /\ "relock" \in PCs \ {"flush", "+initialize", "+resolve"} /\ "relock" \notin Locking
    BY <1>1 DEF Locking, PCs, Waiting
  <2>4. Stacks' /\ Locks' /\ Goes(t, "relock", Top(t).got, Top(t).resolver)
    BY <1>1, <1>2, <2>1, <2>2, <2>3, GoesStep
  <2>5. Begun(t, Top(t).cls)
    BY <1>4, <1>9 DEF Begun
  <2> QED
    BY <1>1, <1>3, <1>8, <1>9, <2>4, <2>5 DEF Control
<1>10. CASE \E k \in open : /\ init[k] = "no" /\ init' = [init EXCEPT ![k] = t]
                            /\ Push(t, ClientCode(k, "+initialize"))
  <2>1. PICK k \in Classes : /\ init[k] = "no" /\ init' = [init EXCEPT ![k] = t]
                             /\ Push(t, ClientCode(k, "+initialize"))
    BY <1>5, <1>10
  <2>2. PICK f \in Frames : f = ClientCode(k, "+initialize") /\ Shape(f)
    BY NewFrames
  <2>3. f.pc \notin Locking
    BY <2>2 DEF ClientCode, Locking
  <2>4. At(t, "initialize") /\ Push(t, f)
    BY <1>1, <2>1, <2>2 DEF At
  <2>5. Stacks' /\ Locks' /\ Grown(t, {f}, f)
    BY <1>1, <2>2, <2>3, <2>4, CallStep
  <2> QED
    BY <1>1, <1>3, <1>8, <2>1, <2>2, <2>5 DEF Control
<1> QED
  BY <1>6, <1>9, <1>10

\* The classes that a finished +initialize of c completes.
Done(c) == {c} \cup {k \in pending : \A s \in Supers(k) : init[s] = "yes" \/ s \in pending \cup {c}}

LEMMA StepFinish ==
  ASSUME Control, NEW t \in Threads, finishInitializing(t)
  PROVE  /\ Control' /\ Popped(t) /\ stack[t] # <<>> /\ Top(t).pc = "+initialize"
         /\ Top(t).cls \in Classes
         /\ \/ init' = init
            \/ /\ \A k \in Supers(Top(t).cls) : init[k] = "yes"
               /\ init' = [k \in Classes |-> IF k \in Done(Top(t).cls) THEN "yes" ELSE init[k]]
<1>1. stack[t] # <<>> /\ Top(t).pc = "+initialize" /\ Pop(t) /\ UNCHANGED runtimeLock
  BY DEF finishInitializing, At
<1>2. Top(t).pc \notin Locking
  BY <1>1 DEF Locking
<1>3. Stacks' /\ Locks' /\ Popped(t)
  BY <1>1, <1>2, ReturnStep
<1>4. Top(t) \in Frames /\ Shape(Top(t)) /\ Top(t).cls \in Classes
  BY <1>1, TopFrame DEF Shape
<1>5. \/ init' = init /\ pending' = pending \cup {Top(t).cls}
      \/ /\ \A k \in Supers(Top(t).cls) : init[k] = "yes"
         /\ init' = [k \in Classes |-> IF k \in Done(Top(t).cls) THEN "yes" ELSE init[k]]
         /\ pending' = pending \ Done(Top(t).cls)
  BY DEF finishInitializing, Done
<1>6. init' \in [Classes -> {"no", "yes"} \cup Threads] /\ pending' \subseteq Classes
  BY <1>4, <1>5 DEF Control, Typed
<1>7. Typed'
  BY <1>6 DEF finishInitializing, Control, Typed, table
<1> QED
  BY <1>1, <1>3, <1>4, <1>5, <1>7 DEF Control

\* The frame under a new call.
Under(t, f, p) ==
  /\ f.pc = p /\ f.cls = Top(t).cls /\ f.initialize = Top(t).initialize
  /\ f.resolver = Top(t).resolver /\ f.got = Top(t).got

LEMMA StepResolve ==
  ASSUME Control, NEW t \in Threads, class_resolveMethod(t)
  PROVE  /\ Control' /\ stack[t] # <<>> /\ Top(t).pc = "resolve"
         /\ \E f \in Frames : LET g == ClientCode(Top(t).cls, "+resolve")
                              IN Grown(t, {f, g}, g) /\ Under(t, f, "resolved")
<1>1. stack[t] # <<>> /\ Top(t).pc = "resolve" /\ UNCHANGED runtimeLock
  BY DEF class_resolveMethod, At
<1>2. Top(t) \in Frames /\ Shape(Top(t)) /\ Top(t).cls \in Classes
  BY <1>1, TopFrame DEF Shape
<1>3. PICK g \in Frames : g = ClientCode(Top(t).cls, "+resolve") /\ Shape(g)
  BY <1>2, NewFrames
<1>4. g.pc = "+resolve" /\ g.pc \notin Locking /\ g.cls = Top(t).cls
  BY <1>3 DEF ClientCode, Locking
<1>5. Calls(t, [Top(t) EXCEPT !.pc = "resolved"], g)
  BY <1>3 DEF class_resolveMethod, Calls, Called
<1>6. /\ Stacks' /\ Locks'
      /\ \E f \in Frames : /\ Grown(t, {f, g}, g) /\ f.pc = "resolved" /\ f.cls = Top(t).cls
                           /\ f.initialize = Top(t).initialize
                           /\ f.resolver = Top(t).resolver /\ f.got = Top(t).got
  BY <1>1, <1>3, <1>4, <1>5, NestStep
<1>7. Typed'
  BY DEF class_resolveMethod, Control, Typed, table, inits
<1> QED
  BY <1>1, <1>3, <1>6, <1>7 DEF Control, Under

LEMMA StepReturns ==
  ASSUME Control, NEW t \in Threads, ResolverReturns(t)
  PROVE  /\ Control' /\ Popped(t) /\ stack[t] # <<>> /\ Top(t).pc = "+resolve"
         /\ Top(t).cls \in Resolvers => lists[Top(t).cls] # <<>>
<1>1. /\ stack[t] # <<>> /\ Top(t).pc = "+resolve" /\ Pop(t) /\ UNCHANGED runtimeLock
      /\ Top(t).cls \in Resolvers => lists[Top(t).cls] # <<>>
  BY DEF ResolverReturns, At
<1>2. Top(t).pc \notin Locking
  BY <1>1 DEF Locking
<1>3. Stacks' /\ Locks' /\ Popped(t)
  BY <1>1, <1>2, ReturnStep
<1>4. Typed'
  BY DEF ResolverReturns, Control, Typed, table, inits
<1> QED
  BY <1>1, <1>3, <1>4 DEF Control

LEMMA StepResolved ==
  ASSUME Control, NEW t \in Threads, Resolved(t)
  PROVE  /\ Control' /\ stack[t] # <<>> /\ Top(t).pc = "resolved"
         /\ \E f \in Frames : LET g == Lookup(Top(t).cls, FALSE, FALSE)
                              IN Grown(t, {f, g}, g) /\ Under(t, f, "relock")
<1>1. stack[t] # <<>> /\ Top(t).pc = "resolved" /\ UNCHANGED runtimeLock
  BY DEF Resolved, At
<1>2. Top(t) \in Frames /\ Shape(Top(t)) /\ Top(t).cls \in Classes
  BY <1>1, TopFrame DEF Shape
<1>3. PICK g \in Frames : g = Lookup(Top(t).cls, FALSE, FALSE) /\ Shape(g)
  BY <1>2, NewFrames
<1>4. g.pc \notin Locking
  BY <1>3 DEF Lookup, Locking
<1>5. Calls(t, [Top(t) EXCEPT !.pc = "relock"], g)
  BY <1>3 DEF Resolved, Calls, Called
<1>6. /\ Stacks' /\ Locks'
      /\ \E f \in Frames : /\ Grown(t, {f, g}, g) /\ f.pc = "relock" /\ f.cls = Top(t).cls
                           /\ f.initialize = Top(t).initialize
                           /\ f.resolver = Top(t).resolver /\ f.got = Top(t).got
  BY <1>1, <1>3, <1>4, <1>5, NestStep
<1>7. Typed'
  BY DEF Resolved, Control, Typed, table, inits
<1> QED
  BY <1>1, <1>3, <1>6, <1>7 DEF Control, Under

\* An edit takes the lock, to flush the caches of s.
LEMMA EditBegins ==
  ASSUME Control, NEW t \in Threads, NEW s \in SUBSET Classes, InClient(t), Lock(t),
         Push(t, Edit(s))
  PROVE  /\ Stacks' /\ Locks' /\ Grown(t, {Edit(s)}, Edit(s))
         /\ runtimeLock = NoThread /\ runtimeLock' \in Threads \cup {NoThread}
<1>1. PICK f \in Frames : f = Edit(s) /\ Shape(f)
  BY NewFrames
<1>2. f.pc \in Locking /\ Push(t, f)
  BY <1>1 DEF Edit, Locking
<1>3. runtimeLock = NoThread /\ runtimeLock' = t
  BY DEF Lock
<1>4. Stacks' /\ Locks' /\ Grown(t, {f}, f)
  BY <1>1, <1>2, <1>3, CallStep
<1> QED
  BY <1>1, <1>3, <1>4

LEMMA StepMap ==
  ASSUME Control, NEW t \in Threads, NEW k \in Categories, map_category(t, k)
  PROVE  /\ Control' /\ runtimeLock = NoThread /\ classOf[k] \in Classes
         /\ arrived' = [arrived EXCEPT ![classOf[k]] = Append(@, Cat(k))]
         /\ \E s \in SUBSET Classes :
              /\ Grown(t, {Edit(s)}, Edit(s))
              /\ IF classOf[k] \in realized
                 THEN /\ lists' = [lists EXCEPT ![classOf[k]] = <<Cat(k)>> \o @]
                      /\ unattached' = unattached /\ s = Flushed(classOf[k])
                 ELSE /\ unattached' = [unattached EXCEPT ![classOf[k]] = Append(@, k)]
                      /\ lists' = lists
<1>1. PICK c \in Classes : c = classOf[k]
  BY Constants
<1>2. PICK x \in Lists : x = Cat(k)
  BY DEF Lists
<1>3. arrived' = [arrived EXCEPT ![c] = Append(@, x)] /\ InClient(t) /\ Lock(t)
  BY <1>1, <1>2 DEF map_category
<1>4. lists[c] \in Seq(Lists) /\ arrived[c] \in Seq(Lists) /\ unattached[c] \in Seq(Categories)
  BY DEF Control, Typed
<1>5. arrived' \in [Classes -> Seq(Lists)]
  <2>1. Append(arrived[c], x) \in Seq(Lists)
    BY <1>4
  <2> QED
    BY <1>3, <2>1 DEF Control, Typed
<1>6. CASE c \in realized
  <2>1. lists' = [lists EXCEPT ![c] = attachCategories(<<k>>, @)] /\ unattached' = unattached
    BY <1>1, <1>6 DEF map_category
  <2>2. attachCategories(<<k>>, lists[c]) = <<x>> \o lists[c] /\ <<x>> \o lists[c] \in Seq(Lists)
    <3>1. PICK old \in Seq(Lists) : old = lists[c]
      BY <1>4
    <3>2. PICK cats \in Seq(Categories) : cats = unattached[c]
      BY <1>4
    <3>3. attachCategories(<<k>>, old) = <<Cat(k)>> \o old /\ <<Cat(k)>> \o old \in Seq(Lists)
      BY Attached, Zenon
    <3> QED
      BY <1>2, <3>1, <3>3
  <2>3. lists' = [lists EXCEPT ![c] = <<x>> \o @] /\ lists' \in [Classes -> Seq(Lists)]
    BY <2>1, <2>2 DEF Control, Typed
  <2>4. PICK s \in SUBSET Classes : s = Flushed(c) /\ Push(t, Edit(s))
    <3>1. Flushed(c) \in SUBSET Classes
      BY DEF Flushed, Family
    <3> QED
      BY <1>1, <1>6, <3>1 DEF map_category
  <2>5. /\ Stacks' /\ Locks' /\ Grown(t, {Edit(s)}, Edit(s))
        /\ runtimeLock = NoThread /\ runtimeLock' \in Threads \cup {NoThread}
    BY <1>3, <2>4, EditBegins
  <2>6. Typed'
    BY <1>5, <2>1, <2>3, <2>5 DEF map_category, Control, Typed, inits
  <2> QED
    BY <1>1, <1>2, <1>3, <1>6, <2>1, <2>3, <2>4, <2>5, <2>6 DEF Control
<1>7. CASE c \notin realized
  <2>1. unattached' = [unattached EXCEPT ![c] = Append(@, k)] /\ lists' = lists
    BY <1>1, <1>7 DEF map_category
  <2>2. unattached' \in [Classes -> Seq(Categories)]
    <3>1. Append(unattached[c], k) \in Seq(Categories)
      BY <1>4
    <3> QED
      BY <2>1, <3>1 DEF Control, Typed
  <2>3. PICK s \in SUBSET Classes : s = {} /\ Push(t, Edit(s))
    BY <1>1, <1>7 DEF map_category
  <2>4. /\ Stacks' /\ Locks' /\ Grown(t, {Edit(s)}, Edit(s))
        /\ runtimeLock = NoThread /\ runtimeLock' \in Threads \cup {NoThread}
    BY <1>3, <2>3, EditBegins
  <2>5. Typed'
    BY <1>5, <2>1, <2>2, <2>4 DEF map_category, Control, Typed, inits
  <2> QED
    BY <1>1, <1>2, <1>3, <1>7, <2>1, <2>4, <2>5 DEF Control
<1> QED
  BY <1>6, <1>7

LEMMA StepAdd ==
  ASSUME Control, NEW t \in Threads, NEW c \in Classes, class_addMethod(t, c)
  PROVE  /\ Control' /\ runtimeLock = NoThread /\ c \in realized /\ lists[c] = <<>>
         /\ lists' = [lists EXCEPT ![c] = <<Added(c)>>]
         /\ arrived' = [arrived EXCEPT ![c] = Append(@, Added(c))]
         /\ Grown(t, {Edit(Flushed(c))}, Edit(Flushed(c)))
<1>1. PICK x \in Lists : x = Added(c)
  BY DEF Lists
<1>2. /\ InClient(t) /\ Lock(t) /\ c \in realized /\ lists[c] = <<>>
      /\ lists' = [lists EXCEPT ![c] = <<x>>]
      /\ arrived' = [arrived EXCEPT ![c] = Append(@, x)]
      /\ Push(t, Edit(Flushed(c)))
  BY <1>1 DEF class_addMethod
<1>3. PICK s \in SUBSET Classes : s = Flushed(c)
  BY DEF Flushed, Family
<1>4. /\ Stacks' /\ Locks' /\ Grown(t, {Edit(s)}, Edit(s))
      /\ runtimeLock = NoThread /\ runtimeLock' \in Threads \cup {NoThread}
  BY <1>2, <1>3, EditBegins
<1>5. lists' \in [Classes -> Seq(Lists)] /\ arrived' \in [Classes -> Seq(Lists)]
  <2>1. arrived[c] \in Seq(Lists)
    BY DEF Control, Typed
  <2>2. <<x>> \in Seq(Lists) /\ Append(arrived[c], x) \in Seq(Lists)
    BY <2>1
  <2> QED
    BY <1>2, <2>2 DEF Control, Typed
<1>6. edits' \in Nat
  BY DEF class_addMethod, Control, Typed
<1>7. Typed'
  BY <1>4, <1>5, <1>6 DEF class_addMethod, Control, Typed, inits
<1> QED
  BY <1>1, <1>2, <1>3, <1>4, <1>7 DEF Control

LEMMA StepSet ==
  ASSUME Control, NEW t \in Threads, NEW l \in Lists, NEW s \in SUBSET Classes,
         setImplementation(t, l, s)
  PROVE  /\ Control' /\ runtimeLock = NoThread /\ Grown(t, {Edit(s)}, Edit(s))
         /\ \A m \in Lists : m # l => imp'[m] = imp[m]
<1>1. InClient(t) /\ Lock(t) /\ Push(t, Edit(s)) /\ imp' = [imp EXCEPT ![l] = <<l, edits + 1>>]
  BY DEF setImplementation
<1>2. /\ Stacks' /\ Locks' /\ Grown(t, {Edit(s)}, Edit(s))
      /\ runtimeLock = NoThread /\ runtimeLock' \in Threads \cup {NoThread}
  BY <1>1, EditBegins
<1>3. imp' \in [Lists -> Imps]
  <2>1. <<l, edits + 1>> \in Imps
    BY DEF Imps, Control, Typed
  <2> QED
    BY <1>1, <2>1 DEF Control, Typed
<1>4. Typed'
  BY <1>2, <1>3 DEF setImplementation, Control, Typed, inits
<1>5. \A m \in Lists : m # l => imp'[m] = imp[m]
  BY <1>1 DEF Control, Typed
<1> QED
  BY <1>2, <1>4, <1>5 DEF Control

LEMMA StepExchange ==
  ASSUME Control, NEW t \in Threads, NEW l \in Lists, NEW n \in Lists,
         method_exchangeImplementations(t, l, n)
  PROVE  Control' /\ runtimeLock = NoThread /\ Grown(t, {Edit(realized)}, Edit(realized))
<1>1. /\ InClient(t) /\ Lock(t) /\ Push(t, Edit(realized))
      /\ imp' = [imp EXCEPT ![l] = imp[n], ![n] = imp[l]]
  BY DEF method_exchangeImplementations
<1>2. PICK s \in SUBSET Classes : s = realized
  BY DEF Control, Typed
<1>3. /\ Stacks' /\ Locks' /\ Grown(t, {Edit(s)}, Edit(s))
      /\ runtimeLock = NoThread /\ runtimeLock' \in Threads \cup {NoThread}
  BY <1>1, <1>2, EditBegins
<1>4. imp' \in [Lists -> Imps]
  <2>1. imp[l] \in Imps /\ imp[n] \in Imps
    BY DEF Control, Typed
  <2> QED
    BY <1>1, <2>1 DEF Control, Typed
<1>5. Typed'
  BY <1>3, <1>4 DEF method_exchangeImplementations, Control, Typed, inits
<1> QED
  BY <1>2, <1>3, <1>5 DEF Control

LEMMA StepFlush ==
  ASSUME Control, NEW t \in Threads, flushCaches(t)
  PROVE  /\ Control' /\ runtimeLock = t /\ stack[t] # <<>> /\ Top(t).pc = "flush"
         /\ \/ Top(t).todo = {} /\ Popped(t) /\ cache' = cache
            \/ \E c \in Classes, g \in Frames :
                 /\ cache' = [cache EXCEPT ![c] = None]
                 /\ Grown(t, {g}, g) /\ g.pc = "flush" /\ ~g.initialize
                 /\ g.todo = Top(t).todo \ {c} /\ g.cls = Top(t).cls /\ g.got = Top(t).got
<1>1. stack[t] # <<>> /\ Top(t).pc = "flush"
  BY DEF flushCaches, At
<1>2. PICK f \in Frames : f = Top(t) /\ Shape(f)
  BY <1>1, TopFrame
<1>3. Top(t).pc \in Locking
  BY <1>1 DEF Locking
<1>4. runtimeLock = t
  BY <1>1, <1>3 DEF Control, Locks, OnLock
<1>5. CASE Top(t).todo = {}
  <2>1. runtimeLock' = NoThread /\ Pop(t) /\ cache' = cache
    BY <1>5 DEF flushCaches, Unlock
  <2>2. Stacks' /\ Locks' /\ Popped(t)
    BY <1>1, <1>3, <2>1, ReturnStep
  <2>3. Typed'
    BY <2>1 DEF flushCaches, Control, Typed, table, inits
  <2> QED
    BY <1>1, <1>4, <1>5, <2>1, <2>2, <2>3 DEF Control
<1>6. CASE Top(t).todo # {}
  <2>1. PICK c \in Top(t).todo : /\ cache' = [cache EXCEPT ![c] = None]
                                 /\ With(t, [Top(t) EXCEPT !.todo = @ \ {c}])
                                 /\ UNCHANGED runtimeLock
    BY <1>6 DEF flushCaches
  <2>2. PICK g : g = [f EXCEPT !.todo = @ \ {c}]
    OBVIOUS
  <2>3. c \in Classes
    BY <1>2, <2>1 DEF Frames
  <2>4. /\ g \in Frames /\ g.pc = f.pc /\ g.initialize = f.initialize
        /\ g.todo = f.todo \ {c} /\ g.cls = f.cls /\ g.got = f.got
    BY <2>2 DEF Frames
  <2>5. Shape(g) /\ ~g.initialize /\ g.pc = "flush"
    BY <1>1, <1>2, <2>4 DEF Shape
  <2>6. With(t, g) /\ Top(t).pc # "+resolve"
    BY <1>1, <1>2, <2>1, <2>2
  <2>7. Stacks' /\ Grown(t, {g}, g)
    BY <1>1, <2>4, <2>5, <2>6, WithFrames
  <2>8. /\ \A u \in Threads \ {t} : stack'[u] = stack[u]
        /\ OnLock(t)' /\ OnLock(t)
    BY <1>1, <1>3, <2>5, <2>7 DEF Grown, OnLock
  <2>9. Locks'
    BY <2>1, <2>8, LockStep
  <2>10. cache' \in [Classes -> Answers]
    BY <2>1 DEF Control, Typed, Answers
  <2>11. Typed'
    BY <2>1, <2>10 DEF flushCaches, Control, Typed, table, inits
  <2> QED
    BY <1>1, <1>2, <1>4, <2>1, <2>3, <2>4, <2>5, <2>7, <2>9, <2>11 DEF Control
<1> QED
  BY <1>5, <1>6

LEMMA StepExpand ==
  ASSUME Control, NEW c \in Classes, expand(c)
  PROVE  Control'
<1>1. cache' \in [Classes -> Answers]
  BY DEF expand, Control, Typed, Answers
<1>2. Typed'
  BY <1>1 DEF expand, Control, Typed, table, inits
<1>3. Stacks' /\ Locks'
  BY DEF expand, Control, Stacks, Locks, OnLock, Top
<1> QED
  BY <1>2, <1>3 DEF Control

LEMMA StepStutter ==
  ASSUME Control, UNCHANGED vars
  PROVE  Control'
  BY DEF vars, table, inits, Control, Typed, Stacks, Locks, OnLock, Top
-----------------------------------------------------------------------------
(* Second layer: the flags of the classes. *)

\* The frames of t that are not in N were there before.
Moved(t, N) ==
  /\ \A u \in Threads \ {t} : stack'[u] = stack[u]
  /\ \A i \in DOMAIN stack'[t] :
       stack'[t][i] \in N \/ (i \in DOMAIN stack[t] /\ stack'[t][i] = stack[t][i])

\* Flags are never taken back.
Monotone ==
  /\ realized \subseteq realized'
  /\ \A c \in Classes : /\ init[c] = "yes" => init'[c] = "yes"
                        /\ \A u \in Threads : init[c] \in {"yes", u} => init'[c] \in {"yes", u}

LEMMA FramesReady ==
  ASSUME Control, AllReady, Monotone, NEW t \in Threads, NEW N, Moved(t, N),
         \A g \in N : Ready(t, g)'
  PROVE  AllReady'
<1>1. ASSUME NEW u \in Threads, NEW g, Shape(g), Ready(u, g)
      PROVE  Ready(u, g)'
  <2>1. g.pc \in Past \cup {"done"} => g.cls \in Classes
    BY <1>1 DEF Shape, Past
  <2>2. g.pc \in Past \cup {"done"} => Range(chain[g.cls]) \subseteq Classes
    BY <2>1, Chains
  <2>3. g.pc \in Past \cup {"done"} /\ Begun(u, g.cls) => Begun(u, g.cls)'
    BY <2>2 DEF Begun, Monotone
  <2>4. g.cls \in realized => g.cls \in realized'
    BY DEF Monotone
  <2> QED
    BY <1>1, <2>3, <2>4 DEF Ready
<1>2. \A u \in Threads : \A i \in DOMAIN stack[u] : Shape(stack[u][i]) /\ Ready(u, stack[u][i])
  BY DEF Control, Stacks, AllReady
<1>3. \A u \in Threads : \A i \in DOMAIN stack[u] :
        \A g : g = stack[u][i] => Ready(u, g)'
  BY <1>1, <1>2
<1>4. ASSUME NEW u \in Threads, NEW i \in DOMAIN stack'[u]
      PROVE  Ready(u, stack[u][i])'
  <2>1. PICK g : g = stack'[u][i]
    OBVIOUS
  <2>2. Ready(u, g)'
    <3>1. CASE u = t /\ g \in N
      BY <3>1
    <3>2. CASE ~(u = t /\ g \in N)
      <4>1. i \in DOMAIN stack[u] /\ g = stack[u][i]
        BY <2>1, <3>2 DEF Moved
      <4> QED
        BY <1>3, <4>1
    <3> QED
      BY <3>1, <3>2
  <2> QED
    BY <2>1, <2>2 DEF Ready, Begun
<1> QED
  BY <1>4 DEF AllReady

LEMMA MovedFrames ==
  ASSUME NEW t \in Threads
  PROVE  /\ \A N, f : Grown(t, N, f) => Moved(t, N)
         /\ Popped(t) => Moved(t, {})
         /\ UNCHANGED stack => Moved(t, {})
  BY DEF Grown, Popped, Moved

\* No flag changes, and caches are filled only where they were.
LEMMA FlagsSame ==
  ASSUME Control, Flags, NEW t \in Threads, NEW N, Moved(t, N), UNCHANGED <<realized, init>>,
         \A c \in Classes : cache'[c] \in {cache[c], None}, \A g \in N : Ready(t, g)'
  PROVE  Flags'
<1>1. Monotone
  BY DEF Monotone
<1>2. AllReady'
  BY <1>1, FramesReady DEF Flags
<1>3. RealizedUp' /\ InitUp' /\ CachedReady'
  BY DEF Flags, RealizedUp, InitUp, CachedReady
<1> QED
  BY <1>2, <1>3 DEF Flags

\* A lookup goes on, and no flag changes.
LEMMA FlagsGoes ==
  ASSUME Control, Flags, NEW t \in Threads, NEW p, NEW a, NEW r, Goes(t, p, a, r),
         UNCHANGED <<realized, init>>,
         \A c \in Classes : cache'[c] \in {cache[c], None},
         p \in Past \cup {"initialize"} => Top(t).cls \in realized,
         p \in Past \cup {"done"} /\ Top(t).initialize => Begun(t, Top(t).cls)
  PROVE  Flags'
<1>1. PICK g \in Frames : /\ Grown(t, {g}, g) /\ g.pc = p /\ g.cls = Top(t).cls
                          /\ g.initialize = Top(t).initialize
  BY DEF Goes
<1>2. Ready(t, g)'
  <2>1. g.pc \in Past \cup {"initialize"} => g.cls \in realized'
    BY <1>1
  <2>2. g.pc \in Past \cup {"done"} /\ g.initialize => Begun(t, g.cls)'
    BY <1>1 DEF Begun
  <2> QED
    BY <2>1, <2>2 DEF Ready
<1>3. Moved(t, {g})
  BY <1>1, MovedFrames
<1> QED
  BY <1>2, <1>3, FlagsSame

LEMMA TopReady ==
  ASSUME Control, Flags, NEW t \in Threads, stack[t] # <<>>
  PROVE  Ready(t, Top(t))
  BY TopFrame DEF Flags, AllReady

\* Lookups.
LEMMA FlagsLookup ==
  ASSUME Control, Flags, NEW t \in Threads,
         \/ CacheLookup(t) \/ SlowPath(t) \/ Relock(t) \/ Search(t) \/ Fill(t)
  PROVE  Flags'
<1>1. CASE CacheLookup(t)
  <2>1. UNCHANGED <<realized, init, cache>>
    BY <1>1 DEF CacheLookup, table, inits
  <2>2. \A c \in Classes : cache'[c] \in {cache[c], None}
    BY <2>1
  <2>3. CASE cache[Top(t).cls] # None /\ Goes(t, "done", cache[Top(t).cls], Top(t).resolver)
    <3>1. Top(t).cls \in Classes
      BY <1>1, StepCached, TopFrame DEF Shape
    <3>2. init[Top(t).cls] = "yes"
      BY <2>3, <3>1 DEF Flags, CachedReady
    <3>3. Begun(t, Top(t).cls)
      BY <3>1, <3>2 DEF Flags, InitUp, Begun
    <3>4. "done" \notin Past \cup {"initialize"}
      BY DEF Past
    <3> QED
      BY <2>1, <2>2, <2>3, <3>3, <3>4, FlagsGoes
  <2>4. CASE Goes(t, "slow", None, Top(t).resolver)
    <3>1. "slow" \notin Past \cup {"initialize", "done"}
      BY DEF Past
    <3> QED
      BY <2>1, <2>2, <2>4, <3>1, FlagsGoes
  <2> QED
    BY <1>1, <2>3, <2>4, StepCached
<1>2. CASE SlowPath(t)
  <2>1. PICK c \in Classes : c = Top(t).cls /\ realizeClass(c)
    BY <1>2, StepSlow
  <2>2. realized' = realized \cup Range(chain[c]) /\ c \in realized'
    BY <2>1, Realized, Chains DEF Control
  <2>3. UNCHANGED <<init, cache>>
    BY <1>2 DEF SlowPath, inits
  <2>4. Monotone
    BY <2>2, <2>3 DEF Monotone
  <2>5. RealizedUp'
    <3>1. \A k \in Range(chain[c]) : Range(chain[k]) \subseteq Range(chain[c])
      BY Chains
    <3> QED
      BY <2>2, <3>1 DEF Flags, RealizedUp
  <2>6. InitUp' /\ CachedReady'
    BY <2>2, <2>3 DEF Flags, InitUp, CachedReady
  <2>7. \E p, a, r : /\ Goes(t, p, a, r) /\ p \in {"initialize", "search"}
                     /\ p = "search" /\ Top(t).initialize => init[c] = "yes"
    BY <1>2, <2>1, StepSlow
  <2>8. PICK g \in Frames : /\ Grown(t, {g}, g) /\ g.pc \in {"initialize", "search"} /\ g.cls = c
                            /\ g.pc = "search" /\ g.initialize => init[c] = "yes"
    BY <2>1, <2>7 DEF Goes
  <2>9. init[c] = "yes" => Begun(t, c)'
    BY <2>3 DEF Flags, InitUp, Begun
  <2>10. Ready(t, g)'
    <3>1. g.cls \in realized'
      BY <2>2, <2>8
    <3>2. g.pc \in Past \cup {"done"} => g.pc = "search"
      BY <2>8 DEF Past
    <3> QED
      BY <2>8, <2>9, <3>1, <3>2 DEF Ready
  <2>11. AllReady'
    <3>1. Moved(t, {g})
      BY <2>8, MovedFrames
    <3> QED
      BY <2>4, <2>10, <3>1, FramesReady DEF Flags
  <2> QED
    BY <2>5, <2>6, <2>11 DEF Flags
<1>3. CASE Relock(t)
  <2>1. UNCHANGED <<realized, init, cache>>
    BY <1>3 DEF Relock, table, inits
  <2>2. \A c \in Classes : cache'[c] \in {cache[c], None}
    BY <2>1
  <2>3. /\ stack[t] # <<>> /\ Top(t).pc = "relock"
        /\ Goes(t, "search", Top(t).got, Top(t).resolver)
    BY <1>3, StepRelock
  <2>4. Top(t).cls \in realized /\ (Top(t).initialize => Begun(t, Top(t).cls))
    BY <2>3, TopReady DEF Ready, Past
  <2> QED
    BY <2>1, <2>2, <2>3, <2>4, FlagsGoes
<1>4. CASE Search(t)
  <2>1. UNCHANGED <<realized, init, cache>>
    BY <1>4 DEF Search, table, inits
  <2>2. \A c \in Classes : cache'[c] \in {cache[c], None}
    BY <2>1
  <2>3. stack[t] # <<>> /\ Top(t).pc = "search" /\ \E p, a, r : Goes(t, p, a, r)
    BY <1>4, StepSearch
  <2>4. Top(t).cls \in realized /\ (Top(t).initialize => Begun(t, Top(t).cls))
    BY <2>3, TopReady DEF Ready, Past
  <2> QED
    BY <2>1, <2>2, <2>3, <2>4, FlagsGoes
<1>5. CASE Fill(t)
  <2>1. UNCHANGED <<realized, init>>
    BY <1>5 DEF Fill, table, inits
  <2>2. /\ stack[t] # <<>> /\ Top(t).pc = "fill" /\ Top(t).cls \in Classes
        /\ \/ cache' = cache
           \/ init[Top(t).cls] = "yes" /\ cache' = [cache EXCEPT ![Top(t).cls] = Top(t).got]
        /\ Goes(t, "done", Top(t).got, Top(t).resolver)
    BY <1>5, StepFill
  <2>3. Top(t).cls \in realized /\ (Top(t).initialize => Begun(t, Top(t).cls))
    BY <2>2, TopReady DEF Ready, Past
  <2>4. Monotone /\ RealizedUp' /\ InitUp'
    BY <2>1 DEF Flags, RealizedUp, InitUp, Monotone
  <2>5. CachedReady'
    BY <2>1, <2>2, <2>3 DEF Flags, CachedReady, Control, Typed
  <2>6. PICK g \in Frames : /\ Grown(t, {g}, g) /\ g.pc = "done" /\ g.cls = Top(t).cls
                            /\ g.initialize = Top(t).initialize
    BY <2>2 DEF Goes
  <2>7. Ready(t, g)'
    <3>1. g.initialize => Begun(t, g.cls)'
      BY <2>1, <2>3, <2>6 DEF Begun
    <3> QED
      BY <2>6, <3>1 DEF Ready, Past
  <2>8. AllReady'
    <3>1. Moved(t, {g})
      BY <2>6, MovedFrames
    <3> QED
      BY <2>4, <2>7, <3>1, FramesReady DEF Flags
  <2> QED
    BY <2>4, <2>5, <2>8 DEF Flags
<1> QED
  BY <1>1, <1>2, <1>3, <1>4, <1>5

\* +initialize.
LEMMA FlagsInitialize ==
  ASSUME Control, Flags, NEW t \in Threads, class_initialize(t) \/ finishInitializing(t)
  PROVE  Flags'
<1>1. CASE class_initialize(t)
  <2>1. UNCHANGED <<realized, cache>>
    BY <1>1 DEF class_initialize, table
  <2>2. \A c \in Classes : cache'[c] \in {cache[c], None}
    BY <2>1
  <2>3. stack[t] # <<>> /\ Top(t).pc = "initialize"
    BY <1>1, StepInitialize
  <2>4. CASE /\ Begun(t, Top(t).cls) /\ init' = init
             /\ Goes(t, "relock", Top(t).got, Top(t).resolver)
    <3>1. Top(t).cls \in realized
      BY <2>3, TopReady DEF Ready
    <3> QED
      BY <2>1, <2>2, <2>4, <3>1, FlagsGoes
  <2>5. ASSUME NEW k \in Classes, init[k] = "no", init' = [init EXCEPT ![k] = t],
               Grown(t, {ClientCode(k, "+initialize")}, ClientCode(k, "+initialize"))
        PROVE  Flags'
    <3>1. "no" \notin Threads /\ "yes" \notin Threads
      BY Constants
    <3>2. \A c \in Classes : init'[c] = IF c = k THEN t ELSE init[c]
      BY <2>5 DEF Control, Typed
    <3>3. Monotone
      BY <2>1, <2>5, <3>1, <3>2 DEF Monotone
    <3>4. InitUp'
      <4>1. \A c \in Classes : Range(chain[c]) \subseteq Classes
        BY Chains
      <4>2. ASSUME NEW c \in Classes, init'[c] = "yes", NEW d \in Range(chain[c])
            PROVE  init'[d] = "yes"
        BY <2>5, <3>1, <3>2, <4>1, <4>2 DEF Flags, InitUp
      <4> QED
        BY <4>2 DEF InitUp
    <3>5. RealizedUp' /\ CachedReady'
      BY <2>1, <3>3 DEF Flags, RealizedUp, CachedReady, Monotone
    <3>6. AllReady'
      <4>1. Moved(t, {ClientCode(k, "+initialize")})
        BY <2>5, MovedFrames
      <4>2. \A g \in {ClientCode(k, "+initialize")} : Ready(t, g)'
        BY DEF Ready, ClientCode, Past
      <4> QED
        BY <3>3, <4>1, <4>2, FramesReady DEF Flags
    <3> QED
      BY <3>4, <3>5, <3>6 DEF Flags
  <2> QED
    BY <1>1, <2>4, <2>5, StepInitialize
<1>2. CASE finishInitializing(t)
  <2>1. UNCHANGED <<realized, cache>>
    BY <1>2 DEF finishInitializing, table
  <2>2. PICK c \in Classes :
          /\ c = Top(t).cls /\ Popped(t)
          /\ \/ init' = init
             \/ /\ \A k \in Supers(c) : init[k] = "yes"
                /\ init' = [k \in Classes |-> IF k \in Done(c) THEN "yes" ELSE init[k]]
    BY <1>2, StepFinish
  <2>3. Monotone
    BY <2>1, <2>2 DEF Monotone
  <2>4. InitUp'
    <3>1. CASE init' = init
      BY <3>1 DEF Flags, InitUp
    <3>2. CASE /\ \A k \in Supers(c) : init[k] = "yes"
               /\ init' = [k \in Classes |-> IF k \in Done(c) THEN "yes" ELSE init[k]]
      <4>1. \A d \in Classes : init'[d] = IF d \in Done(c) THEN "yes" ELSE init[d]
        BY <3>2
      <4>2. ASSUME NEW d \in Classes, init'[d] = "yes", NEW k \in Range(chain[d])
            PROVE  init'[k] = "yes"
        <5>1. /\ k \in Classes /\ Range(chain[k]) \subseteq Range(chain[d])
              /\ Range(chain[d]) = Supers(d) \cup {d} /\ Range(chain[k]) = Supers(k) \cup {k}
          BY Chains
        <5>2. CASE init[d] = "yes"
          BY <4>1, <5>1, <5>2 DEF Flags, InitUp
        <5>3. CASE d = c
          BY <3>2, <4>1, <5>1, <5>3 DEF Done
        <5>4. CASE d \in pending /\ \A s \in Supers(d) : init[s] = "yes" \/ s \in pending \cup {c}
          <6>1. \A s \in Range(chain[d]) : init[s] = "yes" \/ s \in pending \cup {c}
            BY <5>1, <5>4
          <6>2. \A s \in Supers(k) : init[s] = "yes" \/ s \in pending \cup {c}
            BY <5>1, <6>1
          <6>3. init[k] = "yes" \/ k \in Done(c)
            BY <6>1, <6>2 DEF Done
          <6> QED
            BY <4>1, <5>1, <6>3
        <5> QED
          BY <4>1, <4>2, <5>2, <5>3, <5>4 DEF Done
      <4> QED
        BY <4>2 DEF InitUp
    <3> QED
      BY <2>2, <3>1, <3>2
  <2>5. RealizedUp' /\ CachedReady'
    BY <2>1, <2>3 DEF Flags, RealizedUp, CachedReady, Monotone
  <2>6. AllReady'
    <3>1. Moved(t, {})
      BY <2>2, MovedFrames
    <3> QED
      BY <2>3, <3>1, FramesReady DEF Flags
  <2> QED
    BY <2>4, <2>5, <2>6 DEF Flags
<1> QED
  BY <1>1, <1>2

\* The resolver, and the calls that leave the flags alone.
LEMMA FlagsCalls ==
  ASSUME Control, Flags, NEW t \in Threads,
         \/ \E c \in Classes : objc_msgSend(t, c)
         \/ Dispatch(t) \/ class_resolveMethod(t) \/ ResolverReturns(t) \/ Resolved(t)
  PROVE  Flags'
<1>1. UNCHANGED <<realized, init, cache>>
  BY DEF objc_msgSend, Dispatch, class_resolveMethod, ResolverReturns, Resolved, table, inits
<1>2. \A c \in Classes : cache'[c] \in {cache[c], None}
  BY <1>1
<1>3. \E N : Moved(t, N) /\ \A g \in N : Ready(t, g)'
  <2>1. ASSUME NEW c \in Classes, objc_msgSend(t, c)
        PROVE  \E N : Moved(t, N) /\ \A g \in N : Ready(t, g)'
    <3>1. PICK N : N = {Lookup(c, TRUE, TRUE)} /\ Moved(t, N)
      BY <2>1, StepSend, MovedFrames
    <3>2. \A g \in N : Ready(t, g)'
      BY <3>1 DEF Lookup, Ready, Past
    <3> QED
      BY <3>1, <3>2
  <2>2. CASE Dispatch(t) \/ ResolverReturns(t)
    <3>1. Moved(t, {})
      BY <2>2, StepDispatch, StepReturns, MovedFrames
    <3> QED
      BY <3>1
  <2>3. CASE class_resolveMethod(t) \/ Resolved(t)
    <3>1. /\ stack[t] # <<>> /\ Top(t).pc \in {"resolve", "resolved"}
          /\ \E f, g : /\ f \in Frames /\ Grown(t, {f, g}, g) /\ f.pc \in {"resolved", "relock"}
                       /\ f.cls = Top(t).cls /\ f.initialize = Top(t).initialize
                       /\ g.pc \in {"+resolve", "cached"}
      <4>1. CASE class_resolveMethod(t)
        <5>1. ClientCode(Top(t).cls, "+resolve").pc = "+resolve"
          BY DEF ClientCode
        <5>2. stack[t] # <<>> /\ Top(t).pc \in {"resolve", "resolved"}
          BY <4>1, StepResolve
        <5>3. PICK f \in Frames : /\ Grown(t, {f, ClientCode(Top(t).cls, "+resolve")}, ClientCode(Top(t).cls, "+resolve"))
                                 /\ Under(t, f, "resolved")
          BY <4>1, StepResolve
        <5>4. /\ f.pc \in {"resolved", "relock"}
              /\ f.cls = Top(t).cls /\ f.initialize = Top(t).initialize
          BY <5>3 DEF Under
        <5> QED
          BY <5>1, <5>2, <5>3, <5>4
      <4>2. CASE Resolved(t)
        <5>1. Lookup(Top(t).cls, FALSE, FALSE).pc = "cached"
          BY DEF Lookup
        <5>2. stack[t] # <<>> /\ Top(t).pc \in {"resolve", "resolved"}
          BY <4>2, StepResolved
        <5>3. PICK f \in Frames : /\ Grown(t, {f, Lookup(Top(t).cls, FALSE, FALSE)}, Lookup(Top(t).cls, FALSE, FALSE))
                                 /\ Under(t, f, "relock")
          BY <4>2, StepResolved
        <5>4. /\ f.pc \in {"resolved", "relock"}
              /\ f.cls = Top(t).cls /\ f.initialize = Top(t).initialize
          BY <5>3 DEF Under
        <5> QED
          BY <5>1, <5>2, <5>3, <5>4
      <4> QED
        BY <2>3, <4>1, <4>2
    <3>2. PICK f, g : /\ f \in Frames /\ Grown(t, {f, g}, g) /\ f.pc \in {"resolved", "relock"}
                      /\ f.cls = Top(t).cls /\ f.initialize = Top(t).initialize
                      /\ g.pc \in {"+resolve", "cached"}
      BY <3>1
    <3>3. Top(t).cls \in realized /\ (Top(t).initialize => Begun(t, Top(t).cls))
      BY <3>1, TopReady DEF Ready, Past
    <3>4. Ready(t, f)'
      <4>1. f.cls \in realized' /\ (f.initialize => Begun(t, f.cls)')
        BY <1>1, <3>2, <3>3 DEF Begun
      <4> QED
        BY <4>1 DEF Ready
    <3>5. Ready(t, g)'
      BY <3>2 DEF Ready, Past
    <3>6. Moved(t, {f, g})
      BY <3>2, MovedFrames
    <3> QED
      BY <3>4, <3>5, <3>6
  <2> QED
    BY <2>1, <2>2, <2>3
<1> QED
  BY <1>1, <1>2, <1>3, FlagsSame

\* Edits.
LEMMA FlagsEdit ==
  ASSUME Control, Flags, NEW t \in Threads, NEW s, Grown(t, {Edit(s)}, Edit(s)),
         UNCHANGED <<realized, init, cache>>
  PROVE  Flags'
<1>1. Moved(t, {Edit(s)})
  BY MovedFrames
<1>2. \A g \in {Edit(s)} : Ready(t, g)'
  BY DEF Ready, Edit, Past
<1>3. \A c \in Classes : cache'[c] \in {cache[c], None}
  OBVIOUS
<1> QED
  BY <1>1, <1>2, <1>3, FlagsSame

LEMMA FlagsFlush ==
  ASSUME Control, Flags, NEW t \in Threads, flushCaches(t)
  PROVE  Flags'
<1>1. UNCHANGED <<realized, init>>
  BY DEF flushCaches, table, inits
<1>2. CASE Popped(t) /\ cache' = cache
  <2>1. Moved(t, {}) /\ \A c \in Classes : cache'[c] \in {cache[c], None}
    BY <1>2, MovedFrames
  <2> QED
    BY <1>1, <2>1, FlagsSame
<1>3. ASSUME NEW c \in Classes, NEW g \in Frames, cache' = [cache EXCEPT ![c] = None],
             Grown(t, {g}, g), g.pc = "flush"
      PROVE  Flags'
  <2>1. Moved(t, {g}) /\ \A d \in Classes : cache'[d] \in {cache[d], None}
    BY <1>3, MovedFrames DEF Control, Typed
  <2>2. \A h \in {g} : Ready(t, h)'
    BY <1>3 DEF Ready, Past
  <2> QED
    BY <1>1, <2>1, <2>2, FlagsSame
<1> QED
  BY <1>2, <1>3, StepFlush

LEMMA FlagsExpand ==
  ASSUME Control, Flags, (\E c \in Classes : expand(c)) \/ UNCHANGED vars
  PROVE  Flags'
<1>1. UNCHANGED <<realized, init, stack>>
  BY DEF expand, vars, table, inits
<1>2. \A d \in Classes : cache'[d] \in {cache[d], None}
  BY DEF expand, vars, Control, Typed
<1>3. RealizedUp' /\ InitUp' /\ CachedReady'
  BY <1>1, <1>2 DEF Flags, RealizedUp, InitUp, CachedReady
<1>4. AllReady'
  BY <1>1 DEF Flags, AllReady, Ready, Begun
<1> QED
  BY <1>3, <1>4 DEF Flags
-----------------------------------------------------------------------------
(* Third layer: the method lists. *)

\* The base methods of a class, as a list of lists.
BaseOf(c) == IF c \in base THEN <<Own(c)>> ELSE <<>>

LEMMA BaseType ==
  ASSUME NEW c \in Classes
  PROVE  BaseOf(c) \in Seq(Lists) /\ Range(BaseOf(c)) \subseteq ListsOf(c)
<1>1. Own(c) \in Lists /\ Own(c) \in ListsOf(c)
  BY DEF Lists, ListsOf
<1>2. CASE c \in base
  <2>1. PICK x \in Lists : x = Own(c)
    BY <1>1
  <2>2. <<x>> \in Seq(Lists) /\ DOMAIN <<x>> = {1} /\ <<x>>[1] = x
    OBVIOUS
  <2> QED
    BY <1>1, <1>2, <2>1, <2>2 DEF BaseOf, Range
<1>3. CASE c \notin base
  BY <1>3 DEF BaseOf, Range
<1> QED
  BY <1>2, <1>3

LEMMA ExpectedIs ==
  ASSUME Typed, OwnLists, NEW c \in Classes
  PROVE  /\ Expected(c) = Reverse(arrived[c]) \o BaseOf(c)
         /\ Expected(c) \in Seq(Lists)
         /\ Expected(c) # <<>> => Head(Expected(c)) \in Lists \cap ListsOf(c)
<1>1. Expected(c) = Reverse(arrived[c]) \o BaseOf(c)
  BY DEF Expected, BaseOf
<1>2. PICK b \in Seq(Lists) : b = BaseOf(c) /\ Range(b) \subseteq ListsOf(c)
  BY BaseType
<1>3. PICK r \in Seq(Lists) : r = Reverse(arrived[c]) /\ Range(r) \subseteq ListsOf(c)
  <2>1. PICK a \in Seq(Lists) : a = arrived[c] /\ Range(a) \subseteq ListsOf(c)
    BY DEF Typed, OwnLists
  <2>2. Reverse(a) \in Seq(Lists) /\ Range(Reverse(a)) = Range(a)
    BY ReverseOps, Zenon
  <2> QED
    BY <2>1, <2>2
<1>4. r \o b \in Seq(Lists)
  OBVIOUS
<1>5. ASSUME r \o b # <<>> PROVE Head(r \o b) \in Lists \cap ListsOf(c)
  <2>1. CASE r # <<>>
    <3>1. Head(r \o b) = r[1] /\ 1 \in DOMAIN r
      BY <2>1
    <3> QED
      BY <1>3, <3>1 DEF Range
  <2>2. CASE r = <<>>
    <3>1. r \o b = b /\ b # <<>>
      BY <1>5, <2>2
    <3>2. Head(b) = b[1] /\ 1 \in DOMAIN b
      BY <3>1
    <3> QED
      BY <1>2, <3>1, <3>2 DEF Range
  <2> QED
    BY <2>1, <2>2
<1> QED
  BY <1>1, <1>2, <1>3, <1>4, <1>5

\* Lists of different classes are different.
LEMMA ListsApart ==
  ASSUME NEW c \in Classes, NEW d \in Classes, c # d
  PROVE  ListsOf(c) \cap ListsOf(d) = {}
  BY DEF ListsOf, Own, Added, Cat

LEMMA OrderedSame ==
  ASSUME Ordered, UNCHANGED <<base, realized, unattached, lists, arrived>>
  PROVE  Ordered'
  BY DEF Ordered, LoadOrderWins, OwnLists, NotYetListed, Expected

LEMMA OrderedSlow ==
  ASSUME Control, Ordered, NEW t \in Threads, SlowPath(t)
  PROVE  Ordered'
<1>1. PICK c \in Classes : realizeClass(c)
  BY StepSlow
<1>2. UNCHANGED <<base, arrived>>
  BY DEF SlowPath
<1>3. PICK new : new = Range(chain[c]) \ realized
  OBVIOUS
<1>4. /\ realized' = realized \cup new
      /\ \A k \in Classes :
           IF k \in new THEN lists'[k] = Reverse(Named(unattached[k])) \o BaseOf(k)
           ELSE lists'[k] = lists[k] /\ unattached'[k] = unattached[k]
  BY <1>1, <1>3, Realized DEF Control, BaseOf
<1>5. \A k \in Classes : Expected(k)' = Reverse(arrived[k]) \o BaseOf(k)
  BY <1>2 DEF Expected, BaseOf
<1>6. ASSUME NEW k \in Classes
      PROVE  IF k \in realized' THEN lists'[k] = Expected(k)'
             ELSE [j \in DOMAIN unattached'[k] |-> Cat(unattached'[k][j])] = arrived'[k]
  <2>1. CASE k \in new
    <3>1. Named(unattached[k]) = arrived[k]
      BY <1>3, <2>1 DEF Ordered, LoadOrderWins, Named
    <3> QED
      BY <1>4, <1>5, <2>1, <3>1
  <2>2. CASE k \in realized
    <3>1. lists'[k] = lists[k] /\ lists[k] = Expected(k) /\ Expected(k)' = Expected(k)
      BY <1>2, <1>3, <1>4, <2>2 DEF Ordered, LoadOrderWins, Expected
    <3> QED
      BY <1>4, <2>2, <3>1
  <2>3. CASE k \notin realized \cup new
    BY <1>2, <1>4, <2>3 DEF Ordered, LoadOrderWins
  <2> QED
    BY <2>1, <2>2, <2>3
<1>7. LoadOrderWins'
  BY <1>6 DEF LoadOrderWins
<1>8. OwnLists'
  BY <1>2 DEF Ordered, OwnLists
<1>9. NotYetListed'
  BY <1>4 DEF Ordered, NotYetListed
<1> QED
  BY <1>7, <1>8, <1>9 DEF Ordered

\* What a class has after something came.
LEMMA Arrives ==
  ASSUME Control, Ordered, NEW c \in Classes, NEW x \in Lists, x \in ListsOf(c),
         arrived' = [arrived EXCEPT ![c] = Append(@, x)], UNCHANGED base
  PROVE  /\ Expected(c)' = <<x>> \o Expected(c)
         /\ \A d \in Classes : d # c => Expected(d)' = Expected(d) /\ arrived'[d] = arrived[d]
         /\ arrived'[c] = Append(arrived[c], x)
         /\ OwnLists'
<1>1. PICK a \in Seq(Lists) : a = arrived[c]
  BY DEF Control, Typed
<1>2. PICK b \in Seq(Lists) : b = BaseOf(c)
  BY BaseType
<1>3. arrived'[c] = Append(a, x) /\ \A d \in Classes : d # c => arrived'[d] = arrived[d]
  BY <1>1 DEF Control, Typed
<1>4. Reverse(Append(a, x)) \o b = <<x>> \o (Reverse(a) \o b)
  BY ReverseAppend
<1>5. Expected(c)' = Reverse(arrived'[c]) \o BaseOf(c) /\ Expected(c) = Reverse(a) \o b
  BY <1>1, <1>2 DEF Expected, BaseOf
<1>6. Expected(c)' = <<x>> \o Expected(c)
  BY <1>2, <1>3, <1>4, <1>5
<1>7. \A d \in Classes : d # c => Expected(d)' = Expected(d)
  BY <1>3 DEF Expected
<1>8. Range(Append(a, x)) \subseteq ListsOf(c)
  <2>1. Range(a) \subseteq ListsOf(c)
    BY <1>1 DEF Ordered, OwnLists
  <2>2. \A i \in DOMAIN Append(a, x) : Append(a, x)[i] = x \/ (i \in DOMAIN a /\ Append(a, x)[i] = a[i])
    OBVIOUS
  <2> QED
    BY <2>1, <2>2 DEF Range
<1>9. OwnLists'
  BY <1>3, <1>8 DEF Ordered, OwnLists
<1> QED
  BY <1>1, <1>3, <1>6, <1>7, <1>9

LEMMA OrderedMap ==
  ASSUME Control, Ordered, NEW t \in Threads, NEW k \in Categories, map_category(t, k)
  PROVE  Ordered'
<1>1. PICK c \in Classes : c = classOf[k]
  BY Constants
<1>2. PICK x \in Lists : x = Cat(k) /\ x \in ListsOf(c)
  BY <1>1 DEF Lists, ListsOf
<1>3. UNCHANGED <<base, realized>> /\ arrived' = [arrived EXCEPT ![c] = Append(@, x)]
  BY <1>1, <1>2 DEF map_category
<1>4. /\ Expected(c)' = <<x>> \o Expected(c) /\ arrived'[c] = Append(arrived[c], x) /\ OwnLists'
      /\ \A d \in Classes : d # c => Expected(d)' = Expected(d) /\ arrived'[d] = arrived[d]
  BY <1>2, <1>3, Arrives
<1>5. CASE c \in realized
  <2>1. lists' = [lists EXCEPT ![c] = <<x>> \o @] /\ unattached' = unattached
    BY <1>1, <1>2, <1>5, StepMap
  <2>2. lists'[c] = <<x>> \o lists[c] /\ \A d \in Classes : d # c => lists'[d] = lists[d]
    BY <2>1 DEF Control, Typed
  <2>3. lists'[c] = Expected(c)'
    BY <1>4, <1>5, <2>2 DEF Ordered, LoadOrderWins
  <2>4. LoadOrderWins'
    BY <1>3, <1>4, <1>5, <2>1, <2>2, <2>3 DEF Ordered, LoadOrderWins
  <2>5. NotYetListed'
    BY <1>3, <1>5, <2>2 DEF Ordered, NotYetListed
  <2> QED
    BY <1>4, <2>4, <2>5 DEF Ordered
<1>6. CASE c \notin realized
  <2>1. unattached' = [unattached EXCEPT ![c] = Append(@, k)] /\ lists' = lists
    BY <1>1, <1>6, StepMap
  <2>2. /\ unattached'[c] = Append(unattached[c], k)
        /\ \A d \in Classes : d # c => unattached'[d] = unattached[d]
    BY <2>1 DEF Control, Typed
  <2>3. Named(unattached'[c]) = arrived'[c]
    <3>1. PICK u \in Seq(Categories) : u = unattached[c]
      BY DEF Control, Typed
    <3>2. Named(u) = arrived[c]
      BY <1>6, <3>1 DEF Ordered, LoadOrderWins, Named
    <3>3. Named(Append(u, k)) = Append(Named(u), Cat(k))
      BY NamedOps, Zenon
    <3> QED
      BY <1>2, <1>4, <2>2, <3>1, <3>2, <3>3
  <2>4. LoadOrderWins'
    <3>1. \A d \in Classes \ realized : Named(unattached'[d]) = arrived'[d]
      BY <1>4, <2>2, <2>3 DEF Ordered, LoadOrderWins, Named
    <3>2. \A d \in realized : lists'[d] = Expected(d)'
      BY <1>4, <1>6, <2>1 DEF Ordered, LoadOrderWins, Control, Typed
    <3> QED
      BY <1>3, <3>1, <3>2 DEF LoadOrderWins, Named
  <2>5. NotYetListed'
    BY <1>3, <2>1 DEF Ordered, NotYetListed
  <2> QED
    BY <1>4, <2>4, <2>5 DEF Ordered
<1> QED
  BY <1>5, <1>6

LEMMA OrderedAdd ==
  ASSUME Control, Ordered, NEW t \in Threads, NEW c \in Classes, class_addMethod(t, c)
  PROVE  Ordered'
<1>1. PICK x \in Lists : x = Added(c) /\ x \in ListsOf(c)
  BY DEF Lists, ListsOf
<1>2. /\ UNCHANGED <<base, realized, unattached>> /\ c \in realized /\ lists[c] = <<>>
      /\ lists' = [lists EXCEPT ![c] = <<x>>] /\ arrived' = [arrived EXCEPT ![c] = Append(@, x)]
  BY <1>1 DEF class_addMethod
<1>3. /\ Expected(c)' = <<x>> \o Expected(c) /\ OwnLists'
      /\ \A d \in Classes : d # c => Expected(d)' = Expected(d) /\ arrived'[d] = arrived[d]
  BY <1>1, <1>2, Arrives
<1>4. lists'[c] = <<x>> /\ \A d \in Classes : d # c => lists'[d] = lists[d]
  BY <1>2 DEF Control, Typed
<1>5. Expected(c) = <<>>
  BY <1>2 DEF Ordered, LoadOrderWins
<1>6. <<x>> \o <<>> = <<x>>
  OBVIOUS
<1>7. LoadOrderWins'
  BY <1>2, <1>3, <1>4, <1>5, <1>6 DEF Ordered, LoadOrderWins
<1>8. NotYetListed'
  BY <1>2, <1>4 DEF Ordered, NotYetListed
<1> QED
  BY <1>3, <1>7, <1>8 DEF Ordered
-----------------------------------------------------------------------------
(* Fourth layer: the caches. *)

\* A message keeps its meaning where nothing changes along the superclasses.
LEMMA MeaningSame ==
  ASSUME NEW c \in Classes,
         \A k \in Range(chain[c]) :
           /\ Expected(k)' = Expected(k)
           /\ Expected(k) # <<>> => imp'[Head(Expected(k))] = imp[Head(Expected(k))]
  PROVE  Meaning(c)' = Meaning(c)
<1>1. Range(chain[c]) \subseteq Classes
  BY Chains
<1>2. PICK S : S = {d \in Classes : Expected(d) # <<>>}
  OBVIOUS
<1>3. PICK T : T = {d \in Classes : Expected(d)' # <<>>}
  OBVIOUS
<1>4. PICK k : k = Nearest(c, S)
  OBVIOUS
<1>5. Nearest(c, T) = k
  <2>1. \A d \in Range(chain[c]) : d \in S <=> d \in T
    BY <1>1, <1>2, <1>3
  <2> QED
    BY <1>4, <2>1, NearestSame
<1>6. Meaning(c) = IF k = Nil THEN Forward ELSE imp[Head(Expected(k))]
  BY <1>2, <1>4 DEF Meaning
<1>7. Meaning(c)' = IF k = Nil THEN Forward ELSE imp'[Head(Expected(k)')]
  <2>1. Meaning(c)' = LET j == Nearest(c, T) IN IF j = Nil THEN Forward ELSE imp'[Head(Expected(j)')]
    BY <1>3 DEF Meaning
  <2> QED
    BY <1>5, <2>1
<1>8. k = Nil \/ (k \in Range(chain[c]) /\ k \in S)
  BY <1>4, NearestIs DEF Range
<1> QED
  BY <1>2, <1>6, <1>7, <1>8

\* What a search ends with is what the message means, if no cache is stale.
LEMMA SearchMeans ==
  ASSUME Control, Flags, Ordered, Coherent, NEW c \in Classes, c \in realized,
         \A k \in Classes : ~Stale(k)
  PROVE  /\ Searched(c) = Nil => Meaning(c) = Forward
         /\ Searched(c) # Nil => Answer(Searched(c)) = Meaning(c)
<1>1. Range(chain[c]) \subseteq Classes /\ Range(chain[c]) \subseteq realized
  BY Chains DEF Flags, RealizedUp
<1>2. PICK S : S = {d \in Classes : Answer(d) # None}
  OBVIOUS
<1>3. PICK T : T = {d \in Classes : Expected(d) # <<>>}
  OBVIOUS
<1>4. \A d \in Range(chain[c]) : lists[d] = Expected(d)
  BY <1>1 DEF Ordered, LoadOrderWins
<1>5. \A d \in Range(chain[c]) : d \notin S => d \notin T
  <2>1. ASSUME NEW d \in Range(chain[c]), d \notin S PROVE d \notin T
    <3>1. d \in Classes /\ Answer(d) = None
      BY <1>1, <1>2, <2>1
    <3>2. lists[d] = <<>>
      BY <3>1, AnswerType DEF Control
    <3> QED
      BY <1>3, <1>4, <3>2
  <2> QED
    BY <2>1
<1>6. \A d \in Classes : Meaning(d) = IF Nearest(d, T) = Nil THEN Forward
                                      ELSE imp[Head(Expected(Nearest(d, T)))]
  BY <1>3 DEF Meaning
<1>7. Searched(c) = Nearest(c, S)
  BY <1>2 DEF Searched
<1>8. CASE Nearest(c, S) = Nil /\ \A k \in Range(chain[c]) : k \notin S
  <2>1. Nearest(c, T) = Nil
    BY <1>5, <1>8, NearestNone
  <2> QED
    BY <1>6, <1>7, <1>8, <2>1
<1>9. ASSUME NEW i \in DOMAIN chain[c], Nearest(c, S) = chain[c][i], chain[c][i] \in S,
             \A j \in DOMAIN chain[c] : j < i => chain[c][j] \notin S
      PROVE  Answer(chain[c][i]) = Meaning(c)
  <2>1. PICK k \in Classes : k = chain[c][i]
    BY Suffix
  <2>2. k \in Range(chain[c])
    BY <2>1 DEF Range
  <2>3. \A j \in DOMAIN chain[c] : j < i => chain[c][j] \notin T
    BY <1>5, <1>9 DEF Range
  <2>4. Nearest(c, T) = Nearest(k, T)
    BY <2>1, <2>3, NearestFrom
  <2>5. Meaning(c) = Meaning(k)
    BY <1>6, <2>4
  <2>6. CASE cache[k] # None
    <3>1. Answer(k) = cache[k] /\ cache[k] = Meaning(k)
      BY <2>6, AnswerType DEF Control, Coherent, CachesRight
    <3> QED
      BY <2>1, <2>5, <3>1
  <2>7. CASE cache[k] = None
    <3>1. lists[k] # <<>>
      BY <1>2, <1>9, <2>1, <2>7, AnswerType DEF Control
    <3>2. Answer(k) = imp[Head(lists[k])]
      BY <2>7, <3>1 DEF Answer
    <3>3. lists[k] = Expected(k) /\ k \in T
      BY <1>3, <1>4, <2>2, <3>1
    <3>4. Nearest(k, T) = k /\ k # Nil
      <4>1. /\ 1 \in DOMAIN chain[k] /\ chain[k][1] = k
            /\ \A j \in DOMAIN chain[k] : ~(j < 1)
        BY ChainStep
      <4>2. chain[k][1] \in T /\ \A j \in DOMAIN chain[k] : j < 1 => chain[k][j] \notin T
        BY <3>3, <4>1
      <4>3. Nearest(k, T) = chain[k][1]
        BY <4>1, <4>2, NearestAt
      <4> QED
        BY <4>1, <4>3, Constants
    <3> QED
      BY <1>6, <2>1, <2>5, <3>2, <3>3, <3>4
  <2> QED
    BY <2>6, <2>7
<1>10. \A i \in DOMAIN chain[c] : chain[c][i] # Nil
  BY Suffix, Constants
<1> QED
  BY <1>7, <1>8, <1>9, <1>10, NearestIs

\* Only one thread can be at a flush or a fill: the one that has the lock.
LEMMA OneAtWork ==
  ASSUME Control, NEW t \in Threads, At(t, "flush") \/ At(t, "fill")
  PROVE  runtimeLock = t
  BY DEF Control, Locks, OnLock, At, Locking

\* Steps that do not change what messages mean.
LEMMA CoherentKept ==
  ASSUME Control, Control', Coherent, NEW t \in Threads, UNCHANGED <<base, arrived, imp>>,
         \A u \in Threads \ {t} : stack'[u] = stack[u], ~At(t, "flush"),
         \A c \in Classes : cache'[c] \in {cache[c], None, Meaning(c)},
         stack'[t] # <<>> /\ Top(t)'.pc = "fill" => Top(t)'.got = Meaning(Top(t)'.cls)
  PROVE  Coherent'
<1>1. \A c \in Classes : Meaning(c)' = Meaning(c)
  <2>1. \A c \in Classes : Range(chain[c]) \subseteq Classes
    BY Chains
  <2>2. \A k \in Classes : Expected(k)' = Expected(k)
    BY DEF Expected
  <2> QED
    BY <2>1, <2>2, MeaningSame
<1>2. \A c \in Classes : Stale(c) => Stale(c)'
  BY DEF Stale, At, Top
<1>3. CachesRight'
  BY <1>1, <1>2 DEF Coherent, CachesRight
<1>4. ASSUME NEW u \in Threads, NEW c \in Classes, At(u, "fill")', Top(u)'.cls = c
      PROVE  Top(u)'.got = Meaning(c)'
  <2>1. CASE u = t
    BY <1>1, <1>4, <2>1 DEF At
  <2>2. CASE u # t
    <3>1. Top(u)' = Top(u) /\ At(u, "fill")
      BY <1>4, <2>2 DEF At, Top
    <3> QED
      BY <1>1, <1>4, <3>1 DEF Coherent, FillsRight
  <2> QED
    BY <2>1, <2>2
<1>5. FillsRight'
  BY <1>4 DEF FillsRight
<1> QED
  BY <1>3, <1>5 DEF Coherent

\* Lookups that find or fill nothing, and calls.
LEMMA CoherentQuiet ==
  ASSUME Control, Control', Coherent, NEW t \in Threads,
         UNCHANGED <<base, arrived, imp, cache>>, ~At(t, "flush"),
         \/ \E N, f : Grown(t, N, f) /\ f.pc # "fill"
         \/ Popped(t)
  PROVE  Coherent'
<1>1. \A u \in Threads \ {t} : stack'[u] = stack[u]
  BY DEF Grown, Popped
<1>2. ~(stack'[t] # <<>> /\ Top(t)'.pc = "fill")
  BY DEF Grown, Popped, Waiting
<1>3. \A c \in Classes : cache'[c] \in {cache[c], None, Meaning(c)}
  OBVIOUS
<1> QED
  BY <1>1, <1>2, <1>3, CoherentKept

LEMMA CoherentLookup ==
  ASSUME Control, Control', Flags, Ordered, Coherent, NEW t \in Threads,
         \/ \E c \in Classes : objc_msgSend(t, c)
         \/ LookupStep(t)
  PROVE  Coherent'
<1>1. ASSUME NEW c \in Classes, objc_msgSend(t, c) PROVE Coherent'
  <2>1. Grown(t, {Lookup(c, TRUE, TRUE)}, Lookup(c, TRUE, TRUE))
    BY <1>1, StepSend
  <2>2. Lookup(c, TRUE, TRUE).pc # "fill"
    BY DEF Lookup
  <2>3. UNCHANGED <<base, arrived, imp, cache>> /\ ~At(t, "flush")
    BY <1>1 DEF objc_msgSend, table, InClient, At
  <2> QED
    BY <2>1, <2>2, <2>3, CoherentQuiet
<1>2. CASE CacheLookup(t)
  <2>1. UNCHANGED <<base, arrived, imp, cache>> /\ ~At(t, "flush")
    BY <1>2 DEF CacheLookup, table, At
  <2>2. \E N, f : Grown(t, N, f) /\ f.pc # "fill"
    BY <1>2, StepCached DEF Goes
  <2> QED
    BY <2>1, <2>2, CoherentQuiet
<1>3. CASE SlowPath(t)
  <2>1. UNCHANGED <<base, arrived, imp, cache>> /\ ~At(t, "flush")
    BY <1>3 DEF SlowPath, At
  <2>2. \E N, f : Grown(t, N, f) /\ f.pc # "fill"
    BY <1>3, StepSlow DEF Goes
  <2> QED
    BY <2>1, <2>2, CoherentQuiet
<1>4. CASE Relock(t)
  <2>1. UNCHANGED <<base, arrived, imp, cache>> /\ ~At(t, "flush")
    BY <1>4 DEF Relock, table, At
  <2>2. \E N, f : Grown(t, N, f) /\ f.pc # "fill"
    BY <1>4, StepRelock DEF Goes
  <2> QED
    BY <2>1, <2>2, CoherentQuiet
<1>5. CASE Search(t)
  <2>1. UNCHANGED <<base, arrived, imp, cache>> /\ ~At(t, "flush")
    BY <1>5 DEF Search, table, At
  <2>2. PICK c \in Classes :
          /\ c = Top(t).cls /\ stack[t] # <<>> /\ Top(t).pc = "search" /\ runtimeLock = t
          /\ \/ /\ Searched(c) # Nil /\ IsFound(c, Searched(c))
                /\ Goes(t, "fill", Answer(Searched(c)), Top(t).resolver)
             \/ Goes(t, "resolve", Top(t).got, FALSE)
             \/ /\ Searched(c) = Nil \/ ~IsFound(c, Searched(c))
                /\ Goes(t, "fill", Forward, Top(t).resolver)
    BY <1>5, StepSearch
  <2>3. c \in realized
    BY <2>2, TopReady DEF Ready, Past
  <2>4. \A k \in Classes : ~Stale(k)
    BY <2>1, <2>2, OneAtWork DEF Stale
  <2>5. /\ Searched(c) = Nil => Meaning(c) = Forward
        /\ Searched(c) # Nil => Answer(Searched(c)) = Meaning(c)
    BY <2>3, <2>4, SearchMeans
  <2>6. Goes(t, "fill", Meaning(c), Top(t).resolver) \/ Goes(t, "resolve", Top(t).got, FALSE)
    BY <2>2, <2>5 DEF IsFound
  <2>7. PICK g \in Frames : /\ Grown(t, {g}, g) /\ g.cls = c
                            /\ g.pc = "fill" => g.got = Meaning(c)
    BY <2>2, <2>6 DEF Goes
  <2>8. /\ \A u \in Threads \ {t} : stack'[u] = stack[u]
        /\ stack'[t] # <<>> /\ Top(t)' = g
    BY <2>7 DEF Grown
  <2>9. \A d \in Classes : cache'[d] \in {cache[d], None, Meaning(d)}
    BY <2>1
  <2> QED
    BY <2>1, <2>7, <2>8, <2>9, CoherentKept
<1>6. CASE Fill(t)
  <2>1. UNCHANGED <<base, arrived, imp>> /\ ~At(t, "flush") /\ At(t, "fill")
    BY <1>6 DEF Fill, table, At
  <2>2. PICK c \in Classes :
          /\ c = Top(t).cls /\ cache' \in {cache, [cache EXCEPT ![c] = Top(t).got]}
          /\ Goes(t, "done", Top(t).got, Top(t).resolver)
    BY <1>6, StepFill
  <2>3. Top(t).got = Meaning(c)
    BY <2>1, <2>2 DEF Coherent, FillsRight
  <2>4. \A d \in Classes : cache'[d] \in {cache[d], None, Meaning(d)}
    BY <2>2, <2>3 DEF Control, Typed
  <2>5. PICK g \in Frames : Grown(t, {g}, g) /\ g.pc = "done"
    BY <2>2 DEF Goes
  <2>6. /\ \A u \in Threads \ {t} : stack'[u] = stack[u]
        /\ Top(t)' = g
    BY <2>5 DEF Grown
  <2> QED
    BY <2>1, <2>4, <2>5, <2>6, CoherentKept
<1>7. CASE Dispatch(t)
  <2>1. UNCHANGED <<base, arrived, imp, cache>> /\ ~At(t, "flush")
    BY <1>7 DEF Dispatch, table, At
  <2> QED
    BY <1>7, <2>1, StepDispatch, CoherentQuiet
<1>8. CASE class_initialize(t)
  <2>1. UNCHANGED <<base, arrived, imp, cache>> /\ ~At(t, "flush")
    BY <1>8 DEF class_initialize, table, At
  <2>2. \A k : ClientCode(k, "+initialize").pc # "fill"
    BY DEF ClientCode
  <2>3. \E N, f : Grown(t, N, f) /\ f.pc # "fill"
    BY <1>8, <2>2, StepInitialize DEF Goes
  <2> QED
    BY <2>1, <2>3, CoherentQuiet
<1>9. CASE finishInitializing(t)
  <2>1. UNCHANGED <<base, arrived, imp, cache>> /\ ~At(t, "flush")
    BY <1>9 DEF finishInitializing, table, At
  <2> QED
    BY <1>9, <2>1, StepFinish, CoherentQuiet
<1>10. CASE class_resolveMethod(t)
  <2>1. UNCHANGED <<base, arrived, imp, cache>> /\ ~At(t, "flush")
    BY <1>10 DEF class_resolveMethod, table, At
  <2>2. ClientCode(Top(t).cls, "+resolve").pc # "fill"
    BY DEF ClientCode
  <2>3. \E N, f : Grown(t, N, f) /\ f.pc # "fill"
    BY <1>10, <2>2, StepResolve
  <2> QED
    BY <2>1, <2>3, CoherentQuiet
<1>11. CASE ResolverReturns(t)
  <2>1. UNCHANGED <<base, arrived, imp, cache>> /\ ~At(t, "flush")
    BY <1>11 DEF ResolverReturns, table, At
  <2> QED
    BY <1>11, <2>1, StepReturns, CoherentQuiet
<1>12. CASE Resolved(t)
  <2>1. UNCHANGED <<base, arrived, imp, cache>> /\ ~At(t, "flush")
    BY <1>12 DEF Resolved, table, At
  <2>2. Lookup(Top(t).cls, FALSE, FALSE).pc # "fill"
    BY DEF Lookup
  <2>3. \E N, f : Grown(t, N, f) /\ f.pc # "fill"
    BY <1>12, <2>2, StepResolved
  <2> QED
    BY <2>1, <2>3, CoherentQuiet
<1> QED
  BY <1>1, <1>2, <1>3, <1>4, <1>5, <1>6, <1>7, <1>8, <1>9, <1>10, <1>11, <1>12 DEF LookupStep

\* An edit begins, which will flush s: the caches it leaves out keep their meaning.
LEMMA CoherentEdit ==
  ASSUME Control, Flags, Coherent, NEW t \in Threads, NEW s, Grown(t, {Edit(s)}, Edit(s)),
         runtimeLock = NoThread, UNCHANGED cache,
         \A c \in realized \ s : Meaning(c)' = Meaning(c)
  PROVE  Coherent'
<1>1. \A u \in Threads : ~At(u, "flush") /\ ~At(u, "fill")
  BY OneAtWork, Constants
<1>2. /\ \A u \in Threads \ {t} : stack'[u] = stack[u]
      /\ stack'[t] # <<>> /\ Top(t)' = Edit(s)
  BY DEF Grown
<1>3. Edit(s).pc = "flush" /\ Edit(s).todo = s
  BY DEF Edit
<1>4. \A u \in Threads : ~At(u, "fill")'
  BY <1>1, <1>2, <1>3 DEF At, Top
<1>5. FillsRight'
  BY <1>4 DEF FillsRight
<1>6. ASSUME NEW c \in Classes PROVE (cache[c] \in {None, Meaning(c)} \/ Stale(c))'
  <2>1. CASE c \in s
    <3>1. At(t, "flush")' /\ c \in Top(t)'.todo
      BY <1>2, <1>3, <2>1 DEF At
    <3> QED
      BY <3>1 DEF Stale
  <2>2. CASE c \notin realized
    BY <2>2 DEF Flags, CachedReady
  <2>3. CASE c \in realized \ s
    <3>1. cache[c] \in {None, Meaning(c)}
      BY <1>1 DEF Coherent, CachesRight, Stale
    <3>2. Meaning(c)' = Meaning(c)
      BY <2>3
    <3> QED
      BY <3>1, <3>2
  <2> QED
    BY <2>1, <2>2, <2>3
<1> QED
  BY <1>5, <1>6 DEF Coherent, CachesRight

LEMMA CoherentMap ==
  ASSUME Control, Flags, Ordered, Coherent, NEW t \in Threads, NEW k \in Categories,
         map_category(t, k)
  PROVE  Coherent'
<1>1. PICK c \in Classes : c = classOf[k]
  BY Constants
<1>2. PICK x \in Lists : x = Cat(k) /\ x \in ListsOf(c)
  BY <1>1 DEF Lists, ListsOf
<1>3. /\ UNCHANGED <<base, imp, cache>> /\ runtimeLock = NoThread
      /\ arrived' = [arrived EXCEPT ![c] = Append(@, x)]
  BY <1>1, <1>2 DEF map_category, Lock
<1>4. \A d \in Classes : d # c => Expected(d)' = Expected(d)
  BY <1>2, <1>3, Arrives
<1>5. \A d \in Classes : c \notin Range(chain[d]) => Meaning(d)' = Meaning(d)
  <2>1. \A d \in Classes : Range(chain[d]) \subseteq Classes
    BY Chains
  <2> QED
    BY <1>3, <1>4, <2>1, MeaningSame
<1>6. PICK s \in SUBSET Classes : /\ Grown(t, {Edit(s)}, Edit(s))
                                  /\ c \in realized => s = Flushed(c)
  BY <1>1, StepMap
<1>7. \A d \in realized \ s : d \in Classes /\ c \notin Range(chain[d])
  BY <1>6 DEF Flushed, Family, Flags, RealizedUp, Control, Typed
<1> QED
  BY <1>3, <1>5, <1>6, <1>7, CoherentEdit

LEMMA CoherentAdd ==
  ASSUME Control, Flags, Ordered, Coherent, NEW t \in Threads, NEW c \in Classes,
         class_addMethod(t, c)
  PROVE  Coherent'
<1>1. PICK x \in Lists : x = Added(c) /\ x \in ListsOf(c)
  BY DEF Lists, ListsOf
<1>2. /\ UNCHANGED <<base, imp, cache>> /\ runtimeLock = NoThread
      /\ arrived' = [arrived EXCEPT ![c] = Append(@, x)]
  BY <1>1 DEF class_addMethod, Lock
<1>3. \A d \in Classes : d # c => Expected(d)' = Expected(d)
  BY <1>1, <1>2, Arrives
<1>4. \A d \in Classes : c \notin Range(chain[d]) => Meaning(d)' = Meaning(d)
  <2>1. \A d \in Classes : Range(chain[d]) \subseteq Classes
    BY Chains
  <2> QED
    BY <1>2, <1>3, <2>1, MeaningSame
<1>5. Grown(t, {Edit(Flushed(c))}, Edit(Flushed(c)))
  BY StepAdd
<1>6. \A d \in realized \ Flushed(c) : d \in Classes /\ c \notin Range(chain[d])
  BY DEF Flushed, Family, Control, Typed
<1> QED
  BY <1>2, <1>4, <1>5, <1>6, CoherentEdit

\* A new implementation in a list of c matters to c and its subclasses only.
LEMMA CoherentReplace ==
  ASSUME Control, Flags, Ordered, Coherent, NEW t \in Threads, NEW c \in realized,
         lists[c] # <<>>, setImplementation(t, Head(lists[c]), Flushed(c))
  PROVE  Coherent'
<1>1. c \in Classes /\ lists[c] = Expected(c)
  BY DEF Ordered, LoadOrderWins, Control, Typed
<1>2. PICK l \in Lists : l = Head(lists[c]) /\ l \in ListsOf(c)
  BY <1>1, ExpectedIs DEF Control, Ordered
<1>3. PICK s \in SUBSET Classes : s = Flushed(c)
  BY DEF Flushed, Family
<1>4. /\ runtimeLock = NoThread /\ Grown(t, {Edit(s)}, Edit(s))
      /\ \A m \in Lists : m # l => imp'[m] = imp[m]
  BY <1>2, <1>3, StepSet
<1>5. UNCHANGED <<base, arrived, cache>>
  BY DEF setImplementation
<1>6. \A d \in Classes : Expected(d)' = Expected(d)
  BY <1>5 DEF Expected
<1>7. \A d \in Classes : d # c /\ Expected(d) # <<>> =>
                           imp'[Head(Expected(d))] = imp[Head(Expected(d))]
  <2>1. ASSUME NEW d \in Classes, d # c, Expected(d) # <<>>
        PROVE  imp'[Head(Expected(d))] = imp[Head(Expected(d))]
    <3>1. Head(Expected(d)) \in Lists /\ Head(Expected(d)) \in ListsOf(d)
      BY <2>1, ExpectedIs DEF Control, Ordered
    <3>2. Head(Expected(d)) # l
      BY <1>1, <1>2, <2>1, <3>1, ListsApart
    <3> QED
      BY <1>4, <3>1, <3>2
  <2> QED
    BY <2>1
<1>8. \A d \in Classes : c \notin Range(chain[d]) => Meaning(d)' = Meaning(d)
  <2>1. \A d \in Classes : Range(chain[d]) \subseteq Classes
    BY Chains
  <2> QED
    BY <1>6, <1>7, <2>1, MeaningSame
<1>9. \A d \in realized \ s : d \in Classes /\ c \notin Range(chain[d])
  BY <1>3 DEF Flushed, Family, Control, Typed
<1> QED
  BY <1>4, <1>5, <1>8, <1>9, CoherentEdit

\* What method_setImplementation and the exchange flush: everything.
LEMMA CoherentAll ==
  ASSUME Control, Flags, Coherent, NEW t \in Threads, Grown(t, {Edit(realized)}, Edit(realized)),
         runtimeLock = NoThread, UNCHANGED cache
  PROVE  Coherent'
<1>1. PICK s : s = realized /\ Grown(t, {Edit(s)}, Edit(s))
  OBVIOUS
<1>2. \A c \in realized \ s : Meaning(c)' = Meaning(c)
  BY <1>1
<1> QED
  BY <1>1, <1>2, CoherentEdit

LEMMA CoherentFlush ==
  ASSUME Control, Coherent, NEW t \in Threads, flushCaches(t)
  PROVE  Coherent'
<1>1. UNCHANGED <<base, arrived, imp>>
  BY DEF flushCaches, table
<1>2. \A c \in Classes : Meaning(c)' = Meaning(c)
  <2>1. \A c \in Classes : Range(chain[c]) \subseteq Classes
    BY Chains
  <2>2. \A k \in Classes : Expected(k)' = Expected(k)
    BY <1>1 DEF Expected
  <2> QED
    BY <1>1, <2>1, <2>2, MeaningSame
<1>3. runtimeLock = t /\ stack[t] # <<>> /\ Top(t).pc = "flush"
  BY StepFlush
<1>4. \A u \in Threads \ {t} : ~At(u, "flush") /\ ~At(u, "fill")
  BY <1>3, OneAtWork
<1>5. CASE Top(t).todo = {} /\ Popped(t) /\ cache' = cache
  <2>1. \A u \in Threads : ~At(u, "fill")'
    BY <1>4, <1>5 DEF Popped, Waiting, At, Top
  <2>2. \A c \in Classes : cache[c] \in {None, Meaning(c)}
    BY <1>4, <1>5 DEF Coherent, CachesRight, Stale
  <2>3. CachesRight'
    BY <1>2, <1>5, <2>2 DEF CachesRight
  <2> QED
    BY <2>1, <2>3 DEF Coherent, FillsRight
<1>6. ASSUME NEW c \in Classes, NEW g \in Frames, cache' = [cache EXCEPT ![c] = None],
             Grown(t, {g}, g), g.pc = "flush", g.todo = Top(t).todo \ {c}
      PROVE  Coherent'
  <2>1. /\ \A u \in Threads \ {t} : stack'[u] = stack[u]
        /\ stack'[t] # <<>> /\ Top(t)' = g
    BY <1>6 DEF Grown
  <2>2. \A u \in Threads : ~At(u, "fill")'
    BY <1>4, <1>6, <2>1 DEF At, Top
  <2>3. ASSUME NEW d \in Classes PROVE (cache[d] \in {None, Meaning(d)} \/ Stale(d))'
    <3>1. CASE d = c
      BY <1>6, <3>1 DEF Control, Typed
    <3>2. CASE d # c /\ d \in Top(t).todo
      <4>1. At(t, "flush")' /\ d \in Top(t)'.todo
        BY <1>6, <2>1, <3>2 DEF At
      <4> QED
        BY <4>1 DEF Stale
    <3>3. CASE d # c /\ d \notin Top(t).todo
      <4>1. cache[d] \in {None, Meaning(d)}
        BY <1>4, <3>3 DEF Coherent, CachesRight, Stale
      <4>2. cache'[d] = cache[d] /\ Meaning(d)' = Meaning(d)
        BY <1>2, <1>6, <3>3 DEF Control, Typed
      <4> QED
        BY <4>1, <4>2
    <3> QED
      BY <3>1, <3>2, <3>3
  <2> QED
    BY <2>2, <2>3 DEF Coherent, CachesRight, FillsRight
<1> QED
  BY <1>5, <1>6, StepFlush

LEMMA CoherentExpand ==
  ASSUME Control, Coherent, (\E c \in Classes : expand(c)) \/ UNCHANGED vars
  PROVE  Coherent'
<1>1. UNCHANGED <<base, arrived, imp, stack>>
  BY DEF expand, vars, table
<1>2. \A d \in Classes : cache'[d] \in {cache[d], None}
  BY DEF expand, vars, Control, Typed
<1>3. \A d : Meaning(d)' = Meaning(d)
  BY <1>1 DEF Meaning, Expected
<1>4. \A d : Stale(d)' <=> Stale(d)
  BY <1>1 DEF Stale, At, Top
<1>5. CachesRight'
  BY <1>2, <1>3, <1>4 DEF Coherent, CachesRight
<1>6. FillsRight'
  BY <1>1, <1>3 DEF Coherent, FillsRight, At, Top, Meaning, Expected
<1> QED
  BY <1>5, <1>6 DEF Coherent
-----------------------------------------------------------------------------
(* Fifth layer: the resolver. *)

\* A class that has the method keeps it.
ListsKept == \A c \in Classes : lists[c] # <<>> => lists'[c] # <<>>

LEMMA ResolvingMoved ==
  ASSUME Control, Resolving, ListsKept, NEW t \in Threads, NEW N, Moved(t, N),
         \A g \in N : Asked(g)', NoForward',
         stack'[t] # <<>> /\ Top(t)'.pc = "resolved" /\ Top(t)'.cls \in Resolvers =>
           lists'[Top(t)'.cls] # <<>>
  PROVE  Resolving'
<1>1. Resolvers \subseteq Classes
  BY Constants
<1>2. \A g : Asked(g) => Asked(g)'
  BY <1>1 DEF Asked, ListsKept
<1>3. \A u \in Threads : \A i \in DOMAIN stack[u] : \A g : g = stack[u][i] => Asked(g)'
  BY <1>2 DEF Resolving, AllAsked
<1>4. ASSUME NEW u \in Threads, NEW i \in DOMAIN stack'[u]
      PROVE  Asked(stack[u][i])'
  <2>1. PICK g : g = stack'[u][i]
    OBVIOUS
  <2>2. Asked(g)'
    <3>1. CASE u = t /\ g \in N
      BY <3>1
    <3>2. CASE ~(u = t /\ g \in N)
      <4>1. i \in DOMAIN stack[u] /\ g = stack[u][i]
        BY <2>1, <3>2 DEF Moved
      <4> QED
        BY <1>3, <4>1
    <3> QED
      BY <3>1, <3>2
  <2> QED
    BY <2>1, <2>2 DEF Asked
<1>5. AllAsked'
  BY <1>4 DEF AllAsked
<1>6. ResolvedNow'
  <2>1. ASSUME NEW u \in Threads, At(u, "resolved")', Top(u)'.cls \in Resolvers
        PROVE  lists'[Top(u)'.cls] # <<>>
    <3>1. CASE u = t
      BY <2>1, <3>1 DEF At
    <3>2. CASE u # t
      <4>1. stack'[u] = stack[u]
        BY <3>2 DEF Moved
      <4>2. At(u, "resolved") /\ Top(u)' = Top(u)
        BY <2>1, <4>1 DEF At, Top
      <4> QED
        BY <1>1, <2>1, <4>2 DEF Resolving, ResolvedNow, ListsKept
    <3> QED
      BY <3>1, <3>2
  <2> QED
    BY <2>1 DEF ResolvedNow
<1> QED
  BY <1>5, <1>6 DEF Resolving

\* A step after which the innermost frame is f.
LEMMA ResolvingGrown ==
  ASSUME Control, Resolving, ListsKept, NEW t \in Threads, NEW N, NEW f, Grown(t, N, f),
         f.pc # "resolved", \A g \in N : Asked(g)', NoForward'
  PROVE  Resolving'
<1>1. Moved(t, N)
  BY MovedFrames
<1>2. Top(t)' = f
  BY DEF Grown
<1> QED
  BY <1>1, <1>2, ResolvingMoved

LEMMA ResolvingGoes ==
  ASSUME Control, Resolving, ListsKept, NEW t \in Threads, NEW p, NEW a, NEW r,
         Goes(t, p, a, r), p # "resolved", NoForward',
         Top(t).cls \in Resolvers =>
           a # Forward /\ (p \in Tried /\ ~r => lists'[Top(t).cls] # <<>>)
  PROVE  Resolving'
<1>1. PICK g \in Frames : /\ Grown(t, {g}, g) /\ g.pc = p /\ g.cls = Top(t).cls
                          /\ g.resolver = r /\ g.got = a
  BY DEF Goes
<1>2. \A h \in {g} : Asked(h)'
  BY <1>1 DEF Asked
<1> QED
  BY <1>1, <1>2, ResolvingGrown

\* A step after which the innermost frame is gone.
LEMMA ResolvingPopped ==
  ASSUME Control, Resolving, ListsKept, NEW t \in Threads, stack[t] # <<>>, Popped(t),
         NoForward', Control',
         Top(t).pc = "+resolve" /\ Top(t).cls \in Resolvers => lists[Top(t).cls] # <<>>
  PROVE  Resolving'
<1>1. Moved(t, {})
  BY MovedFrames
<1>2. ASSUME stack'[t] # <<>>, Top(t)'.pc = "resolved", Top(t)'.cls \in Resolvers
      PROVE  lists'[Top(t)'.cls] # <<>>
  <2>1. PICK s \in Seq(Frames) : s = stack'[t] /\ s # <<>>
    BY <1>2 DEF Control, Stacks
  <2>2. Len(s) \in DOMAIN s /\ Top(t)' = s[Len(s)]
    BY <2>1 DEF Top, Last
  <2>3. Top(t).pc = "+resolve" /\ Top(t).cls = Top(t)'.cls
    BY <1>2, <2>1, <2>2 DEF Popped
  <2> QED
    BY <1>2, <2>3, Constants DEF ListsKept
<1> QED
  BY <1>1, <1>2, ResolvingMoved

LEMMA TopAsked ==
  ASSUME Control, Resolving, NEW t \in Threads, stack[t] # <<>>
  PROVE  Asked(Top(t))
  BY TopFrame DEF Resolving, AllAsked

LEMMA ListsSame ==
  ASSUME UNCHANGED lists
  PROVE  ListsKept
  BY DEF ListsKept

\* Lookups.
LEMMA ResolvingLookup ==
  ASSUME Control, Control', Ordered, Resolving, NEW t \in Threads,
         \/ CacheLookup(t) \/ SlowPath(t) \/ Relock(t) \/ Search(t) \/ Fill(t) \/ Dispatch(t)
  PROVE  Resolving'
<1>1. CASE CacheLookup(t)
  <2>1. ListsKept /\ NoForward'
    BY <1>1, ListsSame DEF CacheLookup, table, Resolving, NoForward
  <2>2. stack[t] # <<>> /\ Top(t).pc = "cached"
    BY <1>1, StepCached
  <2>3. Top(t).cls \in Resolvers /\ ~Top(t).resolver => lists'[Top(t).cls] # <<>>
    BY <2>1, <2>2, TopAsked, Constants DEF Asked, Tried, ListsKept
  <2>4. Top(t).cls \in Resolvers => cache[Top(t).cls] # Forward
    BY DEF Resolving, NoForward
  <2>5. None # Forward
    BY DEF None, Forward
  <2>6. CASE Goes(t, "done", cache[Top(t).cls], Top(t).resolver)
    BY <2>1, <2>3, <2>4, <2>6, ResolvingGoes
  <2>7. CASE Goes(t, "slow", None, Top(t).resolver)
    BY <2>1, <2>3, <2>5, <2>7, ResolvingGoes
  <2> QED
    BY <1>1, <2>6, <2>7, StepCached
<1>2. CASE SlowPath(t)
  <2>1. PICK c \in Classes : realizeClass(c) /\ stack[t] # <<>> /\ Top(t).pc = "slow"
    BY <1>2, StepSlow
  <2>2. ListsKept
    <3>1. \A k \in Classes : k \in realized => lists'[k] = lists[k]
      BY <2>1, Realized DEF Control
    <3> QED
      BY <3>1 DEF Ordered, NotYetListed, ListsKept
  <2>3. NoForward'
    BY <1>2 DEF SlowPath, Resolving, NoForward
  <2>4. Top(t).cls \in Resolvers =>
          Top(t).got # Forward /\ (~Top(t).resolver => lists'[Top(t).cls] # <<>>)
    BY <2>1, <2>2, TopAsked, Constants DEF Asked, Tried, ListsKept
  <2>5. \E p : p # "resolved" /\ Goes(t, p, Top(t).got, Top(t).resolver)
    BY <1>2, StepSlow
  <2> QED
    BY <2>2, <2>3, <2>4, <2>5, ResolvingGoes
<1>3. CASE Relock(t)
  <2>1. ListsKept /\ NoForward'
    BY <1>3, ListsSame DEF Relock, table, Resolving, NoForward
  <2>2. /\ stack[t] # <<>> /\ Top(t).pc = "relock"
        /\ Goes(t, "search", Top(t).got, Top(t).resolver)
    BY <1>3, StepRelock
  <2>3. Top(t).cls \in Resolvers =>
          Top(t).got # Forward /\ (~Top(t).resolver => lists'[Top(t).cls] # <<>>)
    BY <2>1, <2>2, TopAsked, Constants DEF Asked, Tried, ListsKept
  <2> QED
    BY <2>1, <2>2, <2>3, ResolvingGoes
<1>4. CASE Search(t)
  <2>1. ListsKept /\ NoForward'
    BY <1>4, ListsSame DEF Search, table, Resolving, NoForward
  <2>2. PICK c \in Classes :
          /\ c = Top(t).cls /\ stack[t] # <<>> /\ Top(t).pc = "search"
          /\ \/ /\ Searched(c) # Nil /\ IsFound(c, Searched(c))
                /\ Goes(t, "fill", Answer(Searched(c)), Top(t).resolver)
             \/ Goes(t, "resolve", Top(t).got, FALSE)
             \/ /\ Searched(c) = Nil \/ ~IsFound(c, Searched(c))
                /\ ~Top(t).resolver
                /\ Goes(t, "fill", Forward, Top(t).resolver)
    BY <1>4, StepSearch
  <2>3. c \in Resolvers =>
          Top(t).got # Forward /\ (~Top(t).resolver => lists[c] # <<>> /\ lists'[c] # <<>>)
    BY <2>1, <2>2, TopAsked DEF Asked, Tried, ListsKept
  <2>4. c \in Resolvers => Answer(c) # Forward
    BY AnswerType DEF Control, Resolving, NoForward
  <2>5. CASE /\ Searched(c) # Nil /\ IsFound(c, Searched(c))
             /\ Goes(t, "fill", Answer(Searched(c)), Top(t).resolver)
    <3>1. c \in Resolvers => Answer(Searched(c)) # Forward
      BY <2>4, <2>5 DEF IsFound
    <3> QED
      BY <2>1, <2>2, <2>3, <2>5, <3>1, ResolvingGoes
  <2>6. CASE Goes(t, "resolve", Top(t).got, FALSE)
    <3>1. "resolve" \notin Tried
      BY DEF Tried
    <3> QED
      BY <2>1, <2>2, <2>3, <2>6, <3>1, ResolvingGoes
  <2>7. CASE /\ Searched(c) = Nil \/ ~IsFound(c, Searched(c))
             /\ ~Top(t).resolver
             /\ Goes(t, "fill", Forward, Top(t).resolver)
    <3>1. c \notin Resolvers
      <4>1. SUFFICES ASSUME c \in Resolvers PROVE FALSE
        OBVIOUS
      <4>2. lists[c] # <<>>
        BY <2>3, <2>7, <4>1
      <4>3. Answer(c) # None
        BY <4>2, AnswerType DEF Control
      <4>4. PICK S : S = {d \in Classes : Answer(d) # None}
        OBVIOUS
      <4>5. /\ 1 \in DOMAIN chain[c] /\ chain[c][1] = c
            /\ \A j \in DOMAIN chain[c] : ~(j < 1)
        BY ChainStep
      <4>6. chain[c][1] \in S /\ \A j \in DOMAIN chain[c] : j < 1 => chain[c][j] \notin S
        BY <4>3, <4>4, <4>5
      <4>7. Nearest(c, S) = chain[c][1] /\ Nearest(c, S) # Nil
        BY <4>5, <4>6, NearestAt
      <4>8. Searched(c) = c /\ Searched(c) # Nil
        BY <4>4, <4>5, <4>7 DEF Searched
      <4> QED
        BY <2>7, <4>8 DEF IsFound
    <3> QED
      BY <2>1, <2>2, <2>7, <3>1, ResolvingGoes
  <2> QED
    BY <2>2, <2>5, <2>6, <2>7
<1>5. CASE Fill(t)
  <2>1. ListsKept
    BY <1>5, ListsSame DEF Fill, table
  <2>2. PICK c \in Classes :
          /\ c = Top(t).cls /\ stack[t] # <<>> /\ Top(t).pc = "fill"
          /\ cache' \in {cache, [cache EXCEPT ![c] = Top(t).got]}
          /\ Goes(t, "done", Top(t).got, Top(t).resolver)
    BY <1>5, StepFill
  <2>3. c \in Resolvers =>
          Top(t).got # Forward /\ (~Top(t).resolver => lists'[c] # <<>>)
    BY <2>1, <2>2, TopAsked DEF Asked, Tried, ListsKept
  <2>4. NoForward'
    BY <2>2, <2>3, Constants DEF Control, Typed, Resolving, NoForward
  <2> QED
    BY <2>1, <2>2, <2>3, <2>4, ResolvingGoes
<1>6. CASE Dispatch(t)
  <2>1. ListsKept /\ NoForward'
    BY <1>6, ListsSame DEF Dispatch, table, Resolving, NoForward
  <2>2. stack[t] # <<>> /\ Top(t).pc = "done" /\ Popped(t)
    BY <1>6, StepDispatch
  <2> QED
    BY <2>1, <2>2, ResolvingPopped
<1> QED
  BY <1>1, <1>2, <1>3, <1>4, <1>5, <1>6

\* Calls, +initialize and the resolver itself.
LEMMA ResolvingCalls ==
  ASSUME Control, Control', Resolving, NEW t \in Threads,
         \/ \E c \in Classes : objc_msgSend(t, c)
         \/ class_initialize(t) \/ finishInitializing(t)
         \/ class_resolveMethod(t) \/ ResolverReturns(t) \/ Resolved(t)
  PROVE  Resolving'
<1>1. UNCHANGED <<lists, cache>>
  BY DEF objc_msgSend, class_initialize, finishInitializing, class_resolveMethod,
         ResolverReturns, Resolved, table
<1>2. ListsKept /\ NoForward'
  BY <1>1, ListsSame DEF Resolving, NoForward
<1>3. None # Forward
  BY DEF None, Forward
<1>4. ASSUME NEW c \in Classes, objc_msgSend(t, c) PROVE Resolving'
  <2>1. PICK f : f = Lookup(c, TRUE, TRUE) /\ Grown(t, {f}, f)
    BY <1>4, StepSend
  <2>2. f.pc = "cached" /\ f.resolver /\ f.got = None
    BY <2>1 DEF Lookup
  <2>3. \A g \in {f} : Asked(g)'
    BY <1>3, <2>2 DEF Asked
  <2>4. f.pc # "resolved"
    BY <2>2
  <2>5. PICK N : N = {f}
    OBVIOUS
  <2>6. Grown(t, N, f) /\ \A g \in N : Asked(g)'
    BY <2>1, <2>3, <2>5
  <2> QED
    BY <1>2, <2>4, <2>6, ResolvingGrown
<1>5. CASE class_initialize(t)
  <2>1. CASE Goes(t, "relock", Top(t).got, Top(t).resolver)
    <3>1. stack[t] # <<>> /\ Top(t).pc = "initialize"
      BY <1>5, StepInitialize
    <3>2. Top(t).cls \in Resolvers =>
            Top(t).got # Forward /\ (~Top(t).resolver => lists'[Top(t).cls] # <<>>)
      BY <1>1, <3>1, TopAsked DEF Asked, Tried
    <3> QED
      BY <1>2, <2>1, <3>2, ResolvingGoes
  <2>2. ASSUME NEW k \in Classes,
               Grown(t, {ClientCode(k, "+initialize")}, ClientCode(k, "+initialize"))
        PROVE  Resolving'
    <3>1. PICK f : f = ClientCode(k, "+initialize") /\ Grown(t, {f}, f)
      BY <2>2
    <3>2. f.pc = "+initialize" /\ f.got = None
      BY <3>1 DEF ClientCode
    <3>3. \A g \in {f} : Asked(g)'
      BY <1>3, <3>2 DEF Asked, Tried
    <3>4. f.pc # "resolved"
      BY <3>2
    <3> QED
      BY <1>2, <3>1, <3>3, <3>4, ResolvingGrown
  <2> QED
    BY <1>5, <2>1, <2>2, StepInitialize
<1>6. CASE finishInitializing(t)
  <2>1. stack[t] # <<>> /\ Top(t).pc = "+initialize" /\ Popped(t)
    BY <1>6, StepFinish
  <2> QED
    BY <1>2, <2>1, ResolvingPopped
<1>7. CASE class_resolveMethod(t)
  <2>1. stack[t] # <<>> /\ Top(t).pc = "resolve"
    BY <1>7, StepResolve
  <2>2. PICK f, g : /\ f \in Frames /\ g = ClientCode(Top(t).cls, "+resolve")
                    /\ Grown(t, {f, g}, g) /\ Under(t, f, "resolved")
    BY <1>7, StepResolve
  <2>3. g.pc = "+resolve" /\ g.got = None
    BY <2>2 DEF ClientCode
  <2>4. Asked(g)'
    BY <1>3, <2>3 DEF Asked, Tried
  <2>5. Asked(f)'
    BY <2>1, <2>2, TopAsked DEF Asked, Tried, Under
  <2>6. \A h \in {f, g} : Asked(h)'
    BY <2>4, <2>5
  <2>7. g.pc # "resolved" /\ Grown(t, {f, g}, g)
    BY <2>2, <2>3
  <2> QED
    BY <1>2, <2>6, <2>7, ResolvingGrown
<1>8. CASE ResolverReturns(t)
  <2>1. /\ stack[t] # <<>> /\ Popped(t)
        /\ Top(t).cls \in Resolvers => lists[Top(t).cls] # <<>>
    BY <1>8, StepReturns
  <2> QED
    BY <1>2, <2>1, ResolvingPopped
<1>9. CASE Resolved(t)
  <2>1. stack[t] # <<>> /\ Top(t).pc = "resolved"
    BY <1>9, StepResolved
  <2>2. PICK f, g : /\ f \in Frames /\ g = Lookup(Top(t).cls, FALSE, FALSE)
                    /\ Grown(t, {f, g}, g) /\ Under(t, f, "relock")
    BY <1>9, StepResolved
  <2>3. g.pc = "cached" /\ g.got = None /\ g.cls = Top(t).cls
    BY <2>2 DEF Lookup
  <2>4. Top(t).cls \in Resolvers => lists'[Top(t).cls] # <<>>
    BY <1>1, <2>1 DEF Resolving, ResolvedNow, At
  <2>5. Asked(g)'
    BY <1>3, <2>3, <2>4 DEF Asked
  <2>6. Asked(f)'
    BY <2>1, <2>2, <2>4, TopAsked DEF Asked, Under
  <2>7. \A h \in {f, g} : Asked(h)'
    BY <2>5, <2>6
  <2>8. g.pc # "resolved" /\ Grown(t, {f, g}, g)
    BY <2>2, <2>3
  <2> QED
    BY <1>2, <2>7, <2>8, ResolvingGrown
<1> QED
  BY <1>4, <1>5, <1>6, <1>7, <1>8, <1>9

LEMMA ResolvingEdit ==
  ASSUME Control, Resolving, NEW t \in Threads, NEW s, Grown(t, {Edit(s)}, Edit(s)),
         UNCHANGED cache, ListsKept
  PROVE  Resolving'
<1>1. PICK f : f = Edit(s) /\ Grown(t, {f}, f)
  OBVIOUS
<1>2. f.pc = "flush" /\ f.cls \notin Resolvers
  BY <1>1, Constants DEF Edit
<1>3. \A g \in {f} : Asked(g)'
  BY <1>2 DEF Asked
<1>4. NoForward'
  BY DEF Resolving, NoForward
<1> QED
  BY <1>1, <1>2, <1>3, <1>4, ResolvingGrown

LEMMA ResolvingFlush ==
  ASSUME Control, Control', Resolving, NEW t \in Threads, flushCaches(t)
  PROVE  Resolving'
<1>1. ListsKept
  BY ListsSame DEF flushCaches, table
<1>2. stack[t] # <<>> /\ Top(t).pc = "flush"
  BY StepFlush
<1>3. None # Forward
  BY DEF None, Forward
<1>4. CASE Popped(t) /\ cache' = cache
  <2>1. NoForward'
    BY <1>4 DEF Resolving, NoForward
  <2> QED
    BY <1>1, <1>2, <1>4, <2>1, ResolvingPopped
<1>5. ASSUME NEW c \in Classes, NEW g \in Frames, cache' = [cache EXCEPT ![c] = None],
             Grown(t, {g}, g), g.pc = "flush", g.cls = Top(t).cls, g.got = Top(t).got
      PROVE  Resolving'
  <2>1. NoForward'
    BY <1>3, <1>5, Constants DEF Control, Typed, Resolving, NoForward
  <2>2. \A h \in {g} : Asked(h)'
    BY <1>2, <1>5, TopAsked DEF Asked, Tried
  <2> QED
    BY <1>1, <1>5, <2>1, <2>2, ResolvingGrown
<1> QED
  BY <1>4, <1>5, StepFlush

LEMMA ResolvingExpand ==
  ASSUME Control, Resolving, (\E c \in Classes : expand(c)) \/ UNCHANGED vars
  PROVE  Resolving'
<1>1. UNCHANGED <<lists, stack>>
  BY DEF expand, vars, table
<1>2. NoForward'
  <2>1. None # Forward
    BY DEF None, Forward
  <2>2. \A d \in Classes : cache'[d] \in {cache[d], None}
    BY DEF expand, vars, Control, Typed
  <2> QED
    BY <2>1, <2>2, Constants DEF Resolving, NoForward
<1>3. AllAsked' /\ ResolvedNow'
  BY <1>1 DEF Resolving, AllAsked, ResolvedNow, Asked, At, Top
<1> QED
  BY <1>2, <1>3 DEF Resolving
-----------------------------------------------------------------------------
(* The invariant, and the theorems. *)

LEMMA InitIInv == Init => IInv
<1> SUFFICES ASSUME Init PROVE IInv
  OBVIOUS
<1>1. Typed
  <2>1. base \subseteq Classes /\ realized \subseteq Classes /\ pending \subseteq Classes
    BY Constants DEF Init
  <2>2. /\ unattached \in [Classes -> Seq(Categories)] /\ lists \in [Classes -> Seq(Lists)]
        /\ arrived \in [Classes -> Seq(Lists)]
    BY DEF Init
  <2>3. imp \in [Lists -> Imps] /\ cache \in [Classes -> Answers]
    BY DEF Init, Imps, Answers
  <2> QED
    BY <2>1, <2>2, <2>3 DEF Init, Typed
<1>2. \A t \in Threads : stack[t] = <<>>
  BY DEF Init
<1>3. Stacks
  BY <1>2 DEF Init, Stacks, Stacked
<1>4. Locks
  BY <1>2, Constants DEF Init, Locks, OnLock
<1>5. Flags
  BY <1>2, Constants DEF Init, Flags, RealizedUp, InitUp, CachedReady, AllReady
<1>6. Ordered
  <2>1. LoadOrderWins
    BY DEF Init, LoadOrderWins
  <2> QED
    BY <2>1 DEF Init, Ordered, OwnLists, NotYetListed, Range
<1>7. Coherent
  BY <1>2 DEF Init, Coherent, CachesRight, FillsRight, At
<1>8. Resolving
  <2>1. NoForward
    BY Constants DEF Init, NoForward, None, Forward
  <2> QED
    BY <1>2, <2>1 DEF Resolving, AllAsked, ResolvedNow, At
<1> QED
  BY <1>1, <1>3, <1>4, <1>5, <1>6, <1>7, <1>8 DEF IInv, Control

\* The heads of method lists are lists.
LEMMA MethodsType ==
  ASSUME Control
  PROVE  Methods \subseteq Lists
<1>1. ASSUME NEW c \in realized, lists[c] # <<>> PROVE Head(lists[c]) \in Lists
  <2>1. lists[c] \in Seq(Lists)
    BY DEF Control, Typed
  <2> QED
    BY <1>1, <2>1
<1> QED
  BY <1>1 DEF Methods

\* Messages and lookups keep it.
LEMMA LookupKeeps ==
  ASSUME IInv, NEW t \in Threads,
         \/ \E c \in Classes : objc_msgSend(t, c)
         \/ LookupStep(t)
  PROVE  IInv'
<1>1. Control /\ Flags /\ Ordered /\ Coherent /\ Resolving
  BY DEF IInv
<1>2. Control'
  BY <1>1, StepSend, StepCached, StepSlow, StepRelock, StepSearch, StepFill, StepDispatch,
     StepInitialize, StepFinish, StepResolve, StepReturns, StepResolved DEF LookupStep
<1>3. Flags'
  BY <1>1, FlagsLookup, FlagsInitialize, FlagsCalls DEF LookupStep
<1>4. Ordered'
  <2>1. CASE SlowPath(t)
    BY <1>1, <2>1, OrderedSlow
  <2>2. CASE ~SlowPath(t)
    <3>1. UNCHANGED <<base, realized, unattached, lists, arrived>>
      BY <2>2 DEF LookupStep, objc_msgSend, CacheLookup, Relock, Search, Fill, Dispatch,
                  class_initialize, finishInitializing, class_resolveMethod, ResolverReturns,
                  Resolved, table
    <3> QED
      BY <1>1, <3>1, OrderedSame
  <2> QED
    BY <2>1, <2>2
<1>5. Coherent'
  BY <1>1, <1>2, CoherentLookup
<1>6. Resolving'
  BY <1>1, <1>2, ResolvingLookup, ResolvingCalls DEF LookupStep
<1> QED
  BY <1>2, <1>3, <1>4, <1>5, <1>6 DEF IInv

\* Edits keep it.
LEMMA EditKeeps ==
  ASSUME IInv, NEW t \in Threads, EditStep(t)
  PROVE  IInv'
<1>1. Control /\ Flags /\ Ordered /\ Coherent /\ Resolving
  BY DEF IInv
<1>2. ASSUME NEW k \in Categories, map_category(t, k) PROVE IInv'
  <2>1. Control' /\ classOf[k] \in Classes
    BY <1>1, <1>2, StepMap
  <2>2. PICK s \in SUBSET Classes :
          /\ Grown(t, {Edit(s)}, Edit(s))
          /\ IF classOf[k] \in realized
             THEN lists' = [lists EXCEPT ![classOf[k]] = <<Cat(k)>> \o @]
             ELSE lists' = lists
    BY <1>1, <1>2, StepMap
  <2>3. UNCHANGED <<realized, init, cache>>
    BY <1>2 DEF map_category, inits
  <2>4. Flags'
    BY <1>1, <2>2, <2>3, FlagsEdit
  <2>5. Ordered' /\ Coherent'
    BY <1>1, <1>2, OrderedMap, CoherentMap
  <2>6. ListsKept
    <3>1. PICK old \in Seq(Lists) : old = lists[classOf[k]]
      BY <1>1, <2>1 DEF Control, Typed
    <3>2. PICK x \in Lists : x = Cat(k)
      BY DEF Lists
    <3>3. <<x>> \o old # <<>>
      OBVIOUS
    <3> QED
      BY <1>1, <2>2, <3>1, <3>2, <3>3 DEF ListsKept, Control, Typed
  <2>7. Resolving'
    BY <1>1, <2>2, <2>3, <2>6, ResolvingEdit
  <2> QED
    BY <2>1, <2>4, <2>5, <2>7 DEF IInv
<1>3. ASSUME NEW c \in Classes, class_addMethod(t, c) PROVE IInv'
  <2>1. /\ Control' /\ Grown(t, {Edit(Flushed(c))}, Edit(Flushed(c)))
        /\ lists' = [lists EXCEPT ![c] = <<Added(c)>>]
    BY <1>1, <1>3, StepAdd
  <2>2. UNCHANGED <<realized, init, cache>>
    BY <1>3 DEF class_addMethod, inits
  <2>3. Flags'
    BY <1>1, <2>1, <2>2, FlagsEdit
  <2>4. Ordered' /\ Coherent'
    BY <1>1, <1>3, OrderedAdd, CoherentAdd
  <2>5. ListsKept
    <3>1. <<Added(c)>> # <<>>
      OBVIOUS
    <3> QED
      BY <1>1, <2>1, <3>1 DEF ListsKept, Control, Typed
  <2>6. Resolving'
    BY <1>1, <2>1, <2>2, <2>5, ResolvingEdit
  <2> QED
    BY <2>1, <2>3, <2>4, <2>6 DEF IInv
<1>4. ASSUME NEW l \in Methods, setImplementation(t, l, realized) PROVE IInv'
  <2>1. l \in Lists /\ realized \in SUBSET Classes
    BY <1>1, MethodsType DEF Control, Typed
  <2>2. Control' /\ runtimeLock = NoThread /\ Grown(t, {Edit(realized)}, Edit(realized))
    BY <1>1, <1>4, <2>1, StepSet
  <2>3. UNCHANGED <<base, realized, unattached, lists, arrived, init, cache>>
    BY <1>4 DEF setImplementation, inits
  <2>4. Flags' /\ Ordered' /\ Coherent' /\ Resolving'
    BY <1>1, <2>2, <2>3, FlagsEdit, OrderedSame, CoherentAll, ListsSame, ResolvingEdit
  <2> QED
    BY <2>2, <2>4 DEF IInv
<1>5. ASSUME NEW c \in realized, lists[c] # <<>>,
             setImplementation(t, Head(lists[c]), Flushed(c))
      PROVE  IInv'
  <2>1. Head(lists[c]) \in Lists /\ Flushed(c) \in SUBSET Classes
    BY <1>1, <1>5, MethodsType DEF Methods, Flushed, Family
  <2>2. Control' /\ runtimeLock = NoThread /\ Grown(t, {Edit(Flushed(c))}, Edit(Flushed(c)))
    BY <1>1, <1>5, <2>1, StepSet
  <2>3. UNCHANGED <<base, realized, unattached, lists, arrived, init, cache>>
    BY <1>5 DEF setImplementation, inits
  <2>4. Flags' /\ Ordered' /\ Resolving'
    BY <1>1, <2>2, <2>3, FlagsEdit, OrderedSame, ListsSame, ResolvingEdit
  <2>5. Coherent'
    BY <1>1, <1>5, CoherentReplace
  <2> QED
    BY <2>2, <2>4, <2>5 DEF IInv
<1>6. ASSUME NEW l \in Methods, NEW n \in Methods, method_exchangeImplementations(t, l, n)
      PROVE  IInv'
  <2>1. l \in Lists /\ n \in Lists
    BY <1>1, MethodsType
  <2>2. Control' /\ runtimeLock = NoThread /\ Grown(t, {Edit(realized)}, Edit(realized))
    BY <1>1, <1>6, <2>1, StepExchange
  <2>3. UNCHANGED <<base, realized, unattached, lists, arrived, init, cache>>
    BY <1>6 DEF method_exchangeImplementations, inits
  <2>4. Flags' /\ Ordered' /\ Coherent' /\ Resolving'
    BY <1>1, <2>2, <2>3, FlagsEdit, OrderedSame, CoherentAll, ListsSame, ResolvingEdit
  <2> QED
    BY <2>2, <2>4 DEF IInv
<1>7. CASE flushCaches(t)
  <2>1. Control'
    BY <1>1, <1>7, StepFlush
  <2>2. UNCHANGED <<base, realized, unattached, lists, arrived>>
    BY <1>7 DEF flushCaches, table
  <2>3. Flags' /\ Ordered' /\ Coherent' /\ Resolving'
    BY <1>1, <1>7, <2>1, <2>2, FlagsFlush, OrderedSame, CoherentFlush, ResolvingFlush
  <2> QED
    BY <2>1, <2>3 DEF IInv
<1> QED
  BY <1>2, <1>3, <1>4, <1>5, <1>6, <1>7 DEF EditStep

\* A cache that forgets, and steps that leave everything as it is.
LEMMA OtherKeeps ==
  ASSUME IInv, (\E c \in Classes : expand(c)) \/ UNCHANGED vars
  PROVE  IInv'
<1>1. Control /\ Flags /\ Ordered /\ Coherent /\ Resolving
  BY DEF IInv
<1>2. Control'
  BY <1>1, StepExpand, StepStutter
<1>3. UNCHANGED <<base, realized, unattached, lists, arrived>>
  BY DEF expand, vars, table
<1>4. Ordered'
  BY <1>1, <1>3, OrderedSame
<1> QED
  BY <1>1, <1>2, <1>4, FlagsExpand, CoherentExpand, ResolvingExpand DEF IInv

\* The invariant holds in every behaviour.
LEMMA Invariant == Spec => []IInv
<1>1. IInv /\ [Next]_vars => IInv'
  BY LookupKeeps, EditKeeps, OtherKeeps DEF Next
<1> QED
  BY <1>1, InitIInv, PTL DEF Spec

\* Whenever runtimeLock is free, every cache is empty or right: no lookup that ran
\* next to an edit has put the old implementation back (lookUpImpOrForward fills
\* the cache under the lock it searched under, flushCaches runs under the edit's).
THEOREM CachesAnswerRight == Spec => []CacheCoherent
<1>1. IInv => CacheCoherent
  <2> SUFFICES ASSUME IInv, runtimeLock = NoThread, NEW c \in Classes
               PROVE  cache[c] \in {None, Meaning(c)}
    BY DEF CacheCoherent
  <2>1. Control /\ Coherent
    BY DEF IInv
  <2>2. ~Stale(c)
    BY <2>1, OneAtWork, Constants DEF Stale
  <2> QED
    BY <2>1, <2>2 DEF Coherent, CachesRight
<1> QED
  BY <1>1, Invariant, PTL

\* A class has the same method lists whether its categories were attached one by
\* one (attachCategories on a realized class) or all at once by methodizeClass.
THEOREM OrderOfLoading == Spec => []LoadOrderWins
<1>1. IInv => LoadOrderWins
  BY DEF IInv, Ordered
<1> QED
  BY <1>1, Invariant, PTL

\* No message with +initialize (the messengers' lookups) is delivered before the
\* class and its superclasses are initialized, or being so on this thread.
THEOREM InitializedFirst == Spec => []NoEarlyMessage
<1>1. IInv => NoEarlyMessage
  <2> SUFFICES ASSUME IInv, NEW t \in Threads, At(t, "done"), Top(t).initialize
               PROVE  \A k \in Range(chain[Top(t).cls]) : init[k] \in {"yes", t}
    BY DEF NoEarlyMessage
  <2>1. Control /\ Flags /\ stack[t] # <<>> /\ Top(t).pc = "done"
    BY DEF IInv, At
  <2>2. Ready(t, Top(t))
    BY <2>1, TopReady
  <2> QED
    BY <2>1, <2>2 DEF Ready, Begun
<1> QED
  BY <1>1, Invariant, PTL

\* A class whose resolver adds the method does not forward the message, whatever
\* its superclasses' caches say.
THEOREM ResolverIsAsked == Spec => []ResolverWins
<1>1. IInv => ResolverWins
  <2> SUFFICES ASSUME IInv, NEW t \in Threads, At(t, "done"), Top(t).cls \in Resolvers
               PROVE  Top(t).got # Forward
    BY DEF ResolverWins
  <2>1. Control /\ Resolving /\ stack[t] # <<>>
    BY DEF IInv, At
  <2>2. Asked(Top(t))
    BY <2>1, TopAsked
  <2> QED
    BY <2>2 DEF Asked
<1> QED
  BY <1>1, Invariant, PTL
=============================================================================
