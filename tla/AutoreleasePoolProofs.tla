----------------------- MODULE AutoreleasePoolProofs -----------------------
(***************************************************************************)
(* Proofs about AutoreleasePool, for pages of any size and any number of   *)
(* objects, calls and nested -dealloc methods: a pop restores the stack,   *)
(* every autorelease is one release, tokens stay valid, and the while of   *)
(* releaseUntil can be an if.                                              *)
(*                                                                         *)
(* The inductive invariant says how the stack lies in the pages, that the  *)
(* boundaries of open pools stay in their slots, and that the pools of     *)
(* client code lie above the slot at which the pop that called it stops.   *)
(***************************************************************************)
EXTENDS AutoreleasePool, FiniteSetTheorems, SequenceTheorems, TLAPS

Values == Objects \cup {POOL_BOUNDARY}
Belows == UNION {[S -> Values] : S \in SUBSET (Nat \X Nat)}
TokenType == [page : Nat \cup {EMPTY_POOL_PLACEHOLDER}, slot : Nat, below : Belows]
FrameType == [pc : {"client", "releasing", "exiting", "exited"}, tokens : Seq(TokenType),
              this : Nat, stop : Nat, below : Belows]

Typed ==
  /\ pages \in Seq(Seq(Values))
  /\ \A i \in 1 .. Len(pages) : Len(pages[i]) <= COUNT
  /\ tls \in Nat \cup {EMPTY_POOL_PLACEHOLDER}
  /\ frames \in Seq(FrameType) /\ Len(frames) >= 1
  /\ balance \in [Objects -> Nat]

\* Slot s of page i is in use; it holds a boundary; it is below slot r of page j.
Used(i, s) == i \in 1 .. Len(pages) /\ s \in 1 .. Len(pages[i])
Boundary(i, s) == Used(i, s) /\ pages[i][s] = POOL_BOUNDARY
Before(i, s, j, r) == i < j \/ (i = j /\ s < r)

\* How the stack lies in the pages: those after the hot page are empty, and
\* those before it are full unless each pool starts a page of its own.
Layout ==
  \/ tls \in {nil, EMPTY_POOL_PLACEHOLDER} /\ pages = <<>>
  \/ /\ tls \in 1 .. Len(pages)
     /\ \A j \in 1 .. Len(pages) : j > tls => pages[j] = <<>>
     /\ ~DebugPoolAllocation => \A i \in 1 .. Len(pages) : i < tls => Len(pages[i]) = COUNT

\* The pool that has no page yet.
Unplaced == tls = EMPTY_POOL_PLACEHOLDER =>
              /\ ~DebugPoolAllocation /\ Len(frames) = 1
              /\ frames[1].pc = "client" /\ frames[1].tokens = <<Placeholder>>

TPage(token) == SlotOf(token)[1]
TSlot(token) == SlotOf(token)[2]

\* An open pool has its boundary in its slot, and the stack below it is as it
\* was when the pool was pushed.
TokenOk(token) ==
  /\ TPage(token) >= 1 /\ TSlot(token) >= 1
  /\ tls # EMPTY_POOL_PLACEHOLDER => Boundary(TPage(token), TSlot(token))
  /\ DebugPoolAllocation => TSlot(token) = 1
  /\ token.below = Under(pages, TPage(token), TSlot(token))

Pops(f) == f.pc \in {"releasing", "exiting"}

\* What a pop works on: a page up to the hot one, and a slot that is the top of
\* the stack or holds the boundary.  It holds it while the pop calls client code.
\* f is frame k of n.
WorkOk(f, k, n) ==
  /\ k < n => Pops(f)
  /\ ~Pops(f) => f.this = nil
  /\ f.pc = "exiting" => k = 1 /\ f.this = 1 /\ f.stop = 1 /\ f.tokens = <<>>
  /\ Pops(f) => /\ 1 <= f.this /\ f.this <= tls /\ 1 <= f.stop /\ f.stop <= COUNT
                /\ Len(pages[f.this]) >= f.stop - 1
                /\ DebugPoolAllocation => f.stop = 1
  /\ f.pc = "releasing" =>
       /\ f.below = Under(pages, f.this, f.stop)
       /\ k < n \/ Len(pages[f.this]) >= f.stop => Boundary(f.this, f.stop)

\* The pools of a frame are in order and below the slot that its pop goes to.
InFrame(f) ==
  \A n \in 1 .. Len(f.tokens) :
    /\ \A m \in 1 .. Len(f.tokens) :
         m < n => Before(TPage(f.tokens[m]), TSlot(f.tokens[m]), TPage(f.tokens[n]), TSlot(f.tokens[n]))
    /\ Pops(f) => Before(TPage(f.tokens[n]), TSlot(f.tokens[n]), f.this, f.stop)

FrameOk(f, k, n) ==
  /\ \A m \in 1 .. Len(f.tokens) : TokenOk(f.tokens[m])
  /\ WorkOk(f, k, n)
  /\ InFrame(f)

Frames == \A k \in 1 .. Len(frames) : FrameOk(frames[k], k, Len(frames))

\* Slot s of page i is above the slot that f's pop goes to.  At thread exit it
\* may be that slot, unless a debug option is set.
Above(f, i, s) ==
  \/ Before(f.this, f.stop, i, s)
  \/ /\ f.pc = "exiting" /\ ~DebugPoolAllocation /\ ~DebugMissingPools
     /\ i >= 1 /\ s >= 1

\* Client code that a pop called keeps above that pop.
Nested(f, g) ==
  /\ \A n \in 1 .. Len(g.tokens) : Above(f, TPage(g.tokens[n]), TSlot(g.tokens[n]))
  /\ Pops(g) => Above(f, g.this, g.stop)

Nesting == \A j, k \in 1 .. Len(frames) : j < k => Nested(frames[j], frames[k])

\* With OBJC_DEBUG_MISSING_POOLS the stack begins with a boundary, and without
\* a pool there is no stack.
ColdBoundary ==
  DebugMissingPools /\ pages # <<>> =>
    \/ Boundary(1, 1)
    \/ pages[1] = <<>> /\ Pops(Top) /\ Top.this = 1 /\ Top.stop = 1

ColdPool ==
  DebugMissingPools =>
    /\ frames[1].tokens # <<>> =>
         TPage(frames[1].tokens[1]) = 1 /\ TSlot(frames[1].tokens[1]) = 1
    /\ frames[1].tokens = <<>> /\ frames[1].pc = "client" => pages = <<>> /\ tls = nil
    /\ frames[1].tokens = <<>> /\ frames[1].pc = "releasing" => frames[1].this = 1 /\ frames[1].stop = 1

\* If each pool starts a page, an empty page may be followed by others: one that
\* a pop had emptied when it called client code, which then pushed its first pool.
FirstAt(f, i) ==
  IF f.tokens = <<>> THEN f.pc = "releasing" /\ f.this = i /\ f.stop = 1
  ELSE TPage(f.tokens[1]) = i /\ TSlot(f.tokens[1]) = 1

Holes ==
  DebugPoolAllocation => \A i \in 1 .. Len(pages) :
    i < tls /\ pages[i] = <<>> => \E k \in 2 .. Len(frames) : FirstAt(frames[k], i + 1)

HotInUse ==
  DebugPoolAllocation /\ Top.pc = "client" /\ tls # nil /\ (Len(frames) = 1 \/ Top.tokens # <<>>) =>
    pages[tls] # <<>>

\* What is allocated while no pop is in progress.
FewPages ==
  Len(frames) = 1 /\ frames[1].pc = "client" =>
    /\ pages # <<>> => Len(pages) <= tls + 1
    /\ DebugPoolAllocation => tls = Len(pages)

PoolStarts == DebugPoolAllocation => \A i, s \in Nat : Boundary(i, s) => s = 1

IInv == /\ Typed /\ Layout /\ Unplaced /\ Frames /\ Nesting
        /\ ColdBoundary /\ ColdPool /\ Holes /\ HotInUse /\ FewPages /\ PoolStarts
        /\ ~fatal /\ NoLostRelease
-----------------------------------------------------------------------------
\* The slots in use.
LEMMA SlotsAre ==
  ASSUME NEW pgs \in Seq(Seq(Values))
  PROVE  /\ \A i, s : <<i, s>> \in Slots(pgs) <=> i \in 1 .. Len(pgs) /\ s \in 1 .. Len(pgs[i])
         /\ \A p \in Slots(pgs) : \E i, s \in Nat : p = <<i, s>>
<1>1. \A i \in 1 .. Len(pgs) : pgs[i] \in Seq(Values) /\ DOMAIN pgs[i] = 1 .. Len(pgs[i])
  OBVIOUS
<1>2. DOMAIN pgs = 1 .. Len(pgs)
  OBVIOUS
<1>3. ASSUME NEW i, NEW s
      PROVE  <<i, s>> \in Slots(pgs) <=> i \in 1 .. Len(pgs) /\ s \in 1 .. Len(pgs[i])
  <2>1. ASSUME <<i, s>> \in Slots(pgs) PROVE i \in 1 .. Len(pgs) /\ s \in 1 .. Len(pgs[i])
    <3>1. PICK j \in DOMAIN pgs : <<i, s>> \in {j} \X DOMAIN pgs[j]
      BY <2>1 DEF Slots
    <3> QED
      BY <1>1, <1>2, <3>1
  <2>2. ASSUME i \in 1 .. Len(pgs), s \in 1 .. Len(pgs[i]) PROVE <<i, s>> \in Slots(pgs)
    <3>1. <<i, s>> \in {i} \X DOMAIN pgs[i]
      BY <1>1, <2>2
    <3> QED
      BY <1>2, <2>2, <3>1 DEF Slots
  <2> QED
    BY <2>1, <2>2
<1>4. ASSUME NEW p \in Slots(pgs) PROVE \E i, s \in Nat : p = <<i, s>>
  <2>1. PICK j \in DOMAIN pgs : p \in {j} \X DOMAIN pgs[j]
    BY DEF Slots
  <2>2. PICK s \in 1 .. Len(pgs[j]) : p = <<j, s>>
    BY <1>1, <1>2, <2>1
  <2>3. Len(pgs[j]) \in Nat /\ Len(pgs) \in Nat
    BY <1>1, <1>2
  <2>4. j \in Nat /\ s \in Nat
    BY <1>2, <2>3
  <2> QED
    BY <2>2, <2>4
<1> QED
  BY <1>3, <1>4

SlotsUsed == /\ \A i, s : <<i, s>> \in Slots(pages) <=> Used(i, s)
             /\ \A p \in Slots(pages) : \E i, s \in Nat : p = <<i, s>> /\ Used(i, s)

LEMMA TypedSlotsUsed == Typed => SlotsUsed
<1> SUFFICES ASSUME Typed PROVE SlotsUsed
  OBVIOUS
<1>1. PICK pgs \in Seq(Seq(Values)) : pgs = pages
  BY DEF Typed
<1>2. \A i, s : <<i, s>> \in Slots(pages) <=> Used(i, s)
  BY <1>1, SlotsAre DEF Used
<1>3. \A p \in Slots(pages) : \E i, s \in Nat : p = <<i, s>>
  BY <1>1, SlotsAre
<1> QED
  BY <1>2, <1>3 DEF SlotsUsed

LEMMA UsedAre ==
  ASSUME Typed
  PROVE  /\ \A i, s : <<i, s>> \in Slots(pages) <=> Used(i, s)
         /\ \A p \in Slots(pages) : \E i, s \in Nat : p = <<i, s>> /\ Used(i, s)
  BY TypedSlotsUsed DEF SlotsUsed

LEMMA PagesType ==
  ASSUME Typed
  PROVE  /\ Len(pages) \in Nat
         /\ \A i \in 1 .. Len(pages) : /\ pages[i] \in Seq(Values) /\ Len(pages[i]) \in Nat /\ Len(pages[i]) <= COUNT
                                       /\ pages[i] = <<>> <=> Len(pages[i]) = 0
         /\ pages = <<>> <=> Len(pages) = 0
<1>1. PICK pgs \in Seq(Seq(Values)) : pgs = pages
  BY DEF Typed
<1>2. Len(pgs) \in Nat /\ (pgs = <<>> <=> Len(pgs) = 0) /\ \A i \in 1 .. Len(pgs) : pgs[i] \in Seq(Values)
  OBVIOUS
<1>3. ASSUME NEW q \in Seq(Values) PROVE Len(q) \in Nat /\ (q = <<>> <=> Len(q) = 0)
  OBVIOUS
<1> QED
  BY <1>1, <1>2, <1>3 DEF Typed

LEMMA UsedValue ==
  ASSUME Typed, NEW i, NEW s, Used(i, s)
  PROVE  pages[i][s] \in Values /\ i \in Nat /\ s \in Nat /\ i >= 1 /\ s >= 1 /\ s <= COUNT
<1>1. i \in 1 .. Len(pages) /\ s \in 1 .. Len(pages[i])
  BY DEF Used
<1>2. PICK q \in Seq(Values) : q = pages[i] /\ Len(q) \in Nat /\ Len(q) <= COUNT /\ Len(pages) \in Nat
  BY <1>1, PagesType
<1>3. q[s] \in Values
  BY <1>1, <1>2
<1>4. i \in Nat /\ s \in Nat /\ i >= 1 /\ s >= 1 /\ s <= COUNT
  BY <1>1, <1>2, AutoreleasePoolAssumption
<1> QED
  BY <1>2, <1>3, <1>4

LEMMA SlotsFinite ==
  ASSUME Typed
  PROVE  IsFiniteSet(Slots(pages))
<1>1. Len(pages) \in Nat /\ COUNT \in Nat
  BY PagesType, AutoreleasePoolAssumption
<1>2. IsFiniteSet(1 .. Len(pages)) /\ IsFiniteSet(1 .. COUNT)
  BY <1>1, FS_Interval
<1>3. IsFiniteSet((1 .. Len(pages)) \X (1 .. COUNT))
  BY <1>2, FS_Product
<1>4. ASSUME NEW p \in Slots(pages) PROVE p \in (1 .. Len(pages)) \X (1 .. COUNT)
  <2>1. PICK i, s \in Nat : p = <<i, s>> /\ Used(i, s)
    BY UsedAre
  <2>2. i \in 1 .. Len(pages) /\ s \in 1 .. COUNT
    BY <1>1, <2>1, UsedValue DEF Used
  <2> QED
    BY <2>1, <2>2
<1>5. Slots(pages) \in SUBSET ((1 .. Len(pages)) \X (1 .. COUNT))
  BY <1>4
<1> QED
  BY <1>3, <1>5, FS_Subset

\* What the part of the stack below a slot is.
LEMMA UnderIs ==
  ASSUME Typed, NEW j, NEW r
  PROVE  Under(pages, j, r) \in Belows
<1>1. PICK S : S = {p \in Slots(pages) : p[1] < j \/ (p[1] = j /\ p[2] < r)}
  OBVIOUS
<1>2. Under(pages, j, r) = [p \in S |-> pages[p[1]][p[2]]]
  BY <1>1 DEF Under
<1>3. ASSUME NEW p \in S PROVE p \in Nat \X Nat /\ pages[p[1]][p[2]] \in Values
  <2>1. PICK i, s \in Nat : p = <<i, s>> /\ Used(i, s)
    BY <1>1, UsedAre
  <2>2. pages[i][s] \in Values
    BY <2>1, UsedValue
  <2> QED
    BY <2>1, <2>2
<1>4. S \in SUBSET (Nat \X Nat) /\ [p \in S |-> pages[p[1]][p[2]]] \in [S -> Values]
  BY <1>3
<1> QED
  BY <1>2, <1>4 DEF Belows

\* A step that leaves what is below slot s of page i.
SameBelow(i, s) ==
  \A j, r \in Nat : Before(j, r, i, s) =>
    /\ Used(j, r)' <=> Used(j, r)
    /\ Used(j, r) => pages'[j][r] = pages[j][r]

NotAfter(j, r, i, s) == j < i \/ (j = i /\ r <= s)

LEMMA UnderSame ==
  ASSUME Typed, Typed', NEW i \in Nat, NEW s \in Nat, SameBelow(i, s),
         NEW j \in Nat, NEW r \in Nat, NotAfter(j, r, i, s)
  PROVE  Under(pages, j, r)' = Under(pages, j, r)
<1>1. PICK S : S = {p \in Slots(pages) : p[1] < j \/ (p[1] = j /\ p[2] < r)}
  OBVIOUS
<1>2. PICK T : T = {p \in Slots(pages') : p[1] < j \/ (p[1] = j /\ p[2] < r)}
  OBVIOUS
<1>3. /\ \A u, v : <<u, v>> \in Slots(pages) <=> Used(u, v)
      /\ \A p \in Slots(pages) : \E u, v \in Nat : p = <<u, v>> /\ Used(u, v)
  BY UsedAre
<1>4. /\ \A u, v : <<u, v>> \in Slots(pages') <=> Used(u, v)'
      /\ \A p \in Slots(pages') : \E u, v \in Nat : p = <<u, v>> /\ Used(u, v)'
  <2>1. SlotsUsed'
    BY TypedSlotsUsed, PTL
  <2> QED
    BY <2>1 DEF SlotsUsed
<1>5. ASSUME NEW u \in Nat, NEW v \in Nat
      PROVE  /\ <<u, v>> \in S <=> Used(u, v) /\ Before(u, v, j, r)
             /\ <<u, v>> \in T <=> Used(u, v)' /\ Before(u, v, j, r)
             /\ Before(u, v, j, r) => Before(u, v, i, s)
  <2>1. Before(u, v, j, r) => Before(u, v, i, s)
    BY DEF Before, NotAfter
  <2>2. <<u, v>> \in S <=> Used(u, v) /\ Before(u, v, j, r)
    BY <1>1, <1>3 DEF Before
  <2>3. <<u, v>> \in T <=> Used(u, v)' /\ Before(u, v, j, r)
    BY <1>2, <1>4 DEF Before
  <2> QED
    BY <2>1, <2>2, <2>3
<1>6. \A p \in S \cup T : \E u, v \in Nat : p = <<u, v>>
  BY <1>1, <1>2, <1>3, <1>4
<1>7. \A u, v \in Nat : /\ <<u, v>> \in S <=> <<u, v>> \in T
                        /\ <<u, v>> \in S => pages'[u][v] = pages[u][v]
  BY <1>5 DEF SameBelow
<1>8. S = T
  <2>1. ASSUME NEW p, p \in S \cup T PROVE p \in S <=> p \in T
    <3>1. PICK u, v \in Nat : p = <<u, v>>
      BY <1>6, <2>1
    <3> QED
      BY <1>7, <3>1
  <2> QED
    BY <2>1
<1>9. \A p \in S : pages'[p[1]][p[2]] = pages[p[1]][p[2]]
  BY <1>6, <1>7
<1>10. [p \in S |-> pages[p[1]][p[2]]] = [p \in T |-> pages'[p[1]][p[2]]]
  BY <1>8, <1>9
<1> QED
  BY <1>1, <1>2, <1>10 DEF Under

LEMMA BoundarySame ==
  ASSUME NEW i \in Nat, NEW s \in Nat, SameBelow(i, s), NEW j \in Nat, NEW r \in Nat, Before(j, r, i, s)
  PROVE  Boundary(j, r)' <=> Boundary(j, r)
  BY DEF SameBelow, Boundary

\* Tokens and frames.
LEMMA NothingUnder ==
  /\ Slots(<<>>) = {} /\ Under(<<>>, 1, 1) \in Belows
  /\ \A j, r : Under(<<>>, j, r) = Under(<<>>, 1, 1)
<1>1. Slots(<<>>) = {}
  BY DEF Slots
<1>2. PICK e : e = [p \in {} |-> nil]
  OBVIOUS
<1>3. ASSUME NEW j, NEW r PROVE Under(<<>>, j, r) = e
  <2>1. {p \in Slots(<<>>) : p[1] < j \/ (p[1] = j /\ p[2] < r)} = {}
    BY <1>1
  <2>2. PICK S : S = {p \in Slots(<<>>) : p[1] < j \/ (p[1] = j /\ p[2] < r)}
    OBVIOUS
  <2>3. PICK q : q = <<>>
    OBVIOUS
  <2>4. PICK g : g = [p \in S |-> q[p[1]][p[2]]]
    OBVIOUS
  <2>5. g = e
    BY <1>2, <2>1, <2>2, <2>4
  <2> QED
    BY <2>2, <2>3, <2>4, <2>5 DEF Under
<1>4. e \in Belows
  <2>1. {} \in SUBSET (Nat \X Nat) /\ e \in [{} -> Values]
    BY <1>2
  <2> QED
    BY <2>1 DEF Belows
<1> QED
  BY <1>1, <1>3, <1>4

LEMMA WorkingFacts ==
  ASSUME NEW pc \in {"client", "releasing", "exiting", "exited"}, NEW tokens, tokens \in Seq(TokenType),
         NEW this \in Nat, NEW stop \in Nat, NEW below, below \in Belows,
         NEW f, f = Working(pc, tokens, this, stop, below)
  PROVE  /\ f \in FrameType /\ f.pc = pc /\ f.tokens = tokens /\ f.this = this /\ f.stop = stop
         /\ f.below = below
  BY DEF Working, FrameType

LEMMA FrameFacts ==
  ASSUME NEW pc \in {"client", "exited"}, NEW tokens, tokens \in Seq(TokenType),
         NEW f, f = Frame(pc, tokens)
  PROVE  f \in FrameType /\ f.pc = pc /\ f.tokens = tokens /\ f.this = nil
<1>1. PICK b : b = Under(<<>>, 1, 1) /\ b \in Belows
  BY NothingUnder
<1>2. f = Working(pc, tokens, nil, 0, b)
  BY <1>1 DEF Frame
<1>3. nil \in Nat /\ 0 \in Nat
  BY DEF nil
<1> QED
  BY <1>1, <1>2, <1>3, WorkingFacts

LEMMA PlaceholderFacts ==
  /\ Placeholder \in TokenType /\ TPage(Placeholder) = 1 /\ TSlot(Placeholder) = 1
  /\ Placeholder.below = Under(<<>>, 1, 1)
<1>1. PICK b : b = Under(<<>>, 1, 1) /\ b \in Belows
  BY NothingUnder
<1>2. PICK e : e = EMPTY_POOL_PLACEHOLDER
  OBVIOUS
<1>3. PICK f : f = [page |-> e, slot |-> 0, below |-> b]
  OBVIOUS
<1>4. f \in TokenType /\ f.page = e /\ f.below = b
  BY <1>1, <1>2, <1>3 DEF TokenType
<1>5. f = Placeholder
  BY <1>1, <1>2, <1>3 DEF Placeholder
<1> QED
  BY <1>1, <1>2, <1>4, <1>5 DEF TPage, TSlot, SlotOf

LEMMA TokenFacts ==
  ASSUME NEW token \in TokenType
  PROVE  /\ TPage(token) \in Nat /\ TSlot(token) \in Nat
         /\ SlotOf(token) = <<TPage(token), TSlot(token)>>
         /\ token.page # EMPTY_POOL_PLACEHOLDER => TPage(token) = token.page /\ TSlot(token) = token.slot
  BY DEF TPage, TSlot, SlotOf, TokenType

LEMMA TokensType ==
  ASSUME NEW f \in FrameType
  PROVE  /\ f.tokens \in Seq(TokenType) /\ Len(f.tokens) \in Nat /\ f.this \in Nat /\ f.stop \in Nat
         /\ f.below \in Belows /\ f.pc \in {"client", "releasing", "exiting", "exited"}
         /\ f.tokens = <<>> <=> Len(f.tokens) = 0
         /\ \A n \in 1 .. Len(f.tokens) :
              f.tokens[n] \in TokenType /\ TPage(f.tokens[n]) \in Nat /\ TSlot(f.tokens[n]) \in Nat
<1>1. PICK q \in Seq(TokenType) : q = f.tokens
  BY DEF FrameType
<1>2. Len(q) \in Nat /\ (q = <<>> <=> Len(q) = 0) /\ \A n \in 1 .. Len(q) : q[n] \in TokenType
  OBVIOUS
<1>3. f.this \in Nat /\ f.stop \in Nat /\ f.below \in Belows
      /\ f.pc \in {"client", "releasing", "exiting", "exited"}
  BY DEF FrameType
<1> QED
  BY <1>1, <1>2, <1>3, TokenFacts

LEMMA FramesType ==
  ASSUME Typed
  PROVE  /\ Len(frames) \in Nat /\ Len(frames) >= 1 /\ Len(frames) \in 1 .. Len(frames)
         /\ \A k \in 1 .. Len(frames) : frames[k] \in FrameType
         /\ Top = frames[Len(frames)] /\ Top \in FrameType
<1>1. PICK q \in Seq(FrameType) : q = frames /\ Len(q) >= 1
  BY DEF Typed
<1>2. Len(q) \in Nat /\ \A k \in 1 .. Len(q) : q[k] \in FrameType
  OBVIOUS
<1>3. Len(q) \in 1 .. Len(q)
  BY <1>1, <1>2
<1> QED
  BY <1>1, <1>2, <1>3 DEF Top

\* Steps that replace the innermost frame, call client code and return from it.
TopIs(f) == /\ frames' \in Seq(FrameType) /\ Len(frames') = Len(frames) /\ Len(frames') >= 1
            /\ frames'[Len(frames)] = f /\ Top' = f
            /\ \A k \in 1 .. Len(frames) : k < Len(frames) => frames'[k] = frames[k]

LEMMA SetTopOp ==
  ASSUME Typed, NEW f \in FrameType, SetTop(f)
  PROVE  TopIs(f)
<1>1. PICK q \in Seq(FrameType) : q = frames /\ Len(q) >= 1
  BY DEF Typed
<1>2. PICK n \in Nat : n = Len(q) /\ n \in 1 .. Len(q)
  BY <1>1
<1>3. PICK r : r = [q EXCEPT ![n] = f]
  OBVIOUS
<1>4. r \in Seq(FrameType) /\ Len(r) = n /\ r[n] = f /\ \A k \in 1 .. n : k < n => r[k] = q[k]
  BY <1>2, <1>3
<1>5. frames' = r
  BY <1>1, <1>2, <1>3 DEF SetTop
<1> QED
  BY <1>1, <1>2, <1>4, <1>5 DEF TopIs, Top

LEMMA CallOp ==
  ASSUME Typed, NEW f \in FrameType, frames' = Append(frames, f)
  PROVE  /\ frames' \in Seq(FrameType) /\ Len(frames') = Len(frames) + 1 /\ Len(frames') >= 1
         /\ frames'[Len(frames) + 1] = f /\ Top' = f
         /\ \A k \in 1 .. Len(frames) : frames'[k] = frames[k]
<1>1. PICK q \in Seq(FrameType) : q = frames /\ Len(q) >= 1
  BY DEF Typed
<1>2. PICK r : r = Append(q, f)
  OBVIOUS
<1>3. /\ r \in Seq(FrameType) /\ Len(r) = Len(q) + 1 /\ r[Len(q) + 1] = f
      /\ \A k \in 1 .. Len(q) : r[k] = q[k]
  BY <1>2
<1>4. Len(q) \in Nat
  OBVIOUS
<1> QED
  BY <1>1, <1>2, <1>3, <1>4 DEF Top

LEMMA ReturnOp ==
  ASSUME Typed, Len(frames) > 1, frames' = Front(frames)
  PROVE  /\ frames' \in Seq(FrameType) /\ Len(frames') = Len(frames) - 1 /\ Len(frames') >= 1
         /\ \A k \in 1 .. Len(frames') : frames'[k] = frames[k]
<1>1. PICK q \in Seq(FrameType) : q = frames /\ Len(q) > 1
  BY DEF Typed
<1>2. PICK n \in Nat : n = Len(q) - 1 /\ n >= 1 /\ n < Len(q)
  <2>1. PICK l \in Nat : l = Len(q)
    BY <1>1
  <2>2. l - 1 \in Nat /\ l - 1 >= 1 /\ l - 1 < l
    BY <1>1, <2>1
  <2> QED
    BY <2>1, <2>2
<1>3. PICK r : r = SubSeq(q, 1, n)
  OBVIOUS
<1>4. r \in Seq(FrameType) /\ Len(r) = n /\ \A k \in 1 .. n : r[k] = q[k]
  BY <1>2, <1>3
<1>5. frames' = r
  BY <1>1, <1>2, <1>3 DEF Front
<1> QED
  BY <1>1, <1>2, <1>4, <1>5

\* Adding x as slot s of page i, above all that is in use.
Grown(i, s, x) ==
  /\ i \in Nat /\ s \in Nat /\ i >= 1 /\ s >= 1 /\ s <= COUNT /\ x \in Values
  /\ tls' = i
  /\ pages' \in Seq(Seq(Values)) /\ Len(pages') \in Nat
  /\ \A j \in 1 .. Len(pages') : Len(pages'[j]) <= COUNT
  /\ \A j, r \in Nat : Used(j, r)' <=> Used(j, r) \/ (j = i /\ r = s)
  /\ \A j, r \in Nat : Used(j, r) => pages'[j][r] = pages[j][r] /\ Before(j, r, i, s)
  /\ i \in 1 .. Len(pages') /\ Len(pages'[i]) = s /\ pages'[i][s] = x
  /\ \A j \in 1 .. Len(pages) : j \in 1 .. Len(pages') /\ (j # i => pages'[j] = pages[j])
  /\ \A j \in 1 .. Len(pages') : j # i => j \in 1 .. Len(pages)
  /\ Len(pages') = Len(pages) \/ (Len(pages') = Len(pages) + 1 /\ i = Len(pages) + 1)

LEMMA UsedUpToHot ==
  ASSUME Typed, Layout, NEW j \in Nat, NEW r \in Nat, Used(j, r)
  PROVE  tls \in Nat /\ tls >= 1 /\ tls \in 1 .. Len(pages) /\ j <= tls
<1>1. j \in 1 .. Len(pages) /\ r \in 1 .. Len(pages[j]) /\ Len(pages) \in Nat
  BY PagesType DEF Used
<1>2. pages # <<>> /\ pages[j] # <<>>
  BY <1>1, PagesType
<1> QED
  BY <1>1, <1>2 DEF Layout

LEMMA NewSlotIsHighest ==
  ASSUME Typed, Layout, tls \in Nat, tls >= 1, NEW i \in {tls, tls + 1}, NEW s \in Nat,
         s = IF i <= Len(pages) THEN Len(pages[i]) + 1 ELSE 1
  PROVE  /\ \A j, r \in Nat : Used(j, r) => Before(j, r, i, s)
         /\ i = tls + 1 => s = 1
<1>1. tls \in 1 .. Len(pages) /\ \A j \in 1 .. Len(pages) : j > tls => pages[j] = <<>>
  BY DEF Layout, nil, EMPTY_POOL_PLACEHOLDER
<1>2. Len(pages) \in Nat /\ \A j \in 1 .. Len(pages) : Len(pages[j]) \in Nat /\ (pages[j] = <<>> <=> Len(pages[j]) = 0)
  BY PagesType
<1>3. ASSUME i = tls + 1 PROVE s = 1
  <2>1. CASE i <= Len(pages)
    BY <1>1, <1>2, <1>3, <2>1
  <2> QED
    BY <2>1
<1>4. ASSUME NEW j \in Nat, NEW r \in Nat, Used(j, r) PROVE Before(j, r, i, s)
  <2>1. j <= tls /\ j \in 1 .. Len(pages) /\ r \in 1 .. Len(pages[j])
    BY <1>4, UsedUpToHot DEF Used
  <2>2. CASE j < i
    BY <2>2 DEF Before
  <2>3. CASE j = i
    BY <1>1, <1>2, <2>1, <2>3 DEF Before
  <2> QED
    BY <2>1, <2>2, <2>3
<1> QED
  BY <1>3, <1>4

LEMMA AddToOp ==
  ASSUME Typed, Layout, tls \in Nat, tls >= 1, NEW i \in {tls, tls + 1}, NEW x \in Values,
         i = tls => Len(pages[tls]) < COUNT, AddTo(i, x)
  PROVE  \E s \in Nat : Grown(i, s, x) /\ (i = tls + 1 => s = 1)
<1>1. tls \in 1 .. Len(pages)
  BY DEF Layout, nil, EMPTY_POOL_PLACEHOLDER
<1>2. PICK pgs \in Seq(Seq(Values)) : pgs = pages
  BY DEF Typed
<1>3. PICK n \in Nat : n = Len(pgs)
  BY <1>2
<1>4. PICK s \in Nat : s = IF i <= n THEN Len(pgs[i]) + 1 ELSE 1
  BY <1>1, <1>2, <1>3, PagesType
<1>5. /\ \A j, r \in Nat : Used(j, r) => Before(j, r, i, s)
      /\ i = tls + 1 => s = 1
  BY <1>2, <1>3, <1>4, NewSlotIsHighest
<1>6. i \in Nat /\ i >= 1 /\ s >= 1 /\ COUNT \in Nat /\ COUNT >= 2 /\ i <= n + 1
  BY <1>1, <1>2, <1>3, <1>4, AutoreleasePoolAssumption, PagesType
<1>7. s <= COUNT
  BY <1>1, <1>2, <1>3, <1>4, <1>5, <1>6, PagesType
<1>8. PICK q : q = IF i > n THEN <<x>> ELSE Append(pgs[i], x)
  OBVIOUS
<1>9. /\ q \in Seq(Values) /\ Len(q) = s /\ q[s] = x
      /\ i <= n => \A r \in 1 .. Len(pgs[i]) : q[r] = pgs[i][r]
  <2>1. CASE i > n
    BY <1>4, <1>6, <1>8, <2>1
  <2>2. CASE i <= n
    <3>1. PICK u \in Seq(Values) : u = pgs[i]
      BY <1>3, <1>6, <2>2
    <3>2. q = Append(u, x)
      BY <1>6, <1>8, <2>2, <3>1
    <3> QED
      BY <1>4, <2>2, <3>1, <3>2
  <2> QED
    BY <1>6, <2>1, <2>2
<1>10. PICK new : new = pages'
  OBVIOUS
<1>11. /\ new \in Seq(Seq(Values)) /\ Len(new) = (IF i > n THEN n + 1 ELSE n)
       /\ new[i] = q /\ \A j \in 1 .. n : j # i => new[j] = pgs[j]
  <2>1. CASE i > n
    <3>1. new = Append(pgs, q) /\ i = n + 1
      BY <1>2, <1>3, <1>6, <1>8, <1>10, <2>1 DEF AddTo
    <3> QED
      BY <1>3, <1>6, <1>9, <2>1, <3>1
  <2>2. CASE i <= n
    <3>1. i \in 1 .. Len(pgs) /\ q = Append(pgs[i], x) /\ ~(i > Len(pgs))
      BY <1>3, <1>6, <1>8, <2>2
    <3>2. new = [pgs EXCEPT ![i] = Append(@, x)]
      BY <1>2, <1>10, <3>1 DEF AddTo
    <3>3. new = [pgs EXCEPT ![i] = q]
      BY <3>1, <3>2
    <3> QED
      BY <1>3, <1>6, <1>9, <2>2, <3>1, <3>3
  <2> QED
    BY <1>6, <2>1, <2>2
<1>12. tls' = i
  BY DEF AddTo
<1>13. \A j \in 1 .. Len(pgs) : Len(pgs[j]) \in Nat /\ Len(pgs[j]) <= COUNT
  BY <1>2, PagesType
<1>14. ASSUME NEW j \in 1 .. Len(new) PROVE Len(new[j]) <= COUNT
  <2>1. CASE j = i
    BY <1>7, <1>9, <1>11, <2>1
  <2>2. CASE j # i
    <3>1. j \in 1 .. n
      BY <1>3, <1>6, <1>11, <2>2
    <3> QED
      BY <1>3, <1>11, <1>13, <2>2, <3>1
  <2> QED
    BY <2>1, <2>2
<1>15. ASSUME NEW j \in Nat, NEW r \in Nat
       PROVE  /\ Used(j, r)' <=> Used(j, r) \/ (j = i /\ r = s)
              /\ Used(j, r) => new[j][r] = pgs[j][r]
  <2>1. Used(j, r) <=> j \in 1 .. n /\ r \in 1 .. Len(pgs[j])
    BY <1>2, <1>3 DEF Used
  <2>2. Used(j, r)' <=> j \in 1 .. Len(new) /\ r \in 1 .. Len(new[j])
    BY <1>10 DEF Used
  <2>3. CASE j # i
    BY <1>6, <1>11, <2>1, <2>2, <2>3
  <2>4. CASE j = i
    <3>1. Len(new[j]) = s /\ j \in 1 .. Len(new)
      BY <1>6, <1>9, <1>11, <2>4
    <3>2. CASE i > n
      BY <1>4, <1>6, <2>1, <2>2, <2>4, <3>1, <3>2
    <3>3. CASE i <= n
      BY <1>4, <1>6, <1>9, <1>11, <1>13, <2>1, <2>2, <2>4, <3>1, <3>3
    <3> QED
      BY <1>6, <3>2, <3>3
  <2> QED
    BY <2>3, <2>4
<1>16. /\ i \in 1 .. Len(new) /\ Len(new[i]) = s /\ new[i][s] = x /\ Len(new) \in Nat
       /\ \A j \in 1 .. n : j \in 1 .. Len(new) /\ (j # i => new[j] = pgs[j])
       /\ \A j \in 1 .. Len(new) : j # i => j \in 1 .. n
       /\ Len(new) = n \/ (Len(new) = n + 1 /\ i = n + 1)
  BY <1>6, <1>9, <1>11
<1>17. Grown(i, s, x)
  <2>1. \A j, r \in Nat : Used(j, r)' <=> Used(j, r) \/ (j = i /\ r = s)
    BY <1>15
  <2>2. \A j, r \in Nat : Used(j, r) => pages'[j][r] = pages[j][r] /\ Before(j, r, i, s)
    BY <1>2, <1>5, <1>10, <1>15
  <2>3. /\ i \in 1 .. Len(pages') /\ Len(pages'[i]) = s /\ pages'[i][s] = x /\ Len(pages') \in Nat
        /\ \A j \in 1 .. Len(pages) : j \in 1 .. Len(pages') /\ (j # i => pages'[j] = pages[j])
        /\ \A j \in 1 .. Len(pages') : j # i => j \in 1 .. Len(pages)
        /\ Len(pages') = Len(pages) \/ (Len(pages') = Len(pages) + 1 /\ i = Len(pages) + 1)
    BY <1>2, <1>3, <1>10, <1>16, Zenon
  <2>4. pages' \in Seq(Seq(Values)) /\ \A j \in 1 .. Len(pages') : Len(pages'[j]) <= COUNT
    BY <1>10, <1>11, <1>14
  <2> QED
    BY <1>6, <1>7, <1>12, <2>1, <2>2, <2>3, <2>4, Zenon DEF Grown
<1> QED
  BY <1>5, <1>17

LEMMA FirstPageOp ==
  ASSUME Typed, Layout, tls = nil, NEW x \in Values, autoreleaseNoPage(x)
  PROVE  Grown(1, 1, x)
<1>1. pages = <<>> /\ Len(pages) = 0
  BY DEF Layout, nil, EMPTY_POOL_PLACEHOLDER
<1>2. PICK q : q = <<x>>
  OBVIOUS
<1>3. q \in Seq(Values) /\ Len(q) = 1 /\ q[1] = x
  BY <1>2
<1>4. pages' = <<q>> /\ tls' = 1
  BY <1>2 DEF autoreleaseNoPage, nil, EMPTY_POOL_PLACEHOLDER
<1>5. pages' \in Seq(Seq(Values)) /\ Len(pages') = 1 /\ pages'[1] = q
  BY <1>3, <1>4
<1>6. \A j, r : ~Used(j, r)
  BY <1>1 DEF Used
<1>7. ASSUME NEW j \in Nat, NEW r \in Nat PROVE Used(j, r)' <=> j = 1 /\ r = 1
  <2>1. Used(j, r)' <=> j \in 1 .. 1 /\ r \in 1 .. Len(pages'[j])
    BY <1>5 DEF Used
  <2>2. j \in 1 .. 1 <=> j = 1
    OBVIOUS
  <2>3. r \in 1 .. 1 <=> r = 1
    OBVIOUS
  <2> QED
    BY <1>3, <1>5, <2>1, <2>2, <2>3
<1>8. COUNT \in Nat /\ COUNT >= 2 /\ 1 \in Nat /\ 1 <= COUNT
  BY AutoreleasePoolAssumption
<1>9. \A j : j \in 1 .. 1 <=> j = 1
  OBVIOUS
<1>10. \A j : j \notin 1 .. 0
  OBVIOUS
<1>11. \A j, r \in Nat : Used(j, r)' <=> Used(j, r) \/ (j = 1 /\ r = 1)
  BY <1>6, <1>7
<1>12. \A j, r \in Nat : Used(j, r) => pages'[j][r] = pages[j][r] /\ Before(j, r, 1, 1)
  BY <1>6
<1>13. \A j \in 1 .. Len(pages') : Len(pages'[j]) <= COUNT
  BY <1>3, <1>5, <1>8, <1>9
<1>14. 1 \in 1 .. Len(pages') /\ Len(pages'[1]) = 1 /\ pages'[1][1] = x /\ Len(pages') \in Nat
  BY <1>3, <1>5, <1>9
<1>15. /\ \A j \in 1 .. Len(pages) : j \in 1 .. Len(pages') /\ (j # 1 => pages'[j] = pages[j])
       /\ \A j \in 1 .. Len(pages') : j # 1 => j \in 1 .. Len(pages)
       /\ Len(pages') = Len(pages) + 1 /\ 1 = Len(pages) + 1
  BY <1>1, <1>5, <1>9, <1>10
<1>16. 1 \in Nat /\ 1 >= 1 /\ 1 <= COUNT
  BY <1>8
<1> QED
  BY <1>4, <1>5, <1>11, <1>12, <1>13, <1>14, <1>15, <1>16, Zenon DEF Grown

SameEnv == /\ DebugPoolAllocation' <=> DebugPoolAllocation
           /\ DebugMissingPools' <=> DebugMissingPools

\* Where the page of a new slot is: the hot page, or the next one.
Follows(i) ==
  IF tls = nil THEN i = 1
  ELSE i = tls \/ (i = tls + 1 /\ (DebugPoolAllocation \/ Len(pages[tls]) = COUNT))

LEMMA HotPageIs ==
  ASSUME Typed, Layout, tls # EMPTY_POOL_PLACEHOLDER
  PROVE  /\ tls \in Nat /\ hotPage = tls /\ (tls # nil <=> tls >= 1)
         /\ tls # nil => tls \in 1 .. Len(pages)
         /\ tls = nil => pages = <<>>
  BY DEF Typed, Layout, hotPage, nil, EMPTY_POOL_PLACEHOLDER

LEMMA NextPageIs ==
  ASSUME Typed, Layout, tls \in Nat, tls >= 1
  PROVE  NextPage(tls) = tls + 1
<1>1. /\ tls \in 1 .. Len(pages) /\ \A j \in 1 .. Len(pages) : j > tls => Len(pages[j]) = 0
      /\ Len(pages) \in Nat /\ COUNT \in Nat /\ COUNT >= 2
  BY PagesType, AutoreleasePoolAssumption DEF Layout, nil, EMPTY_POOL_PLACEHOLDER
<1>2. \A j \in tls + 1 .. Len(pages) + 1 : j # Len(pages) + 1 => j \in 1 .. Len(pages) /\ j > tls
  BY <1>1
<1>3. \A j \in tls + 1 .. Len(pages) + 1 : j = Len(pages) + 1 \/ ~full(j)
  BY <1>1, <1>2 DEF full
<1>4. tls + 1 \in tls + 1 .. Len(pages) + 1 /\ \A k : k \notin tls + 1 .. (tls + 1) - 1
  BY <1>1
<1>5. ASSUME NEW j \in tls + 1 .. Len(pages) + 1, \A k \in tls + 1 .. j - 1 : full(k)
      PROVE  j = tls + 1
  <2>1. SUFFICES ASSUME j # tls + 1 PROVE FALSE
    OBVIOUS
  <2>2. tls + 1 \in tls + 1 .. j - 1 /\ tls + 1 # Len(pages) + 1
    BY <1>1, <2>1
  <2> QED
    BY <1>3, <1>4, <1>5, <2>2
<1>6. PICK m : m = NextPage(tls)
  OBVIOUS
<1>7. \E j \in tls + 1 .. Len(pages) + 1 : /\ j = Len(pages) + 1 \/ ~full(j)
                                           /\ \A k \in tls + 1 .. j - 1 : full(k)
  BY <1>3, <1>4
<1>8. /\ m \in tls + 1 .. Len(pages) + 1 /\ \A k \in tls + 1 .. m - 1 : full(k)
  BY <1>6, <1>7 DEF NextPage
<1> QED
  BY <1>5, <1>6, <1>8

LEMMA FullPageOp ==
  ASSUME Typed, Layout, tls \in Nat, tls >= 1, NEW x \in Values, autoreleaseFullPage(x)
  PROVE  Grown(tls + 1, 1, x)
<1>1. hotPage = tls
  BY DEF hotPage, EMPTY_POOL_PLACEHOLDER
<1>2. PICK i \in {tls, tls + 1} : i = tls + 1
  OBVIOUS
<1>3. AddTo(i, x)
  BY <1>1, <1>2, NextPageIs DEF autoreleaseFullPage
<1>4. PICK s \in Nat : Grown(i, s, x) /\ (i = tls + 1 => s = 1)
  BY <1>2, <1>3, AddToOp
<1> QED
  BY <1>2, <1>4

LEMMA FastOp ==
  ASSUME Typed, Layout, tls # EMPTY_POOL_PLACEHOLDER, NEW x \in Values, autoreleaseFast(x)
  PROVE  \E i, s \in Nat : Grown(i, s, x) /\ Follows(i) /\ (i # tls /\ tls # nil => Len(pages[tls]) = COUNT)
<1>1. /\ tls \in Nat /\ hotPage = tls /\ (tls # nil <=> tls >= 1)
      /\ tls # nil => tls \in 1 .. Len(pages)
  BY HotPageIs
<1>2. CASE tls = nil
  BY <1>1, <1>2, FirstPageOp DEF autoreleaseFast, Follows
<1>3. CASE tls # nil /\ full(tls)
  <2>1. Grown(tls + 1, 1, x)
    BY <1>1, <1>3, FullPageOp DEF autoreleaseFast
  <2> QED
    BY <1>1, <1>3, <2>1 DEF Follows, full
<1>4. CASE tls # nil /\ ~full(tls)
  <2>1. AddTo(tls, x)
    BY <1>1, <1>4 DEF autoreleaseFast
  <2>2. Len(pages[tls]) < COUNT
    BY <1>1, <1>4, PagesType, AutoreleasePoolAssumption DEF full
  <2>3. PICK i \in {tls, tls + 1} : i = tls
    OBVIOUS
  <2>4. PICK s \in Nat : Grown(i, s, x)
    BY <1>1, <1>4, <2>1, <2>2, <2>3, AddToOp
  <2> QED
    BY <1>1, <1>4, <2>3, <2>4 DEF Follows
<1> QED
  BY <1>2, <1>3, <1>4

LEMMA GrownLayout ==
  ASSUME Typed, Layout, tls # EMPTY_POOL_PLACEHOLDER, SameEnv, NEW i, NEW s, NEW x, Grown(i, s, x), Follows(i)
  PROVE  Layout'
<1>1. /\ tls \in Nat /\ (tls # nil <=> tls >= 1)
      /\ tls # nil => tls \in 1 .. Len(pages)
      /\ tls = nil => pages = <<>>
  BY HotPageIs
<1>2. /\ i \in Nat /\ tls' = i /\ i \in 1 .. Len(pages') /\ Len(pages') \in Nat
      /\ \A j \in 1 .. Len(pages') : j # i => j \in 1 .. Len(pages) /\ pages'[j] = pages[j]
  BY DEF Grown
<1>3. Len(pages) \in Nat /\ (pages = <<>> => Len(pages) = 0)
  BY PagesType
<1>4. ASSUME NEW j \in 1 .. Len(pages'), j > i PROVE pages'[j] = <<>>
  <2>1. j # i /\ j \in 1 .. Len(pages) /\ pages'[j] = pages[j]
    BY <1>2, <1>4
  <2>2. tls # nil
    BY <1>1, <1>3, <2>1
  <2>3. j > tls
    BY <1>1, <1>2, <1>4, <2>2 DEF Follows
  <2> QED
    BY <1>1, <2>1, <2>2, <2>3 DEF Layout, EMPTY_POOL_PLACEHOLDER, nil
<1>5. ASSUME ~DebugPoolAllocation, NEW j \in 1 .. Len(pages'), j < i PROVE Len(pages'[j]) = COUNT
  <2>1. j # i /\ j \in 1 .. Len(pages) /\ pages'[j] = pages[j]
    BY <1>2, <1>5
  <2>2. tls # nil
    BY <1>1, <1>3, <2>1
  <2>3. CASE j < tls
    BY <1>1, <1>5, <2>1, <2>2, <2>3 DEF Layout, EMPTY_POOL_PLACEHOLDER, nil
  <2>4. CASE j >= tls
    <3>1. i = tls + 1 /\ j = tls /\ Len(pages[tls]) = COUNT
      BY <1>1, <1>2, <1>5, <2>1, <2>2, <2>4 DEF Follows
    <3> QED
      BY <2>1, <3>1
  <2> QED
    BY <1>1, <2>3, <2>4
<1> QED
  BY <1>2, <1>4, <1>5 DEF Layout, SameEnv

LEMMA GrownSame ==
  ASSUME NEW i, NEW s, NEW x, Grown(i, s, x)
  PROVE  SameBelow(i, s) /\ (\A j, r \in Nat : Boundary(j, r) => Boundary(j, r)' /\ Before(j, r, i, s))
<1>1. /\ i \in Nat /\ s \in Nat
      /\ \A j, r \in Nat : Used(j, r)' <=> Used(j, r) \/ (j = i /\ r = s)
      /\ \A j, r \in Nat : Used(j, r) => pages'[j][r] = pages[j][r] /\ Before(j, r, i, s)
  BY DEF Grown
<1>2. ~Before(i, s, i, s)
  BY <1>1 DEF Before
<1>3. SameBelow(i, s)
  BY <1>1, <1>2 DEF SameBelow
<1>4. \A j, r \in Nat : Boundary(j, r) => Boundary(j, r)' /\ Before(j, r, i, s)
  BY <1>1 DEF Boundary
<1> QED
  BY <1>3, <1>4

LEMMA GrownToken ==
  ASSUME Typed, Typed', SameEnv, tls # EMPTY_POOL_PLACEHOLDER, NEW i, NEW s, NEW x, Grown(i, s, x),
         NEW token \in TokenType, TokenOk(token)
  PROVE  TokenOk(token)'
<1>1. PICK p \in Nat, r \in Nat : p = TPage(token) /\ r = TSlot(token)
  BY TokenFacts
<1>2. /\ p >= 1 /\ r >= 1 /\ Boundary(p, r) /\ (DebugPoolAllocation => r = 1)
      /\ token.below = Under(pages, p, r)
  BY <1>1 DEF TokenOk
<1>3. Boundary(p, r)' /\ Before(p, r, i, s) /\ SameBelow(i, s)
  BY <1>2, GrownSame
<1>4. NotAfter(p, r, i, s) /\ i \in Nat /\ s \in Nat
  BY <1>3 DEF Before, NotAfter, Grown
<1>5. Under(pages, p, r)' = Under(pages, p, r)
  BY <1>3, <1>4, UnderSame
<1> QED
  BY <1>1, <1>2, <1>3, <1>5 DEF TokenOk, SameEnv, TPage, TSlot, SlotOf

LEMMA InFrameStays ==
  ASSUME NEW f
  PROVE  InFrame(f)' <=> InFrame(f)
  BY DEF InFrame, Before, Pops, TPage, TSlot, SlotOf

\* Adding a slot leaves the frames of the pops that called client code, and
\* those of client code, in order.
LEMMA GrownFrame ==
  ASSUME Typed, Typed', Layout, SameEnv, tls # EMPTY_POOL_PLACEHOLDER,
         NEW i, NEW s, NEW x, Grown(i, s, x), Follows(i),
         NEW f \in FrameType, NEW k, NEW n, FrameOk(f, k, n), Pops(f) => k < n
  PROVE  FrameOk(f, k, n)'
<1>1. WorkOk(f, k, n) /\ InFrame(f) /\ f.this \in Nat /\ f.stop \in Nat
  BY TokensType DEF FrameOk
<1>2. \A m \in 1 .. Len(f.tokens) : TokenOk(f.tokens[m])'
  BY TokensType, GrownToken DEF FrameOk
<1>3. WorkOk(f, k, n)'
  <2>1. CASE ~Pops(f)
    BY <1>1, <2>1 DEF WorkOk, Pops, nil
  <2>2. CASE Pops(f)
    <3>1. /\ k < n /\ 1 <= f.this /\ f.this <= tls /\ 1 <= f.stop /\ f.stop <= COUNT
          /\ (DebugPoolAllocation => f.stop = 1) /\ tls \in Nat
      BY <1>1, <2>2, HotPageIs DEF WorkOk
    <3>2. tls' = i /\ i \in Nat /\ f.this <= tls'
      BY <1>1, <3>1 DEF Grown, Follows, nil
    <3>3. i \in 1 .. Len(pages') /\ Len(pages') \in Nat
      BY DEF Grown
    <3>4. Len(pages'[f.this]) \in Nat
      <4>1. f.this \in 1 .. Len(pages')
        BY <1>1, <3>1, <3>2, <3>3
      <4>2. PICK q \in Seq(Values) : q = pages'[f.this]
        BY <4>1 DEF Typed
      <4> QED
        BY <4>2
    <3>5. CASE f.pc = "exiting"
      <4>1. k = 1 /\ f.this = 1 /\ f.stop = 1 /\ f.tokens = <<>>
        BY <1>1, <3>5 DEF WorkOk
      <4> QED
        BY <2>2, <3>1, <3>2, <3>4, <3>5, <4>1 DEF WorkOk, SameEnv, Pops
    <3>6. CASE f.pc = "releasing"
      <4>1. f.below = Under(pages, f.this, f.stop) /\ Boundary(f.this, f.stop)
        BY <1>1, <3>1, <3>6 DEF WorkOk
      <4>2. Boundary(f.this, f.stop)' /\ Before(f.this, f.stop, i, s) /\ SameBelow(i, s)
        BY <1>1, <4>1, GrownSame
      <4>3. NotAfter(f.this, f.stop, i, s) /\ s \in Nat
        BY <1>1, <4>2 DEF Before, NotAfter, Grown
      <4>4. Under(pages, f.this, f.stop)' = Under(pages, f.this, f.stop)
        BY <1>1, <3>2, <4>2, <4>3, UnderSame
      <4>5. f.stop <= Len(pages'[f.this])
        BY <1>1, <3>4, <4>2 DEF Boundary, Used
      <4>6. Len(pages'[f.this]) >= f.stop - 1
        BY <1>1, <3>4, <4>5
      <4> QED
        BY <2>2, <3>1, <3>2, <3>6, <4>1, <4>2, <4>4, <4>6 DEF WorkOk, SameEnv, Pops
    <3> QED
      BY <2>2, <3>5, <3>6 DEF Pops
  <2> QED
    BY <2>1, <2>2
<1> QED
  BY <1>1, <1>2, <1>3, InFrameStays DEF FrameOk

\* The slots of an object, and their number.
Of(o) == {p \in Slots(pages) : Stack[p] = o}

OfAre == \A o : /\ \A j, r \in Nat : <<j, r>> \in Of(o) <=> Used(j, r) /\ pages[j][r] = o
                /\ \A p \in Of(o) : \E j, r \in Nat : p = <<j, r>>
                /\ IsFiniteSet(Of(o)) /\ Cardinality(Of(o)) \in Nat

LEMMA TypedOfAre == Typed => OfAre
<1> SUFFICES ASSUME Typed, NEW o
             PROVE  /\ \A j, r \in Nat : <<j, r>> \in Of(o) <=> Used(j, r) /\ pages[j][r] = o
                    /\ \A p \in Of(o) : \E j, r \in Nat : p = <<j, r>>
                    /\ IsFiniteSet(Of(o)) /\ Cardinality(Of(o)) \in Nat
  BY DEF OfAre
<1>1. ASSUME NEW j \in Nat, NEW r \in Nat PROVE <<j, r>> \in Of(o) <=> Used(j, r) /\ pages[j][r] = o
  <2>1. PICK S : S = Slots(pages)
    OBVIOUS
  <2>2. <<j, r>> \in S <=> Used(j, r)
    BY <2>1, UsedAre
  <2>3. PICK p : p = <<j, r>>
    OBVIOUS
  <2>4. p \in S => Stack[p] = pages[p[1]][p[2]]
    BY <2>1 DEF Stack
  <2>5. p \in Of(o) <=> p \in S /\ pages[p[1]][p[2]] = o
    BY <2>1, <2>4 DEF Of
  <2> QED
    BY <2>2, <2>3, <2>5
<1>2. \A p \in Of(o) : \E j, r \in Nat : p = <<j, r>>
  BY UsedAre DEF Of
<1>3. Of(o) \in SUBSET Slots(pages)
  BY DEF Of
<1>4. IsFiniteSet(Of(o)) /\ Cardinality(Of(o)) \in Nat
  BY <1>3, SlotsFinite, FS_Subset, FS_CardinalityType
<1> QED
  BY <1>1, <1>2, <1>4

LEMMA GrownOf ==
  ASSUME Typed, Typed', NEW i, NEW s, NEW x, Grown(i, s, x), NEW o \in Objects
  PROVE  Cardinality(Of(o)') = Cardinality(Of(o)) + (IF x = o THEN 1 ELSE 0)
<1>1. /\ \A j, r \in Nat : <<j, r>> \in Of(o) <=> Used(j, r) /\ pages[j][r] = o
      /\ \A p \in Of(o) : \E j, r \in Nat : p = <<j, r>>
      /\ IsFiniteSet(Of(o)) /\ Cardinality(Of(o)) \in Nat
  BY TypedOfAre DEF OfAre
<1>2. /\ \A j, r \in Nat : <<j, r>> \in Of(o)' <=> Used(j, r)' /\ pages'[j][r] = o
      /\ \A p \in Of(o)' : \E j, r \in Nat : p = <<j, r>>
  <2>1. OfAre'
    BY TypedOfAre, PTL
  <2> QED
    BY <2>1 DEF OfAre
<1>3. /\ i \in Nat /\ s \in Nat /\ pages'[i][s] = x
      /\ \A j, r \in Nat : Used(j, r)' <=> Used(j, r) \/ (j = i /\ r = s)
      /\ \A j, r \in Nat : Used(j, r) => pages'[j][r] = pages[j][r] /\ Before(j, r, i, s)
  BY DEF Grown
<1>4. ~Used(i, s)
  BY <1>3 DEF Before
<1>5. PICK A : A = Of(o)
  OBVIOUS
<1>6. PICK B : B = Of(o)'
  OBVIOUS
<1>7. PICK w : w = <<i, s>>
  OBVIOUS
<1>8. w \notin A /\ (w \in B <=> x = o)
  BY <1>1, <1>2, <1>3, <1>4, <1>5, <1>6, <1>7
<1>9. ASSUME NEW p, p # w PROVE p \in A <=> p \in B
  <2>1. SUFFICES ASSUME p \in A \cup B PROVE p \in A <=> p \in B
    OBVIOUS
  <2>2. PICK j \in Nat, r \in Nat : p = <<j, r>>
    BY <1>1, <1>2, <1>5, <1>6, <2>1
  <2>3. ~(j = i /\ r = s)
    BY <1>7, <1>9, <2>2
  <2> QED
    BY <1>1, <1>2, <1>3, <1>5, <1>6, <2>2, <2>3
<1>10. CASE x = o
  <2>1. B = A \cup {w}
    BY <1>8, <1>9, <1>10
  <2>2. Cardinality(A \cup {w}) = Cardinality(A) + 1
    BY <1>1, <1>5, <1>8, FS_AddElement
  <2> QED
    BY <1>5, <1>6, <1>10, <2>1, <2>2
<1>11. CASE x # o
  <2>1. B = A
    BY <1>8, <1>9, <1>11
  <2> QED
    BY <1>1, <1>5, <1>6, <1>11, <2>1
<1> QED
  BY <1>10, <1>11

LEMMA AccountIs == NoLostRelease <=> \A o \in Objects : balance[o] = Cardinality(Of(o))
  BY DEF NoLostRelease, Of

LEMMA GrownFew ==
  ASSUME Typed, Layout, tls # EMPTY_POOL_PLACEHOLDER, SameEnv, NEW i, NEW s, NEW x, Grown(i, s, x), Follows(i),
         pages # <<>> => Len(pages) <= tls + 1, DebugPoolAllocation => tls = Len(pages)
  PROVE  Len(pages') <= tls' + 1 /\ (DebugPoolAllocation' => tls' = Len(pages'))
<1>1. /\ tls \in Nat /\ (tls # nil <=> tls >= 1) /\ (tls = nil => pages = <<>>)
      /\ Len(pages) \in Nat /\ (pages = <<>> <=> Len(pages) = 0)
  BY HotPageIs, PagesType
<1>2. /\ i \in Nat /\ tls' = i /\ i \in 1 .. Len(pages') /\ Len(pages') \in Nat
      /\ Len(pages') = Len(pages) \/ (Len(pages') = Len(pages) + 1 /\ i = Len(pages) + 1)
  BY DEF Grown
<1> QED
  BY <1>1, <1>2 DEF Follows, SameEnv, nil

LEMMA GrownPoolStarts ==
  ASSUME PoolStarts, SameEnv, NEW i, NEW s, NEW x, Grown(i, s, x),
         DebugPoolAllocation /\ x = POOL_BOUNDARY => s = 1
  PROVE  PoolStarts'
<1>1. /\ pages'[i][s] = x
      /\ \A j, r \in Nat : Used(j, r)' <=> Used(j, r) \/ (j = i /\ r = s)
      /\ \A j, r \in Nat : Used(j, r) => pages'[j][r] = pages[j][r]
  BY DEF Grown
<1>2. ASSUME DebugPoolAllocation, NEW j \in Nat, NEW r \in Nat, Boundary(j, r)' PROVE r = 1
  <2>1. CASE Used(j, r)
    BY <1>1, <1>2, <2>1 DEF PoolStarts, Boundary
  <2>2. CASE j = i /\ r = s
    BY <1>1, <1>2, <2>2 DEF Boundary
  <2> QED
    BY <1>1, <1>2, <2>1, <2>2 DEF Boundary
<1> QED
  BY <1>2 DEF PoolStarts, SameEnv

\* Pages that were empty before the hot page, and those that are after adding.
LEMMA GrownHoles ==
  ASSUME Typed, Layout, tls # EMPTY_POOL_PLACEHOLDER, NEW i, NEW s, NEW x, Grown(i, s, x), Follows(i),
         NEW j \in 1 .. Len(pages'), j < tls', pages'[j] = <<>>
  PROVE  /\ tls # nil /\ j \in 1 .. Len(pages) /\ pages[j] = <<>>
         /\ j < tls \/ (j = tls /\ i = tls + 1)
<1>1. /\ tls \in Nat /\ (tls # nil <=> tls >= 1) /\ (tls = nil => pages = <<>>)
      /\ Len(pages) \in Nat /\ (pages = <<>> <=> Len(pages) = 0)
  BY HotPageIs, PagesType
<1>2. /\ i \in Nat /\ tls' = i /\ Len(pages') \in Nat
      /\ \A u \in 1 .. Len(pages') : u # i => u \in 1 .. Len(pages) /\ pages'[u] = pages[u]
  BY DEF Grown
<1>3. j # i /\ j \in 1 .. Len(pages) /\ pages[j] = <<>>
  BY <1>2
<1> QED
  BY <1>1, <1>2, <1>3 DEF Follows, nil

\* Client code is on top, and below it are the pops that called it.
LEMMA ClientOnTop ==
  ASSUME IInv, InClientCode
  PROVE  /\ Top.pc = "client" /\ ~Pops(Top) /\ Top.this = nil
         /\ \A k \in 1 .. Len(frames) : /\ frames[k] \in FrameType
                                        /\ FrameOk(frames[k], k, Len(frames))
                                        /\ Pops(frames[k]) <=> k < Len(frames)
<1>1. /\ Len(frames) \in Nat /\ Len(frames) \in 1 .. Len(frames) /\ Top = frames[Len(frames)]
      /\ \A k \in 1 .. Len(frames) : frames[k] \in FrameType
  BY FramesType DEF IInv
<1>2. Top.pc = "client" /\ ~Pops(Top)
  BY DEF InClientCode, Pops
<1>3. \A k \in 1 .. Len(frames) : FrameOk(frames[k], k, Len(frames))
  BY DEF IInv, Frames
<1>4. \A k \in 1 .. Len(frames) : k < Len(frames) => Pops(frames[k])
  BY <1>3 DEF FrameOk, WorkOk
<1>5. Top.this = nil
  BY <1>1, <1>2, <1>3 DEF FrameOk, WorkOk
<1> QED
  BY <1>1, <1>2, <1>3, <1>4, <1>5

LEMMA GrownCore ==
  ASSUME IInv, Typed', InClientCode, SameEnv, tls # EMPTY_POOL_PLACEHOLDER, fatal' = fatal,
         NEW i, NEW s, NEW x, Grown(i, s, x), Follows(i),
         DebugMissingPools /\ tls = nil => x = POOL_BOUNDARY,
         DebugPoolAllocation /\ x = POOL_BOUNDARY => s = 1,
         \A o \in Objects : balance'[o] = balance[o] + (IF x = o THEN 1 ELSE 0)
  PROVE  /\ Layout' /\ ColdBoundary' /\ PoolStarts' /\ NoLostRelease' /\ ~fatal' /\ Unplaced'
         /\ pages' # <<>> /\ pages'[tls'] # <<>> /\ tls' # nil /\ tls' # EMPTY_POOL_PLACEHOLDER
<1>1. Typed /\ Layout /\ PoolStarts /\ ~fatal /\ ColdBoundary /\ NoLostRelease
  BY DEF IInv
<1>2. Layout'
  BY <1>1, GrownLayout
<1>3. PoolStarts'
  BY <1>1, GrownPoolStarts
<1>4. i \in Nat /\ i >= 1 /\ tls' = i /\ i \in 1 .. Len(pages') /\ Len(pages'[i]) = s /\ s >= 1 /\ s \in Nat
  BY DEF Grown
<1>5. tls' # nil /\ tls' # EMPTY_POOL_PLACEHOLDER
  BY <1>4 DEF nil, EMPTY_POOL_PLACEHOLDER
<1>6. pages' # <<>> /\ pages'[i] # <<>>
  BY <1>4
<1>7. Unplaced'
  BY <1>5 DEF Unplaced
<1>8. ASSUME DebugMissingPools PROVE Boundary(1, 1)'
  <2>1. CASE tls = nil
    <3>1. i = 1 /\ pages = <<>>
      BY <1>1, <2>1, HotPageIs DEF Follows
    <3>2. \A j, r \in Nat : ~Used(j, r)
      BY <3>1 DEF Used
    <3>3. Used(1, 1)'
      BY <1>4, <3>1 DEF Used
    <3>4. s = 1
      BY <3>1, <3>2, <3>3 DEF Grown
    <3> QED
      BY <1>8, <2>1, <3>1, <3>3, <3>4 DEF Boundary, Grown
  <2>2. CASE tls # nil
    <3>1. pages # <<>>
      BY <1>1, <2>2, HotPageIs
    <3>2. Boundary(1, 1)
      BY <1>1, <1>8, <3>1, ClientOnTop DEF ColdBoundary
    <3> QED
      BY <3>2, GrownSame
  <2> QED
    BY <2>1, <2>2
<1>9. ColdBoundary'
  BY <1>8 DEF ColdBoundary, SameEnv
<1>10. NoLostRelease'
  <2>1. ASSUME NEW o \in Objects PROVE balance'[o] = Cardinality(Of(o)')
    BY <1>1, GrownOf, AccountIs
  <2>2. (\A o \in Objects : balance[o] = Cardinality(Of(o)))'
    BY <2>1
  <2> QED
    BY <2>2 DEF NoLostRelease, Of
<1> QED
  BY <1>1, <1>2, <1>3, <1>4, <1>5, <1>6, <1>7, <1>9, <1>10

\* A step that changes nothing the invariant speaks of.
LEMMA Stutter ==
  ASSUME IInv, pages' = pages, tls' = tls, frames' = frames, balance' = balance, fatal' = fatal, env' = env
  PROVE  IInv'
<1>1. Typed' /\ Layout' /\ ~fatal'
  BY DEF IInv, Typed, Layout, DebugPoolAllocation
<1>2. Unplaced' /\ ColdBoundary' /\ ColdPool'
  BY DEF IInv, Unplaced, ColdBoundary, ColdPool, DebugPoolAllocation, DebugMissingPools, Top, Boundary, Used
<1>3. Holes' /\ HotInUse' /\ FewPages' /\ PoolStarts'
  BY DEF IInv, Holes, HotInUse, FewPages, PoolStarts, DebugPoolAllocation, Top, Boundary, Used
<1>4. NoLostRelease'
  BY DEF IInv, NoLostRelease, Stack
<1>5. \A token : TokenOk(token)' <=> TokenOk(token)
  BY DEF TokenOk, DebugPoolAllocation, Boundary, Used, TPage, TSlot, SlotOf
<1>6. \A f, k, n : WorkOk(f, k, n)' <=> WorkOk(f, k, n)
  BY DEF WorkOk, DebugPoolAllocation, Boundary, Used, Pops
<1>7. \A f, k, n : FrameOk(f, k, n)' <=> FrameOk(f, k, n)
  BY <1>5, <1>6, InFrameStays DEF FrameOk
<1>8. Frames'
  <2>1. ASSUME NEW k \in 1 .. Len(frames') PROVE FrameOk(frames[k], k, Len(frames))'
    <3>1. PICK f : f = frames[k]
      OBVIOUS
    <3>2. PICK n : n = Len(frames)
      OBVIOUS
    <3>3. FrameOk(f, k, n)
      BY <3>1, <3>2 DEF IInv, Frames
    <3>4. FrameOk(f, k, n)'
      BY <1>7, <3>3
    <3>5. f = frames'[k] /\ n = Len(frames')
      BY <3>1, <3>2
    <3> QED
      BY <3>4, <3>5
  <2> QED
    BY <2>1 DEF Frames
<1>9. Nesting'
  BY DEF IInv, Nesting, Nested, Above, DebugPoolAllocation, DebugMissingPools, Before, Pops, TPage, TSlot, SlotOf
<1> QED
  BY <1>1, <1>2, <1>3, <1>4, <1>8, <1>9 DEF IInv

LEMMA NestedStays ==
  ASSUME SameEnv, NEW f, NEW g
  PROVE  /\ Nested(f, g)' <=> Nested(f, g)
         /\ \A i, s : Above(f, i, s)' <=> Above(f, i, s)
<1>1. \A i, s : Above(f, i, s)' <=> Above(f, i, s)
  BY DEF SameEnv, Above, Before
<1> QED
  BY <1>1 DEF Nested, Pops, TPage, TSlot, SlotOf

LEMMA FramesStay ==
  ASSUME IInv, frames' = frames, SameEnv
  PROVE  Nesting'
<1>1. ASSUME NEW j \in 1 .. Len(frames'), NEW k \in 1 .. Len(frames'), j < k
      PROVE  Nested(frames[j], frames[k])'
  <2>1. PICK f, g : f = frames[j] /\ g = frames[k]
    OBVIOUS
  <2>2. Nested(f, g)
    BY <1>1, <2>1 DEF IInv, Nesting
  <2>3. Nested(f, g)'
    BY <2>2, NestedStays
  <2> QED
    BY <2>1, <2>3
<1> QED
  BY <1>1 DEF Nesting

\* An object is added to a stack that has a page, or as the first one outside
\* every pool.
LEMMA AddObject ==
  ASSUME IInv, InClientCode, NEW o \in Objects, tls # EMPTY_POOL_PLACEHOLDER, autoreleaseFast(o),
         ~(tls = nil /\ DebugMissingPools),
         balance' = [balance EXCEPT ![o] = @ + 1], frames' = frames, fatal' = fatal, SameEnv
  PROVE  IInv'
<1>1. Typed /\ Layout /\ POOL_BOUNDARY \notin Objects /\ o \in Values
  BY AutoreleasePoolAssumption DEF IInv, Values
<1>2. PICK i \in Nat, s \in Nat :
        Grown(i, s, o) /\ Follows(i) /\ (i # tls /\ tls # nil => Len(pages[tls]) = COUNT)
  BY <1>1, FastOp
<1>3. /\ balance' \in [Objects -> Nat]
      /\ \A q \in Objects : balance'[q] = balance[q] + (IF o = q THEN 1 ELSE 0)
  BY DEF IInv, Typed
<1>4. Typed'
  BY <1>1, <1>2, <1>3 DEF Typed, Grown
<1>5. /\ Layout' /\ ColdBoundary' /\ PoolStarts' /\ NoLostRelease' /\ ~fatal' /\ Unplaced'
      /\ pages' # <<>> /\ pages'[tls'] # <<>> /\ tls' # nil /\ tls' # EMPTY_POOL_PLACEHOLDER
  <2>1. o # POOL_BOUNDARY
    BY <1>1
  <2> QED
    BY <1>2, <1>3, <1>4, <2>1, GrownCore
<1>6. Frames'
  <2>1. ASSUME NEW k \in 1 .. Len(frames') PROVE FrameOk(frames[k], k, Len(frames))'
    <3>1. PICK f, n : f = frames[k] /\ n = Len(frames)
      OBVIOUS
    <3>2. f \in FrameType /\ FrameOk(f, k, n) /\ (Pops(f) => k < n)
      BY <3>1, ClientOnTop
    <3>3. FrameOk(f, k, n)'
      BY <1>1, <1>2, <1>4, <3>2, GrownFrame
    <3> QED
      BY <3>1, <3>3
  <2> QED
    BY <2>1 DEF Frames
<1>7. Nesting'
  BY FramesStay
<1>8. ColdPool'
  <2>1. ASSUME DebugMissingPools PROVE ~(frames[1].tokens = <<>> /\ frames[1].pc = "client")
    BY <2>1 DEF IInv, ColdPool
  <2> QED
    BY <2>1 DEF IInv, ColdPool, SameEnv, TPage, TSlot, SlotOf
<1>9. Holes'
  <2>1. ASSUME DebugPoolAllocation, NEW j \in 1 .. Len(pages'), j < tls', pages'[j] = <<>>
        PROVE  \E k \in 2 .. Len(frames) : FirstAt(frames[k], j + 1)
    <3>1. /\ tls # nil /\ j \in 1 .. Len(pages) /\ pages[j] = <<>>
          /\ j < tls \/ (j = tls /\ i = tls + 1)
      BY <1>1, <1>2, <2>1, GrownHoles
    <3>2. j # tls
      <4>1. SUFFICES ASSUME j = tls PROVE FALSE
        OBVIOUS
      <4>2. Len(pages[tls]) = COUNT /\ Len(pages[tls]) = 0
        BY <1>1, <1>2, <3>1, <4>1, PagesType
      <4> QED
        BY <4>2, AutoreleasePoolAssumption
    <3> QED
      BY <2>1, <3>1, <3>2 DEF IInv, Holes
  <2> QED
    BY <2>1 DEF Holes, SameEnv, FirstAt, TPage, TSlot, SlotOf
<1>10. HotInUse' /\ FewPages'
  <2>1. HotInUse'
    BY <1>5 DEF HotInUse
  <2>2. FewPages'
    <3>1. SUFFICES ASSUME Len(frames) = 1, frames[1].pc = "client"
                   PROVE  Len(pages') <= tls' + 1 /\ (DebugPoolAllocation' => tls' = Len(pages'))
      BY DEF FewPages
    <3>2. (pages # <<>> => Len(pages) <= tls + 1) /\ (DebugPoolAllocation => tls = Len(pages))
      BY <3>1 DEF IInv, FewPages
    <3> QED
      BY <1>1, <1>2, <3>2, GrownFew
  <2> QED
    BY <2>1, <2>2
<1> QED
  BY <1>4, <1>5, <1>6, <1>7, <1>8, <1>9, <1>10 DEF IInv

\* The pool without a page gets one, with its boundary and x.
Placed(x) ==
  /\ pages = <<>> /\ tls' = 1 /\ ~DebugPoolAllocation
  /\ pages' \in Seq(Seq(Values)) /\ Len(pages') = 1 /\ Len(pages'[1]) = 2 /\ pages' # <<>> /\ pages'[1] # <<>>
  /\ \A j \in 1 .. Len(pages') : j = 1 /\ Len(pages'[j]) <= COUNT
  /\ \A j, r \in Nat : Used(j, r)' <=> j = 1 /\ r \in {1, 2}
  /\ \A j, r \in Nat : ~Used(j, r)
  /\ pages'[1][1] = POOL_BOUNDARY /\ pages'[1][2] = x
  /\ Len(frames) = 1 /\ frames[1] = Top /\ Top.pc = "client" /\ Top.tokens = <<Placeholder>>

LEMMA PlacedOp ==
  ASSUME IInv, tls = EMPTY_POOL_PLACEHOLDER, NEW x \in Values, autoreleaseNoPage(x)
  PROVE  Placed(x)
<1>1. pages = <<>> /\ Len(pages) = 0
  BY DEF IInv, Layout, EMPTY_POOL_PLACEHOLDER
<1>2. PICK q : q = <<POOL_BOUNDARY, x>>
  OBVIOUS
<1>3. q \in Seq(Values) /\ Len(q) = 2 /\ q[1] = POOL_BOUNDARY /\ q[2] = x /\ q # <<>>
  BY <1>2 DEF Values
<1>4. pages' = <<q>> /\ tls' = 1
  BY <1>2 DEF autoreleaseNoPage
<1>5. pages' \in Seq(Seq(Values)) /\ Len(pages') = 1 /\ pages'[1] = q /\ pages' # <<>>
  BY <1>3, <1>4
<1>6. \A j, r : ~Used(j, r)
  BY <1>1 DEF Used
<1>7. (\A j : j \in 1 .. 1 <=> j = 1) /\ (\A j : j \in 1 .. 2 <=> j \in {1, 2})
  OBVIOUS
<1>8. \A j, r \in Nat : Used(j, r)' <=> j = 1 /\ r \in {1, 2}
  BY <1>3, <1>5, <1>7 DEF Used
<1>9. \A j \in 1 .. Len(pages') : j = 1 /\ Len(pages'[j]) <= COUNT
  BY <1>3, <1>5, <1>7, AutoreleasePoolAssumption
<1>10. /\ ~DebugPoolAllocation /\ Len(frames) = 1 /\ frames[1] = Top /\ Top.pc = "client"
       /\ Top.tokens = <<Placeholder>>
  BY DEF IInv, Unplaced, Top
<1> QED
  BY <1>1, <1>3, <1>4, <1>5, <1>6, <1>8, <1>9, <1>10 DEF Placed

LEMMA PlacedCore ==
  ASSUME IInv, Typed', SameEnv, fatal' = fatal, NEW x, Placed(x),
         \A o \in Objects : balance'[o] = balance[o] + (IF x = o THEN 1 ELSE 0)
  PROVE  /\ Layout' /\ ColdBoundary' /\ PoolStarts' /\ NoLostRelease' /\ ~fatal' /\ Unplaced'
         /\ Holes' /\ HotInUse' /\ FewPages' /\ TokenOk(Placeholder)'
<1>1. Layout' /\ Unplaced'
  BY DEF Placed, Layout, Unplaced, SameEnv, EMPTY_POOL_PLACEHOLDER
<1>2. Boundary(1, 1)'
  BY DEF Placed, Boundary
<1>3. ColdBoundary' /\ PoolStarts' /\ HotInUse' /\ FewPages' /\ ~fatal'
  <2>1. ColdBoundary' /\ PoolStarts' /\ HotInUse' /\ ~fatal'
    BY <1>2 DEF ColdBoundary, PoolStarts, HotInUse, SameEnv, Placed, IInv
  <2>2. FewPages'
    BY DEF FewPages, SameEnv, Placed
  <2> QED
    BY <2>1, <2>2
<1>4. Holes'
  BY DEF Holes, SameEnv, Placed
<1>5. NoLostRelease'
  <2>1. \A j, r \in Nat : (Used(j, r)' <=> j = 1 /\ r \in {1, 2}) /\ ~Used(j, r)
    BY DEF Placed
  <2>2. pages'[1][1] = POOL_BOUNDARY /\ pages'[1][2] = x
    BY DEF Placed
  <2>3. ASSUME NEW o \in Objects PROVE balance'[o] = Cardinality(Of(o)')
    <3>1. PICK A, B : A = Of(o) /\ B = Of(o)'
      OBVIOUS
    <3>2. /\ \A j, r \in Nat : <<j, r>> \in A <=> Used(j, r) /\ pages[j][r] = o
          /\ \A p \in A : \E j, r \in Nat : p = <<j, r>>
      BY <3>1, TypedOfAre DEF OfAre, IInv
    <3>3. /\ \A j, r \in Nat : <<j, r>> \in B <=> Used(j, r)' /\ pages'[j][r] = o
          /\ \A p \in B : \E j, r \in Nat : p = <<j, r>>
      <4>1. OfAre'
        BY TypedOfAre, PTL
      <4> QED
        BY <3>1, <4>1 DEF OfAre
    <3>4. A = {}
      BY <2>1, <3>2
    <3>5. o # POOL_BOUNDARY
      BY AutoreleasePoolAssumption
    <3>6. \A j, r \in Nat : <<j, r>> \in B <=> j = 1 /\ r = 2 /\ x = o
      BY <2>1, <2>2, <3>3, <3>5
    <3>7. Cardinality(A) = 0 /\ Cardinality({}) = 0
      BY <3>4, FS_EmptySet
    <3>8. balance[o] = 0
      BY <3>1, <3>7, AccountIs DEF IInv
    <3>9. CASE x = o
      <4>1. PICK w : w = <<1, 2>>
        OBVIOUS
      <4>2. w \in B
        BY <3>6, <3>9, <4>1
      <4>3. ASSUME NEW p \in B PROVE p = w
        <5>1. PICK j \in Nat, r \in Nat : p = <<j, r>>
          BY <3>3
        <5> QED
          BY <3>6, <4>1, <5>1
      <4>4. B = {w}
        BY <4>2, <4>3
      <4>5. Cardinality({w}) = 1
        BY FS_Singleton
      <4> QED
        BY <3>1, <3>8, <3>9, <4>4, <4>5
    <3>10. CASE x # o
      <4>1. B = {}
        BY <3>3, <3>6, <3>10
      <4> QED
        BY <3>1, <3>7, <3>8, <3>10, <4>1
    <3> QED
      BY <3>9, <3>10
  <2>4. (\A o \in Objects : balance[o] = Cardinality(Of(o)))'
    BY <2>3
  <2> QED
    BY <2>4 DEF NoLostRelease, Of
<1>6. TokenOk(Placeholder)'
  <2>1. SameBelow(1, 1)
    BY DEF SameBelow, Placed, Before
  <2>2. NotAfter(1, 1, 1, 1) /\ 1 \in Nat
    BY DEF NotAfter
  <2>3. Under(pages, 1, 1)' = Under(pages, 1, 1)
    BY <2>1, <2>2, UnderSame DEF IInv
  <2>4. Placeholder.below = Under(pages, 1, 1)
    BY PlaceholderFacts DEF Placed
  <2>5. TPage(Placeholder) = 1 /\ TSlot(Placeholder) = 1
    BY PlaceholderFacts
  <2> QED
    BY <1>2, <2>3, <2>4, <2>5 DEF TokenOk, TPage, TSlot, SlotOf, Placeholder
<1> QED
  BY <1>1, <1>3, <1>4, <1>5, <1>6


\* With one frame of client code there is nothing to nest, and a pool that has
\* just been placed has its slots in order.
LEMMA OneFrame ==
  ASSUME Len(frames') = 1
  PROVE  Nesting'
<1>1. \A j, k \in 1 .. 1 : ~(j < k)
  OBVIOUS
<1> QED
  BY <1>1 DEF Nesting

LEMMA OneFrameOk ==
  ASSUME Len(frames') = 1, FrameOk(frames[1], 1, 1)'
  PROVE  Frames'
<1>1. \A k \in 1 .. Len(frames') : k = 1 /\ Len(frames') = 1
  OBVIOUS
<1>2. PICK f : f = frames'[1]
  OBVIOUS
<1>3. FrameOk(f, 1, 1)'
  BY <1>2
<1>4. ASSUME NEW k \in 1 .. Len(frames') PROVE FrameOk(frames[k], k, Len(frames))'
  BY <1>1, <1>2, <1>3
<1> QED
  BY <1>4 DEF Frames

LEMMA AutoreleaseStep ==
  ASSUME IInv, NEW o \in Objects, autorelease(o)
  PROVE  IInv'
<1>1. /\ InClientCode /\ frames' = frames /\ fatal' = fatal /\ env' = env
      /\ IF hotPage = nil /\ tls # EMPTY_POOL_PLACEHOLDER /\ DebugMissingPools
         THEN UNCHANGED <<pages, tls, balance>>
         ELSE autoreleaseFast(o) /\ balance' = [balance EXCEPT ![o] = @ + 1]
  BY DEF autorelease, Count
<1>2. SameEnv
  BY <1>1 DEF SameEnv, DebugPoolAllocation, DebugMissingPools
<1>3. Typed /\ Layout /\ o \in Values /\ o # POOL_BOUNDARY
  BY AutoreleasePoolAssumption DEF IInv, Values
<1>4. CASE hotPage = nil /\ tls # EMPTY_POOL_PLACEHOLDER /\ DebugMissingPools
  BY <1>1, <1>4, Stutter
<1>5. CASE ~(hotPage = nil /\ tls # EMPTY_POOL_PLACEHOLDER /\ DebugMissingPools)
  <2>1. autoreleaseFast(o) /\ balance' = [balance EXCEPT ![o] = @ + 1]
    BY <1>1, <1>5
  <2>2. CASE tls # EMPTY_POOL_PLACEHOLDER
    <3>1. hotPage = tls
      BY <2>2 DEF hotPage
    <3> QED
      BY <1>1, <1>2, <1>5, <2>1, <2>2, <3>1, AddObject
  <2>3. CASE tls = EMPTY_POOL_PLACEHOLDER
    <3>1. autoreleaseNoPage(o)
      BY <2>1, <2>3 DEF autoreleaseFast, hotPage
    <3>2. Placed(o)
      BY <1>3, <2>3, <3>1, PlacedOp
    <3>3. /\ balance' \in [Objects -> Nat]
          /\ \A q \in Objects : balance'[q] = balance[q] + (IF o = q THEN 1 ELSE 0)
      BY <1>3, <2>1 DEF Typed
    <3>4. Typed'
      BY <1>1, <1>3, <3>2, <3>3 DEF Typed, Placed
    <3>5. /\ Layout' /\ ColdBoundary' /\ PoolStarts' /\ NoLostRelease' /\ ~fatal' /\ Unplaced'
          /\ Holes' /\ HotInUse' /\ FewPages' /\ TokenOk(Placeholder)'
      BY <1>1, <1>2, <3>2, <3>3, <3>4, PlacedCore
    <3>6. PICK f \in FrameType : f = frames[1] /\ f = Top /\ f.pc = "client" /\ f.tokens = <<Placeholder>>
      BY <1>3, <3>2, FramesType DEF Placed
    <3>7. Len(f.tokens) = 1 /\ f.tokens[1] = Placeholder /\ f.tokens # <<>> /\ Len(frames) = 1
      BY <3>2, <3>6 DEF Placed
    <3>8. FrameOk(f, 1, 1)
      <4>1. 1 \in 1 .. Len(frames)
        BY <3>7
      <4> QED
        BY <1>1, <3>6, <3>7, <4>1, ClientOnTop
    <3>9. FrameOk(f, 1, 1)'
      <4>1. \A m \in 1 .. Len(f.tokens) : f.tokens[m] = Placeholder
        BY <3>7
      <4>2. \A m \in 1 .. Len(f.tokens) : TokenOk(f.tokens[m])'
        BY <3>5, <4>1
      <4>3. WorkOk(f, 1, 1)'
        BY <3>6, <3>8 DEF FrameOk, WorkOk, Pops, nil
      <4> QED
        BY <3>8, <4>2, <4>3, InFrameStays DEF FrameOk
    <3>10. Frames' /\ Nesting'
      BY <1>1, <3>6, <3>7, <3>9, OneFrame, OneFrameOk
    <3>11. ColdPool'
      <4>1. TPage(f.tokens[1]) = 1 /\ TSlot(f.tokens[1]) = 1
        BY <3>7, PlaceholderFacts
      <4> QED
        BY <1>1, <3>6, <3>7, <4>1 DEF ColdPool, TPage, TSlot, SlotOf
    <3> QED
      BY <3>4, <3>5, <3>10, <3>11 DEF IInv
  <2> QED
    BY <2>2, <2>3
<1> QED
  BY <1>4, <1>5

\* The last page goes, or none was there.
Cleared == /\ pages' = <<>> /\ \A j, r \in Nat : ~Used(j, r)
           /\ tls' \in {nil, EMPTY_POOL_PLACEHOLDER}
           /\ DebugPoolAllocation => tls' = nil
           /\ Len(frames') = 1

LEMMA ClearedCore ==
  ASSUME IInv, Typed', SameEnv, fatal' = fatal, balance' = balance, Cleared
  PROVE  /\ Layout' /\ ColdBoundary' /\ PoolStarts' /\ NoLostRelease' /\ ~fatal' /\ Nesting'
         /\ Holes' /\ HotInUse' /\ FewPages'
<1>1. Len(pages') = 0 /\ \A j, r : ~Used(j, r)'
  <2>1. Len(pages') = 0
    BY DEF Cleared
  <2> QED
    BY <2>1 DEF Used
<1>2. Layout' /\ Nesting' /\ ~fatal'
  BY OneFrame DEF Layout, Cleared, IInv
<1>3. ColdBoundary' /\ PoolStarts' /\ Holes'
  BY <1>1 DEF ColdBoundary, PoolStarts, Holes, Boundary, Cleared
<1>4. HotInUse' /\ FewPages'
  BY <1>1 DEF HotInUse, FewPages, Cleared, SameEnv, nil
<1>5. NoLostRelease'
  <2>1. ASSUME NEW o \in Objects PROVE balance'[o] = Cardinality(Of(o)')
    <3>1. PICK A, B : A = Of(o) /\ B = Of(o)'
      OBVIOUS
    <3>2. /\ \A j, r \in Nat : <<j, r>> \in A <=> Used(j, r) /\ pages[j][r] = o
          /\ \A p \in A : \E j, r \in Nat : p = <<j, r>>
      BY <3>1, TypedOfAre DEF OfAre, IInv
    <3>3. /\ \A j, r \in Nat : <<j, r>> \in B <=> Used(j, r)' /\ pages'[j][r] = o
          /\ \A p \in B : \E j, r \in Nat : p = <<j, r>>
      <4>1. OfAre'
        BY TypedOfAre, PTL
      <4> QED
        BY <3>1, <4>1 DEF OfAre
    <3>4. A = {}
      <4>1. \A j, r \in Nat : ~Used(j, r)
        BY DEF Cleared
      <4> QED
        BY <3>2, <4>1
    <3>5. B = {}
      BY <1>1, <3>3
    <3> QED
      BY <3>1, <3>4, <3>5, AccountIs DEF IInv
  <2>2. (\A o \in Objects : balance[o] = Cardinality(Of(o)))'
    BY <2>1
  <2> QED
    BY <2>2 DEF NoLostRelease, Of
<1> QED
  BY <1>2, <1>3, <1>4, <1>5

\* Without a page there is no pop in progress, and no pool but the placeholder.
LEMMA NoPageFrames ==
  ASSUME IInv, InClientCode, tls = nil
  PROVE  Len(frames) = 1 /\ Top.tokens = <<>> /\ pages = <<>> /\ \A j, r \in Nat : ~Used(j, r)
<1>1. /\ Len(frames) \in Nat /\ Len(frames) >= 1 /\ Top = frames[Len(frames)] /\ Top \in FrameType
      /\ Len(frames) \in 1 .. Len(frames)
  BY FramesType DEF IInv
<1>2. pages = <<>> /\ Len(pages) = 0
  BY DEF IInv, Layout, nil, EMPTY_POOL_PLACEHOLDER
<1>3. \A j, r : ~Used(j, r)
  BY <1>2 DEF Used
<1>4. Len(frames) = 1
  <2>1. SUFFICES ASSUME Len(frames) # 1 PROVE FALSE
    OBVIOUS
  <2>2. 1 \in 1 .. Len(frames) /\ 1 < Len(frames)
    <3>1. PICK n \in Nat : n = Len(frames) /\ n >= 1 /\ n # 1
      BY <1>1, <2>1
    <3>2. 1 \in 1 .. n /\ 1 < n
      BY ONLY <3>1
    <3> QED
      BY <3>1, <3>2
  <2>3. Pops(frames[1]) /\ FrameOk(frames[1], 1, Len(frames)) /\ frames[1] \in FrameType
    BY <2>2, ClientOnTop
  <2>4. 1 <= frames[1].this /\ frames[1].this <= tls
    BY <2>3 DEF FrameOk, WorkOk
  <2>5. frames[1].this \in Nat
    BY <2>3, TokensType
  <2> QED
    BY <2>4, <2>5 DEF nil
<1>5. Top.tokens = <<>>
  <2>1. SUFFICES ASSUME Top.tokens # <<>> PROVE FALSE
    OBVIOUS
  <2>2. 1 \in 1 .. Len(Top.tokens)
    BY <1>1, <2>1, TokensType
  <2>3. TokenOk(Top.tokens[1])
    BY <1>1, <2>2, ClientOnTop DEF FrameOk
  <2> QED
    BY <1>3, <2>3 DEF TokenOk, Boundary, nil, EMPTY_POOL_PLACEHOLDER
<1> QED
  BY <1>2, <1>3, <1>4, <1>5

LEMMA PushPlaceholderStep ==
  ASSUME IInv, PushPlaceholder
  PROVE  IInv'
<1>1. /\ InClientCode /\ fatal' = fatal /\ env' = env /\ balance' = balance /\ pages' = pages
      /\ tls = nil /\ ~DebugPoolAllocation /\ tls' = EMPTY_POOL_PLACEHOLDER
      /\ SetTop(Frame("client", Append(Top.tokens, Placeholder)))
  BY DEF PushPlaceholder, Count, PushToken
<1>2. SameEnv
  BY <1>1 DEF SameEnv, DebugPoolAllocation, DebugMissingPools
<1>3. Len(frames) = 1 /\ Top.tokens = <<>> /\ pages = <<>> /\ \A j, r \in Nat : ~Used(j, r)
  BY <1>1, NoPageFrames
<1>4. PICK t : t = Append(Top.tokens, Placeholder)
  OBVIOUS
<1>5. t = <<Placeholder>> /\ t \in Seq(TokenType) /\ Len(t) = 1 /\ t[1] = Placeholder /\ t # <<>>
  BY <1>3, <1>4, PlaceholderFacts
<1>6. PICK f : f = Frame("client", t)
  OBVIOUS
<1>7. f \in FrameType /\ f.pc = "client" /\ f.tokens = t /\ f.this = nil
  BY <1>5, <1>6, FrameFacts
<1>8. /\ frames' \in Seq(FrameType) /\ Len(frames') = 1 /\ frames'[1] = f /\ Top' = f
  BY <1>1, <1>3, <1>4, <1>6, <1>7, SetTopOp DEF TopIs, IInv
<1>9. Typed'
  BY <1>1, <1>8 DEF IInv, Typed
<1>10. Cleared
  BY <1>1, <1>3, <1>8 DEF Cleared
<1>11. /\ Layout' /\ ColdBoundary' /\ PoolStarts' /\ NoLostRelease' /\ ~fatal' /\ Nesting'
       /\ Holes' /\ HotInUse' /\ FewPages'
  BY <1>1, <1>2, <1>9, <1>10, ClearedCore
<1>12. Unplaced'
  BY <1>1, <1>2, <1>5, <1>7, <1>8 DEF Unplaced, SameEnv
<1>13. TokenOk(Placeholder)'
  <2>1. Under(pages, 1, 1)' = Placeholder.below
    BY <1>1, <1>3, PlaceholderFacts
  <2>2. TPage(Placeholder)' = 1 /\ TSlot(Placeholder)' = 1
    BY PlaceholderFacts DEF TPage, TSlot, SlotOf
  <2> QED
    BY <1>1, <2>1, <2>2 DEF TokenOk
<1>14. FrameOk(f, 1, 1)'
  <2>1. \A m \in 1 .. Len(f.tokens) : f.tokens[m] = Placeholder /\ m = 1
    BY <1>5, <1>7
  <2>2. \A m \in 1 .. Len(f.tokens) : TokenOk(f.tokens[m])'
    BY <1>13, <2>1
  <2>3. WorkOk(f, 1, 1)'
    BY <1>7 DEF WorkOk, Pops
  <2>4. InFrame(f)'
    BY <1>7, <2>1 DEF InFrame, Pops
  <2> QED
    BY <2>2, <2>3, <2>4 DEF FrameOk
<1>15. Frames'
  BY <1>8, <1>14, OneFrameOk
<1>16. ColdPool'
  <2>1. TPage(f.tokens[1])' = 1 /\ TSlot(f.tokens[1])' = 1
    BY <1>5, <1>7, PlaceholderFacts DEF TPage, TSlot, SlotOf
  <2> QED
    BY <1>5, <1>7, <1>8, <2>1 DEF ColdPool
<1> QED
  BY <1>9, <1>11, <1>12, <1>15, <1>16 DEF IInv

LEMMA PopPlaceholderStep ==
  ASSUME IInv, PopPlaceholder
  PROVE  IInv'
<1>1. /\ InClientCode /\ fatal' = fatal /\ env' = env /\ balance' = balance /\ pages' = pages
      /\ Top.tokens # <<>> /\ hotPage = nil /\ tls' = nil /\ SetTop(Frame("client", <<>>))
  BY DEF PopPlaceholder
<1>2. SameEnv
  BY <1>1 DEF SameEnv, DebugPoolAllocation, DebugMissingPools
<1>3. tls = EMPTY_POOL_PLACEHOLDER
  BY <1>1, NoPageFrames DEF hotPage
<1>4. Len(frames) = 1 /\ pages = <<>> /\ Len(pages) = 0
  BY <1>3 DEF IInv, Unplaced, Layout, EMPTY_POOL_PLACEHOLDER
<1>5. \A j, r \in Nat : ~Used(j, r)
  BY <1>4 DEF Used
<1>6. PICK f : f = Frame("client", <<>>)
  OBVIOUS
<1>7. <<>> \in Seq(TokenType)
  OBVIOUS
<1>8. f \in FrameType /\ f.pc = "client" /\ f.tokens = <<>> /\ f.this = nil
  BY <1>6, <1>7, FrameFacts
<1>9. /\ frames' \in Seq(FrameType) /\ Len(frames') = 1 /\ frames'[1] = f /\ Top' = f
  BY <1>1, <1>4, <1>6, <1>8, SetTopOp DEF TopIs, IInv
<1>10. Typed'
  BY <1>1, <1>9 DEF IInv, Typed, nil
<1>11. Cleared
  BY <1>1, <1>4, <1>5, <1>9 DEF Cleared
<1>12. /\ Layout' /\ ColdBoundary' /\ PoolStarts' /\ NoLostRelease' /\ ~fatal' /\ Nesting'
       /\ Holes' /\ HotInUse' /\ FewPages'
  BY <1>1, <1>2, <1>10, <1>11, ClearedCore
<1>13. FrameOk(f, 1, 1)'
  <2>1. \A m : m \notin 1 .. Len(f.tokens)
    BY <1>8
  <2> QED
    BY <1>8, <2>1 DEF FrameOk, WorkOk, InFrame, Pops
<1>14. Frames'
  BY <1>9, <1>13, OneFrameOk
<1>15. ColdPool' /\ Unplaced'
  BY <1>1, <1>4, <1>8, <1>9 DEF ColdPool, Unplaced, nil, EMPTY_POOL_PLACEHOLDER
<1> QED
  BY <1>10, <1>12, <1>14, <1>15 DEF IInv

\* The token of a pool whose boundary has just been added.
LEMMA UnderType ==
  ASSUME NEW pgs \in Seq(Seq(Values)), NEW j, NEW r
  PROVE  Under(pgs, j, r) \in Belows
<1>1. PICK S : S = {p \in Slots(pgs) : p[1] < j \/ (p[1] = j /\ p[2] < r)}
  OBVIOUS
<1>2. Under(pgs, j, r) = [p \in S |-> pgs[p[1]][p[2]]]
  BY <1>1 DEF Under
<1>3. ASSUME NEW p \in S PROVE p \in Nat \X Nat /\ pgs[p[1]][p[2]] \in Values
  <2>1. PICK i \in Nat, s \in Nat : p = <<i, s>>
    BY <1>1, SlotsAre
  <2>2. i \in 1 .. Len(pgs) /\ s \in 1 .. Len(pgs[i])
    BY <1>1, <2>1, SlotsAre
  <2>3. PICK q \in Seq(Values) : q = pgs[i]
    BY <2>2
  <2>4. q[s] \in Values
    BY <2>2, <2>3
  <2> QED
    BY <2>1, <2>3, <2>4
<1>4. S \in SUBSET (Nat \X Nat) /\ [p \in S |-> pgs[p[1]][p[2]]] \in [S -> Values]
  BY <1>3
<1> QED
  BY <1>2, <1>4 DEF Belows

LEMMA NewTokenFacts ==
  ASSUME NEW i \in Nat, NEW s \in Nat, NEW below, below \in Belows,
         NEW token, token = [page |-> i, slot |-> s, below |-> below]
  PROVE  token \in TokenType /\ TPage(token) = i /\ TSlot(token) = s /\ token.below = below
<1>1. token \in TokenType /\ token.page = i /\ token.slot = s /\ token.below = below
  BY DEF TokenType
<1>2. token.page # EMPTY_POOL_PLACEHOLDER
  BY <1>1 DEF EMPTY_POOL_PLACEHOLDER
<1> QED
  BY <1>1, <1>2, TokenFacts

\* A client frame with one more token.
Pushed(f, g, token) ==
  /\ g \in FrameType /\ g.pc = "client" /\ g.this = nil
  /\ Len(g.tokens) = Len(f.tokens) + 1 /\ g.tokens # <<>>
  /\ g.tokens[Len(f.tokens) + 1] = token
  /\ \A m \in 1 .. Len(f.tokens) : m \in 1 .. Len(g.tokens) /\ g.tokens[m] = f.tokens[m]
  /\ \A m \in 1 .. Len(g.tokens) : m \in 1 .. Len(f.tokens) \/ m = Len(f.tokens) + 1

LEMMA PushedOp ==
  ASSUME NEW f \in FrameType, NEW token \in TokenType, NEW g, g = Frame("client", Append(f.tokens, token))
  PROVE  Pushed(f, g, token)
<1>1. PICK t \in Seq(TokenType) : t = f.tokens
  BY TokensType
<1>2. PICK u : u = Append(t, token)
  OBVIOUS
<1>3. PICK n \in Nat : n = Len(t)
  BY <1>1
<1>4. u \in Seq(TokenType) /\ Len(u) = n + 1 /\ u[n + 1] = token /\ \A m \in 1 .. n : u[m] = t[m]
  BY <1>2, <1>3
<1>5. u # <<>>
  BY <1>3, <1>4
<1>6. g \in FrameType /\ g.pc = "client" /\ g.tokens = u /\ g.this = nil
  <2>1. g = Frame("client", u)
    BY <1>1, <1>2
  <2>2. u \in Seq(TokenType)
    BY <1>4
  <2> QED
    BY ONLY <2>1, <2>2, FrameFacts
<1>7. (\A m \in 1 .. n : m \in 1 .. n + 1) /\ \A m \in 1 .. n + 1 : m \in 1 .. n \/ m = n + 1
  BY <1>3
<1> QED
  BY <1>1, <1>3, <1>4, <1>5, <1>6, <1>7 DEF Pushed

\* The new token is in order with those of its frame.
LEMMA PushedFrame ==
  ASSUME Typed, NEW f \in FrameType, NEW g, NEW token, Pushed(f, g, token), NEW k \in Nat,
         InFrame(f), TokenOk(token)', \A m \in 1 .. Len(f.tokens) : TokenOk(f.tokens[m])',
         \A m \in 1 .. Len(f.tokens) :
           Before(TPage(f.tokens[m]), TSlot(f.tokens[m]), TPage(token), TSlot(token))
  PROVE  FrameOk(g, k, k)'
<1>1. PICK n \in Nat : n = Len(f.tokens)
  BY TokensType
<1>2. \A m \in 1 .. Len(g.tokens) : TokenOk(g.tokens[m])'
  BY DEF Pushed
<1>3. WorkOk(g, k, k)'
  BY DEF WorkOk, Pushed, Pops
<1>4. InFrame(g)
  <2>1. ~Pops(g)
    BY DEF Pops, Pushed
  <2>2. ASSUME NEW v \in 1 .. Len(g.tokens), NEW m \in 1 .. Len(g.tokens), m < v
        PROVE  Before(TPage(g.tokens[m]), TSlot(g.tokens[m]), TPage(g.tokens[v]), TSlot(g.tokens[v]))
    <3>1. Len(g.tokens) = n + 1
      BY <1>1 DEF Pushed
    <3>2. m \in 1 .. n
      BY <1>1, <2>2, <3>1
    <3>3. g.tokens[m] = f.tokens[m]
      BY <1>1, <3>2 DEF Pushed
    <3>4. CASE v \in 1 .. n
      <4>1. g.tokens[v] = f.tokens[v]
        BY <1>1, <3>4 DEF Pushed
      <4> QED
        BY <1>1, <2>2, <3>2, <3>3, <3>4, <4>1 DEF InFrame
    <3>5. CASE v = n + 1
      <4>1. g.tokens[v] = token
        BY <1>1, <3>5 DEF Pushed
      <4> QED
        BY <1>1, <3>2, <3>3, <4>1
    <3> QED
      BY <1>1, <3>1, <3>4, <3>5
  <2> QED
    BY <2>1, <2>2 DEF InFrame
<1> QED
  BY <1>2, <1>3, <1>4, InFrameStays DEF FrameOk

\* A pool is pushed on a stack that has a page, or as the first one.
LEMMA GrownPush ==
  ASSUME IInv, InClientCode, tls # EMPTY_POOL_PLACEHOLDER, SameEnv, fatal' = fatal, balance' = balance,
         NEW i, NEW s, Grown(i, s, POOL_BOUNDARY), Follows(i),
         DebugPoolAllocation => s = 1, DebugPoolAllocation /\ tls # nil => i = tls + 1,
         PushToken([page |-> i, slot |-> s, below |-> Under(pages', i, s)])
  PROVE  IInv'
<1> PICK n \in Nat : n = Len(frames) /\ n >= 1 /\ n \in 1 .. n
  BY FramesType DEF IInv
<1>1. /\ Typed /\ Layout /\ Nesting /\ ColdPool /\ ColdBoundary /\ HotInUse /\ FewPages /\ Holes
      /\ i \in Nat /\ s \in Nat /\ i >= 1 /\ s >= 1 /\ pages' \in Seq(Seq(Values)) /\ tls' = i
  BY DEF IInv, Grown
<1>2. PICK b : b = Under(pages', i, s) /\ b \in Belows
  BY <1>1, UnderType
<1>3. PICK token : token = [page |-> i, slot |-> s, below |-> b]
  OBVIOUS
<1>4. token \in TokenType /\ TPage(token) = i /\ TSlot(token) = s /\ token.below = b
  BY <1>1, <1>2, <1>3, NewTokenFacts
<1>5. PICK f \in FrameType : f = Top /\ f = frames[n]
  BY <1>1, FramesType
<1>6. PICK g : g = Frame("client", Append(f.tokens, token))
  OBVIOUS
<1>7. Pushed(f, g, token)
  BY <1>4, <1>6, PushedOp
<1>8. SetTop(g) /\ g \in FrameType
  BY <1>2, <1>3, <1>5, <1>6, <1>7 DEF PushToken, Pushed
<1>9. /\ frames' \in Seq(FrameType) /\ Len(frames') = n /\ Len(frames') >= 1
      /\ frames'[n] = g /\ Top' = g
      /\ \A k \in 1 .. n : k < n => frames'[k] = frames[k]
  BY <1>1, <1>8, SetTopOp DEF TopIs
<1>10. Typed'
  BY <1>1, <1>9 DEF Typed, Grown
<1>11. /\ Layout' /\ ColdBoundary' /\ PoolStarts' /\ NoLostRelease' /\ ~fatal' /\ Unplaced'
       /\ pages' # <<>> /\ pages'[tls'] # <<>> /\ tls' # nil /\ tls' # EMPTY_POOL_PLACEHOLDER
  <2>1. \A o \in Objects : o # POOL_BOUNDARY /\ balance[o] \in Nat
    BY <1>1, AutoreleasePoolAssumption DEF Typed
  <2>2. \A o \in Objects : balance'[o] = balance[o] + (IF POOL_BOUNDARY = o THEN 1 ELSE 0)
    BY <2>1
  <2>3. PICK x : x = POOL_BOUNDARY
    OBVIOUS
  <2> QED
    BY <1>10, <2>2, <2>3, GrownCore
<1>12. f.pc = "client" /\ \A k \in 1 .. n : /\ frames[k] \in FrameType
                                           /\ FrameOk(frames[k], k, n)
                                           /\ Pops(frames[k]) <=> k < n
  BY <1>5, ClientOnTop
<1>13. TokenOk(token)'
  <2>1. Boundary(i, s)'
    BY <1>1 DEF Grown, Boundary
  <2>2. TPage(token)' = i /\ TSlot(token)' = s
    BY <1>4 DEF TPage, TSlot, SlotOf
  <2> QED
    BY <1>1, <1>2, <1>4, <2>1, <2>2 DEF TokenOk, SameEnv
<1>14. FrameOk(g, n, n)'
  <2>1. FrameOk(f, n, n)
    <3>1. \A k \in 1 .. n : FrameOk(frames[k], k, n)
      BY DEF IInv, Frames
    <3>2. n \in 1 .. n
      OBVIOUS
    <3> QED
      BY ONLY <1>5, <3>1, <3>2
  <2>2. ASSUME NEW m \in 1 .. Len(f.tokens)
        PROVE  TokenOk(f.tokens[m])' /\ Before(TPage(f.tokens[m]), TSlot(f.tokens[m]), i, s)
    <3>1. PICK t \in TokenType : t = f.tokens[m] /\ TPage(t) \in Nat /\ TSlot(t) \in Nat
      BY TokensType
    <3>2. TokenOk(t)
      BY <2>1, <3>1 DEF FrameOk
    <3>3. TokenOk(t)'
      BY <1>1, <1>10, <3>2, GrownToken
    <3>4. Boundary(TPage(t), TSlot(t))
      BY <3>2 DEF TokenOk
    <3>5. Before(TPage(t), TSlot(t), i, s)
      BY <3>1, <3>4, GrownSame
    <3> QED
      BY <3>1, <3>3, <3>5
  <2>3. InFrame(f)
    BY <2>1 DEF FrameOk
  <2> QED
    BY <1>1, <1>4, <1>7, <1>13, <2>2, <2>3, PushedFrame
<1>15. Frames'
  <2>1. ASSUME NEW k \in 1 .. Len(frames') PROVE FrameOk(frames[k], k, Len(frames))'
    <3>1. k \in 1 .. n /\ (k = n \/ k < n)
      BY <1>9
    <3>2. CASE k = n
      BY <1>9, <1>14, <3>2
    <3>3. CASE k < n
      <4>1. PICK h \in FrameType : h = frames[k] /\ h = frames'[k] /\ FrameOk(h, k, n)
        BY <1>9, <1>12, <3>1, <3>3
      <4>2. FrameOk(h, k, n)'
        BY <1>1, <1>10, <3>3, <4>1, GrownFrame
      <4> QED
        BY <1>9, <4>1, <4>2
    <3> QED
      BY <3>1, <3>2, <3>3
  <2> QED
    BY <2>1 DEF Frames
<1>16. Nesting'
  <2>1. ASSUME NEW k \in 1 .. n, k < n PROVE Above(frames[k], i, s)
    <3>1. PICK h \in FrameType : h = frames[k] /\ Pops(h) /\ FrameOk(h, k, n) /\ h.this \in Nat /\ h.stop \in Nat
      BY <1>12, <2>1, TokensType
    <3>2. WorkOk(h, k, n)
      BY <3>1 DEF FrameOk
    <3>3. tls \in Nat /\ tls >= 1 /\ tls # nil /\ pages # <<>>
      <4>1. 1 <= h.this /\ h.this <= tls
        BY <3>1, <3>2 DEF WorkOk
      <4>2. tls \in Nat /\ (tls # nil => tls \in 1 .. Len(pages))
        BY <1>1, HotPageIs
      <4>3. tls >= 1 /\ tls # nil
        BY <3>1, <4>1, <4>2 DEF nil
      <4> QED
        BY <4>2, <4>3, <1>1, PagesType
    <3>4. CASE h.pc = "releasing"
      <4>1. Boundary(h.this, h.stop)
        BY <2>1, <3>2, <3>4 DEF WorkOk
      <4>2. Before(h.this, h.stop, i, s)
        BY <3>1, <4>1, GrownSame
      <4> QED
        BY <3>1, <4>2 DEF Above
    <3>5. CASE h.pc = "exiting"
      <4>1. h.this = 1 /\ h.stop = 1
        BY <3>2, <3>5 DEF WorkOk
      <4>2. CASE DebugPoolAllocation
        <5>1. i = tls + 1 /\ 1 < i
          BY <1>1, <3>3, <4>2
        <5> QED
          BY <3>1, <4>1, <5>1 DEF Above, Before
      <4>3. CASE DebugMissingPools
        <5>1. Boundary(1, 1)
          BY <1>1, <3>3, <4>3, ClientOnTop DEF ColdBoundary
        <5>2. Before(1, 1, i, s)
          BY <5>1, GrownSame
        <5> QED
          BY <3>1, <4>1, <5>2 DEF Above
      <4>4. CASE ~DebugPoolAllocation /\ ~DebugMissingPools
        BY <1>1, <3>1, <3>5, <4>4 DEF Above
      <4> QED
        BY <4>2, <4>3, <4>4
    <3> QED
      BY <3>1, <3>4, <3>5 DEF Pops
  <2>2. ASSUME NEW j \in 1 .. Len(frames'), NEW k \in 1 .. Len(frames'), j < k
        PROVE  Nested(frames[j], frames[k])'
    <3>1. j \in 1 .. n /\ k \in 1 .. n /\ j < n /\ frames'[j] = frames[j] /\ (k = n \/ k < n)
      BY <1>9, <2>2
    <3>2. PICK h : h = frames[j]
      OBVIOUS
    <3>3. Nested(h, frames[k])
      BY <1>1, <2>2, <3>1, <3>2 DEF Nesting
    <3>4. CASE k < n
      <4>1. PICK e : e = frames[k] /\ e = frames'[k]
        BY <1>9, <3>1, <3>4
      <4>2. Nested(h, e)'
        BY <3>3, <4>1, NestedStays
      <4> QED
        BY <3>1, <3>2, <4>1, <4>2
    <3>5. CASE k = n
      <4>1. Nested(h, f)
        BY <1>5, <3>3, <3>5
      <4>2. Above(h, i, s)
        BY <2>1, <3>1, <3>2
      <4>3. ~Pops(g)
        BY <1>7 DEF Pops, Pushed
      <4>4. \A m \in 1 .. Len(g.tokens) : Above(h, TPage(g.tokens[m]), TSlot(g.tokens[m]))
        BY <1>4, <1>7, <4>1, <4>2 DEF Nested, Pushed
      <4>5. Nested(h, g)
        BY <4>3, <4>4 DEF Nested
      <4>6. Nested(h, g)'
        BY <4>5, NestedStays
      <4> QED
        BY <1>9, <3>1, <3>2, <3>5, <4>6
    <3> QED
      BY <3>1, <3>4, <3>5
  <2> QED
    BY <2>2 DEF Nesting
<1>17. ColdPool'
  <2>1. SUFFICES ASSUME DebugMissingPools PROVE ColdPool'
    BY DEF ColdPool, SameEnv
  <2>2. CASE n = 1
    <3>1. f = frames[1] /\ frames'[1] = g /\ g.tokens # <<>> /\ g.pc = "client"
      BY <1>5, <1>7, <1>9, <2>2 DEF Pushed
    <3>2. TPage(g.tokens[1]) = 1 /\ TSlot(g.tokens[1]) = 1
      <4>1. PICK c \in Nat : c = Len(f.tokens) /\ (f.tokens = <<>> <=> c = 0)
        BY TokensType
      <4>2. CASE f.tokens # <<>>
        <5>1. 1 \in 1 .. c
          BY <4>1, <4>2
        <5>2. g.tokens[1] = f.tokens[1]
          BY <1>7, <4>1, <5>1 DEF Pushed
        <5> QED
          BY <1>1, <2>1, <3>1, <4>2, <5>2 DEF ColdPool
      <4>3. CASE f.tokens = <<>>
        <5>1. g.tokens[1] = token
          BY <1>7, <4>1, <4>3 DEF Pushed
        <5>2. pages = <<>> /\ tls = nil
          BY <1>1, <1>12, <2>1, <3>1, <4>3 DEF ColdPool
        <5>3. i = 1
          BY <5>2 DEF Follows
        <5>4. \A j, r \in Nat : ~Used(j, r)
          BY <5>2 DEF Used
        <5>5. Used(1, 1)'
          BY <1>1, <5>3 DEF Grown, Used
        <5>6. s = 1
          BY <5>3, <5>4, <5>5 DEF Grown
        <5> QED
          BY <1>4, <5>1, <5>3, <5>6
      <4> QED
        BY <4>2, <4>3
    <3> QED
      BY <3>1, <3>2 DEF ColdPool, TPage, TSlot, SlotOf
  <2>3. CASE n # 1
    <3>1. 1 \in 1 .. n /\ 1 < n
      BY <2>3
    <3>2. PICK h : h = frames[1] /\ h = frames'[1] /\ Pops(h)
      BY <1>9, <1>12, <3>1
    <3>3. h.pc # "client"
      BY <3>2 DEF Pops
    <3> QED
      BY <1>1, <2>1, <3>2, <3>3 DEF ColdPool, TPage, TSlot, SlotOf
  <2> QED
    BY <2>2, <2>3
<1>18. Holes'
  <2>1. ASSUME DebugPoolAllocation, NEW j \in 1 .. Len(pages'), j < tls', pages'[j] = <<>>
        PROVE  \E k \in 2 .. n : FirstAt(frames'[k], j + 1)
    <3>1. /\ tls # nil /\ j \in 1 .. Len(pages) /\ pages[j] = <<>>
          /\ j < tls \/ (j = tls /\ i = tls + 1)
      BY <1>1, <2>1, GrownHoles
    <3>2. PICK c \in Nat : c = Len(f.tokens) /\ (f.tokens = <<>> <=> c = 0)
      BY TokensType
    <3>3. CASE j < tls
      <4>1. PICK k \in 2 .. n : FirstAt(frames[k], j + 1)
        BY <1>1, <2>1, <3>1, <3>3 DEF Holes
      <4>2. CASE k < n
        <5>1. frames'[k] = frames[k]
          BY <1>9, <4>2
        <5> QED
          BY <4>1, <5>1
      <4>3. CASE k = n
        <5>1. FirstAt(f, j + 1) /\ frames'[k] = g
          BY <1>5, <1>9, <4>1, <4>3
        <5>2. f.tokens # <<>>
          BY <1>12, <5>1 DEF FirstAt
        <5>3. 1 \in 1 .. c
          BY <3>2, <5>2
        <5>4. g.tokens[1] = f.tokens[1] /\ g.tokens # <<>>
          BY <1>7, <3>2, <5>3 DEF Pushed
        <5>5. FirstAt(g, j + 1)
          BY <5>1, <5>2, <5>4 DEF FirstAt
        <5> QED
          BY <5>1, <5>5
      <4> QED
        BY <4>2, <4>3
    <3>4. CASE j = tls /\ i = tls + 1
      <4>1. n # 1 /\ f.tokens = <<>>
        BY <1>1, <1>5, <1>12, <2>1, <3>1, <3>4 DEF HotInUse
      <4>2. g.tokens[1] = token /\ g.tokens # <<>>
        BY <1>7, <3>2, <4>1 DEF Pushed
      <4>3. FirstAt(g, j + 1)
        BY <1>4, <2>1, <3>4, <4>2 DEF FirstAt
      <4>4. n \in 2 .. n
        BY <4>1
      <4> QED
        BY <1>9, <4>3, <4>4
    <3> QED
      BY <3>1, <3>3, <3>4
  <2> QED
    BY <1>9, <2>1 DEF Holes, SameEnv, FirstAt, TPage, TSlot, SlotOf
<1>19. HotInUse' /\ FewPages'
  <2>1. HotInUse'
    BY <1>11 DEF HotInUse
  <2>2. FewPages'
    <3>1. SUFFICES ASSUME n = 1
                   PROVE  Len(pages') <= tls' + 1 /\ (DebugPoolAllocation' => tls' = Len(pages'))
      BY <1>9 DEF FewPages
    <3>2. (pages # <<>> => Len(pages) <= tls + 1) /\ (DebugPoolAllocation => tls = Len(pages))
      BY <1>1, <1>5, <1>12, <3>1 DEF FewPages
    <3> QED
      BY <1>1, <3>2, GrownFew
  <2> QED
    BY <2>1, <2>2
<1> QED
  BY <1>10, <1>11, <1>15, <1>16, <1>17, <1>18, <1>19 DEF IInv

\* A pool is pushed on the placeholder, which gets its page first.
LEMMA PlacedPush ==
  ASSUME IInv, InClientCode, tls = EMPTY_POOL_PLACEHOLDER, SameEnv, fatal' = fatal, balance' = balance,
         Placed(POOL_BOUNDARY),
         PushToken([page |-> 1, slot |-> 2, below |-> Under(pages', 1, 2)])
  PROVE  IInv'
<1>1. Typed /\ pages' \in Seq(Seq(Values)) /\ tls' = 1 /\ Len(frames) = 1 /\ 1 \in Nat /\ 2 \in Nat
  BY DEF IInv, Placed
<1>2. PICK b : b = Under(pages', 1, 2) /\ b \in Belows
  BY <1>1, UnderType
<1>3. PICK token : token = [page |-> 1, slot |-> 2, below |-> b]
  OBVIOUS
<1>4. token \in TokenType /\ TPage(token) = 1 /\ TSlot(token) = 2 /\ token.below = b
  BY <1>1, <1>2, <1>3, NewTokenFacts
<1>5. PICK f \in FrameType : f = Top /\ f = frames[1]
  BY <1>1, FramesType
<1>6. f.tokens = <<Placeholder>> /\ Len(f.tokens) = 1 /\ f.tokens[1] = Placeholder
  BY <1>5 DEF Placed
<1>7. PICK g : g = Frame("client", Append(f.tokens, token))
  OBVIOUS
<1>8. Pushed(f, g, token)
  BY <1>4, <1>7, PushedOp
<1>9. SetTop(g) /\ g \in FrameType
  BY <1>2, <1>3, <1>5, <1>7, <1>8 DEF PushToken, Pushed
<1>10. frames' \in Seq(FrameType) /\ Len(frames') = 1 /\ Len(frames') >= 1 /\ frames'[1] = g /\ Top' = g
  BY <1>1, <1>9, SetTopOp DEF TopIs
<1>11. Typed'
  BY <1>1, <1>10 DEF Typed, Placed
<1>12. /\ Layout' /\ ColdBoundary' /\ PoolStarts' /\ NoLostRelease' /\ ~fatal' /\ Unplaced'
       /\ Holes' /\ HotInUse' /\ FewPages' /\ TokenOk(Placeholder)'
  <2>1. \A o \in Objects : o # POOL_BOUNDARY /\ balance[o] \in Nat
    BY <1>1, AutoreleasePoolAssumption DEF Typed
  <2>2. \A o \in Objects : balance'[o] = balance[o] + (IF POOL_BOUNDARY = o THEN 1 ELSE 0)
    BY <2>1
  <2> QED
    BY <1>11, <2>2, PlacedCore
<1>13. TokenOk(token)'
  <2>1. Boundary(1, 2)'
    BY <1>1 DEF Placed, Boundary
  <2>2. TPage(token)' = 1 /\ TSlot(token)' = 2
    BY <1>4 DEF TPage, TSlot, SlotOf
  <2>3. ~DebugPoolAllocation'
    BY DEF Placed, SameEnv
  <2> QED
    BY <1>1, <1>2, <1>4, <2>1, <2>2, <2>3 DEF TokenOk
<1>14. FrameOk(g, 1, 1)'
  <2>1. \A m \in 1 .. Len(f.tokens) : f.tokens[m] = Placeholder /\ m = 1
    BY <1>6
  <2>2. \A m \in 1 .. Len(f.tokens) :
          TokenOk(f.tokens[m])' /\ Before(TPage(f.tokens[m]), TSlot(f.tokens[m]), TPage(token), TSlot(token))
    BY <1>4, <1>12, <2>1, PlaceholderFacts DEF Before
  <2>3. InFrame(f)
    <3>1. ~Pops(f)
      BY <1>5 DEF Placed, Pops
    <3> QED
      BY <2>1, <3>1 DEF InFrame
  <2> QED
    BY <1>1, <1>8, <1>13, <2>2, <2>3, PushedFrame
<1>15. Frames' /\ Nesting'
  BY <1>10, <1>14, OneFrame, OneFrameOk
<1>16. ColdPool'
  <2>1. g.tokens[1] = Placeholder /\ g.tokens # <<>>
    BY <1>6, <1>8 DEF Pushed
  <2> QED
    BY <1>10, <2>1, PlaceholderFacts DEF ColdPool, TPage, TSlot, SlotOf
<1> QED
  BY <1>11, <1>12, <1>15, <1>16 DEF IInv

LEMMA PushStep ==
  ASSUME IInv, Push
  PROVE  IInv'
<1>1. /\ InClientCode /\ fatal' = fatal /\ env' = env /\ balance' = balance
      /\ IF DebugPoolAllocation /\ hotPage # nil THEN autoreleaseFullPage(POOL_BOUNDARY)
         ELSE autoreleaseFast(POOL_BOUNDARY)
      /\ PushToken([page |-> tls', slot |-> Len(pages'[tls']), below |-> Under(pages', tls', Len(pages'[tls']))])
  BY DEF Push, Count
<1>2. SameEnv
  BY <1>1 DEF SameEnv, DebugPoolAllocation, DebugMissingPools
<1>3. Typed /\ Layout /\ POOL_BOUNDARY \in Values
  BY DEF IInv, Values
<1>4. CASE tls = EMPTY_POOL_PLACEHOLDER
  <2>1. autoreleaseNoPage(POOL_BOUNDARY)
    BY <1>1, <1>4 DEF autoreleaseFast, hotPage
  <2>2. Placed(POOL_BOUNDARY)
    BY <1>3, <1>4, <2>1, PlacedOp
  <2>3. tls' = 1 /\ Len(pages'[tls']) = 2
    BY <2>2 DEF Placed
  <2> QED
    BY <1>1, <1>2, <1>4, <2>2, <2>3, PlacedPush
<1>5. CASE tls # EMPTY_POOL_PLACEHOLDER
  <2>1. /\ tls \in Nat /\ hotPage = tls /\ (tls # nil <=> tls >= 1)
    BY <1>3, <1>5, HotPageIs
  <2>2. \E i, s \in Nat : /\ Grown(i, s, POOL_BOUNDARY) /\ Follows(i)
                          /\ DebugPoolAllocation => s = 1
                          /\ DebugPoolAllocation /\ tls # nil => i = tls + 1
    <3>1. CASE DebugPoolAllocation /\ tls # nil
      <4>1. Grown(tls + 1, 1, POOL_BOUNDARY)
        BY <1>1, <1>3, <2>1, <3>1, FullPageOp
      <4>2. Follows(tls + 1)
        BY <3>1 DEF Follows
      <4> QED
        BY <2>1, <3>1, <4>1, <4>2
    <3>2. CASE ~(DebugPoolAllocation /\ tls # nil)
      <4>1. autoreleaseFast(POOL_BOUNDARY)
        BY <1>1, <2>1, <3>2
      <4>2. CASE tls = nil
        <5>1. Grown(1, 1, POOL_BOUNDARY)
          BY <1>3, <2>1, <4>1, <4>2, FirstPageOp DEF autoreleaseFast
        <5>2. Follows(1)
          BY <4>2 DEF Follows
        <5> QED
          BY <4>2, <5>1, <5>2
      <4>3. CASE tls # nil
        <5>1. PICK i \in Nat, s \in Nat : Grown(i, s, POOL_BOUNDARY) /\ Follows(i)
          BY <1>3, <1>5, <4>1, FastOp
        <5> QED
          BY <3>2, <4>3, <5>1
      <4> QED
        BY <4>2, <4>3
    <3> QED
      BY <3>1, <3>2
  <2>3. PICK i \in Nat, s \in Nat : /\ Grown(i, s, POOL_BOUNDARY) /\ Follows(i)
                                    /\ DebugPoolAllocation => s = 1
                                    /\ DebugPoolAllocation /\ tls # nil => i = tls + 1
    BY <2>2
  <2>4. tls' = i /\ Len(pages'[tls']) = s
    BY <2>3 DEF Grown
  <2>5. PushToken([page |-> i, slot |-> s, below |-> Under(pages', i, s)])
    BY <1>1, <2>4
  <2> QED
    BY <1>1, <1>2, <1>5, <2>3, <2>5, GrownPush
<1> QED
  BY <1>4, <1>5

\* Steps that leave the pages: only frames change.
SamePages == /\ pages' = pages /\ tls' = tls /\ balance' = balance /\ fatal' = fatal /\ env' = env

LEMMA SamePagesCore ==
  ASSUME IInv, SamePages
  PROVE  /\ Layout' /\ PoolStarts' /\ NoLostRelease' /\ ~fatal' /\ SameEnv
         /\ \A f, k, n : FrameOk(f, k, n)' <=> FrameOk(f, k, n)
         /\ Boundary(1, 1)' <=> Boundary(1, 1)
<1>1. Layout' /\ ~fatal' /\ PoolStarts' /\ NoLostRelease' /\ SameEnv
  <2>1. Layout' /\ ~fatal' /\ SameEnv
    BY DEF SamePages, IInv, Layout, SameEnv, DebugPoolAllocation, DebugMissingPools
  <2>2. PoolStarts'
    BY DEF SamePages, IInv, PoolStarts, DebugPoolAllocation, Boundary, Used
  <2>3. NoLostRelease'
    BY DEF SamePages, IInv, NoLostRelease, Stack
  <2> QED
    BY <2>1, <2>2, <2>3
<1>2. \A token : TokenOk(token)' <=> TokenOk(token)
  BY DEF SamePages, TokenOk, DebugPoolAllocation, Boundary, Used, TPage, TSlot, SlotOf
<1>3. \A f, k, n : WorkOk(f, k, n)' <=> WorkOk(f, k, n)
  BY DEF SamePages, WorkOk, DebugPoolAllocation, Boundary, Used, Pops
<1>4. \A f, k, n : FrameOk(f, k, n)' <=> FrameOk(f, k, n)
  BY <1>2, <1>3, InFrameStays DEF FrameOk
<1>5. Boundary(1, 1)' <=> Boundary(1, 1)
  BY DEF SamePages, Boundary, Used
<1> QED
  BY <1>1, <1>4, <1>5

\* A client frame whose pool n is being popped, with those pushed after it.
Popped(f, g, n, p, r) ==
  /\ g \in FrameType /\ g.pc = "releasing" /\ Pops(g)
  /\ n \in Nat /\ n \in 1 .. Len(f.tokens)
  /\ p \in Nat /\ r \in Nat /\ p = TPage(f.tokens[n]) /\ r = TSlot(f.tokens[n])
  /\ g.this = p /\ g.stop = r /\ g.below = f.tokens[n].below
  /\ Len(g.tokens) = n - 1 /\ (g.tokens = <<>> <=> n = 1)
  /\ \A m \in 1 .. Len(g.tokens) : /\ m \in 1 .. Len(f.tokens) /\ m < n /\ g.tokens[m] = f.tokens[m]

LEMMA PoppedOp ==
  ASSUME NEW f \in FrameType, NEW n \in 1 .. Len(f.tokens), NEW g,
         g = Working("releasing", SubSeq(f.tokens, 1, n - 1), SlotOf(f.tokens[n])[1], SlotOf(f.tokens[n])[2],
                     f.tokens[n].below)
  PROVE  Popped(f, g, n, TPage(f.tokens[n]), TSlot(f.tokens[n]))
<1>1. PICK t \in Seq(TokenType) : t = f.tokens /\ n \in 1 .. Len(t)
  BY TokensType
<1>2. PICK c \in Nat : c = Len(t) /\ n \in 1 .. c /\ n \in Nat
  BY <1>1
<1>3. PICK token \in TokenType : token = t[n]
  BY <1>1
<1>4. PICK p \in Nat, r \in Nat : p = TPage(token) /\ r = TSlot(token)
  BY TokenFacts
<1>5. PICK b : b = token.below /\ b \in Belows
  BY DEF TokenType
<1>6. PICK u : u = SubSeq(t, 1, n - 1)
  OBVIOUS
<1>7. PICK d \in Nat : d = n - 1 /\ d <= c
  BY <1>2
<1>8. u \in Seq(TokenType) /\ Len(u) = d /\ \A m \in 1 .. d : u[m] = t[m]
  BY <1>2, <1>6, <1>7
<1>9. u = <<>> <=> d = 0
  BY <1>8
<1>10. g = Working("releasing", u, p, r, b)
  BY <1>1, <1>3, <1>4, <1>5, <1>6 DEF TPage, TSlot
<1>11. PICK pc \in {"client", "releasing", "exiting", "exited"} : pc = "releasing"
  OBVIOUS
<1>12. g \in FrameType /\ g.pc = pc /\ g.tokens = u /\ g.this = p /\ g.stop = r /\ g.below = b
  <2>1. g = Working(pc, u, p, r, b)
    BY <1>10, <1>11
  <2>2. u \in Seq(TokenType) /\ b \in Belows
    BY <1>5, <1>8
  <2> QED
    BY ONLY <2>1, <2>2, p \in Nat, r \in Nat, pc \in {"client", "releasing", "exiting", "exited"}
       DEF Working, FrameType
<1>13. \A m \in 1 .. d : m \in 1 .. c /\ m < n
  BY <1>2, <1>7
<1>14. d = 0 <=> n = 1
  BY <1>2, <1>7
<1> QED
  BY <1>1, <1>2, <1>3, <1>4, <1>5, <1>7, <1>8, <1>9, <1>11, <1>12, <1>13, <1>14 DEF Popped, Pops

LEMMA PoppedFrame ==
  ASSUME Typed, Layout, NEW f \in FrameType, NEW g, NEW k \in Nat, NEW n, NEW p, NEW r, Popped(f, g, n, p, r),
         FrameOk(f, k, k), tls # EMPTY_POOL_PLACEHOLDER
  PROVE  FrameOk(g, k, k)
<1>1. TokenOk(f.tokens[n]) /\ InFrame(f) /\ p \in Nat /\ r \in Nat
  BY DEF FrameOk, Popped
<1>2. Boundary(p, r) /\ p >= 1 /\ r >= 1 /\ (DebugPoolAllocation => r = 1) /\ g.below = Under(pages, p, r)
  BY <1>1 DEF TokenOk, Popped
<1>3. tls \in Nat /\ p <= tls /\ p \in 1 .. Len(pages)
  BY <1>1, <1>2, UsedUpToHot DEF Boundary, Used
<1>4. r <= COUNT /\ Len(pages[p]) >= r - 1
  BY <1>1, <1>2, <1>3, UsedValue, PagesType, AutoreleasePoolAssumption DEF Boundary, Used
<1>5. WorkOk(g, k, k)
  <2>1. g.pc = "releasing" /\ Pops(g) /\ g.this = p /\ g.stop = r
    BY DEF Popped
  <2> QED
    BY <1>2, <1>3, <1>4, <2>1 DEF WorkOk
<1>6. InFrame(g)
  <2>1. ASSUME NEW m \in 1 .. Len(g.tokens)
        PROVE  Before(TPage(g.tokens[m]), TSlot(g.tokens[m]), g.this, g.stop)
    BY <1>1 DEF InFrame, Popped
  <2>2. ASSUME NEW v \in 1 .. Len(g.tokens), NEW m \in 1 .. Len(g.tokens), m < v
        PROVE  Before(TPage(g.tokens[m]), TSlot(g.tokens[m]), TPage(g.tokens[v]), TSlot(g.tokens[v]))
    BY <1>1, <2>2 DEF InFrame, Popped
  <2> QED
    BY <2>1, <2>2 DEF InFrame
<1>7. \A m \in 1 .. Len(g.tokens) : TokenOk(g.tokens[m])
  BY DEF FrameOk, Popped
<1> QED
  BY <1>5, <1>6, <1>7 DEF FrameOk

LEMMA PopStep ==
  ASSUME IInv, NEW v \in 1 .. MaxCalls, Pop(v)
  PROVE  IInv'
<1> PICK n \in Nat : n = Len(frames) /\ n >= 1 /\ n \in 1 .. n
  BY FramesType DEF IInv
<1>1. /\ Typed /\ Layout /\ Nesting /\ ColdPool /\ ColdBoundary /\ Holes
  BY DEF IInv
<1>2. PICK f \in FrameType : f = Top /\ f = frames[n]
  BY <1>1, FramesType
<1>3. PICK t \in Seq(TokenType) : t = f.tokens
  BY TokensType
<1>4. /\ InClientCode /\ v \in 1 .. Len(f.tokens) /\ hotPage # nil
      /\ pages' = pages /\ tls' = tls /\ balance' = balance /\ env' = env
  BY <1>2, <1>3 DEF Pop
<1>5. PICK g : g = Working("releasing", SubSeq(f.tokens, 1, v - 1), SlotOf(f.tokens[v])[1],
                           SlotOf(f.tokens[v])[2], f.tokens[v].below)
  OBVIOUS
<1>6. PICK p, r : p = TPage(f.tokens[v]) /\ r = TSlot(f.tokens[v])
  OBVIOUS
<1>7. Popped(f, g, v, p, r)
  BY <1>4, <1>5, <1>6, PoppedOp
<1>8. tls # EMPTY_POOL_PLACEHOLDER
  BY <1>4 DEF hotPage
<1>9. f.pc = "client" /\ \A k \in 1 .. n : frames[k] \in FrameType /\ (Pops(frames[k]) <=> k < n)
  BY <1>2, <1>4, ClientOnTop
<1>10. \A k \in 1 .. n : FrameOk(frames[k], k, n)
  BY DEF IInv, Frames
<1>11. FrameOk(f, n, n)
  BY ONLY <1>2, <1>10, n \in 1 .. n
<1>12. FrameOk(g, n, n)
  BY <1>1, <1>7, <1>8, <1>11, PoppedFrame
<1>13. SetTop(g) /\ fatal' = fatal
  <2>1. TokenOk(f.tokens[v])
    BY <1>4, <1>11 DEF FrameOk
  <2>2. Boundary(p, r)
    BY <1>6, <1>8, <2>1 DEF TokenOk
  <2>3. p <= Len(pages) /\ r <= Len(pages[p]) /\ pages[p][r] = POOL_BOUNDARY
    BY <2>2, <1>1, PagesType DEF Boundary, Used
  <2>4. ~BadToken(p, r)
    BY <2>3 DEF BadToken
  <2>5. ~BadToken(SlotOf(Top.tokens[v])[1], SlotOf(Top.tokens[v])[2])
    BY <1>2, <1>6, <2>4 DEF TPage, TSlot
  <2> QED
    BY <1>2, <1>5, <2>5 DEF Pop
<1>14. SamePages
  BY <1>4, <1>13 DEF SamePages
<1>15. /\ Layout' /\ PoolStarts' /\ NoLostRelease' /\ ~fatal' /\ SameEnv
       /\ \A h, k, m : FrameOk(h, k, m)' <=> FrameOk(h, k, m)
       /\ Boundary(1, 1)' <=> Boundary(1, 1)
  BY <1>14, SamePagesCore
<1>16. g \in FrameType /\ g.pc = "releasing" /\ Pops(g)
  BY <1>7 DEF Popped
<1>17. /\ frames' \in Seq(FrameType) /\ Len(frames') = n /\ Len(frames') >= 1
       /\ frames'[n] = g /\ Top' = g
       /\ \A k \in 1 .. n : k < n => frames'[k] = frames[k]
  BY <1>1, <1>13, <1>16, SetTopOp DEF TopIs
<1>18. Typed'
  BY <1>1, <1>4, <1>17 DEF Typed
<1>19. Frames'
  <2>1. ASSUME NEW k \in 1 .. Len(frames') PROVE FrameOk(frames[k], k, Len(frames))'
    <3>1. k \in 1 .. n /\ (k = n \/ k < n)
      BY <1>17
    <3>2. CASE k = n
      <4>1. FrameOk(g, n, n)'
        BY <1>12, <1>15
      <4> QED
        BY <1>17, <3>2, <4>1
    <3>3. CASE k < n
      <4>1. PICK h : h = frames[k] /\ h = frames'[k]
        BY <1>17, <3>1, <3>3
      <4>2. FrameOk(h, k, n)
        BY <1>10, <3>1, <4>1
      <4>3. FrameOk(h, k, n)'
        BY <1>15, <4>2
      <4> QED
        BY <1>17, <4>1, <4>3
    <3> QED
      BY <3>1, <3>2, <3>3
  <2> QED
    BY <2>1 DEF Frames
<1>20. Nesting'
  <2>1. ASSUME NEW j \in 1 .. Len(frames'), NEW k \in 1 .. Len(frames'), j < k
        PROVE  Nested(frames[j], frames[k])'
    <3>1. j \in 1 .. n /\ k \in 1 .. n /\ j < n /\ frames'[j] = frames[j] /\ (k = n \/ k < n)
      BY <1>17, <2>1
    <3>2. PICK h : h = frames[j]
      OBVIOUS
    <3>3. Nested(h, frames[k])
      BY <1>1, <2>1, <3>1, <3>2 DEF Nesting
    <3>4. CASE k < n
      <4>1. PICK e : e = frames[k] /\ e = frames'[k]
        BY <1>17, <3>1, <3>4
      <4>2. Nested(h, e)'
        BY <1>15, <3>3, <4>1, NestedStays
      <4> QED
        BY <3>1, <3>2, <4>1, <4>2
    <3>5. CASE k = n
      <4>1. Nested(h, f)
        BY <1>2, <3>3, <3>5
      <4>2. Nested(h, g)
        BY <1>7, <4>1 DEF Nested, Popped
      <4>3. Nested(h, g)'
        BY <1>15, <4>2, NestedStays
      <4> QED
        BY <1>17, <3>1, <3>2, <3>5, <4>3
    <3> QED
      BY <3>1, <3>4, <3>5
  <2> QED
    BY <2>1 DEF Nesting
<1>21. ColdBoundary'
  <2>1. DebugMissingPools /\ pages # <<>> => Boundary(1, 1)
    BY <1>1, <1>4, ClientOnTop DEF ColdBoundary
  <2> QED
    BY <1>4, <1>15, <2>1 DEF ColdBoundary, SameEnv
<1>22. ColdPool'
  <2>1. SUFFICES ASSUME DebugMissingPools PROVE ColdPool'
    BY <1>15 DEF ColdPool, SameEnv
  <2>2. CASE n = 1
    <3>1. f = frames[1] /\ frames'[1] = g
      BY <1>2, <1>17, <2>2
    <3>2. f.tokens # <<>>
      BY <1>3, <1>4
    <3>3. TPage(f.tokens[1]) = 1 /\ TSlot(f.tokens[1]) = 1
      BY <1>1, <2>1, <3>1, <3>2 DEF ColdPool
    <3>4. CASE v = 1
      <4>1. g.tokens = <<>> /\ g.this = 1 /\ g.stop = 1
        BY <1>7, <3>3, <3>4 DEF Popped
      <4> QED
        BY <1>16, <3>1, <4>1 DEF ColdPool
    <3>5. CASE v # 1
      <4>1. g.tokens # <<>> /\ v \in Nat /\ v >= 1
        BY <1>3, <1>4, <1>7, <3>5 DEF Popped
      <4>2. 1 \in 1 .. v - 1
        BY <3>5, <4>1
      <4>3. g.tokens[1] = f.tokens[1]
        BY <1>7, <4>2 DEF Popped
      <4> QED
        BY <3>1, <3>3, <4>1, <4>3 DEF ColdPool, TPage, TSlot, SlotOf
    <3> QED
      BY <3>4, <3>5
  <2>3. CASE n # 1
    <3>1. 1 \in 1 .. n /\ 1 < n
      BY <2>3
    <3>2. frames[1] = frames'[1] /\ Pops(frames[1])
      BY <1>9, <1>17, <3>1
    <3>3. frames[1].pc # "client"
      BY <3>2 DEF Pops
    <3> QED
      BY <1>1, <2>1, <3>2, <3>3 DEF ColdPool, TPage, TSlot, SlotOf
  <2> QED
    BY <2>2, <2>3
<1>23. Holes'
  <2>1. ASSUME DebugPoolAllocation, NEW j \in 1 .. Len(pages), j < tls, pages[j] = <<>>
        PROVE  \E k \in 2 .. n : FirstAt(frames'[k], j + 1)
    <3>1. PICK k \in 2 .. n : FirstAt(frames[k], j + 1)
      BY <1>1, <2>1 DEF Holes
    <3>2. CASE k < n
      <4>1. frames'[k] = frames[k]
        BY <1>17, <3>2
      <4> QED
        BY <3>1, <4>1
    <3>3. CASE k = n
      <4>1. FirstAt(f, j + 1) /\ frames'[k] = g
        BY <1>2, <1>17, <3>1, <3>3
      <4>2. f.tokens # <<>> /\ TPage(f.tokens[1]) = j + 1 /\ TSlot(f.tokens[1]) = 1
        BY <1>9, <4>1 DEF FirstAt
      <4>3. FirstAt(g, j + 1)
        <5>1. CASE v = 1
          <6>1. g.tokens = <<>> /\ g.this = j + 1 /\ g.stop = 1
            BY <1>7, <4>2, <5>1 DEF Popped
          <6> QED
            BY <1>16, <6>1 DEF FirstAt
        <5>2. CASE v # 1
          <6>1. g.tokens # <<>> /\ v \in Nat /\ v >= 1
            BY <1>3, <1>4, <1>7, <5>2 DEF Popped
          <6>2. 1 \in 1 .. v - 1
            BY <5>2, <6>1
          <6>3. g.tokens[1] = f.tokens[1]
            BY <1>7, <6>2 DEF Popped
          <6> QED
            BY <4>2, <6>1, <6>3 DEF FirstAt
        <5> QED
          BY <5>1, <5>2
      <4> QED
        BY <4>1, <4>3
    <3> QED
      BY <3>2, <3>3
  <2> QED
    BY <1>4, <1>15, <1>17, <2>1 DEF Holes, SameEnv, FirstAt, TPage, TSlot, SlotOf
<1>24. HotInUse' /\ FewPages' /\ Unplaced'
  <2>1. HotInUse' /\ Unplaced'
    BY <1>4, <1>8, <1>16, <1>17 DEF HotInUse, Unplaced
  <2>2. FewPages'
    BY <1>16, <1>17 DEF FewPages
  <2> QED
    BY <2>1, <2>2
<1> QED
  BY <1>15, <1>18, <1>19, <1>20, <1>21, <1>22, <1>23, <1>24 DEF IInv

\* What client code leaves is what the pop that called it finds.
LEMMA DeallocReturnsStep ==
  ASSUME IInv, DeallocReturns
  PROVE  IInv'
<1> PICK n \in Nat : n = Len(frames) /\ n >= 1 /\ n \in 1 .. n
  BY FramesType DEF IInv
<1>1. /\ Typed /\ Layout /\ Nesting /\ ColdPool /\ ColdBoundary /\ Holes /\ Unplaced
  BY DEF IInv
<1>2. /\ InClientCode /\ n > 1 /\ Top.tokens = <<>> /\ frames' = Front(frames)
      /\ SamePages
  BY DEF DeallocReturns, SamePages
<1>3. /\ Layout' /\ PoolStarts' /\ NoLostRelease' /\ ~fatal' /\ SameEnv
      /\ \A h, k, m : FrameOk(h, k, m)' <=> FrameOk(h, k, m)
      /\ Boundary(1, 1)' <=> Boundary(1, 1)
  BY <1>2, SamePagesCore
<1>4. PICK l \in Nat : l = n - 1 /\ l >= 1 /\ l < n /\ l \in 1 .. n
  BY <1>2
<1>5. /\ frames' \in Seq(FrameType) /\ Len(frames') = l /\ Len(frames') >= 1
      /\ \A k \in 1 .. l : frames'[k] = frames[k]
  BY <1>1, <1>2, <1>4, ReturnOp
<1>6. Typed'
  BY <1>1, <1>2, <1>5 DEF Typed, SamePages
<1>7. \A k \in 1 .. n : FrameOk(frames[k], k, n)
  BY DEF IInv, Frames
<1>8. Top = frames[n] /\ Top.pc = "client" /\ \A k \in 1 .. n : Pops(frames[k]) <=> k < n
  BY <1>1, <1>2, ClientOnTop, FramesType
<1>9. Top' = frames[l] /\ Pops(frames[l])
  <2>1. l \in 1 .. l
    BY <1>4
  <2> QED
    BY <1>4, <1>5, <1>8, <2>1 DEF Top
<1>10. Frames'
  <2>1. ASSUME NEW k \in 1 .. Len(frames') PROVE FrameOk(frames[k], k, Len(frames))'
    <3>1. k \in 1 .. l /\ k \in 1 .. n /\ k < n /\ k \in Nat
      BY <1>4, <1>5
    <3>2. PICK h : h = frames[k] /\ h = frames'[k]
      BY <1>5, <3>1
    <3>3. FrameOk(h, k, n) /\ Pops(h)
      BY <1>7, <1>8, <3>1, <3>2
    <3>4. FrameOk(h, k, l)
      BY <3>1, <3>3 DEF FrameOk, WorkOk
    <3>5. FrameOk(h, k, l)'
      BY <1>3, <3>4
    <3> QED
      BY <1>5, <3>2, <3>5
  <2> QED
    BY <2>1 DEF Frames
<1>11. Nesting'
  <2>1. ASSUME NEW j \in 1 .. Len(frames'), NEW k \in 1 .. Len(frames'), j < k
        PROVE  Nested(frames[j], frames[k])'
    <3>1. j \in 1 .. l /\ k \in 1 .. l /\ j \in 1 .. n /\ k \in 1 .. n
      BY <1>4, <1>5
    <3>2. PICK h, e : h = frames[j] /\ e = frames[k] /\ h = frames'[j] /\ e = frames'[k]
      BY <1>5, <3>1
    <3>3. Nested(h, e)
      BY <1>1, <2>1, <3>1, <3>2 DEF Nesting
    <3>4. Nested(h, e)'
      BY <1>3, <3>3, NestedStays
    <3> QED
      BY <3>2, <3>4
  <2> QED
    BY <2>1 DEF Nesting
<1>12. ColdBoundary'
  <2>1. DebugMissingPools /\ pages # <<>> => Boundary(1, 1)
    BY <1>1, <1>2, ClientOnTop DEF ColdBoundary
  <2> QED
    BY <1>2, <1>3, <2>1 DEF ColdBoundary, SameEnv, SamePages
<1>13. ColdPool'
  <2>1. frames'[1] = frames[1]
    BY <1>4, <1>5
  <2> QED
    BY <1>1, <1>2, <1>3, <2>1 DEF ColdPool, SameEnv, SamePages, TPage, TSlot, SlotOf
<1>14. Holes'
  <2>1. ASSUME DebugPoolAllocation, NEW j \in 1 .. Len(pages), j < tls, pages[j] = <<>>
        PROVE  \E k \in 2 .. l : FirstAt(frames'[k], j + 1)
    <3>1. PICK k \in 2 .. n : FirstAt(frames[k], j + 1)
      BY <1>1, <2>1 DEF Holes
    <3>2. k # n
      BY <1>2, <1>8, <3>1 DEF FirstAt
    <3>3. k \in 2 .. l /\ k \in 1 .. l
      BY <1>4, <3>2
    <3> QED
      BY <1>5, <3>1, <3>3
  <2> QED
    BY <1>2, <1>3, <1>5, <2>1 DEF Holes, SameEnv, FirstAt, TPage, TSlot, SlotOf, SamePages
<1>15. HotInUse' /\ FewPages' /\ Unplaced'
  <2>1. HotInUse'
    BY <1>9 DEF HotInUse, Pops
  <2>2. FewPages'
    <3>1. l = 1 => ~(frames'[1].pc = "client")
      BY <1>4, <1>5, <1>9 DEF Pops
    <3> QED
      BY <1>5, <3>1 DEF FewPages
  <2>3. Unplaced'
    <3>1. ~(Len(frames) = 1)
      BY <1>2
    <3>2. tls # EMPTY_POOL_PLACEHOLDER
      BY <1>1, <3>1 DEF Unplaced
    <3> QED
      BY <1>2, <3>2 DEF Unplaced, SamePages
  <2> QED
    BY <2>1, <2>2, <2>3
<1> QED
  BY <1>3, <1>6, <1>10, <1>11, <1>12, <1>13, <1>14, <1>15 DEF IInv

\* With the cold page empty and no client code in a pop, nothing is pending.
LEMMA ColdEmpty ==
  ASSUME IInv, Len(frames) = 1, tls \in {nil, EMPTY_POOL_PLACEHOLDER} \/ pages[1] = <<>>
  PROVE  \A j, r \in Nat : ~Used(j, r)
<1>1. Typed /\ Layout /\ Holes /\ COUNT \in Nat /\ COUNT >= 2
  BY AutoreleasePoolAssumption DEF IInv
<1>2. CASE tls \in {nil, EMPTY_POOL_PLACEHOLDER}
  <2>1. pages = <<>> /\ Len(pages) = 0
    BY <1>1, <1>2 DEF Layout, nil, EMPTY_POOL_PLACEHOLDER
  <2> QED
    BY <2>1 DEF Used
<1>3. CASE tls \notin {nil, EMPTY_POOL_PLACEHOLDER} /\ pages[1] = <<>>
  <2>1. /\ tls \in Nat /\ tls >= 1 /\ tls \in 1 .. Len(pages) /\ Len(pages) \in Nat
        /\ ~DebugPoolAllocation => \A i \in 1 .. Len(pages) : i < tls => Len(pages[i]) = COUNT
    BY <1>1, <1>3, PagesType DEF Layout
  <2>2. 1 \in 1 .. Len(pages) /\ Len(pages[1]) = 0
    BY <1>3, <2>1
  <2>3. tls = 1
    <3>1. SUFFICES ASSUME 1 < tls PROVE FALSE
      BY <2>1
    <3>2. CASE ~DebugPoolAllocation
      BY <1>1, <2>1, <2>2, <3>1, <3>2
    <3>3. CASE DebugPoolAllocation
      <4>1. PICK k \in 2 .. Len(frames) : FirstAt(frames[k], 1 + 1)
        BY <1>1, <1>3, <2>2, <3>1, <3>3 DEF Holes
      <4> QED
        BY <4>1
    <3> QED
      BY <3>2, <3>3
  <2>4. ASSUME NEW j \in Nat, NEW r \in Nat, Used(j, r) PROVE FALSE
    <3>1. j <= tls /\ j >= 1 /\ r \in 1 .. Len(pages[j])
      BY <1>1, <2>4, UsedUpToHot, UsedValue DEF Used
    <3>2. j = 1
      BY <2>3, <3>1
    <3> QED
      BY <2>2, <3>1, <3>2
  <2> QED
    BY <2>4
<1> QED
  BY <1>2, <1>3

\* The thread has no pages left.
LEMMA ExitedStep ==
  ASSUME IInv, Len(frames) = 1, \A j, r \in Nat : ~Used(j, r),
         pages' = <<>>, tls' = nil, SetTop(Frame("exited", <<>>)), UNCHANGED <<balance, fatal, env>>
  PROVE  IInv'
<1>1. SameEnv
  BY DEF SameEnv, DebugPoolAllocation, DebugMissingPools
<1>2. PICK f : f = Frame("exited", <<>>)
  OBVIOUS
<1>3. <<>> \in Seq(TokenType)
  OBVIOUS
<1>4. f \in FrameType /\ f.pc = "exited" /\ f.tokens = <<>> /\ f.this = nil
  BY <1>2, <1>3, FrameFacts
<1>5. /\ frames' \in Seq(FrameType) /\ Len(frames') = 1 /\ frames'[1] = f /\ Top' = f
  BY <1>2, <1>4, SetTopOp DEF TopIs, IInv
<1>6. Typed'
  <2>1. <<>> \in Seq(Seq(Values)) /\ Len(pages') = 0 /\ nil \in Nat
    BY DEF nil
  <2> QED
    BY <1>5, <2>1 DEF IInv, Typed
<1>7. Cleared
  BY <1>5 DEF Cleared
<1>8. /\ Layout' /\ ColdBoundary' /\ PoolStarts' /\ NoLostRelease' /\ ~fatal' /\ Nesting'
      /\ Holes' /\ HotInUse' /\ FewPages'
  BY <1>1, <1>6, <1>7, ClearedCore
<1>9. FrameOk(f, 1, 1)'
  <2>1. \A m : m \notin 1 .. Len(f.tokens)
    BY <1>4
  <2> QED
    BY <1>4, <2>1 DEF FrameOk, WorkOk, InFrame, Pops
<1>10. Frames'
  BY <1>5, <1>9, OneFrameOk
<1>11. ColdPool' /\ Unplaced'
  BY <1>4, <1>5 DEF ColdPool, Unplaced, nil, EMPTY_POOL_PLACEHOLDER
<1> QED
  BY <1>6, <1>8, <1>10, <1>11 DEF IInv

LEMMA ThreadExitStep ==
  ASSUME IInv, ThreadExit
  PROVE  IInv'
<1>1. InClientCode /\ Len(frames) = 1 /\ UNCHANGED <<balance, fatal, env>>
  BY DEF ThreadExit
<1>2. CASE hotPage # nil /\ ~empty(1)
  <2>1. SetTop(Working("exiting", <<>>, 1, 1, Under(<<>>, 1, 1))) /\ SamePages
    BY <1>1, <1>2 DEF ThreadExit, SamePages
  <2>2. PICK b : b = Under(<<>>, 1, 1) /\ b \in Belows
    BY NothingUnder
  <2>3. PICK f : f = Working("exiting", <<>>, 1, 1, b)
    OBVIOUS
  <2>4. f \in FrameType /\ f.pc = "exiting" /\ f.tokens = <<>> /\ f.this = 1 /\ f.stop = 1
    <3>0. <<>> \in Seq(TokenType)
      OBVIOUS
    <3> PICK u \in Seq(TokenType) : u = <<>>
      BY ONLY <3>0
    <3>1. u \in Seq(TokenType) /\ b \in Belows
      BY <2>2
    <3>2. PICK pc \in {"client", "releasing", "exiting", "exited"} : pc = "exiting"
      OBVIOUS
    <3>3. PICK c \in Nat : c = 1
      OBVIOUS
    <3>4. f = Working(pc, u, c, c, b)
      BY <2>3, <3>2, <3>3
    <3>5. f \in FrameType /\ f.pc = pc /\ f.tokens = u /\ f.this = c /\ f.stop = c
      BY ONLY <3>1, <3>4, pc \in {"client", "releasing", "exiting", "exited"}, c \in Nat, WorkingFacts
    <3> QED
      BY <3>2, <3>3, <3>5
  <2>5. /\ frames' \in Seq(FrameType) /\ Len(frames') = 1 /\ frames'[1] = f /\ Top' = f
    BY <1>1, <2>1, <2>2, <2>3, <2>4, SetTopOp DEF TopIs, IInv
  <2>6. /\ Layout' /\ PoolStarts' /\ NoLostRelease' /\ ~fatal' /\ SameEnv
        /\ \A h, k, m : FrameOk(h, k, m)' <=> FrameOk(h, k, m)
        /\ Boundary(1, 1)' <=> Boundary(1, 1)
    BY <2>1, SamePagesCore
  <2>7. Typed'
    BY <2>1, <2>5 DEF IInv, Typed, SamePages
  <2>8. /\ Typed /\ Layout /\ ColdBoundary /\ Holes
    BY DEF IInv
  <2>9. tls # EMPTY_POOL_PLACEHOLDER /\ tls # nil
    BY <1>2 DEF hotPage
  <2>10. tls \in Nat /\ tls >= 1 /\ tls \in 1 .. Len(pages)
    BY <2>8, <2>9, HotPageIs
  <2>11. 1 \in 1 .. Len(pages) /\ Len(pages[1]) \in Nat
    <3>1. Len(pages) \in Nat /\ 1 \in 1 .. Len(pages)
      BY <2>8, <2>10, PagesType
    <3> QED
      BY <2>8, <3>1, PagesType
  <2>12. FrameOk(f, 1, 1)
    <3>1. \A m : m \notin 1 .. Len(f.tokens)
      BY <2>4
    <3>2. WorkOk(f, 1, 1)
      BY <2>4, <2>10, <2>11, AutoreleasePoolAssumption DEF WorkOk, Pops
    <3> QED
      BY <3>1, <3>2 DEF FrameOk, InFrame
  <2>13. Frames' /\ Nesting'
    <3>1. FrameOk(f, 1, 1)'
      BY <2>6, <2>12
    <3> QED
      BY <2>5, <3>1, OneFrame, OneFrameOk
  <2>14. ColdBoundary'
    <3>1. DebugMissingPools /\ pages # <<>> => Boundary(1, 1)
      BY <1>1, <2>8, ClientOnTop DEF ColdBoundary
    <3> QED
      BY <2>1, <2>6, <3>1 DEF ColdBoundary, SameEnv, SamePages
  <2>15. ColdPool' /\ Unplaced'
    BY <2>1, <2>4, <2>5, <2>9 DEF ColdPool, Unplaced, SamePages
  <2>16. Holes'
    <3>1. ASSUME DebugPoolAllocation, NEW j \in 1 .. Len(pages), j < tls, pages[j] = <<>> PROVE FALSE
      <4>1. PICK k \in 2 .. Len(frames) : FirstAt(frames[k], j + 1)
        BY <2>8, <3>1 DEF Holes
      <4> QED
        BY <1>1, <4>1
    <3> QED
      BY <2>1, <2>6, <3>1 DEF Holes, SamePages, SameEnv
  <2>17. HotInUse' /\ FewPages'
    BY <2>4, <2>5 DEF HotInUse, FewPages
  <2> QED
    BY <2>6, <2>7, <2>13, <2>14, <2>15, <2>16, <2>17 DEF IInv
<1>3. CASE ~(hotPage # nil /\ ~empty(1))
  <2>1. SetTop(Frame("exited", <<>>)) /\ pages' = <<>> /\ tls' = nil
    BY <1>3 DEF ThreadExit
  <2>2. tls \in {nil, EMPTY_POOL_PLACEHOLDER} \/ pages[1] = <<>>
    BY <1>3 DEF hotPage, empty
  <2>3. \A j, r \in Nat : ~Used(j, r)
    BY <1>1, <2>2, ColdEmpty
  <2> QED
    BY <1>1, <2>1, <2>3, ExitedStep
<1> QED
  BY <1>2, <1>3

LEMMA ThreadExitDoneStep ==
  ASSUME IInv, ThreadExitDone
  PROVE  IInv'
<1> PICK n \in Nat : n = Len(frames) /\ n >= 1 /\ n \in 1 .. n
  BY FramesType DEF IInv
<1>1. /\ Top.pc = "exiting" /\ ~Looping /\ pages' = <<>> /\ tls' = nil
      /\ SetTop(Frame("exited", <<>>)) /\ UNCHANGED <<balance, fatal, env>>
  BY DEF ThreadExitDone
<1>2. Typed /\ Layout /\ \A k \in 1 .. n : FrameOk(frames[k], k, n)
  BY DEF IInv, Frames
<1>3. PICK f \in FrameType : f = Top /\ f = frames[n]
  BY <1>2, FramesType
<1>4. FrameOk(f, n, n)
  BY ONLY <1>2, <1>3, n \in 1 .. n
<1>5. /\ n = 1 /\ f.this = 1 /\ f.stop = 1 /\ 1 <= tls
  BY <1>1, <1>3, <1>4 DEF FrameOk, WorkOk, Pops
<1>6. Len(pages[1]) = 0
  BY <1>1, <1>3, <1>5 DEF Looping
<1>7. pages[1] = <<>>
  <2>1. tls \in 1 .. Len(pages) /\ tls \in Nat /\ Len(pages) \in Nat
    BY <1>2, <1>5, PagesType DEF Layout, Typed, nil, EMPTY_POOL_PLACEHOLDER
  <2>2. 1 \in 1 .. Len(pages)
    BY <1>5, <2>1
  <2> QED
    BY <1>2, <1>6, <2>2, PagesType
<1>8. \A j, r \in Nat : ~Used(j, r)
  BY <1>5, <1>7, ColdEmpty
<1> QED
  BY <1>1, <1>5, <1>8, ExitedStep

\* A pop that goes on, and the page it takes from: the hot one, or its parent.
LEMMA PopOnTop ==
  ASSUME IInv, Pops(Top)
  PROVE  /\ Top \in FrameType /\ FrameOk(Top, Len(frames), Len(frames))
         /\ tls \in Nat /\ tls >= 1 /\ tls \in 1 .. Len(pages) /\ tls # EMPTY_POOL_PLACEHOLDER /\ tls # nil
         /\ Top.this \in 1 .. Len(pages) /\ Top.this <= tls /\ Top.this \in Nat /\ Top.stop \in Nat
         /\ Top.this >= 1 /\ Top.stop >= 1
         /\ Len(pages[Top.this]) \in Nat /\ Len(pages[Top.this]) >= Top.stop - 1
<1> PICK n \in Nat : n = Len(frames) /\ n >= 1 /\ n \in 1 .. n
  BY FramesType DEF IInv
<1>1. Typed /\ Layout /\ \A k \in 1 .. n : FrameOk(frames[k], k, n)
  BY DEF IInv, Frames
<1>2. PICK f \in FrameType : f = Top /\ f = frames[n]
  BY <1>1, FramesType
<1>3. FrameOk(f, n, n)
  BY ONLY <1>1, <1>2, n \in 1 .. n
<1>4. 1 <= f.this /\ f.this <= tls /\ 1 <= f.stop /\ Len(pages[f.this]) >= f.stop - 1
  BY <1>2, <1>3 DEF FrameOk, WorkOk
<1>5. f.this \in Nat /\ f.stop \in Nat
  BY TokensType
<1>6. tls \in Nat /\ tls >= 1
  BY <1>1, <1>4, <1>5 DEF Typed, EMPTY_POOL_PLACEHOLDER
<1>7. tls # EMPTY_POOL_PLACEHOLDER /\ tls # nil
  BY <1>6 DEF nil, EMPTY_POOL_PLACEHOLDER
<1>8. tls \in 1 .. Len(pages) /\ Len(pages) \in Nat
  BY <1>1, <1>7, HotPageIs, PagesType
<1>9. f.this \in 1 .. Len(pages)
  BY <1>4, <1>5, <1>6, <1>8
<1>10. Len(pages[f.this]) \in Nat
  BY <1>1, <1>9, PagesType
<1> QED
  BY <1>2, <1>3, <1>4, <1>5, <1>6, <1>7, <1>8, <1>9, <1>10

LEMMA ParentInUse ==
  ASSUME IInv, Looping, pages[tls] = <<>>
  PROVE  tls > 1 /\ Top.this < tls /\ pages[tls - 1] # <<>>
<1>1. Pops(Top) /\ Len(pages[Top.this]) # Top.stop - 1
  BY DEF Looping, Pops
<1>2. /\ Top \in FrameType /\ tls \in Nat /\ tls >= 1 /\ tls \in 1 .. Len(pages) /\ tls # EMPTY_POOL_PLACEHOLDER
      /\ tls # nil
      /\ Top.this \in 1 .. Len(pages) /\ Top.this <= tls /\ Top.this \in Nat /\ Top.stop \in Nat
      /\ Top.this >= 1 /\ Top.stop >= 1
      /\ Len(pages[Top.this]) \in Nat /\ Len(pages[Top.this]) >= Top.stop - 1
  BY <1>1, PopOnTop
<1>3. Typed /\ Layout /\ Holes /\ COUNT \in Nat /\ COUNT >= 2 /\ Len(pages) \in Nat
  BY PagesType, AutoreleasePoolAssumption DEF IInv
<1>4. Len(pages[Top.this]) >= 1 /\ Len(pages[tls]) = 0
  BY <1>1, <1>2
<1>5. Top.this # tls
  BY <1>4
<1>6. PICK i \in Nat : i = tls - 1 /\ i >= 1 /\ i < tls /\ i + 1 = tls /\ i \in 1 .. Len(pages)
  BY <1>2, <1>3, <1>5
<1>7. pages[i] # <<>>
  <2>1. SUFFICES ASSUME pages[i] = <<>> PROVE FALSE
    OBVIOUS
  <2>2. CASE ~DebugPoolAllocation
    <3>1. Len(pages[i]) = COUNT
      BY <1>2, <1>3, <1>6, <2>2 DEF Layout
    <3> QED
      BY <1>3, <2>1, <3>1
  <2>3. CASE DebugPoolAllocation
    <3>1. PICK k \in 2 .. Len(frames) : FirstAt(frames[k], i + 1)
      BY <1>3, <1>6, <2>1, <2>3 DEF Holes
    <3>2. PICK n \in Nat : n = Len(frames) /\ n >= 1 /\ \A m \in 1 .. n : frames[m] \in FrameType
      BY <1>3, FramesType
    <3>3. k \in 1 .. n /\ (k = n \/ k < n)
      BY <3>2
    <3>4. \A m \in 1 .. n : FrameOk(frames[m], m, n)
      BY <3>2 DEF IInv, Frames
    <3>5. PICK f \in FrameType : f = frames[k]
      BY <3>2, <3>3
    <3>6. FrameOk(f, k, n) /\ FirstAt(f, tls)
      BY <1>6, <3>1, <3>3, <3>4, <3>5
    <3>7. ~Boundary(tls, 1)
      <4>1. 1 \notin 1 .. Len(pages[tls])
        BY <1>4
      <4> QED
        BY <4>1 DEF Boundary, Used
    <3>8. CASE f.tokens = <<>>
      <4>1. f.pc = "releasing" /\ f.this = tls /\ f.stop = 1
        BY <3>6, <3>8 DEF FirstAt
      <4>2. k = n
        BY <3>3, <3>6, <3>7, <4>1 DEF FrameOk, WorkOk
      <4>3. f = Top
        BY <3>2, <3>5, <4>2 DEF Top
      <4> QED
        BY <1>5, <4>1, <4>3
    <3>9. CASE f.tokens # <<>>
      <4>1. 1 \in 1 .. Len(f.tokens)
        BY <3>9, TokensType
      <4>2. TokenOk(f.tokens[1]) /\ TPage(f.tokens[1]) = tls /\ TSlot(f.tokens[1]) = 1
        BY <3>6, <3>9, <4>1 DEF FirstAt, FrameOk
      <4> QED
        BY <1>2, <3>7, <4>2 DEF TokenOk
    <3> QED
      BY <3>8, <3>9
  <2> QED
    BY <2>2, <2>3
<1> QED
  BY <1>2, <1>5, <1>6, <1>7

LEMMA HotNonEmptyIs ==
  ASSUME IInv, Looping, NEW h, h = HotNonEmpty
  PROVE  /\ h \in Nat /\ h >= 1 /\ h <= tls /\ pages[h] # <<>> /\ h >= Top.this
         /\ \A j \in 1 .. Len(pages) : j > h => pages[j] = <<>>
<1>1. Pops(Top) /\ Len(pages[Top.this]) # Top.stop - 1
  BY DEF Looping, Pops
<1>2. /\ tls \in Nat /\ tls >= 1 /\ tls \in 1 .. Len(pages) /\ Top.this <= tls /\ Top.this \in Nat /\ Top.stop \in Nat
      /\ Top.this >= 1 /\ Top.stop >= 1
      /\ Len(pages[Top.this]) \in Nat /\ Len(pages[Top.this]) >= Top.stop - 1
  BY <1>1, PopOnTop
<1>3. hotPage = tls
  BY <1>2 DEF hotPage, EMPTY_POOL_PLACEHOLDER
<1>4. \E m \in 1 .. tls : ~empty(m) /\ \A j \in m + 1 .. tls : empty(j)
  <2>1. CASE pages[tls] # <<>>
    <3>1. tls \in 1 .. tls /\ \A j : j \notin tls + 1 .. tls
      BY <1>2
    <3> QED
      BY <2>1, <3>1 DEF empty
  <2>2. CASE pages[tls] = <<>>
    <3>1. tls > 1 /\ pages[tls - 1] # <<>>
      BY <2>2, ParentInUse
    <3>2. PICK m \in Nat : m = tls - 1 /\ m \in 1 .. tls /\ \A j \in m + 1 .. tls : j = tls
      BY <1>2, <3>1
    <3> QED
      BY <2>2, <3>1, <3>2 DEF empty
  <2> QED
    BY <2>1, <2>2
<1>5. h \in 1 .. tls /\ ~empty(h) /\ \A j \in h + 1 .. tls : empty(j)
  BY <1>3, <1>4 DEF HotNonEmpty
<1>6. pages[h] # <<>> /\ h \in Nat /\ h >= 1 /\ h <= tls /\ \A j \in h + 1 .. tls : pages[j] = <<>>
  BY <1>2, <1>5 DEF empty
<1>7. h >= Top.this
  <2>1. SUFFICES ASSUME h < Top.this PROVE FALSE
    BY <1>2, <1>6
  <2>2. Top.this \in h + 1 .. tls
    BY <1>2, <1>6, <2>1
  <2>3. Len(pages[Top.this]) = 0
    BY <1>6, <2>2
  <2> QED
    BY <1>1, <1>2, <2>3
<1>8. ASSUME NEW j \in 1 .. Len(pages), j > h PROVE pages[j] = <<>>
  <2>1. CASE j > tls
    BY <1>2, <2>1 DEF IInv, Layout, nil, EMPTY_POOL_PLACEHOLDER
  <2>2. CASE j <= tls
    <3>1. j \in h + 1 .. tls
      BY <1>2, <1>6, <1>8, <2>2
    <3> QED
      BY <1>6, <3>1
  <2> QED
    BY <1>2, <2>1, <2>2
<1> QED
  BY <1>6, <1>7, <1>8

\* Taking x from slot s of page h, the highest one in use.
Shrunk(h, s, x) ==
  /\ h \in Nat /\ s \in Nat /\ h >= 1 /\ s >= 1 /\ h <= tls /\ h \in 1 .. Len(pages)
  /\ Used(h, s) /\ pages[h][s] = x /\ x \in Values
  /\ \A j \in 1 .. Len(pages) : j > h => pages[j] = <<>>
  /\ tls' = h
  /\ pages' \in Seq(Seq(Values)) /\ Len(pages') = Len(pages)
  /\ \A j \in 1 .. Len(pages) : (j # h => pages'[j] = pages[j]) /\ Len(pages'[j]) <= COUNT
  /\ Len(pages[h]) = s /\ Len(pages'[h]) = s - 1
  /\ \A j, r \in Nat : Used(j, r)' <=> Used(j, r) /\ ~(j = h /\ r = s)
  /\ \A j, r \in Nat : Used(j, r)' => pages'[j][r] = pages[j][r]
  /\ \A j, r \in Nat : Used(j, r) => NotAfter(j, r, h, s)

LEMMA ShrunkOp ==
  ASSUME Typed, Layout, NEW h \in Nat, h >= 1, h <= tls, tls \in 1 .. Len(pages), tls \in Nat, pages[h] # <<>>,
         \A j \in 1 .. Len(pages) : j > h => pages[j] = <<>>,
         tls' = h, pages' = [pages EXCEPT ![h] = Front(@)], NEW x, x = Last(pages[h])
  PROVE  \E s \in Nat : Shrunk(h, s, x)
<1>1. PICK pgs \in Seq(Seq(Values)) : pgs = pages
  BY DEF Typed
<1>2. PICK c \in Nat : c = Len(pgs) /\ h \in 1 .. c
  BY <1>1
<1>3. PICK q \in Seq(Values) : q = pgs[h] /\ q # <<>>
  BY <1>1, <1>2
<1>4. PICK s \in Nat : s = Len(q) /\ s >= 1
  BY <1>3
<1>5. PICK u : u = SubSeq(q, 1, s - 1)
  OBVIOUS
<1>6. PICK d \in Nat : d = s - 1 /\ d <= s
  <2>1. s - 1 \in Nat /\ s - 1 <= s
    BY <1>4
  <2> QED
    BY <2>1
<1>7. u \in Seq(Values) /\ Len(u) = d /\ \A r \in 1 .. d : u[r] = q[r]
  BY <1>4, <1>5, <1>6
<1>8. x = q[s] /\ x \in Values
  <2>1. x = q[s]
    BY <1>1, <1>3, <1>4 DEF Last
  <2> QED
    BY <1>3, <1>4, <2>1
<1>9. PICK new : new = [pgs EXCEPT ![h] = u]
  OBVIOUS
<1>10. pages' = new
  BY <1>1, <1>3, <1>4, <1>5, <1>9 DEF Front
<1>11. new \in Seq(Seq(Values)) /\ Len(new) = c /\ new[h] = u /\ \A j \in 1 .. c : j # h => new[j] = pgs[j]
  BY <1>2, <1>7, <1>9
<1>12. \A j \in 1 .. c : Len(pgs[j]) \in Nat /\ Len(pgs[j]) <= COUNT /\ (pgs[j] = <<>> => Len(pgs[j]) = 0)
  BY <1>1, <1>2, PagesType
<1>13. \A j \in 1 .. c : Len(new[j]) <= COUNT
  <2>1. s <= COUNT
    BY <1>2, <1>3, <1>4, <1>12
  <2>2. Len(new[h]) <= COUNT
    BY <1>6, <1>7, <1>11, <2>1, AutoreleasePoolAssumption
  <2> QED
    BY <1>11, <1>12, <2>2
<1>17. \A j \in 1 .. c : j > h => Len(pgs[j]) = 0
  <2>1. \A j \in 1 .. c : j > h => pgs[j] = <<>>
    BY <1>1, <1>2
  <2> QED
    BY <1>12, <2>1
<1>14. ASSUME NEW j \in Nat, NEW r \in Nat
       PROVE  /\ Used(j, r)' <=> Used(j, r) /\ ~(j = h /\ r = s)
              /\ Used(j, r)' => new[j][r] = pgs[j][r]
              /\ Used(j, r) => NotAfter(j, r, h, s)
  <2>1. Used(j, r) <=> j \in 1 .. c /\ r \in 1 .. Len(pgs[j])
    BY <1>1, <1>2 DEF Used
  <2>2. Used(j, r)' <=> j \in 1 .. c /\ r \in 1 .. Len(new[j])
    BY <1>10, <1>11 DEF Used
  <2>3. CASE j = h
    <3>1. r \in 1 .. Len(new[j]) <=> r \in 1 .. Len(pgs[j]) /\ r # s
      <4>1. Len(new[j]) = d /\ Len(pgs[j]) = s
        BY <1>3, <1>4, <1>7, <1>11, <2>3
      <4>2. r \in 1 .. d <=> r \in 1 .. s /\ r # s
        BY <1>4, <1>6
      <4> QED
        BY <4>1, <4>2
    <3>2. r \in 1 .. Len(pgs[j]) => r <= s
      BY <1>3, <1>4, <2>3
    <3> QED
      BY <1>3, <1>7, <1>11, <2>1, <2>2, <2>3, <3>1, <3>2 DEF NotAfter
  <2>4. CASE j # h
    <3>1. Used(j, r) => ~(j > h)
      BY <1>17, <2>1
    <3>2. Used(j, r) => new[j] = pgs[j] /\ j < h
      BY <1>11, <2>1, <2>4, <3>1
    <3>3. Used(j, r)' => new[j] = pgs[j]
      BY <1>11, <2>2, <2>4
    <3> QED
      BY <2>1, <2>2, <2>4, <3>2, <3>3 DEF NotAfter
  <2> QED
    BY <2>3, <2>4
<1>15. Used(h, s)
  BY <1>1, <1>2, <1>3, <1>4 DEF Used
<1>16. Shrunk(h, s, x)
  <2>1. /\ h \in 1 .. Len(pages) /\ Used(h, s) /\ pages[h][s] = x /\ x \in Values /\ Len(pages[h]) = s
    BY <1>1, <1>2, <1>3, <1>4, <1>8, <1>15
  <2>2. /\ pages' \in Seq(Seq(Values)) /\ Len(pages') = Len(pages) /\ Len(pages'[h]) = s - 1
        /\ \A j \in 1 .. Len(pages) : (j # h => pages'[j] = pages[j]) /\ Len(pages'[j]) <= COUNT
    BY <1>1, <1>2, <1>6, <1>7, <1>10, <1>11, <1>13
  <2>3. /\ \A j, r \in Nat : Used(j, r)' <=> Used(j, r) /\ ~(j = h /\ r = s)
        /\ \A j, r \in Nat : Used(j, r)' => pages'[j][r] = pages[j][r]
        /\ \A j, r \in Nat : Used(j, r) => NotAfter(j, r, h, s)
    BY <1>1, <1>10, <1>14
  <2> QED
    BY <1>4, <2>1, <2>2, <2>3 DEF Shrunk
<1> QED
  BY <1>16

LEMMA ShrunkSame ==
  ASSUME NEW h, NEW s, NEW x, Shrunk(h, s, x)
  PROVE  SameBelow(h, s) /\ (\A j, r \in Nat : Boundary(j, r) /\ Before(j, r, h, s) => Boundary(j, r)')
<1>1. /\ h \in Nat /\ s \in Nat
      /\ \A j, r \in Nat : Used(j, r)' <=> Used(j, r) /\ ~(j = h /\ r = s)
      /\ \A j, r \in Nat : Used(j, r)' => pages'[j][r] = pages[j][r]
  BY DEF Shrunk
<1>2. ~Before(h, s, h, s)
  BY <1>1 DEF Before
<1>3. SameBelow(h, s)
  BY <1>1, <1>2 DEF SameBelow
<1>4. \A j, r \in Nat : Boundary(j, r) /\ Before(j, r, h, s) => Boundary(j, r)'
  BY <1>1, <1>2 DEF Boundary
<1> QED
  BY <1>3, <1>4

LEMMA ShrunkLayout ==
  ASSUME Typed, Layout, SameEnv, NEW h, NEW s, NEW x, Shrunk(h, s, x)
  PROVE  Layout'
<1>1. /\ h \in Nat /\ h >= 1 /\ h <= tls /\ h \in 1 .. Len(pages) /\ tls' = h /\ Len(pages') = Len(pages)
      /\ \A j \in 1 .. Len(pages) : j > h => pages[j] = <<>>
      /\ \A j \in 1 .. Len(pages) : j # h => pages'[j] = pages[j]
  BY DEF Shrunk
<1>2. tls \in Nat /\ tls >= 1 /\ Len(pages) \in Nat
  BY <1>1, PagesType DEF Typed, EMPTY_POOL_PLACEHOLDER
<1>3. ~DebugPoolAllocation => \A i \in 1 .. Len(pages) : i < tls => Len(pages[i]) = COUNT
  BY <1>2 DEF Layout, nil, EMPTY_POOL_PLACEHOLDER
<1>4. \A j \in 1 .. Len(pages) : j > h => j # h
  BY <1>1
<1>5. \A j \in 1 .. Len(pages) : j < h => j # h /\ j < tls
  BY <1>1, <1>2
<1> QED
  BY <1>1, <1>3, <1>4, <1>5 DEF Layout, SameEnv

LEMMA ShrunkToken ==
  ASSUME Typed, Typed', SameEnv, tls # EMPTY_POOL_PLACEHOLDER, NEW h, NEW s, NEW x, Shrunk(h, s, x),
         NEW token \in TokenType, TokenOk(token), Before(TPage(token), TSlot(token), h, s)
  PROVE  TokenOk(token)'
<1>1. PICK p \in Nat, r \in Nat : p = TPage(token) /\ r = TSlot(token)
  BY TokenFacts
<1>2. /\ p >= 1 /\ r >= 1 /\ Boundary(p, r) /\ (DebugPoolAllocation => r = 1)
      /\ token.below = Under(pages, p, r) /\ Before(p, r, h, s)
  BY <1>1 DEF TokenOk
<1>3. Boundary(p, r)' /\ SameBelow(h, s)
  BY <1>2, ShrunkSame
<1>4. NotAfter(p, r, h, s) /\ h \in Nat /\ s \in Nat
  BY <1>2 DEF Before, NotAfter, Shrunk
<1>5. Under(pages, p, r)' = Under(pages, p, r)
  BY <1>3, <1>4, UnderSame
<1> QED
  BY <1>1, <1>2, <1>3, <1>5 DEF TokenOk, SameEnv, TPage, TSlot, SlotOf

\* Taking the highest slot leaves the pops that are to go to it or below it.
LEMMA ShrunkFrame ==
  ASSUME Typed, Typed', SameEnv, tls # EMPTY_POOL_PLACEHOLDER, NEW h, NEW s, NEW x, Shrunk(h, s, x),
         NEW f \in FrameType, NEW k \in Nat, NEW n \in Nat, FrameOk(f, k, n), Pops(f), k <= n,
         NotAfter(f.this, f.stop, h, s), NEW m \in Nat,
         k < m /\ f.pc = "releasing" => Boundary(f.this, f.stop)'
  PROVE  FrameOk(f, k, m)'
<1>1. /\ WorkOk(f, k, n) /\ InFrame(f) /\ f.this \in Nat /\ f.stop \in Nat
      /\ \A v \in 1 .. Len(f.tokens) : TokenOk(f.tokens[v])
  BY TokensType DEF FrameOk
<1>2. /\ h \in Nat /\ s \in Nat /\ h >= 1 /\ s >= 1 /\ h <= tls /\ h \in 1 .. Len(pages) /\ tls' = h
      /\ Len(pages') = Len(pages)
      /\ \A j \in 1 .. Len(pages) : j # h => pages'[j] = pages[j]
      /\ Len(pages[h]) = s /\ Len(pages'[h]) = s - 1
      /\ \A j, r \in Nat : Used(j, r)' => Used(j, r) /\ pages'[j][r] = pages[j][r]
  BY DEF Shrunk
<1>3. \A v \in 1 .. Len(f.tokens) : TokenOk(f.tokens[v])'
  <2>1. ASSUME NEW v \in 1 .. Len(f.tokens) PROVE TokenOk(f.tokens[v])'
    <3>1. PICK t \in TokenType : t = f.tokens[v] /\ TPage(t) \in Nat /\ TSlot(t) \in Nat
      BY TokensType
    <3>2. TokenOk(t) /\ Before(TPage(t), TSlot(t), f.this, f.stop)
      BY <1>1, <3>1 DEF InFrame
    <3>3. Before(TPage(t), TSlot(t), h, s)
      BY <1>1, <1>2, <3>1, <3>2 DEF Before, NotAfter
    <3>4. TokenOk(t)'
      BY <3>2, <3>3, ShrunkToken
    <3> QED
      BY <3>1, <3>4
  <2> QED
    BY <2>1
<1>4. /\ 1 <= f.this /\ f.this <= tls /\ 1 <= f.stop /\ f.stop <= COUNT
      /\ Len(pages[f.this]) >= f.stop - 1 /\ (DebugPoolAllocation => f.stop = 1)
  BY <1>1 DEF WorkOk
<1>5. f.this <= h /\ f.this \in 1 .. Len(pages)
  <2>1. f.this <= h
    BY <1>1, <1>2 DEF NotAfter
  <2> QED
    BY <1>1, <1>2, <1>4, <2>1, PagesType
<1>6. Len(pages'[f.this]) >= f.stop - 1
  <2>1. CASE f.this = h
    <3>1. f.stop <= s
      BY <1>1, <1>2, <2>1 DEF NotAfter
    <3> QED
      BY <1>1, <1>2, <2>1, <3>1
  <2>2. CASE f.this # h
    BY <1>2, <1>4, <1>5, <2>2
  <2> QED
    BY <2>1, <2>2
<1>7. f.pc = "exiting" => k = 1 /\ f.this = 1 /\ f.stop = 1 /\ f.tokens = <<>>
  BY <1>1 DEF WorkOk
<1>8. ASSUME f.pc = "releasing"
      PROVE  /\ f.below = Under(pages, f.this, f.stop)'
             /\ k < m \/ Len(pages'[f.this]) >= f.stop => Boundary(f.this, f.stop)'
  <2>1. f.below = Under(pages, f.this, f.stop)
    BY <1>1, <1>8 DEF WorkOk
  <2>2. Under(pages, f.this, f.stop)' = Under(pages, f.this, f.stop)
    BY <1>1, <1>2, ShrunkSame, UnderSame
  <2>3. ASSUME Len(pages'[f.this]) >= f.stop PROVE Boundary(f.this, f.stop)'
    <3>1. f.stop \in 1 .. Len(pages'[f.this])
      <4>1. PICK q \in Seq(Values) : q = pages'[f.this]
        <5>1. PICK new \in Seq(Seq(Values)) : new = pages'
          BY DEF Shrunk
        <5>2. f.this \in 1 .. Len(new)
          BY <1>2, <1>5, <5>1
        <5> QED
          BY <5>1, <5>2
      <4> QED
        BY <1>1, <1>4, <2>3, <4>1
    <3>2. Used(f.this, f.stop)'
      BY <1>2, <1>5, <3>1 DEF Used
    <3>3. Used(f.this, f.stop) /\ pages'[f.this][f.stop] = pages[f.this][f.stop]
      BY <1>1, <1>2, <3>2
    <3>4. Len(pages[f.this]) >= f.stop
      BY <1>1, <1>5, <3>3, PagesType DEF Used
    <3>5. Boundary(f.this, f.stop)
      BY <1>1, <1>8, <3>4 DEF WorkOk
    <3> QED
      BY <3>2, <3>3, <3>5 DEF Boundary
  <2> QED
    BY <1>8, <2>1, <2>2, <2>3
<1>9. WorkOk(f, k, m)'
  BY <1>2, <1>4, <1>5, <1>6, <1>7, <1>8 DEF WorkOk, SameEnv, Pops
<1> QED
  BY <1>1, <1>3, <1>9, InFrameStays DEF FrameOk

LEMMA ShrunkOf ==
  ASSUME Typed, Typed', NEW h, NEW s, NEW x, Shrunk(h, s, x), NEW o \in Objects
  PROVE  Cardinality(Of(o)') = Cardinality(Of(o)) - (IF x = o THEN 1 ELSE 0)
<1>1. /\ \A j, r \in Nat : <<j, r>> \in Of(o) <=> Used(j, r) /\ pages[j][r] = o
      /\ \A p \in Of(o) : \E j, r \in Nat : p = <<j, r>>
      /\ IsFiniteSet(Of(o)) /\ Cardinality(Of(o)) \in Nat
  BY TypedOfAre DEF OfAre
<1>2. /\ \A j, r \in Nat : <<j, r>> \in Of(o)' <=> Used(j, r)' /\ pages'[j][r] = o
      /\ \A p \in Of(o)' : \E j, r \in Nat : p = <<j, r>>
  <2>1. OfAre'
    BY TypedOfAre, PTL
  <2> QED
    BY <2>1 DEF OfAre
<1>3. /\ h \in Nat /\ s \in Nat /\ pages[h][s] = x /\ Used(h, s)
      /\ \A j, r \in Nat : Used(j, r)' <=> Used(j, r) /\ ~(j = h /\ r = s)
      /\ \A j, r \in Nat : Used(j, r)' => pages'[j][r] = pages[j][r]
  BY DEF Shrunk
<1>4. PICK A, B, w : A = Of(o) /\ B = Of(o)' /\ w = <<h, s>>
  OBVIOUS
<1>5. w \notin B /\ (w \in A <=> x = o)
  BY <1>1, <1>2, <1>3, <1>4
<1>6. ASSUME NEW p, p # w PROVE p \in A <=> p \in B
  <2>1. SUFFICES ASSUME p \in A \cup B PROVE p \in A <=> p \in B
    OBVIOUS
  <2>2. PICK j \in Nat, r \in Nat : p = <<j, r>>
    BY <1>1, <1>2, <1>4, <2>1
  <2>3. ~(j = h /\ r = s)
    BY <1>4, <1>6, <2>2
  <2> QED
    BY <1>1, <1>2, <1>3, <1>4, <2>2, <2>3
<1>7. CASE x = o
  <2>1. B = A \ {w} /\ w \in A
    BY <1>5, <1>6, <1>7
  <2>2. Cardinality(A \ {w}) = Cardinality(A) - 1
    BY <1>1, <1>4, <2>1, FS_RemoveElement
  <2> QED
    BY <1>4, <1>7, <2>1, <2>2
<1>8. CASE x # o
  <2>1. B = A
    BY <1>5, <1>6, <1>8
  <2> QED
    BY <1>1, <1>4, <1>8, <2>1
<1> QED
  BY <1>7, <1>8

\* What is taken was counted.
LEMMA ShrunkBalance ==
  ASSUME IInv, NEW h, NEW s, NEW x, Shrunk(h, s, x),
         balance' = IF x = POOL_BOUNDARY THEN balance ELSE [balance EXCEPT ![x] = @ - 1]
  PROVE  /\ balance' \in [Objects -> Nat]
         /\ \A o \in Objects : balance[o] \in Nat /\ balance'[o] = balance[o] - (IF x = o THEN 1 ELSE 0)
<1>1. Typed /\ NoLostRelease /\ x \in Values /\ POOL_BOUNDARY \notin Objects /\ balance \in [Objects -> Nat]
  BY AutoreleasePoolAssumption DEF IInv, Typed, Shrunk
<1>2. CASE x = POOL_BOUNDARY
  BY <1>1, <1>2
<1>3. CASE x # POOL_BOUNDARY
  <2>1. x \in Objects
    BY <1>1, <1>3 DEF Values
  <2>2. /\ \A j, r \in Nat : <<j, r>> \in Of(x) <=> Used(j, r) /\ pages[j][r] = x
        /\ IsFiniteSet(Of(x)) /\ Cardinality(Of(x)) \in Nat
    BY <1>1, TypedOfAre DEF OfAre
  <2>3. <<h, s>> \in Of(x)
    BY <2>2 DEF Shrunk
  <2>4. Cardinality(Of(x)) # 0
    BY <2>2, <2>3, FS_EmptySet
  <2>5. balance[x] = Cardinality(Of(x))
    BY <1>1, <2>1, AccountIs
  <2>6. balance[x] - 1 \in Nat
    BY <2>2, <2>4, <2>5
  <2> QED
    BY <1>1, <1>3, <2>1, <2>6
<1> QED
  BY <1>2, <1>3

\* One round of releaseUntil: frames stay, or client code runs above the pop.
LEMMA ReleaseOneStep ==
  ASSUME IInv, ReleaseOne
  PROVE  IInv'
<1> PICK n \in Nat : n = Len(frames) /\ n >= 1 /\ n \in 1 .. n
  BY FramesType DEF IInv
<1>1. /\ Typed /\ Layout /\ Nesting /\ ColdPool /\ ColdBoundary /\ Holes /\ PoolStarts /\ ~fatal
      /\ \A k \in 1 .. n : FrameOk(frames[k], k, n)
  BY DEF IInv, Frames
<1>2. PICK h, x : h = HotNonEmpty /\ x = Last(pages[h])
  OBVIOUS
<1>3. /\ Looping /\ tls' = h /\ pages' = [pages EXCEPT ![h] = Front(@)]
      /\ balance' = IF x = POOL_BOUNDARY THEN balance ELSE [balance EXCEPT ![x] = @ - 1]
      /\ \/ frames' = frames
         \/ x # POOL_BOUNDARY /\ frames' = Append(frames, Frame("client", <<>>))
      /\ fatal' = fatal /\ env' = env
  BY <1>2 DEF ReleaseOne
<1>4. SameEnv
  BY <1>3 DEF SameEnv, DebugPoolAllocation, DebugMissingPools
<1>5. PICK f \in FrameType : f = Top /\ f = frames[n]
  BY <1>1, FramesType
<1>6. Pops(f) /\ Len(pages[f.this]) # f.stop - 1
  BY <1>3, <1>5 DEF Looping, Pops
<1>7. /\ FrameOk(f, n, n)
      /\ tls \in Nat /\ tls >= 1 /\ tls \in 1 .. Len(pages) /\ tls # EMPTY_POOL_PLACEHOLDER /\ tls # nil
      /\ f.this \in 1 .. Len(pages) /\ f.this <= tls /\ f.this \in Nat /\ f.stop \in Nat
      /\ f.this >= 1 /\ f.stop >= 1
      /\ Len(pages[f.this]) \in Nat /\ Len(pages[f.this]) >= f.stop - 1
  BY <1>5, <1>6, PopOnTop
<1>8. /\ h \in Nat /\ h >= 1 /\ h <= tls /\ pages[h] # <<>> /\ h >= f.this
      /\ \A j \in 1 .. Len(pages) : j > h => pages[j] = <<>>
  BY <1>2, <1>3, <1>5, HotNonEmptyIs
<1>9. PICK s \in Nat : Shrunk(h, s, x)
  BY <1>1, <1>2, <1>3, <1>7, <1>8, ShrunkOp
<1>10. Used(f.this, f.stop) /\ NotAfter(f.this, f.stop, h, s)
  <2>1. Used(f.this, f.stop)
    BY <1>6, <1>7 DEF Used
  <2> QED
    BY <1>7, <1>9, <2>1 DEF Shrunk
<1>11. /\ balance' \in [Objects -> Nat]
       /\ \A o \in Objects : balance[o] \in Nat /\ balance'[o] = balance[o] - (IF x = o THEN 1 ELSE 0)
  BY <1>3, <1>9, ShrunkBalance
<1>12. PICK g : g = Frame("client", <<>>)
  OBVIOUS
<1>13. g \in FrameType /\ g.pc = "client" /\ g.tokens = <<>> /\ g.this = nil /\ ~Pops(g)
  <2>1. <<>> \in Seq(TokenType)
    OBVIOUS
  <2> QED
    BY <1>12, <2>1, FrameFacts DEF Pops
<1>14. PICK l \in Nat : /\ l = Len(frames') /\ l >= n /\ (l = n \/ (l = n + 1 /\ x # POOL_BOUNDARY /\ frames'[l] = g))
                        /\ frames' \in Seq(FrameType) /\ Len(frames') >= 1
                        /\ \A k \in 1 .. n : frames'[k] = frames[k]
                        /\ Top' = IF l = n THEN f ELSE g
  <2>1. CASE frames' = frames
    <3>1. frames \in Seq(FrameType) /\ Len(frames) >= 1
      BY <1>1 DEF Typed
    <3>2. Top' = f
      BY <1>5, <2>1 DEF Top
    <3> QED
      BY <2>1, <3>1, <3>2
  <2>2. CASE x # POOL_BOUNDARY /\ frames' = Append(frames, g)
    <3>1. /\ frames' \in Seq(FrameType) /\ Len(frames') = Len(frames) + 1 /\ Len(frames') >= 1
          /\ frames'[Len(frames) + 1] = g /\ Top' = g
          /\ \A k \in 1 .. Len(frames) : frames'[k] = frames[k]
      BY <1>1, <1>13, <2>2, CallOp
    <3>2. n + 1 \in Nat /\ n + 1 >= n /\ n + 1 # n
      OBVIOUS
    <3> QED
      BY <2>2, <3>1, <3>2
  <2> QED
    BY <1>3, <1>12, <2>1, <2>2
<1>15. Typed'
  BY <1>9, <1>11, <1>14 DEF Typed, Shrunk
<1>16. Layout'
  BY <1>1, <1>4, <1>9, ShrunkLayout
<1>17. NoLostRelease'
  <2>1. ASSUME NEW o \in Objects PROVE balance'[o] = Cardinality(Of(o)')
    BY <1>1, <1>9, <1>11, <1>15, ShrunkOf, AccountIs DEF IInv
  <2>2. (\A o \in Objects : balance[o] = Cardinality(Of(o)))'
    BY <2>1
  <2> QED
    BY <2>2 DEF NoLostRelease, Of
<1>18. PoolStarts' /\ Unplaced' /\ ~fatal'
  <2>1. PoolStarts'
    <3>1. \A j, r \in Nat : Boundary(j, r)' => Boundary(j, r)
      BY <1>9 DEF Shrunk, Boundary
    <3> QED
      BY <1>1, <1>4, <3>1 DEF PoolStarts, SameEnv
  <2>2. tls' # EMPTY_POOL_PLACEHOLDER
    BY <1>3, <1>8 DEF EMPTY_POOL_PLACEHOLDER
  <2> QED
    BY <1>1, <1>3, <2>1, <2>2 DEF Unplaced
<1>19. ASSUME NEW k \in 1 .. n, k < n PROVE Pops(frames[k]) /\ frames[k] \in FrameType
  BY <1>1, <1>19, FramesType DEF FrameOk, WorkOk
<1>20. Frames'
  <2>1. ASSUME NEW k \in 1 .. n, k < n PROVE \E e : e = frames[k] /\ FrameOk(e, k, l)'
    <3>1. PICK e \in FrameType : e = frames[k] /\ Pops(e) /\ e.this \in Nat /\ e.stop \in Nat
      BY <1>19, <2>1, TokensType
    <3>2. FrameOk(e, k, n) /\ WorkOk(e, k, n)
      BY <1>1, <3>1 DEF FrameOk
    <3>3. Above(e, f.this, f.stop)
      <4>1. Nested(e, f)
        BY <1>1, <1>5, <2>1, <3>1 DEF Nesting
      <4> QED
        BY <1>6, <4>1 DEF Nested
    <3>4. h >= 1 /\ s >= 1 /\ k \in Nat
      BY <1>9 DEF Shrunk
    <3>5. CASE e.pc = "releasing"
      <4>1. Before(e.this, e.stop, f.this, f.stop)
        BY <3>3, <3>5 DEF Above
      <4>2. Before(e.this, e.stop, h, s)
        BY <1>7, <1>8, <1>10, <3>1, <4>1 DEF Before, NotAfter
      <4>3. NotAfter(e.this, e.stop, h, s)
        BY <1>8, <3>1, <4>2 DEF Before, NotAfter
      <4>4. Boundary(e.this, e.stop)
        BY <2>1, <3>2, <3>5 DEF WorkOk
      <4>5. Boundary(e.this, e.stop)'
        BY <1>9, <3>1, <4>2, <4>4, ShrunkSame
      <4>6. FrameOk(e, k, l)'
        BY <1>1, <1>4, <1>7, <1>9, <1>15, <2>1, <3>1, <3>2, <3>4, <4>3, <4>5, ShrunkFrame
      <4> QED
        BY <3>1, <4>6
    <3>6. CASE e.pc = "exiting"
      <4>1. e.this = 1 /\ e.stop = 1
        BY <3>2, <3>6 DEF WorkOk
      <4>2. NotAfter(e.this, e.stop, h, s)
        BY <1>8, <3>4, <4>1 DEF NotAfter
      <4>3. e.pc # "releasing"
        BY <3>6
      <4>4. FrameOk(e, k, l)'
        <5>1. Typed /\ SameEnv /\ tls # EMPTY_POOL_PLACEHOLDER /\ n \in Nat /\ l \in Nat /\ k \in Nat /\ k <= n
          BY <1>1, <1>4, <1>7, <2>1, <3>4
        <5>2. k < l /\ e.pc = "releasing" => Boundary(e.this, e.stop)'
          BY <4>3
        <5> QED
          BY <1>9, <1>15, <3>1, <3>2, <4>2, <5>1, <5>2, ShrunkFrame
      <4> QED
        BY <3>1, <4>4
    <3> QED
      BY <3>1, <3>5, <3>6 DEF Pops
  <2>2. FrameOk(f, n, l)'
    <3>1. ASSUME n < l, f.pc = "releasing" PROVE Boundary(f.this, f.stop)'
      <4>1. Boundary(f.this, f.stop)
        <5>1. Len(pages[f.this]) >= f.stop
          BY <1>6, <1>7
        <5> QED
          BY <1>7, <3>1, <5>1 DEF FrameOk, WorkOk
      <4>2. x # POOL_BOUNDARY
        BY <1>14, <3>1
      <4>3. ~(f.this = h /\ f.stop = s)
        BY <1>9, <4>1, <4>2 DEF Shrunk, Boundary
      <4>4. Before(f.this, f.stop, h, s)
        BY <1>7, <1>8, <1>10, <4>3 DEF Before, NotAfter
      <4> QED
        BY <1>7, <1>9, <4>1, <4>4, ShrunkSame
    <3> QED
      BY <1>1, <1>4, <1>6, <1>7, <1>9, <1>10, <1>15, <3>1, ShrunkFrame
  <2>3. FrameOk(g, l, l)'
    <3>1. \A m : m \notin 1 .. Len(g.tokens)
      BY <1>13
    <3>2. g.pc # "exiting" /\ g.pc # "releasing"
      BY <1>13
    <3>3. WorkOk(g, l, l)'
      BY <1>13, <3>2 DEF WorkOk, Pops
    <3> QED
      BY <3>1, <3>3 DEF FrameOk, InFrame
  <2>4. ASSUME NEW k \in 1 .. l PROVE \E e : e = frames'[k] /\ FrameOk(e, k, l)'
    <3>1. (k \in 1 .. n /\ (k < n \/ k = n)) \/ (k = l /\ l # n)
      BY <1>14
    <3>2. CASE k \in 1 .. n /\ k < n
      <4>1. PICK e : e = frames[k] /\ FrameOk(e, k, l)'
        BY <2>1, <3>2
      <4>2. e = frames'[k]
        BY <1>14, <3>2, <4>1
      <4> QED
        BY <4>1, <4>2
    <3>3. CASE k = n
      BY <1>5, <1>14, <2>2, <3>3
    <3>4. CASE k = l /\ l # n
      BY <1>14, <2>3, <3>4
    <3> QED
      BY <3>1, <3>2, <3>3, <3>4
  <2>5. ASSUME NEW k \in 1 .. l PROVE FrameOk(frames[k], k, l)'
    BY <2>4
  <2> QED
    BY <1>14, <2>5 DEF Frames
<1>21. Nesting'
  <2>1. ASSUME NEW j \in 1 .. Len(frames'), NEW k \in 1 .. Len(frames'), j < k
        PROVE  Nested(frames[j], frames[k])'
    <3>1. j \in 1 .. n /\ (k \in 1 .. n \/ (k = l /\ l # n))
      BY <1>14, <2>1
    <3>2. PICK e, d : e = frames'[j] /\ e = frames[j] /\ d = frames'[k]
      BY <1>14, <3>1
    <3>3. Nested(e, d)
      <4>1. CASE k \in 1 .. n
        <5>1. d = frames[k]
          BY <1>14, <3>2, <4>1
        <5> QED
          BY <1>1, <2>1, <3>1, <3>2, <4>1, <5>1 DEF Nesting
      <4>2. CASE k = l /\ l # n
        <5>1. d = g
          BY <1>14, <3>2, <4>2
        <5>2. \A m : m \notin 1 .. Len(g.tokens)
          BY <1>13
        <5> QED
          BY <1>13, <5>1, <5>2 DEF Nested
      <4> QED
        BY <3>1, <4>1, <4>2
    <3>4. Nested(e, d)'
      BY <1>4, <3>3, NestedStays
    <3> QED
      BY <3>2, <3>4
  <2> QED
    BY <2>1 DEF Nesting
<1>22. ColdBoundary'
  <2>1. SUFFICES ASSUME DebugMissingPools PROVE ColdBoundary'
    BY <1>4 DEF ColdBoundary, SameEnv
  <2>2. Boundary(1, 1)
    <3>1. pages # <<>>
      BY <1>1, <1>7, PagesType
    <3>2. ASSUME pages[1] = <<>>, f.this = 1, f.stop = 1 PROVE FALSE
      <4>1. Len(pages[1]) = 0
        BY <3>2
      <4> QED
        BY <1>6, <3>2, <4>1
    <3> QED
      BY <1>1, <1>5, <2>1, <3>1, <3>2 DEF ColdBoundary
  <2>3. CASE h = 1 /\ s = 1
    <3>1. x = POOL_BOUNDARY
      BY <1>9, <2>2, <2>3 DEF Boundary, Shrunk
    <3>2. Top' = f
      BY <1>14, <3>1
    <3>3. f.this = 1 /\ f.stop = 1
      BY <1>7, <1>8, <1>10, <2>3 DEF NotAfter
    <3>4. pages'[1] = <<>>
      <4>1. pages' \in Seq(Seq(Values)) /\ 1 \in 1 .. Len(pages') /\ Len(pages'[1]) = 0
        BY <1>9, <2>3 DEF Shrunk
      <4> QED
        BY <4>1
    <3> QED
      BY <1>6, <3>2, <3>3, <3>4 DEF ColdBoundary, Pops
  <2>4. CASE ~(h = 1 /\ s = 1)
    <3>1. Before(1, 1, h, s)
      <4>1. h >= 1 /\ s >= 1
        BY <1>9 DEF Shrunk
      <4> QED
        BY <1>8, <2>4, <4>1 DEF Before
    <3>2. Boundary(1, 1)'
      BY <1>9, <2>2, <3>1, ShrunkSame
    <3> QED
      BY <3>2 DEF ColdBoundary
  <2> QED
    BY <2>3, <2>4
<1>23. ColdPool'
  <2>1. 1 \in 1 .. n /\ frames'[1] = frames[1] /\ (n = 1 \/ 1 < n)
    BY <1>14
  <2>2. frames[1].pc # "client"
    BY <1>5, <1>6, <1>19, <2>1 DEF Pops
  <2> QED
    BY <1>1, <1>4, <2>1, <2>2 DEF ColdPool, SameEnv, TPage, TSlot, SlotOf
<1>24. Holes'
  <2>1. ASSUME DebugPoolAllocation, NEW j \in 1 .. Len(pages'), j < tls', pages'[j] = <<>>
        PROVE  \E k \in 2 .. l : FirstAt(frames'[k], j + 1)
    <3>1. j \in 1 .. Len(pages) /\ j # h /\ pages[j] = <<>> /\ j < tls
      BY <1>3, <1>7, <1>8, <1>9, <2>1 DEF Shrunk
    <3>2. PICK k \in 2 .. n : FirstAt(frames[k], j + 1)
      BY <1>1, <2>1, <3>1 DEF Holes
    <3>3. k \in 1 .. n /\ k \in 2 .. l
      BY <1>14
    <3> QED
      BY <1>14, <3>2, <3>3
  <2> QED
    BY <1>4, <1>14, <2>1 DEF Holes, SameEnv, FirstAt, TPage, TSlot, SlotOf
<1>25. HotInUse' /\ FewPages'
  <2>1. HotInUse'
    <3>1. CASE l = n
      <4>1. Top'.pc # "client"
        BY <1>6, <1>14, <3>1 DEF Pops
      <4> QED
        BY <4>1 DEF HotInUse
    <3>2. CASE l # n
      <4>1. Top'.tokens = <<>> /\ ~(Len(frames') = 1)
        BY <1>13, <1>14, <3>2
      <4> QED
        BY <4>1 DEF HotInUse
    <3> QED
      BY <3>1, <3>2
  <2>2. FewPages'
    <3>1. SUFFICES ASSUME l = 1 PROVE frames'[1].pc # "client"
      BY <1>14 DEF FewPages
    <3>2. n = 1 /\ frames'[1] = f
      BY <1>5, <1>14, <3>1
    <3> QED
      BY <1>6, <3>2 DEF Pops
  <2> QED
    BY <2>1, <2>2
<1> QED
  BY <1>15, <1>16, <1>17, <1>18, <1>20, <1>21, <1>22, <1>23, <1>24, <1>25 DEF IInv

\* Where the first pool of a client frame is, when a pop is on top and each pool
\* starts a page.
LEMMA FirstBelow ==
  ASSUME IInv, DebugPoolAllocation, Top.pc = "releasing", NEW k \in 2 .. Len(frames), NEW i \in Nat,
         FirstAt(frames[k], i)
  PROVE  /\ i < Top.this \/ (Top.tokens = <<>> /\ i = Top.this)
<1> PICK n \in Nat : n = Len(frames) /\ n >= 1 /\ n \in 1 .. n
  BY FramesType DEF IInv
<1>1. /\ Typed /\ Nesting /\ \A m \in 1 .. n : FrameOk(frames[m], m, n)
  BY DEF IInv, Frames
<1>2. PICK f \in FrameType : f = Top /\ f = frames[n]
  BY <1>1, FramesType
<1>3. Pops(f) /\ f.pc = "releasing"
  BY <1>2 DEF Pops
<1>4. FrameOk(f, n, n)
  BY ONLY <1>1, <1>2, n \in 1 .. n
<1>5. f.stop = 1 /\ f.this \in Nat /\ InFrame(f)
  BY <1>3, <1>4, TokensType DEF FrameOk, WorkOk
<1>6. k \in 1 .. n /\ k # 1 /\ (k = n \/ k < n)
  OBVIOUS
<1>7. CASE k = n
  <2>1. FirstAt(f, i)
    BY <1>2, <1>7
  <2>2. CASE f.tokens = <<>>
    BY <1>2, <2>1, <2>2 DEF FirstAt
  <2>3. CASE f.tokens # <<>>
    <3>1. 1 \in 1 .. Len(f.tokens) /\ TPage(f.tokens[1]) = i /\ TSlot(f.tokens[1]) = 1
      BY <2>1, <2>3, TokensType DEF FirstAt
    <3>2. Before(i, 1, f.this, 1)
      BY <1>3, <1>5, <3>1 DEF InFrame
    <3> QED
      BY <1>2, <1>5, <3>2 DEF Before
  <2> QED
    BY <2>2, <2>3
<1>8. CASE k < n
  <2>1. PICK e \in FrameType : e = frames[k] /\ e.this \in Nat /\ e.stop \in Nat
    BY <1>1, <1>6, FramesType, TokensType
  <2>2. FrameOk(e, k, n) /\ WorkOk(e, k, n) /\ InFrame(e)
    BY <1>1, <1>6, <2>1 DEF FrameOk
  <2>3. Pops(e) /\ e.pc # "exiting" /\ e.stop >= 1
    BY <1>6, <1>8, <2>2 DEF WorkOk
  <2>4. Nested(e, f)
    BY <1>1, <1>2, <1>6, <1>8, <2>1 DEF Nesting
  <2>5. Before(e.this, e.stop, f.this, 1)
    BY <1>3, <1>5, <2>3, <2>4 DEF Nested, Above
  <2>6. e.this < f.this
    BY <1>5, <2>1, <2>3, <2>5 DEF Before
  <2>7. CASE e.tokens = <<>>
    <3>1. i = e.this
      BY <2>1, <2>7 DEF FirstAt
    <3> QED
      BY <1>2, <2>6, <3>1
  <2>8. CASE e.tokens # <<>>
    <3>1. 1 \in 1 .. Len(e.tokens) /\ TPage(e.tokens[1]) = i /\ TSlot(e.tokens[1]) = 1
      BY <2>1, <2>8, TokensType DEF FirstAt
    <3>2. Before(i, 1, e.this, e.stop)
      BY <2>2, <2>3, <3>1 DEF InFrame
    <3>3. i <= e.this
      BY <2>1, <3>2 DEF Before
    <3> QED
      BY <1>2, <1>5, <2>1, <2>6, <3>3
  <2> QED
    BY <2>7, <2>8
<1> QED
  BY <1>6, <1>7, <1>8

\* A pop that is done has come back to the page it started from.
LEMMA PopEnds ==
  ASSUME IInv, Top.pc = "releasing", ~Looping
  PROVE  /\ Top.this = tls /\ Len(pages[tls]) = Top.stop - 1
         /\ \A j, r \in Nat : Used(j, r) => Before(j, r, Top.this, Top.stop)
         /\ DebugPoolAllocation => pages[tls] = <<>>
<1>1. Pops(Top) /\ Len(pages[Top.this]) = Top.stop - 1
  BY DEF Looping, Pops
<1>2. /\ Top \in FrameType /\ FrameOk(Top, Len(frames), Len(frames))
      /\ tls \in Nat /\ tls >= 1 /\ tls \in 1 .. Len(pages) /\ tls # nil /\ tls # EMPTY_POOL_PLACEHOLDER
      /\ Top.this \in 1 .. Len(pages) /\ Top.this <= tls /\ Top.this \in Nat /\ Top.stop \in Nat
      /\ Top.this >= 1 /\ Top.stop >= 1 /\ Len(pages[Top.this]) \in Nat
  BY <1>1, PopOnTop
<1>3. Typed /\ Layout /\ Holes /\ COUNT \in Nat /\ COUNT >= 2 /\ Len(pages) \in Nat
  BY PagesType, AutoreleasePoolAssumption DEF IInv
<1>4. Top.stop <= COUNT /\ (DebugPoolAllocation => Top.stop = 1)
  BY <1>1, <1>2 DEF FrameOk, WorkOk
<1>5. DebugPoolAllocation => pages[Top.this] = <<>>
  BY <1>1, <1>2, <1>3, <1>4, PagesType
<1>6. Top.this = tls
  <2>1. SUFFICES ASSUME Top.this < tls PROVE FALSE
    BY <1>2
  <2>2. CASE ~DebugPoolAllocation
    <3>1. Len(pages[Top.this]) = COUNT
      BY <1>2, <1>3, <2>1, <2>2 DEF Layout
    <3> QED
      BY <1>1, <1>2, <1>3, <1>4, <3>1
  <2>3. CASE DebugPoolAllocation
    <3>1. PICK k \in 2 .. Len(frames) : FirstAt(frames[k], Top.this + 1)
      BY <1>2, <1>3, <1>5, <2>1, <2>3 DEF Holes
    <3>2. PICK i \in Nat : i = Top.this + 1
      BY <1>2
    <3>3. i < Top.this \/ i = Top.this
      BY <2>3, <3>1, <3>2, FirstBelow
    <3> QED
      BY <1>2, <3>2, <3>3
  <2> QED
    BY <2>2, <2>3
<1>7. ASSUME NEW j \in Nat, NEW r \in Nat, Used(j, r) PROVE Before(j, r, Top.this, Top.stop)
  <2>1. j <= tls /\ r \in 1 .. Len(pages[j])
    BY <1>3, <1>7, UsedUpToHot DEF Used
  <2>2. CASE j = Top.this
    <3>1. r < Top.stop
      BY <1>1, <1>2, <2>1, <2>2
    <3> QED
      BY <2>2, <3>1 DEF Before
  <2>3. CASE j # Top.this
    BY <1>2, <1>6, <2>1, <2>3 DEF Before
  <2> QED
    BY <2>2, <2>3
<1> QED
  BY <1>1, <1>5, <1>6, <1>7

\* Killing the pages after the first m, which are empty.
Trimmed(m) ==
  /\ m \in Nat /\ m <= Len(pages) /\ Len(pages') = m /\ pages' \in Seq(Seq(Values))
  /\ pages' = <<>> <=> m = 0
  /\ tls' \in Nat /\ tls' <= m /\ (m # 0 => tls' >= 1)
  /\ \A j \in 1 .. m : j \in 1 .. Len(pages) /\ pages'[j] = pages[j] /\ Len(pages'[j]) <= COUNT
  /\ \A j, r \in Nat : Used(j, r)' <=> Used(j, r)
  /\ \A j, r \in Nat : Used(j, r) => pages'[j][r] = pages[j][r] /\ j <= tls'

LEMMA KeptIs ==
  ASSUME IInv, Top.pc = "releasing", ~Looping, NEW m, m = Kept(tls)
  PROVE  \/ m = tls - 1 /\ pages[tls] = <<>> /\ (DebugPoolAllocation \/ (DebugMissingPools /\ tls = 1))
         \/ /\ m \in {tls, tls + 1} /\ m <= Len(pages) /\ ~DebugPoolAllocation
            /\ ~(DebugMissingPools /\ tls = 1 /\ pages[tls] = <<>>)
<1>1. tls \in Nat /\ tls >= 1 /\ tls \in 1 .. Len(pages) /\ Len(pages) \in Nat
  BY PopOnTop, PagesType DEF Pops, IInv
<1>2. DebugPoolAllocation => pages[tls] = <<>>
  BY PopEnds
<1>3. CASE DebugPoolAllocation
  BY <1>2, <1>3 DEF Kept, empty
<1>4. CASE ~DebugPoolAllocation /\ DebugMissingPools /\ pages[tls] = <<>> /\ tls = 1
  BY <1>4 DEF Kept, empty
<1>5. CASE ~DebugPoolAllocation /\ ~(DebugMissingPools /\ pages[tls] = <<>> /\ tls = 1)
  BY <1>1, <1>5 DEF Kept, empty
<1> QED
  BY <1>3, <1>4, <1>5

LEMMA TrimmedOp ==
  ASSUME IInv, Top.pc = "releasing", ~Looping, NEW m, m = Kept(tls), Kill(tls, m)
  PROVE  Trimmed(m) /\ tls' = IF m = tls - 1 THEN tls - 1 ELSE tls
<1>1. tls \in Nat /\ tls >= 1 /\ tls \in 1 .. Len(pages) /\ Typed /\ Layout
  BY PopOnTop DEF Pops, IInv
<1>2. \/ m = tls - 1 /\ pages[tls] = <<>>
      \/ m \in {tls, tls + 1} /\ m <= Len(pages)
  BY KeptIs
<1>3. PICK pgs \in Seq(Seq(Values)) : pgs = pages
  BY <1>1 DEF Typed
<1>4. PICK c \in Nat : c = Len(pgs) /\ tls \in 1 .. c
  BY <1>1, <1>3
<1>5. m \in Nat /\ m <= c /\ tls - 1 \in Nat
  BY <1>1, <1>2, <1>3, <1>4
<1>6. PICK new : new = SubSeq(pgs, 1, m)
  OBVIOUS
<1>7. new \in Seq(Seq(Values)) /\ Len(new) = m /\ \A j \in 1 .. m : new[j] = pgs[j]
  BY <1>4, <1>5, <1>6
<1>8. pages' = new /\ tls' = IF tls <= m THEN tls ELSE m
  BY <1>3, <1>6 DEF Kill
<1>9. tls' = IF m = tls - 1 THEN tls - 1 ELSE tls
  BY <1>1, <1>2, <1>8
<1>10. tls' \in Nat /\ tls' <= m /\ (m # 0 => tls' >= 1)
  BY <1>1, <1>2, <1>5, <1>9
<1>11. new = <<>> <=> m = 0
  BY <1>5, <1>7
<1>12. \A j \in 1 .. c : Len(pgs[j]) <= COUNT /\ (pgs[j] = <<>> => Len(pgs[j]) = 0)
  BY <1>1, <1>3, <1>4, PagesType
<1>13. \A j \in 1 .. m : j \in 1 .. c
  BY <1>4, <1>5
<1>14. ASSUME NEW j \in Nat, NEW r \in Nat
       PROVE  /\ Used(j, r)' <=> Used(j, r)
              /\ Used(j, r) => new[j][r] = pgs[j][r] /\ j <= tls'
  <2>1. Used(j, r) <=> j \in 1 .. c /\ r \in 1 .. Len(pgs[j])
    BY <1>3, <1>4 DEF Used
  <2>2. Used(j, r)' <=> j \in 1 .. m /\ r \in 1 .. Len(new[j])
    BY <1>7, <1>8 DEF Used
  <2>3. Used(j, r)' => Used(j, r)
    BY <1>7, <1>13, <2>1, <2>2
  <2>4. ASSUME Used(j, r) PROVE j <= tls' /\ j \in 1 .. m
    <3>1. j <= tls /\ j >= 1 /\ r \in 1 .. Len(pgs[j])
      BY <1>1, <2>1, <2>4, UsedUpToHot
    <3>2. CASE m = tls - 1
      <4>1. pages[tls] = <<>>
        BY <1>1, <1>2, <3>2
      <4>2. j # tls
        BY <1>3, <1>4, <1>12, <3>1, <4>1
      <4> QED
        BY <1>1, <1>9, <3>1, <3>2, <4>2
    <3>3. CASE m # tls - 1
      BY <1>1, <1>2, <1>5, <1>9, <3>1, <3>3
    <3> QED
      BY <3>2, <3>3
  <2> QED
    BY <1>7, <2>1, <2>2, <2>3, <2>4
<1>15. Trimmed(m)
  <2>1. /\ m <= Len(pages) /\ Len(pages') = m /\ pages' \in Seq(Seq(Values)) /\ (pages' = <<>> <=> m = 0)
    BY <1>3, <1>4, <1>5, <1>7, <1>8, <1>11
  <2>2. \A j \in 1 .. m : j \in 1 .. Len(pages) /\ pages'[j] = pages[j] /\ Len(pages'[j]) <= COUNT
    BY <1>3, <1>4, <1>7, <1>8, <1>12, <1>13
  <2>3. /\ \A j, r \in Nat : Used(j, r)' <=> Used(j, r)
        /\ \A j, r \in Nat : Used(j, r) => pages'[j][r] = pages[j][r] /\ j <= tls'
    BY <1>3, <1>8, <1>14
  <2> QED
    BY <1>5, <1>10, <2>1, <2>2, <2>3 DEF Trimmed
<1> QED
  BY <1>9, <1>15

\* The stack is as it was: so are its boundaries, and what is below a slot.
LEMMA TrimmedSame ==
  ASSUME Typed, Typed', NEW m, Trimmed(m)
  PROVE  /\ \A j, r \in Nat : Boundary(j, r)' <=> Boundary(j, r)
         /\ \A j, r \in Nat : Under(pages, j, r)' = Under(pages, j, r)
<1>1. \A j, r \in Nat : (Used(j, r)' <=> Used(j, r)) /\ (Used(j, r) => pages'[j][r] = pages[j][r])
  BY DEF Trimmed
<1>2. \A j, r \in Nat : Boundary(j, r)' <=> Boundary(j, r)
  BY <1>1 DEF Boundary
<1>3. ASSUME NEW j \in Nat, NEW r \in Nat PROVE Under(pages, j, r)' = Under(pages, j, r)
  <2>1. SameBelow(j, r)
    BY <1>1 DEF SameBelow
  <2>2. NotAfter(j, r, j, r)
    BY DEF NotAfter
  <2> QED
    BY <2>1, <2>2, UnderSame
<1> QED
  BY <1>2, <1>3

LEMMA TrimmedToken ==
  ASSUME Typed, Typed', SameEnv, tls # EMPTY_POOL_PLACEHOLDER, NEW m, Trimmed(m),
         NEW token \in TokenType, TokenOk(token)
  PROVE  TokenOk(token)'
<1>1. PICK p \in Nat, r \in Nat : p = TPage(token) /\ r = TSlot(token)
  BY TokenFacts
<1>2. /\ p >= 1 /\ r >= 1 /\ Boundary(p, r) /\ (DebugPoolAllocation => r = 1)
      /\ token.below = Under(pages, p, r)
  BY <1>1 DEF TokenOk
<1>3. Boundary(p, r)' /\ Under(pages, p, r)' = Under(pages, p, r)
  BY <1>2, TrimmedSame
<1> QED
  BY <1>1, <1>2, <1>3 DEF TokenOk, SameEnv, TPage, TSlot, SlotOf

LEMMA TrimmedFrame ==
  ASSUME Typed, Typed', SameEnv, tls # EMPTY_POOL_PLACEHOLDER, NEW m, Trimmed(m),
         NEW f \in FrameType, NEW k \in Nat, NEW n \in Nat, FrameOk(f, k, n), Pops(f), k < n,
         f.pc = "exiting" => tls' >= 1
  PROVE  FrameOk(f, k, n)'
<1>1. /\ WorkOk(f, k, n) /\ InFrame(f) /\ f.this \in Nat /\ f.stop \in Nat
      /\ \A v \in 1 .. Len(f.tokens) : TokenOk(f.tokens[v])
  BY TokensType DEF FrameOk
<1>2. \A v \in 1 .. Len(f.tokens) : TokenOk(f.tokens[v])'
  BY <1>1, TokensType, TrimmedToken
<1>3. /\ 1 <= f.this /\ f.this <= tls /\ 1 <= f.stop /\ f.stop <= COUNT /\ (DebugPoolAllocation => f.stop = 1)
      /\ tls' \in Nat /\ m \in Nat /\ tls' <= m /\ Len(pages') = m /\ pages' \in Seq(Seq(Values))
  BY <1>1 DEF WorkOk, Trimmed
<1>4. ASSUME f.this <= tls' PROVE Len(pages'[f.this]) \in Nat
  <2>1. f.this \in 1 .. Len(pages')
    BY <1>1, <1>3, <1>4
  <2>2. PICK new \in Seq(Seq(Values)) : new = pages'
    BY <1>3
  <2>3. PICK q \in Seq(Values) : q = new[f.this]
    BY <2>1, <2>2
  <2> QED
    BY <2>2, <2>3
<1>5. WorkOk(f, k, n)'
  <2>1. CASE f.pc = "exiting"
    <3>1. k = 1 /\ f.this = 1 /\ f.stop = 1 /\ f.tokens = <<>>
      BY <1>1, <2>1 DEF WorkOk
    <3>2. f.this <= tls' /\ Len(pages'[f.this]) >= f.stop - 1
      BY <1>3, <1>4, <2>1, <3>1
    <3> QED
      BY <1>3, <2>1, <3>1, <3>2 DEF WorkOk, SameEnv, Pops
  <2>2. CASE f.pc = "releasing"
    <3>1. f.below = Under(pages, f.this, f.stop) /\ Boundary(f.this, f.stop)
      BY <1>1, <2>2 DEF WorkOk
    <3>2. Boundary(f.this, f.stop)' /\ Under(pages, f.this, f.stop)' = Under(pages, f.this, f.stop)
      BY <1>1, <3>1, TrimmedSame
    <3>3. f.this <= tls'
      BY <1>1, <3>1 DEF Trimmed, Boundary
    <3>4. Len(pages'[f.this]) >= f.stop - 1
      BY <1>1, <1>4, <3>2, <3>3 DEF Boundary, Used
    <3> QED
      BY <1>3, <2>2, <3>1, <3>2, <3>3, <3>4 DEF WorkOk, SameEnv, Pops
  <2> QED
    BY <2>1, <2>2 DEF Pops
<1> QED
  BY <1>1, <1>2, <1>5, InFrameStays DEF FrameOk

LEMMA TrimmedOf ==
  ASSUME Typed, Typed', NEW m, Trimmed(m), NEW o
  PROVE  Of(o)' = Of(o)
<1>1. /\ \A j, r \in Nat : <<j, r>> \in Of(o) <=> Used(j, r) /\ pages[j][r] = o
      /\ \A p \in Of(o) : \E j, r \in Nat : p = <<j, r>>
  BY TypedOfAre DEF OfAre
<1>2. /\ \A j, r \in Nat : <<j, r>> \in Of(o)' <=> Used(j, r)' /\ pages'[j][r] = o
      /\ \A p \in Of(o)' : \E j, r \in Nat : p = <<j, r>>
  <2>1. OfAre'
    BY TypedOfAre, PTL
  <2> QED
    BY <2>1 DEF OfAre
<1>3. \A j, r \in Nat : (Used(j, r)' <=> Used(j, r)) /\ (Used(j, r) => pages'[j][r] = pages[j][r])
  BY DEF Trimmed
<1>4. PICK A, B : A = Of(o) /\ B = Of(o)'
  OBVIOUS
<1>5. ASSUME NEW p PROVE p \in A <=> p \in B
  <2>1. SUFFICES ASSUME p \in A \cup B PROVE p \in A <=> p \in B
    OBVIOUS
  <2>2. PICK j \in Nat, r \in Nat : p = <<j, r>>
    BY <1>1, <1>2, <1>4, <2>1
  <2> QED
    BY <1>1, <1>2, <1>3, <1>4, <2>2
<1> QED
  BY <1>4, <1>5

LEMMA PopDoneStep ==
  ASSUME IInv, PopDone
  PROVE  IInv'
<1> PICK n \in Nat : n = Len(frames) /\ n >= 1 /\ n \in 1 .. n
  BY FramesType DEF IInv
<1>1. /\ Typed /\ Layout /\ Nesting /\ ColdPool /\ ColdBoundary /\ Holes /\ PoolStarts /\ ~fatal /\ NoLostRelease
      /\ \A k \in 1 .. n : FrameOk(frames[k], k, n)
  BY DEF IInv, Frames
<1>2. /\ Top.pc = "releasing" /\ ~Looping /\ Kill(Top.this, Kept(Top.this))
      /\ SetTop(Frame("client", Top.tokens)) /\ balance' = balance /\ fatal' = fatal /\ env' = env
  BY DEF PopDone
<1>3. SameEnv
  BY <1>2 DEF SameEnv, DebugPoolAllocation, DebugMissingPools
<1>4. PICK f \in FrameType : f = Top /\ f = frames[n]
  BY <1>1, FramesType
<1>5. Pops(f) /\ f.pc = "releasing"
  BY <1>2, <1>4 DEF Pops
<1>6. /\ FrameOk(f, n, n)
      /\ tls \in Nat /\ tls >= 1 /\ tls \in 1 .. Len(pages) /\ tls # EMPTY_POOL_PLACEHOLDER /\ tls # nil
      /\ f.stop \in Nat /\ f.stop >= 1 /\ Len(pages[f.this]) \in Nat
  BY <1>4, <1>5, PopOnTop
<1>7. /\ f.this = tls /\ Len(pages[tls]) = f.stop - 1
      /\ DebugPoolAllocation => pages[tls] = <<>>
  BY <1>2, <1>4, PopEnds
<1>8. PICK m : m = Kept(tls)
  OBVIOUS
<1>9. Trimmed(m) /\ tls' = IF m = tls - 1 THEN tls - 1 ELSE tls
  BY <1>2, <1>4, <1>7, <1>8, TrimmedOp
<1>10. \/ m = tls - 1 /\ pages[tls] = <<>> /\ (DebugPoolAllocation \/ (DebugMissingPools /\ tls = 1))
       \/ /\ m \in {tls, tls + 1} /\ m <= Len(pages) /\ ~DebugPoolAllocation
          /\ ~(DebugMissingPools /\ tls = 1 /\ pages[tls] = <<>>)
  BY <1>2, <1>8, KeptIs
<1>11. pages[tls] = <<>> => f.stop = 1
  BY <1>6, <1>7
<1>12. PICK g : g = Frame("client", f.tokens)
  OBVIOUS
<1>13. g \in FrameType /\ g.pc = "client" /\ g.tokens = f.tokens /\ g.this = nil /\ ~Pops(g)
  <2>1. PICK t \in Seq(TokenType) : t = f.tokens
    BY TokensType
  <2> QED
    BY <1>12, <2>1, FrameFacts DEF Pops
<1>14. /\ frames' \in Seq(FrameType) /\ Len(frames') = n /\ Len(frames') >= 1
       /\ frames'[n] = g /\ Top' = g
       /\ \A k \in 1 .. n : k < n => frames'[k] = frames[k]
  BY <1>1, <1>2, <1>4, <1>12, <1>13, SetTopOp DEF TopIs
<1>15. Typed'
  BY <1>1, <1>2, <1>9, <1>14 DEF Typed, Trimmed
<1>16. /\ m \in Nat /\ tls' \in Nat /\ Len(pages') = m /\ tls' <= m /\ (pages' = <<>> <=> m = 0)
       /\ (m # 0 => tls' >= 1) /\ m <= Len(pages) /\ Len(pages) \in Nat
       /\ \A j \in 1 .. m : j \in 1 .. Len(pages) /\ pages'[j] = pages[j]
  BY <1>1, <1>9, PagesType DEF Trimmed
<1>17. Layout'
  <2>1. CASE m = 0
    BY <1>16, <2>1 DEF Layout, nil
  <2>2. CASE m # 0
    <3>1. tls' \in 1 .. Len(pages')
      BY <1>16, <2>2
    <3>2. ASSUME NEW j \in 1 .. m, j > tls' PROVE pages'[j] = <<>>
      <4>1. j > tls
        BY <1>6, <1>9, <1>10, <1>16, <3>2
      <4> QED
        BY <1>1, <1>6, <1>16, <4>1 DEF Layout
    <3>3. ASSUME ~DebugPoolAllocation, NEW j \in 1 .. m, j < tls' PROVE Len(pages'[j]) = COUNT
      <4>1. j < tls
        BY <1>6, <1>9, <1>16, <3>3
      <4> QED
        BY <1>1, <1>6, <1>16, <3>3, <4>1 DEF Layout
    <3> QED
      BY <1>3, <1>16, <3>1, <3>2, <3>3 DEF Layout, SameEnv
  <2> QED
    BY <2>1, <2>2
<1>18. PoolStarts' /\ Unplaced' /\ ~fatal' /\ NoLostRelease'
  <2>1. PoolStarts'
    BY <1>1, <1>3, <1>9, <1>15, TrimmedSame DEF PoolStarts, SameEnv
  <2>2. Unplaced' /\ ~fatal'
    BY <1>1, <1>2, <1>16 DEF Unplaced, EMPTY_POOL_PLACEHOLDER
  <2>3. ASSUME NEW o \in Objects PROVE balance'[o] = Cardinality(Of(o)')
    BY <1>1, <1>2, <1>9, <1>15, TrimmedOf, AccountIs
  <2>4. (\A o \in Objects : balance[o] = Cardinality(Of(o)))'
    BY <2>3
  <2>5. NoLostRelease'
    BY <2>4 DEF NoLostRelease, Of
  <2> QED
    BY <2>1, <2>2, <2>5
<1>19. ASSUME NEW k \in 1 .. n, k < n
       PROVE  /\ frames[k] \in FrameType /\ Pops(frames[k]) /\ Above(frames[k], f.this, f.stop)
              /\ frames[k].pc = "exiting" => k = 1 /\ frames[k].this = 1 /\ frames[k].stop = 1
  <2>1. frames[k] \in FrameType /\ WorkOk(frames[k], k, n)
    BY <1>1, FramesType DEF FrameOk
  <2>2. Nested(frames[k], f)
    BY <1>1, <1>4, <1>19 DEF Nesting
  <2> QED
    BY <1>5, <1>19, <2>1, <2>2 DEF WorkOk, Nested
<1>20. Frames'
  <2>1. ASSUME NEW k \in 1 .. n, k < n PROVE \E e : e = frames[k] /\ FrameOk(e, k, n)'
    <3>1. PICK e \in FrameType : e = frames[k] /\ Pops(e) /\ FrameOk(e, k, n) /\ Above(e, f.this, f.stop)
                                 /\ (e.pc = "exiting" => k = 1 /\ e.this = 1 /\ e.stop = 1)
      BY <1>1, <1>19, <2>1
    <3>2. ASSUME e.pc = "exiting" PROVE tls' >= 1
      <4>1. CASE m = tls - 1
        <5>1. Before(1, 1, tls, 1)
          BY <1>6, <1>7, <1>10, <1>11, <3>1, <3>2, <4>1 DEF Above
        <5> QED
          BY <1>6, <1>9, <4>1, <5>1 DEF Before
      <4>2. CASE m # tls - 1
        BY <1>6, <1>9, <4>2
      <4> QED
        BY <4>1, <4>2
    <3>3. k \in Nat
      OBVIOUS
    <3>4. FrameOk(e, k, n)'
      BY <1>1, <1>3, <1>6, <1>9, <1>15, <2>1, <3>1, <3>2, <3>3, TrimmedFrame
    <3> QED
      BY <3>1, <3>4
  <2>2. FrameOk(g, n, n)'
    <3>1. \A v \in 1 .. Len(g.tokens) : TokenOk(g.tokens[v])'
      BY <1>1, <1>3, <1>6, <1>9, <1>13, <1>15, TokensType, TrimmedToken DEF FrameOk
    <3>2. g.pc # "exiting" /\ g.pc # "releasing"
      BY <1>13
    <3>3. WorkOk(g, n, n)'
      BY <1>13, <3>2 DEF WorkOk, Pops
    <3>4. InFrame(g)
      BY <1>6, <1>13 DEF FrameOk, InFrame
    <3> QED
      BY <3>1, <3>3, <3>4, InFrameStays DEF FrameOk
  <2>3. ASSUME NEW k \in 1 .. n PROVE \E e : e = frames'[k] /\ FrameOk(e, k, n)'
    <3>1. CASE k < n
      <4>1. PICK e : e = frames[k] /\ FrameOk(e, k, n)'
        BY <2>1, <3>1
      <4>2. e = frames'[k]
        BY <1>14, <3>1, <4>1
      <4> QED
        BY <4>1, <4>2
    <3>2. CASE k = n
      BY <1>14, <2>2, <3>2
    <3> QED
      BY <3>1, <3>2
  <2>4. ASSUME NEW k \in 1 .. n PROVE FrameOk(frames[k], k, n)'
    BY <2>3
  <2> QED
    BY <1>14, <2>4 DEF Frames
<1>21. Nesting'
  <2>1. ASSUME NEW j \in 1 .. Len(frames'), NEW k \in 1 .. Len(frames'), j < k
        PROVE  Nested(frames[j], frames[k])'
    <3>1. j \in 1 .. n /\ k \in 1 .. n /\ j < n /\ (k < n \/ k = n)
      BY <1>14, <2>1
    <3>2. PICK e, d : e = frames'[j] /\ e = frames[j] /\ d = frames'[k]
      BY <1>14, <3>1
    <3>3. Nested(e, frames[k])
      BY <1>1, <2>1, <3>1, <3>2 DEF Nesting
    <3>4. Nested(e, d)
      <4>1. CASE k < n
        BY <1>14, <3>1, <3>2, <3>3, <4>1
      <4>2. CASE k = n
        <5>1. Nested(e, f) /\ d = g
          BY <1>4, <1>14, <3>2, <3>3, <4>2
        <5> QED
          BY <1>13, <5>1 DEF Nested
      <4> QED
        BY <3>1, <4>1, <4>2
    <3>5. Nested(e, d)'
      BY <1>3, <3>4, NestedStays
    <3> QED
      BY <3>2, <3>5
  <2> QED
    BY <2>1 DEF Nesting
<1>22. ColdBoundary'
  <2>1. SUFFICES ASSUME DebugMissingPools, m # 0 PROVE Boundary(1, 1)'
    BY <1>3, <1>16 DEF ColdBoundary, SameEnv
  <2>2. pages # <<>>
    BY <1>1, <1>6, PagesType
  <2>3. Boundary(1, 1)
    <3>1. SUFFICES ASSUME pages[1] = <<>>, f.this = 1 PROVE FALSE
      BY <1>1, <1>4, <2>1, <2>2 DEF ColdBoundary
    <3> QED
      BY <1>7, <1>10, <2>1, <3>1
  <2> QED
    BY <1>1, <1>9, <1>15, <2>3, TrimmedSame
<1>23. ColdPool'
  <2>1. SUFFICES ASSUME DebugMissingPools PROVE ColdPool'
    BY <1>3 DEF ColdPool, SameEnv
  <2>2. CASE n = 1
    <3>1. f = frames[1] /\ frames'[1] = g
      BY <1>4, <1>14, <2>2
    <3>2. CASE f.tokens # <<>>
      BY <1>1, <1>13, <2>1, <3>1, <3>2 DEF ColdPool, TPage, TSlot, SlotOf
    <3>3. CASE f.tokens = <<>>
      <4>1. f.this = 1 /\ f.stop = 1
        BY <1>1, <1>5, <2>1, <3>1, <3>3 DEF ColdPool
      <4>2. pages[tls] = <<>> /\ tls = 1
        <5>1. Len(pages[tls]) = 0 /\ tls = 1
          BY <1>7, <4>1
        <5> QED
          BY <1>1, <1>6, <5>1, PagesType
      <4>3. m = 0 /\ tls' = 0
        BY <1>9, <1>10, <2>1, <4>2
      <4> QED
        BY <1>13, <1>16, <3>1, <3>3, <4>3 DEF ColdPool, nil
    <3> QED
      BY <3>2, <3>3
  <2>3. CASE n # 1
    <3>1. 1 \in 1 .. n /\ 1 < n
      BY <2>3
    <3>2. frames'[1] = frames[1] /\ frames[1].pc # "client"
      BY <1>14, <1>19, <3>1 DEF Pops
    <3> QED
      BY <1>1, <2>1, <3>2 DEF ColdPool, TPage, TSlot, SlotOf
  <2> QED
    BY <2>2, <2>3
<1>24. ASSUME DebugPoolAllocation PROVE m = tls - 1 /\ tls' = tls - 1
  BY <1>9, <1>10, <1>24
<1>25. Holes'
  <2>1. ASSUME DebugPoolAllocation, NEW j \in 1 .. Len(pages'), j < tls', pages'[j] = <<>>
        PROVE  \E k \in 2 .. n : FirstAt(frames'[k], j + 1)
    <3>1. j \in 1 .. Len(pages) /\ pages[j] = <<>> /\ j < tls /\ j + 1 # tls
      BY <1>6, <1>16, <1>24, <2>1
    <3>2. PICK k \in 2 .. n : FirstAt(frames[k], j + 1)
      BY <1>1, <2>1, <3>1 DEF Holes
    <3>3. CASE k < n
      BY <1>14, <3>2, <3>3
    <3>4. CASE k = n
      <4>1. FirstAt(f, j + 1)
        BY <1>4, <3>2, <3>4
      <4>2. f.tokens # <<>>
        BY <1>7, <3>1, <4>1 DEF FirstAt
      <4>3. FirstAt(g, j + 1)
        BY <1>13, <4>1, <4>2 DEF FirstAt
      <4> QED
        BY <1>14, <3>4, <4>3
    <3> QED
      BY <3>3, <3>4
  <2> QED
    BY <1>3, <1>14, <2>1 DEF Holes, SameEnv, FirstAt, TPage, TSlot, SlotOf
<1>26. HotInUse'
  <2>1. SUFFICES ASSUME DebugPoolAllocation, tls' # nil, n = 1 \/ f.tokens # <<>>, pages'[tls'] = <<>> PROVE FALSE
    BY <1>3, <1>13, <1>14 DEF HotInUse, SameEnv
  <2>2. PICK i \in Nat : i = tls' /\ i = tls - 1 /\ i >= 1 /\ i < tls /\ i + 1 = tls /\ i \in 1 .. m
    BY <1>6, <1>16, <1>24, <2>1 DEF nil
  <2>3. i \in 1 .. Len(pages) /\ pages[i] = <<>>
    BY <1>16, <2>1, <2>2
  <2>4. PICK k \in 2 .. n : FirstAt(frames[k], i + 1)
    BY <1>1, <2>1, <2>2, <2>3 DEF Holes
  <2>5. tls < f.this \/ f.tokens = <<>>
    BY <1>2, <1>4, <1>6, <2>1, <2>2, <2>4, FirstBelow
  <2>6. n = 1
    BY <1>6, <1>7, <2>1, <2>5
  <2> QED
    BY <2>4, <2>6
<1>27. FewPages'
  <2>1. m <= tls' + 1 /\ (DebugPoolAllocation => tls' = m)
    BY <1>6, <1>9, <1>10, <1>16, <1>24
  <2> QED
    BY <1>3, <1>16, <2>1 DEF FewPages, SameEnv
<1> QED
  BY <1>15, <1>17, <1>18, <1>20, <1>21, <1>22, <1>23, <1>25, <1>26, <1>27 DEF IInv
-----------------------------------------------------------------------------
LEMMA InitOk == Init => IInv
<1> SUFFICES ASSUME Init PROVE IInv
  OBVIOUS
<1>1. PICK f : f = Frame("client", <<>>)
  OBVIOUS
<1>2. /\ pages = <<>> /\ tls = nil /\ frames = <<f>> /\ balance = [o \in Objects |-> 0] /\ ~fatal
  BY <1>1 DEF Init
<1>3. <<>> \in Seq(TokenType)
  OBVIOUS
<1>4. f \in FrameType /\ f.pc = "client" /\ f.tokens = <<>> /\ f.this = nil /\ ~Pops(f)
  BY <1>1, <1>3, FrameFacts DEF Pops
<1>5. frames \in Seq(FrameType) /\ Len(frames) = 1 /\ frames[1] = f /\ Top = f
  BY <1>2, <1>4 DEF Top
<1>6. pages \in Seq(Seq(Values)) /\ Len(pages) = 0 /\ \A i : i \notin 1 .. Len(pages)
  BY <1>2
<1>7. Typed
  BY <1>2, <1>5, <1>6 DEF Typed, nil
<1>8. \A j, r : ~Used(j, r)
  BY <1>6 DEF Used
<1>9. Layout /\ Unplaced /\ ColdBoundary /\ ColdPool /\ Holes /\ PoolStarts
  BY <1>2, <1>4, <1>5, <1>6, <1>8
     DEF Layout, Unplaced, ColdBoundary, ColdPool, Holes, PoolStarts, Boundary, nil, EMPTY_POOL_PLACEHOLDER
<1>10. HotInUse /\ FewPages
  BY <1>2, <1>6 DEF HotInUse, FewPages, nil
<1>11. Frames
  <2>1. \A m : m \notin 1 .. Len(f.tokens)
    BY <1>4
  <2>2. f.pc # "exiting" /\ f.pc # "releasing"
    BY <1>4
  <2>3. FrameOk(f, 1, 1)
    BY <1>4, <2>1, <2>2 DEF FrameOk, WorkOk, InFrame
  <2>4. \A k \in 1 .. Len(frames) : k = 1 /\ frames[k] = f
    BY <1>5
  <2> QED
    BY <1>5, <2>3, <2>4 DEF Frames
<1>12. Nesting
  <2>1. \A j, k \in 1 .. Len(frames) : ~(j < k)
    BY <1>5
  <2> QED
    BY <2>1 DEF Nesting
<1>13. NoLostRelease
  <2>1. ASSUME NEW o \in Objects PROVE balance[o] = Cardinality(Of(o))
    <3>1. Of(o) = {}
      BY <1>2, NothingUnder DEF Of
    <3> QED
      BY <1>2, <3>1, FS_EmptySet
  <2> QED
    BY <2>1, AccountIs
<1> QED
  BY <1>2, <1>7, <1>9, <1>10, <1>11, <1>12, <1>13 DEF IInv

LEMMA NextStep ==
  ASSUME IInv, [Next]_vars
  PROVE  IInv'
<1>1. CASE UNCHANGED vars
  BY <1>1, Stutter DEF vars
<1>2. ASSUME NEW o \in Objects, autorelease(o) PROVE IInv'
  BY <1>2, AutoreleaseStep
<1>3. ASSUME NEW n \in 1 .. MaxCalls, Pop(n) PROVE IInv'
  BY <1>3, PopStep
<1> QED
  BY <1>1, <1>2, <1>3, PushPlaceholderStep, PushStep, PopPlaceholderStep, ReleaseOneStep, PopDoneStep,
     DeallocReturnsStep, ThreadExitStep, ThreadExitDoneStep DEF Next

\* The inductive invariant, for every page size, set of objects, environment
\* and bound on calls and nesting.
THEOREM InductiveInvariant == Spec => []IInv
<1>1. Init => IInv
  BY InitOk
<1>2. IInv /\ [Next]_vars => IInv'
  BY NextStep
<1> QED
  BY <1>1, <1>2, PTL DEF Spec
-----------------------------------------------------------------------------
\* When releaseUntil returns, the stack is the one the token of the popped pool
\* remembers: what client code autoreleased meanwhile is gone too, and nothing
\* colder than the pool is.
THEOREM PopsRestoreTheStack == Spec => []PopRestores
<1>1. IInv => PopRestores
  <2>1. SUFFICES ASSUME IInv, Top.pc = "releasing", ~Looping PROVE Stack = Top.below
    BY DEF PopRestores
  <2>2. \A j, r \in Nat : Used(j, r) => Before(j, r, Top.this, Top.stop)
    BY <2>1, PopEnds
  <2>3. Typed /\ FrameOk(Top, Len(frames), Len(frames))
    BY <2>1, PopOnTop DEF Pops, IInv
  <2>4. Top.below = Under(pages, Top.this, Top.stop)
    BY <2>1, <2>3 DEF FrameOk, WorkOk
  <2>5. PICK t, s : t = Top.this /\ s = Top.stop
    OBVIOUS
  <2>6. \A p \in Slots(pages) : p[1] < t \/ (p[1] = t /\ p[2] < s)
    <3>1. ASSUME NEW p \in Slots(pages) PROVE p[1] < t \/ (p[1] = t /\ p[2] < s)
      <4>1. PICK j \in Nat, r \in Nat : p = <<j, r>> /\ Used(j, r)
        BY <2>3, UsedAre
      <4>2. j < t \/ (j = t /\ r < s)
        BY <2>2, <2>5, <4>1 DEF Before
      <4> QED
        BY <4>1, <4>2
    <3> QED
      BY <3>1
  <2>7. {p \in Slots(pages) : p[1] < t \/ (p[1] = t /\ p[2] < s)} = Slots(pages)
    BY <2>6
  <2> QED
    BY <2>4, <2>5, <2>7 DEF Stack, Under
<1> QED
  BY <1>1, InductiveInvariant, PTL

\* Every autorelease is one release, done or still pending: none is lost when
\* pages are killed or reused, and none is done twice.
THEOREM AutoreleasesBalance == Spec => []NoLostRelease
<1>1. IInv => NoLostRelease
  BY DEF IInv
<1> QED
  BY <1>1, InductiveInvariant, PTL

\* The fixme of releaseUntil: when the hot page is empty and the loop goes on,
\* its parent is not empty, whatever -dealloc methods pushed and popped.
THEOREM TheWhileCanBeAnIf == Spec => []WhileCanBeIf
<1>1. IInv => WhileCanBeIf
  <2>1. SUFFICES ASSUME IInv, Looping, empty(hotPage) PROVE hotPage > 1 /\ ~empty(hotPage - 1)
    BY DEF WhileCanBeIf
  <2>2. hotPage = tls
    BY <2>1, PopOnTop DEF Looping, Pops, hotPage
  <2>3. pages[tls] = <<>>
    BY <2>1, <2>2 DEF empty
  <2> QED
    BY <2>1, <2>2, <2>3, ParentInUse DEF empty
<1> QED
  BY <1>1, InductiveInvariant, PTL

\* badPop is not reached: tokens keep their boundary until they are popped.  And
\* pops leave the pages they should: at most one empty child, with
\* OBJC_DEBUG_POOL_ALLOCATION none, and with OBJC_DEBUG_MISSING_POOLS no page
\* outside every pool.
THEOREM PagesLiveAsLongAsTheirPools == Spec => []PageLifetime
<1>1. IInv => TokensValid
  <2> SUFFICES ASSUME IInv PROVE TokensValid
    OBVIOUS
  <2>1. Typed /\ Layout /\ ~fatal /\ Len(frames) \in Nat /\ Len(pages) \in Nat
    BY FramesType, PagesType DEF IInv
  <2>2. DOMAIN frames = 1 .. Len(frames)
    BY <2>1 DEF Typed
  <2>3. ASSUME NEW k \in 1 .. Len(frames)
        PROVE  /\ frames[k].this <= Len(pages)
               /\ \A n \in DOMAIN frames[k].tokens :
                    tls # EMPTY_POOL_PLACEHOLDER =>
                      ~BadToken(SlotOf(frames[k].tokens[n])[1], SlotOf(frames[k].tokens[n])[2])
    <3>1. PICK f \in FrameType : f = frames[k] /\ f.this \in Nat
      BY <2>1, FramesType, TokensType
    <3>2. FrameOk(f, k, Len(frames))
      BY <3>1 DEF IInv, Frames
    <3>3. f.this <= Len(pages)
      <4>1. CASE ~Pops(f)
        BY <2>1, <3>2, <4>1 DEF FrameOk, WorkOk, nil
      <4>2. CASE Pops(f)
        <5>1. 1 <= f.this /\ f.this <= tls
          BY <3>2, <4>2 DEF FrameOk, WorkOk
        <5>2. tls # EMPTY_POOL_PLACEHOLDER /\ tls # nil
          BY <3>1, <5>1 DEF nil, EMPTY_POOL_PLACEHOLDER
        <5>3. tls \in 1 .. Len(pages) /\ tls \in Nat
          BY <2>1, <5>2, HotPageIs
        <5> QED
          BY <2>1, <3>1, <5>1, <5>3
      <4> QED
        BY <4>1, <4>2
    <3>4. PICK t \in Seq(TokenType) : t = f.tokens
      BY TokensType
    <3>5. DOMAIN t = 1 .. Len(t)
      OBVIOUS
    <3>6. ASSUME NEW n \in 1 .. Len(t), tls # EMPTY_POOL_PLACEHOLDER
          PROVE  ~BadToken(SlotOf(t[n])[1], SlotOf(t[n])[2])
      <4>1. PICK i, s : i = SlotOf(t[n])[1] /\ s = SlotOf(t[n])[2]
        OBVIOUS
      <4>2. Boundary(i, s)
        BY <3>2, <3>4, <3>6, <4>1 DEF FrameOk, TokenOk, TPage, TSlot
      <4>3. i <= Len(pages) /\ s <= Len(pages[i]) /\ pages[i][s] = POOL_BOUNDARY
        BY <2>1, <4>2, PagesType DEF Boundary, Used
      <4> QED
        BY <4>1, <4>3 DEF BadToken
    <3> QED
      BY <3>1, <3>3, <3>4, <3>5, <3>6
  <2> QED
    BY <2>1, <2>2, <2>3 DEF TokensValid
<1>2. IInv => PagesReclaimed
  <2> SUFFICES ASSUME IInv, InClientCode, Len(frames) = 1
               PROVE  /\ pages # <<>> => Len(pages) <= hotPage + 1
                      /\ DebugPoolAllocation =>
                           /\ hotPage = Len(pages)
                           /\ \A i \in DOMAIN pages : \A s \in DOMAIN pages[i] :
                                pages[i][s] = POOL_BOUNDARY => s = 1
                      /\ DebugMissingPools /\ Top.tokens = <<>> => pages = <<>> /\ tls = nil
    BY DEF PagesReclaimed
  <2>1. Typed /\ Layout /\ Unplaced /\ FewPages /\ PoolStarts /\ ColdPool
    BY DEF IInv
  <2>2. Top = frames[1] /\ frames[1].pc = "client"
    BY <2>1, FramesType DEF InClientCode
  <2>3. /\ pages # <<>> => Len(pages) <= tls + 1
        /\ DebugPoolAllocation => tls = Len(pages)
    BY <2>1, <2>2 DEF FewPages
  <2>4. pages # <<>> \/ DebugPoolAllocation => hotPage = tls
    BY <2>1 DEF Layout, Unplaced, hotPage, nil, EMPTY_POOL_PLACEHOLDER
  <2>5. ASSUME DebugPoolAllocation, NEW i \in DOMAIN pages, NEW s \in DOMAIN pages[i], pages[i][s] = POOL_BOUNDARY
        PROVE  s = 1
    <3>1. PICK pgs \in Seq(Seq(Values)) : pgs = pages
      BY <2>1 DEF Typed
    <3>2. i \in 1 .. Len(pgs)
      BY <3>1
    <3>3. PICK q \in Seq(Values) : q = pgs[i]
      BY <3>2
    <3>4. s \in 1 .. Len(q)
      BY <3>1, <3>3
    <3>5. Boundary(i, s)
      BY <2>5, <3>1, <3>2, <3>3, <3>4 DEF Boundary, Used
    <3>6. i \in Nat /\ s \in Nat
      BY <3>2, <3>4
    <3> QED
      BY <2>1, <2>5, <3>5, <3>6 DEF PoolStarts
  <2>6. DebugMissingPools /\ Top.tokens = <<>> => pages = <<>> /\ tls = nil
    BY <2>1, <2>2 DEF ColdPool
  <2> QED
    BY <2>3, <2>4, <2>5, <2>6
<1> QED
  BY <1>1, <1>2, InductiveInvariant, PTL DEF PageLifetime
=============================================================================
