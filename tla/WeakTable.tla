----------------------------- MODULE WeakTable -----------------------------
(***************************************************************************)
(* The weak reference table of one side table (objc-weak.mm), used under   *)
(* the side-table lock: an open-addressed hash table of entries, one per   *)
(* referent, each holding its referrers inline or in a hash table of its   *)
(* own.  Slots are emptied without tombstones; a search goes on for        *)
(* max_hash_displacement steps whatever it finds.                          *)
(***************************************************************************)
EXTENDS Integers, FiniteSets, Sequences, SequencesExt

CONSTANTS
  Objects, Locations, Nil,
  holds,              \* holds[l]: the objects the client stores in l
  hash,               \* hash_pointer and w_hash_pointer
  WEAK_INLINE_COUNT,  \* 4
  MIN_BUCKETS,        \* size of the first weak_entries array: 64
  MIN_REFERRERS,      \* size of the first referrers array: 8
  COMPACT_SIZE        \* smallest array that is ever shrunk: 1024

ASSUME WeakTableAssumption ==
  /\ Nil \notin Objects \cup Locations
  /\ Objects \cap Locations = {}
  /\ holds \in [Locations -> SUBSET Objects]
  /\ hash \in [Objects \cup Locations -> Nat]
  /\ WEAK_INLINE_COUNT \in Nat /\ WEAK_INLINE_COUNT >= 2
  /\ MIN_REFERRERS = 2 * WEAK_INLINE_COUNT
  /\ MIN_BUCKETS \in Nat \ {0, 1}
  /\ COMPACT_SIZE \in Nat /\ COMPACT_SIZE >= 16

VARIABLES
  table,   \* weak_table_t: the referents of weak_entries
  entry,   \* entry[o]: the contents of the weak_entry_t whose referent is o
  loc,     \* the weak variables
  errors   \* "bad weak table" and objc_weak_error reports so far

vars == <<table, entry, loc, errors>>
-----------------------------------------------------------------------------
(* Open addressing with a recorded maximal displacement.  The slots are    *)
(* numbered from 0; mask + 1 is their number.                              *)

Empty(n) == [slots |-> [i \in 0 .. n - 1 |-> Nil], num |-> 0, max |-> 0,
             bad |-> FALSE]
TABLE_SIZE(h) == Cardinality(DOMAIN h.slots)

\* The slot k steps after the one x hashes to.
Slot(h, x, k) == (hash[x] + k) % TABLE_SIZE(h)

\* The displacements at which a slot holds y, for a search that starts at x.
Places(h, x, y) == {k \in 0 .. TABLE_SIZE(h) - 1 : h.slots[Slot(h, x, k)] = y}
Nearest(S) == CHOOSE k \in S : \A j \in S : k <= j

\* Mutant of Insert: the displacement is not recorded.
Insert_KeepsMax(h, x) ==
  [h EXCEPT !.slots[Slot(h, x, Nearest(Places(h, x, Nil)))] = x, !.num = @ + 1]

\* weak_entry_insert, and append_referrer out of line.  A walk all the way
\* round a full table is bad_weak_table, which halts.
Insert(h, x) ==
  IF Places(h, x, Nil) = {} THEN [h EXCEPT !.bad = TRUE]
  ELSE LET k == Nearest(Places(h, x, Nil))
       IN [slots |-> [h.slots EXCEPT ![Slot(h, x, k)] = x],
           num |-> h.num + 1,
           max |-> IF k > h.max THEN k ELSE h.max,
           bad |-> h.bad]

\* weak_entry_for_referent, and the search of remove_referrer.
Find(h, x) == {k \in Places(h, x, x) : k <= h.max}

\* A search that finds nothing comes back to where it began.
FindFails(h, x) == TABLE_SIZE(h) > 0 /\ Find(h, x) = {} /\ h.max >= TABLE_SIZE(h) - 1

Erase(h, x) == [h EXCEPT !.slots[Slot(h, x, Nearest(Find(h, x)))] = Nil,
                          !.num = @ - 1]

\* The occupants of the slots, first to last.
Occupants(h) == SelectSeq([i \in 1 .. TABLE_SIZE(h) |-> h.slots[i - 1]],
                          LAMBDA x : x # Nil)

\* Mutant of Rehash: the last occupant is not carried over.
Rehash_DropsLast(h, n) ==
  FoldLeft(Insert, Empty(n),
           IF h.num = 0 THEN <<>> ELSE Front(Occupants(h)))

\* weak_resize, and the loop of grow_refs_and_insert.
Rehash(h, n) == FoldLeft(Insert, Empty(n), Occupants(h))
-----------------------------------------------------------------------------
(* weak_entry_t: out_of_line, and a hash table of referrers; while inline, *)
(* the table is the array of WEAK_INLINE_COUNT and only slots matters.     *)

NoEntry == [out_of_line |-> FALSE, refs |-> Empty(WEAK_INLINE_COUNT)]

\* weak_entry_t(newReferent, newReferrer)
NewEntry(l) == [NoEntry EXCEPT !.refs.slots[0] = l]

AppendHashed(e, l) ==
  [out_of_line |-> TRUE,
   refs |-> IF e.refs.num >= (TABLE_SIZE(e.refs) * 3) \div 4
            THEN Insert(Rehash(e.refs, 2 * TABLE_SIZE(e.refs)), l)
            ELSE Insert(e.refs, l)]

append_referrer(e, l) ==
  LET free == {i \in DOMAIN e.refs.slots : e.refs.slots[i] = Nil}
  IN IF e.out_of_line THEN AppendHashed(e, l)
     ELSE IF free # {} THEN [e EXCEPT !.refs.slots[Nearest(free)] = l]
     ELSE AppendHashed([e EXCEPT !.refs.num = WEAK_INLINE_COUNT], l)

Registered(e, l) == \E i \in DOMAIN e.refs.slots : e.refs.slots[i] = l

remove_referrer(e, l) ==
  IF e.out_of_line THEN [e EXCEPT !.refs = Erase(@, l)]
  ELSE [e EXCEPT !.refs.slots = [i \in DOMAIN @ |-> IF @[i] = l THEN Nil ELSE @[i]]]

\* remove_referrer reports an unknown __weak variable.
RemoveFails(e, l) == IF e.out_of_line THEN Find(e.refs, l) = {} ELSE ~Registered(e, l)

\* The test of weak_unregister_no_lock.  inline_referrers[0] overlays the
\* pointer referrers, so an entry that is out of line never looks empty.
LooksEmpty(e) == ~e.out_of_line /\ \A i \in DOMAIN e.refs.slots : e.refs.slots[i] = Nil
-----------------------------------------------------------------------------
(* weak_table_t *)

weak_entry_for_referent(h, o) == TABLE_SIZE(h) > 0 /\ Find(h, o) # {}

weak_grow_maybe(h) ==
  LET n == TABLE_SIZE(h)
  IN IF h.num >= (n * 3) \div 4
     THEN Rehash(h, IF n = 0 THEN MIN_BUCKETS ELSE 2 * n) ELSE h

weak_compact_maybe(h) ==
  LET n == TABLE_SIZE(h)
  IN IF n >= COMPACT_SIZE /\ n \div 16 >= h.num THEN Rehash(h, n \div 8) ELSE h

weak_entry_remove(h, o) == weak_compact_maybe(Erase(h, o))

\* The state of table and entries while one operation works on them.
State == [table |-> table, entry |-> entry, errors |-> errors]

Report(s, what, bad) == [s EXCEPT !.errors = IF bad THEN @ \cup {what} ELSE @]

Lookup(s, o) == Report(s, "bad weak table", FindFails(s.table, o))

\* weak_unregister_no_lock
Unregister(s, o, l) ==
  IF o = Nil THEN s
  ELSE IF ~weak_entry_for_referent(s.table, o) THEN Lookup(s, o)
  ELSE IF RemoveFails(s.entry[o], l)
  THEN Report(s, "unknown __weak variable", TRUE)
  ELSE LET e == remove_referrer(s.entry[o], l)
       IN IF LooksEmpty(e)
          THEN [s EXCEPT !.entry[o] = NoEntry, !.table = weak_entry_remove(@, o)]
          ELSE [s EXCEPT !.entry[o] = e]

\* weak_register_no_lock of an object that is not deallocating.
Register(s, o, l) ==
  IF o = Nil THEN s
  ELSE IF weak_entry_for_referent(s.table, o)
  THEN [s EXCEPT !.entry[o] = append_referrer(@, l)]
  ELSE LET h == weak_grow_maybe(s.table)
       IN [Lookup(s, o) EXCEPT !.entry[o] = NewEntry(l), !.table = Insert(h, o)]

Init == /\ table = Empty(0)
        /\ entry = [o \in Objects |-> NoEntry]
        /\ loc = [l \in Locations |-> Nil]
        /\ errors = {}

\* storeWeak under the lock: unregister the old value, register the new one,
\* and only then set the variable.
StoreWeak(l, o) ==
  LET s == Register(Unregister(State, loc[l], l), o, l)
  IN /\ table' = s.table
     /\ entry' = s.entry
     /\ errors' = s.errors
     /\ loc' = [loc EXCEPT ![l] = o]

Referrers(o) == {entry[o].refs.slots[i] : i \in DOMAIN entry[o].refs.slots} \ {Nil}

\* weak_clear_no_lock: a referrer that holds something else is reported.
WeakClear(o) ==
  /\ IF weak_entry_for_referent(table, o)
     THEN /\ table' = weak_entry_remove(table, o)
          /\ entry' = [entry EXCEPT ![o] = NoEntry]
          /\ loc' = [l \in Locations |->
                       IF l \in Referrers(o) /\ loc[l] = o THEN Nil ELSE loc[l]]
          /\ errors' = Report(State, "variable holds another object",
               \E l \in Referrers(o) : loc[l] \notin {o, Nil}).errors
     ELSE /\ errors' = Lookup(State, o).errors
          /\ UNCHANGED <<table, entry, loc>>

Next == \/ \E l \in Locations : \E o \in holds[l] \cup {Nil} : StoreWeak(l, o)
        \/ \E o \in Objects : WeakClear(o)

Spec == Init /\ [][Next]_vars
-----------------------------------------------------------------------------
(* Properties *)

\* "in the hash table, indexed by the weakly referenced item, is a list of all
\* locations where this address is currently being stored", each once.
ListsEveryLocation ==
  \A o \in Objects :
    /\ Referrers(o) = {l \in Locations : loc[l] = o}
    /\ Cardinality({i \in DOMAIN entry[o].refs.slots : entry[o].refs.slots[i] # Nil})
         = Cardinality(Referrers(o))

\* Every element is within max_hash_displacement of where a search for it
\* begins, and the element counts are right, after any number of removals,
\* rehashes and insertions.
Sound(h) ==
  /\ h.num = Cardinality({i \in DOMAIN h.slots : h.slots[i] # Nil})
  /\ \A i \in DOMAIN h.slots : h.slots[i] # Nil => Find(h, h.slots[i]) # {}

Findable ==
  /\ Sound(table)
  /\ \A o \in Objects : entry[o].out_of_line => Sound(entry[o].refs)
  /\ \A o \in Objects : Referrers(o) # {} => weak_entry_for_referent(table, o)

\* bad_weak_table and objc_weak_error are never reached.
NoErrors == /\ errors = {}
            /\ ~table.bad
            /\ \A o \in Objects : ~entry[o].refs.bad

\* An object without weak references has no entry, except that an entry which
\* went out of line stays: its emptiness is judged by the inline view.
EntriesRemoved ==
  \A o \in Objects : weak_entry_for_referent(table, o) =>
    entry[o].out_of_line \/ \E l \in Locations : loc[l] = o

\* Searches succeed, no error is reported and entries go away again, after any
\* sequence of insertions, removals, growth and compaction.
TableSound == Findable /\ NoErrors /\ EntriesRemoved

=============================================================================
