------------------------------ MODULE WeakTable ------------------------------
(***************************************************************************)
(* The weak table (objc-weak.mm): a hash table of the objects that weak    *)
(* variables refer to, whose entries hold the addresses of the variables,  *)
(* a few in the entry and more in a hash set of their own.  Both use open  *)
(* addressing without tombstones: a search goes as far as the largest      *)
(* displacement of any insertion since the last resize.  All operations    *)
(* run under the lock of the side table.                                   *)
(***************************************************************************)
EXTENDS Naturals, FiniteSets, FiniteSetsExt

CONSTANTS
  Referents, Variables, Nil,
  MayHold,       \* bound: the variables that are used for each object
  HashOf,        \* ptr_hash of an object's and of a variable's address
  InlineCount,   \* WEAK_INLINE_COUNT
  FirstRefs,     \* the 8 buckets of a hash set that had none
  FirstEntries,  \* the 64 buckets of the first table
  CompactAt,     \* the 1024 buckets from which a table may shrink,
  CompactBy      \* to an eighth, if at most half of that is used

ASSUME TableNilAssumption == Nil \notin Referents \cup Variables
ASSUME MayHoldAssumption == MayHold \in [Referents -> SUBSET Variables]
ASSUME HashAssumption == \A x \in Referents \cup Variables : HashOf[x] \in Nat
ASSUME SizesAssumption ==
  /\ InlineCount \in Nat \ {0, 1} /\ FirstRefs \in Nat /\ FirstEntries \in Nat \ {0, 1}
  /\ CompactBy \in Nat \ {0} /\ CompactAt \in Nat /\ CompactAt >= 2 * CompactBy

VARIABLES
  entries,          \* weak_entries
  num_entries,
  max_displacement, \* max_hash_displacement of the table
  value             \* what each weak variable holds

tableVars == <<entries, num_entries, max_displacement, value>>

-----------------------------------------------------------------------------
(* Open addressing *)

\* TABLE_SIZE; buckets are numbered from 0.
Size(b) == Cardinality(DOMAIN b)
Buckets(n, none) == [i \in 0 .. n - 1 |-> none]
Index(key, d, n) == (HashOf[key] + d) % n

\* The displacements at which the buckets b hold x, from where key hashes to
Displacements(b, key, x) == {d \in 0 .. Size(b) - 1 : b[Index(key, d, Size(b))] = x}

\* Mutant: off by one.
DisplacedLate(max, d) == IF d > max + 1 THEN d ELSE max

\* Insertion takes the first empty bucket and remembers how far it went.
Displaced(max, d) == IF d > max THEN d ELSE max

\* A search goes on behind empty buckets, as far as max says.
Reaches(b, key, x, max) ==
  LET ds == Displacements(b, key, x)
  IN ds # {} /\ Min(ds) <= max

-----------------------------------------------------------------------------
(* weak_entry_t: [referent, refs, out, num, max]; out_of_line or not *)

NoEntry == [referent |-> Nil, refs |-> Buckets(InlineCount, Nil), out |-> FALSE,
            num |-> 0, max |-> 0]

NewEntry(o, l) == [NoEntry EXCEPT !.referent = o, !.refs[0] = l]

\* The second half of append_referrer
InsertReferrer(e, l) ==
  LET ds == Displacements(e.refs, l, Nil)
      d == Min(ds)
  IN IF ds = {} THEN e
     ELSE [e EXCEPT !.refs[Index(l, d, Size(e.refs))] = l,
                    !.num = @ + 1, !.max = Displaced(@, d)]

\* grow_refs_and_insert
GrowAndInsert(e, l) ==
  LET n == IF Size(e.refs) = 0 THEN FirstRefs ELSE 2 * Size(e.refs)
      moved[i \in 0 .. Size(e.refs)] ==
        IF i = 0 THEN [e EXCEPT !.refs = Buckets(n, Nil), !.num = 0, !.max = 0]
        ELSE IF e.refs[i - 1] = Nil THEN moved[i - 1]
        ELSE InsertReferrer(moved[i - 1], e.refs[i - 1])
  IN InsertReferrer(moved[Size(e.refs)], l)

OutOfLine(e) == [e EXCEPT !.out = TRUE, !.num = InlineCount, !.max = 0]

AppendReferrer(e, l) ==
  LET room == {i \in DOMAIN e.refs : e.refs[i] = Nil}
      o == IF e.out THEN e ELSE OutOfLine(e)
  IN IF ~e.out /\ room # {} THEN [e EXCEPT !.refs[Min(room)] = l]
     ELSE IF o.num >= (Size(o.refs) * 3) \div 4 THEN GrowAndInsert(o, l)
     ELSE InsertReferrer(o, l)

\* Is the variable among the referrers that remove_referrer finds?
Refers(e, l) ==
  IF e.out THEN Reaches(e.refs, l, l, e.max) ELSE \E i \in DOMAIN e.refs : e.refs[i] = l

RemoveReferrer(e, l) ==
  IF ~Refers(e, l) THEN e
  ELSE [e EXCEPT !.refs = [i \in DOMAIN e.refs |-> IF e.refs[i] = l THEN Nil ELSE e.refs[i]],
                 !.num = IF e.out THEN @ - 1 ELSE @]

\* What weak_unregister_no_lock takes for empty: the pointer to the hash set of
\* an entry that went out of line looks like a referrer.
LooksEmpty(e) == ~e.out /\ \A i \in DOMAIN e.refs : e.refs[i] = Nil

-----------------------------------------------------------------------------
(* weak_table_t: [b, num, max] *)

Table == [b |-> entries, num |-> num_entries, max |-> max_displacement]

SetTable(t) ==
  /\ entries' = t.b
  /\ num_entries' = t.num
  /\ max_displacement' = t.max

ReferentsOf(t) == [i \in DOMAIN t.b |-> t.b[i].referent]

\* weak_entry_insert
InsertEntry(t, e) ==
  LET n == Size(t.b)
      ds == Displacements(ReferentsOf(t), e.referent, Nil)
      d == Min(ds)
  IN IF ds = {} THEN t
     ELSE [b |-> [t.b EXCEPT ![Index(e.referent, d, n)] = e],
           num |-> t.num + 1, max |-> Displaced(t.max, d)]

\* weak_resize
Resized(t, n) ==
  LET moved[i \in 0 .. Size(t.b)] ==
        IF i = 0 THEN [b |-> Buckets(n, NoEntry), num |-> 0, max |-> 0]
        ELSE IF t.b[i - 1].referent = Nil THEN moved[i - 1]
        ELSE InsertEntry(moved[i - 1], t.b[i - 1])
  IN moved[Size(t.b)]

\* Mutant: the table grows when it is full.
GrownFull(t) ==
  LET n == Size(t.b)
  IN IF t.num >= n
     THEN Resized(t, IF n = 0 THEN FirstEntries ELSE 2 * n) ELSE t

\* weak_grow_maybe
Grown(t) ==
  LET n == Size(t.b)
  IN IF t.num >= (n * 3) \div 4
     THEN Resized(t, IF n = 0 THEN FirstEntries ELSE 2 * n) ELSE t

\* weak_compact_maybe
Compacted(t) ==
  LET n == Size(t.b)
  IN IF n >= CompactAt /\ n \div (2 * CompactBy) >= t.num
     THEN Resized(t, n \div CompactBy) ELSE t

\* weak_entry_for_referent: the bucket, or none
EntryFor(t, o) ==
  IF Reaches(ReferentsOf(t), o, o, t.max)
  THEN {Index(o, Min(Displacements(ReferentsOf(t), o, o)), Size(t.b))} ELSE {}

\* weak_entry_remove
RemoveEntry(t, i) ==
  Compacted([t EXCEPT !.b[i] = NoEntry, !.num = @ - 1])

-----------------------------------------------------------------------------

TableInit ==
  /\ entries = Buckets(0, NoEntry)
  /\ num_entries = 0
  /\ max_displacement = 0
  /\ value = [l \in Variables |-> Nil]

\* weak_register_no_lock, of an object that is viable
WeakRegister(o, l) ==
  /\ value[l] = Nil
  /\ value' = [value EXCEPT ![l] = o]
  /\ LET found == EntryFor(Table, o)
     IN IF found # {}
        THEN \E i \in found : SetTable([Table EXCEPT !.b[i] = AppendReferrer(@, l)])
        ELSE SetTable(InsertEntry(Grown(Table), NewEntry(o, l)))

\* weak_unregister_no_lock; the variable is stored to or destroyed.
WeakUnregister(l) ==
  /\ value[l] # Nil
  /\ value' = [value EXCEPT ![l] = Nil]
  /\ LET found == EntryFor(Table, value[l])
     IN IF found = {} THEN SetTable(Table)
        ELSE \E i \in found :
               LET e == RemoveReferrer(entries[i], l)
               IN SetTable(IF LooksEmpty(e) THEN RemoveEntry(Table, i)
                           ELSE [Table EXCEPT !.b[i] = e])

\* weak_clear_no_lock: the object is deallocated.  Another may get its address.
WeakClear(o) ==
  \E i \in EntryFor(Table, o) :
    LET e == entries[i]
        zeroed == {l \in Variables : value[l] = o /\ \E j \in DOMAIN e.refs : e.refs[j] = l}
    IN /\ value' = [l \in Variables |-> IF l \in zeroed THEN Nil ELSE value[l]]
       /\ SetTable(RemoveEntry(Table, i))

TableNext ==
  \/ \E o \in Referents : \E l \in MayHold[o] : WeakRegister(o, l)
  \/ \E l \in Variables : WeakUnregister(l)
  \/ \E o \in Referents : WeakClear(o)

TableSpec == TableInit /\ [][TableNext]_tableVars

-----------------------------------------------------------------------------
(* Properties *)

Entries == {i \in DOMAIN entries : entries[i].referent # Nil}

\* Through every growth, compaction and reuse of buckets, a search finds a
\* variable among the referrers of an object exactly when the variable holds
\* the object, and it is there once: an unregistration finds what it removes,
\* and weak_clear_no_lock zeroes every variable that would dangle.  A search
\* that stops too early, or at a bucket that a removal emptied, breaks it.
LookupsAgree ==
  /\ \A o \in Referents, l \in Variables :
       (\E i \in EntryFor(Table, o) : Refers(entries[i], l)) <=> value[l] = o
  /\ \A i \in Entries, l \in Variables :
       Cardinality({j \in DOMAIN entries[i].refs : entries[i].refs[j] = l}) =
         IF value[l] = entries[i].referent THEN 1 ELSE 0
  /\ \A i, j \in Entries : entries[i].referent = entries[j].referent => i = j

\* No search runs through a whole table, which would be taken for a damaged
\* one (bad_weak_table): the counts that decide about growth are those of the
\* used buckets, some bucket is empty, and the largest displacement ends the
\* search for what is not there before it is back at its beginning.
SearchesEnd ==
  /\ num_entries = Cardinality(Entries)
  /\ entries # <<>> =>
       num_entries < Size(entries) /\ max_displacement + 1 < Size(entries)
  /\ \A i \in Entries :
       LET e == entries[i]
       IN e.out => /\ e.num = Cardinality({j \in DOMAIN e.refs : e.refs[j] # Nil})
                   /\ e.num < Size(e.refs) /\ e.max + 1 < Size(e.refs)
=============================================================================
