-------------------------- MODULE MethodCacheProofs --------------------------
(***************************************************************************)
(* Theorems about MethodCache, for any number of threads, classes,         *)
(* selectors and arrays of buckets, any size of the caches, and with       *)
(* restartable ranges and without, and their proofs.                       *)
(*                                                                         *)
(* No message reads freed memory (ReadsAreSafe): masks never shrink, and   *)
(* the buckets that a message loads after a mask are at least as many as   *)
(* the mask says (ReaderOK, CacheOK).  A scan never runs past the end      *)
(* marker (Ends).  Buckets in the garbage are nobody's cache, so that a    *)
(* thread that was found outside the lookup cannot come by them any more   *)
(* (Checked): when all threads have been looked at, no message reads the   *)
(* garbage.                                                                *)
(*                                                                         *)
(* Every scan of a cache ends (EmptySlot): the counter of a cache is at    *)
(* least the number of its used buckets, the constant empty cache has      *)
(* none, and the holder of the lock fills a bucket only where it left room *)
(* for it (RoomInv).                                                       *)
(*                                                                         *)
(* No message calls a stale implementation (NeverStale): what a cache, the *)
(* holder of the lock or a message that began after the last change knows  *)
(* of a method is its implementation now, or one whose change has yet to   *)
(* flush that class (FreshInv).                                            *)
(*                                                                         *)
(* The second half is about the allocator, NanoV2, for any number of       *)
(* threads, CPUs, arenas and slots, as many as free_count can count        *)
(* included, and any width of the two counts: SlotsExact, StalePopsFail    *)
(* and MadvisedIsEmpty.  A block in use has a free list whose links are    *)
(* intact, and its word counts that list and the slots that were never     *)
(* used; these are the slots that nobody owns (BlockOK).  This holds until *)
(* a pop goes through with a stale link or a madvise comes too late        *)
(* (damaged).  The generations that were counted since a pop loaded the    *)
(* word tell the word it loaded from the one of now, unless gen_count went *)
(* round or started over (PopOK); so the first stale pop needs that.       *)
(***************************************************************************)
EXTENDS MethodCache, NanoV2, FiniteSetTheorems, TLAPS

(***************************************************************************)
(* The inductive invariant.                                                *)
(***************************************************************************)
Reading == {"compare", "scan", "imp"}
Holding == {"fill", "change", "flush", "collect"}
Pcs == {"idle", "buckets", "lookup"} \cup Reading \cup Holding

\* The fields that matter of a message
MessageOK(r) ==
  r \in [pc : Pcs, cls : {r.cls}, sel : {r.sel}, since : {r.since}, mask : Nat,
         buckets : Buffers \cup {Empty}, i : {r.i}, wrapped : {r.wrapped},
         imp : {r.imp}]

\* An array of n buckets that ends with the end marker
Ends(h, n) == n \in Nat \ {0} /\ DOMAIN h = 0 .. n - 1 /\ h[n - 1].sel = 1

HeapOK ==
  /\ heap = [b \in Buffers |-> heap[b]]
  /\ \A b \in Buffers : heap[b] # NoBuckets => \E n \in Nat : Ends(heap[b], n)

\* The buckets of a cache are at least as many as its mask says, and are no
\* other cache's.
CacheOK ==
  /\ cache \in [Classes -> [buckets : Buffers \cup {Empty}, mask : Nat, occupied : Nat]]
  /\ \A c \in Classes :
       /\ cache[c].mask = 0 \/ cache[c].mask < MaxSize
       /\ cache[c].occupied > 0 => cache[c].mask > 0
       /\ cache[c].buckets # Empty =>
            \E n \in Nat : cache[c].mask < n /\ Ends(heap[cache[c].buckets], n)
       /\ cache[c].buckets = Empty /\ cache[c].occupied > 0 =>
            work.pc = "mask" /\ work.op # "insert" /\ work.cls = c
       /\ \A d \in Classes : cache[c].buckets = cache[d].buckets =>
            c = d \/ cache[c].buckets = Empty

\* What was a cache's and is no longer
Discarded(b) ==
  b \in Buffers /\ heap[b] # NoBuckets /\ \A c \in Classes : cache[c].buckets # b

GarbageOK == \A b \in garbage : Discarded(b)

WorkType ==
  [op : {"none", "insert", "change", "flush", "collect"},
   pc : {"none", "buckets", "mask", "fill", "sel", "flush", "collect"},
   cls : Classes \cup {"none"}, sel : Selectors \cup {0}, size : Nat,
   old : Buffers \cup {Empty}, todo : SUBSET Classes,
   unchecked : SUBSET Threads]

\* The holder of runtimeLock
WorkOK ==
  /\ work \in WorkType
  /\ lock = NoThread => work.pc = "none"
  /\ lock # NoThread => lock \in Threads /\ call[lock].pc \in Holding
  /\ work.pc \in {"buckets", "mask"} =>
       /\ work.cls \in Classes /\ work.size > 1 /\ work.size <= MaxSize
       /\ work.size > cache[work.cls].mask
  /\ work.pc = "buckets" =>
       /\ work.old \in {Empty, cache[work.cls].buckets}
       /\ work.op = "insert" => \E b \in Buffers : heap[b] = NoBuckets
  /\ work.pc = "mask" =>
       /\ work.old # Empty => Discarded(work.old)
       /\ work.op = "insert" => /\ cache[work.cls].buckets # Empty
                                /\ Ends(heap[cache[work.cls].buckets], work.size)
       /\ work.op # "insert" => cache[work.cls].buckets = Empty
  /\ work.op = "insert" => work.sel \in Selectors /\ work.cls \in Classes
  /\ work.op = "insert" /\ work.pc \in {"fill", "sel", "collect"} =>
       cache[work.cls].buckets # Empty /\ cache[work.cls].mask > 0
  /\ work.pc \in {"fill", "sel"} => work.op = "insert"
  /\ work.pc = "flush" => work.op # "insert"

\* A message that has loaded the mask, or is reading buckets
ReaderOK(r) ==
  /\ MessageOK(r)
  /\ r.pc \in {"buckets", "lookup"} \cup Reading => r.cls \in Classes /\ r.sel \in Selectors
  /\ r.pc = "buckets" => r.mask <= cache[r.cls].mask
  /\ r.pc \in Reading /\ r.buckets # Empty =>
       heap[r.buckets] # NoBuckets /\ r.i \in DOMAIN heap[r.buckets]

ReadersOK ==
  /\ call = [t \in Threads |-> call[t]]
  /\ \A t \in Threads : ReaderOK(call[t])

\* The threads that a collection has looked at do not read the garbage.
Checked ==
  work.pc = "collect" =>
    \A t \in Threads \ work.unchecked :
      call[t].pc \in Reading => call[t].buckets \notin garbage

Inv ==
  /\ restartable \in BOOLEAN
  /\ HeapOK /\ CacheOK /\ GarbageOK /\ WorkOK /\ ReadersOK /\ Checked

(***************************************************************************)
(* Facts about arrays and messages.                                        *)
(***************************************************************************)
LEMMA EndsFacts ==
  ASSUME NEW h, NEW n, Ends(h, n)
  PROVE  h # NoBuckets /\ 0 \in DOMAIN h /\ n - 1 \in DOMAIN h
<1>1. 0 \in DOMAIN h /\ n - 1 \in DOMAIN h
  BY DEF Ends
<1>2. DOMAIN NoBuckets = {}
  BY DEF NoBuckets
<1> QED  BY <1>1, <1>2

LEMMA AllocateEnds ==
  ASSUME NEW n \in Nat \ {0, 1}
  PROVE  Ends(AllocateBuckets(n), n)
BY DEF Ends, AllocateBuckets, EndMarker, Unused, Bucket

\* Messages that are not reading a cache
Quiet(r) ==
  /\ MessageOK(r) /\ r.pc \in {"idle", "lookup"} \cup Holding
  /\ r.pc = "lookup" => r.cls \in Classes /\ r.sel \in Selectors

LEMMA NoMessageQuiet ==
  /\ Quiet(NoMessage)
  /\ Quiet([NoMessage EXCEPT !.pc = "collect"])
  /\ \A r : r.cls \in Classes /\ r.sel \in Selectors => Quiet(Missed(r))
BY DEF Quiet, MessageOK, NoMessage, Missed, Pcs, Holding, Reading, Empty

\* The readers stay safe if the arrays they read are neither freed nor
\* resized, and masks do not shrink.
Read(b) == \E t \in Threads : call[t].pc \in Reading /\ call[t].buckets = b
ArraysKept ==
  \A b \in Buffers : Read(b) /\ heap[b] # NoBuckets =>
    heap'[b] # NoBuckets /\ DOMAIN heap'[b] = DOMAIN heap[b]
MasksGrow == \A c \in Classes : cache[c].mask <= cache'[c].mask

LEMMA ReadersKept ==
  ASSUME Inv, CacheOK', ArraysKept, MasksGrow, NEW t \in Threads, NEW r, Quiet(r),
         call' = call \/ call' = [call EXCEPT ![t] = r]
  PROVE  ReadersOK'
<1>1. /\ call = [u \in Threads |-> call[u]]
      /\ \A u \in Threads : ReaderOK(call[u])
  BY DEF Inv, ReadersOK
<1>2. \A c \in Classes : cache[c].mask \in Nat /\ cache'[c].mask \in Nat
  BY DEF Inv, CacheOK
<1>3. ASSUME NEW u \in Threads PROVE ReaderOK(call[u])'
  <2>1. CASE call'[u] = call[u]
    <3>1. ReaderOK(call[u])
      BY <1>1
    <3>2. MessageOK(call[u]) /\ call[u].mask \in Nat /\ call[u].buckets \in Buffers \cup {Empty}
      BY <3>1 DEF ReaderOK, MessageOK
    <3>3. MessageOK(call[u])'
      BY <2>1, <3>2 DEF MessageOK
    <3>4. call[u].pc = "buckets" => call[u].mask <= cache'[call[u].cls].mask
      BY <1>2, <3>1, <3>2 DEF ReaderOK, MasksGrow
    <3>5. call[u].pc \in Reading /\ call[u].buckets # Empty =>
            heap'[call[u].buckets] # NoBuckets /\ call[u].i \in DOMAIN heap'[call[u].buckets]
      BY <3>1, <3>2 DEF ReaderOK, ArraysKept, Read
    <3> QED  BY <2>1, <3>1, <3>3, <3>4, <3>5 DEF ReaderOK
  <2>2. CASE call'[u] = r
    <3>1. MessageOK(call[u])'
      BY <2>2 DEF Quiet, MessageOK
    <3> QED  BY <2>2, <3>1 DEF ReaderOK, Quiet, Reading, Holding
  <2> QED  BY <1>1, <2>1, <2>2
<1> QED  BY <1>1, <1>3 DEF ReadersOK

(***************************************************************************)
(* The steps of a message.                                                 *)
(***************************************************************************)
Still == UNCHANGED <<heap, cache, garbage, lock, work, restartable>>

LEMMA LoadKeeps ==
  ASSUME Inv, Still, NEW t \in Threads, NEW r, call' = [call EXCEPT ![t] = r],
         call[t].pc \notin Holding, ReaderOK(r),
         r.pc \in Reading =>
           \/ r.buckets \notin garbage
           \/ call[t].pc \in Reading /\ r.buckets = call[t].buckets
  PROVE  Inv'
<1>1. /\ call = [u \in Threads |-> call[u]]
      /\ \A u \in Threads : ReaderOK(call[u])
  BY DEF Inv, ReadersOK
<1>2. \A u \in Threads : call'[u] = IF u = t THEN r ELSE call[u]
  BY <1>1
<1>3. ReadersOK'
  <2>1. call' = [u \in Threads |-> call'[u]]
    BY <1>1
  <2>2. ASSUME NEW u \in Threads PROVE ReaderOK(call[u])'
    <3>1. ReaderOK(IF u = t THEN r ELSE call[u])
      BY <1>1
    <3> QED  BY <1>2, <3>1 DEF ReaderOK, MessageOK, Still
  <2> QED  BY <2>1, <2>2 DEF ReadersOK
<1>4. HeapOK' /\ CacheOK' /\ GarbageOK' /\ restartable' \in BOOLEAN
  <2>1. UNCHANGED <<heap, cache, garbage, work, restartable>>
    BY DEF Still
  <2>2. HeapOK' /\ restartable' \in BOOLEAN
    BY <2>1 DEF Inv, HeapOK
  <2>3. CacheOK
    BY DEF Inv
  <2>4. CacheOK'
    BY ONLY <2>1, <2>3 DEF CacheOK
  <2>5. GarbageOK'
    BY <2>1 DEF Inv, GarbageOK, Discarded
  <2> QED  BY <2>2, <2>4, <2>5
<1>5. WorkOK'
  BY <1>2 DEF Inv, WorkOK, Discarded, Still
<1>6. Checked'
  BY <1>2 DEF Inv, Checked, Still
<1> QED  BY <1>3, <1>4, <1>5, <1>6 DEF Inv

LEMMA SendKeeps ==
  ASSUME Inv, NEW t \in Threads, NEW c \in Classes, NEW s \in Selectors, Send(t, c, s)
  PROVE  Inv'
<1> DEFINE r == [NoMessage EXCEPT !.pc = "buckets", !.cls = c, !.sel = s,
                                  !.since = Settled(s), !.mask = cache[c].mask]
<1>1. cache[c].mask \in Nat
  BY DEF Inv, CacheOK
<1>2. r.pc = "buckets" /\ r.cls = c /\ r.sel = s /\ r.mask = cache[c].mask /\ MessageOK(r)
  BY <1>1 DEF MessageOK, NoMessage, Pcs, Empty
<1>3. ReaderOK(r)
  BY <1>1, <1>2 DEF ReaderOK, Reading
<1>4. call' = [call EXCEPT ![t] = r] /\ Still /\ call[t].pc = "idle"
  BY DEF Send, Still, Is
<1> HIDE DEF r
<1> QED  BY <1>2, <1>3, <1>4, LoadKeeps DEF Reading, Holding

\* What a message with its place in the buckets knows.
LEMMA AtEnd ==
  ASSUME Inv, NEW t \in Threads, call[t].pc \in Reading
  PROVE  /\ call[t].cls \in Classes /\ call[t].sel \in Selectors
         /\ call[t].sel \notin {0, 1}
         /\ call[t].buckets = Empty => Sel(t) = 0
         /\ call[t].buckets # Empty =>
              \E n \in Nat \ {0} : /\ DOMAIN heap[call[t].buckets] = 0 .. n - 1
                                   /\ call[t].i \in 0 .. n - 1
                                   /\ Sel(t) # 1 => call[t].i + 1 \in 0 .. n - 1
<1>1. ReaderOK(call[t])
  BY DEF Inv, ReadersOK
<1>2. call[t].sel \notin {0, 1}
  BY <1>1, SelectorsAssumption DEF ReaderOK
<1>3. call[t].buckets \in Buffers \cup {Empty}
  BY <1>1 DEF ReaderOK, MessageOK
<1>4. ASSUME call[t].buckets # Empty
      PROVE  \E n \in Nat \ {0} : /\ DOMAIN heap[call[t].buckets] = 0 .. n - 1
                                  /\ call[t].i \in 0 .. n - 1
                                  /\ Sel(t) # 1 => call[t].i + 1 \in 0 .. n - 1
  <2>1. heap[call[t].buckets] # NoBuckets /\ call[t].i \in DOMAIN heap[call[t].buckets]
    BY <1>1, <1>4 DEF ReaderOK
  <2>2. PICK n \in Nat : Ends(heap[call[t].buckets], n)
    BY <1>3, <1>4, <2>1 DEF Inv, HeapOK
  <2>3. Sel(t) # 1 => call[t].i # n - 1
    BY <1>4, <2>2 DEF Sel, At, Ends
  <2> QED  BY <2>1, <2>2, <2>3 DEF Ends
<1>5. call[t].buckets = Empty => Sel(t) = 0
  BY DEF Sel, At, Unused, Bucket
<1> QED  BY <1>1, <1>2, <1>4, <1>5 DEF ReaderOK

LEMMA LoadBucketsKeeps ==
  ASSUME Inv, NEW t \in Threads, LoadBuckets(t)
  PROVE  Inv'
<1> DEFINE b == cache[call[t].cls].buckets
           r == [call[t] EXCEPT !.pc = "compare", !.buckets = b,
                                !.i = CacheHash(call[t].sel, call[t].mask)]
<1>1. /\ call[t].pc = "buckets" /\ ReaderOK(call[t]) /\ Still
      /\ call' = [call EXCEPT ![t] = r]
  BY DEF LoadBuckets, Load, Is, Still, Inv, ReadersOK
<1>2. /\ call[t].cls \in Classes /\ call[t].sel \in Nat /\ call[t].mask \in Nat
      /\ call[t].mask <= cache[call[t].cls].mask /\ MessageOK(call[t])
  BY <1>1, SelectorsAssumption DEF ReaderOK, MessageOK
<1>3. b \in Buffers \cup {Empty} /\ cache[call[t].cls].mask \in Nat
  BY <1>2 DEF Inv, CacheOK
<1>4. /\ r.pc = "compare" /\ r.buckets = b /\ r.cls = call[t].cls /\ r.sel = call[t].sel
      /\ r.i = CacheHash(call[t].sel, call[t].mask) /\ MessageOK(r)
  BY <1>2, <1>3 DEF MessageOK, Pcs, Reading
<1>5. r.i \in 0 .. call[t].mask
  BY <1>2, <1>4 DEF CacheHash
<1>6. b # Empty => heap[b] # NoBuckets /\ r.i \in DOMAIN heap[b]
  <2> SUFFICES ASSUME b # Empty PROVE heap[b] # NoBuckets /\ r.i \in DOMAIN heap[b]
    OBVIOUS
  <2>1. PICK n \in Nat : cache[call[t].cls].mask < n /\ Ends(heap[b], n)
    BY <1>2 DEF Inv, CacheOK
  <2>2. heap[b] # NoBuckets
    BY <2>1, EndsFacts
  <2>3. DOMAIN heap[b] = 0 .. n - 1
    BY <2>1 DEF Ends
  <2> HIDE DEF r, b
  <2> QED  BY <1>2, <1>3, <1>5, <2>1, <2>2, <2>3
<1>7. b \notin garbage
  BY <1>2 DEF Inv, GarbageOK, Discarded
<1> HIDE DEF r, b
<1>8. ReaderOK(r)
  BY <1>1, <1>4, <1>6 DEF ReaderOK, Reading
<1> QED  BY <1>1, <1>4, <1>7, <1>8, LoadKeeps DEF Holding

LEMMA CompareKeeps ==
  ASSUME Inv, NEW t \in Threads, Compare(t)
  PROVE  Inv'
<1> DEFINE r == [call[t] EXCEPT !.pc = IF Sel(t) = call[t].sel THEN "imp" ELSE "scan"]
<1>1. /\ call[t].pc = "compare" /\ ReaderOK(call[t]) /\ Still
      /\ call' = [call EXCEPT ![t] = r]
  BY DEF Compare, Load, Is, Still, Inv, ReadersOK
<1>2. /\ r.pc \in {"imp", "scan"} /\ r.buckets = call[t].buckets /\ r.cls = call[t].cls
      /\ r.sel = call[t].sel /\ r.i = call[t].i /\ MessageOK(r)
  BY <1>1 DEF ReaderOK, MessageOK, Pcs, Reading
<1> HIDE DEF r
<1>3. ReaderOK(r)
  BY <1>1, <1>2 DEF ReaderOK, Reading
<1> QED  BY <1>1, <1>2, <1>3, LoadKeeps DEF Reading, Holding

LEMMA MissedKeeps ==
  ASSUME Inv, NEW t \in Threads, Still, call[t].pc \in {"buckets"} \cup Reading,
         call' = [call EXCEPT ![t] = Missed(call[t])]
  PROVE  Inv'
<1>1. ReaderOK(call[t])
  BY DEF Inv, ReadersOK
<1>2. Quiet(Missed(call[t]))
  BY <1>1, NoMessageQuiet DEF ReaderOK
<1>3. ReaderOK(Missed(call[t])) /\ Missed(call[t]).pc = "lookup"
  BY <1>2 DEF Quiet, ReaderOK, Missed, NoMessage, Reading
<1> QED  BY <1>3, LoadKeeps DEF Reading, Holding

LEMMA ScanKeeps ==
  ASSUME Inv, NEW t \in Threads, Scan(t)
  PROVE  Inv'
<1>1. /\ call[t].pc = "scan" /\ ReaderOK(call[t]) /\ Still
  BY DEF Scan, Load, Is, Still, Inv, ReadersOK
<1>2. CASE Sel(t) = 0 \/ (Sel(t) = 1 /\ call[t].wrapped)
  BY <1>1, <1>2, MissedKeeps DEF Scan, Load, Reading
<1>3. CASE ~(Sel(t) = 0 \/ (Sel(t) = 1 /\ call[t].wrapped))
  <2>1. PICK i, w : /\ i = IF Sel(t) = 1 THEN 0 ELSE call[t].i + 1
                    /\ call' = [call EXCEPT ![t] =
                                  [call[t] EXCEPT !.pc = "compare", !.i = i, !.wrapped = w]]
    <3>1. CASE Sel(t) = 1
      BY <1>3, <3>1 DEF Scan, Load
    <3>2. CASE Sel(t) # 1
      <4>1. call' = [call EXCEPT ![t] =
                       [call[t] EXCEPT !.pc = "compare", !.i = call[t].i + 1]]
        BY <1>3, <3>2 DEF Scan, Load
      <4>2. [call[t] EXCEPT !.pc = "compare", !.i = call[t].i + 1] =
            [call[t] EXCEPT !.pc = "compare", !.i = call[t].i + 1, !.wrapped = call[t].wrapped]
        BY <1>1 DEF ReaderOK, MessageOK
      <4> QED  BY <3>2, <4>1, <4>2
    <3> QED  BY <3>1, <3>2
  <2> DEFINE r == [call[t] EXCEPT !.pc = "compare", !.i = i, !.wrapped = w]
  <2>2. /\ r.pc = "compare" /\ r.buckets = call[t].buckets /\ r.cls = call[t].cls
        /\ r.sel = call[t].sel /\ r.i = i /\ MessageOK(r)
    BY <1>1 DEF ReaderOK, MessageOK, Pcs, Reading
  <2>3. call[t].buckets # Empty =>
          heap[call[t].buckets] # NoBuckets /\ i \in DOMAIN heap[call[t].buckets]
    BY <1>1, <2>1, AtEnd DEF ReaderOK, Reading
  <2> HIDE DEF r
  <2>4. ReaderOK(r)
    BY <1>1, <2>2, <2>3 DEF ReaderOK, Reading
  <2> QED  BY <1>1, <2>1, <2>2, <2>4, LoadKeeps DEF Reading, Holding, r
<1> QED  BY <1>2, <1>3

LEMMA LoadImpKeeps ==
  ASSUME Inv, NEW t \in Threads, LoadImp(t)
  PROVE  Inv'
<1>1. /\ call[t].pc = "imp" /\ Still /\ call' = [call EXCEPT ![t] = NoMessage]
  BY DEF LoadImp, Load, Is, Still
<1>2. ReaderOK(NoMessage) /\ NoMessage.pc = "idle"
  BY NoMessageQuiet DEF Quiet, ReaderOK, NoMessage, Reading
<1> QED  BY <1>1, <1>2, LoadKeeps DEF Reading, Holding

LEMMA SignalKeeps ==
  ASSUME Inv, NEW t \in Threads, Signal(t)
  PROVE  Inv'
BY MissedKeeps DEF Signal, InCritical, Load, Still, Reading

(***************************************************************************)
(* The steps of the holder of runtimeLock.                                 *)
(***************************************************************************)
LEMMA UnlockKeeps ==
  ASSUME Inv, lock \in Threads, NEW r, Quiet(r), Unlock(r)
  PROVE  WorkOK' /\ Checked'
BY DEF WorkOK, Checked, Unlock, NoWork, WorkType, Empty, Inv, ReadersOK, CacheOK

\* Steps that leave the arrays and the caches alone
LEMMA CachesKept ==
  ASSUME Inv, work.pc # "mask", UNCHANGED <<heap, cache, garbage>>
  PROVE  HeapOK' /\ CacheOK' /\ GarbageOK' /\ ArraysKept /\ MasksGrow
<1>1. HeapOK'
  BY DEF Inv, HeapOK
<1>2. CacheOK'
  BY DEF Inv, CacheOK
<1>3. GarbageOK'
  BY DEF Inv, GarbageOK, Discarded
<1>4. ArraysKept /\ MasksGrow
  BY DEF ArraysKept, MasksGrow, Inv, CacheOK
<1> QED  BY <1>1, <1>2, <1>3, <1>4

LEMMA SizeFacts ==
  ASSUME Inv, NEW c \in Classes
  PROVE  /\ NewCapacity(c) \in Nat /\ NewCapacity(c) > 1 /\ NewCapacity(c) <= MaxSize
         /\ NewCapacity(c) > cache[c].mask
         /\ HasRoom(c) => cache[c].mask > 0
         /\ cache[c].occupied > 0 =>
              Capacity(c) \in Nat /\ Capacity(c) > 1 /\ Capacity(c) <= MaxSize
                /\ Capacity(c) > cache[c].mask
<1>1. /\ cache[c].mask \in Nat /\ cache[c].occupied \in Nat
      /\ cache[c].mask = 0 \/ cache[c].mask < MaxSize
      /\ cache[c].occupied > 0 => cache[c].mask > 0
  BY DEF Inv, CacheOK
<1>2. Capacity(c) = IF cache[c].mask = 0 THEN 0 ELSE cache[c].mask + 1
  BY DEF Capacity
<1>3. NewCapacity(c) \in {InitSize, Capacity(c), MaxSize, 2 * Capacity(c)}
  BY DEF NewCapacity
<1>4. HasRoom(c) => cache[c].mask > 0
  BY <1>1, <1>2 DEF HasRoom, FillRatio
<1> QED  BY <1>1, <1>2, <1>4, SizesAssumption DEF NewCapacity

LEMMA LookUpKeeps ==
  ASSUME Inv, NEW t \in Threads, LookUp(t)
  PROVE  Inv'
<1> DEFINE c == call[t].cls
           v == LookUpImp(c, call[t].sel)
           r == [call[t] EXCEPT !.pc = "fill", !.imp = v]
<1>1. /\ call[t].pc = "lookup" /\ ReaderOK(call[t]) /\ lock = NoThread /\ lock' = t
      /\ UNCHANGED <<heap, cache, garbage, restartable>>
      /\ call = [u \in Threads |-> call[u]]
  BY DEF LookUp, Is, Inv, ReadersOK
<1>2. c \in Classes /\ call[t].sel \in Selectors /\ MessageOK(call[t])
  BY <1>1 DEF ReaderOK
<1>3. call' = [call EXCEPT ![t].pc = "fill", ![t].imp = v]
  BY DEF LookUp
<1>4. call' = [call EXCEPT ![t] = r]
  BY <1>1, <1>3
<1>5. Quiet(r) /\ r.pc = "fill"
  BY <1>2 DEF Quiet, MessageOK, Pcs, Holding
<1> HIDE DEF r
<1>6. HeapOK' /\ GarbageOK' /\ CacheOK'
  BY <1>1 DEF Inv, HeapOK, GarbageOK, Discarded, CacheOK, WorkOK
<1>7. ReadersOK'
  <2>1. ArraysKept /\ MasksGrow
    BY <1>1 DEF ArraysKept, MasksGrow, Inv, CacheOK
  <2> QED  BY <1>4, <1>5, <1>6, <2>1, ReadersKept
<1>8. WorkOK' /\ Checked'
  <2>1. PICK k : /\ k \in {"fill", "buckets"}
                 /\ k = "fill" => HasRoom(c) /\ ~IsConstantEmptyCache(c)
                 /\ work' = [NoWork EXCEPT
                      !.op = "insert", !.cls = c, !.sel = call[t].sel, !.pc = k,
                      !.size = NewCapacity(c),
                      !.old = IF IsConstantEmptyCache(c) THEN Empty ELSE cache[c].buckets]
    BY DEF LookUp
  <2>2. k = "fill" => cache[c].buckets # Empty /\ cache[c].mask > 0
    BY <1>1, <1>2, <2>1, SizeFacts DEF IsConstantEmptyCache, Inv, CacheOK, WorkOK
  <2>3. \E b \in Buffers : heap[b] = NoBuckets
    BY DEF LookUp
  <2>4. cache[c].buckets \in Buffers \cup {Empty}
    BY <1>2 DEF Inv, CacheOK
  <2>5. /\ work'.op = "insert" /\ work'.cls = c /\ work'.sel = call[t].sel /\ work'.pc = k
        /\ work'.size = NewCapacity(c) /\ work'.old \in {Empty, cache[c].buckets}
        /\ work' \in WorkType
    BY <1>2, <2>1, <2>4, SizeFacts DEF NoWork, WorkType
  <2>6. call'[t].pc = "fill"
    BY <1>1, <1>4, <1>5
  <2> QED  BY <1>1, <1>2, <2>1, <2>2, <2>3, <2>5, <2>6, SizeFacts, ThreadsAssumption
           DEF WorkOK, Checked, Holding
<1> QED  BY <1>1, <1>6, <1>7, <1>8 DEF Inv

LEMMA StoreBucketsKeeps ==
  ASSUME Inv, StoreBuckets
  PROVE  Inv'
<1> DEFINE c == work.cls
<1>1. /\ work.pc = "buckets" /\ UNCHANGED <<garbage, lock, call, restartable>>
      /\ work' = [work EXCEPT !.pc = "mask"] /\ lock # NoThread
  BY DEF StoreBuckets, Inv, WorkOK
<1>2. /\ c \in Classes /\ work.size \in Nat \ {0, 1} /\ work.size <= MaxSize
      /\ work.size > cache[c].mask /\ work.old \in {Empty, cache[c].buckets}
      /\ work \in WorkType
  BY <1>1 DEF Inv, WorkOK, WorkType
<1>3. /\ work'.pc = "mask" /\ work'.op = work.op /\ work'.cls = c
      /\ work'.size = work.size /\ work'.old = work.old /\ work'.sel = work.sel
      /\ work' \in WorkType
  BY <1>1, <1>2 DEF WorkType
<1>4. PICK b \in Buffers \cup {Empty} :
        /\ cache' = [cache EXCEPT ![c].buckets = b]
        /\ IF work.op = "insert"
             THEN /\ heap[b] = NoBuckets /\ b \in Buffers
                  /\ heap' = [heap EXCEPT ![b] = AllocateBuckets(work.size)]
             ELSE b = Empty /\ heap' = heap
  <2>1. CASE work.op = "insert"
    <3>1. Malloc \in Buffers /\ heap[Malloc] = NoBuckets
      BY <1>1, <2>1 DEF Malloc, Inv, WorkOK
    <3> QED  BY <2>1, <3>1 DEF StoreBuckets
  <2>2. CASE work.op # "insert"
    BY <2>2 DEF StoreBuckets
  <2> QED  BY <2>1, <2>2
<1>5. Ends(AllocateBuckets(work.size), work.size) /\ AllocateBuckets(work.size) # NoBuckets
  BY <1>2, AllocateEnds, EndsFacts
<1>6. Empty \notin Buffers
  BY BuffersAssumption DEF Empty
<1>7. \A d \in Classes :
        /\ cache[d].buckets # Empty => heap[cache[d].buckets] # NoBuckets
        /\ cache'[d].mask = cache[d].mask /\ cache'[d].occupied = cache[d].occupied
        /\ cache'[d].buckets = IF d = c THEN b ELSE cache[d].buckets
  BY <1>2, <1>4, EndsFacts DEF Inv, CacheOK
<1>8. /\ heap' = [e \in Buffers |-> heap'[e]]
      /\ \A e \in Buffers : heap[e] # NoBuckets => heap'[e] = heap[e]
      /\ work.op = "insert" => heap'[b] = AllocateBuckets(work.size)
  BY <1>4 DEF Inv, HeapOK
<1>9. HeapOK'
  <2> SUFFICES ASSUME NEW e \in Buffers, heap'[e] # NoBuckets
               PROVE  \E n \in Nat : Ends(heap'[e], n)
    BY <1>8 DEF HeapOK
  <2>1. CASE heap[e] # NoBuckets
    BY <1>8, <2>1 DEF Inv, HeapOK
  <2>2. CASE heap[e] = NoBuckets
    BY <1>2, <1>4, <1>5, <1>8, <2>2 DEF Inv, HeapOK
  <2> QED  BY <2>1, <2>2
<1>10. CacheOK'
  <2>1. cache' \in [Classes -> [buckets : Buffers \cup {Empty}, mask : Nat, occupied : Nat]]
    BY <1>2, <1>4 DEF Inv, CacheOK
  <2>2. ASSUME NEW d \in Classes
        PROVE  /\ cache'[d].mask = 0 \/ cache'[d].mask < MaxSize
               /\ cache'[d].occupied > 0 => cache'[d].mask > 0
               /\ cache'[d].buckets = Empty /\ cache'[d].occupied > 0 =>
                    work'.pc = "mask" /\ work'.op # "insert" /\ work'.cls = d
    BY <1>1, <1>3, <1>4, <1>6, <1>7 DEF Inv, CacheOK
  <2>3. ASSUME NEW d \in Classes, cache'[d].buckets # Empty
        PROVE  \E n \in Nat : cache'[d].mask < n /\ Ends(heap'[cache'[d].buckets], n)
    <3>1. CASE d = c
      BY <1>2, <1>4, <1>5, <1>7, <1>8, <2>3, <3>1
    <3>2. CASE d # c
      <4>1. cache[d].buckets \in Buffers /\ heap'[cache[d].buckets] = heap[cache[d].buckets]
        BY <1>7, <1>8, <2>3, <3>2 DEF Inv, CacheOK
      <4> QED  BY <1>7, <2>3, <3>2, <4>1 DEF Inv, CacheOK
    <3> QED  BY <3>1, <3>2
  <2>4. ASSUME NEW d \in Classes, NEW e \in Classes, cache'[d].buckets = cache'[e].buckets
        PROVE  d = e \/ cache'[d].buckets = Empty
    BY <1>4, <1>7, <2>4 DEF Inv, CacheOK
  <2> QED  BY <2>1, <2>2, <2>3, <2>4 DEF CacheOK
<1>11. ASSUME NEW e, Discarded(e) PROVE Discarded(e)'
  BY <1>4, <1>6, <1>7, <1>8, <1>11 DEF Discarded
<1>12. GarbageOK'
  BY <1>1, <1>11 DEF Inv, GarbageOK
<1>13. WorkOK'
  <2>1. ASSUME work.old # Empty PROVE Discarded(work.old)'
    <3>1. work.old = cache[c].buckets /\ work.old \in Buffers /\ heap[work.old] # NoBuckets
      BY <1>2, <1>7, <2>1 DEF WorkType
    <3>2. \A d \in Classes : cache'[d].buckets # work.old
      BY <1>2, <1>4, <1>6, <1>7, <2>1, <3>1 DEF Inv, CacheOK
    <3> QED  BY <1>3, <1>8, <3>1, <3>2 DEF Discarded
  <2>2. work.op = "insert" => cache'[c].buckets # Empty /\ Ends(heap'[cache'[c].buckets], work.size)
    BY <1>2, <1>4, <1>5, <1>6, <1>7, <1>8
  <2>3. work.op # "insert" => cache'[c].buckets = Empty
    BY <1>2, <1>4, <1>7
  <2> QED  BY <1>1, <1>2, <1>3, <1>7, <2>1, <2>2, <2>3 DEF Inv, WorkOK, Discarded
<1>14. ReadersOK'
  <2>1. ArraysKept /\ MasksGrow
    BY <1>7, <1>8 DEF ArraysKept, MasksGrow, Inv, CacheOK
  <2>2. lock \in Threads
    BY <1>1 DEF Inv, WorkOK
  <2> QED  BY <1>1, <1>10, <2>1, <2>2, NoMessageQuiet, ReadersKept
<1>15. Checked'
  BY <1>3 DEF Checked
<1> QED  BY <1>1, <1>9, <1>10, <1>12, <1>13, <1>14, <1>15 DEF Inv

LEMMA ContinueFacts ==
  ASSUME NEW w \in WorkType
  PROVE  /\ Continue(w) \in WorkType /\ Continue(w).op = w.op
         /\ Continue(w).cls = w.cls /\ Continue(w).sel = w.sel
         /\ \/ w.op = "insert" /\ Continue(w).pc = "fill"
            \/ w.op # "insert" /\ Continue(w).pc = "flush"
BY DEF Continue, WorkType

LEMMA StoreMaskKeeps ==
  ASSUME Inv, StoreMask
  PROVE  Inv'
<1> DEFINE c == work.cls
<1>1. /\ work.pc = "mask" /\ UNCHANGED <<heap, lock, call, restartable>>
      /\ cache' = [cache EXCEPT ![c].mask = work.size - 1, ![c].occupied = 0]
      /\ garbage' = garbage \cup ({work.old} \ {Empty})
      /\ lock \in Threads /\ call[lock].pc \in Holding
  BY DEF StoreMask, Inv, WorkOK
<1>2. /\ c \in Classes /\ work.size \in Nat /\ work.size > 1 /\ work.size <= MaxSize
      /\ work.size > cache[c].mask /\ work \in WorkType
      /\ work.old # Empty => Discarded(work.old)
      /\ work.op = "insert" => cache[c].buckets # Empty /\ Ends(heap[cache[c].buckets], work.size)
      /\ work.op # "insert" => cache[c].buckets = Empty
  BY <1>1 DEF Inv, WorkOK, WorkType
<1>3. \/ work' = [work EXCEPT !.pc = "collect", !.unchecked = Others]
      \/ work' = Continue(work)
  BY DEF StoreMask
<1>4. /\ work' \in WorkType
      /\ work'.op = work.op /\ work'.cls = work.cls /\ work'.sel = work.sel
      /\ \/ work'.pc = "collect" /\ work'.unchecked = Threads \ {lock}
         \/ work.op = "insert" /\ work'.pc = "fill"
         \/ work.op # "insert" /\ work'.pc = "flush"
  <2>1. CASE work' = [work EXCEPT !.pc = "collect", !.unchecked = Others]
    BY ONLY <1>2, <2>1 DEF Others, WorkType
  <2>2. CASE work' = Continue(work)
    BY ONLY <1>2, <2>2, ContinueFacts
  <2> QED  BY <1>3, <2>1, <2>2
<1>5. \A d \in Classes :
        /\ cache'[d].buckets = cache[d].buckets
        /\ cache'[d].mask = IF d = c THEN work.size - 1 ELSE cache[d].mask
        /\ cache'[d].occupied = IF d = c THEN 0 ELSE cache[d].occupied
  BY <1>1 DEF Inv, CacheOK
<1>6. HeapOK'
  BY <1>1 DEF Inv, HeapOK
<1>7. CacheOK'
  <2>1. cache' \in [Classes -> [buckets : Buffers \cup {Empty}, mask : Nat, occupied : Nat]]
    BY <1>1, <1>2 DEF Inv, CacheOK
  <2>2. ASSUME NEW d \in Classes
        PROVE  /\ cache'[d].mask = 0 \/ cache'[d].mask < MaxSize
               /\ cache'[d].occupied > 0 => cache'[d].mask > 0
               /\ ~(cache'[d].buckets = Empty /\ cache'[d].occupied > 0)
    BY <1>1, <1>2, <1>5, SizesAssumption DEF Inv, CacheOK
  <2>3. ASSUME NEW d \in Classes, cache'[d].buckets # Empty
        PROVE  \E n \in Nat : cache'[d].mask < n /\ Ends(heap'[cache'[d].buckets], n)
    <3>1. CASE d = c
      <4>1. work.op = "insert" /\ Ends(heap'[cache'[d].buckets], work.size)
        BY <1>1, <1>2, <1>5, <2>3, <3>1
      <4>2. cache'[d].mask < work.size
        BY <1>2, <1>5, <3>1
      <4> QED  BY <1>2, <4>1, <4>2
    <3>2. CASE d # c
      BY <1>1, <1>5, <2>3, <3>2 DEF Inv, CacheOK
    <3> QED  BY <3>1, <3>2
  <2> QED  BY <1>5, <2>1, <2>2, <2>3 DEF Inv, CacheOK
<1>8. GarbageOK'
  <2>1. ASSUME NEW b, Discarded(b) PROVE Discarded(b)'
    BY <1>1, <1>5, <2>1 DEF Discarded
  <2> QED  BY <1>1, <1>2, <2>1 DEF Inv, GarbageOK
<1>9. WorkOK'
  <2>1. work'.op = "insert" =>
          /\ work'.sel \in Selectors /\ work'.cls \in Classes
          /\ cache'[work'.cls].buckets # Empty /\ cache'[work'.cls].mask > 0
    BY <1>2, <1>4, <1>5 DEF Inv, WorkOK
  <2>2. lock' # NoThread /\ lock' \in Threads /\ call'[lock'].pc \in Holding
    BY <1>1, ThreadsAssumption
  <2> QED  BY <1>4, <2>1, <2>2 DEF WorkOK
<1>10. ReadersOK'
  <2>1. ArraysKept /\ MasksGrow
    BY <1>1, <1>2, <1>5 DEF ArraysKept, MasksGrow, Inv, CacheOK
  <2> QED  BY <1>1, <1>7, <2>1, NoMessageQuiet, ReadersKept
<1>11. Checked'
  BY <1>1, <1>4 DEF Checked, Holding, Reading
<1> QED  BY <1>1, <1>6, <1>7, <1>8, <1>9, <1>10, <1>11 DEF Inv

\* A place that a scan finds is not the end marker's.
LEMMA FoundFacts ==
  ASSUME NEW b, NEW mask, NEW s, NEW i \in Found(b, mask, s)
  PROVE  At(b, i).sel \in {0, s}
BY DEF Found

\* A bucket that is not the last changes, and the array still ends.
Filled(b, i) ==
  /\ heap[b][i].sel # 1
  /\ heap' = [e \in Buffers |-> heap'[e]]
  /\ \A e \in Buffers : e # b => heap'[e] = heap[e]
  /\ DOMAIN heap'[b] = DOMAIN heap[b]
  /\ \A j \in DOMAIN heap[b] : j # i => heap'[b][j] = heap[b][j]

LEMMA EndsKept ==
  ASSUME Inv, NEW b \in Buffers, NEW i, Filled(b, i)
  PROVE  /\ heap' = [e \in Buffers |-> heap'[e]]
         /\ \A e \in Buffers, n \in Nat : Ends(heap[e], n) => Ends(heap'[e], n)
         /\ \A e \in Buffers : DOMAIN heap'[e] = DOMAIN heap[e]
         /\ \A e \in Buffers : heap[e] # NoBuckets => heap'[e] # NoBuckets
<1>1. /\ heap' = [e \in Buffers |-> heap'[e]]
      /\ \A e \in Buffers : e # b => heap'[e] = heap[e]
  BY DEF Filled
<1>2. DOMAIN heap'[b] = DOMAIN heap[b] /\ \A j \in DOMAIN heap[b] : j # i => heap'[b][j] = heap[b][j]
  BY DEF Filled
<1>3. ASSUME NEW n \in Nat, Ends(heap[b], n) PROVE Ends(heap'[b], n)
  BY <1>2, <1>3, EndsFacts DEF Ends, Filled
<1>4. \A e \in Buffers, n \in Nat : Ends(heap[e], n) => Ends(heap'[e], n)
  BY <1>1, <1>3
<1>5. \A e \in Buffers : heap[e] # NoBuckets => heap'[e] # NoBuckets
  BY <1>4, EndsFacts DEF Inv, HeapOK
<1> QED  BY <1>1, <1>2, <1>4, <1>5

\* The holder fills a bucket: of the caches, only occupied may change.
LEMMA FillingKeeps ==
  ASSUME Inv, NEW i, work.pc \in {"fill", "sel"}, UNCHANGED garbage,
         Filled(cache[work.cls].buckets, i),
         cache' = cache \/ cache' = [cache EXCEPT ![work.cls].occupied = @ + 1]
  PROVE  HeapOK' /\ CacheOK' /\ GarbageOK' /\ ArraysKept /\ MasksGrow
<1> DEFINE c == work.cls
           b == cache[c].buckets
<1>1. c \in Classes /\ b # Empty /\ cache[c].mask > 0
  BY DEF Inv, WorkOK
<1>2. b \in Buffers
  BY <1>1 DEF Inv, CacheOK
<1>3. /\ heap' = [e \in Buffers |-> heap'[e]]
      /\ \A e \in Buffers, n \in Nat : Ends(heap[e], n) => Ends(heap'[e], n)
      /\ \A e \in Buffers : DOMAIN heap'[e] = DOMAIN heap[e]
      /\ \A e \in Buffers : heap[e] # NoBuckets => heap'[e] # NoBuckets
  <2>1. Filled(b, i)
    OBVIOUS
  <2> HIDE DEF b
  <2> QED  BY <1>2, <2>1, EndsKept
<1>4. /\ cache' \in [Classes -> [buckets : Buffers \cup {Empty}, mask : Nat, occupied : Nat]]
      /\ \A d \in Classes :
           /\ cache'[d].buckets = cache[d].buckets /\ cache'[d].mask = cache[d].mask
           /\ d # c => cache'[d].occupied = cache[d].occupied
  BY <1>1 DEF Inv, CacheOK
<1>5. HeapOK'
  <2> SUFFICES ASSUME NEW e \in Buffers, heap'[e] # NoBuckets
               PROVE  \E n \in Nat : Ends(heap'[e], n)
    BY <1>3 DEF HeapOK
  <2>1. CASE heap[e] # NoBuckets
    BY <1>3, <2>1 DEF Inv, HeapOK
  <2>2. CASE heap[e] = NoBuckets
    <3>1. \E n \in Nat : Ends(heap[b], n)
      BY <1>1 DEF Inv, CacheOK
    <3>2. e # b
      BY <2>2, <3>1, EndsFacts
    <3> QED  BY <2>2, <3>2 DEF Filled
  <2> QED  BY <2>1, <2>2
<1>6. CacheOK'
  <2>1. ASSUME NEW d \in Classes
        PROVE  /\ cache'[d].mask = 0 \/ cache'[d].mask < MaxSize
               /\ cache'[d].occupied > 0 => cache'[d].mask > 0
               /\ ~(cache'[d].buckets = Empty /\ cache'[d].occupied > 0)
    BY <1>1, <1>4 DEF Inv, CacheOK
  <2>2. ASSUME NEW d \in Classes, cache'[d].buckets # Empty
        PROVE  \E n \in Nat : cache'[d].mask < n /\ Ends(heap'[cache'[d].buckets], n)
    <3>1. cache[d].buckets \in Buffers
      BY <1>4, <2>2 DEF Inv, CacheOK
    <3>2. PICK n \in Nat : cache[d].mask < n /\ Ends(heap[cache[d].buckets], n)
      BY <1>4, <2>2 DEF Inv, CacheOK
    <3> QED  BY <1>3, <1>4, <3>1, <3>2
  <2> QED  BY <1>4, <2>1, <2>2 DEF Inv, CacheOK
<1>7. GarbageOK'
  <2>1. ASSUME NEW e, Discarded(e) PROVE Discarded(e)'
    BY <1>3, <1>4, <2>1 DEF Discarded
  <2> QED  BY <2>1 DEF Inv, GarbageOK
<1>8. ArraysKept /\ MasksGrow
  BY <1>3, <1>4 DEF ArraysKept, MasksGrow, Inv, CacheOK
<1> QED  BY <1>5, <1>6, <1>7, <1>8

LEMMA FillKeeps ==
  ASSUME Inv, Fill
  PROVE  Inv'
<1> DEFINE c == work.cls
           b == cache[c].buckets
           place == Found(b, cache[c].mask, work.sel)
<1>1. /\ work.pc = "fill" /\ work.op = "insert" /\ work.sel \in Selectors
      /\ c \in Classes /\ b # Empty
      /\ lock \in Threads /\ UNCHANGED <<garbage, restartable>>
  BY DEF Fill, Inv, WorkOK
<1>2. CASE \E i \in place : At(b, i).sel = 0
  <2>1. PICK i \in place :
          /\ heap' = [heap EXCEPT ![b][i].imp = call[lock].imp]
          /\ cache' = [cache EXCEPT ![c].occupied = @ + 1]
          /\ work' = [work EXCEPT !.pc = "sel"] /\ UNCHANGED <<lock, call>>
    BY <1>2 DEF Fill
  <2>2. heap[b][i].sel # 1
    BY <1>1, FoundFacts, SelectorsAssumption DEF At
  <2>3. heap' = [heap EXCEPT ![b] = [@ EXCEPT ![i] =
                   [heap[b][i] EXCEPT !.imp = call[lock].imp]]]
    BY <2>1
  <2>4. HeapOK' /\ CacheOK' /\ GarbageOK' /\ ArraysKept /\ MasksGrow
    <3>1. Filled(b, i)
      BY <2>2, <2>3 DEF Filled, Inv, HeapOK
    <3> HIDE DEF place
    <3> QED  BY <1>1, <2>1, <3>1, FillingKeeps
  <2>5. ReadersOK'
    BY <1>1, <2>1, <2>4, NoMessageQuiet, ReadersKept
  <2>6. WorkOK'
    BY <1>1, <2>1 DEF Inv, WorkOK, WorkType, CacheOK
  <2>7. Checked'
    BY <2>1 DEF Checked, Inv, WorkOK, WorkType
  <2> QED  BY <1>1, <2>4, <2>5, <2>6, <2>7 DEF Inv
<1>3. CASE ~\E i \in place : At(b, i).sel = 0
  <2>1. Unlock(NoMessage) /\ UNCHANGED <<heap, cache>>
    BY <1>3 DEF Fill
  <2>2. HeapOK' /\ CacheOK' /\ GarbageOK' /\ ArraysKept /\ MasksGrow
    BY <1>1, <2>1, CachesKept
  <2>3. ReadersOK'
    BY <1>1, <2>1, <2>2, NoMessageQuiet, ReadersKept DEF Unlock
  <2> QED  BY <1>1, <2>1, <2>2, <2>3, NoMessageQuiet, UnlockKeeps DEF Inv
<1> QED  BY <1>2, <1>3

LEMMA StoreSelKeeps ==
  ASSUME Inv, StoreSel
  PROVE  Inv'
<1> DEFINE c == work.cls
           b == cache[c].buckets
<1>1. /\ work.pc = "sel" /\ work.sel \in Selectors /\ c \in Classes /\ b # Empty
      /\ lock \in Threads /\ UNCHANGED <<cache, garbage, restartable>>
      /\ Unlock(NoMessage)
  BY DEF StoreSel, Inv, WorkOK
<1>2. PICK i \in Found(b, cache[c].mask, work.sel) :
        heap' = [heap EXCEPT ![b][i].sel = work.sel]
  BY DEF StoreSel
<1>3. heap[b][i].sel # 1
  BY <1>1, FoundFacts, SelectorsAssumption DEF At
<1>4. heap' = [heap EXCEPT ![b] = [@ EXCEPT ![i] = [heap[b][i] EXCEPT !.sel = work.sel]]]
  BY <1>2
<1>5. HeapOK' /\ CacheOK' /\ GarbageOK' /\ ArraysKept /\ MasksGrow
  <2>1. Filled(b, i)
    BY <1>3, <1>4 DEF Filled, Inv, HeapOK
  <2> QED  BY <1>1, <2>1, FillingKeeps
<1>6. ReadersOK'
  BY <1>1, <1>5, NoMessageQuiet, ReadersKept DEF Unlock
<1> QED  BY <1>1, <1>5, <1>6, NoMessageQuiet, UnlockKeeps DEF Inv

LEMMA BeginKeeps ==
  ASSUME Inv, NEW t \in Threads, NEW op \in {"change", "flush"}, NEW s \in Selectors \cup {0},
         Begin(t, op, s)
  PROVE  Inv'
<1> DEFINE r == [call[t] EXCEPT !.pc = op]
<1>1. /\ call[t].pc = "idle" /\ ReaderOK(call[t]) /\ lock = NoThread /\ lock' = t
      /\ UNCHANGED <<heap, cache, garbage, restartable>>
      /\ call' = [call EXCEPT ![t] = r]
      /\ call = [u \in Threads |-> call[u]]
      /\ work.pc = "none"
  BY DEF Begin, Is, Inv, ReadersOK, WorkOK
<1>2. /\ work'.op = op /\ work'.pc = "flush" /\ work' \in WorkType
  BY DEF Begin, NoWork, WorkType, Empty
<1>3. Quiet(r) /\ r.pc = op
  BY <1>1 DEF Quiet, ReaderOK, MessageOK, Pcs, Holding
<1> HIDE DEF r
<1>4. HeapOK' /\ CacheOK' /\ GarbageOK' /\ ArraysKept /\ MasksGrow
  BY <1>1, CachesKept
<1>5. ReadersOK'
  BY <1>1, <1>3, <1>4, ReadersKept
<1>6. call'[t].pc = op
  BY <1>1, <1>3
<1>7. WorkOK' /\ Checked'
  BY <1>1, <1>2, <1>6, ThreadsAssumption DEF WorkOK, Checked, Holding
<1> QED  BY <1>1, <1>4, <1>5, <1>7 DEF Inv

LEMMA FlushClassKeeps ==
  ASSUME Inv, NEW c \in Classes, FlushClass(c)
  PROVE  Inv'
<1>1. /\ work.pc = "flush" /\ UNCHANGED <<heap, cache, garbage, lock, call, restartable>>
      /\ work \in WorkType /\ work.op # "insert"
      /\ lock \in Threads /\ lock # NoThread /\ call[lock].pc \in Holding
  BY DEF FlushClass, Inv, WorkOK
<1>2. PICK k \in {"flush", "buckets"} :
        /\ k = "flush" => work' = [work EXCEPT !.todo = @ \ {c}]
        /\ k = "buckets" =>
             /\ cache[c].occupied > 0
             /\ work' = [work EXCEPT !.todo = @ \ {c}, !.pc = "buckets", !.cls = c,
                           !.size = Capacity(c), !.old = cache[c].buckets]
  BY DEF FlushClass, Erases, ErasedCapacity
<1>3. cache[c].buckets \in Buffers \cup {Empty}
  BY DEF Inv, CacheOK
<1>4. /\ work' \in WorkType /\ work'.pc = k /\ work'.op = work.op
      /\ k = "buckets" =>
           /\ work'.cls = c /\ work'.size > 1 /\ work'.size <= MaxSize
           /\ work'.size > cache[c].mask /\ work'.old = cache[c].buckets
  <2>1. CASE k = "flush"
    BY <1>1, <1>2, <2>1 DEF WorkType
  <2>2. CASE k = "buckets"
    <3>1. /\ Capacity(c) \in Nat /\ Capacity(c) > 1 /\ Capacity(c) <= MaxSize
          /\ Capacity(c) > cache[c].mask
      BY <1>2, <2>2, SizeFacts
    <3>2. work' = [work EXCEPT !.todo = work.todo \ {c}, !.pc = "buckets", !.cls = c,
                     !.size = Capacity(c), !.old = cache[c].buckets]
      BY <1>2, <2>2
    <3> QED  BY <1>1, <1>3, <2>2, <3>1, <3>2 DEF WorkType
  <2> QED  BY <1>2, <2>1, <2>2
<1>5. HeapOK' /\ CacheOK' /\ GarbageOK' /\ ArraysKept /\ MasksGrow
  BY <1>1, CachesKept
<1>6. ReadersOK'
  BY <1>1, <1>5, NoMessageQuiet, ReadersKept
<1>7. WorkOK' /\ Checked'
  <2>1. lock' \in Threads /\ lock' # NoThread /\ call'[lock'].pc \in Holding
    BY <1>1
  <2>2. k = "buckets" =>
          /\ work'.cls \in Classes /\ work'.size > 1 /\ work'.size <= MaxSize
          /\ work'.size > cache'[work'.cls].mask
          /\ work'.old = cache'[work'.cls].buckets
    BY <1>1, <1>4
  <2> QED  BY <1>1, <1>2, <1>4, <2>1, <2>2 DEF WorkOK, Checked
<1> QED  BY <1>1, <1>5, <1>6, <1>7 DEF Inv

LEMMA FlushedKeeps ==
  ASSUME Inv, Flushed
  PROVE  Inv'
<1>1. PICK r : Quiet(r) /\ Unlock(r)
  BY NoMessageQuiet DEF Flushed
<1>2. work.pc = "flush" /\ lock \in Threads /\ UNCHANGED <<heap, cache, garbage, restartable>>
  BY DEF Flushed, Inv, WorkOK
<1>3. HeapOK' /\ CacheOK' /\ GarbageOK' /\ ArraysKept /\ MasksGrow
  BY <1>2, CachesKept
<1>4. ReadersOK'
  BY <1>1, <1>2, <1>3, ReadersKept DEF Unlock
<1> QED  BY <1>1, <1>2, <1>3, <1>4, UnlockKeeps DEF Inv

LEMMA CollectALotKeeps ==
  ASSUME Inv, NEW t \in Threads, CollectALot(t)
  PROVE  Inv'
<1>1. /\ call[t].pc = "collect" /\ lock = NoThread /\ lock' = t
      /\ UNCHANGED <<heap, cache, garbage, call, restartable>> /\ work.pc = "none"
  BY DEF CollectALot, Is, Inv, WorkOK
<1>2. /\ work'.op = "collect" /\ work'.pc = "collect" /\ work'.unchecked = Threads \ {t}
      /\ work' \in WorkType
  BY DEF CollectALot, NoWork, WorkType, Empty
<1>3. HeapOK' /\ CacheOK' /\ GarbageOK' /\ ArraysKept /\ MasksGrow
  BY <1>1, CachesKept
<1>4. ReadersOK'
  BY <1>1, <1>3, NoMessageQuiet, ReadersKept
<1>5. WorkOK'
  BY <1>1, <1>2, ThreadsAssumption DEF WorkOK, Holding
<1>6. Checked'
  BY <1>1, <1>2 DEF Checked, Reading
<1> QED  BY <1>1, <1>3, <1>4, <1>5, <1>6 DEF Inv

\* A thread that was looked at is outside the lookup now, and stays outside
\* until it loads buckets that are not garbage.
LEMMA CheckThreadKeeps ==
  ASSUME Inv, NEW t \in Threads, CheckThread(t)
  PROVE  Inv'
<1>1. /\ work.pc = "collect" /\ work \in WorkType
      /\ UNCHANGED <<heap, cache, garbage, lock, restartable>>
      /\ lock \in Threads /\ lock # NoThread /\ call[lock].pc \in Holding
      /\ ReaderOK(call[t]) /\ call = [u \in Threads |-> call[u]]
  BY DEF CheckThread, Inv, WorkOK, ReadersOK
<1>2. /\ call' = call \/ call' = [call EXCEPT ![t] = Missed(call[t])]
      /\ Quiet(IF InCritical(t) THEN Missed(call[t]) ELSE NoMessage)
  <2>1. InCritical(t) => call[t].cls \in Classes /\ call[t].sel \in Selectors
    BY <1>1 DEF InCritical, ReaderOK, Reading
  <2> QED  BY <2>1, NoMessageQuiet DEF CheckThread
<1>3. HeapOK' /\ CacheOK' /\ GarbageOK' /\ ArraysKept /\ MasksGrow
  BY <1>1, CachesKept
<1>4. ReadersOK'
  <2>1. CASE InCritical(t)
    BY <1>2, <1>3, <2>1, ReadersKept
  <2>2. CASE ~InCritical(t)
    <3>1. call' = call
      BY <2>2 DEF CheckThread
    <3> QED  BY <1>3, <3>1, NoMessageQuiet, ReadersKept
  <2> QED  BY <2>1, <2>2
<1>5. /\ call'[lock] = call[lock]
      /\ \A u \in Threads : u # t => call'[u] = call[u]
      /\ call'[t].pc \in Reading => call'[t] = call[t] /\ InCritical(t) /\ ~restartable
  <2>1. InCritical(t) => t # lock
    BY <1>1 DEF InCritical, Holding
  <2>2. Missed(call[t]).pc = "lookup"
    BY DEF Missed, NoMessage
  <2> QED  BY <1>1, <2>1, <2>2 DEF CheckThread, InCritical, Reading
<1>6. \/ /\ work' = [work EXCEPT !.unchecked = @ \ {t}]
         /\ restartable \/ ~InCritical(t)
      \/ /\ work' = [work EXCEPT !.unchecked = Others] /\ work.op = "collect"
      \/ work' = Continue(work)
  BY DEF CheckThread
<1>7. /\ work' \in WorkType /\ work'.op = work.op /\ work'.cls = work.cls
      /\ work'.sel = work.sel
      /\ \/ work'.pc = "collect" /\ work'.unchecked = work.unchecked \ {t}
              /\ (restartable \/ ~InCritical(t))
         \/ work'.pc = "collect" /\ work'.unchecked = Threads \ {lock}
         \/ work.op = "insert" /\ work'.pc = "fill"
         \/ work.op # "insert" /\ work'.pc = "flush"
  <2>1. CASE /\ work' = [work EXCEPT !.unchecked = @ \ {t}]
             /\ restartable \/ ~InCritical(t)
    BY ONLY <1>1, <2>1 DEF WorkType
  <2>2. CASE work' = [work EXCEPT !.unchecked = Others] /\ work.op = "collect"
    BY ONLY <1>1, <2>2 DEF Others, WorkType
  <2>3. CASE work' = Continue(work)
    BY ONLY <1>1, <2>3, ContinueFacts
  <2> QED  BY <1>6, <2>1, <2>2, <2>3
<1>8. WorkOK'
  BY <1>1, <1>5, <1>7 DEF Inv, WorkOK
<1>9. Checked'
  <2> SUFFICES ASSUME work'.pc = "collect", NEW u \in Threads \ work'.unchecked,
                      call'[u].pc \in Reading
               PROVE  call'[u].buckets \notin garbage
    BY <1>1 DEF Checked
  <2>1. CASE u = lock
    BY <1>1, <1>5, <2>1 DEF Reading, Holding
  <2>2. CASE u # lock
    <3>1. u # t /\ u \notin work.unchecked
      BY <1>5, <1>7, <2>2
    <3> QED  BY <1>1, <1>5, <3>1 DEF Inv, Checked
  <2> QED  BY <2>1, <2>2
<1> QED  BY <1>1, <1>3, <1>4, <1>8, <1>9 DEF Inv

LEMMA FreeGarbageKeeps ==
  ASSUME Inv, FreeGarbage
  PROVE  Inv'
<1>1. /\ work.pc = "collect" /\ work.unchecked = {} /\ work \in WorkType
      /\ UNCHANGED <<cache, restartable>> /\ garbage' = {}
      /\ heap' = [b \in Buffers |-> IF b \in garbage THEN NoBuckets ELSE heap[b]]
      /\ lock \in Threads /\ lock # NoThread /\ call[lock].pc \in Holding
  BY DEF FreeGarbage, Inv, WorkOK
<1>2. HeapOK'
  BY <1>1 DEF Inv, HeapOK
<1>3. CacheOK'
  <2>1. ASSUME NEW c \in Classes, cache[c].buckets # Empty
        PROVE  heap'[cache[c].buckets] = heap[cache[c].buckets]
    BY <1>1, <2>1 DEF Inv, CacheOK, GarbageOK, Discarded
  <2> QED  BY <1>1, <2>1 DEF Inv, CacheOK
<1>4. GarbageOK'
  BY <1>1 DEF GarbageOK
<1>5. ArraysKept /\ MasksGrow
  <2>1. ASSUME NEW b \in Buffers, Read(b) PROVE b \notin garbage
    BY <1>1, <2>1 DEF Inv, Checked, Read
  <2> QED  BY <1>1, <2>1 DEF ArraysKept, MasksGrow, Inv, CacheOK
<1>6. CASE work.op = "collect"
  <2>1. Unlock(NoMessage)
    BY <1>6 DEF FreeGarbage
  <2>2. ReadersOK'
    BY <1>1, <1>3, <1>5, <2>1, NoMessageQuiet, ReadersKept DEF Unlock
  <2> QED  BY <1>1, <1>2, <1>3, <1>4, <2>1, <2>2, NoMessageQuiet, UnlockKeeps DEF Inv
<1>7. CASE work.op # "collect"
  <2>1. work' = Continue(work) /\ UNCHANGED <<lock, call>>
    BY <1>7 DEF FreeGarbage
  <2>2. ReadersOK'
    BY <1>1, <1>3, <1>5, <2>1, NoMessageQuiet, ReadersKept
  <2>3. /\ work' \in WorkType /\ work'.op = work.op /\ work'.cls = work.cls
        /\ work'.sel = work.sel
        /\ \/ work.op = "insert" /\ work'.pc = "fill"
           \/ work.op # "insert" /\ work'.pc = "flush"
    BY <1>1, <2>1 DEF Continue, WorkType, Empty
  <2>4. WorkOK' /\ Checked'
    BY <1>1, <2>1, <2>3 DEF Inv, WorkOK, Checked
  <2> QED  BY <1>1, <1>2, <1>3, <1>4, <2>2, <2>4 DEF Inv
<1> QED  BY <1>6, <1>7

(***************************************************************************)
(* The theorem.                                                            *)
(***************************************************************************)
LEMMA InvHolds == Spec => []Inv
<1>1. Init => Inv
  <2> SUFFICES ASSUME Init PROVE Inv
    OBVIOUS
  <2>1. HeapOK /\ CacheOK /\ GarbageOK
    BY DEF Init, HeapOK, CacheOK, GarbageOK, Empty
  <2>2. WorkOK /\ Checked
    BY DEF Init, WorkOK, WorkType, Checked, NoWork, Empty
  <2>3. ReadersOK
    BY NoMessageQuiet DEF Init, ReadersOK, ReaderOK, Quiet, NoMessage, Reading
  <2> QED  BY <2>1, <2>2, <2>3, RestartableAssumption DEF Init, Inv
<1>2. Inv /\ [Next]_vars => Inv'
  <2> SUFFICES ASSUME Inv, [Next]_vars PROVE Inv'
    OBVIOUS
  <2>1. CASE UNCHANGED vars
    <3>1. UNCHANGED <<heap, cache, garbage, lock, work, call, restartable>>
      BY <2>1 DEF vars
    <3>2. HeapOK /\ CacheOK /\ GarbageOK /\ WorkOK /\ ReadersOK /\ Checked
      BY DEF Inv
    <3>3. HeapOK' /\ CacheOK' /\ GarbageOK'
      BY ONLY <3>1, <3>2 DEF HeapOK, CacheOK, GarbageOK, Discarded
    <3>4. WorkOK'
      BY ONLY <3>1, <3>2 DEF WorkOK, Discarded
    <3>5. ReadersOK' /\ Checked'
      BY ONLY <3>1, <3>2 DEF ReadersOK, ReaderOK, MessageOK, Checked
    <3> QED  BY <3>1, <3>3, <3>4, <3>5 DEF Inv
  <2>2. CASE \E t \in Threads, c \in Classes, s \in Selectors : Send(t, c, s)
    BY <2>2, SendKeeps
  <2>3. CASE \E t \in Threads, s \in Selectors : SetImplementation(t, s)
    BY <2>3, BeginKeeps DEF SetImplementation
  <2>4. ASSUME NEW t \in Threads, FlushCaches(t) \/ Message(t) \/ Signal(t)
        PROVE  Inv'
    <3>1. CASE FlushCaches(t)
      BY <3>1, BeginKeeps DEF FlushCaches
    <3>2. CASE Message(t)
      BY <3>2, LoadBucketsKeeps, CompareKeeps, ScanKeeps, LoadImpKeeps, LookUpKeeps,
         CollectALotKeeps DEF Message
    <3> QED  BY <2>4, <3>1, <3>2, SignalKeeps
  <2>5. CASE Holder
    BY <2>5, StoreBucketsKeeps, StoreMaskKeeps, FillKeeps, StoreSelKeeps, FlushClassKeeps,
       CheckThreadKeeps, FlushedKeeps, FreeGarbageKeeps DEF Holder
  <2> QED  BY <2>1, <2>2, <2>3, <2>4, <2>5 DEF Next
<1> QED  BY <1>1, <1>2, PTL DEF Spec

\* Every message reads memory that was not freed, inside the array.
THEOREM ReadersAreSafe == Spec => []ReadsAreSafe
<1>1. Inv => ReadsAreSafe
  BY DEF Inv, ReadersOK, ReaderOK, ReadsAreSafe, Reading
<1> QED  BY <1>1, InvHolds, PTL

-----------------------------------------------------------------------------
(***************************************************************************)
(* Arrays of buckets as values.                                            *)
(***************************************************************************)
ImpType == (Selectors \cup {0}) \X Nat
BucketType == [sel : Selectors \cup {0, 1}, imp : ImpType]

\* Found, in an array of buckets
Places(a, mask, s) ==
  LET Place(k) == (CacheHash(s, mask) + k) % (mask + 1)
      ks == {k \in 0 .. mask : a[Place(k)].sel \in {0, s}} IN
  {Place(k) : k \in {k \in ks : \A j \in ks : k <= j}}

Used(a) == {i \in DOMAIN a : a[i].sel # 0}

LEMMA FoundPlaces ==
  ASSUME NEW b, NEW mask, NEW s, b # Empty
  PROVE  Found(b, mask, s) = Places(heap[b], mask, s)
BY DEF Found, Places, At

\* The scan order is total: it ends at one bucket.
LEMMA PlaceUnique ==
  ASSUME NEW a, NEW mask, NEW s, NEW i \in Places(a, mask, s), NEW j \in Places(a, mask, s)
  PROVE  i = j
<1> DEFINE Place(k) == (CacheHash(s, mask) + k) % (mask + 1)
           ks == {k \in 0 .. mask : a[Place(k)].sel \in {0, s}}
<1>1. PICK k \in ks : i = Place(k) /\ \A l \in ks : k <= l
  BY DEF Places
<1>2. PICK m \in ks : j = Place(m) /\ \A l \in ks : m <= l
  BY DEF Places
<1>3. k <= m /\ m <= k /\ k \in Int /\ m \in Int
  BY <1>1, <1>2
<1> QED  BY <1>1, <1>2, <1>3

\* Unused buckets that are filled do not change where another scan ends.
LEMMA PlaceKept ==
  ASSUME NEW a, NEW d, NEW mask, NEW s, NEW i \in Places(a, mask, s),
         d[i].sel \in {0, s},
         \A j : d[j].sel = a[j].sel \/ a[j].sel = 0
  PROVE  i \in Places(d, mask, s)
<1> DEFINE Place(k) == (CacheHash(s, mask) + k) % (mask + 1)
           ks == {k \in 0 .. mask : a[Place(k)].sel \in {0, s}}
           ds == {k \in 0 .. mask : d[Place(k)].sel \in {0, s}}
<1>1. PICK k \in ks : i = Place(k) /\ \A l \in ks : k <= l
  BY DEF Places
<1>2. k \in ds
  BY <1>1
<1>3. ds \subseteq ks
  OBVIOUS
<1>4. \A l \in ds : k <= l
  BY <1>1, <1>3
<1> QED  BY <1>1, <1>2, <1>4 DEF Places

LEMMA PlaceSel ==
  ASSUME NEW a, NEW mask, NEW s, NEW i \in Places(a, mask, s)
  PROVE  a[i].sel \in {0, s}
BY DEF Places

LEMMA PlacesIn ==
  ASSUME NEW a, NEW mask \in Nat, NEW s \in Nat
  PROVE  Places(a, mask, s) \subseteq 0 .. mask
<1>1. \A k \in 0 .. mask : (CacheHash(s, mask) + k) % (mask + 1) \in 0 .. mask
  BY DEF CacheHash
<1> QED  BY <1>1 DEF Places

LEMMA AllocatedFacts ==
  ASSUME NEW n \in Nat \ {0, 1}
  PROVE  /\ Used(AllocateBuckets(n)) = {n - 1}
         /\ \A i \in DOMAIN AllocateBuckets(n) :
              AllocateBuckets(n)[i] \in BucketType /\ AllocateBuckets(n)[i].sel \in {0, 1}
BY DEF Used, AllocateBuckets, EndMarker, Unused, Bucket, BucketType, ImpType, NoImp

\* An array of n buckets with fewer than n used
LEMMA UsedFinite ==
  ASSUME NEW a, NEW n, Ends(a, n)
  PROVE  /\ IsFiniteSet(Used(a)) /\ Cardinality(Used(a)) \in Nat
         /\ n - 1 \in Used(a) /\ Cardinality({n - 1}) = 1
         /\ Cardinality(Used(a)) < n => \E i \in DOMAIN a : a[i].sel = 0
         /\ \A i : IsFiniteSet(Used(a) \cup {i}) /\ Cardinality(Used(a) \cup {i}) <= Cardinality(Used(a)) + 1
         /\ Cardinality(Used(a)) <= 1 => \A i \in DOMAIN a : a[i].sel # 0 => i = n - 1
<1>1. n \in Nat \ {0} /\ DOMAIN a = 0 .. n - 1 /\ a[n - 1].sel = 1
  BY DEF Ends
<1>2. IsFiniteSet(0 .. n - 1) /\ Cardinality(0 .. n - 1) = n
  BY <1>1, FS_Interval
<1>3. Used(a) \subseteq 0 .. n - 1
  BY <1>1 DEF Used
<1>4. IsFiniteSet(Used(a)) /\ Cardinality(Used(a)) \in Nat
  BY <1>2, <1>3, FS_Subset, FS_CardinalityType
<1>5. n - 1 \in Used(a) /\ Cardinality({n - 1}) = 1
  <2>1. n - 1 \in DOMAIN a
    BY <1>1
  <2>2. n - 1 \in Used(a)
    BY <1>1, <2>1 DEF Used
  <2>3. \A x : Cardinality({x}) = 1
    BY FS_Singleton
  <2> QED  BY <2>2, <2>3
<1>6. Cardinality(Used(a)) < n => \E i \in DOMAIN a : a[i].sel = 0
  <2> SUFFICES ASSUME Cardinality(Used(a)) < n, \A i \in DOMAIN a : a[i].sel # 0
               PROVE FALSE
    OBVIOUS
  <2>1. Used(a) = 0 .. n - 1
    BY <1>1 DEF Used
  <2> QED  BY <1>1, <1>2, <2>1
<1>7. \A i : IsFiniteSet(Used(a) \cup {i}) /\ Cardinality(Used(a) \cup {i}) <= Cardinality(Used(a)) + 1
  BY <1>4, FS_AddElement
<1>8. Cardinality(Used(a)) <= 1 => \A i \in DOMAIN a : a[i].sel # 0 => i = n - 1
  <2> SUFFICES ASSUME Cardinality(Used(a)) <= 1, NEW i \in DOMAIN a, a[i].sel # 0, i # n - 1
               PROVE  FALSE
    OBVIOUS
  <2>1. {n - 1} \subseteq Used(a) /\ i \in Used(a)
    BY <1>5 DEF Used
  <2>2. {n - 1} = Used(a)
    BY <1>4, <1>5, <2>1, FS_Subset
  <2> QED  BY <2>1, <2>2
<1> QED  BY <1>4, <1>5, <1>6, <1>7, <1>8

(***************************************************************************)
(* Room in the caches.                                                     *)
(***************************************************************************)
Array(c) == heap[cache[c].buckets]

BucketsOK ==
  \A b \in Buffers : \A i \in DOMAIN heap[b] : heap[b][i] \in BucketType

\* The holder is between the buckets of a class and its mask.
Installing(c) == work.pc = "mask" /\ work.op = "insert" /\ work.cls = c

\* The bucket that the holder is filling counts already.
RoomOK ==
  \A c \in Classes :
    /\ cache[c].mask = 0 \/ cache[c].mask >= 2
    /\ cache[c].buckets # Empty =>
         IF Installing(c) THEN Used(Array(c)) = {work.size - 1}
         ELSE /\ cache[c].occupied + 2 <= cache[c].mask + 1
              /\ Cardinality(Used(Array(c)))
                   <= IF work.pc = "sel" /\ work.cls = c
                      THEN cache[c].occupied ELSE cache[c].occupied + 1

\* What the holder is about to do
HolderOK ==
  /\ work.pc \in {"buckets", "mask"} => work.size >= 3
  /\ work.op = "insert" =>
       /\ lock \in Threads
       /\ call[lock].pc = "fill" /\ call[lock].sel = work.sel
       /\ call[lock].imp \in ImpType
       /\ work.pc \in {"fill", "collect"} =>
            cache[work.cls].occupied + 3 <= cache[work.cls].mask + 1
       /\ work.pc = "sel" =>
            \E i \in Places(Array(work.cls), cache[work.cls].mask, work.sel) :
              i \in DOMAIN Array(work.cls) /\ Array(work.cls)[i].sel = 0

RoomInv ==
  /\ version \in [Selectors -> Nat \ {0}]
  /\ BucketsOK /\ RoomOK /\ HolderOK

\* A message that is not the holder's changes nothing.
LEMMA MessageRoom ==
  ASSUME Inv, RoomInv, UNCHANGED <<heap, cache, version, lock, work>>,
         NEW t \in Threads, NEW r, call' = [call EXCEPT ![t] = r],
         call[t].pc # "fill"
  PROVE  RoomInv'
<1>1. BucketsOK' /\ RoomOK'
  BY DEF RoomInv, BucketsOK, RoomOK, Installing, Array
<1>2. HolderOK'
  <2>1. work.op = "insert" => call'[lock] = call[lock]
    BY DEF RoomInv, HolderOK
  <2> QED  BY <2>1 DEF RoomInv, HolderOK, Array
<1> QED  BY <1>1, <1>2 DEF RoomInv

\* The holder turns to something else than the store of a mask or a selector.
LEMMA RoomStill ==
  ASSUME RoomInv, UNCHANGED <<heap, cache>>, {work.pc, work'.pc} \cap {"mask", "sel"} = {}
  PROVE  BucketsOK' /\ RoomOK'
BY DEF RoomInv, BucketsOK, RoomOK, Installing, Array

LEMMA CacheGetImpType ==
  ASSUME Inv, RoomInv, NEW c \in Classes, NEW s \in Selectors
  PROVE  CacheGetImp(c, s) \in ImpType
<1> DEFINE b == cache[c].buckets
           hit == {i \in Found(b, cache[c].mask, s) : At(b, i).sel = s}
<1>0. NoImp \in ImpType
  BY DEF NoImp, ImpType
<1>1. CASE hit = {}
  BY <1>0, <1>1 DEF CacheGetImp
<1>2. CASE hit # {}
  <2>1. PICK i \in hit : CacheGetImp(c, s) = At(b, i).imp
    BY <1>2 DEF CacheGetImp
  <2>2. s \notin {0, 1}
    BY SelectorsAssumption
  <2>3. b # Empty /\ heap[b][i].sel = s
    BY <2>1, <2>2 DEF At, Unused, Bucket
  <2>4. i \in DOMAIN heap[b]
    <3>1. PICK n \in Nat : cache[c].mask < n /\ Ends(heap[b], n)
      BY <2>3 DEF Inv, CacheOK
    <3>2. i \in 0 .. cache[c].mask
      BY <2>1, SelectorsAssumption DEF Found, CacheHash, Inv, CacheOK
    <3> QED  BY <3>1, <3>2 DEF Ends, Inv, CacheOK
  <2>5. b \in Buffers
    BY <2>3 DEF Inv, CacheOK
  <2>6. heap[b][i] \in BucketType
    BY <2>4, <2>5 DEF RoomInv, BucketsOK
  <2> QED  BY <2>1, <2>3, <2>6 DEF At, BucketType
<1> QED  BY <1>1, <1>2

LEMMA MinIn ==
  ASSUME NEW S, S \subseteq Nat, S # {}
  PROVE  Min(S) \in S /\ \A y \in S : Min(S) <= y
<1>1. PICK x \in S : \A y \in S : ~(<<y, x>> \in OpToRel(<, Nat))
  BY NatLessThanWellFounded, WFMin
<1>2. ASSUME NEW y \in S PROVE x <= y
  <2>1. x \in Nat /\ y \in Nat
    OBVIOUS
  <2>2. ~(<<y, x>> \in OpToRel(<, Nat))
    BY <1>1
  <2>3. ~(y < x)
    BY <2>1, <2>2, Zenon DEF OpToRel
  <2> QED  BY <2>1, <2>3
<1> QED  BY <1>2 DEF Min

LEMMA LookUpImpType ==
  ASSUME Inv, RoomInv, NEW c \in Classes, NEW s \in Selectors
  PROVE  /\ LookUpImp(c, s) \in ImpType
         /\ \/ LookUpImp(c, s) = <<s, version[s]>>
            \/ \E d \in Classes : LookUpImp(c, s) = CacheGetImp(d, s) /\ CacheGetImp(d, s) # NoImp
<1> DEFINE supers == Superclasses[c]
           hits == {i \in DOMAIN supers : CacheGetImp(supers[i], s) # NoImp}
<1>1. CASE hits = {}
  BY <1>1 DEF LookUpImp, RoomInv, ImpType
<1>2. CASE hits # {}
  <2>1. supers \in Seq(Classes)
    BY ClassesAssumption
  <2>2. hits \subseteq Nat
    BY <2>1
  <2>3. Min(hits) \in hits
    BY <1>2, <2>2, MinIn
  <2>4. supers[Min(hits)] \in Classes /\ CacheGetImp(supers[Min(hits)], s) # NoImp
    <3>1. Min(hits) \in DOMAIN supers /\ CacheGetImp(supers[Min(hits)], s) # NoImp
      BY <2>3
    <3>2. \A j \in DOMAIN supers : supers[j] \in Classes
      BY <2>1
    <3> QED  BY <3>1, <3>2
  <2>5. LookUpImp(c, s) = CacheGetImp(supers[Min(hits)], s)
    BY <1>2 DEF LookUpImp
  <2> QED  BY <2>4, <2>5, CacheGetImpType
<1> QED  BY <1>1, <1>2

LEMMA LookUpRoom ==
  ASSUME Inv, RoomInv, NEW t \in Threads, LookUp(t)
  PROVE  RoomInv'
<1> DEFINE c == call[t].cls
           s == call[t].sel
<1>1. /\ call[t].pc = "lookup" /\ c \in Classes /\ s \in Selectors
      /\ lock = NoThread /\ lock' = t /\ work.pc = "none"
      /\ UNCHANGED <<heap, cache, version>>
      /\ call' = [call EXCEPT ![t].pc = "fill", ![t].imp = LookUpImp(c, s)]
  BY DEF LookUp, Is, Inv, ReadersOK, ReaderOK, WorkOK
<1>2. /\ work'.op = "insert" /\ work'.cls = c /\ work'.sel = s /\ work'.size = NewCapacity(c)
      /\ work'.pc \in {"fill", "buckets"}
      /\ work'.pc = "fill" => HasRoom(c)
  BY DEF LookUp, NoWork
<1>3. call'[t].pc = "fill" /\ call'[t].sel = s /\ call'[t].imp = LookUpImp(c, s)
  BY <1>1 DEF Inv, ReadersOK, ReaderOK, MessageOK
<1>4. BucketsOK' /\ RoomOK'
  BY <1>1, <1>2, RoomStill
<1>5. cache[c].mask \in Nat /\ cache[c].occupied \in Nat /\ (cache[c].mask = 0 \/ cache[c].mask >= 2)
  BY <1>1 DEF Inv, CacheOK, RoomInv, RoomOK
<1>6. NewCapacity(c) >= 3
  BY <1>5, SizesAssumption DEF NewCapacity, Capacity
<1>7. HasRoom(c) => cache[c].occupied + 3 <= cache[c].mask + 1
  BY <1>5 DEF HasRoom, FillRatio, Capacity
<1>8. HolderOK'
  BY <1>1, <1>2, <1>3, <1>6, <1>7, LookUpImpType DEF HolderOK
<1> QED  BY <1>1, <1>4, <1>8 DEF RoomInv

LEMMA StoreBucketsRoom ==
  ASSUME Inv, RoomInv, StoreBuckets
  PROVE  RoomInv'
<1> DEFINE c == work.cls
<1>1. /\ work.pc = "buckets" /\ UNCHANGED <<version, lock, call>>
      /\ work' = [work EXCEPT !.pc = "mask"]
      /\ c \in Classes /\ work.size \in Nat /\ work.size >= 3 /\ work \in WorkType
  BY DEF StoreBuckets, Inv, WorkOK, WorkType, RoomInv, HolderOK
<1>2. /\ work'.pc = "mask" /\ work'.op = work.op /\ work'.cls = c /\ work'.sel = work.sel
      /\ work'.size = work.size
  BY <1>1 DEF WorkType
<1>3. HolderOK'
  BY <1>1, <1>2 DEF RoomInv, HolderOK
<1>4. cache \in [Classes -> [buckets : Buffers \cup {Empty}, mask : Nat, occupied : Nat]]
  BY DEF Inv, CacheOK
<1>5. CASE work.op = "insert"
  <2>1. Malloc \in Buffers /\ heap[Malloc] = NoBuckets
    BY <1>1, <1>5 DEF Malloc, Inv, WorkOK
  <2> DEFINE b == Malloc
  <2>2. /\ heap' = [heap EXCEPT ![b] = AllocateBuckets(work.size)]
        /\ cache' = [cache EXCEPT ![c].buckets = b]
    BY <1>5 DEF StoreBuckets
  <2> HIDE DEF b
  <2>3. /\ b \in Buffers /\ heap'[b] = AllocateBuckets(work.size)
        /\ \A e \in Buffers : e # b => heap'[e] = heap[e]
    BY <2>1, <2>2 DEF Inv, HeapOK, b
  <2>4. /\ Used(heap'[b]) = {work.size - 1}
        /\ \A i \in DOMAIN heap'[b] : heap'[b][i] \in BucketType
    BY <1>1, <2>3, AllocatedFacts
  <2>5. BucketsOK'
    BY <2>3, <2>4 DEF BucketsOK, RoomInv
  <2>6. ASSUME NEW d \in Classes
        PROVE  /\ cache'[d].mask = cache[d].mask /\ cache'[d].occupied = cache[d].occupied
               /\ d = c => cache'[d].buckets = b
               /\ d # c => cache'[d].buckets = cache[d].buckets
               /\ cache[d].buckets # Empty => heap'[cache[d].buckets] = heap[cache[d].buckets]
    <3>1. cache[d].buckets # Empty => cache[d].buckets \in Buffers /\ heap[cache[d].buckets] # NoBuckets
      BY <1>4, EndsFacts DEF Inv, CacheOK
    <3> QED  BY <1>1, <1>4, <2>1, <2>2, <2>3, <3>1 DEF b
  <2>7. RoomOK'
    <3> SUFFICES ASSUME NEW d \in Classes
        PROVE  /\ cache'[d].mask = 0 \/ cache'[d].mask >= 2
               /\ cache'[d].buckets # Empty =>
                  IF Installing(d)' THEN Used(Array(d))' = {work'.size - 1}
                  ELSE /\ cache'[d].occupied + 2 <= cache'[d].mask + 1
                       /\ Cardinality(Used(Array(d))')
                            <= IF work'.pc = "sel" /\ work'.cls = d
                               THEN cache'[d].occupied ELSE cache'[d].occupied + 1
      BY DEF RoomOK
    <3>1. CASE d = c
      BY <1>2, <1>5, <2>4, <2>6, <3>1 DEF Installing, Array, RoomInv, RoomOK
    <3>2. CASE d # c
      BY <1>1, <1>2, <2>6, <3>2 DEF Installing, Array, RoomInv, RoomOK
    <3> QED  BY <3>1, <3>2
  <2> QED  BY <1>1, <1>3, <2>5, <2>7 DEF RoomInv
<1>6. CASE work.op # "insert"
  <2>1. heap' = heap /\ cache' = [cache EXCEPT ![c].buckets = Empty]
    BY <1>6 DEF StoreBuckets
  <2>2. BucketsOK' /\ RoomOK'
    BY <1>1, <1>2, <1>4, <1>6, <2>1 DEF RoomInv, BucketsOK, RoomOK, Installing, Array
  <2> QED  BY <1>1, <1>3, <2>2 DEF RoomInv
<1> QED  BY <1>5, <1>6

LEMMA StoreMaskRoom ==
  ASSUME Inv, RoomInv, StoreMask
  PROVE  RoomInv'
<1> DEFINE c == work.cls
<1>1. /\ work.pc = "mask" /\ UNCHANGED <<heap, version, lock, call>>
      /\ cache' = [cache EXCEPT ![c].mask = work.size - 1, ![c].occupied = 0]
      /\ c \in Classes /\ work.size \in Nat /\ work.size >= 3 /\ work \in WorkType
      /\ work.op = "insert" => cache[c].buckets # Empty
      /\ work.op # "insert" => cache[c].buckets = Empty
  BY DEF StoreMask, Inv, WorkOK, WorkType, RoomInv, HolderOK
<1>2. /\ work'.op = work.op /\ work'.cls = c /\ work'.sel = work.sel
      /\ work'.pc \in {"collect", "fill", "flush"}
      /\ work'.pc = "flush" => work.op # "insert"
  BY <1>1 DEF StoreMask, Continue, WorkType
<1>3. cache \in [Classes -> [buckets : Buffers \cup {Empty}, mask : Nat, occupied : Nat]]
  BY DEF Inv, CacheOK
<1>4. \A d \in Classes :
        /\ cache'[d].buckets = cache[d].buckets
        /\ cache'[d].mask = IF d = c THEN work.size - 1 ELSE cache[d].mask
        /\ cache'[d].occupied = IF d = c THEN 0 ELSE cache[d].occupied
  BY <1>1, <1>3
<1>5. HolderOK'
  <2>1. cache'[c].occupied + 3 <= cache'[c].mask + 1
    <3>1. cache'[c].mask = work.size - 1 /\ cache'[c].occupied = 0
      BY <1>1, <1>4
    <3> QED  BY <1>1, <3>1
  <2>2. work'.op = "insert" =>
          /\ lock' \in Threads /\ call'[lock'].pc = "fill" /\ call'[lock'].sel = work'.sel
          /\ call'[lock'].imp \in ImpType
    BY <1>1, <1>2 DEF RoomInv, HolderOK
  <2> HIDE DEF c
  <2> QED  BY <1>2, <2>1, <2>2 DEF HolderOK
<1>6. BucketsOK'
  BY <1>1 DEF RoomInv, BucketsOK
<1>7. RoomOK'
  <2> SUFFICES ASSUME NEW d \in Classes
      PROVE  /\ cache'[d].mask = 0 \/ cache'[d].mask >= 2
             /\ cache'[d].buckets # Empty =>
                  /\ cache'[d].occupied + 2 <= cache'[d].mask + 1
                  /\ Cardinality(Used(Array(d))') <= cache'[d].occupied + 1
    BY <1>2 DEF RoomOK, Installing
  <2>1. CASE d = c
    <3>1. cache'[d].buckets # Empty => Cardinality(Used(Array(d))') = 1
      <4> SUFFICES ASSUME cache[d].buckets # Empty PROVE Cardinality(Used(Array(d))') = 1
        BY <1>4
      <4>1. Used(Array(d)) = {work.size - 1}
        BY <1>1, <2>1 DEF RoomInv, RoomOK, Installing
      <4>2. Used(Array(d))' = Used(Array(d))
        BY <1>1, <1>4 DEF Array
      <4>3. \A x : Cardinality({x}) = 1
        BY FS_Singleton
      <4> QED  BY <4>1, <4>2, <4>3
    <3>2. cache'[d].mask = work.size - 1 /\ cache'[d].occupied = 0
      BY <1>4, <2>1
    <3> QED  BY <1>1, <3>1, <3>2
  <2>2. CASE d # c
    <3>1. ~Installing(d) /\ Array(d)' = Array(d)
      BY <1>1, <1>4, <2>2 DEF Installing, Array
    <3> QED  BY <1>1, <1>4, <2>2, <3>1 DEF RoomInv, RoomOK
  <2> QED  BY <2>1, <2>2
<1> QED  BY <1>1, <1>5, <1>6, <1>7 DEF RoomInv

\* The array that the holder fills
LEMMA FillArray ==
  ASSUME Inv, RoomInv, work.pc \in {"fill", "sel"}
  PROVE  /\ work.op = "insert" /\ work.cls \in Classes /\ work.sel \in Selectors
         /\ work.sel \notin {0, 1} /\ work \in WorkType
         /\ cache[work.cls].buckets \in Buffers /\ cache[work.cls].buckets # Empty
         /\ heap = [b \in Buffers |-> heap[b]]
         /\ cache \in [Classes -> [buckets : Buffers \cup {Empty}, mask : Nat, occupied : Nat]]
         /\ \E n \in Nat : cache[work.cls].mask < n /\ Ends(Array(work.cls), n)
         /\ \A i \in Places(Array(work.cls), cache[work.cls].mask, work.sel) :
              /\ i \in DOMAIN Array(work.cls)
              /\ Array(work.cls)[i] \in BucketType
         /\ \A d \in Classes : d # work.cls => cache[d].buckets # cache[work.cls].buckets
<1> DEFINE c == work.cls
           b == cache[c].buckets
<1>1. /\ work.op = "insert" /\ c \in Classes /\ work.sel \in Selectors /\ work \in WorkType
      /\ b # Empty /\ heap = [e \in Buffers |-> heap[e]]
      /\ cache \in [Classes -> [buckets : Buffers \cup {Empty}, mask : Nat, occupied : Nat]]
  BY DEF Inv, WorkOK, CacheOK, HeapOK
<1>2. b \in Buffers /\ \A d \in Classes : d # c => cache[d].buckets # b
  BY <1>1 DEF Inv, CacheOK
<1>3. PICK n \in Nat : cache[c].mask < n /\ Ends(heap[b], n)
  BY <1>1 DEF Inv, CacheOK
<1>4. ASSUME NEW i \in Places(heap[b], cache[c].mask, work.sel)
      PROVE  i \in DOMAIN heap[b]
  <2>1. cache[c].mask \in Nat /\ work.sel \in Nat
    BY <1>1, SelectorsAssumption
  <2>2. i \in 0 .. cache[c].mask
    BY <2>1, PlacesIn
  <2> HIDE DEF b
  <2> QED  BY <1>1, <1>3, <2>2 DEF Ends
<1>5. \A i \in DOMAIN heap[b] : heap[b][i] \in BucketType
  BY <1>2 DEF RoomInv, BucketsOK
<1>6. work.sel \notin {0, 1}
  BY <1>1, SelectorsAssumption
<1> QED  BY <1>1, <1>2, <1>3, <1>4, <1>5, <1>6 DEF Array

\* The first store of a fill
Filling(i) ==
  LET c == work.cls
      b == cache[c].buckets IN
  /\ i \in Places(heap[b], cache[c].mask, work.sel)
  /\ i \in DOMAIN heap[b] /\ heap[b][i].sel = 0
  /\ DOMAIN heap'[b] = DOMAIN heap[b]
  /\ heap'[b][i] \in BucketType /\ heap'[b][i].sel = 0
  /\ heap'[b][i].imp = call[lock].imp
  /\ \A j : j # i => heap'[b][j] = heap[b][j]
  /\ \A e \in Buffers : e # b => heap'[e] = heap[e]
  /\ \A d \in Classes :
       /\ cache'[d].buckets = cache[d].buckets /\ cache'[d].mask = cache[d].mask
       /\ cache'[d].occupied = IF d = c THEN cache[d].occupied + 1 ELSE cache[d].occupied
       /\ d # c => cache'[d] = cache[d]
  /\ work'.pc = "sel" /\ work'.op = "insert" /\ work'.cls = c /\ work'.sel = work.sel
  /\ UNCHANGED <<lock, call>>

LEMMA FillStep ==
  ASSUME Inv, RoomInv, Fill
  PROVE  \/ UNCHANGED <<heap, cache>> /\ Unlock(NoMessage)
         \/ \E i : Filling(i)
<1> DEFINE c == work.cls
           b == cache[c].buckets
           mask == cache[c].mask
<1>1. work.pc = "fill" /\ call[lock].imp \in ImpType
  BY FillArray DEF Fill, RoomInv, HolderOK
<1>2. Found(b, mask, work.sel) = Places(heap[b], mask, work.sel)
  BY <1>1, FillArray, FoundPlaces
<1>3. CASE \E i \in Found(b, mask, work.sel) : At(b, i).sel = 0
  <2>1. PICK i \in Places(heap[b], mask, work.sel) :
          /\ heap[b][i].sel = 0
          /\ heap' = [heap EXCEPT ![b][i].imp = call[lock].imp]
          /\ cache' = [cache EXCEPT ![c].occupied = @ + 1]
          /\ work' = [work EXCEPT !.pc = "sel"] /\ UNCHANGED <<lock, call>>
    <3>1. PICK j \in Found(b, mask, work.sel) : At(b, j).sel = 0
      BY <1>3
    <3>2. PICK i \in Found(b, mask, work.sel) :
            /\ heap' = [heap EXCEPT ![b][i].imp = call[lock].imp]
            /\ cache' = [cache EXCEPT ![c].occupied = @ + 1]
            /\ work' = [work EXCEPT !.pc = "sel"] /\ UNCHANGED <<lock, call>>
      BY <1>3 DEF Fill
    <3>3. i = j
      BY <1>2, <3>1, <3>2, PlaceUnique
    <3>4. heap[b][i].sel = 0
      BY <1>1, <3>1, <3>3, FillArray DEF At
    <3> QED  BY <1>2, <3>2, <3>4
  <2>2. /\ i \in DOMAIN heap[b] /\ heap[b][i] \in BucketType
    BY <1>1, <2>1, FillArray DEF Array
  <2>3. heap' = [heap EXCEPT ![b] = [heap[b] EXCEPT ![i] = [heap[b][i] EXCEPT !.imp = call[lock].imp]]]
    BY <2>1
  <2>4. /\ heap'[b] = [heap[b] EXCEPT ![i] = [heap[b][i] EXCEPT !.imp = call[lock].imp]]
        /\ \A e \in Buffers : e # b => heap'[e] = heap[e]
    <3> HIDE DEF b
    <3>1. b \in Buffers /\ heap = [e \in Buffers |-> heap[e]]
      BY <1>1, FillArray DEF b
    <3> QED  BY <2>3, <3>1
  <2>5. /\ DOMAIN heap'[b] = DOMAIN heap[b]
        /\ heap'[b][i] \in BucketType /\ heap'[b][i].sel = 0
        /\ heap'[b][i].imp = call[lock].imp
    <3>1. PICK a : a = heap[b]
      OBVIOUS
    <3>2. PICK imp : imp = call[lock].imp
      OBVIOUS
    <3>3. /\ imp \in ImpType /\ i \in DOMAIN a /\ a[i] \in BucketType /\ a[i].sel = 0
          /\ heap'[b] = [a EXCEPT ![i] = [a[i] EXCEPT !.imp = imp]]
      BY <1>1, <2>1, <2>2, <2>4, <3>1, <3>2
    <3>4. /\ DOMAIN heap'[b] = DOMAIN a /\ heap'[b][i] = [a[i] EXCEPT !.imp = imp]
      BY ONLY <3>3
    <3>5. /\ heap'[b][i] \in BucketType /\ heap'[b][i].sel = 0 /\ heap'[b][i].imp = imp
      BY ONLY <3>3, <3>4 DEF BucketType
    <3> QED  BY ONLY <3>1, <3>2, <3>4, <3>5
  <2>6. \A j : j # i => heap'[b][j] = heap[b][j]
    BY <2>4
  <2>7. \A d \in Classes :
          /\ cache'[d].buckets = cache[d].buckets /\ cache'[d].mask = cache[d].mask
          /\ cache'[d].occupied = IF d = c THEN cache[d].occupied + 1 ELSE cache[d].occupied
          /\ d # c => cache'[d] = cache[d]
    BY <1>1, <2>1, FillArray
  <2>8. work'.pc = "sel" /\ work'.op = "insert" /\ work'.cls = c /\ work'.sel = work.sel
    BY <1>1, <2>1, FillArray DEF WorkType
  <2> QED  BY <2>1, <2>2, <2>4, <2>5, <2>6, <2>7, <2>8 DEF Filling
<1>4. CASE ~\E i \in Found(b, mask, work.sel) : At(b, i).sel = 0
  BY <1>4 DEF Fill
<1> QED  BY <1>3, <1>4

LEMMA FillRoom ==
  ASSUME Inv, RoomInv, Fill
  PROVE  RoomInv'
<1> DEFINE c == work.cls
           b == cache[c].buckets
           mask == cache[c].mask
<1>1. /\ work.pc = "fill" /\ version' = version /\ lock \in Threads
      /\ call[lock].imp \in ImpType
      /\ cache[c].occupied + 3 <= cache[c].mask + 1
  BY FillArray DEF Fill, RoomInv, HolderOK
<1>2. ASSUME NEW i, Filling(i)
      PROVE  RoomInv'
  <2>1. Used(heap'[b]) = Used(heap[b])
    <3>1. /\ DOMAIN heap'[b] = DOMAIN heap[b] /\ heap'[b][i].sel = heap[b][i].sel
          /\ \A j : j # i => heap'[b][j] = heap[b][j]
      BY <1>2 DEF Filling
    <3> HIDE DEF b
    <3>2. \A j \in DOMAIN heap[b] : heap'[b][j].sel = heap[b][j].sel
      BY ONLY <3>1
    <3> QED  BY ONLY <3>1, <3>2 DEF Used
  <2>2. BucketsOK'
    BY <1>2 DEF RoomInv, BucketsOK, Filling
  <2>3. c \in Classes /\ b # Empty /\ ~Installing(c)
    BY <1>1, FillArray DEF Installing
  <2>4. RoomOK'
    <3> SUFFICES ASSUME NEW d \in Classes
        PROVE  /\ cache'[d].mask = 0 \/ cache'[d].mask >= 2
               /\ cache'[d].buckets # Empty =>
                    /\ cache'[d].occupied + 2 <= cache'[d].mask + 1
                    /\ Cardinality(Used(Array(d))')
                         <= IF d = c THEN cache'[d].occupied ELSE cache'[d].occupied + 1
      BY <1>2 DEF RoomOK, Installing, Filling
    <3>1. CASE d = c
      <4>1. Cardinality(Used(Array(d))) <= cache[d].occupied + 1 /\ (cache[d].mask = 0 \/ cache[d].mask >= 2)
        BY <1>1, <2>3, <3>1 DEF RoomInv, RoomOK
      <4>2. cache[d].occupied \in Nat /\ cache[d].mask \in Nat
        BY <1>1, FillArray
      <4>3. Array(d)' = heap'[b] /\ Array(d) = heap[b]
        BY <1>2, <3>1 DEF Array, Filling
      <4>4. cache'[d].mask = cache[d].mask /\ cache'[d].occupied = cache[d].occupied + 1
        BY <1>2, <3>1 DEF Filling
      <4>5. cache[d].occupied + 3 <= cache[d].mask + 1
        BY <1>1, <3>1
      <4>6. Used(Array(d))' = Used(Array(d))
        BY <2>1, <4>3
      <4> HIDE DEF c, b
      <4> QED  BY <3>1, <4>1, <4>2, <4>4, <4>5, <4>6
    <3>2. CASE d # c
      <4>1. cache[d].buckets # b /\ cache[d].buckets \in Buffers \cup {Empty}
        BY <1>1, <3>2, FillArray
      <4>2. cache'[d] = cache[d]
        BY <1>2, <3>2 DEF Filling
      <4>3. cache[d].buckets # Empty => Array(d)' = Array(d)
        BY <1>2, <4>1, <4>2 DEF Array, Filling
      <4> QED  BY <1>1, <3>2, <4>2, <4>3 DEF RoomInv, RoomOK, Installing
    <3> QED  BY <3>1, <3>2
  <2>5. HolderOK'
    <3>1. i \in Places(heap'[b], mask, work.sel)
      <4>1. \A j : heap'[b][j].sel = heap[b][j].sel \/ heap[b][j].sel = 0
        BY <1>2 DEF Filling
      <4>2. i \in Places(heap[b], mask, work.sel) /\ heap'[b][i].sel \in {0, work.sel}
        BY <1>2 DEF Filling
      <4> HIDE DEF b, mask
      <4> QED  BY <4>1, <4>2, PlaceKept
    <3>2. /\ work'.pc = "sel" /\ work'.op = "insert" /\ work'.cls = c /\ work'.sel = work.sel
          /\ i \in DOMAIN heap'[b] /\ heap'[b][i].sel = 0 /\ UNCHANGED <<lock, call>>
      BY <1>2 DEF Filling
    <3>3. Array(c)' = heap'[b] /\ cache'[c].mask = mask
      BY <1>2, <2>3 DEF Array, Filling
    <3>4. call[lock].pc = "fill" /\ call[lock].sel = work.sel
      BY <1>1, FillArray DEF RoomInv, HolderOK
    <3> HIDE DEF c, b
    <3> QED  BY <1>1, <3>1, <3>2, <3>3, <3>4 DEF HolderOK, c
  <2> QED  BY <1>1, <2>2, <2>4, <2>5 DEF RoomInv
<1>3. CASE UNCHANGED <<heap, cache>> /\ work' = NoWork
  <2>1. BucketsOK' /\ RoomOK'
    BY <1>1, <1>3, RoomStill DEF NoWork
  <2> QED  BY <1>1, <1>3, <2>1 DEF RoomInv, HolderOK, NoWork
<1> QED  BY <1>2, <1>3, FillStep DEF Unlock

\* What the store of the selector does to the array of the holder's class
LEMMA StoreSelArray ==
  ASSUME Inv, RoomInv, StoreSel
  PROVE  LET c == work.cls
             b == cache[c].buckets IN
         \E i \in Places(heap[b], cache[c].mask, work.sel) :
           /\ i \in DOMAIN heap[b] /\ heap[b][i].sel = 0
           /\ DOMAIN heap'[b] = DOMAIN heap[b]
           /\ heap'[b][i] \in BucketType /\ heap'[b][i].sel = work.sel
           /\ heap'[b][i].imp = heap[b][i].imp
           /\ \A j : j # i => heap'[b][j] = heap[b][j]
           /\ \A e \in Buffers : e # b => heap'[e] = heap[e]
<1> DEFINE c == work.cls
           b == cache[c].buckets
           mask == cache[c].mask
<1>1. work.pc = "sel"
  BY DEF StoreSel
<1>2. Found(b, mask, work.sel) = Places(heap[b], mask, work.sel)
  BY <1>1, FillArray, FoundPlaces
<1>3. PICK j \in Places(heap[b], mask, work.sel) : heap[b][j].sel = 0
  BY <1>1, FillArray DEF RoomInv, HolderOK, Array
<1>4. PICK i \in Places(heap[b], mask, work.sel) :
        heap' = [heap EXCEPT ![b][i].sel = work.sel]
  BY <1>2 DEF StoreSel
<1>5. i = j
  BY <1>3, <1>4, PlaceUnique
<1>6. i \in DOMAIN heap[b] /\ heap[b][i] \in BucketType
  BY <1>1, <1>4, FillArray DEF Array
<1>7. heap' = [heap EXCEPT ![b] = [heap[b] EXCEPT ![i] = [heap[b][i] EXCEPT !.sel = work.sel]]]
  BY <1>4
<1>8. /\ heap'[b] = [heap[b] EXCEPT ![i] = [heap[b][i] EXCEPT !.sel = work.sel]]
      /\ \A e \in Buffers : e # b => heap'[e] = heap[e]
  <2> HIDE DEF b
  <2>1. b \in Buffers /\ heap = [e \in Buffers |-> heap[e]]
    BY <1>1, FillArray DEF b
  <2> QED  BY <1>7, <2>1
<1>9. work.sel \in Selectors
  BY <1>1, FillArray
<1>10. /\ DOMAIN heap'[b] = DOMAIN heap[b]
       /\ heap'[b][i] \in BucketType /\ heap'[b][i].sel = work.sel
       /\ heap'[b][i].imp = heap[b][i].imp
  BY <1>6, <1>8, <1>9 DEF BucketType
<1>11. \A j_1 : j_1 # i => heap'[b][j_1] = heap[b][j_1]
  BY <1>8
<1> QED  BY <1>3, <1>4, <1>5, <1>6, <1>8, <1>10, <1>11

LEMMA StoreSelRoom ==
  ASSUME Inv, RoomInv, StoreSel
  PROVE  RoomInv'
<1> DEFINE c == work.cls
           b == cache[c].buckets
<1>1. /\ work.pc = "sel" /\ version' = version /\ cache' = cache /\ work' = NoWork
  BY DEF StoreSel, Unlock
<1>2. PICK i \in DOMAIN heap[b] :
        /\ DOMAIN heap'[b] = DOMAIN heap[b]
        /\ heap'[b][i] \in BucketType
        /\ \A j : j # i => heap'[b][j] = heap[b][j]
        /\ \A e \in Buffers : e # b => heap'[e] = heap[e]
  BY StoreSelArray
<1>3. BucketsOK'
  BY <1>2 DEF RoomInv, BucketsOK
<1>4. Used(heap'[b]) \subseteq Used(heap[b]) \cup {i}
  BY <1>2 DEF Used
<1>5. PICK n \in Nat : Ends(heap[b], n)
  BY <1>1, FillArray DEF Array
<1>6. /\ IsFiniteSet(Used(heap[b]) \cup {i})
      /\ Cardinality(Used(heap[b]) \cup {i}) <= Cardinality(Used(heap[b])) + 1
      /\ Cardinality(Used(heap[b])) \in Nat
  BY <1>5, UsedFinite
<1>7. /\ Cardinality(Used(heap'[b])) <= Cardinality(Used(heap[b]) \cup {i})
      /\ Cardinality(Used(heap'[b])) \in Nat /\ Cardinality(Used(heap[b]) \cup {i}) \in Nat
  BY <1>4, <1>6, FS_Subset, FS_CardinalityType
<1>8. RoomOK'
  <2> SUFFICES ASSUME NEW d \in Classes
      PROVE  /\ cache[d].mask = 0 \/ cache[d].mask >= 2
             /\ cache[d].buckets # Empty =>
                  /\ cache[d].occupied + 2 <= cache[d].mask + 1
                  /\ Cardinality(Used(Array(d))') <= cache[d].occupied + 1
    BY <1>1 DEF RoomOK, Installing, NoWork
  <2>1. CASE d = c
    <3>1. /\ cache[d].buckets # Empty => /\ Cardinality(Used(Array(d))) <= cache[d].occupied
                                         /\ cache[d].occupied + 2 <= cache[d].mask + 1
          /\ cache[d].mask = 0 \/ cache[d].mask >= 2
      BY <1>1, <2>1 DEF RoomInv, RoomOK, Installing
    <3>2. cache[d].occupied \in Nat
      BY <1>1, FillArray
    <3>3. Array(d)' = heap'[b] /\ Array(d) = heap[b]
      BY <1>1, <2>1 DEF Array
    <3>4. Cardinality(Used(Array(d))') <= Cardinality(Used(Array(d))) + 1
      <4>1. Used(Array(d))' = Used(heap'[b]) /\ Used(Array(d)) = Used(heap[b])
        BY <3>3
      <4> HIDE DEF c, b
      <4> QED  BY <1>6, <1>7, <4>1
    <3>5. Cardinality(Used(Array(d))') \in Nat /\ Cardinality(Used(Array(d))) \in Nat
      BY <1>6, <1>7, <3>3
    <3> HIDE DEF c, b
    <3> QED  BY <3>1, <3>2, <3>4, <3>5
  <2>2. CASE d # c
    <3>1. cache[d].buckets # b /\ cache[d].buckets \in Buffers \cup {Empty}
      BY <1>1, <2>2, FillArray
    <3>2. cache[d].buckets # Empty => Array(d)' = Array(d)
      BY <1>1, <1>2, <3>1 DEF Array
    <3> QED  BY <1>1, <2>2, <3>2 DEF RoomInv, RoomOK, Installing
  <2> QED  BY <2>1, <2>2
<1> QED  BY <1>1, <1>3, <1>8 DEF RoomInv, HolderOK, NoWork

LEMMA BeginRoom ==
  ASSUME Inv, RoomInv, NEW t \in Threads, NEW op \in {"change", "flush"}, NEW s, Begin(t, op, s),
         version' \in [Selectors -> Nat \ {0}]
  PROVE  RoomInv'
<1>1. /\ work.pc = "none" /\ UNCHANGED <<heap, cache>>
      /\ work' = [NoWork EXCEPT !.op = op, !.pc = "flush", !.sel = s, !.todo = Classes]
  BY DEF Begin, Inv, WorkOK
<1>2. work'.op = op /\ work'.pc = "flush"
  BY <1>1 DEF NoWork
<1>3. BucketsOK' /\ RoomOK'
  BY <1>1, <1>2, RoomStill
<1> QED  BY <1>2, <1>3 DEF RoomInv, HolderOK

LEMMA FlushClassRoom ==
  ASSUME Inv, RoomInv, NEW c \in Classes, FlushClass(c)
  PROVE  RoomInv'
<1>1. /\ work.pc = "flush" /\ UNCHANGED <<heap, cache, version>> /\ work \in WorkType
      /\ work.op # "insert"
  BY DEF FlushClass, Inv, WorkOK
<1>2. \/ work' = [work EXCEPT !.todo = @ \ {c}]
      \/ /\ cache[c].occupied > 0
         /\ work' = [work EXCEPT !.todo = @ \ {c}, !.pc = "buckets", !.cls = c,
                       !.size = Capacity(c), !.old = cache[c].buckets]
  BY DEF FlushClass, Erases, ErasedCapacity
<1>3. /\ cache[c].occupied > 0 => cache[c].mask > 0
      /\ cache[c].mask = 0 \/ cache[c].mask >= 2
      /\ cache[c].mask \in Nat
  BY DEF Inv, CacheOK, RoomInv, RoomOK
<1>4. cache[c].occupied > 0 => Capacity(c) >= 3
  BY <1>3 DEF Capacity
<1>5. /\ work'.pc \in {"flush", "buckets"} /\ work'.op # "insert"
      /\ work'.pc = "buckets" => work'.size >= 3
  BY <1>1, <1>2, <1>4 DEF WorkType
<1>6. BucketsOK' /\ RoomOK'
  BY <1>1, <1>5, RoomStill
<1> QED  BY <1>1, <1>5, <1>6 DEF RoomInv, HolderOK

LEMMA FlushedRoom ==
  ASSUME Inv, RoomInv, Flushed
  PROVE  RoomInv'
<1>1. work.pc = "flush" /\ UNCHANGED <<heap, cache, version>> /\ work' = NoWork
  BY DEF Flushed, Unlock
<1>2. BucketsOK' /\ RoomOK'
  BY <1>1, RoomStill DEF NoWork
<1> QED  BY <1>1, <1>2 DEF RoomInv, HolderOK, NoWork

LEMMA CollectALotRoom ==
  ASSUME Inv, RoomInv, NEW t \in Threads, CollectALot(t)
  PROVE  RoomInv'
<1>1. /\ work.pc = "none" /\ UNCHANGED <<heap, cache, version>>
      /\ work'.op = "collect" /\ work'.pc = "collect"
  BY DEF CollectALot, Inv, WorkOK, NoWork
<1>2. BucketsOK' /\ RoomOK'
  BY <1>1, RoomStill
<1> QED  BY <1>1, <1>2 DEF RoomInv, HolderOK

LEMMA CheckThreadRoom ==
  ASSUME Inv, RoomInv, NEW t \in Threads, CheckThread(t)
  PROVE  RoomInv'
<1>1. /\ work.pc = "collect" /\ UNCHANGED <<heap, cache, version, lock>> /\ work \in WorkType
  BY DEF CheckThread, Inv, WorkOK
<1>2. /\ work'.op = work.op /\ work'.cls = work.cls /\ work'.sel = work.sel
      /\ work'.pc \in {"collect", "fill", "flush"}
  BY <1>1 DEF CheckThread, Continue, WorkType
<1>3. work.op = "insert" => call'[lock] = call[lock]
  <2>1. work.op = "insert" => call[lock].pc = "fill"
    BY DEF RoomInv, HolderOK
  <2>2. CASE InCritical(t)
    <3>1. call' = call \/ call' = [call EXCEPT ![t] = Missed(call[t])]
      BY DEF CheckThread
    <3>2. work.op = "insert" => t # lock /\ lock \in Threads
      BY <2>1, <2>2 DEF InCritical, RoomInv, HolderOK
    <3>3. call = [u \in Threads |-> call[u]]
      BY DEF Inv, ReadersOK
    <3> QED  BY <3>1, <3>2, <3>3
  <2>3. CASE ~InCritical(t)
    BY <2>3 DEF CheckThread
  <2> QED  BY <2>2, <2>3
<1>4. BucketsOK' /\ RoomOK'
  BY <1>1, <1>2, RoomStill
<1>5. HolderOK'
  BY <1>1, <1>2, <1>3 DEF RoomInv, HolderOK
<1> QED  BY <1>1, <1>4, <1>5 DEF RoomInv

LEMMA FreeGarbageRoom ==
  ASSUME Inv, RoomInv, FreeGarbage
  PROVE  RoomInv'
<1>1. /\ work.pc = "collect" /\ UNCHANGED <<cache, version>> /\ work \in WorkType
      /\ heap' = [b \in Buffers |-> IF b \in garbage THEN NoBuckets ELSE heap[b]]
      /\ \/ work' = NoWork
         \/ work' = Continue(work) /\ UNCHANGED <<lock, call>>
  BY DEF FreeGarbage, Unlock, Inv, WorkOK
<1>2. /\ work'.pc \in {"none", "fill", "flush"}
      /\ work'.op = "insert" =>
           work.op = "insert" /\ work'.cls = work.cls /\ work'.sel = work.sel /\ UNCHANGED <<lock, call>>
  <2>1. CASE work' = NoWork
    BY <2>1 DEF NoWork
  <2>2. CASE work' = Continue(work) /\ UNCHANGED <<lock, call>>
    BY <1>1, <2>2 DEF Continue, WorkType
  <2> QED  BY <1>1, <2>1, <2>2
<1>3. BucketsOK'
  BY <1>1 DEF RoomInv, BucketsOK, NoBuckets
<1>4. \A c \in Classes : cache[c].buckets # Empty => heap'[cache[c].buckets] = heap[cache[c].buckets]
  BY <1>1 DEF Inv, CacheOK, GarbageOK, Discarded
<1>5. RoomOK'
  BY <1>1, <1>2, <1>4 DEF RoomInv, RoomOK, Installing, Array
<1>6. HolderOK'
  BY <1>1, <1>2 DEF RoomInv, HolderOK
<1> QED  BY <1>1, <1>3, <1>5, <1>6 DEF RoomInv

LEMMA LoadRoom ==
  ASSUME Inv, RoomInv, NEW t \in Threads,
         \/ \E c \in Classes, s \in Selectors : Send(t, c, s)
         \/ LoadBuckets(t) \/ Compare(t) \/ Scan(t) \/ LoadImp(t) \/ Signal(t)
  PROVE  RoomInv'
<1>1. PICK r : /\ UNCHANGED <<heap, cache, version, lock, work>>
               /\ call' = [call EXCEPT ![t] = r]
  BY DEF Send, LoadBuckets, Compare, Scan, LoadImp, Signal, Load
<1>2. call[t].pc # "fill"
  BY DEF Send, LoadBuckets, Compare, Scan, LoadImp, Signal, Load, InCritical, Is
<1> QED  BY <1>1, <1>2, MessageRoom

LEMMA RoomInvNext ==
  ASSUME Inv, RoomInv, [Next]_vars
  PROVE  RoomInv'
<1>1. CASE UNCHANGED vars
  BY <1>1 DEF vars, RoomInv, BucketsOK, RoomOK, HolderOK, Installing, Array
<1>2. ASSUME NEW t \in Threads, NEW s \in Selectors, SetImplementation(t, s)
      PROVE  RoomInv'
  <2>1. version' \in [Selectors -> Nat \ {0}]
    BY <1>2 DEF SetImplementation, RoomInv
  <2> QED  BY <1>2, <2>1, BeginRoom DEF SetImplementation
<1>3. ASSUME NEW t \in Threads, FlushCaches(t)
      PROVE  RoomInv'
  BY <1>3, BeginRoom DEF FlushCaches, RoomInv
<1>4. ASSUME NEW t \in Threads, Message(t)
      PROVE  RoomInv'
  BY <1>4, LoadRoom, LookUpRoom, CollectALotRoom DEF Message
<1>5. CASE Holder
  BY <1>5, StoreBucketsRoom, StoreMaskRoom, FillRoom, StoreSelRoom, FlushClassRoom,
     CheckThreadRoom, FlushedRoom, FreeGarbageRoom DEF Holder
<1> QED  BY <1>1, <1>2, <1>3, <1>4, <1>5, LoadRoom DEF Next

LEMMA RoomHolds == Spec => []RoomInv
<1>1. Init => RoomInv
  BY DEF Init, RoomInv, BucketsOK, RoomOK, HolderOK, NoWork, NoBuckets, Empty
<1>2. Inv /\ RoomInv /\ [Next]_vars => RoomInv'
  BY RoomInvNext
<1> QED  BY <1>1, <1>2, InvHolds, PTL DEF Spec

\* Every cache that has buckets keeps an unused one, so that scans end.
THEOREM ScansEnd == Spec => []EmptySlot
<1>1. Inv /\ RoomInv => EmptySlot
  <2> SUFFICES ASSUME Inv, RoomInv, NEW c \in Classes, cache[c].buckets # Empty
               PROVE  \E i \in DOMAIN Array(c) : Array(c)[i].sel = 0
    BY DEF EmptySlot, Array
  <2>1. PICK n \in Nat : cache[c].mask < n /\ Ends(Array(c), n)
    BY DEF Inv, CacheOK, Array
  <2>2. cache[c].mask \in Nat /\ cache[c].occupied \in Nat
    BY DEF Inv, CacheOK
  <2>3. CASE Installing(c)
    <3>1. Used(Array(c)) = {work.size - 1} /\ work.size >= 3 /\ Ends(Array(c), work.size)
      BY <2>3 DEF RoomInv, RoomOK, HolderOK, Installing, Inv, WorkOK, Array
    <3>2. 0 \in DOMAIN Array(c) /\ 0 \notin Used(Array(c))
      BY <3>1, EndsFacts DEF Ends
    <3> QED  BY <3>2 DEF Used
  <2>4. CASE ~Installing(c)
    <3>1. /\ Cardinality(Used(Array(c))) <= cache[c].occupied + 1
          /\ cache[c].occupied + 2 <= cache[c].mask + 1
      <4>1. cache[c].occupied <= cache[c].occupied + 1
        BY <2>2
      <4>2. /\ Cardinality(Used(Array(c))) <= cache[c].occupied \/ Cardinality(Used(Array(c))) <= cache[c].occupied + 1
            /\ cache[c].occupied + 2 <= cache[c].mask + 1
        BY <2>4 DEF RoomInv, RoomOK
      <4>3. Cardinality(Used(Array(c))) \in Nat
        BY <2>1, UsedFinite
      <4> QED  BY <2>2, <4>1, <4>2, <4>3
    <3>2. Cardinality(Used(Array(c))) \in Nat
      BY <2>1, UsedFinite
    <3>3. Cardinality(Used(Array(c))) < n
      BY <2>1, <2>2, <3>1, <3>2
    <3> QED  BY <2>1, <3>3, UsedFinite
  <2> QED  BY <2>3, <2>4
<1> QED  BY <1>1, InvHolds, RoomHolds, PTL

(***************************************************************************)
(* What the caches hold is what messages may call.                         *)
(***************************************************************************)
\* What an entry of a class may be, at its oldest: a change leaves the
\* caches that it has not yet flushed one implementation behind.
Unflushed(c, s) ==
  /\ work.op = "change" /\ work.sel = s
  /\ c \in work.todo \/ (work.pc = "buckets" /\ work.cls = c)
Oldest(c, s) == IF Unflushed(c, s) THEN version[s] - 1 ELSE version[s]

\* Entries that a scan would find, with an implementation of their selector
ClassFresh(c) ==
  cache[c].buckets # Empty =>
    \A i \in DOMAIN Array(c) : Array(c)[i].sel \in Selectors =>
      /\ Array(c)[i].imp[1] = Array(c)[i].sel
      /\ Array(c)[i].imp[2] >= Oldest(c, Array(c)[i].sel)
      /\ i \in Places(Array(c), cache[c].mask, Array(c)[i].sel)
EntriesOK == \A c \in Classes : ClassFresh(c)

\* What the holder inserts is the newest implementation.
HolderFresh ==
  /\ work.pc = "none" => work.op = "none"
  /\ work.op = "change" => work.sel \in Selectors
  /\ work.op = "insert" => /\ call[lock].imp[1] = work.sel
                           /\ call[lock].imp[2] >= version[work.sel]
  /\ work.pc = "sel" =>
       \A i \in Places(Array(work.cls), cache[work.cls].mask, work.sel) :
         Array(work.cls)[i].imp = call[lock].imp

MessageFresh(r) ==
  /\ r.pc \in {"buckets", "lookup", "fill"} \cup Reading =>
       r.sel \in Selectors /\ r.since \in Nat /\ r.since <= Settled(r.sel)
  /\ r.pc \in Reading /\ r.buckets # Empty =>
       \A i \in DOMAIN heap[r.buckets] :
         heap[r.buckets][i].sel = r.sel => Current(r, heap[r.buckets][i].imp)
  /\ r.pc = "imp" => r.buckets # Empty /\ heap[r.buckets][r.i].sel = r.sel
  /\ r.pc = "fill" => Current(r, r.imp)

FreshInv ==
  EntriesOK /\ HolderFresh /\ \A t \in Threads : MessageFresh(call[t])

LEMMA SettledFacts ==
  ASSUME RoomInv, NEW s \in Selectors
  PROVE  /\ Settled(s) \in Nat /\ version[s] \in Nat /\ Settled(s) <= version[s]
         /\ \A c : Oldest(c, s) \in Nat /\ Settled(s) <= Oldest(c, s) /\ Oldest(c, s) <= version[s]
BY DEF RoomInv, Settled, Oldest, Unflushed

LEMMA QuietFresh ==
  ASSUME NEW r, r.pc \in {"idle", "change", "flush", "collect"}
  PROVE  MessageFresh(r)
BY DEF MessageFresh, Reading

\* What a step may do to an array that a message reads: fill an unused
\* bucket with the newest implementation of the selector it stores.
FilledFresh(old, new) ==
  /\ old.sel = 0
  /\ new.sel \in Selectors =>
       new.imp[1] = new.sel /\ new.imp[2] >= version[new.sel]
ArraysFresh ==
  \A b \in Buffers : Read(b) =>
    /\ DOMAIN heap'[b] = DOMAIN heap[b]
    /\ \A i \in DOMAIN heap[b] :
         heap'[b][i] = heap[b][i] \/ FilledFresh(heap[b][i], heap'[b][i])
SettledGrows == \A s \in Selectors : Settled(s) <= Settled(s)'

LEMMA MessageKept ==
  ASSUME Inv, RoomInv, RoomInv', FreshInv, ArraysFresh, SettledGrows,
         NEW t \in Threads, call'[t] = call[t]
  PROVE  MessageFresh(call[t])'
<1>1. PICK r : r = call[t]
  OBVIOUS
<1>2. MessageFresh(r) /\ ReaderOK(r)
  BY <1>1 DEF FreshInv, Inv, ReadersOK
<1>3. r.pc \in {"buckets", "lookup", "fill"} \cup Reading =>
        /\ r.sel \in Selectors /\ r.since \in Nat /\ r.since <= Settled(r.sel)'
        /\ r.since <= version[r.sel] /\ version[r.sel] \in Nat
  <2> SUFFICES ASSUME r.pc \in {"buckets", "lookup", "fill"} \cup Reading
               PROVE  /\ r.sel \in Selectors /\ r.since \in Nat /\ r.since <= Settled(r.sel)'
                      /\ r.since <= version[r.sel] /\ version[r.sel] \in Nat
    OBVIOUS
  <2>1. r.sel \in Selectors /\ r.since \in Nat /\ r.since <= Settled(r.sel)
    BY <1>2 DEF MessageFresh
  <2>2. Settled(r.sel) \in Nat /\ version[r.sel] \in Nat /\ Settled(r.sel) <= version[r.sel]
    BY <2>1, SettledFacts
  <2>3. Settled(r.sel)' \in Nat
    <3>1. version' \in [Selectors -> Nat \ {0}]
      BY DEF RoomInv
    <3> QED  BY <2>1, <3>1 DEF Settled
  <2>4. Settled(r.sel) <= Settled(r.sel)'
    BY <2>1 DEF SettledGrows
  <2> QED  BY <2>1, <2>2, <2>3, <2>4
<1>4. ASSUME r.pc \in Reading, r.buckets # Empty
      PROVE  /\ r.buckets \in Buffers /\ r.i \in DOMAIN heap[r.buckets]
             /\ DOMAIN heap'[r.buckets] = DOMAIN heap[r.buckets]
             /\ \A i \in DOMAIN heap[r.buckets] :
                  \/ heap'[r.buckets][i] = heap[r.buckets][i]
                  \/ FilledFresh(heap[r.buckets][i], heap'[r.buckets][i])
  <2>1. r.buckets \in Buffers /\ r.i \in DOMAIN heap[r.buckets]
    BY <1>2, <1>4 DEF ReaderOK, MessageOK
  <2>2. Read(r.buckets)
    BY <1>1, <1>4 DEF Read
  <2> QED  BY <2>1, <2>2 DEF ArraysFresh
<1>5. ASSUME r.pc \in Reading, r.buckets # Empty, NEW i \in DOMAIN heap'[r.buckets],
             heap'[r.buckets][i].sel = r.sel
      PROVE  Current(r, heap'[r.buckets][i].imp)
  <2>1. i \in DOMAIN heap[r.buckets] /\ heap'[r.buckets][i] \in BucketType
    BY <1>4, <1>5 DEF RoomInv, BucketsOK
  <2>2. CASE heap'[r.buckets][i] = heap[r.buckets][i]
    BY <1>2, <1>5, <2>1, <2>2 DEF MessageFresh
  <2>3. CASE FilledFresh(heap[r.buckets][i], heap'[r.buckets][i])
    <3>1. r.sel \in Selectors /\ r.since \in Nat /\ r.since <= version[r.sel] /\ version[r.sel] \in Nat
      BY <1>3, <1>5
    <3>2. /\ heap'[r.buckets][i].imp[1] = r.sel
          /\ heap'[r.buckets][i].imp[2] >= version[r.sel]
      BY <1>5, <2>3, <3>1 DEF FilledFresh
    <3>3. heap'[r.buckets][i].imp[2] \in Nat
      BY <2>1 DEF BucketType, ImpType
    <3> QED  BY <3>1, <3>2, <3>3 DEF Current
  <2> QED  BY <1>4, <1>5, <2>1, <2>2, <2>3
<1>6. r.pc = "imp" => r.buckets # Empty /\ heap'[r.buckets][r.i].sel = r.sel
  <2> SUFFICES ASSUME r.pc = "imp" PROVE r.buckets # Empty /\ heap'[r.buckets][r.i].sel = r.sel
    OBVIOUS
  <2>1. r.buckets # Empty /\ heap[r.buckets][r.i].sel = r.sel /\ r.sel \in Selectors
    BY <1>2 DEF MessageFresh, Reading
  <2>2. heap'[r.buckets][r.i] = heap[r.buckets][r.i]
    BY <1>4, <2>1, SelectorsAssumption DEF FilledFresh, Reading
  <2> QED  BY <2>1, <2>2
<1>7. r.pc = "fill" => Current(r, r.imp)
  BY <1>2 DEF MessageFresh
<1>8. MessageFresh(r)'
  BY <1>3, <1>5, <1>6, <1>7 DEF MessageFresh, Current
<1> QED  BY <1>1, <1>8 DEF MessageFresh, Current, Settled

\* A message takes a step that leaves the caches and the holder alone.
LEMMA LoadFresh ==
  ASSUME Inv, RoomInv, RoomInv', FreshInv, UNCHANGED <<heap, cache, version, lock, work>>,
         NEW t \in Threads, NEW r, call' = [call EXCEPT ![t] = r],
         call[t].pc # "fill", MessageFresh(r)
  PROVE  FreshInv'
<1>1. \A u \in Threads : call'[u] = IF u = t THEN r ELSE call[u]
  BY DEF Inv, ReadersOK
<1>2. EntriesOK'
  <2>1. \A c : ClassFresh(c)' <=> ClassFresh(c)
    BY DEF ClassFresh, Array, Oldest, Unflushed
  <2> QED  BY <2>1 DEF FreshInv, EntriesOK
<1>3. HolderFresh'
  <2>1. work.op = "insert" => lock \in Threads /\ t # lock
    BY DEF RoomInv, HolderOK
  <2>2. work.pc = "sel" => work.op = "insert"
    BY DEF Inv, WorkOK
  <2>3. work.op = "insert" => call'[lock] = call[lock]
    BY <1>1, <2>1
  <2> QED  BY <2>2, <2>3 DEF FreshInv, HolderFresh, Array
<1>4. ASSUME NEW u \in Threads PROVE MessageFresh(call[u])'
  <2>1. CASE u = t
    BY <1>1, <2>1 DEF MessageFresh, Current, Settled
  <2>2. CASE u # t
    <3>1. ArraysFresh
      BY DEF ArraysFresh
    <3>2. ASSUME NEW s \in Selectors PROVE Settled(s) <= Settled(s)'
      <4>1. Settled(s)' = Settled(s)
        BY DEF Settled
      <4> QED  BY <4>1, SettledFacts
    <3> QED  BY <1>1, <2>2, <3>1, <3>2, MessageKept DEF SettledGrows
  <2> QED  BY <2>1, <2>2
<1> QED  BY <1>2, <1>3, <1>4 DEF FreshInv

LEMMA SendFresh ==
  ASSUME Inv, RoomInv, RoomInv', FreshInv, NEW t \in Threads, NEW c \in Classes, NEW s \in Selectors,
         Send(t, c, s)
  PROVE  FreshInv'
<1>1. PICK r : r = [NoMessage EXCEPT !.pc = "buckets", !.cls = c, !.sel = s,
                                     !.since = Settled(s), !.mask = cache[c].mask]
  OBVIOUS
<1>2. r.pc = "buckets" /\ r.sel = s /\ r.since = Settled(s)
  BY <1>1 DEF NoMessage
<1>3. Settled(s) \in Nat
  BY SettledFacts
<1>4. MessageFresh(r)
  BY <1>2, <1>3 DEF MessageFresh, Reading
<1> QED  BY <1>1, <1>4, LoadFresh DEF Send, Is

LEMMA LoadBucketsFresh ==
  ASSUME Inv, RoomInv, RoomInv', FreshInv, NEW t \in Threads, LoadBuckets(t)
  PROVE  FreshInv'
<1> DEFINE c == call[t].cls
           s == call[t].sel
<1>1. /\ call[t].pc = "buckets" /\ MessageFresh(call[t]) /\ ReaderOK(call[t])
      /\ UNCHANGED <<heap, cache, version, lock, work>>
  BY DEF LoadBuckets, Load, Is, FreshInv, Inv, ReadersOK
<1>2. PICK r : /\ r = [call[t] EXCEPT !.pc = "compare", !.buckets = cache[c].buckets,
                                      !.i = CacheHash(s, call[t].mask)]
               /\ call' = [call EXCEPT ![t] = r]
  BY DEF LoadBuckets, Load
<1>3. /\ r.pc = "compare" /\ r.sel = s /\ r.since = call[t].since
      /\ r.buckets = cache[c].buckets
  BY <1>1, <1>2 DEF ReaderOK, MessageOK
<1>4. c \in Classes /\ s \in Selectors /\ call[t].since \in Nat /\ call[t].since <= Settled(s)
  BY <1>1 DEF ReaderOK, MessageFresh
<1>5. ASSUME cache[c].buckets # Empty, NEW i \in DOMAIN Array(c), Array(c)[i].sel = s
      PROVE  Current(r, Array(c)[i].imp)
  <2>1. Array(c)[i].imp[1] = s /\ Array(c)[i].imp[2] >= Oldest(c, s)
    BY <1>4, <1>5 DEF FreshInv, EntriesOK, ClassFresh
  <2>2. Array(c)[i].imp[2] \in Nat
    <3>1. cache[c].buckets \in Buffers
      BY <1>4, <1>5 DEF Inv, CacheOK
    <3>2. Array(c)[i] \in BucketType
      BY <1>5, <3>1 DEF RoomInv, BucketsOK, Array
    <3> QED  BY <3>2 DEF BucketType, ImpType
  <2>3. Oldest(c, s) \in Nat /\ Settled(s) <= Oldest(c, s) /\ Settled(s) \in Nat
    BY <1>4, SettledFacts
  <2> QED  BY <1>3, <1>4, <2>1, <2>2, <2>3 DEF Current
<1>6. MessageFresh(r)
  BY <1>3, <1>4, <1>5 DEF MessageFresh, Reading, Array
<1> QED  BY <1>1, <1>2, <1>6, LoadFresh

LEMMA CompareFresh ==
  ASSUME Inv, RoomInv, RoomInv', FreshInv, NEW t \in Threads, Compare(t)
  PROVE  FreshInv'
<1>1. /\ call[t].pc = "compare" /\ MessageFresh(call[t]) /\ ReaderOK(call[t])
      /\ UNCHANGED <<heap, cache, version, lock, work>>
  BY DEF Compare, Load, Is, FreshInv, Inv, ReadersOK
<1>2. PICK r : /\ r = [call[t] EXCEPT !.pc = IF Sel(t) = call[t].sel THEN "imp" ELSE "scan"]
               /\ call' = [call EXCEPT ![t] = r]
  BY DEF Compare, Load
<1>3. /\ r.pc \in {"imp", "scan"} /\ r.sel = call[t].sel /\ r.since = call[t].since
      /\ r.buckets = call[t].buckets /\ r.i = call[t].i
      /\ r.pc = "imp" => Sel(t) = r.sel
  BY <1>1, <1>2 DEF ReaderOK, MessageOK
<1>4. r.pc = "imp" => r.buckets # Empty /\ heap[r.buckets][r.i].sel = r.sel
  <2>1. r.sel \notin {0, 1} /\ (r.buckets = Empty => Sel(t) = 0)
    BY <1>1, <1>3, AtEnd DEF Reading
  <2> QED  BY <1>3, <2>1 DEF Sel, At
<1>5. MessageFresh(r)
  BY <1>1, <1>3, <1>4 DEF MessageFresh, Reading, Current
<1> QED  BY <1>1, <1>2, <1>5, LoadFresh

LEMMA MissedFresh ==
  ASSUME NEW r, MessageFresh(r), r.pc \in {"buckets"} \cup Reading
  PROVE  MessageFresh(Missed(r))
<1>1. Missed(r).pc = "lookup" /\ Missed(r).sel = r.sel /\ Missed(r).since = r.since
  BY DEF Missed, NoMessage
<1> HIDE DEF Missed
<1> QED  BY <1>1 DEF MessageFresh, Reading

LEMMA ScanFresh ==
  ASSUME Inv, RoomInv, RoomInv', FreshInv, NEW t \in Threads, Scan(t)
  PROVE  FreshInv'
<1>1. /\ call[t].pc = "scan" /\ MessageFresh(call[t]) /\ ReaderOK(call[t])
      /\ UNCHANGED <<heap, cache, version, lock, work>>
  BY DEF Scan, Load, Is, FreshInv, Inv, ReadersOK
<1>2. PICK r : /\ \/ r = Missed(call[t])
                  \/ r = [call[t] EXCEPT !.pc = "compare", !.i = 0, !.wrapped = TRUE]
                  \/ r = [call[t] EXCEPT !.pc = "compare", !.i = @ + 1]
               /\ call' = [call EXCEPT ![t] = r]
  BY DEF Scan, Load
<1>3. CASE r = Missed(call[t])
  BY <1>1, <1>2, <1>3, MissedFresh, LoadFresh DEF Reading
<1>4. CASE r # Missed(call[t])
  <2>1. /\ r.pc = "compare" /\ r.sel = call[t].sel /\ r.since = call[t].since
        /\ r.buckets = call[t].buckets
    BY <1>1, <1>2, <1>4 DEF ReaderOK, MessageOK
  <2>2. MessageFresh(r)
    BY <1>1, <2>1 DEF MessageFresh, Reading, Current
  <2> QED  BY <1>1, <1>2, <2>2, LoadFresh
<1> QED  BY <1>3, <1>4

LEMMA LoadImpFresh ==
  ASSUME Inv, RoomInv, RoomInv', FreshInv, NEW t \in Threads, LoadImp(t)
  PROVE  FreshInv'
<1>1. MessageFresh(NoMessage)
  BY QuietFresh DEF NoMessage
<1> QED  BY <1>1, LoadFresh DEF LoadImp, Load, Is

LEMMA SignalFresh ==
  ASSUME Inv, RoomInv, RoomInv', FreshInv, NEW t \in Threads, Signal(t)
  PROVE  FreshInv'
<1>1. MessageFresh(Missed(call[t]))
  BY MissedFresh DEF Signal, InCritical, FreshInv, Reading
<1> QED  BY <1>1, LoadFresh DEF Signal, Load, InCritical

\* The rest keeps the messages that take no part in it.
LEMMA OthersFresh ==
  ASSUME Inv, RoomInv, RoomInv', FreshInv, ArraysFresh, SettledGrows,
         NEW t \in Threads, MessageFresh(call[t])', \A u \in Threads \ {t} : call'[u] = call[u]
  PROVE  \A u \in Threads : MessageFresh(call[u])'
<1> TAKE u \in Threads
<1>1. CASE u = t
  BY <1>1
<1>2. CASE u # t
  BY <1>2, MessageKept
<1> QED  BY <1>1, <1>2

LEMMA SettledKept ==
  ASSUME RoomInv, version' = version,
         (work'.op = work.op /\ work'.sel = work.sel) \/ work'.op # "change"
  PROVE  SettledGrows
<1> SUFFICES ASSUME NEW s \in Selectors PROVE Settled(s) <= Settled(s)'
  BY DEF SettledGrows
<1>1. version[s] \in Nat
  BY DEF RoomInv
<1> QED  BY <1>1 DEF Settled

\* A cache whose array is left alone, or taken away, keeps its entries.
LEMMA ClassKept ==
  ASSUME Inv, RoomInv, RoomInv', FreshInv, NEW c \in Classes,
         cache'[c].buckets # Empty =>
           /\ cache[c].buckets # Empty /\ Array(c)' = Array(c) /\ cache'[c].mask = cache[c].mask,
         \A s \in Selectors : Oldest(c, s)' <= Oldest(c, s)
  PROVE  ClassFresh(c)'
<1> SUFFICES ASSUME cache'[c].buckets # Empty, NEW i \in DOMAIN Array(c), Array(c)[i].sel \in Selectors
             PROVE  /\ Array(c)[i].imp[1] = Array(c)[i].sel
                    /\ i \in Places(Array(c), cache[c].mask, Array(c)[i].sel)
                    /\ \A s : s = Array(c)[i].sel => Array(c)[i].imp[2] >= Oldest(c, s)'
  BY DEF ClassFresh, Oldest, Unflushed
<1>1. PICK s \in Selectors : s = Array(c)[i].sel
  OBVIOUS
<1>2. /\ Array(c)[i].imp[1] = Array(c)[i].sel
      /\ i \in Places(Array(c), cache[c].mask, Array(c)[i].sel)
      /\ Array(c)[i].imp[2] >= Oldest(c, s)
  BY <1>1 DEF FreshInv, EntriesOK, ClassFresh
<1>3. Oldest(c, s) \in Nat /\ Oldest(c, s)' \in Nat
  <2>1. version'[s] \in Nat \ {0}
    BY DEF RoomInv
  <2> QED  BY <2>1, SettledFacts DEF Oldest
<1>4. Array(c)[i].imp[2] \in Nat
  <2>1. cache[c].buckets \in Buffers
    BY DEF Inv, CacheOK
  <2>2. Array(c)[i] \in BucketType
    BY <2>1 DEF RoomInv, BucketsOK, Array
  <2> QED  BY <2>2 DEF BucketType, ImpType
<1>5. Array(c)[i].imp[2] >= Oldest(c, s)'
  BY <1>1, <1>2, <1>3, <1>4
<1> QED  BY <1>1, <1>2, <1>5

LEMMA ClassUnused ==
  ASSUME NEW c \in Classes,
         cache'[c].buckets # Empty => \A i \in DOMAIN Array(c)' : Array(c)'[i].sel \in {0, 1}
  PROVE  ClassFresh(c)'
BY SelectorsAssumption DEF ClassFresh

LEMMA EntriesStill ==
  ASSUME Inv, RoomInv, RoomInv', FreshInv, UNCHANGED <<heap, cache>>,
         \A c \in Classes, s \in Selectors : Oldest(c, s)' <= Oldest(c, s)
  PROVE  EntriesOK' /\ ArraysFresh
<1>1. ArraysFresh
  BY DEF ArraysFresh
<1>2. ASSUME NEW c \in Classes PROVE ClassFresh(c)'
  <2>1. Array(c)' = Array(c)
    BY DEF Array
  <2> QED  BY <2>1, ClassKept
<1> QED  BY <1>1, <1>2 DEF EntriesOK

LEMMA CacheGetImpFresh ==
  ASSUME Inv, RoomInv, FreshInv, NEW c \in Classes, NEW s \in Selectors, CacheGetImp(c, s) # NoImp
  PROVE  CacheGetImp(c, s)[1] = s /\ CacheGetImp(c, s)[2] >= Oldest(c, s)
<1> DEFINE b == cache[c].buckets
           hit == {i \in Found(b, cache[c].mask, s) : At(b, i).sel = s}
<1>1. PICK i \in hit : CacheGetImp(c, s) = At(b, i).imp
  BY DEF CacheGetImp
<1>2. b # Empty /\ heap[b][i].sel = s /\ At(b, i) = heap[b][i]
  BY <1>1, SelectorsAssumption DEF At, Unused, Bucket
<1>3. i \in DOMAIN heap[b]
  <2>1. PICK n \in Nat : cache[c].mask < n /\ Ends(heap[b], n)
    BY <1>2 DEF Inv, CacheOK
  <2>2. i \in Places(heap[b], cache[c].mask, s)
    BY <1>1, <1>2, FoundPlaces
  <2>3. cache[c].mask \in Nat /\ s \in Nat
    BY SelectorsAssumption DEF Inv, CacheOK
  <2>4. i \in 0 .. cache[c].mask
    BY <2>2, <2>3, PlacesIn
  <2> HIDE DEF b
  <2> QED  BY <2>1, <2>3, <2>4 DEF Ends
<1> QED  BY <1>1, <1>2, <1>3 DEF FreshInv, EntriesOK, ClassFresh, Array

LEMMA CacheGetImpFinds ==
  ASSUME FreshInv, NEW c \in Classes, cache[c].buckets # Empty, NEW i \in DOMAIN Array(c),
         Array(c)[i].sel \in Selectors
  PROVE  CacheGetImp(c, Array(c)[i].sel) = Array(c)[i].imp
<1> DEFINE b == cache[c].buckets
           s == Array(c)[i].sel
           hit == {j \in Found(b, cache[c].mask, s) : At(b, j).sel = s}
<1>1. i \in Places(Array(c), cache[c].mask, s)
  BY DEF FreshInv, EntriesOK, ClassFresh
<1>2. Found(b, cache[c].mask, s) = Places(Array(c), cache[c].mask, s)
  BY FoundPlaces DEF Array
<1>3. \A j : At(b, j) = Array(c)[j]
  BY DEF At, Array
<1>4. i \in hit /\ \A j \in hit : j = i
  BY <1>1, <1>2, <1>3, PlaceUnique
<1> HIDE DEF s
<1>5. CacheGetImp(c, s) = IF hit = {} THEN NoImp ELSE At(b, CHOOSE j \in hit : TRUE).imp
  BY DEF CacheGetImp
<1> HIDE DEF hit
<1>6. (CHOOSE j \in hit : TRUE) = i
  BY <1>4
<1> QED  BY <1>3, <1>4, <1>5, <1>6 DEF s

LEMMA LookUpFresh ==
  ASSUME Inv, RoomInv, RoomInv', FreshInv, NEW t \in Threads, LookUp(t)
  PROVE  FreshInv'
<1>1. PICK c \in Classes, s \in Selectors : c = call[t].cls /\ s = call[t].sel
  BY DEF LookUp, Is, Inv, ReadersOK, ReaderOK
<1>2. /\ call[t].pc = "lookup" /\ lock' = t /\ work.pc = "none" /\ work.op = "none"
      /\ UNCHANGED <<heap, cache, version>>
      /\ call' = [call EXCEPT ![t].pc = "fill", ![t].imp = LookUpImp(c, s)]
  BY <1>1 DEF LookUp, Is, Inv, WorkOK, FreshInv, HolderFresh
<1>3. work'.op = "insert" /\ work'.sel = s /\ work'.pc \in {"fill", "buckets"}
  BY <1>1 DEF LookUp, NoWork
<1>4. /\ call'[t].pc = "fill" /\ call'[t].sel = s /\ call'[t].imp = LookUpImp(c, s)
      /\ call'[t].since = call[t].since
      /\ \A u \in Threads \ {t} : call'[u] = call[u]
  BY <1>1, <1>2 DEF Inv, ReadersOK, ReaderOK, MessageOK
<1>5. version[s] \in Nat /\ Settled(s) = version[s] /\ Settled(s)' = version[s]
  BY <1>2, <1>3 DEF RoomInv, Settled
<1>6. LookUpImp(c, s)[1] = s /\ LookUpImp(c, s)[2] >= version[s] /\ LookUpImp(c, s)[2] \in Nat
  <2>1. CASE LookUpImp(c, s) = <<s, version[s]>>
    BY <1>5, <2>1
  <2>2. CASE \E d \in Classes : LookUpImp(c, s) = CacheGetImp(d, s) /\ CacheGetImp(d, s) # NoImp
    <3>1. PICK d \in Classes : LookUpImp(c, s) = CacheGetImp(d, s) /\ CacheGetImp(d, s) # NoImp
      BY <2>2
    <3>2. Oldest(d, s) = version[s]
      BY <1>2 DEF Oldest, Unflushed
    <3>3. LookUpImp(c, s) \in ImpType
      BY LookUpImpType
    <3> QED  BY <3>1, <3>2, <3>3, CacheGetImpFresh DEF ImpType
  <2> QED  BY <2>1, <2>2, LookUpImpType
<1>7. HolderFresh'
  BY <1>2, <1>3, <1>4, <1>6 DEF HolderFresh
<1>8. call[t].since \in Nat /\ call[t].since <= version[s]
  BY <1>1, <1>2, <1>5 DEF FreshInv, MessageFresh
<1>9. MessageFresh(call[t])'
  BY <1>3, <1>4, <1>5, <1>6, <1>8 DEF MessageFresh, Current, Reading, Settled
<1>10. EntriesOK' /\ ArraysFresh
  <2>1. ASSUME NEW d \in Classes, NEW z \in Selectors PROVE Oldest(d, z)' <= Oldest(d, z)
    BY <1>2, <1>3 DEF Oldest, Unflushed, RoomInv
  <2> QED  BY <1>2, <2>1, EntriesStill
<1>11. SettledGrows
  BY <1>2, <1>3, SettledKept
<1> QED  BY <1>4, <1>7, <1>9, <1>10, <1>11, OthersFresh DEF FreshInv

LEMMA BeginFresh ==
  ASSUME Inv, RoomInv, RoomInv', FreshInv, NEW t \in Threads, NEW op \in {"change", "flush"}, NEW s,
         Begin(t, op, s), op = "change" => s \in Selectors,
         \A z \in Selectors : version'[z] = IF op = "change" /\ z = s THEN version[z] + 1 ELSE version[z]
  PROVE  FreshInv'
<1>1. /\ work.pc = "none" /\ work.op = "none" /\ UNCHANGED <<heap, cache>>
      /\ call' = [call EXCEPT ![t].pc = op]
  BY DEF Begin, Inv, WorkOK, FreshInv, HolderFresh
<1>2. work'.op = op /\ work'.pc = "flush" /\ work'.sel = s /\ work'.todo = Classes
  BY DEF Begin, NoWork
<1>3. call'[t].pc = op /\ \A u \in Threads \ {t} : call'[u] = call[u]
  BY <1>1 DEF Inv, ReadersOK, ReaderOK, MessageOK
<1>4. HolderFresh'
  BY <1>2 DEF HolderFresh
<1>5. ASSUME NEW c \in Classes, NEW z \in Selectors
      PROVE  Oldest(c, z)' <= Oldest(c, z) /\ Settled(z) <= Settled(z)'
  <2>1. version[z] \in Nat
    BY DEF RoomInv
  <2>2. Settled(z) = version[z] /\ Oldest(c, z) = version[z]
    BY <1>1, <2>1 DEF Settled, Oldest, Unflushed
  <2>3. Settled(z)' = version[z] /\ Oldest(c, z)' = version[z]
    <3>1. CASE op = "change" /\ z = s
      BY <1>2, <2>1, <3>1 DEF Settled, Oldest, Unflushed
    <3>2. CASE ~(op = "change" /\ z = s)
      BY <1>2, <2>1, <3>2 DEF Settled, Oldest, Unflushed
    <3> QED  BY <3>1, <3>2
  <2> QED  BY <2>1, <2>2, <2>3
<1>6. SettledGrows
  <2> SUFFICES ASSUME NEW z \in Selectors PROVE Settled(z) <= Settled(z)'
    BY DEF SettledGrows
  <2>1. version[z] \in Nat /\ Settled(z) = version[z] /\ Settled(z)' = version[z]
    BY <1>1, <1>2 DEF Settled, RoomInv
  <2> QED  BY <2>1
<1>7. EntriesOK' /\ ArraysFresh
  BY <1>1, <1>5, EntriesStill
<1>8. MessageFresh(call[t])'
  BY <1>3 DEF MessageFresh, Reading
<1> QED  BY <1>3, <1>4, <1>6, <1>7, <1>8, OthersFresh DEF FreshInv

\* Steps that free no array that a message reads.
LEMMA ReadArrays ==
  ASSUME Inv, NEW b \in Buffers, Read(b)
  PROVE  heap[b] # NoBuckets
BY BuffersAssumption DEF Read, Inv, ReadersOK, ReaderOK, Empty

LEMMA StoreBucketsFresh ==
  ASSUME Inv, RoomInv, RoomInv', FreshInv, StoreBuckets
  PROVE  FreshInv'
<1>1. /\ work.pc = "buckets" /\ UNCHANGED <<version, lock, call>>
      /\ work' = [work EXCEPT !.pc = "mask"] /\ work \in WorkType /\ work.cls \in Classes
      /\ cache \in [Classes -> [buckets : Buffers \cup {Empty}, mask : Nat, occupied : Nat]]
      /\ work.size >= 3 /\ work.size \in Nat
  BY DEF StoreBuckets, Inv, WorkOK, CacheOK, RoomInv, HolderOK, WorkType
<1>2. /\ work'.pc = "mask" /\ work'.op = work.op /\ work'.cls = work.cls /\ work'.sel = work.sel
      /\ work'.todo = work.todo
  BY <1>1 DEF WorkType
<1>3. HolderFresh' /\ SettledGrows
  <2>1. SettledGrows
    <3>1. version' = version
      BY <1>1
    <3> QED  BY <1>2, <3>1, SettledKept
  <2> QED  BY <1>1, <1>2, <2>1 DEF FreshInv, HolderFresh
<1>4. PICK b \in Buffers \cup {Empty} :
        /\ cache' = [cache EXCEPT ![work.cls].buckets = b]
        /\ b # Empty => /\ heap[b] = NoBuckets /\ heap'[b] = AllocateBuckets(work.size)
        /\ \A e \in Buffers : e # b => heap'[e] = heap[e]
  <2>1. CASE work.op = "insert"
    <3>1. Malloc \in Buffers /\ heap[Malloc] = NoBuckets
      BY <1>1, <2>1 DEF Malloc, Inv, WorkOK
    <3>2. heap = [e \in Buffers |-> heap[e]]
      BY DEF Inv, HeapOK
    <3> HIDE DEF Malloc
    <3> QED  BY <2>1, <3>1, <3>2 DEF StoreBuckets
  <2>2. CASE work.op # "insert"
    BY <2>2 DEF StoreBuckets
  <2> QED  BY <2>1, <2>2
<1>5. \A e \in Buffers : heap[e] # NoBuckets => heap'[e] = heap[e]
  BY <1>4, BuffersAssumption DEF Empty
<1>6. ArraysFresh
  BY <1>5, ReadArrays DEF ArraysFresh
<1>7. ASSUME NEW d \in Classes PROVE ClassFresh(d)'
  <2>1. CASE d = work.cls
    <3>1. cache'[d].buckets = b
      BY <1>1, <1>4, <2>1
    <3>2. b # Empty => \A i \in DOMAIN heap'[b] : heap'[b][i].sel \in {0, 1}
      BY <1>1, <1>4, AllocatedFacts
    <3> QED  BY <3>1, <3>2, ClassUnused DEF Array
  <2>2. CASE d # work.cls
    <3>1. cache'[d] = cache[d]
      BY <1>1, <1>4, <2>2
    <3>2. cache[d].buckets # Empty => heap[cache[d].buckets] # NoBuckets /\ cache[d].buckets \in Buffers
      BY EndsFacts DEF Inv, CacheOK
    <3>3. cache'[d].buckets # Empty => Array(d)' = Array(d)
      BY <1>5, <3>1, <3>2 DEF Array
    <3>4. \A s \in Selectors : Oldest(d, s)' <= Oldest(d, s)
      BY <1>1, <1>2, <2>2, SettledFacts DEF Oldest, Unflushed
    <3> QED  BY <3>1, <3>3, <3>4, ClassKept
  <2> QED  BY <2>1, <2>2
<1> QED  BY <1>1, <1>3, <1>6, <1>7, MessageKept DEF FreshInv, EntriesOK

LEMMA StoreMaskFresh ==
  ASSUME Inv, RoomInv, RoomInv', FreshInv, StoreMask
  PROVE  FreshInv'
<1>1. /\ work.pc = "mask" /\ UNCHANGED <<heap, version, lock, call>>
      /\ cache' = [cache EXCEPT ![work.cls].mask = work.size - 1, ![work.cls].occupied = 0]
      /\ work \in WorkType /\ work.cls \in Classes /\ work.size \in Nat
      /\ cache \in [Classes -> [buckets : Buffers \cup {Empty}, mask : Nat, occupied : Nat]]
  BY DEF StoreMask, Inv, WorkOK, CacheOK, WorkType
<1>2. /\ work'.op = work.op /\ work'.cls = work.cls /\ work'.sel = work.sel
      /\ work'.todo = work.todo /\ work'.pc \in {"collect", "fill", "flush"}
  BY <1>1 DEF StoreMask, Continue, WorkType
<1>3. HolderFresh' /\ SettledGrows
  <2>1. version' = version
    BY <1>1
  <2>2. SettledGrows
    BY <1>2, <2>1, SettledKept
  <2> QED  BY <1>1, <1>2, <2>2 DEF FreshInv, HolderFresh
<1>4. ArraysFresh
  BY <1>1 DEF ArraysFresh
<1>5. ASSUME NEW d \in Classes PROVE ClassFresh(d)'
  <2>1. cache'[d].buckets = cache[d].buckets /\ (d # work.cls => cache'[d].mask = cache[d].mask)
    BY <1>1
  <2>2. Array(d)' = Array(d)
    BY <1>1, <2>1 DEF Array
  <2>3. CASE d = work.cls
    <3>1. work.op # "insert" => cache[d].buckets = Empty
      BY <1>1, <2>3 DEF Inv, WorkOK
    <3>2. ASSUME work.op = "insert"
          PROVE  \A i \in DOMAIN Array(d) : Array(d)[i].sel \in {0, 1}
      <4>1. cache[d].buckets # Empty /\ Ends(Array(d), work.size)
        BY <1>1, <2>3, <3>2 DEF Inv, WorkOK, Array
      <4>2. Used(Array(d)) = {work.size - 1}
        BY <1>1, <2>3, <3>2, <4>1 DEF RoomInv, RoomOK, Installing
      <4> QED  BY <4>1, <4>2 DEF Used, Ends
    <3> QED  BY <2>1, <2>2, <3>1, <3>2, ClassUnused
  <2>4. CASE d # work.cls
    <3>1. \A s \in Selectors : Oldest(d, s)' <= Oldest(d, s)
      BY <1>1, <1>2, <2>4, SettledFacts DEF Oldest, Unflushed
    <3> QED  BY <2>1, <2>2, <2>4, <3>1, ClassKept
  <2> QED  BY <2>3, <2>4
<1> QED  BY <1>1, <1>3, <1>4, <1>5, MessageKept DEF FreshInv, EntriesOK

\* The first scan that reaches a bucket that is being filled is the holder's.
LEMMA FillFresh ==
  ASSUME Inv, RoomInv, RoomInv', FreshInv, Fill
  PROVE  FreshInv'
<1> DEFINE c == work.cls
           b == cache[c].buckets
           mask == cache[c].mask
<1>1. work.pc = "fill" /\ version' = version /\ lock \in Threads /\ work.op = "insert"
  BY FillArray DEF Fill, RoomInv, HolderOK
<1>2. ASSUME NEW i, Filling(i)
      PROVE  FreshInv'
  <2>1. /\ work'.pc = "sel" /\ work'.op = "insert" /\ work'.sel = work.sel /\ work'.cls = c
        /\ UNCHANGED <<lock, call>>
    BY <1>2 DEF Filling
  <2>2. /\ DOMAIN heap'[b] = DOMAIN heap[b] /\ heap[b][i].sel = 0 /\ heap'[b][i].sel = 0
        /\ heap'[b][i].imp = call[lock].imp
        /\ \A j : j # i => heap'[b][j] = heap[b][j]
        /\ \A e \in Buffers : e # b => heap'[e] = heap[e]
        /\ i \in Places(heap[b], mask, work.sel)
    BY <1>2 DEF Filling
  <2>3. SettledGrows
    BY <1>1, <2>1, SettledKept
  <2>4. ArraysFresh
    <3>1. 0 \notin Selectors
      BY SelectorsAssumption
    <3>2. \A j : heap'[b][j] = heap[b][j] \/ FilledFresh(heap[b][j], heap'[b][j])
      BY <2>2, <3>1 DEF FilledFresh
    <3> HIDE DEF b
    <3> QED  BY <2>2, <3>2 DEF ArraysFresh
  <2>5. \A j : heap'[b][j].sel = heap[b][j].sel \/ heap[b][j].sel = 0
    BY <2>2
  <2>6. HolderFresh'
    <3>1. i \in Places(heap'[b], mask, work.sel)
      <4>1. heap'[b][i].sel \in {0, work.sel}
        BY <2>2
      <4> HIDE DEF b, mask
      <4> QED  BY <2>2, <2>5, <4>1, PlaceKept
    <3>2. ASSUME NEW j \in Places(heap'[b], mask, work.sel) PROVE heap'[b][j].imp = call[lock].imp
      <4>1. j = i
        BY <3>1, <3>2, PlaceUnique
      <4> QED  BY <2>2, <4>1
    <3>3. Array(c)' = heap'[b] /\ cache'[c].mask = mask
      BY <1>1, <1>2, FillArray DEF Array, Filling
    <3>4. call[lock].imp[1] = work.sel /\ call[lock].imp[2] >= version[work.sel]
      BY <1>1 DEF FreshInv, HolderFresh
    <3> HIDE DEF b, mask
    <3> QED  BY <1>1, <2>1, <3>2, <3>3, <3>4 DEF HolderFresh
  <2>7. ASSUME NEW d \in Classes PROVE ClassFresh(d)'
    <3>1. \A s \in Selectors : version[s] \in Nat /\ Oldest(d, s)' = version[s] /\ Oldest(d, s) = version[s]
      BY <1>1, <2>1 DEF Oldest, Unflushed, RoomInv
    <3>2. cache'[d].buckets = cache[d].buckets /\ cache'[d].mask = cache[d].mask
      BY <1>2 DEF Filling
    <3>3. CASE d # c
      <4>1. cache[d].buckets # b /\ cache[d].buckets \in Buffers \cup {Empty}
        BY <1>1, <3>3, FillArray
      <4>2. cache[d].buckets # Empty => Array(d)' = Array(d)
        BY <2>2, <3>2, <4>1 DEF Array
      <4>3. \A s \in Selectors : Oldest(d, s)' <= Oldest(d, s)
        BY <3>1
      <4> QED  BY <3>2, <4>2, <4>3, ClassKept
    <3>4. CASE d = c
      <4>1. Array(d)' = heap'[b] /\ Array(d) = heap[b]
        BY <3>2, <3>4 DEF Array
      <4> SUFFICES ASSUME NEW s \in Selectors, NEW j \in DOMAIN heap'[b], heap'[b][j].sel = s
                   PROVE  /\ heap'[b][j].imp[1] = s
                          /\ heap'[b][j].imp[2] >= Oldest(d, s)'
                          /\ j \in Places(heap'[b], cache[d].mask, s)
        <5> HIDE DEF b
        <5> QED  BY <3>2, <4>1 DEF ClassFresh, Oldest, Unflushed
      <4>2. s = heap'[b][j].sel
        OBVIOUS
      <4>3. j # i /\ j \in DOMAIN heap[b] /\ heap[b][j] = heap'[b][j] /\ b # Empty
        BY <1>1, <2>2, SelectorsAssumption, FillArray
      <4>4. /\ heap'[b][j].imp[1] = s /\ heap'[b][j].imp[2] >= version[s]
            /\ j \in Places(heap[b], cache[d].mask, s)
        BY <3>1, <3>4, <4>1, <4>2, <4>3 DEF FreshInv, EntriesOK, ClassFresh
      <4>5. heap'[b][j].sel \in {0, s}
        BY <4>2
      <4>6. j \in Places(heap'[b], cache[d].mask, s)
        <5> HIDE DEF b
        <5> QED  BY <2>5, <4>4, <4>5, PlaceKept
      <4>7. Oldest(d, s)' = version[s]
        BY <3>1
      <4> QED  BY <4>4, <4>6, <4>7
    <3> QED  BY <3>3, <3>4
  <2> QED  BY <2>1, <2>3, <2>4, <2>6, <2>7, MessageKept DEF FreshInv, EntriesOK
<1>3. CASE UNCHANGED <<heap, cache>> /\ Unlock(NoMessage)
  <2>1. work'.op = "none" /\ work'.pc = "none" /\ HolderFresh'
    BY <1>3 DEF Unlock, NoWork, HolderFresh
  <2>2. ASSUME NEW d \in Classes, NEW s \in Selectors PROVE Oldest(d, s)' <= Oldest(d, s)
    BY <1>1, <2>1 DEF Oldest, Unflushed, RoomInv
  <2>3. EntriesOK' /\ ArraysFresh
    BY <1>3, <2>2, EntriesStill
  <2>4. SettledGrows
    BY <1>1, <2>1, SettledKept
  <2>5. call'[lock] = NoMessage /\ \A u \in Threads \ {lock} : call'[u] = call[u]
    BY <1>1, <1>3 DEF Unlock, Inv, ReadersOK
  <2>6. ASSUME NEW u \in Threads PROVE MessageFresh(call[u])'
    <3>1. CASE u = lock
      BY <2>5, <3>1 DEF MessageFresh, NoMessage, Reading
    <3>2. CASE u # lock
      BY <2>3, <2>4, <2>5, <3>2, MessageKept
    <3> QED  BY <3>1, <3>2
  <2> QED  BY <2>1, <2>3, <2>6 DEF FreshInv
<1> QED  BY <1>2, <1>3, FillStep

\* The holder lets go, or turns to something else, and the caches stay.
LEMMA UnlockFresh ==
  ASSUME Inv, RoomInv, RoomInv', FreshInv, EntriesOK', ArraysFresh, version' = version,
         lock \in Threads, NEW r, r.pc \in {"idle", "collect"}, Unlock(r)
  PROVE  FreshInv'
<1>1. work'.op = "none" /\ work'.pc = "none" /\ HolderFresh'
  BY DEF Unlock, NoWork, HolderFresh
<1>2. SettledGrows
  BY <1>1, SettledKept
<1>3. call'[lock] = r /\ \A u \in Threads \ {lock} : call'[u] = call[u]
  BY DEF Unlock, Inv, ReadersOK
<1>4. ASSUME NEW u \in Threads PROVE MessageFresh(call[u])'
  <2>1. CASE u = lock
    BY <1>3, <2>1 DEF MessageFresh, Reading
  <2>2. CASE u # lock
    BY <1>2, <1>3, <2>2, MessageKept
  <2> QED  BY <2>1, <2>2
<1> QED  BY <1>1, <1>4 DEF FreshInv

LEMMA StoreSelFresh ==
  ASSUME Inv, RoomInv, RoomInv', FreshInv, StoreSel
  PROVE  FreshInv'
<1> DEFINE c == work.cls
           b == cache[c].buckets
           mask == cache[c].mask
<1>1. /\ work.pc = "sel" /\ version' = version /\ cache' = cache /\ Unlock(NoMessage)
      /\ work.op = "insert" /\ lock \in Threads /\ work.sel \in Selectors
  BY FillArray DEF StoreSel, RoomInv, HolderOK
<1>2. PICK i \in Places(heap[b], mask, work.sel) :
        /\ heap[b][i].sel = 0 /\ DOMAIN heap'[b] = DOMAIN heap[b]
        /\ heap'[b][i].sel = work.sel /\ heap'[b][i].imp = heap[b][i].imp
        /\ \A j : j # i => heap'[b][j] = heap[b][j]
        /\ \A e \in Buffers : e # b => heap'[e] = heap[e]
  BY StoreSelArray
<1>3. heap'[b][i].imp[1] = work.sel /\ heap'[b][i].imp[2] >= version[work.sel]
  BY <1>1, <1>2 DEF FreshInv, HolderFresh, Array
<1>4. ArraysFresh
  <2>1. FilledFresh(heap[b][i], heap'[b][i])
    BY <1>2, <1>3 DEF FilledFresh
  <2>2. \A j : heap'[b][j] = heap[b][j] \/ FilledFresh(heap[b][j], heap'[b][j])
    BY <1>2, <2>1
  <2> HIDE DEF b
  <2> QED  BY <1>2, <2>2 DEF ArraysFresh
<1>5. \A j : heap'[b][j].sel = heap[b][j].sel \/ heap[b][j].sel = 0
  BY <1>2
<1>6. ASSUME NEW d \in Classes PROVE ClassFresh(d)'
  <2>1. \A s \in Selectors : version[s] \in Nat /\ Oldest(d, s)' = version[s] /\ Oldest(d, s) = version[s]
    BY <1>1 DEF Oldest, Unflushed, RoomInv, Unlock, NoWork
  <2>2. CASE d # c
    <3>1. cache[d].buckets # b /\ cache[d].buckets \in Buffers \cup {Empty}
      BY <1>1, <2>2, FillArray
    <3>2. cache[d].buckets # Empty => Array(d)' = Array(d)
      BY <1>1, <1>2, <3>1 DEF Array
    <3>3. \A s \in Selectors : Oldest(d, s)' <= Oldest(d, s)
      BY <2>1
    <3> QED  BY <1>1, <3>2, <3>3, ClassKept
  <2>3. CASE d = c
    <3>1. Array(d)' = heap'[b] /\ Array(d) = heap[b] /\ b # Empty
      BY <1>1, <2>3, FillArray DEF Array
    <3> SUFFICES ASSUME NEW s \in Selectors, NEW j \in DOMAIN heap'[b], heap'[b][j].sel = s
                 PROVE  /\ heap'[b][j].imp[1] = s
                        /\ heap'[b][j].imp[2] >= Oldest(d, s)'
                        /\ j \in Places(heap'[b], cache[d].mask, s)
      <4> HIDE DEF b
      <4> QED  BY <1>1, <3>1 DEF ClassFresh, Oldest, Unflushed
    <3>2. /\ heap'[b][j].imp[1] = s /\ heap'[b][j].imp[2] >= version[s]
          /\ j \in Places(heap[b], cache[d].mask, s)
      <4>1. CASE j = i
        BY <1>2, <1>3, <2>3, <4>1
      <4>2. CASE j # i
        <5>1. j \in DOMAIN heap[b] /\ heap[b][j] = heap'[b][j]
          BY <1>2, <4>2
        <5> QED  BY <2>1, <2>3, <3>1, <5>1 DEF FreshInv, EntriesOK, ClassFresh
      <4> QED  BY <4>1, <4>2
    <3>3. heap'[b][j].sel \in {0, s}
      OBVIOUS
    <3>4. j \in Places(heap'[b], cache[d].mask, s)
      <4> HIDE DEF b
      <4> QED  BY <1>5, <3>2, <3>3, PlaceKept
    <3>5. Oldest(d, s)' = version[s]
      BY <2>1
    <3> QED  BY <3>2, <3>4, <3>5
  <2> QED  BY <2>2, <2>3
<1>7. NoMessage.pc = "idle"
  BY DEF NoMessage
<1> QED  BY <1>1, <1>4, <1>6, <1>7, UnlockFresh DEF EntriesOK

\* What a change looks at and does not erase holds nothing old: the old
\* implementation would be found.
LEMMA FlushClassFresh ==
  ASSUME ~SignalledFlush, Inv, RoomInv, RoomInv', FreshInv, NEW c \in Classes, FlushClass(c)
  PROVE  FreshInv'
<1>1. /\ work.pc = "flush" /\ UNCHANGED <<heap, cache, version, lock, call>> /\ work \in WorkType
      /\ work.op # "insert"
  BY DEF FlushClass, Inv, WorkOK
<1>2. /\ work'.op = work.op /\ work'.sel = work.sel /\ work'.todo = work.todo \ {c}
      /\ \/ work'.pc = "buckets" /\ work'.cls = c
         \/ /\ work'.pc = "flush"
            /\ work.op = "change" =>
                 \/ ~(cache[c].occupied > 0)
                 \/ CacheGetImp(c, work.sel) # <<work.sel, version[work.sel] - 1>>
  BY <1>1 DEF FlushClass, ShouldFlush, Erases, WorkType
<1>3. HolderFresh' /\ SettledGrows
  <2>1. SettledGrows
    BY <1>1, <1>2, SettledKept
  <2> QED  BY <1>1, <1>2, <2>1 DEF FreshInv, HolderFresh
<1>4. ArraysFresh
  BY <1>1 DEF ArraysFresh
<1>5. \A d \in Classes : Array(d)' = Array(d)
  BY <1>1 DEF Array
<1>6. ASSUME NEW d \in Classes, NEW s \in Selectors, Unflushed(d, s)' \/ ~Unflushed(d, s)
      PROVE  Oldest(d, s)' <= Oldest(d, s)
  BY <1>1, <1>2, <1>6 DEF Oldest, Unflushed, RoomInv
<1>7. ASSUME NEW d \in Classes PROVE ClassFresh(d)'
  <2>1. CASE \A s \in Selectors : Unflushed(d, s)' \/ ~Unflushed(d, s)
    BY <1>1, <1>5, <1>6, <2>1, ClassKept
  <2>2. CASE \E s \in Selectors : ~Unflushed(d, s)' /\ Unflushed(d, s)
    <3>1. /\ d = c /\ work.op = "change" /\ work'.pc = "flush" /\ work.sel \in Selectors
          /\ \A s \in Selectors : Oldest(d, s)' = version[s]
      BY <1>1, <1>2, <2>2 DEF Oldest, Unflushed
    <3> SUFFICES ASSUME cache[c].buckets # Empty, NEW s \in Selectors, NEW i \in DOMAIN Array(c),
                        Array(c)[i].sel = s
                 PROVE  /\ Array(c)[i].imp[1] = s
                        /\ Array(c)[i].imp[2] >= version[s]
                        /\ i \in Places(Array(c), cache[c].mask, s)
      BY <1>1, <1>5, <3>1 DEF ClassFresh, Oldest, Unflushed
    <3>2. /\ Array(c)[i].imp[1] = s /\ Array(c)[i].imp[2] >= Oldest(c, s)
          /\ i \in Places(Array(c), cache[c].mask, s)
      BY DEF FreshInv, EntriesOK, ClassFresh
    <3>3. version[s] \in Nat
      BY DEF RoomInv
    <3>4. Array(c)[i] \in BucketType /\ Array(c)[i].imp[2] \in Nat
      <4>1. cache[c].buckets \in Buffers
        BY DEF Inv, CacheOK
      <4>2. Array(c)[i] \in BucketType
        BY <4>1 DEF RoomInv, BucketsOK, Array
      <4> QED  BY <4>2 DEF BucketType, ImpType
    <3>5. CASE s # work.sel
      BY <3>2, <3>5 DEF Oldest, Unflushed
    <3>6. CASE s = work.sel
      <4>1. Array(c)[i].imp[2] >= version[s] - 1
        BY <3>2, <3>3, <3>4 DEF Oldest
      <4>2. CASE ~(cache[c].occupied > 0)
        <5>1. cache[c].occupied = 0 /\ ~Installing(c)
          BY <1>1, <4>2 DEF Inv, CacheOK, Installing
        <5>2. Cardinality(Used(Array(c))) <= 1
          <6>1. Cardinality(Used(Array(c))) <= cache[c].occupied + 1
            BY <1>1, <5>1 DEF RoomInv, RoomOK
          <6> QED  BY <5>1, <6>1
        <5>3. PICK n \in Nat : Ends(Array(c), n)
          BY DEF Inv, CacheOK, Array
        <5>4. i = n - 1
          BY <5>2, <5>3, UsedFinite, SelectorsAssumption
        <5> QED  BY <5>3, <5>4, SelectorsAssumption DEF Ends
      <4>3. CASE CacheGetImp(c, work.sel) # <<work.sel, version[work.sel] - 1>>
        <5>1. Array(c)[i].imp # <<s, version[s] - 1>>
          BY <3>6, <4>3, CacheGetImpFinds
        <5>2. Array(c)[i].imp = <<Array(c)[i].imp[1], Array(c)[i].imp[2]>>
          BY <3>4 DEF BucketType, ImpType
        <5>3. Array(c)[i].imp[2] # version[s] - 1
          BY <3>2, <5>1, <5>2
        <5> QED  BY <3>2, <3>3, <3>4, <4>1, <5>3
      <4> QED  BY <1>2, <3>1, <4>2, <4>3
    <3> QED  BY <3>5, <3>6
  <2> QED  BY <2>1, <2>2
<1> QED  BY <1>1, <1>3, <1>4, <1>7, MessageKept DEF FreshInv, EntriesOK

LEMMA FlushedFresh ==
  ASSUME Inv, RoomInv, RoomInv', FreshInv, Flushed
  PROVE  FreshInv'
<1>1. /\ work.pc = "flush" /\ work.todo = {} /\ UNCHANGED <<heap, cache, version>>
      /\ lock \in Threads
  BY DEF Flushed, Inv, WorkOK
<1>2. PICK r : r.pc \in {"idle", "collect"} /\ Unlock(r)
  BY DEF Flushed, NoMessage
<1>3. ASSUME NEW d \in Classes, NEW s \in Selectors PROVE Oldest(d, s)' <= Oldest(d, s)
  BY <1>1, <1>2 DEF Oldest, Unflushed, RoomInv, Unlock, NoWork
<1>4. EntriesOK' /\ ArraysFresh
  BY <1>1, <1>3, EntriesStill
<1> QED  BY <1>1, <1>2, <1>4, UnlockFresh

LEMMA CollectALotFresh ==
  ASSUME Inv, RoomInv, RoomInv', FreshInv, NEW t \in Threads, CollectALot(t)
  PROVE  FreshInv'
<1>1. /\ work.pc = "none" /\ work.op = "none" /\ UNCHANGED <<heap, cache, version, call>>
      /\ work'.op = "collect" /\ work'.pc = "collect"
  BY DEF CollectALot, Inv, WorkOK, NoWork, FreshInv, HolderFresh
<1>2. ASSUME NEW d \in Classes, NEW s \in Selectors PROVE Oldest(d, s)' <= Oldest(d, s)
  BY <1>1 DEF Oldest, Unflushed, RoomInv
<1>3. EntriesOK' /\ ArraysFresh
  BY <1>1, <1>2, EntriesStill
<1>4. SettledGrows
  BY <1>1, SettledKept
<1>5. HolderFresh'
  BY <1>1 DEF HolderFresh
<1> QED  BY <1>1, <1>3, <1>4, <1>5, MessageKept DEF FreshInv

LEMMA CheckThreadFresh ==
  ASSUME Inv, RoomInv, RoomInv', FreshInv, NEW t \in Threads, CheckThread(t)
  PROVE  FreshInv'
<1>1. /\ work.pc = "collect" /\ UNCHANGED <<heap, cache, version, lock>> /\ work \in WorkType
  BY DEF CheckThread, Inv, WorkOK
<1>2. /\ work'.op = work.op /\ work'.cls = work.cls /\ work'.sel = work.sel
      /\ work'.todo = work.todo /\ work'.pc \in {"collect", "fill", "flush"}
  BY <1>1 DEF CheckThread, Continue, WorkType
<1>3. \/ call' = call
      \/ InCritical(t) /\ call' = [call EXCEPT ![t] = Missed(call[t])]
  BY DEF CheckThread
<1>4. call = [u \in Threads |-> call[u]]
  BY DEF Inv, ReadersOK
<1>5. work.op = "insert" => call'[lock] = call[lock]
  <2>1. work.op = "insert" => lock \in Threads /\ call[lock].pc = "fill"
    BY DEF RoomInv, HolderOK
  <2>2. InCritical(t) /\ work.op = "insert" => t # lock
    BY <2>1 DEF InCritical
  <2> QED  BY <1>3, <1>4, <2>1, <2>2
<1>6. HolderFresh'
  BY <1>1, <1>2, <1>5 DEF FreshInv, HolderFresh
<1>7. ASSUME NEW d \in Classes, NEW s \in Selectors PROVE Oldest(d, s)' <= Oldest(d, s)
  BY <1>1, <1>2 DEF Oldest, Unflushed, RoomInv
<1>8. EntriesOK' /\ ArraysFresh
  BY <1>1, <1>7, EntriesStill
<1>9. SettledGrows
  BY <1>1, <1>2, SettledKept
<1>10. ASSUME NEW u \in Threads PROVE MessageFresh(call[u])'
  <2>1. CASE call'[u] = call[u]
    BY <1>8, <1>9, <2>1, MessageKept
  <2>2. CASE call'[u] # call[u]
    <3>1. InCritical(t) /\ u = t /\ call'[t] = Missed(call[t])
      BY <1>3, <1>4, <2>2
    <3>2. PICK r : r = Missed(call[t])
      OBVIOUS
    <3>3. MessageFresh(r) /\ r.pc = "lookup"
      <4>1. MessageFresh(call[t]) /\ call[t].pc \in {"buckets"} \cup Reading
        BY <3>1 DEF FreshInv, InCritical, Reading
      <4>2. r.pc = "lookup"
        BY <3>2 DEF Missed, NoMessage
      <4> QED  BY <3>2, <4>1, <4>2, MissedFresh
    <3>4. Settled(r.sel)' = Settled(r.sel)
      BY <1>1, <1>2 DEF Settled
    <3>5. MessageFresh(r)'
      BY <3>3, <3>4 DEF MessageFresh, Reading
    <3> QED  BY <3>1, <3>2, <3>5 DEF MessageFresh, Current, Settled
  <2> QED  BY <2>1, <2>2
<1> QED  BY <1>6, <1>8, <1>10 DEF FreshInv

LEMMA FreeGarbageFresh ==
  ASSUME Inv, RoomInv, RoomInv', FreshInv, FreeGarbage
  PROVE  FreshInv'
<1>1. /\ work.pc = "collect" /\ work.unchecked = {} /\ UNCHANGED <<cache, version>> /\ work \in WorkType
      /\ heap' = [b \in Buffers |-> IF b \in garbage THEN NoBuckets ELSE heap[b]]
      /\ lock \in Threads
  BY DEF FreeGarbage, Inv, WorkOK
<1>2. ArraysFresh
  <2>1. ASSUME NEW b \in Buffers, Read(b) PROVE heap'[b] = heap[b]
    BY <1>1, <2>1 DEF Read, Inv, Checked
  <2> QED  BY <2>1 DEF ArraysFresh
<1>3. \A c \in Classes : cache[c].buckets # Empty => Array(c)' = Array(c)
  BY <1>1 DEF Inv, CacheOK, GarbageOK, Discarded, Array
<1>4. CASE Unlock(NoMessage) /\ work.op = "collect"
  <2>1. \A d \in Classes, s \in Selectors : Oldest(d, s)' <= Oldest(d, s)
    BY <1>1, <1>4 DEF Oldest, Unflushed, RoomInv, Unlock, NoWork
  <2>2. EntriesOK'
    BY <1>1, <1>3, <2>1, ClassKept DEF EntriesOK
  <2>3. NoMessage.pc = "idle"
    BY DEF NoMessage
  <2> QED  BY <1>1, <1>2, <1>4, <2>2, <2>3, UnlockFresh
<1>5. CASE work' = Continue(work) /\ UNCHANGED <<lock, call>>
  <2>1. /\ work'.op = work.op /\ work'.cls = work.cls /\ work'.sel = work.sel
        /\ work'.todo = work.todo /\ work'.pc \in {"fill", "flush"}
    BY <1>1, <1>5 DEF Continue, WorkType
  <2>2. \A d \in Classes, s \in Selectors : Oldest(d, s)' <= Oldest(d, s)
    BY <1>1, <2>1 DEF Oldest, Unflushed, RoomInv
  <2>3. EntriesOK'
    BY <1>1, <1>3, <2>2, ClassKept DEF EntriesOK
  <2>4. HolderFresh'
    BY <1>1, <1>5, <2>1 DEF FreshInv, HolderFresh
  <2>5. SettledGrows
    BY <1>1, <2>1, SettledKept
  <2> QED  BY <1>2, <1>5, <2>3, <2>4, <2>5, MessageKept DEF FreshInv
<1> QED  BY <1>4, <1>5 DEF FreeGarbage

LEMMA FreshInvNext ==
  ASSUME ~SignalledFlush, Inv, RoomInv, RoomInv', FreshInv, [Next]_vars
  PROVE  FreshInv'
<1>1. CASE UNCHANGED vars
  <2>1. UNCHANGED <<heap, cache, version, lock, work, call>>
    BY <1>1 DEF vars
  <2>2. EntriesOK'
    BY <2>1 DEF FreshInv, EntriesOK, ClassFresh, Array, Oldest, Unflushed
  <2>3. HolderFresh'
    BY <2>1 DEF FreshInv, HolderFresh, Array
  <2>4. \A t \in Threads : MessageFresh(call[t])'
    BY <2>1 DEF FreshInv, MessageFresh, Current, Settled
  <2> QED  BY <2>2, <2>3, <2>4 DEF FreshInv
<1>2. ASSUME NEW t \in Threads, NEW s \in Selectors, SetImplementation(t, s)
      PROVE  FreshInv'
  <2>1. \A z \in Selectors : version'[z] = IF z = s THEN version[z] + 1 ELSE version[z]
    BY <1>2 DEF SetImplementation, RoomInv
  <2> QED  BY <1>2, <2>1, BeginFresh DEF SetImplementation
<1>3. ASSUME NEW t \in Threads, FlushCaches(t)
      PROVE  FreshInv'
  BY <1>3, BeginFresh DEF FlushCaches
<1>4. ASSUME NEW t \in Threads, Message(t)
      PROVE  FreshInv'
  BY <1>4, LoadBucketsFresh, CompareFresh, ScanFresh, LoadImpFresh, LookUpFresh, CollectALotFresh
     DEF Message
<1>5. CASE Holder
  BY <1>5, StoreBucketsFresh, StoreMaskFresh, FillFresh, StoreSelFresh, FlushClassFresh,
     CheckThreadFresh, FlushedFresh, FreeGarbageFresh DEF Holder
<1> QED  BY <1>1, <1>2, <1>3, <1>4, <1>5, SendFresh, SignalFresh DEF Next

\* No message calls an implementation that had been replaced before it was
\* sent, nor one of another selector: if no signal reaches a flush.
THEOREM MessagesAreFresh ==
  ASSUME ~SignalledFlush
  PROVE  Spec => []NeverStale
<1>1. Init => FreshInv
  <2> SUFFICES ASSUME Init PROVE FreshInv
    OBVIOUS
  <2>1. EntriesOK /\ HolderFresh
    BY DEF Init, EntriesOK, ClassFresh, HolderFresh, NoWork
  <2>2. \A t \in Threads : MessageFresh(call[t])
    BY QuietFresh DEF Init, NoMessage
  <2> QED  BY <2>1, <2>2 DEF FreshInv
<1>2. Inv /\ RoomInv /\ RoomInv' /\ FreshInv /\ [Next]_vars => FreshInv'
  BY FreshInvNext
<1>3. Inv /\ FreshInv => NeverStale
  <2> SUFFICES ASSUME Inv, FreshInv, NEW t \in Threads
               PROVE  /\ Is(t, "imp") => Current(call[t], At(call[t].buckets, call[t].i).imp)
                      /\ Is(t, "fill") => Current(call[t], call[t].imp)
    BY DEF NeverStale
  <2>1. MessageFresh(call[t]) /\ ReaderOK(call[t])
    BY DEF FreshInv, Inv, ReadersOK
  <2> QED  BY <2>1 DEF MessageFresh, ReaderOK, Is, At, Reading
<1> QED  BY <1>1, <1>2, <1>3, InvHolds, RoomHolds, PTL DEF Spec

(***************************************************************************)
(* The blocks of the allocator.                                            *)
(***************************************************************************)
Unowned(s) == held[s] = 0 /\ \A t \in Callers : th[t].slot # s

\* The values of free_count and of gen_count
FreeBits == 0 .. FreeCounts - 1
GenBits == 0 .. GenCounts - 1
WordFields == {"in_use", "free_count", "next_slot", "gen_count"}
WordOK(m) ==
  /\ m = [f \in WordFields |-> m[f]]
  /\ m.in_use \in BOOLEAN /\ m.free_count \in FreeBits
  /\ m.next_slot \in Int /\ m.gen_count \in GenBits
Cells == [guard : BOOLEAN, next : Int]
Fields ==
  {"at", "part", "cpu", "block", "old", "next", "orig", "found", "todo", "arena", "start",
   "limit", "initial", "slot", "drained"}
\* A call that has loaded a word from which it can allocate
LoadedOK(c) ==
  /\ CanAllocate(c.old) /\ (ReadsLink(c.old) => c.old.next_slot \in 1 .. Slots)
  /\ c.at = "read" => ReadsLink(c.old)
  /\ c.at = "swap" /\ ~ReadsLink(c.old) => c.next = SLOT_BUMP

FrameOK(c) ==
  /\ c = [f \in Fields |-> c[f]]
  /\ c.at \in {"idle", "missed", "locking", "try", "read", "swap", "raced", "enter", "scan",
              "grow", "full", "drop", "publish", "leave", "free", "drained", "madvise",
              "sweep", "madvising"}
  /\ c.part \in {"fast", "locked", "found"} /\ WordOK(c.old)
  /\ c.block \in Blocks \cup {NoBlock} /\ c.orig \in Blocks \cup {NoBlock}
  /\ c.found \subseteq Blocks /\ c.todo \subseteq Blocks /\ c.slot \in AllSlots \cup {NoSlot}
  /\ c.at \in {"missed", "locking", "try", "read", "swap", "raced", "enter", "scan", "grow",
              "drop", "publish", "leave"} => c.cpu \in CPUs
  /\ c.at \in {"try", "read", "swap", "raced", "drop", "publish", "madvising"} => c.block \in Blocks
  /\ c.at \in {"publish", "leave", "free"} <=> c.slot # NoSlot
  /\ c.at \in {"read", "swap"} => LoadedOK(c)

MetaOK == meta = [b \in Blocks |-> meta[b]] /\ \A b \in Blocks : WordOK(meta[b])
NanoType ==
  /\ MetaOK
  /\ mem \in [AllSlots -> Cells]
  /\ current \in [CPUs -> Blocks \cup {NoBlock}]
  /\ held \in [AllSlots -> {0, 1}]
  /\ th = [t \in Callers |-> th[t]]
  /\ \A t \in Callers : FrameOK(th[t])

OneOwner ==
  /\ \A t \in Callers : th[t].slot # NoSlot => held[th[t].slot] = 0
  /\ \A t, u \in Callers : th[t].slot = th[u].slot => t = u \/ th[t].slot = NoSlot

\* A block that was never taken into use, or has drained
Empties == {SLOT_NULL, SLOT_CAN_MADVISE, SLOT_MADVISING, SLOT_MADVISED}
Emptied(b) ==
  /\ meta[b].next_slot \in Empties /\ ~meta[b].in_use
  /\ \A i \in 1 .. Slots : Unowned(<<b, i>>)

\* L is the free list of b and has n slots.
Listing(b, n, L) ==
  /\ L \in [1 .. n -> 1 .. Slots]
  /\ \A i, j \in 1 .. n : L[i] = L[j] => i = j
  /\ \A i \in 1 .. n :
       mem[<<b, L[i]>>] = [guard |-> TRUE, next |-> IF i = n THEN SLOT_BUMP ELSE L[i + 1]]

\* The word m of a block with n slots on its list L and u that were never used;
\* when the last slot was freed the list is forgotten.
Counted(m, n, u, L) ==
  /\ n + u <= Slots /\ (n + u = Slots => n = 0)
  /\ IF n + u = 0 THEN m.next_slot = SLOT_FULL /\ m.free_count = FreeCounts - 1
     ELSE m.free_count = n + u - 1 /\ m.next_slot = IF n = 0 THEN SLOT_BUMP ELSE L[1]

\* The slots without an owner are those of the list and the last u.
Covered(b, n, u, L) ==
  /\ \A i \in 1 .. n : L[i] <= Slots - u
  /\ \A i \in 1 .. Slots :
       Unowned(<<b, i>>) <=> i > Slots - u \/ \E j \in 1 .. n : L[j] = i
Serving(b, n, u, L) == Listing(b, n, L) /\ Counted(meta[b], n, u, L) /\ Covered(b, n, u, L)
BlockOK(b) ==
  Emptied(b) \/ \E n, u \in 0 .. Slots : \E L \in [1 .. n -> 1 .. Slots] : Serving(b, n, u, L)

Unguarded == \A s \in AllSlots : Unowned(s) \/ ~mem[s].guard

MadviseOK ==
  /\ madviseLock \in Callers \cup {NoCaller}
  /\ \A t \in Callers : th[t].at \in {"sweep", "madvising"} <=> madviseLock = t
  /\ \A b \in Blocks : meta[b].next_slot = SLOT_MADVISING <=>
       \E t \in Callers : th[t].at = "madvising" /\ th[t].block = b

NanoInv ==
  /\ NanoType /\ OneOwner /\ (\A b \in Blocks : BlockOK(b)) /\ Unguarded /\ MadviseOK
  /\ lost = {}

\* Counting within the width of a field
LEMMA Remainders ==
  ASSUME NEW N \in Nat \ {0}
  PROVE  /\ \A a \in Int : a % N \in 0 .. N - 1
         /\ \A a \in 0 .. N - 1 : a % N = a
         /\ N % N = 0 /\ (-1) % N = N - 1
<1>1. \A a \in Int : a % N \in 0 .. N - 1
  OBVIOUS
<1>2. \A a \in 0 .. N - 1 : a % N = a
  OBVIOUS
<1>3. N % N = 0
  OBVIOUS
<1>4. (-1) % N = N - 1
  OBVIOUS
<1> QED
  BY <1>1, <1>2, <1>3, <1>4

LEMMA FreeBitsInt == \A x \in FreeBits : x \in Int /\ x + 1 \in Int /\ x - 1 \in Int
  BY NanoSizes DEF FreeBits
LEMMA FreeBitsUp == \A x \in FreeBits : x # FreeCounts - 1 => x + 1 \in FreeBits
  BY NanoSizes DEF FreeBits
LEMMA FreeBitsDown == \A x \in FreeBits : x # 0 => x - 1 \in FreeBits
  BY NanoSizes DEF FreeBits

\* Slots and the special values of next_slot differ.
LEMMA SlotNumbers ==
  /\ Slots \in Nat /\ Slots \in Int /\ Slots >= 2 /\ Slots - 1 # 0 /\ SLOT_BUMP \in Int
  /\ FreeCounts \in Nat /\ Slots <= FreeCounts
  /\ SLOT_BUMP \notin {SLOT_NULL, SLOT_FULL, SLOT_CAN_MADVISE, SLOT_MADVISING, SLOT_MADVISED}
  /\ \A i \in 1 .. Slots : i \in Nat /\ i \in Int /\ i # SLOT_BUMP
       /\ i \notin {SLOT_NULL, SLOT_FULL, SLOT_CAN_MADVISE, SLOT_MADVISING, SLOT_MADVISED}
  BY NanoSizes DEF SLOT_NULL, SLOT_BUMP, SLOT_FULL, SLOT_CAN_MADVISE, SLOT_MADVISING, SLOT_MADVISED

LEMMA BlockFacts ==
  /\ NoBlock \notin Blocks /\ \A a : BlocksOf(a) \subseteq Blocks
  /\ \A b \in Blocks, i \in 1 .. Slots : <<b, i>> \in AllSlots
  /\ \A s \in AllSlots : s[1] \in Blocks /\ s[2] \in 1 .. Slots /\ s = <<s[1], s[2]>>
  /\ NoSlot \notin AllSlots
<1>1. NoBlock \notin Blocks
  BY DEF NoBlock, Blocks
<1>2. \A a : BlocksOf(a) \subseteq Blocks
  BY DEF BlocksOf
<1>3. \A s \in AllSlots : s[1] \in Blocks /\ s[2] \in 1 .. Slots /\ s = <<s[1], s[2]>>
  BY DEF AllSlots
<1>4. NoSlot \notin AllSlots
  BY <1>1 DEF AllSlots, NoSlot, NoBlock
<1> QED
  BY <1>1, <1>2, <1>3, <1>4 DEF AllSlots

LEMMA WordParts ==
  ASSUME NEW m, WordOK(m)
  PROVE  /\ m.free_count \in FreeBits /\ m.next_slot \in Int /\ m.gen_count \in GenBits
         /\ m.free_count \in Int /\ m.free_count + 1 \in Int /\ m.free_count - 1 \in Int
         /\ m.gen_count + 1 \in Int
<1>1. m.free_count \in FreeBits
  BY DEF WordOK
<1>2. m.next_slot \in Int
  BY DEF WordOK
<1>3. m.gen_count \in GenBits
  BY DEF WordOK
<1>4. m.free_count \in Int
  BY <1>1, FreeBitsInt
<1>5. m.free_count + 1 \in Int
  BY <1>1, FreeBitsInt
<1>6. m.free_count - 1 \in Int
  BY <1>1, FreeBitsInt
<1>7. m.gen_count + 1 \in Int
  <2>1. \A g \in GenBits : g + 1 \in Int
    BY NanoSizes DEF GenBits
  <2> QED  BY <1>3, <2>1
<1> QED
  BY <1>1, <1>2, <1>3, <1>4, <1>5, <1>6, <1>7

\* What Word gives
WordIs(m, f, x, g) ==
  /\ WordOK(m) /\ m.next_slot = x
  /\ f \in FreeBits => m.free_count = f
  /\ f + 1 = 0 => m.free_count = FreeCounts - 1
  /\ f = FreeCounts => m.free_count = 0
  /\ m.gen_count = g % GenCounts

LEMMA WordFacts ==
  ASSUME NEW in_use \in BOOLEAN, NEW f \in Int, NEW x \in Int, NEW g \in Int
  PROVE  WordIs(Word(in_use, f, x, g), f, x, g) /\ Word(in_use, f, x, g).in_use = in_use
<1>0. FreeCounts \in Nat \ {0} /\ GenCounts \in Nat \ {0}
  BY NanoSizes
<1>1. f \in FreeBits => f % FreeCounts = f
  BY <1>0, Remainders DEF FreeBits
<1>2. f + 1 = 0 => f % FreeCounts = FreeCounts - 1
  <2>1. f + 1 = 0 => f = -1
    OBVIOUS
  <2> QED  BY <1>0, <2>1, Remainders
<1>3. f = FreeCounts => f % FreeCounts = 0
  BY <1>0, Remainders
<1>4. f % FreeCounts \in FreeBits /\ g % GenCounts \in GenBits
  BY <1>0, Remainders DEF FreeBits, GenBits
<1>5. /\ Word(in_use, f, x, g).in_use = in_use /\ Word(in_use, f, x, g).next_slot = x
      /\ Word(in_use, f, x, g).free_count = f % FreeCounts
      /\ Word(in_use, f, x, g).gen_count = g % GenCounts
  BY DEF Word
<1>6. WordOK(Word(in_use, f, x, g))
  BY <1>4 DEF WordOK, WordFields, Word
<1> QED
  BY <1>1, <1>2, <1>3, <1>5, <1>6 DEF WordIs

LEMMA TrueFacts ==
  ASSUME NEW f \in Int, NEW x \in Int, NEW g \in Int
  PROVE  WordIs(Word(TRUE, f, x, g), f, x, g) /\ Word(TRUE, f, x, g).in_use
<1> DEFINE in_use == TRUE
<1>1. in_use \in BOOLEAN
  OBVIOUS
<1> HIDE DEF in_use
<1>2. WordIs(Word(in_use, f, x, g), f, x, g)
  BY <1>1, WordFacts
<1>3. WordIs(Word(TRUE, f, x, g), f, x, g)
  BY <1>2 DEF in_use
<1>4. Word(TRUE, f, x, g).in_use
  BY DEF Word
<1> QED
  BY <1>3, <1>4

LEMMA FalseFacts ==
  ASSUME NEW f \in Int, NEW x \in Int, NEW g \in Int
  PROVE  WordIs(Word(FALSE, f, x, g), f, x, g) /\ ~Word(FALSE, f, x, g).in_use
<1> DEFINE in_use == FALSE
<1>1. in_use \in BOOLEAN
  OBVIOUS
<1> HIDE DEF in_use
<1>2. WordIs(Word(in_use, f, x, g), f, x, g)
  BY <1>1, WordFacts
<1>3. WordIs(Word(FALSE, f, x, g), f, x, g)
  BY <1>2 DEF in_use
<1>4. ~Word(FALSE, f, x, g).in_use
  BY DEF Word
<1> QED
  BY <1>3, <1>4

LEMMA NullWord == WordOK(Word(FALSE, 0, SLOT_NULL, 0))
<1>1. FALSE \in BOOLEAN /\ 0 \in Int /\ SLOT_NULL \in Int
  BY DEF SLOT_NULL
<1>2. WordIs(Word(FALSE, 0, SLOT_NULL, 0), 0, SLOT_NULL, 0)
  BY <1>1, FalseFacts
<1> QED
  BY <1>2 DEF WordIs

LEMMA IdleFacts ==
  /\ FrameOK(Idle) /\ Idle.at = "idle" /\ Idle.slot = NoSlot
  /\ Idle.part = "fast" /\ Idle.block = NoBlock /\ Idle.old = Word(FALSE, 0, SLOT_NULL, 0)
<1>1. WordOK(Word(FALSE, 0, SLOT_NULL, 0))
  BY NullWord
<1>2. FrameOK(Idle)
  <2> DEFINE w == Word(FALSE, 0, SLOT_NULL, 0)
  <2>1. WordOK(w)
    BY <1>1
  <2> HIDE DEF w
  <2>2. Idle = [at |-> "idle", part |-> "fast", cpu |-> 0, block |-> NoBlock,
                old |-> w, next |-> 0, orig |-> NoBlock,
                found |-> {}, todo |-> {}, arena |-> 0, start |-> 0, limit |-> 0,
                initial |-> 0, slot |-> NoSlot, drained |-> FALSE]
    BY DEF Idle, w
  <2> QED  BY <2>1, <2>2 DEF FrameOK, Fields
<1> QED
  BY <1>2 DEF Idle

LEMMA MetaKept == MetaOK /\ meta' = meta => MetaOK'
<1> SUFFICES ASSUME MetaOK, meta' = meta PROVE MetaOK'
  OBVIOUS
<1>1. \A b \in Blocks : WordOK(meta[b])
  BY DEF MetaOK
<1>2. \A b \in Blocks : WordOK(meta'[b])
  BY <1>1
<1>3. (\A b \in Blocks : WordOK(meta[b]))'
  BY <1>2 DEF WordOK
<1> QED
  BY <1>3 DEF MetaOK

LEMMA MetaPut ==
  ASSUME MetaOK, NEW b \in Blocks, NEW m, WordOK(m), meta' = [meta EXCEPT ![b] = m]
  PROVE  MetaOK' /\ \A d \in Blocks : meta'[d] = IF d = b THEN m ELSE meta[d]
<1>1. meta' = [d \in Blocks |-> meta'[d]] /\ \A d \in Blocks : meta'[d] = IF d = b THEN m ELSE meta[d]
  BY DEF MetaOK
<1>2. \A d \in Blocks : WordOK(meta'[d])
  BY <1>1 DEF MetaOK
<1>3. (\A d \in Blocks : WordOK(meta[d]))'
  BY <1>2 DEF WordOK
<1> QED
  BY <1>1, <1>3 DEF MetaOK

\* One call goes on, and owns the same slot as before.
Moves(t, c) == th' = [th EXCEPT ![t] = c]

LEMMA TypeMoves ==
  ASSUME NanoType, NEW t \in Callers, NEW c, FrameOK(c), Moves(t, c),
         MetaOK', mem' \in [AllSlots -> Cells],
         held' \in [AllSlots -> {0, 1}],
         current' \in [CPUs -> Blocks \cup {NoBlock}]
  PROVE  NanoType'
<1>1. th' = [u \in Callers |-> th'[u]] /\ \A u \in Callers : th'[u] = IF u = t THEN c ELSE th[u]
  BY DEF NanoType, FrameOK, Moves
<1>2. \A u \in Callers : FrameOK(th'[u])
  BY <1>1 DEF NanoType
<1>3. (\A u \in Callers : FrameOK(th[u]))'
  BY <1>2 DEF FrameOK
<1> QED
  BY <1>1, <1>3 DEF NanoType

LEMMA SlotKept ==
  ASSUME NanoType, NEW t \in Callers, NEW c, Moves(t, c), c.slot = th[t].slot
  PROVE  \A u \in Callers : th'[u].slot = th[u].slot
  BY DEF NanoType, Moves

LEMMA UnownedKept ==
  ASSUME \A u \in Callers : th'[u].slot = th[u].slot, held' = held
  PROVE  /\ OneOwner => OneOwner'
         /\ \A s : Unowned(s)' <=> Unowned(s)
  BY DEF OneOwner, Unowned

\* A block whose slots are the same as before.
LEMMA BlockKept ==
  ASSUME NEW b \in Blocks, BlockOK(b),
         meta'[b].next_slot = meta[b].next_slot, meta'[b].free_count = meta[b].free_count,
         meta'[b].in_use => meta[b].in_use \/ meta[b].next_slot \notin Empties,
         \A i \in 1 .. Slots : mem'[<<b, i>>] = mem[<<b, i>>],
         \A i \in 1 .. Slots : Unowned(<<b, i>>)' <=> Unowned(<<b, i>>)
  PROVE  BlockOK(b)'
<1>1. CASE Emptied(b)
  <2>1. Emptied(b)'
    BY <1>1 DEF Emptied
  <2> QED  BY <2>1 DEF BlockOK
<1>2. CASE \E n, u \in 0 .. Slots : \E L \in [1 .. n -> 1 .. Slots] : Serving(b, n, u, L)
  <2>1. PICK n \in 0 .. Slots, u \in 0 .. Slots : \E L \in [1 .. n -> 1 .. Slots] : Serving(b, n, u, L)
    BY <1>2
  <2>2. PICK L \in [1 .. n -> 1 .. Slots] : Serving(b, n, u, L)
    BY <2>1
  <2>3. Listing(b, n, L)'
    BY <2>2 DEF Serving, Listing
  <2>4. Counted(meta[b], n, u, L)'
    BY <2>2 DEF Serving, Counted
  <2>5. Covered(b, n, u, L)'
    BY <2>2 DEF Serving, Covered
  <2>6. Serving(b, n, u, L)'
    BY <2>3, <2>4, <2>5 DEF Serving
  <2> QED  BY <2>1, <2>2, <2>6 DEF BlockOK
<1> QED
  BY <1>1, <1>2 DEF BlockOK

Sweeping == {"sweep", "madvising"}

LEMMA MadviseKept ==
  ASSUME NanoType, MadviseOK, NEW t \in Callers, NEW c, Moves(t, c),
         th[t].at \notin Sweeping, c.at \notin Sweeping, madviseLock' = madviseLock,
         \A b \in Blocks : meta'[b].next_slot = SLOT_MADVISING <=> meta[b].next_slot = SLOT_MADVISING
  PROVE  MadviseOK'
<1>1. \A u \in Callers : th'[u] = IF u = t THEN c ELSE th[u]
  BY DEF NanoType, Moves
<1> QED
  BY <1>1 DEF MadviseOK, Sweeping

LEMMA QuietKeeps ==
  ASSUME NanoInv, NEW t \in Callers, NEW c, Moves(t, c), FrameOK(c), c.slot = th[t].slot,
         UNCHANGED <<meta, mem, held, lost, madviseLock>>,
         current' \in [CPUs -> Blocks \cup {NoBlock}],
         th[t].at \notin Sweeping, c.at \notin Sweeping
  PROVE  NanoInv'
<1>1. NanoType'
  BY TypeMoves, MetaKept DEF NanoInv, NanoType
<1>2. OneOwner' /\ \A s : Unowned(s)' <=> Unowned(s)
  BY SlotKept, UnownedKept DEF NanoInv
<1>3. (\A b \in Blocks : BlockOK(b))'
  BY <1>2, BlockKept DEF NanoInv
<1>4. Unguarded'
  BY <1>2 DEF NanoInv, Unguarded
<1>6. MadviseOK'
  BY MadviseKept DEF NanoInv
<1> QED
  BY <1>1, <1>2, <1>3, <1>4, <1>6 DEF NanoInv

LEMMA NanoInitial == NanoInit => NanoInv
<1> SUFFICES ASSUME NanoInit PROVE NanoInv
  OBVIOUS
<1>1. WordOK(Word(FALSE, 0, SLOT_NULL, 0)) /\ Data \in Cells
  <2>1. Data \in Cells
    BY DEF Cells, Data
  <2> QED  BY <2>1, NullWord
<1>2. NanoType
  <2>1. th = [t \in Callers |-> th[t]] /\ \A t \in Callers : FrameOK(th[t])
    BY IdleFacts DEF NanoInit, FrameOK
  <2>2. MetaOK /\ mem \in [AllSlots -> Cells]
    BY <1>1 DEF NanoInit, MetaOK
  <2>3. held \in [AllSlots -> {0, 1}] /\ current \in [CPUs -> Blocks \cup {NoBlock}]
    BY DEF NanoInit
  <2> QED  BY <2>1, <2>2, <2>3 DEF NanoType
<1>3. \A s \in AllSlots : Unowned(s)
  BY BlockFacts, IdleFacts DEF NanoInit, Unowned
<1>4. OneOwner
  BY IdleFacts DEF NanoInit, OneOwner
<1>5. \A b \in Blocks : BlockOK(b)
  BY <1>3, BlockFacts DEF NanoInit, BlockOK, Emptied, Empties, Word
<1>6. Unguarded
  BY <1>3 DEF Unguarded
<1>8. MadviseOK
  BY IdleFacts, CallersAssumption DEF NanoInit, MadviseOK, Word, SLOT_NULL, SLOT_MADVISING
<1> QED
  BY <1>2, <1>4, <1>5, <1>6, <1>8 DEF NanoInv, NanoInit

\* A call that goes on is one of the type.
LEMMA FrameNow ==
  ASSUME NanoInv, NEW t \in Callers
  PROVE  FrameOK(th[t])
  BY DEF NanoInv, NanoType

\* NULL is returned by nanov2_allocate_from_block.
NullFrame(c) ==
  LET d == [c EXCEPT !.old = Idle.old, !.next = 0]
      start == IF d.orig = NoBlock THEN 1 ELSE ArenaOf(d.orig)
  IN CASE d.part = "fast"   -> [Idle EXCEPT !.at = "missed", !.cpu = d.cpu]
       [] d.part = "locked" -> [d EXCEPT !.at = "enter", !.arena = start]
       [] d.part = "found"  -> [d EXCEPT !.at = "drop"]

LEMMA NullFacts ==
  ASSUME NEW c, FrameOK(c), c.at \in {"try", "swap", "raced"}
  PROVE  /\ FrameOK(NullFrame(c)) /\ NullFrame(c).slot = NoSlot
         /\ NullFrame(c).at \in {"missed", "enter", "drop"}
<1> DEFINE w == Idle.old
           d == [c EXCEPT !.old = w, !.next = 0]
           a == IF d.orig = NoBlock THEN 1 ELSE ArenaOf(d.orig)
<1>1. WordOK(w)
  BY IdleFacts, NullWord
<1> HIDE DEF w
<1>2. /\ d.part = c.part /\ d.cpu = c.cpu /\ d = [f \in Fields |-> d[f]]
      /\ d.block = c.block /\ d.orig = c.orig /\ d.found = c.found /\ d.todo = c.todo
      /\ d.slot = NoSlot /\ d.old = w /\ c.cpu \in CPUs
  BY <1>1 DEF FrameOK, Fields
<1>3. CASE c.part = "fast"
  <2> DEFINE n == [Idle EXCEPT !.at = "missed", !.cpu = d.cpu]
  <2>1. NullFrame(c) = n
    BY <1>2, <1>3 DEF NullFrame, w
  <2>2. FrameOK(n) /\ n.slot = NoSlot /\ n.at = "missed"
    BY <1>2, IdleFacts DEF FrameOK, Fields
  <2> QED  BY <2>1, <2>2
<1>4. CASE c.part = "locked"
  <2> DEFINE n == [d EXCEPT !.at = "enter", !.arena = a]
  <2>1. NullFrame(c) = n
    BY <1>2, <1>4 DEF NullFrame, w
  <2> HIDE DEF a
  <2>2. FrameOK(n) /\ n.slot = NoSlot /\ n.at = "enter"
    BY <1>1 DEF FrameOK, Fields
  <2> HIDE DEF n
  <2> QED  BY <2>1, <2>2
<1>5. CASE c.part = "found"
  <2> DEFINE n == [d EXCEPT !.at = "drop"]
  <2>1. NullFrame(c) = n
    BY <1>2, <1>5 DEF NullFrame, w
  <2>2. FrameOK(n) /\ n.slot = NoSlot /\ n.at = "drop"
    BY <1>1 DEF FrameOK, Fields
  <2> HIDE DEF n
  <2> QED  BY <2>1, <2>2
<1> QED
  BY <1>3, <1>4, <1>5 DEF FrameOK

LEMMA NullMoves ==
  ASSUME NEW t \in Callers, ReturnsNull(t)
  PROVE  Moves(t, NullFrame(th[t]))
  BY DEF ReturnsNull, Set, Moves, NullFrame

\* What a word says of a block
LEMMA ServingFacts ==
  ASSUME NanoType, NEW b \in Blocks, BlockOK(b), CanAllocate(meta[b])
  PROVE  \E n, u \in 0 .. Slots : \E L \in [1 .. n -> 1 .. Slots] :
           /\ Serving(b, n, u, L) /\ n + u \in 1 .. Slots /\ meta[b].free_count = n + u - 1
           /\ n = 0 => meta[b].next_slot = SLOT_BUMP /\ ~FromList(meta[b])
           /\ n > 0 => meta[b].next_slot = L[1] /\ L[1] \in 1 .. Slots /\ FromList(meta[b])
<1>1. ~Emptied(b)
  BY DEF CanAllocate, Emptied
<1>2. PICK n \in 0 .. Slots, u \in 0 .. Slots : \E L \in [1 .. n -> 1 .. Slots] : Serving(b, n, u, L)
  BY <1>1 DEF BlockOK
<1>3. PICK L \in [1 .. n -> 1 .. Slots] : Serving(b, n, u, L)
  BY <1>2
<1>4. n + u # 0
  BY <1>3 DEF Serving, Counted, CanAllocate
<1>5. /\ n + u <= Slots /\ meta[b].free_count = n + u - 1
      /\ meta[b].next_slot = IF n = 0 THEN SLOT_BUMP ELSE L[1]
  BY <1>3, <1>4 DEF Serving, Counted
<1>6. n > 0 => L[1] \in 1 .. Slots /\ L[1] \notin {SLOT_BUMP, SLOT_CAN_MADVISE}
  BY <1>3, SlotNumbers DEF SLOT_BUMP, SLOT_CAN_MADVISE
<1>7. n + u \in 1 .. Slots
  BY <1>4, <1>5, SlotNumbers
<1>8. /\ n = 0 => meta[b].next_slot = SLOT_BUMP /\ ~FromList(meta[b])
      /\ n > 0 => meta[b].next_slot = L[1] /\ L[1] \in 1 .. Slots /\ FromList(meta[b])
  <2>1. CASE n = 0
    BY <1>5, <2>1 DEF FromList
  <2>2. CASE n # 0
    <3>1. n > 0
      BY <2>2
    <3> QED  BY <1>5, <1>6, <2>2, <3>1 DEF FromList
  <2> QED  BY <2>1, <2>2
<1> QED
  BY <1>3, <1>5, <1>7, <1>8

LEMMA LoadsKeeps ==
  ASSUME NanoInv, NEW t \in Callers, th[t].at \in {"try", "swap"}, NEW m, m = meta[th[t].block],
         Again(t, m), UNCHANGED <<meta, mem, held, lost, madviseLock, current>>
  PROVE  NanoInv'
<1>1. FrameOK(th[t]) /\ th[t].block \in Blocks /\ th[t].slot = NoSlot
  BY FrameNow DEF FrameOK
<1>2. CASE CanAllocate(m)
  <2> DEFINE a == IF ReadsLink(m) THEN "read" ELSE "swap"
             c == [th[t] EXCEPT !.at = a, !.old = m, !.next = SLOT_BUMP]
  <2>1. WordOK(m) /\ (ReadsLink(m) => m.next_slot \in 1 .. Slots)
    BY <1>1, <1>2, ServingFacts DEF NanoInv, NanoType, MetaOK, ReadsLink
  <2>2. a \in {"read", "swap"} /\ (a = "read" <=> ReadsLink(m))
    OBVIOUS
  <2>3. Moves(t, c)
    BY <1>2 DEF Again, Set, Moves
  <2> HIDE DEF a
  <2>4. /\ c.at = a /\ c.old = m /\ c.next = SLOT_BUMP /\ c.slot = th[t].slot
    BY <1>1, <2>2 DEF FrameOK, Fields
  <2>5. LoadedOK(c)
    BY <1>2, <2>1, <2>2, <2>4 DEF LoadedOK
  <2>6. FrameOK(c)
    BY <1>1, <2>1, <2>2, <2>5 DEF FrameOK, Fields
  <2> HIDE DEF c
  <2> QED  BY <1>1, <2>2, <2>3, <2>4, <2>6, QuietKeeps DEF NanoInv, NanoType, Sweeping
<1>3. CASE ~CanAllocate(m)
  <2>1. ReturnsNull(t)
    BY <1>3 DEF Again
  <2> QED  BY <1>1, <2>1, NullFacts, NullMoves, QuietKeeps DEF NanoInv, NanoType, Sweeping
<1> QED
  BY <1>2, <1>3

LEMMA TryLoadsKeeps ==
  ASSUME NanoInv, NEW t \in Callers, TryLoads(t)
  PROVE  NanoInv'
  BY LoadsKeeps DEF TryLoads, Doing

LEMMA ReadsNextKeeps ==
  ASSUME NanoInv, NEW t \in Callers, ReadsNext(t)
  PROVE  NanoInv'
<1> DEFINE x == mem[<<th[t].block, th[t].old.next_slot>>].next
           c == [th[t] EXCEPT !.at = "swap", !.next = x]
<1>1. FrameOK(th[t]) /\ th[t].at = "read" /\ th[t].block \in Blocks /\ LoadedOK(th[t])
  BY FrameNow DEF ReadsNext, Doing, FrameOK
<1>2. x \in Int
  BY <1>1, BlockFacts DEF NanoInv, NanoType, Cells, LoadedOK
<1>3. Moves(t, c)
  BY DEF ReadsNext, Set, Moves
<1> HIDE DEF x
<1>4. /\ c.at = "swap" /\ c.old = th[t].old /\ c.slot = th[t].slot
  BY <1>1 DEF FrameOK, Fields
<1>5. LoadedOK(c)
  BY <1>1, <1>4 DEF LoadedOK
<1>6. FrameOK(c)
  BY <1>1, <1>2, <1>5 DEF FrameOK, Fields
<1> HIDE DEF c
<1> QED
  BY <1>1, <1>3, <1>4, <1>6, QuietKeeps DEF ReadsNext, NanoInv, NanoType, Sweeping

LEMMA SwapFailsKeeps ==
  ASSUME NanoInv, NEW t \in Callers, SwapFails(t)
  PROVE  NanoInv'
<1>1. FrameOK(th[t]) /\ th[t].at = "swap" /\ th[t].block \in Blocks
  BY FrameNow DEF SwapFails, Doing, FrameOK
<1>2. PICK m : m = meta[th[t].block]
  OBVIOUS
<1>3. CASE m.next_slot \notin {SLOT_CAN_MADVISE, SLOT_MADVISING, SLOT_MADVISED}
  <2>1. Again(t, m) /\ UNCHANGED <<meta, mem, held, lost, madviseLock, current>>
    BY <1>2, <1>3 DEF SwapFails
  <2> QED  BY <1>1, <1>2, <2>1, LoadsKeeps
<1>4. CASE m.next_slot \in {SLOT_CAN_MADVISE, SLOT_MADVISING, SLOT_MADVISED}
  <2> DEFINE c == [th[t] EXCEPT !.at = "raced", !.old = m, !.next = 0]
  <2>1. Moves(t, c)
    BY <1>2, <1>4 DEF SwapFails, Set, Moves
  <2>2. WordOK(m)
    BY <1>1, <1>2 DEF NanoInv, NanoType, MetaOK
  <2>3. FrameOK(c) /\ c.slot = th[t].slot /\ c.at = "raced"
    BY <1>1, <2>2 DEF FrameOK, Fields
  <2> HIDE DEF c
  <2> QED  BY <1>1, <2>1, <2>3, QuietKeeps DEF SwapFails, NanoInv, NanoType, Sweeping
<1> QED
  BY <1>3, <1>4

LEMMA NanoMallocKeeps ==
  ASSUME NanoInv, NEW t \in Callers, NEW cpu \in CPUs, NanoMalloc(t, cpu)
  PROVE  NanoInv'
<1> DEFINE b == current[cpu]
           c == [Idle EXCEPT !.at = IF b = NoBlock THEN "missed" ELSE "try",
                             !.cpu = cpu, !.block = b]
<1>1. b \in Blocks \cup {NoBlock}
  BY DEF NanoInv, NanoType
<1>2. FrameOK(c) /\ c.slot = NoSlot /\ c.at \in {"missed", "try"}
  BY <1>1, IdleFacts DEF FrameOK, Fields
<1>3. Moves(t, c) /\ th[t].at = "idle" /\ th[t].slot = NoSlot
  BY FrameNow DEF NanoMalloc, Set, Moves, Doing, FrameOK
<1> HIDE DEF b, c
<1> QED
  BY <1>2, <1>3, QuietKeeps DEF NanoMalloc, NanoInv, NanoType, Sweeping

LEMMA IdlesKeep ==
  ASSUME NanoInv, NEW t \in Callers, Delegates(t) \/ StartsToDelegate(t) \/ StopsToDelegate(t)
  PROVE  NanoInv'
<1>1. Moves(t, Idle) /\ th[t].at \in {"missed", "full", "drained"}
  BY DEF Delegates, StartsToDelegate, StopsToDelegate, Set, Moves, Doing
<1>2. th[t].slot = NoSlot
  BY <1>1, FrameNow DEF FrameOK
<1>3. UNCHANGED <<meta, mem, held, lost, madviseLock, current>>
  BY DEF Delegates, StartsToDelegate, StopsToDelegate
<1> QED
  BY <1>1, <1>2, <1>3, IdleFacts, QuietKeeps DEF NanoInv, NanoType, Sweeping

LEMMA FailsKeeps ==
  ASSUME NanoInv, NEW t \in Callers, Fails(t)
  PROVE  NanoInv'
<1> DEFINE c == [Idle EXCEPT !.at = "full"]
<1>1. FrameOK(c) /\ c.slot = NoSlot /\ c.at = "full"
  BY IdleFacts DEF FrameOK, Fields
<1>2. Moves(t, c) /\ th[t].at = "grow" /\ th[t].slot = NoSlot
  BY FrameNow DEF Fails, Set, Moves, Doing, FrameOK
<1> HIDE DEF c
<1> QED
  BY <1>1, <1>2, QuietKeeps DEF Fails, NanoInv, NanoType, Sweeping

LEMMA DoesNotDelegateKeeps ==
  ASSUME NanoInv, NEW t \in Callers, DoesNotDelegate(t)
  PROVE  NanoInv'
<1> DEFINE c == [th[t] EXCEPT !.at = "locking"]
<1>1. Moves(t, c) /\ th[t].at = "missed" /\ FrameOK(th[t])
  BY FrameNow DEF DoesNotDelegate, Set, Moves, Doing
<1>2. FrameOK(c) /\ c.slot = th[t].slot /\ c.at = "locking"
  BY <1>1 DEF FrameOK, Fields
<1> HIDE DEF c
<1> QED
  BY <1>1, <1>2, QuietKeeps DEF DoesNotDelegate, NanoInv, NanoType, Sweeping

LEMMA LocksKeeps ==
  ASSUME NanoInv, NEW t \in Callers, Locks(t)
  PROVE  NanoInv'
<1> DEFINE b == current[th[t].cpu]
           a == IF b = NoBlock THEN "enter" ELSE "try"
           c == [th[t] EXCEPT !.part = "locked", !.block = b, !.orig = b, !.arena = 1, !.at = a]
<1>1. Moves(t, c) /\ th[t].at = "locking" /\ FrameOK(th[t])
  BY FrameNow DEF Locks, Set, Moves, Doing
<1>2. b \in Blocks \cup {NoBlock} /\ a \in {"enter", "try"} /\ (a = "try" => b # NoBlock)
  BY <1>1, FrameNow DEF NanoInv, NanoType, FrameOK
<1> HIDE DEF a, b
<1>3. FrameOK(c) /\ c.slot = th[t].slot /\ c.at \in {"enter", "try"}
  BY <1>1, <1>2 DEF FrameOK, Fields
<1> HIDE DEF c
<1> QED
  BY <1>1, <1>3, QuietKeeps DEF Locks, NanoInv, NanoType, Sweeping

LEMMA EntersKeeps ==
  ASSUME NanoInv, NEW t \in Callers, Enters(t)
  PROVE  NanoInv'
<1> DEFINE B == BlocksOf(th[t].arena)
           c == [th[t] EXCEPT !.at = "scan", !.part = "found", !.block = NoBlock,
                              !.start = th[t].arena, !.limit = nextArena,
                              !.initial = nextArena, !.todo = B]
<1>1. Moves(t, c) /\ th[t].at = "enter" /\ FrameOK(th[t])
  BY FrameNow DEF Enters, Set, Moves, Doing
<1>2. B \subseteq Blocks
  BY BlockFacts DEF NanoInv, NanoType
<1> HIDE DEF B
<1>3. FrameOK(c) /\ c.slot = th[t].slot /\ c.at = "scan"
  BY <1>1, <1>2 DEF FrameOK, Fields
<1> HIDE DEF c
<1> QED
  BY <1>1, <1>3, QuietKeeps DEF Enters, NanoInv, NanoType, Sweeping

LEMMA ScansKeeps ==
  ASSUME NanoInv, NEW t \in Callers, Scans(t)
  PROVE  NanoInv'
<1>1. PICK b \in th[t].todo :
        \E f \in IF Eligible(meta[b]) THEN Better(th[t].found, b) ELSE {th[t].found} :
          Set(t, [th[t] EXCEPT !.todo = @ \ {b}, !.found = f])
  BY DEF Scans
<1>2. PICK f \in IF Eligible(meta[b]) THEN Better(th[t].found, b) ELSE {th[t].found} :
        Set(t, [th[t] EXCEPT !.todo = @ \ {b}, !.found = f])
  BY <1>1
<1>3. th[t].at = "scan" /\ FrameOK(th[t]) /\ th[t].todo \subseteq Blocks /\ th[t].found \subseteq Blocks
  BY FrameNow DEF Scans, Doing, FrameOK
<1>4. f \subseteq Blocks
  BY <1>1, <1>2, <1>3 DEF Better
<1> DEFINE T == th[t].todo \ {b}
           c == [th[t] EXCEPT !.todo = T, !.found = f]
<1>5. Moves(t, c) /\ T \subseteq Blocks
  BY <1>2, <1>3 DEF Set, Moves
<1> HIDE DEF T
<1>6. FrameOK(c) /\ c.slot = th[t].slot /\ c.at = "scan"
  BY <1>3, <1>4, <1>5 DEF FrameOK, Fields
<1> HIDE DEF c
<1> QED
  BY <1>3, <1>5, <1>6, QuietKeeps DEF Scans, NanoInv, NanoType, Sweeping

LEMMA SearchesAgainKeeps ==
  ASSUME NanoInv, NEW t \in Callers, SearchesAgain(t)
  PROVE  NanoInv'
<1> DEFINE B == BlocksOf(th[t].arena)
           c == [th[t] EXCEPT !.todo = B, !.found = {}]
<1>1. Moves(t, c) /\ th[t].at = "scan" /\ FrameOK(th[t])
  BY FrameNow DEF SearchesAgain, Set, Moves, Doing
<1>2. B \subseteq Blocks
  BY BlockFacts
<1> HIDE DEF B
<1>3. FrameOK(c) /\ c.slot = th[t].slot /\ c.at = "scan"
  BY <1>1, <1>2 DEF FrameOK, Fields
<1> HIDE DEF c
<1> QED
  BY <1>1, <1>3, QuietKeeps DEF SearchesAgain, NanoInv, NanoType, Sweeping

LEMMA NextArenaKeeps ==
  ASSUME NanoInv, NEW t \in Callers, NextArena(t)
  PROVE  NanoInv'
<1> DEFINE w == th[t].arena + 1 >= th[t].limit
           a == IF w THEN 1 ELSE th[t].arena + 1
           p == IF a = th[t].start THEN "grow" ELSE "scan"
           l == IF w THEN nextArena ELSE th[t].limit
           B == IF a = th[t].start THEN {} ELSE BlocksOf(a)
           c == [th[t] EXCEPT !.at = p, !.arena = a, !.limit = l, !.todo = B]
<1>1. th[t].at = "scan" /\ FrameOK(th[t])
  BY FrameNow DEF NextArena, Doing
<1>2. Moves(t, c)
  BY DEF NextArena, Set, Moves
<1>3. B \subseteq Blocks /\ p \in {"grow", "scan"}
  BY BlockFacts
<1> HIDE DEF a, p, l, B
<1>4. FrameOK(c) /\ c.slot = th[t].slot /\ c.at \in {"grow", "scan"}
  BY <1>1, <1>3 DEF FrameOK, Fields
<1> HIDE DEF c
<1> QED
  BY <1>1, <1>2, <1>4, QuietKeeps DEF NextArena, NanoInv, NanoType, Sweeping

LEMMA GrowsKeeps ==
  ASSUME NanoInv, NEW t \in Callers, Grows(t)
  PROVE  NanoInv'
<1> DEFINE c == [th[t] EXCEPT !.at = "enter", !.arena = th[t].initial]
<1>1. Moves(t, c) /\ th[t].at = "grow" /\ FrameOK(th[t])
  BY FrameNow DEF Grows, Set, Moves, Doing
<1>2. FrameOK(c) /\ c.slot = th[t].slot /\ c.at = "enter"
  BY <1>1 DEF FrameOK, Fields
<1> HIDE DEF c
<1> QED
  BY <1>1, <1>2, QuietKeeps DEF Grows, NanoInv, NanoType, Sweeping

LEMMA PublishesKeeps ==
  ASSUME NanoInv, NEW t \in Callers, Publishes(t)
  PROVE  NanoInv'
<1> DEFINE c == [th[t] EXCEPT !.at = "leave"]
<1>1. Moves(t, c) /\ th[t].at = "publish" /\ FrameOK(th[t])
  BY FrameNow DEF Publishes, Set, Moves, Doing
<1>2. FrameOK(c) /\ c.slot = th[t].slot /\ c.at = "leave" /\ th[t].block \in Blocks
  BY <1>1 DEF FrameOK, Fields
<1>3. current' \in [CPUs -> Blocks \cup {NoBlock}]
  BY <1>2 DEF Publishes, NanoInv, NanoType
<1> HIDE DEF c
<1> QED
  BY <1>1, <1>2, <1>3, QuietKeeps DEF Publishes, NanoInv, NanoType, Sweeping

LEMMA RelievesKeeps ==
  ASSUME NanoInv, NEW t \in Callers, Relieves(t)
  PROVE  NanoInv'
<1> DEFINE B == BlocksOf(1)
           c == [Idle EXCEPT !.at = "madvise", !.arena = 1, !.todo = B]
<1>1. Moves(t, c) /\ th[t].at = "idle" /\ th[t].slot = NoSlot
  BY FrameNow DEF Relieves, Set, Moves, Doing, FrameOK
<1>2. B \subseteq Blocks
  BY BlockFacts
<1> HIDE DEF B
<1>3. FrameOK(c) /\ c.slot = NoSlot /\ c.at = "madvise"
  BY <1>2, IdleFacts DEF FrameOK, Fields
<1> HIDE DEF c
<1> QED
  BY <1>1, <1>3, QuietKeeps DEF Relieves, NanoInv, NanoType, Sweeping

LEMMA CallKeeps ==
  ASSUME NanoInv, NEW t \in Callers, NEW c, Moves(t, c), FrameOK(c),
         UNCHANGED <<madviseLock, lost, current>>,
         MetaOK', mem' \in [AllSlots -> Cells], held' \in [AllSlots -> {0, 1}],
         OneOwner', (\A b \in Blocks : BlockOK(b))', Unguarded',
         th[t].at \notin Sweeping, c.at \notin Sweeping,
         \A b \in Blocks : meta'[b].next_slot = SLOT_MADVISING <=> meta[b].next_slot = SLOT_MADVISING
  PROVE  NanoInv'
<1>1. NanoType'
  BY TypeMoves DEF NanoInv, NanoType
<1>3. MadviseOK'
  BY MadviseKept DEF NanoInv
<1> QED
  BY <1>1, <1>3 DEF NanoInv

LEMMA ServingIsNotEmpty ==
  ASSUME NEW b, NEW n \in 0 .. Slots, NEW u \in 0 .. Slots, NEW L \in [1 .. n -> 1 .. Slots],
         Serving(b, n, u, L)
  PROVE  meta[b].next_slot \notin Empties
<1>1. CASE n = 0
  BY <1>1 DEF Serving, Counted, Empties, SLOT_NULL, SLOT_CAN_MADVISE, SLOT_MADVISING, SLOT_MADVISED,
     SLOT_FULL, SLOT_BUMP
<1>2. CASE n > 0
  <2>1. meta[b].next_slot \in 1 .. Slots
    BY <1>2, SlotNumbers DEF Serving, Counted
  <2> QED  BY <2>1, SlotNumbers DEF Empties, SLOT_NULL, SLOT_CAN_MADVISE, SLOT_MADVISING, SLOT_MADVISED
<1> QED
  BY <1>1, <1>2, SlotNumbers

LEMMA ServingThen ==
  ASSUME NEW b, NEW n \in 0 .. Slots, NEW u \in 0 .. Slots, NEW L \in [1 .. n -> 1 .. Slots],
         Serving(b, n, u, L)'
  PROVE  BlockOK(b)'
  BY DEF BlockOK

\* A block in which all slots are behind the bump is of the invariant.
LEMMA AllUnused ==
  ASSUME NEW b, meta'[b].next_slot = SLOT_BUMP, meta'[b].free_count = Slots - 1,
         \A i \in 1 .. Slots : Unowned(<<b, i>>)'
  PROVE  BlockOK(b)'
<1> DEFINE L == [i \in 1 .. 0 |-> 1]
<1>1. L \in [1 .. 0 -> 1 .. Slots]
  BY SlotNumbers
<1> HIDE DEF L
<1>2. Listing(b, 0, L)'
  BY <1>1 DEF Listing
<1>3. Counted(meta[b], 0, Slots, L)'
  BY SlotNumbers DEF Counted
<1>4. Covered(b, 0, Slots, L)'
  BY SlotNumbers DEF Covered
<1>5. 0 \in 0 .. Slots /\ Slots \in 0 .. Slots
  BY SlotNumbers
<1> QED
  BY <1>1, <1>2, <1>3, <1>4, <1>5, ServingThen DEF Serving

LEMMA OutOfUseFacts ==
  ASSUME NanoInv, NEW b \in Blocks, OutOfUse(b)
  PROVE  /\ MetaOK'
         /\ \A d \in Blocks :
              /\ meta'[d].next_slot = meta[d].next_slot /\ meta'[d].free_count = meta[d].free_count
              /\ meta'[d].in_use => meta[d].in_use
              /\ meta'[d].gen_count = meta[d].gen_count
<1> DEFINE w == meta[b]
           v == [w EXCEPT !.in_use = FALSE]
<1>1. /\ meta' = [d \in Blocks |-> meta'[d]] /\ \A d \in Blocks : WordOK(meta[d])
      /\ \A d \in Blocks : meta'[d] = IF d = b THEN v ELSE meta[d]
  BY DEF NanoInv, NanoType, MetaOK, OutOfUse
<1>2. WordOK(w)
  BY <1>1
<1> HIDE DEF w
<1>3. WordOK(v) /\ v.next_slot = w.next_slot /\ v.free_count = w.free_count /\ ~v.in_use
      /\ v.gen_count = w.gen_count
  BY <1>2 DEF WordOK, WordFields
<1> HIDE DEF v
<1>4. (\A d \in Blocks : WordOK(meta[d]))'
  <2>1. \A d \in Blocks : WordOK(meta'[d])
    BY <1>1, <1>3
  <2> QED  BY <2>1 DEF WordOK
<1>5. MetaOK'
  BY <1>1, <1>4 DEF MetaOK
<1> QED
  BY <1>1, <1>3, <1>5 DEF w

LEMMA DropsKeeps ==
  ASSUME NanoInv, NEW t \in Callers, Drops(t)
  PROVE  NanoInv'
<1> DEFINE c == [th[t] EXCEPT !.at = "enter", !.block = NoBlock]
<1>1. Moves(t, c) /\ th[t].at = "drop" /\ FrameOK(th[t]) /\ th[t].block \in Blocks
  BY FrameNow DEF Drops, Set, Moves, Doing, FrameOK
<1>2. FrameOK(c) /\ c.slot = th[t].slot /\ c.at = "enter"
  BY <1>1 DEF FrameOK, Fields
<1> HIDE DEF c
<1>3. OneOwner' /\ \A s : Unowned(s)' <=> Unowned(s)
  BY <1>1, <1>2, SlotKept, UnownedKept DEF NanoInv, Drops
<1>4. OutOfUse(th[t].block) /\ UNCHANGED <<mem, held, lost, madviseLock, current>>
  BY DEF Drops
<1>5. (\A b \in Blocks : BlockOK(b))'
  BY <1>1, <1>3, <1>4, OutOfUseFacts, BlockKept DEF NanoInv
<1>6. Unguarded'
  BY <1>3, <1>4 DEF NanoInv, Unguarded
<1> QED
  BY <1>1, <1>2, <1>3, <1>4, <1>5, <1>6, OutOfUseFacts, CallKeeps DEF NanoInv, NanoType, Sweeping

LEMMA LeavesKeeps ==
  ASSUME NanoInv, NEW t \in Callers, Leaves(t)
  PROVE  NanoInv'
<1> DEFINE s == th[t].slot
<1>1. Moves(t, Idle) /\ th[t].at = "leave" /\ FrameOK(th[t]) /\ s \in AllSlots
  BY FrameNow DEF Leaves, Set, Moves, Doing, FrameOK
<1>2. \A u \in Callers : th'[u] = IF u = t THEN Idle ELSE th[u]
  BY <1>1 DEF Moves, NanoInv, NanoType
<1>3. UNCHANGED <<mem, lost, madviseLock, current>> /\ held' = [held EXCEPT ![s] = @ + 1]
  BY DEF Leaves
<1>4. held[s] = 0 /\ s # NoSlot /\ \A u \in Callers \ {t} : th[u].slot # s
  BY <1>1, BlockFacts DEF NanoInv, OneOwner
<1>5. held' \in [AllSlots -> {0, 1}] /\ \A x \in AllSlots : held'[x] = IF x = s THEN 1 ELSE held[x]
  BY <1>1, <1>3, <1>4 DEF NanoInv, NanoType
<1> HIDE DEF s
<1>6. \A x \in AllSlots : Unowned(x)' <=> Unowned(x)
  BY <1>1, <1>2, <1>4, <1>5, IdleFacts, BlockFacts DEF Unowned, s
<1>7. OneOwner'
  <2>1. \A u \in Callers : th'[u].slot \in AllSlots \cup {NoSlot}
    BY <1>2, IdleFacts DEF NanoInv, NanoType, FrameOK
  <2> QED  BY <1>2, <1>4, <1>5, <2>1, IdleFacts DEF NanoInv, OneOwner
<1>8. /\ MetaOK'
      /\ \A d \in Blocks :
           /\ meta'[d].next_slot = meta[d].next_slot /\ meta'[d].free_count = meta[d].free_count
           /\ meta'[d].in_use => meta[d].in_use
  <2>1. CASE th[t].orig = NoBlock
    BY <2>1, MetaKept DEF Leaves, NanoInv, NanoType
  <2>2. CASE th[t].orig # NoBlock
    BY <1>1, <2>2, OutOfUseFacts DEF Leaves, FrameOK
  <2> QED  BY <2>1, <2>2
<1>9. (\A b \in Blocks : BlockOK(b))'
  BY <1>3, <1>6, <1>8, BlockFacts, BlockKept DEF NanoInv
<1>10. Unguarded'
  BY <1>3, <1>6 DEF NanoInv, Unguarded
<1> QED
  BY <1>1, <1>3, <1>5, <1>7, <1>8, <1>9, <1>10, IdleFacts, CallKeeps DEF NanoInv, NanoType, Sweeping

\* nanov2_pointer_size finds what malloc returned.
LEMMA OwnedRecognised ==
  ASSUME NanoInv, NEW s \in AllSlots, ~Unowned(s)
  PROVE  Recognises(s)
<1> DEFINE b == s[1]
           m == meta[b]
<1>1. b \in Blocks /\ s[2] \in 1 .. Slots /\ ~Unowned(<<b, s[2]>>)
  BY BlockFacts
<1>2. ~Emptied(b)
  BY <1>1 DEF Emptied
<1>3. PICK n \in 0 .. Slots, u \in 0 .. Slots : \E L \in [1 .. n -> 1 .. Slots] : Serving(b, n, u, L)
  BY <1>1, <1>2 DEF NanoInv, BlockOK
<1>4. PICK L \in [1 .. n -> 1 .. Slots] : Serving(b, n, u, L)
  BY <1>3
<1>5. u < Slots
  <2>1. ~(s[2] > Slots - u)
    BY <1>1, <1>4 DEF Serving, Covered
  <2> QED  BY <1>1, <2>1, SlotNumbers
<1>6. n + u < Slots
  BY <1>4, <1>5, SlotNumbers DEF Serving, Counted
<1>7. ~mem[s].guard
  BY DEF NanoInv, Unguarded
<1>8. CASE n + u = 0
  BY <1>4, <1>7, <1>8 DEF Serving, Counted, Recognises, Active, SLOT_FULL, SLOT_NULL, SLOT_MADVISING,
     SLOT_MADVISED
<1>9. CASE n + u # 0
  <2>1. m.free_count # Slots - 1
    BY <1>4, <1>6, <1>9, SlotNumbers DEF Serving, Counted
  <2>2. m.next_slot \in 1 .. Slots \/ m.next_slot = SLOT_BUMP
    BY <1>4, <1>9 DEF Serving, Counted
  <2>3. Active(m)
    BY <2>2, SlotNumbers DEF Active
  <2> QED  BY <1>7, <2>1, <2>3 DEF Recognises
<1> QED
  BY <1>8, <1>9

LEMMA FreeKeeps ==
  ASSUME NanoInv, NEW t \in Callers, NEW s \in AllSlots, Free(t, s)
  PROVE  NanoInv'
<1> DEFINE c == [Idle EXCEPT !.at = "free", !.slot = s]
<1>1. held[s] = 1 /\ ~Unowned(s)
  BY DEF Free, NanoInv, NanoType, Unowned
<1>2. Moves(t, c) /\ th[t].at = "idle"
  BY <1>1, OwnedRecognised DEF Free, Set, Moves, Doing
<1>3. FrameOK(c) /\ c.slot = s /\ c.at = "free"
  BY IdleFacts, BlockFacts DEF FrameOK, Fields
<1> HIDE DEF c
<1>4. \A u \in Callers : th'[u] = IF u = t THEN c ELSE th[u]
  BY <1>2 DEF Moves, NanoInv, NanoType
<1>5. \A u \in Callers : th[u].slot # s
  BY <1>1, BlockFacts DEF NanoInv, OneOwner
<1>6. UNCHANGED <<meta, mem, lost, madviseLock, current>> /\ held' = [held EXCEPT ![s] = @ - 1]
  BY DEF Free
<1>7. held' \in [AllSlots -> {0, 1}] /\ \A x \in AllSlots : held'[x] = IF x = s THEN 0 ELSE held[x]
  BY <1>1, <1>6 DEF NanoInv, NanoType
<1>8. th[t].slot = NoSlot
  BY <1>2, FrameNow DEF FrameOK
<1>9. \A x \in AllSlots : Unowned(x)' <=> Unowned(x)
  BY <1>1, <1>3, <1>4, <1>7, <1>8, BlockFacts DEF Unowned
<1>10. OneOwner'
  <2>1. \A u \in Callers : th'[u].slot \in AllSlots \cup {NoSlot}
    BY <1>3, <1>4 DEF NanoInv, NanoType, FrameOK
  <2> QED  BY <1>3, <1>4, <1>5, <1>7, <2>1 DEF NanoInv, OneOwner
<1>11. (\A b \in Blocks : BlockOK(b))'
  BY <1>6, <1>9, BlockFacts, BlockKept DEF NanoInv
<1>12. Unguarded'
  BY <1>6, <1>9 DEF NanoInv, Unguarded
<1> QED
  BY <1>2, <1>3, <1>6, <1>7, <1>10, <1>11, <1>12, CallKeeps, MetaKept DEF NanoInv, NanoType, Sweeping

LEMMA ActivatedFacts ==
  ASSUME NEW m, WordOK(m)
  PROVE  /\ WordOK(Activated(m))
         /\ Fresh(m) => Activated(m).next_slot = SLOT_BUMP /\ Activated(m).free_count = Slots - 1
         /\ ~Fresh(m) => /\ Activated(m).next_slot = m.next_slot
                        /\ Activated(m).free_count = m.free_count
                        /\ Activated(m).gen_count = (m.gen_count + 1) % GenCounts
<1>1. CASE Fresh(m)
  <2> DEFINE f == Slots - 1
             x == SLOT_BUMP
             g == 0
             w == Word(TRUE, f, x, g)
  <2>1. f \in FreeBits /\ f \in Int /\ x \in Int /\ g \in Int
    BY NanoSizes DEF SLOT_BUMP, FreeBits
  <2> HIDE DEF f, x, g
  <2>2. WordIs(w, f, x, g)
    BY <2>1, TrueFacts
  <2> HIDE DEF w
  <2>3. WordOK(w) /\ w.next_slot = x /\ w.free_count = f
    BY <2>1, <2>2 DEF WordIs
  <2>4. Activated(m) = w
    BY <1>1 DEF Activated, w, f, x, g
  <2> QED  BY <1>1, <2>3, <2>4 DEF f, x
<1>2. CASE ~Fresh(m)
  <2> DEFINE f == m.free_count
             x == m.next_slot
             g == m.gen_count + 1
             w == Word(TRUE, f, x, g)
  <2>1. f \in FreeBits /\ f \in Int /\ x \in Int /\ g \in Int
    BY WordParts
  <2> HIDE DEF f, x, g
  <2>2. WordIs(w, f, x, g)
    BY <2>1, TrueFacts
  <2> HIDE DEF w
  <2>3. WordOK(w) /\ w.next_slot = x /\ w.free_count = f /\ w.gen_count = g % GenCounts
    BY <2>1, <2>2 DEF WordIs
  <2>4. Activated(m) = w
    BY <1>2 DEF Activated, w, f, x, g
  <2> QED  BY <1>2, <2>3, <2>4 DEF f, x, g
<1> QED
  BY <1>1, <1>2

LEMMA ActivatesKeeps ==
  ASSUME NanoInv, NEW t \in Callers, Activates(t)
  PROVE  NanoInv'
<1>1. PICK b \in th[t].found :
        /\ meta[b].next_slot # SLOT_MADVISING
        /\ Set(t, [th[t] EXCEPT !.at = "try", !.block = b, !.found = {}])
        /\ meta' = [meta EXCEPT ![b] = Activated(@)]
  BY DEF Activates
<1> DEFINE c == [th[t] EXCEPT !.at = "try", !.block = b, !.found = {}]
<1>2. Moves(t, c) /\ th[t].at = "scan" /\ FrameOK(th[t]) /\ b \in Blocks
  BY <1>1, FrameNow DEF Activates, Doing, Set, Moves, FrameOK
<1>3. FrameOK(c) /\ c.slot = th[t].slot /\ c.at = "try"
  BY <1>2 DEF FrameOK, Fields
<1> HIDE DEF c
<1>4. UNCHANGED <<mem, held, lost, madviseLock, current>>
  BY DEF Activates
<1>5. OneOwner' /\ \A s : Unowned(s)' <=> Unowned(s)
  BY <1>2, <1>3, <1>4, SlotKept, UnownedKept DEF NanoInv
<1>6. WordOK(meta[b])
  BY <1>2 DEF NanoInv, NanoType, MetaOK
<1>7. MetaOK' /\ \A d \in Blocks : meta'[d] = IF d = b THEN Activated(meta[b]) ELSE meta[d]
  <2>1. WordOK(Activated(meta[b]))
    BY <1>6, ActivatedFacts
  <2>2. meta' = [meta EXCEPT ![b] = Activated(meta[b])]
    BY <1>1
  <2> QED  BY <1>2, <2>1, <2>2, MetaPut DEF NanoInv, NanoType
<1>8. BlockOK(b)' /\ meta'[b].next_slot # SLOT_MADVISING
  <2>1. CASE Fresh(meta[b])
    <3>1. ~ \E n, u \in 0 .. Slots : \E L \in [1 .. n -> 1 .. Slots] : Serving(b, n, u, L)
      BY <2>1, ServingIsNotEmpty DEF Fresh, Empties
    <3>2. \A i \in 1 .. Slots : Unowned(<<b, i>>)'
      BY <1>2, <1>5, <3>1 DEF NanoInv, BlockOK, Emptied
    <3>3. meta'[b].next_slot = SLOT_BUMP /\ meta'[b].free_count = Slots - 1
      BY <1>2, <1>6, <1>7, <2>1, ActivatedFacts
    <3>4. BlockOK(b)'
      BY <3>2, <3>3, AllUnused
    <3> QED  BY <3>3, <3>4 DEF SLOT_BUMP, SLOT_MADVISING
  <2>2. CASE ~Fresh(meta[b])
    <3>1. /\ meta'[b].next_slot = meta[b].next_slot /\ meta'[b].free_count = meta[b].free_count
          /\ meta[b].next_slot \notin Empties
      BY <1>1, <1>2, <1>6, <1>7, <2>2, ActivatedFacts DEF Fresh, Empties
    <3> QED  BY <1>1, <1>2, <1>4, <1>5, <3>1, BlockKept DEF NanoInv
  <2> QED  BY <2>1, <2>2
<1>9. (\A d \in Blocks : BlockOK(d))'
  BY <1>4, <1>5, <1>7, <1>8, BlockKept DEF NanoInv
<1>10. Unguarded'
  BY <1>4, <1>5 DEF NanoInv, Unguarded
<1> QED
  BY <1>1, <1>2, <1>3, <1>4, <1>5, <1>7, <1>8, <1>9, <1>10, CallKeeps DEF NanoInv, NanoType, Sweeping

\* A slot is taken: the first of the list, or the first that was never used.
LEMMA SlotTaken ==
  ASSUME NanoType, NEW b \in Blocks, BlockOK(b), CanAllocate(meta[b]), NEW next,
         next = IF FromList(meta[b]) /\ meta[b].free_count # 0
                THEN mem[<<b, meta[b].next_slot>>].next ELSE SLOT_BUMP
  PROVE  /\ TakenSlot(meta[b]) \in 1 .. Slots /\ Unowned(<<b, TakenSlot(meta[b])>>)
         /\ FromList(meta[b]) => mem[<<b, TakenSlot(meta[b])>>].guard
         /\ next \in Int /\ next # SLOT_MADVISING
<1>1. PICK n \in 0 .. Slots, u \in 0 .. Slots : \E L \in [1 .. n -> 1 .. Slots] :
        /\ Serving(b, n, u, L) /\ n + u \in 1 .. Slots /\ meta[b].free_count = n + u - 1
        /\ n = 0 => meta[b].next_slot = SLOT_BUMP /\ ~FromList(meta[b])
        /\ n > 0 => meta[b].next_slot = L[1] /\ L[1] \in 1 .. Slots /\ FromList(meta[b])
  BY ServingFacts
<1>2. PICK L \in [1 .. n -> 1 .. Slots] :
        /\ Serving(b, n, u, L) /\ n + u \in 1 .. Slots /\ meta[b].free_count = n + u - 1
        /\ n = 0 => meta[b].next_slot = SLOT_BUMP /\ ~FromList(meta[b])
        /\ n > 0 => meta[b].next_slot = L[1] /\ L[1] \in 1 .. Slots /\ FromList(meta[b])
  BY <1>1
<1>3. SLOT_BUMP \in Int /\ SLOT_BUMP # SLOT_MADVISING /\ \A i \in 1 .. Slots : i \in Int /\ i # SLOT_MADVISING
  BY SlotNumbers
<1>4. CASE n = 0
  <2>1. ~FromList(meta[b]) /\ meta[b].free_count = u - 1 /\ u \in 1 .. Slots /\ Slots \in Nat
    BY <1>2, <1>4, SlotNumbers
  <2>2. TakenSlot(meta[b]) = Slots - (u - 1) /\ next = SLOT_BUMP
    BY <2>1 DEF TakenSlot
  <2>3. Slots - (u - 1) \in 1 .. Slots /\ Slots - (u - 1) > Slots - u
    BY <2>1
  <2>4. Unowned(<<b, TakenSlot(meta[b])>>)
    BY <1>2, <2>2, <2>3 DEF Serving, Covered
  <2> QED  BY <1>3, <2>1, <2>2, <2>3, <2>4
<1>5. CASE n > 0
  <2>1. TakenSlot(meta[b]) = L[1] /\ 1 \in 1 .. n
    BY <1>2, <1>5 DEF TakenSlot
  <2>2. mem[<<b, L[1]>>] = [guard |-> TRUE, next |-> IF 1 = n THEN SLOT_BUMP ELSE L[1 + 1]]
    BY <1>2, <2>1 DEF Serving, Listing
  <2>3. mem[<<b, L[1]>>].guard /\ mem[<<b, L[1]>>].next \in Int /\ mem[<<b, L[1]>>].next # SLOT_MADVISING
    BY <1>3, <1>5, <2>2
  <2>4. Unowned(<<b, L[1]>>)
    BY <1>2, <1>5, <2>1 DEF Serving, Covered
  <2> QED  BY <1>2, <1>3, <1>5, <2>1, <2>3, <2>4
<1> QED
  BY <1>4, <1>5

LEMMA TakenFacts ==
  ASSUME NEW m, WordOK(m), NEW next \in Int
  PROVE  /\ WordOK(Taken(m, next)) /\ Taken(m, next).gen_count = (m.gen_count + 1) % GenCounts
         /\ m.free_count = 0 => Taken(m, next).next_slot = SLOT_FULL /\ Taken(m, next).free_count = FreeCounts - 1
         /\ m.free_count # 0 => /\ Taken(m, next).next_slot = next
                               /\ Taken(m, next).free_count = m.free_count - 1
<1> DEFINE f == m.free_count - 1
           x == IF m.free_count = 0 THEN SLOT_FULL ELSE next
           g == m.gen_count + 1
           w == Word(TRUE, f, x, g)
<1>1. /\ f \in Int /\ x \in Int /\ g \in Int /\ m.gen_count \in GenBits /\ m.free_count \in FreeBits
      /\ m.free_count # 0 => f \in FreeBits
      /\ m.free_count = 0 => f + 1 = 0
  <2>1. m.free_count \in FreeBits /\ m.gen_count \in GenBits
    BY WordParts
  <2>2. f \in Int
    BY WordParts
  <2>3. x \in Int
    BY DEF SLOT_FULL
  <2>4. g \in Int
    BY WordParts
  <2>5. m.free_count # 0 => f \in FreeBits
    BY <2>1, FreeBitsDown
  <2>6. m.free_count = 0 => f + 1 = 0
    OBVIOUS
  <2> QED  BY <2>1, <2>2, <2>3, <2>4, <2>5, <2>6
<1>2. Taken(m, next) = w
  BY DEF Taken
<1>3. g = m.gen_count + 1 /\ x = IF m.free_count = 0 THEN SLOT_FULL ELSE next
  OBVIOUS
<1>4. m.free_count # 0 => f = m.free_count - 1
  OBVIOUS
<1> HIDE DEF f, x, g
<1>5. WordIs(w, f, x, g)
  BY <1>1, TrueFacts
<1> HIDE DEF w
<1>6. WordOK(w) /\ w.next_slot = x
  BY <1>5 DEF WordIs
<1>7. w.free_count = IF m.free_count = 0 THEN FreeCounts - 1 ELSE m.free_count - 1
  BY <1>1, <1>4, <1>5 DEF WordIs
<1>8. w.gen_count = (m.gen_count + 1) % GenCounts
  BY <1>3, <1>5 DEF WordIs
<1> QED
  BY <1>2, <1>3, <1>6, <1>7, <1>8

LEMMA TakenIsWord ==
  ASSUME NEW m, WordOK(m), NEW next \in Int
  PROVE  WordOK(Taken(m, next))
  BY TakenFacts

LEMMA TakenNext ==
  ASSUME NEW m, WordOK(m), NEW next \in Int, m.free_count # 0
  PROVE  Taken(m, next).next_slot = next
  BY TakenFacts

LEMMA TakenCount ==
  ASSUME NEW m, WordOK(m), NEW next \in Int
  PROVE  /\ m.free_count = 0 => Taken(m, next).next_slot = SLOT_FULL /\ Taken(m, next).free_count = FreeCounts - 1
         /\ m.free_count # 0 => Taken(m, next).free_count = m.free_count - 1
  BY TakenFacts

LEMMA TakenKeeps ==
  ASSUME NanoType, NEW b \in Blocks, BlockOK(b), CanAllocate(meta[b]), NEW next,
         next = IF FromList(meta[b]) /\ meta[b].free_count # 0
                THEN mem[<<b, meta[b].next_slot>>].next ELSE SLOT_BUMP,
         meta'[b] = Taken(meta[b], next),
         \A i \in 1 .. Slots : i # TakenSlot(meta[b]) => mem'[<<b, i>>] = mem[<<b, i>>],
         \A i \in 1 .. Slots :
           Unowned(<<b, i>>)' <=> Unowned(<<b, i>>) /\ i # TakenSlot(meta[b])
  PROVE  BlockOK(b)'
<1>1. PICK n \in 0 .. Slots, u \in 0 .. Slots : \E L \in [1 .. n -> 1 .. Slots] :
        /\ Serving(b, n, u, L) /\ n + u \in 1 .. Slots /\ meta[b].free_count = n + u - 1
        /\ n = 0 => meta[b].next_slot = SLOT_BUMP /\ ~FromList(meta[b])
        /\ n > 0 => meta[b].next_slot = L[1] /\ L[1] \in 1 .. Slots /\ FromList(meta[b])
  BY ServingFacts
<1>2. PICK L \in [1 .. n -> 1 .. Slots] :
        /\ Serving(b, n, u, L) /\ n + u \in 1 .. Slots /\ meta[b].free_count = n + u - 1
        /\ n = 0 => meta[b].next_slot = SLOT_BUMP /\ ~FromList(meta[b])
        /\ n > 0 => meta[b].next_slot = L[1] /\ L[1] \in 1 .. Slots /\ FromList(meta[b])
  BY <1>1
<1>0. /\ n \in Nat /\ u \in Nat /\ Slots \in Nat /\ n + u <= Slots /\ n + u >= 1
  BY <1>2, SlotNumbers
<1>3. WordOK(meta[b])
  BY DEF NanoType, MetaOK
<1>4. next \in Int
  BY SlotTaken
<1>5. /\ meta'[b].next_slot = IF n + u = 1 THEN SLOT_FULL ELSE next
      /\ meta'[b].free_count = IF n + u = 1 THEN FreeCounts - 1 ELSE n + u - 2
  <2>1. meta[b].free_count = 0 <=> n + u = 1
    BY <1>2
  <2>2. meta[b].free_count - 1 = n + u - 2
    BY <1>2
  <2>3. /\ meta'[b].next_slot = IF meta[b].free_count = 0 THEN SLOT_FULL ELSE next
        /\ meta'[b].free_count = IF meta[b].free_count = 0 THEN FreeCounts - 1 ELSE meta[b].free_count - 1
    <3> DEFINE m == meta[b]
               w == Taken(m, next)
    <3>1. WordOK(m) /\ meta'[b] = w
      BY <1>3
    <3> HIDE DEF m
    <3>2. /\ m.free_count = 0 => w.next_slot = SLOT_FULL /\ w.free_count = FreeCounts - 1
          /\ m.free_count # 0 => w.next_slot = next /\ w.free_count = m.free_count - 1
      <4>1. m.free_count # 0 => w.next_slot = next
        BY <1>4, <3>1, TakenNext
      <4>2. /\ m.free_count = 0 => w.next_slot = SLOT_FULL /\ w.free_count = FreeCounts - 1
            /\ m.free_count # 0 => w.free_count = m.free_count - 1
        BY <1>4, <3>1, TakenCount
      <4> QED  BY <4>1, <4>2
    <3> HIDE DEF w
    <3> QED  BY <3>1, <3>2 DEF m
  <2> QED  BY <2>1, <2>2, <2>3
<1>6. CASE n = 0
  <2>0. ~FromList(meta[b]) /\ meta[b].free_count = u - 1 /\ u \in 1 .. Slots /\ Slots \in Nat
    <3>1. ~FromList(meta[b])
      BY <1>2, <1>6
    <3>2. meta[b].free_count = u - 1
      BY <1>2, <1>6
    <3> QED  BY <1>0, <1>6, <3>1, <3>2
  <2>1. TakenSlot(meta[b]) = Slots - (u - 1) /\ next = SLOT_BUMP /\ u - 1 \in 0 .. Slots
    BY <2>0 DEF TakenSlot
  <2>2. Listing(b, n, L)'
    BY <1>6 DEF Listing
  <2>3. Counted(meta[b], n, u - 1, L)'
    BY <1>2, <1>5, <1>6, <2>1, SlotNumbers DEF Counted
  <2>4. Covered(b, n, u - 1, L)'
    <3>1. \A i \in 1 .. Slots : Unowned(<<b, i>>) <=> i > Slots - u
      BY <1>2, <1>6 DEF Serving, Covered
    <3>2. \A i \in 1 .. Slots : Unowned(<<b, i>>)' <=> i > Slots - u /\ i # Slots - (u - 1)
      BY <2>1, <3>1
    <3>3. \A i \in 1 .. Slots : i > Slots - u /\ i # Slots - (u - 1) <=> i > Slots - (u - 1)
      BY <2>0
    <3> QED  BY <1>6, <3>2, <3>3 DEF Covered
  <2> QED  BY <1>2, <2>1, <2>2, <2>3, <2>4, ServingThen DEF Serving
<1>7. CASE n > 0
  <2> DEFINE k == n - 1
             K == [i \in 1 .. k |-> L[i + 1]]
  <2>1. /\ k \in 0 .. Slots /\ K \in [1 .. k -> 1 .. Slots] /\ \A i \in 1 .. k : K[i] = L[i + 1] /\ i + 1 \in 1 .. n
        /\ TakenSlot(meta[b]) = L[1]
        /\ \A i \in 2 .. n : L[i] # L[1]
    BY <1>2, <1>7, SlotNumbers DEF TakenSlot, Serving, Listing
  <2>2. Listing(b, k, K)'
    <3>1. \A i, j \in 1 .. k : K[i] = K[j] => i = j
      BY <1>2, <2>1 DEF Serving, Listing
    <3>2. \A i \in 1 .. k :
            mem'[<<b, K[i]>>] = [guard |-> TRUE, next |-> IF i = k THEN SLOT_BUMP ELSE K[i + 1]]
      <4> SUFFICES ASSUME NEW i \in 1 .. k
                   PROVE  mem'[<<b, K[i]>>] = [guard |-> TRUE, next |-> IF i = k THEN SLOT_BUMP ELSE K[i + 1]]
        OBVIOUS
      <4>1. i + 1 \in 2 .. n /\ L[i + 1] \in 1 .. Slots /\ L[i + 1] # L[1]
        BY <1>7, <2>1
      <4>2. mem'[<<b, L[i + 1]>>] = mem[<<b, L[i + 1]>>]
        BY <2>1, <4>1
      <4>3. mem[<<b, L[i + 1]>>] = [guard |-> TRUE, next |-> IF i + 1 = n THEN SLOT_BUMP ELSE L[i + 1 + 1]]
        BY <1>2, <4>1 DEF Serving, Listing
      <4>4. i # k => K[i + 1] = L[i + 1 + 1]
        BY <1>7, <2>1
      <4>5. i + 1 = n <=> i = k
        BY <1>7
      <4> HIDE DEF k, K
      <4> QED  BY <2>1, <4>2, <4>3, <4>4, <4>5
    <3> QED  BY <2>1, <3>1, <3>2 DEF Listing
  <2>3. Counted(meta[b], k, u, K)'
    <3>1. n + u # 1 => next = mem[<<b, L[1]>>].next
      <4>1. n + u # 1 => n + u - 1 # 0
        BY <1>0
      <4> QED  BY <1>2, <1>7, <4>1
    <3>2. 1 \in 1 .. n
      BY <1>7
    <3>3. mem[<<b, L[1]>>] = [guard |-> TRUE, next |-> IF 1 = n THEN SLOT_BUMP ELSE L[1 + 1]]
      BY <1>2, <3>2 DEF Serving, Listing
    <3>4. n + u # 1 => next = IF k = 0 THEN SLOT_BUMP ELSE K[1]
      BY <1>7, <2>1, <3>1, <3>3
    <3>5. /\ k + u <= Slots /\ k + u # Slots
          /\ (k + u = 0 <=> n + u = 1) /\ k + u - 1 = n + u - 2
      <4>1. k \in Nat /\ k + 1 = n
        BY <1>0, <1>7
      <4> HIDE DEF k
      <4> QED  BY <1>0, <4>1
    <3> HIDE DEF k, K
    <3> QED  BY <1>5, <3>4, <3>5 DEF Counted
  <2>4. Covered(b, k, u, K)'
    <3>1. \A i \in 1 .. n : L[i] <= Slots - u
      BY <1>2 DEF Serving, Covered
    <3>2. \A i \in 1 .. Slots : Unowned(<<b, i>>) <=> i > Slots - u \/ \E j \in 1 .. n : L[j] = i
      BY <1>2 DEF Serving, Covered
    <3>3. \A i : (\E j \in 1 .. n : L[j] = i) <=> i = L[1] \/ \E j \in 1 .. k : K[j] = i
      <4>1. \A j \in 1 .. n : j = 1 \/ (j - 1 \in 1 .. k /\ K[j - 1] = L[j])
        BY <1>7, <2>1
      <4>2. 1 \in 1 .. n
        BY <1>7
      <4>3. \A j \in 1 .. k : K[j] = L[j + 1] /\ j + 1 \in 1 .. n
        BY <2>1
      <4> HIDE DEF k, K
      <4>4. SUFFICES ASSUME NEW i
                     PROVE  (\E j \in 1 .. n : L[j] = i) <=> i = L[1] \/ \E j \in 1 .. k : K[j] = i
        OBVIOUS
      <4>5. ASSUME NEW j \in 1 .. n, L[j] = i PROVE i = L[1] \/ \E l \in 1 .. k : K[l] = i
        BY <4>1, <4>5
      <4>6. ASSUME NEW j \in 1 .. k, K[j] = i PROVE \E l \in 1 .. n : L[l] = i
        BY <4>3, <4>6
      <4>7. i = L[1] => \E l \in 1 .. n : L[l] = i
        BY <4>2
      <4> QED  BY <4>5, <4>6, <4>7
    <3>4. \A j \in 1 .. k : K[j] # L[1]
      BY <1>7, <2>1
    <3>5. L[1] \in 1 .. Slots /\ ~(L[1] > Slots - u)
      BY <1>2, <1>7, <3>1, SlotNumbers
    <3>6. \A i \in 1 .. k : K[i] <= Slots - u
      BY <2>1, <3>1
    <3> HIDE DEF k, K
    <3>7. \A i \in 1 .. Slots :
            Unowned(<<b, i>>)' <=> i > Slots - u \/ \E j \in 1 .. k : K[j] = i
      BY <2>1, <3>2, <3>3, <3>4, <3>5
    <3> QED  BY <3>6, <3>7 DEF Covered
  <2> HIDE DEF k, K
  <2> QED  BY <2>1, <2>2, <2>3, <2>4, ServingThen DEF Serving
<1> QED
  BY <1>6, <1>7

\* A call or the program becomes the owner of a slot that had none.
LEMMA CallOwns ==
  ASSUME NanoType, OneOwner, NEW t \in Callers, NEW c, Moves(t, c), th[t].slot = NoSlot,
         NEW s \in AllSlots, Unowned(s), c.slot = s, held' = held
  PROVE  OneOwner' /\ \A x \in AllSlots : Unowned(x)' <=> Unowned(x) /\ x # s
<1>1. \A u \in Callers : th'[u] = IF u = t THEN c ELSE th[u]
  BY DEF NanoType, Moves
<1>2. held[s] = 0 /\ \A u \in Callers : th[u].slot # s
  BY DEF Unowned
<1>3. OneOwner'
  BY <1>1, <1>2 DEF OneOwner
<1>4. ASSUME NEW x \in AllSlots PROVE Unowned(x)' <=> Unowned(x) /\ x # s
  BY <1>1, <1>4, BlockFacts DEF Unowned
<1> QED
  BY <1>3, <1>4

LEMMA ProgramOwns ==
  ASSUME NanoType, OneOwner, NEW t \in Callers, Moves(t, Idle), th[t].slot = NoSlot,
         NEW s \in AllSlots, Unowned(s), held' = [held EXCEPT ![s] = @ + 1]
  PROVE  /\ OneOwner' /\ held' \in [AllSlots -> {0, 1}]
         /\ \A x \in AllSlots : Unowned(x)' <=> Unowned(x) /\ x # s
<1>1. \A u \in Callers : th'[u] = IF u = t THEN Idle ELSE th[u]
  BY DEF NanoType, Moves
<1>2. held[s] = 0 /\ \A u \in Callers : th[u].slot # s
  BY DEF Unowned
<1>3. held' \in [AllSlots -> {0, 1}] /\ \A x \in AllSlots : held'[x] = IF x = s THEN 1 ELSE held[x]
  BY <1>2 DEF NanoType
<1>4. \A u \in Callers : th'[u].slot = th[u].slot /\ th[u].slot \in AllSlots \cup {NoSlot}
  BY <1>1, IdleFacts DEF NanoType, FrameOK
<1>5. OneOwner'
  BY <1>2, <1>3, <1>4 DEF OneOwner
<1>6. ASSUME NEW x \in AllSlots PROVE Unowned(x)' <=> Unowned(x) /\ x # s
  BY <1>2, <1>3, <1>4, <1>6 DEF Unowned
<1> QED
  BY <1>3, <1>5, <1>6

LEMMA TakesKeeps ==
  ASSUME NanoInv, NEW t \in Callers, th[t].at \in {"try", "swap"},
         NEW b, b = th[t].block, NEW m, m = meta[b], NEW next, CanAllocate(m),
         next = IF FromList(m) /\ m.free_count # 0 THEN mem[<<b, m.next_slot>>].next
                ELSE SLOT_BUMP,
         Takes(t, next), UNCHANGED <<current, madviseLock, lost>>
  PROVE  NanoInv'
<1>0. PICK i, s, w : i = TakenSlot(m) /\ s = <<b, i>> /\ w = Taken(m, next)
  OBVIOUS
<1>1. FrameOK(th[t]) /\ b \in Blocks /\ th[t].slot = NoSlot /\ th[t].cpu \in CPUs
  BY FrameNow DEF FrameOK
<1>2. /\ i \in 1 .. Slots /\ Unowned(s) /\ (FromList(m) => mem[s].guard)
      /\ next \in Int /\ next # SLOT_MADVISING
  BY <1>0, <1>1, SlotTaken DEF NanoInv
<1>3. s \in AllSlots
  BY <1>0, <1>1, <1>2, BlockFacts
<1>4. WordOK(m) /\ m.next_slot # SLOT_MADVISING
  <2>1. WordOK(m)
    BY <1>1 DEF NanoInv, NanoType, MetaOK
  <2>2. ~Emptied(b)
    BY DEF CanAllocate, Emptied
  <2>3. \E n, u \in 0 .. Slots : \E L \in [1 .. n -> 1 .. Slots] : Serving(b, n, u, L)
    BY <1>1, <2>2 DEF NanoInv, BlockOK
  <2> QED  BY <2>1, <2>3, ServingIsNotEmpty DEF Empties
<1>5. meta' = [meta EXCEPT ![b] = Taken(m, next)] /\ mem' = [mem EXCEPT ![s] = Data]
  BY <1>0, <1>2 DEF Takes
<1>6. /\ WordOK(w)
      /\ m.free_count = 0 => w.next_slot = SLOT_FULL
      /\ m.free_count # 0 => w.next_slot = next
  <2>1. WordOK(m) /\ next \in Int
    BY <1>2, <1>4
  <2>2. WordOK(w)
    BY <1>0, <2>1, TakenIsWord
  <2>4. m.free_count = 0 => w.next_slot = SLOT_FULL
    BY <1>0, <2>1, TakenFacts
  <2>5. m.free_count # 0 => w.next_slot = next
    BY <1>0, <2>1, TakenNext
  <2> QED  BY <2>2, <2>4, <2>5
<1>7. w.next_slot # SLOT_MADVISING
  <2>1. SLOT_FULL # SLOT_MADVISING
    BY DEF SLOT_FULL, SLOT_MADVISING
  <2>2. CASE m.free_count = 0
    BY <1>6, <2>1, <2>2
  <2>3. CASE m.free_count # 0
    BY <1>2, <1>6, <2>3
  <2> QED  BY <2>2, <2>3
<1>8. MetaOK' /\ \A d \in Blocks : meta'[d] = IF d = b THEN w ELSE meta[d]
  <2>1. meta' = [meta EXCEPT ![b] = w]
    BY <1>0, <1>5
  <2>2. WordOK(w)
    BY <1>6
  <2>3. MetaOK
    BY DEF NanoInv, NanoType
  <2> QED  BY <1>1, <2>1, <2>2, <2>3, MetaPut
<1>9. mem' \in [AllSlots -> Cells] /\ \A x \in AllSlots : mem'[x] = IF x = s THEN Data ELSE mem[x]
  <2>1. Data \in Cells
    BY DEF Data, Cells
  <2> QED  BY <1>3, <1>5, <2>1 DEF NanoInv, NanoType
<1>10. \E c : /\ Moves(t, c) /\ FrameOK(c) /\ c.at \in {"idle", "publish"}
              /\ held' \in [AllSlots -> {0, 1}] /\ OneOwner'
              /\ \A x \in AllSlots : Unowned(x)' <=> Unowned(x) /\ x # s
  <2>0. ~(FromList(m) /\ ~mem[s].guard)
    BY <1>2
  <2>1. CASE th[t].part = "found"
    <3> DEFINE e == Idle.old
               c == [th[t] EXCEPT !.at = "publish", !.slot = s, !.old = e, !.next = 0]
    <3>1. Moves(t, c) /\ held' = held
      BY <1>0, <2>0, <2>1 DEF Takes, Set, Moves
    <3>0. WordOK(e)
      BY IdleFacts, NullWord
    <3> HIDE DEF e
    <3>2. FrameOK(c) /\ c.slot = s /\ c.at = "publish"
      BY <1>1, <1>3, <3>0, BlockFacts DEF FrameOK, Fields
    <3> HIDE DEF c
    <3>3. OneOwner' /\ \A x \in AllSlots : Unowned(x)' <=> Unowned(x) /\ x # s
      BY <1>1, <1>2, <1>3, <3>1, <3>2, CallOwns DEF NanoInv
    <3> QED  BY <3>1, <3>2, <3>3 DEF NanoInv, NanoType
  <2>2. CASE th[t].part # "found"
    <3>1. Moves(t, Idle) /\ held' = [held EXCEPT ![s] = @ + 1]
      BY <1>0, <2>0, <2>2 DEF Takes, Set, Moves
    <3>2. /\ OneOwner' /\ held' \in [AllSlots -> {0, 1}]
          /\ \A x \in AllSlots : Unowned(x)' <=> Unowned(x) /\ x # s
      BY <1>1, <1>2, <1>3, <3>1, ProgramOwns DEF NanoInv
    <3> QED  BY <3>1, <3>2, IdleFacts
  <2> QED  BY <2>1, <2>2
<1>11. \A d \in Blocks, j \in 1 .. Slots : <<d, j>> = s <=> d = b /\ j = i
  BY <1>0
<1>12. ASSUME NEW d \in Blocks, NEW j \in 1 .. Slots
       PROVE  /\ d # b \/ j # i => mem'[<<d, j>>] = mem[<<d, j>>]
              /\ d # b \/ j # i => (Unowned(<<d, j>>)' <=> Unowned(<<d, j>>))
              /\ d = b /\ j = i => ~Unowned(<<d, j>>)'
  BY <1>9, <1>10, <1>11, BlockFacts
<1>13. BlockOK(b)'
  <2>1. \A j \in 1 .. Slots : j # i => mem'[<<b, j>>] = mem[<<b, j>>]
    BY <1>1, <1>12
  <2>2. \A j \in 1 .. Slots : Unowned(<<b, j>>)' <=> Unowned(<<b, j>>) /\ j # i
    BY <1>0, <1>1, <1>2, <1>12
  <2>3. meta'[b] = Taken(meta[b], next) /\ BlockOK(b) /\ CanAllocate(meta[b]) /\ i = TakenSlot(meta[b])
    BY <1>0, <1>1, <1>8 DEF NanoInv
  <2> QED  BY <1>1, <2>1, <2>2, <2>3, TakenKeeps DEF NanoInv
<1>14. ASSUME NEW d \in Blocks PROVE BlockOK(d)'
  <2>1. CASE d = b
    BY <1>13, <2>1
  <2>2. CASE d # b
    <3>1. meta'[d] = meta[d] /\ BlockOK(d)
      BY <1>8, <2>2 DEF NanoInv
    <3>2. \A j \in 1 .. Slots : mem'[<<d, j>>] = mem[<<d, j>>]
      BY <1>12, <2>2
    <3>3. \A j \in 1 .. Slots : Unowned(<<d, j>>)' <=> Unowned(<<d, j>>)
      BY <1>12, <2>2
    <3> QED  BY <3>1, <3>2, <3>3, BlockKept
  <2> QED  BY <2>1, <2>2
<1>15. (\A d \in Blocks : BlockOK(d))'
  BY <1>14
<1>16. Unguarded'
  <2>1. ~Data.guard
    BY DEF Data
  <2> QED  BY <1>3, <1>9, <1>10, <2>1 DEF NanoInv, Unguarded
<1>18. \A d \in Blocks : meta'[d].next_slot = SLOT_MADVISING <=> meta[d].next_slot = SLOT_MADVISING
  BY <1>4, <1>7, <1>8
<1>19. PICK c : /\ Moves(t, c) /\ FrameOK(c) /\ c.at \in {"idle", "publish"}
                /\ held' \in [AllSlots -> {0, 1}] /\ OneOwner'
  BY <1>10
<1>20. th[t].at \notin Sweeping /\ c.at \notin Sweeping 
  BY <1>19 DEF Sweeping
<1> QED
  BY <1>8, <1>9, <1>15, <1>16, <1>18, <1>19, <1>20, CallKeeps

LEMMA SwapTakesKeeps ==
  ASSUME NanoInv, NEW t \in Callers, SwapTakes(t), ~damaged'
  PROVE  NanoInv'
<1>1. PICK b, m, next : b = th[t].block /\ m = meta[b] /\ next = th[t].next
  OBVIOUS
<1>2. /\ th[t].at \in {"try", "swap"} /\ m = th[t].old /\ Takes(t, next)
      /\ UNCHANGED <<current, madviseLock, lost>> /\ ~StaleLink(t)
  BY <1>1 DEF SwapTakes, Doing
<1>3. LoadedOK(th[t]) /\ th[t].at = "swap"
  BY FrameNow DEF SwapTakes, Doing, FrameOK
<1>4. CanAllocate(m) /\ (~ReadsLink(m) => next = SLOT_BUMP)
  BY <1>1, <1>2, <1>3 DEF LoadedOK
<1>5. ReadsLink(m) => next = mem[<<b, m.next_slot>>].next
  BY <1>1, <1>2 DEF StaleLink
<1> QED
  BY <1>1, <1>2, <1>4, <1>5, TakesKeeps DEF ReadsLink

\* n different slots among n are all of them.
LEMMA AllListed ==
  ASSUME NEW n \in Nat, NEW K \in [1 .. n -> 1 .. n],
         \A i, j \in 1 .. n : K[i] = K[j] => i = j
  PROVE  \A i \in 1 .. n : \E j \in 1 .. n : K[j] = i
<1> SUFFICES ASSUME NEW i \in 1 .. n, \A j \in 1 .. n : K[j] # i PROVE FALSE
  OBVIOUS
<1>1. PICK S, T : S = 1 .. n /\ T = S \ {i}
  OBVIOUS
<1>2. IsFiniteSet(S) /\ Cardinality(S) = n /\ i \in S
  BY <1>1, FS_Interval
<1>3. IsFiniteSet(T) /\ Cardinality(T) < Cardinality(S)
  <2>1. IsFiniteSet(T) /\ Cardinality(T) = n - 1
    BY <1>1, <1>2, FS_RemoveElement
  <2> QED  BY <1>2, <2>1
<1>4. K \in [S -> T]
  BY <1>1
<1>5. \E x, y \in S : x # y /\ K[x] = K[y]
  <2>1. \A f \in [S -> T] : \E x, y \in S : x # y /\ f[x] = f[y]
    BY <1>2, <1>3, FS_PigeonHole
  <2> QED  BY <1>4, <2>1
<1> QED
  BY <1>1, <1>5

\* Does freeing a slot empty the block?
Last(m) == m.next_slot # SLOT_FULL /\ m.free_count + 1 = Slots - 1

LEMMA FreedFacts ==
  ASSUME NEW m, WordOK(m), NEW i \in 1 .. Slots, NEW w, w = Freed(m, i)
  PROVE  /\ WordOK(w) /\ (w.in_use <=> m.in_use) /\ w.gen_count = (m.gen_count + 1) % GenCounts
         /\ w.next_slot = IF ~Last(m) THEN i ELSE IF m.in_use THEN SLOT_BUMP ELSE SLOT_CAN_MADVISE
         /\ m.free_count # FreeCounts - 1 => w.free_count = m.free_count + 1
         /\ m.free_count = FreeCounts - 1 => w.free_count = 0
<1>1. PICK in_use, f, x, g :
        /\ in_use = m.in_use /\ f = m.free_count + 1 /\ g = m.gen_count + 1
        /\ x = IF ~Last(m) THEN i ELSE IF m.in_use THEN SLOT_BUMP ELSE SLOT_CAN_MADVISE
  OBVIOUS
<1>2. w = Word(in_use, f, x, g)
  BY <1>1 DEF Freed, Last
<1>3. in_use \in BOOLEAN
  BY <1>1 DEF WordOK
<1>4. f \in Int /\ g \in Int
  BY <1>1, WordParts
<1>5. x \in Int
  BY <1>1, SlotNumbers DEF SLOT_BUMP, SLOT_CAN_MADVISE
<1>6. WordIs(w, f, x, g) /\ w.in_use = in_use
  BY <1>2, <1>3, <1>4, <1>5, WordFacts
<1>7. m.free_count \in FreeBits /\ FreeCounts \in Nat /\ \A h \in Int : h = FreeCounts - 1 => h + 1 = FreeCounts
  BY WordParts, SlotNumbers
<1>8. w.gen_count = (m.gen_count + 1) % GenCounts
  BY <1>1, <1>6 DEF WordIs
<1>9. m.free_count # FreeCounts - 1 => w.free_count = m.free_count + 1
  <2>1. m.free_count # FreeCounts - 1 => f \in FreeBits
    <3>1. m.free_count # FreeCounts - 1 => m.free_count + 1 \in FreeBits
      BY <1>7, FreeBitsUp
    <3> QED  BY <1>1, <3>1
  <2>2. f \in FreeBits => w.free_count = f
    BY <1>6 DEF WordIs
  <2> QED  BY <1>1, <2>1, <2>2
<1>10. m.free_count = FreeCounts - 1 => w.free_count = 0
  BY <1>1, <1>6, <1>7 DEF WordIs
<1>11. WordOK(w) /\ w.next_slot = x
  BY <1>6 DEF WordIs
<1>12. w.in_use <=> m.in_use
  BY <1>1, <1>6
<1> QED
  BY <1>1, <1>8, <1>9, <1>10, <1>11, <1>12

\* A block with an owner is in use or draining, and not all of it is free.
LEMMA OwnedFacts ==
  ASSUME NEW b \in Blocks, BlockOK(b), NEW i \in 1 .. Slots, ~Unowned(<<b, i>>)
  PROVE  \E n, u \in 0 .. Slots : \E L \in [1 .. n -> 1 .. Slots] :
           /\ Serving(b, n, u, L) /\ n + u < Slots /\ i <= Slots - u
           /\ \A j \in 1 .. n : L[j] # i
<1>1. ~Emptied(b)
  BY DEF Emptied
<1>2. PICK n \in 0 .. Slots, u \in 0 .. Slots : \E L \in [1 .. n -> 1 .. Slots] : Serving(b, n, u, L)
  BY <1>1 DEF BlockOK
<1>3. PICK L \in [1 .. n -> 1 .. Slots] : Serving(b, n, u, L)
  BY <1>2
<1>4. ~(i > Slots - u) /\ \A j \in 1 .. n : L[j] # i
  BY <1>3 DEF Serving, Covered
<1>5. i <= Slots - u /\ u < Slots
  BY <1>4, SlotNumbers
<1>6. n + u < Slots
  BY <1>3, <1>5, SlotNumbers DEF Serving, Counted
<1> QED
  BY <1>3, <1>4, <1>5, <1>6

LEMMA FreedKeeps ==
  ASSUME NanoType, NEW b \in Blocks, BlockOK(b), NEW i \in 1 .. Slots, ~Unowned(<<b, i>>),
         NEW m, m = meta[b], NEW w, w = Freed(m, i), meta'[b] = w,
         mem'[<<b, i>>] = IF w.next_slot = i THEN Listed(m) ELSE mem[<<b, i>>],
         \A j \in 1 .. Slots : j # i => mem'[<<b, j>>] = mem[<<b, j>>],
         \A j \in 1 .. Slots : Unowned(<<b, j>>)' <=> Unowned(<<b, j>>) \/ j = i
  PROVE  BlockOK(b)'
<1>1. PICK n \in 0 .. Slots, u \in 0 .. Slots : \E L \in [1 .. n -> 1 .. Slots] :
        /\ Serving(b, n, u, L) /\ n + u < Slots /\ i <= Slots - u /\ \A j \in 1 .. n : L[j] # i
  BY OwnedFacts
<1>2. PICK L \in [1 .. n -> 1 .. Slots] :
        /\ Serving(b, n, u, L) /\ n + u < Slots /\ i <= Slots - u /\ \A j \in 1 .. n : L[j] # i
  BY <1>1
<1>3. n \in Nat /\ u \in Nat /\ Slots \in Nat /\ Slots >= 2 /\ Slots <= FreeCounts /\ FreeCounts \in Nat
  <2>1. Slots \in Nat /\ Slots >= 2 /\ Slots <= FreeCounts /\ FreeCounts \in Nat
    BY SlotNumbers
  <2> QED  BY <2>1
<1>4. Listing(b, n, L) /\ Counted(m, n, u, L) /\ Covered(b, n, u, L)
  BY <1>2 DEF Serving
<1>5. /\ WordOK(m) /\ WordOK(w) /\ (w.in_use <=> m.in_use)
      /\ w.next_slot = IF ~Last(m) THEN i ELSE IF m.in_use THEN SLOT_BUMP ELSE SLOT_CAN_MADVISE
      /\ m.free_count # FreeCounts - 1 => w.free_count = m.free_count + 1
      /\ m.free_count = FreeCounts - 1 => w.free_count = 0
  <2>1. WordOK(m)
    BY DEF NanoType, MetaOK
  <2> QED  BY <2>1, FreedFacts
<1>6. n + u = 0 => m.next_slot = SLOT_FULL /\ m.free_count = FreeCounts - 1
  BY <1>4 DEF Counted
<1>7. n + u # 0 => /\ m.free_count = n + u - 1 /\ m.next_slot # SLOT_FULL
                   /\ m.next_slot = IF n = 0 THEN SLOT_BUMP ELSE L[1]
  <2>1. n > 0 => L[1] \in 1 .. Slots
    OBVIOUS
  <2>2. n + u # 0 => m.free_count = n + u - 1 /\ m.next_slot = IF n = 0 THEN SLOT_BUMP ELSE L[1]
    BY <1>4 DEF Counted
  <2>3. n # 0 => L[1] \in 1 .. Slots /\ L[1] # SLOT_FULL
    BY <1>3, <2>1, SlotNumbers
  <2> QED  BY <2>2, <2>3, SlotNumbers
<1>8. Last(m) <=> n + u = Slots - 1
  <2>1. CASE n + u = 0
    <3>1. Slots - 1 # 0
      BY SlotNumbers
    <3>2. n + u # Slots - 1
      BY <2>1, <3>1
    <3> QED  BY <1>6, <2>1, <3>2 DEF Last
  <2>2. CASE n + u # 0
    <3>1. (n + u - 1) + 1 = n + u
      BY <1>3
    <3> QED  BY <1>7, <2>2, <3>1 DEF Last
  <2> QED  BY <2>1, <2>2
<1>9. w.free_count = n + u
  <2>1. CASE n + u = 0
    BY <1>5, <1>6, <2>1
  <2>2. CASE n + u # 0
    <3>1. m.free_count = n + u - 1 /\ n + u - 1 # FreeCounts - 1 /\ (n + u - 1) + 1 = n + u
      <4>1. n + u < Slots
        BY <1>2
      <4>2. n + u - 1 # FreeCounts - 1 /\ (n + u - 1) + 1 = n + u
        BY <1>3, <4>1
      <4> QED  BY <1>7, <2>2, <4>2
    <3> QED  BY <1>5, <3>1
  <2> QED  BY <2>1, <2>2
<1>10. PICK k, K : k = n + 1 /\ K = [j \in 1 .. k |-> IF j = 1 THEN i ELSE L[j - 1]]
  OBVIOUS
<1>11. /\ k \in 1 .. Slots /\ k \in Nat /\ k + u <= Slots /\ 1 \in 1 .. k
       /\ \A j \in 1 .. k : j = 1 \/ j - 1 \in 1 .. n
       /\ \A j \in 1 .. n : j + 1 \in 1 .. k /\ j + 1 # 1 /\ (j + 1) - 1 = j
  BY <1>2, <1>3, <1>10
<1>12. /\ K[1] = i /\ \A j \in 1 .. k : j # 1 => K[j] = L[j - 1]
  BY <1>10, <1>11
<1>13. K \in [1 .. k -> 1 .. Slots] /\ \A j \in 1 .. k : K[j] <= Slots - u
  BY <1>2, <1>4, <1>10, <1>11, <1>12 DEF Covered
<1>14. \A x, y \in 1 .. k : K[x] = K[y] => x = y
  <2>1. \A x \in 1 .. k : x # 1 => K[x] = L[x - 1] /\ K[x] # i /\ x - 1 \in 1 .. n
    <3>1. SUFFICES ASSUME NEW x \in 1 .. k, x # 1
                   PROVE  K[x] = L[x - 1] /\ K[x] # i /\ x - 1 \in 1 .. n
      OBVIOUS
    <3>2. K[x] = L[x - 1] /\ x - 1 \in 1 .. n
      BY <1>11, <1>12, <3>1
    <3> QED  BY <1>2, <3>2
  <2>2. \A x, y \in 1 .. k : x - 1 = y - 1 => x = y
    BY <1>11
  <2>3. \A x, y \in 1 .. n : L[x] = L[y] => x = y
    BY <1>4 DEF Listing
  <2> QED  BY <1>12, <2>1, <2>2, <2>3
<1>15. \A j : (\E x \in 1 .. k : K[x] = j) <=> j = i \/ \E x \in 1 .. n : L[x] = j
  <2>1. \A x \in 1 .. k : x = 1 \/ (x - 1 \in 1 .. n /\ K[x] = L[x - 1])
    BY <1>11, <1>12
  <2>2. \A x \in 1 .. n : x + 1 \in 1 .. k /\ K[x + 1] = L[x]
    BY <1>11, <1>12
  <2>3. SUFFICES ASSUME NEW j
        PROVE  (\E x \in 1 .. k : K[x] = j) <=> j = i \/ \E x \in 1 .. n : L[x] = j
    OBVIOUS
  <2>4. ASSUME NEW x \in 1 .. k, K[x] = j PROVE j = i \/ \E y \in 1 .. n : L[y] = j
    BY <1>12, <2>1, <2>4
  <2>5. ASSUME NEW x \in 1 .. n, L[x] = j PROVE \E y \in 1 .. k : K[y] = j
    BY <2>2, <2>5
  <2>6. j = i => \E x \in 1 .. k : K[x] = j
    BY <1>11, <1>12
  <2> QED  BY <2>4, <2>5, <2>6
<1>16. \A j \in 1 .. Slots :
         Unowned(<<b, j>>)' <=> j > Slots - u \/ \E x \in 1 .. k : K[x] = j
  BY <1>4, <1>15 DEF Covered
<1>17. CASE ~Last(m)
  <2>1. Counted(meta[b], k, u, K)'
    <3>1. k + u <= Slots /\ k + u # Slots /\ k + u # 0 /\ w.free_count = k + u - 1 /\ k # 0
      <4>1. n + u < Slots /\ n + u # Slots - 1
        BY <1>2, <1>8, <1>17
      <4>2. k + u <= Slots /\ k + u # Slots /\ k + u # 0 /\ n + u = k + u - 1 /\ k # 0
        BY <1>3, <1>10, <4>1
      <4> QED  BY <1>9, <4>2
    <3>2. w.next_slot = K[1]
      BY <1>5, <1>12, <1>17
    <3> QED  BY <3>1, <3>2 DEF Counted
  <2>2. Covered(b, k, u, K)'
    BY <1>13, <1>16 DEF Covered
  <2>3. \A j \in 1 .. k :
          mem'[<<b, K[j]>>] = [guard |-> TRUE, next |-> IF j = k THEN SLOT_BUMP ELSE K[j + 1]]
    <3>1. SUFFICES ASSUME NEW j \in 1 .. k
                   PROVE  mem'[<<b, K[j]>>]
                            = [guard |-> TRUE, next |-> IF j = k THEN SLOT_BUMP ELSE K[j + 1]]
      OBVIOUS
    <3>2. CASE j = 1
      <4>1. mem'[<<b, K[j]>>] = Listed(m)
        BY <1>5, <1>12, <1>17, <3>2
      <4>2. (IF m.next_slot = SLOT_FULL THEN SLOT_BUMP ELSE m.next_slot) = IF n = 0 THEN SLOT_BUMP ELSE L[1]
        BY <1>3, <1>6, <1>7
      <4>3. n # 0 => K[2] = L[1]
        BY <1>3, <1>10, <1>12
      <4>4. (IF n = 0 THEN SLOT_BUMP ELSE L[1]) = IF j = k THEN SLOT_BUMP ELSE K[j + 1]
        BY <1>3, <1>10, <3>2, <4>3
      <4> QED  BY <4>1, <4>2, <4>4 DEF Listed
    <3>3. CASE j # 1
      <4>1. PICK x \in 1 .. n : x = j - 1
        BY <1>11, <3>3
      <4>2. K[j] = L[x] /\ L[x] # i /\ L[x] \in 1 .. Slots
        BY <1>2, <1>12, <3>3, <4>1
      <4>3. mem'[<<b, K[j]>>] = [guard |-> TRUE, next |-> IF x = n THEN SLOT_BUMP ELSE L[x + 1]]
        BY <1>4, <4>2 DEF Listing
      <4>4. j = k <=> x = n
        BY <1>3, <1>10, <4>1
      <4>5. j # k => K[j + 1] = L[x + 1]
        <5>1. j # k => j + 1 \in 1 .. k /\ j + 1 # 1 /\ (j + 1) - 1 = x + 1
          BY <1>3, <1>10, <4>1
        <5> QED  BY <1>12, <5>1
      <4> QED  BY <4>3, <4>4, <4>5
    <3> QED  BY <3>2, <3>3
  <2>4. Listing(b, k, K)'
    BY <1>13, <1>14, <2>3 DEF Listing
  <2>5. k \in 0 .. Slots
    BY <1>11
  <2> QED  BY <1>13, <2>1, <2>2, <2>4, <2>5, ServingThen DEF Serving
<1>18. CASE Last(m)
  <2>1. \A j \in 1 .. Slots : Unowned(<<b, j>>)'
    <3>1. k = Slots - u /\ k + u = Slots
      BY <1>3, <1>8, <1>10, <1>18
    <3>2. K \in [1 .. k -> 1 .. k]
      BY <1>3, <1>13, <3>1
    <3>3. \A j \in 1 .. k : \E x \in 1 .. k : K[x] = j
      <4>1. k \in Nat
        BY <1>11
      <4> QED  BY <1>14, <3>2, <4>1, AllListed
    <3>4. \A j \in 1 .. Slots : j > Slots - u \/ j \in 1 .. k
      BY <1>3, <3>1
    <3> QED  BY <1>16, <3>3, <3>4
  <2>2. CASE ~m.in_use
    <3>1. w.next_slot = SLOT_CAN_MADVISE /\ ~w.in_use
      BY <1>5, <1>18, <2>2
    <3> QED  BY <2>1, <3>1 DEF BlockOK, Emptied, Empties
  <2>3. CASE m.in_use
    <3>1. w.next_slot = SLOT_BUMP /\ w.free_count = Slots - 1
      BY <1>5, <1>8, <1>9, <1>18, <2>3
    <3>2. BlockOK(b)'
      BY <2>1, <3>1, AllUnused
    <3> QED  BY <3>2
  <2> QED  BY <2>2, <2>3
<1> QED
  BY <1>17, <1>18

\* A call gives up its slot.
LEMMA CallGives ==
  ASSUME NanoType, OneOwner, NEW t \in Callers, NEW c, Moves(t, c), c.slot = NoSlot,
         NEW s \in AllSlots, th[t].slot = s, held' = held
  PROVE  OneOwner' /\ \A x \in AllSlots : Unowned(x)' <=> Unowned(x) \/ x = s
<1>1. \A u \in Callers : th'[u] = IF u = t THEN c ELSE th[u]
  BY DEF NanoType, Moves
<1>2. s # NoSlot /\ held[s] = 0 /\ \A u \in Callers : u # t => th[u].slot # s
  BY BlockFacts DEF OneOwner
<1>3. OneOwner'
  BY <1>1, <1>2 DEF OneOwner
<1>4. ASSUME NEW x \in AllSlots PROVE Unowned(x)' <=> Unowned(x) \/ x = s
  <2>1. x # NoSlot
    BY BlockFacts
  <2>2. CASE x = s
    BY <1>1, <1>2, <2>1, <2>2 DEF Unowned
  <2>3. CASE x # s
    BY <1>1, <2>1, <2>3 DEF Unowned
  <2> QED  BY <2>2, <2>3
<1> QED
  BY <1>3, <1>4

LEMMA FreesToBlockKeeps ==
  ASSUME NanoInv, NEW t \in Callers, FreesToBlock(t)
  PROVE  NanoInv'
<1>1. PICK s, b, i, m, w : /\ s = th[t].slot /\ b = s[1] /\ i = s[2] /\ m = meta[b]
                           /\ w = Freed(m, i)
  OBVIOUS
<1>2. FrameOK(th[t]) /\ th[t].at = "free" /\ s \in AllSlots
  BY <1>1, FrameNow DEF FreesToBlock, Doing, FrameOK
<1>3. b \in Blocks /\ i \in 1 .. Slots /\ s = <<b, i>>
  BY <1>1, <1>2, BlockFacts
<1>4. ~Unowned(s)
  BY <1>1 DEF Unowned
<1>5. WordOK(m) /\ BlockOK(b)
  BY <1>1, <1>3 DEF NanoInv, NanoType, MetaOK
<1>6. m.next_slot \notin Empties
  <2>1. \E n, u \in 0 .. Slots : \E L \in [1 .. n -> 1 .. Slots] : Serving(b, n, u, L)
    BY <1>3, <1>4, <1>5, OwnedFacts
  <2> QED  BY <1>1, <2>1, ServingIsNotEmpty
<1>7. /\ WordOK(w)
      /\ w.next_slot = IF ~Last(m) THEN i ELSE IF m.in_use THEN SLOT_BUMP ELSE SLOT_CAN_MADVISE
  BY <1>1, <1>3, <1>5, FreedFacts
<1>8. w.next_slot # SLOT_MADVISING /\ m.next_slot # SLOT_MADVISING
  <2>1. i # SLOT_MADVISING
    BY <1>3, SlotNumbers DEF SLOT_MADVISING
  <2>2. SLOT_BUMP # SLOT_MADVISING /\ SLOT_CAN_MADVISE # SLOT_MADVISING
    BY DEF SLOT_BUMP, SLOT_CAN_MADVISE, SLOT_MADVISING
  <2>3. w.next_slot \in {i, SLOT_BUMP, SLOT_CAN_MADVISE}
    BY <1>7
  <2> QED  BY <1>6, <2>1, <2>2, <2>3 DEF Empties
<1>9. meta' = [meta EXCEPT ![b] = w]
  BY <1>1 DEF FreesToBlock
<1>10. MetaOK' /\ \A d \in Blocks : meta'[d] = IF d = b THEN w ELSE meta[d]
  <2>1. WordOK(w) /\ MetaOK
    BY <1>7 DEF NanoInv, NanoType
  <2> QED  BY <1>3, <1>9, <2>1, MetaPut
<1>11. mem' = IF w.next_slot = i THEN [mem EXCEPT ![s] = Listed(m)] ELSE mem
  BY <1>1 DEF FreesToBlock
<1>12. /\ mem' \in [AllSlots -> Cells]
       /\ mem'[s] = IF w.next_slot = i THEN Listed(m) ELSE mem[s]
       /\ \A x \in AllSlots : x # s => mem'[x] = mem[x]
  <2>1. Listed(m) \in Cells
    <3>1. m.next_slot \in Int /\ SLOT_BUMP \in Int
      BY <1>5, WordParts DEF SLOT_BUMP
    <3> QED  BY <3>1 DEF Listed, Cells
  <2>2. mem \in [AllSlots -> Cells]
    BY DEF NanoInv, NanoType
  <2> QED  BY <1>2, <1>11, <2>1, <2>2
<1>13. PICK c : Moves(t, c) /\ FrameOK(c) /\ c.slot = NoSlot /\ c.at \in {"idle", "drained", "madvise"}
  <2>1. PICK d : d = (~w.in_use /\ w.free_count >= Drained)
    OBVIOUS
  <2>2. CASE w.next_slot = SLOT_CAN_MADVISE /\ immediate
    <3> DEFINE c == [Idle EXCEPT !.at = "madvise", !.todo = {b}, !.drained = d]
    <3>1. Moves(t, c)
      BY <1>1, <2>1, <2>2 DEF FreesToBlock, Set, Moves
    <3>2. FrameOK(c) /\ c.slot = NoSlot /\ c.at = "madvise"
      BY <1>3, IdleFacts DEF FrameOK, Fields
    <3> HIDE DEF c
    <3> QED  BY <3>1, <3>2
  <2>3. CASE ~(w.next_slot = SLOT_CAN_MADVISE /\ immediate)
    <3>1. PICK p : p = IF d THEN "drained" ELSE "idle"
      OBVIOUS
    <3> DEFINE c == [Idle EXCEPT !.at = p]
    <3>2. Moves(t, c)
      BY <1>1, <2>1, <2>3, <3>1 DEF FreesToBlock, Set, Moves
    <3>3. p \in {"drained", "idle"}
      BY <3>1
    <3>4. FrameOK(c) /\ c.slot = NoSlot /\ c.at = p
      BY <3>3, IdleFacts DEF FrameOK, Fields
    <3> HIDE DEF c
    <3> QED  BY <3>2, <3>3, <3>4
  <2> QED  BY <2>2, <2>3
<1>14. UNCHANGED <<held, lost, madviseLock, current>>
  BY DEF FreesToBlock
<1>15. OneOwner' /\ \A x \in AllSlots : Unowned(x)' <=> Unowned(x) \/ x = s
  BY <1>1, <1>2, <1>13, <1>14, CallGives DEF NanoInv
<1>16. ASSUME NEW d \in Blocks, NEW j \in 1 .. Slots
       PROVE  /\ d # b \/ j # i => mem'[<<d, j>>] = mem[<<d, j>>]
              /\ d # b \/ j # i => (Unowned(<<d, j>>)' <=> Unowned(<<d, j>>))
              /\ d = b /\ j = i => Unowned(<<d, j>>)'
  <2>1. <<d, j>> = s <=> d = b /\ j = i
    BY <1>3
  <2> QED  BY <1>12, <1>15, <2>1, BlockFacts
<1>17. BlockOK(b)'
  <2>1. \A j \in 1 .. Slots : j # i => mem'[<<b, j>>] = mem[<<b, j>>]
    BY <1>3, <1>16
  <2>2. \A j \in 1 .. Slots : Unowned(<<b, j>>)' <=> Unowned(<<b, j>>) \/ j = i
    BY <1>3, <1>16
  <2>3. meta'[b] = w /\ mem'[<<b, i>>] = IF w.next_slot = i THEN Listed(m) ELSE mem[<<b, i>>]
    BY <1>3, <1>10, <1>12
  <2>4. NanoType
    BY DEF NanoInv
  <2>5. ~Unowned(<<b, i>>) /\ BlockOK(b) /\ b \in Blocks /\ i \in 1 .. Slots
    BY <1>3, <1>4, <1>5
  <2>6. m = meta[b] /\ w = Freed(m, i)
    BY <1>1
  <2> QED  BY <2>1, <2>2, <2>3, <2>4, <2>5, <2>6, FreedKeeps
<1>18. ASSUME NEW d \in Blocks PROVE BlockOK(d)'
  <2>1. CASE d = b
    BY <1>17, <2>1
  <2>2. CASE d # b
    <3>1. meta'[d] = meta[d] /\ BlockOK(d)
      BY <1>10, <2>2 DEF NanoInv
    <3>2. \A j \in 1 .. Slots : mem'[<<d, j>>] = mem[<<d, j>>]
      BY <1>16, <2>2
    <3>3. \A j \in 1 .. Slots : Unowned(<<d, j>>)' <=> Unowned(<<d, j>>)
      BY <1>16, <2>2
    <3> QED  BY <3>1, <3>2, <3>3, BlockKept
  <2> QED  BY <2>1, <2>2
<1>19. (\A d \in Blocks : BlockOK(d))'
  BY <1>18
<1>20. Unguarded'
  BY <1>12, <1>15 DEF NanoInv, Unguarded
<1>22. \A d \in Blocks : meta'[d].next_slot = SLOT_MADVISING <=> meta[d].next_slot = SLOT_MADVISING
  BY <1>1, <1>8, <1>10
<1>23. th[t].at \notin Sweeping /\ c.at \notin Sweeping 
  BY <1>2, <1>13 DEF Sweeping
<1>24. held' \in [AllSlots -> {0, 1}]
  BY <1>14 DEF NanoInv, NanoType
<1> QED
  BY <1>10, <1>12, <1>13, <1>14, <1>15, <1>19, <1>20, <1>22, <1>23, <1>24, CallKeeps

\* A step in which no slot changes its owner
LEMMA OwnersKeep ==
  ASSUME NanoInv, NEW t \in Callers, NEW c, Moves(t, c), FrameOK(c),
         c.slot = th[t].slot, UNCHANGED <<held, current>>,
         MetaOK', mem' \in [AllSlots -> Cells], lost' = {}, MadviseOK',
         (\A b \in Blocks : BlockOK(b))',
         \A s \in AllSlots : mem'[s].guard => mem[s].guard
  PROVE  NanoInv'
<1>1. NanoType'
  BY TypeMoves DEF NanoInv, NanoType
<1>2. OneOwner' /\ \A s : Unowned(s)' <=> Unowned(s)
  BY SlotKept, UnownedKept DEF NanoInv
<1>3. Unguarded'
  BY <1>2 DEF NanoInv, Unguarded
<1> QED
  BY <1>1, <1>2, <1>3 DEF NanoInv

\* ... and in which no word changes and no memory
LEMMA MemoryKept ==
  ASSUME NanoInv, NEW t \in Callers, NEW c, Moves(t, c), FrameOK(c),
         c.slot = th[t].slot,
         UNCHANGED <<meta, mem, held, lost, current>>, MadviseOK'
  PROVE  NanoInv'
<1>1. \A s : Unowned(s)' <=> Unowned(s)
  BY SlotKept, UnownedKept DEF NanoInv
<1>2. (\A b \in Blocks : BlockOK(b))'
  BY <1>1, BlockKept DEF NanoInv
<1>3. MetaOK' /\ mem' \in [AllSlots -> Cells] /\ lost' = {}
  BY MetaKept DEF NanoInv, NanoType
<1> QED
  BY <1>2, <1>3, OwnersKeep

LEMMA MadviseLocksKeeps ==
  ASSUME NanoInv, NEW t \in Callers, MadviseLocks(t)
  PROVE  NanoInv'
<1> DEFINE c == [th[t] EXCEPT !.at = "sweep"]
<1>1. Moves(t, c) /\ FrameOK(th[t]) /\ th[t].at = "madvise"
  BY FrameNow DEF MadviseLocks, Set, Moves, Doing
<1>2. FrameOK(c) /\ c.slot = th[t].slot /\ c.at = "sweep"
  BY <1>1 DEF FrameOK, Fields
<1> HIDE DEF c
<1>3. \A u \in Callers : th'[u] = IF u = t THEN c ELSE th[u]
  BY <1>1 DEF Moves, NanoInv, NanoType
<1>4. /\ madviseLock = NoCaller /\ madviseLock' = t
      /\ UNCHANGED <<meta, mem, held, lost, current>>
  BY DEF MadviseLocks
<1>5. MadviseOK'
  BY <1>1, <1>2, <1>3, <1>4, CallersAssumption DEF NanoInv, MadviseOK
<1> QED
  BY <1>1, <1>2, <1>4, <1>5, MemoryKept

LEMMA MadviseUnlocksKeeps ==
  ASSUME NanoInv, NEW t \in Callers, MadviseUnlocks(t)
  PROVE  NanoInv'
<1>1. FrameOK(th[t]) /\ th[t].at = "sweep" /\ th[t].slot = NoSlot
  BY FrameNow DEF MadviseUnlocks, Doing, FrameOK
<1>2. PICK c : Moves(t, c) /\ FrameOK(c) /\ c.slot = NoSlot /\ c.at \in {"idle", "drained", "madvise"}
  <2>1. PICK a, B : a = th[t].arena + 1 /\ B = BlocksOf(a)
    OBVIOUS
  <2>2. CASE th[t].arena > 0 /\ a < nextArena
    <3> DEFINE c == [th[t] EXCEPT !.at = "madvise", !.arena = a, !.todo = B]
    <3>1. Moves(t, c) /\ B \subseteq Blocks
      BY <2>1, <2>2, BlockFacts DEF MadviseUnlocks, Set, Moves
    <3>2. FrameOK(c) /\ c.slot = NoSlot /\ c.at = "madvise"
      BY <1>1, <3>1 DEF FrameOK, Fields
    <3> HIDE DEF c
    <3> QED  BY <3>1, <3>2
  <2>3. CASE ~(th[t].arena > 0 /\ a < nextArena)
    <3>1. PICK p : p = IF th[t].drained THEN "drained" ELSE "idle"
      OBVIOUS
    <3> DEFINE c == [Idle EXCEPT !.at = p]
    <3>2. Moves(t, c) /\ p \in {"drained", "idle"}
      BY <2>1, <2>3, <3>1 DEF MadviseUnlocks, Set, Moves
    <3>3. FrameOK(c) /\ c.slot = NoSlot /\ c.at = p
      BY <3>2, IdleFacts DEF FrameOK, Fields
    <3> HIDE DEF c
    <3> QED  BY <3>2, <3>3
  <2> QED  BY <2>2, <2>3
<1>3. \A u \in Callers : th'[u] = IF u = t THEN c ELSE th[u]
  BY <1>2 DEF Moves, NanoInv, NanoType
<1>4. madviseLock' = NoCaller /\ UNCHANGED <<meta, mem, held, lost, current>>
  BY DEF MadviseUnlocks
<1>5. MadviseOK'
  BY <1>1, <1>2, <1>3, <1>4, CallersAssumption DEF NanoInv, MadviseOK
<1> QED
  BY <1>1, <1>2, <1>4, <1>5, MemoryKept

\* A slot without an owner has none in the count of the program either.
LEMMA NoOwners ==
  ASSUME NEW s, Unowned(s)
  PROVE  Owners(s) = 0
<1>1. {t \in Callers : th[t].slot = s} = {}
  BY DEF Unowned
<1>2. Cardinality({t \in Callers : th[t].slot = s}) = 0
  BY <1>1, FS_EmptySet
<1> QED
  BY <1>2 DEF Owners, Unowned

\* The system call on a block without owners discards nothing.
LEMMA MadviseFreeFacts ==
  ASSUME NanoInv, NEW b \in Blocks, Reclaims => Emptied(b), MadviseFree(b)
  PROVE  /\ mem' \in [AllSlots -> Cells] /\ lost' = {}
         /\ \A s \in AllSlots : mem'[s].guard => mem[s].guard
         /\ \A s \in AllSlots : mem'[s] = mem[s] \/ (s[1] = b /\ Emptied(b))
<1>0. mem \in [AllSlots -> Cells] /\ lost = {}
  BY DEF NanoInv, NanoType
<1>1. CASE ~Reclaims
  BY <1>0, <1>1 DEF MadviseFree
<1>2. CASE Reclaims
  <2>1. PICK here, zero : here = {s \in AllSlots : s[1] = b} /\ zero = [guard |-> FALSE, next |-> 0]
    OBVIOUS
  <2>2. /\ mem' = [s \in AllSlots |-> IF s \in here THEN zero ELSE mem[s]]
        /\ lost' = lost \cup {s \in here : Owners(s) > 0}
    BY <1>2, <2>1 DEF MadviseFree
  <2>3. zero \in Cells /\ ~zero.guard
    BY <2>1 DEF Cells
  <2>4. \A s \in here : Owners(s) = 0
    <3>1. ASSUME NEW s \in here PROVE Owners(s) = 0
      <4>1. s = <<b, s[2]>> /\ s[2] \in 1 .. Slots
        BY <2>1, BlockFacts
      <4>2. Unowned(<<b, s[2]>>)
        BY <1>2, <4>1 DEF Emptied
      <4> QED  BY <4>1, <4>2, NoOwners
    <3> QED  BY <3>1
  <2>5. lost' = {}
    BY <1>0, <2>2, <2>4
  <2>6. mem' \in [AllSlots -> Cells] /\ \A s \in AllSlots : mem'[s] = IF s \in here THEN zero ELSE mem[s]
    BY <1>0, <2>2, <2>3
  <2> QED  BY <1>2, <2>1, <2>3, <2>5, <2>6
<1> QED
  BY <1>1, <1>2

LEMMA EmptiedKept ==
  ASSUME NEW b, Emptied(b), meta'[b].next_slot \in Empties, ~meta'[b].in_use,
         \A s : Unowned(s)' <=> Unowned(s)
  PROVE  BlockOK(b)'
  BY DEF BlockOK, Emptied

\* A word of those tells that the block is empty.
LEMMA EmptyWord ==
  ASSUME NanoInv, NEW b \in Blocks, meta[b].next_slot \in Empties
  PROVE  Emptied(b)
<1>1. ~ \E n, u \in 0 .. Slots : \E L \in [1 .. n -> 1 .. Slots] : Serving(b, n, u, L)
  BY ServingIsNotEmpty
<1> QED
  BY <1>1 DEF NanoInv, BlockOK

\* ... and one that does not tell that it was taken into use.
LEMMA NotOpened ==
  ASSUME NEW b \in Blocks, BlockOK(b), ~Opened(meta[b])
  PROVE  Emptied(b)
<1> SUFFICES ASSUME ~Emptied(b) PROVE FALSE
  OBVIOUS
<1>1. PICK n \in 0 .. Slots, u \in 0 .. Slots : \E L \in [1 .. n -> 1 .. Slots] : Serving(b, n, u, L)
  BY DEF BlockOK
<1>2. PICK L \in [1 .. n -> 1 .. Slots] : Serving(b, n, u, L)
  BY <1>1
<1>3. n # 0 => L[1] \in 1 .. Slots
  OBVIOUS
<1>4. meta[b].next_slot \in (1 .. Slots) \cup {SLOT_BUMP, SLOT_FULL}
  BY <1>2, <1>3 DEF Serving, Counted
<1> QED
  BY <1>4 DEF Opened

LEMMA RemadvisesKeeps ==
  ASSUME NanoInv, NEW t \in Callers, Remadvises(t), ~damaged'
  PROVE  NanoInv'
<1>1. PICK b, c : b = th[t].block /\ c = NullFrame(th[t])
  OBVIOUS
<1>2. FrameOK(th[t]) /\ th[t].at = "raced" /\ th[t].slot = NoSlot /\ b \in Blocks
  BY <1>1, FrameNow DEF Remadvises, Doing, FrameOK
<1>3. Moves(t, c) /\ FrameOK(c) /\ c.slot = NoSlot /\ c.at \in {"missed", "enter", "drop"}
  BY <1>1, <1>2, NullFacts, NullMoves DEF Remadvises
<1>4. UNCHANGED <<meta, held, current, madviseLock>>
  BY DEF Remadvises
<1>5. \A s : Unowned(s)' <=> Unowned(s)
  BY <1>2, <1>3, <1>4, SlotKept, UnownedKept DEF NanoInv
<1>6. MadviseOK'
  BY <1>2, <1>3, <1>4, MadviseKept DEF NanoInv, Sweeping
<1>7. /\ mem' \in [AllSlots -> Cells] /\ lost' = {}
      /\ \A s \in AllSlots : mem'[s].guard => mem[s].guard
      /\ \A s \in AllSlots : mem'[s] = mem[s] \/ (s[1] = b /\ Emptied(b))
  <2>1. CASE th[t].old.next_slot = SLOT_MADVISED
    <3>1. Reclaims => Emptied(b)
      <4>1. Reclaims => ~Opened(meta[b])
        BY <1>1, <2>1 DEF Remadvises
      <4> QED  BY <1>2, <4>1, NotOpened DEF NanoInv
    <3>2. MadviseFree(b)
      BY <1>1, <2>1 DEF Remadvises
    <3> QED  BY <1>2, <3>1, <3>2, MadviseFreeFacts
  <2>2. CASE th[t].old.next_slot # SLOT_MADVISED
    BY <2>2 DEF Remadvises, NanoInv, NanoType
  <2> QED  BY <2>1, <2>2
<1>8. ASSUME NEW d \in Blocks PROVE BlockOK(d)'
  <2>1. CASE Emptied(d)
    BY <1>4, <1>5, <2>1, EmptiedKept DEF Emptied
  <2>2. CASE ~Emptied(d)
    <3>1. \A i \in 1 .. Slots : mem'[<<d, i>>] = mem[<<d, i>>]
      BY <1>7, <2>2, BlockFacts
    <3> QED  BY <1>4, <1>5, <3>1, BlockKept DEF NanoInv
  <2> QED  BY <2>1, <2>2
<1>9. (\A d \in Blocks : BlockOK(d))'
  BY <1>8
<1>11. MetaOK'
  BY <1>4, MetaKept DEF NanoInv, NanoType
<1> QED
  BY <1>2, <1>3, <1>4, <1>6, <1>7, <1>9, <1>11, OwnersKeep

\* The word of a block that is out of use and has no free list
LEMMA BlankFacts ==
  ASSUME NEW m, WordOK(m), NEW x \in Int, NEW w, w = Word(FALSE, 0, x, m.gen_count + 1)
  PROVE  WordOK(w) /\ w.next_slot = x /\ ~w.in_use /\ w.gen_count = (m.gen_count + 1) % GenCounts
<1>1. PICK f, g : f = 0 /\ g = m.gen_count + 1
  OBVIOUS
<1>2. f \in Int /\ g \in Int
  BY <1>1, WordParts
<1>3. w = Word(FALSE, f, x, g)
  BY <1>1
<1>4. WordIs(w, f, x, g) /\ ~w.in_use
  BY <1>2, <1>3, FalseFacts
<1> QED
  BY <1>1, <1>4 DEF WordIs

LEMMA MadviseStartsKeeps ==
  ASSUME NanoInv, NEW t \in Callers, MadviseStarts(t)
  PROVE  NanoInv'
<1>1. PICK b, m, w, T : /\ b = Min(th[t].todo) /\ m = meta[b] /\ T = th[t].todo \ {b}
                        /\ w = Word(FALSE, 0, SLOT_MADVISING, m.gen_count + 1)
  OBVIOUS
<1>2. /\ FrameOK(th[t]) /\ th[t].at = "sweep" /\ th[t].todo # {} /\ th[t].todo \subseteq Blocks
      /\ th[t].slot = NoSlot
  BY FrameNow DEF MadviseStarts, Doing, FrameOK
<1>3. b \in Blocks /\ T \subseteq Blocks
  <2>1. Blocks \subseteq Nat
    BY DEF Blocks
  <2>2. Min(th[t].todo) \in th[t].todo
    BY <1>2, <2>1, MinIn
  <2> QED  BY <1>1, <1>2, <2>2
<1>4. UNCHANGED <<mem, held, lost, current, madviseLock>> /\ madviseLock = t
  BY <1>2 DEF MadviseStarts, NanoInv, MadviseOK
<1>5. CASE m.next_slot # SLOT_CAN_MADVISE
  <2> DEFINE c == [th[t] EXCEPT !.todo = T]
  <2>1. Moves(t, c) /\ UNCHANGED meta
    BY <1>1, <1>5 DEF MadviseStarts, Set, Moves
  <2>2. FrameOK(c) /\ c.slot = th[t].slot /\ c.at = "sweep"
    BY <1>2, <1>3 DEF FrameOK, Fields
  <2> HIDE DEF c
  <2>3. \A u \in Callers : th'[u] = IF u = t THEN c ELSE th[u]
    BY <2>1 DEF Moves, NanoInv, NanoType
  <2>4. MadviseOK'
    BY <1>2, <1>4, <2>1, <2>2, <2>3 DEF NanoInv, MadviseOK
  <2> QED  BY <1>4, <2>1, <2>2, <2>4, MemoryKept
<1>6. CASE m.next_slot = SLOT_CAN_MADVISE
  <2> DEFINE c == [th[t] EXCEPT !.at = "madvising", !.todo = T, !.block = b]
  <2>1. Moves(t, c) /\ meta' = [meta EXCEPT ![b] = w]
    BY <1>1, <1>6 DEF MadviseStarts, Set, Moves
  <2>2. FrameOK(c) /\ c.slot = th[t].slot /\ c.at = "madvising" /\ c.block = b
    BY <1>2, <1>3 DEF FrameOK, Fields
  <2> HIDE DEF c
  <2>3. \A u \in Callers : th'[u] = IF u = t THEN c ELSE th[u]
    BY <2>1 DEF Moves, NanoInv, NanoType
  <2>4. WordOK(w) /\ w.next_slot = SLOT_MADVISING /\ ~w.in_use
    <3>1. WordOK(m)
      BY <1>1, <1>3 DEF NanoInv, NanoType, MetaOK
    <3>2. PICK x \in Int : x = SLOT_MADVISING
      BY DEF SLOT_MADVISING
    <3>3. w = Word(FALSE, 0, x, m.gen_count + 1)
      BY <1>1, <3>2
    <3>4. WordOK(w) /\ w.next_slot = x /\ ~w.in_use
      BY <3>1, <3>3, BlankFacts
    <3> QED  BY <3>2, <3>4
  <2>5. MetaOK' /\ \A d \in Blocks : meta'[d] = IF d = b THEN w ELSE meta[d]
    <3>1. WordOK(w) /\ MetaOK
      BY <2>4 DEF NanoInv, NanoType
    <3> QED  BY <1>3, <2>1, <3>1, MetaPut
  <2>6. Emptied(b)
    BY <1>1, <1>3, <1>6, EmptyWord DEF Empties
  <2>7. \A s : Unowned(s)' <=> Unowned(s)
    BY <1>4, <2>1, <2>2, SlotKept, UnownedKept DEF NanoInv
  <2>8. BlockOK(b)'
    BY <1>3, <2>4, <2>5, <2>6, <2>7, EmptiedKept DEF Empties
  <2>9. (\A d \in Blocks : BlockOK(d))'
    BY <1>4, <2>5, <2>7, <2>8, BlockKept DEF NanoInv
  <2>10. MadviseOK'
    <3>1. \A u \in Callers : u # t => th[u].at \notin {"sweep", "madvising"}
      BY <1>4 DEF NanoInv, MadviseOK
    <3>2. \A d \in Blocks : meta[d].next_slot # SLOT_MADVISING
      BY <1>2, <3>1 DEF NanoInv, MadviseOK
    <3>3. \A d \in Blocks : meta'[d].next_slot = SLOT_MADVISING <=> d = b
      BY <2>4, <2>5, <3>2
    <3>4. \A u \in Callers : th'[u].at \in {"sweep", "madvising"} <=> u = t
      BY <2>2, <2>3, <3>1
    <3>5. \A d \in Blocks : d = b <=> \E u \in Callers : th'[u].at = "madvising" /\ th'[u].block = d
      BY <2>2, <2>3, <3>4
    <3> QED  BY <1>4, <3>3, <3>4, <3>5 DEF MadviseOK
  <2>11. mem' \in [AllSlots -> Cells] /\ lost' = {}
    BY <1>4 DEF NanoInv, NanoType
  <2> QED  BY <1>4, <2>1, <2>2, <2>5, <2>9, <2>10, <2>11, OwnersKeep
<1> QED
  BY <1>5, <1>6

LEMMA MadvisesKeeps ==
  ASSUME NanoInv, NEW t \in Callers, Madvises(t)
  PROVE  NanoInv'
<1>1. PICK b, m, w : /\ b = th[t].block /\ m = meta[b]
                     /\ w = Word(FALSE, 0, SLOT_MADVISED, m.gen_count + 1)
  OBVIOUS
<1> DEFINE c == [th[t] EXCEPT !.at = "sweep", !.block = NoBlock]
<1>2. FrameOK(th[t]) /\ th[t].at = "madvising" /\ b \in Blocks /\ th[t].slot = NoSlot
  BY <1>1, FrameNow DEF Madvises, Doing, FrameOK
<1>3. Moves(t, c) /\ meta' = [meta EXCEPT ![b] = w] /\ MadviseFree(b)
  BY <1>1 DEF Madvises, Set, Moves
<1>4. FrameOK(c) /\ c.slot = th[t].slot /\ c.at = "sweep"
  BY <1>2 DEF FrameOK, Fields
<1> HIDE DEF c
<1>5. \A u \in Callers : th'[u] = IF u = t THEN c ELSE th[u]
  BY <1>3 DEF Moves, NanoInv, NanoType
<1>6. UNCHANGED <<held, current, madviseLock>> /\ madviseLock = t
  BY <1>2 DEF Madvises, NanoInv, MadviseOK
<1>7. m.next_slot = SLOT_MADVISING /\ Emptied(b)
  <2>1. meta[b].next_slot = SLOT_MADVISING
    BY <1>1, <1>2 DEF NanoInv, MadviseOK
  <2> QED  BY <1>1, <1>2, <2>1, EmptyWord DEF Empties
<1>8. WordOK(w) /\ w.next_slot = SLOT_MADVISED /\ ~w.in_use
  <2>1. PICK x : x = SLOT_MADVISED
    OBVIOUS
  <2>2. WordOK(m) /\ x \in Int /\ w = Word(FALSE, 0, x, m.gen_count + 1)
    BY <1>1, <1>2, <2>1 DEF NanoInv, NanoType, MetaOK, SLOT_MADVISED
  <2>3. WordOK(w) /\ w.next_slot = x /\ ~w.in_use
    BY <2>2, BlankFacts
  <2> QED  BY <2>1, <2>3
<1>9. MetaOK' /\ \A d \in Blocks : meta'[d] = IF d = b THEN w ELSE meta[d]
  <2>1. WordOK(w) /\ MetaOK
    BY <1>8 DEF NanoInv, NanoType
  <2> QED  BY <1>2, <1>3, <2>1, MetaPut
<1>10. \A s : Unowned(s)' <=> Unowned(s)
  BY <1>3, <1>4, <1>6, SlotKept, UnownedKept DEF NanoInv
<1>11. /\ mem' \in [AllSlots -> Cells] /\ lost' = {}
       /\ \A s \in AllSlots : mem'[s].guard => mem[s].guard
       /\ \A s \in AllSlots : mem'[s] = mem[s] \/ (s[1] = b /\ Emptied(b))
  BY <1>2, <1>3, <1>7, MadviseFreeFacts
<1>12. BlockOK(b)'
  BY <1>2, <1>7, <1>8, <1>9, <1>10, EmptiedKept DEF Empties
<1>13. ASSUME NEW d \in Blocks, d # b PROVE BlockOK(d)'
  <2>1. meta'[d] = meta[d] /\ BlockOK(d)
    BY <1>9, <1>13 DEF NanoInv
  <2>2. \A i \in 1 .. Slots : mem'[<<d, i>>] = mem[<<d, i>>]
    BY <1>11, <1>13, BlockFacts
  <2> QED  BY <1>10, <2>1, <2>2, BlockKept
<1>14. (\A d \in Blocks : BlockOK(d))'
  BY <1>12, <1>13
<1>15. MadviseOK'
  <2>1. \A u \in Callers : u # t => th[u].at \notin {"sweep", "madvising"}
    BY <1>6 DEF NanoInv, MadviseOK
  <2>2. \A d \in Blocks : d # b => meta[d].next_slot # SLOT_MADVISING
    BY <1>1, <1>2, <2>1 DEF NanoInv, MadviseOK
  <2>3. \A d \in Blocks : meta'[d].next_slot # SLOT_MADVISING
    BY <1>8, <1>9, <2>2 DEF SLOT_MADVISED, SLOT_MADVISING
  <2>4. \A u \in Callers : /\ th'[u].at \in {"sweep", "madvising"} <=> u = t
                           /\ th'[u].at # "madvising"
    BY <1>4, <1>5, <2>1
  <2> QED  BY <1>6, <2>3, <2>4 DEF MadviseOK
<1> QED
  BY <1>3, <1>4, <1>6, <1>9, <1>11, <1>14, <1>15, OwnersKeep

LEMMA StutterKeeps == NanoInv /\ UNCHANGED nanoVars => NanoInv'
<1> SUFFICES ASSUME NanoInv, UNCHANGED nanoVars PROVE NanoInv'
  OBVIOUS
<1>1. UNCHANGED <<meta, mem, current, madviseLock, held, lost, th>>
  BY DEF nanoVars
<1>2. NanoType'
  <2>1. MetaOK'
    BY <1>1, MetaKept DEF NanoInv, NanoType
  <2>2. (\A t \in Callers : FrameOK(th[t]))'
    <3>1. \A t \in Callers : FrameOK(th'[t])
      BY <1>1 DEF NanoInv, NanoType
    <3> QED  BY <3>1 DEF FrameOK
  <2> QED  BY <1>1, <2>1, <2>2 DEF NanoInv, NanoType
<1>3. OneOwner' /\ \A s : Unowned(s)' <=> Unowned(s)
  BY <1>1 DEF NanoInv, OneOwner, Unowned
<1>4. (\A b \in Blocks : BlockOK(b))'
  BY <1>1, <1>3, BlockKept DEF NanoInv
<1>5. Unguarded'
  BY <1>1, <1>3 DEF NanoInv, Unguarded
<1>6. MadviseOK'
  BY <1>1 DEF NanoInv, MadviseOK
<1> QED
  BY <1>1, <1>2, <1>3, <1>4, <1>5, <1>6 DEF NanoInv

LEMMA NanoStep ==
  ASSUME NanoInv, [NanoNext]_nanoVars, ~damaged'
  PROVE  NanoInv'
<1>1. CASE UNCHANGED nanoVars
  BY <1>1, StutterKeeps
<1>2. CASE NanoNext
  <2>1. PICK t \in Callers : Call(t) \/ Step(t)
    BY <1>2 DEF NanoNext
  <2>2. CASE Call(t)
    <3>1. CASE \E cpu \in CPUs : NanoMalloc(t, cpu)
      BY <3>1, NanoMallocKeeps
    <3>2. CASE \E s \in AllSlots : Free(t, s)
      BY <3>2, FreeKeeps
    <3>3. CASE Relieves(t)
      BY <3>3, RelievesKeeps
    <3> QED  BY <2>2, <3>1, <3>2, <3>3 DEF Call
  <2>3. CASE AllocateFromBlock(t)
    BY <2>3, TryLoadsKeeps, ReadsNextKeeps, SwapTakesKeeps,
       SwapFailsKeeps, RemadvisesKeeps DEF AllocateFromBlock
  <2>4. CASE Allocate(t)
    BY <2>4, IdlesKeep, DoesNotDelegateKeeps, LocksKeeps, EntersKeeps, ScansKeeps, ActivatesKeeps,
       SearchesAgainKeeps, NextArenaKeeps, GrowsKeeps, FailsKeeps, DropsKeeps, PublishesKeeps,
       LeavesKeeps DEF Allocate
  <2>5. CASE FreeToBlock(t)
    BY <2>5, FreesToBlockKeeps, IdlesKeep DEF FreeToBlock
  <2>6. CASE MadviseBlock(t)
    BY <2>6, MadviseLocksKeeps, MadviseStartsKeeps, MadvisesKeeps, MadviseUnlocksKeeps
    DEF MadviseBlock
  <2> QED  BY <2>1, <2>2, <2>3, <2>4, <2>5, <2>6 DEF Step
<1> QED
  BY <1>1, <1>2

\* Damage is for ever.
LEMMA DamageStays == damaged /\ [NanoNext]_nanoVars => damaged'
<1> SUFFICES ASSUME damaged, [NanoNext]_nanoVars PROVE damaged'
  OBVIOUS
<1>1. CASE UNCHANGED nanoVars
  BY <1>1 DEF nanoVars
<1>2. ASSUME NEW t \in Callers, Call(t) PROVE damaged'
  BY <1>2 DEF Call, NanoMalloc, Free, Relieves
<1>3. ASSUME NEW t \in Callers, AllocateFromBlock(t) PROVE damaged'
  <2>1. CASE TryLoads(t) \/ ReadsNext(t) \/ SwapFails(t)
    BY <2>1 DEF TryLoads, ReadsNext, SwapFails
  <2>2. CASE SwapTakes(t)
    BY <2>2 DEF SwapTakes
  <2>3. CASE Remadvises(t)
    BY <2>3 DEF Remadvises
  <2> QED  BY <1>3, <2>1, <2>2, <2>3 DEF AllocateFromBlock
<1>4. ASSUME NEW t \in Callers, Allocate(t) PROVE damaged'
  <2>1. CASE Delegates(t) \/ DoesNotDelegate(t) \/ Locks(t) \/ Enters(t) \/ Scans(t)
    BY <2>1 DEF Delegates, DoesNotDelegate, Locks, Enters, Scans
  <2>2. CASE Activates(t) \/ SearchesAgain(t) \/ NextArena(t) \/ Grows(t) \/ Fails(t)
    BY <2>2 DEF Activates, SearchesAgain, NextArena, Grows, Fails
  <2>3. CASE StartsToDelegate(t) \/ Drops(t) \/ Publishes(t) \/ Leaves(t)
    BY <2>3 DEF StartsToDelegate, Drops, Publishes, Leaves
  <2> QED  BY <1>4, <2>1, <2>2, <2>3 DEF Allocate
<1>5. ASSUME NEW t \in Callers, FreeToBlock(t) PROVE damaged'
  BY <1>5 DEF FreeToBlock, FreesToBlock, StopsToDelegate
<1>6. ASSUME NEW t \in Callers, MadviseBlock(t) PROVE damaged'
  BY <1>6 DEF MadviseBlock, MadviseLocks, MadviseStarts, Madvises, MadviseUnlocks
<1> QED
  BY <1>1, <1>2, <1>3, <1>4, <1>5, <1>6 DEF NanoNext, Step

LEMMA NanoInvariant == NanoSpec => [](damaged \/ NanoInv)
<1>1. NanoInit => NanoInv
  BY NanoInitial
<1>2. (damaged \/ NanoInv) /\ [NanoNext]_nanoVars => (damaged \/ NanoInv)'
  <2> SUFFICES ASSUME damaged \/ NanoInv, [NanoNext]_nanoVars, ~damaged'
               PROVE  NanoInv'
    OBVIOUS
  <2>1. NanoInv
    BY DamageStays
  <2> QED  BY <2>1, NanoStep
<1> QED
  BY <1>1, <1>2, PTL DEF NanoSpec

\* The owners of a slot are counted once.
LEMMA OwnersBounded ==
  ASSUME NanoInv, NEW s \in AllSlots
  PROVE  Owners(s) \in {0, 1} /\ (Owners(s) = 0 <=> Unowned(s))
<1>1. PICK T : T = {t \in Callers : th[t].slot = s}
  OBVIOUS
<1>2. held[s] \in {0, 1} /\ s # NoSlot
  BY BlockFacts DEF NanoInv, NanoType
<1>3. CASE T = {}
  <2>1. Cardinality(T) = 0
    BY <1>3, FS_EmptySet
  <2>2. Owners(s) = held[s]
    BY <1>1, <1>2, <2>1 DEF Owners
  <2> QED  BY <1>1, <1>2, <1>3, <2>2 DEF Unowned
<1>4. CASE T # {}
  <2>1. PICK t \in T : TRUE
    BY <1>4
  <2>2. T = {t} /\ held[s] = 0
    BY <1>1, <1>2, <2>1 DEF NanoInv, OneOwner
  <2>3. Cardinality(T) = 1
    BY <2>2, FS_Singleton
  <2>4. Owners(s) = 1
    BY <1>1, <2>2, <2>3 DEF Owners
  <2>5. ~Unowned(s)
    BY <1>1, <2>1 DEF Unowned
  <2> QED  BY <2>4, <2>5
<1> QED
  BY <1>3, <1>4

LEMMA ExclusiveNow == NanoInv => Exclusive
<1> SUFFICES ASSUME NanoInv PROVE Exclusive
  OBVIOUS
<1>1. \A s \in AllSlots : Owners(s) <= 1
  BY OwnersBounded
<1>2. \A t \in Callers : th[t].at # "corrupt" /\ th[t].at # "foreign"
  BY FrameNow DEF FrameOK
<1> QED
  BY <1>1, <1>2 DEF Exclusive, Doing

LEMMA MadvisedIsEmptyNow == damaged \/ NanoInv => MadvisedIsEmpty
<1> SUFFICES ASSUME NanoInv, ~damaged, NEW b \in Blocks
             PROVE  /\ meta[b].next_slot \in {SLOT_CAN_MADVISE, SLOT_MADVISING, SLOT_MADVISED} =>
                         /\ ~meta[b].in_use
                         /\ \A i \in 1 .. Slots : Owners(<<b, i>>) = 0
                    /\ meta[b].next_slot = SLOT_MADVISING <=>
                         /\ madviseLock # NoCaller /\ th[madviseLock].at = "madvising"
                         /\ th[madviseLock].block = b
  BY DEF MadvisedIsEmpty, Doing
<1>1. ASSUME meta[b].next_slot \in {SLOT_CAN_MADVISE, SLOT_MADVISING, SLOT_MADVISED}
      PROVE  ~meta[b].in_use /\ \A i \in 1 .. Slots : Owners(<<b, i>>) = 0
  <2>1. Emptied(b)
    BY <1>1, EmptyWord DEF Empties
  <2> QED  BY <2>1, NoOwners DEF Emptied
<1>2. meta[b].next_slot = SLOT_MADVISING <=>
        madviseLock # NoCaller /\ th[madviseLock].at = "madvising" /\ th[madviseLock].block = b
  BY CallersAssumption DEF NanoInv, MadviseOK
<1> QED
  BY <1>1, <1>2

\* What 0 has and each number passes on, all have.
LEMMA AllHave ==
  ASSUME NEW N \in Nat, NEW G, 0 \in G, \A k \in 0 .. N - 1 : k \in G => k + 1 \in G
  PROVE  \A k \in 0 .. N : k \in G
<1> SUFFICES ASSUME {k \in 0 .. N : k \notin G} # {} PROVE FALSE
  OBVIOUS
<1>1. PICK B : B = {k \in 0 .. N : k \notin G}
  OBVIOUS
<1>2. B \subseteq Nat /\ B # {}
  BY <1>1
<1>3. PICK m : m \in B /\ \A x \in B : m <= x
  BY <1>2, MinIn
<1>4. m \in 0 .. N /\ m \notin G /\ m # 0
  BY <1>1, <1>3
<1>5. m - 1 \in 0 .. N - 1 /\ m - 1 \in 0 .. N /\ ~(m <= m - 1) /\ (m - 1) + 1 = m
  BY <1>4
<1>6. m - 1 \in G
  BY <1>1, <1>3, <1>5
<1> QED
  BY <1>4, <1>5, <1>6

\* The links of a block, followed from its word: the function of ListedSlots
FirstOf(m) == IF FromList(m) THEN m.next_slot ELSE SLOT_BUMP
After(b, x) == IF x \in 1 .. Slots THEN mem[<<b, x>>].next ELSE x
Follows(b, f) ==
  f = [n \in 0 .. Slots |-> IF n = 0 THEN FirstOf(meta[b]) ELSE After(b, f[n - 1])]
Links(b) == CHOOSE f : Follows(b, f)

LEMMA ListedLinks ==
  ASSUME NEW b
  PROVE  ListedSlots(b) = {IF Links(b)[n] \in 1 .. Slots THEN Links(b)[n] ELSE 0 : n \in
                             {n \in 0 .. Slots : Links(b)[n] # SLOT_BUMP}}
  BY DEF ListedSlots, Links, Follows, FirstOf, After

\* They are those of the list, and then the bump.
LEMMA LinksAre ==
  ASSUME NEW b, NEW n \in 0 .. Slots, NEW u \in 0 .. Slots, NEW L \in [1 .. n -> 1 .. Slots],
         Serving(b, n, u, L), n + u # 0
  PROVE  \A k \in 0 .. Slots : Links(b)[k] = IF k < n THEN L[k + 1] ELSE SLOT_BUMP
<1>1. PICK F : F = [k \in 0 .. Slots |-> IF k < n THEN L[k + 1] ELSE SLOT_BUMP]
  OBVIOUS
<1>2. n \in Nat /\ Slots \in Nat /\ 0 \in 0 .. Slots /\ SLOT_BUMP \notin 1 .. Slots
  BY SlotNumbers DEF SLOT_BUMP
<1>3. FirstOf(meta[b]) = F[0]
  <2>1. meta[b].next_slot = IF n = 0 THEN SLOT_BUMP ELSE L[1]
    BY DEF Serving, Counted
  <2>2. n > 0 => L[1] \in 1 .. Slots /\ L[1] \notin {SLOT_BUMP, SLOT_CAN_MADVISE}
    BY SlotNumbers DEF SLOT_BUMP, SLOT_CAN_MADVISE
  <2>3. F[0] = IF n = 0 THEN SLOT_BUMP ELSE L[1]
    BY <1>1, <1>2
  <2> QED  BY <1>2, <2>1, <2>2, <2>3 DEF FirstOf, FromList
<1>4. ASSUME NEW k \in 1 .. Slots PROVE F[k] = After(b, F[k - 1])
  <2>1. k - 1 \in 0 .. Slots /\ k \in 0 .. Slots /\ k \in Int
    BY <1>2
  <2>2. F[k] = IF k < n THEN L[k + 1] ELSE SLOT_BUMP
    BY <1>1, <2>1
  <2>3. F[k - 1] = IF k - 1 < n THEN L[k] ELSE SLOT_BUMP
    <3>1. (k - 1) + 1 = k
      BY <2>1
    <3> QED  BY <1>1, <2>1, <3>1
  <2>4. CASE k <= n
    <3>1. k \in 1 .. n /\ k - 1 < n /\ (k < n <=> k # n)
      BY <1>2, <2>1, <2>4
    <3>2. mem[<<b, L[k]>>] = [guard |-> TRUE, next |-> IF k = n THEN SLOT_BUMP ELSE L[k + 1]]
      BY <3>1 DEF Serving, Listing
    <3>3. F[k - 1] = L[k] /\ L[k] \in 1 .. Slots
      BY <2>3, <3>1
    <3> QED  BY <2>2, <3>1, <3>2, <3>3 DEF After
  <2>5. CASE ~(k <= n)
    <3>1. ~(k - 1 < n) /\ ~(k < n)
      BY <1>2, <2>1, <2>5
    <3> QED  BY <1>2, <2>2, <2>3, <3>1 DEF After
  <2> QED  BY <2>4, <2>5
<1>5. Follows(b, F)
  <2>1. \A k \in 0 .. Slots : k = 0 \/ k \in 1 .. Slots
    BY <1>2
  <2>2. \A k \in 0 .. Slots : F[k] = IF k = 0 THEN FirstOf(meta[b]) ELSE After(b, F[k - 1])
    BY <1>3, <1>4, <2>1
  <2>3. F = [k \in 0 .. Slots |-> F[k]]
    BY <1>1
  <2> QED  BY <2>2, <2>3 DEF Follows
<1>6. PICK f : f = Links(b) /\ Follows(b, f)
  <2>1. Follows(b, Links(b))
    BY <1>5 DEF Links
  <2> QED  BY <2>1
<1>7. \A k \in 0 .. Slots : f[k] = IF k = 0 THEN FirstOf(meta[b]) ELSE After(b, f[k - 1])
  BY <1>6 DEF Follows
<1>8. \A k \in 0 .. Slots : f[k] = F[k]
  <2>1. PICK G : G = {k \in 0 .. Slots : f[k] = F[k]}
    OBVIOUS
  <2>2. 0 \in G
    BY <1>2, <1>3, <1>7, <2>1
  <2>3. ASSUME NEW k \in 0 .. Slots - 1, k \in G PROVE k + 1 \in G
    <3>1. k + 1 \in 1 .. Slots /\ k + 1 \in 0 .. Slots /\ k + 1 # 0 /\ (k + 1) - 1 = k
      BY <1>2
    <3>2. f[k] = F[k]
      BY <2>1, <2>3
    <3>3. f[k + 1] = After(b, f[k])
      BY <1>7, <3>1
    <3>4. F[k + 1] = After(b, F[k])
      BY <1>4, <3>1
    <3> QED  BY <2>1, <3>1, <3>2, <3>3, <3>4
  <2>4. \A k \in 0 .. Slots : k \in G
    BY <1>2, <2>2, <2>3, AllHave
  <2> QED  BY <2>1, <2>4
<1> QED
  BY <1>1, <1>6, <1>8

LEMMA ListedAre ==
  ASSUME NEW b, NEW n \in 0 .. Slots, NEW u \in 0 .. Slots, NEW L \in [1 .. n -> 1 .. Slots],
         Serving(b, n, u, L), n + u # 0
  PROVE  /\ ListedSlots(b) = {L[j] : j \in 1 .. n}
         /\ Cardinality(ListedSlots(b)) = n
<1>1. PICK f : f = Links(b)
  OBVIOUS
<1>2. \A k \in 0 .. Slots : f[k] = IF k < n THEN L[k + 1] ELSE SLOT_BUMP
  BY <1>1, LinksAre
<1>3. n \in Nat /\ Slots \in Nat /\ \A x \in 1 .. Slots : x # SLOT_BUMP
  BY SlotNumbers DEF SLOT_BUMP
<1>4. \A k \in 0 .. Slots : f[k] # SLOT_BUMP <=> k < n
  BY <1>2, <1>3
<1>5. ListedSlots(b) = {IF f[k] \in 1 .. Slots THEN f[k] ELSE 0 : k \in
                          {k \in 0 .. Slots : f[k] # SLOT_BUMP}}
  BY <1>1, ListedLinks
<1>6. ListedSlots(b) = {L[j] : j \in 1 .. n}
  <2>1. ASSUME NEW j \in 1 .. n PROVE L[j] \in ListedSlots(b)
    <3>1. j - 1 \in 0 .. Slots /\ j - 1 < n /\ (j - 1) + 1 = j
      BY <1>3
    <3>2. f[j - 1] = L[j] /\ L[j] \in 1 .. Slots
      BY <1>2, <3>1
    <3> QED  BY <1>4, <1>5, <3>1, <3>2
  <2>2. ASSUME NEW x \in ListedSlots(b) PROVE x \in {L[j] : j \in 1 .. n}
    <3>1. PICK k \in 0 .. Slots : f[k] # SLOT_BUMP /\ x = IF f[k] \in 1 .. Slots THEN f[k] ELSE 0
      BY <1>5, <2>2
    <3>2. k + 1 \in 1 .. n /\ f[k] = L[k + 1]
      BY <1>2, <1>3, <1>4, <3>1
    <3> QED  BY <3>1, <3>2
  <2> QED  BY <2>1, <2>2
<1>7. Cardinality(ListedSlots(b)) = n
  <2>1. PICK S, T : S = 1 .. n /\ T = ListedSlots(b)
    OBVIOUS
  <2>2. IsFiniteSet(S) /\ Cardinality(S) = n
    BY <1>3, <2>1, FS_Interval
  <2>3. L \in [S -> T]
    BY <1>6, <2>1
  <2>4. \A x \in T : \E j \in S : L[j] = x
    BY <1>6, <2>1
  <2>5. \A i, j \in S : L[i] = L[j] => i = j
    BY <2>1 DEF Serving, Listing
  <2>6. L \in Bijection(S, T)
    <3>1. L \in Injection(S, T)
      BY <2>3, <2>5 DEF Injection, IsInjective
    <3>2. L \in Surjection(S, T)
      BY <2>3, <2>4 DEF Surjection
    <3> QED  BY <3>1, <3>2 DEF Bijection
  <2>7. ExistsBijection(S, T)
    BY <2>6 DEF ExistsBijection
  <2>8. Cardinality(T) = Cardinality(S)
    BY <2>2, <2>7, FS_Bijection
  <2> QED  BY <2>1, <2>2, <2>8
<1> QED
  BY <1>6, <1>7

LEMMA FreeSlotsExactNow == NanoInv => FreeSlotsExact
<1> DEFINE FreeOf(b) == IF meta[b].next_slot = SLOT_FULL THEN 0 ELSE meta[b].free_count + 1
           UnownedOf(b) == {i \in 1 .. Slots : Owners(<<b, i>>) = 0}
           BumpedOf(b) == (Slots - (FreeOf(b) - Cardinality(ListedSlots(b))) + 1) .. Slots
           ExactAt(b) ==
             Opened(meta[b]) =>
               IF meta[b].next_slot = SLOT_FULL THEN UnownedOf(b) = {}
               ELSE Cardinality(ListedSlots(b)) <= FreeOf(b) /\ ListedSlots(b) \cup BumpedOf(b) = UnownedOf(b)
<1>1. (\A b \in Blocks : ExactAt(b)) => FreeSlotsExact
  BY DEF FreeSlotsExact
<1>2. SUFFICES ASSUME NanoInv, NEW b \in Blocks, Opened(meta[b])
               PROVE  ExactAt(b)
  BY <1>1
<1>3. PICK m, free, unowned, listed, bumped :
      m = meta[b] /\ free = FreeOf(b) /\ unowned = UnownedOf(b) /\ listed = ListedSlots(b) /\ bumped = BumpedOf(b)
  OBVIOUS
<1> HIDE DEF FreeOf, UnownedOf, BumpedOf, ExactAt
<1>4. ~Emptied(b)
  <2>1. meta[b].next_slot \notin Empties
    BY <1>2, SlotNumbers DEF Opened, Empties, SLOT_NULL, SLOT_CAN_MADVISE, SLOT_MADVISING, SLOT_MADVISED,
       SLOT_BUMP, SLOT_FULL
  <2> QED  BY <2>1 DEF Emptied
<1>5. PICK n \in 0 .. Slots, u \in 0 .. Slots : \E L \in [1 .. n -> 1 .. Slots] : Serving(b, n, u, L)
  BY <1>2, <1>4 DEF NanoInv, BlockOK
<1>6. PICK L \in [1 .. n -> 1 .. Slots] : Serving(b, n, u, L)
  BY <1>5
<1>7. n \in Nat /\ u \in Nat /\ Slots \in Nat
  <2>1. Slots \in Nat
    BY SlotNumbers
  <2> QED  BY <2>1
<1>8. \A i \in 1 .. Slots : i \in unowned <=> i > Slots - u \/ \E j \in 1 .. n : L[j] = i
  <2>1. \A i \in 1 .. Slots : Owners(<<b, i>>) = 0 <=> Unowned(<<b, i>>)
    BY <1>2, OwnersBounded, BlockFacts
  <2>2. \A i \in 1 .. Slots : Unowned(<<b, i>>) <=> i > Slots - u \/ \E j \in 1 .. n : L[j] = i
    BY <1>6 DEF Serving, Covered
  <2> QED  BY <1>3, <2>1, <2>2 DEF UnownedOf
<1>9. CASE n + u = 0
  <2>1. m.next_slot = SLOT_FULL /\ n = 0 /\ u = 0
    BY <1>3, <1>6, <1>7, <1>9 DEF Serving, Counted
  <2>2. \A i \in 1 .. Slots : i \notin unowned
    BY <1>7, <1>8, <2>1
  <2>3. unowned = {}
    BY <1>3, <2>2 DEF UnownedOf
  <2> QED  BY <1>3, <2>1, <2>3 DEF ExactAt
<1>10. CASE n + u # 0
  <2>1. m.free_count = n + u - 1 /\ m.next_slot # SLOT_FULL
    <3>1. n > 0 => L[1] \in 1 .. Slots /\ L[1] # SLOT_FULL
      BY SlotNumbers DEF SLOT_FULL
    <3> QED  BY <1>3, <1>6, <1>7, <1>10, <3>1 DEF Serving, Counted, SLOT_FULL, SLOT_BUMP
  <2>2. free = n + u
    BY <1>3, <1>7, <2>1 DEF FreeOf
  <2>3. listed = {L[j] : j \in 1 .. n} /\ Cardinality(listed) = n
    BY <1>3, <1>6, <1>10, ListedAre
  <2>4. bumped = (Slots - u + 1) .. Slots
    <3>1. Slots - (free - Cardinality(listed)) + 1 = Slots - u + 1
      BY <1>7, <2>2, <2>3
    <3> QED  BY <1>3, <3>1 DEF BumpedOf
  <2>5. n <= n + u
    BY <1>7
  <2>6. ASSUME NEW i \in listed \cup bumped PROVE i \in unowned
    <3>1. i \in 1 .. Slots
      BY <1>7, <2>3, <2>4
    <3>2. i > Slots - u \/ \E j \in 1 .. n : L[j] = i
      BY <1>7, <2>3, <2>4
    <3> QED  BY <1>8, <3>1, <3>2
  <2>7. ASSUME NEW i \in unowned PROVE i \in listed \cup bumped
    <3>1. i \in 1 .. Slots
      BY <1>3, <2>7 DEF UnownedOf
    <3>2. i > Slots - u => i \in bumped
      BY <1>7, <2>4, <3>1
    <3> QED  BY <1>8, <2>3, <2>7, <3>1, <3>2
  <2>8. listed \cup bumped = unowned
    BY <2>6, <2>7
  <2> QED  BY <1>3, <2>1, <2>2, <2>3, <2>5, <2>8 DEF ExactAt
<1> QED
  BY <1>9, <1>10

(***************************************************************************)
(* The pops.                                                               *)
(***************************************************************************)
Popping == {"read", "swap"}

\* What a pop has read is the link of the slot, and its word says so of the
\* block, if no generation was counted since it loaded the word; if g were,
\* and the count did not go round, the two words tell g.
SameList(m, w) == m.next_slot = w.next_slot /\ m.free_count = w.free_count
PopFrameOK(c, g) ==
  /\ g \in 0 .. GenCounts
  /\ c.at \notin Popping => g = 0
  /\ c.at \in Popping /\ g # GenCounts
       => meta[c.block].gen_count = (c.old.gen_count + g) % GenCounts
  /\ c.at \in Popping /\ g = 0 =>
       /\ SameList(meta[c.block], c.old)
       /\ c.at = "swap" /\ ReadsLink(c.old)
            => c.next = mem[<<c.block, c.old.next_slot>>].next
PopOK ==
  /\ gens = [t \in Callers |-> gens[t]]
  /\ \A t \in Callers : PopFrameOK(th[t], gens[t])

\* A block of which a pop cannot tell that something happened: nothing did.
Unmoved(b) ==
  /\ SameList(meta'[b], meta[b]) /\ meta'[b].gen_count = meta[b].gen_count
  /\ meta[b].next_slot \in 1 .. Slots =>
       mem'[<<b, meta[b].next_slot>>] = mem[<<b, meta[b].next_slot>>]

\* The generation of a word was counted.
Stepped(b, anew) == anew \/ meta'[b].gen_count = (meta[b].gen_count + 1) % GenCounts

LEMMA CountsOn ==
  ASSUME NEW N \in Nat \ {0}, NEW a \in 0 .. N - 1
  PROVE  /\ (a + 0) % N = a
         /\ \A g \in 0 .. N - 1 : (((a + g) % N) + 1) % N = (a + (g + 1)) % N
         /\ \A g \in 0 .. N - 1 : (a + g) % N = a => g = 0
<1>1. (a + 0) % N = a
  OBVIOUS
<1>2. \A g \in 0 .. N - 1 : (((a + g) % N) + 1) % N = (a + (g + 1)) % N
  OBVIOUS
<1>3. ASSUME NEW g \in 0 .. N - 1, g # 0 PROVE (a + g) % N # a
  BY <1>3
<1> QED
  BY <1>1, <1>2, <1>3

\* The word of a pop has a generation.
LEMMA PopParts ==
  ASSUME NanoInv, NEW t \in Callers, th[t].at \in Popping
  PROVE  /\ th[t].block \in Blocks /\ th[t].old.gen_count \in 0 .. GenCounts - 1
         /\ ReadsLink(th[t].old) => th[t].old.next_slot \in 1 .. Slots
<1>1. FrameOK(th[t])
  BY FrameNow
<1>2. WordOK(th[t].old) /\ LoadedOK(th[t]) /\ th[t].block \in Blocks
  BY <1>1 DEF FrameOK, Popping
<1>3. th[t].old.gen_count \in 0 .. GenCounts - 1
  BY <1>2 DEF WordOK, GenBits
<1> QED
  BY <1>2, <1>3 DEF LoadedOK

LEMMA StillPop ==
  ASSUME NanoInv, NEW t \in Callers, PopFrameOK(th[t], gens[t]), th'[t] = th[t],
         gens'[t] = gens[t], th[t].at \in Popping => Unmoved(th[t].block)
  PROVE  PopFrameOK(th[t], gens[t])'
<1>1. CASE th[t].at \notin Popping
  BY <1>1 DEF PopFrameOK
<1>2. CASE th[t].at \in Popping
  <2> DEFINE b == th[t].block
             x == th[t].old.next_slot
  <2>1. b \in Blocks /\ Unmoved(b) /\ (ReadsLink(th[t].old) => x \in 1 .. Slots)
    BY <1>2, PopParts
  <2>2. gens[t] = 0 => SameList(meta[b], th[t].old) /\ SameList(meta'[b], th[t].old)
    BY <1>2, <2>1 DEF PopFrameOK, Unmoved, SameList
  <2>3. gens[t] = 0 /\ ReadsLink(th[t].old) => mem'[<<b, x>>] = mem[<<b, x>>]
    BY <2>1, <2>2 DEF Unmoved, SameList
  <2>4. gens[t] # GenCounts => meta'[b].gen_count = (th[t].old.gen_count + gens[t]) % GenCounts
    BY <1>2, <2>1 DEF PopFrameOK, Unmoved
  <2>5. gens[t] = 0 /\ th[t].at = "swap" /\ ReadsLink(th[t].old) => th[t].next = mem'[<<b, x>>].next
    BY <1>2, <2>3 DEF PopFrameOK
  <2> QED  BY <1>2, <2>2, <2>4, <2>5 DEF PopFrameOK, SameList
<1> QED
  BY <1>1, <1>2

LEMMA SteppedPop ==
  ASSUME NanoInv, NEW t \in Callers, PopFrameOK(th[t], gens[t]), th'[t] = th[t],
         th[t].at \in Popping, NEW anew \in BOOLEAN, Stepped(th[t].block, anew),
         gens'[t] = IF anew \/ gens[t] = GenCounts THEN GenCounts ELSE gens[t] + 1
  PROVE  PopFrameOK(th[t], gens[t])'
<1> DEFINE b == th[t].block
           a == th[t].old.gen_count
           g == gens[t]
<1>1. /\ GenCounts \in Nat \ {0} /\ a \in 0 .. GenCounts - 1 /\ g \in 0 .. GenCounts
      /\ g # GenCounts => meta[b].gen_count = (a + g) % GenCounts
  BY NanoSizes, PopParts DEF PopFrameOK
<1>2. gens'[t] \in 0 .. GenCounts /\ gens'[t] # 0
  BY <1>1
<1>3. gens'[t] # GenCounts => ~anew /\ gens'[t] = g + 1 /\ g \in 0 .. GenCounts - 1
  BY <1>1
<1>4. gens'[t] # GenCounts => meta'[b].gen_count = (a + gens'[t]) % GenCounts
  <2>1. SUFFICES ASSUME gens'[t] # GenCounts
                 PROVE  meta'[b].gen_count = (a + gens'[t]) % GenCounts
    OBVIOUS
  <2>2. meta'[b].gen_count = (meta[b].gen_count + 1) % GenCounts
    BY <1>3, <2>1 DEF Stepped
  <2>3. meta[b].gen_count = (a + g) % GenCounts
    BY <1>1, <1>3, <2>1
  <2>4. (((a + g) % GenCounts) + 1) % GenCounts = (a + (g + 1)) % GenCounts
    BY <1>1, <1>3, <2>1, CountsOn
  <2> QED  BY <1>3, <2>1, <2>2, <2>3, <2>4
<1> HIDE DEF a, g
<1> QED
  BY <1>2, <1>4 DEF PopFrameOK, a

\* A step of t in which nothing happens to a word and to no list
LEMMA PopsStill ==
  ASSUME NanoInv, PopOK, NEW t \in Callers, NEW c, Moves(t, c), \A b \in Blocks : Unmoved(b),
         gens' = gens \/ Forgets(t), PopFrameOK(th[t], gens[t])'
  PROVE  PopOK'
<1>1. /\ gens' = [u \in Callers |-> gens'[u]]
      /\ \A u \in Callers : u # t => gens'[u] = gens[u] /\ th'[u] = th[u]
  BY DEF PopOK, Forgets, Moves, NanoInv, NanoType
<1>2. ASSUME NEW u \in Callers PROVE PopFrameOK(th[u], gens[u])'
  <2>1. CASE u # t
    <3>1. th[u].at \in Popping => Unmoved(th[u].block)
      BY PopParts
    <3> QED  BY <1>1, <2>1, <3>1, StillPop DEF PopOK
  <2> QED  BY <2>1
<1> QED
  BY <1>1, <1>2 DEF PopOK

\* A step of t that counts a generation of b
LEMMA PopsCounted ==
  ASSUME NanoInv, PopOK, NEW t \in Callers, NEW c, Moves(t, c), c.at \notin Popping,
         NEW b \in Blocks, NEW anew \in BOOLEAN, Counts(t, b, anew), Stepped(b, anew),
         \A d \in Blocks : d # b => Unmoved(d)
  PROVE  PopOK'
<1>1. /\ gens' = [u \in Callers |-> gens'[u]] /\ gens'[t] = 0
      /\ \A u \in Callers : u # t => th'[u] = th[u]
      /\ th'[t] = c
  BY DEF Counts, Moves, NanoInv, NanoType
<1>2. ASSUME NEW u \in Callers PROVE PopFrameOK(th[u], gens[u])'
  <2>1. CASE u = t
    BY <1>1, <2>1, NanoSizes DEF PopFrameOK
  <2>2. CASE u # t /\ HasLoaded(u, b)
    <3>1. gens'[u] = IF anew \/ gens[u] = GenCounts THEN GenCounts ELSE gens[u] + 1
      BY <2>2 DEF Counts
    <3>2. th[u].at \in Popping /\ th[u].block = b
      BY <2>2 DEF HasLoaded, Popping
    <3> QED  BY <1>1, <2>2, <3>1, <3>2, SteppedPop DEF PopOK
  <2>3. CASE u # t /\ ~HasLoaded(u, b)
    <3>1. gens'[u] = gens[u]
      BY <2>3 DEF Counts
    <3>2. th[u].at \in Popping => Unmoved(th[u].block)
      BY <2>3, PopParts DEF HasLoaded, Popping
    <3> QED  BY <1>1, <2>3, <3>1, <3>2, StillPop DEF PopOK
  <2> QED  BY <2>1, <2>2, <2>3
<1> QED
  BY <1>1, <1>2 DEF PopOK

\* Nothing happened to the blocks.
LEMMA AllStill ==
  ASSUME meta' = meta, \A b \in Blocks : meta[b].next_slot \in 1 .. Slots =>
                         mem'[<<b, meta[b].next_slot>>] = mem[<<b, meta[b].next_slot>>]
  PROVE  \A b \in Blocks : Unmoved(b)
  BY DEF Unmoved, SameList

\* A step of t that neither begins nor goes on with a pop
LEMMA PopsQuiet ==
  ASSUME NanoInv, PopOK, NEW t \in Callers, NEW c, Moves(t, c),
         th[t].at \notin Popping, c.at \notin Popping, \A b \in Blocks : Unmoved(b), gens' = gens
  PROVE  PopOK'
<1>1. th'[t] = c /\ gens'[t] = gens[t]
  BY DEF Moves, NanoInv, NanoType
<1>2. gens[t] = 0
  BY DEF PopOK, PopFrameOK
<1>3. PopFrameOK(th[t], gens[t])'
  BY <1>1, <1>2, NanoSizes DEF PopFrameOK
<1> QED
  BY <1>3, PopsStill

\* The steps that change neither words nor memory and are part of no pop
Elsewhere(t) ==
  \/ \E cpu \in CPUs : NanoMalloc(t, cpu)
  \/ \E s \in AllSlots : Free(t, s)
  \/ Relieves(t) \/ Delegates(t) \/ DoesNotDelegate(t) \/ Locks(t) \/ Enters(t) \/ Scans(t)
  \/ SearchesAgain(t) \/ NextArena(t) \/ Grows(t) \/ Fails(t) \/ StartsToDelegate(t)
  \/ Publishes(t) \/ StopsToDelegate(t) \/ MadviseLocks(t) \/ MadviseUnlocks(t)

LEMMA ElsewhereMoves ==
  ASSUME NanoInv, NEW t \in Callers, Elsewhere(t)
  PROVE  th[t].at \notin Popping /\ \E c : Moves(t, c) /\ c.at \notin Popping
<1>1. FrameOK(th[t]) /\ FrameOK(Idle) /\ Idle.at = "idle"
  BY FrameNow, IdleFacts
<1>2. CASE \E cpu \in CPUs : NanoMalloc(t, cpu)
  <2>1. PICK cpu \in CPUs : NanoMalloc(t, cpu)
    BY <1>2
  <2>2. PICK b, a : b = current[cpu] /\ a = IF b = NoBlock THEN "missed" ELSE "try"
    OBVIOUS
  <2> DEFINE c == [Idle EXCEPT !.at = a, !.cpu = cpu, !.block = b]
  <2>3. Moves(t, c) /\ th[t].at = "idle"
    BY <2>1, <2>2 DEF NanoMalloc, Set, Moves, Doing
  <2>4. c.at = a
    BY <1>1 DEF FrameOK, Fields
  <2> HIDE DEF c
  <2> QED  BY <2>2, <2>3, <2>4 DEF Popping
<1>3. CASE \E s \in AllSlots : Free(t, s)
  <2>1. PICK s \in AllSlots : Free(t, s)
    BY <1>3
  <2> DEFINE c == IF Recognises(s) THEN [Idle EXCEPT !.at = "free", !.slot = s]
                  ELSE [Idle EXCEPT !.at = "foreign"]
  <2>2. Moves(t, c) /\ th[t].at = "idle"
    BY <2>1 DEF Free, Set, Moves, Doing
  <2>3. c.at \in {"free", "foreign"}
    BY <1>1 DEF FrameOK, Fields
  <2> HIDE DEF c
  <2> QED  BY <2>2, <2>3 DEF Popping
<1>4. CASE Relieves(t)
  <2> DEFINE B == BlocksOf(1)
             c == [Idle EXCEPT !.at = "madvise", !.arena = 1, !.todo = B]
  <2>1. Moves(t, c) /\ th[t].at = "idle"
    BY <1>4 DEF Relieves, Set, Moves, Doing
  <2> HIDE DEF B
  <2>2. c.at = "madvise"
    BY <1>1 DEF FrameOK, Fields
  <2> HIDE DEF c
  <2> QED  BY <2>1, <2>2 DEF Popping
<1>5. CASE Delegates(t) \/ StartsToDelegate(t) \/ StopsToDelegate(t)
  <2>1. Moves(t, Idle) /\ th[t].at \in {"missed", "full", "drained"}
    BY <1>5 DEF Delegates, StartsToDelegate, StopsToDelegate, Set, Moves, Doing
  <2> QED  BY <1>1, <2>1 DEF Popping
<1>6. CASE DoesNotDelegate(t)
  <2> DEFINE c == [th[t] EXCEPT !.at = "locking"]
  <2>1. Moves(t, c) /\ th[t].at = "missed"
    BY <1>6 DEF DoesNotDelegate, Set, Moves, Doing
  <2>2. c.at = "locking"
    BY <1>1 DEF FrameOK, Fields
  <2> HIDE DEF c
  <2> QED  BY <2>1, <2>2 DEF Popping
<1>7. CASE Locks(t)
  <2>1. PICK b, a : b = current[th[t].cpu] /\ a = IF b = NoBlock THEN "enter" ELSE "try"
    OBVIOUS
  <2> DEFINE c == [th[t] EXCEPT !.part = "locked", !.block = b, !.orig = b, !.arena = 1, !.at = a]
  <2>2. Moves(t, c) /\ th[t].at = "locking"
    BY <1>7, <2>1 DEF Locks, Set, Moves, Doing
  <2>3. c.at = a
    BY <1>1 DEF FrameOK, Fields
  <2> HIDE DEF c
  <2> QED  BY <2>1, <2>2, <2>3 DEF Popping
<1>8. CASE Enters(t)
  <2> DEFINE B == BlocksOf(th[t].arena)
             c == [th[t] EXCEPT !.at = "scan", !.part = "found", !.block = NoBlock,
                                !.start = th[t].arena, !.limit = nextArena,
                                !.initial = nextArena, !.todo = B]
  <2>1. Moves(t, c) /\ th[t].at = "enter"
    BY <1>8 DEF Enters, Set, Moves, Doing
  <2> HIDE DEF B
  <2>2. c.at = "scan"
    BY <1>1 DEF FrameOK, Fields
  <2> HIDE DEF c
  <2> QED  BY <2>1, <2>2 DEF Popping
<1>9. CASE Scans(t)
  <2>1. PICK b \in th[t].todo :
          \E f \in IF Eligible(meta[b]) THEN Better(th[t].found, b) ELSE {th[t].found} :
            Set(t, [th[t] EXCEPT !.todo = @ \ {b}, !.found = f])
    BY <1>9 DEF Scans
  <2>2. PICK f : Set(t, [th[t] EXCEPT !.todo = @ \ {b}, !.found = f])
    BY <2>1
  <2> DEFINE c == [th[t] EXCEPT !.todo = @ \ {b}, !.found = f]
  <2>3. Moves(t, c) /\ th[t].at = "scan"
    BY <1>9, <2>2 DEF Scans, Set, Moves, Doing
  <2>4. c.at = "scan"
    BY <1>1, <2>3 DEF FrameOK, Fields
  <2> HIDE DEF c
  <2> QED  BY <2>3, <2>4 DEF Popping
<1>10. CASE SearchesAgain(t)
  <2> DEFINE B == BlocksOf(th[t].arena)
             c == [th[t] EXCEPT !.todo = B, !.found = {}]
  <2>1. Moves(t, c) /\ th[t].at = "scan"
    BY <1>10 DEF SearchesAgain, Set, Moves, Doing
  <2> HIDE DEF B
  <2>2. c.at = "scan"
    BY <1>1, <2>1 DEF FrameOK, Fields
  <2> HIDE DEF c
  <2> QED  BY <2>1, <2>2 DEF Popping
<1>11. CASE NextArena(t)
  <2> DEFINE w == th[t].arena + 1 >= th[t].limit
             a == IF w THEN 1 ELSE th[t].arena + 1
             p == IF a = th[t].start THEN "grow" ELSE "scan"
             l == IF w THEN nextArena ELSE th[t].limit
             B == IF a = th[t].start THEN {} ELSE BlocksOf(a)
             c == [th[t] EXCEPT !.at = p, !.arena = a, !.limit = l, !.todo = B]
  <2>1. Moves(t, c) /\ th[t].at = "scan"
    BY <1>11 DEF NextArena, Set, Moves, Doing
  <2>2. p \in {"grow", "scan"}
    OBVIOUS
  <2> HIDE DEF a, p, l, B
  <2>3. c.at = p
    BY <1>1 DEF FrameOK, Fields
  <2> HIDE DEF c
  <2> QED  BY <2>1, <2>2, <2>3 DEF Popping
<1>12. CASE Grows(t)
  <2> DEFINE c == [th[t] EXCEPT !.at = "enter", !.arena = th[t].initial]
  <2>1. Moves(t, c) /\ th[t].at = "grow"
    BY <1>12 DEF Grows, Set, Moves, Doing
  <2>2. c.at = "enter"
    BY <1>1 DEF FrameOK, Fields
  <2> HIDE DEF c
  <2> QED  BY <2>1, <2>2 DEF Popping
<1>13. CASE Fails(t)
  <2> DEFINE c == [Idle EXCEPT !.at = "full"]
  <2>1. Moves(t, c) /\ th[t].at = "grow"
    BY <1>13 DEF Fails, Set, Moves, Doing
  <2>2. c.at = "full"
    BY <1>1 DEF FrameOK, Fields
  <2> HIDE DEF c
  <2> QED  BY <2>1, <2>2 DEF Popping
<1>14. CASE Publishes(t)
  <2> DEFINE c == [th[t] EXCEPT !.at = "leave"]
  <2>1. Moves(t, c) /\ th[t].at = "publish"
    BY <1>14 DEF Publishes, Set, Moves, Doing
  <2>2. c.at = "leave"
    BY <1>1 DEF FrameOK, Fields
  <2> HIDE DEF c
  <2> QED  BY <2>1, <2>2 DEF Popping
<1>15. CASE MadviseLocks(t)
  <2> DEFINE c == [th[t] EXCEPT !.at = "sweep"]
  <2>1. Moves(t, c) /\ th[t].at = "madvise"
    BY <1>15 DEF MadviseLocks, Set, Moves, Doing
  <2>2. c.at = "sweep"
    BY <1>1 DEF FrameOK, Fields
  <2> HIDE DEF c
  <2> QED  BY <2>1, <2>2 DEF Popping
<1>16. CASE MadviseUnlocks(t)
  <2>1. PICK a, B, p : /\ a = th[t].arena + 1 /\ B = BlocksOf(a)
                       /\ p = IF th[t].drained THEN "drained" ELSE "idle"
    OBVIOUS
  <2> DEFINE c == IF th[t].arena > 0 /\ a < nextArena
                  THEN [th[t] EXCEPT !.at = "madvise", !.arena = a, !.todo = B]
                  ELSE [Idle EXCEPT !.at = p]
  <2>2. Moves(t, c) /\ th[t].at = "sweep"
    BY <1>16, <2>1 DEF MadviseUnlocks, Set, Moves, Doing
  <2>3. c.at \in {"madvise", "drained", "idle"}
    BY <1>1, <2>1 DEF FrameOK, Fields
  <2> HIDE DEF c
  <2> QED  BY <2>2, <2>3 DEF Popping
<1> QED
  BY <1>2, <1>3, <1>4, <1>5, <1>6, <1>7, <1>8, <1>9, <1>10, <1>11, <1>12, <1>13, <1>14, <1>15,
     <1>16 DEF Elsewhere

LEMMA ElsewherePops ==
  ASSUME NanoInv, PopOK, NEW t \in Callers, Elsewhere(t)
  PROVE  PopOK'
<1>1. UNCHANGED <<meta, mem, gens>>
  BY DEF Elsewhere, NanoMalloc, Free, Relieves, Delegates, DoesNotDelegate, Locks, Enters, Scans,
     SearchesAgain, NextArena, Grows, Fails, StartsToDelegate, Publishes, StopsToDelegate,
     MadviseLocks, MadviseUnlocks
<1>2. \A b \in Blocks : Unmoved(b)
  BY <1>1, AllStill
<1> QED
  BY <1>1, <1>2, ElsewhereMoves, PopsQuiet

\* nanov2_turn_off_in_use counts no generation, and need not.
LEMMA OutOfUsePops ==
  ASSUME NanoInv, PopOK, NEW t \in Callers, Drops(t) \/ Leaves(t)
  PROVE  PopOK'
<1>1. FrameOK(th[t]) /\ th[t].at \in {"drop", "leave"} /\ UNCHANGED <<mem, gens>>
  BY FrameNow DEF Drops, Leaves, Doing
<1>2. \E c : Moves(t, c) /\ c.at \in {"enter", "idle"}
  <2>1. CASE Drops(t)
    <3> DEFINE c == [th[t] EXCEPT !.at = "enter", !.block = NoBlock]
    <3>1. Moves(t, c)
      BY <2>1 DEF Drops, Set, Moves
    <3>2. c.at = "enter"
      BY <1>1 DEF FrameOK, Fields
    <3> HIDE DEF c
    <3> QED  BY <3>1, <3>2
  <2>2. CASE Leaves(t)
    BY <2>2, IdleFacts DEF Leaves, Set, Moves
  <2> QED  BY <2>1, <2>2
<1>3. UNCHANGED meta \/ \E b \in Blocks : OutOfUse(b)
  <2>1. CASE Drops(t)
    <3>1. OutOfUse(th[t].block) /\ th[t].block \in Blocks
      BY <1>1, <2>1 DEF Drops, Doing, FrameOK
    <3> QED  BY <3>1
  <2>2. CASE Leaves(t)
    <3>1. UNCHANGED meta \/ (OutOfUse(th[t].orig) /\ th[t].orig # NoBlock)
      BY <2>2 DEF Leaves
    <3>2. th[t].orig # NoBlock => th[t].orig \in Blocks
      BY <1>1 DEF FrameOK
    <3> QED  BY <3>1, <3>2
  <2> QED  BY <2>1, <2>2
<1>4. \A b \in Blocks : Unmoved(b)
  BY <1>1, <1>3, OutOfUseFacts DEF Unmoved, SameList
<1> QED
  BY <1>1, <1>2, <1>4, PopsQuiet DEF Popping

\* A word was loaded, or made the swap fail.
LEMMA LoadsPops ==
  ASSUME NanoInv, PopOK, NEW t \in Callers, FrameOK(th[t]), th[t].at \in {"try", "swap"},
         Again(t, meta[th[t].block]), UNCHANGED <<meta, mem>>, gens' = gens \/ Forgets(t), gens'[t] = 0
  PROVE  PopOK'
<1>1. PICK m : m = meta[th[t].block]
  OBVIOUS
<1>2. th[t].block \in Blocks /\ m.gen_count \in 0 .. GenCounts - 1 /\ GenCounts \in Nat \ {0}
  BY <1>1, NanoSizes DEF FrameOK, NanoInv, NanoType, MetaOK, WordOK, GenBits
<1>3. \A b \in Blocks : Unmoved(b)
  BY AllStill
<1>4. CASE CanAllocate(m)
  <2> DEFINE a == IF ReadsLink(m) THEN "read" ELSE "swap"
             c == [th[t] EXCEPT !.at = a, !.old = m, !.next = SLOT_BUMP]
  <2>1. Moves(t, c)
    BY <1>1, <1>4 DEF Again, Set, Moves
  <2>2. a = "swap" <=> ~ReadsLink(m)
    OBVIOUS
  <2> HIDE DEF a
  <2>3. c.at = a /\ c.old = m /\ c.block = th[t].block
    BY DEF FrameOK, Fields
  <2> HIDE DEF c
  <2>4. th'[t] = c
    BY <2>1 DEF Moves, NanoInv, NanoType
  <2>5. PopFrameOK(th[t], gens[t])'
    <3>1. meta'[c.block] = m /\ (m.gen_count + 0) % GenCounts = m.gen_count
      BY <1>1, <1>2, <2>3, CountsOn
    <3> QED  BY <1>2, <2>2, <2>3, <2>4, <3>1 DEF PopFrameOK, Popping, SameList
  <2> QED  BY <1>3, <2>1, <2>5, PopsStill
<1>5. CASE ~CanAllocate(m)
  <2>1. Moves(t, NullFrame(th[t])) /\ NullFrame(th[t]).at \in {"missed", "enter", "drop"}
    BY <1>1, <1>5, NullMoves, NullFacts DEF Again
  <2>2. th'[t] = NullFrame(th[t])
    BY <2>1 DEF Moves, NanoInv, NanoType
  <2>3. PopFrameOK(th[t], gens[t])'
    BY <1>2, <2>1, <2>2 DEF PopFrameOK, Popping
  <2> QED  BY <1>3, <2>1, <2>3, PopsStill
<1> QED
  BY <1>4, <1>5

LEMMA TryLoadsPops ==
  ASSUME NanoInv, PopOK, NEW t \in Callers, TryLoads(t)
  PROVE  PopOK'
<1>1. th[t].at = "try" /\ gens'[t] = 0
  BY DEF TryLoads, Doing, PopOK, PopFrameOK, Popping
<1> QED
  BY <1>1, FrameNow, LoadsPops DEF TryLoads

LEMMA SwapFailsPops ==
  ASSUME NanoInv, PopOK, NEW t \in Callers, SwapFails(t)
  PROVE  PopOK'
<1>1. FrameOK(th[t]) /\ th[t].at = "swap" /\ Forgets(t) /\ UNCHANGED <<meta, mem>>
  BY FrameNow DEF SwapFails, Doing
<1>2. gens'[t] = 0
  BY <1>1 DEF Forgets, PopOK
<1>3. CASE Again(t, meta[th[t].block])
  BY <1>1, <1>2, <1>3, LoadsPops
<1>4. CASE ~Again(t, meta[th[t].block])
  <2>1. PICK m : m = meta[th[t].block]
    OBVIOUS
  <2> DEFINE c == [th[t] EXCEPT !.at = "raced", !.old = m, !.next = 0]
  <2>2. Moves(t, c)
    BY <1>4, <2>1 DEF SwapFails, Set, Moves
  <2>3. c.at = "raced"
    BY <1>1 DEF FrameOK, Fields
  <2> HIDE DEF c
  <2>4. th'[t] = c
    BY <2>2 DEF Moves, NanoInv, NanoType
  <2>5. PopFrameOK(th[t], gens[t])'
    BY <1>2, <2>3, <2>4, NanoSizes DEF PopFrameOK, Popping
  <2>6. \A b \in Blocks : Unmoved(b)
    BY <1>1, AllStill
  <2> QED  BY <1>1, <2>2, <2>5, <2>6, PopsStill
<1> QED
  BY <1>3, <1>4

LEMMA ReadsNextPops ==
  ASSUME NanoInv, PopOK, NEW t \in Callers, ReadsNext(t)
  PROVE  PopOK'
<1>1. PICK x : x = mem[<<th[t].block, th[t].old.next_slot>>].next
  OBVIOUS
<1>2. FrameOK(th[t]) /\ th[t].at = "read" /\ UNCHANGED <<meta, mem, gens>>
  BY FrameNow DEF ReadsNext, Doing
<1> DEFINE c == [th[t] EXCEPT !.at = "swap", !.next = x]
<1>3. Moves(t, c)
  BY <1>1 DEF ReadsNext, Set, Moves
<1>4. c.at = "swap" /\ c.next = x /\ c.old = th[t].old /\ c.block = th[t].block
  BY <1>2 DEF FrameOK, Fields
<1> HIDE DEF c
<1>5. th'[t] = c
  BY <1>3 DEF Moves, NanoInv, NanoType
<1>6. PopFrameOK(th[t], gens[t])
  BY DEF PopOK
<1>7. PopFrameOK(th[t], gens[t])'
  BY <1>1, <1>2, <1>4, <1>5, <1>6 DEF PopFrameOK, Popping
<1>8. \A b \in Blocks : Unmoved(b)
  BY <1>2, AllStill
<1> QED
  BY <1>2, <1>3, <1>7, <1>8, PopsStill

\* A slot of b is taken or freed, or b is taken into use.
LEMMA OthersStill ==
  ASSUME NEW b, NEW m, meta' = [meta EXCEPT ![b] = m], NanoInv,
         \A s \in AllSlots : s[1] # b => mem'[s] = mem[s]
  PROVE  \A d \in Blocks : d # b => Unmoved(d)
<1> SUFFICES ASSUME NEW d \in Blocks, d # b PROVE Unmoved(d)
  OBVIOUS
<1>1. meta'[d] = meta[d]
  BY DEF NanoInv, NanoType, MetaOK
<1>2. ASSUME NEW i \in 1 .. Slots PROVE mem'[<<d, i>>] = mem[<<d, i>>]
  <2>1. <<d, i>> \in AllSlots /\ <<d, i>>[1] = d
    BY BlockFacts
  <2> QED  BY <2>1
<1> QED
  BY <1>1, <1>2 DEF Unmoved, SameList

LEMMA SwapTakesPops ==
  ASSUME NanoInv, PopOK, NEW t \in Callers, SwapTakes(t), ~damaged'
  PROVE  PopOK'
<1>1. PICK b, m, next, s : /\ b = th[t].block /\ m = meta[b] /\ next = th[t].next
                           /\ s = <<b, TakenSlot(m)>>
  OBVIOUS
<1>2. FrameOK(th[t]) /\ LoadedOK(th[t]) /\ th[t].at = "swap" /\ b \in Blocks /\ Counts(t, b, FALSE)
  BY <1>1, FrameNow DEF SwapTakes, Doing, FrameOK
<1>3. /\ meta' = [meta EXCEPT ![b] = Taken(m, next)] /\ m = th[t].old
      /\ mem' = mem \/ mem' = [mem EXCEPT ![s] = Data]
  BY <1>1 DEF SwapTakes, Takes
<1>4. WordOK(m) /\ next \in Int
  <2>1. WordOK(m)
    BY <1>1, <1>2 DEF NanoInv, NanoType, MetaOK
  <2>2. ~StaleLink(t)
    BY DEF SwapTakes
  <2>3. ReadsLink(m) => next = mem[<<b, m.next_slot>>].next /\ <<b, m.next_slot>> \in AllSlots
    BY <1>1, <1>2, <1>3, <2>2, BlockFacts DEF StaleLink, LoadedOK
  <2>4. ReadsLink(m) => next \in Int
    BY <2>3 DEF NanoInv, NanoType, Cells
  <2>5. ~ReadsLink(m) => next = SLOT_BUMP
    BY <1>1, <1>2, <1>3 DEF LoadedOK
  <2> QED  BY <2>1, <2>4, <2>5, SlotNumbers
<1>5. Stepped(b, FALSE)
  <2>1. meta'[b] = Taken(m, next)
    BY <1>2, <1>3 DEF NanoInv, NanoType, MetaOK
  <2>2. Taken(m, next).gen_count = (m.gen_count + 1) % GenCounts
    BY <1>4, TakenFacts
  <2> QED  BY <1>1, <2>1, <2>2 DEF Stepped
<1>6. \A d \in Blocks : d # b => Unmoved(d)
  <2>1. \A x \in AllSlots : x[1] # b => x # s
    BY <1>1
  <2>2. \A x \in AllSlots : x[1] # b => mem'[x] = mem[x]
    BY <1>3, <2>1 DEF NanoInv, NanoType
  <2> QED  BY <1>3, <2>2, OthersStill
<1>7. \E c : Moves(t, c) /\ c.at \notin Popping
  <2>1. CASE Set(t, [Idle EXCEPT !.at = "corrupt"])
    <3> DEFINE c == [Idle EXCEPT !.at = "corrupt"]
    <3>1. Moves(t, c)
      BY <2>1 DEF Set, Moves
    <3>2. c.at = "corrupt"
      BY IdleFacts DEF FrameOK, Fields
    <3> HIDE DEF c
    <3> QED  BY <3>1, <3>2 DEF Popping
  <2>2. CASE Set(t, Idle)
    BY <2>2, IdleFacts DEF Set, Moves, Popping
  <2>3. CASE Set(t, [th[t] EXCEPT !.at = "publish", !.slot = s, !.old = Idle.old, !.next = 0])
    <3> DEFINE e == Idle.old
               c == [th[t] EXCEPT !.at = "publish", !.slot = s, !.old = e, !.next = 0]
    <3>1. Moves(t, c)
      BY <2>3 DEF Set, Moves
    <3> HIDE DEF e
    <3>2. c.at = "publish"
      BY <1>2 DEF FrameOK, Fields
    <3> HIDE DEF c
    <3> QED  BY <3>1, <3>2 DEF Popping
  <2> QED  BY <1>1, <2>1, <2>2, <2>3 DEF SwapTakes, Takes
<1> QED
  BY <1>2, <1>5, <1>6, <1>7, PopsCounted

LEMMA FreesToBlockPops ==
  ASSUME NanoInv, PopOK, NEW t \in Callers, FreesToBlock(t)
  PROVE  PopOK'
<1>1. PICK s, b, i, m, w : /\ s = th[t].slot /\ b = s[1] /\ i = s[2] /\ m = meta[b]
                           /\ w = Freed(m, i)
  OBVIOUS
<1>2. FrameOK(th[t]) /\ th[t].at = "free" /\ s \in AllSlots
  BY <1>1, FrameNow DEF FreesToBlock, Doing, FrameOK
<1>3. b \in Blocks /\ i \in 1 .. Slots /\ WordOK(m)
  BY <1>1, <1>2, BlockFacts DEF NanoInv, NanoType, MetaOK
<1>4. /\ meta' = [meta EXCEPT ![b] = w] /\ Counts(t, b, FALSE)
      /\ mem' = mem \/ mem' = [mem EXCEPT ![s] = Listed(m)]
  BY <1>1 DEF FreesToBlock
<1>5. Stepped(b, FALSE)
  <2>1. meta'[b] = w
    BY <1>3, <1>4 DEF NanoInv, NanoType, MetaOK
  <2>2. w.gen_count = (m.gen_count + 1) % GenCounts
    BY <1>1, <1>3, FreedFacts
  <2> QED  BY <1>1, <2>1, <2>2 DEF Stepped
<1>6. \A d \in Blocks : d # b => Unmoved(d)
  <2>1. \A x \in AllSlots : x[1] # b => x # s
    BY <1>1
  <2>2. \A x \in AllSlots : x[1] # b => mem'[x] = mem[x]
    BY <1>4, <2>1 DEF NanoInv, NanoType
  <2> QED  BY <1>4, <2>2, OthersStill
<1>7. \E c : Moves(t, c) /\ c.at \notin Popping
  <2>1. PICK d, p : d = (~w.in_use /\ w.free_count >= Drained) /\ p = IF d THEN "drained" ELSE "idle"
    OBVIOUS
  <2>2. CASE w.next_slot = SLOT_CAN_MADVISE /\ immediate
    <3> DEFINE c == [Idle EXCEPT !.at = "madvise", !.todo = {b}, !.drained = d]
    <3>1. Moves(t, c)
      BY <1>1, <2>1, <2>2 DEF FreesToBlock, Set, Moves
    <3>2. c.at = "madvise"
      BY IdleFacts DEF FrameOK, Fields
    <3> HIDE DEF c
    <3> QED  BY <3>1, <3>2 DEF Popping
  <2>3. CASE ~(w.next_slot = SLOT_CAN_MADVISE /\ immediate)
    <3> DEFINE c == [Idle EXCEPT !.at = p]
    <3>1. Moves(t, c)
      BY <1>1, <2>1, <2>3 DEF FreesToBlock, Set, Moves
    <3>2. c.at = p
      BY IdleFacts DEF FrameOK, Fields
    <3> HIDE DEF c
    <3> QED  BY <2>1, <3>1, <3>2 DEF Popping
  <2> QED  BY <2>2, <2>3
<1> QED
  BY <1>3, <1>4, <1>5, <1>6, <1>7, PopsCounted

LEMMA ActivatesPops ==
  ASSUME NanoInv, PopOK, NEW t \in Callers, Activates(t)
  PROVE  PopOK'
<1>1. PICK b \in th[t].found :
        /\ Set(t, [th[t] EXCEPT !.at = "try", !.block = b, !.found = {}])
        /\ meta' = [meta EXCEPT ![b] = Activated(meta[b])]
        /\ Counts(t, b, Fresh(meta[b]))
  BY DEF Activates
<1>2. FrameOK(th[t]) /\ b \in Blocks /\ mem' = mem
  BY <1>1, FrameNow DEF Activates, Doing, FrameOK
<1>3. WordOK(meta[b]) /\ meta'[b] = Activated(meta[b])
  BY <1>1, <1>2 DEF NanoInv, NanoType, MetaOK
<1>4. Stepped(b, Fresh(meta[b])) /\ Fresh(meta[b]) \in BOOLEAN
  <2>1. Stepped(b, Fresh(meta[b]))
    BY <1>3, ActivatedFacts DEF Stepped
  <2> QED  BY <2>1 DEF Fresh
<1>5. \A d \in Blocks : d # b => Unmoved(d)
  BY <1>1, <1>2, OthersStill
<1>6. \E c : Moves(t, c) /\ c.at \notin Popping
  <2> DEFINE c == [th[t] EXCEPT !.at = "try", !.block = b, !.found = {}]
  <2>1. Moves(t, c)
    BY <1>1 DEF Set, Moves
  <2>2. c.at = "try"
    BY <1>2 DEF FrameOK, Fields
  <2> HIDE DEF c
  <2> QED  BY <2>1, <2>2 DEF Popping
<1> QED
  BY <1>1, <1>2, <1>4, <1>5, <1>6, PopsCounted

LEMMA MadviseStartsPops ==
  ASSUME NanoInv, PopOK, NEW t \in Callers, MadviseStarts(t)
  PROVE  PopOK'
<1>1. PICK b, m, w, T : /\ b = Min(th[t].todo) /\ m = meta[b] /\ T = th[t].todo \ {b}
                        /\ w = Word(FALSE, 0, SLOT_MADVISING, m.gen_count + 1)
  OBVIOUS
<1>2. FrameOK(th[t]) /\ th[t].at = "sweep" /\ th[t].todo # {} /\ th[t].todo \subseteq Blocks /\ mem' = mem
  BY FrameNow DEF MadviseStarts, Doing, FrameOK
<1>3. b \in Blocks
  <2>1. Blocks \subseteq Nat
    BY DEF Blocks
  <2>2. Min(th[t].todo) \in th[t].todo
    BY <1>2, <2>1, MinIn
  <2> QED  BY <1>1, <1>2, <2>2
<1>4. CASE m.next_slot # SLOT_CAN_MADVISE
  <2> DEFINE c == [th[t] EXCEPT !.todo = T]
  <2>1. Moves(t, c) /\ UNCHANGED <<meta, gens>>
    BY <1>1, <1>4 DEF MadviseStarts, Set, Moves
  <2>2. c.at = "sweep"
    BY <1>2 DEF FrameOK, Fields
  <2> HIDE DEF c
  <2>3. \A d \in Blocks : Unmoved(d)
    BY <1>2, <2>1, AllStill
  <2> QED  BY <1>2, <2>1, <2>2, <2>3, PopsQuiet DEF Popping
<1>5. CASE m.next_slot = SLOT_CAN_MADVISE
  <2> DEFINE c == [th[t] EXCEPT !.at = "madvising", !.todo = T, !.block = b]
  <2>1. Moves(t, c) /\ meta' = [meta EXCEPT ![b] = w] /\ Counts(t, b, FALSE)
    BY <1>1, <1>5 DEF MadviseStarts, Set, Moves
  <2>2. c.at = "madvising"
    BY <1>2 DEF FrameOK, Fields
  <2> HIDE DEF c
  <2>3. Stepped(b, FALSE)
    <3>1. WordOK(m) /\ meta'[b] = w
      BY <1>1, <1>3, <2>1 DEF NanoInv, NanoType, MetaOK
    <3>2. PICK x \in Int : x = SLOT_MADVISING
      BY DEF SLOT_MADVISING
    <3>3. w = Word(FALSE, 0, x, m.gen_count + 1)
      BY <1>1, <3>2
    <3>4. w.gen_count = (m.gen_count + 1) % GenCounts
      BY <3>1, <3>3, BlankFacts
    <3> QED  BY <1>1, <3>1, <3>4 DEF Stepped
  <2>4. \A d \in Blocks : d # b => Unmoved(d)
    BY <1>2, <2>1, OthersStill
  <2> QED  BY <1>3, <2>1, <2>2, <2>3, <2>4, PopsCounted DEF Popping
<1> QED
  BY <1>4, <1>5

LEMMA MadvisesPops ==
  ASSUME NanoInv, PopOK, NEW t \in Callers, Madvises(t)
  PROVE  PopOK'
<1>1. PICK b, m, w : /\ b = th[t].block /\ m = meta[b]
                     /\ w = Word(FALSE, 0, SLOT_MADVISED, m.gen_count + 1)
  OBVIOUS
<1> DEFINE c == [th[t] EXCEPT !.at = "sweep", !.block = NoBlock]
<1>2. FrameOK(th[t]) /\ b \in Blocks /\ th[t].at = "madvising"
  BY <1>1, FrameNow DEF Madvises, Doing, FrameOK
<1>3. Moves(t, c) /\ meta' = [meta EXCEPT ![b] = w] /\ MadviseFree(b) /\ Counts(t, b, FALSE)
  BY <1>1 DEF Madvises, Set, Moves
<1>4. c.at = "sweep"
  BY <1>2 DEF FrameOK, Fields
<1> HIDE DEF c
<1>5. Stepped(b, FALSE)
  <2>1. WordOK(m) /\ meta'[b] = w
    BY <1>1, <1>2, <1>3 DEF NanoInv, NanoType, MetaOK
  <2>2. PICK x \in Int : x = SLOT_MADVISED
    BY DEF SLOT_MADVISED
  <2>3. w = Word(FALSE, 0, x, m.gen_count + 1)
    BY <1>1, <2>2
  <2>4. w.gen_count = (m.gen_count + 1) % GenCounts
    BY <2>1, <2>3, BlankFacts
  <2> QED  BY <1>1, <2>1, <2>4 DEF Stepped
<1>6. Emptied(b)
  <2>1. meta[b].next_slot = SLOT_MADVISING
    BY <1>1, <1>2 DEF NanoInv, MadviseOK
  <2> QED  BY <1>2, <2>1, EmptyWord DEF Empties
<1>7. \A d \in Blocks : d # b => Unmoved(d)
  <2>1. \A s \in AllSlots : s[1] # b => mem'[s] = mem[s]
    BY <1>2, <1>3, <1>6, MadviseFreeFacts
  <2> QED  BY <1>3, <2>1, OthersStill
<1> QED
  BY <1>2, <1>3, <1>4, <1>5, <1>7, PopsCounted DEF Popping

LEMMA RemadvisesPops ==
  ASSUME NanoInv, PopOK, NEW t \in Callers, Remadvises(t), ~damaged'
  PROVE  PopOK'
<1>1. PICK b : b = th[t].block
  OBVIOUS
<1>2. FrameOK(th[t]) /\ th[t].at = "raced" /\ b \in Blocks /\ UNCHANGED <<meta, gens>>
  BY <1>1, FrameNow DEF Remadvises, Doing, FrameOK
<1>3. Moves(t, NullFrame(th[t])) /\ NullFrame(th[t]).at \in {"missed", "enter", "drop"}
  BY <1>2, NullFacts, NullMoves DEF Remadvises
<1>4. \A s \in AllSlots : mem'[s] = mem[s] \/ (s[1] = b /\ Emptied(b))
  <2>1. CASE th[t].old.next_slot = SLOT_MADVISED
    <3>1. MadviseFree(b) /\ (Reclaims => ~Opened(meta[b]))
      BY <1>1, <2>1 DEF Remadvises
    <3>2. Reclaims => Emptied(b)
      BY <1>2, <3>1, NotOpened DEF NanoInv
    <3> QED  BY <1>2, <3>1, <3>2, MadviseFreeFacts
  <2>2. CASE th[t].old.next_slot # SLOT_MADVISED
    BY <2>2 DEF Remadvises
  <2> QED  BY <2>1, <2>2
<1>5. \A d \in Blocks : Unmoved(d)
  <2>1. ASSUME NEW d \in Blocks, meta[d].next_slot \in 1 .. Slots
        PROVE  mem'[<<d, meta[d].next_slot>>] = mem[<<d, meta[d].next_slot>>]
    <3>1. <<d, meta[d].next_slot>> \in AllSlots /\ <<d, meta[d].next_slot>>[1] = d
      BY <2>1, BlockFacts
    <3>2. ~Emptied(d)
      BY <2>1, SlotNumbers DEF Emptied, Empties, SLOT_NULL, SLOT_CAN_MADVISE, SLOT_MADVISING, SLOT_MADVISED
    <3> QED  BY <1>4, <3>1, <3>2
  <2> QED  BY <1>2, <2>1, AllStill
<1> QED
  BY <1>2, <1>3, <1>5, PopsQuiet DEF Popping

LEMMA PopsStep ==
  ASSUME NanoInv, PopOK, [NanoNext]_nanoVars, ~damaged'
  PROVE  PopOK'
<1>1. CASE UNCHANGED nanoVars
  BY <1>1 DEF nanoVars, PopOK, PopFrameOK, SameList
<1>2. CASE NanoNext
  <2>1. PICK t \in Callers : Call(t) \/ Step(t)
    BY <1>2 DEF NanoNext
  <2>2. CASE Call(t)
    BY <2>2, ElsewherePops DEF Call, Elsewhere
  <2>3. CASE AllocateFromBlock(t)
    BY <2>3, TryLoadsPops, ReadsNextPops, SwapTakesPops, SwapFailsPops, RemadvisesPops
    DEF AllocateFromBlock
  <2>4. CASE Allocate(t)
    BY <2>4, ElsewherePops, ActivatesPops, OutOfUsePops DEF Allocate, Elsewhere
  <2>5. CASE FreeToBlock(t)
    BY <2>5, FreesToBlockPops, ElsewherePops DEF FreeToBlock, Elsewhere
  <2>6. CASE MadviseBlock(t)
    BY <2>6, MadviseStartsPops, MadvisesPops, ElsewherePops DEF MadviseBlock, Elsewhere
  <2> QED  BY <2>1, <2>2, <2>3, <2>4, <2>5, <2>6 DEF Step
<1> QED
  BY <1>1, <1>2

LEMMA PopsInvariant == NanoSpec => [](damaged \/ (NanoInv /\ PopOK))
<1>1. NanoInit => PopOK
  <2> SUFFICES ASSUME NanoInit PROVE PopOK
    OBVIOUS
  <2>1. \A t \in Callers : th[t].at = "idle" /\ gens[t] = 0
    BY IdleFacts DEF NanoInit
  <2>2. gens = [t \in Callers |-> gens[t]]
    BY DEF NanoInit
  <2> QED  BY <2>1, <2>2, NanoSizes DEF PopOK, PopFrameOK, Popping
<1>2. (damaged \/ NanoInv) /\ (damaged \/ PopOK) /\ [NanoNext]_nanoVars => (damaged \/ PopOK)'
  <2> SUFFICES ASSUME damaged \/ NanoInv, damaged \/ PopOK, [NanoNext]_nanoVars, ~damaged'
               PROVE  PopOK'
    OBVIOUS
  <2>1. ~damaged
    BY DamageStays
  <2> QED  BY <2>1, PopsStep
<1> QED
  BY <1>1, <1>2, NanoInvariant, PTL DEF NanoSpec

LEMMA StalePopsFailNow == damaged \/ (NanoInv /\ PopOK) => StalePopsFail
<1> SUFFICES ASSUME NanoInv, PopOK, NEW t \in Callers, th[t].at = "swap",
                    meta[th[t].block] = th[t].old, StaleLink(t), gens[t] # GenCounts
             PROVE  FALSE
  BY DEF StalePopsFail, Doing
<1>1. th[t].at \in Popping /\ PopFrameOK(th[t], gens[t])
  BY DEF Popping, PopOK
<1>2. PICK a, g : a = th[t].old.gen_count /\ g = gens[t]
  OBVIOUS
<1>3. a \in 0 .. GenCounts - 1 /\ g \in 0 .. GenCounts - 1 /\ GenCounts \in Nat \ {0}
  BY <1>1, <1>2, PopParts, NanoSizes DEF PopFrameOK
<1>4. a = (a + g) % GenCounts
  BY <1>1, <1>2 DEF PopFrameOK
<1>5. g = 0
  BY <1>3, <1>4, CountsOn
<1> QED
  BY <1>1, <1>2, <1>5 DEF PopFrameOK, StaleLink

(***************************************************************************)
(* What follows.                                                           *)
(***************************************************************************)

\* Every slot of a block has one owner or waits to be allocated, until a pop
\* goes through with a stale link or a madvise comes too late: whatever the
\* order of pops, frees, activations and drops
\* (nanov2_allocate_from_block, nanov2_free_to_block).
THEOREM SlotsAreExact == NanoSpec => []SlotsExact
<1>1. damaged \/ NanoInv => SlotsExact
  BY FreeSlotsExactNow, ExclusiveNow DEF SlotsExact
<1> QED
  BY <1>1, NanoInvariant, PTL

\* A pop that goes through with a stale link was away for as many counted
\* changes of the word as gen_count has values, or while the block was taken
\* into use again: the first thing that can go wrong in the allocator needs one
\* of these (nanov2_allocate_from_block).
THEOREM StalePopsAreRare == NanoSpec => []StalePopsFail
  BY PopsInvariant, StalePopsFailNow, PTL

\* A block that is or is about to be given back to the kernel has no owner, and
\* during the system call its word belongs to the holder of madvise_lock
\* (nanov2_madvise_block).
THEOREM MadvisedBlocksAreEmpty == NanoSpec => []MadvisedIsEmpty
  BY NanoInvariant, MadvisedIsEmptyNow, PTL
=============================================================================
