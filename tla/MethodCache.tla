----------------------------- MODULE MethodCache -----------------------------
(***************************************************************************)
(* Method caches (objc-cache.mm) as the x86_64 runtime builds them: a      *)
(* message reads the mask, the buckets and single buckets of a class's     *)
(* cache without a lock; whoever holds runtimeLock adds entries, replaces  *)
(* the buckets and frees old ones that no message can be reading.          *)
(*                                                                         *)
(* A step of a message is one load.  A step of a holder of runtimeLock     *)
(* ends with a store that a message can see, or with the look at one       *)
(* thread of a collection.                                                 *)
(***************************************************************************)
EXTENDS Naturals, Sequences, FiniteSets, FiniteSetsExt

CONSTANTS
  Threads, NoThread,
  Sends,       \* the selectors that each thread sends; those that send none
               \* change methods and flush caches
  Classes,
  Superclasses, \* of each class, the nearest first; the last implements the methods
  Selectors,   \* their addresses
  Buffers,     \* bound: the arrays of buckets that malloc may hand out
  InitSize,    \* INIT_CACHE_SIZE
  MaxSize,     \* MAX_CACHE_SIZE
  Threshold,   \* garbage_threshold, in buckets
  MaxVersion,  \* bound, for each selector: its implementations
  Restartable, \* the values of shouldUseRestartableRanges
  SignalledFlush \* may a signal reach a flush in cache_getImp?

ASSUME ThreadsAssumption == NoThread \notin Threads /\ Sends \in [Threads -> SUBSET Selectors]
ASSUME ClassesAssumption == Superclasses \in [Classes -> Seq(Classes)]
ASSUME SelectorsAssumption == Selectors \subseteq Nat \ {0, 1}
ASSUME SizesAssumption == InitSize \in Nat \ {0, 1, 2} /\ MaxSize \in Nat /\ InitSize <= MaxSize
ASSUME RestartableAssumption == Restartable \subseteq BOOLEAN
ASSUME BuffersAssumption == Buffers \subseteq Nat \ {0}

VARIABLES
  heap,         \* the buckets of each array, or NoBuckets
  cache,        \* the cache_t of each class
  garbage,      \* garbage_refs
  version,      \* the newest implementation of each method
  lock,         \* the holder of runtimeLock
  work,         \* what it is doing
  call,         \* the message that each thread sends
  restartable   \* shouldUseRestartableRanges

vars == <<heap, cache, garbage, version, lock, work, call, restartable>>

Empty == 0  \* _objc_empty_cache
NoBuckets == <<>>
NoImp == <<0, 0>>
Bucket(sel, imp) == [sel |-> sel, imp |-> imp]
Unused == Bucket(0, NoImp)
EndMarker == Bucket(1, NoImp)

\* calloc, and the end marker in the last bucket
AllocateBuckets(size) ==
  [i \in 0 .. size - 1 |-> IF i = size - 1 THEN EndMarker ELSE Unused]

\* The shared empty buckets are large enough for every mask.
At(b, i) == IF b = Empty THEN Unused ELSE heap[b][i]
Size(b) == Cardinality(DOMAIN heap[b])
Capacity(c) == IF cache[c].mask = 0 THEN 0 ELSE cache[c].mask + 1
CacheHash(s, mask) == s % (mask + 1)

\* The bucket with the selector or the first unused one, in scan order.
Found(b, mask, s) ==
  LET Place(k) == (CacheHash(s, mask) + k) % (mask + 1)
      ks == {k \in 0 .. mask : At(b, Place(k)).sel \in {0, s}} IN
  {Place(k) : k \in {k \in ks : \A j \in ks : k <= j}}

NoMessage == [pc |-> "idle", cls |-> "none", sel |-> 0, since |-> 0, mask |-> 0,
              buckets |-> Empty, i |-> 0, wrapped |-> FALSE, imp |-> NoImp]
NoWork == [op |-> "none", pc |-> "none", cls |-> "none", sel |-> 0, size |-> 0,
           old |-> Empty, todo |-> {}, unchecked |-> {}]

Init ==
  /\ heap = [b \in Buffers |-> NoBuckets]
  /\ cache = [c \in Classes |-> [buckets |-> Empty, mask |-> 0, occupied |-> 0]]
  /\ garbage = {}
  /\ version = [s \in Selectors |-> 1]
  /\ lock = NoThread
  /\ work = NoWork
  /\ call = [t \in Threads |-> NoMessage]
  /\ restartable \in Restartable

Is(t, pc) == call[t].pc = pc

(***************************************************************************)
(* objc_msgSend: the loads of CacheLookup.                                 *)
(***************************************************************************)
\* The newest implementation whose change has returned.
Settled(s) == version[s] - (IF work.op = "change" /\ work.sel = s THEN 1 ELSE 0)

Send(t, c, s) ==
  /\ Is(t, "idle") /\ s \in Sends[t]
  /\ call' = [call EXCEPT ![t] = [NoMessage EXCEPT
                !.pc = "buckets", !.cls = c, !.sel = s, !.since = Settled(s),
                !.mask = cache[c].mask]]
  /\ UNCHANGED <<heap, cache, garbage, version, lock, work, restartable>>

\* The message starts with the load of the mask.  Then r is the message with what it has read.
Load(t, pc, r) ==
  /\ Is(t, pc)
  /\ call' = [call EXCEPT ![t] = r]
  /\ UNCHANGED <<heap, cache, garbage, version, lock, work, restartable>>

Missed(r) == [NoMessage EXCEPT
  !.pc = "lookup", !.cls = r.cls, !.sel = r.sel, !.since = r.since]

LoadBuckets(t) ==
  Load(t, "buckets", [call[t] EXCEPT !.pc = "compare",
    !.buckets = cache[call[t].cls].buckets, !.i = CacheHash(call[t].sel, call[t].mask)])

Sel(t) == At(call[t].buckets, call[t].i).sel

Compare(t) ==
  Load(t, "compare",
       [call[t] EXCEPT !.pc = IF Sel(t) = call[t].sel THEN "imp" ELSE "scan"])

\* Not the selector: a miss, the end marker, or the next bucket.  The
\* selector is loaded again, and may be there now.
Scan(t) ==
  Load(t, "scan",
       IF Sel(t) = 0 \/ (Sel(t) = 1 /\ call[t].wrapped) THEN Missed(call[t])
       ELSE IF Sel(t) = 1
       THEN [call[t] EXCEPT !.pc = "compare", !.i = 0, !.wrapped = TRUE]
       ELSE [call[t] EXCEPT !.pc = "compare", !.i = @ + 1])

LoadImp(t) == Load(t, "imp", NoMessage)

\* Mutant: a message that has found its selector is not seen.
InCriticalScan(t) == call[t].pc \in {"buckets", "compare", "scan"}

\* The messages that the kernel, or a look at their pc, finds in the lookup.
InCritical(t) == call[t].pc \in {"buckets", "compare", "scan", "imp"}

\* A signal sends the thread to the recovery path.
Signal(t) ==
  /\ restartable /\ InCritical(t)
  /\ Load(t, call[t].pc, Missed(call[t]))

(***************************************************************************)
(* cache_t::insert, eraseNolock and setBucketsAndMask, under runtimeLock.  *)
(***************************************************************************)
Unlock(r) ==
  /\ lock' = NoThread
  /\ work' = NoWork
  /\ call' = [call EXCEPT ![lock] = r]

CacheGetImp(c, s) ==
  LET b == cache[c].buckets
      hit == {i \in Found(b, cache[c].mask, s) : At(b, i).sel = s} IN
  IF hit = {} THEN NoImp ELSE At(b, CHOOSE i \in hit : TRUE).imp

\* The nearest superclass's cache that has the selector, or the method list.
LookUpImp(c, s) ==
  LET supers == Superclasses[c]
      hits == {i \in DOMAIN supers : CacheGetImp(supers[i], s) # NoImp} IN
  IF hits = {} THEN <<s, version[s]>> ELSE CacheGetImp(supers[Min(hits)], s)

IsConstantEmptyCache(c) == cache[c].occupied = 0 /\ cache[c].buckets = Empty

\* Mutant: fills every bucket.
FillRatioFull(capacity) == capacity

FillRatio(capacity) == (capacity * 3) \div 4
HasRoom(c) == cache[c].occupied + 1 + 1 <= FillRatio(Capacity(c))

NewCapacity(c) ==
  IF Capacity(c) = 0 THEN InitSize
  ELSE IF IsConstantEmptyCache(c) THEN Capacity(c)
  ELSE IF 2 * Capacity(c) > MaxSize THEN MaxSize ELSE 2 * Capacity(c)

\* lookUpImpOrForward, up to the first store of insert
LookUp(t) ==
  /\ Is(t, "lookup") /\ lock = NoThread
  /\ \E b \in Buffers : heap[b] = NoBuckets  \* the bound; a flush makes room
  /\ LET c == call[t].cls  s == call[t].sel IN
       /\ lock' = t
       /\ call' = [call EXCEPT ![t].pc = "fill", ![t].imp = LookUpImp(c, s)]
       /\ work' = [NoWork EXCEPT
            !.op = "insert", !.cls = c, !.sel = s,
            !.pc = IF HasRoom(c) /\ ~IsConstantEmptyCache(c) THEN "fill" ELSE "buckets",
            !.size = NewCapacity(c),
            !.old = IF IsConstantEmptyCache(c) THEN Empty ELSE cache[c].buckets]
  /\ UNCHANGED <<heap, cache, garbage, version, restartable>>

Malloc == CHOOSE b \in Buffers : heap[b] = NoBuckets

\* setBucketsAndMask: the buckets, then the mask and occupied.  An erase
\* installs the empty buckets.
StoreBuckets ==
  /\ work.pc = "buckets"
  /\ IF work.op = "insert"
       THEN /\ heap' = [heap EXCEPT ![Malloc] = AllocateBuckets(work.size)]
            /\ cache' = [cache EXCEPT ![work.cls].buckets = Malloc]
       ELSE /\ cache' = [cache EXCEPT ![work.cls].buckets = Empty]
            /\ UNCHANGED heap
  /\ work' = [work EXCEPT !.pc = "mask"]
  /\ UNCHANGED <<garbage, version, lock, call, restartable>>

Continue(w) == [w EXCEPT !.pc = IF w.op = "insert" THEN "fill" ELSE "flush",
                      !.old = Empty, !.unchecked = {}]
Others == Threads \ {lock}

\* The mask, then collect_free, which collects if the garbage is full.
StoreMask ==
  LET refs == garbage \cup ({work.old} \ {Empty}) IN
  /\ work.pc = "mask"
  /\ cache' = [cache EXCEPT ![work.cls].mask = work.size - 1, ![work.cls].occupied = 0]
  /\ garbage' = refs
  /\ work' = IF work.old # Empty /\ MapThenSumSet(Size, refs) >= Threshold
               THEN [work EXCEPT !.pc = "collect", !.unchecked = Others]
               ELSE Continue(work)
  /\ UNCHANGED <<heap, version, lock, call, restartable>>

\* The first unused bucket takes the implementation, then the selector; an
\* entry that is there already stays.
Fill ==
  LET c == work.cls
      b == cache[c].buckets
      place == Found(b, cache[c].mask, work.sel) IN
  /\ work.pc = "fill"
  /\ IF \E i \in place : At(b, i).sel = 0
       THEN LET i == CHOOSE i \in place : TRUE IN
            /\ heap' = [heap EXCEPT ![b][i].imp = call[lock].imp]
            /\ cache' = [cache EXCEPT ![c].occupied = @ + 1]
            /\ work' = [work EXCEPT !.pc = "sel"]
            /\ UNCHANGED <<lock, call>>
       ELSE /\ place # {}  \* else bad_cache
            /\ Unlock(NoMessage)
            /\ UNCHANGED <<heap, cache>>
  /\ UNCHANGED <<garbage, version, restartable>>

StoreSel ==
  LET b == cache[work.cls].buckets IN
  /\ work.pc = "sel"
  /\ \E i \in Found(b, cache[work.cls].mask, work.sel) :
       heap' = [heap EXCEPT ![b][i].sel = work.sel]
  /\ Unlock(NoMessage)
  /\ UNCHANGED <<cache, garbage, version, restartable>>

(***************************************************************************)
(* method_setImplementation and _objc_flush_caches(nil).                   *)
(***************************************************************************)
Begin(t, op, s) ==
  /\ Is(t, "idle") /\ Sends[t] = {} /\ lock = NoThread
  /\ lock' = t
  /\ call' = [call EXCEPT ![t].pc = op]
  /\ work' = [NoWork EXCEPT !.op = op, !.pc = "flush", !.sel = s, !.todo = Classes]
  /\ UNCHANGED <<heap, cache, garbage, restartable>>

SetImplementation(t, s) ==
  /\ version[s] < MaxVersion[s]
  /\ version' = [version EXCEPT ![s] = @ + 1]
  /\ Begin(t, "change", s)

FlushCaches(t) == Begin(t, "flush", 0) /\ UNCHANGED version

\* shouldFlush looks with cache_getImp, which a signal makes miss.
ShouldFlush(c) ==
  LET old == <<work.sel, version[work.sel] - 1>> IN
  IF work.op = "flush" THEN {TRUE}
  ELSE {CacheGetImp(c, work.sel) = old} \cup (IF SignalledFlush /\ restartable THEN {FALSE} ELSE {})

\* Mutant: keeps a cache with one entry.
ErasesTwo(c) == cache[c].occupied > 1

\* eraseNolock: "this must not shrink the cache".
Erases(c) == cache[c].occupied > 0

\* Mutant: shrinks the cache.
ErasedCapacityNone(c) == 1

ErasedCapacity(c) == Capacity(c)

FlushClass(c) ==
  /\ work.pc = "flush" /\ c \in work.todo
  /\ \E flush \in ShouldFlush(c) :
       work' = IF flush /\ Erases(c)
                 THEN [work EXCEPT !.todo = @ \ {c}, !.pc = "buckets", !.cls = c,
                         !.size = ErasedCapacity(c), !.old = cache[c].buckets]
                 ELSE [work EXCEPT !.todo = @ \ {c}]
  /\ UNCHANGED <<heap, cache, garbage, version, lock, call, restartable>>

Flushed ==
  /\ work.pc = "flush" /\ work.todo = {}
  /\ Unlock(IF work.op = "flush" THEN [NoMessage EXCEPT !.pc = "collect"] ELSE NoMessage)
  /\ UNCHANGED <<heap, cache, garbage, version, restartable>>

(***************************************************************************)
(* collectNolock: the threads are looked at one after the other.           *)
(***************************************************************************)
\* The second part of _objc_flush_caches(nil): collectNolock(true)
CollectALot(t) ==
  /\ Is(t, "collect") /\ lock = NoThread
  /\ lock' = t
  /\ work' = [NoWork EXCEPT !.op = "collect", !.pc = "collect", !.unchecked = Threads \ {t}]
  /\ UNCHANGED <<heap, cache, garbage, version, call, restartable>>

\* A thread in the lookup is sent to the recovery path, or else ends the
\* collection, or makes it start over.
CheckThread(t) ==
  /\ work.pc = "collect" /\ t \in work.unchecked
  /\ IF InCritical(t) /\ restartable
       THEN call' = [call EXCEPT ![t] = Missed(call[t])]
       ELSE UNCHANGED call
  /\ work' = IF restartable \/ ~InCritical(t) THEN [work EXCEPT !.unchecked = @ \ {t}]
             ELSE IF work.op = "collect" THEN [work EXCEPT !.unchecked = Others]
             ELSE Continue(work)
  /\ UNCHANGED <<heap, cache, garbage, version, lock, restartable>>

FreeGarbage ==
  /\ work.pc = "collect" /\ work.unchecked = {}
  /\ heap' = [b \in Buffers |-> IF b \in garbage THEN NoBuckets ELSE heap[b]]
  /\ garbage' = {}
  /\ IF work.op = "collect" THEN Unlock(NoMessage)
                            ELSE work' = Continue(work) /\ UNCHANGED <<lock, call>>
  /\ UNCHANGED <<cache, version, restartable>>

Message(t) ==
  \/ LoadBuckets(t) \/ Compare(t) \/ Scan(t) \/ LoadImp(t)
  \/ LookUp(t) \/ CollectALot(t)

Holder ==
  \/ StoreBuckets \/ StoreMask \/ Fill \/ StoreSel
  \/ \E c \in Classes : FlushClass(c)
  \/ \E t \in Threads : CheckThread(t)
  \/ Flushed \/ FreeGarbage

Next ==
  \/ \E t \in Threads, c \in Classes, s \in Selectors : Send(t, c, s)
  \/ \E t \in Threads, s \in Selectors : SetImplementation(t, s)
  \/ \E t \in Threads : FlushCaches(t) \/ Message(t) \/ Signal(t)
  \/ Holder

Spec == Init /\ [][Next]_vars

(***************************************************************************)
(* Properties.                                                             *)
(***************************************************************************)
\* A message that reads buckets reads memory that was not freed, and inside
\* the array: "objc_msgSend running concurrently with the cache mutator will
\* not crash".
ReadsAreSafe ==
  \A t \in Threads :
    call[t].pc \in {"compare", "scan", "imp"} /\ call[t].buckets # Empty
      => call[t].i \in DOMAIN heap[call[t].buckets]

\* A message calls an implementation of its selector, and none that had been
\* replaced, by a change that has returned, before the message was sent.
Current(r, imp) == imp[1] = r.sel /\ imp[2] >= r.since
NeverStale ==
  \A t \in Threads :
    /\ Is(t, "imp") => Current(call[t], At(call[t].buckets, call[t].i).imp)
    /\ Is(t, "fill") => Current(call[t], call[t].imp)

\* Every cache keeps an unused bucket for the scans to end at ("there is
\* guaranteed to be an empty slot").
EmptySlot ==
  \A c \in Classes : cache[c].buckets # Empty =>
    \E i \in DOMAIN heap[cache[c].buckets] : heap[cache[c].buckets][i].sel = 0
=============================================================================
