# Verification of the Objective-C runtime

This directory holds TLA+ models, TLC configurations and machine-checked proofs
about the Objective-C runtime in this repository. The repository contains six
copies of the runtime (objc4 750, 756.2, 779.1, 781, 818.2 and 838) and three of
libmalloc; the models follow the newest runtime,
`src/objc4-838可编译源码/runtime/` (called `runtime/` below), and the newest
libmalloc, `src/libmalloc/libmalloc-317.40.8可编译/src/` (`malloc/` below).

## 1. Inventory

| Component | Code (`runtime/`) | State it keeps | Operations |
|---|---|---|---|
| Retain counts | `objc-object.h`, `NSObject.mm`, `isa.h`, `objc-private.h` | the isa word (class, `extra_rc`, `has_sidetable_rc`, `weakly_referenced`), the side table entry and its lock | `rootRetain`, `rootRelease`, `rootTryRetain`, `changeIsa`, `rootDealloc`, `clearDeallocating` |
| Weak references | `NSObject.mm`, `objc-weak.mm` | weak variables, the weak table of each side table, the table locks | `storeWeak`, `objc_loadWeakRetained`, `objc_moveWeak`, `objc_copyWeak`, `objc_destroyWeak`, `weak_clear_no_lock` |
| Weak hash table | `objc-weak.mm`, `objc-weak.h` | open-addressed array of entries, each with an inline or out-of-line hash set of referrers | insert, find, remove, grow, compact |
| `+initialize` | `objc-initialize.mm` | per class RW_INITIALIZING / RW_INITIALIZED, per thread list of classes being initialized, `pendingInitializeMap` | `initializeNonMetaClass`, `_finishInitializing`, `_finishInitializingAfter`, `waitForInitializeToComplete`, fork handling |
| `@synchronized` | `objc-sync.mm` | the global lists of `SyncData`, the per-thread caches, the recursive mutexes | `objc_sync_enter`, `objc_sync_exit`, `objc_sync_try_enter`, `id2data` |
| Autorelease pools | `NSObject.mm`, `NSObject-internal.h` | per-thread list of pages, hot page, `next` pointers, coalesced entries, the return-value slot | push, add, pop, kill |
| Method caches | `objc-cache.mm`, `objc-msg-x86_64.s`, `objc-runtime-new.mm` | buckets, mask, occupied count, garbage list, `runtimeLock` | message send, insert, reallocate, erase, flush, collect |
| Associated objects | `objc-references.mm`, `objc-runtime.mm` | the map of associations, its lock, `has_assoc` | set, get, remove, removal at deallocation |
| Atomic properties | `objc-accessors.mm` | the ivar slots, the striped property locks | get, set, copy struct |
| Nano V2 zone | `malloc/nanov2_malloc.c`, `nanov2_zone.h` | one word per block, free lists in the slots, the current block of each CPU, its lock, `madvise_lock`, the delegation flags | malloc, free, block search, madvise, pressure relief |
| `+load` | `objc-loadmethod.mm`, `objc-runtime-new.mm` | lists of loadable classes and categories, RW_LOADED, `loading`, `loadMethodLock` | `load_images`, `prepare_load_methods`, `call_load_methods`, `unmap_image` |
| Classes, categories, lookup | `objc-runtime-new.mm` | class tables, method lists, realized flags | realize, attach, `lookUpImpOrForward` |
| Locks and fork | `objc-os.mm`, `objc-lockdebug.mm` | all runtime locks and their order | `_objc_atfork_*` |

How they interact. `retain` and `release` share the isa word without a lock and
fall back on the side table under its lock. `objc_loadWeakRetained` takes the
lock of the referent's side table and calls `rootTryRetain` inside it; the last
`release` sends `-dealloc`, which ends in `clearDeallocating`, which takes the
same lock to set the weak variables to nil. A weak store of an object whose
class is not initialized releases the table locks, runs `+initialize` and starts
over. Message lookup triggers `+initialize`. `autorelease` defers a `release` to
the pop of a pool, and a `-dealloc` sent by a pop can autorelease again. A setter
of an association or a property releases the old value after it let go of the
lock, and the value's `-dealloc` can call the accessors again. dyld hands images to
`load_images`, whose `+load` methods can make dyld map and unmap more of them.
`objc_msgSend` reads
method caches without any lock, while others replace and free them. All objects
small enough are memory of the Nano zone, whose free lists are changed by threads
on every CPU.

What is hard: a count that lives in two words, moved half at a time between
a compare-and-swap and a lock; a retry that starts from a stale value; a weak
load that races with the last release; `+initialize` that must run once, on one
thread, before any other thread uses the class, without deadlock between
superclass and subclass; caches of locks that outlive the lock; hash tables
without tombstones; page lists whose hysteresis leaves empty pages behind; readers
of memory that may be freed under them, known only by where their program counter
is; a free list whose links lie in memory that may be in use again; flags set
after the lock that protects what they tell.

What makes each component correct:

- *Retain counts*: the counts in the two words, with what is on its way between
  them, add up to the references held; `-dealloc` is sent once, by the release of
  the last reference; nothing touches the object after it was freed.
- *Weak references*: a variable shows its object until the last release and nil
  afterwards; the weak tables mirror the variables; no lock is held while code
  of the program runs.
- *Weak hash table*: every registered referrer is found, whatever was removed
  before it, and a removed one is not.
- *`+initialize`*: it is sent once per class, superclass first, and no other
  thread gets past it before it is over; two threads that initialize a class and
  its subclass do not wait for each other.
- *`@synchronized`*: mutual exclusion for each object, although mutexes are
  reused for other objects; an exit reports whether the thread owned the object.
- *Autorelease pools*: a pop sends each object one release for each autorelease
  since the push, and the token of an outer pool stays valid.
- *Method caches*: a reader without a lock sees a method of the class or a miss,
  and never a freed bucket.
- *Associated objects, atomic properties*: what a getter returns is retained
  before a setter can release it; nothing is leaked or released twice, and nothing
  is left to the next object at the address.
- *Nano V2 zone*: a slot has one owner; the free list and the unused rest of a
  block are exactly the slots that nobody owns; a block given back to the kernel
  is empty.
- *`+load`*: once per class, superclasses first, classes before their categories,
  including images mapped by a `+load`.

## 2. Plan

Order of work, the most central behaviour first. Entries marked *done* are in
this directory.

| Step | Modules | Question | State |
|---|---|---|---|
| 1 | `ObjectLife`, `RefCount` | is a count that moves between two words exact, and is the object freed once and only after the last reference | done, proved |
| 2 | `WeakVariables`, `WeakStore` | do several variables, objects and tables behave as zeroing references, with `+initialize` in the middle of a store | done, proved |
| 3 | `ClassInitialize` | order, uniqueness and progress of `+initialize` | done, proved |
| 4 | `Synchronized` | mutual exclusion with cached and reused locks | done, proved |
| 5 | `PoolStack`, `AutoreleasePoolPage` | are the pages one stack of bags, whatever a `-dealloc` does in a pop | done, proved |
| 6 | `WeakTable` | does the open-addressed table of `objc-weak.mm`, with its recorded maximal displacement, implement the set of registrations that `WeakStore` uses | done, proved |
| 7 | `MethodCache` | buckets and mask published in two stores to readers without a lock; the garbage list and both ways to collect it | done, proved |
| 8 | `Accessors` | set, get and removal with releases outside the lock; the same exchange in atomic properties | done, proved |
| 9 | `NanoV2` | compare-and-swap of block words against links in the slots, block search, madvise | done, proved |
| 10 | `LoadMethods` | once per class, superclasses first, with images mapped and unmapped by a `+load` | done, proved |
| 11 | proofs about `AutoreleasePoolPage` as a `PoolStack` | the refinement of step 5 for every instance | done, proved |
| 12 | proofs about `WeakTable` | the invariants of step 6 for every instance | done, proved |
| 13 | proofs about `NanoV2` | the invariants of step 9 for every instance | done, proved |

Abstract specifications: `ObjectLife` for step 1, `WeakVariables` for step 2,
`PoolStack` for step 5; the contents of the variables for step 6. The
composition follows the calls: `WeakStore` takes retain and release as atomic,
which is what `RefCount` is shown to implement, and the weak tables as sets,
which is what `WeakTable` is shown to be; its `+initialize` is that of one class,
without the superclasses that `ClassInitialize` adds. `Accessors` takes retain and
release as atomic too.

## 3. The modules and the code

Line numbers of every definition are in `PROJECT.json` (`map`). A step of a model
is one access to shared memory or one critical section; what the code reads
before it and uses after it is kept in a variable.

### ObjectLife, RefCount

`RefCount` is the life of one object under `rootRetain`, `rootRelease`,
`rootTryRetain`, `changeIsa`, `rootDealloc`, `clearDeallocating` and the weak
entry points that take part in the race with the last release.

- `isa` is the isa word: `np` (nonpointer), `cls`, `rc` (`extra_rc`), `inside`
  (`has_sidetable_rc`), `weak` (`weakly_referenced`). `side` is the entry in
  `SideTable.refcnts`, `lock` the table's `slock`. `weakLoc` is one `__weak`
  variable and `weakReg` its registration in the weak table.
- `old`, `new`, `full`, `locked` are the locals `oldisa`, `newisa`, `variant` and
  `sideTableLocked`; `pc` is the place in the code and `ret` the caller.
- `refs` is a ghost: the references that each thread's program holds. A program
  calls `retain`, `release`, `object_setClass` or a weak store on an object it
  holds a reference to, and a weak load on any weak variable. `Give` passes a
  reference to another thread. The body of `-dealloc` may retain and release
  `self`.
- A compare-and-swap is two actions, the successful one (`Store`) and the missed
  one, which reloads the word. The missed store in the borrowing path may also
  fail with the isa unchanged, as an LL/SC reservation may be lost.
- `RetainOverflow`, `RetainLock`, `RetainSpill`, `RetainSpilled` are the path from
  an overflow of `extra_rc` to `sidetable_addExtraRC_nolock`;
  `ReleaseUnderflow`, `ReleaseLock`, `ReleaseBorrow`, `BorrowStore`,
  `ReborrowStore`, `PutBack`, `Settle` are `rootRelease` from `underflow:` on.
- `MoveExtraRC` keeps the arithmetic of `sidetable_moveExtraRC_nolock` in an
  unsigned field, with its wrap-around.

`ObjectLife` has no isa and no side table: references, a phase and the weak
variable.

### WeakVariables, WeakStore

`WeakStore` has several objects, variables, classes and side tables. `loc` is what
the variables hold, `reg` the contents of the weak tables as pairs of referent
and referrer, `owner` the side table locks, `stack` the calls of each thread with
their locals. `Read`, `Lock` (one lock at a time, in the order of `lockTwo`),
`TryAgain` are the retry loop shared by `storeWeak`, `objc_loadWeakRetained` and
`objc_moveWeak`; `CallInitialize` is the call-out that unlocks, runs
`+initialize` and starts over; `StoreBody`, `LoadBody`, `MoveBody`,
`DestroyBody` are the critical sections; `Clear` is `clearDeallocating` with
`weak_clear_no_lock`. In `-dealloc` the program may use `objc_storeWeakOrNil` and
destroy weak variables; in `+initialize` it may make any call. An address
may be given to a new object after it was freed.

`objc_initWeak`, `objc_destroyWeak`, `objc_copyWeak` and `objc_moveWeak` are not
safe against concurrent changes of their variables, as the comments in
`NSObject.mm` say; `Modified`, `ModifiedAlone` and `Fresh` are these rules. The
abstract `WeakVariables` is a map from variables to live objects in which the
last release sets all variables of the object to nil in one step.

### ClassInitialize

`state` holds RW_INITIALIZING and RW_INITIALIZED, `mine` each thread's list of
classes it is initializing (`_objc_pthread_data.initializingClasses`), `pending`
the map `pendingInitializeMap`, `stack` the nested calls of
`initializeNonMetaClass`. `InitializeSuper`, `Try`, `Record`, `BodyDone`,
`FinishInitializing` or `FinishInitializingAfter` are the path of the
initializing thread; `Decide`, `OwnedByThisThread`, `OwnedByOtherThread`,
`OwnedBeforeFork`, `Wait` are the path of a thread that finds the class taken.
`BodyDone` may throw: `Unwound` removes the frames up to the next `+initialize`
below. `Fork` leaves one thread and the state as it was. `Refused` is the test of the
child before it takes a class over: `classHasTrivialInitialize` answers yes for the
classes that find no `+initialize` (`NoInitialize`) and for every root class, whatever its
`+initialize` does (`Trivial`).

### Synchronized

`data` are the lists of `SyncData` (`sDataLists`), `fast` and `cache` the two
per-thread caches, `locked` a ghost that counts what the program has locked.
`EnterCached`/`EnterFind` and `ExitCached`/`ExitFind` are `id2data`, one atomic
step up to its end, because it has one access to shared memory: the critical
section of the spinlock, or the atomic decrement of `threadCount`. The operation
on the mutex comes after it as a step of its own, which is where a `SyncData`
that was given up may already be another object's. The program waits for objects
in an order and leaves what it entered; it may try to enter in any order, and
exit objects it has not entered.

### PoolStack, AutoreleasePoolPage

The state of one thread: `pages` with their entries, `hot` (the TLS slot, with the
placeholder of a pool that was never used), `tokens` that the program holds, and
`frames`, the pops in progress. A pop takes one entry (`TakeEntry`, with the
coalesced count), releases it once per count (`Release`), and each release may
run a `-dealloc` (`running`) that pushes, autoreleases and pops again before
`ReleaseReturns`. `PopPage` is the end of `popPage` with the pages it kills;
`ThreadExit` and `KillPages` are `tls_dealloc`. `AutoreleaseFast` is
`autoreleaseFast` with its three cases and the placeholder; `Add` is `add` with
the coalescing of autoreleases of one object in the last entries.

`PoolStack` is a stack of bags with the pops in progress and the releases that
have not returned; it has no pages, tokens or counts. The mapping to it counts: each
boundary in the pages (`Boundaries`) opens a pool, and a pool holds as many of an
object as there are releases due (`Releases`, `Due`) whose place lies between its
boundary and the next (`PoolOf`): `count + 1` for an entry that is still in its page,
and for an entry that a pop has taken those that it has yet to send (`Taken`).

### WeakTable

`entries`, `num_entries` and `max_displacement` are the `weak_table_t`; an entry has
`refs` (inline referrers, or after `out` the buckets of the hash set), `num` and
`max`. `Displaced` and `Reaches` are the probing that both tables share:
insertion takes the first empty bucket and raises the recorded displacement, a
search goes on behind empty buckets as far as the record says. `AppendReferrer`,
`GrowAndInsert`, `RemoveReferrer` are the set of an entry, `InsertEntry`, `Grown`,
`Compacted`, `RemoveEntry` the table. The three actions, `WeakRegister`, `WeakUnregister`
and `WeakClear`, are the three functions that the rest of the runtime calls, under the
lock of the side table; `Referents` are the objects. `value` is
what the variables hold. `LooksEmpty` has what `weak_unregister_no_lock` sees of an entry
that went out of line: its first inline referrer overlays the pointer to the hash
set, so the entry never looks empty again.

### MethodCache

`heap` is the memory for buckets, `cache` each class's buckets, mask and count,
`garbage` the list `garbage_refs`, `lock` the holder of `runtimeLock` with its
`work`, `call` the message that each thread is sending. `Send`, `LoadBuckets`,
`Compare`, `Scan`, `LoadImp` are the loads of `objc_msgSend` on x86_64, one step each;
`LookUp` is `lookUpImpOrForward` up to the first store of `cache_t::insert`, and
`StoreBuckets`, `StoreMask`, `Fill`, `StoreSel` are the stores that messages can see,
in the order of the code. `SetImplementation` and `FlushCaches` flush class by class
(`FlushClass`, `eraseNolock`). `CheckThread` looks at one thread of a collection:
with restartable ranges the thread is sent to the recovery path, else a
thread inside the lookup ends the collection or, in `collectNolock(true)`, makes
it start over; `FreeGarbage` frees what was collected. `Signal` is a signal handler
that interrupts a lookup, which goes to the recovery path as well.

### Accessors

One object with its associations and one atomic property (`entry`), `has_assoc`, and
values with counts. A set is three steps: `SetAssociation` or `SetProperty` retain
the new value, `Swap` exchanges it under the lock, `SetHasAssociatedObjects` sets
the flag outside it if the map had no association; `Release` releases the old
value, and if that was its last reference runs its `-dealloc`, in which the
thread may call the accessors again. `Get` retains under the lock,
`Autorelease` follows. `RemoveAssociations` takes the associations out of the map but for
those of the system, and releases them afterwards. The destruction of the object is
three steps, as in `objc_destructInstance`: `Destroy` calls its `-dealloc`, in which the
program may use the object; `DestructInstance` reads `has_assoc` and releases the property,
as the destructor of an ivar does; `RemoveDeallocating` takes out all associations if the
flag was found set, and those of the system are released last. Each of these releases may run the `-dealloc` of a
value, which may set associations and properties of the dying object
(`MayCall`); what is set after the object gave up its place is marked in the ghost
`late`. `NewObject` uses the address again, with its memory cleared; the references that a
late property still held are counted in the ghost `lost`.

### NanoV2

The blocks of one size class; `Callers` are the threads. `meta` is the block word, `mem` the guard and link
that overlay a free slot, `current` the block of each CPU. `TryLoads`, `ReadsNext`,
`SwapTakes` and `SwapFails` are `nanov2_allocate_from_block`: the load, the read of the
link from a slot that may be anybody's by then (if there is a list and another slot on it), and the swap.
A swap that fails goes round again with the word that made it fail (`Again`), after
`Remadvises` if that word says that somebody madvised the block, for
a slot of the list and for one behind the bump alike. The ghost `gens` counts the generations
that a block went through since a thread loaded its word, up to `GenCounts`, which also
stands for a count that started over; the ghost `damaged` is set by the first swap that goes through
with a stale link (`StaleLink`) and by a repeated madvise of a block that is in use again.
`NanoMalloc` is a call of `nanov2_allocate`, with the lock taken in `Locks`.
`Enters` to `Leaves` are `nanov2_find_block_and_allocate`: one arena and one block after the
other (`Scans`, `NextArena`), `Activates`, a new arena (`Grows`), `Publishes` for
the other threads, and the release of the block used before. `Free` is what
`nanov2_pointer_size` answers, `FreesToBlock` the push. `Relieves` and the actions of
`MadviseBlock` are the memory pressure handler and the immediate policy. A load
followed by a swap whose new word depends on the old word only is one step, that
of the swap that succeeds.

### LoadMethods

`loadable_classes` and `loadable_categories` are the lists, whose entries become
`none` when an image is unmapped; `loaded` is RW_LOADED, `stack` the calls of each
thread: an open in dyld, `load_images` with its list, a `+load`, in which
the program opens and closes images again. `LoadImages` is the early return of
`hasLoadMethods`. `prepare_load_methods` is one critical section, taken apart into
`Prepare`, one step for each call of `schedule_class_load` (`AlreadyLoaded`,
`ScheduleSuperclass`, `ScheduleClass`) and `PrepareCategories`: the list of the call is
what is left of `__objc_nlclslist`, behind the classes that the recursion is about
to schedule, superclass first. `CallLoadMethods`, `DetachClasses`, `DetachCategories`, `CallLoad`, `ClassesDone` and
`CategoriesDone` are the loop. The outermost call pushes an autorelease pool before it;
behind its last look at the lists it pops the pool, which runs `-dealloc` methods of what the
`+load` methods have autoreleased: in the frame `"pool"` the program may open and close images
as in a `+load`. `PoolPopped` is the end of the pop and the reset of `loading`. The ghost
`missed` has the images whose call of `call_load_methods` returned during the pop. `Close` is `unmap_image`. Who holds `loadMethodLock`
can be read from the stacks (`Holds`). dyld (`Open`, `Unprepared`, `MayClose`) is external:
it begins with an image after those that it links, in any such order, once, and lets
nobody depend on an image that another thread is just beginning with.

## 4. What the runs check

| Run | Instance | States | What it shows |
|---|---|---|---|
| `refcount_life` | 2 threads, 3 references each; `extra_rc` 0..3; `object_setClass` to another packed class | 194 000 | counts exact, no use after free, no dangling weak variable; `RefCount` implements `ObjectLife`; a weak load of an owned object succeeds; the last release leads to the free |
| `refcount_raw` | 2 threads, 3 references each, `extra_rc` 0..7, `object_setClass` to a raw class | 19 000 | the move to the side table loses no count while the count has never overflowed |
| `refcount_unlock` | 2 threads, 3 references each | | the first finding of section 7 |
| `weakstore` | 2 threads with 2 calls each, 2 objects, 2 variables, 2 side tables, one of which nil has too; one class is not initialized | 247 000 | tables mirror variables, `WeakStore` implements `WeakVariables`, every call returns |
| `weaktable_hash` | 4 objects, up to 5 variables of one, colliding hashes; 2 inline referrers, tables from 2 and 4 buckets, compaction at 8 | 123 000 | every search finds what is there, and ends |
| `initialize` | 2 threads with 3 first messages; classes A > B > C > D and B > E; no `+initialize` in E, one that sends nothing in the root A; fork | 283 000 | once each, contiguous, no fatal error, no early return, the child of a fork completes nothing it must not, every message returns |
| `synchronized_locks` | 2 threads with 3 and 2 calls, 3 objects on 2 lists | 117 000 | mutual exclusion, mutexes match the program, exits report ownership, enters return |
| `autorelease_pools` | 2 objects, pages of 4 entries, counts up to 2, a window of 3, 7 calls | 231 000 | one stack, `while` can be `if`, tokens stay valid, a freed page is unused, `AutoreleasePoolPage` implements `PoolStack`, pops return |
| `methodcache` | 2 threads that send and one that changes a method and flushes; 3 colliding selectors, one class, caches of 4 and 8 buckets, memory for 2 arrays; with and without restartable ranges | 1 800 000 | no message reads freed memory or calls a stale implementation, an unused bucket is left |
| `accessors` | 2 threads, 1 key and a property, 2 values, 3 policies, nesting 3 | 1 111 000 | counts match owners, nothing is used after it was freed, nothing is inherited but what was set too late |
| `nanov2_blocks` | 2 threads, 2 CPUs, 2 arenas of one block of 3 slots, 3 values of `free_count`, 5 of `gen_count`, 6 calls, both policies | 1 665 000 | slots exact and of one owner until a stale pop or a late madvise; a stale pop takes a round or a restart of `gen_count`; madvised blocks are empty |
| `load_images` | 2 threads, 5 images of which 2 are bundles, 5 opens, 5 classes, 3 categories | 497 000 | each `+load` once, in order, with its image mapped; none forgotten but those of images opened during the pop of the pool; every open returns |

A definition whose comment begins with "Mutant:" is a plausible mistake in the
code: a forgotten test, a stale value, an unlock too many. `PROJECT.json` pairs
each property of each run with one. Put in the place of the definition that it
mimics, it makes TLC find that property violated on the same instance; this
shows that the instance is large enough for the property to matter.

### Bounds, and why they are enough

- `RCHalf = 2` makes `extra_rc` overflow at the fourth reference; with two threads
  and three references each the count overflows, is borrowed back and overflows
  again. `SidePin = 16` is above every count of the instance, as 2^62 is above every
  count of a program. `refcount_raw` uses `RCHalf = 4` with at most six references:
  it is about objects that have not overflowed (with a count in the side table
  the move is wrong: section 7). The proofs of section 6 need none of these bounds.
- Two weak variables and two objects give every pair of old and new value of a
  store, in one and in two side tables; nil shares a side table with an object,
  so that a store may need one lock, two, or one twice. Two calls per
  thread are a store and a release, or a move and a load, against two of
  another thread; calls made in a `+initialize` or a `-dealloc` count too.
- The weak table has hashes that collide and wrap around, an object with more
  variables than two growths of its set hold, and enough objects to grow the
  table and to compact it again. Both grow at three quarters, as in the code; the
  table compacts to a quarter from 8 buckets on when at most an eighth is used,
  in the code to an eighth from 1024 on when at most a sixteenth is used.
- The tree of five classes has a chain of three below the root, so that a class can be finished
  after a superclass that is itself finished later, and a sibling without
  `+initialize`, which is what the fork rules distinguish. Two threads are all
  that take part in a wait; three messages are enough for up-and-down nesting. The
  `+initialize` of B, C, D send messages to all classes above and below; that of A sends
  none, as the fork rules assume of root classes (section 7).
- Two objects on one list are what it takes to reuse a `SyncData`. The fast cache
  holds one item, so the second object that a thread locks goes to its
  `SyncCache`, and the third makes a removal there move an item. Five calls contain a
  failed try, a wrong exit and a reuse.
- Pages of four entries hold an entry, a boundary above it and a free place; a
  limit of two extra autoreleases and a window smaller than the page bring
  coalescing to both. Seven calls fill a page, begin a second, empty it and
  use it again, or make a `-dealloc` with a pool inside a pop.
- Three selectors, two of which hash to one bucket, make a cache of four buckets
  overflow, wrap and grow; two arrays of buckets suffice for one in use and one
  that is garbage, and a third allocation gets the address of a freed one,
  which is the case that matters. `MaxVersion` allows one change of a method.
- One key suffices for the values of `accessors`; two keys make the flag's case
  of section 7 (`Accessors_flag.cfg`). A nesting of 3 is a destruction that runs a
  `-dealloc` that sets an association of the dying object. The constraint `Clean` does
  not follow an object that left something behind beyond the next one at its address.
- A block of three slots is empty, drained, half full and full; its free list has
  a link in the middle, and with three values of `free_count` its words wrap as those of the 1024-slot
  class do in 10 bits. Two blocks can be exchanged between two CPUs. With six
  calls a block can fill, drain, be madvised and be taken into use again, and the
  class can be delegated. `gen_count` has five values, so that it goes round within the six calls and the
  stale pop happens in the run (`NanoV2_stale.cfg` shows it); with 1024 the
  same takes a thread that is away for 1024 changes of one word. The constraint
  `Undamaged` does not follow a block on which one has happened. `MaxCalls` also ends the
  runs in which two CPUs take each other's block out of use without end (section 7).
- The images have a class listed before its superclass, a chain over two images with a
  class without `+load` in it, bundles with classes and categories on the classes of
  a library, and an image without `+load`. Five opens bring a `+load` that opens all of
  them, one of two threads that waits for the other, and bundles opened again.
- Symmetry is used for threads, CPUs, keys and values where only safety is checked.

### Fairness

- `RefCount`: weak fairness of the steps of a call, because a running thread goes
  on; strong fairness of the steps that take the side table lock, because the
  lock is free again and again while others use it, and the kernel wakes the
  waiters of an `os_unfair_lock`. Nothing forces the program to begin a call. The
  liveness property is about what follows the last release.
- `WeakStore`, `ClassInitialize`: weak fairness of `Continue`. Calls are bounded,
  so a lock is not taken for ever, and `+initialize` returns; a sleeping thread is
  woken by `notifyAll` only.
- `Synchronized`: weak fairness of `Continue` or `Leave`: a thread leaves what it
  has entered.
- `AutoreleasePoolPage`: weak fairness of `Pops`: the loop goes on, and each
  `-dealloc` returns. Between the two it may call the pools up to the bound.
- `LoadMethods`: weak fairness of `Continue`: dyld goes on, and a `+load` returns. Opens
  are bounded, so `loadMethodLock` is not taken for ever.
- `MethodCache`, `Accessors`, `WeakTable`, `NanoV2`: none, for there is no liveness
  property. An allocation of `NanoV2` need not end (section 7), and the collection
  of `MethodCache` waits for messages for as long as others send them.

The program may stop: `Stopped` is a stuttering step that is enabled when no call
is in progress (or the process was halted), so that a deadlock in a call is
found. The runs of the pools and of the Nano zone turn the deadlock check off:
with its calls used up, a thread has nothing left to do.

## 5. Faithfulness: what the models abstract

- A class is its name; a pointer is an object; `has_assoc` (outside `Accessors`) and
  `has_cxx_dtor` are not modelled, so `rootDealloc` may take its slow path at any time.
- The side table's hash map is one entry, or a function of the object; the weak
  table is a set of registrations in `WeakStore` and hashed in `WeakTable`.
- Pointer authentication, tagged pointers, overridden `retain`/`release`, the
  debugging environment variables and the swift refcounts are left out.
- A pop frame never pops a pool that an outer frame is already popping (`MayPop`): a
  program that does so breaks the nesting that the pools ask for. The debugging
  allocation of pools, which gives every pool a page, is off.
- A deallocation that `objc_copyWeak` or `objc_loadWeak` causes at its end runs with no
  lock held, as in the code.
- `MethodCache` has the layout of x86_64: two separate words for buckets and mask,
  scans upwards, an end marker. arm64 packs both into one word. A method list is
  the newest version of each method; the shared empty buckets are read as
  unused whatever the mask. Loads are in program order, as they are on x86_64.
- `Accessors` has one object, so that the outer map is the map of its associations;
  the `AssociationsManagerLock` and the property's lock are each a step. Policies that copy
  differ from those that retain by a message. While the object is dying only the thread
  that destroys it calls, from the `-dealloc` methods that the destruction runs: another
  thread that still uses the object has no reference to it.
- `LoadMethods` has no class tables: classes are realized, categories attached, and none
  is a weak import that is missing. The constructors of an image, which run between
  its `load_images` and the next one, do nothing. Whether a `+load` has autoreleased anything is
  left open: the pop of the pool may run any opens and closes, or none.
- `NanoV2` has one region, one size class and no guard blocks; an arena has few blocks.
  Which of several usable blocks the search prefers is left open, which includes
  every scan policy. The canary of a slot is a flag. The widths of `free_count` and
  `gen_count` are constants (`FreeCounts`, `GenCounts`), 1024 in the code.

## 6. What is proved

The proofs hold for every value of the constants that satisfies the assumptions in
the modules: any finite set of threads, any half of the inline count of at
least 2, any bound on references.

**Retain counts** (`RefCountProofs`).

1. `TypeCorrect`: `TypeOK`, made inductive with bounds on the counts on their way
   (`TypeInv`). It holds for every set of classes, raw ones included.
2. `CountIsExact`, `BorrowIsCovered`, `DeallocatedOnce`, `WeakLoadIsTrue` follow from
   `ExactInv`. `CountExact` alone is not inductive, because a thread goes on from
   values it loaded earlier. `Local` says what each thread knows at each place:
   who holds the lock (`Holds`), that `has_sidetable_rc` cannot change
   while a thread holds the lock for a borrow, that an isa loaded as dead stays
   dead. `Words` says that the side table holds a multiple of RC_HALF (the reason
   a borrow finds all or nothing) and that it is 0 without `has_sidetable_rc`.
   `Dying` is the uniqueness of the deallocating thread.
3. `RetainCountIsExact`, `NeverUsedAfterFree`, `WeakIsCleared`, `SideTableIsClean`
   follow from `SafeInv`, which adds `Backed` (a call in progress is backed by a
   reference, or by the weak variable while the lock is held), `WeakBits` (the
   variable is set only after the registration and the bit) and `Erased`.
4. `LifeImplemented`: `RefCount` implements `ObjectLife`, step by step from `SafeInv`.
   What a step is in `ObjectLife` can be told from the references alone, because an
   object is dead exactly when nobody has a reference (`DeadIsUnreferenced`); the
   step that takes the last one away begins the deallocation there, before the
   thread knows it.

Two hypotheses are stated in 2, 3 and 4. `PackedOnly`: the classes involved allow a
packed isa. Without it the findings in `changeIsa` and
`sidetable_moveExtraRC_nolock` break the count. `SideFits`: the references fit the
side table's field. Beyond it the code pins the count and leaks the
object on purpose.

**Autorelease pools** (`AutoreleasePoolProofs`), for every size of page of at least
2, every limit and window of coalescing, any number of calls and any set of
objects. `PoolInv` is `TypeOK`, `OneStack`, `TokenInv` (live tokens, in the order
of their places), `FrameInv` (every pop in progress stops at a place in the
stack, above the tokens older than it, and the stops of nested pops are
ordered) and `OneSparePage`. The ordering of stops is what makes it inductive: a
pop inside a `-dealloc` kills pages, and must not kill one in which an outer
pop stops. From it follow `PagesAreOneStack`, `TokensStayLive`,
`SparesAtMostOne`, `FreedPagesAreUnused` and `WhileIsIf`. The last one settles
the comment in `releaseUntil` (`NSObject.mm:890`): "I think this `while` can be
`if`, but I can't prove it". It can.

`StackImplemented`: the pages implement `PoolStack`. `PoolInv` does not say what the
pops in progress owe, so `EntryInv` is added to it: a release that a pop owes or is in
comes from above its stop; the boundary at its stop stays until the pop takes it; and
what it took last lies at or below the stops of the pops nested in it and the younger
tokens, so a `-dealloc` cannot change the pool that it came from.
A pool of `PoolStack` is a count over sets of places here, so each step is an argument
about cardinalities. The places before and after it are put in a bijection (`Turn` for an
autorelease that is counted in an older entry and moves it to the top, `Swapped` for an
entry that a pop takes, the identity elsewhere) that keeps the object and the pool of
what is owed, and at one place one release more, or one less, or none is owed
(`DueMoved`, `DueTaken`). A pop ends in `PoolStack` when its boundary is taken, so
`PopPage` is no step of it; the end of the thread ends with `KillPages`.

**`@synchronized`** (`SynchronizedProofs`), for any sets of threads, objects and lists, any
assignment of the objects to the lists and any number of calls. `Inv` relates the
program's use of the locks (`locked`) to the runtime's records: `DataOK` (one
`SyncData` per object), `OwnedOK` (what a thread has locked it owns, and has an item
for), `ItemsOK` (an item counts at least the locks of its thread, with the one it is
about to take), `CountOK` (a `SyncData` counts at least the threads that have an item
for it; it counts failed exits and old tries too, so not exactly), `MutexOK` and
`CallOK` (the owner of a mutex has the object locked or is in the exit that unlocks
it). `MutualExclusion` is not inductive: two threads could lock one object through
two `SyncData`, or through one that was taken over while in use. `CountOK` excludes
that, since a `SyncData` is taken over at a count of 0 only. It follows that
`ObjectsExclude`, `MutexesMatch`, `ExitsReport` and `NeverBuggy` hold.

**Method caches** (`MethodCacheProofs`), for any number of threads, classes, selectors
and buckets, any sizes of the caches from 3 buckets on, with restartable ranges and
without. `ReadersAreSafe`: the invariant says that the buckets a message has loaded are
as many as the mask that it loaded before (`ReaderOK`), which needs masks that never
shrink and new buckets that are published before the new mask (`CacheOK`); that
every array ends with the end marker, where a scan stops or wraps (`Ends`); and that
a thread which a collection has found outside the lookup cannot come by the
collected buckets any more, because they are nobody's cache (`GarbageOK`, `Checked`).
That is why the collector may look at the threads one after the other.
`ScansEnd`: `RoomInv` adds that at most `occupied` buckets and the end marker are used,
one more between the store of a selector and its count, and that `occupied` leaves
two; the count is taken before the bucket is filled, so no interleaving fills the
last one. `MessagesAreFresh`: `FreshInv` says that an entry is the newest
implementation, or one older in the classes that the change has still to flush
(`Oldest`), that no scan would pass an entry by (`Places`), so that no selector is
entered twice, and that the array that a message reads never goes back, even after it
was collected. It is proved for flushes outside signal handlers (`~SignalledFlush`);
the other case is a counterexample of section 7.

**Associations and atomic properties** (`AccessorsProofs`), for any finite number of
threads, values and keys, any policies and any nesting of calls. `Inv` has `CountsOwners`
with what each call in progress may hold (`FramesInv`). A step moves references
between a thread, its pool, the object and at most one of its calls, and the lemma
`MovesOne` does the counting once for all of them. `NothingInherited` needs more than
that: `_object_remove_assocations` is called only when `has_assoc` was found set, the flag is
set outside the lock, and program code runs between the read of the flag and the
removal. `QuietInv` says that while the object dies only the thread that destroys it is
in a call that could change anything (`OneDestroys`). `FlagInv`: without the flag the map is empty, or a call is about to
set it, or something was set late. So at the read of the flag no set is half done, and an unset flag
means an empty map. `GaveUpInv`: from then on, or from the removal on, a place of the
object stays empty unless something is set there late. `CountsAreOwners`,
`NothingIsInherited` and `FreedStaysFreed` follow. The exception in `NothingIsInherited` is exactly
the ghost `late`: what a `-dealloc` sets in the object whose destruction has read an unset
flag or has removed the associations already. `Accessors_dying.cfg` shows that it is needed.

**`+load`** (`LoadMethodsProofs`), for any threads, images, classes and categories. What
is assumed of the constants is what the linker and dyld give: links are transitive and
no image links itself or a bundle, the superclasses of a class and the class of a
category are in the image itself or in linked ones, an image lists the classes and
categories that have a `+load`, each category once. Since classes need not be listed
superclass first, the order comes from `schedule_class_load`. `Inv` is `TypeOK` with
these parts. `CallsInv`: the flag `loading` is set exactly as long as one call is in
the loop, and `loadMethodLock` has one owner. `ImagesInv`: a flagged class has its
superclasses flagged, and the images that an image links are prepared before it.
`Accounted`: what was scheduled is over, running, in the detached list or waiting, and
in one place only. `OrderInv`: what an item needs is over, running, or before it in
the detached list, or in the list that waits behind it; the categories wait until no
class does. `WorkInv`: nothing waits unless a call is in the loop or on its way to it, or it
is of an image that was opened while the pool was popped (`missed`); a call in the pop is not in the
loop any more, so this is what the flag still stands for then.
The parts need each other: a `+load` in the middle of a detached list can make
classes wait that are above others in no list at all, and the order of the two lists
together is what `InOrder` states. `OrderIsKept` and `NoneIsForgotten` follow, if bundles are
not closed while their `+load` is detached (`~ClosesPending`); section 7 has the counterexample
for the other case. The exception in `NothingForgotten` is as narrow as the code allows: the
`+load` methods of a missed image wait in the lists, and the next call of
`call_load_methods` sends them and empties `missed`; `LoadMethods_pool.cfg` shows one that waits.

**Weak references** (`WeakStoreProofs`), for any number of threads, objects, variables,
classes, side tables and calls, any assignment of objects to side tables, and calls
nested in `+initialize` and `-dealloc` to any depth; `nil` is assumed to be no object,
thread or variable. `Inv` has these parts. `Apart`: what the functions ask of the
program keeps the calls in progress off the variables that one of them has for itself
(`Reserved`: the variable of `initWeak` and `destroyWeak`, the destination of a copy
or a move). `Sound`: what a call relies on while others run; an object being stored
is owned, so it cannot die, and `objc_copyWeak` holds a reference that only the
innermost call of a thread can have (`CopyOnTop`). `Mirror`: a pair is in the tables
exactly when the variable is weak and holds the object. `Marked`: a registered object
has its bit, so `-dealloc` clears its variables. `Mirror` alone is not inductive: the
pair that a store removes is that of the value it read before the locks, and it is the
second look under the locks, with `Apart` for the functions that do not look again,
that makes it the variable's. And an object that `-dealloc` has cleared stays out of the
tables, because only live objects are registered and a move needs a pair that is
there. `TablesMirror`, `FreedUnreferenced`, `NoErrors` and `CalloutsUnlocked` follow, and
`VariablesZero`: every step is a step of `WeakVariables` or leaves its state alone,
so `WeakStore` implements it.

**`+initialize`** (`ClassInitializeProofs`), for any number of threads and classes, any
messages that the `+initialize` methods send, any choice of trivial ones, and a fork at
any time. What is assumed of the constants: `Ancestors` are the superclasses of a class
with theirs, and of two of them one is the other's ancestor (`SuperAssumption`), as
single inheritance gives; and `none` is no class. `Inv` is `TypeOK` with these parts.
`Stacks`: the class of a call is dealt with only after its superclass was (`SuperReady`),
and a nested call is for the superclass or comes from a `+initialize`. `Owners` and `Counts`:
a class being initialized is on one list `mine`, or about to be recorded, and its
`+initialize` ran at most once. `Chain`: between a class and an ancestor that are both being initialized
everything is, by the same thread. `Pendings`: a class that waits for its superclass
to be finished has that thread too, so that `_finishInitializing` finds every class it
goes on to complete in the state it expects; that is why `NeverFatal` holds. None of this survives a
fork by itself, because the classes of the other threads stay as they were and belong
to nobody. `Bodies`, `Reasons` and `Orphans` say that a class initialized together with a
subclass has a `+initialize` that is not trivial, or waits itself, so the child halts in
`performForkChildInitialize` before it could finish a class that others wait for. This needs
the hypothesis `[]RootsAreEmpty`: in the child of a fork, the classes taken for trivial (root
classes, and those without `+initialize`) send no message from `+initialize`. The code takes it for
granted of root classes (`runtime/objc-initialize.mm:397`; a test says so,
`src/objc4-818.2/test/forkInitialize.m:81-86`); of the time before a fork the hypothesis says nothing. `Once`, `ContiguousAlways`, `NeverFatal`, `Returns` and
`ForkCompletes` follow. TLC checked `Inv` first, on the hierarchy of the run.

**The weak table** (`WeakStoreProofs`, second half), for any sets of objects and variables,
any hashes of them and all sizes that satisfy `SizesAssumption`. Both the table and the
set of an entry are open-addressed. `Hashed` says that every key is in one bucket, which
a search from the key's own bucket reaches within the recorded displacement; `Found`
that a search therefore finds it; `EmptyBucket` that an insertion comes to an empty
bucket before it is round, because the steps from any bucket go through all of them
(`IndexFacts`). A resize and the growth of a set are recursive functions over the old
buckets: `Recursion` turns such a function into its step, and `Climb` goes up the old
buckets with what holds so far, which `MovedTo` and `Rehashed` state (the keys of the
first i old buckets, hashed, and as many). `TableInv` is `TableOK` (every entry is hashed
and counted, one bucket at least is empty, and the displacement and one more stay below
the size, for the table and for each set) and `Agree` (an object's set is the variables
that hold it). `LookupsAgree` is not inductive: it says what a search finds, and the
next insertion needs the empty bucket and the records that make searches find.
`LookupsAreRight` and `SearchesStop` follow. `WeakStore` takes the table for a set of
pairs, and this is what justifies it. TLC checked `TableInv` first (123 020 states).

**The allocator** (`MethodCacheProofs`, second half), for any number of threads, CPUs, arenas
and calls, any width of `gen_count` and of `free_count` (up to 10 bits), blocks of 2 slots up to as many
as `free_count` has values, so the largest class of 1024 slots included, both madvise policies, and kernels that take the
memory and that do not. `NanoInv` says of each block that it is empty (`Emptied`) or that
there is a list L of n slots such that (`BlockOK`): the slots of L are linked in that
order and have their canary (`Listing`); the word counts n and the u slots behind the
bump, and points to L, or is that of a full block (`Counted`); and the slots that nobody owns are these n + u
(`Covered`). When a free returns the last slot the word forgets the list, and the counts alone
say that nobody owns a slot (`AllListed`). `OneOwner`, `Unguarded` (a slot with an owner has no
canary, so `free` never takes it for free) and `MadviseOK` (during the system call the
word belongs to the holder of `madvise_lock`) complete it. There is no hypothesis about the
order of steps: `damaged \/ NanoInv` is inductive, because only the swap with a stale link
and the late madvise lead out of `NanoInv`, and both set `damaged`.

`PopOK` is the argument about `gen_count`, a second induction on top of the first. As long as
no generation was counted since a pop loaded the word (`gens` is 0), the block has the
list of that word and what the pop read is still the link; `nanov2_turn_off_in_use` changes the
word without counting, but not the list. If g were counted and the count neither went
round nor started over, `gen_count` is that of the loaded word and g more in its width, so
the words differ and the swap fails. `SlotsAreExact`, `StalePopsAreRare` and `MadvisedBlocksAreEmpty`
follow. They do not say that a stale pop is impossible, which is false of the code (section 7);
they say that nothing less than a full round or a restart of the count makes
one, and that everything is exact until then.

TLC checked the three properties first, on the instance of the run.

**Only model-checked.**

- What happens to a block of the Nano zone after a stale pop or a late madvise is neither proved
  nor checked; that both happen is shown by the configurations of section 7.
- The raw isa, beyond `TypeCorrect`; a bundle closed while its `+load` is detached.
- All liveness, which is beyond the prover together with its fairness and `ENABLED`:
  `LastReleaseFrees`, `CallsReturn`, `MessagesReturn`, `EntersReturn`, `PopsReturn`, `OpensReturn`.

## 7. Findings

One run ends in a counterexample:

- *A try-retain can unlock its caller's lock* (`refcount_unlock`, `NoCrash`).
  `rootRetain` with `tryRetain` sets `sideTableLocked` on an overflow although
  its caller owns the lock; if the store then fails and the object is found
  deallocating, it unlocks, and `objc_loadWeakRetained` unlocks again.

Further observations, where the code does other than a comment or a reader expects.
The configurations named here are not part of the list of runs; each ends in a
counterexample too.

- *A repeated madvise can discard a live allocation* (`NanoV2_madvise.cfg`,
  `KeepsContents`). A thread whose swap failed because another had madvised the
  block waits for `madvise_lock` and repeats the madvise, by the word that it read
  before the lock (`malloc/nanov2_malloc.c:2181-2186`). Meanwhile the block may have
  been taken into use, which takes no `madvise_lock`, and slots of it returned.
- *A detached `+load` outlives its image* (`LoadMethods_close.cfg`, `RunsInOrder`).
  `unmap_image` removes the classes and categories of a bundle from the lists
  (`runtime/objc-loadmethod.mm:126-176`), but not from a list that `call_class_loads` or
  `call_category_loads` has detached. If a `+load` closes a bundle whose own `+load` comes
  later in the same detached list, that one is sent to code that is not mapped. The run
  `load_images` has programs that do not do this (`ClosesPending`).
- *Raw to packed by a stale `newisa`* (`RefCount_rawraw.cfg`, `RawStaysRaw`).
  `changeIsa` prepares `newisa` once. A second attempt that finds the isa raw
  stores what the first attempt, on a packed isa, had prepared.
- *A count pinned instead of moved* (`RefCount_move.cfg`, `MoveIsComplete`).
  `sidetable_moveExtraRC_nolock` computes `extra_rc - 1` as a `size_t`; with
  `extra_rc = 0` and a count in the side table the addition carries, and the entry is
  pinned: the object is never freed.
- *A signal can leave a stale method in a cache* (`MethodCache_signal.cfg`,
  `NeverStale`). `shouldFlush` (`runtime/objc-runtime-new.h:467-469`) asks `cache_getImp`
  whether a cache holds the old implementation; a signal that hits `cache_getImp` in its
  restartable range makes it answer that there is none (`runtime/Messengers.subproj/objc-msg-x86_64.s:376-383`),
  and the cache is not flushed.
- *The flag comes late* (`Accessors_flag.cfg`, `FlagCoversMap`). `has_assoc` is set
  after the map's lock was released (`runtime/objc-references.mm:215-216`). A call of
  `objc_removeAssociatedObjects` in between looks at the flag first and removes
  nothing, not even associations whose setters have returned.
- *A stale pop gives a slot to two owners* (`NanoV2_stale.cfg`, `Exclusive`). The
  "A-B-A count" of a block (`malloc/nanov2_zone.h:150`) has 10 bits: a pop that read the
  link of a slot, and finds the same word again after the count went round, puts the old
  link in the word, and the slot there may have an owner. The configuration has a count of five
  values; with 1024 it takes a thread that is away for 1024 changes of the word. Besides, the count is
  set to 0 when an empty block is taken into use (`malloc/nanov2_malloc.c:2414`), and a pop
  that read the word before can succeed on a free list that was rebuilt: with blocks of
  three slots that takes twelve allocations whatever the width, which is too far for a
  search of all runs. `StalePopsFail`, checked and proved, says that there is no third way.
- *A root class with a `+initialize` after a fork* (`ClassInitialize_root.cfg`, `NoFatal`).
  `classHasTrivialInitialize` is true of every root class (`runtime/objc-initialize.mm:397`). If
  the parent forks while a thread initializes a root class whose `+initialize` messages a
  subclass, the child goes on with the root where it would halt for any other class; the
  subclass, which the lost thread had begun and which waits for the root, is then finished in its name, and
  `_setThisThreadIsNotInitializingClass` does not find it in the list of this thread (line 266).
- *An association of a dying object stays* (`Accessors_dying.cfg`, `NothingLeft`).
  `objc_destructInstance` reads `has_assoc` before it runs destructors and removes the associations
  after them (`runtime/objc-runtime-new.mm:8168-8174`); a `-dealloc` run by the destructors that
  sets the object's first association, or one run by the removal that sets any, leaves it in the
  map under an address that may be used again.
- *The end of `call_load_methods` forgets a `+load`* (`LoadMethods_pool.cfg`, `AllSent`). The pool
  is popped between the last look at the lists and `loading = NO`
  (`runtime/objc-loadmethod.mm:360-364`). A `-dealloc` in the pop that opens an image has its
  `+load` methods scheduled, its call of `call_load_methods` returns because "the outermost
  call will finish the job", and the outermost call is already past it. They are sent when
  the next image with a `+load` is opened, if ever.
- *Two CPUs, one block.* The comment at `malloc/nanov2_malloc.c:2467-2469` takes an
  activated block to belong to its caller. Two CPUs that found the same block
  both activate it, one of them leaves it later and turns `in_use` off for both, and
  two CPUs can go on taking each other's block out of use.
- *Delegated for ever.* A class is delegated to the helper zone after a search
  found nothing; the bit is cleared when a block drains. If the last slot was freed
  between the search and the bit, no free is left to clear it.
- *`percent_used` is percent free* (`malloc/nanov2_malloc.c:2327`): it divides the free count.
- *Empty entries stay.* `weak_unregister_no_lock` (`runtime/objc-weak.mm:369-384`) never finds an entry
  empty that went out of line, so `weak_is_registered_no_lock` answers true for an
  object that no variable refers to any more ("Returns true if an object is weakly
  referenced somewhere", `runtime/objc-weak.h:140`).
- A failed `objc_sync_try_enter` leaves its item in the thread's cache with a lock
  count of 1, which the thread's later enters and exits of the object, made in
  pairs, never bring to 0; and an exit by a thread that has no item for the
  object counts the `SyncData` for ever. Neither breaks mutual exclusion
  (`synchronized_locks` contains both); both keep a `SyncData` from being reused.

## 8. Not modelled

`PROJECT.json` lists every component with its state and the reason. In short:
class realization, categories and lookup build tables under one lock, from
images, and are mostly data layout. Selectors, protocols, image parsing, type
encodings, layouts and the containers are sequential data handling. The order
of all runtime locks around `fork` needs all components at once. Exceptions and
block trampolines belong to the C++ runtime and the assembler. The handshake
for returned autoreleased values inspects machine code. Nonatomic and
struct accessors promise nothing to concurrent callers, or copy under two locks.
The zone registry and the other zones of libmalloc, the older runtimes and
libmallocs, the vendored kernel and Foundation, the 32-bit runtime and the tests are
not the modelled program.

## 9. Running

    tlc -config RefCount_life.cfg MCRefCount
    tlapm RefCountProofs.tla

Each configuration is named after its module; the module to run is the `MC` module
of the same name. The proofs about a module are in the module of the same component
whose name ends in `Proofs`; those about `WeakTable` are in `WeakStoreProofs`, and those
about `NanoV2` in `MethodCacheProofs`, whose names are kept apart for that.
