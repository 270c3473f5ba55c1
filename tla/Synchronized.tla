----------------------------- MODULE Synchronized -----------------------------
(***************************************************************************)
(* @synchronized (objc-sync.mm): objc_sync_enter, objc_sync_try_enter and  *)
(* objc_sync_exit on the lists of SyncData, which are found or taken over  *)
(* under the list's spinlock, kept in per-thread caches without it, and    *)
(* given up, in an exit, before their mutex is unlocked.                   *)
(*                                                                         *)
(* A step is the first part of a call, which has at most one access to     *)
(* shared state: a critical section of a spinlock or an atomic decrement   *)
(* of threadCount; or it is the operation on the mutex that follows.       *)
(***************************************************************************)
EXTENDS Naturals, Sequences, FiniteSets

CONSTANTS
  Threads,
  Objects,   \* natural numbers: the order in which the program locks them
  Lists,     \* the lists of SyncData
  ListOf,    \* LIST_FOR_OBJ
  NoThread,
  MaxCalls   \* bound, for each thread: enters, wrong exits and endings

ASSUME ObjectsAssumption == Objects \subseteq Nat
ASSUME ListOfAssumption == ListOf \in [Objects -> Lists]
ASSUME NoThreadAssumption == NoThread \notin Threads
ASSUME MaxCallsAssumption == MaxCalls \in [Threads -> Nat]

VARIABLES
  data,    \* the SyncData of each list, oldest first: the code walks from the
           \* newest; a pointer to one is its list and its place
  fast,    \* the item of each thread's fast cache: at most one
  cache,   \* the items of each thread's SyncCache
  call,    \* the call each thread is in
  locked,  \* ghost: how often each thread has each object locked
  fatal,   \* one of the "is buggy" checks of id2data fired
  calls    \* the calls each thread may still make

vars == <<data, fast, cache, call, locked, fatal, calls>>

SyncData(o) ==
  [object |-> o, threadCount |-> 1, owner |-> NoThread, depth |-> 0]
Item(p) == [data |-> p, lockCount |-> 1]
Call(op, pc, o, p) == [op |-> op, pc |-> pc, obj |-> o, data |-> p]

NoCall == Call("none", "idle", 0, <<>>)
NoCalls == [t \in Threads |-> NoCall]
Idle(t) == call[t] = NoCall
At(t, pc) == call[t].pc = pc
Done(t) == call' = [call EXCEPT ![t] = NoCall]

Pointers == UNION {{<<s, i>> : i \in DOMAIN data[s]} : s \in Lists}
Data(p) == data[p[1]][p[2]]
Set(p, d) == data' = [data EXCEPT ![p[1]][p[2]] = d]

(***************************************************************************)
(* id2data, first part: the caches of the thread.                          *)
(***************************************************************************)
FastFor(t, o) == {i \in DOMAIN fast[t] : Data(fast[t][i].data).object = o}
CacheFor(t, o) == {i \in DOMAIN cache[t] : Data(cache[t][i].data).object = o}
Cached(t, o) == FastFor(t, o) \cup CacheFor(t, o) # {}
First(is) == CHOOSE i \in is : \A j \in is : i <= j
CachedItem(t, o) ==
  IF FastFor(t, o) # {} THEN fast[t][First(FastFor(t, o))]
                        ELSE cache[t][First(CacheFor(t, o))]

\* Mutant: removes the last item.
WithoutItemLast(items, i) == SubSeq(items, 1, Len(items) - 1)

\* cache->list[i] = cache->list[--cache->used]
WithoutItem(items, i) ==
  LET n == Len(items) IN
  SubSeq([items EXCEPT ![i] = items[n]], 1, n - 1)

\* The caches with the lockCount of the item changed, without it if it is 0.
Recount(t, o, n) ==
  IF FastFor(t, o) # {}
    THEN /\ fast' = [fast EXCEPT ![t] =
                       IF n = 0 THEN <<>> ELSE <<[@[1] EXCEPT !.lockCount = n]>>]
         /\ UNCHANGED cache
    ELSE LET i == First(CacheFor(t, o)) IN
         /\ cache' = [cache EXCEPT ![t] =
                        IF n = 0 THEN WithoutItem(@, i)
                                 ELSE [@ EXCEPT ![i].lockCount = n]]
         /\ UNCHANGED fast

BuggyItem(item) == Data(item.data).threadCount = 0 \/ item.lockCount = 0

\* Save in the fast cache, or else in the thread's cache.
Save(t, p) ==
  IF fast[t] = <<>>
    THEN fast' = [fast EXCEPT ![t] = <<Item(p)>>] /\ UNCHANGED cache
    ELSE cache' = [cache EXCEPT ![t] = Append(@, Item(p))] /\ UNCHANGED fast

(***************************************************************************)
(* objc_sync_enter and objc_sync_try_enter.                                *)
(***************************************************************************)
\* The program waits for objects in their order only.
MayWait(t, o) == locked[t][o] > 0 \/ \A u \in Objects : locked[t][u] > 0 => u < o

\* id2data finds the object in a cache.
EnterCached(t, o, op) ==
  LET item == CachedItem(t, o) IN
  /\ Recount(t, o, item.lockCount + 1)
  /\ fatal' = (fatal \/ BuggyItem(item))
  /\ call' = [call EXCEPT ![t] = Call(op, "lock", o, item.data)]
  /\ UNCHANGED data

\* The SyncData for o, and those that no thread uses, in a list.
ForObject(s, o) == {i \in DOMAIN data[s] : data[s][i].object = o}

Unused(s) == {i \in DOMAIN data[s] : data[s][i].threadCount = 0}
Newest(is) == CHOOSE i \in is : \A j \in is : j <= i

Counted(d) == [d EXCEPT !.threadCount = @ + 1]

\* Otherwise, under the spinlock: find, take over, or allocate.
EnterFind(t, o, op) ==
  LET s == ListOf[o]
      p == IF ForObject(s, o) # {} THEN <<s, Newest(ForObject(s, o))>>
           ELSE IF Unused(s) # {} THEN <<s, Newest(Unused(s))>>
           ELSE <<s, Len(data[s]) + 1>> IN
  /\ IF ForObject(s, o) # {}
       THEN Set(p, Counted(Data(p)))
       ELSE IF Unused(s) # {}
       THEN Set(p, [Data(p) EXCEPT !.object = o, !.threadCount = 1])
       ELSE data' = [data EXCEPT ![s] = Append(@, SyncData(o))]
  /\ Save(t, p)
  /\ call' = [call EXCEPT ![t] = Call(op, "lock", o, p)]
  /\ UNCHANGED fatal

Enter(t, o, op) ==
  /\ Idle(t) /\ calls[t] > 0
  /\ op = "enter" => MayWait(t, o)
  /\ calls' = [calls EXCEPT ![t] = @ - 1]
  /\ IF Cached(t, o) THEN EnterCached(t, o, op) ELSE EnterFind(t, o, op)
  /\ UNCHANGED locked

Free(t, d) == d.owner \in {NoThread, t}

\* mutex.lock(), or a mutex.tryLock() that succeeds
Lock(t) ==
  /\ At(t, "lock")
  /\ LET p == call[t].data  d == Data(p)  o == call[t].obj IN
       /\ Free(t, d)
       /\ Set(p, [d EXCEPT !.owner = t, !.depth = @ + 1])
       /\ locked' = [locked EXCEPT ![t][o] = @ + 1]
  /\ Done(t)
  /\ UNCHANGED <<fast, cache, fatal, calls>>

\* Leaves the item in the cache.
TryLockFails(t) ==
  /\ At(t, "lock") /\ call[t].op = "tryEnter"
  /\ ~Free(t, Data(call[t].data))
  /\ Done(t)
  /\ UNCHANGED <<data, fast, cache, locked, fatal, calls>>

(***************************************************************************)
(* objc_sync_exit.                                                         *)
(***************************************************************************)
\* Mutant: gives up the SyncData at the first exit.
CountAfterExitZero(n) == 0

CountAfterExit(n) == n - 1

ExitCached(t, o, op) ==
  LET item == CachedItem(t, o)
      p == item.data
      n == CountAfterExit(item.lockCount) IN
  /\ Recount(t, o, n)
  /\ IF n = 0 THEN Set(p, [Data(p) EXCEPT !.threadCount = @ - 1])
              ELSE UNCHANGED data
  /\ fatal' = (fatal \/ BuggyItem(item))
  /\ call' = [call EXCEPT ![t] = Call(op, "unlock", o, p)]

\* id2data under the spinlock counts the thread, and finds that it does not
\* own the object; objc_sync_exit returns at once.
ExitFind(t, o) ==
  LET s == ListOf[o]
      p == <<s, Newest(ForObject(s, o))>> IN
  /\ IF ForObject(s, o) # {}
       THEN Set(p, Counted(Data(p)))
       ELSE UNCHANGED data
  /\ UNCHANGED <<fast, cache, fatal, call>>

\* Mutant: does not look into the SyncCache.
ExitCallFastOnly(t, o, op) ==
  IF FastFor(t, o) # {} THEN ExitCached(t, o, op) ELSE ExitFind(t, o)

ExitCall(t, o, op) ==
  IF Cached(t, o) THEN ExitCached(t, o, op) ELSE ExitFind(t, o)

\* An exit that the program owes.
Exit(t, o) ==
  /\ Idle(t) /\ locked[t][o] > 0
  /\ locked' = [locked EXCEPT ![t][o] = @ - 1]
  /\ ExitCall(t, o, "exit")
  /\ UNCHANGED calls

\* An exit of an object that the thread has not locked.
ExitNotOwning(t, o) ==
  /\ Idle(t) /\ calls[t] > 0 /\ locked[t][o] = 0
  /\ calls' = [calls EXCEPT ![t] = @ - 1]
  /\ ExitCall(t, o, "exitNotOwning")
  /\ UNCHANGED locked

\* mutex.tryUnlock()
TryUnlock(t) ==
  /\ At(t, "unlock")
  /\ LET p == call[t].data  d == Data(p) IN
       IF d.owner = t
         THEN Set(p, [d EXCEPT !.depth = @ - 1,
                               !.owner = IF d.depth = 1 THEN NoThread ELSE @])
         ELSE UNCHANGED data
  /\ Done(t)
  /\ UNCHANGED <<fast, cache, locked, fatal, calls>>

\* _destroySyncCache: the thread ends, and another takes its place.
ThreadExit(t) ==
  /\ Idle(t) /\ calls[t] > 0 /\ \A o \in Objects : locked[t][o] = 0
  /\ calls' = [calls EXCEPT ![t] = @ - 1]
  /\ fast' = [fast EXCEPT ![t] = <<>>]
  /\ cache' = [cache EXCEPT ![t] = <<>>]
  /\ UNCHANGED <<data, call, locked, fatal>>

Init ==
  /\ data = [s \in Lists |-> <<>>]
  /\ fast = [t \in Threads |-> <<>>]
  /\ cache = [t \in Threads |-> <<>>]
  /\ call = NoCalls
  /\ locked = [t \in Threads |-> [o \in Objects |-> 0]]
  /\ fatal = FALSE
  /\ calls = MaxCalls

Start(t) ==
  \/ \E o \in Objects, op \in {"enter", "tryEnter"} : Enter(t, o, op)
  \/ \E o \in Objects : ExitNotOwning(t, o)
  \/ ThreadExit(t)

Continue(t) == Lock(t) \/ TryLockFails(t) \/ TryUnlock(t)

Leave(t) == \E o \in Objects : Exit(t, o)

\* The program may stop when it owes no exit.
Stopped ==
  /\ \A t \in Threads : Idle(t) /\ \A o \in Objects : locked[t][o] = 0
  /\ UNCHANGED vars

Next == (\E t \in Threads : Start(t) \/ Continue(t) \/ Leave(t)) \/ Stopped

\* A thread in a call goes on, and leaves what it has entered.
Fairness == \A t \in Threads : WF_vars(Continue(t) \/ Leave(t))

Spec == Init /\ [][Next]_vars
FairSpec == Spec /\ Fairness

(***************************************************************************)
(* Properties.                                                             *)
(***************************************************************************)
PointerType == Lists \X (Nat \ {0})
ItemType == [data : PointerType, lockCount : Nat]
CallType ==
  [op : {"none", "enter", "tryEnter", "exit", "exitNotOwning"},
   pc : {"idle", "lock", "unlock"},
   obj : Objects \cup {0}, data : PointerType \cup {<<>>}]
DataType ==
  [object : Objects, threadCount : Nat, owner : Threads \cup {NoThread},
   depth : Nat]

\* The values the variables take.
TypeOK ==
  /\ data \in [Lists -> Seq(DataType)]
  /\ fast \in [Threads -> Seq(ItemType)]
  /\ cache \in [Threads -> Seq(ItemType)]
  /\ call \in [Threads -> CallType]
  /\ locked \in [Threads -> [Objects -> Nat]]
  /\ fatal \in BOOLEAN
  /\ calls \in [Threads -> Nat]

\* Two threads never have the same object locked.
MutualExclusion ==
  \A t, u \in Threads, o \in Objects :
    locked[t][o] > 0 /\ locked[u][o] > 0 => t = u

\* A mutex is locked as often as its owner has the object locked, once more
\* while the owner is in the exit that unlocks it: the SyncData may then
\* already be another object's.
Unlocking(t, p) == call[t].op = "exit" /\ call[t].data = p
MutexMatchesProgram ==
  /\ \A p \in Pointers :
       LET d == Data(p) IN
       d.depth = IF d.owner = NoThread THEN 0
                 ELSE locked[d.owner][d.object]
                      + (IF Unlocking(d.owner, p) THEN 1 ELSE 0)
  /\ \A t \in Threads, o \in Objects : locked[t][o] > 0 =>
       \E p \in Pointers : Data(p).object = o /\ Data(p).owner = t

\* objc_sync_exit returns OBJC_SYNC_SUCCESS to the thread that has the object
\* locked and OBJC_SYNC_NOT_OWNING_THREAD_ERROR to every other, whatever
\* failed tries and wrong exits came before.
ExitReportsOwnership ==
  /\ \A t \in Threads : At(t, "unlock") =>
       (Data(call[t].data).owner = t <=> call[t].op = "exit")
  /\ \A t \in Threads, o \in Objects : locked[t][o] > 0 => Cached(t, o)

\* None of the checks "id2data is buggy" fires.
NoFatal == ~fatal

\* If the program locks objects in an order and leaves what it entered, every
\* enter returns, though SyncData are shared by the objects of a list.
EntersReturn == \A t \in Threads : At(t, "lock") ~> Idle(t)
=============================================================================
