-------------------------- MODULE SynchronizedProofs --------------------------
(***************************************************************************)
(* @synchronized excludes: MutualExclusion, MutexMatchesProgram,           *)
(* ExitReportsOwnership and NoFatal, for any number of threads, objects,   *)
(* lists and calls, and any assignment of the objects to lists.            *)
(*                                                                         *)
(* The argument: a list never has two SyncData for one object, and a       *)
(* SyncData is taken over only when its threadCount is 0.  A thread that   *)
(* has an object locked has an item for its SyncData in one of its caches  *)
(* (OwnedOK), and every thread with an item is counted (CountOK), so that  *)
(* the SyncData is not taken over.  An exit gives up the item before it    *)
(* unlocks the mutex: the SyncData may then be another object's, but its   *)
(* mutex stays owned until the exit has unlocked it (MutexOK, CallOK).     *)
(***************************************************************************)
EXTENDS Synchronized, SequenceTheorems, FiniteSetTheorems, WellFoundedInduction, TLAPS

(***************************************************************************)
(* Items: the thread t has an item for p with the lock count n.            *)
(***************************************************************************)
Holds(t, p, n) ==
  \/ \E i \in DOMAIN fast[t] : fast[t][i].data = p /\ fast[t][i].lockCount = n
  \/ \E i \in DOMAIN cache[t] : cache[t][i].data = p /\ cache[t][i].lockCount = n
Holders(p) == {t \in Threads : \E n \in Nat : Holds(t, p, n)}

\* No two items of a thread are for the same SyncData.
Distinct(t) ==
  /\ Len(fast[t]) <= 1
  /\ \A i \in DOMAIN fast[t], j \in DOMAIN cache[t] : fast[t][i].data # cache[t][j].data
  /\ \A i, j \in DOMAIN cache[t] : cache[t][i].data = cache[t][j].data => i = j

(***************************************************************************)
(* The inductive invariant.                                                *)
(***************************************************************************)
\* A SyncData is in the list of its object, and no other is the object's.
DataOK ==
  /\ \A p \in Pointers : ListOf[Data(p).object] = p[1]
  /\ \A p, q \in Pointers : Data(p).object = Data(q).object => p = q

\* A mutex is locked as often as the program and the exits in progress say.
Pending(t, p) == IF Unlocking(t, p) THEN 1 ELSE 0
MutexAt(p) ==
  /\ Data(p).owner = NoThread => Data(p).depth = 0
  /\ Data(p).owner # NoThread =>
       /\ Data(p).depth = locked[Data(p).owner][Data(p).object] + Pending(Data(p).owner, p)
       /\ Data(p).depth > 0
MutexOK == \A p \in Pointers : MutexAt(p)

\* What a thread has locked it owns, and has an item for.
OwnedOK ==
  \A t \in Threads, o \in Objects : locked[t][o] > 0 =>
    \E p \in Pointers :
      Data(p).object = o /\ Data(p).owner = t /\ \E n \in Nat : Holds(t, p, n)

\* An item counts the locks of its thread, the one in progress included.
Locking(t, p) == IF call[t].pc = "lock" /\ call[t].data = p THEN 1 ELSE 0
ItemsOK ==
  \A t \in Threads :
    /\ Distinct(t)
    /\ \A p \in PointerType, n \in Nat : Holds(t, p, n) =>
         /\ p \in Pointers /\ n > 0
         /\ n >= locked[t][Data(p).object] + Locking(t, p)

\* A SyncData counts the threads that have an item for it.
CountOK ==
  \A p \in Pointers :
    IsFiniteSet(Holders(p)) /\ Cardinality(Holders(p)) <= Data(p).threadCount

\* A call goes on with a SyncData that is its object's, or that it still owns.
ThreadCallOK(t) ==
  /\ call[t].pc = "idle" => call[t] = NoCall
  /\ call[t].pc = "lock" =>
       /\ call[t].data \in Pointers /\ call[t].op \in {"enter", "tryEnter"}
       /\ Data(call[t].data).object = call[t].obj
       /\ \E n \in Nat : Holds(t, call[t].data, n)
  /\ call[t].pc = "unlock" =>
       /\ call[t].data \in Pointers /\ call[t].op \in {"exit", "exitNotOwning"}
       /\ Data(call[t].data).owner = t <=> call[t].op = "exit"
CallOK == \A t \in Threads : ThreadCallOK(t)

Inv ==
  /\ TypeOK /\ DataOK /\ MutexOK /\ OwnedOK /\ ItemsOK /\ CountOK /\ CallOK
  /\ ~fatal

(***************************************************************************)
(* Facts about the lists of SyncData.                                      *)
(***************************************************************************)
LEMMA PointerFacts ==
  ASSUME TypeOK
  PROVE  /\ \A p : p \in Pointers <=> p \in PointerType /\ p[2] \in DOMAIN data[p[1]]
         /\ \A s \in Lists : \A i : <<s, i>> \in Pointers <=> i \in DOMAIN data[s]
         /\ \A p \in Pointers : Data(p) \in DataType
         /\ \A s \in Lists : DOMAIN data[s] = 1 .. Len(data[s]) /\ Len(data[s]) \in Nat
<1>1. \A s \in Lists : data[s] \in Seq(DataType)
  BY DEF TypeOK
<1>2. \A s \in Lists : DOMAIN data[s] = 1 .. Len(data[s]) /\ Len(data[s]) \in Nat
  BY <1>1
<1>3. \A s \in Lists : \A i \in DOMAIN data[s] : data[s][i] \in DataType
  BY <1>1, <1>2
<1>4. \A p : p \in Pointers <=> \E s \in Lists : \E i \in DOMAIN data[s] : p = <<s, i>>
  BY DEF Pointers
<1>5. \A p \in PointerType : p = <<p[1], p[2]>> /\ p[1] \in Lists /\ p[2] \in Nat
  BY DEF PointerType
<1>6. \A s \in Lists : \A i \in DOMAIN data[s] : <<s, i>> \in PointerType
  BY <1>2 DEF PointerType
<1>7. \A p : p \in Pointers <=> p \in PointerType /\ p[2] \in DOMAIN data[p[1]]
  <2>1. ASSUME NEW p \in Pointers PROVE p \in PointerType /\ p[2] \in DOMAIN data[p[1]]
    <3>1. PICK s \in Lists : \E i \in DOMAIN data[s] : p = <<s, i>>
      BY <1>4, <2>1
    <3>2. PICK i \in DOMAIN data[s] : p = <<s, i>>
      BY <3>1
    <3> QED  BY <1>6, <3>2
  <2>2. ASSUME NEW p \in PointerType, p[2] \in DOMAIN data[p[1]] PROVE p \in Pointers
    BY <1>4, <1>5, <2>2
  <2> QED  BY <2>1, <2>2
<1>8. \A p \in Pointers : Data(p) \in DataType
  BY <1>3, <1>5, <1>7 DEF Data
<1>9. \A s \in Lists : \A i : <<s, i>> \in Pointers <=> i \in DOMAIN data[s]
  BY <1>4
<1> QED  BY <1>2, <1>7, <1>8, <1>9

LEMMA SetFacts ==
  ASSUME TypeOK, NEW p \in Pointers, NEW d \in DataType, Set(p, d)
  PROVE  /\ data' \in [Lists -> Seq(DataType)]
         /\ Pointers' = Pointers /\ Data(p)' = d
         /\ \A q \in Pointers : q # p => Data(q)' = Data(q)
<1>1. p \in PointerType /\ p[1] \in Lists /\ p[2] \in DOMAIN data[p[1]] /\ p = <<p[1], p[2]>>
  BY PointerFacts DEF PointerType
<1>2. data \in [Lists -> Seq(DataType)]
  BY DEF TypeOK
<1> DEFINE s == p[1]
           i == p[2]
           e == [data[s] EXCEPT ![i] = d]
<1>3. data' = [data EXCEPT ![s] = e]
  BY DEF Set
<1>4. e \in Seq(DataType) /\ Len(e) = Len(data[s]) /\ DOMAIN e = DOMAIN data[s]
  <2>1. data[s] \in Seq(DataType) /\ i \in 1 .. Len(data[s])
    BY <1>1, <1>2
  <2> HIDE DEF s, i
  <2> QED  BY <2>1, ExceptSeq
<1>5. e[i] = d /\ \A j \in DOMAIN data[s] : j # i => e[j] = data[s][j]
  BY <1>1
<1> HIDE DEF e
<1>6. data' \in [Lists -> Seq(DataType)]
  BY <1>1, <1>2, <1>3, <1>4
<1>7. data'[s] = e /\ \A r \in Lists : r # s => data'[r] = data[r]
  BY <1>1, <1>2, <1>3
<1>8. Pointers' = Pointers
  <2>1. \A r \in Lists : DOMAIN data'[r] = DOMAIN data[r]
    BY <1>4, <1>7
  <2> QED  BY <2>1 DEF Pointers
<1>9. Data(p)' = d
  BY <1>5, <1>7 DEF Data
<1>10. ASSUME NEW q \in Pointers, q # p PROVE Data(q)' = Data(q)
  <2>1. q[1] \in Lists /\ q[2] \in DOMAIN data[q[1]] /\ q = <<q[1], q[2]>>
    BY PointerFacts DEF PointerType
  <2>2. q[1] # s \/ q[2] # i
    BY <1>1, <1>10, <2>1
  <2> HIDE DEF s, i
  <2> QED  BY <1>5, <1>7, <2>1, <2>2 DEF Data
<1> QED  BY <1>6, <1>8, <1>9, <1>10

LEMMA AppendFacts ==
  ASSUME TypeOK, NEW s \in Lists, NEW d \in DataType, NEW n, n = Len(data[s]), NEW p,
         p = <<s, n + 1>>, data' = [data EXCEPT ![s] = Append(@, d)]
  PROVE  /\ data' \in [Lists -> Seq(DataType)]
         /\ p \in PointerType /\ p \notin Pointers
         /\ Pointers' = Pointers \cup {p} /\ Data(p)' = d
         /\ \A q \in Pointers : Data(q)' = Data(q)
<1> DEFINE e == Append(data[s], d)
<1>1. data \in [Lists -> Seq(DataType)] /\ data[s] \in Seq(DataType)
  BY DEF TypeOK
<1>2. n \in Nat /\ DOMAIN data[s] = 1 .. n
  BY <1>1
<1>3. /\ e \in Seq(DataType) /\ Len(e) = n + 1 /\ DOMAIN e = 1 .. n + 1
      /\ e[n + 1] = d /\ \A j \in 1 .. n : e[j] = data[s][j]
  BY <1>1, AppendProperties
<1>4. data'[s] = e /\ \A r \in Lists : r # s => data'[r] = data[r]
  BY <1>1
<1>5. data' \in [Lists -> Seq(DataType)]
  BY <1>1, <1>3
<1> HIDE DEF e
<1>6. p \in PointerType /\ p \notin Pointers
  BY <1>2, PointerFacts DEF PointerType
<1>7. Pointers' = Pointers \cup {p}
  <2>1. \A r \in Lists : \A i : i \in DOMAIN data'[r] <=> i \in DOMAIN data[r] \/ <<r, i>> = p
    BY <1>2, <1>3, <1>4
  <2>2. ASSUME NEW q PROVE q \in Pointers' <=> q \in Pointers \cup {p}
    <3>1. q \in Pointers' <=> \E r \in Lists : \E i \in DOMAIN data'[r] : q = <<r, i>>
      BY DEF Pointers
    <3>2. q \in Pointers <=> \E r \in Lists : \E i \in DOMAIN data[r] : q = <<r, i>>
      BY DEF Pointers
    <3>3. q \in Pointers' => q \in Pointers \cup {p}
      BY <2>1, <3>1, <3>2
    <3>4. q \in Pointers => q \in Pointers'
      BY <2>1, <3>1, <3>2
    <3>5. p \in Pointers'
      <4>1. n + 1 \in DOMAIN data'[s]
        BY <2>1
      <4> QED  BY <4>1 DEF Pointers
    <3> QED  BY <3>3, <3>4, <3>5
  <2> QED  BY <2>2
<1>8. Data(p)' = d
  <2>1. data'[s][n + 1] = d
    BY <1>3, <1>4
  <2> QED  BY <2>1 DEF Data
<1>9. ASSUME NEW q \in Pointers PROVE Data(q)' = Data(q)
  <2>1. q[1] \in Lists /\ q[2] \in DOMAIN data[q[1]]
    BY PointerFacts DEF PointerType
  <2> QED  BY <1>2, <1>3, <1>4, <2>1 DEF Data
<1> QED  BY <1>5, <1>6, <1>7, <1>8, <1>9

(***************************************************************************)
(* Facts about the items of a thread.                                      *)
(***************************************************************************)
LEMMA ItemTypes ==
  ASSUME TypeOK, NEW t \in Threads
  PROVE  /\ fast[t] \in Seq(ItemType) /\ cache[t] \in Seq(ItemType)
         /\ DOMAIN fast[t] = 1 .. Len(fast[t]) /\ Len(fast[t]) \in Nat
         /\ DOMAIN cache[t] = 1 .. Len(cache[t]) /\ Len(cache[t]) \in Nat
         /\ \A i \in DOMAIN fast[t] : fast[t][i] \in ItemType
         /\ \A i \in DOMAIN cache[t] : cache[t][i] \in ItemType
<1>1. fast[t] \in Seq(ItemType) /\ cache[t] \in Seq(ItemType)
  BY DEF TypeOK
<1> QED  BY <1>1

\* The places of the items for o: at most one.
LEMMA OnePlace ==
  ASSUME Inv, NEW t \in Threads, NEW o \in Objects
  PROVE  /\ FastFor(t, o) # {} =>
              /\ FastFor(t, o) = {1} /\ First(FastFor(t, o)) = 1 /\ Len(fast[t]) = 1
         /\ CacheFor(t, o) # {} =>
              \E i \in DOMAIN cache[t] : CacheFor(t, o) = {i} /\ First(CacheFor(t, o)) = i
<1>1. TypeOK /\ Distinct(t)
  BY DEF Inv, ItemsOK
<1>2. ASSUME FastFor(t, o) # {}
      PROVE  FastFor(t, o) = {1} /\ First(FastFor(t, o)) = 1 /\ Len(fast[t]) = 1
  <2>1. Len(fast[t]) = 1 /\ DOMAIN fast[t] = {1}
    <3>1. PICK i \in DOMAIN fast[t] : TRUE
      BY <1>2 DEF FastFor
    <3>2. PICK k \in Nat : Len(fast[t]) = k /\ k <= 1 /\ DOMAIN fast[t] = 1 .. k
      BY <1>1, ItemTypes DEF Distinct
    <3>3. k = 1
      BY <3>1, <3>2
    <3> QED  BY <3>2, <3>3
  <2>2. FastFor(t, o) = {1}
    BY <1>2, <2>1 DEF FastFor
  <2> QED  BY <2>1, <2>2 DEF First
<1>3. ASSUME CacheFor(t, o) # {}
      PROVE  \E i \in DOMAIN cache[t] : CacheFor(t, o) = {i} /\ First(CacheFor(t, o)) = i
  <2>1. PICK i \in CacheFor(t, o) : TRUE
    BY <1>3
  <2>2. i \in DOMAIN cache[t] /\ Data(cache[t][i].data).object = o /\ i \in Nat
    BY <1>1, <2>1, ItemTypes DEF CacheFor
  <2>3. ASSUME NEW j \in CacheFor(t, o) PROVE j = i
    <3>1. j \in DOMAIN cache[t] /\ Data(cache[t][j].data).object = o
      BY <2>3 DEF CacheFor
    <3>2. \A k \in DOMAIN cache[t] : cache[t][k].data \in Pointers
      <4> SUFFICES ASSUME NEW k \in DOMAIN cache[t] PROVE cache[t][k].data \in Pointers
        OBVIOUS
      <4>1. cache[t][k].data \in PointerType /\ cache[t][k].lockCount \in Nat
        BY <1>1, ItemTypes DEF ItemType
      <4>2. Holds(t, cache[t][k].data, cache[t][k].lockCount)
        BY DEF Holds
      <4> QED  BY <4>1, <4>2 DEF Inv, ItemsOK
    <3>3. cache[t][j].data = cache[t][i].data
      BY <2>2, <3>1, <3>2 DEF Inv, DataOK
    <3> QED  BY <1>1, <2>2, <3>1, <3>3 DEF Distinct
  <2>4. CacheFor(t, o) = {i}
    BY <2>1, <2>3
  <2> QED  BY <2>2, <2>4 DEF First
<1> QED  BY <1>2, <1>3

LEMMA CachedFacts ==
  ASSUME Inv, NEW t \in Threads, NEW o \in Objects
  PROVE  /\ Cached(t, o) =>
              /\ CachedItem(t, o) \in ItemType
              /\ CachedItem(t, o).data \in Pointers
              /\ Data(CachedItem(t, o).data).object = o
              /\ Holds(t, CachedItem(t, o).data, CachedItem(t, o).lockCount)
         /\ ~Cached(t, o) =>
              \A p \in Pointers : \A n : Data(p).object = o => ~Holds(t, p, n)
<1>1. TypeOK
  BY DEF Inv
<1>2. ASSUME Cached(t, o)
      PROVE  /\ CachedItem(t, o) \in ItemType
             /\ Data(CachedItem(t, o).data).object = o
             /\ Holds(t, CachedItem(t, o).data, CachedItem(t, o).lockCount)
  <2>1. CASE FastFor(t, o) # {}
    <3>1. CachedItem(t, o) = fast[t][1] /\ 1 \in FastFor(t, o)
      BY <2>1, OnePlace DEF CachedItem
    <3>2. 1 \in DOMAIN fast[t] /\ Data(fast[t][1].data).object = o
      BY <3>1 DEF FastFor
    <3> QED  BY <1>1, <3>1, <3>2, ItemTypes DEF Holds
  <2>2. CASE FastFor(t, o) = {}
    <3>1. PICK i \in DOMAIN cache[t] : CacheFor(t, o) = {i} /\ First(CacheFor(t, o)) = i
      BY <1>2, <2>2, OnePlace DEF Cached
    <3>2. CachedItem(t, o) = cache[t][i] /\ Data(cache[t][i].data).object = o
      BY <2>2, <3>1 DEF CachedItem, CacheFor
    <3> QED  BY <1>1, <3>2, ItemTypes DEF Holds
  <2> QED  BY <2>1, <2>2
<1>3. Cached(t, o) => CachedItem(t, o).data \in Pointers
  BY <1>2 DEF Inv, ItemsOK, ItemType
<1>4. ASSUME ~Cached(t, o), NEW p \in Pointers, NEW n, Data(p).object = o, Holds(t, p, n)
      PROVE  FALSE
  BY <1>4 DEF Cached, FastFor, CacheFor, Holds
<1> QED  BY <1>2, <1>3, <1>4

\* The item that t has for p is now one with the count n, or none if n is 0;
\* all other items stay.
ItemsChange(t, p, n) ==
  /\ fast' \in [Threads -> Seq(ItemType)] /\ cache' \in [Threads -> Seq(ItemType)]
  /\ Distinct(t)'
  /\ \A u \in Threads \ {t} :
       /\ Distinct(u)'
       /\ \A q \in PointerType, m \in Nat : Holds(u, q, m)' <=> Holds(u, q, m)
  /\ \A q \in PointerType, m \in Nat :
       Holds(t, q, m)' <=> IF q = p THEN m = n /\ n # 0 ELSE Holds(t, q, m)

LEMMA OthersKept ==
  ASSUME Inv, NEW t, NEW u \in Threads \ {t},
         fast'[u] = fast[u], cache'[u] = cache[u]
  PROVE  /\ Distinct(u)'
         /\ \A q \in PointerType, m \in Nat : Holds(u, q, m)' <=> Holds(u, q, m)
<1>1. Distinct(u)
  BY DEF Inv, ItemsOK
<1> QED  BY <1>1 DEF Distinct, Holds

LEMMA RecountFacts ==
  ASSUME Inv, NEW t \in Threads, NEW o \in Objects, Cached(t, o), NEW n \in Nat,
         Recount(t, o, n), NEW p, p = CachedItem(t, o).data
  PROVE  ItemsChange(t, p, n)
<1>1. TypeOK /\ Distinct(t)
  BY DEF Inv, ItemsOK
<1>2. p \in PointerType /\ p \in Pointers
  BY <1>1, CachedFacts, PointerFacts
<1>3. CASE FastFor(t, o) # {}
  <2>1. /\ CachedItem(t, o) = fast[t][1] /\ Len(fast[t]) = 1 /\ 1 \in DOMAIN fast[t]
        /\ fast[t][1] \in ItemType
    BY <1>1, <1>3, OnePlace, ItemTypes DEF CachedItem, FastFor
  <2> DEFINE x == IF n = 0 THEN <<>> ELSE <<[fast[t][1] EXCEPT !.lockCount = n]>>
  <2>2. fast' = [fast EXCEPT ![t] = x] /\ cache' = cache
    BY <1>3 DEF Recount
  <2>3. x \in Seq(ItemType) /\ Len(x) <= 1
    <3>1. [fast[t][1] EXCEPT !.lockCount = n] \in ItemType
      BY <2>1 DEF ItemType
    <3> QED  BY <3>1
  <2>4. /\ n = 0 => DOMAIN x = {}
        /\ n # 0 => DOMAIN x = {1} /\ x[1].data = p /\ x[1].lockCount = n
    BY <2>1 DEF ItemType
  <2> HIDE DEF x
  <2>5. /\ fast' \in [Threads -> Seq(ItemType)] /\ cache' \in [Threads -> Seq(ItemType)]
        /\ fast'[t] = x /\ cache'[t] = cache[t]
        /\ \A u \in Threads \ {t} : fast'[u] = fast[u] /\ cache'[u] = cache[u]
    BY <1>1, <2>2, <2>3 DEF TypeOK
  <2>6. \A i \in DOMAIN fast[t] : i = 1
    BY <1>1, <2>1, ItemTypes
  <2>7. \A j \in DOMAIN cache[t] : cache[t][j].data # p
    BY <1>1, <2>1 DEF Distinct
  <2>8. Distinct(t)'
    BY <1>1, <2>3, <2>4, <2>5, <2>7 DEF Distinct
  <2>9. \A q \in PointerType, m \in Nat :
          Holds(t, q, m)' <=> IF q = p THEN m = n /\ n # 0 ELSE Holds(t, q, m)
    BY <2>1, <2>4, <2>5, <2>6, <2>7 DEF Holds
  <2> QED  BY <2>5, <2>8, <2>9, OthersKept DEF ItemsChange
<1>4. CASE FastFor(t, o) = {}
  <2>1. PICK i \in DOMAIN cache[t] : CacheFor(t, o) = {i} /\ First(CacheFor(t, o)) = i
    BY <1>4, OnePlace DEF Cached
  <2>2. CachedItem(t, o) = cache[t][i]
    BY <1>4, <2>1 DEF CachedItem
  <2> DEFINE c == cache[t]
             x == IF n = 0 THEN WithoutItem(c, i) ELSE [c EXCEPT ![i].lockCount = n]
  <2>3. fast' = fast /\ cache' = [cache EXCEPT ![t] = x]
    BY <1>4, <2>1 DEF Recount
  <2>4. PICK k \in Nat :
        /\ c \in Seq(ItemType) /\ Len(c) = k /\ DOMAIN c = 1 .. k /\ i \in 1 .. k
        /\ \A j \in 1 .. k : c[j] \in ItemType
        /\ c[i].data = p
    BY <1>1, <2>1, <2>2, ItemTypes
  <2> HIDE DEF c
  <2>5. /\ \A a, b \in 1 .. k : c[a].data = c[b].data => a = b
        /\ \A a \in DOMAIN fast[t], b \in 1 .. k : fast[t][a].data # c[b].data
    BY <1>1, <2>4 DEF Distinct, c
  <2> DEFINE Replaced ==
        /\ x \in Seq(ItemType)
        /\ \A a \in DOMAIN x : \E b \in 1 .. k : x[a].data = c[b].data
        /\ \A a, b \in DOMAIN x : x[a].data = x[b].data => a = b
        /\ \A q, m : (\E a \in DOMAIN x : x[a].data = q /\ x[a].lockCount = m) <=>
                      IF q = p THEN m = n /\ n # 0
                      ELSE \E b \in 1 .. k : c[b].data = q /\ c[b].lockCount = m
  <2>6. ASSUME n = 0 PROVE Replaced
    <3> DEFINE y == [c EXCEPT ![i] = c[k]]
    <3>1. \A j \in 1 .. k : y[j] = IF j = i THEN c[k] ELSE c[j]
      BY <2>4
    <3>2. k - 1 \in Int /\ k \in 1 .. k /\ \A j \in 1 .. k - 1 : y[j] \in ItemType
      BY <2>4, <3>1
    <3>3. x = SubSeq(y, 1, k - 1)
      BY <2>4, <2>6 DEF WithoutItem
    <3> HIDE DEF x, y
    <3>4. /\ x \in Seq(ItemType) /\ Len(x) = k - 1
          /\ \A j \in 1 .. k - 1 : x[j] = y[j]
      <4>1. /\ SubSeq(y, 1, k - 1) \in Seq(ItemType)
            /\ Len(SubSeq(y, 1, k - 1)) = IF 1 <= k - 1 THEN k - 1 - 1 + 1 ELSE 0
            /\ \A j \in 1 .. k - 1 - 1 + 1 : SubSeq(y, 1, k - 1)[j] = y[1 + j - 1]
        BY <3>2, SubSeqProperties
      <4> QED  BY <2>4, <3>3, <4>1
    <3>5. DOMAIN x = 1 .. k - 1 /\ \A j \in 1 .. k - 1 : x[j] = IF j = i THEN c[k] ELSE c[j]
      BY <2>4, <3>1, <3>4
    <3>6. \A a \in DOMAIN x : \E b \in 1 .. k : b # i /\ x[a] = c[b]
      BY <2>4, <3>5
    <3>7. \A b \in 1 .. k : b # i => \E a \in DOMAIN x : x[a] = c[b]
      <4> SUFFICES ASSUME NEW b \in 1 .. k, b # i PROVE \E a \in DOMAIN x : x[a] = c[b]
        OBVIOUS
      <4>1. CASE b = k
        <5>1. i \in DOMAIN x /\ x[i] = c[b]
          BY <2>4, <3>5, <4>1
        <5> QED  BY <5>1
      <4>2. CASE b # k
        <5>1. b \in DOMAIN x /\ x[b] = c[b]
          BY <2>4, <3>5, <4>2
        <5> QED  BY <5>1
      <4> QED  BY <4>1, <4>2
    <3>8. \A a, b \in DOMAIN x : x[a].data = x[b].data => a = b
      BY <2>4, <2>5, <3>5
    <3>9. \A q, m : (\E a \in DOMAIN x : x[a].data = q /\ x[a].lockCount = m) <=>
                     IF q = p THEN m = n /\ n # 0
                     ELSE \E b \in 1 .. k : c[b].data = q /\ c[b].lockCount = m
      BY <2>4, <2>6, <2>5, <3>6, <3>7
    <3> QED  BY <3>4, <3>6, <3>8, <3>9
  <2>7. ASSUME n # 0 PROVE Replaced
    <3>1. [c[i] EXCEPT !.lockCount = n] \in ItemType /\ c[i].data = p
      BY <2>4 DEF ItemType
    <3>2. x = [c EXCEPT ![i] = [c[i] EXCEPT !.lockCount = n]]
      BY <2>7
    <3>3. x \in Seq(ItemType) /\ DOMAIN x = 1 .. k
      <4> DEFINE e == [c[i] EXCEPT !.lockCount = n]
      <4>1. e \in ItemType
        BY <3>1
      <4>2. [c EXCEPT ![i] = e] \in Seq(ItemType)
        <5> HIDE DEF e
        <5> QED  BY <2>4, <4>1, ExceptSeq
      <4> QED  BY <2>4, <3>2, <4>2
    <3>4. /\ \A a \in 1 .. k : a # i => x[a] = c[a]
          /\ x[i].data = p /\ x[i].lockCount = n
      BY <2>4, <3>1, <3>2 DEF ItemType
    <3> HIDE DEF x
    <3>5. \A a \in DOMAIN x : \E b \in 1 .. k : x[a].data = c[b].data
      BY <2>4, <3>3, <3>4
    <3>6. \A a, b \in DOMAIN x : x[a].data = x[b].data => a = b
      BY <2>4, <2>5, <3>3, <3>4
    <3>7. \A q, m : (\E a \in DOMAIN x : x[a].data = q /\ x[a].lockCount = m) <=>
                     IF q = p THEN m = n /\ n # 0
                     ELSE \E b \in 1 .. k : c[b].data = q /\ c[b].lockCount = m
      BY <2>4, <2>5, <2>7, <3>3, <3>4
    <3> QED  BY <3>3, <3>5, <3>6, <3>7
  <2>8. Replaced
    BY <2>6, <2>7
  <2> HIDE DEF x
  <2>9. /\ fast' \in [Threads -> Seq(ItemType)] /\ cache' \in [Threads -> Seq(ItemType)]
         /\ fast'[t] = fast[t] /\ cache'[t] = x
         /\ \A u \in Threads \ {t} : fast'[u] = fast[u] /\ cache'[u] = cache[u]
    BY <1>1, <2>3, <2>8 DEF TypeOK
  <2>10. Distinct(t)'
    BY <1>1, <2>5, <2>8, <2>9 DEF Distinct
  <2>11. \A a \in DOMAIN fast[t] : fast[t][a].data # p
    BY <2>4, <2>5
  <2>12. \A q \in PointerType, m \in Nat :
          Holds(t, q, m)' <=> IF q = p THEN m = n /\ n # 0 ELSE Holds(t, q, m)
    <3> TAKE q \in PointerType, m \in Nat
    <3>1. (\E a \in DOMAIN cache'[t] : cache'[t][a].data = q /\ cache'[t][a].lockCount = m) <=>
            IF q = p THEN m = n /\ n # 0
            ELSE \E b \in DOMAIN cache[t] : cache[t][b].data = q /\ cache[t][b].lockCount = m
      <4>1. cache[t] = c /\ DOMAIN cache[t] = 1 .. k /\ cache'[t] = x
        BY <2>4, <2>9 DEF c
      <4>2. (\E a \in DOMAIN x : x[a].data = q /\ x[a].lockCount = m) <=>
              IF q = p THEN m = n /\ n # 0
              ELSE \E b \in 1 .. k : c[b].data = q /\ c[b].lockCount = m
        BY <2>8
      <4> QED  BY <4>1, <4>2
    <3>2. (\E a \in DOMAIN fast'[t] : fast'[t][a].data = q /\ fast'[t][a].lockCount = m) <=>
          (\E a \in DOMAIN fast[t] : fast[t][a].data = q /\ fast[t][a].lockCount = m)
      BY <2>9
    <3> QED  BY <2>11, <3>1, <3>2 DEF Holds
  <2> QED  BY <2>9, <2>10, <2>12, OthersKept DEF ItemsChange
<1> QED  BY <1>3, <1>4

LEMMA SaveFacts ==
  ASSUME Inv, NEW t \in Threads, NEW p \in PointerType, Save(t, p),
         \A n \in Nat : ~Holds(t, p, n)
  PROVE  ItemsChange(t, p, 1)
<1>1. TypeOK /\ Distinct(t)
  BY DEF Inv, ItemsOK
<1>2. \A i \in DOMAIN fast[t] : fast[t][i].data # p
  BY <1>1, ItemTypes DEF Holds, ItemType
<1>3. \A i \in DOMAIN cache[t] : cache[t][i].data # p
  BY <1>1, ItemTypes DEF Holds, ItemType
<1>4. Item(p) \in ItemType /\ Item(p).data = p /\ Item(p).lockCount = 1
  BY DEF Item, ItemType
<1>5. CASE fast[t] = <<>>
  <2>1. fast' = [fast EXCEPT ![t] = <<Item(p)>>] /\ cache' = cache
    BY <1>5 DEF Save
  <2>2. /\ <<Item(p)>> \in Seq(ItemType) /\ DOMAIN <<Item(p)>> = {1} /\ Len(<<Item(p)>>) = 1
        /\ <<Item(p)>>[1] = Item(p)
    BY <1>4
  <2> DEFINE x == <<Item(p)>>
  <2> HIDE DEF x
  <2>3. /\ fast' \in [Threads -> Seq(ItemType)] /\ cache' \in [Threads -> Seq(ItemType)]
        /\ fast'[t] = <<Item(p)>> /\ cache'[t] = cache[t]
        /\ \A u \in Threads \ {t} : fast'[u] = fast[u] /\ cache'[u] = cache[u]
    BY <1>1, <2>1, <2>2 DEF TypeOK
  <2>4. Distinct(t)'
    BY <1>1, <1>3, <1>4, <2>2, <2>3 DEF Distinct
  <2>5. DOMAIN fast[t] = {}
    BY <1>5
  <2>6. \A q \in PointerType, m \in Nat :
          Holds(t, q, m)' <=> IF q = p THEN m = 1 /\ 1 # 0 ELSE Holds(t, q, m)
    BY <1>3, <1>4, <2>2, <2>3, <2>5 DEF Holds
  <2> QED  BY <2>3, <2>4, <2>6, OthersKept DEF ItemsChange
<1>6. CASE fast[t] # <<>>
  <2> DEFINE c == cache[t]
             x == Append(c, Item(p))
  <2>1. cache' = [cache EXCEPT ![t] = x] /\ fast' = fast
    BY <1>6 DEF Save
  <2>2. PICK k \in Nat : c \in Seq(ItemType) /\ Len(c) = k /\ DOMAIN c = 1 .. k
    BY <1>1, ItemTypes
  <2> HIDE DEF c
  <2>3. /\ x \in Seq(ItemType) /\ DOMAIN x = 1 .. k + 1
        /\ \A j \in 1 .. k : x[j] = c[j]
        /\ x[k + 1] = Item(p)
    <3>1. /\ x \in Seq(ItemType) /\ Len(x) = k + 1 /\ \A j \in 1 .. k : x[j] = c[j]
          /\ x[k + 1] = Item(p)
      <4> DEFINE i == Item(p)
      <4>1. i \in ItemType
        BY <1>4
      <4> HIDE DEF i
      <4>2. /\ Append(c, i) \in Seq(ItemType) /\ Len(Append(c, i)) = k + 1
            /\ \A j \in 1 .. k : Append(c, i)[j] = c[j]
            /\ Append(c, i)[k + 1] = i
        BY <2>2, <4>1, AppendProperties
      <4> QED  BY <4>2 DEF i
    <3> QED  BY <3>1
  <2> HIDE DEF x
  <2>4. /\ fast' \in [Threads -> Seq(ItemType)] /\ cache' \in [Threads -> Seq(ItemType)]
        /\ fast'[t] = fast[t] /\ cache'[t] = x
        /\ \A u \in Threads \ {t} : fast'[u] = fast[u] /\ cache'[u] = cache[u]
    BY <1>1, <2>1, <2>3 DEF TypeOK
  <2>5. \A j \in 1 .. k + 1 : j \in 1 .. k \/ j = k + 1
    BY <2>2
  <2>6. \A j \in 1 .. k : c[j].data # p
    BY <1>3, <2>2 DEF c
  <2>7. /\ \A a, b \in 1 .. k : c[a].data = c[b].data => a = b
        /\ \A a \in DOMAIN fast[t], b \in 1 .. k : fast[t][a].data # c[b].data
    BY <1>1, <2>2 DEF Distinct, c
  <2>8. Distinct(t)'
    <3>1. \A a, b \in DOMAIN x : x[a].data = x[b].data => a = b
      BY <1>4, <2>3, <2>5, <2>6, <2>7
    <3>2. \A a \in DOMAIN fast[t], b \in DOMAIN x : fast[t][a].data # x[b].data
      BY <1>2, <1>4, <2>3, <2>5, <2>7
    <3> QED  BY <1>1, <2>4, <3>1, <3>2 DEF Distinct
  <2>9. \A q \in PointerType, m \in Nat :
          Holds(t, q, m)' <=> IF q = p THEN m = 1 /\ 1 # 0 ELSE Holds(t, q, m)
    <3> TAKE q \in PointerType, m \in Nat
    <3>1. (\E a \in DOMAIN cache'[t] : cache'[t][a].data = q /\ cache'[t][a].lockCount = m) <=>
            IF q = p THEN m = 1
            ELSE \E b \in DOMAIN cache[t] : cache[t][b].data = q /\ cache[t][b].lockCount = m
      <4>1. cache'[t] = x /\ k + 1 \in DOMAIN x
        BY <2>2, <2>3, <2>4
      <4>2. DOMAIN cache[t] = 1 .. k /\ 1 .. k \subseteq DOMAIN x /\ \A b \in 1 .. k : x[b] = cache[t][b]
        BY <2>2, <2>3 DEF c
      <4>3. \A b \in 1 .. k : cache[t][b].data # p
        BY <2>6 DEF c
      <4> QED  BY <1>4, <2>3, <2>5, <4>1, <4>2, <4>3
    <3>2. (\E a \in DOMAIN fast'[t] : fast'[t][a].data = q /\ fast'[t][a].lockCount = m) <=>
          (\E a \in DOMAIN fast[t] : fast[t][a].data = q /\ fast[t][a].lockCount = m)
      BY <2>4
    <3> QED  BY <1>2, <3>1, <3>2 DEF Holds
  <2> QED  BY <2>4, <2>8, <2>9, OthersKept DEF ItemsChange
<1> QED  BY <1>5, <1>6

\* The holders of the SyncData, after a change of t's item for p.
LEMMA HoldersChange ==
  ASSUME NEW t \in Threads, NEW p \in PointerType, NEW n \in Nat, ItemsChange(t, p, n)
  PROVE  /\ \A q \in PointerType : q # p => Holders(q)' = Holders(q)
         /\ Holders(p)' = IF n = 0 THEN Holders(p) \ {t} ELSE Holders(p) \cup {t}
<1>1. ASSUME NEW q \in PointerType, NEW u \in Threads
      PROVE  (\E m \in Nat : Holds(u, q, m)') <=>
               IF u = t /\ q = p THEN n # 0 ELSE \E m \in Nat : Holds(u, q, m)
  BY DEF ItemsChange
<1>2. ASSUME NEW q \in PointerType, q # p PROVE Holders(q)' = Holders(q)
  BY <1>1, <1>2 DEF Holders
<1>3. Holders(p)' = IF n = 0 THEN Holders(p) \ {t} ELSE Holders(p) \cup {t}
  BY <1>1 DEF Holders
<1> QED  BY <1>2, <1>3

LEMMA CountedPositive ==
  ASSUME Inv, NEW p \in Pointers, NEW t \in Threads, NEW n \in Nat, Holds(t, p, n)
  PROVE  Data(p).threadCount \in Nat /\ Data(p).threadCount > 0
<1>1. IsFiniteSet(Holders(p)) /\ Cardinality(Holders(p)) <= Data(p).threadCount
  BY DEF Inv, CountOK
<1>2. t \in Holders(p)
  BY DEF Holders
<1>3. Cardinality(Holders(p)) \in Nat /\ Cardinality(Holders(p)) # 0
  BY <1>1, <1>2, FS_CardinalityType, FS_EmptySet
<1>4. Data(p).threadCount \in Nat
  BY PointerFacts DEF Inv, DataType
<1> QED  BY <1>1, <1>3, <1>4

(***************************************************************************)
(* The steps.                                                              *)
(***************************************************************************)
\* The SyncData stay as they are.
LEMMA DataKept ==
  ASSUME UNCHANGED data
  PROVE  Pointers' = Pointers /\ \A q : Data(q)' = Data(q)
BY DEF Pointers, Data

LEMMA EnterCachedKeeps ==
  ASSUME Inv, NEW t \in Threads, NEW o \in Objects, NEW op \in {"enter", "tryEnter"},
         Idle(t), Cached(t, o), EnterCached(t, o, op), UNCHANGED locked,
         calls' \in [Threads -> Nat]
  PROVE  Inv'
<1>1. PICK p \in Pointers, n \in Nat :
        /\ Holds(t, p, n) /\ Data(p).object = o /\ p \in PointerType
        /\ CachedItem(t, o).data = p /\ CachedItem(t, o).lockCount = n
  BY CachedFacts, PointerFacts DEF ItemType, Inv
<1>2. ItemsChange(t, p, n + 1)
  <2>1. Recount(t, o, n + 1)
    BY <1>1 DEF EnterCached
  <2>2. n + 1 \in Nat
    OBVIOUS
  <2> QED  BY <1>1, <2>1, <2>2, RecountFacts
<1>3. /\ call' = [call EXCEPT ![t] = Call(op, "lock", o, p)] /\ data' = data
      /\ fatal' = (fatal \/ BuggyItem(CachedItem(t, o)))
  BY <1>1 DEF EnterCached
<1>4. Pointers' = Pointers /\ \A q : Data(q)' = Data(q)
  BY <1>3, DataKept
<1>5. /\ call \in [Threads -> CallType] /\ call[t] = NoCall
      /\ call'[t] = Call(op, "lock", o, p) /\ \A u \in Threads \ {t} : call'[u] = call[u]
  BY <1>3 DEF Inv, TypeOK, Idle
<1>6. /\ call[t].pc = "idle" /\ call[t].op = "none"
      /\ call'[t].pc = "lock" /\ call'[t].op = op /\ call'[t].obj = o /\ call'[t].data = p
  BY <1>5 DEF NoCall, Call
<1>7. ~fatal'
  <2>1. n > 0
    BY <1>1 DEF Inv, ItemsOK
  <2>2. ~BuggyItem(CachedItem(t, o))
    BY <1>1, <2>1, CountedPositive DEF BuggyItem
  <2> QED  BY <1>3, <2>2 DEF Inv
<1>8. TypeOK'
  <2>1. Call(op, "lock", o, p) \in CallType
    BY <1>1 DEF Call, CallType
  <2> QED  BY <1>2, <1>3, <1>7, <2>1 DEF Inv, TypeOK, ItemsChange
<1>9. DataOK'
  BY <1>4 DEF Inv, DataOK
<1>10. MutexOK'
  <2>1. \A u \in Threads : \A q : Pending(u, q)' = Pending(u, q)
    BY <1>5, <1>6 DEF Pending, Unlocking
  <2>2. \A q \in Pointers : Data(q).owner \in Threads \cup {NoThread}
    BY PointerFacts DEF DataType, Inv
  <2> QED  BY <1>4, <2>1, <2>2 DEF Inv, MutexOK, MutexAt
<1>11. OwnedOK'
  <2>1. \A u \in Threads, q \in PointerType :
          (\E m \in Nat : Holds(u, q, m)) => \E m \in Nat : Holds(u, q, m)'
    <3>1. Holds(t, p, n + 1)' /\ n + 1 \in Nat
      BY <1>1, <1>2 DEF ItemsChange
    <3>2. \A u \in Threads, q \in PointerType, m \in Nat :
            ~(u = t /\ q = p) => (Holds(u, q, m)' <=> Holds(u, q, m))
      BY <1>2 DEF ItemsChange
    <3> QED  BY <3>1, <3>2
  <2>2. \A q \in Pointers : q \in PointerType
    BY PointerFacts DEF Inv
  <2> QED  BY <1>4, <2>1, <2>2 DEF Inv, OwnedOK
<1>12. ItemsOK'
  <2> SUFFICES ASSUME NEW u \in Threads
               PROVE  /\ Distinct(u)'
                      /\ \A q \in PointerType, m \in Nat : Holds(u, q, m)' =>
                           /\ q \in Pointers /\ m > 0
                           /\ m >= locked[u][Data(q).object] + Locking(u, q)'
    BY <1>4 DEF ItemsOK
  <2>1. Distinct(u)'
    BY <1>2 DEF ItemsChange
  <2>2. ASSUME NEW q \in PointerType, NEW m \in Nat, Holds(u, q, m)'
        PROVE  /\ q \in Pointers /\ m > 0
               /\ m >= locked[u][Data(q).object] + Locking(u, q)'
    <3>1. CASE u = t /\ q = p
      <4>1. m = n + 1
        BY <1>2, <2>2, <3>1 DEF ItemsChange
      <4>2. n >= locked[t][o] + Locking(t, p) /\ n > 0
        BY <1>1 DEF Inv, ItemsOK
      <4>3. Locking(t, p) = 0 /\ Locking(t, p)' = 1
        BY <1>6 DEF Locking
      <4>4. locked[t][o] \in Nat
        BY DEF Inv, TypeOK
      <4> QED  BY <1>1, <3>1, <4>1, <4>2, <4>3, <4>4
    <3>2. CASE ~(u = t /\ q = p)
      <4>1. Holds(u, q, m)
        BY <1>2, <2>2, <3>2 DEF ItemsChange
      <4>2. Locking(u, q)' = Locking(u, q)
        BY <1>5, <1>6, <3>2 DEF Locking
      <4> QED  BY <2>2, <4>1, <4>2 DEF Inv, ItemsOK
    <3> QED  BY <3>1, <3>2
  <2> QED  BY <2>1, <2>2
<1>13. CountOK'
  <2>1. \A q \in Pointers : Holders(q)' = Holders(q)
    <3>1. t \in Holders(p)
      BY <1>1 DEF Holders
    <3>2. Holders(p)' = Holders(p) \cup {t}
      <4>1. n + 1 \in Nat /\ n + 1 # 0
        OBVIOUS
      <4> QED  BY <1>1, <1>2, <4>1, HoldersChange
    <3>3. \A q \in PointerType : q # p => Holders(q)' = Holders(q)
      BY <1>1, <1>2, HoldersChange
    <3>4. \A q \in Pointers : q \in PointerType
      BY PointerFacts DEF Inv
    <3> QED  BY <3>1, <3>2, <3>3, <3>4
  <2> QED  BY <1>4, <2>1 DEF Inv, CountOK
<1>14. CallOK'
  <2>1. ASSUME NEW u \in Threads PROVE ThreadCallOK(u)'
    <3>1. CASE u = t
      <4>1. Holds(t, p, n + 1)'
        BY <1>1, <1>2 DEF ItemsChange
      <4> QED  BY <1>1, <1>4, <1>6, <3>1, <4>1 DEF ThreadCallOK
    <3>2. CASE u # t
      <4>1. ThreadCallOK(u) /\ call'[u] = call[u]
        BY <1>5, <3>2 DEF Inv, CallOK
      <4>2. \A q \in Pointers, m \in Nat : Holds(u, q, m)' <=> Holds(u, q, m)
        BY <1>2, <3>2, PointerFacts DEF ItemsChange, Inv
      <4> QED  BY <1>4, <4>1, <4>2 DEF ThreadCallOK
    <3> QED  BY <3>1, <3>2
  <2> QED  BY <2>1 DEF CallOK
<1> QED  BY <1>7, <1>8, <1>9, <1>10, <1>11, <1>12, <1>13, <1>14 DEF Inv

\* What the search under the spinlock leaves: p is the object's, as p was or
\* as nobody uses it, and counts one thread more.
FoundFor(t, o, p) ==
  /\ p \in PointerType /\ p[1] = ListOf[o]
  /\ data' \in [Lists -> Seq(DataType)]
  /\ Pointers' = Pointers \cup {p}
  /\ \A q \in Pointers : q # p => Data(q)' = Data(q) /\ Data(q).object # o
  /\ Data(p)'.object = o
  /\ p \in Pointers => Data(p)'.owner = Data(p).owner
  /\ Data(p)'.owner \in Threads \cup {NoThread}
  /\ Data(p)'.owner = NoThread => Data(p)'.depth = 0
  /\ Data(p)'.owner # NoThread =>
       /\ Data(p)'.depth = locked[Data(p)'.owner][o] + Pending(Data(p)'.owner, p)
       /\ Data(p)'.depth > 0
  /\ \A u \in Threads, n \in Nat : Holds(u, p, n) =>
       u # t /\ p \in Pointers /\ Data(p).object = o
  /\ IsFiniteSet(Holders(p)) /\ Cardinality(Holders(p)) + 1 <= Data(p)'.threadCount

LEMMA ForObjectFacts ==
  ASSUME Inv, NEW o \in Objects, NEW s, s = ListOf[o]
  PROVE  /\ s \in Lists
         /\ \A q \in Pointers : Data(q).object = o => q = <<s, q[2]>> /\ q[2] \in ForObject(s, o)
         /\ ForObject(s, o) # {} =>
              <<s, Newest(ForObject(s, o))>> \in Pointers
                /\ Data(<<s, Newest(ForObject(s, o))>>).object = o
<1>1. s \in Lists
  BY ListOfAssumption
<1>2. ASSUME NEW q \in Pointers, Data(q).object = o
      PROVE  q = <<s, q[2]>> /\ q[2] \in ForObject(s, o)
  <2>1. q \in PointerType /\ q[2] \in DOMAIN data[q[1]] /\ q[1] = s
    BY <1>2, PointerFacts DEF Inv, DataOK
  <2> QED  BY <1>2, <2>1 DEF PointerType, ForObject, Data
<1>3. ASSUME ForObject(s, o) # {}
      PROVE  /\ <<s, Newest(ForObject(s, o))>> \in Pointers
             /\ Data(<<s, Newest(ForObject(s, o))>>).object = o
  <2>1. PICK i \in ForObject(s, o) : TRUE
    BY <1>3
  <2>2. i \in DOMAIN data[s] /\ data[s][i].object = o /\ i \in Nat
    BY <1>1, <2>1, PointerFacts DEF ForObject, Inv
  <2>3. ASSUME NEW j \in ForObject(s, o) PROVE j = i
    <3>1. j \in DOMAIN data[s] /\ data[s][j].object = o
      BY <2>3 DEF ForObject
    <3>2. <<s, i>> \in Pointers /\ <<s, j>> \in Pointers
      BY <1>1, <2>2, <3>1, PointerFacts DEF Inv
    <3>3. <<s, i>> = <<s, j>>
      BY <2>2, <3>1, <3>2 DEF Inv, DataOK, Data
    <3> QED  BY <3>3
  <2>4. Newest(ForObject(s, o)) = i
    <3>1. ForObject(s, o) = {i}
      BY <2>1, <2>3
    <3>2. i <= i
      BY <2>2
    <3> QED  BY <3>1, <3>2 DEF Newest
  <2> QED  BY <1>1, <2>2, <2>4, PointerFacts DEF Inv, Data
<1> QED  BY <1>1, <1>2, <1>3

\* A set of places has a last one.
LEMMA LastPlace ==
  ASSUME NEW n \in Nat, NEW is, is \subseteq 1 .. n, is # {}
  PROVE  Newest(is) \in is
<1> DEFINE less == {ss \in Nat \X Nat : ss[1] < ss[2]}
           back == {n - i : i \in is}
<1>1. IsWellFoundedOn(less, Nat)
  BY NatLessThanWellFounded DEF OpToRel
<1>2. back \subseteq Nat /\ back # {}
  <2>1. \A i \in is : n - i \in Nat
    OBVIOUS
  <2>2. PICK i : i \in is
    OBVIOUS
  <2>3. n - i \in back
    BY <2>2
  <2> QED  BY <2>1, <2>3
<1>3. PICK x \in back : \A y \in back : ~(<<y, x>> \in less)
  <2> HIDE DEF less, back
  <2> QED  BY <1>1, <1>2, WFMin
<1>4. PICK i \in is : x = n - i
  OBVIOUS
<1>5. \A j \in is : j <= i
  <2> SUFFICES ASSUME NEW j \in is PROVE j <= i
    OBVIOUS
  <2>1. n - j \in back /\ n - j \in Nat /\ x \in Nat
    BY <1>2
  <2>2. ~(n - j < x)
    BY <1>3, <2>1
  <2> QED  BY <1>4, <2>1, <2>2
<1> QED  BY <1>5 DEF Newest

LEMMA UnusedFacts ==
  ASSUME Inv, NEW s \in Lists, Unused(s) # {}
  PROVE  /\ <<s, Newest(Unused(s))>> \in Pointers
         /\ Data(<<s, Newest(Unused(s))>>).threadCount = 0
<1>1. PICK n \in Nat : DOMAIN data[s] = 1 .. n
  BY PointerFacts DEF Inv
<1>2. Newest(Unused(s)) \in Unused(s)
  BY <1>1, LastPlace DEF Unused
<1>3. Newest(Unused(s)) \in DOMAIN data[s] /\ data[s][Newest(Unused(s))].threadCount = 0
  BY <1>2 DEF Unused
<1> QED  BY <1>3, PointerFacts DEF Inv, Data

\* Nobody has an item for a SyncData with no thread.
LEMMA NobodyHolds ==
  ASSUME Inv, NEW p \in Pointers, Data(p).threadCount = 0
  PROVE  /\ Holders(p) = {} /\ \A u \in Threads, n \in Nat : ~Holds(u, p, n)
         /\ Data(p).owner # NoThread => locked[Data(p).owner][Data(p).object] = 0
<1>1. \A u \in Threads, n \in Nat : ~Holds(u, p, n)
  BY CountedPositive
<1>2. ASSUME Data(p).owner # NoThread PROVE locked[Data(p).owner][Data(p).object] = 0
  <2>1. Data(p).owner \in Threads /\ Data(p).object \in Objects
    BY <1>2, PointerFacts DEF Inv, DataType
  <2>2. locked[Data(p).owner][Data(p).object] \in Nat
    BY <2>1 DEF Inv, TypeOK
  <2>3. ASSUME locked[Data(p).owner][Data(p).object] > 0 PROVE FALSE
    <3>1. PICK q \in Pointers : Data(q).object = Data(p).object
                                  /\ \E n \in Nat : Holds(Data(p).owner, q, n)
      BY <2>1, <2>3 DEF Inv, OwnedOK
    <3>2. q = p
      BY <3>1 DEF Inv, DataOK
    <3> QED  BY <1>1, <2>1, <3>1, <3>2
  <2> QED  BY <2>2, <2>3
<1> QED  BY <1>1, <1>2 DEF Holders

LEMMA FindFinds ==
  ASSUME Inv, NEW t \in Threads, NEW o \in Objects, NEW op, Idle(t), ~Cached(t, o),
         EnterFind(t, o, op)
  PROVE  \E p : /\ FoundFor(t, o, p) /\ Save(t, p)
                /\ call' = [call EXCEPT ![t] = Call(op, "lock", o, p)]
                /\ UNCHANGED fatal
<1> DEFINE s == ListOf[o]
<1>1. /\ s \in Lists
      /\ \A q \in Pointers : Data(q).object = o => q = <<s, q[2]>> /\ q[2] \in ForObject(s, o)
  BY ForObjectFacts
<1>2. TypeOK /\ \A q \in Pointers : Data(q) \in DataType /\ q \in PointerType
  BY PointerFacts DEF Inv
<1>3. CASE ForObject(s, o) # {}
  <2>1. PICK p \in Pointers :
          /\ p = <<s, Newest(ForObject(s, o))>> /\ Data(p).object = o
          /\ Set(p, Counted(Data(p))) /\ Save(t, p)
          /\ call' = [call EXCEPT ![t] = Call(op, "lock", o, p)]
          /\ UNCHANGED fatal
    BY <1>3, ForObjectFacts DEF EnterFind
  <2> DEFINE d == Counted(Data(p))
  <2>2. /\ d \in DataType /\ d.object = o /\ d.threadCount = Data(p).threadCount + 1
        /\ d.owner = Data(p).owner /\ d.depth = Data(p).depth
        /\ d.owner \in Threads \cup {NoThread}
    BY <1>2, <2>1 DEF Counted, DataType
  <2> HIDE DEF d
  <2>3. /\ data' \in [Lists -> Seq(DataType)] /\ Pointers' = Pointers /\ Data(p)' = d
        /\ \A q \in Pointers : q # p => Data(q)' = Data(q)
    BY <1>2, <2>1, <2>2, SetFacts DEF d
  <2>4. \A q \in Pointers : q # p => Data(q).object # o
    BY <2>1 DEF Inv, DataOK
  <2>5. \A n \in Nat : ~Holds(t, p, n)
    BY <2>1, CachedFacts
  <2>6. /\ IsFiniteSet(Holders(p)) /\ Cardinality(Holders(p)) \in Nat
        /\ Cardinality(Holders(p)) <= Data(p).threadCount /\ Data(p).threadCount \in Nat
    BY <1>2, FS_CardinalityType DEF Inv, CountOK, DataType
  <2>7. /\ Data(p).owner = NoThread => Data(p).depth = 0
        /\ Data(p).owner # NoThread =>
             /\ Data(p).depth = locked[Data(p).owner][o] + Pending(Data(p).owner, p)
             /\ Data(p).depth > 0
    BY <2>1 DEF Inv, MutexOK, MutexAt
  <2>8. p \in PointerType /\ p[1] = ListOf[o]
    BY <1>2, <2>1
  <2>9. FoundFor(t, o, p)
    <3>1. /\ Data(p)'.object = o /\ Data(p)'.owner = Data(p).owner
          /\ Data(p)'.depth = Data(p).depth
          /\ Data(p)'.threadCount = Data(p).threadCount + 1
          /\ Data(p)'.owner \in Threads \cup {NoThread}
      BY <2>2, <2>3
    <3>2. Cardinality(Holders(p)) + 1 <= Data(p)'.threadCount
      BY <2>6, <3>1
    <3>3. \A u \in Threads, n \in Nat : Holds(u, p, n) =>
            u # t /\ p \in Pointers /\ Data(p).object = o
      BY <2>1, <2>5
    <3>4. /\ Data(p)'.owner = NoThread => Data(p)'.depth = 0
          /\ Data(p)'.owner # NoThread =>
               /\ Data(p)'.depth = locked[Data(p)'.owner][o] + Pending(Data(p)'.owner, p)
               /\ Data(p)'.depth > 0
      BY <2>7, <3>1
    <3>5. Pointers' = Pointers \cup {p}
      BY <2>3
    <3> QED  BY <2>3, <2>4, <2>6, <2>8, <3>1, <3>2, <3>3, <3>4, <3>5 DEF FoundFor
  <2> QED  BY <2>1, <2>9
<1>4. CASE ForObject(s, o) = {} /\ Unused(s) # {}
  <2>1. PICK p \in Pointers :
          /\ p = <<s, Newest(Unused(s))>> /\ Data(p).threadCount = 0
          /\ Set(p, [Data(p) EXCEPT !.object = o, !.threadCount = 1]) /\ Save(t, p)
          /\ call' = [call EXCEPT ![t] = Call(op, "lock", o, p)]
          /\ UNCHANGED fatal
    BY <1>1, <1>4, UnusedFacts DEF EnterFind
  <2> DEFINE d == [Data(p) EXCEPT !.object = o, !.threadCount = 1]
  <2>2. /\ d \in DataType /\ d.object = o /\ d.threadCount = 1
        /\ d.owner = Data(p).owner /\ d.depth = Data(p).depth
        /\ d.owner \in Threads \cup {NoThread}
    BY <1>2, <2>1 DEF DataType
  <2>3. Set(p, d)
    BY <2>1
  <2> HIDE DEF d
  <2>4. /\ data' \in [Lists -> Seq(DataType)] /\ Pointers' = Pointers /\ Data(p)' = d
        /\ \A q \in Pointers : q # p => Data(q)' = Data(q)
    BY <1>2, <2>2, <2>3, SetFacts
  <2>5. \A q \in Pointers : Data(q).object # o
    BY <1>1, <1>4
  <2>6. /\ Holders(p) = {} /\ \A u \in Threads, n \in Nat : ~Holds(u, p, n)
        /\ Data(p).owner # NoThread => locked[Data(p).owner][Data(p).object] = 0
    BY <2>1, NobodyHolds
  <2>7. ASSUME NEW u \in Threads PROVE locked[u][o] = 0
    <3>1. locked[u][o] \in Nat
      BY DEF Inv, TypeOK
    <3>2. ~(locked[u][o] > 0)
      BY <2>5 DEF Inv, OwnedOK
    <3> QED  BY <3>1, <3>2
  <2>8. /\ Data(p).owner = NoThread => Data(p).depth = 0
        /\ Data(p).owner # NoThread =>
             /\ Data(p).depth = locked[Data(p).owner][o] + Pending(Data(p).owner, p)
             /\ Data(p).depth > 0
    BY <2>2, <2>6, <2>7 DEF Inv, MutexOK, MutexAt
  <2>9. IsFiniteSet(Holders(p)) /\ Cardinality(Holders(p)) + 1 <= 1
    BY <2>6, FS_EmptySet
  <2>10. p \in PointerType /\ p[1] = ListOf[o]
    BY <1>2, <2>1
  <2>11. FoundFor(t, o, p)
    BY <2>2, <2>4, <2>5, <2>6, <2>8, <2>9, <2>10 DEF FoundFor
  <2> QED  BY <2>1, <2>11
<1>5. CASE ForObject(s, o) = {} /\ Unused(s) = {}
  <2>1. PICK p : /\ p = <<s, Len(data[s]) + 1>> /\ Save(t, p)
                 /\ data' = [data EXCEPT ![s] = Append(@, SyncData(o))]
                 /\ call' = [call EXCEPT ![t] = Call(op, "lock", o, p)]
                 /\ UNCHANGED fatal
    BY <1>5 DEF EnterFind
  <2> DEFINE d == SyncData(o)
  <2>2. /\ d \in DataType /\ d.object = o /\ d.threadCount = 1 /\ d.owner = NoThread
        /\ d.depth = 0
    BY DEF SyncData, DataType
  <2>3. data' = [data EXCEPT ![s] = Append(@, d)]
    BY <2>1
  <2> HIDE DEF d
  <2>4. /\ data' \in [Lists -> Seq(DataType)] /\ p \in PointerType /\ p \notin Pointers
        /\ Pointers' = Pointers \cup {p} /\ Data(p)' = d
        /\ \A q \in Pointers : Data(q)' = Data(q)
    <3>1. PICK r \in Lists : r = s /\ p = <<r, Len(data[r]) + 1>>
      BY <1>1, <2>1
    <3>4. PICK n : n = Len(data[r])
      OBVIOUS
    <3>2. data' = [data EXCEPT ![r] = Append(@, d)] /\ p = <<r, n + 1>>
      BY <2>3, <3>1, <3>4
    <3> HIDE DEF s
    <3>3. TypeOK /\ d \in DataType
      BY <1>2, <2>2
    <3> QED  BY <3>1, <3>2, <3>3, <3>4, AppendFacts, Zenon
  <2>5. \A q \in Pointers : Data(q).object # o
    BY <1>1, <1>5
  <2>6. \A u \in Threads, n \in Nat : ~Holds(u, p, n)
    BY <2>4 DEF Inv, ItemsOK
  <2>7. Holders(p) = {}
    BY <2>6 DEF Holders
  <2>8. IsFiniteSet(Holders(p)) /\ Cardinality(Holders(p)) + 1 <= 1
    BY <2>7, FS_EmptySet
  <2>9. p[1] = ListOf[o]
    BY <2>1
  <2>10. FoundFor(t, o, p)
    BY <2>2, <2>4, <2>5, <2>6, <2>8, <2>9 DEF FoundFor
  <2> QED  BY <2>1, <2>10
<1> QED  BY <1>3, <1>4, <1>5

LEMMA EnterFindKeeps ==
  ASSUME Inv, NEW t \in Threads, NEW o \in Objects, NEW op \in {"enter", "tryEnter"},
         Idle(t), ~Cached(t, o), EnterFind(t, o, op), UNCHANGED locked,
         calls' \in [Threads -> Nat]
  PROVE  Inv'
<1>1. PICK p : /\ FoundFor(t, o, p) /\ Save(t, p)
               /\ call' = [call EXCEPT ![t] = Call(op, "lock", o, p)]
               /\ fatal' = fatal
  BY FindFinds
<1>2. /\ p \in PointerType /\ Pointers' = Pointers \cup {p}
      /\ \A q \in Pointers : q # p => Data(q)' = Data(q) /\ Data(q).object # o
      /\ Data(p)'.object = o
      /\ p \in Pointers => Data(p)'.owner = Data(p).owner
      /\ \A u \in Threads, n \in Nat : Holds(u, p, n) =>
           u # t /\ p \in Pointers /\ Data(p).object = o
  BY <1>1 DEF FoundFor
<1>3. ItemsChange(t, p, 1)
  BY <1>1, <1>2, SaveFacts
<1>4. \A q \in Pointers : q \in PointerType /\ Data(q).owner \in Threads \cup {NoThread}
  BY PointerFacts DEF Inv, DataType
<1>5. /\ call \in [Threads -> CallType] /\ call[t] = NoCall
      /\ call'[t] = Call(op, "lock", o, p) /\ \A u \in Threads \ {t} : call'[u] = call[u]
  BY <1>1 DEF Inv, TypeOK, Idle
<1>6. /\ call[t].pc = "idle" /\ call[t].op = "none"
      /\ call'[t].pc = "lock" /\ call'[t].op = op /\ call'[t].obj = o /\ call'[t].data = p
  BY <1>5 DEF NoCall, Call
<1>7. ~fatal'
  BY <1>1 DEF Inv
<1>8. TypeOK'
  <2>1. Call(op, "lock", o, p) \in CallType
    BY <1>2 DEF Call, CallType
  <2>2. data' \in [Lists -> Seq(DataType)]
    BY <1>1 DEF FoundFor
  <2>3. fast' \in [Threads -> Seq(ItemType)] /\ cache' \in [Threads -> Seq(ItemType)]
    BY <1>3 DEF ItemsChange
  <2> QED  BY <1>1, <1>7, <2>1, <2>2, <2>3 DEF Inv, TypeOK
<1>9. DataOK'
  <2>1. p[1] = ListOf[o]
    BY <1>1 DEF FoundFor
  <2> QED  BY <1>2, <2>1 DEF Inv, DataOK
<1>10. \A u \in Threads : \A q : Pending(u, q)' = Pending(u, q)
  BY <1>5, <1>6 DEF Pending, Unlocking
<1>11. MutexOK'
  <2> SUFFICES ASSUME NEW q \in Pointers' PROVE MutexAt(q)'
    BY DEF MutexOK
  <2>1. CASE q = p
    BY <1>1, <1>2, <1>10, <2>1 DEF FoundFor, MutexAt
  <2>2. CASE q # p
    <3>1. q \in Pointers /\ Data(q)' = Data(q)
      BY <1>2, <2>2
    <3> QED  BY <1>4, <1>10, <3>1 DEF Inv, MutexOK, MutexAt
  <2> QED  BY <2>1, <2>2
<1>12. OwnedOK'
  <2> SUFFICES ASSUME NEW u \in Threads, NEW x \in Objects, locked[u][x] > 0
               PROVE  \E q \in Pointers' : /\ Data(q)'.object = x /\ Data(q)'.owner = u
                                           /\ \E n \in Nat : Holds(u, q, n)'
    BY DEF OwnedOK
  <2>1. PICK q \in Pointers, n \in Nat :
          Data(q).object = x /\ Data(q).owner = u /\ Holds(u, q, n)
    BY DEF Inv, OwnedOK
  <2>2. q \in Pointers' /\ Data(q)'.object = x /\ Data(q)'.owner = u
    BY <1>2, <2>1
  <2>3. ~(u = t /\ q = p)
    BY <1>2, <2>1
  <2>4. Holds(u, q, n)'
    BY <1>3, <1>4, <2>1, <2>3 DEF ItemsChange
  <2> QED  BY <2>2, <2>4
<1>13. ItemsOK'
  <2> SUFFICES ASSUME NEW u \in Threads
               PROVE  /\ Distinct(u)'
                      /\ \A q \in PointerType, m \in Nat : Holds(u, q, m)' =>
                           /\ q \in Pointers' /\ m > 0
                           /\ m >= locked[u][Data(q)'.object] + Locking(u, q)'
    BY DEF ItemsOK
  <2>1. Distinct(u)'
    BY <1>3 DEF ItemsChange
  <2>2. ASSUME NEW q \in PointerType, NEW m \in Nat, Holds(u, q, m)'
        PROVE  /\ q \in Pointers' /\ m > 0
               /\ m >= locked[u][Data(q)'.object] + Locking(u, q)'
    <3>1. CASE u = t /\ q = p
      <4>1. m = 1
        BY <1>3, <2>2, <3>1 DEF ItemsChange
      <4>2. locked[t][o] = 0
        <5>1. locked[t][o] \in Nat
          BY DEF Inv, TypeOK
        <5>2. ~(locked[t][o] > 0)
          <6>1. \A r \in Pointers, n \in Nat : Data(r).object = o => ~Holds(t, r, n)
            BY CachedFacts
          <6> QED  BY <6>1 DEF Inv, OwnedOK
        <5> QED  BY <5>1, <5>2
      <4>3. Locking(t, p)' = 1
        BY <1>6 DEF Locking
      <4> QED  BY <1>2, <3>1, <4>1, <4>2, <4>3
    <3>2. CASE ~(u = t /\ q = p)
      <4>1. Holds(u, q, m)
        BY <1>3, <2>2, <3>2 DEF ItemsChange
      <4>2. Locking(u, q)' = Locking(u, q)
        BY <1>5, <1>6, <3>2 DEF Locking
      <4>3. q \in Pointers /\ m > 0 /\ m >= locked[u][Data(q).object] + Locking(u, q)
        BY <2>2, <4>1 DEF Inv, ItemsOK
      <4>4. Data(q)'.object = Data(q).object
        BY <1>2, <4>1, <4>3
      <4> QED  BY <1>2, <4>2, <4>3, <4>4
    <3> QED  BY <3>1, <3>2
  <2> QED  BY <2>1, <2>2
<1>14. CountOK'
  <2> SUFFICES ASSUME NEW q \in Pointers'
               PROVE  /\ IsFiniteSet(Holders(q)')
                      /\ Cardinality(Holders(q)') <= Data(q)'.threadCount
    BY DEF CountOK
  <2>1. CASE q = p
    <3>1. Holders(p)' = Holders(p) \cup {t}
      BY <1>2, <1>3, HoldersChange
    <3>2. IsFiniteSet(Holders(p)) /\ Cardinality(Holders(p)) + 1 <= Data(p)'.threadCount
      BY <1>1 DEF FoundFor
    <3>3. t \notin Holders(p)
      BY <1>2 DEF Holders
    <3> QED  BY <2>1, <3>1, <3>2, <3>3, FS_AddElement
  <2>2. CASE q # p
    <3>1. q \in Pointers /\ Data(q)' = Data(q) /\ q \in PointerType
      BY <1>2, <1>4, <2>2
    <3>2. Holders(q)' = Holders(q)
      BY <1>2, <1>3, <2>2, <3>1, HoldersChange
    <3> QED  BY <3>1, <3>2 DEF Inv, CountOK
  <2> QED  BY <2>1, <2>2
<1>15. CallOK'
  <2>1. ASSUME NEW u \in Threads PROVE ThreadCallOK(u)'
    <3>1. CASE u = t
      <4>1. Holds(t, p, 1)'
        BY <1>2, <1>3 DEF ItemsChange
      <4> QED  BY <1>2, <1>6, <3>1, <4>1 DEF ThreadCallOK
    <3>2. CASE u # t
      <4>1. ThreadCallOK(u) /\ call'[u] = call[u]
        BY <1>5, <3>2 DEF Inv, CallOK
      <4>2. \A q \in Pointers, m \in Nat : Holds(u, q, m)' <=> Holds(u, q, m)
        BY <1>3, <1>4, <3>2 DEF ItemsChange
      <4>3. \A q \in Pointers : Data(q)'.owner = Data(q).owner
        BY <1>2
      <4>4. \A q \in Pointers, n \in Nat : Holds(u, q, n) => Data(q)'.object = Data(q).object
        BY <1>2
      <4> QED  BY <1>2, <4>1, <4>2, <4>3, <4>4 DEF ThreadCallOK
    <3> QED  BY <3>1, <3>2
  <2> QED  BY <2>1 DEF CallOK
<1> QED  BY <1>7, <1>8, <1>9, <1>11, <1>12, <1>13, <1>14, <1>15 DEF Inv

\* What the thread owns is the object's SyncData.
LEMMA OwnerFacts ==
  ASSUME Inv, NEW t \in Threads, NEW p \in Pointers, Idle(t)
  PROVE  Data(p).owner = t <=> locked[t][Data(p).object] > 0
<1>1. Data(p).object \in Objects /\ locked[t][Data(p).object] \in Nat
  <2>1. Data(p).object \in Objects
    BY PointerFacts DEF Inv, DataType
  <2>2. locked \in [Threads -> [Objects -> Nat]]
    BY DEF Inv, TypeOK
  <2> QED  BY <2>1, <2>2
<1>2. ASSUME locked[t][Data(p).object] > 0 PROVE Data(p).owner = t
  <2>1. PICK q \in Pointers : Data(q).object = Data(p).object /\ Data(q).owner = t
    BY <1>1, <1>2 DEF Inv, OwnedOK
  <2> QED  BY <2>1 DEF Inv, DataOK
<1>3. ASSUME Data(p).owner = t PROVE locked[t][Data(p).object] > 0
  <2>1. Pending(t, p) = 0
    BY DEF Pending, Unlocking, Idle, NoCall, Call
  <2>2. t # NoThread
    BY NoThreadAssumption
  <2>3. Data(p).depth = locked[t][Data(p).object] + Pending(t, p) /\ Data(p).depth > 0
    BY <1>3, <2>2 DEF Inv, MutexOK, MutexAt
  <2> QED  BY <1>1, <2>1, <2>3
<1> QED  BY <1>2, <1>3

LEMMA ExitCachedKeeps ==
  ASSUME Inv, NEW t \in Threads, NEW o \in Objects, NEW op \in {"exit", "exitNotOwning"},
         Idle(t), Cached(t, o), ExitCached(t, o, op), calls' \in [Threads -> Nat],
         IF op = "exit"
           THEN locked[t][o] > 0 /\ locked' = [locked EXCEPT ![t][o] = @ - 1]
           ELSE locked[t][o] = 0 /\ locked' = locked
  PROVE  Inv'
<1>1. PICK p \in Pointers, k \in Nat :
        /\ Holds(t, p, k) /\ Data(p).object = o /\ p \in PointerType
        /\ CachedItem(t, o).data = p /\ CachedItem(t, o).lockCount = k
  BY CachedFacts, PointerFacts DEF ItemType, Inv
<1>2. k > 0 /\ k >= locked[t][o] /\ locked[t][o] \in Nat
  <2>1. locked[t][o] \in Nat
    BY DEF Inv, TypeOK
  <2>2. k > 0 /\ k >= locked[t][o] + Locking(t, p)
    BY <1>1 DEF Inv, ItemsOK
  <2>3. Locking(t, p) = 0
    BY DEF Locking, Idle, NoCall, Call
  <2> QED  BY <2>1, <2>2, <2>3
<1> DEFINE n == k - 1
<1>3. n \in Nat /\ ItemsChange(t, p, n)
  <2>1. Recount(t, o, n)
    BY <1>1 DEF ExitCached, CountAfterExit
  <2>2. n \in Nat
    BY <1>2
  <2> HIDE DEF n
  <2> QED  BY <1>1, <2>1, <2>2, RecountFacts
<1>4. /\ call' = [call EXCEPT ![t] = Call(op, "unlock", o, p)]
      /\ fatal' = (fatal \/ BuggyItem(CachedItem(t, o)))
      /\ IF n = 0 THEN Set(p, [Data(p) EXCEPT !.threadCount = @ - 1]) ELSE UNCHANGED data
  BY <1>1 DEF ExitCached, CountAfterExit
<1>5. /\ call \in [Threads -> CallType] /\ call[t] = NoCall
      /\ call'[t] = Call(op, "unlock", o, p) /\ \A u \in Threads \ {t} : call'[u] = call[u]
  BY <1>4 DEF Inv, TypeOK, Idle
<1>6. /\ call[t].pc = "idle" /\ call[t].op = "none"
      /\ call'[t].pc = "unlock" /\ call'[t].op = op /\ call'[t].obj = o /\ call'[t].data = p
  BY <1>5 DEF NoCall, Call
<1>7. \A q \in Pointers : q \in PointerType /\ Data(q) \in DataType
  BY PointerFacts DEF Inv
<1>8. /\ data' \in [Lists -> Seq(DataType)] /\ Pointers' = Pointers
      /\ \A q \in Pointers :
           /\ Data(q)'.object = Data(q).object /\ Data(q)'.owner = Data(q).owner
           /\ Data(q)'.depth = Data(q).depth
           /\ Data(q)'.threadCount =
                IF q = p /\ n = 0 THEN Data(q).threadCount - 1 ELSE Data(q).threadCount
  <2>1. CASE n = 0
    <3> DEFINE d == [Data(p) EXCEPT !.threadCount = @ - 1]
    <3>1. Data(p).threadCount \in Nat /\ Data(p).threadCount > 0
      BY <1>1, CountedPositive
    <3>2. /\ d \in DataType /\ d.object = Data(p).object /\ d.owner = Data(p).owner
          /\ d.depth = Data(p).depth /\ d.threadCount = Data(p).threadCount - 1
      BY <1>1, <1>7, <3>1 DEF DataType
    <3>3. Set(p, d)
      BY <1>4, <2>1
    <3> HIDE DEF d
    <3>4. /\ data' \in [Lists -> Seq(DataType)] /\ Pointers' = Pointers /\ Data(p)' = d
          /\ \A q \in Pointers : q # p => Data(q)' = Data(q)
      BY <3>2, <3>3, SetFacts DEF Inv
    <3> QED  BY <2>1, <3>2, <3>4
  <2>2. CASE n # 0
    <3>1. data' = data
      BY <1>4, <2>2
    <3> HIDE DEF n
    <3> QED  BY <2>2, <3>1, DataKept DEF Inv, TypeOK
  <2> QED  BY <2>1, <2>2
<1>9. /\ locked' \in [Threads -> [Objects -> Nat]]
      /\ \A u \in Threads, x \in Objects :
           locked'[u][x] = IF u = t /\ x = o /\ op = "exit" THEN locked[t][o] - 1
                                                            ELSE locked[u][x]
  <2>1. locked \in [Threads -> [Objects -> Nat]]
    BY DEF Inv, TypeOK
  <2>2. CASE op = "exit"
    BY <1>2, <2>1, <2>2
  <2>3. CASE op # "exit"
    BY <2>1, <2>3
  <2> QED  BY <2>2, <2>3
<1>10. Data(p).owner = t <=> op = "exit"
  BY <1>1, <1>2, OwnerFacts
<1>11. ~fatal'
  <2>1. ~BuggyItem(CachedItem(t, o))
    BY <1>1, <1>2, CountedPositive DEF BuggyItem
  <2> QED  BY <1>4, <2>1 DEF Inv
<1> HIDE DEF n
<1>12. TypeOK'
  <2>1. Call(op, "unlock", o, p) \in CallType
    BY <1>1 DEF Call, CallType
  <2> QED  BY <1>3, <1>4, <1>8, <1>9, <1>11, <2>1 DEF Inv, TypeOK, ItemsChange
<1>13. DataOK'
  BY <1>8 DEF Inv, DataOK
<1>14. MutexOK'
  <2> SUFFICES ASSUME NEW q \in Pointers PROVE MutexAt(q)'
    BY <1>8 DEF MutexOK
  <2>1. MutexAt(q) /\ Data(q).owner \in Threads \cup {NoThread} /\ Data(q).object \in Objects
    BY <1>7 DEF Inv, MutexOK, DataType
  <2>2. CASE Data(q).owner # t
    <3>1. \A u \in Threads : u # t => Pending(u, q)' = Pending(u, q)
      BY <1>5 DEF Pending, Unlocking
    <3> QED  BY <1>8, <1>9, <2>1, <2>2, <3>1 DEF MutexAt
  <2>3. CASE Data(q).owner = t /\ q # p
    <3>1. Pending(t, q)' = Pending(t, q)
      BY <1>6, <2>3 DEF Pending, Unlocking
    <3>2. Data(q).object # o
      BY <1>1, <2>3 DEF Inv, DataOK
    <3> QED  BY <1>8, <1>9, <2>1, <2>3, <3>1, <3>2 DEF MutexAt
  <2>4. CASE Data(q).owner = t /\ q = p
    <3>1. op = "exit"
      BY <1>10, <2>4
    <3>2. Pending(t, p) = 0 /\ Pending(t, p)' = 1
      BY <1>6, <3>1 DEF Pending, Unlocking
    <3> QED  BY <1>1, <1>2, <1>8, <1>9, <2>1, <2>4, <3>1, <3>2 DEF MutexAt
  <2> QED  BY <2>2, <2>3, <2>4
<1>15. OwnedOK'
  <2> SUFFICES ASSUME NEW u \in Threads, NEW x \in Objects, locked'[u][x] > 0
               PROVE  \E q \in Pointers' : /\ Data(q)'.object = x /\ Data(q)'.owner = u
                                           /\ \E m \in Nat : Holds(u, q, m)'
    BY DEF OwnedOK
  <2>1. locked[u][x] > 0
    BY <1>2, <1>9
  <2>2. PICK q \in Pointers, m \in Nat :
          Data(q).object = x /\ Data(q).owner = u /\ Holds(u, q, m)
    BY <2>1 DEF Inv, OwnedOK
  <2>3. q \in Pointers' /\ Data(q)'.object = x /\ Data(q)'.owner = u
    BY <1>8, <2>2
  <2>4. CASE u = t /\ q = p
    <3>1. n # 0
      BY <1>1, <1>2, <1>9, <1>10, <2>2, <2>4 DEF n
    <3>2. Holds(t, p, n)'
      BY <1>1, <1>3, <3>1 DEF ItemsChange
    <3> QED  BY <1>3, <2>3, <2>4, <3>2
  <2>5. CASE ~(u = t /\ q = p)
    <3>1. Holds(u, q, m)'
      BY <1>3, <1>7, <2>2, <2>5 DEF ItemsChange
    <3> QED  BY <2>3, <3>1
  <2> QED  BY <2>4, <2>5
<1>16. ItemsOK'
  <2> SUFFICES ASSUME NEW u \in Threads
               PROVE  /\ Distinct(u)'
                      /\ \A q \in PointerType, m \in Nat : Holds(u, q, m)' =>
                           /\ q \in Pointers' /\ m > 0
                           /\ m >= locked'[u][Data(q)'.object] + Locking(u, q)'
    BY DEF ItemsOK
  <2>1. Distinct(u)'
    BY <1>3 DEF ItemsChange
  <2>2. ASSUME NEW q \in PointerType, NEW m \in Nat, Holds(u, q, m)'
        PROVE  /\ q \in Pointers' /\ m > 0
               /\ m >= locked'[u][Data(q)'.object] + Locking(u, q)'
    <3>1. CASE u = t /\ q = p
      <4>1. m = n /\ n # 0
        BY <1>3, <2>2, <3>1 DEF ItemsChange
      <4>2. Locking(t, p)' = 0
        BY <1>6 DEF Locking
      <4>3. n >= locked'[t][o]
        BY <1>2, <1>9 DEF n
      <4> QED  BY <1>1, <1>3, <1>8, <1>9, <3>1, <4>1, <4>2, <4>3
    <3>2. CASE ~(u = t /\ q = p)
      <4>1. Holds(u, q, m)
        BY <1>3, <2>2, <3>2 DEF ItemsChange
      <4>2. Locking(u, q)' <= Locking(u, q) /\ Locking(u, q)' \in {0, 1} /\ Locking(u, q) \in {0, 1}
        BY <1>5, <1>6, <3>2 DEF Locking
      <4>3. q \in Pointers /\ m > 0 /\ m >= locked[u][Data(q).object] + Locking(u, q)
        BY <2>2, <4>1 DEF Inv, ItemsOK
      <4>4. Data(q)'.object = Data(q).object /\ Data(q).object \in Objects
        BY <1>7, <1>8, <4>3 DEF DataType
      <4>5. locked[u][Data(q).object] \in Nat /\ locked'[u][Data(q).object] \in Nat
            /\ locked'[u][Data(q).object] <= locked[u][Data(q).object]
        <5>1. locked \in [Threads -> [Objects -> Nat]]
          BY DEF Inv, TypeOK
        <5> QED  BY <1>2, <1>9, <4>4, <5>1
      <4> QED  BY <1>8, <4>2, <4>3, <4>4, <4>5
    <3> QED  BY <3>1, <3>2
  <2> QED  BY <2>1, <2>2
<1>17. CountOK'
  <2> SUFFICES ASSUME NEW q \in Pointers
               PROVE  /\ IsFiniteSet(Holders(q)')
                      /\ Cardinality(Holders(q)') <= Data(q)'.threadCount
    BY <1>8 DEF CountOK
  <2>1. IsFiniteSet(Holders(q)) /\ Cardinality(Holders(q)) <= Data(q).threadCount
    BY DEF Inv, CountOK
  <2>2. Cardinality(Holders(q)) \in Nat /\ Data(q).threadCount \in Nat
    BY <1>7, <2>1, FS_CardinalityType DEF DataType
  <2>3. t \in Holders(p)
    BY <1>1 DEF Holders
  <2>4. Holders(p)' = IF n = 0 THEN Holders(p) \ {t} ELSE Holders(p) \cup {t}
    BY <1>1, <1>3, HoldersChange
  <2>5. CASE q # p
    <3>1. Holders(q)' = Holders(q)
      BY <1>1, <1>3, <1>7, <2>5, HoldersChange
    <3> QED  BY <1>8, <2>1, <2>5, <3>1
  <2>6. CASE q = p /\ n # 0
    <3>1. Holders(p)' = Holders(p)
      BY <2>3, <2>4, <2>6
    <3> QED  BY <1>8, <2>1, <2>6, <3>1
  <2>7. CASE q = p /\ n = 0
    <3>1. Holders(q)' = Holders(q) \ {t} /\ t \in Holders(q)
      BY <2>3, <2>4, <2>7
    <3>2. IsFiniteSet(Holders(q)') /\ Cardinality(Holders(q)') = Cardinality(Holders(q)) - 1
      BY <2>1, <3>1, FS_RemoveElement
    <3> QED  BY <1>8, <2>1, <2>2, <2>7, <3>2
  <2> QED  BY <2>5, <2>6, <2>7
<1>18. CallOK'
  <2>1. ASSUME NEW u \in Threads PROVE ThreadCallOK(u)'
    <3>1. CASE u = t
      BY <1>1, <1>6, <1>8, <1>10, <3>1 DEF ThreadCallOK
    <3>2. CASE u # t
      <4>1. ThreadCallOK(u) /\ call'[u] = call[u]
        BY <1>5, <3>2 DEF Inv, CallOK
      <4>2. \A q \in Pointers, m \in Nat : Holds(u, q, m)' <=> Holds(u, q, m)
        BY <1>3, <1>7, <3>2 DEF ItemsChange
      <4> QED  BY <1>8, <4>1, <4>2 DEF ThreadCallOK
    <3> QED  BY <3>1, <3>2
  <2> QED  BY <2>1 DEF CallOK
<1> QED  BY <1>11, <1>12, <1>13, <1>14, <1>15, <1>16, <1>17, <1>18 DEF Inv

\* A wrong exit of an object that is in no cache counts the thread only.
LEMMA ExitFindKeeps ==
  ASSUME Inv, NEW t \in Threads, NEW o \in Objects, Idle(t), ExitFind(t, o),
         UNCHANGED locked, calls' \in [Threads -> Nat]
  PROVE  Inv'
<1>1. UNCHANGED <<fast, cache, fatal, call, locked>>
  BY DEF ExitFind
<1>2. \A q \in Pointers : q \in PointerType /\ Data(q) \in DataType
  BY PointerFacts DEF Inv
<1>3. /\ data' \in [Lists -> Seq(DataType)] /\ Pointers' = Pointers
      /\ \A q \in Pointers :
           /\ Data(q)'.object = Data(q).object /\ Data(q)'.owner = Data(q).owner
           /\ Data(q)'.depth = Data(q).depth /\ Data(q)'.threadCount \in Nat
           /\ Data(q)'.threadCount >= Data(q).threadCount
  <2>1. CASE ForObject(ListOf[o], o) # {}
    <3>1. PICK p \in Pointers : Set(p, Counted(Data(p)))
      BY <2>1, ForObjectFacts DEF ExitFind
    <3> DEFINE d == Counted(Data(p))
    <3>2. /\ d \in DataType /\ d.object = Data(p).object /\ d.owner = Data(p).owner
          /\ d.depth = Data(p).depth /\ d.threadCount = Data(p).threadCount + 1
          /\ Data(p).threadCount \in Nat
      BY <1>2 DEF DataType, Counted
    <3> HIDE DEF d
    <3>3. /\ data' \in [Lists -> Seq(DataType)] /\ Pointers' = Pointers /\ Data(p)' = d
          /\ \A q \in Pointers : q # p => Data(q)' = Data(q)
      BY <3>1, <3>2, SetFacts DEF Inv, d
    <3>4. \A q \in Pointers : Data(q).threadCount \in Nat
      BY <1>2 DEF DataType
    <3> QED  BY <3>2, <3>3, <3>4
  <2>2. CASE ForObject(ListOf[o], o) = {}
    <3>1. data' = data
      BY <2>2 DEF ExitFind
    <3>2. \A q \in Pointers : Data(q).threadCount \in Nat
      BY <1>2 DEF DataType
    <3> QED  BY <3>1, <3>2, DataKept DEF Inv, TypeOK
  <2> QED  BY <2>1, <2>2
<1>4. \A u \in Threads : \A q, n : Holds(u, q, n)' <=> Holds(u, q, n)
  BY <1>1 DEF Holds
<1>5. TypeOK'
  BY <1>1, <1>3 DEF Inv, TypeOK
<1>6. DataOK'
  BY <1>3 DEF Inv, DataOK
<1>7. MutexOK'
  <2>1. \A u \in Threads : \A q : Pending(u, q)' = Pending(u, q)
    BY <1>1 DEF Pending, Unlocking
  <2>2. \A q \in Pointers : Data(q).owner \in Threads \cup {NoThread}
    BY <1>2 DEF DataType
  <2>3. ASSUME NEW q \in Pointers PROVE MutexAt(q)'
    <3>1. MutexAt(q)
      BY DEF Inv, MutexOK
    <3> QED  BY <1>1, <1>3, <2>1, <2>2, <3>1 DEF MutexAt
  <2> QED  BY <1>3, <2>3 DEF MutexOK
<1>8. OwnedOK'
  BY <1>1, <1>3, <1>4 DEF Inv, OwnedOK
<1>9. ItemsOK'
  <2>1. \A u \in Threads : Distinct(u)'
    BY <1>1 DEF Inv, ItemsOK, Distinct
  <2>2. \A u \in Threads : \A q : Locking(u, q)' = Locking(u, q)
    BY <1>1 DEF Locking
  <2> QED  BY <1>1, <1>3, <1>4, <2>1, <2>2 DEF Inv, ItemsOK
<1>10. CountOK'
  <2> SUFFICES ASSUME NEW q \in Pointers
               PROVE  /\ IsFiniteSet(Holders(q)')
                      /\ Cardinality(Holders(q)') <= Data(q)'.threadCount
    BY <1>3 DEF CountOK
  <2>1. IsFiniteSet(Holders(q)) /\ Cardinality(Holders(q)) <= Data(q).threadCount
    BY DEF Inv, CountOK
  <2>2. Cardinality(Holders(q)) \in Nat /\ Data(q).threadCount \in Nat
    BY <1>2, <2>1, FS_CardinalityType DEF DataType
  <2>3. Holders(q)' = Holders(q)
    BY <1>4 DEF Holders
  <2> QED  BY <1>3, <2>1, <2>2, <2>3
<1>11. CallOK'
  <2>1. ASSUME NEW u \in Threads PROVE ThreadCallOK(u)'
    <3>1. ThreadCallOK(u)
      BY DEF Inv, CallOK
    <3> QED  BY <1>1, <1>3, <1>4, <3>1 DEF ThreadCallOK
  <2> QED  BY <2>1 DEF CallOK
<1> QED  BY <1>1, <1>5, <1>6, <1>7, <1>8, <1>9, <1>10, <1>11 DEF Inv

\* A call ends without a change of a mutex, or a thread drops its items.
LEMMA QuietKeeps ==
  ASSUME Inv, NEW t \in Threads, UNCHANGED <<data, locked, fatal>>,
         calls' \in [Threads -> Nat],
         fast' = fast \/ fast' = [fast EXCEPT ![t] = <<>>],
         cache' = cache \/ cache' = [cache EXCEPT ![t] = <<>>],
         fast' # fast \/ cache' # cache =>
           Idle(t) /\ \A o \in Objects : locked[t][o] = 0,
         call' = call \/ (Done(t) /\ call[t].op # "exit")
  PROVE  Inv'
<1>1. Pointers' = Pointers /\ \A q : Data(q)' = Data(q)
  BY DataKept
<1>2. \A q \in Pointers : q \in PointerType /\ Data(q) \in DataType
  BY PointerFacts DEF Inv
<1>3. /\ fast' \in [Threads -> Seq(ItemType)] /\ cache' \in [Threads -> Seq(ItemType)]
      /\ \A u \in Threads \ {t} : fast'[u] = fast[u] /\ cache'[u] = cache[u]
      /\ fast'[t] \in {fast[t], <<>>} /\ cache'[t] \in {cache[t], <<>>}
  <2>1. fast \in [Threads -> Seq(ItemType)] /\ cache \in [Threads -> Seq(ItemType)]
    BY DEF Inv, TypeOK
  <2>2. <<>> \in Seq(ItemType)
    OBVIOUS
  <2> DEFINE Types == Seq(ItemType)
  <2> HIDE DEF Types
  <2>3. ASSUME NEW f \in [Threads -> Types], NEW g, g = f \/ g = [f EXCEPT ![t] = <<>>],
               <<>> \in Types
        PROVE  /\ g \in [Threads -> Types] /\ \A u \in Threads \ {t} : g[u] = f[u]
               /\ g[t] \in {f[t], <<>>}
    BY <2>3
  <2> USE DEF Types
  <2>4. /\ fast' \in [Threads -> Types] /\ \A u \in Threads \ {t} : fast'[u] = fast[u]
        /\ fast'[t] \in {fast[t], <<>>}
    BY <2>1, <2>2, <2>3
  <2>5. /\ cache' \in [Threads -> Types] /\ \A u \in Threads \ {t} : cache'[u] = cache[u]
        /\ cache'[t] \in {cache[t], <<>>}
    BY <2>1, <2>2, <2>3
  <2> QED  BY <2>4, <2>5
<1>4. \A u \in Threads : \A q, n : Holds(u, q, n)' => Holds(u, q, n)
  <2>1. DOMAIN <<>> = {}
    OBVIOUS
  <2>2. ASSUME NEW u \in Threads
        PROVE  /\ DOMAIN fast'[u] = {} \/ fast'[u] = fast[u]
               /\ DOMAIN cache'[u] = {} \/ cache'[u] = cache[u]
    <3>1. /\ fast'[u] = fast[u] \/ fast'[u] = <<>>
          /\ cache'[u] = cache[u] \/ cache'[u] = <<>>
      BY <1>3, <2>2
    <3> QED  BY <2>1, <3>1
  <2> QED  BY <2>2 DEF Holds
<1>5. ASSUME NEW u \in Threads, NEW q, NEW n, Holds(u, q, n), ~Holds(u, q, n)'
      PROVE  u = t /\ Idle(t) /\ \A o \in Objects : locked[t][o] = 0
  <2>1. fast' # fast \/ cache' # cache
    BY <1>5 DEF Holds
  <2> QED  BY <1>3, <1>5, <2>1 DEF Holds
<1>6. /\ call' \in [Threads -> CallType]
      /\ \A u \in Threads : u # t => call'[u] = call[u]
      /\ call'[t] = call[t] \/ (call'[t] = NoCall /\ call[t].op # "exit")
  <2>1. NoCall \in CallType
    BY DEF NoCall, Call, CallType
  <2> QED  BY <2>1 DEF Inv, TypeOK, Done
<1>7. TypeOK'
  BY <1>3, <1>6 DEF Inv, TypeOK
<1>8. DataOK'
  BY <1>1 DEF Inv, DataOK
<1>9. MutexOK'
  <2>1. \A u \in Threads : \A q : Pending(u, q)' = Pending(u, q)
    BY <1>6 DEF Pending, Unlocking, NoCall, Call
  <2>2. \A q \in Pointers : Data(q).owner \in Threads \cup {NoThread}
    BY <1>2 DEF DataType
  <2>3. ASSUME NEW q \in Pointers PROVE MutexAt(q)'
    <3>1. MutexAt(q)
      BY DEF Inv, MutexOK
    <3> QED  BY <1>1, <2>1, <2>2, <3>1 DEF MutexAt
  <2> QED  BY <1>1, <2>3 DEF MutexOK
<1>10. OwnedOK'
  <2> SUFFICES ASSUME NEW u \in Threads, NEW x \in Objects, locked[u][x] > 0
               PROVE  \E q \in Pointers : /\ Data(q).object = x /\ Data(q).owner = u
                                          /\ \E n \in Nat : Holds(u, q, n)'
    BY <1>1 DEF OwnedOK
  <2>1. PICK q \in Pointers, n \in Nat :
          Data(q).object = x /\ Data(q).owner = u /\ Holds(u, q, n)
    BY DEF Inv, OwnedOK
  <2>2. Holds(u, q, n)'
    BY <1>5, <2>1
  <2> QED  BY <2>1, <2>2
<1>11. ItemsOK'
  <2>1. ASSUME NEW u \in Threads PROVE Distinct(u)'
    <3>1. Distinct(u)
      BY DEF Inv, ItemsOK
    <3>2. /\ DOMAIN fast'[u] = {} \/ fast'[u] = fast[u]
          /\ DOMAIN cache'[u] = {} \/ cache'[u] = cache[u]
          /\ Len(fast'[u]) <= 1
      BY <1>3, <3>1 DEF Distinct
    <3> QED  BY <3>1, <3>2 DEF Distinct
  <2>2. ASSUME NEW u \in Threads, NEW q \in PointerType, NEW n \in Nat, Holds(u, q, n)'
        PROVE  q \in Pointers /\ n > 0 /\ n >= locked[u][Data(q).object] + Locking(u, q)'
    <3>1. q \in Pointers /\ n > 0 /\ n >= locked[u][Data(q).object] + Locking(u, q)
      BY <1>4, <2>2 DEF Inv, ItemsOK
    <3>2. Locking(u, q)' <= Locking(u, q) /\ Locking(u, q)' \in {0, 1} /\ Locking(u, q) \in {0, 1}
      BY <1>6 DEF Locking, NoCall, Call
    <3>3. locked[u][Data(q).object] \in Nat
      <4>1. locked \in [Threads -> [Objects -> Nat]] /\ Data(q).object \in Objects
        BY <1>2, <3>1 DEF Inv, TypeOK, DataType
      <4> QED  BY <4>1
    <3> QED  BY <3>1, <3>2, <3>3
  <2> QED  BY <1>1, <2>1, <2>2 DEF ItemsOK
<1>12. CountOK'
  <2> SUFFICES ASSUME NEW q \in Pointers
               PROVE  /\ IsFiniteSet(Holders(q)')
                      /\ Cardinality(Holders(q)') <= Data(q).threadCount
    BY <1>1 DEF CountOK
  <2>1. IsFiniteSet(Holders(q)) /\ Cardinality(Holders(q)) <= Data(q).threadCount
    BY DEF Inv, CountOK
  <2>2. Holders(q)' \subseteq Holders(q)
    BY <1>4 DEF Holders
  <2>3. IsFiniteSet(Holders(q)') /\ Cardinality(Holders(q)') <= Cardinality(Holders(q))
    BY <2>1, <2>2, FS_Subset
  <2>4. /\ Cardinality(Holders(q)) \in Nat /\ Cardinality(Holders(q)') \in Nat
        /\ Data(q).threadCount \in Nat
    BY <1>2, <2>1, <2>3, FS_CardinalityType DEF DataType
  <2> QED  BY <2>1, <2>3, <2>4
<1>13. CallOK'
  <2>1. ASSUME NEW u \in Threads PROVE ThreadCallOK(u)'
    <3>1. ThreadCallOK(u)
      BY DEF Inv, CallOK
    <3>2. CASE call'[u] = NoCall
      BY <3>2 DEF ThreadCallOK, NoCall, Call
    <3>3. CASE call'[u] = call[u]
      <4>1. call[u].pc = "lock" => \A q, n : Holds(u, q, n) => Holds(u, q, n)'
        BY <1>5 DEF Idle, NoCall, Call
      <4> QED  BY <1>1, <3>1, <3>3, <4>1 DEF ThreadCallOK
    <3> QED  BY <1>6, <3>2, <3>3
  <2> QED  BY <2>1 DEF CallOK
<1> QED  BY <1>7, <1>8, <1>9, <1>10, <1>11, <1>12, <1>13 DEF Inv

\* The operation on a mutex that ends a call.
LEMMA MutexStepKeeps ==
  ASSUME Inv, NEW t \in Threads, NEW p \in Pointers, NEW d \in DataType, NEW m \in Nat,
         call[t].data = p, Set(p, d), Done(t), UNCHANGED <<fast, cache, fatal, calls>>,
         d.object = Data(p).object, d.threadCount = Data(p).threadCount,
         Data(p).owner \in {NoThread, t}, d.owner = IF m = 0 THEN NoThread ELSE t,
         d.depth = m, locked' = [locked EXCEPT ![t][Data(p).object] = m],
         m <= locked[t][Data(p).object] + Locking(t, p),
         m > 0 => \E n \in Nat : Holds(t, p, n)
  PROVE  Inv'
<1>1. \A q \in Pointers :
        /\ q \in PointerType /\ Data(q) \in DataType /\ Data(q).object \in Objects
        /\ Data(q).owner \in Threads \cup {NoThread}
  BY PointerFacts DEF Inv, DataType
<1>2. PICK o \in Objects : o = Data(p).object
  BY <1>1
<1>3. /\ data' \in [Lists -> Seq(DataType)] /\ Pointers' = Pointers /\ Data(p)' = d
      /\ \A q \in Pointers : q # p => Data(q)' = Data(q)
  BY SetFacts DEF Inv
<1>4. /\ locked \in [Threads -> [Objects -> Nat]] /\ locked' \in [Threads -> [Objects -> Nat]]
      /\ \A u \in Threads, x \in Objects :
           locked'[u][x] = IF u = t /\ x = o THEN m ELSE locked[u][x]
  <2>1. locked \in [Threads -> [Objects -> Nat]]
    BY DEF Inv, TypeOK
  <2> QED  BY <1>2, <2>1
<1>5. /\ call' \in [Threads -> CallType] /\ call'[t] = NoCall
      /\ \A u \in Threads : u # t => call'[u] = call[u]
  <2>1. NoCall \in CallType
    BY DEF NoCall, Call, CallType
  <2> QED  BY <2>1 DEF Inv, TypeOK, Done
<1>6. \A u, q, n : Holds(u, q, n)' <=> Holds(u, q, n)
  BY DEF Holds
<1>7. \A q \in Pointers : q # p => Data(q).object # o
  BY <1>2 DEF Inv, DataOK
<1>8. t # NoThread
  BY NoThreadAssumption
<1>9. TypeOK'
  BY <1>3, <1>4, <1>5 DEF Inv, TypeOK
<1>10. DataOK'
  <2>1. ASSUME NEW q \in Pointers PROVE Data(q)'.object = Data(q).object
    <3>1. CASE q = p
      BY <1>3, <3>1
    <3>2. CASE q # p
      BY <1>3, <3>2
    <3> QED  BY <3>1, <3>2
  <2>2. DataOK
    BY DEF Inv
  <2>3. \A q \in Pointers : ListOf[Data(q)'.object] = q[1]
    BY <2>1, <2>2 DEF DataOK
  <2>4. \A q, r \in Pointers : Data(q)'.object = Data(r)'.object => q = r
    BY <2>1, <2>2 DEF DataOK
  <2> QED  BY <1>3, <2>3, <2>4 DEF DataOK
<1>11. MutexOK'
  <2>1. ASSUME NEW q \in Pointers PROVE MutexAt(q)'
    <3>1. CASE q = p
      <4>1. Pending(t, p)' = 0
        BY <1>5 DEF Pending, Unlocking, NoCall, Call
      <4> QED  BY <1>2, <1>3, <1>4, <1>8, <3>1, <4>1 DEF MutexAt
    <3>2. CASE q # p
      <4>1. MutexAt(q) /\ Data(q)' = Data(q)
        BY <1>3, <2>1, <3>2 DEF Inv, MutexOK
      <4>2. \A u \in Threads : Pending(u, q)' = Pending(u, q)
        BY <1>5, <3>2 DEF Pending, Unlocking, NoCall, Call
      <4>3. \A u \in Threads : locked'[u][Data(q).object] = locked[u][Data(q).object]
        BY <1>1, <1>4, <1>7, <2>1, <3>2
      <4>4. Data(q).owner \in Threads \cup {NoThread}
        BY <1>1, <2>1
      <4> QED  BY <4>1, <4>2, <4>3, <4>4 DEF MutexAt
    <3> QED  BY <3>1, <3>2
  <2> QED  BY <1>3, <2>1 DEF MutexOK
<1>12. OwnedOK'
  <2> SUFFICES ASSUME NEW u \in Threads, NEW x \in Objects, locked'[u][x] > 0
               PROVE  \E q \in Pointers : /\ Data(q)'.object = x /\ Data(q)'.owner = u
                                          /\ \E n \in Nat : Holds(u, q, n)
    BY <1>3, <1>6 DEF OwnedOK
  <2>1. CASE u = t /\ x = o
    <3>1. m > 0
      BY <1>4, <2>1
    <3>2. d.object = o /\ d.owner = t
      BY <1>2, <3>1
    <3> QED  BY <1>3, <2>1, <3>1, <3>2
  <2>2. CASE ~(u = t /\ x = o)
    <3>1. PICK q \in Pointers :
            Data(q).object = x /\ Data(q).owner = u /\ \E n \in Nat : Holds(u, q, n)
      BY <1>4, <2>2 DEF Inv, OwnedOK
    <3>2. q # p
      BY <1>2, <2>2, <3>1, NoThreadAssumption
    <3> QED  BY <1>3, <3>1, <3>2
  <2> QED  BY <2>1, <2>2
<1>13. ItemsOK'
  <2>1. \A u \in Threads : Distinct(u)'
    BY DEF Inv, ItemsOK, Distinct
  <2>2. ASSUME NEW u \in Threads, NEW q \in PointerType, NEW n \in Nat, Holds(u, q, n)
        PROVE  /\ q \in Pointers /\ n > 0
               /\ n >= locked'[u][Data(q)'.object] + Locking(u, q)'
    <3>1. q \in Pointers /\ n > 0 /\ n >= locked[u][Data(q).object] + Locking(u, q)
      BY <2>2 DEF Inv, ItemsOK
    <3>2. Data(q)'.object = Data(q).object /\ Data(q).object \in Objects
      BY <1>1, <1>3, <3>1
    <3>3. Locking(u, q) \in {0, 1} /\ Locking(u, q)' \in {0, 1} /\ Locking(t, q)' = 0
      BY <1>5 DEF Locking, NoCall, Call
    <3>4. CASE u = t /\ q = p
      BY <1>2, <1>4, <3>1, <3>2, <3>3, <3>4
    <3>5. CASE u = t /\ q # p
      <4>1. locked'[u][Data(q).object] = locked[u][Data(q).object]
        BY <1>4, <1>7, <3>1, <3>2, <3>5
      <4>2. locked[u][Data(q).object] \in Nat
        BY <1>4, <3>2
      <4> QED  BY <3>1, <3>2, <3>3, <3>5, <4>1, <4>2
    <3>6. CASE u # t
      <4>1. Locking(u, q)' = Locking(u, q)
        BY <1>5, <3>6 DEF Locking
      <4>2. locked'[u][Data(q).object] = locked[u][Data(q).object]
        BY <1>4, <3>2, <3>6
      <4> QED  BY <3>1, <3>2, <4>1, <4>2
    <3> QED  BY <3>4, <3>5, <3>6
  <2> QED  BY <1>3, <1>6, <2>1, <2>2 DEF ItemsOK
<1>14. CountOK'
  <2>1. \A q : Holders(q)' = Holders(q)
    BY <1>6 DEF Holders
  <2>2. \A q \in Pointers : Data(q)'.threadCount = Data(q).threadCount
    BY <1>3
  <2> QED  BY <1>3, <2>1, <2>2 DEF Inv, CountOK
<1>15. CallOK'
  <2>1. ASSUME NEW u \in Threads PROVE ThreadCallOK(u)'
    <3>1. ThreadCallOK(u)
      BY DEF Inv, CallOK
    <3>2. CASE u = t
      BY <1>5, <3>2 DEF ThreadCallOK, NoCall, Call
    <3>3. CASE u # t
      <4>1. \A q \in Pointers : /\ Data(q)'.object = Data(q).object
                                /\ Data(q)'.owner = u <=> Data(q).owner = u
        BY <1>3, <3>3, NoThreadAssumption
      <4> QED  BY <1>3, <1>5, <1>6, <3>1, <3>3, <4>1 DEF ThreadCallOK
    <3> QED  BY <3>2, <3>3
  <2> QED  BY <2>1 DEF CallOK
<1> QED  BY <1>9, <1>10, <1>11, <1>12, <1>13, <1>14, <1>15 DEF Inv

LEMMA LockKeeps ==
  ASSUME Inv, NEW t \in Threads, Lock(t)
  PROVE  Inv'
<1>1. ThreadCallOK(t) /\ call[t].pc = "lock"
  BY DEF Inv, CallOK, Lock, At
<1>2. PICK p \in Pointers : p = call[t].data
  BY <1>1 DEF ThreadCallOK
<1>3. /\ call[t].op \in {"enter", "tryEnter"} /\ Data(p).object = call[t].obj
      /\ \E n \in Nat : Holds(t, p, n)
  BY <1>1, <1>2 DEF ThreadCallOK
<1>4. /\ Data(p) \in DataType /\ Data(p).object \in Objects /\ Data(p).depth \in Nat
  BY PointerFacts DEF Inv, DataType
<1>5. PICK o \in Objects : o = Data(p).object
  BY <1>4
<1>6. Data(p).owner \in {NoThread, t} /\ t # NoThread
  BY <1>2, NoThreadAssumption DEF Lock, Free
<1>7. locked \in [Threads -> [Objects -> Nat]]
  BY DEF Inv, TypeOK
<1>8. Data(p).depth = locked[t][o]
  <2>1. MutexAt(p)
    BY DEF Inv, MutexOK
  <2>2. CASE Data(p).owner = t
    <3>1. Pending(t, p) = 0
      BY <1>3 DEF Pending, Unlocking
    <3>2. locked[t][o] \in Nat
      BY <1>7
    <3> QED  BY <1>5, <1>6, <2>1, <2>2, <3>1, <3>2 DEF MutexAt
  <2>3. CASE Data(p).owner = NoThread
    <3>1. ASSUME locked[t][o] > 0 PROVE FALSE
      <4>1. PICK q \in Pointers : Data(q).object = o /\ Data(q).owner = t
        BY <3>1 DEF Inv, OwnedOK
      <4>2. q = p
        BY <1>5, <4>1 DEF Inv, DataOK
      <4> QED  BY <1>6, <2>3, <4>1, <4>2
    <3>2. locked[t][o] = 0
      BY <1>7, <3>1
    <3> QED  BY <2>1, <2>3, <3>2 DEF MutexAt
  <2> QED  BY <1>6, <2>2, <2>3
<1> DEFINE m == locked[t][o] + 1
           d == [Data(p) EXCEPT !.owner = t, !.depth = m]
<1>9. m \in Nat /\ m > 0
  BY <1>7
<1>10. /\ d \in DataType /\ d.object = Data(p).object /\ d.threadCount = Data(p).threadCount
       /\ d.owner = t /\ d.depth = m
  <2>1. d = [Data(p) EXCEPT !.owner = t, !.depth = m] /\ t \in Threads \cup {NoThread}
    OBVIOUS
  <2> HIDE DEF d, m
  <2> QED  BY <1>4, <1>9, <2>1 DEF DataType
<1>11. Set(p, d) /\ locked' = [locked EXCEPT ![t][o] = m]
  <2>1. d = [Data(p) EXCEPT !.owner = t, !.depth = Data(p).depth + 1]
    BY <1>8
  <2> HIDE DEF d
  <2> QED  BY <1>2, <1>3, <1>5, <1>7, <2>1 DEF Lock
<1>12. Done(t) /\ UNCHANGED <<fast, cache, fatal, calls>>
  BY DEF Lock
<1>13. Locking(t, p) = 1
  BY <1>1, <1>2 DEF Locking
<1>14. m <= locked[t][Data(p).object] + Locking(t, p)
  BY <1>5, <1>9, <1>13
<1>15. d.owner = (IF m = 0 THEN NoThread ELSE t)
  BY <1>9, <1>10
<1>16. locked' = [locked EXCEPT ![t][Data(p).object] = m]
  BY <1>5, <1>11
<1> HIDE DEF d, m
<1> QED  BY <1>2, <1>3, <1>6, <1>9, <1>10, <1>11, <1>12, <1>14, <1>15, <1>16, MutexStepKeeps

LEMMA TryUnlockKeeps ==
  ASSUME Inv, NEW t \in Threads, TryUnlock(t)
  PROVE  Inv'
<1>1. ThreadCallOK(t) /\ call[t].pc = "unlock"
  BY DEF Inv, CallOK, TryUnlock, At
<1>2. PICK p \in Pointers : p = call[t].data
  BY <1>1 DEF ThreadCallOK
<1>3. call[t].op \in {"exit", "exitNotOwning"} /\ Data(p).owner = t <=> call[t].op = "exit"
  BY <1>1, <1>2 DEF ThreadCallOK
<1>4. Done(t) /\ UNCHANGED <<fast, cache, locked, fatal, calls>>
  BY DEF TryUnlock
<1>5. CASE Data(p).owner # t
  <2>1. call[t].op # "exit" /\ data' = data
    BY <1>1, <1>2, <1>5 DEF TryUnlock, ThreadCallOK
  <2>2. calls' \in [Threads -> Nat]
    BY <1>4 DEF Inv, TypeOK
  <2> QED  BY <1>4, <2>1, <2>2, QuietKeeps
<1>6. CASE Data(p).owner = t
  <2>1. call[t].op = "exit"
    BY <1>1, <1>2, <1>6 DEF ThreadCallOK
  <2>2. /\ Data(p) \in DataType /\ Data(p).object \in Objects /\ Data(p).depth \in Nat
    BY PointerFacts DEF Inv, DataType
  <2>3. PICK o \in Objects : o = Data(p).object
    BY <2>2
  <2>4. locked \in [Threads -> [Objects -> Nat]] /\ locked[t][o] \in Nat
    BY DEF Inv, TypeOK
  <2>5. t # NoThread
    BY NoThreadAssumption
  <2> DEFINE m == locked[t][o]
  <2>6. Data(p).depth = m + 1
    <3>1. Pending(t, p) = 1
      BY <1>2, <2>1 DEF Pending, Unlocking
    <3>2. MutexAt(p)
      BY DEF Inv, MutexOK
    <3> QED  BY <1>6, <2>3, <2>5, <3>1, <3>2 DEF MutexAt
  <2> DEFINE x == IF m = 0 THEN NoThread ELSE t
             d == [Data(p) EXCEPT !.owner = x, !.depth = m]
  <2>7. Set(p, d)
    <3>1. Data(p).depth - 1 = m /\ x = IF Data(p).depth = 1 THEN NoThread ELSE Data(p).owner
      BY <1>6, <2>4, <2>6
    <3>2. Set(p, [Data(p) EXCEPT !.depth = Data(p).depth - 1,
                                 !.owner = IF Data(p).depth = 1 THEN NoThread ELSE Data(p).owner])
      BY <1>2, <1>6 DEF TryUnlock
    <3>3. d = [Data(p) EXCEPT !.depth = m, !.owner = x]
      BY <2>2 DEF DataType
    <3> HIDE DEF d, m, x
    <3> QED  BY <3>1, <3>2, <3>3
  <2>8. /\ d \in DataType /\ d.object = Data(p).object /\ d.threadCount = Data(p).threadCount
        /\ d.owner = (IF m = 0 THEN NoThread ELSE t) /\ d.depth = m
    <3>1. x \in Threads \cup {NoThread} /\ m \in Nat
      BY <2>4
    <3> HIDE DEF m, x
    <3>3. d = [Data(p) EXCEPT !.owner = x, !.depth = m]
      OBVIOUS
    <3> HIDE DEF d
    <3>2. /\ d \in DataType /\ d.object = Data(p).object /\ d.depth = m
          /\ d.threadCount = Data(p).threadCount /\ d.owner = x
      BY <2>2, <3>1, <3>3 DEF DataType
    <3> USE DEF x
    <3> QED  BY <3>2
  <2>9. locked' = [locked EXCEPT ![t][Data(p).object] = m]
    BY <1>4, <2>3, <2>4
  <2>10. m <= locked[t][Data(p).object] + Locking(t, p)
    <3>1. Locking(t, p) = 0
      BY <1>1 DEF Locking
    <3> QED  BY <2>3, <2>4, <3>1
  <2>11. m > 0 => \E n \in Nat : Holds(t, p, n)
    <3>1. ASSUME m > 0 PROVE \E n \in Nat : Holds(t, p, n)
      <4>1. PICK q \in Pointers : Data(q).object = o /\ \E n \in Nat : Holds(t, q, n)
        BY <3>1 DEF Inv, OwnedOK
      <4>2. q = p
        BY <2>3, <4>1 DEF Inv, DataOK
      <4> QED  BY <4>1, <4>2
    <3> QED  BY <3>1
  <2>12. m \in Nat /\ Data(p).owner \in {NoThread, t}
    BY <1>6, <2>4
  <2> HIDE DEF d, m
  <2> QED  BY <1>2, <1>4, <2>7, <2>8, <2>9, <2>10, <2>11, <2>12, MutexStepKeeps
<1> QED  BY <1>5, <1>6

LEMMA EnterKeeps ==
  ASSUME Inv, NEW t \in Threads, NEW o \in Objects, NEW op \in {"enter", "tryEnter"},
         Enter(t, o, op)
  PROVE  Inv'
<1>1. /\ Idle(t) /\ UNCHANGED locked
      /\ IF Cached(t, o) THEN EnterCached(t, o, op) ELSE EnterFind(t, o, op)
  BY DEF Enter
<1>2. calls' \in [Threads -> Nat]
  <2>1. calls \in [Threads -> Nat] /\ calls[t] > 0 /\ calls' = [calls EXCEPT ![t] = @ - 1]
    BY DEF Inv, TypeOK, Enter
  <2> QED  BY <2>1
<1>3. CASE Cached(t, o)
  BY <1>1, <1>2, <1>3, EnterCachedKeeps
<1>4. CASE ~Cached(t, o)
  BY <1>1, <1>2, <1>4, EnterFindKeeps
<1> QED  BY <1>3, <1>4

\* A thread has an item for what it has locked.
LEMMA LockedCached ==
  ASSUME Inv, NEW t \in Threads, NEW o \in Objects, locked[t][o] > 0
  PROVE  Cached(t, o)
<1>1. PICK p \in Pointers, n \in Nat : Data(p).object = o /\ Holds(t, p, n)
  BY DEF Inv, OwnedOK
<1>2. CASE \E i \in DOMAIN fast[t] : fast[t][i].data = p
  BY <1>1, <1>2 DEF Cached, FastFor
<1>3. CASE \E i \in DOMAIN cache[t] : cache[t][i].data = p
  BY <1>1, <1>3 DEF Cached, CacheFor
<1> QED  BY <1>1, <1>2, <1>3 DEF Holds

LEMMA ExitKeeps ==
  ASSUME Inv, NEW t \in Threads, NEW o \in Objects, Exit(t, o)
  PROVE  Inv'
<1>1. /\ Idle(t) /\ locked[t][o] > 0 /\ locked' = [locked EXCEPT ![t][o] = @ - 1]
      /\ ExitCall(t, o, "exit") /\ UNCHANGED calls
  BY DEF Exit
<1>2. Cached(t, o) /\ ExitCached(t, o, "exit")
  BY <1>1, LockedCached DEF ExitCall
<1>3. calls' \in [Threads -> Nat]
  BY <1>1 DEF Inv, TypeOK
<1> QED  BY <1>1, <1>2, <1>3, ExitCachedKeeps

LEMMA ExitNotOwningKeeps ==
  ASSUME Inv, NEW t \in Threads, NEW o \in Objects, ExitNotOwning(t, o)
  PROVE  Inv'
<1>1. /\ Idle(t) /\ locked[t][o] = 0 /\ locked' = locked
      /\ ExitCall(t, o, "exitNotOwning")
  BY DEF ExitNotOwning
<1>2. calls' \in [Threads -> Nat]
  <2>1. /\ calls \in [Threads -> Nat] /\ calls[t] > 0
        /\ calls' = [calls EXCEPT ![t] = @ - 1]
    BY DEF Inv, TypeOK, ExitNotOwning
  <2> QED  BY <2>1
<1>3. CASE Cached(t, o)
  BY <1>1, <1>2, <1>3, ExitCachedKeeps DEF ExitCall
<1>4. CASE ~Cached(t, o)
  BY <1>1, <1>2, <1>4, ExitFindKeeps DEF ExitCall
<1> QED  BY <1>3, <1>4

LEMMA ThreadExitKeeps ==
  ASSUME Inv, NEW t \in Threads, ThreadExit(t)
  PROVE  Inv'
<1>1. /\ Idle(t) /\ \A o \in Objects : locked[t][o] = 0
      /\ fast' = [fast EXCEPT ![t] = <<>>] /\ cache' = [cache EXCEPT ![t] = <<>>]
      /\ UNCHANGED <<data, call, locked, fatal>>
  BY DEF ThreadExit
<1>2. calls' \in [Threads -> Nat]
  <2>1. /\ calls \in [Threads -> Nat] /\ calls[t] > 0
        /\ calls' = [calls EXCEPT ![t] = @ - 1]
    BY DEF Inv, TypeOK, ThreadExit
  <2> QED  BY <2>1
<1> QED  BY <1>1, <1>2, QuietKeeps

LEMMA TryLockFailsKeeps ==
  ASSUME Inv, NEW t \in Threads, TryLockFails(t)
  PROVE  Inv'
<1>1. /\ Done(t) /\ call[t].op # "exit"
      /\ UNCHANGED <<data, fast, cache, locked, fatal, calls>>
  BY DEF TryLockFails
<1>2. calls' \in [Threads -> Nat]
  BY <1>1 DEF Inv, TypeOK
<1> QED  BY <1>1, <1>2, QuietKeeps

(***************************************************************************)
(* The invariant, and what it implies.                                     *)
(***************************************************************************)
LEMMA InitInv == Init => Inv
<1> SUFFICES ASSUME Init PROVE Inv
  OBVIOUS
<1>1. /\ data = [s \in Lists |-> <<>>] /\ fast = [t \in Threads |-> <<>>]
      /\ cache = [t \in Threads |-> <<>>] /\ call = [t \in Threads |-> NoCall]
      /\ locked = [t \in Threads |-> [o \in Objects |-> 0]]
      /\ fatal = FALSE /\ calls \in [Threads -> Nat]
  BY MaxCallsAssumption DEF Init, NoCalls
<1>2. DOMAIN <<>> = {} /\ Len(<<>>) = 0
  OBVIOUS
<1>3. /\ \A s \in Lists : DOMAIN data[s] = {}
      /\ \A t \in Threads : DOMAIN fast[t] = {} /\ DOMAIN cache[t] = {} /\ Len(fast[t]) = 0
  BY <1>1, <1>2
<1>4. Pointers = {}
  BY <1>3 DEF Pointers
<1>5. \A t \in Threads : \A p, n : ~Holds(t, p, n)
  BY <1>3 DEF Holds
<1>6. TypeOK
  <2>1. <<>> \in Seq(DataType) /\ <<>> \in Seq(ItemType)
    OBVIOUS
  <2>2. NoCall \in CallType
    BY DEF NoCall, Call, CallType
  <2>3. data \in [Lists -> Seq(DataType)]
    BY <1>1, <2>1
  <2>4. fast \in [Threads -> Seq(ItemType)] /\ cache \in [Threads -> Seq(ItemType)]
    BY <1>1, <2>1
  <2>5. call \in [Threads -> CallType]
    BY <1>1, <2>2
  <2> QED  BY <1>1, <2>3, <2>4, <2>5 DEF TypeOK
<1>7. DataOK /\ MutexOK /\ CountOK
  BY <1>4 DEF DataOK, MutexOK, CountOK
<1>8. OwnedOK
  BY <1>1 DEF OwnedOK
<1>9. ItemsOK
  BY <1>3, <1>5 DEF ItemsOK, Distinct
<1>10. CallOK
  BY <1>1 DEF CallOK, ThreadCallOK, NoCall, Call
<1> QED  BY <1>1, <1>6, <1>7, <1>8, <1>9, <1>10 DEF Inv

LEMMA NextKeeps == Inv /\ [Next]_vars => Inv'
<1> SUFFICES ASSUME Inv, [Next]_vars PROVE Inv'
  OBVIOUS
<1>1. ASSUME NEW t \in Threads, Start(t) PROVE Inv'
  BY <1>1, EnterKeeps, ExitNotOwningKeeps, ThreadExitKeeps DEF Start
<1>2. ASSUME NEW t \in Threads, Continue(t) PROVE Inv'
  BY <1>2, LockKeeps, TryLockFailsKeeps, TryUnlockKeeps DEF Continue
<1>3. ASSUME NEW t \in Threads, Leave(t) PROVE Inv'
  BY <1>3, ExitKeeps DEF Leave
<1>4. ASSUME UNCHANGED vars PROVE Inv'
  <2>1. UNCHANGED data /\ UNCHANGED fast /\ UNCHANGED cache /\ UNCHANGED call
        /\ UNCHANGED locked /\ UNCHANGED fatal /\ UNCHANGED calls
    BY <1>4 DEF vars
  <2>3. Pointers' = Pointers /\ \A p : Data(p)' = Data(p)
    BY <2>1, DataKept
  <2>4. \A t, p, n : Holds(t, p, n)' <=> Holds(t, p, n)
    BY <2>1 DEF Holds
  <2>5. \A t, p : Pending(t, p)' = Pending(t, p) /\ Locking(t, p)' = Locking(t, p)
    BY <2>1 DEF Pending, Unlocking, Locking
  <2>6. TypeOK' /\ DataOK' /\ OwnedOK'
    BY <2>1, <2>3, <2>4 DEF Inv, TypeOK, DataOK, OwnedOK
  <2>7. MutexOK'
    BY <2>1, <2>3, <2>5 DEF Inv, MutexOK, MutexAt
  <2>8. ItemsOK'
    <3>1. \A t \in Threads : Distinct(t)'
      BY <2>1 DEF Inv, ItemsOK, Distinct
    <3> QED  BY <2>1, <2>3, <2>4, <2>5, <3>1 DEF Inv, ItemsOK
  <2>9. CountOK'
    <3>1. \A p : Holders(p)' = Holders(p)
      BY <2>4 DEF Holders
    <3> QED  BY <2>3, <3>1 DEF Inv, CountOK
  <2>10. CallOK'
    BY <2>1, <2>3, <2>4 DEF Inv, CallOK, ThreadCallOK
  <2> QED  BY <2>1, <2>6, <2>7, <2>8, <2>9, <2>10 DEF Inv
<1> QED  BY <1>1, <1>2, <1>3, <1>4 DEF Next, Stopped

\* The program's use of the locks and the runtime's record of it agree in
\* every reachable state of the calls of objc-sync.mm.
THEOREM InvHolds == Spec => []Inv
<1>1. Init => Inv
  BY InitInv
<1>2. Inv /\ [Next]_vars => Inv'
  BY NextKeeps
<1> QED  BY <1>1, <1>2, PTL DEF Spec

LEMMA InvExcludes == Inv => MutualExclusion
<1> SUFFICES ASSUME Inv, NEW t \in Threads, NEW u \in Threads, NEW o \in Objects,
                    locked[t][o] > 0, locked[u][o] > 0
             PROVE  t = u
  BY DEF MutualExclusion
<1>1. PICK p \in Pointers : Data(p).object = o /\ Data(p).owner = t
  BY DEF Inv, OwnedOK
<1>2. PICK q \in Pointers : Data(q).object = o /\ Data(q).owner = u
  BY DEF Inv, OwnedOK
<1> QED  BY <1>1, <1>2 DEF Inv, DataOK

LEMMA InvMatches == Inv => MutexMatchesProgram
<1> SUFFICES ASSUME Inv PROVE MutexMatchesProgram
  OBVIOUS
<1>1. ASSUME NEW p \in Pointers
      PROVE  Data(p).depth = IF Data(p).owner = NoThread THEN 0
                             ELSE locked[Data(p).owner][Data(p).object]
                                  + (IF Unlocking(Data(p).owner, p) THEN 1 ELSE 0)
  BY <1>1 DEF Inv, MutexOK, MutexAt, Pending
<1>2. \A t \in Threads, o \in Objects : locked[t][o] > 0 =>
        \E p \in Pointers : Data(p).object = o /\ Data(p).owner = t
  BY DEF Inv, OwnedOK
<1> QED  BY <1>1, <1>2 DEF MutexMatchesProgram

LEMMA InvReports == Inv => ExitReportsOwnership
<1> SUFFICES ASSUME Inv PROVE ExitReportsOwnership
  OBVIOUS
<1>1. \A t \in Threads : At(t, "unlock") =>
        (Data(call[t].data).owner = t <=> call[t].op = "exit")
  BY DEF Inv, CallOK, ThreadCallOK, At
<1>2. \A t \in Threads, o \in Objects : locked[t][o] > 0 => Cached(t, o)
  BY LockedCached
<1> QED  BY <1>1, <1>2 DEF ExitReportsOwnership

\* No two threads are between the enter and the exit of one object, whatever
\* SyncData objc_sync_enter found, took over or allocated for it.
THEOREM ObjectsExclude == Spec => []MutualExclusion
BY InvHolds, InvExcludes, PTL

\* The mutex of a SyncData is locked as often as the program has its object
\* locked, though objc_sync_exit gives the SyncData up before it unlocks.
THEOREM MutexesMatch == Spec => []MutexMatchesProgram
BY InvHolds, InvMatches, PTL

\* objc_sync_exit succeeds for the thread that has the object locked and
\* reports an error to every other.
THEOREM ExitsReport == Spec => []ExitReportsOwnership
BY InvHolds, InvReports, PTL

\* The checks "id2data is buggy" never fire: no item of a cache is for a
\* SyncData that no thread uses.
THEOREM NeverBuggy == Spec => []NoFatal
<1>1. Inv => NoFatal
  BY DEF Inv, NoFatal
<1> QED  BY <1>1, InvHolds, PTL
===============================================================================
