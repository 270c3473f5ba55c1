---------------------------- MODULE AccessorsProofs ----------------------------
(***************************************************************************)
(* Theorems about Accessors, for any finite number of threads, values and  *)
(* keys and any nesting of calls, and their proofs.                        *)
(*                                                                         *)
(* The argument: a step moves references between the thread, its pool, the *)
(* object and at most one of the calls of a thread, so that the count of a *)
(* value stays the number of its owners.  Without the flag, the map is     *)
(* empty, or a call is about to set the flag, or something was set late    *)
(* (FlagInv); while the object dies only the thread that destroys it calls *)
(* (QuietInv), so that the flag tells what is in the map when it is read.  *)
(* What the object gave up stays out of it unless it is set late           *)
(* (GaveUpInv).                                                            *)
(***************************************************************************)
EXTENDS Accessors, SequenceTheorems, FiniteSetTheorems, TLAPS

MapInv ==
  \A k \in Places : /\ entry[k].key = k
                    /\ entry[k].value = nil => entry[k] = NoEntry(k)

\* The i-th of the n calls of a thread: what it holds, and where it may be. p is
\* what the thread has autoreleased.
FrameOK(f, i, n, p) ==
  /\ i > MaxDepth \/ f.pc = "dealloc" => f.held = {}
  /\ i < n => f.pc \in {"release", "dealloc"}
  /\ f.pc = "swap" => /\ f.key \in Places
                      /\ \E e \in Entries : f.held = {e} /\ e.key = f.key
  /\ f.pc = "autorelease" =>
       /\ p = nil
       /\ \E e \in Entries : f.held = {e} /\ e.value \in Values /\ Retains(e.policy)
  /\ f.pc \in {"flag", "swap"} => f.op = "set"
  /\ f.op = "destroy" => f.pc \in {"dealloc", "release"}
  /\ f.op = "dispose" => f.pc = "release"

FramesInv ==
  \A t \in Threads : \A i \in 1 .. Len(stack[t]) :
    FrameOK(stack[t][i], i, Len(stack[t]), pool[t])

\* The object is destroyed by the outermost call of one thread, while it dies.
Ends == {"destroy", "dispose"}
OneDestroys ==
  /\ \A t \in Threads : \A i \in 1 .. Len(stack[t]) :
       stack[t][i].op \in Ends => i = 1 /\ life = "dying"
  /\ \A t, u \in Threads : Destroys(t) /\ Destroys(u) => t = u

\* The other threads call nothing while it dies.
Active(t) == life = "live" \/ Destroys(t)
QuietInv ==
  \A t \in Threads : Active(t) \/ stack[t] = <<>> \/ Top(t).pc \in {"release", "dealloc"}

\* An object that has given up what it had at a place has nothing there, if
\* nothing is set late.
SetLate(k) == IF k = Ivar THEN Ivar \in late ELSE late \cap Keys # {}
GaveUpInv ==
  \A k \in Places :
    life = "freed" \/ (\E t \in Threads : GaveUp(t, k)) =>
      entry[k] = NoEntry(k) \/ SetLate(k)

\* Without the flag, the map is empty or a call is about to set the flag.
FlagInv ==
  \/ hasAssoc \/ Associations = {} \/ late \cap Keys # {}
  \/ \E t \in Threads : At(t, "flag")

CallsInv == FramesInv /\ OneDestroys /\ QuietInv

Inv ==
  TypeOK /\ MapInv /\ CallsInv /\ GaveUpInv /\ FlagInv /\ CountsOwners

USE IvarAssumption, nilAssumption, MaxDepthAssumption

-----------------------------------------------------------------------------
(***************************************************************************)
(* Counting owners.                                                        *)
(***************************************************************************)
LEMMA EntriesFinite == IsFiniteSet(Entries) /\ IsFiniteSet(Places)
<1> DEFINE K == Places
           V == Values \cup {nil}
           P == Policies \cup {"assign", "retain"}
           f == [x \in (K \X V) \X P |-> ObjcAssociation(x[1][1], x[1][2], x[2])]
<1>1. IsFiniteSet(K) /\ IsFiniteSet(V)
  BY FiniteAssumption, FS_AddElement, FS_Union, FS_Singleton DEF Places
<1>2. IsFiniteSet(P)
  <2>1. IsFiniteSet({"assign", "nonatomic", "retain", "system"})
    <3>1. IsFiniteSet({"assign"} \cup {"nonatomic"} \cup {"retain"} \cup {"system"})
      BY FS_Singleton, FS_Union
    <3>2. {"assign"} \cup {"nonatomic"} \cup {"retain"} \cup {"system"}
            = {"assign", "nonatomic", "retain", "system"}
      OBVIOUS
    <3> QED  BY <3>1, <3>2
  <2>2. P \subseteq {"assign", "nonatomic", "retain", "system"}
    BY PoliciesAssumption
  <2> QED  BY <2>1, <2>2, FS_Subset
<1>3. IsFiniteSet((K \X V) \X P)
  BY <1>1, <1>2, FS_Product
<1>4. f \in Surjection((K \X V) \X P, Entries)
  <2>1. f \in [(K \X V) \X P -> Entries]
    BY DEF ObjcAssociation, Entries
  <2>2. ASSUME NEW e \in Entries PROVE \E x \in (K \X V) \X P : f[x] = e
    <3>1. <<<<e.key, e.value>>, e.policy>> \in (K \X V) \X P
      BY DEF Entries
    <3>2. f[<<<<e.key, e.value>>, e.policy>>] = e
      BY <3>1 DEF ObjcAssociation, Entries
    <3> QED  BY <3>1, <3>2
  <2> QED  BY <2>1, <2>2 DEF Surjection
<1> HIDE DEF f
<1> QED  BY <1>1, <1>3, <1>4, FS_Surjection

\* The references to v among the entries that a call holds
Hold(H, v) == {e \in H : Counted(e, v)}

LEMMA OwnersFinite ==
  ASSUME NEW v
  PROVE  /\ IsFiniteSet(InThreads(v)) /\ IsFiniteSet(InThreads(v))'
         /\ IsFiniteSet(InPools(v)) /\ IsFiniteSet(InPools(v))'
         /\ IsFiniteSet(InObject(v)) /\ IsFiniteSet(InObject(v))'
         /\ IsFiniteSet(InCalls(v)) /\ IsFiniteSet(InCalls(v))'
         /\ \A H \in SUBSET Entries : IsFiniteSet(Hold(H, v))
<1>1. IsFiniteSet(Threads \X (1 .. MaxDepth) \X Entries)
  <2>1. IsFiniteSet(1 .. MaxDepth)
    BY FS_Interval
  <2>2. IsFiniteSet((Threads \X (1 .. MaxDepth)) \X Entries)
    BY <2>1, FiniteAssumption, EntriesFinite, FS_Product
  <2> DEFINE S == (Threads \X (1 .. MaxDepth)) \X Entries
             T == Threads \X (1 .. MaxDepth) \X Entries
             f == [x \in S |-> <<x[1][1], x[1][2], x[2]>>]
  <2>3. f \in Surjection(S, T)
    <3>1. f \in [S -> T]
      OBVIOUS
    <3>2. ASSUME NEW y \in T PROVE \E x \in S : f[x] = y
      <4>1. <<<<y[1], y[2]>>, y[3]>> \in S /\ f[<<<<y[1], y[2]>>, y[3]>>] = y
        OBVIOUS
      <4> QED  BY <4>1
    <3> QED  BY <3>1, <3>2 DEF Surjection
  <2> HIDE DEF f
  <2> QED  BY <2>2, <2>3, FS_Surjection
<1>2. /\ InCalls(v) \subseteq Threads \X (1 .. MaxDepth) \X Entries
      /\ InCalls(v)' \subseteq Threads \X (1 .. MaxDepth) \X Entries
  BY DEF InCalls
<1>3. /\ InThreads(v) \subseteq Threads /\ InThreads(v)' \subseteq Threads
      /\ InPools(v) \subseteq Threads /\ InPools(v)' \subseteq Threads
      /\ InObject(v) \subseteq Places /\ InObject(v)' \subseteq Places
  BY DEF InThreads, InPools, InObject
<1>4. \A H \in SUBSET Entries : Hold(H, v) \subseteq Entries
  BY DEF Hold
<1> QED  BY <1>1, <1>2, <1>3, <1>4, FiniteAssumption, EntriesFinite, FS_Subset

\* What one call holds changes.
LEMMA OneHeld ==
  ASSUME NEW t \in Threads, NEW n \in 1 .. MaxDepth, NEW v,
         \A u \in Threads : \A i \in 1 .. MaxDepth :
           u # t \/ i # n => HeldAt(u, i)' = HeldAt(u, i),
         HeldAt(t, n) \subseteq Entries, HeldAt(t, n)' \subseteq Entries
  PROVE  Cardinality(InCalls(v)') = Cardinality(InCalls(v))
           - Cardinality(Hold(HeldAt(t, n), v)) + Cardinality(Hold(HeldAt(t, n)', v))
<1> DEFINE X(H) == {x \in Threads \X (1 .. MaxDepth) \X Entries :
                      x[1] = t /\ x[2] = n /\ x[3] \in H /\ Counted(x[3], v)}
<1>1. ASSUME NEW H, H \subseteq Entries
      PROVE  IsFiniteSet(X(H)) /\ Cardinality(X(H)) = Cardinality(Hold(H, v))
  <2> DEFINE f == [e \in Hold(H, v) |-> <<t, n, e>>]
  <2>1. f \in Bijection(Hold(H, v), X(H))
    <3>1. f \in [Hold(H, v) -> X(H)]
      BY <1>1 DEF Hold
    <3>2. ASSUME NEW e \in Hold(H, v), NEW d \in Hold(H, v), f[e] = f[d] PROVE e = d
      BY <3>2
    <3>3. ASSUME NEW x \in X(H) PROVE \E e \in Hold(H, v) : f[e] = x
      <4>1. x[3] \in Hold(H, v) /\ x = <<t, n, x[3]>>
        BY DEF Hold
      <4> QED  BY <4>1
    <3> HIDE DEF f, X
    <3> QED  BY <3>1, <3>2, <3>3 DEF Bijection, Injection, Surjection, IsInjective
  <2> HIDE DEF f, X
  <2> QED  BY <1>1, <2>1, OwnersFinite, FS_Bijection DEF ExistsBijection
<1>2. /\ InCalls(v) \cap X(HeldAt(t, n)) = X(HeldAt(t, n))
      /\ InCalls(v)' \cap X(HeldAt(t, n)') = X(HeldAt(t, n)')
  BY DEF InCalls
<1>3. InCalls(v) \ X(HeldAt(t, n)) = InCalls(v)' \ X(HeldAt(t, n)')
  <2>1. ASSUME NEW x \in Threads \X (1 .. MaxDepth) \X Entries
        PROVE  x \in InCalls(v) \ X(HeldAt(t, n)) <=> x \in InCalls(v)' \ X(HeldAt(t, n)')
    <3> PICK u \in Threads, i \in 1 .. MaxDepth, e \in Entries : x = <<u, i, e>>
      OBVIOUS
    <3>1. x \in InCalls(v) <=> e \in HeldAt(u, i) /\ Counted(e, v)
      BY DEF InCalls
    <3>2. x \in InCalls(v)' <=> e \in HeldAt(u, i)' /\ Counted(e, v)
      BY DEF InCalls, Counted
    <3> QED  BY <3>1, <3>2
  <2> QED  BY <2>1 DEF InCalls
<1> HIDE DEF X
<1>4. /\ Cardinality(InCalls(v) \ X(HeldAt(t, n)))
           = Cardinality(InCalls(v)) - Cardinality(X(HeldAt(t, n)))
      /\ Cardinality(InCalls(v)' \ X(HeldAt(t, n)'))
           = Cardinality(InCalls(v)') - Cardinality(X(HeldAt(t, n)'))
  BY <1>2, OwnersFinite, FS_Difference
<1>5. /\ Cardinality(X(HeldAt(t, n))) = Cardinality(Hold(HeldAt(t, n), v))
      /\ Cardinality(X(HeldAt(t, n)')) = Cardinality(Hold(HeldAt(t, n)', v))
  BY <1>1
<1>6. /\ Cardinality(InCalls(v)) \in Nat /\ Cardinality(InCalls(v)') \in Nat
      /\ Cardinality(X(HeldAt(t, n))) \in Nat /\ Cardinality(X(HeldAt(t, n)')) \in Nat
  BY <1>1, OwnersFinite, FS_CardinalityType
<1>7. Cardinality(InCalls(v)) - Cardinality(X(HeldAt(t, n)))
        = Cardinality(InCalls(v)') - Cardinality(X(HeldAt(t, n)'))
  BY <1>3, <1>4
<1> QED  BY <1>5, <1>6, <1>7

LEMMA NothingHeldChanges ==
  ASSUME NEW v,
         \A u \in Threads : \A i \in 1 .. MaxDepth : HeldAt(u, i)' = HeldAt(u, i)
  PROVE  InCalls(v)' = InCalls(v)
BY DEF InCalls, Counted

-----------------------------------------------------------------------------
(***************************************************************************)
(* The calls of a thread.                                                  *)
(***************************************************************************)
LEMMA TopFacts ==
  ASSUME TypeOK, NEW t \in Threads, stack[t] # <<>>
  PROVE  /\ Len(stack[t]) \in Nat \ {0} /\ stack[t] \in Seq(Frames)
         /\ Top(t) \in Frames /\ Top(t) = stack[t][Len(stack[t])]
BY DEF TypeOK, Top

\* A thread that may call is in no call, or in a -dealloc.
Calls(t) == stack[t] = <<>> \/ At(t, "dealloc")

\* What the destruction of the object has done
SameDestruction ==
  \A u \in Threads : /\ Destroys(u)' <=> Destroys(u)
                     /\ \A k \in Places : GaveUp(u, k)' <=> GaveUp(u, k)

\* A thread keeps its outermost call.
LEMMA SameBase ==
  ASSUME TypeOK, stack' \in [Threads -> Seq(Frames)],
         \A u \in Threads :
           \/ /\ stack[u] # <<>> /\ stack'[u] # <<>>
              /\ stack'[u][1].op = stack[u][1].op
              /\ stack'[u][1].pc = stack[u][1].pc \/ stack[u][1].op # "destroy"
           \/ /\ stack[u] = <<>> \/ stack[u][1].op \notin Ends
              /\ stack'[u] = <<>> \/ stack'[u][1].op \notin Ends
  PROVE  SameDestruction
BY DEF SameDestruction, Destroys, GaveUp, Ends

\* The calls are as they should be, if each thread is.
LEMMA CallsKept ==
  ASSUME TypeOK, CallsInv, stack' \in [Threads -> Seq(Frames)], NEW t \in Threads,
         \A u \in Threads : u # t => stack'[u] = stack[u] /\ pool'[u] = pool[u],
         SameDestruction, life' = life,
         \A i \in 1 .. Len(stack'[t]) : FrameOK(stack'[t][i], i, Len(stack'[t]), pool'[t]),
         \A i \in 1 .. Len(stack'[t]) : stack'[t][i].op \in Ends => i = 1 /\ life = "dying",
         Active(t) \/ stack'[t] = <<>> \/ stack'[t][Len(stack'[t])].pc \in {"release", "dealloc"}
  PROVE  CallsInv'
<1>1. FramesInv'
  BY DEF CallsInv, FramesInv
<1>2. OneDestroys'
  BY DEF CallsInv, OneDestroys, SameDestruction
<1>3. QuietInv'
  <2> SUFFICES ASSUME NEW u \in Threads
               PROVE  Active(u)' \/ stack'[u] = <<>> \/ Top(u)'.pc \in {"release", "dealloc"}
    BY DEF QuietInv
  <2>1. Active(u)' <=> Active(u)
    BY DEF Active, SameDestruction
  <2> QED  BY <2>1 DEF CallsInv, QuietInv, Top
<1> QED  BY <1>1, <1>2, <1>3 DEF CallsInv

\* A call begins.
LEMMA CallKeeps ==
  ASSUME TypeOK, CallsInv, NEW t \in Threads, NEW f \in Frames, Call(t, f), Calls(t),
         \A u \in Threads : u # t \/ stack[t] # <<>> => pool'[u] = pool[u],
         life' = life, f.op \notin Ends, Active(t) \/ f.pc = "dealloc",
         FrameOK(f, Len(stack[t]) + 1, Len(stack[t]) + 1, pool'[t])
  PROVE  /\ stack' \in [Threads -> Seq(Frames)] /\ CallsInv' /\ SameDestruction
         /\ \A u \in Threads : At(u, "flag") => At(u, "flag")'
         /\ \A u \in Threads : \A i \in 1 .. MaxDepth :
              HeldAt(u, i)' = IF u = t /\ i = Len(stack[t]) + 1 THEN f.held ELSE HeldAt(u, i)
         /\ HeldAt(t, Len(stack[t]) + 1) = {}
<1> DEFINE n == Len(stack[t])
<1>1. /\ stack[t] \in Seq(Frames) /\ n \in Nat
      /\ stack' \in [Threads -> Seq(Frames)]
      /\ stack'[t] = Append(stack[t], f)
      /\ \A u \in Threads : u # t => stack'[u] = stack[u]
      /\ \A u \in Threads : stack[u] \in Seq(Frames)
  BY AppendProperties DEF TypeOK, Call
<1>2. /\ Len(stack'[t]) = n + 1 /\ stack'[t][n + 1] = f
      /\ \A i \in 1 .. n : stack'[t][i] = stack[t][i]
  BY <1>1, AppendProperties
<1>3. \A i \in 1 .. n : stack[t][i].pc \in {"release", "dealloc"}
  <2> SUFFICES ASSUME NEW i \in 1 .. n PROVE stack[t][i].pc \in {"release", "dealloc"}
    OBVIOUS
  <2>1. CASE i = n
    BY <1>1, <2>1 DEF Calls, At, Top
  <2>2. CASE i < n
    BY <2>2 DEF CallsInv, FramesInv, FrameOK
  <2> QED  BY <1>1, <2>1, <2>2
<1>4. SameDestruction
  <2>1. CASE n = 0
    <3>1. stack[t] = <<>> /\ stack'[t][1] = f
      BY <1>1, <1>2, <2>1
    <3> QED  BY <1>1, <3>1, SameBase
  <2>2. CASE n # 0
    <3>1. stack[t] # <<>> /\ stack'[t] # <<>> /\ stack'[t][1] = stack[t][1]
      BY <1>1, <1>2, <2>2
    <3> QED  BY <1>1, <3>1, SameBase
  <2> QED  BY <2>1, <2>2
<1>5. CallsInv'
  <2>1. ASSUME NEW i \in 1 .. Len(stack'[t])
        PROVE  /\ FrameOK(stack'[t][i], i, Len(stack'[t]), pool'[t])
               /\ stack'[t][i].op \in Ends => i = 1 /\ life = "dying"
    <3>1. CASE i = n + 1
      BY <1>2, <3>1
    <3>2. CASE i # n + 1
      <4>1. i \in 1 .. n /\ stack'[t][i] = stack[t][i]
        BY <1>1, <1>2, <3>2
      <4>2. /\ FrameOK(stack[t][i], i, n, pool[t])
            /\ stack[t][i].op \in Ends => i = 1 /\ life = "dying"
        BY <4>1 DEF CallsInv, FramesInv, OneDestroys
      <4>3. stack[t] # <<>>
        BY <1>1, <4>1
      <4> QED  BY <1>1, <1>2, <1>3, <4>1, <4>2, <4>3 DEF FrameOK
    <3> QED  BY <3>1, <3>2
  <2>2. \A u \in Threads : u # t => stack'[u] = stack[u] /\ pool'[u] = pool[u]
    BY <1>1
  <2>3. Active(t) \/ stack'[t][Len(stack'[t])].pc \in {"release", "dealloc"}
    BY <1>2
  <2> QED  BY <1>1, <1>4, <2>1, <2>2, <2>3, CallsKept
<1>6. ASSUME NEW u \in Threads, At(u, "flag") PROVE At(u, "flag")'
  BY <1>1, <1>6 DEF Calls, At, Top
<1>7. ASSUME NEW u \in Threads, NEW i \in 1 .. MaxDepth
      PROVE  HeldAt(u, i)' = IF u = t /\ i = n + 1 THEN f.held ELSE HeldAt(u, i)
  <2>1. CASE u # t
    BY <1>1, <2>1 DEF HeldAt
  <2>2. CASE u = t /\ i = n + 1
    BY <1>1, <1>2, <2>2 DEF HeldAt
  <2>3. CASE u = t /\ i # n + 1
    <3>1. i \in DOMAIN stack'[t] <=> i \in 1 .. n
      BY <1>1, <1>2, <2>3
    <3>2. i \in DOMAIN stack[t] <=> i \in 1 .. n
      BY <1>1
    <3>3. i \in 1 .. n => stack'[t][i] = stack[t][i]
      BY <1>2
    <3> QED  BY <2>3, <3>1, <3>2, <3>3 DEF HeldAt
  <2> QED  BY <2>1, <2>2, <2>3
<1>8. HeldAt(t, n + 1) = {}
  BY <1>1 DEF HeldAt
<1> QED  BY <1>1, <1>4, <1>5, <1>6, <1>7, <1>8

\* A call goes on.
LEMMA ToKeeps ==
  ASSUME TypeOK, CallsInv, NEW t \in Threads, NEW f \in Frames, To(t, f),
         stack[t] # <<>>, pool' = pool, life' = life,
         f.op = Top(t).op /\ (f.op = "destroy" => f.pc = Top(t).pc),
         Active(t) \/ f.pc \in {"release", "dealloc"},
         FrameOK(f, Len(stack[t]), Len(stack[t]), pool[t])
  PROVE  /\ stack' \in [Threads -> Seq(Frames)] /\ CallsInv' /\ SameDestruction
         /\ \A u \in Threads : u # t /\ At(u, "flag") => At(u, "flag")'
         /\ \A u \in Threads : \A i \in 1 .. MaxDepth :
              HeldAt(u, i)' = IF u = t /\ i = Len(stack[t]) THEN f.held ELSE HeldAt(u, i)
         /\ f.pc = "flag" => At(t, "flag")'
<1> DEFINE n == Len(stack[t])
<1>1. /\ stack[t] \in Seq(Frames) /\ n \in Nat \ {0}
      /\ stack'[t] = [stack[t] EXCEPT ![n] = f]
      /\ \A u \in Threads : u # t => stack'[u] = stack[u]
      /\ \A u \in Threads : stack[u] \in Seq(Frames)
      /\ Top(t) = stack[t][n]
  BY TopFacts DEF TypeOK, To, Replace
<1>2. /\ stack'[t] \in Seq(Frames) /\ Len(stack'[t]) = n /\ stack'[t][n] = f
      /\ \A i \in 1 .. n : i # n => stack'[t][i] = stack[t][i]
  BY <1>1, ExceptSeq
<1>3. stack' \in [Threads -> Seq(Frames)]
  BY <1>1, <1>2 DEF TypeOK, To
<1>4. SameDestruction
  <2>1. stack'[t] # <<>>
    BY <1>1, <1>2
  <2>2. /\ stack'[t][1].op = stack[t][1].op
        /\ stack'[t][1].pc = stack[t][1].pc \/ stack[t][1].op # "destroy"
    BY <1>1, <1>2
  <2> QED  BY <1>1, <1>3, <2>1, <2>2, SameBase
<1>5. CallsInv'
  <2>1. ASSUME NEW i \in 1 .. Len(stack'[t])
        PROVE  /\ FrameOK(stack'[t][i], i, Len(stack'[t]), pool'[t])
               /\ stack'[t][i].op \in Ends => i = 1 /\ life = "dying"
    <3>1. CASE i = n
      BY <1>1, <1>2, <3>1 DEF CallsInv, OneDestroys
    <3>2. CASE i # n
      BY <1>1, <1>2, <3>2 DEF CallsInv, FramesInv, OneDestroys
    <3> QED  BY <3>1, <3>2
  <2>2. \A u \in Threads : u # t => stack'[u] = stack[u] /\ pool'[u] = pool[u]
    BY <1>1
  <2>3. Active(t) \/ stack'[t][Len(stack'[t])].pc \in {"release", "dealloc"}
    BY <1>2
  <2> QED  BY <1>3, <1>4, <2>1, <2>2, <2>3, CallsKept
<1>6. ASSUME NEW u \in Threads, u # t, At(u, "flag") PROVE At(u, "flag")'
  BY <1>1, <1>6 DEF At, Top
<1>7. ASSUME NEW u \in Threads, NEW i \in 1 .. MaxDepth
      PROVE  HeldAt(u, i)' = IF u = t /\ i = n THEN f.held ELSE HeldAt(u, i)
  BY <1>1, <1>2 DEF HeldAt
<1>8. f.pc = "flag" => At(t, "flag")'
  BY <1>1, <1>2 DEF At, Top
<1> QED  BY <1>3, <1>4, <1>5, <1>6, <1>7, <1>8

LEMMA OneLess ==
  \A m \in Nat \ {0} : m # 1 => 1 \in 1 .. m - 1 /\ m - 1 \in 1 .. m - 1 /\ m - 1 # 0
OBVIOUS

\* A call ends, which may autorelease a value.
LEMMA PopKeeps ==
  ASSUME TypeOK, CallsInv, NEW t \in Threads, stack[t] # <<>>,
         stack' = [stack EXCEPT ![t] = Pop(@)],
         \A u \in Threads : u # t => pool'[u] = pool[u],
         Top(t).op \notin Ends, life' = life
  PROVE  /\ stack' \in [Threads -> Seq(Frames)] /\ CallsInv' /\ SameDestruction
         /\ \A u \in Threads : u # t /\ At(u, "flag") => At(u, "flag")'
         /\ \A u \in Threads : \A i \in 1 .. MaxDepth :
              HeldAt(u, i)' = IF u = t /\ i = Len(stack[t]) THEN {} ELSE HeldAt(u, i)
<1> DEFINE n == Len(stack[t])
<1>1. /\ stack[t] \in Seq(Frames) /\ n \in Nat \ {0}
      /\ stack'[t] = SubSeq(stack[t], 1, n - 1)
      /\ \A u \in Threads : u # t => stack'[u] = stack[u]
      /\ \A u \in Threads : stack[u] \in Seq(Frames)
  BY TopFacts DEF TypeOK, Pop
<1>2. /\ stack'[t] \in Seq(Frames) /\ Len(stack'[t]) = n - 1
      /\ \A i \in 1 .. n - 1 : stack'[t][i] = stack[t][i]
  BY <1>1, SubSeqProperties
<1>3. stack' \in [Threads -> Seq(Frames)]
  BY <1>1, <1>2 DEF TypeOK
<1>. Top(t) = stack[t][n] /\ n \in 1 .. n
  BY <1>1 DEF Top
<1>4. SameDestruction
  <2>1. CASE n = 1
    <3>1. stack'[t] = <<>> /\ stack[t][1].op \notin Ends
      BY <1>1, <1>2, <2>1
    <3> QED  BY <1>1, <1>3, <3>1, SameBase
  <2>2. CASE n # 1
    <3>1. stack'[t] # <<>> /\ stack'[t][1] = stack[t][1]
      <4>1. 1 \in 1 .. n - 1 /\ n - 1 # 0
        BY <1>1, <2>2, OneLess
      <4> QED  BY <1>2, <4>1
    <3>2. stack[t] # <<>> /\ \A u \in Threads : u # t => stack'[u] = stack[u]
      BY <1>1
    <3>3. ASSUME NEW u \in Threads, u # t
          PROVE  \/ stack[u] # <<>> /\ stack'[u] # <<>> /\ stack'[u][1] = stack[u][1]
                 \/ stack[u] = <<>> /\ stack'[u] = <<>>
      BY <3>2, <3>3
    <3> QED  BY <1>3, <3>1, <3>2, <3>3, SameBase
  <2> QED  BY <2>1, <2>2
<1>5. CallsInv'
  <2>1. ASSUME NEW i \in 1 .. Len(stack'[t])
        PROVE  /\ FrameOK(stack'[t][i], i, Len(stack'[t]), pool'[t])
               /\ stack'[t][i].op \in Ends => i = 1 /\ life = "dying"
               /\ stack'[t][i].pc \in {"release", "dealloc"}
    <3>1. i \in 1 .. n /\ i < n /\ stack'[t][i] = stack[t][i]
      BY <1>1, <1>2
    <3>2. /\ FrameOK(stack[t][i], i, n, pool[t])
          /\ stack[t][i].op \in Ends => i = 1 /\ life = "dying"
      BY <3>1 DEF CallsInv, FramesInv, OneDestroys
    <3> QED  BY <1>2, <3>1, <3>2 DEF FrameOK
  <2>2. \A u \in Threads : u # t => stack'[u] = stack[u] /\ pool'[u] = pool[u]
    BY <1>1
  <2>3. stack'[t] = <<>> \/ stack'[t][Len(stack'[t])].pc \in {"release", "dealloc"}
    <3>1. CASE n = 1
      BY <1>1, <1>2, <3>1
    <3>2. CASE n # 1
      <4>0. n - 1 \in 1 .. n - 1
        BY <1>1, <3>2, OneLess
      <4>1. Len(stack'[t]) \in 1 .. Len(stack'[t])
        BY <1>2, <4>0
      <4> QED  BY <2>1, <4>1
    <3> QED  BY <3>1, <3>2
  <2> QED  BY <1>3, <1>4, <2>1, <2>2, <2>3, CallsKept
<1>6. ASSUME NEW u \in Threads, u # t, At(u, "flag") PROVE At(u, "flag")'
  BY <1>1, <1>6 DEF At, Top
<1>7. ASSUME NEW u \in Threads, NEW i \in 1 .. MaxDepth
      PROVE  HeldAt(u, i)' = IF u = t /\ i = n THEN {} ELSE HeldAt(u, i)
  BY <1>1, <1>2 DEF HeldAt
<1> QED  BY <1>3, <1>4, <1>5, <1>6, <1>7

-----------------------------------------------------------------------------
(***************************************************************************)
(* The owners of a value, before a step and after it.                      *)
(***************************************************************************)
One(b) == IF b THEN 1 ELSE 0

LEMMA HoldOne ==
  ASSUME NEW v, NEW e
  PROVE  Cardinality(Hold({e}, v)) = One(Counted(e, v)) /\ Cardinality(Hold({}, v)) = 0
<1>1. Hold({e}, v) = IF Counted(e, v) THEN {e} ELSE {}
  BY DEF Hold
<1>2. Hold({}, v) = {}
  BY DEF Hold
<1> QED  BY <1>1, <1>2, FS_EmptySet, FS_Singleton DEF One

LEMMA OwnersAreNumbers ==
  ASSUME NEW v
  PROVE  /\ Cardinality(InThreads(v)) \in Nat /\ Cardinality(InThreads(v)') \in Nat
         /\ Cardinality(InPools(v)) \in Nat /\ Cardinality(InPools(v)') \in Nat
         /\ Cardinality(InObject(v)) \in Nat /\ Cardinality(InObject(v)') \in Nat
         /\ Cardinality(InCalls(v)) \in Nat /\ Cardinality(InCalls(v)') \in Nat
         /\ \A H \in SUBSET Entries : Cardinality(Hold(H, v)) \in Nat
BY OwnersFinite, FS_CardinalityType

LEMMA OneDiffers ==
  ASSUME NEW A, NEW B, IsFiniteSet(A), IsFiniteSet(B), NEW x, A \ {x} = B \ {x}
  PROVE  Cardinality(B) = Cardinality(A) - One(x \in A) + One(x \in B)
<1>1. Cardinality(A \ {x}) = Cardinality(A) - One(x \in A)
  <2>1. Cardinality(A \ {x}) = IF x \in A THEN Cardinality(A) - 1 ELSE Cardinality(A)
    BY FS_RemoveElement
  <2> QED  BY <2>1, FS_CardinalityType DEF One
<1>2. Cardinality(B \ {x}) = Cardinality(B) - One(x \in B)
  <2>1. Cardinality(B \ {x}) = IF x \in B THEN Cardinality(B) - 1 ELSE Cardinality(B)
    BY FS_RemoveElement
  <2> QED  BY <2>1, FS_CardinalityType DEF One
<1>3. Cardinality(A) \in Nat /\ Cardinality(B) \in Nat
  BY FS_CardinalityType
<1> QED  BY <1>1, <1>2, <1>3 DEF One

\* One entry of the object changes.
LEMMA EntryChanges ==
  ASSUME TypeOK, NEW k \in Places, NEW e \in Entries, NEW v,
         entry' = [entry EXCEPT ![k] = e]
  PROVE  Cardinality(InObject(v)')
           = Cardinality(InObject(v)) - One(Counted(entry[k], v)) + One(Counted(e, v))
<1>1. /\ entry'[k] = e /\ \A j \in Places : j # k => entry'[j] = entry[j]
  BY DEF TypeOK
<1>2. InObject(v) \ {k} = InObject(v)' \ {k}
  <2>1. \A j \in Places : j \in InObject(v) <=> Counted(entry[j], v)
    BY DEF InObject
  <2>2. \A j \in Places : j \in InObject(v)' <=> Counted(entry'[j], v)
    BY DEF InObject, Counted
  <2>3. InObject(v) \subseteq Places /\ InObject(v)' \subseteq Places
    BY DEF InObject
  <2> QED  BY <1>1, <2>1, <2>2, <2>3
<1>3. /\ k \in InObject(v) <=> Counted(entry[k], v)
      /\ k \in InObject(v)' <=> Counted(e, v)
  BY <1>1 DEF InObject, Counted
<1> QED  BY <1>2, <1>3, OwnersFinite, OneDiffers DEF One

\* Entries are taken out of the object.
LEMMA TakenOut ==
  ASSUME TypeOK, MapInv, NEW es \in SUBSET {entry[k] : k \in Places}, TakeOut(es)
  PROVE  /\ entry' \in [Places -> Entries] /\ MapInv' /\ es \subseteq Entries
         /\ \A k \in Places : entry'[k] = IF entry[k] \in es THEN NoEntry(k) ELSE entry[k]
         /\ \A v \in Values : Cardinality(InObject(v)')
              = Cardinality(InObject(v)) - Cardinality(Hold(es, v))
<1>1. /\ \A k \in Places : entry'[k] = IF entry[k] \in es THEN NoEntry(k) ELSE entry[k]
      /\ \A k \in Places : NoEntry(k) \in Entries /\ entry[k] \in Entries
      /\ es \subseteq Entries
  BY DEF TakeOut, NoEntry, ObjcAssociation, Entries, TypeOK
<1>2. entry' \in [Places -> Entries]
  BY <1>1 DEF TakeOut
<1>3. MapInv'
  BY <1>1 DEF MapInv, NoEntry, ObjcAssociation
<1>4. ASSUME NEW v \in Values
      PROVE  Cardinality(InObject(v)') = Cardinality(InObject(v)) - Cardinality(Hold(es, v))
  <2> DEFINE K == {k \in Places : entry[k] \in es /\ Counted(entry[k], v)}
             f == [k \in K |-> entry[k]]
  <2>1. InObject(v) \cap K = K /\ InObject(v)' = InObject(v) \ K
    <3>1. \A k \in Places : k \in InObject(v) <=> Counted(entry[k], v)
      BY DEF InObject
    <3>2. \A k \in Places : k \in InObject(v)' <=> Counted(entry'[k], v)
      BY DEF InObject, Counted
    <3>3. InObject(v) \subseteq Places /\ InObject(v)' \subseteq Places
      BY DEF InObject
    <3>4. \A k \in Places : ~Counted(NoEntry(k), v)
      BY DEF Counted, NoEntry, ObjcAssociation
    <3> QED  BY <1>1, <3>1, <3>2, <3>3, <3>4
  <2>2. f \in Bijection(K, Hold(es, v))
    <3>1. f \in [K -> Hold(es, v)]
      BY DEF Hold
    <3>2. ASSUME NEW j \in K, NEW k \in K, f[j] = f[k] PROVE j = k
      BY <3>2 DEF MapInv
    <3>3. ASSUME NEW e \in Hold(es, v) PROVE \E k \in K : f[k] = e
      BY DEF Hold
    <3> HIDE DEF f, K
    <3> QED  BY <3>1, <3>2, <3>3 DEF Bijection, Injection, Surjection, IsInjective
  <2> HIDE DEF f, K
  <2>3. IsFiniteSet(K)
    BY <2>1, OwnersFinite, FS_Subset
  <2>4. Cardinality(Hold(es, v)) = Cardinality(K)
    BY <2>2, <2>3, FS_Bijection DEF ExistsBijection
  <2>5. Cardinality(InObject(v) \ K) = Cardinality(InObject(v)) - Cardinality(K)
    BY <2>1, OwnersFinite, FS_Difference
  <2> QED  BY <2>1, <2>4, <2>5
<1> QED  BY <1>1, <1>2, <1>3, <1>4

\* One thread takes or drops its own reference.
LEMMA OwnChanges ==
  ASSUME TypeOK, NEW t \in Threads, NEW w \in Values, NEW S, own' = [own EXCEPT ![t] = S],
         S = own[t] \cup {w} \/ S = own[t] \ {w}, NEW v \in Values
  PROVE  Cardinality(InThreads(v)')
           = Cardinality(InThreads(v)) - One(v \in own[t]) + One(v \in S)
<1>1. own'[t] = S /\ \A u \in Threads : u # t => own'[u] = own[u]
  BY DEF TypeOK
<1>2. InThreads(v) \ {t} = InThreads(v)' \ {t}
  BY <1>1 DEF InThreads
<1>3. (t \in InThreads(v) <=> v \in own[t]) /\ (t \in InThreads(v)' <=> v \in S)
  BY <1>1 DEF InThreads
<1> QED  BY <1>2, <1>3, OwnersFinite, OneDiffers DEF One

\* One thread autoreleases a value, or drains its pool.
LEMMA PoolChanges ==
  ASSUME TypeOK, NEW t \in Threads, NEW w, pool' = [pool EXCEPT ![t] = w],
         NEW v \in Values
  PROVE  Cardinality(InPools(v)')
           = Cardinality(InPools(v)) - One(pool[t] = v) + One(w = v)
<1>1. pool'[t] = w /\ \A u \in Threads : u # t => pool'[u] = pool[u]
  BY DEF TypeOK
<1>2. InPools(v) \ {t} = InPools(v)' \ {t}
  BY <1>1 DEF InPools
<1>3. (t \in InPools(v) <=> pool[t] = v) /\ (t \in InPools(v)' <=> w = v)
  BY <1>1 DEF InPools
<1> QED  BY <1>2, <1>3, OwnersFinite, OneDiffers DEF One

LEMMA PoolEmptied ==
  ASSUME TypeOK, NEW t \in Threads, pool' = [pool EXCEPT ![t] = nil], NEW v \in Values
  PROVE  /\ pool[t] = v => Cardinality(InPools(v)') = Cardinality(InPools(v)) - 1
         /\ pool[t] # v => Cardinality(InPools(v)') = Cardinality(InPools(v))
<1>1. pool'[t] = nil /\ \A u \in Threads : u # t => pool'[u] = pool[u]
  BY DEF TypeOK
<1>2. t \notin InPools(v)' /\ InPools(v)' = InPools(v) \ {t}
  BY <1>1, nilAssumption DEF InPools
<1>3. t \in InPools(v) <=> pool[t] = v
  BY DEF InPools
<1>4. /\ IsFiniteSet(InPools(v))
      /\ Cardinality(InPools(v) \ {t})
           = IF t \in InPools(v) THEN Cardinality(InPools(v)) - 1 ELSE Cardinality(InPools(v))
  BY OwnersFinite, FS_RemoveElement
<1> QED  BY ONLY <1>2, <1>3, <1>4

-----------------------------------------------------------------------------
(***************************************************************************)
(* Every step preserves the invariant.                                     *)
(***************************************************************************)
LEMMA MayCallFacts ==
  ASSUME TypeOK, NEW t \in Threads, NEW op, MayCall(t, op)
  PROVE  Calls(t) /\ Len(stack[t]) + 1 \in 1 .. MaxDepth /\ Active(t)
<1>1. stack[t] \in Seq(Frames)
  BY DEF TypeOK
<1> QED  BY <1>1 DEF MayCall, Calls, Active

\* What was given up is nothing still, if the object did not change.
LEMMA GaveUpKept ==
  ASSUME GaveUpInv, entry' = entry, late' = late,
         \A k \in Places :
           life' = "freed" \/ (\E t \in Threads : GaveUp(t, k)') =>
             life = "freed" \/ \E t \in Threads : GaveUp(t, k)
  PROVE  GaveUpInv'
BY DEF GaveUpInv, SetLate

LEMMA SameGaveUp ==
  ASSUME GaveUpInv, entry' = entry, late' = late, life' = life, SameDestruction
  PROVE  GaveUpInv'
BY GaveUpKept DEF SameDestruction

\* A value with an owner is not free.
LEMMA Owned ==
  ASSUME TypeOK, CountsOwners, NEW v \in Values, count[v] = 0
  PROVE  InThreads(v) = {} /\ InPools(v) = {} /\ InObject(v) = {} /\ InCalls(v) = {}
<1>1. /\ Cardinality(InThreads(v)) = 0 /\ Cardinality(InPools(v)) = 0
      /\ Cardinality(InObject(v)) = 0 /\ Cardinality(InCalls(v)) = 0
  BY OwnersAreNumbers DEF CountsOwners, TypeOK
<1> QED  BY <1>1, OwnersFinite, FS_EmptySet

\* A call begins that holds a reference it has just taken.
LEMMA CallHolds ==
  ASSUME Inv, NEW t \in Threads, NEW e \in Entries, NEW f \in Frames, f.held = {e},
         Call(t, f), Calls(t), Len(stack[t]) + 1 \in 1 .. MaxDepth, f.op \notin Ends,
         Active(t),
         FrameOK(f, Len(stack[t]) + 1, Len(stack[t]) + 1, pool[t]),
         count' \in [Values -> Nat],
         \A v \in Values : count'[v] = count[v] + One(Counted(e, v)),
         UNCHANGED <<own, pool, entry, hasAssoc, life, late, lost>>
  PROVE  Inv'
<1> PICK n : n = Len(stack[t]) + 1
  OBVIOUS
<1>0. /\ TypeOK /\ CallsInv /\ pool' = pool /\ life' = life /\ n \in 1 .. MaxDepth
      /\ FrameOK(f, Len(stack[t]) + 1, Len(stack[t]) + 1, pool'[t])
      /\ \A u \in Threads : u # t \/ stack[t] # <<>> => pool'[u] = pool[u]
      /\ Call(t, f) /\ Calls(t) /\ f.op \notin Ends /\ Active(t)
  BY DEF Inv
<1>1. /\ stack' \in [Threads -> Seq(Frames)] /\ CallsInv' /\ SameDestruction
      /\ \A u \in Threads : At(u, "flag") => At(u, "flag")'
      /\ \A u \in Threads : \A i \in 1 .. MaxDepth :
           HeldAt(u, i)' = IF u = t /\ i = n THEN f.held ELSE HeldAt(u, i)
      /\ HeldAt(t, n) = {}
  <2>1. /\ stack' \in [Threads -> Seq(Frames)] /\ CallsInv' /\ SameDestruction
        /\ \A u \in Threads : At(u, "flag") => At(u, "flag")'
        /\ \A u \in Threads : \A i \in 1 .. MaxDepth :
             HeldAt(u, i)' = IF u = t /\ i = Len(stack[t]) + 1 THEN f.held ELSE HeldAt(u, i)
        /\ HeldAt(t, Len(stack[t]) + 1) = {}
    BY ONLY <1>0, CallKeeps, t \in Threads, f \in Frames
  <2> QED  BY <2>1
<1>2. TypeOK' /\ MapInv' /\ GaveUpInv'
  BY <1>1, SameGaveUp DEF Inv, TypeOK, MapInv
<1>3. FlagInv'
  BY <1>1 DEF Inv, FlagInv, Associations
<1>4. ASSUME NEW v \in Values
      PROVE  count'[v] = Cardinality(InThreads(v)') + Cardinality(InPools(v)')
                       + Cardinality(InObject(v)') + Cardinality(InCalls(v)') + lost'[v]
  <2>1. InThreads(v)' = InThreads(v) /\ InPools(v)' = InPools(v) /\ InObject(v)' = InObject(v)
    BY DEF InThreads, InPools, InObject, Counted
  <2>2. Cardinality(InCalls(v)') = Cardinality(InCalls(v))
          - Cardinality(Hold(HeldAt(t, n), v)) + Cardinality(Hold(HeldAt(t, n)', v))
    <3>1. HeldAt(t, n) = {} /\ HeldAt(t, n)' = {e}
      BY <1>1
    <3>2. /\ HeldAt(t, n) \subseteq Entries /\ HeldAt(t, n)' \subseteq Entries
          /\ \A u \in Threads : \A i \in 1 .. MaxDepth :
               u # t \/ i # n => HeldAt(u, i)' = HeldAt(u, i)
      BY <1>1, <3>1
    <3>3. n \in 1 .. MaxDepth
      BY <1>0
    <3> QED  BY ONLY <3>2, <3>3, OneHeld, t \in Threads
  <2>3. /\ Cardinality(Hold(HeldAt(t, n), v)) = 0
        /\ Cardinality(Hold(HeldAt(t, n)', v)) = One(Counted(e, v))
    <3>1. HeldAt(t, n) = {} /\ HeldAt(t, n)' = {e}
      BY <1>1
    <3> QED  BY <3>1, HoldOne
  <2>4. count[v] = Cardinality(InThreads(v)) + Cardinality(InPools(v))
                 + Cardinality(InObject(v)) + Cardinality(InCalls(v)) + lost[v]
        /\ lost[v] \in Nat /\ lost'[v] = lost[v]
    BY DEF Inv, CountsOwners, TypeOK
  <2>5. One(Counted(e, v)) \in Nat
    BY DEF One
  <2> QED  BY <2>1, <2>2, <2>3, <2>4, <2>5, OwnersAreNumbers
<1>5. CountsOwners'
  BY <1>4 DEF CountsOwners
<1> QED  BY <1>1, <1>2, <1>3, <1>5 DEF Inv

LEMMA SetAssociationKeeps ==
  ASSUME Inv, NEW t \in Threads, NEW k \in Keys, NEW v \in Values \cup {nil},
         NEW p \in Policies, SetAssociation(t, k, v, p)
  PROVE  Inv'
<1> DEFINE e == ObjcAssociation(k, v, p)
           f == Frame("set", "swap", k, {e})
<1>1. e \in Entries /\ f \in Frames /\ e.key = k /\ e.value = v /\ e.policy = p
  BY DEF ObjcAssociation, Entries, Frame, Frames, Places
<1>2. TypeOK /\ Calls(t) /\ Len(stack[t]) + 1 \in 1 .. MaxDepth /\ Active(t)
  BY MayCallFacts DEF Inv, SetAssociation
<1>3. /\ count' = AcquireValue(e) /\ Call(t, f)
      /\ UNCHANGED <<own, pool, entry, hasAssoc, life, late, lost>>
  BY DEF SetAssociation
<1>4. /\ f.held = {e} /\ f.op = "set" /\ f.pc = "swap" /\ f.key = k /\ k \in Places
  BY DEF Frame, Places
<1> HIDE DEF e, f
<1>5. FrameOK(f, Len(stack[t]) + 1, Len(stack[t]) + 1, pool[t])
  BY <1>1, <1>2, <1>4 DEF FrameOK
<1>6. count' \in [Values -> Nat] /\ \A w \in Values : count'[w] = count[w] + One(Counted(e, w))
  BY <1>1, <1>2, <1>3 DEF TypeOK, AcquireValue, Retained, Counted, One
<1>7. f.op \notin Ends
  BY <1>4 DEF Ends
<1> QED  BY <1>1, <1>2, <1>3, <1>4, <1>5, <1>6, <1>7, CallHolds

LEMMA SetPropertyKeeps ==
  ASSUME Inv, NEW t \in Threads, NEW v \in Values \cup {nil}, SetProperty(t, v)
  PROVE  Inv'
<1> DEFINE e == ObjcAssociation(Ivar, v, "retain")
           f == Frame("set", "swap", Ivar, {e})
<1>1. e \in Entries /\ f \in Frames /\ e.key = Ivar /\ e.value = v /\ e.policy = "retain"
  BY DEF ObjcAssociation, Entries, Frame, Frames, Places
<1>2. TypeOK /\ Calls(t) /\ Len(stack[t]) + 1 \in 1 .. MaxDepth /\ Active(t)
  BY MayCallFacts DEF Inv, SetProperty
<1>3. /\ count' = Retained(v) /\ Call(t, f)
      /\ UNCHANGED <<own, pool, entry, hasAssoc, life, late, lost>>
  BY DEF SetProperty
<1>4. /\ f.held = {e} /\ f.op = "set" /\ f.pc = "swap" /\ f.key = Ivar /\ Ivar \in Places
  BY DEF Frame, Places
<1> HIDE DEF e, f
<1>5. FrameOK(f, Len(stack[t]) + 1, Len(stack[t]) + 1, pool[t])
  BY <1>1, <1>2, <1>4 DEF FrameOK
<1>6. count' \in [Values -> Nat] /\ \A w \in Values : count'[w] = count[w] + One(Counted(e, w))
  BY <1>1, <1>2, <1>3 DEF TypeOK, Retained, Counted, One, Retains
<1>7. f.op \notin Ends
  BY <1>4 DEF Ends
<1> QED  BY <1>1, <1>2, <1>3, <1>4, <1>5, <1>6, <1>7, CallHolds

LEMMA GetKeeps ==
  ASSUME Inv, NEW t \in Threads, NEW k \in Places, Get(t, k)
  PROVE  Inv'
<1> DEFINE e == entry[k]
           f == Frame("get", "autorelease", k, {e})
<1>1. /\ e \in Entries /\ e.value \in Values /\ Retains(e.policy) /\ f \in Frames
      /\ pool[t] = nil
  BY DEF Get, Inv, TypeOK, GetterRetains, Retains, Frame, Frames, Entries
<1>2. TypeOK /\ Calls(t) /\ Len(stack[t]) + 1 \in 1 .. MaxDepth /\ Active(t)
  BY MayCallFacts DEF Inv, Get
<1>3. /\ count' = Retained(e.value) /\ Call(t, f)
      /\ UNCHANGED <<own, pool, entry, hasAssoc, life, late, lost>>
  BY DEF Get, RetainReturnedValue
<1>4. f.held = {e} /\ f.op = "get" /\ f.pc = "autorelease"
  BY DEF Frame
<1> HIDE DEF e, f
<1>5. FrameOK(f, Len(stack[t]) + 1, Len(stack[t]) + 1, pool[t])
  BY <1>1, <1>2, <1>4 DEF FrameOK
<1>6. count' \in [Values -> Nat] /\ \A w \in Values : count'[w] = count[w] + One(Counted(e, w))
  BY <1>1, <1>2, <1>3 DEF TypeOK, Retained, Counted, One
<1>7. f.op \notin Ends
  BY <1>4 DEF Ends
<1> QED  BY <1>1, <1>2, <1>3, <1>4, <1>5, <1>6, <1>7, CallHolds

LEMMA RemoveKeeps ==
  ASSUME Inv, NEW t \in Threads, RemoveAssociations(t)
  PROVE  Inv'
<1> DEFINE es == Removed(FALSE)
           f == Frame("remove", "release", Ivar, es)
<1> PICK n : n = Len(stack[t]) + 1
  OBVIOUS
<1>1. es \in SUBSET {entry[k] : k \in Places} /\ TakeOut(es)
  BY DEF Removed, Associations, Places, RemoveAssociations
<1>2. /\ TypeOK /\ MapInv /\ CallsInv /\ Calls(t) /\ n \in 1 .. MaxDepth
      /\ Active(t)
  BY MayCallFacts DEF Inv, RemoveAssociations
<1>3. /\ entry' \in [Places -> Entries] /\ MapInv' /\ es \subseteq Entries
      /\ \A k \in Places : entry'[k] = IF entry[k] \in es THEN NoEntry(k) ELSE entry[k]
      /\ \A v \in Values : Cardinality(InObject(v)')
           = Cardinality(InObject(v)) - Cardinality(Hold(es, v))
  BY <1>1, <1>2, TakenOut
<1>4. /\ f \in Frames /\ f.held = es /\ f.op = "remove" /\ f.pc = "release"
      /\ Call(t, f) /\ UNCHANGED <<count, own, pool, hasAssoc, life, late, lost>> /\ hasAssoc
  BY <1>3 DEF Frame, Frames, Places, RemoveAssociations
<1> HIDE DEF f, es
<1>5. FrameOK(f, n, n, pool'[t])
  BY <1>2, <1>4 DEF FrameOK
<1>6. /\ stack' \in [Threads -> Seq(Frames)] /\ CallsInv' /\ SameDestruction
      /\ \A u \in Threads : \A i \in 1 .. MaxDepth :
           HeldAt(u, i)' = IF u = t /\ i = n THEN f.held ELSE HeldAt(u, i)
      /\ HeldAt(t, n) = {}
  <2>1. /\ TypeOK /\ CallsInv /\ Calls(t) /\ f \in Frames /\ Call(t, f) /\ life' = life
        /\ f.op \notin Ends /\ Active(t) /\ n = Len(stack[t]) + 1
        /\ FrameOK(f, Len(stack[t]) + 1, Len(stack[t]) + 1, pool'[t])
        /\ \A u \in Threads : u # t \/ stack[t] # <<>> => pool'[u] = pool[u]
    BY <1>2, <1>4, <1>5 DEF Ends
  <2>2. /\ stack' \in [Threads -> Seq(Frames)] /\ CallsInv' /\ SameDestruction
        /\ \A u \in Threads : \A i \in 1 .. MaxDepth :
             HeldAt(u, i)' = IF u = t /\ i = Len(stack[t]) + 1 THEN f.held ELSE HeldAt(u, i)
        /\ HeldAt(t, Len(stack[t]) + 1) = {}
    BY ONLY <2>1, CallKeeps, t \in Threads
  <2> QED  BY ONLY <2>1, <2>2
<1>7. TypeOK' /\ FlagInv'
  BY <1>2, <1>3, <1>4, <1>6 DEF TypeOK, FlagInv
<1>a. GaveUpInv'
  BY <1>3, <1>4, <1>6 DEF Inv, GaveUpInv, SetLate, SameDestruction
<1>8. ASSUME NEW v \in Values
      PROVE  count'[v] = Cardinality(InThreads(v)') + Cardinality(InPools(v)')
                       + Cardinality(InObject(v)') + Cardinality(InCalls(v)') + lost'[v]
  <2>1. InThreads(v)' = InThreads(v) /\ InPools(v)' = InPools(v)
    BY <1>4 DEF InThreads, InPools
  <2>2. Cardinality(InCalls(v)') = Cardinality(InCalls(v))
          - Cardinality(Hold(HeldAt(t, n), v)) + Cardinality(Hold(HeldAt(t, n)', v))
    <3>1. HeldAt(t, n) = {} /\ HeldAt(t, n)' = es
      BY <1>2, <1>4, <1>6
    <3>2. /\ HeldAt(t, n) \subseteq Entries /\ HeldAt(t, n)' \subseteq Entries
          /\ \A u \in Threads : \A i \in 1 .. MaxDepth :
               u # t \/ i # n => HeldAt(u, i)' = HeldAt(u, i)
      BY <1>3, <1>6, <3>1
    <3>3. n \in 1 .. MaxDepth
      BY <1>2
    <3> QED  BY ONLY <3>2, <3>3, OneHeld, t \in Threads
  <2>3. /\ Cardinality(Hold(HeldAt(t, n), v)) = 0
        /\ HeldAt(t, n)' = es
    BY <1>2, <1>4, <1>6, HoldOne
  <2>4. count[v] = Cardinality(InThreads(v)) + Cardinality(InPools(v))
                 + Cardinality(InObject(v)) + Cardinality(InCalls(v)) + lost[v]
        /\ lost[v] \in Nat /\ lost'[v] = lost[v]
    BY <1>4 DEF Inv, CountsOwners, TypeOK
  <2>5. Cardinality(Hold(es, v)) \in Nat
    BY <1>3, OwnersAreNumbers
  <2> QED  BY <1>3, <1>4, <2>1, <2>2, <2>3, <2>4, <2>5, OwnersAreNumbers
<1>9. CountsOwners'
  BY <1>8 DEF CountsOwners
<1> QED  BY <1>3, <1>6, <1>7, <1>9, <1>a DEF Inv

\* The frame at the top of the calls of a thread
LEMMA TopFrame ==
  ASSUME Inv, NEW t \in Threads, NEW pc, At(t, pc)
  PROVE  /\ stack[t] # <<>> /\ Len(stack[t]) \in Nat \ {0}
         /\ Top(t) \in Frames /\ Top(t).pc = pc
         /\ FrameOK(Top(t), Len(stack[t]), Len(stack[t]), pool[t])
         /\ HeldAt(t, Len(stack[t])) = Top(t).held
         /\ Top(t).held # {} => Len(stack[t]) \in 1 .. MaxDepth
<1>1. /\ stack[t] # <<>> /\ Len(stack[t]) \in Nat \ {0} /\ stack[t] \in Seq(Frames)
      /\ Top(t) \in Frames /\ Top(t) = stack[t][Len(stack[t])]
  BY TopFacts DEF Inv, At
<1>2. FrameOK(Top(t), Len(stack[t]), Len(stack[t]), pool[t])
  BY <1>1 DEF Inv, CallsInv, FramesInv
<1>3. HeldAt(t, Len(stack[t])) = Top(t).held
  BY <1>1 DEF HeldAt
<1>4. Top(t).held # {} => Len(stack[t]) \in 1 .. MaxDepth
  BY <1>1, <1>2 DEF FrameOK
<1> QED  BY <1>1, <1>2, <1>3, <1>4 DEF At

LEMMA DestroysDying ==
  ASSUME Inv, NEW t \in Threads, Destroys(t)
  PROVE  life = "dying" /\ stack[t] # <<>> /\ stack[t][1].op \in Ends
<1>1. 1 \in 1 .. Len(stack[t])
  BY TopFacts DEF Inv, Destroys
<1> QED  BY <1>1 DEF Inv, CallsInv, OneDestroys, Destroys, Ends

LEMMA SwapKeeps ==
  ASSUME Inv, NEW t \in Threads, Swap(t)
  PROVE  Inv'
<1> PICK n : n = Len(stack[t])
  OBVIOUS
<1>1. /\ stack[t] # <<>> /\ Top(t) \in Frames /\ Top(t).pc = "swap" /\ Top(t).op = "set"
      /\ Top(t).key \in Places
      /\ HeldAt(t, n) = Top(t).held /\ Active(t)
      /\ n \in 1 .. MaxDepth
      /\ At(t, "swap") /\ TypeOK /\ MapInv /\ CallsInv /\ FlagInv
  <2>1. Top(t).held # {}
    BY TopFrame DEF Swap, FrameOK
  <2>2. Active(t)
    BY TopFrame DEF Swap, Inv, CallsInv, QuietInv, At
  <2> QED  BY <2>1, <2>2, TopFrame DEF Swap, FrameOK, Inv
<1>a. PICK k \in Places, new \in Entries :
        Top(t).held = {new} /\ new.key = k /\ Top(t).key = k
  BY <1>1, TopFrame DEF FrameOK
<1>b. PICK old \in Entries : old = entry[k]
  BY <1>1 DEF TypeOK
<1>c. PICK next \in Entries : next = IF new.value = nil THEN NoEntry(k) ELSE new
  BY DEF NoEntry, ObjcAssociation, Entries
<1>d. PICK f \in Frames :
        f = Frame("set", IF new.value # nil /\ IsFirst(k) THEN "flag" ELSE "release", k, {old})
  <2> DEFINE g == Frame("set", IF new.value # nil /\ IsFirst(k) THEN "flag" ELSE "release",
                        k, {old})
  <2>1. g \in Frames
    BY DEF Frame, Frames
  <2> HIDE DEF g
  <2>2. \E f \in Frames : f = g
    BY <2>1
  <2> QED  BY <2>2 DEF g
<1>2. /\ entry' = [entry EXCEPT ![k] = next] /\ To(t, f)
      /\ f.op = "set" /\ f.held = {old}
      /\ f.pc = IF new.value # nil /\ IsFirst(k) THEN "flag" ELSE "release"
  BY <1>a, <1>b, <1>c, <1>d DEF Swap, Swapped, Frame
<1>3. /\ UNCHANGED <<count, own, pool, hasAssoc, life, lost>>
      /\ late' = IF new.value # nil /\ GaveUp(t, k) THEN late \cup {k} ELSE late
  BY <1>a DEF Swap
<1>4. /\ stack' \in [Threads -> Seq(Frames)] /\ CallsInv' /\ SameDestruction
      /\ \A u \in Threads : u # t /\ At(u, "flag") => At(u, "flag")'
      /\ \A u \in Threads : \A i \in 1 .. MaxDepth :
           HeldAt(u, i)' = IF u = t /\ i = n THEN f.held ELSE HeldAt(u, i)
      /\ f.pc = "flag" => At(t, "flag")'
  <2>1. FrameOK(f, Len(stack[t]), Len(stack[t]), pool[t])
    BY <1>1, <1>a, <1>b, <1>c, <1>2 DEF FrameOK
  <2>2. TypeOK /\ CallsInv /\ To(t, f) /\ stack[t] # <<>> /\ pool' = pool /\ life' = life
        /\ f.op = Top(t).op /\ (f.op = "destroy" => f.pc = Top(t).pc) /\ Active(t)
    BY <1>1, <1>a, <1>b, <1>c, <1>2, <1>3
  <2>3. /\ stack' \in [Threads -> Seq(Frames)] /\ CallsInv' /\ SameDestruction
        /\ \A u \in Threads : u # t /\ At(u, "flag") => At(u, "flag")'
        /\ \A u \in Threads : \A i \in 1 .. MaxDepth :
             HeldAt(u, i)' = IF u = t /\ i = Len(stack[t]) THEN f.held ELSE HeldAt(u, i)
        /\ f.pc = "flag" => At(t, "flag")'
    BY ONLY <2>1, <2>2, ToKeeps, t \in Threads, f \in Frames
  <2> QED  BY <2>3
<1>5. TypeOK'
  BY <1>1, <1>a, <1>b, <1>c, <1>2, <1>3, <1>4 DEF TypeOK
<1>e. GaveUpInv'
  <2> SUFFICES ASSUME NEW j \in Places,
                      life' = "freed" \/ \E u \in Threads : GaveUp(u, j)'
               PROVE  entry'[j] = NoEntry(j) \/ SetLate(j)'
    BY DEF GaveUpInv
  <2>1. PICK u \in Threads : GaveUp(u, j)
    <3>1. life # "freed"
      BY <1>1, DestroysDying DEF Active
    <3> QED  BY <1>3, <1>4, <3>1 DEF SameDestruction
  <2>2. u = t
    <3>1. Destroys(u) /\ life # "live"
      BY <2>1, DestroysDying DEF GaveUp
    <3>2. Destroys(t)
      BY <1>1, <3>1 DEF Active
    <3> QED  BY <1>1, <3>1, <3>2 DEF CallsInv, OneDestroys
  <2>3. entry[j] = NoEntry(j) \/ SetLate(j)
    BY <2>1 DEF Inv, GaveUpInv
  <2>4. SetLate(j) => SetLate(j)'
    BY <1>3 DEF SetLate
  <2>5. CASE j = k
    <3>1. CASE new.value = nil
      BY <1>1, <1>2, <1>c, <2>5, <3>1 DEF TypeOK
    <3>2. CASE new.value # nil
      BY <1>3, <2>1, <2>2, <2>5, <3>2 DEF SetLate, Places
    <3> QED  BY <3>1, <3>2
  <2>6. CASE j # k
    BY <1>1, <1>2, <2>3, <2>4, <2>6 DEF TypeOK
  <2> QED  BY <2>5, <2>6
<1>6. MapInv'
  BY <1>1, <1>a, <1>b, <1>c, <1>2 DEF MapInv, TypeOK, NoEntry, ObjcAssociation
<1>7. FlagInv'
  <2>1. CASE hasAssoc \/ late \cap Keys # {}
    BY <1>3, <2>1 DEF FlagInv
  <2>2. CASE \E u \in Threads : At(u, "flag")
    BY <1>1, <1>4, <2>2 DEF FlagInv, At
  <2>3. CASE f.pc = "flag"
    BY <1>4, <2>3 DEF FlagInv
  <2>4. CASE f.pc # "flag" /\ Associations = {}
    <3>1. \A j \in Keys : entry[j].value = nil
      BY <2>4 DEF Associations
    <3>2. ASSUME NEW j \in Keys PROVE entry'[j].value = nil
      <4>1. CASE j = k
        <5>1. new.value = nil
          BY <1>b, <1>c, <1>2, <2>4, <3>1, <4>1 DEF IsFirst
        <5> QED  BY <1>1, <1>a, <1>b, <1>c, <1>2, <4>1, <5>1 DEF TypeOK, NoEntry, ObjcAssociation
      <4>2. CASE j # k
        BY <1>1, <1>a, <1>b, <1>c, <1>2, <3>1, <4>2 DEF TypeOK, Places
      <4> QED  BY <4>1, <4>2
    <3> QED  BY <3>2 DEF FlagInv, Associations
  <2> QED  BY <1>1, <2>1, <2>2, <2>3, <2>4 DEF FlagInv
<1>8. ASSUME NEW v \in Values
      PROVE  count'[v] = Cardinality(InThreads(v)') + Cardinality(InPools(v)')
                       + Cardinality(InObject(v)') + Cardinality(InCalls(v)') + lost'[v]
  <2>1. InThreads(v)' = InThreads(v) /\ InPools(v)' = InPools(v)
    BY <1>3 DEF InThreads, InPools
  <2>2. Cardinality(InCalls(v)') = Cardinality(InCalls(v))
          - One(Counted(new, v)) + One(Counted(old, v))
    <3>1. HeldAt(t, n) = {new} /\ HeldAt(t, n)' = {old}
      BY <1>1, <1>a, <1>b, <1>c, <1>2, <1>4
    <3>2. Cardinality(InCalls(v)') = Cardinality(InCalls(v))
            - Cardinality(Hold(HeldAt(t, n), v)) + Cardinality(Hold(HeldAt(t, n)', v))
      <4>1. /\ HeldAt(t, n) \subseteq Entries /\ HeldAt(t, n)' \subseteq Entries
            /\ \A u \in Threads : \A i \in 1 .. MaxDepth :
                 u # t \/ i # n => HeldAt(u, i)' = HeldAt(u, i)
        BY <1>4, <3>1
      <4>2. n \in 1 .. MaxDepth
        BY <1>1
      <4> QED  BY ONLY <4>1, <4>2, OneHeld, t \in Threads
    <3> QED  BY <3>1, <3>2, HoldOne
  <2>3. Cardinality(InObject(v)')
          = Cardinality(InObject(v)) - One(Counted(old, v)) + One(Counted(next, v))
    BY <1>1, <1>a, <1>b, <1>c, <1>2, EntryChanges
  <2>4. Counted(next, v) <=> Counted(new, v)
    BY <1>b, <1>c, <1>2 DEF Counted, NoEntry, ObjcAssociation
  <2>5. count[v] = Cardinality(InThreads(v)) + Cardinality(InPools(v))
                 + Cardinality(InObject(v)) + Cardinality(InCalls(v)) + lost[v]
        /\ lost[v] \in Nat /\ lost'[v] = lost[v]
    BY <1>3 DEF Inv, CountsOwners, TypeOK
  <2>6. One(Counted(old, v)) \in Nat /\ One(Counted(new, v)) \in Nat
        /\ One(Counted(next, v)) = One(Counted(new, v))
    BY <2>4 DEF One
  <2> QED  BY <1>3, <2>1, <2>2, <2>3, <2>5, <2>6, OwnersAreNumbers
<1>9. CountsOwners'
  BY <1>8 DEF CountsOwners
<1> QED  BY <1>4, <1>5, <1>6, <1>7, <1>9, <1>e DEF Inv

LEMMA FlagKeeps ==
  ASSUME Inv, NEW t \in Threads, SetHasAssociatedObjects(t)
  PROVE  Inv'
<1> DEFINE f == [Top(t) EXCEPT !.pc = "release"]
<1>1. /\ stack[t] # <<>> /\ f \in Frames /\ f.op = Top(t).op /\ f.held = Top(t).held
      /\ HeldAt(t, Len(stack[t])) = Top(t).held
      /\ FrameOK(f, Len(stack[t]), Len(stack[t]), pool[t])
      /\ To(t, f) /\ hasAssoc' = TRUE /\ UNCHANGED <<count, own, pool, entry, life, late, lost>>
      /\ TypeOK /\ CallsInv /\ f.pc = "release" /\ (f.op = "destroy" => f.pc = Top(t).pc)
  BY TopFrame DEF SetHasAssociatedObjects, FrameOK, Frames, Inv
<1> HIDE DEF f
<1>2. /\ stack' \in [Threads -> Seq(Frames)] /\ CallsInv' /\ SameDestruction
      /\ \A u \in Threads : \A i \in 1 .. MaxDepth :
           HeldAt(u, i)' = IF u = t /\ i = Len(stack[t]) THEN f.held ELSE HeldAt(u, i)
  BY <1>1, ToKeeps
<1>3. TypeOK' /\ MapInv' /\ GaveUpInv' /\ FlagInv'
  BY <1>1, <1>2, SameGaveUp DEF Inv, TypeOK, MapInv, FlagInv
<1>4. \A v \in Values : InCalls(v)' = InCalls(v)
  <2>1. \A u \in Threads : \A i \in 1 .. MaxDepth : HeldAt(u, i)' = HeldAt(u, i)
    BY <1>1, <1>2
  <2> QED  BY <2>1, NothingHeldChanges
<1>5. CountsOwners'
  BY <1>1, <1>4 DEF Inv, CountsOwners, InThreads, InPools, InObject, Counted
<1> QED  BY <1>2, <1>3, <1>5 DEF Inv

\* The destruction of the object ends.
LEMMA DisposeKeeps ==
  ASSUME Inv, NEW t \in Threads, stack[t] # <<>>, Top(t).op = "dispose",
         stack' = [stack EXCEPT ![t] = Pop(@)], life' = "freed",
         UNCHANGED <<pool, entry, late>>
  PROVE  /\ stack' \in [Threads -> Seq(Frames)] /\ CallsInv' /\ GaveUpInv'
         /\ \A u \in Threads : u # t /\ At(u, "flag") => At(u, "flag")'
         /\ \A u \in Threads : \A i \in 1 .. MaxDepth :
              HeldAt(u, i)' = IF u = t /\ i = Len(stack[t]) THEN {} ELSE HeldAt(u, i)
<1>1. /\ Len(stack[t]) = 1 /\ stack[t][1].op = "dispose" /\ Destroys(t)
      /\ stack[t] \in Seq(Frames) /\ TypeOK /\ life = "dying" /\ CallsInv
  <2>1. /\ Len(stack[t]) \in 1 .. Len(stack[t]) /\ Top(t) = stack[t][Len(stack[t])]
        /\ stack[t] \in Seq(Frames) /\ TypeOK
    BY TopFacts DEF Inv
  <2>2. Len(stack[t]) = 1 /\ life = "dying"
    BY <2>1 DEF Inv, CallsInv, OneDestroys, Ends
  <2> QED  BY <2>1, <2>2 DEF Destroys, Inv
<1>2. /\ stack'[t] = <<>> /\ Len(stack'[t]) = 0
      /\ \A u \in Threads : u # t => stack'[u] = stack[u]
  BY <1>1 DEF TypeOK, Pop
<1>3. stack' \in [Threads -> Seq(Frames)]
  BY <1>1, <1>2 DEF TypeOK
<1>4. \A u \in Threads : ~Destroys(u)'
  BY <1>1, <1>2 DEF CallsInv, OneDestroys, Destroys
<1>5. CallsInv'
  <2>1. FramesInv'
    BY <1>1, <1>2 DEF CallsInv, FramesInv
  <2>2. OneDestroys'
    <3> SUFFICES ASSUME NEW u \in Threads, NEW i \in 1 .. Len(stack'[u]),
                        stack'[u][i].op \in Ends
                 PROVE  FALSE
      BY <1>4 DEF OneDestroys
    <3>1. u # t /\ stack'[u] = stack[u]
      BY <1>2
    <3>2. i = 1 /\ stack[u] \in Seq(Frames) /\ stack[u] # <<>>
      BY <1>1, <3>1 DEF CallsInv, OneDestroys, TypeOK
    <3>3. Destroys(u)
      BY <3>1, <3>2 DEF Destroys, Ends
    <3> QED  BY <1>1, <3>1, <3>3 DEF CallsInv, OneDestroys
  <2>3. QuietInv'
    <3> SUFFICES ASSUME NEW u \in Threads
                 PROVE  stack'[u] = <<>> \/ Top(u)'.pc \in {"release", "dealloc"}
      BY DEF QuietInv
    <3>1. CASE u # t
      BY <1>1, <1>2, <3>1 DEF CallsInv, QuietInv, Active, OneDestroys, Top
    <3> QED  BY <1>2, <3>1
  <2> QED  BY <2>1, <2>2, <2>3 DEF CallsInv
<1>6. GaveUpInv'
  <2>1. \A k \in Places : GaveUp(t, k)
    BY <1>1 DEF GaveUp
  <2> QED  BY <2>1, GaveUpKept DEF Inv
<1>7. ASSUME NEW u \in Threads, u # t, At(u, "flag") PROVE At(u, "flag")'
  BY <1>2, <1>7 DEF At, Top
<1>8. ASSUME NEW u \in Threads, NEW i \in 1 .. MaxDepth
      PROVE  HeldAt(u, i)' = IF u = t /\ i = Len(stack[t]) THEN {} ELSE HeldAt(u, i)
  BY <1>1, <1>2 DEF HeldAt
<1> QED  BY <1>3, <1>5, <1>6, <1>7, <1>8

LEMMA ReturnKeeps ==
  ASSUME Inv, NEW t \in Threads, Return(t)
  PROVE  Inv'
<1>1. /\ stack[t] # <<>> /\ HeldAt(t, Len(stack[t])) = {}
      /\ Top(t).pc # "flag" /\ Top(t).op # "destroy"
      /\ TypeOK /\ CallsInv
  BY TopFrame DEF Return, FrameOK, Inv
<1>2. /\ life' = IF Top(t).op = "dispose" THEN "freed" ELSE life
      /\ stack' = [stack EXCEPT ![t] = Pop(@)]
      /\ UNCHANGED <<count, own, pool, entry, hasAssoc, late, lost>>
  BY DEF Return
<1>3. /\ stack' \in [Threads -> Seq(Frames)] /\ CallsInv' /\ GaveUpInv'
      /\ \A u \in Threads : u # t /\ At(u, "flag") => At(u, "flag")'
      /\ \A u \in Threads : \A i \in 1 .. MaxDepth :
           HeldAt(u, i)' = IF u = t /\ i = Len(stack[t]) THEN {} ELSE HeldAt(u, i)
  <2>1. CASE Top(t).op # "dispose"
    <3>1. Top(t).op \notin Ends /\ life' = life
      BY <1>1, <1>2, <2>1 DEF Ends
    <3>2. /\ stack' \in [Threads -> Seq(Frames)] /\ CallsInv' /\ SameDestruction
          /\ \A u \in Threads : u # t /\ At(u, "flag") => At(u, "flag")'
          /\ \A u \in Threads : \A i \in 1 .. MaxDepth :
               HeldAt(u, i)' = IF u = t /\ i = Len(stack[t]) THEN {} ELSE HeldAt(u, i)
      BY <1>1, <1>2, <3>1, PopKeeps
    <3> QED  BY <1>2, <3>1, <3>2, SameGaveUp DEF Inv
  <2>2. CASE Top(t).op = "dispose"
    BY <1>1, <1>2, <2>2, DisposeKeeps DEF Inv
  <2> QED  BY <2>1, <2>2
<1>4. TypeOK' /\ MapInv'
  BY <1>1, <1>2, <1>3 DEF Inv, TypeOK, MapInv
<1>5. FlagInv'
  BY <1>1, <1>2, <1>3 DEF Inv, FlagInv, Associations, At
<1>6. \A v \in Values : InCalls(v)' = InCalls(v)
  <2>1. \A u \in Threads : \A i \in 1 .. MaxDepth : HeldAt(u, i)' = HeldAt(u, i)
    BY <1>1, <1>3
  <2> QED  BY <2>1, NothingHeldChanges
<1>7. CountsOwners'
  BY <1>2, <1>6 DEF Inv, CountsOwners, InThreads, InPools, InObject, Counted
<1> QED  BY <1>3, <1>4, <1>5, <1>7 DEF Inv

LEMMA AutoreleaseKeeps ==
  ASSUME Inv, NEW t \in Threads, Autorelease(t)
  PROVE  Inv'
<1> PICK n : n = Len(stack[t])
  OBVIOUS
<1>1. PICK e \in Entries :
        /\ Top(t).held = {e} /\ e.value \in Values /\ Retains(e.policy)
        /\ pool[t] = nil
  BY TopFrame DEF Autorelease, FrameOK
<1>2. /\ stack[t] # <<>> /\ HeldAt(t, n) = {e} /\ n \in 1 .. MaxDepth
      /\ Top(t).pc = "autorelease" /\ Top(t).op \notin Ends
      /\ TypeOK /\ CallsInv
  <2>1. /\ stack[t] # <<>> /\ HeldAt(t, n) = {e} /\ n \in 1 .. MaxDepth
        /\ Top(t).pc = "autorelease" /\ FrameOK(Top(t), n, n, pool[t])
    BY <1>1, TopFrame DEF Autorelease
  <2> QED  BY <2>1 DEF FrameOK, Inv, Ends
<1>3. /\ pool' = [pool EXCEPT ![t] = e.value]
      /\ stack' = [stack EXCEPT ![t] = Pop(@)]
      /\ UNCHANGED <<count, own, entry, hasAssoc, life, late, lost>>
  BY <1>1 DEF Autorelease
<1>4. /\ stack' \in [Threads -> Seq(Frames)] /\ CallsInv' /\ SameDestruction
      /\ \A u \in Threads : u # t /\ At(u, "flag") => At(u, "flag")'
      /\ \A u \in Threads : \A i \in 1 .. MaxDepth :
           HeldAt(u, i)' = IF u = t /\ i = n THEN {} ELSE HeldAt(u, i)
  <2>1. /\ \A u \in Threads : u # t => pool'[u] = pool[u]
        /\ life' = life
    BY <1>2, <1>3 DEF TypeOK
  <2>2. /\ stack' \in [Threads -> Seq(Frames)] /\ CallsInv' /\ SameDestruction
        /\ \A u \in Threads : u # t /\ At(u, "flag") => At(u, "flag")'
        /\ \A u \in Threads : \A i \in 1 .. MaxDepth :
             HeldAt(u, i)' = IF u = t /\ i = Len(stack[t]) THEN {} ELSE HeldAt(u, i)
    BY <1>2, <1>3, <2>1, PopKeeps
  <2> QED  BY <2>2
<1>5. TypeOK' /\ MapInv' /\ GaveUpInv'
  BY <1>1, <1>2, <1>3, <1>4, SameGaveUp DEF Inv, TypeOK, MapInv
<1>6. FlagInv'
  BY <1>2, <1>3, <1>4 DEF Inv, FlagInv, Associations, At
<1>7. ASSUME NEW v \in Values
      PROVE  count'[v] = Cardinality(InThreads(v)') + Cardinality(InPools(v)')
                       + Cardinality(InObject(v)') + Cardinality(InCalls(v)') + lost'[v]
  <2>1. InThreads(v)' = InThreads(v) /\ InObject(v)' = InObject(v)
    BY <1>3 DEF InThreads, InObject, Counted
  <2>2. Cardinality(InCalls(v)') = Cardinality(InCalls(v)) - One(Counted(e, v))
    <3>1. HeldAt(t, n) = {e} /\ HeldAt(t, n)' = {}
      BY <1>2, <1>4
    <3>2. Cardinality(InCalls(v)') = Cardinality(InCalls(v))
            - Cardinality(Hold(HeldAt(t, n), v)) + Cardinality(Hold(HeldAt(t, n)', v))
      <4>1. /\ HeldAt(t, n) \subseteq Entries /\ HeldAt(t, n)' \subseteq Entries
            /\ \A u \in Threads : \A i \in 1 .. MaxDepth :
                 u # t \/ i # n => HeldAt(u, i)' = HeldAt(u, i)
        BY <1>4, <3>1
      <4>2. n \in 1 .. MaxDepth
        BY <1>2
      <4> QED  BY ONLY <4>1, <4>2, OneHeld, t \in Threads
    <3>3. One(Counted(e, v)) \in Nat
      BY DEF One
    <3>4. /\ Cardinality(Hold({e}, v)) = One(Counted(e, v))
          /\ Cardinality(Hold({}, v)) = 0
      BY HoldOne
    <3>5. Cardinality(InCalls(v)) \in Nat
      BY OwnersAreNumbers
    <3> QED  BY ONLY <3>1, <3>2, <3>3, <3>4, <3>5
  <2>3. Cardinality(InPools(v)')
          = Cardinality(InPools(v)) - One(pool[t] = v) + One(e.value = v)
    <3>1. TypeOK /\ pool' = [pool EXCEPT ![t] = e.value]
      BY <1>2, <1>3
    <3> QED  BY ONLY <3>1, PoolChanges, t \in Threads, v \in Values DEF One
  <2>4. One(pool[t] = v) = 0 /\ One(e.value = v) = One(Counted(e, v))
        /\ One(Counted(e, v)) \in Nat
    BY <1>1 DEF One, Counted
  <2>5. count[v] = Cardinality(InThreads(v)) + Cardinality(InPools(v))
                 + Cardinality(InObject(v)) + Cardinality(InCalls(v)) + lost[v]
        /\ lost[v] \in Nat /\ lost'[v] = lost[v]
    BY <1>3 DEF Inv, CountsOwners, TypeOK
  <2> QED  BY <1>3, <2>1, <2>2, <2>3, <2>4, <2>5, OwnersAreNumbers
<1>8. CountsOwners'
  BY <1>7 DEF CountsOwners
<1> QED  BY <1>4, <1>5, <1>6, <1>8 DEF Inv

\* A release goes on with the -dealloc of the value.
LEMMA DeallocKeeps ==
  ASSUME TypeOK, CallsInv, NEW t \in Threads, NEW f \in Frames, NEW d \in Frames,
         stack[t] # <<>>, Top(t).pc = "release",
         stack' = [stack EXCEPT ![t] = Append(Replace(stack[t], f), d)],
         d.op = "dealloc", d.pc = "dealloc", d.held = {}, pool' = pool, life' = life,
         f.op = Top(t).op, f.pc = "release",
         FrameOK(f, Len(stack[t]), Len(stack[t]), pool[t])
  PROVE  /\ stack' \in [Threads -> Seq(Frames)] /\ CallsInv' /\ SameDestruction
         /\ \A u \in Threads : At(u, "flag") => At(u, "flag")'
         /\ \A u \in Threads : \A i \in 1 .. MaxDepth :
              HeldAt(u, i)' = IF u = t /\ i = Len(stack[t]) THEN f.held ELSE HeldAt(u, i)
<1> DEFINE n == Len(stack[t])
           s == Replace(stack[t], f)
<1>1. /\ stack[t] \in Seq(Frames) /\ n \in Nat \ {0}
      /\ s \in Seq(Frames) /\ Len(s) = n /\ s[n] = f
      /\ \A i \in 1 .. n : i # n => s[i] = stack[t][i]
  BY TopFacts, ExceptSeq DEF Replace
<1>2. /\ stack'[t] = Append(s, d)
      /\ \A u \in Threads : u # t => stack'[u] = stack[u]
      /\ \A u \in Threads : stack[u] \in Seq(Frames)
  BY DEF TypeOK
<1> HIDE DEF s
<1>3. /\ stack'[t] \in Seq(Frames) /\ Len(stack'[t]) = n + 1
      /\ stack'[t][n + 1] = d /\ stack'[t][n] = f
      /\ \A i \in 1 .. n : i # n => stack'[t][i] = stack[t][i]
  <2>1. /\ Append(s, d) \in Seq(Frames) /\ Len(Append(s, d)) = n + 1
        /\ Append(s, d)[n + 1] = d /\ \A i \in 1 .. n : Append(s, d)[i] = s[i]
    BY <1>1, AppendProperties
  <2>2. n \in 1 .. n
    BY <1>1
  <2> QED  BY <1>1, <1>2, <2>1, <2>2
<1>4. stack' \in [Threads -> Seq(Frames)]
  BY <1>1, <1>2, <1>3 DEF TypeOK, s
<1>5. Top(t) = stack[t][n] /\ n \in 1 .. n
  BY <1>1 DEF Top
<1>6. SameDestruction
  <2>1. stack[t] # <<>> /\ stack'[t] # <<>>
    BY <1>1, <1>3
  <2>2. stack'[t][1].op = stack[t][1].op /\ stack'[t][1].pc = stack[t][1].pc
    BY <1>1, <1>3, <1>5
  <2> QED  BY <1>2, <1>4, <2>1, <2>2, SameBase
<1>7. CallsInv'
  <2>1. ASSUME NEW i \in 1 .. Len(stack'[t])
        PROVE  /\ FrameOK(stack'[t][i], i, Len(stack'[t]), pool'[t])
               /\ stack'[t][i].op \in Ends => i = 1 /\ life = "dying"
    <3>1. CASE i = n + 1
      BY <1>1, <1>3, <3>1 DEF FrameOK, Ends
    <3>2. CASE i = n
      <4>1. stack[t][n].op \in Ends => n = 1 /\ life = "dying"
        BY <1>5 DEF CallsInv, OneDestroys
      <4>2. FrameOK(f, n, n + 1, pool[t])
        BY <1>1 DEF FrameOK
      <4> QED  BY <1>3, <1>5, <3>2, <4>1, <4>2
    <3>3. CASE i # n /\ i # n + 1
      <4>0. i \in 1 .. n + 1
        BY <1>3
      <4>1. i \in 1 .. n /\ i < n /\ stack'[t][i] = stack[t][i]
        BY <1>1, <1>3, <3>3, <4>0
      <4>2. /\ FrameOK(stack[t][i], i, n, pool[t])
            /\ stack[t][i].op \in Ends => i = 1 /\ life = "dying"
        BY <4>1 DEF CallsInv, FramesInv, OneDestroys
      <4> QED  BY <1>3, <3>3, <4>1, <4>2 DEF FrameOK
    <3> QED  BY <3>1, <3>2, <3>3
  <2>2. \A u \in Threads : u # t => stack'[u] = stack[u] /\ pool'[u] = pool[u]
    BY <1>2
  <2>3. stack'[t][Len(stack'[t])].pc \in {"release", "dealloc"}
    BY <1>3
  <2> QED  BY <1>4, <1>6, <2>1, <2>2, <2>3, CallsKept
<1>8. ASSUME NEW u \in Threads, At(u, "flag") PROVE At(u, "flag")'
  BY <1>2, <1>8 DEF At, Top
<1>9. ASSUME NEW u \in Threads, NEW i \in 1 .. MaxDepth
      PROVE  HeldAt(u, i)' = IF u = t /\ i = n THEN f.held ELSE HeldAt(u, i)
  <2>1. CASE u # t
    BY <1>2, <2>1 DEF HeldAt
  <2>2. CASE u = t /\ i = n
    BY <1>1, <1>3, <2>2 DEF HeldAt
  <2>3. CASE u = t /\ i # n
    <3>1. i \in DOMAIN stack'[t] <=> i \in 1 .. n \/ i = n + 1
      BY <1>1, <1>3, <2>3
    <3>2. i \in DOMAIN stack[t] <=> i \in 1 .. n
      BY <1>1
    <3>3. i \in 1 .. n => stack'[t][i] = stack[t][i]
      BY <1>3, <2>3
    <3>4. i = n + 1 => i \notin 1 .. n /\ stack'[t][i].held = {}
      BY <1>1, <1>3
    <3>5. CASE i \in 1 .. n
      BY <2>3, <3>1, <3>2, <3>3, <3>5 DEF HeldAt
    <3>6. CASE i = n + 1
      <4>1. HeldAt(t, i) = {}
        BY <3>2, <3>4, <3>6 DEF HeldAt
      <4>2. HeldAt(t, i)' = stack'[t][i].held
        BY <3>1, <3>6 DEF HeldAt
      <4> QED  BY <2>3, <3>4, <3>6, <4>1, <4>2
    <3>7. CASE i \notin 1 .. n /\ i # n + 1
      BY <2>3, <3>1, <3>2, <3>7 DEF HeldAt
    <3> QED  BY <3>5, <3>6, <3>7
  <2> QED  BY <2>1, <2>2, <2>3
<1> QED  BY <1>4, <1>6, <1>7, <1>8, <1>9

LEMMA HoldLess ==
  ASSUME NEW H \in SUBSET Entries, NEW e \in H, NEW v
  PROVE  Cardinality(Hold(H \ {e}, v)) = Cardinality(Hold(H, v)) - One(Counted(e, v))
<1>1. Hold(H, v) \ {e} = Hold(H \ {e}, v) \ {e}
  BY DEF Hold
<1>2. IsFiniteSet(Hold(H, v)) /\ IsFiniteSet(Hold(H \ {e}, v))
  BY OwnersFinite
<1>3. (e \in Hold(H, v) <=> Counted(e, v)) /\ e \notin Hold(H \ {e}, v)
  BY DEF Hold
<1>4. Cardinality(Hold(H \ {e}, v))
        = Cardinality(Hold(H, v)) - One(e \in Hold(H, v)) + One(e \in Hold(H \ {e}, v))
  BY <1>1, <1>2, OneDiffers
<1>5. Cardinality(Hold(H, v)) \in Nat
  BY OwnersAreNumbers
<1> QED  BY <1>3, <1>4, <1>5 DEF One

LEMMA ReleaseKeeps ==
  ASSUME Inv, NEW t \in Threads, Release(t)
  PROVE  Inv'
<1> PICK n : n = Len(stack[t])
  OBVIOUS
<1> PICK H : H = Top(t).held
  OBVIOUS
<1>1. /\ stack[t] # <<>> /\ Top(t) \in Frames /\ Top(t).pc = "release"
      /\ FrameOK(Top(t), n, n, pool[t])
      /\ HeldAt(t, n) = H /\ H \subseteq Entries
      /\ n \in 1 .. MaxDepth
      /\ TypeOK /\ CallsInv /\ FlagInv
  BY TopFrame DEF Release, Inv, Frames
<1>2. PICK e \in H :
        IF e.value # nil /\ Retains(e.policy)
          THEN /\ count' = [count EXCEPT ![e.value] = @ - 1]
               /\ stack' = [stack EXCEPT ![t] =
                    IF count[e.value] = 1
                      THEN Append(Replace(stack[t], [Top(t) EXCEPT !.held = @ \ {e}]),
                                  Dealloc(e.value))
                      ELSE Replace(stack[t], [Top(t) EXCEPT !.held = @ \ {e}])]
          ELSE /\ UNCHANGED count
               /\ stack' = [stack EXCEPT ![t] =
                              Replace(stack[t], [Top(t) EXCEPT !.held = @ \ {e}])]
  BY DEF Release
<1>3. PICK f \in Frames : f = [Top(t) EXCEPT !.held = @ \ {e}]
  <2>1. [Top(t) EXCEPT !.held = @ \ {e}] \in Frames
    BY <1>1 DEF Frames
  <2> QED  BY <2>1
<1>4. /\ f.op = Top(t).op /\ f.pc = "release" /\ f.held = H \ {e}
      /\ FrameOK(f, n, n, pool[t])
  BY <1>1, <1>3 DEF FrameOK, Frames
<1>5. UNCHANGED <<own, pool, entry, hasAssoc, life, late, lost>>
  BY DEF Release
<1>6. /\ stack' \in [Threads -> Seq(Frames)] /\ CallsInv' /\ SameDestruction
      /\ \A u \in Threads : At(u, "flag") => At(u, "flag")'
      /\ \A u \in Threads : \A i \in 1 .. MaxDepth :
           HeldAt(u, i)' = IF u = t /\ i = n THEN f.held ELSE HeldAt(u, i)
  <2>0. /\ stack[t] # <<>> /\ Top(t).pc = "release" /\ pool' = pool /\ life' = life
        /\ f.op = Top(t).op /\ f.pc = "release" /\ TypeOK /\ CallsInv
        /\ (f.op = "destroy" => f.pc = Top(t).pc)
        /\ FrameOK(f, Len(stack[t]), Len(stack[t]), pool[t])
    BY <1>1, <1>4, <1>5
  <2>1. CASE stack' = [stack EXCEPT ![t] = Replace(stack[t], f)]
    <3>1. To(t, f)
      BY <2>1 DEF To
    <3>2. /\ stack' \in [Threads -> Seq(Frames)] /\ CallsInv' /\ SameDestruction
          /\ \A u \in Threads : u # t /\ At(u, "flag") => At(u, "flag")'
          /\ \A u \in Threads : \A i \in 1 .. MaxDepth :
               HeldAt(u, i)' = IF u = t /\ i = Len(stack[t]) THEN f.held ELSE HeldAt(u, i)
      BY ONLY <2>0, <3>1, ToKeeps, t \in Threads, f \in Frames
    <3> QED  BY <1>1, <3>2 DEF At
  <2>2. CASE \E v \in Values : stack' = [stack EXCEPT ![t] = Append(Replace(stack[t], f), Dealloc(v))]
    <3>1. PICK v \in Values :
            stack' = [stack EXCEPT ![t] = Append(Replace(stack[t], f), Dealloc(v))]
      BY <2>2
    <3>2. PICK d \in Frames : d = Dealloc(v)
      BY DEF Dealloc, Frame, Frames
    <3>3. /\ d.op = "dealloc" /\ d.pc = "dealloc" /\ d.held = {}
          /\ stack' = [stack EXCEPT ![t] = Append(Replace(stack[t], f), d)]
      BY <3>1, <3>2 DEF Dealloc, Frame
    <3>4. /\ stack' \in [Threads -> Seq(Frames)] /\ CallsInv' /\ SameDestruction
          /\ \A u \in Threads : At(u, "flag") => At(u, "flag")'
          /\ \A u \in Threads : \A i \in 1 .. MaxDepth :
               HeldAt(u, i)' = IF u = t /\ i = Len(stack[t]) THEN f.held ELSE HeldAt(u, i)
      BY ONLY <2>0, <3>3, DeallocKeeps, t \in Threads, f \in Frames, d \in Frames
    <3> QED  BY <3>4
  <2>3. e.value \in Values \cup {nil}
    BY <1>1 DEF Entries
  <2> QED  BY <1>2, <1>3, <2>1, <2>2, <2>3
<1>7. ASSUME NEW v \in Values
      PROVE  /\ count'[v] = count[v] - One(Counted(e, v))
             /\ count'[v] = Cardinality(InThreads(v)') + Cardinality(InPools(v)')
                          + Cardinality(InObject(v)') + Cardinality(InCalls(v)') + lost'[v]
  <2>1. InThreads(v)' = InThreads(v) /\ InPools(v)' = InPools(v) /\ InObject(v)' = InObject(v)
    BY <1>5 DEF InThreads, InPools, InObject, Counted
  <2>2. count'[v] = count[v] - One(Counted(e, v))
    BY <1>1, <1>2 DEF Counted, One, TypeOK
  <2>3. Cardinality(InCalls(v)') = Cardinality(InCalls(v)) - One(Counted(e, v))
    <3>1. HeldAt(t, n) = H /\ HeldAt(t, n)' = H \ {e}
      BY <1>1, <1>4, <1>6
    <3>2. Cardinality(InCalls(v)') = Cardinality(InCalls(v))
            - Cardinality(Hold(HeldAt(t, n), v)) + Cardinality(Hold(HeldAt(t, n)', v))
      <4>1. /\ HeldAt(t, n) \subseteq Entries /\ HeldAt(t, n)' \subseteq Entries
            /\ \A u \in Threads : \A i \in 1 .. MaxDepth :
                 u # t \/ i # n => HeldAt(u, i)' = HeldAt(u, i)
        BY <1>1, <1>6, <3>1
      <4>2. n \in 1 .. MaxDepth
        BY <1>1
      <4> QED  BY ONLY <4>1, <4>2, OneHeld, t \in Threads
    <3>3. Cardinality(Hold(H \ {e}, v)) = Cardinality(Hold(H, v)) - One(Counted(e, v))
      BY <1>1, HoldLess
    <3>4. Cardinality(Hold(H, v)) \in Nat /\ One(Counted(e, v)) \in Nat
      BY <1>1, OwnersAreNumbers DEF One
    <3> QED  BY <3>1, <3>2, <3>3, <3>4, OwnersAreNumbers
  <2>4. count[v] = Cardinality(InThreads(v)) + Cardinality(InPools(v))
                 + Cardinality(InObject(v)) + Cardinality(InCalls(v)) + lost[v]
        /\ lost[v] \in Nat /\ lost'[v] = lost[v]
    BY <1>5 DEF Inv, CountsOwners, TypeOK
  <2>5. One(Counted(e, v)) \in Nat
    BY DEF One
  <2> QED  BY <2>1, <2>2, <2>3, <2>4, <2>5, OwnersAreNumbers
<1>8. CountsOwners'
  BY <1>7 DEF CountsOwners
<1>9. count' \in [Values -> Nat]
  <2>1. \A v \in Values : count'[v] \in Nat
    <3> SUFFICES ASSUME NEW v \in Values PROVE count'[v] \in Nat
      OBVIOUS
    <3>1. lost'[v] \in Nat
      BY <1>1, <1>5 DEF TypeOK
    <3>2. count'[v] = Cardinality(InThreads(v)') + Cardinality(InPools(v)')
                    + Cardinality(InObject(v)') + Cardinality(InCalls(v)') + lost'[v]
      BY <1>7
    <3> QED  BY <3>1, <3>2, OwnersAreNumbers
  <2>2. count' = [v \in Values |-> count'[v]]
    BY <1>1, <1>2 DEF TypeOK
  <2> QED  BY <2>1, <2>2
<1>10. TypeOK' /\ MapInv' /\ GaveUpInv'
  BY <1>5, <1>6, <1>9, SameGaveUp DEF Inv, TypeOK, MapInv
<1>11. FlagInv'
  BY <1>1, <1>5, <1>6 DEF FlagInv, Associations
<1> QED  BY <1>6, <1>8, <1>10, <1>11 DEF Inv

LEMMA NoEntryIsNil ==
  ASSUME NEW k
  PROVE  NoEntry(k).value = nil
BY DEF NoEntry, ObjcAssociation

LEMMA NoAssociations ==
  /\ Associations = {} <=> \A k \in Keys : entry[k].value = nil
  /\ Associations' = {} <=> \A k \in Keys : entry'[k].value = nil
BY DEF Associations

\* The object's -dealloc is called.
LEMMA DestroyKeeps ==
  ASSUME Inv, NEW t \in Threads, Destroy(t)
  PROVE  Inv'
<1> PICK f \in Frames : f = Frame("destroy", "dealloc", Ivar, {})
  BY DEF Frame, Frames, Places
<1>1. /\ \A u \in Threads : stack[u] = <<>>
      /\ life = "live" /\ life' = "dying"
      /\ UNCHANGED <<count, own, pool, entry, hasAssoc, late, lost>>
      /\ f.held = {} /\ f.op = "destroy" /\ f.pc = "dealloc" /\ TypeOK
      /\ stack' = [stack EXCEPT ![t] = <<f>>]
  <2>1. stack[t] = <<>> /\ Append(<<>>, f) = <<f>>
    BY DEF Destroy
  <2> QED  BY <2>1 DEF Inv, Destroy, Frame, Call
<1>2. /\ stack' \in [Threads -> Seq(Frames)]
      /\ \A u \in Threads : u # t => stack'[u] = <<>> /\ Len(stack'[u]) = 0
      /\ stack'[t] # <<>> /\ Len(stack'[t]) = 1 /\ stack'[t][1] = f
  <2>1. <<f>> \in Seq(Frames) /\ Len(<<f>>) = 1 /\ <<f>>[1] = f /\ <<f>> # <<>>
    OBVIOUS
  <2>2. <<>> \in Seq(Frames) /\ Len(<<>>) = 0
    OBVIOUS
  <2>3. stack'[t] = <<f>> /\ \A u \in Threads : u # t => stack'[u] = <<>>
    BY <1>1 DEF TypeOK
  <2>4. stack' = [u \in Threads |-> stack'[u]]
    BY <1>1 DEF TypeOK
  <2> QED  BY ONLY <2>1, <2>2, <2>3, <2>4
<1>3. CallsInv'
  <2>1. FramesInv'
    <3> SUFFICES ASSUME NEW u \in Threads, NEW i \in 1 .. Len(stack'[u])
                 PROVE  FrameOK(stack'[u][i], i, Len(stack'[u]), pool'[u])
      BY DEF FramesInv
    <3>1. u = t /\ i = 1
      <4>1. u = t
        BY <1>2
      <4>2. i \in 1 .. 1
        BY <1>2, <4>1
      <4> QED  BY <4>1, <4>2
    <3> QED  BY <1>1, <1>2, <3>1 DEF FrameOK
  <2>2. OneDestroys'
    <3>1. ASSUME NEW u \in Threads, NEW i \in 1 .. Len(stack'[u]) PROVE i = 1
      <4>1. u = t
        BY <1>2
      <4>2. i \in 1 .. 1
        BY <1>2, <4>1
      <4> QED  BY <4>2
    <3>2. \A u \in Threads : Destroys(u)' => u = t
      BY <1>2 DEF Destroys
    <3> QED  BY <1>1, <3>1, <3>2 DEF OneDestroys
  <2>3. QuietInv'
    BY <1>1, <1>2 DEF QuietInv, Top
  <2> QED  BY <2>1, <2>2, <2>3 DEF CallsInv
<1>4. GaveUpInv'
  <2>1. \A u \in Threads : \A k \in Places : ~GaveUp(u, k)'
    BY <1>1, <1>2 DEF GaveUp, Destroys
  <2> QED  BY <1>1, <2>1, GaveUpKept DEF Inv
<1>5. TypeOK' /\ MapInv'
  BY <1>1, <1>2 DEF Inv, TypeOK, MapInv
<1>6. FlagInv'
  BY <1>1 DEF Inv, FlagInv, Associations, At
<1>7. \A v \in Values : InCalls(v)' = InCalls(v)
  <2>1. \A u \in Threads : \A i \in 1 .. MaxDepth : HeldAt(u, i)' = HeldAt(u, i)
    <3> SUFFICES ASSUME NEW u \in Threads, NEW i \in 1 .. MaxDepth
                 PROVE  HeldAt(u, i)' = {} /\ HeldAt(u, i) = {}
      OBVIOUS
    <3>1. HeldAt(u, i) = {}
      BY <1>1 DEF HeldAt
    <3>2. HeldAt(u, i)' = {}
      <4>1. CASE u # t
        BY <1>2, <4>1 DEF HeldAt
      <4>2. CASE u = t
        <5>1. i \in DOMAIN stack'[t] => i = 1
          BY <1>2
        <5> QED  BY <1>1, <1>2, <4>2, <5>1 DEF HeldAt
      <4> QED  BY <4>1, <4>2
    <3> QED  BY <3>1, <3>2
  <2> QED  BY <2>1, NothingHeldChanges
<1>8. CountsOwners'
  BY <1>1, <1>7 DEF Inv, CountsOwners, InThreads, InPools, InObject, Counted
<1> QED  BY <1>3, <1>4, <1>5, <1>6, <1>8 DEF Inv

\* The call that destroys the object is the outermost one of its thread.
LEMMA DestroyFrame ==
  ASSUME Inv, NEW t \in Threads, stack[t] # <<>>, Top(t).op = "destroy"
  PROVE  /\ Len(stack[t]) = 1 /\ stack[t][1] = Top(t) /\ Destroys(t)
         /\ stack[t] \in Seq(Frames) /\ life = "dying"
         /\ \A u \in Threads : Destroys(u) => u = t
         /\ \A u \in Threads : ~At(u, "flag")
<1>1. /\ Len(stack[t]) \in 1 .. Len(stack[t]) /\ Top(t) = stack[t][Len(stack[t])]
      /\ stack[t] \in Seq(Frames) /\ TypeOK
  BY TopFacts DEF Inv
<1>2. Len(stack[t]) = 1 /\ life = "dying"
  BY <1>1 DEF Inv, CallsInv, OneDestroys, Ends
<1>3. Destroys(t) /\ \A u \in Threads : Destroys(u) => u = t
  BY <1>1, <1>2 DEF Destroys, Inv, CallsInv, OneDestroys
<1>4. ASSUME NEW u \in Threads, At(u, "flag") PROVE FALSE
  <2>1. u = t
    BY <1>2, <1>3, <1>4 DEF At, Inv, CallsInv, QuietInv, Active
  <2> QED  BY <1>4, <2>1, TopFrame DEF FrameOK
<1> QED  BY <1>1, <1>2, <1>3, <1>4

\* The destruction of the object takes out something that it holds.
LEMMA TakesOut ==
  ASSUME Inv, NEW t \in Threads, stack[t] # <<>>, Top(t).op = "destroy", Top(t).held = {},
         NEW op \in Ends, NEW held \in SUBSET {entry[k] : k \in Places}, TakeOut(held),
         To(t, Frame(op, "release", Ivar, held)),
         UNCHANGED <<count, own, pool, hasAssoc, life, late, lost>>, GaveUpInv'
  PROVE  Inv'
<1>1. /\ entry' \in [Places -> Entries] /\ MapInv' /\ held \subseteq Entries
      /\ \A k \in Places : entry'[k] = IF entry[k] \in held THEN NoEntry(k) ELSE entry[k]
      /\ \A v \in Values : Cardinality(InObject(v)')
           = Cardinality(InObject(v)) - Cardinality(Hold(held, v))
  BY TakenOut DEF Inv
<1>2. PICK f \in Frames : f = Frame(op, "release", Ivar, held)
  <2>1. Frame(op, "release", Ivar, held) \in Frames
    BY <1>1 DEF Frame, Frames, Places, Ends
  <2> QED  BY <2>1
<1>3. /\ f.held = held /\ f.op \in Ends /\ f.pc = "release"
  BY <1>2 DEF Frame
<1>4. /\ Len(stack[t]) = 1 /\ Destroys(t) /\ stack[t] \in Seq(Frames) /\ stack[t][1] = Top(t)
      /\ life = "dying" /\ TypeOK /\ CallsInv /\ \A u \in Threads : ~At(u, "flag")
  BY DestroyFrame DEF Inv
<1>5. /\ stack'[t] \in Seq(Frames) /\ Len(stack'[t]) = 1 /\ stack'[t][1] = f
      /\ stack'[t] # <<>> /\ \A u \in Threads : u # t => stack'[u] = stack[u]
      /\ stack' \in [Threads -> Seq(Frames)]
  <2>1. stack'[t] = [stack[t] EXCEPT ![1] = f] /\ \A u \in Threads : u # t => stack'[u] = stack[u]
    BY <1>2, <1>4 DEF To, Replace, TypeOK
  <2>2. stack'[t] \in Seq(Frames) /\ Len(stack'[t]) = 1 /\ stack'[t][1] = f
    BY <1>4, <2>1, ExceptSeq
  <2>3. stack' \in [Threads -> Seq(Frames)]
    BY <2>1, <2>2, <1>4 DEF To, TypeOK
  <2> QED  BY <2>1, <2>2, <2>3
<1>6. CallsInv'
  <2>1. FramesInv'
    <3> SUFFICES ASSUME NEW u \in Threads, NEW i \in 1 .. Len(stack'[u])
                 PROVE  FrameOK(stack'[u][i], i, Len(stack'[u]), pool'[u])
      BY DEF FramesInv
    <3>1. CASE u # t
      BY <1>4, <1>5, <3>1 DEF CallsInv, FramesInv
    <3>2. CASE u = t
      <4>1. i \in 1 .. 1
        BY <1>5, <3>2
      <4>2. i = 1
        BY <4>1
      <4> QED  BY <1>3, <1>5, <3>2, <4>2 DEF FrameOK, Ends
    <3> QED  BY <3>1, <3>2
  <2>2. \A u \in Threads : Destroys(u)' <=> Destroys(u)
    BY <1>3, <1>4, <1>5 DEF Destroys, Ends
  <2>3. OneDestroys'
    <3>1. ASSUME NEW u \in Threads, NEW i \in 1 .. Len(stack'[u]), stack'[u][i].op \in Ends
          PROVE  i = 1 /\ life' = "dying"
      <4>1. CASE u # t
        BY <1>4, <1>5, <3>1, <4>1 DEF CallsInv, OneDestroys
      <4>2. CASE u = t
        <5>1. i \in 1 .. 1
          BY <1>5, <4>2
        <5> QED  BY <1>4, <5>1
      <4> QED  BY <4>1, <4>2
    <3> QED  BY <1>4, <2>2, <3>1 DEF CallsInv, OneDestroys
  <2>4. QuietInv'
    BY <1>3, <1>4, <1>5, <2>2 DEF CallsInv, QuietInv, Active, Top
  <2> QED  BY <2>1, <2>3, <2>4 DEF CallsInv
<1>7. FlagInv'
  <2>1. Associations = {} => Associations' = {}
    <3> SUFFICES ASSUME \A k \in Keys : entry[k].value = nil
                 PROVE  \A k \in Keys : entry'[k].value = nil
      BY NoAssociations
    <3> QED  BY <1>1, NoEntryIsNil DEF Places
  <2> QED  BY <1>4, <2>1 DEF Inv, FlagInv
<1>8. TypeOK'
  BY <1>1, <1>4, <1>5 DEF TypeOK
<1>9. ASSUME NEW v \in Values
      PROVE  count'[v] = Cardinality(InThreads(v)') + Cardinality(InPools(v)')
                       + Cardinality(InObject(v)') + Cardinality(InCalls(v)') + lost'[v]
  <2>1. InThreads(v)' = InThreads(v) /\ InPools(v)' = InPools(v)
    BY DEF InThreads, InPools
  <2>2. Cardinality(InCalls(v)') = Cardinality(InCalls(v)) + Cardinality(Hold(held, v))
    <3>1. HeldAt(t, 1) = {} /\ HeldAt(t, 1)' = held
      BY <1>3, <1>4, <1>5 DEF HeldAt
    <3>2. Cardinality(InCalls(v)') = Cardinality(InCalls(v))
            - Cardinality(Hold(HeldAt(t, 1), v)) + Cardinality(Hold(HeldAt(t, 1)', v))
      <4>1. /\ HeldAt(t, 1) \subseteq Entries /\ HeldAt(t, 1)' \subseteq Entries
            /\ \A u \in Threads : \A i \in 1 .. MaxDepth :
                 u # t \/ i # 1 => HeldAt(u, i)' = HeldAt(u, i)
        BY <1>1, <1>4, <1>5, <3>1 DEF HeldAt
      <4>2. 1 \in 1 .. MaxDepth
        OBVIOUS
      <4> QED  BY ONLY <4>1, <4>2, OneHeld, t \in Threads
    <3>3. Cardinality(Hold(held, v)) \in Nat
      BY <1>1, OwnersAreNumbers
    <3>4. Cardinality(Hold({}, v)) = 0
      BY HoldOne
    <3>5. Cardinality(InCalls(v)') = Cardinality(InCalls(v)) - 0 + Cardinality(Hold(held, v))
      BY <3>1, <3>2, <3>4
    <3> QED  BY <3>3, <3>5, OwnersAreNumbers
  <2>3. count[v] = Cardinality(InThreads(v)) + Cardinality(InPools(v))
                 + Cardinality(InObject(v)) + Cardinality(InCalls(v)) + lost[v]
        /\ lost[v] \in Nat /\ lost'[v] = lost[v]
    BY DEF Inv, CountsOwners, TypeOK
  <2>4. Cardinality(Hold(held, v)) \in Nat
    BY <1>1, OwnersAreNumbers
  <2>5. Cardinality(InObject(v)') = Cardinality(InObject(v)) - Cardinality(Hold(held, v))
    BY <1>1
  <2>6. count'[v] = count[v]
    OBVIOUS
  <2> QED  BY <2>1, <2>2, <2>3, <2>4, <2>5, <2>6, OwnersAreNumbers
<1>10. CountsOwners'
  BY <1>9 DEF CountsOwners
<1> QED  BY <1>1, <1>6, <1>7, <1>8, <1>10 DEF Inv

LEMMA DestructInstanceKeeps ==
  ASSUME Inv, NEW t \in Threads, DestructInstance(t)
  PROVE  Inv'
<1> PICK op \in Ends : op = IF hasAssoc THEN "destroy" ELSE "dispose"
  BY DEF Ends
<1> PICK held : held = {entry[Ivar]}
  OBVIOUS
<1>1. /\ stack[t] # <<>> /\ Top(t).op = "destroy" /\ Top(t).held = {}
      /\ held \in SUBSET {entry[k] : k \in Places} /\ TakeOut(held)
      /\ To(t, Frame(op, "release", Ivar, held))
      /\ UNCHANGED <<count, own, pool, hasAssoc, life, late, lost>>
  BY TopFrame DEF DestructInstance, At, Places, FrameOK
<1>2. /\ Len(stack[t]) = 1 /\ life = "dying" /\ stack[t] \in Seq(Frames)
      /\ \A u \in Threads : Destroys(u) => u = t
      /\ \A u \in Threads : ~At(u, "flag") /\ TypeOK /\ MapInv
  BY <1>1, DestroyFrame DEF Inv
<1>3. GaveUpInv'
  <2> SUFFICES ASSUME NEW k \in Places, \E u \in Threads : GaveUp(u, k)'
               PROVE  entry'[k] = NoEntry(k) \/ SetLate(k)'
    BY <1>1, <1>2 DEF GaveUpInv
  <2>1. GaveUp(t, k)'
    <3>1. \A u \in Threads : u # t => stack'[u] = stack[u]
      BY <1>1, <1>2 DEF To, TypeOK
    <3> QED  BY <1>2, <3>1 DEF GaveUp, Destroys
  <2>2. stack'[t][1].op = op
    <3>1. stack'[t][1] = Frame(op, "release", Ivar, held)
      BY <1>1, <1>2 DEF To, Replace, TypeOK
    <3> QED  BY <3>1 DEF Frame
  <2>3. entry'[k] = IF entry[k] \in held THEN NoEntry(k) ELSE entry[k]
    BY <1>1 DEF TakeOut
  <2>4. CASE k = Ivar
    BY <2>3, <2>4
  <2>5. CASE k \in Keys
    <3>1. ~hasAssoc
      BY <2>1, <2>2, <2>5 DEF GaveUp, Ends
    <3>2. Associations = {} \/ late \cap Keys # {}
      BY <1>2, <3>1 DEF Inv, FlagInv
    <3>3. CASE Associations = {}
      <4>1. entry[k].value = nil
        BY <2>5, <3>3, NoAssociations
      <4> QED  BY <1>2, <2>3, <4>1 DEF MapInv
    <3>4. CASE late \cap Keys # {}
      BY <1>1, <2>5, <3>4 DEF SetLate
    <3> QED  BY <3>2, <3>3, <3>4
  <2> QED  BY <2>4, <2>5 DEF Places
<1> QED  BY <1>1, <1>3, TakesOut

LEMMA RemoveDeallocatingKeeps ==
  ASSUME Inv, NEW t \in Threads, RemoveDeallocating(t)
  PROVE  Inv'
<1> PICK held : held = Removed(TRUE)
  OBVIOUS
<1>1. /\ stack[t] # <<>> /\ Top(t).op = "destroy" /\ Top(t).held = {}
      /\ Top(t).pc = "release"
      /\ held \in SUBSET {entry[k] : k \in Places} /\ TakeOut(held)
      /\ To(t, Frame("dispose", "release", Ivar, held))
      /\ UNCHANGED <<count, own, pool, hasAssoc, life, late, lost>>
  BY DEF RemoveDeallocating, At, Places, Removed, Associations
<1>2. /\ Len(stack[t]) = 1 /\ life = "dying" /\ stack[t] \in Seq(Frames)
      /\ \A u \in Threads : Destroys(u) => u = t
      /\ Destroys(t) /\ stack[t][1] = Top(t) /\ TypeOK /\ MapInv
  BY <1>1, DestroyFrame DEF Inv
<1>3. GaveUpInv'
  <2> SUFFICES ASSUME NEW k \in Places
               PROVE  entry'[k] = NoEntry(k) \/ SetLate(k)'
    BY DEF GaveUpInv
  <2>1. entry'[k] = IF entry[k] \in held THEN NoEntry(k) ELSE entry[k]
    BY <1>1 DEF TakeOut
  <2>2. CASE k = Ivar
    <3>1. GaveUp(t, k)
      BY <1>1, <1>2, <2>2 DEF GaveUp
    <3>2. entry[k] = NoEntry(k) \/ SetLate(k)
      BY <3>1 DEF Inv, GaveUpInv
    <3> QED  BY <1>1, <2>1, <3>2 DEF SetLate
  <2>3. CASE k \in Keys
    <3>1. entry[k] \in held \/ entry[k].value = nil
      BY <2>3 DEF Removed, Associations
    <3> QED  BY <1>2, <2>1, <3>1 DEF MapInv
  <2> QED  BY <2>2, <2>3 DEF Places
<1>4. "dispose" \in Ends
  BY DEF Ends
<1> QED  BY <1>1, <1>3, <1>4, TakesOut

\* The references that were in the property are lost.
LEMMA NewObjectKeeps ==
  ASSUME Inv, NewObject
  PROVE  Inv'
<1>1. /\ life = "freed" /\ life' = "live" /\ hasAssoc' = FALSE
      /\ entry' = [entry EXCEPT ![Ivar] = NoEntry(Ivar)] /\ late' = late \ {Ivar}
      /\ lost' = [v \in Values |-> IF Counted(entry[Ivar], v) THEN lost[v] + 1 ELSE lost[v]]
      /\ UNCHANGED <<count, own, pool, stack>> /\ TypeOK /\ MapInv /\ CallsInv
  BY DEF NewObject, Inv
<1>2. NoEntry(Ivar) \in Entries /\ Ivar \in Places
  BY DEF NoEntry, ObjcAssociation, Entries, Places
<1>3. \A u \in Threads : ~Destroys(u)
  BY <1>1, DestroysDying
<1>4. CallsInv'
  <2>1. FramesInv'
    BY <1>1 DEF CallsInv, FramesInv
  <2>2. OneDestroys'
    <3>1. ASSUME NEW u \in Threads, NEW i \in 1 .. Len(stack[u]), stack[u][i].op \in Ends
          PROVE  FALSE
      BY <1>1, <3>1 DEF CallsInv, OneDestroys
    <3> QED  BY <1>1, <1>3, <3>1 DEF OneDestroys, Destroys
  <2>3. QuietInv'
    BY <1>1 DEF QuietInv, Active
  <2> QED  BY <2>1, <2>2, <2>3 DEF CallsInv
<1>5. GaveUpInv'
  <2>1. \A u \in Threads : \A k \in Places : ~GaveUp(u, k)'
    BY <1>1, <1>3 DEF GaveUp, Destroys
  <2> QED  BY <1>1, <2>1 DEF GaveUpInv
<1>6. TypeOK'
  <2>1. lost' \in [Values -> Nat]
    BY <1>1 DEF TypeOK
  <2>2. entry' \in [Places -> Entries]
    BY <1>1, <1>2 DEF TypeOK
  <2> QED  BY <1>1, <2>1, <2>2 DEF TypeOK
<1>7. MapInv'
  BY <1>1, <1>2 DEF MapInv, TypeOK, NoEntry, ObjcAssociation
<1>8. FlagInv'
  <2>1. CASE late \cap Keys # {}
    BY <1>1, <2>1 DEF FlagInv
  <2>2. CASE late \cap Keys = {}
    <3>1. \A k \in Keys : entry[k] = NoEntry(k)
      BY <1>1, <2>2 DEF Inv, GaveUpInv, SetLate, Places
    <3>2. \A k \in Keys : entry'[k].value = nil
      BY <1>1, <3>1, NoEntryIsNil DEF TypeOK, Places
    <3> QED  BY <3>2, NoAssociations DEF FlagInv
  <2> QED  BY <2>1, <2>2
<1>9. ASSUME NEW v \in Values
      PROVE  count'[v] = Cardinality(InThreads(v)') + Cardinality(InPools(v)')
                       + Cardinality(InObject(v)') + Cardinality(InCalls(v)') + lost'[v]
  <2>1. InThreads(v)' = InThreads(v) /\ InPools(v)' = InPools(v)
    BY <1>1 DEF InThreads, InPools
  <2>2. InCalls(v)' = InCalls(v)
    BY <1>1 DEF InCalls, HeldAt, Counted
  <2>3. Cardinality(InObject(v)') = Cardinality(InObject(v))
          - One(Counted(entry[Ivar], v)) + One(Counted(NoEntry(Ivar), v))
    BY <1>1, <1>2, EntryChanges
  <2>4. One(Counted(NoEntry(Ivar), v)) = 0
    BY DEF One, Counted, NoEntry, ObjcAssociation
  <2>5. lost'[v] = lost[v] + One(Counted(entry[Ivar], v))
    BY <1>1 DEF One, TypeOK
  <2>6. /\ One(Counted(entry[Ivar], v)) \in Nat /\ lost[v] \in Nat
        /\ count[v] = Cardinality(InThreads(v)) + Cardinality(InPools(v))
                    + Cardinality(InObject(v)) + Cardinality(InCalls(v)) + lost[v]
    BY DEF One, Inv, CountsOwners, TypeOK
  <2> QED  BY <1>1, <2>1, <2>2, <2>3, <2>4, <2>5, <2>6, OwnersAreNumbers
<1>10. CountsOwners'
  BY <1>9 DEF CountsOwners
<1> QED  BY <1>4, <1>5, <1>6, <1>7, <1>8, <1>10 DEF Inv

LEMMA NewValueKeeps ==
  ASSUME Inv, NEW t \in Threads, NEW w \in Values, NewValue(t, w)
  PROVE  Inv'
<1>1. /\ count[w] = 0 /\ count' = [count EXCEPT ![w] = 1]
      /\ own' = [own EXCEPT ![t] = @ \cup {w}]
      /\ UNCHANGED <<pool, entry, hasAssoc, life, stack, late, lost>> /\ TypeOK
  BY DEF Inv, NewValue
<1>2. TypeOK' /\ MapInv' /\ GaveUpInv'
  BY <1>1 DEF Inv, TypeOK, MapInv, GaveUpInv, SetLate, GaveUp, Destroys
<1>a. FlagInv'
  BY <1>1 DEF Inv, FlagInv, Associations, At, Top
<1>3. CallsInv'
  BY <1>1 DEF Inv, CallsInv, FramesInv, OneDestroys, Destroys, QuietInv, Active, Top
<1>4. ASSUME NEW v \in Values
      PROVE  count'[v] = Cardinality(InThreads(v)') + Cardinality(InPools(v)')
                       + Cardinality(InObject(v)') + Cardinality(InCalls(v)') + lost'[v]
  <2>1. InCalls(v)' = InCalls(v) /\ InPools(v)' = InPools(v) /\ InObject(v)' = InObject(v)
    BY <1>1 DEF InCalls, InPools, InObject, HeldAt, Counted
  <2>2. PICK S : S = own[t] \cup {w}
    OBVIOUS
  <2>3. Cardinality(InThreads(v)')
          = Cardinality(InThreads(v)) - One(v \in own[t]) + One(v \in S)
    <3>1. own' = [own EXCEPT ![t] = S] /\ (S = own[t] \cup {w} \/ S = own[t] \ {w})
      BY <1>1, <2>2
    <3> QED  BY <1>1, <3>1, OwnChanges
  <2>4. count[v] = Cardinality(InThreads(v)) + Cardinality(InPools(v))
                 + Cardinality(InObject(v)) + Cardinality(InCalls(v)) + lost[v]
        /\ lost[v] \in Nat /\ lost'[v] = lost[v]
    BY <1>1 DEF Inv, CountsOwners, TypeOK
  <2>5. w \notin own[t]
    BY <1>1, Owned DEF Inv, InThreads
  <2>6. v = w => One(v \in own[t]) = 0 /\ One(v \in S) = 1 /\ count'[v] = count[v] + 1
    BY <1>1, <2>2, <2>5 DEF One, TypeOK
  <2>7. v # w => /\ One(v \in own[t]) = One(v \in S) /\ One(v \in S) \in Nat
                 /\ count'[v] = count[v]
    BY <1>1, <2>2 DEF One, TypeOK
  <2> QED  BY <2>1, <2>3, <2>4, <2>6, <2>7, OwnersAreNumbers
<1>5. CountsOwners'
  BY <1>4 DEF CountsOwners
<1> QED  BY <1>2, <1>a, <1>3, <1>5 DEF Inv

LEMMA GiveUpKeeps ==
  ASSUME Inv, NEW t \in Threads, NEW w \in Values, GiveUp(t, w)
  PROVE  Inv'
<1>1. /\ stack[t] = <<>> /\ TypeOK /\ CallsInv
      /\ \/ w \in own[t] /\ own' = [own EXCEPT ![t] = @ \ {w}] /\ pool' = pool
         \/ w = pool[t] /\ pool' = [pool EXCEPT ![t] = nil] /\ own' = own
      /\ count' = [count EXCEPT ![w] = @ - 1]
      /\ IF count[w] = 1 THEN Call(t, Dealloc(w)) ELSE UNCHANGED stack
      /\ UNCHANGED <<entry, hasAssoc, life, late, lost>>
  BY DEF Inv, GiveUp
<1>2. /\ stack' \in [Threads -> Seq(Frames)] /\ CallsInv' /\ SameDestruction
      /\ \A u \in Threads : At(u, "flag") => At(u, "flag")'
      /\ \A u \in Threads : \A i \in 1 .. MaxDepth : HeldAt(u, i)' = HeldAt(u, i)
  <2>0. \A u \in Threads : u # t \/ stack[t] # <<>> => pool'[u] = pool[u]
    BY <1>1 DEF TypeOK
  <2>1. CASE UNCHANGED stack
    <3>1. FramesInv'
      <4> SUFFICES ASSUME NEW u \in Threads, NEW i \in 1 .. Len(stack[u])
                   PROVE  FrameOK(stack[u][i], i, Len(stack[u]), pool'[u])
        BY <2>1 DEF FramesInv
      <4>1. u # t
        BY <1>1
      <4> QED  BY <1>1, <2>0, <4>1 DEF CallsInv, FramesInv
    <3>2. OneDestroys' /\ QuietInv' /\ SameDestruction
      BY <1>1, <2>1 DEF CallsInv, OneDestroys, QuietInv, SameDestruction, Active, GaveUp,
                        Destroys, Top
    <3> QED  BY <1>1, <2>1, <3>1, <3>2 DEF CallsInv, TypeOK, HeldAt, At, Top
  <2>2. CASE Call(t, Dealloc(w))
    <3>1. PICK d \in Frames : d = Dealloc(w)
      BY DEF Dealloc, Frame, Frames
    <3>2. /\ d.op \notin Ends /\ d.pc = "dealloc" /\ d.held = {} /\ Call(t, d) /\ Calls(t) /\ life' = life
          /\ FrameOK(d, Len(stack[t]) + 1, Len(stack[t]) + 1, pool'[t])
      BY <1>1, <2>2, <3>1 DEF Dealloc, Frame, FrameOK, Calls, Ends
    <3>3. /\ stack' \in [Threads -> Seq(Frames)] /\ CallsInv' /\ SameDestruction
          /\ \A u \in Threads : At(u, "flag") => At(u, "flag")'
          /\ \A u \in Threads : \A i \in 1 .. MaxDepth :
               HeldAt(u, i)' = IF u = t /\ i = Len(stack[t]) + 1 THEN d.held ELSE HeldAt(u, i)
          /\ HeldAt(t, Len(stack[t]) + 1) = {}
      BY ONLY <1>1, <2>0, <3>2, CallKeeps, t \in Threads, d \in Frames
    <3> QED  BY <3>2, <3>3
  <2> QED  BY <1>1, <2>1, <2>2
<1>3. ASSUME NEW v \in Values
      PROVE  /\ count'[v] = count[v] - One(v = w)
             /\ count'[v] = Cardinality(InThreads(v)') + Cardinality(InPools(v)')
                          + Cardinality(InObject(v)') + Cardinality(InCalls(v)') + lost'[v]
  <2>1. InObject(v)' = InObject(v)
    BY <1>1 DEF InObject, Counted
  <2>2. InCalls(v)' = InCalls(v)
    BY <1>2, NothingHeldChanges
  <2>3. Cardinality(InThreads(v)') + Cardinality(InPools(v)')
          = Cardinality(InThreads(v)) + Cardinality(InPools(v)) - One(v = w)
    <3>1. CASE w \in own[t] /\ own' = [own EXCEPT ![t] = @ \ {w}] /\ pool' = pool
      <4>1. PICK S : S = own[t] \ {w}
        OBVIOUS
      <4>2. own' = [own EXCEPT ![t] = S] /\ (S = own[t] \cup {w} \/ S = own[t] \ {w})
        BY <3>1, <4>1
      <4>3. Cardinality(InThreads(v)')
              = Cardinality(InThreads(v)) - One(v \in own[t]) + One(v \in S)
        <5>1. TypeOK
          BY <1>1
        <5> QED  BY ONLY <4>2, <5>1, OwnChanges, t \in Threads, w \in Values, v \in Values, ZenonT(30)
      <4>4. InPools(v)' = InPools(v)
        BY <3>1 DEF InPools
      <4>5. /\ v = w => One(v \in own[t]) = 1 /\ One(v \in S) = 0 /\ One(v = w) = 1
            /\ v # w => One(v \in own[t]) = One(v \in S) /\ One(v \in S) \in Nat
                        /\ One(v = w) = 0
        BY <3>1, <4>1 DEF One
      <4> QED  BY <4>3, <4>4, <4>5, OwnersAreNumbers
    <3>2. CASE w = pool[t] /\ pool' = [pool EXCEPT ![t] = nil] /\ own' = own
      <4>1. Cardinality(InPools(v)')
              = Cardinality(InPools(v)) - One(pool[t] = v) + One(nil = v)
        <5>1. TypeOK /\ pool' = [pool EXCEPT ![t] = nil]
          BY <1>1, <3>2
        <5>2. /\ pool[t] = v => Cardinality(InPools(v)') = Cardinality(InPools(v)) - 1
              /\ pool[t] # v => Cardinality(InPools(v)') = Cardinality(InPools(v))
          BY ONLY <5>1, PoolEmptied, t \in Threads, v \in Values
        <5>3. nil # v /\ Cardinality(InPools(v)) \in Nat
          BY nilAssumption, OwnersAreNumbers
        <5> QED  BY ONLY <5>2, <5>3 DEF One
      <4>2. InThreads(v)' = InThreads(v)
        BY <3>2 DEF InThreads
      <4>3. /\ One(nil = v) = 0 /\ One(pool[t] = v) = One(v = w) /\ One(v = w) \in Nat
        BY <3>2 DEF One
      <4> QED  BY <4>1, <4>2, <4>3, OwnersAreNumbers
    <3> QED  BY <1>1, <3>1, <3>2
  <2>4. count[v] = Cardinality(InThreads(v)) + Cardinality(InPools(v))
                 + Cardinality(InObject(v)) + Cardinality(InCalls(v)) + lost[v]
        /\ lost[v] \in Nat /\ lost'[v] = lost[v]
    BY <1>1 DEF Inv, CountsOwners, TypeOK
  <2>5. count'[v] = count[v] - One(v = w) /\ One(v = w) \in Nat
    BY <1>1 DEF One, TypeOK
  <2> QED  BY <2>1, <2>2, <2>3, <2>4, <2>5, OwnersAreNumbers
<1>4. CountsOwners'
  BY <1>3 DEF CountsOwners
<1>5. count' \in [Values -> Nat]
  <2>1. \A v \in Values : count'[v] \in Nat
    <3> SUFFICES ASSUME NEW v \in Values PROVE count'[v] \in Nat
      OBVIOUS
    <3>1. lost'[v] \in Nat
      BY <1>1, <1>1 DEF TypeOK
    <3>2. count'[v] = Cardinality(InThreads(v)') + Cardinality(InPools(v)')
                    + Cardinality(InObject(v)') + Cardinality(InCalls(v)') + lost'[v]
      BY <1>3
    <3> QED  BY <3>1, <3>2, OwnersAreNumbers
  <2>2. count' = [v \in Values |-> count'[v]]
    BY <1>1 DEF TypeOK
  <2> QED  BY <2>1, <2>2
<1>6. TypeOK' /\ MapInv' /\ GaveUpInv'
  <2>1. TypeOK /\ MapInv /\ GaveUpInv
    BY DEF Inv
  <2>2. own' \in [Threads -> SUBSET Values] /\ pool' \in [Threads -> Values \cup {nil}]
    <3>1. own \in [Threads -> SUBSET Values] /\ pool \in [Threads -> Values \cup {nil}]
      BY <2>1 DEF TypeOK
    <3> QED  BY <1>1, <3>1
  <2>3. UNCHANGED <<entry, hasAssoc, life, late, lost>>
    BY <1>1
  <2>4. TypeOK' /\ MapInv'
    BY ONLY <1>2, <1>5, <2>1, <2>2, <2>3 DEF TypeOK, MapInv
  <2>5. GaveUpInv'
    BY ONLY <1>2, <2>1, <2>3, SameGaveUp
  <2> QED  BY <2>4, <2>5
<1>7. FlagInv'
  <2>1. FlagInv /\ UNCHANGED <<entry, hasAssoc, late>>
    BY <1>1 DEF Inv
  <2>2. Associations' = Associations
    BY <2>1 DEF Associations
  <2> QED  BY <1>2, <2>1, <2>2 DEF FlagInv
<1> QED  BY <1>2, <1>4, <1>6, <1>7 DEF Inv

LEMMA InitInv == Init => Inv
<1> SUFFICES ASSUME Init PROVE Inv
  OBVIOUS
<1>1. TypeOK /\ MapInv /\ CallsInv /\ GaveUpInv
  <2>1. \A k \in Places : NoEntry(k) \in Entries /\ NoEntry(k).key = k
    BY DEF NoEntry, ObjcAssociation, Entries
  <2>2. \A t \in Threads : stack[t] = <<>> /\ <<>> \in Seq(Frames) /\ Len(<<>>) = 0
    BY DEF Init
  <2>3. Cardinality(Threads) \in Nat
    BY FiniteAssumption, FS_CardinalityType
  <2>4. TypeOK
    BY <2>1, <2>2, <2>3 DEF Init, TypeOK
  <2>5. MapInv /\ GaveUpInv
    BY <2>1 DEF Init, MapInv, GaveUpInv, GaveUp, Destroys
  <2>6. CallsInv
    BY <2>2 DEF CallsInv, FramesInv, OneDestroys, Destroys, QuietInv
  <2> QED  BY <2>4, <2>5, <2>6
<1>2. FlagInv
  <2>1. \A k \in Keys : entry[k].value = nil
    BY NoEntryIsNil DEF Init, Places
  <2> QED  BY <2>1, NoAssociations DEF FlagInv
<1>3. CountsOwners
  <2> SUFFICES ASSUME NEW v \in Values
               PROVE  count[v] = Cardinality(InThreads(v)) + Cardinality(InPools(v))
                               + Cardinality(InObject(v)) + Cardinality(InCalls(v)) + lost[v]
    BY DEF CountsOwners
  <2>1. InThreads(v) = Threads
    BY DEF Init, InThreads
  <2>2. InPools(v) = {}
    BY DEF Init, InPools
  <2>3. InObject(v) = {}
    BY NoEntryIsNil DEF Init, InObject, Counted
  <2>4. InCalls(v) = {}
    BY DEF Init, InCalls, HeldAt
  <2>5. Cardinality(Threads) \in Nat
    BY FiniteAssumption, FS_CardinalityType
  <2> QED  BY <2>1, <2>2, <2>3, <2>4, <2>5, FS_EmptySet DEF Init
<1> QED  BY <1>1, <1>2, <1>3 DEF Inv

LEMMA NextInv == Inv /\ [Next]_vars => Inv'
<1> SUFFICES ASSUME Inv, [Next]_vars PROVE Inv'
  OBVIOUS
<1>1. CASE UNCHANGED vars
  <2>1. TypeOK' /\ MapInv' /\ GaveUpInv'
    BY <1>1 DEF vars, Inv, TypeOK, MapInv, GaveUpInv, GaveUp, Destroys, SetLate
  <2>2. CallsInv' /\ FlagInv'
    BY <1>1 DEF vars, Inv, CallsInv, FramesInv, OneDestroys, Destroys, QuietInv, Active,
                FlagInv, Associations, At, Top
  <2>3. CountsOwners'
    BY <1>1 DEF vars, Inv, CountsOwners, InThreads, InPools, InObject, InCalls, HeldAt, Counted
  <2> QED  BY <2>1, <2>2, <2>3 DEF Inv
<1>2. CASE NewObject
  BY <1>2, NewObjectKeeps
<1>3. ASSUME NEW t \in Threads,
             \E k \in Keys, v \in Values \cup {nil}, p \in Policies : SetAssociation(t, k, v, p)
      PROVE  Inv'
  BY <1>3, SetAssociationKeeps
<1>4. ASSUME NEW t \in Threads, \E v \in Values \cup {nil} : SetProperty(t, v)
      PROVE  Inv'
  BY <1>4, SetPropertyKeeps
<1>5. ASSUME NEW t \in Threads, \E k \in Places : Get(t, k) PROVE Inv'
  BY <1>5, GetKeeps
<1>6. ASSUME NEW t \in Threads, \E v \in Values : NewValue(t, v) \/ GiveUp(t, v) PROVE Inv'
  BY <1>6, NewValueKeeps, GiveUpKeeps
<1>7. ASSUME NEW t \in Threads,
             Swap(t) \/ SetHasAssociatedObjects(t) \/ Release(t) \/ Return(t)
      PROVE  Inv'
  BY <1>7, SwapKeeps, FlagKeeps, ReleaseKeeps, ReturnKeeps
<1>8. ASSUME NEW t \in Threads, 
             \/ Autorelease(t) \/ RemoveAssociations(t) \/ Destroy(t)
             \/ DestructInstance(t) \/ RemoveDeallocating(t)
      PROVE  Inv'
  BY <1>8, AutoreleaseKeeps, RemoveKeeps, DestroyKeeps, DestructInstanceKeeps,
     RemoveDeallocatingKeeps
<1> QED  BY <1>1, <1>2, <1>3, <1>4, <1>5, <1>6, <1>7, <1>8 DEF Next

LEMMA InvHolds == Spec => []Inv
BY InitInv, NextInv, PTL DEF Spec

-----------------------------------------------------------------------------
(***************************************************************************)
(* Theorems                                                                *)
(***************************************************************************)
\* Every variable has values of its kind: no count drops below 0.
THEOREM TypeCorrect == Spec => []TypeOK
<1>1. Inv => TypeOK
  BY DEF Inv
<1> QED  BY <1>1, InvHolds, PTL

\* However setters, getters, removals and the -dealloc methods that they cause
\* interleave, the retain count of a value is the number of its owners.
THEOREM CountsAreOwners == Spec => []CountsOwners
<1>1. Inv => CountsOwners
  BY DEF Inv
<1> QED  BY <1>1, InvHolds, PTL

\* A freed object leaves nothing to the next object at its address, although
\* objc_destructInstance reads a flag that is set outside the lock, and runs
\* -dealloc methods between reading it and removing the associations: all that
\* may remain is what such a method sets too late, when the flag was found
\* unset or after the removal.
THEOREM NothingIsInherited == Spec => []NothingInherited
<1>1. Inv => NothingInherited
  BY DEF Inv, GaveUpInv, SetLate, NothingInherited, Places
<1> QED  BY <1>1, InvHolds, PTL

\* A value that was freed is never retained again: what a getter retains under
\* the lock, and what a setter is given, still has an owner.
THEOREM FreedStaysFreed == Spec => NeverRevived
<1> DEFINE Revives == \A v \in Values : count[v] = 0 /\ count'[v] > 0 =>
                        \E t \in Threads : v \in own'[t] \ own[t]
<1>1. Inv /\ [Next]_vars => [Revives]_vars
  <2> SUFFICES ASSUME Inv, Next, NEW v \in Values, count[v] = 0, count'[v] > 0
               PROVE  \E t \in Threads : v \in own'[t] \ own[t]
    OBVIOUS
  <2>1. /\ TypeOK /\ \A t \in Threads : v \notin own[t] /\ pool[t] # v
        /\ \A k \in Places : ~Counted(entry[k], v)
    BY Owned DEF Inv, InThreads, InPools, InObject
  <2>2. count'[v] # count[v]
    OBVIOUS
  <2>3. ASSUME NEW t \in Threads, NEW k \in Keys, NEW w \in Values \cup {nil},
               NEW p \in Policies, SetAssociation(t, k, w, p)
        PROVE  FALSE
    BY <2>1, <2>2, <2>3 DEF SetAssociation, MayUse, AcquireValue, Retained, ObjcAssociation,
                            TypeOK
  <2>4. ASSUME NEW t \in Threads, NEW w \in Values \cup {nil}, SetProperty(t, w)
        PROVE  FALSE
    BY <2>1, <2>2, <2>4 DEF SetProperty, MayUse, Retained, TypeOK
  <2>5. ASSUME NEW t \in Threads, NEW k \in Places, Get(t, k) PROVE FALSE
    BY <2>1, <2>2, <2>5 DEF Get, RetainReturnedValue, Retained, Counted, GetterRetains,
                            Retains, TypeOK
  <2>6. ASSUME NEW t \in Threads, NEW w \in Values, GiveUp(t, w) PROVE FALSE
    BY <2>1, <2>2, <2>6 DEF GiveUp, TypeOK
  <2>7. ASSUME NEW t \in Threads, NEW w \in Values, NewValue(t, w)
        PROVE  v \in own'[t] \ own[t]
    BY <2>1, <2>2, <2>7 DEF NewValue, TypeOK
  <2>8. ASSUME NEW t \in Threads, Release(t) PROVE FALSE
    <3>1. PICK e \in Top(t).held : count' = [count EXCEPT ![e.value] = @ - 1]
      BY <2>2, <2>8 DEF Release
    <3> QED  BY <2>1, <2>2, <3>1 DEF TypeOK
  <2> QED
    BY <2>2, <2>3, <2>4, <2>5, <2>6, <2>7, <2>8
       DEF Next, Swap, SetHasAssociatedObjects, Return, Autorelease, RemoveAssociations,
           Destroy, DestructInstance, RemoveDeallocating, NewObject
<1> QED  BY <1>1, InvHolds, PTL DEF Spec, NeverRevived
=============================================================================
