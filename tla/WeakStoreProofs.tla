--------------------------- MODULE WeakStoreProofs ---------------------------
(***************************************************************************)
(* Weak references: TableMirrorsVariables, NoDanglingWeak, NoWeakError and *)
(* CalloutUnlocked, and that WeakStore implements WeakVariables, for any   *)
(* number of threads, objects, variables, side tables and calls, and any   *)
(* nesting of calls in +initialize and -dealloc.                           *)
(*                                                                         *)
(* The argument: what the functions ask of the program makes the calls in  *)
(* progress keep off each other's variables (Reserved, Apart), and keeps   *)
(* alive what they store (Sound).  A store looks at the variable again     *)
(* under the locks, so that the pair it removes from the tables is the     *)
(* variable's.  Only live objects are registered, or what is registered    *)
(* already, so that a dead object's entry, once cleared, stays empty.      *)
(*                                                                         *)
(* The second half is about the table itself, which WeakStore takes for a  *)
(* set of pairs: LookupsAgree and SearchesEnd of WeakTable.                *)
(***************************************************************************)
EXTENDS WeakStore, WeakTable, SequenceTheorems, FiniteSetTheorems, WellFoundedInduction,
        TLAPS

(***************************************************************************)
(* The frames of the calls.                                                *)
(***************************************************************************)
Ops == {"storeWeak", "storeWeakOrNil", "initWeak", "destroyWeak", "loadWeakRetained",
        "copyWeak", "copyWeakInit", "moveWeak", "dealloc", "class_initialize"}
FrameType ==
  [op : Ops, pc : {"read", "lock", "locked", "release", "dealloc", "clear", "free",
                   "initialize", "running"},
   l : Locations \cup {nil}, o : Objects \cup {nil}, d : Locations \cup {nil},
   old : Objects \cup {nil}, prev : Classes \cup {nil}]

\* The labels and the locals of each function
ShapeDealloc(f) ==
  f.pc \in {"dealloc", "clear", "free"} /\ f.o \in Objects /\ f.l = nil /\ f.d = nil
ShapeInitialize(f) ==
  /\ f.pc \in {"initialize", "running"} /\ f.o = nil /\ f.l = nil /\ f.d = nil
  /\ f.prev \in Classes
ShapeCall(f) ==
  /\ f.pc \in {"read", "lock", "locked"} \/ (f.pc = "release" /\ f.op = "copyWeakInit")
  /\ f.l \in Locations
  /\ f.pc = "read" => HaveOld(f)
  /\ IF f.op \in {"copyWeak", "moveWeak"} THEN f.d \in Locations /\ f.d # f.l ELSE f.d = nil
  /\ f.op \in {"initWeak", "copyWeakInit"} => f.o \in Objects /\ f.old = nil
  /\ f.op = "storeWeakOrNil" => f.o \in Objects
  /\ ~HaveNew(f) => f.o = nil
  /\ (Loading(f) \/ f.op = "moveWeak") /\ f.pc # "read" => f.old \in Objects
Shape(f) ==
  /\ f \in FrameType
  /\ f.op = "dealloc" => ShapeDealloc(f)
  /\ f.op = "class_initialize" => ShapeInitialize(f)
  /\ f.op \notin {"dealloc", "class_initialize"} => ShapeCall(f)

\* The variables that no other call may use
Inits(f) == f.op \in {"initWeak", "copyWeakInit"} /\ f.pc # "release"
Reserved(f) ==
  IF Inits(f) \/ f.op = "destroyWeak" THEN {f.l}
  ELSE IF f.op \in {"copyWeak", "moveWeak"} THEN {f.d} ELSE {}
Apart(f, g) ==
  /\ f.l \notin Reserved(g) /\ f.d \notin Reserved(g)
  /\ g.l \notin Reserved(f) /\ g.d \notin Reserved(f)
  /\ f.op = "dealloc" /\ g.op = "dealloc" => f.o # g.o

\* What a call of thread t may rely on
InitBegun(t, c) == initState[c] = "done" \/ initBy[c] = t
Sound(t, f) ==
  /\ HaveOld(f) => locState[f.l] = "weak"
  /\ Inits(f) => locState[f.l] = "raw"
  /\ f.op \in {"copyWeak", "moveWeak"} => locState[f.d] = "raw"
  /\ f.op \in {"storeWeak", "initWeak"} /\ f.o # nil => f.o \in owns[t]
  /\ f.op = "copyWeakInit" => phase[f.o] = "live" /\ InitBegun(t, ClassOf[f.o])
  /\ f.op = "dealloc" => phase[f.o] = "deallocating"
  /\ f.op = "dealloc" /\ f.pc = "free" => \A l \in Locations : <<f.o, l>> \notin reg

\* The reference that objc_copyWeak holds is the top call's.
CopyOnTop(t) ==
  \A i \in 1 .. Len(stack[t]) : stack[t][i].op = "copyWeakInit" =>
    \/ i = Len(stack[t])
    \/ i = Len(stack[t]) - 1 /\ Top(t).pc = "initialize" /\ Top(t).prev = ClassOf[stack[t][i].o]

(***************************************************************************)
(* The inductive invariant.                                                *)
(***************************************************************************)
FramesOK ==
  /\ stack \in [Threads -> Seq(FrameType)]
  /\ \A t \in Threads : \A i \in 1 .. Len(stack[t]) :
       Shape(stack[t][i]) /\ Sound(t, stack[t][i])
  /\ \A t, u \in Threads : \A i \in 1 .. Len(stack[t]), j \in 1 .. Len(stack[u]) :
       t # u \/ i # j => Apart(stack[t][i], stack[u][j])
  /\ \A t \in Threads : CopyOnTop(t)

\* The weak tables, without the set of pairs
Mirror ==
  \A o \in Objects, l \in Locations :
    <<o, l>> \in reg <=> locState[l] = "weak" /\ loc[l] = o
\* The bit makes -dealloc clear the weak variables.
Marked == \A o \in Objects, l \in Locations : <<o, l>> \in reg => o \in wref
OwnedLive == \A t \in Threads : \A o \in owns[t] : phase[o] = "live"
FreedClean ==
  \A o \in Objects, l \in Locations : phase[o] = "freed" => <<o, l>> \notin reg
Initializing == \A c \in Classes : initBy[c] # nil => initState[c] = "running"
LocksOK ==
  \A s \in Stripes, t \in Threads : owner[s] = t => At(t, "lock") \/ At(t, "locked")

Inv ==
  /\ TypeOK /\ FramesOK /\ Mirror /\ Marked /\ OwnedLive /\ FreedClean
  /\ Initializing /\ LocksOK /\ ~error

(***************************************************************************)
(* Stacks.                                                                 *)
(***************************************************************************)
StackType == stack \in [Threads -> Seq(FrameType)]

\* The first m calls of t stay, and all calls of the other threads.
Kept(t, m) ==
  /\ stack' \in [Threads -> Seq(FrameType)]
  /\ \A u \in Threads : u # t => stack'[u] = stack[u]
  /\ m \in Nat /\ m <= Len(stack[t]) /\ m <= Len(stack'[t])
  /\ \A i \in 1 .. m : stack'[t][i] = stack[t][i]

LEMMA TopFacts ==
  ASSUME StackType, NEW t \in Threads, ~Idle(t)
  PROVE  /\ Len(stack[t]) \in Nat /\ Len(stack[t]) > 0
         /\ Top(t) = stack[t][Len(stack[t])] /\ Top(t) \in FrameType
<1>1. stack[t] \in Seq(FrameType) /\ stack[t] # <<>>
  BY DEF StackType, Idle
<1>2. Len(stack[t]) \in Nat /\ Len(stack[t]) > 0
  BY <1>1, EmptySeq, LenProperties
<1> QED  BY <1>1, <1>2 DEF Top

LEMMA PushFacts ==
  ASSUME StackType, NEW t \in Threads, NEW f \in FrameType, Push(t, f)
  PROVE  /\ Kept(t, Len(stack[t])) /\ Len(stack'[t]) = Len(stack[t]) + 1
         /\ stack'[t][Len(stack'[t])] = f
<1>1. stack[t] \in Seq(FrameType) /\ Len(stack[t]) \in Nat
  BY DEF StackType
<1> DEFINE s == Append(stack[t], f)
<1>2. /\ s \in Seq(FrameType) /\ Len(s) = Len(stack[t]) + 1 /\ s[Len(s)] = f
      /\ \A i \in 1 .. Len(stack[t]) : s[i] = stack[t][i]
  BY <1>1, AppendProperties
<1>3. stack' = [stack EXCEPT ![t] = s]
  BY DEF Push
<1> HIDE DEF s
<1>4. /\ stack' \in [Threads -> Seq(FrameType)] /\ stack'[t] = s
      /\ \A u \in Threads : u # t => stack'[u] = stack[u]
  BY <1>2, <1>3 DEF StackType
<1> QED  BY <1>1, <1>2, <1>4 DEF Kept

LEMMA PopFacts ==
  ASSUME StackType, NEW t \in Threads, ~Idle(t), Pop(t)
  PROVE  Kept(t, Len(stack[t]) - 1) /\ Len(stack'[t]) = Len(stack[t]) - 1
<1>1. stack[t] \in Seq(FrameType) /\ Len(stack[t]) \in Nat /\ Len(stack[t]) > 0
  BY TopFacts DEF StackType
<1> DEFINE s == Popped(t)
<1>2. /\ s \in Seq(FrameType) /\ Len(s) = Len(stack[t]) - 1
      /\ \A i \in 1 .. Len(stack[t]) - 1 : s[i] = stack[t][i]
  BY <1>1 DEF Popped
<1>3. stack' = [stack EXCEPT ![t] = s]
  BY DEF Pop
<1> HIDE DEF s
<1>4. /\ stack' \in [Threads -> Seq(FrameType)] /\ stack'[t] = s
      /\ \A u \in Threads : u # t => stack'[u] = stack[u]
  BY <1>2, <1>3 DEF StackType
<1> QED  BY <1>1, <1>2, <1>4 DEF Kept

LEMMA BecomeFacts ==
  ASSUME StackType, NEW t \in Threads, ~Idle(t), NEW f \in FrameType, Become(t, f)
  PROVE  /\ Kept(t, Len(stack[t]) - 1) /\ Len(stack'[t]) = Len(stack[t])
         /\ stack'[t][Len(stack'[t])] = f
<1>1. stack[t] \in Seq(FrameType) /\ Len(stack[t]) \in Nat /\ Len(stack[t]) > 0
  BY TopFacts DEF StackType
<1> DEFINE p == Popped(t)
<1>2. /\ p \in Seq(FrameType) /\ Len(p) = Len(stack[t]) - 1
      /\ \A i \in 1 .. Len(stack[t]) - 1 : p[i] = stack[t][i]
  BY <1>1 DEF Popped
<1> DEFINE s == Append(p, f)
<1>3. stack' = [stack EXCEPT ![t] = s]
  BY DEF Become
<1> HIDE DEF p
<1>4. /\ s \in Seq(FrameType) /\ Len(s) = Len(stack[t]) /\ s[Len(s)] = f
      /\ \A i \in 1 .. Len(stack[t]) - 1 : s[i] = stack[t][i]
  BY <1>1, <1>2, AppendProperties
<1> HIDE DEF s
<1>5. /\ stack' \in [Threads -> Seq(FrameType)] /\ stack'[t] = s
      /\ \A u \in Threads : u # t => stack'[u] = stack[u]
  BY <1>3, <1>4 DEF StackType
<1> QED  BY <1>1, <1>4, <1>5 DEF Kept

LEMMA ApartSymmetric ==
  ASSUME NEW f, NEW g, Apart(f, g)
  PROVE  Apart(g, f)
BY DEF Apart

\* The calls above the first m of a thread change.
LEMMA FramesStep ==
  ASSUME FramesOK, NEW t \in Threads, NEW m, Kept(t, m),
         \A u \in Threads : \A i \in 1 .. Len(stack[u]) :
           u # t \/ i <= m => \A g : g = stack[u][i] => Sound(u, g)',
         \A i \in m + 1 .. Len(stack'[t]) :
           \A g : g = stack'[t][i] => Shape(g) /\ Sound(t, g)',
         \A i \in m + 1 .. Len(stack'[t]), u \in Threads : \A j \in 1 .. Len(stack[u]) :
           u # t \/ j <= m => Apart(stack'[t][i], stack[u][j]),
         \A i, j \in m + 1 .. Len(stack'[t]) : i # j => Apart(stack'[t][i], stack'[t][j]),
         CopyOnTop(t)'
  PROVE  FramesOK'
<1>1. /\ m \in Nat /\ m <= Len(stack[t]) /\ Len(stack[t]) \in Nat
      /\ m <= Len(stack'[t]) /\ Len(stack'[t]) \in Nat
      /\ \A u \in Threads : u # t => stack'[u] = stack[u]
      /\ \A i \in 1 .. m : stack'[t][i] = stack[t][i]
      /\ stack' \in [Threads -> Seq(FrameType)]
  BY DEF Kept, FramesOK
\* A call of the new state is a new one of t or an old one that stays.
<1>2. \A u \in Threads : \A i \in 1 .. Len(stack'[u]) :
        \/ u = t /\ i \in m + 1 .. Len(stack'[t])
        \/ i \in 1 .. Len(stack[u]) /\ (u # t \/ i <= m) /\ stack'[u][i] = stack[u][i]
  <2> SUFFICES ASSUME NEW u \in Threads, NEW i \in 1 .. Len(stack'[u]),
                      ~(u = t /\ i \in m + 1 .. Len(stack'[t]))
               PROVE  /\ i \in 1 .. Len(stack[u]) /\ (u # t \/ i <= m)
                      /\ stack'[u][i] = stack[u][i]
    OBVIOUS
  <2>1. CASE u = t
    <3>1. i \in 1 .. m
      BY <1>1, <2>1
    <3> QED  BY <1>1, <2>1, <3>1
  <2>2. CASE u # t
    BY <1>1, <2>2
  <2> QED  BY <2>1, <2>2
<1>3. ASSUME NEW u \in Threads, NEW i \in 1 .. Len(stack'[u])
      PROVE  \A g : g = stack'[u][i] => Shape(g) /\ Sound(u, g)'
  <2>1. CASE u = t /\ i \in m + 1 .. Len(stack'[t])
    BY <2>1
  <2>2. CASE i \in 1 .. Len(stack[u]) /\ (u # t \/ i <= m) /\ stack'[u][i] = stack[u][i]
    BY <2>2 DEF FramesOK
  <2> QED  BY <1>2, <1>3, <2>1, <2>2
<1>4. ASSUME NEW u \in Threads, NEW v \in Threads,
             NEW i \in 1 .. Len(stack'[u]), NEW j \in 1 .. Len(stack'[v]), u # v \/ i # j
      PROVE  Apart(stack'[u][i], stack'[v][j])
  <2> DEFINE New(x, k) == x = t /\ k \in m + 1 .. Len(stack'[t])
             Old(x, k) == /\ k \in 1 .. Len(stack[x]) /\ (x # t \/ k <= m)
                          /\ stack'[x][k] = stack[x][k]
  <2>1. (New(u, i) \/ Old(u, i)) /\ (New(v, j) \/ Old(v, j))
    BY <1>2, <1>4
  <2>2. CASE New(u, i) /\ New(v, j)
    BY <1>4, <2>2
  <2>3. CASE New(u, i) /\ Old(v, j)
    BY <2>3
  <2>4. CASE Old(u, i) /\ New(v, j)
    <3>1. Apart(stack'[v][j], stack'[u][i])
      BY <2>4
    <3> QED  BY <3>1, ApartSymmetric
  <2>5. CASE Old(u, i) /\ Old(v, j)
    BY <1>4, <2>5 DEF FramesOK
  <2> QED  BY <2>1, <2>2, <2>3, <2>4, <2>5
<1>5. ASSUME NEW u \in Threads, u # t PROVE CopyOnTop(u)'
  <2>1. CopyOnTop(u) /\ stack'[u] = stack[u]
    BY <1>1, <1>5 DEF FramesOK
  <2> QED  BY <2>1 DEF CopyOnTop, Top
<1>6. \A u \in Threads : CopyOnTop(u)'
  BY <1>5
<1>7. \A u \in Threads : \A i \in 1 .. Len(stack'[u]) :
        Shape(stack'[u][i]) /\ Sound(u, stack[u][i])'
  BY <1>3 DEF Sound
<1> QED  BY <1>1, <1>4, <1>6, <1>7 DEF FramesOK

\* A call in which another is only runs +initialize.
LEMMA CopyBelow ==
  ASSUME FramesOK, NEW t \in Threads, NEW i \in 1 .. Len(stack[t]),
         stack[t][i].op = "copyWeakInit", i # Len(stack[t])
  PROVE  /\ i = Len(stack[t]) - 1 /\ Top(t).pc = "initialize"
         /\ Top(t).prev = ClassOf[stack[t][i].o]
BY DEF FramesOK, CopyOnTop

LEMMA FramesPush ==
  ASSUME FramesOK, NEW t \in Threads, InProgram(t) \/ At(t, "dealloc"),
         NEW f, Push(t, f), Shape(f), Sound(t, f)',
         \A u \in Threads : \A i \in 1 .. Len(stack[u]) :
           /\ \A g : g = stack[u][i] => Sound(u, g)'
           /\ Apart(f, stack[u][i])
  PROVE  FramesOK'
<1>1. StackType /\ f \in FrameType
  BY DEF FramesOK, StackType, Shape
<1> DEFINE m == Len(stack[t])
<1>2. Kept(t, m) /\ Len(stack'[t]) = m + 1 /\ stack'[t][m + 1] = f /\ m \in Nat
  BY <1>1, PushFacts DEF StackType
<1>3. \A i \in m + 1 .. Len(stack'[t]) : i = m + 1
  BY <1>2
<1>4. CopyOnTop(t)'
  <2> SUFFICES ASSUME NEW i \in 1 .. Len(stack'[t]), stack'[t][i].op = "copyWeakInit"
               PROVE  i = Len(stack'[t])
    BY DEF CopyOnTop
  <2> SUFFICES ASSUME i # Len(stack'[t]) PROVE FALSE
    OBVIOUS
  <2>1. i \in 1 .. m /\ stack[t][i].op = "copyWeakInit" /\ m > 0
    BY <1>2 DEF Kept
  <2>2. ~Idle(t)
    <3>1. Len(<<>>) = 0
      OBVIOUS
    <3> QED  BY <2>1, <3>1 DEF Idle
  <2>3. Top(t).pc \in {"running", "dealloc"} /\ Top(t) = stack[t][m]
    BY <2>2 DEF InProgram, At, Top
  <2>4. CASE i = m
    <3>1. Shape(stack[t][m])
      BY <2>1 DEF FramesOK
    <3> QED  BY <2>1, <2>3, <2>4, <3>1 DEF Shape, ShapeCall
  <2>5. CASE i # m
    BY <2>1, <2>3, <2>5, CopyBelow
  <2> QED  BY <2>4, <2>5
<1> HIDE DEF m
<1>5. \A i \in m + 1 .. Len(stack'[t]) : stack'[t][i] = f
  BY <1>2, <1>3
<1>6. \A i, j \in m + 1 .. Len(stack'[t]) : i = j
  BY <1>3
<1> QED  BY <1>2, <1>4, <1>5, <1>6, FramesStep

LEMMA FramesPop ==
  ASSUME FramesOK, NEW t \in Threads, ~Idle(t), Pop(t),
         \A u \in Threads : \A i \in 1 .. Len(stack[u]) :
           u # t \/ i # Len(stack[t]) => \A g : g = stack[u][i] => Sound(u, g)'
  PROVE  FramesOK'
<1>1. StackType
  BY DEF FramesOK, StackType
<1> DEFINE m == Len(stack[t]) - 1
<1>2. Kept(t, m) /\ Len(stack'[t]) = m /\ m \in Nat /\ Len(stack[t]) = m + 1
  BY <1>1, PopFacts, TopFacts
<1>3. CopyOnTop(t)'
  <2> SUFFICES ASSUME NEW i \in 1 .. Len(stack'[t]), stack'[t][i].op = "copyWeakInit"
               PROVE  i = Len(stack'[t])
    BY DEF CopyOnTop
  <2>1. i \in 1 .. m /\ stack[t][i].op = "copyWeakInit"
    BY <1>2 DEF Kept
  <2>2. i \in 1 .. Len(stack[t]) /\ i # Len(stack[t])
    BY <1>2, <2>1
  <2> QED  BY <1>2, <2>1, <2>2, CopyBelow
<1>4. \A i : i \notin m + 1 .. Len(stack'[t])
  BY <1>2
<1>5. \A u \in Threads : \A i \in 1 .. Len(stack[u]) :
        u # t \/ i <= m => \A g : g = stack[u][i] => Sound(u, g)'
  BY <1>2
<1> HIDE DEF m
<1> QED  BY <1>2, <1>3, <1>4, <1>5, FramesStep

LEMMA FramesBecome ==
  ASSUME FramesOK, NEW t \in Threads, ~Idle(t), NEW f, Become(t, f), Shape(f), Sound(t, f)',
         \A u \in Threads : \A i \in 1 .. Len(stack[u]) :
           u # t \/ i # Len(stack[t]) => /\ \A g : g = stack[u][i] => Sound(u, g)'
                                         /\ Apart(f, stack[u][i])
                                         /\ u = t => stack[t][i].op # "copyWeakInit"
  PROVE  FramesOK'
<1>1. StackType /\ f \in FrameType
  BY DEF FramesOK, StackType, Shape
<1> DEFINE m == Len(stack[t]) - 1
<1>2. /\ Kept(t, m) /\ Len(stack'[t]) = m + 1 /\ m \in Nat /\ Len(stack[t]) = m + 1
      /\ stack'[t][m + 1] = f
  BY <1>1, BecomeFacts, TopFacts
<1>3. CopyOnTop(t)'
  <2> SUFFICES ASSUME NEW i \in 1 .. Len(stack'[t]), stack'[t][i].op = "copyWeakInit"
               PROVE  i = Len(stack'[t])
    BY DEF CopyOnTop
  <2> SUFFICES ASSUME i # Len(stack'[t]) PROVE FALSE
    OBVIOUS
  <2>1. i \in 1 .. m /\ stack[t][i].op = "copyWeakInit"
    BY <1>2 DEF Kept
  <2>2. i \in 1 .. Len(stack[t]) /\ i # Len(stack[t])
    BY <1>2, <2>1
  <2> QED  BY <2>1, <2>2
<1>4. \A i \in m + 1 .. Len(stack'[t]) : i = m + 1
  BY <1>2
<1>5. \A u \in Threads : \A i \in 1 .. Len(stack[u]) :
        u # t \/ i <= m => u # t \/ i # Len(stack[t])
  BY <1>2
<1> HIDE DEF m
<1>6. \A i \in m + 1 .. Len(stack'[t]) : stack'[t][i] = f
  BY <1>2, <1>4
<1>7. \A i, j \in m + 1 .. Len(stack'[t]) : i = j
  BY <1>4
<1> QED  BY <1>2, <1>3, <1>5, <1>6, <1>7, FramesStep

LEMMA SoundKept ==
  ASSUME UNCHANGED <<locState, reg, phase, owns, initState, initBy>>
  PROVE  \A u, g : Sound(u, g)' <=> Sound(u, g)
BY DEF Sound, InitBegun

\* The parts of the invariant that are not about the calls
LEMMA RestKept ==
  ASSUME Inv, UNCHANGED <<loc, locState, reg, wref, phase, owns, initState, initBy, error>>,
         owner' \in [Stripes -> Threads \cup {nil}], calls' \in [Threads -> 0 .. MaxCalls]
  PROVE  /\ TypeOK' /\ Mirror' /\ Marked' /\ OwnedLive' /\ FreedClean' /\ Initializing'
         /\ ~error'
<1>1. TypeOK'
  BY DEF Inv, TypeOK
<1> QED  BY <1>1 DEF Inv, Mirror, Marked, OwnedLive, FreedClean, Initializing

LEMMA LocksKept ==
  ASSUME LocksOK, NEW t \in Threads, \A u \in Threads : u # t => stack'[u] = stack[u],
         \A s \in Stripes : /\ \A u \in Threads : u # t /\ owner'[s] = u => owner[s] = u
                            /\ owner'[s] = t => At(t, "lock")' \/ At(t, "locked")'
  PROVE  LocksOK'
<1> SUFFICES ASSUME NEW s \in Stripes, NEW u \in Threads, owner'[s] = u
             PROVE  At(u, "lock")' \/ At(u, "locked")'
  BY DEF LocksOK
<1>1. CASE u = t
  BY <1>1
<1>2. CASE u # t
  <2>1. At(u, "lock") \/ At(u, "locked")
    BY <1>2 DEF LocksOK
  <2> QED  BY <1>2, <2>1 DEF At, Idle, Top
<1> QED  BY <1>1, <1>2

\* Code of the program holds no lock of the side tables.
LEMMA LocksPush ==
  ASSUME Inv, NEW t \in Threads, InProgram(t) \/ At(t, "dealloc"), NEW f, Push(t, f),
         UNCHANGED owner
  PROVE  LocksOK'
<1>1. ~At(t, "lock") /\ ~At(t, "locked")
  BY DEF InProgram, At
<1>2. \A s \in Stripes : owner[s] # t
  BY <1>1 DEF Inv, LocksOK
<1>3. stack' = [stack EXCEPT ![t] = Append(@, f)]
  BY DEF Push
<1>4. \A u \in Threads : u # t => stack'[u] = stack[u]
  BY <1>3 DEF Inv, FramesOK
<1> QED  BY <1>2, <1>4, LocksKept DEF Inv

LEMMA CallsCounted ==
  ASSUME Inv, NEW t \in Threads, calls[t] > 0, calls' = [calls EXCEPT ![t] = @ - 1]
  PROVE  calls' \in [Threads -> 0 .. MaxCalls]
<1>1. calls \in [Threads -> 0 .. MaxCalls]
  BY DEF Inv, TypeOK
<1>2. calls[t] \in 0 .. MaxCalls /\ MaxCalls \in Nat
  BY <1>1, MaxCallsAssumption
<1>3. calls[t] - 1 \in 0 .. MaxCalls
  BY <1>2
<1> QED  BY <1>1, <1>3

LEMMA CallKeeps ==
  ASSUME Inv, NEW t \in Threads, InProgram(t) \/ At(t, "dealloc"),
         NEW f, Call(t, f), Shape(f), Sound(t, f),
         \A u \in Threads : \A i \in 1 .. Len(stack[u]) : Apart(f, stack[u][i])
  PROVE  Inv'
<1>1. /\ Push(t, f) /\ calls[t] > 0 /\ calls' = [calls EXCEPT ![t] = @ - 1]
      /\ UNCHANGED <<loc, locState, reg, wref, owner, phase, owns, initState, initBy, error>>
  BY DEF Call
<1>2. calls' \in [Threads -> 0 .. MaxCalls]
  BY <1>1, CallsCounted
<1>3. \A u, g : Sound(u, g)' <=> Sound(u, g)
  BY <1>1, SoundKept
<1>4. FramesOK
  BY DEF Inv
<1>5. FramesOK'
  <2>1. \A u \in Threads : \A i \in 1 .. Len(stack[u]) : Sound(u, stack[u][i])
    BY <1>4 DEF FramesOK
  <2> QED  BY <1>1, <1>3, <1>4, <2>1, FramesPush
<1>6. LocksOK'
  BY <1>1, LocksPush
<1>7. owner' \in [Stripes -> Threads \cup {nil}]
  BY <1>1 DEF Inv, TypeOK
<1> QED  BY <1>1, <1>2, <1>5, <1>6, <1>7, RestKept DEF Inv

(***************************************************************************)
(* What the program may do keeps calls apart.                              *)
(***************************************************************************)
LEMMA FrameIsRunning ==
  ASSUME NEW u \in Threads, NEW i \in 1 .. Len(stack[u])
  PROVE  stack[u][i] \in RunningFrames
BY DEF RunningFrames

LEMMA NilUnreserved ==
  ASSUME NEW g, Shape(g)
  PROVE  nil \notin Reserved(g) /\ Reserved(g) \subseteq Locations
BY NilAssumption DEF Shape, ShapeCall, Reserved, Inits

LEMMA WeakUnreserved ==
  ASSUME FramesOK, NEW l \in Locations, Weak(l), ~Destroyed(l)
  PROVE  \A u \in Threads : \A i \in 1 .. Len(stack[u]) : l \notin Reserved(stack[u][i])
<1> SUFFICES ASSUME NEW u \in Threads, NEW i \in 1 .. Len(stack[u]),
                    l \in Reserved(stack[u][i])
             PROVE  FALSE
  OBVIOUS
<1>1. Sound(u, stack[u][i])
  BY DEF FramesOK
<1>2. stack[u][i] \in RunningFrames
  BY FrameIsRunning
<1> QED  BY <1>1, <1>2 DEF Weak, Destroyed, Reserved, Sound

LEMMA FreshUnused ==
  ASSUME NEW l, ~InUse(l)
  PROVE  \A u \in Threads : \A i \in 1 .. Len(stack[u]) :
           l # stack[u][i].l /\ l # stack[u][i].d
BY FrameIsRunning DEF InUse

\* A call that only reads, or stores as others may
LEMMA SharedApart ==
  ASSUME FramesOK, NEW f, Reserved(f) = {}, f.d = nil, f.op # "dealloc",
         f.l \in Locations, Weak(f.l), ~Destroyed(f.l)
  PROVE  \A u \in Threads : \A i \in 1 .. Len(stack[u]) : Apart(f, stack[u][i])
<1> SUFFICES ASSUME NEW u \in Threads, NEW i \in 1 .. Len(stack[u])
             PROVE  Apart(f, stack[u][i])
  OBVIOUS
<1>1. f.l \notin Reserved(stack[u][i])
  BY WeakUnreserved
<1>2. nil \notin Reserved(stack[u][i])
  <2>1. Shape(stack[u][i])
    BY DEF FramesOK
  <2> QED  BY <2>1, NilUnreserved
<1> QED  BY <1>1, <1>2 DEF Apart

\* A call that has a variable for itself
LEMMA ExclusiveApart ==
  ASSUME FramesOK, NEW f, NEW x \in Locations, Reserved(f) = {x}, ~InUse(x),
         f.op # "dealloc", f.d \in {nil, x},
         f.l = x \/ (f.l \in Locations /\ Weak(f.l) /\ ~Destroyed(f.l))
  PROVE  \A u \in Threads : \A i \in 1 .. Len(stack[u]) : Apart(f, stack[u][i])
<1> SUFFICES ASSUME NEW u \in Threads, NEW i \in 1 .. Len(stack[u])
             PROVE  Apart(f, stack[u][i])
  OBVIOUS
<1>1. x # stack[u][i].l /\ x # stack[u][i].d
  BY FreshUnused
<1>2. nil \notin Reserved(stack[u][i])
  <2>1. Shape(stack[u][i])
    BY DEF FramesOK
  <2> QED  BY <2>1, NilUnreserved
<1>3. x \notin Reserved(stack[u][i])
  BY <1>1 DEF Reserved
<1>4. f.l \notin Reserved(stack[u][i])
  BY <1>3, WeakUnreserved
<1> QED  BY <1>1, <1>2, <1>3, <1>4 DEF Apart

LEMMA Destroyed_Modified ==
  ASSUME NEW l, Destroyed(l)
  PROVE  InUse(l) /\ Modified(l) /\ ModifiedAlone(l)
BY DEF Destroyed, InUse, Modified, ModifiedAlone, Loading

LEMMA StartStoreKeeps ==
  ASSUME Inv, NEW t \in Threads, StartStoreWeak(t) \/ StartStoreWeakOrNil(t)
  PROVE  Inv'
<1>1. FramesOK
  BY DEF Inv
<1>2. CASE StartStoreWeak(t)
  <2>1. PICK l \in Locations, o \in owns[t] \cup {nil} :
          Weak(l) /\ ~ModifiedAlone(l) /\ Call(t, Frame("storeWeak", "read", l, o, nil))
    BY <1>2 DEF StartStoreWeak
  <2>2. o \in Objects \cup {nil}
    BY <2>1 DEF Inv, TypeOK
  <2> DEFINE f == Frame("storeWeak", "read", l, o, nil)
  <2>3. /\ f.op = "storeWeak" /\ f.pc = "read" /\ f.l = l /\ f.o = o /\ f.d = nil
        /\ f.old = nil /\ f.prev = nil
    BY DEF Frame, NoClass
  <2>4. f \in FrameType
    BY <2>2 DEF Frame, NoClass, FrameType, Ops
  <2> HIDE DEF f
  <2>5. Shape(f)
    BY <2>3, <2>4 DEF Shape, ShapeCall, HaveOld, HaveNew, Loading
  <2>6. Sound(t, f)
    BY <2>1, <2>3 DEF Sound, Inits, Weak
  <2>7. Reserved(f) = {} /\ ~Destroyed(f.l)
    BY <2>1, <2>3, Destroyed_Modified DEF Reserved, Inits
  <2> QED  BY <1>1, <1>2, <2>1, <2>3, <2>5, <2>6, <2>7, SharedApart, CallKeeps
           DEF f, StartStoreWeak
<1>3. CASE StartStoreWeakOrNil(t)
  <2>1. PICK l \in Locations :
          /\ Weak(l) /\ ~ModifiedAlone(l) /\ At(t, "dealloc")
          /\ Call(t, Frame("storeWeakOrNil", "read", l, Top(t).o, nil))
    BY <1>3 DEF StartStoreWeakOrNil
  <2>2. PICK o \in Objects : o = Top(t).o
    <3>1. Top(t) = stack[t][Len(stack[t])] /\ Len(stack[t]) \in 1 .. Len(stack[t])
      BY <1>1, <2>1, TopFacts DEF FramesOK, StackType, At
    <3>2. Shape(Top(t)) /\ Top(t).pc = "dealloc"
      BY <1>1, <2>1, <3>1 DEF FramesOK, At
    <3> QED  BY <3>2 DEF Shape, ShapeDealloc, ShapeInitialize, ShapeCall, FrameType, Ops
  <2> DEFINE f == Frame("storeWeakOrNil", "read", l, o, nil)
  <2>3. /\ f.op = "storeWeakOrNil" /\ f.pc = "read" /\ f.l = l /\ f.o = o /\ f.d = nil
        /\ f.old = nil /\ f.prev = nil
    BY DEF Frame, NoClass
  <2>4. f \in FrameType
    BY <2>2 DEF Frame, NoClass, FrameType, Ops
  <2>8. Call(t, f)
    BY <2>1, <2>2
  <2> HIDE DEF f
  <2>5. Shape(f)
    BY <2>3, <2>4 DEF Shape, ShapeCall, HaveOld, HaveNew, Loading
  <2>6. Sound(t, f)
    BY <2>1, <2>3 DEF Sound, Inits, Weak
  <2>7. Reserved(f) = {} /\ ~Destroyed(f.l)
    BY <2>1, <2>3, Destroyed_Modified DEF Reserved, Inits
  <2> QED  BY <1>1, <2>1, <2>3, <2>5, <2>6, <2>7, <2>8, SharedApart, CallKeeps
<1> QED  BY <1>2, <1>3

LEMMA StartAloneKeeps ==
  ASSUME Inv, NEW t \in Threads, StartInitWeak(t) \/ StartDestroyWeak(t)
  PROVE  Inv'
<1>1. FramesOK
  BY DEF Inv
<1>2. CASE StartInitWeak(t)
  <2>1. PICK l \in Locations, o \in owns[t] :
          Fresh(l) /\ Call(t, Frame("initWeak", "lock", l, o, nil))
    BY <1>2 DEF StartInitWeak
  <2>2. o \in Objects
    BY <2>1 DEF Inv, TypeOK
  <2> DEFINE f == Frame("initWeak", "lock", l, o, nil)
  <2>3. /\ f.op = "initWeak" /\ f.pc = "lock" /\ f.l = l /\ f.o = o /\ f.d = nil
        /\ f.old = nil /\ f.prev = nil
    BY DEF Frame, NoClass
  <2>4. f \in FrameType
    BY <2>2 DEF Frame, NoClass, FrameType, Ops
  <2>8. Call(t, f) /\ InProgram(t)
    BY <1>2, <2>1 DEF StartInitWeak
  <2> HIDE DEF f
  <2>5. Shape(f)
    BY <2>2, <2>3, <2>4 DEF Shape, ShapeCall, HaveOld, HaveNew, Loading
  <2>6. Sound(t, f)
    BY <2>1, <2>3 DEF Sound, Inits, Fresh, HaveOld, Loading
  <2>7. Reserved(f) = {l} /\ ~InUse(l)
    BY <2>1, <2>3 DEF Reserved, Inits, Fresh
  <2> QED  BY <1>1, <2>3, <2>5, <2>6, <2>7, <2>8, ExclusiveApart, CallKeeps
<1>3. CASE StartDestroyWeak(t)
  <2>1. PICK l \in Locations :
          Weak(l) /\ ~InUse(l) /\ Call(t, Frame("destroyWeak", "read", l, nil, nil))
    BY <1>3 DEF StartDestroyWeak
  <2> DEFINE f == Frame("destroyWeak", "read", l, nil, nil)
  <2>3. /\ f.op = "destroyWeak" /\ f.pc = "read" /\ f.l = l /\ f.o = nil /\ f.d = nil
        /\ f.old = nil /\ f.prev = nil
    BY DEF Frame, NoClass
  <2>4. f \in FrameType
    BY DEF Frame, NoClass, FrameType, Ops
  <2>8. Call(t, f) /\ (InProgram(t) \/ At(t, "dealloc"))
    BY <1>3, <2>1 DEF StartDestroyWeak
  <2> HIDE DEF f
  <2>5. Shape(f)
    BY <2>3, <2>4 DEF Shape, ShapeCall, HaveOld, HaveNew, Loading
  <2>6. Sound(t, f)
    BY <2>1, <2>3 DEF Sound, Inits, Weak
  <2>7. Reserved(f) = {l}
    BY <2>3 DEF Reserved, Inits
  <2> QED  BY <1>1, <2>1, <2>3, <2>5, <2>6, <2>7, <2>8, ExclusiveApart, CallKeeps
<1> QED  BY <1>2, <1>3

LEMMA StartLoadKeeps ==
  ASSUME Inv, NEW t \in Threads, StartLoadWeak(t) \/ StartCopyWeak(t) \/ StartMoveWeak(t)
  PROVE  Inv'
<1>1. FramesOK
  BY DEF Inv
<1>2. CASE StartLoadWeak(t)
  <2>1. PICK l \in Locations :
          Weak(l) /\ ~Destroyed(l) /\ Call(t, Frame("loadWeakRetained", "read", l, nil, nil))
    BY <1>2 DEF StartLoadWeak
  <2> DEFINE f == Frame("loadWeakRetained", "read", l, nil, nil)
  <2>3. /\ f.op = "loadWeakRetained" /\ f.pc = "read" /\ f.l = l /\ f.o = nil /\ f.d = nil
        /\ f.old = nil /\ f.prev = nil
    BY DEF Frame, NoClass
  <2>4. f \in FrameType
    BY DEF Frame, NoClass, FrameType, Ops
  <2>8. Call(t, f) /\ InProgram(t)
    BY <1>2, <2>1 DEF StartLoadWeak
  <2> HIDE DEF f
  <2>5. Shape(f)
    BY <2>3, <2>4 DEF Shape, ShapeCall, HaveOld, HaveNew, Loading
  <2>6. Sound(t, f)
    BY <2>1, <2>3 DEF Sound, Inits, Weak
  <2>7. Reserved(f) = {}
    BY <2>3 DEF Reserved, Inits
  <2> QED  BY <1>1, <2>1, <2>3, <2>5, <2>6, <2>7, <2>8, SharedApart, CallKeeps
<1>3. ASSUME StartCopyWeak(t) \/ StartMoveWeak(t) PROVE Inv'
  <2>1. PICK op \in {"copyWeak", "moveWeak"}, l \in Locations, d \in Locations :
          /\ Weak(l) /\ ~Destroyed(l) /\ Fresh(d)
          /\ Call(t, Frame(op, "read", l, nil, d)) /\ InProgram(t)
    <3>1. CASE StartCopyWeak(t)
      BY <3>1 DEF StartCopyWeak
    <3>2. CASE StartMoveWeak(t)
      BY <3>2, Destroyed_Modified DEF StartMoveWeak
    <3> QED  BY <1>3, <3>1, <3>2
  <2>2. locState[d] = "raw" /\ ~InUse(d) /\ locState[l] = "weak" /\ d # l
    BY <2>1 DEF Fresh, Weak
  <2> DEFINE f == Frame(op, "read", l, nil, d)
  <2>3. /\ f.op = op /\ f.pc = "read" /\ f.l = l /\ f.o = nil /\ f.d = d
        /\ f.old = nil /\ f.prev = nil
    BY DEF Frame, NoClass
  <2>4. f \in FrameType
    BY DEF Frame, NoClass, FrameType, Ops
  <2>8. Call(t, f)
    BY <2>1
  <2> HIDE DEF f
  <2>5. Shape(f)
    BY <2>2, <2>3, <2>4 DEF Shape, ShapeCall, HaveOld, HaveNew, Loading
  <2>6. Sound(t, f)
    BY <2>2, <2>3 DEF Sound, Inits
  <2>7. Reserved(f) = {d}
    BY <2>3 DEF Reserved, Inits
  <2> QED  BY <1>1, <2>1, <2>2, <2>3, <2>5, <2>6, <2>7, <2>8, ExclusiveApart, CallKeeps
<1> QED  BY <1>2, <1>3

\* A frame that runs +initialize uses no variable and no object.
LEMMA InitializeApart ==
  ASSUME FramesOK, NEW c \in Classes
  PROVE  /\ Shape(InitializeFrame(c)) /\ \A t : Sound(t, InitializeFrame(c))
         /\ \A g : Shape(g) => Apart(InitializeFrame(c), g)
<1> DEFINE f == InitializeFrame(c)
<1>1. /\ f.op = "class_initialize" /\ f.pc = "initialize" /\ f.l = nil /\ f.o = nil /\ f.d = nil
      /\ f.old = nil /\ f.prev = c
  BY DEF InitializeFrame, Frame
<1>2. f \in FrameType
  BY DEF InitializeFrame, Frame, FrameType, Ops, NoClass
<1> HIDE DEF f
<1>3. Shape(f)
  BY <1>1, <1>2 DEF Shape, ShapeInitialize
<1>4. \A t : Sound(t, f)
  BY <1>1 DEF Sound, Inits, HaveOld, Loading
<1>5. Reserved(f) = {}
  BY <1>1 DEF Reserved, Inits
<1>6. \A g : Shape(g) => Apart(f, g)
  BY <1>1, <1>5, NilUnreserved DEF Apart
<1> QED  BY <1>3, <1>4, <1>6 DEF f

LEMMA StartMessageKeeps ==
  ASSUME Inv, NEW t \in Threads, StartMessage(t)
  PROVE  Inv'
<1>1. PICK o \in owns[t] : Call(t, InitializeFrame(ClassOf[o])) /\ InProgram(t)
  BY DEF StartMessage
<1>2. PICK c \in Classes : c = ClassOf[o]
  BY <1>1 DEF Inv, TypeOK, Classes
<1>3. FramesOK /\ \A u \in Threads : \A i \in 1 .. Len(stack[u]) : Shape(stack[u][i])
  BY DEF Inv, FramesOK
<1>4. \A u \in Threads : \A i \in 1 .. Len(stack[u]) : Apart(InitializeFrame(c), stack[u][i])
  BY <1>3, InitializeApart
<1>5. Shape(InitializeFrame(c)) /\ Sound(t, InitializeFrame(c))
  BY <1>3, InitializeApart
<1>6. Call(t, InitializeFrame(c))
  BY <1>1, <1>2
<1> QED  BY <1>1, <1>4, <1>5, <1>6, CallKeeps

(***************************************************************************)
(* The retry loop.                                                         *)
(***************************************************************************)
LEMMA TopOK ==
  ASSUME FramesOK, NEW t \in Threads, ~Idle(t)
  PROVE  /\ Shape(Top(t)) /\ Sound(t, Top(t)) /\ Top(t) = stack[t][Len(stack[t])]
         /\ Len(stack[t]) \in 1 .. Len(stack[t])
         /\ \A u \in Threads : \A i \in 1 .. Len(stack[u]) :
              u # t \/ i # Len(stack[t]) => Apart(Top(t), stack[u][i])
<1>1. Top(t) = stack[t][Len(stack[t])] /\ Len(stack[t]) \in 1 .. Len(stack[t])
  BY TopFacts DEF FramesOK, StackType
<1> QED  BY <1>1 DEF FramesOK

\* The labels of the calls of the functions on weak variables
LEMMA CallLabels ==
  ASSUME NEW f, Shape(f), f.pc \in {"read", "lock", "locked", "release"}
  PROVE  f.op \notin {"dealloc", "class_initialize"} /\ ShapeCall(f)
BY DEF Shape, ShapeDealloc, ShapeInitialize

\* A call goes on without a change of what the program sees.
LEMMA BecomeKeeps ==
  ASSUME Inv, NEW t \in Threads, ~Idle(t), Top(t).pc # "initialize",
         NEW f, Become(t, f), Shape(f), Sound(t, f),
         f.op = Top(t).op, f.l = Top(t).l, f.d = Top(t).d, f.o = Top(t).o, Top(t).pc # "release",
         UNCHANGED <<loc, locState, reg, wref, phase, owns, initState, initBy, error, calls>>,
         owner' \in [Stripes -> Threads \cup {nil}],
         \A s \in Stripes : /\ \A u \in Threads : u # t /\ owner'[s] = u => owner[s] = u
                            /\ owner'[s] = t => f.pc \in {"lock", "locked"}
  PROVE  Inv'
<1>1. FramesOK /\ StackType /\ f \in FrameType
  BY DEF Inv, FramesOK, StackType, Shape
<1>2. \A u, g : Sound(u, g)' <=> Sound(u, g)
  BY SoundKept
<1>3. \A u \in Threads : \A i \in 1 .. Len(stack[u]) : Sound(u, stack[u][i])
  BY <1>1 DEF FramesOK
<1>4. Reserved(f) \subseteq Reserved(Top(t))
  BY DEF Reserved, Inits
<1>5. \A u \in Threads : \A i \in 1 .. Len(stack[u]) :
        u # t \/ i # Len(stack[t]) => Apart(f, stack[u][i])
  <2>1. ASSUME NEW g, Apart(Top(t), g) PROVE Apart(f, g)
    BY <1>4, <2>1 DEF Apart
  <2> QED  BY <1>1, <2>1, TopOK
<1>6. \A i \in 1 .. Len(stack[t]) : i # Len(stack[t]) => stack[t][i].op # "copyWeakInit"
  BY <1>1, CopyBelow
<1>7. FramesOK'
  BY <1>1, <1>2, <1>3, <1>5, <1>6, FramesBecome
<1>8. /\ \A u \in Threads : u # t => stack'[u] = stack[u]
      /\ f.pc \in {"lock", "locked"} => At(t, "lock")' \/ At(t, "locked")'
  <2>1. /\ Kept(t, Len(stack[t]) - 1) /\ Len(stack'[t]) = Len(stack[t])
        /\ stack'[t][Len(stack'[t])] = f /\ Len(stack[t]) > 0
    BY <1>1, BecomeFacts, TopFacts
  <2>2. Len(<<>>) = 0
    OBVIOUS
  <2> QED  BY <2>1, <2>2 DEF Kept, At, Idle, Top
<1>9. LocksOK'
  BY <1>8, LocksKept DEF Inv
<1>10. calls' \in [Threads -> 0 .. MaxCalls]
  BY DEF Inv, TypeOK
<1> QED  BY <1>7, <1>9, <1>10, RestKept DEF Inv

\* A frame at another label
LEMMA SoundAt ==
  ASSUME NEW t, NEW f, NEW g, Sound(t, f), g.op = f.op, g.l = f.l, g.o = f.o, g.d = f.d,
         f.pc \in {"read", "lock", "locked"}, f.op # "dealloc"
  PROVE  Sound(t, g)
BY DEF Sound, Inits, HaveOld, Loading

LEMMA ReadKeeps ==
  ASSUME Inv, NEW t \in Threads, Read(t)
  PROVE  Inv'
<1>1. /\ ~Idle(t) /\ Top(t).pc = "read"
      /\ ~(loc[Top(t).l] = nil /\ (Loading(Top(t)) \/ Top(t).op = "moveWeak"))
      /\ Become(t, [Top(t) EXCEPT !.old = loc[Top(t).l], !.pc = "lock"])
      /\ UNCHANGED <<loc, locState, reg, wref, owner, phase, owns, initState, initBy,
                     error, calls>>
  BY DEF Read, At
<1>2. PICK top : top = Top(t)
  OBVIOUS
<1>3. Shape(top) /\ Sound(t, top) /\ top \in FrameType
  BY <1>1, <1>2, TopOK DEF Inv, Shape
<1>4. top.op \notin {"dealloc", "class_initialize"} /\ ShapeCall(top) /\ top.pc = "read"
  BY <1>1, <1>2, <1>3, CallLabels
<1>5. PICK old : old = loc[top.l]
  OBVIOUS
<1>6. /\ old \in Objects \cup {nil}
      /\ Loading(top) \/ top.op = "moveWeak" => old \in Objects
  BY <1>1, <1>2, <1>4, <1>5 DEF Inv, TypeOK, ShapeCall
<1> DEFINE f == [top EXCEPT !.old = old, !.pc = "lock"]
<1>7. f = [top EXCEPT !.pc = "lock", !.old = old, !.prev = top.prev] /\ Become(t, f)
  BY <1>1, <1>2, <1>3, <1>5 DEF FrameType
<1>8. top.prev \in Classes \cup {nil}
  BY <1>3 DEF FrameType
<1> HIDE DEF f
<1>9. /\ f \in FrameType /\ f.op = top.op /\ f.pc = "lock" /\ f.l = top.l /\ f.o = top.o
      /\ f.d = top.d /\ f.old = old /\ f.prev = top.prev
  BY <1>3, <1>6, <1>7, <1>8 DEF FrameType
<1>10. Shape(f)
  BY <1>4, <1>6, <1>9 DEF Shape, ShapeCall, HaveOld, HaveNew, Loading
<1>11. Sound(t, f)
  BY <1>3, <1>4, <1>9, SoundAt
<1>12. owner' \in [Stripes -> Threads \cup {nil}]
  BY <1>1 DEF Inv, TypeOK
<1> QED  BY <1>1, <1>2, <1>7, <1>9, <1>10, <1>11, <1>12, BecomeKeeps

LEMMA LockKeeps ==
  ASSUME Inv, NEW t \in Threads, Lock(t)
  PROVE  Inv'
<1>1. PICK s : s = NextLock(t)
  OBVIOUS
<1>2. PICK pc \in {"lock", "locked"} :
        /\ owner' = [owner EXCEPT ![s] = t] /\ Goto(t, pc) /\ ~Idle(t) /\ Top(t).pc = "lock"
        /\ UNCHANGED <<loc, locState, reg, wref, phase, owns, initState, initBy, error, calls>>
  BY <1>1 DEF Lock, At
<1>3. PICK top : top = Top(t)
  OBVIOUS
<1>4. Shape(top) /\ Sound(t, top) /\ top \in FrameType
  BY <1>2, <1>3, TopOK DEF Inv, Shape
<1>5. top.op \notin {"dealloc", "class_initialize"} /\ ShapeCall(top) /\ top.pc = "lock"
  BY <1>2, <1>3, <1>4, CallLabels
<1> DEFINE f == [top EXCEPT !.pc = pc]
<1>6. /\ f = [top EXCEPT !.pc = pc, !.old = top.old, !.prev = top.prev] /\ Become(t, f)
      /\ top.prev \in Classes \cup {nil} /\ top.old \in Objects \cup {nil}
  BY <1>2, <1>3, <1>4 DEF FrameType, Goto
<1> HIDE DEF f
<1>7. /\ f \in FrameType /\ f.op = top.op /\ f.pc = pc /\ f.l = top.l /\ f.o = top.o
      /\ f.d = top.d /\ f.old = top.old /\ f.prev = top.prev
  BY <1>4, <1>6 DEF FrameType
<1>8. Shape(f)
  BY <1>5, <1>7 DEF Shape, ShapeCall, HaveOld, HaveNew, Loading
<1>9. Sound(t, f)
  BY <1>4, <1>5, <1>7, SoundAt
<1>10. /\ owner' \in [Stripes -> Threads \cup {nil}]
       /\ \A r \in Stripes : \A u \in Threads : u # t /\ owner'[r] = u => owner[r] = u
  BY <1>2 DEF Inv, TypeOK
<1>11. \A r \in Stripes : owner'[r] = t => f.pc \in {"lock", "locked"}
  BY <1>7
<1>12. /\ Top(t).pc # "initialize" /\ Top(t).pc # "release" /\ f.op = Top(t).op
       /\ f.l = Top(t).l /\ f.d = Top(t).d /\ f.o = Top(t).o
  BY <1>3, <1>5, <1>7
<1> QED  BY <1>2, <1>6, <1>8, <1>9, <1>10, <1>11, <1>12, BecomeKeeps

LEMMA UnlockFacts ==
  ASSUME Inv, NEW t \in Threads, Unlock(t)
  PROVE  /\ owner' \in [Stripes -> Threads \cup {nil}]
         /\ \A s \in Stripes : /\ owner'[s] # t
                               /\ \A u \in Threads : u # t /\ owner'[s] = u => owner[s] = u
<1>1. owner' = [s \in Stripes |-> IF owner[s] = t THEN nil ELSE owner[s]]
  BY DEF Unlock
<1>2. owner \in [Stripes -> Threads \cup {nil}] /\ nil \notin Threads
  BY NilAssumption DEF Inv, TypeOK
<1> QED  BY <1>1, <1>2

LEMMA TryAgainKeeps ==
  ASSUME Inv, NEW t \in Threads, TryAgain(t)
  PROVE  Inv'
<1>1. /\ Unlock(t) /\ Goto(t, "read") /\ ~Idle(t) /\ Top(t).pc = "locked" /\ HaveOld(Top(t))
      /\ UNCHANGED <<loc, locState, reg, wref, phase, owns, initState, initBy, error, calls>>
  BY DEF TryAgain, At, Changed
<1>3. PICK top : top = Top(t)
  OBVIOUS
<1>4. Shape(top) /\ Sound(t, top) /\ top \in FrameType
  BY <1>1, <1>3, TopOK DEF Inv, Shape
<1>5. top.op \notin {"dealloc", "class_initialize"} /\ ShapeCall(top) /\ top.pc = "locked"
  BY <1>1, <1>3, <1>4, CallLabels
<1> DEFINE f == [top EXCEPT !.pc = "read"]
<1>6. /\ f = [top EXCEPT !.pc = "read", !.old = top.old, !.prev = top.prev] /\ Become(t, f)
      /\ top.prev \in Classes \cup {nil} /\ top.old \in Objects \cup {nil}
  BY <1>1, <1>3, <1>4 DEF FrameType, Goto
<1> HIDE DEF f
<1>7. /\ f \in FrameType /\ f.op = top.op /\ f.pc = "read" /\ f.l = top.l /\ f.o = top.o
      /\ f.d = top.d /\ f.old = top.old /\ f.prev = top.prev
  BY <1>4, <1>6 DEF FrameType
<1>8. Shape(f)
  BY <1>1, <1>3, <1>5, <1>7 DEF Shape, ShapeCall, HaveOld, HaveNew, Loading
<1>9. Sound(t, f)
  BY <1>4, <1>5, <1>7, SoundAt
<1>10. /\ owner' \in [Stripes -> Threads \cup {nil}]
       /\ \A s \in Stripes : /\ \A u \in Threads : u # t /\ owner'[s] = u => owner[s] = u
                             /\ owner'[s] = t => f.pc \in {"lock", "locked"}
  BY <1>1, UnlockFacts
<1>12. /\ Top(t).pc # "initialize" /\ Top(t).pc # "release" /\ f.op = Top(t).op
       /\ f.l = Top(t).l /\ f.d = Top(t).d /\ f.o = Top(t).o
  BY <1>3, <1>5, <1>7
<1>13. /\ ~Idle(t) /\ f \in FrameType
       /\ UNCHANGED <<loc, locState, reg, wref, phase, owns, initState, initBy, error, calls>>
  BY <1>1, <1>7
<1> QED  BY ONLY Inv, t \in Threads, <1>6, <1>8, <1>9, <1>10, <1>12, <1>13, BecomeKeeps

(***************************************************************************)
(* The critical sections.                                                  *)
(***************************************************************************)
\* What another call relies on stays.
LEMMA SoundStep ==
  ASSUME NEW u \in Threads, NEW g, Sound(u, g),
         \A x \in Reserved(g) : locState'[x] = locState[x],
         HaveOld(g) => locState'[g.l] = "weak",
         g.op \in {"storeWeak", "initWeak"} /\ g.o \in owns[u] => g.o \in owns'[u],
         g.op = "copyWeakInit" => phase'[g.o] = phase[g.o],
         InitBegun(u, ClassOf[g.o]) => InitBegun(u, ClassOf[g.o])',
         g.op = "dealloc" => phase'[g.o] = phase[g.o],
         g.op = "dealloc" => \A l \in Locations : <<g.o, l>> \in reg' => <<g.o, l>> \in reg
  PROVE  Sound(u, g)'
BY DEF Sound, Reserved, Inits, HaveOld, Loading

\* The locks of a thread that has let them go, or has none
LEMMA LocksStep ==
  ASSUME Inv, NEW t \in Threads, ~Idle(t), NEW m, Kept(t, m),
         Unlock(t) \/ (UNCHANGED owner /\ Top(t).pc \notin {"lock", "locked"})
  PROVE  LocksOK' /\ owner' \in [Stripes -> Threads \cup {nil}]
<1>1. /\ owner' \in [Stripes -> Threads \cup {nil}]
      /\ \A s \in Stripes : /\ owner'[s] # t
                            /\ \A u \in Threads : u # t /\ owner'[s] = u => owner[s] = u
  <2>1. CASE Unlock(t)
    BY <2>1, UnlockFacts
  <2>2. CASE UNCHANGED owner /\ Top(t).pc \notin {"lock", "locked"}
    <3>1. \A s \in Stripes : owner[s] # t
      BY <2>2 DEF Inv, LocksOK, At
    <3> QED  BY <2>2, <3>1 DEF Inv, TypeOK
  <2> QED  BY <2>1, <2>2
<1> QED  BY <1>1, LocksKept DEF Inv, Kept

\* A critical section that changes the variable x of the call at the top of t
\* leaves the other calls what they rely on.
LEMMA OthersSound ==
  ASSUME FramesOK, NEW t \in Threads, ~Idle(t), NEW x \in {Top(t).l, Top(t).d}, NEW s,
         locState \in [Locations -> {"raw", "weak"}], locState' = [locState EXCEPT ![x] = s],
         s = "weak" \/ x \in Reserved(Top(t)),
         UNCHANGED <<phase, owns, initState, initBy>>,
         \A o \in Objects, l \in Locations :
           <<o, l>> \in reg' /\ <<o, l>> \notin reg =>
             phase[o] = "live" \/ \E m \in Locations : <<o, m>> \in reg
  PROVE  \A u \in Threads : \A i \in 1 .. Len(stack[u]) :
           u # t \/ i # Len(stack[t]) => \A g : g = stack[u][i] => Sound(u, g)'
<1> SUFFICES ASSUME NEW u \in Threads, NEW i \in 1 .. Len(stack[u]), u # t \/ i # Len(stack[t]),
                    NEW g, g = stack[u][i]
             PROVE  Sound(u, g)'
  OBVIOUS
<1>1. Shape(g) /\ Sound(u, g) /\ Apart(Top(t), g)
  BY TopOK DEF FramesOK
<1>2. x \notin Reserved(g) /\ (x \in Reserved(Top(t)) => g.l # x)
  BY <1>1 DEF Apart
<1>3. \A y \in Reserved(g) : locState'[y] = locState[y]
  BY <1>1, <1>2, NilUnreserved
<1>4. HaveOld(g) => locState'[g.l] = "weak"
  BY <1>1, <1>2 DEF Sound
<1>5. InitBegun(u, ClassOf[g.o]) => InitBegun(u, ClassOf[g.o])'
  BY DEF InitBegun
<1> SUFFICES ASSUME g.op = "dealloc", NEW l \in Locations, <<g.o, l>> \in reg'
             PROVE  Sound(u, g)' \/ <<g.o, l>> \in reg
  BY <1>1, <1>3, <1>4, <1>5, SoundStep
<1>6. g.o \in Objects /\ phase[g.o] = "deallocating"
  BY <1>1 DEF Shape, ShapeDealloc, Sound
<1>7. CASE g.pc = "free"
  BY <1>1, <1>6, <1>7 DEF Sound
<1>8. CASE g.pc # "free"
  BY <1>1, <1>3, <1>4, <1>5, <1>6, <1>8 DEF Sound, Reserved, Inits, HaveOld, Loading
<1> QED  BY <1>7, <1>8

\* A load, a copy or a move of nil, or a copy of a dead object: the
\* destination becomes a weak variable that holds nil.
LEMMA NilStored ==
  ASSUME Inv, NEW t \in Threads, ~Idle(t), Top(t).op \in {"copyWeak", "moveWeak"},
         loc' = [loc EXCEPT ![Top(t).d] = nil],
         locState' = [locState EXCEPT ![Top(t).d] = "weak"], Pop(t),
         Unlock(t) \/ (UNCHANGED owner /\ Top(t).pc \notin {"lock", "locked"}),
         UNCHANGED <<reg, wref, phase, owns, initState, initBy, error, calls>>
  PROVE  Inv'
<1>1. FramesOK /\ StackType
  BY DEF Inv, FramesOK, StackType
<1>2. PICK d : d = Top(t).d
  OBVIOUS
<1>3. d \in Locations /\ locState[d] = "raw"
  BY <1>1, <1>2, TopOK DEF Shape, ShapeCall, Sound
<1>4. FramesOK'
  <2>1. locState \in [Locations -> {"raw", "weak"}]
    BY DEF Inv, TypeOK
  <2>2. \A u \in Threads : \A i \in 1 .. Len(stack[u]) :
          u # t \/ i # Len(stack[t]) => \A g : g = stack[u][i] => Sound(u, g)'
    BY <1>1, <2>1, OthersSound
  <2> QED  BY <1>1, <2>2, FramesPop
<1>5. LocksOK' /\ owner' \in [Stripes -> Threads \cup {nil}]
  BY <1>1, PopFacts, LocksStep
<1>6. TypeOK'
  BY <1>2, <1>5 DEF Inv, TypeOK
<1>7. Mirror'
  <2> SUFFICES ASSUME NEW o \in Objects, NEW l \in Locations
               PROVE  <<o, l>> \in reg <=> locState'[l] = "weak" /\ loc'[l] = o
    BY DEF Mirror
  <2>1. <<o, l>> \in reg <=> locState[l] = "weak" /\ loc[l] = o
    BY DEF Inv, Mirror
  <2>2. loc'[d] = nil /\ nil # o
    BY <1>2, <1>3, NilAssumption DEF Inv, TypeOK
  <2>3. CASE l = d
    BY <1>3, <2>1, <2>2, <2>3
  <2>4. CASE l # d
    BY <1>2, <2>1, <2>4 DEF Inv, TypeOK
  <2> QED  BY <2>3, <2>4
<1>8. Marked' /\ OwnedLive' /\ FreedClean' /\ Initializing' /\ ~error'
  BY DEF Inv, Marked, OwnedLive, FreedClean, Initializing
<1> QED  BY <1>4, <1>5, <1>6, <1>7, <1>8 DEF Inv

\* A call returns without a change, or having taken a reference.
LEMMA ReturnKeeps ==
  ASSUME Inv, NEW t \in Threads, ~Idle(t), Pop(t),
         Unlock(t) \/ (UNCHANGED owner /\ Top(t).pc \notin {"lock", "locked"}),
         \/ UNCHANGED owns
         \/ \E o \in Objects : phase[o] = "live" /\ owns' = [owns EXCEPT ![t] = @ \cup {o}],
         UNCHANGED <<loc, locState, reg, wref, phase, initState, initBy, error, calls>>
  PROVE  Inv'
<1>1. FramesOK /\ StackType
  BY DEF Inv, FramesOK, StackType
<1>2. /\ owns' \in [Threads -> SUBSET Objects]
      /\ \A u \in Threads : owns[u] \subseteq owns'[u]
      /\ \A u \in Threads : \A o \in owns'[u] : o \in owns[u] \/ phase[o] = "live"
  <2>1. owns \in [Threads -> SUBSET Objects]
    BY DEF Inv, TypeOK
  <2>2. CASE UNCHANGED owns
    BY <2>1, <2>2
  <2>3. CASE \E o \in Objects : phase[o] = "live" /\ owns' = [owns EXCEPT ![t] = @ \cup {o}]
    <3>1. PICK o \in Objects : phase[o] = "live" /\ owns' = [owns EXCEPT ![t] = @ \cup {o}]
      BY <2>3
    <3> QED  BY <2>1, <3>1
  <2> QED  BY <2>2, <2>3
<1>3. FramesOK'
  <2>1. ASSUME NEW u \in Threads, NEW i \in 1 .. Len(stack[u]), NEW g, g = stack[u][i]
        PROVE  Sound(u, g)'
    <3>1. Sound(u, g)
      BY <1>1, <2>1 DEF FramesOK
    <3> QED  BY <1>2, <3>1 DEF Sound, InitBegun
  <2> QED  BY <1>1, <2>1, FramesPop
<1>4. LocksOK' /\ owner' \in [Stripes -> Threads \cup {nil}]
  BY <1>1, PopFacts, LocksStep
<1>5. TypeOK' /\ OwnedLive'
  BY <1>2, <1>4 DEF Inv, TypeOK, OwnedLive
<1>6. Mirror' /\ Marked' /\ FreedClean' /\ Initializing' /\ ~error'
  BY DEF Inv, Mirror, Marked, FreedClean, Initializing
<1> QED  BY <1>3, <1>4, <1>5, <1>6 DEF Inv

LEMMA ReadNilKeeps ==
  ASSUME Inv, NEW t \in Threads, ReadNil(t)
  PROVE  Inv'
<1>1. /\ ~Idle(t) /\ Top(t).pc = "read" /\ Pop(t)
      /\ UNCHANGED <<reg, wref, owner, phase, owns, initState, initBy, error, calls>>
  BY DEF ReadNil, At
<1>2. CASE Top(t).op = "loadWeakRetained"
  <2>1. UNCHANGED <<loc, locState>>
    BY <1>2 DEF ReadNil
  <2> QED  BY <1>1, <2>1, ReturnKeeps
<1>3. CASE Top(t).op # "loadWeakRetained"
  <2>1. /\ Top(t).op \in {"copyWeak", "moveWeak"}
        /\ loc' = [loc EXCEPT ![Top(t).d] = nil]
        /\ locState' = [locState EXCEPT ![Top(t).d] = "weak"]
    BY <1>3 DEF ReadNil, Loading
  <2> QED  BY <1>1, <2>1, NilStored
<1> QED  BY <1>2, <1>3

\* The pair that an unregistration removes is the variable's.
LEMMA Unchanged_Old ==
  ASSUME Inv, NEW t \in Threads, ~Idle(t), ~Changed(t), Top(t).pc = "locked",
         NEW f, f = Top(t)
  PROVE  /\ f.l \in Locations /\ f.op \notin {"dealloc", "class_initialize"}
         /\ HaveOld(f) => locState[f.l] = "weak" /\ loc[f.l] = f.old
         /\ f.op \in {"initWeak", "copyWeakInit"} => locState[f.l] = "raw" /\ f.old = nil
         /\ ~UnknownReferrer(f.old, f.l)
         /\ HaveOld(f) \/ f.op \in {"initWeak", "copyWeakInit"} =>
              \A o \in Objects : <<o, f.l>> \in reg => o = f.old
<1>1. Shape(f) /\ Sound(t, f)
  BY TopOK DEF Inv
<1>2. f.l \in Locations /\ f.op \notin {"dealloc", "class_initialize"} /\ ShapeCall(f)
  BY <1>1, CallLabels DEF ShapeCall
<1>3. HaveOld(f) => locState[f.l] = "weak" /\ loc[f.l] = f.old
  BY <1>1 DEF Sound, Changed
<1>4. f.op \in {"initWeak", "copyWeakInit"} => locState[f.l] = "raw" /\ f.old = nil
  BY <1>1, <1>2 DEF Sound, Inits, ShapeCall
<1>5. HaveOld(f) \/ f.op \in {"initWeak", "copyWeakInit"}
  BY <1>1, <1>2 DEF HaveOld, Loading, Shape, FrameType, Ops
<1>6. \A o \in Objects : <<o, f.l>> \in reg => o = f.old
  BY <1>2, <1>3, <1>4, <1>5 DEF Inv, Mirror
<1>7. ~UnknownReferrer(f.old, f.l)
  <2> SUFFICES ASSUME UnknownReferrer(f.old, f.l) PROVE FALSE
    OBVIOUS
  <2>1. PICK p \in reg : p[1] = f.old
    BY DEF UnknownReferrer, Referrers
  <2>2. f.old \in Objects /\ f.old # nil
    BY <2>1, NilAssumption DEF Inv, TypeOK
  <2>3. <<f.old, f.l>> \in reg
    BY <1>2, <1>3, <1>4, <1>5, <2>2 DEF Inv, Mirror
  <2> QED  BY <2>3 DEF UnknownReferrer
<1> QED  BY <1>2, <1>3, <1>4, <1>6, <1>7

LEMMA StoreBodyKeeps ==
  ASSUME Inv, NEW t \in Threads, StoreBody(t)
  PROVE  Inv'
<1>1. PICK f, o : f = Top(t) /\ o = IF Rejected(f.o) THEN nil ELSE f.o
  OBVIOUS
<1>2. /\ ~Idle(t) /\ f.pc = "locked" /\ ~Changed(t)
      /\ f.op \in {"storeWeak", "storeWeakOrNil", "initWeak", "copyWeakInit"}
      /\ error' = (error \/ (Rejected(f.o) /\ f.op # "storeWeakOrNil")
                         \/ UnknownReferrer(f.old, f.l))
      /\ reg' = Stored(f, o) /\ wref' = wref \cup ({o} \ {nil})
      /\ loc' = [loc EXCEPT ![f.l] = o]
      /\ locState' = [locState EXCEPT ![f.l] = "weak"]
      /\ IF f.op = "copyWeakInit" THEN Goto(t, "release") ELSE Pop(t)
      /\ Unlock(t) /\ UNCHANGED <<phase, owns, initState, initBy, calls>>
  BY <1>1 DEF StoreBody, Ready, At
<1>3. /\ FramesOK /\ StackType /\ Shape(f) /\ Sound(t, f)
      /\ \A u \in Threads : \A i \in 1 .. Len(stack[u]) :
           u # t \/ i # Len(stack[t]) => Apart(f, stack[u][i])
  BY <1>1, <1>2, TopOK DEF Inv, FramesOK, StackType
<1>4. /\ f.l \in Locations /\ f.op \notin {"dealloc", "class_initialize"}
      /\ HaveOld(f) => locState[f.l] = "weak" /\ loc[f.l] = f.old
      /\ f.op \in {"initWeak", "copyWeakInit"} => locState[f.l] = "raw" /\ f.old = nil
      /\ ~UnknownReferrer(f.old, f.l)
      /\ HaveOld(f) \/ f.op \in {"initWeak", "copyWeakInit"} =>
           \A x \in Objects : <<x, f.l>> \in reg => x = f.old
  BY <1>1, <1>2, Unchanged_Old
<1>5. ShapeCall(f) /\ f \in FrameType /\ f.o \in Objects \cup {nil}
  BY <1>3, <1>4 DEF Shape, FrameType
\* What is stored is alive, and a store of a dying object is not an error of
\* the program only with objc_storeWeakOrNil.
<1>6. ~error' /\ o \in Objects \cup {nil} /\ (o # nil => phase[o] = "live")
  <2>1. o \in Objects \cup {nil} /\ (o # nil => phase[o] = "live")
    BY <1>1, <1>5 DEF Rejected
  <2>2. f.op # "storeWeakOrNil" => ~Rejected(f.o)
    BY <1>2, <1>3 DEF Rejected, Sound, Inv, OwnedLive
  <2> QED  BY <1>2, <1>4, <2>1, <2>2 DEF Inv
<1>7. /\ reg' \subseteq Objects \X Locations
      /\ \A x \in Objects, l \in Locations :
           <<x, l>> \in reg' <=> IF l = f.l THEN x = o ELSE <<x, l>> \in reg
  <2>1. reg' = (reg \ {<<f.old, f.l>>}) \cup (IF o = nil THEN {} ELSE {<<o, f.l>>})
    BY <1>2 DEF Stored
  <2>2. reg \subseteq Objects \X Locations
    BY DEF Inv, TypeOK
  <2>3. reg' \subseteq Objects \X Locations
    BY <1>4, <1>6, <2>1, <2>2
  <2> SUFFICES ASSUME NEW x \in Objects, NEW l \in Locations
               PROVE  <<x, l>> \in reg' <=> IF l = f.l THEN x = o ELSE <<x, l>> \in reg
    BY <2>3
  <2>4. x # nil
    BY NilAssumption
  <2>5. CASE l = f.l
    <3>1. <<x, f.l>> \in reg => x = f.old
      BY <1>2, <1>4 DEF HaveOld
    <3> QED  BY <2>1, <2>4, <2>5, <3>1
  <2>6. CASE l # f.l
    BY <2>1, <2>6
  <2> QED  BY <2>5, <2>6
<1>8. /\ loc \in [Locations -> Objects \cup {nil}] /\ locState \in [Locations -> {"raw", "weak"}]
      /\ wref \subseteq Objects
  BY DEF Inv, TypeOK
<1>9. \A u \in Threads : \A i \in 1 .. Len(stack[u]) :
        u # t \/ i # Len(stack[t]) => \A g : g = stack[u][i] => Sound(u, g)'
  <2>1. \A x \in Objects, l \in Locations :
          <<x, l>> \in reg' /\ <<x, l>> \notin reg => phase[x] = "live"
    BY <1>6, <1>7, NilAssumption
  <2> QED  BY <1>1, <1>2, <1>3, <1>8, <2>1, OthersSound
<1>10. FramesOK' /\ \E m : Kept(t, m)
  <2>1. CASE f.op # "copyWeakInit"
    BY <1>2, <1>3, <1>9, <2>1, FramesPop, PopFacts
  <2>2. CASE f.op = "copyWeakInit"
    <3> DEFINE g == [f EXCEPT !.pc = "release"]
    <3>1. Become(t, g)
      BY <1>1, <1>2, <2>2 DEF Goto
    <3>2. /\ g \in FrameType /\ g.op = f.op /\ g.pc = "release" /\ g.l = f.l /\ g.o = f.o
          /\ g.d = f.d /\ g.old = f.old /\ g.prev = f.prev
      BY <1>5 DEF FrameType
    <3> HIDE DEF g
    <3>3. Shape(g)
      BY <1>5, <2>2, <3>2 DEF Shape, ShapeCall, HaveOld, HaveNew, Loading
    <3>4. Sound(t, g)'
      BY <1>2, <1>3, <2>2, <3>2 DEF Sound, Inits, HaveOld, Loading, InitBegun
    <3>5. Reserved(g) = {}
      BY <2>2, <3>2 DEF Reserved, Inits
    <3>6. \A u \in Threads : \A i \in 1 .. Len(stack[u]) :
            u # t \/ i # Len(stack[t]) => Apart(g, stack[u][i])
      BY <1>3, <3>2, <3>5 DEF Apart
    <3>7. \A i \in 1 .. Len(stack[t]) : i # Len(stack[t]) => stack[t][i].op # "copyWeakInit"
      BY <1>1, <1>2, <1>3, CopyBelow
    <3>8. g \in FrameType
      BY <3>2
    <3>9. FramesOK'
      BY <1>2, <1>3, <1>9, <3>1, <3>3, <3>4, <3>6, <3>7, FramesBecome
    <3> QED  BY <1>2, <1>3, <3>1, <3>8, <3>9, BecomeFacts
  <2> QED  BY <2>1, <2>2
<1>11. LocksOK' /\ owner' \in [Stripes -> Threads \cup {nil}]
  BY <1>2, <1>10, LocksStep
<1>12. TypeOK'
  <2>1. loc' \in [Locations -> Objects \cup {nil}] /\ locState' \in [Locations -> {"raw", "weak"}]
    BY <1>2, <1>6, <1>8
  <2>2. wref' \subseteq Objects
    BY <1>2, <1>6, <1>8
  <2> QED  BY <1>2, <1>6, <1>7, <1>11, <2>1, <2>2 DEF Inv, TypeOK
<1>13. Mirror'
  <2> SUFFICES ASSUME NEW x \in Objects, NEW l \in Locations
               PROVE  <<x, l>> \in reg' <=> locState'[l] = "weak" /\ loc'[l] = x
    BY DEF Mirror
  <2>1. <<x, l>> \in reg <=> locState[l] = "weak" /\ loc[l] = x
    BY DEF Inv, Mirror
  <2>2. CASE l = f.l
    BY <1>2, <1>4, <1>7, <1>8, <2>2
  <2>3. CASE l # f.l
    BY <1>2, <1>7, <1>8, <2>1, <2>3
  <2> QED  BY <2>2, <2>3
<1>14. Marked' /\ FreedClean'
  <2> SUFFICES ASSUME NEW x \in Objects, NEW l \in Locations, <<x, l>> \in reg'
               PROVE  x \in wref' /\ phase[x] # "freed"
    BY <1>2 DEF Marked, FreedClean
  <2>1. CASE l = f.l
    BY <1>2, <1>6, <1>7, <2>1, NilAssumption
  <2>2. CASE l # f.l
    BY <1>2, <1>7, <2>2 DEF Inv, Marked, FreedClean
  <2> QED  BY <2>1, <2>2
<1>15. OwnedLive' /\ Initializing'
  BY <1>2 DEF Inv, OwnedLive, Initializing
<1> QED  BY <1>6, <1>10, <1>11, <1>12, <1>13, <1>14, <1>15 DEF Inv

LEMMA DestroyBodyKeeps ==
  ASSUME Inv, NEW t \in Threads, DestroyBody(t)
  PROVE  Inv'
<1>1. PICK f : f = Top(t)
  OBVIOUS
<1>2. /\ ~Idle(t) /\ f.pc = "locked" /\ ~Changed(t) /\ f.op = "destroyWeak"
      /\ error' = (error \/ UnknownReferrer(f.old, f.l))
      /\ reg' = reg \ {<<f.old, f.l>>} /\ locState' = [locState EXCEPT ![f.l] = "raw"]
      /\ Pop(t) /\ Unlock(t)
      /\ UNCHANGED <<loc, wref, phase, owns, initState, initBy, calls>>
  BY <1>1 DEF DestroyBody, Ready, At
<1>3. FramesOK /\ StackType
  BY DEF Inv, FramesOK, StackType
<1>4. /\ f.l \in Locations /\ ~UnknownReferrer(f.old, f.l)
      /\ \A x \in Objects : <<x, f.l>> \in reg => x = f.old
  BY <1>1, <1>2, Unchanged_Old DEF HaveOld
<1>5. /\ reg' \subseteq Objects \X Locations
      /\ \A x \in Objects, l \in Locations : <<x, l>> \in reg' <=> <<x, l>> \in reg /\ l # f.l
  <2>1. reg \subseteq Objects \X Locations
    BY DEF Inv, TypeOK
  <2> QED  BY <1>2, <1>4, <2>1
<1>6. locState \in [Locations -> {"raw", "weak"}]
  BY DEF Inv, TypeOK
<1>7. f.l \in Reserved(Top(t))
  BY <1>1, <1>2 DEF Reserved
<1>8. FramesOK'
  <2>1. \A u \in Threads : \A i \in 1 .. Len(stack[u]) :
          u # t \/ i # Len(stack[t]) => \A g : g = stack[u][i] => Sound(u, g)'
    BY <1>1, <1>2, <1>3, <1>5, <1>6, <1>7, OthersSound
  <2> QED  BY <1>2, <1>3, <2>1, FramesPop
<1>9. LocksOK' /\ owner' \in [Stripes -> Threads \cup {nil}]
  BY <1>2, <1>3, PopFacts, LocksStep
<1>10. TypeOK'
  BY <1>2, <1>5, <1>6, <1>9 DEF Inv, TypeOK
<1>11. Mirror'
  <2> SUFFICES ASSUME NEW x \in Objects, NEW l \in Locations
               PROVE  <<x, l>> \in reg' <=> locState'[l] = "weak" /\ loc'[l] = x
    BY DEF Mirror
  <2>1. <<x, l>> \in reg <=> locState[l] = "weak" /\ loc[l] = x
    BY DEF Inv, Mirror
  <2>2. CASE l = f.l
    <3>1. locState'[l] = "raw"
      BY <1>2, <1>4, <1>6, <2>2
    <3> QED  BY <1>5, <2>2, <3>1
  <2>3. CASE l # f.l
    BY <1>2, <1>5, <1>6, <2>1, <2>3
  <2> QED  BY <2>2, <2>3
<1>12. Marked' /\ FreedClean' /\ OwnedLive' /\ Initializing' /\ ~error'
  BY <1>2, <1>4, <1>5 DEF Inv, Marked, FreedClean, OwnedLive, Initializing
<1> QED  BY <1>8, <1>9, <1>10, <1>11, <1>12 DEF Inv

LEMMA MoveBodyKeeps ==
  ASSUME Inv, NEW t \in Threads, MoveBody(t)
  PROVE  Inv'
<1>1. PICK f : f = Top(t)
  OBVIOUS
<1>2. /\ ~Idle(t) /\ f.pc = "locked" /\ ~Changed(t) /\ f.op = "moveWeak"
      /\ error' = (error \/ UnknownReferrer(f.old, f.l)) /\ reg' = Moved(f)
      /\ loc' = [loc EXCEPT ![f.d] = f.old, ![f.l] = nil]
      /\ locState' = [locState EXCEPT ![f.d] = "weak"]
      /\ Pop(t) /\ Unlock(t)
      /\ UNCHANGED <<wref, phase, owns, initState, initBy, calls>>
  BY <1>1 DEF MoveBody, Ready, At
<1>3. FramesOK /\ StackType /\ Shape(f) /\ Sound(t, f)
  BY <1>1, <1>2, TopOK DEF Inv, FramesOK, StackType
<1>4. /\ f.l \in Locations /\ ~UnknownReferrer(f.old, f.l)
      /\ \A x \in Objects : <<x, f.l>> \in reg => x = f.old
      /\ locState[f.l] = "weak" /\ loc[f.l] = f.old
  BY <1>1, <1>2, Unchanged_Old DEF HaveOld
<1>5. /\ f.d \in Locations /\ f.d # f.l /\ f.old \in Objects /\ locState[f.d] = "raw"
      /\ <<f.old, f.l>> \in reg
  <2>1. f.d \in Locations /\ f.d # f.l /\ f.old \in Objects /\ locState[f.d] = "raw"
    BY <1>2, <1>3 DEF Shape, ShapeCall, Sound
  <2> QED  BY <1>4, <2>1 DEF Inv, Mirror
<1>6. /\ loc \in [Locations -> Objects \cup {nil}] /\ locState \in [Locations -> {"raw", "weak"}]
      /\ reg \subseteq Objects \X Locations
  BY DEF Inv, TypeOK
<1>7. /\ reg' \subseteq Objects \X Locations
      /\ \A x \in Objects, l \in Locations :
           <<x, l>> \in reg' <=> \/ l = f.d /\ x = f.old
                                 \/ l \notin {f.l, f.d} /\ <<x, l>> \in reg
  <2>1. reg' = (reg \ {<<f.old, f.l>>}) \cup {<<f.old, f.d>>}
    BY <1>2 DEF Moved
  <2>2. \A x \in Objects : <<x, f.d>> \notin reg
    BY <1>5 DEF Inv, Mirror
  <2> QED  BY <1>4, <1>5, <1>6, <2>1, <2>2
<1>8. FramesOK'
  <2>1. \A x \in Objects, l \in Locations :
          <<x, l>> \in reg' /\ <<x, l>> \notin reg => \E m \in Locations : <<x, m>> \in reg
    BY <1>4, <1>5, <1>7
  <2>2. \A u \in Threads : \A i \in 1 .. Len(stack[u]) :
          u # t \/ i # Len(stack[t]) => \A g : g = stack[u][i] => Sound(u, g)'
    BY <1>1, <1>2, <1>3, <1>6, <2>1, OthersSound
  <2> QED  BY <1>2, <1>3, <2>2, FramesPop
<1>9. LocksOK' /\ owner' \in [Stripes -> Threads \cup {nil}]
  BY <1>2, <1>3, PopFacts, LocksStep
<1>10. TypeOK'
  <2>1. loc' \in [Locations -> Objects \cup {nil}] /\ locState' \in [Locations -> {"raw", "weak"}]
    BY <1>2, <1>5, <1>6
  <2> QED  BY <1>2, <1>4, <1>7, <1>9, <2>1 DEF Inv, TypeOK
<1>11. Mirror'
  <2> SUFFICES ASSUME NEW x \in Objects, NEW l \in Locations
               PROVE  <<x, l>> \in reg' <=> locState'[l] = "weak" /\ loc'[l] = x
    BY DEF Mirror
  <2>1. <<x, l>> \in reg <=> locState[l] = "weak" /\ loc[l] = x
    BY DEF Inv, Mirror
  <2>2. x # nil
    BY NilAssumption
  <2>3. CASE l = f.d
    BY <1>2, <1>5, <1>6, <1>7, <2>3
  <2>4. CASE l = f.l
    BY <1>2, <1>4, <1>5, <1>6, <1>7, <2>2, <2>4
  <2>5. CASE l \notin {f.l, f.d}
    BY <1>2, <1>6, <1>7, <2>1, <2>5
  <2> QED  BY <2>3, <2>4, <2>5
<1>12. Marked' /\ FreedClean'
  <2> SUFFICES ASSUME NEW x \in Objects, NEW l \in Locations, <<x, l>> \in reg'
               PROVE  x \in wref /\ phase[x] # "freed"
    BY <1>2 DEF Marked, FreedClean
  <2>1. \E m \in Locations : <<x, m>> \in reg
    BY <1>4, <1>5, <1>7
  <2> QED  BY <2>1 DEF Inv, Marked, FreedClean
<1>13. OwnedLive' /\ Initializing' /\ ~error'
  BY <1>2, <1>4 DEF Inv, OwnedLive, Initializing
<1> QED  BY <1>8, <1>9, <1>10, <1>11, <1>12, <1>13 DEF Inv

LEMMA LoadBodyKeeps ==
  ASSUME Inv, NEW t \in Threads, LoadBody(t)
  PROVE  Inv'
<1>1. PICK f : f = Top(t)
  OBVIOUS
<1>2. /\ ~Idle(t) /\ f.pc = "locked" /\ ~Changed(t) /\ f.op \in {"loadWeakRetained", "copyWeak"}
      /\ ~MustInitialize(t) /\ Unlock(t)
      /\ UNCHANGED <<reg, wref, phase, initState, initBy, error, calls>>
  BY <1>1 DEF LoadBody, Ready, At
<1>3. /\ FramesOK /\ StackType /\ Shape(f) /\ Sound(t, f)
      /\ \A u \in Threads : \A i \in 1 .. Len(stack[u]) :
           u # t \/ i # Len(stack[t]) => Apart(f, stack[u][i])
  BY <1>1, <1>2, TopOK DEF Inv, FramesOK, StackType
<1>4. f.old \in Objects /\ ShapeCall(f) /\ f \in FrameType
  BY <1>2, <1>3 DEF Shape, ShapeCall, Loading
<1>5. CASE f.op = "loadWeakRetained"
  <2>1. /\ owns' = IF phase[f.old] = "live" THEN [owns EXCEPT ![t] = @ \cup {f.old}] ELSE owns
        /\ Pop(t) /\ UNCHANGED <<loc, locState>>
    BY <1>1, <1>5 DEF LoadBody
  <2>2. \/ UNCHANGED owns
        \/ \E o \in Objects : phase[o] = "live" /\ owns' = [owns EXCEPT ![t] = @ \cup {o}]
    BY <1>4, <2>1
  <2> QED  BY <1>2, <2>1, <2>2, ReturnKeeps
<1>6. CASE f.op = "copyWeak" /\ phase[f.old] # "live"
  <2>1. /\ loc' = [loc EXCEPT ![f.d] = nil] /\ locState' = [locState EXCEPT ![f.d] = "weak"]
        /\ Pop(t) /\ UNCHANGED owns
    BY <1>1, <1>6 DEF LoadBody
  <2> QED  BY <1>1, <1>2, <1>6, <2>1, NilStored
\* objc_copyWeak goes on as objc_initWeak of the object it has retained.
<1>7. CASE f.op = "copyWeak" /\ phase[f.old] = "live"
  <2> DEFINE g == Frame("copyWeakInit", "lock", f.d, f.old, nil)
  <2>1. Become(t, g) /\ UNCHANGED <<owns, loc, locState>>
    BY <1>1, <1>7 DEF LoadBody
  <2>2. f.d \in Locations
    BY <1>4, <1>7 DEF ShapeCall
  <2>3. /\ g.op = "copyWeakInit" /\ g.pc = "lock" /\ g.l = f.d /\ g.o = f.old /\ g.d = nil
        /\ g.old = nil /\ g.prev = nil /\ g \in FrameType
    BY <1>4, <2>2 DEF Frame, NoClass, FrameType, Ops
  <2> HIDE DEF g
  <2>4. Shape(g)
    BY <1>4, <2>2, <2>3 DEF Shape, ShapeCall, HaveOld, HaveNew, Loading
  <2>5. initState[ClassOf[f.old]] = "done" \/ initBy[ClassOf[f.old]] = t
    <3>1. f.old # nil
      BY <1>4, NilAssumption
    <3> QED  BY <1>1, <1>7, <1>2, <3>1 DEF MustInitialize, Subject, Loading
  <2>6. \A u, h : Sound(u, h)' <=> Sound(u, h)
    BY <1>2, <2>1, SoundKept
  <2>7. Sound(t, g)'
    <3>1. locState[f.d] = "raw" /\ phase[f.old] = "live"
      BY <1>3, <1>7 DEF Sound
    <3>2. Sound(t, g)
      BY ONLY <2>3, <2>5, <3>1 DEF Sound, Inits, HaveOld, Loading, InitBegun
    <3> QED  BY ONLY <2>6, <3>2
  <2>8. Reserved(g) = {f.d} /\ Reserved(f) = {f.d}
    BY <1>7, <2>3 DEF Reserved, Inits
  <2>9. \A u \in Threads : \A i \in 1 .. Len(stack[u]) :
          u # t \/ i # Len(stack[t]) => Apart(g, stack[u][i])
    <3>1. \A u \in Threads : \A i \in 1 .. Len(stack[u]) : nil \notin Reserved(stack[u][i])
      BY <1>3, NilUnreserved DEF FramesOK
    <3> QED  BY <1>3, <2>3, <2>8, <3>1 DEF Apart
  <2>10. \A i \in 1 .. Len(stack[t]) : i # Len(stack[t]) => stack[t][i].op # "copyWeakInit"
    BY <1>1, <1>2, <1>3, CopyBelow
  <2>11. \A u \in Threads : \A i \in 1 .. Len(stack[u]) :
           \A h : h = stack[u][i] => Sound(u, h)'
    BY <1>3, <2>6 DEF FramesOK
  <2>12. FramesOK'
    BY <1>2, <1>3, <2>1, <2>4, <2>7, <2>9, <2>10, <2>11, FramesBecome
  <2>13. Kept(t, Len(stack[t]) - 1)
    BY <1>2, <1>3, <2>1, <2>3, BecomeFacts
  <2>14. LocksOK' /\ owner' \in [Stripes -> Threads \cup {nil}]
    BY <1>2, <2>13, LocksStep
  <2>15. calls' \in [Threads -> 0 .. MaxCalls]
    BY <1>2 DEF Inv, TypeOK
  <2> QED  BY <1>2, <2>1, <2>12, <2>14, <2>15, RestKept DEF Inv
<1> QED  BY <1>2, <1>5, <1>6, <1>7


(***************************************************************************)
(* +initialize.                                                            *)
(***************************************************************************)
\* The call retries once +initialize has returned.
LEMMA CallInitializeKeeps ==
  ASSUME Inv, NEW t \in Threads, CallInitialize(t)
  PROVE  Inv'
<1>1. PICK f, c : f = Top(t) /\ c = ClassOf[Subject(f)]
  OBVIOUS
<1> DEFINE g == [f EXCEPT !.pc = Retry(f), !.prev = c]
           h == InitializeFrame(c)
<1>2. /\ ~Idle(t) /\ f.pc = "locked" /\ (HaveNew(f) \/ Loading(f)) /\ Subject(f) # nil
      /\ Unlock(t) /\ stack' = [stack EXCEPT ![t] = Popped(t) \o <<g, h>>]
      /\ UNCHANGED <<loc, locState, reg, wref, phase, owns, initState, initBy, error, calls>>
  BY <1>1 DEF CallInitialize, MustInitialize, At
<1>3. /\ FramesOK /\ StackType /\ Shape(f) /\ Sound(t, f)
      /\ \A u \in Threads : \A i \in 1 .. Len(stack[u]) :
           u # t \/ i # Len(stack[t]) => Apart(f, stack[u][i])
  BY <1>1, <1>2, TopOK DEF Inv, FramesOK, StackType
<1>4. f.op \notin {"dealloc", "class_initialize"} /\ ShapeCall(f) /\ f \in FrameType
  BY <1>2, <1>3, CallLabels DEF Shape
<1>5. c \in Classes
  <2>1. Subject(f) \in Objects
    BY <1>2, <1>4 DEF Subject, ShapeCall, FrameType
  <2> QED  BY <1>1, <2>1 DEF Classes
<1>6. /\ g \in FrameType /\ g.op = f.op /\ g.pc = Retry(f) /\ g.l = f.l /\ g.o = f.o
      /\ g.d = f.d /\ g.old = f.old /\ g.prev = c
  <2>1. Retry(f) \in {"read", "lock"}
    BY DEF Retry
  <2> QED  BY <1>4, <1>5, <2>1 DEF FrameType
<1>7. Shape(h) /\ (\A u : Sound(u, h)) /\ \A e : Shape(e) => Apart(h, e)
  BY <1>3, <1>5, InitializeApart
<1>8. h \in FrameType /\ h.pc = "initialize" /\ h.prev = c
  BY <1>7 DEF Shape, InitializeFrame, Frame
<1> HIDE DEF g, h
<1>9. Shape(g)
  BY <1>4, <1>6 DEF Shape, ShapeCall, HaveOld, HaveNew, Loading, Retry
<1>10. \A u, e : Sound(u, e)' <=> Sound(u, e)
  BY <1>2, SoundKept
<1>11. Sound(t, g)' /\ Sound(t, h)'
  BY <1>2, <1>3, <1>4, <1>6, <1>7, <1>10, SoundAt
<1> DEFINE m == Len(stack[t]) - 1
<1>12. /\ Kept(t, m) /\ Len(stack'[t]) = m + 2 /\ m \in Nat /\ Len(stack[t]) = m + 1
       /\ stack'[t][m + 1] = g /\ stack'[t][m + 2] = h
  <2>1. stack[t] \in Seq(FrameType) /\ Len(stack[t]) \in Nat /\ Len(stack[t]) > 0
    BY <1>2, <1>3, TopFacts DEF StackType
  <2> DEFINE p == Popped(t)  s == p \o <<g, h>>
  <2>2. /\ p \in Seq(FrameType) /\ Len(p) = m
        /\ \A i \in 1 .. m : p[i] = stack[t][i]
    BY <2>1 DEF Popped
  <2>3. stack' = [stack EXCEPT ![t] = s]
    BY <1>2
  <2> HIDE DEF p
  <2>4. /\ s \in Seq(FrameType) /\ Len(s) = m + 2 /\ s[m + 1] = g /\ s[m + 2] = h
        /\ \A i \in 1 .. m : s[i] = stack[t][i]
    BY <1>6, <1>8, <2>1, <2>2
  <2> HIDE DEF s
  <2>5. /\ stack' \in [Threads -> Seq(FrameType)] /\ stack'[t] = s
        /\ \A u \in Threads : u # t => stack'[u] = stack[u]
    BY <1>3, <2>3, <2>4 DEF StackType
  <2>6. m \in Nat /\ Len(stack[t]) = m + 1
    BY <2>1
  <2>7. \A i \in 1 .. m : stack'[t][i] = stack[t][i]
    BY ONLY <2>4, <2>5
  <2>8. m <= Len(stack[t]) /\ m <= Len(stack'[t])
    BY ONLY <2>4, <2>5, <2>6
  <2>9. Kept(t, m)
    BY ONLY <2>5, <2>6, <2>7, <2>8 DEF Kept
  <2> QED  BY ONLY <2>4, <2>5, <2>6, <2>9
<1>13. \A i \in m + 1 .. Len(stack'[t]) : i = m + 1 \/ i = m + 2
  BY <1>12
<1>14. CopyOnTop(t)'
  <2> SUFFICES ASSUME NEW i \in 1 .. Len(stack'[t]), stack'[t][i].op = "copyWeakInit",
                      i # Len(stack'[t])
               PROVE  /\ i = Len(stack'[t]) - 1 /\ Top(t)'.pc = "initialize"
                      /\ Top(t)'.prev = ClassOf[stack'[t][i].o]
    BY DEF CopyOnTop
  <2>1. CASE i = m + 1
    <3>1. g.op = "copyWeakInit" /\ Subject(f) = f.o
      BY <1>6, <1>12, <2>1 DEF Subject, Loading
    <3> QED  BY <1>1, <1>6, <1>8, <1>12, <2>1, <3>1 DEF Top
  <2>2. CASE i # m + 1
    <3>1. i \in 1 .. m /\ i \in 1 .. Len(stack[t]) /\ i # Len(stack[t])
      BY <1>12, <2>2
    <3>2. stack[t][i].op = "copyWeakInit"
      BY <1>12, <3>1 DEF Kept
    <3> QED  BY <1>1, <1>2, <1>3, <3>1, <3>2, CopyBelow
  <2> QED  BY <2>1, <2>2
<1>15. \A u \in Threads : \A i \in 1 .. Len(stack[u]) :
         u # t \/ i <= m => Apart(g, stack[u][i]) /\ Apart(h, stack[u][i])
  <2>1. Reserved(g) = Reserved(f)
    BY <1>2, <1>6 DEF Reserved, Inits, Retry
  <2>2. ASSUME NEW e, Apart(f, e) PROVE Apart(g, e)
    BY <1>6, <2>1, <2>2 DEF Apart
  <2>3. \A i \in 1 .. Len(stack[t]) : i <= m => i # Len(stack[t])
    BY <1>12
  <2> QED  BY <1>3, <1>7, <2>2, <2>3 DEF FramesOK
<1>16. Apart(g, h) /\ Apart(h, g)
  BY <1>7, <1>9, ApartSymmetric
<1>17. \A u \in Threads : \A i \in 1 .. Len(stack[u]) : \A e : e = stack[u][i] => Sound(u, e)'
  BY <1>3, <1>10 DEF FramesOK
<1>18. /\ \A i \in m + 1 .. Len(stack'[t]) :
            \A e : e = stack'[t][i] => Shape(e) /\ Sound(t, e)'
       /\ \A i \in m + 1 .. Len(stack'[t]), u \in Threads : \A j \in 1 .. Len(stack[u]) :
            u # t \/ j <= m => Apart(stack'[t][i], stack[u][j])
       /\ \A i, j \in m + 1 .. Len(stack'[t]) : i # j => Apart(stack'[t][i], stack'[t][j])
  <2>1. \A i \in m + 1 .. Len(stack'[t]) :
          (i = m + 1 /\ stack'[t][i] = g) \/ (i = m + 2 /\ stack'[t][i] = h)
    BY <1>12, <1>13
  <2> HIDE DEF m
  <2> QED  BY <1>7, <1>9, <1>11, <1>15, <1>16, <2>1
<1> HIDE DEF m
<1>19. FramesOK'
  BY <1>3, <1>12, <1>14, <1>17, <1>18, FramesStep
<1>20. LocksOK' /\ owner' \in [Stripes -> Threads \cup {nil}]
  BY <1>2, <1>12, LocksStep
<1>21. calls' \in [Threads -> 0 .. MaxCalls]
  BY <1>2 DEF Inv, TypeOK
<1> QED  BY <1>2, <1>19, <1>20, <1>21, RestKept DEF Inv


LEMMA InitializeKeeps ==
  ASSUME Inv, NEW t \in Threads, Initialize(t)
  PROVE  Inv'
<1>1. PICK f, c : f = Top(t) /\ c = f.prev
  OBVIOUS
<1>2. /\ ~Idle(t) /\ f.pc = "initialize"
      /\ UNCHANGED <<loc, locState, reg, wref, owner, phase, owns, error, calls>>
  BY <1>1 DEF Initialize, At
<1>3. /\ FramesOK /\ StackType /\ Shape(f)
      /\ \A u \in Threads : \A i \in 1 .. Len(stack[u]) :
           u # t \/ i # Len(stack[t]) => Apart(f, stack[u][i])
  BY <1>1, <1>2, TopOK DEF Inv, FramesOK, StackType
<1>4. CASE Pop(t) /\ UNCHANGED <<initState, initBy>>
  BY <1>1, <1>2, <1>4, ReturnKeeps
<1>5. CASE /\ initState[c] = "no" /\ initState' = [initState EXCEPT ![c] = "running"]
           /\ initBy' = [initBy EXCEPT ![c] = t] /\ Goto(t, "running")
  <2>1. f.op = "class_initialize" /\ c \in Classes /\ f \in FrameType
    BY <1>1, <1>2, <1>3 DEF Shape, ShapeDealloc, ShapeInitialize, ShapeCall
  <2> DEFINE g == [f EXCEPT !.pc = "running"]
  <2>2. Become(t, g)
    BY <1>1, <1>5 DEF Goto
  <2>3. /\ g \in FrameType /\ g.op = f.op /\ g.pc = "running" /\ g.l = f.l /\ g.o = f.o
        /\ g.d = f.d /\ g.old = f.old /\ g.prev = f.prev
    BY <2>1 DEF FrameType
  <2> HIDE DEF g
  <2>4. Shape(g) /\ Sound(t, g)'
    BY <1>3, <2>1, <2>3 DEF Shape, ShapeInitialize, Sound, Inits, HaveOld, Loading
  <2>5. \A u \in Threads : \A i \in 1 .. Len(stack[u]) :
          u # t \/ i # Len(stack[t]) => Apart(g, stack[u][i])
    <3>1. Reserved(g) = {}
      BY <2>1, <2>3 DEF Reserved, Inits
    <3> QED  BY <1>3, <2>1, <2>3, <3>1 DEF Apart
  \* No thread is running +initialize for c yet.
  <2>6. /\ initBy \in [Classes -> Threads \cup {nil}]
        /\ initState \in [Classes -> {"no", "running", "done"}]
    BY DEF Inv, TypeOK
  <2>7. initBy[c] = nil /\ nil \notin Threads
    BY <1>5, <2>1, <2>6, NilAssumption DEF Inv, Initializing
  <2>8. \A u \in Threads, e \in Classes : InitBegun(u, e) => e # c /\ InitBegun(u, e)'
    BY <1>5, <2>1, <2>6, <2>7 DEF InitBegun
  <2>9. \A u \in Threads : \A i \in 1 .. Len(stack[u]) :
          \A e : e = stack[u][i] => Sound(u, e)'
    <3> SUFFICES ASSUME NEW u \in Threads, NEW i \in 1 .. Len(stack[u]),
                        NEW e, e = stack[u][i]
                 PROVE  Sound(u, e)'
      OBVIOUS
    <3>1. Shape(e) /\ Sound(u, e)
      BY <1>3 DEF FramesOK
    <3>2. e.op = "copyWeakInit" => ClassOf[e.o] \in Classes
      BY <3>1 DEF Shape, ShapeCall, Classes
    <3> QED  BY <1>2, <2>8, <3>1, <3>2 DEF Sound
  <2>10. \A i \in 1 .. Len(stack[t]) : i # Len(stack[t]) => stack[t][i].op # "copyWeakInit"
    <3> SUFFICES ASSUME NEW i \in 1 .. Len(stack[t]), i # Len(stack[t]),
                        stack[t][i].op = "copyWeakInit"
                 PROVE  FALSE
      OBVIOUS
    <3>1. ClassOf[stack[t][i].o] = c
      BY <1>1, <1>3, CopyBelow
    <3>2. InitBegun(t, c)
      BY <1>3, <3>1 DEF FramesOK, Sound
    <3> QED  BY <2>1, <2>8, <3>2
  <2>11. FramesOK'
    BY <1>2, <1>3, <2>2, <2>4, <2>5, <2>9, <2>10, FramesBecome
  <2>12. Kept(t, Len(stack[t]) - 1)
    BY <1>2, <1>3, <2>2, <2>3, BecomeFacts
  <2>13. LocksOK' /\ owner' \in [Stripes -> Threads \cup {nil}]
    BY <1>1, <1>2, <2>12, LocksStep
  <2>14. TypeOK' /\ Initializing'
    <3>1. /\ initState' \in [Classes -> {"no", "running", "done"}]
          /\ initBy' \in [Classes -> Threads \cup {nil}]
      BY <1>5, <2>1, <2>6
    <3>2. Initializing'
      BY <1>5, <2>1, <2>6 DEF Inv, Initializing
    <3> QED  BY <1>2, <2>13, <3>1, <3>2 DEF Inv, TypeOK
  <2>15. Mirror' /\ Marked' /\ OwnedLive' /\ FreedClean' /\ ~error'
    BY <1>2 DEF Inv, Mirror, Marked, OwnedLive, FreedClean
  <2> QED  BY <2>11, <2>13, <2>14, <2>15 DEF Inv
<1>6. \/ Pop(t) /\ UNCHANGED <<initState, initBy>>
      \/ /\ initState[c] = "no" /\ initState' = [initState EXCEPT ![c] = "running"]
         /\ initBy' = [initBy EXCEPT ![c] = t] /\ Goto(t, "running")
  BY <1>1 DEF Initialize
<1> QED  BY <1>4, <1>5, <1>6

LEMMA Initialize_doneKeeps ==
  ASSUME Inv, NEW t \in Threads, Initialize_done(t)
  PROVE  Inv'
<1>1. PICK f, c : f = Top(t) /\ c = f.prev
  OBVIOUS
<1>2. /\ ~Idle(t) /\ f.pc = "running" /\ Pop(t)
      /\ initState' = [initState EXCEPT ![c] = "done"] /\ initBy' = [initBy EXCEPT ![c] = nil]
      /\ UNCHANGED <<loc, locState, reg, wref, owner, phase, owns, error, calls>>
  BY <1>1 DEF Initialize_done, At
<1>3. FramesOK /\ StackType /\ Shape(f)
  BY <1>1, <1>2, TopOK DEF Inv, FramesOK, StackType
<1>4. c \in Classes
  BY <1>1, <1>2, <1>3 DEF Shape, ShapeDealloc, ShapeInitialize, ShapeCall
<1>5. /\ initBy \in [Classes -> Threads \cup {nil}]
      /\ initState \in [Classes -> {"no", "running", "done"}]
  BY DEF Inv, TypeOK
<1>6. \A u \in Threads, e \in Classes : InitBegun(u, e) => InitBegun(u, e)'
  BY <1>2, <1>4, <1>5 DEF InitBegun
<1>7. \A u \in Threads : \A i \in 1 .. Len(stack[u]) : \A e : e = stack[u][i] => Sound(u, e)'
  <2> SUFFICES ASSUME NEW u \in Threads, NEW i \in 1 .. Len(stack[u]), NEW e, e = stack[u][i]
               PROVE  Sound(u, e)'
    OBVIOUS
  <2>1. Shape(e) /\ Sound(u, e)
    BY <1>3 DEF FramesOK
  <2>2. e.op = "copyWeakInit" => ClassOf[e.o] \in Classes
    BY <2>1 DEF Shape, ShapeCall, Classes
  <2> QED  BY <1>2, <1>6, <2>1, <2>2 DEF Sound
<1>8. FramesOK'
  BY <1>2, <1>3, <1>7, FramesPop
<1>9. LocksOK' /\ owner' \in [Stripes -> Threads \cup {nil}]
  BY <1>1, <1>2, <1>3, PopFacts, LocksStep
<1>10. TypeOK' /\ Initializing'
  <2>1. /\ initState' \in [Classes -> {"no", "running", "done"}]
        /\ initBy' \in [Classes -> Threads \cup {nil}]
    BY <1>2, <1>4, <1>5
  <2>2. Initializing'
    BY <1>2, <1>4, <1>5 DEF Inv, Initializing
  <2> QED  BY <1>2, <1>9, <2>1, <2>2 DEF Inv, TypeOK
<1>11. Mirror' /\ Marked' /\ OwnedLive' /\ FreedClean' /\ ~error'
  BY <1>2 DEF Inv, Mirror, Marked, OwnedLive, FreedClean
<1> QED  BY <1>8, <1>9, <1>10, <1>11 DEF Inv


(***************************************************************************)
(* References and deallocation.                                            *)
(***************************************************************************)
\* A dealloc uses no variable, and has the object for itself.
LEMMA DeallocApart ==
  ASSUME FramesOK, NEW o \in Objects, phase[o] = "live", phase'[o] = "deallocating"
  PROVE  /\ Shape(DeallocFrame(o)) /\ \A u : Sound(u, DeallocFrame(o))'
         /\ \A u \in Threads : \A i \in 1 .. Len(stack[u]) : Apart(DeallocFrame(o), stack[u][i])
<1> DEFINE f == DeallocFrame(o)
<1>1. /\ f.op = "dealloc" /\ f.pc = "dealloc" /\ f.l = nil /\ f.o = o /\ f.d = nil
      /\ f.old = nil /\ f.prev = nil
  BY DEF DeallocFrame, Frame, NoClass
<1>2. f \in FrameType
  BY DEF DeallocFrame, Frame, FrameType, Ops, NoClass
<1> HIDE DEF f
<1>3. Shape(f)
  BY <1>1, <1>2 DEF Shape, ShapeDealloc
<1>4. \A u : Sound(u, f)'
  BY <1>1 DEF Sound, Inits, HaveOld, Loading
<1>5. Reserved(f) = {}
  BY <1>1 DEF Reserved, Inits
<1>6. ASSUME NEW u \in Threads, NEW i \in 1 .. Len(stack[u]) PROVE Apart(f, stack[u][i])
  <2>1. PICK e : e = stack[u][i]
    OBVIOUS
  <2>2. Shape(e) /\ Sound(u, e)
    BY <2>1 DEF FramesOK
  <2>3. nil \notin Reserved(e) /\ (e.op = "dealloc" => e.o # o)
    BY <2>2, NilUnreserved DEF Sound
  <2> QED  BY <1>1, <1>5, <2>1, <2>3 DEF Apart
<1> QED  BY <1>3, <1>4, <1>6 DEF f

\* The last release of o: what the other calls rely on stays.
LEMMA LastReleaseSound ==
  ASSUME Inv, NEW o \in Objects, phase[o] = "live", phase' = [phase EXCEPT ![o] = "deallocating"],
         UNCHANGED <<locState, reg, initState, initBy>>,
         NEW u \in Threads, NEW i \in 1 .. Len(stack[u]), NEW e, e = stack[u][i],
         e.op \in {"storeWeak", "initWeak"} /\ e.o \in owns[u] => e.o \in owns'[u],
         e.op = "copyWeakInit" => e.o # o
  PROVE  Sound(u, e)'
<1>1. Shape(e) /\ Sound(u, e)
  BY DEF Inv, FramesOK
<1>2. phase \in [Objects -> {"live", "deallocating", "freed"}]
  BY DEF Inv, TypeOK
<1>3. e.op = "copyWeakInit" => phase'[e.o] = phase[e.o]
  <2>1. e.op = "copyWeakInit" => e.o \in Objects
    BY <1>1 DEF Shape, ShapeCall
  <2> QED  BY <1>2, <2>1
<1>4. e.op = "dealloc" => phase'[e.o] = phase[e.o]
  <2>1. e.op = "dealloc" => e.o \in Objects /\ e.o # o
    BY <1>1 DEF Shape, ShapeDealloc, Sound
  <2> QED  BY <1>2, <2>1
<1>5. /\ InitBegun(u, ClassOf[e.o]) => InitBegun(u, ClassOf[e.o])'
      /\ \A x \in Reserved(e) : locState'[x] = locState[x]
      /\ HaveOld(e) => locState'[e.l] = "weak"
      /\ e.op = "dealloc" => \A l \in Locations : <<e.o, l>> \in reg' => <<e.o, l>> \in reg
  BY <1>1 DEF InitBegun, Sound
<1> QED  BY <1>1, <1>3, <1>4, <1>5, SoundStep

LEMMA LastReleaseRest ==
  ASSUME Inv, NEW o \in Objects, phase[o] = "live", phase' = [phase EXCEPT ![o] = "deallocating"],
         owns' \in [Threads -> SUBSET Objects], \A u \in Threads : owns'[u] \subseteq owns[u] \ {o},
         calls' \in [Threads -> 0 .. MaxCalls],
         UNCHANGED <<loc, locState, reg, wref, owner, initState, initBy, error>>
  PROVE  /\ TypeOK' /\ Mirror' /\ Marked' /\ OwnedLive' /\ FreedClean' /\ Initializing'
         /\ ~error'
<1>1. phase \in [Objects -> {"live", "deallocating", "freed"}]
  BY DEF Inv, TypeOK
<1>2. TypeOK'
  BY <1>1 DEF Inv, TypeOK
<1>3. OwnedLive' /\ FreedClean'
  BY <1>1, <1>2 DEF Inv, TypeOK, OwnedLive, FreedClean
<1> QED  BY <1>2, <1>3 DEF Inv, Mirror, Marked, Initializing

LEMMA ReleaseKeeps ==
  ASSUME Inv, NEW t \in Threads, Release(t)
  PROVE  Inv'
<1>1. PICK o \in owns[t] :
        /\ \A i \in 1 .. Len(stack[t]) : stack[t][i].o # o
        /\ owns' = [owns EXCEPT ![t] = @ \ {o}]
        /\ IF Owners(o) \ {t} # {} \/ Copiers(o) # {}
             THEN UNCHANGED <<phase, stack>>
             ELSE /\ phase' = [phase EXCEPT ![o] = "deallocating"]
                  /\ Push(t, DeallocFrame(o))
  BY DEF Release
<1>2. /\ InProgram(t) /\ calls[t] > 0 /\ calls' = [calls EXCEPT ![t] = @ - 1]
      /\ UNCHANGED <<loc, locState, reg, wref, owner, initState, initBy, error>>
  BY DEF Release
<1>3. o \in Objects /\ phase[o] = "live" /\ owns \in [Threads -> SUBSET Objects]
  BY DEF Inv, TypeOK, OwnedLive
<1>4. /\ owns' \in [Threads -> SUBSET Objects]
      /\ \A u \in Threads : owns'[u] = IF u = t THEN owns[u] \ {o} ELSE owns[u]
  BY <1>1, <1>3
<1>5. calls' \in [Threads -> 0 .. MaxCalls]
  BY <1>2, CallsCounted
<1>6. FramesOK
  BY DEF Inv
<1>7. ASSUME NEW u \in Threads, NEW i \in 1 .. Len(stack[u]), stack[u][i].o \in owns[u]
      PROVE  stack[u][i].o \in owns'[u]
  BY <1>1, <1>4, <1>7
<1>8. CASE UNCHANGED <<phase, stack>>
  <2>1. ASSUME NEW u \in Threads, NEW i \in 1 .. Len(stack[u]) PROVE Sound(u, stack[u][i])'
    <3>1. PICK e : e = stack[u][i]
      OBVIOUS
    <3>2. Sound(u, e) /\ (e.o \in owns[u] => e.o \in owns'[u])
      BY <1>6, <1>7, <3>1 DEF FramesOK
    <3>3. Sound(u, e)'
      BY <1>2, <1>8, <3>2 DEF Sound, InitBegun
    <3> QED  BY <1>8, <3>1, <3>3 DEF Sound
  <2>2. FramesOK'
    <3>1. \A u \in Threads : \A i \in 1 .. Len(stack'[u]) : Sound(u, stack[u][i])'
      BY <1>8, <2>1
    <3>2. \A u \in Threads : CopyOnTop(u)'
      BY <1>6, <1>8 DEF FramesOK, CopyOnTop, Top
    <3> QED  BY <1>6, <1>8, <3>1, <3>2 DEF FramesOK
  <2>3. LocksOK'
    BY <1>2, <1>8 DEF Inv, LocksOK, At, Idle, Top
  <2>4. TypeOK' /\ OwnedLive'
    BY <1>2, <1>4, <1>5, <1>8 DEF Inv, TypeOK, OwnedLive
  <2>5. Mirror' /\ Marked' /\ FreedClean' /\ Initializing' /\ ~error'
    BY <1>2, <1>8 DEF Inv, Mirror, Marked, FreedClean, Initializing
  <2> QED  BY <2>2, <2>3, <2>4, <2>5 DEF Inv
<1>9. CASE /\ Owners(o) \ {t} = {} /\ Copiers(o) = {}
           /\ phase' = [phase EXCEPT ![o] = "deallocating"] /\ Push(t, DeallocFrame(o))
  <2>1. \A u \in Threads : owns'[u] \subseteq owns[u] \ {o}
    BY <1>4, <1>9 DEF Owners
  <2>2. phase'[o] = "deallocating"
    BY <1>3, <1>9 DEF Inv, TypeOK
  <2>3. \A u \in Threads : \A i \in 1 .. Len(stack[u]) :
          \A e : e = stack[u][i] => Sound(u, e)'
    <3> SUFFICES ASSUME NEW u \in Threads, NEW i \in 1 .. Len(stack[u]), NEW e, e = stack[u][i]
                 PROVE  Sound(u, e)'
      OBVIOUS
    <3>1. e.op = "copyWeakInit" => e.o # o
      BY <1>9 DEF Copiers
    <3>2. e.op \in {"storeWeak", "initWeak"} /\ e.o \in owns[u] => e.o \in owns'[u]
      BY <1>7
    <3>3. /\ o \in Objects /\ phase[o] = "live" /\ phase' = [phase EXCEPT ![o] = "deallocating"]
          /\ UNCHANGED <<locState, reg, initState, initBy>>
      BY <1>2, <1>3, <1>9
    <3> QED  BY ONLY Inv, u \in Threads, i \in 1 .. Len(stack[u]), e = stack[u][i],
                     <3>1, <3>2, <3>3, LastReleaseSound
  <2>4. FramesOK'
    BY <1>2, <1>3, <1>6, <1>9, <2>2, <2>3, DeallocApart, FramesPush
  <2>5. LocksOK'
    BY <1>2, <1>9, LocksPush
  <2> QED  BY <1>2, <1>3, <1>4, <1>5, <1>9, <2>1, <2>4, <2>5, LastReleaseRest DEF Inv
<1> QED  BY <1>1, <1>8, <1>9


LEMMA CopyReleaseKeeps ==
  ASSUME Inv, NEW t \in Threads, CopyRelease(t)
  PROVE  Inv'
<1>1. PICK f, o : f = Top(t) /\ o = f.o
  OBVIOUS
<1>2. /\ ~Idle(t) /\ f.pc = "release"
      /\ UNCHANGED <<loc, locState, reg, wref, owner, owns, initState, initBy, error, calls>>
      /\ IF Owners(o) # {} \/ Copiers(o) # {t}
           THEN Pop(t) /\ UNCHANGED phase
           ELSE /\ phase' = [phase EXCEPT ![o] = "deallocating"]
                /\ Become(t, DeallocFrame(o))
  BY <1>1 DEF CopyRelease, At
<1>3. FramesOK /\ StackType /\ Shape(f) /\ Sound(t, f)
  BY <1>1, <1>2, TopOK DEF Inv, FramesOK, StackType
<1>4. f.op = "copyWeakInit" /\ o \in Objects /\ phase[o] = "live"
  BY <1>1, <1>2, <1>3, CallLabels DEF ShapeCall, Sound
<1>5. CASE Pop(t) /\ UNCHANGED phase
  BY <1>1, <1>2, <1>5, ReturnKeeps
<1>6. CASE /\ Owners(o) = {} /\ Copiers(o) = {t}
           /\ phase' = [phase EXCEPT ![o] = "deallocating"] /\ Become(t, DeallocFrame(o))
  <2>1. phase'[o] = "deallocating"
    BY <1>4, <1>6 DEF Inv, TypeOK
  <2>2. \A i \in 1 .. Len(stack[t]) : i # Len(stack[t]) => stack[t][i].op # "copyWeakInit"
    BY <1>1, <1>2, <1>3, CopyBelow
  <2>3. \A u \in Threads : \A i \in 1 .. Len(stack[u]) :
          u # t \/ i # Len(stack[t]) => \A e : e = stack[u][i] => Sound(u, e)'
    <3> SUFFICES ASSUME NEW u \in Threads, NEW i \in 1 .. Len(stack[u]), u # t \/ i # Len(stack[t]),
                        NEW e, e = stack[u][i]
                 PROVE  Sound(u, e)'
      OBVIOUS
    <3>1. e.op = "copyWeakInit" => e.o # o
      BY <1>6, <2>2 DEF Copiers
    <3>2. owns'[u] = owns[u]
      BY <1>2
    <3> QED  BY <1>2, <1>4, <1>6, <3>1, <3>2, LastReleaseSound
  <2>4. /\ Shape(DeallocFrame(o)) /\ Sound(t, DeallocFrame(o))'
        /\ \A u \in Threads : \A i \in 1 .. Len(stack[u]) : Apart(DeallocFrame(o), stack[u][i])
    BY <1>3, <1>4, <2>1, DeallocApart
  <2>5. FramesOK'
    BY <1>2, <1>3, <1>6, <2>2, <2>3, <2>4, FramesBecome
  <2>6. LocksOK'
    <3>1. DeallocFrame(o) \in FrameType
      BY <2>4 DEF Shape
    <3>2. Kept(t, Len(stack[t]) - 1)
      BY <1>2, <1>3, <1>6, <3>1, BecomeFacts
    <3> QED  BY <1>1, <1>2, <3>2, LocksStep
  <2>7. /\ owns' \in [Threads -> SUBSET Objects] /\ calls' \in [Threads -> 0 .. MaxCalls]
        /\ \A u \in Threads : owns'[u] \subseteq owns[u] \ {o}
    BY <1>2, <1>6 DEF Inv, TypeOK, Owners
  <2> QED  BY <1>2, <1>4, <1>6, <2>5, <2>6, <2>7, LastReleaseRest DEF Inv
<1> QED  BY <1>2, <1>5, <1>6

\* A dealloc goes to its next label.
LEMMA DeallocFrameAt ==
  ASSUME Inv, NEW t \in Threads, ~Idle(t), NEW f, f = Top(t), f.pc \in {"dealloc", "clear", "free"}
  PROVE  /\ f.op = "dealloc" /\ f \in FrameType /\ f.o \in Objects /\ f.l = nil /\ f.d = nil
         /\ phase[f.o] = "deallocating"
         /\ \A pc \in {"clear", "free"} : \E g :
              /\ g = [f EXCEPT !.pc = pc] /\ g \in FrameType
              /\ g.op = "dealloc" /\ g.pc = pc /\ g.l = nil /\ g.o = f.o /\ g.d = nil
              /\ Shape(g) /\ Reserved(g) = {}
<1>1. Shape(f) /\ Sound(t, f)
  BY TopOK DEF Inv
<1>2. /\ f.op = "dealloc" /\ f \in FrameType /\ f.o \in Objects /\ f.l = nil /\ f.d = nil
      /\ phase[f.o] = "deallocating"
  BY <1>1 DEF Shape, ShapeDealloc, ShapeInitialize, ShapeCall, Sound
<1>3. ASSUME NEW pc \in {"clear", "free"}
      PROVE  \E g : /\ g = [f EXCEPT !.pc = pc] /\ g \in FrameType
                    /\ g.op = "dealloc" /\ g.pc = pc /\ g.l = nil /\ g.o = f.o /\ g.d = nil
                    /\ Shape(g) /\ Reserved(g) = {}
  <2> DEFINE g == [f EXCEPT !.pc = pc]
  <2>1. /\ g \in FrameType /\ g.op = f.op /\ g.pc = pc /\ g.l = f.l /\ g.o = f.o /\ g.d = f.d
    BY <1>2 DEF FrameType
  <2>2. g = [f EXCEPT !.pc = pc]
    OBVIOUS
  <2> HIDE DEF g
  <2>3. Shape(g) /\ Reserved(g) = {}
    BY <1>2, <2>1 DEF Shape, ShapeDealloc, Reserved, Inits
  <2> WITNESS g
  <2> QED  BY <1>2, <2>1, <2>2, <2>3
<1> QED  BY <1>2, <1>3

LEMMA DeallocBodyDoneKeeps ==
  ASSUME Inv, NEW t \in Threads, DeallocBodyDone(t)
  PROVE  Inv'
<1>1. PICK f, pc : f = Top(t) /\ pc = IF f.o \in wref THEN "clear" ELSE "free"
  OBVIOUS
<1>2. /\ ~Idle(t) /\ f.pc = "dealloc" /\ Goto(t, pc) /\ pc \in {"clear", "free"}
      /\ UNCHANGED <<loc, locState, reg, wref, owner, phase, owns, initState, initBy, error, calls>>
  BY <1>1 DEF DeallocBodyDone, At
<1>3. f.op = "dealloc" /\ f.o \in Objects /\ f.l = nil /\ f.d = nil /\ phase[f.o] = "deallocating"
  BY <1>1, <1>2, DeallocFrameAt
<1>4. PICK g : /\ g = [f EXCEPT !.pc = pc] /\ g \in FrameType
               /\ g.op = "dealloc" /\ g.pc = pc /\ g.l = nil /\ g.o = f.o /\ g.d = nil
               /\ Shape(g) /\ Reserved(g) = {}
  BY <1>1, <1>2, DeallocFrameAt
<1>5. Become(t, g)
  BY <1>1, <1>2, <1>4 DEF Goto
<1>6. Sound(t, g)
  <2>1. pc = "free" => \A l \in Locations : <<f.o, l>> \notin reg
    BY <1>1, <1>3 DEF Inv, Marked
  <2> QED  BY <1>3, <1>4, <2>1 DEF Sound, Inits, HaveOld, Loading
<1>7. /\ owner' \in [Stripes -> Threads \cup {nil}]
      /\ \A s \in Stripes : /\ \A u \in Threads : u # t /\ owner'[s] = u => owner[s] = u
                            /\ owner'[s] = t => g.pc \in {"lock", "locked"}
  <2>1. \A s \in Stripes : owner[s] # t
    BY <1>1, <1>2 DEF Inv, LocksOK, At
  <2> QED  BY <1>2, <2>1 DEF Inv, TypeOK
<1>8. /\ Top(t).pc # "initialize" /\ Top(t).pc # "release" /\ g.op = Top(t).op
      /\ g.l = Top(t).l /\ g.d = Top(t).d /\ g.o = Top(t).o /\ Shape(g)
  BY <1>1, <1>2, <1>3, <1>4
<1> QED  BY <1>2, <1>5, <1>6, <1>7, <1>8, BecomeKeeps


LEMMA ClearKeeps ==
  ASSUME Inv, NEW t \in Threads, Clear(t)
  PROVE  Inv'
<1>1. PICK f, o, ls : f = Top(t) /\ o = f.o /\ ls = {p[2] : p \in Referrers(o)}
  OBVIOUS
<1>2. /\ ~Idle(t) /\ f.pc = "clear" /\ Goto(t, "free")
      /\ error' = (error \/ \E l \in ls : loc[l] \notin {o, nil})
      /\ loc' = [l \in Locations |-> IF l \in ls /\ loc[l] = o THEN nil ELSE loc[l]]
      /\ reg' = reg \ Referrers(o)
      /\ UNCHANGED <<locState, wref, owner, phase, owns, initState, initBy, calls>>
  BY <1>1 DEF Clear, At
<1>3. FramesOK /\ StackType
  BY DEF Inv, FramesOK, StackType
<1>4. f.op = "dealloc" /\ o \in Objects /\ f.l = nil /\ f.d = nil /\ phase[o] = "deallocating"
  BY <1>1, <1>2, DeallocFrameAt
<1>5. PICK g : /\ g = [f EXCEPT !.pc = "free"] /\ g \in FrameType
               /\ g.op = "dealloc" /\ g.pc = "free" /\ g.l = nil /\ g.o = f.o /\ g.d = nil
               /\ Shape(g) /\ Reserved(g) = {}
  BY <1>1, <1>2, DeallocFrameAt
<1>6. Become(t, g)
  BY <1>1, <1>2, <1>5 DEF Goto
<1>7. /\ reg \subseteq Objects \X Locations /\ loc \in [Locations -> Objects \cup {nil}]
      /\ o # nil
  BY <1>4, NilAssumption DEF Inv, TypeOK
<1>8. \A l \in Locations : l \in ls <=> <<o, l>> \in reg
  BY <1>1, <1>7 DEF Referrers
<1>9. ls \subseteq Locations /\ \A l \in ls : loc[l] = o
  <2>1. ls \subseteq Locations
    BY <1>1, <1>7 DEF Referrers
  <2> QED  BY <1>4, <1>8, <2>1 DEF Inv, Mirror
<1>10. \A x \in Objects, l \in Locations : <<x, l>> \in reg' <=> <<x, l>> \in reg /\ x # o
  BY <1>2 DEF Referrers
<1>11. ~error'
  BY <1>2, <1>9 DEF Inv
<1>12. FramesOK'
  <2>1. ASSUME NEW u \in Threads, NEW i \in 1 .. Len(stack[u]), NEW e, e = stack[u][i]
        PROVE  Sound(u, e)'
    <3>1. Shape(e) /\ Sound(u, e)
      BY <1>3, <2>1 DEF FramesOK
    <3>2. /\ InitBegun(u, ClassOf[e.o]) => InitBegun(u, ClassOf[e.o])'
          /\ \A x \in Reserved(e) : locState'[x] = locState[x]
          /\ HaveOld(e) => locState'[e.l] = "weak"
          /\ e.op = "dealloc" => \A l \in Locations : <<e.o, l>> \in reg' => <<e.o, l>> \in reg
      BY <1>2, <3>1 DEF InitBegun, Sound
    <3>3. phase' = phase /\ owns' = owns
      BY <1>2
    <3> QED  BY <3>1, <3>2, <3>3, SoundStep
  <2>2. Sound(t, g)'
    <3>1. \A l \in Locations : <<o, l>> \notin reg'
      BY <1>4, <1>10
    <3> QED  BY <1>1, <1>2, <1>4, <1>5, <3>1 DEF Sound, Inits, HaveOld, Loading
  <2>3. \A u \in Threads : \A i \in 1 .. Len(stack[u]) :
          u # t \/ i # Len(stack[t]) => Apart(g, stack[u][i])
    <3>1. \A u \in Threads : \A i \in 1 .. Len(stack[u]) :
            u # t \/ i # Len(stack[t]) => Apart(f, stack[u][i])
      BY <1>1, <1>2, <1>3, TopOK
    <3> QED  BY <1>4, <1>5, <3>1 DEF Apart
  <2>4. \A i \in 1 .. Len(stack[t]) : i # Len(stack[t]) => stack[t][i].op # "copyWeakInit"
    BY <1>1, <1>2, <1>3, CopyBelow
  <2> QED  BY <1>2, <1>3, <1>5, <1>6, <2>1, <2>2, <2>3, <2>4, FramesBecome
<1>13. LocksOK' /\ owner' \in [Stripes -> Threads \cup {nil}]
  <2>1. Kept(t, Len(stack[t]) - 1)
    BY <1>2, <1>3, <1>5, <1>6, BecomeFacts
  <2> QED  BY <1>1, <1>2, <2>1, LocksStep
<1>14. TypeOK'
  <2>1. loc' \in [Locations -> Objects \cup {nil}] /\ reg' \subseteq Objects \X Locations
    BY <1>2, <1>7
  <2> QED  BY <1>2, <1>11, <1>13, <2>1 DEF Inv, TypeOK
<1>15. Mirror'
  <2> SUFFICES ASSUME NEW x \in Objects, NEW l \in Locations
               PROVE  <<x, l>> \in reg' <=> locState'[l] = "weak" /\ loc'[l] = x
    BY DEF Mirror
  <2>1. <<x, l>> \in reg <=> locState[l] = "weak" /\ loc[l] = x
    BY DEF Inv, Mirror
  <2>2. x # nil /\ loc'[l] = IF l \in ls THEN nil ELSE loc[l]
    BY <1>2, <1>9, NilAssumption
  <2> QED  BY <1>2, <1>8, <1>9, <1>10, <2>1, <2>2
<1>16. Marked' /\ FreedClean'
  BY <1>2, <1>10 DEF Inv, Marked, FreedClean
<1>17. OwnedLive' /\ Initializing'
  BY <1>2 DEF Inv, OwnedLive, Initializing
<1> QED  BY <1>11, <1>12, <1>13, <1>14, <1>15, <1>16, <1>17 DEF Inv

LEMMA FreeKeeps ==
  ASSUME Inv, NEW t \in Threads, Free(t)
  PROVE  Inv'
<1>1. PICK f, o : f = Top(t) /\ o = f.o
  OBVIOUS
<1>2. /\ ~Idle(t) /\ f.pc = "free" /\ Pop(t)
      /\ phase' = [phase EXCEPT ![o] = "freed"] /\ wref' = wref \ {o}
      /\ UNCHANGED <<loc, locState, reg, owner, owns, initState, initBy, error, calls>>
  BY <1>1 DEF Free, At
<1>3. /\ FramesOK /\ StackType /\ Sound(t, f)
      /\ \A u \in Threads : \A i \in 1 .. Len(stack[u]) :
           u # t \/ i # Len(stack[t]) => Apart(f, stack[u][i])
  BY <1>1, <1>2, TopOK DEF Inv, FramesOK, StackType
<1>4. f.op = "dealloc" /\ o \in Objects /\ phase[o] = "deallocating"
  BY <1>1, <1>2, DeallocFrameAt
<1>5. \A l \in Locations : <<o, l>> \notin reg
  BY <1>1, <1>2, <1>3, <1>4 DEF Sound
<1>6. phase \in [Objects -> {"live", "deallocating", "freed"}]
  BY DEF Inv, TypeOK
<1>7. FramesOK'
  <2>1. ASSUME NEW u \in Threads, NEW i \in 1 .. Len(stack[u]), u # t \/ i # Len(stack[t]),
               NEW e, e = stack[u][i]
        PROVE  Sound(u, e)'
    <3>1. Shape(e) /\ Sound(u, e) /\ Apart(f, e)
      BY <1>3, <2>1 DEF FramesOK
    <3>2. e.op = "copyWeakInit" => phase'[e.o] = phase[e.o]
      <4>1. e.op = "copyWeakInit" => e.o \in Objects /\ e.o # o
        BY <1>4, <3>1 DEF Shape, ShapeCall, Sound
      <4> QED  BY <1>2, <1>6, <4>1
    <3>3. e.op = "dealloc" => phase'[e.o] = phase[e.o]
      <4>1. e.op = "dealloc" => e.o \in Objects /\ e.o # o
        BY <1>1, <1>4, <3>1 DEF Shape, ShapeDealloc, Apart
      <4> QED  BY <1>2, <1>6, <4>1
    <3>4. /\ InitBegun(u, ClassOf[e.o]) => InitBegun(u, ClassOf[e.o])'
          /\ \A x \in Reserved(e) : locState'[x] = locState[x]
          /\ HaveOld(e) => locState'[e.l] = "weak"
          /\ e.op = "dealloc" => \A l \in Locations : <<e.o, l>> \in reg' => <<e.o, l>> \in reg
      BY <1>2, <3>1 DEF InitBegun, Sound
    <3>5. owns' = owns
      BY <1>2
    <3> QED  BY <3>1, <3>2, <3>3, <3>4, <3>5, SoundStep
  <2> QED  BY <1>2, <1>3, <2>1, FramesPop
<1>8. LocksOK' /\ owner' \in [Stripes -> Threads \cup {nil}]
  BY <1>1, <1>2, <1>3, PopFacts, LocksStep
<1>9. TypeOK'
  BY <1>2, <1>4, <1>6, <1>8 DEF Inv, TypeOK
<1>10. Marked' /\ FreedClean'
  BY <1>2, <1>5, <1>6 DEF Inv, Marked, FreedClean
<1>11. OwnedLive'
  BY <1>2, <1>4, <1>6 DEF Inv, TypeOK, OwnedLive
<1>12. Mirror' /\ Initializing' /\ ~error'
  BY <1>2 DEF Inv, Mirror, Initializing
<1> QED  BY <1>7, <1>8, <1>9, <1>10, <1>11, <1>12 DEF Inv

LEMMA AllocKeeps ==
  ASSUME Inv, NEW t \in Threads, Alloc(t)
  PROVE  Inv'
<1>1. PICK o \in Objects :
        /\ phase[o] = "freed" /\ phase' = [phase EXCEPT ![o] = "live"]
        /\ owns' = [owns EXCEPT ![t] = @ \cup {o}]
  BY DEF Alloc
<1>2. /\ calls[t] > 0 /\ calls' = [calls EXCEPT ![t] = @ - 1]
      /\ UNCHANGED <<loc, locState, reg, wref, owner, initState, initBy, stack, error>>
  BY DEF Alloc
<1>3. calls' \in [Threads -> 0 .. MaxCalls]
  BY <1>2, CallsCounted
<1>4. /\ phase \in [Objects -> {"live", "deallocating", "freed"}]
      /\ owns \in [Threads -> SUBSET Objects]
  BY DEF Inv, TypeOK
<1>5. FramesOK
  BY DEF Inv
<1>6. FramesOK'
  <2>1. ASSUME NEW u \in Threads, NEW i \in 1 .. Len(stack[u]) PROVE Sound(u, stack[u][i])'
    <3>1. PICK e : e = stack[u][i]
      OBVIOUS
    <3>2. Shape(e) /\ Sound(u, e)
      BY <1>5, <3>1 DEF FramesOK
    <3>3. e.op \in {"copyWeakInit", "dealloc"} => phase'[e.o] = phase[e.o]
      <4>1. e.op \in {"copyWeakInit", "dealloc"} => e.o \in Objects /\ e.o # o
        BY <1>1, <3>2 DEF Shape, ShapeDealloc, ShapeCall, Sound
      <4> QED  BY <1>1, <1>4, <4>1
    <3>4. e.o \in owns[u] => e.o \in owns'[u]
      BY <1>1, <1>4
    <3>5. Sound(u, e)'
      BY <1>2, <3>2, <3>3, <3>4 DEF Sound, InitBegun
    <3> QED  BY <1>2, <3>1, <3>5 DEF Sound
  <2>2. \A u \in Threads : CopyOnTop(u)'
    BY <1>2, <1>5 DEF FramesOK, CopyOnTop, Top
  <2>3. \A u \in Threads : \A i \in 1 .. Len(stack'[u]) : Sound(u, stack[u][i])'
    BY <1>2, <2>1
  <2> QED  BY <1>2, <1>5, <2>2, <2>3 DEF FramesOK
<1>7. LocksOK'
  BY <1>2 DEF Inv, LocksOK, At, Idle, Top
<1>8. TypeOK' /\ OwnedLive' /\ FreedClean'
  <2>1. TypeOK'
    BY <1>1, <1>2, <1>3, <1>4 DEF Inv, TypeOK
  <2> QED  BY <1>1, <1>2, <1>4, <2>1 DEF Inv, OwnedLive, FreedClean
<1>9. Mirror' /\ Marked' /\ Initializing' /\ ~error'
  BY <1>2 DEF Inv, Mirror, Marked, Initializing
<1> QED  BY <1>6, <1>7, <1>8, <1>9 DEF Inv


(***************************************************************************)
(* The invariant, and what it implies.                                     *)
(***************************************************************************)
LEMMA InitInv ==
  ASSUME Init
  PROVE  Inv
<1>1. PICK holder \in [Objects -> Threads] :
        owns = [t \in Threads |-> {o \in Objects : holder[o] = t}]
  BY DEF Init
<1>2. /\ loc = [l \in Locations |-> nil] /\ locState \in [Locations -> {"raw", "weak"}]
      /\ reg = {} /\ wref = {} /\ owner = [s \in Stripes |-> nil]
      /\ phase = [o \in Objects |-> "live"]
      /\ initState = [c \in Classes |-> IF c \in Initialized THEN "done" ELSE "no"]
      /\ initBy = [c \in Classes |-> nil]
      /\ stack = [t \in Threads |-> <<>>] /\ error = FALSE
      /\ calls = [t \in Threads |-> MaxCalls]
  BY DEF Init
<1>3. TypeOK
  <2>1. owns \in [Threads -> SUBSET Objects]
    BY <1>1
  <2>2. calls \in [Threads -> 0 .. MaxCalls]
    BY <1>2, MaxCallsAssumption
  <2> QED  BY <1>2, <2>1, <2>2 DEF TypeOK
<1>4. FramesOK
  <2>1. \A t \in Threads : \A i : i \notin 1 .. Len(stack[t])
    BY <1>2
  <2>2. stack \in [Threads -> Seq(FrameType)]
    BY <1>2
  <2> QED  BY <2>1, <2>2 DEF FramesOK, CopyOnTop
<1>5. Mirror /\ Marked /\ FreedClean
  BY <1>2, NilAssumption DEF Mirror, Marked, FreedClean
<1>6. OwnedLive /\ Initializing
  BY <1>1, <1>2 DEF OwnedLive, Initializing
<1>7. LocksOK
  BY <1>2, NilAssumption DEF LocksOK
<1> QED  BY <1>2, <1>3, <1>4, <1>5, <1>6, <1>7 DEF Inv

LEMMA StutterKeeps ==
  ASSUME Inv, UNCHANGED vars
  PROVE  Inv'
<1>1. FramesOK'
  <2>1. \A u, f : Sound(u, f)' <=> Sound(u, f)
    BY SoundKept DEF vars
  <2>2. \A u \in Threads : \A i \in 1 .. Len(stack'[u]) : Sound(u, stack[u][i])'
    <3>1. ASSUME NEW u \in Threads, NEW i \in 1 .. Len(stack'[u]) PROVE Sound(u, stack[u][i])'
      <4>1. PICK f : f = stack[u][i]
        OBVIOUS
      <4>2. Sound(u, f) /\ stack' = stack
        BY <4>1 DEF Inv, FramesOK, vars
      <4>3. Sound(u, f)'
        BY <2>1, <4>2
      <4> QED  BY <4>1, <4>2, <4>3 DEF Sound
    <3> QED  BY <3>1
  <2>3. \A u \in Threads : CopyOnTop(u)'
    BY DEF Inv, FramesOK, CopyOnTop, Top, vars
  <2> QED  BY <2>2, <2>3 DEF Inv, FramesOK, vars
<1>2. TypeOK' /\ LocksOK'
  BY DEF Inv, TypeOK, LocksOK, At, Idle, Top, vars
<1>3. Mirror' /\ Marked' /\ OwnedLive' /\ FreedClean' /\ Initializing' /\ ~error'
  BY DEF Inv, Mirror, Marked, OwnedLive, FreedClean, Initializing, vars
<1> QED  BY <1>1, <1>2, <1>3 DEF Inv

LEMMA NextKeeps ==
  ASSUME Inv, [Next]_vars
  PROVE  Inv'
<1>1. CASE UNCHANGED vars
  BY <1>1, StutterKeeps
<1>2. ASSUME NEW t \in Threads, Start(t) PROVE Inv'
  BY <1>2, StartStoreKeeps, StartAloneKeeps, StartLoadKeeps, StartMessageKeeps, ReleaseKeeps,
     AllocKeeps DEF Start
<1>3. ASSUME NEW t \in Threads, Continue(t) PROVE Inv'
  <2>1. CASE Read(t) \/ ReadNil(t) \/ Lock(t) \/ TryAgain(t)
    BY <2>1, ReadKeeps, ReadNilKeeps, LockKeeps, TryAgainKeeps
  <2>2. CASE CallInitialize(t) \/ Initialize(t) \/ Initialize_done(t)
    BY <2>2, CallInitializeKeeps, InitializeKeeps, Initialize_doneKeeps
  <2>3. CASE StoreBody(t) \/ DestroyBody(t) \/ LoadBody(t) \/ MoveBody(t)
    BY <2>3, StoreBodyKeeps, DestroyBodyKeeps, LoadBodyKeeps, MoveBodyKeeps
  <2>4. CASE CopyRelease(t) \/ DeallocBodyDone(t) \/ Clear(t) \/ Free(t)
    BY <2>4, CopyReleaseKeeps, DeallocBodyDoneKeeps, ClearKeeps, FreeKeeps
  <2> QED  BY <1>3, <2>1, <2>2, <2>3, <2>4 DEF Continue
<1> QED  BY <1>1, <1>2, <1>3 DEF Next, Stopped

\* Every reachable state satisfies the invariant: the calls in progress keep
\* off each other's variables, and the tables mirror the variables.
THEOREM InvHolds == Spec => []Inv
<1>1. Init => Inv
  BY InitInv
<1>2. Inv /\ [Next]_vars => Inv'
  BY NextKeeps
<1> QED  BY <1>1, <1>2, PTL DEF Spec

\* The weak tables hold one pair for each weak variable that holds an object,
\* and no other, whatever stores, moves, copies and deallocations run together.
THEOREM TablesMirror == Spec => []TableMirrorsVariables
<1>1. Inv => TableMirrorsVariables
  <2> SUFFICES ASSUME Inv PROVE TableMirrorsVariables
    OBVIOUS
  <2>1. reg \subseteq Objects \X Locations /\ loc \in [Locations -> Objects \cup {nil}]
    BY DEF Inv, TypeOK
  <2> DEFINE pairs == {<<loc[l], l>> : l \in {m \in Locations : Weak(m) /\ loc[m] # nil}}
  <2>2. ASSUME NEW p \in reg PROVE p \in pairs
    <3>1. PICK o \in Objects, l \in Locations : p = <<o, l>>
      BY <2>1
    <3>2. Weak(l) /\ loc[l] = o /\ o # nil
      BY <3>1, NilAssumption DEF Inv, Mirror, Weak
    <3> QED  BY <3>1, <3>2
  <2>3. ASSUME NEW p \in pairs PROVE p \in reg
    <3>1. PICK l \in Locations : Weak(l) /\ loc[l] # nil /\ p = <<loc[l], l>>
      OBVIOUS
    <3> QED  BY <2>1, <3>1 DEF Inv, Mirror, Weak
  <2> QED  BY <2>2, <2>3 DEF TableMirrorsVariables
<1> QED  BY <1>1, InvHolds, PTL

\* No weak variable and no weak table refers to a freed object.
THEOREM FreedUnreferenced == Spec => []NoDanglingWeak
<1>1. Inv => NoDanglingWeak
  <2> SUFFICES ASSUME Inv, NEW o \in Objects, phase[o] = "freed"
               PROVE  Referrers(o) = {} /\ \A l \in Locations : Weak(l) => loc[l] # o
    BY DEF NoDanglingWeak
  <2>1. \A l \in Locations : <<o, l>> \notin reg
    BY DEF Inv, FreedClean
  <2>2. Referrers(o) = {}
    BY <2>1 DEF Referrers, Inv, TypeOK
  <2> QED  BY <2>1, <2>2 DEF Inv, Mirror, Weak
<1> QED  BY <1>1, InvHolds, PTL

\* A program that follows the rules of the functions gets no report of
\* objc_weak_error, and is not halted by a store of a dying object.
THEOREM NoErrors == Spec => []NoWeakError
<1>1. Inv => NoWeakError
  BY DEF Inv, NoWeakError
<1> QED  BY <1>1, InvHolds, PTL

\* +initialize runs, and is waited for, without a lock of the side tables.
THEOREM CalloutsUnlocked == Spec => []CalloutUnlocked
<1>1. Inv => CalloutUnlocked
  BY DEF Inv, LocksOK, CalloutUnlocked, Held, At
<1> QED  BY <1>1, InvHolds, PTL


(***************************************************************************)
(* WeakStore implements WeakVariables.                                     *)
(***************************************************************************)
LEMMA ViewKept ==
  ASSUME UNCHANGED <<loc, locState, phase>>
  PROVE  UNCHANGED <<View, Alive>>
BY DEF View, Alive, Weak

\* A variable that shows nothing before and after the step
LEMMA ViewOfNil ==
  ASSUME Inv, NEW l \in Locations, loc[l] = nil \/ locState[l] = "raw"
  PROVE  View[l] = nil
BY DEF View, Weak

LEMMA StoreSimulates ==
  ASSUME Inv, NEW t \in Threads, StoreBody(t) \/ DestroyBody(t)
  PROVE  Zeroing!Next
<1>1. PICK f, o : f = Top(t) /\ o = IF Rejected(f.o) THEN nil ELSE f.o
  OBVIOUS
<1>2. ~Idle(t) /\ ~Changed(t) /\ f.pc = "locked" /\ UNCHANGED phase
  BY <1>1 DEF StoreBody, DestroyBody, Ready, At
<1>3. f.l \in Locations /\ f.o \in Objects \cup {nil}
  <2>1. Shape(f)
    BY <1>1, <1>2, TopOK DEF Inv
  <2> QED  BY <2>1, <1>1, <1>2, Unchanged_Old DEF Shape, FrameType
<1>4. /\ loc \in [Locations -> Objects \cup {nil}] /\ locState \in [Locations -> {"raw", "weak"}]
      /\ phase \in [Objects -> {"live", "deallocating", "freed"}] /\ nil \notin Objects
  BY NilAssumption DEF Inv, TypeOK
<1>5. Alive' = Alive
  BY <1>2 DEF Alive
<1>6. CASE StoreBody(t)
  <2>1. loc' = [loc EXCEPT ![f.l] = o] /\ locState' = [locState EXCEPT ![f.l] = "weak"]
    BY <1>1, <1>6 DEF StoreBody
  <2>2. o \in Objects \cup {nil} /\ o \in Alive \cup {nil} /\ (o # nil => phase[o] = "live")
    BY <1>1, <1>3 DEF Rejected, Alive
  <2>3. View' = [View EXCEPT ![f.l] = o]
    BY <1>2, <1>3, <1>4, <2>1, <2>2 DEF View, Weak
  <2> QED  BY <1>3, <1>5, <2>2, <2>3 DEF Zeroing!Next, Zeroing!Assign
<1>7. CASE DestroyBody(t)
  <2>1. loc' = loc /\ locState' = [locState EXCEPT ![f.l] = "raw"]
    BY <1>1, <1>7 DEF DestroyBody
  <2>2. View' = [View EXCEPT ![f.l] = nil]
    BY <1>2, <1>3, <1>4, <2>1 DEF View, Weak
  <2> QED  BY <1>3, <1>5, <2>2 DEF Zeroing!Next, Zeroing!Assign
<1> QED  BY <1>6, <1>7

LEMMA MoveSimulates ==
  ASSUME Inv, NEW t \in Threads, MoveBody(t)
  PROVE  Zeroing!Next
<1>1. PICK f : f = Top(t)
  OBVIOUS
<1>2. /\ ~Idle(t) /\ ~Changed(t) /\ f.pc = "locked" /\ f.op = "moveWeak" /\ UNCHANGED phase
      /\ loc' = [loc EXCEPT ![f.d] = f.old, ![f.l] = nil]
      /\ locState' = [locState EXCEPT ![f.d] = "weak"]
  BY <1>1 DEF MoveBody, Ready, At
<1>3. f.l \in Locations /\ locState[f.l] = "weak" /\ loc[f.l] = f.old
  BY <1>1, <1>2, Unchanged_Old DEF HaveOld
<1>4. /\ f.d \in Locations /\ f.d # f.l /\ f.old \in Objects /\ locState[f.d] = "raw"
  <2>1. Shape(f) /\ Sound(t, f)
    BY <1>1, <1>2, TopOK DEF Inv
  <2> QED  BY <1>2, <2>1 DEF Shape, ShapeCall, Sound
<1>5. /\ loc \in [Locations -> Objects \cup {nil}] /\ locState \in [Locations -> {"raw", "weak"}]
      /\ nil \notin Objects
  BY NilAssumption DEF Inv, TypeOK
<1>6. Alive' = Alive
  BY <1>2 DEF Alive
<1>7. View[f.d] = nil
  BY <1>4, ViewOfNil
<1>8. View' = [View EXCEPT ![f.d] = View[f.l], ![f.l] = nil]
  BY <1>2, <1>3, <1>4, <1>5 DEF View, Weak
<1> QED  BY <1>3, <1>4, <1>6, <1>7, <1>8 DEF Zeroing!Next, Zeroing!Move

\* A copy or a move of nil, or a copy of a dead object
LEMMA NilSimulates ==
  ASSUME Inv, NEW t \in Threads, ReadNil(t) \/ LoadBody(t)
  PROVE  UNCHANGED <<View, Alive>>
<1>1. PICK f : f = Top(t)
  OBVIOUS
<1>2. /\ ~Idle(t) /\ f.pc \in {"read", "locked"} /\ UNCHANGED phase
      /\ \/ UNCHANGED <<loc, locState>>
         \/ /\ f.op \in {"copyWeak", "moveWeak"}
            /\ loc' = [loc EXCEPT ![f.d] = nil] /\ locState' = [locState EXCEPT ![f.d] = "weak"]
  BY <1>1 DEF ReadNil, LoadBody, Ready, At, Loading
<1>3. CASE UNCHANGED <<loc, locState>>
  BY <1>2, <1>3, ViewKept
<1>4. CASE /\ f.op \in {"copyWeak", "moveWeak"}
           /\ loc' = [loc EXCEPT ![f.d] = nil] /\ locState' = [locState EXCEPT ![f.d] = "weak"]
  <2>1. f.d \in Locations /\ locState[f.d] = "raw"
    <3>1. Shape(f) /\ Sound(t, f)
      BY <1>1, <1>2, TopOK DEF Inv
    <3> QED  BY <1>4, <3>1 DEF Shape, ShapeCall, Sound
  <2>2. /\ loc \in [Locations -> Objects \cup {nil}] /\ locState \in [Locations -> {"raw", "weak"}]
    BY DEF Inv, TypeOK
  <2>3. View' = View
    BY <1>2, <1>4, <2>1, <2>2 DEF View, Weak
  <2> QED  BY <1>2, <2>3 DEF Alive
<1> QED  BY <1>2, <1>3, <1>4

\* The last release of o makes all the variables that show it nil.
LEMMA LastReleaseSimulates ==
  ASSUME Inv, NEW o \in Objects, phase[o] = "live", phase' = [phase EXCEPT ![o] = "deallocating"],
         UNCHANGED <<loc, locState>>
  PROVE  Zeroing!Next
<1>1. /\ loc \in [Locations -> Objects \cup {nil}] /\ nil \notin Objects
      /\ phase \in [Objects -> {"live", "deallocating", "freed"}]
  BY NilAssumption DEF Inv, TypeOK
<1>2. o \in Alive /\ Alive' = Alive \ {o}
  BY <1>1 DEF Alive
<1>3. View' = [l \in Locations |-> IF View[l] = o THEN nil ELSE View[l]]
  BY <1>1 DEF View, Weak
<1> QED  BY <1>2, <1>3 DEF Zeroing!Next, Zeroing!LastRelease

LEMMA ReleaseSimulates ==
  ASSUME Inv, NEW t \in Threads, Release(t) \/ CopyRelease(t)
  PROVE  Zeroing!Next \/ UNCHANGED <<View, Alive>>
<1>1. UNCHANGED <<loc, locState>>
  BY DEF Release, CopyRelease
<1>2. \/ UNCHANGED phase
      \/ \E o \in Objects : phase[o] = "live" /\ phase' = [phase EXCEPT ![o] = "deallocating"]
  <2>1. CASE Release(t)
    BY <2>1 DEF Release, Inv, TypeOK, OwnedLive
  <2>2. CASE CopyRelease(t)
    <3>1. PICK f : f = Top(t) /\ ~Idle(t) /\ f.pc = "release"
      BY <2>2 DEF CopyRelease, At
    <3>2. Shape(f) /\ Sound(t, f)
      BY <3>1, TopOK DEF Inv
    <3>3. f.o \in Objects /\ phase[f.o] = "live"
      BY <3>1, <3>2, CallLabels DEF ShapeCall, Sound
    <3> QED  BY <2>2, <3>1, <3>3 DEF CopyRelease
  <2> QED  BY <2>1, <2>2
<1> QED  BY <1>1, <1>2, ViewKept, LastReleaseSimulates

LEMMA DeallocSimulates ==
  ASSUME Inv, NEW t \in Threads, Clear(t) \/ Free(t)
  PROVE  UNCHANGED <<View, Alive>>
<1>1. PICK f, o : f = Top(t) /\ o = f.o
  OBVIOUS
<1>2. ~Idle(t) /\ f.pc \in {"clear", "free"} /\ UNCHANGED locState
  BY <1>1 DEF Clear, Free, At
<1>3. o \in Objects /\ phase[o] = "deallocating"
  BY <1>1, <1>2, DeallocFrameAt
<1>4. /\ loc \in [Locations -> Objects \cup {nil}] /\ nil \notin Objects
      /\ phase \in [Objects -> {"live", "deallocating", "freed"}]
  BY NilAssumption DEF Inv, TypeOK
<1>5. CASE Clear(t)
  <2>1. PICK ls : /\ loc' = [l \in Locations |-> IF l \in ls /\ loc[l] = o THEN nil ELSE loc[l]]
                  /\ UNCHANGED phase
    BY <1>1, <1>5 DEF Clear
  <2> QED  BY <1>2, <1>3, <1>4, <2>1 DEF View, Alive, Weak
<1>6. CASE Free(t)
  <2>1. loc' = loc /\ phase' = [phase EXCEPT ![o] = "freed"]
    BY <1>1, <1>6 DEF Free
  <2> QED  BY <1>2, <1>3, <1>4, <2>1 DEF View, Alive, Weak
<1> QED  BY <1>5, <1>6

\* No variable refers to the freed address that a new object takes.
LEMMA AllocSimulates ==
  ASSUME Inv, NEW t \in Threads, Alloc(t)
  PROVE  Zeroing!Next
<1>1. PICK o \in Objects : phase[o] = "freed" /\ phase' = [phase EXCEPT ![o] = "live"]
  BY DEF Alloc
<1>2. UNCHANGED <<loc, locState>>
  BY DEF Alloc
<1>3. /\ loc \in [Locations -> Objects \cup {nil}]
      /\ phase \in [Objects -> {"live", "deallocating", "freed"}]
  BY DEF Inv, TypeOK
<1>4. \A l \in Locations : Weak(l) => loc[l] # o
  BY <1>1 DEF Inv, FreedClean, Mirror, Weak
<1>5. View' = View /\ o \notin Alive /\ Alive' = Alive \cup {o}
  BY <1>1, <1>2, <1>3, <1>4 DEF View, Alive, Weak
<1> QED  BY <1>5 DEF Zeroing!Next, Zeroing!Alloc

LEMMA NextSimulates ==
  ASSUME Inv, [Next]_vars
  PROVE  Zeroing!Next \/ UNCHANGED <<View, Alive>>
<1>1. CASE UNCHANGED vars
  BY <1>1, ViewKept DEF vars
<1>2. ASSUME NEW t \in Threads, Start(t) PROVE Zeroing!Next \/ UNCHANGED <<View, Alive>>
  <2>1. CASE Release(t) \/ Alloc(t)
    BY <2>1, ReleaseSimulates, AllocSimulates
  <2>2. CASE ~(Release(t) \/ Alloc(t))
    <3>1. \E f : Call(t, f)
      BY <1>2, <2>2 DEF Start, StartStoreWeak, StartStoreWeakOrNil, StartInitWeak,
         StartDestroyWeak, StartLoadWeak, StartCopyWeak, StartMoveWeak, StartMessage
    <3> QED  BY <3>1, ViewKept DEF Call
  <2> QED  BY <2>1, <2>2
<1>3. ASSUME NEW t \in Threads, Continue(t) PROVE Zeroing!Next \/ UNCHANGED <<View, Alive>>
  <2>1. CASE \/ Read(t) \/ Lock(t) \/ TryAgain(t) \/ CallInitialize(t) \/ Initialize(t)
             \/ Initialize_done(t) \/ DeallocBodyDone(t)
    BY <2>1, ViewKept DEF Read, Lock, TryAgain, CallInitialize, Initialize, Initialize_done,
       DeallocBodyDone
  <2>2. CASE ReadNil(t) \/ LoadBody(t)
    BY <2>2, NilSimulates
  <2>3. CASE StoreBody(t) \/ DestroyBody(t) \/ MoveBody(t)
    BY <2>3, StoreSimulates, MoveSimulates
  <2>4. CASE CopyRelease(t) \/ Clear(t) \/ Free(t)
    BY <2>4, ReleaseSimulates, DeallocSimulates
  <2> QED  BY <1>3, <2>1, <2>2, <2>3, <2>4 DEF Continue
<1> QED  BY <1>1, <1>2, <1>3 DEF Next, Stopped

\* The variables show what WeakVariables promises: an object until its last
\* release, at which all of them become nil in one step, and never a new
\* object at the same address.
THEOREM VariablesZero == Spec => ImplementsZeroing
<1>1. Init => Zeroing!Init
  BY DEF Init, Zeroing!Init, View, Alive
<1>2. Inv /\ [Next]_vars => [Zeroing!Next]_Zeroing!vars
  BY NextSimulates DEF Zeroing!vars
<1> QED  BY <1>1, <1>2, InvHolds, PTL DEF Spec, ImplementsZeroing, Zeroing!Spec

(***************************************************************************)
(* The weak table, for every set of objects and variables, every hash of   *)
(* their addresses and all sizes.  The probes from a key go through all    *)
(* buckets.  Every key is within the largest displacement of where it      *)
(* hashes to (Hashed), so that a search that goes as far finds it; an      *)
(* insertion goes no further than there are used buckets, so that the      *)
(* displacement stays short of the size.  A resize is a recursion over the *)
(* old buckets: before bucket k the new array holds the keys in front of k *)
(* (MovedTo).  What the table holds is what the variables hold (Agree).    *)
(***************************************************************************)

\* Division by a size
LEMMA Quotient ==
  ASSUME NEW a \in Nat, NEW n \in Nat, n > 0
  PROVE  a = n * (a \div n) + (a % n)
OBVIOUS

LEMMA Division ==
  ASSUME NEW a \in Nat, NEW n \in Nat, n > 0
  PROVE  a \div n \in Nat /\ a % n \in 0..n - 1 /\ a = n * (a \div n) + (a % n)
<1>1. a % n \in 0..n - 1
  OBVIOUS
<1>2. a \div n \in Int
  OBVIOUS
<1>3. a \div n >= 0
  OBVIOUS
<1> QED
  BY <1>1, <1>2, <1>3, Quotient

\* The remainder is the only one.
LEMMA Unique ==
  ASSUME NEW n \in Nat, n > 0, NEW q \in Nat, NEW p \in Nat, NEW r \in 0..n - 1,
         NEW s \in 0..n - 1,
         n * q + r = n * p + s
  PROVE  r = s
<1>1. CASE q = p
  BY <1>1
<1>2. CASE q > p
  <2>1. PICK k \in Nat : q = p + 1 + k
    BY <1>2
  <2>2. n * q = n * p + n + n * k
    BY <2>1
  <2>3. n * k >= 0
    OBVIOUS
  <2> QED BY <2>2, <2>3
<1>3. CASE q < p
  <2>1. PICK k \in Nat : p = q + 1 + k
    BY <1>3
  <2>2. n * p = n * q + n + n * k
    BY <2>1
  <2>3. n * k >= 0
    OBVIOUS
  <2> QED BY <2>2, <2>3
<1> QED BY <1>1, <1>2, <1>3

\* A probe wraps around at most once.
LEMMA IndexIs ==
  ASSUME NEW h \in Nat, NEW n \in Nat, n > 0, NEW d \in 0..n - 1
  PROVE  (h + d) % n = IF (h % n) + d < n THEN (h % n) + d ELSE (h % n) + d - n
<1>1. PICK q \in Nat, r \in 0..n - 1 : h = n * q + r /\ r = h % n
  <2>1. h \div n \in Nat /\ h % n \in 0..n - 1 /\ h = n * (h \div n) + (h % n)
    BY Division
  <2> QED BY <2>1
<1>2. PICK p \in Nat, s \in 0..n - 1 : h + d = n * p + s /\ s = (h + d) % n
  <2>1. h + d \in Nat
    OBVIOUS
  <2>2. (h + d) \div n \in Nat /\ (h + d) % n \in 0..n - 1
        /\ h + d = n * ((h + d) \div n) + ((h + d) % n)
    BY <2>1, Division
  <2> QED BY <2>2
<1>3. CASE r + d < n
  <2>1. r + d \in 0..n - 1 /\ n * q + (r + d) = n * p + s
    BY <1>1, <1>2, <1>3
  <2> QED BY <1>1, <1>2, <1>3, <2>1, Unique
<1>4. CASE r + d >= n
  <2>1. r + d - n \in 0..n - 1 /\ n * (q + 1) + (r + d - n) = n * p + s /\ q + 1 \in Nat
    <3>1. n * (q + 1) = n * q + n
      OBVIOUS
    <3> QED BY <3>1, <1>1, <1>2, <1>4
  <2>2. s = r + d - n
    BY <2>1, <1>2, Unique
  <2> QED BY <1>1, <1>2, <1>4, <2>2
<1> QED BY <1>3, <1>4

\* The addresses that are hashed: of objects, in the table, and of variables.
Keys == Referents \cup Variables

\* The probes from a key go through every bucket once.
LEMMA IndexFacts ==
  ASSUME NEW x \in Keys, NEW n \in Nat, n > 0
  PROVE  /\ \A d \in 0..n - 1 : Index(x, d, n) \in 0..n - 1
         /\ \A c, d \in 0..n - 1 : Index(x, c, n) = Index(x, d, n) => c = d
         /\ \A i \in 0..n - 1 : \E d \in 0..n - 1 : i = Index(x, d, n)
<1>1. PICK h \in Nat : h = HashOf[x]
  BY HashAssumption DEF Keys
<1>2. PICK r \in 0..n - 1 : r = h % n
  BY Division
<1>3. \A d \in 0..n - 1 : Index(x, d, n) = IF r + d < n THEN r + d ELSE r + d - n
  BY <1>1, <1>2, IndexIs DEF Index
<1>4. ASSUME NEW i \in 0..n - 1 PROVE \E d \in 0..n - 1 : i = Index(x, d, n)
  <2>1. CASE i >= r
    <3>1. i - r \in 0..n - 1 /\ r + (i - r) = i
      BY <2>1
    <3> QED  BY <1>3, <3>1
  <2>2. CASE i < r
    <3>1. i - r + n \in 0..n - 1 /\ r + (i - r + n) = i + n
      BY <2>2
    <3> QED  BY <1>3, <3>1
  <2> QED  BY <2>1, <2>2
<1> QED
  BY <1>3, <1>4

\* TABLE_SIZE is the number of buckets.
LEMMA SizeIs ==
  ASSUME NEW n \in Nat, NEW b, DOMAIN b = 0..n - 1
  PROVE  Size(b) = n
<1>1. Cardinality(0..n - 1) = n
  <2>1. Cardinality(0..n - 1) = IF 0 > n - 1 THEN 0 ELSE n - 1 - 0 + 1
    BY FS_Interval
  <2> QED  BY <2>1
<1> QED
  BY <1>1 DEF Size

\* The smallest of some numbers
LEMMA LeastOf ==
  ASSUME NEW S \in SUBSET Nat, S # {}
  PROVE  Min(S) \in S /\ Min(S) \in Nat /\ \A x \in S : Min(S) <= x
<1>1. PICK x \in S : \A y \in S : ~(<<y, x>> \in OpToRel(<, Nat))
  BY NatLessThanWellFounded, WFMin
<1>2. ASSUME NEW y \in S PROVE x <= y
  <2>1. x \in Nat /\ y \in Nat
    OBVIOUS
  <2>2. ~(<<y, x>> \in OpToRel(<, Nat))
    BY <1>1
  <2>3. ~(y < x)
    BY <2>1, <2>2, Zenon DEF OpToRel
  <2> QED  BY <2>1, <2>3
<1> QED
  BY <1>2 DEF Min

\* The used buckets
Used(b) == {i \in DOMAIN b : b[i] # Nil}

\* No key is there twice, and none lies beyond the recorded displacement.
Once(b) == \A i, j \in Used(b) : b[i] = b[j] => i = j
Within(b, n, max) ==
  \A i \in Used(b) : \E d \in 0..n - 1 : d <= max /\ i = Index(b[i], d, n)

Hashed(b, n, max) ==
  /\ n \in Nat /\ max \in Nat /\ b \in [0..n - 1 -> Keys \cup {Nil}]
  /\ Once(b) /\ Within(b, n, max)

\* There are no more used buckets than buckets.
LEMMA UsedFinite ==
  ASSUME NEW n \in Nat, NEW b, DOMAIN b = 0..n - 1
  PROVE  /\ IsFiniteSet(Used(b)) /\ Cardinality(Used(b)) \in 0..n
         /\ Cardinality(Used(b)) = n => Used(b) = 0..n - 1
         /\ Used(b) # {} => Cardinality(Used(b)) > 0
<1>1. IsFiniteSet(0..n - 1) /\ Cardinality(0..n - 1) = n
  BY FS_Interval, SizeIs DEF Size
<1>2. Used(b) \subseteq 0..n - 1
  BY DEF Used
<1>3. IsFiniteSet(Used(b)) /\ Cardinality(Used(b)) <= n
      /\ (Cardinality(Used(b)) = n => Used(b) = 0..n - 1)
  BY <1>1, <1>2, FS_Subset
<1>4. Cardinality(Used(b)) \in Nat
  BY <1>3, FS_CardinalityType
<1>5. Used(b) # {} => Cardinality(Used(b)) # 0
  BY <1>3, FS_EmptySet
<1> QED
  BY <1>3, <1>4, <1>5

\* A search finds what is there.
LEMMA Found ==
  ASSUME NEW n, NEW max, NEW b, Hashed(b, n, max), NEW x \in Keys
  PROVE  /\ Size(b) = n
         /\ Reaches(b, x, x, max) <=> \E i \in 0..n - 1 : b[i] = x
         /\ \A i \in 0..n - 1 : b[i] = x => i = Index(x, Min(Displacements(b, x, x)), n)
<1>1. n \in Nat /\ Size(b) = n /\ DOMAIN b = 0..n - 1
  BY SizeIs DEF Hashed
<1>2. PICK ds : ds = Displacements(b, x, x)
  OBVIOUS
<1>3. ds \in SUBSET Nat /\ \A d : d \in ds <=> d \in 0..n - 1 /\ b[Index(x, d, n)] = x
  BY <1>1, <1>2 DEF Displacements
<1>4. x # Nil
  BY TableNilAssumption DEF Keys
<1>5. ASSUME NEW i \in 0..n - 1, b[i] = x
      PROVE  ds # {} /\ Min(ds) <= max /\ i = Index(x, Min(ds), n)
  <2>1. PICK d \in 0..n - 1 : d <= max /\ i = Index(x, d, n)
    BY <1>1, <1>4, <1>5 DEF Hashed, Within, Used
  <2>2. d \in ds
    BY <1>3, <1>5, <2>1
  <2>3. Min(ds) \in ds /\ Min(ds) \in Nat /\ Min(ds) <= d
    BY <1>3, <2>2, LeastOf
  <2>4. n > 0
    BY <1>1
  <2>5. Index(x, Min(ds), n) \in 0..n - 1 /\ b[Index(x, Min(ds), n)] = x
    BY <1>1, <1>3, <2>3, <2>4, IndexFacts
  <2>6. i = Index(x, Min(ds), n)
    BY <1>1, <1>4, <1>5, <2>5 DEF Hashed, Once, Used
  <2>7. max \in Nat
    BY DEF Hashed
  <2> QED  BY <2>1, <2>2, <2>3, <2>6, <2>7
<1>6. ASSUME ds # {} PROVE \E i \in 0..n - 1 : b[i] = x
  <2>1. PICK d : d \in ds
    BY <1>6
  <2>2. d \in 0..n - 1 /\ n > 0 /\ b[Index(x, d, n)] = x
    BY <1>1, <1>3, <2>1
  <2> QED  BY <1>1, <2>2, IndexFacts
<1>7. Reaches(b, x, x, max) <=> ds # {} /\ Min(ds) <= max
  BY <1>2 DEF Reaches
<1> QED
  BY <1>1, <1>2, <1>5, <1>6, <1>7

\* An insertion finds an empty bucket, no further on than there are used ones.
LEMMA EmptyBucket ==
  ASSUME NEW n, NEW max, NEW b, Hashed(b, n, max), NEW x \in Keys,
         Cardinality(Used(b)) < n
  PROVE  \E d \in 0..n - 1, i \in 0..n - 1 :
           /\ Displacements(b, x, Nil) # {} /\ d = Min(Displacements(b, x, Nil))
           /\ d <= Cardinality(Used(b))
           /\ i = Index(x, d, n) /\ b[i] = Nil
<1>1. n \in Nat /\ n > 0 /\ Size(b) = n /\ DOMAIN b = 0..n - 1
  <2>1. n \in Nat /\ Size(b) = n /\ DOMAIN b = 0..n - 1
    BY SizeIs DEF Hashed
  <2>2. Cardinality(Used(b)) \in Nat
    BY <2>1, UsedFinite
  <2> QED  BY <2>1, <2>2
<1>2. PICK ds : ds = Displacements(b, x, Nil)
  OBVIOUS
<1>3. ds \in SUBSET Nat /\ \A d : d \in ds <=> d \in 0..n - 1 /\ b[Index(x, d, n)] = Nil
  BY <1>1, <1>2 DEF Displacements
<1>4. \E i \in 0..n - 1 : b[i] = Nil
  <2>1. Used(b) # 0..n - 1
    BY <1>1, SizeIs DEF Size
  <2> QED  BY <1>1, <2>1 DEF Used
<1>5. ds # {}
  <2>1. PICK i \in 0..n - 1 : b[i] = Nil
    BY <1>4
  <2>2. PICK d \in 0..n - 1 : i = Index(x, d, n)
    BY <1>1, IndexFacts
  <2> QED  BY <1>3, <2>1, <2>2
<1>6. PICK d \in 0..n - 1 : d = Min(ds) /\ d \in ds /\ \A c \in ds : d <= c
  BY <1>3, <1>5, LeastOf
<1>7. d <= Cardinality(Used(b))
  <2> DEFINE f == [c \in 0..d - 1 |-> Index(x, c, n)]
  <2>1. ASSUME NEW c \in 0..d - 1 PROVE c \in 0..n - 1 /\ Index(x, c, n) \in Used(b)
    <3>1. c \in 0..n - 1 /\ c \notin ds
      BY <1>1, <1>6
    <3>2. Index(x, c, n) \in 0..n - 1
      BY <1>1, <3>1, IndexFacts
    <3> QED  BY <1>1, <1>3, <3>1, <3>2 DEF Used
  <2>2. f \in Injection(0..d - 1, Used(b))
    <3>1. f \in [0..d - 1 -> Used(b)]
      BY <2>1
    <3>2. \A c, e \in 0..d - 1 : f[c] = f[e] => c = e
      BY <1>1, <2>1, IndexFacts
    <3> QED  BY <3>1, <3>2 DEF Injection, IsInjective
  <2>3. IsFiniteSet(Used(b))
    BY <1>1, UsedFinite
  <2>4. Cardinality(0..d - 1) <= Cardinality(Used(b))
    BY <2>2, <2>3, FS_Injection
  <2>5. Cardinality(0..d - 1) = d
    <3>1. d \in Nat /\ DOMAIN [c \in 0..d - 1 |-> 0] = 0..d - 1
      OBVIOUS
    <3> QED  BY <3>1, SizeIs DEF Size
  <2> QED  BY <2>4, <2>5
<1>8. Index(x, d, n) \in 0..n - 1 /\ b[Index(x, d, n)] = Nil
  BY <1>1, <1>3, <1>6, IndexFacts
<1> QED
  BY <1>2, <1>5, <1>6, <1>7, <1>8

\* One more bucket of c is used than of b.
OneMore(c, b) ==
  Cardinality(Used(b)) \in Nat /\ Cardinality(Used(c)) = Cardinality(Used(b)) + 1

\* A key that is not there may be put where an insertion puts it.
LEMMA InsertKey ==
  ASSUME NEW n, NEW max, NEW b, Hashed(b, n, max), NEW x \in Keys,
         NEW d \in 0..n - 1, NEW i \in 0..n - 1, i = Index(x, d, n), b[i] = Nil,
         \A j \in 0..n - 1 : b[j] # x, NEW c, c = [b EXCEPT ![i] = x]
  PROVE  Hashed(c, n, Displaced(max, d)) /\ OneMore(c, b)
<1>1. n \in Nat /\ max \in Nat /\ b \in [0..n - 1 -> Keys \cup {Nil}] /\ DOMAIN b = 0..n - 1
  BY DEF Hashed
<1>2. x # Nil
  BY TableNilAssumption DEF Keys
<1>3. /\ c \in [0..n - 1 -> Keys \cup {Nil}] /\ DOMAIN c = 0..n - 1
      /\ \A j \in 0..n - 1 : c[j] = IF j = i THEN x ELSE b[j]
  BY <1>1
<1>4. Used(c) = Used(b) \cup {i} /\ i \notin Used(b)
  BY <1>1, <1>2, <1>3 DEF Used
<1>5. Once(c)
  <2> SUFFICES ASSUME NEW j \in Used(c), NEW k \in Used(c), c[j] = c[k] PROVE j = k
    BY DEF Once
  <2>1. j \in 0..n - 1 /\ k \in 0..n - 1 /\ (j # i => j \in Used(b)) /\ (k # i => k \in Used(b))
    BY <1>3, <1>4 DEF Used
  <2>2. CASE j = i \/ k = i
    BY <1>3, <2>1, <2>2
  <2>3. CASE j # i /\ k # i
    BY <1>3, <2>1, <2>3 DEF Hashed, Once
  <2> QED  BY <2>2, <2>3
<1>6. Displaced(max, d) \in Nat /\ Displaced(max, d) >= max /\ Displaced(max, d) >= d
  BY <1>1 DEF Displaced
<1>7. Within(c, n, Displaced(max, d))
  <2> SUFFICES ASSUME NEW j \in Used(c)
               PROVE  \E e \in 0..n - 1 : e <= Displaced(max, d) /\ j = Index(c[j], e, n)
    BY DEF Within
  <2>1. CASE j = i
    BY <1>3, <1>6, <2>1
  <2>2. CASE j # i
    <3>1. j \in Used(b) /\ c[j] = b[j]
      BY <1>3, <1>4, <2>2 DEF Used
    <3>2. PICK e \in 0..n - 1 : e <= max /\ j = Index(b[j], e, n)
      BY <3>1 DEF Hashed, Within
    <3>3. e <= Displaced(max, d)
      BY <1>1, <1>6, <3>2
    <3> QED  BY <3>1, <3>2, <3>3
  <2> QED  BY <2>1, <2>2
<1>8. OneMore(c, b)
  <2>1. IsFiniteSet(Used(b)) /\ Cardinality(Used(b)) \in Nat
    BY <1>1, UsedFinite
  <2>2. Cardinality(Used(b) \cup {i}) = Cardinality(Used(b)) + 1
    BY <1>4, <2>1, FS_AddElement
  <2> QED  BY <1>4, <2>1, <2>2 DEF OneMore
<1>9. Hashed(c, n, Displaced(max, d))
  BY <1>1, <1>3, <1>5, <1>6, <1>7 DEF Hashed
<1> QED
  BY <1>8, <1>9

\* A removal may leave the displacement as it is: a search does not stop at an
\* empty bucket.
LEMMA RemoveKey ==
  ASSUME NEW n, NEW max, NEW b, Hashed(b, n, max), NEW i \in 0..n - 1, b[i] # Nil,
         NEW c, c = [b EXCEPT ![i] = Nil]
  PROVE  Hashed(c, n, max) /\ OneMore(b, c)
<1>1. n \in Nat /\ max \in Nat /\ b \in [0..n - 1 -> Keys \cup {Nil}] /\ DOMAIN b = 0..n - 1
  BY DEF Hashed
<1>2. /\ c \in [0..n - 1 -> Keys \cup {Nil}] /\ DOMAIN c = 0..n - 1
      /\ \A j \in 0..n - 1 : c[j] = IF j = i THEN Nil ELSE b[j]
  BY <1>1
<1>3. Used(c) = Used(b) \ {i} /\ i \in Used(b)
  BY <1>1, <1>2 DEF Used
<1>4. \A j \in Used(c) : j \in Used(b) /\ c[j] = b[j]
  BY <1>1, <1>2, <1>3 DEF Used
<1>5. Once(c) /\ Within(c, n, max)
  <2>1. Once(b) /\ Within(b, n, max)
    BY DEF Hashed
  <2>2. Once(c)
    BY <1>4, <2>1 DEF Once
  <2>3. Within(c, n, max)
    BY <1>4, <2>1 DEF Within
  <2> QED  BY <2>2, <2>3
<1>6. OneMore(b, c)
  <2>1. IsFiniteSet(Used(c)) /\ Cardinality(Used(c)) \in Nat
    <3>1. n \in Nat /\ DOMAIN c = 0..n - 1
      BY <1>1, <1>2
    <3>2. IsFiniteSet(Used(c)) /\ Cardinality(Used(c)) \in 0..n
      BY <3>1, UsedFinite
    <3> QED  BY <3>2
  <2>2. Used(b) = Used(c) \cup {i} /\ i \notin Used(c)
    BY <1>3
  <2>3. Cardinality(Used(c) \cup {i}) = Cardinality(Used(c)) + 1
    BY <2>1, <2>2, FS_AddElement
  <2> QED  BY <2>1, <2>2, <2>3 DEF OneMore
<1>7. Hashed(c, n, max)
  BY <1>1, <1>2, <1>5 DEF Hashed
<1> QED
  BY <1>6, <1>7

\* An array without keys
LEMMA NoKeys ==
  ASSUME NEW n \in Nat
  PROVE  /\ Hashed([i \in 0..n - 1 |-> Nil], n, 0)
         /\ Cardinality(Used([i \in 0..n - 1 |-> Nil])) = 0
<1> DEFINE c == [i \in 0..n - 1 |-> Nil]
<1>1. Used(c) = {}
  BY DEF Used
<1>2. Cardinality(Used(c)) = 0
  BY <1>1, FS_EmptySet
<1>3. c \in [0..n - 1 -> Keys \cup {Nil}]
  OBVIOUS
<1>4. Hashed(c, n, 0)
  BY <1>1, <1>3 DEF Hashed, Once, Within
<1> QED
  BY <1>2, <1>4

(***************************************************************************)
(* The entries: what weak_entry_t holds, and where.                        *)
(***************************************************************************)

Arrays(n) == [0..n - 1 -> Variables \cup {Nil}]
EntryShapes ==
  [referent : Referents \cup {Nil}, refs : UNION {Arrays(n) : n \in Nat},
   out : BOOLEAN, num : Nat, max : Nat]

RefsOf(e) == {l \in Variables : \E j \in DOMAIN e.refs : e.refs[j] = l}

EntryOK(e) ==
  /\ e \in EntryShapes
  /\ ~e.out => e.refs \in Arrays(InlineCount) /\ Once(e.refs)
  /\ e.out => /\ Hashed(e.refs, Size(e.refs), e.max)
              /\ e.num = Cardinality(Used(e.refs))
              /\ e.num < Size(e.refs) /\ e.max + 1 < Size(e.refs)

LEMMA ArrayFacts ==
  ASSUME NEW e \in EntryShapes
  PROVE  /\ Size(e.refs) \in Nat /\ e.refs \in Arrays(Size(e.refs))
         /\ DOMAIN e.refs = 0..Size(e.refs) - 1
         /\ e.refs \in [0..Size(e.refs) - 1 -> Keys \cup {Nil}]
<1>1. PICK n \in Nat : e.refs \in Arrays(n)
  BY DEF EntryShapes
<1>2. Size(e.refs) = n
  BY <1>1, SizeIs DEF Arrays
<1>3. e.refs \in [0..n - 1 -> Keys \cup {Nil}]
  BY <1>1 DEF Arrays, Keys
<1> QED
  BY <1>1, <1>2, <1>3 DEF Arrays

\* remove_referrer finds the referrers of an entry.
LEMMA RefersIs ==
  ASSUME NEW e, EntryOK(e), NEW l \in Variables
  PROVE  Refers(e, l) <=> l \in RefsOf(e)
<1>1. e \in EntryShapes /\ DOMAIN e.refs = 0..Size(e.refs) - 1
  BY ArrayFacts DEF EntryOK
<1>2. CASE e.out
  <2>1. Hashed(e.refs, Size(e.refs), e.max) /\ l \in Keys
    BY <1>2 DEF EntryOK, Keys
  <2>2. Reaches(e.refs, l, l, e.max) <=> \E i \in 0..Size(e.refs) - 1 : e.refs[i] = l
    BY <2>1, Found
  <2> QED  BY <1>1, <1>2, <2>2 DEF Refers, RefsOf
<1>3. CASE ~e.out
  BY <1>3 DEF Refers, RefsOf
<1> QED
  BY <1>2, <1>3

LEMMA RefsOfUsed ==
  ASSUME NEW e \in EntryShapes
  PROVE  RefsOf(e) = {e.refs[j] : j \in Used(e.refs)}
<1>1. \A j \in DOMAIN e.refs : e.refs[j] \in Variables \cup {Nil}
  BY ArrayFacts DEF Arrays
<1>2. Nil \notin Variables
  BY TableNilAssumption
<1> QED
  BY <1>1, <1>2 DEF RefsOf, Used

\* What 0 has and each number passes on, all have.
LEMMA Climb ==
  ASSUME NEW N \in Nat, NEW G, 0 \in G, \A k \in 0..N - 1 : k \in G => k + 1 \in G
  PROVE  \A k \in 0..N : k \in G
<1> DEFINE B == {k \in 0..N : k \notin G}
<1>1. SUFFICES ASSUME B # {} PROVE FALSE
  OBVIOUS
<1>2. B \in SUBSET Nat
  OBVIOUS
<1>3. PICK m : m \in B /\ \A x \in B : m <= x
  BY <1>1, <1>2, LeastOf
<1> HIDE DEF B
<1>4. m \in 0..N /\ m \notin G /\ m # 0
  BY <1>3 DEF B
<1>5. m - 1 \in 0..N - 1 /\ m - 1 \in 0..N
  BY <1>4
<1>6. m - 1 \in G
  <2>1. m - 1 \notin B
    BY <1>3, <1>4, <1>5
  <2> QED  BY <2>1, <1>5 DEF B
<1>7. (m - 1) + 1 = m
  BY <1>4
<1> QED
  BY <1>4, <1>5, <1>6, <1>7

\* A recursion over 0..N has a value at every number.
IsStep(step, S, N) == step \in [S \X (1..N) -> S]

LEMMA Recursion ==
  ASSUME NEW S, NEW base \in S, NEW N \in Nat, NEW step, IsStep(step, S, N)
  PROVE  \E f \in [0..N -> S] : f[0] = base /\ \A i \in 1..N : f[i] = step[<<f[i - 1], i>>]
<1> DEFINE Solves(f, k) == f[0] = base /\ \A i \in 1..k : f[i] = step[<<f[i - 1], i>>]
           G == {k \in 0..N : \E f \in [0..k -> S] : Solves(f, k)}
<1>1. 0 \in G
  <2>1. [i \in 0..0 |-> base] \in [0..0 -> S] /\ Solves([i \in 0..0 |-> base], 0)
    OBVIOUS
  <2>2. 0 \in 0..N
    OBVIOUS
  <2>3. \E f \in [0..0 -> S] : Solves(f, 0)
    BY <2>1
  <2> HIDE DEF Solves
  <2> QED  BY <2>2, <2>3
<1>2. ASSUME NEW k \in 0..N - 1, k \in G PROVE k + 1 \in G
  <2>1. PICK f \in [0..k -> S] : Solves(f, k)
    BY <1>2
  <2> DEFINE g == [i \in 0..k + 1 |-> IF i = k + 1 THEN step[<<f[k], k + 1>>] ELSE f[i]]
  <2>2. k \in 0..k /\ k + 1 \in 1..N /\ <<f[k], k + 1>> \in S \X (1..N)
    OBVIOUS
  <2>3. step[<<f[k], k + 1>>] \in S
    BY <2>2 DEF IsStep
  <2>4. g \in [0..k + 1 -> S]
    BY <2>3
  <2>5. \A i \in 0..k : g[i] = f[i]
    OBVIOUS
  <2>6. g[k + 1] = step[<<f[k], k + 1>>]
    OBVIOUS
  <2> HIDE DEF g
  <2>7. \A i \in 1..k + 1 : g[i] = step[<<g[i - 1], i>>]
    <3>1. ASSUME NEW i \in 1..k PROVE g[i] = step[<<g[i - 1], i>>]
      <4>1. i \in 0..k /\ i - 1 \in 0..k
        OBVIOUS
      <4>2. g[i] = f[i] /\ g[i - 1] = f[i - 1]
        BY <4>1, <2>5
      <4> QED  BY <4>2, <2>1
    <3>2. g[k + 1] = step[<<g[(k + 1) - 1], k + 1>>]
      <4>1. (k + 1) - 1 = k
        OBVIOUS
      <4> QED  BY <4>1, <2>2, <2>5, <2>6
    <3>3. \A i \in 1..k + 1 : i = k + 1 \/ i \in 1..k
      OBVIOUS
    <3> QED  BY <3>1, <3>2, <3>3
  <2>8. g[0] = base
    BY <2>1, <2>5
  <2>9. Solves(g, k + 1) /\ k + 1 \in 0..N
    BY <2>7, <2>8
  <2> QED  BY <2>4, <2>9
<1> HIDE DEF G
<1>3. N \in 0..N /\ \A k \in 0..N : k \in G
  BY <1>1, <1>2, Climb
<1> QED
  BY <1>3 DEF G

(***************************************************************************)
(* Insertion of a key, and rehashing into another array.                   *)
(***************************************************************************)

KeysOf(b) == {b[i] : i \in Used(b)}

\* A key that is not there goes into the first empty bucket on its way.
LEMMA InsertNew ==
  ASSUME NEW n, NEW max, NEW b, Hashed(b, n, max), NEW x \in Keys, x \notin KeysOf(b),
         Cardinality(Used(b)) < n
  PROVE  \E d \in 0..n - 1, i \in 0..n - 1, c \in [0..n - 1 -> Keys \cup {Nil}] :
           /\ Displacements(b, x, Nil) # {} /\ d = Min(Displacements(b, x, Nil))
           /\ d <= Cardinality(Used(b))
           /\ i = Index(x, d, n) /\ b[i] = Nil /\ c = [b EXCEPT ![i] = x]
           /\ Hashed(c, n, Displaced(max, d)) /\ OneMore(c, b)
           /\ KeysOf(c) = KeysOf(b) \cup {x}
<1>1. PICK d \in 0..n - 1, i \in 0..n - 1 :
           /\ Displacements(b, x, Nil) # {} /\ d = Min(Displacements(b, x, Nil))
           /\ d <= Cardinality(Used(b))
           /\ i = Index(x, d, n) /\ b[i] = Nil
  BY EmptyBucket
<1>2. n \in Nat /\ DOMAIN b = 0..n - 1
  BY DEF Hashed
<1>3. x # Nil
  BY TableNilAssumption DEF Keys
<1>4. \A j \in 0..n - 1 : b[j] # x
  BY <1>2, <1>3 DEF KeysOf, Used
<1>5. PICK c : c = [b EXCEPT ![i] = x]
  OBVIOUS
<1>6. Hashed(c, n, Displaced(max, d)) /\ OneMore(c, b)
  BY <1>1, <1>4, <1>5, InsertKey
<1>7. DOMAIN c = DOMAIN b /\ i \in DOMAIN b
      /\ \A j \in DOMAIN b : c[j] = IF j = i THEN x ELSE b[j]
  BY <1>2, <1>5
<1>8. Used(c) = Used(b) \cup {i} /\ i \notin Used(b)
  BY <1>1, <1>3, <1>7 DEF Used
<1>9. KeysOf(c) = KeysOf(b) \cup {x}
  BY <1>7, <1>8 DEF KeysOf, Used
<1>10. c \in [0..n - 1 -> Keys \cup {Nil}]
  BY <1>6 DEF Hashed
<1> QED
  BY <1>1, <1>5, <1>6, <1>9, <1>10

\* Rehashing: the keys of the first k buckets of b were inserted into c.

Before(b, k) == {j \in Used(b) : j < k}

MovedTo(b, k, c, m, max) ==
  /\ Hashed(c, m, max)
  /\ KeysOf(c) = {b[j] : j \in Before(b, k)}
  /\ Cardinality(Used(c)) = Cardinality(Before(b, k))
  /\ max = 0 \/ max < Cardinality(Used(c))

\* The new array is empty.
LEMMA NothingMoved ==
  ASSUME NEW n \in Nat, NEW b \in [0..n - 1 -> Keys \cup {Nil}], NEW m \in Nat
  PROVE  MovedTo(b, 0, [i \in 0..m - 1 |-> Nil], m, 0)
<1> DEFINE c == [i \in 0..m - 1 |-> Nil]
<1>1. Before(b, 0) = {}
  BY DEF Before, Used
<1>2. Hashed(c, m, 0) /\ Cardinality(Used(c)) = 0
  BY NoKeys
<1>3. KeysOf(c) = {}
  BY DEF KeysOf, Used
<1>4. Cardinality(Before(b, 0)) = 0
  BY <1>1, FS_EmptySet
<1> HIDE DEF c
<1>5. MovedTo(b, 0, c, m, 0)
  BY <1>1, <1>2, <1>3, <1>4 DEF MovedTo
<1> QED
  BY <1>5 DEF c

\* One more bucket is counted if it is used.
LEMMA BeforeFacts ==
  ASSUME NEW n \in Nat, NEW b, DOMAIN b = 0..n - 1, NEW k \in 0..n - 1
  PROVE  /\ b[k] = Nil => Before(b, k + 1) = Before(b, k)
         /\ b[k] # Nil => /\ Before(b, k + 1) = Before(b, k) \cup {k}
                          /\ Cardinality(Before(b, k + 1)) = Cardinality(Before(b, k)) + 1
                          /\ Cardinality(Before(b, k)) < Cardinality(Used(b))
<1>1. k \in DOMAIN b /\ \A j \in DOMAIN b : j < k + 1 <=> j < k \/ j = k
  OBVIOUS
<1>2. IsFiniteSet(Used(b)) /\ Cardinality(Used(b)) \in Nat
  BY UsedFinite
<1>3. CASE b[k] = Nil
  BY <1>1, <1>3 DEF Before, Used
<1>4. CASE b[k] # Nil
  <2>1. Before(b, k + 1) = Before(b, k) \cup {k} /\ k \notin Before(b, k)
    BY <1>1, <1>4 DEF Before, Used
  <2>2. Before(b, k + 1) \subseteq Used(b) /\ Before(b, k) \subseteq Used(b)
    BY DEF Before
  <2>3. IsFiniteSet(Before(b, k)) /\ IsFiniteSet(Before(b, k + 1))
        /\ Cardinality(Before(b, k + 1)) <= Cardinality(Used(b))
    BY <1>2, <2>2, FS_Subset
  <2>4. Cardinality(Before(b, k + 1)) = Cardinality(Before(b, k)) + 1
    BY <2>1, <2>3, FS_AddElement
  <2>5. Cardinality(Before(b, k)) \in Nat
    BY <2>3, FS_CardinalityType
  <2> QED  BY <1>2, <1>4, <2>1, <2>3, <2>4, <2>5
<1> QED
  BY <1>3, <1>4

\* An empty bucket is skipped.
LEMMA MoveNone ==
  ASSUME NEW n \in Nat, NEW b \in [0..n - 1 -> Keys \cup {Nil}], NEW k \in 0..n - 1,
         NEW c, NEW m, NEW max, MovedTo(b, k, c, m, max), b[k] = Nil
  PROVE  MovedTo(b, k + 1, c, m, max)
<1>1. Before(b, k + 1) = Before(b, k)
  BY BeforeFacts
<1> QED
  BY <1>1 DEF MovedTo

\* There are as many buckets as keys.
Fits(b, m) == Cardinality(Used(b)) <= m

\* The next key goes into the first empty bucket of c.
MovesOn(b, k, c, m, max) ==
  \E d \in 0..m - 1, i \in 0..m - 1, e \in [0..m - 1 -> Keys \cup {Nil}] :
    /\ Displacements(c, b[k], Nil) # {} /\ d = Min(Displacements(c, b[k], Nil))
    /\ i = Index(b[k], d, m) /\ c[i] = Nil /\ e = [c EXCEPT ![i] = b[k]]
    /\ MovedTo(b, k + 1, e, m, Displaced(max, d))

\* The key of a used bucket is new to the array it is moved to.
LEMMA MoveKey ==
  ASSUME NEW n \in Nat, NEW b \in [0..n - 1 -> Keys \cup {Nil}], Once(b), NEW k \in 0..n - 1,
         NEW c, NEW m, NEW max, MovedTo(b, k, c, m, max), b[k] # Nil, Fits(b, m)
  PROVE  MovesOn(b, k, c, m, max)
<1>1. /\ Before(b, k + 1) = Before(b, k) \cup {k}
      /\ Cardinality(Before(b, k + 1)) = Cardinality(Before(b, k)) + 1
      /\ Cardinality(Before(b, k)) < Cardinality(Used(b))
  BY BeforeFacts
<1>2. Hashed(c, m, max) /\ m \in Nat /\ max \in Nat /\ DOMAIN c = 0..m - 1
  BY DEF MovedTo, Hashed
<1>3. PICK x \in Keys : x = b[k]
  OBVIOUS
<1>4. Cardinality(Used(c)) \in Nat /\ Cardinality(Used(b)) \in Nat
  <2>1. DOMAIN b = 0..n - 1
    OBVIOUS
  <2>2. Cardinality(Used(c)) \in 0..m
    BY <1>2, UsedFinite
  <2>3. Cardinality(Used(b)) \in 0..n
    BY <2>1, UsedFinite
  <2> QED  BY <2>2, <2>3, <1>2
<1>5. Cardinality(Used(c)) < m
  BY <1>1, <1>2, <1>4 DEF MovedTo, Fits
<1>6. x \notin KeysOf(c)
  <2> SUFFICES ASSUME x \in KeysOf(c) PROVE FALSE
    OBVIOUS
  <2>1. PICK a \in Before(b, k) : b[a] = b[k]
    BY <1>3 DEF MovedTo
  <2>2. a \in Used(b) /\ k \in Used(b) /\ a < k /\ a \in 0..n - 1
    BY DEF Before, Used
  <2> QED  BY <2>1, <2>2 DEF Once
<1>7. PICK d \in 0..m - 1, i \in 0..m - 1, e \in [0..m - 1 -> Keys \cup {Nil}] :
           /\ Displacements(c, x, Nil) # {} /\ d = Min(Displacements(c, x, Nil))
           /\ d <= Cardinality(Used(c))
           /\ i = Index(x, d, m) /\ c[i] = Nil /\ e = [c EXCEPT ![i] = x]
           /\ Hashed(e, m, Displaced(max, d)) /\ OneMore(e, c)
           /\ KeysOf(e) = KeysOf(c) \cup {x}
  <2>1. Hashed(c, m, max)
    BY <1>2
  <2> QED  BY ONLY <1>5, <1>6, <2>1, InsertNew
<1>8. KeysOf(e) = {b[j] : j \in Before(b, k + 1)}
  <2>1. KeysOf(e) = {b[j] : j \in Before(b, k)} \cup {b[k]}
    BY <1>3, <1>7 DEF MovedTo
  <2> QED  BY <1>1, <2>1
<1>9. Displaced(max, d) = 0 \/ Displaced(max, d) < Cardinality(Used(e))
  BY <1>2, <1>4, <1>7 DEF MovedTo, Displaced, OneMore
<1>10. Cardinality(Used(e)) = Cardinality(Before(b, k + 1))
  BY <1>1, <1>7 DEF MovedTo, OneMore
<1>11. MovedTo(b, k + 1, e, m, Displaced(max, d))
  BY <1>7, <1>8, <1>9, <1>10 DEF MovedTo
<1> QED
  BY <1>3, <1>7, <1>11 DEF MovesOn

\* Behind the last bucket all keys were moved.
LEMMA AllMoved ==
  ASSUME NEW n \in Nat, NEW b \in [0..n - 1 -> Keys \cup {Nil}],
         NEW c, NEW m, NEW max, MovedTo(b, n, c, m, max)
  PROVE  /\ Hashed(c, m, max) /\ KeysOf(c) = KeysOf(b)
         /\ Cardinality(Used(c)) = Cardinality(Used(b))
         /\ max = 0 \/ max < Cardinality(Used(b))
<1>1. Before(b, n) = Used(b)
  BY DEF Before, Used
<1> QED
  BY <1>1 DEF MovedTo, KeysOf

(***************************************************************************)
(* The functions on an entry: append_referrer, grow_refs_and_insert,       *)
(* remove_referrer.                                                        *)
(***************************************************************************)

\* The second half of append_referrer, as an update of the entry's fields
LEMMA InsertReferrerIs ==
  ASSUME NEW e \in EntryShapes, NEW l \in Variables
  PROVE  /\ InsertReferrer(e, l) \in EntryShapes
         /\ Displacements(e.refs, l, Nil) # {} =>
              LET f == InsertReferrer(e, l)
                  d == Min(Displacements(e.refs, l, Nil))
              IN /\ f.referent = e.referent /\ f.out = e.out
                 /\ f.refs = [e.refs EXCEPT ![Index(l, d, Size(e.refs))] = l]
                 /\ f.num = e.num + 1 /\ f.max = Displaced(e.max, d)
<1> DEFINE ds == Displacements(e.refs, l, Nil)
           i0 == Index(l, Min(ds), Size(e.refs))
<1>1. PICK n \in Nat : n = Size(e.refs) /\ e.refs \in Arrays(n)
  BY ArrayFacts
<1>2. CASE ds = {}
  BY <1>2 DEF InsertReferrer
<1>3. CASE ds # {}
  <2> DEFINE r == [e.refs EXCEPT ![i0] = l]
             f == [e EXCEPT !.refs = r, !.num = e.num + 1, !.max = Displaced(e.max, Min(ds))]
  <2>1. InsertReferrer(e, l) = f
    BY <1>3 DEF InsertReferrer
  <2>2. Min(ds) \in Nat
    <3>1. ds \in SUBSET Nat
      BY <1>1 DEF Displacements
    <3> QED  BY <1>3, <3>1, LeastOf
  <2> HIDE DEF ds, i0
  <2>3. r \in Arrays(n)
    BY <1>1 DEF Arrays
  <2> HIDE DEF r
  <2>4. e.num + 1 \in Nat /\ Displaced(e.max, Min(ds)) \in Nat
    BY <2>2 DEF EntryShapes, Displaced
  <2>5. f \in EntryShapes
    BY <2>3, <2>4 DEF EntryShapes
  <2>6. /\ f.referent = e.referent /\ f.out = e.out /\ f.refs = r
        /\ f.num = e.num + 1 /\ f.max = Displaced(e.max, Min(ds))
    BY DEF EntryShapes
  <2> HIDE DEF f
  <2> QED  BY <1>3, <2>1, <2>5, <2>6 DEF r, i0, ds
<1> QED
  BY <1>2, <1>3 DEF ds

\* The referrers are the keys of the hash set.
LEMMA RefsAreKeys ==
  ASSUME NEW e \in EntryShapes
  PROVE  RefsOf(e) = KeysOf(e.refs)
BY RefsOfUsed DEF KeysOf

\* The rest of append_referrer, when there is room
LEMMA Inserted ==
  ASSUME NEW e \in EntryShapes, NEW n \in Nat, n = Size(e.refs), Hashed(e.refs, n, e.max),
         e.num = Cardinality(Used(e.refs)), e.num + 1 < n, e.max + 1 < n, e.out,
         NEW l \in Variables, l \notin RefsOf(e)
  PROVE  /\ EntryOK(InsertReferrer(e, l))
         /\ InsertReferrer(e, l).referent = e.referent
         /\ RefsOf(InsertReferrer(e, l)) = RefsOf(e) \cup {l}
<1>1. e.num \in Nat /\ e.max \in Nat /\ RefsOf(e) = KeysOf(e.refs) /\ l \in Keys
  BY RefsAreKeys DEF EntryShapes, Keys
<1>2. Cardinality(Used(e.refs)) < n /\ l \notin KeysOf(e.refs)
  BY <1>1
<1>3. PICK d \in 0..n - 1, i \in 0..n - 1, c \in [0..n - 1 -> Keys \cup {Nil}] :
           /\ Displacements(e.refs, l, Nil) # {} /\ d = Min(Displacements(e.refs, l, Nil))
           /\ d <= Cardinality(Used(e.refs))
           /\ i = Index(l, d, n) /\ e.refs[i] = Nil /\ c = [e.refs EXCEPT ![i] = l]
           /\ Hashed(c, n, Displaced(e.max, d)) /\ OneMore(c, e.refs)
           /\ KeysOf(c) = KeysOf(e.refs) \cup {l}
  BY <1>1, <1>2, InsertNew
<1> DEFINE f == InsertReferrer(e, l)
<1>4. /\ f \in EntryShapes /\ f.referent = e.referent /\ f.out = e.out /\ f.refs = c
      /\ f.num = e.num + 1 /\ f.max = Displaced(e.max, d)
  <2>1. /\ Displacements(e.refs, l, Nil) # {} /\ Min(Displacements(e.refs, l, Nil)) = d
        /\ c = [e.refs EXCEPT ![Index(l, Min(Displacements(e.refs, l, Nil)), Size(e.refs))] = l]
    BY <1>3
  <2>2. /\ f \in EntryShapes /\ f.referent = e.referent /\ f.out = e.out
        /\ f.refs = [e.refs EXCEPT ![Index(l, Min(Displacements(e.refs, l, Nil)),
                                             Size(e.refs))] = l]
        /\ f.num = e.num + 1 /\ f.max = Displaced(e.max, Min(Displacements(e.refs, l, Nil)))
    BY <2>1, InsertReferrerIs
  <2> QED  BY <2>1, <2>2
<1> HIDE DEF f
<1>5. Size(f.refs) = n
  BY <1>4, SizeIs
<1>6. f.max + 1 < n /\ f.num < n /\ f.num = Cardinality(Used(f.refs))
  BY <1>1, <1>3, <1>4 DEF Displaced, OneMore
<1>7. EntryOK(f)
  BY <1>3, <1>4, <1>5, <1>6 DEF EntryOK
<1>8. RefsOf(f) = RefsOf(e) \cup {l}
  BY <1>1, <1>3, <1>4, RefsAreKeys
<1> QED
  BY <1>4, <1>7, <1>8 DEF f

\* grow_refs_and_insert keeps the referrers and adds one.
LEMMA GrewAndInserted ==
  ASSUME NEW e \in EntryShapes, NEW n \in Nat, n = Size(e.refs), n >= 2, Once(e.refs), e.out,
         NEW l \in Variables, l \notin RefsOf(e)
  PROVE  LET g == GrowAndInsert(e, l)
         IN EntryOK(g) /\ g.referent = e.referent /\ RefsOf(g) = RefsOf(e) \cup {l}
<1> DEFINE m == IF Size(e.refs) = 0 THEN FirstRefs ELSE 2 * Size(e.refs)
           base == [e EXCEPT !.refs = Buckets(m, Nil), !.num = 0, !.max = 0]
           P(f) == f = [i \in 0 .. Size(e.refs) |->
                          IF i = 0 THEN base
                          ELSE IF e.refs[i - 1] = Nil THEN f[i - 1]
                          ELSE InsertReferrer(f[i - 1], e.refs[i - 1])]
           g == CHOOSE f : P(f)
           step == [p \in EntryShapes \X (1..n) |->
                      IF e.refs[p[2] - 1] = Nil THEN p[1]
                      ELSE InsertReferrer(p[1], e.refs[p[2] - 1])]
<1>1. GrowAndInsert(e, l) = InsertReferrer(g[Size(e.refs)], l)
  BY DEF GrowAndInsert
<1>2. /\ e.refs \in Arrays(n) /\ e.refs \in [0..n - 1 -> Keys \cup {Nil}]
      /\ m = 2 * n /\ m \in Nat
  BY ArrayFacts
<1> HIDE DEF m
<1>3. /\ base \in EntryShapes /\ base.referent = e.referent /\ base.out
      /\ base.num = 0 /\ base.max = 0 /\ base.refs = [i \in 0..m - 1 |-> Nil]
  <2>1. PICK r \in Arrays(m) : r = Buckets(m, Nil) /\ r = [i \in 0..m - 1 |-> Nil]
    BY DEF Buckets, Arrays
  <2>2. base = [e EXCEPT !.refs = r, !.num = 0, !.max = 0]
    BY <2>1
  <2> HIDE DEF base
  <2> QED  BY <1>2, <2>1, <2>2 DEF EntryShapes
<1> HIDE DEF base
<1>4. IsStep(step, EntryShapes, n)
  <2> SUFFICES ASSUME NEW s \in EntryShapes, NEW i \in 1..n
               PROVE  (IF e.refs[i - 1] = Nil THEN s
                       ELSE InsertReferrer(s, e.refs[i - 1])) \in EntryShapes
    BY DEF IsStep
  <2>1. e.refs[i - 1] \in Variables \cup {Nil}
    BY <1>2 DEF Arrays
  <2>2. CASE e.refs[i - 1] = Nil
    BY <2>2
  <2>3. CASE e.refs[i - 1] # Nil
    BY <2>1, <2>3, InsertReferrerIs
  <2> QED  BY <2>2, <2>3
<1>5. PICK f \in [0..n -> EntryShapes] : f[0] = base
             /\ \A i \in 1..n : f[i] = step[<<f[i - 1], i>>]
  <2> HIDE DEF step
  <2>1. base \in EntryShapes
    BY <1>3
  <2> QED  BY <1>4, <2>1, Recursion
<1>6. \A i \in 1..n : f[i] = IF e.refs[i - 1] = Nil THEN f[i - 1]
                             ELSE InsertReferrer(f[i - 1], e.refs[i - 1])
  <2> SUFFICES ASSUME NEW i \in 1..n
               PROVE  f[i] = IF e.refs[i - 1] = Nil THEN f[i - 1]
                             ELSE InsertReferrer(f[i - 1], e.refs[i - 1])
    OBVIOUS
  <2>1. <<f[i - 1], i>> \in EntryShapes \X (1..n)
    OBVIOUS
  <2> QED  BY <1>5, <2>1
<1> HIDE DEF step
<1>7. P(f)
  <2>1. \A i \in 0..n : f[i] = IF i = 0 THEN base ELSE IF e.refs[i - 1] = Nil THEN f[i - 1]
                               ELSE InsertReferrer(f[i - 1], e.refs[i - 1])
    BY <1>5, <1>6
  <2> QED  BY <2>1
<1>8. P(g)
  <2>1. \E h : P(h)
    BY <1>7
  <2> HIDE DEF P
  <2> QED  BY <2>1
<1>9. /\ g[0] = base
      /\ \A i \in 1..n : g[i] = IF e.refs[i - 1] = Nil THEN g[i - 1]
                                ELSE InsertReferrer(g[i - 1], e.refs[i - 1])
  <2> HIDE DEF g
  <2>1. g = [i \in 0..n |-> IF i = 0 THEN base ELSE IF e.refs[i - 1] = Nil THEN g[i - 1]
                            ELSE InsertReferrer(g[i - 1], e.refs[i - 1])]
    BY <1>8
  <2> HIDE DEF P
  <2>2. \A i \in 0..n : g[i] = IF i = 0 THEN base ELSE IF e.refs[i - 1] = Nil THEN g[i - 1]
                               ELSE InsertReferrer(g[i - 1], e.refs[i - 1])
    BY <2>1
  <2> QED  BY <2>2
<1> HIDE DEF g, P
<1> DEFINE J(k) == /\ g[k] \in EntryShapes /\ g[k].referent = e.referent /\ g[k].out
                   /\ Size(g[k].refs) = m
                   /\ MovedTo(e.refs, k, g[k].refs, m, g[k].max)
                   /\ g[k].num = Cardinality(Used(g[k].refs))
           G == {k \in 0..n : J(k)}
<1>10. 0 \in G
  <2>1. Size(base.refs) = m
    BY <1>2, <1>3, SizeIs
  <2>2. MovedTo(e.refs, 0, base.refs, m, base.max)
    <3>1. MovedTo(e.refs, 0, [i \in 0..m - 1 |-> Nil], m, 0)
      BY <1>2, NothingMoved
    <3> QED  BY <1>3, <3>1
  <2>3. Cardinality(Used(base.refs)) = 0
    BY <1>2, <1>3, NoKeys
  <2> QED  BY <1>3, <1>9, <2>1, <2>2, <2>3
<1>11. ASSUME NEW k \in 0..n - 1, k \in G PROVE k + 1 \in G
  <2> DEFINE s == g[k]
  <2>1. /\ s \in EntryShapes /\ s.referent = e.referent /\ s.out /\ Size(s.refs) = m
        /\ MovedTo(e.refs, k, s.refs, m, s.max) /\ s.num = Cardinality(Used(s.refs))
    BY <1>11
  <2>2. k + 1 \in 1..n /\ k + 1 \in 0..n /\ (k + 1) - 1 = k
    OBVIOUS
  <2>3. g[k + 1] = IF e.refs[k] = Nil THEN s ELSE InsertReferrer(s, e.refs[k])
    BY <1>9, <2>2
  <2> HIDE DEF s
  <2>4. CASE e.refs[k] = Nil
    <3>1. MovedTo(e.refs, k + 1, s.refs, m, s.max)
      BY <1>2, <2>1, <2>4, MoveNone
    <3> QED  BY <2>1, <2>2, <2>3, <2>4, <3>1
  <2>5. CASE e.refs[k] # Nil
    <3>1. Fits(e.refs, m)
      <4>1. DOMAIN e.refs = 0..n - 1
        BY <1>2
      <4>2. Cardinality(Used(e.refs)) \in 0..n
        BY <4>1, UsedFinite
      <4> QED  BY <1>2, <4>2 DEF Fits
    <3>2. PICK d \in 0..m - 1, i \in 0..m - 1, c \in [0..m - 1 -> Keys \cup {Nil}] :
             /\ Displacements(s.refs, e.refs[k], Nil) # {}
             /\ d = Min(Displacements(s.refs, e.refs[k], Nil))
             /\ i = Index(e.refs[k], d, m) /\ s.refs[i] = Nil
             /\ c = [s.refs EXCEPT ![i] = e.refs[k]]
             /\ MovedTo(e.refs, k + 1, c, m, Displaced(s.max, d))
      <4>1. e.refs \in [0..n - 1 -> Keys \cup {Nil}]
        BY <1>2
      <4>2. MovedTo(e.refs, k, s.refs, m, s.max)
        BY <2>1
      <4>3. MovesOn(e.refs, k, s.refs, m, s.max)
        BY <2>5, <3>1, <4>1, <4>2, MoveKey
      <4> QED  BY <4>3 DEF MovesOn
    <3>3. e.refs[k] \in Variables
      BY <1>2, <2>5 DEF Arrays
    <3> DEFINE t == InsertReferrer(s, e.refs[k])
    <3>4. /\ t \in EntryShapes /\ t.referent = s.referent /\ t.out = s.out
          /\ t.refs = c /\ t.max = Displaced(s.max, d) /\ t.num = s.num + 1
      <4>1. PICK x \in Variables : x = e.refs[k]
        BY <3>3
      <4>2. /\ InsertReferrer(s, x) \in EntryShapes
            /\ LET f1 == InsertReferrer(s, x)
                   d1 == Min(Displacements(s.refs, x, Nil))
               IN /\ f1.referent = s.referent /\ f1.out = s.out
                  /\ f1.refs = [s.refs EXCEPT ![Index(x, d1, Size(s.refs))] = x]
                  /\ f1.num = s.num + 1 /\ f1.max = Displaced(s.max, d1)
        <5>1. s \in EntryShapes /\ Displacements(s.refs, x, Nil) # {}
          BY <2>1, <3>2, <4>1
        <5> QED  BY <5>1, InsertReferrerIs
      <4> QED  BY <2>1, <3>2, <4>1, <4>2
    <3> HIDE DEF t
    <3>5. Size(t.refs) = m
      BY <1>2, <3>2, <3>4, SizeIs
    <3>6. t.num = Cardinality(Used(t.refs))
      <4>1. Cardinality(Before(e.refs, k + 1)) = Cardinality(Before(e.refs, k)) + 1
        BY <1>2, <2>5, BeforeFacts
      <4> QED  BY <2>1, <3>2, <3>4, <4>1 DEF MovedTo
    <3>7. g[k + 1] = t
      BY <2>3, <2>5 DEF t
    <3> QED  BY <2>1, <2>2, <3>2, <3>4, <3>5, <3>6, <3>7
  <2> QED  BY <2>4, <2>5
<1> HIDE DEF G
<1>12. n \in 0..n /\ \A k \in 0..n : k \in G
  <2>1. n \in 0..n
    OBVIOUS
  <2>2. \A k \in 0..n : k \in G
    BY <1>10, <1>11, Climb
  <2> QED  BY <2>1, <2>2
<1> DEFINE s == g[n]
<1>13. /\ s \in EntryShapes /\ s.referent = e.referent /\ s.out /\ Size(s.refs) = m
       /\ MovedTo(e.refs, n, s.refs, m, s.max) /\ s.num = Cardinality(Used(s.refs))
  BY <1>12 DEF G
<1> HIDE DEF s, J
<1>14. /\ Hashed(s.refs, m, s.max) /\ KeysOf(s.refs) = KeysOf(e.refs)
       /\ Cardinality(Used(s.refs)) = Cardinality(Used(e.refs))
       /\ s.max = 0 \/ s.max < Cardinality(Used(e.refs))
  BY <1>2, <1>13, AllMoved
<1>15. s.num + 1 < m /\ s.max + 1 < m
  <2>1. DOMAIN e.refs = 0..n - 1
    BY <1>2
  <2>2. Cardinality(Used(e.refs)) \in 0..n
    BY <2>1, UsedFinite
  <2>3. s.max \in Nat
    BY <1>13 DEF EntryShapes
  <2> QED  BY <1>2, <1>13, <1>14, <2>2, <2>3
<1>16. RefsOf(s) = RefsOf(e)
  BY <1>13, <1>14, RefsAreKeys
<1>17. /\ EntryOK(InsertReferrer(s, l)) /\ InsertReferrer(s, l).referent = s.referent
       /\ RefsOf(InsertReferrer(s, l)) = RefsOf(s) \cup {l}
  BY <1>2, <1>13, <1>14, <1>15, <1>16, Inserted
<1> QED
  BY <1>1, <1>13, <1>16, <1>17 DEF s

\* The referrers in the entry
LEMMA InlineSize ==
  ASSUME NEW r \in Arrays(InlineCount)
  PROVE  DOMAIN r = 0..InlineCount - 1 /\ Size(r) = InlineCount /\ InlineCount \in Nat
         /\ InlineCount >= 2
<1>1. InlineCount \in Nat /\ InlineCount >= 2
  BY SizesAssumption
<1>2. DOMAIN r = 0..InlineCount - 1
  BY DEF Arrays
<1> QED
  BY <1>1, <1>2, SizeIs

\* An empty bucket takes a new variable.
LEMMA PutInline ==
  ASSUME NEW e, EntryOK(e), ~e.out, NEW l \in Variables, l \notin RefsOf(e),
         NEW i \in DOMAIN e.refs, e.refs[i] = Nil,
         NEW f, f = [e EXCEPT !.refs[i] = l]
  PROVE  EntryOK(f) /\ f.referent = e.referent /\ RefsOf(f) = RefsOf(e) \cup {l}
<1>1. e \in EntryShapes /\ e.refs \in Arrays(InlineCount) /\ Once(e.refs)
  BY DEF EntryOK
<1> DEFINE r == [e.refs EXCEPT ![i] = l]
<1>2. /\ r \in Arrays(InlineCount) /\ DOMAIN r = DOMAIN e.refs
      /\ \A j \in DOMAIN e.refs : r[j] = IF j = i THEN l ELSE e.refs[j]
  BY <1>1 DEF Arrays
<1>3. /\ f = [e EXCEPT !.refs = r]
  OBVIOUS
<1> HIDE DEF r
<1>4. /\ f \in EntryShapes /\ f.referent = e.referent /\ f.refs = r /\ ~f.out
  BY <1>1, <1>2, <1>3, SizesAssumption DEF EntryShapes
<1>5. \A j \in DOMAIN e.refs : e.refs[j] # l
  BY DEF RefsOf
<1>6. Once(r)
  BY <1>1, <1>2, <1>5 DEF Once, Used
<1>7. EntryOK(f)
  BY <1>2, <1>4, <1>6 DEF EntryOK
<1>8. l # Nil
  BY TableNilAssumption
<1>9. RefsOf(f) = RefsOf(e) \cup {l}
  <2>1. \A x \in Variables : (\E j \in DOMAIN r : r[j] = x)
        <=> x = l \/ \E j \in DOMAIN e.refs : e.refs[j] = x
    <3> SUFFICES ASSUME NEW x \in Variables
                 PROVE  (\E j \in DOMAIN r : r[j] = x)
                        <=> x = l \/ \E j \in DOMAIN e.refs : e.refs[j] = x
      OBVIOUS
    <3>1. x # Nil
      BY TableNilAssumption
    <3>2. ASSUME NEW j \in DOMAIN r, r[j] = x
          PROVE x = l \/ \E k \in DOMAIN e.refs : e.refs[k] = x
      BY <1>2, <3>2
    <3>3. ASSUME x = l PROVE \E j \in DOMAIN r : r[j] = x
      BY <1>2, <3>3
    <3>4. ASSUME NEW k \in DOMAIN e.refs, e.refs[k] = x PROVE \E j \in DOMAIN r : r[j] = x
      <4>1. r[k] = x
        BY <1>2, <3>1, <3>4
      <4> QED  BY <1>2, <4>1
    <3> QED  BY <3>2, <3>3, <3>4
  <2> QED  BY <1>4, <2>1 DEF RefsOf
<1> QED
  BY <1>4, <1>7, <1>9

\* append_referrer adds the variable, in the entry, in the hash set or in a larger one.
LEMMA Appended ==
  ASSUME NEW e, EntryOK(e), NEW l \in Variables, l \notin RefsOf(e)
  PROVE  LET f == AppendReferrer(e, l)
         IN EntryOK(f) /\ f.referent = e.referent /\ RefsOf(f) = RefsOf(e) \cup {l}
<1> DEFINE room == {i \in DOMAIN e.refs : e.refs[i] = Nil}
           o == IF e.out THEN e ELSE OutOfLine(e)
           n == Size(e.refs)
<1>1. e \in EntryShapes /\ n \in Nat /\ DOMAIN e.refs = 0..n - 1
  BY ArrayFacts DEF EntryOK
<1>2. CASE ~e.out /\ room # {}
  <2>1. room \in SUBSET Nat
    BY <1>1
  <2>2. Min(room) \in room
    BY <1>2, <2>1, LeastOf
  <2>3. AppendReferrer(e, l) = [e EXCEPT !.refs[Min(room)] = l]
    BY <1>2 DEF AppendReferrer
  <2> HIDE DEF n
  <2>4. Min(room) \in DOMAIN e.refs /\ e.refs[Min(room)] = Nil
    BY <2>2
  <2> HIDE DEF room
  <2> QED  BY <1>2, <2>3, <2>4, PutInline
<1>3. CASE ~(~e.out /\ room # {})
  <2>1. AppendReferrer(e, l) = IF o.num >= (Size(o.refs) * 3) \div 4
                               THEN GrowAndInsert(o, l) ELSE InsertReferrer(o, l)
    BY <1>3 DEF AppendReferrer
  <2>2. /\ o \in EntryShapes /\ o.out /\ o.refs = e.refs /\ o.referent = e.referent
        /\ ~e.out => o.num = InlineCount
    BY <1>1, SizesAssumption DEF OutOfLine, EntryShapes
  <2>3. RefsOf(o) = RefsOf(e)
    BY <2>2 DEF RefsOf
  <2> HIDE DEF room
  <2>4. n >= 2 /\ Once(e.refs)
    <3>1. CASE e.out
      <4>1. Hashed(e.refs, n, e.max) /\ e.max + 1 < n
        BY <3>1 DEF EntryOK
      <4> QED  BY <4>1 DEF Hashed
    <3>2. CASE ~e.out
      BY <3>2, InlineSize DEF EntryOK
    <3> QED  BY <3>1, <3>2
  <2> HIDE DEF o
  <2>5. CASE o.num >= (Size(o.refs) * 3) \div 4
    <3>1. Size(o.refs) = n /\ Once(o.refs) /\ l \notin RefsOf(o)
      BY <2>2, <2>3, <2>4
    <3>2. LET g == GrowAndInsert(o, l)
          IN EntryOK(g) /\ g.referent = o.referent /\ RefsOf(g) = RefsOf(o) \cup {l}
      BY <1>1, <2>2, <2>4, <3>1, GrewAndInserted
    <3> QED  BY <2>1, <2>2, <2>3, <2>5, <3>2
  <2>6. CASE ~(o.num >= (Size(o.refs) * 3) \div 4)
    <3>1. e.out
      <4> SUFFICES ASSUME ~e.out PROVE FALSE
        OBVIOUS
      <4>1. Size(o.refs) = InlineCount /\ InlineCount \in Nat
        BY <2>2, InlineSize DEF EntryOK
      <4>2. InlineCount >= (InlineCount * 3) \div 4
        BY <4>1
      <4> QED  BY <2>2, <2>6, <4>1, <4>2
    <3>2. o = e
      BY <3>1 DEF o
    <3>3. e.num \in Nat /\ e.num < (n * 3) \div 4
      BY <1>1, <2>6, <3>2 DEF EntryShapes
    <3>4. e.num + 1 < n
      BY <1>1, <2>4, <3>3
    <3>5. /\ Hashed(e.refs, n, e.max) /\ e.num = Cardinality(Used(e.refs)) /\ e.max + 1 < n
      BY <3>1 DEF EntryOK
    <3>6. /\ EntryOK(InsertReferrer(e, l)) /\ InsertReferrer(e, l).referent = e.referent
          /\ RefsOf(InsertReferrer(e, l)) = RefsOf(e) \cup {l}
      BY <1>1, <3>1, <3>4, <3>5, Inserted
    <3> QED  BY <2>1, <2>6, <3>2, <3>6
  <2> QED  BY <2>5, <2>6
<1> QED
  BY <1>2, <1>3

\* remove_referrer
LEMMA Removed ==
  ASSUME NEW e, EntryOK(e), NEW l \in Variables
  PROVE  LET f == RemoveReferrer(e, l)
         IN EntryOK(f) /\ f.referent = e.referent /\ RefsOf(f) = RefsOf(e) \ {l}
<1>1. e \in EntryShapes /\ Size(e.refs) \in Nat /\ DOMAIN e.refs = 0..Size(e.refs) - 1
  BY ArrayFacts DEF EntryOK
<1>2. CASE l \notin RefsOf(e)
  <2>1. RemoveReferrer(e, l) = e
    BY <1>2, RefersIs DEF RemoveReferrer
  <2> QED  BY <1>2, <2>1
<1>3. CASE l \in RefsOf(e)
  <2>1. PICK i \in DOMAIN e.refs : e.refs[i] = l
    BY <1>3 DEF RefsOf
  <2>2. l # Nil
    BY TableNilAssumption
  <2>3. Once(e.refs)
    BY DEF EntryOK, Hashed
  <2>4. \A j \in DOMAIN e.refs : e.refs[j] = l <=> j = i
    BY <2>1, <2>2, <2>3 DEF Once, Used
  <2> DEFINE r == [j \in DOMAIN e.refs |-> IF e.refs[j] = l THEN Nil ELSE e.refs[j]]
             f == [e EXCEPT !.refs = r, !.num = IF e.out THEN @ - 1 ELSE @]
  <2>5. RemoveReferrer(e, l) = f
    BY <1>3, RefersIs DEF RemoveReferrer
  <2>6. /\ r = [e.refs EXCEPT ![i] = Nil] /\ DOMAIN r = DOMAIN e.refs
        /\ \A j \in DOMAIN e.refs : r[j] = IF j = i THEN Nil ELSE e.refs[j]
    <3>1. DOMAIN r = DOMAIN e.refs
          /\ \A j \in DOMAIN e.refs : r[j] = IF j = i THEN Nil ELSE e.refs[j]
      BY <2>4
    <3>2. e.refs = [j \in DOMAIN e.refs |-> e.refs[j]]
      BY ArrayFacts, <1>1 DEF Arrays
    <3>3. r = [j \in DOMAIN e.refs |-> IF j = i THEN Nil ELSE e.refs[j]]
      BY <2>4
    <3> QED  BY <3>1, <3>2, <3>3
  <2>7. \A n \in Nat : e.refs \in Arrays(n) => r \in Arrays(n)
    BY <2>6 DEF Arrays
  <2> HIDE DEF r
  <2>8. r \in UNION {Arrays(n) : n \in Nat} /\ Size(r) = Size(e.refs)
    <3>1. e.refs \in Arrays(Size(e.refs))
      BY <1>1, ArrayFacts
    <3>2. r \in Arrays(Size(e.refs))
      BY <1>1, <2>7, <3>1
    <3> QED  BY <1>1, <2>6, <3>2, SizeIs
  <2>9. e.out => e.num > 0 /\ OneMore(e.refs, r) /\ Hashed(r, Size(e.refs), e.max)
    <3> SUFFICES ASSUME e.out PROVE e.num > 0 /\ OneMore(e.refs, r)
                        /\ Hashed(r, Size(e.refs), e.max)
      OBVIOUS
    <3>1. Hashed(e.refs, Size(e.refs), e.max) /\ e.num = Cardinality(Used(e.refs))
      BY DEF EntryOK
    <3>2. PICK n : n = Size(e.refs)
      OBVIOUS
    <3>3. i \in 0..n - 1 /\ e.refs[i] # Nil /\ r = [e.refs EXCEPT ![i] = Nil]
          /\ Hashed(e.refs, n, e.max)
      BY <1>1, <2>1, <2>2, <2>6, <3>1, <3>2
    <3>4. Hashed(r, n, e.max) /\ OneMore(e.refs, r)
      BY <3>3, RemoveKey
    <3> QED  BY <3>1, <3>2, <3>4 DEF OneMore
  <2>10. /\ f \in EntryShapes /\ f.referent = e.referent /\ f.refs = r /\ f.out = e.out
         /\ f.max = e.max
         /\ e.out => f.num = e.num - 1
    <3>1. e.num \in Nat
      BY <1>1 DEF EntryShapes
    <3>2. PICK m \in Nat : m = IF e.out THEN e.num - 1 ELSE e.num
      BY <2>9, <3>1
    <3>3. f = [e EXCEPT !.refs = r, !.num = m]
      BY <3>2
    <3> HIDE DEF f
    <3> QED  BY <1>1, <2>8, <3>2, <3>3 DEF EntryShapes
  <2> HIDE DEF f
  <2>11. ASSUME e.out PROVE EntryOK(f)
    <3>1. e.num \in Nat /\ f.num = Cardinality(Used(r)) /\ f.num < Size(e.refs)
      BY <1>1, <2>9, <2>10, <2>11 DEF EntryShapes, EntryOK, OneMore
    <3> QED  BY <2>8, <2>9, <2>10, <2>11, <3>1 DEF EntryOK
  <2>12. ASSUME ~e.out PROVE EntryOK(f)
    <3>1. r \in Arrays(InlineCount)
      BY <2>7, <2>12, SizesAssumption DEF EntryOK
    <3>2. Once(r)
      BY <2>3, <2>6 DEF Once, Used
    <3> QED  BY <2>10, <2>12, <3>1, <3>2 DEF EntryOK
  <2>13. RefsOf(f) = RefsOf(e) \ {l}
    <3>1. \A x \in Variables : (\E j \in DOMAIN r : r[j] = x)
          <=> x # l /\ \E j \in DOMAIN e.refs : e.refs[j] = x
      <4> SUFFICES ASSUME NEW x \in Variables
                   PROVE  (\E j \in DOMAIN r : r[j] = x)
                          <=> x # l /\ \E j \in DOMAIN e.refs : e.refs[j] = x
        OBVIOUS
      <4>1. x # Nil
        BY TableNilAssumption
      <4> QED  BY <2>4, <2>6, <4>1
    <3> QED  BY <2>10, <3>1 DEF RefsOf
  <2> QED  BY <2>5, <2>10, <2>11, <2>12, <2>13
<1> QED
  BY <1>2, <1>3

\* An entry is taken for empty only if it is.
LEMMA Untouched ==
  ASSUME NEW e \in EntryShapes, LooksEmpty(e)
  PROVE  RefsOf(e) = {}
BY TableNilAssumption DEF LooksEmpty, RefsOf

\* A bucket without an entry
LEMMA NoEntryIs ==
  /\ NoEntry \in EntryShapes /\ NoEntry.referent = Nil /\ ~NoEntry.out
  /\ NoEntry.refs = [i \in 0..InlineCount - 1 |-> Nil]
<1>1. [i \in 0..InlineCount - 1 |-> Nil] \in Arrays(InlineCount)
  BY DEF Arrays
<1> QED
  BY <1>1, SizesAssumption DEF NoEntry, Buckets, EntryShapes

\* weak_entry_t's constructor
LEMMA NewEntryIs ==
  ASSUME NEW o \in Referents, NEW l \in Variables
  PROVE  /\ EntryOK(NewEntry(o, l)) /\ NewEntry(o, l).referent = o
         /\ RefsOf(NewEntry(o, l)) = {l}
<1> DEFINE e == [NoEntry EXCEPT !.referent = o]
<1>1. /\ e \in EntryShapes /\ e.referent = o /\ ~e.out
      /\ e.refs = [i \in 0..InlineCount - 1 |-> Nil]
  BY NoEntryIs DEF EntryShapes
<1>2. NewEntry(o, l) = [e EXCEPT !.refs[0] = l]
  BY NoEntryIs DEF NewEntry, EntryShapes
<1> HIDE DEF e
<1>3. EntryOK(e)
  <2>1. e.refs \in Arrays(InlineCount)
    BY <1>1 DEF Arrays
  <2>2. Once(e.refs)
    BY <1>1 DEF Once, Used
  <2> QED  BY <1>1, <2>1, <2>2 DEF EntryOK
<1>4. 0 \in DOMAIN e.refs /\ e.refs[0] = Nil
  BY <1>1, SizesAssumption
<1>5. RefsOf(e) = {}
  BY <1>1, TableNilAssumption DEF RefsOf
<1> QED
  <2>0. PICK i \in DOMAIN e.refs : i = 0 /\ e.refs[i] = Nil
    BY <1>4
  <2>1. PICK f : f = [e EXCEPT !.refs[i] = l] /\ f = [e EXCEPT !.refs[0] = l]
    BY <2>0
  <2>2. EntryOK(f) /\ f.referent = e.referent /\ RefsOf(f) = RefsOf(e) \cup {l}
    <3>1. ~e.out /\ l \notin RefsOf(e) /\ e.refs[i] = Nil
      BY <1>1, <1>5, <2>0
    <3>2. f = [e EXCEPT !.refs[i] = l]
      BY <2>1
    <3> QED  BY <1>3, <3>1, <3>2, PutInline
  <2> QED  BY <1>1, <1>2, <1>5, <2>1, <2>2

(***************************************************************************)
(* The functions on the table: weak_entry_insert, weak_resize,             *)
(* weak_grow_maybe, weak_compact_maybe, weak_entry_remove.                 *)
(***************************************************************************)

Tables(n) == [0..n - 1 -> EntryShapes]
TableShapes == [b : UNION {Tables(n) : n \in Nat}, num : Nat, max : Nat]

EntriesOf(t) == {t.b[i] : i \in Used(ReferentsOf(t))}
Others(t, i) == {t.b[j] : j \in Used(ReferentsOf(t)) \ {i}}

\* Every entry is where a search finds it, and they are counted.
Placed(t, n) ==
  /\ t \in TableShapes /\ n = Size(t.b)
  /\ Hashed(ReferentsOf(t), n, t.max)
  /\ t.num = Cardinality(Used(ReferentsOf(t)))

\* A table is an array of entries, its size what TABLE_SIZE says.
LEMMA TableFacts ==
  ASSUME NEW t \in TableShapes
  PROVE  LET n == Size(t.b)
         IN /\ n \in Nat /\ t.b \in Tables(n) /\ DOMAIN t.b = 0..n - 1
            /\ ReferentsOf(t) \in [0..n - 1 -> Keys \cup {Nil}]
            /\ DOMAIN ReferentsOf(t) = 0..n - 1
            /\ \A i \in 0..n - 1 : ReferentsOf(t)[i] = t.b[i].referent /\ t.b[i] \in EntryShapes
            /\ Size(ReferentsOf(t)) = n
<1>1. PICK n \in Nat : t.b \in Tables(n)
  BY DEF TableShapes
<1>2. DOMAIN t.b = 0..n - 1
  BY <1>1 DEF Tables
<1>3. Size(t.b) = n
  BY <1>2, SizeIs
<1>4. \A i \in 0..n - 1 : t.b[i] \in EntryShapes /\ t.b[i].referent \in Keys \cup {Nil}
  BY <1>1 DEF Tables, EntryShapes, Keys
<1>5. /\ ReferentsOf(t) \in [0..n - 1 -> Keys \cup {Nil}] /\ DOMAIN ReferentsOf(t) = 0..n - 1
      /\ \A i \in 0..n - 1 : ReferentsOf(t)[i] = t.b[i].referent
  BY <1>2, <1>4 DEF ReferentsOf
<1>6. Size(ReferentsOf(t)) = n
  BY <1>5, SizeIs
<1> QED
  BY <1>1, <1>2, <1>3, <1>4, <1>5, <1>6

\* One bucket gets another entry, or none.
Put(u, t, i, e) ==
  /\ u.b \in UNION {Tables(n) : n \in Nat} /\ Size(u.b) = Size(t.b)
  /\ ReferentsOf(u) = [ReferentsOf(t) EXCEPT ![i] = e.referent]
  /\ EntriesOf(u) = Others(t, i) \cup (IF e.referent = Nil THEN {} ELSE {e})

LEMMA PutEntry ==
  ASSUME NEW t \in TableShapes, NEW u, NEW i \in DOMAIN t.b, NEW e \in EntryShapes,
         u.b = [t.b EXCEPT ![i] = e]
  PROVE  Put(u, t, i, e)
<1>1. PICK n \in Nat : /\ n = Size(t.b) /\ t.b \in Tables(n) /\ DOMAIN t.b = 0..n - 1
                       /\ DOMAIN ReferentsOf(t) = 0..n - 1
                       /\ \A j \in 0..n - 1 : ReferentsOf(t)[j] = t.b[j].referent
  BY TableFacts
<1>2. /\ u.b \in Tables(n) /\ DOMAIN u.b = 0..n - 1
      /\ \A j \in 0..n - 1 : u.b[j] = IF j = i THEN e ELSE t.b[j]
  BY <1>1 DEF Tables
<1>3. Size(u.b) = n
  BY <1>2, SizeIs
<1>4. /\ DOMAIN ReferentsOf(u) = 0..n - 1
      /\ \A j \in 0..n - 1 : ReferentsOf(u)[j] = u.b[j].referent
  BY <1>2 DEF ReferentsOf
<1>5. ReferentsOf(u) = [ReferentsOf(t) EXCEPT ![i] = e.referent]
  <2>1. ReferentsOf(u) = [j \in 0..n - 1 |-> u.b[j].referent]
    BY <1>2 DEF ReferentsOf
  <2>2. [ReferentsOf(t) EXCEPT ![i] = e.referent] =
        [j \in 0..n - 1 |-> IF j = i THEN e.referent ELSE t.b[j].referent]
    BY <1>1
  <2> QED  BY <1>2, <2>1, <2>2
<1>6. Used(ReferentsOf(u)) \ {i} = Used(ReferentsOf(t)) \ {i}
  <2>1. \A j \in 0..n - 1 : j # i => ReferentsOf(u)[j] = ReferentsOf(t)[j]
    BY <1>1, <1>5
  <2> QED  BY <1>1, <1>4, <2>1 DEF Used
<1>7. i \in Used(ReferentsOf(u)) <=> e.referent # Nil
  BY <1>1, <1>2, <1>4 DEF Used
<1>8. \A j \in Used(ReferentsOf(u)) : j \in 0..n - 1
  BY <1>4 DEF Used
<1>9. Others(t, i) = {u.b[j] : j \in Used(ReferentsOf(u)) \ {i}}
  BY <1>2, <1>6, <1>8 DEF Others
<1>10. EntriesOf(u) = Others(t, i) \cup (IF e.referent = Nil THEN {} ELSE {e})
  <2>1. u.b[i] = e
    BY <1>1, <1>2
  <2>2. CASE e.referent = Nil
    <3>1. Used(ReferentsOf(u)) = Used(ReferentsOf(u)) \ {i}
      BY <1>7, <2>2
    <3> QED  BY <1>9, <2>2, <3>1 DEF EntriesOf
  <2>3. CASE e.referent # Nil
    <3>1. Used(ReferentsOf(u)) = (Used(ReferentsOf(u)) \ {i}) \cup {i}
      BY <1>7, <2>3
    <3> QED  BY <1>9, <2>1, <2>3, <3>1 DEF EntriesOf
  <2> QED  BY <2>2, <2>3
<1> QED
  BY <1>1, <1>2, <1>3, <1>5, <1>10 DEF Put

\* The other entries of a table
LEMMA OtherEntries ==
  ASSUME NEW t, NEW n, Placed(t, n), NEW i \in DOMAIN t.b
  PROVE  /\ t.b[i].referent = Nil => Others(t, i) = EntriesOf(t)
         /\ t.b[i].referent # Nil =>
              /\ EntriesOf(t) = Others(t, i) \cup {t.b[i]}
              /\ \A e \in Others(t, i) : e.referent # t.b[i].referent
<1>1. /\ DOMAIN t.b = 0..n - 1 /\ DOMAIN ReferentsOf(t) = 0..n - 1
      /\ \A j \in 0..n - 1 : ReferentsOf(t)[j] = t.b[j].referent
  BY TableFacts DEF Placed
<1>2. i \in Used(ReferentsOf(t)) <=> t.b[i].referent # Nil
  BY <1>1 DEF Used
<1>3. CASE t.b[i].referent = Nil
  BY <1>2, <1>3 DEF Others, EntriesOf
<1>4. CASE t.b[i].referent # Nil
  <2>1. EntriesOf(t) = Others(t, i) \cup {t.b[i]}
    BY <1>2, <1>4 DEF Others, EntriesOf
  <2>2. ASSUME NEW e \in Others(t, i) PROVE e.referent # t.b[i].referent
    <3>1. PICK j \in Used(ReferentsOf(t)) \ {i} : e = t.b[j]
      BY DEF Others
    <3>2. Once(ReferentsOf(t))
      BY DEF Placed, Hashed
    <3>3. j \in 0..n - 1
      BY <1>1, <3>1 DEF Used
    <3> QED  BY <1>1, <1>2, <1>4, <3>1, <3>2, <3>3 DEF Once
  <2> QED  BY <1>4, <2>1, <2>2
<1> QED
  BY <1>3, <1>4

\* weak_entry_insert, as an update of the table's fields
LEMMA InsertEntryIs ==
  ASSUME NEW t \in TableShapes, NEW e \in EntryShapes, e.referent \in Referents
  PROVE  /\ InsertEntry(t, e) \in TableShapes
         /\ Displacements(ReferentsOf(t), e.referent, Nil) # {} =>
              LET u == InsertEntry(t, e)
                  d == Min(Displacements(ReferentsOf(t), e.referent, Nil))
              IN /\ u.b = [t.b EXCEPT ![Index(e.referent, d, Size(t.b))] = e]
                 /\ u.num = t.num + 1 /\ u.max = Displaced(t.max, d)
<1> DEFINE ds == Displacements(ReferentsOf(t), e.referent, Nil)
           i0 == Index(e.referent, Min(ds), Size(t.b))
<1>1. PICK n \in Nat : n = Size(ReferentsOf(t)) /\ n = Size(t.b) /\ t.b \in Tables(n)
  BY TableFacts
<1>2. CASE ds = {}
  BY <1>2 DEF InsertEntry
<1>3. CASE ds # {}
  <2> DEFINE r == [t.b EXCEPT ![i0] = e]
             f == [b |-> r, num |-> t.num + 1, max |-> Displaced(t.max, Min(ds))]
  <2>1. InsertEntry(t, e) = f
    BY <1>3 DEF InsertEntry
  <2>2. Min(ds) \in Nat
    <3>1. ds \in SUBSET Nat
      BY <1>1 DEF Displacements
    <3> QED  BY <1>3, <3>1, LeastOf
  <2> HIDE DEF ds, i0
  <2>3. r \in Tables(n)
    BY <1>1 DEF Tables
  <2> HIDE DEF r
  <2>4. t.num + 1 \in Nat /\ Displaced(t.max, Min(ds)) \in Nat
    BY <2>2 DEF TableShapes, Displaced
  <2>5. f \in TableShapes
    BY <2>3, <2>4 DEF TableShapes
  <2>6. f.b = r /\ f.num = t.num + 1 /\ f.max = Displaced(t.max, Min(ds))
    OBVIOUS
  <2> HIDE DEF f
  <2> QED  BY <1>3, <2>1, <2>5, <2>6 DEF r, i0, ds
<1> QED
  BY <1>2, <1>3 DEF ds

\* num_entries is no more than the size.
LEMMA PlacedFacts ==
  ASSUME NEW t, NEW n, Placed(t, n)
  PROVE  /\ n \in Nat /\ t.b \in Tables(n) /\ DOMAIN t.b = 0..n - 1
         /\ t.num \in 0..n /\ t.max \in Nat /\ Cardinality(Used(ReferentsOf(t))) \in Nat
<1>1. t \in TableShapes /\ n = Size(t.b)
  BY DEF Placed
<1>2. n \in Nat /\ t.b \in Tables(n) /\ DOMAIN t.b = 0..n - 1
      /\ DOMAIN ReferentsOf(t) = 0..n - 1
  BY <1>1, TableFacts
<1>3. Cardinality(Used(ReferentsOf(t))) \in 0..n
  BY <1>2, UsedFinite
<1>4. t.num \in 0..n /\ t.max \in Nat
  BY <1>1, <1>3 DEF Placed, TableShapes
<1> QED
  BY <1>2, <1>3, <1>4

\* weak_entry_insert
LEMMA EntryInserted ==
  ASSUME NEW t, NEW n, Placed(t, n), t.num < n,
         NEW e \in EntryShapes, e.referent \in Referents,
         e.referent \notin KeysOf(ReferentsOf(t))
  PROVE  LET u == InsertEntry(t, e)
         IN /\ Placed(u, n) /\ u.num = t.num + 1
            /\ EntriesOf(u) = EntriesOf(t) \cup {e}
            /\ u.max <= t.max \/ u.max <= t.num
<1> DEFINE R == ReferentsOf(t)
           u == InsertEntry(t, e)
<1>1. /\ t \in TableShapes /\ n = Size(t.b) /\ Hashed(R, n, t.max)
      /\ t.num = Cardinality(Used(R)) /\ n \in Nat /\ DOMAIN t.b = 0..n - 1
      /\ t.num \in Nat /\ t.max \in Nat
  BY PlacedFacts DEF Placed
<1>2. PICK x \in Keys : x = e.referent
  BY DEF Keys
<1> HIDE DEF R
<1>3. PICK d \in 0..n - 1, i \in 0..n - 1, c \in [0..n - 1 -> Keys \cup {Nil}] :
           /\ Displacements(R, x, Nil) # {} /\ d = Min(Displacements(R, x, Nil))
           /\ d <= Cardinality(Used(R))
           /\ i = Index(x, d, n) /\ R[i] = Nil /\ c = [R EXCEPT ![i] = x]
           /\ Hashed(c, n, Displaced(t.max, d)) /\ OneMore(c, R)
           /\ KeysOf(c) = KeysOf(R) \cup {x}
  <2>1. Cardinality(Used(R)) < n /\ x \notin KeysOf(R) /\ Hashed(R, n, t.max)
    BY <1>1, <1>2 DEF R
  <2> QED  BY <2>1, InsertNew
<1>4. /\ u \in TableShapes /\ u.b = [t.b EXCEPT ![i] = e]
      /\ u.num = t.num + 1 /\ u.max = Displaced(t.max, d)
  <2>1. Displacements(ReferentsOf(t), e.referent, Nil) # {}
        /\ d = Min(Displacements(ReferentsOf(t), e.referent, Nil))
        /\ i = Index(e.referent, d, Size(t.b))
    BY <1>1, <1>2, <1>3 DEF R
  <2> QED  BY <1>1, <2>1, InsertEntryIs
<1> HIDE DEF u
<1>5. i \in DOMAIN t.b /\ t.b[i].referent = Nil
  BY <1>1, <1>3, TableFacts DEF R
<1>6. /\ Size(u.b) = n /\ ReferentsOf(u) = c
      /\ EntriesOf(u) = Others(t, i) \cup {e}
  <2>1. e.referent # Nil
    BY TableNilAssumption
  <2>2. /\ Size(u.b) = Size(t.b) /\ ReferentsOf(u) = [ReferentsOf(t) EXCEPT ![i] = e.referent]
        /\ EntriesOf(u) = Others(t, i) \cup (IF e.referent = Nil THEN {} ELSE {e})
    <3>1. Put(u, t, i, e)
      BY <1>1, <1>4, <1>5, PutEntry
    <3> QED  BY <3>1 DEF Put
  <2> QED  BY <1>1, <1>2, <1>3, <2>1, <2>2 DEF R
<1>7. EntriesOf(u) = EntriesOf(t) \cup {e}
  BY <1>5, <1>6, OtherEntries
<1>8. Placed(u, n)
  BY <1>1, <1>3, <1>4, <1>6 DEF Placed, OneMore
<1>9. u.max <= t.max \/ u.max <= t.num
  BY <1>1, <1>3, <1>4 DEF Displaced
<1> QED
  BY <1>4, <1>7, <1>8, <1>9 DEF u

\* What weak_resize to m buckets returns: the same entries
Rehashed(u, t, m) ==
  /\ Placed(u, m) /\ EntriesOf(u) = EntriesOf(t) /\ u.num = t.num
  /\ u.max = 0 \/ u.max < u.num

\* A resize to no fewer buckets than there are entries keeps them all.
LEMMA ResizedIs ==
  ASSUME NEW t, NEW n, Placed(t, n), NEW m \in Nat, t.num <= m
  PROVE  Rehashed(Resized(t, m), t, m)
<1> DEFINE R == ReferentsOf(t)
           base == [b |-> Buckets(m, NoEntry), num |-> 0, max |-> 0]
           P(f) == f = [i \in 0 .. Size(t.b) |->
                          IF i = 0 THEN base
                          ELSE IF t.b[i - 1].referent = Nil THEN f[i - 1]
                          ELSE InsertEntry(f[i - 1], t.b[i - 1])]
           g == CHOOSE f : P(f)
           step == [p \in TableShapes \X (1..n) |->
                      IF t.b[p[2] - 1].referent = Nil THEN p[1]
                      ELSE InsertEntry(p[1], t.b[p[2] - 1])]
<1>1. Resized(t, m) = g[Size(t.b)]
  BY DEF Resized
<1>2. /\ t \in TableShapes /\ Size(t.b) = n /\ n \in Nat
      /\ t.b \in Tables(n) /\ DOMAIN t.b = 0..n - 1
      /\ R \in [0..n - 1 -> Keys \cup {Nil}] /\ DOMAIN R = 0..n - 1
      /\ \A i \in 0..n - 1 : /\ R[i] = t.b[i].referent /\ t.b[i] \in EntryShapes
                             /\ t.b[i].referent \in Referents \cup {Nil}
      /\ Once(R) /\ t.num = Cardinality(Used(R))
  <2>1. t \in TableShapes /\ Size(t.b) = n /\ n \in Nat /\ Once(R)
        /\ t.num = Cardinality(Used(R))
    BY DEF Placed, Hashed
  <2>2. /\ t.b \in Tables(n) /\ DOMAIN t.b = 0..n - 1
        /\ R \in [0..n - 1 -> Keys \cup {Nil}] /\ DOMAIN R = 0..n - 1
        /\ \A i \in 0..n - 1 : R[i] = t.b[i].referent /\ t.b[i] \in EntryShapes
    BY <2>1, TableFacts
  <2>3. \A i \in 0..n - 1 : t.b[i].referent \in Referents \cup {Nil}
    BY <2>2 DEF EntryShapes
  <2> QED  BY <2>1, <2>2, <2>3
<1> HIDE DEF R
<1>3. Fits(R, m)
  BY <1>2 DEF Fits
<1>4. /\ base \in TableShapes /\ base.num = 0 /\ base.max = 0 /\ Size(base.b) = m
      /\ ReferentsOf(base) = [i \in 0..m - 1 |-> Nil]
  <2>1. Buckets(m, NoEntry) \in Tables(m) /\ DOMAIN Buckets(m, NoEntry) = 0..m - 1
    BY NoEntryIs DEF Buckets, Tables
  <2>2. \A i \in 0..m - 1 : Buckets(m, NoEntry)[i].referent = Nil
    BY NoEntryIs DEF Buckets
  <2>3. Size(base.b) = m
    BY <2>1, SizeIs
  <2>4. ReferentsOf(base) = [i \in 0..m - 1 |-> Nil]
    BY <2>1, <2>2 DEF ReferentsOf
  <2> QED  BY <2>1, <2>3, <2>4 DEF TableShapes
<1> HIDE DEF base
<1>5. IsStep(step, TableShapes, n)
  <2> SUFFICES ASSUME NEW s \in TableShapes, NEW i \in 1..n
               PROVE  (IF t.b[i - 1].referent = Nil THEN s
                       ELSE InsertEntry(s, t.b[i - 1])) \in TableShapes
    BY DEF IsStep
  <2>1. i - 1 \in 0..n - 1
    BY <1>2
  <2>2. CASE t.b[i - 1].referent = Nil
    BY <2>2
  <2>3. CASE t.b[i - 1].referent # Nil
    <3>1. t.b[i - 1] \in EntryShapes /\ t.b[i - 1].referent \in Referents
      BY <1>2, <2>1, <2>3
    <3> QED  BY <2>3, <3>1, InsertEntryIs
  <2> QED  BY <2>2, <2>3
<1>6. PICK f \in [0..n -> TableShapes] : f[0] = base
             /\ \A i \in 1..n : f[i] = step[<<f[i - 1], i>>]
  <2> HIDE DEF step
  <2>1. base \in TableShapes /\ n \in Nat
    BY <1>2, <1>4
  <2> QED  BY <1>5, <2>1, Recursion
<1>7. \A i \in 1..n : f[i] = IF t.b[i - 1].referent = Nil THEN f[i - 1]
                             ELSE InsertEntry(f[i - 1], t.b[i - 1])
  <2> SUFFICES ASSUME NEW i \in 1..n
               PROVE  f[i] = IF t.b[i - 1].referent = Nil THEN f[i - 1]
                             ELSE InsertEntry(f[i - 1], t.b[i - 1])
    OBVIOUS
  <2>1. <<f[i - 1], i>> \in TableShapes \X (1..n)
    BY <1>2
  <2> QED  BY <1>6, <2>1
<1> HIDE DEF step
<1>8. P(f)
  <2>1. \A i \in 0..n : f[i] = IF i = 0 THEN base
                               ELSE IF t.b[i - 1].referent = Nil THEN f[i - 1]
                               ELSE InsertEntry(f[i - 1], t.b[i - 1])
    BY <1>2, <1>6, <1>7
  <2> QED  BY <1>2, <2>1
<1>9. P(g)
  <2>1. \E h : P(h)
    BY <1>8
  <2> HIDE DEF P
  <2> QED  BY <2>1
<1>10. /\ g[0] = base
       /\ \A i \in 1..n : g[i] = IF t.b[i - 1].referent = Nil THEN g[i - 1]
                                 ELSE InsertEntry(g[i - 1], t.b[i - 1])
  <2> HIDE DEF g
  <2>1. g = [i \in 0..n |-> IF i = 0 THEN base ELSE IF t.b[i - 1].referent = Nil THEN g[i - 1]
                            ELSE InsertEntry(g[i - 1], t.b[i - 1])]
    BY <1>2, <1>9
  <2> HIDE DEF P
  <2>2. \A i \in 0..n : g[i] = IF i = 0 THEN base
                               ELSE IF t.b[i - 1].referent = Nil THEN g[i - 1]
                               ELSE InsertEntry(g[i - 1], t.b[i - 1])
    BY <2>1
  <2> QED  BY <1>2, <2>2
<1> HIDE DEF g, P
<1> DEFINE J(k) == /\ g[k] \in TableShapes /\ Size(g[k].b) = m
                   /\ MovedTo(R, k, ReferentsOf(g[k]), m, g[k].max)
                   /\ g[k].num = Cardinality(Used(ReferentsOf(g[k])))
                   /\ EntriesOf(g[k]) = {t.b[j] : j \in Before(R, k)}
           G == {k \in 0..n : J(k)}
<1>11. 0 \in G
  <2>1. MovedTo(R, 0, ReferentsOf(base), m, base.max)
    <3>1. MovedTo(R, 0, [i \in 0..m - 1 |-> Nil], m, 0)
      BY <1>2, NothingMoved
    <3> QED  BY <1>4, <3>1
  <2>2. Cardinality(Used(ReferentsOf(base))) = 0
    BY <1>4, NoKeys
  <2>3. EntriesOf(base) = {}
    BY <1>4 DEF EntriesOf, Used
  <2>4. Before(R, 0) = {}
    BY <1>2 DEF Before, Used
  <2>5. 0 \in 0..n
    BY <1>2
  <2> QED  BY <1>4, <1>10, <2>1, <2>2, <2>3, <2>4, <2>5
<1>12. ASSUME NEW k \in 0..n - 1, k \in G PROVE k + 1 \in G
  <2> DEFINE s == g[k]
  <2>1. /\ s \in TableShapes /\ Size(s.b) = m
        /\ MovedTo(R, k, ReferentsOf(s), m, s.max)
        /\ s.num = Cardinality(Used(ReferentsOf(s)))
        /\ EntriesOf(s) = {t.b[j] : j \in Before(R, k)}
    BY <1>12
  <2>2. k + 1 \in 1..n /\ k + 1 \in 0..n /\ (k + 1) - 1 = k /\ k \in 0..n - 1
    BY <1>2
  <2>3. g[k + 1] = IF R[k] = Nil THEN s ELSE InsertEntry(s, t.b[k])
    BY <1>2, <1>10, <2>2
  <2> HIDE DEF s
  <2>4. CASE R[k] = Nil
    <3>1. MovedTo(R, k + 1, ReferentsOf(s), m, s.max)
      BY <1>2, <2>1, <2>4, MoveNone
    <3>2. Before(R, k + 1) = Before(R, k)
      BY <1>2, <2>4, BeforeFacts
    <3> QED  BY <2>1, <2>2, <2>3, <2>4, <3>1, <3>2
  <2>5. CASE R[k] # Nil
    <3>1. MovesOn(R, k, ReferentsOf(s), m, s.max)
      <4>1. R \in [0..n - 1 -> Keys \cup {Nil}] /\ n \in Nat /\ Once(R)
        BY <1>2
      <4>2. MovedTo(R, k, ReferentsOf(s), m, s.max)
        BY <2>1
      <4> QED  BY <1>3, <2>5, <4>1, <4>2, MoveKey
    <3>2. PICK d \in 0..m - 1, i \in 0..m - 1, c \in [0..m - 1 -> Keys \cup {Nil}] :
             /\ Displacements(ReferentsOf(s), R[k], Nil) # {}
             /\ d = Min(Displacements(ReferentsOf(s), R[k], Nil))
             /\ i = Index(R[k], d, m) /\ ReferentsOf(s)[i] = Nil
             /\ c = [ReferentsOf(s) EXCEPT ![i] = R[k]]
             /\ MovedTo(R, k + 1, c, m, Displaced(s.max, d))
      BY <3>1 DEF MovesOn
    <3>3. PICK e \in EntryShapes : e = t.b[k] /\ e.referent = R[k] /\ e.referent \in Referents
      BY <1>2, <2>5
    <3> DEFINE u == InsertEntry(s, t.b[k])
    <3>4. u \in TableShapes /\ u.b = [s.b EXCEPT ![i] = e] /\ u.max = Displaced(s.max, d)
          /\ u.num = s.num + 1
      <4>1. /\ InsertEntry(s, e) \in TableShapes
            /\ LET u1 == InsertEntry(s, e)
                   d1 == Min(Displacements(ReferentsOf(s), e.referent, Nil))
               IN /\ u1.b = [s.b EXCEPT ![Index(e.referent, d1, Size(s.b))] = e]
                  /\ u1.num = s.num + 1 /\ u1.max = Displaced(s.max, d1)
        BY <2>1, <3>2, <3>3, InsertEntryIs
      <4> QED  BY <2>1, <3>2, <3>3, <4>1
    <3> HIDE DEF u
    <3>5. DOMAIN s.b = 0..m - 1 /\ s.b[i].referent = Nil
      BY <2>1, <3>2, TableFacts
    <3>6. Put(u, s, i, e)
      BY <2>1, <3>4, <3>5, PutEntry
    <3>7. Size(u.b) = m /\ ReferentsOf(u) = c /\ EntriesOf(u) = Others(s, i) \cup {t.b[k]}
      BY <2>1, <2>5, <3>2, <3>3, <3>6 DEF Put
    <3>8. EntriesOf(u) = EntriesOf(s) \cup {t.b[k]}
      <4>1. Placed(s, m)
        BY <2>1 DEF Placed, MovedTo
      <4> QED  BY <3>5, <3>7, <4>1, OtherEntries
    <3>9. /\ Before(R, k + 1) = Before(R, k) \cup {k}
          /\ Cardinality(Before(R, k + 1)) = Cardinality(Before(R, k)) + 1
      BY <1>2, <2>5, BeforeFacts
    <3>10. EntriesOf(u) = {t.b[j] : j \in Before(R, k + 1)}
      BY <2>1, <3>8, <3>9
    <3>11. u.num = Cardinality(Used(ReferentsOf(u)))
      BY <2>1, <3>2, <3>4, <3>7, <3>9 DEF MovedTo
    <3>12. g[k + 1] = u
      BY <2>3, <2>5 DEF u
    <3> QED  BY <2>2, <3>2, <3>4, <3>7, <3>10, <3>11, <3>12
  <2> QED  BY <2>4, <2>5
<1> HIDE DEF G
<1>13. n \in 0..n /\ \A k \in 0..n : k \in G
  <2>1. n \in Nat /\ n \in 0..n
    BY <1>2
  <2>2. \A k \in 0..n : k \in G
    BY <1>11, <1>12, <2>1, Climb
  <2> QED  BY <2>1, <2>2
<1> DEFINE s == g[n]
<1>14. /\ s \in TableShapes /\ Size(s.b) = m
       /\ MovedTo(R, n, ReferentsOf(s), m, s.max)
       /\ s.num = Cardinality(Used(ReferentsOf(s)))
       /\ EntriesOf(s) = {t.b[j] : j \in Before(R, n)}
  BY <1>13 DEF G
<1> HIDE DEF s, J
<1>15. /\ Hashed(ReferentsOf(s), m, s.max)
       /\ Cardinality(Used(ReferentsOf(s))) = Cardinality(Used(R))
       /\ s.max = 0 \/ s.max < Cardinality(Used(R))
  BY <1>2, <1>14, AllMoved
<1>16. EntriesOf(s) = EntriesOf(t)
  <2>1. Before(R, n) = Used(R)
    BY <1>2 DEF Before, Used
  <2> QED  BY <1>14, <2>1 DEF EntriesOf, R
<1>17. Rehashed(s, t, m)
  BY <1>2, <1>14, <1>15, <1>16 DEF Rehashed, Placed
<1> QED
  BY <1>1, <1>2, <1>17 DEF s

\* A table between two operations: some bucket is empty, and the largest
\* displacement ends a search before it is back at its beginning.
TableOK(t) ==
  LET n == Size(t.b)
  IN Placed(t, n) /\ (n > 0 => t.num < n /\ t.max + 1 < n)

\* What TableOK says, for a size that is a number
LEMMA TableOKFacts ==
  ASSUME NEW t, TableOK(t)
  PROVE  \E n \in Nat :
           /\ n = Size(t.b) /\ Placed(t, n) /\ t \in TableShapes /\ t.b \in Tables(n)
           /\ DOMAIN t.b = 0..n - 1 /\ DOMAIN ReferentsOf(t) = 0..n - 1
           /\ t.num \in 0..n /\ t.max \in Nat
           /\ \A i \in 0..n - 1 : ReferentsOf(t)[i] = t.b[i].referent /\ t.b[i] \in EntryShapes
           /\ n > 0 => t.num < n /\ t.max + 1 < n
<1> DEFINE n == Size(t.b)
<1>1. Placed(t, n) /\ (n > 0 => t.num < n /\ t.max + 1 < n)
  BY DEF TableOK
<1>2. t \in TableShapes
  BY <1>1 DEF Placed
<1>3. /\ n \in Nat /\ t.b \in Tables(n) /\ DOMAIN t.b = 0..n - 1
      /\ DOMAIN ReferentsOf(t) = 0..n - 1
      /\ \A i \in 0..n - 1 : ReferentsOf(t)[i] = t.b[i].referent /\ t.b[i] \in EntryShapes
  BY <1>2, TableFacts
<1> HIDE DEF n
<1>4. t.num \in 0..n /\ t.max \in Nat
  BY <1>1, PlacedFacts
<1> QED
  BY <1>1, <1>2, <1>3, <1>4 DEF n

\* weak_entry_for_referent
LEMMA EntryForIs ==
  ASSUME NEW t, TableOK(t), NEW o \in Referents
  PROVE  EntryFor(t, o) = {i \in DOMAIN t.b : t.b[i].referent = o}
<1>1. PICK n \in Nat :
           /\ n = Size(t.b) /\ Placed(t, n)
           /\ DOMAIN t.b = 0..n - 1 /\ DOMAIN ReferentsOf(t) = 0..n - 1
           /\ \A i \in 0..n - 1 : ReferentsOf(t)[i] = t.b[i].referent
  BY TableOKFacts
<1>2. Hashed(ReferentsOf(t), n, t.max) /\ o \in Keys /\ o # Nil
  BY <1>1, TableNilAssumption DEF Placed, Keys
<1>3. /\ Reaches(ReferentsOf(t), o, o, t.max) <=> \E i \in 0..n - 1 : ReferentsOf(t)[i] = o
      /\ \A i \in 0..n - 1 : ReferentsOf(t)[i] = o =>
            i = Index(o, Min(Displacements(ReferentsOf(t), o, o)), n)
  BY <1>2, Found
<1>4. CASE \E i \in 0..n - 1 : ReferentsOf(t)[i] = o
  <2>1. PICK i \in 0..n - 1 : ReferentsOf(t)[i] = o
    BY <1>4
  <2>2. EntryFor(t, o) = {i}
    BY <1>1, <1>3, <2>1 DEF EntryFor
  <2>3. \A j \in 0..n - 1 : t.b[j].referent = o <=> j = i
    BY <1>1, <1>3, <2>1
  <2> QED  BY <1>1, <2>2, <2>3
<1>5. CASE ~\E i \in 0..n - 1 : ReferentsOf(t)[i] = o
  BY <1>1, <1>3, <1>5 DEF EntryFor
<1> QED
  BY <1>4, <1>5

\* weak_grow_maybe leaves room for an entry.
LEMMA GrownOK ==
  ASSUME NEW t, TableOK(t)
  PROVE  LET u == Grown(t)
         IN TableOK(u) /\ u.num + 1 < Size(u.b) /\ EntriesOf(u) = EntriesOf(t)
<1>1. PICK n \in Nat : /\ n = Size(t.b) /\ Placed(t, n) /\ t.num \in 0..n /\ t.max \in Nat
                       /\ n > 0 => t.num < n /\ t.max + 1 < n
  BY TableOKFacts
<1>2. CASE t.num >= (n * 3) \div 4
  <2>1. PICK m \in Nat : /\ m = IF n = 0 THEN FirstEntries ELSE 2 * n
                         /\ t.num + 1 < m
    BY <1>1, SizesAssumption
  <2>2. Grown(t) = Resized(t, m)
    BY <1>1, <1>2, <2>1 DEF Grown
  <2>3. t.num <= m
    BY <1>1, <2>1
  <2>4. PICK u : u = Resized(t, m)
    OBVIOUS
  <2>5. Rehashed(u, t, m)
    BY <1>1, <2>3, <2>4, ResizedIs
  <2>6. Placed(u, m) /\ u.num = t.num /\ EntriesOf(u) = EntriesOf(t)
        /\ (u.max = 0 \/ u.max < u.num)
    BY <2>5 DEF Rehashed
  <2>7. Size(u.b) = m /\ u.max \in Nat
    BY <2>6, PlacedFacts DEF Placed
  <2>8. u.max + 1 < m
    BY <1>1, <2>1, <2>6, <2>7
  <2> QED  BY <1>1, <2>1, <2>2, <2>4, <2>6, <2>7, <2>8 DEF TableOK
<1>3. CASE ~(t.num >= (n * 3) \div 4)
  <2>1. Grown(t) = t
    BY <1>1, <1>3 DEF Grown
  <2>2. t.num + 1 < n
    BY <1>1, <1>3
  <2> QED  BY <1>1, <2>1, <2>2
<1> QED
  BY <1>2, <1>3

\* weak_entry_insert, of an object that is not in the table
LEMMA EntryAdded ==
  ASSUME NEW t, TableOK(t), t.num + 1 < Size(t.b),
         NEW e \in EntryShapes, e.referent \in Referents,
         \A x \in EntriesOf(t) : x.referent # e.referent
  PROVE  LET u == InsertEntry(t, e)
         IN TableOK(u) /\ EntriesOf(u) = EntriesOf(t) \cup {e}
<1>1. PICK n \in Nat : /\ n = Size(t.b) /\ Placed(t, n) /\ t.num \in 0..n /\ t.max \in Nat
                       /\ DOMAIN ReferentsOf(t) = 0..n - 1
                       /\ \A i \in 0..n - 1 : ReferentsOf(t)[i] = t.b[i].referent
                       /\ n > 0 => t.num < n /\ t.max + 1 < n
  BY TableOKFacts
<1>2. e.referent \notin KeysOf(ReferentsOf(t))
  BY <1>1 DEF KeysOf, EntriesOf, Used
<1>3. PICK u : u = InsertEntry(t, e)
  OBVIOUS
<1>4. /\ Placed(u, n) /\ u.num = t.num + 1
      /\ EntriesOf(u) = EntriesOf(t) \cup {e}
      /\ u.max <= t.max \/ u.max <= t.num
  <2>1. t.num < n
    BY <1>1
  <2> QED  BY <1>1, <1>2, <1>3, <2>1, EntryInserted
<1>5. Size(u.b) = n /\ u.max \in Nat
  BY <1>4, PlacedFacts DEF Placed
<1>6. u.max + 1 < n /\ u.num < n
  BY <1>1, <1>4, <1>5
<1> QED
  BY <1>3, <1>4, <1>5, <1>6 DEF TableOK

\* weak_compact_maybe
LEMMA CompactedOK ==
  ASSUME NEW t, TableOK(t)
  PROVE  TableOK(Compacted(t)) /\ EntriesOf(Compacted(t)) = EntriesOf(t)
<1>1. PICK n \in Nat : /\ n = Size(t.b) /\ Placed(t, n) /\ t.num \in 0..n /\ t.max \in Nat
  BY TableOKFacts
<1>2. CASE n >= CompactAt /\ n \div (2 * CompactBy) >= t.num
  <2>1. PICK m \in Nat : m = n \div CompactBy /\ m >= 2 /\ m >= 2 * t.num
    <3>1. PICK c \in Nat : c = CompactBy /\ c > 0 /\ n >= 2 * c
      BY <1>2, SizesAssumption
    <3>2. n \div c \in Nat /\ n % c \in 0..c - 1 /\ n = c * (n \div c) + (n % c)
      BY <3>1, Division
    <3>3. PICK q \in Nat, r \in 0..c - 1 : q = n \div c /\ n = c * q + r
      BY <3>2
    <3>4. q >= 2
      <4> SUFFICES ASSUME q <= 1 PROVE FALSE
        BY <3>3
      <4>1. q = 0 \/ q = 1
        OBVIOUS
      <4>2. c * 0 = 0 /\ c * 1 = c
        OBVIOUS
      <4> QED  BY <3>1, <3>3, <4>1, <4>2
    <3>5. q >= 2 * t.num
      <4>1. 2 * c \in Nat /\ 2 * c > 0
        BY <3>1
      <4>2. PICK d \in Nat : d = 2 * c /\ d > 0
        BY <4>1
      <4>3. n \div d \in Nat /\ n % d \in 0..d - 1 /\ n = d * (n \div d) + (n % d)
        BY <4>2, Division
      <4>4. PICK p \in Nat, s \in 0..d - 1 : p = n \div d /\ n = d * p + s /\ p >= t.num
        BY <1>2, <3>1, <4>2, <4>3
      <4>5. q >= 2 * p
        <5> SUFFICES ASSUME q < 2 * p PROVE FALSE
          BY <3>3, <4>4
        <5>0. 2 * p - q - 1 \in Nat /\ 2 * p = q + 1 + (2 * p - q - 1)
          BY <3>3, <4>4
        <5>1. PICK a \in Nat : 2 * p = q + 1 + a
          BY <5>0
        <5>2. d * p = c * (2 * p)
          BY <4>2
        <5>3. c * (2 * p) = c * q + c + c * a
          BY <5>1
        <5>4. c * a >= 0 /\ c * q \in Nat /\ c * a \in Nat
          OBVIOUS
        <5> QED  BY <3>3, <4>4, <5>2, <5>3, <5>4
      <4> QED  BY <1>1, <4>4, <4>5
    <3> QED  BY <3>1, <3>3, <3>4, <3>5
  <2>2. Compacted(t) = Resized(t, m)
    BY <1>1, <1>2, <2>1 DEF Compacted
  <2>3. t.num <= m
    BY <1>1, <2>1
  <2>4. PICK u : u = Resized(t, m)
    OBVIOUS
  <2>5. Rehashed(u, t, m)
    BY <1>1, <2>3, <2>4, ResizedIs
  <2>6. Placed(u, m) /\ u.num = t.num /\ EntriesOf(u) = EntriesOf(t)
        /\ (u.max = 0 \/ u.max < u.num)
    BY <2>5 DEF Rehashed
  <2>7. Size(u.b) = m /\ u.max \in Nat
    BY <2>6, PlacedFacts DEF Placed
  <2>8. u.max + 1 < m /\ u.num < m
    BY <1>1, <2>1, <2>6, <2>7
  <2> QED  BY <1>1, <2>1, <2>2, <2>4, <2>6, <2>7, <2>8 DEF TableOK
<1>3. CASE ~(n >= CompactAt /\ n \div (2 * CompactBy) >= t.num)
  BY <1>1, <1>3 DEF Compacted
<1> QED
  BY <1>2, <1>3

\* weak_entry_remove
LEMMA EntryRemoved ==
  ASSUME NEW t, TableOK(t), NEW i \in DOMAIN t.b, t.b[i].referent # Nil
  PROVE  TableOK(RemoveEntry(t, i)) /\ EntriesOf(RemoveEntry(t, i)) = Others(t, i)
<1>1. PICK n \in Nat : /\ n = Size(t.b) /\ Placed(t, n) /\ t \in TableShapes
                       /\ DOMAIN t.b = 0..n - 1 /\ DOMAIN ReferentsOf(t) = 0..n - 1
                       /\ t.num \in 0..n /\ t.max \in Nat
                       /\ \A j \in 0..n - 1 : ReferentsOf(t)[j] = t.b[j].referent
                       /\ n > 0 => t.num < n /\ t.max + 1 < n
  BY TableOKFacts
<1> DEFINE r == [t.b EXCEPT ![i] = NoEntry]
           u == [t EXCEPT !.b = r, !.num = t.num - 1]
<1>2. u.b = r /\ u.num = t.num - 1 /\ u.max = t.max
  BY <1>1 DEF TableShapes
<1>3. RemoveEntry(t, i) = Compacted(u)
  BY DEF RemoveEntry
<1>4. Put(u, t, i, NoEntry)
  <2>1. u.b = [t.b EXCEPT ![i] = NoEntry]
    BY <1>2
  <2> HIDE DEF u
  <2> QED  BY <1>1, <2>1, NoEntryIs, PutEntry
<1>5. /\ r \in UNION {Tables(m) : m \in Nat} /\ Size(r) = n
      /\ ReferentsOf(u) = [ReferentsOf(t) EXCEPT ![i] = Nil]
      /\ EntriesOf(u) = Others(t, i)
  <2> HIDE DEF u, r
  <2> QED  BY <1>1, <1>2, <1>4, NoEntryIs DEF Put
<1>6. Hashed(ReferentsOf(u), n, t.max) /\ OneMore(ReferentsOf(t), ReferentsOf(u))
  <2>1. PICK b, c : b = ReferentsOf(t) /\ c = ReferentsOf(u)
    OBVIOUS
  <2>2. i \in 0..n - 1 /\ b[i] # Nil /\ c = [b EXCEPT ![i] = Nil] /\ Hashed(b, n, t.max)
    BY <1>1, <1>5, <2>1 DEF Placed
  <2>3. Hashed(c, n, t.max) /\ OneMore(b, c)
    BY <2>2, RemoveKey
  <2> QED  BY <2>1, <2>3
<1>7. t.num = Cardinality(Used(ReferentsOf(t)))
  BY <1>1 DEF Placed
<1>8. u.num \in Nat /\ u.num = Cardinality(Used(ReferentsOf(u))) /\ t.num > 0
  BY <1>1, <1>2, <1>6, <1>7 DEF OneMore
<1>9. u \in TableShapes
  <2> HIDE DEF r
  <2>1. t.num - 1 \in Nat
    BY <1>2, <1>8
  <2> QED  BY <1>1, <1>5, <2>1 DEF TableShapes
<1> HIDE DEF u, r
<1>10. TableOK(u)
  BY <1>1, <1>2, <1>5, <1>6, <1>8, <1>9 DEF TableOK, Placed
<1> QED
  BY <1>3, <1>5, <1>10, CompactedOK

\* An entry takes the place of another of the same object.
LEMMA EntryReplaced ==
  ASSUME NEW t, TableOK(t), NEW i \in DOMAIN t.b, t.b[i].referent # Nil,
         NEW e \in EntryShapes, e.referent = t.b[i].referent, NEW u, u = [t EXCEPT !.b[i] = e]
  PROVE  TableOK(u) /\ EntriesOf(u) = Others(t, i) \cup {e}
<1>1. PICK n \in Nat : /\ n = Size(t.b) /\ Placed(t, n) /\ t \in TableShapes
                       /\ DOMAIN t.b = 0..n - 1 /\ DOMAIN ReferentsOf(t) = 0..n - 1
                       /\ t.num \in 0..n /\ t.max \in Nat
                       /\ \A j \in 0..n - 1 : ReferentsOf(t)[j] = t.b[j].referent
                       /\ n > 0 => t.num < n /\ t.max + 1 < n
  BY TableOKFacts
<1> DEFINE r == [t.b EXCEPT ![i] = e]
<1>2. u = [t EXCEPT !.b = r]
  OBVIOUS
<1>3. u.b = r /\ u.num = t.num /\ u.max = t.max
  BY <1>1, <1>2 DEF TableShapes
<1>4. Put(u, t, i, e)
  BY <1>1, <1>3, PutEntry
<1> HIDE DEF r
<1>5. /\ r \in UNION {Tables(m) : m \in Nat} /\ Size(r) = n
      /\ ReferentsOf(u) = [ReferentsOf(t) EXCEPT ![i] = e.referent]
      /\ EntriesOf(u) = Others(t, i) \cup {e}
  BY <1>1, <1>3, <1>4 DEF Put
<1>6. ReferentsOf(u) = ReferentsOf(t)
  <2>1. ReferentsOf(t) = [j \in 0..n - 1 |-> ReferentsOf(t)[j]]
    BY <1>1, TableFacts
  <2>2. ReferentsOf(t)[i] = e.referent
    BY <1>1
  <2> QED  BY <1>5, <2>1, <2>2
<1>7. u \in TableShapes
  BY <1>1, <1>2, <1>5 DEF TableShapes
<1>8. TableOK(u)
  BY <1>1, <1>3, <1>5, <1>6, <1>7 DEF TableOK, Placed
<1> QED
  BY <1>5, <1>8

\* The table t holds, for every variable of v that is not nil, the variable
\* among the referrers of the one entry of its object, and nothing else.
Agree(t, v) ==
  /\ v \in [Variables -> Referents \cup {Nil}]
  /\ \A e \in EntriesOf(t) : EntryOK(e) /\ RefsOf(e) = {l \in Variables : v[l] = e.referent}
  /\ \A l \in Variables : v[l] # Nil => \E e \in EntriesOf(t) : e.referent = v[l]

TableInv == TableOK(Table) /\ Agree(Table, value)

\* One entry per object
LEMMA EntriesAre ==
  ASSUME NEW t, TableOK(t), NEW i \in DOMAIN t.b, t.b[i].referent # Nil
  PROVE  /\ t.b[i] \in EntriesOf(t)
         /\ Others(t, i) = {e \in EntriesOf(t) : e.referent # t.b[i].referent}
<1>1. /\ EntriesOf(t) = Others(t, i) \cup {t.b[i]}
      /\ \A e \in Others(t, i) : e.referent # t.b[i].referent
  BY OtherEntries DEF TableOK
<1> QED
  BY <1>1

\* An entry is of some object, in some bucket.
LEMMA EntryHasReferent ==
  ASSUME NEW t, NEW e \in EntriesOf(t)
  PROVE  e.referent # Nil /\ \E i \in DOMAIN t.b : e = t.b[i]
BY DEF EntriesOf, Used, ReferentsOf

\* An operation for o leaves the entries of other objects as they are.
OnlyOf(o, v, w) ==
  /\ w \in [Variables -> Referents \cup {Nil}]
  /\ \A l \in Variables : v[l] = w[l] \/ (v[l] \in {o, Nil} /\ w[l] \in {o, Nil})

\* The entry for o, or none, says which variables hold o.
EntriesFor(o, E, w) ==
  /\ \A e \in E : EntryOK(e) /\ e.referent = o /\ RefsOf(e) = {l \in Variables : w[l] = o}
  /\ \A l \in Variables : w[l] = o => E # {}

\* The table agrees with the variables after an operation for o, if the entry
\* that it leaves for o does.
LEMMA AgreesAfter ==
  ASSUME NEW t, NEW v, Agree(t, v), NEW o \in Referents, NEW w, OnlyOf(o, v, w),
         NEW E, EntriesFor(o, E, w),
         NEW u, EntriesOf(u) = {e \in EntriesOf(t) : e.referent # o} \cup E
  PROVE  Agree(u, w)
<1>1. ASSUME NEW e \in EntriesOf(t), e.referent # o
      PROVE  EntryOK(e) /\ RefsOf(e) = {l \in Variables : w[l] = e.referent}
  <2>1. e.referent # Nil
    BY EntryHasReferent
  <2>2. {l \in Variables : w[l] = e.referent} = {l \in Variables : v[l] = e.referent}
    BY <1>1, <2>1 DEF OnlyOf
  <2> QED  BY <2>2 DEF Agree
<1>2. \A e \in E : EntryOK(e) /\ RefsOf(e) = {l \in Variables : w[l] = e.referent}
  BY DEF EntriesFor
<1>3. ASSUME NEW l \in Variables, w[l] # Nil
      PROVE  \E e \in EntriesOf(u) : e.referent = w[l]
  <2>1. CASE w[l] = o
    <3>1. PICK e \in E : TRUE
      BY <2>1 DEF EntriesFor
    <3> QED  BY <2>1, <3>1 DEF EntriesFor
  <2>2. CASE w[l] # o
    <3>1. v[l] = w[l]
      BY <1>3, <2>2 DEF OnlyOf
    <3>2. PICK e \in EntriesOf(t) : e.referent = v[l]
      BY <1>3, <3>1 DEF Agree
    <3> QED  BY <2>2, <3>1, <3>2
  <2> QED  BY <2>1, <2>2
<1>4. w \in [Variables -> Referents \cup {Nil}]
  BY DEF OnlyOf
<1> QED
  BY <1>1, <1>2, <1>3, <1>4 DEF Agree

(***************************************************************************)
(* The operations, on a table t and the contents v of the variables.       *)
(***************************************************************************)

\* weak_register_no_lock, of an object that has an entry
LEMMA RegisteredInEntry ==
  ASSUME NEW t, TableOK(t), NEW v, Agree(t, v), NEW o \in Referents,
         NEW l \in Variables, v[l] = Nil, NEW w, w = [v EXCEPT ![l] = o],
         NEW i \in DOMAIN t.b, t.b[i].referent = o,
         NEW u, u = [t EXCEPT !.b[i] = AppendReferrer(@, l)]
  PROVE  TableOK(u) /\ Agree(u, w)
<1>1. o # Nil
  BY TableNilAssumption
<1>2. PICK d : d = t.b[i]
  OBVIOUS
<1>3. PICK e : e = AppendReferrer(d, l)
  OBVIOUS
<1>4. d \in EntriesOf(t) /\ Others(t, i) = {x \in EntriesOf(t) : x.referent # o}
  BY <1>1, <1>2, EntriesAre
<1>5. v \in [Variables -> Referents \cup {Nil}] /\ EntryOK(d) /\ d.referent = o
      /\ RefsOf(d) = {x \in Variables : v[x] = o}
  BY <1>2, <1>4 DEF Agree
<1>6. EntryOK(e) /\ e.referent = o /\ RefsOf(e) = RefsOf(d) \cup {l}
  <2>1. l \notin RefsOf(d)
    BY <1>1, <1>5
  <2> QED  BY <1>3, <1>5, <2>1, Appended
<1>7. TableOK(u) /\ EntriesOf(u) = Others(t, i) \cup {e}
  <2>1. e \in EntryShapes
    BY <1>6 DEF EntryOK
  <2>2. u = [t EXCEPT !.b[i] = e]
    BY <1>2, <1>3
  <2>3. t.b[i].referent # Nil /\ e.referent = t.b[i].referent
    BY <1>1, <1>6
  <2> QED  BY <2>1, <2>2, <2>3, EntryReplaced
<1>8. w \in [Variables -> Referents \cup {Nil}]
      /\ \A x \in Variables : w[x] = IF x = l THEN o ELSE v[x]
  BY <1>5
<1>9. OnlyOf(o, v, w) /\ EntriesFor(o, {e}, w)
  <2>1. RefsOf(e) = {x \in Variables : w[x] = o}
    BY <1>5, <1>6, <1>8
  <2> QED  BY <1>6, <1>8, <2>1 DEF OnlyOf, EntriesFor
<1>10. Agree(u, w)
  <2>1. EntriesOf(u) = {x \in EntriesOf(t) : x.referent # o} \cup {e}
    BY <1>4, <1>7
  <2> QED  BY <1>9, <2>1, AgreesAfter
<1> QED
  BY <1>7, <1>10

\* weak_register_no_lock, of an object that has none
LEMMA RegisteredNew ==
  ASSUME NEW t, TableOK(t), NEW v, Agree(t, v), NEW o \in Referents,
         NEW l \in Variables, v[l] = Nil, NEW w, w = [v EXCEPT ![l] = o],
         \A i \in DOMAIN t.b : t.b[i].referent # o
  PROVE  LET u == InsertEntry(Grown(t), NewEntry(o, l))
         IN TableOK(u) /\ Agree(u, w)
<1>1. PICK g : g = Grown(t)
  OBVIOUS
<1>2. PICK e : e = NewEntry(o, l)
  OBVIOUS
<1>3. PICK u : u = InsertEntry(g, e)
  OBVIOUS
<1>4. TableOK(g) /\ g.num + 1 < Size(g.b) /\ EntriesOf(g) = EntriesOf(t)
  BY <1>1, GrownOK
<1>5. EntryOK(e) /\ e.referent = o /\ RefsOf(e) = {l}
  BY <1>2, NewEntryIs
<1>6. \A x \in EntriesOf(t) : x.referent # o
  BY EntryHasReferent
<1>7. TableOK(u) /\ EntriesOf(u) = EntriesOf(t) \cup {e}
  <2>1. e \in EntryShapes /\ e.referent \in Referents
    BY <1>5 DEF EntryOK
  <2>2. \A x \in EntriesOf(g) : x.referent # e.referent
    BY <1>4, <1>5, <1>6
  <2> QED  BY <1>3, <1>4, <2>1, <2>2, EntryAdded
<1>8. v \in [Variables -> Referents \cup {Nil}] /\ o # Nil
  BY TableNilAssumption DEF Agree
<1>9. w \in [Variables -> Referents \cup {Nil}]
      /\ \A x \in Variables : w[x] = IF x = l THEN o ELSE v[x]
  BY <1>8
<1>10. \A x \in Variables : v[x] # o
  BY <1>6, <1>8 DEF Agree
<1>11. OnlyOf(o, v, w) /\ EntriesFor(o, {e}, w)
  <2>1. RefsOf(e) = {x \in Variables : w[x] = o}
    BY <1>5, <1>9, <1>10
  <2> QED  BY <1>5, <1>9, <2>1 DEF OnlyOf, EntriesFor
<1>12. Agree(u, w)
  <2>1. EntriesOf(u) = {x \in EntriesOf(t) : x.referent # o} \cup {e}
    BY <1>6, <1>7
  <2> QED  BY <1>11, <2>1, AgreesAfter
<1> QED
  BY <1>1, <1>2, <1>3, <1>7, <1>12

\* weak_unregister_no_lock: the entry goes with its last referrer.
LEMMA UnregisteredFrom ==
  ASSUME NEW t, TableOK(t), NEW v, Agree(t, v), NEW o \in Referents,
         NEW l \in Variables, v[l] = o, NEW w, w = [v EXCEPT ![l] = Nil],
         NEW i \in DOMAIN t.b, t.b[i].referent = o,
         NEW e, e = RemoveReferrer(t.b[i], l),
         NEW u, u = IF LooksEmpty(e) THEN RemoveEntry(t, i) ELSE [t EXCEPT !.b[i] = e]
  PROVE  TableOK(u) /\ Agree(u, w)
<1>1. o # Nil
  BY TableNilAssumption
<1>2. PICK d : d = t.b[i]
  OBVIOUS
<1>3. d \in EntriesOf(t) /\ Others(t, i) = {x \in EntriesOf(t) : x.referent # o}
  BY <1>1, <1>2, EntriesAre
<1>4. v \in [Variables -> Referents \cup {Nil}] /\ EntryOK(d) /\ d.referent = o
      /\ RefsOf(d) = {x \in Variables : v[x] = o}
  BY <1>2, <1>3 DEF Agree
<1>5. EntryOK(e) /\ e.referent = o /\ RefsOf(e) = RefsOf(d) \ {l}
  BY <1>2, <1>4, Removed
<1>6. w \in [Variables -> Referents \cup {Nil}]
      /\ \A x \in Variables : w[x] = IF x = l THEN Nil ELSE v[x]
  BY <1>4
<1>7. OnlyOf(o, v, w) /\ RefsOf(e) = {x \in Variables : w[x] = o}
  <2>1. RefsOf(e) = {x \in Variables : w[x] = o}
    BY <1>1, <1>4, <1>5, <1>6
  <2> QED  BY <1>6, <2>1 DEF OnlyOf
<1>8. CASE LooksEmpty(e)
  <2>1. RefsOf(e) = {}
    BY <1>5, <1>8, Untouched DEF EntryOK
  <2>2. EntriesFor(o, {}, w)
    BY <1>7, <2>1 DEF EntriesFor
  <2>3. TableOK(u) /\ EntriesOf(u) = Others(t, i)
    BY <1>1, <1>8, EntryRemoved
  <2>4. EntriesOf(u) = {x \in EntriesOf(t) : x.referent # o} \cup {}
    BY <1>3, <2>3
  <2> QED  BY <1>7, <2>2, <2>3, <2>4, AgreesAfter
<1>9. CASE ~LooksEmpty(e)
  <2>1. EntriesFor(o, {e}, w)
    BY <1>5, <1>7 DEF EntriesFor
  <2>2. TableOK(u) /\ EntriesOf(u) = Others(t, i) \cup {e}
    <3>1. e \in EntryShapes
      BY <1>5 DEF EntryOK
    <3>2. u = [t EXCEPT !.b[i] = e]
      BY <1>9
    <3>3. t.b[i].referent # Nil /\ e.referent = t.b[i].referent
      BY <1>1, <1>5
    <3> QED  BY <3>1, <3>2, <3>3, EntryReplaced
  <2>3. EntriesOf(u) = {x \in EntriesOf(t) : x.referent # o} \cup {e}
    BY <1>3, <2>2
  <2> QED  BY <1>7, <2>1, <2>2, <2>3, AgreesAfter
<1> QED
  BY <1>8, <1>9

\* weak_clear_no_lock
LEMMA ClearedOf ==
  ASSUME NEW t, TableOK(t), NEW v, Agree(t, v), NEW o \in Referents,
         NEW i \in DOMAIN t.b, t.b[i].referent = o,
         NEW w, w = [l \in Variables |->
                       IF v[l] = o /\ (\E j \in DOMAIN t.b[i].refs : t.b[i].refs[j] = l)
                       THEN Nil ELSE v[l]]
  PROVE  TableOK(RemoveEntry(t, i)) /\ Agree(RemoveEntry(t, i), w)
<1>1. o # Nil
  BY TableNilAssumption
<1>2. PICK d : d = t.b[i]
  OBVIOUS
<1>3. d \in EntriesOf(t) /\ Others(t, i) = {x \in EntriesOf(t) : x.referent # o}
  BY <1>1, <1>2, EntriesAre
<1>4. v \in [Variables -> Referents \cup {Nil}] /\ RefsOf(d) = {x \in Variables : v[x] = o}
  BY <1>2, <1>3 DEF Agree
<1>5. \A l \in Variables : w[l] = IF v[l] = o THEN Nil ELSE v[l]
  BY <1>2, <1>4 DEF RefsOf
<1>6. w \in [Variables -> Referents \cup {Nil}]
  <2>1. \A l \in Variables : w[l] \in Referents \cup {Nil}
    BY <1>4, <1>5
  <2>2. w = [l \in Variables |-> w[l]]
    OBVIOUS
  <2> QED  BY <2>1, <2>2
<1>7. OnlyOf(o, v, w) /\ EntriesFor(o, {}, w)
  BY <1>1, <1>5, <1>6 DEF OnlyOf, EntriesFor
<1>8. PICK u : u = RemoveEntry(t, i)
  OBVIOUS
<1>9. TableOK(u) /\ EntriesOf(u) = {x \in EntriesOf(t) : x.referent # o} \cup {}
  BY <1>1, <1>3, <1>8, EntryRemoved
<1>10. Agree(u, w)
  BY <1>7, <1>9, AgreesAfter
<1> QED
  BY <1>8, <1>9, <1>10

\* SetTable(t) stores t.
LEMMA TableStored ==
  ASSUME NEW CONSTANT t, TableOK(t), SetTable(t)
  PROVE  Table' = t
<1>1. t \in TableShapes
  BY DEF TableOK, Placed
<1>2. t = [b |-> t.b, num |-> t.num, max |-> t.max]
  BY <1>1 DEF TableShapes
<1>3. Table' = [b |-> t.b, num |-> t.num, max |-> t.max]
  BY DEF SetTable, Table
<1> QED
  BY <1>2, <1>3

\* An operation leads to a table and variables that are computed from the old.
LEMMA StepStored ==
  ASSUME NEW CONSTANT t, NEW CONSTANT v, TableOK(t), Agree(t, v), SetTable(t), value' = v
  PROVE  TableInv'
<1>1. Table' = t
  BY TableStored
<1>2. TableOK(Table') /\ Agree(Table', value')
  BY <1>1
<1> QED
  BY <1>2 DEF TableInv

LEMMA TableStarts == TableInit => TableInv
<1> SUFFICES ASSUME TableInit PROVE TableInv
  OBVIOUS
<1>1. PICK t : t = Table
  OBVIOUS
<1>2. t.b = Buckets(0, NoEntry) /\ t.num = 0 /\ t.max = 0
      /\ t = [b |-> t.b, num |-> t.num, max |-> t.max]
  BY <1>1 DEF TableInit, Table
<1>3. t.b \in Tables(0) /\ DOMAIN t.b = 0..0 - 1
  BY <1>2 DEF Buckets, Tables
<1>4. t \in TableShapes /\ Size(t.b) = 0
  BY <1>2, <1>3, SizeIs DEF TableShapes
<1>5. ReferentsOf(t) = [i \in 0..0 - 1 |-> Nil]
  BY <1>3 DEF ReferentsOf
<1>6. Hashed(ReferentsOf(t), 0, 0) /\ Cardinality(Used(ReferentsOf(t))) = 0
  BY <1>5, NoKeys
<1>7. TableOK(t)
  BY <1>2, <1>4, <1>6 DEF TableOK, Placed
<1>8. EntriesOf(t) = {}
  BY <1>5 DEF EntriesOf, Used
<1>9. Agree(t, value)
  BY <1>8 DEF Agree, TableInit
<1> QED
  BY <1>1, <1>7, <1>9 DEF TableInv

LEMMA WeakRegisterKeeps ==
  ASSUME TableInv, NEW o \in Referents, NEW l \in Variables, WeakRegister(o, l)
  PROVE  TableInv'
<1>1. PICK t, v, w : t = Table /\ v = value /\ w = [v EXCEPT ![l] = o]
  OBVIOUS
<1>2. TableOK(t) /\ Agree(t, v) /\ v[l] = Nil /\ value' = w
  BY <1>1 DEF TableInv, WeakRegister
<1>3. EntryFor(t, o) = {i \in DOMAIN t.b : t.b[i].referent = o}
  BY <1>2, EntryForIs
<1>4. CASE EntryFor(t, o) # {}
  <2>1. PICK i \in EntryFor(t, o) : SetTable([t EXCEPT !.b[i] = AppendReferrer(@, l)])
    BY <1>1, <1>4 DEF WeakRegister
  <2>2. i \in DOMAIN t.b /\ t.b[i].referent = o
    BY <1>3, <2>1
  <2>3. PICK u : u = [t EXCEPT !.b[i] = AppendReferrer(@, l)]
    OBVIOUS
  <2>4. TableOK(u) /\ Agree(u, w)
    BY <1>1, <1>2, <2>2, <2>3, RegisteredInEntry
  <2> QED  BY <1>2, <2>1, <2>3, <2>4, StepStored
<1>5. CASE EntryFor(t, o) = {}
  <2>1. PICK u : u = InsertEntry(Grown(t), NewEntry(o, l))
    OBVIOUS
  <2>2. SetTable(u)
    BY <1>1, <1>5, <2>1 DEF WeakRegister
  <2>3. \A i \in DOMAIN t.b : t.b[i].referent # o
    BY <1>3, <1>5
  <2>4. TableOK(u) /\ Agree(u, w)
    BY <1>1, <1>2, <2>1, <2>3, RegisteredNew
  <2> QED  BY <1>2, <2>2, <2>4, StepStored
<1> QED
  BY <1>4, <1>5

LEMMA WeakUnregisterKeeps ==
  ASSUME TableInv, NEW l \in Variables, WeakUnregister(l)
  PROVE  TableInv'
<1>1. PICK t, v, w, o : t = Table /\ v = value /\ w = [v EXCEPT ![l] = Nil] /\ o = v[l]
  OBVIOUS
<1>2. TableOK(t) /\ Agree(t, v) /\ o # Nil /\ value' = w
  BY <1>1 DEF TableInv, WeakUnregister
<1>3. o \in Referents
  BY <1>1, <1>2 DEF Agree
<1>4. EntryFor(t, o) = {i \in DOMAIN t.b : t.b[i].referent = o}
  BY <1>2, <1>3, EntryForIs
<1>5. EntryFor(t, o) # {}
  <2>1. PICK e \in EntriesOf(t) : e.referent = o
    BY <1>1, <1>2 DEF Agree
  <2> QED  BY <1>4, <2>1, EntryHasReferent
<1>6. PICK i \in EntryFor(t, o) :
        LET e == RemoveReferrer(t.b[i], l)
        IN SetTable(IF LooksEmpty(e) THEN RemoveEntry(t, i) ELSE [t EXCEPT !.b[i] = e])
  BY <1>1, <1>5 DEF WeakUnregister, Table
<1>7. i \in DOMAIN t.b /\ t.b[i].referent = o
  BY <1>4, <1>6
<1>8. PICK e : e = RemoveReferrer(t.b[i], l)
  OBVIOUS
<1>9. PICK u : u = IF LooksEmpty(e) THEN RemoveEntry(t, i) ELSE [t EXCEPT !.b[i] = e]
  OBVIOUS
<1>10. TableOK(u) /\ Agree(u, w)
  <2>1. v[l] = o /\ w = [v EXCEPT ![l] = Nil]
    BY <1>1
  <2> QED  BY <1>2, <1>3, <1>7, <1>8, <1>9, <2>1, UnregisteredFrom
<1> QED
  BY <1>2, <1>6, <1>8, <1>9, <1>10, StepStored

LEMMA WeakClearKeeps ==
  ASSUME TableInv, NEW o \in Referents, WeakClear(o)
  PROVE  TableInv'
<1>1. PICK t, v : t = Table /\ v = value
  OBVIOUS
<1>2. TableOK(t) /\ Agree(t, v)
  BY <1>1 DEF TableInv
<1>3. EntryFor(t, o) = {i \in DOMAIN t.b : t.b[i].referent = o}
  BY <1>2, EntryForIs
<1>4. PICK i \in EntryFor(t, o) :
        /\ value' = [l \in Variables |->
                       IF l \in {x \in Variables : v[x] = o
                                              /\ \E j \in DOMAIN t.b[i].refs : t.b[i].refs[j] = x}
                       THEN Nil ELSE v[l]]
        /\ SetTable(RemoveEntry(t, i))
  BY <1>1 DEF WeakClear, Table
<1>5. i \in DOMAIN t.b /\ t.b[i].referent = o
  BY <1>3, <1>4
<1>6. PICK w : w = [l \in Variables |->
                      IF v[l] = o /\ (\E j \in DOMAIN t.b[i].refs : t.b[i].refs[j] = l)
                      THEN Nil ELSE v[l]]
  OBVIOUS
<1>7. PICK u : u = RemoveEntry(t, i)
  OBVIOUS
<1>8. TableOK(u) /\ Agree(u, w)
  BY <1>2, <1>5, <1>6, <1>7, ClearedOf
<1>9. value' = w
  BY <1>4, <1>6
<1> QED
  BY <1>4, <1>7, <1>8, <1>9, StepStored

\* The inductive invariant of the weak table
LEMMA TableInvHolds == TableSpec => []TableInv
<1>1. TableInit => TableInv
  BY TableStarts
<1>2. TableInv /\ [TableNext]_tableVars => TableInv'
  <2> SUFFICES ASSUME TableInv, [TableNext]_tableVars PROVE TableInv'
    OBVIOUS
  <2>1. ASSUME NEW o \in Referents, NEW l \in MayHold[o], WeakRegister(o, l) PROVE TableInv'
    <3>1. l \in Variables
      BY MayHoldAssumption
    <3> QED  BY <2>1, <3>1, WeakRegisterKeeps
  <2>2. ASSUME NEW l \in Variables, WeakUnregister(l) PROVE TableInv'
    BY <2>2, WeakUnregisterKeeps
  <2>3. ASSUME NEW o \in Referents, WeakClear(o) PROVE TableInv'
    BY <2>3, WeakClearKeeps
  <2>4. CASE UNCHANGED tableVars
    <3>1. Table' = Table /\ value' = value
      BY <2>4 DEF tableVars, Table
    <3>2. TableOK(Table') /\ Agree(Table', value')
      BY <3>1 DEF TableInv
    <3> QED  BY <3>2 DEF TableInv
  <2> QED  BY <2>1, <2>2, <2>3, <2>4 DEF TableNext
<1> QED
  BY <1>1, <1>2, PTL DEF TableSpec

\* The entries are the used buckets.
LEMMA EntriesUsed ==
  ASSUME TableInv
  PROVE  \E n \in Nat :
           /\ n = Size(entries) /\ entries \in Tables(n) /\ DOMAIN entries = 0..n - 1
           /\ Entries = Used(ReferentsOf(Table)) /\ Once(ReferentsOf(Table))
           /\ num_entries = Cardinality(Entries)
           /\ n > 0 => num_entries < n /\ max_displacement + 1 < n
           /\ \A i \in Entries : /\ i \in 0..n - 1 /\ entries[i] \in EntriesOf(Table)
                                 /\ ReferentsOf(Table)[i] = entries[i].referent
<1>1. PICK t : t = Table
  OBVIOUS
<1>2. TableOK(t) /\ t.b = entries /\ t.num = num_entries /\ t.max = max_displacement
  BY <1>1 DEF TableInv, Table
<1>3. PICK n \in Nat :
        /\ n = Size(t.b) /\ Placed(t, n) /\ t.b \in Tables(n)
        /\ DOMAIN t.b = 0..n - 1 /\ DOMAIN ReferentsOf(t) = 0..n - 1
        /\ \A i \in 0..n - 1 : ReferentsOf(t)[i] = t.b[i].referent
        /\ n > 0 => t.num < n /\ t.max + 1 < n
  BY <1>2, TableOKFacts
<1>4. Entries = Used(ReferentsOf(t))
  BY <1>2, <1>3 DEF Entries, Used
<1>5. Once(ReferentsOf(t)) /\ num_entries = Cardinality(Entries)
  BY <1>2, <1>3, <1>4 DEF Placed, Hashed
<1>6. \A i \in Entries : /\ i \in 0..n - 1 /\ entries[i] \in EntriesOf(t)
                         /\ ReferentsOf(t)[i] = entries[i].referent
  BY <1>2, <1>3, <1>4 DEF EntriesOf, Used
<1> QED
  BY <1>1, <1>2, <1>3, <1>4, <1>5, <1>6

\* The properties follow from the invariant.
LEMMA InvAgrees == TableInv => LookupsAgree
<1> SUFFICES ASSUME TableInv PROVE LookupsAgree
  OBVIOUS
<1>1. PICK t, v : t = Table /\ v = value
  OBVIOUS
<1>2. TableOK(t) /\ Agree(t, v) /\ t.b = entries
  BY <1>1 DEF TableInv, Table
<1>3. ASSUME NEW o \in Referents, NEW l \in Variables
      PROVE  (\E i \in EntryFor(Table, o) : Refers(entries[i], l)) <=> value[l] = o
  <2>1. EntryFor(t, o) = {i \in DOMAIN t.b : t.b[i].referent = o} /\ o # Nil
    BY <1>2, EntryForIs, TableNilAssumption
  <2>2. ASSUME NEW i \in DOMAIN t.b, t.b[i].referent = o
        PROVE  Refers(t.b[i], l) <=> v[l] = o
    <3>1. PICK e : e = t.b[i]
      OBVIOUS
    <3>2. e \in EntriesOf(t)
      BY <1>2, <2>1, <2>2, <3>1, EntriesAre
    <3>3. EntryOK(e) /\ RefsOf(e) = {x \in Variables : v[x] = o}
      BY <1>2, <2>2, <3>1, <3>2 DEF Agree
    <3>4. Refers(e, l) <=> l \in RefsOf(e)
      BY <3>3, RefersIs
    <3> QED  BY <3>1, <3>3, <3>4
  <2>3. ASSUME v[l] = o PROVE \E i \in DOMAIN t.b : t.b[i].referent = o
    <3>1. PICK e \in EntriesOf(t) : e.referent = v[l]
      BY <1>2, <2>1, <2>3 DEF Agree
    <3> QED  BY <2>3, <3>1, EntryHasReferent
  <2>4. EntryFor(Table, o) = EntryFor(t, o)
    BY <1>1
  <2> QED  BY <1>1, <1>2, <2>1, <2>2, <2>3, <2>4
<1>4. PICK n \in Nat :
           /\ n = Size(entries) /\ DOMAIN entries = 0..n - 1
           /\ Entries = Used(ReferentsOf(Table)) /\ Once(ReferentsOf(Table))
           /\ \A i \in Entries : /\ i \in 0..n - 1 /\ entries[i] \in EntriesOf(Table)
                                 /\ ReferentsOf(Table)[i] = entries[i].referent
  BY EntriesUsed
<1>5. ASSUME NEW i \in Entries, NEW l \in Variables
      PROVE  Cardinality({j \in DOMAIN entries[i].refs : entries[i].refs[j] = l}) =
               IF value[l] = entries[i].referent THEN 1 ELSE 0
  <2>1. PICK e : e = entries[i]
    OBVIOUS
  <2>2. e \in EntriesOf(t)
    BY <1>1, <1>4, <2>1
  <2>3. EntryOK(e) /\ RefsOf(e) = {x \in Variables : v[x] = e.referent}
    BY <1>2, <2>2 DEF Agree
  <2>4. Once(e.refs) /\ l # Nil
    BY <2>3, TableNilAssumption DEF EntryOK, Hashed
  <2> DEFINE J == {j \in DOMAIN e.refs : e.refs[j] = l}
  <2>5. CASE v[l] = e.referent
    <3>1. PICK j \in DOMAIN e.refs : e.refs[j] = l
      BY <2>3, <2>5 DEF RefsOf
    <3>2. J = {j}
      BY <2>4, <3>1 DEF Once, Used
    <3>3. Cardinality(J) = 1
      BY <3>2, FS_Singleton
    <3> QED  BY <1>1, <2>1, <2>5, <3>3
  <2>6. CASE v[l] # e.referent
    <3>1. J = {}
      BY <2>3, <2>6 DEF RefsOf
    <3>2. Cardinality(J) = 0
      BY <3>1, FS_EmptySet
    <3> QED  BY <1>1, <2>1, <2>6, <3>2
  <2> QED  BY <2>5, <2>6
<1>6. \A i, j \in Entries : entries[i].referent = entries[j].referent => i = j
  BY <1>4 DEF Once
<1> QED
  BY <1>3, <1>5, <1>6 DEF LookupsAgree

LEMMA InvEnds == TableInv => SearchesEnd
<1> SUFFICES ASSUME TableInv PROVE SearchesEnd
  OBVIOUS
<1>1. PICK n \in Nat :
           /\ n = Size(entries) /\ entries \in Tables(n) /\ DOMAIN entries = 0..n - 1
           /\ num_entries = Cardinality(Entries)
           /\ n > 0 => num_entries < n /\ max_displacement + 1 < n
           /\ \A i \in Entries : entries[i] \in EntriesOf(Table)
  BY EntriesUsed
<1>2. entries # <<>> => n > 0
  <2> SUFFICES ASSUME n = 0 PROVE entries = <<>>
    BY <1>1
  <2>1. entries \in [1..0 -> EntryShapes]
    BY <1>1 DEF Tables
  <2>2. entries \in Seq(EntryShapes) /\ Len(entries) = 0
    BY <2>1
  <2> QED  BY <2>2, EmptySeq
<1>3. ASSUME NEW i \in Entries, entries[i].out
      PROVE  LET e == entries[i]
             IN /\ e.num = Cardinality({j \in DOMAIN e.refs : e.refs[j] # Nil})
                /\ e.num < Size(e.refs) /\ e.max + 1 < Size(e.refs)
  <2>1. EntryOK(entries[i])
    BY <1>1 DEF TableInv, Agree
  <2> QED  BY <1>3, <2>1 DEF EntryOK, Used
<1> QED
  BY <1>1, <1>2, <1>3 DEF SearchesEnd

\* For every set of objects and variables, every hash function and all sizes:
\* a search in the weak table finds a variable among the referrers of an object
\* exactly when the variable holds the object, once, through every growth,
\* compaction and reuse of buckets (objc-weak.mm).
THEOREM LookupsAreRight == TableSpec => []LookupsAgree
BY TableInvHolds, InvAgrees, PTL

\* No search of the weak table, or of the hash set of an entry, gets back to
\* where it began: some bucket is empty and the largest displacement is short
\* of the size, so that bad_weak_table is never reported of a sound table.
THEOREM SearchesStop == TableSpec => []SearchesEnd
BY TableInvHolds, InvEnds, PTL
=============================================================================
