--------------------------- MODULE LoadMethodsProofs ---------------------------
(***************************************************************************)
(* Theorems about LoadMethods, for any threads, images, classes and        *)
(* categories, and their proofs.                                           *)
(*                                                                         *)
(* The argument: the flag `loading' leaves one call of call_load_methods   *)
(* in its loop (OneActive), so that one list is detached and one +load     *)
(* runs.  Whatever was scheduled is over, running, detached or waiting,    *)
(* and in one place only (Accounted).  Each class waits behind those above *)
(* it (InOrder), and the categories are detached when no class waits.      *)
(***************************************************************************)
EXTENDS LoadMethods, SequenceTheorems, TLAPS

(***************************************************************************)
(* The calls of the threads. s stands for the variable stack.              *)
(***************************************************************************)
Looping == {"loop", "classes", "categories", "pool"}

\* What a call holds.
KindOK(f) ==
  /\ f.pc = "load" => f.on \in Items /\ f.list = <<>>
  /\ f.pc # "load" => f.on \in Images
  /\ f.pc = "prepare" => f.list \in Seq(Classes)
  /\ f.pc = "classes" => f.list \in Seq(Classes \cup {none})
  /\ f.pc = "categories" => f.list \in Seq(Categories \cup {none})
  /\ f.pc \in {"open", "lock", "call", "loop", "pool"} => f.list = <<>>

\* A call f that g has made.
Follows(g, f) ==
  CASE f.pc = "open" -> g.pc \in {"load", "pool"}
    [] f.pc = "load" -> \/ g.pc = "classes" /\ f.on \in Classes
                        \/ g.pc = "categories" /\ f.on \in Categories
    [] OTHER         -> g.pc = "open"

StackOK(q) ==
  \A i \in 1 .. Len(q) :
    /\ KindOK(q[i])
    /\ i = 1 => q[i].pc = "open"
    /\ i > 1 => Follows(q[i - 1], q[i])

\* The i-th call of t is in the loop of call_load_methods, or is a +load.
IsLooping(s, t, i) == i \in 1 .. Len(s[t]) /\ s[t][i].pc \in Looping
IsLoad(s, t, i) == i \in 1 .. Len(s[t]) /\ s[t][i].pc = "load"
Busy(s, t, i) == IsLooping(s, t, i) \/ IsLoad(s, t, i)

OneActive(s) ==
  \A t, u \in Threads : \A i, j \in Nat :
    IsLooping(s, t, i) /\ IsLooping(s, u, j) => t = u /\ i = j

Running(s) == {x \in Items : \E t \in Threads : \E i \in Nat :
                               IsLoad(s, t, i) /\ s[t][i].on = x}
Entries(q) == {q[k] : k \in 1 .. Len(q)} \ {none}
Left(s) == {x \in Items : \E t \in Threads : \E i \in Nat :
                            IsLooping(s, t, i) /\ x \in Entries(s[t][i].list)}

HoldsIn(s, t) == \E i \in 1 .. Len(s[t]) : s[t][i].pc \in Holding

CallsInv ==
  /\ \A t \in Threads : StackOK(stack[t])
  /\ OneActive(stack)
  /\ loading <=> \E t \in Threads : \E i \in Nat : IsLooping(stack, t, i)
  /\ \A t, u \in Threads : HoldsIn(stack, t) /\ HoldsIn(stack, u) => t = u

-----------------------------------------------------------------------------
(***************************************************************************)
(* The images and the flags.                                               *)
(***************************************************************************)
\* A call of thread t that begins with images.
OpenOK(t, f) ==
  /\ f.pc = "open" => \A j \in Needs(f.on) : /\ opener[j] # none
                                             /\ j \in prepared \/ opener[j] = t
  /\ f.pc \in {"lock", "prepare"} => /\ f.on \notin prepared /\ opener[f.on] = t
                                     /\ Links[f.on] \subseteq prepared
  /\ f.pc = "prepare" =>
       /\ Of(f.on) \cap HasLoad \subseteq loaded \cup Entries(f.list)
       /\ \A c \in Entries(f.list) : ImageOf[c] \in Needs(f.on)

ImagesInv ==
  /\ \A i \in prepared : /\ Links[i] \subseteq prepared
                         /\ Of(i) \cap HasLoad \subseteq loaded
  /\ \A c \in loaded : Above[c] \subseteq loaded /\ opener[ImageOf[c]] # none
  /\ \A t \in Threads : \A i \in 1 .. Len(stack[t]) : OpenOK(t, stack[t][i])

-----------------------------------------------------------------------------
(***************************************************************************)
(* What was scheduled.                                                     *)
(***************************************************************************)
Queued == Entries(loadable_classes) \cup Entries(loadable_categories)
Scheduled == (loaded \cap HasLoad) \cup {x \in Categories : ImageOf[x] \in prepared}

Accounted ==
  /\ done \cup Running(stack) \cup Left(stack) \cup Queued = Scheduled
  /\ done \cap (Running(stack) \cup Left(stack) \cup Queued) = {}
  /\ Running(stack) \cap (Left(stack) \cup Queued) = {}
  /\ Left(stack) \cap Queued = {}

\* No entry is in a list twice.
Once(q) == \A j, k \in 1 .. Len(q) : q[j] = q[k] /\ q[j] # none => j = k

\* What must come before an entry is in `before', or before it in the list.
InOrder(q, before) ==
  \A k \in 1 .. Len(q) :
    q[k] # none => Earlier(q[k]) \subseteq before \cup {q[j] : j \in 1 .. k - 1}

\* A list that was detached, or a +load.
CallOrder(f) ==
  /\ f.pc = "load" => Earlier(f.on) \subseteq done
  /\ f.pc = "classes" => Once(f.list) /\ InOrder(f.list, done \cup Running(stack))
  /\ f.pc = "categories" =>
       /\ Once(f.list)
       /\ \A x \in Entries(f.list) : Earlier(x) \subseteq done

OrderInv ==
  /\ Once(loadable_classes) /\ Once(loadable_categories)
  /\ InOrder(loadable_classes, done \cup Running(stack) \cup Left(stack))
  /\ \A x \in Entries(loadable_categories) : Earlier(x) \subseteq loaded
  /\ \A t \in Threads : \A i \in 1 .. Len(stack[t]) : CallOrder(stack[t][i])

\* A loop goes on until it has seen both lists empty.
Working(s) == \E t \in Threads : \E i \in Nat : IsLooping(s, t, i) /\ s[t][i].pc # "pool"

\* Image i is being scheduled by t, which calls call_load_methods next.
Adds(t, i) == (At(t, "prepare") \/ At(t, "call")) /\ Top(t).on = i

\* Nothing waits unless somebody will go on with it, but for the images that the
\* end of a pool pop has left behind.
WorkInv ==
  \/ Working(stack)
  \/ \A x \in Queued : \/ ImageOf[x] \in missed
                       \/ \E t \in Threads : Adds(t, ImageOf[x])

Inv == TypeOK /\ CallsInv /\ ImagesInv /\ Accounted /\ OrderInv /\ WorkInv

-----------------------------------------------------------------------------
(***************************************************************************)
(* Steps that change the calls of one thread.                              *)
(***************************************************************************)
StackType == stack \in [Threads -> Seq(Calls)]

LEMMA TopFacts ==
  ASSUME StackType, NEW t \in Threads, ~Idle(t)
  PROVE  /\ Len(stack[t]) \in Nat \ {0} /\ stack[t] \in Seq(Calls)
         /\ Len(stack[t]) \in 1 .. Len(stack[t])
         /\ Top(t) \in Calls /\ Top(t) = stack[t][Len(stack[t])]
BY DEF StackType, Idle, Top

\* The cells of the other calls stay.
OthersStay(t, n) ==
  /\ \A u \in Threads : u # t => stack'[u] = stack[u]
  /\ \A i \in 1 .. n : stack'[t][i] = stack[t][i]

LEMMA GotoCells ==
  ASSUME StackType, NEW t \in Threads, ~Idle(t), NEW f \in Calls, Goto(t, f)
  PROVE  /\ stack' \in [Threads -> Seq(Calls)]
         /\ Len(stack'[t]) = Len(stack[t]) /\ stack'[t][Len(stack[t])] = f
         /\ OthersStay(t, Len(stack[t]) - 1)
<1> DEFINE n == Len(stack[t])
           b == SubSeq(stack[t], 1, n - 1)
<1>1. n \in Nat \ {0} /\ stack[t] \in Seq(Calls)
  BY TopFacts
<1>2. b \in Seq(Calls) /\ Len(b) = n - 1 /\ \A i \in 1 .. n - 1 : b[i] = stack[t][i]
  BY <1>1, SubSeqProperties
<1>3. stack' = [stack EXCEPT ![t] = Append(b, f)]
  BY DEF Goto, Below
<1> HIDE DEF b
<1>4. /\ Append(b, f) \in Seq(Calls) /\ Len(Append(b, f)) = n
      /\ Append(b, f)[n] = f /\ \A i \in 1 .. n - 1 : Append(b, f)[i] = b[i]
  BY <1>1, <1>2, AppendProperties
<1> QED  BY <1>1, <1>2, <1>3, <1>4 DEF OthersStay, StackType

LEMMA PushCells ==
  ASSUME StackType, NEW t \in Threads, NEW f \in Calls,
         stack' = [stack EXCEPT ![t] = Append(@, f)]
  PROVE  /\ stack' \in [Threads -> Seq(Calls)]
         /\ Len(stack'[t]) = Len(stack[t]) + 1 /\ stack'[t][Len(stack[t]) + 1] = f
         /\ OthersStay(t, Len(stack[t])) /\ Len(stack[t]) \in Nat
<1>1. stack[t] \in Seq(Calls) /\ Len(stack[t]) \in Nat
  BY DEF StackType
<1>2. stack'[t] = Append(stack[t], f)
  BY DEF StackType
<1>3. /\ Append(stack[t], f) \in Seq(Calls)
      /\ Len(Append(stack[t], f)) = Len(stack[t]) + 1
      /\ Append(stack[t], f)[Len(stack[t]) + 1] = f
      /\ \A i \in 1 .. Len(stack[t]) : Append(stack[t], f)[i] = stack[t][i]
  BY <1>1, AppendProperties
<1> QED  BY <1>1, <1>2, <1>3 DEF OthersStay, StackType

LEMMA ReturnCells ==
  ASSUME StackType, NEW t \in Threads, ~Idle(t), Return(t)
  PROVE  /\ stack' \in [Threads -> Seq(Calls)]
         /\ Len(stack'[t]) = Len(stack[t]) - 1
         /\ OthersStay(t, Len(stack[t]) - 1)
<1> DEFINE n == Len(stack[t])
           b == SubSeq(stack[t], 1, n - 1)
<1>1. n \in Nat \ {0} /\ stack[t] \in Seq(Calls)
  BY TopFacts
<1>2. b \in Seq(Calls) /\ Len(b) = n - 1 /\ \A i \in 1 .. n - 1 : b[i] = stack[t][i]
  BY <1>1, SubSeqProperties
<1>3. stack' = [stack EXCEPT ![t] = b]
  BY DEF Return, Below
<1> HIDE DEF b
<1> QED  BY <1>1, <1>2, <1>3 DEF OthersStay, StackType

\* A call goes on, or makes a call.
LEMMA LastCellOK ==
  ASSUME stack' \in [Threads -> Seq(Calls)], NEW t \in Threads, StackType,
         NEW n \in Nat, Len(stack'[t]) = n + 1, OthersStay(t, n),
         n \in 0 .. Len(stack[t]),
         \A u \in Threads : StackOK(stack[u]), NEW f, stack'[t][n + 1] = f, KindOK(f),
         n = 0 => f.pc = "open", n > 0 => Follows(stack[t][n], f)
  PROVE  \A u \in Threads : StackOK(stack'[u])
<1> SUFFICES ASSUME NEW u \in Threads PROVE StackOK(stack'[u])
  OBVIOUS
<1>1. CASE u # t
  BY <1>1 DEF OthersStay
<1>2. CASE u = t
  <2> SUFFICES ASSUME NEW i \in 1 .. n + 1
               PROVE  /\ KindOK(stack'[t][i])
                      /\ i = 1 => stack'[t][i].pc = "open"
                      /\ i > 1 => Follows(stack'[t][i - 1], stack'[t][i])
    BY <1>2 DEF StackOK
  <2>1. CASE i = n + 1
    <3>1. n > 0 => stack'[t][n] = stack[t][n]
      BY DEF OthersStay
    <3> QED  BY <2>1, <3>1
  <2>2. CASE i # n + 1
    <3>1. i \in 1 .. n /\ i \in 1 .. Len(stack[t])
      BY <2>2 DEF StackType
    <3>a. \A j \in 1 .. n : stack'[t][j] = stack[t][j]
      BY DEF OthersStay
    <3>b. n \in Nat /\ (i > 1 => i - 1 \in 1 .. n)
      BY <3>1 DEF StackType
    <3>2. stack'[t][i] = stack[t][i] /\ (i > 1 => stack'[t][i - 1] = stack[t][i - 1])
      BY ONLY <3>1, <3>a, <3>b
    <3>3. /\ KindOK(stack[t][i])
          /\ i = 1 => stack[t][i].pc = "open"
          /\ i > 1 => Follows(stack[t][i - 1], stack[t][i])
      BY <3>1 DEF StackOK
    <3> QED  BY <3>2, <3>3
  <2> QED  BY <2>1, <2>2
<1> QED  BY <1>1, <1>2

\* The last call returns.
LEMMA ReturnOK ==
  ASSUME StackType, NEW t \in Threads, ~Idle(t), Return(t),
         \A u \in Threads : StackOK(stack[u])
  PROVE  \A u \in Threads : StackOK(stack'[u])
<1> SUFFICES ASSUME NEW u \in Threads PROVE StackOK(stack'[u])
  OBVIOUS
<1>1. /\ Len(stack'[t]) = Len(stack[t]) - 1 /\ Len(stack[t]) \in Nat \ {0}
      /\ OthersStay(t, Len(stack[t]) - 1)
  BY ReturnCells, TopFacts
<1>2. CASE u # t
  BY <1>1, <1>2 DEF OthersStay
<1>3. CASE u = t
  <2> SUFFICES ASSUME NEW i \in 1 .. Len(stack[t]) - 1
               PROVE  /\ KindOK(stack'[t][i])
                      /\ i = 1 => stack'[t][i].pc = "open"
                      /\ i > 1 => Follows(stack'[t][i - 1], stack'[t][i])
    BY <1>1, <1>3 DEF StackOK
  <2>1. i \in 1 .. Len(stack[t])
    BY <1>1
  <2>0. i > 1 => i - 1 \in 1 .. Len(stack[t]) - 1
    BY ONLY <1>1, i \in 1 .. Len(stack[t]) - 1
  <2>2. stack'[t][i] = stack[t][i] /\ (i > 1 => stack'[t][i - 1] = stack[t][i - 1])
    BY ONLY <1>1, <2>0, i \in 1 .. Len(stack[t]) - 1 DEF OthersStay
  <2>3. /\ KindOK(stack[t][i])
        /\ i = 1 => stack[t][i].pc = "open"
        /\ i > 1 => Follows(stack[t][i - 1], stack[t][i])
    BY <2>1 DEF StackOK
  <2> QED  BY <2>2, <2>3
<1> QED  BY <1>2, <1>3

\* Only the last call may be at work on something else than what it called.
LEMMA Middle ==
  ASSUME NEW q \in Seq(Calls), StackOK(q), NEW i \in 1 .. Len(q), i < Len(q)
  PROVE  /\ q[i].pc \in {"open", "classes", "categories", "load", "pool"}
         /\ q[i].pc \in {"classes", "categories"} => q[i + 1].pc = "load"
         /\ q[i].pc \in {"load", "pool"} => q[i + 1].pc = "open"
<1>1. i + 1 \in 1 .. Len(q) /\ i + 1 > 1 /\ (i + 1) - 1 = i
  OBVIOUS
<1>2. Follows(q[i], q[i + 1])
  BY <1>1 DEF StackOK
<1> QED  BY <1>2 DEF Follows

\* The calls of t change from the place n + 1 on.
Changes(t, n) ==
  /\ stack' \in [Threads -> Seq(Calls)]
  /\ n \in Nat /\ OthersStay(t, n)
  /\ n <= Len(stack[t]) /\ Len(stack[t]) <= n + 1
  /\ n <= Len(stack'[t]) /\ Len(stack'[t]) <= n + 1

\* No loop and no +load begins, goes on or ends.
Quiet ==
  \A u \in Threads : \A i \in Nat :
    /\ IsLooping(stack', u, i) <=> IsLooping(stack, u, i)
    /\ IsLoad(stack', u, i) <=> IsLoad(stack, u, i)
    /\ Busy(stack, u, i) => stack'[u][i] = stack[u][i]

LEMMA ChangesKept ==
  ASSUME StackType, NEW t \in Threads, NEW n, Changes(t, n), NEW u \in Threads,
         NEW i \in Nat, u # t \/ i <= n
  PROVE  /\ i \in 1 .. Len(stack'[u]) <=> i \in 1 .. Len(stack[u])
         /\ i \in 1 .. Len(stack[u]) => stack'[u][i] = stack[u][i]
<1>1. /\ Len(stack[t]) \in Nat /\ Len(stack'[t]) \in Nat /\ n \in Nat
      /\ n <= Len(stack[t]) /\ n <= Len(stack'[t])
  BY DEF Changes, StackType
<1>2. CASE u # t
  BY <1>2 DEF Changes, OthersStay
<1>3. CASE u = t /\ i <= n
  <2>1. i \in 1 .. Len(stack'[t]) <=> i \in 1 .. n
    BY <1>1, <1>3
  <2>2. i \in 1 .. Len(stack[t]) <=> i \in 1 .. n
    BY <1>1, <1>3
  <2>3. i \in 1 .. n => stack'[t][i] = stack[t][i]
    BY DEF Changes, OthersStay
  <2> QED  BY <1>3, <2>1, <2>2, <2>3
<1> QED  BY <1>2, <1>3

LEMMA ChangesLast ==
  ASSUME StackType, NEW t \in Threads, NEW n, Changes(t, n), NEW i \in Nat, ~(i <= n)
  PROVE  /\ i \in 1 .. Len(stack[t]) <=> Len(stack[t]) = n + 1 /\ i = n + 1
         /\ i \in 1 .. Len(stack'[t]) <=> Len(stack'[t]) = n + 1 /\ i = n + 1
<1>1. /\ Len(stack[t]) \in Nat /\ Len(stack'[t]) \in Nat /\ n \in Nat
      /\ Len(stack[t]) <= n + 1 /\ Len(stack'[t]) <= n + 1
  BY DEF Changes, StackType
<1> QED  BY <1>1

LEMMA IsQuiet ==
  ASSUME StackType, NEW t \in Threads, NEW n, Changes(t, n),
         Len(stack[t]) = n + 1 => stack[t][n + 1].pc \notin Looping \cup {"load"},
         Len(stack'[t]) = n + 1 => stack'[t][n + 1].pc \notin Looping \cup {"load"}
  PROVE  Quiet
<1> SUFFICES ASSUME NEW u \in Threads, NEW i \in Nat
             PROVE  /\ IsLooping(stack', u, i) <=> IsLooping(stack, u, i)
                    /\ IsLoad(stack', u, i) <=> IsLoad(stack, u, i)
                    /\ Busy(stack, u, i) => stack'[u][i] = stack[u][i]
  BY DEF Quiet
<1>1. CASE u # t \/ i <= n
  BY <1>1, ChangesKept DEF IsLooping, IsLoad, Busy
<1>2. CASE u = t /\ ~(i <= n)
  BY <1>2, ChangesLast DEF IsLooping, IsLoad, Busy
<1> QED  BY <1>1, <1>2

LEMMA QuietKeeps ==
  ASSUME Quiet
  PROVE  /\ OneActive(stack) => OneActive(stack')
         /\ Running(stack') = Running(stack) /\ Left(stack') = Left(stack)
         /\ (\E t \in Threads : \E i \in Nat : IsLooping(stack', t, i))
              <=> (\E t \in Threads : \E i \in Nat : IsLooping(stack, t, i))
         /\ Working(stack') <=> Working(stack)
<1>1. OneActive(stack) => OneActive(stack')
  BY DEF Quiet, OneActive
<1>2. Running(stack') = Running(stack)
  <2>1. ASSUME NEW u \in Threads, NEW i \in Nat, NEW x
        PROVE  IsLoad(stack', u, i) /\ stack'[u][i].on = x
                 <=> IsLoad(stack, u, i) /\ stack[u][i].on = x
    BY DEF Quiet, Busy
  <2>2. ASSUME NEW x \in Items PROVE x \in Running(stack') <=> x \in Running(stack)
    <3>1. ASSUME x \in Running(stack') PROVE x \in Running(stack)
      <4> PICK u \in Threads, i \in Nat : IsLoad(stack', u, i) /\ stack'[u][i].on = x
        BY <3>1 DEF Running
      <4>1. IsLoad(stack, u, i) /\ stack[u][i].on = x
        BY <2>1
      <4> QED  BY <4>1 DEF Running
    <3>2. ASSUME x \in Running(stack) PROVE x \in Running(stack')
      <4> PICK u \in Threads, i \in Nat : IsLoad(stack, u, i) /\ stack[u][i].on = x
        BY <3>2 DEF Running
      <4>1. IsLoad(stack', u, i) /\ stack'[u][i].on = x
        BY <2>1
      <4> QED  BY <4>1 DEF Running
    <3> QED  BY <3>1, <3>2
  <2>3. Running(stack') \subseteq Items /\ Running(stack) \subseteq Items
    BY DEF Running
  <2> QED  BY <2>2, <2>3
<1>3. Left(stack') = Left(stack)
  <2>1. ASSUME NEW u \in Threads, NEW i \in Nat, NEW x
        PROVE  IsLooping(stack', u, i) /\ x \in Entries(stack'[u][i].list)
                 <=> IsLooping(stack, u, i) /\ x \in Entries(stack[u][i].list)
    BY DEF Quiet, Busy
  <2> QED  BY <2>1 DEF Left
<1>4. Working(stack') <=> Working(stack)
  BY DEF Quiet, Working, Busy
<1> QED  BY <1>1, <1>2, <1>3, <1>4 DEF Quiet

LEMMA HoldsAre ==
  ASSUME StackType, NEW u \in Threads
  PROVE  Holds(u) <=> HoldsIn(stack, u)
BY DEF Holds, HoldsIn, Frames, Range, StackType

\* Who holds loadMethodLock after the change.
LEMMA HoldersStay ==
  ASSUME StackType, NEW t \in Threads, NEW n, Changes(t, n), CallsInv,
         Len(stack'[t]) = n + 1 /\ stack'[t][n + 1].pc \in Holding
           => HoldsIn(stack, t) \/ LockFree(t)
  PROVE  \A u, w \in Threads : HoldsIn(stack', u) /\ HoldsIn(stack', w) => u = w
<1>1. ASSUME NEW u \in Threads, HoldsIn(stack', u)
      PROVE  HoldsIn(stack, u) \/ (u = t /\ LockFree(t))
  <2> PICK i \in 1 .. Len(stack'[u]) : stack'[u][i].pc \in Holding
    BY <1>1 DEF HoldsIn
  <2>0. Len(stack'[u]) \in Nat
    BY DEF Changes
  <2> i \in Nat
    BY <2>0
  <2>1. CASE u # t \/ i <= n
    <3>1. i \in 1 .. Len(stack[u]) /\ stack'[u][i] = stack[u][i]
      BY <2>1, ChangesKept
    <3> QED  BY <3>1 DEF HoldsIn
  <2>2. CASE u = t /\ ~(i <= n)
    BY <2>2, ChangesLast
  <2> QED  BY <2>1, <2>2
<1> SUFFICES ASSUME NEW u \in Threads, NEW w \in Threads,
                    HoldsIn(stack', u), HoldsIn(stack', w), u # w
             PROVE  FALSE
  OBVIOUS
<1>2. \/ HoldsIn(stack, u) /\ HoldsIn(stack, w)
      \/ LockFree(t) /\ u = t /\ HoldsIn(stack, w)
      \/ LockFree(t) /\ w = t /\ HoldsIn(stack, u)
  BY <1>1
<1>3. LockFree(t) => \A v \in Threads \ {t} : ~HoldsIn(stack, v)
  BY HoldsAre DEF LockFree
<1> QED  BY <1>2, <1>3 DEF CallsInv

LEMMA QuietStep ==
  ASSUME StackType, CallsInv, NEW t \in Threads, NEW n, Changes(t, n),
         Len(stack[t]) = n + 1 => stack[t][n + 1].pc \notin Looping \cup {"load"},
         Len(stack'[t]) = n + 1 => stack'[t][n + 1].pc \notin Looping \cup {"load"},
         Len(stack'[t]) = n + 1 /\ stack'[t][n + 1].pc \in Holding
           => HoldsIn(stack, t) \/ LockFree(t),
         \A u \in Threads : StackOK(stack'[u]), loading' = loading
  PROVE  CallsInv' /\ Quiet
<1>1. Quiet
  BY IsQuiet
<1>2. \A u, w \in Threads : HoldsIn(stack', u) /\ HoldsIn(stack', w) => u = w
  BY HoldersStay
<1> QED  BY <1>1, <1>2, QuietKeeps DEF CallsInv

\* What was scheduled does not change in a quiet step.
LEMMA QuietOrder ==
  ASSUME StackType, stack' \in [Threads -> Seq(Calls)], OrderInv, Quiet, done' = done
  PROVE  \A u \in Threads : \A i \in 1 .. Len(stack'[u]) : CallOrder(stack[u][i])'
<1> SUFFICES ASSUME NEW u \in Threads, NEW i \in 1 .. Len(stack'[u])
             PROVE  CallOrder(stack[u][i])'
  OBVIOUS
<1>1. Running(stack') = Running(stack)
  BY QuietKeeps
<1>2. i \in Nat
  OBVIOUS
<1>3. CASE Busy(stack, u, i)
  <2>1. stack'[u][i] = stack[u][i] /\ i \in 1 .. Len(stack[u])
    BY <1>2, <1>3 DEF Quiet, Busy, IsLooping, IsLoad
  <2>2. CallOrder(stack[u][i])
    BY <2>1 DEF OrderInv
  <2> QED  BY <1>1, <2>1, <2>2 DEF CallOrder
<1>4. CASE ~Busy(stack, u, i)
  <2>1. stack'[u][i].pc \notin {"load", "classes", "categories"}
    BY <1>2, <1>4 DEF Quiet, Busy, IsLooping, IsLoad, Looping
  <2> QED  BY <2>1 DEF CallOrder
<1> QED  BY <1>3, <1>4

LEMMA QuietScheduled ==
  ASSUME StackType, stack' \in [Threads -> Seq(Calls)], OrderInv, Accounted, Quiet,
         done' = done, loadable_classes' = loadable_classes,
         loadable_categories' = loadable_categories,
         loaded \subseteq loaded', Scheduled' = Scheduled
  PROVE  Accounted' /\ OrderInv'
<1>1. Running(stack') = Running(stack) /\ Left(stack') = Left(stack)
  BY QuietKeeps
<1>2. Accounted'
  BY <1>1 DEF Accounted, Queued
<1>3. \A u \in Threads : \A i \in 1 .. Len(stack'[u]) : CallOrder(stack[u][i])'
  BY QuietOrder
<1> QED  BY <1>1, <1>2, <1>3 DEF OrderInv, Once, InOrder

\* Images are begun with by t.
LEMMA ImagesStay ==
  ASSUME TypeOK, ImagesInv, NEW t \in Threads, NEW n, Changes(t, n),
         \A u \in Threads : StackOK(stack[u]),
         opener' \in [Images -> Threads \cup {none}],
         \A j \in Images : opener[j] # none => opener'[j] = opener[j],
         loaded \subseteq loaded', prepared \subseteq prepared',
         \A j \in prepared' \ prepared : opener[j] = t,
         \A i \in 1 .. n : stack[t][i].pc \notin {"lock", "prepare"},
         Len(stack'[t]) = n + 1 => OpenOK(t, stack[t][n + 1])'
  PROVE  \A u \in Threads : \A i \in 1 .. Len(stack'[u]) : OpenOK(u, stack[u][i])'
<1> SUFFICES ASSUME NEW u \in Threads, NEW i \in 1 .. Len(stack'[u])
             PROVE  OpenOK(u, stack[u][i])'
  OBVIOUS
<1>0. StackType /\ Len(stack'[u]) \in Nat /\ n \in Nat
  BY DEF TypeOK, StackType, Changes
<1>a. i \in Nat
  BY <1>0
<1>1. CASE u # t \/ i <= n
  <2> DEFINE f == stack[u][i]
  <2>1. i \in 1 .. Len(stack[u]) /\ stack'[u][i] = f
    BY <1>0, <1>1, <1>a, ChangesKept
  <2>2. OpenOK(u, f) /\ KindOK(f) /\ f.pc \in {"open", "lock", "prepare"} => f.on \in Images
    BY <2>1 DEF StackOK, KindOK
  <2>3. OpenOK(u, f) /\ KindOK(f)
    BY <2>1 DEF ImagesInv, StackOK
  <2>4. f.pc \in {"lock", "prepare"} => u # t
    BY <1>1, <1>0, <2>1
  <2> HIDE DEF f
  <2>5. f.pc = "open" => \A j \in Needs(f.on) : /\ opener'[j] # none
                                                /\ j \in prepared' \/ opener'[j] = u
    <3> SUFFICES ASSUME f.pc = "open", NEW j \in Needs(f.on)
                 PROVE  opener'[j] # none /\ (j \in prepared' \/ opener'[j] = u)
      OBVIOUS
    <3>1. j \in Images
      BY <2>2, <2>3, ImagesAssumption DEF Needs
    <3>2. opener[j] # none /\ (j \in prepared \/ opener[j] = u)
      BY <2>3 DEF OpenOK
    <3> QED  BY <3>1, <3>2
  <2>6. f.pc \in {"lock", "prepare"} => /\ f.on \notin prepared' /\ opener'[f.on] = u
                                        /\ Links[f.on] \subseteq prepared'
    <3> SUFFICES ASSUME f.pc \in {"lock", "prepare"}
                 PROVE  /\ f.on \notin prepared' /\ opener'[f.on] = u
                        /\ Links[f.on] \subseteq prepared'
      OBVIOUS
    <3>1. f.on \in Images /\ opener[f.on] = u /\ f.on \notin prepared
      BY <2>2, <2>3 DEF OpenOK
    <3>2. u # none
      BY NoneAssumption
    <3> QED  BY <2>3, <2>4, <3>1, <3>2 DEF OpenOK
  <2> QED  BY <2>1, <2>3, <2>5, <2>6 DEF OpenOK
<1>2. CASE u = t /\ ~(i <= n)
  <2>1. Len(stack'[t]) = n + 1 /\ i = n + 1
    BY <1>0, <1>2, <1>a, ChangesLast
  <2> QED  BY <1>2, <2>1
<1> QED  BY <1>1, <1>2

-----------------------------------------------------------------------------
(***************************************************************************)
(* Opening and scheduling.                                                 *)
(***************************************************************************)

\* Somebody goes on with what waits, D added by t.
LEMMA WorkStays ==
  ASSUME WorkInv, NEW t \in Threads, NEW n, Changes(t, n), Quiet, NEW D,
         Queued' \subseteq Queued \cup D, missed \subseteq missed',
         \A i : Adds(t, i) => Working(stack) \/ i \in missed' \/ Adds(t, i)',
         \A x \in D : Adds(t, ImageOf[x])'
  PROVE  WorkInv'
<1>1. Working(stack') <=> Working(stack)
  BY QuietKeeps
<1> SUFFICES ASSUME ~Working(stack), NEW x \in Queued'
             PROVE  \/ ImageOf[x] \in missed'
                    \/ \E u \in Threads : Adds(u, ImageOf[x])'
  BY <1>1 DEF WorkInv
<1>2. CASE x \in D
  BY <1>2
<1>3. CASE x \in Queued /\ ImageOf[x] \in missed
  BY <1>3
<1>4. CASE \E u \in Threads : Adds(u, ImageOf[x])
  <2> PICK u \in Threads : Adds(u, ImageOf[x])
    BY <1>4
  <2>1. CASE u = t
    BY <2>1
  <2>2. CASE u # t
    <3>1. stack'[u] = stack[u]
      BY <2>2 DEF Changes, OthersStay
    <3>2. Adds(u, ImageOf[x])'
      BY <3>1 DEF Adds, At, Idle, Top
    <3> QED  BY <3>2
  <2> QED  BY <2>1, <2>2
<1> QED  BY <1>2, <1>3, <1>4 DEF WorkInv

\* A step in which nothing is scheduled and no loop or +load takes part.
LEMMA QuietAction ==
  ASSUME Inv, NEW t \in Threads, NEW n, Changes(t, n),
         Len(stack[t]) = n + 1 => stack[t][n + 1].pc \notin Looping \cup {"load"},
         Len(stack'[t]) = n + 1 => stack'[t][n + 1].pc \notin Looping \cup {"load"},
         Len(stack'[t]) = n + 1 /\ stack'[t][n + 1].pc \in Holding
           => HoldsIn(stack, t) \/ LockFree(t),
         \A u \in Threads : StackOK(stack'[u]),
         \A i \in 1 .. n : stack[t][i].pc \notin {"lock", "prepare"},
         Len(stack'[t]) = n + 1 => OpenOK(t, stack[t][n + 1])',
         \A i : Adds(t, i) => Working(stack) \/ i \in missed' \/ Adds(t, i)',
         UNCHANGED <<loaded, loadable_classes, loadable_categories, loading, done>>,
         missed \subseteq missed', missed' \subseteq Images,
         opener' \in [Images -> Threads \cup {none}],
         \A j \in Images : opener[j] # none => opener'[j] = opener[j],
         prepared \subseteq prepared', prepared' \subseteq Images,
         \A j \in prepared' \ prepared :
           /\ opener[j] = t /\ Links[j] \subseteq prepared'
           /\ Of(j) \cap (HasLoad \cup Categories) = {},
         opens' \in 0 .. MaxOpens
  PROVE  Inv'
<1>1. CallsInv' /\ Quiet
  <2>1. StackType /\ CallsInv
    BY DEF Inv, TypeOK, StackType
  <2> QED  BY <2>1, QuietStep
<1>2. \A u \in Threads : \A i \in 1 .. Len(stack'[u]) : OpenOK(u, stack[u][i])'
  <2>1. \A u \in Threads : StackOK(stack[u])
    BY DEF Inv, CallsInv
  <2> QED  BY <2>1, ImagesStay DEF Inv
<1>3. stack' \in [Threads -> Seq(Calls)]
  BY DEF Changes
<1>4. prepared' \subseteq {i \in Images : opener'[i] # none}
  BY NoneAssumption DEF Inv, TypeOK
<1>5. TypeOK'
  BY <1>3, <1>4 DEF Inv, TypeOK
<1>6. ImagesInv'
  <2>1. \A i \in prepared' : Links[i] \subseteq prepared' /\ Of(i) \cap HasLoad \subseteq loaded
    BY DEF Inv, ImagesInv
  <2>2. ASSUME NEW c \in loaded
        PROVE  Above[c] \subseteq loaded /\ opener'[ImageOf[c]] # none
    <3>1. ImageOf[c] \in Images
      BY ClassesAssumption DEF Inv, TypeOK, Items
    <3> QED  BY <3>1 DEF Inv, ImagesInv
  <2> QED  BY <1>2, <2>1, <2>2 DEF ImagesInv, Of
<1>7. Scheduled' = Scheduled
  <2>1. ASSUME NEW x \in Categories, ImageOf[x] \in prepared' PROVE ImageOf[x] \in prepared
    BY <2>1 DEF Of, Items
  <2> QED  BY <2>1 DEF Scheduled
<1>8. Accounted' /\ OrderInv'
  <2>1. StackType /\ OrderInv /\ Accounted
    BY DEF Inv, TypeOK, StackType
  <2> QED  BY <1>1, <1>3, <1>7, <2>1, QuietScheduled
<1>9. WorkInv'
  <2>1. WorkInv /\ Queued' \subseteq Queued \cup {}
    BY DEF Inv, Queued
  <2> QED  BY <1>1, <2>1, WorkStays
<1> QED  BY <1>1, <1>5, <1>6, <1>8, <1>9 DEF Inv

\* The call in which a thread is.
LEMMA TopIs ==
  ASSUME Inv, NEW t \in Threads, ~Idle(t)
  PROVE  /\ StackType /\ Len(stack[t]) \in Nat \ {0} /\ Top(t) \in Calls
         /\ Len(stack[t]) \in 1 .. Len(stack[t])
         /\ Top(t) = stack[t][Len(stack[t])]
         /\ KindOK(Top(t)) /\ OpenOK(t, Top(t)) /\ CallOrder(Top(t))
         /\ Len(stack[t]) > 1 => Follows(stack[t][Len(stack[t]) - 1], Top(t))
         /\ Len(stack[t]) = 1 => Top(t).pc = "open"
         /\ Top(t).pc \in Holding => HoldsIn(stack, t)
         /\ \A i \in 1 .. Len(stack[t]) - 1 : stack[t][i].pc \notin {"lock", "prepare", "call"}
<1>1. StackType
  BY DEF Inv, TypeOK, StackType
<1>2. /\ Len(stack[t]) \in Nat \ {0} /\ stack[t] \in Seq(Calls)
      /\ Len(stack[t]) \in 1 .. Len(stack[t])
      /\ Top(t) \in Calls /\ Top(t) = stack[t][Len(stack[t])]
  BY <1>1, TopFacts
<1>3. StackOK(stack[t])
  BY DEF Inv, CallsInv
<1>4. OpenOK(t, Top(t)) /\ CallOrder(Top(t))
  BY <1>2 DEF Inv, ImagesInv, OrderInv
<1>5. \A i \in 1 .. Len(stack[t]) - 1 : stack[t][i].pc \notin {"lock", "prepare", "call"}
  <2> SUFFICES ASSUME NEW i \in 1 .. Len(stack[t]) - 1
               PROVE  stack[t][i].pc \notin {"lock", "prepare", "call"}
    OBVIOUS
  <2>1. i \in 1 .. Len(stack[t]) /\ i < Len(stack[t])
    BY <1>2
  <2> QED  BY <1>2, <1>3, <2>1, Middle
<1> QED  BY <1>1, <1>2, <1>3, <1>4, <1>5 DEF StackOK, HoldsIn

LEMMA IdleFacts ==
  ASSUME StackType, NEW t \in Threads
  PROVE  /\ stack[t] \in Seq(Calls) /\ Len(stack[t]) \in Nat
         /\ Idle(t) <=> Len(stack[t]) = 0
BY EmptySeq DEF StackType, Idle

LEMMA OpenKeeps ==
  ASSUME Inv, NEW t \in Threads, NEW i \in Images, Open(t, i)
  PROVE  Inv'
<1> DEFINE f == Frame("open", i)
<1>0. StackType /\ Len(stack[t]) \in Nat
  BY IdleFacts DEF Inv, TypeOK, StackType
<1> PICK n \in Nat : n = Len(stack[t])
  BY <1>0
<1>1. StackType /\ n \in Nat /\ f \in Calls
  BY <1>0 DEF Frame, Calls
<1>2. /\ stack' \in [Threads -> Seq(Calls)] /\ OthersStay(t, n)
      /\ Len(stack'[t]) = n + 1 /\ stack'[t][n + 1] = f
  BY <1>1, PushCells DEF Open
<1>3. Changes(t, n)
  BY <1>1, <1>2 DEF Changes
<1>4. n > 0 => /\ Top(t) = stack[t][n] /\ Top(t).pc \in {"load", "pool"}
               /\ \A k \in 1 .. n - 1 : stack[t][k].pc \notin {"lock", "prepare"}
  BY <1>1, TopIs, IdleFacts DEF Open, InProgram, At
<1>5. KindOK(f) /\ f.pc = "open"
  BY DEF KindOK, Frame
<1>6. \A u \in Threads : StackOK(stack'[u])
  <2>1. n > 0 => Follows(stack[t][n], f)
    BY <1>4, <1>5 DEF Follows
  <2>2. n \in 0 .. Len(stack[t]) /\ \A u \in Threads : StackOK(stack[u])
    BY <1>1 DEF Inv, CallsInv
  <2> HIDE DEF f
  <2> QED  BY <1>1, <1>2, <1>5, <2>1, <2>2, LastCellOK
<1>7. \A k \in 1 .. n : stack[t][k].pc \notin {"lock", "prepare"}
  BY <1>1, <1>4
<1>8. /\ opener' \in [Images -> Threads \cup {none}]
      /\ \A j \in Images : opener[j] # none => opener'[j] = opener[j]
  BY DEF Open, Inv, TypeOK
<1>9. OpenOK(t, f)'
  <2> SUFFICES ASSUME NEW j \in Needs(i)
               PROVE  opener'[j] # none /\ (j \in prepared' \/ opener'[j] = t)
    BY DEF OpenOK, Frame
  <2>1. j \in Images /\ t # none
    BY ImagesAssumption, NoneAssumption DEF Needs
  <2>2. opener'[j] = IF opener[j] = none THEN t ELSE opener[j]
    BY <2>1 DEF Open
  <2>3. j \in prepared \/ opener[j] \in {none, t}
    BY DEF Open
  <2> QED  BY <2>1, <2>2, <2>3 DEF Open
<1>10. \A j : ~Adds(t, j)
  BY DEF Open, InProgram, At, Adds
<1>11. /\ UNCHANGED <<loaded, loadable_classes, loadable_categories, loading, done>>
       /\ missed' = missed /\ missed \subseteq Images
       /\ prepared' = prepared /\ prepared \subseteq Images
       /\ opens' \in 0 .. MaxOpens
  BY MaxOpensAssumption DEF Open, Inv, TypeOK
<1>12. stack'[t][n + 1].pc = "open" /\ OpenOK(t, stack[t][n + 1])' /\ Len(stack[t]) # n + 1
  BY <1>1, <1>2, <1>5, <1>9
<1> HIDE DEF f
<1> QED  BY <1>3, <1>6, <1>7, <1>8, <1>10, <1>11, <1>12, QuietAction DEF Looping, Holding

LEMMA OpenReturnsKeeps ==
  ASSUME Inv, NEW t \in Threads, OpenReturns(t)
  PROVE  Inv'
<1>1. ~Idle(t) /\ Top(t).pc = "open" /\ Return(t)
  BY DEF OpenReturns, At
<1> PICK n \in Nat : n + 1 = Len(stack[t])
  BY <1>1, TopIs
<1>2. /\ StackType /\ n \in Nat /\ stack[t][n + 1].pc = "open"
      /\ \A i \in 1 .. n : stack[t][i].pc \notin {"lock", "prepare"}
  BY <1>1, TopIs
<1>3. /\ stack' \in [Threads -> Seq(Calls)] /\ OthersStay(t, n) /\ Len(stack'[t]) = n
  BY <1>1, <1>2, ReturnCells
<1>4. Changes(t, n)
  BY <1>2, <1>3 DEF Changes
<1>5. \A u \in Threads : StackOK(stack'[u])
  BY <1>1, <1>2, ReturnOK DEF Inv, CallsInv
<1>6. \A j : ~Adds(t, j)
  BY <1>1 DEF At, Adds
<1>7. /\ UNCHANGED <<opener, prepared, loaded, loadable_classes, loadable_categories, loading,
                    done, missed, opens>>
      /\ missed \subseteq Images
      /\ opener \in [Images -> Threads \cup {none}] /\ prepared \subseteq Images
      /\ opens \in 0 .. MaxOpens
  BY DEF OpenReturns, Inv, TypeOK
<1>8. Len(stack'[t]) # n + 1
  BY <1>2, <1>3
<1> QED  BY <1>2, <1>4, <1>5, <1>6, <1>7, <1>8, QuietAction DEF Looping

LEMMA LoadImagesKeeps ==
  ASSUME Inv, NEW t \in Threads, LoadImages(t)
  PROVE  Inv'
<1>1. ~Idle(t) /\ Top(t).pc = "open"
  BY DEF LoadImages, At
<1> PICK n \in Nat : n = Len(stack[t])
  BY <1>1, TopIs
<1>2. /\ StackType /\ n > 0 /\ stack[t][n].pc = "open" /\ Top(t) = stack[t][n]
      /\ KindOK(Top(t)) /\ OpenOK(t, Top(t))
      /\ \A i \in 1 .. n - 1 : stack[t][i].pc \notin {"lock", "prepare"}
  BY <1>1, TopIs
<1> PICK i \in Unprepared(t) :
           /\ Links[i] \cap Unprepared(t) = {}
           /\ IF HasLoadMethods(i)
                THEN /\ stack' = [stack EXCEPT ![t] = Append(@, Frame("lock", i))]
                     /\ UNCHANGED prepared
                ELSE /\ prepared' = prepared \cup {i}
                     /\ UNCHANGED stack
  BY DEF LoadImages
<1>3. i \in Images /\ i \notin prepared /\ opener[i] = t /\ Links[i] \subseteq prepared
  <2>1. Top(t).on \in Images /\ i \in Needs(Top(t).on) /\ i \notin prepared
    BY <1>1, <1>2 DEF KindOK, Unprepared
  <2>2. i \in Images /\ Links[i] \subseteq Needs(Top(t).on)
    BY <2>1, ImagesAssumption DEF Needs
  <2>3. Links[i] \subseteq prepared
    BY <2>2 DEF Unprepared
  <2> QED  BY <1>1, <1>2, <2>1, <2>2, <2>3 DEF OpenOK
<1>4. /\ UNCHANGED <<opener, loaded, loadable_classes, loadable_categories, loading,
                    done, missed, opens>>
      /\ missed \subseteq Images
      /\ opener \in [Images -> Threads \cup {none}] /\ prepared \subseteq Images
      /\ opens \in 0 .. MaxOpens
      /\ \A u \in Threads : StackOK(stack[u])
  BY DEF LoadImages, Inv, TypeOK, CallsInv
<1>5. /\ \A j : ~Adds(t, j)
      /\ \A k \in 1 .. n : stack[t][k].pc \notin {"lock", "prepare"}
  BY <1>1, <1>2 DEF At, Adds
<1>6. CASE HasLoadMethods(i)
  <2> DEFINE f == Frame("lock", i)
  <2>1. f \in Calls /\ KindOK(f) /\ f.pc = "lock" /\ OpenOK(t, f)
    BY <1>3 DEF Frame, Calls, KindOK, OpenOK
  <2>2. /\ stack' \in [Threads -> Seq(Calls)] /\ OthersStay(t, n)
        /\ Len(stack'[t]) = n + 1 /\ stack'[t][n + 1] = f
    BY <1>2, <1>6, <2>1, PushCells
  <2>3. Changes(t, n)
    BY <2>2 DEF Changes
  <2>4. Follows(stack[t][n], f)
    BY <1>2, <2>1 DEF Follows
  <2>5. n \in 0 .. Len(stack[t])
    OBVIOUS
  <2> HIDE DEF f
  <2>6. \A u \in Threads : StackOK(stack'[u])
    <3>1. n = 0 => f.pc = "open"
      BY <1>2
    <3> QED  BY ONLY <1>2, <1>4, <2>1, <2>2, <2>4, <2>5, <3>1, LastCellOK, t \in Threads,
                     n \in Nat
  <2>7. OpenOK(t, stack[t][n + 1])' /\ Len(stack[t]) # n + 1 /\ prepared' = prepared
    <3>1. prepared' = prepared
      BY <1>6
    <3> QED  BY <1>4, <2>1, <2>2, <3>1 DEF OpenOK
  <2> QED  BY <1>4, <1>5, <2>1, <2>2, <2>3, <2>6, <2>7, QuietAction DEF Looping, Holding
<1>7. CASE ~HasLoadMethods(i)
  <2>1. stack' = stack /\ prepared' = prepared \cup {i}
    BY <1>7
  <2>2. Changes(t, n)
    BY <1>2, <2>1 DEF Changes, OthersStay, StackType
  <2>3. Of(i) \cap (HasLoad \cup Categories) = {}
    <3>1. ClassList[i] = <<>> /\ CategoryList[i] = <<>>
      BY <1>7 DEF HasLoadMethods
    <3>2. Range(ClassList[i]) = {} /\ Range(CategoryList[i]) = {}
      BY <3>1 DEF Range
    <3> QED  BY <1>3, <3>2, ListsAssumption, ClassesAssumption DEF Of
  <2>4. Len(stack[t]) # n + 1 /\ Len(stack'[t]) # n + 1
    BY <2>1
  <2>5. \A u \in Threads : StackOK(stack'[u])
    BY <1>4, <2>1
  <2>6. /\ prepared' \subseteq Images /\ prepared \subseteq prepared'
        /\ \A j \in prepared' \ prepared :
             /\ opener[j] = t /\ Links[j] \subseteq prepared'
             /\ Of(j) \cap (HasLoad \cup Categories) = {}
    BY <1>3, <1>4, <2>1, <2>3
  <2> QED  BY <1>4, <1>5, <2>2, <2>4, <2>5, <2>6, QuietAction
<1> QED  BY <1>6, <1>7

\* A call of load_images goes on, under loadMethodLock.
LEMMA GotoKeeps ==
  ASSUME Inv, NEW t \in Threads, ~Idle(t), NEW f \in Calls, Goto(t, f), KindOK(f),
         Top(t).pc \in {"lock", "prepare"}, f.pc = "prepare", f.on = Top(t).on,
         Top(t).pc \in Holding \/ LockFree(t), OpenOK(t, f),
         UNCHANGED <<opener, prepared, loaded, loadable_classes, loadable_categories,
                     loading, done, missed, opens>>
  PROVE  Inv'
<1> PICK n \in Nat : n + 1 = Len(stack[t]) /\ n = Len(stack[t]) - 1
  <2>1. Len(stack[t]) \in Nat \ {0}
    BY ONLY Inv, t \in Threads, ~Idle(t), TopIs
  <2> PICK m \in Nat \ {0} : m = Len(stack[t])
    BY <2>1
  <2>2. m - 1 \in Nat /\ (m - 1) + 1 = m
    BY ONLY m \in Nat \ {0}
  <2> QED  BY ONLY <2>2, m = Len(stack[t])
<1>1. /\ StackType /\ Top(t) = stack[t][n + 1]
      /\ n > 0 => Follows(stack[t][n], Top(t))
      /\ n = 0 => Top(t).pc = "open"
      /\ Top(t).pc \in Holding => HoldsIn(stack, t)
      /\ \A i \in 1 .. n : stack[t][i].pc \notin {"lock", "prepare"}
  BY TopIs
<1>2. /\ stack' \in [Threads -> Seq(Calls)] /\ OthersStay(t, n)
      /\ Len(stack'[t]) = n + 1 /\ stack'[t][n + 1] = f
  BY <1>1, GotoCells
<1>3. Changes(t, n)
  BY <1>2 DEF Changes
<1>4. n > 0 /\ Follows(stack[t][n], f)
  <2>1. n > 0
    <3>1. n = 0 => Top(t).pc = "open"
      BY <1>1
    <3>2. n # 0
      BY <3>1
    <3> QED  BY ONLY <3>2, n \in Nat
  <2>2. stack[t][n].pc = "open"
    <3>1. Top(t).pc # "open" /\ Top(t).pc # "load"
      OBVIOUS
    <3>2. Follows(stack[t][n], Top(t))
      BY <1>1, <2>1
    <3> QED  BY ONLY <3>1, <3>2 DEF Follows
  <2> QED  BY <2>1, <2>2 DEF Follows
<1>5. n \in 0 .. Len(stack[t]) /\ \A u \in Threads : StackOK(stack[u])
  BY DEF Inv, CallsInv
<1>6. \A u \in Threads : StackOK(stack'[u])
  BY <1>1, <1>2, <1>4, <1>5, LastCellOK
<1>7. OpenOK(t, stack[t][n + 1])' /\ Adds(t, f.on)' /\ \A i : Adds(t, i) => i = f.on
  BY <1>2 DEF OpenOK, At, Idle, Top, Adds
<1>8. /\ opener \in [Images -> Threads \cup {none}] /\ prepared \subseteq Images
      /\ missed \subseteq Images
      /\ opens \in 0 .. MaxOpens
  BY DEF Inv, TypeOK
<1> QED  BY <1>1, <1>2, <1>3, <1>6, <1>7, <1>8, QuietAction DEF Looping

LEMMA ListFacts ==
  ASSUME NEW S, none \notin S, NEW q \in Seq(S)
  PROVE  /\ Entries(q) \subseteq S
         /\ Entries(q) = {q[k] : k \in 1 .. Len(q)}
         /\ q = <<>> => Entries(q) = {}
         /\ q # <<>> => /\ Head(q) \in S /\ Tail(q) \in Seq(S)
                        /\ Entries(q) = {Head(q)} \cup Entries(Tail(q))
         /\ \A x \in S : /\ <<x>> \o q \in Seq(S)
                         /\ Entries(<<x>> \o q) = {x} \cup Entries(q)
<1>1. Entries(q) = {q[k] : k \in 1 .. Len(q)} /\ Entries(q) \subseteq S
  BY DEF Entries
<1>2. q = <<>> => Entries(q) = {}
  BY <1>1
<1>3. ASSUME q # <<>>
      PROVE  /\ Head(q) \in S /\ Tail(q) \in Seq(S)
             /\ Entries(q) = {Head(q)} \cup Entries(Tail(q))
  <2>1. /\ Tail(q) \in Seq(S) /\ Len(Tail(q)) = Len(q) - 1 /\ Len(q) \in Nat \ {0}
        /\ Head(q) = q[1] /\ \A k \in 1 .. Len(q) - 1 : Tail(q)[k] = q[k + 1]
    BY <1>3, HeadTailProperties
  <2>2. Entries(Tail(q)) = {q[k] : k \in 2 .. Len(q)}
    <3>1. Entries(Tail(q)) = {Tail(q)[k] : k \in 1 .. Len(q) - 1}
      BY <2>1 DEF Entries
    <3>2. ASSUME NEW x PROVE (\E k \in 1 .. Len(q) - 1 : x = Tail(q)[k])
                               <=> \E k \in 2 .. Len(q) : x = q[k]
      <4>1. ASSUME NEW k \in 2 .. Len(q) PROVE k - 1 \in 1 .. Len(q) - 1 /\ Tail(q)[k - 1] = q[k]
        BY <2>1
      <4>2. ASSUME NEW k \in 1 .. Len(q) - 1 PROVE k + 1 \in 2 .. Len(q) /\ Tail(q)[k] = q[k + 1]
        BY <2>1
      <4> QED  BY <4>1, <4>2
    <3> QED  BY <3>1, <3>2
  <2>3. ASSUME NEW x PROVE (\E k \in 1 .. Len(q) : x = q[k])
                             <=> x = q[1] \/ \E k \in 2 .. Len(q) : x = q[k]
    <3>1. 1 \in 1 .. Len(q) /\ \A k \in 1 .. Len(q) : k = 1 \/ k \in 2 .. Len(q)
      BY <2>1
    <3> QED  BY <3>1
  <2>4. Entries(q) = {q[1]} \cup {q[k] : k \in 2 .. Len(q)}
    BY <1>1, <2>3
  <2> QED  BY <1>3, <2>1, <2>2, <2>4
<1>4. ASSUME NEW x \in S
      PROVE  <<x>> \o q \in Seq(S) /\ Entries(<<x>> \o q) = {x} \cup Entries(q)
  <2> DEFINE r == <<x>> \o q
  <2>1. r \in Seq(S) /\ Len(r) = 1 + Len(q) /\ r[1] = x
        /\ \A k \in 2 .. Len(r) : r[k] = q[k - 1]
    <3>1. <<x>> \in Seq(S) /\ Len(<<x>>) = 1 /\ <<x>>[1] = x
      OBVIOUS
    <3> QED  BY <3>1, ConcatProperties
  <2>2. Entries(r) = {r[k] : k \in 1 .. Len(r)}
    BY <2>1 DEF Entries
  <2> HIDE DEF r
  <2>3. ASSUME NEW y PROVE (\E k \in 1 .. Len(r) : y = r[k])
                             <=> y = x \/ \E k \in 1 .. Len(q) : y = q[k]
    <3>1. ASSUME NEW k \in 1 .. Len(q) PROVE k + 1 \in 1 .. Len(r) /\ r[k + 1] = q[k]
      BY <2>1
    <3>2. ASSUME NEW k \in 1 .. Len(r), k # 1 PROVE k - 1 \in 1 .. Len(q) /\ r[k] = q[k - 1]
      BY <2>1, <3>2
    <3>3. 1 \in 1 .. Len(r)
      BY <2>1
    <3> QED  BY <2>1, <3>1, <3>2, <3>3
  <2>4. Entries(r) = {x} \cup Entries(q)
    BY <1>1, <2>2, <2>3
  <2> QED  BY <2>1, <2>4 DEF r
<1> QED  BY <1>1, <1>2, <1>3, <1>4

LEMMA PrepareKeeps ==
  ASSUME Inv, NEW t \in Threads, Prepare(t)
  PROVE  Inv'
<1>1. ~Idle(t) /\ Top(t).pc = "lock" /\ LockFree(t)
  BY DEF Prepare, At
<1>2. KindOK(Top(t)) /\ OpenOK(t, Top(t))
  BY <1>1, TopIs
<1> PICK i \in Images : i = Top(t).on
  BY <1>1, <1>2 DEF KindOK
<1>3. /\ i \notin prepared /\ opener[i] = t /\ Links[i] \subseteq prepared
  BY <1>1, <1>2 DEF OpenOK
<1> DEFINE f == [pc |-> "prepare", on |-> i, list |-> ClassList[i]]
<1>4. ClassList[i] \in Seq(Classes) /\ Range(ClassList[i]) = {c \in HasLoad : ImageOf[c] = i}
  BY ListsAssumption
<1>5. Entries(ClassList[i]) = {c \in HasLoad : ImageOf[c] = i}
  <2>1. none \notin Classes
    BY NoneAssumption DEF Items
  <2>2. DOMAIN ClassList[i] = 1 .. Len(ClassList[i])
    BY <1>4
  <2> QED  BY <1>4, <2>1, <2>2, ListFacts DEF Range
<1>6. f \in Calls /\ KindOK(f)
  BY <1>4 DEF Calls, KindOK, Items
<1>7. OpenOK(t, f)
  <2>1. Of(i) \cap HasLoad \subseteq Entries(ClassList[i])
    BY <1>5 DEF Of
  <2>2. \A c \in Entries(ClassList[i]) : ImageOf[c] \in Needs(i)
    BY <1>5 DEF Needs
  <2> QED  BY <1>3, <2>1, <2>2 DEF OpenOK
<1>8. Goto(t, f)
  BY DEF Prepare, WithList
<1>9. UNCHANGED <<opener, prepared, loaded, loadable_classes, loadable_categories,
                  loading, done, missed, opens>>
  BY DEF Prepare
<1>10. f.pc = "prepare" /\ f.on = Top(t).on
  OBVIOUS
<1> HIDE DEF f
<1> QED  BY ONLY <1>1, <1>6, <1>7, <1>8, <1>9, <1>10, GotoKeeps, Inv, t \in Threads

\* The list of a call that is scheduling.
LEMMA SchedulingFacts ==
  ASSUME Inv, NEW t \in Threads, At(t, "prepare")
  PROVE  /\ ~Idle(t) /\ Top(t).pc = "prepare" /\ Top(t).pc \in Holding
         /\ Top(t).on \in Images /\ Top(t).list \in Seq(Classes)
         /\ none \notin Classes /\ OpenOK(t, Top(t)) /\ Top(t) \in Calls
<1>1. ~Idle(t) /\ Top(t).pc = "prepare"
  BY DEF At
<1>2. KindOK(Top(t)) /\ OpenOK(t, Top(t)) /\ Top(t) \in Calls
  BY <1>1, TopIs
<1> QED  BY <1>1, <1>2, NoneAssumption DEF KindOK, Holding, Items

LEMMA ListGoesOn ==
  ASSUME Inv, NEW t \in Threads, At(t, "prepare"), NEW q \in Seq(Classes),
         WithList(t, "prepare", q),
         Entries(Top(t).list) \subseteq loaded \cup Entries(q),
         \A c \in Entries(q) : ImageOf[c] \in Needs(Top(t).on),
         UNCHANGED <<opener, prepared, loaded, loadable_classes, loadable_categories,
                     loading, done, missed, opens>>
  PROVE  Inv'
<1>1. /\ ~Idle(t) /\ Top(t).pc = "prepare" /\ Top(t).pc \in Holding
      /\ Top(t).on \in Images /\ OpenOK(t, Top(t))
  BY SchedulingFacts
<1> PICK i \in Images : i = Top(t).on
  BY <1>1
<1> DEFINE f == [pc |-> "prepare", on |-> i, list |-> q]
<1>2. f \in Calls /\ KindOK(f) /\ f.pc = "prepare" /\ f.on = Top(t).on
  BY DEF Calls, KindOK, Items
<1>3. OpenOK(t, f)
  BY <1>1 DEF OpenOK
<1>4. Goto(t, f)
  BY DEF WithList
<1> HIDE DEF f
<1> QED  BY <1>1, <1>2, <1>3, <1>4, GotoKeeps

LEMMA AlreadyLoadedKeeps ==
  ASSUME Inv, NEW t \in Threads, AlreadyLoaded(t)
  PROVE  Inv'
<1>1. At(t, "prepare") /\ Top(t).list # <<>> /\ Head(Top(t).list) \in loaded
  BY DEF AlreadyLoaded, Scheduling
<1>2. Top(t).list \in Seq(Classes) /\ none \notin Classes /\ OpenOK(t, Top(t))
      /\ Top(t).pc = "prepare"
  BY <1>1, SchedulingFacts
<1> PICK q \in Seq(Classes) : q = Tail(Top(t).list)
  BY <1>1, <1>2, ListFacts
<1>3. Entries(Top(t).list) = {Head(Top(t).list)} \cup Entries(q)
  BY <1>1, <1>2, ListFacts
<1>4. Entries(Top(t).list) \subseteq loaded \cup Entries(q)
  BY <1>1, <1>3
<1>5. \A c \in Entries(q) : ImageOf[c] \in Needs(Top(t).on)
  BY <1>2, <1>3 DEF OpenOK
<1>6. WithList(t, "prepare", q)
  BY DEF AlreadyLoaded
<1>7. UNCHANGED <<opener, prepared, loaded, loadable_classes, loadable_categories,
                  loading, done, missed, opens>>
  BY DEF AlreadyLoaded
<1> QED  BY <1>1, <1>4, <1>5, <1>6, <1>7, ListGoesOn

\* The images of the superclasses of what an image needs.
LEMMA NeedsAbove ==
  ASSUME NEW i \in Images, NEW c \in Classes, ImageOf[c] \in Needs(i), NEW d \in Above[c]
  PROVE  ImageOf[d] \in Needs(i)
<1>1. ImageOf[d] \in Links[ImageOf[c]] \cup {ImageOf[c]}
  BY ListsAssumption
<1> QED  BY <1>1, ImagesAssumption DEF Needs

LEMMA ScheduleSuperclassKeeps ==
  ASSUME Inv, NEW t \in Threads, ScheduleSuperclass(t)
  PROVE  Inv'
<1>1. At(t, "prepare") /\ Top(t).list # <<>>
  BY DEF ScheduleSuperclass, Scheduling
<1>2. /\ Top(t).list \in Seq(Classes) /\ none \notin Classes /\ OpenOK(t, Top(t))
      /\ Top(t).pc = "prepare" /\ Top(t).on \in Images
  BY <1>1, SchedulingFacts
<1> DEFINE h == Head(Top(t).list)
<1> PICK c \in ToSchedule(h) : WithList(t, "prepare", <<c>> \o Top(t).list)
  BY DEF ScheduleSuperclass
<1>3. h \in Classes /\ h \in Entries(Top(t).list)
  BY <1>1, <1>2, ListFacts
<1>4. c = Superclass[h] /\ c \in Classes /\ c \in Above[h]
  BY <1>3, ClassesAssumption DEF ToSchedule
<1>5. ImageOf[c] \in Needs(Top(t).on)
  <2>1. ImageOf[h] \in Needs(Top(t).on)
    BY <1>2, <1>3 DEF OpenOK
  <2> QED  BY <1>2, <1>3, <1>4, <2>1, NeedsAbove
<1>e. /\ <<c>> \o Top(t).list \in Seq(Classes)
      /\ Entries(<<c>> \o Top(t).list) = {c} \cup Entries(Top(t).list)
  <2> HIDE DEF h
  <2> PICK l \in Seq(Classes) : l = Top(t).list
    BY <1>2
  <2> QED  BY <1>2, <1>4, ListFacts
<1> PICK q \in Seq(Classes) : q = <<c>> \o Top(t).list
  BY <1>e
<1>6. Entries(q) = {c} \cup Entries(Top(t).list)
  BY <1>e
<1>7. \A d \in Entries(q) : ImageOf[d] \in Needs(Top(t).on)
  BY <1>2, <1>5, <1>6 DEF OpenOK
<1>8. UNCHANGED <<opener, prepared, loaded, loadable_classes, loadable_categories,
                  loading, done, missed, opens>>
  BY DEF ScheduleSuperclass
<1> QED  BY <1>1, <1>6, <1>7, <1>8, ListGoesOn

\* A re-entrant call returns.
LEMMA ReentrantKeeps ==
  ASSUME Inv, NEW t \in Threads, CallLoadMethods(t), Reentrant
  PROVE  Inv'
<1>1. ~Idle(t) /\ Top(t).pc = "call" /\ Return(t) /\ loading
  BY DEF CallLoadMethods, At, Reentrant
<1> PICK n \in Nat : n + 1 = Len(stack[t]) /\ n = Len(stack[t]) - 1
  BY <1>1, TopIs
<1>2. /\ StackType /\ stack[t][n + 1].pc = "call"
      /\ \A i \in 1 .. n : stack[t][i].pc \notin {"lock", "prepare"}
  BY <1>1, TopIs
<1>3. /\ stack' \in [Threads -> Seq(Calls)] /\ OthersStay(t, n) /\ Len(stack'[t]) = n
  BY <1>1, <1>2, ReturnCells
<1>4. Changes(t, n)
  BY <1>2, <1>3 DEF Changes
<1>5. \A u \in Threads : StackOK(stack'[u])
  BY <1>1, <1>2, ReturnOK DEF Inv, CallsInv
<1>6. loading' = loading
  BY <1>1 DEF CallLoadMethods, Inv, TypeOK
<1>7. /\ UNCHANGED <<opener, prepared, loaded, loadable_classes, loadable_categories,
                    done, opens>>
      /\ opener \in [Images -> Threads \cup {none}] /\ prepared \subseteq Images
      /\ opens \in 0 .. MaxOpens
  BY DEF CallLoadMethods, Inv, TypeOK
<1>8. Len(stack'[t]) # n + 1
  BY <1>2, <1>3
<1>9. missed \subseteq missed' /\ missed' \subseteq Images
  <2>1. Top(t).on \in Images /\ missed \subseteq Images
    BY <1>1, TopIs DEF KindOK, Inv, TypeOK
  <2> QED  BY <2>1 DEF CallLoadMethods
\* The flag is set by a loop that goes on, or that has ended and pops its pool.
<1>10. ASSUME NEW i, Adds(t, i), ~Working(stack) PROVE i \in missed'
  <2> PICK u \in Threads, k \in Nat : IsLooping(stack, u, k)
    BY <1>1 DEF Inv, CallsInv
  <2>1. k \in 1 .. Len(stack[u]) /\ stack[u][k].pc = "pool" /\ stack[u] \in Seq(Calls)
    BY <1>2, <1>10 DEF Working, IsLooping, StackType
  <2>2. Popping
    BY <2>1 DEF Popping, Frames, Range
  <2> QED  BY <1>10, <2>2 DEF Adds, CallLoadMethods
<1> QED  BY <1>1, <1>2, <1>4, <1>5, <1>6, <1>7, <1>8, <1>9, <1>10, QuietAction DEF Looping

\* A call of load_images goes on with the preparation, or ends it.
LEMMA PrepareGoto ==
  ASSUME Inv, NEW t \in Threads, At(t, "prepare"), NEW f \in Calls, Goto(t, f), KindOK(f),
         f.pc \in {"prepare", "call"}, loading' = loading
  PROVE  /\ stack' \in [Threads -> Seq(Calls)] /\ CallsInv' /\ Quiet
         /\ Adds(t, f.on)'
         /\ \E n \in Nat : /\ Changes(t, n)
                           /\ \A i \in 1 .. n : stack[t][i].pc \notin {"lock", "prepare"}
                           /\ Len(stack'[t]) = n + 1 => stack'[t][n + 1] = f
<1>1. ~Idle(t) /\ Top(t).pc = "prepare" /\ Top(t).pc \in Holding
  BY SchedulingFacts
<1> PICK n \in Nat : n + 1 = Len(stack[t]) /\ n = Len(stack[t]) - 1
  BY <1>1, TopIs
<1>2. /\ StackType /\ Top(t) = stack[t][n + 1]
      /\ n > 0 => Follows(stack[t][n], Top(t))
      /\ n = 0 => Top(t).pc = "open"
      /\ HoldsIn(stack, t)
      /\ \A i \in 1 .. n : stack[t][i].pc \notin {"lock", "prepare"}
  BY <1>1, TopIs
<1>3. /\ stack' \in [Threads -> Seq(Calls)] /\ OthersStay(t, n)
      /\ Len(stack'[t]) = n + 1 /\ stack'[t][n + 1] = f
  BY <1>1, <1>2, GotoCells
<1>4. Changes(t, n)
  BY <1>3 DEF Changes
<1>5. n > 0 /\ Follows(stack[t][n], f)
  <2>1. n # 0
    BY <1>1, <1>2
  <2>2. n > 0
    BY ONLY <2>1, n \in Nat
  <2>3. stack[t][n].pc = "open"
    <3>1. Follows(stack[t][n], Top(t))
      BY <1>2, <2>2
    <3> QED  BY ONLY <1>1, <3>1 DEF Follows
  <2> QED  BY <2>2, <2>3 DEF Follows
<1>6. n \in 0 .. Len(stack[t]) /\ \A u \in Threads : StackOK(stack[u])
  BY DEF Inv, CallsInv
<1>7. \A u \in Threads : StackOK(stack'[u])
  <2>1. n = 0 => f.pc = "open"
    BY ONLY <1>5, n \in Nat
  <2> QED  BY ONLY <1>2, <1>3, <1>5, <1>6, <2>1, LastCellOK, t \in Threads, n \in Nat,
                   KindOK(f)
<1>8. CallsInv' /\ Quiet
  <2>1. CallsInv
    BY DEF Inv
  <2> QED  BY <1>1, <1>2, <1>3, <1>4, <1>7, <2>1, QuietStep DEF Looping
<1>9. Adds(t, f.on)'
  BY <1>3 DEF At, Idle, Top, Adds
<1> QED  BY <1>2, <1>3, <1>4, <1>8, <1>9

LEMMA EarlierIs ==
  /\ \A c \in Classes : Earlier(c) = HasLoad \cap Above[c]
  /\ \A c \in Categories : Earlier(c) = HasLoad \cap ({ClassOf[c]} \cup Above[ClassOf[c]])
  /\ \A x : Earlier(x) \subseteq HasLoad
  /\ HasLoad \subseteq Classes /\ Classes \cap Categories = {}
  /\ none \notin Classes /\ none \notin Categories
BY ClassesAssumption, NoneAssumption DEF Earlier, Items

\* Where the classes and the categories wait.
LEMMA WaitingFacts ==
  ASSUME TypeOK
  PROVE  /\ Entries(loadable_classes) \subseteq Classes
         /\ Entries(loadable_categories) \subseteq Categories
BY DEF TypeOK, Entries

LEMMA AppendEntry ==
  ASSUME NEW S, NEW q \in Seq(S \cup {none}), NEW x \in S, x # none, x \notin Entries(q),
         Once(q), NEW before, InOrder(q, before), Earlier(x) \subseteq before \cup Entries(q)
  PROVE  /\ Append(q, x) \in Seq(S \cup {none})
         /\ Entries(Append(q, x)) = Entries(q) \cup {x}
         /\ Once(Append(q, x)) /\ InOrder(Append(q, x), before)
<1> DEFINE r == Append(q, x)
<1>1. /\ r \in Seq(S \cup {none}) /\ Len(r) = Len(q) + 1 /\ Len(q) \in Nat
      /\ r[Len(q) + 1] = x /\ \A k \in 1 .. Len(q) : r[k] = q[k]
  BY AppendProperties
<1> HIDE DEF r
<1>2. 1 .. Len(r) = (1 .. Len(q)) \cup {Len(q) + 1}
  BY <1>1
<1>3. Entries(r) = Entries(q) \cup {x}
  <2>1. {r[k] : k \in 1 .. Len(r)} = {q[k] : k \in 1 .. Len(q)} \cup {x}
    BY <1>1, <1>2
  <2> QED  BY <2>1 DEF Entries
<1>4. \A k \in 1 .. Len(q) : q[k] # x
  BY DEF Entries
<1>5. Once(r)
  BY <1>1, <1>2, <1>4 DEF Once
<1>6. InOrder(r, before)
  <2> SUFFICES ASSUME NEW k \in 1 .. Len(r), r[k] # none
               PROVE  Earlier(r[k]) \subseteq before \cup {r[j] : j \in 1 .. k - 1}
    BY DEF InOrder
  <2>1. CASE k = Len(q) + 1
    <3>1. Entries(q) \subseteq {r[j] : j \in 1 .. k - 1}
      BY <1>1, <2>1 DEF Entries
    <3> QED  BY <1>1, <2>1, <3>1
  <2>2. CASE k # Len(q) + 1
    <3>1. k \in 1 .. Len(q) /\ r[k] = q[k] /\ \A j \in 1 .. k - 1 : r[j] = q[j]
      BY <1>1, <2>2
    <3>2. {r[j] : j \in 1 .. k - 1} = {q[j] : j \in 1 .. k - 1}
      BY <3>1
    <3> QED  BY <3>1, <3>2 DEF InOrder
  <2> QED  BY <2>1, <2>2
<1> QED  BY <1>1, <1>3, <1>5, <1>6 DEF r

LEMMA ScheduleClassKeeps ==
  ASSUME Inv, NEW t \in Threads, ScheduleClass(t)
  PROVE  Inv'
<1>1. At(t, "prepare") /\ Top(t).list # <<>>
  BY DEF ScheduleClass, Scheduling
<1>2. /\ Top(t).list \in Seq(Classes) /\ none \notin Classes /\ OpenOK(t, Top(t))
      /\ Top(t).pc = "prepare" /\ Top(t).on \in Images
  BY <1>1, SchedulingFacts
<1> PICK h \in Classes : h = Head(Top(t).list)
  BY <1>1, <1>2, ListFacts
<1> PICK q \in Seq(Classes) : q = Tail(Top(t).list)
  BY <1>1, <1>2, ListFacts
<1> PICK i \in Images : i = Top(t).on
  BY <1>2
<1>3. /\ h \notin loaded /\ ToSchedule(h) = {} /\ loaded' = loaded \cup {h}
      /\ loadable_classes' = IF h \in HasLoad THEN Append(loadable_classes, h)
                             ELSE loadable_classes
      /\ WithList(t, "prepare", q)
      /\ UNCHANGED <<opener, prepared, loadable_categories, loading, done, missed, opens>>
  BY DEF ScheduleClass
<1>4. Entries(Top(t).list) = {h} \cup Entries(q)
  BY <1>1, <1>2, ListFacts
<1> DEFINE f == [pc |-> "prepare", on |-> i, list |-> q]
<1>5. f \in Calls /\ KindOK(f) /\ f.pc = "prepare" /\ f.on = i /\ Goto(t, f)
  BY <1>3 DEF Calls, KindOK, Items, WithList
<1>6. OpenOK(t, f)'
  BY <1>2, <1>3, <1>4 DEF OpenOK
<1> HIDE DEF f
<1>7. /\ stack' \in [Threads -> Seq(Calls)] /\ CallsInv' /\ Quiet
      /\ Adds(t, f.on)'
      /\ \E n \in Nat : /\ Changes(t, n)
                        /\ \A k \in 1 .. n : stack[t][k].pc \notin {"lock", "prepare"}
                        /\ Len(stack'[t]) = n + 1 => stack'[t][n + 1] = f
  BY <1>1, <1>3, <1>5, PrepareGoto
<1>8. TypeOK /\ StackType /\ ImagesInv /\ Accounted /\ OrderInv
      /\ \A u \in Threads : StackOK(stack[u])
  BY DEF Inv, TypeOK, StackType, CallsInv
<1>9. \A u \in Threads : \A k \in 1 .. Len(stack'[u]) : OpenOK(u, stack[u][k])'
  <2> PICK n \in Nat : /\ Changes(t, n)
                       /\ \A k \in 1 .. n : stack[t][k].pc \notin {"lock", "prepare"}
                       /\ Len(stack'[t]) = n + 1 => stack'[t][n + 1] = f
    BY <1>7
  <2>1. Len(stack'[t]) = n + 1 => OpenOK(t, stack[t][n + 1])'
    BY <1>6
  <2>2. opener' \in [Images -> Threads \cup {none}]
    BY <1>3, <1>8 DEF TypeOK
  <2> QED  BY <1>3, <1>8, <2>1, <2>2, ImagesStay
<1>10. Above[h] \subseteq loaded
  BY <1>3, <1>8, ClassesAssumption, SMTT(30) DEF ToSchedule, ImagesInv
<1>11. ImagesInv'
  <2>1. opener[ImageOf[h]] # none
    <3>1. ImageOf[h] \in Needs(i)
      BY <1>2, <1>4 DEF OpenOK
    <3>2. opener[i] = t /\ t # none /\ Links[i] \subseteq prepared
      BY <1>2, NoneAssumption DEF OpenOK
    <3> QED  BY <1>8, <3>1, <3>2 DEF Needs, TypeOK
  <2> QED  BY <1>3, <1>8, <1>9, <1>10, <2>1 DEF ImagesInv, Of
\* The superclasses of other images that have a +load have their flag.
<1>12. h \in HasLoad => ImageOf[h] = i
  <2>1. ImageOf[h] \in Needs(i) /\ Links[i] \subseteq prepared
    BY <1>2, <1>4 DEF OpenOK
  <2>2. ASSUME h \in HasLoad, ImageOf[h] \in prepared PROVE FALSE
    <3>1. h \in Of(ImageOf[h]) \cap HasLoad
      BY <2>2 DEF Of, Items
    <3> QED  BY <1>3, <1>8, <2>2, <3>1 DEF ImagesInv
  <2> QED  BY <2>1, <2>2 DEF Needs
<1>work. ASSUME Queued' \subseteq Queued \cup ({h} \cap HasLoad) PROVE WorkInv'
  <2> PICK n \in Nat : Changes(t, n)
    BY <1>7
  <2>1. WorkInv
    BY DEF Inv
  <2>2. \A j : Adds(t, j) => j = i
    BY DEF Adds
  <2>3. \A x \in {h} \cap HasLoad : Adds(t, ImageOf[x])'
    BY <1>5, <1>7, <1>12
  <2>4. Adds(t, i)' /\ missed' = missed
    BY <1>3, <1>5, <1>7
  <2> QED  BY <1>7, <1>work, <2>1, <2>2, <2>3, <2>4, WorkStays
<1>13. CASE h \notin HasLoad
  <2>1. loadable_classes' = loadable_classes /\ Scheduled' = Scheduled
    BY <1>3, <1>13 DEF Scheduled
  <2>2. Accounted' /\ OrderInv'
    BY <1>3, <1>7, <1>8, <2>1, QuietScheduled
  <2>3. TypeOK'
    BY <1>3, <1>7, <1>8, <2>1 DEF TypeOK
  <2>4. Queued' = Queued
    BY <1>3, <2>1 DEF Queued
  <2> QED  BY <1>7, <1>11, <1>work, <2>2, <2>3, <2>4 DEF Inv
<1>14. CASE h \in HasLoad
  <2>1. Running(stack') = Running(stack) /\ Left(stack') = Left(stack)
    BY <1>7, QuietKeeps
  <2>2. h \notin Scheduled /\ Scheduled' = Scheduled \cup {h}
    BY <1>3, <1>14, EarlierIs DEF Scheduled
  <2>3. Entries(loadable_classes) \subseteq Queued
    BY DEF Queued
  <2>4. Earlier(h) \subseteq done \cup Running(stack) \cup Left(stack)
                              \cup Entries(loadable_classes)
    <3>1. Earlier(h) \subseteq Scheduled /\ Earlier(h) \subseteq Classes
      BY <1>10, EarlierIs DEF Scheduled
    <3>2. Entries(loadable_categories) \cap Classes = {}
      BY <1>8, WaitingFacts, EarlierIs
    <3> QED  BY <1>8, <3>1, <3>2 DEF Accounted, Queued
  <2>5. /\ loadable_classes' \in Seq(Classes \cup {none})
        /\ Entries(loadable_classes') = Entries(loadable_classes) \cup {h}
        /\ Once(loadable_classes')
        /\ InOrder(loadable_classes', done \cup Running(stack) \cup Left(stack))
    <3>1. h \notin Entries(loadable_classes)
      BY <1>8, <2>2, <2>3 DEF Accounted
    <3>2. /\ loadable_classes \in Seq(Classes \cup {none}) /\ h # none
          /\ Once(loadable_classes)
          /\ InOrder(loadable_classes, done \cup Running(stack) \cup Left(stack))
      BY <1>2, <1>8 DEF TypeOK, OrderInv
    <3>3. loadable_classes' = Append(loadable_classes, h)
      BY <1>3, <1>14
    <3> PICK l \in Seq(Classes \cup {none}) : l = loadable_classes
      BY <3>2
    <3> PICK before : before = done \cup Running(stack) \cup Left(stack)
      OBVIOUS
    <3>4. /\ h \notin Entries(l) /\ Once(l) /\ InOrder(l, before)
          /\ Earlier(h) \subseteq before \cup Entries(l)
      BY <2>4, <3>1, <3>2
    <3>5. /\ Append(l, h) \in Seq(Classes \cup {none})
          /\ Entries(Append(l, h)) = Entries(l) \cup {h}
          /\ Once(Append(l, h)) /\ InOrder(Append(l, h), before)
      BY ONLY <3>2, <3>4, AppendEntry, h \in Classes, l \in Seq(Classes \cup {none})
    <3> QED  BY <3>3, <3>5
  <2>6. Queued' = Queued \cup {h}
    BY <1>3, <2>5 DEF Queued
  <2>7. Accounted'
    BY <1>3, <1>8, <2>1, <2>2, <2>6 DEF Accounted
  <2>8. \A u \in Threads : \A k \in 1 .. Len(stack'[u]) : CallOrder(stack[u][k])'
    BY <1>3, <1>7, <1>8, QuietOrder
  <2>9. OrderInv'
    BY <1>3, <1>8, <2>1, <2>5, <2>8 DEF OrderInv
  <2>10. TypeOK'
    <3>1. \A k \in 1 .. Len(loadable_classes') : loadable_classes'[k] \in loaded' \cup {none}
      <4>1. Entries(loadable_classes) \subseteq loaded
        BY <1>8 DEF TypeOK, Entries
      <4> QED  BY <1>3, <2>5, <4>1 DEF Entries
    <3> QED  BY <1>3, <1>7, <1>8, <2>5, <3>1 DEF TypeOK
  <2>11. WorkInv'
    BY <1>14, <1>work, <2>6
  <2> QED  BY <1>7, <1>11, <2>7, <2>9, <2>10, <2>11 DEF Inv
<1> QED  BY <1>13, <1>14

LEMMA ConcatEntries ==
  ASSUME NEW S, NEW q \in Seq(S \cup {none}), NEW r \in Seq(S), none \notin S,
         Once(q), \A j, k \in 1 .. Len(r) : r[j] = r[k] => j = k,
         Entries(q) \cap Entries(r) = {}
  PROVE  /\ q \o r \in Seq(S \cup {none}) /\ Once(q \o r)
         /\ Entries(q \o r) = Entries(q) \cup Entries(r)
<1> DEFINE c == q \o r
<1>1. /\ c \in Seq(S \cup {none}) /\ Len(c) = Len(q) + Len(r)
      /\ \A k \in 1 .. Len(q) : c[k] = q[k]
      /\ \A k \in 1 .. Len(c) : k \notin 1 .. Len(q) =>
           c[k] = r[k - Len(q)] /\ k - Len(q) \in 1 .. Len(r)
  <2>1. r \in Seq(S \cup {none})
    OBVIOUS
  <2> QED  BY <2>1, ConcatProperties
<1>2. Len(q) \in Nat /\ Len(r) \in Nat
  OBVIOUS
<1> HIDE DEF c
<1>3. \A k \in 1 .. Len(r) : k + Len(q) \in 1 .. Len(c) /\ c[k + Len(q)] = r[k]
  <2> SUFFICES ASSUME NEW k \in 1 .. Len(r)
               PROVE  k + Len(q) \in 1 .. Len(c) /\ c[k + Len(q)] = r[k]
    OBVIOUS
  <2>1. k + Len(q) \in 1 .. Len(c) /\ k + Len(q) \notin 1 .. Len(q)
        /\ (k + Len(q)) - Len(q) = k
    BY <1>1, <1>2
  <2> QED  BY <1>1, <2>1
<1>4. {c[k] : k \in 1 .. Len(c)} = {q[k] : k \in 1 .. Len(q)} \cup {r[k] : k \in 1 .. Len(r)}
  <2>1. ASSUME NEW k \in 1 .. Len(q) PROVE k \in 1 .. Len(c)
    BY <1>1, <1>2
  <2>2. ASSUME NEW k \in 1 .. Len(c)
        PROVE  \/ k \in 1 .. Len(q) /\ c[k] = q[k]
               \/ k - Len(q) \in 1 .. Len(r) /\ c[k] = r[k - Len(q)]
    BY <1>1
  <2>3. ASSUME NEW x, \E k \in 1 .. Len(c) : x = c[k]
        PROVE  (\E k \in 1 .. Len(q) : x = q[k]) \/ \E k \in 1 .. Len(r) : x = r[k]
    BY <2>2, <2>3
  <2>4. ASSUME NEW x, (\E k \in 1 .. Len(q) : x = q[k]) \/ \E k \in 1 .. Len(r) : x = r[k]
        PROVE  \E k \in 1 .. Len(c) : x = c[k]
    BY <1>1, <1>3, <2>1, <2>4
  <2>5. ASSUME NEW x
        PROVE  x \in {c[k] : k \in 1 .. Len(c)}
                 <=> x \in {q[k] : k \in 1 .. Len(q)} \cup {r[k] : k \in 1 .. Len(r)}
    <3>1. x \in {c[k] : k \in 1 .. Len(c)} <=> \E k \in 1 .. Len(c) : x = c[k]
      BY ONLY TRUE
    <3>2. x \in {q[k] : k \in 1 .. Len(q)} \cup {r[k] : k \in 1 .. Len(r)}
            <=> (\E k \in 1 .. Len(q) : x = q[k]) \/ \E k \in 1 .. Len(r) : x = r[k]
      BY ONLY TRUE
    <3> QED  BY <2>3, <2>4, <3>1, <3>2
  <2> QED  BY ONLY <2>5
<1>5. Entries(c) = Entries(q) \cup Entries(r)
  BY <1>4 DEF Entries
<1>6. Once(c)
  <2> SUFFICES ASSUME NEW j \in 1 .. Len(c), NEW k \in 1 .. Len(c), c[j] = c[k], c[j] # none
               PROVE  j = k
    BY DEF Once
  <2>1. CASE j \in 1 .. Len(q) /\ k \in 1 .. Len(q)
    BY <1>1, <2>1 DEF Once
  <2>2. CASE j \notin 1 .. Len(q) /\ k \notin 1 .. Len(q)
    <3>1. j - Len(q) = k - Len(q)
      BY <1>1, <2>2
    <3> QED  BY <1>2, <3>1
  <2>3. ASSUME NEW y \in 1 .. Len(c), NEW z \in 1 .. Len(c), c[y] = c[z], c[y] # none,
               y \in 1 .. Len(q), z \notin 1 .. Len(q)
        PROVE  FALSE
    <3>1. c[y] \in Entries(q)
      BY <1>1, <2>3 DEF Entries
    <3>2. c[z] \in Entries(r)
      BY <1>1, <2>3, SMTT(30) DEF Entries
    <3> QED  BY <2>3, <3>1, <3>2
  <2> QED  BY <2>1, <2>2, <2>3
<1> QED  BY <1>1, <1>5, <1>6 DEF c

\* Every class that the classes and categories of an image build upon has its
\* flag when the classes of the image do.
LEMMA NeededAreLoaded ==
  ASSUME ImagesInv, NEW i \in Images, Links[i] \subseteq prepared,
         Of(i) \cap HasLoad \subseteq loaded, NEW c \in HasLoad, ImageOf[c] \in Needs(i)
  PROVE  c \in loaded
<1>1. c \in Of(ImageOf[c]) \cap HasLoad
  BY ClassesAssumption DEF Of, Items
<1> QED  BY <1>1 DEF ImagesInv, Needs

LEMMA PrepareCategoriesKeeps ==
  ASSUME Inv, NEW t \in Threads, PrepareCategories(t)
  PROVE  Inv'
<1>1. At(t, "prepare") /\ Top(t).list = <<>>
  BY DEF PrepareCategories
<1>2. OpenOK(t, Top(t)) /\ Top(t).pc = "prepare" /\ Top(t).on \in Images
  BY <1>1, SchedulingFacts
<1> PICK i \in Images : i = Top(t).on
  BY <1>2
<1> PICK r \in Seq(Categories) : r = CategoryList[i]
  BY ListsAssumption
<1>3. /\ loadable_categories' = loadable_categories \o r
      /\ prepared' = prepared \cup {i}
      /\ Goto(t, Frame("call", i))
      /\ UNCHANGED <<opener, loaded, loadable_classes, loading, done, missed, opens>>
  BY DEF PrepareCategories
<1>4. /\ i \notin prepared /\ opener[i] = t /\ Links[i] \subseteq prepared
      /\ Of(i) \cap HasLoad \subseteq loaded
  <2>1. Entries(Top(t).list) = {}
    <3>1. Len(<<>>) = 0
      OBVIOUS
    <3> QED  BY <1>1, <3>1 DEF Entries
  <2> QED  BY <1>2, <2>1 DEF OpenOK
<1> DEFINE f == Frame("call", i)
<1>5. f \in Calls /\ KindOK(f) /\ f.pc = "call" /\ f.on = i
  BY DEF Calls, KindOK, Frame
<1>6. OpenOK(t, f)'
  BY <1>5 DEF OpenOK
<1> HIDE DEF f
<1>7. /\ stack' \in [Threads -> Seq(Calls)] /\ CallsInv' /\ Quiet
      /\ Adds(t, f.on)'
      /\ \E n \in Nat : /\ Changes(t, n)
                        /\ \A k \in 1 .. n : stack[t][k].pc \notin {"lock", "prepare"}
                        /\ Len(stack'[t]) = n + 1 => stack'[t][n + 1] = f
  BY <1>1, <1>3, <1>5, PrepareGoto DEF f
<1>8. TypeOK /\ StackType /\ ImagesInv /\ Accounted /\ OrderInv
      /\ \A u \in Threads : StackOK(stack[u])
  BY DEF Inv, TypeOK, StackType, CallsInv
<1>9. \A u \in Threads : \A k \in 1 .. Len(stack'[u]) : OpenOK(u, stack[u][k])'
  <2> PICK n \in Nat : /\ Changes(t, n)
                       /\ \A k \in 1 .. n : stack[t][k].pc \notin {"lock", "prepare"}
                       /\ Len(stack'[t]) = n + 1 => stack'[t][n + 1] = f
    BY <1>7
  <2>1. Len(stack'[t]) = n + 1 => OpenOK(t, stack[t][n + 1])'
    BY <1>6
  <2>2. opener' \in [Images -> Threads \cup {none}]
    BY <1>3, <1>8 DEF TypeOK
  <2> QED  BY <1>3, <1>4, <1>8, <2>1, <2>2, ImagesStay
<1>10. ImagesInv'
  <2>1. \A j \in prepared' : Links[j] \subseteq prepared' /\ Of(j) \cap HasLoad \subseteq loaded
    BY <1>3, <1>4, <1>8 DEF ImagesInv
  <2> QED  BY <1>3, <1>8, <1>9, <2>1 DEF ImagesInv, Of
<1>12. Running(stack') = Running(stack) /\ Left(stack') = Left(stack)
  BY <1>7, QuietKeeps
<1>13. Entries(r) = {x \in Categories : ImageOf[x] = i}
  <2>1. Range(r) = {x \in Categories : ImageOf[x] = i}
    BY ListsAssumption
  <2>2. DOMAIN r = 1 .. Len(r)
    OBVIOUS
  <2>3. Range(r) = {r[k] : k \in 1 .. Len(r)}
    BY <2>2 DEF Range
  <2> QED  BY <2>1, <2>3, EarlierIs DEF Entries
<1>14. Scheduled' = Scheduled \cup Entries(r) /\ Scheduled \cap Entries(r) = {}
  BY <1>3, <1>4, <1>13, EarlierIs DEF Scheduled
<1>15. /\ loadable_categories' \in Seq(Categories \cup {none})
       /\ Once(loadable_categories')
       /\ Entries(loadable_categories') = Entries(loadable_categories) \cup Entries(r)
  <2>1. Entries(loadable_categories) \cap Entries(r) = {}
    BY <1>8, <1>14 DEF Accounted, Queued
  <2> PICK q \in Seq(Categories \cup {none}) : q = loadable_categories
    BY <1>8 DEF TypeOK
  <2>2. Once(q) /\ Entries(q) \cap Entries(r) = {} /\ none \notin Categories
    BY <1>8, <2>1, EarlierIs DEF OrderInv
  <2>3. \A j, k \in 1 .. Len(r) : r[j] = r[k] => j = k
    BY ListsAssumption
  <2>4. /\ q \o r \in Seq(Categories \cup {none}) /\ Once(q \o r)
        /\ Entries(q \o r) = Entries(q) \cup Entries(r)
    BY ONLY <2>2, <2>3, ConcatEntries, q \in Seq(Categories \cup {none}),
            r \in Seq(Categories)
  <2> QED  BY <1>3, <2>4
<1>16. Queued' = Queued \cup Entries(r)
  BY <1>3, <1>15 DEF Queued
<1>11. WorkInv'
  <2> PICK n \in Nat : Changes(t, n)
    BY <1>7
  <2>1. WorkInv
    BY DEF Inv
  <2>2. \A j : Adds(t, j) => j = i
    BY DEF Adds
  <2>3. Adds(t, i)' /\ missed' = missed
    BY <1>3, <1>5, <1>7
  <2>4. \A x \in Entries(r) : Adds(t, ImageOf[x])'
    BY <1>13, <2>3
  <2> QED  BY <1>7, <1>16, <2>1, <2>2, <2>3, <2>4, WorkStays
<1>17. Accounted'
  BY <1>3, <1>8, <1>12, <1>14, <1>16 DEF Accounted
<1>18. \A x \in Entries(r) : Earlier(x) \subseteq loaded
  <2> SUFFICES ASSUME NEW x \in Entries(r), NEW c \in Earlier(x) PROVE c \in loaded
    OBVIOUS
  <2>1. x \in Categories /\ ImageOf[x] = i /\ c \in HasLoad
        /\ (c = ClassOf[x] \/ c \in Above[ClassOf[x]])
    BY <1>13, EarlierIs
  <2>2. ClassOf[x] \in Classes /\ ImageOf[ClassOf[x]] \in Needs(i)
    BY <2>1, ListsAssumption, ClassesAssumption DEF Needs
  <2>3. ImageOf[c] \in Needs(i)
    BY <2>1, <2>2, NeedsAbove
  <2> QED  BY <1>4, <1>8, <2>1, <2>3, NeededAreLoaded
<1>19. \A u \in Threads : \A k \in 1 .. Len(stack'[u]) : CallOrder(stack[u][k])'
  BY <1>3, <1>7, <1>8, QuietOrder
<1>20. OrderInv'
  BY <1>3, <1>8, <1>12, <1>15, <1>18, <1>19 DEF OrderInv
<1>21. TypeOK'
  <2>1. prepared' \subseteq {j \in Images : opener'[j] # none}
    BY <1>3, <1>4, <1>8, NoneAssumption DEF TypeOK
  <2> QED  BY <1>3, <1>7, <1>8, <1>15, <2>1 DEF TypeOK
<1> QED  BY <1>7, <1>10, <1>11, <1>17, <1>20, <1>21 DEF Inv

-----------------------------------------------------------------------------
(***************************************************************************)
(* The loop of call_load_methods. s is the stack before or after a step.   *)
(***************************************************************************)

\* A +load was called by a loop.
LEMMA LoadIsCalled ==
  ASSUME NEW s \in [Threads -> Seq(Calls)], \A u \in Threads : StackOK(s[u]),
         NEW u \in Threads, NEW i \in Nat, IsLoad(s, u, i)
  PROVE  /\ i - 1 \in Nat /\ IsLooping(s, u, i - 1)
         /\ \/ s[u][i - 1].pc = "classes" /\ s[u][i].on \in Classes
            \/ s[u][i - 1].pc = "categories" /\ s[u][i].on \in Categories
<1>1. i \in 1 .. Len(s[u]) /\ s[u][i].pc = "load" /\ Len(s[u]) \in Nat
  BY DEF IsLoad
<1>2. i # 1
  BY <1>1 DEF StackOK
<1>3. i > 1 /\ i - 1 \in 1 .. Len(s[u]) /\ i - 1 \in Nat
  BY <1>1, <1>2
<1>4. Follows(s[u][i - 1], s[u][i])
  BY <1>1, <1>3 DEF StackOK
<1> QED  BY <1>1, <1>3, <1>4 DEF Follows, IsLooping, Looping

LEMMA NoLoop ==
  ASSUME NEW s \in [Threads -> Seq(Calls)], \A u \in Threads : StackOK(s[u]),
         \A u \in Threads : \A i \in Nat : ~IsLooping(s, u, i)
  PROVE  /\ \A u \in Threads : \A i \in Nat : ~IsLoad(s, u, i)
         /\ Running(s) = {} /\ Left(s) = {}
BY LoadIsCalled DEF Running, Left

\* A loop that is the last call of its thread.
LEMMA LoopIsLast ==
  ASSUME NEW s \in [Threads -> Seq(Calls)], \A u \in Threads : StackOK(s[u]), OneActive(s),
         NEW t \in Threads, NEW n \in Nat, n = Len(s[t]), IsLooping(s, t, n)
  PROVE  /\ \A u \in Threads : \A i \in Nat : IsLooping(s, u, i) <=> u = t /\ i = n
         /\ \A u \in Threads : \A i \in Nat : ~IsLoad(s, u, i)
         /\ Running(s) = {} /\ Left(s) = Entries(s[t][n].list)
<1>1. \A u \in Threads : \A i \in Nat : IsLooping(s, u, i) <=> u = t /\ i = n
  BY DEF OneActive
<1>2. ASSUME NEW u \in Threads, NEW i \in Nat, IsLoad(s, u, i) PROVE FALSE
  <2>1. i - 1 \in Nat /\ IsLooping(s, u, i - 1)
    BY <1>2, LoadIsCalled
  <2>2. u = t /\ i - 1 = n
    BY <1>1, <2>1
  <2>3. i \in 1 .. Len(s[t])
    BY <1>2, <2>2 DEF IsLoad
  <2> QED  BY <2>2, <2>3
<1>3. Running(s) = {}
  BY <1>2 DEF Running
<1>4. s[t][n] \in Calls
  BY DEF IsLooping
<1>5. Entries(s[t][n].list) \subseteq Items
  BY <1>4 DEF Entries, Calls
<1>6. Left(s) = Entries(s[t][n].list)
  <2>1. ASSUME NEW x \in Items
        PROVE  (\E u \in Threads : \E i \in Nat :
                  IsLooping(s, u, i) /\ x \in Entries(s[u][i].list))
                 <=> x \in Entries(s[t][n].list)
    BY <1>1
  <2> QED  BY <1>5, <2>1 DEF Left
<1> QED  BY <1>1, <1>2, <1>3, <1>6

\* A +load that is the last call of its thread.
LEMMA LoadIsLast ==
  ASSUME NEW s \in [Threads -> Seq(Calls)], \A u \in Threads : StackOK(s[u]), OneActive(s),
         NEW t \in Threads, NEW n \in Nat, n + 1 = Len(s[t]), IsLoad(s, t, n + 1)
  PROVE  /\ IsLooping(s, t, n)
         /\ \A u \in Threads : \A i \in Nat : IsLooping(s, u, i) <=> u = t /\ i = n
         /\ \A u \in Threads : \A i \in Nat : IsLoad(s, u, i) <=> u = t /\ i = n + 1
         /\ Running(s) = {s[t][n + 1].on} /\ Left(s) = Entries(s[t][n].list)
<1>1. IsLooping(s, t, n) /\ s[t][n + 1].on \in Items
  <2>1. n + 1 \in Nat /\ (n + 1) - 1 = n
    OBVIOUS
  <2> QED  BY <2>1, LoadIsCalled DEF Items
<1>2. \A u \in Threads : \A i \in Nat : IsLooping(s, u, i) <=> u = t /\ i = n
  BY <1>1 DEF OneActive
<1>3. \A u \in Threads : \A i \in Nat : IsLoad(s, u, i) <=> u = t /\ i = n + 1
  <2>1. ASSUME NEW u \in Threads, NEW i \in Nat, IsLoad(s, u, i) PROVE u = t /\ i = n + 1
    <3>1. i - 1 \in Nat /\ IsLooping(s, u, i - 1)
      BY <2>1, LoadIsCalled
    <3> QED  BY <1>2, <3>1
  <2> QED  BY <2>1
<1>4. Running(s) = {s[t][n + 1].on}
  <2>1. ASSUME NEW x \in Items
        PROVE  (\E u \in Threads : \E i \in Nat : IsLoad(s, u, i) /\ s[u][i].on = x)
                 <=> x = s[t][n + 1].on
    <3>1. n + 1 \in Nat
      OBVIOUS
    <3> QED  BY <1>3, <3>1
  <2> QED  BY <1>1, <2>1 DEF Running
<1>5. s[t][n] \in Calls
  BY <1>1 DEF IsLooping
<1>6. Entries(s[t][n].list) \subseteq Items
  BY <1>5 DEF Entries, Calls
<1>7. Left(s) = Entries(s[t][n].list)
  <2>1. ASSUME NEW x \in Items
        PROVE  (\E u \in Threads : \E i \in Nat :
                  IsLooping(s, u, i) /\ x \in Entries(s[u][i].list))
                 <=> x \in Entries(s[t][n].list)
    BY <1>2
  <2> QED  BY <1>6, <2>1 DEF Left
<1> QED  BY <1>1, <1>2, <1>3, <1>4, <1>7

\* Whether a call loops is known but for the last call of t.
LEMMA LoopsKept ==
  ASSUME StackType, NEW t \in Threads, NEW n, Changes(t, n), NEW u \in Threads,
         NEW i \in Nat
  PROVE  /\ u # t \/ i <= n => (IsLooping(stack', u, i) <=> IsLooping(stack, u, i))
         /\ u = t /\ ~(i <= n) =>
              /\ IsLooping(stack, u, i) <=>
                   Len(stack[t]) = n + 1 /\ i = n + 1 /\ stack[t][n + 1].pc \in Looping
              /\ IsLooping(stack', u, i) <=>
                   Len(stack'[t]) = n + 1 /\ i = n + 1 /\ stack'[t][n + 1].pc \in Looping
<1>1. CASE u # t \/ i <= n
  BY <1>1, ChangesKept DEF IsLooping, Changes
<1>2. CASE u = t /\ ~(i <= n)
  <2>1. /\ i \in 1 .. Len(stack[t]) <=> Len(stack[t]) = n + 1 /\ i = n + 1
        /\ i \in 1 .. Len(stack'[t]) <=> Len(stack'[t]) = n + 1 /\ i = n + 1
    BY <1>2, ChangesLast
  <2>2. n \in Nat
    BY DEF Changes
  <2> QED  BY <1>2, <2>1, <2>2 DEF IsLooping
<1> QED  BY <1>1, <1>2

\* What the calls do not have to do with images stays true of them.
LEMMA ImagesKeep ==
  ASSUME Inv, NEW t \in Threads, NEW n, Changes(t, n),
         Len(stack'[t]) = n + 1 => stack'[t][n + 1].pc \notin {"open", "lock", "prepare"},
         \A i \in 1 .. n : stack[t][i].pc \notin {"lock", "prepare"},
         UNCHANGED <<opener, prepared, loaded>>
  PROVE  ImagesInv' /\ Scheduled' = Scheduled
<1>1. Len(stack'[t]) = n + 1 => OpenOK(t, stack[t][n + 1])'
  BY DEF OpenOK
<1>2. /\ TypeOK /\ ImagesInv /\ \A u \in Threads : StackOK(stack[u])
      /\ opener' \in [Images -> Threads \cup {none}]
  BY DEF Inv, CallsInv, TypeOK
<1>3. \A u \in Threads : \A i \in 1 .. Len(stack'[u]) : OpenOK(u, stack[u][i])'
  BY <1>1, <1>2, ImagesStay
<1> QED  BY <1>2, <1>3 DEF ImagesInv, Scheduled, Of

\* A call of call_load_methods goes on with its loop.
LEMMA LoopGoto ==
  ASSUME Inv, NEW t \in Threads, ~Idle(t),
         Top(t).pc \in Looping \/ (Top(t).pc = "call" /\ ~loading),
         NEW f \in Calls, Goto(t, f), f.pc \in Looping, KindOK(f), loading' = TRUE,
         UNCHANGED <<opener, prepared, loaded, done, opens>>
  PROVE  /\ stack' \in [Threads -> Seq(Calls)] /\ CallsInv' /\ ImagesInv'
         /\ f.pc # "pool" => WorkInv'
         /\ Scheduled' = Scheduled
         /\ Running(stack) = {} /\ Left(stack) = Entries(Top(t).list)
         /\ Running(stack') = {} /\ Left(stack') = Entries(f.list)
         /\ CallOrder(f)' =>
              \A u \in Threads : \A k \in 1 .. Len(stack'[u]) : CallOrder(stack[u][k])'
<1> PICK n \in Nat : n + 1 = Len(stack[t]) /\ n = Len(stack[t]) - 1
  BY TopIs
<1>1. /\ StackType /\ Top(t) = stack[t][n + 1] /\ KindOK(Top(t))
      /\ n > 0 => Follows(stack[t][n], Top(t))
      /\ n = 0 => Top(t).pc = "open"
      /\ Top(t).pc \in Holding => HoldsIn(stack, t)
      /\ \A i \in 1 .. n : stack[t][i].pc \notin {"lock", "prepare", "call"}
  BY TopIs
<1>2. /\ stack' \in [Threads -> Seq(Calls)] /\ OthersStay(t, n)
      /\ Len(stack'[t]) = n + 1 /\ stack'[t][n + 1] = f
  BY <1>1, GotoCells
<1>3. Changes(t, n)
  BY <1>2 DEF Changes
<1>4. n > 0 /\ Follows(stack[t][n], f)
  <2>0. Top(t).pc \in {"loop", "classes", "categories", "pool", "call"}
    BY DEF Looping
  <2>1. n # 0
    BY <1>1, <2>0
  <2>2. n > 0
    BY ONLY <2>1, n \in Nat
  <2>3. stack[t][n].pc = "open"
    <3>1. Follows(stack[t][n], Top(t))
      BY <1>1, <2>2
    <3> QED  BY ONLY <2>0, <3>1 DEF Follows
  <2>4. f.pc \in {"loop", "classes", "categories", "pool"}
    BY DEF Looping
  <2> QED  BY <2>2, <2>3, <2>4 DEF Follows
<1>5. n \in 0 .. Len(stack[t]) /\ \A u \in Threads : StackOK(stack[u])
  BY DEF Inv, CallsInv
<1>6. \A u \in Threads : StackOK(stack'[u])
  <2>1. n = 0 => f.pc = "open"
    BY ONLY <1>4, n \in Nat
  <2> QED  BY ONLY <1>1, <1>2, <1>4, <1>5, <2>1, LastCellOK, t \in Threads, n \in Nat,
                   KindOK(f)
<1>7. \A u \in Threads : \A i \in Nat : IsLooping(stack, u, i) => u = t /\ i = n + 1
  <2>1. CASE Top(t).pc \in Looping
    <3>1. IsLooping(stack, t, n + 1)
      BY <1>1, <2>1 DEF IsLooping
    <3> QED  BY <3>1 DEF Inv, CallsInv, OneActive
  <2>2. CASE ~loading
    BY <2>2 DEF Inv, CallsInv
  <2> QED  BY <2>1, <2>2
<1>8. \A u \in Threads : \A i \in Nat : IsLooping(stack', u, i) <=> u = t /\ i = n + 1
  <2> SUFFICES ASSUME NEW u \in Threads, NEW i \in Nat
               PROVE  IsLooping(stack', u, i) <=> u = t /\ i = n + 1
    OBVIOUS
  <2>1. CASE u # t \/ i <= n
    <3>1. IsLooping(stack', u, i) <=> IsLooping(stack, u, i)
      BY <1>1, <1>3, <2>1, LoopsKept
    <3> QED  BY <1>7, <2>1, <3>1
  <2>2. CASE u = t /\ ~(i <= n)
    BY <1>1, <1>2, <1>3, <2>2, LoopsKept
  <2> QED  BY <2>1, <2>2
<1>9. Running(stack) = {} /\ Left(stack) = Entries(Top(t).list)
  <2>1. CASE Top(t).pc \in Looping
    <3>1. IsLooping(stack, t, n + 1) /\ OneActive(stack)
      BY <1>1, <2>1 DEF IsLooping, Inv, CallsInv
    <3>2. stack \in [Threads -> Seq(Calls)] /\ n + 1 \in Nat
      BY <1>1 DEF StackType
    <3> QED  BY <1>1, <1>5, <3>1, <3>2, LoopIsLast
  <2>2. CASE Top(t).pc = "call" /\ ~loading
    <3>1. \A u \in Threads : \A i \in Nat : ~IsLooping(stack, u, i)
      BY <2>2 DEF Inv, CallsInv
    <3>2. Running(stack) = {} /\ Left(stack) = {}
      BY <1>1, <1>5, <3>1, NoLoop DEF StackType
    <3>3. Entries(Top(t).list) = {}
      <4>1. Top(t).list = <<>>
        BY <1>1, <2>2 DEF KindOK
      <4> QED  BY <4>1 DEF Entries
    <3> QED  BY <3>2, <3>3
  <2> QED  BY <2>1, <2>2
<1>10. OneActive(stack')
  BY <1>8 DEF OneActive
<1>11. /\ \A u \in Threads : \A i \in Nat : ~IsLoad(stack', u, i)
       /\ Running(stack') = {} /\ Left(stack') = Entries(f.list)
  <2>1. IsLooping(stack', t, n + 1) /\ n + 1 \in Nat /\ n + 1 = Len(stack'[t])
    BY <1>2, <1>8
  <2> QED  BY <1>2, <1>6, <1>10, <2>1, LoopIsLast
<1>12. CallsInv'
  <2>1. HoldsIn(stack, t)
    BY <1>1 DEF Looping, Holding
  <2>2. CallsInv
    BY DEF Inv
  <2>3. \A u, w \in Threads : HoldsIn(stack', u) /\ HoldsIn(stack', w) => u = w
    BY <1>1, <1>3, <2>1, <2>2, HoldersStay
  <2>4. n + 1 \in Nat
    OBVIOUS
  <2> QED  BY <1>6, <1>8, <1>10, <2>3, <2>4 DEF CallsInv
<1>13. ImagesInv' /\ Scheduled' = Scheduled
  BY <1>1, <1>2, <1>3, ImagesKeep DEF Looping
<1>14. f.pc # "pool" => WorkInv'
  <2>1. f.pc # "pool" => Working(stack')
    BY <1>2, <1>8 DEF Working
  <2> QED  BY <2>1 DEF WorkInv
<1>15. ASSUME CallOrder(f)', NEW u \in Threads, NEW k \in 1 .. Len(stack'[u])
       PROVE  CallOrder(stack[u][k])'
  <2>0. Len(stack'[u]) \in Nat
    BY <1>2
  <2>1. CASE u = t /\ k = n + 1
    <3>1. stack'[u][k] = f
      BY <1>2, <2>1
    <3> QED  BY <1>15, <3>1 DEF CallOrder
  <2>2. CASE ~(u = t /\ k = n + 1)
    <3>1. ~IsLooping(stack', u, k) /\ ~IsLoad(stack', u, k)
      BY <1>8, <1>11, <2>0, <2>2
    <3>2. stack'[u][k].pc \notin {"load", "classes", "categories"}
      BY <3>1 DEF IsLooping, IsLoad, Looping
    <3> QED  BY <3>2 DEF CallOrder
  <2> QED  BY <2>1, <2>2
<1> QED  BY <1>2, <1>9, <1>11, <1>12, <1>13, <1>14, <1>15

LEMMA EmptyList ==
  Entries(<<>>) = {} /\ Once(<<>>) /\ \A before : InOrder(<<>>, before)
BY DEF Entries, Once, InOrder

\* The loop goes on and no item moves.
LEMMA LoopStays ==
  ASSUME Inv, NEW t \in Threads, ~Idle(t),
         Top(t).pc \in Looping \/ (Top(t).pc = "call" /\ ~loading),
         Entries(Top(t).list) = {}, Goto(t, Frame("loop", Top(t).on)), loading' = TRUE,
         UNCHANGED <<opener, prepared, loaded, loadable_classes, loadable_categories,
                     done, missed, opens>>
  PROVE  Inv'
<1>1. Top(t).on \in Images
  BY TopIs DEF KindOK, Looping
<1> PICK i \in Images : i = Top(t).on
  BY <1>1
<1> DEFINE f == Frame("loop", i)
<1>2. f \in Calls /\ KindOK(f) /\ f.pc = "loop" /\ f.list = <<>>
  BY DEF Frame, Calls, KindOK
<1>3. CallOrder(f)'
  BY <1>2 DEF CallOrder
<1>4. Goto(t, f) /\ f.pc \in Looping
  BY <1>2 DEF Looping
<1> HIDE DEF f
<1>5. /\ stack' \in [Threads -> Seq(Calls)] /\ CallsInv' /\ ImagesInv' /\ WorkInv'
      /\ Scheduled' = Scheduled
      /\ Running(stack) = {} /\ Left(stack) = {}
      /\ Running(stack') = {} /\ Left(stack') = {}
      /\ \A u \in Threads : \A k \in 1 .. Len(stack'[u]) : CallOrder(stack[u][k])'
  BY <1>2, <1>3, <1>4, LoopGoto, EmptyList
<1>6. TypeOK /\ Accounted /\ OrderInv
  BY DEF Inv
<1>7. Accounted'
  BY <1>5, <1>6 DEF Accounted, Queued
<1>8. OrderInv'
  BY <1>5, <1>6 DEF OrderInv
<1>9. TypeOK'
  BY <1>5, <1>6 DEF TypeOK
<1> QED  BY <1>5, <1>7, <1>8, <1>9 DEF Inv

LEMMA CallLoadMethodsKeeps ==
  ASSUME Inv, NEW t \in Threads, CallLoadMethods(t)
  PROVE  Inv'
<1>1. CASE Reentrant
  BY <1>1, ReentrantKeeps
<1>2. CASE ~Reentrant
  <2>1. /\ ~Idle(t) /\ Top(t).pc = "call" /\ ~loading /\ loading' = TRUE
        /\ Goto(t, Frame("loop", Top(t).on))
        /\ UNCHANGED <<opener, prepared, loaded, loadable_classes, loadable_categories,
                       done, opens>>
    BY <1>2 DEF CallLoadMethods, Reentrant, At
  <2>3. missed' = missed
    <3>1. ASSUME Popping PROVE FALSE
      <4> PICK u \in Threads : \E g \in Frames(u) : g.pc = "pool"
        BY <3>1 DEF Popping
      <4> PICK g \in Frames(u) : g.pc = "pool"
        OBVIOUS
      <4>1. stack[u] \in Seq(Calls)
        BY DEF Inv, TypeOK
      <4> PICK k \in 1 .. Len(stack[u]) : stack[u][k] = g
        BY <4>1 DEF Frames, Range
      <4>2. k \in Nat /\ IsLooping(stack, u, k)
        BY <4>1 DEF IsLooping, Looping
      <4> QED  BY <2>1, <4>2 DEF Inv, CallsInv
    <3> QED  BY <3>1 DEF CallLoadMethods
  <2>2. Entries(Top(t).list) = {}
    BY <2>1, TopIs, EmptyList DEF KindOK
  <2> QED  BY <2>1, <2>2, <2>3, LoopStays
<1> QED  BY <1>1, <1>2

\* A loop is entered with the flag set.
LEMMA LoopingFacts ==
  ASSUME Inv, NEW t \in Threads, ~Idle(t), Top(t).pc \in Looping
  PROVE  loading /\ KindOK(Top(t)) /\ CallOrder(Top(t)) /\ Top(t) \in Calls
         /\ Top(t).on \in Images
<1>1. /\ Len(stack[t]) \in Nat /\ Len(stack[t]) \in 1 .. Len(stack[t])
      /\ Top(t) = stack[t][Len(stack[t])]
      /\ KindOK(Top(t)) /\ CallOrder(Top(t)) /\ Top(t) \in Calls
  BY TopIs
<1>2. IsLooping(stack, t, Len(stack[t]))
  BY <1>1 DEF IsLooping
<1>3. loading
  BY <1>1, <1>2 DEF Inv, CallsInv
<1> QED  BY <1>1, <1>3 DEF KindOK, Looping

LEMMA ClassesDoneKeeps ==
  ASSUME Inv, NEW t \in Threads, ClassesDone(t)
  PROVE  Inv'
<1>1. /\ ~Idle(t) /\ Top(t).pc \in Looping /\ Top(t).list = <<>>
      /\ Goto(t, Frame("loop", Top(t).on))
      /\ UNCHANGED <<opener, prepared, loaded, loadable_classes, loadable_categories,
                     loading, done, missed, opens>>
  BY DEF ClassesDone, At, Looping
<1>2. loading' = TRUE
  BY <1>1, LoopingFacts DEF Inv, TypeOK
<1> QED  BY <1>1, <1>2, LoopStays, EmptyList

LEMMA DetachClassesKeeps ==
  ASSUME Inv, NEW t \in Threads, DetachClasses(t)
  PROVE  Inv'
<1>1. /\ ~Idle(t) /\ Top(t).pc = "loop" /\ Top(t).pc \in Looping
      /\ WithList(t, "classes", loadable_classes)
      /\ loadable_classes' = <<>>
      /\ UNCHANGED <<opener, prepared, loaded, loadable_categories, loading, done, missed, opens>>
  BY DEF DetachClasses, At, Looping
<1>2. loading' = TRUE /\ Top(t).on \in Images /\ Entries(Top(t).list) = {}
  BY <1>1, LoopingFacts, EmptyList DEF Inv, TypeOK, KindOK
<1>3. TypeOK /\ Accounted /\ OrderInv
  BY DEF Inv
<1> PICK i \in Images : i = Top(t).on
  BY <1>2
<1> PICK q \in Seq(Classes \cup {none}) : q = loadable_classes
  BY <1>3 DEF TypeOK
<1> DEFINE f == [pc |-> "classes", on |-> i, list |-> q]
<1>4. f \in Calls /\ KindOK(f) /\ f.pc = "classes" /\ f.pc \in Looping /\ f.list = q
  BY DEF Calls, KindOK, Looping, Items
<1>5. Goto(t, f)
  BY <1>1 DEF WithList
<1> HIDE DEF f
<1>6. /\ stack' \in [Threads -> Seq(Calls)] /\ CallsInv' /\ ImagesInv' /\ WorkInv'
      /\ Scheduled' = Scheduled
      /\ Running(stack) = {} /\ Left(stack) = {}
      /\ Running(stack') = {} /\ Left(stack') = Entries(q)
      /\ CallOrder(f)' =>
           \A u \in Threads : \A k \in 1 .. Len(stack'[u]) : CallOrder(stack[u][k])'
  BY <1>1, <1>2, <1>4, <1>5, LoopGoto
<1>7. CallOrder(f)'
  <2>1. Once(q) /\ InOrder(q, done)
    BY <1>3, <1>6 DEF OrderInv
  <2>2. done' \cup Running(stack') = done
    BY <1>1, <1>6
  <2> QED  BY <1>4, <2>1, <2>2 DEF CallOrder
<1>8. Queued = Entries(q) \cup Entries(loadable_categories)
      /\ Queued' = Entries(loadable_categories)
  BY <1>1, EmptyList DEF Queued
<1>9. Entries(q) \cap Entries(loadable_categories) = {}
  BY <1>3, WaitingFacts, EarlierIs
<1>10. Accounted'
  BY <1>1, <1>3, <1>6, <1>8, <1>9 DEF Accounted
<1>11. OrderInv'
  BY <1>1, <1>3, <1>6, <1>7, EmptyList DEF OrderInv
<1>12. TypeOK'
  BY <1>1, <1>3, <1>6 DEF TypeOK
<1> QED  BY <1>6, <1>10, <1>11, <1>12 DEF Inv

LEMMA DetachCategoriesKeeps ==
  ASSUME Inv, NEW t \in Threads, DetachCategories(t)
  PROVE  Inv'
<1>1. /\ ~Idle(t) /\ Top(t).pc = "loop" /\ Top(t).pc \in Looping
      /\ WithList(t, "categories", loadable_categories)
      /\ loadable_classes = <<>> /\ loadable_categories' = <<>>
      /\ UNCHANGED <<opener, prepared, loaded, loadable_classes, loading, done, missed, opens>>
  BY DEF DetachCategories, At, Looping
<1>2. loading' = TRUE /\ Top(t).on \in Images /\ Entries(Top(t).list) = {}
  BY <1>1, LoopingFacts, EmptyList DEF Inv, TypeOK, KindOK
<1>3. TypeOK /\ Accounted /\ OrderInv
  BY DEF Inv
<1> PICK i \in Images : i = Top(t).on
  BY <1>2
<1> PICK q \in Seq(Categories \cup {none}) : q = loadable_categories
  BY <1>3 DEF TypeOK
<1> DEFINE f == [pc |-> "categories", on |-> i, list |-> q]
<1>4. f \in Calls /\ KindOK(f) /\ f.pc = "categories" /\ f.pc \in Looping /\ f.list = q
  BY DEF Calls, KindOK, Looping, Items
<1>5. Goto(t, f)
  BY <1>1 DEF WithList
<1> HIDE DEF f
<1>6. /\ stack' \in [Threads -> Seq(Calls)] /\ CallsInv' /\ ImagesInv' /\ WorkInv'
      /\ Scheduled' = Scheduled
      /\ Running(stack) = {} /\ Left(stack) = {}
      /\ Running(stack') = {} /\ Left(stack') = Entries(q)
      /\ CallOrder(f)' =>
           \A u \in Threads : \A k \in 1 .. Len(stack'[u]) : CallOrder(stack[u][k])'
  BY <1>1, <1>2, <1>4, <1>5, LoopGoto
<1>7. Queued = Entries(q) /\ Queued' = {}
  BY <1>1, EmptyList DEF Queued
\* No class waits, and all that were scheduled are over.
<1>8. CallOrder(f)'
  <2>1. Once(q)
    BY <1>3 DEF OrderInv
  <2>2. \A x \in Entries(q) : Earlier(x) \subseteq loaded \cap HasLoad
    BY <1>3, EarlierIs DEF OrderInv
  <2>3. loaded \cap HasLoad \subseteq done \cup Entries(q)
    BY <1>3, <1>6, <1>7 DEF Accounted, Scheduled
  <2>4. Entries(q) \cap HasLoad = {}
    BY <1>3, WaitingFacts, EarlierIs
  <2>5. \A x \in Entries(q) : Earlier(x) \subseteq done'
    BY <1>1, <2>2, <2>3, <2>4
  <2> QED  BY <1>4, <2>1, <2>5 DEF CallOrder
<1>9. Accounted'
  BY <1>1, <1>3, <1>6, <1>7 DEF Accounted
<1>10. OrderInv'
  BY <1>1, <1>3, <1>6, <1>8, EmptyList DEF OrderInv
<1>11. TypeOK'
  BY <1>1, <1>3, <1>6 DEF TypeOK
<1> QED  BY <1>6, <1>9, <1>10, <1>11 DEF Inv

\* The head of a list is taken.
LEMMA PopOrder ==
  ASSUME NEW S, NEW q \in Seq(S), q # <<>>, Once(q)
  PROVE  /\ Head(q) \in S /\ Tail(q) \in Seq(S) /\ Once(Tail(q))
         /\ Entries(q) = Entries(Tail(q)) \cup ({Head(q)} \ {none})
         /\ Head(q) \notin Entries(Tail(q))
         /\ \A before : InOrder(q, before) =>
              /\ Head(q) # none => Earlier(Head(q)) \subseteq before
              /\ InOrder(Tail(q), before \cup ({Head(q)} \ {none}))
<1> DEFINE r == Tail(q)
<1>1. /\ r \in Seq(S) /\ Len(r) = Len(q) - 1 /\ Len(q) \in Nat \ {0}
      /\ Head(q) = q[1] /\ \A k \in 1 .. Len(q) - 1 : r[k] = q[k + 1]
  BY HeadTailProperties
<1> HIDE DEF r
<1>2. /\ 1 \in 1 .. Len(q) /\ \A k \in 1 .. Len(r) : k + 1 \in 1 .. Len(q) /\ r[k] = q[k + 1]
      /\ \A k \in 1 .. Len(q) : k = 1 \/ (k - 1 \in 1 .. Len(r) /\ r[k - 1] = q[k])
  BY <1>1
<1>3. q[1] \in S
  BY <1>2
<1>4. Once(r)
  <2> SUFFICES ASSUME NEW j \in 1 .. Len(r), NEW k \in 1 .. Len(r), r[j] = r[k], r[j] # none
               PROVE  j = k
    BY DEF Once
  <2>1. j + 1 = k + 1
    BY <1>2 DEF Once
  <2> QED  BY <2>1
<1>5. Entries(q) = Entries(r) \cup ({q[1]} \ {none})
  <2>1. ASSUME NEW x PROVE (\E k \in 1 .. Len(q) : x = q[k])
                             <=> x = q[1] \/ \E k \in 1 .. Len(r) : x = r[k]
    BY <1>2
  <2>2. {q[k] : k \in 1 .. Len(q)} = {q[1]} \cup {r[k] : k \in 1 .. Len(r)}
    BY ONLY <2>1
  <2> QED  BY <2>2 DEF Entries
<1>6. q[1] \notin Entries(r)
  <2> SUFFICES ASSUME NEW k \in 1 .. Len(r), r[k] = q[1], q[1] # none PROVE FALSE
    BY DEF Entries
  <2>1. k + 1 = 1
    BY <1>2 DEF Once
  <2> QED  BY <2>1
<1>7. ASSUME NEW before, InOrder(q, before), q[1] # none PROVE Earlier(q[1]) \subseteq before
  <2>1. Earlier(q[1]) \subseteq before \cup {q[j] : j \in 1 .. 1 - 1}
    BY <1>2, <1>7 DEF InOrder
  <2> QED  BY <2>1
<1>8. ASSUME NEW before, InOrder(q, before)
      PROVE  InOrder(r, before \cup ({q[1]} \ {none}))
  <2> SUFFICES ASSUME NEW k \in 1 .. Len(r), r[k] # none
               PROVE  Earlier(r[k]) \subseteq
                        before \cup ({q[1]} \ {none}) \cup {r[j] : j \in 1 .. k - 1}
    BY DEF InOrder
  <2>1. Earlier(q[k + 1]) \subseteq before \cup {q[j] : j \in 1 .. (k + 1) - 1}
    BY <1>2, <1>8 DEF InOrder
  <2>2. ASSUME NEW j \in 1 .. (k + 1) - 1
        PROVE  q[j] = q[1] \/ q[j] \in {r[m] : m \in 1 .. k - 1}
    <3>1. CASE j = 1
      BY <3>1
    <3>2. CASE j # 1
      <4>1. j \in 1 .. Len(q) /\ j - 1 \in 1 .. k - 1 /\ r[j - 1] = q[j]
        BY <1>1, <1>2, <3>2
      <4> QED  BY <4>1
    <3> QED  BY <3>1, <3>2
  <2>3. none \notin Earlier(q[k + 1])
    BY EarlierIs
  <2> QED  BY <1>2, <2>1, <2>2, <2>3
<1> QED  BY <1>1, <1>3, <1>4, <1>5, <1>6, <1>7, <1>8 DEF r

\* The list that a loop goes through, and its next entry.
LEMMA InListFacts ==
  ASSUME Inv, NEW t \in Threads, InList(t), Top(t).list # <<>>
  PROVE  \E c \in {"classes", "categories"}, i \in Images, q \in Seq(Items \cup {none}) :
           /\ Top(t) = [pc |-> c, on |-> i, list |-> q] /\ q # <<>> /\ Once(q)
           /\ ~Idle(t) /\ c \in Looping /\ loading
           /\ c = "classes" => q \in Seq(Classes \cup {none}) /\ InOrder(q, done \cup Running(stack))
           /\ c = "categories" => /\ q \in Seq(Categories \cup {none})
                                  /\ \A x \in Entries(q) : Earlier(x) \subseteq done
           /\ Head(q) \in Items \cup {none} /\ Tail(q) \in Seq(Items \cup {none})
           /\ KindOK([pc |-> c, on |-> i, list |-> Tail(q)])
           /\ [Top(t) EXCEPT !.list = Tail(@)] = [pc |-> c, on |-> i, list |-> Tail(q)]
<1>1. ~Idle(t) /\ Top(t).pc \in {"classes", "categories"} /\ Top(t).pc \in Looping
  BY DEF InList, At, Looping
<1>2. loading /\ KindOK(Top(t)) /\ CallOrder(Top(t)) /\ Top(t) \in Calls /\ Top(t).on \in Images
  BY <1>1, LoopingFacts
<1> PICK c \in {"classes", "categories"} : c = Top(t).pc
  BY <1>1
<1> PICK i \in Images : i = Top(t).on
  BY <1>2
<1> PICK q \in Seq(Items \cup {none}) : q = Top(t).list
  BY <1>2 DEF Calls
<1>3. Top(t) = [pc |-> c, on |-> i, list |-> q] /\ q # <<>>
  BY <1>2 DEF Calls
<1>4. /\ Once(q)
      /\ c = "classes" => q \in Seq(Classes \cup {none}) /\ InOrder(q, done \cup Running(stack))
      /\ c = "categories" => /\ q \in Seq(Categories \cup {none})
                             /\ \A x \in Entries(q) : Earlier(x) \subseteq done
  BY <1>2 DEF CallOrder, KindOK
<1>5. /\ Head(q) \in Items \cup {none} /\ Tail(q) \in Seq(Items \cup {none})
      /\ c = "classes" => Tail(q) \in Seq(Classes \cup {none})
      /\ c = "categories" => Tail(q) \in Seq(Categories \cup {none})
  BY <1>3, <1>4
<1>6. KindOK([pc |-> c, on |-> i, list |-> Tail(q)])
  BY <1>5 DEF KindOK
<1>7. [Top(t) EXCEPT !.list = Tail(@)] = [pc |-> c, on |-> i, list |-> Tail(q)]
  <2> PICK f : f = Top(t)
    OBVIOUS
  <2>0. f = [pc |-> c, on |-> i, list |-> q]
    BY <1>3
  <2> PICK r : r = Tail(q)
    OBVIOUS
  <2>1. f \in [pc : {c}, on : {i}, list : {q, r}]
    BY ONLY <2>0
  <2> PICK g \in [pc : {c}, on : {i}, list : {q, r}] : g = [f EXCEPT !.list = r]
    BY ONLY <2>1
  <2>2. g.list = r
    BY ONLY <2>1, g = [f EXCEPT !.list = r]
  <2>3. g = [pc |-> c, on |-> i, list |-> r]
    BY ONLY <2>2, g \in [pc : {c}, on : {i}, list : {q, r}]
  <2>4. [f EXCEPT !.list = Tail(@)] = g
    BY ONLY <2>0, r = Tail(q), g = [f EXCEPT !.list = r]
  <2> QED  BY ONLY <2>3, <2>4, f = Top(t), r = Tail(q)
<1> WITNESS c \in {"classes", "categories"}, i \in Images, q \in Seq(Items \cup {none})
<1> QED  BY ONLY <1>1, <1>2, <1>3, <1>4, <1>5, <1>6, <1>7, c = Top(t).pc

\* An entry that was removed is skipped.
LEMMA SkipKeeps ==
  ASSUME Inv, NEW t \in Threads, CallLoad(t), Head(Top(t).list) = none
  PROVE  Inv'
<1>1. InList(t) /\ Top(t).list # <<>>
  BY DEF CallLoad
<1> PICK c \in {"classes", "categories"}, i \in Images, q \in Seq(Items \cup {none}) :
           /\ Top(t) = [pc |-> c, on |-> i, list |-> q] /\ q # <<>> /\ Once(q)
           /\ ~Idle(t) /\ c \in Looping /\ loading
           /\ c = "classes" => q \in Seq(Classes \cup {none}) /\ InOrder(q, done \cup Running(stack))
           /\ c = "categories" => /\ q \in Seq(Categories \cup {none})
                                  /\ \A x \in Entries(q) : Earlier(x) \subseteq done
           /\ Head(q) \in Items \cup {none} /\ Tail(q) \in Seq(Items \cup {none})
           /\ KindOK([pc |-> c, on |-> i, list |-> Tail(q)])
           /\ [Top(t) EXCEPT !.list = Tail(@)] = [pc |-> c, on |-> i, list |-> Tail(q)]
  BY <1>1, InListFacts
<1> PICK r \in Seq(Items \cup {none}) : r = Tail(q)
  OBVIOUS
<1> DEFINE f == [pc |-> c, on |-> i, list |-> r]
<1>2. f \in Calls /\ KindOK(f) /\ f.pc = c /\ f.list = r
  BY DEF Calls, Looping
<1>3. f = [Top(t) EXCEPT !.list = Tail(@)]
  OBVIOUS
<1>4. Goto(t, f)
  BY <1>3 DEF CallLoad, Goto
<1>5. UNCHANGED <<opener, prepared, loaded, loadable_classes, loadable_categories, loading,
                  done, missed, opens>> /\ loading' = TRUE
  BY DEF CallLoad, Inv, TypeOK
<1>6. Top(t).pc \in Looping /\ Top(t).list = q
  OBVIOUS
<1> HIDE DEF f
<1>7. /\ stack' \in [Threads -> Seq(Calls)] /\ CallsInv' /\ ImagesInv' /\ WorkInv'
      /\ Scheduled' = Scheduled
      /\ Running(stack) = {} /\ Left(stack) = Entries(q)
      /\ Running(stack') = {} /\ Left(stack') = Entries(r)
      /\ CallOrder(f)' =>
           \A u \in Threads : \A k \in 1 .. Len(stack'[u]) : CallOrder(stack[u][k])'
  BY <1>2, <1>4, <1>5, <1>6, LoopGoto
<1>8. /\ Once(r) /\ Entries(q) = Entries(r)
      /\ c = "classes" => InOrder(r, done)
  <2>1. /\ Once(r) /\ Entries(q) = Entries(r) \cup ({none} \ {none})
        /\ \A before : InOrder(q, before) => InOrder(r, before \cup ({none} \ {none}))
    <3>1. Head(q) = none
      OBVIOUS
    <3> QED  BY <3>1, PopOrder
  <2>2. \A B : B \cup ({none} \ {none}) = B
    OBVIOUS
  <2>3. done \cup Running(stack) = done
    BY <1>7
  <2> QED  BY <2>1, <2>2, <2>3
<1>9. CallOrder(f)'
  <2>1. done' \cup Running(stack') = done
    BY <1>5, <1>7
  <2> QED  BY <1>2, <1>5, <1>8, <2>1 DEF CallOrder
<1>10. TypeOK /\ Accounted /\ OrderInv
  BY DEF Inv
<1>11. Accounted'
  BY <1>5, <1>7, <1>8, <1>10 DEF Accounted, Queued
<1>12. OrderInv'
  BY <1>5, <1>7, <1>8, <1>9, <1>10 DEF OrderInv
<1>13. TypeOK'
  BY <1>5, <1>7, <1>10 DEF TypeOK
<1> QED  BY <1>7, <1>11, <1>12, <1>13 DEF Inv

\* The next +load is called.
LEMMA CallKeeps ==
  ASSUME Inv, NEW t \in Threads, CallLoad(t), Head(Top(t).list) # none
  PROVE  Inv'
<1>1. InList(t) /\ Top(t).list # <<>>
  BY DEF CallLoad
<1> PICK c \in {"classes", "categories"}, i \in Images, q \in Seq(Items \cup {none}) :
           /\ Top(t) = [pc |-> c, on |-> i, list |-> q] /\ q # <<>> /\ Once(q)
           /\ ~Idle(t) /\ c \in Looping /\ loading
           /\ c = "classes" => q \in Seq(Classes \cup {none}) /\ InOrder(q, done \cup Running(stack))
           /\ c = "categories" => /\ q \in Seq(Categories \cup {none})
                                  /\ \A x \in Entries(q) : Earlier(x) \subseteq done
           /\ Head(q) \in Items \cup {none} /\ Tail(q) \in Seq(Items \cup {none})
           /\ KindOK([pc |-> c, on |-> i, list |-> Tail(q)])
           /\ [Top(t) EXCEPT !.list = Tail(@)] = [pc |-> c, on |-> i, list |-> Tail(q)]
  BY <1>1, InListFacts
<1> PICK r \in Seq(Items \cup {none}) : r = Tail(q)
  OBVIOUS
<1> PICK x \in Items : x = Head(q)
  OBVIOUS
<1> PICK n \in Nat : n + 1 = Len(stack[t]) /\ n = Len(stack[t]) - 1
  <2>1. Len(stack[t]) \in Nat \ {0}
    BY ONLY Inv, t \in Threads, ~Idle(t), TopIs
  <2> PICK m \in Nat \ {0} : m = Len(stack[t])
    BY <2>1
  <2>2. m - 1 \in Nat /\ (m - 1) + 1 = m
    BY ONLY m \in Nat \ {0}
  <2> QED  BY ONLY <2>2, m = Len(stack[t])
<1>2. /\ StackType /\ Top(t) = stack[t][n + 1] /\ KindOK(Top(t))
      /\ n > 0 => Follows(stack[t][n], Top(t))
      /\ n = 0 => Top(t).pc = "open"
      /\ HoldsIn(stack, t) /\ stack[t] \in Seq(Calls)
  <2>1. Top(t).pc \in Holding
    BY DEF Holding
  <2> QED  BY <2>1, TopIs DEF StackType
<1> DEFINE f == [pc |-> c, on |-> i, list |-> r]
           g == Frame("load", x)
           b == SubSeq(stack[t], 1, n)
           q1 == Append(b, f)
           q2 == Append(q1, g)
<1>3. /\ f \in Calls /\ KindOK(f) /\ f.pc = c /\ f.list = r
      /\ g \in Calls /\ KindOK(g) /\ g.pc = "load" /\ g.on = x
  BY DEF Calls, Looping, Frame, KindOK
<1>4. stack' = [stack EXCEPT ![t] = q2]
  <2>1. f = [Top(t) EXCEPT !.list = Tail(@)]
    OBVIOUS
  <2>2. Head(Top(t).list) = x /\ x # none
    OBVIOUS
  <2> QED  BY <2>1, <2>2 DEF CallLoad, Below
<1>5. UNCHANGED <<opener, prepared, loaded, loadable_classes, loadable_categories, loading,
                  done, missed, opens>>
  BY DEF CallLoad
<1>6. b \in Seq(Calls) /\ Len(b) = n /\ \A k \in 1 .. n : b[k] = stack[t][k]
  BY <1>2, SubSeqProperties
<1> HIDE DEF f, g, b
<1>7. /\ q1 \in Seq(Calls) /\ Len(q1) = n + 1 /\ q1[n + 1] = f
      /\ \A k \in 1 .. n : q1[k] = stack[t][k]
  BY <1>3, <1>6, AppendProperties
<1> HIDE DEF q1
<1>8. /\ q2 \in Seq(Calls) /\ Len(q2) = n + 2 /\ q2[n + 2] = g /\ q2[n + 1] = f
      /\ \A k \in 1 .. n : q2[k] = stack[t][k]
  <2>1. /\ q2 \in Seq(Calls) /\ Len(q2) = (n + 1) + 1 /\ q2[(n + 1) + 1] = g
        /\ \A k \in 1 .. n + 1 : q2[k] = q1[k]
    BY <1>3, <1>7, AppendProperties
  <2>2. (n + 1) + 1 = n + 2 /\ n + 1 \in 1 .. n + 1 /\ \A k \in 1 .. n : k \in 1 .. n + 1
    BY ONLY n \in Nat
  <2> QED  BY ONLY <1>7, <2>1, <2>2
<1> HIDE DEF q2
<1>9. /\ stack' \in [Threads -> Seq(Calls)] /\ stack'[t] = q2
      /\ \A u \in Threads : u # t => stack'[u] = stack[u]
  BY <1>2, <1>4, <1>8 DEF StackType
<1>10. /\ \A u \in Threads : StackOK(stack[u])
       /\ TypeOK /\ ImagesInv /\ Accounted /\ OrderInv /\ OneActive(stack)
  BY DEF Inv, CallsInv
<1>11. /\ \A u \in Threads : \A k \in Nat : IsLooping(stack, u, k) <=> u = t /\ k = n + 1
       /\ \A u \in Threads : \A k \in Nat : ~IsLoad(stack, u, k)
       /\ Running(stack) = {} /\ Left(stack) = Entries(q)
  <2>1. IsLooping(stack, t, n + 1) /\ n + 1 \in Nat
    BY <1>2 DEF IsLooping
  <2>2. n + 1 = Len(stack[t]) /\ stack \in [Threads -> Seq(Calls)]
    BY <1>2 DEF StackType
  <2>3. /\ \A u \in Threads : \A k \in Nat : IsLooping(stack, u, k) <=> u = t /\ k = n + 1
        /\ \A u \in Threads : \A k \in Nat : ~IsLoad(stack, u, k)
        /\ Running(stack) = {} /\ Left(stack) = Entries(stack[t][n + 1].list)
    BY ONLY <1>10, <2>1, <2>2, LoopIsLast, t \in Threads
  <2>4. stack[t][n + 1].list = q
    BY <1>2
  <2> QED  BY <2>3, <2>4
<1>12. (c = "classes" => x \in Classes) /\ (c = "categories" => x \in Categories)
  OBVIOUS
\* The cells of t.
<1>13. n > 0 /\ stack[t][n].pc = "open"
  <2>1. n # 0
    BY <1>2
  <2>2. n > 0
    BY ONLY <2>1, n \in Nat
  <2>3. Follows(stack[t][n], Top(t)) /\ Top(t).pc \notin {"open", "load"}
    BY <1>2, <2>2
  <2>4. stack[t][n].pc = "open"
    BY ONLY <2>3 DEF Follows
  <2> QED  BY <2>2, <2>4
<1>14. StackOK(q2)
  <2> SUFFICES ASSUME NEW k \in 1 .. n + 2
               PROVE  /\ KindOK(q2[k]) /\ (k = 1 => q2[k].pc = "open")
                      /\ k > 1 => Follows(q2[k - 1], q2[k])
    BY <1>8 DEF StackOK
  <2>1. CASE k = n + 2
    <3>1. Follows(f, g)
      BY ONLY <1>3, <1>12, c \in {"classes", "categories"} DEF Follows
    <3> QED  BY ONLY <1>3, <1>8, <2>1, <3>1, n \in Nat
  <2>2. CASE k = n + 1
    <3>1. Follows(stack[t][n], f)
      BY ONLY <1>3, <1>13, c \in {"classes", "categories"} DEF Follows
    <3>2. q2[n] = stack[t][n] /\ k # 1 /\ k - 1 = n
      BY ONLY <1>8, <1>13, <2>2, n \in Nat
    <3> QED  BY <1>3, <1>8, <2>2, <3>1, <3>2
  <2>3. CASE k \in 1 .. n
    <3>1. q2[k] = stack[t][k] /\ (k > 1 => q2[k - 1] = stack[t][k - 1])
      BY ONLY <1>8, <2>3, n \in Nat
    <3>2. k \in 1 .. Len(stack[t]) /\ StackOK(stack[t])
      BY <1>10, <2>3
    <3> QED  BY ONLY <3>1, <3>2 DEF StackOK
  <2>4. k = n + 2 \/ k = n + 1 \/ k \in 1 .. n
    BY ONLY k \in 1 .. n + 2, n \in Nat
  <2> QED  BY <2>1, <2>2, <2>3, <2>4
<1>15. \A u \in Threads : StackOK(stack'[u])
  BY <1>9, <1>10, <1>14
\* Each cell was there, or is one of the two.
<1>16. ASSUME NEW u \in Threads, NEW k \in Nat, k \in 1 .. Len(stack'[u])
       PROVE  \/ u = t /\ k = n + 1 /\ stack'[u][k] = f
              \/ u = t /\ k = n + 2 /\ stack'[u][k] = g
              \/ k \in 1 .. Len(stack[u]) /\ stack'[u][k] = stack[u][k] /\ ~(u = t /\ k = n + 1)
  <2>1. CASE u # t
    BY <1>9, <1>16, <2>1
  <2>2. CASE u = t
    <3>1. k \in 1 .. n + 2 /\ stack'[u][k] = q2[k]
      BY <1>8, <1>9, <1>16, <2>2
    <3>2. k = n + 2 \/ k = n + 1 \/ (k \in 1 .. n /\ k # n + 1 /\ k \in 1 .. n + 1)
      BY ONLY <3>1, n \in Nat, k \in Nat
    <3> QED  BY <1>8, <2>2, <3>1, <3>2
  <2> QED  BY <2>1, <2>2
<1>17. \A u \in Threads : \A k \in Nat : IsLooping(stack', u, k) <=> u = t /\ k = n + 1
  <2> SUFFICES ASSUME NEW u \in Threads, NEW k \in Nat
               PROVE  IsLooping(stack', u, k) <=> u = t /\ k = n + 1
    OBVIOUS
  <2>1. ASSUME IsLooping(stack', u, k), ~(u = t /\ k = n + 1) PROVE FALSE
    <3>1. k \in 1 .. Len(stack'[u]) /\ stack'[u][k].pc \in Looping
      BY <2>1 DEF IsLooping
    <3>2. CASE stack'[u][k] = g
      BY <1>3, <3>1, <3>2 DEF Looping
    <3>3. CASE k \in 1 .. Len(stack[u]) /\ stack'[u][k] = stack[u][k]
      <4>1. IsLooping(stack, u, k)
        BY <3>1, <3>3 DEF IsLooping
      <4> QED  BY <1>11, <2>1, <4>1
    <3> QED  BY <1>16, <2>1, <3>1, <3>2, <3>3
  <2>2. IsLooping(stack', t, n + 1)
    <3>1. n + 1 \in 1 .. n + 2
      BY ONLY n \in Nat
    <3> QED  BY <1>3, <1>8, <1>9, <3>1 DEF IsLooping
  <2> QED  BY <2>1, <2>2
<1>18. OneActive(stack')
  BY <1>17 DEF OneActive
<1>19. /\ \A u \in Threads : \A k \in Nat : IsLoad(stack', u, k) <=> u = t /\ k = n + 2
       /\ Running(stack') = {x} /\ Left(stack') = Entries(r)
  <2> PICK m \in Nat : m = n + 1
    OBVIOUS
  <2>1. m + 1 = n + 2
    BY ONLY m = n + 1, n \in Nat
  <2>2. IsLoad(stack', t, m + 1) /\ m + 1 = Len(stack'[t])
    <3>1. n + 2 \in 1 .. n + 2
      BY ONLY n \in Nat
    <3> QED  BY <1>3, <1>8, <1>9, <2>1, <3>1 DEF IsLoad
  <2>3. /\ \A u \in Threads : \A k \in Nat : IsLoad(stack', u, k) <=> u = t /\ k = m + 1
        /\ Running(stack') = {stack'[t][m + 1].on} /\ Left(stack') = Entries(stack'[t][m].list)
    BY ONLY <1>9, <1>15, <1>18, <2>2, LoadIsLast, t \in Threads, m \in Nat
  <2>4. stack'[t][m + 1] = g /\ stack'[t][m] = f
    BY ONLY <1>8, <1>9, <2>1, m = n + 1
  <2>5. /\ Running(stack') = {g.on} /\ Left(stack') = Entries(f.list)
        /\ \A u \in Threads : \A k \in Nat : IsLoad(stack', u, k) <=> u = t /\ k = n + 2
    BY ONLY <2>1, <2>3, <2>4
  <2> QED  BY ONLY <1>3, <2>5
<1>20. CallsInv'
  <2>1. ASSUME NEW u \in Threads, HoldsIn(stack', u) PROVE u = t
    <3> PICK k \in 1 .. Len(stack'[u]) : stack'[u][k].pc \in Holding
      BY <2>1 DEF HoldsIn
    <3>1. CASE u # t
      <4>1. HoldsIn(stack, u)
        BY <1>9, <3>1 DEF HoldsIn
      <4> QED  BY <1>2, <4>1 DEF Inv, CallsInv
    <3> QED  BY <3>1
  <2>2. n + 1 \in Nat
    OBVIOUS
  <2>3. loading' <=> \E u \in Threads : \E k \in Nat : IsLooping(stack', u, k)
    BY <1>5, <1>17, <2>2
  <2> QED  BY <1>15, <1>18, <2>1, <2>3 DEF CallsInv
<1>21. ImagesInv' /\ Scheduled' = Scheduled
  <2>1. ASSUME NEW u \in Threads, NEW k \in 1 .. Len(stack'[u])
        PROVE  OpenOK(u, stack[u][k])'
    <3>1. Len(stack'[u]) \in Nat /\ k \in Nat
      BY <1>9
    <3>2. CASE stack'[u][k] = f \/ stack'[u][k] = g
      <4>1. stack'[u][k].pc \notin {"open", "lock", "prepare"}
        BY <1>3, <3>2
      <4> QED  BY <4>1 DEF OpenOK
    <3>3. CASE k \in 1 .. Len(stack[u]) /\ stack'[u][k] = stack[u][k]
      <4>1. OpenOK(u, stack[u][k])
        BY <1>10, <3>3 DEF ImagesInv
      <4> QED  BY <1>5, <3>3, <4>1 DEF OpenOK
    <3> QED  BY <1>16, <3>1, <3>2, <3>3
  <2> QED  BY <1>5, <1>10, <2>1 DEF ImagesInv, Scheduled, Of
<1>22. WorkInv'
  <2>1. IsLooping(stack', t, n + 1) /\ stack'[t][n + 1] = f /\ f.pc # "pool" /\ n + 1 \in Nat
    <3>1. n + 1 \in Nat
      BY ONLY n \in Nat
    <3>2. f.pc # "pool"
      BY ONLY <1>3, c \in {"classes", "categories"}
    <3> QED  BY ONLY <1>8, <1>9, <1>17, <3>1, <3>2, t \in Threads
  <2>2. Working(stack')
    BY <2>1 DEF Working
  <2> QED  BY <2>2 DEF WorkInv
<1>23. /\ Once(r) /\ Entries(q) = Entries(r) \cup {x} /\ x \notin Entries(r)
       /\ Earlier(x) \subseteq done
       /\ c = "classes" => InOrder(r, done \cup {x})
       /\ c = "categories" => \A y \in Entries(r) : Earlier(y) \subseteq done
  <2>1. x # none
    OBVIOUS
  <2>2. /\ Once(r) /\ Entries(q) = Entries(r) \cup ({x} \ {none}) /\ x \notin Entries(r)
        /\ \A before : InOrder(q, before) =>
             /\ Earlier(x) \subseteq before
             /\ InOrder(r, before \cup ({x} \ {none}))
    BY <2>1, PopOrder
  <2>3. {x} \ {none} = {x}
    BY <2>1
  <2>4. done \cup Running(stack) = done
    BY <1>11
  <2>5. c = "classes" => Earlier(x) \subseteq done /\ InOrder(r, done \cup {x})
    BY <2>2, <2>3, <2>4
  <2>6. c = "categories" => /\ Earlier(x) \subseteq done
                            /\ \A y \in Entries(r) : Earlier(y) \subseteq done
    BY <2>2, <2>3
  <2> QED  BY <2>2, <2>3, <2>5, <2>6
<1>24. Accounted'
  BY <1>5, <1>10, <1>11, <1>19, <1>21, <1>23 DEF Accounted, Queued
<1>25. \A u \in Threads : \A k \in 1 .. Len(stack'[u]) : CallOrder(stack[u][k])'
  <2> SUFFICES ASSUME NEW u \in Threads, NEW k \in 1 .. Len(stack'[u])
               PROVE  CallOrder(stack[u][k])'
    OBVIOUS
  <2>0. Len(stack'[u]) \in Nat /\ k \in Nat
    BY <1>9
  <2>1. CASE stack'[u][k] = g
    BY <1>3, <1>5, <1>23, <2>1 DEF CallOrder
  <2>2. CASE stack'[u][k] = f
    BY <1>3, <1>5, <1>19, <1>23, <2>2 DEF CallOrder
  <2>3. CASE stack'[u][k] # f /\ stack'[u][k] # g
    <3>1. k # n + 1 \/ u # t
      BY <1>8, <1>9, <2>3
    <3>2. k # n + 2 \/ u # t
      BY <1>8, <1>9, <2>3
    <3>3. ~IsLooping(stack', u, k) /\ ~IsLoad(stack', u, k)
      BY <1>17, <1>19, <2>0, <3>1, <3>2
    <3>4. stack'[u][k].pc \notin {"load", "classes", "categories"}
      BY <3>3 DEF IsLooping, IsLoad, Looping
    <3> QED  BY <3>4 DEF CallOrder
  <2> QED  BY <2>1, <2>2, <2>3
<1>26. OrderInv'
  <2>1. done' \cup Running(stack') \cup Left(stack') = done \cup Running(stack) \cup Left(stack)
    BY <1>5, <1>11, <1>19, <1>23
  <2> QED  BY <1>5, <1>10, <1>25, <2>1 DEF OrderInv
<1>27. TypeOK'
  BY <1>5, <1>9, <1>10 DEF TypeOK
<1> QED  BY <1>20, <1>21, <1>22, <1>24, <1>26, <1>27 DEF Inv


LEMMA CallLoadKeeps ==
  ASSUME Inv, NEW t \in Threads, CallLoad(t)
  PROVE  Inv'
BY SkipKeeps, CallKeeps

\* A +load, or the call of call_load_methods, returns.
LEMMA LastReturns ==
  ASSUME Inv, NEW t \in Threads, ~Idle(t), Top(t).pc \in {"load", "pool"}, Return(t),
         UNCHANGED <<opener, prepared, loaded, opens>>
  PROVE  /\ stack' \in [Threads -> Seq(Calls)] /\ StackType
         /\ \A u \in Threads : StackOK(stack[u]) /\ StackOK(stack'[u])
         /\ OneActive(stack)
         /\ \A u, w \in Threads : HoldsIn(stack', u) /\ HoldsIn(stack', w) => u = w
         /\ ImagesInv' /\ Scheduled' = Scheduled
         /\ \E n \in Nat :
              /\ n + 1 = Len(stack[t]) /\ Top(t) = stack[t][n + 1]
              /\ Len(stack'[t]) = n /\ OthersStay(t, n)
              /\ \A u \in Threads : \A i \in Nat :
                   IsLooping(stack', u, i) <=> IsLooping(stack, u, i) /\ ~(u = t /\ i = n + 1)
<1> PICK n \in Nat : n + 1 = Len(stack[t]) /\ n = Len(stack[t]) - 1
  <2>1. Len(stack[t]) \in Nat \ {0}
    BY ONLY Inv, t \in Threads, ~Idle(t), TopIs
  <2> PICK m \in Nat \ {0} : m = Len(stack[t])
    BY <2>1
  <2>2. m - 1 \in Nat /\ (m - 1) + 1 = m
    BY ONLY m \in Nat \ {0}
  <2> QED  BY ONLY <2>2, m = Len(stack[t])
<1>1. /\ StackType /\ Top(t) = stack[t][n + 1]
      /\ \A i \in 1 .. n : stack[t][i].pc \notin {"lock", "prepare"}
  BY TopIs
<1>2. /\ stack' \in [Threads -> Seq(Calls)] /\ OthersStay(t, n) /\ Len(stack'[t]) = n
  BY <1>1, ReturnCells
<1>3. Changes(t, n)
  BY <1>1, <1>2 DEF Changes
<1>4. /\ \A u \in Threads : StackOK(stack[u]) /\ StackOK(stack'[u])
      /\ OneActive(stack) /\ CallsInv
  BY <1>1, ReturnOK DEF Inv, CallsInv
<1>5. Len(stack'[t]) # n + 1
  BY <1>2
<1>6. \A u, w \in Threads : HoldsIn(stack', u) /\ HoldsIn(stack', w) => u = w
  BY <1>1, <1>3, <1>4, <1>5, HoldersStay
<1>7. ImagesInv' /\ Scheduled' = Scheduled
  BY <1>1, <1>3, <1>5, ImagesKeep
<1>8. ASSUME NEW u \in Threads, NEW i \in Nat
      PROVE  IsLooping(stack', u, i) <=> IsLooping(stack, u, i) /\ ~(u = t /\ i = n + 1)
  <2>1. CASE u # t \/ i <= n
    BY <1>1, <1>3, <2>1, LoopsKept
  <2>2. CASE u = t /\ ~(i <= n)
    BY <1>1, <1>3, <1>5, <2>2, LoopsKept
  <2> QED  BY <2>1, <2>2
<1> QED  BY <1>1, <1>2, <1>4, <1>6, <1>7, <1>8

\* The +load is over, and the loop has its list again.
LEMMA LoadReturnsKeeps ==
  ASSUME Inv, NEW t \in Threads, LoadReturns(t)
  PROVE  Inv'
<1>1. /\ ~Idle(t) /\ Top(t).pc = "load" /\ Return(t)
      /\ UNCHANGED <<opener, prepared, loaded, loadable_classes, loadable_categories,
                     loading, missed, opens>>
      /\ done' = done \cup {Top(t).on}
  BY DEF LoadReturns, At
<1>2. /\ stack' \in [Threads -> Seq(Calls)] /\ StackType
      /\ \A u \in Threads : StackOK(stack[u]) /\ StackOK(stack'[u])
      /\ OneActive(stack)
      /\ \A u, w \in Threads : HoldsIn(stack', u) /\ HoldsIn(stack', w) => u = w
      /\ ImagesInv' /\ Scheduled' = Scheduled
  BY <1>1, LastReturns
<1> PICK n \in Nat :
      /\ n + 1 = Len(stack[t]) /\ Top(t) = stack[t][n + 1]
      /\ Len(stack'[t]) = n /\ OthersStay(t, n)
      /\ \A u \in Threads : \A i \in Nat :
           IsLooping(stack', u, i) <=> IsLooping(stack, u, i) /\ ~(u = t /\ i = n + 1)
  BY <1>1, LastReturns
<1> PICK x \in Items : x = Top(t).on
  BY <1>1, TopIs DEF KindOK
<1>3. /\ IsLooping(stack, t, n)
      /\ \A u \in Threads : \A i \in Nat : IsLooping(stack, u, i) <=> u = t /\ i = n
      /\ Running(stack) = {x} /\ Left(stack) = Entries(stack[t][n].list)
  <2>1. IsLoad(stack, t, n + 1) /\ stack \in [Threads -> Seq(Calls)]
    <3>1. n + 1 \in 1 .. Len(stack[t])
      BY ONLY n \in Nat, n + 1 = Len(stack[t])
    <3> QED  BY <1>1, <1>2, <3>1 DEF IsLoad, StackType
  <2>2. /\ IsLooping(stack, t, n)
        /\ \A u \in Threads : \A i \in Nat : IsLooping(stack, u, i) <=> u = t /\ i = n
        /\ Running(stack) = {stack[t][n + 1].on} /\ Left(stack) = Entries(stack[t][n].list)
    BY ONLY <1>2, <2>1, LoadIsLast, t \in Threads, n \in Nat, n + 1 = Len(stack[t])
  <2> QED  BY <2>2
<1>4. \A u \in Threads : \A i \in Nat : IsLooping(stack', u, i) <=> u = t /\ i = n
  <2>1. n # n + 1
    BY ONLY n \in Nat
  <2> QED  BY <1>3, <2>1
<1>5. OneActive(stack')
  BY <1>4 DEF OneActive
<1>6. /\ \A u \in Threads : \A i \in Nat : ~IsLoad(stack', u, i)
      /\ Running(stack') = {} /\ Left(stack') = Left(stack)
  <2>1. IsLooping(stack', t, n) /\ n = Len(stack'[t])
    BY <1>4
  <2>2. /\ \A u \in Threads : \A i \in Nat : ~IsLoad(stack', u, i)
        /\ Running(stack') = {} /\ Left(stack') = Entries(stack'[t][n].list)
    BY ONLY <1>2, <1>5, <2>1, LoopIsLast, t \in Threads, n \in Nat
  <2>3. stack'[t][n] = stack[t][n]
    <3>1. n \in 1 .. n
      BY <2>1 DEF IsLooping
    <3> QED  BY <3>1 DEF OthersStay
  <2> QED  BY <1>3, <2>2, <2>3
<1>7. loading /\ loading' = loading
  BY <1>1, <1>3 DEF Inv, CallsInv
<1>8. CallsInv'
  <2>1. loading' <=> \E u \in Threads : \E k \in Nat : IsLooping(stack', u, k)
    BY <1>4, <1>7
  <2> QED  BY <1>2, <1>5, <2>1 DEF CallsInv
<1>9. WorkInv'
  <2>1. IsLoad(stack, t, n + 1) /\ stack \in [Threads -> Seq(Calls)]
    <3>1. n + 1 \in 1 .. Len(stack[t])
      BY ONLY n \in Nat, n + 1 = Len(stack[t])
    <3> QED  BY <1>1, <1>2, <3>1 DEF IsLoad, StackType
  <2>2. (n + 1) - 1 = n /\ n + 1 \in Nat
    BY ONLY n \in Nat
  <2>3. stack[t][n].pc \in {"classes", "categories"}
    <3> PICK m \in Nat : m = n + 1 /\ m - 1 = n
      BY <2>2
    <3>1. IsLoad(stack, t, m)
      BY <2>1
    <3>2. stack[t][m - 1].pc = "classes" \/ stack[t][m - 1].pc = "categories"
      BY ONLY <1>2, <2>1, <3>1, LoadIsCalled, t \in Threads, m \in Nat
    <3> QED  BY ONLY <3>2, m - 1 = n
  <2>4. n \in 1 .. n
    BY <1>3, <1>4 DEF IsLooping
  <2>5. stack'[t][n] = stack[t][n] /\ IsLooping(stack', t, n)
    BY <1>4, <2>4 DEF OthersStay
  <2>6. Working(stack')
    BY <2>3, <2>5 DEF Working
  <2> QED  BY <2>6 DEF WorkInv
<1>10. TypeOK /\ Accounted /\ OrderInv
  BY DEF Inv
<1>11. Accounted'
  <2>1. done' = done \cup {x}
    BY <1>1
  <2> QED  BY <1>1, <1>2, <1>3, <1>6, <1>10, <2>1 DEF Accounted, Queued
<1>12. done' \cup Running(stack') = done \cup Running(stack) /\ done \subseteq done'
  BY <1>1, <1>3, <1>6
<1>13. \A u \in Threads : \A k \in 1 .. Len(stack'[u]) : CallOrder(stack[u][k])'
  <2> SUFFICES ASSUME NEW u \in Threads, NEW k \in 1 .. Len(stack'[u])
               PROVE  CallOrder(stack[u][k])'
    OBVIOUS
  <2>1. Len(stack'[u]) \in Nat /\ k \in Nat
    BY <1>2
  <2>2. k \in 1 .. Len(stack[u]) /\ stack'[u][k] = stack[u][k]
    <3>1. CASE u = t
      <4>1. k \in 1 .. n
        BY <3>1
      <4>2. k \in 1 .. n + 1
        BY ONLY <4>1, n \in Nat
      <4> QED  BY <3>1, <4>1, <4>2 DEF OthersStay
    <3>2. CASE u # t
      BY <3>2 DEF OthersStay
    <3> QED  BY <3>1, <3>2
  <2>3. CallOrder(stack[u][k])
    BY <1>10, <2>2 DEF OrderInv
  <2> PICK g : g = stack[u][k]
    OBVIOUS
  <2>4. CallOrder(g)
    BY <2>3
  <2>5. CallOrder(g)'
    BY <1>12, <2>4 DEF CallOrder
  <2> QED  BY <2>2, <2>5 DEF CallOrder
<1>14. OrderInv'
  BY <1>1, <1>6, <1>10, <1>12, <1>13 DEF OrderInv
<1>15. TypeOK'
  BY <1>1, <1>2, <1>10 DEF TypeOK
<1> QED  BY <1>8, <1>2, <1>9, <1>11, <1>14, <1>15 DEF Inv

\* The pool is popped, and the flag is reset. What waits was left behind.
LEMMA PoolPoppedKeeps ==
  ASSUME Inv, NEW t \in Threads, PoolPopped(t)
  PROVE  Inv'
<1>1. /\ ~Idle(t) /\ Top(t).pc = "pool" /\ Return(t) /\ Top(t).list = <<>>
      /\ UNCHANGED <<opener, prepared, loaded, loadable_classes, loadable_categories,
                     done, missed, opens>>
      /\ loading' = FALSE
  <2>1. ~Idle(t) /\ Top(t).pc = "pool"
    BY DEF PoolPopped, At
  <2> QED  BY <2>1, TopIs DEF PoolPopped, KindOK
<1>2. /\ stack' \in [Threads -> Seq(Calls)] /\ StackType
      /\ \A u \in Threads : StackOK(stack[u]) /\ StackOK(stack'[u])
      /\ OneActive(stack)
      /\ \A u, w \in Threads : HoldsIn(stack', u) /\ HoldsIn(stack', w) => u = w
      /\ ImagesInv' /\ Scheduled' = Scheduled
  BY <1>1, LastReturns
<1> PICK n \in Nat :
      /\ n + 1 = Len(stack[t]) /\ Top(t) = stack[t][n + 1]
      /\ Len(stack'[t]) = n /\ OthersStay(t, n)
      /\ \A u \in Threads : \A i \in Nat :
           IsLooping(stack', u, i) <=> IsLooping(stack, u, i) /\ ~(u = t /\ i = n + 1)
  BY <1>1, LastReturns
<1>3. /\ \A u \in Threads : \A i \in Nat : IsLooping(stack, u, i) <=> u = t /\ i = n + 1
      /\ Running(stack) = {} /\ Left(stack) = {}
  <2> PICK m \in Nat : m = n + 1
    OBVIOUS
  <2>1. /\ IsLooping(stack, t, m) /\ stack \in [Threads -> Seq(Calls)] /\ m = Len(stack[t])
        /\ stack[t][m].list = <<>>
    <3>1. n + 1 \in 1 .. Len(stack[t])
      BY ONLY n \in Nat, n + 1 = Len(stack[t])
    <3> QED  BY <1>1, <1>2, <3>1 DEF IsLooping, Looping, StackType
  <2>2. OneActive(stack) /\ \A u \in Threads : StackOK(stack[u])
    BY <1>2
  <2>3. /\ \A u \in Threads : \A i \in Nat : IsLooping(stack, u, i) <=> u = t /\ i = m
        /\ Running(stack) = {} /\ Left(stack) = Entries(stack[t][m].list)
    BY ONLY <2>1, <2>2, LoopIsLast, t \in Threads, m \in Nat
  <2> QED  BY <2>1, <2>3, EmptyList
<1>4. \A u \in Threads : \A i \in Nat : ~IsLooping(stack', u, i)
  BY <1>3
<1>5. /\ \A u \in Threads : \A i \in Nat : ~IsLoad(stack', u, i)
      /\ Running(stack') = {} /\ Left(stack') = {}
  BY <1>2, <1>4, NoLoop
<1>6. CallsInv'
  <2>1. OneActive(stack')
    BY <1>4 DEF OneActive
  <2>2. loading' <=> \E u \in Threads : \E k \in Nat : IsLooping(stack', u, k)
    BY <1>1, <1>4
  <2> QED  BY <1>2, <2>1, <2>2 DEF CallsInv
<1>7. WorkInv'
  <2>1. ~Working(stack)
    BY <1>1, <1>3 DEF Working
  <2>2. ASSUME NEW u \in Threads, NEW i, Adds(u, i) PROVE Adds(u, i)'
    <3>1. u # t
      BY <1>1, <2>2 DEF Adds, At
    <3>2. stack'[u] = stack[u]
      BY <3>1 DEF OthersStay
    <3> QED  BY <2>2, <3>2 DEF Adds, At, Idle, Top
  <2>3. Queued' = Queued /\ missed' = missed
    BY <1>1 DEF Queued
  <2> QED  BY <2>1, <2>2, <2>3 DEF WorkInv, Inv
<1>8. TypeOK /\ Accounted /\ OrderInv
  BY DEF Inv
<1>9. Accounted'
  BY <1>1, <1>2, <1>3, <1>5, <1>8 DEF Accounted, Queued
<1>10. \A u \in Threads : \A k \in 1 .. Len(stack'[u]) : CallOrder(stack[u][k])'
  <2> SUFFICES ASSUME NEW u \in Threads, NEW k \in 1 .. Len(stack'[u])
               PROVE  CallOrder(stack[u][k])'
    OBVIOUS
  <2>1. Len(stack'[u]) \in Nat /\ k \in Nat
    BY <1>2
  <2>2. ~IsLooping(stack', u, k) /\ ~IsLoad(stack', u, k)
    BY <1>4, <1>5, <2>1
  <2>3. stack'[u][k].pc \notin {"load", "classes", "categories"}
    BY <2>2 DEF IsLooping, IsLoad, Looping
  <2> QED  BY <2>3 DEF CallOrder
<1>11. OrderInv'
  BY <1>1, <1>3, <1>5, <1>8, <1>10 DEF OrderInv
<1>12. TypeOK'
  BY <1>1, <1>2, <1>8 DEF TypeOK
<1> QED  BY <1>2, <1>6, <1>7, <1>9, <1>11, <1>12 DEF Inv

\* The loop ends, and nothing waits.
LEMMA LoopEnds ==
  ASSUME Inv, NEW t \in Threads, CategoriesDone(t), ~MoreLoads
  PROVE  Inv'
<1>1. /\ ~Idle(t) /\ Top(t).pc \in Looping /\ Top(t).list = <<>>
      /\ Goto(t, Frame("pool", Top(t).on)) /\ missed' = {} /\ loading' = loading
      /\ UNCHANGED <<opener, prepared, loaded, loadable_classes, loadable_categories,
                     done, opens>>
      /\ loadable_classes = <<>> /\ loadable_categories = <<>>
  BY DEF CategoriesDone, At, MoreLoads, Looping
<1>2. loading' = TRUE /\ Top(t).on \in Images
  BY <1>1, LoopingFacts DEF Inv, TypeOK
<1> PICK i \in Images : i = Top(t).on
  BY <1>2
<1> DEFINE f == Frame("pool", i)
<1>3. f \in Calls /\ KindOK(f) /\ f.pc = "pool" /\ f.list = <<>>
  BY DEF Frame, Calls, KindOK
<1>4. CallOrder(f)'
  BY <1>3 DEF CallOrder
<1>5. Goto(t, f) /\ f.pc \in Looping
  BY <1>1, <1>3 DEF Looping
<1> HIDE DEF f
<1>6. /\ stack' \in [Threads -> Seq(Calls)] /\ CallsInv' /\ ImagesInv'
      /\ Scheduled' = Scheduled
      /\ Running(stack) = {} /\ Left(stack) = {}
      /\ Running(stack') = {} /\ Left(stack') = {}
      /\ \A u \in Threads : \A k \in 1 .. Len(stack'[u]) : CallOrder(stack[u][k])'
  BY <1>1, <1>2, <1>3, <1>4, <1>5, LoopGoto, EmptyList
<1>7. TypeOK /\ Accounted /\ OrderInv
  BY DEF Inv
<1>8. Accounted'
  BY <1>1, <1>6, <1>7 DEF Accounted, Queued
<1>9. OrderInv'
  BY <1>1, <1>6, <1>7 DEF OrderInv
<1>10. TypeOK'
  BY <1>1, <1>6, <1>7 DEF TypeOK
<1>11. WorkInv'
  <2>1. Queued' = {}
    BY <1>1, EmptyList DEF Queued
  <2> QED  BY <2>1 DEF WorkInv
<1> QED  BY <1>6, <1>8, <1>9, <1>10, <1>11 DEF Inv

LEMMA CategoriesDoneKeeps ==
  ASSUME Inv, NEW t \in Threads, CategoriesDone(t)
  PROVE  Inv'
<1>1. CASE MoreLoads
  <2>1. /\ ~Idle(t) /\ Top(t).pc \in Looping /\ Top(t).list = <<>>
        /\ Goto(t, Frame("loop", Top(t).on)) /\ loading' = loading
        /\ UNCHANGED <<opener, prepared, loaded, loadable_classes, loadable_categories,
                       done, missed, opens>>
    BY <1>1 DEF CategoriesDone, At, Looping
  <2>2. Entries(Top(t).list) = {}
    BY <2>1, EmptyList
  <2>3. loading' = TRUE
    BY <2>1, LoopingFacts DEF Inv, TypeOK
  <2> QED  BY <2>1, <2>2, <2>3, LoopStays
<1>2. CASE ~MoreLoads
  BY <1>2, LoopEnds
<1> QED  BY <1>1, <1>2

-----------------------------------------------------------------------------
(***************************************************************************)
(* A bundle is closed.                                                     *)
(***************************************************************************)
Emptied(w, q, D) == \A k \in 1 .. Len(q) : w[k] = IF q[k] \in D THEN none ELSE q[k]

LEMMA WithoutFacts ==
  ASSUME NEW S, NEW q \in Seq(S \cup {none}), NEW D
  PROVE  /\ Without(q, D) \in Seq(S \cup {none}) /\ Len(Without(q, D)) = Len(q)
         /\ Emptied(Without(q, D), q, D)
         /\ q = <<>> => Without(q, D) = <<>>
<1> DEFINE w == [k \in 1 .. Len(q) |-> IF q[k] \in D THEN none ELSE q[k]]
<1>1. Without(q, D) = w
  BY DEF Without
<1>2. w \in Seq(S \cup {none}) /\ Len(w) = Len(q)
  <2>1. Len(q) \in Nat /\ \A k \in 1 .. Len(q) : q[k] \in S \cup {none}
    OBVIOUS
  <2>2. w \in [1 .. Len(q) -> S \cup {none}]
    BY <2>1
  <2> QED  BY <2>1, <2>2
<1>3. Emptied(w, q, D)
  BY DEF Emptied
<1> HIDE DEF w
<1>4. q = <<>> => w = <<>>
  <2>1. q = <<>> => Len(q) = 0
    OBVIOUS
  <2> QED  BY <1>2, <2>1, EmptySeq
<1> QED  BY <1>1, <1>2, <1>3, <1>4

LEMMA WithoutEntries ==
  ASSUME NEW S, NEW q \in Seq(S \cup {none}), NEW D, none \notin D
  PROVE  /\ Entries(Without(q, D)) = Entries(q) \ D
         /\ Once(q) => Once(Without(q, D))
<1>0. /\ Without(q, D) \in Seq(S \cup {none}) /\ Len(Without(q, D)) = Len(q)
      /\ Emptied(Without(q, D), q, D)
  BY WithoutFacts
<1> PICK w \in Seq(S \cup {none}) :
      /\ w = Without(q, D) /\ Len(w) = Len(q)
      /\ \A k \in 1 .. Len(q) : w[k] = IF q[k] \in D THEN none ELSE q[k]
  BY <1>0 DEF Emptied
<1>1. Entries(w) = Entries(q) \ D
  BY DEF Entries
<1>2. Once(q) => Once(w)
  BY DEF Once
<1> QED  BY <1>1, <1>2

\* What an item needs is not of a bundle that is not its own.
LEMMA EarlierElsewhere ==
  ASSUME NEW i \in Bundles
  PROVE  /\ none \notin Of(i) /\ \A j \in Images : i \notin Links[j]
         /\ \A c \in Classes : c \notin Of(i) => Above[c] \cap Of(i) = {}
         /\ \A x \in Items : x \notin Of(i) => Earlier(x) \cap Of(i) = {}
<1>1. none \notin Of(i)
  BY NoneAssumption DEF Of
<1>2. \A j \in Images : i \notin Links[j]
  BY ImagesAssumption
<1>3. ASSUME NEW c \in Classes, c \notin Of(i) PROVE Above[c] \cap Of(i) = {}
  <2>1. ImageOf[c] # i /\ ImageOf[c] \in Images /\ Above[c] \subseteq Classes
    BY <1>3, ClassesAssumption DEF Of, Items
  <2>2. \A d \in Above[c] : ImageOf[d] # i
    BY <1>2, <2>1, ListsAssumption
  <2> QED  BY <2>2 DEF Of
<1>4. ASSUME NEW x \in Items, x \notin Of(i) PROVE Earlier(x) \cap Of(i) = {}
  <2>1. CASE x \in Classes
    BY <1>3, <1>4, <2>1, EarlierIs
  <2>2. CASE x \in Categories
    <3>1. ImageOf[x] # i /\ ImageOf[x] \in Images /\ ClassOf[x] \in Classes
      BY <1>4, <2>2, ClassesAssumption DEF Of, Items
    <3>2. ImageOf[ClassOf[x]] # i
      BY <1>2, <2>2, <3>1, ListsAssumption
    <3>3. ClassOf[x] \notin Of(i)
      BY <3>2 DEF Of
    <3> QED  BY <1>3, <2>2, <3>1, <3>3, EarlierIs
  <2> QED  BY <2>1, <2>2 DEF Items
<1> QED  BY <1>1, <1>2, <1>3, <1>4

\* The order of a list is not about what was removed.
LEMMA WithoutOrder ==
  ASSUME NEW S, NEW q \in Seq(S \cup {none}), NEW D, none \notin D, NEW before,
         InOrder(q, before), \A x \in Entries(q) \ D : Earlier(x) \cap D = {}
  PROVE  InOrder(Without(q, D), before \ D)
<1>0. /\ Without(q, D) \in Seq(S \cup {none}) /\ Len(Without(q, D)) = Len(q)
      /\ Emptied(Without(q, D), q, D)
  BY WithoutFacts
<1> PICK w \in Seq(S \cup {none}) :
      /\ w = Without(q, D) /\ Len(w) = Len(q)
      /\ \A k \in 1 .. Len(q) : w[k] = IF q[k] \in D THEN none ELSE q[k]
  BY <1>0 DEF Emptied
<1> SUFFICES ASSUME NEW k \in 1 .. Len(q), w[k] # none, NEW y \in Earlier(w[k]),
                    y \notin before \ D
             PROVE  \E j \in 1 .. k - 1 : w[j] = y
  BY DEF InOrder
<1>1. w[k] = q[k] /\ q[k] # none /\ q[k] \notin D
  OBVIOUS
<1>2. q[k] \in Entries(q)
  BY <1>1 DEF Entries
<1>3. y \notin D
  BY <1>1, <1>2
<1>4. y \in before \cup {q[j] : j \in 1 .. k - 1}
  BY <1>1 DEF InOrder
<1> PICK j \in 1 .. k - 1 : q[j] = y
  BY <1>3, <1>4
<1>5. Len(q) \in Nat /\ k \in Nat
  OBVIOUS
<1>6. j \in 1 .. Len(q)
  BY ONLY <1>5, k \in 1 .. Len(q), j \in 1 .. k - 1
<1>7. w[j] = y
  BY <1>3, <1>6
<1> QED  BY <1>7

LEMMA OrderElsewhere ==
  ASSUME NEW q, NEW D, NEW before, InOrder(q, before),
         \A x \in Entries(q) : Earlier(x) \cap D = {}
  PROVE  InOrder(q, before \ D)
<1> SUFFICES ASSUME NEW k \in 1 .. Len(q), q[k] # none
             PROVE  Earlier(q[k]) \subseteq (before \ D) \cup {q[j] : j \in 1 .. k - 1}
  BY DEF InOrder
<1>1. q[k] \in Entries(q)
  BY DEF Entries
<1>2. Earlier(q[k]) \cap D = {} /\ Earlier(q[k]) \subseteq before \cup {q[j] : j \in 1 .. k - 1}
  BY <1>1 DEF InOrder
<1> QED  BY <1>2

\* The bundle is not in use, nor is any list of a call about it.
LEMMA CloseFacts ==
  ASSUME Inv, ~ClosesPending, NEW t \in Threads, NEW i \in Images, Close(t, i)
  PROVE  /\ i \in Bundles /\ i \in prepared
         /\ \A u \in Threads : \A k \in 1 .. Len(stack[u]) :
              /\ stack[u][k] \in Calls /\ KindOK(stack[u][k])
              /\ stack[u][k].on # i /\ stack[u][k].on \notin Of(i)
              /\ Entries(stack[u][k].list) \cap Of(i) = {}
         /\ Running(stack) \cap Of(i) = {} /\ Left(stack) \cap Of(i) = {}
<1>1. i \in Bundles /\ i \in prepared
  BY DEF Close, MayClose
<1>2. stack \in [Threads -> Seq(Calls)] /\ \A u \in Threads : StackOK(stack[u])
  BY DEF Inv, TypeOK, CallsInv
<1>3. ASSUME NEW u \in Threads, NEW k \in 1 .. Len(stack[u])
      PROVE  /\ stack[u][k] \in Calls /\ KindOK(stack[u][k])
             /\ stack[u][k].on # i /\ stack[u][k].on \notin Of(i)
             /\ Entries(stack[u][k].list) \cap Of(i) = {}
  <2>1. stack[u] \in Seq(Calls)
    BY <1>2
  <2>2. stack[u][k] \in Calls /\ stack[u][k] \in Frames(u)
    BY <2>1 DEF Frames, Range
  <2>3. stack[u][k].on \notin {i} \cup Of(i) /\ Range(stack[u][k].list) \cap Of(i) = {}
    BY <2>2 DEF Close, MayClose, InUse
  <2>4. stack[u][k].list \in Seq(Items \cup {none})
    BY <2>2 DEF Calls
  <2>5. Entries(stack[u][k].list) \subseteq Range(stack[u][k].list)
    BY <2>4 DEF Entries, Range
  <2> QED  BY <1>2, <2>2, <2>3, <2>5 DEF StackOK
<1>4. Running(stack) \cap Of(i) = {}
  BY <1>3 DEF Running, IsLoad
<1>5. Left(stack) \cap Of(i) = {}
  BY <1>3 DEF Left, IsLooping
<1> QED  BY <1>1, <1>3, <1>4, <1>5

LEMMA CloseKeeps ==
  ASSUME Inv, ~ClosesPending, NEW t \in Threads, NEW i \in Images, Close(t, i)
  PROVE  Inv'
<1> PICK D : D = Of(i)
  OBVIOUS
<1>1. /\ i \in Bundles /\ i \in prepared
      /\ \A u \in Threads : \A k \in 1 .. Len(stack[u]) :
           /\ stack[u][k] \in Calls /\ KindOK(stack[u][k])
           /\ stack[u][k].on # i /\ stack[u][k].on \notin D
           /\ Entries(stack[u][k].list) \cap D = {}
      /\ Running(stack) \cap D = {} /\ Left(stack) \cap D = {}
  BY CloseFacts
<1>2. /\ none \notin D /\ \A j \in Images : i \notin Links[j]
      /\ \A c \in Classes : c \notin D => Above[c] \cap D = {}
      /\ \A x \in Items : x \notin D => Earlier(x) \cap D = {}
      /\ D = {x \in Items : ImageOf[x] = i}
  BY <1>1, EarlierElsewhere DEF Of
<1>3. /\ loadable_classes' = Without(loadable_classes, D)
      /\ loadable_categories' = Without(loadable_categories, D)
      /\ loaded' = loaded \ D /\ done' = done \ D /\ prepared' = prepared \ {i}
      /\ opener' = [opener EXCEPT ![i] = none] /\ missed' = missed \ {i}
      /\ UNCHANGED <<loading, stack, opens>>
  BY DEF Close
<1>4. TypeOK /\ CallsInv /\ ImagesInv /\ Accounted /\ OrderInv /\ WorkInv
  BY DEF Inv
<1>5. /\ opener' \in [Images -> Threads \cup {none}]
      /\ \A j \in Images : j # i => opener'[j] = opener[j]
  BY <1>3, <1>4 DEF TypeOK
<1>6. /\ loadable_classes \in Seq(Classes \cup {none})
      /\ loadable_categories \in Seq(Categories \cup {none})
  BY <1>4 DEF TypeOK
<1>7. /\ loadable_classes' \in Seq(Classes \cup {none})
      /\ Len(loadable_classes') = Len(loadable_classes)
      /\ Emptied(loadable_classes', loadable_classes, D)
      /\ loadable_classes = <<>> => loadable_classes' = <<>>
  BY <1>3, <1>6, WithoutFacts
<1>8. /\ loadable_categories' \in Seq(Categories \cup {none})
      /\ loadable_categories = <<>> => loadable_categories' = <<>>
  BY <1>3, <1>6, WithoutFacts
<1>9. /\ Entries(loadable_classes') = Entries(loadable_classes) \ D
      /\ Entries(loadable_categories') = Entries(loadable_categories) \ D
      /\ Once(loadable_classes) => Once(loadable_classes')
      /\ Once(loadable_categories) => Once(loadable_categories')
  BY <1>2, <1>3, <1>6, WithoutEntries
<1>10. TypeOK'
  <2>1. prepared' \subseteq {j \in Images : opener'[j] # none}
    BY <1>3, <1>4, <1>5 DEF TypeOK
  <2>2. \A k \in 1 .. Len(loadable_classes') : loadable_classes'[k] \in loaded' \cup {none}
    BY <1>3, <1>4, <1>7 DEF TypeOK, Emptied
  <2> QED  BY <1>3, <1>4, <1>5, <1>7, <1>8, <2>1, <2>2 DEF TypeOK
<1>11. CallsInv'
  BY <1>3, <1>4 DEF CallsInv
<1>12. WorkInv'
  <2>1. /\ \A u \in Threads : \A j : Adds(u, j) => Adds(u, j)'
        /\ Working(stack') <=> Working(stack)
    BY <1>3 DEF Adds, At, Idle, Top, Working, IsLooping
  <2>2. Queued' = Queued \ D /\ Queued \subseteq Items
    BY <1>4, <1>9, WaitingFacts DEF Queued, Items
  <2>3. \A x \in Queued' : x \in Queued /\ ImageOf[x] # i
    BY <1>2, <2>2
  <2> QED  BY <1>3, <1>4, <2>1, <2>3 DEF WorkInv
<1>13. ASSUME NEW u \in Threads, NEW k \in 1 .. Len(stack[u]) PROVE OpenOK(u, stack[u][k])'
  <2> PICK f \in Calls : f = stack[u][k]
    BY <1>1
  <2>1. OpenOK(u, f) /\ KindOK(f) /\ f.on # i
    BY <1>1, <1>4 DEF ImagesInv
  <2>2. CASE f.pc = "open"
    <3>1. f.on \in Images /\ \A j \in Needs(f.on) : j \in Images /\ j # i
      BY <1>2, <2>1, <2>2, ImagesAssumption DEF KindOK, Needs
    <3>2. \A j \in Needs(f.on) : opener'[j] # none /\ (j \in prepared' \/ opener'[j] = u)
      BY <1>3, <1>5, <2>1, <2>2, <3>1 DEF OpenOK
    <3> QED  BY <1>3, <2>2, <3>2 DEF OpenOK
  <2>3. CASE f.pc \in {"lock", "prepare"}
    <3>1. f.on \in Images
      BY <2>1, <2>3 DEF KindOK
    <3>2. f.on \notin prepared' /\ opener'[f.on] = u /\ Links[f.on] \subseteq prepared'
      BY <1>2, <1>3, <1>5, <2>1, <2>3, <3>1 DEF OpenOK
    <3>3. f.pc = "prepare" => /\ Of(f.on) \cap HasLoad \subseteq loaded' \cup Entries(f.list)
                              /\ \A c \in Entries(f.list) : ImageOf[c] \in Needs(f.on)
      <4>1. Of(f.on) \cap D = {}
        BY <1>2, <2>1 DEF Of
      <4> QED  BY <1>3, <2>1, <4>1 DEF OpenOK
    <3> QED  BY <1>3, <2>3, <3>2, <3>3 DEF OpenOK
  <2>4. CASE f.pc \notin {"open", "lock", "prepare"}
    BY <1>3, <2>4 DEF OpenOK
  <2> QED  BY <2>2, <2>3, <2>4
<1>14. ImagesInv'
  <2>1. ASSUME NEW j \in prepared'
        PROVE  Links[j] \subseteq prepared' /\ Of(j) \cap HasLoad \subseteq loaded'
    <3>1. j \in prepared /\ j \in Images /\ j # i
      BY <1>3, <1>4 DEF TypeOK
    <3>2. Links[j] \subseteq prepared /\ Of(j) \cap HasLoad \subseteq loaded
      BY <1>4, <3>1 DEF ImagesInv
    <3>3. Of(j) \cap D = {}
      BY <1>2, <3>1 DEF Of
    <3> QED  BY <1>2, <1>3, <3>1, <3>2, <3>3
  <2>2. ASSUME NEW c \in loaded'
        PROVE  Above[c] \subseteq loaded' /\ opener'[ImageOf[c]] # none
    <3>1. c \in loaded /\ c \in Classes /\ c \notin D
      BY <1>3, <1>4 DEF TypeOK
    <3>2. Above[c] \subseteq loaded /\ opener[ImageOf[c]] # none
      BY <1>4, <3>1 DEF ImagesInv
    <3>3. ImageOf[c] \in Images /\ ImageOf[c] # i
      BY <1>2, <3>1, ClassesAssumption DEF Items
    <3> QED  BY <1>2, <1>3, <1>5, <3>1, <3>2, <3>3
  <2>3. \A u \in Threads : \A k \in 1 .. Len(stack'[u]) : OpenOK(u, stack[u][k])'
    BY <1>3, <1>13
  <2>4. \A j \in prepared' : Links[j] \subseteq prepared' /\ (Of(j) \cap HasLoad)' \subseteq loaded'
    BY <2>1 DEF Of
  <2> QED  BY <2>2, <2>3, <2>4 DEF ImagesInv
<1>15. /\ Running(stack') = Running(stack) /\ Left(stack') = Left(stack)
  BY <1>3
<1>16. Accounted'
  <2>1. Scheduled' = Scheduled \ D
    <3>1. Scheduled' = (loaded' \cap HasLoad) \cup {x \in Categories : ImageOf[x] \in prepared'}
      BY DEF Scheduled
    <3>2. \A x \in Categories : x \in D <=> ImageOf[x] = i
      BY <1>2 DEF Items
    <3> QED  BY <1>3, <3>1, <3>2 DEF Scheduled
  <2>2. Queued' = Queued \ D
    BY <1>9 DEF Queued
  <2> QED  BY <1>1, <1>3, <1>4, <1>15, <2>1, <2>2 DEF Accounted
<1>17. ASSUME NEW u \in Threads, NEW k \in 1 .. Len(stack[u]) PROVE CallOrder(stack[u][k])'
  <2> PICK f \in Calls : f = stack[u][k]
    BY <1>1
  <2>1. CallOrder(f) /\ KindOK(f) /\ f.on \notin D /\ Entries(f.list) \cap D = {}
    BY <1>1, <1>4 DEF OrderInv
  <2>2. \A x \in Entries(f.list) : x \in Items /\ Earlier(x) \cap D = {}
    <3>1. Entries(f.list) \subseteq Items
      BY DEF Entries, Calls
    <3> QED  BY <1>2, <2>1, <3>1
  <2>3. f.pc = "load" => Earlier(f.on) \subseteq done'
    BY <1>2, <1>3, <2>1 DEF CallOrder, KindOK
  <2>4. f.pc = "categories" => \A x \in Entries(f.list) : Earlier(x) \subseteq done'
    BY <1>3, <2>1, <2>2 DEF CallOrder
  <2>5. f.pc = "classes" => InOrder(f.list, done' \cup Running(stack'))
    <3>1. done' \cup Running(stack') = (done \cup Running(stack)) \ D
      BY <1>1, <1>3, <1>15
    <3>2. f.pc = "classes" => InOrder(f.list, (done \cup Running(stack)) \ D)
      BY <2>1, <2>2, OrderElsewhere DEF CallOrder
    <3> QED  BY <3>1, <3>2
  <2>6. CallOrder(f)'
    BY <2>1, <2>3, <2>4, <2>5 DEF CallOrder
  <2> QED  BY <1>3, <2>6 DEF CallOrder
<1>18. OrderInv'
  <2>1. /\ Entries(loadable_classes) \subseteq Classes
        /\ Entries(loadable_categories) \subseteq Categories
    BY <1>4, WaitingFacts
  <2>2. InOrder(loadable_classes', done' \cup Running(stack') \cup Left(stack'))
    <3>1. done' \cup Running(stack') \cup Left(stack')
            = (done \cup Running(stack) \cup Left(stack)) \ D
      BY <1>1, <1>3, <1>15
    <3>2. \A x \in Entries(loadable_classes) \ D : Earlier(x) \cap D = {}
      BY <1>2, <2>1 DEF Items
    <3>3. InOrder(loadable_classes, done \cup Running(stack) \cup Left(stack))
      BY <1>4 DEF OrderInv
    <3> PICK B : B = done \cup Running(stack) \cup Left(stack)
      OBVIOUS
    <3>4. InOrder(loadable_classes', B \ D)
      BY <1>2, <1>3, <1>6, <3>2, <3>3, WithoutOrder
    <3> QED  BY <3>1, <3>4
  <2>3. \A x \in Entries(loadable_categories') : Earlier(x) \subseteq loaded'
    <3> SUFFICES ASSUME NEW x \in Entries(loadable_categories') PROVE Earlier(x) \subseteq loaded'
      OBVIOUS
    <3>1. x \in Entries(loadable_categories) /\ x \notin D /\ x \in Items
      BY <1>9, <2>1 DEF Items
    <3> QED  BY <1>2, <1>3, <1>4, <3>1 DEF OrderInv
  <2>4. \A u \in Threads : \A k \in 1 .. Len(stack'[u]) : CallOrder(stack[u][k])'
    BY <1>3, <1>17
  <2> QED  BY <1>4, <1>9, <2>2, <2>3, <2>4 DEF OrderInv
<1> QED  BY <1>10, <1>11, <1>12, <1>14, <1>16, <1>18 DEF Inv

-----------------------------------------------------------------------------
(***************************************************************************)
(* The theorems.                                                           *)
(***************************************************************************)
LEMMA InvAtFirst == Init => Inv
<1> SUFFICES ASSUME Init PROVE Inv
  OBVIOUS
<1> USE DEF Init
<1>1. \A t \in Threads : stack[t] = <<>> /\ Len(stack[t]) = 0 /\ Idle(t)
  BY DEF Idle
<1>2. \A t \in Threads : \A i \in 1 .. Len(stack[t]) : FALSE
  BY <1>1
<1>3. \A t \in Threads : \A i \in Nat : ~IsLooping(stack, t, i) /\ ~IsLoad(stack, t, i)
  BY <1>2 DEF IsLooping, IsLoad
<1>4. Running(stack) = {} /\ Left(stack) = {}
  BY <1>3 DEF Running, Left
<1>5. stack \in [Threads -> Seq(Calls)]
  OBVIOUS
<1>6. TypeOK
  <2>1. opens \in 0 .. MaxOpens
    BY MaxOpensAssumption
  <2>2. opener \in [Images -> Threads \cup {none}] /\ loading \in BOOLEAN
    OBVIOUS
  <2>3. /\ loadable_classes \in Seq(Classes \cup {none}) /\ Len(loadable_classes) = 0
        /\ loadable_categories \in Seq(Categories \cup {none})
    OBVIOUS
  <2>4. \A k \in 1 .. Len(loadable_classes) : loadable_classes[k] \in loaded \cup {none}
    BY <2>3
  <2>5. prepared \subseteq {i \in Images : opener[i] # none} /\ loaded \subseteq Classes
        /\ done \subseteq Items /\ missed \subseteq Images
    OBVIOUS
  <2> QED  BY ONLY <1>5, <2>1, <2>2, <2>3, <2>4, <2>5 DEF TypeOK
<1>7. CallsInv
  BY <1>2, <1>3 DEF CallsInv, StackOK, OneActive, HoldsIn
<1>8. ImagesInv
  BY <1>2 DEF ImagesInv
<1>9. Accounted
  BY <1>4, EmptyList DEF Accounted, Queued, Scheduled
<1>10. OrderInv
  BY <1>2, EmptyList DEF OrderInv
<1>11. WorkInv
  <2>1. Queued = {}
    BY EmptyList DEF Queued
  <2> QED  BY <2>1 DEF WorkInv
<1> QED  BY <1>6, <1>7, <1>8, <1>9, <1>10, <1>11 DEF Inv

LEMMA NothingChanges ==
  ASSUME Inv, UNCHANGED vars
  PROVE  Inv'
<1> USE DEF vars
<1>1. TypeOK'
  BY DEF Inv, TypeOK
<1>2. CallsInv'
  BY DEF Inv, CallsInv
<1>3. ImagesInv'
  BY DEF Inv, ImagesInv, OpenOK, Of, Needs
<1>4. Accounted'
  BY DEF Inv, Accounted, Scheduled, Queued
<1>5. OrderInv'
  BY DEF Inv, OrderInv, CallOrder
<1>6. WorkInv'
  BY DEF Inv, WorkInv, Queued, Working, IsLooping, Adds, At, Idle, Top
<1> QED  BY <1>1, <1>2, <1>3, <1>4, <1>5, <1>6 DEF Inv

LEMMA InvKept ==
  ASSUME Inv, [Next]_vars, ~ClosesPending
  PROVE  Inv'
<1>1. ASSUME NEW t \in Threads, Continue(t) PROVE Inv'
  BY <1>1, OpenReturnsKeeps, LoadImagesKeeps, PrepareKeeps, AlreadyLoadedKeeps,
     ScheduleSuperclassKeeps, ScheduleClassKeeps, PrepareCategoriesKeeps,
     CallLoadMethodsKeeps, DetachClassesKeeps, DetachCategoriesKeeps, CallLoadKeeps,
     LoadReturnsKeeps, ClassesDoneKeeps, CategoriesDoneKeeps, PoolPoppedKeeps DEF Continue
<1>2. ASSUME NEW t \in Threads, NEW i \in Images, Open(t, i) PROVE Inv'
  BY <1>2, OpenKeeps
<1>3. ASSUME NEW t \in Threads, NEW i \in Images, Close(t, i) PROVE Inv'
  BY <1>3, CloseKeeps
<1>4. CASE UNCHANGED vars
  BY <1>4, NothingChanges
<1> QED  BY <1>1, <1>2, <1>3, <1>4 DEF Next, Stopped

\* The invariant holds in every state, if no bundle is closed while a call has its
\* +load methods detached.
THEOREM Inductive == ASSUME ~ClosesPending PROVE Spec => []Inv
BY InvAtFirst, InvKept, PTL DEF Spec

\* The values of the variables, and a flag for each class that waits.
THEOREM TypeCorrect == ASSUME ~ClosesPending PROVE Spec => []TypeOK
<1>1. Inv => TypeOK
  BY DEF Inv
<1> QED  BY <1>1, Inductive, PTL

LEMMA InOrderThen ==
  ASSUME Inv
  PROVE  RunsInOrder
<1>1. stack \in [Threads -> Seq(Calls)] /\ \A u \in Threads : StackOK(stack[u])
  BY DEF Inv, TypeOK, CallsInv
<1>2. ASSUME NEW t \in Threads, NEW f \in Frames(t), f.pc = "load"
      PROVE  \E k \in Nat : IsLoad(stack, t, k) /\ stack[t][k] = f
  <2>1. stack[t] \in Seq(Calls)
    BY <1>1
  <2> PICK k \in 1 .. Len(stack[t]) : stack[t][k] = f
    BY <2>1 DEF Frames, Range
  <2>2. k \in Nat /\ IsLoad(stack, t, k)
    BY <1>2, <2>1 DEF IsLoad
  <2> QED  BY <2>2
<1> SUFFICES ASSUME NEW t \in Threads, NEW f \in Frames(t), f.pc = "load"
             PROVE  /\ opener[ImageOf[f.on]] # none
                    /\ f.on \notin done
                    /\ Earlier(f.on) \subseteq done
                    /\ \A u \in Threads : \A g \in Frames(u) :
                         g.pc = "load" => u = t /\ g = f
  BY DEF RunsInOrder
<1> PICK k \in Nat : IsLoad(stack, t, k) /\ stack[t][k] = f
  BY <1>2
<1>3. k \in 1 .. Len(stack[t]) /\ KindOK(f) /\ CallOrder(f)
  BY <1>1 DEF IsLoad, StackOK, Inv, OrderInv
<1>4. f.on \in Items /\ f.on \in Running(stack)
  BY <1>3 DEF KindOK, Running
<1>5. f.on \in Scheduled /\ f.on \notin done
  BY <1>4 DEF Inv, Accounted
<1>6. opener[ImageOf[f.on]] # none
  <2>1. CASE f.on \in loaded
    BY <2>1 DEF Inv, ImagesInv
  <2>2. CASE ImageOf[f.on] \in prepared
    BY <2>2 DEF Inv, TypeOK
  <2> QED  BY <1>5, <2>1, <2>2 DEF Scheduled
<1>7. Earlier(f.on) \subseteq done
  BY <1>3 DEF CallOrder
<1>8. ASSUME NEW u \in Threads, NEW g \in Frames(u), g.pc = "load"
      PROVE  u = t /\ g = f
  <2> PICK m \in Nat : IsLoad(stack, u, m) /\ stack[u][m] = g
    BY <1>2, <1>8
  <2>1. k - 1 \in Nat /\ IsLooping(stack, t, k - 1)
    BY <1>1, LoadIsCalled
  <2>2. m - 1 \in Nat /\ IsLooping(stack, u, m - 1)
    BY <1>1, LoadIsCalled
  <2>3. t = u /\ k - 1 = m - 1
    BY <2>1, <2>2 DEF Inv, CallsInv, OneActive
  <2>4. k = m
    BY ONLY <2>3, k \in Nat, m \in Nat
  <2> QED  BY <2>3, <2>4
<1> QED  BY <1>5, <1>6, <1>7, <1>8

LEMMA NothingForgottenThen ==
  ASSUME Inv
  PROVE  NothingForgotten
<1> SUFFICES ASSUME \A t \in Threads : ~Holds(t)
             PROVE  /\ ~loading
                    /\ \A i \in prepared : \A x \in WithLoads(i) :
                         x \in done \/ (i \in missed /\ x \in Waiting)
  BY DEF NothingForgotten
<1>1. /\ stack \in [Threads -> Seq(Calls)] /\ StackType
      /\ \A u \in Threads : StackOK(stack[u])
  BY DEF Inv, TypeOK, CallsInv, StackType
<1>2. ASSUME NEW t \in Threads, NEW k \in 1 .. Len(stack[t]) PROVE stack[t][k].pc \notin Holding
  BY <1>1, HoldsAre DEF HoldsIn
<1>3. \A t \in Threads : \A k \in Nat : ~IsLooping(stack, t, k)
  BY <1>2 DEF IsLooping, Looping, Holding
<1>4. ~loading /\ ~Working(stack)
  BY <1>3 DEF Inv, CallsInv, Working
<1>5. ASSUME NEW t \in Threads, NEW i PROVE ~Adds(t, i)
  <2>1. ASSUME ~Idle(t) PROVE Top(t).pc \notin Holding
    BY <1>2, <2>1, TopIs
  <2> QED  BY <2>1 DEF Adds, At, Holding
<1>6. \A x \in Queued : ImageOf[x] \in missed
  BY <1>4, <1>5 DEF Inv, WorkInv
<1>7. Running(stack) = {} /\ Left(stack) = {}
  BY <1>1, <1>3, NoLoop
<1>8. Scheduled = done \cup Queued
  BY <1>7 DEF Inv, Accounted
<1>9. Queued \subseteq Waiting
  <2>1. /\ DOMAIN loadable_classes = 1 .. Len(loadable_classes)
        /\ DOMAIN loadable_categories = 1 .. Len(loadable_categories)
    BY DEF Inv, TypeOK
  <2> QED  BY <2>1 DEF Queued, Waiting, Entries, Range
<1>10. ASSUME NEW i \in prepared, NEW x \in WithLoads(i)
       PROVE  x \in done \/ (i \in missed /\ x \in Waiting)
  <2>1. Of(i) \cap HasLoad \subseteq loaded
    BY DEF Inv, ImagesInv
  <2>2. x \in Scheduled /\ ImageOf[x] = i
    BY <2>1 DEF Scheduled, Of, WithLoads
  <2> QED  BY <1>6, <1>8, <1>9, <2>2
<1> QED  BY <1>4, <1>10

\* A +load is sent once and alone, after those above it, whatever images a +load
\* opens or closes and whichever threads open others (call_load_methods), if a
\* bundle is not closed while a call has its +load methods detached.
THEOREM OrderIsKept == ASSUME ~ClosesPending PROVE Spec => []RunsInOrder
BY Inductive, InOrderThen, PTL

\* When loadMethodLock is free, every +load that load_images has found is over:
\* the outermost call_load_methods has gone on with what others added. The +loads
\* of images that were opened while it popped its pool, after its last look at
\* the lists, wait in the lists for the next call of call_load_methods.
THEOREM NoneIsForgotten == ASSUME ~ClosesPending PROVE Spec => []NothingForgotten
BY Inductive, NothingForgottenThen, PTL
=============================================================================
