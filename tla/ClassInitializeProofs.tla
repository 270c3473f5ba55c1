------------------------ MODULE ClassInitializeProofs ------------------------
(***************************************************************************)
(* +initialize: type correctness, InitializedOnce, Contiguous, NoFatal,    *)
(* ReturnsInitialized and ForkCompletesNothing, for any class hierarchy,   *)
(* any messages of the +initialize methods, any classes without one, any   *)
(* number of threads, and a fork at any time; all but the type correctness *)
(* under RootsAreEmpty, which says something of the child of a fork only.  *)
(*                                                                         *)
(* The argument: the class of a frame is dealt with after its superclass   *)
(* was (SuperReady), so that the classes that are being initialized hang   *)
(* together along the superclasses of each, in one thread (Chain).  Hence  *)
(* all classes that wait for one that is finished are its thread's         *)
(* (Pendings).  After a fork that could fail for the classes of a thread   *)
(* that is gone; but a class that was being initialized together with a    *)
(* subclass sends messages, or waits itself (Reasons, Orphans): it is not  *)
(* trivial, by RootsAreEmpty, and the child halts before it could finish   *)
(* it.                                                                     *)
(***************************************************************************)
EXTENDS ClassInitialize, SequenceTheorems, WellFoundedInduction, TLAPS

\* The classes whose +initialize sends no message
Silent == {c \in Classes : Messages[c] = {}}

SuperReady(t, c) ==
  Super[c] # none => Initialized(Super[c]) \/ Super[c] \in mine[t]

Owning == {"record", "body", "finish"}

\* What a frame of thread t at p in the call for class c may rely on
FrameOK(t, c, p) ==
  /\ p \in Owning => c \notin pending
  /\ p \in {"body", "finish"} => c \in mine[t]
  /\ p = "record" => /\ state[c] = "initializing"
                     /\ halted = "no" => c \notin mine[t]
  /\ p \in {"decide", "owner"} => state[c] # "no"
  /\ p = "decided" => Initialized(c)
  /\ p = "owner" /\ child => state[c] = "initializing"
  /\ p \notin {"super", "try"} => SuperReady(t, c)

\* A call in which another call is made
Lower(t, i) ==
  /\ stack[t][i].pc \in {"try", "body"}
  /\ stack[t][i].pc = "try" =>
       /\ Super[stack[t][i].cls] # none
       /\ stack[t][i + 1].cls = Super[stack[t][i].cls]
  /\ stack[t][i].pc = "body" => stack[t][i].cls \notin Silent

TopReady(t) == At(t, "try") => SuperReady(t, Top(t).cls)

OwnsOnce(t) ==
  \A i, j \in 1 .. Len(stack[t]) :
    /\ stack[t][i].pc \in Owning /\ stack[t][j].pc \in Owning
    /\ stack[t][i].cls = stack[t][j].cls
    => i = j

StackType == stack \in [Threads -> Seq(FrameType)]

Stacks ==
  \A t \in Threads :
    /\ \A i \in 1 .. Len(stack[t]) :
         FrameOK(t, stack[t][i].cls, stack[t][i].pc)
    /\ \A i \in 1 .. Len(stack[t]) - 1 : Lower(t, i)
    /\ TopReady(t) /\ OwnsOnce(t)

Processes ==
  /\ \A t \in Threads \ alive : stack[t] = <<>> /\ mine[t] = {}
  /\ ~child => alive = Threads
  /\ child => \E t \in Threads : alive = {t}

\* The classes that a thread is about to record, and those whose +initialize
\* it is in, by its frames
RecsOf(s) == {c \in Classes : \E i \in 1 .. Len(s) :
                                s[i].cls = c /\ s[i].pc = "record"}
CallsOf(s) == {c \in Classes : \E i \in 1 .. Len(s) :
                                 s[i].cls = c /\ s[i].pc \in {"body", "finish"}}
Recs == [t \in Threads |-> RecsOf(stack[t])]
Calls == [t \in Threads |-> CallsOf(stack[t])]
\* The classes that t initializes
Owned == [t \in Threads |-> mine[t] \cup Recs[t]]

\* A class is being initialized by one thread, which may be gone.
Owners ==
  /\ \A t \in Threads : \A c \in Owned[t] : state[c] = "initializing"
  /\ \A t, u \in Threads : \A c \in Owned[t] : c \in Owned[u] => t = u
  /\ ~child => \A c \in Classes :
       state[c] = "initializing" => \E t \in Threads : c \in Owned[t]

\* Contiguous, for all superclasses of a class
Chain ==
  \A c \in Classes : \A a \in Ancestors[c] :
    state[c] # "no" =>
      \/ Initialized(a)
      \/ /\ state[a] = "initializing" /\ state[c] = "initializing"
         /\ \A t \in Threads : c \in Owned[t] => a \in Owned[t]

Counts ==
  \A c \in Classes :
    /\ runs[c] <= 1
    /\ runs[c] = 1 => state[c] # "no"
    /\ halted = "no" => \A t \in Threads : c \in Recs[t] => runs[c] = 0

\* The classes that wait for a class belong to the thread that initializes it.
Pendings ==
  \A d \in pending :
    /\ state[d] = "initializing" /\ Super[d] # none /\ ~Initialized(Super[d])
    /\ halted = "no" => \A t \in Threads : \A c \in Ancestors[d] :
                          c \in Owned[t] => d \in mine[t]

\* A thread's classes are in a +initialize, or wait for their superclass.
Bodies ==
  halted = "no" =>
    \A t \in Threads : mine[t] \subseteq pending \cup Calls[t]

\* A thread that initializes a class and a subclass of it sent the message
\* from the +initialize of the class, or has left that since.
Reasons ==
  halted = "no" /\ ~child =>
    \A t \in Threads : \A d \in Owned[t] : \A c \in Ancestors[d] :
      c \in Owned[t] => c \notin Silent \/ c \in pending

\* The thread that initialized the class is gone.
Orphan(c) == state[c] = "initializing" /\ \A t \in Threads : c \notin Owned[t]

Orphans ==
  halted = "no" /\ child =>
    \A d \in Classes : \A c \in Ancestors[d] :
      Orphan(c) /\ Orphan(d) => c \notin Silent \/ c \in pending

Rest ==
  /\ Owners /\ Chain /\ Counts /\ Pendings /\ Bodies /\ Reasons /\ Orphans

Inv == TypeOK /\ Stacks /\ Processes /\ Rest /\ halted # "fatal"

(***************************************************************************)
(* Superclasses.                                                           *)
(***************************************************************************)
LEMMA SuperFacts ==
  ASSUME NEW c \in Classes
  PROVE  /\ Ancestors[c] \subseteq Classes /\ c \notin Ancestors[c]
         /\ Super[c] = none <=> Ancestors[c] = {}
         /\ Super[c] # none =>
              /\ Super[c] \in Classes /\ Super[c] \in Ancestors[c]
              /\ Ancestors[c] = {Super[c]} \cup Ancestors[Super[c]]
         /\ \A a \in Ancestors[c] :
              Ancestors[a] \subseteq Ancestors[c] /\ c \notin Ancestors[a]
         /\ \A a, b \in Ancestors[c] :
              a = b \/ a \in Ancestors[b] \/ b \in Ancestors[a]
<1>1. Ancestors[c] = IF Super[c] = none THEN {}
                     ELSE {Super[c]} \cup Ancestors[Super[c]]
  BY SuperAssumption
<1>2. c \notin Ancestors[c] /\ Ancestors[c] \subseteq Classes
  BY SuperAssumption
<1>3. Super[c] \in Classes \cup {none}
  BY SuperAssumption
<1>4. \A a, b \in Ancestors[c] :
        /\ Ancestors[a] \subseteq Ancestors[c]
        /\ a = b \/ a \in Ancestors[b] \/ b \in Ancestors[a]
  BY SuperAssumption
<1>5. \A a \in Ancestors[c] : c \notin Ancestors[a]
  BY <1>2, <1>4
<1> QED  BY <1>1, <1>2, <1>3, <1>4, <1>5

(***************************************************************************)
(* Stacks.                                                                 *)
(***************************************************************************)
\* A frame and what NotifyAll makes of it
Same(f, g) ==
  /\ g.cls = f.cls /\ g.thrown = f.thrown
  /\ g.pc = f.pc \/ (f.pc = "asleep" /\ g.pc = "wait")

\* The first m frames of t stay, and all frames of the other threads.
Kept(t, m) ==
  /\ stack' \in [Threads -> Seq(FrameType)]
  /\ \A u \in Threads : u # t => Len(stack'[u]) = Len(stack[u])
  /\ m \in Nat /\ m <= Len(stack[t]) /\ m <= Len(stack'[t])
  /\ \A u \in Threads : \A i \in 1 .. Len(stack[u]) :
       u # t \/ i <= m => Same(stack[u][i], stack'[u][i])

\* The topmost frame of a thread in a call
LEMMA TopFacts ==
  ASSUME StackType, NEW t \in Threads, ~Idle(t)
  PROVE  /\ Len(stack[t]) \in Nat /\ Len(stack[t]) > 0
         /\ Top(t) = stack[t][Len(stack[t])] /\ Top(t) \in FrameType
<1>1. stack[t] \in Seq(FrameType) /\ stack[t] # <<>>
  BY DEF StackType, Idle
<1>2. Len(stack[t]) \in Nat /\ Len(stack[t]) > 0
  BY <1>1, EmptySeq, LenProperties
<1> QED  BY <1>1, <1>2 DEF Top

\* Only the frames of t change.
OneStack(t) ==
  /\ stack' \in [Threads -> Seq(FrameType)]
  /\ \A u \in Threads : u # t => stack'[u] = stack[u]

\* Only the stack of t is assigned to.
LEMMA OneStackFacts ==
  ASSUME StackType, NEW t \in Threads, NEW s \in Seq(FrameType),
         stack' = [stack EXCEPT ![t] = s]
  PROVE  OneStack(t) /\ stack'[t] = s
BY DEF StackType, OneStack

\* The first m frames of t stay.
LEMMA KeptOne ==
  ASSUME StackType, NEW t \in Threads, NEW m \in Nat, OneStack(t),
         m <= Len(stack[t]), m <= Len(stack'[t]),
         \A i \in 1 .. m : stack'[t][i] = stack[t][i]
  PROVE  Kept(t, m)
<1>1. ASSUME NEW u \in Threads, NEW i \in 1 .. Len(stack[u]), u # t \/ i <= m
      PROVE  Same(stack[u][i], stack'[u][i])
  <2>1. CASE u # t
    BY <2>1 DEF OneStack, Same
  <2>2. CASE u = t
    <3>1. i \in 1 .. m
      BY <1>1, <2>2
    <3> QED  BY <2>2, <3>1 DEF Same
  <2> QED  BY <2>1, <2>2
<1> QED  BY <1>1 DEF Kept, OneStack

\* A call is made.
LEMMA PushFacts ==
  ASSUME StackType, NEW t \in Threads, NEW f \in FrameType,
         stack' = [stack EXCEPT ![t] = Append(@, f)]
  PROVE  /\ Kept(t, Len(stack[t])) /\ Len(stack'[t]) = Len(stack[t]) + 1
         /\ stack'[t][Len(stack'[t])] = f
<1>1. stack[t] \in Seq(FrameType) /\ Len(stack[t]) \in Nat
  BY DEF StackType
<1> DEFINE s == Append(stack[t], f)
<1>2. /\ s \in Seq(FrameType) /\ Len(s) = Len(stack[t]) + 1 /\ s[Len(s)] = f
      /\ \A i \in 1 .. Len(stack[t]) : s[i] = stack[t][i]
  BY <1>1, AppendProperties
<1>3. stack' = [stack EXCEPT ![t] = s]
  OBVIOUS
<1> HIDE DEF s
<1>4. stack'[t] = s /\ OneStack(t)
  BY <1>1, <1>2, <1>3, OneStackFacts
<1>5. Kept(t, Len(stack[t]))
  BY <1>1, <1>2, <1>4, KeptOne
<1> QED  BY <1>2, <1>4, <1>5

\* The stack without its topmost frame
LEMMA PoppedFacts ==
  ASSUME StackType, NEW t \in Threads, ~Idle(t)
  PROVE  /\ Popped(t) \in Seq(FrameType) /\ Len(Popped(t)) = Len(stack[t]) - 1
         /\ \A i \in 1 .. Len(stack[t]) - 1 : Popped(t)[i] = stack[t][i]
<1>1. stack[t] \in Seq(FrameType) /\ Len(stack[t]) \in Nat /\ Len(stack[t]) > 0
  BY TopFacts DEF StackType
<1> QED  BY <1>1 DEF Popped

\* The topmost call returns.
LEMMA ReturnFacts ==
  ASSUME StackType, NEW t \in Threads, ~Idle(t), Return(t)
  PROVE  Kept(t, Len(stack[t]) - 1) /\ Len(stack'[t]) = Len(stack[t]) - 1
<1>1. Len(stack[t]) \in Nat /\ Len(stack[t]) > 0
  BY TopFacts
<1> DEFINE m == Len(stack[t]) - 1
           s == Popped(t)
<1>2. /\ s \in Seq(FrameType) /\ Len(s) = m /\ m \in Nat /\ m <= Len(stack[t])
      /\ \A i \in 1 .. m : s[i] = stack[t][i]
  BY <1>1, PoppedFacts
<1>3. stack' = [stack EXCEPT ![t] = s]
  BY DEF Return
<1> HIDE DEF s, m
<1>4. stack'[t] = s /\ OneStack(t)
  BY <1>2, <1>3, OneStackFacts
<1>5. Kept(t, m)
  BY <1>2, <1>4, KeptOne
<1> QED  BY <1>2, <1>4, <1>5 DEF m

\* The topmost frame is replaced.
LEMMA BecomeFacts ==
  ASSUME StackType, NEW t \in Threads, ~Idle(t), NEW f \in FrameType,
         stack' = Become(t, f)
  PROVE  /\ Kept(t, Len(stack[t]) - 1) /\ Len(stack'[t]) = Len(stack[t])
         /\ stack'[t][Len(stack'[t])] = f
<1>1. Len(stack[t]) \in Nat /\ Len(stack[t]) > 0
  BY TopFacts
<1> DEFINE m == Len(stack[t]) - 1
           p == Popped(t)
           s == Append(p, f)
<1>2. /\ p \in Seq(FrameType) /\ Len(p) = m /\ m \in Nat /\ m <= Len(stack[t])
      /\ \A i \in 1 .. m : p[i] = stack[t][i]
  BY <1>1, PoppedFacts
<1>3. stack' = [stack EXCEPT ![t] = s]
  BY DEF Become
<1> HIDE DEF p, m
<1>4. /\ s \in Seq(FrameType) /\ Len(s) = m + 1 /\ s[m + 1] = f
      /\ \A i \in 1 .. m : s[i] = stack[t][i]
  BY <1>2, AppendProperties
<1> HIDE DEF s
<1>5. stack'[t] = s /\ OneStack(t)
  BY <1>2, <1>3, <1>4, OneStackFacts
<1>6. Kept(t, m)
  BY <1>2, <1>4, <1>5, KeptOne
<1> QED  BY <1>1, <1>4, <1>5, <1>6 DEF m

\* The topmost frame is replaced, and a call is made in it.
LEMMA BecomePushFacts ==
  ASSUME StackType, NEW t \in Threads, ~Idle(t), NEW f \in FrameType,
         NEW g \in FrameType,
         stack' = [Become(t, f) EXCEPT ![t] = Append(@, g)]
  PROVE  /\ Kept(t, Len(stack[t]) - 1) /\ Len(stack'[t]) = Len(stack[t]) + 1
         /\ stack'[t][Len(stack[t])] = f /\ stack'[t][Len(stack[t]) + 1] = g
<1>1. Len(stack[t]) \in Nat /\ Len(stack[t]) > 0
  BY TopFacts
<1> DEFINE m == Len(stack[t]) - 1
           p == Popped(t)
           q == Append(p, f)
           s == Append(q, g)
<1>2. /\ p \in Seq(FrameType) /\ Len(p) = m /\ m \in Nat /\ m <= Len(stack[t])
      /\ \A i \in 1 .. m : p[i] = stack[t][i]
  BY <1>1, PoppedFacts
<1>3. stack' = [stack EXCEPT ![t] = s]
  BY DEF Become, StackType
<1> HIDE DEF p, m
<1>4. /\ q \in Seq(FrameType) /\ Len(q) = m + 1 /\ q[m + 1] = f
      /\ \A i \in 1 .. m : q[i] = stack[t][i]
  BY <1>2, AppendProperties
<1> HIDE DEF q
<1>5. /\ s \in Seq(FrameType) /\ Len(s) = m + 2 /\ s[m + 2] = g /\ s[m + 1] = f
      /\ \A i \in 1 .. m : s[i] = stack[t][i]
  BY <1>2, <1>4, AppendProperties
<1> HIDE DEF s
<1>6. stack'[t] = s /\ OneStack(t)
  BY <1>3, <1>5, OneStackFacts
<1>7. /\ m \in Nat /\ m <= Len(stack[t]) /\ m <= Len(stack'[t])
      /\ \A i \in 1 .. m : stack'[t][i] = stack[t][i]
  <2>1. Len(s) = m + 2 /\ m \in Nat /\ m <= Len(stack[t])
    BY <1>2, <1>5
  <2>2. m <= Len(stack'[t])
    BY <2>1, <1>6
  <2>3. \A i \in 1 .. m : s[i] = stack[t][i]
    BY <1>5
  <2> QED  BY <2>1, <2>2, <2>3, <1>6
<1>8. Kept(t, m)
  BY <1>6, <1>7, KeptOne
<1>9. Len(stack'[t]) = m + 2 /\ stack'[t][m + 1] = f /\ stack'[t][m + 2] = g
  BY <1>5, <1>6
<1>10. Len(stack[t]) = m + 1 /\ m \in Nat
  BY <1>1 DEF m
<1>11. Len(stack'[t]) = Len(stack[t]) + 1 /\ m + 2 = Len(stack[t]) + 1
  BY <1>9, <1>10
<1>12. m = Len(stack[t]) - 1
  BY DEF m
<1> QED  BY <1>8, <1>9, <1>10, <1>11, <1>12
(***************************************************************************)
(* The classes that are being initialized, at each kind of step.           *)
(***************************************************************************)
States ==
  /\ state \in [Classes -> {"no", "initializing", "initialized"}]
  /\ mine \in [Threads -> SUBSET Classes]
  /\ pending \subseteq Classes
  /\ runs \in [Classes -> Nat]

\* The classes a thread initializes, before and after a step
LEMMA OwnedFacts ==
  ASSUME NEW t \in Threads
  PROVE  /\ Owned[t] = mine[t] \cup Recs[t]
         /\ Owned'[t] = mine'[t] \cup Recs'[t]
         /\ Recs[t] \subseteq Classes /\ Recs'[t] \subseteq Classes
BY DEF Owned, Recs, RecsOf

\* What the superclasses of the class of a frame are
LEMMA ReadyChain ==
  ASSUME States, Owners, Chain, NEW t \in Threads, NEW c \in Classes,
         SuperReady(t, c), NEW a \in Ancestors[c]
  PROVE  Initialized(a) \/ (state[a] = "initializing" /\ a \in Owned[t])
<1> DEFINE s == Super[c]
<1>1. s \in Classes /\ (a = s \/ a \in Ancestors[s]) /\ a \in Classes
  BY SuperFacts
<1>2. CASE Initialized(s)
  BY <1>1, <1>2 DEF Chain, Initialized
<1>3. CASE s \in mine[t]
  <2>1. s \in Owned[t] /\ state[s] = "initializing"
    BY <1>3, OwnedFacts DEF Owners
  <2> QED  BY <1>1, <2>1 DEF Chain, Initialized
<1> QED  BY <1>1, <1>2, <1>3, SuperFacts DEF SuperReady

\* Nothing below a class that is not touched is touched.
LEMMA Untouched ==
  ASSUME States, Chain, NEW c \in Classes, state[c] = "no",
         NEW d \in Classes, c \in Ancestors[d]
  PROVE  state[d] = "no"
BY DEF Chain, Initialized, States

\* A step that touches no class
LEMMA QuietRest ==
  ASSUME Rest, UNCHANGED <<state, mine, pending, child, halted, runs>>,
         \A u \in Threads : Recs'[u] = Recs[u] /\ Calls'[u] = Calls[u]
  PROVE  Rest'
<1>1. \A u \in Threads : Owned'[u] = Owned[u]
  BY OwnedFacts
<1>2. Owners'
  BY <1>1 DEF Rest, Owners
<1>3. Chain'
  BY <1>1 DEF Rest, Chain, Initialized
<1>4. Counts'
  BY DEF Rest, Counts
<1>5. Pendings'
  BY <1>1 DEF Rest, Pendings, Initialized
<1>6. Bodies'
  BY DEF Rest, Bodies
<1>7. Reasons'
  BY <1>1 DEF Rest, Reasons
<1>8. Orphans'
  BY <1>1 DEF Rest, Orphans, Orphan
<1> QED  BY <1>2, <1>3, <1>4, <1>5, <1>6, <1>7, <1>8 DEF Rest

\* Thread t sets RW_INITIALIZING of c.
LEMMA TryRest ==
  ASSUME States, Rest, NEW t \in Threads, NEW c \in Classes, state[c] = "no",
         SuperReady(t, c), halted = "no",
         state' = [state EXCEPT ![c] = "initializing"],
         UNCHANGED <<mine, pending, child, halted, runs>>,
         \A u \in Threads : /\ Recs'[u] = IF u = t THEN Recs[u] \cup {c}
                                                   ELSE Recs[u]
                            /\ Calls'[u] = Calls[u],
         Recs[t] = {}, \A d \in Calls[t] : d \notin Silent
  PROVE  Rest'
<1>1. \A u \in Threads : Owned'[u] = IF u = t THEN Owned[u] \cup {c} ELSE Owned[u]
  BY OwnedFacts
<1>2. \A d \in Classes : state'[d] = IF d = c THEN "initializing" ELSE state[d]
  BY DEF States
<1>3. \A u \in Threads : c \notin Owned[u] /\ Owned[u] \subseteq Classes
  BY OwnedFacts DEF Rest, Owners, States
<1>4. \A d \in Classes : c \in Ancestors[d] => d # c /\ state[d] = "no"
  BY SuperFacts, Untouched DEF Rest
<1>5. Owners'
  <2>0. \A u \in Threads : \A d \in Owned'[u] :
          d \in Classes /\ (d \in Owned[u] \/ (u = t /\ d = c))
    BY <1>1, <1>3
  <2>1. \A u \in Threads : \A d \in Owned'[u] : state'[d] = "initializing"
    BY <2>0, <1>2 DEF Rest, Owners
  <2>2. ASSUME NEW u \in Threads, NEW v \in Threads, NEW d \in Owned'[u],
               d \in Owned'[v]
        PROVE  u = v
    <3>1. CASE d = c
      BY <3>1, <2>0, <2>2, <1>3
    <3>2. CASE d # c
      <4>1. d \in Owned[u] /\ d \in Owned[v]
        BY <3>2, <2>0, <2>2
      <4> QED  BY <4>1 DEF Rest, Owners
    <3> QED  BY <3>1, <3>2
  <2>3. ASSUME ~child, NEW d \in Classes, state'[d] = "initializing"
        PROVE  \E u \in Threads : d \in Owned'[u]
    <3>1. CASE d = c
      BY <3>1, <1>1
    <3>2. CASE d # c
      <4>1. state[d] = "initializing"
        BY <3>2, <2>3, <1>2
      <4>2. PICK u \in Threads : d \in Owned[u]
        BY <4>1, <2>3 DEF Rest, Owners
      <4>3. d \in Owned'[u]
        BY <4>2, <1>1
      <4> QED  BY <4>3
    <3> QED  BY <3>1, <3>2
  <2> QED  BY <2>1, <2>2, <2>3 DEF Owners
<1>6. Chain'
  <2> SUFFICES ASSUME NEW d \in Classes, NEW a \in Ancestors[d],
                      state'[d] # "no"
               PROVE  \/ Initialized(a)'
                      \/ /\ state'[a] = "initializing"
                         /\ state'[d] = "initializing"
                         /\ \A u \in Threads :
                              d \in Owned'[u] => a \in Owned'[u]
    BY DEF Chain
  <2>0. a \in Classes /\ (d = c => a # c)
    BY SuperFacts
  <2>1. CASE d = c
    <3>1. Initialized(a) \/ (state[a] = "initializing" /\ a \in Owned[t])
      BY <2>1, ReadyChain DEF Rest
    <3> QED  BY <2>0, <2>1, <3>1, <1>1, <1>2, <1>3 DEF Initialized
  <2>2. CASE d # c
    <3>1. a # c
      BY <2>2, <1>2, <1>4
    <3>2. state[d] # "no" /\ state'[d] = state[d] /\ state'[a] = state[a]
      BY <2>0, <2>2, <3>1, <1>2
    <3>3. \A u \in Threads :
            /\ d \in Owned'[u] <=> d \in Owned[u]
            /\ a \in Owned'[u] <=> a \in Owned[u]
      BY <2>2, <3>1, <1>1
    <3>4. \/ Initialized(a)
          \/ /\ state[a] = "initializing" /\ state[d] = "initializing"
             /\ \A u \in Threads : d \in Owned[u] => a \in Owned[u]
      BY <3>2 DEF Rest, Chain
    <3> QED  BY <3>2, <3>3, <3>4 DEF Initialized
  <2> QED  BY <2>1, <2>2
<1>7. Counts'
  <2> SUFFICES ASSUME NEW d \in Classes
               PROVE  /\ runs[d] <= 1 /\ (runs[d] = 1 => state'[d] # "no")
                      /\ \A u \in Threads : d \in Recs'[u] => runs[d] = 0
    BY DEF Counts
  <2>1. /\ runs[d] \in Nat /\ runs[d] <= 1 /\ (runs[d] = 1 => state[d] # "no")
        /\ \A u \in Threads : d \in Recs[u] => runs[d] = 0
    BY DEF Rest, Counts, States
  <2>2. d = c => runs[d] = 0
    BY <2>1
  <2> QED  BY <2>1, <2>2, <1>2
<1>8. Pendings'
  <2>1. \A d \in pending : d \in Classes /\ state[d] = "initializing"
    BY DEF Rest, Pendings, States
  <2>2. \A d \in pending : d # c /\ c \notin Ancestors[d]
    BY <2>1, <1>4
  <2>3. \A d \in pending : Super[d] # none => Super[d] \in Classes
    BY <2>1, SuperFacts
  <2>4. ASSUME NEW d \in pending
        PROVE  /\ state'[d] = "initializing" /\ Super[d] # none
               /\ ~Initialized(Super[d])'
    <3>1. state[d] = "initializing" /\ Super[d] # none /\ ~Initialized(Super[d])
      BY DEF Rest, Pendings
    <3> QED  BY <2>1, <2>2, <2>3, <3>1, <1>2 DEF Initialized
  <2>5. ASSUME NEW d \in pending, NEW u \in Threads, NEW a \in Ancestors[d],
               a \in Owned'[u]
        PROVE  d \in mine[u]
    <3>1. a \in Owned[u]
      BY <2>2, <2>5, <1>1
    <3> QED  BY <3>1 DEF Rest, Pendings
  <2> QED  BY <2>4, <2>5 DEF Pendings
<1>9. Bodies'
  BY DEF Rest, Bodies
<1>10. Reasons'
  <2> SUFFICES ASSUME ~child, NEW u \in Threads, NEW d \in Owned'[u],
                      NEW a \in Ancestors[d], a \in Owned'[u]
               PROVE  a \notin Silent \/ a \in pending
    BY DEF Reasons
  <2>1. CASE d \in Owned[u] /\ a \in Owned[u]
    BY <2>1 DEF Rest, Reasons
  <2>2. CASE d = c /\ u = t
    <3>1. a # c
      BY <2>2, SuperFacts
    <3>2. a \in mine[t]
      <4>1. Owned[t] = mine[t] \cup Recs[t]
        BY OwnedFacts
      <4> QED  BY <3>1, <2>2, <1>1, <4>1, ZenonT(30)
    <3> QED  BY <3>2 DEF Rest, Bodies
  <2>3. CASE a = c /\ d \in Owned[u]
    <3>1. d \in Classes /\ state[d] = "initializing"
      BY <2>3, <1>3 DEF Rest, Owners
    <3> QED  BY <2>3, <3>1, <1>4
  <2> QED  BY <2>1, <2>2, <2>3, <1>1
<1>11. Orphans'
  <2>1. \A d \in Classes : Orphan(d)' => Orphan(d)
    BY <1>1, <1>2 DEF Orphan
  <2>2. \A d \in Classes : \A a \in Ancestors[d] : a \in Classes
    BY SuperFacts
  <2> QED  BY <2>1, <2>2 DEF Rest, Orphans
<1> QED  BY <1>5, <1>6, <1>7, <1>8, <1>9, <1>10, <1>11 DEF Rest

\* Thread t records that it initializes c.
LEMMA RecordRest ==
  ASSUME States, Rest, NEW t \in Threads, NEW c \in Classes, c \in Recs[t],
         halted = "no", mine' = [mine EXCEPT ![t] = @ \cup {c}],
         UNCHANGED <<state, pending, child>>,
         \/ /\ \A u \in Threads :
                 /\ Recs'[u] = IF u = t THEN Recs[u] \ {c} ELSE Recs[u]
                 /\ Calls'[u] = IF u = t THEN Calls[u] \cup {c} ELSE Calls[u]
            /\ runs' = [runs EXCEPT ![c] = IF child THEN @ ELSE @ + 1]
            /\ halted' = "no"
         \/ /\ \A u \in Threads : Recs'[u] = Recs[u] /\ Calls'[u] = Calls[u]
            /\ runs' = runs /\ halted' # "no"
  PROVE  Rest'
<1>1. \A u \in Threads :
        mine'[u] = IF u = t THEN mine[u] \cup {c} ELSE mine[u]
  BY DEF States
<1>2. ASSUME NEW u \in Threads  PROVE  Owned'[u] = Owned[u]
  <2>1. Owned[u] = mine[u] \cup Recs[u] /\ Owned'[u] = mine'[u] \cup Recs'[u]
    BY OwnedFacts
  <2>2. CASE u = t
    <3>1. mine'[u] = mine[u] \cup {c} /\ c \in Recs[u]
      BY <2>2, <1>1
    <3>2. Recs'[u] = Recs[u] \ {c} \/ Recs'[u] = Recs[u]
      BY <2>2
    <3> QED  BY <2>1, <3>1, <3>2
  <2>3. CASE u # t
    BY <2>1, <2>3, <1>1
  <2> QED  BY <2>2, <2>3
<1>3. c \in Owned[t]
  BY OwnedFacts
<1>4. Owners' /\ Chain'
  BY <1>2 DEF Rest, Owners, Chain, Initialized
<1>5. Counts'
  <2> SUFFICES ASSUME NEW d \in Classes
               PROVE  /\ runs'[d] <= 1 /\ (runs'[d] = 1 => state[d] # "no")
                      /\ halted' = "no" => \A u \in Threads :
                                             d \in Recs'[u] => runs'[d] = 0
    BY DEF Counts
  <2>1. /\ runs[d] \in Nat /\ runs[d] <= 1 /\ (runs[d] = 1 => state[d] # "no")
        /\ \A u \in Threads : d \in Recs[u] => runs[d] = 0
    BY DEF Rest, Counts, States
  <2>2. CASE d # c \/ runs' = runs
    <3>1. runs'[d] = runs[d]
      BY <2>2 DEF States
    <3>2. halted' = "no" => \A u \in Threads : d \in Recs'[u] => d \in Recs[u]
      OBVIOUS
    <3> QED  BY <2>1, <3>1, <3>2
  <2>3. CASE d = c /\ runs' # runs
    <3>1. runs[c] = 0 /\ state[c] = "initializing"
      BY <2>1, <2>3, <1>3 DEF Rest, Owners
    <3>2. runs'[c] \in {0, 1}
      BY <2>3, <3>1 DEF States
    <3>3. \A u \in Threads : c \notin Recs'[u]
      <4>1. \A u \in Threads : u # t => c \notin Owned[u]
        BY <1>3 DEF Rest, Owners
      <4> QED  BY <2>3, <4>1, OwnedFacts
    <3> QED  BY <2>3, <3>1, <3>2, <3>3
  <2> QED  BY <2>2, <2>3
<1>6. Pendings'
  BY <1>1, <1>2 DEF Rest, Pendings, Initialized
<1>7. Bodies'
  <2> SUFFICES ASSUME halted' = "no", NEW u \in Threads, NEW d \in mine'[u]
               PROVE  d \in pending \cup Calls'[u]
    BY DEF Bodies
  <2>1. d \in mine[u] \/ (u = t /\ d = c)
    BY <1>1
  <2>2. Calls[u] \subseteq Calls'[u] /\ (u = t => c \in Calls'[u])
    OBVIOUS
  <2> QED  BY <2>1, <2>2 DEF Rest, Bodies
<1>8. Reasons' /\ Orphans'
  BY <1>2 DEF Rest, Reasons, Orphans, Orphan
<1> QED  BY <1>4, <1>5, <1>6, <1>7, <1>8 DEF Rest

\* What waits for a class, with what waits for that, is its thread's.
LEMMA FinishedFacts ==
  ASSUME States, Rest, NEW t \in Threads, NEW c \in mine[t], SuperDone(c),
         halted = "no"
  PROVE  /\ c \in Finished(c) /\ Finished(c) \subseteq mine[t]
         /\ Finished(c) \subseteq pending \cup {c}
         /\ \A d \in Finished(c) : \A a \in Ancestors[d] :
              a \in Finished(c) \/ Initialized(a)
         /\ \A d \in pending : Super[d] \in Finished(c) => d \in Finished(c)
<1>0. c \in Classes /\ c \in Owned[t]
  BY OwnedFacts DEF States
<1> DEFINE done == Finished(c)
<1>1. c \in done /\ done \subseteq pending \cup {c}
  BY DEF Finished
<1>2. \A d \in done : d # c =>
        /\ d \in pending /\ c \in Ancestors[d]
        /\ \A e \in Ancestors[d] : c \in Ancestors[e] => e \in pending
  BY DEF Finished
<1>3. \A d \in pending :
        /\ c \in Ancestors[d]
        /\ \A e \in Ancestors[d] : c \in Ancestors[e] => e \in pending
        => d \in done
  BY DEF Finished
<1> HIDE DEF done
<1>4. done \subseteq mine[t]
  BY <1>0, <1>2 DEF Rest, Pendings
<1>5. \A a \in Ancestors[c] : Initialized(a)
  <2> SUFFICES ASSUME NEW a \in Ancestors[c]  PROVE  Initialized(a)
    OBVIOUS
  <2>1. Super[c] \in Classes /\ Initialized(Super[c])
    BY <1>0, SuperFacts DEF SuperDone
  <2>2. a = Super[c] \/ a \in Ancestors[Super[c]]
    BY <1>0, SuperFacts
  <2> QED  BY <2>1, <2>2 DEF Rest, Chain, Initialized
<1>6. ASSUME NEW d \in done, NEW a \in Ancestors[d]
      PROVE  a \in done \/ Initialized(a)
  <2>1. CASE d = c
    BY <2>1, <1>5
  <2>2. CASE d # c
    <3>1. d \in Classes /\ c \in Ancestors[d]
      BY <2>2, <1>2 DEF States
    <3>2. a = c \/ a \in Ancestors[c] \/ c \in Ancestors[a]
      BY <3>1, SuperFacts
    <3>3. CASE c \in Ancestors[a]
      <4>1. a \in pending
        BY <2>2, <3>3, <1>2
      <4>2. Ancestors[a] \subseteq Ancestors[d]
        BY <3>1, SuperFacts
      <4>3. \A e \in Ancestors[a] : c \in Ancestors[e] => e \in pending
        BY <4>2, <2>2, <1>2
      <4> QED  BY <4>1, <4>3, <3>3, <1>3
    <3> QED  BY <3>2, <3>3, <1>1, <1>5
  <2> QED  BY <2>1, <2>2
<1>7. ASSUME NEW d \in pending, Super[d] \in done  PROVE  d \in done
  <2> DEFINE s == Super[d]
  <2>1. d \in Classes /\ s # none
    BY DEF Rest, Pendings, States
  <2>2. /\ s \in Ancestors[d] /\ s \in Classes
        /\ Ancestors[d] = {s} \cup Ancestors[s]
    BY <2>1, SuperFacts
  <2> HIDE DEF s
  <2>3. s \in done
    BY <1>7 DEF s
  <2>4. CASE s = c
    <3>1. \A e \in Ancestors[c] : c \notin Ancestors[e]
      BY <1>0, SuperFacts
    <3>2. c \notin Ancestors[c]
      BY <1>0, SuperFacts
    <3>3. \A e \in Ancestors[d] : c \notin Ancestors[e]
      BY <2>2, <2>4, <3>1, <3>2
    <3> QED  BY <2>2, <2>4, <3>3, <1>3
  <2>5. CASE s # c
    <3>1. s \in pending /\ c \in Ancestors[s]
      BY <2>3, <2>5, <1>2
    <3>2. \A e \in Ancestors[s] : c \in Ancestors[e] => e \in pending
      BY <2>3, <2>5, <1>2
    <3>3. \A e \in Ancestors[d] : c \in Ancestors[e] => e \in pending
      BY <2>2, <3>1, <3>2
    <3> QED  BY <2>2, <3>1, <3>3, <1>3
  <2> QED  BY <2>4, <2>5
<1>8. \A d \in done : \A a \in Ancestors[d] : a \in done \/ Initialized(a)
  BY <1>6
<1>9. \A d \in pending : Super[d] \in done => d \in done
  BY <1>7
<1> QED  BY <1>1, <1>4, <1>8, <1>9 DEF done

\* Thread t finishes c, and what waited for it.
LEMMA FinishRest ==
  ASSUME States, Rest, NEW t \in Threads, NEW c \in mine[t], SuperDone(c),
         halted = "no",
         state' = [d \in Classes |->
                     IF d \in Finished(c) THEN "initialized" ELSE state[d]],
         pending' = pending \ Finished(c),
         mine' = [mine EXCEPT ![t] = @ \ Finished(c)],
         UNCHANGED <<child, halted, runs>>, Recs[t] = {},
         \A u \in Threads : /\ Recs'[u] = Recs[u]
                            /\ Calls[u] \subseteq Calls'[u] \cup
                                 (IF u = t THEN {c} ELSE {})
  PROVE  Rest'
<1> DEFINE done == Finished(c)
<1>1. /\ c \in done /\ done \subseteq mine[t] /\ done \subseteq pending \cup {c}
      /\ \A d \in done : \A a \in Ancestors[d] : a \in done \/ Initialized(a)
      /\ \A d \in pending : Super[d] \in done => d \in done
  BY FinishedFacts
<1>2. /\ \A d \in Classes :
           state'[d] = IF d \in done THEN "initialized" ELSE state[d]
      /\ pending' = pending \ done
      /\ \A u \in Threads : mine'[u] = IF u = t THEN mine[u] \ done ELSE mine[u]
  BY DEF States
<1>3. \A u \in Threads :
        Owned[u] \subseteq Classes /\ (u # t => Owned[u] \cap done = {})
  <2>1. done \subseteq Owned[t]
    BY <1>1, OwnedFacts
  <2> QED  BY <2>1, OwnedFacts DEF Rest, Owners, States
<1> HIDE DEF done
<1>4. ASSUME NEW u \in Threads  PROVE  Owned'[u] = Owned[u] \ done
  <2>1. Owned[u] = mine[u] \cup Recs[u] /\ Owned'[u] = mine'[u] \cup Recs[u]
    BY OwnedFacts
  <2>2. CASE u = t
    <3>1. mine'[u] = mine[u] \ done /\ Recs[u] = {}
      BY <2>2, <1>2
    <3> QED  BY <2>1, <3>1
  <2>3. CASE u # t
    BY <2>1, <2>3, <1>2, <1>3
  <2> QED  BY <2>2, <2>3
<1>5. Owners'
  <2>1. \A u \in Threads : \A d \in Owned'[u] : state'[d] = "initializing"
    BY <1>2, <1>3, <1>4 DEF Rest, Owners
  <2>2. \A u, v \in Threads : \A d \in Owned'[u] : d \in Owned'[v] => u = v
    BY <1>4 DEF Rest, Owners
  <2>3. ASSUME ~child, NEW d \in Classes, state'[d] = "initializing"
        PROVE  \E u \in Threads : d \in Owned'[u]
    <3>1. d \notin done /\ state[d] = "initializing"
      BY <2>3, <1>2
    <3>2. PICK u \in Threads : d \in Owned[u]
      BY <3>1, <2>3 DEF Rest, Owners
    <3>3. d \in Owned'[u]
      BY <3>1, <3>2, <1>4
    <3> QED  BY <3>3
  <2> QED  BY <2>1, <2>2, <2>3 DEF Owners
<1>6. Chain'
  <2> SUFFICES ASSUME NEW d \in Classes, NEW a \in Ancestors[d],
                      state'[d] # "no", ~Initialized(a)'
               PROVE  /\ state'[a] = "initializing"
                      /\ state'[d] = "initializing"
                      /\ \A u \in Threads :
                           d \in Owned'[u] => a \in Owned'[u]
    BY DEF Chain
  <2>1. a \in Classes /\ a \notin done /\ ~Initialized(a)
    BY <1>2, SuperFacts DEF Initialized
  <2>2. d \notin done /\ state[d] # "no"
    BY <2>1, <1>1, <1>2
  <2>3. /\ state[a] = "initializing" /\ state[d] = "initializing"
        /\ \A u \in Threads : d \in Owned[u] => a \in Owned[u]
    BY <2>1, <2>2 DEF Rest, Chain
  <2> QED  BY <2>1, <2>2, <2>3, <1>2, <1>4
<1>7. Counts'
  BY <1>2 DEF Rest, Counts
<1>8. Pendings'
  <2> SUFFICES ASSUME NEW d \in pending, d \notin done
               PROVE  /\ state'[d] = "initializing" /\ Super[d] # none
                      /\ ~Initialized(Super[d])'
                      /\ \A u \in Threads : \A a \in Ancestors[d] :
                           a \in Owned'[u] => d \in mine'[u]
    BY <1>2 DEF Pendings
  <2>1. /\ d \in Classes /\ state[d] = "initializing" /\ Super[d] # none
        /\ ~Initialized(Super[d])
        /\ \A u \in Threads : \A a \in Ancestors[d] :
             a \in Owned[u] => d \in mine[u]
    BY DEF Rest, Pendings, States
  <2>2. Super[d] \in Classes /\ Super[d] \notin done
    BY <2>1, <1>1, SuperFacts
  <2> QED  BY <2>1, <2>2, <1>2, <1>4 DEF Initialized
<1>9. Bodies'
  <2> SUFFICES ASSUME NEW u \in Threads, NEW d \in mine'[u]
               PROVE  d \in pending' \cup Calls'[u]
    BY DEF Bodies
  <2>1. d \in mine[u] /\ d \in pending \cup Calls[u]
    BY <1>2 DEF Rest, Bodies
  <2>2. d \notin done
    <3>1. CASE u = t
      <4>1. mine'[u] = mine[u] \ done
        BY <3>1, <1>2
      <4> QED  BY <4>1
    <3>2. CASE u # t
      <4>1. d \in Owned[u]
        BY <2>1, OwnedFacts
      <4> QED  BY <3>2, <4>1, <1>3
    <3> QED  BY <3>1, <3>2
  <2> QED  BY <2>1, <2>2, <1>1, <1>2
<1>10. Reasons'
  <2> SUFFICES ASSUME ~child, NEW u \in Threads, NEW d \in Owned'[u],
                      NEW a \in Ancestors[d], a \in Owned'[u]
               PROVE  a \notin Silent \/ a \in pending'
    BY DEF Reasons
  <2>1. d \in Owned[u] /\ a \in Owned[u] /\ a \notin done
    BY <1>4
  <2> QED  BY <2>1, <1>2 DEF Rest, Reasons
<1>11. Orphans'
  <2>1. \A d \in Classes : Orphan(d)' => Orphan(d) /\ d \notin done
    BY <1>2, <1>4 DEF Orphan
  <2>2. \A d \in Classes : \A a \in Ancestors[d] : a \in Classes
    BY SuperFacts
  <2> QED  BY <2>1, <2>2, <1>2 DEF Rest, Orphans
<1> QED  BY <1>5, <1>6, <1>7, <1>8, <1>9, <1>10, <1>11 DEF Rest

\* The superclass of c is not done: c waits for it.
LEMMA FinishAfterRest ==
  ASSUME States, Rest, NEW t \in Threads, NEW c \in mine[t], ~SuperDone(c),
         halted = "no", pending' = pending \cup {c},
         UNCHANGED <<state, mine, child, halted, runs>>,
         \A u \in Threads : /\ Recs'[u] = Recs[u]
                            /\ Calls[u] \subseteq Calls'[u] \cup
                                 (IF u = t THEN {c} ELSE {})
  PROVE  Rest'
<1>0. c \in Classes /\ c \in Owned[t] /\ state[c] = "initializing"
  BY OwnedFacts DEF States, Rest, Owners
<1>1. \A u \in Threads : Owned'[u] = Owned[u]
  BY OwnedFacts
<1>2. Owners' /\ Chain'
  BY <1>1 DEF Rest, Owners, Chain, Initialized
<1>3. Counts'
  BY DEF Rest, Counts
<1>4. Pendings'
  <2>1. Super[c] # none /\ ~Initialized(Super[c])
    BY DEF SuperDone
  <2>2. ASSUME NEW u \in Threads, NEW a \in Ancestors[c], a \in Owned[u]
        PROVE  c \in mine[u]
    <3>1. a \in Owned[t] \/ Initialized(a)
      BY <1>0 DEF Rest, Chain
    <3>2. u = t
      BY <2>2, <3>1 DEF Rest, Owners, Initialized
    <3> QED  BY <3>2
  <2> QED  BY <2>1, <2>2, <1>0, <1>1 DEF Rest, Pendings, Initialized
<1>5. Bodies'
  <2> SUFFICES ASSUME NEW u \in Threads, NEW d \in mine[u]
               PROVE  d \in pending' \cup Calls'[u]
    BY DEF Bodies
  <2> QED  BY DEF Rest, Bodies
<1>6. Reasons'
  BY <1>1 DEF Rest, Reasons
<1>7. Orphans'
  BY <1>1 DEF Rest, Orphans, Orphan
<1> QED  BY <1>2, <1>3, <1>4, <1>5, <1>6, <1>7 DEF Rest

\* The child of a fork takes over c from a thread that is gone.
LEMMA TakeRest ==
  ASSUME States, Rest, NEW t \in Threads, NEW c \in Classes, child,
         state[c] = "initializing", SuperReady(t, c), halted = "no",
         \A u \in Threads : c \notin Owned[u] /\ (u # t => Owned[u] = {}),
         mine' = [mine EXCEPT ![t] = @ \cup {c}],
         UNCHANGED <<state, pending, child, runs>>,
         \A u \in Threads : Recs'[u] = Recs[u] /\ Calls[u] \subseteq Calls'[u],
         \/ halted' # "no"
         \/ halted' = "no" /\ c \in Silent /\ c \in Calls'[t]
  PROVE  Rest' /\ c \notin pending
<1>1. \A u \in Threads :
        mine'[u] = IF u = t THEN mine[u] \cup {c} ELSE mine[u]
  BY DEF States
<1>2. ASSUME NEW u \in Threads
      PROVE  Owned'[u] = IF u = t THEN Owned[u] \cup {c} ELSE Owned[u]
  <2>1. Owned[u] = mine[u] \cup Recs[u] /\ Owned'[u] = mine'[u] \cup Recs[u]
    BY OwnedFacts
  <2>2. CASE u = t
    <3>1. mine'[u] = mine[u] \cup {c}
      BY <2>2, <1>1
    <3> QED  BY <2>1, <2>2, <3>1
  <2>3. CASE u # t
    BY <2>1, <2>3, <1>1
  <2> QED  BY <2>2, <2>3
<1>3. c \notin pending
  <2> SUFFICES ASSUME c \in pending  PROVE  FALSE
    OBVIOUS
  <2>1. Super[c] # none /\ ~Initialized(Super[c])
    BY DEF Rest, Pendings
  <2>2. Super[c] \in Owned[t] /\ Super[c] \in Ancestors[c]
    BY <2>1, SuperFacts, OwnedFacts DEF SuperReady
  <2>3. c \in mine[t]
    BY <2>2 DEF Rest, Pendings
  <2> QED  BY <2>3, OwnedFacts
<1>4. Owners'
  <2>1. ASSUME NEW u \in Threads, NEW d \in Owned'[u]
        PROVE  state[d] = "initializing" /\ u = t
    <3>1. u = t
      BY <1>2
    <3>2. d \in Owned[t] \/ d = c
      BY <3>1, <1>2
    <3> QED  BY <3>1, <3>2 DEF Rest, Owners
  <2>2. \A u, v \in Threads : \A d \in Owned'[u] : d \in Owned'[v] => u = v
    BY <2>1
  <2> QED  BY <2>1, <2>2 DEF Owners
<1>5. Chain'
  <2> SUFFICES ASSUME NEW d \in Classes, NEW a \in Ancestors[d],
                      state[d] # "no", ~Initialized(a)
               PROVE  /\ state[a] = "initializing" /\ state[d] = "initializing"
                      /\ \A u \in Threads :
                           d \in Owned'[u] => a \in Owned'[u]
    BY DEF Chain, Initialized
  <2>1. /\ state[a] = "initializing" /\ state[d] = "initializing"
        /\ \A u \in Threads : d \in Owned[u] => a \in Owned[u]
    BY DEF Rest, Chain
  <2>2. d = c => a \in Owned[t]
    BY ReadyChain DEF Rest
  <2> QED  BY <2>1, <2>2, <1>2
<1>6. Counts'
  BY DEF Rest, Counts
<1>7. Pendings'
  <2> SUFFICES ASSUME NEW d \in pending, halted' = "no", NEW u \in Threads,
                      NEW a \in Ancestors[d], a \in Owned'[u]
               PROVE  d \in mine'[u]
    BY DEF Rest, Pendings, Initialized
  <2>1. CASE a \in Owned[u]
    BY <2>1, <1>1 DEF Rest, Pendings
  <2>2. CASE a = c
    <3>1. d \in Classes /\ state[d] = "initializing"
      BY DEF Rest, Pendings, States
    <3>2. \A v \in Threads : d \notin Owned[v]
      BY <2>2, <3>1 DEF Rest, Chain, Initialized
    <3> QED  BY <2>2, <3>1, <3>2, <1>3 DEF Rest, Orphans, Orphan
  <2> QED  BY <2>1, <2>2, <1>2
<1>8. Bodies'
  <2> SUFFICES ASSUME halted' = "no", NEW u \in Threads, NEW d \in mine'[u]
               PROVE  d \in pending \cup Calls'[u]
    BY DEF Bodies
  <2>1. d \in mine[u] \/ (u = t /\ d = c)
    BY <1>1
  <2> QED  BY <2>1 DEF Rest, Bodies
<1>9. Reasons'
  BY DEF Reasons
<1>10. Orphans'
  <2>1. \A d \in Classes : Orphan(d)' => Orphan(d)
    BY <1>2 DEF Orphan
  <2>2. \A d \in Classes : \A a \in Ancestors[d] : a \in Classes
    BY SuperFacts
  <2> QED  BY <2>1, <2>2 DEF Rest, Orphans
<1> QED  BY <1>3, <1>4, <1>5, <1>6, <1>7, <1>8, <1>9, <1>10 DEF Rest

\* Of all threads only t goes on.
LEMMA ForkRest ==
  ASSUME States, Rest, NEW t \in Threads, ~child, child', halted = "no",
         UNCHANGED <<state, pending, halted, runs>>,
         mine' = [u \in Threads |-> IF u = t THEN mine[u] ELSE {}],
         \A u \in Threads : /\ Recs'[u] = IF u = t THEN Recs[u] ELSE {}
                            /\ u = t => Calls'[u] = Calls[u]
  PROVE  Rest'
<1>1. \A u \in Threads : mine'[u] = IF u = t THEN mine[u] ELSE {}
  OBVIOUS
<1>2. \A u \in Threads : Owned'[u] = IF u = t THEN Owned[u] ELSE {}
  <2>1. ASSUME NEW u \in Threads PROVE Owned'[u] = IF u = t THEN Owned[u] ELSE {}
    <3>1. Owned[u] = mine[u] \cup Recs[u] /\ Owned'[u] = mine'[u] \cup Recs'[u]
      BY ONLY OwnedFacts, u \in Threads
    <3> QED  BY <1>1, <3>1
  <2> QED  BY <2>1
<1>3. Owners' /\ Chain'
  BY <1>2 DEF Rest, Owners, Chain, Initialized
<1>4. Counts'
  BY DEF Rest, Counts
<1>5. Pendings'
  BY <1>1, <1>2 DEF Rest, Pendings, Initialized
<1>6. Bodies'
  BY <1>1 DEF Rest, Bodies
<1>7. Reasons'
  BY DEF Reasons
<1>8. Orphans'
  <2> SUFFICES ASSUME NEW d \in Classes, NEW c \in Ancestors[d],
                      state[c] = "initializing", state[d] = "initializing"
               PROVE  c \notin Silent \/ c \in pending
    BY DEF Orphans, Orphan
  <2>1. PICK u \in Threads : d \in Owned[u]
    BY DEF Rest, Owners
  <2>2. c \in Owned[u]
    BY <2>1 DEF Rest, Chain, Initialized
  <2> QED  BY <2>1, <2>2 DEF Rest, Reasons
<1> QED  BY <1>3, <1>4, <1>5, <1>6, <1>7, <1>8 DEF Rest

(***************************************************************************)
(* The frames, at each kind of step.                                       *)
(***************************************************************************)
Running == {"body", "finish"}
LowerLabels(s) == \A i \in 1 .. Len(s) - 1 : s[i].pc \in {"try", "body"}

\* A call in which another is made is at "try" or in a +initialize.
LEMMA LowerFacts ==
  ASSUME Stacks, NEW t \in Threads
  PROVE  LowerLabels(stack[t])
BY DEF Stacks, Lower, LowerLabels

\* Only the topmost call can be at the point of recording its class.
LEMMA RecsOfTop ==
  ASSUME NEW s \in Seq(FrameType), LowerLabels(s)
  PROVE  /\ s = <<>> => RecsOf(s) = {}
         /\ s # <<>> => RecsOf(s) = IF s[Len(s)].pc = "record"
                                      THEN {s[Len(s)].cls} ELSE {}
<1>1. Len(s) \in Nat /\ (s = <<>> <=> Len(s) = 0)
  BY EmptySeq, LenProperties
<1>2. CASE s = <<>>
  BY <1>1, <1>2 DEF RecsOf
<1>3. CASE s # <<>>
  <2>1. Len(s) \in 1 .. Len(s) /\ s[Len(s)] \in FrameType
    BY <1>1, <1>3
  <2>2. ASSUME NEW i \in 1 .. Len(s), s[i].pc = "record"  PROVE  i = Len(s)
    <3>1. i \notin 1 .. Len(s) - 1
      BY <2>2 DEF LowerLabels
    <3> QED  BY <1>1, <3>1
  <2>3. s[Len(s)].cls \in Classes
    BY <2>1 DEF FrameType
  <2> QED  BY <1>3, <2>1, <2>2, <2>3 DEF RecsOf
<1> QED  BY <1>2, <1>3

\* The first m frames of r stay in s.
LEMMA CallsOfStep ==
  ASSUME NEW r \in Seq(FrameType), NEW s \in Seq(FrameType), NEW m \in Nat,
         m <= Len(r), m <= Len(s), \A i \in 1 .. m : Same(r[i], s[i])
  PROVE  /\ \A c \in CallsOf(r) :
              \/ c \in CallsOf(s)
              \/ \E i \in m + 1 .. Len(r) : r[i].cls = c /\ r[i].pc \in Running
         /\ \A c \in CallsOf(s) :
              \/ c \in CallsOf(r)
              \/ \E i \in m + 1 .. Len(s) : s[i].cls = c /\ s[i].pc \in Running
<1>1. Len(r) \in Nat /\ Len(s) \in Nat
  OBVIOUS
<1>2. ASSUME NEW c \in CallsOf(r)
      PROVE  \/ c \in CallsOf(s)
             \/ \E i \in m + 1 .. Len(r) : r[i].cls = c /\ r[i].pc \in Running
  <2>1. PICK i \in 1 .. Len(r) : r[i].cls = c /\ r[i].pc \in Running
    BY DEF CallsOf, Running
  <2>2. c \in Classes
    BY DEF CallsOf
  <2>3. CASE i <= m
    <3>1. i \in 1 .. Len(s) /\ i \in 1 .. m
      BY <1>1, <2>3
    <3>2. s[i].cls = c /\ s[i].pc \in Running
      BY <2>1, <3>1 DEF Same, Running
    <3> QED  BY <2>2, <3>1, <3>2 DEF CallsOf, Running
  <2>4. CASE ~(i <= m)
    <3>1. i \in m + 1 .. Len(r)
      BY <1>1, <2>4
    <3> QED  BY <2>1, <3>1
  <2> QED  BY <2>3, <2>4
<1>3. ASSUME NEW c \in CallsOf(s)
      PROVE  \/ c \in CallsOf(r)
             \/ \E i \in m + 1 .. Len(s) : s[i].cls = c /\ s[i].pc \in Running
  <2>1. PICK i \in 1 .. Len(s) : s[i].cls = c /\ s[i].pc \in Running
    BY DEF CallsOf, Running
  <2>2. c \in Classes
    BY DEF CallsOf
  <2>3. CASE i <= m
    <3>1. i \in 1 .. Len(r) /\ i \in 1 .. m
      BY <1>1, <2>3
    <3>2. r[i].cls = c /\ r[i].pc \in Running
      BY <2>1, <3>1 DEF Same, Running
    <3> QED  BY <2>2, <3>1, <3>2 DEF CallsOf, Running
  <2>4. CASE ~(i <= m)
    <3>1. i \in m + 1 .. Len(s)
      BY <1>1, <2>4
    <3> QED  BY <2>1, <3>1
  <2> QED  BY <2>3, <2>4
<1> QED  BY <1>2, <1>3

\* What Kept says of each thread
LEMMA KeptSame ==
  ASSUME StackType, NEW t \in Threads, NEW m, Kept(t, m), NEW u \in Threads
  PROVE  /\ stack[u] \in Seq(FrameType) /\ stack'[u] \in Seq(FrameType)
         /\ Len(stack[u]) \in Nat /\ Len(stack'[u]) \in Nat
         /\ m \in Nat /\ m <= Len(stack[t]) /\ m <= Len(stack'[t])
         /\ u # t => /\ Len(stack'[u]) = Len(stack[u])
                     /\ \A i \in 1 .. Len(stack[u]) :
                          Same(stack[u][i], stack'[u][i])
         /\ u = t => \A i \in 1 .. m : Same(stack[t][i], stack'[t][i])
<1>1. stack[u] \in Seq(FrameType) /\ stack'[u] \in Seq(FrameType)
  BY DEF Kept, StackType
<1>2. stack[t] \in Seq(FrameType)
  BY DEF StackType
<1>3. m \in Nat /\ m <= Len(stack[t]) /\ m <= Len(stack'[t])
  BY DEF Kept
<1>4. ASSUME u # t
      PROVE  /\ Len(stack'[u]) = Len(stack[u])
             /\ \A i \in 1 .. Len(stack[u]) : Same(stack[u][i], stack'[u][i])
  BY <1>4 DEF Kept
<1>5. ASSUME NEW i \in 1 .. m  PROVE  Same(stack[t][i], stack'[t][i])
  <2>1. i \in 1 .. Len(stack[t]) /\ i <= m
    BY <1>2, <1>3
  <2> QED  BY <2>1 DEF Kept
<1> QED  BY <1>1, <1>3, <1>4, <1>5

LEMMA SameClasses ==
  ASSUME NEW r, NEW s, Len(s) = Len(r), \A i \in 1 .. Len(r) : Same(r[i], s[i])
  PROVE  RecsOf(s) = RecsOf(r) /\ CallsOf(s) = CallsOf(r)
<1>1. ASSUME NEW i \in 1 .. Len(r)
      PROVE  /\ s[i].cls = r[i].cls
             /\ s[i].pc = "record" <=> r[i].pc = "record"
             /\ s[i].pc \in {"body", "finish"} <=> r[i].pc \in {"body", "finish"}
  BY DEF Same
<1>2. RecsOf(s) = RecsOf(r)
  BY ONLY <1>1, Len(s) = Len(r) DEF RecsOf
<1>3. CallsOf(s) = CallsOf(r)
  BY ONLY <1>1, Len(s) = Len(r) DEF CallsOf
<1> QED  BY <1>2, <1>3

\* The classes of the frames of the other threads stay.
LEMMA OthersFrames ==
  ASSUME StackType, Stacks, NEW t \in Threads, NEW m, Kept(t, m),
         NEW u \in Threads, u # t
  PROVE  Recs'[u] = Recs[u] /\ Calls'[u] = Calls[u]
<1>1. /\ stack[u] \in Seq(FrameType) /\ stack'[u] \in Seq(FrameType)
      /\ Len(stack[u]) \in Nat /\ Len(stack'[u]) = Len(stack[u])
      /\ \A i \in 1 .. Len(stack[u]) : Same(stack[u][i], stack'[u][i])
  BY KeptSame
<1>2. RecsOf(stack'[u]) = RecsOf(stack[u]) /\ CallsOf(stack'[u]) = CallsOf(stack[u])
  BY ONLY <1>1, SameClasses
<1> QED  BY <1>2 DEF Recs, Calls

\* Frames come and go that are not of a class t initializes.
LEMMA QuietFrames ==
  ASSUME StackType, Stacks, NEW t \in Threads, NEW m, Kept(t, m),
         LowerLabels(stack'[t]),
         \A i \in m + 1 .. Len(stack[t]) : stack[t][i].pc \notin Owning,
         \A i \in m + 1 .. Len(stack'[t]) : stack'[t][i].pc \notin Owning
  PROVE  \A u \in Threads : Recs'[u] = Recs[u] /\ Calls'[u] = Calls[u]
<1> DEFINE r == stack[t]
           s == stack'[t]
<1>1. /\ r \in Seq(FrameType) /\ s \in Seq(FrameType) /\ m \in Nat
      /\ Len(r) \in Nat /\ Len(s) \in Nat
      /\ m <= Len(r) /\ m <= Len(s) /\ \A i \in 1 .. m : Same(r[i], s[i])
  BY KeptSame
<1>2. CallsOf(r) = CallsOf(s)
  <2>1. /\ \A i \in m + 1 .. Len(r) : r[i].pc \notin Running
        /\ \A i \in m + 1 .. Len(s) : s[i].pc \notin Running
    BY DEF Running, Owning
  <2> HIDE DEF r, s
  <2>2. /\ \A c \in CallsOf(r) :
             \/ c \in CallsOf(s)
             \/ \E i \in m + 1 .. Len(r) : r[i].cls = c /\ r[i].pc \in Running
        /\ \A c \in CallsOf(s) :
             \/ c \in CallsOf(r)
             \/ \E i \in m + 1 .. Len(s) : s[i].cls = c /\ s[i].pc \in Running
    BY <1>1, CallsOfStep
  <2> QED  BY <2>1, <2>2
<1>3. RecsOf(r) = RecsOf(s)
  <2>1. \A i \in 1 .. Len(r) : r[i].pc = "record" => i \in 1 .. m
    BY <1>1 DEF Owning
  <2>2. \A i \in 1 .. Len(s) : s[i].pc = "record" => i \in 1 .. m
    BY <1>1 DEF Owning
  <2>3. 1 .. m \subseteq 1 .. Len(r) /\ 1 .. m \subseteq 1 .. Len(s)
    BY <1>1
  <2> HIDE DEF r, s
  <2>4. \A i \in 1 .. m : r[i].cls = s[i].cls /\ (r[i].pc = "record" <=> s[i].pc = "record")
    BY <1>1 DEF Same
  <2>5. RecsOf(r) \subseteq RecsOf(s)
    BY ONLY <2>1, <2>3, <2>4 DEF RecsOf
  <2>6. RecsOf(s) \subseteq RecsOf(r)
    BY ONLY <2>2, <2>3, <2>4 DEF RecsOf
  <2> QED  BY ONLY <2>5, <2>6
<1>4. \A u \in Threads : u # t => Recs'[u] = Recs[u] /\ Calls'[u] = Calls[u]
  BY OthersFrames
<1> QED  BY <1>2, <1>3, <1>4 DEF Recs, Calls

\* The topmost call goes on.
LEMMA BecomeFrames ==
  ASSUME StackType, Stacks, NEW t \in Threads, ~Idle(t), NEW f \in FrameType,
         stack' = Become(t, f), f.cls = Top(t).cls
  PROVE  /\ \A u \in Threads : u # t => /\ Recs'[u] = Recs[u]
                                        /\ Calls'[u] = Calls[u]
         /\ Recs[t] = IF Top(t).pc = "record" THEN {f.cls} ELSE {}
         /\ Recs'[t] = IF f.pc = "record" THEN {f.cls} ELSE {}
         /\ f.pc \in Running => Calls'[t] = Calls[t] \cup {f.cls}
         /\ f.pc \notin Running /\ Top(t).pc \notin Running =>
              Calls'[t] = Calls[t]
         /\ \A d \in Calls[t] : d \notin Silent \/ Top(t).pc \in Running
<1> DEFINE r == stack[t]
           s == stack'[t]
           m == Len(r) - 1
<1>1. Kept(t, m) /\ Len(s) = Len(r) /\ s[Len(s)] = f
  BY BecomeFacts
<1>2. /\ Len(r) \in Nat /\ Len(r) > 0 /\ Top(t) = r[Len(r)]
      /\ Top(t) \in FrameType
  BY TopFacts
<1>3. /\ r \in Seq(FrameType) /\ s \in Seq(FrameType) /\ m \in Nat
      /\ m <= Len(r) /\ m <= Len(s) /\ \A i \in 1 .. m : Same(r[i], s[i])
  BY <1>1, KeptSame
<1>4. LowerLabels(r)
  BY LowerFacts
<1>5. LowerLabels(s)
  BY <1>1, <1>3, <1>4 DEF LowerLabels, Same
<1>6. \A u \in Threads : u # t => Recs'[u] = Recs[u] /\ Calls'[u] = Calls[u]
  BY <1>1, OthersFrames
<1>7. r # <<>> /\ s # <<>>
  BY <1>1, <1>2, <1>3, EmptySeq
<1>8. Recs[t] = RecsOf(r) /\ Recs'[t] = RecsOf(s)
  BY DEF Recs
<1>9. Calls[t] = CallsOf(r) /\ Calls'[t] = CallsOf(s)
  BY DEF Calls
<1>10. /\ \A c \in CallsOf(r) :
            c \in CallsOf(s) \/ (c = f.cls /\ Top(t).pc \in Running)
       /\ \A c \in CallsOf(s) :
            c \in CallsOf(r) \/ (c = f.cls /\ f.pc \in Running)
  <2>1. m + 1 = Len(r) /\ m + 1 = Len(s)
    BY <1>1, <1>2
  <2>2. /\ \A i \in m + 1 .. Len(r) : r[i] = Top(t)
        /\ \A i \in m + 1 .. Len(s) : s[i] = f
    BY <1>1, <1>2, <2>1
  <2> HIDE DEF r, s, m
  <2>3. /\ \A c \in CallsOf(r) :
             \/ c \in CallsOf(s)
             \/ \E i \in m + 1 .. Len(r) : r[i].cls = c /\ r[i].pc \in Running
        /\ \A c \in CallsOf(s) :
             \/ c \in CallsOf(r)
             \/ \E i \in m + 1 .. Len(s) : s[i].cls = c /\ s[i].pc \in Running
    BY <1>3, CallsOfStep
  <2> QED  BY <2>2, <2>3
<1>11. f.pc \in Running => f.cls \in CallsOf(s)
  BY <1>1, <1>2 DEF CallsOf, Running, FrameType
<1>12. ASSUME NEW d \in CallsOf(r), d \in Silent  PROVE  Top(t).pc \in Running
  <2>1. PICK i \in 1 .. Len(r) : r[i].cls = d /\ r[i].pc \in Running
    BY DEF CallsOf, Running
  <2>2. CASE i = Len(r)
    BY <2>1, <2>2, <1>2
  <2>3. CASE i # Len(r)
    <3>1. i \in 1 .. Len(r) - 1
      BY <1>2, <2>3
    <3>2. Lower(t, i)
      BY <3>1 DEF Stacks
    <3> QED  BY <2>1, <3>2, <1>12 DEF Lower, Running
  <2> QED  BY <2>2, <2>3
<1> HIDE DEF r, s, m
<1>13. /\ RecsOf(r) = IF Top(t).pc = "record" THEN {f.cls} ELSE {}
       /\ RecsOf(s) = IF f.pc = "record" THEN {f.cls} ELSE {}
  BY <1>1, <1>2, <1>3, <1>4, <1>5, <1>7, RecsOfTop
<1>14. /\ f.pc \in Running => CallsOf(s) = CallsOf(r) \cup {f.cls}
       /\ f.pc \notin Running /\ Top(t).pc \notin Running =>
            CallsOf(s) = CallsOf(r)
  <2>1. CASE f.pc \in Running
    <3>1. CallsOf(s) \subseteq CallsOf(r) \cup {f.cls}
      BY <1>10
    <3>2. CallsOf(r) \subseteq CallsOf(s) \cup {f.cls}
      BY <1>10
    <3> QED  BY <2>1, <3>1, <3>2, <1>11
  <2>2. CASE f.pc \notin Running
    BY <2>2, <1>10
  <2> QED  BY <2>1, <2>2
<1> QED  BY <1>6, <1>8, <1>9, <1>12, <1>13, <1>14

\* The frame of class c at p of thread u is there before and after.
Stays(t, m, u, c, p) ==
  \E i \in 1 .. Len(stack[u]) :
    (u # t \/ i <= m) /\ stack[u][i].cls = c /\ stack[u][i].pc = p

\* The frames stay in order if the new ones are, and the old ones may still rely
\* on what they did.
LEMMA StacksStep ==
  ASSUME StackType, Stacks, NEW t \in Threads, NEW m, Kept(t, m),
         \A u \in Threads, c \in Classes :
           u # t /\ SuperReady(u, c) => SuperReady(u, c)',
         \A u \in Threads, c \in Classes, p \in Labels :
           Stays(t, m, u, c, p) /\ FrameOK(u, c, p) => FrameOK(u, c, p)',
         \A i \in m + 1 .. Len(stack'[t]) : \A c \in Classes, p \in Labels :
           c = stack'[t][i].cls /\ p = stack'[t][i].pc => FrameOK(t, c, p)',
         \A i \in 1 .. Len(stack'[t]) - 1 : i >= m => Lower(t, i)',
         TopReady(t)',
         \A i \in 1 .. Len(stack'[t]), j \in m + 1 .. Len(stack'[t]) :
           /\ stack'[t][i].pc \in Owning /\ stack'[t][j].pc \in Owning
           /\ stack'[t][i].cls = stack'[t][j].cls
           => i = j
  PROVE  Stacks'
<1>1. ASSUME NEW u \in Threads, NEW i \in 1 .. Len(stack'[u]),
             NEW c \in Classes, NEW p \in Labels,
             c = stack'[u][i].cls, p = stack'[u][i].pc
      PROVE  FrameOK(u, c, p)'
  <2>1. CASE u = t /\ i > m
    <3>1. i \in m + 1 .. Len(stack'[t])
      BY <2>1, KeptSame
    <3> QED  BY <1>1, <2>1, <3>1
  <2>2. CASE u # t \/ i <= m
    <3>1. i \in 1 .. Len(stack[u]) /\ Same(stack[u][i], stack'[u][i])
      BY <2>2, KeptSame
    <3>2. PICK q \in Labels : stack[u][i].pc = q
      <4>1. stack[u][i] \in FrameType
        BY <3>1, KeptSame
      <4> QED  BY <4>1 DEF FrameType
    <3>3. FrameOK(u, stack[u][i].cls, stack[u][i].pc)
      BY <3>1 DEF Stacks
    <3>4. stack[u][i].cls = c
      BY <1>1, <3>1 DEF Same
    <3>5. FrameOK(u, c, q) /\ Stays(t, m, u, c, q)
      BY <2>2, <3>1, <3>2, <3>3, <3>4 DEF Stays
    <3>6. FrameOK(u, c, q)'
      BY <3>2, <3>5
    <3>7. p = q \/ (q = "asleep" /\ p = "wait")
      BY <1>1, <3>1, <3>2 DEF Same
    <3> QED  BY <3>6, <3>7 DEF FrameOK, Owning
  <2> QED  BY <2>1, <2>2, KeptSame
<1>2. ASSUME NEW u \in Threads, NEW i \in 1 .. Len(stack'[u]) - 1
      PROVE  Lower(u, i)'
  <2>1. CASE u = t /\ i >= m
    BY <2>1
  <2>2. CASE u # t \/ i < m
    <3>1. /\ i \in 1 .. Len(stack[u]) - 1 /\ Same(stack[u][i], stack'[u][i])
          /\ Same(stack[u][i + 1], stack'[u][i + 1])
      <4>1. CASE u # t
        <5>1. Len(stack'[u]) = Len(stack[u]) /\ Len(stack[u]) \in Nat
          BY <4>1, KeptSame
        <5>2. i \in 1 .. Len(stack[u]) /\ i + 1 \in 1 .. Len(stack[u])
          BY <5>1
        <5> QED  BY <4>1, <5>1, <5>2, KeptSame
      <4>2. CASE u = t
        <5>1. /\ m \in Nat /\ m <= Len(stack[t]) /\ i < m
              /\ Len(stack[t]) \in Nat
          BY <2>2, <4>2, KeptSame
        <5>2. i \in 1 .. m /\ i + 1 \in 1 .. m /\ i \in 1 .. Len(stack[t]) - 1
          BY <5>1
        <5> QED  BY <4>2, <5>2, KeptSame
      <4> QED  BY <4>1, <4>2
    <3>2. Lower(u, i)
      BY <3>1 DEF Stacks
    <3> QED  BY <3>1, <3>2 DEF Lower, Same
  <2> QED  BY <2>1, <2>2, KeptSame
<1>3. ASSUME NEW u \in Threads  PROVE  TopReady(u)'
  <2>1. CASE u = t
    BY <2>1
  <2>2. CASE u # t
    <3> SUFFICES ASSUME At(u, "try")'  PROVE  SuperReady(u, Top(u).cls)'
      BY DEF TopReady
    <3>1. /\ stack[u] \in Seq(FrameType) /\ stack'[u] \in Seq(FrameType)
          /\ Len(stack[u]) \in Nat /\ Len(stack'[u]) = Len(stack[u])
          /\ \A i \in 1 .. Len(stack[u]) : Same(stack[u][i], stack'[u][i])
      BY <2>2, KeptSame
    <3>2. stack'[u] # <<>> /\ stack'[u][Len(stack[u])].pc = "try"
      BY <3>1 DEF At, Idle, Top
    <3>3. Len(stack[u]) \in 1 .. Len(stack[u]) /\ stack[u] # <<>>
      BY <3>1, <3>2, EmptySeq
    <3>4. /\ Same(stack[u][Len(stack[u])], stack'[u][Len(stack[u])])
          /\ stack[u][Len(stack[u])] \in FrameType
      BY <3>1, <3>3
    <3>5. PICK d \in Classes : d = Top(u).cls
      BY <3>4 DEF Top, FrameType
    <3>6. At(u, "try")
      BY <3>2, <3>3, <3>4 DEF At, Idle, Top, Same
    <3>7. SuperReady(u, d)
      BY <3>5, <3>6 DEF Stacks, TopReady
    <3>8. SuperReady(u, d)'
      BY <2>2, <3>7
    <3>9. Top(u).cls' = d
      BY <3>1, <3>4, <3>5 DEF Top, Same
    <3> QED  BY <3>8, <3>9 DEF SuperReady, Initialized
  <2> QED  BY <2>1, <2>2
<1>4. ASSUME NEW u \in Threads  PROVE  OwnsOnce(u)'
  <2> SUFFICES ASSUME NEW i \in 1 .. Len(stack'[u]),
                      NEW j \in 1 .. Len(stack'[u]),
                      stack'[u][i].pc \in Owning, stack'[u][j].pc \in Owning,
                      stack'[u][i].cls = stack'[u][j].cls
               PROVE  i = j
    BY DEF OwnsOnce
  <2>1. CASE u = t /\ (i > m \/ j > m)
    <3>1. i \in m + 1 .. Len(stack'[t]) \/ j \in m + 1 .. Len(stack'[t])
      BY <2>1, KeptSame
    <3> QED  BY <2>1, <3>1
  <2>2. CASE u # t \/ (i <= m /\ j <= m)
    <3>1. /\ i \in 1 .. Len(stack[u]) /\ Same(stack[u][i], stack'[u][i])
          /\ j \in 1 .. Len(stack[u]) /\ Same(stack[u][j], stack'[u][j])
      BY <2>2, KeptSame
    <3> QED  BY <3>1 DEF Stacks, OwnsOnce, Same, Owning
  <2> QED  BY <2>1, <2>2, KeptSame
<1>5. ASSUME NEW u \in Threads, NEW i \in 1 .. Len(stack'[u])
      PROVE  FrameOK(u, stack[u][i].cls, stack[u][i].pc)'
  <2>1. stack'[u][i] \in FrameType
    BY KeptSame
  <2>2. PICK c \in Classes, p \in Labels :
          c = stack'[u][i].cls /\ p = stack'[u][i].pc
    BY <2>1 DEF FrameType
  <2>3. FrameOK(u, c, p)'
    BY <1>1, <2>2
  <2> QED  BY <2>2, <2>3 DEF FrameOK, SuperReady, Initialized
<1> QED  BY <1>2, <1>3, <1>4, <1>5 DEF Stacks

LEMMA SameData ==
  ASSUME UNCHANGED <<state, mine, pending, child, halted>>,
         NEW u \in Threads, NEW c \in Classes, NEW p \in Labels
  PROVE  /\ SuperReady(u, c)' <=> SuperReady(u, c)
         /\ FrameOK(u, c, p)' <=> FrameOK(u, c, p)
BY DEF SuperReady, FrameOK, Initialized

\* The topmost call of t goes on.
LEMMA BecomeStacks ==
  ASSUME StackType, Stacks, NEW t \in Threads, ~Idle(t), NEW f \in FrameType,
         stack' = Become(t, f), f.cls = Top(t).cls,
         \A u \in Threads, c \in Classes :
           u # t /\ SuperReady(u, c) => SuperReady(u, c)',
         \A u \in Threads, c \in Classes, p \in Labels :
           Stays(t, Len(stack[t]) - 1, u, c, p) /\ FrameOK(u, c, p)
             => FrameOK(u, c, p)',
         \A c \in Classes, p \in Labels :
           c = f.cls /\ p = f.pc => FrameOK(t, c, p)',
         \A c \in Classes :
           c = f.cls /\ f.pc = "try" => SuperReady(t, c)',
         \/ f.pc \notin Owning
         \/ Top(t).pc \in Owning
         \/ \A i \in 1 .. Len(stack[t]) - 1 :
              stack[t][i].pc \in Owning => stack[t][i].cls # f.cls
  PROVE  Stacks'
<1>1. /\ Len(stack[t]) \in Nat /\ Len(stack[t]) > 0
      /\ Top(t) = stack[t][Len(stack[t])]
  BY TopFacts
<1>2. /\ Kept(t, Len(stack[t]) - 1) /\ Len(stack'[t]) = Len(stack[t])
      /\ stack'[t][Len(stack'[t])] = f
  BY BecomeFacts
<1>3. \A i \in 1 .. Len(stack[t]) - 1 : Same(stack[t][i], stack'[t][i])
  BY <1>2, KeptSame
<1>4. \A i \in Len(stack[t]) - 1 + 1 .. Len(stack'[t]) : i = Len(stack[t])
  BY <1>1, <1>2
<1>5. \A i \in Len(stack[t]) - 1 + 1 .. Len(stack'[t]) :
        \A c \in Classes, p \in Labels :
          c = stack'[t][i].cls /\ p = stack'[t][i].pc => FrameOK(t, c, p)'
  BY <1>2, <1>4
<1>6. ASSUME NEW i \in 1 .. Len(stack'[t]) - 1, i >= Len(stack[t]) - 1
      PROVE  Lower(t, i)'
  <2>1. i \in 1 .. Len(stack[t]) - 1 /\ i + 1 = Len(stack[t])
    BY <1>1, <1>2, <1>6
  <2>2. Lower(t, i) /\ Same(stack[t][i], stack'[t][i])
    BY <2>1, <1>3 DEF Stacks
  <2>3. stack[t][i + 1].cls = f.cls /\ stack'[t][i + 1] = f
    BY <2>1, <1>1, <1>2
  <2> QED  BY <2>2, <2>3 DEF Lower, Same
<1>7. TopReady(t)'
  <2> SUFFICES ASSUME At(t, "try")'  PROVE  SuperReady(t, Top(t).cls)'
    BY DEF TopReady
  <2>1. PICK c \in Classes : c = f.cls
    BY DEF FrameType
  <2>2. Top(t)' = f
    BY <1>2 DEF Top
  <2>3. SuperReady(t, c)'
    BY <2>1, <2>2 DEF At
  <2> QED  BY <2>1, <2>2, <2>3 DEF SuperReady, Initialized
<1>8. ASSUME NEW i \in 1 .. Len(stack'[t]),
             NEW j \in Len(stack[t]) - 1 + 1 .. Len(stack'[t]),
             stack'[t][i].pc \in Owning, stack'[t][j].pc \in Owning,
             stack'[t][i].cls = stack'[t][j].cls
      PROVE  i = j
  <2>1. j = Len(stack[t]) /\ stack'[t][j] = f
    BY <1>2, <1>4
  <2>2. CASE i = Len(stack[t])
    BY <2>1, <2>2
  <2>3. CASE i # Len(stack[t])
    <3>1. i \in 1 .. Len(stack[t]) - 1 /\ i \in 1 .. Len(stack[t])
      BY <1>1, <1>2, <2>3
    <3>2. stack[t][i].pc \in Owning /\ stack[t][i].cls = f.cls
      BY <1>3, <1>8, <2>1, <3>1 DEF Same, Owning
    <3>3. Top(t).pc \in Owning
      BY <1>8, <2>1, <3>1, <3>2
    <3>4. Len(stack[t]) \in 1 .. Len(stack[t])
      BY <1>1
    <3>5. OwnsOnce(t)
      BY DEF Stacks
    <3> QED  BY <1>1, <2>1, <3>1, <3>2, <3>3, <3>4, <3>5 DEF OwnsOnce
  <2> QED  BY <2>2, <2>3
<1> HIDE DEF Lower, TopReady
<1> QED  BY <1>2, <1>5, <1>6, <1>7, <1>8, StacksStep

\* The topmost call of t goes on, and nothing else changes.
LEMMA BecomeQuiet ==
  ASSUME StackType, Stacks, NEW t \in Threads, ~Idle(t), NEW f \in FrameType,
         stack' = Become(t, f), f.cls = Top(t).cls,
         UNCHANGED <<state, mine, pending, child, halted>>,
         FrameOK(t, f.cls, f.pc),
         f.pc = "try" => SuperReady(t, f.cls),
         f.pc \notin Owning \/ Top(t).pc \in Owning
  PROVE  Stacks'
<1>1. \A u \in Threads, c \in Classes :
        u # t /\ SuperReady(u, c) => SuperReady(u, c)'
  BY SameData DEF Labels
<1>2. \A u \in Threads, c \in Classes, p \in Labels :
        Stays(t, Len(stack[t]) - 1, u, c, p) /\ FrameOK(u, c, p)
          => FrameOK(u, c, p)'
  BY SameData
<1>3. ASSUME NEW c \in Classes, NEW p \in Labels, c = f.cls, p = f.pc
      PROVE  FrameOK(t, c, p)'
  BY <1>3, SameData
<1>4. ASSUME NEW c \in Classes, c = f.cls, f.pc = "try"
      PROVE  SuperReady(t, c)'
  BY <1>4, SameData DEF Labels
<1> QED  BY <1>1, <1>2, <1>3, <1>4, BecomeStacks

\* Calls of t end.
LEMMA LeftStacks ==
  ASSUME StackType, Stacks, NEW t \in Threads, ~Idle(t), NEW m, Kept(t, m),
         Len(stack'[t]) = m,
         \A u \in Threads, c \in Classes :
           u # t /\ SuperReady(u, c) => SuperReady(u, c)',
         \A u \in Threads, c \in Classes, p \in Labels :
           Stays(t, m, u, c, p) /\ FrameOK(u, c, p) => FrameOK(u, c, p)',
         \/ m = Len(stack[t]) - 1
         \/ m > 0 => stack[t][m].pc = "body",
         \A c \in Classes : c = Top(t).cls =>
           state'[c] = "initialized" \/ c \in mine'[t]
  PROVE  Stacks'
<1>1. /\ stack[t] \in Seq(FrameType) /\ stack'[t] \in Seq(FrameType)
      /\ Len(stack[t]) \in Nat /\ m \in Nat /\ m <= Len(stack[t])
      /\ \A i \in 1 .. m : Same(stack[t][i], stack'[t][i])
  BY KeptSame
<1>2. TopReady(t)'
  <2> SUFFICES ASSUME At(t, "try")'  PROVE  SuperReady(t, Top(t).cls)'
    BY DEF TopReady
  <2>1. m > 0 /\ Top(t)' = stack'[t][m] /\ stack'[t][m].pc = "try"
    BY <1>1, EmptySeq DEF At, Idle, Top
  <2>2. m \in 1 .. m
    BY <1>1, <2>1
  <2>3. stack[t][m].pc = "try" /\ stack'[t][m].cls = stack[t][m].cls
    BY <1>1, <2>1, <2>2 DEF Same
  <2>4. m = Len(stack[t]) - 1
    BY <2>1, <2>3
  <2>5. m \in 1 .. Len(stack[t]) - 1 /\ m + 1 = Len(stack[t])
    BY <1>1, <2>2, <2>4
  <2>6. Lower(t, m)
    BY <2>5 DEF Stacks
  <2>7. /\ Super[stack[t][m].cls] # none
        /\ Top(t).cls = Super[stack[t][m].cls]
    BY <2>3, <2>5, <2>6 DEF Lower, Top
  <2>8. PICK c \in Classes : c = Super[stack[t][m].cls]
    <3>1. Top(t) \in FrameType
      BY TopFacts
    <3> QED  BY <2>7, <3>1 DEF FrameType
  <2>9. state'[c] = "initialized" \/ c \in mine'[t]
    BY <2>7, <2>8
  <2>10. Super[Top(t)'.cls] = c
    BY <2>1, <2>3, <2>8
  <2> QED  BY <2>9, <2>10 DEF SuperReady, Initialized
<1>3. \A i \in m + 1 .. Len(stack'[t]) : FALSE
  BY <1>1
<1>4. \A i \in 1 .. Len(stack'[t]) - 1 : i < m
  BY <1>1
<1> QED  BY <1>1, <1>2, <1>3, <1>4, StacksStep

\* A call returns, and nothing else changes.
LEMMA ReturnStacks ==
  ASSUME StackType, Stacks, NEW t \in Threads, ~Idle(t), Return(t),
         UNCHANGED <<state, mine, pending, child, halted>>,
         Initialized(Top(t).cls) \/ Top(t).cls \in mine[t]
  PROVE  Stacks'
<1>1. Kept(t, Len(stack[t]) - 1) /\ Len(stack'[t]) = Len(stack[t]) - 1
  BY ReturnFacts
<1>2. \A u \in Threads, c \in Classes :
        u # t /\ SuperReady(u, c) => SuperReady(u, c)'
  BY SameData DEF Labels
<1>3. \A u \in Threads, c \in Classes, p \in Labels :
        Stays(t, Len(stack[t]) - 1, u, c, p) /\ FrameOK(u, c, p)
          => FrameOK(u, c, p)'
  BY SameData
<1>4. \A c \in Classes : c = Top(t).cls =>
        state'[c] = "initialized" \/ c \in mine'[t]
  BY DEF Initialized
<1> QED  BY <1>1, <1>2, <1>3, <1>4, LeftStacks

(***************************************************************************)
(* Every step preserves the invariant.                                     *)
(***************************************************************************)
LEMMA InvFacts ==
  ASSUME Inv
  PROVE  /\ TypeOK /\ StackType /\ States /\ Stacks /\ Processes /\ Rest
         /\ Owners /\ Chain /\ halted # "fatal"
BY DEF Inv, Rest, TypeOK, StackType, States

\* A thread of the process takes a step.
LEMMA ProcessesStep ==
  ASSUME StackType, Processes, NEW t \in alive, NEW m, Kept(t, m),
         UNCHANGED <<child, alive>>, t \in Threads,
         \A u \in Threads : u # t => mine'[u] = mine[u]
  PROVE  Processes'
<1>1. ASSUME NEW u \in Threads \ alive  PROVE  stack'[u] = <<>> /\ mine'[u] = {}
  <2>1. stack[u] = <<>> /\ mine[u] = {} /\ u # t
    BY DEF Processes
  <2>2. Len(stack'[u]) = Len(stack[u]) /\ stack'[u] \in Seq(FrameType)
    BY <2>1, KeptSame
  <2>3. Len(stack[u]) = 0
    BY <2>1
  <2>4. stack'[u] = <<>>
    BY <2>2, <2>3, EmptySeq
  <2> QED  BY <2>1, <2>4
<1> QED  BY <1>1 DEF Processes

\* Calls of no class that t initializes come and go.
LEMMA QuietInv ==
  ASSUME Inv, NEW t \in Threads, t \in alive, NEW m, Kept(t, m), Stacks',
         UNCHANGED <<state, mine, pending, child, alive, halted, runs>>,
         sent' \in [Threads -> Nat],
         \A i \in m + 1 .. Len(stack[t]) : stack[t][i].pc \notin Owning,
         \A i \in m + 1 .. Len(stack'[t]) : stack'[t][i].pc \notin Owning
  PROVE  Inv'
<1>1. LowerLabels(stack'[t])
  BY DEF Stacks, Lower, LowerLabels
<1>2. \A u \in Threads : Recs'[u] = Recs[u] /\ Calls'[u] = Calls[u]
  BY <1>1, InvFacts, QuietFrames
<1>3. Rest'
  BY <1>2, InvFacts, QuietRest
<1>4. Processes'
  BY InvFacts, ProcessesStep
<1>5. TypeOK'
  BY InvFacts DEF TypeOK, Kept
<1> QED  BY <1>3, <1>4, <1>5, InvFacts DEF Inv

\* The topmost call of t goes on, and nothing else changes.
LEMMA BecomeInv ==
  ASSUME Inv, NEW t \in Threads, t \in alive, ~Idle(t), NEW f \in FrameType,
         stack' = Become(t, f), f.cls = Top(t).cls,
         UNCHANGED <<state, mine, pending, child, alive, halted, runs, sent>>,
         FrameOK(t, f.cls, f.pc),
         f.pc = "try" => SuperReady(t, f.cls),
         \/ f.pc \notin Owning /\ Top(t).pc \notin Owning
         \/ f.pc \in Running /\ Top(t).pc \in Running
  PROVE  Inv'
<1>1. Stacks'
  BY InvFacts, BecomeQuiet DEF Owning, Running
<1>2. \A u \in Threads : Recs'[u] = Recs[u] /\ Calls'[u] = Calls[u]
  <2>1. /\ \A u \in Threads : u # t => /\ Recs'[u] = Recs[u]
                                       /\ Calls'[u] = Calls[u]
        /\ Recs[t] = IF Top(t).pc = "record" THEN {f.cls} ELSE {}
        /\ Recs'[t] = IF f.pc = "record" THEN {f.cls} ELSE {}
        /\ f.pc \in Running => Calls'[t] = Calls[t] \cup {f.cls}
        /\ f.pc \notin Running /\ Top(t).pc \notin Running =>
             Calls'[t] = Calls[t]
    BY InvFacts, BecomeFrames
  <2>2. Recs'[t] = Recs[t]
    BY <2>1 DEF Owning, Running
  <2>3. CASE f.pc \notin Owning
    BY <2>1, <2>2, <2>3 DEF Owning, Running
  <2>4. CASE f.pc \in Running /\ Top(t).pc \in Running
    <3>1. f.cls \in Calls[t]
      <4>1. /\ Len(stack[t]) \in 1 .. Len(stack[t])
            /\ Top(t) = stack[t][Len(stack[t])] /\ Top(t) \in FrameType
        BY InvFacts, TopFacts
      <4> QED  BY <2>4, <4>1 DEF Calls, CallsOf, Running, FrameType
    <3> QED  BY <2>1, <2>2, <2>4, <3>1
  <2> QED  BY <2>3, <2>4
<1>3. Rest'
  BY <1>2, InvFacts, QuietRest
<1>4. Kept(t, Len(stack[t]) - 1)
  BY InvFacts, BecomeFacts
<1>5. Processes'
  BY <1>4, InvFacts, ProcessesStep
<1>6. TypeOK'
  BY <1>4, InvFacts DEF TypeOK, Kept
<1> QED  BY <1>1, <1>3, <1>5, <1>6, InvFacts DEF Inv

\* The topmost call of t returns, and nothing else changes.
LEMMA ReturnInv ==
  ASSUME Inv, NEW t \in Threads, t \in alive, ~Idle(t), Return(t),
         UNCHANGED <<state, mine, pending, child, alive, halted, runs, sent>>,
         Top(t).pc \notin Owning,
         Initialized(Top(t).cls) \/ Top(t).cls \in mine[t]
  PROVE  Inv'
<1>1. Stacks'
  BY InvFacts, ReturnStacks
<1>2. Kept(t, Len(stack[t]) - 1) /\ Len(stack'[t]) = Len(stack[t]) - 1
  BY InvFacts, ReturnFacts
<1>3. /\ Len(stack[t]) \in Nat /\ Len(stack[t]) > 0
      /\ Top(t) = stack[t][Len(stack[t])]
  BY InvFacts, TopFacts
<1>4. \A i \in Len(stack[t]) - 1 + 1 .. Len(stack[t]) :
        stack[t][i].pc \notin Owning
  <2>1. \A i \in Len(stack[t]) - 1 + 1 .. Len(stack[t]) : i = Len(stack[t])
    BY <1>3
  <2> QED  BY <2>1, <1>3
<1>5. \A i \in Len(stack[t]) - 1 + 1 .. Len(stack'[t]) :
        stack'[t][i].pc \notin Owning
  BY <1>2, <1>3
<1>6. sent' \in [Threads -> Nat]
  BY InvFacts DEF TypeOK
<1> QED  BY <1>1, <1>2, <1>4, <1>5, <1>6, QuietInv

\* A thread sends a first message to class c.
LEMMA MessageInv ==
  ASSUME Inv, NEW t \in Threads, t \in alive, NEW c \in Classes, Message(t, c)
  PROVE  Inv'
<1> DEFINE f == Frame(c, "super")
           n == Len(stack[t])
<1>1. f \in FrameType /\ f.cls = c /\ f.pc = "super"
  BY DEF Frame, FrameType, Labels
<1>2. stack' = [stack EXCEPT ![t] = Append(@, f)]
  BY DEF Message
<1> HIDE DEF f
<1>3. Kept(t, n) /\ Len(stack'[t]) = n + 1 /\ stack'[t][Len(stack'[t])] = f
  BY <1>1, <1>2, InvFacts, PushFacts
<1>4. n \in Nat /\ \A i \in n + 1 .. Len(stack'[t]) : stack'[t][i] = f
  BY <1>3, InvFacts DEF StackType
<1>5. \A u \in Threads, d \in Classes :
        u # t /\ SuperReady(u, d) => SuperReady(u, d)'
  BY SameData DEF Message, Labels
<1>6. \A u \in Threads, d \in Classes, p \in Labels :
        Stays(t, n, u, d, p) /\ FrameOK(u, d, p) => FrameOK(u, d, p)'
  BY SameData DEF Message
<1>7. \A i \in n + 1 .. Len(stack'[t]) : \A d \in Classes, p \in Labels :
        d = stack'[t][i].cls /\ p = stack'[t][i].pc => FrameOK(t, d, p)'
  BY <1>1, <1>4 DEF FrameOK, Owning
<1>8. ASSUME NEW i \in 1 .. Len(stack'[t]) - 1, i >= n
      PROVE  Lower(t, i)'
  <2>1. i = n /\ n > 0
    BY <1>3, <1>4, <1>8
  <2>2. ~Idle(t)
    BY <2>1, InvFacts DEF Idle, StackType
  <2>3. /\ Top(t).pc = "body" /\ c \in Messages[Top(t).cls]
        /\ Top(t) \in FrameType /\ Top(t) = stack[t][n]
    BY <2>2, InvFacts, TopFacts DEF Message, InProgram, MayMessage, At
  <2>4. Top(t).cls \notin Silent
    BY <2>3 DEF Silent
  <2>5. Same(stack[t][n], stack'[t][n])
    BY <1>3, <1>4, <2>1, InvFacts, KeptSame
  <2> QED  BY <2>1, <2>3, <2>4, <2>5 DEF Lower, Same
<1>9. TopReady(t)'
  BY <1>1, <1>3 DEF TopReady, At, Top
<1>10. \A i \in n + 1 .. Len(stack'[t]) : stack'[t][i].pc \notin Owning
  BY <1>1, <1>4 DEF Owning
<1>11. Stacks'
  BY <1>3, <1>5, <1>6, <1>7, <1>8, <1>9, <1>10, InvFacts, StacksStep
<1>12. \A i \in n + 1 .. Len(stack[t]) : stack[t][i].pc \notin Owning
  BY <1>4
<1>13. sent' \in [Threads -> Nat]
  BY InvFacts DEF TypeOK, Message
<1> QED  BY <1>3, <1>10, <1>11, <1>12, <1>13, QuietInv DEF Message

\* The frame on top, by the label it is at
LEMMA AtFacts ==
  ASSUME Inv, NEW t \in Threads, NEW p, At(t, p)
  PROVE  /\ ~Idle(t) /\ Top(t).pc = p /\ Top(t).cls \in Classes
         /\ Top(t) \in FrameType /\ FrameOK(t, Top(t).cls, Top(t).pc)
         /\ TopReady(t)
<1>1. ~Idle(t) /\ Top(t).pc = p
  BY DEF At
<1>2. /\ Len(stack[t]) \in Nat /\ Len(stack[t]) > 0
      /\ Top(t) = stack[t][Len(stack[t])] /\ Top(t) \in FrameType
  BY <1>1, InvFacts, TopFacts
<1>3. Len(stack[t]) \in 1 .. Len(stack[t])
  BY <1>2
<1>4. FrameOK(t, stack[t][Len(stack[t])].cls, stack[t][Len(stack[t])].pc)
  BY <1>3, InvFacts DEF Stacks
<1>5. TopReady(t)
  BY InvFacts DEF Stacks
<1> QED  BY <1>1, <1>2, <1>4, <1>5 DEF FrameType

\* The topmost frame at another label
LEMMA GotoFacts ==
  ASSUME Inv, NEW t \in Threads, NEW p, At(t, p), NEW q \in Labels
  PROVE  /\ [Top(t) EXCEPT !.pc = q] \in FrameType
         /\ [Top(t) EXCEPT !.pc = q].cls = Top(t).cls
         /\ [Top(t) EXCEPT !.pc = q].pc = q
<1>1. Top(t) \in FrameType
  BY AtFacts
<1> QED  BY <1>1 DEF FrameType

\* The topmost call moves to q, and nothing else changes.
LEMMA GotoInv ==
  ASSUME Inv, NEW t \in Threads, t \in alive, NEW p, At(t, p),
         NEW q \in Labels, Goto(t, q), p \notin Owning, q \notin Owning,
         UNCHANGED <<state, mine, pending, child, alive, halted, runs, sent>>,
         FrameOK(t, Top(t).cls, q), q = "try" => SuperReady(t, Top(t).cls)
  PROVE  Inv'
<1> DEFINE f == [Top(t) EXCEPT !.pc = q]
<1>1. f \in FrameType /\ f.cls = Top(t).cls /\ f.pc = q
  BY GotoFacts
<1>2. stack' = Become(t, f)
  BY DEF Goto
<1>3. ~Idle(t) /\ Top(t).pc = p
  BY AtFacts
<1> HIDE DEF f
<1> QED  BY <1>1, <1>2, <1>3, BecomeInv

LEMMA InitializeSuperInv ==
  ASSUME Inv, NEW t \in Threads, t \in alive, InitializeSuper(t)
  PROVE  Inv'
<1> DEFINE c == Top(t).cls
           s == Super[c]
           f == [Top(t) EXCEPT !.pc = "try"]
           g == Frame(s, "super")
           n == Len(stack[t])
<1>0. At(t, "super") /\ "try" \in Labels
  BY DEF InitializeSuper, Labels
<1>1. f \in FrameType /\ f.cls = c /\ f.pc = "try"
  BY <1>0, GotoFacts
<1>2. /\ ~Idle(t) /\ Top(t).pc = "super" /\ c \in Classes
      /\ FrameOK(t, c, "super")
  BY <1>0, AtFacts
<1>3. CASE ~(s # none /\ ~Initialized(s))
  <2>1. stack' = Become(t, f)
    BY <1>3 DEF InitializeSuper
  <2>2. SuperReady(t, c)
    BY <1>3 DEF SuperReady
  <2>3. FrameOK(t, c, "try")
    BY DEF FrameOK, Owning
  <2> HIDE DEF f
  <2> QED  BY <1>1, <1>2, <2>1, <2>2, <2>3, BecomeInv
                DEF InitializeSuper, Owning
<1>4. CASE s # none /\ ~Initialized(s)
  <2>1. s \in Classes
    BY <1>2, <1>4, SuperFacts
  <2>2. g \in FrameType /\ g.cls = s /\ g.pc = "super"
    BY <2>1 DEF Frame, FrameType, Labels
  <2>3. stack' = [Become(t, f) EXCEPT ![t] = Append(@, g)]
    BY <1>4 DEF InitializeSuper
  <2> HIDE DEF f, g
  <2>4. /\ Kept(t, n - 1) /\ Len(stack'[t]) = n + 1
        /\ stack'[t][n] = f /\ stack'[t][n + 1] = g
    <3>1. StackType /\ ~Idle(t) /\ f \in FrameType /\ g \in FrameType
      BY <1>1, <1>2, <2>2, InvFacts
    <3>2. /\ Kept(t, Len(stack[t]) - 1) /\ Len(stack'[t]) = Len(stack[t]) + 1
          /\ stack'[t][Len(stack[t])] = f /\ stack'[t][Len(stack[t]) + 1] = g
      BY <3>1, <2>3, BecomePushFacts
    <3> QED  BY <3>2
  <2>5. n \in Nat /\ n > 0 /\ Top(t) = stack[t][n]
    BY <1>2, InvFacts, TopFacts
  <2>6. \A i \in n - 1 + 1 .. Len(stack'[t]) : i = n \/ i = n + 1
    BY <2>4, <2>5
  <2>7. \A u \in Threads, d \in Classes :
          u # t /\ SuperReady(u, d) => SuperReady(u, d)'
    BY SameData DEF InitializeSuper, Labels
  <2>8. \A u \in Threads, d \in Classes, p \in Labels :
          Stays(t, n - 1, u, d, p) /\ FrameOK(u, d, p) => FrameOK(u, d, p)'
    BY SameData DEF InitializeSuper
  <2>9. \A i \in n - 1 + 1 .. Len(stack'[t]) : \A d \in Classes, p \in Labels :
          d = stack'[t][i].cls /\ p = stack'[t][i].pc => FrameOK(t, d, p)'
    BY <1>1, <2>2, <2>4, <2>6 DEF FrameOK, Owning
  <2>10. ASSUME NEW i \in 1 .. Len(stack'[t]) - 1, i >= n - 1
         PROVE  Lower(t, i)'
    <3>1. CASE i = n
      <4>1. stack'[t][i] = f /\ stack'[t][i + 1] = g
        BY <2>4, <3>1
      <4> QED  BY <1>1, <1>4, <2>2, <4>1 DEF Lower
    <3>2. CASE i = n - 1
      <4>1. i \in 1 .. n - 1 /\ i + 1 = n
        BY <2>5, <3>2
      <4>2. Lower(t, i)
        BY <4>1, InvFacts DEF Stacks
      <4>3. Same(stack[t][i], stack'[t][i])
        BY <2>4, <4>1, InvFacts, KeptSame
      <4>4. stack'[t][i + 1] = f /\ stack[t][i + 1].cls = f.cls
        BY <1>1, <2>4, <2>5, <4>1
      <4> QED  BY <4>2, <4>3, <4>4 DEF Lower, Same
    <3> QED  BY <2>4, <2>5, <2>10, <3>1, <3>2
  <2>11. TopReady(t)'
    BY <2>2, <2>4 DEF TopReady, At, Top
  <2>12. \A i \in n - 1 + 1 .. Len(stack'[t]) : stack'[t][i].pc \notin Owning
    BY <1>1, <2>2, <2>4, <2>6 DEF Owning
  <2>13. Stacks'
    BY <2>4, <2>7, <2>8, <2>9, <2>10, <2>11, <2>12, InvFacts, StacksStep
  <2>14. \A i \in n - 1 + 1 .. Len(stack[t]) : stack[t][i].pc \notin Owning
    <3>1. \A i \in n - 1 + 1 .. Len(stack[t]) : i = n
      BY <2>5
    <3> QED  BY <1>2, <2>5, <3>1 DEF Owning
  <2>15. sent' \in [Threads -> Nat]
    BY InvFacts DEF TypeOK, InitializeSuper
  <2> QED  BY <2>4, <2>12, <2>13, <2>14, <2>15, QuietInv DEF InitializeSuper
<1> QED  BY <1>3, <1>4

LEMMA BodyDoneInv ==
  ASSUME Inv, NEW t \in Threads, t \in alive, BodyDone(t)
  PROVE  Inv'
<1>1. PICK thrown \in BOOLEAN :
        stack' = Become(t, [Top(t) EXCEPT !.pc = "finish", !.thrown = thrown])
  BY DEF BodyDone
<1> DEFINE f == [Top(t) EXCEPT !.pc = "finish", !.thrown = thrown]
<1>2. /\ ~Idle(t) /\ Top(t).pc = "body" /\ Top(t) \in FrameType
      /\ FrameOK(t, Top(t).cls, "body")
  BY AtFacts DEF BodyDone
<1>3. f \in FrameType /\ f.cls = Top(t).cls /\ f.pc = "finish"
  BY <1>2 DEF FrameType, Labels
<1>4. FrameOK(t, Top(t).cls, "finish")
  BY <1>2 DEF FrameOK, Owning
<1> HIDE DEF f
<1>5. stack' = Become(t, f)
  BY <1>1 DEF f
<1> QED  BY <1>2, <1>3, <1>4, <1>5, BecomeInv DEF BodyDone, Running

LEMMA DecideInv ==
  ASSUME Inv, NEW t \in Threads, t \in alive, halted = "no", Decide(t)
  PROVE  Inv'
<1>1. CASE At(t, "decide")
  <2> DEFINE q == IF state[Top(t).cls] = "initializing" THEN "owner"
                                                         ELSE "decided"
  <2>1. /\ Goto(t, q) /\ UNCHANGED halted
        /\ UNCHANGED <<state, mine, pending, child, alive, runs, sent>>
    BY <1>1 DEF Decide, At
  <2>2. FrameOK(t, Top(t).cls, "decide") /\ Top(t).cls \in Classes
    BY <1>1, AtFacts
  <2>3. FrameOK(t, Top(t).cls, q)
    BY <2>2, InvFacts DEF FrameOK, Owning, Initialized, States
  <2>4. q \in Labels /\ q \notin Owning /\ q # "try"
    BY DEF Labels, Owning
  <2> HIDE DEF q
  <2> QED  BY <1>1, <2>1, <2>3, <2>4, GotoInv DEF Owning
<1>2. CASE At(t, "decided")
  <2>1. /\ ~Idle(t) /\ Top(t).pc = "decided" /\ Initialized(Top(t).cls)
    BY <1>2, AtFacts DEF FrameOK
  <2>2. /\ Return(t) /\ UNCHANGED halted
        /\ UNCHANGED <<state, mine, pending, child, alive, runs, sent>>
    BY <1>2, <2>1 DEF Decide, At
  <2> QED  BY <2>1, <2>2, ReturnInv DEF Owning
<1> QED  BY <1>1, <1>2 DEF Decide

LEMMA OwnedByThisThreadInv ==
  ASSUME Inv, NEW t \in Threads, t \in alive, OwnedByThisThread(t)
  PROVE  Inv'
<1>1. ~Idle(t) /\ Top(t).pc = "owner"
  BY AtFacts DEF OwnedByThisThread
<1> QED  BY <1>1, ReturnInv DEF OwnedByThisThread, Owning

LEMMA OwnedByOtherThreadInv ==
  ASSUME Inv, NEW t \in Threads, t \in alive, OwnedByOtherThread(t)
  PROVE  Inv'
<1>1. At(t, "owner") /\ FrameOK(t, Top(t).cls, "owner")
  BY AtFacts DEF OwnedByOtherThread
<1>2. FrameOK(t, Top(t).cls, "wait")
  BY <1>1 DEF FrameOK, Owning
<1>3. "wait" \in Labels
  BY DEF Labels
<1> QED  BY <1>1, <1>2, <1>3, GotoInv DEF OwnedByOtherThread, Owning

LEMMA WaitInv ==
  ASSUME Inv, NEW t \in Threads, t \in alive, Wait(t)
  PROVE  Inv'
<1>1. /\ At(t, "wait") /\ ~Idle(t) /\ Top(t).pc = "wait"
      /\ FrameOK(t, Top(t).cls, "wait")
  BY AtFacts DEF Wait
<1>2. CASE Initialized(Top(t).cls)
  BY <1>1, <1>2, ReturnInv DEF Wait, Owning
<1>3. CASE ~Initialized(Top(t).cls)
  <2>1. FrameOK(t, Top(t).cls, "asleep") /\ "asleep" \in Labels
    BY <1>1 DEF FrameOK, Owning, Labels
  <2> QED  BY <1>1, <1>3, <2>1, GotoInv DEF Wait, Owning
<1> QED  BY <1>2, <1>3

LEMMA LastExists ==
  ASSUME NEW n \in Nat, NEW is, is \subseteq 1 .. n, is # {}
  PROVE  \E i \in is : \A j \in is : j <= i
<1> DEFINE above == {n - i : i \in is}
<1>1. \E m \in above : \A k \in above : m <= k
  <2>1. above \subseteq Nat
    <3>1. ASSUME NEW i \in is  PROVE  n - i \in Nat
      <4>1. i \in 1 .. n
        OBVIOUS
      <4> QED  BY <4>1
    <3> QED  BY <3>1, Zenon DEF above
  <2>2. above # {}
    OBVIOUS
  <2> HIDE DEF above
  <2>3. PICK m \in above : \A k \in above : ~(<<k, m>> \in OpToRel(<, Nat))
    BY <2>1, <2>2, WFMin, NatLessThanWellFounded
  <2>4. ASSUME NEW k \in above  PROVE  m <= k
    <3>1. k \in Nat /\ m \in Nat
      BY <2>1
    <3>2. ~(<<k, m>> \in OpToRel(<, Nat))
      BY <2>3
    <3>3. ~(k < m)
      BY <3>1, <3>2, Zenon DEF OpToRel
    <3> QED  BY <3>1, <3>3
  <2> QED  BY <2>4
<1>2. PICK i \in is : \A j \in is : n - i <= n - j
  BY <1>1
<1>3. \A j \in is : j <= i
  BY <1>2, SMT
<1> QED  BY <1>2, <1>3

\* An exception unwinds the stack to a +initialize, or leaves all calls.
LEMMA UnwoundFacts ==
  ASSUME StackType, NEW t \in Threads, ~Idle(t)
  PROVE  \E m \in Nat :
           /\ m <= Len(stack[t]) - 1
           /\ Unwound(t) \in Seq(FrameType) /\ Len(Unwound(t)) = m
           /\ \A i \in 1 .. m : Unwound(t)[i] = stack[t][i]
           /\ m > 0 => stack[t][m].pc = "body"
           /\ \A i \in m + 1 .. Len(stack[t]) - 1 : stack[t][i].pc # "body"
<1> DEFINE n == Len(stack[t]) - 1
           below == {i \in 1 .. n : stack[t][i].pc = "body"}
           m == IF below = {} THEN 0
                ELSE CHOOSE i \in below : \A j \in below : j <= i
<1>1. stack[t] \in Seq(FrameType) /\ n \in Nat
  BY TopFacts DEF StackType
<1>2. Unwound(t) = SubSeq(stack[t], 1, m)
  BY DEF Unwound
<1>3. CASE below = {}
  <2>1. m = 0
    BY <1>3
  <2>2. Unwound(t) \in Seq(FrameType) /\ Len(Unwound(t)) = 0
    <3>1. Unwound(t) = SubSeq(stack[t], 1, 0)
      BY <1>2, <2>1
    <3> QED  BY <1>1, <3>1
  <2>3. \A i \in 0 + 1 .. n : stack[t][i].pc # "body"
    BY <1>1, <1>3
  <2> QED  BY <1>1, <2>2, <2>3
<1>4. CASE below # {}
  <2>1. \E i \in below : \A j \in below : j <= i
    BY <1>1, <1>4, LastExists
  <2>2. m \in below /\ \A j \in below : j <= m
    BY <1>4, <2>1
  <2> HIDE DEF m
  <2>3. m \in Nat /\ m > 0 /\ m <= n /\ stack[t][m].pc = "body"
    BY <1>1, <2>2
  <2>4. \A i \in m + 1 .. n : stack[t][i].pc # "body"
    BY <1>1, <2>2, <2>3
  <2>5. /\ Unwound(t) \in Seq(FrameType) /\ Len(Unwound(t)) = m
        /\ \A i \in 1 .. m : Unwound(t)[i] = stack[t][i]
    BY <1>1, <1>2, <2>3
  <2> QED  BY <2>3, <2>4, <2>5
<1> QED  BY <1>3, <1>4

\* The stack when the topmost call has returned, or thrown an exception
LEMMA LeftFacts ==
  ASSUME StackType, NEW t \in Threads, ~Idle(t)
  PROVE  \E m \in Nat :
           /\ m <= Len(stack[t]) - 1
           /\ Left(t) \in [Threads -> Seq(FrameType)]
           /\ \A u \in Threads : u # t => Left(t)[u] = stack[u]
           /\ Len(Left(t)[t]) = m
           /\ \A i \in 1 .. m : Left(t)[t][i] = stack[t][i]
           /\ m = Len(stack[t]) - 1 \/ (m > 0 => stack[t][m].pc = "body")
           /\ \A i \in m + 1 .. Len(stack[t]) - 1 : stack[t][i].pc # "body"
<1>1. Len(stack[t]) \in Nat /\ Len(stack[t]) > 0
  BY TopFacts
<1>2. CASE Top(t).thrown
  <2>1. Left(t) = [stack EXCEPT ![t] = Unwound(t)]
    BY <1>2 DEF Left
  <2>2. PICK m \in Nat :
           /\ m <= Len(stack[t]) - 1
           /\ Unwound(t) \in Seq(FrameType) /\ Len(Unwound(t)) = m
           /\ \A i \in 1 .. m : Unwound(t)[i] = stack[t][i]
           /\ m > 0 => stack[t][m].pc = "body"
           /\ \A i \in m + 1 .. Len(stack[t]) - 1 : stack[t][i].pc # "body"
    BY UnwoundFacts
  <2>3. /\ Left(t) \in [Threads -> Seq(FrameType)] /\ Left(t)[t] = Unwound(t)
        /\ \A u \in Threads : u # t => Left(t)[u] = stack[u]
    BY <2>1, <2>2 DEF StackType
  <2> QED  BY <2>2, <2>3
<1>3. CASE ~Top(t).thrown
  <2>1. Left(t) = [stack EXCEPT ![t] = Popped(t)]
    BY <1>3 DEF Left
  <2>2. /\ Popped(t) \in Seq(FrameType) /\ Len(Popped(t)) = Len(stack[t]) - 1
        /\ \A i \in 1 .. Len(stack[t]) - 1 : Popped(t)[i] = stack[t][i]
    BY PoppedFacts
  <2>3. /\ Left(t) \in [Threads -> Seq(FrameType)] /\ Left(t)[t] = Popped(t)
        /\ \A u \in Threads : u # t => Left(t)[u] = stack[u]
    BY <2>1, <2>2 DEF StackType
  <2>4. /\ Len(stack[t]) - 1 \in Nat
        /\ \A i \in Len(stack[t]) - 1 + 1 .. Len(stack[t]) - 1 : FALSE
    BY <1>1
  <2>5. WITNESS Len(stack[t]) - 1 \in Nat
  <2> QED  BY <2>2, <2>3, <2>4
<1> QED  BY <1>2, <1>3

\* Waking the threads that sleep changes only their labels.
LEMMA NotifyFacts ==
  ASSUME NEW st \in [Threads -> Seq(FrameType)], NEW u \in Threads
  PROVE  /\ NotifyAll(st)[u] \in Seq(FrameType)
         /\ Len(NotifyAll(st)[u]) = Len(st[u])
         /\ \A i \in 1 .. Len(st[u]) : Same(st[u][i], NotifyAll(st)[u][i])
<1> DEFINE woken(f) == IF f.pc = "asleep" THEN [f EXCEPT !.pc = "wait"] ELSE f
<1>1. st[u] \in Seq(FrameType) /\ Len(st[u]) \in Nat
  OBVIOUS
<1>2. NotifyAll(st)[u] = [i \in 1 .. Len(st[u]) |-> woken(st[u][i])]
  BY DEF NotifyAll
<1>3. ASSUME NEW f \in FrameType  PROVE  woken(f) \in FrameType /\ Same(f, woken(f))
  BY DEF FrameType, Labels, Same
<1> HIDE DEF woken
<1>4. \A i \in 1 .. Len(st[u]) : st[u][i] \in FrameType
  BY <1>1
<1>5. [i \in 1 .. Len(st[u]) |-> woken(st[u][i])] \in Seq(FrameType)
  BY <1>1, <1>3, <1>4, IsASeq
<1> QED  BY <1>1, <1>2, <1>3, <1>4, <1>5

\* A finished call of t ends, and with an exception others with it.
LEMMA LeftKept ==
  ASSUME StackType, NEW t \in Threads, ~Idle(t),
         stack' = Left(t) \/ stack' = NotifyAll(Left(t))
  PROVE  \E m \in Nat :
           /\ Kept(t, m) /\ Len(stack'[t]) = m /\ m <= Len(stack[t]) - 1
           /\ m = Len(stack[t]) - 1 \/ (m > 0 => stack[t][m].pc = "body")
           /\ \A i \in m + 1 .. Len(stack[t]) - 1 : stack[t][i].pc # "body"
<1>1. PICK m \in Nat :
        /\ m <= Len(stack[t]) - 1
        /\ Left(t) \in [Threads -> Seq(FrameType)]
        /\ \A u \in Threads : u # t => Left(t)[u] = stack[u]
        /\ Len(Left(t)[t]) = m
        /\ \A i \in 1 .. m : Left(t)[t][i] = stack[t][i]
        /\ m = Len(stack[t]) - 1 \/ (m > 0 => stack[t][m].pc = "body")
        /\ \A i \in m + 1 .. Len(stack[t]) - 1 : stack[t][i].pc # "body"
  BY LeftFacts
<1>2. Len(stack[t]) \in Nat
  BY TopFacts
<1>3. ASSUME NEW u \in Threads
      PROVE  /\ stack'[u] \in Seq(FrameType)
             /\ Len(stack'[u]) = Len(Left(t)[u])
             /\ \A i \in 1 .. Len(Left(t)[u]) :
                  Same(Left(t)[u][i], stack'[u][i])
  <2>1. CASE stack' = Left(t)
    BY <1>1, <2>1 DEF Same
  <2>2. CASE stack' = NotifyAll(Left(t))
    BY <1>1, <2>2, NotifyFacts
  <2> QED  BY <2>1, <2>2
<1>4. stack' \in [Threads -> Seq(FrameType)]
  <2>1. stack' = [u \in Threads |-> stack'[u]]
    BY <1>1 DEF NotifyAll
  <2> QED  BY <1>3, <2>1
<1>5. ASSUME NEW u \in Threads, NEW i \in 1 .. Len(stack[u]), u # t \/ i <= m
      PROVE  Same(stack[u][i], stack'[u][i])
  <2>1. CASE u # t
    BY <1>1, <1>3, <2>1
  <2>2. CASE u = t
    <3>1. i \in 1 .. m
      BY <1>1, <1>5, <2>2
    <3> QED  BY <1>1, <1>3, <2>2, <3>1
  <2> QED  BY <2>1, <2>2
<1>6. \A u \in Threads : u # t => Len(stack'[u]) = Len(stack[u])
  BY <1>1, <1>3
<1>7. Len(stack'[t]) = m
  BY <1>1, <1>3
<1>8. Kept(t, m)
  BY <1>1, <1>2, <1>4, <1>5, <1>6, <1>7 DEF Kept
<1> QED  BY <1>1, <1>7, <1>8

LEMMA TryInv ==
  ASSUME Inv, NEW t \in Threads, t \in alive, halted = "no", Try(t)
  PROVE  Inv'
<1>0. /\ At(t, "try") /\ ~Idle(t) /\ Top(t).pc = "try" /\ Top(t).cls \in Classes
      /\ FrameOK(t, Top(t).cls, "try") /\ TopReady(t)
  BY AtFacts DEF Try
<1>1. SuperReady(t, Top(t).cls)
  BY <1>0 DEF TopReady
<1>2. CASE state[Top(t).cls] # "no"
  <2>1. FrameOK(t, Top(t).cls, "decide") /\ "decide" \in Labels
    BY <1>1, <1>2 DEF FrameOK, Owning, Labels
  <2> QED  BY <1>0, <1>2, <2>1, GotoInv DEF Try, Owning
<1>3. CASE state[Top(t).cls] = "no"
  <2> DEFINE f == [Top(t) EXCEPT !.pc = "record"]
  <2>1. /\ f \in FrameType /\ f.cls = Top(t).cls /\ f.pc = "record"
        /\ stack' = Become(t, f)
    BY <1>0, <1>3, GotoFacts DEF Try, Goto, Labels
  <2> HIDE DEF f
  <2>2. PICK c \in Classes : c = Top(t).cls
    BY <1>0
  <2>3. /\ state' = [state EXCEPT ![c] = "initializing"] /\ state[c] = "no"
        /\ UNCHANGED <<mine, pending, child, alive, halted, runs, sent>>
    BY <1>3, <2>2 DEF Try
  <2>4. \A d \in Classes :
          state'[d] = IF d = c THEN "initializing" ELSE state[d]
    BY <2>3, InvFacts DEF States
  <2>5. c \notin mine[t] /\ c \notin pending /\ c \notin Recs[t]
    BY <2>3, InvFacts, OwnedFacts DEF Rest, Owners, Pendings
  <2>6. /\ \A u \in Threads : u # t => Recs'[u] = Recs[u] /\ Calls'[u] = Calls[u]
        /\ Recs[t] = {} /\ Recs'[t] = {c} /\ Calls'[t] = Calls[t]
        /\ \A d \in Calls[t] : d \notin Silent
    <3>1. StackType /\ Stacks /\ ~Idle(t) /\ Top(t).pc = "try"
      BY <1>0, InvFacts
    <3> QED  BY ONLY <2>1, <2>2, <3>1, BecomeFrames, t \in Threads, ZenonT(30) DEF Running
  <2>7. Rest'
    <3>1. SuperReady(t, c)
      BY <1>1, <2>2
    <3>2. \A u \in Threads : /\ Recs'[u] = IF u = t THEN Recs[u] \cup {c}
                                                    ELSE Recs[u]
                             /\ Calls'[u] = Calls[u]
      BY <2>6
    <3> QED  BY <2>3, <2>6, <3>1, <3>2, InvFacts, TryRest
  <2>8. \A u \in Threads, d \in Classes : SuperReady(u, d) => SuperReady(u, d)'
    <3>1. \A d \in Classes : Super[d] # none => Super[d] \in Classes
      BY SuperFacts
    <3> QED  BY <2>3, <2>4, <3>1 DEF SuperReady, Initialized
  <2>9. ASSUME NEW u \in Threads, NEW d \in Classes, NEW p \in Labels,
               FrameOK(u, d, p)
        PROVE  FrameOK(u, d, p)'
    BY <2>3, <2>4, <2>8, <2>9 DEF FrameOK, Initialized
  <2>10. FrameOK(t, c, "record")'
    BY <1>1, <2>2, <2>3, <2>4, <2>5, <2>8 DEF FrameOK, Owning
  <2>11. ASSUME NEW i \in 1 .. Len(stack[t]) - 1, stack[t][i].pc \in Owning
         PROVE  stack[t][i].cls # f.cls
    <3>1. stack[t] \in Seq(FrameType) /\ i \in 1 .. Len(stack[t])
      BY InvFacts DEF StackType
    <3>2. FrameOK(t, stack[t][i].cls, stack[t][i].pc)
      BY <3>1, InvFacts DEF Stacks
    <3>3. stack[t][i].pc = "body"
      BY <2>11, InvFacts DEF Stacks, Lower, Owning
    <3> QED  BY <2>1, <2>2, <2>5, <3>2, <3>3 DEF FrameOK
  <2>12. Stacks'
    <3>1. \A u \in Threads, d \in Classes :
            u # t /\ SuperReady(u, d) => SuperReady(u, d)'
      BY <2>8
    <3>2. \A u \in Threads, d \in Classes, p \in Labels :
            Stays(t, Len(stack[t]) - 1, u, d, p) /\ FrameOK(u, d, p)
              => FrameOK(u, d, p)'
      BY <2>9
    <3>3. ASSUME NEW d \in Classes, NEW p \in Labels, d = f.cls, p = f.pc
          PROVE  FrameOK(t, d, p)'
      <4>1. d = c /\ p = "record"
        BY <2>1, <2>2, <3>3
      <4> QED  BY <4>1, <2>10
    <3> QED  BY <1>0, <2>1, <2>11, <3>1, <3>2, <3>3, InvFacts, BecomeStacks
  <2>13. Kept(t, Len(stack[t]) - 1)
    BY <1>0, <2>1, InvFacts, BecomeFacts
  <2>14. Processes'
    BY <2>3, <2>13, InvFacts, ProcessesStep
  <2>15. TypeOK'
    BY <2>3, <2>13, InvFacts DEF TypeOK, Kept
  <2> QED  BY <2>3, <2>7, <2>12, <2>14, <2>15, InvFacts DEF Inv
<1> QED  BY <1>2, <1>3

\* No frame changes, and what the frames rely on stays.
LEMMA SameStacks ==
  ASSUME StackType, Stacks, UNCHANGED stack,
         \A u \in Threads, c \in Classes : SuperReady(u, c) => SuperReady(u, c)',
         \A u \in Threads, c \in Classes, p \in Labels :
           FrameOK(u, c, p) => FrameOK(u, c, p)'
  PROVE  Stacks'
<1>1. ASSUME NEW u \in Threads, NEW i \in 1 .. Len(stack[u])
      PROVE  FrameOK(u, stack[u][i].cls, stack[u][i].pc)'
  <2>1. stack[u][i] \in FrameType
    BY DEF StackType
  <2>2. PICK c \in Classes, p \in Labels :
          c = stack[u][i].cls /\ p = stack[u][i].pc
    BY <2>1 DEF FrameType
  <2>3. FrameOK(u, c, p)'
    BY <2>2 DEF Stacks
  <2> QED  BY <2>2, <2>3 DEF FrameOK, SuperReady, Initialized
<1>2. ASSUME NEW u \in Threads  PROVE  TopReady(u)'
  <2> SUFFICES ASSUME At(u, "try")'  PROVE  SuperReady(u, Top(u).cls)'
    BY DEF TopReady
  <2>1. At(u, "try")
    BY DEF At, Idle, Top
  <2>2. Top(u) \in FrameType
    BY <2>1, TopFacts DEF At
  <2>3. PICK c \in Classes : c = Top(u).cls
    BY <2>2 DEF FrameType
  <2>4. SuperReady(u, c)'
    BY <2>1, <2>3 DEF Stacks, TopReady
  <2> QED  BY <2>3, <2>4 DEF Top, SuperReady, Initialized
<1>3. \A u \in Threads : OwnsOnce(u)'
  BY DEF Stacks, OwnsOnce
<1>4. \A u \in Threads : \A i \in 1 .. Len(stack[u]) - 1 : Lower(u, i)'
  BY DEF Stacks, Lower
<1> QED  BY <1>1, <1>2, <1>3, <1>4 DEF Stacks

\* The classes of the frames stay if no frame changes.
LEMMA SameFrames ==
  ASSUME UNCHANGED stack
  PROVE  Recs' = Recs /\ Calls' = Calls
BY DEF Recs, Calls

\* No thread starts or ends.
LEMMA SameProcesses ==
  ASSUME Processes, NEW t \in alive, UNCHANGED <<stack, child, alive>>,
         \A u \in Threads : u # t => mine'[u] = mine[u]
  PROVE  Processes'
BY DEF Processes

LEMMA RecordInv ==
  ASSUME Inv, NEW t \in Threads, t \in alive, halted = "no", Record(t)
  PROVE  Inv'
<1>0. /\ At(t, "record") /\ ~Idle(t) /\ Top(t).pc = "record"
      /\ Top(t).cls \in Classes /\ FrameOK(t, Top(t).cls, "record")
  BY AtFacts DEF Record
<1>1. PICK c \in Classes : c = Top(t).cls
  BY <1>0
<1>2. /\ c \notin pending /\ state[c] = "initializing" /\ c \notin mine[t]
      /\ SuperReady(t, c)
  BY <1>0, <1>1 DEF FrameOK, Owning
<1>3. mine' = [mine EXCEPT ![t] = @ \cup {c}]
  BY <1>1, <1>2 DEF Record, SetMine
<1>4. UNCHANGED <<state, pending, child, alive, sent>>
  BY DEF Record
<1>5. \A u \in Threads : mine'[u] = IF u = t THEN mine[u] \cup {c} ELSE mine[u]
  BY <1>3, InvFacts DEF States
<1>6. c \in Recs[t] /\ Recs[t] = {c}
  <2>1. stack[t] \in Seq(FrameType) /\ LowerLabels(stack[t]) /\ stack[t] # <<>>
    BY <1>0, InvFacts, LowerFacts DEF StackType, Idle
  <2> QED  BY <1>0, <1>1, <2>1, RecsOfTop DEF Recs, Top
<1>7. \A u \in Threads, d \in Classes : SuperReady(u, d) => SuperReady(u, d)'
  BY <1>4, <1>5 DEF SuperReady, Initialized
<1>8. CASE /\ Goto(t, IF child THEN "finish" ELSE "body")
           /\ runs' = [runs EXCEPT ![c] = IF child THEN @ ELSE @ + 1]
           /\ UNCHANGED halted
  <2> DEFINE q == IF child THEN "finish" ELSE "body"
             f == [Top(t) EXCEPT !.pc = q]
  <2>0. q \in Labels /\ q \in Running
    BY DEF Labels, Running
  <2>1. /\ f \in FrameType /\ f.cls = c /\ f.pc = q /\ stack' = Become(t, f)
    BY <1>0, <1>1, <1>8, <2>0, GotoFacts DEF Goto
  <2> HIDE DEF f, q
  <2>2. /\ \A u \in Threads : u # t => Recs'[u] = Recs[u] /\ Calls'[u] = Calls[u]
        /\ Recs'[t] = {} /\ Calls'[t] = Calls[t] \cup {c}
    BY <1>0, <1>1, <2>0, <2>1, InvFacts, BecomeFrames DEF Running
  <2>3. Rest'
    <3>1. \A u \in Threads :
            /\ Recs'[u] = IF u = t THEN Recs[u] \ {c} ELSE Recs[u]
            /\ Calls'[u] = IF u = t THEN Calls[u] \cup {c} ELSE Calls[u]
      BY <1>6, <2>2
    <3> QED  BY <1>3, <1>4, <1>6, <1>8, <3>1, InvFacts, RecordRest
  <2>4. ASSUME NEW u \in Threads, NEW d \in Classes, NEW p \in Labels,
               Stays(t, Len(stack[t]) - 1, u, d, p), FrameOK(u, d, p)
        PROVE  FrameOK(u, d, p)'
    <3>1. u = t => p # "record"
      <4> SUFFICES ASSUME u = t, p = "record"  PROVE  FALSE
        OBVIOUS
      <4>1. PICK i \in 1 .. Len(stack[t]) :
              i <= Len(stack[t]) - 1 /\ stack[t][i].pc = "record"
        BY <2>4 DEF Stays
      <4>2. i \in 1 .. Len(stack[t]) - 1
        BY <4>1, InvFacts, TopFacts, <1>0
      <4> QED  BY <4>1, <4>2, InvFacts, LowerFacts DEF LowerLabels
    <3> QED  BY <1>4, <1>5, <1>7, <1>8, <2>4, <3>1 DEF FrameOK, Initialized
  <2>5. ASSUME NEW d \in Classes, NEW p \in Labels, d = f.cls, p = f.pc
        PROVE  FrameOK(t, d, p)'
    <3>1. d = c /\ p \in Running
      BY <2>0, <2>1, <2>5
    <3> QED  BY <1>2, <1>4, <1>5, <1>7, <3>1 DEF FrameOK, Running
  <2>6. Stacks'
    <3>1. \A u \in Threads, d \in Classes :
            u # t /\ SuperReady(u, d) => SuperReady(u, d)'
      BY <1>7
    <3>2. \A d \in Classes : d = f.cls /\ f.pc = "try" => SuperReady(t, d)'
      BY <2>0, <2>1 DEF Running
    <3>3. Top(t).pc \in Owning
      BY <1>0 DEF Owning
    <3> QED  BY <1>0, <1>1, <2>1, <2>4, <2>5, <3>1, <3>2, <3>3, InvFacts,
                BecomeStacks
  <2>7. Kept(t, Len(stack[t]) - 1)
    BY <1>0, <2>1, <1>1, InvFacts, BecomeFacts
  <2>8. Processes'
    BY <1>4, <1>5, <2>7, InvFacts, ProcessesStep
  <2>9. TypeOK'
    <3>1. runs' \in [Classes -> Nat]
      BY <1>8, InvFacts DEF TypeOK
    <3> QED  BY <1>3, <1>4, <1>8, <2>7, <3>1, InvFacts DEF TypeOK, Kept
  <2> QED  BY <1>8, <2>3, <2>6, <2>8, <2>9, InvFacts DEF Inv
<1>9. CASE halted' = "fork" /\ UNCHANGED <<stack, runs>>
  <2>1. Rest'
    BY <1>3, <1>4, <1>6, <1>9, SameFrames, InvFacts, RecordRest
  <2>2. ASSUME NEW u \in Threads, NEW d \in Classes, NEW p \in Labels,
               FrameOK(u, d, p)
        PROVE  FrameOK(u, d, p)'
    <3>1. d \in mine[u] => d \in mine'[u]
      BY <1>5
    <3> QED  BY <1>4, <1>7, <1>9, <2>2, <3>1 DEF FrameOK, Initialized
  <2>3. Stacks'
    BY <1>7, <1>9, <2>2, InvFacts, SameStacks
  <2>4. Processes'
    BY <1>4, <1>5, <1>9, InvFacts, SameProcesses
  <2>5. TypeOK'
    BY <1>3, <1>4, <1>9, InvFacts DEF TypeOK
  <2> QED  BY <1>9, <2>1, <2>3, <2>4, <2>5 DEF Inv
<1> QED  BY <1>1, <1>2, <1>8, <1>9 DEF Record, SetMine

\* What a step that finishes c, or lets it wait, leaves of the frames
LEMMA LeftFrames ==
  ASSUME Inv, NEW t \in Threads, NEW m \in Nat, At(t, "finish"), Kept(t, m),
         NEW c, c = Top(t).cls,
         Len(stack'[t]) = m, m <= Len(stack[t]) - 1,
         \A i \in m + 1 .. Len(stack[t]) - 1 : stack[t][i].pc # "body"
  PROVE  /\ \A u \in Threads : /\ Recs'[u] = Recs[u]
                               /\ Calls[u] \subseteq Calls'[u] \cup
                                    (IF u = t THEN {c} ELSE {})
         /\ Recs[t] = {}
<1> DEFINE r == stack[t]
           s == stack'[t]
<1>1. /\ r \in Seq(FrameType) /\ s \in Seq(FrameType) /\ Len(r) \in Nat
      /\ m <= Len(r) /\ m <= Len(s) /\ \A i \in 1 .. m : Same(r[i], s[i])
  BY InvFacts, KeptSame
<1>2. Top(t) = r[Len(r)] /\ r # <<>> /\ Top(t).pc = "finish"
  BY AtFacts DEF Top, Idle
<1>3. LowerLabels(r)
  BY InvFacts, LowerFacts
<1>4. \A u \in Threads : u # t => Recs'[u] = Recs[u] /\ Calls'[u] = Calls[u]
  BY InvFacts, OthersFrames
<1>5. \A i \in m + 1 .. Len(r) :
        i = Len(r) \/ (i \in 1 .. Len(r) - 1 /\ r[i].pc # "body")
  BY <1>1
<1>6. \A i \in m + 1 .. Len(r) : r[i].pc \in Running => r[i].cls = c
  BY <1>2, <1>3, <1>5 DEF LowerLabels, Running
<1>7. \A i \in 1 .. m : s[i].pc # "record"
  <2>1. \A i \in 1 .. m : i \in 1 .. Len(r) - 1
    BY <1>1
  <2> QED  BY <1>1, <1>3, <2>1 DEF LowerLabels, Same
<1> HIDE DEF r, s
<1>8. RecsOf(r) = {}
  BY <1>1, <1>2, <1>3, RecsOfTop
<1>9. RecsOf(s) = {}
  <2>1. Len(s) = m
    BY DEF s
  <2> QED  BY <1>7, <2>1 DEF RecsOf
<1>10. CallsOf(r) \subseteq CallsOf(s) \cup {c}
  <2>1. \A d \in CallsOf(r) :
          \/ d \in CallsOf(s)
          \/ \E i \in m + 1 .. Len(r) : r[i].cls = d /\ r[i].pc \in Running
    BY <1>1, CallsOfStep
  <2> QED  BY <1>6, <2>1
<1>11. Recs[t] = RecsOf(r) /\ Recs'[t] = RecsOf(s)
  BY DEF Recs, r, s
<1>12. Calls[t] = CallsOf(r) /\ Calls'[t] = CallsOf(s)
  BY DEF Calls, r, s
<1> QED  BY <1>4, <1>8, <1>9, <1>10, <1>11, <1>12

\* No other frame below is one that initializes c.
LEMMA FinishOnce ==
  ASSUME Inv, NEW t \in Threads, At(t, "finish"), NEW c, c = Top(t).cls,
         NEW m \in Nat, m <= Len(stack[t]) - 1,
         NEW u \in Threads, NEW d \in Classes, NEW p \in Owning,
         Stays(t, m, u, d, p)
  PROVE  d # c
<1> SUFFICES ASSUME d = c  PROVE  FALSE
  OBVIOUS
<1>1. /\ Len(stack[t]) \in Nat /\ Len(stack[t]) \in 1 .. Len(stack[t])
      /\ Top(t) = stack[t][Len(stack[t])] /\ Top(t).pc = "finish"
      /\ c \in mine[t]
  <2>1. ~Idle(t) /\ Top(t).pc = "finish" /\ c \in mine[t]
    BY AtFacts DEF FrameOK
  <2> QED  BY <2>1, InvFacts, TopFacts
<1>2. PICK i \in 1 .. Len(stack[u]) :
        (u # t \/ i <= m) /\ stack[u][i].cls = c /\ stack[u][i].pc = p
  BY DEF Stays
<1>3. CASE u = t
  <2>1. i # Len(stack[t])
    BY <1>1, <1>2, <1>3
  <2>2. OwnsOnce(t)
    BY InvFacts DEF Stacks
  <2> QED  BY <1>1, <1>2, <1>3, <2>1, <2>2 DEF OwnsOnce, Owning
<1>4. CASE u # t
  <2>1. FrameOK(u, c, p)
    BY <1>2, InvFacts DEF Stacks
  <2>2. c \in Recs[u] \/ c \in mine[u]
    <3>1. CASE p = "record"
      BY <1>2, <3>1 DEF Recs, RecsOf
    <3>2. CASE p \in {"body", "finish"}
      BY <2>1, <3>2 DEF FrameOK
    <3> QED  BY <3>1, <3>2 DEF Owning
  <2>3. c \in Owned[u] /\ c \in Owned[t]
    BY <1>1, <2>2, OwnedFacts
  <2> QED  BY <1>4, <2>3, InvFacts DEF Owners
<1> QED  BY <1>3, <1>4

LEMMA FinishInitializingAfterInv ==
  ASSUME Inv, NEW t \in Threads, t \in alive, halted = "no",
         FinishInitializingAfter(t)
  PROVE  Inv'
<1>0. /\ At(t, "finish") /\ ~Idle(t) /\ FrameOK(t, Top(t).cls, "finish")
      /\ Top(t).cls \in Classes
  BY AtFacts DEF FinishInitializingAfter
<1>1. PICK c \in Classes : c = Top(t).cls
  BY <1>0
<1>2. /\ c \in mine[t] /\ ~SuperDone(c) /\ pending' = pending \cup {c}
      /\ stack' = Left(t)
      /\ UNCHANGED <<state, mine, child, alive, halted, runs, sent>>
  BY <1>0, <1>1 DEF FinishInitializingAfter, FrameOK
<1>3. PICK m \in Nat :
        /\ Kept(t, m) /\ Len(stack'[t]) = m /\ m <= Len(stack[t]) - 1
        /\ m = Len(stack[t]) - 1 \/ (m > 0 => stack[t][m].pc = "body")
        /\ \A i \in m + 1 .. Len(stack[t]) - 1 : stack[t][i].pc # "body"
  BY <1>0, <1>2, InvFacts, LeftKept
<1>4. \A u \in Threads : /\ Recs'[u] = Recs[u]
                         /\ Calls[u] \subseteq Calls'[u] \cup
                              (IF u = t THEN {c} ELSE {})
  BY <1>0, <1>1, <1>3, LeftFrames
<1>5. Rest'
  BY <1>2, <1>4, InvFacts, FinishAfterRest
<1>6. \A u \in Threads, d \in Classes : SuperReady(u, d) => SuperReady(u, d)'
  BY <1>2 DEF SuperReady, Initialized
<1>7. ASSUME NEW u \in Threads, NEW d \in Classes, NEW p \in Labels,
             Stays(t, m, u, d, p), FrameOK(u, d, p)
      PROVE  FrameOK(u, d, p)'
  <2>1. p \in Owning => d # c
    BY <1>0, <1>1, <1>3, <1>7, FinishOnce
  <2> QED  BY <1>2, <1>6, <1>7, <2>1 DEF FrameOK, Initialized
<1>8. Stacks'
  <2>1. \A d \in Classes : d = Top(t).cls =>
          state'[d] = "initialized" \/ d \in mine'[t]
    BY <1>1, <1>2
  <2>2. \A u \in Threads, d \in Classes :
          u # t /\ SuperReady(u, d) => SuperReady(u, d)'
    BY <1>6
  <2> QED  BY <1>0, <1>3, <1>7, <2>1, <2>2, InvFacts, LeftStacks
<1>9. Processes'
  BY <1>2, <1>3, InvFacts, ProcessesStep
<1>10. TypeOK'
  BY <1>2, <1>3, InvFacts DEF TypeOK, Kept
<1> QED  BY <1>2, <1>5, <1>8, <1>9, <1>10, InvFacts DEF Inv

\* In a child of fork the threads that are gone are in no call and initialize
\* no class.
LEMMA Gone ==
  ASSUME Inv, NEW t \in Threads, t \in alive, child, NEW u \in Threads, u # t
  PROVE  stack[u] = <<>> /\ mine[u] = {} /\ Owned[u] = {}
<1>1. stack[u] = <<>> /\ mine[u] = {}
  BY InvFacts DEF Processes
<1>2. RecsOf(<<>>) = {}
  BY DEF RecsOf
<1> QED  BY <1>1, <1>2 DEF Owned, Recs

LEMMA FinishInitializingInv ==
  ASSUME Inv, NEW t \in Threads, t \in alive, halted = "no",
         FinishInitializing(t)
  PROVE  Inv'
<1>0. /\ At(t, "finish") /\ ~Idle(t) /\ FrameOK(t, Top(t).cls, "finish")
      /\ Top(t).cls \in Classes
  BY AtFacts DEF FinishInitializing
<1>1. PICK c \in Classes : c = Top(t).cls
  BY <1>0
<1> DEFINE done == Finished(c)
<1>2. /\ c \in mine[t] /\ SuperDone(c)
      /\ state' = [d \in Classes |->
                     IF d \in done THEN "initialized" ELSE state[d]]
      /\ pending' = pending \ done
      /\ mine' = [mine EXCEPT ![t] = @ \ done]
      /\ halted' = IF done \subseteq mine[t] THEN halted ELSE "fatal"
      /\ stack' = NotifyAll(Left(t))
      /\ UNCHANGED <<child, alive, runs, sent>>
  BY <1>0, <1>1 DEF FinishInitializing, FrameOK
<1>3. /\ done \subseteq mine[t] /\ done \subseteq pending \cup {c}
      /\ c \in done
  BY <1>2, InvFacts, FinishedFacts
<1>4. halted' = halted
  BY <1>2, <1>3
<1>5. PICK m \in Nat :
        /\ Kept(t, m) /\ Len(stack'[t]) = m /\ m <= Len(stack[t]) - 1
        /\ m = Len(stack[t]) - 1 \/ (m > 0 => stack[t][m].pc = "body")
        /\ \A i \in m + 1 .. Len(stack[t]) - 1 : stack[t][i].pc # "body"
  BY <1>0, <1>2, InvFacts, LeftKept
<1>6. /\ \A u \in Threads : /\ Recs'[u] = Recs[u]
                            /\ Calls[u] \subseteq Calls'[u] \cup
                                 (IF u = t THEN {c} ELSE {})
      /\ Recs[t] = {}
  BY <1>0, <1>1, <1>5, LeftFrames
<1>7. Rest'
  BY <1>2, <1>4, <1>6, InvFacts, FinishRest
<1>8. /\ \A d \in Classes :
           state'[d] = IF d \in done THEN "initialized" ELSE state[d]
      /\ \A u \in Threads : mine'[u] = IF u = t THEN mine[u] \ done ELSE mine[u]
  BY <1>2, InvFacts DEF States
<1> HIDE DEF done
<1>9. \A u \in Threads, d \in Classes : SuperReady(u, d) => SuperReady(u, d)'
  <2>1. \A d \in Classes : Super[d] # none => Super[d] \in Classes
    BY SuperFacts
  <2>2. \A u \in Threads, d \in Classes : d \in mine[u] => d \in mine'[u] \/ d \in done
    BY <1>8
  <2> QED  BY <1>8, <2>1, <2>2 DEF SuperReady, Initialized
<1>10. ASSUME NEW u \in Threads, NEW d \in Classes, NEW p \in Labels,
              Stays(t, m, u, d, p), FrameOK(u, d, p)
       PROVE  FrameOK(u, d, p)'
  <2>1. p \in Owning => d \notin done
    <3>1. p \in Owning => d # c /\ d \notin pending
      BY <1>0, <1>1, <1>5, <1>10, FinishOnce DEF FrameOK
    <3> QED  BY <1>3, <3>1
  <2>2. ~(p = "owner" /\ child)
    <3> SUFFICES ASSUME p = "owner", child  PROVE  FALSE
      OBVIOUS
    <3>1. PICK i \in 1 .. Len(stack[u]) :
            (u # t \/ i <= m) /\ stack[u][i].pc = "owner"
      BY <1>10 DEF Stays
    <3>2. u = t
      <4>1. u # t => Len(stack[u]) = 0
        BY Gone
      <4> QED  BY <3>1, <4>1
    <3>3. i \in 1 .. Len(stack[t]) - 1
      BY <1>0, <1>5, <3>1, <3>2, InvFacts, TopFacts
    <3> QED  BY <3>1, <3>2, <3>3, InvFacts, LowerFacts DEF LowerLabels
  <2>3. d \in mine[u] => d \in mine'[u] \/ d \in done
    BY <1>8
  <2>4. SuperReady(u, d) => SuperReady(u, d)'
    BY <1>9
  <2>5. /\ p \in Owning => d \notin pending'
        /\ p \in {"body", "finish"} => d \in mine'[u]
        /\ p \notin {"super", "try"} => SuperReady(u, d)'
    BY <1>2, <1>10, <2>1, <2>3, <2>4 DEF FrameOK, Owning
  <2>6. /\ p = "record" => state'[d] = "initializing"
        /\ p \in {"decide", "owner"} => state'[d] # "no"
        /\ p = "decided" => Initialized(d)'
    BY <1>8, <1>10, <2>1 DEF FrameOK, Owning, Initialized
  <2>7. p = "record" => d \notin mine'[u]
    <3>1. d \notin mine[u] => d \notin mine'[u]
      BY <1>8
    <3> QED  BY <1>10, <3>1 DEF FrameOK
  <2> QED  BY <1>2, <2>2, <2>5, <2>6, <2>7 DEF FrameOK
<1>11. Stacks'
  <2>1. \A d \in Classes : d = Top(t).cls =>
          state'[d] = "initialized" \/ d \in mine'[t]
    BY <1>1, <1>3, <1>8
  <2>2. \A u \in Threads, d \in Classes :
          u # t /\ SuperReady(u, d) => SuperReady(u, d)'
    BY <1>9
  <2> QED  BY <1>0, <1>5, <1>10, <2>1, <2>2, InvFacts, LeftStacks
<1>12. Processes'
  BY <1>2, <1>5, <1>8, InvFacts, ProcessesStep
<1>13. TypeOK'
  <2>1. state' \in [Classes -> {"no", "initializing", "initialized"}]
    BY <1>2, InvFacts DEF TypeOK
  <2>2. mine' \in [Threads -> SUBSET Classes] /\ pending' \subseteq Classes
    BY <1>2, InvFacts DEF TypeOK
  <2> QED  BY <1>2, <1>4, <1>5, <2>1, <2>2, InvFacts DEF TypeOK, Kept
<1> QED  BY <1>4, <1>7, <1>11, <1>12, <1>13, InvFacts DEF Inv

LEMMA OwnedBeforeForkInv ==
  ASSUME Inv, NEW t \in Threads, t \in alive, halted = "no", OwnedBeforeFork(t),
         RootsAreEmpty
  PROVE  Inv'
<1>0. /\ At(t, "owner") /\ ~Idle(t) /\ Top(t).pc = "owner"
      /\ Top(t).cls \in Classes /\ FrameOK(t, Top(t).cls, "owner")
  BY AtFacts DEF OwnedBeforeFork
<1>1. PICK c \in Classes : c = Top(t).cls
  BY <1>0
<1>2. /\ child /\ c \notin mine[t] /\ mine' = [mine EXCEPT ![t] = @ \cup {c}]
      /\ UNCHANGED <<state, pending, child, alive, runs, sent>>
  BY <1>1 DEF OwnedBeforeFork, SetMine
<1>3. state[c] = "initializing" /\ SuperReady(t, c)
  BY <1>0, <1>1, <1>2 DEF FrameOK
<1>4. \A u \in Threads : mine'[u] = IF u = t THEN mine[u] \cup {c} ELSE mine[u]
  BY <1>2, InvFacts DEF States
<1>5. \A u \in Threads : c \notin Owned[u] /\ (u # t => Owned[u] = {})
  <2>1. Recs[t] = {}
    <3>1. stack[t] \in Seq(FrameType) /\ LowerLabels(stack[t]) /\ stack[t] # <<>>
      BY <1>0, InvFacts, LowerFacts DEF StackType, Idle
    <3> QED  BY <1>0, <3>1, RecsOfTop DEF Recs, Top
  <2>2. \A u \in Threads : u # t => Owned[u] = {}
    BY <1>2, Gone
  <2> QED  BY <1>2, <2>1, <2>2, OwnedFacts
<1>6. \A u \in Threads, d \in Classes : SuperReady(u, d) => SuperReady(u, d)'
  BY <1>2, <1>4 DEF SuperReady, Initialized
<1>7. CASE Refused(c)
  <2>1. halted' = "fork" /\ UNCHANGED stack
    BY <1>1, <1>7 DEF OwnedBeforeFork
  <2>2. Rest'
    <3>1. \A u \in Threads : Recs'[u] = Recs[u] /\ Calls[u] \subseteq Calls'[u]
      BY <2>1, SameFrames
    <3> QED  BY <1>2, <1>3, <1>5, <2>1, <3>1, InvFacts, TakeRest
  <2>3. ASSUME NEW u \in Threads, NEW d \in Classes, NEW p \in Labels,
               FrameOK(u, d, p)
        PROVE  FrameOK(u, d, p)'
    <3>1. d \in mine[u] => d \in mine'[u]
      BY <1>4
    <3> QED  BY <1>2, <1>6, <2>1, <2>3, <3>1 DEF FrameOK, Initialized
  <2>4. Stacks'
    BY <1>6, <2>1, <2>3, InvFacts, SameStacks
  <2>5. Processes'
    BY <1>2, <1>4, <2>1, InvFacts, SameProcesses
  <2>6. TypeOK'
    BY <1>2, <2>1, InvFacts DEF TypeOK
  <2> QED  BY <2>1, <2>2, <2>4, <2>5, <2>6 DEF Inv
<1>8. CASE ~Refused(c)
  <2> DEFINE f == [Top(t) EXCEPT !.pc = "finish"]
  <2>0. Goto(t, "finish") /\ UNCHANGED halted /\ c \in Silent
    BY <1>1, <1>2, <1>8 DEF OwnedBeforeFork, Refused, RootsAreEmpty, Silent
  <2>1. /\ f \in FrameType /\ f.cls = c /\ f.pc = "finish" /\ stack' = Become(t, f)
    BY <1>0, <1>1, <2>0, GotoFacts DEF Goto, Labels
  <2> HIDE DEF f
  <2>2. /\ \A u \in Threads : u # t => Recs'[u] = Recs[u] /\ Calls'[u] = Calls[u]
        /\ Recs[t] = {} /\ Recs'[t] = {} /\ Calls'[t] = Calls[t] \cup {c}
    <3>1. StackType /\ Stacks /\ ~Idle(t) /\ Top(t).pc = "owner" /\ Top(t).cls = c
      BY <1>0, <1>1, InvFacts
    <3> QED  BY ONLY <2>1, <3>1, BecomeFrames, t \in Threads, ZenonT(30) DEF Running
  <2>3. Rest' /\ c \notin pending
    <3>1. \A u \in Threads : Recs'[u] = Recs[u] /\ Calls[u] \subseteq Calls'[u]
      BY <2>2
    <3>2. halted' = "no" /\ c \in Calls'[t]
      BY <2>0, <2>2
    <3> QED  BY <1>2, <1>3, <1>5, <2>0, <3>1, <3>2, InvFacts, TakeRest
  <2>4. ASSUME NEW u \in Threads, NEW d \in Classes, NEW p \in Labels,
               Stays(t, Len(stack[t]) - 1, u, d, p), FrameOK(u, d, p)
        PROVE  FrameOK(u, d, p)'
    <3>1. u = t => p # "record"
      <4> SUFFICES ASSUME u = t, p = "record"  PROVE  FALSE
        OBVIOUS
      <4>1. PICK i \in 1 .. Len(stack[t]) :
              i <= Len(stack[t]) - 1 /\ stack[t][i].pc = "record"
        BY <2>4 DEF Stays
      <4>2. i \in 1 .. Len(stack[t]) - 1
        BY <4>1, InvFacts, TopFacts, <1>0
      <4> QED  BY <4>1, <4>2, InvFacts, LowerFacts DEF LowerLabels
    <3> QED  BY <1>2, <1>4, <1>6, <2>0, <2>4, <3>1 DEF FrameOK, Initialized
  <2>5. ASSUME NEW d \in Classes, NEW p \in Labels, d = f.cls, p = f.pc
        PROVE  FrameOK(t, d, p)'
    <3>1. d = c /\ p = "finish"
      BY <2>1, <2>5
    <3> QED  BY <1>2, <1>3, <1>4, <1>6, <2>3, <3>1 DEF FrameOK
  <2>6. ASSUME NEW i \in 1 .. Len(stack[t]) - 1, stack[t][i].pc \in Owning
        PROVE  stack[t][i].cls # f.cls
    <3>1. stack[t] \in Seq(FrameType) /\ i \in 1 .. Len(stack[t])
      BY InvFacts DEF StackType
    <3>2. FrameOK(t, stack[t][i].cls, stack[t][i].pc)
      BY <3>1, InvFacts DEF Stacks
    <3>3. stack[t][i].pc = "body"
      BY <2>6, InvFacts DEF Stacks, Lower, Owning
    <3> QED  BY <1>2, <2>1, <3>2, <3>3 DEF FrameOK
  <2>7. Stacks'
    <3>1. \A u \in Threads, d \in Classes :
            u # t /\ SuperReady(u, d) => SuperReady(u, d)'
      BY <1>6
    <3>2. \A d \in Classes : d = f.cls /\ f.pc = "try" => SuperReady(t, d)'
      BY <2>1
    <3> QED  BY <1>0, <1>1, <2>1, <2>4, <2>5, <2>6, <3>1, <3>2, InvFacts,
                BecomeStacks
  <2>8. Kept(t, Len(stack[t]) - 1)
    BY <1>0, <1>1, <2>1, InvFacts, BecomeFacts
  <2>9. Processes'
    BY <1>2, <1>4, <2>8, InvFacts, ProcessesStep
  <2>10. TypeOK'
    BY <1>2, <2>0, <2>8, InvFacts DEF TypeOK, Kept
  <2> QED  BY <2>0, <2>3, <2>7, <2>9, <2>10, InvFacts DEF Inv
<1> QED  BY <1>7, <1>8

LEMMA ForkInv ==
  ASSUME Inv, NEW t \in Threads, halted = "no", Fork(t)
  PROVE  Inv'
<1>1. /\ ~child /\ child' /\ alive' = {t}
      /\ \A u \in Threads : stack'[u] = IF u = t THEN stack[t] ELSE <<>>
      /\ \A u \in Threads : mine'[u] = IF u = t THEN mine[u] ELSE {}
      /\ UNCHANGED <<state, pending, halted, runs, sent>>
  BY DEF Fork
<1>2. Rest'
  <2>1. mine' = [u \in Threads |-> IF u = t THEN mine[u] ELSE {}]
    BY DEF Fork
  <2>2. RecsOf(<<>>) = {}
    BY DEF RecsOf
  <2>3. \A u \in Threads : /\ Recs'[u] = IF u = t THEN Recs[u] ELSE {}
                           /\ u = t => Calls'[u] = Calls[u]
    BY <1>1, <2>2 DEF Recs, Calls
  <2> QED  BY <1>1, <2>1, <2>3, InvFacts, ForkRest
<1>3. \A i \in 1 .. Len(stack[t]) : stack[t][i].pc \in {"try", "body"}
  <2>1. stack[t] \in Seq(FrameType) /\ LowerLabels(stack[t])
    BY InvFacts, LowerFacts DEF StackType
  <2>2. stack[t] # <<>> => stack[t][Len(stack[t])].pc = "body"
    BY DEF Fork, InProgram, At, Idle, Top
  <2>3. \A i \in 1 .. Len(stack[t]) : i = Len(stack[t]) \/ i \in 1 .. Len(stack[t]) - 1
    BY <2>1
  <2>4. stack[t] = <<>> => Len(stack[t]) = 0
    OBVIOUS
  <2> QED  BY <2>1, <2>2, <2>3, <2>4 DEF LowerLabels
<1>4. Stacks'
  <2> SUFFICES ASSUME NEW u \in Threads
               PROVE  /\ \A i \in 1 .. Len(stack'[u]) :
                           FrameOK(u, stack[u][i].cls, stack[u][i].pc)'
                      /\ \A i \in 1 .. Len(stack'[u]) - 1 : Lower(u, i)'
                      /\ TopReady(u)' /\ OwnsOnce(u)'
    BY DEF Stacks
  <2>1. CASE u = t
    <3>1. stack'[t] = stack[t] /\ mine'[t] = mine[t]
      BY <1>1
    <3>2. ASSUME NEW i \in 1 .. Len(stack[t])
          PROVE  FrameOK(t, stack[t][i].cls, stack[t][i].pc)'
      <4>1. FrameOK(t, stack[t][i].cls, stack[t][i].pc)
        BY InvFacts DEF Stacks
      <4> QED  BY <1>1, <1>3, <3>1, <4>1
                  DEF FrameOK, SuperReady, Initialized, Owning
    <3>3. \A i \in 1 .. Len(stack[t]) - 1 : Lower(t, i)'
      BY <3>1, InvFacts DEF Stacks, Lower
    <3>4. TopReady(t)'
      BY <1>1, <3>1, InvFacts
         DEF Stacks, TopReady, At, Idle, Top, SuperReady, Initialized
    <3>5. OwnsOnce(t)'
      BY <3>1, InvFacts DEF Stacks, OwnsOnce
    <3> QED  BY <2>1, <3>1, <3>2, <3>3, <3>4, <3>5
  <2>2. CASE u # t
    <3>1. stack'[u] = <<>> /\ Len(stack'[u]) = 0
      BY <1>1, <2>2
    <3> QED  BY <3>1 DEF TopReady, At, Idle, OwnsOnce
  <2> QED  BY <2>1, <2>2
<1>5. Processes'
  BY <1>1 DEF Processes
<1>6. TypeOK'
  <2>1. stack' \in [Threads -> Seq(FrameType)]
    <3>1. stack[t] \in Seq(FrameType) /\ <<>> \in Seq(FrameType)
      BY InvFacts DEF StackType
    <3> QED  BY <3>1 DEF Fork
  <2>2. mine' \in [Threads -> SUBSET Classes]
    BY InvFacts DEF TypeOK, Fork
  <2> QED  BY <1>1, <2>1, <2>2, InvFacts DEF TypeOK
<1> QED  BY <1>1, <1>2, <1>4, <1>5, <1>6, InvFacts DEF Inv

LEMMA InvInit ==
  ASSUME Init
  PROVE  Inv
<1>1. /\ \A t \in Threads : stack[t] = <<>> /\ Len(stack[t]) = 0 /\ mine[t] = {}
      /\ \A c \in Classes : state[c] = "no" /\ runs[c] = 0
      /\ pending = {} /\ ~child /\ alive = Threads /\ halted = "no"
  BY DEF Init
<1>2. \A t \in Threads : Recs[t] = {} /\ Owned[t] = {}
  <2>1. RecsOf(<<>>) = {}
    BY DEF RecsOf
  <2> QED  BY <1>1, <2>1 DEF Recs, Owned
<1>3. TypeOK
  <2>1. stack \in [Threads -> Seq(FrameType)]
    BY DEF Init
  <2>2. /\ mine \in [Threads -> SUBSET Classes]
        /\ state \in [Classes -> {"no", "initializing", "initialized"}]
    BY DEF Init
  <2>3. runs \in [Classes -> Nat] /\ sent \in [Threads -> Nat]
    BY DEF Init
  <2>4. /\ pending \subseteq Classes /\ child \in BOOLEAN /\ alive \subseteq Threads
        /\ halted \in {"no", "fork", "fatal"}
    BY DEF Init
  <2> QED  BY <2>1, <2>2, <2>3, <2>4 DEF TypeOK
<1>4. Stacks
  BY <1>1 DEF Stacks, TopReady, At, Idle, OwnsOnce
<1>5. Processes
  BY <1>1 DEF Processes
<1>6. Owners /\ Counts /\ Pendings /\ Bodies /\ Reasons
  BY <1>1, <1>2 DEF Owners, Counts, Pendings, Bodies, Reasons
<1>7. Chain
  BY <1>1 DEF Chain
<1>8. Orphans
  BY <1>1 DEF Orphans
<1> QED  BY <1>1, <1>3, <1>4, <1>5, <1>6, <1>7, <1>8 DEF Inv, Rest

LEMMA InvNext ==
  ASSUME Inv, [Next]_vars, RootsAreEmpty
  PROVE  Inv'
<1>1. CASE UNCHANGED vars
  <2>1. /\ UNCHANGED <<state, mine, pending, stack, child, alive, halted, runs, sent>>
        /\ UNCHANGED <<Recs, Calls>>
    BY <1>1 DEF vars, Recs, RecsOf, Calls, CallsOf
  <2>2. UNCHANGED Owned
    BY <2>1 DEF Owned
  <2>3. TypeOK' /\ Processes' /\ halted' # "fatal"
    BY <2>1 DEF Inv, TypeOK, Processes
  <2>4. Stacks'
    <3>1. \A t, c, p : FrameOK(t, c, p)' <=> FrameOK(t, c, p)
      BY <2>1 DEF FrameOK, SuperReady, Initialized
    <3>2. \A t, i : Lower(t, i)' <=> Lower(t, i)
      BY <2>1 DEF Lower
    <3>3. \A t : TopReady(t)' <=> TopReady(t)
      BY <2>1 DEF TopReady, At, Idle, Top, SuperReady, Initialized
    <3>4. \A t : OwnsOnce(t)' <=> OwnsOnce(t)
      BY <2>1 DEF OwnsOnce
    <3> QED  BY <2>1, <3>1, <3>2, <3>3, <3>4 DEF Inv, Stacks
  <2>5. Owners' /\ Chain' /\ Counts'
    BY <2>1, <2>2 DEF Inv, Rest, Owners, Chain, Counts, Initialized
  <2>6. Pendings' /\ Bodies' /\ Reasons' /\ Orphans'
    BY <2>1, <2>2 DEF Inv, Rest, Pendings, Bodies, Reasons, Orphans, Orphan, Initialized
  <2> QED  BY <2>3, <2>4, <2>5, <2>6 DEF Inv, Rest
<1>2. ASSUME NEW t \in Threads, Step(t)  PROVE  Inv'
  <2>0. halted = "no"
    BY <1>2 DEF Step
  <2>1. CASE \E c \in Classes : Message(t, c)
    BY <1>2, <2>1, MessageInv DEF Step
  <2>2. CASE Fork(t)
    BY <2>0, <2>2, ForkInv
  <2>3. CASE Continue(t)
    <3>1. t \in alive
      BY <1>2 DEF Step
    <3>2. CASE InitializeSuper(t)
      BY <3>1, <3>2, InitializeSuperInv
    <3>3. CASE Try(t)
      BY <2>0, <3>1, <3>3, TryInv
    <3>4. CASE Record(t)
      BY <2>0, <3>1, <3>4, RecordInv
    <3>5. CASE BodyDone(t)
      BY <3>1, <3>5, BodyDoneInv
    <3>6. CASE FinishInitializing(t)
      BY <2>0, <3>1, <3>6, FinishInitializingInv
    <3>7. CASE FinishInitializingAfter(t)
      BY <2>0, <3>1, <3>7, FinishInitializingAfterInv
    <3>8. CASE Decide(t)
      BY <2>0, <3>1, <3>8, DecideInv
    <3>9. CASE OwnedByThisThread(t)
      BY <3>1, <3>9, OwnedByThisThreadInv
    <3>10. CASE OwnedByOtherThread(t)
      BY <3>1, <3>10, OwnedByOtherThreadInv
    <3>11. CASE OwnedBeforeFork(t)
      BY <2>0, <3>1, <3>11, OwnedBeforeForkInv
    <3>12. CASE Wait(t)
      BY <3>1, <3>12, WaitInv
    <3> QED  BY <2>3, <3>2, <3>3, <3>4, <3>5, <3>6, <3>7, <3>8, <3>9, <3>10,
                <3>11, <3>12 DEF Continue
  <2> QED  BY <1>2, <2>1, <2>2, <2>3 DEF Step
<1> QED  BY <1>1, <1>2 DEF Next, Stopped

LEMMA InvAlways == Spec /\ []RootsAreEmpty => []Inv
<1>1. Init => Inv
  BY InvInit
<1>2. Inv /\ [Next]_vars /\ RootsAreEmpty => Inv'
  BY InvNext
<1> QED  BY <1>1, <1>2, PTL DEF Spec

(***************************************************************************)
(* The theorems.                                                           *)
(***************************************************************************)
\* What a thread in a call does to the stacks keeps their type.
LEMMA FrameTypes ==
  ASSUME StackType, NEW t \in Threads, ~Idle(t)
  PROVE  /\ Top(t).cls \in Classes
         /\ \A p \in Labels : Goto(t, p) => StackType'
         /\ \A f \in FrameType : stack' = Become(t, f) => StackType'
         /\ \A f, g \in FrameType :
              stack' = [Become(t, f) EXCEPT ![t] = Append(@, g)] => StackType'
         /\ Return(t) \/ stack' = Left(t) \/ stack' = NotifyAll(Left(t))
              => StackType'
<1>1. Top(t) \in FrameType
  BY TopFacts
<1>2. \A p \in Labels : [Top(t) EXCEPT !.pc = p] \in FrameType
  BY <1>1 DEF FrameType
<1>3. \A f \in FrameType : stack' = Become(t, f) => StackType'
  BY BecomeFacts DEF Kept, StackType
<1>4. \A f, g \in FrameType :
        stack' = [Become(t, f) EXCEPT ![t] = Append(@, g)] => StackType'
  BY BecomePushFacts DEF Kept, StackType
<1>5. Return(t) => StackType'
  BY ReturnFacts DEF Kept, StackType
<1>6. stack' = Left(t) \/ stack' = NotifyAll(Left(t)) => StackType'
  BY LeftKept DEF Kept, StackType
<1>7. Top(t).cls \in Classes
  BY <1>1 DEF FrameType
<1> QED  BY <1>2, <1>3, <1>4, <1>5, <1>6, <1>7 DEF Goto

\* The other variables, one by one, keep their types at each step.
LEMMA TypeStep ==
  ASSUME TypeOK, NEW t \in Threads, Step(t)
  PROVE  TypeOK'
<1>0. StackType /\ (~Idle(t) => Top(t).cls \in Classes)
  BY FrameTypes DEF TypeOK, StackType
<1>1. ASSUME ~Idle(t)
      PROVE  /\ \A p \in Labels : Goto(t, p) => StackType'
             /\ \A f \in FrameType : stack' = Become(t, f) => StackType'
             /\ \A f, g \in FrameType :
                  stack' = [Become(t, f) EXCEPT ![t] = Append(@, g)] => StackType'
             /\ Return(t) \/ stack' = Left(t) \/ stack' = NotifyAll(Left(t))
                  => StackType'
  BY <1>0, <1>1, FrameTypes
<1>2. CASE \E c \in Classes : Message(t, c)
  <2>1. PICK c \in Classes : Message(t, c)
    BY <1>2
  <2>2. Frame(c, "super") \in FrameType
    BY DEF Frame, FrameType, Labels
  <2>3. StackType'
    BY <1>0, <2>1, <2>2, PushFacts DEF Message, Kept, StackType
  <2> QED  BY <2>1, <2>3 DEF Message, TypeOK, StackType
<1>3. CASE Fork(t)
  BY <1>3 DEF Fork, TypeOK
<1>4. CASE InitializeSuper(t)
  <2>1. ~Idle(t) /\ Top(t) \in FrameType
    BY <1>0, <1>4, TopFacts DEF InitializeSuper, At
  <2>2. [Top(t) EXCEPT !.pc = "try"] \in FrameType
    BY <2>1 DEF FrameType, Labels
  <2>3. Super[Top(t).cls] # none => Frame(Super[Top(t).cls], "super") \in FrameType
    BY <1>0, <2>1, SuperFacts DEF Frame, FrameType, Labels
  <2>4. StackType'
    BY <1>1, <1>4, <2>1, <2>2, <2>3 DEF InitializeSuper
  <2> QED  BY <1>4, <2>4 DEF InitializeSuper, TypeOK, StackType
<1>5. CASE Try(t)
  <2>1. StackType'
    BY <1>1, <1>5 DEF Try, At, Labels
  <2>2. state' \in [Classes -> {"no", "initializing", "initialized"}]
    BY <1>5 DEF Try, TypeOK
  <2> QED  BY <1>5, <2>1, <2>2 DEF Try, TypeOK, StackType
<1>6. CASE Record(t)
  <2>1. StackType' /\ Top(t).cls \in Classes
    BY <1>0, <1>1, <1>6 DEF Record, At, Labels, StackType
  <2>2. mine' \in [Threads -> SUBSET Classes]
    <3>1. \A c \in Classes : SetMine(t, c) => mine' \in [Threads -> SUBSET Classes]
      BY DEF SetMine, TypeOK
    <3>2. SetMine(t, Top(t).cls) \/ UNCHANGED mine
      BY <1>6 DEF Record
    <3> QED  BY <2>1, <3>1, <3>2 DEF TypeOK
  <2>3. runs' \in [Classes -> Nat] /\ halted' \in {"no", "fork", "fatal"}
    BY <1>6, <2>1 DEF Record, TypeOK
  <2> QED  BY <1>6, <2>1, <2>2, <2>3 DEF Record, TypeOK, StackType
<1>7. CASE BodyDone(t)
  <2>1. ~Idle(t) /\ Top(t) \in FrameType
    BY <1>0, <1>7, TopFacts DEF BodyDone, At
  <2>2. \A thrown \in BOOLEAN :
          [Top(t) EXCEPT !.pc = "finish", !.thrown = thrown] \in FrameType
    BY <2>1 DEF FrameType, Labels
  <2>3. StackType'
    BY <1>1, <1>7, <2>1, <2>2 DEF BodyDone
  <2> QED  BY <1>7, <2>3 DEF BodyDone, TypeOK, StackType
<1>8. CASE FinishInitializing(t)
  <2>1. StackType'
    BY <1>1, <1>8 DEF FinishInitializing, At
  <2>2. /\ state' \in [Classes -> {"no", "initializing", "initialized"}]
        /\ mine' \in [Threads -> SUBSET Classes] /\ pending' \subseteq Classes
        /\ halted' \in {"no", "fork", "fatal"}
    BY <1>8 DEF FinishInitializing, TypeOK
  <2> QED  BY <1>8, <2>1, <2>2 DEF FinishInitializing, TypeOK, StackType
<1>9. CASE FinishInitializingAfter(t)
  <2>1. StackType' /\ pending' \subseteq Classes
    BY <1>0, <1>1, <1>9 DEF FinishInitializingAfter, At, TypeOK
  <2> QED  BY <1>9, <2>1 DEF FinishInitializingAfter, TypeOK, StackType
<1>10. CASE Decide(t)
  <2>1. StackType' /\ halted' \in {"no", "fork", "fatal"}
    BY <1>0, <1>1, <1>10 DEF Decide, At, Labels, TypeOK, StackType
  <2> QED  BY <1>10, <2>1 DEF Decide, TypeOK, StackType
<1>11. CASE OwnedByThisThread(t)
  <2>1. StackType'
    BY <1>1, <1>11 DEF OwnedByThisThread, At
  <2> QED  BY <1>11, <2>1 DEF OwnedByThisThread, TypeOK, StackType
<1>12. CASE OwnedByOtherThread(t)
  <2>1. StackType'
    BY <1>1, <1>12 DEF OwnedByOtherThread, At, Labels
  <2> QED  BY <1>12, <2>1 DEF OwnedByOtherThread, TypeOK, StackType
<1>13. CASE OwnedBeforeFork(t)
  <2>1. StackType' /\ Top(t).cls \in Classes
    BY <1>0, <1>1, <1>13 DEF OwnedBeforeFork, At, Labels, StackType
  <2>2. mine' \in [Threads -> SUBSET Classes]
        /\ halted' \in {"no", "fork", "fatal"}
    BY <1>13, <2>1 DEF OwnedBeforeFork, SetMine, TypeOK
  <2> QED  BY <1>13, <2>1, <2>2 DEF OwnedBeforeFork, TypeOK, StackType
<1>14. CASE Wait(t)
  <2>1. StackType'
    BY <1>1, <1>14 DEF Wait, At, Labels
  <2> QED  BY <1>14, <2>1 DEF Wait, TypeOK, StackType
<1> QED  BY <1>2, <1>3, <1>4, <1>5, <1>6, <1>7, <1>8, <1>9, <1>10, <1>11,
            <1>12, <1>13, <1>14 DEF Step, Continue

\* The variables of the model of initializeNonMetaClass keep their types.
THEOREM TypeCorrect == Spec => []TypeOK
<1>1. Init => TypeOK
  BY InvInit DEF Inv
<1>2. TypeOK /\ [Next]_vars => TypeOK'
  <2>1. ASSUME TypeOK, UNCHANGED vars  PROVE  TypeOK'
    BY <2>1 DEF vars, TypeOK
  <2>2. ASSUME TypeOK, NEW t \in Threads, Step(t)  PROVE  TypeOK'
    BY <2>2, TypeStep
  <2> QED  BY <2>1, <2>2 DEF Next, Stopped
<1> QED  BY <1>1, <1>2, PTL DEF Spec

\* Initializes, in the terms of the invariant
LEMMA InitializesOwned ==
  ASSUME Inv, NEW t \in Threads, NEW c \in Classes
  PROVE  Initializes(t, c) <=> c \in Owned[t]
<1>1. DOMAIN stack[t] = 1 .. Len(stack[t])
  BY InvFacts DEF StackType
<1> QED  BY <1>1 DEF Initializes, Owned, Recs, RecsOf

\* No +initialize is called twice, and no class is initialized by two threads.
THEOREM Once == Spec /\ []RootsAreEmpty => []InitializedOnce
<1>1. Inv => InitializedOnce
  <2> SUFFICES ASSUME Inv, NEW c \in Classes
               PROVE  /\ runs[c] <= 1
                      /\ \A t, u \in Threads :
                           Initializes(t, c) /\ Initializes(u, c) => t = u
    BY DEF InitializedOnce
  <2>1. runs[c] <= 1
    BY DEF Inv, Rest, Counts
  <2> QED  BY <2>1, InitializesOwned DEF Inv, Rest, Owners
<1> QED  BY <1>1, InvAlways, PTL

\* A class is touched only after its superclass is done, or by its thread.
THEOREM ContiguousAlways == Spec /\ []RootsAreEmpty => []Contiguous
<1>1. Inv => Contiguous
  <2> SUFFICES ASSUME Inv, NEW c \in Classes, state[c] # "no", Super[c] # none
               PROVE  \/ Initialized(Super[c])
                      \/ /\ state[c] = "initializing"
                         /\ state[Super[c]] = "initializing"
                         /\ \A t \in Threads :
                              Initializes(t, c) => Initializes(t, Super[c])
    BY DEF Contiguous
  <2>1. Super[c] \in Classes /\ Super[c] \in Ancestors[c]
    BY SuperFacts
  <2> QED  BY <2>1, InitializesOwned DEF Inv, Rest, Chain
<1> QED  BY <1>1, InvAlways, PTL

\* None of the checks that halt the process because class initialization is
\* buggy ever fires.
THEOREM NeverFatal == Spec /\ []RootsAreEmpty => []NoFatal
<1>1. Inv => NoFatal
  BY DEF Inv, NoFatal
<1> QED  BY <1>1, InvAlways, PTL

\* The calls of the other threads, and of t unless one of them ends
LEMMA Longer ==
  ASSUME Inv, NEW u \in Threads, NEW t \in Threads, ~Idle(u),
         \/ \E f \in FrameType : stack' = Become(u, f)
         \/ \E f, g \in FrameType :
              stack' = [Become(u, f) EXCEPT ![u] = Append(@, g)]
         \/ t # u /\ (Return(u) \/ stack' = Left(u)
                        \/ stack' = NotifyAll(Left(u)))
  PROVE  Len(stack'[t]) >= Len(stack[t])
<1>0. StackType /\ Len(stack[t]) \in Nat
  BY InvFacts DEF StackType
<1>1. ASSUME NEW f \in FrameType, stack' = Become(u, f)
      PROVE  Len(stack'[t]) >= Len(stack[t])
  <2>1. Kept(u, Len(stack[u]) - 1) /\ Len(stack'[u]) = Len(stack[u])
    BY <1>0, <1>1, BecomeFacts
  <2> QED  BY <1>0, <2>1, KeptSame
<1>2. ASSUME NEW f \in FrameType, NEW g \in FrameType,
             stack' = [Become(u, f) EXCEPT ![u] = Append(@, g)]
      PROVE  Len(stack'[t]) >= Len(stack[t])
  <2>1. Kept(u, Len(stack[u]) - 1) /\ Len(stack'[u]) = Len(stack[u]) + 1
    BY <1>0, <1>2, BecomePushFacts
  <2> QED  BY <1>0, <2>1, KeptSame
<1>3. ASSUME t # u, Return(u)
      PROVE  Len(stack'[t]) >= Len(stack[t])
  <2>1. Kept(u, Len(stack[u]) - 1)
    BY <1>0, <1>3, ReturnFacts
  <2> QED  BY <1>0, <1>3, <2>1, KeptSame
<1>4. ASSUME t # u, stack' = Left(u) \/ stack' = NotifyAll(Left(u))
      PROVE  Len(stack'[t]) >= Len(stack[t])
  <2>1. PICK m \in Nat : Kept(u, m)
    BY <1>0, <1>4, LeftKept
  <2> QED  BY <1>0, <1>4, <2>1, KeptSame
<1> QED  BY <1>1, <1>2, <1>3, <1>4

\* Only a return, or the end of a +initialize, shortens a stack.
LEMMA ReturnsStep ==
  ASSUME Inv, RootsAreEmpty,
         NEW u \in Threads, Step(u), NEW t \in Threads, Returned(t)
  PROVE  state'[Top(t).cls] = "initialized" \/ Top(t).cls \in mine'[t]
<1>0. /\ ~Idle(t) /\ ~(Len(stack'[t]) >= Len(stack[t])) /\ t \in alive'
      /\ Len(stack[t]) \in Nat
  <2>1. StackType /\ StackType'
    <3>1. Inv'
      BY InvNext DEF Next
    <3>2. Inv' => StackType'
      BY DEF Inv, TypeOK, StackType
    <3> QED  BY <3>1, <3>2, InvFacts
  <2>2. Len(stack[t]) \in Nat /\ Len(stack'[t]) \in Nat
    BY <2>1 DEF StackType
  <2> QED  BY <2>2 DEF Returned
<1>1. CASE \E c \in Classes : Message(u, c)
  <2>1. PICK c \in Classes : Message(u, c)
    BY <1>1
  <2>2. Frame(c, "super") \in FrameType
    BY DEF Frame, FrameType, Labels
  <2>3. Kept(u, Len(stack[u])) /\ Len(stack'[u]) = Len(stack[u]) + 1
    BY <2>1, <2>2, InvFacts, PushFacts DEF Message
  <2> QED  BY <1>0, <2>3, InvFacts, KeptSame
<1>2. CASE Fork(u)
  <2>1. t = u /\ stack'[t] = stack[t]
    BY <1>0, <1>2 DEF Fork
  <2> QED  BY <1>0, <2>1
<1>3. CASE InitializeSuper(u)
  <2>1. At(u, "super") /\ ~Idle(u) /\ Top(u).cls \in Classes
    BY <1>3, AtFacts DEF InitializeSuper
  <2>2. [Top(u) EXCEPT !.pc = "try"] \in FrameType
    BY <2>1, GotoFacts DEF Labels
  <2>3. Super[Top(u).cls] # none => Frame(Super[Top(u).cls], "super") \in FrameType
    BY <2>1, SuperFacts DEF Frame, FrameType, Labels
  <2>4. \/ \E f \in FrameType : stack' = Become(u, f)
        \/ \E f, g \in FrameType :
             stack' = [Become(u, f) EXCEPT ![u] = Append(@, g)]
    BY <1>3, <2>2, <2>3 DEF InitializeSuper
  <2> QED  BY <1>0, <2>1, <2>4, Longer
<1>4. ASSUME NEW p, At(u, p), NEW q \in Labels, Goto(u, q)
      PROVE  FALSE
  <2>1. ~Idle(u) /\ [Top(u) EXCEPT !.pc = q] \in FrameType
    BY <1>4, AtFacts, GotoFacts
  <2>2. \E f \in FrameType : stack' = Become(u, f)
    BY <1>4, <2>1 DEF Goto
  <2> QED  BY <1>0, <2>1, <2>2, Longer
<1>5. ASSUME UNCHANGED stack  PROVE  FALSE
  BY <1>0, <1>5
<1>6. CASE Try(u)
  BY <1>4, <1>6 DEF Try, Labels
<1>7. CASE Record(u)
  BY <1>4, <1>5, <1>7 DEF Record, Labels
<1>8. CASE BodyDone(u)
  <2>1. ~Idle(u) /\ Top(u) \in FrameType
    BY <1>8, AtFacts DEF BodyDone
  <2>2. \A thrown \in BOOLEAN :
          [Top(u) EXCEPT !.pc = "finish", !.thrown = thrown] \in FrameType
    BY <2>1 DEF FrameType, Labels
  <2>3. \E f \in FrameType : stack' = Become(u, f)
    BY <1>8, <2>2 DEF BodyDone
  <2> QED  BY <1>0, <2>1, <2>3, Longer
<1>9. ASSUME NEW p, At(u, p),
             Return(u) \/ stack' = Left(u) \/ stack' = NotifyAll(Left(u))
      PROVE  t = u
  BY <1>0, <1>9, AtFacts, Longer
<1>10. CASE FinishInitializing(u)
  <2>1. t = u
    BY <1>9, <1>10 DEF FinishInitializing
  <2>2. Top(u).cls \in Finished(Top(u).cls) /\ Top(u).cls \in Classes
    BY <1>10, AtFacts DEF FinishInitializing, Finished
  <2> QED  BY <1>10, <2>1, <2>2 DEF FinishInitializing
<1>11. CASE FinishInitializingAfter(u)
  <2>1. t = u
    BY <1>9, <1>11 DEF FinishInitializingAfter
  <2>2. Top(u).cls \in mine[u]
    BY <1>11, AtFacts DEF FinishInitializingAfter, FrameOK
  <2> QED  BY <1>11, <2>1, <2>2 DEF FinishInitializingAfter
<1>12. CASE Decide(u)
  <2>1. ~At(u, "decide")
    BY <1>4, <1>12 DEF Decide, Labels, At
  <2>2. /\ At(u, "decided") /\ Return(u) /\ Initialized(Top(u).cls)
        /\ state' = state
    BY <1>5, <1>12, <2>1 DEF Decide
  <2>3. t = u
    BY <1>9, <2>2
  <2> QED  BY <2>2, <2>3 DEF Initialized
<1>13. CASE OwnedByThisThread(u)
  <2>1. t = u
    BY <1>9, <1>13 DEF OwnedByThisThread
  <2> QED  BY <1>13, <2>1 DEF OwnedByThisThread
<1>14. CASE OwnedByOtherThread(u)
  BY <1>4, <1>14 DEF OwnedByOtherThread, Labels
<1>15. CASE OwnedBeforeFork(u)
  BY <1>4, <1>5, <1>15 DEF OwnedBeforeFork, Labels
<1>16. CASE Wait(u)
  <2>1. At(u, "wait") /\ Return(u) /\ Initialized(Top(u).cls) /\ state' = state
    BY <1>4, <1>16 DEF Wait, Labels
  <2>2. t = u
    BY <1>9, <2>1
  <2> QED  BY <2>1, <2>2 DEF Initialized
<1> QED  BY <1>1, <1>2, <1>3, <1>6, <1>7, <1>8, <1>10, <1>11, <1>12, <1>13,
            <1>14, <1>15, <1>16 DEF Step, Continue

\* A call of initializeNonMetaClass that returns leaves the class initialized,
\* or being initialized by the calling thread.
THEOREM Returns == Spec /\ []RootsAreEmpty => ReturnsInitialized
<1>1. Inv /\ [Next]_vars /\ RootsAreEmpty =>
        [\A t \in Threads : Returned(t) =>
           state'[Top(t).cls] = "initialized" \/ Top(t).cls \in mine'[t]]_vars
  <2> SUFFICES ASSUME Inv, [Next]_vars, RootsAreEmpty, ~UNCHANGED vars,
                      NEW t \in Threads, Returned(t)
               PROVE  state'[Top(t).cls] = "initialized" \/ Top(t).cls \in mine'[t]
    OBVIOUS
  <2>1. PICK u \in Threads : Step(u)
    BY DEF Next, Stopped
  <2> QED  BY <2>1, ReturnsStep
<1> QED  BY <1>1, InvAlways, PTL DEF Spec, ReturnsInitialized

\* The child of fork never completes a class with some +initialize that a
\* thread of the parent may have been initializing.
THEOREM ForkCompletes == Spec /\ []RootsAreEmpty => ForkCompletesNothing
<1>1. Inv /\ [Next]_vars /\ RootsAreEmpty =>
        [\A c \in Classes \ Trivial :
           child /\ state[c] = "initializing" /\ ~(\E t \in alive : c \in mine[t])
             => /\ state'[c] = "initializing"
                /\ (\E t \in alive : c \in mine'[t]) => halted' = "fork"]_vars
  <2> SUFFICES ASSUME Inv, RootsAreEmpty, NEW u \in Threads, Step(u),
                      NEW c \in Classes \ Trivial,
                      child, state[c] = "initializing",
                      \A t \in alive : c \notin mine[t]
               PROVE  /\ state'[c] = "initializing"
                      /\ \A t \in alive : c \in mine'[t] => halted' = "fork"
    BY DEF Next, Stopped
  <2>0. alive = {u} /\ c \notin mine[u] /\ States /\ halted = "no"
    BY InvFacts DEF Step, Processes
  <2>1. ASSUME UNCHANGED <<state, mine>>
        PROVE  /\ state'[c] = "initializing"
               /\ \A t \in alive : c \in mine'[t] => halted' = "fork"
    BY <2>1
  <2>2. CASE Try(u)
    BY <2>0, <2>2 DEF Try, States
  <2>3. CASE Record(u)
    BY <2>0, <2>3 DEF Record, SetMine, Refused, States
  <2>4. CASE FinishInitializing(u)
    <3>1. /\ At(u, "finish") /\ SuperDone(Top(u).cls)
          /\ Top(u).cls \in mine[u]
      BY <2>4, AtFacts DEF FinishInitializing, FrameOK
    <3>2. c \notin Finished(Top(u).cls)
      BY <2>0, <3>1, InvFacts, FinishedFacts
    <3> QED  BY <2>0, <2>4, <3>2 DEF FinishInitializing, States
  <2>5. CASE OwnedBeforeFork(u)
    BY <2>0, <2>5 DEF OwnedBeforeFork, SetMine, Refused, States
  <2> QED  BY <2>1, <2>2, <2>3, <2>4, <2>5 DEF Step, Continue, Fork, Message,
               InitializeSuper, BodyDone, FinishInitializingAfter, Decide,
               OwnedByThisThread, OwnedByOtherThread, Wait
<1> QED  BY <1>1, InvAlways, PTL DEF Spec, ForkCompletesNothing

=============================================================================
