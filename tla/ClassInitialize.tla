--------------------------- MODULE ClassInitialize ---------------------------
(***************************************************************************)
(* +initialize on demand (objc-initialize.mm): initializeNonMetaClass with *)
(* its recursion to the superclass, the test-and-set of RW_INITIALIZING,   *)
(* the wait for another thread, the classes whose +initialize is over      *)
(* while their superclass's is not (pendingInitializeMap), exceptions, and *)
(* the rules of a child process that was forked from several threads.      *)
(*                                                                         *)
(* A step is a critical section of classInitLock, or one unlocked test.    *)
(***************************************************************************)
EXTENDS Naturals, Sequences, FiniteSets

CONSTANTS
  Threads,
  Classes,
  none,        \* no class
  Super,       \* the superclass of each class, or none
  Ancestors,   \* the superclasses of each class, up to the root
  NoInitialize,\* the classes that find no +initialize, objc_noop_imp or
               \* the one of their root class
  Messages,    \* the classes the +initialize of each class sends messages to
  MaxMessages  \* bound: first messages each thread sends

ASSUME NoneAssumption == none \notin Classes
ASSUME SuperAssumption ==
  /\ Super \in [Classes -> Classes \cup {none}]
  /\ Ancestors \in [Classes -> SUBSET Classes]
  /\ \A c \in Classes :
       /\ c \notin Ancestors[c]
       /\ Ancestors[c] = IF Super[c] = none THEN {}
                         ELSE {Super[c]} \cup Ancestors[Super[c]]
       /\ \A a, b \in Ancestors[c] :
            /\ Ancestors[a] \subseteq Ancestors[c]
            /\ a = b \/ a \in Ancestors[b] \/ b \in Ancestors[a]
ASSUME InitializeAssumption ==
  /\ NoInitialize \subseteq Classes
  /\ Messages \in [Classes -> SUBSET Classes]
ASSUME MaxMessagesAssumption == MaxMessages \in Nat

VARIABLES
  state,    \* RW_INITIALIZING and RW_INITIALIZED of each class
  mine,     \* each thread's list of classes it is initializing
  pending,  \* the classes in pendingInitializeMap, under their superclass
  stack,    \* the calls of initializeNonMetaClass each thread is in
  child,    \* MultithreadedForkChild
  alive,    \* the threads of the process: after the fork, one
  halted,   \* "no", "fork" (refused after fork) or "fatal"
  runs,     \* ghost: how often the +initialize of each class was called
  sent      \* the first messages each thread has sent

vars == <<state, mine, pending, stack, child, alive, halted, runs, sent>>

Frame(c, pc) == [cls |-> c, pc |-> pc, thrown |-> FALSE]

Idle(t) == stack[t] = <<>>
Top(t) == stack[t][Len(stack[t])]
At(t, pc) == ~Idle(t) /\ Top(t).pc = pc
Popped(t) == SubSeq(stack[t], 1, Len(stack[t]) - 1)
Become(t, f) == [stack EXCEPT ![t] = Append(Popped(t), f)]
Goto(t, pc) == stack' = Become(t, [Top(t) EXCEPT !.pc = pc])
Return(t) == stack' = [stack EXCEPT ![t] = Popped(t)]

Initialized(c) == state[c] = "initialized"

\* Code of the program: outside any call, or the +initialize of a class.
InProgram(t) == Idle(t) \/ At(t, "body")
MayMessage(t) == IF Idle(t) THEN Classes ELSE Messages[Top(t).cls]

\* lookUpImpOrForward finds the class not initialized.
Message(t, c) ==
  /\ InProgram(t) /\ c \in MayMessage(t) /\ sent[t] < MaxMessages
  /\ ~Initialized(c)
  /\ stack' = [stack EXCEPT ![t] = Append(@, Frame(c, "super"))]
  /\ sent' = [sent EXCEPT ![t] = @ + 1]
  /\ UNCHANGED <<state, mine, pending, child, alive, halted, runs>>

\* Mutant: begins with the class itself.
InitializeSuperNever(t) ==
  /\ At(t, "super")
  /\ Goto(t, "try")
  /\ UNCHANGED <<state, mine, pending, child, alive, halted, runs, sent>>

\* Make sure super is done initializing before beginning to initialize cls.
InitializeSuper(t) ==
  /\ At(t, "super")
  /\ LET s == Super[Top(t).cls]
         next == [Top(t) EXCEPT !.pc = "try"] IN
       stack' = IF s # none /\ ~Initialized(s)
                  THEN [Become(t, next) EXCEPT ![t] =
                          Append(@, Frame(s, "super"))]
                  ELSE Become(t, next)
  /\ UNCHANGED <<state, mine, pending, child, alive, halted, runs, sent>>

\* Mutant: does not look at RW_INITIALIZING.
TryOften(t) ==
  /\ At(t, "try")
  /\ IF ~Initialized(Top(t).cls)
       THEN /\ state' = [state EXCEPT ![Top(t).cls] = "initializing"]
            /\ Goto(t, "record")
       ELSE Goto(t, "decide") /\ UNCHANGED state
  /\ UNCHANGED <<mine, pending, child, alive, halted, runs, sent>>

\* Try to atomically set RW_INITIALIZING.
Try(t) ==
  /\ At(t, "try")
  /\ IF state[Top(t).cls] = "no"
       THEN /\ state' = [state EXCEPT ![Top(t).cls] = "initializing"]
            /\ Goto(t, "record")
       ELSE Goto(t, "decide") /\ UNCHANGED state
  /\ UNCHANGED <<mine, pending, child, alive, halted, runs, sent>>

\* _setThisThreadIsInitializingClass halts on a duplicate.
SetMine(t, c) ==
  /\ mine' = [mine EXCEPT ![t] = @ \cup {c}]
  /\ c \notin mine[t]

\* classHasTrivialInitialize, whatever the +initialize of a root class does
Trivial == NoInitialize \cup {c \in Classes : Super[c] = none}

\* performForkChildInitialize: a class that has some +initialize halts.
Refused(c) == child /\ c \notin Trivial

Record(t) ==
  /\ At(t, "record")
  /\ LET c == Top(t).cls IN
       \/ /\ SetMine(t, c) /\ ~Refused(c)
          /\ Goto(t, IF child THEN "finish" ELSE "body")
          /\ runs' = [runs EXCEPT ![c] = IF child THEN @ ELSE @ + 1]
          /\ UNCHANGED halted
       \/ /\ SetMine(t, c) /\ Refused(c)
          /\ halted' = "fork"
          /\ UNCHANGED <<stack, runs>>
       \/ /\ c \in mine[t]
          /\ halted' = "fatal"
          /\ UNCHANGED <<mine, stack, runs>>
  /\ UNCHANGED <<state, pending, child, alive, sent>>

\* +initialize returns, or throws an exception; both complete it.
BodyDone(t) ==
  /\ At(t, "body")
  /\ \E thrown \in BOOLEAN :
       stack' = Become(t, [Top(t) EXCEPT !.pc = "finish", !.thrown = thrown])
  /\ UNCHANGED <<state, mine, pending, child, alive, halted, runs, sent>>

(***************************************************************************)
(* lockAndFinishInitializing, in one critical section.                     *)
(***************************************************************************)
SuperDone(c) == Super[c] # none => Initialized(Super[c])

\* c and the subclasses that were merely waiting for it, recursively
Finished(c) ==
  {c} \cup {d \in pending :
              /\ c \in Ancestors[d]
              /\ \A e \in Ancestors[d] : c \in Ancestors[e] => e \in pending}

\* An exception passes through the calls that wait for a superclass to the
\* +initialize, or the code outside, that sent the message.
Unwound(t) ==
  LET below == {i \in 1..Len(stack[t]) - 1 : stack[t][i].pc = "body"} IN
  SubSeq(stack[t], 1,
         IF below = {} THEN 0
         ELSE CHOOSE i \in below : \A j \in below : j <= i)

\* Mutant: wakes nobody.
NotifyNobody(st) == st

\* classInitLock.notifyAll
NotifyAll(st) ==
  [u \in Threads |->
     [i \in 1..Len(st[u]) |->
        IF st[u][i].pc = "asleep" THEN [st[u][i] EXCEPT !.pc = "wait"]
                                  ELSE st[u][i]]]

Left(t) == [stack EXCEPT ![t] = IF Top(t).thrown THEN Unwound(t)
                                                 ELSE Popped(t)]

\* _finishInitializing halts if the thread is not initializing the class.
FinishInitializing(t) ==
  /\ At(t, "finish")
  /\ SuperDone(Top(t).cls)
  /\ LET done == Finished(Top(t).cls) IN
       /\ state' = [c \in Classes |->
                      IF c \in done THEN "initialized" ELSE state[c]]
       /\ pending' = pending \ done
       /\ mine' = [mine EXCEPT ![t] = @ \ done]
       /\ halted' = IF done \subseteq mine[t] THEN halted ELSE "fatal"
  /\ stack' = NotifyAll(Left(t))
  /\ UNCHANGED <<child, alive, runs, sent>>

FinishInitializingAfter(t) ==
  /\ At(t, "finish")
  /\ ~SuperDone(Top(t).cls)
  /\ pending' = pending \cup {Top(t).cls}
  /\ stack' = Left(t)
  /\ UNCHANGED <<state, mine, child, alive, halted, runs, sent>>

(***************************************************************************)
(* RW_INITIALIZING was already set, or the class became initialized.       *)
(***************************************************************************)
\* Mutant: looks at RW_INITIALIZED first.
DecideInitializedFirst(t) ==
  /\ \/ /\ At(t, "decide")
        /\ IF Initialized(Top(t).cls) THEN Return(t) ELSE Goto(t, "decided")
        /\ UNCHANGED halted
     \/ /\ At(t, "decided")
        /\ IF state[Top(t).cls] = "initializing"
             THEN Goto(t, "owner") /\ UNCHANGED halted
             ELSE halted' = "fatal" /\ UNCHANGED stack
  /\ UNCHANGED <<state, mine, pending, child, alive, runs, sent>>

\* Two tests, in this order, without the lock.
Decide(t) ==
  /\ \/ /\ At(t, "decide")
        /\ Goto(t, IF state[Top(t).cls] = "initializing" THEN "owner"
                                                         ELSE "decided")
        /\ UNCHANGED halted
     \/ /\ At(t, "decided")
        /\ IF Initialized(Top(t).cls)
             THEN Return(t) /\ UNCHANGED halted
             ELSE halted' = "fatal" /\ UNCHANGED stack
  /\ UNCHANGED <<state, mine, pending, child, alive, runs, sent>>

\* _thisThreadIsInitializingClass
OwnedByThisThread(t) ==
  /\ At(t, "owner") /\ Top(t).cls \in mine[t]
  /\ Return(t)
  /\ UNCHANGED <<state, mine, pending, child, alive, halted, runs, sent>>

\* Mutant: goes on without waiting.
OwnedByOtherThreadIgnored(t) ==
  /\ At(t, "owner") /\ Top(t).cls \notin mine[t] /\ ~child
  /\ Return(t)
  /\ UNCHANGED <<state, mine, pending, child, alive, halted, runs, sent>>

OwnedByOtherThread(t) ==
  /\ At(t, "owner") /\ Top(t).cls \notin mine[t] /\ ~child
  /\ Goto(t, "wait")
  /\ UNCHANGED <<state, mine, pending, child, alive, halted, runs, sent>>

\* Mutant: takes over whatever class another thread was initializing.
OwnedBeforeForkTaken(t) ==
  /\ At(t, "owner") /\ Top(t).cls \notin mine[t] /\ child
  /\ SetMine(t, Top(t).cls)
  /\ Goto(t, "finish")
  /\ UNCHANGED <<state, pending, child, alive, halted, runs, sent>>

\* Another thread was initializing the class when this process was forked.
OwnedBeforeFork(t) ==
  /\ At(t, "owner") /\ Top(t).cls \notin mine[t] /\ child
  /\ SetMine(t, Top(t).cls)
  /\ IF Refused(Top(t).cls)
       THEN halted' = "fork" /\ UNCHANGED stack
       ELSE Goto(t, "finish") /\ UNCHANGED halted
  /\ UNCHANGED <<state, pending, child, alive, runs, sent>>

\* waitForInitializeToComplete: test and sleep in one critical section.
Wait(t) ==
  /\ At(t, "wait")
  /\ IF Initialized(Top(t).cls) THEN Return(t) ELSE Goto(t, "asleep")
  /\ UNCHANGED <<state, mine, pending, child, alive, halted, runs, sent>>

\* fork() by a thread of a process with several: the others are gone.
Fork(t) ==
  /\ InProgram(t) /\ ~child
  /\ child' = TRUE /\ alive' = {t}
  /\ stack' = [u \in Threads |-> IF u = t THEN stack[t] ELSE <<>>]
  /\ mine' = [u \in Threads |-> IF u = t THEN mine[t] ELSE {}]
  /\ UNCHANGED <<state, pending, halted, runs, sent>>

Init ==
  /\ state = [c \in Classes |-> "no"]
  /\ mine = [t \in Threads |-> {}]
  /\ pending = {}
  /\ stack = [t \in Threads |-> <<>>]
  /\ child = FALSE /\ alive = Threads
  /\ halted = "no"
  /\ runs = [c \in Classes |-> 0]
  /\ sent = [t \in Threads |-> 0]

Continue(t) ==
  \/ InitializeSuper(t) \/ Try(t) \/ Record(t) \/ BodyDone(t)
  \/ FinishInitializing(t) \/ FinishInitializingAfter(t) \/ Decide(t)
  \/ OwnedByThisThread(t) \/ OwnedByOtherThread(t) \/ OwnedBeforeFork(t)
  \/ Wait(t)

Stopped ==
  /\ halted # "no" \/ \A t \in Threads : Idle(t)
  /\ UNCHANGED vars

Step(t) ==
  /\ halted = "no" /\ t \in alive
  /\ Continue(t) \/ Fork(t) \/ \E c \in Classes : Message(t, c)

Next == (\E t \in Threads : Step(t)) \/ Stopped

\* A thread in a call goes on, +initialize returns, a waiter is scheduled.
Fairness ==
  \A t \in Threads : WF_vars(halted = "no" /\ t \in alive /\ Continue(t))

Spec == Init /\ [][Next]_vars
FairSpec == Spec /\ Fairness

(***************************************************************************)
(* Properties.                                                             *)
(***************************************************************************)
Labels == {"super", "try", "record", "body", "finish", "decide", "decided",
           "owner", "wait", "asleep"}
FrameType == [cls : Classes, pc : Labels, thrown : BOOLEAN]

\* The values the variables take.
TypeOK ==
  /\ state \in [Classes -> {"no", "initializing", "initialized"}]
  /\ mine \in [Threads -> SUBSET Classes]
  /\ pending \subseteq Classes
  /\ stack \in [Threads -> Seq(FrameType)]
  /\ child \in BOOLEAN
  /\ alive \subseteq Threads
  /\ halted \in {"no", "fork", "fatal"}
  /\ runs \in [Classes -> Nat]
  /\ sent \in [Threads -> Nat]

\* The thread has set RW_INITIALIZING of c, and has recorded it or is about
\* to.
Initializes(t, c) ==
  \/ c \in mine[t]
  \/ \E i \in DOMAIN stack[t] :
       stack[t][i].cls = c /\ stack[t][i].pc = "record"

\* "The initializing+initialized part of the class hierarchy will be a
\* contiguous subtree starting at the root": a class is touched only after
\* its superclass is done, or by the thread that is doing the superclass.
Contiguous ==
  \A c \in Classes :
    state[c] # "no" /\ Super[c] # none =>
      \/ Initialized(Super[c])
      \/ /\ state[c] = "initializing" /\ state[Super[c]] = "initializing"
         /\ \A t \in Threads : Initializes(t, c) => Initializes(t, Super[c])

\* "Only one thread is allowed to actually initialize a class and send
\* +initialize."
InitializedOnce ==
  \A c \in Classes :
    /\ runs[c] <= 1
    /\ \A t, u \in Threads : Initializes(t, c) /\ Initializes(u, c) => t = u

\* "Root class +initialize is assumed to be empty if it exists": in the child
\* of a fork the classes taken for trivial send no message.
RootsAreEmpty == child => \A c \in Trivial : Messages[c] = {}

\* None of the checks that halt the process with "thread-safe class init is
\* buggy", "thread is already initializing this class" or "thread is not
\* initializing this class" fires, if RootsAreEmpty always holds.
NoFatal == halted # "fatal"

\* A call of initializeNonMetaClass that returns leaves the class initialized,
\* or being initialized by the calling thread, which alone may use it.
Returned(t) ==
  ~Idle(t) /\ ~Top(t).thrown /\ t \in alive' /\ Len(stack'[t]) < Len(stack[t])
ReturnsInitialized ==
  [][\A t \in Threads : Returned(t) =>
       state'[Top(t).cls] = "initialized" \/ Top(t).cls \in mine'[t]]_vars

\* In the child of fork a class that is not trivial, and whose +initialize may
\* have been in progress on a thread that is gone, is never taken for
\* initialized: it stays as it is until a thread of the child needs it, and
\* that halts the process (if RootsAreEmpty always holds).
ForkCompletesNothing ==
  [][\A c \in Classes \ Trivial :
       child /\ state[c] = "initializing" /\ ~(\E t \in alive : c \in mine[t])
         => /\ state'[c] = "initializing"
            /\ (\E t \in alive : c \in mine'[t]) => halted' = "fork"]_vars

\* Every message is sent in the end, if +initialize methods message only
\* superclasses and subclasses of their class: "we won't get stuck while a
\* superclass waits for its subclass which waits for the superclass".
MessagesReturn ==
  \A t \in Threads : ~Idle(t) ~> Idle(t) \/ halted # "no"
=============================================================================
