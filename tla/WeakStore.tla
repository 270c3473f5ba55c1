------------------------------ MODULE WeakStore ------------------------------
(***************************************************************************)
(* Weak variables: objc_storeWeak, objc_storeWeakOrNil, objc_initWeak,     *)
(* objc_destroyWeak, objc_loadWeakRetained, objc_copyWeak, objc_moveWeak   *)
(* and the clearing of weak variables by -dealloc, over several objects,   *)
(* variables and side tables, with the +initialize that a store or a load  *)
(* may have to run first.                                                  *)
(*                                                                         *)
(* Retain and release are atomic here: RefCount shows that they implement  *)
(* ObjectLife.  A step is an unlocked read of a variable, the taking of    *)
(* one lock, or a critical section.                                        *)
(***************************************************************************)
EXTENDS Naturals, Sequences, FiniteSets

CONSTANTS
  Threads, Objects, Locations,
  nil,         \* the nil pointer
  Stripes,     \* the side tables, by address
  StripeOf,    \* SideTables()[obj], which nil has too
  ClassOf,     \* the class of each object
  Initialized, \* the classes that are initialized at the start
  MaxCalls     \* bound: calls the program makes on each thread

ASSUME NilAssumption == nil \notin Objects \cup Threads \cup Locations
ASSUME StripeAssumption ==
  Stripes \subseteq Nat /\ StripeOf \in [Objects \cup {nil} -> Stripes]
ASSUME MaxCallsAssumption == MaxCalls \in Nat

VARIABLES
  loc,       \* the contents of each weak variable
  locState,  \* "weak", or "raw" memory before initWeak and after destroyWeak
  reg,       \* the weak tables: pairs of a referent and a referrer
  wref,      \* the objects whose weakly_referenced bit is set
  owner,     \* the owner of each side table's lock, or nil
  phase,     \* "live", "deallocating" or "freed"
  owns,      \* the objects each thread owns a reference to
  initState, \* "no", "running" or "done", for each class
  initBy,    \* the thread that runs +initialize of a class, or nil
  stack,     \* the calls each thread is in, innermost last
  error,     \* objc_weak_error was called, or the process was halted
  calls      \* the calls each thread may still make

vars == <<loc, locState, reg, wref, owner, phase, owns, initState, initBy,
          stack, error, calls>>

Classes == {ClassOf[o] : o \in Objects}
NoClass == nil

(***************************************************************************)
(* Calls.  A frame is a call: the label it is at and its locals; o is the  *)
(* new object of a store and the dead one of a dealloc, d the destination  *)
(* of a copy or a move, prev is previouslyInitializedClass.                *)
(***************************************************************************)
Frame(op, pc, l, o, d) ==
  [op |-> op, pc |-> pc, l |-> l, o |-> o, d |-> d, old |-> nil,
   prev |-> NoClass]

InitializeFrame(c) ==
  [Frame("class_initialize", "initialize", nil, nil, nil) EXCEPT !.prev = c]

Idle(t) == stack[t] = <<>>
Top(t) == stack[t][Len(stack[t])]
At(t, pc) == ~Idle(t) /\ Top(t).pc = pc

Popped(t) == SubSeq(stack[t], 1, Len(stack[t]) - 1)
Push(t, f) == stack' = [stack EXCEPT ![t] = Append(@, f)]
Pop(t) == stack' = [stack EXCEPT ![t] = Popped(t)]
Become(t, f) == stack' = [stack EXCEPT ![t] = Append(Popped(t), f)]
Goto(t, pc) == Become(t, [Top(t) EXCEPT !.pc = pc])

RunningFrames ==
  UNION {{stack[t][i] : i \in 1..Len(stack[t])} : t \in Threads}

Loading(f) == f.op \in {"loadWeakRetained", "copyWeak"}
HaveOld(f) ==
  Loading(f) \/ f.op \in {"storeWeak", "storeWeakOrNil", "destroyWeak",
                          "moveWeak"}
HaveNew(f) ==
  f.op \in {"storeWeak", "storeWeakOrNil", "initWeak", "copyWeakInit"}

(***************************************************************************)
(* What the program may do.  The functions other than storeWeak and        *)
(* loadWeak are not safe against concurrent modifications of the variable. *)
(***************************************************************************)
\* Where a call starts: its retry label.
Retry(f) == IF HaveOld(f) THEN "read" ELSE "lock"

InUse(l) == \E f \in RunningFrames : l \in {f.l, f.d}
Modified(l) ==
  \E f \in RunningFrames : (l = f.l /\ ~Loading(f)) \/ l = f.d
ModifiedAlone(l) ==
  \E f \in RunningFrames :
    (l = f.l /\ f.op \notin {"storeWeak", "storeWeakOrNil",
                             "loadWeakRetained", "copyWeak"}) \/ l = f.d
Destroyed(l) == \E f \in RunningFrames : l = f.l /\ f.op = "destroyWeak"

Weak(l) == locState[l] = "weak"
Fresh(l) == locState[l] = "raw" /\ ~InUse(l)

\* Code of the program runs on t: outside any call or in a +initialize.
InProgram(t) == Idle(t) \/ At(t, "running")

Call(t, f) ==
  /\ calls[t] > 0
  /\ calls' = [calls EXCEPT ![t] = @ - 1]
  /\ Push(t, f)
  /\ UNCHANGED <<loc, locState, reg, wref, owner, phase, owns,
                 initState, initBy, error>>

StartStoreWeak(t) ==
  /\ InProgram(t)
  /\ \E l \in Locations, o \in owns[t] \cup {nil} :
       /\ Weak(l) /\ ~ModifiedAlone(l)
       /\ Call(t, Frame("storeWeak", "read", l, o, nil))

\* -dealloc may store self with objc_storeWeakOrNil.
StartStoreWeakOrNil(t) ==
  /\ At(t, "dealloc")
  /\ \E l \in Locations :
       /\ Weak(l) /\ ~ModifiedAlone(l)
       /\ Call(t, Frame("storeWeakOrNil", "read", l, Top(t).o, nil))

StartInitWeak(t) ==
  /\ InProgram(t)
  /\ \E l \in Locations, o \in owns[t] :
       Fresh(l) /\ Call(t, Frame("initWeak", "lock", l, o, nil))

StartDestroyWeak(t) ==
  /\ InProgram(t) \/ At(t, "dealloc")
  /\ \E l \in Locations :
       /\ Weak(l) /\ ~InUse(l)
       /\ Call(t, Frame("destroyWeak", "read", l, nil, nil))

StartLoadWeak(t) ==
  /\ InProgram(t)
  /\ \E l \in Locations :
       /\ Weak(l) /\ ~Destroyed(l)
       /\ Call(t, Frame("loadWeakRetained", "read", l, nil, nil))

StartCopyWeak(t) ==
  /\ InProgram(t)
  /\ \E l, d \in Locations :
       /\ Weak(l) /\ ~Destroyed(l) /\ Fresh(d)
       /\ Call(t, Frame("copyWeak", "read", l, nil, d))

StartMoveWeak(t) ==
  /\ InProgram(t)
  /\ \E l, d \in Locations :
       /\ Weak(l) /\ ~Modified(l) /\ Fresh(d)
       /\ Call(t, Frame("moveWeak", "read", l, nil, d))

(***************************************************************************)
(* The retry loop: read the variable, lock, and read it again.             *)
(***************************************************************************)
Read(t) ==
  /\ At(t, "read")
  /\ ~(loc[Top(t).l] = nil /\ (Loading(Top(t)) \/ Top(t).op = "moveWeak"))
  /\ Become(t, [Top(t) EXCEPT !.old = loc[Top(t).l], !.pc = "lock"])
  /\ UNCHANGED <<loc, locState, reg, wref, owner, phase, owns,
                 initState, initBy, error, calls>>

\* A load, a copy or a move of nil needs no lock.
ReadNil(t) ==
  /\ At(t, "read")
  /\ loc[Top(t).l] = nil /\ (Loading(Top(t)) \/ Top(t).op = "moveWeak")
  /\ IF Top(t).op = "loadWeakRetained"
       THEN UNCHANGED <<loc, locState>>
       ELSE /\ loc' = [loc EXCEPT ![Top(t).d] = nil]
            /\ locState' = [locState EXCEPT ![Top(t).d] = "weak"]
  /\ Pop(t)
  /\ UNCHANGED <<reg, wref, owner, phase, owns, initState, initBy, error,
                 calls>>

\* The side tables a call locks: lockTwo takes one lock if they are the same.
Need(f) == (IF HaveOld(f) THEN {StripeOf[f.old]} ELSE {})
           \cup (IF HaveNew(f) THEN {StripeOf[f.o]} ELSE {})
Held(t) == {s \in Stripes : owner[s] = t}
Missing(t) == Need(Top(t)) \ Held(t)

\* lockTwo: the lower address first.
NextLock(t) == CHOOSE s \in Missing(t) : \A r \in Missing(t) : s <= r

Lock(t) ==
  /\ At(t, "lock")
  /\ LET s == NextLock(t) IN
       /\ owner[s] = nil
       /\ owner' = [owner EXCEPT ![s] = t]
       /\ Goto(t, IF Missing(t) = {s} THEN "locked" ELSE "lock")
  /\ UNCHANGED <<loc, locState, reg, wref, phase, owns, initState, initBy,
                 error, calls>>

Unlock(t) == owner' = [s \in Stripes |-> IF owner[s] = t THEN nil ELSE owner[s]]

Changed(t) == HaveOld(Top(t)) /\ loc[Top(t).l] # Top(t).old

TryAgain(t) ==
  /\ At(t, "locked") /\ Changed(t)
  /\ Unlock(t)
  /\ Goto(t, "read")
  /\ UNCHANGED <<loc, locState, reg, wref, phase, owns, initState, initBy,
                 error, calls>>

(***************************************************************************)
(* +initialize, run without the side table locks.                          *)
(***************************************************************************)
\* The object whose class must be initialized before the call goes on.
Subject(f) == IF Loading(f) THEN f.old ELSE f.o

\* Mutant: storeWeak does not remember the class.
MustInitializeForgetful(t) ==
  LET f == Top(t)  c == ClassOf[Subject(f)] IN
  /\ HaveNew(f) \/ Loading(f)
  /\ Subject(f) # nil
  /\ initState[c] # "done"
  /\ Loading(f) => initBy[c] # t

\* storeWeak goes on if it has called class_initialize for the class, a load
\* if this thread is initializing it.
MustInitialize(t) ==
  LET f == Top(t)  c == ClassOf[Subject(f)] IN
  /\ HaveNew(f) \/ Loading(f)
  /\ Subject(f) # nil
  /\ initState[c] # "done"
  /\ IF Loading(f) THEN initBy[c] # t ELSE f.prev # c

CallInitialize(t) ==
  /\ At(t, "locked") /\ ~Changed(t) /\ MustInitialize(t)
  /\ Unlock(t)
  /\ LET f == Top(t)  c == ClassOf[Subject(f)] IN
       stack' = [stack EXCEPT ![t] =
         Popped(t) \o <<[f EXCEPT !.pc = Retry(f), !.prev = c],
                        InitializeFrame(c)>>]
  /\ UNCHANGED <<loc, locState, reg, wref, phase, owns, initState, initBy,
                 error, calls>>

\* Run +initialize, or return at once if it has run or runs on this thread;
\* otherwise wait.
Initialize(t) ==
  /\ At(t, "initialize")
  /\ LET c == Top(t).prev IN
       \/ /\ initState[c] = "done" \/ initBy[c] = t
          /\ Pop(t)
          /\ UNCHANGED <<initState, initBy>>
       \/ /\ initState[c] = "no"
          /\ initState' = [initState EXCEPT ![c] = "running"]
          /\ initBy' = [initBy EXCEPT ![c] = t]
          /\ Goto(t, "running")
  /\ UNCHANGED <<loc, locState, reg, wref, owner, phase, owns, error, calls>>

Initialize_done(t) ==
  /\ At(t, "running")
  /\ initState' = [initState EXCEPT ![Top(t).prev] = "done"]
  /\ initBy' = [initBy EXCEPT ![Top(t).prev] = nil]
  /\ Pop(t)
  /\ UNCHANGED <<loc, locState, reg, wref, owner, phase, owns, error, calls>>

(***************************************************************************)
(* The critical sections.                                                  *)
(***************************************************************************)
Ready(t, ops) ==
  At(t, "locked") /\ Top(t).op \in ops /\ ~Changed(t) /\ ~MustInitialize(t)

Referrers(o) == {p \in reg : p[1] = o}

\* remove_referrer reports an unknown variable if the object has an entry.
UnknownReferrer(o, l) == Referrers(o) # {} /\ <<o, l>> \notin reg

\* weak_register_no_lock rejects a deallocating object.
Rejected(o) == o # nil /\ phase[o] # "live"

\* Mutant: does not unregister the old value.
StoredLeaky(f, o) == reg \cup (IF o = nil THEN {} ELSE {<<o, f.l>>})

\* The weak table after old is unregistered and o registered.
Stored(f, o) == (reg \ {<<f.old, f.l>>})
                \cup (IF o = nil THEN {} ELSE {<<o, f.l>>})

\* Mutant: does not set the weakly_referenced bit.
StoreBodyUnmarked(t) ==
  /\ Ready(t, {"storeWeak", "storeWeakOrNil", "initWeak", "copyWeakInit"})
  /\ LET f == Top(t)
         o == IF Rejected(f.o) THEN nil ELSE f.o IN
       /\ error' = (error \/ (Rejected(f.o) /\ f.op # "storeWeakOrNil")
                          \/ UnknownReferrer(f.old, f.l))
       /\ reg' = Stored(f, o)
       /\ loc' = [loc EXCEPT ![f.l] = o]
       /\ locState' = [locState EXCEPT ![f.l] = "weak"]
       /\ IF f.op = "copyWeakInit" THEN Goto(t, "release") ELSE Pop(t)
  /\ Unlock(t)
  /\ UNCHANGED <<wref, phase, owns, initState, initBy, calls>>

StoreBody(t) ==
  /\ Ready(t, {"storeWeak", "storeWeakOrNil", "initWeak", "copyWeakInit"})
  /\ LET f == Top(t)
         o == IF Rejected(f.o) THEN nil ELSE f.o IN
       /\ error' = (error \/ (Rejected(f.o) /\ f.op # "storeWeakOrNil")
                          \/ UnknownReferrer(f.old, f.l))
       /\ reg' = Stored(f, o)
       /\ wref' = wref \cup ({o} \ {nil})
       /\ loc' = [loc EXCEPT ![f.l] = o]
       /\ locState' = [locState EXCEPT ![f.l] = "weak"]
       /\ IF f.op = "copyWeakInit" THEN Goto(t, "release") ELSE Pop(t)
  /\ Unlock(t)
  /\ UNCHANGED <<phase, owns, initState, initBy, calls>>

\* The storage is not changed.
DestroyBody(t) ==
  /\ Ready(t, {"destroyWeak"})
  /\ LET f == Top(t) IN
       /\ error' = (error \/ UnknownReferrer(f.old, f.l))
       /\ reg' = reg \ {<<f.old, f.l>>}
       /\ locState' = [locState EXCEPT ![f.l] = "raw"]
  /\ Unlock(t) /\ Pop(t)
  /\ UNCHANGED <<loc, wref, phase, owns, initState, initBy, calls>>

\* objc_loadWeakRetained, alone or in objc_copyWeak; rootTryRetain succeeds
\* on a live object.
LoadBody(t) ==
  /\ Ready(t, {"loadWeakRetained", "copyWeak"})
  /\ LET f == Top(t) IN
       CASE f.op = "loadWeakRetained" ->
              /\ owns' = IF phase[f.old] = "live"
                           THEN [owns EXCEPT ![t] = @ \cup {f.old}] ELSE owns
              /\ Pop(t)
              /\ UNCHANGED <<loc, locState>>
         [] f.op = "copyWeak" /\ phase[f.old] = "live" ->
              /\ Become(t, Frame("copyWeakInit", "lock", f.d, f.old, nil))
              /\ UNCHANGED <<owns, loc, locState>>
         [] OTHER ->
              /\ loc' = [loc EXCEPT ![f.d] = nil]
              /\ locState' = [locState EXCEPT ![f.d] = "weak"]
              /\ Pop(t)
              /\ UNCHANGED owns
  /\ Unlock(t)
  /\ UNCHANGED <<reg, wref, phase, initState, initBy, error, calls>>

Moved(f) == (reg \ {<<f.old, f.l>>}) \cup {<<f.old, f.d>>}

MoveBody(t) ==
  /\ Ready(t, {"moveWeak"})
  /\ LET f == Top(t) IN
       /\ error' = (error \/ UnknownReferrer(f.old, f.l))
       /\ reg' = Moved(f)
       /\ loc' = [loc EXCEPT ![f.d] = f.old, ![f.l] = nil]
       /\ locState' = [locState EXCEPT ![f.d] = "weak"]
  /\ Unlock(t) /\ Pop(t)
  /\ UNCHANGED <<wref, phase, owns, initState, initBy, calls>>

(***************************************************************************)
(* References and deallocation.                                            *)
(***************************************************************************)
\* The threads that keep o alive; objc_copyWeak holds a reference of its own.
Owners(o) == {t \in Threads : o \in owns[t]}
Copiers(o) ==
  {t \in Threads : \E i \in 1..Len(stack[t]) :
     stack[t][i].op = "copyWeakInit" /\ stack[t][i].o = o}

DeallocFrame(o) == Frame("dealloc", "dealloc", nil, o, nil)

\* A message to an instance of a class that is not initialized
StartMessage(t) ==
  /\ InProgram(t)
  /\ \E o \in owns[t] :
       /\ initState[ClassOf[o]] # "done" /\ initBy[ClassOf[o]] # t
       /\ Call(t, InitializeFrame(ClassOf[o]))

\* The program does not release what a call it is in still uses.
Release(t) ==
  /\ InProgram(t) /\ calls[t] > 0
  /\ \E o \in owns[t] :
       /\ initState[ClassOf[o]] = "done" \/ initBy[ClassOf[o]] = t
       /\ \A i \in 1..Len(stack[t]) : stack[t][i].o # o
       /\ owns' = [owns EXCEPT ![t] = @ \ {o}]
       /\ IF Owners(o) \ {t} # {} \/ Copiers(o) # {}
            THEN UNCHANGED <<phase, stack>>
            ELSE /\ phase' = [phase EXCEPT ![o] = "deallocating"]
                 /\ Push(t, DeallocFrame(o))
  /\ calls' = [calls EXCEPT ![t] = @ - 1]
  /\ UNCHANGED <<loc, locState, reg, wref, owner, initState, initBy, error>>

\* The release at the end of objc_copyWeak.
CopyRelease(t) ==
  /\ At(t, "release")
  /\ LET o == Top(t).o IN
       IF Owners(o) # {} \/ Copiers(o) # {t}
         THEN Pop(t) /\ UNCHANGED phase
         ELSE /\ phase' = [phase EXCEPT ![o] = "deallocating"]
              /\ Become(t, DeallocFrame(o))
  /\ UNCHANGED <<loc, locState, reg, wref, owner, owns, initState, initBy,
                 error, calls>>

DeallocBodyDone(t) ==
  /\ At(t, "dealloc")
  /\ Goto(t, IF Top(t).o \in wref THEN "clear" ELSE "free")
  /\ UNCHANGED <<loc, locState, reg, wref, owner, phase, owns, initState,
                 initBy, error, calls>>

\* clearDeallocating and weak_clear_no_lock
Clear(t) ==
  /\ At(t, "clear")
  /\ LET o == Top(t).o
         ls == {p[2] : p \in Referrers(o)} IN
       /\ owner[StripeOf[o]] = nil
       /\ error' = (error \/ \E l \in ls : loc[l] \notin {o, nil})
       /\ loc' = [l \in Locations |->
                    IF l \in ls /\ loc[l] = o THEN nil ELSE loc[l]]
       /\ reg' = reg \ Referrers(o)
  /\ Goto(t, "free")
  /\ UNCHANGED <<locState, wref, owner, phase, owns, initState, initBy, calls>>

Free(t) ==
  /\ At(t, "free")
  /\ phase' = [phase EXCEPT ![Top(t).o] = "freed"]
  /\ wref' = wref \ {Top(t).o}
  /\ Pop(t)
  /\ UNCHANGED <<loc, locState, reg, owner, owns, initState, initBy, error,
                 calls>>

\* malloc may give the address to a new object.
Alloc(t) ==
  /\ InProgram(t) /\ calls[t] > 0
  /\ \E o \in Objects :
       /\ phase[o] = "freed"
       /\ phase' = [phase EXCEPT ![o] = "live"]
       /\ owns' = [owns EXCEPT ![t] = @ \cup {o}]
  /\ calls' = [calls EXCEPT ![t] = @ - 1]
  /\ UNCHANGED <<loc, locState, reg, wref, owner, initState, initBy, stack,
                 error>>

Init ==
  /\ loc = [l \in Locations |-> nil]
  /\ locState \in [Locations -> {"raw", "weak"}]
  /\ reg = {} /\ wref = {}
  /\ owner = [s \in Stripes |-> nil]
  /\ phase = [o \in Objects |-> "live"]
  /\ \E holder \in [Objects -> Threads] :
       owns = [t \in Threads |-> {o \in Objects : holder[o] = t}]
  /\ initState = [c \in Classes |-> IF c \in Initialized THEN "done" ELSE "no"]
  /\ initBy = [c \in Classes |-> nil]
  /\ stack = [t \in Threads |-> <<>>]
  /\ error = FALSE
  /\ calls = [t \in Threads |-> MaxCalls]

Start(t) ==
  \/ StartStoreWeak(t) \/ StartStoreWeakOrNil(t) \/ StartInitWeak(t)
  \/ StartDestroyWeak(t) \/ StartLoadWeak(t) \/ StartCopyWeak(t)
  \/ StartMoveWeak(t) \/ StartMessage(t) \/ Release(t) \/ Alloc(t)

Continue(t) ==
  \/ Read(t) \/ ReadNil(t) \/ Lock(t) \/ TryAgain(t)
  \/ CallInitialize(t) \/ Initialize(t) \/ Initialize_done(t)
  \/ StoreBody(t) \/ DestroyBody(t) \/ LoadBody(t) \/ MoveBody(t)
  \/ CopyRelease(t) \/ DeallocBodyDone(t) \/ Clear(t) \/ Free(t)

\* The program may stop between calls.
Stopped == (\A t \in Threads : Idle(t)) /\ UNCHANGED vars

Next == (\E t \in Threads : Start(t) \/ Continue(t)) \/ Stopped

Fairness == \A t \in Threads : WF_vars(Continue(t))

Spec == Init /\ [][Next]_vars
FairSpec == Spec /\ Fairness

(***************************************************************************)
(* Properties.                                                             *)
(***************************************************************************)
\* The values the variables take.
TypeOK ==
  /\ loc \in [Locations -> Objects \cup {nil}]
  /\ locState \in [Locations -> {"raw", "weak"}]
  /\ reg \subseteq Objects \X Locations
  /\ wref \subseteq Objects
  /\ owner \in [Stripes -> Threads \cup {nil}]
  /\ phase \in [Objects -> {"live", "deallocating", "freed"}]
  /\ owns \in [Threads -> SUBSET Objects]
  /\ initState \in [Classes -> {"no", "running", "done"}]
  /\ initBy \in [Classes -> Threads \cup {nil}]
  /\ error \in BOOLEAN
  /\ calls \in [Threads -> 0..MaxCalls]

\* The weak tables hold a pair for each weak variable that holds an object,
\* and no other: no store, move, copy, destroy or clear that races with it
\* leaves a pair behind or loses one.
TableMirrorsVariables ==
  reg = {<<loc[l], l>> : l \in {m \in Locations : Weak(m) /\ loc[m] # nil}}

\* A freed address is in no weak variable and in no weak table.
NoDanglingWeak ==
  \A o \in Objects : phase[o] = "freed" =>
    Referrers(o) = {} /\ \A l \in Locations : Weak(l) => loc[l] # o

\* A program that follows the rules of the functions never gets a report of
\* objc_weak_error, and is not halted by a weak store of a dying object.
NoWeakError == ~error

\* +initialize is run and waited for without side table locks: "Prevent a
\* deadlock between the weak reference machinery and the +initialize
\* machinery".
CalloutUnlocked ==
  \A t \in Threads : At(t, "initialize") \/ At(t, "running") => Held(t) = {}

\* What the program sees in a variable: the object until its last release.
View == [l \in Locations |->
           IF Weak(l) /\ loc[l] # nil /\ phase[loc[l]] = "live"
             THEN loc[l] ELSE nil]
Alive == {o \in Objects : phase[o] = "live"}

Zeroing == INSTANCE WeakVariables WITH view <- View, alive <- Alive

\* Weak variables become nil at the last release of their object, all at
\* once, and stay nil when the address is used again.
ImplementsZeroing == Zeroing!Spec

\* Every call returns, whatever stores, loads and +initialize it races with.
CallsReturn == \A t \in Threads : ~Idle(t) ~> Idle(t)
=============================================================================
