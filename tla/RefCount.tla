------------------------------ MODULE RefCount ------------------------------
(***************************************************************************)
(* The retain count of one object: the inline count in the packed isa, its *)
(* overflow into the side table, the raw-isa count kept in the side table  *)
(* alone, weak loads that retain (tryRetain), the weak-reference bit,      *)
(* object_setClass, and deallocation.                                      *)
(*                                                                         *)
(* A step is one atomic access to the isa word (a load, or a compare and   *)
(* swap) or one critical section of the side table lock that does not read *)
(* the isa.  Local values that the code keeps across such accesses are     *)
(* variables.                                                              *)
(***************************************************************************)
EXTENDS Naturals, FiniteSets

CONSTANTS
  Threads,            \* the threads of the program
  NoThread,           \* owner of a free lock
  FirstClass,         \* the class the object is allocated with
  NonpointerClasses,  \* the classes whose instances may have a packed isa
  Targets,            \* the classes object_setClass is called with
  RCHalf,             \* RC_HALF: extra_rc holds 0..2 * RCHalf - 1
  SidePin,            \* SIDE_TABLE_RC_PINNED, in units of SIDE_TABLE_RC_ONE
  MaxRefs             \* bound: references one thread owns at a time

ASSUME NoThreadAssumption == NoThread \notin Threads
ASSUME ThreadsAssumption == IsFiniteSet(Threads)
ASSUME RCHalfAssumption == RCHalf \in Nat /\ RCHalf >= 2
ASSUME SidePinAssumption == SidePin \in Nat /\ SidePin >= RCHalf
ASSUME MaxRefsAssumption == MaxRefs \in Nat \ {0}

RCMax == 2 * RCHalf - 1
SideMod == 2 * SidePin

VARIABLES
  isa,      \* the isa word of the object
  side,     \* the entry of the object in SideTable.refcnts
  lock,     \* owner of the side table's lock
  weakReg,  \* the weak variable is in the object's weak_entry_t
  weakLoc,  \* the weak variable holds the object (else nil)
  freed,    \* the memory has been given back to malloc
  crashed,  \* the process was stopped by a runtime check
  pc,       \* where each thread is
  ret,      \* where it goes when the current call returns
  old,      \* oldisa
  new,      \* newisa of changeIsa, with the class to install
  full,     \* the call is the RRVariant::Full one
  locked,   \* sideTableLocked
  refs      \* ghost: the references each thread owns

shared == <<isa, side, lock, weakReg, weakLoc, freed, crashed>>
local == <<pc, ret, old, new, full, locked>>
vars == <<shared, local, refs>>

Classes == {FirstClass} \cup Targets

Isas == [np : BOOLEAN, cls : Classes, rc : 0..RCMax,
         inside : BOOLEAN, weak : BOOLEAN]
\* inside is has_sidetable_rc; weak is weakly_referenced
Entries == [present : BOOLEAN, cnt : 0..SideMod - 1,
            dealloc : BOOLEAN, weak : BOOLEAN]

ZeroIsa == [np |-> FALSE, cls |-> FirstClass, rc |-> 0,
            inside |-> FALSE, weak |-> FALSE]
NoEntry == [present |-> FALSE, cnt |-> 0, dealloc |-> FALSE, weak |-> FALSE]

\* Mutant: forgets that the side table may hold a count.
DeadInlineOnly(i) == i.rc = 0

\* isa_t::isDeallocating
Dead(i) == i.rc = 0 /\ ~i.inside

\* rootIsDeallocating
RootIsDeallocating == IF isa.np THEN Dead(isa) ELSE side.dealloc

\* rootRetainCount, for a caller that holds the lock
RootRetainCount ==
  IF isa.np THEN isa.rc + (IF isa.inside THEN side.cnt ELSE 0)
            ELSE side.cnt + 1

Owned == {p \in Threads \X (1..MaxRefs) : p[2] <= refs[p[1]]}
TotalRefs == Cardinality(Owned)

(***************************************************************************)
(* Operations on the side table entry.                                     *)
(***************************************************************************)
Pinned(s) == s.cnt >= SidePin

\* sidetable_retain, and sidetable_tryRetain when it succeeds
SideIncrement(s) ==
  [s EXCEPT !.present = TRUE, !.cnt = IF Pinned(s) THEN @ ELSE @ + 1]

\* Subtraction in the unsigned count field of an entry.
Minus(x, y) == IF x >= y THEN x - y ELSE x + SideMod - y

\* sidetable_release when it does not deallocate
SideDecrement(s) == [s EXCEPT !.cnt = IF Pinned(s) THEN @ ELSE Minus(@, 1)]

\* Mutant: overwrites the count instead of adding to it.
AddExtraRCOverwrites(s, delta) == [s EXCEPT !.present = TRUE, !.cnt = delta]

\* sidetable_addExtraRC_nolock
AddExtraRC(s, delta) ==
  [s EXCEPT !.present = TRUE,
            !.cnt = IF Pinned(s) THEN @
                    ELSE IF @ + delta >= SideMod THEN SidePin
                    ELSE @ + delta]

\* sidetable_subExtraRC_nolock, when the entry is not zero
SubExtraRC(s, delta) == [s EXCEPT !.cnt = Minus(@, delta)]

\* Mutant: counts the first reference twice.
MoveExtraRCWhole(s, i) ==
  [present |-> TRUE, cnt |-> s.cnt + i.rc, dealloc |-> Dead(i),
   weak |-> i.weak]

\* sidetable_moveExtraRC_nolock: extra_rc - 1 is a size_t
MoveExtraRC(s, i) ==
  LET sum == s.cnt + Minus(i.rc, 1) IN
  [present |-> TRUE, cnt |-> IF sum >= SideMod THEN SidePin ELSE sum,
   dealloc |-> Dead(i), weak |-> i.weak]

(***************************************************************************)
(* Control.                                                                *)
(***************************************************************************)
Go(t, l) == pc' = [pc EXCEPT ![t] = l]

\* Call l and continue at r afterwards; the call starts by loading the isa.
Enter(t, l, r) ==
  /\ Go(t, l)
  /\ ret' = [ret EXCEPT ![t] = r]
  /\ old' = [old EXCEPT ![t] = isa]

\* Leave the current call for l and forget its locals.
Leave(t, l) ==
  /\ Go(t, l)
  /\ ret' = [ret EXCEPT ![t] = "idle"]
  /\ old' = [old EXCEPT ![t] = ZeroIsa]
  /\ new' = [new EXCEPT ![t] = ZeroIsa]
  /\ full' = [full EXCEPT ![t] = FALSE]
  /\ locked' = [locked EXCEPT ![t] = FALSE]

Return(t) == Leave(t, ret[t])

Reload(t) == old' = [old EXCEPT ![t] = isa]

Acquire(t) == lock = NoThread /\ lock' = t

\* os_unfair_lock_unlock stops a process that unlocks a lock it does not own.
Unlock(t) ==
  /\ lock' = IF lock = t THEN NoThread ELSE lock
  /\ crashed' = (lock # t)

UnlockIf(cond, t) ==
  IF cond THEN Unlock(t) ELSE UNCHANGED <<lock, crashed>>

\* Mutant: a plain store.
StoreBlind(t, i) == isa' = i

\* StoreExclusive: the isa changes only if it is still oldisa.
Store(t, i) == isa = old[t] /\ isa' = i
Missed(t) == isa # old[t] /\ Reload(t)

\* The program calls retain, release, object_setClass or a weak store only
\* on an object it owns a reference to.
Owner(t) == pc[t] = "idle" /\ refs[t] > 0

\* rootTryRetain, called by objc_loadWeakRetained with the lock held.
Trying(t) == ret[t] = "wunlock"

\* A retain or a release that -dealloc itself makes is not an ownership.
Gain(t) ==
  refs' = IF ret[t] = "deallocR" THEN refs ELSE [refs EXCEPT ![t] = @ + 1]
Drop(t) ==
  refs' = IF ret[t] = "deallocE" THEN refs ELSE [refs EXCEPT ![t] = @ - 1]

(***************************************************************************)
(* rootRetain.  "retain" is the head of its loop, with old[t] loaded.      *)
(***************************************************************************)
StartRetain(t) ==
  /\ Owner(t) /\ refs[t] < MaxRefs
  /\ Enter(t, "retain", "idle")
  /\ UNCHANGED <<shared, new, full, locked, refs>>

RetainRaw(t) ==
  /\ pc[t] = "retain" /\ ~old[t].np /\ ~Trying(t)
  /\ locked[t] \/ lock = NoThread
  /\ side' = SideIncrement(side)
  /\ lock' = NoThread
  /\ Gain(t) /\ Return(t)
  /\ UNCHANGED <<isa, weakReg, weakLoc, freed, crashed>>

TryRetainRaw(t) ==
  /\ pc[t] = "retain" /\ ~old[t].np /\ Trying(t)
  /\ IF side.dealloc THEN UNCHANGED <<side, refs>>
                     ELSE side' = SideIncrement(side) /\ Gain(t)
  /\ Return(t)
  /\ UNCHANGED <<isa, lock, weakReg, weakLoc, freed, crashed>>

\* The object is deallocating: nothing is counted.  sideTableLocked is also
\* set in a tryRetain whose caller owns the lock.
RetainDead(t) ==
  /\ pc[t] = "retain" /\ old[t].np /\ Dead(old[t])
  /\ UnlockIf(locked[t], t)
  /\ Return(t)
  /\ UNCHANGED <<isa, side, weakReg, weakLoc, freed, refs>>

Countable(t) == pc[t] = "retain" /\ old[t].np /\ ~Dead(old[t])

RetainInline(t) ==
  /\ Countable(t) /\ old[t].rc < RCMax
  /\ Store(t, [old[t] EXCEPT !.rc = @ + 1])
  /\ UnlockIf(locked[t] /\ ~Trying(t), t)
  /\ Gain(t) /\ Return(t)
  /\ UNCHANGED <<side, weakReg, weakLoc, freed>>

RetainInlineMissed(t) ==
  /\ Countable(t) /\ old[t].rc < RCMax
  /\ Missed(t)
  /\ UNCHANGED <<shared, pc, ret, new, full, locked, refs>>

Overflowing(t) == Countable(t) /\ old[t].rc = RCMax

\* rootRetain_overflow starts over with RRVariant::Full.
RetainOverflow(t) ==
  /\ Overflowing(t) /\ ~full[t]
  /\ full' = [full EXCEPT ![t] = TRUE]
  /\ Reload(t)
  /\ UNCHANGED <<shared, pc, ret, new, locked, refs>>

RetainLock(t) ==
  /\ Overflowing(t) /\ full[t] /\ ~Trying(t) /\ ~locked[t]
  /\ Acquire(t)
  /\ locked' = [locked EXCEPT ![t] = TRUE]
  /\ UNCHANGED <<isa, side, weakReg, weakLoc, freed, crashed,
                 pc, ret, old, new, full, refs>>

MaySpill(t) == Overflowing(t) /\ full[t] /\ (Trying(t) \/ locked[t])

\* Keep half of the count inline; the other half goes to the side table.
RetainSpill(t) ==
  /\ MaySpill(t)
  /\ Store(t, [old[t] EXCEPT !.rc = RCHalf, !.inside = TRUE])
  /\ locked' = [locked EXCEPT ![t] = TRUE]
  /\ Go(t, "spill")
  /\ Gain(t)
  /\ UNCHANGED <<side, lock, weakReg, weakLoc, freed, crashed,
                 ret, old, new, full>>

RetainSpillMissed(t) ==
  /\ MaySpill(t)
  /\ Missed(t)
  /\ locked' = [locked EXCEPT ![t] = TRUE]
  /\ UNCHANGED <<shared, pc, ret, new, full, refs>>

RetainSpilled(t) ==
  /\ pc[t] = "spill"
  /\ side' = AddExtraRC(side, RCHalf)
  /\ UnlockIf(~Trying(t), t)
  /\ Return(t)
  /\ UNCHANGED <<isa, weakReg, weakLoc, freed, refs>>

(***************************************************************************)
(* rootRelease.  "release" is the head of its loop.                        *)
(***************************************************************************)
StartRelease(t) ==
  /\ Owner(t)
  /\ Enter(t, "release", "idle")
  /\ UNCHANGED <<shared, new, full, locked, refs>>

ReleaseRaw(t) ==
  /\ pc[t] = "release" /\ ~old[t].np
  /\ locked[t] \/ lock = NoThread
  /\ IF side.cnt = 0 /\ ~side.dealloc
       THEN /\ side' = [side EXCEPT !.present = TRUE, !.dealloc = TRUE]
            /\ Leave(t, "dealloc")
       ELSE side' = SideDecrement(side) /\ Return(t)
  /\ lock' = NoThread
  /\ Drop(t)
  /\ UNCHANGED <<isa, weakReg, weakLoc, freed, crashed>>

ReleaseDead(t) ==
  /\ pc[t] = "release" /\ old[t].np /\ Dead(old[t])
  /\ UnlockIf(locked[t], t)
  /\ Return(t)
  /\ UNCHANGED <<isa, side, weakReg, weakLoc, freed, refs>>

ReleaseInline(t) ==
  /\ pc[t] = "release" /\ old[t].np /\ old[t].rc > 0
  /\ Store(t, [old[t] EXCEPT !.rc = @ - 1])
  /\ UnlockIf(locked[t], t)
  /\ IF Dead(isa') THEN Leave(t, "dealloc") ELSE Return(t)
  /\ Drop(t)
  /\ UNCHANGED <<side, weakReg, weakLoc, freed>>

ReleaseInlineMissed(t) ==
  /\ pc[t] = "release" /\ old[t].np /\ old[t].rc > 0
  /\ Missed(t)
  /\ UNCHANGED <<shared, pc, ret, new, full, locked, refs>>

Underflowing(t) ==
  pc[t] = "release" /\ old[t].np /\ old[t].rc = 0 /\ old[t].inside

\* rootRelease_underflow starts over with RRVariant::Full.
ReleaseUnderflow(t) ==
  /\ Underflowing(t) /\ ~full[t]
  /\ full' = [full EXCEPT ![t] = TRUE]
  /\ Reload(t)
  /\ UNCHANGED <<shared, pc, ret, new, locked, refs>>

\* Take the lock, then start over with a fresh isa.
ReleaseLock(t) ==
  /\ Underflowing(t) /\ full[t] /\ ~locked[t]
  /\ Acquire(t)
  /\ locked' = [locked EXCEPT ![t] = TRUE]
  /\ Reload(t)
  /\ UNCHANGED <<isa, side, weakReg, weakLoc, freed, crashed,
                 pc, ret, new, full, refs>>

\* Borrow from the side table, or deallocate when it has nothing to lend.
ReleaseBorrow(t) ==
  /\ Underflowing(t) /\ full[t] /\ locked[t]
  /\ IF side.cnt = 0 /\ ~side.dealloc /\ ~side.weak
       THEN Unlock(t) /\ Drop(t) /\ Leave(t, "dealloc") /\ UNCHANGED side
       ELSE /\ side' = SubExtraRC(side, RCHalf)
            /\ Go(t, "borrow")
            /\ UNCHANGED <<lock, crashed, ret, old, new, full, locked, refs>>
  /\ UNCHANGED <<isa, weakReg, weakLoc, freed>>

\* The entry changes only under the lock, so emptySideTable is side.cnt = 0.
BorrowStore(t) ==
  /\ pc[t] = "borrow"
  /\ Store(t, [old[t] EXCEPT !.rc = RCHalf - 1, !.inside = side.cnt # 0])
  /\ Go(t, "settle")
  /\ Drop(t)
  /\ UNCHANGED <<side, lock, weakReg, weakLoc, freed, crashed,
                 ret, old, new, full, locked>>

\* The store fails, perhaps spuriously: an LL/SC reservation may be lost.
BorrowMissed(t) ==
  /\ pc[t] = "borrow"
  /\ Reload(t)
  /\ Go(t, IF isa.np THEN "reborrow" ELSE "putback")
  /\ UNCHANGED <<shared, ret, new, full, locked, refs>>

ReborrowFits(t) == old[t].rc + RCHalf - 1 <= RCMax

ReborrowStore(t) ==
  /\ pc[t] = "reborrow" /\ ReborrowFits(t)
  /\ Store(t, [old[t] EXCEPT !.rc = @ + RCHalf - 1,
                             !.inside = side.cnt # 0])
  /\ Go(t, "settle")
  /\ Drop(t)
  /\ UNCHANGED <<side, lock, weakReg, weakLoc, freed, crashed,
                 ret, old, new, full, locked>>

ReborrowMissed(t) ==
  /\ pc[t] = "reborrow"
  /\ Go(t, "putback")
  /\ UNCHANGED <<shared, ret, old, new, full, locked, refs>>

PutBack(t) ==
  /\ pc[t] = "putback"
  /\ side' = AddExtraRC(side, RCHalf)
  /\ Reload(t)
  /\ Go(t, "release")
  /\ UNCHANGED <<isa, lock, weakReg, weakLoc, freed, crashed,
                 ret, new, full, locked, refs>>

\* Mutant: forgets to unlock.
SettleKeepsLock(t) ==
  /\ pc[t] = "settle"
  /\ side' = IF side.cnt = 0 THEN NoEntry ELSE side
  /\ Return(t)
  /\ UNCHANGED <<isa, lock, weakReg, weakLoc, freed, crashed, refs>>

\* The decrement is done; erase an emptied entry and unlock.
Settle(t) ==
  /\ pc[t] = "settle"
  /\ side' = IF side.cnt = 0 THEN NoEntry ELSE side
  /\ Unlock(t)
  /\ Return(t)
  /\ UNCHANGED <<isa, weakReg, weakLoc, freed, refs>>

(***************************************************************************)
(* -dealloc, rootDealloc, clearDeallocating and free.                      *)
(***************************************************************************)
\* The body of -dealloc may retain the object and release it again, once.
RetainInDealloc(t) ==
  /\ pc[t] = "dealloc"
  /\ Enter(t, "retain", "deallocR")
  /\ UNCHANGED <<shared, new, full, locked, refs>>

ReleaseInDealloc(t) ==
  /\ pc[t] = "deallocR"
  /\ Enter(t, "release", "deallocE")
  /\ UNCHANGED <<shared, new, full, locked, refs>>

\* Mutant: the fast path does not look at weakly_referenced.
RootDeallocFast(t) ==
  /\ pc[t] \in {"dealloc", "deallocE"}
  /\ \/ isa.np /\ ~isa.inside /\ Go(t, "free")
     \/ Go(t, "clear")
  /\ UNCHANGED <<shared, ret, old, new, full, locked, refs>>

\* object_dispose is taken unless the isa has no flag set; has_assoc and
\* has_cxx_dtor are not modelled, so the fast path is a choice.
RootDealloc(t) ==
  /\ pc[t] \in {"dealloc", "deallocE"}
  /\ \/ isa.np /\ ~isa.weak /\ ~isa.inside /\ Go(t, "free")
     \/ Go(t, "clear")
  /\ UNCHANGED <<shared, ret, old, new, full, locked, refs>>

\* Mutant: does not set the variable to nil.
WeakClearEntryOnly == weakReg' = FALSE /\ UNCHANGED weakLoc

WeakClear == weakReg' = FALSE /\ weakLoc' = (weakLoc /\ ~weakReg)

\* clearDeallocating with nothing to clear
ClearNothing(t) ==
  /\ pc[t] = "clear" /\ isa.np /\ ~isa.weak /\ ~isa.inside
  /\ Go(t, "free")
  /\ UNCHANGED <<shared, ret, old, new, full, locked, refs>>

\* clearDeallocating_slow
ClearNonpointer(t) ==
  /\ pc[t] = "clear" /\ isa.np /\ (isa.weak \/ isa.inside)
  /\ lock = NoThread
  /\ IF isa.weak THEN WeakClear ELSE UNCHANGED <<weakReg, weakLoc>>
  /\ side' = IF isa.inside THEN NoEntry ELSE side
  /\ Go(t, "free")
  /\ UNCHANGED <<isa, lock, freed, crashed,
                 ret, old, new, full, locked, refs>>

\* sidetable_clearDeallocating
ClearRaw(t) ==
  /\ pc[t] = "clear" /\ ~isa.np
  /\ lock = NoThread
  /\ IF side.weak THEN WeakClear ELSE UNCHANGED <<weakReg, weakLoc>>
  /\ side' = NoEntry
  /\ Go(t, "free")
  /\ UNCHANGED <<isa, lock, freed, crashed,
                 ret, old, new, full, locked, refs>>

Free(t) ==
  /\ pc[t] = "free"
  /\ freed' = TRUE
  /\ Go(t, "idle")
  /\ UNCHANGED <<isa, side, lock, weakReg, weakLoc, crashed,
                 ret, old, new, full, locked, refs>>

(***************************************************************************)
(* Weak references: objc_loadWeakRetained, objc_storeWeak.                 *)
(***************************************************************************)
StartWeakLoad(t) ==
  /\ pc[t] = "idle" /\ weakLoc /\ refs[t] < MaxRefs
  /\ Go(t, "wlock")
  /\ UNCHANGED <<shared, ret, old, new, full, locked, refs>>

\* Lock the table; if the variable changed meanwhile, unlock and read again.
WeakLoadLock(t) ==
  /\ pc[t] = "wlock" /\ weakLoc
  /\ Acquire(t)
  /\ Enter(t, "retain", "wunlock")
  /\ UNCHANGED <<isa, side, weakReg, weakLoc, freed, crashed,
                 new, full, locked, refs>>

WeakLoadNil(t) ==
  /\ pc[t] = "wlock" /\ ~weakLoc /\ lock = NoThread
  /\ Go(t, "idle")
  /\ UNCHANGED <<shared, ret, old, new, full, locked, refs>>

WeakLoadUnlock(t) ==
  /\ pc[t] = "wunlock"
  /\ Unlock(t)
  /\ Go(t, "idle")
  /\ UNCHANGED <<isa, side, weakReg, weakLoc, freed,
                 ret, old, new, full, locked, refs>>

\* objc_storeWeak(&variable, object): lock, register, then set the bit.
StoreWeak(t) ==
  /\ Owner(t)
  /\ Acquire(t)
  /\ IF RootIsDeallocating
       THEN crashed' = TRUE /\ UNCHANGED <<weakReg, pc, ret, old>>
       ELSE weakReg' = TRUE /\ Enter(t, "setweak", "idle")
            /\ UNCHANGED crashed
  /\ UNCHANGED <<isa, side, weakLoc, freed, new, full, locked, refs>>

SetWeaklyReferenced(t) ==
  /\ pc[t] = "setweak" /\ old[t].np
  /\ IF old[t].weak THEN UNCHANGED isa
                    ELSE Store(t, [old[t] EXCEPT !.weak = TRUE])
  /\ Go(t, "wstore")
  /\ UNCHANGED <<side, lock, weakReg, weakLoc, freed, crashed,
                 ret, old, new, full, locked, refs>>

SetWeaklyReferencedMissed(t) ==
  /\ pc[t] = "setweak" /\ old[t].np /\ ~old[t].weak
  /\ Missed(t)
  /\ UNCHANGED <<shared, pc, ret, new, full, locked, refs>>

SetWeaklyReferencedRaw(t) ==
  /\ pc[t] = "setweak" /\ ~old[t].np
  /\ side' = [side EXCEPT !.present = TRUE, !.weak = TRUE]
  /\ Go(t, "wstore")
  /\ UNCHANGED <<isa, lock, weakReg, weakLoc, freed, crashed,
                 ret, old, new, full, locked, refs>>

StoreWeakLocation(t) ==
  /\ pc[t] = "wstore"
  /\ weakLoc' = TRUE
  /\ Unlock(t)
  /\ Return(t)
  /\ UNCHANGED <<isa, side, weakReg, freed, refs>>

\* objc_storeWeak(&variable, nil), one critical section
StoreWeakNil(t) ==
  /\ pc[t] = "idle" /\ weakLoc /\ lock = NoThread
  /\ weakReg' = FALSE /\ weakLoc' = FALSE
  /\ UNCHANGED <<isa, side, lock, freed, crashed, local, refs>>

(***************************************************************************)
(* changeIsa, called by object_setClass.                                   *)
(***************************************************************************)
StartChangeIsa(t) ==
  /\ Owner(t)
  /\ \E c \in Targets : new' = [new EXCEPT ![t] = [ZeroIsa EXCEPT !.cls = c]]
  /\ Enter(t, "change", "idle")
  /\ UNCHANGED <<shared, full, locked, refs>>

ToNonpointer(t) == old[t].np /\ new[t].cls \in NonpointerClasses
ToRaw(t) == old[t].np /\ new[t].cls \notin NonpointerClasses

\* newisa is not reset between attempts: raw -> raw keeps what the previous
\* attempt left in it and sets only its class.
NewIsa(t) ==
  IF ToNonpointer(t) THEN [old[t] EXCEPT !.cls = new[t].cls] ELSE new[t]

ChangeIsaLock(t) ==
  /\ pc[t] = "change" /\ ToRaw(t) /\ ~locked[t]
  /\ Acquire(t)
  /\ locked' = [locked EXCEPT ![t] = TRUE]
  /\ UNCHANGED <<isa, side, weakReg, weakLoc, freed, crashed,
                 pc, ret, old, new, full, refs>>

ChangeIsaStore(t) ==
  /\ pc[t] = "change" /\ (ToRaw(t) => locked[t])
  /\ Store(t, NewIsa(t))
  /\ IF ToRaw(t)
       THEN /\ Go(t, "move")
            /\ UNCHANGED <<lock, crashed, ret, old, new, full, locked>>
       ELSE UnlockIf(locked[t], t) /\ Return(t)
  /\ UNCHANGED <<side, weakReg, weakLoc, freed, refs>>

ChangeIsaMissed(t) ==
  /\ pc[t] = "change" /\ (ToRaw(t) => locked[t])
  /\ Missed(t)
  /\ new' = [new EXCEPT ![t] = NewIsa(t)]
  /\ UNCHANGED <<shared, pc, ret, full, locked, refs>>

MoveToSide(t) ==
  /\ pc[t] = "move"
  /\ side' = MoveExtraRC(side, old[t])
  /\ Unlock(t)
  /\ Return(t)
  /\ UNCHANGED <<isa, weakReg, weakLoc, freed, refs>>

(***************************************************************************)
(* The program passes a reference to another thread.                       *)
(***************************************************************************)
Give(t, u) ==
  /\ Owner(t) /\ pc[u] = "idle" /\ t # u /\ refs[u] < MaxRefs
  /\ refs' = [refs EXCEPT ![t] = @ - 1, ![u] = @ + 1]
  /\ UNCHANGED <<shared, local>>

Init ==
  /\ isa = [np |-> FirstClass \in NonpointerClasses, cls |-> FirstClass,
            rc |-> IF FirstClass \in NonpointerClasses THEN 1 ELSE 0,
            inside |-> FALSE, weak |-> FALSE]
  /\ side = NoEntry
  /\ lock = NoThread
  /\ weakReg = FALSE /\ weakLoc = FALSE
  /\ freed = FALSE /\ crashed = FALSE
  /\ pc = [t \in Threads |-> "idle"] /\ ret = [t \in Threads |-> "idle"]
  /\ old = [t \in Threads |-> ZeroIsa] /\ new = [t \in Threads |-> ZeroIsa]
  /\ full = [t \in Threads |-> FALSE] /\ locked = [t \in Threads |-> FALSE]
  /\ \E t \in Threads : refs = [u \in Threads |-> IF u = t THEN 1 ELSE 0]

\* Steps that begin an operation: the program need not take them.
Start(t) ==
  \/ StartRetain(t) \/ StartRelease(t) \/ StartWeakLoad(t) \/ StoreWeak(t)
  \/ StoreWeakNil(t) \/ StartChangeIsa(t) \/ \E u \in Threads : Give(t, u)

RetainStep(t) ==
  \/ RetainRaw(t) \/ TryRetainRaw(t) \/ RetainDead(t)
  \/ RetainInline(t) \/ RetainInlineMissed(t) \/ RetainOverflow(t)
  \/ RetainLock(t) \/ RetainSpill(t) \/ RetainSpillMissed(t)
  \/ RetainSpilled(t)

ReleaseStep(t) ==
  \/ ReleaseRaw(t) \/ ReleaseDead(t) \/ ReleaseInline(t)
  \/ ReleaseInlineMissed(t) \/ ReleaseUnderflow(t) \/ ReleaseLock(t)
  \/ ReleaseBorrow(t) \/ BorrowStore(t) \/ BorrowMissed(t)
  \/ ReborrowStore(t) \/ ReborrowMissed(t) \/ PutBack(t) \/ Settle(t)

DeallocStep(t) ==
  \/ RetainInDealloc(t) \/ ReleaseInDealloc(t)
  \/ RootDealloc(t) \/ ClearNothing(t) \/ ClearNonpointer(t) \/ ClearRaw(t)
  \/ Free(t)

WeakStep(t) ==
  \/ WeakLoadLock(t) \/ WeakLoadNil(t) \/ WeakLoadUnlock(t)
  \/ SetWeaklyReferenced(t) \/ SetWeaklyReferencedMissed(t)
  \/ SetWeaklyReferencedRaw(t) \/ StoreWeakLocation(t)

ChangeIsaStep(t) ==
  \/ ChangeIsaLock(t) \/ ChangeIsaStore(t) \/ ChangeIsaMissed(t)
  \/ MoveToSide(t)

Continue(t) ==
  RetainStep(t) \/ ReleaseStep(t) \/ DeallocStep(t) \/ WeakStep(t)
  \/ ChangeIsaStep(t)

\* The program may stop when no reference is left; a crash stops it too.
Stopped ==
  /\ crashed \/ \A t \in Threads : pc[t] = "idle" /\ refs[t] = 0
  /\ UNCHANGED vars

Next ==
  \/ ~crashed /\ \E t \in Threads : Start(t) \/ Continue(t)
  \/ Stopped

Spec == Init /\ [][Next]_vars

(***************************************************************************)
(* Properties.                                                             *)
(***************************************************************************)
Labels == {"idle", "retain", "spill", "release", "borrow", "reborrow",
           "putback", "settle", "dealloc", "deallocR", "deallocE", "clear",
           "free", "wlock", "wunlock", "setweak", "wstore", "change", "move"}

\* The values the variables take.
TypeOK ==
  /\ isa \in Isas /\ side \in Entries
  /\ lock \in Threads \cup {NoThread}
  /\ weakReg \in BOOLEAN /\ weakLoc \in BOOLEAN
  /\ freed \in BOOLEAN /\ crashed \in BOOLEAN
  /\ pc \in [Threads -> Labels]
  /\ ret \in [Threads -> {"idle", "deallocR", "deallocE", "wunlock"}]
  /\ old \in [Threads -> Isas] /\ new \in [Threads -> Isas]
  /\ full \in [Threads -> BOOLEAN] /\ locked \in [Threads -> BOOLEAN]
  /\ refs \in [Threads -> 0..MaxRefs]

\* Half of the inline count that a thread has taken out of one word and not
\* yet put into the other.
InTransit ==
  IF \E t \in Threads : pc[t] \in {"spill", "borrow", "reborrow", "putback"}
    THEN RCHalf ELSE 0

\* The phase of ObjectLife.  A raw isa leaves no trace of it once
\* sidetable_clearDeallocating has erased the entry.
Phase ==
  IF freed THEN "freed"
  ELSE IF RootIsDeallocating \/ \E t \in Threads : pc[t] = "free"
    THEN "deallocating"
  ELSE "live"

\* No retain is lost and none is counted twice while counts move between
\* the isa and the side table (rootRetain, rootRelease): the count stored in
\* the two words, with the half in transit, is the number of references the
\* program owns.
CountExact ==
  isa.np => isa.rc + side.cnt + InTransit = TotalRefs

\* rootRetainCount takes the lock and answers the number of references the
\* program owns, for a packed and for a raw isa.
RetainCountExact ==
  lock = NoThread /\ Phase = "live" => RootRetainCount = TotalRefs

DeallocLabels == {"dealloc", "deallocR", "deallocE", "clear", "free"}
Deallocating(t) == pc[t] \in DeallocLabels \/ ret[t] \in {"deallocR", "deallocE"}

\* -dealloc is sent once, by the release of the last reference, and the
\* object is freed by that thread alone.
DeallocOnce ==
  /\ \A t, u \in Threads : Deallocating(t) /\ Deallocating(u) => t = u
  /\ (freed \/ \E t \in Threads : Deallocating(t)) => TotalRefs = 0
  /\ freed => \A t \in Threads : ~Deallocating(t)

\* The places whose next step reads or writes the object's memory.
DerefLabels == Labels \ {"idle", "wlock", "wunlock", "settle"}

\* No thread touches the object after it was freed, neither through a
\* reference it owned when its call started nor through a weak load that
\* found the object in the variable.
NoUseAfterFree == freed => \A t \in Threads : pc[t] \notin DerefLabels

\* The memory is given back only when the weak variable no longer refers to
\* it, and no weak_entry_t names it (clearDeallocating and its fast paths).
WeakNeverDangles == freed => ~weakLoc /\ ~weakReg

\* A weak load finds nil only when the last reference is gone: while a
\* reference is owned, a tryRetain on the object in the variable succeeds,
\* whatever retains, releases and overflows it races with.
WeakLoadFindsLive ==
  [][\A t \in Threads :
       pc[t] = "retain" /\ Trying(t) /\ pc'[t] = "wunlock" /\ refs' = refs
         => TotalRefs = 0]_vars

\* What rootDealloc and clearDeallocating assert with sidetable_present():
\* a freed object leaves nothing behind in the side table, once the thread
\* that may still be erasing its emptied entry has unlocked it.
SideTableClean == freed /\ lock = NoThread => ~side.present

\* sidetable_subExtraRC_nolock always finds RC_HALF to borrow: the fall
\* through to dealloc with the has_sidetable_rc bit set is dead code, and
\* its "shouldn't underflow" assertion holds.
BorrowFindsHalf ==
  \A t \in Threads :
    Underflowing(t) /\ full[t] /\ locked[t] => side.cnt >= RCHalf

\* No thread unlocks a side table lock it does not own, and no weak store
\* meets a deallocating object.
NoCrash == ~crashed

\* "raw pointer -> raw pointer": an isa that became a raw class pointer never
\* becomes packed again, so its count stays in the side table.
RawStaysRaw == [][~isa.np => ~isa'.np]_isa

\* "Move the entire retain count to the side table": the count the side
\* table holds after the move is the number of references owned.
MoveIsComplete ==
  [][\A t \in Threads : MoveToSide(t) => side'.cnt + 1 = TotalRefs]_vars

Life == INSTANCE ObjectLife WITH phase <- Phase, weak <- weakLoc

\* The reference counting implements ObjectLife.
ImplementsLife == Life!Spec

(***************************************************************************)
(* Liveness.  A thread in the middle of a call goes on (WF); one that      *)
(* waits for the lock gets it if the lock is free again and again (SF):    *)
(* the kernel wakes the waiters of an os_unfair_lock.                      *)
(***************************************************************************)
LockStep(t) ==
  RetainLock(t) \/ ReleaseLock(t) \/ ClearNonpointer(t) \/ ClearRaw(t)
  \/ RetainRaw(t) \/ ReleaseRaw(t) \/ ChangeIsaLock(t)
  \/ WeakLoadLock(t) \/ WeakLoadNil(t)

Fairness ==
  \A t \in Threads :
    WF_vars(~crashed /\ Continue(t)) /\ SF_vars(~crashed /\ LockStep(t))

FairSpec == Spec /\ Fairness

\* Once the last reference is dropped the object is deallocated and freed,
\* whatever weak loads go on meanwhile, unless the process was stopped.
LastReleaseFrees == TotalRefs = 0 ~> freed \/ crashed
=============================================================================
