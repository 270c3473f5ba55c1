--------------------------- MODULE RefCountProofs ---------------------------
(***************************************************************************)
(* Theorems about RefCount, for every number of threads, every RC_HALF and *)
(* every bound on references.  TypeCorrect holds for every class; the      *)
(* others are about packed objects, provided that                          *)
(*   - no class involved asks for a raw isa (PackedOnly), and              *)
(*   - the references fit the side table's field (SideFits).               *)
(*                                                                         *)
(* ExactInv: the words and the half in transit hold the references.        *)
(* SafeInv: who still accesses the object, and why it is there.            *)
(* Together they make the object's phase a function of the references, so  *)
(* that the steps of ObjectLife can be told from the references alone.     *)
(***************************************************************************)
EXTENDS RefCount, TLAPS, FiniteSetTheorems

USE NoThreadAssumption, RCHalfAssumption, SidePinAssumption,
    MaxRefsAssumption

(***************************************************************************)
(* Types.  A thread about to count a reference is below its bound, and one *)
(* about to drop a reference owns it.                                      *)
(***************************************************************************)
Bounds ==
  \A t \in Threads :
    /\ pc[t] = "retain" /\ ret[t] # "deallocR" => refs[t] < MaxRefs
    /\ pc[t] = "wlock" => refs[t] < MaxRefs
    /\ pc[t] \in {"release", "borrow", "reborrow", "putback"}
         /\ ret[t] # "deallocE" => refs[t] > 0

TypeInv == TypeOK /\ Bounds

\* Updates of an isa and of an entry stay in range.
LEMMA IsaFields ==
  ASSUME NEW i \in Isas
  PROVE  /\ i.np \in BOOLEAN /\ i.cls \in Classes /\ i.rc \in 0..RCMax
         /\ i.inside \in BOOLEAN /\ i.weak \in BOOLEAN
  BY DEF Isas

LEMMA IsaWithClass ==
  ASSUME NEW i \in Isas, NEW c \in Classes
  PROVE  [i EXCEPT !.cls = c] \in Isas
  BY DEF Isas

LEMMA IsaWithWeak ==
  ASSUME NEW i \in Isas
  PROVE  [i EXCEPT !.weak = TRUE] \in Isas
  BY DEF Isas

LEMMA IsaWithCount ==
  ASSUME NEW i \in Isas, NEW n \in 0..RCMax, NEW b \in BOOLEAN
  PROVE  /\ [i EXCEPT !.rc = n] \in Isas
         /\ [i EXCEPT !.rc = n, !.inside = b] \in Isas
  BY DEF Isas

LEMMA ZeroIsaType == ZeroIsa \in Isas
  BY DEF ZeroIsa, Isas, Classes, RCMax

LEMMA EntryFields ==
  ASSUME NEW s \in Entries
  PROVE  /\ s.present \in BOOLEAN /\ s.cnt \in 0..SideMod - 1
         /\ s.dealloc \in BOOLEAN /\ s.weak \in BOOLEAN
  BY DEF Entries

LEMMA EntryUpdates ==
  ASSUME NEW s \in Entries, NEW n \in 0..SideMod - 1
  PROVE  /\ [s EXCEPT !.cnt = n] \in Entries
         /\ [s EXCEPT !.present = TRUE, !.cnt = n] \in Entries
         /\ [s EXCEPT !.present = TRUE, !.dealloc = TRUE] \in Entries
         /\ [s EXCEPT !.present = TRUE, !.weak = TRUE] \in Entries
  BY DEF Entries

LEMMA EntryTypes ==
  ASSUME NEW s \in Entries
  PROVE  /\ NoEntry \in Entries
         /\ SideIncrement(s) \in Entries
         /\ SideDecrement(s) \in Entries
         /\ AddExtraRC(s, RCHalf) \in Entries
         /\ SubExtraRC(s, RCHalf) \in Entries
         /\ [s EXCEPT !.present = TRUE, !.dealloc = TRUE] \in Entries
         /\ [s EXCEPT !.present = TRUE, !.weak = TRUE] \in Entries
<1>1. s.cnt \in 0..SideMod - 1
  BY EntryFields
<1>2. NoEntry \in Entries
  BY DEF NoEntry, Entries, SideMod
<1>3. SideIncrement(s) \in Entries
  <2> DEFINE n == IF s.cnt >= SidePin THEN s.cnt ELSE s.cnt + 1
  <2>1. n \in 0..SideMod - 1
    BY <1>1 DEF SideMod
  <2> QED  BY <2>1, EntryUpdates DEF SideIncrement, Pinned
<1>4. SideDecrement(s) \in Entries
  <2> DEFINE n == IF s.cnt >= SidePin THEN s.cnt ELSE Minus(s.cnt, 1)
  <2>1. n \in 0..SideMod - 1
    BY <1>1 DEF SideMod, Minus
  <2> QED  BY <2>1, EntryUpdates DEF SideDecrement, Pinned
<1>5. AddExtraRC(s, RCHalf) \in Entries
  <2> DEFINE n == IF s.cnt >= SidePin THEN s.cnt
                  ELSE IF s.cnt + RCHalf >= SideMod THEN SidePin
                  ELSE s.cnt + RCHalf
  <2>1. n \in 0..SideMod - 1
    BY <1>1 DEF SideMod
  <2> QED  BY <2>1, EntryUpdates DEF AddExtraRC, Pinned
<1>6. SubExtraRC(s, RCHalf) \in Entries
  <2>1. Minus(s.cnt, RCHalf) \in 0..SideMod - 1
    BY <1>1 DEF SideMod, Minus
  <2> QED  BY <2>1, EntryUpdates DEF SubExtraRC
<1> QED  BY <1>1, <1>2, <1>3, <1>4, <1>5, <1>6, EntryUpdates

\* A step that ends a call of t keeps TypeInv when it keeps the types of the
\* object's words and of the reference counts.
LEMMA LeaveKeepsTypes ==
  ASSUME TypeInv, NEW t \in Threads,
         NEW l \in {"idle", "dealloc", "deallocR", "deallocE", "wunlock"},
         Leave(t, l),
         isa' \in Isas, side' \in Entries,
         lock' \in Threads \cup {NoThread}, crashed' \in BOOLEAN,
         UNCHANGED <<weakReg, weakLoc, freed>>,
         refs' \in [Threads -> 0..MaxRefs],
         \A u \in Threads : u # t => refs'[u] = refs[u]
  PROVE  TypeInv'
<1>1. TypeOK'
  BY ZeroIsaType DEF TypeInv, TypeOK, Labels, Leave, Go
<1>2. Bounds'
  BY DEF TypeInv, TypeOK, Bounds, Labels, Leave, Go
<1> QED  BY <1>1, <1>2 DEF TypeInv

LEMMA TypeInvInit == Init => TypeInv
<1> SUFFICES ASSUME Init PROVE TypeInv
  OBVIOUS
<1>1. isa \in Isas
  BY DEF Init, Isas, Classes, RCMax
<1>2. refs \in [Threads -> 0..MaxRefs]
  BY DEF Init
<1>3. side \in Entries
  BY DEF Init, NoEntry, Entries, SideMod
<1> QED  BY <1>1, <1>2, <1>3, ZeroIsaType
         DEF Init, TypeInv, TypeOK, Bounds, Labels

LEMMA TypeInvStart ==
  ASSUME TypeInv, NEW t \in Threads, Start(t)
  PROVE  TypeInv'
<1> USE DEF TypeInv, TypeOK, Bounds, Labels, shared, Go, Enter, Owner
<1>1. CASE StartRetain(t)
  BY <1>1 DEF StartRetain
<1>2. CASE StartRelease(t)
  BY <1>2 DEF StartRelease
<1>3. CASE StartWeakLoad(t)
  BY <1>3 DEF StartWeakLoad
<1>4. CASE StoreWeak(t)
  <2>1. CASE RootIsDeallocating
    BY <1>4, <2>1 DEF StoreWeak, Acquire
  <2>2. CASE ~RootIsDeallocating
    BY <1>4, <2>2 DEF StoreWeak, Acquire
  <2> QED  BY <2>1, <2>2
<1>5. CASE StoreWeakNil(t)
  BY <1>5 DEF StoreWeakNil, local
<1>6. CASE StartChangeIsa(t)
  <2>1. PICK c \in Targets :
          new' = [new EXCEPT ![t] = [ZeroIsa EXCEPT !.cls = c]]
    BY <1>6 DEF StartChangeIsa
  <2>2. [ZeroIsa EXCEPT !.cls = c] \in Isas
    BY IsaWithClass, ZeroIsaType DEF Classes
  <2> QED  BY <1>6, <2>1, <2>2 DEF StartChangeIsa
<1>7. CASE \E u \in Threads : Give(t, u)
  BY <1>7 DEF Give, local
<1> QED  BY <1>1, <1>2, <1>3, <1>4, <1>5, <1>6, <1>7 DEF Start

LEMMA TypeInvRetain ==
  ASSUME TypeInv, NEW t \in Threads, RetainStep(t)
  PROVE  TypeInv'
<1> USE DEF TypeInv, TypeOK, Bounds, Labels, shared, Go, Reload, Acquire,
            Unlock, UnlockIf, Return, Leave, Gain, Missed, Store, Trying
<1>1. CASE RetainRaw(t)
  <2>1. SideIncrement(side) \in Entries
    BY EntryTypes
  <2> QED  BY <1>1, <2>1, ZeroIsaType DEF RetainRaw
<1>2. CASE TryRetainRaw(t)
  <2>1. SideIncrement(side) \in Entries
    BY EntryTypes
  <2> QED  BY <1>2, <2>1, ZeroIsaType DEF TryRetainRaw
<1>3. CASE RetainDead(t)
  BY <1>3, ZeroIsaType DEF RetainDead
<1>4. CASE RetainInline(t)
  <2>1. old[t] \in Isas /\ old[t].rc \in 0..RCMax
    BY IsaFields
  <2>2. old[t].rc + 1 \in 0..RCMax
    BY <1>4, <2>1 DEF RetainInline, RCMax
  <2>3. [old[t] EXCEPT !.rc = old[t].rc + 1] \in Isas
    BY <2>1, <2>2, IsaWithCount
  <2>4. isa' \in Isas
    BY <1>4, <2>3 DEF RetainInline
  <2>5. lock' \in Threads \cup {NoThread} /\ crashed' \in BOOLEAN
    BY <1>4 DEF RetainInline
  <2>6. pc[t] = "retain"
    BY <1>4 DEF RetainInline, Countable
  <2> QED  BY <1>4, <2>4, <2>5, <2>6, ZeroIsaType DEF RetainInline
<1>5. CASE RetainInlineMissed(t)
  BY <1>5 DEF RetainInlineMissed
<1>6. CASE RetainOverflow(t)
  BY <1>6 DEF RetainOverflow
<1>7. CASE RetainLock(t)
  BY <1>7 DEF RetainLock
<1>8. CASE RetainSpill(t)
  <2>1. RCHalf \in 0..RCMax
    BY DEF RCMax
  <2>2. [old[t] EXCEPT !.rc = RCHalf, !.inside = TRUE] \in Isas
    BY <2>1, IsaWithCount
  <2> QED  BY <1>8, <2>2 DEF RetainSpill, MaySpill, Overflowing, Countable
<1>9. CASE RetainSpillMissed(t)
  BY <1>9 DEF RetainSpillMissed
<1>10. CASE RetainSpilled(t)
  <2>1. AddExtraRC(side, RCHalf) \in Entries
    BY EntryTypes
  <2> QED  BY <1>10, <2>1, ZeroIsaType DEF RetainSpilled
<1> QED
  BY <1>1, <1>2, <1>3, <1>4, <1>5, <1>6, <1>7, <1>8, <1>9, <1>10
  DEF RetainStep

LEMMA TypeInvRelease ==
  ASSUME TypeInv, NEW t \in Threads, ReleaseStep(t)
  PROVE  TypeInv'
<1> USE DEF TypeInv, TypeOK, Bounds, Labels, shared, Go, Reload, Acquire,
            Unlock, UnlockIf, Return, Leave, Drop, Missed, Store
<1>a. /\ isa \in Isas /\ old[t] \in Isas /\ old[t].rc \in 0..RCMax
      /\ side \in Entries /\ side.cnt \in 0..SideMod - 1
  BY IsaFields, EntryFields
<1>b. refs[t] \in 0..MaxRefs
  OBVIOUS
<1>1. CASE ReleaseRaw(t)
  <2>1. /\ SideDecrement(side) \in Entries
        /\ [side EXCEPT !.present = TRUE, !.dealloc = TRUE] \in Entries
    BY <1>a, EntryTypes
  <2>2. side' \in Entries
    BY <1>1, <2>1 DEF ReleaseRaw
  <2>3. pc[t] = "release"
    BY <1>1 DEF ReleaseRaw
  <2>4. /\ refs' \in [Threads -> 0..MaxRefs]
        /\ \A u \in Threads : u # t => refs'[u] = refs[u]
    BY <1>1, <1>b, <2>3 DEF ReleaseRaw
  <2>5. /\ isa' \in Isas /\ lock' \in Threads \cup {NoThread}
        /\ crashed' \in BOOLEAN
        /\ UNCHANGED <<weakReg, weakLoc, freed>>
    BY <1>1 DEF ReleaseRaw
  <2>6. Leave(t, "dealloc") \/ Leave(t, ret[t])
    BY <1>1 DEF ReleaseRaw
  <2> QED  BY <2>2, <2>4, <2>5, <2>6, LeaveKeepsTypes
<1>2. CASE ReleaseDead(t)
  BY <1>2, ZeroIsaType DEF ReleaseDead
<1>3. CASE ReleaseInline(t)
  <2>1. old[t].rc - 1 \in 0..RCMax
    BY <1>3, <1>a DEF ReleaseInline, RCMax
  <2>2. [old[t] EXCEPT !.rc = old[t].rc - 1] \in Isas
    BY <1>a, <2>1, IsaWithCount
  <2>3. isa' \in Isas
    BY <1>3, <2>2 DEF ReleaseInline
  <2>4. lock' \in Threads \cup {NoThread} /\ crashed' \in BOOLEAN
    BY <1>3 DEF ReleaseInline
  <2>5. pc[t] = "release"
    BY <1>3 DEF ReleaseInline
  <2>6. /\ refs' \in [Threads -> 0..MaxRefs]
        /\ \A u \in Threads : u # t => refs'[u] = refs[u]
    BY <1>3, <1>b, <2>5 DEF ReleaseInline
  <2>7. Leave(t, "dealloc") \/ Leave(t, ret[t])
    BY <1>3 DEF ReleaseInline
  <2>8. side' \in Entries /\ UNCHANGED <<weakReg, weakLoc, freed>>
    BY <1>3 DEF ReleaseInline
  <2> QED  BY <2>3, <2>4, <2>6, <2>7, <2>8, LeaveKeepsTypes
<1>4. CASE ReleaseInlineMissed(t)
  BY <1>4 DEF ReleaseInlineMissed
<1>5. CASE ReleaseUnderflow(t)
  BY <1>5 DEF ReleaseUnderflow
<1>6. CASE ReleaseLock(t)
  BY <1>6 DEF ReleaseLock
<1>7. CASE ReleaseBorrow(t)
  <2>1. SubExtraRC(side, RCHalf) \in Entries
    BY <1>a, EntryTypes
  <2>2. pc[t] = "release"
    BY <1>7 DEF ReleaseBorrow, Underflowing
  <2>3. CASE side.cnt = 0 /\ ~side.dealloc /\ ~side.weak
    <3>1. /\ refs' \in [Threads -> 0..MaxRefs]
          /\ \A u \in Threads : u # t => refs'[u] = refs[u]
      BY <1>7, <1>b, <2>2, <2>3 DEF ReleaseBorrow
    <3>2. lock' \in Threads \cup {NoThread} /\ crashed' \in BOOLEAN
      BY <1>7, <2>3 DEF ReleaseBorrow
    <3>3. /\ Leave(t, "dealloc") /\ isa' \in Isas /\ side' \in Entries
          /\ UNCHANGED <<weakReg, weakLoc, freed>>
      BY <1>7, <2>3 DEF ReleaseBorrow
    <3> QED  BY <3>1, <3>2, <3>3, LeaveKeepsTypes
  <2>4. CASE ~(side.cnt = 0 /\ ~side.dealloc /\ ~side.weak)
    BY <1>7, <2>1, <2>2, <2>4 DEF ReleaseBorrow
  <2> QED  BY <2>3, <2>4
<1>8. CASE BorrowStore(t)
  <2>1. RCHalf - 1 \in 0..RCMax
    BY DEF RCMax
  <2>2. isa' \in Isas
    BY <1>8, <1>a, <2>1, IsaWithCount DEF BorrowStore
  <2>3. refs' \in [Threads -> 0..MaxRefs]
    BY <1>8, <1>b DEF BorrowStore
  <2> QED  BY <1>8, <2>2, <2>3 DEF BorrowStore
<1>9. CASE BorrowMissed(t)
  BY <1>9 DEF BorrowMissed
<1>10. CASE ReborrowStore(t)
  <2>1. old[t].rc + RCHalf - 1 \in 0..RCMax
    BY <1>10, <1>a DEF ReborrowStore, ReborrowFits, RCMax
  <2>2. isa' \in Isas
    BY <1>10, <1>a, <2>1, IsaWithCount DEF ReborrowStore
  <2>3. refs' \in [Threads -> 0..MaxRefs]
    BY <1>10, <1>b DEF ReborrowStore
  <2> QED  BY <1>10, <2>2, <2>3 DEF ReborrowStore
<1>11. CASE ReborrowMissed(t)
  BY <1>11 DEF ReborrowMissed
<1>12. CASE PutBack(t)
  <2>1. AddExtraRC(side, RCHalf) \in Entries
    BY <1>a, EntryTypes
  <2> QED  BY <1>12, <2>1 DEF PutBack
<1>13. CASE Settle(t)
  <2>1. side' \in Entries
    BY <1>13, <1>a, EntryTypes DEF Settle
  <2> QED  BY <1>13, <2>1, ZeroIsaType DEF Settle
<1> QED
  BY <1>1, <1>2, <1>3, <1>4, <1>5, <1>6, <1>7, <1>8, <1>9, <1>10, <1>11,
     <1>12, <1>13
  DEF ReleaseStep

LEMMA TypeInvDealloc ==
  ASSUME TypeInv, NEW t \in Threads, DeallocStep(t)
  PROVE  TypeInv'
<1> USE DEF TypeInv, TypeOK, Bounds, Labels, shared, Go, Enter, WeakClear
<1>1. CASE RetainInDealloc(t)
  BY <1>1 DEF RetainInDealloc
<1>2. CASE ReleaseInDealloc(t)
  BY <1>2 DEF ReleaseInDealloc
<1>3. CASE RootDealloc(t)
  BY <1>3 DEF RootDealloc
<1>4. CASE ClearNothing(t)
  BY <1>4 DEF ClearNothing
<1>5. CASE ClearNonpointer(t)
  <2>1. side' \in Entries /\ weakReg' \in BOOLEAN /\ weakLoc' \in BOOLEAN
    BY <1>5, EntryTypes DEF ClearNonpointer
  <2> QED  BY <1>5, <2>1 DEF ClearNonpointer
<1>6. CASE ClearRaw(t)
  <2>1. side' \in Entries /\ weakReg' \in BOOLEAN /\ weakLoc' \in BOOLEAN
    BY <1>6, EntryTypes DEF ClearRaw
  <2> QED  BY <1>6, <2>1 DEF ClearRaw
<1>7. CASE Free(t)
  BY <1>7 DEF Free
<1> QED
  BY <1>1, <1>2, <1>3, <1>4, <1>5, <1>6, <1>7 DEF DeallocStep

LEMMA TypeInvWeak ==
  ASSUME TypeInv, NEW t \in Threads, WeakStep(t)
  PROVE  TypeInv'
<1> USE DEF TypeInv, TypeOK, Bounds, Labels, shared, Go, Enter, Acquire,
            Unlock, Return, Leave, Missed, Reload, Store
<1>1. CASE WeakLoadLock(t)
  BY <1>1 DEF WeakLoadLock
<1>2. CASE WeakLoadNil(t)
  BY <1>2 DEF WeakLoadNil
<1>3. CASE WeakLoadUnlock(t)
  BY <1>3 DEF WeakLoadUnlock
<1>4. CASE SetWeaklyReferenced(t)
  <2>1. isa' \in Isas
    BY <1>4, IsaWithWeak DEF SetWeaklyReferenced
  <2> QED  BY <1>4, <2>1 DEF SetWeaklyReferenced
<1>5. CASE SetWeaklyReferencedMissed(t)
  BY <1>5 DEF SetWeaklyReferencedMissed
<1>6. CASE SetWeaklyReferencedRaw(t)
  <2>1. side' \in Entries
    BY <1>6, EntryTypes DEF SetWeaklyReferencedRaw
  <2> QED  BY <1>6, <2>1 DEF SetWeaklyReferencedRaw
<1>7. CASE StoreWeakLocation(t)
  BY <1>7, ZeroIsaType DEF StoreWeakLocation
<1> QED
  BY <1>1, <1>2, <1>3, <1>4, <1>5, <1>6, <1>7 DEF WeakStep

LEMMA TypeInvChangeIsa ==
  ASSUME TypeInv, NEW t \in Threads, ChangeIsaStep(t)
  PROVE  TypeInv'
<1> USE DEF TypeInv, TypeOK, Bounds, Labels, shared, Go, Acquire,
            Unlock, UnlockIf, Return, Leave, Missed, Reload, Store
<1>a. NewIsa(t) \in Isas
  <2>1. new[t] \in Isas /\ new[t].cls \in Classes /\ old[t] \in Isas
    BY IsaFields
  <2> QED  BY <2>1, IsaWithClass DEF NewIsa
<1>1. CASE ChangeIsaLock(t)
  BY <1>1 DEF ChangeIsaLock
<1>2. CASE ChangeIsaStore(t)
  <2>1. isa' \in Isas
    BY <1>2, <1>a DEF ChangeIsaStore
  <2>2. CASE ToRaw(t)
    BY <1>2, <2>1, <2>2 DEF ChangeIsaStore
  <2>3. CASE ~ToRaw(t)
    <3>1. lock' \in Threads \cup {NoThread} /\ crashed' \in BOOLEAN
      BY <1>2, <2>3 DEF ChangeIsaStore
    <3>2. Leave(t, ret[t]) /\ refs' = refs /\ side' = side
          /\ UNCHANGED <<weakReg, weakLoc, freed>>
      BY <1>2, <2>3 DEF ChangeIsaStore
    <3> QED  BY <2>1, <3>1, <3>2, ZeroIsaType
  <2> QED  BY <2>2, <2>3
<1>3. CASE ChangeIsaMissed(t)
  BY <1>3, <1>a DEF ChangeIsaMissed
<1>4. CASE MoveToSide(t)
  <2>1. side' \in Entries
    <3>1. old[t] \in Isas /\ old[t].rc \in 0..RCMax
          /\ side.cnt \in 0..SideMod - 1
      BY IsaFields, EntryFields
    <3>2. Minus(old[t].rc, 1) \in 0..SideMod - 1
      BY <3>1 DEF Minus, SideMod, RCMax
    <3> DEFINE sum == side.cnt + Minus(old[t].rc, 1)
    <3>3. (IF sum >= SideMod THEN SidePin ELSE sum) \in 0..SideMod - 1
      BY <3>1, <3>2 DEF SideMod
    <3>4. Dead(old[t]) \in BOOLEAN /\ old[t].weak \in BOOLEAN
      BY <3>1, IsaFields DEF Dead
    <3>5. MoveExtraRC(side, old[t]) \in Entries
      BY <3>3, <3>4 DEF MoveExtraRC, Entries
    <3> QED  BY <1>4, <3>5 DEF MoveToSide
  <2> QED  BY <1>4, <2>1, ZeroIsaType DEF MoveToSide
<1> QED  BY <1>1, <1>2, <1>3, <1>4 DEF ChangeIsaStep

LEMMA TypeInvNext == TypeInv /\ [Next]_vars => TypeInv'
<1> SUFFICES ASSUME TypeInv, [Next]_vars PROVE TypeInv'
  OBVIOUS
<1>1. ASSUME NEW t \in Threads, Start(t) \/ Continue(t)
      PROVE  TypeInv'
  BY <1>1, TypeInvStart, TypeInvRetain, TypeInvRelease, TypeInvDealloc,
     TypeInvWeak, TypeInvChangeIsa DEF Continue
<1>2. CASE UNCHANGED vars
  BY <1>2 DEF vars, shared, local, TypeInv, TypeOK, Bounds
<1> QED  BY <1>1, <1>2 DEF Next, Stopped

\* Every reachable state is well typed: no count leaves its bit field.
THEOREM TypeCorrect == Spec => []TypeOK
<1>1. TypeInv => TypeOK
  BY DEF TypeInv
<1> QED  BY <1>1, TypeInvInit, TypeInvNext, PTL DEF Spec

(***************************************************************************)
(* The count of a packed object is exact.                                  *)
(***************************************************************************)
PackedOnly ==
  FirstClass \in NonpointerClasses /\ Targets \subseteq NonpointerClasses

\* All the references there can be.
AllRefs == Threads \X (1..MaxRefs)
SideFits == Cardinality(AllRefs) < SidePin

(***************************************************************************)
(* The inductive invariant.                                                *)
(***************************************************************************)
\* old[t] holds an isa that the call will look at.
Loaded == {"retain", "release", "borrow", "reborrow", "putback",
           "setweak", "change"}

\* Half of a count is out of both words.
Transit == {"spill", "borrow", "reborrow", "putback"}

\* Places where sideTableLocked may be set.
MayLock == {"retain", "spill", "release", "borrow", "reborrow", "putback",
            "settle"}

\* The places of the code that need the lock.  After a tryRetain, in
\* "wunlock", the thread may have lost it: see NoCrash.
Holds(t) ==
  \/ pc[t] \in Transit \cup {"settle", "setweak", "wstore"}
  \/ pc[t] = "retain" /\ (Trying(t) \/ locked[t])
  \/ pc[t] = "release" /\ locked[t]

\* What thread t knows in the middle of a call.
Local(t) ==
  /\ pc[t] # "move"
  /\ pc[t] \in Loaded => old[t].np
  /\ pc[t] = "change" => new[t].cls \in NonpointerClasses
  /\ locked[t] => pc[t] \in MayLock
  /\ Holds(t) => lock = t
  /\ pc[t] = "release" /\ locked[t] => old[t].inside = isa.inside
  /\ pc[t] = "borrow" => old[t].rc = 0 /\ old[t].inside
  /\ pc[t] \in Transit => isa.inside
  /\ ret[t] \in {"deallocR", "deallocE"}
       => pc[t] \in {"retain", "release"} /\ Dead(old[t])
  /\ pc[t] = "retain" /\ Dead(old[t]) => Dead(isa)
  /\ Deallocating(t) => Dead(isa)

Multiple(n) == \E k \in Nat : n = k * RCHalf

\* The bit has_sidetable_rc says where the rest of the count is.
Words ==
  /\ isa.np
  /\ Multiple(side.cnt)
  /\ ~isa.inside => side.cnt = 0
  /\ isa.inside /\ InTransit = 0 => side.cnt # 0
  /\ isa.rc + side.cnt + InTransit = TotalRefs

\* At most one thread deallocates the object, before it is freed.
Dying ==
  /\ freed => Dead(isa)
  /\ \A t, u \in Threads : Deallocating(t) /\ Deallocating(u) => t = u
  /\ freed => \A t \in Threads : ~Deallocating(t)

ExactInv == TypeInv /\ (\A t \in Threads : Local(t)) /\ Words /\ Dying

(***************************************************************************)
(* Counting references.                                                    *)
(***************************************************************************)
LEMMA AllRefsFinite ==
  /\ IsFiniteSet(AllRefs)
  /\ Cardinality(AllRefs) \in Nat
<1>1. IsFiniteSet(1..MaxRefs)
  BY FS_Interval
<1>2. IsFiniteSet(AllRefs)
  BY <1>1, ThreadsAssumption, FS_Product DEF AllRefs
<1> QED  BY <1>2, FS_CardinalityType

LEMMA TotalRefsBound ==
  ASSUME SideFits, refs \in [Threads -> 0..MaxRefs]
  PROVE  /\ IsFiniteSet(Owned)
         /\ TotalRefs \in Nat /\ TotalRefs < SidePin
<1>1. Owned \subseteq AllRefs
  BY DEF Owned, AllRefs
<1>2. /\ IsFiniteSet(Owned)
      /\ Cardinality(Owned) <= Cardinality(AllRefs)
  BY <1>1, AllRefsFinite, FS_Subset
<1>3. Cardinality(Owned) \in Nat
  BY <1>2, FS_CardinalityType
<1> QED  BY <1>2, <1>3, AllRefsFinite DEF TotalRefs, SideFits

LEMMA TotalRefsGain ==
  ASSUME refs \in [Threads -> 0..MaxRefs], SideFits,
         NEW t \in Threads, refs[t] < MaxRefs,
         refs' = [refs EXCEPT ![t] = @ + 1]
  PROVE  TotalRefs' = TotalRefs + 1
<1> DEFINE p == <<t, refs[t] + 1>>
<1>1. refs[t] \in 0..MaxRefs /\ refs[t] + 1 \in 1..MaxRefs
  OBVIOUS
<1>2. p \notin Owned
  BY <1>1 DEF Owned
<1>3. Owned' = Owned \cup {p}
  <2>1. ASSUME NEW q \in AllRefs
        PROVE  q[2] <= refs'[q[1]] <=> q[2] <= refs[q[1]] \/ q = p
    BY <1>1, <2>1 DEF AllRefs
  <2>2. p \in AllRefs
    BY <1>1 DEF AllRefs
  <2> QED  BY <2>1, <2>2 DEF Owned, AllRefs
<1>4. IsFiniteSet(Owned)
  BY TotalRefsBound
<1> QED  BY <1>2, <1>3, <1>4, FS_AddElement DEF TotalRefs

LEMMA TotalRefsDrop ==
  ASSUME refs \in [Threads -> 0..MaxRefs], SideFits,
         NEW t \in Threads, refs[t] > 0,
         refs' = [refs EXCEPT ![t] = @ - 1]
  PROVE  TotalRefs' = TotalRefs - 1
<1> DEFINE p == <<t, refs[t]>>
<1>1. refs[t] \in 1..MaxRefs
  OBVIOUS
<1>2. p \in Owned
  BY <1>1 DEF Owned
<1>3. Owned' = Owned \ {p}
  <2>1. ASSUME NEW q \in AllRefs
        PROVE  q[2] <= refs'[q[1]] <=> q[2] <= refs[q[1]] /\ q # p
    BY <1>1, <2>1 DEF AllRefs
  <2> QED  BY <2>1 DEF Owned, AllRefs
<1>4. IsFiniteSet(Owned)
  BY TotalRefsBound
<1> QED  BY <1>2, <1>3, <1>4, FS_RemoveElement DEF TotalRefs

\* A reference that changes hands is counted once before and once after.
LEMMA TotalRefsGive ==
  ASSUME refs \in [Threads -> 0..MaxRefs], SideFits,
         NEW t \in Threads, NEW u \in Threads, t # u,
         refs[t] > 0, refs[u] < MaxRefs,
         refs' = [refs EXCEPT ![t] = @ - 1, ![u] = @ + 1]
  PROVE  TotalRefs' = TotalRefs
<1> DEFINE p == <<t, refs[t]>>
           r == <<u, refs[u] + 1>>
<1>1. refs[t] \in 1..MaxRefs /\ refs[u] + 1 \in 1..MaxRefs
      /\ refs[u] \in 0..MaxRefs
  OBVIOUS
<1>2. p \in Owned /\ r \notin Owned
  BY <1>1 DEF Owned
<1>3. Owned' = (Owned \ {p}) \cup {r}
  <2>1. ASSUME NEW q \in AllRefs
        PROVE  q[2] <= refs'[q[1]]
                 <=> (q[2] <= refs[q[1]] /\ q # p) \/ q = r
    BY <1>1, <2>1 DEF AllRefs
  <2>2. r \in AllRefs
    BY <1>1 DEF AllRefs
  <2> QED  BY <2>1, <2>2 DEF Owned, AllRefs
<1>4. IsFiniteSet(Owned) /\ Cardinality(Owned) \in Nat
  BY TotalRefsBound DEF TotalRefs
<1>5. /\ IsFiniteSet(Owned \ {p})
      /\ Cardinality(Owned \ {p}) = Cardinality(Owned) - 1
  BY <1>2, <1>4, FS_RemoveElement
<1>6. Cardinality(Owned') = Cardinality(Owned \ {p}) + 1
  BY <1>2, <1>3, <1>5, FS_AddElement
<1> QED  BY <1>4, <1>5, <1>6 DEF TotalRefs

(***************************************************************************)
(* Multiples of RC_HALF.                                                   *)
(***************************************************************************)
LEMMA Multiples ==
  ASSUME NEW n \in Nat, Multiple(n)
  PROVE  /\ Multiple(n + RCHalf)
         /\ n # 0 => n >= RCHalf /\ Multiple(n - RCHalf)
<1>1. PICK k \in Nat : n = k * RCHalf
  BY DEF Multiple
<1>2. (k + 1) * RCHalf = n + RCHalf /\ (k - 1) * RCHalf = n - RCHalf
  BY <1>1
<1>3. Multiple(n + RCHalf)
  BY <1>2 DEF Multiple
<1>4. ASSUME n # 0 PROVE n >= RCHalf /\ Multiple(n - RCHalf)
  <2>1. k - 1 \in Nat
    BY <1>1, <1>4
  <2>2. (k - 1) * RCHalf >= 0
    BY <2>1
  <2> QED  BY <1>2, <2>1, <2>2 DEF Multiple
<1> QED  BY <1>3, <1>4

(***************************************************************************)
(* What a step of one thread leaves alone.                                 *)
(***************************************************************************)
LEMMA InTransitKept ==
  ASSUME NEW t \in Threads, pc[t] \notin Transit, pc'[t] \notin Transit,
         \A u \in Threads \ {t} : pc'[u] = pc[u]
  PROVE  InTransit' = InTransit
  BY DEF InTransit, Transit

\* Only the owner of the lock has a half in transit.
LEMMA InTransitOfOwner ==
  ASSUME \A u \in Threads : Local(u), NEW t \in Threads, lock = t
  PROVE  /\ \A u \in Threads \ {t} : pc[u] \notin Transit
         /\ InTransit = IF pc[t] \in Transit THEN RCHalf ELSE 0
<1>1. ASSUME NEW u \in Threads \ {t} PROVE pc[u] \notin Transit
  BY DEF Local, Holds
<1> QED  BY <1>1 DEF InTransit, Transit

LEMMA InTransitAfter ==
  ASSUME NEW t \in Threads,
         \A u \in Threads \ {t} : pc[u] \notin Transit /\ pc'[u] = pc[u]
  PROVE  InTransit' = IF pc'[t] \in Transit THEN RCHalf ELSE 0
  BY DEF InTransit, Transit

LEMMA WordsKept ==
  ASSUME Words, isa'.np, isa'.rc = isa.rc, isa'.inside = isa.inside,
         side'.cnt = side.cnt, InTransit' = InTransit,
         TotalRefs' = TotalRefs
  PROVE  Words'
  BY DEF Words, Multiple

LEMMA LocalOthers ==
  ASSUME NEW u \in Threads, Local(u), TypeInv, TypeInv',
         pc'[u] = pc[u], ret'[u] = ret[u], old'[u] = old[u],
         new'[u] = new[u], locked'[u] = locked[u],
         lock = u => lock' = u,
         isa'.inside # isa.inside => lock # u,
         Dead(isa) => Dead(isa')
  PROVE  Local(u)'
  BY DEF Local, Holds, Trying, Deallocating, Dead, Transit

\* What other threads see of a step of t.
Others(t) ==
  /\ \A u \in Threads \ {t} :
        /\ pc'[u] = pc[u] /\ ret'[u] = ret[u] /\ old'[u] = old[u]
        /\ new'[u] = new[u] /\ locked'[u] = locked[u]
        /\ lock = u => lock' = u
  /\ isa'.inside # isa.inside => lock = t
  /\ Dead(isa) => Dead(isa')

\* The only way into -dealloc is to make the count zero; the only way to
\* freed is out of -dealloc.
Progress(t) ==
  /\ Deallocating(t)' => Deallocating(t) \/ ~Dead(isa)
  /\ freed' => freed \/ (Deallocating(t) /\ ~Deallocating(t)')

LEMMA StepKeeps ==
  ASSUME ExactInv, TypeInv', NEW t \in Threads, Others(t), Progress(t),
         Local(t)', Words'
  PROVE  ExactInv'
<1>1. ASSUME NEW u \in Threads PROVE Local(u)'
  <2>1. CASE u = t
    BY <2>1
  <2>2. CASE u # t
    BY <2>2, LocalOthers DEF ExactInv, Others, TypeInv, TypeOK
  <2> QED  BY <2>1, <2>2
<1>2. ASSUME NEW u \in Threads \ {t}
      PROVE  Deallocating(u)' <=> Deallocating(u)
  BY DEF Others, Deallocating
<1>3. ASSUME NEW u \in Threads, Deallocating(u) PROVE Dead(isa)
  BY <1>3 DEF ExactInv, Local
<1>4. freed' => Dead(isa')
  BY <1>3 DEF ExactInv, Dying, Others, Progress
<1>5. ASSUME NEW u \in Threads, NEW v \in Threads,
             Deallocating(u)', Deallocating(v)'
      PROVE  u = v
  BY <1>2, <1>3, <1>5 DEF ExactInv, Dying, Progress
<1>6. freed' => \A u \in Threads : ~Deallocating(u)'
  BY <1>2, <1>3 DEF ExactInv, Dying, Progress
<1>7. Dying'
  BY <1>4, <1>5, <1>6 DEF Dying
<1> QED  BY <1>1, <1>7 DEF ExactInv

(***************************************************************************)
(* The initial states.                                                     *)
(***************************************************************************)
LEMMA ExactInvInit == ASSUME PackedOnly, SideFits PROVE Init => ExactInv
<1> SUFFICES ASSUME Init PROVE ExactInv
  OBVIOUS
<1>1. TypeInv
  BY TypeInvInit
<1>2. ASSUME NEW t \in Threads PROVE Local(t)
  BY <1>2 DEF Init, Local, ZeroIsa, Loaded, MayLock, Transit, Holds, Trying,
              Deallocating, DeallocLabels
<1>3. InTransit = 0
  BY DEF Init, InTransit
<1>4. TotalRefs = 1
  <2>1. PICK t \in Threads : refs = [u \in Threads |-> IF u = t THEN 1 ELSE 0]
    BY DEF Init
  <2>2. Owned = {<<t, 1>>}
    BY <2>1 DEF Owned
  <2> QED  BY <2>2, FS_Singleton DEF TotalRefs
<1>5. Multiple(0)
  BY 0 * RCHalf = 0 DEF Multiple
<1>6. Words
  <2>1. isa.np /\ isa.rc = 1 /\ ~isa.inside /\ side.cnt = 0
    BY DEF Init, PackedOnly, NoEntry
  <2> QED  BY <1>3, <1>4, <1>5, <2>1 DEF Words
<1>7. Dying
  BY DEF Init, Dying, Deallocating, DeallocLabels
<1> QED  BY <1>1, <1>2, <1>6, <1>7 DEF ExactInv

(***************************************************************************)
(* The steps.                                                              *)
(***************************************************************************)
LEMMA ExactStart ==
  ASSUME PackedOnly, SideFits, ExactInv, TypeInv', NEW t \in Threads, Start(t)
  PROVE  ExactInv'
<1> USE DEF TypeInv, TypeOK, shared, local, Go, Enter, Owner
<1>a. /\ TypeInv /\ Local(t) /\ Words /\ isa.np
  BY DEF ExactInv, Words
<1>1. CASE StartRetain(t) \/ StartRelease(t) \/ StartChangeIsa(t)
  <2>1. /\ pc[t] = "idle" /\ old'[t] = isa /\ ret'[t] = "idle"
        /\ pc'[t] \in {"retain", "release", "change"}
        /\ UNCHANGED <<shared, full, locked, refs>>
        /\ \A u \in Threads \ {t} :
             /\ pc'[u] = pc[u] /\ ret'[u] = ret[u] /\ old'[u] = old[u]
             /\ new'[u] = new[u]
    BY <1>1, <1>a DEF StartRetain, StartRelease, StartChangeIsa
  <2>2. pc'[t] = "change" => new'[t].cls \in NonpointerClasses
    <3>1. CASE StartChangeIsa(t)
      BY <1>a, <3>1 DEF StartChangeIsa, PackedOnly, ZeroIsa
    <3> QED  BY <1>1, <1>a, <3>1 DEF StartRetain, StartRelease
  <2>3. Others(t) /\ Progress(t)
    BY <2>1 DEF Others, Progress, Deallocating, DeallocLabels
  <2>4. Local(t)'
    BY <1>a, <2>1, <2>2
    DEF Local, Loaded, MayLock, Holds, Trying, Transit, Deallocating,
        DeallocLabels
  <2>5. InTransit' = InTransit
    BY <2>1, InTransitKept DEF Transit
  <2>6. Words'
    BY <1>a, <2>1, <2>5, WordsKept DEF TotalRefs, Owned
  <2> QED  BY <2>3, <2>4, <2>6, StepKeeps
<1>2. CASE StartWeakLoad(t)
  <2>1. Others(t) /\ Progress(t)
    BY <1>2 DEF StartWeakLoad, Others, Progress, Deallocating, DeallocLabels
  <2>2. Local(t)'
    BY <1>2, <1>a DEF StartWeakLoad, Local, Loaded, MayLock, Holds, Trying,
                      Transit, Deallocating, DeallocLabels
  <2>3. InTransit' = InTransit
    BY <1>2, <1>a, InTransitKept DEF StartWeakLoad, Transit
  <2>4. Words'
    BY <1>2, <1>a, <2>3, WordsKept DEF StartWeakLoad, TotalRefs, Owned
  <2> QED  BY <2>1, <2>2, <2>4, StepKeeps
<1>3. CASE StoreWeak(t)
  <2>1. Others(t) /\ Progress(t)
    BY <1>3, <1>a DEF StoreWeak, Acquire, Others, Progress, Deallocating,
                      DeallocLabels
  <2>2. Local(t)'
    BY <1>3, <1>a DEF StoreWeak, Acquire, Local, Loaded, MayLock, Holds,
                      Trying, Transit, Deallocating, DeallocLabels
  <2>3. InTransit' = InTransit
    BY <1>3, <1>a, InTransitKept DEF StoreWeak, Transit
  <2>4. Words'
    BY <1>3, <1>a, <2>3, WordsKept DEF StoreWeak, TotalRefs, Owned
  <2> QED  BY <2>1, <2>2, <2>4, StepKeeps
<1>4. CASE StoreWeakNil(t) \/ \E u \in Threads : Give(t, u)
  <2>1. UNCHANGED <<isa, side, lock, freed, local>>
    BY <1>4 DEF StoreWeakNil, Give
  <2>2. TotalRefs' = TotalRefs
    <3>1. CASE StoreWeakNil(t)
      BY <3>1 DEF StoreWeakNil, TotalRefs, Owned
    <3>2. CASE \E u \in Threads : Give(t, u)
      BY <1>a, <3>2, TotalRefsGive DEF Give
    <3> QED  BY <1>4, <3>1, <3>2
  <2>3. Others(t) /\ Progress(t)
    BY <2>1 DEF Others, Progress, Deallocating
  <2>4. Local(t)'
    BY <1>a, <2>1 DEF Local, Holds, Trying, Deallocating
  <2>5. InTransit' = InTransit
    BY <2>1 DEF InTransit
  <2>6. Words'
    BY <1>a, <2>1, <2>2, <2>5, WordsKept
  <2> QED  BY <2>3, <2>4, <2>6, StepKeeps
<1> QED  BY <1>1, <1>2, <1>3, <1>4 DEF Start

\* A step that ends a call and keeps Words keeps the invariant.
LEMMA ReturnKeeps ==
  ASSUME ExactInv, TypeInv', NEW t \in Threads, Return(t), Words',
         UNCHANGED freed,
         \A u \in Threads \ {t} : lock = u => lock' = u,
         isa'.inside # isa.inside => lock = t,
         Dead(isa) => Dead(isa')
  PROVE  ExactInv'
<1> USE DEF TypeInv, TypeOK, Return, Leave, Go
<1>a. TypeInv /\ Local(t)
  BY DEF ExactInv
<1>1. /\ pc'[t] = ret[t] /\ ret'[t] = "idle" /\ ~locked'[t]
      /\ ret[t] \in {"idle", "deallocR", "deallocE", "wunlock"}
  BY <1>a
<1>2. Others(t) /\ Progress(t)
  BY <1>a, <1>1 DEF Others, Progress, Deallocating, DeallocLabels
<1>3. Local(t)'
  BY <1>a, <1>1 DEF Local, Loaded, MayLock, Holds, Trying, Transit,
                    Deallocating, DeallocLabels
<1> QED  BY <1>2, <1>3, StepKeeps

\* The release that makes the count zero enters -dealloc.
LEMMA DeallocKeeps ==
  ASSUME ExactInv, TypeInv', NEW t \in Threads, Leave(t, "dealloc"), Words',
         UNCHANGED freed,
         \A u \in Threads \ {t} : lock = u => lock' = u,
         isa'.inside = isa.inside, ~Dead(isa), Dead(isa')
  PROVE  ExactInv'
<1> USE DEF TypeInv, TypeOK, Leave, Go
<1>a. TypeInv /\ Local(t)
  BY DEF ExactInv
<1>1. pc'[t] = "dealloc" /\ ret'[t] = "idle" /\ ~locked'[t]
  BY <1>a
<1>2. Others(t) /\ Progress(t)
  BY <1>a, <1>1 DEF Others, Progress, Deallocating, DeallocLabels
<1>3. Local(t)'
  BY <1>a, <1>1 DEF Local, Loaded, MayLock, Holds, Trying, Transit,
                    Deallocating, DeallocLabels
<1> QED  BY <1>2, <1>3, StepKeeps

\* A thread that starts its loop over, perhaps after taking the lock.
LEMMA RetryKeeps ==
  ASSUME ExactInv, TypeInv', NEW t \in Threads,
         UNCHANGED <<isa, side, freed, pc, ret, refs>>,
         pc[t] \in {"retain", "release", "change"},
         lock' \in {lock, t}, lock' # lock => lock = NoThread,
         \A u \in Threads \ {t} :
           old'[u] = old[u] /\ new'[u] = new[u] /\ locked'[u] = locked[u],
         old'[t] \in {isa, old[t]},
         new'[t].cls = new[t].cls,
         locked'[t] => pc[t] # "change" /\ lock' = t,
         pc[t] = "release" /\ locked'[t] => old'[t] = isa
  PROVE  ExactInv'
<1>a. TypeInv /\ Local(t) /\ Words /\ isa.np
  BY DEF ExactInv, Words
<1>1. Others(t) /\ Progress(t)
  BY <1>a DEF TypeInv, TypeOK, Others, Progress, Deallocating
<1>2. Local(t)'
  BY <1>a DEF Local, Loaded, MayLock, Holds, Trying, Transit, Deallocating,
              DeallocLabels
<1>3. InTransit' = InTransit /\ TotalRefs' = TotalRefs
  BY DEF InTransit, TotalRefs, Owned
<1>4. Words'
  BY <1>a, <1>3, WordsKept
<1> QED  BY <1>1, <1>2, <1>4, StepKeeps

LEMMA ExactRetain ==
  ASSUME SideFits, ExactInv, TypeInv', NEW t \in Threads, RetainStep(t)
  PROVE  ExactInv'
<1> USE DEF TypeInv, TypeOK, shared
<1>a. /\ TypeInv /\ Bounds /\ Local(t) /\ Words /\ isa.np
      /\ isa \in Isas /\ isa.rc \in 0..RCMax /\ isa.inside \in BOOLEAN
      /\ old[t] \in Isas /\ old[t].rc \in 0..RCMax
      /\ side.cnt \in 0..SideMod - 1
  BY IsaFields, EntryFields DEF ExactInv, Words
<1>b. TotalRefs \in Nat /\ TotalRefs < SidePin
  BY <1>a, TotalRefsBound
<1>c. pc[t] = "retain" => old[t].np
  BY <1>a DEF Local, Loaded
<1>d. Countable(t) => ret[t] # "deallocR" /\ refs[t] < MaxRefs
  BY <1>a DEF Countable, Local, Bounds
<1>e. Countable(t) /\ Gain(t) => TotalRefs' = TotalRefs + 1
  BY <1>a, <1>d, TotalRefsGain DEF Gain
<1>1. CASE RetainRaw(t) \/ TryRetainRaw(t)
  BY <1>1, <1>c DEF RetainRaw, TryRetainRaw
<1>2. CASE RetainDead(t)
  <2>1. InTransit' = InTransit
    BY <1>2, <1>a, InTransitKept DEF RetainDead, Return, Leave, Go, Transit
  <2>2. Words'
    BY <1>2, <1>a, <2>1, WordsKept DEF RetainDead, TotalRefs, Owned
  <2> QED  BY <1>2, <2>2, ReturnKeeps DEF RetainDead, UnlockIf, Unlock
<1>3. CASE RetainInline(t)
  <2>1. InTransit' = InTransit
    BY <1>3, <1>a, InTransitKept
    DEF RetainInline, Countable, Return, Leave, Go, Transit
  <2>2. /\ isa' = [isa EXCEPT !.rc = isa.rc + 1] /\ UNCHANGED side
        /\ old[t] = isa
    BY <1>3 DEF RetainInline, Store
  <2>3. isa'.np /\ isa'.rc = isa.rc + 1 /\ isa'.inside = isa.inside
    BY <1>a, <2>2 DEF Isas
  <2>4. TotalRefs' = TotalRefs + 1
    BY <1>3, <1>e DEF RetainInline
  <2>5. InTransit \in {0, RCHalf}
    BY DEF InTransit
  <2>6. Words'
    <3>1. isa'.rc + side'.cnt + InTransit' = TotalRefs'
      <4>1. isa.rc + side.cnt + InTransit = TotalRefs
        BY <1>a DEF Words
      <4> HIDE DEF InTransit, TotalRefs, shared, TypeInv, TypeOK
      <4> QED  BY <4>1, <1>a, <1>b, <2>1, <2>2, <2>3, <2>4, <2>5
    <3> HIDE DEF InTransit, TotalRefs, shared, TypeInv, TypeOK
    <3> QED  BY <1>a, <2>1, <2>2, <2>3, <3>1 DEF Words, Multiple
  <2>7. ~Dead(isa)
    BY <1>3, <2>2 DEF RetainInline, Countable
  <2> QED
    BY <1>3, <2>3, <2>6, <2>7, ReturnKeeps DEF RetainInline, UnlockIf, Unlock
<1>4. CASE RetainInlineMissed(t) \/ RetainOverflow(t)
  BY <1>4, <1>a, RetryKeeps
  DEF RetainInlineMissed, RetainOverflow, Overflowing, Countable, Missed,
      Reload, Local, Holds
<1>5. CASE RetainLock(t)
  BY <1>5, <1>a, RetryKeeps
  DEF RetainLock, Overflowing, Countable, Acquire
<1>6. CASE RetainSpillMissed(t)
  BY <1>6, <1>a, RetryKeeps
  DEF RetainSpillMissed, MaySpill, Overflowing, Countable, Missed, Reload,
      Local, Holds
<1>7. CASE RetainSpill(t)
  <2>1. /\ pc[t] = "retain" /\ lock = t /\ isa.rc = RCMax /\ old[t] = isa
        /\ Countable(t)
    BY <1>7, <1>a
    DEF RetainSpill, MaySpill, Overflowing, Countable, Store, Local, Holds
  <2>2. pc' = [pc EXCEPT ![t] = "spill"]
    BY <1>7 DEF RetainSpill, Go
  <2>3. /\ \A u \in Threads \ {t} : pc[u] \notin Transit /\ pc'[u] = pc[u]
        /\ InTransit = 0
    BY <1>a, <2>1, <2>2, InTransitOfOwner DEF ExactInv, Transit
  <2>4. InTransit' = RCHalf
    BY <1>a, <2>2, <2>3, InTransitAfter DEF Transit
  <2>5. /\ isa' = [isa EXCEPT !.rc = RCHalf, !.inside = TRUE]
        /\ UNCHANGED <<side, lock, freed, ret, old, new>>
        /\ locked' = [locked EXCEPT ![t] = TRUE]
    BY <1>7, <2>1 DEF RetainSpill, Store
  <2>6. isa'.np /\ isa'.rc = RCHalf /\ isa'.inside
    BY <1>a, <2>5 DEF Isas
  <2>7. TotalRefs' = TotalRefs + 1
    BY <1>7, <1>e, <2>1 DEF RetainSpill
  <2>8. Words'
    BY <1>a, <1>b, <2>1, <2>3, <2>4, <2>5, <2>6, <2>7
    DEF Words, Multiple, RCMax
  <2>9. ~Dead(isa)
    BY <2>1 DEF Countable
  <2>10. Others(t) /\ Progress(t)
    BY <1>a, <2>1, <2>2, <2>5, <2>9 DEF Others, Progress, Deallocating
  <2>11. Local(t)'
    BY <1>a, <2>1, <2>2, <2>5, <2>6, <2>9
    DEF Local, Loaded, MayLock, Holds, Trying, Transit, Deallocating,
        DeallocLabels
  <2> QED  BY <2>8, <2>10, <2>11, StepKeeps
<1>8. CASE RetainSpilled(t)
  <2>1. pc[t] = "spill" /\ lock = t /\ isa.inside
    BY <1>8, <1>a DEF RetainSpilled, Local, Holds, Transit
  <2>2. /\ \A u \in Threads \ {t} : pc[u] \notin Transit /\ pc'[u] = pc[u]
        /\ InTransit = RCHalf
    BY <1>8, <1>a, <2>1, InTransitOfOwner
    DEF ExactInv, Transit, RetainSpilled, Return, Leave, Go
  <2>3. InTransit' = 0
    BY <1>8, <1>a, <2>2, InTransitAfter
    DEF Transit, RetainSpilled, Return, Leave, Go
  <2>4. side.cnt + RCHalf < SidePin
    BY <1>a, <1>b, <2>2 DEF Words
  <2>5. side'.cnt = side.cnt + RCHalf
    BY <1>8, <1>a, <2>4
    DEF RetainSpilled, AddExtraRC, Pinned, SideMod, Entries
  <2>6. UNCHANGED <<isa, freed>> /\ TotalRefs' = TotalRefs
    BY <1>8 DEF RetainSpilled, TotalRefs, Owned
  <2>7. Multiple(side.cnt + RCHalf)
    BY <1>a, Multiples DEF Words
  <2>8. Words'
    <3>1. side'.cnt # 0
      BY <1>a, <2>5
    <3>2. Multiple(side'.cnt)
      BY <2>5, <2>7
    <3> QED  BY <1>a, <1>b, <2>1, <2>2, <2>3, <2>5, <2>6, <3>1, <3>2 DEF Words
  <2> QED
    BY <1>8, <2>1, <2>6, <2>8, ReturnKeeps DEF RetainSpilled, UnlockIf, Unlock
<1> QED
  BY <1>1, <1>2, <1>3, <1>4, <1>5, <1>6, <1>7, <1>8 DEF RetainStep

\* A thread that holds the lock at the underflow finds a count to borrow.
LEMMA CanBorrow ==
  ASSUME ExactInv, NEW t \in Threads, Underflowing(t), locked[t]
  PROVE  /\ lock = t /\ isa.inside /\ old[t].inside = isa.inside
         /\ InTransit = 0
         /\ side.cnt >= RCHalf /\ Multiple(side.cnt - RCHalf)
<1>1. lock = t /\ old[t].inside = isa.inside /\ isa.inside
  BY DEF ExactInv, Local, Holds, Underflowing
<1>2. InTransit = 0
  BY <1>1, InTransitOfOwner DEF ExactInv, Underflowing, Transit
<1>3. side.cnt # 0 /\ side.cnt \in Nat /\ Multiple(side.cnt)
  BY <1>1, <1>2, EntryFields DEF ExactInv, Words, TypeInv, TypeOK
<1> QED  BY <1>1, <1>2, <1>3, Multiples

LEMMA ExactRelease ==
  ASSUME SideFits, ExactInv, TypeInv', NEW t \in Threads, ReleaseStep(t)
  PROVE  ExactInv'
<1> USE DEF TypeInv, TypeOK, shared
<1>a. /\ TypeInv /\ Bounds /\ Local(t) /\ Words /\ isa.np
      /\ isa \in Isas /\ isa.rc \in 0..RCMax /\ isa.inside \in BOOLEAN
      /\ old[t] \in Isas /\ old[t].rc \in 0..RCMax
      /\ side \in Entries /\ side.cnt \in 0..SideMod - 1
  BY IsaFields, EntryFields DEF ExactInv, Words
<1>b. TotalRefs \in Nat /\ TotalRefs < SidePin
  BY <1>a, TotalRefsBound
<1>c. pc[t] = "release" => old[t].np
  BY <1>a DEF Local, Loaded
<1>d. InTransit \in {0, RCHalf}
  BY DEF InTransit
<1>e. ASSUME pc[t] \in {"borrow", "reborrow"}
               \/ (pc[t] = "release" /\ ~Dead(old[t])),
             Drop(t)
      PROVE  TotalRefs' = TotalRefs - 1
  <2>1. ret[t] # "deallocE"
    BY <1>a, <1>e DEF Local
  <2>2. refs[t] > 0
    BY <1>a, <1>e, <2>1 DEF Bounds
  <2> QED  BY <1>a, <1>e, <2>1, <2>2, TotalRefsDrop DEF Drop
<1>1. CASE ReleaseRaw(t)
  BY <1>1, <1>c DEF ReleaseRaw
<1>2. CASE ReleaseDead(t)
  <2>1. InTransit' = InTransit
    BY <1>2, <1>a, InTransitKept DEF ReleaseDead, Return, Leave, Go, Transit
  <2>2. Words'
    BY <1>2, <1>a, <2>1, WordsKept DEF ReleaseDead, TotalRefs, Owned
  <2> QED  BY <1>2, <2>2, ReturnKeeps DEF ReleaseDead, UnlockIf, Unlock
<1>3. CASE ReleaseInline(t)
  <2>1. InTransit' = InTransit
    BY <1>3, <1>a, InTransitKept DEF ReleaseInline, Return, Leave, Go, Transit
  <2>2. /\ isa' = [isa EXCEPT !.rc = isa.rc - 1] /\ isa.rc > 0
        /\ old[t] = isa /\ UNCHANGED <<side, freed>>
    BY <1>3 DEF ReleaseInline, Store
  <2>3. isa'.np /\ isa'.rc = isa.rc - 1 /\ isa'.inside = isa.inside
    BY <1>a, <2>2 DEF Isas
  <2>4. ~Dead(isa)
    BY <2>2 DEF Dead
  <2>5. TotalRefs' = TotalRefs - 1
    BY <1>3, <1>e, <2>2, <2>4 DEF ReleaseInline
  <2>6. Words'
    <3>1. isa'.rc + side'.cnt + InTransit' = TotalRefs'
      BY <1>a, <1>b, <1>d, <2>1, <2>2, <2>3, <2>5 DEF Words
    <3> QED  BY <1>a, <2>1, <2>2, <2>3, <3>1 DEF Words
  <2>7. \A u \in Threads \ {t} : lock = u => lock' = u
    BY <1>3 DEF ReleaseInline, UnlockIf, Unlock
  <2>8. CASE Dead(isa')
    BY <1>3, <2>2, <2>3, <2>4, <2>6, <2>7, <2>8, DeallocKeeps
    DEF ReleaseInline
  <2>9. CASE ~Dead(isa')
    BY <1>3, <2>2, <2>3, <2>4, <2>6, <2>7, <2>9, ReturnKeeps
    DEF ReleaseInline
  <2> QED  BY <2>8, <2>9
<1>4. CASE ReleaseInlineMissed(t) \/ ReleaseUnderflow(t)
  BY <1>4, <1>a, RetryKeeps
  DEF ReleaseInlineMissed, ReleaseUnderflow, Underflowing, Missed, Reload,
      Local, Holds
<1>5. CASE ReleaseLock(t)
  BY <1>5, <1>a, RetryKeeps DEF ReleaseLock, Underflowing, Acquire, Reload
<1>6. CASE ReleaseBorrow(t)
  <2>1. /\ lock = t /\ isa.inside /\ old[t].inside = isa.inside
        /\ InTransit = 0
        /\ side.cnt >= RCHalf /\ Multiple(side.cnt - RCHalf)
        /\ pc[t] = "release" /\ old[t].rc = 0
    BY <1>6, CanBorrow DEF ReleaseBorrow, Underflowing
  <2>2. /\ side' = SubExtraRC(side, RCHalf)
        /\ pc' = [pc EXCEPT ![t] = "borrow"]
        /\ UNCHANGED <<isa, lock, freed, ret, old, new, locked, refs>>
    BY <1>6, <2>1 DEF ReleaseBorrow, Go
  <2>3. side'.cnt = side.cnt - RCHalf
    BY <1>a, <2>1, <2>2 DEF SubExtraRC, Minus, Entries
  <2>4. InTransit' = RCHalf
    <3>1. \A u \in Threads \ {t} : pc[u] \notin Transit /\ pc'[u] = pc[u]
      BY <1>a, <2>1, <2>2, InTransitOfOwner DEF ExactInv
    <3> QED  BY <1>a, <2>2, <3>1, InTransitAfter DEF Transit
  <2>5. TotalRefs' = TotalRefs
    BY <2>2 DEF TotalRefs, Owned
  <2>6. Words'
    BY <1>a, <1>b, <2>1, <2>2, <2>3, <2>4, <2>5 DEF Words
  <2>7. Others(t) /\ Progress(t)
    BY <1>a, <2>1, <2>2 DEF Others, Progress, Deallocating, DeallocLabels
  <2>8. Local(t)'
    <3>1. ~Deallocating(t)
      BY <1>a, <2>1 DEF Local, Dead
    <3> QED
      BY <1>a, <1>c, <2>1, <2>2, <3>1
      DEF Local, Loaded, MayLock, Holds, Trying, Transit, Deallocating,
          DeallocLabels
  <2> QED  BY <2>6, <2>7, <2>8, StepKeeps
<1>7. CASE BorrowStore(t) \/ ReborrowStore(t)
  <2> DEFINE n == isa.rc + RCHalf - 1
  <2>1. /\ pc[t] \in {"borrow", "reborrow"} /\ lock = t /\ isa.inside
        /\ old[t] = isa /\ (pc[t] = "borrow" => isa.rc = 0)
    BY <1>7, <1>a
    DEF BorrowStore, ReborrowStore, Store, Local, Holds, Transit
  <2>2. /\ isa' = [isa EXCEPT !.rc = n, !.inside = side.cnt # 0]
        /\ n \in Nat
    <3>1. CASE BorrowStore(t)
      <4>1. pc[t] = "borrow" /\ n = RCHalf - 1
        BY <3>1, <2>1 DEF BorrowStore
      <4>2. isa' = [isa EXCEPT !.rc = RCHalf - 1, !.inside = side.cnt # 0]
        BY <3>1, <2>1 DEF BorrowStore, Store
      <4>3. n \in Nat
        BY <1>a
      <4> HIDE DEF n
      <4> QED  BY <4>1, <4>2, <4>3
    <3>2. CASE ReborrowStore(t)
      BY <3>2, <1>a, <2>1 DEF ReborrowStore, Store
    <3> QED  BY <1>7, <3>1, <3>2
  <2>3. /\ pc' = [pc EXCEPT ![t] = "settle"] /\ Drop(t)
        /\ UNCHANGED <<side, lock, freed, ret, old, new, locked>>
    BY <1>7 DEF BorrowStore, ReborrowStore, Go
  <2>4. isa'.np /\ isa'.rc = n /\ isa'.inside = (side.cnt # 0)
    BY <1>a, <2>2 DEF Isas
  <2>5. /\ \A u \in Threads \ {t} : pc[u] \notin Transit /\ pc'[u] = pc[u]
        /\ InTransit = RCHalf
    BY <1>a, <2>1, <2>3, InTransitOfOwner DEF ExactInv, Transit
  <2>6. InTransit' = 0
    BY <1>a, <2>3, <2>5, InTransitAfter DEF Transit
  <2>7. TotalRefs' = TotalRefs - 1
    BY <1>e, <2>1, <2>3
  <2>8. Words'
    <3>1. isa'.rc + side'.cnt + InTransit' = TotalRefs'
      BY <1>a, <1>b, <2>3, <2>4, <2>5, <2>6, <2>7 DEF Words
    <3> QED  BY <1>a, <2>3, <2>4, <2>6, <3>1 DEF Words
  <2>9. Others(t) /\ Progress(t)
    BY <1>a, <2>1, <2>3 DEF Others, Progress, Deallocating, DeallocLabels, Dead
  <2>10. Local(t)'
    <3>1. ~Deallocating(t)
      BY <1>a, <2>1 DEF Local, Dead
    <3> QED
      BY <1>a, <2>1, <2>3, <3>1
      DEF Local, Loaded, MayLock, Holds, Trying, Transit, Deallocating,
          DeallocLabels
  <2> QED  BY <2>8, <2>9, <2>10, StepKeeps
<1>8. CASE BorrowMissed(t) \/ ReborrowMissed(t)
  <2>1. /\ pc[t] \in {"borrow", "reborrow"} /\ lock = t /\ isa.inside
        /\ ~Deallocating(t)
    BY <1>8, <1>a
    DEF BorrowMissed, ReborrowMissed, Local, Holds, Transit, Deallocating,
        DeallocLabels, Dead
  <2>2. /\ pc' = [pc EXCEPT ![t] = pc'[t]]
        /\ pc'[t] \in {"reborrow", "putback"}
        /\ old' = [old EXCEPT ![t] = old'[t]] /\ old'[t] \in {isa, old[t]}
        /\ UNCHANGED <<isa, side, lock, freed, ret, new, locked, refs>>
    BY <1>8, <1>a DEF BorrowMissed, ReborrowMissed, Go, Reload
  <2>3. \A u \in Threads \ {t} : pc[u] \notin Transit /\ pc'[u] = pc[u]
    BY <1>a, <2>1, <2>2, InTransitOfOwner DEF ExactInv
  <2>4. InTransit' = InTransit
    BY <1>a, <2>1, <2>2, <2>3, InTransitAfter, InTransitOfOwner
    DEF ExactInv, Transit
  <2>5. Words'
    BY <1>a, <2>2, <2>4, WordsKept DEF TotalRefs, Owned
  <2>6. Others(t) /\ Progress(t)
    BY <1>a, <2>1, <2>2, <2>3 DEF Others, Progress, Deallocating, DeallocLabels
  <2>7. Local(t)'
    BY <1>a, <2>1, <2>2
    DEF Local, Loaded, MayLock, Holds, Trying, Transit, Deallocating,
        DeallocLabels
  <2> QED  BY <2>5, <2>6, <2>7, StepKeeps
<1>9. CASE PutBack(t)
  <2>1. pc[t] = "putback" /\ lock = t /\ isa.inside /\ ~Deallocating(t)
    BY <1>9, <1>a
    DEF PutBack, Local, Holds, Transit, Deallocating, DeallocLabels
  <2>2. /\ pc' = [pc EXCEPT ![t] = "release"]
        /\ old' = [old EXCEPT ![t] = isa]
        /\ side' = AddExtraRC(side, RCHalf)
        /\ UNCHANGED <<isa, lock, freed, ret, new, locked, refs>>
    BY <1>9 DEF PutBack, Go, Reload
  <2>3. /\ \A u \in Threads \ {t} : pc[u] \notin Transit /\ pc'[u] = pc[u]
        /\ InTransit = RCHalf
    BY <1>a, <2>1, <2>2, InTransitOfOwner DEF ExactInv, Transit
  <2>4. InTransit' = 0
    BY <1>a, <2>2, <2>3, InTransitAfter DEF Transit
  <2>5. side'.cnt = side.cnt + RCHalf
    <3>1. side.cnt + RCHalf < SidePin
      BY <1>a, <1>b, <2>3 DEF Words
    <3> QED  BY <1>a, <2>2, <3>1 DEF AddExtraRC, Pinned, SideMod, Entries
  <2>6. Words'
    <3>1. Multiple(side'.cnt)
      BY <1>a, <2>5, Multiples DEF Words
    <3>2. side'.cnt # 0
      BY <1>a, <2>5
    <3>3. TotalRefs' = TotalRefs
      BY <2>2 DEF TotalRefs, Owned
    <3> QED
      BY <1>a, <1>b, <2>1, <2>2, <2>3, <2>4, <2>5, <3>1, <3>2, <3>3 DEF Words
  <2>7. Others(t) /\ Progress(t)
    BY <1>a, <2>1, <2>2 DEF Others, Progress, Deallocating, DeallocLabels
  <2>8. Local(t)'
    BY <1>a, <2>1, <2>2
    DEF Local, Loaded, MayLock, Holds, Trying, Transit, Deallocating,
        DeallocLabels
  <2> QED  BY <2>6, <2>7, <2>8, StepKeeps
<1>10. CASE Settle(t)
  <2>1. side'.cnt = side.cnt
    BY <1>10 DEF Settle, NoEntry
  <2>2. InTransit' = InTransit
    BY <1>10, <1>a, InTransitKept DEF Settle, Return, Leave, Go, Transit
  <2>3. Words'
    BY <1>10, <1>a, <2>1, <2>2, WordsKept DEF Settle, TotalRefs, Owned
  <2> QED  BY <1>10, <2>3, ReturnKeeps DEF Settle, Unlock
<1> QED
  BY <1>1, <1>2, <1>3, <1>4, <1>5, <1>6, <1>7, <1>8, <1>9, <1>10
  DEF ReleaseStep

LEMMA ExactDealloc ==
  ASSUME ExactInv, TypeInv', NEW t \in Threads, DeallocStep(t)
  PROVE  ExactInv'
<1> USE DEF TypeInv, TypeOK, shared, Go, Enter, DeallocLabels
<1>a. /\ TypeInv /\ Local(t) /\ Words /\ isa.np
      /\ pc[t] \in DeallocLabels /\ Dead(isa)
  BY DEF ExactInv, Words, DeallocStep, RetainInDealloc, ReleaseInDealloc,
         RootDealloc, ClearNothing, ClearNonpointer, ClearRaw, Free, Local,
         Deallocating
<1>b. ~isa.inside /\ isa.rc = 0
  BY <1>a DEF Dead
<1>1. ~ClearRaw(t)
  BY <1>a DEF ClearRaw
<1>2. /\ UNCHANGED <<isa, side, lock, new, locked, refs>>
      /\ pc'[t] \in {"retain", "release", "clear", "free", "idle"}
      /\ pc'[t] \in {"retain", "release"}
           => old'[t] = isa /\ ret'[t] \in {"deallocR", "deallocE"}
      /\ pc'[t] \notin {"retain", "release"} => UNCHANGED ret
      /\ \A u \in Threads \ {t} :
           pc'[u] = pc[u] /\ ret'[u] = ret[u] /\ old'[u] = old[u]
      /\ freed' => freed \/ pc'[t] = "idle"
  BY <1>a, <1>b, <1>1
  DEF DeallocStep, RetainInDealloc, ReleaseInDealloc, RootDealloc,
      ClearNothing, ClearNonpointer, Free
<1>3. ret[t] = "idle" \/ ret[t] = "wunlock"
  BY <1>a DEF Local
<1>4. Others(t)
  BY <1>2 DEF Others
<1>5. Progress(t)
  BY <1>a, <1>2, <1>3 DEF Progress, Deallocating
<1>6. Local(t)'
  BY <1>a, <1>2, <1>3
  DEF Local, Loaded, MayLock, Holds, Trying, Transit, Deallocating
<1>7. InTransit' = InTransit
  BY <1>a, <1>2, InTransitKept DEF Transit
<1>8. Words'
  BY <1>a, <1>2, <1>7, WordsKept DEF TotalRefs, Owned
<1> QED  BY <1>4, <1>5, <1>6, <1>8, StepKeeps

LEMMA ExactWeak ==
  ASSUME ExactInv, TypeInv', NEW t \in Threads, WeakStep(t)
  PROVE  ExactInv'
<1> USE DEF TypeInv, TypeOK, shared, Go, Enter
<1>a. TypeInv /\ Local(t) /\ Words /\ isa.np /\ isa \in Isas
  BY DEF ExactInv, Words
<1>1. CASE WeakLoadLock(t) \/ WeakLoadNil(t) \/ WeakLoadUnlock(t)
  <2>1. /\ UNCHANGED <<isa, side, freed, new, locked, refs>>
        /\ pc[t] \in {"wlock", "wunlock"} /\ pc'[t] \in {"retain", "idle"}
        /\ pc'[t] = "retain" => lock' = t /\ old'[t] = isa
                                /\ ret'[t] = "wunlock"
        /\ pc'[t] = "idle" => ret'[t] = ret[t]
        /\ lock' # lock => lock \in {NoThread, t}
        /\ \A u \in Threads \ {t} :
             pc'[u] = pc[u] /\ ret'[u] = ret[u] /\ old'[u] = old[u]
    BY <1>1, <1>a
    DEF WeakLoadLock, WeakLoadNil, WeakLoadUnlock, Acquire, Unlock
  <2>2. Others(t) /\ Progress(t)
    BY <1>a, <2>1 DEF Others, Progress, Deallocating, DeallocLabels
  <2>3. Local(t)'
    BY <1>a, <2>1
    DEF Local, Loaded, MayLock, Holds, Trying, Transit, Deallocating,
        DeallocLabels
  <2>4. InTransit' = InTransit
    BY <2>1, InTransitKept DEF Transit
  <2>5. Words'
    BY <1>a, <2>1, <2>4, WordsKept DEF TotalRefs, Owned
  <2> QED  BY <2>2, <2>3, <2>5, StepKeeps
<1>2. CASE SetWeaklyReferenced(t) \/ SetWeaklyReferencedMissed(t)
             \/ SetWeaklyReferencedRaw(t)
  <2>1. pc[t] = "setweak" /\ lock = t /\ old[t].np
    BY <1>2, <1>a
    DEF SetWeaklyReferenced, SetWeaklyReferencedMissed,
        SetWeaklyReferencedRaw, Local, Loaded, Holds
  <2>2. /\ isa' \in {isa, [isa EXCEPT !.weak = TRUE]}
        /\ pc'[t] \in {"setweak", "wstore"} /\ old'[t] \in {isa, old[t]}
        /\ UNCHANGED <<side, lock, freed, ret, new, locked, refs>>
        /\ \A u \in Threads \ {t} : pc'[u] = pc[u] /\ old'[u] = old[u]
    BY <1>2, <1>a, <2>1
    DEF SetWeaklyReferenced, SetWeaklyReferencedMissed,
        SetWeaklyReferencedRaw, Store, Missed, Reload
  <2>3. isa'.np /\ isa'.rc = isa.rc /\ isa'.inside = isa.inside
    BY <1>a, <2>2 DEF Isas
  <2>4. Others(t) /\ Progress(t)
    BY <1>a, <2>1, <2>2, <2>3
    DEF Others, Progress, Deallocating, DeallocLabels, Dead
  <2>5. Local(t)'
    BY <1>a, <2>1, <2>2, <2>3
    DEF Local, Loaded, MayLock, Holds, Trying, Transit, Deallocating,
        DeallocLabels
  <2>6. InTransit' = InTransit
    BY <2>1, <2>2, InTransitKept DEF Transit
  <2>7. Words'
    BY <1>a, <2>2, <2>3, <2>6, WordsKept DEF TotalRefs, Owned
  <2> QED  BY <2>4, <2>5, <2>7, StepKeeps
<1>3. CASE StoreWeakLocation(t)
  <2>1. InTransit' = InTransit
    BY <1>3, <1>a, InTransitKept
    DEF StoreWeakLocation, Return, Leave, Transit
  <2>2. Words'
    BY <1>3, <1>a, <2>1, WordsKept DEF StoreWeakLocation, TotalRefs, Owned
  <2> QED  BY <1>3, <2>2, ReturnKeeps DEF StoreWeakLocation, Unlock
<1> QED  BY <1>1, <1>2, <1>3 DEF WeakStep

LEMMA ExactChangeIsa ==
  ASSUME ExactInv, TypeInv', NEW t \in Threads, ChangeIsaStep(t)
  PROVE  ExactInv'
<1> USE DEF TypeInv, TypeOK, shared
<1>a. /\ TypeInv /\ Local(t) /\ Words /\ isa.np
      /\ isa \in Isas /\ old[t] \in Isas
  BY DEF ExactInv, Words
<1>1. /\ ChangeIsaStore(t) \/ ChangeIsaMissed(t)
      /\ pc[t] = "change" /\ ToNonpointer(t) /\ ~ToRaw(t) /\ ~locked[t]
  BY <1>a
  DEF ChangeIsaStep, ChangeIsaLock, ChangeIsaStore, ChangeIsaMissed,
      MoveToSide, Local, Loaded, MayLock, ToNonpointer, ToRaw
<1>2. CASE ChangeIsaStore(t)
  <2>1. isa' = [isa EXCEPT !.cls = new[t].cls] /\ UNCHANGED <<side, lock, refs>>
    BY <1>1, <1>2 DEF ChangeIsaStore, Store, NewIsa, UnlockIf
  <2>2. isa'.np /\ isa'.rc = isa.rc /\ isa'.inside = isa.inside
    BY <1>a, <2>1 DEF Isas
  <2>3. InTransit' = InTransit
    BY <1>1, <1>2, <1>a, InTransitKept
    DEF ChangeIsaStore, Return, Leave, Go, Transit
  <2>4. Words'
    BY <1>a, <2>1, <2>2, <2>3, WordsKept DEF TotalRefs, Owned
  <2> QED
    BY <1>1, <1>2, <2>1, <2>2, <2>4, ReturnKeeps DEF ChangeIsaStore, Dead
<1>3. CASE ChangeIsaMissed(t)
  <2>1. new' = [new EXCEPT ![t] = [old[t] EXCEPT !.cls = new[t].cls]]
    BY <1>1, <1>3 DEF ChangeIsaMissed, NewIsa
  <2>2. new'[t].cls = new[t].cls
    BY <1>a, <2>1 DEF Isas
  <2> QED
    BY <1>1, <1>3, <1>a, <2>1, <2>2, RetryKeeps
    DEF ChangeIsaMissed, Missed, Reload
<1> QED  BY <1>1, <1>2, <1>3

LEMMA ExactInvNext ==
  ASSUME PackedOnly, SideFits
  PROVE  ExactInv /\ [Next]_vars => ExactInv'
<1> SUFFICES ASSUME ExactInv, [Next]_vars PROVE ExactInv'
  OBVIOUS
<1>1. TypeInv'
  BY TypeInvNext DEF ExactInv
<1>2. ASSUME NEW t \in Threads, Start(t) \/ Continue(t)
      PROVE  ExactInv'
  BY <1>1, <1>2, ExactStart, ExactRetain, ExactRelease, ExactDealloc,
     ExactWeak, ExactChangeIsa DEF Continue
<1>3. CASE UNCHANGED vars
  BY <1>1, <1>3 DEF vars, shared, local, ExactInv, Local, Words, Dying, Holds,
                    Trying, Deallocating, InTransit, TotalRefs, Owned
<1> QED  BY <1>2, <1>3 DEF Next, Stopped

\* A dead object has no reference left.
LEMMA DeadCount ==
  ASSUME ExactInv, Dead(isa)
  PROVE  TotalRefs = 0
<1>1. isa.rc = 0 /\ ~isa.inside
  BY DEF Dead
<1>2. InTransit = 0
  BY <1>1 DEF ExactInv, Local, InTransit, Transit
<1> QED  BY <1>1, <1>2 DEF ExactInv, Words

(***************************************************************************)
(* What the invariant gives.                                               *)
(***************************************************************************)
\* The isa, the side table and the half in transit together hold exactly the
\* references the program owns (rootRetain, rootRelease).
THEOREM CountIsExact ==
  ASSUME PackedOnly, SideFits
  PROVE  Spec => []CountExact
<1>1. Init => ExactInv
  BY ExactInvInit
<1>2. ExactInv /\ [Next]_vars => ExactInv'
  BY ExactInvNext
<1>3. ExactInv => CountExact
  BY DEF ExactInv, Words, CountExact
<1> QED  BY <1>1, <1>2, <1>3, PTL DEF Spec

\* A release that took the lock at the underflow always finds RC_HALF in the
\* side table: it never deallocates an object whose bit has_sidetable_rc is
\* set, and sidetable_subExtraRC_nolock never underflows.
THEOREM BorrowIsCovered ==
  ASSUME PackedOnly, SideFits
  PROVE  Spec => []BorrowFindsHalf
<1>1. Init => ExactInv
  BY ExactInvInit
<1>2. ExactInv /\ [Next]_vars => ExactInv'
  BY ExactInvNext
<1>3. ExactInv => BorrowFindsHalf
  BY CanBorrow DEF BorrowFindsHalf
<1> QED  BY <1>1, <1>2, <1>3, PTL DEF Spec

\* -dealloc runs once, only when no reference is left, and never after free.
THEOREM DeallocatedOnce ==
  ASSUME PackedOnly, SideFits
  PROVE  Spec => []DeallocOnce
<1>1. Init => ExactInv
  BY ExactInvInit
<1>2. ExactInv /\ [Next]_vars => ExactInv'
  BY ExactInvNext
<1>3. ExactInv => DeallocOnce
  <2> SUFFICES ASSUME ExactInv PROVE DeallocOnce
    OBVIOUS
  <2> QED  BY DeadCount DEF ExactInv, Local, Dying, DeallocOnce
<1> QED  BY <1>1, <1>2, <1>3, PTL DEF Spec

\* A step of u moves no other thread.
LEMMA OwnLabel ==
  ASSUME TypeOK, NEW u \in Threads, Start(u) \/ Continue(u),
         NEW t \in Threads, t # u
  PROVE  pc'[t] = pc[t]
<1> USE DEF TypeOK, Go, Enter, Return, Leave, shared, local
<1>1. CASE Start(u)
  BY <1>1 DEF Start, StartRetain, StartRelease, StartWeakLoad, StoreWeak,
              StoreWeakNil, StartChangeIsa, Give
<1>2. CASE RetainStep(u)
  BY <1>2 DEF RetainStep, RetainRaw, TryRetainRaw, RetainDead, RetainInline,
              RetainInlineMissed, RetainOverflow, RetainLock, RetainSpill,
              RetainSpillMissed, RetainSpilled
<1>3. CASE ReleaseStep(u)
  BY <1>3 DEF ReleaseStep, ReleaseRaw, ReleaseDead, ReleaseInline,
              ReleaseInlineMissed, ReleaseUnderflow, ReleaseLock,
              ReleaseBorrow, BorrowStore, BorrowMissed, ReborrowStore,
              ReborrowMissed, PutBack, Settle
<1>4. CASE DeallocStep(u)
  BY <1>4 DEF DeallocStep, RetainInDealloc, ReleaseInDealloc, RootDealloc,
              ClearNothing, ClearNonpointer, ClearRaw, Free
<1>5. CASE WeakStep(u)
  BY <1>5 DEF WeakStep, WeakLoadLock, WeakLoadNil, WeakLoadUnlock,
              SetWeaklyReferenced, SetWeaklyReferencedMissed,
              SetWeaklyReferencedRaw, StoreWeakLocation
<1>6. CASE ChangeIsaStep(u)
  BY <1>6 DEF ChangeIsaStep, ChangeIsaLock, ChangeIsaStore, ChangeIsaMissed,
              MoveToSide
<1> QED  BY <1>1, <1>2, <1>3, <1>4, <1>5, <1>6 DEF Continue

\* A weak load gives up only on an object without owners, even when it loops
\* because retains, releases and overflows change the isa under it.
THEOREM WeakLoadIsTrue ==
  ASSUME PackedOnly, SideFits
  PROVE  Spec => WeakLoadFindsLive
<1>1. Init => ExactInv
  BY ExactInvInit
<1>2. ExactInv /\ [Next]_vars => ExactInv'
  BY ExactInvNext
<1> DEFINE Gives(t) == pc[t] = "retain" /\ Trying(t) /\ pc'[t] = "wunlock"
                         /\ refs' = refs => TotalRefs = 0
<1>3. ExactInv /\ [Next]_vars => [\A t \in Threads : Gives(t)]_vars
  <2> SUFFICES ASSUME ExactInv, Next, NEW t \in Threads,
                      pc[t] = "retain", Trying(t), pc'[t] = "wunlock",
                      refs' = refs
               PROVE  TotalRefs = 0
    OBVIOUS
  <2>a. /\ pc \in [Threads -> Labels] /\ refs \in [Threads -> 0..MaxRefs]
        /\ Local(t)
    BY DEF ExactInv, TypeInv, TypeOK
  <2>1. PICK u \in Threads : Start(u) \/ Continue(u)
    BY DEF Next, Stopped, vars, local
  <2>2. u = t
    BY <2>1, OwnLabel DEF ExactInv, TypeInv
  <2>3. RetainDead(t)
    <3>1. CASE Start(t)
      BY <2>a, <3>1
      DEF Start, StartRetain, StartRelease, StartWeakLoad, StoreWeak,
          StoreWeakNil, StartChangeIsa, Give, Owner, shared, local
    <3>2. CASE RetainStep(t)
      <4>1. CASE RetainInline(t)
        BY <2>a, <4>1 DEF RetainInline, Gain, Trying
      <4>2. CASE RetainRaw(t) \/ TryRetainRaw(t)
        BY <2>a, <4>2 DEF RetainRaw, TryRetainRaw, Local, Loaded
      <4> QED
        BY <2>a, <3>2, <4>1, <4>2
        DEF RetainStep, RetainInlineMissed, RetainOverflow, RetainLock,
            RetainSpill, RetainSpillMissed, RetainSpilled, Go, shared
    <3>3. CASE ReleaseStep(t) \/ DeallocStep(t) \/ WeakStep(t)
                 \/ ChangeIsaStep(t)
      BY <3>3
      DEF ReleaseStep, ReleaseRaw, ReleaseDead, ReleaseInline,
          ReleaseInlineMissed, ReleaseUnderflow, ReleaseLock, ReleaseBorrow,
          Underflowing, BorrowStore, BorrowMissed, ReborrowStore,
          ReborrowMissed, PutBack, Settle, DeallocStep, RetainInDealloc,
          ReleaseInDealloc, RootDealloc, ClearNothing, ClearNonpointer,
          ClearRaw, Free, WeakStep, WeakLoadLock, WeakLoadNil,
          WeakLoadUnlock, SetWeaklyReferenced, SetWeaklyReferencedMissed,
          SetWeaklyReferencedRaw, StoreWeakLocation, ChangeIsaStep,
          ChangeIsaLock, ChangeIsaStore, ChangeIsaMissed, MoveToSide
    <3> QED  BY <2>1, <2>2, <3>1, <3>2, <3>3 DEF Continue
  <2>4. Dead(isa)
    BY <2>a, <2>3 DEF RetainDead, Local
  <2> QED  BY <2>4, DeadCount
<1>4. [\A t \in Threads : Gives(t)]_vars
        => [\A t \in Threads :
              pc[t] = "retain" /\ Trying(t) /\ pc'[t] = "wunlock"
                /\ refs' = refs => TotalRefs = 0]_vars
  OBVIOUS
<1> QED  BY <1>1, <1>2, <1>3, <1>4, PTL DEF Spec, WeakLoadFindsLive

(***************************************************************************)
(* A packed object is not used after it was freed and leaves nothing       *)
(* behind.                                                                 *)
(***************************************************************************)
\* Places of a call that the owner of a reference made and still owns.
OwnerLabels == {"retain", "release", "borrow", "reborrow", "putback",
                "setweak", "wstore", "change"}

\* Places between an entry's becoming empty and its erasure.
Erasing == {"borrow", "reborrow", "putback", "settle"}

\* Why the object is still there for thread t: it owns a reference, or it
\* holds the lock and the weak variable refers to the object.
Backed(t) ==
  /\ pc[t] \in OwnerLabels /\ ret[t] = "idle" => refs[t] > 0
  /\ pc[t] = "spill" => refs[t] > 0
  /\ pc[t] = "retain" /\ Trying(t) => weakLoc
  /\ Trying(t) => pc[t] \in {"retain", "spill"}
  /\ pc[t] \in {"setweak", "wstore"} => weakReg /\ ret[t] = "idle"
  /\ pc[t] = "setweak" /\ old[t].weak => isa.weak
  /\ pc[t] = "wstore" => isa.weak
  /\ pc[t] = "free" => ~weakReg /\ ~weakLoc

\* The bit weakly_referenced is set before the weak variable is.
WeakBits ==
  /\ weakLoc => weakReg /\ isa.weak
  /\ weakReg => isa.weak \/ \E t \in Threads : pc[t] = "setweak"
  /\ freed => ~weakReg /\ ~weakLoc

Erased ==
  side.present /\ side.cnt = 0 => \E t \in Threads : pc[t] \in Erasing

SafeInv == ExactInv /\ (\A t \in Threads : Backed(t)) /\ WeakBits /\ Erased

LEMMA SafeInvInit == ASSUME PackedOnly, SideFits PROVE Init => SafeInv
<1> SUFFICES ASSUME Init PROVE SafeInv
  OBVIOUS
<1>1. ASSUME NEW t \in Threads PROVE Backed(t)
  BY <1>1 DEF Init, Backed, OwnerLabels, Trying
<1>2. WeakBits
  BY DEF Init, WeakBits
<1>3. Erased
  BY DEF Init, Erased, NoEntry
<1> QED  BY <1>1, <1>2, <1>3, ExactInvInit DEF SafeInv

\* No thread owns a reference to a dead object.
LEMMA DeadUnowned ==
  ASSUME SideFits, ExactInv, Dead(isa), NEW t \in Threads
  PROVE  ~(refs[t] > 0)
<1>1. refs \in [Threads -> 0..MaxRefs]
  BY DEF ExactInv, TypeInv, TypeOK
<1>2. IsFiniteSet(Owned) /\ Cardinality(Owned) = 0
  BY <1>1, DeadCount, TotalRefsBound DEF TotalRefs
<1>3. Owned = {}
  BY <1>2, FS_EmptySet
<1>4. SUFFICES ASSUME refs[t] > 0 PROVE FALSE
  OBVIOUS
<1>5. <<t, refs[t]>> \in Owned
  BY <1>1, <1>4 DEF Owned
<1> QED  BY <1>3, <1>5

\* Any step of t that changes neither the variable nor its registration.
LEMMA SafeKeeps ==
  ASSUME SafeInv, ExactInv', NEW t \in Threads, Backed(t)',
         \A u \in Threads \ {t} :
           pc'[u] = pc[u] /\ old'[u] = old[u] /\ ret'[u] = ret[u]
           /\ refs'[u] = refs[u],
         UNCHANGED <<weakReg, weakLoc>>,
         isa.weak => isa'.weak,
         freed' => freed \/ pc[t] = "free",
         pc[t] = "setweak" => pc'[t] = "setweak" \/ isa'.weak,
         side'.present /\ side'.cnt = 0
           => \/ pc'[t] \in Erasing
              \/ side.present /\ side.cnt = 0 /\ pc[t] \notin Erasing
  PROVE  SafeInv'
<1>1. ASSUME NEW u \in Threads PROVE Backed(u)'
  <2>1. CASE u = t
    BY <2>1
  <2>2. CASE u # t
    BY <2>2 DEF SafeInv, Backed, Trying
  <2> QED  BY <2>1, <2>2
<1>2. WeakBits'
  BY DEF SafeInv, WeakBits, Backed
<1>3. Erased'
  BY DEF SafeInv, Erased
<1> QED  BY <1>1, <1>2, <1>3 DEF SafeInv

\* The weak variable is set to nil and unregistered, under the lock.
LEMMA ClearKeeps ==
  ASSUME SafeInv, ExactInv', NEW t \in Threads, lock = NoThread,
         pc[t] \in {"idle", "clear"}, pc'[t] \in {"idle", "free"},
         \A u \in Threads \ {t} : pc'[u] = pc[u] /\ old'[u] = old[u],
         UNCHANGED <<isa, side, freed, ret, refs>>,
         ~weakReg', ~weakLoc'
  PROVE  SafeInv'
<1>1. ASSUME NEW u \in Threads PROVE Backed(u)'
  <2>1. /\ pc[u] \notin {"setweak", "wstore"}
        /\ ~(pc[u] = "retain" /\ Trying(u))
    BY DEF SafeInv, ExactInv, Local, Holds
  <2>2. CASE u = t
    BY <2>2 DEF SafeInv, Backed, Trying, OwnerLabels
  <2>3. CASE u # t
    BY <2>1, <2>3 DEF SafeInv, Backed, Trying
  <2> QED  BY <2>2, <2>3
<1>2. WeakBits'
  BY DEF WeakBits
<1>3. Erased'
  BY DEF SafeInv, Erased, Erasing
<1> QED  BY <1>1, <1>2, <1>3 DEF SafeInv

\* An owner of the object registers the variable or makes it refer to the
\* object: no thread is freeing it.
LEMMA RegisterKeeps ==
  ASSUME SideFits, SafeInv, ExactInv', NEW t \in Threads, refs[t] > 0,
         Backed(t)',
         pc[t] \in {"idle", "wstore"}, pc'[t] \in {"idle", "setweak"},
         \A u \in Threads \ {t} :
            pc'[u] = pc[u] /\ old'[u] = old[u] /\ ret'[u] = ret[u],
         UNCHANGED <<isa, side, freed, refs>>,
         weakReg', weakLoc' => isa.weak, weakLoc => weakLoc',
         isa.weak \/ pc'[t] = "setweak"
  PROVE  SafeInv'
<1>1. ~Dead(isa)
  BY DeadUnowned DEF SafeInv
<1>2. ~freed /\ \A u \in Threads : pc[u] # "free"
  BY <1>1 DEF SafeInv, ExactInv, Dying, Local, Deallocating, DeallocLabels
<1>3. ASSUME NEW u \in Threads PROVE Backed(u)'
  <2>1. CASE u = t
    BY <2>1
  <2>2. CASE u # t
    BY <1>2, <2>2 DEF SafeInv, Backed, Trying
  <2> QED  BY <2>1, <2>2
<1>4. WeakBits'
  BY <1>2 DEF WeakBits
<1>5. Erased'
  BY DEF SafeInv, Erased, Erasing
<1> QED  BY <1>3, <1>4, <1>5 DEF SafeInv

(***************************************************************************)
(* The steps.                                                              *)
(***************************************************************************)
LEMMA SafeStart ==
  ASSUME SideFits, SafeInv, ExactInv', NEW t \in Threads, Start(t)
  PROVE  SafeInv'
<1> USE DEF shared, local, Go, Enter, Owner
<1>a. /\ pc \in [Threads -> Labels] /\ old \in [Threads -> Isas]
      /\ refs \in [Threads -> 0..MaxRefs]
      /\ ret \in [Threads -> {"idle", "deallocR", "deallocE", "wunlock"}]
      /\ Backed(t) /\ WeakBits
  BY DEF SafeInv, ExactInv, TypeInv, TypeOK
<1>1. CASE StartRetain(t) \/ StartRelease(t) \/ StartChangeIsa(t)
             \/ StartWeakLoad(t)
  <2>1. /\ pc[t] = "idle" /\ pc'[t] \in {"retain", "release", "change", "wlock"}
        /\ pc'[t] # "wlock" => refs[t] > 0 /\ ret'[t] = "idle"
        /\ pc'[t] = "wlock" => ret'[t] = ret[t]
        /\ UNCHANGED <<shared, refs>>
        /\ \A u \in Threads \ {t} :
              pc'[u] = pc[u] /\ old'[u] = old[u] /\ ret'[u] = ret[u]
    BY <1>1, <1>a DEF StartRetain, StartRelease, StartChangeIsa, StartWeakLoad
  <2>2. Backed(t)'
    BY <1>a, <2>1 DEF Backed, Trying, OwnerLabels
  <2> QED  BY <2>1, <2>2, SafeKeeps DEF Erasing
<1>2. CASE StoreWeak(t)
  <2>1. CASE RootIsDeallocating
    <3>1. UNCHANGED <<pc, ret, old, refs, isa, side, freed, weakReg, weakLoc>>
      BY <1>2, <2>1 DEF StoreWeak
    <3>2. Backed(t)'
      BY <1>a, <3>1 DEF Backed, Trying
    <3> QED  BY <1>2, <3>1, <3>2, SafeKeeps DEF StoreWeak, Erasing
  <2>2. CASE ~RootIsDeallocating
    <3>1. /\ pc[t] = "idle" /\ pc'[t] = "setweak" /\ ret'[t] = "idle"
          /\ refs[t] > 0 /\ weakReg' /\ old'[t] = isa
          /\ UNCHANGED <<isa, side, weakLoc, freed, refs>>
          /\ \A u \in Threads \ {t} :
                pc'[u] = pc[u] /\ old'[u] = old[u] /\ ret'[u] = ret[u]
      BY <1>2, <1>a, <2>2 DEF StoreWeak
    <3>2. Backed(t)'
      BY <1>a, <3>1 DEF Backed, Trying, OwnerLabels
    <3> QED  BY <1>a, <3>1, <3>2, RegisterKeeps DEF WeakBits
  <2> QED  BY <2>1, <2>2
<1>3. CASE StoreWeakNil(t)
  BY <1>3, ClearKeeps DEF StoreWeakNil
<1>4. CASE \E v \in Threads : Give(t, v)
  <2>1. PICK v \in Threads : Give(t, v)
    BY <1>4
  <2>2. /\ UNCHANGED <<shared, pc, ret, old>> /\ pc[t] = "idle" /\ pc[v] = "idle"
        /\ \A u \in Threads \ {t, v} : refs'[u] = refs[u]
    BY <1>a, <2>1 DEF Give
  <2>3. ASSUME NEW u \in Threads PROVE Backed(u)'
    <3>1. CASE u \in {t, v}
      BY <2>2, <3>1 DEF SafeInv, Backed, Trying, OwnerLabels
    <3>2. CASE u \notin {t, v}
      BY <2>2, <3>2 DEF SafeInv, Backed, Trying
    <3> QED  BY <3>1, <3>2
  <2>4. WeakBits' /\ Erased'
    BY <2>2 DEF SafeInv, WeakBits, Erased
  <2> QED  BY <2>3, <2>4 DEF SafeInv
<1> QED  BY <1>1, <1>2, <1>3, <1>4 DEF Start

LEMMA SafeRetain ==
  ASSUME SafeInv, ExactInv', NEW t \in Threads, RetainStep(t)
  PROVE  SafeInv'
<1> USE DEF shared, Go, Reload, Missed
<1>a. /\ pc \in [Threads -> Labels] /\ old \in [Threads -> Isas]
      /\ refs \in [Threads -> 0..MaxRefs]
      /\ ret \in [Threads -> {"idle", "deallocR", "deallocE", "wunlock"}]
      /\ Backed(t) /\ WeakBits /\ Local(t) /\ isa \in Isas
      /\ side.cnt \in Nat
  BY EntryFields DEF SafeInv, ExactInv, TypeInv, TypeOK
<1>b. pc[t] = "retain" => old[t].np
  BY <1>a DEF Local, Loaded
<1>1. CASE RetainRaw(t) \/ TryRetainRaw(t)
  BY <1>1, <1>b DEF RetainRaw, TryRetainRaw
<1>2. CASE RetainDead(t) \/ RetainInline(t)
  <2>1. /\ pc[t] = "retain" /\ pc'[t] = ret[t] /\ ret'[t] = "idle"
        /\ UNCHANGED <<side, weakReg, weakLoc, freed>>
        /\ \A u \in Threads \ {t} :
              pc'[u] = pc[u] /\ old'[u] = old[u] /\ ret'[u] = ret[u]
    BY <1>2, <1>a DEF RetainDead, RetainInline, Countable, Return, Leave
  <2>2. \A u \in Threads \ {t} : refs'[u] = refs[u]
    BY <1>2, <1>a DEF RetainDead, RetainInline, Gain
  <2>3. isa'.weak = isa.weak
    BY <1>2, <1>a DEF RetainDead, RetainInline, Store, Isas
  <2>4. Backed(t)'
    BY <1>a, <2>1 DEF Backed, Trying, OwnerLabels
  <2> QED  BY <2>1, <2>2, <2>3, <2>4, SafeKeeps DEF Erasing
<1>3. CASE RetainInlineMissed(t) \/ RetainOverflow(t) \/ RetainLock(t)
             \/ RetainSpillMissed(t)
  <2>1. /\ UNCHANGED <<isa, side, weakReg, weakLoc, freed, pc, ret, refs>>
        /\ \A u \in Threads \ {t} : old'[u] = old[u]
        /\ pc[t] = "retain"
    BY <1>3, <1>a
    DEF RetainInlineMissed, RetainOverflow, RetainLock, RetainSpillMissed,
        MaySpill, Overflowing, Countable
  <2>2. Backed(t)'
    BY <1>a, <2>1 DEF Backed, Trying
  <2> QED  BY <2>1, <2>2, SafeKeeps DEF Erasing
<1>4. CASE RetainSpill(t)
  <2>1. /\ pc[t] = "retain" /\ pc'[t] = "spill"
        /\ UNCHANGED <<side, weakReg, weakLoc, freed, ret>>
        /\ \A u \in Threads \ {t} : pc'[u] = pc[u] /\ old'[u] = old[u]
    BY <1>4, <1>a DEF RetainSpill, MaySpill, Overflowing, Countable
  <2>2. ret[t] # "deallocR"
    BY <1>4, <1>a
    DEF RetainSpill, MaySpill, Overflowing, Countable, Local
  <2>3. refs' = [refs EXCEPT ![t] = refs[t] + 1] /\ refs'[t] > 0
    BY <1>4, <1>a, <2>2 DEF RetainSpill, Gain
  <2>4. isa'.weak = isa.weak
    BY <1>4, <1>a DEF RetainSpill, Store, Isas
  <2>5. Backed(t)'
    BY <1>a, <2>1, <2>3 DEF Backed, Trying, OwnerLabels
  <2> QED  BY <1>a, <2>1, <2>3, <2>4, <2>5, SafeKeeps DEF Erasing
<1>5. CASE RetainSpilled(t)
  <2>1. /\ pc[t] = "spill" /\ pc'[t] = ret[t] /\ ret'[t] = "idle"
        /\ UNCHANGED <<isa, weakReg, weakLoc, freed, refs>>
        /\ \A u \in Threads \ {t} :
              pc'[u] = pc[u] /\ old'[u] = old[u] /\ ret'[u] = ret[u]
    BY <1>5, <1>a DEF RetainSpilled, Return, Leave
  <2>2. Backed(t)'
    BY <1>a, <2>1 DEF Backed, Trying, OwnerLabels
  <2>3. side'.cnt # 0
    <3>1. side \in Entries /\ side.cnt \in 0..SideMod - 1
      BY EntryFields DEF SafeInv, ExactInv, TypeInv, TypeOK
    <3>2. side' = AddExtraRC(side, RCHalf)
      BY <1>5 DEF RetainSpilled
    <3> QED  BY <3>1, <3>2 DEF AddExtraRC, Pinned, SideMod, Entries
  <2> QED  BY <2>1, <2>2, <2>3, SafeKeeps
<1> QED  BY <1>1, <1>2, <1>3, <1>4, <1>5 DEF RetainStep

LEMMA SafeRelease ==
  ASSUME SafeInv, ExactInv', NEW t \in Threads, ReleaseStep(t)
  PROVE  SafeInv'
<1> USE DEF shared, Go, Reload, Missed
<1>a. /\ pc \in [Threads -> Labels] /\ old \in [Threads -> Isas]
      /\ refs \in [Threads -> 0..MaxRefs]
      /\ ret \in [Threads -> {"idle", "deallocR", "deallocE", "wunlock"}]
      /\ Backed(t) /\ WeakBits /\ Local(t) /\ isa \in Isas /\ ExactInv
  BY DEF SafeInv, ExactInv, TypeInv, TypeOK
<1>b. pc[t] = "release" => old[t].np
  BY <1>a DEF Local, Loaded
<1>1. CASE ReleaseRaw(t)
  BY <1>1, <1>b DEF ReleaseRaw
<1>2. CASE ReleaseDead(t) \/ ReleaseInline(t)
  <2>1. /\ pc[t] = "release" /\ ret'[t] = "idle"
        /\ pc'[t] \in {ret[t], "dealloc"}
        /\ UNCHANGED <<side, weakReg, weakLoc, freed>>
        /\ \A u \in Threads \ {t} :
              pc'[u] = pc[u] /\ old'[u] = old[u] /\ ret'[u] = ret[u]
    BY <1>2, <1>a DEF ReleaseDead, ReleaseInline, Return, Leave
  <2>2. \A u \in Threads \ {t} : refs'[u] = refs[u]
    BY <1>2, <1>a DEF ReleaseDead, ReleaseInline, Drop
  <2>3. isa'.weak = isa.weak
    BY <1>2, <1>a DEF ReleaseDead, ReleaseInline, Store, Isas
  <2>4. Backed(t)'
    BY <1>a, <2>1 DEF Backed, Trying, OwnerLabels
  <2> QED  BY <2>1, <2>2, <2>3, <2>4, SafeKeeps DEF Erasing
<1>3. CASE ReleaseInlineMissed(t) \/ ReleaseUnderflow(t) \/ ReleaseLock(t)
  <2>1. /\ UNCHANGED <<isa, side, weakReg, weakLoc, freed, pc, ret, refs>>
        /\ \A u \in Threads \ {t} : old'[u] = old[u]
        /\ pc[t] = "release"
    BY <1>3, <1>a
    DEF ReleaseInlineMissed, ReleaseUnderflow, ReleaseLock, Underflowing
  <2>2. Backed(t)'
    BY <1>a, <2>1 DEF Backed, Trying
  <2> QED  BY <2>1, <2>2, SafeKeeps DEF Erasing
<1>4. CASE ReleaseBorrow(t)
  <2>1. side.cnt # 0 /\ pc[t] = "release"
    BY <1>4, <1>a, CanBorrow DEF ReleaseBorrow, Underflowing
  <2>2. /\ pc'[t] = "borrow" /\ UNCHANGED <<isa, weakReg, weakLoc, freed>>
        /\ UNCHANGED <<ret, refs>>
        /\ \A u \in Threads \ {t} : pc'[u] = pc[u] /\ old'[u] = old[u]
    BY <1>4, <1>a, <2>1 DEF ReleaseBorrow
  <2>3. Backed(t)'
    BY <1>a, <2>1, <2>2 DEF Backed, Trying, OwnerLabels
  <2> QED  BY <2>1, <2>2, <2>3, SafeKeeps DEF Erasing
<1>5. CASE BorrowStore(t) \/ ReborrowStore(t)
  <2>1. /\ pc[t] \in {"borrow", "reborrow"} /\ pc'[t] = "settle"
        /\ UNCHANGED <<side, weakReg, weakLoc, freed, ret>>
        /\ \A u \in Threads \ {t} : pc'[u] = pc[u] /\ old'[u] = old[u]
    BY <1>5, <1>a DEF BorrowStore, ReborrowStore
  <2>2. \A u \in Threads \ {t} : refs'[u] = refs[u]
    BY <1>5, <1>a DEF BorrowStore, ReborrowStore, Drop
  <2>3. isa'.weak = isa.weak
    <3>1. PICK n, inside : isa' = [isa EXCEPT !.rc = n, !.inside = inside]
      BY <1>5 DEF BorrowStore, ReborrowStore, Store
    <3> QED  BY <3>1, <1>a DEF Isas
  <2>4. Backed(t)'
    BY <1>a, <2>1 DEF Backed, Trying, OwnerLabels
  <2> QED  BY <2>1, <2>2, <2>3, <2>4, SafeKeeps DEF Erasing
<1>6. CASE BorrowMissed(t) \/ ReborrowMissed(t) \/ PutBack(t)
  <2>1. /\ pc[t] \in {"borrow", "reborrow", "putback"}
        /\ pc'[t] \in {"reborrow", "putback", "release"}
        /\ UNCHANGED <<isa, weakReg, weakLoc, freed, ret, refs>>
        /\ \A u \in Threads \ {t} : pc'[u] = pc[u] /\ old'[u] = old[u]
    BY <1>6, <1>a DEF BorrowMissed, ReborrowMissed, PutBack
  <2>2. Backed(t)'
    BY <1>a, <2>1 DEF Backed, Trying, OwnerLabels
  <2>3. CASE PutBack(t)
    <3>1. side \in Entries /\ side.cnt \in 0..SideMod - 1
      BY EntryFields DEF SafeInv, ExactInv, TypeInv, TypeOK
    <3>2. side'.cnt # 0
      BY <2>3, <3>1 DEF PutBack, AddExtraRC, Pinned, SideMod, Entries
    <3> QED  BY <2>1, <2>2, <3>2, SafeKeeps
  <2>4. CASE BorrowMissed(t) \/ ReborrowMissed(t)
    <3>1. UNCHANGED side /\ pc'[t] \in Erasing
      BY <2>4, <1>a DEF BorrowMissed, ReborrowMissed, Erasing
    <3> QED  BY <2>1, <2>2, <3>1, SafeKeeps
  <2> QED  BY <1>6, <2>3, <2>4
<1>7. CASE Settle(t)
  <2>1. /\ pc[t] = "settle" /\ pc'[t] = ret[t] /\ ret'[t] = "idle"
        /\ UNCHANGED <<isa, weakReg, weakLoc, freed, refs>>
        /\ \A u \in Threads \ {t} :
              pc'[u] = pc[u] /\ old'[u] = old[u] /\ ret'[u] = ret[u]
    BY <1>7, <1>a DEF Settle, Return, Leave
  <2>2. Backed(t)'
    BY <1>a, <2>1 DEF Backed, Trying, OwnerLabels
  <2>3. ~(side'.present /\ side'.cnt = 0)
    BY <1>7 DEF Settle, NoEntry
  <2> QED  BY <2>1, <2>2, <2>3, SafeKeeps
<1> QED
  BY <1>1, <1>2, <1>3, <1>4, <1>5, <1>6, <1>7 DEF ReleaseStep

LEMMA SafeDealloc ==
  ASSUME SideFits, SafeInv, ExactInv', NEW t \in Threads, DeallocStep(t)
  PROVE  SafeInv'
<1> USE DEF shared, Go, Enter, Reload, Missed
<1>a. /\ pc \in [Threads -> Labels] /\ old \in [Threads -> Isas]
     
      /\ ret \in [Threads -> {"idle", "deallocR", "deallocE", "wunlock"}]
      /\ Backed(t) /\ WeakBits /\ isa.np /\ ExactInv
      /\ pc[t] \in DeallocLabels /\ Dead(isa)
  BY DEF SafeInv, ExactInv, TypeInv, TypeOK, Words, DeallocStep,
         RetainInDealloc, ReleaseInDealloc, RootDealloc, ClearNothing,
         ClearNonpointer, ClearRaw, Free, Local, Deallocating, DeallocLabels
<1>b. ~isa.inside
  BY <1>a DEF Dead
<1>c. ~isa.weak => ~weakReg /\ ~weakLoc
  <2>1. ASSUME NEW u \in Threads PROVE pc[u] # "setweak"
    BY <1>a, DeadUnowned DEF SafeInv, Backed, OwnerLabels
  <2> QED  BY <1>a, <2>1 DEF WeakBits
<1>1. CASE ClearRaw(t)
  BY <1>1, <1>a DEF ClearRaw
<1>2. CASE ClearNonpointer(t)
  <2>1. /\ lock = NoThread /\ pc[t] = "clear" /\ pc'[t] = "free"
        /\ ~weakReg' /\ ~weakLoc'
        /\ UNCHANGED <<isa, side, freed, ret, refs>>
        /\ \A u \in Threads \ {t} : pc'[u] = pc[u] /\ old'[u] = old[u]
    BY <1>2, <1>a, <1>b DEF ClearNonpointer, WeakClear, WeakBits
  <2> QED  BY <2>1, ClearKeeps
<1>3. CASE RetainInDealloc(t) \/ ReleaseInDealloc(t) \/ RootDealloc(t)
             \/ ClearNothing(t) \/ Free(t)
  <2>1. /\ UNCHANGED <<isa, side, weakReg, weakLoc, refs>>
        /\ pc'[t] \in {"retain", "release", "clear", "free", "idle"}
        /\ pc'[t] \in {"retain", "release"}
             => ret'[t] \in {"deallocR", "deallocE"}
        /\ pc'[t] \notin {"retain", "release"} => UNCHANGED ret
        /\ pc'[t] = "free" => ~isa.weak
        /\ freed' => freed \/ pc[t] = "free"
        /\ \A u \in Threads \ {t} :
              pc'[u] = pc[u] /\ old'[u] = old[u] /\ ret'[u] = ret[u]
    BY <1>3, <1>a
    DEF RetainInDealloc, ReleaseInDealloc, RootDealloc, ClearNothing, Free
  <2>2. Backed(t)'
    BY <1>a, <1>c, <2>1 DEF Backed, Trying, OwnerLabels, DeallocLabels
  <2> QED
    BY <1>a, <2>1, <2>2, SafeKeeps DEF Erasing, DeallocLabels
<1> QED  BY <1>1, <1>2, <1>3 DEF DeallocStep

LEMMA SafeWeak ==
  ASSUME SideFits, SafeInv, ExactInv', NEW t \in Threads, WeakStep(t)
  PROVE  SafeInv'
<1> USE DEF shared, Go, Enter, Reload, Missed
<1>a. /\ pc \in [Threads -> Labels] /\ old \in [Threads -> Isas]
     
      /\ ret \in [Threads -> {"idle", "deallocR", "deallocE", "wunlock"}]
      /\ Backed(t) /\ WeakBits /\ Local(t) /\ isa.np /\ isa \in Isas
  BY DEF SafeInv, ExactInv, TypeInv, TypeOK, Words
<1>1. CASE WeakLoadLock(t) \/ WeakLoadNil(t) \/ WeakLoadUnlock(t)
  <2>1. /\ pc[t] \in {"wlock", "wunlock"} /\ pc'[t] \in {"retain", "idle"}
        /\ pc'[t] = "retain" => weakLoc /\ ret'[t] = "wunlock"
        /\ pc'[t] = "idle" => ret'[t] = ret[t]
        /\ UNCHANGED <<isa, side, weakReg, weakLoc, freed, refs>>
        /\ \A u \in Threads \ {t} :
              pc'[u] = pc[u] /\ old'[u] = old[u] /\ ret'[u] = ret[u]
    BY <1>1, <1>a DEF WeakLoadLock, WeakLoadNil, WeakLoadUnlock
  <2>2. Backed(t)'
    BY <1>a, <2>1 DEF Backed, Trying, OwnerLabels
  <2> QED  BY <2>1, <2>2, SafeKeeps DEF Erasing
<1>2. CASE SetWeaklyReferenced(t) \/ SetWeaklyReferencedMissed(t)
             \/ SetWeaklyReferencedRaw(t)
  <2>1. pc[t] = "setweak" /\ old[t].np
    BY <1>2, <1>a
    DEF SetWeaklyReferenced, SetWeaklyReferencedMissed,
        SetWeaklyReferencedRaw, Local, Loaded
  <2>2. /\ pc'[t] \in {"setweak", "wstore"}
        /\ UNCHANGED <<side, weakReg, weakLoc, freed, ret, refs>>
        /\ \A u \in Threads \ {t} : pc'[u] = pc[u] /\ old'[u] = old[u]
    BY <1>2, <1>a, <2>1
    DEF SetWeaklyReferenced, SetWeaklyReferencedMissed,
        SetWeaklyReferencedRaw
  <2>3. /\ isa.weak => isa'.weak
        /\ pc'[t] = "wstore" => isa'.weak
        /\ pc'[t] = "setweak" => old'[t] = isa /\ isa' = isa
    <3>1. CASE SetWeaklyReferencedMissed(t)
      BY <1>a, <3>1 DEF SetWeaklyReferencedMissed
    <3>2. CASE SetWeaklyReferenced(t)
      <4>1. CASE old[t].weak
        BY <1>a, <3>2, <4>1 DEF SetWeaklyReferenced, Backed
      <4>2. CASE ~old[t].weak
        BY <1>a, <3>2, <4>2 DEF SetWeaklyReferenced, Store, Isas
      <4> QED  BY <4>1, <4>2
    <3>3. ~SetWeaklyReferencedRaw(t)
      BY <2>1 DEF SetWeaklyReferencedRaw
    <3> QED  BY <1>2, <3>1, <3>2, <3>3
  <2>4. Backed(t)'
    BY <1>a, <2>1, <2>2, <2>3 DEF Backed, Trying, OwnerLabels
  <2> QED  BY <2>1, <2>2, <2>3, <2>4, SafeKeeps DEF Erasing
<1>3. CASE StoreWeakLocation(t)
  <2>1. /\ pc[t] = "wstore" /\ ret[t] = "idle" /\ refs[t] > 0
        /\ weakReg /\ isa.weak
    BY <1>3, <1>a DEF StoreWeakLocation, Backed, OwnerLabels
  <2>2. /\ pc'[t] = "idle" /\ ret'[t] = "idle" /\ weakLoc'
        /\ UNCHANGED <<isa, side, weakReg, freed, refs>>
        /\ \A u \in Threads \ {t} :
              pc'[u] = pc[u] /\ old'[u] = old[u] /\ ret'[u] = ret[u]
    BY <1>3, <1>a, <2>1 DEF StoreWeakLocation, Return, Leave
  <2>3. Backed(t)'
    BY <2>2 DEF Backed, Trying, OwnerLabels
  <2> QED  BY <2>1, <2>2, <2>3, RegisterKeeps
<1> QED  BY <1>1, <1>2, <1>3 DEF WeakStep

LEMMA SafeChangeIsa ==
  ASSUME SafeInv, ExactInv', NEW t \in Threads, ChangeIsaStep(t)
  PROVE  SafeInv'
<1> USE DEF shared, Reload, Missed
<1>a. /\ pc \in [Threads -> Labels] /\ old \in [Threads -> Isas]
     
      /\ ret \in [Threads -> {"idle", "deallocR", "deallocE", "wunlock"}]
      /\ Backed(t) /\ Local(t) /\ isa \in Isas
  BY DEF SafeInv, ExactInv, TypeInv, TypeOK
<1>1. /\ ChangeIsaStore(t) \/ ChangeIsaMissed(t)
      /\ pc[t] = "change" /\ ToNonpointer(t) /\ ~ToRaw(t)
  BY <1>a
  DEF ChangeIsaStep, ChangeIsaLock, ChangeIsaStore, ChangeIsaMissed,
      MoveToSide, Local, Loaded, ToNonpointer, ToRaw
<1>2. /\ pc'[t] \in {ret[t], "change"}
      /\ pc'[t] # "change" => ret'[t] = "idle"
      /\ pc'[t] = "change" => UNCHANGED ret
      /\ UNCHANGED <<side, weakReg, weakLoc, freed, refs>>
      /\ \A u \in Threads \ {t} :
            pc'[u] = pc[u] /\ old'[u] = old[u] /\ ret'[u] = ret[u]
  BY <1>1, <1>a DEF ChangeIsaStore, ChangeIsaMissed, Return, Leave, Go
<1>3. isa'.weak = isa.weak
  BY <1>1, <1>a
  DEF ChangeIsaStore, ChangeIsaMissed, Store, NewIsa, Isas
<1>4. Backed(t)'
  BY <1>a, <1>1, <1>2 DEF Backed, Trying, OwnerLabels
<1> QED  BY <1>1, <1>2, <1>3, <1>4, SafeKeeps DEF Erasing

LEMMA SafeInvNext ==
  ASSUME PackedOnly, SideFits
  PROVE  SafeInv /\ [Next]_vars => SafeInv'
<1> SUFFICES ASSUME SafeInv, [Next]_vars PROVE SafeInv'
  OBVIOUS
<1>1. ExactInv'
  BY ExactInvNext DEF SafeInv
<1>2. ASSUME NEW t \in Threads, Start(t) \/ Continue(t)
      PROVE  SafeInv'
  BY <1>1, <1>2, SafeStart, SafeRetain, SafeRelease, SafeDealloc, SafeWeak,
     SafeChangeIsa DEF Continue
<1>3. CASE UNCHANGED vars
  BY <1>1, <1>3 DEF vars, shared, local, SafeInv, Backed, WeakBits, Erased,
                    Trying
<1> QED  BY <1>2, <1>3 DEF Next, Stopped

LEMMA SafeCorrect ==
  ASSUME PackedOnly, SideFits
  PROVE  Spec => []SafeInv
<1>1. Init => SafeInv
  BY SafeInvInit
<1>2. SafeInv /\ [Next]_vars => SafeInv'
  BY SafeInvNext
<1> QED  BY <1>1, <1>2, PTL DEF Spec

(***************************************************************************)
(* What the invariant gives.                                               *)
(***************************************************************************)
\* rootRetainCount under the lock is the number of references owned.
THEOREM RetainCountIsExact ==
  ASSUME PackedOnly, SideFits
  PROVE  Spec => []RetainCountExact
<1>1. SafeInv => RetainCountExact
  <2> SUFFICES ASSUME SafeInv, lock = NoThread
               PROVE  RootRetainCount = TotalRefs
    BY DEF RetainCountExact
  <2>1. \A t \in Threads : pc[t] \notin Transit
    BY DEF SafeInv, ExactInv, Local, Holds
  <2>2. InTransit = 0
    BY <2>1 DEF InTransit, Transit
  <2>3. isa.rc \in Nat /\ side.cnt \in Nat
    BY IsaFields, EntryFields DEF SafeInv, ExactInv, TypeInv, TypeOK
  <2> QED  BY <2>2, <2>3 DEF SafeInv, ExactInv, Words, RootRetainCount
<1> QED  BY <1>1, SafeCorrect, PTL

\* No thread reads or writes the object after free, neither through a
\* reference it owned when its call started nor through a weak load.
THEOREM NeverUsedAfterFree ==
  ASSUME PackedOnly, SideFits
  PROVE  Spec => []NoUseAfterFree
<1>1. SafeInv => NoUseAfterFree
  <2> SUFFICES ASSUME SafeInv, freed, NEW t \in Threads
               PROVE  pc[t] \notin DerefLabels
    BY DEF NoUseAfterFree
  <2>1. ~(refs[t] > 0) /\ ~weakLoc /\ ~Deallocating(t)
    BY DeadUnowned DEF SafeInv, ExactInv, Dying, WeakBits
  <2>2. pc \in [Threads -> Labels]
        /\ ret[t] \in {"idle", "deallocR", "deallocE", "wunlock"}
    BY DEF SafeInv, ExactInv, TypeInv, TypeOK
  <2>3. Backed(t) /\ pc[t] # "move"
    BY DEF SafeInv, ExactInv, Local
  <2> QED
    BY <2>1, <2>2, <2>3
    DEF Backed, Trying, OwnerLabels, Deallocating, DeallocLabels,
        DerefLabels, Labels
<1> QED  BY <1>1, SafeCorrect, PTL

\* When the memory goes away the weak variable is nil and unregistered.
THEOREM WeakIsCleared ==
  ASSUME PackedOnly, SideFits
  PROVE  Spec => []WeakNeverDangles
<1>1. SafeInv => WeakNeverDangles
  BY DEF SafeInv, WeakBits, WeakNeverDangles
<1> QED  BY <1>1, SafeCorrect, PTL

\* A freed object leaves no entry in the side table.
THEOREM SideTableIsClean ==
  ASSUME PackedOnly, SideFits
  PROVE  Spec => []SideTableClean
<1>1. SafeInv => SideTableClean
  <2> SUFFICES ASSUME SafeInv, freed, lock = NoThread
               PROVE  ~side.present
    BY DEF SideTableClean
  <2>1. side.cnt = 0
    BY DEF SafeInv, ExactInv, Words, Dying, Dead
  <2>2. \A t \in Threads : pc[t] \notin Erasing
    BY DEF SafeInv, ExactInv, Local, Holds, Transit, Erasing
  <2> QED  BY <2>1, <2>2 DEF SafeInv, Erased
<1> QED  BY <1>1, SafeCorrect, PTL

(***************************************************************************)
(* ObjectLife.                                                             *)
(***************************************************************************)
\* An object dies when its last reference is dropped.
LEMMA DeadIsUnreferenced ==
  ASSUME ExactInv
  PROVE  Dead(isa) <=> TotalRefs = 0
<1>1. isa.rc \in Nat /\ side.cnt \in Nat /\ InTransit \in Nat
  BY IsaFields, EntryFields DEF ExactInv, TypeInv, TypeOK, InTransit
<1>2. TotalRefs = 0 => isa.rc = 0 /\ side.cnt = 0 /\ InTransit = 0
  BY <1>1 DEF ExactInv, Words
<1> QED  BY <1>2, DeadCount DEF ExactInv, Words, Dead

LEMMA PhaseIs ==
  SafeInv => Phase = IF freed THEN "freed"
                     ELSE IF TotalRefs = 0 THEN "deallocating" ELSE "live"
<1> SUFFICES ASSUME SafeInv
             PROVE  Phase = IF freed THEN "freed"
                            ELSE IF TotalRefs = 0 THEN "deallocating" ELSE "live"
  OBVIOUS
<1>1. RootIsDeallocating <=> Dead(isa)
  BY DEF RootIsDeallocating, SafeInv, ExactInv, Words
<1>2. (\E t \in Threads : pc[t] = "free") => Dead(isa)
  BY DEF SafeInv, ExactInv, Local, Deallocating, DeallocLabels
<1> QED  BY <1>1, <1>2, DeadIsUnreferenced DEF Phase, SafeInv

\* What a step of t may do to the references, the weak variable and the
\* object's memory.
Counts(t) ==
  /\ refs' = [refs EXCEPT ![t] = @ + 1] /\ refs[t] < MaxRefs
  /\ refs[t] > 0 \/ (weakLoc /\ ~Dead(isa))
  /\ UNCHANGED <<freed, weakLoc>>
Drops(t) ==
  /\ refs' = [refs EXCEPT ![t] = @ - 1] /\ refs[t] > 0
  /\ UNCHANGED <<freed, weakLoc>>
Gives(t) ==
  \E u \in Threads :
    /\ t # u /\ refs[t] > 0 /\ refs[u] < MaxRefs
    /\ refs' = [refs EXCEPT ![t] = @ - 1, ![u] = @ + 1]
    /\ UNCHANGED <<freed, weakLoc>>
Weakens(t) ==
  /\ UNCHANGED <<refs, freed>>
  /\ weakLoc' = FALSE \/ (weakLoc' = TRUE /\ refs[t] > 0)
Frees(t) ==
  /\ Deallocating(t) /\ ~weakLoc
  /\ freed' = TRUE /\ UNCHANGED <<refs, weakLoc>>

LEMMA StepIsLife ==
  ASSUME SafeInv, NEW t \in Threads, Start(t) \/ Continue(t)
  PROVE  \/ UNCHANGED <<refs, freed, weakLoc>>
         \/ Counts(t) \/ Drops(t) \/ Gives(t) \/ Weakens(t) \/ Frees(t)
<1> USE DEF shared, local
<1>a. /\ refs \in [Threads -> 0..MaxRefs] /\ Backed(t) /\ Local(t) /\ isa.np
      /\ weakLoc \in BOOLEAN
      /\ ret[t] \in {"idle", "deallocR", "deallocE", "wunlock"}
      /\ pc[t] = "retain" /\ ret[t] # "deallocR" => refs[t] < MaxRefs
      /\ pc[t] \in {"release", "borrow", "reborrow", "putback"} /\ ret[t] # "deallocE"
           => refs[t] > 0
  BY DEF SafeInv, ExactInv, TypeInv, TypeOK, Bounds, Words
<1>1. CASE Start(t)
  <2>1. CASE \E u \in Threads : Give(t, u)
    BY <2>1 DEF Give, Owner, Gives
  <2>2. CASE StoreWeakNil(t)
    BY <2>2 DEF StoreWeakNil, Weakens
  <2> QED  BY <1>1, <2>1, <2>2 DEF Start, StartRetain, StartRelease, StartWeakLoad, StoreWeak,
                                   StartChangeIsa
<1>2. CASE RetainStep(t)
  <2>1. CASE RetainInline(t) \/ RetainSpill(t)
    <3>1. /\ pc[t] = "retain" /\ isa = old[t] /\ ~Dead(old[t])
          /\ Gain(t) /\ UNCHANGED <<freed, weakLoc>>
      BY <2>1 DEF RetainInline, RetainSpill, MaySpill, Overflowing, Countable, Store
    <3>2. ret[t] # "deallocR" => refs[t] > 0 \/ weakLoc
      BY <1>a, <3>1 DEF Backed, Trying, OwnerLabels, Local
    <3> QED  BY <1>a, <3>1, <3>2 DEF Gain, Counts
  <2>2. CASE RetainRaw(t) \/ TryRetainRaw(t)
    BY <1>a, <2>2 DEF RetainRaw, TryRetainRaw, Local, Loaded
  <2> QED  BY <1>2, <2>1, <2>2 DEF RetainStep, RetainDead, RetainInlineMissed, RetainOverflow,
                                   RetainLock, RetainSpillMissed, RetainSpilled
<1>3. CASE ReleaseStep(t)
  <2>1. CASE ReleaseInline(t) \/ ReleaseBorrow(t) \/ BorrowStore(t) \/ ReborrowStore(t)
    <3>1. /\ pc[t] \in {"release", "borrow", "reborrow"} /\ UNCHANGED <<freed, weakLoc>>
          /\ Drop(t) \/ UNCHANGED refs
      BY <2>1 DEF ReleaseInline, ReleaseBorrow, Underflowing, BorrowStore, ReborrowStore
    <3> QED  BY <1>a, <3>1 DEF Drop, Drops
  <2>2. CASE ReleaseRaw(t)
    BY <1>a, <2>2 DEF ReleaseRaw, Local, Loaded
  <2> QED  BY <1>3, <2>1, <2>2 DEF ReleaseStep, ReleaseDead, ReleaseInlineMissed, ReleaseUnderflow,
                                   ReleaseLock, BorrowMissed, ReborrowMissed, PutBack, Settle
<1>4. CASE DeallocStep(t)
  <2>1. CASE Free(t)
    BY <1>a, <2>1 DEF Free, Frees, Backed, Deallocating, DeallocLabels
  <2>2. CASE ClearNonpointer(t) \/ ClearRaw(t)
    <3>1. UNCHANGED <<refs, freed>> /\ (weakLoc' = FALSE \/ UNCHANGED weakLoc)
      BY <1>a, <2>2 DEF ClearNonpointer, ClearRaw, WeakClear
    <3> QED  BY <3>1 DEF Weakens
  <2> QED  BY <1>4, <2>1, <2>2 DEF DeallocStep, RetainInDealloc, ReleaseInDealloc, RootDealloc,
                                   ClearNothing
<1>5. CASE WeakStep(t)
  <2>1. CASE StoreWeakLocation(t)
    BY <1>a, <2>1 DEF StoreWeakLocation, Weakens, Backed, OwnerLabels
  <2> QED  BY <1>5, <2>1 DEF WeakStep, WeakLoadLock, WeakLoadNil, WeakLoadUnlock,
                             SetWeaklyReferenced, SetWeaklyReferencedMissed, SetWeaklyReferencedRaw
<1>6. CASE ChangeIsaStep(t)
  BY <1>6 DEF ChangeIsaStep, ChangeIsaLock, ChangeIsaStore, ChangeIsaMissed, MoveToSide
<1> QED  BY <1>1, <1>2, <1>3, <1>4, <1>5, <1>6 DEF Continue

LEMMA LifeNext ==
  ASSUME SideFits, SafeInv, SafeInv', NEW t \in Threads, Start(t) \/ Continue(t)
  PROVE  Life!Next \/ UNCHANGED Life!vars
<1>1. /\ refs \in [Threads -> 0..MaxRefs] /\ TotalRefs \in Nat
      /\ Dead(isa) <=> TotalRefs = 0
      /\ refs[t] > 0 => ~Dead(isa)
      /\ freed => Dead(isa)
  BY TotalRefsBound, DeadIsUnreferenced, DeadUnowned DEF SafeInv, ExactInv, TypeInv, TypeOK, Dying
<1>2. /\ Phase = IF freed THEN "freed" ELSE IF TotalRefs = 0 THEN "deallocating" ELSE "live"
      /\ Phase' = IF freed' THEN "freed" ELSE IF TotalRefs' = 0 THEN "deallocating" ELSE "live"
  <2>1. (SafeInv => Phase = IF freed THEN "freed"
                            ELSE IF TotalRefs = 0 THEN "deallocating" ELSE "live")'
    BY PhaseIs, PTL
  <2> QED  BY <2>1, PhaseIs
<1>3. refs' = refs => TotalRefs' = TotalRefs
  BY DEF TotalRefs, Owned
<1>4. CASE UNCHANGED <<refs, freed, weakLoc>>
  BY <1>2, <1>3, <1>4 DEF Life!vars
<1>5. CASE Counts(t)
  <2>1. TotalRefs' = TotalRefs + 1
    BY <1>1, <1>5, TotalRefsGain DEF Counts
  <2>2. Phase = "live" /\ Phase' = "live"
    BY <1>1, <1>2, <1>5, <2>1 DEF Counts
  <2>3. Life!Retain(t) \/ Life!LoadWeak(t)
    BY <1>5, <2>2 DEF Counts, Life!Retain, Life!LoadWeak
  <2> QED  BY <2>3 DEF Life!Next
<1>6. CASE Drops(t)
  <2>1. TotalRefs' = TotalRefs - 1
    BY <1>1, <1>6, TotalRefsDrop DEF Drops
  <2>2. Phase = "live" /\ Phase' = IF TotalRefs = 1 THEN "deallocating" ELSE "live"
    BY <1>1, <1>2, <1>6, <2>1 DEF Drops
  <2>3. Life!TotalRefs = TotalRefs
    <3>1. Life!Owned = Owned
      BY DEF Life!Owned, Owned
    <3> QED  BY <3>1 DEF Life!TotalRefs, TotalRefs, Life!Cardinality, Cardinality
  <2>4. Life!Release(t)
    BY <1>6, <2>2, <2>3 DEF Drops, Life!Release
  <2> QED  BY <2>4 DEF Life!Next
<1>7. CASE Gives(t)
  <2>1. PICK u \in Threads :
          /\ t # u /\ refs[t] > 0 /\ refs[u] < MaxRefs
          /\ refs' = [refs EXCEPT ![t] = @ - 1, ![u] = @ + 1]
          /\ UNCHANGED <<freed, weakLoc>>
    BY <1>7 DEF Gives
  <2>2. TotalRefs' = TotalRefs
    BY <1>1, <2>1, TotalRefsGive
  <2>3. Life!Give(t, u)
    BY <1>2, <2>1, <2>2 DEF Life!Give
  <2> QED  BY <2>3 DEF Life!Next
<1>8. CASE Weakens(t)
  <2>1. Phase' = Phase
    BY <1>2, <1>3, <1>8 DEF Weakens
  <2>2. refs[t] > 0 => Phase = "live"
    BY <1>1, <1>2
  <2>3. Life!DropWeak \/ Life!FormWeak(t)
    BY <1>8, <2>1, <2>2 DEF Weakens, Life!DropWeak, Life!FormWeak
  <2> QED  BY <2>3 DEF Life!Next
<1>9. CASE Frees(t)
  <2>1. ~freed /\ Dead(isa)
    BY <1>9 DEF Frees, SafeInv, ExactInv, Dying, Local
  <2>2. Phase = "deallocating" /\ Phase' = "freed"
    BY <1>1, <1>2, <1>9, <2>1 DEF Frees
  <2>3. Life!Free
    BY <1>9, <2>2 DEF Frees, Life!Free
  <2> QED  BY <2>3 DEF Life!Next
<1> QED  BY <1>4, <1>5, <1>6, <1>7, <1>8, <1>9, StepIsLife

\* Retains, releases, weak loads and stores, and deallocation implement
\* ObjectLife: what the program sees of them is a number of references that
\* takes the object from live to freed, and a weak variable that shows it to
\* nobody once its last reference is dropped.
THEOREM LifeImplemented ==
  ASSUME PackedOnly, SideFits
  PROVE  Spec => ImplementsLife
<1>1. Init => Life!Init
  <2> SUFFICES ASSUME Init PROVE Life!Init
    OBVIOUS
  <2>1. SafeInv
    BY SafeInvInit
  <2>2. isa.np /\ isa.rc = 1 /\ ~isa.inside
    BY DEF Init, PackedOnly
  <2>3. Phase = "live"
    BY <2>2 DEF Init, Phase, RootIsDeallocating, Dead
  <2> QED  BY <2>3 DEF Init, Life!Init
<1>2. SafeInv /\ SafeInv' /\ [Next]_vars => [Life!Next]_(Life!vars)
  <2> SUFFICES ASSUME SafeInv, SafeInv', [Next]_vars
               PROVE  Life!Next \/ UNCHANGED Life!vars
    OBVIOUS
  <2>1. CASE UNCHANGED vars
    BY <2>1 DEF vars, shared, local, Life!vars, Phase, RootIsDeallocating
  <2>2. CASE \E t \in Threads : Start(t) \/ Continue(t)
    BY <2>2, LifeNext
  <2> QED  BY <2>1, <2>2 DEF Next, Stopped
<1> QED  BY <1>1, <1>2, SafeCorrect, PTL DEF Spec, ImplementsLife, Life!Spec
============================================================================
