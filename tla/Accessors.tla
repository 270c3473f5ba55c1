------------------------------ MODULE Accessors ------------------------------
(***************************************************************************)
(* The values that the runtime keeps for an object: associated objects     *)
(* (objc-references.mm) under AssociationsManagerLock, and an atomic       *)
(* property (objc-accessors.mm) under its lock in PropertyLocks.           *)
(*                                                                         *)
(* A step is one critical section, or one retain or release outside of     *)
(* them.  A release may free the value, whose -dealloc may call in again.  *)
(***************************************************************************)
EXTENDS Naturals, Sequences, FiniteSets, Functions

CONSTANTS
  Threads, Values, nil,
  Keys,       \* of associations
  Ivar,       \* the property
  Policies,   \* those that associations are made with
  Uses,       \* what each thread calls the runtime for
  MaxDepth    \* bound: the nesting of calls from -dealloc

ASSUME IvarAssumption == Ivar \notin Keys
ASSUME nilAssumption == nil \notin Values
ASSUME PoliciesAssumption == Policies \subseteq {"assign", "nonatomic", "retain", "system"}
ASSUME FiniteAssumption == IsFiniteSet(Threads) /\ IsFiniteSet(Values) /\ IsFiniteSet(Keys)
ASSUME MaxDepthAssumption == MaxDepth \in Nat \ {0}

VARIABLES
  count,     \* the retain count of each value; it is free at 0
  own,       \* the values that each thread owns a reference to
  pool,      \* the value that each thread has autoreleased, or nil
  entry,     \* the association of each key, and the property
  hasAssoc,  \* has_assoc of the object
  life,      \* of the object: "live", "dying", "freed"
  stack,     \* the calls of each thread, the innermost last
  late,      \* ghost: what was set after the dying object gave it up
  lost       \* ghost: the references that were in a property when it was freed

vars == <<count, own, pool, entry, hasAssoc, life, stack, late, lost>>

Places == Keys \cup {Ivar}

\* OBJC_ASSOCIATION_SETTER_RETAIN and _GETTER_RETAIN
Retains(p) == p # "assign"
GetterRetains(p) == p \in {"retain", "system"}

ObjcAssociation(k, v, p) == [key |-> k, value |-> v, policy |-> p]
NoEntry(k) == ObjcAssociation(k, nil, "assign")
Frame(op, pc, k, held) == [op |-> op, pc |-> pc, key |-> k, held |-> held]

Init ==
  /\ count = [v \in Values |-> Cardinality(Threads)]
  /\ own = [t \in Threads |-> Values]
  /\ pool = [t \in Threads |-> nil]
  /\ entry = [k \in Places |-> NoEntry(k)]
  /\ hasAssoc = FALSE
  /\ life = "live"
  /\ stack = [t \in Threads |-> <<>>]
  /\ late = {}
  /\ lost = [v \in Values |-> 0]

Top(t) == stack[t][Len(stack[t])]
At(t, pc) == stack[t] # <<>> /\ Top(t).pc = pc
Replace(s, f) == [s EXCEPT ![Len(s)] = f]
Pop(s) == SubSeq(s, 1, Len(s) - 1)
To(t, f) == stack' = [stack EXCEPT ![t] = Replace(@, f)]

\* The thread that the object is destroyed by
Destroys(t) == stack[t] # <<>> /\ stack[t][1].op \in {"destroy", "dispose"}

\* A thread calls from the program, or from the -dealloc of a value; while the
\* object is dying, from what its destruction runs.
MayCall(t, op) ==
  /\ op \in Uses[t]
  /\ stack[t] = <<>> \/ (At(t, "dealloc") /\ Len(stack[t]) < MaxDepth)
  /\ life = "live" \/ (life = "dying" /\ Destroys(t))
Call(t, f) == stack' = [stack EXCEPT ![t] = Append(@, f)]
MayUse(t, v) == v \in own[t] \cup {pool[t], nil}

Retained(v) == IF v = nil THEN count ELSE [count EXCEPT ![v] = @ + 1]
AcquireValue(e) == IF Retains(e.policy) THEN Retained(e.value) ELSE count

(***************************************************************************)
(* Setters.                                                                *)
(***************************************************************************)
\* objc_setAssociatedObject, up to acquireValue
SetAssociation(t, k, v, p) ==
  /\ MayCall(t, "set") /\ MayUse(t, v)
  /\ LET e == ObjcAssociation(k, v, p) IN
       /\ count' = AcquireValue(e)
       /\ Call(t, Frame("set", "swap", k, {e}))
  /\ UNCHANGED <<own, pool, entry, hasAssoc, life, late, lost>>

\* objc_setProperty_atomic, which returns if the property has the value
SetProperty(t, v) ==
  /\ MayCall(t, "property") /\ MayUse(t, v)
  /\ entry[Ivar].value # v
  /\ count' = Retained(v)
  /\ Call(t, Frame("set", "swap", Ivar, {ObjcAssociation(Ivar, v, "retain")}))
  /\ UNCHANGED <<own, pool, entry, hasAssoc, life, late, lost>>

IsFirst(k) == k \in Keys /\ \A j \in Keys : entry[j].value = nil

\* Mutant: releases the old value by the new policy.
SwappedKeepsPolicy(old, new) == [old EXCEPT !.policy = new.policy]

Swapped(old, new) == old

\* objc_destructInstance has taken out what the object had at k, or found that
\* it has no associations.
GaveUp(t, k) ==
  /\ Destroys(t)
  /\ stack[t][1].op = "dispose" \/ (k = Ivar /\ stack[t][1].pc # "dealloc")

\* Under the lock: the new value is exchanged for the old one.
Swap(t) ==
  /\ At(t, "swap")
  /\ LET k == Top(t).key IN \E new \in Top(t).held :
       /\ entry' = [entry EXCEPT ![k] = IF new.value = nil THEN NoEntry(k) ELSE new]
       /\ To(t, Frame("set", IF new.value # nil /\ IsFirst(k) THEN "flag" ELSE "release",
                      k, {Swapped(entry[k], new)}))
       /\ late' = IF new.value # nil /\ GaveUp(t, k) THEN late \cup {k} ELSE late
  /\ UNCHANGED <<count, own, pool, hasAssoc, life, lost>>

\* setHasAssociatedObjects, outside the lock
SetHasAssociatedObjects(t) ==
  /\ At(t, "flag")
  /\ hasAssoc' = TRUE
  /\ To(t, [Top(t) EXCEPT !.pc = "release"])
  /\ UNCHANGED <<count, own, pool, entry, life, late, lost>>

Dealloc(v) == Frame("dealloc", "dealloc", v, {})

\* releaseHeldValue, or objc_release(oldValue): the last release runs the
\* value's -dealloc.
ReleaseLater(e) == e.policy = "system"

Release(t) ==
  /\ At(t, "release") /\ Top(t).held # {}
  /\ \E e \in Top(t).held :
       /\ ReleaseLater(e) => \A d \in Top(t).held : ReleaseLater(d)
       /\ LET rest == Replace(stack[t], [Top(t) EXCEPT !.held = @ \ {e}]) IN
          IF e.value # nil /\ Retains(e.policy)
            THEN /\ count' = [count EXCEPT ![e.value] = @ - 1]
                 /\ stack' = [stack EXCEPT ![t] =
                      IF count[e.value] = 1
                        THEN Append(rest, Dealloc(e.value)) ELSE rest]
            ELSE UNCHANGED count /\ stack' = [stack EXCEPT ![t] = rest]
  /\ UNCHANGED <<own, pool, entry, hasAssoc, life, late, lost>>

Return(t) ==
  /\ At(t, "dealloc") \/ (At(t, "release") /\ Top(t).held = {})
  /\ Top(t).op # "destroy"
  /\ life' = IF Top(t).op = "dispose" THEN "freed" ELSE life
  /\ stack' = [stack EXCEPT ![t] = Pop(@)]
  /\ UNCHANGED <<count, own, pool, entry, hasAssoc, late, lost>>

(***************************************************************************)
(* Getters.                                                                *)
(***************************************************************************)
\* Mutant: leaves the value to its owners.
RetainReturnedValueNot(v) == count

RetainReturnedValue(v) == Retained(v)

\* Under the lock: the value is retained, if its policy says so.  Otherwise
\* the getter returns it and changes nothing.
Get(t, k) ==
  /\ MayCall(t, "get") /\ pool[t] = nil
  /\ entry[k].value # nil /\ GetterRetains(entry[k].policy)
  /\ count' = RetainReturnedValue(entry[k].value)
  /\ Call(t, Frame("get", "autorelease", k, {entry[k]}))
  /\ UNCHANGED <<own, pool, entry, hasAssoc, life, late, lost>>

\* autoreleaseReturnedValue, outside the lock
Autorelease(t) ==
  /\ At(t, "autorelease")
  /\ \E e \in Top(t).held : pool' = [pool EXCEPT ![t] = e.value]
  /\ stack' = [stack EXCEPT ![t] = Pop(@)]
  /\ UNCHANGED <<count, own, entry, hasAssoc, life, late, lost>>

(***************************************************************************)
(* Removal.                                                                *)
(***************************************************************************)
Associations == {entry[k] : k \in {k \in Keys : entry[k].value # nil}}

\* Mutant: the system's associations are preserved in every case.
RemovedNotSystem(deallocating) == {e \in Associations : e.policy # "system"}

\* The associations that _object_remove_assocations takes out of the map.
Removed(deallocating) ==
  {e \in Associations : deallocating \/ e.policy # "system"}

TakeOut(es) ==
  entry' = [k \in Places |-> IF entry[k] \in es THEN NoEntry(k) ELSE entry[k]]

\* objc_removeAssociatedObjects; without has_assoc it does nothing
RemoveAssociations(t) ==
  /\ MayCall(t, "remove") /\ hasAssoc
  /\ TakeOut(Removed(FALSE))
  /\ Call(t, Frame("remove", "release", Ivar, Removed(FALSE)))
  /\ UNCHANGED <<count, own, pool, hasAssoc, life, late, lost>>

\* The last release of the object calls its -dealloc.
Destroy(t) ==
  /\ MayCall(t, "destroy") /\ life = "live"
  /\ \A u \in Threads : stack[u] = <<>>
  /\ life' = "dying"
  /\ Call(t, Frame("destroy", "dealloc", Ivar, {}))
  /\ UNCHANGED <<count, own, pool, entry, hasAssoc, late, lost>>

\* objc_destructInstance reads has_assoc, and object_cxxDestruct takes the
\* property out and releases it.
DestructInstance(t) ==
  /\ At(t, "dealloc") /\ Top(t).op = "destroy"
  /\ TakeOut({entry[Ivar]})
  /\ To(t, Frame(IF hasAssoc THEN "destroy" ELSE "dispose", "release", Ivar,
                 {entry[Ivar]}))
  /\ UNCHANGED <<count, own, pool, hasAssoc, life, late, lost>>

\* _object_remove_assocations, if has_assoc was found set
RemoveDeallocating(t) ==
  /\ At(t, "release") /\ Top(t).op = "destroy" /\ Top(t).held = {}
  /\ TakeOut(Removed(TRUE))
  /\ To(t, Frame("dispose", "release", Ivar, Removed(TRUE)))
  /\ UNCHANGED <<count, own, pool, hasAssoc, life, late, lost>>

(***************************************************************************)
(* The program.                                                            *)
(***************************************************************************)
Counted(e, v) == e.value = v /\ Retains(e.policy)

\* Another object at the same address, with its memory cleared
NewObject ==
  /\ life = "freed"
  /\ life' = "live"
  /\ hasAssoc' = FALSE
  /\ entry' = [entry EXCEPT ![Ivar] = NoEntry(Ivar)]
  /\ late' = late \ {Ivar}
  /\ lost' = [v \in Values |-> IF Counted(entry[Ivar], v) THEN lost[v] + 1 ELSE lost[v]]
  /\ UNCHANGED <<count, own, pool, stack>>

NewValue(t, v) ==
  /\ stack[t] = <<>> /\ count[v] = 0
  /\ \A u \in Threads : Dealloc(v) \notin Range(stack[u])
  /\ count' = [count EXCEPT ![v] = 1]
  /\ own' = [own EXCEPT ![t] = @ \cup {v}]
  /\ UNCHANGED <<pool, entry, hasAssoc, life, stack, late, lost>>

\* A thread gives up its own reference, or drains its pool.
GiveUp(t, v) ==
  /\ stack[t] = <<>>
  /\ \/ v \in own[t] /\ own' = [own EXCEPT ![t] = @ \ {v}] /\ UNCHANGED pool
     \/ v = pool[t] /\ pool' = [pool EXCEPT ![t] = nil] /\ UNCHANGED own
  /\ count' = [count EXCEPT ![v] = @ - 1]
  /\ IF count[v] = 1 THEN Call(t, Dealloc(v)) ELSE UNCHANGED stack
  /\ UNCHANGED <<entry, hasAssoc, life, late, lost>>

Next ==
  \/ \E t \in Threads :
       \/ \E k \in Keys, v \in Values \cup {nil}, p \in Policies : SetAssociation(t, k, v, p)
       \/ \E v \in Values \cup {nil} : SetProperty(t, v)
       \/ \E k \in Places : Get(t, k)
       \/ \E v \in Values : NewValue(t, v) \/ GiveUp(t, v)
       \/ Swap(t) \/ SetHasAssociatedObjects(t) \/ Release(t) \/ Return(t)
       \/ Autorelease(t) \/ RemoveAssociations(t)
       \/ Destroy(t) \/ DestructInstance(t) \/ RemoveDeallocating(t)
  \/ NewObject

Spec == Init /\ [][Next]_vars

(***************************************************************************)
(* Properties.                                                             *)
(***************************************************************************)
Entries == [key : Places, value : Values \cup {nil},
            policy : Policies \cup {"assign", "retain"}]
Frames == [op : {"set", "get", "remove", "destroy", "dispose", "dealloc"},
           pc : {"swap", "flag", "release", "autorelease", "dealloc"},
           key : Places \cup Values, held : SUBSET Entries]

TypeOK ==
  /\ count \in [Values -> Nat]
  /\ own \in [Threads -> SUBSET Values]
  /\ pool \in [Threads -> Values \cup {nil}]
  /\ entry \in [Places -> Entries]
  /\ hasAssoc \in BOOLEAN
  /\ life \in {"live", "dying", "freed"}
  /\ stack \in [Threads -> Seq(Frames)]
  /\ late \subseteq Places
  /\ lost \in [Values -> Nat]

\* The owners of references to v: threads, pools, the object, and the calls
\* that have retained a new value or not yet released an old one.
HeldAt(t, i) == IF i \in DOMAIN stack[t] THEN stack[t][i].held ELSE {}
InThreads(v) == {t \in Threads : v \in own[t]}
InPools(v) == {t \in Threads : pool[t] = v}
InObject(v) == {k \in Places : Counted(entry[k], v)}
InCalls(v) ==
  {x \in Threads \X (1 .. MaxDepth) \X Entries :
     x[3] \in HeldAt(x[1], x[2]) /\ Counted(x[3], v)}

\* The count of a value is the number of its owners, so nothing leaks and
\* nothing is released twice.  What leaks is what a -dealloc puts in the
\* property of the object whose destruction has taken the property out.
CountsOwners ==
  \A v \in Values :
    count[v] = Cardinality(InThreads(v)) + Cardinality(InPools(v))
             + Cardinality(InObject(v)) + Cardinality(InCalls(v)) + lost[v]

\* A value that was freed is never retained or returned: what a getter reads
\* under the lock is still owned.
NeverRevived ==
  [][\A v \in Values : count[v] = 0 /\ count'[v] > 0 => \E t \in Threads : v \in own'[t] \ own[t]]_vars

\* A freed object leaves nothing behind in the map, although -dealloc methods
\* run in its destruction and has_assoc is read before them: no association
\* passes to another object at its address, unless one was set when has_assoc
\* had been found unset, or the associations had been removed.
NothingInherited ==
  /\ life = "freed" /\ late \cap Keys = {} => \A k \in Keys : entry[k] = NoEntry(k)
  /\ life = "freed" /\ Ivar \notin late => entry[Ivar] = NoEntry(Ivar)

\* The same of the associations without the exception.  It does not hold.
NothingLeft == life = "freed" => \A k \in Keys : entry[k] = NoEntry(k)

\* As long as has_assoc is not set, every association in the map is the work
\* of a call that has not returned: objc_removeAssociatedObjects, which looks
\* at has_assoc first, "removes all associations for a given object".
FlagCoversMap ==
  ~hasAssoc => \A e \in Associations : \E t \in Threads : \E f \in Range(stack[t]) :
    f.op = "set" /\ f.key = e.key
=============================================================================
