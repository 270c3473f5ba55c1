----------------------------- MODULE ObjectLife -----------------------------
(***************************************************************************)
(* What the reference counting of one heap object promises to the program, *)
(* with no mention of isa bits, side tables or locks: a number of owned    *)
(* references, a phase, and one __weak variable that may refer to the      *)
(* object.  RefCount implements this specification.                        *)
(***************************************************************************)
EXTENDS Naturals, FiniteSets

CONSTANTS
  Threads,  \* the threads that may own references
  MaxRefs   \* bound: the references one thread owns at a time

VARIABLES
  refs,     \* refs[t]: the references thread t owns
  phase,    \* "live", then "deallocating" (in -dealloc), then "freed"
  weak      \* the __weak variable refers to the object

vars == <<refs, phase, weak>>

Owned == {p \in Threads \X (1..MaxRefs) : p[2] <= refs[p[1]]}
TotalRefs == Cardinality(Owned)

Init ==
  /\ \E t \in Threads : refs = [u \in Threads |-> IF u = t THEN 1 ELSE 0]
  /\ phase = "live"
  /\ weak = FALSE

\* An owner of the object takes one more reference.
Retain(t) ==
  /\ phase = "live" /\ refs[t] > 0
  /\ refs' = [refs EXCEPT ![t] = @ + 1]
  /\ UNCHANGED <<phase, weak>>

\* An owner drops one reference; the last one starts deallocation.
Release(t) ==
  /\ phase = "live" /\ refs[t] > 0
  /\ refs' = [refs EXCEPT ![t] = @ - 1]
  /\ phase' = IF TotalRefs = 1 THEN "deallocating" ELSE "live"
  /\ UNCHANGED weak

\* The program hands a reference from one thread to another.
Give(t, u) ==
  /\ refs[t] > 0 /\ t # u
  /\ refs' = [refs EXCEPT ![t] = @ - 1, ![u] = @ + 1]
  /\ UNCHANGED <<phase, weak>>

\* A load of the weak variable gives a reference to a live object only.
LoadWeak(t) ==
  /\ phase = "live" /\ weak
  /\ refs' = [refs EXCEPT ![t] = @ + 1]
  /\ UNCHANGED <<phase, weak>>

\* Only an owner makes the weak variable refer to the object.
FormWeak(t) ==
  /\ phase = "live" /\ refs[t] > 0
  /\ weak' = TRUE
  /\ UNCHANGED <<refs, phase>>

\* The program or -dealloc sets the weak variable to nil.
DropWeak ==
  /\ weak' = FALSE
  /\ UNCHANGED <<refs, phase>>

\* The memory goes away once no weak variable refers to it.
Free ==
  /\ phase = "deallocating" /\ ~weak
  /\ phase' = "freed"
  /\ UNCHANGED <<refs, weak>>

Next ==
  \/ DropWeak \/ Free
  \/ \E t \in Threads :
        \/ Retain(t) \/ Release(t) \/ LoadWeak(t) \/ FormWeak(t)
        \/ \E u \in Threads : Give(t, u)

Spec == Init /\ [][Next]_vars
=============================================================================
