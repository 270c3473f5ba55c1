---------------------------- MODULE WeakVariables ----------------------------
(***************************************************************************)
(* What weak variables promise: a variable shows the object stored in it   *)
(* until the object's last release, at which all the variables that show   *)
(* it become nil in one step.                                              *)
(***************************************************************************)
CONSTANTS Objects, Locations, nil

VARIABLES
  view,   \* what a load of each variable would return
  alive   \* the objects that have a reference

vars == <<view, alive>>

Init ==
  /\ view = [l \in Locations |-> nil]
  /\ alive = Objects

\* Store an object, or nil, or destroy the variable.
Assign(l, v) ==
  /\ v \in alive \cup {nil}
  /\ view' = [view EXCEPT ![l] = v]
  /\ UNCHANGED alive

Move(l, d) ==
  /\ view[d] = nil /\ d # l
  /\ view' = [view EXCEPT ![d] = view[l], ![l] = nil]
  /\ UNCHANGED alive

LastRelease(o) ==
  /\ o \in alive
  /\ alive' = alive \ {o}
  /\ view' = [l \in Locations |-> IF view[l] = o THEN nil ELSE view[l]]

\* A new object appears, in no variable.
Alloc(o) ==
  /\ o \notin alive
  /\ alive' = alive \cup {o}
  /\ UNCHANGED view

Next ==
  \/ \E l \in Locations, v \in Objects \cup {nil} : Assign(l, v)
  \/ \E l, d \in Locations : Move(l, d)
  \/ \E o \in Objects : LastRelease(o) \/ Alloc(o)

Spec == Init /\ [][Next]_vars
=============================================================================
