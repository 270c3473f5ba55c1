-------------------------- MODULE MCClassInitialize --------------------------
(***************************************************************************)
(* ClassInitialize with model values for TLC: the hierarchy A > B > C > D  *)
(* and B > E.  The +initialize of B, C and D may message every super- and  *)
(* subclass; E has none, and that of the root class A is trivial.          *)
(***************************************************************************)
EXTENDS ClassInitialize, TLC

CONSTANTS t1, t2, A, B, C, D, E

TwoThreads == {t1, t2}
Tree == {A, B, C, D, E}
SuperOf == (A :> none) @@ (B :> A) @@ (C :> B) @@ (D :> C) @@ (E :> B)
AncestorsOf ==
  (A :> {}) @@ (B :> {A}) @@ (C :> {A, B}) @@ (D :> {A, B, C})
  @@ (E :> {A, B})
OnlyE == {E}

\* Each +initialize messages the classes above and below its own.
Related ==
  [c \in Tree |->
     {d \in Tree : c # E /\ (d \in AncestorsOf[c] \/ c \in AncestorsOf[d])}]
\* But for that of the root class
BelowRoot == [Related EXCEPT ![A] = {}]
=============================================================================
