----------------------------- MODULE MCWeakStore -----------------------------
(***************************************************************************)
(* WeakStore with model values for TLC: object a is in a side table of its *)
(* own, b shares one with nil.                                             *)
(***************************************************************************)
EXTENDS WeakStore, TLC

CONSTANTS t1, t2, a, b, l1, l2, C, D, null

TwoThreads == {t1, t2}
TwoObjects == {a, b}
TwoLocations == {l1, l2}
TwoStripes == {1, 2}
Striping == (a :> 1) @@ (b :> 2) @@ (null :> 2)
ClassOfBoth == (a :> C) @@ (b :> D)
OnlyD == {D}
=============================================================================
