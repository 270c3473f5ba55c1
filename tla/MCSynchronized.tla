---------------------------- MODULE MCSynchronized ----------------------------
(***************************************************************************)
(* Synchronized with model values for TLC: three objects, two of them in   *)
(* one list.                                                               *)
(***************************************************************************)
EXTENDS Synchronized, TLC

CONSTANTS t1, t2, none

TwoThreads == {t1, t2}
ThreeObjects == {1, 2, 3}
TwoLists == {1, 2}
SplitList == (1 :> 1) @@ (2 :> 1) @@ (3 :> 2)
Calls == (t1 :> 3) @@ (t2 :> 2)
=============================================================================
