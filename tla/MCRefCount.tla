----------------------------- MODULE MCRefCount -----------------------------
(***************************************************************************)
(* RefCount with model values for TLC.  RCHalf and SidePin are scaled down *)
(* so that a few references overflow the inline count.                     *)
(***************************************************************************)
EXTENDS RefCount, TLC

CONSTANTS t1, t2, A, B, R, none

TwoThreads == {t1, t2}
Packed == {A, B}
NoTargets == {}
PackedTarget == {B}
RawTarget == {R}
BothTargets == {B, R}
=============================================================================
