----------------------------- MODULE MCWeakTable -----------------------------
EXTENDS WeakTable, TLC
CONSTANTS A, B, C, D, l1, l2, l3, l4, l5
FourObjects == {A, B, C, D}
FiveVariables == {l1, l2, l3, l4, l5}
\* One object is held by up to five variables, the others by fewer.
ManyAndFew == A :> FiveVariables @@ B :> {l1} @@ C :> {l2, l3} @@ D :> {l4}
\* Most hashes are those of the last bucket, so that probes wrap around.
Colliding == A :> 7 @@ B :> 15 @@ C :> 7 @@ D :> 0
             @@ l1 :> 7 @@ l2 :> 15 @@ l3 :> 7 @@ l4 :> 0 @@ l5 :> 6
=============================================================================
