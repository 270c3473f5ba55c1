----------------------------- MODULE MCAccessors -----------------------------
EXTENDS Accessors, TLC

CONSTANTS t1, t2, k1, k2, a, b

TwoThreads == {t1, t2}
OneKey == {k1}
TwoKeys == {k1, k2}
Alike == Permutations({a, b}) \cup Permutations({k1, k2})
TwoValues == {a, b}
AllUses == 
  t1 :> {"set", "property", "get", "remove", "destroy"} @@ t2 :> {"set", "get"}

\* What an object leaves behind is followed up to the next object.
Clean ==
  /\ life # "freed" \/ late \cap Keys = {}
  /\ \A v \in Values : lost[v] = 0
=============================================================================
