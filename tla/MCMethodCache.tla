---------------------------- MODULE MCMethodCache ----------------------------
EXTENDS MethodCache, TLC
CONSTANTS t1, t2, t3, A
ThreeThreads == {t1, t2, t3}
ThreeSelectors == {2, 3, 6}
TwoSend == t1 :> {} @@ t2 :> {3, 6} @@ t3 :> {2, 3}
OneChanges == [s \in Selectors |-> IF s = 2 THEN 2 ELSE 1]
OneClass == {A}
Alone == [c \in {A} |-> <<>>]
=============================================================================
