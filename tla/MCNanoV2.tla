------------------------------ MODULE MCNanoV2 ------------------------------
EXTENDS NanoV2, TLC
CONSTANTS t1, t2, c1, c2
TwoThreads == {t1, t2}
TwoCPUs == {c1, c2}
Alike == Permutations(Callers) \cup Permutations(CPUs)

\* Bound: what happens to a damaged block is not followed further.
Undamaged == ~damaged
=============================================================================
