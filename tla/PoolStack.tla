------------------------------ MODULE PoolStack ------------------------------
(***************************************************************************)
(* What a thread's autorelease pools promise to the program, with no pages, *)
(* tokens or coalescing: a stack of bags of objects.  Popping a pool sends  *)
(* every object in it, and in the pools above it, one release for each     *)
(* autorelease; a -dealloc that this causes may use the pools again, above *)
(* the pool that is being popped.  AutoreleasePoolPage implements this.    *)
(***************************************************************************)
EXTENDS Naturals, Sequences

CONSTANT Objects

VARIABLES
  pools,    \* the bags of the pools, the outermost first; pools[1] holds what
            \* is autoreleased with no pool, until the thread ends
  popping,  \* the pools being popped, by place in pools, the outermost first
  releasing \* the objects that were sent a release that has not returned: at
            \* most one for each pop, the outermost first

vars == <<pools, popping, releasing>>

EmptyPool == [o \in Objects |-> 0]
Top == Len(pools)
Pop(s) == SubSeq(s, 1, Len(s) - 1)
Above(k) == popping = <<>> \/ popping[Len(popping)] < k

\* The program runs, outside any pop or in a release; else a pop goes on.
ProgramRuns == Len(releasing) = Len(popping)
PopGoesOn == Len(releasing) < Len(popping)

Init ==
  /\ pools = <<EmptyPool>>
  /\ popping = <<>> /\ releasing = <<>>

Push ==
  /\ ProgramRuns
  /\ UNCHANGED <<popping, releasing>>
  /\ pools' = Append(pools, EmptyPool)

Autorelease(o) ==
  /\ ProgramRuns
  /\ UNCHANGED <<popping, releasing>>
  /\ pools' = [pools EXCEPT ![Top][o] = @ + 1]

\* The program pops a pool, which may not be the innermost.
StartPop(k) ==
  /\ ProgramRuns /\ k > 1 /\ Above(k)
  /\ popping' = Append(popping, k)
  /\ UNCHANGED <<pools, releasing>>

\* The thread ends: everything in its pools is to be released.
ThreadExit ==
  /\ popping = <<>>
  /\ popping' = <<1>>
  /\ UNCHANGED <<pools, releasing>>

\* A pop releases an object of its pool or of one above it: while it releases
\* an object more than once, one of the releases may leave new pools behind.
Release(o) ==
  /\ PopGoesOn
  /\ releasing' = Append(releasing, o)
  /\ UNCHANGED popping
  /\ \E k \in popping[Len(popping)]..Top :
       /\ pools[k][o] > 0
       /\ pools' = [pools EXCEPT ![k][o] = @ - 1]

ReleaseReturns ==
  /\ releasing # <<>> /\ ProgramRuns
  /\ releasing' = Pop(releasing)
  /\ UNCHANGED <<pools, popping>>

\* An inner pool has been emptied by the pop of an outer one.
CloseInner ==
  /\ PopGoesOn
  /\ UNCHANGED <<popping, releasing>>
  /\ Above(Top) /\ pools[Top] = EmptyPool
  /\ pools' = Pop(pools)

\* The pool that is popped is empty; at the end of the thread, all of them.
EndPop ==
  /\ PopGoesOn
  /\ popping' = Pop(popping)
  /\ UNCHANGED releasing
  /\ popping[Len(popping)] = Top /\ pools[Top] = EmptyPool
  /\ pools' = IF Top = 1 THEN pools ELSE Pop(pools)

\* The innermost pool was never used.
PopUnused ==
  /\ ProgramRuns
  /\ UNCHANGED <<popping, releasing>>
  /\ Top > 1 /\ Above(Top) /\ pools[Top] = EmptyPool
  /\ pools' = Pop(pools)

Next ==
  \/ Push \/ ThreadExit \/ ReleaseReturns \/ CloseInner \/ EndPop \/ PopUnused
  \/ \E o \in Objects : Autorelease(o) \/ Release(o)
  \/ \E k \in 1..Top : StartPop(k)

Spec == Init /\ [][Next]_vars
=============================================================================
