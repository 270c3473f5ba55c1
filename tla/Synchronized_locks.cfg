CONSTANTS
  t1 = t1  t2 = t2   none = none
  Threads <- TwoThreads
  Objects <- ThreeObjects
  Lists <- TwoLists
  ListOf <- SplitList
  NoThread <- none
  MaxCalls <- Calls
SPECIFICATION FairSpec
INVARIANTS
  MutualExclusion MutexMatchesProgram
  ExitReportsOwnership
PROPERTY EntersReturn
