SPECIFICATION Spec
CONSTANTS
  t1 = t1
  t2 = t2
  t3 = t3
  A = A
  NoThread = NoThread
  Threads <- ThreeThreads
  Sends <- TwoSend
  Classes <- OneClass
  Superclasses <- Alone
  Selectors <- ThreeSelectors
  Buffers = {1, 2}
  InitSize = 4
  MaxSize = 8
  Threshold = 8
  MaxVersion <- OneChanges
  Restartable = {TRUE, FALSE}
  SignalledFlush = FALSE
INVARIANTS ReadsAreSafe NeverStale EmptySlot
