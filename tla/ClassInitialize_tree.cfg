CONSTANTS
  t1 = t1  t2 = t2  A = A  B = B  C = C  D = D  E = E
  none = none
  Threads <- TwoThreads
  Classes <- Tree
  Super <- SuperOf
  Ancestors <- AncestorsOf
  NoInitialize <- OnlyE
  Messages <- BelowRoot
  MaxMessages = 3
SPECIFICATION FairSpec
INVARIANTS Contiguous InitializedOnce NoFatal
PROPERTIES ReturnsInitialized ForkCompletesNothing MessagesReturn
