CONSTANTS
  t1 = t1  t2 = t2  A = A  B = B  C = C  D = D  E = E
  none = none
  Threads <- TwoThreads
  Classes <- Tree
  Super <- SuperOf
  Ancestors <- AncestorsOf
  NoInitialize <- OnlyE
  Messages <- Related
  MaxMessages = 2
SPECIFICATION Spec
INVARIANTS NoFatal
