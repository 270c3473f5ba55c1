CONSTANTS
  t1 = t1  t2 = t2
  A = A  B = B  R = R
  none = none
  Threads <- TwoThreads
  NoThread <- none
  FirstClass <- A
  NonpointerClasses <- Packed
  Targets <- BothTargets
  RCHalf = 2
  SidePin = 16
  MaxRefs = 3
SPECIFICATION Spec
PROPERTY RawStaysRaw
