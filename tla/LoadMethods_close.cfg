CONSTANTS
  t1 = t1  t2 = t2
  P = P  Q = Q  R = R  S = S  N = N
  A = A  B = B  D = D  M = M  E = E  cB = cB  cA = cA  cS = cS
  none = none
  Threads <- TwoThreads
  Images <- FiveImages
  Links <- LinksOf
  Bundles <- TwoBundles
  Classes <- FiveClasses
  Categories <- ThreeCategories
  Superclass <- SuperclassOf
  Above <- SuperclassesOf
  ClassOf <- CategoryClass
  ImageOf <- Origin
  HasLoad <- WithLoad
  ClassList <- ClassLists
  CategoryList <- CategoryLists
  MaxOpens = 4
  ClosesPending = TRUE
SPECIFICATION Spec
INVARIANT RunsInOrder
