CONSTANTS
  t1 = t1  t2 = t2  a = a  b = b  l1 = l1  l2 = l2  C = C  D = D
  null = null
  Threads <- TwoThreads
  Objects <- TwoObjects
  Locations <- TwoLocations
  nil <- null
  Stripes <- TwoStripes
  StripeOf <- Striping
  ClassOf <- ClassOfBoth
  Initialized <- OnlyD
  MaxCalls = 2
SPECIFICATION FairSpec
INVARIANTS TableMirrorsVariables
PROPERTIES ImplementsZeroing CallsReturn
