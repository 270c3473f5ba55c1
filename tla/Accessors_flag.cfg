SPECIFICATION Spec
CONSTANTS
  t1 = t1
  t2 = t2
  k1 = k1
  k2 = k2
  a = a
  b = b
  nil = nil
  Ivar = Ivar
  Threads <- TwoThreads
  Keys <- TwoKeys
  Values <- TwoValues
  Policies = {"assign", "retain", "system"}
  Uses <- AllUses
  MaxDepth = 2
INVARIANT FlagCoversMap
SYMMETRY Alike
