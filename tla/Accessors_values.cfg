SPECIFICATION Spec
CONSTANTS
  t1 = t1
  t2 = t2
  k1 = k1
  k2 = k2
  a = a
  b = b
  nil = nil
  Ivar = Ivar
  Threads <- TwoThreads
  Keys <- OneKey
  Values <- TwoValues
  Policies = {"assign", "retain", "system"}
  Uses <- AllUses
  MaxDepth = 3
INVARIANTS CountsOwners NothingInherited
PROPERTY NeverRevived
SYMMETRY Alike
CONSTRAINT Clean
