SPECIFICATION TableSpec
CONSTANTS
  A = A  B = B  C = C  D = D
  l1 = l1  l2 = l2  l3 = l3  l4 = l4  l5 = l5
  Nil = Nil
  Referents <- FourObjects
  MayHold <- ManyAndFew
  Variables <- FiveVariables
  HashOf <- Colliding
  InlineCount = 2
  FirstRefs = 4
  FirstEntries = 2
  CompactAt = 8
  CompactBy = 4
INVARIANTS LookupsAgree SearchesEnd
