SPECIFICATION NanoSpec
CONSTANTS
  t1 = t1
  t2 = t2
  NoCaller = NoCaller
  Callers <- TwoThreads
  c1 = c1
  c2 = c2
  CPUs <- TwoCPUs
  Slots = 3
  FreeCounts = 3
  GenCounts = 5
  Drained = 2
  BlocksPerArena = 1
  MaxArenas = 2
  Policies = {TRUE}
  Reclaims = FALSE
  MaxCalls = 6
SYMMETRY Alike
CHECK_DEADLOCK FALSE
INVARIANT Exclusive
