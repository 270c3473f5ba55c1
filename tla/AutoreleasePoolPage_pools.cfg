CONSTANTS
  a = a  b = b   boundary = boundary
  Objects <- TwoObjects
  Boundary <- boundary
  PageSize = 4
  MaxCount = 2
  Window = 3
  MaxCalls = 7
SPECIFICATION FairSpec
INVARIANTS WhileCanBeIf OneStack TokensLive
PROPERTIES KilledPagesUnused ImplementsStack PopsReturn
CHECK_DEADLOCK FALSE
