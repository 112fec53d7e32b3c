SPECIFICATION Spec
CONSTANTS
  None = None
  Dumps <- MCDumps
  TypeLike <- MCTypeLike
  Personality <- MCPersonality
  Objects = {graph, copy}
  Home = graph
  IntMax = 3
INVARIANT NeighboursFound
CHECK_DEADLOCK FALSE
