SPECIFICATION Spec
CONSTANTS
  None = None
  Dumps <- MCDumps
  TypeLike <- MCTypeLike
  Personality <- MCPersonality
  Objects = {graph, copy}
  Home = graph
  IntMax = 3
INVARIANTS
  TypeOK
  EdgesStayInside
  EntriesAreTheSymbols
  GraphIsTheTable
  EntriesAreTheFunctions
  GraphIsTheProgram
  FailureHasAReason
  NodesSeeTheirGraph
CHECK_DEADLOCK FALSE
