SPECIFICATION Spec
CONSTANTS
  WordBits = 22
  WordSize <- MCWordSize
  MaxLeb = 4
  Bytes2 = 1
  Bytes4 = 2
  Bytes8 = 3
  MaxHandlers = 20
  Inputs <- ArbitraryBytes
INVARIANTS
  TypeOK
  TablesInOrder
  ActionsTile
  LinksAreExact
  BackwardLinksDescend
  ScopesMirrorCallSites
PROPERTIES
  ImplementsScopeTable
  LoopsAdvance
  BackwardChainsEnd
CHECK_DEADLOCK FALSE
