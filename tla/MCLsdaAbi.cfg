SPECIFICATION Spec
CONSTANTS
  WordBits = 22
  WordSize <- MCWordSize
  MaxLeb = 4
  Bytes2 = 1
  Bytes4 = 2
  Bytes8 = 3
  MaxHandlers = 40
  Inputs <- Images
INVARIANTS
  CompilerOutputParses
  HandlersAreAPrefix
CHECK_DEADLOCK FALSE
