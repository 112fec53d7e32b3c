SPECIFICATION SafeSpec
CONSTANTS
  WordBits = 22
  WordSize <- MCWordSize
  MaxLeb = 4
  Bytes2 = 1
  Bytes4 = 2
  Bytes8 = 3
  None = None
  OtherStrings <- MCOtherStrings
  Files <- MCFiles
  HalfWord <- MCHalfWord
  Heap <- MCHeap
  Arguments <- MCArguments
  TypeinfoNames <- MCTypeinfoNames
  MaxHandlers = 24
  Names <- MCNames
  Behind <- MCBehind
INVARIANTS
  SafeTypeOK
  SectionsAreTheFiles
  SymbolsAreTheFiles
  ReportIsComplete
  ReportIsTrue
  ExitHasAReason
  FileIsClosedByMain
PROPERTY
  MainEnds
CHECK_DEADLOCK FALSE
