SPECIFICATION Spec
CONSTANTS
  WordBits = 22
  WordSize <- MCWordSize
  MaxLeb = 4
  Bytes2 = 1
  Bytes4 = 2
  Bytes8 = 3
  None = None
  Elfs <- StaticElfs
  Lsdas <- MCLsdas
  Names <- MCNames
  Behind <- MCBehind
INVARIANTS
  ReportedCanThrow
