SPECIFICATION Spec
CONSTANTS
  WordBits = 22
  WordSize <- MCWordSize
  MaxLeb = 4
  Bytes2 = 1
  Bytes4 = 2
  Bytes8 = 3
  Buffers <- MCBuffers
INVARIANTS
  TypeOK
  LoopIsClosedForm
  DecodeInvertsEncode
CHECK_DEADLOCK FALSE
