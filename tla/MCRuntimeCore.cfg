CONSTANTS
  Half = 4
  Operands <- MCOperands
  Memory <- MCMemory
  Numbers <- MCNumbers
  Rests <- MCRests
  LongLong = 64
  IntValues = 16

SPECIFICATION RuntimeSpec

INVARIANTS
  ProductIsExact
  CopiesAreExact
  NumbersAreRead

\* The functions return.
CHECK_DEADLOCK FALSE
