SPECIFICATION Spec
CONSTANTS
  UnscaledMax = 100
  MaxScale = 3
  DivDigits = 2
  IntBits = 3
  BigBits = 5
  ExpBits = 3
  ManBits = 1
  FExpBits = 2
  FManBits = 1
  Decimals <- MCDecimals
  Operands <- MCOperands
  Precisions = {0, 1}
  RoundDigits <- MCRoundDigits
  Words <- MCWords
  Columns <- MCColumns
  ByteBits = 2
  Width <- MCWidth
  MaxRecordLen = 14
INVARIANTS
  ArithExact
  RoundingExact
  KeyOrder
  ProbeAgrees
  StoredReadBack
CHECK_DEADLOCK FALSE
