SPECIFICATION Spec
CONSTANTS
  UnscaledMax = 1000
  MaxScale = 3
  DivDigits = 2
  IntBits = 3
  BigBits = 5
  ExpBits = 3
  ManBits = 1
  FExpBits = 2
  FManBits = 1
  Types <- MCTypes
  LenMax = 2
  Indexes <- MCIndexes
  Rows <- MCRows
  Clauses <- MCClauses
INVARIANTS PlanSound FoldErrorsReal TypesHold
