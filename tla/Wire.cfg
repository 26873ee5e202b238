SPECIFICATION FairSpec
CONSTANTS
  CellValues <- ShortCells
  Cols = 1
  LengthMod = 3
  BatchMax = 2
  MaxStmts = 2
  MaxRows = 3
INVARIANTS RowsExact InStep
PROPERTY Answered
CHECK_DEADLOCK FALSE
