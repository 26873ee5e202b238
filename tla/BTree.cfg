SPECIFICATION Spec
CONSTANTS
  Vals = {1, 2}
  Refs = {1, 2}
  LeafCap = 2
  NodeCap = 2
  MaxPage = 8
  MaxEntries = 5
  MaxStreamed = 4
  MaxStolen = 1
  MaxSpoiling = 3
  MaxBoth = 1
  CursorRanges <- MCCursorRanges
CONSTRAINT NotSpoilt
INVARIANTS
  RangeScanExact
  NewPageFresh
  StaleRootDetected
  CursorMissesNothing
