SPECIFICATION Spec
CONSTANTS
  MaxPage = 2
  MaxRow = 4
  PageCap = 2
CONSTRAINT NotSpoilt
INVARIANTS
  ScanExact
  RowidsUnique
PROPERTY RowPlacesStable
