SPECIFICATION Spec
CONSTANTS
  MaxPage = 3
  MaxRow = 3
  PageCap = 1
INVARIANT CommittedRowsScanned
