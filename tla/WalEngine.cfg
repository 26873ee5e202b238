SPECIFICATION FairSpec
CONSTANTS
  f1 = f1
  hdr = hdr
  pg = pg
  a = a
  b = b
  b2 = b2
  Files <- MCFiles
  Pages <- MCPages
  HeaderPages <- MCHeaders
  FileOf <- MCFileOf
  Cells <- MCCells2
  PageOf <- MCPageOf2
  Values = {0, 1}
  Zero = 0
  PoolSize = 1
  MaxTxn = 2
  MaxLog = 4
INVARIANTS
  IInv
  WriteAhead
  RecoveryExact
PROPERTIES
  CheckpointLosesNothing
  NeverStuck
  Implements
