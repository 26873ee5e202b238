SPECIFICATION Spec
CONSTANTS
  SchemaNames = {s}
  TableNames = {t,u}
  IndexNames = {i}
  Vals = {0, 1}
  MaxFid = 3
  MaxSlots = 2
  MaxIds = 2
  MaxStolen = 1
CONSTRAINT Followed
INVARIANTS MetaFilesValid NamesResolve IndexAgrees
