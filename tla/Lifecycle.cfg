SPECIFICATION FairSpec
CONSTANTS
  Servers = {s1, s2}
  Inits = {i1}
  Inodes = {n1, n2, n3}
  NoOne = NoOne
INVARIANTS
  SoleServer
  RollBackAlone
PROPERTIES
  DataKept
  InitComplete
  ToolsReturn
CHECK_DEADLOCK FALSE
