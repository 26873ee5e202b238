SPECIFICATION FairSpec
CONSTANTS
  Clients = {c1, c2, c3}
  Socks = {s1, s2}
  MaxClients = 2
  MaxRows = 1
  None = None
CHECK_DEADLOCK FALSE
INVARIANTS
  LockMatchesSessions
  OwnEntry
  CloseAlone
PROPERTY ShutdownDrains
