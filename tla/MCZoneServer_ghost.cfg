SPECIFICATION FairSpec
CONSTANTS
  Players = {p1}
  A = A
  B = B
  a1 = a1
  a2 = a2
  b1 = b1
  Zones = {A, B}
  Cells <- MCCells
  ZoneOf <- MCZoneOf
  None = None
  MaxPackets = 0
PROPERTIES
  ClosedSessionLeavesWorld
\* When every session is over the server waits for new connections.
CHECK_DEADLOCK FALSE
