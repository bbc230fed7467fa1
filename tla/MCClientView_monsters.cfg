\* One user and one monster in the zone with three cells.
SPECIFICATION Spec
CONSTANTS
  Users = {u1}
  Monsters = {m1}
  Items = {}
  Viewers = {u1}
  Cells <- MCCells
  ZoneOf <- MCZoneOf
  Spawns = {1}
  VIEW_RANGE = 1
  Patient = TRUE
  None = None
  MaxSteps = 5
  MaxDeaths = 0
  MaxLag = 4
INVARIANT MonstersShown
\* All users may be gone.
CHECK_DEADLOCK FALSE
