\* Two users and a monster on both sides of a zone border.
SPECIFICATION Spec
CONSTANTS
  Users = {u1, u2}
  Monsters = {m1}
  Items = {i1}
  Viewers = {u1}
  Cells <- MCCells
  ZoneOf <- MCZoneOf
  Spawns = {1}
  VIEW_RANGE = 1
  Patient = TRUE
  None = None
  MaxSteps = 2
  MaxDeaths = 1
  MaxLag = 2
INVARIANTS
  TypeOK
  NothingMissing
  NoGhosts
  PlacesRight
  WeaponsRight
  AvatarRight
\* All users may be gone.
CHECK_DEADLOCK FALSE
