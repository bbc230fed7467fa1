\* One monster of either kind and one user on a short strip.
SPECIFICATION FairSpec
CONSTANTS
  Monsters = {m1}
  Users = {u1}
  None = None
  Width = 4
  VIEW_RANGE = 2
  WAKE_RANGE = 1
  ZONE_BOUNDARY_MARGIN = 1
  Leash = 1
  MONSTER_MAX_HP = 2
  PLAYER_MAX_HP = 2
  SKILL_DAMAGE = 2
  HEAL_SIZE = 1
  MoveDelay = 1
  AttackDelay = 2
  HealDelay = 2
  RespawnDelay = 3
  UserRespawnDelay = 3
  MaxPackets = 3
  MaxLives = 1
INVARIANTS
  TypeOK
  MonsterComesBack
  UserComesBack
  OneHealChain
  ChaseGoesOn
PROPERTIES
  FallsAsleep
  DeadComeBack
\* When the users are gone and the monsters asleep, nothing is left to do.
CHECK_DEADLOCK FALSE
