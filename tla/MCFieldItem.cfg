\* Two users, one with a full bag, and two field items.
SPECIFICATION Spec
CONSTANTS
  u1 = u1
  u2 = u2
  Users = {u1, u2}
  Viewers = {u1}
  Cells = {1, 2}
  Slots = {1, 2, 3}
  ItemIds = {"potion", "sword"}
  Equipment = {"sword"}
  MaxStack <- MCMaxStack
  DropTable <- MCDropTable
  StartBags <- MCStartBags
  NoItem = NoItem
  None = None
  MaxItems = 2
  MaxOps = 2
INVARIANTS
  TypeOK
  NothingDuplicated
  MirrorRight
PROPERTIES
  LootPriority
  ItemLeaves
