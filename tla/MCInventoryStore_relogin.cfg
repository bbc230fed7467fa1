SPECIFICATION Spec
CONSTANTS
  Slots = {1, 2, 3}
  ItemIds <- MCItemIds
  Equipment <- MCEquipment
  MaxStack <- MCMaxStack
  AttackBonus <- MCAttackBonus
  BaseAttack = 10
  NoItem = NoItem
  StartRows <- MCStartRows
  MaxCount = 1
  MaxOps = 1
  MaxFailures = 0
INVARIANTS
  LoginFindsLatest
