SPECIFICATION Spec
CONSTANTS
  Slots = {1, 2, 3}
  ItemIds <- MCItemIds
  Equipment <- MCEquipment
  MaxStack <- MCMaxStack
  AttackBonus <- MCAttackBonus
  BaseAttack = 10
  NoItem = NoItem
  StartRows <- MCStartRows
  MaxCount = 3
  MaxOps = 2
  MaxFailures = 1
INVARIANTS
  TypeOK
  RowsWereMemory
  RowsCatchUp
  NeverTwoEquipped
  StoreInv
  OffensiveIsCurrent
  UnitsConserved
  StacksFit
