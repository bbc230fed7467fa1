--------------------------- MODULE InventoryStore ---------------------------
(***************************************************************************)
(* One account's inventory in memory and in the database.                  *)
(*                                                                         *)
(* Every successful Inventory operation queues the slots it changed on the *)
(* shard of the account's playerId; one DB thread commits that shard's     *)
(* events in order.  A login is a query on whichever shard the round robin *)
(* yields.  The server may crash at any point: memory and queues are lost, *)
(* the rows stay.  A statement that fails is not retried.                  *)
(*                                                                         *)
(* An Item is its ItemTable id, its count and its equipped flag; a row of  *)
(* the Inventory table has the same three columns, and no row is an empty  *)
(* slot.  Left out: the heal a potion gives, its cooldown, and the packets *)
(* that acknowledge an operation.  An operation that is refused changes    *)
(* nothing and is no step.                                                 *)
(***************************************************************************)
EXTENDS Naturals, Sequences, FiniteSets, FiniteSetsExt, Functions

CONSTANTS
  Slots,        \* the valid slot indices
  ItemIds,      \* ids of the ItemTable
  Equipment,    \* the ids of type eEquipment; the others are consumables
  MaxStack,     \* ItemTableRow::maxStack
  AttackBonus,  \* ItemTableRow::attackBonus
  BaseAttack,   \* PLAYER_OFFENSIVE
  NoItem,       \* an empty slot, a missing row
  StartRows,    \* the inventories the account may have at first
  MaxCount,     \* bound: units in one field item or one discard
  MaxOps,       \* bound: operations on the inventory
  MaxFailures   \* bound: statements that fail

Item == [id: ItemIds, count: Nat \ {0}, equipped: BOOLEAN]

Inventory == [Slots -> Item \cup {NoItem}]

IsEquipped(item) == item # NoItem /\ item.equipped

OneEquipped(inv) ==
  \A s, r \in Slots : IsEquipped(inv[s]) /\ IsEquipped(inv[r]) => s = r

\* A stack within its limit; the flag on equipment only.
ItemFits(item) ==
  item # NoItem => /\ item.count <= MaxStack[item.id]
                   /\ item.equipped => item.id \in Equipment

AllFit(inv) == \A s \in Slots : ItemFits(inv[s])

\* MAX_INVENTORY_SLOTS slots; the first rows are those of an earlier run.
ASSUME StoreAssumption ==
  /\ Slots \subseteq Nat /\ IsFiniteSet(Slots)
  /\ Equipment \subseteq ItemIds
  /\ MaxStack \in [ItemIds -> Nat \ {0}]
  /\ AttackBonus \in [ItemIds -> Nat]
  /\ BaseAttack \in Nat
  /\ NoItem \notin Item
  /\ StartRows \subseteq Inventory
  /\ \A inv \in StartRows : OneEquipped(inv) /\ AllFit(inv)
  /\ MaxCount \in Nat /\ MaxOps \in Nat /\ MaxFailures \in Nat

VARIABLES
  phase,      \* the account: "offline", "asked", "loading" or "online"
  slots,      \* Inventory::_slots
  offensive,  \* Stat::m_offensive
  toSave,     \* slots the running operation has changed and not yet queued
  shard,      \* the account's events on its DB shard
  loading,    \* the rows on their way to LoadFromDB
  db,         \* the rows of the Inventory table
  ops,        \* operations done
  \* what the properties compare the above with
  units,      \* units of each item the player should have
  left,       \* the inventory the player left the world with
  mark,       \* memory at the time the last committed event was queued
  failures,   \* statements that have failed
  stale       \* a login has read the rows before they were up to date

memory == <<phase, slots, offensive, units>>
faults == <<failures, stale>>
vars   == <<memory, toSave, shard, loading, db, ops, left, mark, faults>>

\* Memory at some time; the slots in `open` had changed by then and their
\* saves were still to be queued.
Snapshot(inv, open) == [inv |-> inv, open |-> open]
Snapshots == [inv: Inventory, open: SUBSET Slots]

\* A save event writes the contents that its slots had when it was queued.
Event == [saves: SUBSET Slots, at: Snapshots]

NoInventory == [s \in Slots |-> NoItem]

StoreOK ==
  /\ phase \in {"offline", "asked", "loading", "online"}
  /\ slots \in Inventory
  /\ toSave \in SUBSET Slots
  /\ shard \in Seq(Event)
  /\ loading \in Inventory
  /\ db \in Inventory
  /\ left \in Inventory
  /\ mark \in Snapshots
  /\ failures \in Nat
  /\ stale \in BOOLEAN

TypeOK ==
  /\ StoreOK
  /\ offensive \in Nat
  /\ units \in [ItemIds -> Nat]
  /\ ops \in 0..MaxOps
  /\ failures <= MaxFailures

-----------------------------------------------------------------------------
\* Units of an item in an inventory.
UnitsIn(inv, id) ==
  [s \in Slots |-> IF inv[s] # NoItem /\ inv[s].id = id THEN inv[s].count ELSE 0]

Total(inv, id) == SumFunction(UnitsIn(inv, id))

Totals(inv) == [id \in ItemIds |-> Total(inv, id)]

\* RecomputeOffensive: the first equipped item found counts.
Offensive(inv) ==
  {BaseAttack + AttackBonus[inv[s].id] : s \in {r \in Slots : IsEquipped(inv[r])}}
    \cup (IF \E s \in Slots : IsEquipped(inv[s]) THEN {} ELSE {BaseAttack})

SaveEvent(S, inv, open) == [saves |-> S, at |-> Snapshot(inv, open)]

\* SaveSlotToDB: the current contents of the slot, or its deletion.
QueueSave(s, inv, open) == shard' = Append(shard, SaveEvent({s}, inv, open))

\* Mutant: one event per slot.
QueueTwo_Separately(s, r, inv) ==
  shard' = shard \o <<SaveEvent({s}, inv, {}), SaveEvent({r}, inv, {})>>

\* SaveTwoSlotsToDB: one event, one transaction.
QueueTwo(s, r, inv) == shard' = Append(shard, SaveEvent({s, r}, inv, {}))

\* The zone thread is free to run an operation for a player in the world.
Ready == phase = "online" /\ toSave = {} /\ ops < MaxOps

Operation ==
  /\ Ready
  /\ ops' = ops + 1
  /\ UNCHANGED <<phase, loading, db, left, mark, faults>>

Put(inv, s, item) == [inv EXCEPT ![s] = item]

\* Mutant: a slot that is used up is not erased.
WithCount_NotErased(item, n) == [item EXCEPT !.count = n]

WithCount(item, n) == IF n = 0 THEN NoItem ELSE [item EXCEPT !.count = n]

\* ItemTable::Find succeeds for every id here; a fresh item is unequipped.
MakeNewItem(id, n) == [id |-> id, count |-> n, equipped |-> FALSE]

-----------------------------------------------------------------------------
\* TryAddItem.

\* Mutant: a full stack is an off-by-one away.
Room_OneTooMany(s, id) ==
  IF slots[s] = NoItem THEN MaxStack[id]
  ELSE IF slots[s].id = id /\ MaxStack[id] > 1
       THEN MaxStack[id] - slots[s].count + 1 ELSE 0

\* Units a slot can take: an empty one, or a stack of the same item.
Room(s, id) ==
  IF slots[s] = NoItem THEN MaxStack[id]
  ELSE IF slots[s].id = id /\ slots[s].count < MaxStack[id]
       THEN MaxStack[id] - slots[s].count ELSE 0

EmptySlots == {s \in Slots : slots[s] = NoItem}
Stacks(id) == {s \in Slots \ EmptySlots : Room(s, id) > 0}

\* The ways the units may be spread: stacks first, in the order the hash
\* map yields them, which may be any, then the empty slots from the lowest
\* index on; a slot is filled up before the next is touched.
InFillOrder(fill, id) ==
  LET full == {s \in Slots : fill[s] = Room(s, id)}
      used == {s \in Slots : fill[s] > 0} IN
  /\ Cardinality((used \cap Stacks(id)) \ full) <= 1
  /\ used \cap EmptySlots # {} => Stacks(id) \subseteq full
  /\ \A s \in used \cap EmptySlots : {r \in EmptySlots : r < s} \subseteq full

\* Mutant: the dry run is missing, what does not fit is lost.
Placements_NoDryRun(id, n) ==
  {fill \in [Slots -> 0..n] :
     /\ \A s \in Slots : fill[s] <= Room(s, id)
     /\ SumFunction(fill) = Min({n, SumFunction([s \in Slots |-> Room(s, id)])})
     /\ InFillOrder(fill, id)}

\* All units are placed, or (the dry run) none.
Placements(id, n) ==
  {fill \in [Slots -> 0..n] :
     /\ \A s \in Slots : fill[s] <= Room(s, id)
     /\ SumFunction(fill) = n
     /\ InFillOrder(fill, id)}

Filled(id, fill) ==
  [s \in Slots |->
     IF fill[s] = 0 THEN slots[s]
     ELSE IF slots[s] = NoItem THEN MakeNewItem(id, fill[s])
     ELSE [slots[s] EXCEPT !.count = @ + fill[s]]]

\* The changed slots are queued afterwards, one by one.
TryAddItem(id, n) ==
  /\ Operation
  /\ n > 0
  /\ \E fill \in Placements(id, n) :
       /\ slots' = Filled(id, fill)
       /\ toSave' = {s \in Slots : fill[s] > 0}
  /\ units' = [units EXCEPT ![id] = @ + n]
  /\ UNCHANGED <<offensive, shard>>

\* The loop over touchedSlots; their order is that of the fill above.
SaveTouchedSlot(s) ==
  /\ s \in toSave
  /\ toSave' = toSave \ {s}
  /\ QueueSave(s, slots, toSave')
  /\ UNCHANGED <<memory, loading, db, ops, left, mark, faults>>

-----------------------------------------------------------------------------
\* The other operations of Inventory.

\* Mutant: equipment is thrown away without a new look at the attack power.
TryExtractItem_NoRecompute(s, n) ==
  /\ Operation
  /\ n > 0 /\ slots[s] # NoItem /\ slots[s].count >= n
  /\ slots' = Put(slots, s, WithCount(slots[s], slots[s].count - n))
  /\ UNCHANGED <<toSave, offensive>>
  /\ units' = [units EXCEPT ![slots[s].id] = @ - n]
  /\ QueueSave(s, slots', {})

\* The item leaves the inventory for the field.
TryExtractItem(s, n) ==
  /\ Operation
  /\ n > 0 /\ slots[s] # NoItem /\ slots[s].count >= n
  /\ slots' = Put(slots, s, WithCount(slots[s], slots[s].count - n))
  /\ IF IsEquipped(slots[s]) /\ slots[s].count = n
     THEN offensive' \in Offensive(slots') ELSE UNCHANGED offensive
  /\ units' = [units EXCEPT ![slots[s].id] = @ - n]
  /\ QueueSave(s, slots', {})
  /\ UNCHANGED toSave

\* Mutant: the slot that lost its flag is not saved.
TryEquip_SavesOne(s) ==
  /\ Operation
  /\ slots[s] # NoItem /\ slots[s].id \in Equipment /\ ~slots[s].equipped
  /\ slots' = [r \in Slots |->
                 IF r = s THEN [slots[r] EXCEPT !.equipped = TRUE]
                 ELSE IF IsEquipped(slots[r])
                      THEN [slots[r] EXCEPT !.equipped = FALSE] ELSE slots[r]]
  /\ QueueSave(s, slots', {})
  /\ offensive' \in Offensive(slots')
  /\ UNCHANGED <<toSave, units>>

\* Equipping takes off what was equipped before.
TryEquip(s) ==
  /\ Operation
  /\ slots[s] # NoItem /\ slots[s].id \in Equipment /\ ~slots[s].equipped
  /\ LET previous == {r \in Slots \ {s} : IsEquipped(slots[r])} IN
     \/ /\ previous = {}
        /\ slots' = [slots EXCEPT ![s].equipped = TRUE]
        /\ QueueSave(s, slots', {})
     \/ \E r \in previous :
          /\ slots' = [slots EXCEPT ![s].equipped = TRUE, ![r].equipped = FALSE]
          /\ QueueTwo(r, s, slots')
  /\ offensive' \in Offensive(slots')
  /\ UNCHANGED <<toSave, units>>

\* Mutant: the slot is not saved.
TryUnequip_NotSaved(s) ==
  /\ Operation
  /\ IsEquipped(slots[s])
  /\ slots' = [slots EXCEPT ![s].equipped = FALSE]
  /\ offensive' \in Offensive(slots')
  /\ UNCHANGED <<toSave, units, shard>>

TryUnequip(s) ==
  /\ Operation
  /\ IsEquipped(slots[s])
  /\ slots' = [slots EXCEPT ![s].equipped = FALSE]
  /\ offensive' \in Offensive(slots')
  /\ QueueSave(s, slots', {})
  /\ UNCHANGED <<toSave, units>>

TryUseItem(s) ==
  /\ Operation
  /\ slots[s] # NoItem /\ slots[s].id \notin Equipment
  /\ slots' = Put(slots, s, WithCount(slots[s], slots[s].count - 1))
  /\ units' = [units EXCEPT ![slots[s].id] = @ - 1]
  /\ QueueSave(s, slots', {})
  /\ UNCHANGED <<toSave, offensive>>

TrySwapSlots(s, r) ==
  /\ Operation
  /\ s # r /\ (slots[s] # NoItem \/ slots[r] # NoItem)
  /\ slots' = [slots EXCEPT ![s] = slots[r], ![r] = slots[s]]
  /\ QueueTwo(s, r, slots')
  /\ UNCHANGED <<toSave, offensive, units>>

-----------------------------------------------------------------------------
\* The DB thread of the account's shard.

\* The rows after an event: upserts and deletes of its slots.
Apply(event, rows) ==
  [s \in Slots |-> IF s \in event.saves THEN event.at.inv[s] ELSE rows[s]]

\* Mutant: the events are spread over the shards, any may commit first.
CommitEvent_AnyOrder ==
  \E i \in DOMAIN shard :
    /\ db' = Apply(shard[i], db)
    /\ mark' = shard[i].at
    /\ shard' = SubSeq(shard, 1, i - 1) \o SubSeq(shard, i + 1, Len(shard))
    /\ UNCHANGED <<memory, toSave, loading, ops, left, faults>>

\* ProcessEvent: one stored procedure, one transaction.
CommitEvent ==
  /\ shard # <<>>
  /\ db' = Apply(Head(shard), db)
  /\ mark' = Head(shard).at
  /\ shard' = Tail(shard)
  /\ UNCHANGED <<memory, toSave, loading, ops, left, faults>>

StatementFails == failures < MaxFailures /\ failures' = failures + 1

\* No connection, or Execute fails: the result is ignored.
CommitFails ==
  /\ shard # <<>>
  /\ StatementFails
  /\ shard' = Tail(shard)
  /\ UNCHANGED <<memory, toSave, loading, db, ops, left, mark, stale>>

-----------------------------------------------------------------------------
\* Sessions of the account.

RequestLogin ==
  /\ phase = "offline"
  /\ phase' = "asked"
  /\ UNCHANGED <<slots, offensive, units, toSave, shard, loading, db, ops,
                 left, mark, faults>>

\* ExtractInventory on another shard: nothing orders it after the saves
\* still queued.
ExtractInventory ==
  /\ phase = "asked"
  /\ phase' = "loading"
  /\ loading' = db
  /\ stale' = (stale \/ shard # <<>>)
  /\ UNCHANGED <<slots, offensive, units, toSave, shard, db, ops, left, mark,
                 failures>>

\* The query or a fetch fails: the rows got so far are used all the same.
ExtractFails ==
  /\ phase = "asked"
  /\ phase' = "loading"
  /\ \E S \in SUBSET Slots :
       loading' = [s \in Slots |-> IF s \in S THEN db[s] ELSE NoItem]
  /\ StatementFails
  /\ UNCHANGED <<slots, offensive, units, toSave, shard, db, ops, left, mark,
                 stale>>

LoadFromDB ==
  /\ phase = "loading"
  /\ phase' = "online"
  /\ slots' = loading
  /\ offensive' \in Offensive(slots')
  /\ units' = Totals(slots')
  /\ loading' = NoInventory
  /\ left' = NoInventory
  /\ UNCHANGED <<toSave, shard, db, ops, mark, faults>>

\* The User is destroyed.
UserGone ==
  /\ phase' = "offline"
  /\ slots' = NoInventory
  /\ offensive' = BaseAttack
  /\ units' = Totals(NoInventory)
  /\ toSave' = {}

\* Disconnect deletes the User; its saves stay queued.
Disconnect ==
  /\ phase = "online" /\ toSave = {}
  /\ UserGone
  /\ left' = slots
  /\ UNCHANGED <<shard, loading, db, ops, mark, faults>>

\* The process dies: what is not committed is lost.
ServerCrash ==
  /\ UserGone
  /\ shard' = <<>>
  /\ loading' = NoInventory
  /\ left' = db
  /\ mark' = Snapshot(db, {})
  /\ UNCHANGED <<db, ops, faults>>

-----------------------------------------------------------------------------
Init ==
  /\ phase = "offline"
  /\ slots = NoInventory
  /\ offensive = BaseAttack
  /\ toSave = {}
  /\ shard = <<>>
  /\ loading = NoInventory
  /\ db \in StartRows
  /\ ops = 0
  /\ units = Totals(NoInventory)
  /\ left = db
  /\ mark = Snapshot(db, {})
  /\ failures = 0
  /\ stale = FALSE

InventoryStep ==
  \/ \E id \in ItemIds : \E n \in 1..MaxCount : TryAddItem(id, n)
  \/ \E s \in Slots :
       \/ SaveTouchedSlot(s)
       \/ \E n \in 1..MaxCount : TryExtractItem(s, n)
       \/ TryEquip(s) \/ TryUnequip(s) \/ TryUseItem(s)
       \/ \E r \in Slots : TrySwapSlots(s, r)

Next ==
  \/ InventoryStep
  \/ CommitEvent \/ CommitFails
  \/ RequestLogin \/ ExtractInventory \/ ExtractFails \/ LoadFromDB
  \/ Disconnect \/ ServerCrash

Spec == Init /\ [][Next]_vars

-----------------------------------------------------------------------------
(***************************************************************************)
(* What the code guarantees as long as no statement fails and no login     *)
(* overtakes the saves of the session before it.                           *)
(***************************************************************************)

Sound == failures = 0 /\ ~stale

\* Whatever is committed when the server dies, the rows are an inventory
\* the player really had, except for slots of an unfinished TryAddItem: an
\* exchange of two slots is never half done (SaveTwoInventorySlots), and
\* saves never commit out of order (one shard per playerId).
RowsWereMemory ==
  Sound => \A s \in Slots \ mark.open : db[s] = mark.inv[s]

\* Once the queue has drained the rows are the inventory: every operation
\* has saved every slot it changed.
RowsCatchUp ==
  Sound /\ phase = "online" /\ shard = <<>> /\ toSave = {} => db = slots

\* Neither the inventory nor, at any point where the server may die, the
\* table has two equipped items.
NeverTwoEquipped ==
  Sound => OneEquipped(db) /\ (phase = "online" => OneEquipped(slots))

\* The attack power is that of the equipped item after any sequence of
\* operations, a login included.
OffensiveIsCurrent ==
  phase = "online" => offensive \in Offensive(slots)

\* No sequence of operations makes or loses a unit: a refused TryAddItem
\* changes nothing and an accepted one places every unit.
UnitsConserved ==
  phase = "online" => units = Totals(slots)

\* Stacks stay within ItemTableRow::maxStack, and only equipment is ever
\* equipped (the cast to EquipmentItem).
StacksFit == phase = "online" => AllFit(slots)

-----------------------------------------------------------------------------
\* What a comment claims without these conditions.

\* A login has no other event to be ordered with: it finds the inventory
\* the player left with.
LoginFindsLatest == phase = "loading" /\ failures = 0 => loading = left

-----------------------------------------------------------------------------
(***************************************************************************)
(* The inductive invariant: the rows, the snapshots of the queued events   *)
(* and memory form a chain in which every link changes only the slots its  *)
(* event saves, and the equipped flags only together.                      *)
(***************************************************************************)

\* u is followed by v, and an event that saves the slots S leads there.
Follows(u, v, S) ==
  \A s \in Slots \ S :
    /\ IsEquipped(u.inv[s]) <=> IsEquipped(v.inv[s])
    /\ s \notin v.open => s \notin u.open /\ u.inv[s] = v.inv[s]

Before(i) == IF i = 1 THEN mark ELSE shard[i - 1].at
Latest    == IF shard = <<>> THEN mark ELSE shard[Len(shard)].at

Link(i) ==
  /\ Follows(Before(i), shard[i].at, shard[i].saves)
  /\ OneEquipped(shard[i].at.inv)

Chain ==
  /\ Follows(Snapshot(db, {}), mark, {})
  /\ OneEquipped(mark.inv)
  /\ \A i \in DOMAIN shard : Link(i)
  /\ phase = "online" => Follows(Latest, Snapshot(slots, toSave), {})
  /\ phase # "online" => Latest.open = {} /\ toSave = {}
  /\ phase = "loading" => shard = <<>> /\ loading = db

StoreInv == StoreOK /\ (Sound => Chain)

\* What is in the slots, whatever has failed: every place an item can come
\* from holds items that fit, and the attack power and the units are those
\* of the slots, of a player who is not in the world too.
ContentsInv ==
  /\ AllFit(slots) /\ AllFit(loading) /\ AllFit(db)
  /\ \A i \in DOMAIN shard : AllFit(shard[i].at.inv)
  /\ offensive \in Offensive(slots)
  /\ units = Totals(slots)
=============================================================================
