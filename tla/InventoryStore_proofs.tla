------------------------ MODULE InventoryStore_proofs ------------------------
(***************************************************************************)
(* Proofs about InventoryStore, for every set of slots and items and every *)
(* number of operations, crashes and logins.                               *)
(***************************************************************************)
EXTENDS InventoryStore, FiniteSums_proofs

\* The types of the parts: an item changed by an operation is an item.
LEMMA ItemTypes ==
  /\ \A inv \in Inventory, s \in Slots : inv[s] \in Item \cup {NoItem}
  /\ \A item \in Item : \A n \in Nat :
       /\ [item EXCEPT !.count = item.count + n] \in Item
       /\ n <= item.count => WithCount(item, item.count - n) \in Item \cup {NoItem}
  /\ \A item \in Item, b \in BOOLEAN : [item EXCEPT !.equipped = b] \in Item
  /\ \A id \in ItemIds, n \in Nat \ {0} : MakeNewItem(id, n) \in Item
  /\ NoItem \notin Item
BY StoreAssumption DEF Inventory, Item, WithCount, MakeNewItem

\* The empty inventory, a snapshot and a save event have their types.
LEMMA StoreTypes ==
  /\ NoInventory \in Inventory
  /\ \A inv \in Inventory, open \in SUBSET Slots : Snapshot(inv, open) \in Snapshots
  /\ \A S \in SUBSET Slots, inv \in Inventory, open \in SUBSET Slots :
       SaveEvent(S, inv, open) \in Event
  /\ \A event \in Event, rows \in Inventory : Apply(event, rows) \in Inventory
BY DEF NoInventory, Inventory, Snapshot, Snapshots, SaveEvent, Event, Apply

\* Queueing an event keeps the links of the chain and adds one at its end.
LEMMA AppendLemma ==
  ASSUME StoreOK, NEW e \in Event, shard' = Append(shard, e),
         mark' = mark, db' = db,
         Chain, Follows(Latest, e.at, e.saves), OneEquipped(e.at.inv)
  PROVE  /\ shard' \in Seq(Event)
         /\ Follows(Snapshot(db', {}), mark', {})
         /\ OneEquipped(mark'.inv)
         /\ \A i \in DOMAIN shard' : Link(i)'
         /\ Latest' = e.at
<1>1. shard \in Seq(Event) /\ Len(shard) \in Nat BY DEF StoreOK
<1>2. /\ shard' \in Seq(Event)
      /\ DOMAIN shard' = 1..(Len(shard) + 1)
      /\ Len(shard') = Len(shard) + 1
      /\ \A i \in 1..Len(shard) : shard'[i] = shard[i]
      /\ shard'[Len(shard) + 1] = e
  BY <1>1
<1>3. Follows(Snapshot(db', {}), mark', {}) /\ OneEquipped(mark'.inv)
  BY DEF Chain
<1>4. Latest' = e.at BY <1>1, <1>2 DEF Latest
<1>5. ASSUME NEW i \in DOMAIN shard' PROVE Link(i)'
  <2>1. CASE i \in 1..Len(shard)
    <3>1. shard'[i] = shard[i] BY <1>2, <2>1
    <3>2. Before(i)' = Before(i) BY <1>1, <1>2, <2>1 DEF Before
    <3>3. Link(i) BY <1>1, <2>1 DEF Chain
    <3> QED BY <3>1, <3>2, <3>3 DEF Link, Follows, OneEquipped
  <2>2. CASE i = Len(shard) + 1
    <3>1. shard'[i] = e BY <1>2, <2>2
    <3>2. Before(i)' = Latest BY <1>1, <1>2, <2>2 DEF Before, Latest
    <3> QED BY <3>1, <3>2 DEF Link, Follows, OneEquipped
  <2> QED BY <1>2, <2>1, <2>2
<1> QED BY <1>2, <1>3, <1>4, <1>5

\* A memory snapshot whose equipped flags are those of an earlier one has
\* as many equipped items.
LEMMA OneEquippedFollows ==
  ASSUME NEW u, NEW v, Follows(u, v, {}), OneEquipped(u.inv)
  PROVE  OneEquipped(v.inv)
BY DEF Follows, OneEquipped

\* In the world, the newest snapshot has at most one equipped item.
LEMMA LatestEquipped ==
  ASSUME StoreOK, Chain
  PROVE  OneEquipped(Latest.inv)
<1>1. CASE shard = <<>> BY <1>1 DEF Latest, Chain
<1>2. CASE shard # <<>>
  <2>1. shard \in Seq(Event) BY DEF StoreOK
  <2>2. Len(shard) \in DOMAIN shard BY <1>2, <2>1
  <2> QED BY <1>2, <2>2 DEF Latest, Chain, Link
<1> QED BY <1>1, <1>2

\* An operation that changes only the slots S, keeps at most one equipped
\* item and queues one event for S preserves the invariant.
LEMMA OperationLemma ==
  ASSUME StoreInv, Operation, NEW S \in SUBSET Slots,
         slots' \in Inventory, toSave' = toSave,
         shard' = Append(shard, SaveEvent(S, slots', {})),
         \A s \in Slots \ S : slots'[s] = slots[s],
         OneEquipped(slots) => OneEquipped(slots')
  PROVE  StoreInv'
<1> DEFINE e == SaveEvent(S, slots', {})
<1>0. /\ phase = "online" /\ phase' = "online" /\ toSave = {}
      /\ UNCHANGED <<loading, db, left, mark, failures, stale>>
  BY DEF Operation, Ready, faults
<1>1. e \in Event BY StoreTypes
<1>2. e.saves = S /\ e.at = Snapshot(slots', {}) BY DEF SaveEvent
<1>3. StoreOK'
  <2>1. shard \in Seq(Event) BY DEF StoreInv, StoreOK
  <2>2. shard' \in Seq(Event) BY <1>1, <2>1
  <2> QED BY <1>0, <2>2 DEF StoreInv, StoreOK
<1>4. ASSUME Sound' PROVE Chain'
  <2>1. StoreOK /\ Chain BY <1>0, <1>4 DEF Sound, StoreInv
  <2>2. Follows(Latest, Snapshot(slots, toSave), {}) BY <1>0, <2>1 DEF Chain
  <2>3. OneEquipped(slots)
    BY <2>1, <2>2, LatestEquipped, OneEquippedFollows DEF Snapshot
  <2>4. Follows(Latest, e.at, e.saves)
    BY <1>0, <1>2, <2>2 DEF Follows, Snapshot
  <2>5. OneEquipped(e.at.inv) BY <1>2, <2>3 DEF Snapshot
  <2>6. /\ Follows(Snapshot(db', {}), mark', {})
        /\ OneEquipped(mark'.inv)
        /\ \A i \in DOMAIN shard' : Link(i)'
        /\ Latest' = e.at
    BY <1>0, <1>1, <2>1, <2>4, <2>5, AppendLemma
  <2>7. Follows(Latest', Snapshot(slots', toSave'), {})
    BY <1>0, <1>2, <2>6 DEF Follows, Snapshot
  <2> QED BY <1>0, <2>6, <2>7 DEF Chain
<1> QED BY <1>3, <1>4 DEF StoreInv

-----------------------------------------------------------------------------
\* One lemma per action: it preserves the invariant.

\* TryAddItem changes no equipped flag and remembers what it has to save.
LEMMA AddStep ==
  ASSUME StoreInv, NEW id \in ItemIds, NEW n \in 1..MaxCount, TryAddItem(id, n)
  PROVE  StoreInv'
<1>0. /\ phase = "online" /\ phase' = "online" /\ toSave = {}
      /\ UNCHANGED <<loading, db, left, mark, failures, stale, shard>>
  BY DEF TryAddItem, Operation, Ready, faults
<1>1. PICK fill \in [Slots -> 0..n] :
        slots' = Filled(id, fill) /\ toSave' = {s \in Slots : fill[s] > 0}
  BY DEF TryAddItem, Placements
<1>2. n \in Nat BY StoreAssumption
<1>3. slots \in Inventory BY DEF StoreInv, StoreOK
<1>4. ASSUME NEW s \in Slots
      PROVE  /\ slots'[s] \in Item \cup {NoItem}
             /\ IsEquipped(slots[s]) <=> IsEquipped(slots'[s])
             /\ s \notin toSave' => slots'[s] = slots[s]
  <2>1. fill[s] \in Nat BY <1>1, <1>2
  <2>2. slots[s] \in Item \cup {NoItem} BY <1>3, ItemTypes
  <2>3. CASE fill[s] = 0 BY <1>1, <2>2, <2>3 DEF Filled
  <2>4. CASE fill[s] # 0 /\ slots[s] = NoItem
    <3>1. slots'[s] = MakeNewItem(id, fill[s]) BY <1>1, <2>4 DEF Filled
    <3>2. slots'[s] \in Item BY <2>1, <2>4, <3>1, ItemTypes
    <3> QED BY <1>1, <2>1, <2>4, <3>1, <3>2 DEF IsEquipped, MakeNewItem
  <2>5. CASE fill[s] # 0 /\ slots[s] # NoItem
    <3>1. slots'[s] = [slots[s] EXCEPT !.count = slots[s].count + fill[s]]
      BY <1>1, <2>5 DEF Filled
    <3>2. slots[s] \in Item BY <2>2, <2>5
    <3>3. slots'[s] \in Item BY <2>1, <3>1, <3>2, ItemTypes
    <3>4. slots'[s].equipped = slots[s].equipped BY <3>1, <3>2 DEF Item
    <3> QED BY <1>1, <2>1, <2>5, <3>3, <3>4, ItemTypes DEF IsEquipped
  <2> QED BY <2>3, <2>4, <2>5
<1>5. slots' \in Inventory BY <1>1, <1>4 DEF Filled, Inventory
<1>6. StoreOK' BY <1>0, <1>1, <1>5 DEF StoreInv, StoreOK
<1>7. ASSUME Sound' PROVE Chain'
  <2>1. Chain BY <1>0, <1>7 DEF Sound, StoreInv
  <2>2. Follows(Latest, Snapshot(slots, toSave), {}) BY <1>0, <2>1 DEF Chain
  <2>3. Latest' = Latest BY <1>0 DEF Latest
  <2>4. Follows(Latest', Snapshot(slots', toSave'), {})
    BY <1>0, <1>4, <2>2, <2>3 DEF Follows, Snapshot
  <2>5. \A i \in DOMAIN shard : Link(i)' <=> Link(i) BY <1>0 DEF Link, Before
  <2> QED BY <1>0, <2>1, <2>4, <2>5 DEF Chain
<1> QED BY <1>6, <1>7 DEF StoreInv

\* The loop over the touched slots queues memory as it is.
LEMMA SaveTouchedStep ==
  ASSUME StoreInv, NEW s \in Slots, SaveTouchedSlot(s)
  PROVE  StoreInv'
<1> DEFINE e == SaveEvent({s}, slots, toSave')
<1>0. /\ UNCHANGED <<phase, slots, loading, db, left, mark, failures, stale>>
      /\ s \in toSave /\ toSave' = toSave \ {s}
      /\ shard' = Append(shard, e)
  BY DEF SaveTouchedSlot, memory, faults, QueueSave
<1>1. toSave' \in SUBSET Slots BY <1>0 DEF StoreInv, StoreOK
<1>2. e \in Event BY <1>0, <1>1, StoreTypes DEF StoreInv, StoreOK
<1>3. e.saves = {s} /\ e.at = Snapshot(slots, toSave') BY DEF SaveEvent
<1>4. StoreOK'
  <2>1. shard \in Seq(Event) BY DEF StoreInv, StoreOK
  <2>2. shard' \in Seq(Event) BY <1>0, <1>2, <2>1
  <2> QED BY <1>0, <1>1, <2>2 DEF StoreInv, StoreOK
<1>5. ASSUME Sound' PROVE Chain'
  <2>1. StoreOK /\ Chain BY <1>0, <1>5 DEF Sound, StoreInv
  <2>2. phase = "online" BY <1>0, <2>1 DEF Chain
  <2>3. Follows(Latest, Snapshot(slots, toSave), {}) BY <2>1, <2>2 DEF Chain
  <2>4. OneEquipped(slots)
    BY <2>1, <2>3, LatestEquipped, OneEquippedFollows DEF Snapshot
  <2>5. Follows(Latest, e.at, e.saves)
    <3>1. SUFFICES Follows(Latest, Snapshot(slots, toSave'), {s})
      BY <1>3
    <3>2. SUFFICES ASSUME NEW r \in Slots \ {s}
                   PROVE  /\ IsEquipped(Latest.inv[r]) <=> IsEquipped(slots[r])
                          /\ r \notin toSave' =>
                               r \notin Latest.open /\ Latest.inv[r] = slots[r]
      BY DEF Follows, Snapshot
    <3>3. r \notin toSave' => r \notin toSave BY <1>0
    <3> QED BY <2>3, <3>3 DEF Follows, Snapshot
  <2>6. OneEquipped(e.at.inv) BY <1>3, <2>4 DEF Snapshot
  <2>7. /\ Follows(Snapshot(db', {}), mark', {})
        /\ OneEquipped(mark'.inv)
        /\ \A i \in DOMAIN shard' : Link(i)'
        /\ Latest' = e.at
    BY <1>0, <1>2, <2>1, <2>5, <2>6, AppendLemma
  <2>8. Follows(Latest', Snapshot(slots', toSave'), {})
    BY <1>0, <1>3, <2>7 DEF Follows, Snapshot
  <2> QED BY <1>0, <2>2, <2>7, <2>8 DEF Chain
<1> QED BY <1>4, <1>5 DEF StoreInv

\* TryExtractItem and TryUseItem: the slot keeps its flag or loses its item.
LEMMA TakeLemma ==
  ASSUME StoreInv, Operation, NEW s \in Slots, NEW n \in Nat,
         slots[s] # NoItem, n <= slots[s].count,
         slots' = Put(slots, s, WithCount(slots[s], slots[s].count - n)),
         QueueSave(s, slots', {}), toSave' = toSave
  PROVE  StoreInv'
<1>1. slots \in Inventory BY DEF StoreInv, StoreOK
<1>2. slots[s] \in Item BY <1>1, ItemTypes
<1> DEFINE item == WithCount(slots[s], slots[s].count - n)
<1>3. item \in Item \cup {NoItem} BY <1>2, ItemTypes
<1>4. /\ slots' \in Inventory /\ slots'[s] = item
      /\ \A r \in Slots \ {s} : slots'[r] = slots[r]
  BY <1>1, <1>3 DEF Put, Inventory
<1>5. IsEquipped(item) => IsEquipped(slots[s])
  BY <1>2 DEF IsEquipped, WithCount, Item
<1>6. OneEquipped(slots) => OneEquipped(slots')
  BY <1>4, <1>5 DEF OneEquipped
<1>7. shard' = Append(shard, SaveEvent({s}, slots', {})) BY DEF QueueSave
<1> QED BY <1>4, <1>6, <1>7, OperationLemma

\* TryExtractItem preserves the invariant.
LEMMA ExtractStep ==
  ASSUME StoreInv, NEW s \in Slots, NEW n \in 1..MaxCount, TryExtractItem(s, n)
  PROVE  StoreInv'
<1>1. n \in Nat BY StoreAssumption
<1>2. slots[s] # NoItem /\ n <= slots[s].count
  <2>1. slots[s] \in Item
    BY ItemTypes DEF TryExtractItem, StoreInv, StoreOK
  <2> QED BY <1>1, <2>1 DEF TryExtractItem, Item
<1> QED BY <1>1, <1>2, TakeLemma DEF TryExtractItem

\* TryUseItem preserves the invariant.
LEMMA UseStep ==
  ASSUME StoreInv, NEW s \in Slots, TryUseItem(s)
  PROVE  StoreInv'
<1>1. slots[s] # NoItem /\ 1 <= slots[s].count
  <2>1. slots[s] \in Item
    BY ItemTypes DEF TryUseItem, StoreInv, StoreOK
  <2> QED BY <2>1 DEF TryUseItem, Item
<1> QED BY <1>1, TakeLemma DEF TryUseItem

\* TryEquip: the flag moves from the previous slot, if there is one, to the
\* new one, and one event saves both.
LEMMA EquipStep ==
  ASSUME StoreInv, NEW s \in Slots, TryEquip(s)
  PROVE  StoreInv'
<1>1. slots \in Inventory BY DEF StoreInv, StoreOK
<1>2. slots[s] \in Item BY <1>1, ItemTypes DEF TryEquip
<1>3. CASE /\ {r \in Slots \ {s} : IsEquipped(slots[r])} = {}
           /\ slots' = [slots EXCEPT ![s].equipped = TRUE]
           /\ QueueSave(s, slots', {})
  <2>1. /\ slots' \in Inventory
        /\ \A r \in Slots \ {s} : slots'[r] = slots[r]
    BY <1>1, <1>2, <1>3 DEF Inventory, Item
  <2>2. OneEquipped(slots')
    BY <1>3, <2>1 DEF OneEquipped
  <2>3. shard' = Append(shard, SaveEvent({s}, slots', {}))
    BY <1>3 DEF QueueSave
  <2> QED BY <2>1, <2>2, <2>3, OperationLemma DEF TryEquip
<1>4. ASSUME NEW r \in Slots \ {s}, IsEquipped(slots[r]),
             slots' = [slots EXCEPT ![s].equipped = TRUE, ![r].equipped = FALSE],
             QueueTwo(r, s, slots')
      PROVE  StoreInv'
  <2>1. slots[r] \in Item BY <1>1, <1>4, ItemTypes DEF IsEquipped
  <2>2. /\ slots' \in Inventory
        /\ slots'[r].equipped = FALSE
        /\ \A q \in Slots \ {r, s} : slots'[q] = slots[q]
    BY <1>1, <1>2, <1>4, <2>1 DEF Inventory, Item
  <2>3. OneEquipped(slots) => OneEquipped(slots')
    BY <1>4, <2>2 DEF OneEquipped, IsEquipped
  <2>4. shard' = Append(shard, SaveEvent({r, s}, slots', {}))
    BY <1>4 DEF QueueTwo
  <2> QED BY <2>2, <2>3, <2>4, OperationLemma DEF TryEquip
<1> QED BY <1>3, <1>4 DEF TryEquip

\* TryUnequip preserves the invariant.
LEMMA UnequipStep ==
  ASSUME StoreInv, NEW s \in Slots, TryUnequip(s)
  PROVE  StoreInv'
<1>1. slots \in Inventory BY DEF StoreInv, StoreOK
<1>2. slots[s] \in Item BY <1>1, ItemTypes DEF TryUnequip, IsEquipped
<1>3. /\ slots' \in Inventory
      /\ slots'[s].equipped = FALSE
      /\ \A q \in Slots \ {s} : slots'[q] = slots[q]
  BY <1>1, <1>2 DEF Inventory, Item, TryUnequip
<1>4. OneEquipped(slots) => OneEquipped(slots')
  BY <1>3 DEF OneEquipped, IsEquipped
<1>5. shard' = Append(shard, SaveEvent({s}, slots', {}))
  BY DEF QueueSave, TryUnequip
<1> QED BY <1>3, <1>4, <1>5, OperationLemma DEF TryUnequip

\* TrySwapSlots preserves the invariant.
LEMMA SwapStep ==
  ASSUME StoreInv, NEW s \in Slots, NEW r \in Slots, TrySwapSlots(s, r)
  PROVE  StoreInv'
<1>1. slots \in Inventory BY DEF StoreInv, StoreOK
<1>2. /\ slots' \in Inventory
      /\ slots'[s] = slots[r] /\ slots'[r] = slots[s]
      /\ \A q \in Slots \ {s, r} : slots'[q] = slots[q]
  BY <1>1 DEF Inventory, TrySwapSlots
<1>3. OneEquipped(slots) => OneEquipped(slots')
  BY <1>2 DEF OneEquipped
<1>4. shard' = Append(shard, SaveEvent({s, r}, slots', {}))
  BY DEF QueueTwo, TrySwapSlots
<1> QED BY <1>2, <1>3, <1>4, OperationLemma DEF TrySwapSlots

\* Taking the first event off the queue.
LEMMA TailLemma ==
  ASSUME shard \in Seq(Event), shard # <<>>, shard' = Tail(shard)
  PROVE  /\ Head(shard) = shard[1] /\ shard[1] \in Event
         /\ 1 \in DOMAIN shard
         /\ shard' \in Seq(Event)
         /\ Len(shard') = Len(shard) - 1 /\ Len(shard) \in Nat \ {0}
         /\ \A i \in DOMAIN shard' : i + 1 \in DOMAIN shard /\ shard'[i] = shard[i + 1]
         /\ DOMAIN shard' = 1..Len(shard')
OBVIOUS

\* A commit moves the rows one link along the chain.
LEMMA CommitStep ==
  ASSUME StoreInv, CommitEvent
  PROVE  StoreInv'
<1>0. /\ UNCHANGED <<phase, slots, toSave, loading, left, failures, stale>>
      /\ shard # <<>> /\ shard' = Tail(shard)
  BY DEF CommitEvent, memory, faults
<1>1. shard \in Seq(Event) BY DEF StoreInv, StoreOK
<1> DEFINE e == shard[1]
<1>2. e \in Event /\ Head(shard) = e /\ shard' \in Seq(Event) /\ 1 \in DOMAIN shard
  BY <1>0, <1>1, TailLemma
<1>3. db' = Apply(e, db) /\ mark' = e.at BY <1>2 DEF CommitEvent
<1>4. StoreOK'
  <2>1. db' \in Inventory BY <1>2, <1>3, StoreTypes DEF StoreInv, StoreOK
  <2>2. mark' \in Snapshots BY <1>2, <1>3 DEF Event
  <2> QED BY <1>0, <1>2, <2>1, <2>2 DEF StoreInv, StoreOK
<1>5. ASSUME Sound' PROVE Chain'
  <2>1. StoreOK /\ Chain BY <1>0, <1>5 DEF Sound, StoreInv
  <2>2. Link(1) BY <1>2, <2>1 DEF Chain
  <2>3. Follows(mark, e.at, e.saves) /\ OneEquipped(e.at.inv)
    BY <2>2 DEF Link, Before
  <2>4. Follows(Snapshot(db, {}), mark, {}) BY <2>1 DEF Chain
  <2>5. Follows(Snapshot(db', {}), mark', {})
    <3>1. SUFFICES ASSUME NEW s \in Slots
                   PROVE  /\ IsEquipped(db'[s]) <=> IsEquipped(e.at.inv[s])
                          /\ s \notin e.at.open => db'[s] = e.at.inv[s]
      BY <1>3 DEF Follows, Snapshot
    <3>2. CASE s \in e.saves BY <1>3, <3>2 DEF Apply
    <3>3. CASE s \notin e.saves
      <4>1. db'[s] = db[s] BY <1>3, <3>3 DEF Apply
      <4>2. /\ IsEquipped(db[s]) <=> IsEquipped(mark.inv[s])
            /\ s \notin mark.open => db[s] = mark.inv[s]
        BY <2>4 DEF Follows, Snapshot
      <4>3. /\ IsEquipped(mark.inv[s]) <=> IsEquipped(e.at.inv[s])
            /\ s \notin e.at.open => s \notin mark.open /\ mark.inv[s] = e.at.inv[s]
        BY <2>3, <3>3 DEF Follows
      <4> QED BY <4>1, <4>2, <4>3
    <3> QED BY <3>2, <3>3
  <2>6. ASSUME NEW i \in DOMAIN shard' PROVE Link(i)'
    <3>1. i + 1 \in DOMAIN shard /\ shard'[i] = shard[i + 1] /\ i \in Nat \ {0}
      BY <1>0, <1>1, TailLemma
    <3>2. Before(i)' = Before(i + 1)
      <4>1. CASE i = 1 BY <1>3, <4>1 DEF Before
      <4>2. CASE i # 1
        <5>1. i - 1 \in DOMAIN shard' BY <1>0, <1>1, <3>1, <4>2, TailLemma
        <5>2. shard'[i - 1] = shard[i] BY <1>0, <1>1, <3>1, <5>1, TailLemma
        <5> QED BY <3>1, <4>2, <5>2 DEF Before
      <4> QED BY <4>1, <4>2
    <3>3. Link(i + 1) BY <2>1, <3>1 DEF Chain
    <3> QED BY <3>1, <3>2, <3>3 DEF Link, Follows, OneEquipped
  <2>7. Latest' = Latest
    <3>1. CASE shard' = <<>>
      <4>1. Len(shard) = 1 BY <1>0, <1>1, <3>1, TailLemma
      <4> QED BY <1>0, <1>3, <3>1, <4>1 DEF Latest
    <3>2. CASE shard' # <<>>
      <4>1. Len(shard') \in DOMAIN shard' BY <1>2, <3>2
      <4>2. shard'[Len(shard')] = shard[Len(shard)]
        BY <1>0, <1>1, <4>1, TailLemma
      <4> QED BY <1>0, <3>2, <4>2 DEF Latest
    <3> QED BY <3>1, <3>2
  <2> QED BY <1>0, <1>3, <2>1, <2>3, <2>5, <2>6, <2>7 DEF Chain
<1> QED BY <1>4, <1>5 DEF StoreInv

\* After a failed statement nothing is claimed but the types.
LEMMA FailSteps ==
  ASSUME StoreInv, CommitFails \/ ExtractFails
  PROVE  StoreInv'
<1>0. failures \in Nat /\ stale \in BOOLEAN BY DEF StoreInv, StoreOK
<1>1. CASE CommitFails
  <2>1. shard \in Seq(Event) BY DEF StoreInv, StoreOK
  <2>2. shard' \in Seq(Event) BY <1>1, <2>1, TailLemma DEF CommitFails
  <2>3. ~Sound' /\ failures' \in Nat
    BY <1>0, <1>1 DEF CommitFails, StatementFails, Sound
  <2> QED BY <1>0, <1>1, <2>2, <2>3 DEF CommitFails, StoreInv, StoreOK, memory
<1>2. CASE ExtractFails
  <2>1. loading' \in Inventory
    BY <1>2 DEF ExtractFails, StoreInv, StoreOK, Inventory
  <2>2. ~Sound' /\ failures' \in Nat
    BY <1>0, <1>2 DEF ExtractFails, StatementFails, Sound
  <2> QED BY <1>0, <1>2, <2>1, <2>2 DEF ExtractFails, StoreInv, StoreOK
<1> QED BY <1>1, <1>2

\* A login, a logout and a crash preserve the invariant.
LEMMA SessionSteps ==
  ASSUME StoreInv,
         RequestLogin \/ ExtractInventory \/ LoadFromDB \/ Disconnect \/ ServerCrash
  PROVE  StoreInv'
<1> USE StoreTypes
<1>1. CASE RequestLogin
  <2>1. /\ phase = "offline" /\ phase' = "asked"
        /\ UNCHANGED <<slots, toSave, shard, loading, db, left, mark, failures, stale>>
    BY <1>1 DEF RequestLogin, faults
  <2>2. StoreOK' BY <2>1 DEF StoreInv, StoreOK
  <2>3. Chain => Chain' BY <2>1 DEF Chain, Link, Before, Latest
  <2> QED BY <2>1, <2>2, <2>3 DEF StoreInv, Sound
<1>2. CASE ExtractInventory
  <2>1. /\ phase = "asked" /\ phase' = "loading" /\ loading' = db
        /\ stale' = (stale \/ shard # <<>>)
        /\ UNCHANGED <<slots, toSave, shard, db, left, mark, failures>>
    BY <1>2 DEF ExtractInventory
  <2>2. StoreOK' BY <2>1 DEF StoreInv, StoreOK
  <2>3. Sound' => Sound /\ shard = <<>> BY <2>1 DEF Sound, StoreInv, StoreOK
  <2>4. Chain /\ shard = <<>> => Chain' BY <2>1 DEF Chain, Link, Before, Latest
  <2> QED BY <2>2, <2>3, <2>4 DEF StoreInv
<1>3. CASE LoadFromDB
  <2>1. /\ phase = "loading" /\ phase' = "online" /\ slots' = loading
        /\ loading' = NoInventory /\ left' = NoInventory
        /\ UNCHANGED <<toSave, shard, db, mark, failures, stale>>
    BY <1>3 DEF LoadFromDB, faults
  <2>2. StoreOK' BY <2>1 DEF StoreInv, StoreOK
  <2>3. ASSUME Chain PROVE Chain'
    <3>1. /\ shard = <<>> /\ slots' = db /\ mark.open = {} /\ toSave = {}
          /\ Latest' = mark
      BY <2>1, <2>3 DEF Chain, Latest
    <3>2. Follows(mark, Snapshot(slots', {}), {})
      BY <2>3, <3>1 DEF Chain, Follows, Snapshot
    <3> QED BY <2>1, <2>3, <3>1, <3>2 DEF Chain
  <2> QED BY <2>1, <2>2, <2>3 DEF StoreInv, Sound
<1>4. CASE Disconnect
  <2>1. /\ phase = "online" /\ phase' = "offline" /\ toSave = {} /\ toSave' = {}
        /\ slots' = NoInventory /\ left' = slots
        /\ UNCHANGED <<shard, loading, db, mark, failures, stale>>
    BY <1>4 DEF Disconnect, UserGone, faults
  <2>2. StoreOK' BY <2>1 DEF StoreInv, StoreOK
  <2>3. ASSUME Chain PROVE Chain'
    <3>1. Latest' = Latest BY <2>1 DEF Latest
    <3>2. Latest \in Snapshots
      <4>1. CASE shard = <<>> BY <4>1 DEF Latest, StoreInv, StoreOK
      <4>2. CASE shard # <<>>
        <5>1. shard \in Seq(Event) BY DEF StoreInv, StoreOK
        <5>2. shard[Len(shard)] \in Event BY <4>2, <5>1
        <5> QED BY <4>2, <5>2 DEF Latest, Event
      <4> QED BY <4>1, <4>2
    <3>3. \A s \in Slots : s \notin Latest.open
      BY <2>1, <2>3 DEF Chain, Follows, Snapshot
    <3>4. Latest.open = {} BY <3>2, <3>3 DEF Snapshots
    <3>5. \A i \in DOMAIN shard : Link(i)' <=> Link(i) BY <2>1 DEF Link, Before
    <3> QED BY <2>1, <2>3, <3>1, <3>4, <3>5 DEF Chain
  <2> QED BY <2>1, <2>2, <2>3 DEF StoreInv, Sound
<1>5. CASE ServerCrash
  <2>1. /\ phase' = "offline" /\ toSave' = {} /\ shard' = <<>>
        /\ slots' = NoInventory /\ loading' = NoInventory /\ left' = db
        /\ mark' = Snapshot(db, {})
        /\ UNCHANGED <<db, failures, stale>>
    BY <1>5 DEF ServerCrash, UserGone, faults
  <2>2. StoreOK' BY <2>1 DEF StoreInv, StoreOK
  <2>3. ASSUME Chain PROVE Chain'
    <3>1. OneEquipped(db)
      BY <2>3 DEF Chain, Follows, Snapshot, OneEquipped
    <3>2. mark'.inv = db /\ mark'.open = {} /\ Latest' = mark'
      BY <2>1 DEF Snapshot, Latest
    <3>3. Follows(Snapshot(db', {}), mark', {})
      BY <2>1 DEF Follows, Snapshot
    <3> QED BY <2>1, <3>1, <3>2, <3>3 DEF Chain
  <2> QED BY <2>1, <2>2, <2>3 DEF StoreInv, Sound
<1> QED BY <1>1, <1>2, <1>3, <1>4, <1>5

-----------------------------------------------------------------------------
\* The inductive invariant holds of every reachable state: the rows, the
\* queued events and memory always form a chain.
THEOREM StoreCorrect == Spec => []StoreInv
<1>1. Init => StoreInv
  <2> SUFFICES ASSUME Init PROVE StoreInv OBVIOUS
  <2>1. /\ db \in Inventory /\ OneEquipped(db) /\ mark = Snapshot(db, {})
        /\ mark.inv = db /\ mark.open = {}
    BY StoreAssumption DEF Init, Snapshot
  <2>2. StoreOK
    <3>1. NoInventory \in Inventory BY StoreTypes
    <3>2. mark \in Snapshots BY <2>1, StoreTypes
    <3>3. shard \in Seq(Event)
      <4>1. shard = <<>> BY DEF Init
      <4> QED BY <4>1
    <3>4. stale \in BOOLEAN BY Zenon DEF Init
    <3>5. failures \in Nat BY DEF Init
    <3> QED BY <2>1, <3>1, <3>2, <3>3, <3>4, <3>5 DEF Init, StoreOK
  <2>3. Chain BY <2>1 DEF Init, Chain, Follows, Latest, Snapshot
  <2> QED BY <2>2, <2>3 DEF StoreInv
<1>2. StoreInv /\ [Next]_vars => StoreInv'
  <2> SUFFICES ASSUME StoreInv, [Next]_vars PROVE StoreInv' OBVIOUS
  <2>1. ASSUME NEW id \in ItemIds, NEW n \in 1..MaxCount, TryAddItem(id, n)
        PROVE StoreInv'
    BY <2>1, AddStep
  <2>2. ASSUME NEW s \in Slots, SaveTouchedSlot(s) PROVE StoreInv'
    BY <2>2, SaveTouchedStep
  <2>3. ASSUME NEW s \in Slots, NEW n \in 1..MaxCount, TryExtractItem(s, n)
        PROVE StoreInv'
    BY <2>3, ExtractStep
  <2>4. ASSUME NEW s \in Slots, TryEquip(s) PROVE StoreInv'
    BY <2>4, EquipStep
  <2>5. ASSUME NEW s \in Slots, TryUnequip(s) PROVE StoreInv'
    BY <2>5, UnequipStep
  <2>6. ASSUME NEW s \in Slots, TryUseItem(s) PROVE StoreInv'
    BY <2>6, UseStep
  <2>7. ASSUME NEW s \in Slots, NEW r \in Slots, TrySwapSlots(s, r) PROVE StoreInv'
    BY <2>7, SwapStep
  <2>8. CASE CommitEvent BY <2>8, CommitStep
  <2>9. CASE CommitFails \/ ExtractFails BY <2>9, FailSteps
  <2>10. CASE RequestLogin \/ ExtractInventory \/ LoadFromDB \/ Disconnect
              \/ ServerCrash
    BY <2>10, SessionSteps
  <2>11. CASE UNCHANGED vars
    BY <2>11 DEF vars, memory, faults, StoreInv, StoreOK, Sound, Chain, Link,
                 Before, Latest
  <2> QED BY <2>1, <2>2, <2>3, <2>4, <2>5, <2>6, <2>7, <2>8, <2>9, <2>10, <2>11
          DEF Next, InventoryStep
<1> QED BY <1>1, <1>2, PTL DEF Spec

\* At every point where the server may die the Inventory table holds an
\* inventory the player really had, up to the unfinished saves of one
\* TryAddItem: no order of crashes, logins and commits tears a swap or an
\* equip apart or commits saves out of order.
THEOREM CommitsFollowMemory == Spec => []RowsWereMemory
<1>1. StoreInv => RowsWereMemory
  BY DEF StoreInv, RowsWereMemory, Chain, Follows, Snapshot
<1> QED BY <1>1, StoreCorrect, PTL

\* When the queue of the account's shard is empty and no operation is
\* running, the rows are the inventory in memory.
THEOREM DrainedRowsAreMemory == Spec => []RowsCatchUp
<1>1. StoreInv => RowsCatchUp
  <2> SUFFICES ASSUME StoreInv, Sound, phase = "online", shard = <<>>, toSave = {}
               PROVE  db = slots
    BY DEF RowsCatchUp
  <2>1. Chain /\ db \in Inventory /\ slots \in Inventory BY DEF StoreInv, StoreOK
  <2>2. Follows(Snapshot(db, {}), mark, {}) /\ Follows(mark, Snapshot(slots, {}), {})
    BY <2>1 DEF Chain, Latest
  <2>3. \A s \in Slots : db[s] = slots[s] BY <2>2 DEF Follows, Snapshot
  <2> QED BY <2>1, <2>3 DEF Inventory
<1> QED BY <1>1, StoreCorrect, PTL

\* Neither memory nor the table ever has two equipped items, as long as no
\* statement fails and no login overtakes a save.
THEOREM AtMostOneEquipped == Spec => []NeverTwoEquipped
<1>1. StoreInv => NeverTwoEquipped
  <2> SUFFICES ASSUME StoreInv, Sound
               PROVE  OneEquipped(db) /\ (phase = "online" => OneEquipped(slots))
    BY DEF NeverTwoEquipped
  <2>1. StoreOK /\ Chain BY DEF StoreInv
  <2>2. OneEquipped(db) BY <2>1 DEF Chain, Follows, Snapshot, OneEquipped
  <2>3. ASSUME phase = "online" PROVE OneEquipped(slots)
    <3>1. Follows(Latest, Snapshot(slots, toSave), {}) BY <2>1, <2>3 DEF Chain
    <3> QED BY <2>1, <3>1, LatestEquipped, OneEquippedFollows DEF Snapshot
  <2> QED BY <2>2, <2>3
<1> QED BY <1>1, StoreCorrect, PTL

-----------------------------------------------------------------------------
(***************************************************************************)
(* What is in the slots: ContentsInv.                                      *)
(***************************************************************************)

\* Total adds up the units of the slots, and is a natural.
LEMMA TotalIsSum ==
  ASSUME NEW inv \in Inventory, NEW id \in ItemIds
  PROVE  /\ UnitsIn(inv, id) \in [Slots -> Nat] /\ UnitsIn(inv, id) \in [Slots -> Int]
         /\ Total(inv, id) = SumFunction(UnitsIn(inv, id))
         /\ Total(inv, id) \in Nat
<1>1. IsFiniteSet(Slots) BY StoreAssumption
<1>2. /\ UnitsIn(inv, id) \in [Slots -> Nat] /\ UnitsIn(inv, id) \in [Slots -> Int]
  BY StoreAssumption DEF UnitsIn, Inventory, Item
<1>3. SumFunction(UnitsIn(inv, id)) \in Nat BY <1>1, <1>2, SumNat
<1> QED BY <1>2, <1>3 DEF Total

\* The units of every item are naturals.
LEMMA TotalsType ==
  ASSUME NEW inv \in Inventory PROVE Totals(inv) \in [ItemIds -> Nat]
BY TotalIsSum DEF Totals

\* One slot changes by some units of one item, and by none of the others.
LEMMA TotalsOneSlot ==
  ASSUME NEW inv \in Inventory, NEW new \in Inventory, NEW s \in Slots,
         \A r \in Slots \ {s} : new[r] = inv[r],
         NEW id \in ItemIds, NEW n \in Nat,
         UnitsIn(new, id)[s] = UnitsIn(inv, id)[s] - n,
         \A k \in ItemIds \ {id} : UnitsIn(new, k)[s] = UnitsIn(inv, k)[s]
  PROVE  /\ Total(new, id) = Total(inv, id) - n
         /\ \A k \in ItemIds \ {id} : Total(new, k) = Total(inv, k)
<1>1. ASSUME NEW k \in ItemIds
      PROVE  Total(new, k) = Total(inv, k) - UnitsIn(inv, k)[s] + UnitsIn(new, k)[s]
  <2> DEFINE f == UnitsIn(inv, k)
             e == UnitsIn(new, k)
  <2>1. /\ f \in [Slots -> Int] /\ e \in [Slots -> Int] /\ IsFiniteSet(Slots)
        /\ Total(inv, k) = SumFunction(f) /\ Total(new, k) = SumFunction(e)
    BY TotalIsSum, StoreAssumption
  <2>2. \A r \in Slots \ {s} : e[r] = f[r] BY DEF UnitsIn
  <2> HIDE DEF e, f
  <2>3. SumFunction(e) = SumFunction(f) - f[s] + e[s]
    BY <2>1, <2>2, SumChange
  <2> QED BY <2>1, <2>3 DEF e, f
<1>2. ASSUME NEW k \in ItemIds
      PROVE  /\ UnitsIn(inv, k)[s] \in Int /\ UnitsIn(new, k)[s] \in Int
             /\ Total(inv, k) \in Nat
  BY TotalIsSum
<1>3. Total(new, id) = Total(inv, id) - n BY <1>1, <1>2
<1>4. ASSUME NEW k \in ItemIds \ {id} PROVE Total(new, k) = Total(inv, k)
  BY <1>1, <1>2
<1> QED BY <1>3, <1>4

\* Inventories whose slots hold the same units have the same totals.
LEMMA TotalsSame ==
  ASSUME NEW inv, NEW new,
         \A s \in Slots : /\ (inv[s] = NoItem) <=> (new[s] = NoItem)
                          /\ new[s].id = inv[s].id /\ new[s].count = inv[s].count,
         inv \in Inventory, new \in Inventory
  PROVE  Totals(new) = Totals(inv)
<1>1. ASSUME NEW k \in ItemIds PROVE Total(new, k) = Total(inv, k)
  <2>1. UnitsIn(new, k) = UnitsIn(inv, k) BY DEF UnitsIn
  <2> QED BY <2>1, TotalIsSum
<1> QED BY <1>1 DEF Totals

\* Two slots exchanged: first one slot gets the item of the other, then
\* the other way round.
LEMMA TotalsSwap ==
  ASSUME NEW inv \in Inventory, NEW new \in Inventory,
         NEW s \in Slots, NEW r \in Slots, s # r,
         new[s] = inv[r], new[r] = inv[s],
         \A q \in Slots \ {s, r} : new[q] = inv[q]
  PROVE  Totals(new) = Totals(inv)
<1>1. PICK mid : mid = [inv EXCEPT ![s] = inv[r]] OBVIOUS
<1>2. /\ mid \in Inventory /\ mid[s] = inv[r] /\ mid[r] = inv[r]
      /\ \A q \in Slots \ {s} : mid[q] = inv[q]
      /\ \A q \in Slots \ {r} : new[q] = mid[q]
  BY <1>1 DEF Inventory
<1>3. ASSUME NEW k \in ItemIds PROVE Total(new, k) = Total(inv, k)
  <2> DEFINE f == UnitsIn(inv, k)
             m == UnitsIn(mid, k)
             e == UnitsIn(new, k)
  <2>1. /\ f \in [Slots -> Int] /\ e \in [Slots -> Int] /\ m \in [Slots -> Int]
        /\ IsFiniteSet(Slots)
        /\ Total(inv, k) = SumFunction(f) /\ Total(new, k) = SumFunction(e)
    BY <1>2, TotalIsSum, StoreAssumption
  <2>2. /\ \A q \in Slots \ {s} : m[q] = f[q]
        /\ \A q \in Slots \ {r} : e[q] = m[q]
        /\ m[s] = f[r] /\ m[r] = f[r] /\ e[r] = f[s]
    BY <1>2 DEF UnitsIn
  <2> HIDE DEF e, f, m
  <2>3. SumFunction(m) = SumFunction(f) - f[s] + m[s] BY <2>1, <2>2, SumChange
  <2>4. SumFunction(e) = SumFunction(m) - m[r] + e[r] BY <2>1, <2>2, SumChange
  <2>5. f[s] \in Int /\ f[r] \in Int /\ SumFunction(f) \in Int BY <2>1, SumInt
  <2> QED BY <2>1, <2>2, <2>3, <2>4, <2>5
<1> QED BY <1>3 DEF Totals

\* The attack power depends on the equipped items alone.
LEMMA OffensiveSame ==
  ASSUME NEW inv, NEW new,
         \A s \in Slots : IsEquipped(inv[s]) <=> IsEquipped(new[s]),
         \A s \in Slots : IsEquipped(inv[s]) => new[s].id = inv[s].id
  PROVE  Offensive(new) = Offensive(inv)
<1>1. {r \in Slots : IsEquipped(new[r])} = {r \in Slots : IsEquipped(inv[r])}
  OBVIOUS
<1>2. {BaseAttack + AttackBonus[new[s].id] : s \in {r \in Slots : IsEquipped(new[r])}}
      = {BaseAttack + AttackBonus[inv[s].id] : s \in {r \in Slots : IsEquipped(inv[r])}}
  BY <1>1
<1>3. (\E s \in Slots : IsEquipped(inv[s])) <=> \E s \in Slots : IsEquipped(new[s])
  OBVIOUS
<1> QED BY <1>2, <1>3 DEF Offensive

\* The attack power is a natural.
LEMMA OffensiveType ==
  ASSUME NEW inv \in Inventory, NEW x \in Offensive(inv) PROVE x \in Nat
<1>1. CASE x = BaseAttack BY <1>1, StoreAssumption
<1>2. CASE \E s \in Slots : IsEquipped(inv[s]) /\ x = BaseAttack + AttackBonus[inv[s].id]
  <2>1. PICK s \in Slots : IsEquipped(inv[s]) /\ x = BaseAttack + AttackBonus[inv[s].id]
    BY <1>2
  <2>2. inv[s].id \in ItemIds BY <2>1, ItemTypes DEF IsEquipped, Item
  <2> QED BY <2>1, <2>2, StoreAssumption
<1> QED BY <1>1, <1>2 DEF Offensive

\* The empty inventory.
LEMMA NoInventoryContents ==
  /\ AllFit(NoInventory) /\ Offensive(NoInventory) = {BaseAttack}
BY DEF AllFit, ItemFits, NoInventory, Offensive, IsEquipped

\* An operation whose slots fit, with their attack power and their units.
LEMMA OperationContents ==
  ASSUME StoreOK, ContentsInv, loading' = loading, db' = db,
         NEW S \in SUBSET Slots, NEW open,
         shard' = Append(shard, SaveEvent(S, slots', open)),
         AllFit(slots'), offensive' \in Offensive(slots'), units' = Totals(slots')
  PROVE  ContentsInv'
<1>1. shard \in Seq(Event) BY DEF StoreOK
<1>2. ASSUME NEW i \in DOMAIN shard' PROVE AllFit(shard'[i].at.inv)
  <2>1. CASE i \in DOMAIN shard
    <3>1. shard'[i] = shard[i] BY <1>1, <2>1
    <3> QED BY <2>1, <3>1 DEF ContentsInv
  <2>2. CASE i = Len(shard) + 1
    <3>1. shard'[i] = SaveEvent(S, slots', open) BY <1>1, <2>2
    <3> QED BY <3>1 DEF SaveEvent, Snapshot
  <2> QED BY <1>1, <2>1, <2>2
<1>3. AllFit(loading') /\ AllFit(db') BY DEF ContentsInv
<1> QED BY <1>2, <1>3 DEF ContentsInv, AllFit, ItemFits

\* Memory is left alone and the events come from where they were.
LEMMA QuietContents ==
  ASSUME ContentsInv, UNCHANGED <<slots, offensive, units>>,
         AllFit(loading'), AllFit(db'),
         \A i \in DOMAIN shard' : AllFit(shard'[i].at.inv)
  PROVE  ContentsInv'
<1>1. AllFit(slots') /\ offensive' \in Offensive(slots') /\ units' = Totals(slots')
  BY DEF ContentsInv
<1> QED BY <1>1 DEF ContentsInv

\* The events left when the first is gone.
LEMMA TailContents ==
  ASSUME StoreOK, ContentsInv, shard # <<>>, shard' = Tail(shard)
  PROVE  /\ \A i \in DOMAIN shard' : AllFit(shard'[i].at.inv)
         /\ AllFit(Head(shard).at.inv)
<1>1. shard \in Seq(Event) BY DEF StoreOK
<1>2. /\ Head(shard) = shard[1] /\ 1 \in DOMAIN shard
      /\ \A i \in DOMAIN shard' : i + 1 \in DOMAIN shard /\ shard'[i] = shard[i + 1]
  BY <1>1, TailLemma
<1> QED BY <1>2 DEF ContentsInv

-----------------------------------------------------------------------------
\* One lemma per action.

\* Every unit TryAddItem is given is placed, within the room of each slot.
LEMMA AddContents ==
  ASSUME StoreOK, StoreOK', ContentsInv,
         NEW id \in ItemIds, NEW n \in 1..MaxCount, TryAddItem(id, n)
  PROVE  ContentsInv'
<1>0. /\ loading' = loading /\ db' = db /\ shard' = shard /\ offensive' = offensive
      /\ units' = [units EXCEPT ![id] = @ + n]
      /\ n \in Nat /\ slots \in Inventory /\ slots' \in Inventory
  BY StoreAssumption DEF TryAddItem, Operation, StoreOK
<1>1. PICK fill \in [Slots -> 0..n] :
        /\ \A s \in Slots : fill[s] <= Room(s, id)
        /\ SumFunction(fill) = n
        /\ slots' = Filled(id, fill)
  BY DEF TryAddItem, Placements
<1>2. fill \in [Slots -> Int] BY <1>0, <1>1
<1>3. ASSUME NEW s \in Slots
      PROVE  /\ ItemFits(slots'[s])
             /\ IsEquipped(slots[s]) <=> IsEquipped(slots'[s])
             /\ IsEquipped(slots[s]) => slots'[s].id = slots[s].id
             /\ \A k \in ItemIds : UnitsIn(slots', k)[s] =
                  UnitsIn(slots, k)[s] + (IF k = id THEN fill[s] ELSE 0)
  <2>1. fill[s] \in Nat /\ fill[s] <= Room(s, id) BY <1>0, <1>1
  <2>2. slots[s] \in Item \cup {NoItem} /\ ItemFits(slots[s])
    BY <1>0, ItemTypes DEF ContentsInv, AllFit
  <2>3. CASE fill[s] = 0
    <3>1. slots'[s] = slots[s] BY <1>1, <2>3 DEF Filled
    <3> QED BY <2>2, <2>3, <3>1 DEF UnitsIn, Item
  <2>4. CASE fill[s] # 0 /\ slots[s] = NoItem
    <3>1. slots'[s] = MakeNewItem(id, fill[s]) BY <1>1, <2>4 DEF Filled
    <3>2. slots'[s] \in Item BY <2>1, <2>4, <3>1, ItemTypes
    <3>3. slots'[s] # NoItem BY <3>2, ItemTypes
    <3>4. fill[s] <= MaxStack[id] BY <2>1, <2>4 DEF Room
    <3>5. slots'[s].id = id /\ slots'[s].count = fill[s] /\ ~slots'[s].equipped
      BY <3>1 DEF MakeNewItem
    <3> QED BY <2>1, <2>4, <3>3, <3>4, <3>5 DEF IsEquipped, ItemFits, UnitsIn
  <2>5. CASE fill[s] # 0 /\ slots[s] # NoItem
    <3>1. slots'[s] = [slots[s] EXCEPT !.count = slots[s].count + fill[s]]
      BY <1>1, <2>5 DEF Filled
    <3>2. slots[s] \in Item BY <2>2, <2>5
    <3>3. slots'[s] # NoItem BY <2>1, <3>1, <3>2, ItemTypes
    <3>4. /\ slots'[s].equipped = slots[s].equipped /\ slots'[s].id = slots[s].id
          /\ slots'[s].count = slots[s].count + fill[s] /\ slots[s].count \in Nat
      BY <3>1, <3>2 DEF Item
    <3>5. slots[s].id = id /\ fill[s] <= MaxStack[id] - slots[s].count
      BY <2>1, <2>5 DEF Room
    <3>6. MaxStack[id] \in Nat BY StoreAssumption
    <3> QED BY <2>1, <2>2, <2>5, <3>3, <3>4, <3>5, <3>6
            DEF IsEquipped, ItemFits, UnitsIn
  <2> QED BY <2>3, <2>4, <2>5
<1>4. AllFit(slots') BY <1>3 DEF AllFit
<1>5. Offensive(slots') = Offensive(slots) BY <1>3, OffensiveSame
<1>6. ASSUME NEW k \in ItemIds
      PROVE  Total(slots', k) = Total(slots, k) + (IF k = id THEN n ELSE 0)
  <2> DEFINE f == UnitsIn(slots, k)
             e == UnitsIn(slots', k)
  <2>1. /\ f \in [Slots -> Int] /\ e \in [Slots -> Int] /\ IsFiniteSet(Slots)
        /\ Total(slots, k) = SumFunction(f) /\ Total(slots', k) = SumFunction(e)
        /\ Total(slots, k) \in Nat
    BY <1>0, TotalIsSum, StoreAssumption
  <2>2. CASE k = id
    <3>1. \A s \in Slots : e[s] = f[s] + fill[s] BY <1>3, <2>2
    <3>2. SumFunction(fill) = n BY <1>1
    <3> HIDE DEF e, f
    <3>3. SumFunction(e) = SumFunction(f) + SumFunction(fill)
      BY <1>2, <2>1, <3>1, SumAdd
    <3> QED BY <2>1, <2>2, <3>2, <3>3
  <2>3. CASE k # id
    <3>1. \A s \in Slots : f[s] \in Int BY <2>1
    <3>2. \A s \in Slots : e[s] = f[s] + 0 BY <1>3, <2>3
    <3> HIDE DEF e, f
    <3>3. e = f BY <2>1, <3>1, <3>2
    <3> QED BY <2>1, <2>3, <3>3
  <2> QED BY <2>2, <2>3
<1>7. units' = Totals(slots')
  <2>1. PICK t \in [ItemIds -> Nat] : t = Totals(slots) BY <1>0, TotalsType
  <2>2. PICK v \in [ItemIds -> Nat] : v = Totals(slots') BY <1>0, TotalsType
  <2>3. \A k \in ItemIds : v[k] = t[k] + (IF k = id THEN n ELSE 0)
    BY <1>6, <2>1, <2>2 DEF Totals
  <2>4. v = [t EXCEPT ![id] = @ + n] BY <1>0, <2>3
  <2>5. units = t BY <2>1 DEF ContentsInv
  <2> QED BY <1>0, <2>2, <2>4, <2>5
<1> QED BY <1>0, <1>4, <1>5, <1>7 DEF ContentsInv, AllFit, ItemFits

\* Taking units from a slot: what is left fits, and only these units are
\* gone.
LEMMA TakeContents ==
  ASSUME StoreOK, StoreOK', ContentsInv, NEW s \in Slots, NEW n \in Nat,
         slots[s] # NoItem, n <= slots[s].count,
         slots' = Put(slots, s, WithCount(slots[s], slots[s].count - n)),
         units' = [units EXCEPT ![slots[s].id] = @ - n]
  PROVE  /\ AllFit(slots') /\ units' = Totals(slots')
         /\ ~IsEquipped(slots[s]) \/ n < slots[s].count =>
              Offensive(slots') = Offensive(slots)
<1>1. slots \in Inventory /\ slots' \in Inventory /\ slots[s] \in Item
  BY ItemTypes DEF StoreOK
<1>2. PICK item : item = slots[s] OBVIOUS
<1>3. /\ item \in Item /\ item # NoItem /\ item.count \in Nat \ {0}
      /\ item.id \in ItemIds /\ ItemFits(item) /\ MaxStack[item.id] \in Nat
      /\ n <= item.count
  BY <1>1, <1>2, StoreAssumption DEF Item, ContentsInv, AllFit
<1>4. /\ slots'[s] = WithCount(item, item.count - n)
      /\ \A r \in Slots \ {s} : slots'[r] = slots[r]
  BY <1>1, <1>2 DEF Put, Inventory
<1>5. /\ ItemFits(slots'[s])
      /\ IsEquipped(slots'[s]) => IsEquipped(item) /\ slots'[s].id = item.id
      /\ ~IsEquipped(item) \/ n < item.count =>
           (IsEquipped(slots'[s]) <=> IsEquipped(item))
      /\ UnitsIn(slots', item.id)[s] = UnitsIn(slots, item.id)[s] - n
      /\ \A k \in ItemIds \ {item.id} : UnitsIn(slots', k)[s] = UnitsIn(slots, k)[s]
  <2>1. CASE item.count = n
    <3>1. slots'[s] = NoItem BY <1>3, <1>4, <2>1 DEF WithCount
    <3> QED BY <1>2, <1>3, <2>1, <3>1 DEF ItemFits, IsEquipped, UnitsIn
  <2>2. CASE item.count # n
    <3>1. slots'[s] = [item EXCEPT !.count = item.count - n]
      BY <1>3, <1>4, <2>2 DEF WithCount
    <3>2. /\ slots'[s].id = item.id /\ slots'[s].equipped = item.equipped
          /\ slots'[s].count = item.count - n
      BY <1>3, <3>1 DEF Item
    <3>3. slots'[s] # NoItem
      BY <1>3, <1>4, <2>2, <3>1, ItemTypes DEF WithCount, Item
    <3> QED BY <1>2, <1>3, <2>2, <3>2, <3>3 DEF ItemFits, IsEquipped, UnitsIn
  <2> QED BY <2>1, <2>2
<1>6. AllFit(slots') BY <1>4, <1>5 DEF AllFit, ContentsInv
<1>7. ~IsEquipped(slots[s]) \/ n < slots[s].count =>
        Offensive(slots') = Offensive(slots)
  BY <1>2, <1>4, <1>5, OffensiveSame
<1>8. units' = Totals(slots')
  <2>1. PICK id \in ItemIds : id = item.id BY <1>3
  <2>2. /\ Total(slots', id) = Total(slots, id) - n
        /\ \A k \in ItemIds \ {id} : Total(slots', k) = Total(slots, k)
    <3>1. /\ UnitsIn(slots', id)[s] = UnitsIn(slots, id)[s] - n
          /\ \A k \in ItemIds \ {id} : UnitsIn(slots', k)[s] = UnitsIn(slots, k)[s]
      BY <1>5, <2>1
    <3> QED BY <1>1, <1>4, <3>1, TotalsOneSlot
  <2>3. PICK t \in [ItemIds -> Nat] : t = Totals(slots) BY <1>1, TotalsType
  <2>4. PICK v \in [ItemIds -> Nat] : v = Totals(slots') BY <1>1, TotalsType
  <2>5. v[id] = t[id] - n /\ \A k \in ItemIds \ {id} : v[k] = t[k]
    BY <2>2, <2>3, <2>4 DEF Totals
  <2>6. v = [t EXCEPT ![id] = @ - n] BY <2>5
  <2>7. units = t BY <2>3 DEF ContentsInv
  <2> QED BY <1>2, <2>1, <2>4, <2>6, <2>7
<1> QED BY <1>6, <1>7, <1>8

\* TryExtractItem: the attack power is looked up again when the equipped
\* item is thrown away whole.
LEMMA ExtractContents ==
  ASSUME StoreOK, StoreOK', ContentsInv,
         NEW s \in Slots, NEW n \in 1..MaxCount, TryExtractItem(s, n)
  PROVE  ContentsInv'
<1>1. n \in Nat BY StoreAssumption
<1>2. slots[s] \in Item /\ slots[s] # NoItem /\ slots[s].count \in Nat
  BY ItemTypes DEF TryExtractItem, StoreOK, Item
<1>3. n <= slots[s].count BY <1>1, <1>2 DEF TryExtractItem
<1>4. /\ AllFit(slots') /\ units' = Totals(slots')
      /\ ~IsEquipped(slots[s]) \/ n < slots[s].count =>
           Offensive(slots') = Offensive(slots)
  BY <1>1, <1>2, <1>3, TakeContents DEF TryExtractItem
<1>5. offensive' \in Offensive(slots')
  <2>1. CASE IsEquipped(slots[s]) /\ slots[s].count = n
    BY <2>1 DEF TryExtractItem
  <2>2. CASE ~(IsEquipped(slots[s]) /\ slots[s].count = n)
    BY <1>1, <1>2, <1>3, <1>4, <2>2 DEF TryExtractItem, ContentsInv
  <2> QED BY <2>1, <2>2
<1>6. /\ shard' = Append(shard, SaveEvent({s}, slots', {}))
      /\ loading' = loading /\ db' = db
  BY DEF TryExtractItem, QueueSave, Operation
<1> QED BY <1>4, <1>5, <1>6, OperationContents

\* TryUseItem takes one unit of what is no equipment.
LEMMA UseContents ==
  ASSUME StoreOK, StoreOK', ContentsInv, NEW s \in Slots, TryUseItem(s)
  PROVE  ContentsInv'
<1>1. /\ slots[s] \in Item /\ slots[s] # NoItem /\ 1 <= slots[s].count
      /\ ItemFits(slots[s]) /\ slots[s].id \notin Equipment
  BY ItemTypes DEF TryUseItem, StoreOK, Item, ContentsInv, AllFit
<1>2. ~IsEquipped(slots[s]) BY <1>1 DEF ItemFits, IsEquipped
<1>3. /\ AllFit(slots') /\ units' = Totals(slots')
      /\ Offensive(slots') = Offensive(slots)
  BY <1>1, <1>2, TakeContents DEF TryUseItem
<1>4. /\ shard' = Append(shard, SaveEvent({s}, slots', {}))
      /\ loading' = loading /\ db' = db /\ offensive' = offensive
  BY DEF TryUseItem, QueueSave, Operation
<1>5. offensive' \in Offensive(slots') BY <1>3, <1>4 DEF ContentsInv
<1> QED BY <1>3, <1>4, <1>5, OperationContents

\* A change of equipped flags moves no units, and equipment alone gets one.
LEMMA FlagContents ==
  ASSUME StoreOK, StoreOK', ContentsInv,
         \A s \in Slots : slots'[s] # slots[s] =>
           /\ slots[s] # NoItem
           /\ \E b \in BOOLEAN : /\ slots'[s] = [slots[s] EXCEPT !.equipped = b]
                                 /\ b => slots[s].id \in Equipment
  PROVE  AllFit(slots') /\ Totals(slots') = Totals(slots)
<1>1. slots \in Inventory /\ slots' \in Inventory BY DEF StoreOK
<1>2. ASSUME NEW s \in Slots
      PROVE  /\ (slots[s] = NoItem) <=> (slots'[s] = NoItem)
             /\ slots'[s].id = slots[s].id /\ slots'[s].count = slots[s].count
             /\ ItemFits(slots'[s])
  <2>1. slots[s] \in Item \cup {NoItem} /\ ItemFits(slots[s])
    BY <1>1, ItemTypes DEF ContentsInv, AllFit
  <2>2. CASE slots'[s] = slots[s] BY <2>1, <2>2
  <2>3. CASE slots'[s] # slots[s]
    <3>1. PICK b \in BOOLEAN : /\ slots'[s] = [slots[s] EXCEPT !.equipped = b]
                               /\ b => slots[s].id \in Equipment
      BY <2>3
    <3>2. slots[s] \in Item /\ slots[s] # NoItem BY <2>1, <2>3
    <3>3. slots'[s] \in Item /\ slots'[s] # NoItem BY <3>1, <3>2, ItemTypes
    <3>4. /\ slots'[s].id = slots[s].id /\ slots'[s].count = slots[s].count
          /\ slots'[s].equipped = b
      BY <3>1, <3>2 DEF Item
    <3> QED BY <2>1, <3>1, <3>2, <3>3, <3>4 DEF ItemFits
  <2> QED BY <2>2, <2>3
<1>3. AllFit(slots') BY <1>2 DEF AllFit
<1>4. Totals(slots') = Totals(slots) BY <1>1, <1>2, TotalsSame
<1> QED BY <1>3, <1>4

\* TryEquip and TryUnequip look the attack power up again.
LEMMA EquipContents ==
  ASSUME StoreOK, StoreOK', ContentsInv, NEW s \in Slots,
         TryEquip(s) \/ TryUnequip(s)
  PROVE  ContentsInv'
<1>1. slots \in Inventory BY DEF StoreOK
<1>2. /\ loading' = loading /\ db' = db /\ units' = units
      /\ offensive' \in Offensive(slots')
  BY DEF TryEquip, TryUnequip, Operation
<1>3. slots[s] # NoItem BY DEF TryEquip, TryUnequip, IsEquipped
<1> DEFINE Flagged(q) ==
      /\ slots[q] # NoItem
      /\ \E b \in BOOLEAN : /\ slots'[q] = [slots[q] EXCEPT !.equipped = b]
                            /\ b => slots[q].id \in Equipment
<1>4. \A q \in Slots : slots'[q] # slots[q] => Flagged(q)
  <2>1. CASE slots' = [slots EXCEPT ![s].equipped = FALSE]
    BY <1>1, <1>3, <2>1 DEF Inventory
  <2>2. CASE slots' = [slots EXCEPT ![s].equipped = TRUE] /\ slots[s].id \in Equipment
    BY <1>1, <1>3, <2>2 DEF Inventory
  <2>3. ASSUME NEW r \in Slots \ {s}, IsEquipped(slots[r]), slots[s].id \in Equipment,
               slots' = [slots EXCEPT ![s].equipped = TRUE, ![r].equipped = FALSE]
        PROVE  \A q \in Slots : slots'[q] # slots[q] => Flagged(q)
    <3>1. slots[r] # NoItem BY <2>3 DEF IsEquipped
    <3>2. /\ slots'[s] = [slots[s] EXCEPT !.equipped = TRUE]
          /\ slots'[r] = [slots[r] EXCEPT !.equipped = FALSE]
          /\ \A q \in Slots \ {r, s} : slots'[q] = slots[q]
      BY <1>1, <2>3 DEF Inventory
    <3> QED BY <1>3, <2>3, <3>1, <3>2
  <2> QED BY <2>1, <2>2, <2>3 DEF TryEquip, TryUnequip
<1>5. AllFit(slots') /\ Totals(slots') = Totals(slots) BY <1>4, FlagContents
<1>6. units' = Totals(slots') BY <1>2, <1>5 DEF ContentsInv
<1>7. \E S \in SUBSET Slots : shard' = Append(shard, SaveEvent(S, slots', {}))
  BY DEF TryEquip, TryUnequip, QueueSave, QueueTwo
<1> QED BY <1>2, <1>5, <1>6, <1>7, OperationContents

\* TrySwapSlots moves units and flags.
LEMMA SwapContents ==
  ASSUME StoreOK, StoreOK', ContentsInv,
         NEW s \in Slots, NEW r \in Slots, TrySwapSlots(s, r)
  PROVE  ContentsInv'
<1>1. slots \in Inventory /\ slots' \in Inventory /\ s # r
  BY DEF StoreOK, TrySwapSlots
<1>2. /\ slots'[s] = slots[r] /\ slots'[r] = slots[s]
      /\ \A q \in Slots \ {s, r} : slots'[q] = slots[q]
  BY <1>1 DEF Inventory, TrySwapSlots
<1>3. AllFit(slots') BY <1>2 DEF AllFit, ContentsInv
<1>4. Totals(slots') = Totals(slots) BY <1>1, <1>2, TotalsSwap
<1>5. ASSUME NEW x \in Offensive(slots) PROVE x \in Offensive(slots')
  <2>1. CASE ~\E q \in Slots : IsEquipped(slots[q])
    <3>1. ~\E q \in Slots : IsEquipped(slots'[q]) BY <1>2, <2>1
    <3> QED BY <1>5, <2>1, <3>1 DEF Offensive
  <2>2. CASE \E q \in Slots : IsEquipped(slots[q])
    <3>1. PICK q \in Slots : /\ IsEquipped(slots[q])
                             /\ x = BaseAttack + AttackBonus[slots[q].id]
      BY <1>5, <2>2 DEF Offensive
    <3>2. PICK p \in Slots : slots'[p] = slots[q] BY <1>1, <1>2
    <3> QED BY <3>1, <3>2 DEF Offensive
  <2> QED BY <2>1, <2>2
<1>6. /\ shard' = Append(shard, SaveEvent({s, r}, slots', {}))
      /\ loading' = loading /\ db' = db /\ offensive' = offensive /\ units' = units
  BY DEF TrySwapSlots, QueueTwo, Operation
<1>7. offensive' \in Offensive(slots') /\ units' = Totals(slots')
  BY <1>4, <1>5, <1>6 DEF ContentsInv
<1> QED BY <1>3, <1>6, <1>7, OperationContents

\* The DB threads: rows and events are copies of slots.
LEMMA StorageContents ==
  ASSUME StoreOK, ContentsInv,
         \/ \E s \in Slots : SaveTouchedSlot(s)
         \/ CommitEvent \/ CommitFails \/ ExtractInventory \/ ExtractFails
  PROVE  ContentsInv'
<1>0. UNCHANGED <<slots, offensive, units>>
  BY DEF SaveTouchedSlot, CommitEvent, CommitFails, ExtractInventory, ExtractFails,
         memory
<1>1. ASSUME NEW s \in Slots, SaveTouchedSlot(s) PROVE ContentsInv'
  <2>1. PICK open : open = toSave' OBVIOUS
  <2>2. /\ shard' = Append(shard, SaveEvent({s}, slots', open))
        /\ loading' = loading /\ db' = db
    BY <1>0, <1>1, <2>1 DEF SaveTouchedSlot, QueueSave
  <2>3. AllFit(slots') /\ offensive' \in Offensive(slots') /\ units' = Totals(slots')
    BY <1>0 DEF ContentsInv
  <2> QED BY <2>2, <2>3, OperationContents
<1>2. CASE CommitEvent
  <2>1. shard # <<>> /\ shard' = Tail(shard) /\ loading' = loading
        /\ db' = Apply(Head(shard), db)
    BY <1>2 DEF CommitEvent
  <2>2. /\ \A i \in DOMAIN shard' : AllFit(shard'[i].at.inv)
        /\ AllFit(Head(shard).at.inv)
    BY <2>1, TailContents
  <2>3. AllFit(db') /\ AllFit(loading')
    BY <2>1, <2>2 DEF Apply, AllFit, ContentsInv
  <2> QED BY <1>0, <2>2, <2>3, QuietContents
<1>3. CASE CommitFails
  <2>1. shard # <<>> /\ shard' = Tail(shard) /\ loading' = loading /\ db' = db
    BY <1>3 DEF CommitFails
  <2>2. \A i \in DOMAIN shard' : AllFit(shard'[i].at.inv)
    BY <2>1, TailContents
  <2>3. AllFit(db') /\ AllFit(loading') BY <2>1 DEF ContentsInv
  <2> QED BY <1>0, <2>2, <2>3, QuietContents
<1>4. CASE ExtractInventory \/ ExtractFails
  <2>1. shard' = shard /\ db' = db BY <1>4 DEF ExtractInventory, ExtractFails
  <2>2. \A s \in Slots : loading'[s] = db[s] \/ loading'[s] = NoItem
    BY <1>4 DEF ExtractInventory, ExtractFails
  <2>3. AllFit(loading') BY <2>2 DEF AllFit, ItemFits, ContentsInv
  <2>4. AllFit(db') /\ \A i \in DOMAIN shard' : AllFit(shard'[i].at.inv)
    BY <2>1 DEF ContentsInv
  <2> QED BY <1>0, <2>3, <2>4, QuietContents
<1> QED BY <1>1, <1>2, <1>3, <1>4

\* A session begins with the rows and ends with empty slots.
LEMMA SessionContents ==
  ASSUME StoreOK, ContentsInv,
         RequestLogin \/ LoadFromDB \/ Disconnect \/ ServerCrash
  PROVE  ContentsInv'
<1>1. CASE RequestLogin
  <2>1. /\ UNCHANGED <<slots, offensive, units>> /\ loading' = loading
        /\ db' = db /\ shard' = shard
    BY <1>1 DEF RequestLogin
  <2>2. /\ AllFit(loading') /\ AllFit(db')
        /\ \A i \in DOMAIN shard' : AllFit(shard'[i].at.inv)
    BY <2>1 DEF ContentsInv
  <2> QED BY <2>1, <2>2, QuietContents
<1>2. CASE LoadFromDB
  <2>1. /\ slots' = loading /\ offensive' \in Offensive(slots')
        /\ units' = Totals(slots') /\ loading' = NoInventory
        /\ db' = db /\ shard' = shard
    BY <1>2 DEF LoadFromDB
  <2>2. /\ AllFit(slots') /\ AllFit(loading') /\ AllFit(db')
        /\ \A i \in DOMAIN shard' : AllFit(shard'[i].at.inv)
    BY <2>1, NoInventoryContents DEF ContentsInv
  <2> QED BY <2>1, <2>2 DEF ContentsInv
<1>3. CASE Disconnect \/ ServerCrash
  <2>1. /\ slots' = NoInventory /\ offensive' = BaseAttack
        /\ units' = Totals(slots') /\ db' = db
        /\ loading' = loading \/ loading' = NoInventory
        /\ shard' = shard \/ shard' = <<>>
    BY <1>3 DEF Disconnect, ServerCrash, UserGone
  <2>2. offensive' \in Offensive(slots') /\ AllFit(slots')
    BY <2>1, NoInventoryContents
  <2>3. /\ AllFit(loading') /\ AllFit(db')
        /\ \A i \in DOMAIN shard' : AllFit(shard'[i].at.inv)
    BY <2>1, NoInventoryContents DEF ContentsInv
  <2> QED BY <2>1, <2>2, <2>3 DEF ContentsInv
<1> QED BY <1>1, <1>2, <1>3

-----------------------------------------------------------------------------
\* Whatever fails and whatever a login reads, what is in the slots, in the
\* rows and on the way between them fits, and the attack power and the units
\* are those of the slots.
THEOREM ContentsCorrect == Spec => []ContentsInv
<1>1. Init => ContentsInv
  <2> SUFFICES ASSUME Init PROVE ContentsInv OBVIOUS
  <2>1. /\ AllFit(slots) /\ AllFit(loading) /\ AllFit(db)
        /\ offensive \in Offensive(slots)
    BY StoreAssumption, NoInventoryContents DEF Init
  <2>2. shard = <<>> /\ units = Totals(slots) BY DEF Init
  <2> QED BY <2>1, <2>2 DEF ContentsInv
<1>2. StoreOK /\ StoreOK' /\ ContentsInv /\ [Next]_vars => ContentsInv'
  <2> SUFFICES ASSUME StoreOK, StoreOK', ContentsInv, [Next]_vars PROVE ContentsInv'
    OBVIOUS
  <2>1. ASSUME NEW id \in ItemIds, NEW n \in 1..MaxCount, TryAddItem(id, n)
        PROVE ContentsInv'
    BY <2>1, AddContents
  <2>2. ASSUME NEW s \in Slots, NEW n \in 1..MaxCount, TryExtractItem(s, n)
        PROVE ContentsInv'
    BY <2>2, ExtractContents
  <2>3. ASSUME NEW s \in Slots, TryEquip(s) \/ TryUnequip(s) PROVE ContentsInv'
    BY <2>3, EquipContents
  <2>4. ASSUME NEW s \in Slots, TryUseItem(s) PROVE ContentsInv'
    BY <2>4, UseContents
  <2>5. ASSUME NEW s \in Slots, NEW r \in Slots, TrySwapSlots(s, r)
        PROVE ContentsInv'
    BY <2>5, SwapContents
  <2>6. CASE \/ \E s \in Slots : SaveTouchedSlot(s)
             \/ CommitEvent \/ CommitFails \/ ExtractInventory \/ ExtractFails
    BY <2>6, StorageContents
  <2>7. CASE RequestLogin \/ LoadFromDB \/ Disconnect \/ ServerCrash
    BY <2>7, SessionContents
  <2>8. CASE UNCHANGED vars
    <3>1. /\ UNCHANGED <<slots, offensive, units>> /\ loading' = loading
          /\ db' = db /\ shard' = shard
      BY <2>8 DEF vars, memory
    <3>2. /\ AllFit(loading') /\ AllFit(db')
          /\ \A i \in DOMAIN shard' : AllFit(shard'[i].at.inv)
      BY <3>1 DEF ContentsInv
    <3> QED BY <3>1, <3>2, QuietContents
  <2> QED BY <2>1, <2>2, <2>3, <2>4, <2>5, <2>6, <2>7, <2>8 DEF Next, InventoryStep
<1>3. StoreInv => StoreOK BY DEF StoreInv
<1> QED BY <1>1, <1>2, <1>3, StoreCorrect, PTL DEF Spec

\* The attack power of a player in the world is that of the equipped item.
THEOREM AttackPowerCorrect == Spec => []OffensiveIsCurrent
<1>1. ContentsInv => OffensiveIsCurrent BY DEF ContentsInv, OffensiveIsCurrent
<1> QED BY <1>1, ContentsCorrect, PTL

\* No operation makes or loses a unit of any item.
THEOREM NoUnitMadeOrLost == Spec => []UnitsConserved
<1>1. ContentsInv => UnitsConserved BY DEF ContentsInv, UnitsConserved
<1> QED BY <1>1, ContentsCorrect, PTL

\* No stack outgrows its limit, and nothing but equipment is equipped.
THEOREM StacksCorrect == Spec => []StacksFit
<1>1. ContentsInv => StacksFit BY DEF ContentsInv, StacksFit
<1> QED BY <1>1, ContentsCorrect, PTL

\* Every variable keeps its type: no count of units goes below zero.
THEOREM StoreTypeCorrect == Spec => []TypeOK
<1> DEFINE Bounds == ops \in 0..MaxOps /\ failures \in 0..MaxFailures
<1>1. Init => Bounds BY StoreAssumption DEF Init
<1>2. Bounds /\ [Next]_vars => Bounds'
  <2> SUFFICES ASSUME Bounds, [Next]_vars PROVE Bounds' OBVIOUS
  <2>1. MaxOps \in Nat /\ MaxFailures \in Nat BY StoreAssumption
  <2>2. CASE Operation BY <2>1, <2>2 DEF Operation, Ready, faults
  <2>3. CASE StatementFails /\ ops' = ops BY <2>1, <2>3 DEF StatementFails
  <2>4. CASE UNCHANGED <<ops, failures>> BY <2>4
  <2>5. InventoryStep => Operation \/ UNCHANGED <<ops, failures>>
    BY DEF InventoryStep, TryAddItem, TryExtractItem, TryEquip, TryUnequip,
           TryUseItem, TrySwapSlots, SaveTouchedSlot, faults
  <2>6. CommitFails \/ ExtractFails => StatementFails /\ ops' = ops
    BY DEF CommitFails, ExtractFails
  <2>7. CommitEvent \/ RequestLogin \/ ExtractInventory \/ LoadFromDB
          \/ Disconnect \/ ServerCrash \/ UNCHANGED vars
        => UNCHANGED <<ops, failures>>
    BY DEF CommitEvent, RequestLogin, ExtractInventory, LoadFromDB, Disconnect,
           ServerCrash, vars, faults
  <2> HIDE DEF Bounds
  <2> QED BY <2>2, <2>3, <2>4, <2>5, <2>6, <2>7 DEF Next
<1>3. StoreInv /\ ContentsInv /\ Bounds => TypeOK
  <2> SUFFICES ASSUME StoreInv, ContentsInv, Bounds PROVE TypeOK OBVIOUS
  <2>1. StoreOK BY DEF StoreInv
  <2>2. offensive \in Nat BY <2>1, OffensiveType DEF StoreOK, ContentsInv
  <2>3. units \in [ItemIds -> Nat] BY <2>1, TotalsType DEF StoreOK, ContentsInv
  <2> QED BY <2>1, <2>2, <2>3 DEF TypeOK
<1> HIDE DEF Bounds
<1> QED BY <1>1, <1>2, <1>3, StoreCorrect, ContentsCorrect, PTL DEF Spec
=============================================================================
