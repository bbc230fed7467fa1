------------------------------ MODULE FieldItem ------------------------------
(***************************************************************************)
(* Items on the ground of one zone: where they come from, who may take     *)
(* them, when they disappear, and the picture a client keeps of its bag.   *)
(*                                                                         *)
(* A killed monster may drop an item, which for a while only the killer    *)
(* can take; a discarded item is everybody's.  Each has a despawn timer,   *)
(* which goes on running when the item is gone.  All of it runs on the     *)
(* thread of the zone, one handler at a time.  (A discard that the thread  *)
(* of a zone left runs, see ZoneServer, is outside this module: its item   *)
(* is refused by the grid, lies nowhere, and is lost.)                     *)
(*                                                                         *)
(* The bags follow InventoryStore, whose operators are used here; its      *)
(* database is left out.  Every successful operation sends the slots it    *)
(* has changed, and the client asks for the next operation by what its     *)
(* mirror g_inventory shows, which may be out of date.  A request that is  *)
(* refused changes nothing and is no step.  A user that disconnects is one *)
(* that asks no more: nothing here looks for the owner of a priority.      *)
(***************************************************************************)
EXTENDS Integers, Sequences, FiniteSets, SequencesExt, Functions

CONSTANTS
  Users, Cells,
  Viewers,         \* users whose clients and deaths are followed
  Slots, ItemIds, Equipment, MaxStack, NoItem,   \* as in InventoryStore
  DropTable,       \* kEntries: item id -> [min, max] of units
  StartBags,       \* what each user logs in with
  None,
  MaxItems,        \* bound: field items ever laid
  MaxOps           \* bound: operations on the bags

Item == [id: ItemIds, count: Nat \ {0}, equipped: BOOLEAN]
Bags == [Slots -> Item \cup {NoItem}]

\* ValidateDropTable, which crashes the server at its start otherwise.
ValidateDropTable ==
  \A id \in DOMAIN DropTable :
    /\ id \in ItemIds
    /\ DropTable[id].min >= 1 /\ DropTable[id].min <= DropTable[id].max
    /\ DropTable[id].max <= MaxStack[id]

ASSUME FieldAssumption ==
  /\ IsFiniteSet(Users) /\ Cells # {}
  /\ Slots \subseteq Nat /\ IsFiniteSet(Slots)
  /\ Equipment \subseteq ItemIds /\ MaxStack \in [ItemIds -> Nat \ {0}]
  /\ NoItem \notin Item
  /\ \A id \in DOMAIN DropTable : DropTable[id] \in [min: Nat, max: Nat]
  /\ ValidateDropTable
  /\ StartBags \in [Users -> Bags]
  /\ None \notin Users /\ Viewers \subseteq Users
  /\ MaxItems \in Nat /\ MaxOps \in Nat

VARIABLES
  user,     \* on: where the user is, and its cell
  bag,      \* Inventory::_slots of each user
  ground,   \* the field items, from their instance ids
  nextId,   \* GNextFieldItemId
  timers,   \* events of field items the timer thread has yet to deliver
  chan,     \* slot updates on the way to each client
  mirror,   \* g_inventory of each client
  ops,
  \* what the properties compare the above with
  killer,   \* whose 10 seconds run: who killed the monster that dropped the item
  units     \* units of each item that were brought, dropped, not used, not despawned

history == <<killer, units>>
vars == <<user, bag, ground, nextId, timers, chan, mirror, ops, history>>

FieldItems == [id: ItemIds, count: Nat \ {0}, cell: Cells, owner: Users \cup {None}]
Ids        == 1 .. MaxItems
Events     == {"EV_ITEM_DESPAWN", "EV_ITEM_LOOT_PRIORITY_EXPIRE"}

TypeOK ==
  /\ user \in [Users -> [on: {"grid", "dead"}, cell: Cells]]
  /\ bag \in [Users -> Bags]
  /\ DOMAIN ground \subseteq 1 .. nextId - 1 /\ nextId \in 1 .. MaxItems + 1
  /\ \A i \in DOMAIN ground : ground[i] \in FieldItems
  /\ timers \subseteq Events \X Ids
  /\ DOMAIN chan = Viewers
  /\ \A u \in Viewers : \A k \in DOMAIN chan[u] :
       /\ DOMAIN chan[u][k] \subseteq Slots
       /\ \A s \in DOMAIN chan[u][k] : chan[u][k][s] \in Item \cup {NoItem}
  /\ mirror \in [Viewers -> Bags]
  /\ ops \in 0 .. MaxOps
  /\ killer \in [Ids -> Users \cup {None}]
  /\ units \in [ItemIds -> Nat]

-----------------------------------------------------------------------------
\* The bag of user u, with the operators of InventoryStore.
Bag(u) == INSTANCE InventoryStore WITH
  slots <- bag[u],
  AttackBonus <- [id \in ItemIds |-> 0], BaseAttack <- 0, StartRows <- {},
  MaxCount <- MaxOps, MaxFailures <- 0, phase <- "online", offensive <- 0,
  toSave <- {}, shard <- <<>>, loading <- bag[u], db <- bag[u],
  left <- bag[u], mark <- 0, failures <- 0, stale <- FALSE

NoInventory == [s \in Slots |-> NoItem]

\* FillItemSlotData of the given slots of a bag.
FillItemSlotData(b, S) == Restrict(b, S)

\* The request is counted; user u gets bag b and its client the updates.
Answer(u, b, updates) ==
  /\ ops < MaxOps /\ ops' = ops + 1
  /\ bag' = [bag EXCEPT ![u] = b]
  /\ chan' = [v \in Viewers |-> IF v = u THEN chan[v] \o updates ELSE chan[v]]

-----------------------------------------------------------------------------
\* Items on the ground

\* The events of one item fire in the order of their delays, in seconds.
Delay(event) == IF event = "EV_ITEM_DESPAWN" THEN 30 ELSE 10

\* The ground with one more item.
Laid(item) ==
  [i \in DOMAIN ground \cup {nextId} |-> IF i = nextId THEN item ELSE ground[i]]

\* Mutant: a timer for dropped items only.
SpawnFieldItem_OnlyDrops(id, n, c, owner) ==
  /\ nextId \in Ids /\ nextId' = nextId + 1
  /\ ground' = Laid([id |-> id, count |-> n, cell |-> c, owner |-> owner])
  /\ timers' = timers \cup
       (IF owner = None THEN {} ELSE {<<e, nextId>> : e \in Events})

\* The thread owns the cell, so that UpdatePosition lays the item.
SpawnFieldItem(id, n, c, owner) ==
  /\ nextId \in Ids /\ nextId' = nextId + 1
  /\ ground' = Laid([id |-> id, count |-> n, cell |-> c, owner |-> owner])
  /\ timers' = timers \cup {<<"EV_ITEM_DESPAWN", nextId>>} \cup
       (IF owner = None THEN {} ELSE {<<"EV_ITEM_LOOT_PRIORITY_EXPIRE", nextId>>})

\* HandleItemDrop and Roll: the killer u stands next to where the monster fell.
HandleItemDrop(u) ==
  /\ user[u].on = "grid"
  /\ \E id \in DOMAIN DropTable, c \in Cells :
       \E n \in DropTable[id].min .. DropTable[id].max :
         /\ SpawnFieldItem(id, n, c, u)
         /\ units' = [units EXCEPT ![id] = @ + n]
  /\ killer' = [killer EXCEPT ![nextId] = u]
  /\ UNCHANGED <<user, bag, chan, mirror, ops>>

\* Mutant: an item that is picked up stays where it is.
RemoveFieldItem_Stays(i) == UNCHANGED ground

\* Out of the grid, the object map and the registry.
RemoveFieldItem(i) == ground' = Restrict(ground, DOMAIN ground \ {i})

\* Mutant: the priority is not looked at.
Takeable_Anybody(u) == {i \in DOMAIN ground : ground[i].cell = user[u].cell}

\* What TryPickupAt may find under user u, in the order of the grid's hash set.
Takeable(u) ==
  {i \in DOMAIN ground : /\ ground[i].cell = user[u].cell
                         /\ ground[i].owner \in {None, u}}

\* ITEM_PICKUP_REQ: all units of one item or, when there is no room, none.
\* The dead are in no grid.
TryPickupAt(u) ==
  /\ user[u].on = "grid"
  /\ \E i \in Takeable(u) :
       \E fill \in Bag(u)!Placements(ground[i].id, ground[i].count) :
         LET b == Bag(u)!Filled(ground[i].id, fill)
             touched == SetToSeq({s \in Slots : fill[s] > 0})
         IN
         /\ Answer(u, b, [k \in DOMAIN touched |-> FillItemSlotData(b, {touched[k]})])
         /\ RemoveFieldItem(i)
  /\ UNCHANGED <<user, nextId, timers, mirror, history>>

\* The next event of a field item, however late; an item that is gone is
\* not found.
Fires(event, i) ==
  /\ <<event, i>> \in timers
  /\ \A e \in Events : <<e, i>> \in timers => Delay(event) <= Delay(e)
  /\ timers' = timers \ {<<event, i>>}
  /\ UNCHANGED <<user, bag, nextId, chan, mirror, ops>>

HandleDespawn(i) ==
  /\ Fires("EV_ITEM_DESPAWN", i)
  /\ IF i \in DOMAIN ground
     THEN /\ RemoveFieldItem(i)
          /\ units' = [units EXCEPT ![ground[i].id] = @ - ground[i].count]
     ELSE UNCHANGED <<ground, units>>
  /\ UNCHANGED killer

HandleLootPriorityExpire(i) ==
  /\ Fires("EV_ITEM_LOOT_PRIORITY_EXPIRE", i)
  /\ ground' = [j \in DOMAIN ground |->
                  IF j = i THEN [ground[j] EXCEPT !.owner = None] ELSE ground[j]]
  /\ killer' = [killer EXCEPT ![i] = None]
  /\ UNCHANGED units

-----------------------------------------------------------------------------
\* The requests about a slot

\* ITEM_DISCARD_REQ, by the dead too: they lie where they died.
Discard(u, s, n) ==
  /\ bag[u][s] # NoItem /\ bag[u][s].count >= n
  /\ LET b == [bag[u] EXCEPT ![s] = Bag(u)!WithCount(@, @.count - n)]
     IN Answer(u, b, <<FillItemSlotData(b, {s})>>)
  /\ SpawnFieldItem(bag[u][s].id, n, user[u].cell, None)
  /\ UNCHANGED <<user, mirror, history>>

\* ITEM_USE_REQ, when the cooldown is over.
TryUseItem(u, s) ==
  /\ user[u].on = "grid" /\ bag[u][s] # NoItem /\ bag[u][s].id \notin Equipment
  /\ LET b == [bag[u] EXCEPT ![s] = Bag(u)!WithCount(@, @.count - 1)]
     IN Answer(u, b, <<FillItemSlotData(b, {s})>>)
  /\ units' = [units EXCEPT ![bag[u][s].id] = @ - 1]
  /\ UNCHANGED <<user, ground, nextId, timers, mirror, killer>>

InHand(u) == {s \in Slots : Bag(u)!IsEquipped(bag[u][s])}

\* Mutant: the slot that is taken off is not sent.
EquipUpdates_OnlyNew(u, s, b) == <<FillItemSlotData(b, {s})>>

\* ITEM_EQUIP_ACK, and ITEM_ACQUIRE_INF for the slot that was taken off.
EquipUpdates(u, s, b) ==
  <<FillItemSlotData(b, {s})>> \o
  SetToSeq({FillItemSlotData(b, {r}) : r \in InHand(u) \ {s}})

\* ITEM_EQUIP_REQ.
TryEquip(u, s) ==
  /\ bag[u][s] # NoItem
  /\ bag[u][s].id \in Equipment /\ ~bag[u][s].equipped
  /\ LET b == [r \in Slots |-> IF r \in InHand(u) \cup {s}
                               THEN [bag[u][r] EXCEPT !.equipped = (r = s)]
                               ELSE bag[u][r]]
     IN Answer(u, b, EquipUpdates(u, s, b))
  /\ UNCHANGED <<user, ground, nextId, timers, mirror, history>>

\* ITEM_UNEQUIP_REQ.
TryUnequip(u, s) ==
  /\ s \in InHand(u)
  /\ LET b == [bag[u] EXCEPT ![s].equipped = FALSE]
     IN Answer(u, b, <<FillItemSlotData(b, {s})>>)
  /\ UNCHANGED <<user, ground, nextId, timers, mirror, history>>

\* ITEM_SWAP_REQ; which slot is named first does not matter.
TrySwapSlots(u, s, r) ==
  /\ s < r /\ (bag[u][s] # NoItem \/ bag[u][r] # NoItem)
  /\ LET b == [bag[u] EXCEPT ![s] = bag[u][r], ![r] = bag[u][s]]
     IN Answer(u, b, <<FillItemSlotData(b, {s, r})>>)
  /\ UNCHANGED <<user, ground, nextId, timers, mirror, history>>

\* The client chooses the request by what its mirror shows in the slot.
ActivateInventorySlot(u, s) ==
  LET shown == IF u \in Viewers THEN mirror[u][s] ELSE bag[u][s] IN
  /\ shown # NoItem
  /\ \/ shown.id \notin Equipment /\ TryUseItem(u, s)
     \/ shown.id \in Equipment /\ shown.equipped /\ TryUnequip(u, s)
     \/ shown.id \in Equipment /\ ~shown.equipped /\ TryEquip(u, s)

-----------------------------------------------------------------------------
\* Users and clients

Walk(u) ==
  /\ user[u].on = "grid"
  /\ \E c \in Cells \ {user[u].cell} : user' = [user EXCEPT ![u].cell = c]
  /\ UNCHANGED <<bag, ground, nextId, timers, chan, mirror, ops, history>>

Die(u) ==
  /\ user[u].on = "grid"
  /\ user' = [user EXCEPT ![u].on = "dead"]
  /\ UNCHANGED <<bag, ground, nextId, timers, chan, mirror, ops, history>>

Respawn(u) ==
  /\ user[u].on = "dead"
  /\ \E c \in Cells : user' = [user EXCEPT ![u] = [on |-> "grid", cell |-> c]]
  /\ UNCHANGED <<bag, ground, nextId, timers, chan, mirror, ops, history>>

\* ProcessPacket of the client: ApplyInventorySlot of each slot in a packet.
ApplyInventorySlot(u) ==
  /\ chan[u] # <<>>
  /\ mirror' = [mirror EXCEPT ![u] =
                  [s \in Slots |-> IF s \in DOMAIN Head(chan[u])
                                   THEN Head(chan[u])[s] ELSE mirror[u][s]]]
  /\ chan' = [chan EXCEPT ![u] = Tail(@)]
  /\ UNCHANGED <<user, bag, ground, nextId, timers, ops, history>>

-----------------------------------------------------------------------------
\* Units of an item.
InBags(id)   == SumFunction([u \in Users |-> Bag(u)!Total(bag[u], id)])
OnGround(id) ==
  SumFunction([i \in DOMAIN ground |-> IF ground[i].id = id THEN ground[i].count ELSE 0])

\* The users have logged in; ITEM_LIST_ACK, which empties the slots it does
\* not list, is on its way.
Init ==
  /\ user = [u \in Users |-> [on |-> "grid", cell |-> CHOOSE c \in Cells : TRUE]]
  /\ bag = StartBags
  /\ ground = [i \in {} |-> None] /\ nextId = 1
  /\ timers = {}
  /\ chan = [u \in Viewers |-> <<bag[u]>>]
  /\ mirror = [u \in Viewers |-> NoInventory]
  /\ ops = 0
  /\ killer = [i \in Ids |-> None]
  /\ units = [id \in ItemIds |-> InBags(id)]

Request(u) ==
  \/ TryPickupAt(u)
  \/ \E s \in Slots : \/ ActivateInventorySlot(u, s)
                      \/ \E n \in 1 .. MaxOps : Discard(u, s, n)
                      \/ \E r \in Slots : TrySwapSlots(u, s, r)

TimerEvent == \E i \in Ids : HandleDespawn(i) \/ HandleLootPriorityExpire(i)

Next ==
  \/ \E u \in Users : Walk(u) \/ HandleItemDrop(u) \/ Request(u)
  \/ \E u \in Viewers : Die(u) \/ Respawn(u) \/ ApplyInventorySlot(u)
  \/ TimerEvent

\* The timer thread delivers what is due and the zone thread runs it.
Spec == Init /\ [][Next]_vars /\ WF_vars(TimerEvent)

-----------------------------------------------------------------------------
\* No unit is made or lost by any sequence of drops, discards, pickups,
\* failed pickups and despawns: what has come into the world is in a bag, on
\* the ground, used up or despawned (TryPickupAt, RemoveFieldItem,
\* TryExtractItem), as long as the thread of the user's own zone runs them.
NothingDuplicated ==
  \A id \in ItemIds : InBags(id) + OnGround(id) = units[id]

\* A client that has processed its packets shows the bag as it is, though
\* its requests were chosen from older pictures: every handler sends every
\* slot it has changed (the previously equipped one too).
MirrorRight ==
  \A u \in Viewers : chan[u] = <<>> => mirror[u] = bag[u]

\* A dropped item whose priority has not run out goes to nobody but the one
\* who killed the monster, even when that one is dead, and it disappears
\* only after anybody could have taken it (the comment on
\* kLootPriorityDuration: the rest of the 30 seconds is for the others).
LootPriority ==
  [][\A i \in DOMAIN ground \ DOMAIN ground' :
       /\ killer[i] # None => bag'[killer[i]] # bag[killer[i]]
       /\ bag' = bag => ground[i].owner = None]_vars

\* Nothing lies on the ground for ever (EV_ITEM_DESPAWN of every item).
ItemLeaves ==
  \A i \in Ids : i \in DOMAIN ground ~> i \notin DOMAIN ground

-----------------------------------------------------------------------------
(***************************************************************************)
(* The inductive invariants.                                               *)
(***************************************************************************)

\* The last update of a slot that is on its way to a client carries what is
\* in the bag; without one the mirror has it already.
MirrorInv ==
  \A u \in Viewers, s \in Slots :
    /\ \A k \in DOMAIN chan[u] :
         /\ s \in DOMAIN chan[u][k]
         /\ \A j \in DOMAIN chan[u] : j > k => s \notin DOMAIN chan[u][j]
         => chan[u][k][s] = bag[u][s]
    /\ (\A k \in DOMAIN chan[u] : s \notin DOMAIN chan[u][k])
         => mirror[u][s] = bag[u][s]

\* The owner of an item on the ground is the one whose 10 seconds run, and
\* their end is still to come.
LootInv ==
  /\ \A i \in DOMAIN ground :
       /\ ground[i].owner = killer[i]
       /\ killer[i] # None => <<"EV_ITEM_LOOT_PRIORITY_EXPIRE", i>> \in timers
  /\ \A i \in Ids : i >= nextId => killer[i] = None
=============================================================================
