---- MODULE MCInventoryStore ----
(* InventoryStore for TLC: three slots, a stackable item and two swords. *)
EXTENDS InventoryStore, TLC

MCItemIds     == {"potion", "wooden", "iron"}
MCEquipment   == {"wooden", "iron"}
MCMaxStack    == ("potion" :> 2) @@ ("wooden" :> 1) @@ ("iron" :> 1)
MCAttackBonus == ("potion" :> 0) @@ ("wooden" :> 3) @@ ("iron" :> 6)

\* A sword in hand, a sword in the bag and an empty slot; or a half-full
\* stack of potions next to a sword.
MCStartRows ==
  { <<[id |-> "wooden", count |-> 1, equipped |-> TRUE],
      [id |-> "iron", count |-> 1, equipped |-> FALSE], NoItem>>,
    <<[id |-> "potion", count |-> 1, equipped |-> FALSE],
      [id |-> "iron", count |-> 1, equipped |-> FALSE], NoItem>> }
====
