---- MODULE MCFieldItem ----
(* FieldItem for TLC: three slots, a potion that stacks to two and a sword. *)
(* The user whose client is looked at has a full bag, the other one room.   *)
EXTENDS FieldItem, TLC

CONSTANTS u1, u2

Potion(n)   == [id |-> "potion", count |-> n, equipped |-> FALSE]
Sword(e)    == [id |-> "sword", count |-> 1, equipped |-> e]
MCMaxStack  == [id \in {"potion", "sword"} |-> IF id = "potion" THEN 2 ELSE 1]
MCDropTable == [id \in {"potion"} |-> [min |-> 2, max |-> 2]]
MCStartBags == u1 :> <<Sword(TRUE), Sword(FALSE), Potion(1)>> @@
               u2 :> <<Potion(2), NoItem, NoItem>>
====
