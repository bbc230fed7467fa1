---- MODULE MCClientView ----
(* ClientView for TLC: a strip of cells with the zone border before the     *)
(* last one.                                                                *)
EXTENDS ClientView

MCCells  == 0 .. 3
MCZoneOf == [c \in MCCells |-> IF c < 3 THEN 1 ELSE 2]
====
