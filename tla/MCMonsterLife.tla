---- MODULE MCMonsterLife ----
(* MonsterLife for TLC; the constants are given in the .cfg files. *)
EXTENDS MonsterLife
====
