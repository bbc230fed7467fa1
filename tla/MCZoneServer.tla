---- MODULE MCZoneServer ----
(* ZoneServer for TLC: two zones, cells given in the .cfg. *)
EXTENDS ZoneServer, TLC

CONSTANTS a1, a2, b1, A, B

\* Two cells in zone A and one in zone B.
MCCells  == {a1, a2, b1}
MCZoneOf == (a1 :> A) @@ (a2 :> A) @@ (b1 :> B)
====
