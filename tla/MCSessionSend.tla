---- MODULE MCSessionSend ----
(* SessionSend for TLC; the constants are given in the .cfg files. *)
EXTENDS SessionSend
====
