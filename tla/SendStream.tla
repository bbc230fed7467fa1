------------------------------ MODULE SendStream ------------------------------
(***************************************************************************)
(* What a session promises to whoever calls PostSend: the bytes of the     *)
(* accepted packets reach the socket once each and in the order of the     *)
(* calls.  A byte is its position among the accepted ones.  Bytes still    *)
(* unsent when the session closes may be lost, but only from the end.      *)
(***************************************************************************)
EXTENDS Naturals, Sequences

VARIABLES
  accepted,  \* bytes of the packets PostSend has accepted
  wire,      \* bytes handed to TCP, in order
  open       \* the session accepts packets

vars == <<accepted, wire, open>>

Init == accepted = 0 /\ wire = <<>> /\ open = TRUE

Accept ==
  /\ open
  /\ accepted' \in Nat /\ accepted' > accepted
  /\ UNCHANGED <<wire, open>>

\* The next bytes, and no others.
Transmit ==
  /\ Len(wire') \in (Len(wire) + 1)..accepted
  /\ wire' = [i \in 1..Len(wire') |-> IF i <= Len(wire) THEN wire[i] ELSE i]
  /\ UNCHANGED <<accepted, open>>

Close == open /\ open' = FALSE /\ UNCHANGED <<accepted, wire>>

Next == Accept \/ Transmit \/ Close

Spec == Init /\ [][Next]_vars
=============================================================================
