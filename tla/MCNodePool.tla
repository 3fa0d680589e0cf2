----------------------------- MODULE MCNodePool -----------------------------
(* Two slots in a row, as a list that is built from an array has them, and the acceptor. *)
EXTENDS NodePool

TwoSlots == <<"slot", "slot", "acceptor">>
=============================================================================
