--------------------------- MODULE MCConnection ---------------------------
(***************************************************************************)
(* Instances of Connection for TLC.  The sizes are scaled down, in the     *)
(* order the code has them: magic < preamble <= header <= a message; the   *)
(* buffer holds one message and a part, or the whole, of the next.         *)
(***************************************************************************)
EXTENDS WakeUp
=============================================================================
