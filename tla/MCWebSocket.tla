---------------------------- MODULE MCWebSocket ----------------------------
(***************************************************************************)
(* An instance of WebSocket for TLC.  The lengths are scaled down in the   *)
(* order the code has them: a preamble is shorter than a first read, that  *)
(* than a frame with a short header, and that than the longest frame.      *)
(* Texts that fit, and of each side one that does not.                     *)
(***************************************************************************)
EXTENDS WebSocket

Lens(c, v) == [s \in Sides |-> IF s = "client" THEN c ELSE v]
Texts == {Lens(6, 5), Lens(12, 5), Lens(6, 11)}
=============================================================================
