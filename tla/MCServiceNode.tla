--------------------------- MODULE MCServiceNode ---------------------------
(***************************************************************************)
(* Instances of ServiceNode for TLC.  Each cfg offers the peer the kinds   *)
(* of requests its question is about.                                      *)
(***************************************************************************)
EXTENDS ServiceNode
=============================================================================
