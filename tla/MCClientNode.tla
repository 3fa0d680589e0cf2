---------------------------- MODULE MCClientNode ----------------------------
(***************************************************************************)
(* Instances of ClientNode for TLC.  Each cfg chooses what the server may  *)
(* send and how often the client connects.                                 *)
(***************************************************************************)
EXTENDS ClientNode
=============================================================================
