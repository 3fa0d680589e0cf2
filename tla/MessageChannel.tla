--------------------------- MODULE MessageChannel ---------------------------
(***************************************************************************)
(* What a connection slot promises, whatever its flags and buffers do.     *)
(*                                                                         *)
(* A slot serves one session after another.  During a session the peer's   *)
(* messages are handed to the application in the order the peer wrote      *)
(* them, each once and none invented; the application's messages go out    *)
(* one at a time, and one is taken only when the one before it is out.     *)
(* Nothing moves after the session has closed.                             *)
(***************************************************************************)
EXTENDS Naturals, Sequences

CONSTANT Message   \* what a peer may write

VARIABLES
  phase,    \* "idle", "open" or "closed"
  written,  \* messages the peer wrote in this session
  handed,   \* messages handed to the application
  taken,    \* number of messages the application gave
  sent      \* number of them that are out

channel == <<phase, written, handed, taken, sent>>

ChannelInit ==
  /\ phase = "idle"
  /\ written = <<>> /\ handed = <<>>
  /\ taken = 0 /\ sent = 0

Open ==
  /\ phase = "idle"
  /\ phase' = "open"
  /\ written' = <<>> /\ handed' = <<>>
  /\ taken' = 0 /\ sent' = 0

Write ==
  /\ phase = "open"
  /\ Len(written') = Len(written) + 1
  /\ LET m == written'[Len(written')]
     IN m \in Message /\ written' = Append(written, m)
  /\ UNCHANGED <<phase, handed, taken, sent>>

Hand ==
  /\ phase = "open" /\ Len(handed) < Len(written)
  /\ handed' = Append(handed, written[Len(handed) + 1])
  /\ UNCHANGED <<phase, written, taken, sent>>

Take ==
  /\ phase = "open" /\ sent = taken
  /\ taken' = taken + 1
  /\ UNCHANGED <<phase, written, handed, sent>>

\* A handler may answer in the step that takes the message it answers.
HandAndTake ==
  /\ phase = "open" /\ Len(handed) < Len(written) /\ sent = taken
  /\ handed' = Append(handed, written[Len(handed) + 1])
  /\ taken' = taken + 1
  /\ UNCHANGED <<phase, written, sent>>

Out ==
  /\ phase = "open" /\ sent < taken
  /\ sent' = sent + 1
  /\ UNCHANGED <<phase, written, handed, taken>>

Shut ==
  /\ phase = "open"
  /\ phase' = "closed"
  /\ UNCHANGED <<written, handed, taken, sent>>

Release ==
  /\ phase = "closed"
  /\ phase' = "idle"
  /\ UNCHANGED <<written, handed, taken, sent>>

ChannelNext == Open \/ Write \/ Hand \/ Take \/ HandAndTake \/ Out \/ Shut \/ Release

ChannelSpec == ChannelInit /\ [][ChannelNext]_channel
=============================================================================
