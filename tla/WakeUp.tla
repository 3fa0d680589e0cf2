------------------------------- MODULE WakeUp -------------------------------
(***************************************************************************)
(* When the loop may sleep.  poll_connections_run communicates with every  *)
(* connection, returns if there is an event, and otherwise waits in poll() *)
(* until a descriptor is ready or the earliest wake-up time has come: what *)
(* it waits for is worked out from the flags of each slot, by three        *)
(* functions that have to agree with what communicate left undone (poll.c, *)
(* connection.c, node.c).                                                  *)
(*                                                                         *)
(* poll() is level-triggered: what arrives during the wait ends it when    *)
(* its descriptor was asked about.  Heartbeat and request times only make  *)
(* a wait shorter and are left out, so that "sleeps" is until they run out.*)
(***************************************************************************)
EXTENDS Connection

\* node_events_pending: unlike next_event it counts what another event hides.
EventsPending ==
  /\ ~Has("IDLE")
  /\ \/ ClosedEvent \/ ErrorEvent \/ ConnectedEvent
     \/ SentEvent \/ ReceivedEvent \/ SocketConnectedEvent

\* connection_next_wake asks for no wait at all.
WakesNow ==
  /\ ~Has("IDLE")
  /\ Any({"CLOSE_REQUESTED", "ERROR", "MESSAGE_SENT", "MESSAGE_RECEIVED"})

\* The descriptor is handed to poll(), which may be one that was closed already.
Active == sock # "none" /\ ~Has("CLOSED")

WantSend_FirstTime == Active /\ Any({"SEND_REQUESTED", "CONNECTING"})

\* connection_impl_prepare_wait: what poll() is asked for.
WantSend == Active /\ Any({"SEND_REQUESTED", "SENDING", "CONNECTING"})
WantReceive == Active /\ Has("RECEIVE_REQUESTED")

\* After a pass that leaves the slot so, poll_connections_run waits.
Sleeps == pc = "event" /\ ~EventsPending /\ ~WakesNow

\* Nothing that only this side can go on with is left behind when it sleeps: bytes of an
\* accepted message make poll() wait for room, an open session listens for its peer (one
\* still CONNECTING waits to be writable, which an accepted socket is), and no whole
\* message that has been read already waits in the buffer for bytes that may never come
\* (one that says it is shorter than its own preamble does).
NeverSleepsOnWork ==
  Sleeps /\ InSession =>
    /\ wired < End(outbound) => WantSend
    /\ sock = "open" => WantReceive \/ (Has("CONNECTING") /\ WantSend)
    /\ \A i \in DOMAIN inbound :
         inbound[i].start = Base /\ inbound[i].kind = "good" =>
           recv_buffer_pos < inbound[i].len \/ recv_buffer_pos < PreambleLen

-----------------------------------------------------------------------------
(* What a step has to preserve, beside CoreInv, for it *)

\* From the first byte a session may read it asks for more, or holds a message.
ListenInv ==
  InSession /\ ~Any({"RECEIVE_REQUESTED", "MESSAGE_RECEIVED", "ERROR"}) =>
    /\ Has("CONNECTING")
    /\ IsServer \/ ~Has("CLIENT_SOCKET_CONNECTED")

\* A message of known length that is all there is shown.
WholeInv ==
  InSession /\ recv_message_len > 0 /\ recv_message_len <= recv_buffer_pos =>
    Any({"MESSAGE_RECEIVED", "ERROR"})

\* A server in its handshake has not read the length of a message yet.
FreshInv == InSession /\ IsServer /\ Has("CONNECTING") => recv_message_len = 0

WakeInv == ListenInv /\ WholeInv /\ FreshInv
=============================================================================
