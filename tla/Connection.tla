----------------------------- MODULE Connection -----------------------------
(***************************************************************************)
(* One connection slot of Robot Raconteur Lite over a raw TCP socket: the  *)
(* flag word connection_state, the receive and send buffers, and the       *)
(* single-threaded loop that drives them                                   *)
(*                                                                         *)
(*   process_control -> communicate_recv -> communicate_send -> event      *)
(*                                                                         *)
(* (connection.c, tcp_transport.c, the event functions of node.c).  The    *)
(* loop is sequential, but between any two of its system calls the peer    *)
(* and the network move, and between any two events the application calls  *)
(* the API.                                                                *)
(*                                                                         *)
(* Bytes are counted, not represented.  The peer writes whole messages     *)
(* back to back; a message is a record that says at which offset of the    *)
(* TCP stream it starts, how long its size field says it is and whether    *)
(* its preamble is valid.  A message of another length than it says is the *)
(* same stream as one of that length and a next one that starts elsewhere; *)
(* only a size field of 0 is a kind of its own.  The receive buffer holds  *)
(* the recv_buffer_pos stream bytes that end at offset `taken', so its     *)
(* first byte is stream byte Base.                                         *)
(*                                                                         *)
(* A read that brings more than recv_buffer has room for ends the model:   *)
(* what follows it is undefined behaviour, of which nothing is said.       *)
(*                                                                         *)
(* A definition named X_Y is a slip: X as it might be written wrongly.  No *)
(* definition uses it; with X's body replaced by it, a property must fail. *)
(***************************************************************************)
EXTENDS Integers, Sequences, FiniteSets

CONSTANTS
  MagicLen,     \* bytes of the "RRAC" magic (4)
  PreambleLen,  \* bytes verify_preamble needs: magic, size and version (12)
  HeaderRead,   \* bytes asked for while the message size is unknown (64)
  RecvBufLen,   \* recv_buffer_len
  MsgSizes,     \* sizes, other than 0, that the messages of the peer say they have
  SendSizes,    \* sizes of the messages the application sends
  MaxIn,        \* bound: messages the peer writes in one session
  MaxOut,       \* bound: messages the application sends in one session
  MaxSessions   \* bound: times the slot is taken

ASSUME SizeAssumption ==
  /\ MagicLen \in Nat /\ PreambleLen \in Nat /\ HeaderRead \in Nat
  \* Bytes read while looking for the magic never complete a preamble.
  /\ 0 < MagicLen /\ 2 * MagicLen <= PreambleLen
  /\ PreambleLen <= HeaderRead
  /\ RecvBufLen \in Nat
  \* construct_from_array asserts buffer_size > 1024.
  /\ PreambleLen + HeaderRead <= RecvBufLen
  /\ MsgSizes \subseteq Nat \ {0} /\ SendSizes \subseteq Nat \ {0}
  /\ MaxIn \in Nat /\ MaxOut \in Nat /\ MaxSessions \in Nat

VARIABLES
  \* struct robotraconteurlite_connection
  transport_type, config_flags, connection_state, sock,
  recv_buffer_pos, recv_message_len, send_buffer_pos, send_message_len,
  pc,          \* what the loop runs next for this connection, or "overrun"
  \* The TCP session the socket belongs to
  link,        \* what the kernel knows of the peer
  inbound,     \* messages the peer has written
  arrived,     \* bytes of them that have reached this host
  taken,       \* bytes recv() has returned
  outbound,    \* messages end_send_message has been given
  wired,       \* bytes send() has accepted
  delivered,   \* stream offset of each message the application has consumed
  session      \* sessions this slot has served

slot == <<transport_type, config_flags, sock>>
recvs == <<recv_buffer_pos, recv_message_len, taken>>
sends == <<send_buffer_pos, send_message_len, wired>>
peer == <<link, inbound, arrived>>
app == <<outbound, delivered, session>>
vars == <<slot, connection_state, recvs, sends, pc, peer, app>>

StatusFlags ==
  {"IDLE", "CONNECTING", "CONNECTED", "CLOSE_REQUESTED", "CLOSED", "ERROR",
   "RECEIVE_REQUESTED", "MESSAGE_RECEIVED", "MESSAGE_CONSUMED",
   "SEND_REQUESTED", "SENDING", "MESSAGE_SENT", "MESSAGE_SENT_CONSUMED",
   "CONNECTED_CONSUMED", "CLOSED_CONSUMED", "CLIENT_SOCKET_CONNECTED",
   "CLIENT_SOCKET_CONNECTED_CONSUMED"}

ConfigFlags == {"ISSERVER", "ENABLE_REDUCED_HEADER4"}

\* An invalid preamble has the wrong magic or an unknown version; one that says
\* the message has 0 bytes is taken for valid.
Kinds == {"good", "badmagic", "badversion", "nosize"}

Has(f) == f \in connection_state
Any(fs) == fs \cap connection_state # {}

IsServer == "ISSERVER" \in config_flags

\* Stream offset of the first byte in recv_buffer.
Base == taken - recv_buffer_pos

\* Offset one past the last message of a stream.
End(stream) ==
  IF stream = <<>> THEN 0
  ELSE stream[Len(stream)].start + stream[Len(stream)].len

\* The four magic bytes at stream offset b are right.
MagicAt(b) ==
  \E i \in DOMAIN inbound : inbound[i].start = b /\ inbound[i].kind # "badmagic"

\* The size field at stream offset b is read as l; v says whether the version is known.
PreambleAt(b, l, v) ==
  \E i \in DOMAIN inbound :
    /\ inbound[i].start = b
    /\ \/ inbound[i].kind = (IF v THEN "good" ELSE "badversion") /\ inbound[i].len = l
       \/ inbound[i].kind = "nosize" /\ v /\ l = 0

LeastOf(a, b) == IF a <= b THEN a ELSE b

-----------------------------------------------------------------------------
(* Events: node_next_event and node_consume_event for this connection. *)

ClosedEvent == Has("CLOSED") /\ ~Has("CLOSED_CONSUMED")
ErrorEvent_WhenConnected ==
  Has("ERROR") /\ Has("CONNECTED") /\ ~Any({"CLOSED", "CLOSE_REQUESTED"})
ErrorEvent == Has("ERROR") /\ ~Any({"CLOSED", "CLOSE_REQUESTED"})
ConnectedEvent == Has("CONNECTED") /\ ~Has("CONNECTED_CONSUMED")
SentEvent == Has("MESSAGE_SENT") /\ ~Has("MESSAGE_SENT_CONSUMED")
ReceivedEvent == Has("MESSAGE_RECEIVED") /\ ~Has("MESSAGE_CONSUMED")
SocketConnectedEvent ==
  Has("CLIENT_SOCKET_CONNECTED") /\ ~Has("CLIENT_SOCKET_CONNECTED_CONSUMED")

\* At most one event is reported per connection and pass, the first of this order.
NextEvent ==
  IF Has("IDLE") THEN "none"
  ELSE IF ClosedEvent THEN "closed"
  ELSE IF ErrorEvent THEN "error"
  ELSE IF ConnectedEvent THEN "connected"
  ELSE IF SentEvent THEN "sent"
  ELSE IF ReceivedEvent THEN "received"
  ELSE IF SocketConnectedEvent THEN "socket_connected"
  ELSE "none"

\* After the event pass the loop communicates again, or only drains the send side.
EndPass == pc' \in {"control", "send"}

-----------------------------------------------------------------------------
Init ==
  /\ transport_type = "none"
  /\ config_flags = {"ENABLE_REDUCED_HEADER4"}
  /\ connection_state = {"IDLE"}
  /\ sock = "none"
  /\ recv_buffer_pos = 0 /\ recv_message_len = 0
  /\ send_buffer_pos = 0 /\ send_message_len = 0
  /\ pc = "control"
  /\ link = "up" /\ inbound = <<>> /\ arrived = 0 /\ taken = 0
  /\ outbound = <<>> /\ wired = 0 /\ delivered = <<>> /\ session = 0

(***************************************************************************)
(* A new TCP session is bound to the idle slot: accept2 (the acceptor      *)
(* found this slot) or connect2 (tcp_connect_service did).  Neither        *)
(* touches the buffer positions: they rely on the reset that made the slot *)
(* idle.                                                                   *)
(***************************************************************************)
NewSession ==
  /\ Has("IDLE") /\ session < MaxSessions
  /\ transport_type' = "tcp" /\ sock' = "open"
  /\ connection_state' = {"CONNECTING"}
  /\ inbound' = <<>> /\ arrived' = 0 /\ taken' = 0
  /\ outbound' = <<>> /\ wired' = 0 /\ delivered' = <<>>
  /\ session' = session + 1
  /\ UNCHANGED <<recv_buffer_pos, recv_message_len,
                 send_buffer_pos, send_message_len, pc>>

\* impl_accept2, from tcp_acceptor_communicate: before or after this slot's
\* own turn in the pass, as the acceptor stands before or after it in the list.
Accept ==
  /\ pc \in {"control", "event"}
  /\ NewSession
  /\ config_flags' = config_flags \cup {"ISSERVER"}
  /\ link' = "up"

\* impl_connect2, from tcp_connect_service; the application calls it.
Connect ==
  /\ pc = "event"
  /\ NewSession
  /\ config_flags' = config_flags \ {"ISSERVER"}
  /\ link' = "connecting"

-----------------------------------------------------------------------------
(***************************************************************************)
(* tcp_socket_recv_nonblocking, asked for len bytes, returns m of them and *)
(* success or failure.  It reads until the request is met, the kernel has  *)
(* nothing more, or the socket fails; end of stream is a failure only when *)
(* nothing was read.                                                       *)
(***************************************************************************)
Dead == link \in {"reset", "refused"}
AtEof == link = "eof" /\ taken = arrived /\ arrived = End(inbound)

SocketRead(len, m, ok) ==
  /\ m \in 0..LeastOf(len, arrived - taken)
  /\ IF ok
     THEN /\ m = LeastOf(len, arrived - taken)
          /\ m < len => ~Dead /\ ~AtEof
     ELSE m < len /\ (Dead \/ AtEof)

-----------------------------------------------------------------------------
(* communicate_process_control *)

Controlled == pc = "control" /\ transport_type = "tcp"

\* impl_communicate_process_control returns CONSUMED.
ControlSkip ==
  /\ pc = "control"
  /\ \/ transport_type # "tcp"
     \/ Any({"CLOSED", "IDLE"}) /\ ~Has("CLOSED_CONSUMED")
  /\ pc' = "event"
  /\ UNCHANGED <<slot, connection_state, recvs, sends, peer, app>>

Reset_KeepsRecv ==
  /\ transport_type' = "none" /\ sock' = "none"
  /\ config_flags' = {"ENABLE_REDUCED_HEADER4"}
  /\ connection_state' = {"IDLE"}
  /\ UNCHANGED <<recv_buffer_pos, recv_message_len>>
  /\ send_buffer_pos' = 0 /\ send_message_len' = 0

Reset_KeepsSend ==
  /\ transport_type' = "none" /\ sock' = "none"
  /\ config_flags' = {"ENABLE_REDUCED_HEADER4"}
  /\ connection_state' = {"IDLE"}
  /\ recv_buffer_pos' = 0 /\ recv_message_len' = 0
  /\ UNCHANGED <<send_buffer_pos, send_message_len>>

\* connection_reset: the slot is idle again.
Reset ==
  /\ transport_type' = "none"
  /\ config_flags' = {"ENABLE_REDUCED_HEADER4"}
  /\ connection_state' = {"IDLE"}
  /\ sock' = "none"
  /\ recv_buffer_pos' = 0 /\ recv_message_len' = 0
  /\ send_buffer_pos' = 0 /\ send_message_len' = 0

ControlReset ==
  /\ Controlled /\ Has("CLOSED_CONSUMED")
  /\ Reset
  /\ pc' = "event"
  /\ UNCHANGED <<taken, wired, peer, app>>

ClosedState_KeepsFlags == connection_state \cup {"CLOSED"}

\* impl_communicate_after_close_requested assigns the whole flag word.
ClosedState == {"CLOSED"}

\* tcp_socket_close leaves the descriptor number in the slot.
ControlClose ==
  /\ Controlled /\ ~Any({"CLOSED_CONSUMED", "CLOSED", "IDLE"})
  /\ Has("CLOSE_REQUESTED")
  /\ sock' = "stale"
  /\ connection_state' = ClosedState
  /\ pc' = "recv"
  /\ UNCHANGED <<transport_type, config_flags, recvs, sends, peer, app>>

\* The control step goes on to the handshake.
Live ==
  Controlled /\ ~Any({"CLOSED_CONSUMED", "CLOSED", "IDLE", "CLOSE_REQUESTED"})

\* A raw peer opens with the magic; any other opening is refused with a status
\* but without setting a flag.
CheckMagic ==
  IF MagicAt(Base)
  THEN /\ connection_state' =
            (connection_state \ {"CONNECTING"})
              \cup {"CONNECTED", "RECEIVE_REQUESTED"}
       /\ pc' = "recv"
  ELSE pc' = "event" /\ UNCHANGED connection_state

HandshakeServer ==
  /\ Live /\ IsServer /\ Has("CONNECTING")
  /\ IF recv_buffer_pos >= MagicLen
     THEN CheckMagic /\ UNCHANGED <<recv_buffer_pos, taken>>
     ELSE \E m \in 0..MagicLen, ok \in BOOLEAN :
            /\ SocketRead(MagicLen, m, ok)
            /\ recv_buffer_pos' = recv_buffer_pos + m
            /\ taken' = taken + m
            /\ IF ok /\ recv_buffer_pos + m >= MagicLen
               THEN CheckMagic
               ELSE /\ pc' = "event"
                    /\ connection_state' =
                         connection_state \cup (IF ok THEN {} ELSE {"ERROR"})
  /\ UNCHANGED <<slot, recv_message_len, sends, peer, app>>

\* The client polls the connecting socket.
Polling == Live /\ ~IsServer /\ ~Has("CLIENT_SOCKET_CONNECTED")

ConnectPending ==
  /\ Polling /\ sock = "open" /\ link = "connecting"
  /\ pc' = "event"
  /\ UNCHANGED <<slot, connection_state, recvs, sends, peer, app>>

\* A refused connection may also show as writable: recv will then fail.
ConnectComplete ==
  /\ Polling /\ sock = "open" /\ link # "connecting"
  /\ connection_state' =
       connection_state \cup {"CLIENT_SOCKET_CONNECTED", "RECEIVE_REQUESTED"}
  /\ pc' = "recv"
  /\ UNCHANGED <<slot, recvs, sends, peer, app>>

\* is_connection_complete has closed the descriptor, or is polling one it closed
\* before; ERROR goes to config_flags, not to connection_state.
ConnectFails ==
  /\ Polling /\ (Dead \/ sock = "stale")
  /\ sock' = "stale"
  /\ config_flags' = config_flags \cup {"ERROR"}
  /\ pc' = "event"
  /\ UNCHANGED <<transport_type, connection_state, recvs, sends, peer, app>>

ControlPass ==
  /\ Live /\ IF IsServer THEN ~Has("CONNECTING") ELSE Has("CLIENT_SOCKET_CONNECTED")
  /\ pc' = "recv"
  /\ UNCHANGED <<slot, connection_state, recvs, sends, peer, app>>

ProcessControl ==
  \/ ControlSkip \/ ControlReset \/ ControlClose
  \/ HandshakeServer
  \/ ConnectPending \/ ConnectComplete \/ ConnectFails
  \/ ControlPass

-----------------------------------------------------------------------------
(* communicate_recv *)

RecvError ==
  /\ pc = "recv" /\ Has("ERROR")
  /\ pc' = "event"
  /\ UNCHANGED <<slot, connection_state, recvs, sends, peer, app>>

(***************************************************************************)
(* What impl_communicate_recv1 makes of the receive state: a consumed      *)
(* message is moved out of the buffer and the next one asked for.          *)
(***************************************************************************)
KeptPos ==
  IF Has("MESSAGE_CONSUMED") THEN recv_buffer_pos - recv_message_len
  ELSE recv_buffer_pos

KeptLen == IF Has("MESSAGE_CONSUMED") THEN 0 ELSE recv_message_len

KeptState_NothingRequested ==
  connection_state \
    (IF Has("MESSAGE_CONSUMED") THEN {"MESSAGE_CONSUMED", "MESSAGE_RECEIVED"} ELSE {})

KeptState ==
  IF Has("MESSAGE_CONSUMED")
  THEN (connection_state \ {"MESSAGE_CONSUMED", "MESSAGE_RECEIVED"})
         \cup {"RECEIVE_REQUESTED"}
  ELSE connection_state

ReadLen_WholeBuffer ==
  IF "RECEIVE_REQUESTED" \in KeptState THEN RecvBufLen ELSE 0

ReadLen_Unasked == IF KeptLen = 0 THEN HeaderRead ELSE RecvBufLen - KeptPos

\* A whole header is asked for until the size is known, then whatever fits.
ReadLen ==
  IF "RECEIVE_REQUESTED" \notin KeptState THEN 0
  ELSE IF KeptLen = 0 THEN HeaderRead
  ELSE RecvBufLen - KeptPos

RecvNothing ==
  /\ pc = "recv" /\ ~Has("ERROR") /\ ReadLen = 0
  /\ recv_buffer_pos' = KeptPos /\ recv_message_len' = KeptLen
  /\ connection_state' = KeptState
  /\ pc' = "send"
  /\ UNCHANGED <<slot, taken, sends, peer, app>>

\* What is left of recv_buffer, which recv1 does not compare with what it asks for
\* while the size is unknown.
Room == RecvBufLen - KeptPos

\* More arrives than there is room for.
RecvOverruns ==
  /\ pc = "recv" /\ ~Has("ERROR") /\ ReadLen > 0
  /\ \E m \in 0..ReadLen, ok \in BOOLEAN : m > Room /\ SocketRead(ReadLen, m, ok)
  /\ pc' = "overrun"
  /\ UNCHANGED <<slot, connection_state, recvs, sends, peer, app>>

Overrun == pc = "overrun" /\ UNCHANGED vars

RecvFails ==
  /\ pc = "recv" /\ ~Has("ERROR") /\ ReadLen > 0
  /\ \E m \in 0..LeastOf(ReadLen, Room) :
       /\ SocketRead(ReadLen, m, FALSE)
       /\ recv_buffer_pos' = KeptPos + m /\ taken' = taken + m
  /\ recv_message_len' = KeptLen
  /\ connection_state' = (KeptState \ {"RECEIVE_REQUESTED"}) \cup {"ERROR"}
  /\ pc' = "event"
  /\ UNCHANGED <<slot, sends, peer, app>>

\* verify_preamble on pos buffered bytes gives the length l and accepts or not.
Preamble(pos, l, ok) ==
  IF pos < PreambleLen \/ KeptLen # 0
  THEN l = KeptLen /\ ok
  ELSE \/ ~MagicAt(taken - KeptPos) /\ l = 0 /\ ~ok
       \/ PreambleAt(taken - KeptPos, l, ok)

ReceivedState_OffByOne(pos, l) ==
  IF l > 0 /\ pos + 1 >= l
  THEN (KeptState \ {"RECEIVE_REQUESTED"}) \cup {"MESSAGE_RECEIVED"}
  ELSE KeptState

\* impl_communicate_recv2 after pos bytes of a message of length l.
ReceivedState(pos, l) ==
  IF l > 0 /\ pos >= l
  THEN (KeptState \ {"RECEIVE_REQUESTED"}) \cup {"MESSAGE_RECEIVED"}
  ELSE KeptState

RecvBytes ==
  /\ pc = "recv" /\ ~Has("ERROR") /\ ReadLen > 0
  /\ \E m \in 0..LeastOf(ReadLen, Room), l \in MsgSizes \cup {0}, ok \in BOOLEAN :
       /\ SocketRead(ReadLen, m, TRUE)
       /\ recv_buffer_pos' = KeptPos + m /\ taken' = taken + m
       /\ Preamble(KeptPos + m, l, ok)
       /\ recv_message_len' = l
       /\ connection_state' =
            IF ok THEN ReceivedState(KeptPos + m, l)
            ELSE (KeptState \ {"RECEIVE_REQUESTED"}) \cup {"ERROR"}
       /\ pc' = IF ok THEN "send" ELSE "event"
  /\ UNCHANGED <<slot, sends, peer, app>>

Receive == RecvError \/ RecvNothing \/ RecvFails \/ RecvBytes \/ RecvOverruns

-----------------------------------------------------------------------------
(* communicate_send: after communicate_recv, and alone when draining *)

SendBusy_UntilFirstAttempt == Has("SEND_REQUESTED")

\* One of the send flags holds the send buffer: begin_send_message returns RETRY.
SendBusy ==
  Any({"SEND_REQUESTED", "SENDING", "MESSAGE_SENT", "MESSAGE_SENT_CONSUMED"})

\* impl_communicate_send1: the first attempt offers the whole message.
SendLen ==
  IF Has("SEND_REQUESTED") THEN send_message_len
  ELSE IF Has("SENDING") THEN send_message_len - send_buffer_pos
  ELSE 0

SendNothing ==
  /\ pc = "send"
  /\ Has("ERROR") \/ (~Has("MESSAGE_SENT_CONSUMED") /\ SendLen = 0)
  /\ pc' = "event"
  /\ UNCHANGED <<slot, connection_state, recvs, sends, peer, app>>

\* The sent message has been consumed: the send buffer is free.
SendRelease ==
  /\ pc = "send" /\ ~Has("ERROR") /\ Has("MESSAGE_SENT_CONSUMED")
  /\ connection_state' =
       connection_state \ {"MESSAGE_SENT_CONSUMED", "MESSAGE_SENT"}
  /\ send_buffer_pos' = 0 /\ send_message_len' = 0
  /\ pc' = "event"
  /\ UNCHANGED <<slot, recvs, wired, peer, app>>

SentState_KeepsSending(pos) ==
  (connection_state \ {"SEND_REQUESTED"})
    \cup (IF pos < send_message_len THEN {"SENDING"} ELSE {"MESSAGE_SENT"})

\* impl_communicate_send2 after pos bytes.
SentState(pos) ==
  LET s == connection_state \ {"SEND_REQUESTED"} IN
  IF pos < send_message_len THEN s \cup {"SENDING"}
  ELSE (s \ {"SENDING"}) \cup {"MESSAGE_SENT"}

\* The kernel accepts k of the bytes offered; on a dead socket send() fails.
SendBytes ==
  /\ pc = "send" /\ ~Has("ERROR") /\ ~Has("MESSAGE_SENT_CONSUMED")
  /\ SendLen > 0
  /\ \E k \in 0..SendLen :
       /\ k < SendLen \/ ~Dead
       /\ send_buffer_pos' = send_buffer_pos + k /\ wired' = wired + k
       /\ connection_state' =
            IF Dead THEN (connection_state \ {"SEND_REQUESTED"}) \cup {"ERROR"}
            ELSE SentState(send_buffer_pos + k)
  /\ pc' = "event"
  /\ UNCHANGED <<slot, recvs, send_message_len, peer, app>>

Transmit == SendNothing \/ SendRelease \/ SendBytes

-----------------------------------------------------------------------------
(* The event pass: node_run_next_event2, and what the application does in it *)

\* begin_send_message and end_send_message of a message of length l.
Queue(l) ==
  /\ outbound' = Append(outbound, [start |-> End(outbound), len |-> l])
  /\ send_message_len' = l

SendRefused ==
  Any({"ERROR", "CLOSED", "CLOSE_REQUESTED", "IDLE"}) \/ ~Has("CONNECTED")

SendMessage ==
  /\ pc = "event" /\ ~SendRefused /\ ~SendBusy /\ Len(outbound) < MaxOut
  /\ \E l \in SendSizes : Queue(l)
  /\ connection_state' = connection_state \cup {"SEND_REQUESTED"}
  /\ UNCHANGED <<slot, recvs, send_buffer_pos, wired, pc, peer, delivered, session>>

\* connection_close: by the application, at shutdown, or on a heartbeat timeout.
Close ==
  /\ pc = "event" /\ ~Has("IDLE") /\ ~Has("CLOSE_REQUESTED")
  /\ connection_state' = connection_state \cup {"CLOSE_REQUESTED"}
  /\ UNCHANGED <<slot, recvs, sends, pc, peer, app>>

\* The flag by which the node consumes an event; an error cannot be consumed,
\* the connection is closed instead.
EventFlag(e) ==
  CASE e = "closed" -> "CLOSED_CONSUMED"
    [] e = "error" -> "CLOSE_REQUESTED"
    [] e = "connected" -> "CONNECTED_CONSUMED"
    [] e = "sent" -> "MESSAGE_SENT_CONSUMED"

HandleStatus ==
  /\ pc = "event" /\ NextEvent \in {"closed", "error", "connected", "sent"}
  /\ connection_state' = connection_state \cup {EventFlag(NextEvent)}
  /\ EndPass
  /\ UNCHANGED <<slot, recvs, sends, peer, app>>

(***************************************************************************)
(* The handler takes the message at the front of the buffer.  A client     *)
(* still CONNECTING takes only the answer to its CreateConnection, which   *)
(* makes it CONNECTED.                                                     *)
(***************************************************************************)
HandleReceived ==
  /\ pc = "event" /\ NextEvent = "received"
  /\ delivered' = Append(delivered, Base)
  /\ IF ~IsServer /\ Has("CONNECTING")
     THEN /\ Has("CLIENT_SOCKET_CONNECTED_CONSUMED")
          /\ connection_state' =
               (connection_state \ {"CONNECTING"})
                 \cup {"CONNECTED", "MESSAGE_CONSUMED"}
     ELSE connection_state' = connection_state \cup {"MESSAGE_CONSUMED"}
  /\ EndPass
  /\ UNCHANGED <<slot, recvs, sends, peer, outbound, session>>

\* The handler fails: the connection is closed, the event is not consumed.
RejectReceived ==
  /\ pc = "event" /\ NextEvent = "received"
  /\ connection_state' = connection_state \cup {"CLOSE_REQUESTED"}
  /\ EndPass
  /\ UNCHANGED <<slot, recvs, sends, peer, app>>

\* The client handshake sends CreateConnection, posing as CONNECTED to do it.
HandleSocketConnected ==
  /\ pc = "event" /\ NextEvent = "socket_connected"
  /\ IF Any({"ERROR", "CLOSED", "CLOSE_REQUESTED"}) \/ SendBusy
     THEN /\ connection_state' =
               connection_state \cup {"CLIENT_SOCKET_CONNECTED_CONSUMED"}
          /\ UNCHANGED <<outbound, send_message_len>>
     ELSE /\ \E l \in SendSizes : Queue(l)
          /\ connection_state' =
               connection_state
                 \cup {"CLIENT_SOCKET_CONNECTED_CONSUMED", "SEND_REQUESTED"}
  /\ EndPass
  /\ UNCHANGED <<slot, recvs, send_buffer_pos, wired, peer, delivered, session>>

HandleEvent ==
  HandleStatus \/ HandleReceived \/ RejectReceived \/ HandleSocketConnected

\* No event, or its handler returned RETRY, or the pass was cut short before it.
PassWithout ==
  /\ pc = "event"
  /\ EndPass
  /\ UNCHANGED <<slot, connection_state, recvs, sends, peer, app>>

EventPass == HandleEvent \/ PassWithout

-----------------------------------------------------------------------------
(* The peer and the network *)

PeerWrites ==
  /\ sock = "open" /\ link = "up" /\ Len(inbound) < MaxIn
  /\ \E l \in MsgSizes, k \in Kinds :
       inbound' = Append(inbound, [start |-> End(inbound), len |-> l, kind |-> k])
  /\ UNCHANGED <<slot, connection_state, recvs, sends, pc, link, arrived, app>>

Arrive ==
  /\ sock = "open" /\ link \in {"up", "eof"}
  /\ arrived' \in (arrived + 1)..End(inbound)
  /\ UNCHANGED <<slot, connection_state, recvs, sends, pc, link, inbound, app>>

\* The connection attempt is answered; the peer closes; the connection breaks.
LinkChange ==
  /\ sock = "open"
  /\ \/ link = "connecting" /\ link' \in {"up", "refused"}
     \/ link = "up" /\ link' \in {"eof", "reset"}
     \/ link = "eof" /\ link' = "reset"
  /\ UNCHANGED <<slot, connection_state, recvs, sends, pc, inbound, arrived, app>>

Next ==
  \/ Accept \/ Connect
  \/ ProcessControl \/ Receive \/ Transmit \/ EventPass
  \/ SendMessage \/ Close
  \/ PeerWrites \/ Arrive \/ LinkChange
  \/ Overrun

-----------------------------------------------------------------------------
(***************************************************************************)
(* The loop always runs its next step.  The drain loop is bounded by       *)
(* max_cycles, so whole passes recur; a handler does not answer RETRY for  *)
(* ever; the network delivers what was written; a peer that keeps the      *)
(* connection goes on reading what is sent.                                *)
(***************************************************************************)
Fairness ==
  /\ WF_vars(ProcessControl) /\ WF_vars(Receive) /\ WF_vars(Transmit)
  /\ WF_vars(EventPass)
  /\ SF_vars(EventPass /\ pc' = "control")
  /\ SF_vars(HandleEvent)
  /\ SF_vars(Transmit /\ wired' > wired)
  /\ WF_vars(Arrive)

SafetySpec == Init /\ [][Next]_vars

Spec == SafetySpec /\ Fairness

-----------------------------------------------------------------------------
(* What the connection promises *)

Frame == [start : Nat, len : SendSizes]
PeerFrame == [start : Nat, len : MsgSizes, kind : Kinds]

\* Every variable keeps its type.  config_flags may hold the misplaced ERROR.
TypeOK ==
  /\ transport_type \in {"none", "tcp"}
  /\ config_flags \subseteq ConfigFlags \cup {"ERROR"}
  /\ connection_state \subseteq StatusFlags
  /\ sock \in {"none", "open", "stale"}
  /\ recv_buffer_pos \in Nat /\ recv_message_len \in Nat
  /\ send_buffer_pos \in Nat /\ send_message_len \in Nat
  /\ pc \in {"control", "recv", "send", "event", "overrun"}
  /\ link \in {"connecting", "up", "refused", "eof", "reset"}
  /\ inbound \in Seq(PeerFrame) /\ outbound \in Seq(Frame)
  /\ arrived \in Nat /\ taken \in Nat /\ wired \in Nat
  /\ delivered \in Seq(Int) /\ session \in Nat

\* The peer's message at the front of the buffer has a size field of 0.
FrontSaysNothing ==
  \E i \in DOMAIN inbound : inbound[i].start = Base /\ inbound[i].kind = "nosize"

\* communicate_recv asks the socket for more than is left of recv_buffer in two cases
\* only: it has just moved a message shorter than the 64 bytes it asks for out of the
\* buffer, or the message in front has a size field of 0 and is never complete.
ReadFits ==
  pc = "recv" /\ ~Has("ERROR") /\ ReadLen > 0 /\ ReadLen > Room =>
    \/ Has("MESSAGE_CONSUMED") /\ recv_message_len < HeaderRead
    \/ ~Has("MESSAGE_CONSUMED") /\ FrontSaysNothing

\* recv_buffer is overrun only in a session in which the peer has written a message
\* shorter than the 64 bytes recv1 asks for, or one with a size field of 0.
OverrunIsShort ==
  pc = "overrun" =>
    \E i \in DOMAIN inbound : inbound[i].kind = "nosize" \/ inbound[i].len < HeaderRead

\* The application is handed the peer's messages of this session in order, each
\* once, from its first byte: nothing of an earlier session or message is left.
InOrder ==
  /\ Len(delivered) <= Len(inbound)
  /\ \A i \in DOMAIN delivered : delivered[i] = inbound[i].start

\* A message shown to the application is the whole of one peer message, and valid.
WholeMessage ==
  ReceivedEvent =>
    \E i \in DOMAIN inbound :
      /\ inbound[i].start = Base
      /\ inbound[i].len = recv_message_len
      /\ inbound[i].kind = "good"
      /\ recv_message_len <= recv_buffer_pos

\* A message is accepted for sending only when the one before it has left the
\* send buffer, so no message is cut short by the next.
NeverOverwritten ==
  outbound # <<>> => outbound[Len(outbound)].start <= wired

\* A send-complete event tells the truth: everything accepted is on the wire.
SentIsSent ==
  SentEvent => wired = End(outbound)

\* The receive and send steps use the socket only while the slot owns it.
IoOwnsSocket ==
  Any({"RECEIVE_REQUESTED", "MESSAGE_CONSUMED", "SEND_REQUESTED", "SENDING"})
    => sock = "open"

\* While a received message waits for its handler, and while the handler reads
\* it, the loop leaves the receive buffer alone.
PendingIsStable ==
  [][ReceivedEvent => UNCHANGED recvs]_vars

\* Whoever is told of a closed, failed or received event of a session was not
\* told of that session's end before: CLOSED is the last event of a session.
ClosedIsLast ==
  [][Has("CLOSED_CONSUMED") =>
       /\ delivered' = delivered \/ session' # session
       /\ Has("CLOSED_CONSUMED")' \/ Has("IDLE")']_vars

\* connection.h lists ERROR among the status flags, where is_error looks for it:
\* a failed connection attempt is to be found there.
ConnectErrorReported ==
  sock = "stale" /\ Has("CONNECTING") => Has("ERROR")

\* The session is ending, the slot has no session, or recv_buffer has been overrun.
Down == Any({"ERROR", "CLOSE_REQUESTED", "CLOSED", "IDLE"}) \/ pc = "overrun"

\* The first n messages the peer has written are valid and fit in the buffer.
Readable(n) ==
  /\ n <= Len(inbound)
  /\ \A i \in 1..n :
       inbound[i].kind = "good" /\ inbound[i].len \in PreambleLen..RecvBufLen

\* What the peer writes reaches the application, or the session ends.
ReceiveProgress ==
  \A n \in 1..MaxIn :
    Readable(n) /\ link = "up" ~> Len(delivered) >= n \/ Down \/ link # "up"

\* A message given to the connection leaves it: the sender is not refused for ever.
SendSlotFrees == SendBusy ~> ~SendBusy \/ Down

\* Once a session is failing or asked to close, the slot becomes idle again.
SlotReturns == Any({"ERROR", "CLOSE_REQUESTED", "CLOSED"}) ~> Has("IDLE")

-----------------------------------------------------------------------------
(***************************************************************************)
(* The connection implements MessageChannel: a delivered offset stands for *)
(* the peer message that starts there, and a message is out when send()    *)
(* has accepted its last byte.                                             *)
(***************************************************************************)
Phase ==
  IF Has("IDLE") THEN "idle" ELSE IF Has("CLOSED") THEN "closed" ELSE "open"

Handed ==
  [i \in DOMAIN delivered |->
     CHOOSE m \in {inbound[j] : j \in DOMAIN inbound} : m.start = delivered[i]]

Out(stream, n) == {i \in DOMAIN stream : stream[i].start + stream[i].len <= n}

Channel ==
  INSTANCE MessageChannel WITH
    Message <- PeerFrame,
    phase <- Phase,
    written <- inbound,
    handed <- Handed,
    taken <- Len(outbound),
    sent <- Cardinality(Out(outbound, wired))

\* Every step of the slot is a step of the channel it promises, or none: what the
\* flags allow never shows as a lost, repeated or interleaved message.
IsChannel == Channel!ChannelSpec

-----------------------------------------------------------------------------
(* The inductive invariant behind the safety properties *)

InSession == ~Any({"IDLE", "CLOSED"})

\* Messages that have left the receive buffer.
Popped == IF Has("MESSAGE_CONSUMED") THEN Len(delivered) - 1 ELSE Len(delivered)

\* Stream offset where the n-th message of the peer ends.
Offset(n) == IF n = 0 THEN 0 ELSE inbound[n].start + inbound[n].len

\* Messages lie end to end.  The second conjunct follows from the others by
\* induction on the stream; as part of the invariant it need not.
Contiguous(stream) ==
  /\ \A i \in DOMAIN stream :
       stream[i].start =
         IF i = 1 THEN 0 ELSE stream[i - 1].start + stream[i - 1].len
  /\ \A i, j \in DOMAIN stream :
       i < j => stream[i].start + stream[i].len <= stream[j].start

\* Which status flags go together.
FlagInv ==
  /\ Has("IDLE") => connection_state = {"IDLE"}
  /\ Has("CLOSED") =>
       connection_state \subseteq {"CLOSED", "CLOSED_CONSUMED", "CLOSE_REQUESTED"}
  /\ Has("CLOSED_CONSUMED") => Has("CLOSED")
  /\ Has("MESSAGE_CONSUMED") => Has("MESSAGE_RECEIVED")
  /\ Has("MESSAGE_RECEIVED") => ~Has("RECEIVE_REQUESTED")
  /\ Has("MESSAGE_SENT_CONSUMED") => Has("MESSAGE_SENT")
  /\ Has("SEND_REQUESTED") => ~Any({"SENDING", "MESSAGE_SENT"})
  /\ Has("SENDING") => ~Has("MESSAGE_SENT")

\* An idle slot is clean.
IdleInv ==
  Has("IDLE") =>
    /\ recv_buffer_pos = 0 /\ recv_message_len = 0
    /\ send_buffer_pos = 0 /\ send_message_len = 0

\* A server owns its socket from accept to close, a client from the completed
\* connection on; before that it does no input or output.  A server in its
\* handshake has asked for no message.
SockInv ==
  InSession =>
    /\ IsServer /\ Has("CONNECTING") =>
         ~Any({"RECEIVE_REQUESTED", "MESSAGE_RECEIVED"})
    /\ IsServer \/ Has("CLIENT_SOCKET_CONNECTED") => sock = "open"
    /\ IsServer \/ Has("CLIENT_SOCKET_CONNECTED")
         \/ ~Any({"CONNECTED", "RECEIVE_REQUESTED", "MESSAGE_RECEIVED",
                  "SEND_REQUESTED", "SENDING", "MESSAGE_SENT"})

\* The buffer starts where the last message to leave it ended, and
\* recv_message_len is the length of the message there.
RecvInv ==
  InSession =>
    /\ taken <= arrived
    /\ recv_buffer_pos <= RecvBufLen
    /\ Base = Offset(Popped)
    /\ Has("MESSAGE_CONSUMED") => delivered # <<>>
    /\ recv_message_len = 0 /\ ~Has("ERROR") =>
         \/ recv_buffer_pos < PreambleLen
         \/ Popped < Len(inbound) /\ inbound[Popped + 1].kind = "nosize"
    /\ recv_message_len > 0 =>
         /\ Popped < Len(inbound)
         /\ inbound[Popped + 1].len = recv_message_len
         /\ ~Has("ERROR") => inbound[Popped + 1].kind = "good"
    /\ Has("MESSAGE_RECEIVED") =>
         /\ 0 < recv_message_len /\ recv_message_len <= recv_buffer_pos
         /\ inbound[Popped + 1].kind = "good"

\* What of the last accepted message is on the wire, by its send flag.
SendInv ==
  InSession =>
    /\ ~SendBusy /\ ~Has("ERROR") => send_buffer_pos = 0 /\ wired = End(outbound)
    /\ Has("SEND_REQUESTED") => send_buffer_pos = 0
    /\ Has("SENDING") => send_buffer_pos < send_message_len
    /\ Any({"SEND_REQUESTED", "SENDING"}) =>
         /\ outbound # <<>>
         /\ send_message_len = outbound[Len(outbound)].len
         /\ wired = outbound[Len(outbound)].start + send_buffer_pos
    /\ Has("MESSAGE_SENT") => wired = End(outbound)

\* The invariant that every step preserves; it implies the safety properties.
CoreInv ==
  /\ TypeOK
  /\ FlagInv /\ IdleInv /\ SockInv
  /\ Contiguous(inbound) /\ arrived <= End(inbound)
  /\ InOrder /\ RecvInv
  /\ NeverOverwritten /\ SendInv

\* With what it implies of the reads and what these make of recv_buffer.
IInv == CoreInv /\ ReadFits /\ OverrunIsShort
=============================================================================
