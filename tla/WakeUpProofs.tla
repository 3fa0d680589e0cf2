---------------------------- MODULE WakeUpProofs ----------------------------
(***************************************************************************)
(* The loop never sleeps on work that only this side can go on with, for   *)
(* every size of header, message and buffer.  WakeInv is what the steps    *)
(* preserve beside CoreInv; what waits at a sleep then follows from the flags *)
(* that the three functions behind poll() look at.                         *)
(***************************************************************************)
EXTENDS WakeUp, ConnectionProofs

LEMMA InitWakeInv == Init => WakeInv
  BY DEF Init, WakeInv, ListenInv, WholeInv, FreshInv, InSession, Any

\* A session begins CONNECTING, in a slot whose buffer is empty.
LEMMA SessionWakes == CoreInv /\ (Accept \/ Connect) => WakeInv'
<1> SUFFICES ASSUME CoreInv, Accept \/ Connect PROVE WakeInv'
  OBVIOUS
<1>1. /\ connection_state' = {"CONNECTING"}
      /\ recv_message_len' = 0
  BY DEF Accept, Connect, NewSession, CoreInv, IdleInv
<1>2. WholeInv' /\ FreshInv'
  BY <1>1 DEF WholeInv, FreshInv
<1>3. ListenInv'
  BY <1>1 DEF ListenInv, InSession, Has, Any
<1> QED
  BY <1>2, <1>3 DEF WakeInv

\* A step that ends no wait of the receive side: it reads nothing, and takes none of
\* the flags by which the receive side is waited for.
LEMMA Listening ==
  ASSUME WakeInv, UNCHANGED <<recv_buffer_pos, recv_message_len>>,
         InSession' => InSession, IsServer' <=> IsServer,
         Any({"RECEIVE_REQUESTED", "MESSAGE_RECEIVED", "ERROR"})
           => Any({"RECEIVE_REQUESTED", "MESSAGE_RECEIVED", "ERROR"})',
         Any({"MESSAGE_RECEIVED", "ERROR"}) => Any({"MESSAGE_RECEIVED", "ERROR"})',
         Has("CONNECTING")' <=> Has("CONNECTING"),
         Has("CLIENT_SOCKET_CONNECTED")' <=> Has("CLIENT_SOCKET_CONNECTED")
  PROVE  WakeInv'
<1>1. ListenInv'
  BY DEF WakeInv, ListenInv
<1>2. WholeInv'
  BY DEF WakeInv, WholeInv
<1>3. FreshInv'
  BY DEF WakeInv, FreshInv
<1> QED
  BY <1>1, <1>2, <1>3 DEF WakeInv

\* The flags that Listening asks about, when a step only adds to the flag word, or takes
\* flags of the send side.
LEMMA FlagsGrow ==
  ASSUME WakeInv, UNCHANGED <<recv_buffer_pos, recv_message_len>>,
         config_flags' \cap {"ISSERVER"} = config_flags \cap {"ISSERVER"},
         \A f \in connection_state : f \in connection_state' \/ f \in SendFlags,
         Has("CONNECTING")' => Has("CONNECTING"),
         Has("CLIENT_SOCKET_CONNECTED")' => Has("CLIENT_SOCKET_CONNECTED")
  PROVE  WakeInv'
<1>1. \A f \in {"RECEIVE_REQUESTED", "MESSAGE_RECEIVED", "ERROR", "CONNECTING",
                "CLIENT_SOCKET_CONNECTED", "IDLE", "CLOSED"} : Has(f) => Has(f)'
  BY DEF Has, SendFlags
<1>2. InSession' => InSession
  BY <1>1 DEF InSession, Has, Any
<1>3. IsServer' <=> IsServer
  BY DEF IsServer
<1>4. /\ Any({"RECEIVE_REQUESTED", "MESSAGE_RECEIVED", "ERROR"})
           => Any({"RECEIVE_REQUESTED", "MESSAGE_RECEIVED", "ERROR"})'
      /\ Any({"MESSAGE_RECEIVED", "ERROR"}) => Any({"MESSAGE_RECEIVED", "ERROR"})'
  BY <1>1 DEF Has, Any
<1> QED
  BY <1>1, <1>2, <1>3, <1>4, Listening

\* A step that leaves the slot without a session.
LEMMA NoSession == ~InSession' => WakeInv'
  BY DEF WakeInv, ListenInv, WholeInv, FreshInv

-----------------------------------------------------------------------------
(* The control step *)

LEMMA HandshakeWakes == CoreInv /\ WakeInv /\ HandshakeServer => WakeInv'
<1> SUFFICES ASSUME CoreInv, WakeInv, HandshakeServer PROVE WakeInv'
  OBVIOUS
<1>1. /\ recv_message_len' = 0 /\ UNCHANGED slot
      /\ Has("CONNECTING") /\ IsServer
  BY DEF HandshakeServer, Live, WakeInv, FreshInv, InSession, Any
<1>2. PICK S : /\ connection_state' = S
               /\ \/ S = connection_state
                  \/ S = connection_state \cup {"ERROR"}
                  \/ S = (connection_state \ {"CONNECTING"})
                           \cup {"CONNECTED", "RECEIVE_REQUESTED"}
  BY DEF HandshakeServer, CheckMagic
<1>3. WholeInv' /\ FreshInv'
  BY <1>1 DEF WholeInv, FreshInv
<1>4. ListenInv'
  BY <1>1, <1>2 DEF ListenInv, IsServer, slot, Has, Any
<1> QED
  BY <1>3, <1>4 DEF WakeInv

LEMMA ControlWakes == CoreInv /\ WakeInv /\ ProcessControl => WakeInv'
<1> SUFFICES ASSUME CoreInv, WakeInv, ProcessControl PROVE WakeInv'
  OBVIOUS
<1>1. CASE ControlSkip \/ ConnectPending \/ ControlPass
  BY <1>1, FlagsGrow DEF ControlSkip, ConnectPending, ControlPass, slot, recvs, Has
<1>2. CASE ControlReset \/ ControlClose
  BY <1>2, NoSession
     DEF ControlReset, Reset, ControlClose, ClosedState, InSession, Any
<1>3. CASE HandshakeServer
  BY <1>3, HandshakeWakes
<1>4. CASE ConnectComplete
  <2>1. /\ Has("RECEIVE_REQUESTED")' /\ ~IsServer'
        /\ InSession' => InSession
        /\ UNCHANGED <<recv_buffer_pos, recv_message_len>>
        /\ Any({"MESSAGE_RECEIVED", "ERROR"}) => Any({"MESSAGE_RECEIVED", "ERROR"})'
    BY <1>4 DEF ConnectComplete, Polling, IsServer, InSession, slot, recvs, Has, Any
  <2>2. ListenInv'
    BY <2>1 DEF ListenInv, Has, Any
  <2>3. WholeInv' /\ FreshInv'
    BY <2>1 DEF WakeInv, WholeInv, FreshInv
  <2> QED
    BY <2>2, <2>3 DEF WakeInv
<1>5. CASE ConnectFails
  BY <1>5, FlagsGrow DEF ConnectFails, recvs, Has
<1> QED
  BY <1>1, <1>2, <1>3, <1>4, <1>5 DEF ProcessControl

-----------------------------------------------------------------------------
(* The receive step *)

\* A read that was asked for leaves a message, an error, or a request for the rest.
LEMMA ReadWakes ==
  ASSUME CoreInv, "RECEIVE_REQUESTED" \in KeptState, UNCHANGED slot, TypeOK',
         Has("CONNECTING")' => Has("CONNECTING"),
         InSession,
         \/ Any({"MESSAGE_RECEIVED", "ERROR"})'
         \/ /\ connection_state' = KeptState
            /\ recv_message_len' > 0 => recv_buffer_pos' < recv_message_len'
  PROVE  WakeInv'
<1>1. ListenInv'
  BY DEF ListenInv, Has, Any
<1>2. WholeInv'
  BY DEF WholeInv, TypeOK
<1>3. ~(Has("CONNECTING") /\ IsServer)
  BY DEF CoreInv, SockInv, FlagInv, KeptState, Has, Any
<1>4. FreshInv'
  BY <1>3 DEF FreshInv, IsServer, slot
<1> QED
  BY <1>1, <1>2, <1>4 DEF WakeInv

LEMMA ReceiveWakes == CoreInv /\ WakeInv /\ Receive => WakeInv'
<1> SUFFICES ASSUME CoreInv, WakeInv, Receive PROVE WakeInv'
  OBVIOUS
<1>0. TypeOK'
  BY ReceiveStep DEF CoreInv
<1>1. CASE RecvError \/ RecvOverruns
  BY <1>1, FlagsGrow DEF RecvError, RecvOverruns, slot, recvs, Has
<1>2. CASE RecvNothing
  <2>1. /\ UNCHANGED slot /\ connection_state' = KeptState /\ ~Has("ERROR")
        /\ recv_buffer_pos' = KeptPos /\ recv_message_len' = KeptLen /\ ReadLen = 0
    BY <1>2 DEF RecvNothing
  <2>2. CASE Has("MESSAGE_CONSUMED")
    BY <2>1, <2>2, SizeFacts DEF KeptState, KeptLen, ReadLen
  <2>3. CASE ~Has("MESSAGE_CONSUMED")
    BY <2>1, <2>3, FlagsGrow DEF KeptState, KeptPos, KeptLen, slot, Has
  <2> QED
    BY <2>2, <2>3
<1>3. CASE RecvFails
  <2>1. /\ UNCHANGED slot
        /\ connection_state' = (KeptState \ {"RECEIVE_REQUESTED"}) \cup {"ERROR"}
        /\ InSession /\ "RECEIVE_REQUESTED" \in KeptState
    BY <1>3, ReadInSession DEF RecvFails
  <2>2. /\ Any({"MESSAGE_RECEIVED", "ERROR"})'
        /\ Has("CONNECTING")' => Has("CONNECTING")
    BY <2>1 DEF KeptState, Has, Any
  <2> QED
    BY <1>0, <2>1, <2>2, ReadWakes
<1>4. CASE RecvBytes
  <2>1. /\ UNCHANGED slot /\ ~Has("ERROR")
        /\ InSession /\ "RECEIVE_REQUESTED" \in KeptState
    BY <1>4, ReadInSession DEF RecvBytes
  <2>2. PICK m \in 0..LeastOf(ReadLen, Room), l \in MsgSizes \cup {0}, ok \in BOOLEAN :
          /\ recv_buffer_pos' = KeptPos + m /\ recv_message_len' = l
          /\ connection_state' =
               IF ok THEN ReceivedState(KeptPos + m, l)
               ELSE (KeptState \ {"RECEIVE_REQUESTED"}) \cup {"ERROR"}
    BY <1>4 DEF RecvBytes
  <2>3. Has("CONNECTING")' => Has("CONNECTING")
    BY <2>2 DEF ReceivedState, KeptState, Has
  <2>4. CASE ~ok
    BY <1>0, <2>1, <2>2, <2>3, <2>4, ReadWakes DEF Has, Any
  <2>5. CASE ok /\ l > 0 /\ KeptPos + m >= l
    BY <1>0, <2>1, <2>2, <2>3, <2>5, ReadWakes DEF ReceivedState, Has, Any
  <2>6. CASE ok /\ ~(l > 0 /\ KeptPos + m >= l)
    <3>1. recv_message_len' > 0 => recv_buffer_pos' < recv_message_len'
      BY <1>0, <2>2, <2>6 DEF TypeOK
    <3> QED
      BY <1>0, <2>1, <2>2, <2>3, <2>6, <3>1, ReadWakes DEF ReceivedState
  <2> QED
    BY <2>4, <2>5, <2>6
<1> QED
  BY <1>1, <1>2, <1>3, <1>4 DEF Receive

-----------------------------------------------------------------------------
(* The send step, the event pass, and the peer *)

LEMMA TransmitWakes == CoreInv /\ WakeInv /\ Transmit => WakeInv'
<1> SUFFICES ASSUME CoreInv, WakeInv, Transmit PROVE WakeInv'
  OBVIOUS
<1>1. /\ UNCHANGED <<slot, recvs>>
      /\ \A f \in connection_state : f \in connection_state' \/ f \in SendFlags
      /\ Has("CONNECTING")' => Has("CONNECTING")
      /\ Has("CLIENT_SOCKET_CONNECTED")' => Has("CLIENT_SOCKET_CONNECTED")
  BY DEF Transmit, SendNothing, SendRelease, SendBytes, SentState, SendFlags, Has
<1> QED
  BY <1>1, FlagsGrow DEF slot, recvs

\* The client that takes the answer to its CreateConnection has a message in its hands.
LEMMA ReceivedWakes == CoreInv /\ WakeInv /\ HandleReceived => WakeInv'
<1> SUFFICES ASSUME CoreInv, WakeInv, HandleReceived PROVE WakeInv'
  OBVIOUS
<1>1. /\ Has("MESSAGE_RECEIVED")' /\ UNCHANGED <<slot, recvs>>
      /\ InSession' => InSession
      /\ Has("CONNECTING")' => Has("CONNECTING")
  BY DEF HandleReceived, NextEvent, ReceivedEvent, InSession, Has, Any
<1>2. ListenInv' /\ WholeInv'
  BY <1>1 DEF ListenInv, WholeInv, Has, Any
<1>3. FreshInv'
  BY <1>1 DEF WakeInv, FreshInv, IsServer, slot, recvs
<1> QED
  BY <1>2, <1>3 DEF WakeInv

LEMMA EventWakes == CoreInv /\ WakeInv /\ EventPass => WakeInv'
<1> SUFFICES ASSUME CoreInv, WakeInv, EventPass PROVE WakeInv'
  OBVIOUS
<1>1. CASE HandleStatus
  <2>1. EventFlag(NextEvent) \in {"CLOSED_CONSUMED", "CLOSE_REQUESTED",
                                  "CONNECTED_CONSUMED", "MESSAGE_SENT_CONSUMED"}
    BY <1>1 DEF HandleStatus, EventFlag
  <2> QED
    BY <1>1, <2>1, FlagsGrow DEF HandleStatus, slot, recvs, Has
<1>2. CASE HandleReceived
  BY <1>2, ReceivedWakes
<1>3. CASE RejectReceived
  BY <1>3, FlagsGrow DEF RejectReceived, slot, recvs, Has
<1>4. CASE HandleSocketConnected
  BY <1>4, FlagsGrow DEF HandleSocketConnected, slot, recvs, Has
<1>5. CASE PassWithout
  BY <1>5, FlagsGrow DEF PassWithout, slot, recvs, Has
<1> QED
  BY <1>1, <1>2, <1>3, <1>4, <1>5 DEF EventPass, HandleEvent

LEMMA WakeStep == CoreInv /\ WakeInv /\ [Next]_vars => WakeInv'
<1> SUFFICES ASSUME CoreInv, WakeInv, [Next]_vars PROVE WakeInv'
  OBVIOUS
<1>1. CASE Accept \/ Connect
  BY <1>1, SessionWakes
<1>2. CASE ProcessControl \/ Receive
  BY <1>2, ControlWakes, ReceiveWakes
<1>3. CASE Transmit \/ EventPass
  BY <1>3, TransmitWakes, EventWakes
<1>4. CASE SendMessage \/ Close
  BY <1>4, FlagsGrow DEF SendMessage, Close, slot, recvs, Has
<1>5. CASE PeerWrites \/ Arrive \/ LinkChange
  BY <1>5, FlagsGrow DEF PeerWrites, Arrive, LinkChange, slot, recvs, Has
<1>6. CASE Overrun \/ UNCHANGED vars
  BY <1>6, FlagsGrow DEF Overrun, vars, slot, recvs, Has
<1> QED
  BY <1>1, <1>2, <1>3, <1>4, <1>5, <1>6 DEF Next

-----------------------------------------------------------------------------
(* What waits at a sleep *)

\* Bytes that are not on the wire are in the send buffer, and poll() waits for room.
LEMMA SendIsWaitedFor == CoreInv /\ Sleeps /\ InSession /\ wired < End(outbound) => WantSend
<1> SUFFICES ASSUME CoreInv, Sleeps, InSession, wired < End(outbound) PROVE WantSend
  OBVIOUS
<1>1. ~Has("MESSAGE_SENT") /\ ~Has("ERROR")
  BY DEF Sleeps, WakesNow, InSession, Has, Any
<1>2. SendBusy
  BY <1>1, OutFacts DEF CoreInv, SendInv, TypeOK
<1>3. Has("SEND_REQUESTED") \/ Has("SENDING")
  BY <1>1, <1>2 DEF CoreInv, FlagInv, SendBusy, SendFlags, Has, Any
<1>4. sock = "open" /\ ~Has("CLOSED")
  BY <1>3 DEF CoreInv, SockInv, InSession, Has, Any
<1> QED
  BY <1>3, <1>4 DEF WantSend, Active, Has, Any

\* A whole message at the front of the buffer would be shown, so there is none.
LEMMA NoneIsWaiting ==
  ASSUME CoreInv, WakeInv, Sleeps, InSession, NEW i \in DOMAIN inbound,
         inbound[i].start = Base, inbound[i].kind = "good"
  PROVE  recv_buffer_pos < inbound[i].len \/ recv_buffer_pos < PreambleLen
<1>1. ~Has("MESSAGE_RECEIVED") /\ ~Has("ERROR") /\ ~Has("MESSAGE_CONSUMED")
  BY DEF Sleeps, WakesNow, CoreInv, FlagInv, InSession, Has, Any
<1>2. /\ TypeOK /\ Contiguous(inbound) /\ RecvInv
      /\ Popped = Len(delivered) /\ Base = Offset(Len(delivered))
      /\ Len(delivered) \in Nat /\ Len(delivered) <= Len(inbound)
  BY <1>1 DEF CoreInv, InOrder, TypeOK, RecvInv, Popped
<1>3. Len(delivered) < Len(inbound) /\ i = Len(delivered) + 1
  BY <1>2, UniqueStart
<1>4. recv_message_len > 0 => recv_buffer_pos < recv_message_len
  BY <1>1, <1>2 DEF WakeInv, WholeInv, TypeOK, Has, Any
<1>5. recv_message_len > 0 => inbound[i].len = recv_message_len
  BY <1>2, <1>3 DEF RecvInv
<1>6. recv_message_len = 0 => recv_buffer_pos < PreambleLen
  BY <1>1, <1>2, <1>3 DEF RecvInv
<1> QED
  BY <1>2, <1>4, <1>5, <1>6 DEF TypeOK

\* The loop waits in poll() only when every accepted byte, every open session and every
\* message already read has something that ends the wait.
THEOREM SleepIsSafe == SafetySpec => []NeverSleepsOnWork
<1>1. Init => WakeInv
  BY InitWakeInv
<1>2. CoreInv /\ WakeInv /\ [Next]_vars => WakeInv'
  BY WakeStep
<1>3. CoreInv /\ WakeInv => NeverSleepsOnWork
  <2> SUFFICES ASSUME CoreInv, WakeInv, Sleeps, InSession
               PROVE  /\ wired < End(outbound) => WantSend
                      /\ sock = "open" => WantReceive \/ (Has("CONNECTING") /\ WantSend)
                      /\ \A i \in DOMAIN inbound :
                           inbound[i].start = Base /\ inbound[i].kind = "good" =>
                             \/ recv_buffer_pos < inbound[i].len
                             \/ recv_buffer_pos < PreambleLen
    BY DEF NeverSleepsOnWork
  <2>1. wired < End(outbound) => WantSend
    BY SendIsWaitedFor
  <2>2. sock = "open" => WantReceive \/ (Has("CONNECTING") /\ WantSend)
    BY DEF WakeInv, ListenInv, Sleeps, WakesNow, WantReceive, WantSend, Active,
           InSession, Has, Any
  <2> QED
    BY <2>1, <2>2, NoneIsWaiting
<1> QED
  BY <1>1, <1>2, <1>3, CoreInvariance, PTL DEF SafetySpec
=============================================================================
