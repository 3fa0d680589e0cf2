------------------------ MODULE ConnectionRefinement ------------------------
(***************************************************************************)
(* The slot implements MessageChannel: every step of Connection is a step  *)
(* of the channel under the mapping of the instance Channel, or none.      *)
(*                                                                         *)
(* What the mapping looks at is known from CoreInv, but for two facts that    *)
(* the slot's own safety does not need: what the application sends lies    *)
(* end to end, and a slot without a session has no socket.                 *)
(***************************************************************************)
EXTENDS ConnectionProofs, FiniteSetTheorems

MapInv ==
  /\ Contiguous(outbound)
  /\ sock = "open" => InSession

LEMMA InitMapInv == Init => MapInv
  BY DEF Init, MapInv, Contiguous

\* A message added after the end keeps the stream end to end.
LEMMA AppendedContiguous ==
  ASSUME outbound \in Seq(Frame), Contiguous(outbound), NEW l \in SendSizes,
         outbound' = Append(outbound, [start |-> End(outbound), len |-> l])
  PROVE  /\ Contiguous(outbound)' /\ End(outbound)' = End(outbound) + l
         /\ Len(outbound') = Len(outbound) + 1
         /\ outbound'[Len(outbound')].start = End(outbound)
<1>1. /\ End(outbound) \in Nat /\ l \in Nat
      /\ \A i \in DOMAIN outbound :
           /\ outbound[i].start \in Nat /\ outbound[i].len \in Nat
           /\ outbound[i].start + outbound[i].len <= End(outbound)
  BY StreamFacts, SizeFacts
<1>2. /\ Len(outbound) \in Nat /\ Len(outbound') = Len(outbound) + 1
      /\ \A i \in 1..Len(outbound) : outbound'[i] = outbound[i]
      /\ outbound'[Len(outbound) + 1] = [start |-> End(outbound), len |-> l]
      /\ DOMAIN outbound = 1..Len(outbound) /\ DOMAIN outbound' = 1..(Len(outbound) + 1)
      /\ outbound' # <<>>
  OBVIOUS
<1>3. ASSUME NEW i \in DOMAIN outbound'
      PROVE  outbound'[i].start =
               IF i = 1 THEN 0 ELSE outbound'[i - 1].start + outbound'[i - 1].len
  <2>1. CASE i \in 1..Len(outbound)
    <3>1. outbound[i].start =
            IF i = 1 THEN 0 ELSE outbound[i - 1].start + outbound[i - 1].len
      BY <1>2, <2>1 DEF Contiguous
    <3>2. outbound'[i] = outbound[i] /\ (i # 1 => outbound'[i - 1] = outbound[i - 1])
      BY <1>2, <2>1
    <3> QED
      BY <3>1, <3>2
  <2>2. CASE i = Len(outbound) + 1
    <3>1. outbound'[i].start = End(outbound)
      BY <1>2, <2>2
    <3>2. CASE i = 1
      <4>1. outbound = <<>>
        BY <1>2, <2>2, <3>2
      <4>2. End(outbound) = 0
        BY <4>1 DEF End
      <4> QED
        BY <3>1, <3>2, <4>2
    <3>3. CASE i # 1
      <4>1. i - 1 = Len(outbound) /\ Len(outbound) \in 1..Len(outbound)
        BY <1>2, <2>2, <3>3
      <4>2. outbound'[i - 1] = outbound[Len(outbound)] /\ outbound # <<>>
        BY <1>2, <4>1
      <4> QED
        BY <3>1, <3>3, <4>2 DEF End
    <3> QED
      BY <3>2, <3>3
  <2> QED
    BY <1>2, <2>1, <2>2
<1>4. ASSUME NEW i \in DOMAIN outbound', NEW j \in DOMAIN outbound', i < j
      PROVE  outbound'[i].start + outbound'[i].len <= outbound'[j].start
  <2>1. i \in 1..Len(outbound)
    BY <1>2, <1>4
  <2>2. CASE j \in 1..Len(outbound)
    BY <1>2, <1>4, <2>1, <2>2 DEF Contiguous
  <2>3. CASE j = Len(outbound) + 1
    BY <1>1, <1>2, <2>1, <2>3
  <2> QED
    BY <1>2, <2>2, <2>3
<1> QED
  BY <1>2, <1>3, <1>4 DEF Contiguous, End

\* What is queued for sending changes with a session, or by one message when the
\* send buffer is free.
LEMMA OutboundSteps ==
  ASSUME CoreInv, Next
  PROVE  \/ outbound' = outbound
         \/ NewSession
         \/ /\ SendMessage \/ HandleSocketConnected
            /\ InSession /\ ~Has("ERROR") /\ ~SendBusy
            /\ \E l \in SendSizes : Queue(l)
<1>1. CASE SendMessage
  BY <1>1 DEF SendMessage, SendRefused, InSession, Has, Any
<1>2. CASE HandleSocketConnected
  BY <1>2 DEF HandleSocketConnected, NextEvent, InSession, Has, Any
<1>3. CASE ~SendMessage /\ ~HandleSocketConnected
  BY <1>3 DEF Next, Accept, Connect,
         ProcessControl, ControlSkip, ControlReset, ControlClose,
         HandshakeServer, ConnectPending, ConnectComplete, ConnectFails, ControlPass,
         Receive, RecvError, RecvNothing, RecvFails, RecvBytes, RecvOverruns,
         Transmit, SendNothing, SendRelease, SendBytes,
         EventPass, HandleEvent, HandleStatus, HandleReceived, RejectReceived,
         PassWithout, Close, PeerWrites, Arrive, LinkChange, Overrun, vars, app
<1> QED
  BY <1>1, <1>2, <1>3

\* A session begins, ends or goes on.
LEMMA PhaseSteps ==
  ASSUME CoreInv, Next, ~NewSession, ~ControlClose, ~ControlReset
  PROVE  /\ Has("IDLE")' <=> Has("IDLE")
         /\ Has("CLOSED")' <=> Has("CLOSED")
         /\ sock' = "open" => sock = "open"
<1>1. CASE ProcessControl
  BY <1>1 DEF ProcessControl, ControlSkip, HandshakeServer, CheckMagic, ConnectPending,
              ConnectComplete, ConnectFails, ControlPass, slot, Has
<1>2. CASE Receive
  BY <1>2 DEF Receive, RecvError, RecvNothing, RecvFails, RecvBytes, RecvOverruns,
              ReceivedState, KeptState, slot, Has
<1>3. CASE Transmit
  BY <1>3 DEF Transmit, SendNothing, SendRelease, SendBytes, SentState, slot, Has
<1>4. CASE EventPass
  BY <1>4 DEF EventPass, HandleEvent, HandleStatus, EventFlag, HandleReceived,
              RejectReceived, HandleSocketConnected, PassWithout, slot, Has
<1>5. CASE SendMessage \/ Close \/ PeerWrites \/ Arrive \/ LinkChange \/ Overrun
  BY <1>5 DEF SendMessage, Close, PeerWrites, Arrive, LinkChange, Overrun, vars, slot, Has
<1> QED
  BY <1>1, <1>2, <1>3, <1>4, <1>5 DEF Next, Accept, Connect

LEMMA MapStep == CoreInv /\ MapInv /\ [Next]_vars => MapInv'
<1> SUFFICES ASSUME CoreInv, MapInv, [Next]_vars PROVE MapInv'
  OBVIOUS
<1>1. Contiguous(outbound)'
  <2>1. CASE outbound' = outbound
    BY <2>1 DEF MapInv, Contiguous
  <2>2. CASE NewSession
    BY <2>2 DEF NewSession, Contiguous
  <2>3. ASSUME NEW l \in SendSizes, Queue(l) PROVE Contiguous(outbound)'
    BY <2>3, AppendedContiguous DEF CoreInv, TypeOK, MapInv, Queue
  <2> QED
    BY <2>1, <2>2, <2>3, OutboundSteps DEF vars, app
<1>2. (sock = "open" => InSession)'
  <2>1. CASE NewSession
    BY <2>1 DEF NewSession, InSession, Any
  <2>2. CASE ControlClose \/ ControlReset
    BY <2>2 DEF ControlClose, ControlReset, Reset
  <2>3. CASE UNCHANGED vars
    BY <2>3 DEF vars, slot, MapInv, InSession, Any
  <2> QED
    BY <2>1, <2>2, <2>3, PhaseSteps DEF MapInv, InSession, Any, Has
<1> QED
  BY <1>1, <1>2 DEF MapInv

-----------------------------------------------------------------------------
(* The channel's variables *)

\* A delivered offset stands for the message that starts there: the messages handed
\* over are the first of those the peer has written.
LEMMA HandedFacts ==
  ASSUME CoreInv
  PROVE  Handed = [i \in 1..Len(delivered) |-> inbound[i]]
<1>0. /\ TypeOK /\ Contiguous(inbound) /\ InOrder
      /\ Len(delivered) \in Nat /\ DOMAIN delivered = 1..Len(delivered)
      /\ Len(delivered) <= Len(inbound) /\ DOMAIN inbound = 1..Len(inbound)
      /\ Len(inbound) \in Nat
  BY DEF CoreInv, InOrder, TypeOK
<1>1. ASSUME NEW i \in 1..Len(delivered)
      PROVE  (CHOOSE m \in {inbound[j] : j \in DOMAIN inbound} : m.start = delivered[i])
               = inbound[i]
  <2>1. i \in DOMAIN inbound /\ inbound[i].start = delivered[i]
    BY <1>0 DEF InOrder
  <2>2. ASSUME NEW j \in DOMAIN inbound, inbound[j].start = delivered[i]
        PROVE  inbound[j] = inbound[i]
    <3>1. i - 1 \in Nat /\ i - 1 < Len(inbound) /\ (i - 1) + 1 = i
      BY <1>0
    <3>2. inbound[i].start = Offset(i - 1)
      BY <1>0, <3>1, NextMessage
    <3>3. j = i
      BY <1>0, <2>1, <2>2, <3>1, <3>2, UniqueStart
    <3> QED
      BY <3>3
  <2> QED
    BY <2>1, <2>2
<1> QED
  BY <1>0, <1>1 DEF Handed

\* How many messages are out: all of them, or all but the last.
Sent == IF End(outbound) <= wired THEN Len(outbound) ELSE Len(outbound) - 1

LEMMA SentFacts ==
  ASSUME CoreInv, MapInv
  PROVE  Cardinality(Out(outbound, wired)) = Sent
<1>0. /\ outbound \in Seq(Frame) /\ Contiguous(outbound) /\ NeverOverwritten /\ wired \in Nat
      /\ Len(outbound) \in Nat /\ DOMAIN outbound = 1..Len(outbound)
  BY DEF CoreInv, TypeOK, MapInv
<1>1. /\ End(outbound) \in Nat
      /\ \A i \in DOMAIN outbound :
           /\ outbound[i].start \in Nat /\ outbound[i].len \in Nat
           /\ outbound[i].start + outbound[i].len <= End(outbound)
  BY <1>0, StreamFacts
<1>2. Out(outbound, wired) = 1..Sent
  <2>1. CASE End(outbound) <= wired
    <3>1. \A i \in DOMAIN outbound : outbound[i].start + outbound[i].len <= wired
      BY <1>0, <1>1, <2>1
    <3> QED
      BY <1>0, <2>1, <3>1 DEF Out, Sent
  <2>2. CASE ~(End(outbound) <= wired)
    <3>1. outbound # <<>> /\ Len(outbound) \in DOMAIN outbound
      BY <1>0, <2>2 DEF End
    <3>2. outbound[Len(outbound)].start + outbound[Len(outbound)].len = End(outbound)
      BY <3>1 DEF End
    <3>3. outbound[Len(outbound)].start <= wired
      BY <1>0, <3>1 DEF NeverOverwritten
    <3>4. ASSUME NEW i \in 1..(Len(outbound) - 1)
          PROVE  outbound[i].start + outbound[i].len <= wired
      <4>1. i \in DOMAIN outbound /\ i < Len(outbound)
        BY <1>0
      <4>2. outbound[i].start + outbound[i].len <= outbound[Len(outbound)].start
        BY <1>0, <3>1, <4>1 DEF Contiguous
      <4> QED
        BY <1>0, <1>1, <3>1, <3>3, <4>1, <4>2, SMTT(40)
    <3>5. Sent = Len(outbound) - 1
      BY <2>2 DEF Sent
    <3> QED
      BY <1>0, <2>2, <3>1, <3>2, <3>4, <3>5 DEF Out
  <2> QED
    BY <2>1, <2>2
<1>3. Sent \in Nat
  BY <1>0, <1>1 DEF Sent, End
<1> QED
  BY <1>2, <1>3, FS_Interval

\* The mapping without its choice and its count, in a state and after a step.
Mapped ==
  /\ Handed = [i \in 1..Len(delivered) |-> inbound[i]]
  /\ Cardinality(Out(outbound, wired)) = Sent

LEMMA MappedFacts == CoreInv /\ MapInv => Mapped
  BY HandedFacts, SentFacts DEF Mapped

LEMMA MappedNext == CoreInv' /\ MapInv' => Mapped'
  BY MappedFacts, PTL

LEMMA InitMaps == Init => Channel!ChannelInit
<1> SUFFICES ASSUME Init PROVE Channel!ChannelInit
  OBVIOUS
<1>1. CoreInv /\ MapInv
  BY InitCoreInv, InitMapInv
<1>2. Handed = <<>> /\ inbound = <<>> /\ outbound = <<>> /\ Has("IDLE")
  BY <1>1, HandedFacts DEF Init, Has
<1>3. Cardinality(Out(outbound, wired)) = 0
  BY <1>1, <1>2, SentFacts DEF Sent, End, Init
<1> QED
  BY <1>2, <1>3 DEF Channel!ChannelInit, Phase

-----------------------------------------------------------------------------
(* The steps, one lemma for each action of the channel *)

LEMMA PhaseFacts ==
  ASSUME CoreInv
  PROVE  /\ Has("IDLE") => Phase = "idle"
         /\ Has("CLOSED") => Phase = "closed"
         /\ InSession => Phase = "open"
  BY DEF CoreInv, FlagInv, Phase, InSession, Has, Any

LEMMA OpenStep ==
  ASSUME CoreInv, Mapped', NewSession
  PROVE  Channel!Open
<1>1. Phase = "idle" /\ Phase' = "open"
  BY PhaseFacts DEF NewSession, Phase, Has
<1>2. inbound' = <<>> /\ outbound' = <<>> /\ delivered' = <<>> /\ wired' = 0
  BY DEF NewSession
<1>3. Handed' = <<>> /\ Cardinality(Out(outbound, wired))' = 0
  BY <1>2 DEF Mapped, Sent, End
<1> QED
  BY <1>1, <1>2, <1>3 DEF Channel!Open

\* What a step that leaves the messages alone leaves of the mapping.
LEMMA SameMessages ==
  ASSUME UNCHANGED <<inbound, delivered, outbound, wired>>
  PROVE  UNCHANGED <<Handed, Cardinality(Out(outbound, wired))>>
  BY DEF Handed, Out

LEMMA ShutStep ==
  ASSUME CoreInv, ControlClose
  PROVE  Channel!Shut
<1>1. Phase = "open" /\ Phase' = "closed"
  BY DEF ControlClose, ClosedState, Phase, Has, Any
<1>2. UNCHANGED <<inbound, delivered, outbound, wired>>
  BY DEF ControlClose, sends, peer, app
<1> QED
  BY <1>1, <1>2, SameMessages DEF Channel!Shut

LEMMA ReleaseStep ==
  ASSUME CoreInv, ControlReset
  PROVE  Channel!Release
<1>1. Phase = "closed" /\ Phase' = "idle"
  BY PhaseFacts DEF ControlReset, Reset, CoreInv, FlagInv, Phase, Has
<1>2. UNCHANGED <<inbound, delivered, outbound, wired>>
  BY DEF ControlReset, peer, app
<1> QED
  BY <1>1, <1>2, SameMessages DEF Channel!Release

LEMMA WriteStep ==
  ASSUME CoreInv, MapInv, Mapped, Mapped', PeerWrites
  PROVE  Channel!Write
<1>1. /\ inbound \in Seq(PeerFrame) /\ Len(delivered) \in Nat /\ Len(inbound) \in Nat
      /\ Len(delivered) <= Len(inbound)
  BY DEF CoreInv, TypeOK, InOrder
<1>2. Phase = "open" /\ Phase' = Phase
  BY PhaseFacts DEF PeerWrites, MapInv, Phase, Has
<1>3. PICK l \in MsgSizes, k \in Kinds :
        inbound' = Append(inbound, [start |-> End(inbound), len |-> l, kind |-> k])
  BY DEF PeerWrites
<1>4. [start |-> End(inbound), len |-> l, kind |-> k] \in PeerFrame
  BY StreamFacts DEF CoreInv, TypeOK, PeerFrame
<1>5. /\ Len(inbound') = Len(inbound) + 1
      /\ inbound'[Len(inbound')] = [start |-> End(inbound), len |-> l, kind |-> k]
      /\ \A i \in 1..Len(inbound) : inbound'[i] = inbound[i]
  BY <1>1, <1>3
<1>6. UNCHANGED <<delivered, outbound, wired>>
  BY DEF PeerWrites, sends, app
<1>7. Handed' = Handed
  BY <1>1, <1>5, <1>6 DEF Mapped
<1>8. Cardinality(Out(outbound, wired))' = Cardinality(Out(outbound, wired))
  BY <1>6 DEF Out
<1> QED
  BY <1>2, <1>3, <1>4, <1>5, <1>6, <1>7, <1>8 DEF Channel!Write

LEMMA HandStep ==
  ASSUME CoreInv, Mapped, Mapped', HandleReceived
  PROVE  Channel!Hand
<1>1. Has("MESSAGE_RECEIVED") /\ ~Has("MESSAGE_CONSUMED") /\ InSession
  BY DEF HandleReceived, NextEvent, ReceivedEvent, InSession, CoreInv, FlagInv, Has, Any
<1>2. /\ Len(delivered) \in Nat /\ Len(inbound) \in Nat
      /\ Len(delivered) < Len(inbound)
  BY <1>1 DEF CoreInv, TypeOK, RecvInv, Popped
<1>3. Phase = "open" /\ Phase' = Phase
  BY <1>1, PhaseFacts DEF HandleReceived, Phase, Has
<1>4. UNCHANGED <<inbound, outbound, wired>> /\ delivered' = Append(delivered, Base)
  BY DEF HandleReceived, sends, peer
<1>5. Len(delivered') = Len(delivered) + 1
  BY <1>4 DEF CoreInv, TypeOK
<1>6. Handed' = Append(Handed, inbound[Len(Handed) + 1]) /\ Len(Handed) = Len(delivered)
  BY <1>2, <1>4, <1>5 DEF Mapped
<1>7. Cardinality(Out(outbound, wired))' = Cardinality(Out(outbound, wired))
  BY <1>4 DEF Out
<1> QED
  BY <1>2, <1>3, <1>4, <1>6, <1>7 DEF Channel!Hand

LEMMA TakeStep ==
  ASSUME CoreInv, MapInv, Mapped, Mapped', SendMessage \/ HandleSocketConnected,
         InSession, ~Has("ERROR"), ~SendBusy, NEW l \in SendSizes, Queue(l)
  PROVE  Channel!Take
<1>1. Phase = "open" /\ Phase' = Phase
  BY PhaseFacts DEF SendMessage, HandleSocketConnected, Phase, Has
<1>2. UNCHANGED <<inbound, delivered, wired>>
  BY DEF SendMessage, HandleSocketConnected, peer
<1>3. wired = End(outbound) /\ wired \in Nat /\ Len(outbound) \in Nat
  BY DEF CoreInv, TypeOK, SendInv
<1>4. /\ Len(outbound') = Len(outbound) + 1
      /\ End(outbound)' = End(outbound) + l /\ l \in Nat /\ 0 < l
  BY AppendedContiguous, SizeFacts DEF CoreInv, TypeOK, MapInv, Queue
<1>5. Sent = Len(outbound) /\ Sent' = Len(outbound)
  BY <1>2, <1>3, <1>4 DEF Sent
<1>6. Handed' = Handed
  BY <1>2 DEF Handed
<1> QED
  BY <1>1, <1>2, <1>4, <1>5, <1>6 DEF Channel!Take, Mapped

\* The last byte of a message makes it one more that is out; those before do not.
LEMMA OutStep ==
  ASSUME CoreInv, Mapped, Mapped', SendBytes
  PROVE  Channel!Out \/ UNCHANGED Channel!channel
<1>1. PICK k \in 0..SendLen : wired' = wired + k
  BY DEF SendBytes
<1>2. Any({"SEND_REQUESTED", "SENDING"}) /\ InSession
  BY DEF SendBytes, SendLen, CoreInv, FlagInv, InSession, Has, Any
<1>3. /\ outbound # <<>> /\ Len(outbound) \in Nat \ {0}
      /\ outbound[Len(outbound)].start \in Nat
      /\ send_message_len = outbound[Len(outbound)].len
      /\ wired = outbound[Len(outbound)].start + send_buffer_pos
      /\ send_message_len \in Nat /\ send_buffer_pos \in Nat
  <2>1. outbound[Len(outbound)] \in Frame /\ Len(outbound) \in Nat \ {0}
    BY <1>2 DEF CoreInv, TypeOK, SendInv
  <2> QED
    BY <1>2, <2>1 DEF CoreInv, TypeOK, SendInv, Frame
<1>4. End(outbound) = outbound[Len(outbound)].start + send_message_len
  BY <1>3 DEF End
<1>5. SendLen = End(outbound) - wired /\ SendLen > 0
  <2>1. SendLen > 0
    BY DEF SendBytes
  <2>2. \/ SendLen = send_message_len /\ send_buffer_pos = 0
        \/ SendLen = send_message_len - send_buffer_pos
    BY <1>2, <2>1 DEF SendLen, CoreInv, SendInv, Has, Any
  <2> HIDE DEF SendLen
  <2> QED
    BY <1>3, <1>4, <2>1, <2>2
<1>6. UNCHANGED <<inbound, delivered, outbound>> /\ End(outbound)' = End(outbound)
  BY DEF SendBytes, peer, app, End
<1>7. Phase = "open" /\ Phase' = Phase
  BY <1>2, PhaseFacts DEF SendBytes, SentState, Phase, Has
<1>8. Handed' = Handed
  BY <1>6 DEF Handed
<1>9. Sent = Len(outbound) - 1 /\ (Sent' = Sent \/ Sent' = Len(outbound))
  <2>1. Len(outbound') = Len(outbound)
    BY <1>6
  <2>2. ~(End(outbound) <= wired)
    BY <1>3, <1>4, <1>5, SMTT(40)
  <2>3. Sent = Len(outbound) - 1
    BY <2>2 DEF Sent
  <2>4. Sent' = Len(outbound) - 1 \/ Sent' = Len(outbound)
    BY <2>1 DEF Sent
  <2> QED
    BY <2>3, <2>4
<1> QED
  BY <1>3, <1>6, <1>7, <1>8, <1>9 DEF Channel!Out, Channel!channel, Mapped

LEMMA QuietStep ==
  ASSUME CoreInv, Next, ~NewSession, ~ControlClose, ~ControlReset, ~PeerWrites,
         ~HandleReceived, ~SendBytes, outbound' = outbound
  PROVE  UNCHANGED Channel!channel
<1>1. UNCHANGED <<inbound, delivered, wired>>
  BY DEF Next, Accept, Connect, ProcessControl, ControlSkip,
         HandshakeServer, ConnectPending, ConnectComplete, ConnectFails, ControlPass,
         Receive, RecvError, RecvNothing, RecvFails, RecvBytes, RecvOverruns,
         Transmit, SendNothing, SendRelease,
         EventPass, HandleEvent, HandleStatus, RejectReceived, HandleSocketConnected,
         PassWithout, SendMessage, Close, Arrive, LinkChange, Overrun, vars, sends, peer, app
<1>2. Phase' = Phase
  BY PhaseSteps DEF Phase
<1> QED
  BY <1>1, <1>2, SameMessages DEF Channel!channel

LEMMA ChannelStep ==
  ASSUME CoreInv, MapInv, Mapped, Mapped', [Next]_vars
  PROVE  [Channel!ChannelNext]_Channel!channel
<1> USE DEF Channel!ChannelNext
<1>1. CASE NewSession
  BY <1>1, OpenStep
<1>2. CASE ControlClose
  BY <1>2, ShutStep
<1>3. CASE ControlReset
  BY <1>3, ReleaseStep
<1>4. CASE PeerWrites
  BY <1>4, WriteStep
<1>5. CASE HandleReceived
  BY <1>5, HandStep
<1>6. CASE SendBytes
  BY <1>6, OutStep
<1>7. ASSUME SendMessage \/ HandleSocketConnected,
             InSession, ~Has("ERROR"), ~SendBusy, NEW l \in SendSizes, Queue(l)
      PROVE  Channel!Take
  BY <1>7, TakeStep
<1>8. CASE UNCHANGED vars
  BY <1>8, SameMessages DEF vars, peer, app, sends, Channel!channel, Phase, Has
<1> QED
  BY <1>1, <1>2, <1>3, <1>4, <1>5, <1>6, <1>7, <1>8, OutboundSteps, QuietStep

LEMMA SpecMapped == SafetySpec => [](CoreInv /\ MapInv)
<1>1. Init => MapInv
  BY InitMapInv
<1>2. CoreInv /\ MapInv /\ [Next]_vars => MapInv'
  BY MapStep
<1> QED
  BY <1>1, <1>2, CoreInvariance, PTL DEF SafetySpec

\* Whatever its flags and buffers do, the slot hands the peer's messages over in order
\* and once, sends one message at a time, and moves nothing after a session has closed.
THEOREM ImplementsChannel == SafetySpec => IsChannel
<1>1. CoreInv /\ MapInv /\ CoreInv' /\ MapInv' /\ [Next]_vars
        => [Channel!ChannelNext]_Channel!channel
  BY MappedFacts, MappedNext, ChannelStep
<1>2. Init => Channel!ChannelInit
  BY InitMaps
<1> QED
  BY <1>1, <1>2, SpecMapped, PTL DEF SafetySpec, IsChannel, Channel!ChannelSpec
=============================================================================
