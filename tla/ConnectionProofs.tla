-------------------------- MODULE ConnectionProofs --------------------------
(***************************************************************************)
(* Proofs about Connection, for every size of magic, preamble, header and  *)
(* buffer that SizeAssumption allows and whatever sizes the messages say   *)
(* they have.                                                              *)
(***************************************************************************)
EXTENDS Connection, TLAPS

\* Lengths are positive natural numbers.
LEMMA SizeFacts ==
  /\ MagicLen \in Nat /\ PreambleLen \in Nat /\ HeaderRead \in Nat
  /\ RecvBufLen \in Nat
  /\ 0 < MagicLen /\ 2 * MagicLen <= PreambleLen /\ PreambleLen <= HeaderRead
  /\ PreambleLen + HeaderRead <= RecvBufLen
  /\ \A l \in MsgSizes \cup SendSizes : l \in Nat /\ 0 < l
  BY SizeAssumption

LEMMA InitCoreInv == Init => CoreInv
<1> SUFFICES ASSUME Init PROVE CoreInv
  OBVIOUS
<1> USE DEF Init
<1>1. TypeOK
  BY DEF TypeOK, ConfigFlags, StatusFlags
<1>2. FlagInv /\ IdleInv /\ SockInv
  BY DEF FlagInv, IdleInv, SockInv, InSession, Has, Any
<1>3. Contiguous(inbound) /\ arrived <= End(inbound) /\ InOrder
  BY DEF Contiguous, End, InOrder
<1>4. RecvInv /\ NeverOverwritten /\ SendInv
  BY DEF RecvInv, NeverOverwritten, SendInv, InSession, Any
<1> QED
  BY <1>1, <1>2, <1>3, <1>4 DEF CoreInv

\* The end of a stream, and the order of its messages, in terms of TypeOK and
\* Contiguous alone.
LEMMA StreamFacts ==
  ASSUME NEW stream, stream \in Seq(Frame) \/ stream \in Seq(PeerFrame),
         Contiguous(stream)
  PROVE  /\ End(stream) \in Nat
         /\ \A i \in DOMAIN stream :
              /\ stream[i].start \in Nat /\ stream[i].len \in Nat
              /\ 0 < stream[i].len
              /\ stream[i].start + stream[i].len <= End(stream)
<1>1. ASSUME NEW i \in DOMAIN stream
      PROVE  stream[i].start \in Nat /\ stream[i].len \in Nat /\ 0 < stream[i].len
  <2>1. stream[i] \in Frame \/ stream[i] \in PeerFrame
    OBVIOUS
  <2>2. stream[i].start \in Nat /\ stream[i].len \in MsgSizes \cup SendSizes
    BY <2>1 DEF Frame, PeerFrame
  <2> QED
    BY <2>2, SizeFacts
<1>2. End(stream) \in Nat
  BY <1>1 DEF End
<1>3. ASSUME NEW i \in DOMAIN stream
      PROVE  stream[i].start + stream[i].len <= End(stream)
  <2>1. i \in 1..Len(stream) /\ Len(stream) \in DOMAIN stream /\ stream # <<>>
    OBVIOUS
  <2>2. CASE i = Len(stream)
    BY <2>1, <2>2, <1>1 DEF End
  <2>3. CASE i < Len(stream)
    BY <2>1, <2>3, <1>1 DEF End, Contiguous
  <2> QED
    BY <2>1, <2>2, <2>3
<1> QED
  BY <1>1, <1>2, <1>3

\* The message after the first n lies where they end.
LEMMA NextMessage ==
  ASSUME TypeOK, Contiguous(inbound), NEW n \in Nat, n < Len(inbound)
  PROVE  /\ n + 1 \in DOMAIN inbound
         /\ inbound[n + 1] \in PeerFrame
         /\ inbound[n + 1].start = Offset(n)
         /\ inbound[n + 1].start \in Nat
         /\ inbound[n + 1].len \in MsgSizes
         /\ Offset(n + 1) = Offset(n) + inbound[n + 1].len
         /\ Offset(n + 1) <= End(inbound)
<1>1. inbound \in Seq(PeerFrame) /\ n + 1 \in 1..Len(inbound)
  BY DEF TypeOK
<1>2. n + 1 \in DOMAIN inbound /\ inbound[n + 1] \in PeerFrame
  BY <1>1
<1>3. inbound[n + 1].start \in Nat /\ inbound[n + 1].len \in MsgSizes
  BY <1>2 DEF PeerFrame
<1>4. inbound[n + 1].start = Offset(n)
  <2>1. inbound[n + 1].start =
          IF n + 1 = 1 THEN 0
          ELSE inbound[(n + 1) - 1].start + inbound[(n + 1) - 1].len
    BY <1>2 DEF Contiguous
  <2>2. (n + 1) - 1 = n /\ (n + 1 = 1 <=> n = 0)
    OBVIOUS
  <2> QED
    BY <2>1, <2>2 DEF Offset
<1>5. inbound[n + 1].start + inbound[n + 1].len <= End(inbound)
  BY <1>1, <1>2, StreamFacts
<1> QED
  BY <1>2, <1>3, <1>4, <1>5 DEF Offset

-----------------------------------------------------------------------------
(* What a step leaves alone *)

SendFlags == {"SEND_REQUESTED", "SENDING", "MESSAGE_SENT", "MESSAGE_SENT_CONSUMED"}

\* Everything but the program counter.
LEMMA OnlyPc ==
  ASSUME CoreInv, pc' \in {"control", "recv", "send", "event", "overrun"},
         UNCHANGED <<slot, connection_state, recvs, sends, peer, app>>
  PROVE  CoreInv'
<1> USE DEF slot, recvs, sends, peer, app
<1>1. TypeOK'
  BY DEF CoreInv, TypeOK
<1>2. FlagInv' /\ IdleInv' /\ SockInv'
  BY DEF CoreInv, FlagInv, IdleInv, SockInv, InSession, IsServer, Has, Any
<1>3. Contiguous(inbound)' /\ (arrived <= End(inbound))' /\ InOrder'
  BY DEF CoreInv, Contiguous, End, InOrder
<1>4. RecvInv'
  BY DEF CoreInv, RecvInv, InSession, Popped, Base, Offset, Has, Any
<1>5. NeverOverwritten' /\ SendInv'
  BY DEF CoreInv, NeverOverwritten, SendInv, SendBusy, InSession, End, Has, Any
<1> QED
  BY <1>1, <1>2, <1>3, <1>4, <1>5 DEF CoreInv

\* The send side, by a step that changes none of its state.
LEMMA SendSideKept ==
  ASSUME CoreInv, UNCHANGED <<sends, outbound>>,
         InSession' => InSession, Has("ERROR") => Has("ERROR")',
         connection_state' \cap SendFlags = connection_state \cap SendFlags
  PROVE  NeverOverwritten' /\ SendInv'
<1>1. \A f \in SendFlags : Has(f)' <=> Has(f)
  BY DEF Has
<1>2. /\ SendBusy' <=> SendBusy
      /\ Any({"SEND_REQUESTED", "SENDING"})' <=> Any({"SEND_REQUESTED", "SENDING"})
  BY <1>1 DEF SendBusy, SendFlags, Has, Any
<1>3. NeverOverwritten'
  BY DEF CoreInv, NeverOverwritten, sends
<1>4. End(outbound)' = End(outbound)
  BY DEF End
<1> QED
  BY <1>1, <1>2, <1>3, <1>4 DEF CoreInv, SendInv, SendFlags, sends

\* The receive side, by a step that changes none of its state.
LEMMA RecvSideKept ==
  ASSUME CoreInv, TypeOK', UNCHANGED <<recvs, inbound, delivered>>,
         arrived <= arrived',
         InSession' => InSession, Has("ERROR") => Has("ERROR")',
         Has("MESSAGE_RECEIVED")' <=> Has("MESSAGE_RECEIVED"),
         Has("MESSAGE_CONSUMED")' <=> Has("MESSAGE_CONSUMED")
  PROVE  Contiguous(inbound)' /\ InOrder' /\ RecvInv'
<1>1. Contiguous(inbound)' /\ InOrder'
  BY DEF CoreInv, Contiguous, InOrder
<1>2. /\ Popped' = Popped /\ Offset(Popped)' = Offset(Popped) /\ Base' = Base
      /\ UNCHANGED <<recv_buffer_pos, recv_message_len, taken, inbound, delivered>>
  BY DEF Popped, Offset, Base, recvs
<1>3. CASE InSession'
  BY <1>1, <1>2, <1>3, SMTT(40) DEF CoreInv, RecvInv, TypeOK
<1>4. CASE ~InSession'
  BY <1>1, <1>4 DEF RecvInv
<1> QED
  BY <1>1, <1>3, <1>4

-----------------------------------------------------------------------------
(* The receive step *)

\* The buffer after impl_communicate_recv1: it starts at the first message that
\* has not left it.
LEMMA KeptFacts ==
  ASSUME CoreInv, InSession, ~Has("ERROR")
  PROVE  /\ KeptPos \in Nat /\ KeptPos <= RecvBufLen /\ KeptLen \in Nat
         /\ taken - KeptPos = Offset(Len(delivered))
         /\ ReadLen \in Nat /\ Room \in Nat
<1> USE SizeFacts DEF Room
<1>0. TypeOK /\ FlagInv /\ RecvInv /\ Contiguous(inbound) /\ InOrder
  BY DEF CoreInv
<1>1. CASE Has("MESSAGE_CONSUMED")
  <2>1. /\ 0 < recv_message_len /\ recv_message_len <= recv_buffer_pos
        /\ Popped + 1 = Len(delivered) /\ Popped \in Nat
        /\ Popped < Len(inbound)
        /\ inbound[Popped + 1].len = recv_message_len
        /\ Base = Offset(Popped)
    BY <1>0, <1>1 DEF RecvInv, FlagInv, Popped, InOrder, TypeOK
  <2>2. /\ inbound[Popped + 1].len \in MsgSizes
        /\ Offset(Popped + 1) = Offset(Popped) + inbound[Popped + 1].len
    BY <2>1, <1>0, NextMessage
  <2>3. /\ recv_buffer_pos \in Nat /\ recv_message_len \in Nat /\ taken \in Nat
        /\ recv_buffer_pos <= RecvBufLen
        /\ taken - recv_buffer_pos = Offset(Popped)
    BY <1>0, <2>1, <2>2 DEF TypeOK, RecvInv, Base
  <2>4. KeptPos = recv_buffer_pos - recv_message_len /\ KeptLen = 0
    BY <1>1 DEF KeptPos, KeptLen
  <2>5. ReadLen = 0 \/ ReadLen = HeaderRead
    BY <2>4 DEF ReadLen
  <2>6. taken - KeptPos = Offset(Len(delivered))
    <3>1. Offset(Len(delivered)) = Offset(Popped) + recv_message_len
      BY <2>1, <2>2
    <3> HIDE DEF Offset
    <3> QED
      BY <2>3, <2>4, <3>1
  <2>7. KeptPos \in Nat /\ KeptPos <= RecvBufLen
    BY <2>1, <2>3, <2>4
  <2> QED
    BY <2>4, <2>5, <2>6, <2>7
<1>2. CASE ~Has("MESSAGE_CONSUMED")
  BY <1>0, <1>2
     DEF KeptPos, KeptLen, KeptState, ReadLen, Base, Popped, TypeOK, RecvInv
<1> QED
  BY <1>1, <1>2

\* The receive step moves m bytes into the buffer and may set the length l.
LEMMA RecvMoves ==
  ASSUME CoreInv, InSession, ~Has("ERROR"),
         NEW m \in 0..LeastOf(ReadLen, Room), m <= arrived - taken,
         recv_buffer_pos' = KeptPos + m, taken' = taken + m,
         ~Has("MESSAGE_CONSUMED")', UNCHANGED <<peer, app>>
  PROVE  /\ taken' \in Nat /\ recv_buffer_pos' \in Nat
         /\ taken' <= arrived' /\ recv_buffer_pos' <= RecvBufLen
         /\ Popped' = Len(delivered) /\ Popped' \in Nat
         /\ Base' = Offset(Len(delivered)) /\ Base' = Offset(Popped)'
<1>1. TypeOK
  BY DEF CoreInv
<1>2. /\ taken \in Nat /\ arrived \in Nat /\ KeptPos \in Nat /\ m \in Nat
      /\ KeptPos + m <= RecvBufLen /\ RecvBufLen \in Nat
      /\ taken - KeptPos = Offset(Len(delivered))
  BY <1>1, KeptFacts, SizeFacts DEF TypeOK, LeastOf, Room
<1>3. Popped' = Len(delivered) /\ Len(delivered) \in Nat /\ delivered' = delivered
  BY <1>1 DEF Popped, app, TypeOK
<1>4. Offset(Popped)' = Offset(Len(delivered))
  BY <1>3 DEF Offset, peer
<1> QED
  BY <1>2, <1>3, <1>4 DEF Base, peer

\* What SocketRead returns is there to be read.
LEMMA ReadFacts ==
  ASSUME TypeOK, taken <= arrived, NEW len \in Nat, NEW m, NEW ok, SocketRead(len, m, ok)
  PROVE  m \in 0..len /\ m <= arrived - taken
<1>1. LeastOf(len, arrived - taken) \in Nat
      /\ LeastOf(len, arrived - taken) <= len
      /\ LeastOf(len, arrived - taken) <= arrived - taken
  BY DEF LeastOf, TypeOK
<1>2. m \in 0..LeastOf(len, arrived - taken)
  BY DEF SocketRead
<1> QED
  BY <1>1, <1>2 DEF TypeOK

\* The flags after the receive step.
LEMMA RecvFlagsMove ==
  ASSUME CoreInv, InSession,
         NEW S,
         \/ S = KeptState
         \/ S = (KeptState \ {"RECEIVE_REQUESTED"}) \cup {"ERROR"}
         \/ /\ S = (KeptState \ {"RECEIVE_REQUESTED"}) \cup {"MESSAGE_RECEIVED"}
            /\ "RECEIVE_REQUESTED" \in KeptState,
         connection_state' = S, UNCHANGED slot
  PROVE  /\ connection_state' \subseteq StatusFlags
         /\ FlagInv' /\ IdleInv' /\ SockInv' /\ InSession'
         /\ ~Has("MESSAGE_CONSUMED")'
         /\ connection_state' \cap SendFlags = connection_state \cap SendFlags
         /\ Has("ERROR") => Has("ERROR")'
<1>1. TypeOK /\ FlagInv /\ SockInv
  BY DEF CoreInv
<1>2. connection_state' \subseteq StatusFlags
  BY <1>1 DEF TypeOK, StatusFlags, KeptState
<1>3. InSession' /\ ~Has("MESSAGE_CONSUMED")'
  BY <1>1 DEF InSession, KeptState, Has, Any
<1>4. FlagInv'
  BY <1>1, <1>3 DEF FlagInv, InSession, KeptState, Has, Any
<1>5. IdleInv'
  BY <1>3 DEF IdleInv, InSession, Has, Any
<1>6. SockInv'
  BY <1>1 DEF SockInv, FlagInv, IsServer, slot, InSession, KeptState, Has, Any
<1>7. connection_state' \cap SendFlags = connection_state \cap SendFlags
  BY DEF SendFlags, KeptState
<1>8. Has("ERROR") => Has("ERROR")'
  BY DEF Has, KeptState
<1> QED
  BY <1>2, <1>3, <1>4, <1>5, <1>6, <1>7, <1>8

LEMMA RecvNothingStep == CoreInv /\ RecvNothing => CoreInv'
<1> SUFFICES ASSUME CoreInv, RecvNothing PROVE CoreInv'
  OBVIOUS
<1>0. /\ TypeOK /\ FlagInv /\ RecvInv /\ Contiguous(inbound)
      /\ connection_state' = KeptState /\ pc' = "send"
      /\ UNCHANGED <<slot, taken, sends, peer, app>>
  BY DEF CoreInv, RecvNothing
<1>1. CASE InSession /\ "RECEIVE_REQUESTED" \in KeptState
  \* Then a header or the rest of the buffer is asked for: the buffer is full.
  <2>1. KeptLen # 0
    BY <1>1, SizeFacts DEF RecvNothing, ReadLen
  <2>2. KeptLen = recv_message_len /\ ~Has("MESSAGE_CONSUMED")
        /\ KeptPos = recv_buffer_pos /\ KeptState = connection_state
    BY <2>1 DEF KeptLen, KeptPos, KeptState
  <2> QED
    BY <1>0, <2>2, OnlyPc DEF RecvNothing, recvs
<1>2. CASE "RECEIVE_REQUESTED" \notin KeptState
  <2>1. ~Has("MESSAGE_CONSUMED")
    BY <1>2 DEF KeptState
  <2>2. KeptPos = recv_buffer_pos /\ KeptLen = recv_message_len
        /\ KeptState = connection_state
    BY <2>1 DEF KeptPos, KeptLen, KeptState
  <2> QED
    BY <1>0, <2>2, OnlyPc DEF RecvNothing, recvs
<1>3. CASE ~InSession
  <2>1. "RECEIVE_REQUESTED" \notin KeptState
    BY <1>0, <1>3 DEF InSession, FlagInv, KeptState, Has, Any
  <2> QED
    BY <2>1, <1>2
<1> QED
  BY <1>1, <1>2, <1>3

\* A read that asks for something happens in a session.
LEMMA ReadInSession ==
  ASSUME CoreInv, ReadLen > 0
  PROVE  InSession /\ "RECEIVE_REQUESTED" \in KeptState
<1>1. "RECEIVE_REQUESTED" \in KeptState
  BY SizeFacts DEF ReadLen
<1>2. InSession
  BY <1>1 DEF CoreInv, FlagInv, InSession, KeptState, Has, Any
<1> QED
  BY <1>1, <1>2

LEMMA RecvFailsStep == CoreInv /\ RecvFails => CoreInv'
<1> SUFFICES ASSUME CoreInv, RecvFails PROVE CoreInv'
  OBVIOUS
<1>0. /\ TypeOK /\ RecvInv /\ Contiguous(inbound) /\ arrived <= End(inbound)
      /\ InOrder
      /\ InSession /\ "RECEIVE_REQUESTED" \in KeptState /\ ~Has("ERROR")
      /\ recv_message_len' = KeptLen /\ pc' = "event"
      /\ connection_state' = (KeptState \ {"RECEIVE_REQUESTED"}) \cup {"ERROR"}
      /\ UNCHANGED <<slot, sends, peer, app>>
  BY ReadInSession DEF CoreInv, RecvFails
<1>1. PICK m \in 0..LeastOf(ReadLen, Room) :
        /\ SocketRead(ReadLen, m, FALSE)
        /\ recv_buffer_pos' = KeptPos + m /\ taken' = taken + m
  BY DEF RecvFails
<1>2. ReadLen \in Nat /\ KeptLen \in Nat /\ m <= arrived - taken
  BY <1>0, <1>1, KeptFacts, ReadFacts DEF RecvInv
<1>3. /\ connection_state' \subseteq StatusFlags
      /\ FlagInv' /\ IdleInv' /\ SockInv' /\ InSession'
      /\ ~Has("MESSAGE_CONSUMED")' /\ ~Has("MESSAGE_RECEIVED")'
      /\ connection_state' \cap SendFlags = connection_state \cap SendFlags
      /\ Has("ERROR")'
  <2>1. ~Has("MESSAGE_RECEIVED")' /\ Has("ERROR")'
    BY <1>0 DEF CoreInv, FlagInv, KeptState, Has
  <2> QED
    BY <1>0, <2>1, RecvFlagsMove
<1>4. /\ taken' \in Nat /\ recv_buffer_pos' \in Nat
      /\ taken' <= arrived' /\ recv_buffer_pos' <= RecvBufLen
      /\ Popped' = Len(delivered) /\ Base' = Offset(Popped)'
  BY <1>0, <1>1, <1>2, <1>3, RecvMoves
<1>5. TypeOK'
  BY <1>0, <1>2, <1>3, <1>4 DEF TypeOK, slot, sends, peer, app
<1>6. Contiguous(inbound)' /\ (arrived <= End(inbound))' /\ InOrder'
  BY <1>0 DEF Contiguous, End, InOrder, peer, app
<1>7. KeptLen > 0 => /\ Len(delivered) < Len(inbound)
                     /\ inbound[Len(delivered) + 1].len = KeptLen
  BY <1>0 DEF KeptLen, RecvInv, Popped
<1>8. RecvInv'
  BY <1>0, <1>3, <1>4, <1>7 DEF RecvInv, peer, app
<1>9. NeverOverwritten' /\ SendInv'
  BY <1>0, <1>3, SendSideKept DEF app
<1> QED
  BY <1>3, <1>5, <1>6, <1>8, <1>9 DEF CoreInv

\* Only one message of a stream starts at a given offset.
LEMMA UniqueStart ==
  ASSUME TypeOK, Contiguous(inbound),
         NEW n \in Nat, n <= Len(inbound),
         NEW i \in DOMAIN inbound, inbound[i].start = Offset(n)
  PROVE  n < Len(inbound) /\ i = n + 1
<1>1. inbound \in Seq(PeerFrame) /\ i \in 1..Len(inbound)
  BY DEF TypeOK
<1>2. /\ inbound[i].start \in Nat /\ inbound[i].len \in Nat /\ 0 < inbound[i].len
      /\ inbound[i].start + inbound[i].len <= End(inbound)
  BY <1>1, StreamFacts
<1>3. n < Len(inbound)
  <2>1. CASE n = Len(inbound)
    <3>1. Offset(n) = End(inbound)
      BY <1>1, <2>1 DEF Offset, End
    <3> QED
      BY <1>2, <3>1
  <2> QED
    BY <2>1, <1>1
<1>4. /\ n + 1 \in DOMAIN inbound /\ inbound[n + 1].start = inbound[i].start
      /\ inbound[n + 1].len \in Nat /\ 0 < inbound[n + 1].len
  BY <1>3, NextMessage, SizeFacts
<1>5. ~(i < n + 1)
  BY <1>2, <1>4 DEF Contiguous
<1>6. ~(n + 1 < i)
  BY <1>2, <1>4 DEF Contiguous
<1> QED
  BY <1>1, <1>3, <1>5, <1>6

\* What the preamble tells, on pos bytes that begin where a message begins.
LEMMA PreambleFacts ==
  ASSUME CoreInv, InSession, ~Has("ERROR"), NEW pos \in Nat, NEW l, NEW ok \in BOOLEAN,
         Preamble(pos, l, ok)
  PROVE  /\ l \in Nat
         /\ l = 0 /\ ok =>
              \/ pos < PreambleLen
              \/ /\ Len(delivered) < Len(inbound)
                 /\ inbound[Len(delivered) + 1].kind = "nosize"
         /\ l > 0 => /\ Len(delivered) < Len(inbound)
                     /\ inbound[Len(delivered) + 1].len = l
                     /\ ok => inbound[Len(delivered) + 1].kind = "good"
<1>0. /\ TypeOK /\ Contiguous(inbound) /\ RecvInv
      /\ KeptLen \in Nat /\ taken - KeptPos = Offset(Len(delivered))
      /\ Len(delivered) \in Nat /\ Len(delivered) <= Len(inbound)
  BY KeptFacts DEF CoreInv, InOrder, TypeOK
<1>1. CASE (pos < PreambleLen \/ KeptLen # 0) /\ l = KeptLen /\ ok
  <2>1. KeptLen # 0 => ~Has("MESSAGE_CONSUMED") /\ KeptLen = recv_message_len
    BY DEF KeptLen
  <2>2. l = 0 => pos < PreambleLen
    BY <1>1
  <2> QED
    BY <1>0, <1>1, <2>1, <2>2, SizeFacts DEF RecvInv, Popped
<1>2. CASE l = 0 /\ ~ok
  BY <1>2
<1>3. CASE PreambleAt(taken - KeptPos, l, ok)
  <2>1. PICK i \in DOMAIN inbound :
          /\ inbound[i].start = Offset(Len(delivered))
          /\ \/ /\ inbound[i].kind = (IF ok THEN "good" ELSE "badversion")
                /\ inbound[i].len = l
             \/ inbound[i].kind = "nosize" /\ ok /\ l = 0
    BY <1>0, <1>3 DEF PreambleAt
  <2>2. Len(delivered) < Len(inbound) /\ i = Len(delivered) + 1
    BY <1>0, <2>1, UniqueStart
  <2>3. inbound[i].len \in Nat /\ 0 < inbound[i].len
    BY <1>0, <2>1, <2>2, NextMessage, SizeFacts
  <2> QED
    BY <2>1, <2>2, <2>3, SizeFacts
<1> QED
  BY <1>1, <1>2, <1>3 DEF Preamble

LEMMA RecvBytesStep == CoreInv /\ RecvBytes => CoreInv'
<1> SUFFICES ASSUME CoreInv, RecvBytes PROVE CoreInv'
  OBVIOUS
<1>0. /\ TypeOK /\ RecvInv /\ Contiguous(inbound) /\ arrived <= End(inbound)
      /\ InOrder
      /\ InSession /\ "RECEIVE_REQUESTED" \in KeptState /\ ~Has("ERROR")
      /\ UNCHANGED <<slot, sends, peer, app>>
  BY ReadInSession DEF CoreInv, RecvBytes
<1>1. PICK m \in 0..LeastOf(ReadLen, Room), l \in MsgSizes \cup {0}, ok \in BOOLEAN :
        /\ SocketRead(ReadLen, m, TRUE)
        /\ recv_buffer_pos' = KeptPos + m /\ taken' = taken + m
        /\ Preamble(KeptPos + m, l, ok)
        /\ recv_message_len' = l
        /\ connection_state' =
             IF ok THEN ReceivedState(KeptPos + m, l)
             ELSE (KeptState \ {"RECEIVE_REQUESTED"}) \cup {"ERROR"}
        /\ pc' = IF ok THEN "send" ELSE "event"
  BY DEF RecvBytes
<1>2. ReadLen \in Nat /\ m <= arrived - taken /\ KeptPos + m \in Nat
  <2>1. ReadLen \in Nat /\ KeptPos \in Nat
    BY <1>0, KeptFacts
  <2>2. m <= arrived - taken
    BY <1>0, <1>1, <2>1, ReadFacts DEF RecvInv
  <2> QED
    BY <2>1, <2>2
<1>3. /\ connection_state' \subseteq StatusFlags
      /\ FlagInv' /\ IdleInv' /\ SockInv' /\ InSession'
      /\ ~Has("MESSAGE_CONSUMED")'
      /\ connection_state' \cap SendFlags = connection_state \cap SendFlags
  BY <1>0, <1>1, RecvFlagsMove DEF ReceivedState
<1>4. /\ taken' \in Nat /\ recv_buffer_pos' \in Nat
      /\ taken' <= arrived' /\ recv_buffer_pos' <= RecvBufLen
      /\ Popped' = Len(delivered) /\ Base' = Offset(Popped)'
  BY <1>0, <1>1, <1>2, <1>3, RecvMoves
<1>5. /\ l \in Nat
      /\ l = 0 /\ ok =>
           \/ KeptPos + m < PreambleLen
           \/ /\ Len(delivered) < Len(inbound)
              /\ inbound[Len(delivered) + 1].kind = "nosize"
      /\ l > 0 => /\ Len(delivered) < Len(inbound)
                  /\ inbound[Len(delivered) + 1].len = l
                  /\ ok => inbound[Len(delivered) + 1].kind = "good"
  BY <1>0, <1>1, <1>2, PreambleFacts
<1>6. TypeOK'
  BY <1>0, <1>1, <1>3, <1>4, <1>5 DEF TypeOK, slot, sends, peer, app
<1>7. Contiguous(inbound)' /\ (arrived <= End(inbound))' /\ InOrder'
  BY <1>0 DEF Contiguous, End, InOrder, peer, app
<1>8. /\ ~Has("ERROR")' => ok
      /\ Has("MESSAGE_RECEIVED")' => ok /\ l > 0 /\ KeptPos + m >= l
  <2>1. "MESSAGE_RECEIVED" \notin KeptState
    BY <1>0 DEF CoreInv, FlagInv, KeptState, Has
  <2> QED
    BY <1>1, <2>1 DEF ReceivedState, Has
<1>9. RecvInv'
  BY <1>0, <1>1, <1>2, <1>3, <1>4, <1>5, <1>8 DEF RecvInv, peer, app
<1>10. NeverOverwritten' /\ SendInv'
  BY <1>0, <1>3, SendSideKept DEF app
<1> QED
  BY <1>3, <1>6, <1>7, <1>9, <1>10 DEF CoreInv

LEMMA ReceiveStep == CoreInv /\ Receive => CoreInv'
<1>1. CoreInv /\ (RecvError \/ RecvOverruns) => CoreInv'
  BY OnlyPc DEF RecvError, RecvOverruns
<1> QED
  BY <1>1, RecvNothingStep, RecvFailsStep, RecvBytesStep DEF Receive

-----------------------------------------------------------------------------
(* The control step *)

\* A step that ends the session or frees the slot keeps what was exchanged.
LEMMA LeaveSession ==
  ASSUME CoreInv, TypeOK', FlagInv', IdleInv', ~InSession', UNCHANGED <<taken, wired, peer, app>>
  PROVE  CoreInv'
<1>1. Contiguous(inbound)' /\ (arrived <= End(inbound))' /\ InOrder' /\ NeverOverwritten'
  BY DEF CoreInv, Contiguous, End, InOrder, NeverOverwritten, peer, app
<1>2. SockInv' /\ RecvInv' /\ SendInv'
  BY DEF SockInv, RecvInv, SendInv
<1> QED
  BY <1>1, <1>2 DEF CoreInv

LEMMA ControlResetStep == CoreInv /\ ControlReset => CoreInv'
<1> SUFFICES ASSUME CoreInv, ControlReset PROVE CoreInv'
  OBVIOUS
<1> USE DEF ControlReset, Reset
<1>1. TypeOK'
  BY DEF CoreInv, TypeOK, ConfigFlags, StatusFlags, peer, app
<1>2. FlagInv' /\ IdleInv' /\ ~InSession'
  BY DEF FlagInv, IdleInv, InSession, Has, Any
<1> QED
  BY <1>1, <1>2, LeaveSession

LEMMA ControlCloseStep == CoreInv /\ ControlClose => CoreInv'
<1> SUFFICES ASSUME CoreInv, ControlClose PROVE CoreInv'
  OBVIOUS
<1> USE DEF ControlClose, ClosedState
<1>1. TypeOK'
  BY DEF CoreInv, TypeOK, StatusFlags, recvs, sends, peer, app
<1>2. FlagInv' /\ IdleInv' /\ ~InSession'
  BY DEF FlagInv, IdleInv, InSession, Has, Any
<1>3. UNCHANGED <<taken, wired, peer, app>>
  BY DEF recvs, sends
<1> QED
  BY <1>1, <1>2, <1>3, LeaveSession

LEMMA ConnectCompleteStep == CoreInv /\ ConnectComplete => CoreInv'
<1> SUFFICES ASSUME CoreInv, ConnectComplete PROVE CoreInv'
  OBVIOUS
<1> USE DEF ConnectComplete
<1>0. /\ InSession /\ ~IsServer /\ ~Has("CLIENT_SOCKET_CONNECTED") /\ sock = "open"
      /\ TypeOK /\ FlagInv /\ SockInv
  BY DEF CoreInv, Polling, Live, InSession, Any
<1>1. TypeOK'
  BY DEF CoreInv, TypeOK, StatusFlags, slot, recvs, sends, peer, app
<1>2. InSession'
  BY <1>0 DEF InSession, Any
<1>3. FlagInv' /\ IdleInv'
  BY <1>0 DEF FlagInv, IdleInv, SockInv, InSession, Has, Any
<1>4. SockInv'
  BY <1>0 DEF SockInv, IsServer, slot, Has
<1>5. Contiguous(inbound)' /\ InOrder' /\ RecvInv'
  <2>1. arrived <= arrived'
    BY <1>0 DEF TypeOK, peer
  <2> QED
    BY <1>0, <1>1, <1>2, <2>1, RecvSideKept DEF Has, peer, app
<1>6. NeverOverwritten' /\ SendInv'
  BY <1>0, <1>2, SendSideKept DEF SendFlags, Has, app
<1>7. (arrived <= End(inbound))'
  BY DEF CoreInv, End, peer
<1> QED
  BY <1>1, <1>3, <1>4, <1>5, <1>6, <1>7 DEF CoreInv

LEMMA ConnectFailsStep == CoreInv /\ ConnectFails => CoreInv'
<1> SUFFICES ASSUME CoreInv, ConnectFails PROVE CoreInv'
  OBVIOUS
<1> USE DEF ConnectFails
<1>0. /\ InSession /\ ~IsServer /\ ~Has("CLIENT_SOCKET_CONNECTED")
      /\ TypeOK /\ FlagInv /\ SockInv /\ IdleInv
  BY DEF CoreInv, Polling, Live, InSession, Any
<1>1. TypeOK'
  BY <1>0 DEF TypeOK, recvs, sends, peer, app
<1>2. InSession' /\ ~IsServer'
  BY <1>0 DEF InSession, IsServer, Any
<1>3. FlagInv' /\ IdleInv'
  BY <1>0 DEF FlagInv, IdleInv, recvs, sends, Has, Any
<1>4. SockInv'
  BY <1>0, <1>2 DEF SockInv, Has, Any
<1>5. Contiguous(inbound)' /\ InOrder' /\ RecvInv'
  <2>1. arrived <= arrived'
    BY <1>0 DEF TypeOK, peer
  <2> QED
    BY <1>0, <1>1, <1>2, <2>1, RecvSideKept DEF Has, peer, app
<1>6. NeverOverwritten' /\ SendInv'
  BY <1>0, <1>2, SendSideKept DEF SendFlags, Has, app
<1>7. (arrived <= End(inbound))'
  BY DEF CoreInv, End, peer
<1> QED
  BY <1>1, <1>3, <1>4, <1>5, <1>6, <1>7 DEF CoreInv

\* The server handshake reads m bytes, none of them past a preamble, and adds
\* and removes flags that concern neither a pending message nor sending.
LEMMA HandshakeServerStep == CoreInv /\ HandshakeServer => CoreInv'
<1> SUFFICES ASSUME CoreInv, HandshakeServer PROVE CoreInv'
  OBVIOUS
<1>0. /\ TypeOK /\ FlagInv /\ SockInv /\ RecvInv /\ Contiguous(inbound)
      /\ arrived <= End(inbound) /\ InOrder
      /\ InSession /\ IsServer /\ Has("CONNECTING")
      /\ ~Has("RECEIVE_REQUESTED") /\ ~Has("MESSAGE_RECEIVED")
      /\ ~Has("MESSAGE_CONSUMED")
      /\ UNCHANGED <<slot, recv_message_len, sends, peer, app>>
  BY DEF CoreInv, HandshakeServer, Live, InSession, SockInv, FlagInv, Has, Any
<1>1. PICK S : /\ connection_state' = S
               /\ \/ S = connection_state
                  \/ S = connection_state \cup {"ERROR"}
                  \/ S = (connection_state \ {"CONNECTING"})
                           \cup {"CONNECTED", "RECEIVE_REQUESTED"}
  BY DEF HandshakeServer, CheckMagic
<1>2. PICK m \in 0..MagicLen :
        /\ recv_buffer_pos' = recv_buffer_pos + m /\ taken' = taken + m
        /\ m <= arrived - taken
        /\ m = 0 \/ recv_buffer_pos < MagicLen
  <2>1. CASE recv_buffer_pos >= MagicLen
    BY <1>0, <2>1, SizeFacts DEF HandshakeServer, TypeOK, RecvInv
  <2>2. CASE ~(recv_buffer_pos >= MagicLen)
    <3>1. PICK m \in 0..MagicLen, ok \in BOOLEAN :
            /\ SocketRead(MagicLen, m, ok)
            /\ recv_buffer_pos' = recv_buffer_pos + m /\ taken' = taken + m
      BY <2>2 DEF HandshakeServer
    <3>2. m <= arrived - taken
      BY <1>0, <3>1, ReadFacts, SizeFacts DEF RecvInv
    <3> QED
      BY <1>0, <2>2, <3>1, <3>2, SizeFacts DEF TypeOK
  <2> QED
    BY <2>1, <2>2
<1>3. pc' \in {"control", "recv", "send", "event", "overrun"}
  BY DEF HandshakeServer, CheckMagic
<1>4. /\ TypeOK'
      /\ recv_buffer_pos' <= RecvBufLen /\ taken' <= arrived'
      /\ recv_buffer_pos' < PreambleLen \/ recv_buffer_pos' = recv_buffer_pos
  <2>1. connection_state' \subseteq StatusFlags
    BY <1>0, <1>1 DEF TypeOK, StatusFlags
  <2>2. /\ recv_buffer_pos' \in Nat /\ taken' \in Nat /\ recv_buffer_pos' <= RecvBufLen
        /\ taken' <= arrived'
        /\ recv_buffer_pos' < PreambleLen \/ recv_buffer_pos' = recv_buffer_pos
    BY <1>0, <1>2, SizeFacts DEF TypeOK, RecvInv, peer
  <2> QED
    BY <1>0, <1>3, <2>1, <2>2 DEF TypeOK, slot, sends, peer, app
<1>5. /\ InSession' /\ ~Has("MESSAGE_CONSUMED")' /\ ~Has("MESSAGE_RECEIVED")'
      /\ Has("ERROR") => Has("ERROR")'
  BY <1>0, <1>1 DEF InSession, Has, Any
<1>6. FlagInv' /\ IdleInv'
  BY <1>0, <1>1, <1>5 DEF FlagInv, IdleInv, InSession, Has, Any
<1>7. SockInv'
  BY <1>0, <1>1 DEF SockInv, IsServer, slot, Has, Any
<1>8. Contiguous(inbound)' /\ (arrived <= End(inbound))' /\ InOrder'
  BY <1>0 DEF Contiguous, End, InOrder, peer, app
<1>9. RecvInv'
  <2>1. Popped' = Popped /\ Offset(Popped)' = Offset(Popped) /\ Base' = Base
    <3>1. Popped' = Popped
      BY <1>0, <1>5 DEF Popped, app
    <3>2. Base' = Base
      BY <1>0, <1>2 DEF Base, TypeOK
    <3> QED
      BY <1>0, <3>1, <3>2 DEF Offset, peer
  <2>2. /\ recv_message_len' = recv_message_len /\ inbound' = inbound
        /\ recv_buffer_pos' <= RecvBufLen /\ taken' <= arrived'
        /\ recv_message_len = 0 /\ ~Has("ERROR")' =>
             \/ recv_buffer_pos' < PreambleLen
             \/ Popped < Len(inbound) /\ inbound[Popped + 1].kind = "nosize"
    BY <1>0, <1>4, <1>5 DEF RecvInv, peer
  <2> QED
    BY <1>0, <1>5, <2>1, <2>2 DEF RecvInv
<1>10. NeverOverwritten' /\ SendInv'
  <2>1. connection_state' \cap SendFlags = connection_state \cap SendFlags
    BY <1>1 DEF SendFlags
  <2> QED
    BY <1>0, <1>5, <2>1, SendSideKept DEF app
<1> QED
  BY <1>4, <1>6, <1>7, <1>8, <1>9, <1>10 DEF CoreInv

LEMMA ProcessControlStep == CoreInv /\ ProcessControl => CoreInv'
<1>1. CoreInv /\ (ControlSkip \/ ConnectPending \/ ControlPass) => CoreInv'
  BY OnlyPc DEF ControlSkip, ConnectPending, ControlPass
<1> QED
  BY <1>1, ControlResetStep, ControlCloseStep, HandshakeServerStep,
     ConnectCompleteStep, ConnectFailsStep DEF ProcessControl

-----------------------------------------------------------------------------
(* The send step *)

\* The bytes on the wire and in the buffer, from the send flags.
LEMMA OutFacts ==
  ASSUME CoreInv
  PROVE  /\ End(outbound) \in Nat
         /\ outbound # <<>> =>
              /\ Len(outbound) \in DOMAIN outbound
              /\ outbound[Len(outbound)] \in Frame
              /\ outbound[Len(outbound)].start \in Nat
              /\ outbound[Len(outbound)].len \in Nat
              /\ 0 < outbound[Len(outbound)].len
              /\ End(outbound) = outbound[Len(outbound)].start
                                   + outbound[Len(outbound)].len
<1>1. outbound \in Seq(Frame)
  BY DEF CoreInv, TypeOK
<1>2. CASE outbound = <<>>
  BY <1>2 DEF End
<1>3. CASE outbound # <<>>
  <2>1. Len(outbound) \in DOMAIN outbound /\ outbound[Len(outbound)] \in Frame
    BY <1>1, <1>3
  <2>2. /\ outbound[Len(outbound)].start \in Nat
        /\ outbound[Len(outbound)].len \in SendSizes
    BY <2>1 DEF Frame
  <2> QED
    BY <2>1, <2>2, <1>3, SizeFacts DEF End
<1> QED
  BY <1>2, <1>3

LEMMA SendReleaseStep == CoreInv /\ SendRelease => CoreInv'
<1> SUFFICES ASSUME CoreInv, SendRelease PROVE CoreInv'
  OBVIOUS
<1> USE DEF SendRelease
<1>0. /\ TypeOK /\ FlagInv /\ SockInv /\ SendInv /\ NeverOverwritten
      /\ InSession /\ Has("MESSAGE_SENT") /\ ~Has("SEND_REQUESTED") /\ ~Has("SENDING")
  BY DEF CoreInv, FlagInv, InSession, Has, Any
<1>1. TypeOK'
  BY <1>0 DEF TypeOK, slot, recvs, peer, app
<1>2. InSession'
  BY <1>0 DEF InSession, Any
<1>3. FlagInv' /\ IdleInv'
  BY <1>0 DEF FlagInv, IdleInv, InSession, Has, Any
<1>4. SockInv'
  BY <1>0 DEF SockInv, IsServer, slot, InSession, Has, Any
<1>5. Contiguous(inbound)' /\ InOrder' /\ RecvInv'
  <2>1. arrived <= arrived'
    BY <1>0 DEF TypeOK, peer
  <2> QED
    BY <1>0, <1>1, <1>2, <2>1, RecvSideKept DEF Has, peer, app
<1>6. wired = End(outbound) /\ End(outbound)' = End(outbound)
  BY <1>0 DEF SendInv, End, app
<1>7. NeverOverwritten' /\ SendInv'
  BY <1>0, <1>6 DEF NeverOverwritten, SendInv, SendBusy, Has, Any, app
<1>8. (arrived <= End(inbound))'
  BY DEF CoreInv, End, peer
<1> QED
  BY <1>1, <1>3, <1>4, <1>5, <1>7, <1>8 DEF CoreInv

\* The first k of the bytes the send flags offer go out.
LEMMA SendBytesStep == CoreInv /\ SendBytes => CoreInv'
<1> SUFFICES ASSUME CoreInv, SendBytes PROVE CoreInv'
  OBVIOUS
<1>0. /\ TypeOK /\ FlagInv /\ SockInv /\ SendInv /\ NeverOverwritten
      /\ ~Has("ERROR") /\ ~Has("MESSAGE_SENT_CONSUMED") /\ SendLen > 0
      /\ UNCHANGED <<slot, recvs, send_message_len, peer, app>> /\ pc' = "event"
  BY DEF CoreInv, SendBytes
<1>1. /\ Has("SEND_REQUESTED") \/ Has("SENDING")
      /\ InSession /\ ~Has("MESSAGE_SENT")
      /\ SendLen = send_message_len - send_buffer_pos
  <2>1. Has("SEND_REQUESTED") \/ Has("SENDING")
    BY <1>0 DEF SendLen
  <2>2. InSession
    BY <1>0, <2>1 DEF FlagInv, InSession, Has, Any
  <2>3. ~Has("MESSAGE_SENT")
    BY <1>0, <2>1 DEF FlagInv, Any, Has
  <2>4. SendLen = send_message_len - send_buffer_pos
    BY <1>0, <2>1, <2>2 DEF SendLen, SendInv, TypeOK
  <2> QED
    BY <2>1, <2>2, <2>3, <2>4
<1>2. PICK k \in 0..SendLen :
        /\ k < SendLen \/ ~Dead
        /\ send_buffer_pos' = send_buffer_pos + k /\ wired' = wired + k
        /\ connection_state' =
             IF Dead THEN (connection_state \ {"SEND_REQUESTED"}) \cup {"ERROR"}
             ELSE SentState(send_buffer_pos + k)
  BY DEF SendBytes
<1>3. /\ wired = outbound[Len(outbound)].start + send_buffer_pos
      /\ send_message_len = outbound[Len(outbound)].len
      /\ outbound # <<>>
  BY <1>0, <1>1 DEF SendInv, Any, Has
<1>4. /\ send_buffer_pos' \in Nat /\ wired' \in Nat
      /\ send_buffer_pos' <= send_message_len
      /\ wired' = outbound[Len(outbound)].start + send_buffer_pos'
      /\ send_buffer_pos' = send_message_len => wired' = End(outbound)
      /\ Dead => send_buffer_pos' < send_message_len
      /\ wired <= wired'
  <2>1. /\ send_buffer_pos \in Nat /\ wired \in Nat /\ send_message_len \in Nat
        /\ outbound[Len(outbound)].start \in Nat
        /\ End(outbound) = outbound[Len(outbound)].start
                             + outbound[Len(outbound)].len
    BY <1>0, <1>3, OutFacts DEF TypeOK
  <2>2. k \in Nat /\ k <= send_message_len - send_buffer_pos
    BY <1>0, <1>1, <2>1
  <2>3. Dead => k < send_message_len - send_buffer_pos
    BY <1>1, <1>2
  <2>4. send_buffer_pos' = send_buffer_pos + k /\ wired' = wired + k
    BY <1>2
  <2>5. /\ send_buffer_pos' \in Nat /\ wired' \in Nat /\ wired <= wired'
        /\ send_buffer_pos' <= send_message_len
        /\ Dead => send_buffer_pos' < send_message_len
    BY <2>1, <2>2, <2>3, <2>4
  <2>6. /\ wired' = outbound[Len(outbound)].start + send_buffer_pos'
        /\ send_buffer_pos' = send_message_len => wired' = End(outbound)
    BY <1>3, <2>1, <2>2, <2>4, SMTT(40)
  <2> QED
    BY <2>5, <2>6
<1>5. \/ /\ connection_state' = (connection_state \ {"SEND_REQUESTED"}) \cup {"ERROR"}
         /\ send_buffer_pos' < send_message_len
      \/ /\ connection_state' = (connection_state \ {"SEND_REQUESTED"}) \cup {"SENDING"}
         /\ send_buffer_pos' < send_message_len
      \/ /\ connection_state' =
              (connection_state \ {"SEND_REQUESTED", "SENDING"}) \cup {"MESSAGE_SENT"}
         /\ send_buffer_pos' = send_message_len
  <2>1. CASE Dead
    BY <1>2, <1>4, <2>1
  <2>2. CASE ~Dead /\ send_buffer_pos' < send_message_len
    BY <1>2, <2>2 DEF SentState
  <2>3. CASE ~Dead /\ send_buffer_pos' = send_message_len
    <3>1. ~(send_buffer_pos' < send_message_len)
      BY <1>4, <2>3
    <3>2. connection_state' = ((connection_state \ {"SEND_REQUESTED"}) \ {"SENDING"})
                                \cup {"MESSAGE_SENT"}
      BY <1>2, <2>3, <3>1 DEF SentState
    <3> QED
      BY <2>3, <3>2
  <2> QED
    BY <1>0, <1>4, <2>1, <2>2, <2>3 DEF TypeOK
<1>6. TypeOK'
  <2>1. connection_state' \subseteq StatusFlags
    BY <1>0, <1>5 DEF TypeOK, StatusFlags
  <2> QED
    BY <1>0, <1>4, <2>1 DEF TypeOK, slot, recvs, peer, app
<1>7. InSession'
  BY <1>1, <1>5 DEF InSession, Any
<1>8. FlagInv' /\ IdleInv'
  BY <1>0, <1>1, <1>5 DEF FlagInv, IdleInv, InSession, Has, Any
<1>9. SockInv'
  BY <1>0, <1>1, <1>5 DEF SockInv, IsServer, slot, InSession, Has, Any
<1>10. Contiguous(inbound)' /\ InOrder' /\ RecvInv'
  <2>1. arrived <= arrived'
    BY <1>0 DEF TypeOK, peer
  <2>2. /\ Has("MESSAGE_RECEIVED")' <=> Has("MESSAGE_RECEIVED")
        /\ Has("MESSAGE_CONSUMED")' <=> Has("MESSAGE_CONSUMED")
    BY <1>5 DEF Has
  <2> QED
    BY <1>0, <1>1, <1>6, <2>1, <2>2, RecvSideKept DEF peer, app
<1>11. NeverOverwritten'
  <2>1. outbound' = outbound /\ outbound[Len(outbound)].start <= wired'
    BY <1>0, <1>3, <1>4, OutFacts, SMTT(40) DEF NeverOverwritten, app, TypeOK
  <2> QED
    BY <2>1 DEF NeverOverwritten
<1>12. SendInv'
  <2>1. outbound' = outbound /\ End(outbound)' = End(outbound)
        /\ send_message_len' = send_message_len
    BY <1>0 DEF End, app
  <2>2. ~Has("SEND_REQUESTED")'
    BY <1>5 DEF Has
  <2>3. ~SendBusy' => Has("ERROR")'
    BY <1>5 DEF SendBusy, Has, Any
  <2>4. Has("SENDING")' => send_buffer_pos' < send_message_len
    BY <1>5 DEF Has
  <2>5. Has("MESSAGE_SENT")' => wired' = End(outbound)
    BY <1>1, <1>4, <1>5 DEF Has
  <2> QED
    BY <1>3, <1>4, <2>1, <2>2, <2>3, <2>4, <2>5 DEF SendInv
<1>13. (arrived <= End(inbound))'
  BY <1>0 DEF CoreInv, End, peer
<1> QED
  BY <1>6, <1>8, <1>9, <1>10, <1>11, <1>12, <1>13 DEF CoreInv

LEMMA TransmitStep == CoreInv /\ Transmit => CoreInv'
<1>1. CoreInv /\ SendNothing => CoreInv'
  BY OnlyPc DEF SendNothing
<1> QED
  BY <1>1, SendReleaseStep, SendBytesStep DEF Transmit

-----------------------------------------------------------------------------
(* The event pass and the application *)

\* One of the flags that mark an event as consumed or ask for the close is set.
LEMMA FlagAdded ==
  ASSUME CoreInv, ~Has("IDLE"),
         NEW f \in {"CLOSED_CONSUMED", "CLOSE_REQUESTED", "CONNECTED_CONSUMED",
                    "MESSAGE_SENT_CONSUMED"},
         f = "CLOSED_CONSUMED" => Has("CLOSED"),
         f = "CONNECTED_CONSUMED" => Has("CONNECTED"),
         f = "MESSAGE_SENT_CONSUMED" => Has("MESSAGE_SENT"),
         connection_state' = connection_state \cup {f},
         pc' \in {"control", "recv", "send", "event", "overrun"},
         UNCHANGED <<slot, recvs, sends, peer, app>>
  PROVE  CoreInv'
<1>0. TypeOK /\ FlagInv /\ SockInv /\ SendInv /\ arrived <= End(inbound)
  BY DEF CoreInv
<1>1. TypeOK'
  BY <1>0 DEF TypeOK, StatusFlags, slot, recvs, sends, peer, app
<1>2. FlagInv'
  BY <1>0 DEF FlagInv, Has, Any
<1>3. IdleInv' /\ SockInv' /\ (InSession' <=> InSession)
  BY <1>0 DEF IdleInv, SockInv, IsServer, slot, InSession, Has, Any
<1>4. Contiguous(inbound)' /\ InOrder' /\ RecvInv'
  <2>1. arrived <= arrived'
    BY <1>0 DEF TypeOK, peer
  <2> QED
    BY <1>1, <1>3, <2>1, RecvSideKept DEF Has, peer, app
<1>5. NeverOverwritten' /\ SendInv'
  <2>1. CASE f = "MESSAGE_SENT_CONSUMED"
    <3>1. NeverOverwritten'
      BY DEF CoreInv, NeverOverwritten, sends, app
    <3>2. End(outbound)' = End(outbound)
      BY DEF End, app
    <3>3. SendBusy'
      BY <2>1 DEF SendBusy, Any
    <3>4. Any({"SEND_REQUESTED", "SENDING"})' <=> Any({"SEND_REQUESTED", "SENDING"})
      BY <2>1 DEF Any
    <3> QED
      BY <1>0, <1>3, <2>1, <3>1, <3>2, <3>3, <3>4 DEF SendInv, Has, sends, app
  <2>2. CASE f # "MESSAGE_SENT_CONSUMED"
    BY <1>3, <2>2, SendSideKept DEF SendFlags, Has, app
  <2> QED
    BY <2>1, <2>2
<1>6. (arrived <= End(inbound))'
  BY <1>0 DEF End, peer
<1> QED
  BY <1>1, <1>2, <1>3, <1>4, <1>5, <1>6 DEF CoreInv

LEMMA HandleStatusStep == CoreInv /\ HandleStatus => CoreInv'
<1> SUFFICES ASSUME CoreInv, HandleStatus PROVE CoreInv'
  OBVIOUS
<1>1. /\ ~Has("IDLE")
      /\ EventFlag(NextEvent) \in {"CLOSED_CONSUMED", "CLOSE_REQUESTED",
           "CONNECTED_CONSUMED", "MESSAGE_SENT_CONSUMED"}
      /\ EventFlag(NextEvent) = "CLOSED_CONSUMED" => Has("CLOSED")
      /\ EventFlag(NextEvent) = "CONNECTED_CONSUMED" => Has("CONNECTED")
      /\ EventFlag(NextEvent) = "MESSAGE_SENT_CONSUMED" => Has("MESSAGE_SENT")
  BY DEF HandleStatus, NextEvent, EventFlag, ClosedEvent, ErrorEvent,
         ConnectedEvent, SentEvent
<1> QED
  BY <1>1, FlagAdded DEF HandleStatus, EndPass

LEMMA RejectReceivedStep == CoreInv /\ RejectReceived => CoreInv'
<1> SUFFICES ASSUME CoreInv, RejectReceived PROVE CoreInv'
  OBVIOUS
<1>1. ~Has("IDLE")
  BY DEF RejectReceived, NextEvent
<1> QED
  BY <1>1, FlagAdded DEF RejectReceived, EndPass

LEMMA CloseStep == CoreInv /\ Close => CoreInv'
<1> SUFFICES ASSUME CoreInv, Close PROVE CoreInv'
  OBVIOUS
<1> QED
  BY FlagAdded DEF Close

\* A message of length l is queued behind a stream that is all on the wire.
LEMMA QueueFacts ==
  ASSUME CoreInv, InSession, ~SendBusy, ~Has("ERROR"), NEW l \in SendSizes, Queue(l),
         UNCHANGED <<send_buffer_pos, wired>>,
         connection_state' \cap SendFlags = {"SEND_REQUESTED"}
  PROVE  /\ outbound' \in Seq(Frame) /\ send_message_len' \in Nat
         /\ NeverOverwritten' /\ SendInv'
<1>0. /\ outbound \in Seq(Frame) /\ SendInv /\ End(outbound) \in Nat
      /\ send_buffer_pos = 0 /\ wired = End(outbound) /\ l \in Nat /\ 0 < l
      /\ outbound' = Append(outbound, [start |-> End(outbound), len |-> l])
      /\ send_message_len' = l
  BY OutFacts, SizeFacts DEF CoreInv, TypeOK, SendInv, Queue
<1>1. [start |-> End(outbound), len |-> l] \in Frame
  BY <1>0 DEF Frame
<1>2. /\ outbound' \in Seq(Frame) /\ outbound' # <<>>
      /\ Len(outbound') = Len(outbound) + 1
      /\ outbound'[Len(outbound')] = [start |-> End(outbound), len |-> l]
  BY <1>0, <1>1
<1>3. /\ outbound'[Len(outbound')].start = wired /\ outbound'[Len(outbound')].len = l
  BY <1>0, <1>2
<1>4. NeverOverwritten'
  BY <1>0, <1>3 DEF NeverOverwritten, CoreInv, TypeOK
<1>5. /\ Has("SEND_REQUESTED")' /\ ~Has("SENDING")' /\ ~Has("MESSAGE_SENT")'
      /\ SendBusy'
  BY DEF SendFlags, SendBusy, Has, Any
<1>6. SendInv'
  BY <1>0, <1>2, <1>3, <1>5 DEF SendInv, CoreInv, TypeOK
<1> QED
  BY <1>0, <1>2, <1>4, <1>6

LEMMA SendMessageStep == CoreInv /\ SendMessage => CoreInv'
<1> SUFFICES ASSUME CoreInv, SendMessage PROVE CoreInv'
  OBVIOUS
<1>0. /\ TypeOK /\ FlagInv /\ SockInv /\ arrived <= End(inbound)
      /\ InSession /\ ~SendBusy /\ ~Has("ERROR") /\ Has("CONNECTED")
      /\ connection_state' = connection_state \cup {"SEND_REQUESTED"}
      /\ UNCHANGED <<slot, recvs, send_buffer_pos, wired, pc, peer, delivered, session>>
  BY DEF CoreInv, SendMessage, SendRefused, InSession, Has, Any
<1>1. PICK l \in SendSizes : Queue(l)
  BY DEF SendMessage
<1>2. /\ outbound' \in Seq(Frame) /\ send_message_len' \in Nat
      /\ NeverOverwritten' /\ SendInv'
  <2>1. connection_state' \cap SendFlags = {"SEND_REQUESTED"}
    BY <1>0 DEF SendFlags, SendBusy, Any
  <2> QED
    BY <1>0, <1>1, <2>1, QueueFacts
<1>3. TypeOK'
  BY <1>0, <1>2 DEF TypeOK, StatusFlags, slot, recvs, peer
<1>4. FlagInv' /\ IdleInv' /\ SockInv' /\ InSession'
  BY <1>0 DEF FlagInv, IdleInv, SockInv, SendBusy, IsServer, slot, InSession, Has, Any
<1>5. Contiguous(inbound)' /\ InOrder' /\ RecvInv'
  <2>1. arrived <= arrived'
    BY <1>0 DEF TypeOK, peer
  <2> QED
    BY <1>0, <1>3, <2>1, RecvSideKept DEF Has, peer
<1>6. (arrived <= End(inbound))'
  BY <1>0 DEF End, peer
<1> QED
  BY <1>2, <1>3, <1>4, <1>5, <1>6 DEF CoreInv

LEMMA HandleSocketConnectedStep == CoreInv /\ HandleSocketConnected => CoreInv'
<1> SUFFICES ASSUME CoreInv, HandleSocketConnected PROVE CoreInv'
  OBVIOUS
<1>0. /\ TypeOK /\ FlagInv /\ SockInv /\ SendInv /\ arrived <= End(inbound)
      /\ Has("CLIENT_SOCKET_CONNECTED")
      /\ InSession
      /\ pc' \in {"control", "send"}
      /\ UNCHANGED <<slot, recvs, send_buffer_pos, wired, peer, delivered, session>>
  BY DEF CoreInv, FlagInv, HandleSocketConnected, NextEvent, SocketConnectedEvent,
         EndPass, InSession, Has, Any
<1>1. /\ connection_state' \subseteq StatusFlags
      /\ FlagInv' /\ IdleInv' /\ SockInv' /\ InSession'
      /\ Has("ERROR") => Has("ERROR")'
      /\ Has("MESSAGE_RECEIVED")' <=> Has("MESSAGE_RECEIVED")
      /\ Has("MESSAGE_CONSUMED")' <=> Has("MESSAGE_CONSUMED")
  <2>1. CASE connection_state' =
               connection_state \cup {"CLIENT_SOCKET_CONNECTED_CONSUMED"}
    BY <1>0, <2>1
       DEF TypeOK, StatusFlags, FlagInv, IdleInv, SockInv, IsServer, slot, InSession,
           Has, Any
  <2>2. CASE /\ ~SendBusy
             /\ connection_state' =
                  connection_state
                    \cup {"CLIENT_SOCKET_CONNECTED_CONSUMED", "SEND_REQUESTED"}
    BY <1>0, <2>2
       DEF TypeOK, StatusFlags, FlagInv, IdleInv, SockInv, SendBusy, IsServer, slot,
           InSession, Has, Any
  <2> QED
    BY <2>1, <2>2 DEF HandleSocketConnected
<1>2. /\ outbound' \in Seq(Frame) /\ send_message_len' \in Nat
      /\ NeverOverwritten' /\ SendInv'
  <2>1. CASE Any({"ERROR", "CLOSED", "CLOSE_REQUESTED"}) \/ SendBusy
    <3>1. connection_state' = connection_state \cup {"CLIENT_SOCKET_CONNECTED_CONSUMED"}
          /\ UNCHANGED <<outbound, send_message_len>>
      BY <2>1 DEF HandleSocketConnected
    <3>2. connection_state' \cap SendFlags = connection_state \cap SendFlags
      BY <3>1 DEF SendFlags
    <3>3. UNCHANGED <<sends, outbound>>
      BY <1>0, <3>1 DEF sends
    <3> QED
      BY <1>0, <1>1, <3>1, <3>2, <3>3, SendSideKept DEF TypeOK
  <2>2. CASE ~(Any({"ERROR", "CLOSED", "CLOSE_REQUESTED"}) \/ SendBusy)
    <3>1. PICK l \in SendSizes : Queue(l)
      BY <2>2 DEF HandleSocketConnected
    <3>2. connection_state' =
            connection_state \cup {"CLIENT_SOCKET_CONNECTED_CONSUMED", "SEND_REQUESTED"}
      BY <2>2 DEF HandleSocketConnected
    <3>3. connection_state' \cap SendFlags = {"SEND_REQUESTED"} /\ ~Has("ERROR")
      BY <2>2, <3>2 DEF SendFlags, SendBusy, Has, Any
    <3> QED
      BY <1>0, <2>2, <3>1, <3>3, QueueFacts
  <2> QED
    BY <2>1, <2>2
<1>3. TypeOK'
  BY <1>0, <1>1, <1>2 DEF TypeOK, slot, recvs, peer
<1>4. Contiguous(inbound)' /\ InOrder' /\ RecvInv'
  <2>1. arrived <= arrived'
    BY <1>0 DEF TypeOK, peer
  <2> QED
    BY <1>0, <1>1, <1>3, <2>1, RecvSideKept DEF peer
<1>5. (arrived <= End(inbound))'
  BY <1>0 DEF End, peer
<1> QED
  BY <1>1, <1>2, <1>3, <1>4, <1>5 DEF CoreInv

\* The message handed over is the one after those handed over before.
LEMMA HandleReceivedStep == CoreInv /\ HandleReceived => CoreInv'
<1> SUFFICES ASSUME CoreInv, HandleReceived PROVE CoreInv'
  OBVIOUS
<1>0. /\ TypeOK /\ FlagInv /\ SockInv /\ RecvInv /\ InOrder /\ Contiguous(inbound)
      /\ arrived <= End(inbound)
      /\ Has("MESSAGE_RECEIVED") /\ ~Has("MESSAGE_CONSUMED") /\ InSession
      /\ pc' \in {"control", "send"}
      /\ delivered' = Append(delivered, Base)
      /\ UNCHANGED <<slot, recvs, sends, peer, outbound, session>>
  BY DEF CoreInv, FlagInv, HandleReceived, NextEvent, ReceivedEvent, EndPass,
         InSession, Has, Any
<1>1. PICK S : /\ connection_state' = S
               /\ \/ S = connection_state \cup {"MESSAGE_CONSUMED"}
                  \/ /\ ~IsServer
                     /\ S = (connection_state \ {"CONNECTING"})
                              \cup {"CONNECTED", "MESSAGE_CONSUMED"}
  BY DEF HandleReceived
<1>2. /\ connection_state' \subseteq StatusFlags /\ InSession'
      /\ FlagInv' /\ IdleInv' /\ SockInv'
      /\ Has("MESSAGE_RECEIVED")' /\ Has("MESSAGE_CONSUMED")'
      /\ Has("ERROR")' <=> Has("ERROR")
      /\ connection_state' \cap SendFlags = connection_state \cap SendFlags
  <2>1. connection_state' \subseteq StatusFlags
    BY <1>0, <1>1 DEF TypeOK, StatusFlags
  <2>2. InSession'
    BY <1>0, <1>1 DEF InSession, Any
  <2>3. FlagInv' /\ IdleInv'
    BY <1>0, <1>1 DEF FlagInv, IdleInv, InSession, Has, Any
  <2>4. SockInv'
    BY <1>0, <1>1 DEF SockInv, IsServer, slot, InSession, Has, Any
  <2>5. connection_state' \cap SendFlags = connection_state \cap SendFlags
    BY <1>1 DEF SendFlags
  <2> QED
    BY <1>0, <1>1, <2>1, <2>2, <2>3, <2>4, <2>5 DEF Has
<1>3. /\ Popped = Len(delivered) /\ Len(delivered) \in Nat
      /\ Len(delivered) < Len(inbound)
      /\ Base = Offset(Len(delivered)) /\ Base \in Int
      /\ delivered \in Seq(Int)
  BY <1>0 DEF RecvInv, Popped, Base, TypeOK
<1>4. /\ Len(delivered) + 1 \in DOMAIN inbound
      /\ inbound[Len(delivered) + 1].start = Base
  BY <1>0, <1>3, NextMessage
<1>5. /\ delivered' \in Seq(Int) /\ Len(delivered') = Len(delivered) + 1
      /\ delivered' # <<>>
      /\ delivered'[Len(delivered) + 1] = Base
      /\ \A i \in DOMAIN delivered : delivered'[i] = delivered[i]
      /\ \A i \in DOMAIN delivered' :
           i \in DOMAIN delivered \/ i = Len(delivered) + 1
  BY <1>0, <1>3
<1>6. TypeOK'
  BY <1>0, <1>2, <1>5 DEF TypeOK, slot, recvs, sends, peer
<1>7. InOrder'
  BY <1>0, <1>3, <1>4, <1>5, SMTT(40) DEF InOrder, peer, TypeOK
<1>8. Contiguous(inbound)' /\ (arrived <= End(inbound))'
  BY <1>0 DEF Contiguous, End, peer
<1>9. RecvInv'
  <2>1. Popped' = Popped /\ Base' = Base /\ Offset(Popped)' = Offset(Popped)
    <3>1. Popped' = Popped
      BY <1>2, <1>3, <1>5 DEF Popped
    <3> QED
      BY <1>0, <3>1 DEF Base, Offset, recvs, peer
  <2> QED
    BY <1>0, <1>2, <1>5, <2>1 DEF RecvInv, recvs, peer
<1>10. NeverOverwritten' /\ SendInv'
  BY <1>0, <1>2, SendSideKept
<1> QED
  BY <1>2, <1>6, <1>7, <1>8, <1>9, <1>10 DEF CoreInv

LEMMA EventPassStep == CoreInv /\ EventPass => CoreInv'
<1>1. CoreInv /\ PassWithout => CoreInv'
  BY OnlyPc DEF PassWithout, EndPass
<1> QED
  BY <1>1, HandleStatusStep, HandleReceivedStep, RejectReceivedStep,
     HandleSocketConnectedStep DEF EventPass, HandleEvent

-----------------------------------------------------------------------------
(* The peer, the network, and a new session *)

\* The peer's stream grows at its end.
LEMMA PeerWritesStep == CoreInv /\ PeerWrites => CoreInv'
<1> SUFFICES ASSUME CoreInv, PeerWrites PROVE CoreInv'
  OBVIOUS
<1>0. /\ TypeOK /\ RecvInv /\ InOrder /\ Contiguous(inbound) /\ arrived <= End(inbound)
      /\ UNCHANGED <<slot, connection_state, recvs, sends, pc, link, arrived, app>>
  BY DEF CoreInv, PeerWrites
<1>1. PICK l \in MsgSizes, k \in Kinds :
        inbound' = Append(inbound, [start |-> End(inbound), len |-> l, kind |-> k])
  BY DEF PeerWrites
<1>2. /\ inbound \in Seq(PeerFrame) /\ End(inbound) \in Nat
      /\ Len(inbound) \in Nat /\ l \in Nat /\ 0 < l
  BY <1>0, StreamFacts, SizeFacts DEF TypeOK
<1>3. [start |-> End(inbound), len |-> l, kind |-> k] \in PeerFrame
  BY <1>2 DEF PeerFrame
<1>4. /\ inbound' \in Seq(PeerFrame) /\ Len(inbound') = Len(inbound) + 1
      /\ inbound' # <<>>
      /\ inbound'[Len(inbound) + 1].start = End(inbound)
      /\ inbound'[Len(inbound) + 1].len = l
      /\ \A i \in DOMAIN inbound : i \in DOMAIN inbound' /\ inbound'[i] = inbound[i]
      /\ \A i \in DOMAIN inbound' : i \in DOMAIN inbound \/ i = Len(inbound) + 1
      /\ DOMAIN inbound = 1..Len(inbound)
  BY <1>1, <1>2, <1>3
<1>5. TypeOK'
  BY <1>0, <1>4 DEF TypeOK, slot, recvs, sends, app
<1>6. FlagInv' /\ IdleInv' /\ SockInv'
  BY <1>0 DEF CoreInv, FlagInv, IdleInv, SockInv, InSession, IsServer, slot, recvs, sends,
              Has, Any
<1>7. Contiguous(inbound')
  <2>1. ASSUME NEW i \in DOMAIN inbound'
        PROVE  inbound'[i].start =
                 IF i = 1 THEN 0 ELSE inbound'[i - 1].start + inbound'[i - 1].len
    <3>1. CASE i \in DOMAIN inbound
      <4>1. i # 1 => i - 1 \in DOMAIN inbound
        BY <1>4, <3>1
      <4> QED
        BY <1>0, <1>4, <3>1, <4>1 DEF Contiguous
    <3>2. CASE i = Len(inbound) + 1
      <4>1. CASE inbound = <<>>
        BY <1>4, <3>2, <4>1 DEF End
      <4>2. CASE inbound # <<>>
        <5>1. i # 1 /\ i - 1 = Len(inbound) /\ Len(inbound) \in DOMAIN inbound
          BY <1>2, <1>4, <3>2, <4>2
        <5> QED
          BY <1>4, <3>2, <4>2, <5>1 DEF End
      <4> QED
        BY <4>1, <4>2
    <3> QED
      BY <1>4, <2>1, <3>1, <3>2
  <2>2. ASSUME NEW i \in DOMAIN inbound', NEW j \in DOMAIN inbound', i < j
        PROVE  inbound'[i].start + inbound'[i].len <= inbound'[j].start
    <3>1. i \in DOMAIN inbound
      BY <1>2, <1>4, <2>2
    <3>2. CASE j \in DOMAIN inbound
      BY <1>0, <1>4, <2>2, <3>1, <3>2 DEF Contiguous
    <3>3. CASE j = Len(inbound) + 1
      BY <1>0, <1>2, <1>4, <3>1, <3>3, StreamFacts
    <3> QED
      BY <1>4, <2>2, <3>2, <3>3
  <2> QED
    BY <2>1, <2>2 DEF Contiguous
<1>8. (arrived <= End(inbound))'
  <2>1. End(inbound)' = End(inbound) + l
    BY <1>4 DEF End
  <2> QED
    BY <1>0, <1>2, <2>1 DEF TypeOK
<1>9. /\ delivered' = delivered /\ Len(delivered) \in Nat
      /\ Len(delivered) <= Len(inbound) /\ DOMAIN delivered = 1..Len(delivered)
  BY <1>0 DEF InOrder, TypeOK, app
<1>10. InOrder'
  BY <1>0, <1>2, <1>4, <1>9 DEF InOrder
<1>11. CASE InSession
  <2>1. /\ Popped \in 0..Len(inbound) /\ Popped' = Popped
        /\ Base' = Base /\ Offset(Popped)' = Offset(Popped)
    <3>1. Popped \in Int /\ Popped' = Popped /\ 0 <= Popped /\ Popped <= Len(inbound)
      BY <1>0, <1>2, <1>9, <1>11 DEF Popped, RecvInv, Has, TypeOK
    <3>2. Offset(Popped)' = Offset(Popped)
      BY <1>2, <1>4, <3>1 DEF Offset
    <3> QED
      BY <1>0, <3>1, <3>2 DEF Base, recvs
  <2>2. Popped < Len(inbound) =>
          Popped < Len(inbound') /\ inbound'[Popped + 1] = inbound[Popped + 1]
    BY <1>2, <1>4, <2>1
  <2>3. InSession' /\ UNCHANGED <<taken, arrived, recv_buffer_pos, recv_message_len>>
    BY <1>0, <1>11 DEF InSession, Any, recvs
  <2>4. Has("MESSAGE_RECEIVED") => Popped < Len(inbound)
    BY <1>0, <1>11 DEF RecvInv
  <2>5. RecvInv'
    BY <1>0, <1>9, <1>11, <2>1, <2>2, <2>3, <2>4 DEF RecvInv, Has, recvs
  <2>6. NeverOverwritten' /\ SendInv'
    BY <1>0, <1>11, SendSideKept DEF Has, app
  <2> QED
    BY <1>5, <1>6, <1>7, <1>8, <1>10, <2>5, <2>6 DEF CoreInv
<1>12. CASE ~InSession
  <2>1. RecvInv' /\ SendInv' /\ NeverOverwritten'
    <3>1. ~InSession'
      BY <1>0, <1>12 DEF InSession, Any
    <3> QED
      BY <1>0, <3>1 DEF CoreInv, RecvInv, SendInv, NeverOverwritten, sends, app
  <2> QED
    BY <1>5, <1>6, <1>7, <1>8, <1>10, <2>1 DEF CoreInv
<1> QED
  BY <1>11, <1>12

\* More of the stream arrives, or the link changes.
LEMMA NetworkStep ==
  ASSUME CoreInv, arrived' \in Nat, arrived <= arrived', arrived' <= End(inbound),
         link' \in {"connecting", "up", "refused", "eof", "reset"},
         UNCHANGED <<slot, connection_state, recvs, sends, pc, inbound, app>>
  PROVE  CoreInv'
<1>1. TypeOK'
  BY DEF CoreInv, TypeOK, slot, recvs, sends, app
<1>2. FlagInv' /\ IdleInv' /\ SockInv' /\ (InSession' <=> InSession)
  BY DEF CoreInv, FlagInv, IdleInv, SockInv, InSession, IsServer, slot, recvs, sends,
         Has, Any
<1>3. Contiguous(inbound)' /\ InOrder' /\ RecvInv'
  BY <1>1, <1>2, RecvSideKept DEF Has, app
<1>4. NeverOverwritten' /\ SendInv'
  BY <1>2, SendSideKept DEF Has, app
<1>5. (arrived <= End(inbound))'
  BY DEF End
<1> QED
  BY <1>1, <1>2, <1>3, <1>4, <1>5 DEF CoreInv

LEMMA ArriveStep == CoreInv /\ Arrive => CoreInv'
<1> SUFFICES ASSUME CoreInv, Arrive PROVE CoreInv'
  OBVIOUS
<1>1. End(inbound) \in Nat /\ arrived \in Nat
  BY StreamFacts DEF CoreInv, TypeOK
<1>2. /\ arrived' \in Nat /\ arrived <= arrived' /\ arrived' <= End(inbound)
      /\ link' \in {"connecting", "up", "refused", "eof", "reset"}
  BY <1>1 DEF Arrive, CoreInv, TypeOK
<1> QED
  BY <1>2, NetworkStep DEF Arrive

LEMMA LinkChangeStep == CoreInv /\ LinkChange => CoreInv'
<1> SUFFICES ASSUME CoreInv, LinkChange PROVE CoreInv'
  OBVIOUS
<1>1. /\ arrived' \in Nat /\ arrived <= arrived' /\ arrived' <= End(inbound)
      /\ link' \in {"connecting", "up", "refused", "eof", "reset"}
  BY DEF LinkChange, CoreInv, TypeOK
<1> QED
  BY <1>1, NetworkStep DEF LinkChange

\* An idle slot is clean, so the new session starts from nothing.
LEMMA NewSessionStep ==
  ASSUME CoreInv, NewSession, config_flags' \subseteq ConfigFlags \cup {"ERROR"},
         link' \in {"connecting", "up", "refused", "eof", "reset"}
  PROVE  CoreInv'
<1> USE DEF NewSession
<1>0. /\ recv_buffer_pos = 0 /\ recv_message_len = 0
      /\ send_buffer_pos = 0 /\ send_message_len = 0
  BY DEF CoreInv, IdleInv
<1>1. TypeOK'
  BY <1>0 DEF CoreInv, TypeOK, StatusFlags
<1>2. FlagInv' /\ IdleInv' /\ SockInv'
  BY DEF FlagInv, IdleInv, SockInv, InSession, Has, Any
<1>3. Contiguous(inbound)' /\ (arrived <= End(inbound))' /\ InOrder'
  BY DEF Contiguous, End, InOrder
<1>4. RecvInv'
  <2>1. Popped' = 0 /\ Base' = 0 /\ Offset(Popped)' = 0
    BY <1>0 DEF Popped, Base, Offset, Has
  <2> QED
    BY <1>0, <2>1, SizeFacts DEF RecvInv, Has
<1>5. NeverOverwritten' /\ SendInv'
  BY <1>0 DEF NeverOverwritten, SendInv, SendBusy, End, Has, Any
<1> QED
  BY <1>1, <1>2, <1>3, <1>4, <1>5 DEF CoreInv

LEMMA SessionStep == CoreInv /\ (Accept \/ Connect) => CoreInv'
  BY NewSessionStep DEF Accept, Connect, CoreInv, TypeOK, ConfigFlags

-----------------------------------------------------------------------------
(* The invariant and what it implies *)

LEMMA NextStep == CoreInv /\ [Next]_vars => CoreInv'
<1> SUFFICES ASSUME CoreInv, [Next]_vars PROVE CoreInv'
  OBVIOUS
<1>1. CASE Accept \/ Connect
  BY <1>1, SessionStep
<1>2. CASE ProcessControl
  BY <1>2, ProcessControlStep
<1>3. CASE Receive
  BY <1>3, ReceiveStep
<1>4. CASE Transmit
  BY <1>4, TransmitStep
<1>5. CASE EventPass
  BY <1>5, EventPassStep
<1>6. CASE SendMessage
  BY <1>6, SendMessageStep
<1>7. CASE Close
  BY <1>7, CloseStep
<1>8. CASE PeerWrites
  BY <1>8, PeerWritesStep
<1>9. CASE Arrive
  BY <1>9, ArriveStep
<1>10. CASE LinkChange
  BY <1>10, LinkChangeStep
<1>11. CASE Overrun \/ UNCHANGED vars
  <2>1. /\ UNCHANGED <<slot, connection_state, recvs, sends, peer, app>>
        /\ pc' \in {"control", "recv", "send", "event", "overrun"}
    BY <1>11 DEF Overrun, vars, CoreInv, TypeOK
  <2> QED
    BY <2>1, OnlyPc
<1> QED
  BY <1>1, <1>2, <1>3, <1>4, <1>5, <1>6, <1>7, <1>8, <1>9, <1>10, <1>11 DEF Next

\* What every step preserves holds in every reachable state.
THEOREM CoreInvariance == SafetySpec => []CoreInv
<1>1. Init => CoreInv
  BY InitCoreInv
<1>2. CoreInv /\ [Next]_vars => CoreInv'
  BY NextStep
<1> QED
  BY <1>1, <1>2, PTL DEF SafetySpec

\* Every variable keeps its type, whatever the peer and the application do.
THEOREM TypeCorrect == SafetySpec => []TypeOK
<1>1. CoreInv => TypeOK
  BY DEF CoreInv
<1> QED
  BY <1>1, CoreInvariance, PTL

\* A read that may not fit is asked for in two cases only.
LEMMA FitFacts ==
  ASSUME CoreInv, ~Has("ERROR"), ReadLen > 0, ReadLen > Room
  PROVE  \/ Has("MESSAGE_CONSUMED") /\ recv_message_len < HeaderRead
         \/ ~Has("MESSAGE_CONSUMED") /\ FrontSaysNothing
<1> USE SizeFacts
<1>1. TypeOK /\ FlagInv /\ RecvInv /\ Contiguous(inbound) /\ InOrder /\ InSession
  BY ReadInSession DEF CoreInv
<1>2. /\ recv_buffer_pos \in Nat /\ recv_message_len \in Nat /\ Len(delivered) \in Nat
      /\ recv_buffer_pos <= RecvBufLen /\ Base = Offset(Popped)
  BY <1>1 DEF TypeOK, RecvInv
<1>3. KeptLen = 0 /\ ReadLen = HeaderRead
  <2>1. ReadLen # RecvBufLen - KeptPos
    BY <1>1, KeptFacts DEF Room
  <2> QED
    BY <2>1 DEF ReadLen
<1>4. CASE Has("MESSAGE_CONSUMED")
  BY <1>2, <1>3, <1>4 DEF KeptPos, Room
<1>5. CASE ~Has("MESSAGE_CONSUMED")
  <2>1. recv_message_len = 0 /\ ~(recv_buffer_pos < PreambleLen)
    BY <1>2, <1>3, <1>5 DEF KeptPos, KeptLen, Room
  <2>2. /\ Popped \in Nat /\ Popped < Len(inbound)
        /\ inbound[Popped + 1].kind = "nosize"
    BY <1>1, <1>2, <1>5, <2>1 DEF RecvInv, Popped
  <2>3. Popped + 1 \in DOMAIN inbound /\ inbound[Popped + 1].start = Base
    BY <1>1, <1>2, <2>2, NextMessage
  <2> QED
    BY <1>5, <2>2, <2>3 DEF FrontSaysNothing
<1> QED
  BY <1>4, <1>5

\* communicate_recv asks the socket for more than recv_buffer can take only behind a
\* message shorter than the 64 bytes it asks for, or one with a size field of 0.
THEOREM ReadsFit == SafetySpec => []ReadFits
<1>1. CoreInv => ReadFits
  BY FitFacts DEF ReadFits
<1> QED
  BY <1>1, CoreInvariance, PTL

\* recv_buffer is overrun only where the peer has written such a message: with every
\* message 64 bytes or longer, as version 2 headers make them, it never is.
THEOREM OverrunsAreShort == SafetySpec => []OverrunIsShort
<1>1. Init => OverrunIsShort
  BY DEF Init, OverrunIsShort
<1>2. CoreInv /\ OverrunIsShort /\ [Next]_vars => OverrunIsShort'
  <2> SUFFICES ASSUME CoreInv, OverrunIsShort, [Next]_vars, pc' = "overrun"
               PROVE  (\E i \in DOMAIN inbound :
                         inbound[i].kind = "nosize" \/ inbound[i].len < HeaderRead)'
    BY DEF OverrunIsShort
  <2>0. TypeOK
    BY DEF CoreInv
  <2>1. CASE RecvOverruns
    <3>1. PICK m \in 0..ReadLen : m > Room
      BY <2>1 DEF RecvOverruns
    <3>2. CoreInv /\ ~Has("ERROR") /\ ReadLen > 0 /\ InSession /\ inbound' = inbound
      BY <2>1, ReadInSession DEF RecvOverruns, peer
    <3>3. ReadLen \in Nat /\ Room \in Nat
      BY <3>2, KeptFacts
    <3>4. ReadLen > Room
      BY <3>1, <3>3
    <3>5. CASE Has("MESSAGE_CONSUMED") /\ recv_message_len < HeaderRead
      <4>1. /\ Popped \in Nat /\ Popped < Len(inbound)
            /\ inbound[Popped + 1].len = recv_message_len
        BY <2>0, <3>2, <3>5 DEF CoreInv, FlagInv, RecvInv, Popped, TypeOK
      <4>2. Popped + 1 \in DOMAIN inbound
        BY <2>0, <3>2, <4>1, NextMessage DEF CoreInv
      <4> QED
        BY <3>2, <3>5, <4>1, <4>2
    <3>6. CASE FrontSaysNothing
      BY <3>2, <3>6 DEF FrontSaysNothing
    <3> QED
      BY <3>2, <3>4, <3>5, <3>6, FitFacts
  <2>2. CASE ~RecvOverruns
    <3>1. pc = "overrun" /\ (inbound' = inbound \/ PeerWrites)
      <4>1. ~(Accept \/ Connect \/ ProcessControl \/ Receive \/ Transmit \/ EventPass)
        BY <2>2 DEF Accept, Connect, NewSession, ProcessControl, ControlSkip,
             ControlReset, ControlClose, HandshakeServer, CheckMagic, Controlled, Live,
             Polling, ConnectPending, ConnectComplete, ConnectFails, ControlPass,
             Receive, RecvError, RecvNothing, RecvFails, RecvBytes,
             Transmit, SendNothing, SendRelease, SendBytes,
             EventPass, HandleEvent, HandleStatus, HandleReceived, RejectReceived,
             HandleSocketConnected, PassWithout, EndPass
      <4> QED
        BY <4>1 DEF Next, vars, peer, SendMessage, Close, PeerWrites, Arrive, LinkChange,
                    Overrun
    <3>2. PICK i \in DOMAIN inbound :
            inbound[i].kind = "nosize" \/ inbound[i].len < HeaderRead
      BY <3>1 DEF OverrunIsShort
    <3>3. inbound \in Seq(PeerFrame)
      BY <2>0 DEF TypeOK
    <3>4. i \in DOMAIN inbound' /\ inbound'[i] = inbound[i]
      <4>1. CASE PeerWrites
        <5>1. PICK f \in {[start |-> End(inbound), len |-> l, kind |-> k] :
                             l \in MsgSizes, k \in Kinds} :
                inbound' = Append(inbound, f)
          BY <4>1 DEF PeerWrites
        <5> QED
          BY <3>3, <5>1
      <4> QED
        BY <3>1, <4>1
    <3> QED
      BY <3>2, <3>4
  <2> QED
    BY <2>1, <2>2
<1> QED
  BY <1>1, <1>2, CoreInvariance, PTL DEF SafetySpec

\* The invariant the run checks holds in every reachable state.
THEOREM Invariance == SafetySpec => []IInv
<1>1. CoreInv /\ ReadFits /\ OverrunIsShort => IInv
  BY DEF IInv
<1> QED
  BY <1>1, CoreInvariance, ReadsFit, OverrunsAreShort, PTL

\* The application is handed the peer's messages in order, each once.
THEOREM DeliveredInOrder == SafetySpec => []InOrder
<1>1. CoreInv => InOrder
  BY DEF CoreInv
<1> QED
  BY <1>1, CoreInvariance, PTL

\* A received event shows one whole and valid message of the peer.
THEOREM ReceivedIsWhole == SafetySpec => []WholeMessage
<1>1. CoreInv => WholeMessage
  <2> SUFFICES ASSUME CoreInv, ReceivedEvent
               PROVE  \E i \in DOMAIN inbound :
                        /\ inbound[i].start = Base
                        /\ inbound[i].len = recv_message_len
                        /\ inbound[i].kind = "good"
                        /\ recv_message_len <= recv_buffer_pos
    BY DEF WholeMessage
  <2>1. /\ InSession /\ Has("MESSAGE_RECEIVED") /\ ~Has("MESSAGE_CONSUMED")
    BY DEF CoreInv, FlagInv, ReceivedEvent, InSession, Has, Any
  <2>2. /\ Popped \in Nat /\ Popped < Len(inbound) /\ Base = Offset(Popped)
        /\ inbound[Popped + 1].len = recv_message_len
        /\ inbound[Popped + 1].kind = "good"
        /\ recv_message_len <= recv_buffer_pos
    BY <2>1 DEF CoreInv, RecvInv, Popped, TypeOK
  <2>3. Popped + 1 \in DOMAIN inbound /\ inbound[Popped + 1].start = Offset(Popped)
    BY <2>2, NextMessage DEF CoreInv
  <2> QED
    BY <2>2, <2>3
<1> QED
  BY <1>1, CoreInvariance, PTL

\* No accepted message is overwritten before it has left the send buffer.
THEOREM SendsWhole == SafetySpec => []NeverOverwritten
<1>1. CoreInv => NeverOverwritten
  BY DEF CoreInv
<1> QED
  BY <1>1, CoreInvariance, PTL

\* A send-complete event is reported only when all that was accepted is out.
THEOREM SentIsTrue == SafetySpec => []SentIsSent
<1>1. CoreInv => SentIsSent
  BY DEF CoreInv, FlagInv, SendInv, SentIsSent, SentEvent, InSession, Has, Any
<1> QED
  BY <1>1, CoreInvariance, PTL

\* Input and output happen only on a socket the slot owns.
THEOREM SocketOwned == SafetySpec => []IoOwnsSocket
<1>1. CoreInv => IoOwnsSocket
  <2> SUFFICES ASSUME CoreInv,
                      Any({"RECEIVE_REQUESTED", "MESSAGE_CONSUMED",
                           "SEND_REQUESTED", "SENDING"})
               PROVE  sock = "open"
    BY DEF IoOwnsSocket
  <2>1. InSession
    BY DEF CoreInv, FlagInv, InSession, Has, Any
  <2>2. IsServer \/ Has("CLIENT_SOCKET_CONNECTED")
    BY <2>1 DEF CoreInv, SockInv, FlagInv, Has, Any
  <2> QED
    BY <2>1, <2>2 DEF CoreInv, SockInv
<1> QED
  BY <1>1, CoreInvariance, PTL

\* While a received message waits for its handler, nothing moves the buffer.
THEOREM PendingStable == SafetySpec => PendingIsStable
<1>1. CoreInv /\ [Next]_vars => [ReceivedEvent => UNCHANGED recvs]_vars
  <2> SUFFICES ASSUME CoreInv, Next, ReceivedEvent PROVE UNCHANGED recvs
    OBVIOUS
  <2>1. /\ InSession /\ Has("MESSAGE_RECEIVED") /\ ~Has("MESSAGE_CONSUMED")
        /\ ~Has("RECEIVE_REQUESTED") /\ ~(IsServer /\ Has("CONNECTING"))
    BY DEF CoreInv, FlagInv, SockInv, ReceivedEvent, InSession, Has, Any
  <2>2. CASE Accept \/ Connect
    BY <2>1, <2>2 DEF Accept, Connect, NewSession, InSession, Has, Any
  <2>3. CASE ProcessControl
    <3>1. ~ControlReset /\ ~HandshakeServer
      BY <2>1 DEF ControlReset, HandshakeServer, CoreInv, FlagInv, InSession, Has, Any
    <3> QED
      BY <2>3, <3>1
         DEF ProcessControl, ControlSkip, ControlClose, ConnectPending,
             ConnectComplete, ConnectFails, ControlPass
  <2>4. CASE Receive
    <3>1. KeptPos = recv_buffer_pos /\ KeptLen = recv_message_len /\ ReadLen = 0
      BY <2>1 DEF KeptPos, KeptLen, ReadLen, KeptState, Has
    <3> QED
      BY <2>4, <3>1 DEF Receive, RecvError, RecvNothing, RecvFails, RecvBytes,
                        RecvOverruns, recvs
  <2>5. CASE Transmit
    BY <2>5 DEF Transmit, SendNothing, SendRelease, SendBytes
  <2>6. CASE EventPass
    BY <2>6 DEF EventPass, HandleEvent, HandleStatus, HandleReceived, RejectReceived,
                HandleSocketConnected, PassWithout
  <2>7. CASE SendMessage \/ Close \/ PeerWrites \/ Arrive \/ LinkChange \/ Overrun
    BY <2>7 DEF SendMessage, Close, PeerWrites, Arrive, LinkChange, Overrun, vars
  <2> QED
    BY <2>2, <2>3, <2>4, <2>5, <2>6, <2>7 DEF Next
<1> QED
  BY <1>1, CoreInvariance, PTL DEF SafetySpec, PendingIsStable

\* After its closed event a session brings nothing more.
THEOREM ClosedLast == SafetySpec => ClosedIsLast
<1> DEFINE Quiet == /\ delivered' = delivered \/ session' # session
                    /\ Has("CLOSED_CONSUMED")' \/ Has("IDLE")'
<1>1. CoreInv /\ [Next]_vars => [Has("CLOSED_CONSUMED") => Quiet]_vars
  <2> SUFFICES ASSUME CoreInv, Next, Has("CLOSED_CONSUMED") PROVE Quiet
    OBVIOUS
  <2>1. /\ connection_state \subseteq {"CLOSED", "CLOSED_CONSUMED", "CLOSE_REQUESTED"}
        /\ Has("CLOSED") /\ ~InSession
    BY DEF CoreInv, FlagInv, InSession, Has, Any
  <2>2. CASE Accept \/ Connect
    BY <2>1, <2>2 DEF Accept, Connect, NewSession, Has
  <2>3. CASE ProcessControl
    <3>1. CASE ControlReset
      BY <3>1 DEF ControlReset, Reset, Has, app
    <3>2. CASE ~ControlReset
      BY <2>1, <2>3, <3>2
         DEF ProcessControl, ControlSkip, ControlClose, HandshakeServer, Polling, Live,
             ConnectPending, ConnectComplete, ConnectFails, ControlPass, Has, Any, app
    <3> QED
      BY <3>1, <3>2
  <2>4. CASE Receive
    <3>1. KeptState = connection_state /\ ~(ReadLen > 0)
      BY <2>1, ReadInSession DEF KeptState, Has
    <3> QED
      BY <2>4, <3>1 DEF Receive, RecvError, RecvNothing, RecvFails, RecvBytes,
                        RecvOverruns, Has, app
  <2>5. CASE Transmit
    <3>1. ~SendRelease /\ ~SendBytes
      BY <2>1 DEF SendRelease, SendBytes, SendLen, Has
    <3> QED
      BY <2>5, <3>1 DEF Transmit, SendNothing, Has, app
  <2>6. CASE EventPass
    <3>1. ~HandleReceived
      BY <2>1 DEF HandleReceived, NextEvent, ReceivedEvent, Has
    <3> QED
      BY <2>6, <3>1 DEF EventPass, HandleEvent, HandleStatus, RejectReceived,
                        HandleSocketConnected, PassWithout, Has, app
  <2>7. CASE SendMessage \/ Close \/ PeerWrites \/ Arrive \/ LinkChange \/ Overrun
    BY <2>7 DEF SendMessage, Close, PeerWrites, Arrive, LinkChange, Overrun, vars, Has, app
  <2> QED
    BY <2>2, <2>3, <2>4, <2>5, <2>6, <2>7 DEF Next
<1> QED
  BY <1>1, CoreInvariance, PTL DEF SafetySpec, ClosedIsLast
=============================================================================
