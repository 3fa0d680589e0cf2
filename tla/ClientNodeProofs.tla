-------------------------- MODULE ClientNodeProofs --------------------------
(***************************************************************************)
(* Proofs about ClientNode, for any bounds, any first identifier, and      *)
(* whatever the server answers and sends of its own: the application's     *)
(* requests are accounted for, and none ends by another's answer.          *)
(***************************************************************************)
EXTENDS ClientNode, SequenceTheorems, TLAPS

\* A message that is being handled was written by the server in this session.
LEMMA ReceivedFacts ==
  ASSUME TypeOK, Handling("received")
  PROVE  /\ phase = "open" /\ received /\ pc' = "cycle"
         /\ handed + 1 \in 1..Len(inbound)
         /\ inbound # <<>> /\ Message \in InMessage
<1>1. phase = "open" /\ received /\ pc' = "cycle"
  BY DEF Handling, NextEvent
<1>2. inbound \in Seq(InMessage) /\ handed \in Nat /\ handed < Len(inbound)
  BY <1>1 DEF TypeOK
<1>3. handed + 1 \in 1..Len(inbound) /\ inbound # <<>>
  BY <1>2
<1> QED
  BY <1>1, <1>2, <1>3 DEF Message

\* The types of what the handlers of a message change of the inbox.
InboxTyped ==
  /\ received' \in BOOLEAN
  /\ inbound' \in Seq(InMessage) /\ handed' \in 0..Len(inbound')
  /\ received' => handed' < Len(inbound')

LEMMA ConsumeFacts ==
  ASSUME TypeOK, Handling("received"), Consume
  PROVE  InboxTyped /\ inbound' = inbound
<1>1. inbound \in Seq(InMessage) /\ handed + 1 \in 0..Len(inbound)
  BY ReceivedFacts DEF TypeOK
<1>2. inbound' = inbound /\ handed' = handed + 1 /\ received' = FALSE
  BY DEF Consume
<1> QED
  BY <1>1, <1>2 DEF InboxTyped

LEMMA InboxKept ==
  ASSUME TypeOK, UNCHANGED inbox
  PROVE  InboxTyped /\ inbound' = inbound
  BY DEF inbox, InboxTyped, TypeOK

LEMMA EmptyInbox ==
  ASSUME inbound' = <<>>, handed' = 0, received' = FALSE
  PROVE  InboxTyped
<1>1. <<>> \in Seq(InMessage) /\ Len(<<>>) = 0
  OBVIOUS
<1>2. inbound' \in Seq(InMessage) /\ Len(inbound') = 0
  BY <1>1
<1>3. handed' \in 0..Len(inbound')
  BY <1>2
<1> QED
  BY <1>2, <1>3 DEF InboxTyped

\* The same for the outbox, with the part of the invariant that is about it.
OutboxTyped ==
  /\ sending' \in {"free", "busy", "sent", "released"}
  /\ outbound' \in Seq(OutMessage) /\ out' \in 0..Len(outbound')
  /\ BufferInv'

LEMMA QueueFacts ==
  ASSUME TypeOK, BufferInv, NEW st, NEW m \in OutMessage, Queue(st, m)
  PROVE  OutboxTyped
<1>1. CASE st = "ok"
  <2>1. /\ outbound' = Append(outbound, m) /\ sending' = "busy" /\ out' = out
    BY <1>1 DEF Queue
  <2>2. outbound \in Seq(OutMessage) /\ out \in 0..Len(outbound)
    BY DEF TypeOK
  <2>3. outbound' \in Seq(OutMessage) /\ Len(outbound') = Len(outbound) + 1
    BY <2>1, <2>2
  <2> QED
    BY <2>1, <2>2, <2>3 DEF OutboxTyped, BufferInv
<1>2. CASE st # "ok"
  BY <1>2 DEF Queue, outbox, OutboxTyped, BufferInv, TypeOK
<1> QED
  BY <1>1, <1>2

LEMMA OutboxKept ==
  ASSUME TypeOK, BufferInv, UNCHANGED outbox
  PROVE  OutboxTyped
  BY DEF outbox, OutboxTyped, BufferInv, TypeOK

\* The types of what the handshake changes.
HandshakeTypedNext ==
  /\ handshake_state' \in HandshakeStates
  /\ handshake_request_id' \in Nat /\ last_request_id' \in Nat

LEMMA AskFacts ==
  ASSUME TypeOK, BufferInv, NEW kind \in {"create", "type", "connect"},
         NEW id \in Nat, NEW before \in HandshakeStates,
         NEW after \in HandshakeStates, Ask(kind, id, before, after)
  PROVE  /\ HandshakeTypedNext /\ OutboxTyped /\ closing' \in BOOLEAN
         /\ last_request_id' = id
<1>1. [kind |-> kind, id |-> id] \in OutMessage
  BY DEF OutMessage
<1>2. OutboxTyped
  BY <1>1, QueueFacts DEF Ask
<1>3. HandshakeTypedNext
  BY DEF Ask, HandshakeTypedNext, HandshakeStates
<1>4. closing' \in BOOLEAN
  BY DEF Ask, TypeOK
<1> QED
  BY <1>2, <1>3, <1>4 DEF Ask

LEMMA HandshakeKept ==
  ASSUME TypeOK, UNCHANGED handshake
  PROVE  HandshakeTypedNext
  BY DEF handshake, HandshakeTypedNext, TypeOK

\* The types of the flags, of the notices and of the requests.
FlagsTyped ==
  /\ socket' \in {"connecting", "connected", "taken"}
  /\ closing' \in BOOLEAN /\ failed' \in BOOLEAN
  /\ connected' \in {"no", "event", "yes"}
  /\ client_established' \in BOOLEAN /\ close_notified' \in BOOLEAN

LEMMA FlagsKept ==
  ASSUME TypeOK, UNCHANGED flags
  PROVE  FlagsTyped
  BY DEF flags, FlagsTyped, TypeOK

NoticesTyped == noticed' \in Seq({"connected", "message", "disconnected"})

LEMMA TellFacts ==
  ASSUME TypeOK, NEW what \in {"connected", "message", "disconnected"}, Tell(what)
  PROVE  NoticesTyped
  BY DEF Tell, NoticesTyped, TypeOK

LEMMA NoticesKept ==
  ASSUME TypeOK, UNCHANGED noticed
  PROVE  NoticesTyped
  BY DEF NoticesTyped, TypeOK

RequestsTyped ==
  pending' \subseteq Request /\ asked' \subseteq Request /\ ended' \in Seq(End)

LEMMA EndsFacts ==
  ASSUME TypeOK, NEW r \in pending, NEW how \in {"answer", "timeout"}, NEW by \in Nat,
         Ends(r, how, by)
  PROVE  RequestsTyped
<1>1. [request |-> r, how |-> how, at |-> session, by |-> by] \in End
  BY DEF End, TypeOK
<1> QED
  BY <1>1 DEF Ends, Removes, RequestsTyped, TypeOK

LEMMA RequestsKept ==
  ASSUME TypeOK, UNCHANGED requests
  PROVE  RequestsTyped
  BY DEF requests, RequestsTyped, TypeOK

\* The parts of the type invariant together.
LEMMA Together ==
  ASSUME InboxTyped, OutboxTyped, HandshakeTypedNext, FlagsTyped, NoticesTyped,
         RequestsTyped, phase' \in {"idle", "open", "closed", "consumed"},
         pc' \in {"send", "event", "cycle"}, session' \in Nat
  PROVE  TypeOK' /\ BufferInv'
<1>1. TypeOK'
  BY DEF TypeOK, InboxTyped, OutboxTyped, HandshakeTypedNext, FlagsTyped,
         NoticesTyped, RequestsTyped
<1> QED
  BY <1>1 DEF OutboxTyped

\* Type correctness, and what is known of the buffer, are preserved by every step.
LEMMA TypeStep ==
  ASSUME IInv, [Next]_vars
  PROVE  TypeOK' /\ BufferInv'
<1> TypeOK /\ BufferInv
  BY DEF IInv
<1> USE InboxKept, OutboxKept, HandshakeKept, FlagsKept, NoticesKept, RequestsKept
<1> session \in Nat /\ phase \in {"idle", "open", "closed", "consumed"}
  BY DEF TypeOK
<1>1. CASE Connect
  <2>1. InboxTyped
    <3>1. ~received
      BY <1>1 DEF Connect, IInv, FreshInv
    <3>2. inbound' = <<>> /\ handed' = 0 /\ received' = FALSE
      BY <1>1, <3>1 DEF Connect, TypeOK
    <3> QED
      BY <3>2, EmptyInbox
  <2>2. OutboxTyped
    <3>1. sending = "free"
      BY <1>1 DEF Connect, IInv, FreshInv
    <3> QED
      BY <1>1, <3>1 DEF Connect, OutboxTyped, BufferInv
  <2>3. NoticesTyped
    BY <1>1 DEF Connect, NoticesTyped
  <2>4. phase' = "open" /\ session' \in Nat /\ pc' = pc
    BY <1>1 DEF Connect
  <2> QED
    BY <1>1, <2>1, <2>2, <2>3, <2>4, Together DEF Connect, TypeOK
<1>2. ASSUME NEW m \in InMessage, ServerWrites(m)
      PROVE  TypeOK' /\ BufferInv'
  <2>1. inbound' = Append(inbound, m) /\ handed' = handed /\ received' = received
    BY <1>2 DEF ServerWrites
  <2>2. inbound' \in Seq(InMessage) /\ Len(inbound') = Len(inbound) + 1
        /\ Len(inbound) \in Nat
    BY <2>1 DEF TypeOK
  <2>3. InboxTyped
    BY <2>1, <2>2 DEF InboxTyped, TypeOK
  <2> QED
    BY <1>2, <2>3, Together DEF ServerWrites, TypeOK
<1>3. CASE ServerAnswers
  <2>1. PICK i \in 1..out : /\ outbound[i].kind # "refusal"
                            /\ \E m \in Answers(i) : ServerWrites(m)
    BY <1>3 DEF ServerAnswers
  <2>2. outbound[i] \in OutMessage
    BY DEF TypeOK
  <2>3. outbound[i].id \in Nat
        /\ outbound[i].kind \in {"create", "type", "connect", "call", "test"}
    BY <2>1, <2>2 DEF OutMessage
  <2>4. AnswerKind[outbound[i].kind]
          \in {"createret", "typeret", "connectret", "callret", "testret"}
    BY <2>3 DEF AnswerKind
  <2>5. \A ok \in BOOLEAN : AnswerTo(i, ok) \in InMessage
    BY <2>3, <2>4 DEF AnswerTo, InMessage
  <2>6. Answers(i) \subseteq InMessage
    BY <2>5 DEF Answers
  <2> QED
    BY <1>2, <2>1, <2>6
<1>4. CASE ServerSpeaks
  <2>1. PICK k \in Strays : ServerWrites([kind |-> k, id |-> 0, ok |-> TRUE])
    BY <1>4 DEF ServerSpeaks
  <2>2. [kind |-> k, id |-> 0, ok |-> TRUE] \in InMessage
    BY ClientAssumption DEF InMessage
  <2> QED
    BY <1>2, <2>1, <2>2
<1>5. CASE SocketConnects
  <2>1. FlagsTyped
    BY <1>5 DEF SocketConnects, FlagsTyped, TypeOK
  <2> QED
    BY <1>5, <2>1, Together DEF SocketConnects, TypeOK
<1>6. CASE Control
  <2>1. FlagsTyped
    BY <1>6 DEF Control, FlagsReset, FlagsTyped
  <2>2. InboxTyped
    BY <1>6 DEF Control, InboxTyped, TypeOK
  <2>3. OutboxTyped
    BY <1>6 DEF Control, OutboxTyped, BufferInv, TypeOK
  <2> QED
    BY <1>6, <2>1, <2>2, <2>3, Together DEF Control, TypeOK
<1>7. CASE Receive
  <2>1. InboxTyped
    BY <1>7 DEF Receive, MoreToReceive, InboxTyped, TypeOK
  <2> QED
    BY <1>7, <2>1, Together DEF Receive, TypeOK
<1>8. CASE TransportError
  <2>1. FlagsTyped
    BY <1>8 DEF TransportError, FlagsTyped, TypeOK
  <2> QED
    BY <1>8, <2>1, Together DEF TransportError, TypeOK
<1>9. CASE SendStep
  <2>1. outbound' = outbound /\ sending' \in SendProgress
        /\ out' = IF sending = "busy" /\ sending' = "sent" THEN out + 1 ELSE out
    BY <1>9 DEF SendStep
  <2>2. outbound \in Seq(OutMessage) /\ out \in 0..Len(outbound)
        /\ sending \in {"free", "busy", "sent", "released"}
        /\ (sending = "busy" => out < Len(outbound))
    BY DEF TypeOK, BufferInv
  <2>3. sending' \in {"free", "busy", "sent", "released"}
        /\ (sending' = "busy" => sending = "busy")
    BY <2>1, <2>2 DEF SendProgress
  <2>4. OutboxTyped
    BY <2>1, <2>2, <2>3 DEF OutboxTyped, BufferInv
  <2> QED
    BY <1>9, <2>4, Together DEF SendStep, TypeOK
<1>10. CASE HandleError
  <2>1. FlagsTyped
    BY <1>10 DEF HandleError, FlagsTyped, TypeOK
  <2> QED
    BY <1>10, <2>1, Together DEF HandleError, Handling, TypeOK
<1>11. CASE HandleTimeout
  <2>1. FlagsTyped
    BY <1>11 DEF HandleTimeout, FlagsTyped, TypeOK
  <2> QED
    BY <1>11, <2>1, Together DEF HandleTimeout, TypeOK
<1>12. CASE HandleClosed
  <2>1. FlagsTyped
    BY <1>12 DEF HandleClosed, FlagsTyped, TypeOK
  <2>2. NoticesTyped
    BY <1>12, TellFacts DEF HandleClosed, TellDisconnected
  <2> QED
    BY <1>12, <2>1, <2>2, Together DEF HandleClosed, Handling, TypeOK
<1>13. CASE HandleConnected
  <2>1. FlagsTyped
    BY <1>13 DEF HandleConnected, FlagsTyped, TypeOK
  <2> QED
    BY <1>13, <2>1, Together DEF HandleConnected, Handling, TypeOK
<1>14. CASE HandleSent
  <2>1. OutboxTyped
    BY <1>14 DEF HandleSent, OutboxTyped, BufferInv, TypeOK
  <2> QED
    BY <1>14, <2>1, Together DEF HandleSent, Handling, TypeOK
<1>15. CASE HandleSocket
  <2>1. FirstId + 1 \in Nat
    BY ClientAssumption
  <2>2. HandshakeTypedNext /\ OutboxTyped /\ closing' \in BOOLEAN
    BY <1>15, <2>1, AskFacts DEF HandleSocket, HandshakeStates
  <2>3. FlagsTyped
    BY <1>15, <2>2 DEF HandleSocket, FlagsTyped, TypeOK
  <2> QED
    BY <1>15, <2>2, <2>3, Together DEF HandleSocket, Handling, TypeOK
<1>16. CASE HandshakeGarbled
  <2>1. InboxTyped
    BY <1>16, ConsumeFacts DEF HandshakeGarbled, Handshaking
  <2>2. FlagsTyped
    BY <1>16 DEF HandshakeGarbled, FlagsTyped, TypeOK
  <2> QED
    BY <1>16, <2>1, <2>2, Together
    DEF HandshakeGarbled, Handshaking, Handling, TypeOK
<1>17. CASE HandshakeTest
  <2>1. InboxTyped
    BY <1>17, ConsumeFacts DEF HandshakeTest, Handshaking
  <2>2. [kind |-> "refusal", id |-> Message.id] \in OutMessage
    BY <1>17, ReceivedFacts DEF HandshakeTest, Handshaking, InMessage, OutMessage
  <2>3. OutboxTyped
    BY <1>17, <2>2, QueueFacts DEF HandshakeTest
  <2> QED
    BY <1>17, <2>1, <2>3, Together DEF HandshakeTest, Handshaking, Handling, TypeOK
<1>18. CASE HandshakeTestRet
  <2>1. InboxTyped
    BY <1>18, ConsumeFacts DEF HandshakeTestRet, Handshaking
  <2> QED
    BY <1>18, <2>1, Together DEF HandshakeTestRet, Handshaking, Handling, TypeOK
<1>19. CASE HandshakeCreated
  <2>1. InboxTyped
    BY <1>19, ConsumeFacts DEF HandshakeCreated, Handshaking
  <2>2. last_request_id + 1 \in Nat
    BY DEF TypeOK
  <2>3. HandshakeTypedNext /\ OutboxTyped /\ closing' \in BOOLEAN
    BY <1>19, <2>2, AskFacts DEF HandshakeCreated, HandshakeStates
  <2>4. FlagsTyped
    BY <1>19, <2>3 DEF HandshakeCreated, FlagsTyped, TypeOK
  <2> QED
    BY <1>19, <2>1, <2>3, <2>4, Together
    DEF HandshakeCreated, Handshaking, Handling, TypeOK
<1>20. CASE HandshakeTyped
  <2>1. InboxTyped
    BY <1>20, ConsumeFacts DEF HandshakeTyped, Handshaking
  <2>2. last_request_id + 1 \in Nat
    BY DEF TypeOK
  <2>3. HandshakeTypedNext /\ OutboxTyped /\ closing' \in BOOLEAN
    BY <1>20, <2>2, AskFacts DEF HandshakeTyped, HandshakeStates
  <2>4. FlagsTyped
    BY <1>20, <2>3 DEF HandshakeTyped, FlagsTyped, TypeOK
  <2> QED
    BY <1>20, <2>1, <2>3, <2>4, Together
    DEF HandshakeTyped, Handshaking, Handling, TypeOK
<1>21. CASE HandshakeWrongType
  <2>1. InboxTyped
    BY <1>21, ConsumeFacts DEF HandshakeWrongType, Handshaking
  <2>2. HandshakeTypedNext /\ FlagsTyped
    BY <1>21
    DEF HandshakeWrongType, GivesUp, HandshakeTypedNext, HandshakeStates,
        FlagsTyped, TypeOK
  <2> QED
    BY <1>21, <2>1, <2>2, Together
    DEF HandshakeWrongType, Handshaking, Handling, TypeOK
<1>22. CASE HandshakeCompleted
  <2>1. InboxTyped
    BY <1>22, ConsumeFacts DEF HandshakeCompleted, Handshaking
  <2>2. HandshakeTypedNext /\ FlagsTyped
    BY <1>22
    DEF HandshakeCompleted, HandshakeTypedNext, HandshakeStates, FlagsTyped, TypeOK
  <2>3. NoticesTyped
    BY <1>22, TellFacts DEF HandshakeCompleted
  <2> QED
    BY <1>22, <2>1, <2>2, <2>3, Together
    DEF HandshakeCompleted, Handshaking, Handling, TypeOK
<1>23. CASE HandshakeUnexpected
  <2>1. HandshakeTypedNext /\ FlagsTyped
    BY <1>23
    DEF HandshakeUnexpected, GivesUp, HandshakeTypedNext, HandshakeStates,
        FlagsTyped, TypeOK
  <2> QED
    BY <1>23, <2>1, Together DEF HandshakeUnexpected, Handshaking, Handling, TypeOK
<1>24. ASSUME Dispatching
       PROVE  Message.id \in Nat
  BY <1>24, ReceivedFacts DEF Dispatching, InMessage
<1>25. CASE CompleteRequest
  <2>1. RequestsTyped
    BY <1>24, <1>25, EndsFacts DEF CompleteRequest
  <2>2. InboxTyped
    BY <1>25, ConsumeFacts DEF CompleteRequest, Dispatching
  <2> QED
    BY <1>25, <2>1, <2>2, Together DEF CompleteRequest, Dispatching, Handling, TypeOK
<1>26. CASE CompleteByClient
  <2>1. RequestsTyped
    BY <1>24, <1>26, EndsFacts DEF CompleteByClient
  <2>2. InboxTyped
    BY <1>26, ConsumeFacts DEF CompleteByClient, Dispatching
  <2> QED
    BY <1>26, <2>1, <2>2, Together DEF CompleteByClient, Dispatching, Handling, TypeOK
<1>27. CASE CompleteUnheard
  <2>1. RequestsTyped
    BY <1>24, <1>27, EndsFacts DEF CompleteUnheard
  <2>2. InboxTyped /\ NoticesTyped
    BY <1>27, ConsumeFacts, TellFacts DEF CompleteUnheard, Dispatching
  <2> QED
    BY <1>27, <2>1, <2>2, Together DEF CompleteUnheard, Dispatching, Handling, TypeOK
<1>28. CASE DeliverMessage
  <2>1. InboxTyped /\ NoticesTyped
    BY <1>28, ConsumeFacts, TellFacts DEF DeliverMessage, Dispatching
  <2> QED
    BY <1>28, <2>1, Together DEF DeliverMessage, Dispatching, Handling, TypeOK
<1>29. CASE PassWithout
  BY <1>29, Together DEF PassWithout, TypeOK
<1>30. CASE RequestsControl
  <2>1. RequestsTyped
    BY <1>30, EndsFacts DEF RequestsControl, Expirable
  <2> QED
    BY <1>30, <2>1, Together DEF RequestsControl, TypeOK
<1>31. CASE SendRequest
  <2>1. PICK o \in Owners :
          LET r == [id |-> last_request_id + 1, endpoint |-> session, owner |-> o]
          IN /\ Queue(SendStatus, [kind |-> "call", id |-> r.id])
             /\ IF SendStatus = "ok"
                THEN pending' = pending \cup {r} /\ asked' = asked \cup {r}
                ELSE UNCHANGED <<pending, asked>>
    BY <1>31 DEF SendRequest
  <2>2. last_request_id + 1 \in Nat
    BY DEF TypeOK
  <2>3. [kind |-> "call", id |-> last_request_id + 1] \in OutMessage
    BY <2>2 DEF OutMessage
  <2>4. OutboxTyped
    BY <2>1, <2>3, QueueFacts
  <2>5. [id |-> last_request_id + 1, endpoint |-> session, owner |-> o] \in Request
    BY <2>2 DEF Request
  <2>6. RequestsTyped
    BY <1>31, <2>1, <2>5 DEF SendRequest, RequestsTyped, TypeOK
  <2>7. HandshakeTypedNext
    BY <1>31, <2>2 DEF SendRequest, HandshakeTypedNext, TypeOK
  <2> QED
    BY <1>31, <2>4, <2>6, <2>7, Together DEF SendRequest, TypeOK
<1>32. CASE SendHeartbeat
  <2>1. last_request_id + 1 \in Nat
    BY DEF TypeOK
  <2>2. [kind |-> "test", id |-> 0] \in OutMessage
    BY DEF OutMessage
  <2>3. OutboxTyped
    BY <1>32, <2>2, QueueFacts DEF SendHeartbeat
  <2>4. HandshakeTypedNext
    BY <1>32, <2>1 DEF SendHeartbeat, HandshakeTypedNext, TypeOK
  <2> QED
    BY <1>32, <2>3, <2>4, Together DEF SendHeartbeat, TypeOK
<1>33. CASE Close
  <2>1. FlagsTyped
    BY <1>33 DEF Close, FlagsTyped, TypeOK
  <2> QED
    BY <1>33, <2>1, Together DEF Close, TypeOK
<1>34. CASE UNCHANGED vars
  BY <1>34, Together DEF vars, TypeOK
<1> QED
  BY <1>1, <1>3, <1>4, <1>5, <1>6, <1>7, <1>8, <1>9, <1>10, <1>11, <1>12, <1>13,
     <1>14, <1>15, <1>16, <1>17, <1>18, <1>19, <1>20, <1>21, <1>22, <1>23, <1>25,
     <1>26, <1>27, <1>28, <1>29, <1>30, <1>31, <1>32, <1>33, <1>34
  DEF Next, HandleEvent, HandleHandshake, HandleDispatch

\* What a step may do to the requests: ask, end one, or nothing.  An answer that ends
\* one has its identifier and comes in its session.
Asks(r) ==
  /\ r.id = last_request_id' /\ r.endpoint = session /\ r \in Request
  /\ last_request_id' = last_request_id + 1
  /\ phase = "open" /\ noticed # <<>>
  /\ pending' = pending \cup {r} /\ asked' = asked \cup {r} /\ ended' = ended

EndsOne(r, how, by) ==
  r \in pending /\ Ends(r, how, by) /\ (how = "answer" => Matches(r) /\ by = Message.id)

LEMMA RequestSteps ==
  ASSUME TypeOK, Next
  PROVE  \/ UNCHANGED requests
         \/ \E r \in Request : Asks(r) /\ UNCHANGED <<phase, session, socket>>
         \/ \E r \in pending, how \in {"answer", "timeout"}, by \in Nat :
              EndsOne(r, how, by) /\ UNCHANGED <<phase, session, socket, last_request_id>>
<1>1. CASE Connect \/ ServerAnswers \/ ServerSpeaks
  BY <1>1 DEF Connect, ServerAnswers, ServerSpeaks, ServerWrites
<1>2. CASE SocketConnects \/ Control \/ Receive \/ TransportError \/ SendStep
  BY <1>2 DEF SocketConnects, Control, Receive, TransportError, SendStep
<1>3. CASE HandleError \/ HandleClosed \/ HandleConnected \/ HandleSent
           \/ HandleSocket \/ HandleTimeout \/ PassWithout \/ SendHeartbeat \/ Close
  BY <1>3 DEF HandleError, HandleClosed, HandleConnected, HandleSent, HandleSocket,
              HandleTimeout, PassWithout, SendHeartbeat, Close
<1>4. CASE HandleHandshake
  BY <1>4 DEF HandleHandshake, HandshakeGarbled, HandshakeTest, HandshakeTestRet,
              HandshakeCreated, HandshakeTyped, HandshakeWrongType,
              HandshakeCompleted, HandshakeUnexpected
<1>5. CASE HandleDispatch
  <2>1. CASE DeliverMessage
    BY <2>1 DEF DeliverMessage
  <2>2. CASE CompleteRequest \/ CompleteByClient \/ CompleteUnheard
    <3>1. Dispatching /\ \E r \in pending : Matches(r) /\ Ends(r, "answer", Message.id)
      BY <2>2 DEF CompleteRequest, CompleteByClient, CompleteUnheard
    <3>2. Message.id \in Nat
      BY <3>1, ReceivedFacts DEF Dispatching, InMessage
    <3>3. UNCHANGED <<phase, session, socket, last_request_id>>
      BY <2>2 DEF CompleteRequest, CompleteByClient, CompleteUnheard, flags, handshake
    <3> QED
      BY <3>1, <3>2, <3>3 DEF EndsOne
  <2> QED
    BY <1>5, <2>1, <2>2 DEF HandleDispatch
<1>6. CASE RequestsControl
  <2>1. UNCHANGED <<phase, session, socket, last_request_id>>
    BY <1>6 DEF RequestsControl, flags, handshake
  <2> QED
    BY <1>6, <2>1 DEF RequestsControl, Expirable, EndsOne
<1>7. CASE SendRequest
  <2>1. PICK o \in Owners :
          LET r == [id |-> last_request_id + 1, endpoint |-> session, owner |-> o]
          IN IF SendStatus = "ok"
             THEN pending' = pending \cup {r} /\ asked' = asked \cup {r}
             ELSE UNCHANGED <<pending, asked>>
    BY <1>7 DEF SendRequest
  <2>2. CASE SendStatus # "ok"
    BY <1>7, <2>1, <2>2 DEF SendRequest, requests
  <2>3. CASE SendStatus = "ok"
    <3> DEFINE r == [id |-> last_request_id + 1, endpoint |-> session, owner |-> o]
    <3>1. r \in Request
      BY DEF Request, TypeOK
    <3>2. noticed # <<>>
      BY <1>7 DEF SendRequest
    <3>3. Asks(r) /\ UNCHANGED <<phase, session, socket>>
      BY <1>7, <2>1, <2>3, <3>1, <3>2 DEF SendRequest, Asks, flags
    <3> QED
      BY <3>1, <3>3
  <2> QED
    BY <2>2, <2>3
<1> QED
  BY <1>1, <1>2, <1>3, <1>4, <1>5, <1>6, <1>7 DEF Next, HandleEvent

\* A request leaves the list with the one end that is recorded for it.
LEMMA AccountStep ==
  ASSUME IInv, [Next]_vars
  PROVE  RequestsAccounted' /\ OwnAnswer'
<1> TypeOK /\ RequestsAccounted /\ OwnAnswer /\ IdInv /\ FreshInv
  BY DEF IInv
<1>1. CASE UNCHANGED requests
  BY <1>1 DEF requests, RequestsAccounted, EndedRequests, OwnAnswer
<1>2. ASSUME NEW r \in Request, Asks(r), UNCHANGED <<phase, session, socket>>
      PROVE  RequestsAccounted' /\ OwnAnswer'
  <2>1. r \notin asked
    BY <1>2 DEF Asks, IdInv, TypeOK, Request
  <2>2. EndedRequests' = EndedRequests
    BY <1>2 DEF Asks, EndedRequests
  <2>3. OwnAnswer'
    BY <1>2 DEF Asks, OwnAnswer
  <2>4. RequestsAccounted'
    BY <1>2, <2>1, <2>2 DEF Asks, RequestsAccounted
  <2> QED
    BY <2>3, <2>4
<1>3. ASSUME NEW r \in pending, NEW how \in {"answer", "timeout"}, NEW by \in Nat,
             EndsOne(r, how, by), UNCHANGED session
      PROVE  RequestsAccounted' /\ OwnAnswer'
  <2> DEFINE e == [request |-> r, how |-> how, at |-> session, by |-> by]
  <2>1. /\ ended' = Append(ended, e) /\ asked' = asked /\ pending' = pending \ {r}
    BY <1>3 DEF EndsOne, Ends, Removes
  <2>2. ended \in Seq(End)
    BY DEF TypeOK
  <2>3. /\ Len(ended') = Len(ended) + 1 /\ Len(ended) \in Nat
        /\ \A i \in 1..Len(ended) : ended'[i] = ended[i]
        /\ ended'[Len(ended) + 1] = e
        /\ DOMAIN ended = 1..Len(ended) /\ DOMAIN ended' = 1..(Len(ended) + 1)
    BY <2>1, <2>2
  <2>4. EndedRequests' = EndedRequests \cup {r}
    BY <2>3 DEF EndedRequests
  <2>5. r \notin EndedRequests
    BY DEF RequestsAccounted
  <2>6. \A i, j \in DOMAIN ended' : i # j => ended'[i].request # ended'[j].request
    BY <2>3, <2>5 DEF RequestsAccounted, EndedRequests
  <2>7. RequestsAccounted'
    BY <2>1, <2>4, <2>5, <2>6 DEF RequestsAccounted
  <2>8. OwnAnswer'
    <3>1. e.how = "answer" => e.at = e.request.endpoint /\ e.by = e.request.id
      BY <1>3 DEF EndsOne, Matches
    <3> QED
      BY <2>3, <3>1 DEF OwnAnswer
  <2> QED
    BY <2>7, <2>8
<1> QED
  <2>1. CASE Next
    BY <1>1, <1>2, <1>3, <2>1, RequestSteps
  <2>2. CASE UNCHANGED vars
    BY <1>1, <2>2 DEF vars
  <2> QED
    BY <2>1, <2>2

\* The handlers run in an open session; those of a message in one whose socket has
\* been taken, since the server speaks only when spoken to.
LEMMA OpenFacts ==
  ASSUME TypeOK, FreshInv, NEW e \in {"error", "connected", "sent", "received", "socket"},
         Handling(e)
  PROVE  /\ phase = "open"
         /\ e = "received" => socket = "taken"
         /\ e = "connected" => socket = "taken"
<1>1. phase = "open"
  BY DEF Handling, NextEvent
<1>2. CASE e = "received"
  BY <1>1, <1>2, ReceivedFacts DEF FreshInv
<1>3. CASE e = "connected"
  BY <1>1, <1>3 DEF Handling, NextEvent, FreshInv
<1> QED
  BY <1>1, <1>2, <1>3

\* What FreshInv needs of a step in a session whose socket has been taken.
LEMMA TakenStaysFresh ==
  ASSUME phase' = "open", socket' = "taken"
  PROVE  FreshInv'
  BY DEF FreshInv

\* Nothing of an earlier session reaches a new one.
LEMMA FreshStep ==
  ASSUME IInv, [Next]_vars
  PROVE  FreshInv'
<1> TypeOK /\ FreshInv
  BY DEF IInv
<1>1. CASE Connect
  BY <1>1 DEF Connect, FreshInv, flags
<1>2. CASE ServerAnswers \/ ServerSpeaks
  <2>1. out > 0
    BY <1>2 DEF ServerAnswers, ServerSpeaks, TypeOK
  <2>2. outbound # <<>>
    BY <2>1 DEF TypeOK
  <2>3. phase = "open" /\ UNCHANGED <<phase, flags>>
    BY <1>2 DEF ServerAnswers, ServerSpeaks, ServerWrites
  <2> QED
    BY <2>2, <2>3, TakenStaysFresh DEF FreshInv, flags
<1>3. CASE SocketConnects
  BY <1>3 DEF SocketConnects, FreshInv, inbox, outbox
<1>4. CASE Control
  BY <1>4 DEF Control, FlagsReset, FreshInv
<1>5. CASE Receive
  BY <1>5 DEF Receive, FreshInv, flags, outbox
<1>6. CASE TransportError
  BY <1>6 DEF TransportError, FreshInv, inbox, outbox
<1>7. CASE SendStep
  BY <1>7 DEF SendStep, SendProgress, FreshInv, flags, inbox
<1>8. CASE HandleError
  BY <1>8 DEF HandleError, FreshInv, inbox, outbox
<1>9. CASE HandleTimeout
  BY <1>9 DEF HandleTimeout, FreshInv, inbox, outbox
<1>10. CASE HandleClosed
  <2>1. phase = "closed"
    BY <1>10 DEF HandleClosed, Handling, NextEvent
  <2> QED
    BY <1>10, <2>1 DEF HandleClosed, FreshInv, inbox, outbox
<1>11. CASE HandleConnected
  BY <1>11, OpenFacts, TakenStaysFresh DEF HandleConnected
<1>12. CASE HandleSent
  BY <1>12, OpenFacts DEF HandleSent, FreshInv, flags, inbox
<1>13. CASE HandleSocket
  BY <1>13, OpenFacts, TakenStaysFresh DEF HandleSocket
<1>14. CASE HandleHandshake \/ HandleDispatch
  <2>1. Handling("received")
    BY <1>14 DEF HandleHandshake, HandshakeGarbled, HandshakeTest, HandshakeTestRet,
                 HandshakeCreated, HandshakeTyped, HandshakeWrongType,
                 HandshakeCompleted, HandshakeUnexpected, Handshaking,
                 HandleDispatch, CompleteRequest, CompleteByClient, CompleteUnheard,
                 DeliverMessage, Dispatching
  <2>2. phase' = phase /\ socket' = socket
    BY <1>14 DEF HandleHandshake, HandshakeGarbled, HandshakeTest, HandshakeTestRet,
                 HandshakeCreated, HandshakeTyped, HandshakeWrongType,
                 HandshakeCompleted, HandshakeUnexpected, HandleDispatch,
                 CompleteRequest, CompleteByClient, CompleteUnheard, DeliverMessage,
                 flags
  <2> QED
    BY <2>1, <2>2, OpenFacts, TakenStaysFresh
<1>15. CASE PassWithout
  BY <1>15 DEF PassWithout, FreshInv, flags, inbox, outbox
<1>16. CASE RequestsControl
  BY <1>16 DEF RequestsControl, FreshInv, flags, inbox, outbox
<1>17. CASE SendRequest
  <2>1. phase = "open" /\ noticed # <<>> /\ UNCHANGED <<phase, flags>>
    BY <1>17 DEF SendRequest
  <2> QED
    BY <2>1, TakenStaysFresh DEF FreshInv, flags
<1>18. CASE SendHeartbeat
  <2>1. phase = "open" /\ UNCHANGED <<phase, flags, inbox, noticed>>
    BY <1>18 DEF SendHeartbeat
  <2>2. CASE socket = "taken"
    BY <2>1, <2>2, TakenStaysFresh DEF flags
  <2>3. CASE socket # "taken"
    <3>1. SendStatus = "invalid"
      BY <2>3 DEF FreshInv, SendStatus
    <3>2. UNCHANGED outbox
      BY <1>18, <3>1 DEF SendHeartbeat, Queue
    <3> QED
      BY <2>1, <3>2 DEF FreshInv, flags, inbox, outbox
  <2> QED
    BY <2>2, <2>3
<1>19. CASE Close
  BY <1>19 DEF Close, FreshInv, inbox, outbox
<1>20. CASE UNCHANGED vars
  BY <1>20 DEF vars, FreshInv, flags, inbox, outbox
<1> QED
  BY <1>1, <1>2, <1>3, <1>4, <1>5, <1>6, <1>7, <1>8, <1>9, <1>10, <1>11, <1>12,
     <1>13, <1>14, <1>15, <1>16, <1>17, <1>18, <1>19, <1>20
  DEF Next, HandleEvent

\* Where the identifiers, the session, the socket and the phase come from in a step.
LEMMA IdSteps ==
  ASSUME TypeOK, Next
  PROVE  /\ \/ session' = session
            \/ /\ phase = "idle"
               /\ session' = session + 1
         /\ \/ last_request_id' = last_request_id
            \/ last_request_id' = last_request_id + 1
            \/ socket = "connected" /\ phase = "open"
         /\ phase' = "open" =>
              \/ /\ phase = "open"
                 /\ socket = "taken" => socket' = "taken"
              \/ /\ phase = "idle"
                 /\ session' = session + 1
<1>1. CASE Connect
  BY <1>1 DEF Connect, handshake
<1>2. CASE ServerAnswers \/ ServerSpeaks
  BY <1>2 DEF ServerAnswers, ServerSpeaks, ServerWrites, flags, handshake
<1>3. CASE SocketConnects \/ Control \/ Receive \/ TransportError \/ SendStep
  BY <1>3 DEF SocketConnects, Control, Receive, TransportError, SendStep, flags, handshake
<1>4. CASE HandleError \/ HandleClosed \/ HandleConnected \/ HandleSent
           \/ HandleTimeout \/ PassWithout \/ RequestsControl \/ Close
  BY <1>4 DEF HandleError, HandleClosed, HandleConnected, HandleSent, HandleTimeout,
              PassWithout, RequestsControl, Close, flags, handshake
<1>5. CASE HandleSocket
  BY <1>5 DEF HandleSocket, Handling, NextEvent
<1>6. CASE HandleHandshake
  BY <1>6 DEF HandleHandshake, HandshakeGarbled, HandshakeTest, HandshakeTestRet,
              HandshakeCreated, HandshakeTyped, HandshakeWrongType,
              HandshakeCompleted, HandshakeUnexpected, Ask, flags, handshake
<1>7. CASE HandleDispatch
  BY <1>7 DEF HandleDispatch, CompleteRequest, CompleteByClient, CompleteUnheard,
              DeliverMessage, flags, handshake
<1>8. CASE SendRequest \/ SendHeartbeat
  BY <1>8 DEF SendRequest, SendHeartbeat, flags
<1> QED
  BY <1>1, <1>2, <1>3, <1>4, <1>5, <1>6, <1>7, <1>8 DEF Next, HandleEvent

\* No identifier of a session is given to two requests.
LEMMA IdStep ==
  ASSUME IInv, [Next]_vars
  PROVE  IdInv'
<1> TypeOK /\ IdInv /\ FreshInv
  BY DEF IInv
<1> session \in Nat /\ last_request_id \in Nat /\ asked \subseteq Request
  BY DEF TypeOK
<1>1. CASE UNCHANGED vars
  BY <1>1 DEF vars, IdInv, requests, handshake, flags
<1>2. CASE Next
  <2>1. ASSUME NEW r \in asked
        PROVE  /\ r.endpoint <= session'
               /\ r.endpoint = session' =>
                    r.id <= last_request_id' /\ (phase' = "open" => socket' = "taken")
    <3>1. r.endpoint \in Nat /\ r.id \in Nat
      BY DEF Request
    <3>2. /\ r.endpoint <= session
          /\ r.endpoint = session =>
                r.id <= last_request_id /\ (phase = "open" => socket = "taken")
      BY DEF IdInv
    <3> DEFINE Moved == \/ last_request_id' = last_request_id
                        \/ last_request_id' = last_request_id + 1
                        \/ socket = "connected" /\ phase = "open"
    <3>3. Moved
      BY <1>2, IdSteps
    <3>4. \/ session' = session
          \/ session' = session + 1
      BY <1>2, IdSteps
    <3>5. phase' = "open" /\ session' = session =>
            /\ phase = "open"
            /\ socket = "taken" => socket' = "taken"
      <4>1. session # session + 1
        OBVIOUS
      <4> QED
        BY <1>2, <4>1, IdSteps
    <3>6. ASSUME r.endpoint = session', session' = session
          PROVE  r.id <= last_request_id'
      BY <3>1, <3>2, <3>3, <3>6
    <3>7. ASSUME r.endpoint = session', session' = session, phase' = "open"
          PROVE  socket' = "taken"
      BY <3>2, <3>5, <3>7
    <3>8. r.endpoint = session' => session' = session
      BY <3>1, <3>2, <3>4
    <3> QED
      BY <3>1, <3>2, <3>4, <3>6, <3>7, <3>8
  <2>2. CASE asked' = asked
    BY <2>1, <2>2 DEF IdInv
  <2>3. ASSUME NEW q \in Request, Asks(q), UNCHANGED <<phase, session, socket>>
        PROVE  IdInv'
    <3>1. socket = "taken" /\ phase = "open"
      BY <2>3 DEF Asks, FreshInv
    <3>2. /\ q.endpoint <= session'
          /\ q.endpoint = session' =>
               q.id <= last_request_id' /\ (phase' = "open" => socket' = "taken")
      BY <2>3, <3>1 DEF Asks
    <3>3. asked' = asked \cup {q}
      BY <2>3 DEF Asks
    <3> QED
      BY <2>1, <3>2, <3>3 DEF IdInv
  <2> QED
    BY <1>2, <2>2, <2>3, RequestSteps DEF requests, EndsOne, Ends
<1> QED
  BY <1>1, <1>2

-----------------------------------------------------------------------------
(* The handshake and what the application is told *)

\* A message enters the send buffer.
Queues(m) ==
  /\ outbound' = Append(outbound, m) /\ sending' = "busy" /\ out' = out
  /\ sending = "free" /\ ~failed /\ ~closing

LEMMA QueuesOne ==
  ASSUME NEW m, NEW st, st = Status \/ st = SendStatus, Queue(st, m)
  PROVE  Queues(m) \/ UNCHANGED outbox
  BY DEF Queue, Queues, Status, SendStatus

\* Nothing is queued and nothing goes out.
KeepsOutbox ==
  /\ UNCHANGED <<outbound, out>>
  /\ sending' = "busy" => sending = "busy"
  /\ phase' = "open" /\ sending = "busy" => sending' = "busy"

\* What a step makes of the outbox: who queues a message, and which.
LEMMA OutboxSteps ==
  ASSUME TypeOK, FreshInv, Next
  PROVE  \/ Connect
         \/ KeepsOutbox
         \/ SendStep /\ outbound' = outbound
         \/ \E m \in OutMessage :
              /\ Queues(m) /\ phase = "open" /\ phase' = "open"
              /\ \/ m.kind \in {"refusal", "test"} /\ handshake_state' = handshake_state
                 \/ m.kind = "call" /\ Told("connected")
                 \/ m.kind = "create" /\ HandleSocket
                 \/ m.kind = "type" /\ HandshakeCreated
                 \/ m.kind = "connect" /\ HandshakeTyped
<1>1. CASE ServerAnswers \/ ServerSpeaks
  BY <1>1 DEF ServerAnswers, ServerSpeaks, ServerWrites, outbox, KeepsOutbox
<1>2. CASE SocketConnects \/ Control \/ Receive \/ TransportError \/ SendStep
  BY <1>2 DEF SocketConnects, Control, Receive, TransportError, SendStep, outbox,
              KeepsOutbox
<1>3. CASE HandleError \/ HandleClosed \/ HandleConnected \/ HandleSent
           \/ HandleTimeout \/ PassWithout \/ RequestsControl \/ Close
  BY <1>3 DEF HandleError, HandleClosed, HandleConnected, HandleSent, HandleTimeout,
              PassWithout, RequestsControl, Close, Handling, NextEvent, outbox,
              KeepsOutbox
<1>4. CASE HandleSocket
  <2> DEFINE m == [kind |-> "create", id |-> FirstId + 1]
  <2>1. m \in OutMessage /\ m.kind = "create"
    BY ClientAssumption DEF OutMessage
  <2>2. Queues(m) \/ UNCHANGED outbox
    BY <1>4, QueuesOne DEF HandleSocket, Ask
  <2>3. phase = "open" /\ phase' = "open"
    BY <1>4 DEF HandleSocket, Handling, NextEvent
  <2> QED
    BY <1>4, <2>1, <2>2, <2>3 DEF outbox, KeepsOutbox
<1>5. CASE HandleHandshake
  <2>1. CASE HandshakeTest
    <3> DEFINE m == [kind |-> "refusal", id |-> Message.id]
    <3>1. m \in OutMessage /\ m.kind = "refusal"
      BY <2>1, ReceivedFacts DEF HandshakeTest, Handshaking, InMessage, OutMessage
    <3>2. Queues(m) \/ UNCHANGED outbox
      BY <2>1, QueuesOne DEF HandshakeTest
    <3>3. phase = "open" /\ phase' = "open" /\ handshake_state' = handshake_state
      BY <2>1, ReceivedFacts DEF HandshakeTest, Handshaking, handshake
    <3> QED
      BY <3>1, <3>2, <3>3 DEF outbox, KeepsOutbox
  <2>2. CASE HandshakeCreated
    <3> DEFINE m == [kind |-> "type", id |-> last_request_id + 1]
    <3>1. m \in OutMessage /\ m.kind = "type"
      BY DEF OutMessage, TypeOK
    <3>2. Queues(m) \/ UNCHANGED outbox
      BY <2>2, QueuesOne DEF HandshakeCreated, Ask
    <3>3. phase = "open" /\ phase' = "open"
      BY <2>2, ReceivedFacts DEF HandshakeCreated, Handshaking
    <3> QED
      BY <2>2, <3>1, <3>2, <3>3 DEF outbox, KeepsOutbox
  <2>3. CASE HandshakeTyped
    <3> DEFINE m == [kind |-> "connect", id |-> last_request_id + 1]
    <3>1. m \in OutMessage /\ m.kind = "connect"
      BY DEF OutMessage, TypeOK
    <3>2. Queues(m) \/ UNCHANGED outbox
      BY <2>3, QueuesOne DEF HandshakeTyped, Ask
    <3>3. phase = "open" /\ phase' = "open"
      BY <2>3, ReceivedFacts DEF HandshakeTyped, Handshaking
    <3> QED
      BY <2>3, <3>1, <3>2, <3>3 DEF outbox, KeepsOutbox
  <2>4. CASE HandshakeGarbled \/ HandshakeTestRet \/ HandshakeWrongType
               \/ HandshakeCompleted \/ HandshakeUnexpected
    BY <2>4 DEF HandshakeGarbled, HandshakeTestRet, HandshakeWrongType,
                HandshakeCompleted, HandshakeUnexpected, outbox, KeepsOutbox
  <2> QED
    BY <1>5, <2>1, <2>2, <2>3, <2>4 DEF HandleHandshake
<1>6. CASE HandleDispatch
  BY <1>6 DEF HandleDispatch, CompleteRequest, CompleteByClient, CompleteUnheard,
              DeliverMessage, outbox, KeepsOutbox
<1>7. CASE SendRequest
  <2> DEFINE m == [kind |-> "call", id |-> last_request_id + 1]
  <2>1. m \in OutMessage /\ m.kind = "call"
    BY DEF OutMessage, TypeOK
  <2>2. Queue(SendStatus, m)
    BY <1>7 DEF SendRequest
  <2>3. phase = "open" /\ phase' = "open" /\ Told("connected")
    BY <1>7 DEF SendRequest, Told
  <2> QED
    BY <2>1, <2>2, <2>3, QueuesOne DEF outbox, KeepsOutbox
<1>8. CASE SendHeartbeat
  <2> DEFINE m == [kind |-> "test", id |-> 0]
  <2>1. m \in OutMessage /\ m.kind = "test"
    BY DEF OutMessage
  <2>2. Queues(m) \/ UNCHANGED outbox
    BY <1>8, QueuesOne DEF SendHeartbeat
  <2>3. phase = "open" /\ phase' = "open" /\ handshake_state' = handshake_state
    BY <1>8 DEF SendHeartbeat
  <2> QED
    BY <2>1, <2>2, <2>3 DEF outbox, KeepsOutbox
<1> QED
  BY <1>1, <1>2, <1>3, <1>4, <1>5, <1>6, <1>7, <1>8 DEF Next, HandleEvent

\* What a step makes of the inbox.
LEMMA InboxSteps ==
  ASSUME TypeOK, Next
  PROVE  \/ Connect
         \/ \E m : ServerWrites(m)
         \/ UNCHANGED <<inbound, handed>>
         \/ Handling("received") /\ Consume /\ phase' = phase
<1>1. CASE ServerAnswers \/ ServerSpeaks
  BY <1>1 DEF ServerAnswers, ServerSpeaks
<1>2. CASE SocketConnects \/ Control \/ Receive \/ TransportError \/ SendStep
  BY <1>2 DEF SocketConnects, Control, Receive, TransportError, SendStep, inbox
<1>3. CASE HandleError \/ HandleClosed \/ HandleConnected \/ HandleSent \/ HandleSocket
           \/ HandleTimeout \/ PassWithout \/ RequestsControl \/ Close
           \/ SendRequest \/ SendHeartbeat
  BY <1>3 DEF HandleError, HandleClosed, HandleConnected, HandleSent, HandleSocket,
              HandleTimeout, PassWithout, RequestsControl, Close, SendRequest,
              SendHeartbeat, inbox
<1>4. CASE HandleHandshake
  BY <1>4 DEF HandleHandshake, HandshakeGarbled, HandshakeTest, HandshakeTestRet,
              HandshakeCreated, HandshakeTyped, HandshakeWrongType,
              HandshakeCompleted, HandshakeUnexpected, Handshaking, inbox
<1>5. CASE HandleDispatch
  BY <1>5 DEF HandleDispatch, CompleteRequest, CompleteByClient, CompleteUnheard,
              DeliverMessage, Dispatching, inbox
<1> QED
  BY <1>1, <1>2, <1>3, <1>4, <1>5 DEF Next, HandleEvent

\* A message queued is one more that has been asked.
LEMMA AskedNext ==
  ASSUME TypeOK, NEW m \in OutMessage, outbound' = Append(outbound, m)
  PROVE  \A kind : Asked(kind)' <=> Asked(kind) \/ m.kind = kind
<1>1. /\ Len(outbound') = Len(outbound) + 1 /\ Len(outbound) \in Nat
      /\ DOMAIN outbound = 1..Len(outbound) /\ DOMAIN outbound' = 1..(Len(outbound) + 1)
      /\ \A i \in 1..Len(outbound) : outbound'[i] = outbound[i]
      /\ outbound'[Len(outbound) + 1] = m
  BY DEF TypeOK
<1> QED
  BY <1>1 DEF Asked

\* What has been heard stays heard as long as the session lasts.
LEMMA HeardKept ==
  ASSUME TypeOK, Next, ~Connect, NEW kind, NEW ok, Heard(kind, ok)
  PROVE  Heard(kind, ok)'
<1>1. PICK j \in 1..handed : inbound[j].kind = kind /\ inbound[j].ok \in ok
  BY DEF Heard
<1>2. CASE UNCHANGED <<inbound, handed>>
  BY <1>1, <1>2 DEF Heard
<1>3. CASE Consume
  BY <1>1, <1>3 DEF Heard, Consume, TypeOK
<1>4. ASSUME NEW m, ServerWrites(m)
      PROVE  Heard(kind, ok)'
  <2>1. inbound' = Append(inbound, m) /\ handed' = handed
    BY <1>4 DEF ServerWrites
  <2>2. j \in 1..Len(inbound) /\ inbound'[j] = inbound[j]
    BY <1>1, <2>1 DEF TypeOK
  <2> QED
    BY <1>1, <2>1, <2>2 DEF Heard
<1> QED
  BY <1>2, <1>3, <1>4, InboxSteps

\* A message that is consumed has been heard.
LEMMA HeardNow ==
  ASSUME TypeOK, Handling("received"), Consume,
         NEW kind, NEW ok, Message.kind = kind, Message.ok \in ok
  PROVE  Heard(kind, ok)'
<1>1. handed' = handed + 1 /\ inbound' = inbound /\ handed + 1 \in 1..(handed + 1)
  BY DEF Consume, TypeOK
<1> QED
  BY <1>1 DEF Heard, Message

\* A step that leaves the handshake alone, or only queues what is not one of its requests.
LEMMA HandshakeQuiet ==
  ASSUME IInv, UNCHANGED <<phase, socket, client_established, handshake_state,
                           handshake_request_id, inbound>>,
         closing => closing', received' => received /\ handed' = handed,
         \/ outbound' = outbound
         \/ \E m \in OutMessage :
              m.kind \notin {"type", "connect"} /\ outbound' = Append(outbound, m)
  PROVE  HandshakeInv'
<1>1. Asked("type")' = Asked("type") /\ Asked("connect")' = Asked("connect")
  BY AskedNext DEF IInv, Asked
<1>2. \A i \in DOMAIN outbound' :
        outbound'[i].kind = "connect" =>
          \E j \in DOMAIN outbound : outbound'[i] = outbound[j]
  <2>1. ASSUME NEW m \in OutMessage, m.kind # "connect", outbound' = Append(outbound, m),
               NEW i \in DOMAIN outbound', outbound'[i].kind = "connect"
        PROVE  \E j \in DOMAIN outbound : outbound'[i] = outbound[j]
    <3>1. outbound \in Seq(OutMessage)
      BY DEF IInv, TypeOK
    <3>2. i \in 1..(Len(outbound) + 1)
      BY <2>1, <3>1
    <3>3. i \in 1..Len(outbound)
      BY <2>1, <3>1, <3>2
    <3> QED
      BY <2>1, <3>1, <3>3
  <2> QED
    BY <2>1
<1> QED
  BY <1>1, <1>2 DEF IInv, HandshakeInv, Message

\* The answer to CONNECTCLIENT always finds the handshake that waits for it.
LEMMA UnexpectedFacts ==
  ASSUME IInv, HandshakeUnexpected
  PROVE  phase = "open" /\ Message.kind # "connectret"
<1>1. /\ ~client_established /\ phase = "open" /\ socket = "taken" /\ received
      /\ TypeOK /\ HandshakeInv
  BY ReceivedFacts, OpenFacts DEF IInv, HandshakeUnexpected, Handshaking
<1>2. ASSUME Message.kind = "connectret" PROVE FALSE
  <2>1. Asked("connect") /\ Message.id = handshake_request_id
    BY <1>1, <1>2, ReceivedFacts DEF HandshakeInv, Message, TypeOK
  <2>2. handshake_state = "connect_sent"
    BY <1>1, <1>2, <2>1 DEF HandshakeInv
  <2> QED
    BY <1>2, <2>1, <2>2 DEF HandshakeUnexpected, AnswersConnect, Expected
<1> QED
  BY <1>1, <1>2

\* The handshake's own steps, in an open session whose socket has been taken.
LEMMA HandshakeMoves ==
  ASSUME IInv,
         HandshakeCreated \/ HandshakeTyped \/ HandshakeWrongType
           \/ HandshakeCompleted \/ HandshakeUnexpected
  PROVE  HandshakeInv'
<1>0. /\ Handling("received") /\ ~client_established /\ TypeOK /\ FreshInv
      /\ phase = "open" /\ socket = "taken" /\ received /\ Message \in InMessage
      /\ UNCHANGED <<phase, socket, inbound>> /\ closing \in BOOLEAN
  BY ReceivedFacts, OpenFacts
  DEF IInv, HandshakeCreated, HandshakeTyped, HandshakeWrongType,
      HandshakeCompleted, HandshakeUnexpected, Handshaking, Consume, inbox, TypeOK
<1>1. HandshakeInv
  BY DEF IInv
<1>2. ASSUME NEW kind \in {"type", "connect"}, NEW id \in Nat, NEW before, NEW after,
             Ask(kind, id, before, after), Consume,
             UNCHANGED client_established,
             ~Asked("connect"),
             \/ /\ kind = "type" /\ ~Asked("type")
                /\ before = "created" /\ after = "type_sent"
             \/ /\ kind = "connect"
                /\ before = "typed" /\ after = "connect_sent"
      PROVE  HandshakeInv'
  <2> DEFINE m == [kind |-> kind, id |-> id]
  <2>1. m \in OutMessage /\ m.kind = kind /\ m.id = id
    BY DEF OutMessage
  <2>2. ~received' /\ handshake_request_id' = id
    BY <1>2 DEF Consume, Ask
  <2>3. \A j \in DOMAIN inbound : inbound[j].kind # "connectret"
    BY <1>0, <1>1, <1>2 DEF HandshakeInv
  <2>4. \A i \in DOMAIN outbound : outbound[i].kind # "connect"
    BY <1>2 DEF Asked
  <2>5. CASE Status = "ok"
    <3>1. outbound' = Append(outbound, m) /\ handshake_state' = after
      BY <1>2, <2>5 DEF Ask, Queue
    <3>2. \A k : Asked(k)' <=> Asked(k) \/ kind = k
      BY <1>0, <2>1, <3>1, AskedNext
    <3>3. \A i \in DOMAIN outbound' :
            outbound'[i].kind = "connect" => outbound'[i].id = id
      BY <1>0, <2>1, <2>4, <3>1 DEF TypeOK
    <3> QED
      BY <1>0, <1>2, <2>2, <2>3, <3>1, <3>2, <3>3 DEF HandshakeInv
  <2>6. CASE Status # "ok"
    <3>1. /\ outbound' = outbound
          /\ \/ handshake_state' = before
             \/ handshake_state' = "error" /\ closing'
      BY <1>2, <2>6 DEF Ask, Queue, outbox, Status
    <3>2. Asked("type")' = Asked("type") /\ Asked("connect")' = Asked("connect")
      BY <3>1 DEF Asked
    <3>3. Asked("type") => handshake_state' \in {"typed", "error"}
      BY <1>2, <3>1
    <3> QED
      BY <1>0, <1>2, <2>2, <2>3, <2>4, <3>1, <3>2, <3>3 DEF HandshakeInv
  <2> QED
    BY <2>5, <2>6
<1>3. CASE HandshakeCreated
  <2>1. ~Asked("type") /\ ~Asked("connect")
    BY <1>0, <1>1, <1>3 DEF HandshakeInv, HandshakeCreated, Expected
  <2>2. last_request_id + 1 \in Nat
    BY <1>0 DEF TypeOK
  <2>3. Ask("type", last_request_id + 1, "created", "type_sent") /\ Consume
        /\ UNCHANGED client_established
    BY <1>3 DEF HandshakeCreated
  <2> QED
    BY <1>2, <2>1, <2>2, <2>3
<1>4. CASE HandshakeTyped
  <2>1. ~Asked("connect")
    BY <1>0, <1>1, <1>4 DEF HandshakeInv, HandshakeTyped, Expected
  <2>2. last_request_id + 1 \in Nat
    BY <1>0 DEF TypeOK
  <2>3. Ask("connect", last_request_id + 1, "typed", "connect_sent") /\ Consume
        /\ UNCHANGED client_established
    BY <1>4 DEF HandshakeTyped
  <2> QED
    BY <1>2, <2>1, <2>2, <2>3
<1>5. ASSUME UNCHANGED <<outbound, handshake_request_id>>
      PROVE  Asked("type")' = Asked("type") /\ Asked("connect")' = Asked("connect")
  BY <1>5 DEF Asked
<1>6. CASE HandshakeWrongType
  BY <1>0, <1>1, <1>5, <1>6
  DEF HandshakeInv, HandshakeWrongType, GivesUp, Consume, outbox
<1>7. CASE HandshakeCompleted
  BY <1>0, <1>1, <1>5, <1>7 DEF HandshakeInv, HandshakeCompleted, Consume, outbox
<1>8. CASE HandshakeUnexpected
  <2>1. Message.kind # "connectret"
    BY <1>8, UnexpectedFacts
  <2>2. /\ UNCHANGED <<inbox, handshake_request_id>> /\ closing'
        /\ outbound' = outbound /\ Message' = Message
        /\ handshake_state' = handshake_state \/ handshake_state' = "error"
    BY <1>8 DEF HandshakeUnexpected, GivesUp, Message, inbox, outbox
  <2>3. client_established' = FALSE
    BY <1>8, <2>1 DEF HandshakeUnexpected
  <2> QED
    BY <1>0, <1>1, <1>5, <2>1, <2>2, <2>3 DEF HandshakeInv, inbox
<1> QED
  BY <1>3, <1>4, <1>6, <1>7, <1>8

LEMMA HandshakeStep ==
  ASSUME IInv, [Next]_vars
  PROVE  HandshakeInv'
<1> TypeOK /\ FreshInv /\ HandshakeInv
  BY DEF IInv
<1>1. CASE Connect
  BY <1>1 DEF Connect, FreshInv, HandshakeInv, flags
<1>2. ASSUME ServerAnswers \/ ServerSpeaks
      PROVE  HandshakeInv'
  <2>1. PICK m : /\ ServerWrites(m)
                 /\ m.kind = "connectret" =>
                      Asked("connect") /\ m.id = handshake_request_id
    <3>1. CASE ServerSpeaks
      BY <3>1, ClientAssumption DEF ServerSpeaks, AllStrays
    <3>2. CASE ServerAnswers
      <4>1. PICK i \in 1..out : /\ outbound[i].kind # "refusal"
                                /\ \E m \in Answers(i) : ServerWrites(m)
        BY <3>2 DEF ServerAnswers
      <4>2. PICK m \in Answers(i) : ServerWrites(m)
        BY <4>1
      <4>3. i \in DOMAIN outbound /\ outbound[i] \in OutMessage
        BY DEF TypeOK
      <4>4. m.id = outbound[i].id /\ m.kind = AnswerKind[outbound[i].kind]
        <5>1. PICK ok : m = AnswerTo(i, ok)
          BY <4>2 DEF Answers
        <5> QED
          BY <5>1 DEF AnswerTo
      <4>5. m.kind = "connectret" => outbound[i].kind = "connect"
        BY <4>1, <4>3, <4>4 DEF AnswerKind, OutMessage
      <4>6. phase = "open" /\ socket = "taken"
        BY <4>2, <4>3 DEF ServerWrites, FreshInv
      <4>7. outbound[i].kind = "connect" => outbound[i].id = handshake_request_id
        BY <4>3, <4>6 DEF HandshakeInv
      <4> QED
        BY <4>2, <4>3, <4>4, <4>5, <4>7 DEF Asked
    <3> QED
      BY <1>2, <3>1, <3>2
  <2>2. /\ inbound' = Append(inbound, m) /\ inbound \in Seq(InMessage)
        /\ UNCHANGED <<phase, socket, closing, client_established, handshake_state,
                       handshake_request_id, handed, received, outbound>>
    BY <2>1 DEF ServerWrites, flags, handshake, outbox, TypeOK
  <2>3. Asked("type")' = Asked("type") /\ Asked("connect")' = Asked("connect")
    BY <2>2 DEF Asked
  <2>4. received => Message' = Message
    BY <2>2 DEF Message, TypeOK
  <2>5. \A j \in DOMAIN inbound' :
          \/ j \in DOMAIN inbound /\ inbound'[j] = inbound[j]
          \/ inbound'[j] = m
    BY <2>2
  <2> QED
    BY <2>1, <2>2, <2>3, <2>4, <2>5 DEF HandshakeInv
<1>3. CASE SocketConnects \/ Control \/ HandleClosed
  BY <1>3 DEF SocketConnects, Control, FlagsReset, HandleClosed, HandshakeInv
<1>4. CASE Receive
  <2>1. /\ UNCHANGED <<phase, socket, closing, client_established, handshake_state,
                       handshake_request_id, inbound, outbound>> /\ ~closing
    BY <1>4 DEF Receive, flags, handshake, outbox
  <2> QED
    BY <2>1 DEF HandshakeInv, Asked
<1>5. CASE HandleSocket
  <2> DEFINE m == [kind |-> "create", id |-> FirstId + 1]
  <2>1. phase = "open" /\ inbound = <<>> /\ outbound = <<>>
    BY <1>5, OpenFacts DEF HandleSocket, FreshInv, Handling, NextEvent
  <2>2. inbound' = <<>> /\ received' = received /\ ~received
    BY <1>5, <2>1 DEF HandleSocket, inbox, TypeOK
  <2>3. \/ handshake_state' \in {"create_sent", "init"}
        \/ handshake_state' = "error" /\ closing'
    BY <1>5 DEF HandleSocket, Ask, Status
  <2>4. outbound' = <<>> \/ outbound' = <<m>>
    BY <1>5, <2>1 DEF HandleSocket, Ask, Queue, outbox
  <2>5. ~Asked("type")' /\ ~Asked("connect")'
    BY <2>4 DEF Asked
  <2> QED
    BY <2>2, <2>3, <2>4, <2>5 DEF HandshakeInv, Asked
<1>6. CASE HandshakeCreated \/ HandshakeTyped \/ HandshakeWrongType
           \/ HandshakeCompleted \/ HandshakeUnexpected
  BY <1>6, HandshakeMoves
<1>7. ASSUME Next,
             UNCHANGED <<phase, socket, client_established, handshake_state,
                         handshake_request_id, inbound>>,
             closing => closing', received' => received /\ handed' = handed
      PROVE  HandshakeInv'
  <2>1. CASE Connect \/ HandleSocket \/ HandshakeCreated \/ HandshakeTyped
    BY <1>1, <1>5, <1>6, <2>1
  <2>2. CASE ~(Connect \/ HandleSocket \/ HandshakeCreated \/ HandshakeTyped)
    <3>1. \/ outbound' = outbound
          \/ \E m \in OutMessage :
               m.kind \notin {"type", "connect"} /\ outbound' = Append(outbound, m)
      BY <1>7, <2>2, OutboxSteps DEF Queues, KeepsOutbox
    <3> QED
      BY <1>7, <3>1, HandshakeQuiet
  <2> QED
    BY <2>1, <2>2
<1>8. CASE HandshakeGarbled \/ HandshakeTest \/ HandshakeTestRet
  BY <1>7, <1>8
  DEF HandshakeGarbled, HandshakeTest, HandshakeTestRet, Consume, flags, handshake,
      Next, HandleEvent, HandleHandshake
<1>9. CASE HandleDispatch
  <2>1. UNCHANGED <<phase, flags, handshake>> /\ (Consume \/ UNCHANGED inbox)
    BY <1>9 DEF HandleDispatch, CompleteRequest, CompleteByClient, CompleteUnheard,
                DeliverMessage
  <2> QED
    BY <1>7, <1>9, <2>1 DEF Consume, flags, handshake, inbox, Next, HandleEvent
<1>10. CASE TransportError \/ SendStep \/ HandleError \/ HandleConnected \/ HandleSent
            \/ HandleTimeout \/ PassWithout \/ RequestsControl \/ SendRequest
            \/ SendHeartbeat \/ Close
  BY <1>7, <1>10
  DEF TransportError, SendStep, HandleError, HandleConnected, HandleSent, HandleTimeout,
      PassWithout, RequestsControl, SendRequest, SendHeartbeat, Close, flags, handshake,
      inbox, Next, HandleEvent
<1>11. CASE UNCHANGED vars
  BY <1>11, HandshakeQuiet DEF vars, flags, handshake, inbox, outbox
<1> QED
  BY <1>1, <1>2, <1>3, <1>4, <1>5, <1>6, <1>8, <1>9, <1>10, <1>11
  DEF Next, HandleEvent, HandleHandshake

\* What a step tells the application, and when.
LEMMA NoticeSteps ==
  ASSUME TypeOK, Next
  PROVE  \/ Connect
         \/ noticed' = noticed
         \/ HandshakeCompleted
         \/ /\ Handling("received") /\ client_established /\ Tell("message")
            /\ UNCHANGED <<phase, flags>>
         \/ HandleClosed /\ ~close_notified /\ Tell("disconnected")
<1>1. CASE ServerAnswers \/ ServerSpeaks
  BY <1>1 DEF ServerAnswers, ServerSpeaks, ServerWrites
<1>2. CASE SocketConnects \/ Control \/ Receive \/ TransportError \/ SendStep
  BY <1>2 DEF SocketConnects, Control, Receive, TransportError, SendStep
<1>3. CASE HandleError \/ HandleConnected \/ HandleSent \/ HandleSocket
           \/ HandleTimeout \/ PassWithout \/ RequestsControl \/ Close
           \/ SendRequest \/ SendHeartbeat
  BY <1>3 DEF HandleError, HandleConnected, HandleSent, HandleSocket,
              HandleTimeout, PassWithout, RequestsControl, Close, SendRequest,
              SendHeartbeat
<1>4. CASE HandleHandshake
  BY <1>4 DEF HandleHandshake, HandshakeGarbled, HandshakeTest, HandshakeTestRet,
              HandshakeCreated, HandshakeTyped, HandshakeWrongType,
              HandshakeUnexpected
<1>5. CASE HandleDispatch
  BY <1>5 DEF HandleDispatch, CompleteRequest, CompleteByClient, CompleteUnheard,
              DeliverMessage, Dispatching
<1>6. CASE HandleClosed
  BY <1>6 DEF HandleClosed, TellDisconnected
<1> QED
  BY <1>1, <1>2, <1>3, <1>4, <1>5, <1>6 DEF Next, HandleEvent

LEMMA TellNext ==
  ASSUME TypeOK, NEW what, Tell(what)
  PROVE  /\ \A other : Told(other)' <=> Told(other) \/ what = other
         /\ Len(noticed') = Len(noticed) + 1 /\ Len(noticed) \in Nat
         /\ noticed'[Len(noticed) + 1] = what
         /\ \A i \in 1..Len(noticed) : noticed'[i] = noticed[i]
         /\ DOMAIN noticed = 1..Len(noticed)
         /\ DOMAIN noticed' = 1..(Len(noticed) + 1)
<1>1. /\ Len(noticed') = Len(noticed) + 1 /\ Len(noticed) \in Nat
      /\ noticed'[Len(noticed) + 1] = what
      /\ \A i \in 1..Len(noticed) : noticed'[i] = noticed[i]
      /\ DOMAIN noticed = 1..Len(noticed) /\ DOMAIN noticed' = 1..(Len(noticed) + 1)
  BY DEF Tell, TypeOK
<1> QED
  BY <1>1 DEF Told

\* One more notice, in its place.
LEMMA ToldInOrder ==
  ASSUME TypeOK, NoticesInOrder, NEW what, Tell(what), ~Told("disconnected"),
         what = "connected" => ~Told("connected"),
         what = "message" => Told("connected")
  PROVE  NoticesInOrder'
<1> DEFINE n == Len(noticed)
<1>1. /\ noticed'[n + 1] = what /\ n \in Nat
      /\ \A i \in 1..n : noticed'[i] = noticed[i]
      /\ DOMAIN noticed = 1..n /\ DOMAIN noticed' = 1..(n + 1)
  BY TellNext
<1>2. ASSUME NEW i \in 1..n, NEW other
      PROVE  Earlier(other, i)' <=> Earlier(other, i)
  BY <1>1 DEF Earlier
<1>3. ASSUME NEW other
      PROVE  Told(other) <=> \E j \in 1..n : noticed'[j] = other
  BY <1>1 DEF Told
<1>4. ASSUME NEW i \in 1..n
      PROVE  /\ ~Earlier("disconnected", i)'
             /\ noticed'[i] = "connected" => ~Earlier("connected", i)'
             /\ noticed'[i] = "message" => Earlier("connected", i)'
  BY <1>1, <1>2 DEF NoticesInOrder
<1>5. ASSUME NEW i \in {n + 1}
      PROVE  /\ ~Earlier("disconnected", i)'
             /\ noticed'[i] = "connected" => ~Earlier("connected", i)'
             /\ noticed'[i] = "message" => Earlier("connected", i)'
  <2>1. i - 1 = n
    BY <1>1
  <2> QED
    BY <1>1, <1>3, <2>1 DEF Earlier
<1>6. DOMAIN noticed' = (1..n) \cup {n + 1}
  BY <1>1
<1> HIDE DEF n
<1> QED
  BY <1>4, <1>5, <1>6 DEF NoticesInOrder

\* Which steps change the flags that guard the telling.
LEMMA FlagSteps ==
  ASSUME TypeOK, Next
  PROVE  \/ Connect \/ Control \/ HandleClosed
         \/ HandshakeCompleted \/ HandshakeUnexpected
         \/ UNCHANGED <<phase, client_established, close_notified>>
<1>1. CASE ServerAnswers \/ ServerSpeaks
  BY <1>1 DEF ServerAnswers, ServerSpeaks, ServerWrites, flags
<1>2. CASE SocketConnects \/ Receive \/ TransportError \/ SendStep
  BY <1>2 DEF SocketConnects, Receive, TransportError, SendStep, flags
<1>3. CASE HandleError \/ HandleConnected \/ HandleSent \/ HandleSocket
           \/ HandleTimeout \/ PassWithout \/ RequestsControl \/ Close
           \/ SendRequest \/ SendHeartbeat
  BY <1>3 DEF HandleError, HandleConnected, HandleSent, HandleSocket,
              HandleTimeout, PassWithout, RequestsControl, Close, SendRequest,
              SendHeartbeat, flags
<1>4. CASE HandleHandshake
  BY <1>4 DEF HandleHandshake, HandshakeGarbled, HandshakeTest, HandshakeTestRet,
              HandshakeCreated, HandshakeTyped, HandshakeWrongType, flags
<1>5. CASE HandleDispatch
  BY <1>5 DEF HandleDispatch, CompleteRequest, CompleteByClient, CompleteUnheard,
              DeliverMessage, flags
<1> QED
  BY <1>1, <1>2, <1>3, <1>4, <1>5 DEF Next, HandleEvent

LEMMA NoticeStep ==
  ASSUME IInv, [Next]_vars
  PROVE  NoticeInv'
<1> TypeOK /\ NoticeInv
  BY DEF IInv
<1>1. CASE UNCHANGED vars
  BY <1>1 DEF vars, flags, inbox, NoticeInv, Told, Heard
<1>2. CASE Connect
  <2>1. phase' = "open" /\ noticed' = <<>> /\ UNCHANGED flags /\ phase = "idle"
    BY <1>2 DEF Connect
  <2>2. \A what : ~Told(what)'
    BY <2>1 DEF Told
  <2> QED
    BY <2>1, <2>2 DEF NoticeInv, flags
<1>3. CASE HandshakeCompleted
  <2>1. /\ Handling("received") /\ phase = "open" /\ UNCHANGED <<phase, close_notified>>
        /\ Consume /\ Tell("connected") /\ client_established' = TRUE
    BY <1>3, ReceivedFacts DEF HandshakeCompleted, Handshaking
  <2>2. Message.kind = "connectret" /\ Message.ok \in BOOLEAN
    BY <1>3, <2>1, ReceivedFacts
    DEF HandshakeCompleted, AnswersConnect, Expected, InMessage
  <2>3. Heard("connectret", BOOLEAN)'
    BY <2>1, <2>2, HeardNow
  <2>4. \A other : Told(other)' <=> Told(other) \/ "connected" = other
    BY <2>1, TellNext
  <2> QED
    BY <2>1, <2>3, <2>4 DEF NoticeInv
<1>4. ASSUME Next, ~Connect
      PROVE  Heard("connectret", BOOLEAN) => Heard("connectret", BOOLEAN)'
  BY <1>4, HeardKept
<1>5. CASE Next /\ HandleClosed
  <2>1. /\ phase = "closed" /\ phase' \in {"closed", "consumed"} /\ close_notified'
        /\ UNCHANGED client_established
        /\ IF close_notified THEN noticed' = noticed ELSE Tell("disconnected")
    BY <1>5 DEF HandleClosed, Handling, NextEvent, TellDisconnected
  <2>2. ~Connect
    BY <2>1 DEF Connect
  <2>3. \A other : Told(other)' <=> Told(other) \/ "disconnected" = other
    <3>1. CASE close_notified
      BY <2>1, <3>1 DEF NoticeInv, Told
    <3>2. CASE ~close_notified
      BY <2>1, <3>2, TellNext
    <3> QED
      BY <3>1, <3>2
  <2> QED
    BY <1>4, <1>5, <2>1, <2>2, <2>3 DEF NoticeInv
<1>6. CASE Next /\ Control
  <2>1. /\ \/ phase = "open" /\ phase' = "closed"
           \/ phase = "consumed" /\ phase' = "idle"
        /\ ~client_established' /\ ~close_notified'
        /\ UNCHANGED noticed /\ ~Connect
    BY <1>6 DEF Control, FlagsReset, Connect
  <2>2. \A other : Told(other)' <=> Told(other)
    BY <2>1 DEF Told
  <2> QED
    BY <1>4, <1>6, <2>1, <2>2 DEF NoticeInv
<1>7. CASE Next /\ HandshakeUnexpected
  <2>1. /\ ~client_established /\ ~client_established'
        /\ UNCHANGED <<phase, close_notified, noticed>> /\ phase = "open" /\ ~Connect
    BY <1>7, UnexpectedFacts DEF HandshakeUnexpected, Handshaking, Connect
  <2>2. \A other : Told(other)' <=> Told(other)
    BY <2>1 DEF Told
  <2> QED
    BY <1>4, <1>7, <2>1, <2>2 DEF NoticeInv
<1>8. CASE /\ Next /\ ~Connect /\ ~HandshakeCompleted /\ ~HandleClosed
           /\ UNCHANGED <<phase, client_established, close_notified>>
  <2>1. \/ noticed' = noticed
        \/ client_established /\ phase = "open" /\ Tell("message")
    BY <1>8, NoticeSteps, ReceivedFacts
  <2>2. \A other \in {"connected", "disconnected"} : Told(other)' <=> Told(other)
    <3>1. CASE noticed' = noticed
      BY <3>1 DEF Told
    <3>2. CASE Tell("message")
      BY <3>2, TellNext
    <3> QED
      BY <2>1, <3>1, <3>2
  <2> QED
    BY <1>4, <1>8, <2>2 DEF NoticeInv
<1> QED
  BY <1>1, <1>2, <1>3, <1>5, <1>6, <1>7, <1>8, FlagSteps

\* The notices of a session stay in their order.
LEMMA NoticesStep == IInv /\ NoticesInOrder /\ [Next]_vars => NoticesInOrder'
<1> SUFFICES ASSUME IInv, NoticesInOrder, [Next]_vars PROVE NoticesInOrder'
  OBVIOUS
<1> TypeOK /\ NoticeInv
  BY DEF IInv
<1>1. CASE noticed' = noticed
  BY <1>1 DEF NoticesInOrder, Earlier
<1>2. CASE Connect
  BY <1>2 DEF Connect, NoticesInOrder
<1>3. CASE HandshakeCompleted
  <2>1. phase = "open" /\ ~client_established /\ Tell("connected")
    BY <1>3, ReceivedFacts DEF HandshakeCompleted, Handshaking
  <2> QED
    BY <2>1, ToldInOrder DEF NoticeInv
<1>4. CASE Handling("received") /\ client_established /\ Tell("message")
  <2>1. phase = "open"
    BY <1>4, ReceivedFacts
  <2> QED
    BY <1>4, <2>1, ToldInOrder DEF NoticeInv
<1>5. CASE HandleClosed /\ ~close_notified /\ Tell("disconnected")
  <2>1. phase = "closed"
    BY <1>5 DEF HandleClosed, Handling, NextEvent
  <2> QED
    BY <1>5, <2>1, ToldInOrder DEF NoticeInv
<1> QED
  BY <1>1, <1>2, <1>3, <1>4, <1>5, NoticeSteps DEF vars

\* The questions of the handshake stay in their order.
LEMMA AskedStep == IInv /\ AskedInOrder /\ [Next]_vars => AskedInOrder'
<1> SUFFICES ASSUME IInv, AskedInOrder, [Next]_vars PROVE AskedInOrder'
  OBVIOUS
<1> TypeOK /\ FreshInv /\ HandshakeInv /\ NoticeInv
  BY DEF IInv
<1>1. CASE Connect
  BY <1>1 DEF Connect, AskedInOrder, Asked
<1>2. CASE UNCHANGED vars
  BY <1>2 DEF vars, inbox, outbox, AskedInOrder, Asked, Heard
<1>3. ASSUME Next, ~Connect
      PROVE  /\ Heard("createret", BOOLEAN) => Heard("createret", BOOLEAN)'
             /\ Heard("typeret", {TRUE}) => Heard("typeret", {TRUE})'
             /\ Heard("connectret", BOOLEAN) => Heard("connectret", BOOLEAN)'
  BY <1>3, HeardKept
<1>4. CASE Next /\ ~Connect /\ outbound' = outbound
  BY <1>3, <1>4 DEF AskedInOrder, Asked
<1>5. ASSUME Next, ~Connect, NEW m \in OutMessage, outbound' = Append(outbound, m),
             m.kind \in {"create", "type", "connect"} => ~Asked(m.kind),
             m.kind = "type" => Heard("createret", BOOLEAN)',
             m.kind = "connect" => Heard("typeret", {TRUE})',
             m.kind = "call" => Heard("connectret", BOOLEAN)'
      PROVE  AskedInOrder'
  <2>1. \A kind : Asked(kind)' <=> Asked(kind) \/ m.kind = kind
    BY <1>5, AskedNext
  <2>2. /\ DOMAIN outbound' = 1..(Len(outbound) + 1) /\ Len(outbound) \in Nat
        /\ DOMAIN outbound = 1..Len(outbound)
        /\ \A i \in 1..Len(outbound) : outbound'[i] = outbound[i]
        /\ outbound'[Len(outbound) + 1] = m
    BY <1>5
  <2>3. ASSUME NEW i \in DOMAIN outbound', NEW j \in DOMAIN outbound',
               outbound'[i].kind = outbound'[j].kind,
               outbound'[i].kind \in {"create", "type", "connect"}
        PROVE  i = j
    <3>1. CASE i \in DOMAIN outbound /\ j \in DOMAIN outbound
      BY <2>2, <2>3, <3>1 DEF AskedInOrder
    <3>2. CASE i = Len(outbound) + 1 /\ j \in DOMAIN outbound
      BY <1>5, <2>2, <2>3, <3>2 DEF Asked
    <3>3. CASE j = Len(outbound) + 1 /\ i \in DOMAIN outbound
      BY <1>5, <2>2, <2>3, <3>3 DEF Asked
    <3> QED
      BY <2>2, <3>1, <3>2, <3>3
  <2> QED
    BY <1>3, <1>5, <2>1, <2>3 DEF AskedInOrder
<1>6. ASSUME Next, ~Connect, NEW m \in OutMessage, Queues(m), phase = "open",
             \/ m.kind \in {"refusal", "test"}
             \/ m.kind = "call" /\ Told("connected")
             \/ m.kind = "create" /\ HandleSocket
             \/ m.kind = "type" /\ HandshakeCreated
             \/ m.kind = "connect" /\ HandshakeTyped
      PROVE  AskedInOrder'
  <2>1. outbound' = Append(outbound, m)
    BY <1>6 DEF Queues
  <2>2. CASE m.kind \in {"refusal", "test"}
    BY <1>5, <1>6, <2>1, <2>2
  <2>3. CASE m.kind = "call" /\ Told("connected")
    BY <1>3, <1>5, <1>6, <2>1, <2>3 DEF NoticeInv
  <2>4. CASE m.kind = "create" /\ HandleSocket
    <3>1. outbound = <<>>
      BY <2>4, OpenFacts DEF HandleSocket, FreshInv, Handling, NextEvent
    <3>2. ~Asked("create")
      BY <3>1 DEF Asked
    <3> QED
      BY <1>5, <1>6, <2>1, <2>4, <3>2
  <2>5. CASE m.kind = "type" /\ HandshakeCreated
    <3>1. /\ Handling("received") /\ handshake_state = "create_sent" /\ Consume
          /\ Message.kind = "createret"
      BY <2>5 DEF HandshakeCreated, Handshaking, Expected
    <3>2. phase = "open" /\ socket = "taken" /\ Message.ok \in BOOLEAN
      BY <3>1, OpenFacts, ReceivedFacts DEF InMessage
    <3>3. Heard("createret", BOOLEAN)'
      BY <3>1, <3>2, HeardNow
    <3>4. ~Asked("type")
      BY <3>1, <3>2 DEF HandshakeInv
    <3> QED
      BY <1>5, <1>6, <2>1, <2>5, <3>3, <3>4
  <2>6. CASE m.kind = "connect" /\ HandshakeTyped
    <3>1. /\ Handling("received") /\ handshake_state = "type_sent" /\ Consume
          /\ Message.kind = "typeret" /\ Message.ok
      BY <2>6 DEF HandshakeTyped, Handshaking, Expected
    <3>2. phase = "open" /\ socket = "taken" /\ Message.ok \in {TRUE}
      BY <3>1, OpenFacts, ReceivedFacts DEF InMessage
    <3>3. Heard("typeret", {TRUE})'
      BY <3>1, <3>2, HeardNow
    <3>4. ~Asked("connect")
      BY <3>1, <3>2 DEF HandshakeInv
    <3> QED
      BY <1>5, <1>6, <2>1, <2>6, <3>3, <3>4
  <2> QED
    BY <1>6, <2>2, <2>3, <2>4, <2>5, <2>6
<1> QED
  BY <1>1, <1>2, <1>4, <1>6, OutboxSteps DEF KeepsOutbox

LEMMA InitInv ==
  ASSUME Init
  PROVE  IInv
<1>1. TypeOK
  <2>1. inbound \in Seq(InMessage) /\ handed \in 0..Len(inbound)
    BY DEF Init
  <2>2. outbound \in Seq(OutMessage) /\ out \in 0..Len(outbound)
    BY DEF Init
  <2>3. noticed \in Seq({"connected", "message", "disconnected"}) /\ ended \in Seq(End)
    BY DEF Init
  <2> QED
    BY <2>1, <2>2, <2>3 DEF Init, TypeOK, HandshakeStates
<1>2. RequestsAccounted /\ OwnAnswer
  BY DEF Init, RequestsAccounted, EndedRequests, OwnAnswer
<1>3. HandshakeInv /\ NoticeInv
  BY DEF Init, HandshakeInv, NoticeInv, Told
<1> QED
  BY <1>1, <1>2, <1>3 DEF Init, IInv, FreshInv, BufferInv, IdInv

\* The inductive invariant of the client side (node.c) holds in every reachable state.
THEOREM Invariance == SafetySpec => []IInv
<1>1. ASSUME IInv, [Next]_vars
      PROVE  IInv'
  BY <1>1, TypeStep, FreshStep, IdStep, AccountStep, HandshakeStep, NoticeStep DEF IInv
<1> QED
  BY <1>1, InitInv, PTL DEF SafetySpec

\* Every variable of the client side keeps its type.
THEOREM TypeCorrect == SafetySpec => []TypeOK
<1>1. IInv => TypeOK
  BY DEF IInv
<1> QED
  BY <1>1, Invariance, PTL

\* Every accepted request is in the list or has ended, once (dispatch_response_message
\* and requests_process_control).
THEOREM RequestsAreAccountedFor == SafetySpec => []RequestsAccounted
<1>1. IInv => RequestsAccounted
  BY DEF IInv
<1> QED
  BY <1>1, Invariance, PTL

\* A request is completed only by its own answer, over any number of sessions that
\* all use the same identifiers (dispatch_response_message).
THEOREM AnsweredByItsOwn == SafetySpec => []OwnAnswer
<1>1. IInv => OwnAnswer
  BY DEF IInv
<1> QED
  BY <1>1, Invariance, PTL
\* In a session the application is told once that it is connected, then of messages, and
\* at last, once, that it is disconnected, however the callbacks of node_next_cycle retry.
THEOREM ToldInRightOrder == SafetySpec => []NoticesInOrder
<1>1. Init => NoticesInOrder
  BY DEF Init, NoticesInOrder
<1> QED
  BY <1>1, NoticesStep, Invariance, PTL DEF SafetySpec

\* The handshake asks its three questions once each, and each only after the answer to the
\* one before (process_client_handshake), whatever the server repeats or makes up.
THEOREM AsksInOrder == SafetySpec => []AskedInOrder
<1>1. Init => AskedInOrder
  BY DEF Init, AskedInOrder, Asked
<1> QED
  BY <1>1, AskedStep, Invariance, PTL DEF SafetySpec

-----------------------------------------------------------------------------
(* The client uses its connection as MessageChannel allows *)

\* All that was queued is out, but for the message in the send buffer.
BufferExact ==
  /\ sending = "busy" => out + 1 = Len(outbound)
  /\ phase = "open" /\ sending # "busy" => out = Len(outbound)

LEMMA PhaseSteps ==
  ASSUME TypeOK, Next
  PROVE  Connect \/ Control \/ HandleClosed \/ phase' = phase
  BY FlagSteps DEF HandshakeCompleted, HandshakeUnexpected

LEMMA BufferStep == IInv /\ BufferExact /\ [Next]_vars => BufferExact'
<1> SUFFICES ASSUME IInv, BufferExact, [Next]_vars PROVE BufferExact'
  OBVIOUS
<1> TypeOK /\ FreshInv
  BY DEF IInv
<1>1. Len(outbound) \in Nat /\ out \in Nat
  BY DEF TypeOK
<1>2. CASE UNCHANGED vars
  BY <1>2 DEF vars, outbox, BufferExact
<1>3. CASE Connect
  BY <1>3 DEF Connect, FreshInv, BufferExact
<1>4. CASE Next /\ ~Connect /\ KeepsOutbox
  <2>1. phase' = "open" => phase = "open"
    BY <1>4, PhaseSteps DEF Control, HandleClosed
  <2> QED
    BY <1>4, <2>1 DEF KeepsOutbox, BufferExact
<1>5. CASE SendStep
  <2>1. phase' = phase /\ outbound' = outbound
    BY <1>5 DEF SendStep
  <2>2. CASE sending = "busy" /\ sending' = "sent"
    BY <1>1, <1>5, <2>1, <2>2 DEF SendStep, BufferExact
  <2>3. CASE ~(sending = "busy" /\ sending' = "sent")
    BY <1>5, <2>1, <2>3 DEF SendStep, SendProgress, BufferExact
  <2> QED
    BY <2>2, <2>3
<1>6. ASSUME NEW m \in OutMessage, Queues(m), phase = "open"
      PROVE  BufferExact'
  <2>1. Len(outbound') = Len(outbound) + 1
    BY <1>6 DEF Queues, TypeOK
  <2> QED
    BY <1>1, <1>6, <2>1 DEF Queues, BufferExact
<1> QED
  BY <1>2, <1>3, <1>4, <1>5, <1>6, OutboxSteps

\* The messages that have been consumed are the first that the server has written.
LEMMA HandedFacts ==
  ASSUME NEW s \in Seq(InMessage), NEW n \in 0..Len(s)
  PROVE  SubSeq(s, 1, n) = [i \in 1..n |-> s[i]] /\ Len(SubSeq(s, 1, n)) = n
<1>1. \A i \in 1..n : s[i] \in InMessage
  OBVIOUS
<1>2. /\ SubSeq(s, 1, n) \in Seq(InMessage)
      /\ Len(SubSeq(s, 1, n)) = IF 1 <= n THEN n - 1 + 1 ELSE 0
      /\ \A i \in 1..(n - 1 + 1) : SubSeq(s, 1, n)[i] = s[1 + i - 1]
  BY <1>1, SubSeqProperties
<1> QED
  BY <1>2

LEMMA WriteStep ==
  ASSUME TypeOK, TypeOK', NEW m, ServerWrites(m)
  PROVE  Channel!Write
<1>1. /\ inbound \in Seq(InMessage) /\ inbound' \in Seq(InMessage)
      /\ handed \in 0..Len(inbound) /\ Len(inbound) \in Nat
      /\ inbound' = Append(inbound, m) /\ handed' = handed
      /\ outbound' = outbound /\ out' = out /\ phase = "open" /\ phase' = phase
  BY DEF TypeOK, ServerWrites, outbox
<1>2. /\ Len(inbound') = Len(inbound) + 1 /\ inbound'[Len(inbound) + 1] = m
      /\ m \in InMessage /\ \A i \in 1..Len(inbound) : inbound'[i] = inbound[i]
  BY <1>1
<1>3. handed \in 0..Len(inbound')
  BY <1>1, <1>2
<1>4. SubSeq(inbound', 1, handed) = SubSeq(inbound, 1, handed)
  BY <1>1, <1>2, <1>3, HandedFacts
<1> QED
  BY <1>1, <1>2, <1>4 DEF Channel!Write

\* A message is consumed, and may be answered in the same step.
LEMMA ConsumeStep ==
  ASSUME TypeOK, BufferExact, Handling("received"), Consume, phase' = phase, out' = out,
         outbound' = outbound \/ \E m \in OutMessage : Queues(m)
  PROVE  Channel!Hand \/ Channel!HandAndTake
<1>1. /\ phase = "open" /\ inbound' = inbound /\ handed' = handed + 1
      /\ handed \in 0..Len(inbound) /\ handed + 1 \in 0..Len(inbound)
      /\ inbound \in Seq(InMessage) /\ handed < Len(inbound) /\ handed \in Nat
  BY ReceivedFacts DEF Consume, TypeOK
<1> DEFINE before == SubSeq(inbound, 1, handed)
           after == SubSeq(inbound, 1, handed + 1)
<1>2. /\ before = [i \in 1..handed |-> inbound[i]] /\ Len(before) = handed
      /\ after = [i \in 1..(handed + 1) |-> inbound[i]]
  BY <1>1, HandedFacts
<1>3. after = Append(before, inbound[Len(before) + 1])
  BY <1>1, <1>2
<1>4. SubSeq(inbound, 1, handed)' = after
  BY <1>1
<1>5. CASE outbound' = outbound
  BY <1>1, <1>2, <1>3, <1>4, <1>5 DEF Channel!Hand
<1>6. ASSUME NEW m \in OutMessage, Queues(m)
      PROVE  Channel!HandAndTake
  <2>1. Len(outbound') = Len(outbound) + 1 /\ out = Len(outbound)
    BY <1>1, <1>6 DEF Queues, BufferExact, TypeOK
  <2> QED
    BY <1>1, <1>2, <1>3, <1>4, <2>1 DEF Channel!HandAndTake
<1> QED
  BY <1>5, <1>6

LEMMA ChannelStep ==
  ASSUME IInv, IInv', BufferExact, [Next]_vars
  PROVE  [Channel!ChannelNext]_Channel!channel
<1> TypeOK /\ TypeOK' /\ FreshInv
  BY DEF IInv
<1> USE DEF Channel!ChannelNext
<1>1. CASE UNCHANGED vars
  BY <1>1 DEF vars, inbox, outbox, Channel!channel
<1>2. CASE Connect
  <2>1. inbound' = <<>> /\ handed' = 0 /\ SubSeq(<<>>, 1, 0) = <<>> /\ outbound' = <<>>
    BY <1>2, SubSeqEmpty DEF Connect
  <2>2. SubSeq(inbound, 1, handed)' = <<>> /\ Len(outbound)' = 0
    BY <2>1
  <2> QED
    BY <1>2, <2>1, <2>2 DEF Connect, Channel!Open
<1>3. ASSUME NEW m, ServerWrites(m) PROVE Channel!Write
  BY <1>3, WriteStep
<1>4. CASE Control
  BY <1>4 DEF Control, Channel!Shut, Channel!Release
<1>5. CASE HandleClosed
  BY <1>5 DEF HandleClosed, Handling, NextEvent, inbox, outbox, Channel!channel
<1>6. CASE SendStep
  <2>1. Len(outbound) \in Nat /\ out \in Nat
    BY DEF TypeOK
  <2>2. CASE sending = "busy" /\ sending' = "sent"
    <3>1. phase = "open" /\ out < Len(outbound)
      BY <2>1, <2>2 DEF FreshInv, BufferExact
    <3> QED
      BY <1>6, <2>2, <3>1 DEF SendStep, inbox, Channel!Out
  <2>3. CASE ~(sending = "busy" /\ sending' = "sent")
    BY <1>6, <2>3 DEF SendStep, inbox, Channel!channel
  <2> QED
    BY <2>2, <2>3
<1>7. ASSUME Next, ~Connect, ~Control, ~HandleClosed, ~SendStep,
             \A m : ~ServerWrites(m)
      PROVE  [Channel!ChannelNext]_Channel!channel
  <2>1. phase' = phase
    BY <1>7, PhaseSteps
  <2>2. /\ \/ UNCHANGED <<inbound, handed>>
           \/ Handling("received") /\ Consume
        /\ out' = out
        /\ \/ outbound' = outbound
           \/ phase = "open" /\ \E m \in OutMessage : Queues(m)
    BY <1>7, InboxSteps, OutboxSteps DEF KeepsOutbox, Queues
  <2>3. CASE Handling("received") /\ Consume
    BY <2>1, <2>2, <2>3, ConsumeStep
  <2>4. CASE UNCHANGED <<inbound, handed>> /\ outbound' = outbound
    BY <2>1, <2>2, <2>4 DEF Channel!channel
  <2>5. ASSUME UNCHANGED <<inbound, handed>>, phase = "open",
               NEW m \in OutMessage, Queues(m)
        PROVE  Channel!Take
    <3>1. Len(outbound') = Len(outbound) + 1 /\ out = Len(outbound)
      BY <2>5 DEF Queues, BufferExact, TypeOK
    <3> QED
      BY <2>1, <2>2, <2>5, <3>1 DEF Channel!Take
  <2> QED
    BY <2>2, <2>3, <2>4, <2>5
<1> QED
  BY <1>1, <1>2, <1>3, <1>4, <1>5, <1>6, <1>7

\* node.c: what the handshake, the dispatch of messages and the application do with the
\* connection (begin_send_messageentry) is what the slot below them promises to carry.
THEOREM UsesItsChannel == SafetySpec => UsesChannel
<1>1. Init => BufferExact /\ Channel!ChannelInit
  BY SubSeqEmpty DEF Init, BufferExact, Channel!ChannelInit
<1>2. IInv /\ IInv' /\ BufferExact /\ [Next]_vars => [Channel!ChannelNext]_Channel!channel
  BY ChannelStep
<1> QED
  BY <1>1, <1>2, BufferStep, Invariance, PTL
  DEF SafetySpec, UsesChannel, Channel!ChannelSpec
=============================================================================
