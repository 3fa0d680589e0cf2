----------------------------- MODULE ClientNode -----------------------------
(***************************************************************************)
(* The client side of a Robot Raconteur Lite node, seen from one of its    *)
(* client connections: the handshake that makes it a client of a service,  *)
(* the requests of the application with their answers and timeouts, and    *)
(* what the application is told (node.c).                                  *)
(*                                                                         *)
(* The transport below is MessageChannel, as in ServiceNode.  The server   *)
(* speaks only after it has been spoken to, and may answer a message that  *)
(* reached it, grant or refuse it, and send messages of its own.           *)
(*                                                                         *)
(* The number of the session stands for local_endpoint, which is drawn at  *)
(* random in every session; last_request_id starts anew from FirstId, the  *)
(* worst case: every session uses the same identifiers.  The node has a    *)
(* request list, every request gets a timeout, and the application asks    *)
(* once it has been told that it is connected, never with a request that   *)
(* is still in the list.                                                   *)
(*                                                                         *)
(* A definition named X_Y is a slip: X as it might be written wrongly.     *)
(***************************************************************************)
EXTENDS Naturals, Sequences

CONSTANTS
  FirstId,      \* what last_request_id is drawn to be
  Owners,       \* who hears of the end of a request
  Strays,       \* kinds of messages the server sends of its own
  Refused,      \* kinds of messages it may answer with an error
  MaxRepeated,  \* bound: answers are given again among so many of its messages
  MaxUnasked,   \* bound: and what nobody asked for among so many
  MaxCalls,     \* bound: requests of the application in one session
  MaxBeats,     \* bound: heartbeats in one session
  MaxSessions,  \* bound: times the client connects
  MayClose      \* whether the application closes connections by itself

\* packet: an event or stream packet; test: the server's own CONNECTIONTEST;
\* garbled: its headers cannot be read.
AllStrays == {"packet", "test", "garbled"}

\* request_ops of the request, client_ops of the client, or no callback at all.
AllOwners == {"request", "client", "nobody"}

ASSUME ClientAssumption ==
  /\ FirstId \in Nat
  /\ Owners \subseteq AllOwners /\ Strays \subseteq AllStrays
  /\ Refused \subseteq {"create", "type", "connect", "call", "test"}
  /\ MayClose \in BOOLEAN
  /\ MaxRepeated \in Nat /\ MaxUnasked \in Nat /\ MaxCalls \in Nat /\ MaxBeats \in Nat
  /\ MaxSessions \in Nat

VARIABLES
  phase,      \* "idle", "open", "closed", or "consumed": closed and reported
  socket,     \* "connecting", "connected", or "taken": the event is consumed
  closing,    \* CLOSE_REQUESTED
  failed,     \* ERROR
  connected,  \* CONNECTED: "no", "event" until its event is consumed, "yes"
  client_established,    \* CLIENT_ESTABLISHED
  close_notified,        \* CLOSE_NOTIFIED
  handshake_state,
  handshake_request_id,
  last_request_id,
  received,   \* a message waits for its handler
  sending,    \* "free"; a message is queued, "busy", "sent", or "released"
  pending,    \* the request list of the node
  pc,         \* what the loop runs next: "send", "event" or "cycle"
  \* What the session has seen
  inbound,    \* messages the server has written
  handed,     \* number of them that have been consumed
  outbound,   \* messages queued
  out,        \* number of messages the channel has sent
  noticed,    \* what the application has been told
  \* What the client has seen
  asked,      \* requests accepted for sending
  ended,      \* requests that have ended, in order, and how
  session     \* sessions begun

flags == <<socket, closing, failed, connected, client_established, close_notified>>
handshake == <<handshake_state, handshake_request_id, last_request_id>>
inbox == <<inbound, handed, received>>
outbox == <<outbound, sending, out>>
requests == <<pending, asked, ended>>
vars == <<phase, flags, handshake, inbox, outbox, requests, noticed, pc, session>>

Init ==
  /\ phase = "idle" /\ pc = "send" /\ session = 0
  /\ socket = "connecting" /\ closing = FALSE /\ failed = FALSE
  /\ connected = "no" /\ client_established = FALSE /\ close_notified = FALSE
  /\ handshake_state = "init"
  /\ handshake_request_id = 0 /\ last_request_id = 0
  /\ inbound = <<>> /\ handed = 0 /\ received = FALSE
  /\ outbound = <<>> /\ sending = "free" /\ out = 0
  /\ pending = {} /\ asked = {} /\ ended = <<>>
  /\ noticed = <<>>

-----------------------------------------------------------------------------
(* The transport *)

\* tcp_connect_service takes the idle slot.  The handshake state of the session
\* before is still there, until the socket is connected.
Connect ==
  /\ phase = "idle" /\ session < MaxSessions
  /\ phase' = "open" /\ session' = session + 1
  /\ inbound' = <<>> /\ handed' = 0 /\ outbound' = <<>> /\ out' = 0
  /\ noticed' = <<>>
  /\ UNCHANGED <<flags, handshake, received, sending, requests, pc>>

AnswerKind ==
  [create |-> "createret", type |-> "typeret", connect |-> "connectret",
   call |-> "callret", test |-> "testret"]

\* The answer to the i-th message sent; ok: it is not an error, nor of a type that
\* the client does not expect.
AnswerTo(i, ok) ==
  [kind |-> AnswerKind[outbound[i].kind], id |-> outbound[i].id, ok |-> ok]

Answers(i) ==
  {AnswerTo(i, ok) : ok \in IF outbound[i].kind \in Refused THEN BOOLEAN ELSE {TRUE}}

Unanswered(i) == \A j \in DOMAIN inbound : inbound[j] \notin Answers(i)

ServerWrites(m) ==
  /\ phase = "open"
  /\ inbound' = Append(inbound, m)
  /\ UNCHANGED <<phase, flags, handshake, handed, received, outbox, requests,
                 noticed, pc, session>>

ServerAnswers ==
  \E i \in 1..out :
    /\ outbound[i].kind # "refusal"
    /\ Unanswered(i) \/ Len(inbound) < MaxRepeated
    /\ \E m \in Answers(i) : ServerWrites(m)

ServerSpeaks ==
  /\ out > 0 /\ Len(inbound) < MaxUnasked
  /\ \E k \in Strays : ServerWrites([kind |-> k, id |-> 0, ok |-> TRUE])

\* A completed connection shows when the socket is polled.
SocketConnects ==
  /\ pc = "send" /\ phase = "open" /\ ~closing /\ socket = "connecting"
  /\ socket' = "connected"
  /\ UNCHANGED <<phase, closing, failed, connected, client_established,
                 close_notified, handshake, inbox, outbox, requests, noticed,
                 pc, session>>

FlagsReset_KeepsNotice ==
  /\ socket' = "connecting" /\ closing' = FALSE /\ failed' = FALSE
  /\ connected' = "no" /\ client_established' = FALSE
  /\ UNCHANGED close_notified

FlagsReset_KeepsConnected ==
  /\ socket' = "connecting" /\ closing' = FALSE /\ failed' = FALSE
  /\ client_established' = FALSE /\ close_notified' = FALSE
  /\ UNCHANGED connected

FlagsReset ==
  /\ socket' = "connecting" /\ closing' = FALSE /\ failed' = FALSE
  /\ connected' = "no" /\ client_established' = FALSE
  /\ close_notified' = FALSE

\* The control step of a pass: the whole flag word is assigned.
Control ==
  /\ pc = "send"
  /\ \/ phase = "open" /\ closing /\ phase' = "closed"
     \/ phase = "consumed" /\ phase' = "idle"
  /\ FlagsReset
  /\ received' = FALSE /\ sending' = "free"
  /\ UNCHANGED <<handshake, inbound, handed, outbound, out, requests, noticed,
                 pc, session>>

MoreToReceive_OffByOne == handed <= Len(inbound)

MoreToReceive == handed < Len(inbound)

Receive ==
  /\ pc = "send" /\ phase = "open" /\ ~closing /\ ~failed
  /\ socket # "connecting" /\ ~received /\ MoreToReceive
  /\ received' = TRUE
  /\ UNCHANGED <<phase, flags, handshake, inbound, handed, outbox, requests,
                 noticed, pc, session>>

\* A connect that fails is not among these: it leaves no trace in the flags.
TransportError ==
  /\ pc = "send" /\ phase = "open" /\ ~failed /\ socket # "connecting"
  /\ ~closing \/ sending = "busy"
  /\ failed' = TRUE
  /\ UNCHANGED <<phase, socket, closing, connected, client_established,
                 close_notified, handshake, inbox, outbox, requests, noticed,
                 pc, session>>

\* What a send step may make of the send buffer.
SendProgress ==
  IF failed THEN {sending}
  ELSE IF sending = "busy" THEN {"busy", "sent"}
  ELSE IF sending = "released" THEN {"free"}
  ELSE {sending}

\* A send step precedes every event pass.
SendStep ==
  /\ pc = "send" /\ sending' \in SendProgress
  /\ out' = IF sending = "busy" /\ sending' = "sent" THEN out + 1 ELSE out
  /\ pc' = "event"
  /\ UNCHANGED <<phase, flags, handshake, inbox, outbound, requests, noticed,
                 session>>

-----------------------------------------------------------------------------
(* Sending *)

Status_IgnoresBuffer == IF failed \/ closing THEN "invalid" ELSE "ok"

\* The status of begin_send_messageentry on a connection that is CONNECTED.
Status ==
  IF failed \/ closing THEN "invalid"
  ELSE IF sending # "free" THEN "retry"
  ELSE "ok"

\* The same on any connection.
SendStatus == IF connected = "no" THEN "invalid" ELSE Status

\* A message given with status st is queued, or nothing is.
Queue(st, m) ==
  IF st = "ok"
  THEN sending' = "busy" /\ outbound' = Append(outbound, m) /\ UNCHANGED out
  ELSE UNCHANGED outbox

(***************************************************************************)
(* handshake_begin_request and what follows it.  The request counts even   *)
(* when it is refused.  After a retry the handshake stays before its       *)
(* request, and no event of its own will bring it back there.              *)
(***************************************************************************)
Ask(kind, id, before, after) ==
  /\ last_request_id' = id /\ handshake_request_id' = id
  /\ Queue(Status, [kind |-> kind, id |-> id])
  /\ handshake_state' = IF Status = "ok" THEN after
                        ELSE IF Status = "retry" THEN before ELSE "error"
  /\ closing' = (closing \/ Status = "invalid")

-----------------------------------------------------------------------------
(* The event of this connection *)

NextEvent ==
  IF phase = "closed" THEN "closed"
  ELSE IF phase # "open" THEN "none"
  ELSE IF failed /\ ~closing THEN "error"
  ELSE IF connected = "event" THEN "connected"
  ELSE IF sending = "sent" THEN "sent"
  ELSE IF received THEN "received"
  ELSE IF socket = "connected" THEN "socket"
  ELSE "none"

Handling(event) == pc = "event" /\ pc' = "cycle" /\ NextEvent = event

Consume == handed' = handed + 1 /\ received' = FALSE /\ UNCHANGED inbound

Message == inbound[handed + 1]

Tell(what) == noticed' = Append(noticed, what)

HandleError ==
  /\ Handling("error")
  /\ closing' = TRUE
  /\ UNCHANGED <<phase, socket, failed, connected, client_established,
                 close_notified, handshake, inbox, outbox, requests, noticed,
                 session>>

\* The heartbeat runs out when there is no other event.
HandleTimeout ==
  /\ pc = "event" /\ pc' = "cycle" /\ phase = "open" /\ NextEvent = "none"
  /\ closing' = TRUE
  /\ UNCHANGED <<phase, socket, failed, connected, client_established,
                 close_notified, handshake, inbox, outbox, requests, noticed,
                 session>>

TellDisconnected_EveryTime == Tell("disconnected")

\* The application hears of the close once, however often its event comes.
TellDisconnected == IF close_notified THEN UNCHANGED noticed ELSE Tell("disconnected")

\* connection_event may ask for a retry: the event is then not consumed.
HandleClosed ==
  /\ Handling("closed")
  /\ phase' \in {"closed", "consumed"}
  /\ close_notified' = TRUE /\ TellDisconnected
  /\ UNCHANGED <<socket, closing, failed, connected, client_established,
                 handshake, inbox, outbox, requests, session>>

HandleConnected ==
  /\ Handling("connected")
  /\ connected' = "yes"
  /\ UNCHANGED <<phase, socket, closing, failed, client_established,
                 close_notified, handshake, inbox, outbox, requests, noticed,
                 session>>

HandleSent ==
  /\ Handling("sent")
  /\ sending' = "released"
  /\ UNCHANGED <<phase, flags, handshake, inbox, outbound, out, requests,
                 noticed, session>>

\* The handshake begins: the connection poses as CONNECTED to send its request.
HandleSocket ==
  /\ Handling("socket")
  /\ socket' = "taken"
  /\ Ask("create", FirstId + 1, "init", "create_sent")
  /\ UNCHANGED <<phase, failed, connected, client_established, close_notified,
                 inbox, requests, noticed, session>>

-----------------------------------------------------------------------------
(* A message during the handshake *)

Handshaking == Handling("received") /\ ~client_established

HandshakeGarbled ==
  /\ Handshaking /\ Message.kind = "garbled"
  /\ Consume /\ failed' = TRUE
  /\ UNCHANGED <<phase, socket, closing, connected, client_established,
                 close_notified, handshake, outbox, requests, noticed, session>>

\* The server's own request is an invalid operation: consumed, and answered so if
\* that can be.
HandshakeTest ==
  /\ Handshaking /\ Message.kind = "test"
  /\ Consume /\ Queue(SendStatus, [kind |-> "refusal", id |-> Message.id])
  /\ UNCHANGED <<phase, flags, handshake, requests, noticed, session>>

HandshakeTestRet ==
  /\ Handshaking /\ Message.kind = "testret"
  /\ Consume
  /\ UNCHANGED <<phase, flags, handshake, outbox, requests, noticed, session>>

Expected_AnyKind(state, kind) == handshake_state = state

Expected(state, kind) == handshake_state = state /\ Message.kind = kind

\* The answer to CreateConnection is not checked for an error, nor for its request.
HandshakeCreated ==
  /\ Handshaking /\ Expected("create_sent", "createret")
  /\ Consume
  /\ connected' = IF connected = "no" THEN "event" ELSE connected
  /\ Ask("type", last_request_id + 1, "created", "type_sent")
  /\ UNCHANGED <<phase, socket, failed, client_established, close_notified,
                 requests, noticed, session>>

HandshakeTyped ==
  /\ Handshaking /\ Expected("type_sent", "typeret") /\ Message.ok
  /\ Consume
  /\ Ask("connect", last_request_id + 1, "typed", "connect_sent")
  /\ UNCHANGED <<phase, socket, failed, connected, client_established,
                 close_notified, requests, noticed, session>>

GivesUp_StaysOpen == handshake_state' = "error" /\ UNCHANGED closing

\* handshake_error
GivesUp == handshake_state' = "error" /\ closing' = TRUE

\* The state INVALID_OBJECT_TYPE is assigned, but the default of the second switch
\* replaces it in the same call: nobody sees it.
HandshakeWrongType ==
  /\ Handshaking /\ Expected("type_sent", "typeret") /\ ~Message.ok
  /\ Consume /\ GivesUp
  /\ UNCHANGED <<phase, socket, failed, connected, client_established,
                 close_notified, handshake_request_id, last_request_id, outbox,
                 requests, noticed, session>>

AnswersConnect ==
  /\ Expected("connect_sent", "connectret")
  /\ Message.id = handshake_request_id

\* The answer to CONNECTCLIENT is not checked for an error.
HandshakeCompleted ==
  /\ Handshaking /\ AnswersConnect
  /\ Consume /\ client_established' = TRUE
  /\ handshake_state' = "completed" /\ Tell("connected")
  /\ UNCHANGED <<phase, socket, closing, failed, connected, close_notified,
                 handshake_request_id, last_request_id, outbox, requests, session>>

\* Any other message ends the connection and stays unconsumed.
HandshakeUnexpected ==
  /\ Handshaking /\ Message.kind \notin {"garbled", "test", "testret"}
  /\ ~Expected("create_sent", "createret") /\ ~Expected("type_sent", "typeret")
  /\ ~AnswersConnect
  /\ client_established' = (Message.kind = "connectret")
  /\ IF handshake_state \in {"create_sent", "type_sent", "connect_sent"}
     THEN GivesUp
     ELSE closing' = TRUE /\ UNCHANGED handshake_state
  /\ UNCHANGED <<phase, socket, failed, connected, close_notified,
                 handshake_request_id, last_request_id, inbox, outbox, requests,
                 noticed, session>>

HandleHandshake ==
  \/ HandshakeGarbled \/ HandshakeTest \/ HandshakeTestRet
  \/ HandshakeCreated \/ HandshakeTyped \/ HandshakeWrongType
  \/ HandshakeCompleted \/ HandshakeUnexpected

-----------------------------------------------------------------------------
(* A message of an established client *)

Dispatching == Handling("received") /\ client_established

Matches_ById(r) == r.id = Message.id

\* The message is for a request of this connection and this session.
Matches(r) == r.id = Message.id /\ r.endpoint = session

Removes_Never(r) == UNCHANGED pending

Removes(r) == pending' = pending \ {r}

\* Request r is taken out of the list and is over.
Ends(r, how, by) ==
  /\ Removes(r)
  /\ ended' = Append(ended, [request |-> r, how |-> how, at |-> session, by |-> by])
  /\ UNCHANGED asked

\* request_ops: taken out before the callback.  If that asks for a retry the
\* message stays, but the request it answers is gone.
CompleteRequest ==
  /\ Dispatching
  /\ \E r \in pending :
       Matches(r) /\ r.owner = "request" /\ Ends(r, "answer", Message.id)
  /\ Consume \/ UNCHANGED inbox
  /\ UNCHANGED <<phase, flags, handshake, outbox, noticed, session>>

\* client_ops: taken out after the callback, unless that asks for a retry.
CompleteByClient ==
  /\ Dispatching
  /\ \E r \in pending :
       Matches(r) /\ r.owner = "client" /\ Ends(r, "answer", Message.id)
  /\ Consume
  /\ UNCHANGED <<phase, flags, handshake, outbox, noticed, session>>

\* No callback: taken out, and the message goes where a stray one goes.
CompleteUnheard ==
  /\ Dispatching
  /\ \E r \in pending :
       Matches(r) /\ r.owner = "nobody" /\ Ends(r, "answer", Message.id)
  /\ \/ Consume /\ Tell("message")
     \/ UNCHANGED <<inbox, noticed>>
  /\ UNCHANGED <<phase, flags, handshake, outbox, session>>

\* message_received takes what answers no request, unless it asks for a retry.
DeliverMessage ==
  /\ Dispatching /\ ~\E r \in pending : Matches(r)
  /\ Consume /\ Tell("message")
  /\ UNCHANGED <<phase, flags, handshake, outbox, requests, session>>

HandleDispatch ==
  CompleteRequest \/ CompleteByClient \/ CompleteUnheard \/ DeliverMessage

HandleEvent ==
  \/ HandleError \/ HandleClosed \/ HandleConnected \/ HandleSent
  \/ HandleSocket \/ HandleHandshake \/ HandleDispatch

\* No event, the pass is cut short before it, or a callback asks for a retry.
PassWithout ==
  /\ pc = "event" /\ pc' = "cycle"
  /\ UNCHANGED <<phase, flags, handshake, inbox, outbox, requests, noticed,
                 session>>

-----------------------------------------------------------------------------
(* Requests of the application, timeouts and heartbeats *)

\* A refused request uses an identifier too, but does not enter the list.
SendRequest ==
  /\ phase = "open"
  /\ \E i \in DOMAIN noticed : noticed[i] = "connected"
  /\ last_request_id < FirstId + 3 + MaxCalls + MaxBeats
  /\ last_request_id' = last_request_id + 1
  /\ \E o \in Owners :
       LET r == [id |-> last_request_id + 1, endpoint |-> session, owner |-> o]
       IN /\ Queue(SendStatus, [kind |-> "call", id |-> r.id])
          /\ IF SendStatus = "ok"
             THEN pending' = pending \cup {r} /\ asked' = asked \cup {r}
             ELSE UNCHANGED <<pending, asked>>
  /\ UNCHANGED <<phase, flags, handshake_state, handshake_request_id, inbox,
                 ended, noticed, pc, session>>

\* The heartbeat of a silent connection: it uses an identifier but is sent with 0.
SendHeartbeat ==
  /\ pc = "event" /\ pc' = "cycle" /\ phase = "open" /\ NextEvent = "none"
  /\ MaxBeats > 0 /\ last_request_id < FirstId + 3 + MaxBeats
  /\ last_request_id' = last_request_id + 1
  /\ Queue(SendStatus, [kind |-> "test", id |-> 0])
  /\ UNCHANGED <<phase, flags, handshake_state, handshake_request_id, inbox,
                 requests, noticed, session>>

Expirable_WhileOpen == {r \in pending : phase = "open"}

\* A request times out whatever has become of its connection.
Expirable == pending

\* The end of a cycle.  Taking a request out ends the walk through the list, so
\* that at most one is timed out in a cycle.
RequestsControl ==
  /\ pc = "cycle" /\ pc' = "send"
  /\ \/ UNCHANGED requests
     \/ \E r \in Expirable : Ends(r, "timeout", 0)
  /\ UNCHANGED <<phase, flags, handshake, inbox, outbox, noticed, session>>

\* The application closes the connection.
Close ==
  /\ MayClose /\ pc = "event" /\ phase = "open" /\ ~closing
  /\ closing' = TRUE
  /\ UNCHANGED <<phase, socket, failed, connected, client_established,
                 close_notified, handshake, inbox, outbox, requests, noticed,
                 pc, session>>

Next ==
  \/ Connect \/ ServerAnswers \/ ServerSpeaks
  \/ SocketConnects \/ Control \/ Receive \/ TransportError \/ SendStep
  \/ HandleEvent \/ HandleTimeout \/ PassWithout \/ RequestsControl
  \/ SendRequest \/ SendHeartbeat \/ Close

\* The server answers, in time, what the handshake asks.
ServerHelps ==
  \E i \in 1..out :
    /\ outbound[i].kind \in {"create", "type", "connect"} /\ Unanswered(i)
    /\ \E m \in Answers(i) : ServerWrites(m)

(***************************************************************************)
(* The loop runs, as in ServiceNode; a message queued goes out, a peer     *)
(* that is reachable accepts the connection, and time passes, so that a    *)
(* request that is not answered times out.                                 *)
(***************************************************************************)
Fairness ==
  /\ WF_vars(SendStep) /\ WF_vars(HandleEvent \/ PassWithout)
  /\ WF_vars(RequestsControl)
  /\ SF_vars(Control) /\ SF_vars(Receive) /\ SF_vars(SocketConnects)
  /\ SF_vars(HandleEvent)
  /\ SF_vars(SendStep /\ sending = "busy" /\ sending' = "sent")
  /\ SF_vars(RequestsControl /\ ended' # ended)
  /\ WF_vars(ServerHelps)

SafetySpec == Init /\ [][Next]_vars

Spec == SafetySpec /\ Fairness

-----------------------------------------------------------------------------
(* What the client side promises *)

Request == [id : Nat, endpoint : Nat, owner : Owners]

End == [request : Request, how : {"answer", "timeout"}, at : Nat, by : Nat]

InMessage ==
  [kind : AllStrays \cup {"createret", "typeret", "connectret", "callret", "testret"},
   id : Nat, ok : BOOLEAN]

OutMessage ==
  [kind : {"create", "type", "connect", "call", "test", "refusal"}, id : Nat]

HandshakeStates ==
  {"init", "create_sent", "created", "type_sent", "typed", "connect_sent",
   "completed", "error"}

\* Every variable keeps its type, and a message that waits is one the server wrote.
TypeOK ==
  /\ phase \in {"idle", "open", "closed", "consumed"}
  /\ socket \in {"connecting", "connected", "taken"}
  /\ closing \in BOOLEAN /\ failed \in BOOLEAN
  /\ connected \in {"no", "event", "yes"}
  /\ client_established \in BOOLEAN /\ close_notified \in BOOLEAN
  /\ handshake_state \in HandshakeStates
  /\ handshake_request_id \in Nat /\ last_request_id \in Nat
  /\ received \in BOOLEAN /\ sending \in {"free", "busy", "sent", "released"}
  /\ pc \in {"send", "event", "cycle"}
  /\ inbound \in Seq(InMessage) /\ handed \in 0..Len(inbound)
  /\ received => handed < Len(inbound)
  /\ outbound \in Seq(OutMessage) /\ out \in 0..Len(outbound)
  /\ noticed \in Seq({"connected", "message", "disconnected"})
  /\ pending \subseteq Request /\ asked \subseteq Request
  /\ ended \in Seq(End) /\ session \in Nat

EndedRequests == {ended[i].request : i \in DOMAIN ended}

\* A request that was accepted is in the list until it ends, and ends at most once:
\* no callback that retries, no answer repeated or late and no timeout ends it again.
RequestsAccounted ==
  /\ asked = pending \cup EndedRequests
  /\ pending \cap EndedRequests = {}
  /\ \A i, j \in DOMAIN ended :
       i # j => ended[i].request # ended[j].request

\* A request is completed only by the answer to itself, in its own session, though
\* every session uses the same identifiers and requests outlive their sessions.
OwnAnswer ==
  \A i \in DOMAIN ended :
    ended[i].how = "answer" =>
      /\ ended[i].at = ended[i].request.endpoint
      /\ ended[i].by = ended[i].request.id

Earlier(what, i) == \E j \in 1..(i - 1) : noticed[j] = what

\* In a session the application is told once that it is connected, then of messages,
\* and at last, once, that it is disconnected.
NoticesInOrder ==
  \A i \in DOMAIN noticed :
    /\ ~Earlier("disconnected", i)
    /\ noticed[i] = "connected" => ~Earlier("connected", i)
    /\ noticed[i] = "message" => Earlier("connected", i)

\* An answer of this kind, and with this content, has been handled.
Heard(kind, ok) ==
  \E j \in 1..handed : inbound[j].kind = kind /\ inbound[j].ok \in ok

Asked(kind) == \E i \in DOMAIN outbound : outbound[i].kind = kind

\* The handshake asks each of its three questions once, and each only after the one
\* before it was answered, the second to its satisfaction; a client is established
\* only by the third.
AskedInOrder ==
  /\ \A i, j \in DOMAIN outbound :
       /\ outbound[i].kind = outbound[j].kind
       /\ outbound[i].kind \in {"create", "type", "connect"}
       => i = j
  /\ Asked("type") => Heard("createret", BOOLEAN)
  /\ Asked("connect") => Heard("typeret", {TRUE})
  /\ Asked("call") => Heard("connectret", BOOLEAN)

\* A handshake that met a held send buffer goes on when the buffer is free.
HandshakeResumes ==
  phase = "open" /\ handshake_state \in {"created", "typed"}
    ~> handshake_state \notin {"created", "typed"} \/ phase # "open"

\* A handshake that has begun ends: the client is established or the session is over.
HandshakeEnds ==
  phase = "open" /\ socket = "connected" ~> client_established \/ phase # "open"

\* A request ends, whatever becomes of its answer or its connection.  The first three
\* identifiers of a session are those of the handshake.
RequestEnds ==
  \A s \in 1..MaxSessions, n \in (FirstId + 4)..(FirstId + 3 + MaxCalls + MaxBeats) :
    (\E r \in asked : r.endpoint = s /\ r.id = n)
      ~> (\E r \in EndedRequests : r.endpoint = s /\ r.id = n)

\* The loss of a connection is told to the application.
LossTold ==
  \A s \in 1..MaxSessions :
    session = s /\ phase = "open" /\ failed
      ~> session = s /\ \E i \in DOMAIN noticed : noticed[i] = "disconnected"

-----------------------------------------------------------------------------
(***************************************************************************)
(* The channel below, as this module uses it: the same MessageChannel that *)
(* Connection implements.                                                  *)
(***************************************************************************)
Channel ==
  INSTANCE MessageChannel WITH
    Message <- InMessage,
    phase <- IF phase = "consumed" THEN "closed" ELSE phase,
    written <- inbound,
    handed <- SubSeq(inbound, 1, handed),
    taken <- Len(outbound),
    sent <- out

\* Handlers and applications use the connection as MessageChannel allows.
UsesChannel == Channel!ChannelSpec

-----------------------------------------------------------------------------
(* The inductive invariant behind the safety properties *)

\* Nothing of a session is left in a slot that is not open, and nothing has happened
\* in a session whose socket has not been taken.
FreshInv ==
  /\ socket # "taken" => connected = "no"
  /\ phase # "open" => socket = "connecting" /\ ~received /\ sending = "free"
  /\ phase = "open" /\ socket # "taken" =>
       inbound = <<>> /\ outbound = <<>> /\ noticed = <<>>

\* A message in the send buffer is not out yet.
BufferInv == sending = "busy" => out < Len(outbound)

\* The identifiers of a session grow, from the step that takes its socket.
IdInv ==
  \A r \in asked :
    /\ r.endpoint <= session
    /\ r.endpoint = session =>
         r.id <= last_request_id /\ (phase = "open" => socket = "taken")

\* Where the handshake stands, by what it has asked, and whether it can go on.  It is
\* asked for the session by the last of its requests, and an answer to that one is
\* never met by a handshake that has given up.
HandshakeInv ==
  phase = "open" /\ socket = "taken" =>
    /\ Asked("type") =>
         handshake_state \in {"type_sent", "typed", "connect_sent", "completed", "error"}
    /\ Asked("connect") => handshake_state \in {"connect_sent", "completed", "error"}
    /\ handshake_state = "completed" => client_established
    /\ handshake_state = "error" =>
         /\ closing
         /\ received /\ ~client_established => Message.kind # "connectret"
    /\ \A i \in DOMAIN outbound :
         outbound[i].kind = "connect" => outbound[i].id = handshake_request_id
    /\ \A j \in DOMAIN inbound :
         inbound[j].kind = "connectret" =>
           Asked("connect") /\ inbound[j].id = handshake_request_id

Told(what) == \E i \in DOMAIN noticed : noticed[i] = what

\* What the application has been told, by the flags that guard the telling.
NoticeInv ==
  /\ phase = "open" => (client_established <=> Told("connected"))
  /\ phase # "open" => ~client_established
  /\ phase # "idle" => (close_notified <=> Told("disconnected"))
  /\ phase \in {"idle", "open"} => ~close_notified
  /\ Told("connected") => Heard("connectret", BOOLEAN)

\* The invariant that every step preserves; it implies the properties of requests, and
\* with it those of the handshake and of the notices are preserved too.
IInv ==
  /\ TypeOK /\ FreshInv /\ BufferInv /\ IdInv /\ RequestsAccounted /\ OwnAnswer
  /\ HandshakeInv /\ NoticeInv
=============================================================================
