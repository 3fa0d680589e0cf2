---------------------------- MODULE ServiceNode ----------------------------
(***************************************************************************)
(* The service side of a Robot Raconteur Lite node, seen from one of its   *)
(* server connections: the special requests that make a connection a       *)
(* client of a service and end it, the requests handed to service objects, *)
(* the answers, and the client_event notifications of the services         *)
(* (node.c).                                                               *)
(*                                                                         *)
(* The transport below is MessageChannel, which Connection implements:     *)
(* whole requests come up one at a time, and one message at a time goes    *)
(* out.  Of its flags only those are kept that the handlers can see.       *)
(*                                                                         *)
(* A handler's reply has one of three statuses: it is accepted ("ok"), the *)
(* send buffer is still held by an earlier message ("retry"), or the       *)
(* connection is failing or closing ("invalid").  What becomes of the      *)
(* request then differs from handler to handler.                           *)
(*                                                                         *)
(* A definition named X_Y is a slip: X as it might be written wrongly.     *)
(***************************************************************************)
EXTENDS Naturals, Sequences

CONSTANTS
  Services,     \* the services of the node
  NoService,    \* a null service pointer, or a path that names no service
  Kinds,        \* kinds of requests the peer writes
  MaxRequests,  \* bound: requests the peer writes in one session
  MaxOwn,       \* bound: messages of the node's own in one session
  MaxSessions,  \* bound: times the slot is taken
  MayClose      \* whether the application closes connections by itself

\* create: CreateConnection; test: a special request answered at once;
\* query: service definition or object type; oneway: consumed unanswered;
\* call: for a service object; badcall: for an object the service does not have;
\* garbled: its headers cannot be read.
AllKinds ==
  {"create", "connect", "disconnect", "test", "query", "keepalive", "oneway",
   "call", "badcall", "garbled"}

ASSUME ServiceAssumption ==
  /\ NoService \notin Services
  /\ Kinds \subseteq AllKinds
  /\ MaxRequests \in Nat /\ MaxOwn \in Nat /\ MaxSessions \in Nat
  /\ MayClose \in BOOLEAN

Requests ==
  [kind : Kinds \ {"connect"}, path : {NoService}]
    \cup [kind : Kinds \cap {"connect"}, path : Services \cup {NoService}]

VARIABLES
  phase,      \* "idle", "open", "closed", or "consumed": closed and reported
  closing,    \* CLOSE_REQUESTED
  failed,     \* ERROR
  established,         \* ESTABLISHED: CreateConnection has been answered
  client_established,  \* CLIENT_ESTABLISHED
  service,    \* connection->service
  received,   \* a request waits for its handler
  sending,    \* "free"; a message is queued, "busy", "sent", or "released"
  pc,         \* what the loop runs next for the connection: "send" or "event"
  \* What the session has seen
  requests,   \* requests the peer has written
  handed,     \* number of them that have been consumed
  answers,    \* index of the request of each answer, in the order queued
  own,        \* number of messages of the node's own queued
  out,        \* number of messages the channel has sent
  calls,      \* requests given to a service object, and of which service
  \* What the slot has seen
  told,       \* notifications given to services
  session     \* sessions served

flags == <<closing, failed, established>>
client == <<client_established, service>>
inbox == <<requests, handed, received>>
outbox == <<sending, answers, own, out>>
vars == <<phase, flags, client, inbox, outbox, pc, calls, told, session>>

Init ==
  /\ phase = "idle" /\ pc = "send"
  /\ closing = FALSE /\ failed = FALSE /\ established = FALSE
  /\ client_established = FALSE /\ service = NoService
  /\ requests = <<>> /\ handed = 0 /\ received = FALSE
  /\ sending = "free" /\ answers = <<>> /\ own = 0 /\ out = 0
  /\ calls = {} /\ told = <<>> /\ session = 0

-----------------------------------------------------------------------------
(* The transport *)

\* A peer is accepted into the idle slot.  The service pointer of the session
\* before is still there: neither the reset nor accept2 clears it.
Accept ==
  /\ phase = "idle" /\ session < MaxSessions
  /\ phase' = "open"
  /\ requests' = <<>> /\ handed' = 0
  /\ answers' = <<>> /\ own' = 0 /\ out' = 0 /\ calls' = {}
  /\ session' = session + 1
  /\ UNCHANGED <<flags, client, received, sending, pc, told>>

PeerWrites ==
  /\ phase = "open" /\ Len(requests) < MaxRequests
  /\ \E r \in Requests : requests' = Append(requests, r)
  /\ UNCHANGED <<phase, flags, client, handed, received, outbox, pc, calls,
                 told, session>>

\* The control step of a pass: the whole flag word is assigned.
Control ==
  /\ pc = "send"
  /\ \/ phase = "open" /\ closing /\ phase' = "closed"
     \/ phase = "consumed" /\ phase' = "idle"
  /\ closing' = FALSE /\ failed' = FALSE /\ established' = FALSE
  /\ client_established' = FALSE
  /\ received' = FALSE /\ sending' = "free"
  /\ UNCHANGED <<service, requests, handed, answers, own, out, pc,
                 calls, told, session>>

MoreToReceive_OffByOne == handed <= Len(requests)

MoreToReceive == handed < Len(requests)

\* The receive step follows the control step, so nothing is received while closing.
Receive ==
  /\ pc = "send" /\ phase = "open" /\ ~closing /\ ~failed
  /\ ~received /\ MoreToReceive
  /\ received' = TRUE
  /\ UNCHANGED <<phase, flags, client, requests, handed, outbox, pc, calls,
                 told, session>>

TransportError ==
  /\ pc = "send" /\ phase = "open" /\ ~failed
  /\ ~closing \/ sending = "busy"
  /\ failed' = TRUE
  /\ UNCHANGED <<phase, closing, established, client, inbox, outbox, pc, calls,
                 told, session>>

SendProgress_NeverReleases ==
  IF sending = "busy" /\ ~failed THEN {"busy", "sent"} ELSE {sending}

\* What a send step may make of the send buffer.
SendProgress ==
  IF failed THEN {sending}
  ELSE IF sending = "busy" THEN {"busy", "sent"}
  ELSE IF sending = "released" THEN {"free"}
  ELSE {sending}

\* A send step precedes every event pass.
SendStep ==
  /\ pc = "send" /\ sending' \in SendProgress
  /\ out' = IF sending = "busy" /\ sending' = "sent" THEN out + 1 ELSE out
  /\ pc' = "event"
  /\ UNCHANGED <<phase, flags, client, inbox, answers, own, calls, told, session>>

-----------------------------------------------------------------------------
(* The event of this connection *)

ErrorEvent_WhenNotSending == failed /\ ~closing /\ sending = "free"

\* connection_is_error
ErrorEvent == failed /\ ~closing

NextEvent ==
  IF phase = "closed" THEN "closed"
  ELSE IF phase # "open" THEN "none"
  ELSE IF ErrorEvent THEN "error"
  ELSE IF sending = "sent" THEN "sent"
  ELSE IF received THEN "received"
  ELSE "none"

Current == handed + 1

Handling(k) ==
  /\ pc = "event" /\ NextEvent = "received"
  /\ requests[Current].kind = k
  /\ pc' = "send"

Consume == handed' = handed + 1 /\ received' = FALSE

Reply_IgnoresBuffer == IF failed \/ closing THEN "invalid" ELSE "ok"

\* The status of begin_send_messageentry for a reply.
Reply ==
  IF failed \/ closing THEN "invalid"
  ELSE IF sending # "free" THEN "retry"
  ELSE "ok"

\* A reply with status r queues the answer, or nothing.
Respond(r) ==
  IF r = "ok" THEN sending' = "busy" /\ answers' = Append(answers, Current)
  ELSE UNCHANGED <<sending, answers>>

\* A service is notified, if the pointer is not null.
Tell(event, s) ==
  told' = IF s = NoService THEN told
          ELSE Append(told, [event |-> event, service |-> s])

(***************************************************************************)
(* special_request_handle_error turns an invalid reply into an error.  A   *)
(* reply to be retried is reported as success by run_next_event__service,  *)
(* and run_next_event2 then consumes the request like any other.           *)
(***************************************************************************)
FailedAfter(r) == failed \/ r = "invalid"

\* A server connection takes one CreateConnection; a second is an invalid operation.
HandleCreate ==
  /\ Handling("create")
  /\ Consume /\ Respond(Reply)
  /\ established' = (established \/ Reply = "ok")
  /\ failed' = IF established THEN failed ELSE FailedAfter(Reply)
  /\ UNCHANGED <<phase, closing, client, requests, own, out, calls, told, session>>

\* The connection becomes a client of the service when the answer is accepted.
Granted(r) == r = "ok" /\ requests[Current].path # NoService

(***************************************************************************)
(* CONNECTCLIENT.  After anything but a retry the service the connection   *)
(* points at is told of a client, whether or not the request was granted.  *)
(***************************************************************************)
HandleConnect ==
  /\ Handling("connect")
  /\ Consume /\ Respond(Reply)
  /\ failed' = FailedAfter(Reply)
  /\ client_established' = (client_established \/ Granted(Reply))
  /\ service' = IF Granted(Reply) THEN requests[Current].path ELSE service
  /\ IF Reply = "retry" THEN UNCHANGED told ELSE Tell("connected", service')
  /\ UNCHANGED <<phase, closing, established, requests, own, out, calls, session>>

ClearsClient_KeepsService ==
  client_established' = FALSE /\ UNCHANGED service

\* The connection is nobody's client any more.
ClearsClient == client_established' = FALSE /\ service' = NoService

\* DISCONNECTCLIENT clears the client before it knows how the reply fares.
HandleDisconnect ==
  /\ Handling("disconnect")
  /\ Consume /\ Respond(Reply)
  /\ failed' = FailedAfter(Reply)
  /\ ClearsClient
  /\ IF Reply = "retry" THEN UNCHANGED told ELSE Tell("disconnected", service)
  /\ UNCHANGED <<phase, closing, established, requests, own, out, calls, session>>

HandleTest ==
  /\ Handling("test")
  /\ Consume /\ Respond(Reply)
  /\ failed' = FailedAfter(Reply)
  /\ UNCHANGED <<phase, closing, established, client, requests, own, out, calls,
                 told, session>>

\* A request whose headers cannot be read fails the connection.
HandleGarbled ==
  /\ Handling("garbled")
  /\ Consume
  /\ failed' = TRUE
  /\ UNCHANGED <<phase, closing, established, client, requests, outbox, calls,
                 told, session>>

\* run_next_event2 closes the connection when a handler returns an error.
ClosingAfter(r) == closing \/ r = "invalid"

\* Consumed before the reply is tried; a reply to be retried is never retried.
HandleQuery ==
  /\ Handling("query")
  /\ Consume /\ Respond(Reply)
  /\ closing' = ClosingAfter(Reply)
  /\ UNCHANGED <<phase, failed, established, client, requests, own, out, calls, told,
                 session>>

Kept_Never(r) == FALSE

Kept_UnlessInvalid(r) == r # "invalid"

\* A keepalive stays in the buffer until its reply is accepted.
Kept(r) == r = "retry"

HandleKeepAlive ==
  /\ Handling("keepalive")
  /\ Respond(Reply)
  /\ IF Kept(Reply) THEN UNCHANGED <<handed, received>> ELSE Consume
  /\ closing' = ClosingAfter(Reply)
  /\ UNCHANGED <<phase, failed, established, client, requests, own, out, calls, told,
                 session>>

\* An answer to the node's own heartbeat, or a released path.
HandleOneWay ==
  /\ Handling("oneway")
  /\ Consume
  /\ UNCHANGED <<phase, flags, client, requests, outbox, calls, told, session>>

ServesClient_ByPointer == service # NoService

\* An object request is served only for an established client of a service.
ServesClient == client_established /\ service # NoService

\* Not a client, or no such object: consumed, then answered with an error.
RefuseCall ==
  /\ \/ Handling("badcall")
     \/ Handling("call") /\ ~ServesClient
  /\ Consume /\ Respond(Reply)
  /\ closing' = ClosingAfter(Reply)
  /\ UNCHANGED <<phase, failed, established, client, requests, own, out, calls, told,
                 session>>

(***************************************************************************)
(* The object's message_received replies or fails.  A failing one ends the *)
(* connection; a RETRY becomes success in run_next_event__consume_event,   *)
(* and run_next_event2 consumes the request.                               *)
(***************************************************************************)
ServeCall ==
  /\ Handling("call") /\ ServesClient
  /\ Consume
  /\ calls' = calls \cup {[request |-> Current, service |-> service]}
  /\ \/ Respond(Reply) /\ closing' = ClosingAfter(Reply)
     \/ closing' = TRUE /\ UNCHANGED <<sending, answers>>
  /\ UNCHANGED <<phase, failed, established, client, requests, own, out, told, session>>

HandleRequest ==
  \/ HandleCreate \/ HandleConnect \/ HandleDisconnect
  \/ HandleTest \/ HandleGarbled
  \/ HandleQuery \/ HandleKeepAlive \/ HandleOneWay
  \/ RefuseCall \/ ServeCall

\* The connection is closed, and the service of its client is told.
EndsClient ==
  /\ pc' = "send"
  /\ closing' = TRUE
  /\ IF client_established
     THEN ClearsClient /\ Tell("disconnected", service)
     ELSE UNCHANGED <<client, told>>
  /\ UNCHANGED <<phase, failed, established, inbox, outbox, calls, session>>

HandleError == pc = "event" /\ NextEvent = "error" /\ EndsClient

\* The heartbeat runs out when there is no other event.
HandleTimeout ==
  /\ pc = "event" /\ phase = "open" /\ NextEvent = "none"
  /\ EndsClient

HandleClosed ==
  /\ pc = "event" /\ NextEvent = "closed"
  /\ pc' = "send" /\ phase' = "consumed"
  /\ UNCHANGED <<flags, client, inbox, outbox, calls, told, session>>

HandleSent ==
  /\ pc = "event" /\ NextEvent = "sent"
  /\ pc' = "send" /\ sending' = "released"
  /\ UNCHANGED <<phase, flags, client, inbox, answers, own, out, calls, told, session>>

HandleEvent == HandleError \/ HandleClosed \/ HandleSent \/ HandleRequest

\* No event, or the pass is cut short before it.
PassWithout ==
  /\ pc = "event" /\ pc' = "send"
  /\ UNCHANGED <<phase, flags, client, inbox, outbox, calls, told, session>>

\* The application or the heartbeat sends a message of its own.
SendOwn ==
  /\ pc = "event" /\ phase = "open" /\ own < MaxOwn
  /\ Reply = "ok"
  /\ sending' = "busy" /\ own' = own + 1
  /\ UNCHANGED <<phase, flags, client, inbox, answers, out, pc, calls, told, session>>

\* The application closes the connection.
Close ==
  /\ MayClose /\ pc = "event" /\ phase = "open" /\ ~closing
  /\ closing' = TRUE
  /\ UNCHANGED <<phase, failed, established, client, inbox, outbox, pc, calls,
                 told, session>>

Next ==
  \/ Accept \/ PeerWrites
  \/ Control \/ Receive \/ TransportError \/ SendStep
  \/ HandleEvent \/ HandleTimeout \/ PassWithout
  \/ SendOwn \/ Close

(***************************************************************************)
(* The loop runs; max_cycles bounds the drain loop, so that whole passes,  *)
(* with their control and receive steps, recur, and an event pass is not   *)
(* cut short before this connection for ever; the peer goes on reading     *)
(* what is sent.                                                           *)
(***************************************************************************)
Fairness ==
  /\ WF_vars(SendStep) /\ WF_vars(HandleEvent \/ PassWithout)
  /\ SF_vars(Control) /\ SF_vars(Receive)
  /\ SF_vars(HandleEvent)
  /\ SF_vars(SendStep /\ sending = "busy" /\ sending' = "sent")

SafetySpec == Init /\ [][Next]_vars

Spec == SafetySpec /\ Fairness

-----------------------------------------------------------------------------
(* What the service side promises *)

Notice == [event : {"connected", "disconnected"}, service : Services]

\* Every variable keeps its type, and a request that waits is one the peer wrote.
TypeOK ==
  /\ phase \in {"idle", "open", "closed", "consumed"}
  /\ closing \in BOOLEAN /\ failed \in BOOLEAN /\ established \in BOOLEAN
  /\ client_established \in BOOLEAN /\ service \in Services \cup {NoService}
  /\ received \in BOOLEAN /\ sending \in {"free", "busy", "sent", "released"}
  /\ pc \in {"send", "event"}
  /\ requests \in Seq(Requests) /\ handed \in 0..Len(requests)
  /\ received => handed < Len(requests)
  /\ answers \in Seq(Nat) /\ own \in Nat /\ out \in Nat /\ session \in Nat
  /\ calls \subseteq [request : Nat, service : Services]
  /\ told \in Seq(Notice)

\* The session is up: nothing ends it.
Up == phase = "open" /\ ~closing /\ ~failed

\* Answers go out in the order of the requests, and no request is answered twice,
\* however often its handler is tried.
AnswersInOrder ==
  /\ \A i \in DOMAIN answers : answers[i] \in 1..handed
  /\ \A i, j \in DOMAIN answers : i < j => answers[i] < answers[j]

Answered(i) == \E a \in DOMAIN answers : answers[a] = i

\* After request h the connection is a client of s: its CONNECTCLIENT for s was
\* answered in this session, and no DISCONNECTCLIENT has come since.
ClientSince(h, s) ==
  \E j \in 1..h :
    /\ requests[j] = [kind |-> "connect", path |-> s]
    /\ Answered(j)
    /\ \A k \in (j + 1)..h : requests[k].kind # "disconnect"

\* A service object sees only requests of a client of its service: no request of
\* a session that has not connected, and none after the client has disconnected.
OnlyClientsServed == \A c \in calls : ClientSince(c.request - 1, c.service)

\* A service is told that a client is gone only as the next thing after it was told
\* that the client is there: never twice, and never of another service's client.
GoneAfterThere ==
  \A i \in DOMAIN told :
    told[i].event = "disconnected" =>
      i > 1 /\ told[i - 1] = [event |-> "connected", service |-> told[i].service]

\* A keepalive consumed while the session is up has been answered.
KeepAliveAnswered ==
  Up => \A i \in 1..handed : requests[i].kind = "keepalive" => Answered(i)

\* node.c promises to "gracefully handle returned errors and retry": a request
\* given to a service object is not consumed before the object could reply, so
\* while the session is up every consumed one has been answered.
RetryIsHandled ==
  Up => \A c \in calls : c.request <= handed => Answered(c.request)

\* A request that was received does not stay in the buffer for ever.
RequestTaken == received ~> ~received

\* A service whose client's connection fails is told so.
LossNotified ==
  \A s \in Services :
    phase = "open" /\ failed /\ ~closing /\ client_established /\ service = s
      ~> told # <<>> /\ told[Len(told)] = [event |-> "disconnected", service |-> s]

-----------------------------------------------------------------------------
(***************************************************************************)
(* The channel below, as this module uses it: the same MessageChannel that *)
(* Connection implements.                                                  *)
(***************************************************************************)
Channel ==
  INSTANCE MessageChannel WITH
    Message <- Requests,
    phase <- IF phase = "consumed" THEN "closed" ELSE phase,
    written <- requests,
    handed <- SubSeq(requests, 1, handed),
    taken <- Len(answers) + own,
    sent <- out

\* Handlers and applications use the connection as MessageChannel allows.
UsesChannel == Channel!ChannelSpec

-----------------------------------------------------------------------------
(* The inductive invariant behind the safety properties *)

\* Only an open session has a client or a request; a client is one since some
\* CONNECTCLIENT of this session.
ClientInv ==
  /\ phase # "open" => ~client_established /\ ~received
  /\ client_established => service \in Services /\ ClientSince(handed, service)
  /\ \A c \in calls : c.request \in 1..handed

\* A service pointer that is not null is the one the last notification was about.
NoticeInv ==
  service # NoService =>
    told # <<>> /\ told[Len(told)] = [event |-> "connected", service |-> service]

\* The invariant that every step preserves; it implies the safety properties.
IInv ==
  /\ TypeOK /\ ClientInv /\ NoticeInv
  /\ AnswersInOrder /\ OnlyClientsServed /\ GoneAfterThere /\ KeepAliveAnswered
=============================================================================
