------------------------- MODULE ServiceNodeProofs -------------------------
(***************************************************************************)
(* Proofs about ServiceNode, for any services, any of the request kinds    *)
(* and any bounds.                                                         *)
(***************************************************************************)
EXTENDS ServiceNode, SequenceTheorems, TLAPS

\* What becomes of a request: it stays, or it is consumed with or without an answer.
KeptRequest ==
  Reply = "retry" /\ UNCHANGED <<handed, received, sending, answers>>

UnansweredRequest == Consume /\ UNCHANGED <<sending, answers>>

AnsweredRequest ==
  /\ Consume /\ Reply = "ok"
  /\ sending' = "busy" /\ answers' = Append(answers, handed + 1)

\* What the proofs need of a handler of a request, whatever its kind.
HandlerStep ==
  /\ pc = "event" /\ pc' = "send"
  /\ phase = "open" /\ received /\ ~ErrorEvent /\ sending # "sent"
  /\ UNCHANGED <<phase, requests, own, out, session>>
  /\ KeptRequest \/ UnansweredRequest \/ AnsweredRequest

\* The first facts of every handler: it runs for the request that was received.
LEMMA HandlingFacts ==
  ASSUME NEW k, Handling(k)
  PROVE  /\ pc = "event" /\ pc' = "send" /\ phase = "open" /\ received
         /\ ~ErrorEvent /\ sending # "sent"
         /\ requests[handed + 1].kind = k
  BY DEF Handling, NextEvent, Current

\* Every handler is a handler step; only a keepalive is kept.
LEMMA HandlersAreSteps ==
  ASSUME HandleRequest
  PROVE  HandlerStep
<1> USE DEF KeptRequest, UnansweredRequest, AnsweredRequest
<1>1. CASE HandleCreate
  BY <1>1, HandlingFacts DEF HandleCreate, HandlerStep, Respond, Consume, Current
<1>2. CASE HandleConnect
  BY <1>2, HandlingFacts DEF HandleConnect, HandlerStep, Respond, Consume, Current
<1>3. CASE HandleDisconnect
  BY <1>3, HandlingFacts DEF HandleDisconnect, HandlerStep, Respond, Consume, Current
<1>4. CASE HandleTest
  BY <1>4, HandlingFacts DEF HandleTest, HandlerStep, Respond, Consume, Current
<1>5. CASE HandleGarbled
  BY <1>5, HandlingFacts DEF HandleGarbled, HandlerStep, Consume, outbox
<1>6. CASE HandleQuery
  BY <1>6, HandlingFacts DEF HandleQuery, HandlerStep, Respond, Consume, Current
<1>7. CASE HandleKeepAlive
  BY <1>7, HandlingFacts
  DEF HandleKeepAlive, HandlerStep, Respond, Consume, Current, Kept
<1>8. CASE HandleOneWay
  BY <1>8, HandlingFacts DEF HandleOneWay, HandlerStep, Consume, outbox
<1>9. CASE RefuseCall
  BY <1>9, HandlingFacts DEF RefuseCall, HandlerStep, Respond, Consume, Current
<1>10. CASE ServeCall
  BY <1>10, HandlingFacts DEF ServeCall, HandlerStep, Respond, Consume, Current
<1> QED
  BY <1>1, <1>2, <1>3, <1>4, <1>5, <1>6, <1>7, <1>8, <1>9, <1>10 DEF HandleRequest

-----------------------------------------------------------------------------
(* Types *)

\* A notification appends one notice, or none when the pointer is null.
LEMMA TellFacts ==
  ASSUME NEW e \in {"connected", "disconnected"}, NEW s \in Services \cup {NoService},
         told \in Seq(Notice), Tell(e, s)
  PROVE  told' \in Seq(Notice)
<1>1. CASE s = NoService
  BY <1>1 DEF Tell
<1>2. CASE s # NoService
  <2>1. [event |-> e, service |-> s] \in Notice
    BY <1>2 DEF Notice
  <2> QED
    BY <1>2, <2>1 DEF Tell
<1> QED
  BY <1>1, <1>2

\* The request being handled, and what its path can be.
LEMMA CurrentFacts ==
  ASSUME TypeOK, received
  PROVE  /\ handed + 1 \in 1..Len(requests) /\ handed + 1 \in Nat
         /\ requests[handed + 1] \in Requests
         /\ requests[handed + 1].path \in Services \cup {NoService}
<1>1. handed + 1 \in 1..Len(requests) /\ handed + 1 \in Nat
  BY DEF TypeOK
<1>2. requests[handed + 1] \in Requests
  BY <1>1 DEF TypeOK
<1>3. requests[handed + 1].path \in Services \cup {NoService}
  BY <1>2 DEF Requests
<1> QED
  BY <1>1, <1>2, <1>3

\* The flags, the client and the logs keep their types in every handler.
HandlerTypes ==
  /\ closing' \in BOOLEAN /\ failed' \in BOOLEAN /\ established' \in BOOLEAN
  /\ client_established' \in BOOLEAN /\ service' \in Services \cup {NoService}
  /\ calls' \subseteq [request : Nat, service : Services]
  /\ told' \in Seq(Notice)

LEMMA HandlersKeepTypes ==
  ASSUME TypeOK, HandleRequest
  PROVE  HandlerTypes
<1>0. received
  BY HandlersAreSteps DEF HandlerStep
<1> USE DEF TypeOK, HandlerTypes, client, flags
<1>1. CASE HandleCreate
  BY <1>1 DEF HandleCreate, FailedAfter
<1>2. CASE HandleConnect
  <2>1. service' \in Services \cup {NoService}
    BY <1>0, <1>2, CurrentFacts DEF HandleConnect, Current
  <2>2. told' \in Seq(Notice)
    BY <1>2, <2>1, TellFacts DEF HandleConnect
  <2>3. client_established' \in BOOLEAN /\ failed' \in BOOLEAN
    BY <1>2 DEF HandleConnect, FailedAfter
  <2> QED
    BY <1>2, <2>1, <2>2, <2>3 DEF HandleConnect
<1>3. CASE HandleDisconnect
  <2>1. told' \in Seq(Notice)
    BY <1>3, TellFacts DEF HandleDisconnect
  <2> QED
    BY <1>3, <2>1 DEF HandleDisconnect, FailedAfter, ClearsClient
<1>4. CASE HandleTest
  BY <1>4 DEF HandleTest, FailedAfter
<1>5. CASE HandleGarbled
  BY <1>5 DEF HandleGarbled
<1>6. CASE HandleQuery
  BY <1>6 DEF HandleQuery, ClosingAfter
<1>7. CASE HandleKeepAlive
  BY <1>7 DEF HandleKeepAlive, ClosingAfter
<1>8. CASE HandleOneWay
  BY <1>8 DEF HandleOneWay
<1>9. CASE RefuseCall
  BY <1>9 DEF RefuseCall, ClosingAfter
<1>10. CASE ServeCall
  <2>1. [request |-> Current, service |-> service]
          \in [request : Nat, service : Services]
    BY <1>0, <1>10, CurrentFacts DEF ServeCall, ServesClient, Current
  <2> QED
    BY <1>10, <2>1 DEF ServeCall, ClosingAfter
<1> QED
  BY <1>1, <1>2, <1>3, <1>4, <1>5, <1>6, <1>7, <1>8, <1>9, <1>10 DEF HandleRequest

\* Every step keeps the types, because an idle slot holds no request.
LEMMA TypeStep ==
  ASSUME TypeOK, ClientInv, [Next]_vars
  PROVE  TypeOK'
<1>1. CASE UNCHANGED vars
  BY <1>1 DEF TypeOK, vars, flags, client, inbox, outbox
<1>2. CASE Accept
  BY <1>2 DEF Accept, TypeOK, ClientInv, flags, client
<1>3. CASE PeerWrites
  <2>1. PICK r \in Requests : requests' = Append(requests, r)
    BY <1>3 DEF PeerWrites
  <2>2. requests' \in Seq(Requests) /\ Len(requests') = Len(requests) + 1
    BY <2>1 DEF TypeOK
  <2> QED
    BY <1>3, <2>2 DEF PeerWrites, TypeOK, flags, client, outbox
<1>4. CASE Control
  BY <1>4 DEF Control, TypeOK
<1>5. CASE Receive
  BY <1>5 DEF Receive, MoreToReceive, TypeOK, flags, client, outbox
<1>6. CASE TransportError
  BY <1>6 DEF TransportError, TypeOK, client, inbox, outbox
<1>7. CASE SendStep
  BY <1>7 DEF SendStep, SendProgress, TypeOK, flags, client, inbox
<1>8. CASE HandleError \/ HandleTimeout
  <2>1. EndsClient
    BY <1>8 DEF HandleError, HandleTimeout
  <2>2. told' \in Seq(Notice)
    BY <2>1, TellFacts DEF EndsClient, TypeOK
  <2> QED
    BY <2>1, <2>2 DEF EndsClient, ClearsClient, TypeOK, client, inbox, outbox
<1>9. CASE HandleClosed
  BY <1>9 DEF HandleClosed, TypeOK, flags, client, inbox, outbox
<1>10. CASE HandleSent
  BY <1>10 DEF HandleSent, TypeOK, flags, client, inbox
<1>11. CASE HandleRequest
  <2>1. HandlerStep /\ HandlerTypes
    BY <1>11, HandlersAreSteps, HandlersKeepTypes
  <2>2. handed + 1 \in 1..Len(requests) /\ handed + 1 \in Nat
    BY <2>1, CurrentFacts DEF HandlerStep
  <2>c. Consume => /\ handed' \in 0..Len(requests)
                   /\ received' = FALSE /\ handed' = handed + 1
    <3>1. Len(requests) \in Nat
      BY DEF TypeOK
    <3> QED
      BY <2>2, <3>1 DEF Consume
  <2>3. CASE KeptRequest
    BY <2>1, <2>3 DEF KeptRequest, HandlerStep, HandlerTypes, TypeOK
  <2>4. CASE UnansweredRequest
    BY <2>1, <2>c, <2>4 DEF UnansweredRequest, HandlerStep, HandlerTypes, TypeOK
  <2>5. CASE AnsweredRequest
    <3>1. answers' \in Seq(Nat)
      BY <2>2, <2>5 DEF AnsweredRequest, TypeOK
    <3>2. handed' \in 0..Len(requests) /\ received' = FALSE
      BY <2>c, <2>5 DEF AnsweredRequest
    <3>3. sending' = "busy"
      BY <2>5 DEF AnsweredRequest
    <3> QED
      BY <2>1, <3>1, <3>2, <3>3 DEF HandlerStep, HandlerTypes, TypeOK
  <2> QED
    BY <2>1, <2>3, <2>4, <2>5 DEF HandlerStep
<1>12. CASE PassWithout
  BY <1>12 DEF PassWithout, TypeOK, flags, client, inbox, outbox
<1>13. CASE SendOwn
  BY <1>13 DEF SendOwn, TypeOK, flags, client, inbox
<1>14. CASE Close
  BY <1>14 DEF Close, TypeOK, client, inbox, outbox
<1> QED
  BY <1>1, <1>2, <1>3, <1>4, <1>5, <1>6, <1>7, <1>8, <1>9, <1>10, <1>11, <1>12,
     <1>13, <1>14 DEF Next, HandleEvent

-----------------------------------------------------------------------------
(* What a step does to the logs and to the client *)

\* Nothing is there to begin with.
LEMMA InitIInv ==
  ASSUME ServiceAssumption, Init
  PROVE  IInv
<1>1. TypeOK
  <2>1. requests = <<>> /\ Len(requests) = 0 /\ requests \in Seq(Requests)
    BY DEF Init
  <2>2. answers \in Seq(Nat) /\ told \in Seq(Notice)
    BY DEF Init
  <2>3. calls \subseteq [request : Nat, service : Services]
    BY DEF Init
  <2>4. handed \in 0..Len(requests) /\ ~received
    BY <2>1 DEF Init
  <2>5. own \in Nat /\ out \in Nat /\ session \in Nat
    BY DEF Init
  <2>6. phase = "idle" /\ pc = "send" /\ sending = "free" /\ service = NoService
    BY DEF Init
  <2>7. /\ closing \in BOOLEAN /\ failed \in BOOLEAN /\ established \in BOOLEAN
        /\ client_established \in BOOLEAN /\ received \in BOOLEAN
    BY DEF Init
  <2> QED
    BY <2>1, <2>2, <2>3, <2>4, <2>5, <2>6, <2>7 DEF TypeOK
<1>2. ClientInv /\ NoticeInv
  BY DEF Init, ClientInv, NoticeInv
<1>3. AnswersInOrder /\ OnlyClientsServed /\ GoneAfterThere
  BY DEF Init, AnswersInOrder, OnlyClientsServed, GoneAfterThere
<1>4. KeepAliveAnswered
  BY DEF Init, KeepAliveAnswered, Up
<1> QED
  BY <1>1, <1>2, <1>3, <1>4 DEF IInv

\* The requests and the answers of the session only grow.
LogsGrow ==
  /\ Len(requests) <= Len(requests')
  /\ \A i \in 1..Len(requests) : requests'[i] = requests[i]
  /\ Len(answers) <= Len(answers')
  /\ \A a \in 1..Len(answers) : answers'[a] = answers[a]

\* An answer once given stays.
LEMMA AnsweredKept ==
  ASSUME TypeOK, TypeOK', LogsGrow, NEW i, Answered(i)
  PROVE  Answered(i)'
<1>1. PICK a \in 1..Len(answers) : answers[a] = i
  BY DEF Answered, TypeOK
<1>2. a \in 1..Len(answers') /\ answers'[a] = i
  <2>1. Len(answers) \in Nat /\ Len(answers') \in Nat
    BY SMTT(40) DEF TypeOK
  <2>2. Len(answers) <= Len(answers') /\ answers'[a] = answers[a]
    BY <1>1 DEF LogsGrow
  <2> QED
    BY <1>1, <2>1, <2>2
<1>3. a \in DOMAIN answers'
  BY <1>2, SMTT(40) DEF TypeOK
<1> QED
  BY <1>2, <1>3 DEF Answered

\* A client after h requests of a growing log stays one after the same h.
LEMMA ClientSinceKept ==
  ASSUME TypeOK, TypeOK', LogsGrow, NEW h \in Nat, h <= Len(requests), NEW s,
         ClientSince(h, s)
  PROVE  ClientSince(h, s)'
<1>1. PICK j \in 1..h :
        /\ requests[j] = [kind |-> "connect", path |-> s]
        /\ Answered(j)
        /\ \A k \in (j + 1)..h : requests[k].kind # "disconnect"
  BY DEF ClientSince
<1>2. Answered(j)'
  BY <1>1, AnsweredKept
<1>3. \A k \in 1..h : requests'[k] = requests[k]
  BY SMTT(40) DEF LogsGrow, TypeOK
<1>4. \A k \in (j + 1)..h : k \in 1..h
  OBVIOUS
<1>5. requests'[j] = [kind |-> "connect", path |-> s]
  BY <1>1, <1>3
<1>6. \A k \in (j + 1)..h : requests'[k].kind # "disconnect"
  BY <1>1, <1>3, <1>4
<1> QED
  BY <1>2, <1>5, <1>6 DEF ClientSince

\* A client stays one over a request that does not disconnect it.
LEMMA ClientSinceExtended ==
  ASSUME NEW h \in Nat, NEW s, ClientSince(h, s),
         requests[h + 1].kind # "disconnect"
  PROVE  ClientSince(h + 1, s)
<1>1. PICK j \in 1..h :
        /\ requests[j] = [kind |-> "connect", path |-> s]
        /\ Answered(j)
        /\ \A k \in (j + 1)..h : requests[k].kind # "disconnect"
  BY DEF ClientSince
<1>2. \A k \in (j + 1)..(h + 1) : k \in (j + 1)..h \/ k = h + 1
  OBVIOUS
<1>3. \A k \in (j + 1)..(h + 1) : requests[k].kind # "disconnect"
  BY <1>1, <1>2
<1>4. j \in 1..(h + 1)
  OBVIOUS
<1> QED
  BY <1>1, <1>3, <1>4 DEF ClientSince

\* A step that neither takes the slot, handles a request nor ends a client: it
\* leaves the service's view alone, and may only bring the session down.
QuietStep ==
  /\ UNCHANGED <<handed, answers, calls, told, service>>
  /\ client_established' => client_established
  /\ phase' # "open" => ~client_established' /\ ~received'
  /\ Up' => Up
  /\ LogsGrow

LEMMA QuietSteps ==
  ASSUME TypeOK, ClientInv, [Next]_vars,
         ~Accept, ~HandleRequest, ~HandleError, ~HandleTimeout
  PROVE  QuietStep
<1>0. requests' = requests /\ answers' = answers => LogsGrow
  BY DEF LogsGrow, TypeOK
<1> USE DEF ClientInv, QuietStep, Up
<1>1. CASE UNCHANGED vars
  BY <1>0, <1>1 DEF vars, flags, client, inbox, outbox
<1>2. CASE PeerWrites
  <2>1. PICK r \in Requests : requests' = Append(requests, r)
    BY <1>2 DEF PeerWrites
  <2>2. /\ Len(requests') = Len(requests) + 1
        /\ \A i \in 1..Len(requests) : requests'[i] = requests[i]
    BY <2>1 DEF TypeOK
  <2>3. LogsGrow
    BY <1>2, <2>2 DEF PeerWrites, LogsGrow, TypeOK, outbox
  <2> QED
    BY <1>2, <2>3 DEF PeerWrites, flags, client, outbox
<1>3. CASE Control
  BY <1>0, <1>3 DEF Control
<1>4. CASE Receive
  BY <1>0, <1>4 DEF Receive, flags, client, outbox
<1>5. CASE TransportError
  BY <1>0, <1>5 DEF TransportError, client, inbox, outbox
<1>6. CASE SendStep
  BY <1>0, <1>6 DEF SendStep, flags, client, inbox
<1>7. CASE HandleClosed
  BY <1>0, <1>7 DEF HandleClosed, NextEvent, flags, client, inbox, outbox
<1>8. CASE HandleSent
  BY <1>0, <1>8 DEF HandleSent, flags, client, inbox
<1>9. CASE PassWithout
  BY <1>0, <1>9 DEF PassWithout, flags, client, inbox, outbox
<1>10. CASE SendOwn
  BY <1>0, <1>10 DEF SendOwn, flags, client, inbox
<1>11. CASE Close
  BY <1>0, <1>11 DEF Close, client, inbox, outbox
<1> QED
  BY <1>1, <1>2, <1>3, <1>4, <1>5, <1>6, <1>7, <1>8, <1>9, <1>10, <1>11
  DEF Next, HandleEvent

\* The logs grow in a handler too.
LEMMA HandlersGrowLogs ==
  ASSUME TypeOK, HandlerStep
  PROVE  LogsGrow
<1>1. CASE answers' = answers
  BY <1>1 DEF HandlerStep, LogsGrow, TypeOK
<1>2. CASE answers' = Append(answers, handed + 1)
  <2>1. /\ Len(answers') = Len(answers) + 1
        /\ \A a \in 1..Len(answers) : answers'[a] = answers[a]
    BY <1>2 DEF TypeOK
  <2> QED
    BY <2>1 DEF HandlerStep, LogsGrow, TypeOK
<1> QED
  BY <1>1, <1>2
  DEF HandlerStep, KeptRequest, UnansweredRequest, AnsweredRequest

\* What a handler may do to the client: leave it, make it, or clear it.
LeavesClient ==
  /\ UNCHANGED <<client_established, service>>
  /\ handed' = handed + 1 => requests[handed + 1].kind # "disconnect"

MakesClient ==
  /\ AnsweredRequest /\ service' \in Services
  /\ requests[handed + 1] = [kind |-> "connect", path |-> service']

\* What it may do to the calls served.
ServesCurrent ==
  /\ client_established /\ handed' = handed + 1
  /\ calls' = calls \cup {[request |-> handed + 1, service |-> service]}

\* What it may do to the notifications.
TellsConnected == Tell("connected", service')

TellsDisconnected ==
  /\ service' = NoService
  /\ told' = told \/ Tell("disconnected", service)

HandlerEffects ==
  /\ LeavesClient \/ MakesClient \/ ~client_established'
  /\ calls' = calls \/ ServesCurrent
  /\ (UNCHANGED <<told, service>>) \/ TellsConnected \/ TellsDisconnected

\* Every handler has one of these effects on each of the three.
LEMMA HandlersHaveEffects ==
  ASSUME TypeOK, HandleRequest
  PROVE  HandlerEffects
<1>0. received
  BY HandlersAreSteps DEF HandlerStep
<1> USE DEF HandlerEffects, LeavesClient, client
<1>1. CASE HandleCreate
  BY <1>1, HandlingFacts DEF HandleCreate
<1>2. CASE HandleConnect
  <2>1. requests[handed + 1].kind = "connect"
    BY <1>2, HandlingFacts DEF HandleConnect
  <2>2. CASE Granted(Reply)
    <3>1. AnsweredRequest
      BY <1>2, <2>2 DEF HandleConnect, Granted, Respond, AnsweredRequest, Current
    <3>2. service' = requests[handed + 1].path /\ service' # NoService
      BY <1>2, <2>2 DEF HandleConnect, Granted, Current
    <3>3. requests[handed + 1] \in [kind : {"connect"}, path : Services \cup {NoService}]
      <4>1. requests[handed + 1] \in Requests
        BY <1>0, CurrentFacts
      <4> QED
        BY <2>1, <4>1 DEF Requests
    <3>4. requests[handed + 1] = [kind |-> "connect", path |-> service']
      BY <3>2, <3>3
    <3>5. service' \in Services
      BY <3>2, <3>3
    <3>6. MakesClient
      BY <3>1, <3>4, <3>5 DEF MakesClient
    <3>7. TellsConnected
      BY <1>2, <2>2 DEF HandleConnect, Granted, TellsConnected
    <3> QED
      BY <1>2, <3>6, <3>7 DEF HandleConnect
  <2>3. CASE ~Granted(Reply)
    <3>1. service' = service /\ client_established' = client_established
      BY <1>2, <2>3 DEF HandleConnect, TypeOK
    <3>2. told' = told \/ TellsConnected
      BY <1>2 DEF HandleConnect, TellsConnected
    <3> QED
      BY <1>2, <2>1, <3>1, <3>2 DEF HandleConnect
  <2> QED
    BY <2>2, <2>3
<1>3. CASE HandleDisconnect
  BY <1>3 DEF HandleDisconnect, ClearsClient, TellsDisconnected
<1>4. CASE HandleTest
  BY <1>4, HandlingFacts DEF HandleTest
<1>5. CASE HandleGarbled
  BY <1>5, HandlingFacts DEF HandleGarbled
<1>6. CASE HandleQuery
  BY <1>6, HandlingFacts DEF HandleQuery
<1>7. CASE HandleKeepAlive
  BY <1>7, HandlingFacts DEF HandleKeepAlive
<1>8. CASE HandleOneWay
  BY <1>8, HandlingFacts DEF HandleOneWay
<1>9. CASE RefuseCall
  BY <1>9, HandlingFacts DEF RefuseCall
<1>10. CASE ServeCall
  BY <1>10, HandlingFacts DEF ServeCall, ServesClient, ServesCurrent, Consume, Current
<1> QED
  BY <1>1, <1>2, <1>3, <1>4, <1>5, <1>6, <1>7, <1>8, <1>9, <1>10 DEF HandleRequest

-----------------------------------------------------------------------------
(* The client and its calls *)

\* Where no step takes the slot, the calls seen so far stay justified.
LEMMA CallsKept ==
  ASSUME TypeOK, TypeOK', ClientInv, OnlyClientsServed, LogsGrow,
         handed <= handed', NEW c \in calls
  PROVE  ClientSince(c.request - 1, c.service)' /\ c.request \in 1..handed'
<1>1. c.request \in 1..handed /\ handed \in Nat /\ handed <= Len(requests)
  BY DEF ClientInv, TypeOK
<1>2. PICK h \in Nat : h = c.request - 1
  BY <1>1
<1>3. h <= Len(requests)
  BY <1>1, <1>2, SMTT(40) DEF TypeOK
<1>4. PICK s : s = c.service
  OBVIOUS
<1>5. ClientSince(h, s)
  BY <1>2, <1>4 DEF OnlyClientsServed
<1>6. ClientSince(h, s)'
  BY <1>3, <1>5, ClientSinceKept
<1>7. handed' \in Nat
  BY DEF TypeOK
<1> QED
  BY <1>1, <1>2, <1>4, <1>6, <1>7

\* A step that leaves the client alone keeps it a client.
LEMMA ClientKept ==
  ASSUME TypeOK, TypeOK', ClientInv, LogsGrow, client_established,
         service' = service,
         \/ handed' = handed
         \/ /\ handed' = handed + 1 /\ handed' <= Len(requests)
            /\ requests[handed + 1].kind # "disconnect"
  PROVE  ClientSince(handed, service)' /\ service' \in Services
<1>1. handed \in Nat /\ handed <= Len(requests) /\ service \in Services
  BY DEF TypeOK, ClientInv
<1>2. PICK h \in Nat : h = handed
  BY <1>1
<1>3. PICK s : s = service
  OBVIOUS
<1>4. ClientSince(h, s)
  BY <1>2, <1>3 DEF ClientInv
<1>5. CASE handed' = handed
  <2>1. ClientSince(h, s)'
    BY <1>1, <1>2, <1>4, ClientSinceKept
  <2> QED
    BY <1>1, <1>2, <1>3, <1>5, <2>1 DEF ClientSince
<1>6. CASE /\ handed' = handed + 1 /\ handed' <= Len(requests)
           /\ requests[handed + 1].kind # "disconnect"
  <2>1. ClientSince(h + 1, s)
    BY <1>2, <1>4, <1>6, ClientSinceExtended
  <2>2. PICK n \in Nat : n = h + 1
    OBVIOUS
  <2>3. n <= Len(requests) /\ ClientSince(n, s) /\ n = handed'
    BY <1>2, <1>6, <2>1, <2>2
  <2>4. ClientSince(n, s)'
    BY <2>3, ClientSinceKept
  <2> QED
    BY <1>1, <1>3, <2>3, <2>4 DEF ClientSince
<1> QED
  BY <1>5, <1>6

\* The last request answered, a CONNECTCLIENT, makes a client.
LEMMA ClientMade ==
  ASSUME TypeOK, HandlerStep, MakesClient
  PROVE  ClientSince(handed, service)'
<1>1. handed' = handed + 1 /\ handed + 1 \in Nat \ {0} /\ requests' = requests
  BY DEF MakesClient, AnsweredRequest, Consume, HandlerStep, TypeOK
<1>2. answers' = Append(answers, handed')
  BY <1>1 DEF MakesClient, AnsweredRequest
<1>3. Answered(handed)'
  <2>1. Len(answers') \in DOMAIN answers' /\ answers'[Len(answers')] = handed'
    BY <1>2, <1>1 DEF TypeOK
  <2> QED
    BY <2>1 DEF Answered
<1>4. requests'[handed'] = [kind |-> "connect", path |-> service']
  BY <1>1 DEF MakesClient
<1>5. handed' \in 1..handed' /\ (handed' + 1)..handed' = {}
  BY <1>1
<1> QED
  BY <1>3, <1>4, <1>5 DEF ClientSince

\* What the client and the calls rest on, after the step.
ClientsRight == ClientInv /\ OnlyClientsServed

LEMMA HandlerClientStep ==
  ASSUME TypeOK, TypeOK', ClientInv, OnlyClientsServed, HandleRequest
  PROVE  ClientsRight'
<1>1. HandlerStep /\ HandlerEffects /\ LogsGrow
  BY HandlersAreSteps, HandlersHaveEffects, HandlersGrowLogs
<1>2. handed \in Nat /\ handed + 1 \in 1..Len(requests)
  BY <1>1, CurrentFacts DEF HandlerStep, TypeOK
<1>3. handed' = handed \/ handed' = handed + 1
  BY <1>1 DEF HandlerStep, KeptRequest, UnansweredRequest, AnsweredRequest, Consume
<1>4. phase' = "open"
  BY <1>1 DEF HandlerStep
<1>5. client_established' => service' \in Services /\ ClientSince(handed, service)'
  <2> SUFFICES ASSUME client_established'
               PROVE  service' \in Services /\ ClientSince(handed, service)'
    OBVIOUS
  <2>1. CASE LeavesClient
    <3>1. client_established /\ service' = service
      BY <2>1 DEF LeavesClient
    <3>2. \/ handed' = handed
          \/ /\ handed' = handed + 1 /\ handed' <= Len(requests)
             /\ requests[handed + 1].kind # "disconnect"
      BY <1>2, <1>3, <2>1 DEF LeavesClient, TypeOK
    <3> QED
      BY <1>1, <3>1, <3>2, ClientKept
  <2>2. CASE MakesClient
    BY <1>1, <2>2, ClientMade DEF MakesClient
  <2> QED
    BY <1>1, <2>1, <2>2 DEF HandlerEffects
<1>6. \A c \in calls' : ClientSince(c.request - 1, c.service)' /\ c.request \in 1..handed'
  <2> SUFFICES ASSUME NEW c \in calls'
               PROVE  ClientSince(c.request - 1, c.service)' /\ c.request \in 1..handed'
    OBVIOUS
  <2>1. CASE c \in calls
    <3>1. handed <= handed'
      BY <1>2, <1>3
    <3> QED
      BY <1>1, <2>1, <3>1, CallsKept
  <2>2. CASE ServesCurrent /\ c = [request |-> handed + 1, service |-> service]
    <3>1. PICK h \in Nat : h = handed
      BY <1>2
    <3>2. PICK s : s = service
      OBVIOUS
    <3>3. ClientSince(h, s) /\ h <= Len(requests)
      BY <1>2, <2>2, <3>1, <3>2 DEF ClientInv, ServesCurrent, TypeOK
    <3>4. ClientSince(h, s)'
      BY <1>1, <3>3, ClientSinceKept
    <3>5. c.request - 1 = h /\ c.service = s /\ c.request = handed'
      BY <1>2, <2>2, <3>1, <3>2 DEF ServesCurrent
    <3>6. c.request \in 1..handed'
      <4>1. handed' \in Nat /\ 1 <= handed'
        BY <1>2, <2>2 DEF ServesCurrent
      <4> QED
        BY <3>5, <4>1
    <3> QED
      BY <3>4, <3>5, <3>6
  <2> QED
    BY <1>1, <2>1, <2>2 DEF HandlerEffects, ServesCurrent
<1> QED
  BY <1>4, <1>5, <1>6 DEF ClientsRight, ClientInv, OnlyClientsServed

\* Every step keeps the client and the calls right.
LEMMA ClientStep ==
  ASSUME TypeOK, TypeOK', ClientInv, OnlyClientsServed, [Next]_vars
  PROVE  ClientsRight'
<1>1. CASE Accept
  BY <1>1 DEF Accept, ClientsRight, ClientInv, OnlyClientsServed, client
<1>2. CASE HandleRequest
  BY <1>2, HandlerClientStep
<1>3. CASE HandleError \/ HandleTimeout
  <2>1. EndsClient /\ phase = "open"
    BY <1>3 DEF HandleError, HandleTimeout, NextEvent
  <2>2. LogsGrow /\ handed' = handed /\ calls' = calls
    BY <2>1 DEF EndsClient, LogsGrow, TypeOK, inbox, outbox
  <2>3. phase' = "open" /\ ~client_established'
    BY <2>1 DEF EndsClient, ClearsClient, client, TypeOK
  <2>4. \A c \in calls : ClientSince(c.request - 1, c.service)' /\ c.request \in 1..handed'
    <3>1. handed <= handed'
      BY <2>2 DEF TypeOK
    <3> QED
      BY <2>2, <3>1, CallsKept
  <2> QED
    BY <2>2, <2>3, <2>4 DEF ClientsRight, ClientInv, OnlyClientsServed
<1>4. CASE ~Accept /\ ~HandleRequest /\ ~HandleError /\ ~HandleTimeout
  <2>1. QuietStep
    BY <1>4, QuietSteps
  <2>2. client_established' => service' \in Services /\ ClientSince(handed, service)'
    BY <2>1, ClientKept DEF QuietStep
  <2>3. \A c \in calls : ClientSince(c.request - 1, c.service)' /\ c.request \in 1..handed'
    <3>1. handed <= handed'
      BY <2>1 DEF QuietStep, TypeOK
    <3> QED
      BY <2>1, <3>1, CallsKept DEF QuietStep
  <2> QED
    BY <2>1, <2>2, <2>3 DEF QuietStep, ClientsRight, ClientInv, OnlyClientsServed
<1> QED
  BY <1>1, <1>2, <1>3, <1>4

-----------------------------------------------------------------------------
(* The notifications *)

NoticesRight == NoticeInv /\ GoneAfterThere

\* A service that is told of a client is the one the pointer then names.
LEMMA ConnectedKeepsNotices ==
  ASSUME TypeOK, TypeOK', NoticesRight, TellsConnected
  PROVE  NoticesRight'
<1>1. CASE service' = NoService
  BY <1>1 DEF TellsConnected, Tell, NoticesRight, NoticeInv, GoneAfterThere
<1>2. CASE service' # NoService
  <2>1. told' = Append(told, [event |-> "connected", service |-> service'])
    BY <1>2 DEF TellsConnected, Tell
  <2>2. /\ Len(told') = Len(told) + 1 /\ told' # <<>> /\ Len(told) \in Nat
        /\ told'[Len(told')] = [event |-> "connected", service |-> service']
        /\ \A i \in 1..Len(told) : told'[i] = told[i]
    <3>1. [event |-> "connected", service |-> service'] \in Notice
      BY <1>2 DEF TypeOK, Notice
    <3>2. /\ Len(told') = Len(told) + 1 /\ Len(told) \in Nat
          /\ told'[Len(told) + 1] = [event |-> "connected", service |-> service']
          /\ \A i \in 1..Len(told) : told'[i] = told[i]
      BY <2>1, <3>1, SMTT(40) DEF TypeOK
    <3>3. told' # <<>>
      BY <3>2
    <3> QED
      BY <3>2, <3>3
  <2>3. NoticeInv'
    BY <2>2 DEF NoticeInv
  <2>4. ASSUME NEW i \in DOMAIN told', told'[i].event = "disconnected"
        PROVE  i > 1 /\ told'[i - 1] = [event |-> "connected", service |-> told'[i].service]
    <3>1. i \in 1..Len(told)
      BY <2>2, <2>4, SMTT(40) DEF TypeOK
    <3>2. told'[i] = told[i] /\ i \in DOMAIN told
      BY <2>2, <3>1, SMTT(40) DEF TypeOK
    <3>3. i > 1 /\ told[i - 1] = [event |-> "connected", service |-> told[i].service]
      BY <2>4, <3>2 DEF NoticesRight, GoneAfterThere
    <3> QED
      BY <2>2, <3>1, <3>2, <3>3
  <2> QED
    BY <2>3, <2>4 DEF NoticesRight, GoneAfterThere
<1> QED
  BY <1>1, <1>2

\* A client is reported gone to the service last told of it.
LEMMA DisconnectedKeepsNotices ==
  ASSUME TypeOK, TypeOK', NoticesRight, TellsDisconnected
  PROVE  NoticesRight'
<1>1. NoticeInv'
  BY DEF TellsDisconnected, NoticeInv
<1>2. CASE told' = told
  BY <1>1, <1>2 DEF NoticesRight, GoneAfterThere
<1>3. CASE told' # told
  <2>1. /\ service # NoService
        /\ told' = Append(told, [event |-> "disconnected", service |-> service])
    BY <1>3 DEF TellsDisconnected, Tell
  <2>2. told # <<>> /\ told[Len(told)] = [event |-> "connected", service |-> service]
    BY <2>1 DEF NoticesRight, NoticeInv
  <2>3. /\ Len(told') = Len(told) + 1 /\ Len(told) \in Nat /\ Len(told) > 0
        /\ told'[Len(told) + 1] = [event |-> "disconnected", service |-> service]
        /\ \A i \in 1..Len(told) : told'[i] = told[i]
    BY <2>1, <2>2, SMTT(40) DEF TypeOK
  <2>4. ASSUME NEW i \in DOMAIN told', told'[i].event = "disconnected"
        PROVE  i > 1 /\ told'[i - 1] = [event |-> "connected", service |-> told'[i].service]
    <3>1. CASE i = Len(told) + 1
      <4>1. i - 1 = Len(told) /\ i - 1 \in 1..Len(told) /\ i > 1
        BY <2>3, <3>1
      <4> QED
        BY <2>2, <2>3, <3>1, <4>1
    <3>2. CASE i # Len(told) + 1
      <4>1. i \in 1..Len(told)
        BY <2>3, <3>2, SMTT(40) DEF TypeOK
      <4>2. told'[i] = told[i] /\ i \in DOMAIN told
        BY <2>3, <4>1, SMTT(40) DEF TypeOK
      <4>3. i > 1 /\ told[i - 1] = [event |-> "connected", service |-> told[i].service]
        BY <2>4, <4>2 DEF NoticesRight, GoneAfterThere
      <4> QED
        BY <2>3, <4>1, <4>2, <4>3
    <3> QED
      BY <3>1, <3>2
  <2> QED
    BY <1>1, <2>4 DEF NoticesRight, GoneAfterThere
<1> QED
  BY <1>2, <1>3

\* Every step keeps the notifications right.
LEMMA NoticeStep ==
  ASSUME TypeOK, TypeOK', ClientInv, NoticesRight, [Next]_vars
  PROVE  NoticesRight'
<1>0. UNCHANGED <<told, service>> => NoticesRight'
  BY DEF NoticesRight, NoticeInv, GoneAfterThere
<1>1. CASE Accept
  BY <1>0, <1>1 DEF Accept, client
<1>2. CASE HandleRequest
  BY <1>0, <1>2, HandlersHaveEffects, ConnectedKeepsNotices, DisconnectedKeepsNotices
  DEF HandlerEffects
<1>3. CASE HandleError \/ HandleTimeout
  <2>1. EndsClient
    BY <1>3 DEF HandleError, HandleTimeout
  <2>2. UNCHANGED <<told, service>> \/ TellsDisconnected
    BY <2>1 DEF EndsClient, ClearsClient, TellsDisconnected, client
  <2> QED
    BY <1>0, <2>2, DisconnectedKeepsNotices
<1>4. CASE ~Accept /\ ~HandleRequest /\ ~HandleError /\ ~HandleTimeout
  BY <1>0, <1>4, QuietSteps DEF QuietStep
<1> QED
  BY <1>1, <1>2, <1>3, <1>4

-----------------------------------------------------------------------------
(* The answers *)

\* Every step keeps the answers in order.
LEMMA AnswersStep ==
  ASSUME TypeOK, TypeOK', ClientInv, AnswersInOrder, [Next]_vars
  PROVE  AnswersInOrder'
<1>1. CASE Accept
  BY <1>1 DEF Accept, AnswersInOrder
<1>2. CASE HandleRequest
  <2>1. HandlerStep /\ handed \in Nat
    BY <1>2, HandlersAreSteps DEF TypeOK
  <2>2. CASE KeptRequest
    BY <2>2 DEF KeptRequest, AnswersInOrder
  <2>3. CASE UnansweredRequest
    <3>1. handed' = handed + 1 /\ answers' = answers
      BY <2>3 DEF UnansweredRequest, Consume
    <3> QED
      BY <2>1, <3>1 DEF AnswersInOrder
  <2>4. CASE AnsweredRequest
    <3>1. handed' = handed + 1 /\ answers' = Append(answers, handed + 1)
      BY <2>4 DEF AnsweredRequest, Consume
    <3>2. /\ Len(answers) \in Nat /\ Len(answers') = Len(answers) + 1
          /\ answers'[Len(answers) + 1] = handed + 1
          /\ \A a \in 1..Len(answers) : answers'[a] = answers[a]
          /\ DOMAIN answers = 1..Len(answers)
          /\ DOMAIN answers' = 1..(Len(answers) + 1)
      BY <2>1, <3>1 DEF TypeOK
    <3>3. \A a \in 1..Len(answers) : answers[a] \in 1..handed
      BY <3>2 DEF AnswersInOrder
    <3>4. ASSUME NEW i \in DOMAIN answers'
          PROVE  answers'[i] \in 1..handed'
      <4>1. i \in 1..Len(answers) \/ i = Len(answers) + 1
        BY <3>2, <3>4
      <4> QED
        BY <2>1, <3>1, <3>2, <3>3, <4>1
    <3>5. ASSUME NEW i \in DOMAIN answers', NEW j \in DOMAIN answers', i < j
          PROVE  answers'[i] < answers'[j]
      <4>1. i \in 1..Len(answers)
        BY <3>2, <3>5
      <4>2. CASE j \in 1..Len(answers)
        BY <3>2, <3>5, <4>1, <4>2 DEF AnswersInOrder
      <4>3. CASE j = Len(answers) + 1
        <5>1. answers'[j] = handed + 1 /\ answers'[i] \in 1..handed
          BY <3>2, <3>3, <4>1, <4>3
        <5> QED
          BY <2>1, <5>1
      <4> QED
        BY <3>2, <4>2, <4>3
    <3> QED
      BY <3>4, <3>5 DEF AnswersInOrder
  <2> QED
    BY <2>1, <2>2, <2>3, <2>4 DEF HandlerStep
<1>3. CASE HandleError \/ HandleTimeout
  BY <1>3
  DEF HandleError, HandleTimeout, EndsClient, AnswersInOrder, inbox, outbox
<1>4. CASE ~Accept /\ ~HandleRequest /\ ~HandleError /\ ~HandleTimeout
  BY <1>4, QuietSteps DEF QuietStep, AnswersInOrder
<1> QED
  BY <1>1, <1>2, <1>3, <1>4

\* A handler that leaves the session up found it up.
LEMMA HandlerEndsUp ==
  ASSUME TypeOK, HandleRequest, Up'
  PROVE  Up
<1>1. phase' = "open" /\ phase = "open" /\ closing' = FALSE /\ failed' = FALSE
  BY HandlersAreSteps DEF Up, HandlerStep
<1>2. closing' = closing \/ closing' = (closing \/ Reply = "invalid") \/ closing' = TRUE
  BY DEF HandleRequest, HandleCreate, HandleConnect, HandleDisconnect, HandleTest,
         HandleGarbled, HandleQuery, HandleKeepAlive, HandleOneWay, RefuseCall,
         ServeCall, ClosingAfter, flags
<1>3. failed' = failed \/ failed' = (failed \/ Reply = "invalid") \/ failed' = TRUE
  BY DEF HandleRequest, HandleCreate, HandleConnect, HandleDisconnect, HandleTest,
         HandleGarbled, HandleQuery, HandleKeepAlive, HandleOneWay, RefuseCall,
         ServeCall, FailedAfter, flags
<1> QED
  BY <1>1, <1>2, <1>3 DEF Up, TypeOK

\* It has answered the keepalive it consumed.
LEMMA HandlerAnswersKeepAlive ==
  ASSUME TypeOK, HandleRequest, Up'
  PROVE  \/ handed' = handed \/ requests[handed + 1].kind # "keepalive"
         \/ AnsweredRequest
<1>1. CASE HandleKeepAlive
  <2>1. Reply = "retry" \/ Reply = "ok"
    BY HandlerEndsUp DEF Reply, Up
  <2>2. CASE Reply = "retry"
    BY <1>1, <2>2 DEF HandleKeepAlive, Kept
  <2>3. CASE Reply = "ok"
    BY <1>1, <2>3 DEF HandleKeepAlive, Kept, Respond, AnsweredRequest, Current
  <2> QED
    BY <2>1, <2>2, <2>3
<1>2. CASE ~HandleKeepAlive
  <2>1. PICK k \in {"create", "connect", "disconnect", "test", "garbled", "query",
                    "oneway", "badcall", "call"} : Handling(k)
    BY <1>2 DEF HandleRequest, HandleCreate, HandleConnect, HandleDisconnect,
       HandleTest, HandleGarbled, HandleQuery, HandleOneWay, RefuseCall, ServeCall
  <2> QED
    BY <2>1, HandlingFacts
<1> QED
  BY <1>1, <1>2

\* Every step keeps the keepalives answered.
LEMMA KeepAliveStep ==
  ASSUME TypeOK, TypeOK', ClientInv, KeepAliveAnswered, [Next]_vars
  PROVE  KeepAliveAnswered'
<1>0. handed \in Nat /\ handed <= Len(requests)
  BY DEF TypeOK
<1>1. CASE Accept
  BY <1>1 DEF Accept, KeepAliveAnswered
<1>2. CASE Up' /\ HandleRequest
  <2>1. HandlerStep /\ LogsGrow
    BY <1>2, HandlersAreSteps, HandlersGrowLogs
  <2>2. /\ Up
        /\ \/ handed' = handed \/ requests[handed + 1].kind # "keepalive"
           \/ AnsweredRequest
    BY <1>2, HandlerAnswersKeepAlive, HandlerEndsUp
  <2>3. handed' = handed \/ handed' = handed + 1
    BY <2>1 DEF HandlerStep, KeptRequest, UnansweredRequest, AnsweredRequest, Consume
  <2>4. ASSUME NEW i \in 1..handed', requests'[i].kind = "keepalive"
        PROVE  Answered(i)'
    <3>1. requests' = requests
      BY <2>1 DEF HandlerStep
    <3>2. CASE i \in 1..handed
      BY <2>1, <2>2, <2>4, <3>1, <3>2, AnsweredKept DEF KeepAliveAnswered
    <3>3. CASE i = handed + 1 /\ AnsweredRequest
      <4>1. answers' = Append(answers, i)
        BY <3>3 DEF AnsweredRequest
      <4>2. Len(answers') \in DOMAIN answers' /\ answers'[Len(answers')] = i
        BY <1>0, <3>3, <4>1, SMTT(40) DEF TypeOK
      <4> QED
        BY <4>2 DEF Answered
    <3> QED
      BY <1>0, <2>2, <2>3, <2>4, <3>1, <3>2, <3>3
  <2> QED
    BY <2>4 DEF KeepAliveAnswered
<1>3. CASE HandleError \/ HandleTimeout
  BY <1>3 DEF HandleError, HandleTimeout, EndsClient, KeepAliveAnswered, Up
<1>4. CASE Up' /\ ~Accept /\ ~HandleRequest /\ ~HandleError /\ ~HandleTimeout
  <2>1. QuietStep /\ Up
    BY <1>4, QuietSteps DEF QuietStep
  <2>2. ASSUME NEW i \in 1..handed', requests'[i].kind = "keepalive"
        PROVE  Answered(i)'
    <3>1. i \in 1..handed /\ requests'[i] = requests[i]
      BY <1>0, <2>1 DEF QuietStep, LogsGrow, TypeOK
    <3> QED
      BY <2>1, <2>2, <3>1, AnsweredKept DEF KeepAliveAnswered, QuietStep
  <2> QED
    BY <2>2 DEF KeepAliveAnswered
<1>5. CASE ~Up'
  BY <1>5 DEF KeepAliveAnswered
<1> QED
  BY <1>1, <1>2, <1>3, <1>4, <1>5

-----------------------------------------------------------------------------
(* The theorems *)

\* The inductive step, from the steps of its parts.
LEMMA StepIInv ==
  ASSUME IInv, [Next]_vars
  PROVE  IInv'
<1>1. TypeOK'
  BY TypeStep DEF IInv
<1>2. ClientInv' /\ OnlyClientsServed'
  BY <1>1, ClientStep DEF IInv, ClientsRight
<1>3. NoticeInv' /\ GoneAfterThere'
  BY <1>1, NoticeStep DEF IInv, NoticesRight
<1>4. AnswersInOrder' /\ KeepAliveAnswered'
  BY <1>1, AnswersStep, KeepAliveStep DEF IInv
<1> QED
  BY <1>1, <1>2, <1>3, <1>4 DEF IInv

\* IInv is inductive: it holds of every state the service side reaches.
THEOREM Invariance == SafetySpec => []IInv
<1>1. Init => IInv
  BY InitIInv, ServiceAssumption
<1>2. IInv /\ [Next]_vars => IInv'
  BY StepIInv
<1> QED
  BY <1>1, <1>2, PTL DEF SafetySpec

\* node.c: every variable of the service side keeps its type, and the request that
\* a handler is given is one the peer wrote.
THEOREM TypeCorrect == SafetySpec => []TypeOK
<1>1. IInv => TypeOK
  BY DEF IInv
<1> QED
  BY <1>1, Invariance, PTL

\* node.c, begin_send_messageentry and the handlers: however often a handler is
\* tried, its request is answered at most once, and answers keep the requests' order.
THEOREM AnswersStayInOrder == SafetySpec => []AnswersInOrder
<1>1. IInv => AnswersInOrder
  BY DEF IInv
<1> QED
  BY <1>1, Invariance, PTL

\* node.c, run_next_event__service: over any number of sessions of a slot, whose
\* service pointer outlives each of them, a service object is given only the
\* requests of a connection that is its service's client at that request.
THEOREM ServesOnlyClients == SafetySpec => []OnlyClientsServed
<1>1. IInv => OnlyClientsServed
  BY DEF IInv
<1> QED
  BY <1>1, Invariance, PTL

\* node.c, special_request and service_connection_error: a service is told that a
\* client is gone once, directly after it was last told that the client is there.
THEOREM GoneOnlyAfterThere == SafetySpec => []GoneAfterThere
<1>1. IInv => GoneAfterThere
  BY DEF IInv
<1> QED
  BY <1>1, Invariance, PTL

\* node.c, the keepalive branch of run_next_event__service: a keepalive is consumed
\* only with its answer, unless the session is ending.
THEOREM KeepAlivesAreAnswered == SafetySpec => []KeepAliveAnswered
<1>1. IInv => KeepAliveAnswered
  BY DEF IInv
<1> QED
  BY <1>1, Invariance, PTL

-----------------------------------------------------------------------------
(* The service side uses its connection as MessageChannel allows *)

Taken == Len(answers) + own

\* All that was queued is out, but for the message in the send buffer, which is free
\* between sessions.
BufferExact ==
  /\ phase # "open" => sending = "free"
  /\ phase = "open" => out = IF sending = "busy" THEN Taken - 1 ELSE Taken
  /\ sending = "busy" => Taken > 0

\* What a handler does to the buffers, as the channel sees it.
LEMMA HandlerMoves ==
  ASSUME IInv, BufferExact, HandleRequest
  PROVE  /\ phase = "open" /\ phase' = "open" /\ handed < Len(requests)
         /\ UNCHANGED <<requests, own, out>>
         /\ \/ UNCHANGED <<handed, sending, answers>>
            \/ handed' = handed + 1 /\ UNCHANGED <<sending, answers>>
            \/ /\ handed' = handed + 1 /\ sending' = "busy" /\ out = Taken
               /\ Taken' = Taken + 1
<1>1. HandlerStep /\ TypeOK
  BY HandlersAreSteps DEF IInv
<1>2. CASE AnsweredRequest
  <2>1. sending = "free" /\ answers' = Append(answers, handed + 1) /\ own' = own
    BY <1>1, <1>2 DEF AnsweredRequest, Reply, HandlerStep
  <2>2. Len(answers') = Len(answers) + 1 /\ Len(answers) \in Nat
    BY <1>1, <2>1 DEF TypeOK
  <2> QED
    BY <1>1, <1>2, <2>1, <2>2
    DEF AnsweredRequest, HandlerStep, Consume, BufferExact, Taken, TypeOK
<1>3. CASE ~AnsweredRequest
  BY <1>1, <1>3 DEF HandlerStep, KeptRequest, UnansweredRequest, Consume, TypeOK
<1> QED
  BY <1>2, <1>3

LEMMA BufferStep == IInv /\ BufferExact /\ [Next]_vars => BufferExact'
<1> SUFFICES ASSUME IInv, BufferExact, [Next]_vars PROVE BufferExact'
  OBVIOUS
<1>0. TypeOK /\ Len(answers) \in Nat /\ own \in Nat /\ out \in Nat /\ Taken \in Nat
  BY DEF IInv, TypeOK, Taken
<1>1. CASE Accept
  BY <1>1 DEF Accept, BufferExact, Taken
<1>2. CASE SendStep
  <2>1. Taken' = Taken /\ phase' = phase
    BY <1>2 DEF SendStep, Taken
  <2>2. CASE sending = "busy" /\ sending' = "sent"
    BY <1>0, <1>2, <2>1, <2>2 DEF SendStep, BufferExact
  <2>3. CASE ~(sending = "busy" /\ sending' = "sent")
    BY <1>0, <1>2, <2>1, <2>3 DEF SendStep, SendProgress, BufferExact
  <2> QED
    BY <2>2, <2>3
<1>3. CASE HandleRequest
  BY <1>0, <1>3, HandlerMoves DEF BufferExact, Taken
<1>4. CASE SendOwn
  <2>1. sending = "free" /\ Taken' = Taken + 1 /\ sending' = "busy"
    BY <1>0, <1>4 DEF SendOwn, Reply, Taken
  <2> QED
    BY <1>0, <1>4, <2>1 DEF SendOwn, BufferExact
<1>5. CASE PeerWrites \/ Receive \/ TransportError \/ HandleError \/ HandleTimeout
           \/ PassWithout \/ Close \/ UNCHANGED vars
  BY <1>5 DEF PeerWrites, Receive, TransportError, HandleError, HandleTimeout,
              EndsClient, PassWithout, Close, vars, outbox, BufferExact, Taken
<1>6. CASE Control
  BY <1>6 DEF Control, BufferExact
<1>7. CASE HandleClosed
  BY <1>7 DEF HandleClosed, NextEvent, outbox, BufferExact
<1>8. CASE HandleSent
  BY <1>8 DEF HandleSent, NextEvent, ErrorEvent, BufferExact, Taken
<1> QED
  BY <1>1, <1>2, <1>3, <1>4, <1>5, <1>6, <1>7, <1>8 DEF Next, HandleEvent

\* The requests that have been consumed are the first that the peer has written.
LEMMA HandedFacts ==
  ASSUME NEW s \in Seq(Requests), NEW n \in 0..Len(s)
  PROVE  SubSeq(s, 1, n) = [i \in 1..n |-> s[i]] /\ Len(SubSeq(s, 1, n)) = n
<1>1. \A i \in 1..n : s[i] \in Requests
  OBVIOUS
<1>2. /\ SubSeq(s, 1, n) \in Seq(Requests)
      /\ Len(SubSeq(s, 1, n)) = IF 1 <= n THEN n - 1 + 1 ELSE 0
      /\ \A i \in 1..(n - 1 + 1) : SubSeq(s, 1, n)[i] = s[1 + i - 1]
  BY <1>1, SubSeqProperties
<1> QED
  BY <1>2

LEMMA WriteStep ==
  ASSUME TypeOK, PeerWrites
  PROVE  Channel!Write
<1>1. PICK r \in Requests : requests' = Append(requests, r)
  BY DEF PeerWrites
<1>2. /\ requests \in Seq(Requests) /\ requests' \in Seq(Requests)
      /\ handed \in 0..Len(requests) /\ handed' = handed
      /\ answers' = answers /\ own' = own /\ out' = out
      /\ phase = "open" /\ phase' = phase
  BY <1>1 DEF TypeOK, PeerWrites, outbox
<1>3. /\ Len(requests') = Len(requests) + 1 /\ requests'[Len(requests) + 1] = r
      /\ \A i \in 1..Len(requests) : requests'[i] = requests[i]
      /\ handed \in 0..Len(requests')
  BY <1>1, <1>2
<1>4. SubSeq(requests', 1, handed) = SubSeq(requests, 1, handed)
  BY <1>2, <1>3, HandedFacts
<1> QED
  BY <1>1, <1>2, <1>3, <1>4 DEF Channel!Write

LEMMA HandlerChannelStep ==
  ASSUME IInv, BufferExact, HandleRequest
  PROVE  [Channel!ChannelNext]_Channel!channel
<1>1. /\ requests \in Seq(Requests) /\ handed \in 0..Len(requests)
      /\ handed < Len(requests) /\ phase = "open" /\ phase' = "open"
      /\ UNCHANGED <<requests, own, out>> /\ handed + 1 \in 0..Len(requests)
  BY HandlerMoves DEF IInv, TypeOK
<1> DEFINE before == SubSeq(requests, 1, handed)
           after == SubSeq(requests, 1, handed + 1)
<1>2. /\ before = [i \in 1..handed |-> requests[i]] /\ Len(before) = handed
      /\ after = [i \in 1..(handed + 1) |-> requests[i]]
  BY <1>1, HandedFacts
<1>3. after = Append(before, requests[Len(before) + 1])
  BY <1>1, <1>2
<1>4. CASE UNCHANGED <<handed, sending, answers>>
  BY <1>1, <1>4 DEF Channel!channel
<1>5. CASE handed' = handed + 1
  <2>1. SubSeq(requests, 1, handed)' = after
    BY <1>1, <1>5
  <2>2. CASE UNCHANGED answers
    BY <1>1, <1>2, <1>3, <2>1, <2>2 DEF Channel!Hand, Channel!ChannelNext
  <2>3. CASE out = Taken /\ Taken' = Taken + 1
    BY <1>1, <1>2, <1>3, <2>1, <2>3 DEF Channel!HandAndTake, Channel!ChannelNext, Taken
  <2> QED
    BY <1>1, <1>5, <2>2, <2>3, HandlerMoves DEF TypeOK
<1> QED
  BY <1>4, <1>5, HandlerMoves

LEMMA ChannelStep ==
  ASSUME IInv, BufferExact, [Next]_vars
  PROVE  [Channel!ChannelNext]_Channel!channel
<1>0. TypeOK /\ Len(answers) \in Nat /\ own \in Nat /\ out \in Nat /\ Taken \in Nat
  BY DEF IInv, TypeOK, Taken
<1> USE DEF Channel!ChannelNext
<1>1. CASE Accept
  <2>1. requests' = <<>> /\ handed' = 0 /\ SubSeq(<<>>, 1, 0) = <<>>
    BY <1>1, SubSeqEmpty DEF Accept
  <2>2. SubSeq(requests, 1, handed)' = <<>> /\ (Len(answers) + own)' = 0
    BY <1>1, <2>1 DEF Accept
  <2> QED
    BY <1>1, <2>1, <2>2 DEF Accept, Channel!Open
<1>2. CASE SendStep
  <2>1. CASE sending = "busy" /\ sending' = "sent"
    <3>1. phase = "open" /\ out < Taken
      BY <1>0, <2>1 DEF BufferExact
    <3> QED
      BY <1>2, <2>1, <3>1 DEF SendStep, inbox, Taken, Channel!Out
  <2>2. CASE ~(sending = "busy" /\ sending' = "sent")
    BY <1>2, <2>2 DEF SendStep, inbox, Channel!channel
  <2> QED
    BY <2>1, <2>2
<1>3. CASE HandleRequest
  BY <1>3, HandlerChannelStep
<1>4. CASE SendOwn
  <2>1. out = Taken /\ (Len(answers) + own)' = Len(answers) + own + 1
    BY <1>0, <1>4 DEF SendOwn, Reply, BufferExact
  <2> QED
    BY <1>4, <2>1 DEF SendOwn, inbox, Taken, Channel!Take
<1>5. CASE Receive \/ TransportError \/ HandleError \/ HandleTimeout \/ HandleSent
           \/ PassWithout \/ Close \/ UNCHANGED vars
  BY <1>5 DEF Receive, TransportError, HandleError, HandleTimeout, EndsClient, HandleSent,
              PassWithout, Close, vars, inbox, outbox, Channel!channel
<1>6. CASE Control
  BY <1>6 DEF Control, Channel!Shut, Channel!Release
<1>7. CASE HandleClosed
  BY <1>7 DEF HandleClosed, NextEvent, inbox, outbox, Channel!channel
<1>8. CASE PeerWrites
  BY <1>0, <1>8, WriteStep
<1> QED
  BY <1>1, <1>2, <1>3, <1>4, <1>5, <1>6, <1>7, <1>8 DEF Next, HandleEvent

\* node.c: the handlers and the application use the connection (begin_send_messageentry,
\* connection_message_receive_consume) only as the slot below them promises to carry.
THEOREM UsesItsChannel == SafetySpec => UsesChannel
<1>1. Init => BufferExact /\ Channel!ChannelInit
  BY SubSeqEmpty DEF Init, BufferExact, Taken, Channel!ChannelInit
<1>2. IInv /\ BufferExact /\ [Next]_vars => [Channel!ChannelNext]_Channel!channel
  BY ChannelStep
<1> QED
  BY <1>1, <1>2, BufferStep, Invariance, PTL
  DEF SafetySpec, UsesChannel, Channel!ChannelSpec
=============================================================================
