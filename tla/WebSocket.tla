----------------------------- MODULE WebSocket ------------------------------
(***************************************************************************)
(* A client and a server of Robot Raconteur Lite that speak over a         *)
(* WebSocket (tcp_transport.c): the HTTP texts that open the connection,   *)
(* and then one frame for every message, masked by the client, taken apart *)
(* again by the receiver under the same two steps that receive from a raw  *)
(* socket (connection.c).                                                  *)
(*                                                                         *)
(* A byte is a record: which text, header or message it is a part of,      *)
(* where it stands there, and the mask it is under (<<>> for none).  The   *)
(* other side and the network move between any two system calls, so that a *)
(* read returns any part of what was sent and a write takes any part of    *)
(* what is offered.  A call that reads a header and then data is two steps *)
(* in a row here, and a loop of reads is one step for each.                *)
(*                                                                         *)
(* The application asks and answers: the client sends whenever its buffer  *)
(* is free, and the server sends one message for each that it has          *)
(* received.  The end of the connection is Connection's.                   *)
(*                                                                         *)
(* Two things that the code does to itself end what is followed here: the  *)
(* send step of the drain puts a frame around the rest of an HTTP text,    *)
(* and a text that is longer than the buffer is written past its end.  A   *)
(* third is followed: a read that goes on into the frame behind.           *)
(*                                                                         *)
(* A definition named X_Y is a slip: X as it might be written wrongly.     *)
(***************************************************************************)
EXTENDS Naturals, Sequences

CONSTANTS
  MagicLen,     \* bytes read to tell a raw peer from a browser (4)
  TextLens,     \* what the HTTP texts of the two sides may be long
  PreambleLen,  \* bytes of a message that tell its length (12)
  FirstRead,    \* bytes asked for while the length is unknown (64)
  ShortMax,     \* longest frame with a length of one byte (125)
  FrameMax,     \* longest frame there is (65535)
  MaskLen,      \* bytes of a mask (4)
  BufLen,       \* recv_buffer_len
  Sizes,        \* lengths of messages
  MaxMessages   \* bound: messages of each side

Sides == {"client", "server"}

ASSUME WebSocketAssumption ==
  /\ TextLens \subseteq [Sides -> Nat]
  /\ {MagicLen, PreambleLen, FirstRead, ShortMax, FrameMax, MaskLen} \subseteq Nat \ {0}
  /\ \A lens \in TextLens, s \in Sides : MagicLen < lens[s]
  /\ PreambleLen <= FirstRead /\ ShortMax < FrameMax
  \* construct_from_array asserts buffer_size > 1024.
  /\ BufLen \in Nat /\ 2 * MagicLen <= BufLen /\ PreambleLen + FirstRead <= BufLen
  /\ Sizes \subseteq PreambleLen..FrameMax /\ MaxMessages \in Nat

VARIABLES
  conn,  \* of connection_state: CONNECTING, CONNECTED or ERROR, and the flags of both directions
  send,  \* send_buffer, what is sent of it, and the frame under way
  recv,  \* recv_buffer, recv_message_len, and the frame under way
  wire,  \* bytes each side has sent and the other has not read
  sent,  \* history: of the messages of each side, the length, where in the side's stream the
         \* frame ends, and whether the other side had taken all those before it
  got,   \* messages each side has taken
  lens,  \* the lengths of the texts
  cut    \* "framed" or "overrun" once the session is no longer followed, or "no"

flow == <<conn, send, recv, wire, sent, got>>
vars == <<flow, lens, cut>>

Other(s) == IF s = "client" THEN "server" ELSE "client"
LeastOf(a, b) == IF a <= b THEN a ELSE b
Rest(stream, n) == SubSeq(stream, n + 1, Len(stream))

Text(s) == [i \in 1..lens[s] |-> [text |-> s, at |-> i, mask |-> <<>>]]
Message(n, len) == [i \in 1..len |-> [data |-> n, at |-> i, mask |-> <<>>]]

NoSend == [buffer |-> <<>>, pos |-> 0, frame_len |-> 0, frame_pos |-> 0,
           frame_end |-> 0, header |-> <<>>, header_pos |-> 0, mask |-> <<>>]
NoRecv == [buffer |-> <<>>, message_len |-> 0, in_frame |-> FALSE, frame_len |-> 0,
           frame_pos |-> 0, header |-> <<>>, mask |-> <<>>]

\* The client has just called connect, with its request in the send buffer; the server has
\* just accepted, and does not know yet whether its peer is a browser.
Init ==
  /\ lens \in TextLens
  /\ conn = [s \in Sides |-> [state |-> "connecting", websocket |-> s = "client",
                              receiving |-> "no", sending |-> "free"]]
  /\ send = [s \in Sides |-> IF s = "client" THEN [NoSend EXCEPT !.buffer = Text(s)] ELSE NoSend]
  /\ recv = [s \in Sides |-> NoRecv]
  /\ wire = [s \in Sides |-> <<>>]
  /\ sent = [s \in Sides |-> <<>>] /\ got = [s \in Sides |-> <<>>]
  /\ cut = "no"

\* n bytes leave the other side's stream, or bytes join this one's.
Moved(s, n, bytes) == wire' = [wire EXCEPT ![Other(s)] = Rest(@, n), ![s] = @ \o bytes]
Takes(s, n) == Moved(s, n, <<>>)

Becomes(s, state) == conn' = [conn EXCEPT ![s].state = state]

-----------------------------------------------------------------------------
(* The HTTP texts: tcp_connection_handshake *)

Connecting(s) == conn[s].state = "connecting"

\* We are connected using websockets.
Opened(c) ==
  [c EXCEPT !.state = "open", !.websocket = TRUE, !.receiving = "requested",
            !.sending = IF @ = "sending" THEN "free" ELSE @]

\* After the bytes before pos, k more bytes of the text are sent; the server is connected
\* after the last.
PutsText(s, text, pos, k) ==
  IF s = "server" /\ pos + k = Len(text)
  THEN /\ send' = [send EXCEPT ![s].buffer = <<>>, ![s].pos = 0]
       /\ conn' = [conn EXCEPT ![s] = Opened(@)]
  ELSE /\ send' = [send EXCEPT ![s].buffer = text, ![s].pos = pos + k]
       /\ conn' = [conn EXCEPT ![s].sending =
                     IF pos + k = Len(text) THEN "free" ELSE "sending"]

SendText(s) ==
  LET text == send[s].buffer
      left == Len(text) - send[s].pos IN
  /\ Connecting(s) /\ text # <<>>
  /\ s = "client" => left > 0
  /\ \E k \in 0..left :
       /\ PutsText(s, text, send[s].pos, k)
       /\ Moved(s, 0, SubSeq(text, send[s].pos + 1, send[s].pos + k))
  /\ UNCHANGED <<recv, sent, got>>

\* The server looks for RRAC or GET.
ReadOpening ==
  /\ Connecting("server") /\ send["server"].buffer = <<>>
  /\ Len(recv["server"].buffer) < MagicLen
  /\ \E n \in 1..LeastOf(MagicLen, Len(wire["client"])) :
     \E buffer \in {recv["server"].buffer \o SubSeq(wire["client"], 1, n)} :
       /\ recv' = [recv EXCEPT !["server"].buffer = buffer]
       /\ conn' = [conn EXCEPT !["server"].websocket =
                     /\ Len(buffer) >= MagicLen
                     /\ \A i \in 1..MagicLen : buffer[i] = Text("client")[i]]
       /\ Takes("server", n)
  /\ UNCHANGED <<send, sent, got>>

ReadsText(s) ==
  /\ Connecting(s)
  /\ IF s = "client" THEN send[s].pos = Len(send[s].buffer)
     ELSE conn[s].websocket /\ send[s].buffer = <<>> /\ Len(recv[s].buffer) >= MagicLen

\* The two ends of line that end a text are looked for after each read.
EndsText(s, buffer) ==
  LET last == Text(Other(s))[lens[Other(s)]] IN buffer # <<>> /\ buffer[Len(buffer)] = last

\* http_recv_header asks for as many bytes as it has already, and one more.
TextAsked(s) == LeastOf(Len(recv[s].buffer) + 1, Len(wire[Other(s)]))
TextRoom(s) == BufLen - Len(recv[s].buffer)

ReadText(s) ==
  \E n \in 1..LeastOf(TextAsked(s), TextRoom(s)) :
    LET buffer == recv[s].buffer \o SubSeq(wire[Other(s)], 1, n) IN
    /\ ReadsText(s) /\ ~EndsText(s, buffer)
    /\ recv' = [recv EXCEPT ![s].buffer = buffer]
    /\ Takes(s, n)
    /\ UNCHANGED <<conn, send, sent, got>>

\* A full buffer without the end of the text in it ends the attempt.
TextTooLong(s) ==
  /\ ReadsText(s) /\ TextRoom(s) = 0
  /\ Becomes(s, "failed")
  /\ UNCHANGED <<send, recv, wire, sent, got>>

\* Whether there is room for what is asked for is not looked at.
TextOverruns(s) ==
  /\ ReadsText(s) /\ TextRoom(s) > 0 /\ TextAsked(s) > TextRoom(s)
  /\ cut' = "overrun" /\ UNCHANGED flow

LastRead(s, n) ==
  ReadsText(s) /\ recv[s].buffer \o SubSeq(wire[Other(s)], 1, n) = Text(Other(s))

\* The server answers in the same call.
ReadRequest ==
  \E n \in 1..LeastOf(TextAsked("server"), TextRoom("server")) :
  \E k \in 0..lens["server"] :
    /\ LastRead("server", n)
    /\ Moved("server", n, SubSeq(Text("server"), 1, k))
    /\ recv' = [recv EXCEPT !["server"].buffer = <<>>]
    /\ PutsText("server", Text("server"), 0, k)
    /\ UNCHANGED <<sent, got>>

ReadAnswer ==
  \E n \in 1..LeastOf(TextAsked("client"), TextRoom("client")) :
    /\ LastRead("client", n)
    /\ Takes("client", n)
    /\ recv' = [recv EXCEPT !["client"].buffer = <<>>, !["client"].message_len = 0]
    /\ conn' = [conn EXCEPT !["client"] = Opened(@)]
    /\ send' = [send EXCEPT !["client"].buffer = <<>>, !["client"].pos = 0]
    /\ UNCHANGED <<sent, got>>

\* A server that finds no more bytes takes CONSUMED for a failure.
TextIsTorn ==
  /\ ReadsText("server")
  /\ Becomes("server", "failed")
  /\ UNCHANGED <<send, recv, wire, sent, got>>

-----------------------------------------------------------------------------
(* Sending: send1, buffer_send_websocket, send2 *)

Xored(byte, mask) ==
  [byte EXCEPT !.mask = IF mask = <<>> THEN @ ELSE IF @ = <<>> THEN mask
                        ELSE IF @ = mask THEN <<>> ELSE <<"twice", @, mask>>]

\* The part of a mask that lies over the i-th byte of a frame.
Key(mask, i) == IF mask = <<>> THEN <<>> ELSE <<mask, (i - 1) % MaskLen>>

HeaderLen(long, masked) == 2 + (IF long THEN 2 ELSE 0) + (IF masked THEN MaskLen ELSE 0)

Header(s, len, mask) ==
  LET long == len > ShortMax IN
  LET h == [long |-> long, len |-> IF long THEN len % (FrameMax + 1) ELSE len, key |-> mask] IN
  [i \in 1..HeaderLen(long, mask # <<>>) |-> [head |-> h, at |-> i, mask |-> <<>>]]

\* A frame for the next n bytes of the send buffer: a client puts its mask over them there.
NewFrame(f, n, header, mask) ==
  [f EXCEPT !.frame_len = n, !.frame_pos = f.pos, !.frame_end = f.pos + n,
            !.header = header, !.mask = mask,
            !.buffer = [i \in DOMAIN f.buffer |->
                          IF i \in f.pos + 1..f.pos + n
                          THEN Xored(f.buffer[i], Key(mask, i - f.pos)) ELSE f.buffer[i]]]

\* The frame under way, or a new one for what is left of the buffer; a client draws a mask.
Framed(s, len) ==
  LET f == send[s]
      n == LeastOf(len, FrameMax)
      mask == IF s = "client" THEN <<Len(sent[s])>> ELSE <<>> IN
  IF f.frame_len # 0 THEN f ELSE NewFrame(f, n, Header(s, len, mask), mask)

\* The frame is on the wire; the next begins with a header of its own.
FrameDone(f) ==
  [f EXCEPT !.pos = f.frame_end, !.frame_len = 0, !.header = <<>>, !.header_pos = 0]

SentFlag(f) == IF f.pos < Len(f.buffer) THEN "sending" ELSE "sent"

\* Of the frame f, k more bytes of the header and then l of the data.
PutsFrame(s, f, k, l) ==
  LET g == [f EXCEPT !.header_pos = @ + k, !.frame_pos = @ + l]
      h == IF g.frame_pos = g.frame_end THEN FrameDone(g) ELSE g IN
  /\ Moved(s, 0, SubSeq(f.header, f.header_pos + 1, f.header_pos + k)
                   \o SubSeq(f.buffer, f.frame_pos + 1, f.frame_pos + l))
  /\ send' = [send EXCEPT ![s] = h]
  /\ conn' = [conn EXCEPT ![s].sending = SentFlag(h)]

\* The send step of a pass is done when the handshake has ended.
SendFrame(s) ==
  /\ conn[s].state = "open" /\ conn[s].sending \in {"requested", "sending"}
  /\ \E f \in {Framed(s, Len(send[s].buffer) - send[s].pos)} :
     \E k \in 0..Len(f.header) - f.header_pos :
     \E l \in 0..(IF f.header_pos + k < Len(f.header) THEN 0 ELSE f.frame_end - f.frame_pos) :
       PutsFrame(s, f, k, l)
  /\ UNCHANGED <<recv, sent, got>>

\* The send step of the drain asks about the handshake only whether it is one of a WebSocket:
\* the rest of a text becomes the data of a frame, under a mask if it is the client's.
TextFramed(s) ==
  /\ Connecting(s) /\ conn[s].websocket /\ conn[s].sending = "sending"
  /\ cut' = "framed" /\ UNCHANGED flow

\* The end of the n-th frame, and of a frame for len bytes after all those.
EndOf(s, n) == IF n = 0 THEN 0 ELSE sent[s][n].end
FrameSize(s, len) == HeaderLen(len > ShortMax, s = "client") + len

\* The application asks, or answers.
SendMessage(s) ==
  /\ conn[s].state = "open" /\ conn[s].sending = "free" /\ Len(sent[s]) < MaxMessages
  /\ s = "server" => Len(sent[s]) < Len(got[s])
  /\ \E len \in Sizes :
       /\ sent' = [sent EXCEPT ![s] = Append(@,
                     [len |-> len, end |-> EndOf(s, Len(sent[s])) + FrameSize(s, len),
                      alone |-> Len(sent[s]) = Len(got[Other(s)])])]
       /\ send' = [send EXCEPT ![s].buffer = Message(Len(sent[s]) + 1, len)]
  /\ conn' = [conn EXCEPT ![s].sending = "requested"]
  /\ UNCHANGED <<recv, wire, got>>

\* The event is consumed, and send1 clears the buffer.
Release(s) ==
  /\ conn[s].state = "open" /\ conn[s].sending = "sent"
  /\ send' = [send EXCEPT ![s].buffer = <<>>, ![s].pos = 0]
  /\ conn' = [conn EXCEPT ![s].sending = "free"]
  /\ UNCHANGED <<recv, wire, sent, got>>

-----------------------------------------------------------------------------
(* Receiving: recv1, buffer_recv_websocket, recv2 *)

NextFrame_Kept(r) == r

\* A frame that has been read to its end makes room for the next header.
NextFrame(r) ==
  IF r.in_frame /\ r.frame_pos = r.frame_len
  THEN [r EXCEPT !.in_frame = FALSE, !.frame_len = 0, !.frame_pos = 0, !.header = <<>>]
  ELSE r

\* A message that has been consumed leaves the buffer.
Kept(s) ==
  LET r == recv[s] IN
  NextFrame(IF conn[s].receiving = "consumed"
            THEN [r EXCEPT !.buffer = Rest(@, r.message_len), !.message_len = 0] ELSE r)

Receiving(s) ==
  conn[s].state = "open" /\ conn[s].receiving \in {"requested", "consumed"}

\* Two bytes tell how long the header is.
HeaderNeeds(header) ==
  IF Len(header) < 2 THEN 2
  ELSE HeaderLen(header[2].head.long, header[2].head.key # <<>>)

\* A whole header tells the length of the frame and its mask; without one the mask that is
\* there stays.
WithHeader(r, header) ==
  IF Len(header) < HeaderNeeds(header) \/ Len(header) < 2 THEN [r EXCEPT !.header = header]
  ELSE [r EXCEPT !.header = header, !.in_frame = TRUE,
                 !.frame_len = header[2].head.len,
                 !.mask = IF header[2].head.key = <<>> THEN @ ELSE header[2].head.key]

HeaderAsked(r) == HeaderNeeds(r.header) - Len(r.header)

ReadHeader(s) ==
  \E n \in 1..LeastOf(HeaderAsked(Kept(s)), Len(wire[Other(s)])) :
    /\ Receiving(s) /\ ~Kept(s).in_frame
    /\ recv' = [recv EXCEPT ![s] =
                  WithHeader(Kept(s), Kept(s).header \o SubSeq(wire[Other(s)], 1, n))]
    /\ conn' = [conn EXCEPT ![s].receiving = "requested"]
    /\ Takes(s, n)
    /\ UNCHANGED <<send, sent, got>>

Asked(r) == IF r.message_len = 0 THEN FirstRead ELSE BufLen - Len(r.buffer)

\* What is asked for of a frame is its length and what the buffer holds of other frames:
\* more than is left of it.  Below zero it would wrap around, to more than anything.
DataAsked(r) ==
  IF r.frame_len + Len(r.buffer) < r.frame_pos THEN Asked(r)
  ELSE LeastOf(r.frame_len + Len(r.buffer) - r.frame_pos, Asked(r))

Unmasked_FromItsStart(r, bytes) == [i \in DOMAIN bytes |-> Xored(bytes[i], Key(r.mask, i))]

Unmasked(r, bytes) == [i \in DOMAIN bytes |-> Xored(bytes[i], Key(r.mask, r.frame_pos + i))]

\* verify_preamble: the length of the message whose first bytes these are, or none.
LengthOf(s, r) ==
  IF r.message_len # 0 \/ Len(r.buffer) < PreambleLen THEN {r.message_len}
  ELSE {sent[Other(s)][n].len : n \in {i \in DOMAIN sent[Other(s)] :
          \A k \in 1..PreambleLen : r.buffer[k] = [data |-> i, at |-> k, mask |-> <<>>]}}

ReceivedFlag(r, len) ==
  IF len > 0 /\ Len(r.buffer) >= len THEN "received" ELSE "requested"

Given(r, bytes) ==
  [r EXCEPT !.buffer = @ \o Unmasked(r, bytes), !.frame_pos = @ + Len(bytes)]

\* recv2 looks at all that the buffer holds.
Looks(s, r) ==
  \/ LengthOf(s, r) = {} /\ Becomes(s, "failed") /\ recv' = [recv EXCEPT ![s] = r]
  \/ \E len \in LengthOf(s, r) :
       /\ recv' = [recv EXCEPT ![s] = [r EXCEPT !.message_len = len]]
       /\ conn' = [conn EXCEPT ![s].receiving = ReceivedFlag(r, len)]

ReadData(s) ==
  \E n \in 0..LeastOf(DataAsked(Kept(s)), Len(wire[Other(s)])) :
    /\ Receiving(s) /\ Kept(s).in_frame /\ (n > 0 \/ conn[s].receiving = "consumed")
    /\ Looks(s, Given(Kept(s), SubSeq(wire[Other(s)], 1, n)))
    /\ Takes(s, n)
    /\ UNCHANGED <<send, sent, got>>

\* The application takes the message at the front of the buffer.
Take(s) ==
  /\ conn[s].state = "open" /\ conn[s].receiving = "received"
  /\ got' = [got EXCEPT ![s] = Append(@, recv[s].buffer[1].data)]
  /\ conn' = [conn EXCEPT ![s].receiving = "consumed"]
  /\ UNCHANGED <<send, recv, wire, sent>>

Moves(s) ==
  \/ SendText(s) \/ ReadText(s) \/ TextTooLong(s)
  \/ SendFrame(s) \/ Release(s)
  \/ ReadHeader(s) \/ ReadData(s) \/ Take(s)

Step(action) == cut = "no" /\ action /\ UNCHANGED <<lens, cut>>

Next ==
  \/ Step(ReadOpening \/ ReadRequest \/ TextIsTorn \/ ReadAnswer)
  \/ \E s \in Sides : Step(Moves(s) \/ SendMessage(s))
  \/ cut = "no" /\ UNCHANGED lens /\ \E s \in Sides : TextFramed(s) \/ TextOverruns(s)

(***************************************************************************)
(* Both loops run, the network brings what was sent and the kernel takes   *)
(* what is offered in the end.  Nobody has to ask; who is asked answers.   *)
(***************************************************************************)
Fairness ==
  /\ WF_vars(Step(ReadAnswer \/ Moves("client")))
  /\ WF_vars(Step(ReadOpening \/ ReadRequest \/ Moves("server")))
  /\ WF_vars(Step(SendMessage("server")))

SafetySpec == Init /\ [][Next]_vars

Spec == SafetySpec /\ Fairness

-----------------------------------------------------------------------------
(* What the two sides promise each other *)

\* The message that stands at the front of a side's buffer, or will.
Front(s) == Len(got[s]) + (IF conn[s].receiving = "consumed" THEN 0 ELSE 1)

\* A side has been given more of a frame than there is in it.  From then on it takes headers
\* for data, and never looks for a header again.
OverRead(s) == recv[s].in_frame /\ recv[s].frame_pos > recv[s].frame_len

Fits(s) == lens[s] <= BufLen

\* However the texts, headers and data are cut up and however many messages are under way,
\* until a side has read past the end of a frame its buffer holds the beginning of the
\* message that comes next and nothing else, unmasked, and all of it when it is shown to the
\* application.  It reads past one only when a message was sent before the one ahead of it
\* had been taken.  Nothing is written past the buffer but a text that does not fit, and an
\* attempt with texts that fit fails only when a request is torn (tcp_transport.c:275-403,
\* 749-804).
Intact ==
  \A s \in Sides :
    /\ Len(recv[s].buffer) <= BufLen
    /\ conn[s].state = "open" /\ ~OverRead(s) =>
         \A i \in DOMAIN recv[s].buffer :
           recv[s].buffer[i] = [data |-> Front(s), at |-> i, mask |-> <<>>]
    /\ conn[s].receiving = "received" /\ ~OverRead(s) =>
         Len(recv[s].buffer) = sent[Other(s)][Front(s)].len
    /\ OverRead(s) => \E n \in DOMAIN sent[Other(s)] : ~sent[Other(s)][n].alone
    /\ cut = "overrun" => \E t \in Sides : ~Fits(t)
    /\ conn[s].state = "failed" =>
         \/ OverRead(s)
         \/ sent["client"] = <<>> /\ (s = "server" \/ ~Fits("server"))

OnTheWay ==
  Connecting("client") \/ \E s \in Sides : Len(got[Other(s)]) < Len(sent[s])

\* The handshake ends, and every message reaches the other side's application, several at a
\* time or one by one: unless a request is torn, a text is framed or does not fit, or a side
\* reads past the end of a frame (tcp_transport.c:366-400, 482-583, 805-1008).
Delivered ==
  OnTheWay /\ (\A s \in Sides : Fits(s)) ~>
    \/ ~OnTheWay
    \/ conn["server"].state = "failed" \/ cut = "framed" \/ \E s \in Sides : OverRead(s)
-----------------------------------------------------------------------------
(* The inductive invariant behind Intact.  A text or a message is put on the wire as far   *)
(* as the sender says.  Until the receiver has read past the end of a frame, it has been   *)
(* taken from the wire as far as the receiver says, and what is left is on the wire.       *)

\* Every record has its fields.
SendFields(f) ==
  f \in [buffer : {f.buffer}, pos : {f.pos}, frame_len : {f.frame_len},
         frame_pos : {f.frame_pos}, frame_end : {f.frame_end}, header : {f.header},
         header_pos : {f.header_pos}, mask : {f.mask}]

RecvFields(r) ==
  r \in [buffer : {r.buffer}, message_len : {r.message_len}, in_frame : {r.in_frame},
         frame_len : {r.frame_len}, frame_pos : {r.frame_pos}, header : {r.header},
         mask : {r.mask}]

ConnShape ==
  conn \in [Sides -> [state : {"connecting", "open", "failed"}, websocket : BOOLEAN,
                      receiving : {"no", "requested", "received", "consumed"},
                      sending : {"free", "requested", "sending", "sent"}]]
SendShape == send = [s \in Sides |-> send[s]] /\ \A s \in Sides : SendFields(send[s])
RecvShape == recv = [s \in Sides |-> recv[s]] /\ \A s \in Sides : RecvFields(recv[s])

Sendings == [len : Sizes, end : Nat, alone : BOOLEAN]

Shapes ==
  /\ ConnShape /\ SendShape /\ RecvShape
  /\ wire = [s \in Sides |-> wire[s]] /\ got = [s \in Sides |-> got[s]]
  /\ sent \in [Sides -> Seq(Sendings)]
  /\ lens \in [Sides -> Nat] /\ \A s \in Sides : MagicLen < lens[s]
  /\ cut \in {"no", "framed", "overrun"}

\* A side between two frames.
NoFrame(s) == send[s].frame_len = 0 /\ send[s].header_pos = 0
Empty(s) == send[s].buffer = <<>> /\ send[s].pos = 0 /\ NoFrame(s)
NothingRead(s) ==
  /\ recv[s].message_len = 0 /\ recv[s].in_frame = FALSE
  /\ recv[s].frame_len = 0 /\ recv[s].frame_pos = 0

\* Of a stream of bytes, those after the first a and up to the b-th.
Window(bytes, a, b) == [i \in 1..b - a |-> bytes[a + i]]

TextOf(s) == [j \in Nat |-> [text |-> s, at |-> j, mask |-> <<>>]]
Part(s, a, b) == Window(TextOf(s), a, b)

\* The server has not answered yet, has answered in part, or is connected.
Unanswered ==
  /\ conn["server"].state \in {"connecting", "failed"} /\ Empty("server")
  /\ recv["server"].buffer = Part("client", 0, Len(recv["server"].buffer))
  /\ Len(recv["server"].buffer) \in 0..send["client"].pos
  /\ Len(recv["server"].buffer) <= BufLen
  /\ wire["client"] = Part("client", Len(recv["server"].buffer), send["client"].pos)

HasRequest ==
  /\ recv["server"].buffer = <<>> /\ wire["client"] = <<>>
  /\ send["client"].pos = lens["client"]

Answering ==
  /\ conn["server"].state = "connecting" /\ HasRequest /\ NoFrame("server")
  /\ send["server"].buffer = Text("server") /\ send["server"].pos \in 0..lens["server"] - 1

Answered ==
  /\ conn["server"].state = "open" /\ HasRequest /\ Empty("server")
  /\ conn["server"].receiving = "requested" /\ conn["server"].sending = "free"

AnswerPut ==
  IF conn["server"].state = "open" THEN lens["server"] ELSE send["server"].pos

NothingYet ==
  /\ sent = [s \in Sides |-> <<>>] /\ got = [s \in Sides |-> <<>>]
  /\ \A s \in Sides : NothingRead(s) /\ recv[s].header = <<>> /\ recv[s].mask = <<>>

TextFlags ==
  /\ \A s \in Sides : conn[s].state # "open" =>
       conn[s].receiving = "no" /\ conn[s].sending \in {"free", "sending"}
  /\ conn["client"].state = "failed" => ~Fits("server")

RequestInv ==
  /\ send["client"].buffer = Text("client") /\ NoFrame("client")
  /\ send["client"].pos \in 0..lens["client"]
  /\ Unanswered \/ Answering \/ Answered

AnswerInv ==
  /\ recv["client"].buffer = Part("server", 0, Len(recv["client"].buffer))
  /\ Len(recv["client"].buffer) \in 0..AnswerPut
  /\ Len(recv["client"].buffer) < lens["server"] /\ Len(recv["client"].buffer) <= BufLen
  /\ wire["server"] = Part("server", Len(recv["client"].buffer), AnswerPut)

HandshakeInv ==
  /\ conn["client"].state # "open"
  /\ NothingYet /\ TextFlags /\ RequestInv /\ AnswerInv

\* The n-th message of s as a frame.
MaskOf(s, n) == IF s = "client" THEN <<n>> ELSE <<>>
Size(s, n) == sent[s][n].len
HeadOf(s, n) == Header(s, Size(s, n), MaskOf(s, n))
HeadSize(s, n) == HeaderLen(Size(s, n) > ShortMax, s = "client")
Masked(n, len, mask) == [i \in 1..len |-> [data |-> n, at |-> i, mask |-> Key(mask, i)]]
BodyOf(s, n) == Masked(n, Size(s, n), MaskOf(s, n))
FrameByte(s, n, j) ==
  IF j <= HeadSize(s, n) THEN HeadOf(s, n)[j] ELSE BodyOf(s, n)[j - HeadSize(s, n)]

Last(s) == Len(sent[s])

\* The frames of s follow one another in its stream.
FramesInv(s) ==
  /\ \A n \in 1..Last(s) : EndOf(s, n) = EndOf(s, n - 1) + HeadSize(s, n) + Size(s, n)
  /\ \A m, n \in 0..Last(s) : m < n => EndOf(s, m) < EndOf(s, n)

\* How much of its stream s has put on the wire, and how much of it has been taken.
Put(s) ==
  CASE conn[s].sending = "requested" -> EndOf(s, Last(s) - 1)
    [] conn[s].sending = "sending" ->
         EndOf(s, Last(s) - 1) + send[s].header_pos + send[s].frame_pos
    [] OTHER -> EndOf(s, Last(s))

Coming(s) == Len(got[Other(s)]) + 1

Taken(s) ==
  LET r == recv[Other(s)] IN
  EndOf(s, Coming(s) - 1)
    + (IF conn[Other(s)].receiving = "consumed" THEN 0
       ELSE IF r.in_frame THEN HeadSize(s, Coming(s)) + r.frame_pos ELSE Len(r.header))

WireInv(s) ==
  /\ Taken(s) <= Put(s)
  /\ wire[s] = [i \in 1..Put(s) - Taken(s) |-> wire[s][i]]
  /\ \A i \in 1..Put(s) - Taken(s) : \A n \in 1..Last(s) :
       \A j \in 1..HeadSize(s, n) + Size(s, n) :
         Taken(s) + i = EndOf(s, n - 1) + j => wire[s][i] = FrameByte(s, n, j)

SendInv(s) ==
  \/ conn[s].sending = "free" /\ Empty(s)
  \/ conn[s].sending = "sent" /\ NoFrame(s)
  \/ /\ conn[s].sending = "requested" /\ NoFrame(s) /\ sent[s] # <<>>
     /\ send[s].buffer = Message(Last(s), Size(s, Last(s))) /\ send[s].pos = 0
  \/ /\ conn[s].sending = "sending" /\ sent[s] # <<>>
     /\ send[s].buffer = BodyOf(s, Last(s)) /\ send[s].pos = 0
     /\ send[s].frame_len = Size(s, Last(s)) /\ send[s].frame_end = Size(s, Last(s))
     /\ send[s].header = HeadOf(s, Last(s)) /\ send[s].header_pos \in 0..HeadSize(s, Last(s))
     /\ send[s].frame_pos \in 0..Size(s, Last(s)) - 1
     /\ send[s].frame_pos > 0 => send[s].header_pos = HeadSize(s, Last(s))

\* What the other side has of the n-th message of s.
HasOf(s, n, k) ==
  LET r == recv[Other(s)] IN
  /\ r.in_frame = TRUE /\ r.frame_len = Size(s, n) /\ r.frame_pos = k
  /\ r.buffer = Message(n, k) /\ k <= BufLen
  /\ r.message_len = IF k < PreambleLen THEN 0 ELSE Size(s, n)

RecvInv(s) ==
  LET o == Other(s) IN
  /\ got[o] \in Seq(Nat) /\ Len(got[o]) <= Last(s)
  /\ o = "client" => recv[o].mask = <<>>
  /\ \/ /\ conn[o].receiving = "requested" /\ NothingRead(o) /\ recv[o].buffer = <<>>
        /\ IF Coming(s) <= Last(s)
           THEN /\ recv[o].header = [i \in 1..Len(recv[o].header) |-> HeadOf(s, Coming(s))[i]]
                /\ Len(recv[o].header) \in 0..HeadSize(s, Coming(s)) - 1
           ELSE recv[o].header = <<>>
     \/ /\ conn[o].receiving = "requested" /\ Coming(s) <= Last(s)
        /\ recv[o].mask = MaskOf(s, Coming(s))
        /\ recv[o].frame_pos \in 0..Size(s, Coming(s)) - 1
        /\ HasOf(s, Coming(s), recv[o].frame_pos)
     \/ /\ conn[o].receiving = "received" /\ Coming(s) <= Last(s)
        /\ HasOf(s, Coming(s), Size(s, Coming(s)))
     \/ /\ conn[o].receiving = "consumed" /\ got[o] # <<>>
        /\ HasOf(s, Len(got[o]), Size(s, Len(got[o])))

\* One at a time, there is one under way at most.
AloneInv(s) == (\A n \in 1..Last(s) : sent[s][n].alone) => Last(s) <= Coming(s)

Stream(bytes) == Len(bytes) \in Nat /\ bytes = [i \in 1..Len(bytes) |-> bytes[i]]

\* Bytes that begin no message.
Strange(bytes) == Len(bytes) > 0 => "data" \notin DOMAIN bytes[1]

\* The receiver of what s sends has read past the end of a frame, asks for nothing more, and
\* may have failed; or it has not.
Past(s) ==
  LET r == recv[Other(s)] IN
  /\ r.in_frame = TRUE /\ r.frame_pos \in Nat /\ r.frame_len \in Nat /\ r.frame_pos > r.frame_len
  /\ conn[Other(s)].state \in {"open", "failed"} /\ conn[Other(s)].receiving # "no"
  /\ Stream(wire[s]) /\ Stream(r.buffer) /\ Len(r.buffer) <= BufLen
  /\ \/ conn[Other(s)].state = "failed"
     \/ /\ conn[Other(s)].receiving = "requested"
        /\ Len(r.buffer) = r.frame_pos - r.frame_len
        /\ r.message_len = 0 /\ Strange(r.buffer)
     \/ /\ conn[Other(s)].receiving \in {"received", "consumed"}
        /\ Len(r.buffer) = r.frame_pos
        /\ r.message_len = r.frame_len /\ Strange(Rest(r.buffer, r.frame_len))
  /\ \E n \in 1..Last(s) : ~sent[s][n].alone

InOrder(s) ==
  /\ conn[Other(s)].state = "open"
  /\ WireInv(s) /\ RecvInv(s) /\ AloneInv(s)

TalkInv == \A s \in Sides : FramesInv(s) /\ SendInv(s) /\ (Past(s) \/ InOrder(s))

IInv ==
  /\ Shapes
  /\ cut = "overrun" => \E s \in Sides : ~Fits(s)
  /\ HandshakeInv \/ (conn["client"].state # "connecting" /\ TalkInv)
=============================================================================
