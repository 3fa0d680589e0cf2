# Robot Raconteur Lite in TLA+

This directory models and verifies the core of Robot Raconteur Lite
(`src/`): a C89 implementation of the Robot Raconteur message protocol that
allocates no memory, starts no threads and takes no locks. Everything runs in one
polled loop over a fixed array of connection slots; what makes it hard is that a
slot's whole life is encoded in one word of flags, that every system call may do
part of its work, and that the application, the peer and the network move between
any two steps of the loop.

Paths below are relative to the repository root.

## Inventory

| Part | State it keeps | Operations | What makes it correct |
|---|---|---|---|
| Connection slot (`src/connection.c`, `include/robotraconteurlite/connection.h`) | flag words `connection_state` and `config_flags`; receive buffer with `recv_buffer_pos`, `recv_message_len`; send buffer with `send_buffer_pos`, `send_message_len`; socket; heartbeat times | `reset`, `accept2`, `connect2`, `process_control`, `recv1`/`recv2`, `send1`/`send2`, `begin`/`end_send_message`, `close`, event predicates | messages come out whole, in order, once; the buffers are never over-read or overwritten; a slot that ends is clean for the next session |
| TCP transport, raw (`src/tcp_transport.c`) | the socket, the poll of a connecting client | `communicate` = control, receive, send; raw handshake | each step uses a socket the slot owns; failures become events |
| TCP transport, WebSocket | frame position, length, mask, handshake state | HTTP header, handshake answer, frame receive and send | frames and messages stay in step |
| Acceptor and pool | list of slots, listening socket | `find_idle`, accept, `prepare_wait` | a peer is accepted whenever a slot is idle |
| Event queue and loop (`src/node.c`) | `connections_next`, the current event | `next_event`, `consume_event`, `run_next_event2`, `run_events_available` | each event is handled until consumed, in its order, for every slot |
| Service side (`src/node.c`) | established client per connection, service pointer | special requests, object handlers, notifications | every request is answered once; a service hears of each client's coming and going once |
| Client side (`src/node.c`) | handshake step, list of pending requests | `client_handshake`, `begin_request`, `dispatch_response`, timeouts | each request ends once, by its answer or its timeout |
| Wake-up (`src/poll.c`, `next_wake`) | wanted poll events, next deadline | `prepare_wait`, `next_wake`, `poll_connections_run` | the loop never sleeps over work it could do |
| Messages (`src/message.c`) | reader and writer positions | begin and end of message, entry, element | length fields agree with what is nested |
| Data and strings (`array.c`, `url.c`, `nodeid.c`, ...) | none | conversions | unit-tested, pure |
| Platforms (`platform/posix`, `platform/win32`) | descriptors | recv, send, accept, connect, poll | partial work is reported as partial |

### How the parts interact

One pass of the loop (`robotraconteurlite_node_run_events_available`) runs
`communicate` for every connection object: control step, receive step, send step.
Then it drains (send step again) and runs the event pass: for each slot at most one
event is read from the flags, its handler is called, and the event is consumed by
setting another flag, which the next control, receive or send step acts on. All
communication between the layers is through the flag word; the application's
handlers call `begin_send_message`/`end_send_message` and `connection_close` in
between.

### What is hard here

* partial reads and writes: a message, a preamble or the magic arrives in pieces, or
  together with part of the next message;
* flags that must change together, over four layers and two passes;
* a slot is reused: what one session leaves behind meets the next;
* errors, closes and late messages race for the one event of a pass;
* RETRY: a handler that cannot answer yet is called again, or is not;
* heartbeats and timeouts against late answers.

The file `PROJECT.json` lists each hazard at its line with the properties that
watch it.

## The modules

| Module | Models | Extends |
|---|---|---|
| `MessageChannel` | what a connection promises to whoever uses it: the abstract specification | |
| `Connection` | one slot with raw TCP below it and an application above: `connection.c`, raw parts of `tcp_transport.c`, the loop and the flag side of the event queue | instance of `MessageChannel` |
| `WakeUp` | what the loop waits for when it sleeps: `poll.c`, `next_wake`, `prepare_wait`, `events_pending` | `Connection` |
| `MCConnection` | instances of both for TLC | `WakeUp` |
| `ConnectionProofs`, `WakeUpProofs` | their invariants and theorems | `Connection`; `WakeUp`, `ConnectionProofs` |
| `ConnectionRefinement` | the proof that the slot implements the channel | `ConnectionProofs` |
| `WebSocket`, `MCWebSocket` | a client and a server that speak over a WebSocket: the other half of `tcp_transport.c` | |
| `WebSocketProofs` | its invariant and theorems | `WebSocket` |
| `NodePool`, `MCNodePool` | several slots, the acceptor, descriptors and the loop that serves them: `connection.c`, `node.c`, `poll.c` | |
| `NodePoolProofs` | its invariant and theorems | `NodePool` |
| `ServiceNode`, `MCServiceNode` | the service side of a node on one server connection: `node.c` | instance of `MessageChannel` |
| `ServiceNodeProofs` | its invariant and theorems | `ServiceNode` |
| `ClientNode`, `MCClientNode` | the client side of a node on one of its connections: `node.c` | instance of `MessageChannel` |
| `ClientNodeProofs` | its invariant and theorems | `ClientNode` |
| `MessageFields` | the fields of the two wire formats, written and read: `message.c`, `array.c` | |
| `MessageHeaders` | the headers of messages, entries and elements, written and read | `MessageFields` |
| `MessageWriter`, `MessageReader` | the calls that build a message in a buffer and walk one | `MessageHeaders` |
| `MessageCodec`, `MCMessageCodec` | what one wrote the other reads: the composition | both |
| `MessageCodecProofs` | the invariant of the writers and its theorems | `MessageCodec` |

`MessageChannel` is where the components meet. `Connection` is proved to implement
it (`IsChannel`), and `ServiceNode` and `ClientNode` are proved to use it only as it
allows (`UsesChannel`), so what the models of the node assume of the transport is
what the transport model provides. `Connection` and `WebSocket` agree on the shape of
receiving (`recv1`, a read, `recv2`); `NodePool` keeps of a slot only its life, its
descriptor and whether it has something to show, because what it asks is about slots
next to each other. `MessageCodec` is about the bytes that the others only count.

A definition named `X_Y` is a *slip*: the definition `X` as it might be written
wrongly, kept beside it to show that the properties notice. No specification uses
one.

### Connection

The state is the slot of `struct robotraconteurlite_connection`: the status flags
as a set of names, the config flags, the two buffer positions and message lengths,
the socket. The buffers' bytes are not kept; a stream is a sequence of messages with
an offset and a length, and the counters `arrived`, `taken` and `wired` say how many
bytes the network has delivered, the slot has read and the slot has sent. So "the
buffer holds the right bytes" is arithmetic on offsets, which both TLC and the
provers handle.

`pc` is the place in a pass: control, receive, send, event. An early return of
`communicate` goes to the event pass, as in the code. After the event pass the loop
starts the next pass, or only sends (the drain of
`robotraconteurlite_node_run_events_available`); `EndPass` is that choice.

| Actions | Code |
|---|---|
| `Accept`, `Connect` | `tcp_acceptor_communicate`, `tcp_connect_service`, with `reset`, `accept2`, `connect2`; the acceptor stands before or after the slot in the list, so `Accept` is possible at either place |
| `ProcessControl` | `tcp_connection_communicate_process_control`: idle, reset after CLOSED_CONSUMED, close, the server's look at the magic, the client's poll for completion |
| `Receive` | `recv1`, the socket read, `recv2`, `verify_preamble` |
| `Transmit` | `send1`, the socket write, `send2` |
| `HandleStatus`, `HandleReceived`, `RejectReceived`, `HandleSocketConnected` | `run_next_event2` by event, `consume_event`, what a handler may do |
| `SendMessage`, `Close` | the application: `begin`/`end_send_message`, `connection_close`; `Close` also stands for the heartbeat timeout, `node_shutdown` and failing handlers |
| `PeerWrites`, `Arrive`, `LinkChange` | the peer and the network |

The peer's messages have any size, and a size field may say 0, as `verify_preamble`
takes any 32-bit number (`src/connection.c:64`). `recv1` asks for 64 bytes while the size
is unknown, whatever the buffer already holds (`src/connection.c:425`). Behind a consumed
message shorter than that, or behind one whose size field says 0, which is never complete,
this may be more than the buffer has room for, and the read goes past its end:
`RecvOverruns`, after which nothing is said (`pc = "overrun"`). `ReadFits` says that it
asks for too much in these two cases only, and `OverrunIsShort` that without such a
message the buffer is never overrun; both are part of `IInv` and proved. `recv2` copes
with short messages.

Assumptions on the constants (`SizeAssumption`): sizes are positive but for the kind
`nosize`, the receive buffer holds a preamble and one first read (the code asserts more
than 1024 bytes), a first read holds a preamble, and a preamble is at least twice the
magic.

Left out because nothing in raw TCP sets or reads them: CLOSING, RECEIVING,
BLOCK_SEND; left to `ServiceNode` or later: ESTABLISHED, CLIENT_ESTABLISHED,
SEND_MESSAGE4, CLOSE_NOTIFIED.

### WakeUp

`poll_connections_run` communicates, returns if an event is pending, and else waits.
`EventsPending`, `WakesNow`, `WantSend` and `WantReceive` are the four functions that
decide that, and `Sleeps` is the state in which the wait begins. There is no new
variable and no new action: they are read off the state of `Connection` at the end of
a pass. `poll()` is level-triggered, so what arrives during the wait ends it if its
descriptor was asked about; the times of heartbeats and requests only make a wait
shorter and are left out.

### WebSocket

Two machines, `conn`, `send` and `recv` of each side, over two streams of bytes. A byte
is a record: the text, frame header or message it is part of, its place there, and the
mask it is under. So "unmasked with the wrong byte of the mask", "header taken for
data" and "the end of one message before the start of the next" are all different
bytes. Every read and every write may be cut short at any place.

| Actions | Code |
|---|---|
| `ReadOpening`, `ReadRequest`, `TextIsTorn`, `ReadAnswer`, `ReadText`, `TextTooLong` | `tcp_connection_handshake_server`, `_client`, `http_recv_header`, `http_handshake` |
| `SendText` | `tcp_connection_handshake` before the connection is open, and the text it sends |
| `ReadHeader`, `ReadData` | `tcp_connection_buffer_recv_websocket` between `recv1` and `recv2`: a loop of reads is one step for each |
| `SendFrame`, `Release` | `tcp_connection_buffer_send_websocket` between `send1` and `send2` |
| `SendMessage`, `Take` | the application |
| `TextFramed`, `TextOverruns` | the drain, and a text that is longer than the buffer |

The client sends whenever its buffer is free, so that any number of messages may be under
way; the server sends one for each it has received. Each message has a history: where its
frame ends in the stream, and whether it was sent `alone`, with all those before it taken.

The code does three things to itself that the model follows as far as it can be said what
happens, and the properties are stated up to them:

* *A frame is read past its end.* The receive step asks for what is left of the frame and,
  on top, for what the buffer already holds of it (`src/tcp_transport.c:371`). A frame that is
  read in pieces, as every one longer than the first read of 64 bytes is, therefore takes in
  the beginning of the next one if that is there already. From then on the side is never
  again at the end of a frame and takes headers for data (`OverRead`). `Intact` says what is
  in the buffer until then, and that it happens only when a message was sent behind another
  that had not been taken: a peer that waits for its answers is safe.
* *A text is framed.* The drain, which follows every pass of
  `run_events_available` (`src/node.c:3120`), does not ask whether the connection is open. If
  the HTTP text was not taken whole by the first write, as when the socket is not connected
  yet, it puts a frame around the rest (`TextFramed`). What the peer makes of that is not
  followed.
* *A text is written past the buffer.* `http_recv_header` asks for one byte more than it
  has, whatever room there is (`src/tcp_transport.c:757`); a text longer than the buffer is
  written past its end (`TextOverruns`) or ends the attempt (`TextTooLong`).

The bounds on the lengths are scaled down in the order the code has them. Messages may be
shorter than the first read. Frames longer than 65535 bytes, of which the code cuts the
length, are not in `Sizes`. What the texts say, the key check (SHA-1, base64) and the
opcodes, which the code ignores, are left out.

### NodePool

`Objects` is the list after its head, of slots and acceptors. `slot` keeps of each slot
its life (idle, connecting, open, closed, consumed), ERROR, CLOSE_REQUESTED, whether it
has an event to show, the number in `sock` and ISSERVER; `owner` is the system's table
of descriptors, which are given out lowest first and so again at once; `next` is
`connections_next`; `loop` the call the program is in.

| Actions | Code |
|---|---|
| `RestingTurn`, `ClosingTurn`, `SessionTurn`, `RefusedTurn`, `AcceptorTurn` | one object's turn in `connections_communicate` |
| `NextEvent`, `NextCycle` | `next_event`, which walks on from `connections_next` over slots with nothing to show |
| `Consume`, `NotConsumed` | `consume_event`, and the ways not to reach it: RETRY, or a failing handler |
| `EndOfPass`, `Drain`, `Decide` | `run_events_available`, with `max_events` and `max_cycles` |
| `EndOfPoll`, `WokenByPeer`, `Woken` | `poll_connections_run` |
| `Close`, `Connect`, `NewPeer` | the program, in a handler or between the two calls, and the peers |

`AskedAbout` is the walk of `connection_acceptor_impl_prepare_wait`, which goes on from
the object after the slot it has looked at (`src/connection.c:755`) and so passes over the
second of two slots in a row, which is the layout that an array of connections has and the
one of the run. A peer that comes while only such a slot is idle does not wake the loop; it
is accepted when the sleep is over, which is after 5 ms at most
(`src/node.c:2367`, `DEFAULT_SLEEP_TIME`). `PeersAccepted` is therefore stated for every idle
slot. `EachItsOwn` is stated until an attempt to connect has failed, because
`is_connection_complete` closes the descriptor behind the slot's back
(`platform/posix/src/tcp_transport_posix.c:444`) and the slot closes the number again, which
may be another session's by then. Without this condition TLC finds it violated.

### Message codec

The buffer is a partial function from byte offsets to cells, a cell being one number,
string, node id or block of data as one copy lays it down: width, kind, value. Reading
a cell of another width or kind than the one at that offset is a misread. The widths
and thresholds are the real ones: 252 and 65535 in the variable-length numbers, 235 and
65514 bytes of a string where a version 4 header grows its own length field by two, 65471
where a version 2 header is full. The bytes of strings and data are left out.

The header of each kind is written and read by different functions of the code, and
by different definitions here: `MessageCells4`, for example, translates
`message_writer_write_header4_ex` and `MessageFields4` `message_reader_read_header4_ex`.
`HeaderSize4` is the size the writer works out before it writes.

| Actions | Code |
|---|---|
| `BeginMessage` ... `EndMessage`, `BeginEntry`, `EndEntry` | `message_writer_*`, `messageentry_writer_*` |
| `BeginNested`, `EndNested`, `WriteRaw` | `messageelement_writer_*`, and through `WriteRaw` the typed writers of `message_data.c` |
| `MoveEntry`, `BeginElements`, `BeginNestedElements`, `MoveElement` | the readers' walk |
| `FindElement`, `FindVerify`, `CopyOut` | `find_element*`, `find_nested_element*`, `read_data*` |
| `Arrive` | what the connection has received: the `message_size` bytes of a finished message, and perhaps the beginning of the next |

Every call of a writer may run out of buffer in the middle of a header; it then fails,
the writers' records stay as they were, and other calls may follow.

The properties on readers are stated for messages that hold an entry: in one that
holds none `begin_read_entries` takes what follows the header for an entry
(`src/message.c:828`). Strings of entries and elements are shorter than 65536 bytes: longer
ones are written in version 2 with their length modulo 65536 (`src/message.c:2540`).

One field does not come back: the code of a member's name. The version 4 writer has a place
for it (`src/message.c:3266`), behind a flag that it never sets
(`src/message.c:3188-3216`), so that the reader, which knows the flag, always
answers 0. `ReadBack` says so, and that it is the only one (`NeverWritten`).

### ServiceNode

The transport is the channel: requests come up one at a time and one message at a
time goes out, with the flags that handlers see (`closing`, `failed`, the send
buffer's state). The state kept is what the service side of `node.c` keeps:
ESTABLISHED, CLIENT_ESTABLISHED and `connection->service`; the rest is history
(`requests`, `handed`, `answers`, `calls`, `told`) that the properties speak of.

There is one action per kind of request (`HandleCreate`, `HandleConnect`,
`HandleDisconnect`, `HandleTest`, `HandleGarbled`, `HandleQuery`,
`HandleKeepAlive`, `HandleOneWay`, `RefuseCall`, `ServeCall`), each the whole of the
path from `run_next_event2` through `run_next_event__service` and
`special_request` and back. They differ in what they do with the three outcomes of a
reply (`Reply`):

| | reply accepted | send buffer held | connection failing or closing |
|---|---|---|---|
| special requests | consumed, state changed | consumed, no answer | ERROR set, consumed |
| service definition, object type, refused call | consumed, answered | consumed, no answer | consumed, connection closed |
| keepalive | consumed, answered | **kept, tried again** | consumed, connection closed |
| call to an object | consumed, answered | consumed, no answer | consumed, connection closed |

One connection is enough: services keep no state of the library's that two
connections share. A reply meets a held buffer because a send step precedes each
event pass but may only send a part.

### ClientNode

The transport is the channel again. The state kept is the flag word as the client
side sees it (`socket` for CLIENT_SOCKET_CONNECTED and its consumption, `connected`,
`client_established`, `close_notified`, `closing`, `failed`),
`struct robotraconteurlite_node_client` (`handshake_state`,
`handshake_request_id`), `last_request_id`, and the request list (`pending`).
`asked`, `ended`, `noticed`, `inbound` and `outbound` are history.

| Actions | Code |
|---|---|
| `Connect`, `SocketConnects`, `Control`, `Receive`, `SendStep`, `TransportError` | the slot below, as in `ServiceNode` |
| `HandleSocket` | the first pass of `client_handshake`: it poses as CONNECTED, draws `last_request_id` and asks CreateConnection |
| `HandshakeGarbled`, `HandshakeTest`, `HandshakeTestRet` | what `special_request` consumes before the handshake sees it |
| `HandshakeCreated`, `HandshakeTyped`, `HandshakeWrongType`, `HandshakeCompleted`, `HandshakeUnexpected` | both switches of `client_handshake` for one message: the answer that is expected, and the next question, which is accepted, refused or met by a held buffer |
| `CompleteRequest`, `CompleteByClient`, `CompleteUnheard`, `DeliverMessage` | `dispatch_response_message` by who owns the request, and `message_received` |
| `SendRequest`, `SendHeartbeat` | `begin_request`, `send_request`, `client_send_heartbeat` |
| `RequestsControl` | `requests_process_control`, at the end of a cycle |
| `ServerAnswers`, `ServerSpeaks` | the server: it answers what it was sent, again among its first `MaxRepeated` messages, or sends a packet, a request of its own or something unreadable |

`local_endpoint` is drawn at random in each session and is represented by the number
of the session; two sessions that draw the same number are left out.
`last_request_id` is drawn at random too, and here every session starts from the
same `FirstId`, so that identifiers of different sessions always collide. The list
is modelled as a set: its order decides only which of several expired requests ends
first, and the model allows any. The application gives every request a timeout and
does not reuse a request that is still in the list; what happens when it does is
listed among the hazards. The client expects an object type (with an empty
`expected_root_object_type` any answer is accepted).

## The runs

| Run | Question | Bounds | Distinct states |
|---|---|---|---|
| `slot` | are messages whole and in order, however they are cut; does a session inherit anything; is the slot a channel; does the loop sleep over work? | 2 messages in, of 3 or 4 bytes or with a size field of 0, and 1 out, buffer 6, first read 4, header 2, 2 sessions | 4.45 M |
| `progress` | do messages arrive and leave, is the send buffer never overwritten, does the slot come back? | 2 messages in and 2 out, 1 session | 317 k |
| `connecterror` | is a failed connection attempt reported? (no) | one attempt | 67 |
| `service_requests` | who is a client of what, who is served, who is told, what is answered? | 2 services, 2 sessions, 3 requests of 5 kinds in each | 5.20 M |
| `service_progress` | every kind of request against every state of the send buffer: are requests taken, losses reported? | 2 requests of 10 kinds, 1 own message | 55 k |
| `service_retry` | the finding below | as small as it shows | |
| `client_requests` | the handshake and requests against repeated, refused, unreadable and unasked messages, a heartbeat, late timeouts and closes: each question once, each request ended once, by its own answer | 2 sessions with the same identifiers, 1 request in each, repeated answers among the first 3 messages, an unasked one first | 3.81 M |
| `client_progress` | do handshakes and requests end, is each loss told? | 2 sessions, 1 request in each with 3 kinds of owner, unasked messages among the first 3 | 57 k |
| `client_stall` | the finding below | as small as it shows | |
| `codec` | is what is read what was written, in both versions, at the lengths where the formats change; does a write that fails harm the rest? | messages of up to 4 entries and elements, buffers of 180 and 70000 bytes, 5 ways to ask for data, 0 or 24 bytes of the next message | 40 k |
| `websocket` | do messages come out whole, unmasked and all, however texts, headers and data are cut? | 2 messages each way of 2 or 6 bytes with short and long headers, first read 3, one of the texts longer than the buffer of 10 or neither | 121 k |
| `pool` | is a descriptor one session's; is every event shown and every peer accepted, however busy the others are? | 2 slots in a row and an acceptor, 2 descriptors, 1 event to a cycle, 3 cycles | 575 k |

Why these bounds are enough to be interesting: two messages with a buffer of one
message and a bit is the smallest instance in which a read takes the end of one
message and the beginning of the next, in which a kept message blocks a later one,
and in which the bytes after a consumed message must be moved; message lengths are
chosen equal to and less than the first read, so that a message shares a read with the
next, stands short of its size or says nothing of it, and the buffer is overrun or just
not. Two sessions are what it takes for state to be
inherited. Three requests are connect, call and disconnect in any order, or a call
between two others. A client that hears nothing unasked
gets three answers in its handshake and one to its request; `MaxUnasked` and
`MaxRepeated` say how far into the session the server may speak by itself or answer
again, and 3 is as far as a repeated answer to the first question can meet the second. A message with two entries, or an entry with two elements one of which is nested,
is the smallest in which a size that is counted in the wrong parent shows. Two
messages of a WebSocket client are the fewest of which one is behind another, with a frame
shorter than the first read and one longer. One event to a
cycle and two slots is the smallest pool in which a slot can be passed over, and two
descriptors the smallest in which a number comes back while an old holder still has it.
What holds for every size is proved (below).

Deadlock is not checked where the environment may stop for good: messages, requests
and sessions are bounded, and a peer may stay silent.

### Fairness

* The loop runs: weak fairness of the control, receive, send and event steps.
* The drain loop is bounded by `max_cycles`, so full passes recur: strong fairness of
  the way from the event pass to control.
* A handler does not answer RETRY for ever, and a pass is not cut short before this
  connection for ever (`max_events` is reset each cycle): strong fairness of
  handling the event.
* A peer that is connected goes on reading what is sent: strong fairness of progress
  in sending; and the network delivers: weak fairness of `Arrive`.
* For the client: a peer that is reachable accepts the connection (strong fairness of
  `SocketConnects`), the server answers the three questions of the handshake (weak
  fairness of `ServerHelps`; one that does not is ended by the heartbeat), and time
  passes, so that a request in the list expires (strong fairness of a timeout in
  `RequestsControl`).
* For `WebSocket`: each side's loop runs and makes progress while it can (weak fairness
  of all its steps together), and a server that is asked answers. Neither the client's
  application nor the drain's framing of a text is under any fairness.
* For `NodePool`: the program calls `poll_connections_run` and `run_events_available` in
  turns and its handlers return (weak fairness of `Loop`), and a sleep ends (weak fairness
  of `Woken`: `node_next_wake` sets a time for it). Nothing is assumed of `WokenByPeer`, or
  of what a handler answers: `EventsSeen` holds although every handler may answer RETRY for
  ever.

Nothing is assumed of errors, closes, heartbeat timeouts, new peers or the
application. `ReceiveProgress` leaves out messages longer than the receive buffer,
which stall the session until the heartbeat ends it. `service_progress` has no
closes by the application (`MayClose` is FALSE), because after one the service is
never told: see the hazards. `client_progress` has neither heartbeats nor requests of
the server, because either can hold the send buffer when the handshake needs it, and
the handshake then stalls: that is the finding `client_stall`.

## What is proved

The modules named `...Proofs`, and `ConnectionRefinement`, prove for every value of the
constants that satisfies the named assumption (`SizeAssumption`, `ServiceAssumption`,
`ClientAssumption`, `PoolAssumption`, `WebSocketAssumption`, `NamesAssumption` and
`WriterAssumption`):

* the type invariant and every safety invariant of `Connection`, `ServiceNode` and
  `ClientNode`, and two action properties of `Connection`;
* that the loop never sleeps on work (`WakeUp`);
* that the slot implements the abstract channel (`ImplementsChannel`), and that both sides
  of a node use their channel only as it allows (`UsesItsChannel`, twice);
* that a session's descriptor is its own (`NodePool`), for every list of slots and
  acceptors and every set of descriptors;
* that messages come out of a WebSocket whole, in order and unmasked until a side reads past
  the end of a frame, that a side does so only when a message was sent before the one ahead
  of it was taken, and that nothing is written past a receive buffer but a text that does not
  fit (`MessagesIntact`): for all lengths of texts and masks, messages of any length that
  fits one frame, any number of them under way, and with the drain. What happens to a text
  that the drain has framed, or that was written past the buffer, is not followed;
* that the writers of messages leave no gap, stay within their buffer and announce the
  length that they have written (`WritersTile`), and begin every message whose header fits
  (`HeadersFit`), in both versions, for all names, numbers, lengths of strings and data,
  structures within structures and sizes of the buffer, whatever calls have failed.

`PROJECT.json` lists the theorems. `ReadsFit`, `SentIsTrue` and `SocketOwned` are proved
from the invariant that the run `slot` checks and have no check of their own.

The argument has the same shape in all of them: an inductive invariant `IInv`, checked by
TLC first, that is the conjunction of the safety properties and of what they need.

* `Connection`: the properties are about bytes in the buffer at one moment, and
  survive a step only because of how the flags and the counters are tied together
  between moments. `FlagInv` says which flags exclude each other (received and
  requested; the four send flags; closed is alone), `IdleInv` that an idle or closed
  slot has nothing left over, `SockInv` that flags that lead to input or output imply
  an open socket, `Contiguous` that messages lie end to end in the stream, `RecvInv`
  that the buffer starts at the end of the last popped message and what its length
  field can be, `SendInv` how far the last accepted message is on the wire by flag.
  These make `CoreInv`, which is inductive; `ReadFits` and `OverrunIsShort` follow from it,
  step by step, and with them it is `IInv`.
  Without `RecvInv`, for example, `WholeMessage` is not preserved by the receive step:
  nothing would say that the buffer starts where a message starts.
* `WakeUp`: that the loop may sleep is about messages that are whole in the buffer and not
  shown, and about sessions that have stopped listening, neither of which `IInv` speaks
  of. `ListenInv` says that a session that may be read either asks for more, or shows a
  message, or is in its handshake; `WholeInv` that a message that is whole is shown;
  `FreshInv` that a server in its handshake has read no length yet. They are preserved
  beside `IInv` (`WakeStep`), and the two imply `NeverSleepsOnWork`.
* `ServiceNode`: `ClientInv` says that an established connection was granted a
  CONNECTCLIENT in this session and not disconnected since, so that a stale service
  pointer is harmless for calls although it is kept; `NoticeInv` that a pointer that
  is not null is the one the last notification was about, which is why "gone" always
  follows "there".
* `ServiceNode` and `ClientNode` as users of the channel: a send step of theirs is "the
  oldest message that is not out goes out", and what the channel needs is that this is the
  one in the buffer: `BufferExact` says that everything queued is out, but the one in the
  buffer if it holds one.
* `ConnectionRefinement`: the channel's queues are read off the offsets of the slot, so
  "one message was taken, the next one" needs more than `IInv` says. `MapInv` adds that the
  application's own messages lie end to end too, and that a socket is open only in a
  session; then every action is the channel's action of the same name or leaves all that
  the channel sees as it is (`QuietStep`).
* `NodePool`: `EachItsOwn` relates the slot's number and the system's table, and survives
  the acceptor because `accept` gives out the lowest free descriptor. That there is a lowest
  needs no bound on the descriptors: it is the well-foundedness of the natural numbers
  (`MinFacts`). `Given` says that the number of a slot in a session is a descriptor at all,
  `EventInv` which slots may have an event to show, `LoopState` which object the loop is at.
* `WebSocket`: `Intact` is about the bytes in one buffer, and what those will be is decided
  by where the other side stands. The invariant therefore lays the frames of a side one
  after another in its stream (`FramesInv`), each a header and the masked data, and says that
  what is on the wire is exactly the stream from the byte up to which the receiver has taken
  it (`Taken`) to the byte up to which the sender has put it (`Put`), byte by byte
  (`WireInv`); `SendInv` says what the sender's positions are in its last frame and that the
  buffer is masked once; `RecvInv` that the receiver's header, its place in the frame, its
  mask and its buffer are those of the bytes taken; `AloneInv` that there is at most one
  message under way if each was sent with those before it taken, so that a read that takes in
  bytes of the frame behind proves that one was not. From such a read on the direction is
  described by `Past` instead: the receiver keeps exactly what it has read past the end, which
  starts with a header and so begins no message (`Strange`). It asks for as much less as it
  is past, which is nothing, and the unsigned subtraction that says so never
  goes below zero; it reads nothing more, and all that may still happen is that it fails. The handshake has
  an invariant of its own, the same about the two texts, and ends in the other
  (`HandshakeStep`); from there `TalkStep` has one lemma for each action. Facts about windows
  of a stream carry the steps: a window may be cut in two, two that touch are one
  (`Windows`), and what is masked and unmasked at the same place is as it was (`Masking`).
* `ClientNode`: `RequestsAccounted` and `OwnAnswer` are about identifiers, which
  sessions share. They survive `SendRequest` only because the new request is in none
  of the old sets: `IdInv` says that the identifiers of the session so far are at most
  `last_request_id`, and `FreshInv` that nothing has been asked before the session's
  socket event, where the counter is drawn anew. `BufferInv` ties the send buffer to
  the history. `AskedInOrder` needs `HandshakeInv`: where `handshake_state` stands says
  which questions have been asked and which answers were heard, so that an answer that is
  repeated meets a state that does not expect it, and the answer to CONNECTCLIENT never
  meets a handshake that has given up. `NoticesInOrder` needs `NoticeInv`: the flags that
  guard the telling (`connected`, `close_notified`, `client_established`) are those of what
  was told.
* `MessageCodec`: `Tiled` speaks of the sum of the widths of all cells, and is preserved
  when a size is filled in later only because the field that is filled in is there and
  has the width that is written, so that no other cell is touched. `WTypes` says that the cells
  lie side by side within the buffer, also those that a call left behind that then failed;
  `Laid` that every byte up to `End` is in one of them, that sizes and counts add up from
  child to parent, and that the message header has its fields to fill in; `Chain` that the
  open entry and structures follow one another as their offsets say, and that the size and
  the count of each are fields of that kind (`Hole`). What the headers look like comes from lemmas about
  their definitions (`MessageShape4` and its like): how long each is, and where the fields
  to fill in are. That the bytes written are as many as the sum says is induction over the
  cells, done as an argument from the least counterexample (`FilledWidth`).

The proofs go by action; steps that leave a part alone share one lemma
(`OnlyPc`, `SendSideKept`, `RecvSideKept`; `QuietSteps`), all handlers of requests
share two summaries (`HandlerStep`, `HandlerEffects`), and the actions of the client
are summarised by what they do to requests, to identifiers, to what was asked and to what
was told (`RequestSteps`, `IdSteps`, `AskedStep`, `NoticeStep`). The slots of the pool have
one lemma for each way in which a turn may change a slot (`FreeFacts`, `BeginFacts`,
`CloseKeeps`), which the actions share.

Only model-checked are

* the liveness properties, because fairness is used through ENABLED, which is outside the
  prover's reach;
* the readers of messages (`ReadBack`, `StandsOnWritten`, `CheckedReads`, `NeverGarbled`,
  `FindsFirst`). A proof would need, for each kind of header, that the reader's definition
  is the inverse of the writer's over any combination of optional fields, and an invariant
  that relates every header in `written` to the cells at its place in the buffer, which
  the proved invariant of the writers does not keep. The widths and thresholds at which
  these could go wrong are those the run uses.

The library's induction theorems take an operator as a parameter, which the installed
provers cannot instantiate; where an induction was needed it is stated as the least
element of a set of naturals (`Least` in `MessageCodecProofs`, `MinFacts` in
`NodePoolProofs`).

## Findings

* `connecterror`: a failed connection attempt sets ERROR in `config_flags` instead of
  `connection_state` (`src/tcp_transport.c:1056`); nobody is told, and the slot polls a
  closed descriptor until the heartbeat timeout.
* `service_retry`: a service object's RETRY is turned into success and its request
  consumed (`src/node.c:2582`), so it is dropped unanswered.
* `client_stall`: the handshake is meant to be resumed by NEXT_CYCLE, which
  `run_next_event2` does not pass on (`src/node.c:2917`); a question that meets a
  heartbeat in the send buffer is never asked.

More that no run shows by itself, because one that did would add nothing to reading
the line, and that the models do: a service is told of a client whose CONNECTCLIENT was refused, through the
pointer an earlier client left in the slot (`src/node.c:2700`); and the error field of the
answer to CONNECTCLIENT is not looked at (`src/node.c:2014`), so that a client that was
refused is told that it is connected. `recv1` asks for 64 bytes whatever room the buffer has
(`src/connection.c:425`); the version 4 writer loses the code of a member's name
(`src/message.c:3188`); the WebSocket side reads frames past their end
(`src/tcp_transport.c:371`), puts a frame around the rest of an HTTP text (`src/node.c:3120`)
and reads texts past the end of the buffer (`src/tcp_transport.c:757`), although
`README.md:26` of the repository says that the transport supports WebSockets; the acceptor's
walk passes over a slot that directly follows another (`src/connection.c:755`); and a refused attempt leaves
its slot a descriptor that is closed (`platform/posix/src/tcp_transport_posix.c:444`). They are
described with their modules, and the hazards name the properties that are stated around
them.

## Plan, and what is not modelled

Still to come, in the order of their importance:

1. Proof that the readers read back what was written: the inverse of each header, and an
   invariant that ties the history `written` to the cells of the buffer.
2. `RequestList`: the linked list as `list_append`, `list_remove` and the walk make it,
   with callbacks that ask anew, refining the set `pending` of `ClientNode`, and requests
   of several connections in one list.
3. The arithmetic of the heartbeat times and of `poll_next_wake`.
4. The URL parser as an operator against a reference definition.

Not modelled, and not planned: vectors of several buffers and conversions of arrays and
strings, node ids, capability lists and service definitions (no state, covered by the
repository's unit tests), the Windows platform (the same contract as the POSIX file),
the Python tools and the examples (they are quoted where they say what the library
should do). Setting up: the list of connection objects is built before the loop starts,
and no example adds to it or takes from it later.
