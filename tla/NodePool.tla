------------------------------ MODULE NodePool ------------------------------
(***************************************************************************)
(* Several slots, an acceptor and the one loop that serves them all        *)
(* (connection.c, tcp_transport.c, node.c, poll.c): the list of connection *)
(* objects that each pass walks, the event queue that goes on where it was *)
(* left, and the descriptors that the system gives out again.              *)
(*                                                                         *)
(* What one slot does with its bytes is Connection's.  Here a slot has a   *)
(* life, a descriptor and at most one thing to show to a handler.          *)
(*                                                                         *)
(* A definition named X_Y is a slip: X as it might be written wrongly.     *)
(***************************************************************************)
EXTENDS Naturals, Sequences, FiniteSetsExt

CONSTANTS
  Objects,      \* the list after its head: "slot" or "acceptor"
  Descriptors,  \* what the system has to give; 0 is none
  MaxEvents,    \* max_events_per_cycle
  MaxCycles     \* max_cycles

ASSUME PoolAssumption ==
  /\ Objects \in Seq({"slot", "acceptor"})
  /\ Descriptors \subseteq Nat \ {0}
  /\ MaxEvents \in Nat \ {0} /\ MaxCycles \in Nat \ {0}

VARIABLES
  slot,    \* of each slot: its life, ERROR, CLOSE_REQUESTED, an event, the descriptor, ISSERVER
  owner,   \* the slot each descriptor was given out for and is open, 0 when it is closed
  next,    \* connections_next, 0 for NULL
  event,   \* the event whose handler runs
  loop,    \* which call the program is in, at which object, events and cycles so far
  peer,    \* a peer waits to be accepted
  failed   \* history: an attempt to connect has failed

vars == <<slot, owner, next, event, loop, peer, failed>>
pool == <<slot, owner>>

Slots == {i \in DOMAIN Objects : Objects[i] = "slot"}

\* connection_next, by the place in the list; connection_first is after the head.
NextAfter(i) == LET later == {j \in Slots : j > i} IN IF later = {} THEN 0 ELSE Min(later)
First == NextAfter(0)

Idle == [life |-> "idle", error |-> FALSE, closing |-> FALSE, event |-> FALSE,
         sock |-> 0, server |-> FALSE]
NoEvent == [slot |-> 0, kind |-> "none"]

Init ==
  /\ slot = [i \in Slots |-> Idle]
  /\ owner = [d \in Descriptors |-> 0]
  /\ next = First /\ event = NoEvent
  /\ loop = [call |-> "poll", at |-> 1, events |-> 0, cycles |-> 0]
  /\ peer = FALSE /\ failed = FALSE

-----------------------------------------------------------------------------
(* Sessions and descriptors *)

IdleSlots == {i \in Slots : slot[i].life = "idle"}
InSession(i) == slot[i].life \in {"connecting", "open"}

\* connection_find_idle: the first of the list.
FindIdle == Min(IdleSlots)

\* The system gives out the lowest descriptor that is closed.
Unused == {d \in Descriptors : owner[d] = 0}

\* accept2 and connect2.
Begin(i, server) ==
  LET d == Min(Unused) IN
  /\ slot' = [slot EXCEPT ![i].life = "connecting", ![i].sock = d, ![i].server = server]
  /\ owner' = [owner EXCEPT ![d] = i]

\* connection_close.
CloseRequested(i) ==
  slot' = [slot EXCEPT ![i].closing = slot[i].life # "idle"]

SystemCloses(d) == owner' = [owner EXCEPT ![d] = 0]

\* The whole flag word is assigned; the descriptor's number stays.
Closed(s) ==
  [s EXCEPT !.life = "closed", !.event = FALSE, !.error = FALSE, !.closing = FALSE]

-----------------------------------------------------------------------------
(* One object's turn in communicate *)

Communicating == loop.call \in {"poll", "woken", "run"} /\ loop.at \in DOMAIN Objects
Turn(i) == Communicating /\ loop.at = i /\ loop' = [loop EXCEPT !.at = @ + 1]

RestingTurn_ClosesAgain(i) ==
  /\ Turn(i) /\ i \in Slots /\ slot[i].life \in {"idle", "closed", "consumed"}
  /\ IF slot[i].life = "consumed"
     THEN slot' = [slot EXCEPT ![i] = Idle] /\ SystemCloses(slot[i].sock)
     ELSE UNCHANGED pool
  /\ UNCHANGED <<next, event, peer, failed>>

\* communicate_process_control returns CONSUMED: reset, or nothing to be done.
RestingTurn(i) ==
  /\ Turn(i) /\ i \in Slots /\ slot[i].life \in {"idle", "closed", "consumed"}
  /\ slot' = [slot EXCEPT ![i] = IF @.life = "consumed" THEN Idle ELSE @]
  /\ UNCHANGED <<owner, next, event, peer, failed>>

ClosingTurn(i) ==
  /\ Turn(i) /\ i \in Slots /\ InSession(i) /\ slot[i].closing
  /\ SystemCloses(slot[i].sock)
  /\ slot' = [slot EXCEPT ![i] = Closed(@)]
  /\ UNCHANGED <<next, event, peer, failed>>

\* Whether the descriptor of a slot can be used: as far as the slot can tell.
Answers(i) == owner[slot[i].sock] # 0
Attempting(i) == slot[i].life = "connecting" /\ ~slot[i].server

\* Input and output go on; an event may show, or the peer may be lost.
SessionTurn(i) ==
  /\ Turn(i) /\ i \in Slots /\ InSession(i) /\ ~slot[i].closing
  /\ \/ slot' = slot
     \/ Answers(i) /\ slot' = [slot EXCEPT ![i].life = "open", ![i].event = TRUE]
     \/ ~Attempting(i) /\ slot' = [slot EXCEPT ![i].error = TRUE]
  /\ UNCHANGED <<owner, next, event, peer, failed>>

\* is_connection_complete finds the attempt refused and closes the descriptor; the slot
\* keeps its number and is told of nothing.
RefusedTurn(i) ==
  /\ Turn(i) /\ i \in Slots /\ Attempting(i) /\ ~slot[i].closing
  /\ Answers(i) /\ SystemCloses(slot[i].sock)
  /\ failed' = TRUE
  /\ UNCHANGED <<slot, next, event, peer>>

AcceptorTurn_LooksAtFirst(i) ==
  /\ Turn(i) /\ Objects[i] = "acceptor"
  /\ \/ /\ peer /\ First \in IdleSlots /\ Unused # {}
        /\ peer' = FALSE
        /\ Begin(First, TRUE) \/ UNCHANGED pool
     \/ /\ ~peer \/ First \notin IdleSlots \/ Unused = {}
        /\ UNCHANGED <<pool, peer>>
  /\ UNCHANGED <<next, event, failed>>

\* accept() may fail after it has taken the peer, when the socket cannot be configured.
AcceptorTurn(i) ==
  /\ Turn(i) /\ Objects[i] = "acceptor"
  /\ \/ /\ peer /\ IdleSlots # {} /\ Unused # {}
        /\ peer' = FALSE
        /\ Begin(FindIdle, TRUE) \/ UNCHANGED pool
     \/ /\ ~peer \/ IdleSlots = {} \/ Unused = {}
        /\ UNCHANGED <<pool, peer>>
  /\ UNCHANGED <<next, event, failed>>

ObjectTurn ==
  \E i \in DOMAIN Objects :
    \/ RestingTurn(i) \/ ClosingTurn(i) \/ SessionTurn(i) \/ RefusedTurn(i) \/ AcceptorTurn(i)

-----------------------------------------------------------------------------
(* The event queue *)

\* What next_event finds at a slot: closed, then an error, then the rest.
Pending(i) ==
  \/ slot[i].life = "closed"
  \/ InSession(i) /\ ((slot[i].error /\ ~slot[i].closing) \/ slot[i].event)
Kind(i) ==
  IF slot[i].life = "closed" THEN "closed"
  ELSE IF slot[i].error /\ ~slot[i].closing THEN "error" ELSE "message"

\* A heartbeat is looked at when there is nothing else.
Kinds(i) == IF Pending(i) THEN {Kind(i)} ELSE {"timeout", "heartbeat"}

FromNext(i) == next # 0 /\ i >= next

\* The slots before the one that is shown have nothing to show.
NextEvent ==
  /\ loop.call = "events" /\ event = NoEvent
  /\ \E i \in Slots :
       /\ slot[i].life # "idle" /\ FromNext(i)
       /\ \A j \in Slots : FromNext(j) /\ j < i => ~Pending(j)
       /\ \E k \in Kinds(i) : event' = [slot |-> i, kind |-> k]
       /\ next' = NextAfter(i)
       \* the node closes the connection before it tells anybody
       /\ IF event'.kind \in {"error", "timeout"} THEN CloseRequested(i) ELSE slot' = slot
  /\ UNCHANGED <<owner, loop, peer, failed>>

NextCycle ==
  /\ loop.call = "events" /\ event = NoEvent
  /\ \A j \in Slots : FromNext(j) => ~Pending(j)
  /\ event' = [slot |-> 0, kind |-> "cycle"] /\ next' = 0
  /\ UNCHANGED <<pool, loop, peer, failed>>

\* max_events are counted by the cycle, which the last of them or NEXT_CYCLE ends; what is
\* left of the list is the next cycle's.
LeftOff_StartsOver(n) == First
LeftOff(n) == IF event.kind = "cycle" THEN First ELSE n

Handled ==
  /\ event' = NoEvent
  /\ next' = LeftOff(next)
  /\ loop' = IF event.kind = "cycle" \/ loop.events + 1 = MaxEvents
             THEN [loop EXCEPT !.call = "decide", !.events = 0]
             ELSE [loop EXCEPT !.events = @ + 1]

\* The handler is done with the event: consume_event.
Consume ==
  LET i == event.slot IN
  /\ event # NoEvent /\ Handled
  /\ slot' = CASE event.kind = "closed" -> [slot EXCEPT ![i].life = "consumed"]
               [] event.kind = "message" -> [slot EXCEPT ![i].event = FALSE]
               [] OTHER -> slot
  /\ UNCHANGED <<owner, peer, failed>>

\* The handler answers RETRY, or fails, which closes the connection.
NotConsumed ==
  /\ event.kind \in {"closed", "message"} /\ Handled
  /\ slot' = slot \/ (event.kind = "message" /\ CloseRequested(event.slot))
  /\ UNCHANGED <<owner, peer, failed>>

-----------------------------------------------------------------------------
(* run_events_available and poll_connections_run *)

AnyPending == \E i \in Slots : Pending(i)

Talking == {i \in Slots : slot[i].life = "open" /\ ~slot[i].closing}

\* The send step of every slot; some of them find their peer gone, others have sent.
Drain ==
  /\ loop.call = "drain"
  /\ \E lost \in SUBSET Talking, sent \in SUBSET Talking :
       slot' = [i \in Slots |-> [slot[i] EXCEPT !.error = @ \/ i \in lost,
                                                !.event = @ \/ i \in sent]]
  /\ loop' = [loop EXCEPT !.call = "events"]
  /\ UNCHANGED <<owner, next, event, peer, failed>>

EndOfPass ==
  /\ loop.call = "run" /\ loop.at > Len(Objects)
  /\ loop' = [loop EXCEPT !.call = "drain"]
  /\ UNCHANGED <<pool, next, event, peer, failed>>

GoesTo(call, cycles) == loop' = [call |-> call, at |-> 1, events |-> 0, cycles |-> cycles]

\* Another drain, another pass, or back to the program: as long as there are events, or
\* sockets that are ready.
Decide ==
  /\ loop.call = "decide"
  /\ \E ready \in BOOLEAN, available \in BOOLEAN :
       LET drained == loop.cycles + 1 IN
       IF (AnyPending \/ ready) /\ drained < MaxCycles THEN GoesTo("drain", drained)
       ELSE IF (AnyPending \/ available) /\ drained + 1 < MaxCycles
       THEN GoesTo("run", drained + 1)
       ELSE GoesTo("poll", 0)
  /\ UNCHANGED <<pool, next, event, peer, failed>>

\* connection_next_wake asks for no wait.
WakesNow(i) == slot[i].life # "idle" /\ (slot[i].closing \/ slot[i].error \/ slot[i].event)

\* poll_connections_run, after the first communicate; the second is done after a wait only,
\* and there is none when a time is already over.
EndOfPoll ==
  /\ loop.call \in {"poll", "woken"} /\ loop.at > Len(Objects)
  /\ \/ GoesTo("run", 0)
     \/ /\ loop.call = "poll" /\ ~AnyPending /\ \A i \in Slots : ~WakesNow(i)
        /\ GoesTo("asleep", 0)
  /\ UNCHANGED <<pool, next, event, peer, failed>>

\* connection_acceptor_impl_prepare_wait goes on from the object after the slot it has
\* looked at, and so leaves out a slot that follows it directly: a peer does not wake the
\* loop for that slot, which then sleeps for its 5 milliseconds.
AskedAbout ==
  LET from[i \in DOMAIN Objects] ==
        {i} \cup (IF i < Len(Objects) /\ NextAfter(i + 1) # 0
                  THEN from[NextAfter(i + 1)] ELSE {})
  IN IF First = 0 THEN {} ELSE from[First]

WantReceive == AskedAbout \cap IdleSlots # {}

WokenByPeer ==
  /\ loop.call = "asleep" /\ peer /\ WantReceive
  /\ GoesTo("woken", 0)
  /\ UNCHANGED <<pool, next, event, peer, failed>>

\* A socket of a slot is ready, or the time is over.
Woken ==
  /\ loop.call = "asleep"
  /\ GoesTo("woken", 0)
  /\ UNCHANGED <<pool, next, event, peer, failed>>

-----------------------------------------------------------------------------
(* The program, in a handler or between two calls, and the peers *)

Program == event # NoEvent \/ (loop.call \in {"poll", "run"} /\ loop.at = 1 /\ loop.cycles = 0)

Close(i) ==
  /\ Program /\ CloseRequested(i)
  /\ UNCHANGED <<owner, next, event, loop, peer, failed>>

Connect ==
  /\ Program /\ IdleSlots # {} /\ Unused # {}
  /\ Begin(FindIdle, FALSE)
  /\ UNCHANGED <<next, event, loop, peer, failed>>

NewPeer ==
  /\ peer' = TRUE
  /\ UNCHANGED <<pool, next, event, loop, failed>>

Loop ==
  \/ ObjectTurn \/ EndOfPass \/ Drain \/ Decide \/ EndOfPoll
  \/ NextEvent \/ NextCycle \/ Consume \/ NotConsumed

Next ==
  \/ Loop \/ WokenByPeer \/ Woken
  \/ Connect \/ NewPeer \/ \E i \in Slots : Close(i)

SafetySpec == Init /\ [][Next]_vars

(***************************************************************************)
(* The program calls poll_connections_run and run_events_available in      *)
(* turns, and its handlers return.  Every sleep ends: node_next_wake sets  *)
(* a time for it (node.c:2367-2370, node.h:25), whether a peer comes that  *)
(* the loop was to be woken for or not.                                    *)
(***************************************************************************)
Spec == SafetySpec /\ WF_vars(Loop) /\ WF_vars(Woken)

-----------------------------------------------------------------------------
(* What the slots can rely on, together *)

\* However busy the other slots are and however often their handlers answer RETRY, and
\* however few events a cycle takes, what a slot has to show is shown (node.c:127-239).
EventsSeen == \A i \in Slots : Pending(i) ~> event.slot = i \/ ~Pending(i)

\* A peer is accepted as long as any slot of the list is idle, however busy the others are,
\* whatever has become of their descriptors, and although the loop may go to sleep with the
\* peer waiting (tcp_transport.c:203-236, connection.c:360-391, poll.c:163-185).
PeersAccepted == peer /\ IdleSlots # {} ~> ~peer \/ IdleSlots = {}

\* As long as no attempt to connect has failed, a session has a descriptor of its own and
\* none is left open without a session, whatever is closed, by whom and how often
\* (connection.c:360-391, tcp_transport.c:1026-1042).
EachItsOwn ==
  ~failed =>
    /\ \A i \in Slots : InSession(i) => owner[slot[i].sock] = i
    /\ \A d \in Descriptors : owner[d] # 0 => InSession(owner[d]) /\ slot[owner[d]].sock = d

-----------------------------------------------------------------------------
(* The inductive invariant behind EachItsOwn *)

SlotState ==
  [life : {"idle", "connecting", "open", "closed", "consumed"}, error : BOOLEAN,
   closing : BOOLEAN, event : BOOLEAN, sock : Descriptors \cup {0}, server : BOOLEAN]

LoopState ==
  [call : {"poll", "woken", "run", "drain", "events", "decide", "asleep"},
   at : Nat, events : Nat, cycles : Nat]

Shown ==
  [slot : Slots \cup {0},
   kind : {"none", "closed", "error", "message", "timeout", "heartbeat", "cycle"}]

\* Every variable keeps its type.
TypeOK ==
  /\ slot \in [Slots -> SlotState]
  /\ owner \in [Descriptors -> Slots \cup {0}]
  /\ next \in Slots \cup {0}
  /\ event \in Shown /\ loop \in LoopState
  /\ peer \in BOOLEAN /\ failed \in BOOLEAN

\* A handler runs in the event queue, and the slot whose close it is told of is not
\* taken again before it is done.
EventInv ==
  /\ event # NoEvent => loop.call = "events"
  /\ event.kind \in {"closed", "message"} => event.slot \in Slots
  /\ event.kind = "closed" => slot[event.slot].life = "closed"

\* A session's descriptor is one of the system's.
Given == ~failed => \A i \in Slots : InSession(i) => slot[i].sock \in Descriptors

IInv == TypeOK /\ EventInv /\ Given /\ EachItsOwn
=============================================================================
