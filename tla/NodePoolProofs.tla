--------------------------- MODULE NodePoolProofs ---------------------------
(***************************************************************************)
(* Proofs about NodePool, for any list of slots and acceptors, any set of  *)
(* descriptors and any bounds of the loop: who has which descriptor.       *)
(***************************************************************************)
EXTENDS NodePool, WellFoundedInduction, TLAPS

\* The library's fact about a set of any kind.
LEMMA Minimal ==
  ASSUME NEW R, NEW N, IsWellFoundedOn(R, N), NEW S, S \subseteq N, S # {}
  PROVE  \E x \in S : \A y \in S : ~(<<y, x>> \in R)
BY WFMin, Zenon

\* The least of a set of numbers is one of them.
LEMMA MinFacts ==
  ASSUME NEW S, S \subseteq Nat, S # {}
  PROVE  Min(S) \in S /\ \A y \in S : Min(S) <= y
<1>1. \A a, b \in Nat : a < b => <<a, b>> \in OpToRel(<, Nat)
  <2> SUFFICES ASSUME NEW a \in Nat, NEW b \in Nat, a < b
               PROVE  <<a, b>> \in OpToRel(<, Nat)
    OBVIOUS
  <2>1. <<a, b>> \in {ss \in Nat \X Nat : ss[1] < ss[2]}
    OBVIOUS
  <2> QED
    BY <2>1, Zenon DEF OpToRel
<1>2. \E x \in S : \A y \in S : x <= y
  <2>1. PICK x \in S : \A y \in S : ~(<<y, x>> \in OpToRel(<, Nat))
    BY Minimal, NatLessThanWellFounded, Zenon
  <2>2. \A y \in S : ~(y < x)
    BY <1>1, <2>1, Zenon
  <2> QED
    BY <2>2
<1> QED
  BY <1>2 DEF Min

LEMMA SlotFacts ==
  /\ Slots \subseteq Nat \ {0}
  /\ First \in Slots \cup {0}
  /\ \A i : NextAfter(i) \in Slots \cup {0}
<1>1. Slots \subseteq Nat \ {0}
  BY PoolAssumption DEF Slots
<1>2. ASSUME NEW i PROVE NextAfter(i) \in Slots \cup {0}
  <2> DEFINE later == {j \in Slots : j > i}
  <2>1. CASE later = {}
    BY <2>1 DEF NextAfter
  <2>2. CASE later # {}
    <3>1. Min(later) \in later
      BY <1>1, <2>2, MinFacts
    <3> QED
      BY <2>2, <3>1 DEF NextAfter
  <2> QED
    BY <2>1, <2>2
<1> QED
  BY <1>1, <1>2 DEF First

LEMMA FreeFacts ==
  /\ IdleSlots # {} => FindIdle \in Slots /\ slot[FindIdle].life = "idle"
  /\ Unused # {} => Min(Unused) \in Descriptors /\ owner[Min(Unused)] = 0
<1>1. IdleSlots \subseteq Nat /\ Unused \subseteq Nat
  BY SlotFacts, PoolAssumption DEF IdleSlots, Unused
<1>2. IdleSlots # {} => FindIdle \in IdleSlots
  BY <1>1, MinFacts DEF FindIdle
<1>3. Unused # {} => Min(Unused) \in Unused
  BY <1>1, MinFacts
<1> QED
  BY <1>2, <1>3 DEF IdleSlots, Unused

-----------------------------------------------------------------------------
(* What a step makes of the sessions *)

\* The sessions are those there were, with their descriptors.
KeepsSessions ==
  /\ slot' \in [Slots -> SlotState] /\ owner' = owner /\ failed' = failed
  /\ \A i \in Slots :
       /\ InSession(i)' <=> InSession(i)
       /\ InSession(i) => slot'[i].sock = slot[i].sock

\* A session begins with a descriptor that nobody has.
Begins(i, d) ==
  /\ slot[i].life = "idle" /\ owner[d] = 0 /\ failed' = failed
  /\ slot' \in [Slots -> SlotState] /\ InSession(i)' /\ slot'[i].sock = d
  /\ \A j \in Slots \ {i} : slot'[j] = slot[j]
  /\ owner' = [owner EXCEPT ![d] = i]

\* A session ends, and its descriptor is given back.
EndsSession(i) ==
  /\ InSession(i) /\ ~InSession(i)' /\ failed' = failed
  /\ slot' \in [Slots -> SlotState]
  /\ \A j \in Slots \ {i} : slot'[j] = slot[j]
  /\ owner' = [owner EXCEPT ![slot[i].sock] = 0]

LEMMA BeginFacts ==
  ASSUME TypeOK, IdleSlots # {}, Unused # {}, NEW s \in BOOLEAN, Begin(FindIdle, s),
         failed' = failed
  PROVE  \E i \in Slots, d \in Descriptors : Begins(i, d)
<1> DEFINE i == FindIdle
           d == Min(Unused)
<1>1. i \in Slots /\ slot[i].life = "idle" /\ d \in Descriptors /\ owner[d] = 0
  BY FreeFacts
<1>2. /\ slot' = [slot EXCEPT ![i].life = "connecting", ![i].sock = d, ![i].server = s]
      /\ owner' = [owner EXCEPT ![d] = i]
  BY DEF Begin
<1> HIDE DEF i, d
<1>3. slot \in [Slots -> SlotState]
  BY DEF TypeOK
<1>4. /\ slot' \in [Slots -> SlotState]
      /\ slot'[i].life = "connecting" /\ slot'[i].sock = d
      /\ \A j \in Slots \ {i} : slot'[j] = slot[j]
  <2> DEFINE begun == [slot[i] EXCEPT !.life = "connecting", !.sock = d, !.server = s]
  <2>1. slot' = [slot EXCEPT ![i] = begun]
    BY <1>1, <1>2, <1>3
  <2>2. slot[i] \in SlotState
    BY <1>1, <1>3
  <2>3. begun \in SlotState /\ begun.life = "connecting" /\ begun.sock = d
    BY <1>1, <2>2 DEF SlotState
  <2> HIDE DEF begun
  <2> QED
    BY <1>1, <1>3, <2>1, <2>3
<1> QED
  BY <1>1, <1>2, <1>4 DEF Begins, InSession

LEMMA CloseKeeps ==
  ASSUME TypeOK, NEW i \in Slots, CloseRequested(i), owner' = owner, failed' = failed
  PROVE  KeepsSessions
<1> DEFINE close == slot[i].life # "idle"
           after == [slot[i] EXCEPT !.closing = close]
<1>1. slot \in [Slots -> SlotState] /\ slot[i] \in SlotState
  BY DEF TypeOK
<1>2. slot' = [slot EXCEPT ![i] = after]
  BY DEF CloseRequested
<1>3. after \in SlotState /\ after.life = slot[i].life /\ after.sock = slot[i].sock
  BY <1>1 DEF SlotState
<1> HIDE DEF after
<1>4. slot' \in [Slots -> SlotState]
  BY <1>1, <1>2, <1>3
<1>5. ASSUME NEW j \in Slots
      PROVE  slot'[j].life = slot[j].life /\ slot'[j].sock = slot[j].sock
  BY <1>1, <1>2, <1>3
<1> QED
  BY <1>4, <1>5 DEF KeepsSessions, InSession

LEMMA PoolKept ==
  ASSUME TypeOK, UNCHANGED <<pool, failed>>
  PROVE  KeepsSessions
  BY DEF pool, TypeOK, KeepsSessions, InSession

\* An attempt is refused: the slot keeps the number of a descriptor that is closed.
Refuses ==
  /\ failed' /\ slot' = slot
  /\ \E i \in Slots : owner' = [owner EXCEPT ![slot[i].sock] = 0]

LEMMA TurnSteps ==
  ASSUME TypeOK, NEW i \in DOMAIN Objects,
         \/ RestingTurn(i) \/ ClosingTurn(i) \/ SessionTurn(i) \/ RefusedTurn(i)
         \/ AcceptorTurn(i)
  PROVE  \/ KeepsSessions \/ Refuses
         \/ \E j \in Slots, d \in Descriptors : Begins(j, d)
         \/ \E j \in Slots : EndsSession(j)
<1>0. slot \in [Slots -> SlotState]
  BY DEF TypeOK
<1>1. CASE RestingTurn(i)
  <2> DEFINE after == IF slot[i].life = "consumed" THEN Idle ELSE slot[i]
  <2>1. i \in Slots /\ slot' = [slot EXCEPT ![i] = after] /\ UNCHANGED <<owner, failed>>
    BY <1>0, <1>1 DEF RestingTurn
  <2>2. /\ after \in SlotState /\ ~InSession(i)
        /\ after.life \notin {"connecting", "open"}
    BY <1>0, <1>1 DEF RestingTurn, Idle, SlotState, InSession
  <2> HIDE DEF after
  <2> QED
    BY <1>0, <2>1, <2>2 DEF KeepsSessions, InSession
<1>2. CASE ClosingTurn(i)
  <2> DEFINE after == Closed(slot[i])
  <2>1. /\ i \in Slots /\ slot' = [slot EXCEPT ![i] = after] /\ InSession(i)
        /\ owner' = [owner EXCEPT ![slot[i].sock] = 0] /\ failed' = failed
    BY <1>0, <1>2 DEF ClosingTurn, SystemCloses
  <2>2. after \in SlotState /\ after.life = "closed"
    BY <1>0, <2>1 DEF Closed, SlotState
  <2> HIDE DEF after
  <2> QED
    BY <1>0, <2>1, <2>2 DEF EndsSession, InSession
<1>3. CASE SessionTurn(i)
  <2>1. /\ i \in Slots /\ InSession(i) /\ UNCHANGED <<owner, failed>>
        /\ \/ slot' = slot
           \/ slot' = [slot EXCEPT ![i].life = "open", ![i].event = TRUE]
           \/ slot' = [slot EXCEPT ![i].error = TRUE]
    BY <1>3 DEF SessionTurn
  <2>2. CASE slot' = slot
    BY <1>0, <2>1, <2>2 DEF KeepsSessions, InSession
  <2>3. ASSUME NEW after \in SlotState, slot' = [slot EXCEPT ![i] = after],
               after.life \in {"connecting", "open"}, after.sock = slot[i].sock
        PROVE  KeepsSessions
    BY <1>0, <2>1, <2>3 DEF KeepsSessions, InSession
  <2>4. CASE slot' = [slot EXCEPT ![i].life = "open", ![i].event = TRUE]
    <3> DEFINE after == [slot[i] EXCEPT !.life = "open", !.event = TRUE]
    <3>1. slot' = [slot EXCEPT ![i] = after]
      BY <1>0, <2>1, <2>4
    <3>2. after \in SlotState /\ after.life = "open" /\ after.sock = slot[i].sock
      <4>1. slot[i] \in SlotState
        BY <1>0, <2>1
      <4> QED
        BY <4>1 DEF SlotState
    <3> HIDE DEF after
    <3> QED
      BY <2>3, <3>1, <3>2
  <2>5. CASE slot' = [slot EXCEPT ![i].error = TRUE]
    <3> DEFINE after == [slot[i] EXCEPT !.error = TRUE]
    <3>1. slot' = [slot EXCEPT ![i] = after]
      BY <1>0, <2>1, <2>5
    <3>2. /\ after \in SlotState /\ after.sock = slot[i].sock
          /\ after.life \in {"connecting", "open"}
      <4>1. slot[i] \in SlotState /\ slot[i].life \in {"connecting", "open"}
        BY <1>0, <2>1 DEF InSession
      <4> QED
        BY <4>1 DEF SlotState
    <3> HIDE DEF after
    <3> QED
      BY <2>3, <3>1, <3>2
  <2> QED
    BY <2>1, <2>2, <2>4, <2>5
<1>4. CASE RefusedTurn(i)
  BY <1>4 DEF RefusedTurn, SystemCloses, Refuses
<1>5. CASE AcceptorTurn(i)
  <2>1. CASE UNCHANGED pool
    BY <1>5, <2>1, PoolKept DEF AcceptorTurn
  <2>2. CASE IdleSlots # {} /\ Unused # {} /\ Begin(FindIdle, TRUE)
    BY <1>5, <2>2, BeginFacts DEF AcceptorTurn
  <2> QED
    BY <1>5, <2>1, <2>2 DEF AcceptorTurn
<1> QED
  BY <1>1, <1>2, <1>3, <1>4, <1>5

LEMMA SessionSteps ==
  ASSUME TypeOK, EventInv, [Next]_vars
  PROVE  \/ KeepsSessions \/ Refuses
         \/ \E j \in Slots, d \in Descriptors : Begins(j, d)
         \/ \E j \in Slots : EndsSession(j)
<1>0. slot \in [Slots -> SlotState]
  BY DEF TypeOK
<1>1. CASE ObjectTurn
  BY <1>1, TurnSteps DEF ObjectTurn
<1>2. CASE EndOfPass \/ Decide \/ EndOfPoll \/ NextCycle \/ WokenByPeer \/ Woken \/ NewPeer
           \/ UNCHANGED vars
  BY <1>2, PoolKept, SMTT(40) DEF EndOfPass, Decide, EndOfPoll, NextCycle, WokenByPeer, Woken,
                        NewPeer, vars, pool
<1>3. CASE Drain
  <2>1. PICK lost \in SUBSET Talking, sent \in SUBSET Talking :
          slot' = [i \in Slots |-> [slot[i] EXCEPT !.error = @ \/ i \in lost,
                                                   !.event = @ \/ i \in sent]]
    BY <1>3 DEF Drain
  <2>2. ASSUME NEW i \in Slots
        PROVE  /\ slot'[i] \in SlotState
               /\ slot'[i].life = slot[i].life /\ slot'[i].sock = slot[i].sock
    <3>1. slot[i] \in SlotState
      BY <1>0
    <3> QED
      BY <2>1, <3>1 DEF SlotState
  <2>3. slot' \in [Slots -> SlotState]
    BY <2>1, <2>2
  <2> QED
    BY <1>3, <2>2, <2>3, ZenonT(60) DEF Drain, KeepsSessions, InSession
<1>4. CASE NextEvent
  <2>1. PICK i \in Slots :
          IF event'.kind \in {"error", "timeout"} THEN CloseRequested(i) ELSE slot' = slot
    BY <1>4 DEF NextEvent
  <2>2. owner' = owner /\ failed' = failed
    BY <1>4 DEF NextEvent
  <2> QED
    BY <2>1, <2>2, CloseKeeps, PoolKept DEF pool
<1>5. CASE Consume
  <2> DEFINE i == event.slot
  <2>1. /\ owner' = owner /\ failed' = failed
        /\ slot' = CASE event.kind = "closed" -> [slot EXCEPT ![i].life = "consumed"]
                     [] event.kind = "message" -> [slot EXCEPT ![i].event = FALSE]
                     [] OTHER -> slot
    BY <1>5 DEF Consume
  <2>2. CASE event.kind = "closed"
    <3> DEFINE after == [slot[i] EXCEPT !.life = "consumed"]
    <3>1. i \in Slots /\ slot[i].life = "closed"
      BY <2>2 DEF EventInv
    <3>2. slot' = [slot EXCEPT ![i] = after]
      BY <1>0, <2>1, <2>2, <3>1
    <3>3. after \in SlotState /\ after.life = "consumed"
      BY <1>0, <3>1 DEF SlotState
    <3> HIDE DEF after, i
    <3> QED
      BY <1>0, <2>1, <3>1, <3>2, <3>3 DEF KeepsSessions, InSession
  <2>3. CASE event.kind = "message"
    <3> DEFINE after == [slot[i] EXCEPT !.event = FALSE]
    <3>1. i \in Slots
      BY <2>3 DEF EventInv
    <3>2. slot' = [slot EXCEPT ![i] = after]
      BY <1>0, <2>1, <2>3, <3>1
    <3>3. after \in SlotState /\ after.life = slot[i].life /\ after.sock = slot[i].sock
      <4>1. slot[i] \in SlotState
        BY <1>0, <3>1
      <4> QED
        BY <4>1 DEF SlotState
    <3> HIDE DEF after, i
    <3> QED
      BY <1>0, <2>1, <3>1, <3>2, <3>3 DEF KeepsSessions, InSession
  <2>4. CASE event.kind \notin {"closed", "message"}
    BY <2>1, <2>4, PoolKept DEF pool
  <2> QED
    BY <2>2, <2>3, <2>4
<1>6. CASE NotConsumed
  <2>1. /\ owner' = owner /\ failed' = failed
        /\ \/ slot' = slot
           \/ event.slot \in Slots /\ CloseRequested(event.slot)
    BY <1>6 DEF NotConsumed, EventInv
  <2> QED
    BY <2>1, CloseKeeps, PoolKept DEF pool
<1>7. CASE Connect
  BY <1>7, BeginFacts DEF Connect
<1>8. ASSUME NEW i \in Slots, Close(i) PROVE KeepsSessions
  BY <1>8, CloseKeeps DEF Close
<1> QED
  BY <1>1, <1>2, <1>3, <1>4, <1>5, <1>6, <1>7, <1>8 DEF Next, Loop

\* Every session keeps its own descriptor, until an attempt to connect has failed.
LEMMA OwnStep ==
  ASSUME IInv, [Next]_vars
  PROVE  /\ slot' \in [Slots -> SlotState] /\ owner' \in [Descriptors -> Slots \cup {0}]
         /\ failed' \in BOOLEAN /\ Given' /\ EachItsOwn'
<1>0. /\ slot \in [Slots -> SlotState] /\ owner \in [Descriptors -> Slots \cup {0}]
      /\ failed \in BOOLEAN /\ TypeOK /\ EventInv /\ 0 \notin Slots /\ 0 \notin Descriptors
  BY SlotFacts, PoolAssumption DEF IInv, TypeOK
<1>1. CASE KeepsSessions
  BY <1>0, <1>1 DEF IInv, KeepsSessions, Given, EachItsOwn
<1>2. CASE Refuses
  BY <1>0, <1>2 DEF Refuses, Given, EachItsOwn
<1>3. ASSUME NEW i \in Slots, NEW d \in Descriptors, Begins(i, d)
      PROVE  /\ slot' \in [Slots -> SlotState]
             /\ owner' \in [Descriptors -> Slots \cup {0}]
             /\ failed' \in BOOLEAN /\ Given' /\ EachItsOwn'
  <2>1. /\ ~InSession(i) /\ InSession(i)' /\ slot'[i].sock = d /\ owner'[d] = i
        /\ \A c \in Descriptors \ {d} : owner'[c] = owner[c]
        /\ \A j \in Slots \ {i} :
             slot'[j] = slot[j] /\ (InSession(j)' <=> InSession(j))
    BY <1>0, <1>3 DEF Begins, InSession
  <2>2. Given'
    BY <1>3, <2>1 DEF IInv, Begins, Given
  <2>3. EachItsOwn'
    <3>1. ASSUME ~failed, NEW j \in Slots, InSession(j)'
          PROVE  owner'[slot'[j].sock] = j
      <4>1. CASE j = i
        BY <2>1, <4>1
      <4>2. CASE j # i
        <5>1. /\ InSession(j) /\ slot'[j] = slot[j] /\ slot[j].sock \in Descriptors
              /\ owner[slot[j].sock] = j
          BY <2>1, <3>1, <4>2 DEF IInv, Given, EachItsOwn
        <5>2. slot[j].sock # d
          BY <1>0, <1>3, <5>1 DEF Begins
        <5> QED
          BY <2>1, <5>1, <5>2
      <4> QED
        BY <4>1, <4>2
    <3>2. ASSUME ~failed, NEW c \in Descriptors, owner'[c] # 0
          PROVE  /\ slot'[owner'[c]].life \in {"connecting", "open"}
                 /\ slot'[owner'[c]].sock = c
      <4>1. CASE c = d
        BY <2>1, <4>1 DEF InSession
      <4>2. CASE c # d
        <5>1. owner'[c] = owner[c] /\ owner[c] \in Slots
          BY <1>0, <2>1, <3>2, <4>2
        <5>2. InSession(owner[c]) /\ slot[owner[c]].sock = c
          BY <3>2, <5>1 DEF IInv, EachItsOwn
        <5>3. owner[c] # i
          BY <2>1, <5>2
        <5> QED
          BY <2>1, <5>1, <5>2, <5>3 DEF InSession
      <4> QED
        BY <4>1, <4>2
    <3> QED
      BY <1>3, <3>1, <3>2 DEF Begins, EachItsOwn, InSession
  <2> QED
    BY <1>0, <1>3, <2>2, <2>3 DEF Begins
<1>4. ASSUME NEW i \in Slots, EndsSession(i)
      PROVE  /\ slot' \in [Slots -> SlotState]
             /\ owner' \in [Descriptors -> Slots \cup {0}]
             /\ failed' \in BOOLEAN /\ Given' /\ EachItsOwn'
  <2>1. /\ InSession(i) /\ ~InSession(i)'
        /\ \A c \in Descriptors :
             owner'[c] = IF c = slot[i].sock THEN 0 ELSE owner[c]
        /\ \A j \in Slots \ {i} :
             slot'[j] = slot[j] /\ (InSession(j)' <=> InSession(j))
    BY <1>0, <1>4 DEF EndsSession, InSession
  <2>2. Given'
    BY <1>4, <2>1 DEF IInv, EndsSession, Given
  <2>3. EachItsOwn'
    <3>1. ASSUME ~failed, NEW j \in Slots, InSession(j)'
          PROVE  owner'[slot'[j].sock] = j
      <4>1. j # i /\ InSession(j) /\ slot'[j] = slot[j]
        BY <2>1, <3>1
      <4>2. /\ slot[j].sock \in Descriptors /\ owner[slot[j].sock] = j
            /\ owner[slot[i].sock] = i
        BY <2>1, <3>1, <4>1 DEF IInv, Given, EachItsOwn
      <4> QED
        BY <2>1, <4>1, <4>2
    <3>2. ASSUME ~failed, NEW c \in Descriptors, owner'[c] # 0
          PROVE  /\ slot'[owner'[c]].life \in {"connecting", "open"}
                 /\ slot'[owner'[c]].sock = c
      <4>1. c # slot[i].sock /\ owner'[c] = owner[c] /\ owner[c] \in Slots
        BY <1>0, <2>1, <3>2
      <4>2. InSession(owner[c]) /\ slot[owner[c]].sock = c
        BY <3>2, <4>1 DEF IInv, EachItsOwn
      <4> QED
        BY <2>1, <4>1, <4>2 DEF InSession
    <3> QED
      BY <1>4, <3>1, <3>2 DEF EndsSession, EachItsOwn, InSession
  <2> QED
    BY <1>0, <1>4, <2>2, <2>3 DEF EndsSession
<1> QED
  BY <1>0, <1>1, <1>2, <1>3, <1>4, SessionSteps

-----------------------------------------------------------------------------
(* The loop and its handlers *)

LoopTyped ==
  /\ next' \in Slots \cup {0}
  /\ event' \in Shown /\ loop' \in LoopState
  /\ peer' \in BOOLEAN

\* Outside the event queue there is no handler.
LEMMA NoHandler ==
  ASSUME EventInv, loop.call # "events", event' = event
  PROVE  event' = NoEvent /\ EventInv'
<1>1. event' = NoEvent
  BY DEF EventInv
<1> QED
  BY <1>1 DEF EventInv, NoEvent

LEMMA LoopFacts ==
  ASSUME NEW l \in LoopState
  PROVE  /\ [l EXCEPT !.at = @ + 1] \in LoopState
         /\ [l EXCEPT !.events = @ + 1] \in LoopState
         /\ [l EXCEPT !.call = "decide", !.events = 0] \in LoopState
         /\ \A call \in {"drain", "events"} : [l EXCEPT !.call = call] \in LoopState
<1>1. /\ l.call \in {"poll", "woken", "run", "drain", "events", "decide", "asleep"}
      /\ l.at \in Nat /\ l.events \in Nat /\ l.cycles \in Nat
      /\ l.at + 1 \in Nat /\ l.events + 1 \in Nat
  BY DEF LoopState
<1> QED
  BY <1>1 DEF LoopState

LEMMA LoopStep ==
  ASSUME TypeOK, EventInv, [Next]_vars
  PROVE  LoopTyped /\ EventInv'
<1>0. /\ next \in Slots \cup {0} /\ peer \in BOOLEAN /\ NoEvent.kind = "none"
      /\ loop \in LoopState /\ event \in Shown
      /\ slot \in [Slots -> SlotState] /\ Objects \in Seq({"slot", "acceptor"})
  BY PoolAssumption DEF TypeOK, NoEvent
<1>1. CASE ObjectTurn
  <2>1. PICK i \in DOMAIN Objects :
          /\ Turn(i) /\ next' = next /\ event' = event
          /\ peer' \in {peer, FALSE}
    BY <1>1 DEF ObjectTurn, RestingTurn, ClosingTurn, SessionTurn, RefusedTurn, AcceptorTurn
  <2>2. loop.call # "events" /\ loop' = [loop EXCEPT !.at = @ + 1]
    BY <2>1 DEF Turn, Communicating
  <2>3. loop' \in LoopState
    BY <1>0, <2>2, LoopFacts
  <2>4. event' = NoEvent /\ EventInv'
    BY <2>1, <2>2, NoHandler
  <2> QED
    BY <1>0, <2>1, <2>3, <2>4 DEF LoopTyped
<1>2. ASSUME NEW call \in {"poll", "woken", "run", "drain", "asleep"}, NEW n \in Nat,
             GoesTo(call, n), loop.call # "events", UNCHANGED <<next, event, peer>>
      PROVE  LoopTyped /\ EventInv'
  <2>1. event' = NoEvent /\ EventInv'
    BY <1>2, NoHandler
  <2>2. loop' = [call |-> call, at |-> 1, events |-> 0, cycles |-> n]
    BY <1>2 DEF GoesTo
  <2>3. loop' \in LoopState
    BY <2>2 DEF LoopState
  <2> QED
    BY <1>0, <1>2, <2>1, <2>3 DEF LoopTyped
<1>3. CASE EndOfPass \/ Drain
  BY <1>0, <1>3, NoHandler, LoopFacts DEF EndOfPass, Drain, LoopTyped
<1>4. CASE Decide
  <2>1. /\ loop.call = "decide" /\ UNCHANGED <<next, event, peer>>
        /\ \/ GoesTo("drain", loop.cycles + 1)
           \/ GoesTo("run", loop.cycles + 1 + 1)
           \/ GoesTo("poll", 0)
    BY <1>4 DEF Decide
  <2>2. loop.cycles + 1 \in Nat /\ loop.cycles + 1 + 1 \in Nat /\ 0 \in Nat
    BY <1>0 DEF LoopState
  <2> QED
    BY <1>2, <2>1, <2>2
<1>5. CASE EndOfPoll \/ WokenByPeer \/ Woken
  <2>1. /\ loop.call # "events" /\ UNCHANGED <<next, event, peer>>
        /\ GoesTo("run", 0) \/ GoesTo("asleep", 0) \/ GoesTo("woken", 0)
    BY <1>5 DEF EndOfPoll, WokenByPeer, Woken
  <2> QED
    BY <1>2, <2>1
<1>6. CASE NextEvent
  <2>1. PICK i \in Slots :
          \E k \in Kinds(i) :
            /\ event' = [slot |-> i, kind |-> k] /\ next' = NextAfter(i)
            /\ IF k \in {"error", "timeout"} THEN CloseRequested(i) ELSE slot' = slot
    BY <1>6 DEF NextEvent
  <2>2. PICK k \in Kinds(i) :
          /\ event' = [slot |-> i, kind |-> k] /\ next' = NextAfter(i)
          /\ IF k \in {"error", "timeout"} THEN CloseRequested(i) ELSE slot' = slot
    BY <2>1
  <2>3. /\ k \in {"closed", "error", "message", "timeout", "heartbeat"}
        /\ k = "closed" => slot[i].life = "closed"
    BY DEF Kinds, Kind
  <2>4. loop' = loop /\ loop.call = "events" /\ peer' = peer
    BY <1>6 DEF NextEvent
  <2> QED
    BY <1>0, <2>2, <2>3, <2>4, SlotFacts DEF LoopTyped, EventInv, Shown
<1>7. CASE NextCycle
  BY <1>0, <1>7 DEF NextCycle, LoopTyped, EventInv, Shown
<1>8. CASE Consume \/ NotConsumed
  <2>1. Handled /\ peer' = peer
    BY <1>8 DEF Consume, NotConsumed
  <2>2. next' \in Slots \cup {0}
    BY <1>0, <2>1, SlotFacts DEF Handled, LeftOff
  <2>3. loop' \in LoopState
    <3>1. \/ loop' = [loop EXCEPT !.call = "decide", !.events = 0]
          \/ loop' = [loop EXCEPT !.events = @ + 1]
      BY <2>1 DEF Handled
    <3> QED
      BY <1>0, <3>1, LoopFacts
  <2> QED
    BY <1>0, <2>1, <2>2, <2>3 DEF Handled, LoopTyped, EventInv, NoEvent, Shown
<1>9. ASSUME NEW i \in Slots, Close(i)
      PROVE  LoopTyped /\ EventInv'
  <2>1. UNCHANGED <<next, event, loop, peer>> /\ CloseRequested(i)
    BY <1>9 DEF Close
  <2>2. \A j \in Slots : slot'[j].life = slot[j].life
    BY <1>0, <2>1 DEF CloseRequested, SlotState
  <2> QED
    BY <1>0, <2>1, <2>2 DEF LoopTyped, EventInv
<1>10. CASE Connect
  <2>1. UNCHANGED <<next, event, loop, peer>> /\ IdleSlots # {} /\ Begin(FindIdle, FALSE)
    BY <1>10 DEF Connect
  <2>2. FindIdle \in Slots /\ slot[FindIdle].life = "idle"
    BY <2>1, FreeFacts
  <2>3. \A j \in Slots : slot[j].life = "closed" => slot'[j] = slot[j]
    BY <1>0, <2>1, <2>2 DEF Begin
  <2> QED
    BY <1>0, <2>1, <2>3 DEF LoopTyped, EventInv
<1>11. CASE NewPeer \/ UNCHANGED vars
  BY <1>0, <1>11 DEF NewPeer, vars, pool, LoopTyped, EventInv
<1> QED
  BY <1>1, <1>3, <1>4, <1>5, <1>6, <1>7, <1>8, <1>9, <1>10, <1>11 DEF Next, Loop

LEMMA InitIInv == Init => IInv
<1> SUFFICES ASSUME Init PROVE IInv
  OBVIOUS
<1>1. Idle \in SlotState /\ ~(Idle.life \in {"connecting", "open"})
  BY DEF Idle, SlotState
<1>2. TypeOK
  BY <1>1, SlotFacts DEF Init, TypeOK, NoEvent, LoopState, Shown
<1>3. \A i \in Slots : ~InSession(i)
  BY <1>1 DEF Init, InSession
<1> QED
  BY <1>2, <1>3 DEF Init, IInv, EventInv, NoEvent, Given, EachItsOwn

-----------------------------------------------------------------------------
(* The theorems *)

\* IInv is inductive: it holds of every state the pool reaches.
THEOREM Invariance == SafetySpec => []IInv
<1>1. Init => IInv
  BY InitIInv
<1>2. IInv /\ [Next]_vars => IInv'
  <2> SUFFICES ASSUME IInv, [Next]_vars PROVE IInv'
    OBVIOUS
  <2>1. LoopTyped /\ EventInv'
    BY LoopStep DEF IInv
  <2>2. TypeOK' /\ Given' /\ EachItsOwn'
    BY <2>1, OwnStep DEF LoopTyped, TypeOK
  <2> QED
    BY <2>1, <2>2 DEF IInv
<1> QED
  BY <1>1, <1>2, PTL DEF SafetySpec

\* connection.c, tcp_transport.c: while no attempt to connect has failed, a session has a
\* descriptor that no other session has, and a descriptor that is open has its session,
\* for any number of slots, acceptors and descriptors.
THEOREM DescriptorsAreOwned == SafetySpec => []EachItsOwn
<1>1. IInv => EachItsOwn
  BY DEF IInv
<1> QED
  BY <1>1, Invariance, PTL
=============================================================================
