-------------------------- MODULE WebSocketProofs ---------------------------
(***************************************************************************)
(* Proofs about WebSocket: until a side has read past the end of a frame,  *)
(* messages come out whole and unmasked, however many are under way and    *)
(* however the reads and writes of texts, headers and data are cut, for    *)
(* all sizes and lengths.                                                  *)
(***************************************************************************)
EXTENDS WebSocket, SequenceTheorems, TLAPS

-----------------------------------------------------------------------------
(* Streams of bytes given by their windows *)

LEMMA Streams ==
  ASSUME NEW n \in Nat, NEW f, f = [i \in 1..n |-> f[i]]
  PROVE  f \in Seq({f[i] : i \in 1..n}) /\ Len(f) = n /\ DOMAIN f = 1..n
<1> DEFINE S == {f[i] : i \in 1..n}
<1>1. f \in [1..n -> S]
  <2>1. \A i \in 1..n : f[i] \in S
    OBVIOUS
  <2> HIDE DEF S
  <2> QED BY <2>1
<1>2. f \in Seq(S)
  BY <1>1, SeqDef
<1>3. DOMAIN f = 1..n
  OBVIOUS
<1>4. Len(f) = n
  BY <1>2, <1>3, LenProperties
<1> QED BY <1>2, <1>3, <1>4

LEMMA Joined ==
  ASSUME NEW n \in Nat, NEW m \in Nat, NEW f, NEW g,
         f = [i \in 1..n |-> f[i]], g = [i \in 1..m |-> g[i]]
  PROVE  f \o g = [i \in 1..n + m |-> IF i <= n THEN f[i] ELSE g[i - n]]
<1> DEFINE S == {f[i] : i \in 1..n} \cup {g[i] : i \in 1..m}
<1>1. f \in Seq({f[i] : i \in 1..n}) /\ Len(f) = n
  BY Streams
<1>2. g \in Seq({g[i] : i \in 1..m}) /\ Len(g) = m
  BY Streams
<1>3. f \in Seq(S) /\ g \in Seq(S)
  BY <1>1, <1>2, SeqMonotonic
<1> HIDE DEF S
<1> DEFINE h == f \o g
<1>4. /\ h \in Seq(S) /\ Len(h) = Len(f) + Len(g)
      /\ \A i \in 1..Len(f) + Len(g) : h[i] = IF i <= Len(f) THEN f[i] ELSE g[i - Len(f)]
  BY <1>3, ConcatProperties, Zenon
<1> HIDE DEF h
<1>5. /\ h \in Seq(S) /\ Len(h) = n + m
      /\ \A i \in 1..n + m : h[i] = IF i <= n THEN f[i] ELSE g[i - n]
  BY <1>1, <1>2, <1>4
<1>6. h = [i \in 1..n + m |-> h[i]]
  BY <1>5
<1>7. h = [i \in 1..n + m |-> IF i <= n THEN f[i] ELSE g[i - n]]
  BY <1>5, <1>6
<1> QED BY <1>7 DEF h

LEMMA Cut ==
  ASSUME NEW f, NEW a \in Nat, NEW b \in Nat, a <= b
  PROVE  SubSeq(f, a + 1, b) = [i \in 1..b - a |-> f[a + i]]
<1> DEFINE m == a + 1
<1>1. m \in Int
  OBVIOUS
<1> HIDE DEF m
<1>2. SubSeq(f, m, b) = [i \in 1..1 + b - m |-> f[i + m - 1]]
  BY <1>1 DEF SubSeq
<1>3. 1..1 + b - m = 1..b - a /\ \A i \in 1..b - a : i + m - 1 = a + i
  BY DEF m
<1>4. SubSeq(f, m, b) = [i \in 1..b - a |-> f[a + i]]
  BY <1>2, <1>3
<1> QED BY <1>4 DEF m

LEMMA CutMore ==
  ASSUME NEW f, NEW a \in Nat, NEW k \in Nat
  PROVE  SubSeq(f, a + 1, a + k) = [i \in 1..k |-> f[a + i]]
<1> DEFINE b == a + k
<1>1. b \in Nat /\ a <= b /\ b - a = k
  OBVIOUS
<1> HIDE DEF b
<1>2. SubSeq(f, a + 1, b) = [i \in 1..b - a |-> f[a + i]]
  BY <1>1, Cut
<1>3. SubSeq(f, a + 1, b) = [i \in 1..k |-> f[a + i]]
  BY <1>1, <1>2
<1> QED BY <1>3 DEF b

LEMMA WindowStream ==
  ASSUME NEW F, NEW a \in Nat, NEW b \in Nat, a <= b
  PROVE  /\ Window(F, a, b) = [i \in 1..b - a |-> Window(F, a, b)[i]]
         /\ \A i \in 1..b - a : Window(F, a, b)[i] = F[a + i]
         /\ Len(Window(F, a, b)) = b - a /\ DOMAIN Window(F, a, b) = 1..b - a
<1> DEFINE w == Window(F, a, b)
<1>1. w = [i \in 1..b - a |-> w[i]] /\ \A i \in 1..b - a : w[i] = F[a + i]
  BY DEF Window
<1>2. b - a \in Nat
  OBVIOUS
<1> HIDE DEF w
<1>3. Len(w) = b - a /\ DOMAIN w = 1..b - a
  BY <1>1, <1>2, Streams
<1> QED BY <1>1, <1>3 DEF w

\* Windows are cut into windows, and windows side by side are joined to one.
LEMMA Windows ==
  ASSUME NEW F, NEW a \in Nat, NEW b \in Nat, a <= b
  PROVE  /\ \A n \in 0..b - a : SubSeq(Window(F, a, b), 1, n) = Window(F, a, a + n)
         /\ \A n \in 0..b - a : Rest(Window(F, a, b), n) = Window(F, a + n, b)
         /\ \A c \in Nat : b <= c => Window(F, a, b) \o Window(F, b, c) = Window(F, a, c)
<1> DEFINE w == Window(F, a, b)
<1>1. /\ w = [i \in 1..b - a |-> w[i]] /\ \A i \in 1..b - a : w[i] = F[a + i]
      /\ Len(w) = b - a
  BY WindowStream, ZenonT(60)
<1> b - a \in Nat
  OBVIOUS
<1> HIDE DEF w
<1>2. ASSUME NEW n \in 0..b - a
      PROVE  SubSeq(w, 1, n) = Window(F, a, a + n)
  <2>1. SubSeq(w, 0 + 1, n) = [i \in 1..n - 0 |-> w[0 + i]]
    BY Cut
  <2>2. SubSeq(w, 1, n) = [i \in 1..n |-> w[i]]
    BY <2>1
  <2>3. \A i \in 1..n : w[i] = F[a + i]
    BY <1>1
  <2> QED BY <2>2, <2>3 DEF Window
<1>3. ASSUME NEW n \in 0..b - a
      PROVE  Rest(w, n) = Window(F, a + n, b)
  <2>1. SubSeq(w, n + 1, b - a) = [i \in 1..b - a - n |-> w[n + i]]
    BY Cut
  <2>2. \A i \in 1..b - a - n : w[n + i] = F[a + n + i]
    BY <1>1
  <2>3. b - a - n = b - (a + n)
    OBVIOUS
  <2>4. SubSeq(w, n + 1, b - a) = [i \in 1..b - (a + n) |-> F[a + n + i]]
    BY <2>1, <2>2, <2>3
  <2> QED BY <1>1, <2>4 DEF Rest, Window
<1>4. ASSUME NEW c \in Nat, b <= c
      PROVE  w \o Window(F, b, c) = Window(F, a, c)
  <2> DEFINE v == Window(F, b, c)
  <2>1. /\ v = [i \in 1..c - b |-> v[i]] /\ \A i \in 1..c - b : v[i] = F[b + i]
    BY <1>4, WindowStream, ZenonT(120)
  <2> c - b \in Nat
    BY <1>4
  <2> HIDE DEF v
  <2>2. w \o v = [i \in 1..b - a + (c - b) |-> IF i <= b - a THEN w[i] ELSE v[i - (b - a)]]
    <3> DEFINE k == b - a
              l == c - b
    <3>1. k \in Nat /\ l \in Nat /\ w = [i \in 1..k |-> w[i]] /\ v = [i \in 1..l |-> v[i]]
      BY <1>1, <2>1
    <3> HIDE DEF k, l
    <3>2. w \o v = [i \in 1..k + l |-> IF i <= k THEN w[i] ELSE v[i - k]]
      BY <3>1, Joined, SMTT(90)
    <3> QED BY <3>2 DEF k, l
  <2>3. b - a + (c - b) = c - a
    OBVIOUS
  <2>4. ASSUME NEW i \in 1..c - a
        PROVE  (IF i <= b - a THEN w[i] ELSE v[i - (b - a)]) = F[a + i]
    <3>1. CASE i <= b - a
      BY <1>1, <3>1
    <3>2. CASE ~(i <= b - a)
      <4>1. i - (b - a) \in 1..c - b /\ b + (i - (b - a)) = a + i
        BY <3>2
      <4> QED BY <2>1, <3>2, <4>1
    <3> QED BY <3>1, <3>2
  <2>5. w \o v = [i \in 1..c - a |-> F[a + i]]
    BY <2>2, <2>3, <2>4
  <2> QED BY <2>5 DEF v, Window
<1> QED BY <1>2, <1>3, <1>4 DEF w

LEMMA EmptyWindow ==
  ASSUME NEW F, NEW a \in Nat
  PROVE  Window(F, a, a) = <<>>
BY DEF Window

-----------------------------------------------------------------------------
(* Records keep their fields *)

LEMMA NextFrameShape ==
  ASSUME NEW r, RecvFields(r)
  PROVE  /\ RecvFields(NextFrame(r))
         /\ IF r.in_frame /\ r.frame_pos = r.frame_len
            THEN /\ NextFrame(r).in_frame = FALSE /\ NextFrame(r).frame_len = 0
                 /\ NextFrame(r).frame_pos = 0 /\ NextFrame(r).header = <<>>
                 /\ NextFrame(r).buffer = r.buffer /\ NextFrame(r).mask = r.mask
                 /\ NextFrame(r).message_len = r.message_len
            ELSE NextFrame(r) = r
BY DEF NextFrame, RecvFields

LEMMA PutsTextShape ==
  ASSUME Shapes, NEW s \in Sides, NEW text, NEW pos, NEW k, PutsText(s, text, pos, k)
  PROVE  ConnShape' /\ SendShape'
<1> USE DEF Shapes
<1>1. CASE s = "server" /\ pos + k = Len(text)
  <2>1. /\ send' = [send EXCEPT ![s].buffer = <<>>, ![s].pos = 0]
        /\ conn' = [conn EXCEPT ![s] = Opened(@)]
    BY <1>1 DEF PutsText
  <2>2. SendShape'
    BY <2>1 DEF SendShape, SendFields
  <2>3. ConnShape'
    BY <2>1, ZenonT(120) DEF ConnShape, Opened
  <2> QED BY <2>2, <2>3
<1>2. CASE ~(s = "server" /\ pos + k = Len(text))
  <2>1. /\ send' = [send EXCEPT ![s].buffer = text, ![s].pos = pos + k]
        /\ conn' = [conn EXCEPT ![s].sending = IF pos + k = Len(text) THEN "free" ELSE "sending"]
    BY <1>2 DEF PutsText
  <2>2. SendShape'
    BY <2>1 DEF SendShape, SendFields
  <2>3. ConnShape'
    BY <2>1, ZenonT(120) DEF ConnShape
  <2> QED BY <2>2, <2>3
<1> QED BY <1>1, <1>2

LEMMA FrameShape ==
  ASSUME Shapes, NEW s \in Sides, NEW f, SendFields(f), NEW k, NEW l, PutsFrame(s, f, k, l)
  PROVE  ConnShape' /\ SendShape'
<1> USE DEF Shapes
<1> DEFINE x == f.header_pos + k
           y == f.frame_pos + l
           g == [f EXCEPT !.header_pos = x, !.frame_pos = y]
           h == IF g.frame_pos = g.frame_end THEN FrameDone(g) ELSE g
<1>1. send' = [send EXCEPT ![s] = h] /\ conn' = [conn EXCEPT ![s].sending = SentFlag(h)]
  BY DEF PutsFrame
<1>2. SendFields(g)
  <2> HIDE DEF x, y
  <2> QED BY DEF SendFields
<1> HIDE DEF g
<1>3. SendFields(h)
  BY <1>2 DEF SendFields, FrameDone
<1> HIDE DEF h
<1>4. SentFlag(h) \in {"sending", "sent"}
  BY DEF SentFlag
<1>5. ConnShape'
  BY <1>1, <1>4, ZenonT(60) DEF ConnShape
<1>6. SendShape'
  BY <1>1, <1>3 DEF SendShape
<1> QED BY <1>5, <1>6

LEMMA FramedShape ==
  ASSUME Shapes, NEW s \in Sides, NEW len
  PROVE  SendFields(Framed(s, len))
<1>1. ASSUME NEW f, SendFields(f), NEW n, NEW header, NEW mask
      PROVE  SendFields(NewFrame(f, n, header, mask))
  BY <1>1 DEF NewFrame, SendFields
<1> QED BY <1>1 DEF Shapes, SendShape, Framed

LEMMA KeptShape ==
  ASSUME Shapes, NEW s \in Sides
  PROVE  RecvFields(Kept(s))
<1>1. ASSUME NEW r, RecvFields(r), NEW b, NEW n
      PROVE  RecvFields([r EXCEPT !.buffer = b, !.message_len = n])
  BY <1>1 DEF RecvFields
<1>2. RecvFields(recv[s])
  BY DEF Shapes, RecvShape
<1> QED BY <1>1, <1>2, NextFrameShape DEF Kept

LEMMA HeaderShape ==
  ASSUME NEW r, RecvFields(r), NEW header
  PROVE  RecvFields(WithHeader(r, header))
<1>1. RecvFields([r EXCEPT !.header = header])
  BY DEF RecvFields
<1>2. ASSUME NEW len, NEW mask
      PROVE  RecvFields([r EXCEPT !.header = header, !.in_frame = TRUE, !.frame_len = len,
                                  !.mask = mask])
  <2> DEFINE q == [r EXCEPT !.header = header, !.in_frame = TRUE]
             p == [q EXCEPT !.frame_len = len, !.mask = mask]
  <2>1. RecvFields(q)
    BY DEF RecvFields
  <2> HIDE DEF q
  <2>2. RecvFields(p)
    BY <2>1 DEF RecvFields
  <2> QED BY <2>2 DEF q
<1>3. RecvFields([r EXCEPT !.header = header, !.in_frame = TRUE,
                           !.frame_len = header[2].head.len,
                           !.mask = IF header[2].head.key = <<>> THEN @
                                    ELSE header[2].head.key])
  BY <1>2
<1> QED BY <1>1, <1>3 DEF WithHeader

LEMMA GivenShape ==
  ASSUME NEW r, RecvFields(r), NEW bytes
  PROVE  /\ RecvFields(Given(r, bytes))
         /\ Given(r, bytes).buffer = r.buffer \o Unmasked(r, bytes)
         /\ Given(r, bytes).frame_pos = r.frame_pos + Len(bytes)
         /\ Given(r, bytes).message_len = r.message_len
         /\ Given(r, bytes).in_frame = r.in_frame /\ Given(r, bytes).mask = r.mask
         /\ Given(r, bytes).frame_len = r.frame_len /\ Given(r, bytes).header = r.header
<1> DEFINE b == r.buffer \o Unmasked(r, bytes)
           p == r.frame_pos + Len(bytes)
           q == [r EXCEPT !.buffer = b, !.frame_pos = p]
<1>1. Given(r, bytes) = q
  BY DEF Given
<1> HIDE DEF b, p
<1>2. /\ RecvFields(q) /\ q.buffer = b /\ q.frame_pos = p
      /\ q.message_len = r.message_len /\ q.in_frame = r.in_frame /\ q.mask = r.mask
      /\ q.frame_len = r.frame_len /\ q.header = r.header
  BY DEF RecvFields
<1> HIDE DEF q
<1> QED BY <1>1, <1>2 DEF b, p

LEMMA LookShape ==
  ASSUME Shapes, NEW s \in Sides, NEW r, RecvFields(r), Looks(s, r)
  PROVE  RecvShape' /\ ConnShape'
<1> USE DEF Shapes
<1>1. CASE Becomes(s, "failed") /\ recv' = [recv EXCEPT ![s] = r]
  <2>1. RecvShape'
    BY <1>1 DEF RecvShape
  <2>2. ConnShape'
    BY <1>1, ZenonT(60) DEF ConnShape, Becomes
  <2> QED BY <2>1, <2>2
<1>2. ASSUME NEW len, recv' = [recv EXCEPT ![s] = [r EXCEPT !.message_len = len]],
             conn' = [conn EXCEPT ![s].receiving = ReceivedFlag(r, len)]
      PROVE  RecvShape' /\ ConnShape'
  <2>1. RecvFields([r EXCEPT !.message_len = len])
    BY DEF RecvFields
  <2>2. RecvShape'
    BY <1>2, <2>1 DEF RecvShape
  <2>3. ReceivedFlag(r, len) \in {"received", "requested"}
    BY DEF ReceivedFlag
  <2>4. ConnShape'
    BY <1>2, <2>3, ZenonT(60) DEF ConnShape
  <2> QED BY <2>2, <2>4
<1> QED BY <1>1, <1>2 DEF Looks

LEMMA MovedShape ==
  ASSUME Shapes, NEW s \in Sides, NEW n, NEW bytes, Moved(s, n, bytes)
  PROVE  wire' = [t \in Sides |-> wire'[t]]
BY DEF Shapes, Moved

\* What is followed of a session, and how the following ends.
Flow ==
  \/ ReadOpening \/ ReadRequest \/ TextIsTorn \/ ReadAnswer
  \/ \E s \in Sides : Moves(s) \/ SendMessage(s)

Cuts == \E s \in Sides : TextFramed(s) \/ TextOverruns(s)

LEMMA Steps ==
  ASSUME [Next]_vars
  PROVE  \/ Flow /\ UNCHANGED <<lens, cut>>
         \/ Cuts /\ UNCHANGED <<flow, lens>>
         \/ UNCHANGED vars
<1>1. CASE Step(ReadOpening \/ ReadRequest \/ TextIsTorn \/ ReadAnswer)
  BY <1>1 DEF Step, Flow
<1>2. ASSUME NEW s \in Sides, Step(Moves(s) \/ SendMessage(s))
      PROVE  Flow /\ UNCHANGED <<lens, cut>>
  BY <1>2 DEF Step, Flow
<1>3. ASSUME NEW s \in Sides, TextFramed(s) \/ TextOverruns(s), UNCHANGED lens
      PROVE  Cuts /\ UNCHANGED <<flow, lens>>
  BY <1>3 DEF Cuts, TextFramed, TextOverruns
<1> QED BY <1>1, <1>2, <1>3 DEF Next

LEMMA EndNat ==
  ASSUME Shapes, NEW s \in Sides, NEW n \in 0..Len(sent[s])
  PROVE  EndOf(s, n) \in Nat
<1>1. sent[s] \in Seq(Sendings) /\ Len(sent[s]) \in Nat
  BY DEF Shapes
<1>2. CASE n # 0
  <2>1. n \in 1..Len(sent[s])
    BY <1>1, <1>2
  <2>2. sent[s][n] \in Sendings
    BY <1>1, <2>1, ElementOfSeq
  <2> QED BY <1>2, <2>2 DEF EndOf, Sendings
<1> QED BY <1>2 DEF EndOf

LEMMA ShapesFlow ==
  ASSUME Shapes, Flow, UNCHANGED <<lens, cut>>
  PROVE  Shapes'
<1> USE DEF Shapes
<1>1. CASE ReadOpening
  <2>1. PICK n \in 1..LeastOf(MagicLen, Len(wire["client"])) :
        \E buffer \in {recv["server"].buffer \o SubSeq(wire["client"], 1, n)} :
          /\ recv' = [recv EXCEPT !["server"].buffer = buffer]
          /\ conn' = [conn EXCEPT !["server"].websocket =
                        /\ Len(buffer) >= MagicLen
                        /\ \A i \in 1..MagicLen : buffer[i] = Text("client")[i]]
          /\ Takes("server", n)
    BY <1>1 DEF ReadOpening
  <2>2. PICK buffer :
          /\ recv' = [recv EXCEPT !["server"].buffer = buffer]
          /\ conn' = [conn EXCEPT !["server"].websocket =
                        /\ Len(buffer) >= MagicLen
                        /\ \A i \in 1..MagicLen : buffer[i] = Text("client")[i]]
          /\ Takes("server", n)
    BY <2>1
  <2>3. "server" \in Sides
    BY DEF Sides
  <2>4. ConnShape'
    <3> DEFINE w == /\ Len(buffer) >= MagicLen
                    /\ \A i \in 1..MagicLen : buffer[i] = Text("client")[i]
    <3>1. w \in BOOLEAN
      OBVIOUS
    <3> HIDE DEF w
    <3>2. conn' = [conn EXCEPT !["server"].websocket = w]
      BY <2>2 DEF w
    <3> QED BY <2>3, <3>1, <3>2, ZenonT(60) DEF ConnShape
  <2>5. RecvShape'
    BY <2>2, <2>3 DEF RecvShape, RecvFields
  <2>6. wire' = [t \in Sides |-> wire'[t]]
    BY <2>2, <2>3, MovedShape DEF Takes
  <2>7. UNCHANGED <<send, sent, got>>
    BY <1>1 DEF ReadOpening
  <2> QED BY <2>4, <2>5, <2>6, <2>7 DEF SendShape
<1>2. CASE ReadRequest
  <2>1. PICK n \in 1..LeastOf(TextAsked("server"), TextRoom("server")),
             k \in 0..lens["server"] :
          /\ Moved("server", n, SubSeq(Text("server"), 1, k))
          /\ recv' = [recv EXCEPT !["server"].buffer = <<>>]
          /\ PutsText("server", Text("server"), 0, k)
          /\ UNCHANGED <<sent, got>>
    BY <1>2 DEF ReadRequest
  <2>2. "server" \in Sides
    BY DEF Sides
  <2>3. ConnShape' /\ SendShape'
    BY <2>1, <2>2, PutsTextShape
  <2>4. RecvShape'
    BY <2>1, <2>2 DEF RecvShape, RecvFields
  <2>5. wire' = [t \in Sides |-> wire'[t]]
    BY <2>1, <2>2, MovedShape
  <2> QED BY <2>1, <2>3, <2>4, <2>5
<1>3. CASE TextIsTorn
  BY <1>3, ZenonT(60) DEF TextIsTorn, Becomes, ConnShape, SendShape, RecvShape, Sides
<1>4. CASE ReadAnswer
  <2>1. PICK n \in 1..LeastOf(TextAsked("client"), TextRoom("client")) :
          /\ Takes("client", n)
          /\ recv' = [recv EXCEPT !["client"].buffer = <<>>, !["client"].message_len = 0]
          /\ conn' = [conn EXCEPT !["client"] = Opened(@)]
          /\ send' = [send EXCEPT !["client"].buffer = <<>>, !["client"].pos = 0]
          /\ UNCHANGED <<sent, got>>
    BY <1>4 DEF ReadAnswer
  <2>2. "client" \in Sides
    BY DEF Sides
  <2>3. ConnShape'
    BY <2>1, <2>2, ZenonT(120) DEF ConnShape, Opened
  <2>4. SendShape'
    BY <2>1, <2>2 DEF SendShape, SendFields
  <2>5. RecvShape'
    BY <2>1, <2>2 DEF RecvShape, RecvFields
  <2>6. wire' = [t \in Sides |-> wire'[t]]
    BY <2>1, <2>2, MovedShape DEF Takes
  <2> QED BY <2>1, <2>3, <2>4, <2>5, <2>6
<1>5. ASSUME NEW s \in Sides, SendText(s)
      PROVE  Shapes'
  <2>1. PICK k : /\ PutsText(s, send[s].buffer, send[s].pos, k)
                 /\ Moved(s, 0, SubSeq(send[s].buffer, send[s].pos + 1, send[s].pos + k))
    BY <1>5 DEF SendText
  <2>2. ConnShape' /\ SendShape'
    BY <2>1, PutsTextShape
  <2>3. wire' = [t \in Sides |-> wire'[t]]
    BY <2>1, MovedShape
  <2>4. UNCHANGED <<recv, sent, got>>
    BY <1>5 DEF SendText
  <2> QED BY <2>2, <2>3, <2>4 DEF RecvShape
<1>6. ASSUME NEW s \in Sides, ReadText(s)
      PROVE  Shapes'
  <2>1. PICK n, buffer : /\ recv' = [recv EXCEPT ![s].buffer = buffer] /\ Takes(s, n)
                         /\ UNCHANGED <<conn, send, sent, got>>
    BY <1>6 DEF ReadText
  <2>2. RecvShape'
    BY <2>1 DEF RecvShape, RecvFields
  <2>3. wire' = [t \in Sides |-> wire'[t]]
    BY <2>1, MovedShape DEF Takes
  <2> QED BY <2>1, <2>2, <2>3 DEF SendShape, ConnShape
<1>7. ASSUME NEW s \in Sides, SendFrame(s)
      PROVE  Shapes'
  <2>1. PICK k, l : PutsFrame(s, Framed(s, Len(send[s].buffer) - send[s].pos), k, l)
    BY <1>7 DEF SendFrame
  <2>2. ConnShape' /\ SendShape'
    BY <2>1, FramedShape, FrameShape
  <2>3. wire' = [t \in Sides |-> wire'[t]]
    BY <2>1, MovedShape DEF PutsFrame
  <2>4. UNCHANGED <<recv, sent, got>>
    BY <1>7 DEF SendFrame
  <2> QED BY <2>2, <2>3, <2>4 DEF RecvShape
<1>8. ASSUME NEW s \in Sides, SendMessage(s)
      PROVE  Shapes'
  <2> DEFINE n == Len(sent[s])
             alone == n = Len(got[Other(s)])
             new(len) == [len |-> len, end |-> EndOf(s, n) + FrameSize(s, len), alone |-> alone]
  <2>1. PICK len \in Sizes :
          /\ sent' = [sent EXCEPT ![s] = Append(@, new(len))]
          /\ send' = [send EXCEPT ![s].buffer = Message(n + 1, len)]
          /\ conn' = [conn EXCEPT ![s].sending = "requested"]
          /\ UNCHANGED <<recv, wire, got>>
    BY <1>8 DEF SendMessage
  <2>2. SendShape'
    BY <2>1 DEF SendShape, SendFields
  <2>3. ConnShape'
    BY <2>1, ZenonT(60) DEF ConnShape
  <2>4. new(len) \in Sendings
    <3>1. n \in 0..n
      OBVIOUS
    <3>2. EndOf(s, n) \in Nat
      BY <3>1, EndNat
    <3>3. len \in Nat
      BY WebSocketAssumption
    <3>4. FrameSize(s, len) \in Nat
      <4>1. MaskLen \in Nat
        BY WebSocketAssumption
      <4> HIDE DEF n
      <4> QED BY <3>3, <4>1, SMTT(40) DEF FrameSize, HeaderLen
    <3>5. alone \in BOOLEAN /\ EndOf(s, n) + FrameSize(s, len) \in Nat
      BY <3>2, <3>4
    <3> HIDE DEF alone, n
    <3> QED BY <3>5 DEF Sendings
  <2> HIDE DEF new
  <2>5. sent' \in [Sides -> Seq(Sendings)]
    BY <2>1, <2>4, AppendProperties
  <2> QED BY <2>1, <2>2, <2>3, <2>5 DEF RecvShape
<1>9. ASSUME NEW s \in Sides, Release(s)
      PROVE  Shapes'
  <2>1. SendShape'
    BY <1>9 DEF Release, SendShape, SendFields
  <2> QED BY <1>9, <2>1, ZenonT(60) DEF Release, ConnShape, RecvShape
<1>10. ASSUME NEW s \in Sides, ReadHeader(s)
       PROVE  Shapes'
  <2>1. PICK n, header : /\ recv' = [recv EXCEPT ![s] = WithHeader(Kept(s), header)]
                         /\ conn' = [conn EXCEPT ![s].receiving = "requested"]
                         /\ Takes(s, n)
                         /\ UNCHANGED <<send, sent, got>>
    BY <1>10 DEF ReadHeader
  <2>2. RecvShape'
    BY <2>1, KeptShape, HeaderShape DEF RecvShape
  <2>3. wire' = [t \in Sides |-> wire'[t]]
    BY <2>1, MovedShape DEF Takes
  <2> QED BY <2>1, <2>2, <2>3, ZenonT(60) DEF SendShape, ConnShape
<1>11. ASSUME NEW s \in Sides, ReadData(s)
       PROVE  Shapes'
  <2>1. PICK n : /\ Looks(s, Given(Kept(s), SubSeq(wire[Other(s)], 1, n)))
                 /\ Takes(s, n) /\ UNCHANGED <<send, sent, got>>
    BY <1>11 DEF ReadData
  <2>2. RecvFields(Given(Kept(s), SubSeq(wire[Other(s)], 1, n)))
    BY KeptShape, GivenShape
  <2>3. RecvShape' /\ ConnShape'
    BY <2>1, <2>2, LookShape
  <2>4. wire' = [t \in Sides |-> wire'[t]]
    BY <2>1, MovedShape DEF Takes
  <2> QED BY <2>1, <2>3, <2>4 DEF SendShape
<1>12. ASSUME NEW s \in Sides, Take(s)
       PROVE  Shapes'
  <2>1. got' = [t \in Sides |-> got'[t]]
    BY <1>12 DEF Take
  <2> QED BY <1>12, <2>1, ZenonT(120) DEF Take, ConnShape, SendShape, RecvShape
<1>13. ASSUME NEW s \in Sides, TextTooLong(s)
       PROVE  Shapes'
  BY <1>13, ZenonT(60) DEF TextTooLong, Becomes, ConnShape, SendShape, RecvShape
<1> QED
  BY <1>1, <1>2, <1>3, <1>4, <1>5, <1>6, <1>7, <1>8, <1>9, <1>10, <1>11, <1>12, <1>13
  DEF Flow, Moves

-----------------------------------------------------------------------------
(* The handshake *)

LEMMA TextFacts ==
  ASSUME Shapes, NEW s \in Sides
  PROVE  /\ lens[s] \in Nat \ {0}
         /\ Text(s) = Part(s, 0, lens[s]) /\ Len(Text(s)) = lens[s] /\ Text(s) # <<>>
<1>1. lens[s] \in Nat \ {0}
  BY WebSocketAssumption DEF Shapes
<1>2. Text(s) = Part(s, 0, lens[s])
  BY <1>1 DEF Text, Part, TextOf, Window
<1>3. Len(Text(s)) = lens[s]
  <2>1. Len(Window(TextOf(s), 0, lens[s])) = lens[s] - 0
    <3>1. 0 \in Nat /\ lens[s] \in Nat /\ 0 <= lens[s]
      BY <1>1
    <3> QED BY <3>1, WindowStream, Zenon
  <2> QED BY <1>1, <1>2, <2>1 DEF Part
<1>4. Text(s) # <<>>
  BY <1>1, <1>3
<1> QED BY <1>1, <1>2, <1>3, <1>4

\* A part of a text: what is read goes from one end to the other, what is sent is appended.
LEMMA Parts ==
  ASSUME Shapes, NEW s \in Sides, NEW b \in Nat, NEW c \in Nat, b <= c
  PROVE  /\ Len(Part(s, b, c)) = c - b
         /\ \A n \in 0..c - b :
              /\ Part(s, 0, b) \o SubSeq(Part(s, b, c), 1, n) = Part(s, 0, b + n)
              /\ Rest(Part(s, b, c), n) = Part(s, b + n, c)
              /\ Len(Part(s, 0, b + n)) = b + n
         /\ \A k \in Nat : c + k <= lens[s] =>
              Part(s, b, c) \o SubSeq(Text(s), c + 1, c + k) = Part(s, b, c + k)
<1>1. Len(Part(s, b, c)) = c - b
  BY WindowStream DEF Part
<1>2. ASSUME NEW n \in 0..c - b
      PROVE  /\ Part(s, 0, b) \o SubSeq(Part(s, b, c), 1, n) = Part(s, 0, b + n)
             /\ Rest(Part(s, b, c), n) = Part(s, b + n, c)
             /\ Len(Part(s, 0, b + n)) = b + n
  <2>1. SubSeq(Part(s, b, c), 1, n) = Part(s, b, b + n)
    BY Windows, ZenonT(120) DEF Part
  <2> DEFINE d == b + n
  <2>5. d \in Nat /\ b <= d
    OBVIOUS
  <2> HIDE DEF d
  <2>2. Part(s, 0, b) \o Part(s, b, d) = Part(s, 0, d)
    <3>1. 0 \in Nat /\ 0 <= b
      OBVIOUS
    <3> QED BY <2>5, <3>1, Windows, ZenonT(120) DEF Part
  <2>3. Rest(Part(s, b, c), n) = Part(s, b + n, c)
    BY Windows, ZenonT(60) DEF Part
  <2>4. Len(Part(s, 0, d)) = d
    <3>1. Len(Window(TextOf(s), 0, d)) = d - 0
      <4>1. 0 \in Nat /\ 0 <= d
        BY <2>5
      <4> QED BY <2>5, <4>1, WindowStream, Zenon
    <3> QED BY <2>5, <3>1 DEF Part
  <2> QED BY <2>1, <2>2, <2>3, <2>4 DEF d
<1>3. ASSUME NEW k \in Nat, c + k <= lens[s]
      PROVE  Part(s, b, c) \o SubSeq(Text(s), c + 1, c + k) = Part(s, b, c + k)
  <2>1. SubSeq(Text(s), c + 1, c + k) = [i \in 1..c + k - c |-> Text(s)[c + i]]
    BY Cut
  <2>2. SubSeq(Text(s), c + 1, c + k) = Part(s, c, c + k)
    <3>1. ASSUME NEW i \in 1..c + k - c
          PROVE  Text(s)[c + i] = TextOf(s)[c + i]
      <4>1. c + i \in 1..lens[s] /\ c + i \in Nat
        BY <1>3, TextFacts
      <4> QED BY <4>1 DEF Text, TextOf
    <3>2. SubSeq(Text(s), c + 1, c + k) = [i \in 1..c + k - c |-> TextOf(s)[c + i]]
      BY <2>1, <3>1
    <3> QED BY <3>2 DEF Part, Window
  <2> DEFINE d == c + k
  <2>3. d \in Nat /\ c <= d
    BY <1>3
  <2> HIDE DEF d
  <2>4. Part(s, b, c) \o Part(s, c, d) = Part(s, b, d)
    BY <2>3, Windows, ZenonT(120) DEF Part
  <2> QED BY <2>2, <2>4 DEF d
<1> QED BY <1>1, <1>2, <1>3

LEMMA PartSent ==
  ASSUME Shapes, NEW s \in Sides, NEW b \in Nat, NEW c \in Nat, b <= c,
         NEW k \in Nat, c + k <= lens[s]
  PROVE  Part(s, b, c) \o SubSeq(Text(s), c + 1, c + k) = Part(s, b, c + k)
BY Parts, ZenonT(120)

LEMMA PartTaken ==
  ASSUME Shapes, NEW s \in Sides, NEW b \in Nat, NEW c \in Nat, b <= c, NEW n \in 0..c - b
  PROVE  /\ Part(s, 0, b) \o SubSeq(Part(s, b, c), 1, n) = Part(s, 0, b + n)
         /\ Rest(Part(s, b, c), n) = Part(s, b + n, c)
         /\ Len(Part(s, 0, b + n)) = b + n
BY Parts, ZenonT(120)

LEMMA PartLen ==
  ASSUME NEW s, NEW b \in Nat, NEW c \in Nat, b <= c
  PROVE  Len(Part(s, b, c)) = c - b
BY WindowStream DEF Part

LEMMA TextKept ==
  ASSUME UNCHANGED lens
  PROVE  /\ Text("client")' = Text("client") /\ Text("server")' = Text("server")
         /\ Fits("client")' = Fits("client") /\ Fits("server")' = Fits("server")
BY DEF Text, Fits

LEMMA AtMost ==
  ASSUME NEW a \in Nat, NEW b \in Nat, NEW n \in 1..LeastOf(a, b)
  PROVE  n \in Nat \ {0} /\ n <= a /\ n <= b
BY DEF LeastOf

\* A read of a text is of what is there, and ends within the buffer.
LEMMA TextRead ==
  ASSUME NEW s \in Sides, Len(recv[s].buffer) \in Nat, Len(recv[s].buffer) <= BufLen,
         Len(wire[Other(s)]) \in Nat, NEW n \in 1..LeastOf(TextAsked(s), TextRoom(s))
  PROVE  n \in 1..Len(wire[Other(s)]) /\ Len(recv[s].buffer) + n <= BufLen
<1> DEFINE b == Len(recv[s].buffer)
           w == Len(wire[Other(s)])
<1>1. BufLen \in Nat
  BY WebSocketAssumption
<1>2. n \in 1..LeastOf(LeastOf(b + 1, w), BufLen - b)
  BY DEF TextAsked, TextRoom
<1>3. b \in Nat /\ w \in Nat /\ b <= BufLen
  OBVIOUS
<1> HIDE DEF b, w
<1>4. n \in 1..w /\ b + n <= BufLen
  BY <1>1, <1>2, <1>3 DEF LeastOf
<1> QED BY <1>4 DEF b, w

LEMMA ClientPutsText ==
  ASSUME Shapes, NEW text, NEW pos, NEW k, PutsText("client", text, pos, k)
  PROVE  /\ send'["client"].buffer = text /\ send'["client"].pos = pos + k
         /\ send'["client"].frame_len = send["client"].frame_len
         /\ send'["client"].header_pos = send["client"].header_pos
         /\ send'["server"] = send["server"] /\ conn'["server"] = conn["server"]
         /\ conn'["client"].state = conn["client"].state
         /\ conn'["client"].receiving = conn["client"].receiving
         /\ conn'["client"].sending \in {"free", "sending"}
<1>1. /\ send' = [send EXCEPT !["client"].buffer = text, !["client"].pos = pos + k]
      /\ conn' = [conn EXCEPT !["client"].sending =
                    IF pos + k = Len(text) THEN "free" ELSE "sending"]
  BY DEF PutsText
<1>2. /\ send'["client"].buffer = text /\ send'["client"].pos = pos + k
      /\ send'["client"].frame_len = send["client"].frame_len
      /\ send'["client"].header_pos = send["client"].header_pos
      /\ send'["server"] = send["server"]
  BY <1>1 DEF Shapes, SendShape, SendFields, Sides
<1>3. /\ conn'["server"] = conn["server"]
      /\ conn'["client"].state = conn["client"].state
      /\ conn'["client"].receiving = conn["client"].receiving
      /\ conn'["client"].sending \in {"free", "sending"}
  BY <1>1 DEF Shapes, ConnShape, Sides
<1> QED BY <1>2, <1>3

LEMMA ServerPutsText ==
  ASSUME Shapes, NEW text, NEW pos, NEW k, PutsText("server", text, pos, k)
  PROVE  /\ send'["server"].frame_len = send["server"].frame_len
         /\ send'["server"].header_pos = send["server"].header_pos
         /\ send'["client"] = send["client"] /\ conn'["client"] = conn["client"]
         /\ IF pos + k = Len(text)
            THEN /\ send'["server"].buffer = <<>> /\ send'["server"].pos = 0
                 /\ conn'["server"].state = "open" /\ conn'["server"].receiving = "requested"
                 /\ conn["server"].sending \in {"free", "sending"} =>
                      conn'["server"].sending = "free"
            ELSE /\ send'["server"].buffer = text /\ send'["server"].pos = pos + k
                 /\ conn'["server"].state = conn["server"].state
                 /\ conn'["server"].receiving = conn["server"].receiving
                 /\ conn'["server"].sending \in {"free", "sending"}
<1>1. CASE pos + k = Len(text)
  <2>1. /\ send' = [send EXCEPT !["server"].buffer = <<>>, !["server"].pos = 0]
        /\ conn' = [conn EXCEPT !["server"] = Opened(@)]
    BY <1>1 DEF PutsText
  <2>2. /\ send'["server"].frame_len = send["server"].frame_len
        /\ send'["server"].header_pos = send["server"].header_pos
        /\ send'["client"] = send["client"]
        /\ send'["server"].buffer = <<>> /\ send'["server"].pos = 0
    BY <2>1 DEF Shapes, SendShape, SendFields, Sides
  <2>3. /\ conn'["client"] = conn["client"]
        /\ conn'["server"].state = "open" /\ conn'["server"].receiving = "requested"
        /\ conn["server"].sending \in {"free", "sending"} => conn'["server"].sending = "free"
    BY <2>1 DEF Shapes, ConnShape, Sides, Opened
  <2> QED BY <1>1, <2>2, <2>3
<1>2. CASE pos + k # Len(text)
  <2>1. /\ send' = [send EXCEPT !["server"].buffer = text, !["server"].pos = pos + k]
        /\ conn' = [conn EXCEPT !["server"].sending =
                    IF pos + k = Len(text) THEN "free" ELSE "sending"]
    BY <1>2 DEF PutsText
  <2>2. /\ send'["server"].frame_len = send["server"].frame_len
        /\ send'["server"].header_pos = send["server"].header_pos
        /\ send'["client"] = send["client"]
        /\ send'["server"].buffer = text /\ send'["server"].pos = pos + k
    BY <2>1 DEF Shapes, SendShape, SendFields, Sides
  <2>3. /\ conn'["client"] = conn["client"]
        /\ conn'["server"].state = conn["server"].state
        /\ conn'["server"].receiving = conn["server"].receiving
        /\ conn'["server"].sending \in {"free", "sending"}
    BY <2>1 DEF Shapes, ConnShape, Sides
  <2> QED BY <1>2, <2>2, <2>3
<1> QED BY <1>1, <1>2

LEMMA MovedFacts ==
  ASSUME Shapes, NEW s \in Sides, NEW n, NEW bytes, Moved(s, n, bytes)
  PROVE  /\ wire'[s] = wire[s] \o bytes
         /\ wire'[Other(s)] = Rest(wire[Other(s)], n)
BY DEF Shapes, Moved, Other, Sides

\* A stream that nothing joins, or from which nothing is taken, stays as it is.
LEMMA StillStreams ==
  ASSUME Shapes, NEW s \in Sides, NEW F, NEW a \in Nat, NEW b \in Nat, a <= b
  PROVE  /\ \A n : Takes(s, n) /\ wire[s] = Window(F, a, b) => wire'[s] = wire[s]
         /\ \A bytes : Moved(s, 0, bytes) /\ wire[Other(s)] = Window(F, a, b) =>
              wire'[Other(s)] = wire[Other(s)]
<1>1. Window(F, a, b) \o <<>> = Window(F, a, b)
  BY EmptyWindow, Windows
<1>2. Rest(Window(F, a, b), 0) = Window(F, a, b)
  <2>1. Rest(Window(F, a, b), 0) = Window(F, a + 0, b)
    <3>1. 0 \in 0..b - a
      OBVIOUS
    <3> QED BY <3>1, Windows, ZenonT(60)
  <2> QED BY <2>1
<1>3. ASSUME NEW n, Takes(s, n), wire[s] = Window(F, a, b)
      PROVE  wire'[s] = wire[s]
  BY <1>1, <1>3, MovedFacts DEF Takes
<1>4. ASSUME NEW bytes, Moved(s, 0, bytes), wire[Other(s)] = Window(F, a, b)
      PROVE  wire'[Other(s)] = wire[Other(s)]
  BY <1>2, <1>4, MovedFacts
<1> QED BY <1>3, <1>4

LEMMA HandshakeWires ==
  ASSUME Shapes, HandshakeInv
  PROVE  /\ AnswerPut \in 0..lens["server"]
         /\ \E a, b \in Nat : a <= b /\ wire["client"] = Window(TextOf("client"), a, b)
         /\ \E a, b \in Nat : a <= b /\ wire["server"] = Window(TextOf("server"), a, b)
<1>1. AnswerPut \in 0..lens["server"]
  BY TextFacts
  DEF AnswerPut, HandshakeInv, RequestInv, Unanswered, Answering, Answered, Empty, Sides
<1>2. \E a, b \in Nat : a <= b /\ wire["client"] = Window(TextOf("client"), a, b)
  <2>1. CASE Unanswered
    <3>1. /\ Len(recv["server"].buffer) \in Nat /\ send["client"].pos \in Nat
          /\ Len(recv["server"].buffer) <= send["client"].pos
          /\ wire["client"] = Part("client", Len(recv["server"].buffer), send["client"].pos)
      BY <2>1, TextFacts DEF HandshakeInv, RequestInv, Unanswered, Sides
    <3> QED BY <3>1 DEF Part
  <2>2. CASE HasRequest
    <3>1. wire["client"] = Window(TextOf("client"), 0, 0)
      BY <2>2, EmptyWindow DEF HasRequest
    <3> QED BY <3>1
  <2> QED BY <2>1, <2>2 DEF HandshakeInv, RequestInv, Answering, Answered
<1>3. \E a, b \in Nat : a <= b /\ wire["server"] = Window(TextOf("server"), a, b)
  <2>1. /\ Len(recv["client"].buffer) \in Nat /\ AnswerPut \in Nat
        /\ Len(recv["client"].buffer) <= AnswerPut
        /\ wire["server"] = Part("server", Len(recv["client"].buffer), AnswerPut)
    BY <1>1, TextFacts DEF HandshakeInv, AnswerInv, Sides
  <2> QED BY <2>1 DEF Part
<1> QED BY <1>1, <1>2, <1>3

LEMMA ClientSendsText ==
  ASSUME Shapes, HandshakeInv, UNCHANGED <<lens, cut>>, SendText("client")
  PROVE  HandshakeInv'
<1> DEFINE text == send["client"].buffer
           pos == send["client"].pos
<1>0. /\ text = Text("client") /\ pos \in 0..lens["client"]
      /\ Len(text) = lens["client"] /\ lens["client"] \in Nat
  BY TextFacts DEF HandshakeInv, RequestInv, Sides
<1>1. PICK k \in 0..Len(text) - pos :
        /\ PutsText("client", text, pos, k)
        /\ Moved("client", 0, SubSeq(text, pos + 1, pos + k))
  BY DEF SendText
<1>2. UNCHANGED <<recv, sent, got>> /\ Len(text) - pos > 0
  BY DEF SendText
<1>3. /\ send'["client"].buffer = text /\ send'["client"].pos = pos + k
      /\ send'["client"].frame_len = send["client"].frame_len
      /\ send'["client"].header_pos = send["client"].header_pos
      /\ send'["server"] = send["server"] /\ conn'["server"] = conn["server"]
      /\ conn'["client"].state = conn["client"].state
      /\ conn'["client"].receiving = conn["client"].receiving
      /\ conn'["client"].sending \in {"free", "sending"}
  BY <1>1, ClientPutsText
<1>4. pos + k \in 0..lens["client"]
  <2>1. k \in 0..lens["client"] - pos
    BY <1>0, <1>1
  <2> HIDE DEF pos
  <2> QED BY <1>0, <2>1
<1>5. Unanswered
  BY <1>0, <1>2 DEF HandshakeInv, RequestInv, Answering, Answered, HasRequest
<1>6. /\ wire'["client"] = wire["client"] \o SubSeq(text, pos + 1, pos + k)
      /\ wire'["server"] = Rest(wire["server"], 0)
  BY <1>1, MovedFacts DEF Sides, Other
<1>7. Unanswered'
  <2> DEFINE b == Len(recv["server"].buffer)
  <2>1. b \in Nat /\ b <= pos /\ wire["client"] = Part("client", b, pos)
        /\ recv["server"].buffer = Part("client", 0, b)
    BY <1>0, <1>5 DEF Unanswered
  <2>2. wire'["client"] = Part("client", b, pos + k)
    <3> DEFINE p == pos
    <3>1. p \in Nat /\ k \in Nat /\ p + k <= lens["client"]
      BY <1>0, <1>1
    <3>2. wire'["client"] = Part("client", b, p) \o SubSeq(Text("client"), p + 1, p + k)
      BY <1>0, <1>6, <2>1
    <3>3. b \in Nat /\ b <= p
      BY <2>1
    <3>4. "client" \in Sides
      BY DEF Sides
    <3> HIDE DEF p, b, pos, text
    <3>5. Part("client", b, p) \o SubSeq(Text("client"), p + 1, p + k) = Part("client", b, p + k)
      BY <3>1, <3>3, <3>4, Parts, ZenonT(120)
    <3> QED BY <3>2, <3>5 DEF p
  <2>3. b \in 0..pos + k
    BY <1>0, <1>1, <2>1, SMTT(40)
  <2> QED BY <1>2, <1>3, <1>5, <2>1, <2>2, <2>3 DEF Unanswered, Empty, NoFrame
<1>8. AnswerPut' = AnswerPut
  BY <1>3 DEF AnswerPut
<1>9. wire'["server"] = wire["server"]
  BY <1>1, HandshakeWires, StillStreams DEF Sides, Other
<1>10. AnswerInv'
  BY <1>2, <1>8, <1>9, TextKept DEF AnswerInv, HandshakeInv
<1>11. TextFlags'
  BY <1>3, TextKept DEF HandshakeInv, TextFlags, Sides
<1>12. NoFrame("client")'
  BY <1>3 DEF HandshakeInv, RequestInv, NoFrame
<1>13. NothingYet'
  BY <1>2 DEF HandshakeInv, NothingYet, NothingRead
<1> HIDE DEF text, pos
<1> QED
  BY <1>0, <1>3, <1>4, <1>7, <1>10, <1>11, <1>12, <1>13, TextKept
  DEF HandshakeInv, RequestInv

LEMMA ServerSendsText ==
  ASSUME Shapes, HandshakeInv, UNCHANGED <<lens, cut>>, SendText("server")
  PROVE  HandshakeInv'
<1> DEFINE text == send["server"].buffer
           pos == send["server"].pos
<1>1. Answering
  BY DEF HandshakeInv, RequestInv, Unanswered, Empty, Answered, SendText, Connecting
<1>2. /\ text = Text("server") /\ pos \in 0..lens["server"] - 1
      /\ Len(text) = lens["server"] /\ lens["server"] \in Nat
  BY <1>1, TextFacts DEF Answering, Sides
<1>3. PICK k \in 0..Len(text) - pos :
        /\ PutsText("server", text, pos, k)
        /\ Moved("server", 0, SubSeq(text, pos + 1, pos + k))
  BY DEF SendText
<1>4. UNCHANGED <<recv, sent, got>>
  BY DEF SendText
<1>5. /\ send'["server"].frame_len = send["server"].frame_len
      /\ send'["server"].header_pos = send["server"].header_pos
      /\ send'["client"] = send["client"] /\ conn'["client"] = conn["client"]
      /\ IF pos + k = Len(text)
         THEN /\ send'["server"].buffer = <<>> /\ send'["server"].pos = 0
              /\ conn'["server"].state = "open" /\ conn'["server"].receiving = "requested"
              /\ conn["server"].sending \in {"free", "sending"} =>
                   conn'["server"].sending = "free"
         ELSE /\ send'["server"].buffer = text /\ send'["server"].pos = pos + k
              /\ conn'["server"].state = conn["server"].state
              /\ conn'["server"].receiving = conn["server"].receiving
              /\ conn'["server"].sending \in {"free", "sending"}
  BY <1>3, ServerPutsText
<1>6. wire'["client"] = wire["client"]
  BY <1>3, HandshakeWires, StillStreams DEF Sides, Other
<1>7. AnswerPut = pos /\ AnswerPut' = pos + k
  BY <1>1, <1>2, <1>5 DEF AnswerPut, Answering
<1>8. TextFlags /\ conn["server"].sending \in {"free", "sending"}
  BY <1>1 DEF HandshakeInv, TextFlags, Answering, Sides
<1>9. Answering' \/ Answered'
  BY <1>1, <1>2, <1>3, <1>4, <1>5, <1>6, <1>8, TextKept, SMTT(40)
  DEF Answering, Answered, HasRequest, NoFrame, Empty
<1>10. TextFlags'
  BY <1>1, <1>5, <1>8, TextKept DEF HandshakeInv, TextFlags, Answering, Sides
<1>11. NothingYet'
  BY <1>4 DEF HandshakeInv, NothingYet, NothingRead
<1>12. RequestInv'
  BY <1>5, <1>9, TextKept DEF HandshakeInv, RequestInv, NoFrame
<1>13. AnswerInv'
  <2> DEFINE b == Len(recv["client"].buffer)
  <2>1. b \in Nat /\ b <= pos /\ wire["server"] = Part("server", b, pos)
    BY <1>2, <1>7 DEF HandshakeInv, AnswerInv
  <2>2. pos \in Nat /\ k \in Nat /\ pos + k <= lens["server"]
    <3>1. k \in 0..lens["server"] - pos
      BY <1>2, <1>3
    <3> HIDE DEF pos
    <3> QED BY <1>2, <3>1
  <2>3. wire'["server"] = wire["server"] \o SubSeq(Text("server"), pos + 1, pos + k)
    BY <1>2, <1>3, MovedFacts DEF Sides
  <2>4. "server" \in Sides
    BY DEF Sides
  <2>5. b \in 0..pos + k
    <3> HIDE DEF b, pos
    <3> QED BY <2>1, <2>2
  <2> HIDE DEF b, pos, text
  <2>6. wire'["server"] = Part("server", b, pos + k)
    <3>1. Part("server", b, pos) \o SubSeq(Text("server"), pos + 1, pos + k)
            = Part("server", b, pos + k)
      BY <2>1, <2>2, <2>4, PartSent, Zenon
    <3> QED BY <2>1, <2>3, <3>1, Zenon
  <2> QED BY <1>4, <1>7, <2>5, <2>6 DEF b, HandshakeInv, AnswerInv
<1> QED BY <1>5, <1>10, <1>11, <1>12, <1>13 DEF HandshakeInv

\* The server reads more of the request.
LEMMA ServerReadsText ==
  ASSUME Shapes, HandshakeInv, UNCHANGED <<lens, cut>>, Unanswered,
         NEW n \in 1..Len(wire["client"]), Len(recv["server"].buffer) + n <= BufLen,
         recv' = [recv EXCEPT !["server"].buffer = @ \o SubSeq(wire["client"], 1, n)],
         conn'["client"] = conn["client"],
         \A f \in {"state", "receiving", "sending"} : conn'["server"][f] = conn["server"][f],
         Takes("server", n), UNCHANGED <<send, sent, got>>
  PROVE  HandshakeInv'
<1> DEFINE b == Len(recv["server"].buffer)
           c == send["client"].pos
<1>1. /\ b \in Nat /\ c \in Nat /\ b <= c /\ recv["server"].buffer = Part("client", 0, b)
      /\ wire["client"] = Part("client", b, c)
  BY TextFacts DEF HandshakeInv, RequestInv, Unanswered, Sides
<1>2. "client" \in Sides /\ "server" \in Sides
  BY DEF Sides
<1>3. Len(Part("client", b, c)) = c - b
  BY <1>1, <1>2, Parts, ZenonT(120)
<1>4. n \in 0..c - b
  BY <1>1, <1>3
<1>5. /\ wire'["server"] = wire["server"]
      /\ wire'["client"] = Rest(wire["client"], n)
  BY <1>2, HandshakeWires, MovedFacts, StillStreams DEF Takes, Other
<1>6. /\ recv'["server"].buffer = recv["server"].buffer \o SubSeq(wire["client"], 1, n)
      /\ \A f \in {"message_len", "in_frame", "frame_len", "frame_pos", "header", "mask"} :
           recv'["server"][f] = recv["server"][f]
      /\ recv'["client"] = recv["client"]
  BY DEF Shapes, RecvShape, RecvFields, Sides
<1>7. /\ conn'["client"] = conn["client"]
      /\ conn'["server"].state = conn["server"].state
      /\ conn'["server"].receiving = conn["server"].receiving
      /\ conn'["server"].sending = conn["server"].sending
  OBVIOUS
<1>8. /\ recv'["server"].buffer = Part("client", 0, b + n)
      /\ wire'["client"] = Part("client", b + n, c)
      /\ Len(recv'["server"].buffer) = b + n
  <2> HIDE DEF b, c
  <2>1. /\ Part("client", 0, b) \o SubSeq(Part("client", b, c), 1, n) = Part("client", 0, b + n)
        /\ Rest(Part("client", b, c), n) = Part("client", b + n, c)
        /\ Len(Part("client", 0, b + n)) = b + n
    BY <1>1, <1>2, <1>4, PartTaken, Zenon
  <2> QED BY <1>1, <1>5, <1>6, <2>1, Zenon
<1>9. b + n \in 0..c
  BY <1>1, <1>4, SMTT(40)
<1>10. Unanswered'
  BY <1>7, <1>8, <1>9 DEF Unanswered, Empty, NoFrame
<1>11. TextFlags' /\ NothingYet'
  BY <1>6, <1>7, TextKept DEF HandshakeInv, TextFlags, NothingYet, NothingRead, Sides
<1>12. AnswerInv'
  BY <1>5, <1>6, <1>7 DEF HandshakeInv, AnswerInv, AnswerPut
<1>13. RequestInv'
  BY <1>10, TextKept DEF HandshakeInv, RequestInv, NoFrame
<1> QED BY <1>7, <1>11, <1>12, <1>13 DEF HandshakeInv

LEMMA WireLen ==
  ASSUME Shapes, HandshakeInv
  PROVE  Len(wire["client"]) \in Nat /\ Len(wire["server"]) \in Nat
<1>1. ASSUME NEW F, NEW a \in Nat, NEW b \in Nat, a <= b
      PROVE  Len(Window(F, a, b)) \in Nat
  <2>1. Len(Window(F, a, b)) = b - a
    BY <1>1, WindowStream
  <2> QED BY <1>1, <2>1
<1> QED BY <1>1, HandshakeWires

LEMMA OpeningStep ==
  ASSUME Shapes, HandshakeInv, UNCHANGED <<lens, cut>>, ReadOpening
  PROVE  HandshakeInv'
<1>1. Unanswered
  BY TextFacts
  DEF HandshakeInv, RequestInv, Answering, Answered, ReadOpening, Connecting, Sides
<1>2. PICK n \in 1..LeastOf(MagicLen, Len(wire["client"])) :
        \E buffer \in {recv["server"].buffer \o SubSeq(wire["client"], 1, n)} :
          /\ recv' = [recv EXCEPT !["server"].buffer = buffer]
          /\ conn' = [conn EXCEPT !["server"].websocket =
                        /\ Len(buffer) >= MagicLen
                        /\ \A i \in 1..MagicLen : buffer[i] = Text("client")[i]]
          /\ Takes("server", n)
  BY DEF ReadOpening
<1>3. n \in 1..Len(wire["client"]) /\ Len(recv["server"].buffer) + n <= BufLen
  <2>1. MagicLen \in Nat /\ Len(wire["client"]) \in Nat
    BY WireLen, WebSocketAssumption
  <2>2. n \in Nat \ {0} /\ n <= MagicLen /\ n <= Len(wire["client"])
    BY <2>1, AtMost
  <2>3. Len(recv["server"].buffer) \in Nat /\ Len(recv["server"].buffer) < MagicLen
    BY <1>1, TextFacts DEF HandshakeInv, RequestInv, Unanswered, ReadOpening, Sides
  <2>4. 2 * MagicLen <= BufLen /\ BufLen \in Nat
    BY WebSocketAssumption
  <2> QED BY <2>1, <2>2, <2>3, <2>4
<1>4. PICK w : conn' = [conn EXCEPT !["server"].websocket = w]
  BY <1>2
<1>5. /\ conn'["client"] = conn["client"]
      /\ \A f \in {"state", "receiving", "sending"} : conn'["server"][f] = conn["server"][f]
  BY <1>4 DEF Shapes, ConnShape, Sides
<1>6. /\ recv' = [recv EXCEPT !["server"].buffer = @ \o SubSeq(wire["client"], 1, n)]
      /\ Takes("server", n)
  BY <1>2
<1>7. UNCHANGED <<send, sent, got>>
  BY DEF ReadOpening
<1> QED BY <1>1, <1>3, <1>5, <1>6, <1>7, ServerReadsText

LEMMA ServerTextStep ==
  ASSUME Shapes, HandshakeInv, UNCHANGED <<lens, cut>>, ReadText("server")
  PROVE  HandshakeInv'
<1>1. PICK n \in 1..LeastOf(TextAsked("server"), TextRoom("server")) :
        /\ ReadsText("server")
        /\ recv' = [recv EXCEPT !["server"].buffer =
                      recv["server"].buffer \o SubSeq(wire["client"], 1, n)]
        /\ Takes("server", n)
        /\ UNCHANGED <<conn, send, sent, got>>
  BY DEF ReadText, Other
<1>2. Unanswered
  BY <1>1, TextFacts
  DEF HandshakeInv, RequestInv, Answering, Answered, ReadsText, Connecting, Sides
<1>3. Len(recv["server"].buffer) \in Nat /\ Len(recv["server"].buffer) <= BufLen
  BY <1>2, TextFacts DEF HandshakeInv, RequestInv, Unanswered, Sides
<1>4. n \in 1..Len(wire["client"]) /\ Len(recv["server"].buffer) + n <= BufLen
  <2>1. Other("server") = "client" /\ "server" \in Sides
    BY DEF Other, Sides
  <2> QED BY <1>1, <1>3, <2>1, TextRead, WireLen
<1>5. /\ recv' = [recv EXCEPT !["server"].buffer = @ \o SubSeq(wire["client"], 1, n)]
      /\ Takes("server", n) /\ UNCHANGED <<send, sent, got>>
      /\ conn'["client"] = conn["client"]
      /\ \A f \in {"state", "receiving", "sending"} : conn'["server"][f] = conn["server"][f]
  BY <1>1
<1> QED BY <1>2, <1>4, <1>5, ServerReadsText

LEMMA ClientTextStep ==
  ASSUME Shapes, HandshakeInv, UNCHANGED <<lens, cut>>, ReadText("client")
  PROVE  HandshakeInv'
<1> DEFINE b == Len(recv["client"].buffer)
           c == AnswerPut
<1>1. /\ b \in Nat /\ c \in Nat /\ b <= c /\ recv["client"].buffer = Part("server", 0, b)
      /\ b <= BufLen /\ c <= lens["server"]
      /\ wire["server"] = Part("server", b, c)
  BY HandshakeWires, TextFacts DEF HandshakeInv, AnswerInv, Sides
<1>2. "client" \in Sides /\ "server" \in Sides
  BY DEF Sides
<1>3. PICK n \in 1..LeastOf(TextAsked("client"), TextRoom("client")) :
        /\ ~EndsText("client", recv["client"].buffer \o SubSeq(wire["server"], 1, n))
        /\ recv' = [recv EXCEPT !["client"].buffer = @ \o SubSeq(wire["server"], 1, n)]
        /\ Takes("client", n)
        /\ UNCHANGED <<conn, send, sent, got>>
  BY DEF ReadText, Other
<1>4. Len(Part("server", b, c)) = c - b
  BY <1>1, <1>2, Parts, ZenonT(60)
<1>5. n \in 0..c - b /\ n \in Nat \ {0} /\ b + n <= BufLen
  <2>1. Other("client") = "server" /\ Len(wire["server"]) \in Nat /\ Len(wire["server"]) = c - b
    BY <1>1, <1>4, WireLen DEF Other
  <2>2. n \in 1..Len(wire["server"]) /\ b + n <= BufLen
    BY <1>1, <1>2, <1>3, <2>1, TextRead
  <2> HIDE DEF b, c
  <2> QED BY <1>1, <2>1, <2>2
<1>6. /\ wire'["client"] = wire["client"]
      /\ wire'["server"] = Rest(wire["server"], n)
  BY <1>2, <1>3, HandshakeWires, MovedFacts, StillStreams DEF Takes, Other
<1>7. /\ recv'["client"].buffer = recv["client"].buffer \o SubSeq(wire["server"], 1, n)
      /\ \A f \in {"message_len", "in_frame", "frame_len", "frame_pos", "header", "mask"} :
           recv'["client"][f] = recv["client"][f]
      /\ recv'["server"] = recv["server"]
  BY <1>3 DEF Shapes, RecvShape, RecvFields, Sides
<1>8. /\ recv'["client"].buffer = Part("server", 0, b + n)
      /\ wire'["server"] = Part("server", b + n, c)
      /\ Len(recv'["client"].buffer) = b + n
  <2> HIDE DEF b, c
  <2>1. /\ Part("server", 0, b) \o SubSeq(Part("server", b, c), 1, n) = Part("server", 0, b + n)
        /\ Rest(Part("server", b, c), n) = Part("server", b + n, c)
        /\ Len(Part("server", 0, b + n)) = b + n
    BY <1>1, <1>2, <1>5, PartTaken, Zenon
  <2> QED BY <1>1, <1>6, <1>7, <2>1, Zenon
<1>9. b + n \in 0..c /\ b + n < lens["server"]
  <2>1. b + n \in 0..c
    BY <1>1, <1>5
  <2>2. b + n # lens["server"]
    <3> DEFINE p == recv["client"].buffer \o SubSeq(wire["server"], 1, n)
    <3>1. ~EndsText("client", p) /\ p = Part("server", 0, b + n) /\ Len(p) = b + n
      BY <1>3, <1>7, <1>8
    <3> HIDE DEF p, b
    <3>2. SUFFICES ASSUME b + n = lens["server"]
                   PROVE  FALSE
      OBVIOUS
    <3>3. p = Text("server") /\ Len(p) = lens["server"] /\ p # <<>>
      BY <1>2, <3>1, <3>2, TextFacts
    <3> QED BY <3>1, <3>3 DEF EndsText, Other
  <2>3. lens["server"] \in Nat
    BY <1>2, TextFacts
  <2> HIDE DEF b, c
  <2> QED BY <1>1, <1>5, <2>1, <2>2, <2>3
<1>10. AnswerInv'
  BY <1>3, <1>5, <1>8, <1>9 DEF AnswerInv, AnswerPut
<1>11. TextFlags' /\ NothingYet'
  BY <1>3, <1>7, TextKept DEF HandshakeInv, TextFlags, NothingYet, NothingRead, Sides
<1>12. RequestInv'
  BY <1>3, <1>6, <1>7, TextKept
  DEF HandshakeInv, RequestInv, NoFrame, Unanswered, Answering, Answered, HasRequest, Empty
<1> QED BY <1>3, <1>10, <1>11, <1>12 DEF HandshakeInv

\* The attempt of the server ends.
LEMMA ServerFails ==
  ASSUME Shapes, HandshakeInv, UNCHANGED <<lens, cut>>, ReadsText("server"),
         Becomes("server", "failed"), UNCHANGED <<send, recv, wire, sent, got>>
  PROVE  HandshakeInv'
<1>1. /\ conn'["client"] = conn["client"]
      /\ conn["server"].state = "connecting" /\ conn'["server"].state = "failed"
      /\ conn'["server"].receiving = conn["server"].receiving
      /\ conn'["server"].sending = conn["server"].sending
  BY DEF Becomes, ReadsText, Connecting, Shapes, ConnShape, Sides
<1>2. Unanswered
  BY TextFacts
  DEF HandshakeInv, RequestInv, Answering, Answered, ReadsText, Connecting, Sides
<1>3. Unanswered'
  BY <1>1, <1>2 DEF Unanswered, Empty, NoFrame
<1>4. TextFlags' /\ NothingYet'
  BY <1>1, TextKept DEF HandshakeInv, TextFlags, NothingYet, NothingRead, Sides
<1>5. AnswerInv'
  BY <1>1 DEF HandshakeInv, AnswerInv, AnswerPut
<1>6. RequestInv'
  BY <1>1, <1>3, TextKept DEF HandshakeInv, RequestInv, NoFrame
<1> QED BY <1>1, <1>3, <1>4, <1>5, <1>6 DEF HandshakeInv

\* What a text with its end still to come says of its length.
LEMMA TextToCome ==
  ASSUME Shapes, HandshakeInv, NEW s \in Sides, ReadsText(s)
  PROVE  /\ Len(recv[s].buffer) \in Nat /\ Len(recv[s].buffer) <= BufLen
         /\ Len(wire[Other(s)]) \in Nat
         /\ Len(recv[s].buffer) + Len(wire[Other(s)]) <= lens[Other(s)]
         /\ s = "client" => Len(recv[s].buffer) < lens["server"]
<1> DEFINE b == Len(recv[s].buffer)
<1>1. "client" \in Sides /\ "server" \in Sides
  BY DEF Sides
<1>2. CASE s = "server"
  <2>1. Unanswered
    BY <1>1, <1>2, TextFacts
    DEF HandshakeInv, RequestInv, Answering, Answered, ReadsText, Connecting
  <2> DEFINE c == send["client"].pos
  <2>2. /\ Other(s) = "client" /\ b \in Nat /\ c \in Nat /\ b <= c /\ b <= BufLen
        /\ c <= lens["client"] /\ lens["client"] \in Nat /\ wire["client"] = Part("client", b, c)
    BY <1>1, <1>2, <2>1, TextFacts DEF HandshakeInv, RequestInv, Unanswered, Other
  <2> HIDE DEF b, c
  <2>3. Len(wire["client"]) = c - b
    BY <2>2, PartLen
  <2>4. b + (c - b) <= lens["client"] /\ c - b \in Nat
    BY <2>2
  <2> QED BY <1>2, <2>2, <2>3, <2>4 DEF b
<1>3. CASE s = "client"
  <2> DEFINE c == AnswerPut
  <2>2. /\ Other(s) = "server" /\ b \in Nat /\ c \in Nat /\ b <= c /\ b <= BufLen
        /\ c <= lens["server"] /\ lens["server"] \in Nat /\ wire["server"] = Part("server", b, c)
        /\ b < lens["server"]
    BY <1>1, <1>3, HandshakeWires, TextFacts DEF HandshakeInv, AnswerInv, Other
  <2> HIDE DEF b, c
  <2>3. Len(wire["server"]) = c - b
    BY <2>2, PartLen
  <2>4. b + (c - b) <= lens["server"] /\ c - b \in Nat
    BY <2>2
  <2> QED BY <1>3, <2>2, <2>3, <2>4 DEF b
<1> QED BY <1>2, <1>3 DEF Sides

LEMMA TooLongStep ==
  ASSUME Shapes, HandshakeInv, UNCHANGED <<lens, cut>>, NEW s \in Sides, TextTooLong(s)
  PROVE  HandshakeInv'
<1>1. CASE s = "server"
  BY <1>1, ServerFails DEF TextTooLong
<1>2. CASE s = "client"
  <2>1. ~Fits("server")
    <3>1. ReadsText(s) /\ BufLen - Len(recv[s].buffer) = 0
      BY DEF TextTooLong, TextRoom
    <3>2. Len(recv[s].buffer) \in Nat /\ Len(recv[s].buffer) < lens["server"]
      BY <1>2, <3>1, TextToCome
    <3>3. BufLen \in Nat /\ lens["server"] \in Nat
      BY WebSocketAssumption DEF Shapes, Sides
    <3> QED BY <3>1, <3>2, <3>3 DEF Fits
  <2>2. UNCHANGED <<send, recv, wire, sent, got>>
    BY DEF TextTooLong
  <2>3. /\ conn'["server"] = conn["server"] /\ conn'["client"].state = "failed"
        /\ conn'["client"].receiving = conn["client"].receiving
        /\ conn'["client"].sending = conn["client"].sending
    BY <1>2 DEF TextTooLong, Becomes, Shapes, ConnShape, Sides
  <2>4. conn["client"].state = "connecting"
    BY <1>2 DEF TextTooLong, ReadsText, Connecting
  <2>5. NothingYet'
    BY <2>2 DEF HandshakeInv, NothingYet, NothingRead
  <2>6. TextFlags'
    BY <2>1, <2>3, <2>4, TextKept DEF HandshakeInv, TextFlags, Sides
  <2>7. RequestInv'
    BY <2>2, <2>3, TextKept
    DEF HandshakeInv, RequestInv, NoFrame, Unanswered, Answering, Answered, HasRequest, Empty
  <2>8. AnswerInv'
    BY <2>2, <2>3 DEF HandshakeInv, AnswerInv, AnswerPut
  <2> QED BY <2>3, <2>5, <2>6, <2>7, <2>8 DEF HandshakeInv
<1> QED BY <1>1, <1>2 DEF Sides

LEMMA RequestStep ==
  ASSUME Shapes, HandshakeInv, UNCHANGED <<lens, cut>>, ReadRequest
  PROVE  HandshakeInv'
<1> DEFINE b == Len(recv["server"].buffer)
           c == send["client"].pos
           T == lens["server"]
<1>1. PICK n \in 1..LeastOf(TextAsked("server"), TextRoom("server")), k \in 0..T :
        /\ LastRead("server", n)
        /\ Moved("server", n, SubSeq(Text("server"), 1, k))
        /\ recv' = [recv EXCEPT !["server"].buffer = <<>>]
        /\ PutsText("server", Text("server"), 0, k)
        /\ UNCHANGED <<sent, got>>
  BY DEF ReadRequest
<1>2. ReadsText("server") /\ recv["server"].buffer \o SubSeq(wire["client"], 1, n) = Text("client")
  BY <1>1 DEF LastRead, Other
<1>3. Unanswered /\ conn["server"].state = "connecting"
  BY <1>2, TextFacts
  DEF HandshakeInv, RequestInv, Answering, Answered, ReadsText, Connecting, Sides
<1>4. "client" \in Sides /\ "server" \in Sides
  BY DEF Sides
<1>5. /\ b \in Nat /\ c \in Nat /\ b <= c /\ recv["server"].buffer = Part("client", 0, b)
      /\ wire["client"] = Part("client", b, c) /\ c <= lens["client"]
  BY <1>3, <1>4, TextFacts DEF HandshakeInv, RequestInv, Unanswered
<1>6. n \in 0..c - b
  <2>1. Len(wire["client"]) \in Nat /\ Len(wire["client"]) = c - b
    <3> HIDE DEF b, c
    <3>1. Len(Part("client", b, c)) = c - b
      BY <1>4, <1>5, Parts, ZenonT(60)
    <3> QED BY <1>5, <3>1
  <2>2. n \in Nat \ {0} /\ n <= Len(wire["client"])
    <3>1. Other("server") = "client"
      BY DEF Other
    <3>2. n \in 1..Len(wire["client"])
      BY <1>1, <1>2, <1>4, <3>1, TextRead, TextToCome
    <3> HIDE DEF b, c
    <3> QED BY <2>1, <3>2
  <2> HIDE DEF b, c
  <2> QED BY <1>5, <2>1, <2>2
<1>7. b + n = c /\ c = lens["client"]
  <2> HIDE DEF b, c
  <2>1. /\ Part("client", 0, b) \o SubSeq(Part("client", b, c), 1, n) = Part("client", 0, b + n)
        /\ Len(Part("client", 0, b + n)) = b + n
    BY <1>4, <1>5, <1>6, PartTaken, ZenonT(60)
  <2>2. Len(Text("client")) = lens["client"] /\ lens["client"] \in Nat
    BY <1>4, TextFacts
  <2>3. b + n = lens["client"]
    BY <1>2, <1>5, <2>1, <2>2
  <2> QED BY <1>5, <1>6, <2>2, <2>3
<1>8. wire'["client"] = <<>>
  <2>1. wire'["client"] = Rest(wire["client"], n)
    BY <1>1, <1>4, MovedFacts DEF Other
  <2> HIDE DEF b, c
  <2>2. Rest(Part("client", b, c), n) = Part("client", b + n, c)
    BY <1>4, <1>5, <1>6, PartTaken, Zenon
  <2>3. Part("client", c, c) = <<>>
    BY <1>5, EmptyWindow DEF Part
  <2> QED BY <1>5, <1>7, <2>1, <2>2, <2>3
<1>9. /\ T \in Nat \ {0} /\ Len(Text("server")) = T /\ Text("server") # <<>>
  BY <1>4, TextFacts
<1>10. /\ send'["server"].frame_len = send["server"].frame_len
       /\ send'["server"].header_pos = send["server"].header_pos
       /\ send'["client"] = send["client"] /\ conn'["client"] = conn["client"]
       /\ IF 0 + k = Len(Text("server"))
          THEN /\ send'["server"].buffer = <<>> /\ send'["server"].pos = 0
               /\ conn'["server"].state = "open" /\ conn'["server"].receiving = "requested"
               /\ conn["server"].sending \in {"free", "sending"} =>
                    conn'["server"].sending = "free"
          ELSE /\ send'["server"].buffer = Text("server") /\ send'["server"].pos = 0 + k
               /\ conn'["server"].state = conn["server"].state
               /\ conn'["server"].receiving = conn["server"].receiving
               /\ conn'["server"].sending \in {"free", "sending"}
  BY <1>1, ServerPutsText
<1>11. conn["server"].sending \in {"free", "sending"} /\ conn["server"].receiving = "no"
  BY <1>3, <1>4 DEF HandshakeInv, TextFlags
<1>12. /\ recv'["server"].buffer = <<>> /\ recv'["client"] = recv["client"]
       /\ \A f \in {"message_len", "in_frame", "frame_len", "frame_pos", "header", "mask"} :
            recv'["server"][f] = recv["server"][f]
  BY <1>1 DEF Shapes, RecvShape, RecvFields, Sides
<1>13. NoFrame("server")'
  BY <1>3, <1>10 DEF Unanswered, Empty, NoFrame
<1>14. HasRequest'
  BY <1>7, <1>8, <1>10, <1>12 DEF HasRequest
<1>15. Answering' \/ Answered'
  <2>1. CASE k = T
    BY <1>9, <1>10, <1>11, <1>13, <1>14, <2>1 DEF Answered, Empty
  <2>2. CASE k # T
    <3>1. k \in 0..T - 1 /\ 0 + k # T /\ 0 + k = k
      BY <1>9, <2>2
    <3> QED BY <1>3, <1>9, <1>10, <1>13, <1>14, <3>1, TextKept DEF Answering
  <2> QED BY <2>1, <2>2
<1>16. AnswerPut = 0 /\ AnswerPut' = k
  BY <1>3, <1>9, <1>10 DEF AnswerPut, Unanswered, Empty
<1>17. AnswerInv'
  <2>1. Len(recv["client"].buffer) = 0 /\ wire["server"] = Part("server", 0, 0)
        /\ recv["client"].buffer = Part("server", 0, 0)
    BY <1>16 DEF HandshakeInv, AnswerInv
  <2>2. wire'["server"] = wire["server"] \o SubSeq(Text("server"), 0 + 1, 0 + k)
    <3>1. wire'["server"] = wire["server"] \o SubSeq(Text("server"), 1, k)
      BY <1>1, <1>4, MovedFacts, Zenon
    <3>2. 0 + 1 = 1 /\ 0 + k = k
      OBVIOUS
    <3> QED BY <3>1, <3>2
  <2>3. 0 + k = k /\ k \in Nat /\ 0 \in Nat /\ 0 <= 0 /\ 0 + k <= lens["server"]
    BY <1>9
  <2>4. Part("server", 0, 0) \o SubSeq(Text("server"), 0 + 1, 0 + k) = Part("server", 0, 0 + k)
    BY <1>4, <2>3, PartSent, Zenon
  <2>5. wire'["server"] = Part("server", 0, k)
    BY <2>1, <2>2, <2>3, <2>4
  <2>6. 0 \in 0..k
    OBVIOUS
  <2>7. 0 < lens["server"] /\ 0 <= BufLen
    <3>1. BufLen \in Nat
      BY WebSocketAssumption
    <3> QED BY <1>9, <3>1
  <2> QED BY <1>12, <1>16, <2>1, <2>5, <2>6, <2>7 DEF AnswerInv
<1>18. TextFlags'
  BY <1>10, <1>11, TextKept DEF HandshakeInv, TextFlags, Sides
<1>19. NothingYet'
  BY <1>1, <1>12 DEF HandshakeInv, NothingYet, NothingRead, Sides
<1>20. RequestInv'
  BY <1>10, <1>15, TextKept DEF HandshakeInv, RequestInv, NoFrame
<1> QED BY <1>10, <1>17, <1>18, <1>19, <1>20 DEF HandshakeInv

LEMMA AnswerStep ==
  ASSUME Shapes, HandshakeInv, UNCHANGED <<lens, cut>>, ReadAnswer
  PROVE  TalkInv' /\ conn'["client"].state = "open"
<1> DEFINE b == Len(recv["client"].buffer)
           c == AnswerPut
<1>1. PICK n \in 1..LeastOf(TextAsked("client"), TextRoom("client")) :
        /\ LastRead("client", n)
        /\ Takes("client", n)
        /\ recv' = [recv EXCEPT !["client"].buffer = <<>>, !["client"].message_len = 0]
        /\ conn' = [conn EXCEPT !["client"] = Opened(@)]
        /\ send' = [send EXCEPT !["client"].buffer = <<>>, !["client"].pos = 0]
        /\ UNCHANGED <<sent, got>>
  BY DEF ReadAnswer
<1>2. recv["client"].buffer \o SubSeq(wire["server"], 1, n) = Text("server")
  BY <1>1 DEF LastRead, Other
<1>3. "client" \in Sides /\ "server" \in Sides
  BY DEF Sides
<1>4. /\ b \in Nat /\ c \in Nat /\ b <= c /\ recv["client"].buffer = Part("server", 0, b)
      /\ wire["server"] = Part("server", b, c) /\ c <= lens["server"]
  BY <1>3, HandshakeWires, TextFacts DEF HandshakeInv, AnswerInv
<1>5. n \in 0..c - b
  <2>1. Len(wire["server"]) \in Nat /\ Len(wire["server"]) = c - b
    <3> HIDE DEF b, c
    <3>1. Len(Part("server", b, c)) = c - b
      BY <1>3, <1>4, Parts, ZenonT(60)
    <3> QED BY <1>4, <3>1
  <2>2. n \in Nat \ {0} /\ n <= Len(wire["server"])
    <3>1. Other("client") = "server" /\ ReadsText("client")
      BY <1>1 DEF Other, LastRead
    <3>2. n \in 1..Len(wire["server"])
      BY <1>1, <1>3, <3>1, TextRead, TextToCome
    <3> HIDE DEF b, c
    <3> QED BY <2>1, <3>2
  <2> HIDE DEF b, c
  <2> QED BY <1>4, <2>1, <2>2
<1>6. b + n = c /\ c = lens["server"]
  <2> HIDE DEF b, c
  <2>1. /\ Part("server", 0, b) \o SubSeq(Part("server", b, c), 1, n) = Part("server", 0, b + n)
        /\ Len(Part("server", 0, b + n)) = b + n
    BY <1>3, <1>4, <1>5, PartTaken, ZenonT(60)
  <2>2. Len(Text("server")) = lens["server"] /\ lens["server"] \in Nat
    BY <1>3, TextFacts
  <2>3. b + n = lens["server"]
    BY <1>2, <1>4, <2>1, <2>2
  <2> QED BY <1>4, <1>5, <2>2, <2>3
<1>7. wire'["server"] = <<>>
  <2>1. wire'["server"] = Rest(wire["server"], n)
    BY <1>1, <1>3, MovedFacts DEF Other, Takes
  <2> HIDE DEF b, c
  <2>2. Rest(Part("server", b, c), n) = Part("server", b + n, c)
    BY <1>3, <1>4, <1>5, PartTaken, Zenon
  <2>3. Part("server", c, c) = <<>>
    BY <1>4, EmptyWindow DEF Part
  <2> QED BY <1>4, <1>6, <2>1, <2>2, <2>3
<1>8. Answered
  BY <1>3, <1>6, TextFacts
  DEF HandshakeInv, RequestInv, AnswerPut, Unanswered, Answering, Empty
<1>9. wire'["client"] = <<>>
  <2>1. wire'["client"] = wire["client"]
    BY <1>1, <1>3, HandshakeWires, StillStreams
  <2> QED BY <1>8, <2>1 DEF Answered, HasRequest
<1>10. /\ conn'["server"] = conn["server"] /\ conn'["client"].state = "open"
       /\ conn'["client"].receiving = "requested" /\ conn'["client"].sending = "free"
  <2>1. conn["client"].sending \in {"free", "sending"}
    BY <1>3 DEF HandshakeInv, TextFlags
  <2> QED BY <1>1, <1>3, <2>1 DEF Shapes, ConnShape, Opened
<1>11. \A s \in Sides : /\ conn'[s].state = "open" /\ conn'[s].receiving = "requested"
                        /\ conn'[s].sending = "free"
  BY <1>8, <1>10 DEF Answered, Sides
<1>12. \A s \in Sides : Empty(s)'
  <2>1. /\ send'["client"].buffer = <<>> /\ send'["client"].pos = 0
        /\ send'["client"].frame_len = send["client"].frame_len
        /\ send'["client"].header_pos = send["client"].header_pos
        /\ send'["server"] = send["server"]
    BY <1>1 DEF Shapes, SendShape, SendFields, Sides
  <2> QED BY <1>8, <2>1 DEF Answered, Empty, NoFrame, HandshakeInv, RequestInv, Sides
<1>13. \A s \in Sides : /\ NothingRead(s)' /\ recv'[s].buffer = <<>>
                        /\ recv'[s].header = <<>> /\ recv'[s].mask = <<>>
  <2>1. /\ recv'["client"].buffer = <<>> /\ recv'["client"].message_len = 0
        /\ \A f \in {"in_frame", "frame_len", "frame_pos", "header", "mask"} :
             recv'["client"][f] = recv["client"][f]
        /\ recv'["server"] = recv["server"]
    BY <1>1 DEF Shapes, RecvShape, RecvFields, Sides
  <2> QED BY <1>8, <2>1 DEF Answered, HasRequest, HandshakeInv, NothingYet, NothingRead, Sides
<1>14. \A s \in Sides : sent'[s] = <<>> /\ got'[s] = <<>> /\ wire'[s] = <<>>
  BY <1>1, <1>7, <1>9 DEF HandshakeInv, NothingYet, Sides
<1>15. \A s \in Sides : Len(sent'[s]) = 0 /\ Len(got'[s]) = 0
  BY <1>14
<1>16. ASSUME NEW s \in Sides
       PROVE  FramesInv(s)' /\ SendInv(s)' /\ InOrder(s)'
  <2>1. Last(s)' = 0 /\ Coming(s)' = 1 /\ Other(s) \in Sides
    BY <1>15 DEF Last, Coming, Other, Sides
  <2>2. EndOf(s, Last(s))' = 0 /\ EndOf(s, Coming(s) - 1)' = 0
    BY <2>1 DEF EndOf
  <2>3. FramesInv(s)'
    BY <2>1 DEF FramesInv
  <2>4. SendInv(s)'
    BY <1>11, <1>12 DEF SendInv
  <2>5. Put(s)' = 0
    BY <1>11, <2>2 DEF Put
  <2>6. Taken(s)' = 0
    <3>1. Len(recv'[Other(s)].header) = 0 /\ recv'[Other(s)].in_frame = FALSE
      BY <1>13, <2>1 DEF NothingRead
    <3>2. conn'[Other(s)].receiving = "requested"
      BY <1>11, <2>1
    <3> QED BY <2>2, <3>1, <3>2 DEF Taken
  <2>7. WireInv(s)'
    BY <1>14, <2>5, <2>6 DEF WireInv
  <2>8. RecvInv(s)'
    <3>1. got'[Other(s)] \in Seq(Nat) /\ Len(got'[Other(s)]) <= Last(s)'
      <4>1. <<>> \in Seq(Nat) /\ 0 <= 0
        OBVIOUS
      <4> QED BY <1>14, <1>15, <2>1, <4>1
    <3>2. ~(Coming(s)' <= Last(s)')
      BY <2>1
    <3> QED BY <1>11, <1>13, <2>1, <3>1, <3>2 DEF RecvInv
  <2>9. AloneInv(s)'
    BY <2>1 DEF AloneInv
  <2>10. conn'[Other(s)].state = "open"
    BY <1>11, <2>1
  <2> QED BY <2>3, <2>4, <2>7, <2>8, <2>9, <2>10 DEF InOrder
<1> QED BY <1>10, <1>16 DEF TalkInv

\* Before the client is connected, nobody sends or receives frames.
LEMMA NoFramesYet ==
  ASSUME Shapes, HandshakeInv, NEW s \in Sides
  PROVE  /\ ~SendFrame(s) /\ ~SendMessage(s) /\ ~Release(s)
         /\ ~ReadHeader(s) /\ ~ReadData(s) /\ ~Take(s)
<1>1. CASE conn[s].state # "open"
  <2>1. ~SendFrame(s) /\ ~SendMessage(s) /\ ~Release(s) /\ ~Take(s)
    BY <1>1, Zenon DEF SendFrame, SendMessage, Release, Take
  <2>2. ~ReadHeader(s) /\ ~ReadData(s)
    BY <1>1, Zenon DEF ReadHeader, ReadData, Receiving
  <2> QED BY <2>1, <2>2
<1>2. CASE conn[s].state = "open"
  <2>1. s = "server" /\ Answered
    BY <1>2 DEF HandshakeInv, RequestInv, Unanswered, Answering, Sides
  <2>2. sent[s] = <<>> /\ got[s] = <<>> /\ wire["client"] = <<>> /\ recv[s].in_frame = FALSE
        /\ recv[s].header = <<>>
    BY <2>1 DEF HandshakeInv, NothingYet, NothingRead, Answered, HasRequest, Sides
  <2>3. Kept(s) = recv[s]
    BY <2>1, <2>2 DEF Kept, NextFrame, Answered
  <2>4. ~ReadHeader(s)
    <3>1. ASSUME NEW n \in 1..LeastOf(2 - 0, Len(<<>>))
          PROVE  FALSE
      BY DEF LeastOf
    <3>2. HeaderAsked(recv[s]) = 2 - 0
      BY <2>2 DEF HeaderAsked, HeaderNeeds
    <3>3. Other(s) = "client"
      BY <2>1, SMTT(40) DEF Other
    <3> QED BY <2>2, <2>3, <3>1, <3>2, <3>3 DEF ReadHeader
  <2>5. ~ReadData(s)
    <3>1. ReadData(s) => Kept(s).in_frame
      BY Zenon DEF ReadData
    <3> QED BY <2>2, <2>3, <3>1
  <2>6. ~SendMessage(s)
    <3>1. ~(Len(sent[s]) < Len(got[s]))
      BY <2>2
    <3> QED BY <2>1, <3>1 DEF SendMessage
  <2>7. ~SendFrame(s) /\ ~Release(s) /\ ~Take(s)
    BY <2>1 DEF SendFrame, Release, Take, Answered
  <2> QED BY <2>4, <2>5, <2>6, <2>7
<1> QED BY <1>1, <1>2, SMTT(40)

\* A text is read past the end of the buffer only if it does not fit.
LEMMA TextCut ==
  ASSUME Shapes, HandshakeInv, NEW s \in Sides, TextOverruns(s)
  PROVE  ~Fits(Other(s))
<1> DEFINE b == Len(recv[s].buffer)
           w == Len(wire[Other(s)])
<1>1. ReadsText(s) /\ LeastOf(b + 1, w) > BufLen - b
  BY DEF TextOverruns, TextAsked, TextRoom
<1>2. b \in Nat /\ w \in Nat /\ b + w <= lens[Other(s)]
  BY <1>1, TextToCome
<1>3. BufLen \in Nat /\ lens[Other(s)] \in Nat
  BY WebSocketAssumption DEF Shapes, Other, Sides
<1> HIDE DEF b, w
<1> QED BY <1>1, <1>2, <1>3 DEF LeastOf, Fits

LEMMA HandshakeStep ==
  ASSUME Shapes, HandshakeInv, Flow, UNCHANGED <<lens, cut>>
  PROVE  HandshakeInv' \/ (conn'["client"].state = "open" /\ TalkInv')
<1>1. ASSUME NEW s \in Sides, SendText(s)
      PROVE  HandshakeInv'
  BY <1>1, ClientSendsText, ServerSendsText DEF Sides
<1>2. ASSUME NEW s \in Sides, ReadText(s)
      PROVE  HandshakeInv'
  BY <1>2, ClientTextStep, ServerTextStep DEF Sides
<1>3. ASSUME TextIsTorn
      PROVE  HandshakeInv'
  BY <1>3, ServerFails DEF TextIsTorn
<1> QED
  BY <1>1, <1>2, <1>3, NoFramesYet, OpeningStep, RequestStep, TooLongStep, AnswerStep
  DEF Flow, Moves

-----------------------------------------------------------------------------
(* Messages as frames *)

LEMMA Others ==
  ASSUME NEW s \in Sides
  PROVE  /\ Other(s) \in Sides /\ Other(s) # s /\ Other(Other(s)) = s
         /\ \A t \in Sides : t = s \/ t = Other(s)
BY DEF Other, Sides

LEMMA HeadSizes ==
  ASSUME NEW s, NEW n
  PROVE  /\ HeadSize(s, n) \in Nat /\ HeadSize(s, n) >= 2
         /\ HeadSize(s, n)' \in Nat /\ HeadSize(s, n)' >= 2
<1>1. MaskLen \in Nat
  BY WebSocketAssumption
<1> QED BY <1>1 DEF HeadSize, HeaderLen

LEMMA SizeFacts ==
  ASSUME Shapes, NEW s \in Sides
  PROVE  /\ Last(s) \in Nat /\ DOMAIN sent[s] = 1..Last(s) /\ (sent[s] # <<>> <=> Last(s) > 0)
         /\ \A n \in 1..Last(s) :
              /\ sent[s][n] \in Sendings
              /\ Size(s, n) \in Nat \ {0} /\ Size(s, n) >= PreambleLen
              /\ Size(s, n) <= FrameMax
         /\ \A n \in 0..Last(s) : EndOf(s, n) \in Nat
<1>1. sent[s] \in Seq(Sendings)
  BY DEF Shapes
<1>2. Len(sent[s]) \in Nat /\ DOMAIN sent[s] = 1..Len(sent[s])
      /\ (sent[s] # <<>> <=> Len(sent[s]) > 0)
  BY <1>1, EmptySeq, LenProperties
<1>3. ASSUME NEW n \in 1..Len(sent[s])
      PROVE  /\ sent[s][n] \in Sendings
             /\ Size(s, n) \in Nat \ {0} /\ Size(s, n) >= PreambleLen /\ Size(s, n) <= FrameMax
  <2>1. sent[s][n] \in Sendings
    BY <1>1, <1>2, ElementOfSeq
  <2>2. Size(s, n) \in Sizes
    BY <2>1 DEF Sendings, Size
  <2>3. PreambleLen \in Nat \ {0} /\ FrameMax \in Nat /\ Size(s, n) \in PreambleLen..FrameMax
    BY <2>2, WebSocketAssumption
  <2> DEFINE L == Size(s, n)
  <2> HIDE DEF L
  <2>4. L \in Nat \ {0} /\ L >= PreambleLen /\ L <= FrameMax
    BY <2>3 DEF L
  <2> QED BY <2>1, <2>4 DEF L
<1> QED BY <1>2, <1>3, EndNat DEF Last

\* The bytes of the frames of a stream: no byte is one of two frames.
LEMMA FrameFacts ==
  ASSUME Shapes, NEW s \in Sides, FramesInv(s), NEW n \in 1..Last(s)
  PROVE  /\ EndOf(s, n - 1) \in Nat /\ EndOf(s, n) \in Nat
         /\ EndOf(s, n) = EndOf(s, n - 1) + HeadSize(s, n) + Size(s, n)
         /\ EndOf(s, n) <= EndOf(s, Last(s))
<1>1. n - 1 \in 0..Last(s) /\ n \in 0..Last(s) /\ Last(s) \in 0..Last(s)
  BY SizeFacts
<1>2. EndOf(s, n - 1) \in Nat /\ EndOf(s, n) \in Nat /\ EndOf(s, Last(s)) \in Nat
  BY <1>1, SizeFacts
<1>3. EndOf(s, n) <= EndOf(s, Last(s))
  <2>1. CASE n = Last(s)
    BY <1>2, <2>1
  <2>2. CASE n # Last(s)
    <3>1. n < Last(s)
      BY <2>2, SizeFacts
    <3> QED BY <1>1, <1>2, <3>1 DEF FramesInv
  <2> QED BY <2>1, <2>2
<1> QED BY <1>2, <1>3 DEF FramesInv

LEMMA FramesApart ==
  ASSUME Shapes, NEW s \in Sides, FramesInv(s), NEW n \in 1..Last(s), NEW m \in 1..Last(s),
         NEW j \in 1..HeadSize(s, n) + Size(s, n), NEW k \in Nat \ {0},
         EndOf(s, n - 1) + j = EndOf(s, m - 1) + k
  PROVE  m <= n
<1>1. SUFFICES ASSUME n < m PROVE FALSE
  BY SizeFacts
<1>2. n \in 0..Last(s) /\ m - 1 \in 0..Last(s) /\ (n < m - 1 \/ n = m - 1)
  BY <1>1, SizeFacts
<1>3. EndOf(s, n) <= EndOf(s, m - 1)
  <2>1. EndOf(s, n) \in Nat /\ EndOf(s, m - 1) \in Nat
    BY <1>2, SizeFacts
  <2>2. CASE n = m - 1
    BY <2>1, <2>2
  <2>3. CASE n < m - 1
    BY <1>2, <2>1, <2>3 DEF FramesInv
  <2> QED BY <1>2, <2>2, <2>3
<1> DEFINE a == EndOf(s, n - 1)
           b == EndOf(s, n)
           c == EndOf(s, m - 1)
           h == HeadSize(s, n)
           d == Size(s, n)
<1>4. /\ a \in Nat /\ b \in Nat /\ c \in Nat /\ h \in Nat /\ d \in Nat /\ b = a + h + d
      /\ b <= c /\ j \in 1..h + d /\ a + j = c + k
  BY <1>2, <1>3, FrameFacts, SizeFacts, HeadSizes
<1> HIDE DEF a, b, c, h, d
<1> QED BY <1>4

LEMMA SameByte ==
  ASSUME Shapes, NEW s \in Sides, FramesInv(s), NEW n \in 1..Last(s), NEW m \in 1..Last(s),
         NEW j \in 1..HeadSize(s, n) + Size(s, n), NEW k \in 1..HeadSize(s, m) + Size(s, m),
         EndOf(s, n - 1) + j = EndOf(s, m - 1) + k
  PROVE  n = m /\ j = k
<1>1. j \in Nat \ {0} /\ k \in Nat \ {0}
  <2>1. \A i \in {n, m} : HeadSize(s, i) + Size(s, i) \in Nat
    <3>1. \A i \in {n, m} : HeadSize(s, i) \in Nat
      BY HeadSizes
    <3>2. \A i \in {n, m} : Size(s, i) \in Nat
      BY SizeFacts
    <3> QED BY <3>1, <3>2
  <2> QED BY <2>1
<1>2. m <= n /\ n <= m
  BY <1>1, FramesApart
<1>3. n = m
  BY <1>2, SizeFacts
<1>4. EndOf(s, n - 1) \in Nat
  BY FrameFacts
<1> QED BY <1>1, <1>3, <1>4

LEMMA SmallMod ==
  ASSUME NEW a \in Nat, NEW b \in Nat, a < b
  PROVE  a % b = a
OBVIOUS

LEMMA HeadFacts ==
  ASSUME Shapes, NEW s \in Sides, NEW n \in 1..Last(s)
  PROVE  /\ HeadOf(s, n) = [j \in 1..HeadSize(s, n) |-> HeadOf(s, n)[j]]
         /\ \A j \in 1..HeadSize(s, n) :
              /\ HeadOf(s, n)[j].head.long = (Size(s, n) > ShortMax)
              /\ HeadOf(s, n)[j].head.len = Size(s, n)
              /\ HeadOf(s, n)[j].head.key = MaskOf(s, n)
              /\ FrameByte(s, n, j) = HeadOf(s, n)[j]
         /\ (MaskOf(s, n) # <<>>) = (s = "client")
         /\ \A j \in 1..Size(s, n) :
              FrameByte(s, n, HeadSize(s, n) + j)
                = [data |-> n, at |-> j, mask |-> Key(MaskOf(s, n), j)]
<1> DEFINE L == Size(s, n)
           H == HeadSize(s, n)
           m == MaskOf(s, n)
           long == L > ShortMax
           h == [long |-> long, len |-> IF long THEN L % (FrameMax + 1) ELSE L, key |-> m]
<1>1. L \in Nat /\ L <= FrameMax /\ FrameMax \in Nat /\ H \in Nat
  BY SizeFacts, HeadSizes, WebSocketAssumption
<1>2. h.len = L
  <2>1. L % (FrameMax + 1) = L
    <3>1. FrameMax + 1 \in Nat /\ L < FrameMax + 1
      BY <1>1
    <3> HIDE DEF L
    <3> QED BY <1>1, <3>1, SmallMod
  <2> QED BY <2>1
<1>3. (m # <<>>) = (s = "client")
  BY DEF MaskOf
<1> HIDE DEF m
<1>4. HeadOf(s, n) = [i \in 1..HeaderLen(long, m # <<>>) |-> [head |-> h, at |-> i, mask |-> <<>>]]
  BY DEF HeadOf, Header, m
<1>5. HeaderLen(long, m # <<>>) = H
  BY <1>3 DEF HeadSize
<1> HIDE DEF h, L, H
<1>6. HeadOf(s, n) = [i \in 1..H |-> [head |-> h, at |-> i, mask |-> <<>>]]
  BY <1>4, <1>5
<1>7. \A j \in 1..H : FrameByte(s, n, j) = HeadOf(s, n)[j]
  BY <1>1 DEF FrameByte, H
<1>8. \A j \in 1..L : FrameByte(s, n, H + j) = [data |-> n, at |-> j, mask |-> Key(m, j)]
  <2>1. ASSUME NEW j \in 1..L
        PROVE  FrameByte(s, n, H + j) = BodyOf(s, n)[j]
    <3> DEFINE k == H + j
    <3>1. k \in Nat /\ ~(k <= H) /\ k - H = j
      BY <1>1
    <3> HIDE DEF k
    <3>2. FrameByte(s, n, k) = BodyOf(s, n)[j]
      BY <3>1 DEF FrameByte, H
    <3> QED BY <3>2 DEF k
  <2>2. \A j \in 1..L : BodyOf(s, n)[j] = [data |-> n, at |-> j, mask |-> Key(m, j)]
    BY DEF BodyOf, Masked, L, m
  <2> QED BY <2>1, <2>2
<1>9. h.long = long /\ h.len = L /\ h.key = m
  BY <1>2 DEF h
<1>10. \A j \in 1..H : HeadOf(s, n)[j].head = h
  BY <1>6
<1>11. HeadOf(s, n) = [j \in 1..H |-> HeadOf(s, n)[j]]
  BY <1>6
<1> QED BY <1>3, <1>7, <1>8, <1>9, <1>10, <1>11 DEF m, L, H

LEMMA Masking ==
  ASSUME NEW n, NEW i, NEW mask
  PROVE  /\ Xored([data |-> n, at |-> i, mask |-> <<>>], Key(mask, i))
              = [data |-> n, at |-> i, mask |-> Key(mask, i)]
         /\ Xored([data |-> n, at |-> i, mask |-> Key(mask, i)], Key(mask, i))
              = [data |-> n, at |-> i, mask |-> <<>>]
BY DEF Xored, Key

LEMMA MessageFacts ==
  ASSUME NEW n, NEW len \in Nat
  PROVE  /\ Len(Message(n, len)) = len /\ DOMAIN Message(n, len) = 1..len
         /\ Stream(Message(n, len))
         /\ \A i \in 1..len : Message(n, len)[i] = [data |-> n, at |-> i, mask |-> <<>>]
         /\ \A mask : Len(Masked(n, len, mask)) = len
<1>1. Message(n, len) = [i \in 1..len |-> Message(n, len)[i]]
      /\ \A i \in 1..len : Message(n, len)[i] = [data |-> n, at |-> i, mask |-> <<>>]
  BY DEF Message
<1>2. Len(Message(n, len)) = len /\ DOMAIN Message(n, len) = 1..len
  BY <1>1, Streams
<1>3. ASSUME NEW mask
      PROVE  Len(Masked(n, len, mask)) = len
  <2>1. Masked(n, len, mask) = [i \in 1..len |-> Masked(n, len, mask)[i]]
    BY DEF Masked
  <2> QED BY <2>1, Streams
<1> QED BY <1>1, <1>2, <1>3 DEF Stream

\* Streams are joined and cut into streams.
LEMMA StreamFacts ==
  ASSUME NEW f, Stream(f)
  PROVE  /\ \A g : Stream(g) => /\ Stream(f \o g) /\ Len(f \o g) = Len(f) + Len(g)
                                /\ \A i \in 1..Len(f) : (f \o g)[i] = f[i]
                                /\ \A i \in 1..Len(g) : (f \o g)[Len(f) + i] = g[i]
         /\ \A n \in 0..Len(f) : /\ Stream(SubSeq(f, 1, n)) /\ Len(SubSeq(f, 1, n)) = n
                                 /\ \A i \in 1..n : SubSeq(f, 1, n)[i] = f[i]
         /\ \A n \in Nat : /\ Stream(Rest(f, n))
                           /\ Len(Rest(f, n)) = IF n <= Len(f) THEN Len(f) - n ELSE 0
                           /\ \A i \in 1..Len(f) - n : Rest(f, n)[i] = f[n + i]
<1> DEFINE a == Len(f)
<1>1. a \in Nat /\ f = [i \in 1..a |-> f[i]]
  BY DEF Stream
<1>2. ASSUME NEW b \in Nat, NEW h, h = [i \in 1..b |-> h[i]]
      PROVE  Stream(h) /\ Len(h) = b
  <2>1. Len(h) = b
    BY <1>2, Streams
  <2> QED BY <1>2, <2>1 DEF Stream
<1> HIDE DEF a
<1>3. ASSUME NEW g, Stream(g)
      PROVE  /\ Stream(f \o g) /\ Len(f \o g) = a + Len(g)
             /\ \A i \in 1..a : (f \o g)[i] = f[i]
             /\ \A i \in 1..Len(g) : (f \o g)[a + i] = g[i]
  <2> DEFINE b == Len(g)
             h == f \o g
  <2>1. b \in Nat /\ g = [i \in 1..b |-> g[i]]
    BY <1>3 DEF Stream
  <2> HIDE DEF b
  <2>2. h = [i \in 1..a + b |-> IF i <= a THEN f[i] ELSE g[i - a]]
    BY <1>1, <2>1, Joined
  <2> HIDE DEF h
  <2>3. h = [i \in 1..a + b |-> h[i]] /\ a + b \in Nat
    BY <1>1, <2>1, <2>2
  <2>4. \A i \in 1..a : h[i] = f[i]
    BY <1>1, <2>1, <2>2
  <2>5. ASSUME NEW i \in 1..b
        PROVE  h[a + i] = g[i]
    <3> DEFINE j == a + i
    <3>1. j \in 1..a + b /\ ~(j <= a) /\ j - a = i
      BY <1>1, <2>1
    <3> HIDE DEF j
    <3>2. h[j] = g[i]
      BY <2>2, <3>1
    <3> QED BY <3>2 DEF j
  <2>6. Stream(h) /\ Len(h) = a + b
    BY <1>2, <2>3
  <2> QED BY <2>4, <2>5, <2>6 DEF h, b
<1>4. ASSUME NEW n \in 0..a
      PROVE  /\ Stream(SubSeq(f, 1, n)) /\ Len(SubSeq(f, 1, n)) = n
             /\ \A i \in 1..n : SubSeq(f, 1, n)[i] = f[i]
  <2> DEFINE h == SubSeq(f, 1, n)
  <2>1. SubSeq(f, 0 + 1, n) = [i \in 1..n - 0 |-> f[0 + i]] /\ n \in Nat
    BY <1>1, Cut
  <2>2. 0 + 1 = 1 /\ n - 0 = n /\ \A i \in 1..n : 0 + i = i
    BY <2>1
  <2>3. h = [i \in 1..n |-> f[i]]
    BY <2>1, <2>2
  <2> HIDE DEF h
  <2>4. h = [i \in 1..n |-> h[i]] /\ \A i \in 1..n : h[i] = f[i]
    BY <2>3
  <2>5. Stream(h) /\ Len(h) = n
    BY <1>2, <2>1, <2>4
  <2> QED BY <2>4, <2>5 DEF h
<1>5. ASSUME NEW n \in Nat
      PROVE  /\ Stream(Rest(f, n)) /\ Len(Rest(f, n)) = IF n <= a THEN a - n ELSE 0
             /\ \A i \in 1..a - n : Rest(f, n)[i] = f[n + i]
  <2> DEFINE h == Rest(f, n)
  <2>1. h = SubSeq(f, n + 1, a)
    BY DEF Rest, a
  <2>2. CASE n <= a
    <3>1. SubSeq(f, n + 1, a) = [i \in 1..a - n |-> f[n + i]] /\ a - n \in Nat
      BY <1>1, <2>2, Cut
    <3> HIDE DEF h
    <3>2. h = [i \in 1..a - n |-> h[i]] /\ \A i \in 1..a - n : h[i] = f[n + i]
      BY <2>1, <3>1
    <3>3. Stream(h) /\ Len(h) = a - n
      BY <1>2, <3>1, <3>2
    <3> QED BY <2>2, <3>2, <3>3 DEF h
  <2>3. CASE ~(n <= a)
    <3> DEFINE m == n + 1
    <3>1. m \in Int /\ 1..1 + a - m = 1..0 /\ 1..a - n = {}
      BY <1>1, <2>3
    <3> HIDE DEF m
    <3>2. SubSeq(f, m, a) = [i \in 1..1 + a - m |-> f[i + m - 1]]
      BY <1>1, <3>1 DEF SubSeq
    <3> HIDE DEF h
    <3>3. h = [i \in 1..0 |-> h[i]]
      BY <2>1, <3>1, <3>2 DEF m
    <3>4. Stream(h) /\ Len(h) = 0
      BY <1>2, <3>3
    <3> QED BY <2>3, <3>1, <3>4 DEF h
  <2> QED BY <2>2, <2>3
<1> QED BY <1>3, <1>4, <1>5 DEF a

LEMMA NoBytes ==
  ASSUME NEW f, Stream(f)
  PROVE  /\ f \o <<>> = f /\ Rest(f, 0) = f /\ Stream(<<>>) /\ Len(<<>>) = 0
         /\ Len(f) = 0 => f = <<>>
<1>1. Stream(<<>>) /\ Len(<<>>) = 0
  BY DEF Stream
<1>2. ASSUME NEW g, Stream(g), Len(g) = Len(f), \A i \in 1..Len(f) : g[i] = f[i]
      PROVE  g = f
  BY <1>2 DEF Stream
<1>3. f \o <<>> = f
  <2> DEFINE e == <<>>
             g == f \o e
  <2>0. Stream(e) /\ Len(e) = 0
    BY <1>1
  <2> HIDE DEF e
  <2>1. Stream(g) /\ Len(g) = Len(f) + Len(e) /\ \A i \in 1..Len(f) : g[i] = f[i]
    BY <2>0, StreamFacts
  <2>2. Len(g) = Len(f)
    <3>1. Len(f) \in Nat
      BY DEF Stream
    <3> HIDE DEF g
    <3> QED BY <2>0, <2>1, <3>1
  <2> HIDE DEF g
  <2>3. g = f
    BY <1>2, <2>1, <2>2
  <2> QED BY <2>3 DEF g, e
<1>4. Rest(f, 0) = f
  <2> DEFINE z == 0
             g == Rest(f, z)
  <2>1. z \in Nat /\ z <= Len(f) /\ Len(f) - z = Len(f) /\ \A i \in 1..Len(f) : z + i = i
    BY DEF Stream
  <2> HIDE DEF z
  <2>2. /\ Stream(g) /\ Len(g) = (IF z <= Len(f) THEN Len(f) - z ELSE 0)
        /\ \A i \in 1..Len(f) - z : g[i] = f[z + i]
    BY <2>1, StreamFacts
  <2> HIDE DEF g
  <2>3. g = f
    BY <1>2, <2>1, <2>2
  <2> QED BY <2>3 DEF g, z
<1>5. Len(f) = 0 => f = <<>>
  BY DEF Stream
<1> QED BY <1>1, <1>3, <1>4, <1>5

\* How far the frames of s are put on the wire, and taken from it.
Way(s) == FramesInv(s) /\ SendInv(s) /\ (Past(s) \/ InOrder(s))

LEMMA LastFrame ==
  ASSUME Shapes, NEW s \in Sides, FramesInv(s), sent[s] # <<>>
  PROVE  /\ Last(s) \in 1..Last(s) /\ Last(s) - 1 \in 0..Last(s)
         /\ EndOf(s, Last(s) - 1) \in Nat /\ EndOf(s, Last(s)) \in Nat
         /\ EndOf(s, Last(s))
              = EndOf(s, Last(s) - 1) + HeadSize(s, Last(s)) + Size(s, Last(s))
         /\ HeadSize(s, Last(s)) \in Nat /\ HeadSize(s, Last(s)) >= 2
         /\ Size(s, Last(s)) \in Nat \ {0} /\ Size(s, Last(s)) <= FrameMax
<1>1. Last(s) \in 1..Last(s) /\ Last(s) - 1 \in 0..Last(s)
  BY SizeFacts
<1>2. Size(s, Last(s)) \in Nat \ {0} /\ Size(s, Last(s)) <= FrameMax
  BY <1>1, SizeFacts
<1>3. HeadSize(s, Last(s)) \in Nat /\ HeadSize(s, Last(s)) >= 2
  BY HeadSizes
<1> QED BY <1>1, <1>2, <1>3, FrameFacts

LEMMA PutFacts ==
  ASSUME Shapes, NEW s \in Sides, FramesInv(s), SendInv(s)
  PROVE  /\ Put(s) \in Nat /\ EndOf(s, Last(s)) \in Nat /\ Put(s) <= EndOf(s, Last(s))
         /\ conn[s].sending \in {"requested", "sending"} => sent[s] # <<>>
         /\ conn[s].sending \notin {"requested", "sending"} => Put(s) = EndOf(s, Last(s))
<1>0. EndOf(s, Last(s)) \in Nat
  BY SizeFacts
<1>1. CASE conn[s].sending = "requested"
  <2>1. sent[s] # <<>> /\ Put(s) = EndOf(s, Last(s) - 1)
    BY <1>1 DEF SendInv, Put
  <2> DEFINE a == EndOf(s, Last(s) - 1)
             b == EndOf(s, Last(s))
             h == HeadSize(s, Last(s))
             d == Size(s, Last(s))
  <2>2. a \in Nat /\ b \in Nat /\ b = a + h + d /\ h \in Nat /\ d \in Nat
    BY <2>1, LastFrame
  <2> HIDE DEF a, b, h, d
  <2>3. a \in Nat /\ a <= b
    BY <2>2
  <2> QED BY <1>0, <1>1, <2>1, <2>3 DEF a, b
<1>2. CASE conn[s].sending = "sending"
  <2> DEFINE a == EndOf(s, Last(s) - 1)
             b == EndOf(s, Last(s))
             h == HeadSize(s, Last(s))
             d == Size(s, Last(s))
             k == send[s].header_pos
             p == send[s].frame_pos
  <2>1. sent[s] # <<>> /\ Put(s) = a + k + p /\ k \in 0..h /\ p \in 0..d - 1
    BY <1>2 DEF SendInv, Put
  <2>2. a \in Nat /\ b \in Nat /\ b = a + h + d /\ h \in Nat /\ d \in Nat
    BY <2>1, LastFrame
  <2>3. k \in 0..h /\ p \in 0..d - 1
    BY <2>1
  <2> HIDE DEF a, b, h, d, k, p
  <2>4. a + k + p \in Nat /\ a + k + p <= b
    BY <2>2, <2>3
  <2> QED BY <1>0, <1>2, <2>1, <2>4 DEF b
<1>3. CASE conn[s].sending \notin {"requested", "sending"}
  BY <1>0, <1>3 DEF Put
<1> QED BY <1>1, <1>2, <1>3

LEMMA TakenFacts ==
  ASSUME Shapes, NEW s \in Sides, RecvInv(s)
  PROVE  /\ Len(got[Other(s)]) \in 0..Last(s) /\ Coming(s) - 1 = Len(got[Other(s)])
         /\ Coming(s) \in Nat \ {0}
         /\ Coming(s) <= Last(s) => Coming(s) \in 1..Last(s)
         /\ EndOf(s, Coming(s) - 1) \in Nat
         /\ Taken(s) \in Nat /\ EndOf(s, Coming(s) - 1) <= Taken(s)
<1> DEFINE o == Other(s)
           g == Len(got[o])
           a == EndOf(s, Coming(s) - 1)
           h == HeadSize(s, Coming(s))
<1>1. /\ g \in 0..Last(s) /\ Coming(s) - 1 = g
      /\ Coming(s) \in Nat \ {0}
      /\ Coming(s) <= Last(s) => Coming(s) \in 1..Last(s)
  <2>1. g \in Nat /\ g <= Last(s) /\ Coming(s) = g + 1 /\ Last(s) \in Nat
    BY SizeFacts DEF RecvInv, Coming
  <2> HIDE DEF g
  <2> QED BY <2>1
<1>2. a \in Nat /\ h \in Nat
  BY <1>1, SizeFacts, HeadSizes
<1>3. CASE conn[o].receiving = "consumed"
  <2>1. Taken(s) = a + 0
    BY <1>3 DEF Taken
  <2> HIDE DEF a
  <2> QED BY <1>1, <1>2, <1>3, <2>1 DEF a
<1>4. CASE conn[o].receiving # "consumed" /\ recv[o].in_frame
  <2> DEFINE p == recv[o].frame_pos
  <2>1. Taken(s) = a + (h + p)
    BY <1>4 DEF Taken
  <2>2. p \in Nat
    <3>1. CASE NothingRead(o)
      BY <3>1 DEF NothingRead
    <3>2. CASE ~NothingRead(o)
      <4>1. /\ Coming(s) \in 1..Last(s)
            /\ \/ p \in 0..Size(s, Coming(s)) - 1
               \/ p = Size(s, Coming(s))
        BY <1>1, <1>4, <3>2 DEF RecvInv, HasOf
      <4>2. Size(s, Coming(s)) \in Nat
        BY <4>1, SizeFacts
      <4> HIDE DEF p
      <4> QED BY <4>1, <4>2
    <3> QED BY <3>1, <3>2
  <2> HIDE DEF a, h, p
  <2>3. a + (h + p) \in Nat /\ a <= a + (h + p)
    BY <1>2, <2>2
  <2> QED BY <1>1, <1>2, <2>1, <2>3 DEF a
<1>5. CASE conn[o].receiving # "consumed" /\ ~recv[o].in_frame
  <2> DEFINE l == Len(recv[o].header)
  <2>1. Taken(s) = a + l
    BY <1>5 DEF Taken
  <2>2. l \in Nat
    <3>1. \/ l \in 0..h - 1
          \/ recv[o].header = <<>>
      BY <1>5 DEF RecvInv, HasOf
    <3>2. Len(<<>>) = 0
      OBVIOUS
    <3>3. recv[o].header = <<>> => l = 0
      BY <3>2
    <3> HIDE DEF l, h
    <3> QED BY <1>2, <3>1, <3>3
  <2> HIDE DEF a, l
  <2>3. a + l \in Nat /\ a <= a + l
    BY <1>2, <2>2
  <2> QED BY <1>1, <1>2, <2>1, <2>3 DEF a
<1> QED BY <1>3, <1>4, <1>5

LEMMA WireFacts ==
  ASSUME Shapes, NEW s \in Sides, FramesInv(s), SendInv(s), RecvInv(s), WireInv(s)
  PROVE  /\ Taken(s) \in Nat /\ Put(s) \in Nat /\ Taken(s) <= Put(s)
         /\ Stream(wire[s]) /\ Len(wire[s]) = Put(s) - Taken(s)
         /\ \A i \in 1..Put(s) - Taken(s) : \A n \in 1..Last(s) :
              \A j \in 1..HeadSize(s, n) + Size(s, n) :
                Taken(s) + i = EndOf(s, n - 1) + j => wire[s][i] = FrameByte(s, n, j)
<1>1. Taken(s) \in Nat /\ Put(s) \in Nat /\ Taken(s) <= Put(s)
  BY PutFacts, TakenFacts DEF WireInv
<1> DEFINE l == Put(s) - Taken(s)
<1>2. l \in Nat /\ wire[s] = [i \in 1..l |-> wire[s][i]]
  BY <1>1 DEF WireInv
<1> HIDE DEF l
<1>3. Len(wire[s]) = l
  BY <1>2, Streams
<1>4. Stream(wire[s])
  BY <1>2, <1>3 DEF Stream
<1> QED BY <1>1, <1>3, <1>4 DEF l, WireInv

LEMMA WayStream ==
  ASSUME Shapes, NEW s \in Sides, Way(s)
  PROVE  Stream(wire[s]) /\ Len(wire[s]) \in Nat
<1>1. Stream(wire[s])
  BY WireFacts DEF Way, Past, InOrder
<1> QED BY <1>1 DEF Stream

\* Between messages nothing is on the wire.
LEMMA Between ==
  ASSUME Shapes, NEW s \in Sides, FramesInv(s), SendInv(s), RecvInv(s), WireInv(s),
         ~(Coming(s) <= Last(s))
  PROVE  Len(wire[s]) = 0 /\ Coming(s) - 1 = Last(s)
<1> DEFINE g == Len(got[Other(s)])
<1>1. g \in 0..Last(s) /\ Coming(s) = g + 1 /\ Coming(s) - 1 = g /\ Last(s) \in Nat
  BY TakenFacts, SizeFacts DEF Coming
<1> HIDE DEF g
<1>2. Coming(s) - 1 = Last(s)
  BY <1>1
<1> DEFINE a == EndOf(s, Last(s))
           t == Taken(s)
           p == Put(s)
<1>3. /\ a \in Nat /\ t \in Nat /\ p \in Nat /\ a <= t /\ p <= a /\ t <= p
      /\ Len(wire[s]) = p - t
  BY <1>2, TakenFacts, PutFacts, WireFacts
<1> HIDE DEF a, t, p
<1>4. p - t = 0
  BY <1>3
<1> QED BY <1>2, <1>3, <1>4

\* A step that sends no message is about the same frames.
LEMMA SameFrames ==
  ASSUME NEW s, sent'[s] = sent[s]
  PROVE  /\ Last(s)' = Last(s) /\ FramesInv(s)' = FramesInv(s)
         /\ \A n : /\ EndOf(s, n)' = EndOf(s, n) /\ Size(s, n)' = Size(s, n)
                   /\ HeadSize(s, n)' = HeadSize(s, n) /\ HeadOf(s, n)' = HeadOf(s, n)
                   /\ BodyOf(s, n)' = BodyOf(s, n) /\ MaskOf(s, n)' = MaskOf(s, n)
                   /\ \A j : FrameByte(s, n, j)' = FrameByte(s, n, j)
<1>1. Last(s)' = Last(s)
  BY DEF Last
<1>2. ASSUME NEW n
      PROVE  /\ EndOf(s, n)' = EndOf(s, n) /\ Size(s, n)' = Size(s, n)
             /\ HeadSize(s, n)' = HeadSize(s, n) /\ HeadOf(s, n)' = HeadOf(s, n)
             /\ BodyOf(s, n)' = BodyOf(s, n) /\ MaskOf(s, n)' = MaskOf(s, n)
             /\ \A j : FrameByte(s, n, j)' = FrameByte(s, n, j)
  <2>1. EndOf(s, n)' = EndOf(s, n) /\ Size(s, n)' = Size(s, n) /\ MaskOf(s, n)' = MaskOf(s, n)
    BY DEF EndOf, Size, MaskOf
  <2>2. HeadSize(s, n)' = HeadSize(s, n) /\ HeadOf(s, n)' = HeadOf(s, n)
        /\ BodyOf(s, n)' = BodyOf(s, n)
    BY <2>1 DEF HeadSize, HeadOf, BodyOf
  <2>3. \A j : FrameByte(s, n, j)' = FrameByte(s, n, j)
    BY <2>2 DEF FrameByte
  <2> QED BY <2>1, <2>2, <2>3
<1>3. FramesInv(s)' = FramesInv(s)
  BY <1>1, <1>2 DEF FramesInv
<1> QED BY <1>1, <1>2, <1>3

LEMMA WayKept ==
  ASSUME NEW s \in Sides, Way(s),
         wire'[s] = wire[s], send'[s] = send[s], conn'[s].sending = conn[s].sending,
         recv'[Other(s)] = recv[Other(s)],
         conn'[Other(s)].receiving = conn[Other(s)].receiving,
         conn'[Other(s)].state = conn[Other(s)].state,
         sent'[s] = sent[s], got'[Other(s)] = got[Other(s)]
  PROVE  Way(s)'
<1>1. /\ Last(s)' = Last(s) /\ FramesInv(s)' = FramesInv(s)
      /\ \A n : /\ EndOf(s, n)' = EndOf(s, n) /\ Size(s, n)' = Size(s, n)
                /\ HeadSize(s, n)' = HeadSize(s, n) /\ HeadOf(s, n)' = HeadOf(s, n)
                /\ BodyOf(s, n)' = BodyOf(s, n) /\ MaskOf(s, n)' = MaskOf(s, n)
                /\ \A j : FrameByte(s, n, j)' = FrameByte(s, n, j)
  BY SameFrames
<1>2. Coming(s)' = Coming(s)
  BY DEF Coming
<1>3. Put(s)' = Put(s)
  BY <1>1 DEF Put
<1>4. Taken(s)' = Taken(s)
  BY <1>1, <1>2 DEF Taken
<1>5. SendInv(s)'
  BY <1>1 DEF Way, SendInv, Empty, NoFrame
<1>6. ASSUME Past(s)
      PROVE  Past(s)'
  BY <1>1, <1>6 DEF Past
<1>7. ASSUME InOrder(s)
      PROVE  InOrder(s)'
  <2>1. WireInv(s)'
    BY <1>1, <1>3, <1>4, <1>7 DEF InOrder, WireInv
  <2>2. RecvInv(s)'
    <3>1. \A n, k : HasOf(s, n, k)' = HasOf(s, n, k)
      BY <1>1 DEF HasOf
    <3>2. NothingRead(Other(s))' = NothingRead(Other(s))
      BY DEF NothingRead
    <3> QED BY <1>1, <1>2, <1>7, <3>1, <3>2 DEF InOrder, RecvInv
  <2>3. AloneInv(s)'
    BY <1>1, <1>2, <1>7 DEF InOrder, AloneInv
  <2> QED BY <1>7, <2>1, <2>2, <2>3 DEF InOrder
<1> QED BY <1>1, <1>5, <1>6, <1>7 DEF Way

LEMMA WaysTalk ==
  ASSUME NEW s \in Sides, Way(s)', Way(Other(s))'
  PROVE  TalkInv'
BY Others DEF TalkInv, Way

LEMMA TalkWays ==
  ASSUME TalkInv
  PROVE  \A s \in Sides : Way(s)
BY DEF TalkInv, Way

\* A step of the sender that sends no message leaves alone what the receiver has.
LEMMA SameReceiver ==
  ASSUME NEW s \in Sides, recv'[Other(s)] = recv[Other(s)],
         conn'[Other(s)].receiving = conn[Other(s)].receiving,
         sent'[s] = sent[s], got'[Other(s)] = got[Other(s)]
  PROVE  /\ RecvInv(s) => RecvInv(s)'
         /\ AloneInv(s) => AloneInv(s)'
         /\ Taken(s)' = Taken(s) /\ Coming(s)' = Coming(s)
<1>1. /\ Last(s)' = Last(s)
      /\ \A n : /\ EndOf(s, n)' = EndOf(s, n) /\ Size(s, n)' = Size(s, n)
                /\ HeadSize(s, n)' = HeadSize(s, n) /\ HeadOf(s, n)' = HeadOf(s, n)
                /\ MaskOf(s, n)' = MaskOf(s, n)
  BY SameFrames
<1>2. Coming(s)' = Coming(s)
  BY DEF Coming
<1>3. Taken(s)' = Taken(s)
  BY <1>1, <1>2 DEF Taken
<1>4. ASSUME RecvInv(s)
      PROVE  RecvInv(s)'
  <2>1. \A n, k : HasOf(s, n, k)' = HasOf(s, n, k)
    BY <1>1 DEF HasOf
  <2>2. NothingRead(Other(s))' = NothingRead(Other(s))
    BY DEF NothingRead
  <2> QED BY <1>1, <1>2, <1>4, <2>1, <2>2, SMTT(40) DEF RecvInv
<1>5. ASSUME AloneInv(s)
      PROVE  AloneInv(s)'
  BY <1>1, <1>2, <1>5 DEF AloneInv
<1> QED BY <1>2, <1>3, <1>4, <1>5

LEMMA PastKept ==
  ASSUME NEW s \in Sides, Past(s), Stream(wire[s])', recv'[Other(s)] = recv[Other(s)],
         conn'[Other(s)] = conn[Other(s)],
         \A n \in 1..Last(s) : n \in 1..Last(s)' /\ sent'[s][n].alone = sent[s][n].alone
  PROVE  Past(s)'
<1>1. \E n \in 1..Last(s)' : ~sent'[s][n].alone
  BY DEF Past
<1> QED BY <1>1 DEF Past

LEMMA ReleaseStep ==
  ASSUME Shapes, TalkInv, NEW s \in Sides, Release(s)
  PROVE  TalkInv'
<1> DEFINE o == Other(s)
<1>0. o \in Sides /\ Other(o) = s /\ s # o /\ Way(s) /\ Way(o)
  BY Others, TalkWays
<1>1. /\ conn[s].sending = "sent"
      /\ send' = [send EXCEPT ![s].buffer = <<>>, ![s].pos = 0]
      /\ conn' = [conn EXCEPT ![s].sending = "free"]
      /\ UNCHANGED <<recv, wire, sent, got>>
  BY DEF Release
<1>2. /\ send'[s].buffer = <<>> /\ send'[s].pos = 0
      /\ send'[s].frame_len = send[s].frame_len /\ send'[s].header_pos = send[s].header_pos
      /\ send'[o] = send[o]
  BY <1>0, <1>1, ZenonT(120) DEF Shapes, SendShape, SendFields
<1>3. /\ conn'[s].sending = "free" /\ conn'[o] = conn[o]
      /\ conn'[s].receiving = conn[s].receiving /\ conn'[s].state = conn[s].state
  BY <1>0, <1>1 DEF Shapes, ConnShape
<1>4. /\ Last(s)' = Last(s) /\ FramesInv(s)' = FramesInv(s)
      /\ \A n : /\ EndOf(s, n)' = EndOf(s, n) /\ Size(s, n)' = Size(s, n)
                /\ HeadSize(s, n)' = HeadSize(s, n)
                /\ \A j : FrameByte(s, n, j)' = FrameByte(s, n, j)
  BY <1>1, SameFrames
<1>5. SendInv(s)'
  BY <1>0, <1>1, <1>2, <1>3 DEF Way, SendInv, Empty, NoFrame
<1>6. ASSUME Past(s)
      PROVE  Past(s)'
  <2>1. Stream(wire[s])' /\ recv'[o] = recv[o]
    BY <1>1, <1>6 DEF Past
  <2> QED BY <1>1, <1>3, <1>4, <1>6, <2>1, PastKept
<1>7. ASSUME InOrder(s)
      PROVE  InOrder(s)'
  <2>1. Put(s)' = Put(s)
    BY <1>1, <1>3, <1>4 DEF Put
  <2>2. RecvInv(s)' /\ AloneInv(s)' /\ Taken(s)' = Taken(s)
    BY <1>1, <1>3, <1>7, SameReceiver DEF InOrder
  <2>3. WireInv(s)'
    BY <1>1, <1>4, <1>7, <2>1, <2>2 DEF InOrder, WireInv
  <2> QED BY <1>3, <1>7, <2>2, <2>3 DEF InOrder
<1>8. Way(s)'
  BY <1>0, <1>4, <1>5, <1>6, <1>7 DEF Way
<1>9. Way(o)'
  BY <1>0, <1>1, <1>2, <1>3, WayKept
<1> QED BY <1>8, <1>9, WaysTalk

\* A receiver that has read past the end of a frame moves on, and has still done so.
LEMMA TakeStep ==
  ASSUME Shapes, TalkInv, NEW s \in Sides, Take(Other(s))
  PROVE  TalkInv'
<1> DEFINE o == Other(s)
<1>0. o \in Sides /\ Other(o) = s /\ s # o /\ Way(s) /\ Way(o)
  BY Others, TalkWays
<1>1. /\ conn[o].receiving = "received" /\ conn[o].state = "open"
      /\ got' = [got EXCEPT ![o] = Append(@, recv[o].buffer[1].data)]
      /\ conn' = [conn EXCEPT ![o].receiving = "consumed"]
      /\ UNCHANGED <<send, recv, wire, sent>>
  BY DEF Take
<1>2. /\ conn'[o].receiving = "consumed" /\ conn'[o].sending = conn[o].sending
      /\ conn'[o].state = conn[o].state /\ conn'[s] = conn[s] /\ got'[s] = got[s]
      /\ got'[o] = Append(got[o], recv[o].buffer[1].data)
  BY <1>0, <1>1 DEF Shapes, ConnShape
<1> HIDE DEF o
<1>3. /\ Last(s)' = Last(s) /\ FramesInv(s)' = FramesInv(s)
      /\ \A n : /\ EndOf(s, n)' = EndOf(s, n) /\ Size(s, n)' = Size(s, n)
                /\ HeadSize(s, n)' = HeadSize(s, n) /\ MaskOf(s, n)' = MaskOf(s, n)
                /\ HeadOf(s, n)' = HeadOf(s, n)
                /\ BodyOf(s, n)' = BodyOf(s, n)
                /\ \A j : FrameByte(s, n, j)' = FrameByte(s, n, j)
  BY <1>1, SameFrames
<1>4. SendInv(s)' /\ Put(s)' = Put(s)
  <2>1. send'[s] = send[s] /\ conn'[s] = conn[s]
    BY <1>1, <1>2
  <2>2. Put(s)' = Put(s)
    BY <1>3, <2>1 DEF Put
  <2>3. SendInv(s)'
    BY <1>0, <1>1, <1>3, <2>1 DEF Way, SendInv, Empty, NoFrame
  <2> QED BY <2>2, <2>3
<1>5. ASSUME Past(s)
      PROVE  Past(s)'
  <2>1. recv'[o] = recv[o] /\ wire'[s] = wire[s] /\ sent' = sent /\ Other(s) = o
    BY <1>1 DEF o
  <2> QED BY <1>1, <1>2, <1>3, <1>5, <2>1 DEF Past
<1>6. ASSUME InOrder(s)
      PROVE  InOrder(s)'
  <2>0. PICK c : c = Coming(s)
    OBVIOUS
  <2>1. RecvInv(s) /\ WireInv(s) /\ AloneInv(s) /\ Other(s) = o
    BY <1>6 DEF InOrder, o
  <2>2. c \in 1..Last(s) /\ HasOf(s, c, Size(s, c)) /\ c = Len(got[o]) + 1 /\ got[o] \in Seq(Nat)
    BY <1>1, <2>0, <2>1, TakenFacts DEF RecvInv, Coming
  <2>3. c \in Nat \ {0} /\ Size(s, c) \in Nat \ {0} /\ c <= Last(s) /\ Last(s) \in Nat
    BY <2>2, SizeFacts
  <2>4. recv[o].buffer[1].data = c
    <3>1. recv[o].buffer = Message(c, Size(s, c)) /\ 1 \in 1..Size(s, c)
      BY <2>1, <2>2, <2>3 DEF HasOf
    <3>2. recv[o].buffer[1] = [data |-> c, at |-> 1, mask |-> <<>>]
      BY <2>3, <3>1, MessageFacts
    <3> QED BY <3>2
  <2>5. got'[o] \in Seq(Nat) /\ Len(got'[o]) = c /\ got'[o] # <<>>
    <3>1. got'[o] = Append(got[o], c) /\ c \in Nat
      BY <1>2, <2>3, <2>4
    <3>2. got'[o] \in Seq(Nat) /\ Len(got'[o]) = Len(got[o]) + 1
      BY <2>2, <3>1, AppendProperties
    <3>3. Len(<<>>) = 0
      OBVIOUS
    <3> QED BY <2>2, <2>3, <3>2, <3>3
  <2>6. Coming(s)' = c + 1 /\ Coming(s) = c
    BY <2>0, <2>1, <2>5 DEF Coming
  <2>7. Taken(s)' = Taken(s)
    <3>1. /\ EndOf(s, c) = EndOf(s, c - 1) + HeadSize(s, c) + Size(s, c)
          /\ EndOf(s, c) \in Nat /\ EndOf(s, c - 1) \in Nat /\ HeadSize(s, c) \in Nat
      BY <1>0, <2>2, FrameFacts, HeadSizes DEF Way
    <3>2. Taken(s)' = EndOf(s, c + 1 - 1) + 0
      <4>1. Taken(s)' = EndOf(s, Coming(s) - 1)' + 0
        BY <1>2, <2>1 DEF Taken
      <4>2. EndOf(s, Coming(s) - 1)' = EndOf(s, c + 1 - 1)
        <5>1. sent' = sent /\ Coming(s)' = c + 1
          BY <1>1, <2>6
        <5> QED BY <2>3, <5>1 DEF EndOf
      <4> QED BY <4>1, <4>2
    <3>3. Taken(s) = EndOf(s, c - 1) + (HeadSize(s, c) + Size(s, c))
      BY <1>1, <2>1, <2>2, <2>6 DEF Taken, HasOf
    <3>4. c + 1 - 1 = c
      BY <2>3
    <3>5. Taken(s)' = EndOf(s, c) + 0
      BY <3>2, <3>4
    <3> DEFINE a == EndOf(s, c - 1)
               b == EndOf(s, c)
               h == HeadSize(s, c)
               d == Size(s, c)
    <3>6. a \in Nat /\ b \in Nat /\ h \in Nat /\ d \in Nat /\ b = a + h + d
      BY <2>3, <3>1
    <3>7. Taken(s)' = b + 0 /\ Taken(s) = a + (h + d)
      BY <3>3, <3>5
    <3> HIDE DEF a, b, h, d
    <3> QED BY <3>6, <3>7
  <2>8. WireInv(s)'
    BY <1>1, <1>3, <1>4, <2>1, <2>7 DEF WireInv
  <2>9. RecvInv(s)'
    <3>1. HasOf(s, c, Size(s, c))'
      BY <1>1, <1>3, <2>1, <2>2 DEF HasOf
    <3>2. HasOf(s, Len(got[o]), Size(s, Len(got[o])))'
      <4>1. Len(got[o])' = c
        BY <2>5
      <4> QED BY <1>3, <3>1, <4>1 DEF HasOf
    <3>3. o = "client" => recv'[o].mask = <<>>
      BY <1>1, <2>1 DEF RecvInv
    <3>4. Len(got'[o]) <= Last(s)'
      BY <1>3, <2>3, <2>5
    <3> QED BY <1>2, <2>1, <2>5, <3>2, <3>3, <3>4 DEF RecvInv
  <2>10. AloneInv(s)'
    <3>1. ASSUME Last(s) <= c
          PROVE  Last(s) <= c + 1
      BY <2>3, <3>1
    <3> QED BY <1>1, <1>3, <2>1, <2>6, <3>1 DEF AloneInv
  <2> QED BY <1>1, <1>2, <2>1, <2>8, <2>9, <2>10 DEF InOrder
<1>7. Way(s)'
  BY <1>0, <1>3, <1>4, <1>5, <1>6 DEF Way
<1>8. Way(o)'
  <2>1. send'[o] = send[o] /\ recv'[s] = recv[s] /\ wire'[o] = wire[o] /\ sent'[o] = sent[o]
    BY <1>1
  <2> QED BY <1>0, <1>2, <2>1, WayKept
<1> QED BY <1>7, <1>8, WaysTalk DEF o

\* A message that is sent has the next frame of the stream.
Adds(s, N, len, alone) ==
  /\ N = Last(s)
  /\ sent'[s] = Append(sent[s], [len |-> len, end |-> EndOf(s, N) + FrameSize(s, len),
                                 alone |-> alone])

LEMMA NextMessage ==
  ASSUME Shapes, NEW s \in Sides, FramesInv(s), NEW N, NEW len \in Sizes, NEW alone,
         Adds(s, N, len, alone)
  PROVE  /\ N \in Nat /\ Last(s)' = N + 1 /\ sent'[s] # <<>>
         /\ \A n \in 1..N : sent'[s][n] = sent[s][n]
         /\ sent'[s][N + 1].alone = alone /\ Size(s, N + 1)' = len
         /\ \A n \in 0..N : EndOf(s, n)' = EndOf(s, n)
         /\ \A n \in 1..N :
              /\ Size(s, n)' = Size(s, n) /\ HeadSize(s, n)' = HeadSize(s, n)
              /\ HeadOf(s, n)' = HeadOf(s, n) /\ MaskOf(s, n)' = MaskOf(s, n)
              /\ \A j : FrameByte(s, n, j)' = FrameByte(s, n, j)
         /\ FramesInv(s)'
<1> DEFINE e == EndOf(s, N) + FrameSize(s, len)
           new == [len |-> len, end |-> e, alone |-> alone]
<1>1. sent[s] \in Seq(Sendings) /\ N \in Nat /\ N = Len(sent[s])
  BY SizeFacts DEF Shapes, Last, Adds
<1>2. sent'[s] = Append(sent[s], new) /\ new.len = len /\ new.end = e /\ new.alone = alone
  BY DEF Adds
<1>11. e = EndOf(s, N) + FrameSize(s, len)
  OBVIOUS
<1>12. N = Last(s)
  BY DEF Adds
<1> HIDE DEF new, e
<1>3. /\ Len(sent'[s]) = N + 1 /\ sent'[s][N + 1] = new
      /\ \A n \in 1..N : sent'[s][n] = sent[s][n]
  <2>1. sent[s] \in Seq(Sendings \cup {new}) /\ new \in Sendings \cup {new}
    BY <1>1, SeqMonotonic
  <2> QED BY <1>1, <1>2, <2>1, AppendProperties
<1>4. Last(s)' = N + 1 /\ sent'[s] # <<>>
  <2>1. Len(<<>>) = 0 /\ N + 1 # 0
    BY <1>1
  <2> QED BY <1>3, <2>1 DEF Last
<1>5. \A n \in 0..N : EndOf(s, n)' = EndOf(s, n)
  BY <1>1, <1>3 DEF EndOf
<1>6. \A n \in 1..N : Size(s, n)' = Size(s, n) /\ HeadSize(s, n)' = HeadSize(s, n)
  BY <1>3 DEF Size, HeadSize
<1>7. ASSUME NEW n \in 1..N
      PROVE  /\ HeadOf(s, n)' = HeadOf(s, n) /\ MaskOf(s, n)' = MaskOf(s, n)
             /\ \A j : FrameByte(s, n, j)' = FrameByte(s, n, j)
  <2>1. MaskOf(s, n)' = MaskOf(s, n)
    BY DEF MaskOf
  <2>2. HeadOf(s, n)' = HeadOf(s, n) /\ BodyOf(s, n)' = BodyOf(s, n)
    BY <1>6, <2>1 DEF HeadOf, BodyOf
  <2> QED BY <1>6, <2>1, <2>2 DEF FrameByte
<1>8. Size(s, N + 1)' = len /\ EndOf(s, N + 1)' = e
  <2>1. N + 1 # 0
    BY <1>1
  <2> QED BY <1>2, <1>3, <2>1 DEF Size, EndOf
<1>9. EndOf(s, N + 1)' = EndOf(s, N) + HeadSize(s, N + 1)' + Size(s, N + 1)'
  <2>1. HeadSize(s, N + 1)' = HeaderLen(len > ShortMax, s = "client")
    BY <1>8 DEF HeadSize
  <2>2. EndOf(s, N) \in Nat
    BY <1>1, SizeFacts
  <2>3. HeadSize(s, N + 1)' \in Nat
    BY HeadSizes
  <2>4. len \in Nat
    BY WebSocketAssumption
  <2> DEFINE a == EndOf(s, N)
             h == HeaderLen(len > ShortMax, s = "client")
  <2>5. a \in Nat /\ h \in Nat /\ e = a + (h + len)
    BY <1>11, <2>1, <2>2, <2>3 DEF FrameSize
  <2> HIDE DEF a, h
  <2>6. e = a + h + len
    BY <2>4, <2>5
  <2> QED BY <1>8, <2>1, <2>6 DEF a, h
<1>10. FramesInv(s)'
  <2>1. ASSUME NEW n \in 1..N + 1
        PROVE  EndOf(s, n)' = EndOf(s, n - 1)' + HeadSize(s, n)' + Size(s, n)'
    <3>1. CASE n \in 1..N
      <4>1. n - 1 \in 0..N /\ n \in 0..N
        BY <1>1, <3>1
      <4> QED BY <1>12, <1>5, <1>6, <3>1, <4>1 DEF FramesInv
    <3>2. CASE n = N + 1
      <4>1. n - 1 = N /\ N \in 0..N
        BY <1>1, <3>2
      <4>2. EndOf(s, n - 1)' = EndOf(s, N)
        BY <1>5, <4>1
      <4> QED BY <1>9, <3>2, <4>2
    <3> QED BY <1>1, <3>1, <3>2
  <2>2. EndOf(s, N) \in Nat /\ EndOf(s, N) < EndOf(s, N + 1)'
    <3> DEFINE a == EndOf(s, N)
               h == HeadSize(s, N + 1)'
               d == Size(s, N + 1)'
    <3>1. a \in Nat
      BY <1>1, SizeFacts
    <3>2. h \in Nat /\ h >= 2
      BY HeadSizes
    <3>3. d \in Nat
      BY <1>8, WebSocketAssumption
    <3>4. EndOf(s, N + 1)' = a + h + d
      BY <1>9
    <3> HIDE DEF a, h, d
    <3>5. a \in Nat /\ a < a + h + d
      BY <3>1, <3>2, <3>3
    <3> QED BY <3>4, <3>5 DEF a
  <2>3. ASSUME NEW m \in 0..N + 1, NEW n \in 0..N + 1, m < n
        PROVE  EndOf(s, m)' < EndOf(s, n)'
    <3>1. CASE n \in 0..N
      <4>1. m \in 0..N
        BY <1>1, <2>3, <3>1
      <4> QED BY <1>12, <1>5, <2>3, <3>1, <4>1 DEF FramesInv
    <3>2. CASE n = N + 1
      <4>1. m \in 0..N /\ (m = N \/ m < N) /\ N \in 0..N
        BY <1>1, <2>3, <3>2
      <4>2. EndOf(s, m)' = EndOf(s, m) /\ EndOf(s, m) \in Nat
        BY <1>12, <1>5, <4>1, SizeFacts
      <4>3. m < N => EndOf(s, m) < EndOf(s, N)
        BY <1>12, <4>1 DEF FramesInv
      <4> DEFINE a == EndOf(s, m)
                 b == EndOf(s, N)
                 c == EndOf(s, N + 1)'
      <4>4. a \in Nat /\ b \in Nat /\ (a = b \/ a < b) /\ b < c /\ c \in Nat
        <5>1. c \in Nat
          BY <1>8, <1>11, <2>2, WebSocketAssumption DEF FrameSize, HeaderLen
        <5> QED BY <2>2, <4>1, <4>2, <4>3, <5>1
      <4> HIDE DEF a, b, c
      <4>5. a < c
        BY <4>4
      <4> QED BY <3>2, <4>2, <4>5 DEF a, c
    <3> QED BY <1>1, <3>1, <3>2
  <2> QED BY <1>4, <2>1, <2>3 DEF FramesInv
<1> QED BY <1>1, <1>2, <1>3, <1>4, <1>5, <1>6, <1>7, <1>8, <1>10

LEMMA MessageStep ==
  ASSUME Shapes, TalkInv, NEW s \in Sides, SendMessage(s)
  PROVE  TalkInv'
<1> DEFINE o == Other(s)
<1>0. o \in Sides /\ Other(o) = s /\ s # o /\ Way(s) /\ Way(o)
  BY Others, TalkWays
<1>N. PICK N : N = Last(s)
  OBVIOUS
<1>1. PICK len \in Sizes :
        /\ sent' = [sent EXCEPT ![s] = Append(@,
                      [len |-> len, end |-> EndOf(s, N) + FrameSize(s, len),
                       alone |-> N = Len(got[o])])]
        /\ send' = [send EXCEPT ![s].buffer = Message(N + 1, len)]
  BY <1>N DEF SendMessage, Last
<1>2. /\ conn' = [conn EXCEPT ![s].sending = "requested"] /\ conn[s].sending = "free"
      /\ UNCHANGED <<recv, wire, got>>
  BY DEF SendMessage
<1>3. /\ send'[s].buffer = Message(N + 1, len) /\ send'[o] = send[o]
      /\ send'[s].pos = send[s].pos /\ send'[s].frame_len = send[s].frame_len
      /\ send'[s].header_pos = send[s].header_pos
  BY <1>0, <1>1 DEF Shapes, SendShape, SendFields
<1>4. /\ conn'[s].sending = "requested" /\ conn'[s].receiving = conn[s].receiving
      /\ conn'[s].state = conn[s].state /\ conn'[o] = conn[o]
  BY <1>0, <1>2 DEF Shapes, ConnShape
<1>5. /\ sent'[o] = sent[o]
      /\ sent'[s] = Append(sent[s], [len |-> len, end |-> EndOf(s, N) + FrameSize(s, len),
                                     alone |-> N = Len(got[o])])
  BY <1>0, <1>1 DEF Shapes
<1>6. /\ N \in Nat /\ Last(s)' = N + 1 /\ sent'[s] # <<>>
      /\ \A n \in 1..N : sent'[s][n] = sent[s][n]
      /\ sent'[s][N + 1].alone = (N = Len(got[o])) /\ Size(s, N + 1)' = len
      /\ \A n \in 0..N : EndOf(s, n)' = EndOf(s, n)
      /\ \A n \in 1..N :
           /\ Size(s, n)' = Size(s, n) /\ HeadSize(s, n)' = HeadSize(s, n)
           /\ HeadOf(s, n)' = HeadOf(s, n) /\ MaskOf(s, n)' = MaskOf(s, n)
           /\ \A j : FrameByte(s, n, j)' = FrameByte(s, n, j)
      /\ FramesInv(s)'
  <2>0. PICK alone : alone = (N = Len(got[o]))
    OBVIOUS
  <2>1. Adds(s, N, len, alone)
    BY <1>5, <1>N, <2>0 DEF Adds
  <2>2. FramesInv(s)
    BY <1>0 DEF Way
  <2>3. /\ N \in Nat /\ Last(s)' = N + 1 /\ sent'[s] # <<>>
        /\ \A n \in 1..N : sent'[s][n] = sent[s][n]
        /\ sent'[s][N + 1].alone = alone /\ Size(s, N + 1)' = len
        /\ \A n \in 0..N : EndOf(s, n)' = EndOf(s, n)
        /\ \A n \in 1..N :
             /\ Size(s, n)' = Size(s, n) /\ HeadSize(s, n)' = HeadSize(s, n)
             /\ HeadOf(s, n)' = HeadOf(s, n) /\ MaskOf(s, n)' = MaskOf(s, n)
             /\ \A j : FrameByte(s, n, j)' = FrameByte(s, n, j)
        /\ FramesInv(s)'
    BY <2>1, <2>2, NextMessage, ZenonT(60)
  <2> QED BY <2>0, <2>3
<1> HIDE DEF o
<1>7. SendInv(s)'
  <2>1. Empty(s)
    BY <1>0, <1>2 DEF Way, SendInv
  <2> QED BY <1>3, <1>4, <1>6, <2>1 DEF SendInv, NoFrame, Empty
<1>8. ASSUME Past(s)
      PROVE  Past(s)'
  <2>1. \A n \in 1..Last(s) : n \in 1..Last(s)' /\ sent'[s][n].alone = sent[s][n].alone
    BY <1>N, <1>6
  <2>2. Stream(wire[s])' /\ recv'[Other(s)] = recv[Other(s)]
    BY <1>2, <1>8 DEF Past
  <2>3. conn'[Other(s)] = conn[Other(s)]
    BY <1>4 DEF o
  <2> QED BY <1>8, <2>1, <2>2, <2>3, PastKept
<1>9. ASSUME InOrder(s)
      PROVE  InOrder(s)'
  <2>1. /\ Other(s) = o /\ recv'[o] = recv[o] /\ conn'[o] = conn[o] /\ got'[o] = got[o]
        /\ wire'[s] = wire[s]
    BY <1>2, <1>4 DEF o
  <2>2. FramesInv(s) /\ SendInv(s) /\ RecvInv(s) /\ WireInv(s) /\ AloneInv(s)
    BY <1>0, <1>9 DEF Way, InOrder
  <2>3. PICK c : c = Coming(s)
    OBVIOUS
  <2>4. Coming(s)' = c /\ c = Len(got[o]) + 1
    BY <2>1, <2>3 DEF Coming
  <2>5. Len(got[o]) \in 0..N /\ c - 1 = Len(got[o]) /\ c \in Nat /\ (c <= N => c \in 1..N)
    <3>1. /\ Len(got[Other(s)]) \in 0..Last(s) /\ Coming(s) - 1 = Len(got[Other(s)])
          /\ Coming(s) \in Nat \ {0}
          /\ Coming(s) <= Last(s) => Coming(s) \in 1..Last(s)
      BY <2>2, TakenFacts
    <3> QED BY <1>N, <2>1, <2>3, <3>1
  <2>6. \A n \in 1..N : \A k : HasOf(s, n, k)' = HasOf(s, n, k)
    BY <1>6, <2>1 DEF HasOf
  <2>7. Put(s) = EndOf(s, N) /\ Put(s)' = EndOf(s, N)
    <3>1. Put(s) = EndOf(s, N)
      BY <1>N, <1>2 DEF Put
    <3>2. Put(s)' = EndOf(s, N + 1 - 1)'
      BY <1>4, <1>6 DEF Put
    <3>3. N + 1 - 1 = N /\ N \in 0..N
      BY <1>6
    <3> QED BY <1>6, <3>1, <3>2, <3>3
  <2>8. Taken(s)' = Taken(s)
    <3>1. c - 1 \in 0..N
      BY <2>5
    <3>2. EndOf(s, c - 1)' = EndOf(s, c - 1)
      BY <1>6, <3>1
    <3>3. CASE conn[o].receiving = "consumed"
      <4>1. Taken(s)' = EndOf(s, Coming(s) - 1)' + 0 /\ Taken(s) = EndOf(s, Coming(s) - 1) + 0
        BY <2>1, <3>3 DEF Taken
      <4>2. EndOf(s, Coming(s) - 1)' = EndOf(s, c - 1)'
        BY <2>4 DEF EndOf
      <4> QED BY <2>3, <3>2, <4>1, <4>2
    <3>4. CASE conn[o].receiving # "consumed" /\ recv[o].in_frame
      <4>1. c \in 1..N
        BY <1>N, <2>1, <2>2, <2>3, <2>5, <3>4 DEF RecvInv, NothingRead
      <4>2. /\ Taken(s)' = EndOf(s, Coming(s) - 1)' + (HeadSize(s, Coming(s))' + recv[o].frame_pos)
            /\ Taken(s) = EndOf(s, Coming(s) - 1) + (HeadSize(s, Coming(s)) + recv[o].frame_pos)
        BY <2>1, <3>4 DEF Taken
      <4>3. EndOf(s, Coming(s) - 1)' = EndOf(s, c - 1)'
        BY <2>4 DEF EndOf
      <4>4. HeadSize(s, Coming(s))' = HeadSize(s, c)'
        BY <2>4 DEF HeadSize, Size
      <4> QED BY <1>6, <2>3, <3>2, <4>1, <4>2, <4>3, <4>4
    <3>5. CASE conn[o].receiving # "consumed" /\ ~recv[o].in_frame
      <4>1. /\ Taken(s)' = EndOf(s, Coming(s) - 1)' + Len(recv[o].header)
            /\ Taken(s) = EndOf(s, Coming(s) - 1) + Len(recv[o].header)
        BY <2>1, <3>5 DEF Taken
      <4>2. EndOf(s, Coming(s) - 1)' = EndOf(s, c - 1)'
        BY <2>4 DEF EndOf
      <4> QED BY <2>3, <3>2, <4>1, <4>2
    <3> QED BY <3>3, <3>4, <3>5
  <2>9. WireInv(s)'
    <3> DEFINE t == Taken(s)
               p == Put(s)
    <3>1. t \in Nat /\ p \in Nat /\ t <= p /\ Taken(s)' = t /\ Put(s)' = p /\ p = EndOf(s, N)
      BY <2>2, <2>7, <2>8, WireFacts
    <3>2. ASSUME NEW i \in 1..p - t, NEW n \in 1..N + 1,
                 NEW j \in 1..HeadSize(s, n)' + Size(s, n)',
                 t + i = EndOf(s, n - 1)' + j
          PROVE  wire[s][i] = FrameByte(s, n, j)'
      <4>1. CASE n \in 1..N
        <5>1. n - 1 \in 0..N
          BY <1>6, <4>1
        <5>2. j \in 1..HeadSize(s, n) + Size(s, n) /\ t + i = EndOf(s, n - 1) + j
          BY <1>6, <3>2, <4>1, <5>1
        <5> QED BY <1>N, <1>6, <2>2, <3>2, <4>1, <5>2 DEF WireInv
      <4>2. CASE n = N + 1
        <5>1. n - 1 = N /\ N \in 0..N
          BY <1>6, <4>2
        <5>2. t + i = p + j
          BY <1>6, <3>1, <3>2, <5>1
        <5>3. j \in Nat \ {0}
          <6>1. HeadSize(s, n)' \in Nat /\ Size(s, n)' \in Nat
            BY <1>6, <4>2, HeadSizes, WebSocketAssumption
          <6> QED BY <6>1
        <5> HIDE DEF t, p
        <5> QED BY <3>1, <3>2, <5>2, <5>3
      <4> QED BY <1>6, <4>1, <4>2
    <3> HIDE DEF t, p
    <3>3. wire'[s] = [i \in 1..p - t |-> wire'[s][i]]
      BY <2>1, <2>2 DEF WireInv, t, p
    <3> QED BY <1>6, <2>1, <3>1, <3>2, <3>3 DEF WireInv
  <2>10. RecvInv(s)'
    <3>1. got'[o] \in Seq(Nat) /\ Len(got'[o]) <= Last(s)'
      BY <1>6, <2>1, <2>2, <2>5 DEF RecvInv
    <3>2. o = "client" => recv'[o].mask = <<>>
      BY <2>1, <2>2 DEF RecvInv
    <3>3. CASE /\ conn[o].receiving = "requested" /\ NothingRead(o) /\ recv[o].buffer = <<>>
               /\ IF c <= N
                  THEN /\ recv[o].header = [i \in 1..Len(recv[o].header) |-> HeadOf(s, c)[i]]
                       /\ Len(recv[o].header) \in 0..HeadSize(s, c) - 1
                  ELSE recv[o].header = <<>>
      <4>1. NothingRead(o)' /\ c <= N + 1
        BY <1>6, <2>1, <2>5, <3>3 DEF NothingRead
      <4>2. /\ recv'[o].header = [i \in 1..Len(recv'[o].header) |-> HeadOf(s, c)'[i]]
            /\ Len(recv'[o].header) \in 0..HeadSize(s, c)' - 1
        <5>1. CASE c <= N
          BY <1>6, <2>1, <2>5, <3>3, <5>1
        <5>2. CASE ~(c <= N)
          <6>1. recv[o].header = <<>>
            BY <3>3, <5>2
          <6>2. <<>> = [i \in 1..Len(<<>>) |-> HeadOf(s, c)'[i]] /\ Len(<<>>) = 0
            OBVIOUS
          <6>3. 0 \in 0..HeadSize(s, c)' - 1
            BY HeadSizes
          <6> QED BY <2>1, <6>1, <6>2, <6>3
        <5> QED BY <5>1, <5>2
      <4>3. /\ HeadOf(s, Coming(s))' = HeadOf(s, c)' /\ HeadSize(s, Coming(s))' = HeadSize(s, c)'
        BY <2>4 DEF HeadOf, HeadSize, Size, MaskOf
      <4> QED BY <1>6, <2>1, <2>4, <3>1, <3>2, <3>3, <4>1, <4>2, <4>3 DEF RecvInv
    <3>4. CASE /\ conn[o].receiving = "requested" /\ c <= N
               /\ recv[o].mask = MaskOf(s, c)
               /\ recv[o].frame_pos \in 0..Size(s, c) - 1
               /\ HasOf(s, c, recv[o].frame_pos)
      <4>1. PICK k : k = recv[o].frame_pos
        OBVIOUS
      <4>2. c \in 1..N /\ HasOf(s, c, k)' /\ k \in 0..Size(s, c)' - 1
            /\ recv'[o].mask = MaskOf(s, c)' /\ recv'[o].frame_pos = k
        BY <1>6, <2>1, <2>5, <2>6, <3>4, <4>1
      <4>3. HasOf(s, Coming(s), recv[o].frame_pos)'
        BY <2>4, <4>2 DEF HasOf, Size
      <4>4. MaskOf(s, Coming(s))' = MaskOf(s, c)' /\ Size(s, Coming(s))' = Size(s, c)'
        BY <2>4 DEF MaskOf, Size
      <4>5. Coming(s)' <= Last(s)'
        BY <1>6, <2>4, <2>5, <4>2
      <4> QED BY <2>1, <3>1, <3>2, <3>4, <4>2, <4>3, <4>4, <4>5 DEF RecvInv
    <3>5. CASE conn[o].receiving = "received" /\ c <= N /\ HasOf(s, c, Size(s, c))
      <4>1. c \in 1..N /\ HasOf(s, c, Size(s, c))'
        BY <1>6, <2>5, <2>6, <3>5 DEF HasOf
      <4>2. HasOf(s, Coming(s), Size(s, Coming(s)))'
        BY <2>4, <4>1 DEF HasOf, Size
      <4>3. Coming(s)' <= Last(s)'
        BY <1>6, <2>4, <2>5, <4>1
      <4> QED BY <2>1, <3>1, <3>2, <3>5, <4>2, <4>3 DEF RecvInv
    <3>6. CASE /\ conn[o].receiving = "consumed" /\ got[o] # <<>>
               /\ HasOf(s, Len(got[o]), Size(s, Len(got[o])))
      <4>1. PICK n : n = Len(got[o])
        OBVIOUS
      <4>2. n \in 1..N
        <5>1. Len(got[o]) # 0
          <6>1. got[o] \in Seq(Nat)
            BY <2>1, <2>2 DEF RecvInv
          <6> QED BY <3>6, <6>1, EmptySeq
        <5> QED BY <2>5, <4>1, <5>1
      <4>3. HasOf(s, n, Size(s, n))'
        BY <1>6, <2>6, <3>6, <4>1, <4>2 DEF HasOf
      <4>4. HasOf(s, Len(got[o]), Size(s, Len(got[o])))'
        BY <2>1, <4>1, <4>3 DEF HasOf, Size
      <4> QED BY <2>1, <3>1, <3>2, <3>6, <4>4 DEF RecvInv
    <3> QED BY <1>N, <2>1, <2>2, <2>3, <3>3, <3>4, <3>5, <3>6 DEF RecvInv
  <2>11. AloneInv(s)'
    <3>1. ASSUME \A n \in 1..Last(s)' : sent'[s][n].alone
          PROVE  Last(s)' <= Coming(s)'
      <4>1. N + 1 \in 1..Last(s)'
        BY <1>6
      <4>2. N = Len(got[o])
        BY <1>6, <3>1, <4>1
      <4> QED BY <1>6, <2>4, <4>2
    <3> QED BY <3>1 DEF AloneInv
  <2> QED BY <1>9, <2>1, <2>9, <2>10, <2>11 DEF InOrder
<1>10. Way(s)'
  BY <1>0, <1>6, <1>7, <1>8, <1>9 DEF Way
<1>11. Way(o)'
  BY <1>0, <1>2, <1>3, <1>4, <1>5, WayKept
<1> QED BY <1>10, <1>11, WaysTalk DEF o

\* The frame that a send step goes on with, begun before or now.
LEMMA FramedFacts ==
  ASSUME Shapes, NEW s \in Sides, FramesInv(s), SendInv(s),
         conn[s].sending \in {"requested", "sending"}
  PROVE  LET f == Framed(s, Len(send[s].buffer) - send[s].pos)
             N == Last(s) IN
         /\ SendFields(f) /\ f.buffer = BodyOf(s, N) /\ f.pos = 0
         /\ f.frame_len = Size(s, N) /\ f.frame_end = Size(s, N)
         /\ f.header = HeadOf(s, N) /\ f.header_pos \in 0..HeadSize(s, N)
         /\ f.frame_pos \in 0..Size(s, N) - 1
         /\ f.frame_pos > 0 => f.header_pos = HeadSize(s, N)
         /\ Put(s) = EndOf(s, N - 1) + f.header_pos + f.frame_pos
<1> DEFINE f == Framed(s, Len(send[s].buffer) - send[s].pos)
           N == Last(s)
           L == Size(s, N)
<1>1. sent[s] # <<>>
  BY DEF SendInv
<1>2. L \in Nat \ {0} /\ L <= FrameMax /\ FrameMax \in Nat /\ HeadSize(s, N) \in Nat
      /\ EndOf(s, N - 1) \in Nat
  BY <1>1, LastFrame, WebSocketAssumption
<1>3. SendFields(f)
  BY FramedShape
<1>4. CASE conn[s].sending = "sending"
  <2>1. f = send[s]
    <3>1. send[s].frame_len = L
      BY <1>4 DEF SendInv
    <3> HIDE DEF L
    <3> QED BY <1>2, <3>1 DEF Framed
  <2> HIDE DEF f
  <2>2. Put(s) = EndOf(s, N - 1) + f.header_pos + f.frame_pos
    BY <1>4, <2>1 DEF Put
  <2> QED BY <1>3, <1>4, <2>1, <2>2 DEF SendInv, f
<1>5. CASE conn[s].sending = "requested"
  <2> DEFINE m == MaskOf(s, N)
             b == send[s].buffer
  <2>1. /\ send[s].frame_len = 0 /\ send[s].header_pos = 0 /\ send[s].pos = 0
        /\ b = Message(N, L)
    BY <1>5 DEF SendInv, NoFrame
  <2>2. /\ Len(b) = L /\ DOMAIN b = 1..L
        /\ \A i \in 1..L : b[i] = [data |-> N, at |-> i, mask |-> <<>>]
    <3>1. L \in Nat
      BY <1>2
    <3> HIDE DEF L, N
    <3> QED BY <2>1, <3>1, MessageFacts
  <2>3. LeastOf(Len(b) - send[s].pos, FrameMax) = L /\ Len(b) - send[s].pos = L
    <3> HIDE DEF L, b
    <3>1. Len(b) - send[s].pos = L
      BY <1>2, <2>1, <2>2 DEF b
    <3>2. LeastOf(L, FrameMax) = L
      BY <1>2 DEF LeastOf
    <3> QED BY <3>1, <3>2 DEF b
  <2> DEFINE new == [i \in DOMAIN b |-> IF i \in 0 + 1..0 + L
                                        THEN Xored(b[i], Key(m, i - 0)) ELSE b[i]]
  <2>4. new = BodyOf(s, N)
    <3> HIDE DEF L, N, m, b
    <3>1. ASSUME NEW i \in 1..L
          PROVE  (IF i \in 0 + 1..0 + L THEN Xored(b[i], Key(m, i - 0)) ELSE b[i])
                   = [data |-> N, at |-> i, mask |-> Key(m, i)]
      <4>1. i \in 0 + 1..0 + L /\ i - 0 = i
        BY <1>2
      <4>2. Xored([data |-> N, at |-> i, mask |-> <<>>], Key(m, i))
              = [data |-> N, at |-> i, mask |-> Key(m, i)]
        BY Masking
      <4> QED BY <2>2, <4>1, <4>2
    <3>2. new = [i \in 1..L |-> [data |-> N, at |-> i, mask |-> Key(m, i)]]
      BY <2>2, <3>1
    <3>3. BodyOf(s, N) = [i \in 1..L |-> [data |-> N, at |-> i, mask |-> Key(m, i)]]
      BY DEF BodyOf, Masked, L, m
    <3> QED BY <3>2, <3>3
  <2>5. f = NewFrame(send[s], L, HeadOf(s, N), m)
    <3>1. m = IF s = "client" THEN <<Len(sent[s])>> ELSE <<>>
      BY DEF MaskOf, Last
    <3>2. Header(s, L, m) = HeadOf(s, N)
      BY DEF HeadOf
    <3> HIDE DEF L, m
    <3>3. f = NewFrame(send[s], LeastOf(Len(b) - send[s].pos, FrameMax),
                       Header(s, Len(b) - send[s].pos, m), m)
      BY <2>1, <3>1 DEF Framed
    <3> HIDE DEF b, f
    <3> QED BY <2>3, <3>2, <3>3
  <2> HIDE DEF L, new, f, b, m, N
  <2>6. /\ f.frame_len = L /\ f.frame_pos = 0 /\ f.frame_end = L /\ f.header = HeadOf(s, N)
        /\ f.buffer = new /\ f.pos = 0 /\ f.header_pos = 0
    <3>1. SendFields(send[s])
      BY DEF Shapes, SendShape
    <3>2. f = [send[s] EXCEPT !.frame_len = L, !.frame_pos = send[s].pos,
                              !.frame_end = send[s].pos + L, !.header = HeadOf(s, N), !.mask = m,
                              !.buffer = new]
      BY <2>1, <2>5 DEF NewFrame, new, b
    <3>3. ASSUME NEW g, SendFields(g), NEW x1, NEW x2, NEW x3, NEW x4, NEW x5, NEW x6
          PROVE  LET h == [g EXCEPT !.frame_len = x1, !.frame_pos = x2, !.frame_end = x3,
                                    !.header = x4, !.mask = x5, !.buffer = x6] IN
                 /\ h.frame_len = x1 /\ h.frame_pos = x2 /\ h.frame_end = x3
                 /\ h.header = x4 /\ h.buffer = x6 /\ h.pos = g.pos
                 /\ h.header_pos = g.header_pos
      BY <3>3 DEF SendFields
    <3>4. 0 + L = L
      BY <1>2
    <3> QED BY <2>1, <3>1, <3>2, <3>3, <3>4
  <2>7. Put(s) = EndOf(s, N - 1) + f.header_pos + f.frame_pos
    <3>1. Put(s) = EndOf(s, N - 1)
      BY <1>5 DEF Put, N
    <3> DEFINE a == EndOf(s, N - 1)
    <3>2. a \in Nat /\ Put(s) = a
      BY <1>2, <3>1
    <3> HIDE DEF a
    <3>3. Put(s) = a + f.header_pos + f.frame_pos
      BY <2>6, <3>2
    <3> QED BY <3>3 DEF a
  <2> QED BY <1>2, <1>3, <2>4, <2>6, <2>7 DEF f, L, N
<1> QED BY <1>4, <1>5

\* What a send step leaves of the frame it went on with.
FrameAfter(f, k, l) ==
  LET g == [f EXCEPT !.header_pos = @ + k, !.frame_pos = @ + l]
  IN IF g.frame_pos = g.frame_end THEN FrameDone(g) ELSE g

LEMMA FrameAfterFacts ==
  ASSUME NEW f, SendFields(f), NEW k, NEW l
  PROVE  LET h == FrameAfter(f, k, l) IN
         /\ h.buffer = f.buffer
         /\ f.frame_pos + l = f.frame_end =>
              h.pos = f.frame_end /\ h.frame_len = 0 /\ h.header_pos = 0
         /\ f.frame_pos + l # f.frame_end =>
              /\ h.pos = f.pos /\ h.frame_len = f.frame_len /\ h.frame_end = f.frame_end
              /\ h.header = f.header /\ h.header_pos = f.header_pos + k
              /\ h.frame_pos = f.frame_pos + l
<1> DEFINE x == f.header_pos + k
           y == f.frame_pos + l
           g == [f EXCEPT !.header_pos = x, !.frame_pos = y]
<1>2. /\ SendFields(g) /\ g.buffer = f.buffer /\ g.pos = f.pos
      /\ g.frame_len = f.frame_len /\ g.frame_end = f.frame_end
      /\ g.header = f.header /\ g.header_pos = x /\ g.frame_pos = y
  <2> HIDE DEF x, y
  <2> QED BY DEF SendFields
<1>3. FrameAfter(f, k, l) = IF g.frame_pos = g.frame_end THEN FrameDone(g) ELSE g
  BY DEF FrameAfter
<1> HIDE DEF g
<1>4. /\ FrameDone(g).buffer = g.buffer /\ FrameDone(g).pos = g.frame_end
      /\ FrameDone(g).frame_len = 0 /\ FrameDone(g).header_pos = 0
  BY <1>2 DEF FrameDone, SendFields
<1> QED BY <1>2, <1>3, <1>4

\* More of the header, and then of the data, is what comes next of the frame.
FramePart(s, n, h, p, k, l) ==
  SubSeq(HeadOf(s, n), h + 1, h + k) \o SubSeq(BodyOf(s, n), p + 1, p + l)

\* The header goes first, and no further than its end.
InTurn(s, n, h, p, k, l) ==
  /\ Size(s, n) \in Nat /\ h \in 0..HeadSize(s, n) /\ p \in 0..Size(s, n)
  /\ k \in 0..HeadSize(s, n) - h /\ l \in 0..Size(s, n) - p
  /\ p > 0 => h = HeadSize(s, n)
  /\ l > 0 => h + k = HeadSize(s, n)

LEMMA FrameBytes ==
  ASSUME NEW s, NEW n, NEW h, NEW p, NEW k, NEW l, InTurn(s, n, h, p, k, l)
  PROVE  LET bytes == FramePart(s, n, h, p, k, l) IN
         /\ Stream(bytes) /\ Len(bytes) = k + l
         /\ \A i \in 1..k + l : bytes[i] = FrameByte(s, n, h + p + i)
<1> DEFINE H == HeadSize(s, n)
           L == Size(s, n)
           A == HeadOf(s, n)
           B == BodyOf(s, n)
           a == SubSeq(A, h + 1, h + k)
           b == SubSeq(B, p + 1, p + l)
           c == a \o b
<1>1. H \in Nat /\ L \in Nat
  BY HeadSizes DEF InTurn
<1>2. \A j : FrameByte(s, n, j) = IF j <= H THEN A[j] ELSE B[j - H]
  BY DEF FrameByte
<1> HIDE DEF H, L, A, B
<1>3. /\ h \in 0..H /\ p \in 0..L /\ (p > 0 => h = H)
      /\ k \in 0..H - h /\ l \in 0..L - p /\ (l > 0 => h + k = H)
  BY DEF H, L, InTurn
<1>4. h \in Nat /\ p \in Nat /\ k \in Nat /\ l \in Nat
  BY <1>1, <1>3
<1>5. a = [i \in 1..k |-> A[h + i]]
  BY <1>4, CutMore, SMTT(40)
<1>6. b = [i \in 1..l |-> B[p + i]]
  BY <1>4, CutMore, SMTT(40)
<1> HIDE DEF a, b
<1>7. c = [i \in 1..k + l |-> IF i <= k THEN a[i] ELSE b[i - k]]
  <2>1. a = [i \in 1..k |-> a[i]] /\ b = [i \in 1..l |-> b[i]]
    BY <1>5, <1>6
  <2> QED BY <1>4, <2>1, Joined, SMTT(40)
<1> HIDE DEF c
<1>8. Stream(c) /\ Len(c) = k + l
  <2>1. c = [i \in 1..k + l |-> c[i]] /\ k + l \in Nat
    BY <1>4, <1>7
  <2>2. Len(c) = k + l
    BY <2>1, Streams
  <2> QED BY <2>1, <2>2 DEF Stream
<1>9. ASSUME NEW i \in 1..k + l
      PROVE  c[i] = FrameByte(s, n, h + p + i)
  <2>1. CASE i <= k
    <3>1. p = 0 /\ h + p + i = h + i /\ h + i <= H /\ i \in 1..k
      BY <1>1, <1>3, <1>9, <2>1
    <3> QED BY <1>2, <1>5, <1>7, <2>1, <3>1
  <2>2. CASE ~(i <= k)
    <3> DEFINE d == i - k
               j == h + p + i
    <3>1. d \in 1..l /\ ~(j <= H) /\ j - H = p + d
      BY <1>1, <1>3, <1>9, <2>2
    <3>2. c[i] = b[d]
      BY <1>7, <2>2
    <3> HIDE DEF d, j
    <3>3. c[i] = B[p + d]
      BY <1>6, <3>1, <3>2
    <3>4. FrameByte(s, n, j) = B[p + d]
      BY <1>2, <3>1
    <3> QED BY <3>3, <3>4 DEF j
  <2> QED BY <2>1, <2>2
<1> QED BY <1>8, <1>9 DEF a, b, c, A, B, FramePart

\* A step of a frame puts what comes next of it on the wire.
LEMMA SendFrameStep ==
  ASSUME Shapes, TalkInv, NEW s \in Sides, SendFrame(s)
  PROVE  TalkInv'
<1> DEFINE o == Other(s)
           f == Framed(s, Len(send[s].buffer) - send[s].pos)
<1>0. o \in Sides /\ Other(o) = s /\ s # o /\ Way(s) /\ Way(o)
  BY Others, TalkWays
<1>1. conn[s].state = "open" /\ conn[s].sending \in {"requested", "sending"}
      /\ UNCHANGED <<recv, sent, got>>
  BY DEF SendFrame
<1>2. PICK k \in 0..Len(f.header) - f.header_pos :
      \E l \in 0..(IF f.header_pos + k < Len(f.header) THEN 0 ELSE f.frame_end - f.frame_pos) :
        PutsFrame(s, f, k, l)
  BY DEF SendFrame
<1>3. PICK l \in 0..(IF f.header_pos + k < Len(f.header) THEN 0 ELSE f.frame_end - f.frame_pos) :
        PutsFrame(s, f, k, l)
  BY <1>2
<1>N. PICK N : N = Last(s)
  OBVIOUS
<1>L. PICK L : L = Size(s, N)
  OBVIOUS
<1>H. PICK H : H = HeadSize(s, N)
  OBVIOUS
<1>A. PICK A : A = EndOf(s, N - 1)
  OBVIOUS
<1>4. FramesInv(s) /\ SendInv(s)
  BY <1>0 DEF Way
<1>5. /\ sent[s] # <<>> /\ SendFields(f)
      /\ f.buffer = BodyOf(s, N) /\ f.pos = 0
      /\ f.frame_len = L /\ f.frame_end = L
      /\ f.header = HeadOf(s, N) /\ f.header_pos \in 0..H
      /\ f.frame_pos \in 0..L - 1
      /\ f.frame_pos > 0 => f.header_pos = H
      /\ Put(s) = A + f.header_pos + f.frame_pos
  <2>1. sent[s] # <<>>
    BY <1>1, <1>4, PutFacts
  <2> QED BY <1>1, <1>4, <1>N, <1>L, <1>H, <1>A, <2>1, FramedFacts
<1> HIDE DEF f
<1>6. /\ L \in Nat \ {0} /\ H \in Nat /\ A \in Nat /\ EndOf(s, N) = A + H + L
      /\ N \in 1..N /\ N \in 1..Last(s)
      /\ Len(HeadOf(s, N)) = H /\ Len(BodyOf(s, N)) = L
  <2>1. L \in Nat \ {0} /\ H \in Nat /\ A \in Nat /\ EndOf(s, N) = A + H + L /\ N \in 1..N
        /\ N \in 1..Last(s)
    BY <1>4, <1>5, <1>N, <1>L, <1>H, <1>A, LastFrame
  <2>2. Len(HeadOf(s, N)) = H
    <3>1. HeadOf(s, N) = [j \in 1..H |-> HeadOf(s, N)[j]]
      BY <1>H, <2>1, HeadFacts
    <3> QED BY <2>1, <3>1, Streams
  <2>3. Len(BodyOf(s, N)) = L
    BY <1>L, <2>1, MessageFacts, ZenonT(60) DEF BodyOf
  <2> QED BY <2>1, <2>2, <2>3
<1>7. /\ k \in 0..H - f.header_pos /\ l \in 0..L - f.frame_pos
      /\ l > 0 => f.header_pos + k = H
  <2> DEFINE hp == f.header_pos
             fp == f.frame_pos
  <2>1. hp \in 0..H /\ fp \in 0..L - 1 /\ L \in Nat /\ H \in Nat
    BY <1>5, <1>6
  <2>2. k \in 0..H - hp /\ l \in 0..(IF hp + k < H THEN 0 ELSE L - fp)
    BY <1>2, <1>3, <1>5, <1>6
  <2> HIDE DEF hp, fp
  <2>3. k \in 0..H - hp /\ l \in 0..L - fp /\ (l > 0 => hp + k = H)
    BY <2>1, <2>2
  <2> QED BY <2>3 DEF hp, fp
<1> DEFINE h == FrameAfter(f, k, l)
           bytes == SubSeq(f.header, f.header_pos + 1, f.header_pos + k)
                      \o SubSeq(f.buffer, f.frame_pos + 1, f.frame_pos + l)
<1>8. /\ Moved(s, 0, bytes) /\ send' = [send EXCEPT ![s] = h]
      /\ conn' = [conn EXCEPT ![s].sending = SentFlag(h)]
  BY <1>3, Zenon DEF PutsFrame, FrameAfter
<1>9. /\ Stream(bytes) /\ Len(bytes) = k + l
      /\ \A i \in 1..k + l : bytes[i] = FrameByte(s, N, f.header_pos + f.frame_pos + i)
  <2>1. PICK hp : hp = f.header_pos
    OBVIOUS
  <2>2. PICK fp : fp = f.frame_pos
    OBVIOUS
  <2>3. InTurn(s, N, hp, fp, k, l)
    <3>1. hp \in 0..H /\ fp \in 0..L - 1 /\ (fp > 0 => hp = H) /\ L \in Nat
          /\ k \in 0..H - hp /\ l \in 0..L - fp /\ (l > 0 => hp + k = H)
      BY <1>5, <1>6, <1>7, <2>1, <2>2
    <3>2. fp \in 0..L
      BY <3>1
    <3> QED BY <1>L, <1>H, <3>1, <3>2 DEF InTurn
  <2>4. bytes = FramePart(s, N, hp, fp, k, l)
    BY <1>5, <2>1, <2>2 DEF FramePart
  <2>5. /\ Stream(FramePart(s, N, hp, fp, k, l)) /\ Len(FramePart(s, N, hp, fp, k, l)) = k + l
        /\ \A i \in 1..k + l :
             FramePart(s, N, hp, fp, k, l)[i] = FrameByte(s, N, hp + fp + i)
    <3>1. Stream(FramePart(s, N, hp, fp, k, l))
      BY <2>3, FrameBytes
    <3>2. Len(FramePart(s, N, hp, fp, k, l)) = k + l
      BY <2>3, FrameBytes
    <3>3. ASSUME NEW i \in 1..k + l
          PROVE  FramePart(s, N, hp, fp, k, l)[i] = FrameByte(s, N, hp + fp + i)
      BY <2>3, <3>3, FrameBytes
    <3> QED BY <3>1, <3>2, <3>3
  <2> QED BY <2>1, <2>2, <2>4, <2>5
<1> HIDE DEF h, bytes, o
<1>10. /\ send'[s] = h /\ send'[o] = send[o]
       /\ conn'[s].sending = SentFlag(h) /\ conn'[s].receiving = conn[s].receiving
       /\ conn'[s].state = conn[s].state /\ conn'[o] = conn[o]
  BY <1>0, <1>8 DEF Shapes, ConnShape, SendShape
<1>11. /\ Last(s)' = Last(s) /\ FramesInv(s)' = FramesInv(s)
       /\ \A n : /\ EndOf(s, n)' = EndOf(s, n) /\ Size(s, n)' = Size(s, n)
                 /\ HeadSize(s, n)' = HeadSize(s, n) /\ HeadOf(s, n)' = HeadOf(s, n)
                 /\ BodyOf(s, n)' = BodyOf(s, n)
                 /\ \A j : FrameByte(s, n, j)' = FrameByte(s, n, j)
  BY <1>1, SameFrames
<1>12. sent'[s] # <<>>
  BY <1>1, <1>5
<1>13. Put(s)' = Put(s) + k + l /\ SendInv(s)'
  <2>0. /\ EndOf(s, Last(s))' = A + H + L /\ EndOf(s, Last(s) - 1)' = A
        /\ BodyOf(s, Last(s))' = BodyOf(s, N) /\ HeadOf(s, Last(s))' = HeadOf(s, N)
        /\ Size(s, Last(s))' = L /\ HeadSize(s, Last(s))' = H
    <3>1. Last(s)' = N
      BY <1>11, <1>N
    <3>2. /\ EndOf(s, Last(s))' = EndOf(s, N)' /\ EndOf(s, Last(s) - 1)' = EndOf(s, N - 1)'
          /\ BodyOf(s, Last(s))' = BodyOf(s, N)' /\ HeadOf(s, Last(s))' = HeadOf(s, N)'
          /\ Size(s, Last(s))' = Size(s, N)' /\ HeadSize(s, Last(s))' = HeadSize(s, N)'
      BY <3>1 DEF EndOf, BodyOf, HeadOf, Size, HeadSize, MaskOf
    <3> QED BY <1>6, <1>11, <1>L, <1>H, <1>A, <3>2
  <2>1. CASE f.frame_pos + l = L
    <3>1. /\ h.buffer = BodyOf(s, N) /\ h.pos = L /\ h.frame_len = 0 /\ h.header_pos = 0
      <4>1. f.frame_pos + l = f.frame_end
        BY <1>5, <2>1
      <4>2. PICK g : g = f
        OBVIOUS
      <4>3. SendFields(g) /\ g.frame_pos + l = g.frame_end
        BY <1>5, <4>1, <4>2
      <4>4. /\ FrameAfter(g, k, l).buffer = g.buffer /\ FrameAfter(g, k, l).pos = g.frame_end
            /\ FrameAfter(g, k, l).frame_len = 0 /\ FrameAfter(g, k, l).header_pos = 0
        BY <4>3, FrameAfterFacts
      <4>5. h = FrameAfter(g, k, l)
        BY <4>2 DEF h
      <4> QED BY <1>5, <4>2, <4>4, <4>5
    <3>2. SentFlag(h) = "sent"
      BY <1>6, <3>1 DEF SentFlag
    <3>3. SendInv(s)'
      BY <1>10, <3>1, <3>2 DEF SendInv, NoFrame
    <3>4. Put(s)' = A + H + L
      BY <1>10, <2>0, <3>2 DEF Put
    <3>5. Put(s) + k + l = A + H + L
      <4> DEFINE hp == f.header_pos
                 fp == f.frame_pos
      <4>1. /\ hp \in 0..H /\ fp \in 0..L - 1 /\ fp + l = L /\ Put(s) = A + hp + fp
            /\ k \in 0..H - hp /\ l \in 0..L - fp /\ (l > 0 => hp + k = H)
        BY <1>5, <1>7, <2>1
      <4> HIDE DEF hp, fp
      <4>2. l > 0
        BY <1>6, <4>1
      <4> QED BY <1>6, <4>1, <4>2
    <3> QED BY <3>3, <3>4, <3>5
  <2>2. CASE f.frame_pos + l # L
    <3>1. /\ h.buffer = BodyOf(s, N) /\ h.pos = 0 /\ h.frame_len = L /\ h.frame_end = L
          /\ h.header = HeadOf(s, N) /\ h.header_pos = f.header_pos + k
          /\ h.frame_pos = f.frame_pos + l
      BY <1>5, <2>2, FrameAfterFacts, SMTT(40) DEF h
    <3>2. SentFlag(h) = "sending"
      BY <1>6, <3>1 DEF SentFlag
    <3>3. /\ h.header_pos \in 0..H /\ h.frame_pos \in 0..L - 1
          /\ h.frame_pos > 0 => h.header_pos = H
      <4> DEFINE hp == f.header_pos
                 fp == f.frame_pos
      <4>1. /\ hp \in 0..H /\ fp \in 0..L - 1 /\ L \in Nat /\ H \in Nat
            /\ (fp > 0 => hp = H) /\ fp + l # L
            /\ k \in 0..H - hp /\ l \in 0..L - fp /\ (l > 0 => hp + k = H)
        BY <1>5, <1>6, <1>7, <2>2
      <4> HIDE DEF hp, fp
      <4>2. hp + k \in 0..H /\ fp + l \in 0..L - 1 /\ (fp + l > 0 => hp + k = H)
        BY <4>1
      <4> QED BY <3>1, <4>2 DEF hp, fp
    <3>4. SendInv(s)'
      BY <1>10, <1>12, <2>0, <3>1, <3>2, <3>3 DEF SendInv
    <3>5. Put(s)' = A + h.header_pos + h.frame_pos
      BY <1>10, <2>0, <3>2 DEF Put
    <3>6. Put(s)' = Put(s) + k + l
      <4> DEFINE hp == f.header_pos
                 fp == f.frame_pos
      <4>1. /\ hp \in 0..H /\ fp \in 0..L - 1 /\ Put(s) = A + hp + fp
            /\ k \in 0..H - hp /\ l \in 0..L - fp /\ Put(s)' = A + (hp + k) + (fp + l)
        BY <1>5, <1>7, <3>1, <3>5
      <4> HIDE DEF hp, fp
      <4> QED BY <1>6, <4>1
    <3> QED BY <3>4, <3>6
  <2> QED BY <2>1, <2>2
<1>14. wire'[s] = wire[s] \o bytes
  BY <1>8, MovedFacts
<1>15. ASSUME Past(s)
       PROVE  Past(s)'
  <2>1. Stream(wire'[s])
    BY <1>9, <1>14, <1>15, StreamFacts DEF Past
  <2>2. Stream(wire[s])'
    BY <2>1 DEF Stream
  <2>3. recv'[Other(s)] = recv[Other(s)] /\ conn'[Other(s)] = conn[Other(s)]
    BY <1>1, <1>10 DEF o
  <2>4. \A n \in 1..Last(s) : n \in 1..Last(s)' /\ sent'[s][n].alone = sent[s][n].alone
    BY <1>1, <1>11
  <2> QED BY <1>15, <2>2, <2>3, <2>4, PastKept
<1>16. ASSUME InOrder(s)
       PROVE  InOrder(s)'
  <2>1. RecvInv(s)' /\ AloneInv(s)' /\ Taken(s)' = Taken(s)
    <3>1. recv'[Other(s)] = recv[Other(s)] /\ conn'[Other(s)] = conn[Other(s)]
          /\ sent'[s] = sent[s] /\ got'[Other(s)] = got[Other(s)]
      BY <1>1, <1>10 DEF o
    <3> QED BY <1>16, <3>1, SameReceiver DEF InOrder
  <2>2. RecvInv(s) /\ WireInv(s)
    BY <1>16 DEF InOrder
  <2>T. PICK t : t = Taken(s)
    OBVIOUS
  <2>P. PICK p : p = Put(s)
    OBVIOUS
  <2>3. /\ t \in Nat /\ p \in Nat /\ t <= p
        /\ Stream(wire[s]) /\ Len(wire[s]) = p - t
        /\ \A i \in 1..p - t : \A n \in 1..Last(s) :
             \A j \in 1..HeadSize(s, n) + Size(s, n) :
               t + i = EndOf(s, n - 1) + j => wire[s][i] = FrameByte(s, n, j)
    BY <1>4, <2>2, <2>T, <2>P, WireFacts
  <2>4. k \in Nat /\ l \in Nat
    <3> DEFINE hp == f.header_pos
               fp == f.frame_pos
    <3>1. hp \in 0..H /\ fp \in 0..L - 1 /\ k \in 0..H - hp /\ l \in 0..L - fp
      BY <1>5, <1>7
    <3> HIDE DEF hp, fp
    <3> QED BY <1>6, <3>1
  <2>5. /\ Stream(wire'[s]) /\ Len(wire'[s]) = (p - t) + (k + l)
        /\ \A i \in 1..p - t : wire'[s][i] = wire[s][i]
        /\ \A i \in 1..k + l : wire'[s][(p - t) + i] = bytes[i]
    <3>1. PICK w : w = wire[s]
      OBVIOUS
    <3>2. Stream(w) /\ Stream(bytes)
      BY <1>9, <2>3, <3>1
    <3>3. /\ Stream(w \o bytes) /\ Len(w \o bytes) = Len(w) + Len(bytes)
          /\ \A i \in 1..Len(w) : (w \o bytes)[i] = w[i]
          /\ \A i \in 1..Len(bytes) : (w \o bytes)[Len(w) + i] = bytes[i]
      BY <3>2, StreamFacts
    <3> QED BY <1>9, <1>14, <2>3, <3>1, <3>3
  <2>6. Put(s)' = p + k + l /\ Taken(s)' = t
    BY <1>13, <2>1, <2>T, <2>P
  <2>7. p = A + f.header_pos + f.frame_pos
    BY <1>5, <2>P
  <2>8. ASSUME NEW i \in 1..(p + k + l) - t, NEW n \in 1..Last(s),
               NEW j \in 1..HeadSize(s, n) + Size(s, n), t + i = EndOf(s, n - 1) + j
        PROVE  wire'[s][i] = FrameByte(s, n, j)
    <3>1. CASE i <= p - t
      <4>1. i \in 1..p - t
        BY <2>3, <2>4, <2>8, <3>1
      <4> QED BY <2>3, <2>5, <2>8, <4>1
    <3>2. CASE ~(i <= p - t)
      <4> DEFINE d == i - (p - t)
                 z == f.header_pos + f.frame_pos + d
      <4>1. d \in 1..k + l /\ (p - t) + d = i /\ t + i = p + d
        BY <2>3, <2>4, <2>8, <3>2
      <4>2. A + z = t + i /\ z \in 1..H + L
        <5> DEFINE hp == f.header_pos
                   fp == f.frame_pos
        <5>1. /\ hp \in 0..H /\ fp \in 0..L - 1 /\ k \in 0..H - hp /\ l \in 0..L - fp
              /\ p = A + hp + fp /\ z = hp + fp + d
          BY <1>5, <1>7, <2>7
        <5> HIDE DEF hp, fp, d, z
        <5> QED BY <1>6, <4>1, <5>1
      <4> HIDE DEF d
      <4>3. wire'[s][i] = FrameByte(s, N, z)
        <5>1. wire'[s][(p - t) + d] = bytes[d]
          BY <2>5, <4>1
        <5>2. bytes[d] = FrameByte(s, N, z)
          BY <1>9, <4>1
        <5> QED BY <4>1, <5>1, <5>2
      <4> HIDE DEF z
      <4>4. z \in 1..HeadSize(s, N) + Size(s, N) /\ EndOf(s, N - 1) + z = EndOf(s, n - 1) + j
        BY <1>L, <1>H, <1>A, <2>8, <4>2
      <4>5. N = n /\ z = j
        BY <1>4, <1>6, <2>8, <4>4, SameByte
      <4> QED BY <4>3, <4>5
    <3> QED BY <3>1, <3>2
  <2>9. WireInv(s)'
    <3>1. t <= p + k + l /\ (p + k + l) - t = (p - t) + (k + l)
      BY <2>3, <2>4
    <3>2. wire'[s] = [i \in 1..(p + k + l) - t |-> wire'[s][i]]
      BY <2>5, <3>1 DEF Stream
    <3> QED BY <1>11, <2>6, <2>8, <3>1, <3>2 DEF WireInv
  <2>10. conn'[Other(s)].state = "open"
    BY <1>10, <1>16 DEF InOrder, o
  <2> QED BY <2>1, <2>9, <2>10 DEF InOrder
<1>17. Way(s)'
  BY <1>4, <1>11, <1>13, <1>15, <1>16, <1>0 DEF Way
<1>18. Way(o)'
  <2>1. wire'[o] = wire[o]
    <3>1. wire'[o] = Rest(wire[o], 0)
      BY <1>8, MovedFacts DEF o
    <3> QED BY <1>0, <3>1, WayStream, NoBytes
  <2>2. recv' = recv /\ sent' = sent /\ got' = got /\ send'[o] = send[o] /\ conn'[o] = conn[o]
        /\ conn'[s].receiving = conn[s].receiving /\ conn'[s].state = conn[s].state
    BY <1>1, <1>10
  <2> QED BY <1>0, <2>1, <2>2, WayKept
<1> QED BY <1>17, <1>18, WaysTalk DEF o

-----------------------------------------------------------------------------
(* Receiving *)

\* A step that reads what s has sent leaves the rest of it on the wire, and the other
\* direction alone.
LEMMA ReadOthers ==
  ASSUME Shapes, TalkInv, NEW s \in Sides, NEW n, Takes(Other(s), n),
         UNCHANGED <<send, sent, got>>, recv'[s] = recv[s], conn'[s] = conn[s],
         conn'[Other(s)].sending = conn[Other(s)].sending
  PROVE  /\ Way(Other(s))' /\ wire'[s] = Rest(wire[s], n) /\ FramesInv(s)' /\ SendInv(s)'
         /\ Put(s)' = Put(s) /\ Coming(s)' = Coming(s)
<1>0. Other(s) \in Sides /\ Other(Other(s)) = s /\ s # Other(s) /\ Way(s) /\ Way(Other(s))
  BY Others, TalkWays
<1>1. wire'[s] = Rest(wire[s], n) /\ wire'[Other(s)] = wire[Other(s)] \o <<>>
  BY <1>0, MovedFacts DEF Takes
<1>2. Way(Other(s))'
  <2>1. wire'[Other(s)] = wire[Other(s)]
    BY <1>0, <1>1, WayStream, NoBytes
  <2> QED BY <1>0, <2>1, WayKept
<1>3. /\ Last(s)' = Last(s) /\ FramesInv(s)' = FramesInv(s)
      /\ \A n2 : /\ EndOf(s, n2)' = EndOf(s, n2) /\ Size(s, n2)' = Size(s, n2)
                 /\ HeadSize(s, n2)' = HeadSize(s, n2) /\ HeadOf(s, n2)' = HeadOf(s, n2)
                 /\ BodyOf(s, n2)' = BodyOf(s, n2)
  BY SameFrames
<1>4. Put(s)' = Put(s) /\ Coming(s)' = Coming(s)
  BY <1>3 DEF Put, Coming
<1>5. FramesInv(s)' /\ SendInv(s)'
  BY <1>0, <1>3 DEF Way, SendInv, Empty, NoFrame
<1> QED BY <1>1, <1>2, <1>4, <1>5

LEMMA ReadStep ==
  ASSUME Shapes, NEW s \in Sides, FramesInv(s), SendInv(s), RecvInv(s), WireInv(s),
         NEW n \in Nat, n <= Len(wire[s]), wire'[s] = Rest(wire[s], n), sent'[s] = sent[s],
         Put(s)' = Put(s), Taken(s)' = Taken(s) + n
  PROVE  WireInv(s)'
<1>1. PICK t : t = Taken(s)
  OBVIOUS
<1>2. PICK p : p = Put(s)
  OBVIOUS
<1>3. /\ t \in Nat /\ p \in Nat /\ t <= p
      /\ Stream(wire[s]) /\ Len(wire[s]) = p - t
      /\ \A i \in 1..p - t : \A m \in 1..Last(s) :
           \A j \in 1..HeadSize(s, m) + Size(s, m) :
             t + i = EndOf(s, m - 1) + j => wire[s][i] = FrameByte(s, m, j)
  BY <1>1, <1>2, WireFacts
<1>4. n <= p - t /\ t + n \in Nat /\ t + n <= p /\ p - (t + n) = (p - t) - n
  BY <1>3
<1>5. /\ Stream(wire'[s]) /\ Len(wire'[s]) = p - (t + n)
      /\ \A i \in 1..p - (t + n) : wire'[s][i] = wire[s][n + i]
  <2>1. PICK w : w = wire[s]
    OBVIOUS
  <2>2. Stream(w) /\ Len(w) = p - t
    BY <1>3, <2>1
  <2>3. /\ Stream(Rest(w, n)) /\ Len(Rest(w, n)) = (IF n <= Len(w) THEN Len(w) - n ELSE 0)
        /\ \A i \in 1..Len(w) - n : Rest(w, n)[i] = w[n + i]
    BY <2>2, StreamFacts
  <2> QED BY <1>4, <2>1, <2>2, <2>3
<1>6. /\ Last(s)' = Last(s)
      /\ \A m : /\ EndOf(s, m)' = EndOf(s, m) /\ Size(s, m)' = Size(s, m)
                /\ HeadSize(s, m)' = HeadSize(s, m)
                /\ \A j : FrameByte(s, m, j)' = FrameByte(s, m, j)
  BY SameFrames
<1>7. ASSUME NEW i \in 1..p - (t + n), NEW m \in 1..Last(s),
             NEW j \in 1..HeadSize(s, m) + Size(s, m), (t + n) + i = EndOf(s, m - 1) + j
      PROVE  wire'[s][i] = FrameByte(s, m, j)
  <2>1. n + i \in 1..p - t /\ t + (n + i) = (t + n) + i
    BY <1>3, <1>4
  <2> QED BY <1>3, <1>5, <1>7, <2>1
<1>8. wire'[s] = [i \in 1..p - (t + n) |-> wire'[s][i]]
  BY <1>5 DEF Stream
<1>9. Taken(s)' = t + n /\ Put(s)' = p
  BY <1>1, <1>2
<1>10. \A i \in 1..p - (t + n) : \A m \in 1..Last(s)' :
         \A j \in 1..HeadSize(s, m)' + Size(s, m)' :
           (t + n) + i = EndOf(s, m - 1)' + j => wire'[s][i] = FrameByte(s, m, j)'
  BY <1>6, <1>7
<1>11. PICK u : u = t + n
  OBVIOUS
<1>12. /\ u <= p /\ Taken(s)' = u /\ Put(s)' = p
       /\ wire'[s] = [i \in 1..p - u |-> wire'[s][i]]
       /\ \A i \in 1..p - u : \A m \in 1..Last(s)' :
            \A j \in 1..HeadSize(s, m)' + Size(s, m)' :
              u + i = EndOf(s, m - 1)' + j => wire'[s][i] = FrameByte(s, m, j)'
  BY <1>4, <1>8, <1>9, <1>10, <1>11
<1> QED BY <1>12 DEF WireInv

\* Before a read the receiver is in the header of the message that comes, or in its data; a
\* message that has been consumed is no more in the buffer.
AtHeader(s, c, r) ==
  /\ r.in_frame = FALSE /\ r.message_len = 0 /\ r.frame_len = 0 /\ r.frame_pos = 0
  /\ r.buffer = <<>>
  /\ IF c <= Last(s)
     THEN /\ r.header = [i \in 1..Len(r.header) |-> HeadOf(s, c)[i]]
          /\ Len(r.header) \in 0..HeadSize(s, c) - 1
     ELSE r.header = <<>>
  /\ Taken(s) = EndOf(s, c - 1) + Len(r.header)

AtData(s, c, r) ==
  /\ conn[Other(s)].receiving = "requested" /\ c <= Last(s)
  /\ r.mask = MaskOf(s, c)
  /\ r.frame_pos \in 0..Size(s, c) - 1
  /\ HasOf(s, c, r.frame_pos) /\ r = recv[Other(s)]
  /\ Taken(s) = EndOf(s, c - 1) + (HeadSize(s, c) + r.frame_pos)

LEMMA KeptFacts ==
  ASSUME Shapes, NEW s \in Sides, FramesInv(s), RecvInv(s), NEW o, o = Other(s),
         Receiving(o), NEW r, r = Kept(o), NEW c, c = Coming(s)
  PROVE  /\ RecvFields(r) /\ (o = "client" => r.mask = <<>>)
         /\ AtHeader(s, c, r) \/ AtData(s, c, r)
<1>0. o \in Sides /\ Other(s) = o
  BY Others
<1>1. RecvFields(recv[o]) /\ RecvFields(r)
  BY <1>0, KeptShape DEF Shapes, RecvShape
<1>2. HeadSize(s, c) \in Nat /\ HeadSize(s, c) >= 2
  BY HeadSizes
<1>C. Len(got[o]) \in 0..Last(s) /\ c - 1 = Len(got[o]) /\ c \in Nat \ {0}
      /\ EndOf(s, c - 1) \in Nat /\ (c <= Last(s) => c \in 1..Last(s))
  BY <1>0, TakenFacts
<1>3. CASE conn[o].receiving = "consumed"
  <2>G. PICK g : g = Len(got[o])
    OBVIOUS
  <2>L. PICK L : L = Size(s, g)
    OBVIOUS
  <2>P. PICK p : p = recv[o]
    OBVIOUS
  <2>1. /\ got[o] # <<>> /\ HasOf(s, g, L) /\ (o = "client" => p.mask = <<>>)
        /\ got[o] \in Seq(Nat)
    BY <1>0, <1>3, <2>G, <2>L, <2>P DEF RecvInv
  <2>2. g \in 1..Last(s)
    <3>1. g # 0
      BY <2>1, <2>G, EmptySeq
    <3> QED BY <1>C, <2>G, <3>1
  <2>3. L \in Nat \ {0} /\ L >= PreambleLen /\ PreambleLen \in Nat
    BY <2>2, <2>L, SizeFacts, WebSocketAssumption
  <2>4. /\ p.in_frame = TRUE /\ p.frame_len = L /\ p.frame_pos = L
        /\ p.buffer = Message(g, L) /\ p.message_len = L
    BY <1>0, <2>1, <2>3, <2>L, <2>P DEF HasOf
  <2>Z. PICK z : z = Rest(p.buffer, p.message_len)
    OBVIOUS
  <2>5. z = <<>>
    <3>1. Len(p.buffer) = L /\ Stream(p.buffer)
      BY <2>3, <2>4, MessageFacts
    <3>2. Stream(z) /\ Len(z) = IF L <= L THEN L - L ELSE 0
      BY <2>3, <2>4, <2>Z, <3>1, StreamFacts
    <3>3. Len(z) = 0
      BY <2>3, <3>2
    <3> QED BY <3>2, <3>3, NoBytes
  <2>Q. PICK q : q = [p EXCEPT !.buffer = z, !.message_len = 0]
    OBVIOUS
  <2>6. r = NextFrame(q)
    BY <1>3, <2>P, <2>Z, <2>Q DEF Kept
  <2>7. /\ RecvFields(q) /\ q.buffer = <<>> /\ q.message_len = 0 /\ q.in_frame = TRUE
        /\ q.frame_len = L /\ q.frame_pos = L /\ q.mask = p.mask
    <3>1. RecvFields(p)
      BY <1>1, <2>P
    <3>2. /\ RecvFields(q) /\ q.buffer = z /\ q.message_len = 0 /\ q.in_frame = p.in_frame
          /\ q.frame_len = p.frame_len /\ q.frame_pos = p.frame_pos /\ q.mask = p.mask
      BY <2>Q, <3>1 DEF RecvFields
    <3> QED BY <2>4, <2>5, <3>2
  <2>8. /\ r.in_frame = FALSE /\ r.message_len = 0 /\ r.frame_len = 0 /\ r.frame_pos = 0
        /\ r.buffer = <<>> /\ r.header = <<>> /\ r.mask = q.mask
    BY <2>6, <2>7, NextFrameShape
  <2>9. Taken(s) = EndOf(s, c - 1) + 0
    BY <1>0, <1>3 DEF Taken
  <2>10. <<>> = [i \in 1..Len(<<>>) |-> HeadOf(s, c)[i]] /\ Len(<<>>) = 0
    OBVIOUS
  <2>11. 0 \in 0..HeadSize(s, c) - 1
    BY <1>2
  <2> QED BY <1>1, <2>1, <2>7, <2>8, <2>9, <2>10, <2>11 DEF AtHeader
<1>4. CASE conn[o].receiving = "requested"
  <2>1. r = NextFrame(recv[o])
    BY <1>4 DEF Kept
  <2>2. o = "client" => recv[o].mask = <<>>
    BY <1>0 DEF RecvInv
  <2>3. CASE NothingRead(o)
    <3>1. r = recv[o] /\ recv[o].in_frame = FALSE
      BY <2>1, <2>3 DEF NextFrame, NothingRead
    <3>2. /\ recv[o].buffer = <<>>
          /\ IF c <= Last(s)
             THEN /\ recv[o].header = [i \in 1..Len(recv[o].header) |-> HeadOf(s, c)[i]]
                  /\ Len(recv[o].header) \in 0..HeadSize(s, c) - 1
             ELSE recv[o].header = <<>>
      BY <1>0, <1>4, <2>3 DEF RecvInv, NothingRead, HasOf
    <3>3. Taken(s) = EndOf(s, c - 1) + Len(recv[o].header)
      BY <1>0, <1>4, <3>1 DEF Taken
    <3>4. recv[o].message_len = 0 /\ recv[o].frame_len = 0 /\ recv[o].frame_pos = 0
      BY <2>3 DEF NothingRead
    <3> QED BY <1>1, <2>2, <3>1, <3>2, <3>3, <3>4 DEF AtHeader
  <2>4. CASE ~NothingRead(o)
    <3>1. /\ c <= Last(s) /\ recv[o].mask = MaskOf(s, c)
          /\ recv[o].frame_pos \in 0..Size(s, c) - 1
          /\ HasOf(s, c, recv[o].frame_pos)
      BY <1>0, <1>4, <2>4 DEF RecvInv
    <3>2. Size(s, c) \in Nat
      BY <1>C, <3>1, SizeFacts
    <3>3. recv[o].in_frame = TRUE /\ recv[o].frame_len = Size(s, c)
      BY <1>0, <3>1 DEF HasOf
    <3>4. recv[o].frame_pos # Size(s, c)
      BY <3>1, <3>2
    <3>5. r = recv[o]
      BY <2>1, <3>3, <3>4 DEF NextFrame
    <3>6. Taken(s) = EndOf(s, c - 1) + (HeadSize(s, c) + recv[o].frame_pos)
      BY <1>0, <1>4, <3>1, <3>3 DEF Taken
    <3> QED BY <1>0, <1>1, <1>4, <2>2, <3>1, <3>5, <3>6 DEF AtData
  <2> QED BY <2>3, <2>4
<1> QED BY <1>3, <1>4 DEF Receiving

\* The first two bytes of a header tell how long it is.
LEMMA NeedsFacts ==
  ASSUME Shapes, NEW s \in Sides, NEW c \in 1..Last(s), NEW h, NEW e \in Nat,
         Len(h) = e, e <= HeadSize(s, c), \A i \in 1..e : h[i] = HeadOf(s, c)[i]
  PROVE  HeaderNeeds(h) = IF e < 2 THEN 2 ELSE HeadSize(s, c)
<1>1. CASE e < 2
  BY <1>1 DEF HeaderNeeds
<1>2. CASE ~(e < 2)
  <2>1. 2 \in 1..e /\ 2 \in 1..HeadSize(s, c)
    BY <1>2, HeadSizes
  <2>2. h[2].head.long = (Size(s, c) > ShortMax) /\ (h[2].head.key # <<>>) = (s = "client")
    BY <2>1, HeadFacts
  <2>3. HeaderNeeds(h) = HeaderLen(Size(s, c) > ShortMax, s = "client")
    BY <1>2, <2>2 DEF HeaderNeeds
  <2> QED BY <1>2, <2>3 DEF HeadSize
<1> QED BY <1>1, <1>2

\* More of the header: it is whole when it has the bytes that its first two say, and tells
\* the length of the message and its mask then.
LEMMA HeaderReadStep ==
  ASSUME Shapes, TalkInv, NEW s \in Sides, InOrder(s), ReadHeader(Other(s))
  PROVE  TalkInv'
<1>O. PICK o : o = Other(s)
  OBVIOUS
<1>R. PICK r : r = Kept(o)
  OBVIOUS
<1>C. PICK c : c = Coming(s)
  OBVIOUS
<1>T. PICK t : t = Taken(s)
  OBVIOUS
<1>P. PICK p : p = Put(s)
  OBVIOUS
<1>W. PICK w : w = wire[s]
  OBVIOUS
<1>K. PICK k : k = Len(r.header)
  OBVIOUS
<1>0. o \in Sides /\ Other(o) = s /\ s # o /\ Way(s) /\ conn[o].state = "open"
  BY <1>O, Others, TalkWays DEF InOrder
<1>1. PICK n \in 1..LeastOf(HeaderAsked(r), Len(w)) :
        /\ Receiving(o) /\ ~r.in_frame
        /\ recv' = [recv EXCEPT ![o] = WithHeader(r, r.header \o SubSeq(w, 1, n))]
        /\ conn' = [conn EXCEPT ![o].receiving = "requested"]
        /\ Takes(o, n)
        /\ UNCHANGED <<send, sent, got>>
  BY <1>O, <1>R, <1>W, <1>0 DEF ReadHeader
<1>H. PICK header : header = r.header \o SubSeq(w, 1, n)
  OBVIOUS
<1>Q. PICK q : q = WithHeader(r, header)
  OBVIOUS
<1>2. /\ recv'[o] = q /\ recv'[s] = recv[s]
      /\ conn'[o].receiving = "requested" /\ conn'[o].sending = conn[o].sending
      /\ conn'[o].state = conn[o].state /\ conn'[s] = conn[s]
  BY <1>0, <1>1, <1>H, <1>Q DEF Shapes, ConnShape, RecvShape
<1>3. FramesInv(s) /\ SendInv(s) /\ RecvInv(s) /\ WireInv(s) /\ AloneInv(s)
  BY <1>0 DEF Way, InOrder
<1>4. /\ RecvFields(r) /\ (o = "client" => r.mask = <<>>)
      /\ r.message_len = 0 /\ r.frame_len = 0 /\ r.frame_pos = 0 /\ r.in_frame = FALSE
      /\ r.buffer = <<>>
      /\ IF c <= Last(s)
         THEN /\ r.header = [i \in 1..k |-> HeadOf(s, c)[i]]
              /\ k \in 0..HeadSize(s, c) - 1
         ELSE r.header = <<>>
      /\ t = EndOf(s, c - 1) + k
  <2>1. ~HasOf(s, c, r.frame_pos) \/ r # recv[o]
    BY <1>O, <1>1 DEF HasOf
  <2>2. RecvFields(r) /\ (o = "client" => r.mask = <<>>) /\ (AtHeader(s, c, r) \/ AtData(s, c, r))
    <3>1. FramesInv(s) /\ RecvInv(s) /\ Receiving(o)
      BY <1>1, <1>3
    <3> QED BY <3>1, <1>O, <1>R, <1>C, KeptFacts
  <2> QED BY <1>O, <1>T, <1>K, <2>1, <2>2 DEF AtHeader, AtData
<1>5. /\ t \in Nat /\ p \in Nat /\ t <= p /\ Stream(w) /\ Len(w) = p - t
      /\ \A i \in 1..p - t : \A m \in 1..Last(s) :
           \A j \in 1..HeadSize(s, m) + Size(s, m) :
             t + i = EndOf(s, m - 1) + j => w[i] = FrameByte(s, m, j)
  BY <1>3, <1>T, <1>P, <1>W, WireFacts
<1>6. c \in 1..Last(s)
  <2>1. SUFFICES ASSUME ~(c <= Last(s)) PROVE FALSE
    BY <1>3, <1>C, TakenFacts
  <2>2. Len(w) = 0
    BY <1>3, <1>C, <1>W, <2>1, Between
  <2>3. HeaderAsked(r) = 2
    <3>1. r.header = <<>> /\ Len(<<>>) = 0
      BY <1>4, <2>1
    <3> QED BY <3>1 DEF HeaderAsked, HeaderNeeds
  <2>4. LeastOf(2, 0) = 0
    BY DEF LeastOf
  <2>5. n \in 1..0
    BY <1>1, <2>2, <2>3, <2>4
  <2> QED BY <2>5
<1>L. PICK L : L = Size(s, c)
  OBVIOUS
<1>S. PICK H : H = HeadSize(s, c)
  OBVIOUS
<1>A. PICK A : A = EndOf(s, c - 1)
  OBVIOUS
<1>7. /\ L \in Nat \ {0} /\ L >= PreambleLen /\ H \in Nat /\ H >= 2 /\ A \in Nat
      /\ PreambleLen \in Nat \ {0} /\ k \in 0..H - 1 /\ k \in Nat /\ t = A + k
      /\ r.header = [i \in 1..k |-> HeadOf(s, c)[i]]
  <2>1. L \in Nat \ {0} /\ L >= PreambleLen /\ PreambleLen \in Nat \ {0}
    BY <1>6, <1>L, SizeFacts, WebSocketAssumption
  <2>2. H \in Nat /\ H >= 2 /\ A \in Nat
    BY <1>3, <1>6, <1>S, <1>A, HeadSizes, FrameFacts
  <2>3. c <= Last(s)
    BY <1>6, SizeFacts
  <2>4. k \in 0..H - 1 /\ t = A + k /\ r.header = [i \in 1..k |-> HeadOf(s, c)[i]]
    BY <1>4, <1>S, <1>A, <2>3
  <2>5. k \in Nat
    BY <2>2, <2>4
  <2> QED BY <2>1, <2>2, <2>4, <2>5
<1>8. n \in Nat \ {0} /\ n <= Len(w) /\ n <= p - t /\ n <= H - k
  <2>1. HeaderNeeds(r.header) = IF k < 2 THEN 2 ELSE H
    <3>1. k <= HeadSize(s, c) /\ \A i \in 1..k : r.header[i] = HeadOf(s, c)[i]
      BY <1>7, <1>S
    <3>2. PICK x : x = r.header
      OBVIOUS
    <3>3. HeaderNeeds(x) = IF k < 2 THEN 2 ELSE HeadSize(s, c)
      <4>1. Len(x) = k /\ k \in Nat /\ \A i \in 1..k : x[i] = HeadOf(s, c)[i]
        BY <1>7, <1>K, <3>1, <3>2
      <4> QED BY <1>6, <3>1, <4>1, NeedsFacts
    <3> QED BY <1>S, <3>2, <3>3
  <2>2. n \in 1..LeastOf((IF k < 2 THEN 2 ELSE H) - k, p - t)
    BY <1>1, <1>5, <1>K, <2>1 DEF HeaderAsked
  <2> QED BY <1>5, <1>7, <2>2 DEF LeastOf
<1>E. PICK e : e = k + n
  OBVIOUS
<1>9. e \in 1..H /\ e \in Nat /\ t + n = A + e /\ n \in 0..Len(w)
  BY <1>5, <1>7, <1>8, <1>E
<1>10. Len(header) = e /\ Stream(header) /\ \A i \in 1..e : header[i] = HeadOf(s, c)[i]
  <2>X. PICK x : x = r.header
    OBVIOUS
  <2>Y. PICK y : y = SubSeq(w, 1, n)
    OBVIOUS
  <2>1. Stream(x) /\ Len(x) = k /\ \A i \in 1..k : x[i] = HeadOf(s, c)[i]
    BY <1>7, <1>K, <2>X DEF Stream
  <2>2. Stream(y) /\ Len(y) = n /\ \A i \in 1..n : y[i] = w[i]
    BY <1>5, <1>9, <2>Y, StreamFacts
  <2>3. /\ Stream(x \o y) /\ Len(x \o y) = Len(x) + Len(y)
        /\ \A i \in 1..Len(x) : (x \o y)[i] = x[i]
        /\ \A i \in 1..Len(y) : (x \o y)[Len(x) + i] = y[i]
    <3>1. \A g : Stream(g) => /\ Stream(x \o g) /\ Len(x \o g) = Len(x) + Len(g)
                              /\ \A i \in 1..Len(x) : (x \o g)[i] = x[i]
                              /\ \A i \in 1..Len(g) : (x \o g)[Len(x) + i] = g[i]
      BY <2>1, StreamFacts
    <3> QED BY <2>2, <3>1
  <2>4. header = x \o y
    BY <1>H, <2>X, <2>Y
  <2>5. ASSUME NEW i \in 1..n
        PROVE  y[i] = HeadOf(s, c)[k + i]
    <3>1. i \in 1..p - t /\ k + i \in 1..HeadSize(s, c) + Size(s, c) /\ k + i \in 1..HeadSize(s, c)
          /\ t + i = A + (k + i)
      <4>1. t \in Nat /\ p \in Nat
        BY <1>5
      <4>2. i \in 1..p - t /\ k + i \in 1..H + L /\ k + i \in 1..H /\ t + i = A + (k + i)
        BY <1>7, <1>8, <4>1
      <4> QED BY <1>L, <1>S, <4>2
    <3>2. w[i] = FrameByte(s, c, k + i)
      BY <1>5, <1>6, <1>A, <3>1
    <3>3. FrameByte(s, c, k + i) = HeadOf(s, c)[k + i]
      BY <1>6, <3>1, HeadFacts
    <3> QED BY <2>2, <3>2, <3>3
  <2>6. ASSUME NEW i \in 1..e
        PROVE  header[i] = HeadOf(s, c)[i]
    <3>1. CASE i <= k
      <4>1. i \in 1..k
        BY <1>7, <3>1
      <4> QED BY <2>1, <2>3, <2>4, <4>1
    <3>2. CASE ~(i <= k)
      <4>1. i - k \in 1..n /\ k + (i - k) = i
        BY <1>7, <1>8, <1>E, <3>2
      <4>2. (x \o y)[k + (i - k)] = y[i - k]
        BY <2>1, <2>2, <2>3, <4>1
      <4>3. y[i - k] = HeadOf(s, c)[k + (i - k)]
        BY <2>5, <4>1
      <4> QED BY <2>4, <4>1, <4>2, <4>3
    <3> QED BY <3>1, <3>2
  <2> QED BY <1>E, <2>1, <2>2, <2>3, <2>4, <2>6
<1>11. HeaderNeeds(header) = (IF e < 2 THEN 2 ELSE H)
       /\ header = [i \in 1..Len(header) |-> HeadOf(s, c)[i]]
  <2>1. HeaderNeeds(header) = IF e < 2 THEN 2 ELSE HeadSize(s, c)
    <3>1. e <= HeadSize(s, c)
      BY <1>9, <1>S
    <3> QED BY <1>6, <1>9, <1>10, <3>1, NeedsFacts
  <2> QED BY <1>10, <1>S, <2>1 DEF Stream
<1>12. /\ Last(s)' = Last(s)
       /\ \A m : /\ EndOf(s, m)' = EndOf(s, m) /\ Size(s, m)' = Size(s, m)
                 /\ HeadSize(s, m)' = HeadSize(s, m) /\ HeadOf(s, m)' = HeadOf(s, m)
                 /\ MaskOf(s, m)' = MaskOf(s, m)
  BY <1>1, SameFrames
<1>13. /\ Way(o)' /\ wire'[s] = Rest(w, n) /\ FramesInv(s)' /\ SendInv(s)'
       /\ Put(s)' = p /\ Coming(s)' = c
  <2>1. /\ Takes(Other(s), n) /\ UNCHANGED <<send, sent, got>> /\ recv'[s] = recv[s]
        /\ conn'[s] = conn[s] /\ conn'[Other(s)].sending = conn[Other(s)].sending
    BY <1>1, <1>2, <1>O
  <2> QED BY <1>C, <1>O, <1>P, <1>W, <2>1, ReadOthers
<1>14. /\ EndOf(s, Coming(s) - 1)' = A /\ HeadSize(s, Coming(s))' = H /\ Size(s, Coming(s))' = L
       /\ HeadOf(s, Coming(s))' = HeadOf(s, c) /\ MaskOf(s, Coming(s))' = MaskOf(s, c)
       /\ Coming(s)' <= Last(s)' /\ got'[o] \in Seq(Nat) /\ Len(got'[o]) <= Last(s)'
  <2>1. /\ EndOf(s, Coming(s) - 1)' = EndOf(s, c - 1)' /\ HeadSize(s, Coming(s))' = HeadSize(s, c)'
        /\ HeadOf(s, Coming(s))' = HeadOf(s, c)' /\ MaskOf(s, Coming(s))' = MaskOf(s, c)'
        /\ Size(s, Coming(s))' = Size(s, c)'
    BY <1>13 DEF EndOf, HeadSize, Size, HeadOf, MaskOf
  <2>2. c <= Last(s)
    BY <1>6, SizeFacts
  <2>3. got'[o] \in Seq(Nat) /\ Len(got'[o]) <= Last(s)
    BY <1>1, <1>3, <1>O DEF RecvInv
  <2> QED BY <1>12, <1>13, <1>L, <1>S, <1>A, <2>1, <2>2, <2>3
<1>15. ASSUME e < H
       PROVE  RecvInv(s)' /\ Taken(s)' = t + n
  <2>1. q = [r EXCEPT !.header = header]
    <3>1. Len(header) < HeaderNeeds(header) \/ Len(header) < 2
      BY <1>7, <1>9, <1>10, <1>11, <1>15
    <3> QED BY <1>Q, <3>1 DEF WithHeader
  <2>2. /\ q.header = header /\ q.in_frame = FALSE /\ q.frame_len = 0 /\ q.frame_pos = 0
        /\ q.buffer = <<>> /\ q.message_len = 0 /\ q.mask = r.mask
    BY <1>4, <2>1 DEF RecvFields
  <2>3. NothingRead(o)'
    BY <1>2, <2>2 DEF NothingRead
  <2>4. /\ recv'[o].header = [i \in 1..Len(recv'[o].header) |-> HeadOf(s, Coming(s))'[i]]
        /\ Len(recv'[o].header) \in 0..HeadSize(s, Coming(s))' - 1
    BY <1>2, <1>7, <1>9, <1>10, <1>11, <1>14, <1>15, <2>2
  <2>5. recv'[o].buffer = <<>> /\ (o = "client" => recv'[o].mask = <<>>)
    BY <1>2, <1>4, <2>2
  <2>6. RecvInv(s)'
    BY <1>O, <1>2, <1>14, <2>3, <2>4, <2>5 DEF RecvInv
  <2>7. Taken(s)' = A + e
    BY <1>O, <1>2, <1>10, <1>14, <2>2 DEF Taken
  <2> QED BY <1>9, <2>6, <2>7
<1>16. ASSUME e = H
       PROVE  RecvInv(s)' /\ Taken(s)' = t + n
  <2>1. /\ ~(Len(header) < HeaderNeeds(header) \/ Len(header) < 2) /\ 2 \in 1..e
        /\ 2 \in 1..HeadSize(s, c)
    BY <1>7, <1>10, <1>11, <1>16, <1>S
  <2>2. header[2].head.len = L /\ header[2].head.key = MaskOf(s, c)
    BY <1>6, <1>10, <1>L, <2>1, HeadFacts
  <2>M. PICK m : m = IF header[2].head.key = <<>> THEN r.mask ELSE header[2].head.key
    OBVIOUS
  <2>3. q = [r EXCEPT !.header = header, !.in_frame = TRUE, !.frame_len = L, !.mask = m]
    <3>1. q = [r EXCEPT !.header = header, !.in_frame = TRUE,
                 !.frame_len = header[2].head.len,
                 !.mask = IF header[2].head.key = <<>> THEN @ ELSE header[2].head.key]
      BY <1>Q, <2>1 DEF WithHeader
    <3> QED BY <2>2, <2>M, <3>1
  <2>4. m = MaskOf(s, c) /\ (o = "client" => m = <<>>)
    <3>1. CASE s = "client"
      <4>1. MaskOf(s, c) # <<>> /\ o # "client"
        BY <1>0, <1>6, <3>1, HeadFacts
      <4> QED BY <2>2, <2>M, <4>1
    <3>2. CASE s = "server"
      <4>1. o = "client" /\ MaskOf(s, c) = <<>>
        BY <1>0, <1>6, <3>2, HeadFacts DEF Sides
      <4> QED BY <1>4, <2>2, <2>M, <4>1
    <3> QED BY <3>1, <3>2 DEF Sides
  <2>5. /\ q.header = header /\ q.in_frame = TRUE /\ q.frame_len = L /\ q.frame_pos = 0
        /\ q.buffer = <<>> /\ q.message_len = 0 /\ q.mask = m
    <3>1. /\ q.in_frame = TRUE /\ q.frame_len = L /\ q.frame_pos = r.frame_pos
          /\ q.buffer = r.buffer /\ q.message_len = r.message_len /\ q.mask = m
          /\ q.header = header
      BY <1>4, <2>3 DEF RecvFields
    <3> QED BY <1>4, <3>1
  <2>6. HasOf(s, Coming(s), recv[o].frame_pos)'
    <3>1. Message(c, 0) = <<>>
      BY DEF Message
    <3>2. /\ recv'[o].in_frame = TRUE /\ recv'[o].frame_len = L /\ recv'[o].frame_pos = 0
          /\ recv'[o].buffer = Message(Coming(s)', recv'[o].frame_pos) /\ 0 <= BufLen
          /\ recv'[o].message_len = 0 /\ 0 < PreambleLen
      BY <1>2, <1>7, <1>13, <2>5, <3>1, WebSocketAssumption
    <3> QED BY <1>O, <1>14, <3>2 DEF HasOf
  <2>7. RecvInv(s)'
    <3>1. /\ recv'[o].frame_pos = 0 /\ 0 \in 0..Size(s, Coming(s))' - 1
          /\ recv'[o].mask = MaskOf(s, Coming(s))' /\ (o = "client" => recv'[o].mask = <<>>)
      BY <1>2, <1>7, <1>14, <2>4, <2>5
    <3> QED BY <1>O, <1>2, <1>14, <2>6, <3>1 DEF RecvInv
  <2>8. Taken(s)' = A + (H + 0)
    BY <1>O, <1>2, <1>14, <2>5 DEF Taken
  <2> QED BY <1>7, <1>9, <1>16, <2>7, <2>8
<1>17. RecvInv(s)' /\ Taken(s)' = t + n
  BY <1>7, <1>9, <1>15, <1>16
<1>18. WireInv(s)'
  <2>1. /\ n <= Len(wire[s]) /\ wire'[s] = Rest(wire[s], n) /\ sent'[s] = sent[s]
        /\ Put(s)' = Put(s) /\ Taken(s)' = Taken(s) + n /\ n \in Nat
    BY <1>1, <1>8, <1>13, <1>17, <1>P, <1>T, <1>W
  <2> QED BY <1>3, <2>1, ReadStep
<1>19. AloneInv(s)'
  BY <1>1, <1>3, <1>12, <1>13, <1>C DEF AloneInv
<1>20. InOrder(s)'
  BY <1>O, <1>0, <1>2, <1>17, <1>18, <1>19 DEF InOrder
<1>21. Way(s)'
  BY <1>13, <1>20 DEF Way
<1> QED BY <1>O, <1>13, <1>21, WaysTalk

LEMMA UnmaskedFacts ==
  ASSUME NEW r, NEW bytes, Stream(bytes)
  PROVE  /\ Stream(Unmasked(r, bytes)) /\ Len(Unmasked(r, bytes)) = Len(bytes)
         /\ \A i \in 1..Len(bytes) :
              Unmasked(r, bytes)[i] = Xored(bytes[i], Key(r.mask, r.frame_pos + i))
<1> DEFINE n == Len(bytes)
           u == Unmasked(r, bytes)
<1>1. n \in Nat /\ DOMAIN bytes = 1..n
  BY DEF Stream
<1> HIDE DEF n
<1>2. u = [i \in 1..n |-> Xored(bytes[i], Key(r.mask, r.frame_pos + i))]
  BY <1>1 DEF Unmasked
<1> HIDE DEF u
<1>3. u = [i \in 1..n |-> u[i]]
  BY <1>2
<1>4. Len(u) = n
  BY <1>1, <1>3, Streams
<1>5. Stream(u)
  BY <1>1, <1>3, <1>4 DEF Stream
<1> QED BY <1>2, <1>4, <1>5 DEF u, n

\* The bytes of the data that are read are unmasked from where the frame stands, and
\* continue the message, to its end.
Continues(s, c, r, p, bytes) ==
  /\ r.buffer = Message(c, p) /\ r.frame_pos = p /\ r.mask = MaskOf(s, c) /\ Stream(bytes)
  /\ p \in 0..Size(s, c)
  /\ \A i \in 1..Len(bytes) :
       p + i <= Size(s, c) => bytes[i] = FrameByte(s, c, HeadSize(s, c) + (p + i))

LEMMA DataBytes ==
  ASSUME Shapes, NEW s \in Sides, NEW c \in 1..Last(s), NEW r, NEW p, NEW bytes,
         Continues(s, c, r, p, bytes)
  PROVE  /\ Stream(r.buffer \o Unmasked(r, bytes))
         /\ Len(r.buffer \o Unmasked(r, bytes)) = p + Len(bytes)
         /\ \A i \in 1..p + Len(bytes) : i <= Size(s, c) =>
              (r.buffer \o Unmasked(r, bytes))[i] = [data |-> c, at |-> i, mask |-> <<>>]
<1>L. PICK L : L = Size(s, c)
  OBVIOUS
<1>H. PICK H : H = HeadSize(s, c)
  OBVIOUS
<1>M. PICK m : m = MaskOf(s, c)
  OBVIOUS
<1>N. PICK n : n = Len(bytes)
  OBVIOUS
<1>X. PICK x : x = r.buffer
  OBVIOUS
<1>Y. PICK y : y = Unmasked(r, bytes)
  OBVIOUS
<1>1. /\ x = Message(c, p) /\ r.frame_pos = p /\ r.mask = m /\ Stream(bytes) /\ p \in 0..L
      /\ \A i \in 1..n : p + i <= L => bytes[i] = FrameByte(s, c, H + (p + i))
  BY <1>L, <1>H, <1>M, <1>N, <1>X DEF Continues
<1>2. L \in Nat /\ H \in Nat /\ n \in Nat /\ p \in Nat
  <2>1. L \in Nat
    BY <1>L, SizeFacts
  <2> QED BY <1>1, <1>H, <1>N, <2>1, HeadSizes DEF Stream
<1>3. Stream(x) /\ Len(x) = p /\ \A i \in 1..p : x[i] = [data |-> c, at |-> i, mask |-> <<>>]
  BY <1>1, <1>2, MessageFacts
<1>4. Stream(y) /\ Len(y) = n /\ \A i \in 1..n : y[i] = Xored(bytes[i], Key(m, p + i))
  BY <1>1, <1>N, <1>Y, UnmaskedFacts
<1>5. /\ Stream(x \o y) /\ Len(x \o y) = p + n
      /\ \A i \in 1..p : (x \o y)[i] = x[i]
      /\ \A i \in 1..n : (x \o y)[p + i] = y[i]
  <2>1. \A g : Stream(g) => /\ Stream(x \o g) /\ Len(x \o g) = Len(x) + Len(g)
                            /\ \A i \in 1..Len(x) : (x \o g)[i] = x[i]
                            /\ \A i \in 1..Len(g) : (x \o g)[Len(x) + i] = g[i]
    <3>1. Stream(x)
      BY <1>3
    <3> QED BY <3>1, StreamFacts
  <2> QED BY <1>3, <1>4, <2>1
<1>6. ASSUME NEW i \in 1..n, p + i <= L
      PROVE  y[i] = [data |-> c, at |-> p + i, mask |-> <<>>]
  <2>1. p + i \in 1..L
    BY <1>2, <1>6
  <2>2. bytes[i] = [data |-> c, at |-> p + i, mask |-> Key(m, p + i)]
    <3>1. bytes[i] = FrameByte(s, c, H + (p + i))
      BY <1>1, <1>6
    <3>2. FrameByte(s, c, HeadSize(s, c) + (p + i))
            = [data |-> c, at |-> p + i, mask |-> Key(MaskOf(s, c), p + i)]
      BY <1>L, <2>1, HeadFacts
    <3> QED BY <1>H, <1>M, <3>1, <3>2
  <2>3. Xored([data |-> c, at |-> p + i, mask |-> Key(m, p + i)], Key(m, p + i))
          = [data |-> c, at |-> p + i, mask |-> <<>>]
    BY Masking
  <2> QED BY <1>4, <2>2, <2>3
<1>7. ASSUME NEW i \in 1..p + n, i <= L
      PROVE  (x \o y)[i] = [data |-> c, at |-> i, mask |-> <<>>]
  <2>1. CASE i <= p
    <3>1. i \in 1..p
      BY <1>2, <2>1
    <3> QED BY <1>3, <1>5, <3>1
  <2>2. CASE ~(i <= p)
    <3>1. PICK d : d = i - p
      OBVIOUS
    <3>2. d \in 1..n /\ p + d = i
      BY <1>2, <2>2, <3>1
    <3> QED BY <1>5, <1>6, <1>7, <3>2
  <2> QED BY <2>1, <2>2
<1> QED BY <1>5, <1>7, <1>L, <1>N, <1>X, <1>Y

\* The preamble names the message, and its length is known from then on.
Begins(s, c, q, e) ==
  /\ Stream(q.buffer) /\ Len(q.buffer) = e /\ e > 0
  /\ \A i \in 1..e : i <= Size(s, c) =>
       q.buffer[i] = [data |-> c, at |-> i, mask |-> <<>>]
  /\ q.message_len = 0 \/ (q.message_len = Size(s, c) /\ e >= PreambleLen)

LEMMA LengthFacts ==
  ASSUME Shapes, NEW s \in Sides, NEW c \in 1..Last(s), NEW q, NEW e, Begins(s, c, q, e)
  PROVE  LengthOf(Other(s), q) = {IF e < PreambleLen THEN 0 ELSE Size(s, c)}
<1>L. PICK L : L = Size(s, c)
  OBVIOUS
<1>B. PICK b : b = q.buffer
  OBVIOUS
<1>1. /\ L \in Nat \ {0} /\ PreambleLen \in Nat \ {0} /\ PreambleLen <= L
      /\ Len(b) = e /\ e \in Nat \ {0}
      /\ \A i \in 1..e : i <= L => b[i] = [data |-> c, at |-> i, mask |-> <<>>]
      /\ q.message_len = 0 \/ (q.message_len = L /\ e >= PreambleLen)
  <2>1. L \in Nat \ {0} /\ PreambleLen \in Nat \ {0} /\ PreambleLen <= L
    BY <1>L, SizeFacts, WebSocketAssumption
  <2>2. Len(b) = e /\ e \in Nat \ {0}
    BY <1>B DEF Begins, Stream
  <2> QED BY <1>L, <1>B, <2>1, <2>2 DEF Begins
<1>2. DOMAIN sent[s] = 1..Last(s) /\ sent[s][c].len = L /\ Other(Other(s)) = s
  BY <1>L, SizeFacts, Others DEF Size
<1>3. CASE q.message_len # 0 \/ e < PreambleLen
  <2>1. LengthOf(Other(s), q) = {q.message_len}
    BY <1>1, <1>3, <1>B DEF LengthOf
  <2> QED BY <1>1, <1>3, <1>L, <2>1
<1>4. CASE q.message_len = 0 /\ ~(e < PreambleLen)
  <2>1. PICK I : I = {i \in 1..Last(s) : \A k \in 1..PreambleLen :
                        b[k] = [data |-> i, at |-> k, mask |-> <<>>]}
    OBVIOUS
  <2>2. LengthOf(Other(s), q) = {sent[s][i].len : i \in I}
    <3> DEFINE J == {i \in DOMAIN sent[Other(Other(s))] : \A k \in 1..PreambleLen :
                       q.buffer[k] = [data |-> i, at |-> k, mask |-> <<>>]}
    <3>1. ~(q.message_len # 0 \/ Len(q.buffer) < PreambleLen)
      BY <1>1, <1>4, <1>B
    <3>2. LengthOf(Other(s), q) = {sent[Other(Other(s))][i].len : i \in J}
      BY <3>1, Zenon DEF LengthOf
    <3>3. J = I
      BY <1>2, <1>B, <2>1
    <3> HIDE DEF J
    <3> QED BY <1>2, <3>2, <3>3, Zenon
  <2>3. \A k \in 1..PreambleLen : b[k] = [data |-> c, at |-> k, mask |-> <<>>]
    <3>1. ASSUME NEW k \in 1..PreambleLen
          PROVE  k \in 1..e /\ k <= L
      BY <1>1, <1>4
    <3> QED BY <1>1, <3>1
  <2>4. c \in I
    BY <2>1, <2>3
  <2>5. ASSUME NEW i \in I
        PROVE  i = c
    <3>1. 1 \in 1..PreambleLen
      BY <1>1
    <3>2. b[1] = [data |-> i, at |-> 1, mask |-> <<>>] /\ b[1] = [data |-> c, at |-> 1, mask |-> <<>>]
      BY <2>1, <2>3, <3>1
    <3> QED BY <3>2
  <2>6. LengthOf(Other(s), q) = {sent[s][c].len}
    BY <2>2, <2>4, <2>5
  <2> QED BY <1>2, <1>4, <1>L, <2>6
<1> QED BY <1>1, <1>3, <1>4

\* What recv2 leaves, whether it knows the length or not.
LEMMA LookFacts ==
  ASSUME Shapes, NEW o \in Sides, NEW q, RecvFields(q), NEW len, LengthOf(o, q) = {len}, Looks(o, q)
  PROVE  /\ recv'[o].buffer = q.buffer /\ recv'[o].frame_pos = q.frame_pos
         /\ recv'[o].message_len = len /\ recv'[o].in_frame = q.in_frame
         /\ recv'[o].frame_len = q.frame_len /\ recv'[o].mask = q.mask
         /\ recv'[Other(o)] = recv[Other(o)] /\ conn'[Other(o)] = conn[Other(o)]
         /\ conn'[o].receiving = ReceivedFlag(q, len) /\ conn'[o].state = conn[o].state
         /\ conn'[o].sending = conn[o].sending
<1>H. PICK h : h = [q EXCEPT !.message_len = len]
  OBVIOUS
<1>1. recv' = [recv EXCEPT ![o] = h] /\ conn' = [conn EXCEPT ![o].receiving = ReceivedFlag(q, len)]
  BY <1>H DEF Looks
<1>2. /\ h.buffer = q.buffer /\ h.frame_pos = q.frame_pos /\ h.message_len = len
      /\ h.in_frame = q.in_frame /\ h.frame_len = q.frame_len /\ h.mask = q.mask
  BY <1>H DEF RecvFields
<1>3. Other(o) \in Sides /\ Other(o) # o
  BY Others
<1>4. recv'[o] = h /\ recv'[Other(o)] = recv[Other(o)]
  BY <1>1, <1>3 DEF Shapes, RecvShape
<1>5. /\ conn'[Other(o)] = conn[Other(o)]
      /\ conn'[o].receiving = ReceivedFlag(q, len) /\ conn'[o].state = conn[o].state
      /\ conn'[o].sending = conn[o].sending
  BY <1>1, <1>3 DEF Shapes, ConnShape
<1> QED BY <1>2, <1>4, <1>5

\* The first byte of a header is no byte of a message, under whatever mask.
LEMMA HeadByte ==
  ASSUME NEW s \in Sides, NEW n, NEW mask
  PROVE  "data" \notin DOMAIN Xored(HeadOf(s, n)[1], mask)
<1>H. PICK h : \E x : h = [head |-> x, at |-> 1, mask |-> <<>>] /\ h = HeadOf(s, n)[1]
  <2>1. 1 \in 1..HeaderLen(Size(s, n) > ShortMax, MaskOf(s, n) # <<>>)
    <3>1. MaskLen \in Nat
      BY WebSocketAssumption
    <3> QED BY <3>1, SMTT(40) DEF HeaderLen
  <2> QED BY <2>1 DEF HeadOf, Header
<1>X. PICK x : h = [head |-> x, at |-> 1, mask |-> <<>>]
  BY <1>H
<1>1. DOMAIN h = {"head", "at", "mask"}
  BY <1>X
<1>2. DOMAIN Xored(h, mask) = DOMAIN h
  BY DEF Xored
<1> QED BY <1>1, <1>2, <1>H

\* More of the data: the message is shown to the application with its last byte.  When what
\* is read goes on into the frame behind, that frame's message was not sent alone.
LEMMA DataReadStep ==
  ASSUME Shapes, TalkInv, NEW s \in Sides, InOrder(s), ReadData(Other(s))
  PROVE  TalkInv'
<1>O. PICK o : o = Other(s)
  OBVIOUS
<1>R. PICK r : r = Kept(o)
  OBVIOUS
<1>C. PICK c : c = Coming(s)
  OBVIOUS
<1>T. PICK t : t = Taken(s)
  OBVIOUS
<1>P. PICK b : b = Put(s)
  OBVIOUS
<1>W. PICK w : w = wire[s]
  OBVIOUS
<1>F. PICK p : p = r.frame_pos
  OBVIOUS
<1>0. o \in Sides /\ Other(o) = s /\ s # o /\ Way(s) /\ conn[o].state = "open"
  BY <1>O, Others, TalkWays DEF InOrder
<1>1. PICK n \in 0..LeastOf(DataAsked(r), Len(w)) :
        /\ Receiving(o) /\ r.in_frame /\ (n > 0 \/ conn[o].receiving = "consumed")
        /\ Looks(o, Given(r, SubSeq(w, 1, n)))
        /\ Takes(o, n)
        /\ UNCHANGED <<send, sent, got>>
  BY <1>O, <1>R, <1>W, <1>0 DEF ReadData
<1>B. PICK bytes : bytes = SubSeq(w, 1, n)
  OBVIOUS
<1>Q. PICK q : q = Given(r, bytes)
  OBVIOUS
<1>E. PICK e : e = p + n
  OBVIOUS
<1>L. PICK L : L = Size(s, c)
  OBVIOUS
<1>S. PICK H : H = HeadSize(s, c)
  OBVIOUS
<1>A. PICK A : A = EndOf(s, c - 1)
  OBVIOUS
<1>2. FramesInv(s) /\ SendInv(s) /\ RecvInv(s) /\ WireInv(s) /\ AloneInv(s)
  BY <1>0 DEF Way, InOrder
<1>3. /\ RecvFields(r) /\ (o = "client" => r.mask = <<>>)
      /\ conn[o].receiving = "requested" /\ c <= Last(s) /\ r.mask = MaskOf(s, c)
      /\ p \in 0..L - 1 /\ HasOf(s, c, p) /\ r = recv[o] /\ t = A + (H + p)
  <2>1. RecvFields(r) /\ (o = "client" => r.mask = <<>>) /\ (AtHeader(s, c, r) \/ AtData(s, c, r))
    <3>1. FramesInv(s) /\ RecvInv(s) /\ Receiving(o)
      BY <1>1, <1>2
    <3> QED BY <3>1, <1>O, <1>R, <1>C, KeptFacts
  <2>2. ~AtHeader(s, c, r)
    BY <1>1 DEF AtHeader
  <2> QED BY <1>O, <1>T, <1>F, <1>L, <1>S, <1>A, <2>1, <2>2 DEF AtData
<1>4. c \in 1..Last(s)
  BY <1>2, <1>3, <1>C, TakenFacts
<1>5. /\ L \in Nat \ {0} /\ L >= PreambleLen /\ PreambleLen \in Nat \ {0} /\ H \in Nat /\ A \in Nat
      /\ p \in Nat /\ p < L
  <2>1. L \in Nat \ {0} /\ L >= PreambleLen /\ PreambleLen \in Nat \ {0}
    BY <1>4, <1>L, SizeFacts, WebSocketAssumption
  <2>2. H \in Nat /\ A \in Nat
    BY <1>2, <1>4, <1>S, <1>A, HeadSizes, FrameFacts
  <2> QED BY <1>3, <2>1, <2>2
<1>6. /\ t \in Nat /\ b \in Nat /\ t <= b /\ Stream(w) /\ Len(w) = b - t
      /\ \A i \in 1..b - t : \A m \in 1..Last(s) :
           \A j \in 1..HeadSize(s, m) + Size(s, m) :
             t + i = EndOf(s, m - 1) + j => w[i] = FrameByte(s, m, j)
  BY <1>2, <1>T, <1>P, <1>W, WireFacts
<1>7. /\ r.buffer = Message(c, p) /\ r.in_frame = TRUE /\ r.frame_len = L
      /\ r.message_len = (IF p < PreambleLen THEN 0 ELSE L) /\ p <= BufLen
  BY <1>O, <1>3, <1>L DEF HasOf
<1>8. Len(r.buffer) = p
  BY <1>5, <1>7, MessageFacts
<1>9. /\ n \in Nat \ {0} /\ n <= b - t /\ e \in Nat /\ e > p /\ e <= BufLen
      /\ t + n = A + (H + e)
  <2>1. n > 0
    BY <1>1, <1>3
  <2>2. Asked(r) \in Int /\ p + Asked(r) <= BufLen
    <3>1. BufLen \in Nat /\ FirstRead \in Nat /\ PreambleLen + FirstRead <= BufLen
      BY WebSocketAssumption
    <3>2. CASE r.message_len = 0
      <4>1. Asked(r) = FirstRead
        BY <3>2 DEF Asked
      <4>2. p < PreambleLen
        BY <1>5, <1>7, <3>2
      <4> QED BY <1>5, <3>1, <4>1, <4>2
    <3>3. CASE r.message_len # 0
      <4>1. Asked(r) = BufLen - p
        BY <1>8, <3>3 DEF Asked
      <4> QED BY <1>5, <1>7, <3>1, <4>1
    <3> QED BY <3>2, <3>3
  <2>3. DataAsked(r) \in Int /\ DataAsked(r) <= Asked(r)
    <3>1. r.frame_len = L /\ Len(r.buffer) = p /\ r.frame_pos = p
      BY <1>7, <1>8, <1>F
    <3>2. ~(L + p < p) /\ L + p - p \in Int
      BY <1>5
    <3>3. DataAsked(r) = LeastOf(L + p - p, Asked(r))
      BY <3>1, <3>2 DEF DataAsked
    <3> QED BY <2>2, <3>2, <3>3 DEF LeastOf
  <2>D. PICK d : d = DataAsked(r)
    OBVIOUS
  <2>X. PICK x : x = Asked(r)
    OBVIOUS
  <2>4. n \in 0..LeastOf(d, b - t) /\ d \in Int /\ x \in Int /\ d <= x /\ p + x <= BufLen
        /\ BufLen \in Nat
    BY <1>1, <1>6, <2>2, <2>3, <2>D, <2>X, WebSocketAssumption
  <2>5. n \in Nat \ {0} /\ n <= b - t /\ n <= d
    BY <1>6, <2>1, <2>4 DEF LeastOf
  <2> QED BY <1>3, <1>5, <1>6, <1>E, <2>4, <2>5
<1>10. Stream(bytes) /\ Len(bytes) = n /\ \A i \in 1..n : bytes[i] = w[i]
  <2>1. n \in 0..Len(w)
    BY <1>6, <1>9
  <2> QED BY <1>6, <1>B, <2>1, StreamFacts
<1>11. Continues(s, c, r, p, bytes)
  <2>1. ASSUME NEW i \in 1..n, p + i <= L
        PROVE  bytes[i] = FrameByte(s, c, H + (p + i))
    <3>1. i \in 1..b - t /\ H + (p + i) \in 1..H + L /\ t + i = A + (H + (p + i))
      BY <1>3, <1>5, <1>6, <1>9, <2>1
    <3>2. w[i] = FrameByte(s, c, H + (p + i))
      BY <1>4, <1>6, <1>L, <1>S, <1>A, <3>1
    <3> QED BY <1>10, <3>2
  <2>2. p \in 0..L
    BY <1>5
  <2> QED BY <1>3, <1>7, <1>10, <1>F, <1>L, <1>S, <2>1, <2>2 DEF Continues
<1>G. PICK g : g = r.buffer \o Unmasked(r, bytes)
  OBVIOUS
<1>12. Stream(g) /\ Len(g) = e /\ \A i \in 1..e : i <= L => g[i] = [data |-> c, at |-> i, mask |-> <<>>]
  <2>1. Stream(g) /\ Len(g) = p + Len(bytes)
        /\ \A i \in 1..p + Len(bytes) : i <= Size(s, c) =>
             g[i] = [data |-> c, at |-> i, mask |-> <<>>]
    BY <1>4, <1>11, <1>G, DataBytes
  <2> QED BY <1>10, <1>E, <1>L, <2>1
<1>13. /\ RecvFields(q) /\ q.buffer = g /\ q.frame_pos = e /\ q.message_len = r.message_len
       /\ q.in_frame = TRUE /\ q.frame_len = L /\ q.mask = r.mask
  <2>1. /\ RecvFields(q) /\ q.buffer = r.buffer \o Unmasked(r, bytes)
        /\ q.frame_pos = r.frame_pos + Len(bytes) /\ q.message_len = r.message_len
        /\ q.in_frame = r.in_frame /\ q.mask = r.mask /\ q.frame_len = r.frame_len
    <3>1. RecvFields(r)
      BY <1>3
    <3> QED BY <1>Q, <3>1, GivenShape
  <2> QED BY <1>7, <1>10, <1>E, <1>F, <1>G, <2>1
<1>M. PICK len : len = IF e < PreambleLen THEN 0 ELSE L
  OBVIOUS
<1>14. LengthOf(o, q) = {len}
  <2>1. q.message_len = 0 \/ (q.message_len = L /\ e >= PreambleLen)
    BY <1>5, <1>7, <1>9, <1>13
  <2>2. e > 0
    BY <1>5, <1>9
  <2>3. Begins(s, c, q, e)
    BY <1>12, <1>13, <1>L, <2>1, <2>2 DEF Begins
  <2> QED BY <1>4, <1>O, <1>L, <1>M, <2>3, LengthFacts
<1>15. /\ recv'[o].buffer = g /\ recv'[o].frame_pos = e
       /\ recv'[o].message_len = len /\ recv'[o].in_frame = TRUE
       /\ recv'[o].frame_len = L /\ recv'[o].mask = r.mask
       /\ recv'[s] = recv[s] /\ conn'[s] = conn[s]
       /\ conn'[o].receiving = ReceivedFlag(q, len) /\ conn'[o].state = "open"
       /\ conn'[o].sending = conn[o].sending
  <2>1. Looks(o, q)
    BY <1>1, <1>B, <1>Q
  <2> QED BY <1>0, <1>13, <1>14, <2>1, LookFacts
<1>16. ReceivedFlag(q, len) = IF e >= L THEN "received" ELSE "requested"
  <2>1. Len(q.buffer) = e
    BY <1>12, <1>13
  <2> QED BY <1>5, <1>9, <1>M, <2>1 DEF ReceivedFlag
<1>17. /\ Last(s)' = Last(s)
       /\ \A m : /\ EndOf(s, m)' = EndOf(s, m) /\ Size(s, m)' = Size(s, m)
                 /\ HeadSize(s, m)' = HeadSize(s, m) /\ MaskOf(s, m)' = MaskOf(s, m)
  BY <1>1, SameFrames
<1>18. /\ Way(o)' /\ wire'[s] = Rest(w, n) /\ FramesInv(s)' /\ SendInv(s)'
       /\ Put(s)' = b /\ Coming(s)' = c
  <2>1. /\ Takes(Other(s), n) /\ UNCHANGED <<send, sent, got>> /\ recv'[s] = recv[s]
        /\ conn'[s] = conn[s] /\ conn'[Other(s)].sending = conn[Other(s)].sending
    BY <1>1, <1>15, <1>O
  <2> QED BY <1>C, <1>O, <1>P, <1>W, <2>1, ReadOthers
<1>19. ASSUME e <= L
       PROVE  InOrder(s)'
  <2>1. /\ EndOf(s, Coming(s) - 1)' = A /\ HeadSize(s, Coming(s))' = H /\ Size(s, Coming(s))' = L
        /\ MaskOf(s, Coming(s))' = MaskOf(s, c)
        /\ Coming(s)' <= Last(s)' /\ got'[o] \in Seq(Nat) /\ Len(got'[o]) <= Last(s)'
    <3>1. /\ EndOf(s, Coming(s) - 1)' = EndOf(s, c - 1)' /\ HeadSize(s, Coming(s))' = HeadSize(s, c)'
          /\ MaskOf(s, Coming(s))' = MaskOf(s, c)' /\ Size(s, Coming(s))' = Size(s, c)'
      BY <1>18 DEF EndOf, HeadSize, Size, MaskOf
    <3>2. got'[o] \in Seq(Nat) /\ Len(got'[o]) <= Last(s)
      BY <1>1, <1>2, <1>O DEF RecvInv
    <3> QED BY <1>3, <1>17, <1>18, <1>L, <1>S, <1>A, <3>1, <3>2
  <2>2. g = Message(c, e)
    <3>1. \A i \in 1..e : g[i] = [data |-> c, at |-> i, mask |-> <<>>]
      BY <1>5, <1>9, <1>12, <1>19
    <3>2. g = [i \in 1..e |-> g[i]]
      BY <1>12 DEF Stream
    <3> QED BY <3>1, <3>2 DEF Message
  <2>3. HasOf(s, Coming(s), recv[o].frame_pos)'
    <3>1. /\ recv'[o].in_frame = TRUE /\ recv'[o].frame_len = Size(s, Coming(s))'
          /\ recv'[o].buffer = Message(Coming(s)', recv'[o].frame_pos)
          /\ recv'[o].frame_pos <= BufLen
          /\ recv'[o].message_len
               = IF recv'[o].frame_pos < PreambleLen THEN 0 ELSE Size(s, Coming(s))'
      BY <1>9, <1>15, <1>18, <1>M, <2>1, <2>2
    <3> QED BY <1>O, <3>1 DEF HasOf
  <2>4. (o = "client" => recv'[o].mask = <<>>) /\ recv'[o].mask = MaskOf(s, Coming(s))'
    BY <1>3, <1>15, <2>1
  <2>5. RecvInv(s)'
    <3>1. CASE e = L
      <4>1. conn'[o].receiving = "received" /\ recv'[o].frame_pos = Size(s, Coming(s))'
        BY <1>5, <1>15, <1>16, <2>1, <3>1
      <4>2. HasOf(s, Coming(s), Size(s, Coming(s)))'
        BY <2>3, <4>1
      <4> QED BY <1>O, <2>1, <2>4, <4>1, <4>2 DEF RecvInv
    <3>2. CASE e # L
      <4>1. conn'[o].receiving = "requested" /\ recv'[o].frame_pos \in 0..Size(s, Coming(s))' - 1
        BY <1>5, <1>9, <1>15, <1>16, <1>19, <2>1, <3>2
      <4> QED BY <1>O, <2>1, <2>3, <2>4, <4>1 DEF RecvInv
    <3> QED BY <3>1, <3>2
  <2>6. Taken(s)' = t + n
    <3>1. conn'[o].receiving # "consumed"
      BY <1>15, <1>16
    <3>2. Taken(s)' = A + (H + e)
      BY <1>O, <1>15, <2>1, <3>1 DEF Taken
    <3> QED BY <1>9, <3>2
  <2>7. WireInv(s)'
    <3>1. /\ n \in Nat /\ n <= Len(wire[s]) /\ wire'[s] = Rest(wire[s], n)
          /\ sent'[s] = sent[s] /\ Put(s)' = Put(s) /\ Taken(s)' = Taken(s) + n
      BY <1>1, <1>6, <1>9, <1>18, <1>P, <1>T, <1>W, <2>6
    <3> QED BY <1>2, <3>1, ReadStep
  <2>8. AloneInv(s)'
    BY <1>1, <1>2, <1>17, <1>18, <1>C DEF AloneInv
  <2> QED BY <1>O, <1>15, <2>5, <2>7, <2>8 DEF InOrder
<1>20. ASSUME ~(e <= L)
       PROVE  Past(s)'
  <2>1. recv'[o].frame_pos > recv'[o].frame_len /\ recv'[o].frame_pos \in Nat
        /\ recv'[o].frame_len \in Nat
        /\ recv'[o].message_len = recv'[o].frame_len
    <3>1. len = L
      BY <1>5, <1>9, <1>20, <1>M
    <3> QED BY <1>5, <1>9, <1>15, <1>20, <3>1
  <2>2. conn'[o].receiving = "received"
    BY <1>5, <1>9, <1>15, <1>16, <1>20
  <2>3. Stream(wire'[s])
    <3>1. Stream(Rest(w, n))
      BY <1>6, <1>9, StreamFacts
    <3> QED BY <1>18, <3>1
  <2>4. Stream(recv'[o].buffer) /\ Len(recv'[o].buffer) = recv'[o].frame_pos
        /\ Len(recv'[o].buffer) <= BufLen
    BY <1>9, <1>12, <1>15
  <2>N. c + 1 \in 1..Last(s)
    <3>1. SUFFICES ASSUME ~(c + 1 \in 1..Last(s)) PROVE FALSE
      OBVIOUS
    <3>2. Last(s) = c
      BY <1>4, <3>1, SizeFacts
    <3>3. b <= EndOf(s, c) /\ EndOf(s, c) = A + H + L
      BY <1>2, <1>4, <1>P, <1>L, <1>S, <1>A, <3>2, PutFacts, FrameFacts
    <3>Z. PICK z : z = EndOf(s, c)
      OBVIOUS
    <3>4. b <= z /\ z = A + H + L
      BY <3>3, <3>Z
    <3> QED BY <1>5, <1>6, <1>9, <1>20, <3>4
  <2>5. \E m \in 1..Last(s) : ~sent[s][m].alone
    <3>1. SUFFICES ASSUME \A m \in 1..Last(s) : sent[s][m].alone PROVE FALSE
      OBVIOUS
    <3>2. Last(s) <= c /\ Last(s) \in Nat
      BY <1>2, <1>C, <3>1, SizeFacts DEF AloneInv
    <3> QED BY <1>4, <2>N, <3>2
  <2>8. Strange(Rest(g, L))
    <3>J. PICK j : j = L - p + 1
      OBVIOUS
    <3>1. j \in 1..n /\ p + j = L + 1 /\ j \in 1..b - t /\ t + j = EndOf(s, c) + 1
      <4>1. EndOf(s, c) = A + H + L
        BY <1>2, <1>4, <1>A, <1>S, <1>L, FrameFacts
      <4> QED BY <1>3, <1>5, <1>6, <1>9, <1>20, <1>E, <3>J, <4>1
    <3>2. bytes[j] = HeadOf(s, c + 1)[1]
      <4>1. PICK d : d = c + 1
        OBVIOUS
      <4>2. d \in 1..Last(s) /\ d - 1 = c
        BY <1>4, <2>N, <4>1
      <4>3. 1 \in 1..HeadSize(s, d) /\ 1 \in 1..HeadSize(s, d) + Size(s, d)
        <5>1. HeadSize(s, d) \in Nat /\ HeadSize(s, d) >= 2
          BY HeadSizes
        <5>2. Size(s, d) \in Nat
          BY <4>2, SizeFacts
        <5> QED BY <5>1, <5>2
      <4>4. w[j] = FrameByte(s, d, 1)
        BY <1>6, <3>1, <4>2, <4>3
      <4>5. FrameByte(s, d, 1) = HeadOf(s, d)[1]
        BY <4>2, <4>3, HeadFacts
      <4> QED BY <1>10, <3>1, <4>1, <4>4, <4>5
    <3>3. g[L + 1] = Xored(bytes[j], Key(r.mask, p + j))
      <4>X. PICK x : x = r.buffer
        OBVIOUS
      <4>Y. PICK y : y = Unmasked(r, bytes)
        OBVIOUS
      <4>1. Stream(x) /\ Len(x) = p
        BY <1>5, <1>7, <4>X, MessageFacts
      <4>2. Stream(y) /\ Len(y) = n /\ y[j] = Xored(bytes[j], Key(r.mask, p + j))
        BY <1>10, <1>F, <3>1, <4>Y, UnmaskedFacts
      <4>3. \A f : Stream(f) => \A i \in 1..Len(f) : (x \o f)[Len(x) + i] = f[i]
        BY <4>1, StreamFacts
      <4>4. (x \o y)[p + j] = y[j]
        BY <3>1, <4>1, <4>2, <4>3
      <4> QED BY <1>G, <3>1, <4>2, <4>4, <4>X, <4>Y
    <3>4. "data" \notin DOMAIN g[L + 1]
      BY <3>2, <3>3, HeadByte
    <3>Z. PICK z : z = Rest(g, L)
      OBVIOUS
    <3>5. z[1] = g[L + 1]
      <4>1. \A i \in 1..Len(g) - L : Rest(g, L)[i] = g[L + i]
        BY <1>5, <1>12, StreamFacts
      <4>2. 1 \in 1..Len(g) - L
        BY <1>5, <1>9, <1>12, <1>20
      <4> QED BY <3>Z, <4>1, <4>2
    <3> QED BY <3>4, <3>5, <3>Z DEF Strange
  <2>6. \E m \in 1..Last(s)' : ~sent'[s][m].alone
    BY <1>1, <1>17, <2>5
  <2>7. Stream(wire[s])' /\ Stream(recv[o].buffer)'
    BY <2>3, <2>4 DEF Stream
  <2>9. Strange(Rest(recv'[o].buffer, recv'[o].frame_len))
    BY <1>15, <2>8
  <2> QED BY <1>O, <1>15, <2>1, <2>2, <2>4, <2>6, <2>7, <2>9 DEF Past
<1>21. Way(s)'
  BY <1>18, <1>19, <1>20 DEF Way
<1> QED BY <1>O, <1>18, <1>21, WaysTalk

-----------------------------------------------------------------------------
(* After a read past the end of a frame *)

\* What the receiver keeps ends no frame, is what it has read past one, and begins no message.
KeptPast(r) ==
  /\ RecvFields(r) /\ r.in_frame = TRUE /\ r.frame_pos \in Nat /\ r.frame_len \in Nat
  /\ r.frame_pos > r.frame_len /\ Stream(r.buffer) /\ Len(r.buffer) <= BufLen
  /\ Len(r.buffer) = r.frame_pos - r.frame_len /\ r.message_len = 0 /\ Strange(r.buffer)

LEMMA KeptPastFacts ==
  ASSUME Shapes, NEW s \in Sides, Past(s), Receiving(Other(s))
  PROVE  KeptPast(Kept(Other(s)))
<1>O. PICK o : o = Other(s)
  OBVIOUS
<1>P. PICK p : p = recv[o]
  OBVIOUS
<1>0. o \in Sides
  BY <1>O, Others
<1>1. /\ RecvFields(p) /\ p.in_frame = TRUE /\ p.frame_pos \in Nat /\ p.frame_len \in Nat
      /\ p.frame_pos > p.frame_len /\ Stream(p.buffer) /\ Len(p.buffer) <= BufLen
      /\ \/ /\ conn[o].receiving = "requested" /\ Len(p.buffer) = p.frame_pos - p.frame_len
            /\ p.message_len = 0 /\ Strange(p.buffer)
         \/ /\ conn[o].receiving \in {"received", "consumed"}
            /\ Len(p.buffer) = p.frame_pos /\ p.message_len = p.frame_len
            /\ Strange(Rest(p.buffer, p.frame_len))
  BY <1>O, <1>P, <1>0 DEF Past, Receiving, Shapes, RecvShape
<1>2. p.frame_pos # p.frame_len /\ Len(p.buffer) \in Nat /\ BufLen \in Nat
  BY <1>1, WebSocketAssumption DEF Stream
<1>3. CASE conn[o].receiving = "requested"
  <2>1. Kept(o) = NextFrame(p)
    BY <1>3, <1>P DEF Kept
  <2>2. Kept(o) = p
    BY <1>1, <1>2, <2>1, NextFrameShape
  <2> QED BY <1>1, <1>3, <1>O, <2>2 DEF KeptPast
<1>4. CASE conn[o].receiving = "consumed"
  <2>Z. PICK z : z = Rest(p.buffer, p.message_len)
    OBVIOUS
  <2>Q. PICK q : q = [p EXCEPT !.buffer = z, !.message_len = 0]
    OBVIOUS
  <2>1. Kept(o) = NextFrame(q)
    BY <1>4, <1>P, <2>Z, <2>Q DEF Kept
  <2>2. /\ RecvFields(q) /\ q.buffer = z /\ q.message_len = 0 /\ q.in_frame = TRUE
        /\ q.frame_len = p.frame_len /\ q.frame_pos = p.frame_pos
    BY <1>1, <2>Q DEF RecvFields
  <2>3. Kept(o) = q
    BY <1>2, <2>1, <2>2, NextFrameShape
  <2>4. /\ Stream(z)
        /\ Len(z) = IF p.message_len <= Len(p.buffer) THEN Len(p.buffer) - p.message_len ELSE 0
    <3>B. PICK b : b = p.buffer
      OBVIOUS
    <3>M. PICK m : m = p.message_len
      OBVIOUS
    <3>1. Stream(b) /\ m \in Nat
      BY <1>1, <1>4, <3>B, <3>M
    <3>2. Stream(Rest(b, m)) /\ Len(Rest(b, m)) = IF m <= Len(b) THEN Len(b) - m ELSE 0
      BY <3>1, StreamFacts
    <3> QED BY <2>Z, <3>2, <3>B, <3>M
  <2>5. Len(z) <= BufLen /\ Len(z) = p.frame_pos - p.frame_len /\ Strange(z)
    <3> DEFINE a == Len(p.buffer)
               b == Len(z)
               x == p.frame_pos
               y == p.frame_len
               m == p.message_len
    <3>1. /\ a \in Nat /\ x \in Nat /\ y \in Nat /\ BufLen \in Nat
          /\ x > y /\ a <= BufLen /\ a = x /\ m = y
      BY <1>1, <1>2, <1>4
    <3>2. b = IF m <= a THEN a - m ELSE 0
      BY <2>4
    <3>3. Strange(z)
      BY <1>1, <1>4, <2>Z
    <3> HIDE DEF a, b, x, y, m
    <3>4. b <= BufLen /\ b = x - y
      BY <3>1, <3>2
    <3> QED BY <3>3, <3>4 DEF b, x, y
  <2> QED BY <1>1, <1>O, <2>2, <2>3, <2>4, <2>5 DEF KeptPast
<1> QED BY <1>3, <1>4, <1>O DEF Receiving

\* Nothing more is asked for.
LEMMA NothingAsked ==
  ASSUME NEW r, KeptPast(r)
  PROVE  DataAsked(r) \in Int /\ DataAsked(r) <= 0
<1> DEFINE a == Len(r.buffer)
           x == r.frame_pos
           y == r.frame_len
           d == Asked(r)
<1>1. x \in Nat /\ y \in Nat /\ a \in Nat /\ a = x - y
  BY DEF KeptPast, Stream
<1>2. d \in Nat
  <2>1. d = FirstRead
    BY DEF KeptPast, Asked
  <2> QED BY <2>1, WebSocketAssumption
<1>3. DataAsked(r) = IF y + a < x THEN d ELSE IF y + a - x <= d THEN y + a - x ELSE d
  BY DEF DataAsked, LeastOf
<1> HIDE DEF a, x, y, d
<1>4. ~(y + a < x) /\ y + a - x = 0
  BY <1>1
<1> QED BY <1>2, <1>3, <1>4

\* A look at what begins no message finds no length, or no message at all.
LEMMA StrangeLook ==
  ASSUME Shapes, NEW o \in Sides, NEW q, RecvFields(q), q.message_len = 0, Strange(q.buffer),
         Stream(q.buffer), Looks(o, q)
  PROVE  /\ recv'[o] = q
         /\ recv'[Other(o)] = recv[Other(o)] /\ conn'[Other(o)] = conn[Other(o)]
         /\ conn'[o].sending = conn[o].sending
         /\ \/ conn'[o].state = "failed" /\ conn'[o].receiving = conn[o].receiving
            \/ conn'[o].state = conn[o].state /\ conn'[o].receiving = "requested"
<1>0. Other(o) \in Sides /\ Other(o) # o
  BY Others
<1>1. CASE Becomes(o, "failed") /\ recv' = [recv EXCEPT ![o] = q]
  <2>1. recv'[o] = q /\ recv'[Other(o)] = recv[Other(o)]
    BY <1>0, <1>1 DEF Shapes, RecvShape
  <2>2. /\ conn'[Other(o)] = conn[Other(o)] /\ conn'[o].receiving = conn[o].receiving
        /\ conn'[o].state = "failed" /\ conn'[o].sending = conn[o].sending
    BY <1>0, <1>1 DEF Shapes, ConnShape, Becomes
  <2> QED BY <2>1, <2>2
<1>2. ASSUME NEW len \in LengthOf(o, q), recv' = [recv EXCEPT ![o] = [q EXCEPT !.message_len = len]],
             conn' = [conn EXCEPT ![o].receiving = ReceivedFlag(q, len)]
      PROVE  /\ recv'[o] = q
             /\ recv'[Other(o)] = recv[Other(o)] /\ conn'[Other(o)] = conn[Other(o)]
             /\ conn'[o].sending = conn[o].sending
             /\ conn'[o].state = conn[o].state /\ conn'[o].receiving = "requested"
  <2>1. PreambleLen \in Nat \ {0} /\ Len(q.buffer) \in Nat
    BY WebSocketAssumption DEF Stream
  <2>2. Len(q.buffer) < PreambleLen
    <3>1. SUFFICES ASSUME ~(Len(q.buffer) < PreambleLen) PROVE FALSE
      OBVIOUS
    <3>2. PICK n \in DOMAIN sent[Other(o)] : \A k \in 1..PreambleLen :
                 q.buffer[k] = [data |-> n, at |-> k, mask |-> <<>>]
      BY <3>1 DEF LengthOf
    <3>3. 1 \in 1..PreambleLen /\ Len(q.buffer) > 0
      BY <2>1, <3>1
    <3>4. q.buffer[1] = [data |-> n, at |-> 1, mask |-> <<>>]
      BY <3>2, <3>3
    <3>5. "data" \in DOMAIN q.buffer[1]
      BY <3>4
    <3> QED BY <3>3, <3>5 DEF Strange
  <2>3. len = 0
    BY <2>2 DEF LengthOf
  <2>4. [q EXCEPT !.message_len = len] = q
    BY <2>3 DEF RecvFields
  <2>5. ReceivedFlag(q, len) = "requested"
    BY <2>3 DEF ReceivedFlag
  <2>6. recv'[o] = q /\ recv'[Other(o)] = recv[Other(o)]
    BY <1>0, <1>2, <2>4 DEF Shapes, RecvShape
  <2>7. /\ conn'[Other(o)] = conn[Other(o)] /\ conn'[o].receiving = "requested"
        /\ conn'[o].state = conn[o].state /\ conn'[o].sending = conn[o].sending
    BY <1>0, <1>2, <2>5 DEF Shapes, ConnShape
  <2> QED BY <2>6, <2>7
<1> QED BY <1>1, <1>2, Zenon DEF Looks

\* It looks for no header again, and what it takes for data brings it no further.
LEMMA PastReadStep ==
  ASSUME Shapes, TalkInv, NEW s \in Sides, Past(s),
         ReadHeader(Other(s)) \/ ReadData(Other(s))
  PROVE  TalkInv'
<1>O. PICK o : o = Other(s)
  OBVIOUS
<1>R. PICK r : r = Kept(o)
  OBVIOUS
<1>W. PICK w : w = wire[s]
  OBVIOUS
<1>0. o \in Sides /\ Other(o) = s /\ s # o /\ Way(s)
  BY <1>O, Others, TalkWays
<1>1. Receiving(o) /\ (ReadHeader(o) => ~r.in_frame)
  BY <1>O, <1>R DEF ReadHeader, ReadData
<1>2. KeptPast(r)
  BY <1>1, <1>O, <1>R, KeptPastFacts
<1>3. ReadData(o)
  BY <1>1, <1>2, <1>O DEF KeptPast
<1>4. PICK n \in 0..LeastOf(DataAsked(r), Len(w)) :
        /\ Looks(o, Given(r, SubSeq(w, 1, n))) /\ Takes(o, n)
        /\ UNCHANGED <<send, sent, got>>
  BY <1>3, <1>R, <1>W, <1>0 DEF ReadData
<1>5. Stream(w) /\ Len(w) \in Nat
  BY <1>0, <1>W, WayStream
<1>6. n = 0
  <2>D. PICK d : d = DataAsked(r)
    OBVIOUS
  <2>1. d \in Int /\ d <= 0 /\ n \in 0..LeastOf(d, Len(w))
    BY <1>2, <2>D, NothingAsked
  <2> QED BY <1>5, <2>1 DEF LeastOf
<1>B. PICK bytes : bytes = SubSeq(w, 1, n)
  OBVIOUS
<1>Q. PICK q : q = Given(r, bytes)
  OBVIOUS
<1>7. Stream(bytes) /\ Len(bytes) = 0
  <2>1. n \in 0..Len(w)
    BY <1>5, <1>6
  <2> QED BY <1>5, <1>6, <1>B, <2>1, StreamFacts
<1>8. /\ RecvFields(r) /\ r.in_frame = TRUE /\ r.frame_pos \in Nat /\ r.frame_len \in Nat
      /\ r.frame_pos > r.frame_len /\ Stream(r.buffer) /\ Len(r.buffer) <= BufLen
      /\ Len(r.buffer) = r.frame_pos - r.frame_len /\ r.message_len = 0 /\ Strange(r.buffer)
  BY <1>2 DEF KeptPast
<1>9. r.buffer \o Unmasked(r, bytes) = r.buffer
  <2>U. PICK u : u = Unmasked(r, bytes)
    OBVIOUS
  <2>1. Stream(u) /\ Len(u) = 0
    BY <1>7, <2>U, UnmaskedFacts
  <2>2. u = <<>>
    BY <2>1, NoBytes
  <2>3. r.buffer \o <<>> = r.buffer
    BY <1>8, NoBytes
  <2> QED BY <2>U, <2>2, <2>3
<1>10. /\ RecvFields(q) /\ q.buffer = r.buffer /\ q.frame_pos = r.frame_pos
       /\ q.message_len = 0 /\ q.in_frame = TRUE /\ q.frame_len = r.frame_len
  <2>1. /\ RecvFields(q) /\ q.buffer = r.buffer \o Unmasked(r, bytes)
        /\ q.frame_pos = r.frame_pos + Len(bytes) /\ q.message_len = r.message_len
        /\ q.in_frame = r.in_frame /\ q.frame_len = r.frame_len
    BY <1>8, <1>Q, GivenShape
  <2> QED BY <1>7, <1>8, <1>9, <2>1
<1>11. /\ recv'[o] = q /\ recv'[s] = recv[s] /\ conn'[s] = conn[s]
       /\ conn'[o].sending = conn[o].sending
       /\ \/ conn'[o].state = "failed" /\ conn'[o].receiving # "no"
          \/ conn'[o].state = "open" /\ conn'[o].receiving = "requested"
  <2>1. Looks(o, q)
    BY <1>4, <1>B, <1>Q
  <2>2. Strange(q.buffer) /\ Stream(q.buffer)
    BY <1>8, <1>10
  <2>3. conn[o].state = "open" /\ conn[o].receiving # "no"
    BY <1>1 DEF Receiving
  <2> QED BY <1>0, <1>10, <2>1, <2>2, <2>3, StrangeLook
<1>12. Way(o)' /\ wire'[s] = Rest(w, n) /\ FramesInv(s)' /\ SendInv(s)'
  <2>1. /\ Takes(Other(s), n) /\ UNCHANGED <<send, sent, got>> /\ recv'[s] = recv[s]
        /\ conn'[s] = conn[s] /\ conn'[Other(s)].sending = conn[Other(s)].sending
    BY <1>4, <1>11, <1>O
  <2> QED BY <1>O, <1>W, <2>1, ReadOthers
<1>13. Past(s)'
  <2>1. Stream(wire'[s])
    <3>1. n \in Nat
      BY <1>6
    <3> QED BY <1>5, <1>12, <3>1, StreamFacts
  <2>2. \E m \in 1..Last(s)' : ~sent'[s][m].alone
    <3>1. Last(s)' = Last(s) /\ sent'[s] = sent[s]
      BY <1>4, SameFrames
    <3> QED BY <3>1 DEF Past
  <2>3. /\ recv'[o].in_frame = TRUE /\ recv'[o].frame_pos \in Nat /\ recv'[o].frame_len \in Nat
        /\ recv'[o].frame_pos > recv'[o].frame_len /\ Stream(recv'[o].buffer)
        /\ Len(recv'[o].buffer) <= BufLen
        /\ Len(recv'[o].buffer) = recv'[o].frame_pos - recv'[o].frame_len
        /\ recv'[o].message_len = 0 /\ Strange(recv'[o].buffer)
    BY <1>8, <1>10, <1>11
  <2>4. Stream(wire[s])' /\ Stream(recv[o].buffer)'
    BY <2>1, <2>3 DEF Stream
  <2>5. conn'[o].state \in {"open", "failed"} /\ conn'[o].receiving # "no"
    BY <1>11
  <2> QED BY <1>O, <1>11, <2>2, <2>3, <2>4, <2>5 DEF Past
<1>14. Way(s)'
  BY <1>12, <1>13 DEF Way
<1> QED BY <1>O, <1>12, <1>14, WaysTalk

-----------------------------------------------------------------------------
(* Every step *)

LEMMA Talking ==
  ASSUME TalkInv, NEW s \in Sides
  PROVE  conn[s].state \in {"open", "failed"}
<1>1. Other(s) \in Sides /\ Other(Other(s)) = s
  BY Others
<1>2. Past(Other(s)) \/ InOrder(Other(s))
  BY <1>1 DEF TalkInv
<1> QED BY <1>1, <1>2 DEF Past, InOrder

\* No text is sent or read any more.
LEMMA NoTexts ==
  ASSUME TalkInv
  PROVE  /\ ~ReadOpening /\ ~ReadRequest /\ ~TextIsTorn /\ ~ReadAnswer
         /\ \A s \in Sides : /\ ~SendText(s) /\ ~ReadText(s) /\ ~TextTooLong(s)
                             /\ ~TextFramed(s) /\ ~TextOverruns(s)
<1>1. \A s \in Sides : ~Connecting(s)
  BY Talking DEF Connecting
<1>2. ~Connecting("client") /\ ~Connecting("server")
  BY <1>1 DEF Sides
<1>3. ~ReadOpening
  BY <1>2, Zenon DEF ReadOpening
<1>4. ~ReadRequest
  BY <1>2, Zenon DEF ReadRequest, LastRead, ReadsText
<1>5. ~TextIsTorn
  BY <1>2, Zenon DEF TextIsTorn, ReadsText
<1>6. ~ReadAnswer
  BY <1>2, Zenon DEF ReadAnswer, LastRead, ReadsText
<1>7. ASSUME NEW s \in Sides
      PROVE  /\ ~SendText(s) /\ ~ReadText(s) /\ ~TextTooLong(s)
             /\ ~TextFramed(s) /\ ~TextOverruns(s)
  <2>1. ~Connecting(s)
    BY <1>1
  <2>2. ~SendText(s) /\ ~TextFramed(s)
    BY <2>1, Zenon DEF SendText, TextFramed
  <2>3. ~ReadText(s) /\ ~TextTooLong(s) /\ ~TextOverruns(s)
    BY <2>1, Zenon DEF ReadText, TextTooLong, TextOverruns, ReadsText
  <2> QED BY <2>2, <2>3
<1> QED BY <1>3, <1>4, <1>5, <1>6, <1>7

LEMMA TalkStep ==
  ASSUME Shapes, TalkInv, Flow
  PROVE  TalkInv'
<1>1. PICK s \in Sides : \/ SendFrame(s) \/ Release(s) \/ SendMessage(s)
                         \/ ReadHeader(s) \/ ReadData(s) \/ Take(s)
  BY NoTexts DEF Flow, Moves
<1>2. PICK t : t = Other(s)
  OBVIOUS
<1>3. t \in Sides /\ Other(t) = s
  BY <1>2, Others
<1>4. CASE SendFrame(s)
  BY <1>4, SendFrameStep
<1>5. CASE Release(s)
  BY <1>5, ReleaseStep
<1>6. CASE SendMessage(s)
  BY <1>6, MessageStep
<1>7. CASE Take(s)
  BY <1>3, <1>7, TakeStep
<1>8. CASE ReadHeader(s) \/ ReadData(s)
  <2>1. CASE Past(t)
    BY <1>3, <1>8, <2>1, PastReadStep
  <2>2. CASE InOrder(t)
    BY <1>3, <1>8, <2>2, HeaderReadStep, DataReadStep
  <2> QED BY <1>3, <2>1, <2>2 DEF TalkInv
<1> QED BY <1>1, <1>4, <1>5, <1>6, <1>7, <1>8

LEMMA SameHandshake ==
  ASSUME HandshakeInv, UNCHANGED <<conn, send, recv, wire, sent, got, lens>>
  PROVE  HandshakeInv'
<1>1. TextOf("client")' = TextOf("client") /\ Text("client")' = Text("client")
      /\ Text("server")' = Text("server")
  BY DEF TextOf, Text
<1>2. NothingYet' /\ TextFlags'
  BY DEF HandshakeInv, NothingYet, NothingRead, TextFlags, Fits
<1>3. RequestInv'
  BY <1>1 DEF HandshakeInv, RequestInv, Unanswered, Answering, Answered, HasRequest, Empty,
              NoFrame, Part
<1>4. AnswerInv'
  BY DEF HandshakeInv, AnswerInv, AnswerPut, Part, TextOf
<1> QED BY <1>2, <1>3, <1>4 DEF HandshakeInv

\* What ends the following says only how: of the session nothing changes.
LEMMA CutsStep ==
  ASSUME IInv, Cuts, UNCHANGED <<flow, lens>>
  PROVE  IInv'
<1>0. UNCHANGED <<conn, send, recv, wire, sent, got, lens>>
  BY DEF flow
<1>1. PICK s \in Sides : TextFramed(s) \/ TextOverruns(s)
  BY DEF Cuts
<1>2. Shapes /\ HandshakeInv
  BY <1>1, NoTexts DEF IInv
<1>3. cut' \in {"framed", "overrun"} /\ (cut' = "overrun" => \E t \in Sides : ~Fits(t))
  <2>1. CASE TextFramed(s)
    BY <2>1 DEF TextFramed
  <2>2. CASE TextOverruns(s)
    <3>1. ~Fits(Other(s)) /\ Other(s) \in Sides
      BY <1>2, <2>2, TextCut, Others
    <3> QED BY <2>2, <3>1 DEF TextOverruns
  <2> QED BY <1>1, <2>1, <2>2
<1>4. (\E t \in Sides : ~Fits(t)) => \E t \in Sides : ~Fits(t)'
  BY <1>0 DEF Fits
<1>5. Shapes'
  <2>1. ConnShape' /\ SendShape' /\ RecvShape'
    BY <1>0, <1>2 DEF Shapes, ConnShape, SendShape, RecvShape
  <2> QED BY <1>0, <1>2, <1>3, <2>1 DEF Shapes
<1>6. HandshakeInv'
  BY <1>0, <1>2, SameHandshake
<1> QED BY <1>3, <1>4, <1>5, <1>6 DEF IInv

\* The invariant is about the variables only.
LEMMA Stutter ==
  ASSUME IInv, UNCHANGED vars
  PROVE  IInv'
<1>0. UNCHANGED <<conn, send, recv, wire, sent, got, lens, cut>>
  BY DEF vars, flow
<1>1. Shapes'
  BY <1>0 DEF IInv, Shapes, ConnShape, SendShape, RecvShape
<1>2. HandshakeInv => HandshakeInv'
  BY <1>0, SameHandshake
<1>3. TalkInv => TalkInv'
  <2>1. ASSUME TalkInv, NEW s \in Sides
        PROVE  Way(s)'
    BY <1>0, <2>1, TalkWays, WayKept
  <2> QED BY <2>1 DEF TalkInv, Way
<1>4. (\E t \in Sides : ~Fits(t)) => \E t \in Sides : ~Fits(t)'
  BY <1>0 DEF Fits
<1> QED BY <1>0, <1>1, <1>2, <1>3, <1>4 DEF IInv

\* What the two sides promise each other about the buffer and the state of s.
SideIntact(s) ==
  /\ Len(recv[s].buffer) <= BufLen
  /\ conn[s].state = "open" /\ ~OverRead(s) =>
       \A i \in DOMAIN recv[s].buffer :
         recv[s].buffer[i] = [data |-> Front(s), at |-> i, mask |-> <<>>]
  /\ conn[s].receiving = "received" /\ ~OverRead(s) =>
       Len(recv[s].buffer) = sent[Other(s)][Front(s)].len
  /\ OverRead(s) => \E n \in DOMAIN sent[Other(s)] : ~sent[Other(s)][n].alone
  /\ conn[s].state = "failed" =>
       \/ OverRead(s)
       \/ sent["client"] = <<>> /\ (s = "server" \/ ~Fits("server"))

LEMMA HandshakeIntact ==
  ASSUME Shapes, HandshakeInv, NEW s \in Sides
  PROVE  SideIntact(s)
<1>1. recv[s].in_frame = FALSE /\ sent["client"] = <<>>
  BY DEF HandshakeInv, NothingYet, NothingRead, Sides
<1>2. ~OverRead(s)
  BY <1>1 DEF OverRead
<1>3. BufLen \in Nat /\ Len(<<>>) = 0 /\ DOMAIN <<>> = {}
  BY WebSocketAssumption
<1>4. CASE s = "client"
  <2>1. Len(recv[s].buffer) <= BufLen /\ conn[s].state # "open"
    BY <1>4 DEF HandshakeInv, AnswerInv
  <2>2. conn[s].receiving = "no" /\ (conn[s].state = "failed" => ~Fits("server"))
    BY <1>4, <2>1 DEF HandshakeInv, TextFlags
  <2> QED BY <1>1, <1>2, <2>1, <2>2 DEF SideIntact
<1>5. CASE s = "server"
  <2>1. Unanswered \/ Answering \/ Answered
    BY DEF HandshakeInv, RequestInv
  <2>2. Len(recv[s].buffer) <= BufLen
    BY <1>3, <1>5, <2>1 DEF Unanswered, Answering, Answered, HasRequest
  <2>3. conn[s].receiving \in {"no", "requested"}
    <3>1. conn[s].state # "open" => conn[s].receiving = "no"
      BY DEF HandshakeInv, TextFlags
    <3>2. conn[s].state # "open" \/ conn[s].receiving = "requested"
      BY <1>5, <2>1 DEF Unanswered, Answering, Answered
    <3> QED BY <3>1, <3>2
  <2>4. conn[s].state = "open" => recv[s].buffer = <<>>
    BY <1>5, <2>1 DEF Unanswered, Answering, Answered, HasRequest
  <2> QED BY <1>1, <1>2, <1>3, <1>5, <2>2, <2>3, <2>4 DEF SideIntact
<1> QED BY <1>4, <1>5 DEF Sides

\* With a part of the message that comes, or that has been consumed, in the buffer.
LEMMA BufferIntact ==
  ASSUME Shapes, NEW s \in Sides, NEW n, NEW k \in Nat, HasOf(Other(s), n, k), n = Front(s),
         n \in 1..Last(Other(s)), k <= Size(Other(s), n), conn[s].state = "open",
         conn[s].receiving = "received" => k = Size(Other(s), n)
  PROVE  SideIntact(s)
<1>T. PICK t : t = Other(s)
  OBVIOUS
<1>0. t \in Sides /\ Other(t) = s
  BY <1>T, Others
<1>L. PICK L : L = Size(t, n)
  OBVIOUS
<1>1. /\ recv[s].frame_len = L /\ recv[s].frame_pos = k /\ recv[s].buffer = Message(n, k)
      /\ k <= BufLen
  BY <1>0, <1>L, <1>T DEF HasOf
<1>2. L \in Nat /\ k <= L
  BY <1>0, <1>L, <1>T, SizeFacts
<1>3. ~OverRead(s)
  BY <1>1, <1>2 DEF OverRead
<1>4. /\ Len(recv[s].buffer) = k
      /\ \A i \in DOMAIN recv[s].buffer :
           recv[s].buffer[i] = [data |-> n, at |-> i, mask |-> <<>>]
  <2>1. /\ Len(Message(n, k)) = k /\ DOMAIN Message(n, k) = 1..k
        /\ \A i \in 1..k : Message(n, k)[i] = [data |-> n, at |-> i, mask |-> <<>>]
    BY MessageFacts
  <2>2. recv[s].buffer = Message(n, k)
    BY <1>1
  <2> QED BY <2>1, <2>2
<1>5. conn[s].receiving = "received" => Len(recv[s].buffer) = sent[t][n].len
  BY <1>4, <1>T DEF Size
<1> QED BY <1>1, <1>3, <1>4, <1>5, <1>T DEF SideIntact

LEMMA TalkIntact ==
  ASSUME Shapes, TalkInv, NEW s \in Sides
  PROVE  SideIntact(s)
<1>T. PICK t : t = Other(s)
  OBVIOUS
<1>0. t \in Sides /\ Other(t) = s /\ (Past(t) \/ InOrder(t))
  BY <1>T, Others DEF TalkInv
<1>1. CASE Past(t)
  <2>1. OverRead(s) /\ Len(recv[s].buffer) <= BufLen
    BY <1>0, <1>1 DEF Past, OverRead
  <2>2. \E n \in DOMAIN sent[t] : ~sent[t][n].alone
    BY <1>0, <1>1, SizeFacts DEF Past
  <2> QED BY <1>T, <2>1, <2>2 DEF SideIntact
<1>2. CASE InOrder(t)
  <2>C. PICK c : c = Coming(t)
    OBVIOUS
  <2>1. conn[s].state = "open" /\ RecvInv(t)
    BY <1>0, <1>2 DEF InOrder
  <2>G. PICK g : g = Len(got[s])
    OBVIOUS
  <2>2. g \in 0..Last(t) /\ c = g + 1 /\ (c <= Last(t) => c \in 1..Last(t))
    <3>1. FramesInv(t)
      BY <1>0 DEF TalkInv
    <3> QED BY <1>0, <2>1, <2>C, <2>G, <3>1, TakenFacts DEF Coming
  <2>3. CASE NothingRead(s) /\ conn[s].receiving = "requested"
    <3>1. recv[s].buffer = <<>> /\ ~OverRead(s)
      BY <1>0, <2>1, <2>3 DEF RecvInv, NothingRead, HasOf, OverRead
    <3>2. BufLen \in Nat /\ Len(<<>>) = 0 /\ DOMAIN <<>> = {}
      BY WebSocketAssumption
    <3> QED BY <2>1, <2>3, <3>1, <3>2 DEF SideIntact
  <2>4. CASE /\ conn[s].receiving \in {"requested", "received"} /\ c <= Last(t)
             /\ \E k \in 0..Size(t, c) : /\ HasOf(t, c, k)
                                         /\ conn[s].receiving = "received" => k = Size(t, c)
    <3>1. PICK k \in 0..Size(t, c) : HasOf(t, c, k)
                                     /\ (conn[s].receiving = "received" => k = Size(t, c))
      BY <2>4
    <3>2. c \in 1..Last(t) /\ Size(t, c) \in Nat
      BY <1>0, <2>2, <2>4, SizeFacts
    <3>3. k \in Nat /\ k <= Size(t, c)
      BY <3>2
    <3>4. c = Front(s)
      BY <2>2, <2>4, <2>G DEF Front
    <3> QED BY <1>T, <2>1, <3>1, <3>2, <3>3, <3>4, BufferIntact
  <2>5. CASE conn[s].receiving = "consumed" /\ got[s] # <<>> /\ HasOf(t, g, Size(t, g))
    <3>1. g \in 1..Last(t)
      <4>1. got[s] \in Seq(Nat)
        BY <1>0, <2>1 DEF RecvInv
      <4>2. g # 0
        BY <2>5, <2>G, <4>1, EmptySeq
      <4> QED BY <2>2, <4>2
    <3>2. Size(t, g) \in Nat /\ Size(t, g) <= Size(t, g)
      BY <1>0, <3>1, SizeFacts
    <3>3. g = Front(s)
      <4>1. g + 0 = g
        BY <2>2
      <4> QED BY <2>5, <2>G, <4>1 DEF Front
    <3> QED BY <1>T, <2>1, <2>5, <3>1, <3>2, <3>3, BufferIntact
  <2>6. \/ conn[s].receiving = "requested" /\ NothingRead(s)
        \/ /\ conn[s].receiving = "requested" /\ c <= Last(t)
           /\ recv[s].frame_pos \in 0..Size(t, c) - 1 /\ HasOf(t, c, recv[s].frame_pos)
        \/ conn[s].receiving = "received" /\ c <= Last(t) /\ HasOf(t, c, Size(t, c))
        \/ conn[s].receiving = "consumed" /\ got[s] # <<>> /\ HasOf(t, g, Size(t, g))
    BY <1>0, <2>1, <2>C, <2>G DEF RecvInv
  <2>7. c <= Last(t) => Size(t, c) \in Nat
    BY <1>0, <2>2, SizeFacts
  <2>8. ASSUME conn[s].receiving = "requested", c <= Last(t),
               recv[s].frame_pos \in 0..Size(t, c) - 1, HasOf(t, c, recv[s].frame_pos)
        PROVE  SideIntact(s)
    <3>1. recv[s].frame_pos \in 0..Size(t, c)
      BY <2>7, <2>8
    <3> QED BY <2>4, <2>8, <3>1
  <2>9. ASSUME conn[s].receiving = "received", c <= Last(t), HasOf(t, c, Size(t, c))
        PROVE  SideIntact(s)
    <3>1. Size(t, c) \in 0..Size(t, c)
      BY <2>7, <2>9
    <3> QED BY <2>4, <2>9, <3>1
  <2> QED BY <2>3, <2>5, <2>6, <2>8, <2>9
<1> QED BY <1>0, <1>1, <1>2

\* What the invariant says of the buffers is what the two sides promise.
LEMMA IInvIntact ==
  ASSUME IInv
  PROVE  Intact
<1>1. ASSUME NEW s \in Sides
      PROVE  SideIntact(s)
  BY HandshakeIntact, TalkIntact DEF IInv
<1>2. cut = "overrun" => \E t \in Sides : ~Fits(t)
  BY DEF IInv
<1> QED BY <1>1, <1>2 DEF Intact, SideIntact

LEMMA InitIInv ==
  ASSUME Init
  PROVE  IInv
<1>1. /\ conn["client"] = [state |-> "connecting", websocket |-> TRUE, receiving |-> "no",
                           sending |-> "free"]
      /\ conn["server"] = [state |-> "connecting", websocket |-> FALSE, receiving |-> "no",
                           sending |-> "free"]
      /\ send["client"] = [NoSend EXCEPT !.buffer = Text("client")] /\ send["server"] = NoSend
      /\ \A s \in Sides : recv[s] = NoRecv /\ wire[s] = <<>>
  BY DEF Init, Sides
<1>2. /\ lens \in [Sides -> Nat] /\ \A s \in Sides : MagicLen < lens[s]
      /\ lens["client"] \in Nat /\ BufLen \in Nat /\ lens["server"] > 0
  <2>1. lens \in [Sides -> Nat] /\ \A s \in Sides : MagicLen < lens[s]
    BY WebSocketAssumption DEF Init
  <2>2. MagicLen \in Nat /\ BufLen \in Nat
    BY WebSocketAssumption
  <2> QED BY <2>1, <2>2 DEF Sides
<1>3. Shapes
  <2>1. ConnShape
    BY DEF Init, ConnShape
  <2>2. \A s \in Sides : SendFields(send[s])
    BY <1>1 DEF SendFields, NoSend, Sides
  <2>3. \A s \in Sides : RecvFields(recv[s])
    BY <1>1 DEF RecvFields, NoRecv
  <2>4. SendShape /\ RecvShape /\ wire = [s \in Sides |-> wire[s]]
    BY <2>2, <2>3 DEF Init, SendShape, RecvShape
  <2>5. sent \in [Sides -> Seq(Sendings)] /\ got = [s \in Sides |-> got[s]] /\ cut = "no"
    BY DEF Init
  <2> QED BY <1>2, <2>1, <2>4, <2>5 DEF Shapes
<1>4. NothingYet
  <2>1. sent = [s \in Sides |-> <<>>] /\ got = [s \in Sides |-> <<>>]
    BY DEF Init
  <2>2. \A s \in Sides : NothingRead(s) /\ recv[s].header = <<>> /\ recv[s].mask = <<>>
    BY <1>1 DEF NothingRead, NoRecv
  <2> QED BY <2>1, <2>2 DEF NothingYet
<1>5. TextFlags
  BY <1>1 DEF TextFlags, Sides
<1>6. /\ send["client"].buffer = Text("client") /\ send["client"].pos = 0
      /\ NoFrame("client") /\ Empty("server")
  BY <1>1 DEF NoSend, NoFrame, Empty
<1>7. \A s \in Sides : Part(s, 0, 0) = <<>> /\ recv[s].buffer = <<>> /\ Len(recv[s].buffer) = 0
  BY <1>1, EmptyWindow DEF Part, NoRecv
<1>8. RequestInv
  BY <1>1, <1>2, <1>6, <1>7 DEF RequestInv, Unanswered, Sides
<1>9. AnswerInv
  <2>1. AnswerPut = 0
    BY <1>1, <1>6 DEF AnswerPut, Empty
  <2> QED BY <1>1, <1>2, <1>7, <2>1 DEF AnswerInv, Sides
<1> QED BY <1>1, <1>3, <1>4, <1>5, <1>8, <1>9 DEF Init, IInv, HandshakeInv

\* Texts, headers and data are on the wire as far as their sender says and taken from it as
\* far as their receiver says, until that receiver has read past the end of a frame: in every
\* behaviour of the handshake (http_recv_header and the answer to it), of the sending of
\* frames (buffer_send_websocket) and of their reading (recv1, buffer_recv_websocket, recv2),
\* with texts and buffers of any length and any number of messages under way.
THEOREM Invariance == SafetySpec => []IInv
<1>1. Init => IInv
  BY InitIInv
<1>2. IInv /\ [Next]_vars => IInv'
  <2> SUFFICES ASSUME IInv, [Next]_vars PROVE IInv'
    OBVIOUS
  <2>1. CASE Flow /\ UNCHANGED <<lens, cut>>
    <3>1. Shapes /\ Shapes'
      BY <2>1, ShapesFlow DEF IInv
    <3>2. cut' = "overrun" => \E t \in Sides : ~Fits(t)'
      BY <2>1 DEF IInv, Fits
    <3>3. CASE HandshakeInv
      <4>1. HandshakeInv' \/ (conn'["client"].state = "open" /\ TalkInv')
        BY <2>1, <3>1, <3>3, HandshakeStep
      <4> QED BY <3>1, <3>2, <4>1 DEF IInv
    <3>4. CASE TalkInv
      <4>1. TalkInv'
        BY <2>1, <3>1, <3>4, TalkStep
      <4>2. conn'["client"].state # "connecting"
        <5>1. InOrder("server")' \/ Past("server")'
          BY <4>1 DEF TalkInv, Sides
        <5>2. Other("server")' = "client"
          BY SMTT(40) DEF Other
        <5> QED BY <5>1, <5>2 DEF InOrder, Past
      <4> QED BY <3>1, <3>2, <4>1, <4>2 DEF IInv
    <3> QED BY <3>3, <3>4 DEF IInv
  <2>2. CASE Cuts /\ UNCHANGED <<flow, lens>>
    BY <2>2, CutsStep
  <2>3. CASE UNCHANGED vars
    BY <2>3, Stutter
  <2> QED BY <2>1, <2>2, <2>3, Steps
<1> QED BY <1>1, <1>2, PTL DEF SafetySpec

\* However send and recv cut the texts, headers and data of the two sides up, and however
\* many messages are under way: until a side has read past the end of a frame
\* (buffer_recv_websocket), its buffer holds the beginning of the message that comes next and
\* nothing else, with its mask taken off, and all of it when flags_recv says that a message is
\* there.  It reads past one only when a message was sent before the one ahead of it had been
\* taken.  Nothing is written past the buffer but a text that does not fit
\* (http_recv_header), and an attempt with texts that fit fails only when a request is torn.
THEOREM MessagesIntact == SafetySpec => []Intact
<1>1. SafetySpec => []IInv
  BY Invariance
<1>2. IInv => Intact
  BY IInvIntact
<1> QED BY <1>1, <1>2, PTL
=============================================================================
