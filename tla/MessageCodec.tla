---------------------------- MODULE MessageCodec ----------------------------
(***************************************************************************)
(* A message is written into the send buffer, its message_size bytes reach *)
(* the receive buffer of the peer, and the peer reads it: message.c        *)
(* against itself, in both versions of the format.  Connection.tla is      *)
(* where those bytes travel; here they arrive.                             *)
(***************************************************************************)
EXTENDS MessageWriter, MessageReader

CONSTANT Behind  \* how many bytes of the next message may have been received with it

vars == <<wvars, rvars>>

Init == WInit /\ RInit

\* The first n bytes of a buffer.
Prefix(b, n) == [o \in {p \in DOMAIN b : p + b[p].w <= n} |-> b[o]]

WriterStep == WNext /\ UNCHANGED rvars

\* The first n bytes of b, and the first k of a message like it that follows.
Received(b, n, k) ==
    LET here == Prefix(b, n)
        next == Prefix(b, k)
    IN [o \in DOMAIN here \cup {n + p : p \in DOMAIN next} |->
          IF o < n THEN here[o] ELSE next[o - n]]

\* Only a message that was ended is sent.  The reader is given all that the connection has
\* received, which may hold the beginning of the next message.
Arrive ==
    /\ wphase = "ended"
    /\ \E k \in {n \in Behind : n <= MessageSize} :
          Open(Received(buf, MessageSize, k), MessageSize + k)
    /\ UNCHANGED wvars

ReaderStep == RCall /\ UNCHANGED wvars

Next == WriterStep \/ Arrive \/ ReaderStep

Spec == Init /\ [][Next]_vars

----------------------------------------------------------------------------
(* What must come out. *)

\* The part of a header that its version and the mask have room for.
Room(m) == IF ver = 2 THEN {"routing", "endpoint", "meta", "multiple"} ELSE m
Group ==
    [sender_nodeid |-> "routing", receiver_nodeid |-> "routing", sender_nodename |-> "routing",
     receiver_nodename |-> "routing", sender_endpoint |-> "endpoint",
     receiver_endpoint |-> "endpoint", priority |-> "priority", metadata |-> "meta",
     message_id |-> "meta", message_res_id |-> "meta"]
NotIn2(f) ==
    ver = 2 /\ f \in {"service_path_code", "element_name_code", "element_number",
                       "element_type_name_code"}

\* No writer puts the code of a member's name into an entry, not even that of version 4,
\* whose format has a place for it.
NeverWritten(f) == f = "member_name_code"

\* The children that were written below a place, and where the readers stand.
Children(p) == {q \in DOMAIN written : Len(q) = Len(p) + 1 /\ SubSeq(q, 1, Len(p)) = p}
Path == <<er.cur + 1>> \o [i \in DOMAIN ers |-> ers[i].cur + 1]
IsBlock(p) == "data" \in DOMAIN written[p]

SameMessage(h) ==
    /\ \A f \in DOMAIN Group :
          h[f] = IF Group[f] \in Room(begun.mask) THEN begun.header[f] ELSE MessageDefaults[f]
    /\ h.entry_count = ew.n

SameEntry(h, p) ==
    /\ h.entry_type = written[p].entry_type
    /\ \A f \in DOMAIN EntryDefaults :
          h[f] = IF NotIn2(f) \/ NeverWritten(f) THEN EntryDefaults[f] ELSE written[p][f]
    /\ h.element_count = Cardinality(Children(p))

SameElement(h, p) ==
    IF IsBlock(p)
    THEN /\ h.element_name = written[p].name /\ h.element_type = written[p].type
         /\ h.data_count = written[p].len
    ELSE /\ h.element_type = written[p].element_type
         /\ \A f \in DOMAIN ElementDefaults :
               h[f] = IF NotIn2(f) THEN ElementDefaults[f] ELSE written[p][f]
         /\ h.data_count = Cardinality(Children(p))

----------------------------------------------------------------------------
(* Properties of the writers. *)

\* Where the next byte goes.
End == IF els = <<>> THEN ew.off ELSE Top.off
Width(b) == FoldFunction(LAMBDA c, n : c.w + n, 0, b)

\* What has been written up to the next child is gapless, whatever calls have failed in
\* between, within the buffer, and as long as the sizes that are kept say: so that what
\* end_message announces is what is sent (message.c:3038-3105, 3363-3427, 3674-3745).
Tiled ==
    wphase # "idle" =>
        /\ End <= size
        /\ Width(Prefix(buf, End)) = End
        /\ MessageSize = ew.off

\* begin_message works the size of a header out before it writes it, and gives up if it was
\* wrong: it never is, so that a message is begun whenever its header fits and its version
\* can count its entries (message.c:2590-2988).
TotalWidth(cells) == FoldLeft(LAMBDA n, c : n + c.w, 0, cells)
BegunIfItFits ==
    [][\A m \in Messages :
          BeginMessage(m) /\ wphase' = "idle" /\ (ver = 2 => Count2Fits(m.header)) =>
              TotalWidth(IF ver = 2 THEN MessageCells2(m.header)
                         ELSE MessageCells4(m.header, MessageFlags(m.header, m.mask))) > size]_vars

(* Properties of the readers, for a message that holds an entry at least. *)

Opened == er # <<>> /\ ew.n > 0

\* Every header and every piece of data that is read is the one that was written there,
\* in either version, at any length of a string or a number, but for the code of a member's
\* name, which always comes back as 0 (message.c:385-804, 1136-1445, 1542-1899, 3188-3216).
ReadBack ==
    Opened =>
        /\ SameMessage(ReadMessageHeader(rbuf).h)
        /\ SameEntry(ReadEntryHeader(rbuf, rver, er.off).h, <<er.cur + 1>>)
        /\ ers # <<>> => SameElement(ReadElementHeader(rbuf, rver, Inner.off).h, Path)
        /\ got # NoData => got = written[Path].data

\* A reader stands on an entry or element that was written, spans it, and has left of its
\* parent exactly what its later siblings take: on the last element nothing, on the last
\* entry what was received of the next message (message.c:808-892, 1447-1532, 1934-1997).
StandsOnWritten ==
    Opened =>
        /\ <<er.cur + 1>> \in DOMAIN written
        /\ er.remaining >= rcount - MessageSize
        /\ er.remaining = rcount - MessageSize <=> er.cur + 1 = ew.n
        /\ ers # <<>> =>
              /\ Path \in DOMAIN written
              /\ Inner.remaining = 0 <=> Inner.cur + 1 = Inner.total

\* No call on a message of this library reports a protocol error, but for the reading of
\* one value from an array that holds another number (message.c:1924).
NeverGarbled ==
    [][result' = "error" /\ ew.n > 0 =>
          \E w \in Wants : w.kind = "scalar" /\ CopyOut(w) /\ written[Path].len # 1]_vars

\* A search by name stops at the first child of that name and finds one if there is one;
\* moving on ends exactly after the last one (message.c:894-974, 1999-2079, 1497-1532).
NameOf(p) == IF IsBlock(p) THEN written[p].name ELSE written[p].element_name
Here == IF ers = <<>> THEN <<er.cur + 1>> ELSE Path
FindsFirst ==
    [][Opened =>
        /\ \A n \in Names : FindElement(n) =>
              LET hits == {p \in Children(Here) : NameOf(p) = n} IN
              IF hits = {} THEN result' \in {"not_found", "mismatch"}
              ELSE Path' = Append(Here, Min({p[Len(p)] : p \in hits}))
        /\ MoveElement => (result' = "no_more" <=> Inner.cur + 1 = Cardinality(Children(
                               SubSeq(Path, 1, Len(Path) - 1))))
        /\ MoveEntry => (result' = "no_more" <=> er.cur + 1 = ew.n)]_vars

\* Data that find_element_verify_* has passed can be copied out by the matching call, and
\* is the data that was written (message.c:976-1087, 1832-1932).
CheckedReads ==
    Opened /\ checked # NoWant =>
        ReadData(Inner, checked) =
            [code |-> "ok", r |-> IF written[Path].len = 0 THEN NoData ELSE written[Path].data]
============================================================================
