--------------------------- MODULE MessageWriter ---------------------------
(***************************************************************************)
(* Writing a message: message_writer, messageentry_writer and the          *)
(* messageelement_writers of message.c.                                    *)
(*                                                                         *)
(* A writer only knows where its next child starts, how many children it   *)
(* has finished and how many bytes they took; the sizes and the counts of  *)
(* a message, an entry and a structure are filled in when they end.  Every *)
(* call may run out of buffer, after any number of bytes: it then reports  *)
(* failure and leaves the records of the writers as they were, and the     *)
(* application writes something else there or gives up.                    *)
(*                                                                         *)
(* "written" is what the calls that succeeded have written: a function     *)
(* from the place of an entry or element, the sequence of its indices from *)
(* the message down, to its header.                                        *)
(***************************************************************************)
EXTENDS MessageHeaders, FiniteSets

CONSTANTS
    BufSizes,      \* the lengths of the send buffer
    Versions,      \* the versions of the format, of 2 and 4
    Messages       \* the messages that are begun: [header, mask, entries, nested, blocks, nodes],
                   \* the mask the flags allowed; entries, nested and blocks the headers of the
                   \* entries and structures and the arrays, scalars and strings that are
                   \* written; nodes the bound on their number

Bytes(b) == TypeSize[b.type] * b.len

\* The strings of the headers are strings in use, and there are no versions but these.
ASSUME WriterAssumption ==
    /\ BufSizes \subseteq Nat /\ Versions \subseteq {2, 4}
    /\ \A m \in Messages :
          /\ {m.header.sender_nodename, m.header.receiver_nodename, m.header.metadata}
                \subseteq DOMAIN NameLen
          /\ \A h \in m.entries :
                {h.service_path, h.member_name, h.metadata} \subseteq DOMAIN NameLen
          /\ \A h \in m.nested :
                {h.element_name, h.element_type_name, h.metadata} \subseteq DOMAIN NameLen
          /\ \A b \in m.blocks : b.name \in DOMAIN NameLen /\ Bytes(b) \in Nat

VARIABLES
    size,     \* the length of the buffer
    ver,      \* writer->message_version
    buf,      \* the buffer
    wphase,   \* "idle", "message", "ended" or "refused"
    begun,    \* the message begun, of Messages
    mw,       \* the message writer: [hsize, count_off]
    ew,       \* the entry writer
    els,      \* the element writers that are open, the innermost last
    written   \* the entries and elements written so far

Nothing ==  \* before a message is begun
    [header |-> MessageDefaults, mask |-> {},
     entries |-> {}, nested |-> {}, blocks |-> {}, nodes |-> 0]

wvars == <<size, ver, buf, wphase, begun, mw, ew, els, written>>

NoOffset == -1  \* SIZE_T_MAX

\* A writer of children that start at off; the last three fields are those of the child begun.
Writer(off) == [off |-> off, n |-> 0, total |-> 0, size_off |-> 0, count_off |-> 0, hsize |-> 0]

WInit ==
    /\ size \in BufSizes /\ ver \in Versions
    /\ buf = <<>> /\ wphase = "idle" /\ begun = Nothing
    /\ mw = [hsize |-> 0, count_off |-> NoOffset] /\ ew = Writer(0) /\ els = <<>>
    /\ written = <<>>

Top == els[Len(els)]
SetTop(w) == [els EXCEPT ![Len(els)] = w]

\* Where the next child of the innermost writer goes in "written".
Place == <<ew.n + 1>> \o [i \in DOMAIN els |-> els[i].n + 1]

\* What has been written, with header h at place p.
With(p, h) == (p :> h) @@ written

\* A child of n bytes is finished.
Finish(w, n) == [w EXCEPT !.n = @ + 1, !.total = @ + n, !.off = @ + n]

\* A value filled in after the fact.
FillIn(b, off, cells) == Write(size, b, off, cells).buf

----------------------------------------------------------------------------
\* A header of version 2 that is too long is refused before anything is written.
BeginMessage(m) ==
    LET h == m.header
        flags == MessageFlags(h, m.mask)
        w == Write(size, buf, 0, IF ver = 2 THEN MessageCells2(h) ELSE MessageCells4(h, flags))
        good == w.ok /\ IF ver = 2 THEN Count2Fits(h) ELSE w.o = HeaderSize4(h, flags)
    IN /\ wphase = "idle"
       /\ ver = 2 => Header2Fits(h)
       /\ buf' = w.buf
       /\ IF good
          THEN /\ wphase' = "message" /\ begun' = m
               /\ mw' = [hsize |-> w.o,
                         count_off |-> IF ver = 2 THEN w.o - 6
                                       ELSE IF "multiple" \in flags THEN w.o - 4 ELSE NoOffset]
               /\ ew' = Writer(w.o)
          ELSE UNCHANGED <<wphase, begun, mw, ew>>
       /\ UNCHANGED <<size, ver, els, written>>

BeginEntry(h) ==
    LET w == Write(size, buf, ew.off, IF ver = 2 THEN EntryCells2(h) ELSE EntryCells4(h))
    IN /\ wphase = "message" /\ els = <<>> /\ Cardinality(DOMAIN written) < begun.nodes
       /\ ew.n < 65535
       /\ buf' = w.buf
       /\ IF w.ok
          THEN /\ ew' = [ew EXCEPT !.hsize = w.o - ew.off,
                                   !.size_off = IF ver = 2 THEN ew.off ELSE ew.off + 1,
                                   !.count_off = IF ver = 2 THEN w.o - 2 ELSE w.o - 4]
               /\ els' = <<Writer(w.o)>>
               /\ written' = With(<<ew.n + 1>>, h)
          ELSE UNCHANGED <<ew, els, written>>
       /\ UNCHANGED <<size, ver, wphase, begun, mw>>

\* The application ends an entry when it has ended the structures in it.
EndEntry ==
    LET bytes == ew.hsize + Top.total
        sized == FillIn(buf, ew.size_off, U32(bytes))
    IN /\ wphase = "message" /\ Len(els) = 1
       /\ buf' = FillIn(sized, ew.count_off, IF ver = 2 THEN U16(Top.n % 65536) ELSE U32(Top.n))
       /\ ew' = Finish(ew, bytes)
       /\ els' = <<>>
       /\ UNCHANGED <<size, ver, wphase, begun, mw, written>>

BeginNested(h) ==
    LET w == Write(size, buf, Top.off, IF ver = 2 THEN ElementCells2(h) ELSE ElementCells4(h))
    IN /\ els # <<>> /\ Cardinality(DOMAIN written) < begun.nodes
       /\ buf' = w.buf
       /\ IF w.ok
          THEN /\ els' = Append(SetTop([Top EXCEPT
                             !.hsize = w.o - Top.off,
                             !.size_off = IF ver = 2 THEN Top.off ELSE Top.off + 1,
                             !.count_off = w.o - 4]), Writer(w.o))
               /\ written' = With(Place, h)
          ELSE UNCHANGED <<els, written>>
       /\ UNCHANGED <<size, ver, wphase, begun, mw, ew>>

\* Slip: the bytes of the nested elements are counted, their parent's own header is not.
EndNested_NoHeader ==
    LET outer == els[Len(els) - 1]
        bytes == Top.total
        sized == FillIn(buf, outer.size_off, U32(bytes))
    IN /\ Len(els) > 1
       /\ buf' = FillIn(sized, outer.count_off, U32(Top.n))
       /\ els' = Append(SubSeq(els, 1, Len(els) - 2), Finish(outer, bytes))
       /\ UNCHANGED <<size, ver, wphase, begun, mw, ew, written>>

EndNested ==
    LET outer == els[Len(els) - 1]
        bytes == outer.hsize + Top.total
        sized == FillIn(buf, outer.size_off, U32(bytes))
    IN /\ Len(els) > 1
       /\ buf' = FillIn(sized, outer.count_off, U32(Top.n))
       /\ els' = Append(SubSeq(els, 1, Len(els) - 2), Finish(outer, bytes))
       /\ UNCHANGED <<size, ver, wphase, begun, mw, ew, written>>

\* Slip: an element is counted before its data is known to fit.
WriteRaw_CountsFirst(b) ==
    LET bytes == Bytes(b)
        esize == IF ver = 2 THEN DataSize2(b.name, bytes) ELSE DataSize4(b.name, b.len, bytes)
        w == Write(size, buf, Top.off,
               (IF ver = 2 THEN DataHeader2(b.name, b.type, b.len, bytes)
                           ELSE DataHeader4(b.name, b.type, b.len, bytes)) \o Data(b.data, bytes))
    IN /\ els # <<>> /\ Cardinality(DOMAIN written) < begun.nodes
       /\ ver = 2 => NameLen[b.name] <= 65535
       /\ buf' = w.buf
       /\ els' = SetTop(Finish(Top, esize))
       /\ written' = IF w.ok THEN With(Place, b) ELSE written
       /\ UNCHANGED <<size, ver, wphase, begun, mw, ew>>

\* write_raw, and the writers of message_data.c, each with its type and size: a name of
\* more than 65535 bytes is refused in version 2, before anything is written.
WriteRaw(b) ==
    LET bytes == Bytes(b)
        esize == IF ver = 2 THEN DataSize2(b.name, bytes) ELSE DataSize4(b.name, b.len, bytes)
        w == Write(size, buf, Top.off,
               (IF ver = 2 THEN DataHeader2(b.name, b.type, b.len, bytes)
                           ELSE DataHeader4(b.name, b.type, b.len, bytes)) \o Data(b.data, bytes))
    IN /\ els # <<>> /\ Cardinality(DOMAIN written) < begun.nodes
       /\ ver = 2 => NameLen[b.name] <= 65535
       /\ buf' = w.buf
       /\ IF w.ok THEN els' = SetTop(Finish(Top, esize)) /\ written' = With(Place, b)
                  ELSE UNCHANGED <<els, written>>
       /\ UNCHANGED <<size, ver, wphase, begun, mw, ew>>

\* Without a count in the header there must be exactly one entry; the size is filled in first.
EndMessage ==
    LET sized == FillIn(buf, 4, U32(ew.total + mw.hsize)) IN
    /\ wphase = "message" /\ els = <<>>
    /\ IF mw.count_off # NoOffset
       THEN /\ buf' = FillIn(sized, mw.count_off, IF ver = 2 THEN U16(ew.n % 65536) ELSE U32(ew.n))
            /\ wphase' = "ended"
       ELSE /\ buf' = sized
            /\ wphase' = IF ew.n = 1 THEN "ended" ELSE "refused"
    /\ UNCHANGED <<size, ver, begun, mw, ew, els, written>>

MessageSize == ew.total + mw.hsize

WNext ==
    \/ \E m \in Messages : BeginMessage(m)
    \/ \E h \in begun.entries : BeginEntry(h)
    \/ EndEntry
    \/ \E h \in begun.nested : BeginNested(h)
    \/ EndNested
    \/ \E b \in begun.blocks : WriteRaw(b)
    \/ EndMessage
============================================================================
