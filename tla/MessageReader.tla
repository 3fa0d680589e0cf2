--------------------------- MODULE MessageReader ---------------------------
(***************************************************************************)
(* Reading a message: message_reader, messageentry_reader and the          *)
(* messageelement_readers of message.c.                                    *)
(*                                                                         *)
(* A reader stands on one entry or element: where it starts, its size as   *)
(* its header says, what is left of the parent after it and its index.     *)
(* The application moves to the next one, goes into one, looks one up by   *)
(* name, checks its type and copies its data out, in any order.  Nothing   *)
(* is changed in the buffer.                                               *)
(***************************************************************************)
EXTENDS MessageHeaders, FiniteSetsExt

CONSTANTS
    Names,   \* the names elements are looked up by
    Wants    \* what find_element_verify_* is asked for: [kind, type, len]

VARIABLES
    rbuf,    \* the buffer
    rcount,  \* how much of it holds the message
    rver,    \* reader->message_version
    er,      \* the entry reader, or <<>> before the message is opened
    ers,     \* the element readers in use, each one inside the one before it
    result,  \* what the last call reported
    checked, \* the requirement the innermost reader was found to meet, or NoWant
    got      \* the data the last call has copied out

rvars == <<rbuf, rcount, rver, er, ers, result, checked, got>>

NoWant == [kind |-> "none", type |-> "none", len |-> 0]
NoData == "none"

\* The types that hold elements.
Containers ==
    {"structure", "map_int32", "map_string", "list", "multidimarray", "pod", "pod_array",
     "pod_multidimarray", "namedarray_array", "namedarray_multidimarray"}

RInit ==
    /\ rbuf = <<>> /\ rcount = 0 /\ rver = 0 /\ er = <<>> /\ ers = <<>>
    /\ result = "none" /\ checked = NoWant /\ got = NoData

Inner == ers[Len(ers)]

\* The call fails with a code, or returns a reader.
Fails(code) == [code |-> code, r |-> <<>>]
Stands(off, count, remaining, cur, total) ==
    [code |-> "ok",
     r |-> [off |-> off, count |-> count, remaining |-> remaining, cur |-> cur, total |-> total]]

----------------------------------------------------------------------------
(* The positions of readers. *)

\* message_reader_init: what it is given must look like a whole message.
ReaderInit(b, count) ==
    LET magic == Cell(b, 0, 4, "magic")
        length == ReadNum(b, 4, 4)
    IN count >= 10 /\ magic.ok /\ length.ok /\ length.v <= count

\* A reader on the child at o, of which left bytes of the parent remain.
Child(o, left, csize, cur, total) ==
    IF csize.ok /\ csize.v <= left THEN Stands(o, csize.v, left - csize.v, cur, total)
    ELSE Fails("error")

\* The first entry, whether the header st announces one or not.
FirstEntryAfter(b, count, st) ==
    IF st.ok THEN Child(st.h.header_size, count - st.h.header_size,
                        ReadCount(b, st.h.message_version, st.h.header_size), 0, 0)
    ELSE Fails("error")
FirstEntry(b, count) == FirstEntryAfter(b, count, ReadMessageHeader(b))

\* The sibling after e, if there is one among total.
Sibling(e, total) ==
    IF e.cur + 1 >= total THEN Fails("no_more")
    ELSE Child(e.off + e.count, e.remaining, ReadCount(rbuf, rver, e.off + e.count),
               e.cur + 1, e.total)

\* Slip: the number of entries is taken from a header that does not hold it.
EntryCount_Always(st) == IF "entry_count" \in DOMAIN st.at
                         THEN ReadCount2(rbuf, rver, st.at["entry_count"]).v ELSE 2

\* The entries are counted in the header st of the message, or there is only one.
EntryCount(st) == IF "entry_count" \in DOMAIN st.at
                  THEN ReadCount2(rbuf, rver, st.at["entry_count"]).v ELSE 1

NextEntry(e) == Sibling(e, EntryCount(ReadMessageHeader(rbuf)))
NextElement(e) == Sibling(e, e.total)

ElementsOf(e, st) ==
    IF ~st.ok THEN Fails("error")
    ELSE IF st.h.element_count = 0 THEN Fails("no_more")
    ELSE Child(st.o, e.count - (st.o - e.off), ReadCount(rbuf, rver, st.o), 0, st.h.element_count)
FirstElement(e) == ElementsOf(e, ReadEntryHeader(rbuf, rver, e.off))

\* Slip: what is left after the first nested element still counts the parent's header.
NestedOf_Header(e, st) ==
    IF ~st.ok THEN Fails("error")
    ELSE IF st.h.element_type \notin Containers THEN Fails("mismatch")
    ELSE IF st.h.data_count = 0 THEN Fails("no_more")
    ELSE Child(st.o, e.count, ReadCount(rbuf, rver, st.o), 0, st.h.data_count)

NestedOf(e, st) ==
    IF ~st.ok THEN Fails("error")
    ELSE IF st.h.element_type \notin Containers THEN Fails("mismatch")
    ELSE IF st.h.data_count = 0 THEN Fails("no_more")
    ELSE Child(st.o, e.count - (st.o - e.off), ReadCount(rbuf, rver, st.o), 0, st.h.data_count)
FirstNested(e) == NestedOf(e, ReadElementHeader(rbuf, rver, e.off))

\* Slip: the search goes on after a match and keeps the last one.
Find_Last(first, name) ==
    LET Named(c) == ReadElementHeader(rbuf, rver, c.r.off).h.element_name = name
        n == IF first.code = "ok" THEN first.r.total ELSE 0
        at[i \in 0..n] == IF i = 0 THEN first
                          ELSE IF at[i - 1].code = "ok" THEN NextElement(at[i - 1].r) ELSE at[i - 1]
        hits == {i \in 0..n : at[i].code = "ok" /\ Named(at[i])}
    IN IF hits # {} THEN at[Max(hits)]
       ELSE IF at[n].code = "no_more" THEN Fails("not_found") ELSE at[n]

\* find_element, find_nested_element: from the first element on, to the first of that name.
Find(first, name) ==
    LET Named(c) == ReadElementHeader(rbuf, rver, c.r.off).h.element_name = name
        n == IF first.code = "ok" THEN first.r.total ELSE 0
        at[i \in 0..n] == IF i = 0 THEN first
                          ELSE IF at[i - 1].code # "ok" \/ Named(at[i - 1]) THEN at[i - 1]
                          ELSE NextElement(at[i - 1].r)
    IN IF at[n].code = "no_more" THEN Fails("not_found") ELSE at[n]

\* Slip: a scalar may have any number of values.
Verify_AnyCount(h, want) ==
    IF h.element_type # want.type THEN "mismatch"
    ELSE IF want.kind = "array" /\ h.data_count # want.len THEN "mismatch"
    ELSE IF want.kind \in {"vararray", "string"} /\ h.data_count > want.len THEN "range"
    ELSE "ok"

\* find_element_verify_scalar, _array and _string, after the search.
Verify(h, want) ==
    IF h.element_type # want.type THEN "mismatch"
    ELSE IF want.kind = "scalar" /\ h.data_count # 1 THEN "mismatch"
    ELSE IF want.kind = "array" /\ h.data_count # want.len THEN "mismatch"
    ELSE IF want.kind \in {"vararray", "string"} /\ h.data_count > want.len THEN "range"
    ELSE "ok"

\* The data of an element whose header st takes hsize bytes.
DataAfter(st, hsize, want) ==
    LET n == st.h.data_count
        bytes == st.h.element_size - hsize
    IN IF ~st.ok THEN Fails("error")
       ELSE IF st.h.element_type # want.type THEN Fails("mismatch")
       ELSE IF TypeSize[want.type] * n # bytes THEN Fails("error")
       ELSE IF want.kind = "scalar" /\ n # 1 THEN Fails("error")
       ELSE IF want.kind # "scalar" /\ n > want.len THEN Fails("range")
       ELSE IF n = 0 THEN [code |-> "ok", r |-> NoData]
       ELSE [code |-> "ok", r |-> Cell(rbuf, st.o, bytes, "data").v]

\* read_data_ex into an array of want.len values, or read_data_scalar_ex.
DataOf(e, st, want) == DataAfter(st, st.o - e.off, want)
ReadData(e, want) == DataOf(e, ReadElementHeader(rbuf, rver, e.off), want)

----------------------------------------------------------------------------
(* The calls. *)

\* message_reader_init, read_header and begin_read_entries on what a connection received.
Open(b, count) ==
    /\ er = <<>> /\ result = "none"
    /\ rbuf' = b /\ rcount' = count
    /\ \E first \in {IF ReaderInit(b, count) THEN FirstEntry(b, count) ELSE Fails("error")} :
          IF first.code = "ok"
          THEN er' = first.r /\ rver' = ReadMessageHeader(b).h.message_version
          ELSE UNCHANGED <<er, rver>>
    /\ result' = IF er' = <<>> THEN "error" ELSE "ok"
    /\ UNCHANGED <<ers, checked, got>>

\* A call that moves the entry reader; the element readers belong to the entry it leaves.
MoveEntry ==
    /\ er # <<>>
    /\ \E next \in {NextEntry(er)} :
          /\ result' = next.code
          /\ IF next.code = "ok" THEN er' = next.r /\ ers' = <<>> ELSE UNCHANGED <<er, ers>>
    /\ checked' = NoWant /\ got' = NoData
    /\ UNCHANGED <<rbuf, rcount, rver>>

\* What a call that returns a reader at depth d leaves behind.
Enter(d, found, want) ==
    /\ result' = found.code
    /\ IF found.code = "ok" THEN ers' = Append(SubSeq(ers, 1, d), found.r) /\ checked' = want
                            ELSE UNCHANGED ers /\ checked' = NoWant
    /\ got' = NoData
    /\ UNCHANGED <<rbuf, rcount, rver, er>>

\* Where the elements below depth d begin: in the entry or in a structure.
First(d) == IF d = 0 THEN FirstElement(er) ELSE FirstNested(ers[d])

BeginElements ==
    er # <<>> /\ ers = <<>> /\ \E first \in {FirstElement(er)} : Enter(0, first, NoWant)
BeginNestedElements ==
    ers # <<>> /\ \E first \in {FirstNested(Inner)} : Enter(Len(ers), first, NoWant)
MoveElement == ers # <<>> /\ \E next \in {NextElement(Inner)} : Enter(Len(ers) - 1, next, NoWant)

\* The application is done with the readers below depth d.
Leave ==
    /\ \E d \in 0..Len(ers) - 1 : ers' = SubSeq(ers, 1, d)
    /\ result' = "ok" /\ checked' = NoWant /\ got' = NoData
    /\ UNCHANGED <<rbuf, rcount, rver, er>>

FindElement(name) ==
    /\ er # <<>>
    /\ \E first \in {First(Len(ers))} :
       \E found \in {Find(first, name)} : Enter(Len(ers), found, NoWant)

FindVerify(name, want) ==
    /\ er # <<>>
    /\ \E first \in {First(Len(ers))} :
       \E found \in {Find(first, name)} :
       \E verdict \in {IF found.code = "ok"
                       THEN Verify(ReadElementHeader(rbuf, rver, found.r.off).h, want)
                       ELSE found.code} :
          Enter(Len(ers), [found EXCEPT !.code = verdict], want)

\* The data of the element the innermost reader stands on.
CopyOut(want) ==
    /\ ers # <<>>
    /\ \E data \in {ReadData(Inner, want)} :
          /\ result' = data.code
          /\ got' = IF data.code = "ok" THEN data.r ELSE NoData
    /\ UNCHANGED <<rbuf, rcount, rver, er, ers, checked>>

RCall ==
    \/ MoveEntry
    \/ BeginElements
    \/ BeginNestedElements
    \/ MoveElement
    \/ Leave
    \/ \E n \in Names : FindElement(n)
    \/ \E n \in Names, w \in Wants : FindVerify(n, w)
    \/ \E w \in Wants : CopyOut(w)
============================================================================
