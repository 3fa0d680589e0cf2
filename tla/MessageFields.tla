--------------------------- MODULE MessageFields ---------------------------
(***************************************************************************)
(* The fields a Robot Raconteur message is made of, in both versions of    *)
(* the format: how message.c writes each one into the buffer and how it    *)
(* reads it back.                                                          *)
(*                                                                         *)
(* The buffer is a partial function from byte offsets to cells.  A cell is *)
(* one value as one copy into the buffer lays it down: its width in bytes, *)
(* its kind and its value.  Reading a cell of another width or kind than   *)
(* the one that was laid down at that offset is a misread: what the code   *)
(* gets then is some other bytes, and the model only says that it did.     *)
(* A string is a name with a length, a block of data a payload with a      *)
(* length; their bytes are left out.  Widths and thresholds are the real   *)
(* ones.                                                                   *)
(***************************************************************************)
EXTENDS Integers, Sequences, SequencesExt

CONSTANT NameLen  \* the strings in use, each with its length in bytes

ASSUME NamesAssumption ==
    /\ "" \in DOMAIN NameLen
    /\ NameLen \in [DOMAIN NameLen -> Nat]
    /\ \A s \in DOMAIN NameLen : NameLen[s] = 0 <=> s = ""

----------------------------------------------------------------------------
(* Writing: every header is a sequence of cells. *)

Num(w, v) == <<[w |-> w, kind |-> "num", v |-> v]>>
U8(v)  == Num(1, v)
U16(v) == Num(2, v)
U32(v) == Num(4, v)
Flags(f) == <<[w |-> 1, kind |-> "flags", v |-> f]>>
NodeId(i) == <<[w |-> 16, kind |-> "id", v |-> i]>>
Text(s)  == <<[w |-> NameLen[s], kind |-> "text", v |-> s]>>
Data(d, w) == <<[w |-> w, kind |-> "data", v |-> d]>>
Magic == <<[w |-> 4, kind |-> "magic", v |-> "RRAC"]>>

\* Slip: 253 itself is written as one byte.
UintX_Wide(v) ==
    IF v <= 253 THEN U8(v)
    ELSE IF v <= 65535 THEN U8(253) \o U16(v)
    ELSE U8(254) \o U32(v)

\* An unsigned number of one, three or five bytes.
UintX(v) ==
    IF v <= 252 THEN U8(v)
    ELSE IF v <= 65535 THEN U8(253) \o U16(v)
    ELSE U8(254) \o U32(v)

\* The same, always in five bytes: the value is filled in later.
PaddedUintX(v) == U8(254) \o U32(v)

\* A signed number of one, three or five bytes.
IntX(v) ==
    IF v \in -128..124 THEN U8(v)
    ELSE IF v \in -32768..32767 THEN U8(125) \o U16(v)
    ELSE U8(126) \o U32(v)

\* Strings are preceded by their length; version 2 keeps 16 bits of it.
String2(s) == U16(NameLen[s] % 65536) \o Text(s)
String4(s) == UintX(NameLen[s]) \o Text(s)

UintXSize(v) == IF v <= 252 THEN 1 ELSE IF v <= 65535 THEN 3 ELSE 5
StringSize4(s) == UintXSize(NameLen[s]) + NameLen[s]

\* Slip: the length counts itself against the thresholds of a plain number.
LenPlusUintX_Plain(n) == n + UintXSize(n)

\* The length n of something, plus the length of the number that will hold the sum.
LenPlusUintX(n) ==
    IF n <= 251 THEN n + 1 ELSE IF n <= 65535 - 3 THEN n + 3 ELSE n + 5

\* The size of one value of each type of data.
TypeSize ==
    [double |-> 8, single |-> 4, int8 |-> 1, uint8 |-> 1, int16 |-> 2, uint16 |-> 2,
     int32 |-> 4, uint32 |-> 4, int64 |-> 8, uint64 |-> 8, cdouble |-> 16, csingle |-> 8,
     bool |-> 1, string |-> 1]

\* Cells that are present only when a condition holds.
Opt(present, cells) == IF present THEN cells ELSE <<>>

\* Cell c is laid down at o: what it overwrites is gone.
Laying(buf, o, c) ==
    LET left == {q \in DOMAIN buf : q + buf[q].w <= o \/ q >= o + c.w} IN
    [p \in left \cup {o} |-> IF p = o THEN c ELSE buf[p]]

\* One copy into a buffer of size bytes: it fits or it fails and changes nothing.
WriteCell(size, st, c) ==
    IF ~st.ok \/ c.w = 0 THEN st
    ELSE IF st.o + c.w > size THEN [st EXCEPT !.ok = FALSE]
    ELSE [ok |-> TRUE, o |-> st.o + c.w, buf |-> Laying(st.buf, st.o, c)]

\* The cells one after the other from offset o, up to the first that does not fit.
Write(size, buf, o, cells) ==
    LET after[i \in 0..Len(cells)] ==
            IF i = 0 THEN [ok |-> TRUE, o |-> o, buf |-> buf]
            ELSE WriteCell(size, after[i - 1], cells[i])
    IN after[Len(cells)]

----------------------------------------------------------------------------
(* Reading: a cursor moves over the buffer, collects named fields and      *)
(* remembers where each one was.                                           *)

\* Reading one cell at o.
Cell(buf, o, w, kind) ==
    IF o \in DOMAIN buf /\ buf[o].w = w /\ buf[o].kind = kind
    THEN [ok |-> TRUE, o |-> o + w, v |-> buf[o].v]
    ELSE [ok |-> FALSE, o |-> o, v |-> 0]

ReadNum(buf, o, w) == Cell(buf, o, w, "num")

\* A first byte of 253 or 254 (125 or 126) announces two or four bytes.
Longer(buf, b, small) ==
    IF ~b.ok \/ b.v <= small THEN b
    ELSE IF b.v = small + 1 THEN ReadNum(buf, b.o, 2)
    ELSE IF b.v = small + 2 THEN ReadNum(buf, b.o, 4)
    ELSE [b EXCEPT !.ok = FALSE]

ReadUintX(buf, o) == Longer(buf, ReadNum(buf, o, 1), 252)
ReadIntX(buf, o) == Longer(buf, ReadNum(buf, o, 1), 124)

\* The text of a string whose length has just been read.
ReadText(buf, len) ==
    IF ~len.ok \/ len.v = 0 THEN [len EXCEPT !.v = ""] ELSE Cell(buf, len.o, len.v, "text")

\* A size or a count: 32 bits in version 2, variable in version 4.
ReadCount(buf, ver, o) == IF ver = 2 THEN ReadNum(buf, o, 4) ELSE ReadUintX(buf, o)

\* The number of entries: 16 bits in version 2, variable in version 4.
ReadCount2(buf, ver, o) == IF ver = 2 THEN ReadNum(buf, o, 2) ELSE ReadUintX(buf, o)

Skip(len) == [len EXCEPT !.o = len.o + len.v]

\* One step of a reader, by the type of the field.
ReadType(buf, o, t) ==
    CASE t = "u8"  -> ReadNum(buf, o, 1)
      [] t = "u16" -> ReadNum(buf, o, 2)
      [] t = "u32" -> ReadNum(buf, o, 4)
      [] t = "uint_x" -> ReadUintX(buf, o)
      [] t = "int_x"  -> ReadIntX(buf, o)
      [] t = "flags"  -> Cell(buf, o, 1, "flags")
      [] t = "magic"  -> Cell(buf, o, 4, "magic")
      [] t = "nodeid" -> Cell(buf, o, 16, "id")
      [] t = "string2" -> ReadText(buf, ReadNum(buf, o, 2))
      [] t = "string4" -> ReadText(buf, ReadUintX(buf, o))
      [] t = "skip"   -> Skip(ReadUintX(buf, o))
      [] t = "pad"    -> [ok |-> TRUE, o |-> o + 2, v |-> 0]

Keep(st, name, r) ==
    [ok |-> r.ok, o |-> r.o, h |-> (name :> r.v) @@ st.h, at |-> (name :> st.o) @@ st.at]
ReadField(buf, st, f) == IF st.ok THEN Keep(st, f[2], ReadType(buf, st.o, f[1])) ELSE st

\* Reads the fields, each a type and a name, one after the other.
ReadFields(buf, st, fields) ==
    LET after[i \in 0..Len(fields)] ==
            IF i = 0 THEN st ELSE ReadField(buf, after[i - 1], fields[i])
    IN after[Len(fields)]
============================================================================
