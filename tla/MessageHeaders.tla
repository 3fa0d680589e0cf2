--------------------------- MODULE MessageHeaders ---------------------------
(***************************************************************************)
(* The headers of a message, of an entry and of an element, as message.c   *)
(* writes them and, independently, as it reads them, in versions 2 and 4.  *)
(* In version 4 a flag byte says which of the optional fields follow.      *)
(*                                                                         *)
(* A header is a record with the names of the C struct; header_size,       *)
(* message_size, entry_size and element_size are worked out by the writer. *)
(***************************************************************************)
EXTENDS MessageFields

CONSTANT NoId  \* the node id that nodeid_isany recognises

----------------------------------------------------------------------------
(* Message headers. *)

StringBytes(h) == NameLen[h.sender_nodename] + NameLen[h.receiver_nodename] + NameLen[h.metadata]

\* Slip: only the strings are bounded, not the header they make up together.
Header2Fits_Strings(h) ==
    \A s \in {h.sender_nodename, h.receiver_nodename, h.metadata} : NameLen[s] <= 65535

\* A version 2 header holds at most 65535 bytes.
Header2Fits(h) ==
    /\ \A s \in {h.sender_nodename, h.receiver_nodename, h.metadata} : NameLen[s] <= 65535
    /\ StringBytes(h) + 64 <= 65535

\* The count of entries has 16 bits; a larger one is found only when it is to be written.
Count2Fits(h) == h.entry_count <= 65535

MessageCells2(h) ==
    Magic \o U32(0) \o U16(2) \o U16((StringBytes(h) + 64) % 65536)
    \o NodeId(h.sender_nodeid) \o NodeId(h.receiver_nodeid)
    \o U32(h.sender_endpoint) \o U32(h.receiver_endpoint)
    \o String2(h.sender_nodename) \o String2(h.receiver_nodename) \o String2(h.metadata)
    \o Opt(Count2Fits(h), U16(h.entry_count) \o U16(h.message_id) \o U16(h.message_res_id))

\* The optional parts of a version 4 header: allowed by the caller's mask and not all zero.
MessageFlags(h, mask) ==
    mask \cap
    ({f \in {"routing"} : \/ h.sender_nodeid # NoId \/ h.receiver_nodeid # NoId
                          \/ h.sender_nodename # "" \/ h.receiver_nodename # ""}
     \cup {f \in {"endpoint"} : h.sender_endpoint # 0 \/ h.receiver_endpoint # 0}
     \cup {f \in {"priority"} : h.priority # 0}
     \cup {f \in {"meta"} : h.metadata # "" \/ h.message_id # 0 \/ h.message_res_id # 0}
     \cup {f \in {"multiple"} : h.entry_count # 1})

\* Slip: the two message ids are left out of the size of the metadata.
HeaderSize4_NoIds(h, flags) ==
    LenPlusUintX(11
      + (IF "routing" \in flags
         THEN 32 + StringSize4(h.sender_nodename) + StringSize4(h.receiver_nodename) ELSE 0)
      + (IF "endpoint" \in flags
         THEN UintXSize(h.sender_endpoint) + UintXSize(h.receiver_endpoint) ELSE 0)
      + (IF "priority" \in flags THEN 2 ELSE 0)
      + (IF "meta" \in flags THEN StringSize4(h.metadata) ELSE 0)
      + (IF "multiple" \in flags THEN 5 ELSE 0))

\* The size of a version 4 header, worked out before it is written.
HeaderSize4(h, flags) ==
    LenPlusUintX(11
      + (IF "routing" \in flags
         THEN 32 + StringSize4(h.sender_nodename) + StringSize4(h.receiver_nodename) ELSE 0)
      + (IF "endpoint" \in flags
         THEN UintXSize(h.sender_endpoint) + UintXSize(h.receiver_endpoint) ELSE 0)
      + (IF "priority" \in flags THEN 2 ELSE 0)
      + (IF "meta" \in flags THEN StringSize4(h.metadata) + 4 ELSE 0)
      + (IF "multiple" \in flags THEN 5 ELSE 0))

MessageCells4(h, flags) ==
    Magic \o U32(0) \o U16(4) \o UintX(HeaderSize4(h, flags)) \o Flags(flags)
    \o Opt("routing" \in flags,
           NodeId(h.sender_nodeid) \o NodeId(h.receiver_nodeid)
           \o String4(h.sender_nodename) \o String4(h.receiver_nodename))
    \o Opt("endpoint" \in flags, UintX(h.sender_endpoint) \o UintX(h.receiver_endpoint))
    \o Opt("priority" \in flags, U16(h.priority))
    \o Opt("meta" \in flags, String4(h.metadata) \o U16(h.message_id) \o U16(h.message_res_id))
    \o Opt("multiple" \in flags, PaddedUintX(h.entry_count))

\* What a reader returns for the fields a header does not hold.
MessageDefaults ==
    [sender_nodeid |-> NoId, receiver_nodeid |-> NoId, sender_nodename |-> "",
     receiver_nodename |-> "", sender_endpoint |-> 0, receiver_endpoint |-> 0,
     priority |-> 0, metadata |-> "", message_id |-> 0, message_res_id |-> 0,
     entry_count |-> 1]

Cursor(o, defaults) == [ok |-> TRUE, o |-> o, h |-> defaults, at |-> <<>>]

ReadMessageHeader2(buf) ==
    ReadFields(buf, Cursor(0, MessageDefaults),
      << <<"magic", "magic">>, <<"u32", "message_size">>, <<"u16", "message_version">>,
         <<"u16", "header_size">>, <<"nodeid", "sender_nodeid">>, <<"nodeid", "receiver_nodeid">>,
         <<"u32", "sender_endpoint">>, <<"u32", "receiver_endpoint">>,
         <<"string2", "sender_nodename">>, <<"string2", "receiver_nodename">>,
         <<"string2", "metadata">>, <<"u16", "entry_count">>, <<"u16", "message_id">>,
         <<"u16", "message_res_id">> >>)

\* The fields that the flags of a version 4 header announce.
MessageFields4(flags) ==
    Opt("routing" \in flags,
        << <<"nodeid", "sender_nodeid">>, <<"nodeid", "receiver_nodeid">>,
           <<"string4", "sender_nodename">>, <<"string4", "receiver_nodename">> >>)
    \o Opt("endpoint" \in flags,
           << <<"uint_x", "sender_endpoint">>, <<"uint_x", "receiver_endpoint">> >>)
    \o Opt("priority" \in flags, << <<"u16", "priority">> >>)
    \o Opt("meta" \in flags, << <<"string4", "metadata">>, <<"u16", "message_id">>,
           <<"u16", "message_res_id">> >>)
    \o Opt("string_table" \in flags, << <<"skip", "string_table">> >>)
    \o Opt("multiple" \in flags, << <<"uint_x", "entry_count">> >>)
    \o Opt("extended" \in flags, << <<"skip", "extended">> >>)

\* The rest of a message header whose flags have been read.
MessageRest(buf, st) == IF st.ok THEN ReadFields(buf, st, MessageFields4(st.h.flags)) ELSE st

ReadMessageHeader4(buf) ==
    MessageRest(buf, ReadFields(buf, Cursor(0, MessageDefaults),
        << <<"magic", "magic">>, <<"u32", "message_size">>, <<"u16", "message_version">>,
           <<"uint_x", "header_size">>, <<"flags", "flags">> >>))

\* Either version; a header that does not end where its size says is refused.
EndsWhereSaid(st) == [st EXCEPT !.ok = @ /\ st.o = st.h.header_size]
ReadMessageHeader(buf) ==
    LET v == ReadNum(buf, 8, 2) IN
    EndsWhereSaid(IF v.ok /\ v.v = 2 THEN ReadMessageHeader2(buf)
                  ELSE IF v.ok /\ v.v = 4 THEN ReadMessageHeader4(buf)
                  ELSE [ok |-> FALSE, o |-> 0, h |-> [header_size |-> 0], at |-> <<>>])

----------------------------------------------------------------------------
(* Entry headers. *)

EntryCells2(h) ==
    U32(0) \o U16(h.entry_type) \o U16(0) \o String2(h.service_path) \o String2(h.member_name)
    \o U32(h.request_id) \o U16(h.error) \o String2(h.metadata) \o U16(0)

\* No case sets the flag of a member name code.
EntryFlags(h) ==
    {f \in {"path"} : h.service_path # ""} \cup {f \in {"path_code"} : h.service_path_code # 0}
    \cup {f \in {"member"} : h.member_name # ""} \cup {f \in {"request"} : h.request_id # 0}
    \cup {f \in {"error"} : h.error # 0} \cup {f \in {"meta"} : h.metadata # ""}

EntryCells4(h) ==
    LET flags == EntryFlags(h) IN
    PaddedUintX(0) \o Flags(flags) \o U16(h.entry_type)
    \o Opt("path" \in flags, String4(h.service_path))
    \o Opt("path_code" \in flags, UintX(h.service_path_code))
    \o Opt("member" \in flags, String4(h.member_name))
    \o Opt("member_code" \in flags, UintX(h.member_name_code))
    \o Opt("request" \in flags, UintX(h.request_id))
    \o Opt("error" \in flags, U16(h.error))
    \o Opt("meta" \in flags, String4(h.metadata))
    \o PaddedUintX(0)

EntryDefaults ==
    [service_path |-> "", service_path_code |-> 0, member_name |-> "", member_name_code |-> 0,
     request_id |-> 0, error |-> 0, metadata |-> ""]

ReadEntryHeader2(buf, o) ==
    ReadFields(buf, Cursor(o, EntryDefaults),
      << <<"u32", "entry_size">>, <<"u16", "entry_type">>, <<"pad", "reserved">>,
         <<"string2", "service_path">>, <<"string2", "member_name">>, <<"u32", "request_id">>,
         <<"u16", "error">>, <<"string2", "metadata">>, <<"u16", "element_count">> >>)

\* Slip: the request id is taken for a number of fixed width.
EntryFields4_Fixed(flags) ==
    Opt("path" \in flags, << <<"string4", "service_path">> >>)
    \o Opt("path_code" \in flags, << <<"uint_x", "service_path_code">> >>)
    \o Opt("member" \in flags, << <<"string4", "member_name">> >>)
    \o Opt("member_code" \in flags, << <<"uint_x", "member_name_code">> >>)
    \o Opt("request" \in flags, << <<"u32", "request_id">> >>)
    \o Opt("error" \in flags, << <<"u16", "error">> >>)
    \o Opt("meta" \in flags, << <<"string4", "metadata">> >>)
    \o Opt("extended" \in flags, << <<"skip", "extended">> >>)
    \o << <<"uint_x", "element_count">> >>

EntryFields4(flags) ==
    Opt("path" \in flags, << <<"string4", "service_path">> >>)
    \o Opt("path_code" \in flags, << <<"uint_x", "service_path_code">> >>)
    \o Opt("member" \in flags, << <<"string4", "member_name">> >>)
    \o Opt("member_code" \in flags, << <<"uint_x", "member_name_code">> >>)
    \o Opt("request" \in flags, << <<"uint_x", "request_id">> >>)
    \o Opt("error" \in flags, << <<"u16", "error">> >>)
    \o Opt("meta" \in flags, << <<"string4", "metadata">> >>)
    \o Opt("extended" \in flags, << <<"skip", "extended">> >>)
    \o << <<"uint_x", "element_count">> >>

\* The rest of an entry header whose flags have been read.
EntryRest(buf, st) == IF st.ok THEN ReadFields(buf, st, EntryFields4(st.h.flags)) ELSE st

ReadEntryHeader4(buf, o) ==
    EntryRest(buf, ReadFields(buf, Cursor(o, EntryDefaults),
        << <<"uint_x", "entry_size">>, <<"flags", "flags">>, <<"u16", "entry_type">> >>))

ReadEntryHeader(buf, ver, o) == IF ver = 2 THEN ReadEntryHeader2(buf, o) ELSE ReadEntryHeader4(buf, o)

----------------------------------------------------------------------------
(* Element headers.  A structure's header has its size and count filled in *)
(* later; the header of plain data is written with both known.             *)

ElementCells2(h) ==
    U32(0) \o String2(h.element_name) \o U16(h.element_type) \o String2(h.element_type_name)
    \o String2(h.metadata) \o U32(0)

ElementFlags(h) ==
    {f \in {"name"} : h.element_name # ""} \cup {f \in {"name_code"} : h.element_name_code # 0}
    \cup {f \in {"number"} : h.element_number # 0}
    \cup {f \in {"type_name"} : h.element_type_name # ""}
    \cup {f \in {"type_code"} : h.element_type_name_code # 0}
    \cup {f \in {"meta"} : h.metadata # ""}

ElementCells4(h) ==
    LET flags == ElementFlags(h) IN
    PaddedUintX(0) \o Flags(flags)
    \o Opt("name" \in flags, String4(h.element_name))
    \o Opt("name_code" \in flags, UintX(h.element_name_code))
    \o Opt("number" \in flags, IntX(h.element_number))
    \o U16(h.element_type)
    \o Opt("type_name" \in flags, String4(h.element_type_name))
    \o Opt("type_code" \in flags, UintX(h.element_type_name_code))
    \o Opt("meta" \in flags, String4(h.metadata))
    \o PaddedUintX(0)

DataSize2(name, bytes) == 16 + NameLen[name] + bytes

DataHeader2(name, type, len, bytes) ==
    U32(DataSize2(name, bytes)) \o String2(name) \o U16(type) \o U16(0) \o U16(0) \o U32(len)

DataSize4(name, len, bytes) ==
    LenPlusUintX(3 + (IF name # "" THEN StringSize4(name) ELSE 0) + UintXSize(len) + bytes)

DataHeader4(name, type, len, bytes) ==
    UintX(DataSize4(name, len, bytes)) \o Flags({f \in {"name"} : name # ""})
    \o Opt(name # "", String4(name)) \o U16(type) \o UintX(len)

ElementDefaults ==
    [element_name |-> "", element_name_code |-> 0, element_number |-> 0,
     element_type_name |-> "", element_type_name_code |-> 0, metadata |-> ""]

ReadElementHeader2(buf, o) ==
    ReadFields(buf, Cursor(o, ElementDefaults),
      << <<"u32", "element_size">>, <<"string2", "element_name">>, <<"u16", "element_type">>,
         <<"string2", "element_type_name">>, <<"string2", "metadata">>, <<"u32", "data_count">> >>)

ElementFields4(flags) ==
    Opt("name" \in flags, << <<"string4", "element_name">> >>)
    \o Opt("name_code" \in flags, << <<"uint_x", "element_name_code">> >>)
    \o Opt("number" \in flags, << <<"int_x", "element_number">> >>)
    \o << <<"u16", "element_type">> >>
    \o Opt("type_name" \in flags, << <<"string4", "element_type_name">> >>)
    \o Opt("type_code" \in flags, << <<"uint_x", "element_type_name_code">> >>)
    \o Opt("meta" \in flags, << <<"string4", "metadata">> >>)
    \o Opt("extended" \in flags, << <<"skip", "extended">> >>)
    \o << <<"uint_x", "data_count">> >>

\* The rest of an element header whose flags have been read.
ElementRest(buf, st) == IF st.ok THEN ReadFields(buf, st, ElementFields4(st.h.flags)) ELSE st

ReadElementHeader4(buf, o) ==
    ElementRest(buf, ReadFields(buf, Cursor(o, ElementDefaults),
        << <<"uint_x", "element_size">>, <<"flags", "flags">> >>))

ReadElementHeader(buf, ver, o) ==
    IF ver = 2 THEN ReadElementHeader2(buf, o) ELSE ReadElementHeader4(buf, o)
============================================================================
