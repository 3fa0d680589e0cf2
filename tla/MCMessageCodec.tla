--------------------------- MODULE MCMessageCodec ---------------------------
(* Headers and data at the lengths where the formats change shape. *)
EXTENDS MessageCodec

\* m235, m236: the version 4 header grows from one to three bytes of length; m65471, m65472:
\* the longest version 2 header; m65514, m65515: from three to five bytes.
Lengths ==
    [s \in {"", "a", "b", "path", "m235", "m236", "m65471", "m65472", "m65514", "m65515"} |->
        CASE s = "" -> 0 [] s \in {"a", "b"} -> 1 [] s = "path" -> 4
          [] s = "m235" -> 235 [] s = "m236" -> 236
          [] s = "m65471" -> 65471 [] s = "m65472" -> 65472
          [] s = "m65514" -> 65514 [] s = "m65515" -> 65515]

Full == {"routing", "endpoint", "priority", "meta", "multiple"}
Meta(m) == [MessageDefaults EXCEPT !.metadata = m]
Routed ==
    [sender_nodeid |-> "n1", receiver_nodeid |-> NoId, sender_nodename |-> "a",
     receiver_nodename |-> "", sender_endpoint |-> 252, receiver_endpoint |-> 253,
     priority |-> 3, metadata |-> "", message_id |-> 0, message_res_id |-> 7,
     entry_count |-> 2]

Plain == [entry_type |-> "call"] @@ EntryDefaults
Rich ==
    [entry_type |-> "reply", service_path |-> "path", service_path_code |-> 65535,
     member_name |-> "a", member_name_code |-> 9, request_id |-> 65536, error |-> 5,
     metadata |-> "b"]

Struct == [element_type |-> "structure", element_name |-> "a"] @@ ElementDefaults
List ==
    [element_name |-> "", element_name_code |-> 9, element_number |-> -200,
     element_type_name |-> "path", element_type_name_code |-> 253, metadata |-> "b",
     element_type |-> "list"]

Block(name, type, len) == [name |-> name, type |-> type, len |-> len, data |-> <<name, type, len>>]
Few == {Block("a", "double", 1), Block("b", "string", 0), Block("a", "double", 3)}
Edges == {Block("b", "uint8", n) : n \in {245, 246, 65524, 65525}}

Begin(h, m, e, s, b, n) ==
    [header |-> h, mask |-> m, entries |-> e, nested |-> s, blocks |-> b, nodes |-> n]
MCMessages ==
    {Begin([MessageDefaults EXCEPT !.entry_count = 65536], Full, {Plain}, {}, {}, 1),
     Begin(MessageDefaults, Full, {Plain}, {Struct}, Few, 4),
     Begin(Routed, Full, {Plain, Rich}, {List}, {Block("a", "double", 3)}, 3),
     Begin(Routed, Full \ {"routing"}, {Rich}, {}, {}, 2),
     Begin(Meta("a"), Full, {Rich}, {Struct}, Edges, 3)}
    \cup {Begin(Meta(m), Full, {Plain}, {}, {}, 1) :
            m \in {"m235", "m236", "m65471", "m65472", "m65514", "m65515"}}

MCNames == {"a", "b"}
Want(kind, type, len) == [kind |-> kind, type |-> type, len |-> len]
MCWants ==
    {Want("scalar", "double", 1), Want("array", "double", 3), Want("vararray", "double", 2),
     Want("vararray", "uint8", 70000), Want("string", "string", 8)}
============================================================================
