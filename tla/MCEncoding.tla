---------------------------- MODULE MCEncoding ----------------------------
(***************************************************************************)
(* Schemas for the encoder and decoder: messages in messages, every type   *)
(* of leaf, and a field number at the top of protobuf's range.             *)
(***************************************************************************)
EXTENDS Encoding

\* Leaves of the kinds that are written differently and of types that two
\* clients could take for different kinds, alone or under messages; a reader
\* that knows all, one that knows some, one that lacks a message.
AllFields == 1..10
AllType == <<"sfixed32", "bool", "float", "double", "bytes", "message",
             "enum", "fixed64", "uint32", "message">>
AllValues == <<{2}, {0, 1}, {NegZero}, {1}, {2, 3}, {}, {1}, {3}, {1}, {}>>
AllSchemas == {1..10, {2, 3, 6, 7}}

\* Tags of 8 bits: a field number of 28 bits in 32 is one of 4 in 8.
HighFields == {1, 16}
HighType == [f \in HighFields |-> "int32"]
HighValues == [f \in HighFields |-> {0, 1}]
HighSchemas == {{1, 16}}
=============================================================================
