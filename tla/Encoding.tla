------------------------------ MODULE Encoding ------------------------------
(***************************************************************************)
(* Message bodies on the wire (encoding.cc, encoding_impl.cc), written by  *)
(* the marshal functions of generated messages or by the command line      *)
(* client, and read, at the other end of a byte stream, by the generated   *)
(* unmarshal functions or by the command line client.                      *)
(*                                                                         *)
(* The writer walks a message: a leaf field, into a nested message, out of *)
(* it, the end.  Which call comes next is the message being walked, so the *)
(* walk is a free choice.  The Start tag of a nested message is deferred:  *)
(* the field is pushed on a Stack and written only when a leaf under it    *)
(* has something to write, which is how an empty message is omitted.       *)
(* The reader takes one field at a time, and blocks for bytes that are not *)
(* there yet; its schema may lack fields the writer has.                   *)
(*                                                                         *)
(* A cell of the wire is a varint or one byte of a payload; a bool is the  *)
(* byte 1, which is the varint 1.  A field number has the same kind at     *)
(* every level.  A string stands for its length.                           *)
(*                                                                         *)
(* What leaves nothing on the wire, a leaf of value 0 and a message in     *)
(* which there is nothing to write, is not told from what was never set.   *)
(* For a singular field it is what the reader assumes; an element of a     *)
(* repeated field is lost that way: an empty message of a vector (87-91,   *)
(* 111-121 of encoding.cc), a zero of the dynamic client (call.cc:140-146).*)
(***************************************************************************)
EXTENDS Integers, Sequences, FiniteSets

CONSTANTS
    Fields,      \* the field numbers of the writer's schema
    Type,        \* Type[f]: the protobuf type of field f
    Values,      \* Values[f]: the values a leaf field may be given
    Schemas,     \* the sets of fields a reader may know
    MaxNesting,  \* MaxNesting of encoding.cc
    Capacity,    \* the bytes_size or string_size of the reader's strings
    TagBits,     \* the width of a tag: 32 in the code
    MaxFields,   \* bound: fields and nested messages walked in a run
    MaxMessages  \* bound: messages written

Types == {"int32", "int64", "uint32", "uint64", "fixed32", "fixed64",
          "sfixed32", "sfixed64", "bool", "enum", "float", "double",
          "string", "bytes", "message"}
NegZero == 99          \* -0.0, which equals 0
Garbage == -1          \* a value no field was given
Default(v) == v \in {0, NegZero}

ASSUME FieldsAssumption ==
    /\ Fields \subseteq Nat \ {0}
    /\ Type \in [Fields -> Types]
    /\ Schemas \subseteq SUBSET Fields
ASSUME ValuesAssumption ==
    \A f \in Fields :
        /\ Values[f] \subseteq Nat
        /\ Type[f] = "bool" => Values[f] \subseteq {0, 1}
        /\ NegZero \in Values[f] => Type[f] \in {"float", "double"}
ASSUME LimitsAssumption ==
    MaxNesting \in Nat /\ Capacity \in Nat /\ MaxFields \in Nat
ASSUME TagsAssumption ==
    /\ TagBits \in Nat \ {0}
    /\ \A f \in Fields \cup {0} : 8 * f + 7 < 2 ^ TagBits

VARIABLES
    writer,   \* who writes: generated code or the "dynamic" client
    status,   \* "writing", "failed" or "panic"
    path,     \* the marshal_field calls under way: fields, outermost first
    pending,  \* Stack::elems[0 .. size-1]
    opened,   \* history: fields whose Start is on the wire without its End
    wire,     \* the cells written and not yet read
    saying,   \* history: the leaves of the message being written
    said,     \* history: the messages written to the end
    walked,   \* fields and nested messages walked (only to bound the model)
    reader,   \* who reads: generated code or the "dynamic" client
    known,    \* the fields the reader's schema has
    frames,   \* the unmarshal and skip calls under way
    hearing,  \* the leaves of the message being read
    heard,    \* the messages read to the end
    rerr      \* the reader's error, "" when there is none

writerVars == <<status, path, pending, opened, saying, said, walked>>
readerVars == <<frames, hearing, heard, rerr>>
vars == <<writer, writerVars, wire, reader, known, readerVars>>

Init ==
    /\ writer \in {"generated", "dynamic"}
    /\ status = "writing"
    /\ path = <<>> /\ pending = <<>> /\ opened = <<>>
    /\ wire = <<>>
    /\ saying = <<>> /\ said = <<>> /\ walked = 0
    /\ reader \in {"generated", "dynamic"}
    /\ known \in Schemas
    /\ frames = <<>> /\ hearing = <<>> /\ heard = <<>>
    /\ rerr = ""

-----------------------------------------------------------------------------
(***************************************************************************)
(* Tags and payloads.                                                      *)
(***************************************************************************)

TypeCode == [VarInt |-> 0, I64 |-> 1, Len |-> 2, Start |-> 3, End |-> 4,
             I32 |-> 5]

Varint(n) == [cell |-> "varint", n |-> n]
Bytes(v, count) == [i \in 1..count |-> [cell |-> "byte", of |-> v, at |-> i]]

\* write_tag: the shift is done in 32 bits and stored unsigned.
Tag(f, type) == Varint((8 * f + TypeCode[type]) % 2 ^ TagBits)

\* read_tag: the word is taken as signed before it is shifted.
FieldOf(word) ==
    (IF word < 2 ^ (TagBits - 1) THEN word ELSE word - 2 ^ TagBits) \div 8
TypeOf(word) == word % 8

\* The kinds of value that marshal_field and unmarshal tell apart: signed and
\* unsigned integers, of either width, and the others.  A generated message
\* stores a field with a C++ type of this kind.
StorageKind ==
    [int32 |-> "int", int64 |-> "int", sfixed32 |-> "int", sfixed64 |-> "int",
     uint32 |-> "uint", uint64 |-> "uint", fixed32 |-> "uint",
     fixed64 |-> "uint", enum |-> "int", bool |-> "bool", float |-> "float32",
     double |-> "float64", string |-> "str", bytes |-> "str",
     message |-> "message"]

\* The dynamic client goes by protobuf's cpp_type(), once to write a field and
\* once to read it.
CppType ==
    [int32 |-> "INT32", sfixed32 |-> "INT32", int64 |-> "INT64",
     sfixed64 |-> "INT64", uint32 |-> "UINT32", fixed32 |-> "UINT32",
     uint64 |-> "UINT64", fixed64 |-> "UINT64", enum |-> "ENUM",
     bool |-> "BOOL", float |-> "FLOAT", double |-> "DOUBLE",
     string |-> "STRING", bytes |-> "STRING", message |-> "MESSAGE"]
\* Mutant: an enum is written without ZigZag.
DynamicMarshalEnumPlain ==
    [INT32 |-> "int", INT64 |-> "int", UINT32 |-> "uint", UINT64 |-> "uint",
     DOUBLE |-> "float64", FLOAT |-> "float32", BOOL |-> "bool",
     ENUM |-> "uint", STRING |-> "str", MESSAGE |-> "message"]

DynamicMarshal ==
    [INT32 |-> "int", INT64 |-> "int", UINT32 |-> "uint", UINT64 |-> "uint",
     DOUBLE |-> "float64", FLOAT |-> "float32", BOOL |-> "bool",
     ENUM |-> "int", STRING |-> "str", MESSAGE |-> "message"]
DynamicUnmarshal ==
    [INT32 |-> "int", INT64 |-> "int", UINT32 |-> "uint", UINT64 |-> "uint",
     DOUBLE |-> "float64", FLOAT |-> "float32", BOOL |-> "bool",
     ENUM |-> "int", STRING |-> "str", MESSAGE |-> "message"]

WriterKind(f) == IF writer = "dynamic" THEN DynamicMarshal[CppType[Type[f]]]
                                       ELSE StorageKind[Type[f]]
ReaderKind(f) == IF reader = "dynamic" THEN DynamicUnmarshal[CppType[Type[f]]]
                                       ELSE StorageKind[Type[f]]

\* The wire type and the bytes with which marshal_field writes each kind.
WireType == [int |-> "VarInt", uint |-> "VarInt", bool |-> "VarInt", float32 |-> "I32",
             float64 |-> "I64", str |-> "Len", message |-> "Start"]
Payload(kind, v) ==
    CASE kind = "int"     -> <<Varint(2 * v)>>     \* ZigZag
      [] kind = "uint"    -> <<Varint(v)>>
      [] kind = "bool"    -> <<Varint(1)>>
      [] kind = "float32" -> Bytes(v, 4)
      [] kind = "float64" -> Bytes(v, 8)
      [] kind = "str"     -> <<Varint(v)>> \o Bytes(v, v)

\* marshal_field returns at once for these: the comparison is the type's
\* own, so it takes -0.0 for 0.
Omitted(kind, v) ==
    v = 0 \/ (kind \in {"float32", "float64"} /\ v = NegZero)

TooBig(in) == reader = "generated" /\ in[1].n > Capacity

\* The cells unmarshal<kind> takes from the front of in, when they are there.
\* A generated message keeps a string in an InlineString and reads no more
\* than its length when that exceeds the capacity.
UnmarshalWidth(kind, in) ==
    CASE kind \in {"int", "uint", "bool"} -> 1
      [] kind = "float32" -> 4
      [] kind = "float64" -> 8
      [] kind = "str" -> IF in = <<>> \/ TooBig(in) THEN 1 ELSE 1 + in[1].n

\* The value they make: bytes in their order or no value that was written.
Joined(cells) ==
    IF cells = Bytes(cells[1].of, Len(cells)) THEN cells[1].of ELSE Garbage
Unmarshalled(kind, cells) ==
    CASE kind = "int" -> cells[1].n \div 2
      [] kind = "uint" -> cells[1].n
      [] kind = "bool" -> IF cells[1].n \in {0, 1} THEN cells[1].n ELSE Garbage
      [] kind \in {"float32", "float64"} -> Joined(cells)
      [] kind = "str" -> Joined(Tail(cells))

\* skip() for everything but Start: the cells it discards.
SkipWidth(type, in) ==
    CASE type = TypeCode.VarInt -> 1
      [] type = TypeCode.I32 -> 4
      [] type = TypeCode.I64 -> 8
      [] type = TypeCode.Len -> IF in = <<>> THEN 1 ELSE 1 + in[1].n

-----------------------------------------------------------------------------
(***************************************************************************)
(* The writer.                                                             *)
(***************************************************************************)

Writing == status = "writing" /\ Len(said) < MaxMessages
Last(s) == s[Len(s)]
Front(s) == SubSeq(s, 1, Len(s) - 1)

\* write_tags: every deferred Start, outermost first, then this field's tag.
StartTags(fs) == [i \in 1..Len(fs) |-> Tag(fs[i], "Start")]
\* Mutant: the Stack is not cleared.
WriteFieldNoClear(f, v) ==
    /\ wire' = wire \o StartTags(pending) \o <<Tag(f, WireType[WriterKind(f)])>>
                    \o Payload(WriterKind(f), v)
    /\ opened' = opened \o pending
    /\ UNCHANGED pending

WriteField(f, v) ==
    /\ wire' = wire \o StartTags(pending) \o <<Tag(f, WireType[WriterKind(f)])>>
                    \o Payload(WriterKind(f), v)
    /\ opened' = opened \o pending
    /\ pending' = <<>>

\* marshal_field of a leaf; an enum goes as its int.  The dynamic client writes an
\* element of a repeated field the same way, so one of value 0 is not written either.
MarshalLeaf(f, v) ==
    /\ Writing /\ walked < MaxFields
    /\ WriterKind(f) # "message"
    /\ walked' = walked + 1
    /\ IF Omitted(WriterKind(f), v) THEN UNCHANGED <<wire, opened, pending>>
                              ELSE WriteField(f, v)
    /\ saying' = IF Default(v) THEN saying
                 ELSE Append(saying, [path |-> path, field |-> f, value |-> v])
    /\ UNCHANGED <<writer, status, path, said, reader, known, readerVars>>

\* marshal_message of the dynamic client refuses a message this deep.
TooDeep(depth) == writer = "dynamic" /\ MaxNesting - depth < 0

\* Mutant: push() does not look at the size.
EnterUnchecked(f) ==
    /\ Writing /\ walked < MaxFields
    /\ WriterKind(f) = "message"
    /\ walked' = walked + 1
    /\ pending' = Append(pending, f)
    /\ path' = Append(path, f)
    /\ UNCHANGED <<writer, status, wire, opened, saying, said, reader, known,
                   readerVars>>

\* marshal_field of a message, and of each element of a vector of them, up
\* to the walk of its fields.  The generated code never looks at nesting;
\* the dynamic client checks it on entering the message, after the push.
EnterMessage(f) ==
    /\ Writing /\ walked < MaxFields
    /\ WriterKind(f) = "message"
    /\ walked' = walked + 1
    /\ IF Len(pending) = MaxNesting
       THEN /\ status' = "panic"
            /\ UNCHANGED <<path, pending>>
       ELSE /\ pending' = Append(pending, f)
            /\ path' = Append(path, f)
            /\ status' = IF TooDeep(Len(path) + 1) THEN "failed" ELSE "writing"
    /\ UNCHANGED <<writer, wire, opened, saying, said, reader, known, readerVars>>

\* Mutant: a message that wrote nothing is not taken off the Stack.
LeaveNoPop ==
    /\ Writing
    /\ path # <<>>
    /\ path' = Front(path)
    /\ IF pending = <<>> THEN wire' = Append(wire, Tag(0, "End")) /\ opened' = Front(opened)
                         ELSE UNCHANGED <<wire, opened>>
    /\ UNCHANGED <<writer, status, pending, saying, said, walked, reader, known,
                   readerVars>>

\* The rest of it: an End when the Start went out, else forget the field.
LeaveMessage ==
    /\ Writing
    /\ path # <<>>
    /\ path' = Front(path)
    /\ IF pending = <<>>
       THEN /\ wire' = Append(wire, Tag(0, "End"))
            /\ opened' = Front(opened)
            /\ UNCHANGED pending
       ELSE /\ pending' = Front(pending)
            /\ UNCHANGED <<wire, opened>>
    /\ UNCHANGED <<writer, status, saying, said, walked, reader, known, readerVars>>

\* marshal(): the End of the body.  The next message has a new Stack.
FinishMessage ==
    /\ Writing
    /\ path = <<>>
    /\ wire' = Append(wire, Tag(0, "End"))
    /\ said' = Append(said, saying)
    /\ saying' = <<>>
    /\ pending' = <<>>
    /\ UNCHANGED <<writer, status, path, opened, walked, reader, known, readerVars>>

\* The connection fails: the write under way returns its error through every
\* marshal function, and what was not delivered is lost.
ConnectionLost ==
    /\ status = "writing"
    /\ status' = "failed"
    /\ \E kept \in 0..Len(wire) : wire' = SubSeq(wire, 1, kept)
    /\ UNCHANGED <<writer, path, pending, opened, saying, said, walked, reader,
                   known, readerVars>>

-----------------------------------------------------------------------------
(***************************************************************************)
(* The reader.  A frame is one call: of unmarshal (of a message) or of     *)
(* skip (of a Start), with its nesting argument.                           *)
(***************************************************************************)

Frame(skipping, f, nesting) ==
    [skipping |-> skipping, field |-> f, nesting |-> nesting]
ReadPath == [i \in 1..Len(frames) - 1 |-> frames[i + 1].field]

\* unmarshal() of a message at the top.
BeginMessage ==
    /\ rerr = "" /\ frames = <<>>
    /\ Len(heard) < MaxMessages
    /\ frames' = <<Frame(FALSE, 0, MaxNesting)>>
    /\ UNCHANGED <<writer, writerVars, wire, reader, known, hearing, heard, rerr>>

Stop(why) == rerr' = why /\ UNCHANGED <<wire, frames, hearing, heard>>
Take(n) == wire' = SubSeq(wire, n + 1, Len(wire))

\* An End: the innermost call returns; the outermost one has the message.
ReadEnd ==
    /\ Take(1)
    /\ frames' = Front(frames)
    /\ IF Len(frames) = 1 THEN heard' = Append(heard, hearing) /\ hearing' = <<>>
                          ELSE UNCHANGED <<heard, hearing>>
    /\ UNCHANGED rerr

\* Mutant: the last level of nesting is refused.
DescendOneLess(skipping, f, nesting) ==
    IF nesting <= 0 THEN Stop("excessive nesting")
    ELSE /\ Take(1)
         /\ frames' = Append(frames, Frame(skipping, f, nesting))
         /\ UNCHANGED <<hearing, heard, rerr>>

\* Into a Start tag, with the nesting left: unmarshal and skip refuse to go
\* below 0.
Descend(skipping, f, nesting) ==
    IF nesting < 0 THEN Stop("excessive nesting")
    ELSE /\ Take(1)
         /\ frames' = Append(frames, Frame(skipping, f, nesting))
         /\ UNCHANGED <<hearing, heard, rerr>>

\* A field the reader knows, read as the kind its own schema gives it: the
\* type in the tag is not looked at.
ReadLeaf(f) ==
    LET in == Tail(wire)
        n == UnmarshalWidth(ReaderKind(f), in)
    IN  IF ReaderKind(f) = "str" /\ TooBig(in) THEN Stop("data too big")
        ELSE /\ Take(n + 1)
             /\ hearing' = Append(hearing,
                  [path |-> ReadPath, field |-> f,
                   value |-> Unmarshalled(ReaderKind(f), SubSeq(in, 1, n))])
             /\ UNCHANGED <<frames, heard, rerr>>

\* skip() of a field that is not known, called with the nesting given.
SkipField(f, type, nesting) ==
    CASE type = TypeCode.Start -> Descend(TRUE, f, nesting)
      [] type \in {TypeCode.VarInt, TypeCode.I64, TypeCode.Len, TypeCode.I32} ->
            /\ Take(1 + SkipWidth(type, Tail(wire)))
            /\ UNCHANGED <<frames, hearing, heard, rerr>>
      [] OTHER -> Stop("invalid tag")

\* The next field on the wire, and whether the innermost call knows it.
NextField == FieldOf(wire[1].n)
NextType == TypeOf(wire[1].n)
NextIsKnown == ~Last(frames).skipping /\ NextField \in known

\* The cells the next round of the innermost call's loop needs.
Needed ==
    IF wire = <<>> \/ NextType \in {TypeCode.Start, TypeCode.End} THEN 1
    ELSE 1 + (IF NextIsKnown THEN UnmarshalWidth(ReaderKind(NextField), Tail(wire))
                             ELSE SkipWidth(NextType, Tail(wire)))

\* The nesting a field is skipped with: unmarshal_message of the dynamic
\* client passes its own on.
SkipNesting(nesting) ==
    IF reader = "dynamic" /\ ~Last(frames).skipping THEN nesting ELSE nesting - 1

\* One round of that loop.
ReadField ==
    /\ rerr = "" /\ frames # <<>>
    /\ Len(wire) >= Needed
    /\ LET nesting == Last(frames).nesting
       IN  CASE NextType = TypeCode.End -> ReadEnd
             [] NextType # TypeCode.End /\ NextIsKnown ->
                    IF ReaderKind(NextField) = "message"
                    THEN Descend(FALSE, NextField, nesting - 1)
                    ELSE ReadLeaf(NextField)
             [] NextType # TypeCode.End /\ ~NextIsKnown ->
                    SkipField(NextField, NextType, SkipNesting(nesting))
    /\ UNCHANGED <<writer, writerVars, reader, known>>

\* The stream has ended inside a message.
ReadEOF ==
    /\ rerr = "" /\ frames # <<>>
    /\ status # "writing"
    /\ Len(wire) < Needed
    /\ Stop("end of file")
    /\ UNCHANGED <<writer, writerVars, reader, known>>

-----------------------------------------------------------------------------
Write ==
    \/ \E f \in Fields : \E v \in Values[f] : MarshalLeaf(f, v)
    \/ \E f \in Fields : EnterMessage(f)
    \/ LeaveMessage
    \/ FinishMessage
Read == BeginMessage \/ ReadField \/ ReadEOF

Next == Write \/ ConnectionLost \/ Read
Spec == Init /\ [][Next]_vars

-----------------------------------------------------------------------------
(***************************************************************************)
(* Properties.                                                             *)
(***************************************************************************)

\* The types of the writer's variables (encoding.cc:38-62): the Stack never
\* holds more than its array.
TypeOK ==
    /\ status \in {"writing", "failed", "panic"}
    /\ path \in Seq(Fields) /\ opened \in Seq(Fields)
    /\ pending \in Seq(Fields) /\ Len(pending) <= MaxNesting

\* The deferred Start tags (encoding.cc:77-92, encoding_impl.cc:186-196):
\* the fields whose Start is on the wire without its End, followed by those
\* still on the Stack, are the marshal_field calls under way.  So the End a
\* message writes is its own and never one of a message around it, and the
\* field it takes off the Stack is its own too, whatever was written, left
\* out or entered in between.
OpenTagsMatchPath == path = opened \o pending

\* marshal_field panics on a full Stack (encoding.cc:42-47) only when the
\* message is nested MaxNesting deep.
PanicsOnlyTooDeep == status = "panic" => Len(path) >= MaxNesting

\* The leaves of a message that a reader of schema k can see: their places,
\* and that seen lists them in order.
Visible(leaves, k) ==
    {i \in DOMAIN leaves :
        /\ leaves[i].field \in k
        /\ \A d \in DOMAIN leaves[i].path : leaves[i].path[d] \in k}
AreSeen(seen, leaves, k) ==
    LET visible == Visible(leaves, k)
    IN  /\ Len(seen) = Cardinality(visible)
        /\ \A i \in visible :
              seen[Cardinality({j \in visible : j <= i})] = leaves[i]

\* What is read is what was written (encoding.cc:123-140): the messages the
\* reader completes are the first messages the writer completed, in order,
\* each with every leaf of a field the reader knows, under its own path, and
\* no other; fields it does not know are skipped whole (README.md:440-443).
\* Leaves of value 0 and messages without a leaf are not counted, so the
\* elements of repeated fields that are lost with them are not either.
\* A stream cut anywhere never yields a message, and a reader that is inside a
\* message written to the end never waits for a byte its writer does not send.
RoundTrip ==
    /\ Len(heard) <= Len(said)
    /\ \A i \in 1..Len(heard) : AreSeen(heard[i], said[i], known)
    /\ Len(heard) < Len(said) /\ status = "writing" /\ rerr = "" /\ frames # <<>>
         => Len(wire) >= Needed

\* The reader refuses a message (encoding.cc:133-140, encoding_impl.cc:31-85,
\* 391-404, call.cc:161-166) only for what its writer can be blamed for: a
\* leaf nested deeper than MaxNesting, a string longer than the reader's own
\* capacity, a connection that was lost.  In particular skipping an unknown
\* field neither loses its place nor runs out of nesting first.
Written == {saying[i] : i \in 1..Len(saying)} \cup
           UNION {{said[m][i] : i \in 1..Len(said[m])} : m \in 1..Len(said)}
ErrorsHaveCause ==
    /\ rerr \in {"", "end of file", "excessive nesting", "data too big"}
    /\ rerr = "excessive nesting" =>
          \E leaf \in Written : Len(leaf.path) > MaxNesting
    /\ rerr = "data too big" =>
          \E leaf \in Written : WriterKind(leaf.field) = "str" /\ leaf.value > Capacity
    /\ rerr = "end of file" => status # "writing"
=============================================================================
