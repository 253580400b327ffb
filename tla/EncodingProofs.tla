--------------------------- MODULE EncodingProofs ---------------------------
(***************************************************************************)
(* Proofs about Encoding, for every schema, every nesting limit and every  *)
(* message.                                                                *)
(*                                                                         *)
(* The writer: deferred Start tags stay matched with their Ends, and the   *)
(* Stack overflows only under a message nested too deep (TagInv).          *)
(*                                                                         *)
(* The stream: the reader makes the messages the writer made, and refuses  *)
(* one only for a reason the writer gave it (StreamInv).  The cells on the *)
(* wire are the encodings of a chain of tokens, a Start, a leaf or an End  *)
(* each.  Every place between two tokens has a configuration: the messages *)
(* open there, the leaves of the message so far and the messages before    *)
(* it.  The writer is always at the last configuration of the chain, the   *)
(* reader at the first: a write makes the chain longer, a round of the     *)
(* reader's loop takes exactly the first token off it.                     *)
(***************************************************************************)
EXTENDS Encoding, SequenceTheorems, FiniteSetTheorems, TLAPS

\* What is inductive: the three facts need one another (an End closes the
\* innermost open field because the open fields are the path).
TagInv == TypeOK /\ OpenTagsMatchPath /\ PanicsOnlyTooDeep

\* Dropping the last element of a sequence.
LEMMA FrontProperties ==
  ASSUME NEW S, NEW s \in Seq(S), s # <<>>
  PROVE  /\ Front(s) \in Seq(S)
         /\ Len(s) \in Nat \ {0}
         /\ Len(Front(s)) = Len(s) - 1
         /\ \A i \in 1..Len(Front(s)) : Front(s)[i] = s[i]
<1>1. Len(s) \in Nat \ {0}
  BY EmptySeq
<1>2. \A i \in 1..Len(s) - 1 : s[i] \in S
  BY <1>1, ElementOfSeq
<1>3. ASSUME NEW n \in Nat \ {0}
      PROVE  /\ 1 \in Int /\ n - 1 \in Int
             /\ (IF 1 <= n - 1 THEN n - 1 - 1 + 1 ELSE 0) = n - 1
             /\ n - 1 - 1 + 1 = n - 1
             /\ \A i \in 1..n - 1 : 1 + i - 1 = i
  OBVIOUS
<1>4. /\ SubSeq(s, 1, Len(s) - 1) \in Seq(S)
      /\ Len(SubSeq(s, 1, Len(s) - 1)) = Len(s) - 1
      /\ \A i \in 1..Len(s) - 1 : SubSeq(s, 1, Len(s) - 1)[i] = s[i]
  <2> DEFINE n == Len(s)
  <2>1. n \in Nat \ {0}
    BY <1>1
  <2>2. \A i \in 1..n - 1 : s[i] \in S
    BY <1>2
  <2>3. /\ SubSeq(s, 1, n - 1) \in Seq(S)
        /\ Len(SubSeq(s, 1, n - 1)) = IF 1 <= n - 1 THEN n - 1 - 1 + 1 ELSE 0
        /\ \A i \in 1..n - 1 - 1 + 1 : SubSeq(s, 1, n - 1)[i] = s[1 + i - 1]
    <3> HIDE DEF n
    <3>1. 1 \in Int /\ n - 1 \in Int
      BY <2>1
    <3>2. QED
      BY ONLY <2>2, <3>1, SubSeqProperties, SMTT(30)
  <2>4. QED
    BY <2>1, <2>3, <1>3
<1>5. QED
  BY <1>1, <1>4 DEF Front

\* The last call under way is the last deferred one, when there is one.
LEMMA FrontOfConcat ==
  ASSUME NEW S, NEW s \in Seq(S), NEW t \in Seq(S), t # <<>>
  PROVE  Front(s \o t) = s \o Front(t)
<1>1. /\ s \o t \in Seq(S)
      /\ Len(s \o t) = Len(s) + Len(t)
      /\ \A i \in 1..Len(s) + Len(t) :
            (s \o t)[i] = IF i <= Len(s) THEN s[i] ELSE t[i - Len(s)]
  BY ConcatProperties
<1>2. Len(t) \in Nat \ {0} /\ Len(s) \in Nat
  BY EmptySeq, LenProperties
<1>3. s \o t # <<>>
  BY <1>1, <1>2
<1>4. /\ Front(s \o t) \in Seq(S)
      /\ Len(Front(s \o t)) = Len(s) + Len(t) - 1
      /\ \A i \in 1..Len(Front(s \o t)) : Front(s \o t)[i] = (s \o t)[i]
  <2> DEFINE u == s \o t
  <2>1. u \in Seq(S) /\ u # <<>> /\ Len(u) = Len(s) + Len(t)
    BY <1>1, <1>3
  <2> HIDE DEF u
  <2>2. /\ Front(u) \in Seq(S) /\ Len(Front(u)) = Len(u) - 1
        /\ \A i \in 1..Len(Front(u)) : Front(u)[i] = u[i]
    BY <2>1, FrontProperties
  <2>3. QED
    BY <2>1, <2>2 DEF u
<1>5. /\ Front(t) \in Seq(S)
      /\ Len(Front(t)) = Len(t) - 1
      /\ \A i \in 1..Len(Front(t)) : Front(t)[i] = t[i]
  BY FrontProperties
<1>6. /\ s \o Front(t) \in Seq(S)
      /\ Len(s \o Front(t)) = Len(s) + Len(Front(t))
      /\ \A i \in 1..Len(s) + Len(Front(t)) :
            (s \o Front(t))[i] = IF i <= Len(s) THEN s[i] ELSE Front(t)[i - Len(s)]
  BY <1>5, ConcatProperties
<1>7. Len(Front(s \o t)) = Len(s \o Front(t))
  BY <1>2, <1>4, <1>5, <1>6
<1>8. ASSUME NEW i \in 1..Len(Front(s \o t))
      PROVE  Front(s \o t)[i] = (s \o Front(t))[i]
  <2>1. i \in 1..Len(s) + Len(t) /\ i \in 1..Len(s) + Len(Front(t))
    BY <1>2, <1>4, <1>5
  <2>2. CASE i <= Len(s)
    BY <2>1, <2>2, <1>1, <1>4, <1>6
  <2>3. CASE ~(i <= Len(s))
    <3>1. i - Len(s) \in 1..Len(Front(t))
      BY <2>1, <2>3, <1>2, <1>5
    <3>2. QED
      BY <2>1, <2>3, <3>1, <1>1, <1>4, <1>5, <1>6
  <2>4. QED
    BY <2>2, <2>3
<1>9. QED
  BY <1>4, <1>6, <1>7, <1>8, SeqEqual

\* A new walk has an empty Stack and nothing open (encoding.cc:123-131).
LEMMA InitTagInv == Init => TagInv
<1> SUFFICES ASSUME Init PROVE TagInv
  OBVIOUS
<1>1. <<>> \in Seq(Fields) /\ Len(<<>>) = 0
  BY EmptySeq
<1>2. opened \o pending = path
  BY <1>1, ConcatEmptySeq DEF Init
<1>3. TypeOK
  <2>1. status = "writing" /\ path = <<>> /\ pending = <<>> /\ opened = <<>>
    BY DEF Init
  <2>2. Len(pending) <= MaxNesting
    BY <1>1, <2>1, LimitsAssumption
  <2>3. QED
    BY <1>1, <2>1, <2>2 DEF TypeOK
<1>4. OpenTagsMatchPath
  BY <1>2 DEF OpenTagsMatchPath
<1>5. PanicsOnlyTooDeep
  BY DEF Init, PanicsOnlyTooDeep
<1>6. QED
  BY <1>3, <1>4, <1>5 DEF TagInv

\* write_tags moves every deferred field to the wire (encoding_impl.cc:186-196).
LEMMA LeafTagInv ==
  ASSUME TagInv, NEW f \in Fields, NEW v \in Values[f], MarshalLeaf(f, v)
  PROVE  TagInv'
<1>1. CASE UNCHANGED <<opened, pending>>
  BY <1>1 DEF TagInv, TypeOK, OpenTagsMatchPath, PanicsOnlyTooDeep, MarshalLeaf
<1>2. CASE opened' = opened \o pending /\ pending' = <<>>
  <2>1. opened' \in Seq(Fields) /\ pending' \in Seq(Fields) /\ Len(pending') = 0
    BY <1>2, ConcatProperties, EmptySeq DEF TagInv, TypeOK
  <2>2. opened' \o pending' = opened'
    BY <1>2, <2>1, ConcatEmptySeq
  <2>3. QED
    BY <1>2, <2>1, <2>2, LimitsAssumption
    DEF TagInv, TypeOK, OpenTagsMatchPath, PanicsOnlyTooDeep, MarshalLeaf
<1>3. QED
  BY <1>1, <1>2 DEF MarshalLeaf, WriteField

\* A message defers its own field, or finds MaxNesting of them deferred
\* (encoding.cc:42-47, 80).
LEMMA EnterTagInv ==
  ASSUME TagInv, NEW f \in Fields, EnterMessage(f)
  PROVE  TagInv'
<1>1. /\ path \in Seq(Fields) /\ opened \in Seq(Fields) /\ pending \in Seq(Fields)
      /\ path = opened \o pending
      /\ Len(pending) \in Nat /\ Len(opened) \in Nat
      /\ Len(path) = Len(opened) + Len(pending)
  BY ConcatProperties, LenProperties DEF TagInv, TypeOK, OpenTagsMatchPath
<1>2. CASE Len(pending) = MaxNesting
  <2>1. /\ status' = "panic" /\ path' = path /\ pending' = pending
        /\ opened' = opened
    BY <1>2 DEF EnterMessage
  <2>2. Len(path) >= MaxNesting
    BY <1>1, <1>2
  <2>3. TypeOK'
    BY <2>1 DEF TagInv, TypeOK
  <2>4. OpenTagsMatchPath' /\ PanicsOnlyTooDeep'
    BY <1>1, <2>1, <2>2 DEF OpenTagsMatchPath, PanicsOnlyTooDeep
  <2>5. QED
    BY <2>3, <2>4 DEF TagInv
<1>3. CASE Len(pending) # MaxNesting
  <2>1. pending' = Append(pending, f) /\ path' = Append(path, f) /\ opened' = opened
    BY <1>3 DEF EnterMessage
  <2>2. /\ pending' \in Seq(Fields) /\ path' \in Seq(Fields)
        /\ Len(pending') = Len(pending) + 1
    BY <1>1, <2>1, AppendProperties
  <2>3. /\ path' = path \o <<f>> /\ pending' = pending \o <<f>>
        /\ <<f>> \in Seq(Fields)
    BY <1>1, <2>1, AppendIsConcat
  <2>4. path' = opened' \o pending'
    BY <1>1, <2>1, <2>3, ConcatAssociative
  <2>5. Len(pending') <= MaxNesting
    BY <1>1, <1>3, <2>2, LimitsAssumption DEF TagInv, TypeOK
  <2>6. status' \in {"writing", "failed"}
    BY <1>3 DEF EnterMessage
  <2>7. QED
    BY <1>1, <2>1, <2>2, <2>4, <2>5, <2>6
    DEF TagInv, TypeOK, OpenTagsMatchPath, PanicsOnlyTooDeep
<1>4. QED
  BY <1>2, <1>3

\* A message that wrote its Start ends the innermost open field; one that did
\* not forgets its own (encoding.cc:87-91).
LEMMA LeaveTagInv ==
  ASSUME TagInv, LeaveMessage
  PROVE  TagInv'
<1>1. /\ path \in Seq(Fields) /\ opened \in Seq(Fields) /\ pending \in Seq(Fields)
      /\ path = opened \o pending /\ path # <<>>
      /\ Len(pending) \in Nat
      /\ status = "writing" /\ status' = status
  BY LenProperties DEF TagInv, TypeOK, OpenTagsMatchPath, LeaveMessage, Writing
<1>2. path' = Front(path) /\ path' \in Seq(Fields)
  BY <1>1, FrontProperties DEF LeaveMessage
<1>3. CASE pending = <<>>
  <2>1. opened = path /\ opened' = Front(opened) /\ pending' = <<>>
    BY <1>1, <1>3, ConcatEmptySeq DEF LeaveMessage
  <2>2. opened' \o pending' = opened'
    BY <1>2, <2>1, ConcatEmptySeq
  <2>3. QED
    BY <1>1, <1>2, <1>3, <2>1, <2>2
    DEF TagInv, TypeOK, OpenTagsMatchPath, PanicsOnlyTooDeep
<1>4. CASE pending # <<>>
  <2>1. opened' = opened /\ pending' = Front(pending)
    BY <1>4 DEF LeaveMessage
  <2>2. pending' \in Seq(Fields) /\ Len(pending') = Len(pending) - 1
    BY <1>1, <1>4, <2>1, FrontProperties
  <2>3. path' = opened' \o pending'
    BY <1>1, <1>2, <1>4, <2>1, FrontOfConcat
  <2>4. Len(pending') <= MaxNesting
    BY <1>1, <2>2, LimitsAssumption DEF TagInv, TypeOK
  <2>5. QED
    BY <1>1, <1>2, <2>1, <2>2, <2>3, <2>4
    DEF TagInv, TypeOK, OpenTagsMatchPath, PanicsOnlyTooDeep
<1>5. QED
  BY <1>3, <1>4

\* At the end of a body nothing is open or deferred (encoding.cc:123-131).
LEMMA FinishTagInv ==
  ASSUME TagInv, FinishMessage
  PROVE  TagInv'
<1>1. /\ opened \in Seq(Fields) /\ pending \in Seq(Fields)
      /\ path = opened \o pending /\ path = <<>>
  BY DEF TagInv, TypeOK, OpenTagsMatchPath, FinishMessage
<1>2. opened = <<>> /\ pending = <<>>
  <2>1. Len(opened \o pending) = 0
    BY <1>1, EmptySeq
  <2>2. Len(opened) + Len(pending) = 0
    BY <1>1, <2>1, ConcatProperties
  <2>3. QED
    BY <1>1, <2>2, EmptySeq, LenProperties
<1>3. pending' = pending
  BY <1>2 DEF FinishMessage
<1>4. QED
  BY <1>3 DEF TagInv, TypeOK, OpenTagsMatchPath, PanicsOnlyTooDeep, FinishMessage

\* Every step of the writer and of the reader keeps the invariant.
LEMMA NextTagInv == TagInv /\ [Next]_vars => TagInv'
<1> SUFFICES ASSUME TagInv, [Next]_vars PROVE TagInv'
  OBVIOUS
<1> USE DEF TagInv, TypeOK, OpenTagsMatchPath, PanicsOnlyTooDeep
<1>1. ASSUME NEW f \in Fields, NEW v \in Values[f], MarshalLeaf(f, v)
      PROVE  TagInv'
  BY <1>1, LeafTagInv
<1>2. ASSUME NEW f \in Fields, EnterMessage(f) PROVE TagInv'
  BY <1>2, EnterTagInv
<1>3. CASE LeaveMessage
  BY <1>3, LeaveTagInv
<1>4. CASE FinishMessage
  BY <1>4, FinishTagInv
<1>5. CASE ConnectionLost
  BY <1>5 DEF ConnectionLost
<1>6. CASE BeginMessage
  BY <1>6 DEF BeginMessage, writerVars
<1>7. CASE ReadField
  BY <1>7 DEF ReadField, writerVars
<1>8. CASE ReadEOF
  BY <1>8 DEF ReadEOF, writerVars
<1>9. CASE UNCHANGED vars
  BY <1>9 DEF vars, writerVars
<1>10. QED
  BY <1>1, <1>2, <1>3, <1>4, <1>5, <1>6, <1>7, <1>8, <1>9 DEF Next, Write, Read

\* The Stack of deferred fields never holds more than its array
\* (encoding.cc:38-62).
THEOREM TypeCorrect == Spec => []TypeOK
<1>1. TagInv => TypeOK
  BY DEF TagInv
<1>2. QED
  BY <1>1, InitTagInv, NextTagInv, PTL DEF Spec

\* Every End written is that of the message whose marshal_field writes it
\* (encoding.cc:77-92, encoding_impl.cc:186-196).
THEOREM StartsMatchEnds == Spec => []OpenTagsMatchPath
<1>1. TagInv => OpenTagsMatchPath
  BY DEF TagInv
<1>2. QED
  BY <1>1, InitTagInv, NextTagInv, PTL DEF Spec

\* The Stack is full only under MaxNesting messages (encoding.cc:42-47).
THEOREM StackSuffices == Spec => []PanicsOnlyTooDeep
<1>1. TagInv => PanicsOnlyTooDeep
  BY DEF TagInv
<1>2. QED
  BY <1>1, InitTagInv, NextTagInv, PTL DEF Spec

-----------------------------------------------------------------------------
(***************************************************************************)
(* Tags, payloads and what the reader makes of them.                       *)
(***************************************************************************)

\* The kind of a field, on either side.
Kind(f) == StorageKind[Type[f]]

\* A cell of the wire.
Cell == [cell : {"varint"}, n : Nat] \cup [cell : {"byte"}, of : Nat, at : Nat]

\* The generated code and the command line client give a field the same kind,
\* the one its type has (protoc_serialrpc_plugin.cc, call.cc).
LEMMA KindsAgree ==
  ASSUME NEW f \in Fields
  PROVE  /\ DynamicMarshal[CppType[Type[f]]] = Kind(f)
         /\ DynamicUnmarshal[CppType[Type[f]]] = Kind(f)
         /\ Kind(f) \in {"int", "uint", "bool", "float32", "float64", "str", "message"}
         /\ Kind(f) = "bool" <=> Type[f] = "bool"
         /\ Type[f] \in {"float", "double"} => Kind(f) \in {"float32", "float64"}
<1>1. Type[f] \in Types
  BY FieldsAssumption
<1> DEFINE t == Type[f]
<1>2. t \in Types
  BY <1>1
<1>3. QED
  <2> HIDE DEF t
  <2>1. /\ DynamicMarshal[CppType[t]] = StorageKind[t]
        /\ DynamicUnmarshal[CppType[t]] = StorageKind[t]
        /\ StorageKind[t] \in {"int", "uint", "bool", "float32", "float64", "str", "message"}
        /\ StorageKind[t] = "bool" <=> t = "bool"
        /\ t \in {"float", "double"} => StorageKind[t] \in {"float32", "float64"}
    BY <1>2 DEF Types, DynamicMarshal, DynamicUnmarshal, CppType, StorageKind
  <2>2. QED
    BY <2>1 DEF t, Kind

\* The field numbers below 2^28 in the code: read_tag takes a tag as signed, so
\* a number above them does not come back (the run EncodingHighField).
LowFields == \A f \in Fields \cup {0} : 8 * f + 7 < 2 ^ (TagBits - 1)

\* A tag of such a field comes back as its field and type (encoding_impl.cc).
LEMMA TagDecodes ==
  ASSUME LowFields, NEW f \in Fields \cup {0}, NEW type \in DOMAIN TypeCode
  PROVE  /\ Tag(f, type) = Varint(8 * f + TypeCode[type])
         /\ FieldOf(8 * f + TypeCode[type]) = f
         /\ TypeOf(8 * f + TypeCode[type]) = TypeCode[type]
         /\ 8 * f + TypeCode[type] \in Nat
<1>1. f \in Nat
  BY FieldsAssumption
<1>2. TypeCode[type] \in 0..7
  BY DEF TypeCode
<1> DEFINE c == TypeCode[type]
<1>3. (8 * f + c) \div 8 = f /\ (8 * f + c) % 8 = c
  BY <1>1, <1>2
<1>4. 8 * f + c < 2 ^ (TagBits - 1) /\ 8 * f + c < 2 ^ TagBits
  <2>1. 8 * f + 7 < 2 ^ (TagBits - 1) /\ 8 * f + 7 < 2 ^ TagBits
    BY TagsAssumption DEF LowFields
  <2>2. 2 ^ (TagBits - 1) \in Int /\ 2 ^ TagBits \in Int
    BY TagsAssumption
  <2>3. QED
    BY <1>1, <1>2, <2>1, <2>2
<1>5. (8 * f + c) % 2 ^ TagBits = 8 * f + c
  <2>1. 2 ^ TagBits \in Int
    BY TagsAssumption
  <2>2. \A n \in Int, x \in Nat : x < n => x % n = x
    OBVIOUS
  <2>3. 8 * f + c \in Nat
    BY <1>1, <1>2
  <2>4. QED
    BY <1>4, <2>1, <2>2, <2>3
<1>6. QED
  BY <1>1, <1>2, <1>3, <1>4, <1>5 DEF Tag, FieldOf, TypeOf

\* The bytes of a payload.
LEMMA BytesFacts ==
  ASSUME NEW v \in Nat, NEW n \in Nat
  PROVE  /\ Bytes(v, n) \in Seq(Cell)
         /\ Len(Bytes(v, n)) = n
         /\ n # 0 => Joined(Bytes(v, n)) = v
<1>1. Bytes(v, n) \in [1..n -> Cell]
  BY DEF Bytes, Cell
<1>2. Bytes(v, n) \in Seq(Cell) /\ Len(Bytes(v, n)) = n
  BY <1>1
<1>3. ASSUME n # 0 PROVE Joined(Bytes(v, n)) = v
  <2>1. Bytes(v, n)[1].of = v
    BY <1>3 DEF Bytes
  <2>2. QED
    BY <1>2, <2>1 DEF Joined
<1>4. QED
  BY <1>2, <1>3

\* What follows the first cell.
LEMMA TailOfCons ==
  ASSUME NEW S, NEW x \in S, NEW s \in Seq(S)
  PROVE  /\ <<x>> \o s \in Seq(S) /\ <<x>> \o s # <<>> /\ Len(<<x>> \o s) = 1 + Len(s)
         /\ (<<x>> \o s)[1] = x /\ Tail(<<x>> \o s) = s
<1>1. <<x>> \in Seq(S) /\ Len(<<x>>) = 1 /\ <<x>>[1] = x /\ Len(s) \in Nat
  OBVIOUS
<1> DEFINE c == <<x>> \o s
<1>2. /\ c \in Seq(S) /\ Len(c) = 1 + Len(s)
      /\ \A i \in 1..1 + Len(s) : c[i] = IF i <= 1 THEN <<x>>[i] ELSE s[i - 1]
  BY <1>1, ConcatProperties
<1>3. c # <<>>
  BY <1>1, <1>2
<1>4. c[1] = x
  BY <1>1, <1>2
<1> HIDE DEF c
<1>5. /\ Tail(c) \in Seq(S) /\ Len(Tail(c)) = Len(c) - 1
      /\ \A i \in 1..Len(Tail(c)) : Tail(c)[i] = c[i + 1]
  BY <1>2, <1>3, HeadTailProperties
<1>6. Len(Tail(c)) = Len(s)
  BY <1>1, <1>2, <1>5
<1>7. ASSUME NEW i \in 1..Len(Tail(c)) PROVE Tail(c)[i] = s[i]
  BY <1>1, <1>2, <1>5, <1>6
<1>8. Tail(c) = s
  BY <1>5, <1>6, <1>7, SeqEqual
<1>9. QED
  BY <1>2, <1>3, <1>4, <1>8 DEF c

\* A sequence is its first element and the rest.
LEMMA ConsOfTail ==
  ASSUME NEW S, NEW s \in Seq(S), s # <<>>
  PROVE  s = <<s[1]>> \o Tail(s)
<1>1. Len(s) \in Nat \ {0} /\ s[1] \in S
  BY EmptySeq, ElementOfSeq
<1>2. 1 \in 1..Len(s) /\ Len(s) \in 1..Len(s)
  BY <1>1
<1>3. SubSeq(s, 1, Len(s)) = <<s[1]>> \o SubSeq(s, 2, Len(s))
  BY <1>2, SubSeqRecursiveFirst
<1>4. QED
  BY <1>3, SubSeqFull, TailIsSubSeq

\* A varint is a cell and is its number.
LEMMA VarintFacts ==
  ASSUME NEW n \in Nat
  PROVE  Varint(n) \in Cell /\ Varint(n).n = n /\ <<Varint(n)>> \in Seq(Cell) /\ Len(<<Varint(n)>>) = 1
         /\ <<Varint(n)>>[1] = Varint(n)
  BY DEF Varint, Cell

\* The kinds a leaf may have, and the values marshal_field does not omit.
LeafKinds == {"int", "uint", "bool", "float32", "float64", "str"}
IsWritten(kind, v) ==
  /\ kind \in LeafKinds /\ v \in Nat \ {0}
  /\ kind = "bool" => v = 1

\* marshal_field writes the values that are not omitted, and only those.
LEMMA NotOmitted ==
  ASSUME NEW f \in Fields, NEW v \in Values[f], Kind(f) # "message", ~Omitted(Kind(f), v)
  PROVE  IsWritten(Kind(f), v) /\ ~Default(v)
  BY KindsAgree, ValuesAssumption DEF IsWritten, LeafKinds, Omitted, Default

\* unmarshal makes of a payload the value it was written for, and skip() and
\* unmarshal take as many cells as marshal_field wrote.
LEMMA PayloadFacts ==
  ASSUME NEW kind, NEW v, IsWritten(kind, v)
  PROVE  /\ Payload(kind, v) \in Seq(Cell)
         /\ Len(Payload(kind, v)) \in Nat \ {0}
         /\ Unmarshalled(kind, Payload(kind, v)) = v
<1>1. v \in Nat /\ v # 0 /\ kind \in LeafKinds
  BY DEF IsWritten
<1>2. CASE kind = "int"
  <2>1. Payload(kind, v) = <<Varint(2 * v)>>
    BY <1>2 DEF Payload
  <2>2. Unmarshalled(kind, Payload(kind, v)) = (2 * v) \div 2
    BY <1>1, <1>2, <2>1, VarintFacts DEF Unmarshalled
  <2>3. (2 * v) \div 2 = v /\ 2 * v \in Nat
    BY <1>1
  <2>4. QED
    BY <2>1, <2>2, <2>3, VarintFacts
<1>3. CASE kind = "uint"
  <2>1. Payload(kind, v) = <<Varint(v)>>
    BY <1>3 DEF Payload
  <2>2. Unmarshalled(kind, Payload(kind, v)) = <<Varint(v)>>[1].n
    BY <1>3, <2>1 DEF Unmarshalled
  <2>3. QED
    BY <1>1, <2>1, <2>2, VarintFacts
<1>4. CASE kind = "bool"
  <2>1. Payload(kind, v) = <<Varint(1)>> /\ v = 1
    BY <1>4 DEF Payload, IsWritten
  <2>2. QED
    BY <1>1, <1>4, <2>1, VarintFacts DEF Unmarshalled
<1>5. CASE kind = "float32"
  <2>1. Payload(kind, v) = Bytes(v, 4)
    BY <1>5 DEF Payload
  <2>2. QED
    BY <1>1, <1>5, <2>1, BytesFacts DEF Unmarshalled
<1>6. CASE kind = "float64"
  <2>1. Payload(kind, v) = Bytes(v, 8)
    BY <1>6 DEF Payload
  <2>2. QED
    BY <1>1, <1>6, <2>1, BytesFacts DEF Unmarshalled
<1>7. CASE kind = "str"
  <2>1. Payload(kind, v) = <<Varint(v)>> \o Bytes(v, v)
    BY <1>7 DEF Payload
  <2>2. <<Varint(v)>> \in Seq(Cell) /\ Bytes(v, v) \in Seq(Cell) /\ Len(<<Varint(v)>>) = 1
        /\ Len(Bytes(v, v)) = v /\ Joined(Bytes(v, v)) = v
    BY <1>1, VarintFacts, BytesFacts
  <2>3. Payload(kind, v) \in Seq(Cell) /\ Len(Payload(kind, v)) = 1 + v
    BY <1>1, <2>1, <2>2, ConcatProperties
  <2>4. Tail(Payload(kind, v)) = Bytes(v, v)
    BY <2>1, <2>2, TailOfCons
  <2>5. Unmarshalled(kind, Payload(kind, v)) = Joined(Tail(Payload(kind, v)))
    BY <1>7 DEF Unmarshalled
  <2>6. Unmarshalled(kind, Payload(kind, v)) = v
    BY <2>2, <2>4, <2>5
  <2>7. QED
    BY <1>1, <2>3, <2>6
<1>8. QED
  BY <1>1, <1>2, <1>3, <1>4, <1>5, <1>6, <1>7 DEF LeafKinds

\* What is the front of a stream that starts with the payload.
LEMMA WidthFacts ==
  ASSUME NEW kind, NEW v, IsWritten(kind, v),
         NEW in \in Seq(Cell), NEW more \in Seq(Cell), NEW after \in Seq(Cell),
         in \o more = Payload(kind, v) \o after
  PROVE  /\ UnmarshalWidth(kind, in) \in Nat
         /\ SkipWidth(TypeCode[WireType[kind]], in) \in Nat
         /\ UnmarshalWidth(kind, in) <= Len(Payload(kind, v))
         /\ SkipWidth(TypeCode[WireType[kind]], in) <= Len(Payload(kind, v))
         /\ Len(in) >= UnmarshalWidth(kind, in) =>
              IF kind = "str" /\ TooBig(in) THEN v > Capacity
              ELSE UnmarshalWidth(kind, in) = Len(Payload(kind, v))
         /\ Len(in) >= SkipWidth(TypeCode[WireType[kind]], in) =>
              SkipWidth(TypeCode[WireType[kind]], in) = Len(Payload(kind, v))
<1>1. v \in Nat /\ v # 0 /\ kind \in LeafKinds
  BY DEF IsWritten
<1>2. CASE kind \in {"int", "uint", "bool"}
  <2>1. Len(Payload(kind, v)) = 1
    BY <1>2 DEF Payload
  <2>2. UnmarshalWidth(kind, in) = 1 /\ SkipWidth(TypeCode[WireType[kind]], in) = 1
    BY <1>2 DEF UnmarshalWidth, SkipWidth, TypeCode, WireType
  <2>3. QED
    BY <1>2, <2>1, <2>2
<1>3. CASE kind = "float32"
  <2>1. Len(Payload(kind, v)) = 4
    BY <1>1, <1>3, BytesFacts DEF Payload
  <2>2. UnmarshalWidth(kind, in) = 4 /\ SkipWidth(TypeCode[WireType[kind]], in) = 4
    BY <1>3 DEF UnmarshalWidth, SkipWidth, TypeCode, WireType
  <2>3. kind # "str"
    BY <1>3
  <2>4. QED
    BY <2>1, <2>2, <2>3
<1>4. CASE kind = "float64"
  <2>1. Len(Payload(kind, v)) = 8
    BY <1>1, <1>4, BytesFacts DEF Payload
  <2>2. UnmarshalWidth(kind, in) = 8 /\ SkipWidth(TypeCode[WireType[kind]], in) = 8
    BY <1>4 DEF UnmarshalWidth, SkipWidth, TypeCode, WireType
  <2>3. kind # "str"
    BY <1>4
  <2>4. QED
    BY <2>1, <2>2, <2>3
<1>5. CASE kind = "str"
  <2>1. Payload(kind, v) = <<Varint(v)>> \o Bytes(v, v)
    BY <1>5 DEF Payload
  <2>2. <<Varint(v)>> \in Seq(Cell) /\ Bytes(v, v) \in Seq(Cell) /\ Len(<<Varint(v)>>) = 1
        /\ Len(Bytes(v, v)) = v
    BY <1>1, VarintFacts, BytesFacts
  <2>3. Payload(kind, v) \in Seq(Cell) /\ Len(Payload(kind, v)) = 1 + v /\ Payload(kind, v)[1] = Varint(v)
    BY <1>1, <2>1, <2>2, ConcatProperties
  <2>4. UnmarshalWidth(kind, in) = IF in = <<>> \/ TooBig(in) THEN 1 ELSE 1 + in[1].n
    BY <1>5 DEF UnmarshalWidth
  <2>5. SkipWidth(TypeCode[WireType[kind]], in) = IF in = <<>> THEN 1 ELSE 1 + in[1].n
    BY <1>5 DEF SkipWidth, TypeCode, WireType
  <2>6. CASE in = <<>>
    BY <1>1, <2>3, <2>4, <2>5, <2>6
  <2>7. CASE in # <<>>
    <3>1. Len(in) \in Nat \ {0} /\ Len(more) \in Nat /\ Len(after) \in Nat
      BY <2>7, EmptySeq, LenProperties
    <3>2. (in \o more)[1] = in[1]
      BY <3>1, ConcatProperties
    <3>3. (Payload(kind, v) \o after)[1] = Payload(kind, v)[1]
      BY <1>1, <2>3, <3>1, ConcatProperties
    <3>4. in[1].n = v
      BY <1>1, <2>3, <3>2, <3>3, VarintFacts
    <3>5. TooBig(in) => v > Capacity
      BY <3>4 DEF TooBig
    <3>6. QED
      BY <1>1, <1>5, <2>3, <2>4, <2>5, <2>7, <3>4, <3>5
  <2>8. QED
    BY <2>6, <2>7
<1>6. QED
  BY <1>1, <1>2, <1>3, <1>4, <1>5 DEF LeafKinds

-----------------------------------------------------------------------------
(***************************************************************************)
(* Tokens, the units in which a body is written and read.                  *)
(***************************************************************************)

\* Concatenation under a name: the provers then keep equations between
\* concatenations as they are.
Cat(s, t) == s \o t

\* Concatenation makes a sequence, of the sum of the lengths.
LEMMA CatFacts ==
  ASSUME NEW S, NEW s \in Seq(S), NEW t \in Seq(S)
  PROVE  /\ Cat(s, t) \in Seq(S)
         /\ Len(Cat(s, t)) = Len(s) + Len(t)
         /\ Len(s) \in Nat /\ Len(t) \in Nat
  BY ConcatProperties, LenProperties DEF Cat

\* Nothing added.
LEMMA CatEmpty == ASSUME NEW S, NEW s \in Seq(S) PROVE Cat(s, <<>>) = s /\ Cat(<<>>, s) = s
  BY ConcatEmptySeq DEF Cat

\* Concatenation is associative.
LEMMA CatAssociative ==
  ASSUME NEW S, NEW s \in Seq(S), NEW t \in Seq(S), NEW u \in Seq(S)
  PROVE  Cat(Cat(s, t), u) = Cat(s, Cat(t, u))
  BY ConcatAssociative DEF Cat

\* Two streams with the same front have the same rest.
LEMMA CatCancels ==
  ASSUME NEW S, NEW s \in Seq(S), NEW t \in Seq(S), NEW u \in Seq(S), Cat(s, t) = Cat(s, u)
  PROVE  t = u
  BY ConcatSimplifications DEF Cat

\* A stream that is cut off is a front of a longer one.
LEMMA PrefixOfConcat ==
  ASSUME NEW S, NEW a \in Seq(S), NEW b \in Seq(S), NEW c \in Seq(S), NEW d \in Seq(S),
         Cat(a, b) = Cat(c, d), Len(c) <= Len(a)
  PROVE  /\ SubSeq(a, Len(c) + 1, Len(a)) \in Seq(S)
         /\ a = Cat(c, SubSeq(a, Len(c) + 1, Len(a)))
         /\ Cat(SubSeq(a, Len(c) + 1, Len(a)), b) = d
<1> DEFINE m == Len(c)
           n == Len(a)
           e == SubSeq(a, m + 1, n)
<1>0. a \o b = c \o d
  BY DEF Cat
<1>1. m \in Nat /\ n \in Nat /\ m <= n /\ Len(b) \in Nat /\ Len(d) \in Nat
  BY LenProperties
<1>2. \A i \in m + 1..n : a[i] \in S
  BY <1>1, ElementOfSeq
<1>3. /\ e \in Seq(S) /\ Len(e) = n - m
      /\ \A i \in 1..n - m : e[i] = a[m + i]
  <2> HIDE DEF m, n
  <2>1. m + 1 \in Int /\ n \in Int
    BY <1>1
  <2>2. /\ SubSeq(a, m + 1, n) \in Seq(S)
        /\ Len(SubSeq(a, m + 1, n)) = IF m + 1 <= n THEN n - (m + 1) + 1 ELSE 0
        /\ \A i \in 1..n - (m + 1) + 1 : SubSeq(a, m + 1, n)[i] = a[m + 1 + i - 1]
    BY ONLY <1>2, <2>1, SubSeqProperties
  <2>3. QED
    BY <1>1, <2>2
<1>4. /\ a \o b \in Seq(S)
      /\ \A i \in 1..n : (a \o b)[i] = a[i]
  BY <1>1, ConcatProperties
<1>5. \A i \in 1..m : (c \o d)[i] = c[i]
  BY <1>1, ConcatProperties
<1>6. /\ c \o e \in Seq(S) /\ Len(c \o e) = m + Len(e)
      /\ \A i \in 1..m + Len(e) : (c \o e)[i] = IF i <= m THEN c[i] ELSE e[i - m]
  <2> HIDE DEF e
  <2>1. QED
    BY <1>3, ConcatProperties
<1>7. Len(a) = Len(c \o e)
  BY <1>1, <1>3, <1>6
<1>8. ASSUME NEW i \in 1..n PROVE a[i] = (c \o e)[i]
  <2> HIDE DEF e
  <2>1. CASE i <= m
    BY <1>0, <1>1, <1>3, <1>4, <1>5, <1>6, <2>1
  <2>2. CASE ~(i <= m)
    <3>1. i - m \in 1..n - m /\ m + (i - m) = i
      BY <1>1, <2>2
    <3>2. QED
      <4>1. (c \o e)[i] = e[i - m]
        BY <1>1, <1>3, <1>6, <2>2
      <4>2. e[i - m] = a[m + (i - m)]
        BY <1>3, <3>1
      <4>3. QED
        BY <3>1, <4>1, <4>2
  <2>3. QED
    BY <2>1, <2>2
<1>9. a = Cat(c, e)
  <2> HIDE DEF e
  <2>1. QED
    BY <1>6, <1>7, <1>8, SeqEqual DEF Cat
<1>10. Cat(c, Cat(e, b)) = Cat(c, d) /\ Cat(e, b) \in Seq(S)
  <2> HIDE DEF e
  <2>1. Cat(Cat(c, e), b) = Cat(c, Cat(e, b))
    BY <1>3, CatAssociative
  <2>2. QED
    BY <1>3, <1>9, <2>1, CatFacts
<1>11. Cat(e, b) = d
  <2> HIDE DEF e
  <2>1. QED
    BY <1>10, CatCancels
<1>12. QED
  BY <1>3, <1>9, <1>11

\* Front under the name Cat.
LEMMA FrontOfCat ==
  ASSUME NEW S, NEW p \in Seq(S), NEW q \in Seq(S), p # <<>>
  PROVE  SubSeq(Cat(p, q), 1, Len(p)) = p
<1>1. Len(p) \in Nat \ {0}
  BY EmptySeq
<1>2. 1 \in 1..Len(p) /\ Len(p) \in 1..Len(p)
  BY <1>1
<1>3. SubSeq(p \o q, 1, Len(p)) = SubSeq(p, 1, Len(p))
  BY <1>2, SubSeqOfConcat1
<1>4. QED
  BY <1>3, SubSeqFull DEF Cat

\* A token: the Start of a nested message, a leaf, an End.
StartOf(f) == [op |-> "start", field |-> f, value |-> 0]
LeafOf(f, v) == [op |-> "leaf", field |-> f, value |-> v]
EndToken == [op |-> "end", field |-> 0, value |-> 0]

IsToken(t) ==
  \/ t = EndToken
  \/ \E f \in Fields : Kind(f) = "message" /\ t = StartOf(f)
  \/ \E f \in Fields : \E v \in Values[f] :
        Kind(f) # "message" /\ ~Omitted(Kind(f), v) /\ t = LeafOf(f, v)

TokenType(t) == CASE t.op = "start" -> "Start"
                  [] t.op = "end" -> "End"
                  [] t.op = "leaf" -> WireType[Kind(t.field)]
Body(t) == IF t.op = "leaf" THEN Payload(Kind(t.field), t.value) ELSE <<>>
Encode(t) == <<Tag(t.field, TokenType(t))>> \o Body(t)

\* The cells of a token, and the field and type read from the first.
LEMMA TokenFacts ==
  ASSUME LowFields, NEW t, IsToken(t)
  PROVE  /\ t.field \in Fields \cup {0} /\ t.op \in {"start", "leaf", "end"}
         /\ t.op = "end" => t = EndToken
         /\ t.op = "start" => t.field \in Fields /\ Kind(t.field) = "message"
         /\ t.op = "leaf" => /\ t.field \in Fields /\ IsWritten(Kind(t.field), t.value)
                             /\ Kind(t.field) # "message"
         /\ TokenType(t) \in DOMAIN TypeCode
         /\ Tag(t.field, TokenType(t)) \in Cell
         /\ FieldOf(Tag(t.field, TokenType(t)).n) = t.field
         /\ TypeOf(Tag(t.field, TokenType(t)).n) = TypeCode[TokenType(t)]
         /\ Body(t) \in Seq(Cell)
         /\ Encode(t) \in Seq(Cell) /\ Encode(t) # <<>>
         /\ Len(Encode(t)) = 1 + Len(Body(t)) /\ Len(Body(t)) \in Nat
         /\ Encode(t)[1] = Tag(t.field, TokenType(t))
<1>1. /\ t.field \in Fields \cup {0} /\ t.op \in {"start", "leaf", "end"}
      /\ t.op = "end" => t = EndToken
      /\ t.op = "start" => t.field \in Fields /\ Kind(t.field) = "message"
      /\ t.op = "leaf" => /\ t.field \in Fields /\ IsWritten(Kind(t.field), t.value)
                          /\ Kind(t.field) # "message"
  <2>1. CASE t = EndToken
    BY <2>1 DEF EndToken
  <2>2. CASE \E f \in Fields : Kind(f) = "message" /\ t = StartOf(f)
    BY <2>2 DEF StartOf
  <2>3. CASE \E f \in Fields : \E v \in Values[f] :
               Kind(f) # "message" /\ ~Omitted(Kind(f), v) /\ t = LeafOf(f, v)
    <3>1. PICK f \in Fields : \E v \in Values[f] :
               Kind(f) # "message" /\ ~Omitted(Kind(f), v) /\ t = LeafOf(f, v)
      BY <2>3
    <3>2. PICK v \in Values[f] :
               Kind(f) # "message" /\ ~Omitted(Kind(f), v) /\ t = LeafOf(f, v)
      BY <3>1
    <3>3. IsWritten(Kind(f), v)
      BY <3>2, NotOmitted
    <3>4. t.op = "leaf" /\ t.field = f /\ t.value = v
      BY <3>2 DEF LeafOf
    <3>5. QED
      BY <3>2, <3>3, <3>4
  <2>4. QED
    BY <2>1, <2>2, <2>3 DEF IsToken
<1>2. TokenType(t) \in DOMAIN TypeCode
  <2>1. CASE t.op = "start"
    BY <2>1 DEF TokenType, TypeCode
  <2>2. CASE t.op = "end"
    BY <2>2 DEF TokenType, TypeCode
  <2>3. CASE t.op = "leaf"
    <3>1. TokenType(t) = WireType[Kind(t.field)] /\ Kind(t.field) \in LeafKinds
      BY <1>1, <2>3 DEF TokenType, IsWritten
    <3>2. QED
      BY <3>1 DEF WireType, LeafKinds, TypeCode
  <2>4. QED
    BY <1>1, <2>1, <2>2, <2>3
<1>3. /\ Tag(t.field, TokenType(t)) \in Cell
      /\ FieldOf(Tag(t.field, TokenType(t)).n) = t.field
      /\ TypeOf(Tag(t.field, TokenType(t)).n) = TypeCode[TokenType(t)]
  <2> DEFINE n == 8 * t.field + TypeCode[TokenType(t)]
  <2>1. /\ Tag(t.field, TokenType(t)) = Varint(n) /\ n \in Nat
        /\ FieldOf(n) = t.field /\ TypeOf(n) = TypeCode[TokenType(t)]
    BY <1>1, <1>2, TagDecodes
  <2> HIDE DEF n
  <2>2. Varint(n).n = n /\ Varint(n) \in Cell
    BY <2>1, VarintFacts
  <2>3. QED
    BY <2>1, <2>2
<1>4. Body(t) \in Seq(Cell) /\ Len(Body(t)) \in Nat
  <2>1. CASE t.op = "leaf"
    BY <1>1, <2>1, PayloadFacts DEF Body
  <2>2. CASE t.op # "leaf"
    BY <2>2, EmptySeq DEF Body
  <2>3. QED
    BY <2>1, <2>2
<1>5. QED
  BY <1>1, <1>2, <1>3, <1>4, TailOfCons DEF Encode

\* What follows the tag of the token in front.
LEMMA TailOfToken ==
  ASSUME LowFields, NEW t, IsToken(t), NEW in \in Seq(Cell), in # <<>>,
         NEW more \in Seq(Cell), NEW after \in Seq(Cell), Cat(in, more) = Cat(Encode(t), after)
  PROVE  Tail(in) \in Seq(Cell) /\ Cat(Tail(in), more) = Cat(Body(t), after)
<1>1. /\ Tail(in) \in Seq(Cell) /\ Len(in) \in Nat \ {0} /\ Len(more) \in Nat /\ Len(after) \in Nat
      /\ in[1] \in Cell
  BY HeadTailProperties, EmptySeq, LenProperties, ElementOfSeq
<1>2. /\ Body(t) \in Seq(Cell) /\ Encode(t) \in Seq(Cell) /\ Len(Encode(t)) \in Nat \ {0}
      /\ Encode(t)[1] = Tag(t.field, TokenType(t))
  BY TokenFacts, EmptySeq
<1>3. in[1] = Encode(t)[1]
  <2>1. Cat(in, more)[1] = in[1]
    BY <1>1, ConcatProperties DEF Cat
  <2>2. Cat(Encode(t), after)[1] = Encode(t)[1]
    BY <1>1, <1>2, ConcatProperties DEF Cat
  <2>3. QED
    BY <2>1, <2>2
<1> DEFINE head == <<in[1]>>
           tail == Tail(in)
           body == Body(t)
<1>4. head \in Seq(Cell) /\ tail \in Seq(Cell) /\ body \in Seq(Cell)
  BY <1>1, <1>2
<1>5. in = Cat(head, tail) /\ Encode(t) = Cat(head, body)
  BY <1>2, <1>3, ConsOfTail DEF Cat, Encode
<1> HIDE DEF head, tail, body
<1>6. Cat(head, Cat(tail, more)) = Cat(head, Cat(body, after))
  BY <1>4, <1>5, CatAssociative
<1>7. Cat(tail, more) \in Seq(Cell) /\ Cat(body, after) \in Seq(Cell)
  BY <1>4, CatFacts
<1>8. QED
  BY <1>4, <1>6, <1>7, CatCancels DEF tail, body

\* The cells after the tag are the payload, when they have all arrived.
LEMMA FrontOfToken ==
  ASSUME LowFields, NEW t, IsToken(t), Body(t) # <<>>, NEW in \in Seq(Cell),
         NEW more \in Seq(Cell), NEW after \in Seq(Cell), Cat(in, more) = Cat(Encode(t), after),
         Len(in) >= Len(Encode(t))
  PROVE  SubSeq(Tail(in), 1, Len(Body(t))) = Body(t)
<1>1. /\ Len(Encode(t)) = 1 + Len(Body(t)) /\ Len(Body(t)) \in Nat \ {0} /\ Body(t) \in Seq(Cell)
  BY TokenFacts, EmptySeq
<1>2. in # <<>> /\ Len(in) \in Nat
  BY <1>1, EmptySeq, LenProperties
<1>3. /\ Tail(in) \in Seq(Cell) /\ Len(Tail(in)) = Len(in) - 1
      /\ Cat(Tail(in), more) = Cat(Body(t), after)
  BY <1>2, HeadTailProperties, TailOfToken
<1> DEFINE tail == Tail(in)
           body == Body(t)
           left == SubSeq(tail, Len(body) + 1, Len(tail))
<1>4. Len(body) <= Len(tail) /\ tail \in Seq(Cell) /\ body \in Seq(Cell) /\ body # <<>>
      /\ Cat(tail, more) = Cat(body, after)
  BY <1>1, <1>2, <1>3
<1> HIDE DEF tail, body
<1>5. left \in Seq(Cell) /\ tail = Cat(body, left)
  BY <1>4, PrefixOfConcat
<1> HIDE DEF left
<1>6. SubSeq(Cat(body, left), 1, Len(body)) = body
  BY <1>4, <1>5, FrontOfCat
<1>7. QED
  BY <1>5, <1>6 DEF tail, body

\* What the reader makes of the bytes in front of it.
LEMMA NextRound ==
  ASSUME LowFields, NEW t, IsToken(t), wire \in Seq(Cell), reader \in {"generated", "dynamic"},
         known \subseteq Fields,
         NEW more \in Seq(Cell), NEW after \in Seq(Cell), Cat(wire, more) = Cat(Encode(t), after)
  PROVE  /\ Needed \in Nat /\ Needed <= Len(Encode(t))
         /\ Len(wire) >= Needed =>
              /\ wire # <<>> /\ NextField = t.field /\ NextType = TypeCode[TokenType(t)]
              /\ \/ Needed = Len(Encode(t))
                 \/ /\ t.op = "leaf" /\ NextIsKnown /\ ReaderKind(t.field) = "str"
                    /\ TooBig(Tail(wire)) /\ t.value > Capacity
              /\ t.op = "leaf" /\ NextIsKnown /\ ReaderKind(t.field) = "str" /\ TooBig(Tail(wire))
                   => t.value > Capacity
<1>1. Len(Encode(t)) = 1 + Len(Body(t)) /\ Len(Body(t)) \in Nat /\ Encode(t) \in Seq(Cell)
      /\ Encode(t) # <<>> /\ Body(t) \in Seq(Cell)
  BY TokenFacts
<1>0. wire \o more = Encode(t) \o after
  BY DEF Cat
<1>2. CASE wire = <<>>
  <2>1. Needed = 1 /\ Len(wire) = 0
    BY <1>2, EmptySeq DEF Needed
  <2>2. QED
    BY <1>1, <2>1
<1>3. CASE wire # <<>>
  <2>1. /\ Len(wire) \in Nat \ {0} /\ Len(more) \in Nat /\ Len(after) \in Nat
        /\ wire[1] \in Cell
    BY <1>3, EmptySeq, LenProperties, ElementOfSeq
  <2>2. wire[1] = Encode(t)[1]
    <3>1. (wire \o more)[1] = wire[1]
      BY <2>1, ConcatProperties
    <3>2. (Encode(t) \o after)[1] = Encode(t)[1]
      BY <1>1, <2>1, ConcatProperties
    <3>3. QED
      BY <1>0, <3>1, <3>2
  <2>3. NextField = t.field /\ NextType = TypeCode[TokenType(t)]
    BY <2>2, TokenFacts DEF NextField, NextType
  <2>4. Tail(wire) \in Seq(Cell) /\ Tail(wire) \o more = Body(t) \o after
    <3>1. Tail(wire) \in Seq(Cell) /\ Cat(Tail(wire), more) = Cat(Body(t), after)
      BY <1>3, TailOfToken
    <3>2. QED
      BY <3>1 DEF Cat
  <2>5. CASE t.op # "leaf"
    <3>1. NextType \in {TypeCode.Start, TypeCode.End}
      BY <2>3, <2>5, TokenFacts DEF TokenType, TypeCode
    <3>2. Needed = 1
      BY <3>1 DEF Needed
    <3>3. Len(Encode(t)) = 1
      BY <1>1, <2>5, EmptySeq DEF Body
    <3>4. QED
      BY <1>3, <2>3, <2>5, <3>2, <3>3
  <2>6. CASE t.op = "leaf"
    <3>1. /\ t.field \in Fields /\ IsWritten(Kind(t.field), t.value)
          /\ Body(t) = Payload(Kind(t.field), t.value)
          /\ TokenType(t) = WireType[Kind(t.field)]
      BY <2>6, TokenFacts DEF Body, TokenType
    <3>2. ReaderKind(t.field) = Kind(t.field)
      BY <3>1, KindsAgree DEF ReaderKind, Kind
    <3>3. NextType \notin {TypeCode.Start, TypeCode.End}
      <4>1. Kind(t.field) \in LeafKinds
        BY <3>1 DEF IsWritten
      <4>2. QED
        BY <2>3, <3>1, <4>1 DEF LeafKinds, WireType, TypeCode
    <3>4. Needed = 1 + (IF NextIsKnown THEN UnmarshalWidth(Kind(t.field), Tail(wire))
                        ELSE SkipWidth(TypeCode[WireType[Kind(t.field)]], Tail(wire)))
      BY <1>3, <2>3, <3>1, <3>2, <3>3 DEF Needed
    <3> DEFINE in == Tail(wire)
               u == UnmarshalWidth(Kind(t.field), in)
               w == SkipWidth(TypeCode[WireType[Kind(t.field)]], in)
    <3>5. /\ u \in Nat /\ w \in Nat /\ u <= Len(Body(t)) /\ w <= Len(Body(t))
          /\ Len(in) >= u => IF Kind(t.field) = "str" /\ TooBig(in) THEN t.value > Capacity
                             ELSE u = Len(Body(t))
          /\ Len(in) >= w => w = Len(Body(t))
      <4> DEFINE kind == Kind(t.field)
                 v == t.value
                 rest == after
      <4>1. /\ IsWritten(kind, v) /\ in \in Seq(Cell) /\ rest \in Seq(Cell)
            /\ in \o more = Payload(kind, v) \o rest
        BY <2>4, <3>1
      <4>2. Len(Body(t)) = Len(Payload(kind, v))
        BY <3>1
      <4> HIDE DEF kind, v, rest, in
      <4>3. /\ UnmarshalWidth(kind, in) \in Nat
            /\ SkipWidth(TypeCode[WireType[kind]], in) \in Nat
            /\ UnmarshalWidth(kind, in) <= Len(Payload(kind, v))
            /\ SkipWidth(TypeCode[WireType[kind]], in) <= Len(Payload(kind, v))
            /\ Len(in) >= UnmarshalWidth(kind, in) =>
                 IF kind = "str" /\ TooBig(in) THEN v > Capacity
                 ELSE UnmarshalWidth(kind, in) = Len(Payload(kind, v))
            /\ Len(in) >= SkipWidth(TypeCode[WireType[kind]], in) =>
                 SkipWidth(TypeCode[WireType[kind]], in) = Len(Payload(kind, v))
        BY ONLY <4>1, WidthFacts
      <4>4. QED
        BY <4>2, <4>3 DEF kind, v
    <3>6. Len(in) = Len(wire) - 1
      BY <1>3, HeadTailProperties
    <3>7. QED
      <4> HIDE DEF in, u, w
      <4>1. Needed = 1 + (IF NextIsKnown THEN u ELSE w)
        BY <3>4 DEF u, w, in
      <4>2. TooBig(Tail(wire)) <=> TooBig(in)
        BY DEF in
      <4>3. CASE NextIsKnown
        <5>1. Needed = 1 + u
          BY <4>1, <4>3
        <5>2. QED
          BY <1>1, <1>3, <2>1, <2>3, <2>6, <3>2, <3>5, <3>6, <4>2, <4>3, <5>1
      <4>4. CASE ~NextIsKnown
        <5>1. Needed = 1 + w
          BY <4>1, <4>4
        <5>2. QED
          BY <1>1, <1>3, <2>1, <2>3, <2>6, <3>5, <3>6, <4>4, <5>1
      <4>5. QED
        BY <4>3, <4>4
  <2>7. QED
    BY <2>5, <2>6
<1>4. QED
  BY <1>2, <1>3

-----------------------------------------------------------------------------
(***************************************************************************)
(* What a reader that knows only some fields has of a list of leaves.      *)
(***************************************************************************)

\* A leaf, and whether a reader of schema k sees it.
Leaf == [path : Seq(Fields), field : Fields, value : Nat]
IsVisible(leaf, k) ==
  leaf.field \in k /\ \A d \in DOMAIN leaf.path : leaf.path[d] \in k

\* Nothing is seen of nothing.
LEMMA SeenNothing == ASSUME NEW k PROVE AreSeen(<<>>, <<>>, k)
<1>1. Visible(<<>>, k) = {}
  BY DEF Visible
<1>2. QED
  BY <1>1, FS_EmptySet DEF AreSeen

\* One more leaf is one more seen, or none, when the reader does not know its
\* field or a message around it.
LEMMA SeenOneMore ==
  ASSUME NEW seen \in Seq(Leaf), NEW leaves \in Seq(Leaf), NEW leaf \in Leaf, NEW k,
         AreSeen(seen, leaves, k)
  PROVE  AreSeen(IF IsVisible(leaf, k) THEN Append(seen, leaf) ELSE seen,
                 Append(leaves, leaf), k)
<1> DEFINE n == Len(leaves)
           longer == Append(leaves, leaf)
           old == Visible(leaves, k)
           new == Visible(longer, k)
<1>1. n \in Nat /\ DOMAIN leaves = 1..n /\ Len(seen) \in Nat
  BY LenProperties
<1>2. /\ longer \in Seq(Leaf) /\ Len(longer) = n + 1 /\ DOMAIN longer = 1..n + 1
      /\ \A i \in 1..n : longer[i] = leaves[i]
      /\ longer[n + 1] = leaf
  BY <1>1, AppendProperties, LenProperties
<1>3. new = IF IsVisible(leaf, k) THEN old \cup {n + 1} ELSE old
  <2>1. old = {i \in 1..n : IsVisible(leaves[i], k)}
    BY <1>1 DEF Visible, IsVisible
  <2>2. new = {i \in 1..n + 1 : IsVisible(longer[i], k)}
    BY <1>2 DEF Visible, IsVisible
  <2> HIDE DEF longer, old, new
  <2>3. \A i : i \in 1..n + 1 <=> i \in 1..n \/ i = n + 1
    BY <1>1
  <2>4. QED
    BY <1>1, <1>2, <2>1, <2>2, <2>3
<1>4. old \subseteq 1..n /\ IsFiniteSet(old) /\ Cardinality(old) \in Nat
  <2>1. old \subseteq 1..n
    BY <1>1 DEF Visible
  <2>2. IsFiniteSet(1..n)
    BY <1>1, FS_Interval
  <2>3. QED
    BY <2>1, <2>2, FS_Subset, FS_CardinalityType
<1>5. Len(seen) = Cardinality(old) /\ \A i \in old : seen[Cardinality({j \in old : j <= i})] = leaves[i]
  BY DEF AreSeen
<1>6. ASSUME NEW i \in old
      PROVE  /\ {j \in new : j <= i} = {j \in old : j <= i}
             /\ Cardinality({j \in old : j <= i}) \in 1..Len(seen)
             /\ longer[i] = leaves[i]
  <2> HIDE DEF longer, old, new
  <2>1. i \in 1..n /\ ~(n + 1 <= i)
    BY <1>1, <1>4, <1>6
  <2>2. {j \in new : j <= i} = {j \in old : j <= i}
    BY <1>3, <2>1
  <2> DEFINE upto == {j \in old : j <= i}
  <2>3. upto \subseteq old /\ i \in upto
    BY <1>4, <2>1
  <2>4. Cardinality(upto) \in Nat /\ Cardinality(upto) <= Cardinality(old) /\ IsFiniteSet(upto)
    BY <1>4, <2>3, FS_Subset, FS_CardinalityType
  <2>5. Cardinality(upto) # 0
    BY <2>3, <2>4, FS_EmptySet
  <2>6. Cardinality(upto) \in 1..Len(seen)
    <3> HIDE DEF upto
    <3>1. QED
      BY <1>1, <1>5, <2>4, <2>5
  <2>7. QED
    BY <1>2, <2>1, <2>2, <2>6
<1>7. CASE ~IsVisible(leaf, k)
  <2> HIDE DEF longer, old, new
  <2>1. Len(seen) = Cardinality(new)
    BY <1>3, <1>5, <1>7
  <2>2. ASSUME NEW i \in new PROVE seen[Cardinality({j \in new : j <= i})] = longer[i]
    <3>1. i \in old
      BY <1>3, <1>7
    <3>2. QED
      BY <1>5, <1>6, <3>1
  <2>3. AreSeen(seen, longer, k)
    BY <2>1, <2>2 DEF AreSeen, new
  <2>4. QED
    BY <1>7, <2>3 DEF longer
<1>8. CASE IsVisible(leaf, k)
  <2> DEFINE more == Append(seen, leaf)
  <2>1. /\ Len(more) = Len(seen) + 1 /\ more[Len(seen) + 1] = leaf
        /\ \A i \in 1..Len(seen) : more[i] = seen[i]
    BY AppendProperties
  <2> HIDE DEF longer, old, new, more
  <2>2. new = old \cup {n + 1} /\ n + 1 \notin old
    BY <1>1, <1>3, <1>4, <1>8
  <2>3. Cardinality(new) = Cardinality(old) + 1
    BY <1>4, <2>2, FS_AddElement
  <2>4. ASSUME NEW i \in new PROVE more[Cardinality({j \in new : j <= i})] = longer[i]
    <3>1. CASE i \in old
      BY <1>5, <1>6, <2>1, <3>1
    <3>2. CASE i = n + 1
      <4>1. {j \in new : j <= i} = new
        <5>1. \A j \in new : j <= i
          BY <1>1, <1>4, <2>2, <3>2
        <5>2. QED
          BY <5>1
      <4>2. QED
        BY <1>2, <1>5, <2>1, <2>3, <3>2, <4>1
    <3>3. QED
      BY <2>2, <3>1, <3>2
  <2>5. AreSeen(more, longer, k)
    BY <1>5, <2>1, <2>3, <2>4 DEF AreSeen, new
  <2>6. QED
    BY <1>8, <2>5 DEF longer, more
<1>9. QED
  BY <1>7, <1>8

-----------------------------------------------------------------------------
(***************************************************************************)
(* The chain of tokens between the reader and the writer.                  *)
(***************************************************************************)

\* What stands at a place of the stream: the nested messages that are open, the
\* leaves of the message so far and the messages before it.
Config == [open : Seq(Fields), leaves : Seq(Leaf), msgs : Seq(Seq(Leaf))]

\* The configuration a token leads to.
After(c, t) ==
  CASE t.op = "start" -> [open |-> Append(c.open, t.field), leaves |-> c.leaves, msgs |-> c.msgs]
    [] t.op = "leaf" ->
         [open |-> c.open,
          leaves |-> Append(c.leaves, [path |-> c.open, field |-> t.field, value |-> t.value]),
          msgs |-> c.msgs]
    [] t.op = "end" ->
         IF c.open = <<>>
         THEN [open |-> <<>>, leaves |-> <<>>, msgs |-> Append(c.msgs, c.leaves)]
         ELSE [open |-> Front(c.open), leaves |-> c.leaves, msgs |-> c.msgs]

\* Tokens lo + 1 .. hi with the cells that follow each and the configurations
\* around them.
Chain(lo, hi, tok, rest, cfg) ==
  /\ \A i \in lo..hi : rest[i] \in Seq(Cell) /\ cfg[i] \in Config
  /\ \A i \in lo + 1..hi : /\ IsToken(tok[i])
                           /\ rest[i - 1] = Cat(Encode(tok[i]), rest[i])
                           /\ cfg[i] = After(cfg[i - 1], tok[i])
  /\ rest[hi] = <<>>

\* A chain without its first token is a chain.
LEMMA ChainShorter ==
  ASSUME NEW lo \in Nat, NEW hi \in Nat, lo < hi, NEW tok, NEW rest, NEW cfg,
         Chain(lo, hi, tok, rest, cfg)
  PROVE  /\ Chain(lo + 1, hi, tok, rest, cfg)
         /\ rest[lo] = Cat(Encode(tok[lo + 1]), rest[lo + 1])
         /\ cfg[lo + 1] = After(cfg[lo], tok[lo + 1])
         /\ IsToken(tok[lo + 1])
         /\ rest[lo] \in Seq(Cell) /\ rest[lo + 1] \in Seq(Cell)
         /\ cfg[lo] \in Config /\ cfg[lo + 1] \in Config
<1>1. /\ \A i \in lo..hi : rest[i] \in Seq(Cell) /\ cfg[i] \in Config
      /\ \A i \in lo + 1..hi : /\ IsToken(tok[i])
                               /\ rest[i - 1] = Cat(Encode(tok[i]), rest[i])
                               /\ cfg[i] = After(cfg[i - 1], tok[i])
      /\ rest[hi] = <<>>
  BY DEF Chain
<1>2. lo + 1 \in lo + 1..hi /\ lo + 1 - 1 = lo /\ lo + 1 \in lo..hi /\ lo \in lo..hi
  OBVIOUS
<1>3. \A i \in lo + 1..hi : i \in lo..hi
  OBVIOUS
<1>4. \A i \in lo + 1 + 1..hi : i \in lo + 1..hi
  OBVIOUS
<1>5. Chain(lo + 1, hi, tok, rest, cfg)
  BY <1>1, <1>3, <1>4 DEF Chain
<1> DEFINE j == lo + 1
<1>6. /\ IsToken(tok[j]) /\ rest[j - 1] = Cat(Encode(tok[j]), rest[j])
      /\ cfg[j] = After(cfg[j - 1], tok[j])
      /\ rest[lo] \in Seq(Cell) /\ rest[j] \in Seq(Cell)
      /\ cfg[lo] \in Config /\ cfg[j] \in Config
  BY <1>1, <1>2
<1>7. j - 1 = lo
  OBVIOUS
<1>8. rest[j - 1] = rest[lo] /\ cfg[j - 1] = cfg[lo]
  BY <1>7
<1>9. QED
  BY <1>5, <1>6, <1>8

\* Tokens hi + 1 .. hi + n of tok2, written as the cells new, after those of tok.
Appends(lo, hi, n, new, tok, rest, cfg, tok2, rest2, cfg2) ==
  /\ n \in Nat /\ new \in Seq(Cell)
  /\ \A i \in lo + 1..hi : tok2[i] = tok[i]
  /\ \A i \in lo..hi : rest2[i] = Cat(rest[i], new) /\ cfg2[i] = cfg[i]
  /\ \A i \in hi + 1..hi + n : /\ rest2[i] \in Seq(Cell) /\ cfg2[i] \in Config
                               /\ IsToken(tok2[i])
                               /\ rest2[i - 1] = Cat(Encode(tok2[i]), rest2[i])
                               /\ cfg2[i] = After(cfg2[i - 1], tok2[i])
  /\ rest2[hi + n] = <<>>

\* More tokens written at the end of a chain make a chain.
LEMMA ChainLonger ==
  ASSUME LowFields, NEW lo \in Nat, NEW hi \in Nat, lo <= hi, NEW n, NEW new,
         NEW tok, NEW rest, NEW cfg, NEW tok2, NEW rest2, NEW cfg2,
         Chain(lo, hi, tok, rest, cfg),
         Appends(lo, hi, n, new, tok, rest, cfg, tok2, rest2, cfg2)
  PROVE  Chain(lo, hi + n, tok2, rest2, cfg2)
<1>0. /\ n \in Nat /\ new \in Seq(Cell)
      /\ \A i \in lo + 1..hi : tok2[i] = tok[i]
      /\ \A i \in lo..hi : rest2[i] = Cat(rest[i], new) /\ cfg2[i] = cfg[i]
      /\ \A i \in hi + 1..hi + n : /\ rest2[i] \in Seq(Cell) /\ cfg2[i] \in Config
                                   /\ IsToken(tok2[i])
                                   /\ rest2[i - 1] = Cat(Encode(tok2[i]), rest2[i])
                                   /\ cfg2[i] = After(cfg2[i - 1], tok2[i])
      /\ rest2[hi + n] = <<>>
  BY DEF Appends
<1>1. /\ \A i \in lo..hi : rest[i] \in Seq(Cell) /\ cfg[i] \in Config
      /\ \A i \in lo + 1..hi : /\ IsToken(tok[i])
                               /\ rest[i - 1] = Cat(Encode(tok[i]), rest[i])
                               /\ cfg[i] = After(cfg[i - 1], tok[i])
  BY DEF Chain
<1>2. ASSUME NEW i \in lo..hi + n PROVE rest2[i] \in Seq(Cell) /\ cfg2[i] \in Config
  <2>1. CASE i \in lo..hi
    BY <1>0, <1>1, <2>1, CatFacts
  <2>2. CASE i \in hi + 1..hi + n
    BY <1>0, <2>2
  <2>3. QED
    BY <1>0, <1>2, <2>1, <2>2
<1>3. ASSUME NEW i \in lo + 1..hi + n
      PROVE  /\ IsToken(tok2[i])
             /\ rest2[i - 1] = Cat(Encode(tok2[i]), rest2[i])
             /\ cfg2[i] = After(cfg2[i - 1], tok2[i])
  <2>1. CASE i \in lo + 1..hi
    <3>1. i \in lo..hi /\ i - 1 \in lo..hi
      BY <2>1
    <3>2. tok2[i] = tok[i] /\ rest2[i] = Cat(rest[i], new) /\ rest2[i - 1] = Cat(rest[i - 1], new)
          /\ cfg2[i] = cfg[i] /\ cfg2[i - 1] = cfg[i - 1]
      BY <1>0, <2>1, <3>1
    <3>3. Encode(tok[i]) \in Seq(Cell) /\ rest[i] \in Seq(Cell)
      BY <1>1, <2>1, <3>1, TokenFacts
    <3>4. Cat(Cat(Encode(tok[i]), rest[i]), new) = Cat(Encode(tok[i]), Cat(rest[i], new))
      BY <1>0, <3>3, CatAssociative
    <3>5. QED
      BY <1>1, <2>1, <3>2, <3>4
  <2>2. CASE i \in hi + 1..hi + n
    BY <1>0, <2>2
  <2>3. i \in lo + 1..hi \/ i \in hi + 1..hi + n
    BY <1>0
  <2>4. QED
    BY <2>1, <2>2, <2>3
<1>4. QED
  BY <1>0, <1>2, <1>3 DEF Chain

-----------------------------------------------------------------------------
(***************************************************************************)
(* The inductive invariant of the stream.                                  *)
(***************************************************************************)

\* The chain between the reader and the writer: the writer is at its end, and
\* its cells are those on the wire and, after a failure, those that were lost.
Pipe(lo, hi, tok, rest, cfg) ==
  /\ lo \in Nat /\ hi \in Nat /\ lo <= hi
  /\ Chain(lo, hi, tok, rest, cfg)
  /\ cfg[hi] = [open |-> opened, leaves |-> saying, msgs |-> said]
  /\ \E lost \in Seq(Cell) : Cat(wire, lost) = rest[lo] /\ (status = "writing" => lost = <<>>)

\* s is a front of t.
IsPrefixOf(s, t) == Len(s) <= Len(t) /\ \A i \in 1..Len(s) : s[i] = t[i]

\* Nothing in the chain that the writer did not say: the messages before a place
\* are messages it wrote to the end, and a message is open there only when some
\* leaf under it was written.
ConfigBacked(c) ==
  /\ IsPrefixOf(c.msgs, said)
  /\ c.open # <<>> => \E w \in Written : Len(c.open) <= Len(w.path)
LeafBacked(t) ==
  t.op = "leaf" => \E w \in Written : w.field = t.field /\ w.value = t.value
Backed(lo, hi, tok, cfg) ==
  /\ \A i \in lo..hi : ConfigBacked(cfg[i])
  /\ \A i \in lo + 1..hi : LeafBacked(tok[i])

\* The reader is at configuration c: its calls are the messages open there, each
\* with the nesting that is left; it skips in the unknown ones; and what it has
\* heard is what it can see of the leaves and the messages before.
Follows(c) ==
  /\ frames = <<>> => c.open = <<>> /\ c.leaves = <<>>
  /\ frames # <<>> => Len(frames) = Len(c.open) + 1
  /\ \A d \in 1..Len(c.open) : frames[d + 1].field = c.open[d]
  /\ \A d \in 1..Len(frames) :
        /\ frames[d].nesting >= MaxNesting - (d - 1)
        /\ frames[d].skipping <=> \E e \in 1..d - 1 : c.open[e] \notin known
  /\ AreSeen(hearing, c.leaves, known)
  /\ Len(heard) = Len(c.msgs)
  /\ \A m \in 1..Len(heard) : AreSeen(heard[m], c.msgs[m], known)

\* The types of the variables about the stream.
StreamTypes ==
  /\ writer \in {"generated", "dynamic"} /\ reader \in {"generated", "dynamic"}
  /\ known \subseteq Fields
  /\ wire \in Seq(Cell)
  /\ saying \in Seq(Leaf) /\ said \in Seq(Seq(Leaf))
  /\ hearing \in Seq(Leaf) /\ heard \in Seq(Seq(Leaf))
  /\ frames \in Seq([skipping : BOOLEAN, field : Nat, nesting : Int])

\* The deferred fields are messages.
AreMessages(fs) == \A j \in 1..Len(fs) : Kind(fs[j]) = "message"
PendingAreMessages == AreMessages(pending)

\* What is inductive.
StreamInv ==
  /\ TagInv /\ StreamTypes /\ PendingAreMessages /\ ErrorsHaveCause
  /\ \E lo, hi, tok, rest, cfg :
        Pipe(lo, hi, tok, rest, cfg) /\ Backed(lo, hi, tok, cfg) /\ Follows(cfg[lo])

\* The reader has heard the first messages the writer said; and since its place
\* is the start of a token, an unfinished stream of a writer that has finished
\* the message holds the cells of its next round.
LEMMA StreamInvImplies == ASSUME LowFields, StreamInv PROVE RoundTrip
<1>1. PICK lo, hi, tok, rest, cfg :
        Pipe(lo, hi, tok, rest, cfg) /\ Backed(lo, hi, tok, cfg) /\ Follows(cfg[lo])
  BY DEF StreamInv
<1>2. /\ lo \in Nat /\ hi \in Nat /\ lo <= hi /\ lo \in lo..hi
      /\ Chain(lo, hi, tok, rest, cfg) /\ cfg[hi].msgs = said
  BY <1>1 DEF Pipe
<1>3. IsPrefixOf(cfg[lo].msgs, said) /\ Len(heard) = Len(cfg[lo].msgs)
      /\ \A m \in 1..Len(heard) : AreSeen(heard[m], cfg[lo].msgs[m], known)
  BY <1>1, <1>2 DEF Backed, ConfigBacked, Follows
<1>4. /\ Len(heard) <= Len(said)
      /\ \A m \in 1..Len(heard) : AreSeen(heard[m], said[m], known)
  BY <1>3 DEF IsPrefixOf
<1>5. ASSUME Len(heard) < Len(said), status = "writing" PROVE Len(wire) >= Needed
  <2>1. Len(cfg[lo].msgs) < Len(cfg[hi].msgs)
    BY <1>2, <1>3, <1>5
  <2>2. Len(cfg[hi].msgs) \in Nat
    BY <1>2, LenProperties DEF StreamInv, StreamTypes
  <2>3. lo # hi
    BY <2>1, <2>2
  <2>4. lo < hi
    BY <1>2, <2>3
  <2>5. PICK lost \in Seq(Cell) : Cat(wire, lost) = rest[lo] /\ lost = <<>>
    BY <1>1, <1>5 DEF Pipe
  <2>6. rest[lo] = Cat(Encode(tok[lo + 1]), rest[lo + 1]) /\ IsToken(tok[lo + 1])
        /\ rest[lo + 1] \in Seq(Cell)
    BY <1>2, <2>4, ChainShorter
  <2>7. Needed \in Nat /\ Needed <= Len(Encode(tok[lo + 1]))
    BY <2>5, <2>6, NextRound DEF StreamInv, StreamTypes
  <2>8. wire = rest[lo]
    BY <2>5, CatEmpty DEF StreamInv, StreamTypes
  <2>9. Encode(tok[lo + 1]) \in Seq(Cell)
    BY <2>6, TokenFacts
  <2>10. Len(rest[lo]) = Len(Encode(tok[lo + 1])) + Len(rest[lo + 1])
         /\ Len(Encode(tok[lo + 1])) \in Nat /\ Len(rest[lo + 1]) \in Nat
    <3>1. Len(Cat(Encode(tok[lo + 1]), rest[lo + 1])) = Len(Encode(tok[lo + 1])) + Len(rest[lo + 1])
          /\ Len(Encode(tok[lo + 1])) \in Nat /\ Len(rest[lo + 1]) \in Nat
      <4> DEFINE e == Encode(tok[lo + 1])
                 r == rest[lo + 1]
      <4>1. e \in Seq(Cell) /\ r \in Seq(Cell)
        BY <2>6, <2>9
      <4> HIDE DEF e, r
      <4>2. Len(Cat(e, r)) = Len(e) + Len(r) /\ Len(e) \in Nat /\ Len(r) \in Nat
        BY <4>1, CatFacts
      <4>3. QED
        BY <4>2 DEF e, r
    <3>2. QED
      BY <2>6, <3>1
  <2> DEFINE size == Len(Encode(tok[lo + 1]))
             left == Len(rest[lo + 1])
  <2>11. Len(wire) = size + left /\ size \in Nat /\ left \in Nat /\ Needed \in Nat
         /\ Needed <= size
    BY <2>7, <2>8, <2>10
  <2>12. QED
    <3> HIDE DEF size, left
    <3>1. QED
      BY <2>11
<1>6. QED
  BY <1>4, <1>5 DEF RoundTrip

\* A front of a front is a front.
LEMMA PrefixTransitive ==
  ASSUME NEW S, NEW s \in Seq(S), NEW t \in Seq(S), NEW u \in Seq(S),
         IsPrefixOf(s, t), IsPrefixOf(t, u)
  PROVE  IsPrefixOf(s, u)
<1>1. Len(s) \in Nat /\ Len(t) \in Nat /\ Len(u) \in Nat
  BY LenProperties
<1>2. Len(s) <= Len(t) /\ Len(t) <= Len(u)
  BY DEF IsPrefixOf
<1>3. ASSUME NEW i \in 1..Len(s) PROVE s[i] = u[i]
  <2>1. i \in 1..Len(t)
    BY <1>1, <1>2
  <2>2. QED
    BY <2>1 DEF IsPrefixOf
<1>4. QED
  BY <1>1, <1>2, <1>3 DEF IsPrefixOf

\* A step of the writer that makes the chain longer keeps the invariant.
LEMMA Extended ==
  ASSUME LowFields, StreamTypes, ErrorsHaveCause, status = "writing",
         NEW lo, NEW hi, NEW n, NEW new,
         NEW tok, NEW rest, NEW cfg, NEW tok2, NEW rest2, NEW cfg2,
         Pipe(lo, hi, tok, rest, cfg), Backed(lo, hi, tok, cfg), Follows(cfg[lo]),
         Appends(lo, hi, n, new, tok, rest, cfg, tok2, rest2, cfg2),
         wire' = Cat(wire, new), UNCHANGED <<writer, reader, known, readerVars>>,
         cfg2[hi + n] = [open |-> opened', leaves |-> saying', msgs |-> said'],
         saying' \in Seq(Leaf), said' \in Seq(Seq(Leaf)), TagInv', PendingAreMessages',
         \A w \in Written : w \in Written', IsPrefixOf(said, said'),
         \A i \in hi + 1..hi + n : ConfigBacked(cfg2[i])' /\ LeafBacked(tok2[i])'
  PROVE  StreamInv'
<1>0. /\ n \in Nat /\ new \in Seq(Cell)
      /\ \A i \in lo + 1..hi : tok2[i] = tok[i]
      /\ \A i \in lo..hi : rest2[i] = Cat(rest[i], new) /\ cfg2[i] = cfg[i]
  BY DEF Appends
<1>1. lo \in Nat /\ hi \in Nat /\ lo <= hi /\ hi + n \in Nat /\ lo <= hi + n /\ lo \in lo..hi
      /\ Chain(lo, hi, tok, rest, cfg)
  BY <1>0 DEF Pipe
<1>2. Chain(lo, hi + n, tok2, rest2, cfg2)
  BY <1>1, ChainLonger
<1>3. wire \in Seq(Cell) /\ wire' \in Seq(Cell)
  BY <1>0, CatFacts DEF StreamTypes
<1>4. Cat(wire', <<>>) = rest2[lo] /\ <<>> \in Seq(Cell)
  <2>1. PICK lost \in Seq(Cell) : Cat(wire, lost) = rest[lo] /\ lost = <<>>
    BY DEF Pipe
  <2>2. wire = rest[lo]
    BY <1>3, <2>1, CatEmpty
  <2>3. rest2[lo] = Cat(rest[lo], new)
    BY <1>0, <1>1
  <2>4. QED
    BY <1>3, <2>2, <2>3, CatEmpty
<1>5. Pipe(lo, hi + n, tok2, rest2, cfg2)'
  BY <1>1, <1>2, <1>4 DEF Pipe
<1>6. Backed(lo, hi + n, tok2, cfg2)'
  <2>1. \A i \in lo..hi + n : i \in lo..hi \/ i \in hi + 1..hi + n
    BY <1>0, <1>1
  <2>2. \A i \in lo + 1..hi + n : i \in lo + 1..hi \/ i \in hi + 1..hi + n
    BY <1>0, <1>1
  <2>3. ASSUME NEW i \in lo..hi PROVE ConfigBacked(cfg2[i])'
    <3>1. ConfigBacked(cfg[i]) /\ cfg2[i] = cfg[i] /\ cfg[i].msgs \in Seq(Seq(Leaf))
      BY <1>0, <1>1 DEF Backed, Chain, Config
    <3>2. IsPrefixOf(cfg[i].msgs, said) /\ said \in Seq(Seq(Leaf))
      BY <3>1 DEF ConfigBacked, StreamTypes
    <3>3. IsPrefixOf(cfg[i].msgs, said')
      BY <3>1, <3>2, PrefixTransitive
    <3>4. cfg[i].open # <<>> => \E w \in Written' : Len(cfg[i].open) <= Len(w.path)
      BY <3>1 DEF ConfigBacked
    <3>5. QED
      BY <3>1, <3>3, <3>4 DEF ConfigBacked
  <2>4. ASSUME NEW i \in lo + 1..hi PROVE LeafBacked(tok2[i])'
    <3>1. LeafBacked(tok[i]) /\ tok2[i] = tok[i]
      BY <1>0 DEF Backed
    <3>2. QED
      BY <3>1 DEF LeafBacked
  <2>5. QED
    BY <2>1, <2>2, <2>3, <2>4 DEF Backed
<1>7. Follows(cfg2[lo])'
  <2>1. cfg2[lo] = cfg[lo]
    BY <1>0, <1>1
  <2>2. Follows(cfg[lo])'
    BY DEF Follows, readerVars
  <2>3. QED
    BY <2>1, <2>2 DEF Follows
<1>8. StreamTypes'
  BY <1>3 DEF StreamTypes, readerVars
<1>9. ErrorsHaveCause'
  <2>1. rerr' = rerr /\ \A f : WriterKind(f)' = WriterKind(f)
    BY DEF readerVars, WriterKind
  <2>2. QED
    BY <2>1 DEF ErrorsHaveCause
<1>10. QED
  BY <1>5, <1>6, <1>7, <1>8, <1>9 DEF StreamInv

\* The leaves written so far.
LEMMA WrittenIs ==
  \A w : w \in Written <=>
     \/ \E i \in 1..Len(saying) : w = saying[i]
     \/ \E m \in 1..Len(said) : \E i \in 1..Len(said[m]) : w = said[m][i]
  BY DEF Written

\* The leaves written after a step.
LEMMA WrittenNext ==
  \A w : w \in Written' <=>
     \/ \E i \in 1..Len(saying') : w = saying'[i]
     \/ \E m \in 1..Len(said') : \E i \in 1..Len(said'[m]) : w = said'[m][i]
<1>1. (\A w : w \in Written <=>
         \/ \E i \in 1..Len(saying) : w = saying[i]
         \/ \E m \in 1..Len(said) : \E i \in 1..Len(said[m]) : w = said[m][i])'
  BY WrittenIs, PTL
<1>2. QED
  BY <1>1

\* They stay when neither history changes.
LEMMA WrittenSame == ASSUME UNCHANGED <<saying, said>> PROVE Written' = Written
  BY DEF Written

\* They are leaves.
LEMMA WrittenAreLeaves ==
  ASSUME saying \in Seq(Leaf), said \in Seq(Seq(Leaf)) PROVE Written \subseteq Leaf
<1>1. ASSUME NEW w \in Written PROVE w \in Leaf
  <2>1. CASE \E i \in 1..Len(saying) : w = saying[i]
    BY <2>1, ElementOfSeq
  <2>2. CASE \E m \in 1..Len(said) : \E i \in 1..Len(said[m]) : w = said[m][i]
    <3>1. PICK m \in 1..Len(said) : \E i \in 1..Len(said[m]) : w = said[m][i]
      BY <2>2
    <3>2. said[m] \in Seq(Leaf)
      BY ElementOfSeq
    <3>3. QED
      BY <3>1, <3>2, ElementOfSeq
  <2>3. QED
    BY <1>1, <2>1, <2>2, WrittenIs
<1>2. QED
  BY <1>1

\* A sequence is a front of itself.
LEMMA PrefixReflexive == ASSUME NEW S, NEW s \in Seq(S) PROVE IsPrefixOf(s, s)
  BY LenProperties DEF IsPrefixOf

\* A step of the writer that writes nothing.
LEMMA WritesNothing ==
  ASSUME LowFields, StreamInv, status = "writing", TagInv', PendingAreMessages',
         UNCHANGED <<writer, wire, opened, saying, said, reader, known, readerVars>>
  PROVE  StreamInv'
<1>1. PICK lo, hi, tok, rest, cfg :
        Pipe(lo, hi, tok, rest, cfg) /\ Backed(lo, hi, tok, cfg) /\ Follows(cfg[lo])
  BY DEF StreamInv
<1>2. StreamTypes /\ ErrorsHaveCause
  BY DEF StreamInv
<1>3. lo \in Nat /\ hi \in Nat /\ lo <= hi /\ Chain(lo, hi, tok, rest, cfg)
      /\ cfg[hi] = [open |-> opened, leaves |-> saying, msgs |-> said]
  BY <1>1 DEF Pipe
<1>4. \A i \in lo..hi : rest[i] = Cat(rest[i], <<>>)
  BY <1>3, CatEmpty DEF Chain
<1>5. wire' = Cat(wire, <<>>)
  BY <1>2, CatEmpty DEF StreamTypes
<1>6. hi + 0 = hi /\ rest[hi] = <<>> /\ \A i \in hi + 1..hi + 0 : FALSE
  BY <1>3 DEF Chain
<1>7. \A w \in Written : w \in Written'
  BY DEF Written
<1>8. IsPrefixOf(said, said') /\ saying' \in Seq(Leaf) /\ said' \in Seq(Seq(Leaf))
  BY <1>2, PrefixReflexive DEF StreamTypes
<1>9. <<>> \in Seq(Cell) /\ 0 \in Nat
  BY EmptySeq
<1>10. cfg[hi + 0] = [open |-> opened', leaves |-> saying', msgs |-> said'] /\ rest[hi + 0] = <<>>
  BY <1>3, <1>6
<1>11. Appends(lo, hi, 0, <<>>, tok, rest, cfg, tok, rest, cfg)
  BY <1>4, <1>6, <1>9 DEF Appends
<1>12. \A i \in hi + 1..hi + 0 : ConfigBacked(cfg[i])' /\ LeafBacked(tok[i])'
  BY <1>6
<1>13. QED
  BY <1>1, <1>2, <1>5, <1>7, <1>8, <1>10, <1>11, <1>12, Extended

-----------------------------------------------------------------------------
(***************************************************************************)
(* The steps of the writer.                                                *)
(***************************************************************************)

\* An End is written: of the innermost message open on the wire, or of the body
\* (encoding.cc:87-92, 123-131).
LEMMA EndWritten ==
  ASSUME LowFields, StreamInv, status = "writing", TagInv', PendingAreMessages',
         wire' = Append(wire, Tag(0, "End")), UNCHANGED <<writer, reader, known, readerVars>>,
         \/ /\ opened = <<>> /\ opened' = <<>> /\ saying' = <<>> /\ said' = Append(said, saying)
         \/ /\ opened # <<>> /\ opened' = Front(opened) /\ UNCHANGED <<saying, said>>
  PROVE  StreamInv'
<1>1. PICK lo, hi, tok, rest, cfg :
        Pipe(lo, hi, tok, rest, cfg) /\ Backed(lo, hi, tok, cfg) /\ Follows(cfg[lo])
  BY DEF StreamInv
<1>2. /\ StreamTypes /\ ErrorsHaveCause
      /\ saying \in Seq(Leaf) /\ said \in Seq(Seq(Leaf)) /\ wire \in Seq(Cell) /\ opened \in Seq(Fields)
  BY DEF StreamInv, StreamTypes, TagInv, TypeOK
<1>3. /\ lo \in Nat /\ hi \in Nat /\ lo <= hi /\ Chain(lo, hi, tok, rest, cfg)
      /\ cfg[hi] = [open |-> opened, leaves |-> saying, msgs |-> said]
      /\ rest[hi] = <<>> /\ hi \in lo..hi
  BY <1>1 DEF Pipe, Chain
<1>4. /\ saying' \in Seq(Leaf) /\ said' \in Seq(Seq(Leaf)) /\ opened' \in Seq(Fields)
      /\ IsPrefixOf(said, said')
      /\ \A w \in Written : w \in Written'
  <2>1. CASE opened = <<>> /\ opened' = <<>> /\ saying' = <<>> /\ said' = Append(said, saying)
    <3>1. /\ said' \in Seq(Seq(Leaf)) /\ Len(said') = Len(said) + 1 /\ Len(said) \in Nat
          /\ \A m \in 1..Len(said) : said'[m] = said[m]
          /\ said'[Len(said) + 1] = saying
      BY <1>2, <2>1, AppendProperties, LenProperties
    <3>2. IsPrefixOf(said, said')
      BY <3>1 DEF IsPrefixOf
    <3>3. ASSUME NEW w \in Written PROVE w \in Written'
      <4>1. CASE \E i \in 1..Len(saying) : w = saying[i]
        <5>1. \E m \in 1..Len(said') : \E i \in 1..Len(said'[m]) : w = said'[m][i]
          <6>1. Len(said) + 1 \in 1..Len(said')
            BY <3>1
          <6>2. QED
            BY <3>1, <4>1, <6>1
        <5>2. QED
          BY <5>1, WrittenNext
      <4>2. CASE \E m \in 1..Len(said) : \E i \in 1..Len(said[m]) : w = said[m][i]
        <5>1. \E m \in 1..Len(said') : \E i \in 1..Len(said'[m]) : w = said'[m][i]
          <6>1. \A m \in 1..Len(said) : m \in 1..Len(said')
            BY <3>1
          <6>2. QED
            BY <3>1, <4>2, <6>1
        <5>2. QED
          BY <5>1, WrittenNext
      <4>3. QED
        BY <3>3, <4>1, <4>2, WrittenIs
    <3>4. QED
      BY <1>2, <2>1, <3>1, <3>2, <3>3, EmptySeq
  <2>2. CASE opened # <<>> /\ opened' = Front(opened) /\ UNCHANGED <<saying, said>>
    <3>1. opened' \in Seq(Fields)
      BY <1>2, <2>2, FrontProperties
    <3>2. IsPrefixOf(said, said')
      BY <1>2, <2>2, PrefixReflexive
    <3>3. QED
      BY <1>2, <2>2, <3>1, <3>2 DEF Written
  <2>3. QED
    BY <2>1, <2>2
<1> DEFINE last == After(cfg[hi], EndToken)
           new == Encode(EndToken)
           tok2 == [i \in Nat |-> IF i <= hi THEN tok[i] ELSE EndToken]
           rest2 == [i \in Nat |-> IF i <= hi THEN Cat(rest[i], new) ELSE <<>>]
           cfg2 == [i \in Nat |-> IF i <= hi THEN cfg[i] ELSE last]
<1>5. last = [open |-> opened', leaves |-> saying', msgs |-> said'] /\ last \in Config
  <2>1. last = [open |-> opened', leaves |-> saying', msgs |-> said']
    <3>1. /\ cfg[hi].open = opened /\ cfg[hi].leaves = saying /\ cfg[hi].msgs = said
          /\ EndToken.op = "end"
      BY <1>3 DEF EndToken
    <3>2. last = IF opened = <<>>
                 THEN [open |-> <<>>, leaves |-> <<>>, msgs |-> Append(said, saying)]
                 ELSE [open |-> Front(opened), leaves |-> saying, msgs |-> said]
      BY <3>1 DEF After
    <3>3. QED
      BY <3>2
  <2>2. QED
    BY <1>4, <2>1 DEF Config
<1>6. IsToken(EndToken) /\ new \in Seq(Cell) /\ new = <<Tag(0, "End")>> /\ Tag(0, "End") \in Cell
  <2>1. IsToken(EndToken)
    BY DEF IsToken
  <2>2. new \in Seq(Cell) /\ Tag(0, "End") \in Cell
    BY <2>1, TokenFacts DEF EndToken, TokenType
  <2>3. <<Tag(0, "End")>> \in Seq(Cell)
    BY <2>2
  <2>4. new = <<Tag(0, "End")>> \o <<>>
    BY DEF Encode, EndToken, TokenType, Body
  <2>5. QED
    BY <2>1, <2>2, <2>3, <2>4, ConcatEmptySeq
<1>7. wire' = Cat(wire, new)
  BY <1>2, <1>6, AppendIsConcat DEF Cat
<1>8. Appends(lo, hi, 1, new, tok, rest, cfg, tok2, rest2, cfg2)
  <2>1. \A i \in lo + 1..hi : tok2[i] = tok[i]
    BY <1>3
  <2>2. \A i \in lo..hi : rest2[i] = Cat(rest[i], new) /\ cfg2[i] = cfg[i]
    <3> HIDE DEF new
    <3>1. QED
      BY <1>3
  <2>3. rest2[hi + 1] = <<>> /\ cfg2[hi + 1] = last /\ tok2[hi + 1] = EndToken
    <3> HIDE DEF new, last
    <3>1. hi + 1 \in Nat /\ ~(hi + 1 <= hi)
      BY <1>3
    <3>2. QED
      BY <3>1
  <2>4. rest2[hi] = new /\ cfg2[hi] = cfg[hi]
    BY <1>3, <1>6, <2>2, CatEmpty
  <2>5. ASSUME NEW i \in hi + 1..hi + 1 PROVE i = hi + 1 /\ i - 1 = hi
    BY <1>3
  <2>6. Cat(new, <<>>) = new /\ <<>> \in Seq(Cell)
    BY <1>6, CatEmpty, EmptySeq
  <2>7. 1 \in Nat
    OBVIOUS
  <2> HIDE DEF tok2, rest2, cfg2
  <2>8. ASSUME NEW i \in hi + 1..hi + 1
        PROVE  /\ rest2[i] \in Seq(Cell) /\ cfg2[i] \in Config
               /\ IsToken(tok2[i])
               /\ rest2[i - 1] = Cat(Encode(tok2[i]), rest2[i])
               /\ cfg2[i] = After(cfg2[i - 1], tok2[i])
    <3>1. rest2[i] = <<>> /\ cfg2[i] = last /\ tok2[i] = EndToken /\ rest2[i - 1] = new
          /\ cfg2[i - 1] = cfg[hi]
      BY <2>3, <2>4, <2>5
    <3>2. QED
      BY <1>5, <1>6, <2>6, <3>1
  <2>9. QED
    BY <1>6, <2>1, <2>2, <2>3, <2>7, <2>8 DEF Appends
<1>9. cfg2[hi + 1] = last /\ tok2[hi + 1] = EndToken
  <2> HIDE DEF last
  <2>1. hi + 1 \in Nat /\ ~(hi + 1 <= hi)
    BY <1>3
  <2>2. QED
    BY <2>1
<1>10. ConfigBacked(last)' /\ LeafBacked(EndToken)'
  <2>1. IsPrefixOf(said', said')
    BY <1>4, PrefixReflexive
  <2>2. last.msgs = said' /\ last.open = opened'
    BY <1>5
  <2>3. ASSUME opened' # <<>> PROVE \E w \in Written' : Len(opened') <= Len(w.path)
    <3>1. opened # <<>> /\ opened' = Front(opened)
      BY <2>3
    <3>2. Len(opened) \in Nat /\ Len(opened') = Len(opened) - 1
      BY <1>2, <3>1, FrontProperties
    <3>3. PICK w \in Written : Len(opened) <= Len(w.path)
      BY <1>1, <1>3, <3>1 DEF Backed, ConfigBacked
    <3>4. w.path \in Seq(Fields)
      <4>1. w \in Leaf
        BY <1>2, WrittenAreLeaves
      <4>2. QED
        BY <4>1 DEF Leaf
    <3>5. Len(w.path) \in Nat
      BY <3>4, LenProperties
    <3>6. Len(opened') <= Len(w.path)
      BY <3>2, <3>3, <3>5
    <3>7. QED
      BY <1>4, <3>6
  <2>4. LeafBacked(EndToken)'
    BY DEF LeafBacked, EndToken
  <2> HIDE DEF last
  <2>5. QED
    BY <2>1, <2>2, <2>3, <2>4 DEF ConfigBacked
<1>11. \A i \in hi + 1..hi + 1 : ConfigBacked(cfg2[i])' /\ LeafBacked(tok2[i])'
  <2>1. \A i \in hi + 1..hi + 1 : i = hi + 1
    BY <1>3
  <2>2. cfg2[hi + 1] = last /\ tok2[hi + 1] = EndToken
    BY <1>9
  <2> HIDE DEF cfg2, tok2, last
  <2>3. QED
    BY <1>10, <2>1, <2>2 DEF ConfigBacked, LeafBacked
<1>12. cfg2[hi + 1] = [open |-> opened', leaves |-> saying', msgs |-> said']
  BY <1>5, <1>9
<1> HIDE DEF last, new, tok2, rest2, cfg2
<1>13. QED
  BY <1>1, <1>2, <1>4, <1>7, <1>8, <1>11, <1>12, Extended

\* The first of the elements that are left.
LEMMA SuffixStep ==
  ASSUME NEW S, NEW s \in Seq(S), NEW j \in 1..Len(s), NEW e \in Seq(S)
  PROVE  /\ Cat(SubSeq(s, j, Len(s)), e) = Cat(<<s[j]>>, Cat(SubSeq(s, j + 1, Len(s)), e))
         /\ SubSeq(s, j + 1, Len(s)) \in Seq(S)
<1> DEFINE n == Len(s)
           tail == SubSeq(s, j + 1, n)
<1>1. n \in Nat /\ j \in 1..n /\ n \in j..n
  BY LenProperties
<1>2. tail \in Seq(S)
  <2>1. j + 1 \in Int /\ n \in Int /\ \A i \in j + 1..n : s[i] \in S
    BY <1>1, ElementOfSeq
  <2> HIDE DEF n
  <2>2. QED
    BY <2>1, SubSeqProperties
<1>3. SubSeq(s, j, n) = Cat(<<s[j]>>, tail)
  BY <1>1, SubSeqRecursiveFirst DEF Cat
<1> DEFINE head == <<s[j]>>
<1>4. head \in Seq(S)
  BY ElementOfSeq
<1> HIDE DEF head, tail, n
<1>5. Cat(Cat(head, tail), e) = Cat(head, Cat(tail, e))
  BY <1>2, <1>4, CatAssociative
<1>6. QED
  BY <1>2, <1>3, <1>5 DEF head, tail, n

\* One more element of a sequence after another.
LEMMA PrefixStep ==
  ASSUME NEW S, NEW s \in Seq(S), NEW t \in Seq(S), NEW j \in 1..Len(t)
  PROVE  /\ s \o SubSeq(t, 1, j) = Append(s \o SubSeq(t, 1, j - 1), t[j])
         /\ s \o SubSeq(t, 1, j) \in Seq(S)
         /\ Len(s \o SubSeq(t, 1, j)) = Len(s) + j
<1>1. Len(t) \in Nat /\ Len(s) \in Nat /\ j \in Nat /\ j - 1 \in Int /\ 1 \in 1..Len(t)
      /\ j \in 1..Len(t) /\ t[j] \in S
  BY LenProperties, ElementOfSeq
<1> DEFINE p == SubSeq(t, 1, j - 1)
           q == SubSeq(t, 1, j)
<1>2. p \in Seq(S)
  <2>1. \A i \in 1..j - 1 : t[i] \in S
    BY <1>1, ElementOfSeq
  <2>2. QED
    BY <1>1, <2>1, SubSeqProperties
<1>3. q \in Seq(S) /\ Len(q) = j
  <2>1. \A i \in 1..j : t[i] \in S
    BY <1>1, ElementOfSeq
  <2>2. /\ SubSeq(t, 1, j) \in Seq(S)
        /\ Len(SubSeq(t, 1, j)) = IF 1 <= j THEN j - 1 + 1 ELSE 0
    BY <1>1, <2>1, SubSeqProperties
  <2>3. QED
    BY <1>1, <2>2
<1>4. q = p \o <<t[j]>>
  <2>1. 1 \in 1..Len(t) /\ j \in 1..Len(t)
    BY <1>1
  <2>2. QED
    BY <2>1, SubSeqRecursiveSecond
<1>5. <<t[j]>> \in Seq(S)
  BY <1>1
<1> HIDE DEF p, q
<1>6. s \o (p \o <<t[j]>>) = (s \o p) \o <<t[j]>>
  BY <1>2, <1>5, ConcatAssociative
<1>7. s \o p \in Seq(S)
  BY <1>2, ConcatProperties
<1>8. Append(s \o p, t[j]) = (s \o p) \o <<t[j]>>
  BY <1>1, <1>7, AppendIsConcat
<1>9. s \o q = Append(s \o p, t[j])
  BY <1>4, <1>6, <1>8
<1>10. s \o q \in Seq(S) /\ Len(s \o q) = Len(s) + j
  BY <1>3, ConcatProperties
<1>11. QED
  BY <1>9, <1>10 DEF p, q

\* The Start of a nested message is its tag.
LEMMA StartEncoding ==
  ASSUME LowFields, NEW f \in Fields, Kind(f) = "message"
  PROVE  /\ IsToken(StartOf(f)) /\ Encode(StartOf(f)) = <<Tag(f, "Start")>>
         /\ Tag(f, "Start") \in Cell
<1>1. IsToken(StartOf(f))
  BY DEF IsToken
<1>2. Tag(f, "Start") \in Cell
  BY <1>1, TokenFacts DEF StartOf, TokenType
<1>3. <<Tag(f, "Start")>> \in Seq(Cell)
  BY <1>2
<1>4. Encode(StartOf(f)) = <<Tag(f, "Start")>> \o <<>>
  BY DEF Encode, StartOf, TokenType, Body
<1>5. QED
  BY <1>1, <1>2, <1>3, <1>4, ConcatEmptySeq

\* The writer after configuration c, with the fields pend deferred.
Deferring(c, op, pend, leaves, msgs) ==
  /\ op \in Seq(Fields) /\ pend \in Seq(Fields) /\ AreMessages(pend)
  /\ leaves \in Seq(Leaf) /\ msgs \in Seq(Seq(Leaf))
  /\ c = [open |-> op, leaves |-> leaves, msgs |-> msgs]

\* Configurations from .. to lead to done through Starts and the leaf l.
EndsIn(from, to, l, tok, cfg, done) ==
  /\ cfg[to] = done
  /\ \A i \in from..to : /\ tok[i] = l \/ tok[i].op # "leaf"
                         /\ cfg[i].msgs = done.msgs
                         /\ Len(cfg[i].open) <= Len(done.open)

\* write_tags and the payload of a leaf: the tokens are the Starts of the
\* deferred fields and the leaf (encoding_impl.cc:186-196).
LEMMA FieldAppends ==
  ASSUME LowFields, NEW lo \in Nat, NEW hi \in Nat, lo <= hi, NEW tok, NEW rest, NEW cfg,
         Chain(lo, hi, tok, rest, cfg),
         NEW op, NEW pend, NEW leaves, NEW msgs, Deferring(cfg[hi], op, pend, leaves, msgs),
         NEW l, IsToken(l), l.op = "leaf",
         NEW leaf \in Leaf, leaf = [path |-> Cat(op, pend), field |-> l.field, value |-> l.value]
  PROVE  \E tok2, rest2, cfg2 :
           /\ Appends(lo, hi, Len(pend) + 1, Cat(StartTags(pend), Encode(l)),
                      tok, rest, cfg, tok2, rest2, cfg2)
           /\ EndsIn(hi + 1, hi + (Len(pend) + 1), l, tok2, cfg2,
                     [open |-> Cat(op, pend), leaves |-> Append(leaves, leaf), msgs |-> msgs])
<1> DEFINE n == Len(pend)
           starts == StartTags(pend)
           e == Encode(l)
           new == Cat(starts, e)
           Suffix(j) == Cat(SubSeq(starts, j + 1, n), e)
           Path(j) == op \o SubSeq(pend, 1, j)
           Entered(j) == [open |-> Path(j), leaves |-> leaves, msgs |-> msgs]
           done == [open |-> op \o pend, leaves |-> Append(leaves, leaf), msgs |-> msgs]
           tok2 == [i \in Nat |-> IF i <= hi THEN tok[i]
                                  ELSE IF i <= hi + n THEN StartOf(pend[i - hi]) ELSE l]
           rest2 == [i \in Nat |-> IF i <= hi THEN Cat(rest[i], new)
                                   ELSE IF i <= hi + n THEN Suffix(i - hi) ELSE <<>>]
           cfg2 == [i \in Nat |-> IF i <= hi THEN cfg[i]
                                  ELSE IF i <= hi + n THEN Entered(i - hi) ELSE done]
<1>0. /\ op \in Seq(Fields) /\ pend \in Seq(Fields) /\ AreMessages(pend)
      /\ leaves \in Seq(Leaf) /\ msgs \in Seq(Seq(Leaf))
      /\ cfg[hi] = [open |-> op, leaves |-> leaves, msgs |-> msgs]
      /\ Cat(op, pend) = op \o pend
  BY DEF Deferring, Cat
<1>1. n \in Nat
  BY <1>0, LenProperties
<1>2. \A j \in 1..n : pend[j] \in Fields /\ Kind(pend[j]) = "message"
  BY <1>0, ElementOfSeq DEF AreMessages
<1>3. starts \in Seq(Cell) /\ Len(starts) = n /\ \A j \in 1..n : starts[j] = Tag(pend[j], "Start")
  <2>1. \A j \in 1..n : Tag(pend[j], "Start") \in Cell
    BY <1>2, StartEncoding
  <2>2. starts \in [1..n -> Cell]
    BY <2>1 DEF StartTags
  <2>3. \A j \in 1..n : starts[j] = Tag(pend[j], "Start")
    BY DEF StartTags
  <2>4. starts \in Seq(Cell) /\ Len(starts) = n
    <3> HIDE DEF starts, n
    <3>1. QED
      BY <1>1, <2>2
  <2>5. QED
    BY <2>3, <2>4
<1>4. e \in Seq(Cell) /\ new \in Seq(Cell)
  <2>1. e \in Seq(Cell)
    BY TokenFacts
  <2> HIDE DEF e, starts
  <2>2. QED
    BY <1>3, <2>1, CatFacts
<1>5. Suffix(0) = new /\ Suffix(n) = e
  <2>1. SubSeq(starts, 1, n) = starts
    BY <1>3, SubSeqFull
  <2>2. SubSeq(starts, n + 1, n) = <<>>
    BY <1>1, SubSeqEmpty
  <2>3. 0 + 1 = 1
    OBVIOUS
  <2>4. Suffix(0) = new
    BY <2>1, <2>3
  <2>5. Suffix(n) = e
    BY <1>4, <2>2, CatEmpty
  <2>6. QED
    BY <2>4, <2>5
<1>6. ASSUME NEW j \in 1..n
      PROVE  /\ Suffix(j - 1) = Cat(Encode(StartOf(pend[j])), Suffix(j))
             /\ Suffix(j) \in Seq(Cell)
  <2>1. j - 1 + 1 = j
    BY <1>1
  <2>2. Encode(StartOf(pend[j])) = <<starts[j]>>
    BY <1>2, <1>3, StartEncoding
  <2> HIDE DEF starts, e
  <2>3. /\ Cat(SubSeq(starts, j, n), e) = Cat(<<starts[j]>>, Cat(SubSeq(starts, j + 1, n), e))
        /\ SubSeq(starts, j + 1, n) \in Seq(Cell)
    BY <1>3, <1>4, SuffixStep
  <2>4. Cat(SubSeq(starts, j + 1, n), e) \in Seq(Cell)
    BY <1>4, <2>3, CatFacts
  <2>5. QED
    BY <2>1, <2>2, <2>3, <2>4
<1>7. Path(0) = op /\ Path(n) = op \o pend
  <2>1. SubSeq(pend, 1, 0) = <<>>
    BY SubSeqEmpty
  <2>2. SubSeq(pend, 1, n) = pend
    BY <1>0, SubSeqFull
  <2>3. op \o <<>> = op
    BY <1>0, ConcatEmptySeq
  <2>4. QED
    BY <2>1, <2>2, <2>3
<1>8. ASSUME NEW j \in 1..n
      PROVE  /\ Path(j) = Append(Path(j - 1), pend[j])
             /\ Path(j) \in Seq(Fields) /\ Len(Path(j)) = Len(op) + j
  BY <1>0, PrefixStep
<1>9. Len(op \o pend) = Len(op) + n /\ op \o pend \in Seq(Fields) /\ Len(op) \in Nat
  BY <1>0, ConcatProperties, LenProperties
<1>10. ASSUME NEW j \in 1..n
       PROVE  /\ Entered(j) = After(Entered(j - 1), StartOf(pend[j]))
              /\ Entered(j) \in Config
  <2>1. StartOf(pend[j]).op = "start" /\ StartOf(pend[j]).field = pend[j]
    BY DEF StartOf
  <2> HIDE DEF Path
  <2>2. After(Entered(j - 1), StartOf(pend[j])) =
          [open |-> Append(Path(j - 1), pend[j]), leaves |-> leaves, msgs |-> msgs]
    BY <2>1 DEF After
  <2>3. QED
    BY <1>0, <1>8, <2>2 DEF Config
<1>11. Entered(0) = cfg[hi] /\ Entered(n) = [open |-> op \o pend, leaves |-> leaves, msgs |-> msgs]
  BY <1>0, <1>7
<1>12. done = After(Entered(n), l) /\ done \in Config
  <2> DEFINE c == Entered(n)
  <2>1. /\ c.open = op \o pend /\ c.leaves = leaves /\ c.msgs = msgs
    BY <1>7
  <2> HIDE DEF c
  <2>2. After(c, l) = [open |-> c.open,
                       leaves |-> Append(c.leaves, [path |-> c.open, field |-> l.field, value |-> l.value]),
                       msgs |-> c.msgs]
    BY DEF After
  <2>3. done = After(c, l)
    BY <1>0, <2>1, <2>2
  <2>4. Append(leaves, leaf) \in Seq(Leaf)
    BY <1>0, AppendProperties
  <2>5. done \in Config
    BY <1>0, <1>9, <2>4 DEF Config
  <2>6. QED
    BY <2>3, <2>5 DEF c
<1> HIDE DEF starts, e, new, Suffix, Path, Entered, done
<1>13. ASSUME NEW j \in 1..n
       PROVE  /\ tok2[hi + j] = StartOf(pend[j])
              /\ rest2[hi + j] = Suffix(j)
              /\ cfg2[hi + j] = Entered(j)
  <2>1. hi + j \in Nat /\ ~(hi + j <= hi) /\ hi + j <= hi + n /\ (hi + j) - hi = j
    BY <1>1
  <2>2. QED
    BY <2>1
<1>14. rest2[hi] = Suffix(0) /\ cfg2[hi] = Entered(0)
  <2>1. Cat(rest[hi], new) = new
    BY <1>4, CatEmpty DEF Chain
  <2>2. QED
    BY <1>5, <1>11, <2>1
<1>15. tok2[hi + (n + 1)] = l /\ rest2[hi + (n + 1)] = <<>> /\ cfg2[hi + (n + 1)] = done
  <2>1. hi + (n + 1) \in Nat /\ ~(hi + (n + 1) <= hi) /\ ~(hi + (n + 1) <= hi + n)
    BY <1>1
  <2>2. QED
    BY <2>1
<1>16. /\ \A i \in lo + 1..hi : tok2[i] = tok[i]
       /\ \A i \in lo..hi : rest2[i] = Cat(rest[i], new) /\ cfg2[i] = cfg[i]
  OBVIOUS
<1>17. ASSUME NEW j \in 0..n
       PROVE  rest2[hi + j] = Suffix(j) /\ cfg2[hi + j] = Entered(j)
  <2>1. CASE j = 0
    <3>1. hi + j = hi
      BY <2>1
    <3>2. QED
      BY <1>14, <2>1, <3>1
  <2>2. CASE j # 0
    <3>1. j \in 1..n
      BY <1>1, <2>2
    <3>2. QED
      BY <1>13, <3>1
  <2>3. QED
    BY <2>1, <2>2
<1> HIDE DEF tok2, rest2, cfg2
<1>18. ASSUME NEW i \in hi + 1..hi + (n + 1)
       PROVE  /\ rest2[i] \in Seq(Cell) /\ cfg2[i] \in Config
              /\ IsToken(tok2[i])
              /\ rest2[i - 1] = Cat(Encode(tok2[i]), rest2[i])
              /\ cfg2[i] = After(cfg2[i - 1], tok2[i])
              /\ tok2[i] = l \/ tok2[i].op # "leaf"
              /\ cfg2[i].msgs = msgs
              /\ Len(cfg2[i].open) <= Len(op \o pend)
  <2>1. PICK j \in 1..n + 1 : i = hi + j
    <3>1. i - hi \in 1..n + 1 /\ i = hi + (i - hi)
      BY <1>1
    <3>2. QED
      BY <3>1
  <2>2. j - 1 \in 0..n /\ i - 1 = hi + (j - 1)
    BY <1>1, <2>1
  <2>3. rest2[i - 1] = Suffix(j - 1) /\ cfg2[i - 1] = Entered(j - 1)
    BY <1>17, <2>2
  <2>4. CASE j \in 1..n
    <3>1. rest2[i] = Suffix(j) /\ cfg2[i] = Entered(j) /\ tok2[i] = StartOf(pend[j])
      BY <1>13, <2>1, <2>4
    <3>2. IsToken(StartOf(pend[j])) /\ StartOf(pend[j]).op # "leaf"
      BY <1>2, <2>4, StartEncoding DEF StartOf
    <3>3. Len(Path(j)) <= Len(op \o pend)
      BY <1>1, <1>8, <1>9, <2>4
    <3>4. Entered(j).open = Path(j) /\ Entered(j).msgs = msgs
      BY DEF Entered
    <3>5. QED
      BY <1>6, <1>10, <2>3, <2>4, <3>1, <3>2, <3>3, <3>4
  <2>5. CASE j = n + 1
    <3>1. rest2[i] = <<>> /\ cfg2[i] = done /\ tok2[i] = l /\ j - 1 = n
      BY <1>1, <1>15, <2>1, <2>5
    <3>2. rest2[i - 1] = e /\ cfg2[i - 1] = Entered(n)
      BY <1>5, <2>3, <3>1
    <3>3. Cat(e, <<>>) = e /\ <<>> \in Seq(Cell)
      BY <1>4, CatEmpty, EmptySeq
    <3>4. done.open = op \o pend /\ done.msgs = msgs
      BY DEF done
    <3>5. rest2[i - 1] = Cat(Encode(l), <<>>)
      BY <3>2, <3>3 DEF e
    <3>6. Len(op \o pend) <= Len(op \o pend)
      BY <1>1, <1>9
    <3>7. QED
      BY <1>12, <3>1, <3>2, <3>3, <3>4, <3>5, <3>6
  <2>6. j \in 1..n \/ j = n + 1
    BY <1>1
  <2>7. QED
    BY <2>4, <2>5, <2>6
<1>19. Appends(lo, hi, n + 1, new, tok, rest, cfg, tok2, rest2, cfg2)
  <2>1. n + 1 \in Nat
    BY <1>1
  <2>2. QED
    BY <1>4, <1>15, <1>16, <1>18, <2>1 DEF Appends
<1>20. QED
  <2>1. cfg2[hi + (n + 1)] = [open |-> Cat(op, pend), leaves |-> Append(leaves, leaf), msgs |-> msgs]
    BY <1>0, <1>15 DEF done
  <2>2. Appends(lo, hi, n + 1, Cat(StartTags(pend), Encode(l)), tok, rest, cfg, tok2, rest2, cfg2)
    BY <1>19 DEF new, starts, e
  <2>3. \A i \in hi + 1..hi + (n + 1) :
          /\ tok2[i] = l \/ tok2[i].op # "leaf"
          /\ cfg2[i].msgs = msgs
          /\ Len(cfg2[i].open) <= Len(Cat(op, pend))
    BY <1>0, <1>18
  <2>4. EndsIn(hi + 1, hi + (n + 1), l, tok2, cfg2,
               [open |-> Cat(op, pend), leaves |-> Append(leaves, leaf), msgs |-> msgs])
    BY <2>1, <2>3 DEF EndsIn
  <2>5. QED
    BY <2>2, <2>4

\* A leaf that is written, with the deferred Starts.
LEMMA FieldWritten ==
  ASSUME LowFields, StreamInv, TagInv', NEW f \in Fields, NEW v \in Values[f],
         MarshalLeaf(f, v), ~Omitted(WriterKind(f), v)
  PROVE  StreamInv'
<1>1. PICK lo, hi, tok, rest, cfg :
        Pipe(lo, hi, tok, rest, cfg) /\ Backed(lo, hi, tok, cfg) /\ Follows(cfg[lo])
  BY DEF StreamInv
<1>2. /\ StreamTypes /\ ErrorsHaveCause /\ PendingAreMessages
      /\ saying \in Seq(Leaf) /\ said \in Seq(Seq(Leaf)) /\ wire \in Seq(Cell)
      /\ opened \in Seq(Fields) /\ pending \in Seq(Fields) /\ path \in Seq(Fields)
      /\ path = Cat(opened, pending)
  BY DEF StreamInv, StreamTypes, TagInv, TypeOK, OpenTagsMatchPath, Cat
<1>3. /\ lo \in Nat /\ hi \in Nat /\ lo <= hi /\ Chain(lo, hi, tok, rest, cfg)
      /\ cfg[hi] = [open |-> opened, leaves |-> saying, msgs |-> said]
  BY <1>1 DEF Pipe
<1> DEFINE l == LeafOf(f, v)
           leaf == [path |-> Cat(opened, pending), field |-> f, value |-> v]
           n == Len(pending)
           new == Cat(StartTags(pending), Encode(l))
<1>4. WriterKind(f) = Kind(f) /\ Kind(f) # "message" /\ ~Omitted(Kind(f), v)
  BY <1>2, KindsAgree DEF WriterKind, StreamTypes, Kind, MarshalLeaf
<1>5. IsToken(l) /\ l.op = "leaf" /\ l.field = f /\ l.value = v /\ v \in Nat
      /\ IsWritten(Kind(f), v) /\ ~Default(v)
  BY <1>4, NotOmitted, ValuesAssumption DEF IsToken, LeafOf
<1>6. leaf \in Leaf /\ leaf = [path |-> Cat(opened, pending), field |-> l.field, value |-> l.value]
  BY <1>2, <1>5 DEF Leaf
<1>7. /\ opened' = Cat(opened, pending) /\ pending' = <<>> /\ status = "writing"
      /\ saying' = Append(saying, leaf) /\ said' = said
      /\ wire' = wire \o StartTags(pending) \o <<Tag(f, WireType[Kind(f)])>> \o Payload(Kind(f), v)
      /\ UNCHANGED <<writer, reader, known, readerVars>>
  BY <1>2, <1>4, <1>5 DEF MarshalLeaf, WriteField, Writing, Cat
<1>8. /\ saying' \in Seq(Leaf) /\ Len(saying') = Len(saying) + 1 /\ Len(saying) \in Nat
      /\ saying'[Len(saying) + 1] = leaf
      /\ \A i \in 1..Len(saying) : saying'[i] = saying[i]
  BY <1>2, <1>6, <1>7, AppendProperties, LenProperties
<1>9. leaf \in Written' /\ \A w \in Written : w \in Written'
  <2>1. \A i \in 1..Len(saying) : i \in 1..Len(saying')
    BY <1>8
  <2>2. Len(saying) + 1 \in 1..Len(saying')
    BY <1>8
  <2>3. leaf \in Written'
    BY <1>8, <2>2, WrittenNext
  <2>4. ASSUME NEW w \in Written PROVE w \in Written'
    <3>1. CASE \E i \in 1..Len(saying) : w = saying[i]
      BY <1>8, <2>1, <3>1, WrittenNext
    <3>2. CASE \E m \in 1..Len(said) : \E i \in 1..Len(said[m]) : w = said[m][i]
      BY <1>7, <3>2, WrittenNext
    <3>3. QED
      BY <2>4, <3>1, <3>2, WrittenIs
  <2>5. QED
    BY <2>3, <2>4
<1>10. IsPrefixOf(said, said') /\ said' \in Seq(Seq(Leaf))
  BY <1>2, <1>7, PrefixReflexive
<1>11. wire' = Cat(wire, new)
  <2> DEFINE a == StartTags(pending)
             b == <<Tag(f, WireType[Kind(f)])>>
             c == Payload(Kind(f), v)
  <2>1. Encode(l) = b \o c
    BY <1>5 DEF Encode, TokenType, Body
  <2>2. a \in Seq(Cell)
    <3>1. \A j \in 1..n : Tag(pending[j], "Start") \in Cell
      BY <1>2, ElementOfSeq, StartEncoding DEF PendingAreMessages, AreMessages
    <3>2. n \in Nat /\ a \in [1..n -> Cell]
      BY <1>2, <3>1, LenProperties DEF StartTags
    <3> HIDE DEF a, n
    <3>3. QED
      BY <3>2
  <2>3. b \in Seq(Cell)
    <3>1. TokenType(l) = WireType[Kind(f)]
      BY <1>5 DEF TokenType
    <3>2. Tag(l.field, TokenType(l)) \in Cell
      BY <1>5, TokenFacts
    <3>3. QED
      BY <1>5, <3>1, <3>2
  <2>4. c \in Seq(Cell)
    BY <1>5, PayloadFacts
  <2>5. wire' = Cat(Cat(Cat(wire, a), b), c)
    BY <1>7 DEF Cat
  <2>6. Encode(l) = Cat(b, c)
    BY <2>1 DEF Cat
  <2> HIDE DEF a, b, c
  <2>7. Cat(b, c) \in Seq(Cell) /\ Cat(wire, a) \in Seq(Cell)
    BY <1>2, <2>2, <2>3, <2>4, CatFacts
  <2>8. Cat(Cat(Cat(wire, a), b), c) = Cat(Cat(wire, a), Cat(b, c))
    BY <2>3, <2>4, <2>7, CatAssociative
  <2>9. Cat(Cat(wire, a), Cat(b, c)) = Cat(wire, Cat(a, Cat(b, c)))
    BY <1>2, <2>2, <2>7, CatAssociative
  <2>10. QED
    BY <2>5, <2>6, <2>8, <2>9 DEF a
<1> DEFINE done == [open |-> Cat(opened, pending), leaves |-> Append(saying, leaf), msgs |-> said]
<1>12. PICK tok2, rest2, cfg2 :
         /\ Appends(lo, hi, n + 1, new, tok, rest, cfg, tok2, rest2, cfg2)
         /\ EndsIn(hi + 1, hi + (n + 1), l, tok2, cfg2, done)
  <2> HIDE DEF l, leaf
  <2>1. Deferring(cfg[hi], opened, pending, saying, said)
    BY <1>2, <1>3 DEF Deferring, PendingAreMessages
  <2>2. QED
    BY <1>3, <1>5, <1>6, <2>1, FieldAppends
<1>13. ASSUME NEW i \in hi + 1..hi + (n + 1)
       PROVE  ConfigBacked(cfg2[i])' /\ LeafBacked(tok2[i])'
  <2>1. ConfigBacked(cfg2[i])'
    <3>1. cfg2[i].msgs = said' /\ IsPrefixOf(said', said')
      BY <1>7, <1>10, <1>12, PrefixReflexive DEF EndsIn
    <3>2. Len(cfg2[i].open) <= Len(leaf.path)
      BY <1>12 DEF EndsIn
    <3> HIDE DEF leaf
    <3>3. QED
      BY <1>9, <3>1, <3>2 DEF ConfigBacked
  <2>2. LeafBacked(tok2[i])'
    <3>1. tok2[i] = l \/ tok2[i].op # "leaf"
      BY <1>12 DEF EndsIn
    <3>2. leaf.field = l.field /\ leaf.value = l.value
      BY <1>5
    <3> HIDE DEF leaf, l
    <3>3. QED
      BY <1>9, <3>1, <3>2 DEF LeafBacked
  <2>3. QED
    BY <2>1, <2>2
<1>14. PendingAreMessages'
  <2>1. Len(pending') = 0
    BY <1>7, EmptySeq
  <2>2. QED
    BY <2>1 DEF PendingAreMessages, AreMessages
<1>15. cfg2[hi + (n + 1)] = [open |-> opened', leaves |-> saying', msgs |-> said']
  BY <1>7, <1>12 DEF EndsIn
<1> HIDE DEF new, n, leaf, l, done
<1>16. QED
  BY <1>1, <1>2, <1>7, <1>8, <1>9, <1>10, <1>11, <1>12, <1>13, <1>14, <1>15, Extended

\* marshal_field of a leaf, written or omitted (encoding_impl.cc).
LEMMA LeafStreamInv ==
  ASSUME LowFields, StreamInv, TagInv', NEW f \in Fields, NEW v \in Values[f], MarshalLeaf(f, v)
  PROVE  StreamInv'
<1>1. CASE ~Omitted(WriterKind(f), v)
  BY <1>1, FieldWritten
<1>2. CASE Omitted(WriterKind(f), v)
  <2>1. UNCHANGED <<writer, wire, opened, pending, said, reader, known, readerVars>>
        /\ status = "writing"
    BY <1>2 DEF MarshalLeaf, Writing
  <2>2. Default(v)
    BY <1>2 DEF Omitted, Default
  <2>3. saying' = saying
    BY <2>2 DEF MarshalLeaf
  <2>4. PendingAreMessages'
    BY <2>1 DEF StreamInv, PendingAreMessages
  <2>5. QED
    BY <2>1, <2>3, <2>4, WritesNothing
<1>3. QED
  BY <1>1, <1>2

\* Entering a message writes nothing: its Start is deferred (encoding.cc:77-86).
LEMMA EnterStreamInv ==
  ASSUME LowFields, StreamInv, TagInv', NEW f \in Fields, EnterMessage(f)
  PROVE  StreamInv'
<1>1. /\ UNCHANGED <<writer, wire, opened, saying, said, reader, known, readerVars>>
      /\ status = "writing" /\ WriterKind(f) = "message"
      /\ pending' = pending \/ pending' = Append(pending, f)
  BY DEF EnterMessage, Writing
<1>2. Kind(f) = "message"
  BY <1>1, KindsAgree DEF StreamInv, StreamTypes, WriterKind, Kind
<1>3. pending \in Seq(Fields) /\ PendingAreMessages
  BY DEF StreamInv, TagInv, TypeOK
<1>4. CASE pending' = pending
  <2>1. PendingAreMessages'
    BY <1>3, <1>4 DEF PendingAreMessages
  <2>2. QED
    BY <1>1, <2>1, WritesNothing
<1>5. CASE pending' = Append(pending, f)
  <2>1. /\ Len(pending') = Len(pending) + 1 /\ Len(pending) \in Nat
        /\ \A i \in 1..Len(pending) : pending'[i] = pending[i]
        /\ pending'[Len(pending) + 1] = f
    BY <1>3, <1>5, AppendProperties, LenProperties
  <2>2. ASSUME NEW i \in 1..Len(pending') PROVE Kind(pending'[i]) = "message"
    <3>1. i \in 1..Len(pending) \/ i = Len(pending) + 1
      BY <2>1
    <3>2. QED
      BY <1>2, <1>3, <2>1, <3>1 DEF PendingAreMessages, AreMessages
  <2>3. PendingAreMessages'
    BY <2>2 DEF PendingAreMessages, AreMessages
  <2>4. QED
    BY <1>1, <2>3, WritesNothing
<1>6. QED
  BY <1>1, <1>4, <1>5

\* Leaving it writes the End of its Start, when that went out (encoding.cc:87-92).
LEMMA LeaveStreamInv ==
  ASSUME LowFields, StreamInv, TagInv', LeaveMessage
  PROVE  StreamInv'
<1>1. /\ UNCHANGED <<writer, saying, said, reader, known, readerVars>>
      /\ status = "writing" /\ path # <<>>
  BY DEF LeaveMessage, Writing
<1>2. /\ pending \in Seq(Fields) /\ opened \in Seq(Fields) /\ path = opened \o pending
      /\ PendingAreMessages
  BY DEF StreamInv, TagInv, TypeOK, OpenTagsMatchPath
<1>3. CASE pending = <<>>
  <2>1. wire' = Append(wire, Tag(0, "End")) /\ opened' = Front(opened) /\ pending' = pending
    BY <1>3 DEF LeaveMessage
  <2>2. opened # <<>>
    BY <1>1, <1>2, <1>3, ConcatEmptySeq
  <2>3. PendingAreMessages'
    BY <1>2, <2>1 DEF PendingAreMessages
  <2>4. QED
    BY <1>1, <2>1, <2>2, <2>3, EndWritten
<1>4. CASE pending # <<>>
  <2>1. pending' = Front(pending) /\ UNCHANGED <<wire, opened>>
    BY <1>4 DEF LeaveMessage
  <2>2. /\ Len(pending') = Len(pending) - 1 /\ Len(pending) \in Nat
        /\ \A i \in 1..Len(pending') : pending'[i] = pending[i]
    BY <1>2, <1>4, <2>1, FrontProperties
  <2>3. ASSUME NEW i \in 1..Len(pending') PROVE Kind(pending'[i]) = "message"
    <3>1. i \in 1..Len(pending)
      BY <2>2
    <3>2. QED
      BY <1>2, <2>2, <3>1 DEF PendingAreMessages, AreMessages
  <2>4. PendingAreMessages'
    BY <2>3 DEF PendingAreMessages, AreMessages
  <2>5. QED
    BY <1>1, <2>1, <2>4, WritesNothing
<1>5. QED
  BY <1>3, <1>4

\* The End of the body closes the message (encoding.cc:123-131).
LEMMA FinishStreamInv ==
  ASSUME LowFields, StreamInv, TagInv', FinishMessage
  PROVE  StreamInv'
<1>1. /\ UNCHANGED <<writer, opened, reader, known, readerVars>>
      /\ status = "writing" /\ path = <<>> /\ pending' = <<>>
      /\ wire' = Append(wire, Tag(0, "End"))
      /\ said' = Append(said, saying) /\ saying' = <<>>
  BY DEF FinishMessage, Writing
<1>2. pending \in Seq(Fields) /\ opened \in Seq(Fields) /\ path = opened \o pending
  BY DEF StreamInv, TagInv, TypeOK, OpenTagsMatchPath
<1>3. opened = <<>>
  <2>1. opened \o pending = <<>>
    BY <1>1, <1>2
  <2>2. Len(opened \o pending) = Len(opened) + Len(pending)
        /\ Len(opened) \in Nat /\ Len(pending) \in Nat
    BY <1>2, ConcatProperties, LenProperties
  <2>3. Len(opened) = 0
    BY <2>1, <2>2, EmptySeq
  <2>4. QED
    BY <1>2, <2>3, EmptySeq
<1>4. PendingAreMessages'
  <2>1. Len(pending') = 0
    BY <1>1, EmptySeq
  <2>2. QED
    BY <2>1 DEF PendingAreMessages, AreMessages
<1>5. QED
  BY <1>1, <1>3, <1>4, EndWritten

\* A connection that fails leaves a front of the stream.
LEMMA LostStreamInv ==
  ASSUME LowFields, StreamInv, TagInv', ConnectionLost
  PROVE  StreamInv'
<1>1. PICK lo, hi, tok, rest, cfg :
        Pipe(lo, hi, tok, rest, cfg) /\ Backed(lo, hi, tok, cfg) /\ Follows(cfg[lo])
  BY DEF StreamInv
<1>2. /\ UNCHANGED <<writer, path, pending, opened, saying, said, reader, known, readerVars>>
      /\ status = "writing" /\ status' = "failed"
  BY DEF ConnectionLost
<1>3. PICK kept \in 0..Len(wire) : wire' = SubSeq(wire, 1, kept)
  BY DEF ConnectionLost
<1>4. wire \in Seq(Cell) /\ Len(wire) \in Nat
  BY LenProperties DEF StreamInv, StreamTypes
<1>5. wire = rest[lo]
  BY <1>1, <1>2, <1>4, CatEmpty DEF Pipe
<1> DEFINE lost == SubSeq(wire, kept + 1, Len(wire))
<1>6. wire' \in Seq(Cell) /\ lost \in Seq(Cell) /\ Cat(wire', lost) = wire
  <2>1. \A i \in 1..kept : wire[i] \in Cell
    BY <1>3, <1>4, ElementOfSeq
  <2>2. \A i \in kept + 1..Len(wire) : wire[i] \in Cell
    BY <1>3, <1>4, ElementOfSeq
  <2>3. 1 \in Int /\ kept \in Int /\ kept + 1 \in Int /\ Len(wire) \in Int
    BY <1>3, <1>4
  <2>4. SubSeq(wire, 1, kept) \in Seq(Cell)
    BY <2>1, <2>3, SubSeqProperties
  <2>5. lost \in Seq(Cell)
    BY <2>2, <2>3, SubSeqProperties
  <2>6. 1 \in 1..Len(wire) + 1 /\ kept \in 1 - 1..Len(wire) /\ Len(wire) \in kept..Len(wire)
    BY <1>3, <1>4
  <2>7. SubSeq(wire, 1, kept) \o SubSeq(wire, kept + 1, Len(wire)) = SubSeq(wire, 1, Len(wire))
    BY <1>4, <2>6, ConcatAdjacentSubSeq
  <2>8. QED
    BY <1>3, <1>4, <2>4, <2>5, <2>7, SubSeqFull DEF Cat
<1> HIDE DEF lost
<1>7. Pipe(lo, hi, tok, rest, cfg)'
  BY <1>1, <1>2, <1>5, <1>6 DEF Pipe
<1>8. Written' = Written
  BY <1>2, WrittenSame
<1>9. Backed(lo, hi, tok, cfg)' /\ Follows(cfg[lo])'
  BY <1>1, <1>2, <1>8 DEF Backed, ConfigBacked, LeafBacked, Follows, readerVars
<1>10. StreamTypes' /\ PendingAreMessages'
  BY <1>2, <1>6 DEF StreamInv, StreamTypes, PendingAreMessages, readerVars
<1>11. ErrorsHaveCause'
  <2>1. rerr' = rerr /\ \A f : WriterKind(f)' = WriterKind(f)
    BY <1>2 DEF readerVars, WriterKind
  <2>2. QED
    BY <1>2, <1>8, <2>1 DEF StreamInv, ErrorsHaveCause
<1>12. QED
  BY <1>7, <1>9, <1>10, <1>11 DEF StreamInv

-----------------------------------------------------------------------------
(***************************************************************************)
(* The steps of the reader.                                                *)
(***************************************************************************)

\* The reader stops, for one of the three reasons the writer gave.
LEMMA StopStreamInv ==
  ASSUME StreamInv, TagInv', NEW why, Stop(why), UNCHANGED <<writer, writerVars, reader, known>>,
         why \in {"end of file", "excessive nesting", "data too big"},
         why = "end of file" => status # "writing",
         why = "excessive nesting" => \E w \in Written : Len(w.path) > MaxNesting,
         why = "data too big" =>
           \E w \in Written : WriterKind(w.field) = "str" /\ w.value > Capacity
  PROVE  StreamInv'
<1>1. /\ rerr' = why
      /\ UNCHANGED <<writer, status, path, pending, opened, saying, said, wire, reader, known,
                     frames, hearing, heard>>
  BY DEF Stop, writerVars
<1>2. Written' = Written
  BY <1>1, WrittenSame
<1>3. PICK lo, hi, tok, rest, cfg :
        Pipe(lo, hi, tok, rest, cfg) /\ Backed(lo, hi, tok, cfg) /\ Follows(cfg[lo])
  BY DEF StreamInv
<1>4. Pipe(lo, hi, tok, rest, cfg)' /\ Backed(lo, hi, tok, cfg)' /\ Follows(cfg[lo])'
  BY <1>1, <1>2, <1>3 DEF Pipe, Backed, ConfigBacked, LeafBacked, Follows
<1>5. StreamTypes' /\ PendingAreMessages'
  BY <1>1 DEF StreamInv, StreamTypes, PendingAreMessages
<1>6. ErrorsHaveCause'
  <2>1. \A f : WriterKind(f)' = WriterKind(f)
    BY <1>1 DEF WriterKind
  <2>2. status' = status
    BY <1>1
  <2>3. QED
    BY <1>1, <1>2, <2>1, <2>2 DEF ErrorsHaveCause
<1>7. QED
  BY <1>4, <1>5, <1>6 DEF StreamInv

\* The reader takes the next token whole.
LEMMA Advance ==
  ASSUME LowFields, StreamInv, TagInv', UNCHANGED <<writer, writerVars, reader, known, rerr>>,
         NEW lo, NEW hi, NEW tok, NEW rest, NEW cfg, lo < hi,
         Pipe(lo, hi, tok, rest, cfg), Backed(lo, hi, tok, cfg),
         Len(wire) >= Len(Encode(tok[lo + 1])), Take(Len(Encode(tok[lo + 1]))),
         Follows(cfg[lo + 1])',
         hearing' \in Seq(Leaf), heard' \in Seq(Seq(Leaf)),
         frames' \in Seq([skipping : BOOLEAN, field : Nat, nesting : Int])
  PROVE  StreamInv'
<1>1. UNCHANGED <<status, path, pending, opened, saying, said>>
  BY DEF writerVars
<1>2. Written' = Written
  BY <1>1, WrittenSame
<1>3. /\ lo \in Nat /\ hi \in Nat /\ lo + 1 <= hi /\ Chain(lo, hi, tok, rest, cfg)
      /\ cfg[hi] = [open |-> opened, leaves |-> saying, msgs |-> said]
  BY DEF Pipe
<1> DEFINE e == Encode(tok[lo + 1])
           after == rest[lo + 1]
<1>4. /\ Chain(lo + 1, hi, tok, rest, cfg) /\ rest[lo] = Cat(e, after) /\ IsToken(tok[lo + 1])
      /\ after \in Seq(Cell)
  BY <1>3, ChainShorter
<1>5. e \in Seq(Cell) /\ wire \in Seq(Cell)
  BY <1>4, TokenFacts DEF StreamInv, StreamTypes
<1>6. PICK lost \in Seq(Cell) : Cat(wire, lost) = rest[lo] /\ (status = "writing" => lost = <<>>)
  BY DEF Pipe
<1>7. wire' = SubSeq(wire, Len(e) + 1, Len(wire)) /\ Len(e) <= Len(wire)
  <2>1. Len(e) \in Nat /\ Len(wire) \in Nat
    BY <1>5, LenProperties
  <2>2. QED
    BY <2>1 DEF Take
<1> HIDE DEF e, after
<1>8. wire' \in Seq(Cell) /\ Cat(wire', lost) = after
  BY <1>4, <1>5, <1>6, <1>7, PrefixOfConcat
<1>9. lo + 1 \in Nat
  BY <1>3
<1>10. Pipe(lo + 1, hi, tok, rest, cfg)'
  BY <1>1, <1>3, <1>4, <1>6, <1>8, <1>9 DEF Pipe, after
<1>11. Backed(lo + 1, hi, tok, cfg)'
  <2>1. /\ \A i \in lo + 1..hi : i \in lo..hi
        /\ \A i \in lo + 1 + 1..hi : i \in lo + 1..hi
    BY <1>3
  <2>2. QED
    BY <1>1, <1>2, <2>1 DEF Backed, ConfigBacked, LeafBacked
<1>12. StreamTypes' /\ PendingAreMessages'
  BY <1>1, <1>8 DEF StreamInv, StreamTypes, PendingAreMessages
<1>13. ErrorsHaveCause'
  <2>1. rerr' = rerr /\ \A f : WriterKind(f)' = WriterKind(f)
    BY DEF WriterKind
  <2>2. QED
    BY <1>1, <1>2, <2>1 DEF StreamInv, ErrorsHaveCause
<1>14. QED
  BY <1>10, <1>11, <1>12, <1>13 DEF StreamInv

\* The reader starts a message: nothing is open where it stands.
LEMMA BeginStreamInv ==
  ASSUME StreamInv, TagInv', BeginMessage
  PROVE  StreamInv'
<1>1. /\ UNCHANGED <<writer, status, path, pending, opened, saying, said, wire, reader, known,
                     hearing, heard, rerr>>
      /\ frames = <<>> /\ frames' = <<Frame(FALSE, 0, MaxNesting)>>
  BY DEF BeginMessage, writerVars
<1>2. Written' = Written
  BY <1>1, WrittenSame
<1>3. PICK lo, hi, tok, rest, cfg :
        Pipe(lo, hi, tok, rest, cfg) /\ Backed(lo, hi, tok, cfg) /\ Follows(cfg[lo])
  BY DEF StreamInv
<1> DEFINE c == cfg[lo]
<1>4. c.open = <<>> /\ c.leaves = <<>> /\ Len(c.open) = 0
  BY <1>1, <1>3, EmptySeq DEF Follows
<1>5. /\ frames' # <<>> /\ Len(frames') = 1
      /\ frames' \in Seq([skipping : BOOLEAN, field : Nat, nesting : Int])
      /\ frames'[1].skipping = FALSE /\ frames'[1].nesting = MaxNesting
  BY <1>1, LimitsAssumption DEF Frame
<1>6. Follows(c)'
  <2>1. /\ AreSeen(hearing', c.leaves, known')
        /\ Len(heard') = Len(c.msgs)
        /\ \A m \in 1..Len(heard') : AreSeen(heard'[m], c.msgs[m], known')
    BY <1>1, <1>3 DEF Follows
  <2> HIDE DEF c
  <2>2. \A d \in 1..Len(frames') :
          /\ frames'[d].nesting >= MaxNesting - (d - 1)
          /\ frames'[d].skipping <=> \E e \in 1..d - 1 : c.open[e] \notin known'
    <3>1. ASSUME NEW d \in 1..Len(frames')
          PROVE  d = 1 /\ 1..d - 1 = {}
      BY <1>5
    <3>2. MaxNesting >= MaxNesting - 0
      BY LimitsAssumption
    <3>3. QED
      BY <1>5, <3>1, <3>2
  <2>3. QED
    BY <1>4, <1>5, <2>1, <2>2 DEF Follows
<1>7. Pipe(lo, hi, tok, rest, cfg)' /\ Backed(lo, hi, tok, cfg)'
  BY <1>1, <1>2, <1>3 DEF Pipe, Backed, ConfigBacked, LeafBacked
<1>8. StreamTypes' /\ PendingAreMessages'
  BY <1>1, <1>5 DEF StreamInv, StreamTypes, PendingAreMessages
<1>9. ErrorsHaveCause'
  <2>1. \A f : WriterKind(f)' = WriterKind(f)
    BY <1>1 DEF WriterKind
  <2>2. QED
    BY <1>1, <1>2, <2>1 DEF StreamInv, ErrorsHaveCause
<1>10. QED
  BY <1>6, <1>7, <1>8, <1>9 DEF StreamInv

\* The end of the file is the end of a writer.
LEMMA EOFStreamInv ==
  ASSUME StreamInv, TagInv', ReadEOF
  PROVE  StreamInv'
  BY StopStreamInv DEF ReadEOF

\* A call of the reader.
FrameSet == [skipping : BOOLEAN, field : Nat, nesting : Int]

\* The reader's calls are those of the open messages, so its path is theirs, and
\* it has lost at most one level of nesting for each.
LEMMA InnermostFrame ==
  ASSUME StreamTypes, NEW c \in Config, Follows(c), frames # <<>>
  PROVE  /\ Len(frames) = Len(c.open) + 1 /\ Len(c.open) \in Nat /\ c.open \in Seq(Fields)
         /\ Last(frames) \in FrameSet
         /\ Last(frames).nesting >= MaxNesting - Len(c.open)
         /\ Last(frames).skipping <=> \E e \in 1..Len(c.open) : c.open[e] \notin known
         /\ ReadPath = c.open
<1>1. /\ c.open \in Seq(Fields) /\ Len(c.open) \in Nat /\ Len(frames) = Len(c.open) + 1
      /\ c.open \in [1..Len(c.open) -> Fields]
  BY LenProperties DEF Config, Follows
<1>2. Len(frames) \in 1..Len(frames) /\ frames \in Seq(FrameSet)
  BY <1>1 DEF StreamTypes, FrameSet
<1>3. Last(frames) = frames[Len(frames)] /\ Last(frames) \in FrameSet
  BY <1>2, ElementOfSeq DEF Last
<1>4. Len(frames) - 1 = Len(c.open)
  BY <1>1
<1>5. /\ Last(frames).nesting >= MaxNesting - (Len(frames) - 1)
      /\ Last(frames).skipping <=> \E e \in 1..Len(frames) - 1 : c.open[e] \notin known
  BY <1>2, <1>3 DEF Follows
<1>6. ReadPath = c.open
  <2>1. ReadPath = [i \in 1..Len(c.open) |-> frames[i + 1].field]
    BY <1>4 DEF ReadPath
  <2>2. \A i \in 1..Len(c.open) : frames[i + 1].field = c.open[i]
    BY DEF Follows
  <2>3. c.open = [i \in 1..Len(c.open) |-> c.open[i]]
    BY <1>1
  <2>4. QED
    BY <2>1, <2>2, <2>3
<1>7. QED
  BY <1>1, <1>3, <1>4, <1>5, <1>6

\* An End returns from the innermost call, or ends the message.
LEMMA EndFollowed ==
  ASSUME StreamTypes, NEW c \in Config, Follows(c), frames # <<>>,
         UNCHANGED known, frames' = Front(frames),
         IF Len(frames) = 1 THEN heard' = Append(heard, hearing) /\ hearing' = <<>>
                            ELSE UNCHANGED <<heard, hearing>>
  PROVE  /\ Follows(After(c, EndToken))'
         /\ frames' \in Seq(FrameSet) /\ hearing' \in Seq(Leaf) /\ heard' \in Seq(Seq(Leaf))
<1>1. /\ Len(frames) = Len(c.open) + 1 /\ Len(c.open) \in Nat /\ c.open \in Seq(Fields)
      /\ frames \in Seq(FrameSet) /\ hearing \in Seq(Leaf) /\ heard \in Seq(Seq(Leaf))
      /\ c.msgs \in Seq(Seq(Leaf)) /\ c.leaves \in Seq(Leaf)
  BY InnermostFrame DEF StreamTypes, FrameSet, Config
<1>2. /\ frames' \in Seq(FrameSet) /\ Len(frames') = Len(frames) - 1
      /\ \A i \in 1..Len(frames') : frames'[i] = frames[i]
  BY <1>1, FrontProperties
<1>3. CASE c.open = <<>>
  <2>1. Len(frames) = 1 /\ Len(frames') = 0 /\ frames' = <<>>
    BY <1>1, <1>2, <1>3, EmptySeq
  <2>2. heard' = Append(heard, hearing) /\ hearing' = <<>>
    BY <2>1
  <2>3. After(c, EndToken) = [open |-> <<>>, leaves |-> <<>>, msgs |-> Append(c.msgs, c.leaves)]
    BY <1>3 DEF After, EndToken
  <2> DEFINE msgs == Append(c.msgs, c.leaves)
  <2>4. /\ Len(msgs) = Len(c.msgs) + 1 /\ msgs[Len(c.msgs) + 1] = c.leaves
        /\ \A i \in 1..Len(c.msgs) : msgs[i] = c.msgs[i]
        /\ Len(c.msgs) \in Nat
    BY <1>1, AppendProperties, LenProperties
  <2>5. /\ heard' \in Seq(Seq(Leaf)) /\ Len(heard') = Len(heard) + 1
        /\ heard'[Len(heard) + 1] = hearing
        /\ \A i \in 1..Len(heard) : heard'[i] = heard[i]
    BY <1>1, <2>2, AppendProperties
  <2>6. Len(heard) = Len(c.msgs) /\ AreSeen(hearing, c.leaves, known)
        /\ \A m \in 1..Len(heard) : AreSeen(heard[m], c.msgs[m], known)
    BY DEF Follows
  <2> HIDE DEF msgs
  <2>7. ASSUME NEW m \in 1..Len(heard') PROVE AreSeen(heard'[m], msgs[m], known')
    <3>1. m \in 1..Len(heard) \/ m = Len(heard) + 1
      BY <2>4, <2>5, <2>6
    <3>2. CASE m \in 1..Len(heard)
      <4>1. heard'[m] = heard[m] /\ msgs[m] = c.msgs[m]
        BY <2>4, <2>5, <2>6, <3>2
      <4>2. QED
        BY <2>6, <3>2, <4>1
    <3>3. CASE m = Len(heard) + 1
      <4>1. heard'[m] = hearing /\ msgs[m] = c.leaves
        BY <2>4, <2>5, <2>6, <3>3
      <4>2. QED
        BY <2>6, <4>1
    <3>4. QED
      BY <3>1, <3>2, <3>3
  <2>8. AreSeen(hearing', <<>>, known')
    BY <2>2, SeenNothing
  <2> DEFINE d == [open |-> <<>>, leaves |-> <<>>, msgs |-> msgs]
  <2>9. d.open = <<>> /\ d.leaves = <<>> /\ d.msgs = msgs /\ Len(<<>>) = 0
    BY EmptySeq
  <2> HIDE DEF d
  <2>10. Len(heard') = Len(d.msgs) /\ Len(d.open) = 0
    BY <2>4, <2>5, <2>6, <2>9
  <2>11. Follows(d)'
    <3>1. \A i \in 1..Len(frames') : FALSE
      BY <2>1
    <3>2. \A i \in 1..Len(d.open) : FALSE
      BY <2>10
    <3>3. QED
      BY <2>1, <2>7, <2>8, <2>9, <2>10, <3>1, <3>2 DEF Follows
  <2>12. QED
    BY <1>1, <1>2, <2>2, <2>3, <2>5, <2>11, EmptySeq DEF d, msgs, Follows
<1>4. CASE c.open # <<>>
  <2> DEFINE outer == Front(c.open)
             d == [open |-> outer, leaves |-> c.leaves, msgs |-> c.msgs]
  <2>1. /\ Len(outer) = Len(c.open) - 1 /\ Len(c.open) \in Nat \ {0}
        /\ \A i \in 1..Len(outer) : outer[i] = c.open[i]
    BY <1>1, <1>4, FrontProperties
  <2>2. After(c, EndToken) = d
    BY <1>4 DEF After, EndToken
  <2>3. Len(frames) # 1 /\ frames' # <<>> /\ Len(frames') = Len(outer) + 1
    <3>1. Len(frames') # 0
      BY <1>1, <1>2, <2>1
    <3>2. QED
      BY <1>1, <1>2, <2>1, <3>1, EmptySeq
  <2>4. UNCHANGED <<heard, hearing>>
    BY <2>3
  <2>5. d.open = outer /\ d.leaves = c.leaves /\ d.msgs = c.msgs
    OBVIOUS
  <2> HIDE DEF outer, d
  <2>6. ASSUME NEW i \in 1..Len(outer) PROVE frames'[i + 1].field = outer[i]
    <3>1. i \in 1..Len(c.open) /\ i + 1 \in 1..Len(frames')
      BY <2>1, <2>3
    <3>2. QED
      BY <1>2, <2>1, <3>1 DEF Follows
  <2>7. ASSUME NEW i \in 1..Len(frames')
        PROVE  /\ frames'[i].nesting >= MaxNesting - (i - 1)
               /\ frames'[i].skipping <=> \E e \in 1..i - 1 : outer[e] \notin known'
    <3>1. i \in 1..Len(frames) /\ frames'[i] = frames[i]
      BY <1>1, <1>2
    <3>2. \A e \in 1..i - 1 : e \in 1..Len(outer)
      BY <2>1, <2>3
    <3>3. \A e \in 1..i - 1 : outer[e] = c.open[e]
      BY <2>1, <3>2
    <3>4. /\ frames[i].nesting >= MaxNesting - (i - 1)
          /\ frames[i].skipping <=> \E e \in 1..i - 1 : c.open[e] \notin known
      BY <3>1 DEF Follows
    <3>5. QED
      BY <3>1, <3>3, <3>4
  <2>8. /\ AreSeen(hearing', d.leaves, known') /\ Len(heard') = Len(d.msgs)
        /\ \A m \in 1..Len(heard') : AreSeen(heard'[m], d.msgs[m], known')
    BY <2>4, <2>5 DEF Follows
  <2>9. Follows(d)'
    BY <2>3, <2>5, <2>6, <2>7, <2>8 DEF Follows
  <2>10. QED
    BY <1>1, <1>2, <2>2, <2>4, <2>9
<1>5. QED
  BY <1>3, <1>4

\* A Start makes one call more, with at most one level of nesting less.
LEMMA DescentFollowed ==
  ASSUME StreamTypes, NEW c \in Config, Follows(c), frames # <<>>,
         NEW f \in Fields, NEW skipping \in BOOLEAN, NEW nesting \in Int,
         skipping <=> Last(frames).skipping \/ f \notin known,
         nesting >= MaxNesting - Len(frames),
         frames' = Append(frames, Frame(skipping, f, nesting)),
         UNCHANGED <<known, hearing, heard>>
  PROVE  /\ Follows([open |-> Append(c.open, f), leaves |-> c.leaves, msgs |-> c.msgs])'
         /\ frames' \in Seq(FrameSet) /\ hearing' \in Seq(Leaf) /\ heard' \in Seq(Seq(Leaf))
<1>1. /\ Len(frames) = Len(c.open) + 1 /\ Len(c.open) \in Nat /\ c.open \in Seq(Fields)
      /\ frames \in Seq(FrameSet) /\ hearing \in Seq(Leaf) /\ heard \in Seq(Seq(Leaf))
      /\ Last(frames).skipping <=> \E e \in 1..Len(c.open) : c.open[e] \notin known
  BY InnermostFrame DEF StreamTypes, FrameSet
<1> DEFINE new == Frame(skipping, f, nesting)
           deeper == Append(c.open, f)
           d == [open |-> deeper, leaves |-> c.leaves, msgs |-> c.msgs]
<1>2. new \in FrameSet /\ new.field = f /\ new.nesting = nesting /\ (new.skipping <=> skipping)
  BY FieldsAssumption DEF Frame, FrameSet
<1> HIDE DEF new
<1>3. /\ frames' \in Seq(FrameSet) /\ Len(frames') = Len(frames) + 1 /\ frames' # <<>>
      /\ \A i \in 1..Len(frames) : frames'[i] = frames[i]
      /\ frames'[Len(frames) + 1] = new
  <2>1. frames' = Append(frames, new)
    BY DEF new
  <2>2. /\ Append(frames, new) \in Seq(FrameSet) /\ Append(frames, new) # <<>>
        /\ Len(Append(frames, new)) = Len(frames) + 1
        /\ \A i \in 1..Len(frames) : Append(frames, new)[i] = frames[i]
        /\ Append(frames, new)[Len(frames) + 1] = new
    BY <1>1, <1>2, AppendProperties
  <2>3. QED
    BY <2>1, <2>2
<1>4. /\ Len(deeper) = Len(c.open) + 1 /\ deeper[Len(c.open) + 1] = f
      /\ \A i \in 1..Len(c.open) : deeper[i] = c.open[i]
  BY <1>1, AppendProperties
<1>5. d.open = deeper /\ d.leaves = c.leaves /\ d.msgs = c.msgs
  OBVIOUS
<1>6. Len(frames) \in Nat
  BY <1>1
<1> HIDE DEF deeper, d
<1>7. ASSUME NEW i \in 1..Len(deeper) PROVE frames'[i + 1].field = deeper[i]
  <2>1. CASE i \in 1..Len(c.open)
    <3>1. i + 1 \in 1..Len(frames)
      BY <1>1, <2>1
    <3>2. QED
      BY <1>3, <1>4, <2>1, <3>1 DEF Follows
  <2>2. CASE i = Len(c.open) + 1
    BY <1>1, <1>2, <1>3, <1>4, <2>2
  <2>3. i \in 1..Len(c.open) \/ i = Len(c.open) + 1
    BY <1>1, <1>4
  <2>4. QED
    BY <2>1, <2>2, <2>3
<1>8. ASSUME NEW i \in 1..Len(frames')
      PROVE  /\ frames'[i].nesting >= MaxNesting - (i - 1)
             /\ frames'[i].skipping <=> \E e \in 1..i - 1 : deeper[e] \notin known'
  <2>1. CASE i \in 1..Len(frames)
    <3>1. \A e \in 1..i - 1 : e \in 1..Len(c.open)
      BY <1>1, <2>1
    <3>2. \A e \in 1..i - 1 : deeper[e] = c.open[e]
      BY <1>4, <3>1
    <3>3. /\ frames[i].nesting >= MaxNesting - (i - 1)
          /\ frames[i].skipping <=> \E e \in 1..i - 1 : c.open[e] \notin known
      BY <2>1 DEF Follows
    <3>4. QED
      BY <1>3, <2>1, <3>2, <3>3
  <2>2. CASE i = Len(frames) + 1
    <3>1. frames'[i] = new /\ i - 1 = Len(frames) /\ i - 1 = Len(c.open) + 1
      BY <1>1, <1>3, <1>6, <2>2
    <3>2. (\E e \in 1..i - 1 : deeper[e] \notin known') <=> Last(frames).skipping \/ f \notin known
      <4>1. \A e : e \in 1..i - 1 <=> e \in 1..Len(c.open) \/ e = Len(c.open) + 1
        BY <1>1, <3>1
      <4>2. (\E e \in 1..i - 1 : deeper[e] \notin known') <=>
              \/ \E e \in 1..Len(c.open) : deeper[e] \notin known
              \/ deeper[Len(c.open) + 1] \notin known
        BY <4>1
      <4>3. (\E e \in 1..Len(c.open) : deeper[e] \notin known) <=>
              \E e \in 1..Len(c.open) : c.open[e] \notin known
        BY <1>4
      <4>4. QED
        BY <1>1, <1>4, <4>2, <4>3
    <3>3. frames'[i].nesting >= MaxNesting - (i - 1)
      BY <1>2, <3>1
    <3>4. frames'[i].skipping <=> skipping
      BY <1>2, <3>1
    <3>5. QED
      BY <3>2, <3>3, <3>4
  <2>3. i \in 1..Len(frames) \/ i = Len(frames) + 1
    BY <1>3, <1>6
  <2>4. QED
    BY <2>1, <2>2, <2>3
<1>9. /\ AreSeen(hearing', d.leaves, known') /\ Len(heard') = Len(d.msgs)
      /\ \A m \in 1..Len(heard') : AreSeen(heard'[m], d.msgs[m], known')
  BY <1>5 DEF Follows
<1>10. Len(frames') = Len(deeper) + 1
  BY <1>1, <1>3, <1>4
<1>11. Follows(d)'
  BY <1>3, <1>5, <1>7, <1>8, <1>9, <1>10 DEF Follows
<1>12. QED
  BY <1>1, <1>3, <1>11 DEF d, deeper

\* A leaf is heard when its field and the messages around it are known.
LEMMA LeafFollowed ==
  ASSUME StreamTypes, NEW c \in Config, Follows(c), frames # <<>>,
         NEW leaf \in Leaf, leaf.path = c.open,
         hearing' = IF ~Last(frames).skipping /\ leaf.field \in known
                    THEN Append(hearing, leaf) ELSE hearing,
         UNCHANGED <<known, frames, heard>>
  PROVE  /\ Follows([open |-> c.open, leaves |-> Append(c.leaves, leaf), msgs |-> c.msgs])'
         /\ frames' \in Seq(FrameSet) /\ hearing' \in Seq(Leaf) /\ heard' \in Seq(Seq(Leaf))
<1>1. /\ frames \in Seq(FrameSet) /\ hearing \in Seq(Leaf) /\ heard \in Seq(Seq(Leaf))
      /\ c.leaves \in Seq(Leaf) /\ DOMAIN c.open = 1..Len(c.open)
      /\ Last(frames).skipping <=> \E e \in 1..Len(c.open) : c.open[e] \notin known
  BY InnermostFrame, LenProperties DEF StreamTypes, FrameSet, Config
<1>2. IsVisible(leaf, known) <=> ~Last(frames).skipping /\ leaf.field \in known
  BY <1>1 DEF IsVisible
<1>3. hearing' = IF IsVisible(leaf, known) THEN Append(hearing, leaf) ELSE hearing
  BY <1>2
<1>4. AreSeen(hearing, c.leaves, known)
  BY DEF Follows
<1>5. AreSeen(hearing', Append(c.leaves, leaf), known')
  BY <1>1, <1>3, <1>4, SeenOneMore
<1>6. hearing' \in Seq(Leaf)
  BY <1>1, <1>3, AppendProperties
<1> DEFINE d == [open |-> c.open, leaves |-> Append(c.leaves, leaf), msgs |-> c.msgs]
<1>7. d.open = c.open /\ d.leaves = Append(c.leaves, leaf) /\ d.msgs = c.msgs
  OBVIOUS
<1> HIDE DEF d
<1>8. Follows(d)'
  BY <1>5, <1>7 DEF Follows
<1>9. QED
  BY <1>1, <1>6, <1>8 DEF d

\* The reader goes into a message it unmarshals or skips.
LEMMA DescendStreamInv ==
  ASSUME LowFields, StreamInv, TagInv', UNCHANGED <<writer, writerVars, reader, known>>,
         frames # <<>>,
         NEW lo, NEW hi, NEW tok, NEW rest, NEW cfg, lo < hi,
         Pipe(lo, hi, tok, rest, cfg), Backed(lo, hi, tok, cfg), Follows(cfg[lo]),
         NEW f \in Fields, tok[lo + 1] = StartOf(f), Len(wire) >= 1,
         NEW skipping \in BOOLEAN, NEW nesting \in Int,
         skipping <=> Last(frames).skipping \/ f \notin known,
         nesting >= Last(frames).nesting - 1,
         Descend(skipping, f, nesting)
  PROVE  StreamInv'
<1>1. /\ lo \in Nat /\ hi \in Nat /\ Chain(lo, hi, tok, rest, cfg)
      /\ StreamTypes /\ cfg[lo] \in Config /\ cfg[lo + 1] = After(cfg[lo], tok[lo + 1])
      /\ IsToken(tok[lo + 1]) /\ cfg[lo + 1] \in Config
  BY ChainShorter DEF Pipe, StreamInv
<1> DEFINE c == cfg[lo]
           d == cfg[lo + 1]
<1>2. d = [open |-> Append(c.open, f), leaves |-> c.leaves, msgs |-> c.msgs]
  <2>1. StartOf(f).op = "start" /\ StartOf(f).field = f
    BY DEF StartOf
  <2>2. QED
    BY <1>1, <2>1 DEF After
<1>3. /\ Len(frames) = Len(c.open) + 1 /\ Len(c.open) \in Nat /\ c.open \in Seq(Fields)
      /\ Last(frames) \in FrameSet /\ Last(frames).nesting >= MaxNesting - Len(c.open)
  BY <1>1, InnermostFrame
<1>4. Last(frames).nesting \in Int /\ MaxNesting \in Nat
  BY <1>3, LimitsAssumption DEF FrameSet
<1>5. nesting >= MaxNesting - Len(frames)
  <2> DEFINE last == Last(frames).nesting
             depth == Len(c.open)
             length == Len(frames)
  <2>1. /\ last \in Int /\ MaxNesting \in Int /\ depth \in Int /\ length = depth + 1
        /\ last >= MaxNesting - depth /\ nesting >= last - 1
    BY <1>3, <1>4
  <2> HIDE DEF last, depth, length
  <2>2. nesting >= MaxNesting - length
    BY <2>1
  <2>3. QED
    BY <2>2 DEF length
<1>6. CASE nesting < 0
  <2>1. Stop("excessive nesting")
    BY <1>6 DEF Descend
  <2>2. Len(d.open) = Len(c.open) + 1 /\ d.open # <<>>
    BY <1>2, <1>3, AppendProperties
  <2>3. lo + 1 \in lo..hi
    BY <1>1
  <2>4. PICK w \in Written : Len(d.open) <= Len(w.path)
    BY <2>2, <2>3 DEF Backed, ConfigBacked
  <2>5. Len(w.path) \in Nat
    <3>1. w \in Leaf
      BY <1>1, WrittenAreLeaves DEF StreamTypes
    <3>2. QED
      BY <3>1, LenProperties DEF Leaf
  <2> HIDE DEF c, d
  <2>6. Len(w.path) > MaxNesting
    BY <1>3, <1>4, <1>5, <1>6, <2>2, <2>4, <2>5
  <2>7. QED
    BY <2>1, <2>6, StopStreamInv
<1>7. CASE ~(nesting < 0)
  <2>1. Take(1) /\ frames' = Append(frames, Frame(skipping, f, nesting))
        /\ UNCHANGED <<known, hearing, heard, rerr>>
    BY <1>7 DEF Descend
  <2>2. /\ Follows([open |-> Append(c.open, f), leaves |-> c.leaves, msgs |-> c.msgs])'
        /\ frames' \in Seq(FrameSet) /\ hearing' \in Seq(Leaf) /\ heard' \in Seq(Seq(Leaf))
    <3> HIDE DEF c, d
    <3>1. c \in Config /\ Follows(c)
      BY <1>1 DEF c
    <3>2. QED
      BY <1>1, <1>5, <2>1, <3>1, DescentFollowed
  <2>3. Len(Encode(tok[lo + 1])) = 1
    <3>1. Kind(f) = "message"
      BY <1>1, TokenFacts DEF StartOf
    <3>2. QED
      BY <3>1, StartEncoding
  <2>4. Follows(d)'
    BY <1>2, <2>2
  <2>5. QED
    BY <2>1, <2>2, <2>3, <2>4, Advance DEF FrameSet
<1>8. QED
  BY <1>6, <1>7

\* The reader takes a leaf, to keep it or to skip it.
LEMMA LeafReadInv ==
  ASSUME LowFields, StreamInv, TagInv', UNCHANGED <<writer, writerVars, reader, known>>,
         frames # <<>>,
         NEW lo, NEW hi, NEW tok, NEW rest, NEW cfg, lo < hi,
         Pipe(lo, hi, tok, rest, cfg), Backed(lo, hi, tok, cfg), Follows(cfg[lo]),
         NEW t, t = tok[lo + 1], t.op = "leaf", Len(wire) >= Len(Encode(t)), Take(Len(Encode(t))),
         UNCHANGED <<frames, heard, rerr>>,
         hearing' = IF ~Last(frames).skipping /\ t.field \in known
                    THEN Append(hearing, [path |-> ReadPath, field |-> t.field, value |-> t.value])
                    ELSE hearing
  PROVE  StreamInv'
<1>1. /\ lo \in Nat /\ hi \in Nat /\ Chain(lo, hi, tok, rest, cfg)
      /\ StreamTypes /\ cfg[lo] \in Config /\ cfg[lo + 1] = After(cfg[lo], t) /\ IsToken(t)
  BY ChainShorter DEF Pipe, StreamInv
<1> DEFINE c == cfg[lo]
           leaf == [path |-> c.open, field |-> t.field, value |-> t.value]
<1>2. ReadPath = c.open /\ c.open \in Seq(Fields)
  BY <1>1, InnermostFrame
<1>3. t.field \in Fields /\ t.value \in Nat
  BY <1>1, TokenFacts DEF IsWritten
<1>4. leaf \in Leaf /\ leaf.path = c.open /\ leaf.field = t.field
  BY <1>2, <1>3 DEF Leaf
<1>5. cfg[lo + 1] = [open |-> c.open, leaves |-> Append(c.leaves, leaf), msgs |-> c.msgs]
  BY <1>1 DEF After
<1>6. hearing' = IF ~Last(frames).skipping /\ leaf.field \in known THEN Append(hearing, leaf)
                 ELSE hearing
  BY <1>2
<1>7. c \in Config /\ Follows(c)
  BY <1>1
<1>8. /\ Follows([open |-> c.open, leaves |-> Append(c.leaves, leaf), msgs |-> c.msgs])'
      /\ frames' \in Seq(FrameSet) /\ hearing' \in Seq(Leaf) /\ heard' \in Seq(Seq(Leaf))
  <2> HIDE DEF c, leaf
  <2>1. QED
    BY <1>1, <1>4, <1>6, <1>7, LeafFollowed
<1>9. Follows(cfg[lo + 1])'
  BY <1>5, <1>8
<1>10. QED
  BY <1>8, <1>9, Advance DEF FrameSet

\* The reader takes an End.
LEMMA EndReadInv ==
  ASSUME LowFields, StreamInv, TagInv', UNCHANGED <<writer, writerVars, reader, known>>,
         frames # <<>>,
         NEW lo, NEW hi, NEW tok, NEW rest, NEW cfg, lo < hi,
         Pipe(lo, hi, tok, rest, cfg), Backed(lo, hi, tok, cfg), Follows(cfg[lo]),
         tok[lo + 1] = EndToken, Len(wire) >= 1, ReadEnd
  PROVE  StreamInv'
<1>1. /\ lo \in Nat /\ hi \in Nat /\ Chain(lo, hi, tok, rest, cfg)
      /\ StreamTypes /\ cfg[lo] \in Config /\ cfg[lo + 1] = After(cfg[lo], EndToken)
      /\ IsToken(EndToken)
  BY ChainShorter DEF Pipe, StreamInv
<1>2. /\ Take(1) /\ frames' = Front(frames) /\ UNCHANGED rerr
      /\ IF Len(frames) = 1 THEN heard' = Append(heard, hearing) /\ hearing' = <<>>
                            ELSE UNCHANGED <<heard, hearing>>
  BY DEF ReadEnd
<1>3. /\ Follows(After(cfg[lo], EndToken))'
      /\ frames' \in Seq(FrameSet) /\ hearing' \in Seq(Leaf) /\ heard' \in Seq(Seq(Leaf))
  <2> DEFINE c == cfg[lo]
  <2>1. c \in Config /\ Follows(c)
    BY <1>1
  <2> HIDE DEF c
  <2>2. /\ Follows(After(c, EndToken))'
        /\ frames' \in Seq(FrameSet) /\ hearing' \in Seq(Leaf) /\ heard' \in Seq(Seq(Leaf))
    BY <1>1, <1>2, <2>1, EndFollowed
  <2>3. QED
    BY <2>2 DEF c
<1>4. Len(Encode(EndToken)) = 1
  <2>1. EndToken.op = "end"
    BY DEF EndToken
  <2>2. Len(Body(EndToken)) = 0
    BY <2>1, EmptySeq DEF Body
  <2>3. Len(Encode(EndToken)) = 1 + Len(Body(EndToken))
    BY <1>1, TokenFacts
  <2>4. QED
    BY <2>2, <2>3
<1>5. Follows(cfg[lo + 1])'
  BY <1>1, <1>3
<1>6. QED
  BY <1>2, <1>3, <1>4, <1>5, Advance DEF FrameSet

\* One round of the reader's loop takes the first token of the chain, whole, or
\* refuses it for what the writer put there.
LEMMA RoundStreamInv ==
  ASSUME LowFields, StreamInv, TagInv', ReadField
  PROVE  StreamInv'
<1>1. PICK lo, hi, tok, rest, cfg :
        Pipe(lo, hi, tok, rest, cfg) /\ Backed(lo, hi, tok, cfg) /\ Follows(cfg[lo])
  BY DEF StreamInv
<1>2. /\ lo \in Nat /\ hi \in Nat /\ lo <= hi /\ Chain(lo, hi, tok, rest, cfg) /\ rest[hi] = <<>>
  BY <1>1 DEF Pipe, Chain
<1>3. /\ StreamTypes /\ wire \in Seq(Cell) /\ reader \in {"generated", "dynamic"}
      /\ known \subseteq Fields /\ frames # <<>> /\ Len(wire) >= Needed
      /\ UNCHANGED <<writer, writerVars, reader, known>> /\ Len(wire) \in Nat
  BY LenProperties DEF StreamInv, StreamTypes, ReadField
<1>4. PICK lost \in Seq(Cell) : Cat(wire, lost) = rest[lo]
  BY <1>1 DEF Pipe
<1>5. lo < hi
  <2>1. CASE wire = <<>>
    <3>1. Needed = 1 /\ Len(wire) = 0
      BY <2>1, EmptySeq DEF Needed
    <3>2. QED
      BY <1>3, <3>1
  <2>2. CASE wire # <<>>
    <3>1. Len(wire) \in Nat \ {0}
      BY <1>3, <2>2, EmptySeq
    <3>2. Len(Cat(wire, lost)) = Len(wire) + Len(lost) /\ Len(lost) \in Nat
      BY <1>3, CatFacts
    <3>3. rest[lo] # <<>>
      BY <1>4, <3>1, <3>2, EmptySeq
    <3>4. lo # hi
      BY <1>2, <3>3
    <3>5. QED
      BY <1>2, <3>4
  <2>3. QED
    BY <2>1, <2>2
<1> DEFINE t == tok[lo + 1]
<1>6. rest[lo] = Cat(Encode(t), rest[lo + 1]) /\ IsToken(t) /\ rest[lo + 1] \in Seq(Cell)
  BY <1>2, <1>5, ChainShorter
<1>7. /\ wire # <<>> /\ NextField = t.field /\ NextType = TypeCode[TokenType(t)]
      /\ \/ Needed = Len(Encode(t))
         \/ /\ t.op = "leaf" /\ NextIsKnown /\ ReaderKind(t.field) = "str"
            /\ TooBig(Tail(wire)) /\ t.value > Capacity
      /\ t.op = "leaf" /\ NextIsKnown /\ ReaderKind(t.field) = "str" /\ TooBig(Tail(wire))
           => t.value > Capacity
  <2> DEFINE after == rest[lo + 1]
  <2>1. Cat(wire, lost) = Cat(Encode(t), after) /\ after \in Seq(Cell) /\ IsToken(t)
    BY <1>4, <1>6
  <2> HIDE DEF t, after
  <2>2. QED
    BY <1>3, <2>1, NextRound
<1>8. /\ t.field \in Fields \cup {0} /\ t.op \in {"start", "leaf", "end"}
      /\ t.op = "end" => t = EndToken
      /\ t.op = "start" => t.field \in Fields /\ Kind(t.field) = "message"
      /\ t.op = "leaf" => /\ t.field \in Fields /\ IsWritten(Kind(t.field), t.value)
                          /\ Kind(t.field) # "message"
      /\ Encode(t) \in Seq(Cell) /\ Len(Encode(t)) = 1 + Len(Body(t)) /\ Len(Body(t)) \in Nat
  <2> HIDE DEF t
  <2>1. QED
    BY <1>6, TokenFacts
<1>9. NextIsKnown <=> ~Last(frames).skipping /\ t.field \in known
  BY <1>7 DEF NextIsKnown
<1>10. /\ Last(frames) \in FrameSet
  BY <1>1, <1>2, <1>3, <1>5, InnermostFrame, ChainShorter
<1>11. Len(wire) >= 1
  BY <1>3, <1>7, EmptySeq
<1>12. t.field \in Fields => ReaderKind(t.field) = Kind(t.field)
  BY <1>3, KindsAgree DEF ReaderKind, Kind
<1>13. CASE t.op = "end"
  <2>1. NextType = TypeCode.End
    BY <1>7, <1>13 DEF TokenType, TypeCode
  <2>2. ReadEnd
    BY <2>1 DEF ReadField
  <2>3. tok[lo + 1] = EndToken
    BY <1>8, <1>13
  <2>4. QED
    BY <1>1, <1>3, <1>5, <1>11, <2>2, <2>3, EndReadInv
<1>14. CASE t.op = "start"
  <2>1. NextType = TypeCode.Start /\ NextType # TypeCode.End
    BY <1>7, <1>14 DEF TokenType, TypeCode
  <2>2. t = StartOf(t.field) /\ t.field \in Fields /\ ReaderKind(t.field) = "message"
    <3>1. t.field \in Fields /\ ReaderKind(t.field) = "message"
      BY <1>8, <1>12, <1>14
    <3>2. t # EndToken
      BY <1>14 DEF EndToken
    <3>3. t = StartOf(t.field)
      <4>1. CASE \E f \in Fields : Kind(f) = "message" /\ t = StartOf(f)
        BY <4>1 DEF StartOf
      <4>2. CASE \E f \in Fields : \E v \in Values[f] :
                   Kind(f) # "message" /\ ~Omitted(Kind(f), v) /\ t = LeafOf(f, v)
        BY <1>14, <4>2 DEF LeafOf
      <4>3. QED
        BY <1>6, <3>2, <4>1, <4>2 DEF IsToken
    <3>4. QED
      BY <3>1, <3>3
  <2> DEFINE nesting == Last(frames).nesting
  <2>3. nesting \in Int
    BY <1>10 DEF FrameSet
  <2>4. CASE NextIsKnown
    <3>1. Descend(FALSE, t.field, nesting - 1)
      BY <1>7, <2>1, <2>2, <2>4 DEF ReadField
    <3>2. FALSE <=> Last(frames).skipping \/ t.field \notin known
      BY <1>9, <2>4
    <3>3. nesting - 1 \in Int /\ nesting - 1 >= nesting - 1 /\ FALSE \in BOOLEAN
      BY <2>3
    <3> HIDE DEF t
    <3>4. tok[lo + 1] = StartOf(t.field) /\ t.field \in Fields
      BY <2>2 DEF t
    <3>5. QED
      BY <1>1, <1>3, <1>5, <1>11, <3>1, <3>2, <3>3, <3>4, DescendStreamInv
  <2>5. CASE ~NextIsKnown
    <3>1. SkipField(t.field, TypeCode.Start, SkipNesting(nesting))
      BY <1>7, <2>1, <2>2, <2>5 DEF ReadField
    <3>2. Descend(TRUE, t.field, SkipNesting(nesting))
      <4>1. /\ TypeCode.Start # TypeCode.VarInt /\ TypeCode.Start # TypeCode.I64
            /\ TypeCode.Start # TypeCode.Len /\ TypeCode.Start # TypeCode.I32
        BY DEF TypeCode
      <4> DEFINE limit == SkipNesting(nesting)
                 number == t.field
      <4>2. SkipField(number, TypeCode.Start, limit)
        BY <3>1
      <4> HIDE DEF limit, number, t, nesting
      <4>3. Descend(TRUE, number, limit)
        BY <4>1, <4>2 DEF SkipField
      <4>4. QED
        BY <4>3 DEF limit, number
    <3>3. TRUE <=> Last(frames).skipping \/ t.field \notin known
      BY <1>9, <2>5
    <3>4. SkipNesting(nesting) \in Int /\ SkipNesting(nesting) >= nesting - 1 /\ TRUE \in BOOLEAN
      BY <2>3 DEF SkipNesting
    <3> HIDE DEF t
    <3>5. tok[lo + 1] = StartOf(t.field) /\ t.field \in Fields
      BY <2>2 DEF t
    <3>6. QED
      BY <1>1, <1>3, <1>5, <1>11, <3>2, <3>3, <3>4, <3>5, DescendStreamInv
  <2>6. QED
    BY <2>4, <2>5
<1>15. CASE t.op = "leaf"
  <2> DEFINE kind == Kind(t.field)
             in == Tail(wire)
  <2>1. /\ t.field \in Fields /\ IsWritten(kind, t.value) /\ kind # "message" /\ kind \in LeafKinds
        /\ ReaderKind(t.field) = kind /\ Body(t) = Payload(kind, t.value)
        /\ TokenType(t) = WireType[kind]
    BY <1>8, <1>12, <1>15 DEF IsWritten, Body, TokenType
  <2>2. /\ NextType = TypeCode[WireType[kind]]
        /\ NextType \in {TypeCode.VarInt, TypeCode.I64, TypeCode.Len, TypeCode.I32}
        /\ NextType # TypeCode.End /\ NextType # TypeCode.Start
    BY <1>7, <2>1 DEF LeafKinds, WireType, TypeCode
  <2>3. Needed = 1 + (IF NextIsKnown THEN UnmarshalWidth(kind, in) ELSE SkipWidth(NextType, in))
    BY <1>7, <2>1, <2>2 DEF Needed
  <2>4. tok[lo + 1] = t
    OBVIOUS
  <2>5. CASE NextIsKnown /\ kind = "str" /\ TooBig(in)
    <3>1. ReadLeaf(t.field)
      BY <1>7, <2>1, <2>2, <2>5 DEF ReadField
    <3>2. Stop("data too big")
      BY <2>1, <2>5, <3>1 DEF ReadLeaf
    <3>3. t.value > Capacity
      BY <1>7, <1>15, <2>1, <2>5
    <3>4. LeafBacked(t)
      <4>1. lo + 1 \in lo + 1..hi
        BY <1>2, <1>5
      <4>2. QED
        BY <1>1, <4>1 DEF Backed
    <3>5. PICK w \in Written : w.field = t.field /\ w.value = t.value
      BY <1>15, <3>4 DEF LeafBacked
    <3>6. WriterKind(w.field) = "str" /\ w.value > Capacity
      <4>1. WriterKind(t.field) = Kind(t.field)
        BY <1>3, <2>1, KindsAgree DEF WriterKind, Kind, StreamTypes
      <4>2. QED
        BY <2>5, <3>3, <3>5, <4>1
    <3> HIDE DEF t
    <3>7. QED
      BY <1>3, <3>2, <3>6, StopStreamInv
  <2>6. CASE NextIsKnown /\ ~(kind = "str" /\ TooBig(in))
    <3>1. ReadLeaf(t.field)
      BY <1>7, <2>1, <2>2, <2>6 DEF ReadField
    <3>2. Needed = Len(Encode(t))
      BY <1>7, <2>1, <2>6
    <3> DEFINE n == UnmarshalWidth(kind, in)
    <3>3. /\ Take(n + 1) /\ UNCHANGED <<frames, heard, rerr>>
          /\ hearing' = Append(hearing, [path |-> ReadPath, field |-> t.field,
                                         value |-> Unmarshalled(kind, SubSeq(in, 1, n))])
      BY <2>1, <2>6, <3>1 DEF ReadLeaf
    <3>4. n = Len(Body(t)) /\ n + 1 = Len(Encode(t)) /\ Len(wire) >= Len(Encode(t))
      <4>1. Needed = 1 + n
        BY <2>3, <2>6
      <4>2. UnmarshalWidth(kind, in) \in Nat
        <5>1. in \in Seq(Cell) /\ Cat(in, lost) = Cat(Body(t), rest[lo + 1])
          BY <1>3, <1>4, <1>6, <1>7, <1>8, TailOfToken
        <5>2. in \o lost = Payload(kind, t.value) \o rest[lo + 1]
          BY <2>1, <5>1 DEF Cat
        <5> HIDE DEF in, t, kind
        <5>3. QED
          BY <1>6, <2>1, <5>1, <5>2, WidthFacts
      <4> HIDE DEF n
      <4>3. n \in Nat
        BY <4>2 DEF n
      <4>4. QED
        BY <1>3, <1>8, <3>2, <4>1, <4>3
    <3>5. SubSeq(in, 1, n) = Payload(kind, t.value)
      BY <1>3, <1>4, <1>6, <1>8, <2>1, <3>4, FrontOfToken, PayloadFacts
    <3>6. Unmarshalled(kind, SubSeq(in, 1, n)) = t.value
      BY <2>1, <3>5, PayloadFacts
    <3>7. hearing' = IF ~Last(frames).skipping /\ t.field \in known
                     THEN Append(hearing, [path |-> ReadPath, field |-> t.field, value |-> t.value])
                     ELSE hearing
      BY <1>9, <2>6, <3>3, <3>6
    <3>8. Take(Len(Encode(t)))
      BY <3>3, <3>4
    <3> HIDE DEF t
    <3>9. QED
      BY <1>1, <1>3, <1>5, <1>15, <2>4, <3>3, <3>4, <3>7, <3>8, LeafReadInv
  <2>7. CASE ~NextIsKnown
    <3>1. SkipField(t.field, NextType, SkipNesting(Last(frames).nesting))
      BY <1>7, <2>2, <2>7 DEF ReadField
    <3>2. Take(1 + SkipWidth(NextType, in)) /\ UNCHANGED <<frames, hearing, heard, rerr>>
      BY <2>2, <3>1 DEF SkipField
    <3>3. Needed = Len(Encode(t)) /\ Needed = 1 + SkipWidth(NextType, in)
      BY <1>7, <2>3, <2>7
    <3>4. Take(Len(Encode(t))) /\ Len(wire) >= Len(Encode(t))
      BY <1>3, <3>2, <3>3
    <3>5. hearing' = IF ~Last(frames).skipping /\ t.field \in known
                     THEN Append(hearing, [path |-> ReadPath, field |-> t.field, value |-> t.value])
                     ELSE hearing
      BY <1>9, <2>7, <3>2
    <3> HIDE DEF t
    <3>6. QED
      BY <1>1, <1>3, <1>5, <1>15, <2>4, <3>2, <3>4, <3>5, LeafReadInv
  <2>8. QED
    BY <2>5, <2>6, <2>7
<1>16. QED
  BY <1>8, <1>13, <1>14, <1>15

-----------------------------------------------------------------------------
(***************************************************************************)
(* Every behaviour.                                                        *)
(***************************************************************************)

\* At first the stream is empty.
LEMMA InitStreamInv == ASSUME Init PROVE StreamInv
<1>1. TagInv
  BY InitTagInv
<1>2. /\ status = "writing" /\ opened = <<>> /\ pending = <<>> /\ wire = <<>>
      /\ saying = <<>> /\ said = <<>> /\ frames = <<>> /\ hearing = <<>> /\ heard = <<>>
      /\ rerr = "" /\ writer \in {"generated", "dynamic"} /\ reader \in {"generated", "dynamic"}
      /\ known \subseteq Fields
  BY FieldsAssumption DEF Init
<1>3. StreamTypes
  BY <1>2, EmptySeq DEF StreamTypes
<1>4. PendingAreMessages /\ ErrorsHaveCause
  <2>1. ErrorsHaveCause
    BY <1>2 DEF ErrorsHaveCause
  <2>2. Len(pending) = 0
    BY <1>2, EmptySeq
  <2>3. QED
    BY <2>1, <2>2 DEF PendingAreMessages, AreMessages
<1> DEFINE nothing == [open |-> <<>>, leaves |-> <<>>, msgs |-> <<>>]
           cfg == [i \in {0} |-> nothing]
           rest == [i \in {0} |-> <<>>]
           tok == [i \in {0} |-> EndToken]
<1>5. nothing \in Config /\ cfg[0] = nothing /\ rest[0] = <<>>
  BY EmptySeq DEF Config
<1>6. Chain(0, 0, tok, rest, cfg)
  <2>1. \A i \in 0..0 : i = 0
    OBVIOUS
  <2>2. \A i \in 0 + 1..0 : FALSE
    OBVIOUS
  <2>3. <<>> \in Seq(Cell)
    BY EmptySeq
  <2> HIDE DEF cfg, rest, tok, nothing
  <2>4. QED
    BY <1>5, <2>1, <2>2, <2>3 DEF Chain
<1>7. Pipe(0, 0, tok, rest, cfg)
  <2>1. <<>> \in Seq(Cell) /\ Cat(<<>>, <<>>) = <<>>
    BY EmptySeq, CatEmpty
  <2>2. cfg[0] = [open |-> opened, leaves |-> saying, msgs |-> said]
    BY <1>2, <1>5
  <2> HIDE DEF cfg, rest, tok, nothing
  <2>3. \E lost \in Seq(Cell) : Cat(wire, lost) = rest[0] /\ (status = "writing" => lost = <<>>)
    <3>1. Cat(wire, <<>>) = rest[0]
      BY <1>2, <1>5, <2>1
    <3>2. QED
      BY <2>1, <3>1
  <2>4. 0 \in Nat /\ 0 <= 0
    OBVIOUS
  <2>5. QED
    BY ONLY <1>6, <2>2, <2>3, <2>4 DEF Pipe
<1>8. Backed(0, 0, tok, cfg)
  <2>1. ConfigBacked(nothing)
    BY <1>2, PrefixReflexive, EmptySeq DEF ConfigBacked, IsPrefixOf
  <2>2. \A i \in 0..0 : i = 0
    OBVIOUS
  <2>3. \A i \in 0 + 1..0 : FALSE
    OBVIOUS
  <2> HIDE DEF cfg, rest, tok, nothing
  <2>4. QED
    BY <1>5, <2>1, <2>2, <2>3 DEF Backed
<1>9. Follows(cfg[0])
  <2>1. AreSeen(<<>>, <<>>, known)
    BY SeenNothing
  <2>2. Len(<<>>) = 0 /\ \A m \in 1..0 : FALSE
    BY EmptySeq
  <2>3. nothing.open = <<>> /\ nothing.leaves = <<>> /\ nothing.msgs = <<>>
    OBVIOUS
  <2> HIDE DEF nothing
  <2>4. Follows(nothing)
    BY <1>2, <2>1, <2>2, <2>3 DEF Follows
  <2>5. QED
    BY <1>5, <2>4
<1>10. QED
  <2> HIDE DEF cfg, rest, tok, nothing
  <2>1. QED
    BY <1>1, <1>3, <1>4, <1>7, <1>8, <1>9 DEF StreamInv

\* A step of nobody.
LEMMA StutterStreamInv == ASSUME StreamInv, UNCHANGED vars PROVE StreamInv'
<1>1. UNCHANGED <<writer, writerVars, wire, reader, known, readerVars, status, path, pending,
                  opened, saying, said, frames, hearing, heard, rerr>>
  BY DEF vars, writerVars, readerVars
<1>2. TagInv' /\ StreamTypes' /\ PendingAreMessages'
  BY <1>1 DEF StreamInv, TagInv, TypeOK, OpenTagsMatchPath, PanicsOnlyTooDeep, StreamTypes,
              PendingAreMessages
<1>3. Written' = Written
  BY <1>1 DEF Written
<1>4. ErrorsHaveCause'
  BY <1>1, <1>3 DEF StreamInv, ErrorsHaveCause, WriterKind
<1>5. ASSUME NEW lo, NEW hi, NEW tok, NEW rest, NEW cfg, NEW c,
             Pipe(lo, hi, tok, rest, cfg), Backed(lo, hi, tok, cfg), Follows(c)
      PROVE  Pipe(lo, hi, tok, rest, cfg)' /\ Backed(lo, hi, tok, cfg)' /\ Follows(c)'
  <2>1. Pipe(lo, hi, tok, rest, cfg)'
    BY <1>1, <1>5 DEF Pipe
  <2>2. Backed(lo, hi, tok, cfg)'
    BY <1>1, <1>3, <1>5 DEF Backed, ConfigBacked, LeafBacked
  <2>3. Follows(c)'
    BY <1>1, <1>5 DEF Follows
  <2>4. QED
    BY <2>1, <2>2, <2>3
<1>6. PICK lo, hi, tok, rest, cfg :
        Pipe(lo, hi, tok, rest, cfg) /\ Backed(lo, hi, tok, cfg) /\ Follows(cfg[lo])
  BY DEF StreamInv
<1>7. QED
  BY <1>2, <1>4, <1>5, <1>6 DEF StreamInv

\* Every step of the writer and of the reader keeps the invariant.
LEMMA NextStreamInv == ASSUME LowFields, StreamInv, [Next]_vars PROVE StreamInv'
<1>1. TagInv'
  BY NextTagInv DEF StreamInv
<1>2. CASE Write
  <2>1. CASE \E f \in Fields : \E v \in Values[f] : MarshalLeaf(f, v)
    BY <1>1, <2>1, LeafStreamInv
  <2>2. CASE \E f \in Fields : EnterMessage(f)
    BY <1>1, <2>2, EnterStreamInv
  <2>3. CASE LeaveMessage
    BY <1>1, <2>3, LeaveStreamInv
  <2>4. CASE FinishMessage
    BY <1>1, <2>4, FinishStreamInv
  <2>5. QED
    BY <1>2, <2>1, <2>2, <2>3, <2>4 DEF Write
<1>3. CASE ConnectionLost
  BY <1>1, <1>3, LostStreamInv
<1>4. CASE Read
  <2>1. CASE BeginMessage
    BY <1>1, <2>1, BeginStreamInv
  <2>2. CASE ReadField
    BY <1>1, <2>2, RoundStreamInv
  <2>3. CASE ReadEOF
    BY <1>1, <2>3, EOFStreamInv
  <2>4. QED
    BY <1>4, <2>1, <2>2, <2>3 DEF Read
<1>5. CASE UNCHANGED vars
  BY <1>5, StutterStreamInv
<1>6. QED
  BY <1>2, <1>3, <1>4, <1>5 DEF Next

\* What the reader completes is what the writer wrote to the end, message for
\* message and leaf for leaf, unknown fields left out, and a reader inside a
\* message that was written to the end has the bytes it waits for
\* (encoding.cc:123-140), for every schema with field numbers below 2^28.
THEOREM DecodingUndoesEncoding == ASSUME LowFields PROVE Spec => []RoundTrip
<1>1. Init => StreamInv
  BY InitStreamInv
<1>2. StreamInv /\ [Next]_vars => StreamInv'
  BY NextStreamInv
<1>3. StreamInv => RoundTrip
  BY StreamInvImplies
<1>4. QED
  BY <1>1, <1>2, <1>3, PTL DEF Spec

\* The reader refuses a message only for a leaf nested too deep, a string longer
\* than its own capacity or a lost connection (encoding.cc:133-140,
\* encoding_impl.cc:31-85, 391-404, call.cc:161-166), under the same condition.
THEOREM RefusalsHaveCause == ASSUME LowFields PROVE Spec => []ErrorsHaveCause
<1>1. Init => StreamInv
  BY InitStreamInv
<1>2. StreamInv /\ [Next]_vars => StreamInv'
  BY NextStreamInv
<1>3. StreamInv => ErrorsHaveCause
  BY DEF StreamInv
<1>4. QED
  BY <1>1, <1>2, <1>3, PTL DEF Spec
=============================================================================
