-------------------------- MODULE TypeTableProofs --------------------------
(***************************************************************************)
(* Proofs about TypeTable, for every schema: a walk over the types ends    *)
(* with what can be reached from its roots, each type once; what the       *)
(* server describes and the two commands make of it is the service that    *)
(* was declared; and the two commands agree on every reply.                *)
(***************************************************************************)
EXTENDS TypeTable, SequenceTheorems, TLAPS

Frame == [msg : Message, next : Nat]

Found(t) ==
    /\ t \in Message => t \in Elems(messages)
    /\ t \in Enum => t \in Elems(enums)

\* A field that has not led to its type yet is one that a call will come to.
Pending(m, k) == \E d \in 1..Len(stack) : stack[d].msg = m /\ stack[d].next <= k

FieldsFollowed ==
    \A m \in Elems(messages) : \A k \in Indices(schema.fields[m]) :
      Found(FieldType(m, k)) \/ Pending(m, k)

NothingElse ==
    /\ Elems(enums) \subseteq TypesUsedBy(Elems(messages))
    /\ \A S \in SUBSET Message :
         Elems(WalkRoots) \subseteq S /\ Closed(S) => Elems(messages) \subseteq S

\* Nothing is left to do between two walks.
Idle == walk = Nobody => roots = <<>> /\ stack = <<>>

WalkInv ==
    walk # Nobody =>
      /\ Elems(roots) \subseteq Elems(WalkRoots)
      /\ Elems(WalkRoots) \subseteq Elems(roots) \cup Elems(messages)
      /\ FieldsFollowed /\ NothingElse
      /\ NoneTwice(messages) /\ NoneTwice(enums)

-----------------------------------------------------------------------------
\* What is in a sequence.
LEMMA ElemsOf ==
  ASSUME NEW T, NEW s \in Seq(T)
  PROVE  /\ Elems(s) \subseteq T
         /\ s # <<>> => Head(s) \in Elems(s) /\ Tail(s) \in Seq(T)
                        /\ Elems(s) = {Head(s)} \cup Elems(Tail(s))
         /\ Elems(<<>>) = {}
<1>1. Elems(s) \subseteq T
  BY ElementOfSeq, LenProperties DEF Elems
<1>2. ASSUME s # <<>>
      PROVE  Head(s) \in Elems(s) /\ Tail(s) \in Seq(T)
             /\ Elems(s) = {Head(s)} \cup Elems(Tail(s))
  <2>1. /\ Len(s) \in Nat \ {0} /\ DOMAIN s = 1..Len(s) /\ Head(s) = s[1]
        /\ Tail(s) \in Seq(T) /\ Len(Tail(s)) = Len(s) - 1
        /\ DOMAIN Tail(s) = 1..(Len(s) - 1)
        /\ \A i \in 1..(Len(s) - 1) : Tail(s)[i] = s[i + 1]
    BY <1>2, LenProperties, HeadTailProperties, EmptySeq
  <2>2. \A i \in 1..Len(s) : i = 1 \/ i - 1 \in 1..(Len(s) - 1)
    BY <2>1
  <2>3. \A i \in 1..Len(s) : i # 1 => s[i] = Tail(s)[i - 1]
    BY <2>1, <2>2
  <2>4. Elems(s) \subseteq {Head(s)} \cup Elems(Tail(s))
    <3>1. ASSUME NEW i \in 1..Len(s), i # 1 PROVE s[i] \in Elems(Tail(s))
      <4>1. i - 1 \in DOMAIN Tail(s) /\ s[i] = Tail(s)[i - 1]
        BY <2>1, <2>2, <2>3, <3>1
      <4>2. QED
        BY <4>1 DEF Elems
    <3>2. QED
      BY <2>1, <3>1 DEF Elems
  <2>5. Elems(Tail(s)) \subseteq Elems(s)
    <3>1. \A i \in 1..(Len(s) - 1) : i + 1 \in 1..Len(s)
      BY <2>1
    <3>2. QED
      BY <2>1, <3>1 DEF Elems
  <2>6. Head(s) \in Elems(s)
    BY <2>1 DEF Elems
  <2>7. QED
    BY <2>1, <2>4, <2>5, <2>6
<1>3. Elems(<<>>) = {}
  BY DEF Elems
<1>4. QED
  BY <1>1, <1>2, <1>3

LEMMA ElemsOfAppend ==
  ASSUME NEW T, NEW s \in Seq(T), NEW x \in T
  PROVE  /\ Append(s, x) \in Seq(T)
         /\ Elems(Append(s, x)) = Elems(s) \cup {x}
         /\ NoneTwice(s) /\ x \notin Elems(s) => NoneTwice(Append(s, x))
<1>1. /\ Append(s, x) \in Seq(T) /\ Len(s) \in Nat /\ DOMAIN s = 1..Len(s)
      /\ DOMAIN Append(s, x) = 1..(Len(s) + 1)
      /\ \A i \in 1..Len(s) : Append(s, x)[i] = s[i]
      /\ Append(s, x)[Len(s) + 1] = x
  BY AppendProperties, LenProperties
<1>2. \A i \in 1..(Len(s) + 1) : i \in 1..Len(s) \/ i = Len(s) + 1
  BY <1>1
<1>3. QED
  BY <1>1, <1>2 DEF Elems, NoneTwice

\* What SchemaAssumption says of the schema that was compiled.
LEMMA SchemaTypes ==
  ASSUME TypeOK
  PROVE  /\ schema.top \in [File -> Seq(Message)]
         /\ schema.file \in [Message \cup Enum -> File]
         /\ schema.home \in File /\ Void \in Message
         /\ \A m \in Message : /\ schema.fields[m] \in Seq([type : Message \cup Enum \cup {Scalar, Group},
                                                           card : {"one", "optional", "array", "vector"}])
                               /\ Len(schema.fields[m]) \in Nat
                               /\ \A k \in Indices(schema.fields[m]) :
                                    FieldType(m, k) \in Message \cup Enum \cup {Scalar, Group}
         /\ Nobody \notin File \cup {Service} /\ Service \notin File
         /\ Message \cap Enum = {}
<1>1. schema \in Schemas
  BY DEF TypeOK
<1>2. ASSUME NEW m \in Message
      PROVE  /\ Len(schema.fields[m]) \in Nat
             /\ \A k \in Indices(schema.fields[m]) :
                  FieldType(m, k) \in Message \cup Enum \cup {Scalar, Group}
  <2>1. schema.fields[m] \in Seq([type : Message \cup Enum \cup {Scalar, Group},
                                  card : {"one", "optional", "array", "vector"}])
    BY <1>1, SchemaAssumption
  <2>2. \A k \in 1..Len(schema.fields[m]) :
          schema.fields[m][k] \in [type : Message \cup Enum \cup {Scalar, Group},
                                  card : {"one", "optional", "array", "vector"}]
    BY <2>1, ElementOfSeq
  <2>3. QED
    BY <2>1, <2>2, LenProperties DEF Indices, FieldType
<1>3. QED
  BY <1>1, <1>2, SchemaAssumption

LEMMA ServiceMessagesType ==
  ASSUME TypeOK
  PROVE  ServiceMessages \in Seq(Message)
<1> DEFINE n == Len(schema.methods)
<1>1. schema.methods \in Seq([in : Message, out : Message, streams : BOOLEAN])
  BY SchemaAssumption DEF TypeOK
<1>2. n \in Nat /\ \A i \in 1..n : schema.methods[i].in \in Message /\ schema.methods[i].out \in Message
  <2>1. \A i \in 1..n : schema.methods[i] \in [in : Message, out : Message, streams : BOOLEAN]
    BY <1>1, ElementOfSeq
  <2>2. QED
    BY <1>1, <2>1, LenProperties
<1>3. ASSUME NEW j \in 1..(2 * n) PROVE (j + 1) \div 2 \in 1..n
  BY <1>2
<1>4. \A j \in 1..(2 * n) : ServiceMessages[j] \in Message
  BY <1>2, <1>3 DEF ServiceMessages
<1>5. 2 * n \in Nat
  BY <1>2
<1>6. ServiceMessages = [j \in 1..(2 * n) |-> ServiceMessages[j]]
  BY DEF ServiceMessages
<1> HIDE DEF n
<1>7. QED
  BY <1>4, <1>5, <1>6, IsASeq

-----------------------------------------------------------------------------
\* The frames of calls that are under way, in the order they were made.
FramesOK(calls) ==
    \A d \in 1..Len(calls) :
      /\ calls[d].msg \in Elems(messages)
      /\ calls[d].next \in 1..(Len(schema.fields[calls[d].msg]) + 1)

\* What a call does: it keeps the calls under way, and adds the message once,
\* with a call of its own that is to visit its fields.
LEMMA EnterFacts ==
  ASSUME TypeOK, NEW m \in Message, NEW callers \in Seq(Frame), FramesOK(callers),
         Enter(m, callers), schema' = schema
  PROVE  /\ messages' \in Seq(Message) /\ stack' \in Seq(Frame)
         /\ FramesOK(stack)'
         /\ Elems(messages') = Elems(messages) \cup {m}
         /\ NoneTwice(messages) => NoneTwice(messages')
         /\ \A d \in 1..Len(callers) : d \in 1..Len(stack') /\ stack'[d] = callers[d]
         /\ m \notin Elems(messages) =>
              \E d \in 1..Len(stack') : stack'[d] = [msg |-> m, next |-> 1]
<1> DEFINE frame == [msg |-> m, next |-> 1]
<1>1. messages \in Seq(Message) /\ frame \in Frame /\ Len(schema.fields[m]) \in Nat
  BY SchemaTypes DEF TypeOK, Frame
<1>2. CASE m \in Elems(messages)
  <2>1. messages' = messages /\ stack' = callers
    BY <1>2 DEF Enter
  <2>2. QED
    BY <1>1, <1>2, <2>1 DEF FramesOK, Elems
<1>3. CASE m \notin Elems(messages)
  <2>1. messages' = Append(messages, m) /\ stack' = Append(callers, frame)
    BY <1>3 DEF Enter
  <2>2. /\ messages' \in Seq(Message) /\ Elems(messages') = Elems(messages) \cup {m}
        /\ NoneTwice(messages) => NoneTwice(messages')
    BY <1>1, <1>3, <2>1, ElemsOfAppend
  <2>3. /\ stack' \in Seq(Frame) /\ Len(callers) \in Nat /\ Len(stack') = Len(callers) + 1
        /\ \A d \in 1..Len(callers) : stack'[d] = callers[d]
        /\ stack'[Len(callers) + 1] = frame
    BY <1>1, <2>1, AppendProperties, LenProperties
  <2>4. \A d \in 1..Len(callers) : d \in 1..Len(stack')
    BY <2>3
  <2>5. Len(callers) + 1 \in 1..Len(stack')
    BY <2>3
  <2>6. FramesOK(stack)'
    <3>1. ASSUME NEW d \in 1..Len(stack')
          PROVE  /\ stack'[d].msg \in Elems(messages')
                 /\ stack'[d].next \in 1..(Len(schema.fields[stack'[d].msg]) + 1)
      <4>1. CASE d = Len(callers) + 1
        BY <4>1, <1>1, <2>2, <2>3
      <4>2. CASE d # Len(callers) + 1
        <5>1. d \in 1..Len(callers)
          BY <2>3, <3>1, <4>2
        <5>2. QED
          BY <5>1, <2>2, <2>3 DEF FramesOK
      <4>3. QED
        BY <4>1, <4>2
    <3>2. QED
      BY <3>1 DEF FramesOK
  <2>7. QED
    BY <2>2, <2>3, <2>4, <2>5, <2>6
<1>4. QED
  BY <1>2, <1>3

\* The innermost call, and the calls when it goes on to the next field.
Advanced == [stack EXCEPT ![Len(stack)] = [msg |-> Top.msg, next |-> Top.next + 1]]

LEMMA TopFacts ==
  ASSUME TypeOK, stack # <<>>
  PROVE  /\ Len(stack) \in Nat \ {0} /\ Len(stack) \in 1..Len(stack)
         /\ Top \in Frame /\ Top.msg \in Elems(messages) /\ Top.msg \in Message
         /\ Top.next \in 1..(Len(schema.fields[Top.msg]) + 1)
<1>1. stack \in Seq(Frame)
  BY DEF TypeOK, Frame
<1>2. Len(stack) \in Nat \ {0} /\ Len(stack) \in 1..Len(stack)
  BY <1>1, LenProperties, EmptySeq
<1>3. Top \in Frame
  BY <1>1, <1>2, ElementOfSeq DEF Top
<1>4. QED
  BY <1>2, <1>3 DEF TypeOK, Top, Frame

LEMMA AdvancedFacts ==
  ASSUME TypeOK, stack # <<>>, MoreFields
  PROVE  /\ Advanced \in Seq(Frame) /\ FramesOK(Advanced) /\ Len(Advanced) = Len(stack)
         /\ Top.next \in Indices(schema.fields[Top.msg])
         /\ \A d \in 1..Len(stack) :
              /\ Advanced[d].msg = stack[d].msg
              /\ Advanced[d].next = IF d = Len(stack) THEN Top.next + 1 ELSE stack[d].next
<1> DEFINE frame == [msg |-> Top.msg, next |-> Top.next + 1]
<1>1. /\ Len(stack) \in 1..Len(stack) /\ Top \in Frame /\ Top.msg \in Elems(messages)
      /\ Top.msg \in Message /\ Top.next \in 1..(Len(schema.fields[Top.msg]) + 1)
  BY TopFacts
<1>2. Len(schema.fields[Top.msg]) \in Nat
  BY <1>1, SchemaTypes
<1>3. /\ Top.next \in Indices(schema.fields[Top.msg])
      /\ Top.next + 1 \in 1..(Len(schema.fields[Top.msg]) + 1)
  BY <1>1, <1>2 DEF MoreFields, Indices
<1>4. frame \in Frame
  BY <1>1, <1>3 DEF Frame
<1>5. stack \in Seq(Frame)
  BY DEF TypeOK, Frame
<1>6. Advanced = [stack EXCEPT ![Len(stack)] = frame]
  BY DEF Advanced
<1> HIDE DEF frame
<1>7. /\ Advanced \in Seq(Frame) /\ Len(Advanced) = Len(stack)
      /\ \A d \in 1..Len(stack) : Advanced[d] = IF d = Len(stack) THEN frame ELSE stack[d]
  BY <1>1, <1>4, <1>5, <1>6, ExceptSeq
<1>8. frame.msg = stack[Len(stack)].msg /\ frame.next = Top.next + 1
  BY DEF frame, Top
<1>9. /\ \A d \in 1..Len(stack) :
           /\ Advanced[d].msg = stack[d].msg
           /\ Advanced[d].next = IF d = Len(stack) THEN Top.next + 1 ELSE stack[d].next
  BY <1>7, <1>8
<1>10. FramesOK(Advanced)
  BY <1>3, <1>7, <1>9 DEF FramesOK, TypeOK, Top
<1>11. QED
  BY <1>3, <1>7, <1>9, <1>10

LEMMA NextFieldFacts ==
  ASSUME TypeOK, NextField, NEW t, t = FieldType(Top.msg, Top.next)
  PROVE  /\ stack # <<>> /\ Top.next \in Indices(schema.fields[Top.msg])
         /\ t \in Message \cup Enum \cup {Scalar, Group}
         /\ messages' \in Seq(Message) /\ enums' \in Seq(Enum) /\ stack' \in Seq(Frame)
         /\ FramesOK(stack)'
         /\ Elems(messages') = Elems(messages) \cup ({t} \cap Message)
         /\ Elems(enums') = Elems(enums) \cup ({t} \cap Enum)
         /\ NoneTwice(messages) => NoneTwice(messages')
         /\ NoneTwice(enums) => NoneTwice(enums')
         /\ \A d \in 1..Len(stack) :
              /\ d \in 1..Len(stack') /\ stack'[d].msg = stack[d].msg
              /\ stack'[d].next = IF d = Len(stack) THEN Top.next + 1 ELSE stack[d].next
         /\ t \in Message \ Elems(messages) =>
              \E d \in 1..Len(stack') : stack'[d] = [msg |-> t, next |-> 1]
<1>1. /\ stack # <<>> /\ MoreFields /\ schema' = schema
      /\ IF t \in Message THEN Enter(t, Advanced)
                          ELSE messages' = messages /\ stack' = Advanced
      /\ enums' = IF t \in Enum /\ t \notin Elems(enums) THEN Append(enums, t) ELSE enums
  BY DEF NextField, Advanced
<1>2. /\ Advanced \in Seq(Frame) /\ FramesOK(Advanced) /\ Len(Advanced) = Len(stack)
      /\ Top.next \in Indices(schema.fields[Top.msg])
      /\ \A d \in 1..Len(stack) :
           /\ Advanced[d].msg = stack[d].msg
           /\ Advanced[d].next = IF d = Len(stack) THEN Top.next + 1 ELSE stack[d].next
  BY <1>1, AdvancedFacts
<1>3. t \in Message \cup Enum \cup {Scalar, Group}
  BY <1>1, <1>2, TopFacts, SchemaTypes
<1>4. messages \in Seq(Message) /\ enums \in Seq(Enum)
  BY DEF TypeOK
<1>5. /\ enums' \in Seq(Enum) /\ Elems(enums') = Elems(enums) \cup ({t} \cap Enum)
      /\ NoneTwice(enums) => NoneTwice(enums')
  <2>1. CASE t \in Enum /\ t \notin Elems(enums)
    <3>1. enums' = Append(enums, t) /\ t \in Enum
      BY <1>1, <2>1
    <3>2. /\ enums' \in Seq(Enum) /\ Elems(enums') = Elems(enums) \cup {t}
          /\ NoneTwice(enums) => NoneTwice(enums')
      BY <3>1, <2>1, <1>4, ElemsOfAppend
    <3>3. QED
      BY <2>1, <3>2
  <2>2. CASE ~(t \in Enum /\ t \notin Elems(enums))
    BY <1>1, <1>4, <2>2
  <2>3. QED
    BY <2>1, <2>2
<1>6. CASE t \in Message
  <2>1. Enter(t, Advanced)
    BY <1>1, <1>6
  <2>2. /\ messages' \in Seq(Message) /\ stack' \in Seq(Frame) /\ FramesOK(stack)'
        /\ Elems(messages') = Elems(messages) \cup {t}
        /\ NoneTwice(messages) => NoneTwice(messages')
        /\ \A d \in 1..Len(Advanced) : d \in 1..Len(stack') /\ stack'[d] = Advanced[d]
        /\ t \notin Elems(messages) =>
             \E d \in 1..Len(stack') : stack'[d] = [msg |-> t, next |-> 1]
    BY <1>1, <1>2, <1>6, <2>1, EnterFacts
  <2>3. {t} \cap Message = {t}
    BY <1>6
  <2>4. QED
    BY <1>1, <1>2, <1>3, <1>5, <2>2, <2>3
<1>7. CASE t \notin Message
  <2>1. messages' = messages /\ stack' = Advanced
    BY <1>1, <1>7
  <2>2. FramesOK(stack)'
    BY <1>1, <1>2, <2>1 DEF FramesOK
  <2>3. {t} \cap Message = {}
    BY <1>7
  <2>4. QED
    BY <1>1, <1>2, <1>3, <1>4, <1>5, <1>7, <2>1, <2>2, <2>3
<1>8. QED
  BY <1>6, <1>7

LEMMA ReturnFacts ==
  ASSUME TypeOK, Return
  PROVE  /\ stack' \in Seq(Frame) /\ Len(stack') = Len(stack) - 1
         /\ Len(stack) \in Nat \ {0}
         /\ \A d \in 1..Len(stack') : stack'[d] = stack[d]
<1> DEFINE n == Len(stack)
<1>1. stack \in Seq(Frame) /\ n \in Nat \ {0} /\ stack' = SubSeq(stack, 1, n - 1)
  BY TopFacts DEF TypeOK, Frame, Return
<1>2. \A i \in 1..(n - 1) : stack[i] \in Frame
  <2>1. \A i \in 1..(n - 1) : i \in 1..n
    BY <1>1
  <2>2. \A i \in 1..n : stack[i] \in Frame
    BY <1>1, ElementOfSeq
  <2>3. QED
    BY <2>1, <2>2
<1> HIDE DEF n
<1>3. 1 \in Int /\ n - 1 \in Int
  BY <1>1
<1>4. /\ SubSeq(stack, 1, n - 1) \in Seq(Frame)
      /\ Len(SubSeq(stack, 1, n - 1)) = IF 1 <= n - 1 THEN n - 1 - 1 + 1 ELSE 0
      /\ \A d \in 1..n - 1 - 1 + 1 : SubSeq(stack, 1, n - 1)[d] = stack[1 + d - 1]
  BY ONLY <1>2, <1>3, SubSeqProperties, SMTT(30)
<1>5. (IF 1 <= n - 1 THEN n - 1 - 1 + 1 ELSE 0) = n - 1 /\ n - 1 - 1 + 1 = n - 1
  BY <1>1
<1>6. \A d \in 1..(n - 1) : 1 + d - 1 = d
  BY <1>1
<1>7. Len(stack') = n - 1 /\ \A d \in 1..(n - 1) : stack'[d] = stack[d]
  BY <1>1, <1>4, <1>5, <1>6
<1>8. QED
  BY <1>1, <1>4, <1>7 DEF n

LEMMA NextRootFacts ==
  ASSUME TypeOK, NextRoot
  PROVE  /\ Head(roots) \in Message /\ roots' \in Seq(Message)
         /\ Elems(roots) = {Head(roots)} \cup Elems(roots')
         /\ messages' \in Seq(Message) /\ stack' \in Seq(Frame) /\ FramesOK(stack)'
         /\ Elems(messages') = Elems(messages) \cup {Head(roots)}
         /\ NoneTwice(messages) => NoneTwice(messages')
         /\ Head(roots) \notin Elems(messages) =>
              \E d \in 1..Len(stack') : stack'[d] = [msg |-> Head(roots), next |-> 1]
<1>1. roots \in Seq(Message) /\ roots # <<>> /\ roots' = Tail(roots) /\ schema' = schema
  BY DEF NextRoot, TypeOK
<1>2. /\ Head(roots) \in Message /\ roots' \in Seq(Message)
      /\ Elems(roots) = {Head(roots)} \cup Elems(roots')
  BY <1>1, ElemsOf
<1>3. <<>> \in Seq(Frame) /\ FramesOK(<<>>)
  BY EmptySeq DEF FramesOK
<1>4. Enter(Head(roots), <<>>)
  BY DEF NextRoot
<1>5. QED
  BY <1>1, <1>2, <1>3, <1>4, EnterFacts

-----------------------------------------------------------------------------
LEMMA InitType == Init => TypeOK /\ Idle
<1> SUFFICES ASSUME Init PROVE TypeOK /\ Idle
  OBVIOUS
<1>1. /\ schema.order \in Seq((Message \cup Enum) \ {Void})
      /\ schema.file \in [Message \cup Enum -> File] /\ Void \in Message
  BY SchemaAssumption DEF Init
<1>2. Len(schema.order) \in Nat
  BY <1>1, LenProperties
<1>3. \A T : <<>> \in Seq(T) /\ Len(<<>>) = 0
  BY EmptySeq
<1>4. schema \in Schemas /\ stack = <<>> /\ phase = "objects" /\ declared = 0 /\ todo = File /\ walk = Nobody
      /\ roots = <<>> /\ messages = <<>> /\ enums = <<>> /\ table = <<>>
      /\ defined = {<<schema.file[Void], Void>>}
  BY DEF Init
<1>5. defined \subseteq File \X (Message \cup Enum)
  BY <1>1, <1>4
<1>6. QED
  BY <1>2, <1>3, <1>4, <1>5 DEF TypeOK, Idle

\* The types array is made of pointers.
LEMMA TypesArrayType ==
  ASSUME TypeOK
  PROVE  TypesArray \in Seq(File \X (Message \cup Enum))
<1> DEFINE Pointers == File \X (Message \cup Enum)
           ms == [i \in 1..Len(messages) |-> MessagePointer(messages[i])]
           es == [i \in 1..Len(enums) |-> EnumPointer(schema.home, enums[i])]
<1>1. /\ messages \in Seq(Message) /\ enums \in Seq(Enum)
      /\ Len(messages) \in Nat /\ Len(enums) \in Nat
  BY LenProperties DEF TypeOK
<1>2. /\ \A i \in 1..Len(messages) : messages[i] \in Message
      /\ \A i \in 1..Len(enums) : enums[i] \in Enum
  BY <1>1, ElementOfSeq
<1>3. /\ \A i \in 1..Len(messages) : MessagePointer(messages[i]) \in Pointers
      /\ \A i \in 1..Len(enums) : EnumPointer(schema.home, enums[i]) \in Pointers
  BY <1>2, SchemaTypes DEF MessagePointer, EnumPointer
<1> HIDE DEF Pointers
<1>4. ms \in Seq(Pointers)
  BY <1>1, <1>3, IsASeq
<1>5. es \in Seq(Pointers)
  BY <1>1, <1>3, IsASeq
<1>6. TypesArray = ms \o es
  BY DEF TypesArray
<1> HIDE DEF ms, es
<1>7. TypesArray \in Seq(Pointers)
  BY <1>4, <1>5, <1>6, ConcatProperties
<1>8. QED
  BY <1>7 DEF Pointers

LEMMA NextType == TypeOK /\ Idle /\ [Next]_vars => TypeOK' /\ Idle'
<1> SUFFICES ASSUME TypeOK, Idle, [Next]_vars PROVE TypeOK' /\ Idle'
  OBVIOUS
<1> USE SchemaTypes
<1>1. \A T : <<>> \in Seq(T) /\ Len(<<>>) = 0
  BY EmptySeq
<1>2. CASE AddType
  <2>1. schema.order \in Seq((Message \cup Enum) \ {Void})
    BY SchemaAssumption DEF TypeOK
  <2>2. declared' \in 0..Len(schema.order)
    BY <1>2, <2>1, LenProperties DEF AddType, TypeOK
  <2>3. QED
    BY <1>2, <2>2 DEF AddType, TypeOK, Idle, walkVars, clientVars
<1>3. CASE AddService \/ Reject \/ ForeignServer
  BY <1>3 DEF AddService, Reject, ForeignServer, TypeOK, Idle, walkVars
<1>4. ASSUME NEW w \in File \cup {Service}, NEW rs \in Seq(Message), Begin(w, rs)
      PROVE  TypeOK' /\ Idle'
  BY <1>1, <1>4 DEF Begin, TypeOK, Idle
<1>5. ASSUME NEW f \in File, GenerateFile(f) PROVE TypeOK' /\ Idle'
  BY <1>4, <1>5 DEF GenerateFile
<1>6. CASE GenerateService
  BY <1>4, <1>6, ServiceMessagesType DEF GenerateService
<1>7. CASE NextRoot
  <2>1. roots' \in Seq(Message) /\ messages' \in Seq(Message) /\ stack' \in Seq(Frame) /\ FramesOK(stack)'
    BY <1>7, NextRootFacts
  <2>2. QED
    BY <1>7, <2>1 DEF NextRoot, TypeOK, Idle, FramesOK, Frame
<1>8. CASE NextField
  <2>1. /\ messages' \in Seq(Message) /\ enums' \in Seq(Enum) /\ stack' \in Seq(Frame)
        /\ FramesOK(stack)' /\ stack # <<>>
    BY <1>8, NextFieldFacts
  <2>2. QED
    BY <1>8, <2>1 DEF NextField, TypeOK, Idle, FramesOK, Frame
<1>9. CASE Return
  <2>1. /\ stack' \in Seq(Frame) /\ Len(stack') = Len(stack) - 1 /\ Len(stack) \in Nat
        /\ \A d \in 1..Len(stack') : stack'[d] = stack[d]
    BY <1>9, ReturnFacts
  <2>2. \A d \in 1..Len(stack') : d \in 1..Len(stack)
    BY <2>1
  <2>3. QED
    BY <1>9, <2>1, <2>2 DEF Return, TypeOK, Idle, Frame
<1>10. CASE FileDone
  <2>1. {<<walk, e>> : e \in Elems(enums)} \subseteq File \X (Message \cup Enum)
    BY <1>10, ElemsOf DEF FileDone, WalkDone, TypeOK
  <2>2. {<<walk, m>> : m \in {x \in Elems(messages) : x # Void /\ schema.file[x] = walk}}
          \subseteq File \X (Message \cup Enum)
    BY <1>10, ElemsOf DEF FileDone, WalkDone, TypeOK
  <2>3. QED
    BY <1>10, <2>1, <2>2 DEF FileDone, WalkDone, TypeOK, Idle
<1>11. CASE ServiceDone
  BY <1>11, TypesArrayType DEF ServiceDone, WalkDone, TypeOK, Idle
<1>12. CASE ListServices \/ List \/ Call \/ UNCHANGED vars
  BY <1>12 DEF ListServices, List, Call, CallRefused, CallUnloadable, CallStreaming, CallMade, CallOutcome,
       TypeOK, Idle, vars, walkVars
<1>13. QED
  BY <1>2, <1>3, <1>5, <1>6, <1>7, <1>8, <1>9, <1>10, <1>11, <1>12 DEF Next

-----------------------------------------------------------------------------
LEMMA UsedByMore ==
  ASSUME NEW S, NEW T, S \subseteq T
  PROVE  TypesUsedBy(S) \subseteq TypesUsedBy(T)
BY DEF TypesUsedBy

LEMMA UsedByOne ==
  ASSUME NEW S, NEW m \in S, NEW k \in Indices(schema.fields[m])
  PROVE  FieldType(m, k) \in TypesUsedBy(S)
BY DEF TypesUsedBy

\* What is said of a set of messages depends on the schema only.
LEMMA SchemaSaysIt ==
  ASSUME schema' = schema
  PROVE  /\ \A S : Closed(S)' = Closed(S)
         /\ \A S : TypesUsedBy(S)' = TypesUsedBy(S)
BY DEF Closed, TypesUsedBy, FieldType

LEMMA BeginWalk ==
  ASSUME NEW w, NEW rs, Begin(w, rs), WalkRoots' = rs, schema' = schema
  PROVE  WalkInv'
<1>1. messages' = <<>> /\ enums' = <<>> /\ roots' = rs
  BY DEF Begin
<1>2. Elems(messages') = {} /\ Elems(enums') = {}
  BY <1>1 DEF Elems
<1>3. NoneTwice(messages)' /\ NoneTwice(enums)'
  BY <1>1 DEF NoneTwice
<1>4. QED
  BY <1>1, <1>2, <1>3 DEF WalkInv, FieldsFollowed, NothingElse

LEMMA RootStep == TypeOK /\ WalkInv /\ NextRoot => WalkInv'
<1> SUFFICES ASSUME TypeOK, WalkInv, NextRoot PROVE WalkInv'
  OBVIOUS
<1>1. /\ walk # Nobody /\ stack = <<>> /\ schema' = schema /\ walk' = walk /\ enums' = enums
  BY DEF NextRoot
<1>2. /\ Elems(roots) = {Head(roots)} \cup Elems(roots') /\ Head(roots) \in Message
      /\ Elems(messages') = Elems(messages) \cup {Head(roots)}
      /\ NoneTwice(messages) => NoneTwice(messages')
      /\ Head(roots) \notin Elems(messages) =>
           \E d \in 1..Len(stack') : stack'[d] = [msg |-> Head(roots), next |-> 1]
  BY NextRootFacts
<1>3. WalkRoots' = WalkRoots
  BY <1>1 DEF WalkRoots, ServiceMessages
<1>4. /\ Elems(roots) \subseteq Elems(WalkRoots)
      /\ Elems(WalkRoots) \subseteq Elems(roots) \cup Elems(messages)
      /\ FieldsFollowed /\ NothingElse /\ NoneTwice(messages) /\ NoneTwice(enums)
  BY <1>1 DEF WalkInv
<1>5. FieldsFollowed'
  <2>1. ASSUME NEW m \in Elems(messages'), NEW k \in Indices(schema.fields[m])
        PROVE  (Found(FieldType(m, k)) \/ Pending(m, k))'
    <3>1. CASE m \in Elems(messages)
      <4>1. ~Pending(m, k)
        BY <1>1 DEF Pending
      <4>2. Found(FieldType(m, k))
        BY <1>4, <3>1, <4>1 DEF FieldsFollowed
      <4>3. QED
        BY <1>1, <1>2, <4>2 DEF Found, FieldType
    <3>2. CASE m \notin Elems(messages)
      <4>1. PICK d \in 1..Len(stack') : stack'[d] = [msg |-> m, next |-> 1]
        BY <1>2, <2>1, <3>2
      <4>2. 1 <= k
        BY DEF Indices
      <4>3. QED
        BY <4>1, <4>2 DEF Pending
    <3>3. QED
      BY <3>1, <3>2
  <2>2. QED
    BY <1>1, <2>1 DEF FieldsFollowed
<1>6. NothingElse'
  <2>1. Elems(enums') \subseteq TypesUsedBy(Elems(messages'))
    BY <1>1, <1>2, <1>4, UsedByMore DEF NothingElse
  <2>2. ASSUME NEW S \in SUBSET Message, Elems(WalkRoots) \subseteq S, Closed(S)
        PROVE  Elems(messages') \subseteq S
    BY <1>2, <1>4, <2>2 DEF NothingElse
  <2>3. \A S : Closed(S)' = Closed(S)
    BY <1>1 DEF Closed, TypesUsedBy, FieldType
  <2>4. TypesUsedBy(Elems(messages))' = TypesUsedBy(Elems(messages'))
    BY <1>1 DEF TypesUsedBy, FieldType
  <2>5. QED
    BY <1>3, <2>1, <2>2, <2>3, <2>4 DEF NothingElse
<1>7. QED
  BY <1>1, <1>2, <1>3, <1>4, <1>5, <1>6 DEF WalkInv

LEMMA FieldStep == TypeOK /\ Idle /\ WalkInv /\ NextField => WalkInv'
<1> SUFFICES ASSUME TypeOK, Idle, WalkInv, NextField PROVE WalkInv'
  OBVIOUS
<1> DEFINE t == FieldType(Top.msg, Top.next)
<1>1. /\ stack # <<>> /\ walk # Nobody /\ schema' = schema /\ walk' = walk /\ roots' = roots
  BY DEF NextField, Idle
<1>2. /\ Top.next \in Indices(schema.fields[Top.msg])
      /\ t \in Message \cup Enum \cup {Scalar, Group}
      /\ Elems(messages') = Elems(messages) \cup ({t} \cap Message)
      /\ Elems(enums') = Elems(enums) \cup ({t} \cap Enum)
      /\ NoneTwice(messages) => NoneTwice(messages')
      /\ NoneTwice(enums) => NoneTwice(enums')
      /\ \A d \in 1..Len(stack) :
           /\ d \in 1..Len(stack') /\ stack'[d].msg = stack[d].msg
           /\ stack'[d].next = IF d = Len(stack) THEN Top.next + 1 ELSE stack[d].next
      /\ t \in Message \ Elems(messages) =>
           \E d \in 1..Len(stack') : stack'[d] = [msg |-> t, next |-> 1]
  BY NextFieldFacts
<1>3. Top.msg \in Elems(messages) /\ Top.next \in Nat
  BY <1>1, TopFacts
<1>4. /\ WalkRoots' = WalkRoots
      /\ \A S : Closed(S)' = Closed(S)
      /\ TypesUsedBy(Elems(messages))' = TypesUsedBy(Elems(messages'))
  BY <1>1 DEF WalkRoots, ServiceMessages, Closed, TypesUsedBy, FieldType
<1>5. /\ Elems(roots) \subseteq Elems(WalkRoots)
      /\ Elems(WalkRoots) \subseteq Elems(roots) \cup Elems(messages)
      /\ FieldsFollowed /\ NothingElse /\ NoneTwice(messages) /\ NoneTwice(enums)
  BY <1>1 DEF WalkInv
<1> HIDE DEF t
<1>6. FieldsFollowed'
  <2>1. ASSUME NEW m \in Elems(messages'), NEW k \in Indices(schema.fields[m])
        PROVE  (Found(FieldType(m, k)) \/ Pending(m, k))'
    <3> k \in Nat /\ 1 <= k
      <4>1. Len(schema.fields[m]) \in Nat
        BY <1>2, <2>1, ElemsOf, SchemaTypes DEF TypeOK
      <4>2. QED
        BY <4>1 DEF Indices
    <3>1. CASE m \in Elems(messages) /\ Found(FieldType(m, k))
      BY <1>1, <1>2, <3>1 DEF Found, FieldType
    <3>2. CASE m \in Elems(messages) /\ Pending(m, k)
      <4>1. PICK d \in 1..Len(stack) : stack[d].msg = m /\ stack[d].next <= k
        BY <3>2 DEF Pending
      <4>2. CASE d = Len(stack) /\ Top.next = k
        <5>1. FieldType(m, k) = t
          BY <4>1, <4>2 DEF t, Top
        <5>2. QED
          BY <1>1, <1>2, <5>1 DEF Found, FieldType
      <4>3. CASE ~(d = Len(stack) /\ Top.next = k)
        <5>1. stack'[d].next <= k
          BY <1>2, <1>3, <4>1, <4>3 DEF Top
        <5>2. QED
          BY <1>2, <4>1, <5>1 DEF Pending
      <4>4. QED
        BY <4>2, <4>3
    <3>3. CASE m \notin Elems(messages)
      <4>1. m = t /\ t \in Message \ Elems(messages)
        BY <1>2, <2>1, <3>3
      <4>2. PICK d \in 1..Len(stack') : stack'[d] = [msg |-> m, next |-> 1]
        BY <1>2, <4>1
      <4>3. QED
        BY <4>2 DEF Pending
    <3>4. QED
      BY <1>5, <3>1, <3>2, <3>3 DEF FieldsFollowed
  <2>2. QED
    BY <1>1, <2>1 DEF FieldsFollowed
<1>7. NothingElse'
  <2>1. t \in TypesUsedBy(Elems(messages))
    BY <1>2, <1>3, UsedByOne DEF t
  <2>2. TypesUsedBy(Elems(messages)) \subseteq TypesUsedBy(Elems(messages'))
    BY <1>2, UsedByMore
  <2>3. Elems(enums') \subseteq TypesUsedBy(Elems(messages'))
    BY <1>2, <1>5, <2>1, <2>2 DEF NothingElse
  <2>4. ASSUME NEW S \in SUBSET Message, Elems(WalkRoots) \subseteq S, Closed(S)
        PROVE  Elems(messages') \subseteq S
    <3>1. Elems(messages) \subseteq S
      BY <1>5, <2>4 DEF NothingElse
    <3>2. t \in TypesUsedBy(S)
      BY <2>1, <3>1, UsedByMore
    <3>3. QED
      BY <1>2, <2>4, <3>1, <3>2 DEF Closed
  <2>5. QED
    BY <1>4, <2>3, <2>4 DEF NothingElse
<1>8. QED
  BY <1>1, <1>2, <1>4, <1>5, <1>6, <1>7 DEF WalkInv

LEMMA ReturnStep == TypeOK /\ Idle /\ WalkInv /\ Return => WalkInv'
<1> SUFFICES ASSUME TypeOK, Idle, WalkInv, Return PROVE WalkInv'
  OBVIOUS
<1>1. /\ stack # <<>> /\ ~MoreFields /\ walk # Nobody
      /\ schema' = schema /\ walk' = walk /\ roots' = roots
      /\ messages' = messages /\ enums' = enums
  BY DEF Return, Idle
<1>2. /\ Len(stack') = Len(stack) - 1 /\ Len(stack) \in Nat \ {0}
      /\ \A d \in 1..Len(stack') : stack'[d] = stack[d]
  BY ReturnFacts
<1>3. FieldsFollowed'
  <2>1. ASSUME NEW m \in Elems(messages), NEW k \in Indices(schema.fields[m])
        PROVE  (Found(FieldType(m, k)) \/ Pending(m, k))'
    <3>1. CASE Found(FieldType(m, k))
      BY <1>1, <3>1 DEF Found, FieldType
    <3>2. CASE Pending(m, k)
      <4>1. PICK d \in 1..Len(stack) : stack[d].msg = m /\ stack[d].next <= k
        BY <3>2 DEF Pending
      <4>2. d # Len(stack)
        <5>1. Top.next \in Nat /\ Top.msg \in Message /\ Len(schema.fields[Top.msg]) \in Nat
          BY <1>1, TopFacts, SchemaTypes
        <5>2. ~(Top.next <= Len(schema.fields[Top.msg]))
          BY <1>1 DEF MoreFields
        <5>3. d = Len(stack) => Top.msg = m /\ Top.next <= k
          BY <4>1 DEF Top
        <5>4. QED
          BY <5>1, <5>2, <5>3 DEF Indices
      <4>3. d \in 1..Len(stack') /\ stack'[d] = stack[d]
        BY <1>2, <4>2
      <4>4. QED
        BY <4>1, <4>3 DEF Pending
    <3>3. QED
      BY <1>1, <3>1, <3>2 DEF WalkInv, FieldsFollowed
  <2>2. QED
    BY <1>1, <2>1 DEF FieldsFollowed
<1>4. NothingElse'
  <2>1. NothingElse /\ WalkRoots' = WalkRoots
    BY <1>1 DEF WalkInv, WalkRoots, ServiceMessages
  <2>2. /\ \A S : Closed(S)' = Closed(S)
        /\ TypesUsedBy(Elems(messages))' = TypesUsedBy(Elems(messages))
    BY <1>1, SchemaSaysIt DEF TypesUsedBy, FieldType
  <2>3. QED
    BY <1>1, <2>1, <2>2 DEF NothingElse
<1>5. QED
  BY <1>1, <1>3, <1>4 DEF WalkInv, WalkRoots, ServiceMessages, NoneTwice

LEMMA NextWalk == TypeOK /\ Idle /\ WalkInv /\ [Next]_vars => WalkInv'
<1> SUFFICES ASSUME TypeOK, Idle, WalkInv, [Next]_vars PROVE WalkInv'
  OBVIOUS
<1>1. ASSUME NEW f \in File, GenerateFile(f) PROVE WalkInv'
  <2>1. Begin(f, schema.top[f]) /\ schema' = schema /\ walk' = f
    BY <1>1 DEF GenerateFile, Begin
  <2>2. WalkRoots' = schema.top[f]
    BY <2>1, SchemaTypes DEF WalkRoots
  <2>3. QED
    BY <2>1, <2>2, BeginWalk
<1>2. CASE GenerateService
  <2>1. Begin(Service, ServiceMessages) /\ schema' = schema /\ walk' = Service
    BY <1>2 DEF GenerateService, Begin
  <2>2. WalkRoots' = ServiceMessages
    BY <2>1 DEF WalkRoots, ServiceMessages
  <2>3. QED
    BY <2>1, <2>2, BeginWalk
<1>3. CASE NextRoot
  BY <1>3, RootStep
<1>4. CASE NextField
  BY <1>4, FieldStep
<1>5. CASE Return
  BY <1>5, ReturnStep
<1>6. CASE FileDone \/ ServiceDone
  BY <1>6 DEF FileDone, ServiceDone, WalkInv
<1>7. CASE AddType \/ AddService \/ Reject \/ ForeignServer \/ ListServices \/ List \/ Call
           \/ UNCHANGED vars
  <2>1. UNCHANGED <<schema, walkVars>>
    BY <1>7 DEF AddType, AddService, Reject, ForeignServer, ListServices, List, Call,
         CallRefused, CallUnloadable, CallStreaming, CallMade, CallOutcome, vars, walkVars
  <2>2. /\ WalkRoots' = WalkRoots
        /\ \A S : Closed(S)' = Closed(S)
        /\ TypesUsedBy(Elems(messages))' = TypesUsedBy(Elems(messages))
    BY <2>1, SchemaSaysIt DEF walkVars, WalkRoots, ServiceMessages, TypesUsedBy, FieldType
  <2>3. FieldsFollowed' = FieldsFollowed
    BY <2>1 DEF walkVars, FieldsFollowed, Found, Pending, FieldType
  <2>4. NothingElse' = NothingElse
    BY <2>1, <2>2 DEF walkVars, NothingElse
  <2>5. QED
    BY <2>1, <2>2, <2>3, <2>4 DEF walkVars, WalkInv, NoneTwice
<1>8. QED
  BY <1>1, <1>2, <1>3, <1>4, <1>5, <1>6, <1>7 DEF Next

-----------------------------------------------------------------------------
\* The calls of CollectMessageTypes that are under way are for messages that
\* have been added, each at a field the message has or just behind its last.
THEOREM TypeInvariance == Spec => []TypeOK
<1>1. Init => TypeOK /\ Idle
  BY InitType
<1>2. TypeOK /\ Idle /\ [Next]_vars => (TypeOK /\ Idle)'
  BY NextType
<1>3. QED
  BY <1>1, <1>2, PTL DEF Spec

\* A field that no call has followed yet is one that some call under way will
\* come to, and a type is added only if it can be reached from the roots.
THEOREM WalkInvariance == Spec => [](TypeOK /\ WalkInv)
<1>1. Init => TypeOK /\ Idle /\ WalkInv
  BY InitType DEF Init, WalkInv
<1>2. TypeOK /\ Idle /\ WalkInv /\ [Next]_vars => (TypeOK /\ Idle /\ WalkInv)'
  BY NextType, NextWalk
<1>3. QED
  BY <1>1, <1>2, PTL DEF Spec

\* A walk that has nothing left to visit has come to the end of every field.
LEMMA WalkEnd == TypeOK /\ WalkInv => WalkIsClosure
<1> SUFFICES ASSUME TypeOK, WalkInv, WalkDone PROVE WalkIsClosure
  BY DEF WalkIsClosure
<1> DEFINE found == Elems(messages)
<1>1. walk # Nobody /\ roots = <<>> /\ stack = <<>> /\ found \subseteq Message
      /\ Elems(enums) \subseteq Enum
  BY ElemsOf DEF WalkDone, TypeOK
<1>2. Elems(WalkRoots) \subseteq found /\ NothingElse /\ NoneTwice(messages) /\ NoneTwice(enums)
  BY <1>1 DEF WalkInv, Elems
<1>3. ASSUME NEW t \in TypesUsedBy(found) PROVE Found(t)
  <2>1. PICK m \in found : t \in {FieldType(m, k) : k \in Indices(schema.fields[m])}
    BY <1>3 DEF TypesUsedBy
  <2>2. PICK k \in Indices(schema.fields[m]) : t = FieldType(m, k)
    BY <2>1
  <2>3. ~Pending(m, k)
    BY <1>1, EmptySeq DEF Pending
  <2>4. QED
    BY <1>1, <2>2, <2>3 DEF WalkInv, FieldsFollowed
<1>4. Closed(found) /\ Elems(enums) = TypesUsedBy(found) \cap Enum
  BY <1>1, <1>2, <1>3 DEF Closed, Found, NothingElse
<1>5. QED
  BY <1>2, <1>4 DEF WalkIsClosure, NothingElse

\* When CollectMessageTypes has returned to the last of its roots, its results
\* are the messages that can be reached from them and the enums these use,
\* each once, for every set of files.
THEOREM WalkEndsInClosure == Spec => []WalkIsClosure
  BY WalkEnd, WalkInvariance, PTL

-----------------------------------------------------------------------------
(***************************************************************************)
(* From the walks to the two commands.                                     *)
(***************************************************************************)
\* Walks are made between the checks of EchoRoot and the service's table, the
\* one for the service last.
Order ==
    /\ walk # Nobody => phase = "walks"
    /\ walk = Service => todo = {}

\* What EchoRoot has accepted resolves to what it had accepted.
Resolved ==
    /\ \A i \in 1..declared : TypeResolves(schema.order[i])
    /\ phase \in {"walks", "broken", "serving"} =>
         /\ declared = Len(schema.order)
         /\ \A i \in Indices(schema.methods) : MethodResolves(schema.methods[i])

\* A generated file defines its own messages, and an object for each enum, as
\* far as its top-level messages lead to them.
FilesDefine ==
    /\ <<schema.file[Void], Void>> \in defined
    /\ \A f \in File \ todo : \A m \in ReachedFrom(Elems(schema.top[f])) :
         /\ m # Void /\ schema.file[m] = f => <<f, m>> \in defined
         /\ \A e \in TypesUsedBy({m}) \cap Enum : <<f, e>> \in defined

\* What is served is the result of the walk for the service.
Served ==
    phase = "serving" =>
      LET found == Elems(messages)
      IN  /\ table = TypesArray
          /\ Elems(ServiceMessages) \subseteq found /\ Closed(found)
          /\ found \subseteq Known \cup {Void}
          /\ Elems(enums) = TypesUsedBy(found) \cap Enum
          /\ NoneTwice(messages) /\ NoneTwice(enums)

\* What dispatch_list_services sends, what list makes of a reply and what call
\* does.
Description ==
    [types |-> [i \in Indices(table) |-> DescribedType(i)],
     methods |-> [j \in Indices(schema.methods) |-> DescribedMethod(schema.methods[j])]]

Printout ==
    [methods |-> [j \in Indices(reply.methods) |->
                    <<TypeName(reply.methods[j].request), TypeName(reply.methods[j].response)>>],
     types |-> {[name |-> reply.types[i].name, fields |-> PrintedFields(reply.types[i])] :
                  i \in PrintedTypes}]

Answer(j) ==
    LET mt == reply.methods[j]
    IN  \/ ~Describable(mt) /\ outcome = [result |-> "refused", method |-> j]
        \/ Describable(mt) /\ ~FileLoads /\ outcome = [result |-> "unloadable", method |-> j]
        \/ Describable(mt) /\ outcome = [result |-> "streaming", method |-> j]
        \/ /\ Describable(mt)
           /\ outcome = [result |-> "made", method |-> j, file |-> DynamicFile,
                         in |-> mt.request, out |-> mt.response,
                         sends |-> Sends(mt), expects |-> Expects(mt)]

\* A reply is the server's, or a foreign one, and the commands are about it.
Answered ==
    /\ reply = None => printed = None /\ outcome = None
    /\ reply # None => \/ phase = "serving" /\ reply = Description
                       \/ phase = "foreign" /\ reply \in ForeignReplies
    /\ printed # None => printed = Printout
    /\ outcome # None => \E j \in Indices(reply.methods) : Answer(j)

ServiceInv == Order /\ Resolved /\ FilesDefine /\ Served /\ Answered

-----------------------------------------------------------------------------
LEMMA ServiceInit == Init => ServiceInv
<1> SUFFICES ASSUME Init PROVE ServiceInv
  OBVIOUS
<1>1. phase = "objects" /\ declared = 0 /\ todo = File /\ walk = Nobody
  BY DEF Init
<1>2. Order
  BY <1>1, SchemaAssumption DEF Order
<1>3. Resolved
  BY <1>1 DEF Resolved
<1>4. FilesDefine
  BY <1>1 DEF FilesDefine, Init
<1>5. Served
  BY <1>1 DEF Served
<1>6. Answered
  BY DEF Init, Answered
<1>7. QED
  BY <1>2, <1>3, <1>4, <1>5, <1>6 DEF ServiceInv

\* Steps that are about the reply only; once there is a table to serve or a
\* foreign reply, there are no others.
CommandStep == ListServices \/ List \/ Call \/ UNCHANGED vars

LEMMA CommandsOnly ==
  /\ CommandStep => UNCHANGED <<schema, phase, declared, walkVars>>
  /\ TypeOK /\ Idle /\ Order /\ phase \in {"rejected", "broken", "serving", "foreign"} /\ [Next]_vars =>
       CommandStep
<1>1. CommandStep => UNCHANGED <<schema, phase, declared, walkVars>>
  BY DEF CommandStep, ListServices, List, Call, CallRefused, CallUnloadable, CallStreaming, CallMade, CallOutcome,
         vars, walkVars
<1>2. ASSUME TypeOK, Idle, Order, phase \in {"rejected", "broken", "serving", "foreign"}, [Next]_vars
      PROVE  CommandStep
  <2>1. walk = Nobody /\ roots = <<>> /\ stack = <<>> /\ phase \notin {"objects", "walks"}
    BY <1>2 DEF Order, Idle
  <2>2. ~(AddType \/ AddService \/ Reject \/ ForeignServer \/ GenerateService)
        /\ \A f \in File : ~GenerateFile(f)
    BY <2>1 DEF AddType, AddService, Reject, ForeignServer, GenerateService, GenerateFile
  <2>3. ~(NextRoot \/ NextField \/ Return \/ FileDone \/ ServiceDone)
    BY <2>1 DEF NextRoot, NextField, Return, FileDone, ServiceDone, WalkDone
  <2>4. QED
    BY <1>2, <2>2, <2>3 DEF Next, CommandStep
<1>3. QED
  BY <1>1, <1>2

LEMMA NextOrder == TypeOK /\ Idle /\ Order /\ [Next]_vars => Order'
<1> SUFFICES ASSUME TypeOK, Idle, Order, [Next]_vars PROVE Order'
  OBVIOUS
<1>1. CASE AddType \/ AddService \/ Reject \/ ForeignServer
  BY <1>1 DEF AddType, AddService, Reject, ForeignServer, Order, walkVars
<1>2. ASSUME NEW f \in File, GenerateFile(f) PROVE Order'
  <2>1. f # Service
    BY SchemaTypes
  <2>2. QED
    BY <1>2, <2>1 DEF GenerateFile, Begin, Order
<1>3. CASE GenerateService
  BY <1>3 DEF GenerateService, Begin, Order
<1>4. CASE NextRoot \/ NextField \/ Return
  BY <1>4 DEF NextRoot, NextField, Return, Order
<1>5. CASE FileDone \/ ServiceDone
  <2>1. walk' = Nobody /\ Service # Nobody
    BY <1>5, SchemaTypes DEF FileDone, ServiceDone
  <2>2. QED
    BY <2>1 DEF Order
<1>6. CASE CommandStep
  BY <1>6, CommandsOnly DEF Order, walkVars
<1>7. QED
  BY <1>1, <1>2, <1>3, <1>4, <1>5, <1>6 DEF Next, CommandStep

\* A type that was resolved stays resolved: types are only added.
LEMMA NextResolved == TypeOK /\ Idle /\ Order /\ Resolved /\ [Next]_vars => Resolved'
<1> SUFFICES ASSUME TypeOK, Idle, Order, Resolved, [Next]_vars PROVE Resolved'
  OBVIOUS
<1>1. declared \in Nat
  BY DEF TypeOK
<1>2. CASE AddType
  <2>1. /\ declared' = declared + 1 /\ schema' = schema /\ phase' = phase /\ phase = "objects"
        /\ TypeResolves(schema.order[declared + 1])
    BY <1>2 DEF AddType
  <2>2. Known \subseteq Known'
    BY <1>1, <2>1 DEF Known
  <2>3. ASSUME NEW t, TypeResolves(t) PROVE TypeResolves(t)'
    BY <2>1, <2>2, <2>3 DEF TypeResolves, FieldResolves
  <2>4. \A i \in 1..declared' : i \in 1..declared \/ i = declared + 1
    BY <1>1, <2>1
  <2>5. QED
    BY <2>1, <2>3, <2>4 DEF Resolved
<1>3. CASE ~AddType
  <2>1. schema' = schema /\ declared' = declared
    BY <1>3 DEF Next, vars, AddService, Reject, ForeignServer, GenerateFile, GenerateService, Begin,
           NextRoot, NextField, Return, FileDone, ServiceDone, ListServices, List, Call,
           CallRefused, CallUnloadable, CallStreaming, CallMade, CallOutcome
  <2>2. /\ \A t : TypeResolves(t)' = TypeResolves(t)
        /\ \A mt : MethodResolves(mt)' = MethodResolves(mt)
    BY <2>1 DEF TypeResolves, FieldResolves, MethodResolves, Known
  <2>3. CASE AddService
    BY <2>1, <2>2, <2>3 DEF AddService, Resolved
  <2>4. CASE ~AddService
    <3>1. phase' \in {"walks", "broken", "serving"} => phase \in {"walks", "broken", "serving"}
      BY <1>3, <2>4 DEF Order, Next, vars, Reject, ForeignServer, GenerateFile, GenerateService, Begin,
             NextRoot, NextField, Return, FileDone, ServiceDone, WalkDone, ListServices, List, Call,
             CallRefused, CallUnloadable, CallStreaming, CallMade, CallOutcome
    <3>2. QED
      BY <2>1, <2>2, <3>1 DEF Resolved
  <2>5. QED
    BY <2>3, <2>4
<1>4. QED
  BY <1>2, <1>3

\* The schema decides what can be reached.
LEMMA SchemaDecides ==
  ASSUME schema' = schema
  PROVE  /\ \A S : TypesUsedBy(S)' = TypesUsedBy(S)
         /\ \A S : Closed(S)' = Closed(S)
         /\ \A T : ReachedFrom(T)' = ReachedFrom(T)
<1>1. \A S : TypesUsedBy(S)' = TypesUsedBy(S)
  BY DEF TypesUsedBy, FieldType
<1>2. \A S : Closed(S)' = Closed(S)
  BY <1>1 DEF Closed
<1>3. QED
  BY <1>1, <1>2 DEF ReachedFrom

\* The file whose walk has ended defines what the walk has found.
LEMMA FileDefines ==
  TypeOK /\ WalkInv /\ FilesDefine /\ FileDone => FilesDefine'
<1> SUFFICES ASSUME TypeOK, WalkInv, FilesDefine, FileDone PROVE FilesDefine'
  OBVIOUS
<1>1. /\ schema' = schema /\ todo' = todo \ {walk}
      /\ defined' = defined \cup {<<walk, e>> : e \in Elems(enums)}
           \cup {<<walk, m>> : m \in {x \in Elems(messages) : x # Void /\ schema.file[x] = walk}}
  BY DEF FileDone
<1>2. /\ WalkDone /\ walk # Service /\ WalkRoots = schema.top[walk]
  BY DEF FileDone, WalkRoots
<1>3. /\ Elems(WalkRoots) \subseteq Elems(messages) /\ Closed(Elems(messages))
      /\ Elems(enums) = TypesUsedBy(Elems(messages)) \cap Enum
      /\ Elems(messages) \subseteq Message
  BY <1>2, WalkEnd, ElemsOf DEF WalkIsClosure, TypeOK
<1>4. ReachedFrom(Elems(schema.top[walk])) \subseteq Elems(messages)
  BY <1>2, <1>3 DEF ReachedFrom
<1>5. ASSUME NEW f \in File \ todo', NEW m \in ReachedFrom(Elems(schema.top[f]))
      PROVE  /\ m # Void /\ schema.file[m] = f => <<f, m>> \in defined'
             /\ \A e \in TypesUsedBy({m}) \cap Enum : <<f, e>> \in defined'
  <2>1. CASE f = walk
    <3>1. m \in Elems(messages)
      BY <1>4, <2>1, <1>5
    <3>2. TypesUsedBy({m}) \subseteq TypesUsedBy(Elems(messages))
      BY <3>1, UsedByMore
    <3>3. QED
      BY <1>1, <1>3, <2>1, <3>1, <3>2
  <2>2. CASE f # walk
    BY <1>1, <1>5, <2>2 DEF FilesDefine
  <2>3. QED
    BY <2>1, <2>2
<1>6. QED
  BY <1>1, <1>5, SchemaDecides DEF FilesDefine

LEMMA NextFilesDefine ==
  TypeOK /\ WalkInv /\ FilesDefine /\ [Next]_vars => FilesDefine'
<1> SUFFICES ASSUME TypeOK, WalkInv, FilesDefine, [Next]_vars PROVE FilesDefine'
  OBVIOUS
<1>1. CASE FileDone
  BY <1>1, FileDefines
<1>2. CASE ~FileDone
  <2>1. schema' = schema /\ todo' = todo /\ defined' = defined
    BY <1>2 DEF Next, vars, walkVars, AddType, AddService, Reject, ForeignServer, GenerateFile,
           GenerateService, Begin, NextRoot, NextField, Return, ServiceDone, ListServices, List, Call,
           CallRefused, CallUnloadable, CallStreaming, CallMade, CallOutcome
  <2>2. QED
    BY <2>1, SchemaDecides DEF FilesDefine
<1>3. QED
  BY <1>1, <1>2

\* What the methods name, and what that leads to, had been accepted.
LEMMA OnlyKnown ==
  ASSUME TypeOK, Order, Resolved, WalkIsClosure, WalkDone, walk = Service
  PROVE  Elems(messages) \subseteq Known \cup {Void}
<1> DEFINE S == Message \cap (Known \cup {Void})
<1>1. /\ schema.order \in Seq((Message \cup Enum) \ {Void})
      /\ schema.methods \in Seq([in : Message, out : Message, streams : BOOLEAN])
      /\ schema.fields[Void] = <<>> /\ Void \in Message
  BY SchemaAssumption DEF TypeOK
<1>2. /\ declared = Len(schema.order) /\ phase = "walks"
      /\ \A i \in Indices(schema.methods) : MethodResolves(schema.methods[i])
      /\ \A i \in 1..declared : TypeResolves(schema.order[i])
  BY SchemaTypes DEF WalkDone, Order, Resolved
<1>3. Elems(WalkRoots) \subseteq S
  <2>1. WalkRoots = ServiceMessages
    BY DEF WalkRoots
  <2>2. ASSUME NEW x \in Elems(ServiceMessages) PROVE x \in S
    <3> DEFINE n == Len(schema.methods)
    <3>1. n \in Nat
      BY <1>1, LenProperties
    <3>2. PICK j \in 1..(2 * n) : x = ServiceMessages[j]
      BY <2>2 DEF Elems, ServiceMessages
    <3>3. (j + 1) \div 2 \in 1..n
      BY <3>1, <3>2
    <3>4. x \in {schema.methods[(j + 1) \div 2].in, schema.methods[(j + 1) \div 2].out}
      BY <3>2 DEF ServiceMessages
    <3>5. schema.methods[(j + 1) \div 2] \in [in : Message, out : Message, streams : BOOLEAN]
      BY <1>1, <3>3, ElementOfSeq
    <3>6. x \in Known \cup {Void}
      BY <1>2, <3>3, <3>4 DEF Indices, MethodResolves
    <3>7. QED
      BY <3>4, <3>5, <3>6
  <2>3. QED
    BY <2>1, <2>2
<1>4. Closed(S)
  <2>1. ASSUME NEW m \in S, NEW k \in Indices(schema.fields[m]), FieldType(m, k) \in Message
        PROVE  FieldType(m, k) \in S
    <3>1. m # Void
      <4>1. Indices(<<>>) = {}
        BY DEF Indices
      <4>2. QED
        BY <1>1, <2>1, <4>1
    <3>2. PICK i \in 1..declared : m = schema.order[i]
      BY <2>1, <3>1 DEF Known
    <3>3. FieldResolves(schema.fields[m][k])
      BY <1>2, <2>1, <3>2 DEF TypeResolves
    <3>4. FieldType(m, k) # Scalar
      BY <2>1, SchemaAssumption
    <3>5. QED
      BY <2>1, <3>3, <3>4 DEF FieldResolves, FieldType
  <2>2. QED
    BY <2>1 DEF Closed, TypesUsedBy
<1>5. Elems(messages) \subseteq S
  BY <1>3, <1>4 DEF WalkIsClosure
<1>6. QED
  BY <1>5

LEMMA NextServed ==
  TypeOK /\ Idle /\ WalkInv /\ Order /\ Resolved /\ Served /\ [Next]_vars => Served'
<1> SUFFICES ASSUME TypeOK, Idle, WalkInv, Order, Resolved, Served, [Next]_vars, phase' = "serving"
             PROVE  Served'
  BY DEF Served
<1>1. CASE ServiceDone
  <2>1. /\ WalkDone /\ walk = Service /\ table' = TypesArray /\ messages' = messages /\ enums' = enums
        /\ schema' = schema /\ declared' = declared
    BY <1>1 DEF ServiceDone
  <2>2. WalkIsClosure /\ Elems(messages) \subseteq Known \cup {Void} /\ WalkRoots = ServiceMessages
    BY <2>1, WalkEnd, OnlyKnown DEF WalkRoots
  <2>3. TypesArray' = TypesArray /\ ServiceMessages' = ServiceMessages /\ Known' = Known
    BY <2>1 DEF TypesArray, MessagePointer, EnumPointer, ServiceMessages, Known
  <2>4. QED
    BY <2>1, <2>2, <2>3, SchemaDecides DEF Served, WalkIsClosure, NoneTwice
<1>2. CASE ~ServiceDone
  <2>1. phase = "serving"
    BY <1>2 DEF Next, vars, AddType, AddService, Reject, ForeignServer, GenerateFile,
           GenerateService, Begin, NextRoot, NextField, Return, FileDone, ListServices, List, Call,
           CallRefused, CallUnloadable, CallStreaming, CallMade, CallOutcome
  <2>2. schema' = schema /\ declared' = declared /\ table' = table /\ messages' = messages /\ enums' = enums
    BY <2>1, CommandsOnly DEF walkVars
  <2>3. TypesArray' = TypesArray /\ ServiceMessages' = ServiceMessages /\ Known' = Known
    BY <2>2 DEF TypesArray, MessagePointer, EnumPointer, ServiceMessages, Known
  <2>4. QED
    BY <2>1, <2>2, <2>3, SchemaDecides DEF Served, NoneTwice
<1>3. QED
  BY <1>1, <1>2

\* The reply decides what the commands make of it.
LEMMA ReplyDecides ==
  ASSUME reply' = reply
  PROVE  /\ Printout' = Printout
         /\ \A mt : Describable(mt)' = Describable(mt)
         /\ DynamicFile' = DynamicFile /\ FileLoads' = FileLoads
         /\ \A mt : Sends(mt)' = Sends(mt) /\ Expects(mt)' = Expects(mt)
<1>1. \A id : TypesById(id)' = TypesById(id)
  BY DEF TypesById
<1>2. \A id : TypeName(id)' = TypeName(id)
  BY DEF TypeName, TypesById
<1>3. \A f : FieldTypeName(f)' = FieldTypeName(f)
  BY <1>2 DEF FieldTypeName
<1>4. \A t : PrintedFields(t)' = PrintedFields(t)
  BY <1>3 DEF PrintedFields
<1>5. PrintedTypes' = PrintedTypes
  BY DEF PrintedTypes
<1>6. Printout' = Printout
  BY <1>2, <1>4, <1>5 DEF Printout
<1>7. \A id, kind : HasKind(id, kind)' = HasKind(id, kind)
  BY <1>1 DEF HasKind
<1>8. \A f : FieldIsUsable(f)' = FieldIsUsable(f)
  BY <1>7 DEF FieldIsUsable
<1>9. TypesAreUsable' = TypesAreUsable /\ \A mt : FullDiscovery(mt)' = FullDiscovery(mt)
  BY <1>1 DEF TypesAreUsable, FullDiscovery
<1>10. \A mt : Describable(mt)' = Describable(mt)
  BY <1>7, <1>8, <1>9 DEF Describable
<1>11. DynamicFile' = DynamicFile
  BY <1>1 DEF DynamicFile
<1>11a. FileLoads' = FileLoads
  BY DEF FileLoads
<1>12. \A mt : Sends(mt)' = Sends(mt) /\ Expects(mt)' = Expects(mt)
  BY <1>2 DEF Sends, Expects
<1>13. QED
  BY <1>6, <1>10, <1>11, <1>11a, <1>12

\* While the schema and the table stay, the description does.
LEMMA TableDecides ==
  ASSUME schema' = schema, table' = table
  PROVE  Description' = Description
<1>1. \A p : TypeId(p)' = TypeId(p)
  BY DEF TypeId
<1>2. \A m, k : FieldPointer(m, k)' = FieldPointer(m, k) /\ FieldType(m, k)' = FieldType(m, k)
  BY DEF FieldPointer, FieldType, EnumPointer, MessagePointer
<1>3. \A m, k : DescribedField(m, k)' = DescribedField(m, k)
  BY <1>1, <1>2 DEF DescribedField
<1>4. \A i : DescribedType(i)' = DescribedType(i)
  BY <1>3 DEF DescribedType
<1>5. \A mt : DescribedMethod(mt)' = DescribedMethod(mt)
  BY <1>1 DEF DescribedMethod, MessagePointer
<1>6. QED
  BY <1>4, <1>5 DEF Description

LEMMA NextAnswered == TypeOK /\ Idle /\ Order /\ Answered /\ [Next]_vars => Answered'
<1> SUFFICES ASSUME TypeOK, Idle, Order, Answered, [Next]_vars PROVE Answered'
  OBVIOUS
<1>1. CASE ListServices
  <2>1. /\ phase = "serving" /\ reply = None /\ reply' = Description
        /\ phase' = phase /\ printed' = printed /\ outcome' = outcome
    BY <1>1 DEF ListServices, Description
  <2>2. Description' = Description
    BY <1>1, CommandsOnly, TableDecides DEF CommandStep, walkVars
  <2>3. QED
    BY <2>1, <2>2 DEF Answered
<1>2. CASE ForeignServer
  BY <1>2 DEF ForeignServer, Answered
<1>3. CASE List
  <2>1. /\ reply' = reply /\ reply # None /\ printed' = Printout /\ outcome' = outcome
    BY <1>3 DEF List, Printout
  <2>2. Description' = Description /\ phase' = phase
    BY <1>3, CommandsOnly, TableDecides DEF CommandStep, walkVars
  <2>3. \A j : Answer(j)' = Answer(j)
    BY <2>1, ReplyDecides DEF Answer
  <2>4. QED
    BY <2>1, <2>2, <2>3, ReplyDecides DEF Answered
<1>4. CASE Call
  <2>1. PICK j \in Indices(reply.methods) :
          CallRefused(j) \/ CallUnloadable(j) \/ CallStreaming(j) \/ CallMade(j)
    BY <1>4 DEF Call
  <2>2. reply # None /\ reply' = reply /\ printed' = printed
    BY <2>1 DEF CallRefused, CallUnloadable, CallStreaming, CallMade, CallOutcome
  <2>3. Description' = Description /\ phase' = phase
    BY <1>4, CommandsOnly, TableDecides DEF CommandStep, walkVars
  <2>4. Answer(j)'
    BY <2>1, <2>2, ReplyDecides DEF CallRefused, CallUnloadable, CallStreaming, CallMade, CallOutcome, Answer
  <2>5. QED
    BY <2>1, <2>2, <2>3, <2>4, ReplyDecides DEF Answered
<1>5. CASE ~(ListServices \/ ForeignServer \/ List \/ Call)
  <2>1. reply' = reply /\ printed' = printed /\ outcome' = outcome
    BY <1>5 DEF Next, vars, clientVars, AddType, AddService, Reject, GenerateFile, GenerateService,
           Begin, NextRoot, NextField, Return, FileDone, ServiceDone
  <2>2. CASE phase \in {"serving", "foreign"}
    <3>1. UNCHANGED vars
      BY <1>5, <2>2, CommandsOnly DEF CommandStep
    <3>2. schema' = schema /\ table' = table /\ phase' = phase
      BY <3>1 DEF vars
    <3>3. \A j : Answer(j)' = Answer(j)
      BY <2>1, ReplyDecides DEF Answer
    <3>4. QED
      BY <2>1, <3>2, <3>3, ReplyDecides, TableDecides DEF Answered
  <2>3. CASE phase \notin {"serving", "foreign"}
    BY <2>1, <2>3 DEF Answered
  <2>4. QED
    BY <2>2, <2>3
<1>6. QED
  BY <1>1, <1>2, <1>3, <1>4, <1>5

\* The inductive invariant of the way from the .proto files to the commands.
THEOREM ServiceInvariance == Spec => [](TypeOK /\ WalkInv /\ ServiceInv)
<1> DEFINE Inv == TypeOK /\ Idle /\ WalkInv /\ ServiceInv
<1>1. Init => Inv
  BY InitType, ServiceInit DEF Init, WalkInv
<1>2. Inv /\ [Next]_vars => Inv'
  BY NextType, NextWalk, NextOrder, NextResolved, NextFilesDefine, NextServed, NextAnswered
     DEF ServiceInv
<1>3. QED
  BY <1>1, <1>2, PTL DEF Spec

-----------------------------------------------------------------------------
\* The length of a function written over 1..n.
LEMMA LenOf ==
  ASSUME NEW n \in Nat, NEW f, f = [i \in 1..n |-> f[i]]
  PROVE  Len(f) = n /\ Indices(f) = 1..n
<1> DEFINE T == {f[i] : i \in 1..n}
<1>1. \A i \in 1..n : f[i] \in T
  OBVIOUS
<1> HIDE DEF T
<1>2. [i \in 1..n |-> f[i]] \in Seq(T)
  BY <1>1, IsASeq
<1>3. Len(f) \in Nat /\ DOMAIN f = 1..Len(f) /\ DOMAIN f = 1..n
  BY <1>2, LenProperties
<1>4. QED
  BY <1>3 DEF Indices

LEMMA IndexOf ==
  ASSUME NEW T, NEW s \in Seq(T)
  PROVE  /\ \A i \in 1..Len(s) : NoneTwice(s) => IndexIn(s, s[i]) = i
         /\ \A x : x \notin Elems(s) => IndexIn(s, x) = 0
         /\ \A x \in Elems(s) : NoneTwice(s) => IndexIn(s, x) \in 1..Len(s) /\ s[IndexIn(s, x)] = x
<1>1. Len(s) \in Nat /\ DOMAIN s = 1..Len(s)
  BY LenProperties
<1>2. ASSUME NEW i \in 1..Len(s), NoneTwice(s) PROVE IndexIn(s, s[i]) = i
  <2> DEFINE First(k) == k \in DOMAIN s /\ s[k] = s[i] /\ \A j \in 1..(k - 1) : s[j] # s[i]
  <2>1. i \in Nat
    BY <1>1
  <2>2. \A j \in 1..(i - 1) : j \in 1..Len(s) /\ j # i
    BY <1>1, <2>1
  <2>3. First(i)
    BY <1>1, <1>2, <2>2 DEF NoneTwice
  <2>4. \A k \in DOMAIN s : First(k) => k = i
    BY <1>1, <1>2 DEF NoneTwice
  <2>5. s[i] \in Elems(s)
    BY <1>1 DEF Elems
  <2>6. QED
    BY <1>1, <2>3, <2>4, <2>5 DEF IndexIn
<1>3. \A x : x \notin Elems(s) => IndexIn(s, x) = 0
  BY DEF IndexIn
<1>4. QED
  BY <1>1, <1>2, <1>3 DEF Elems

\* Where the types of the service are in its table, and the ids of pointers.
LEMMA TableFacts ==
  ASSUME TypeOK, Served, phase = "serving"
  PROVE  /\ Len(messages) \in Nat /\ Len(table) \in Nat /\ Len(messages) <= Len(table)
         /\ \A i \in 1..Len(table) :
              table[i][2] \in Elems(messages) \cup Elems(enums) /\ Position(table[i][2]) = i
         /\ \A m \in Elems(messages) :
              /\ Position(m) \in 1..Len(table) /\ table[Position(m)][2] = m
              /\ TypeId(MessagePointer(m)) = Position(m)
         /\ \A e \in Elems(enums) :
              /\ Position(e) \in 1..Len(table) /\ table[Position(e)][2] = e
              /\ TypeId(EnumPointer(schema.home, e)) = Position(e)
         /\ \A f : f # schema.home => \A e \in Enum : TypeId(EnumPointer(f, e)) = 0
<1> DEFINE P == File \X (Message \cup Enum)
           ms == [i \in 1..Len(messages) |-> MessagePointer(messages[i])]
           es == [i \in 1..Len(enums) |-> EnumPointer(schema.home, enums[i])]
           a == Len(messages)
           b == Len(enums)
<1>1. /\ messages \in Seq(Message) /\ enums \in Seq(Enum) /\ table \in Seq(P)
      /\ a \in Nat /\ b \in Nat /\ table = TypesArray
      /\ NoneTwice(messages) /\ NoneTwice(enums) /\ Message \cap Enum = {}
      /\ Elems(messages) \subseteq Message /\ Elems(enums) \subseteq Enum
  BY LenProperties, ElemsOf, SchemaTypes DEF TypeOK, Served
<1>2. /\ DOMAIN messages = 1..a /\ DOMAIN enums = 1..b
      /\ \A i \in 1..a : messages[i] \in Message /\ messages[i] \in Elems(messages)
      /\ \A i \in 1..b : enums[i] \in Enum /\ enums[i] \in Elems(enums)
  BY <1>1, ElementOfSeq, LenProperties DEF Elems
<1>3. /\ Len(table) = a + b
      /\ \A i \in 1..a : table[i] = MessagePointer(messages[i])
      /\ \A i \in 1..b : table[a + i] = EnumPointer(schema.home, enums[i])
  <2>1. /\ \A i \in 1..a : MessagePointer(messages[i]) \in P
        /\ \A i \in 1..b : EnumPointer(schema.home, enums[i]) \in P
    BY <1>2, SchemaTypes DEF MessagePointer, EnumPointer
  <2> HIDE DEF P
  <2>2. ms \in Seq(P)
    BY <1>1, <2>1, IsASeq
  <2>3. es \in Seq(P)
    BY <1>1, <2>1, IsASeq
  <2>4. /\ table = ms \o es
        /\ \A i \in 1..a : ms[i] = MessagePointer(messages[i])
        /\ \A i \in 1..b : es[i] = EnumPointer(schema.home, enums[i])
    BY <1>1 DEF TypesArray
  <2>5. Len(ms) = a /\ Len(es) = b
    BY <1>1, LenOf
  <2> HIDE DEF ms, es, a, b
  <2>6. /\ Len(table) = a + b
        /\ \A i \in 1..(a + b) : table[i] = IF i <= a THEN ms[i] ELSE es[i - a]
    BY <2>2, <2>3, <2>4, <2>5, ConcatProperties
  <2>7. \A i \in 1..a : i \in 1..(a + b) /\ i <= a
    BY <1>1
  <2>8. \A i \in 1..b : a + i \in 1..(a + b) /\ ~(a + i <= a) /\ (a + i) - a = i
    BY <1>1
  <2>9. QED
    BY <2>4, <2>6, <2>7, <2>8
<1>4. /\ \A i \in 1..a : i \in 1..(a + b) /\ a + b \in Nat
      /\ \A i \in 1..b : a + i \in 1..(a + b)
      /\ \A i \in 1..(a + b) : i \in 1..a \/ (i - a \in 1..b /\ i = a + (i - a))
  BY <1>1
<1>p. /\ \A x, y : MessagePointer(x) = MessagePointer(y) => x = y
      /\ \A x, y : EnumPointer(schema.home, x) = EnumPointer(schema.home, y) => x = y
      /\ \A x \in Message, y \in Enum : MessagePointer(x) # EnumPointer(schema.home, y)
      /\ \A x : MessagePointer(x)[2] = x /\ EnumPointer(schema.home, x)[2] = x
  BY <1>1 DEF MessagePointer, EnumPointer
<1> HIDE DEF P, ms, es
<1>5. NoneTwice(table)
  <2>1. ASSUME NEW i \in 1..(a + b), NEW j \in 1..(a + b), table[i] = table[j] PROVE i = j
    <3>1. CASE i \in 1..a /\ j \in 1..a
      <4>1. messages[i] = messages[j]
        BY <1>3, <1>p, <2>1, <3>1
      <4>2. QED
        BY <1>2, <1>1, <3>1, <4>1 DEF NoneTwice
    <3>2. CASE i - a \in 1..b /\ j - a \in 1..b
      <4>1. enums[i - a] = enums[j - a]
        <5>1. i = a + (i - a) /\ j = a + (j - a)
          BY <1>1, <2>1
        <5>2. QED
          BY <1>3, <1>p, <2>1, <3>2, <5>1
      <4>2. i - a = j - a
        BY <1>1, <1>2, <3>2, <4>1 DEF NoneTwice
      <4>3. QED
        BY <1>1, <1>4, <2>1, <4>2
    <3>3. CASE i \in 1..a /\ j - a \in 1..b
      <4>1. j = a + (j - a)
        BY <1>1, <2>1
      <4>2. QED
        <5>1. table[i] = MessagePointer(messages[i]) /\ messages[i] \in Message
          BY <1>2, <1>3, <3>3
        <5>2. table[j] = EnumPointer(schema.home, enums[j - a]) /\ enums[j - a] \in Enum
          BY <1>2, <1>3, <3>3, <4>1
        <5>3. QED
          BY <1>p, <2>1, <5>1, <5>2
    <3>4. CASE i - a \in 1..b /\ j \in 1..a
      <4>1. i = a + (i - a)
        BY <1>1, <2>1
      <4>2. QED
        <5>1. table[j] = MessagePointer(messages[j]) /\ messages[j] \in Message
          BY <1>2, <1>3, <3>4
        <5>2. table[i] = EnumPointer(schema.home, enums[i - a]) /\ enums[i - a] \in Enum
          BY <1>2, <1>3, <3>4, <4>1
        <5>3. QED
          BY <1>p, <2>1, <5>1, <5>2
    <3>5. QED
      BY <1>4, <2>1, <3>1, <3>2, <3>3, <3>4
  <2>2. DOMAIN table = 1..(a + b)
    BY <1>1, <1>3, LenProperties
  <2>3. QED
    BY <2>1, <2>2 DEF NoneTwice
<1>6. ASSUME NEW i \in 1..a
      PROVE  table[i][2] = messages[i] /\ Position(messages[i]) = i /\ TypeId(MessagePointer(messages[i])) = i
  <2>1. table[i] = MessagePointer(messages[i]) /\ i \in 1..Len(table)
        /\ messages[i] \in Message /\ messages[i] \notin Enum
    BY <1>1, <1>2, <1>3, <1>4
  <2>2. IndexIn(messages, messages[i]) = i /\ IndexIn(table, table[i]) = i
    BY <1>1, <1>5, <2>1, IndexOf
  <2>3. Position(messages[i]) = i
    BY <2>1, <2>2 DEF Position
  <2>4. TypeId(MessagePointer(messages[i])) = i
    BY <2>1, <2>2 DEF TypeId
  <2>5. QED
    BY <1>p, <2>1, <2>3, <2>4
<1>7. ASSUME NEW i \in 1..b
      PROVE  /\ table[a + i][2] = enums[i] /\ Position(enums[i]) = a + i
             /\ TypeId(EnumPointer(schema.home, enums[i])) = a + i
  <2>1. /\ table[a + i] = EnumPointer(schema.home, enums[i]) /\ a + i \in 1..Len(table)
        /\ enums[i] \in Enum /\ enums[i] \notin Message
    BY <1>1, <1>2, <1>3, <1>4
  <2>2. IndexIn(enums, enums[i]) = i /\ IndexIn(table, table[a + i]) = a + i
    BY <1>1, <1>5, <2>1, IndexOf
  <2>3. QED
    BY <1>p, <2>1, <2>2 DEF Position, TypeId
<1>8. ASSUME NEW f, f # schema.home, NEW e \in Enum PROVE TypeId(EnumPointer(f, e)) = 0
  <2>0. ASSUME NEW i \in 1..(a + b) PROVE table[i] # <<f, e>>
    <3>1. CASE i \in 1..a
      <4>1. table[i][2] \in Message
        BY <1>2, <1>3, <1>p, <3>1
      <4>2. QED
        BY <1>1, <4>1
    <3>2. CASE i - a \in 1..b /\ i = a + (i - a)
      <4>0. table[a + (i - a)] = EnumPointer(schema.home, enums[i - a])
        BY <1>3, <3>2
      <4>1. table[i][1] = schema.home
        BY <3>2, <4>0 DEF EnumPointer
      <4>2. QED
        BY <1>8, <4>1
    <3>3. QED
      BY <1>4, <3>1, <3>2
  <2>1. \A i \in 1..(a + b) : table[i] # <<f, e>>
    BY <2>0
  <2>2. <<f, e>> \notin Elems(table)
    BY <1>1, <1>3, <2>1, LenProperties DEF Elems
  <2>3. QED
    BY <1>1, <2>2, IndexOf DEF TypeId, EnumPointer
<1>9. ASSUME NEW i \in 1..Len(table)
      PROVE  table[i][2] \in Elems(messages) \cup Elems(enums) /\ Position(table[i][2]) = i
  <2>1. CASE i \in 1..a
    BY <1>2, <1>6, <2>1
  <2>2. CASE i - a \in 1..b /\ i = a + (i - a)
    BY <1>2, <1>7, <2>2
  <2>3. QED
    BY <1>3, <1>4, <1>9, <2>1, <2>2
<1>10. ASSUME NEW x \in Elems(messages)
       PROVE  /\ Position(x) \in 1..Len(table) /\ table[Position(x)][2] = x
              /\ TypeId(MessagePointer(x)) = Position(x)
  <2>1. PICK i \in 1..a : x = messages[i]
    BY <1>2, <1>10 DEF Elems
  <2>2. QED
    BY <1>3, <1>4, <1>6, <2>1
<1>11. ASSUME NEW x \in Elems(enums)
       PROVE  /\ Position(x) \in 1..Len(table) /\ table[Position(x)][2] = x
              /\ TypeId(EnumPointer(schema.home, x)) = Position(x)
  <2>1. PICK i \in 1..b : x = enums[i]
    BY <1>2, <1>11 DEF Elems
  <2>2. QED
    BY <1>3, <1>4, <1>7, <2>1
<1>12. QED
  BY <1>1, <1>3, <1>8, <1>9, <1>10, <1>11

\* The description of a field, by the type it was declared with.
LEMMA FieldFacts ==
  ASSUME TypeOK, Served, phase = "serving",
         NEW m \in Elems(messages), NEW k \in Indices(schema.fields[m])
  PROVE  LET t == FieldType(m, k)
             f == DescribedField(m, k)
         IN  /\ t \in Message => t \in Elems(messages) /\ f.kind = "message" /\ f.typeId = Position(t)
             /\ t \in Enum => /\ t \in Elems(enums) /\ f.kind = "enum"
                              /\ f.typeId = IF schema.file[m] = schema.home THEN Position(t) ELSE 0
             /\ t \notin Message \cup Enum => f.kind = "scalar" /\ f.typeId = 0 /\ Position(t) = 0
<1> DEFINE t == FieldType(m, k)
           f == DescribedField(m, k)
<1>1. m \in Message /\ Message \cap Enum = {}
  BY ElemsOf, SchemaTypes DEF TypeOK
<1>2. t \in TypesUsedBy(Elems(messages))
  BY UsedByOne, <1>1, ElemsOf DEF TypeOK
<1>3. /\ f.kind = KindOf(t)
      /\ f.typeId = IF KindOf(t) = "scalar" THEN 0 ELSE TypeId(FieldPointer(m, k))
  BY DEF DescribedField
<1>4. ASSUME t \in Message
      PROVE  t \in Elems(messages) /\ f.kind = "message" /\ f.typeId = Position(t)
  <2>1. KindOf(t) = "message" /\ FieldPointer(m, k) = MessagePointer(t)
    BY <1>1, <1>4 DEF KindOf, FieldPointer
  <2>2. t \in Elems(messages)
    BY <1>2, <1>4 DEF Served, Closed
  <2>3. QED
    BY <1>3, <2>1, <2>2, TableFacts
<1>5. ASSUME t \in Enum
      PROVE  /\ t \in Elems(enums) /\ f.kind = "enum"
             /\ f.typeId = IF schema.file[m] = schema.home THEN Position(t) ELSE 0
  <2>1. KindOf(t) = "enum" /\ FieldPointer(m, k) = EnumPointer(schema.file[m], t)
    BY <1>1, <1>5 DEF KindOf, FieldPointer
  <2>2. t \in Elems(enums)
    BY <1>2, <1>5 DEF Served
  <2>3. QED
    BY <1>3, <1>5, <2>1, <2>2, TableFacts
<1>6. ASSUME t \notin Message \cup Enum PROVE f.kind = "scalar" /\ f.typeId = 0 /\ Position(t) = 0
  BY <1>3, <1>6 DEF KindOf, Position
<1>7. QED
  BY <1>4, <1>5, <1>6

\* What the reply of this server is made of.
LEMMA OwnReply ==
  ASSUME TypeOK, phase = "serving", reply = Description
  PROVE  /\ Len(table) \in Nat /\ Len(reply.types) = Len(table)
         /\ \A i \in 1..Len(table) : reply.types[i] = DescribedType(i)
         /\ Indices(reply.methods) = Indices(schema.methods)
         /\ \A j \in Indices(schema.methods) : reply.methods[j] = DescribedMethod(schema.methods[j])
<1>1. Len(table) \in Nat /\ Len(schema.methods) \in Nat
  BY LenProperties, SchemaAssumption DEF TypeOK
<1>2. /\ reply.types = [i \in 1..Len(table) |-> reply.types[i]]
      /\ reply.methods = [j \in 1..Len(schema.methods) |-> reply.methods[j]]
  BY DEF Description, Indices
<1>3. Len(reply.types) = Len(table) /\ Indices(reply.methods) = 1..Len(schema.methods)
  BY <1>1, <1>2, LenOf
<1>4. QED
  BY <1>1, <1>3 DEF Description, Indices

\* A described message has the fields it was declared with.
LEMMA FieldsOf ==
  ASSUME TypeOK, NEW i, table[i][2] \in Message
  PROVE  LET m == table[i][2]
         IN  /\ Indices(DescribedType(i).fields) = Indices(schema.fields[m])
             /\ \A k \in Indices(schema.fields[m]) : DescribedType(i).fields[k] = DescribedField(m, k)
<1> DEFINE m == table[i][2]
           fs == DescribedType(i).fields
<1>1. Len(schema.fields[m]) \in Nat
  BY SchemaTypes
<1>2. fs = [k \in 1..Len(schema.fields[m]) |-> DescribedField(m, k)]
  BY DEF DescribedType, Indices
<1>3. fs = [k \in 1..Len(schema.fields[m]) |-> fs[k]]
  BY <1>2
<1> HIDE DEF m, fs
<1>4. Indices(fs) = 1..Len(schema.fields[m])
  BY <1>1, <1>3, LenOf
<1>5. QED
  BY <1>2, <1>4 DEF m, fs, Indices

\* Whoever sent the reply, its types have names and its fields kinds.
LEMMA ReplyFacts ==
  ASSUME TypeOK, Served, Answered, reply # None
  PROVE  /\ Len(reply.types) \in Nat
         /\ \A i \in 1..Len(reply.types) :
              /\ reply.types[i].name # Unknown
              /\ reply.types[i].kind = "message" =>
                   \A k \in Indices(reply.types[i].fields) : reply.types[i].fields[k].kind \in Kinds
<1>1. CASE phase = "serving" /\ reply = Description
  <2>1. /\ Len(table) \in Nat /\ Len(reply.types) = Len(table)
        /\ \A i \in 1..Len(table) : reply.types[i] = DescribedType(i)
    BY <1>1, OwnReply
  <2>2. ASSUME NEW i \in 1..Len(table)
        PROVE  /\ DescribedType(i).name # Unknown
               /\ DescribedType(i).kind = "message" =>
                    \A k \in Indices(DescribedType(i).fields) : DescribedType(i).fields[k].kind \in Kinds
    <3>1. /\ table[i][2] \in Elems(messages) \cup Elems(enums)
          /\ Elems(messages) \subseteq Message /\ Elems(enums) \subseteq Enum
      BY <1>1, TableFacts, ElemsOf DEF TypeOK
    <3>2. DescribedType(i).name = table[i][2] /\ DescribedType(i).kind = KindOf(table[i][2])
      BY DEF DescribedType
    <3>3. ASSUME DescribedType(i).kind = "message", NEW k \in Indices(DescribedType(i).fields)
          PROVE  DescribedType(i).fields[k].kind \in Kinds
      <4>1. table[i][2] \in Message
        BY <3>2, <3>3 DEF KindOf
      <4>2. DescribedType(i).fields[k] = DescribedField(table[i][2], k)
        BY <3>3, <4>1, FieldsOf
      <4>3. QED
        BY <4>2 DEF DescribedField, KindOf, Kinds
    <3>4. QED
      BY <3>1, <3>2, <3>3, SchemaAssumption
  <2>3. QED
    BY <2>1, <2>2
<1>2. CASE reply \in ForeignReplies
  <2>1. reply.types \in Seq(TypeInfos)
    BY <1>2, ForeignAssumption
  <2>2. Len(reply.types) \in Nat /\ \A i \in 1..Len(reply.types) : reply.types[i] \in TypeInfos
    BY <2>1, LenProperties, ElementOfSeq
  <2>3. ASSUME NEW t \in TypeInfos
        PROVE  t.name # Unknown /\ \A k \in Indices(t.fields) : t.fields[k].kind \in Kinds
    <3>1. /\ t.name \in Message \cup Enum
          /\ t.fields \in Seq([kind : Kinds, typeId : Nat, repeated : BOOLEAN])
      BY DEF TypeInfos
    <3>2. \A k \in 1..Len(t.fields) : t.fields[k] \in [kind : Kinds, typeId : Nat, repeated : BOOLEAN]
      BY <3>1, ElementOfSeq
    <3>3. QED
      BY <3>1, <3>2, SchemaAssumption DEF Indices
  <2>4. QED
    BY <2>2, <2>3
<1>3. QED
  BY <1>1, <1>2 DEF Answered

\* A usable id is that of one type, whose name is printed for it.
LEMMA NameOf ==
  ASSUME Len(reply.types) \in Nat, NEW i \in Indices(reply.types), TypesById(reply.types[i].id) = {i}
  PROVE  TypeName(reply.types[i].id) = reply.types[i].name
<1>1. i <= i
  BY DEF Indices
<1>2. QED
  BY <1>1 DEF TypeName

\* An id that call accepts is one that list can name.
LEMMA UsableIsNamed ==
  ASSUME TypeOK, Served, Answered, reply # None, TypesAreUsable, NEW id, NEW kind, HasKind(id, kind)
  PROVE  TypeName(id) # Unknown
<1>1. PICK i \in TypesById(id) : TRUE
  BY DEF HasKind
<1>2. i \in Indices(reply.types) /\ reply.types[i].id = id
  BY <1>1 DEF TypesById
<1>3. TypesById(id) = {i}
  BY <1>2 DEF TypesAreUsable
<1>4. TypeName(id) = reply.types[i].name
  BY <1>2, <1>3, NameOf, ReplyFacts
<1>5. QED
  BY <1>2, <1>4, ReplyFacts DEF Indices

\* A service that call does not refuse is one that list prints without an
\* unknown name, for every reply: the two read it by the same ids.
THEOREM CommandsAgree == Spec => []ListAndCallAgree
<1>1. TypeOK /\ ServiceInv => ListAndCallAgree
  <2> SUFFICES ASSUME TypeOK, Served, Answered, printed # None, outcome # None,
                      outcome.result # "refused"
               PROVE  /\ \A t \in printed.types : Unknown \notin Elems(t.fields)
                      /\ Unknown \notin Elems(printed.methods[outcome.method])
    BY DEF ServiceInv, ListAndCallAgree
  <2>1. reply # None /\ printed = Printout
    BY DEF Answered
  <2>2. PICK j \in Indices(reply.methods) : Answer(j)
    BY DEF Answered
  <2>3. Describable(reply.methods[j]) /\ outcome.method = j
    BY <2>2 DEF Answer
  <2>4. /\ TypesAreUsable
        /\ HasKind(reply.methods[j].request, "message") /\ HasKind(reply.methods[j].response, "message")
    BY <2>3 DEF Describable
  <2>5. ASSUME NEW t \in printed.types PROVE Unknown \notin Elems(t.fields)
    <3>1. PICK i \in PrintedTypes : t.fields = PrintedFields(reply.types[i])
      BY <2>1, <2>5 DEF Printout
    <3>2. i \in Indices(reply.types)
      BY DEF PrintedTypes
    <3>3. CASE reply.types[i].kind # "message"
      BY <3>1, <3>3 DEF PrintedFields, Elems
    <3>4. CASE reply.types[i].kind = "message"
      <4>1. ASSUME NEW k \in Indices(reply.types[i].fields)
            PROVE  FieldTypeName(reply.types[i].fields[k]) # Unknown
        <5> DEFINE f == reply.types[i].fields[k]
        <5>1. FieldIsUsable(f) /\ f.kind \in Kinds
          BY <2>1, <2>3, <3>2, <3>4, <4>1, ReplyFacts DEF Describable, Indices
        <5>2. CASE f.kind \in {"message", "enum"}
          <6>1. HasKind(f.typeId, f.kind)
            BY <5>1, <5>2 DEF FieldIsUsable
          <6>2. TypeName(f.typeId) # Unknown
            BY <2>1, <2>4, <6>1, UsableIsNamed
          <6>3. QED
            BY <5>2, <6>2 DEF FieldTypeName
        <5>3. CASE f.kind = "scalar"
          BY <5>3, SchemaAssumption DEF FieldTypeName
        <5>4. QED
          BY <5>1, <5>2, <5>3 DEF Kinds, FieldIsUsable
      <4>2. QED
        BY <3>1, <3>4, <4>1 DEF PrintedFields, Elems
    <3>5. QED
      BY <3>3, <3>4
  <2>6. Unknown \notin Elems(printed.methods[outcome.method])
    <3>1. printed.methods[j] = <<TypeName(reply.methods[j].request), TypeName(reply.methods[j].response)>>
      BY <2>1 DEF Printout
    <3>2. TypeName(reply.methods[j].request) # Unknown /\ TypeName(reply.methods[j].response) # Unknown
      BY <2>1, <2>4, UsableIsNamed
    <3>3. QED
      BY <2>3, <3>1, <3>2 DEF Elems
  <2>7. QED
    BY <2>5, <2>6
<1>2. QED
  BY <1>1, ServiceInvariance, PTL

-----------------------------------------------------------------------------
Links == EnumsStayHome /\ NestedAreReached => phase # "broken"

\* The walk for the service finds objects that its file's walk, or the one of
\* the file of an imported message, has defined.
LEMMA ArrayIsDefined ==
  ASSUME TypeOK, WalkInv, ServiceInv, WalkDone, walk = Service, EnumsStayHome, NestedAreReached
  PROVE  Elems(TypesArray) \subseteq defined
<1>1. /\ WalkIsClosure /\ Elems(messages) \subseteq Known \cup {Void} /\ todo = {}
      /\ Elems(messages) \subseteq Message /\ Elems(enums) \subseteq Enum
      /\ Elems(enums) = TypesUsedBy(Elems(messages)) \cap Enum
  BY WalkEnd, OnlyKnown, ElemsOf DEF ServiceInv, Order, TypeOK, WalkIsClosure
<1>2. /\ schema.order \in Seq((Message \cup Enum) \ {Void}) /\ schema.fields[Void] = <<>>
      /\ schema.file \in [Message \cup Enum -> File] /\ schema.home \in File
      /\ declared = Len(schema.order)
  BY SchemaAssumption, SchemaTypes DEF TypeOK, ServiceInv, Order, Resolved, WalkDone
<1>3. ASSUME NEW m \in Elems(messages), m # Void
      PROVE  m \in ReachedFrom(Elems(schema.top[schema.file[m]])) /\ schema.file[m] \in File \ todo
  <2>1. m \in Elems(schema.order) \cap Message
    <3>1. DOMAIN schema.order = 1..declared
      BY <1>2, LenProperties
    <3>2. QED
      BY <1>1, <1>3, <3>1 DEF Known, Elems
  <2>2. QED
    BY <1>1, <1>2, <2>1 DEF NestedAreReached
<1>4. ASSUME NEW m \in Elems(messages) PROVE MessagePointer(m) \in defined
  <2>1. CASE m = Void
    BY <2>1 DEF MessagePointer, ServiceInv, FilesDefine
  <2>2. CASE m # Void
    BY <1>3, <2>2 DEF MessagePointer, ServiceInv, FilesDefine
  <2>3. QED
    BY <2>1, <2>2
<1>5. ASSUME NEW e \in Elems(enums) PROVE EnumPointer(schema.home, e) \in defined
  <2>1. PICK m \in Elems(messages) : e \in TypesUsedBy({m})
    BY <1>1, <1>5 DEF TypesUsedBy
  <2>2. schema.file[m] = schema.home
    BY <1>1, <1>5, <2>1 DEF EnumsStayHome
  <2>3. m # Void
    <3>1. Indices(<<>>) = {}
      BY DEF Indices
    <3>2. QED
      BY <1>2, <2>1, <3>1 DEF TypesUsedBy
  <2>4. QED
    BY <1>1, <1>3, <1>5, <2>1, <2>2, <2>3 DEF EnumPointer, ServiceInv, FilesDefine
<1>6. ASSUME NEW p \in Elems(TypesArray)
      PROVE  \/ \E m \in Elems(messages) : p = MessagePointer(m)
             \/ \E e \in Elems(enums) : p = EnumPointer(schema.home, e)
  <2> DEFINE P == File \X (Message \cup Enum)
             ms == [i \in 1..Len(messages) |-> MessagePointer(messages[i])]
             es == [i \in 1..Len(enums) |-> EnumPointer(schema.home, enums[i])]
             a == Len(messages)
             b == Len(enums)
  <2>1. /\ a \in Nat /\ b \in Nat /\ DOMAIN messages = 1..a /\ DOMAIN enums = 1..b
        /\ \A i \in 1..a : messages[i] \in Elems(messages)
        /\ \A i \in 1..b : enums[i] \in Elems(enums)
    BY LenProperties DEF TypeOK, Elems
  <2>2. /\ \A i \in 1..a : MessagePointer(messages[i]) \in P
        /\ \A i \in 1..b : EnumPointer(schema.home, enums[i]) \in P
    BY <1>1, <1>2, <2>1 DEF MessagePointer, EnumPointer
  <2> HIDE DEF P
  <2>3. ms \in Seq(P)
    BY <2>1, <2>2, IsASeq
  <2>4. es \in Seq(P)
    BY <2>1, <2>2, IsASeq
  <2>5. /\ \A i \in 1..a : ms[i] = MessagePointer(messages[i])
        /\ \A i \in 1..b : es[i] = EnumPointer(schema.home, enums[i])
        /\ TypesArray = ms \o es
    BY DEF TypesArray
  <2>6. Len(ms) = a /\ Len(es) = b
    BY <2>1, LenOf
  <2> HIDE DEF ms, es, a, b
  <2>7. /\ Len(TypesArray) = a + b /\ TypesArray \in Seq(P)
        /\ \A i \in 1..(a + b) : TypesArray[i] = IF i <= a THEN ms[i] ELSE es[i - a]
    BY <2>3, <2>4, <2>5, <2>6, ConcatProperties
  <2>8. PICK i \in 1..(a + b) : p = TypesArray[i]
    BY <1>6, <2>7, LenProperties DEF Elems
  <2>9. CASE i <= a
    <3>1. i \in 1..a
      BY <2>1, <2>9
    <3>2. QED
      BY <2>1, <2>5, <2>7, <2>8, <2>9, <3>1
  <2>10. CASE ~(i <= a)
    <3>1. i - a \in 1..b
      BY <2>1, <2>10
    <3>2. QED
      BY <2>1, <2>5, <2>7, <2>8, <2>10, <3>1
  <2>11. QED
    BY <2>9, <2>10
<1>7. QED
  BY <1>4, <1>5, <1>6

LEMMA NextLinks == TypeOK /\ WalkInv /\ ServiceInv /\ Links /\ [Next]_vars => Links'
<1> SUFFICES ASSUME TypeOK, WalkInv, ServiceInv, Links, [Next]_vars,
                    EnumsStayHome', NestedAreReached', phase' = "broken"
             PROVE  FALSE
  BY DEF Links
<1>1. schema' = schema
  BY DEF Next, vars, AddType, AddService, Reject, ForeignServer, GenerateFile,
         GenerateService, Begin, NextRoot, NextField, Return, FileDone, ServiceDone, ListServices,
         List, Call, CallRefused, CallUnloadable, CallStreaming, CallMade, CallOutcome
<1>2. EnumsStayHome /\ NestedAreReached
  BY <1>1, SchemaDecides DEF EnumsStayHome, NestedAreReached
<1>3. CASE ServiceDone
  <2>1. WalkDone /\ walk = Service /\ ~(Elems(TypesArray) \subseteq defined)
    BY <1>3 DEF ServiceDone
  <2>2. QED
    BY <1>2, <2>1, ArrayIsDefined
<1>4. CASE ~ServiceDone
  <2>1. phase = "broken"
    BY <1>4 DEF Next, vars, AddType, AddService, Reject, ForeignServer, GenerateFile,
           GenerateService, Begin, NextRoot, NextField, Return, FileDone, ListServices, List, Call,
           CallRefused, CallUnloadable, CallStreaming, CallMade, CallOutcome
  <2>2. QED
    BY <1>2, <2>1 DEF Links
<1>5. QED
  BY <1>3, <1>4

\* The messages that the methods name are in the table.
LEMMA MethodTypes ==
  ASSUME TypeOK, Served, phase = "serving", NEW j \in Indices(schema.methods)
  PROVE  schema.methods[j].in \in Elems(messages) /\ schema.methods[j].out \in Elems(messages)
<1> DEFINE n == Len(schema.methods)
<1>1. n \in Nat /\ j \in 1..n
  BY LenProperties, SchemaAssumption DEF TypeOK, Indices
<1>2. DOMAIN ServiceMessages = 1..(2 * n)
  BY DEF ServiceMessages
<1> HIDE DEF n
<1>3. /\ 2 * j - 1 \in 1..(2 * n) /\ 2 * j \in 1..(2 * n)
      /\ ((2 * j - 1) + 1) \div 2 = j /\ (2 * j + 1) \div 2 = j
      /\ (2 * j - 1) % 2 = 1 /\ (2 * j) % 2 # 1
  BY <1>1
<1>4. ServiceMessages[2 * j - 1] = schema.methods[j].in /\ ServiceMessages[2 * j] = schema.methods[j].out
  BY <1>3 DEF ServiceMessages, n
<1>5. QED
  BY <1>2, <1>3, <1>4 DEF Served, Elems

\* The ids of this server's reply are the positions in its table.
LEMMA OwnIds ==
  ASSUME TypeOK, Served, phase = "serving", reply = Description
  PROVE  /\ \A i \in 1..Len(table) :
              /\ reply.types[i].id = i /\ TypesById(i) = {i} /\ TypeName(i) = table[i][2]
              /\ reply.types[i].kind = KindOf(table[i][2]) /\ reply.types[i].name = table[i][2]
         /\ Indices(reply.types) = 1..Len(table)
<1>1. /\ Len(table) \in Nat /\ Len(reply.types) = Len(table)
      /\ \A i \in 1..Len(table) : reply.types[i] = DescribedType(i)
  BY OwnReply
<1>2. Indices(reply.types) = 1..Len(table)
  BY <1>1 DEF Indices
<1>3. \A i \in 1..Len(table) : /\ reply.types[i].id = i /\ reply.types[i].kind = KindOf(table[i][2])
                               /\ reply.types[i].name = table[i][2]
  <2>1. \A i : /\ DescribedType(i).id = i /\ DescribedType(i).kind = KindOf(table[i][2])
               /\ DescribedType(i).name = table[i][2]
    BY DEF DescribedType
  <2>2. QED
    BY <1>1, <2>1
<1>4. \A i \in 1..Len(table) : TypesById(i) = {i}
  BY <1>2, <1>3 DEF TypesById
<1>5. ASSUME NEW i \in 1..Len(table) PROVE TypeName(i) = table[i][2]
  <2>1. TypesById(reply.types[i].id) = {i} /\ i \in Indices(reply.types)
    BY <1>2, <1>3, <1>4
  <2>2. TypeName(reply.types[i].id) = reply.types[i].name
    BY <1>1, <2>1, NameOf
  <2>3. QED
    BY <1>3, <2>2
<1>6. QED
  BY <1>2, <1>3, <1>4, <1>5

\* What the client reads of a message of the service, and of its methods.
LEMMA OwnMessage ==
  ASSUME TypeOK, Served, phase = "serving", reply = Description, NEW m \in Elems(messages)
  PROVE  /\ Position(m) \in 1..Len(table) /\ TypeName(Position(m)) = m
         /\ TypesById(Position(m)) = {Position(m)} /\ HasKind(Position(m), "message")
         /\ reply.types[Position(m)].id = Position(m)
         /\ reply.types[Position(m)].kind = "message"
         /\ reply.types[Position(m)].fields =
              [k \in Indices(schema.fields[m]) |-> DescribedField(m, k)]
<1> DEFINE i == Position(m)
<1>1. i \in 1..Len(table) /\ table[i][2] = m /\ m \in Message /\ m \notin Enum
  BY TableFacts, ElemsOf, SchemaTypes DEF TypeOK
<1>2. KindOf(m) = "message"
  BY <1>1 DEF KindOf
<1> HIDE DEF i
<1>3. /\ TypeName(i) = m /\ TypesById(i) = {i} /\ reply.types[i].id = i
      /\ reply.types[i].kind = "message"
  BY <1>1, <1>2, OwnIds
<1>4. HasKind(i, "message")
  BY <1>3 DEF HasKind
<1>5. reply.types[i] = DescribedType(i)
  BY <1>1, OwnReply
<1>6. DescribedType(i).fields = [k \in Indices(schema.fields[m]) |-> DescribedField(m, k)]
  BY <1>1 DEF DescribedType
<1>7. QED
  BY <1>1, <1>3, <1>4, <1>5, <1>6 DEF i

LEMMA OwnMethod ==
  ASSUME TypeOK, Served, phase = "serving", reply = Description, NEW j \in Indices(schema.methods)
  PROVE  /\ reply.methods[j].request = Position(schema.methods[j].in)
         /\ reply.methods[j].response = Position(schema.methods[j].out)
<1>1. reply.methods[j] = DescribedMethod(schema.methods[j])
  BY OwnReply
<1>2. schema.methods[j].in \in Elems(messages) /\ schema.methods[j].out \in Elems(messages)
  BY MethodTypes
<1>3. QED
  BY <1>1, <1>2, TableFacts DEF DescribedMethod

\* A field is usable for call when the enum it has is of the service's file.
LEMMA OwnField ==
  ASSUME TypeOK, Served, phase = "serving", reply = Description,
         NEW m \in Elems(messages), NEW k \in Indices(schema.fields[m])
  PROVE  LET t == FieldType(m, k)
             f == DescribedField(m, k)
         IN  /\ t \in Enum /\ FieldIsUsable(f) => schema.file[m] = schema.home
             /\ (t \in Enum => schema.file[m] = schema.home) =>
                  FieldIsUsable(f) /\ f.typeId = Position(t) /\ f.kind = KindOf(t)
                  /\ (t \in Message \cup Enum => TypeName(f.typeId) = t)
<1> DEFINE t == FieldType(m, k)
           f == DescribedField(m, k)
<1>1. /\ t \in Message => t \in Elems(messages) /\ f.kind = "message" /\ f.typeId = Position(t)
      /\ t \in Enum => /\ t \in Elems(enums) /\ f.kind = "enum"
                       /\ f.typeId = IF schema.file[m] = schema.home THEN Position(t) ELSE 0
      /\ t \notin Message \cup Enum => f.kind = "scalar" /\ f.typeId = 0 /\ Position(t) = 0
  BY FieldFacts
<1>2. f.kind = KindOf(t)
  BY DEF DescribedField
<1> HIDE DEF t, f
<1>3. ASSUME t \in Enum, FieldIsUsable(f) PROVE schema.file[m] = schema.home
  <2>1. \E i \in TypesById(f.typeId) : TRUE
    BY <1>1, <1>3 DEF FieldIsUsable, HasKind
  <2>2. \A i \in Indices(reply.types) : reply.types[i].id # 0
    BY OwnIds, TableFacts
  <2>3. f.typeId # 0
    BY <2>1, <2>2 DEF TypesById
  <2>4. QED
    BY <1>1, <1>3, <2>3
<1>4. ASSUME t \in Enum, schema.file[m] = schema.home
      PROVE  FieldIsUsable(f) /\ f.typeId = Position(t) /\ TypeName(f.typeId) = t
  <2>1. t \in Elems(enums) /\ f.kind = "enum" /\ f.typeId = Position(t)
    BY <1>1, <1>4
  <2>2. Position(t) \in 1..Len(table) /\ table[Position(t)][2] = t
    BY <2>1, TableFacts
  <2>3. /\ TypesById(Position(t)) = {Position(t)} /\ TypeName(Position(t)) = t
        /\ reply.types[Position(t)].kind = KindOf(t)
    BY <2>2, OwnIds
  <2>4. HasKind(f.typeId, f.kind)
    BY <1>2, <2>1, <2>3 DEF HasKind
  <2>5. QED
    BY <2>1, <2>3, <2>4 DEF FieldIsUsable
<1>5. ASSUME t \in Message
      PROVE  FieldIsUsable(f) /\ f.typeId = Position(t) /\ TypeName(f.typeId) = t
  <2>1. t \in Elems(messages) /\ f.kind = "message" /\ f.typeId = Position(t)
    BY <1>1, <1>5
  <2>2. QED
    BY <2>1, OwnMessage DEF FieldIsUsable
<1>6. ASSUME t \notin Message \cup Enum PROVE FieldIsUsable(f) /\ f.typeId = Position(t)
  BY <1>1, <1>6 DEF FieldIsUsable
<1>7. QED
  BY <1>2, <1>3, <1>4, <1>5, <1>6 DEF t, f

LEMMA HomeField ==
  ASSUME TypeOK, EnumsStayHome, NEW m \in Elems(messages), NEW k \in Indices(schema.fields[m]),
         FieldType(m, k) \in Enum
  PROVE  schema.file[m] = schema.home
<1>1. m \in Message
  BY ElemsOf DEF TypeOK
<1>2. FieldType(m, k) \in TypesUsedBy({m})
  BY DEF TypesUsedBy
<1>3. QED
  BY <1>1, <1>2 DEF EnumsStayHome

\* A description that does not load lists a type of the service that does not fit.
LEMMA OwnMisfit ==
  ASSUME TypeOK, Served, phase = "serving", reply = Description, ~FileLoads
  PROVE  schema.misfits \cap (Elems(messages) \cup Elems(enums)) # {}
<1>1. PICK i \in Indices(reply.types) : ~reply.types[i].loads
  BY DEF FileLoads
<1>2. i \in 1..Len(table) /\ reply.types[i] = DescribedType(i)
  BY <1>1, OwnReply, OwnIds
<1>3. table[i][2] \in schema.misfits
  <2>1. DescribedType(i).loads = (table[i][2] \notin schema.misfits)
    BY DEF DescribedType
  <2>2. QED
    BY <1>1, <1>2, <2>1, Zenon
<1>4. table[i][2] \in Elems(messages) \cup Elems(enums)
  BY <1>2, TableFacts
<1>5. QED
  BY <1>3, <1>4

\* Call accepts every method when the enums stay home.
LEMMA OwnDescribable ==
  ASSUME TypeOK, Served, phase = "serving", reply = Description, EnumsStayHome,
         NEW j \in Indices(schema.methods)
  PROVE  Describable(reply.methods[j])
<1> DEFINE mt == reply.methods[j]
<1>1. /\ schema.methods[j].in \in Elems(messages) /\ schema.methods[j].out \in Elems(messages)
      /\ mt.request = Position(schema.methods[j].in) /\ mt.response = Position(schema.methods[j].out)
  BY MethodTypes, OwnMethod
<1>2. /\ mt.request \in 1..Len(table) /\ HasKind(mt.request, "message")
      /\ mt.response \in 1..Len(table) /\ HasKind(mt.response, "message")
  BY <1>1, OwnMessage
<1>3. Len(table) \in Nat /\ Len(reply.types) = Len(table) /\ Indices(reply.types) = 1..Len(table)
  BY OwnReply, OwnIds
<1>4. FullDiscovery(mt)
  <2>1. mt.request # 0 /\ mt.response # 0 /\ Len(table) # 0
    BY <1>2, <1>3
  <2>2. Len(<<>>) = 0
    OBVIOUS
  <2>3. QED
    BY <1>3, <2>1, <2>2 DEF FullDiscovery
<1>5. ASSUME NEW i \in Indices(reply.types)
      PROVE  /\ reply.types[i].id # 0 /\ reply.types[i].kind \in {"message", "enum"}
             /\ TypesById(reply.types[i].id) = {i}
             /\ reply.types[i].kind = "message" => table[i][2] \in Elems(messages) /\ Position(table[i][2]) = i
  <2>1. /\ table[i][2] \in Elems(messages) \cup Elems(enums) /\ Position(table[i][2]) = i
        /\ Elems(messages) \subseteq Message /\ Elems(enums) \subseteq Enum /\ Message \cap Enum = {}
    BY <1>3, TableFacts, ElemsOf, SchemaTypes DEF TypeOK
  <2>2. /\ KindOf(table[i][2]) \in {"message", "enum"}
        /\ KindOf(table[i][2]) = "message" => table[i][2] \in Elems(messages)
    BY <2>1 DEF KindOf
  <2>3. QED
    BY <1>3, <2>1, <2>2, OwnIds
<1>6. ASSUME NEW i \in Indices(reply.types), reply.types[i].kind = "message",
             NEW k \in Indices(reply.types[i].fields)
      PROVE  FieldIsUsable(reply.types[i].fields[k])
  <2> DEFINE m == table[i][2]
  <2>1. m \in Elems(messages) /\ m \in Message /\ reply.types[i] = DescribedType(i)
    BY <1>3, <1>5, <1>6, OwnReply, ElemsOf DEF TypeOK
  <2>2. k \in Indices(schema.fields[m]) /\ reply.types[i].fields[k] = DescribedField(m, k)
    BY <1>6, <2>1, FieldsOf
  <2> HIDE DEF m
  <2>3. FieldType(m, k) \in Enum => schema.file[m] = schema.home
    BY <2>1, <2>2, HomeField
  <2>4. QED
    BY <2>1, <2>2, <2>3, OwnField
<1>7. QED
  BY <1>2, <1>4, <1>5, <1>6 DEF Describable, TypesAreUsable

\* A schema that call could build is that of the service.
LEMMA OwnSchema ==
  ASSUME TypeOK, Served, phase = "serving", reply = Description,
         NEW j \in Indices(reply.methods), Describable(reply.methods[j]),
         outcome = [result |-> "made", method |-> j, file |-> DynamicFile,
                    in |-> reply.methods[j].request, out |-> reply.methods[j].response,
                    sends |-> Sends(reply.methods[j]), expects |-> Expects(reply.methods[j])]
  PROVE  SchemaIsTheService
<1> DEFINE mt == schema.methods[j]
<1>1. j \in Indices(schema.methods)
  BY OwnReply
<1>2. /\ mt.in \in Elems(messages) /\ mt.out \in Elems(messages)
      /\ reply.methods[j].request = Position(mt.in) /\ reply.methods[j].response = Position(mt.out)
  BY <1>1, MethodTypes, OwnMethod
<1>3. TypeName(Position(mt.in)) = mt.in /\ TypeName(Position(mt.out)) = mt.out
  BY <1>2, OwnMessage
<1>4. /\ outcome.in = Position(mt.in) /\ outcome.out = Position(mt.out)
      /\ outcome.sends = (mt.in # Void) /\ outcome.expects = (mt.out # Void)
  BY <1>2, <1>3 DEF Sends, Expects
<1>5. ASSUME NEW m \in Elems(messages)
      PROVE  outcome.file[Position(m)] =
               [kind |-> "message",
                fields |-> [k \in Indices(schema.fields[m]) |->
                              [kind |-> KindOf(FieldType(m, k)), typeId |-> Position(FieldType(m, k)),
                               repeated |-> schema.fields[m][k].card \in {"array", "vector"}]]]
  <2> DEFINE i == Position(m)
  <2>1. /\ i \in 1..Len(table) /\ TypesById(i) = {i}
        /\ reply.types[i].id = i /\ reply.types[i].kind = "message"
        /\ reply.types[i].fields = [k \in Indices(schema.fields[m]) |-> DescribedField(m, k)]
    BY OwnMessage
  <2>2. i \in Indices(reply.types)
    BY <2>1, OwnIds
  <2> HIDE DEF i
  <2>3. DynamicFile[i] = [kind |-> reply.types[i].kind, fields |-> reply.types[i].fields]
    <3>1. i \in {reply.types[x].id : x \in Indices(reply.types)}
      BY <2>1, <2>2
    <3>2. (CHOOSE x \in TypesById(i) : TRUE) = i
      BY <2>1
    <3>3. QED
      BY <3>1, <3>2 DEF DynamicFile
  <2>4. ASSUME NEW k \in Indices(schema.fields[m])
        PROVE  DescribedField(m, k) =
                 [kind |-> KindOf(FieldType(m, k)), typeId |-> Position(FieldType(m, k)),
                  repeated |-> schema.fields[m][k].card \in {"array", "vector"}]
    <3>1. m \in Message
      BY ElemsOf DEF TypeOK
    <3>2. DescribedType(i) = reply.types[i] /\ table[i][2] = m
      BY <2>1, OwnReply, TableFacts DEF i
    <3>3. k \in Indices(reply.types[i].fields) /\ reply.types[i].fields[k] = DescribedField(m, k)
      BY <2>4, <3>1, <3>2, FieldsOf
    <3>4. FieldIsUsable(DescribedField(m, k))
      BY <2>1, <2>2, <3>3 DEF Describable
    <3>5. FieldType(m, k) \in Enum => schema.file[m] = schema.home
      BY <3>4, OwnField
    <3>6. DescribedField(m, k).typeId = Position(FieldType(m, k))
      BY <3>5, OwnField
    <3>7. QED
      BY <3>6 DEF DescribedField
  <2>5. QED
    BY <2>1, <2>3, <2>4 DEF i
<1>6. outcome.method = j
  OBVIOUS
<1>7. QED
  BY <1>4, <1>5, <1>6 DEF SchemaIsTheService

\* Each name in the printout is the type's own.
LEMMA OwnPrintout ==
  ASSUME TypeOK, Resolved, Served, phase = "serving", reply = Description, EnumsStayHome
  PROVE  Printout.types =
           {[name |-> m, fields |-> [k \in Indices(schema.fields[m]) |-> FieldType(m, k)]] :
              m \in Elems(messages) \ {Void}}
           \cup {[name |-> e, fields |-> <<>>] : e \in Elems(enums)}
<1>1. /\ Elems(messages) \subseteq Message /\ Elems(enums) \subseteq Enum /\ Message \cap Enum = {}
      /\ Void \in Message
  BY ElemsOf, SchemaTypes DEF TypeOK
<1>2. ASSUME NEW m \in Elems(messages), NEW k \in Indices(schema.fields[m])
      PROVE  FieldTypeName(DescribedField(m, k)) = FieldType(m, k)
  <2> DEFINE t == FieldType(m, k)
             f == DescribedField(m, k)
  <2>1. t \in Enum => schema.file[m] = schema.home
    BY HomeField
  <2>2. f.kind = KindOf(t) /\ (t \in Message \cup Enum => TypeName(f.typeId) = t)
    BY <2>1, OwnField
  <2>3. t \notin Message \cup Enum => t = Scalar
    <3>1. schema.fields[Void] = <<>> /\ Indices(<<>>) = {}
      BY SchemaAssumption DEF TypeOK, Indices
    <3>2. m # Void
      BY <1>2, <3>1
    <3>3. PICK i \in 1..declared : m = schema.order[i]
      BY <1>2, <3>2 DEF Served, Known
    <3>4. FieldResolves(schema.fields[m][k])
      BY <1>1, <3>3 DEF Resolved, TypeResolves
    <3>5. /\ schema.order \in Seq((Message \cup Enum) \ {Void})
          /\ declared = Len(schema.order)
      BY SchemaAssumption DEF TypeOK, Resolved
    <3>6. Known \subseteq Message \cup Enum
      BY <3>5, ElementOfSeq DEF Known
    <3>7. QED
      BY <3>4, <3>6 DEF FieldResolves, FieldType
  <2> HIDE DEF t, f
  <2>4. FieldTypeName(f) = t
    BY <1>1, <2>2, <2>3 DEF KindOf, FieldTypeName
  <2>5. QED
    BY <2>4 DEF t, f
<1>3. ASSUME NEW m \in Elems(messages)
      PROVE  PrintedFields(reply.types[Position(m)]) =
               [k \in Indices(schema.fields[m]) |-> FieldType(m, k)]
  <2> DEFINE r == reply.types[Position(m)]
  <2>1. r.kind = "message" /\ r.fields = [k \in Indices(schema.fields[m]) |-> DescribedField(m, k)]
    BY OwnMessage
  <2>2. r = DescribedType(Position(m)) /\ table[Position(m)][2] \in Message
    BY <1>1, TableFacts, OwnReply
  <2>3. Indices(r.fields) = Indices(schema.fields[m])
    BY <1>1, <2>2, FieldsOf, TableFacts
  <2> HIDE DEF r
  <2>4. PrintedFields(r) = [k \in Indices(schema.fields[m]) |-> FieldTypeName(DescribedField(m, k))]
    BY <2>1, <2>3 DEF PrintedFields
  <2>5. QED
    BY <1>2, <2>4 DEF r
<1>4. ASSUME NEW e \in Elems(enums)
      PROVE  PrintedFields(reply.types[Position(e)]) = <<>>
  <2>1. reply.types[Position(e)].kind = KindOf(e)
    BY TableFacts, OwnIds
  <2>2. KindOf(e) = "enum"
    BY <1>1 DEF KindOf
  <2>3. QED
    BY <2>1, <2>2 DEF PrintedFields
<1>5. /\ Indices(reply.types) = 1..Len(table) /\ Len(table) \in Nat
      /\ \A i \in 1..Len(table) :
           /\ reply.types[i].name = table[i][2] /\ reply.types[i].kind = KindOf(table[i][2])
           /\ table[i][2] \in Elems(messages) \cup Elems(enums) /\ Position(table[i][2]) = i
  BY OwnIds, TableFacts
<1>6. PrintedTypes = {i \in 1..Len(table) : table[i][2] # Void}
  <2>1. ASSUME NEW i \in 1..Len(table)
        PROVE  i \in PrintedTypes <=> table[i][2] # Void
    <3>1. /\ reply.types[i].kind \in {"message", "enum"}
          /\ reply.types[i].kind = "message" <=> table[i][2] \in Message
      BY <1>1, <1>5 DEF KindOf
    <3>2. \A x \in 1..(i - 1) : x \in 1..Len(table) /\ x # i
      BY <1>5
    <3>3. \A x \in 1..(i - 1) : reply.types[x].name # reply.types[i].name
      BY <1>5, <3>2
    <3>4. QED
      BY <1>1, <1>5, <3>1, <3>3 DEF PrintedTypes
  <2>2. QED
    BY <1>5, <2>1 DEF PrintedTypes
<1>7. ASSUME NEW i \in 1..Len(table), table[i][2] # Void
      PROVE  [name |-> reply.types[i].name, fields |-> PrintedFields(reply.types[i])] \in
               {[name |-> m, fields |-> [k \in Indices(schema.fields[m]) |-> FieldType(m, k)]] :
                  m \in Elems(messages) \ {Void}}
               \cup {[name |-> e, fields |-> <<>>] : e \in Elems(enums)}
  <2>1. CASE table[i][2] \in Elems(messages)
    BY <1>3, <1>5, <1>7, <2>1
  <2>2. CASE table[i][2] \in Elems(enums)
    BY <1>4, <1>5, <2>2
  <2>3. QED
    BY <1>5, <2>1, <2>2
<1>8. ASSUME NEW x \in (Elems(messages) \ {Void}) \cup Elems(enums)
      PROVE  /\ Position(x) \in PrintedTypes /\ reply.types[Position(x)].name = x
  <2>1. Position(x) \in 1..Len(table) /\ table[Position(x)][2] = x /\ x # Void
    BY <1>1, TableFacts
  <2>2. QED
    BY <1>5, <1>6, <2>1
<1> DEFINE Line(i) == [name |-> reply.types[i].name, fields |-> PrintedFields(reply.types[i])]
           Lines == {Line(i) : i \in PrintedTypes}
<1>9. ASSUME NEW m \in Elems(messages) \ {Void}
      PROVE  [name |-> m, fields |-> [k \in Indices(schema.fields[m]) |-> FieldType(m, k)]] \in Lines
  <2>1. Line(Position(m)) = [name |-> m, fields |-> [k \in Indices(schema.fields[m]) |-> FieldType(m, k)]]
    BY <1>3, <1>8
  <2>2. Line(Position(m)) \in Lines
    BY <1>8
  <2>3. QED
    BY <2>1, <2>2
<1>10. ASSUME NEW e \in Elems(enums) PROVE [name |-> e, fields |-> <<>>] \in Lines
  <2>1. Line(Position(e)) = [name |-> e, fields |-> <<>>]
    BY <1>4, <1>8
  <2>2. Line(Position(e)) \in Lines
    BY <1>8
  <2>3. QED
    BY <2>1, <2>2
<1>11. Printout.types = Lines
  BY DEF Printout
<1>12. Lines \subseteq
         {[name |-> m, fields |-> [k \in Indices(schema.fields[m]) |-> FieldType(m, k)]] :
            m \in Elems(messages) \ {Void}}
         \cup {[name |-> e, fields |-> <<>>] : e \in Elems(enums)}
  <2>1. ASSUME NEW i \in PrintedTypes
        PROVE  i \in 1..Len(table) /\ table[i][2] # Void
    BY <1>6
  <2>2. \A x \in Lines : \E i \in PrintedTypes : x = Line(i)
    OBVIOUS
  <2>3. ASSUME NEW x \in Lines
        PROVE  x \in {[name |-> m, fields |-> [k \in Indices(schema.fields[m]) |-> FieldType(m, k)]] :
                        m \in Elems(messages) \ {Void}}
                     \cup {[name |-> e, fields |-> <<>>] : e \in Elems(enums)}
    <3>1. PICK i \in PrintedTypes : x = Line(i)
      BY <2>2
    <3>2. QED
      BY <1>7, <2>1, <3>1
  <2>4. QED
    BY <2>3
<1>13. {[name |-> m, fields |-> [k \in Indices(schema.fields[m]) |-> FieldType(m, k)]] :
          m \in Elems(messages) \ {Void}} \subseteq Lines
  <2> HIDE DEF Lines
  <2>1. QED
    BY <1>9
<1>14. {[name |-> e, fields |-> <<>>] : e \in Elems(enums)} \subseteq Lines
  <2> HIDE DEF Lines
  <2>1. QED
    BY <1>10
<1>15. Lines = {[name |-> m, fields |-> [k \in Indices(schema.fields[m]) |-> FieldType(m, k)]] :
                  m \in Elems(messages) \ {Void}}
               \cup {[name |-> e, fields |-> <<>>] : e \in Elems(enums)}
  <2> HIDE DEF Lines
  <2>1. QED
    BY <1>12, <1>13, <1>14
<1>16. QED
  BY <1>11, <1>15

\* A client that has no .proto files prints the types of the service and calls
\* it by the schema it was declared with, for all files and every order of their
\* types; it is refused only for an enum of an imported message, and fails to load
\* the description only for a type that does not fit the file call builds; the build
\* fails only for that enum, and for a nested message that no field leads to.
THEOREM DescriptionIsTheService == Spec => []DescriptionSurvives
<1>1. TypeOK /\ ServiceInv /\ Links => DescriptionSurvives
  <2> SUFFICES ASSUME TypeOK, ServiceInv, Links PROVE DescriptionSurvives
    OBVIOUS
  <2>1. Served /\ Resolved /\ Answered
    BY DEF ServiceInv
  <2>2. ASSUME phase = "serving", reply # None PROVE reply = Description
    BY <2>1, <2>2 DEF Answered
  <2>3. ASSUME phase = "serving", outcome # None
        PROVE  /\ EnumsStayHome => outcome.result # "refused"
               /\ outcome.result = "unloadable" =>
                    schema.misfits \cap (Elems(messages) \cup Elems(enums)) # {}
               /\ outcome.result = "made" => SchemaIsTheService
    <3>1. reply = Description
      BY <2>1, <2>2, <2>3 DEF Answered
    <3>2. PICK j \in Indices(reply.methods) : Answer(j)
      BY <2>1, <2>3 DEF Answered
    <3>3. j \in Indices(schema.methods)
      BY <2>3, <3>1, OwnReply
    <3>4. EnumsStayHome => Describable(reply.methods[j])
      BY <2>1, <2>3, <3>1, <3>3, OwnDescribable
    <3>5. EnumsStayHome => outcome.result # "refused"
      BY <3>2, <3>4 DEF Answer
    <3>6. ASSUME outcome.result = "made" PROVE SchemaIsTheService
      <4>1. /\ Describable(reply.methods[j])
            /\ outcome = [result |-> "made", method |-> j, file |-> DynamicFile,
                          in |-> reply.methods[j].request, out |-> reply.methods[j].response,
                          sends |-> Sends(reply.methods[j]), expects |-> Expects(reply.methods[j])]
        BY <3>2, <3>6 DEF Answer
      <4>2. QED
        BY <2>1, <2>3, <3>1, <4>1, OwnSchema
    <3>7. ASSUME outcome.result = "unloadable"
          PROVE  schema.misfits \cap (Elems(messages) \cup Elems(enums)) # {}
      <4>1. ~FileLoads
        BY <3>2, <3>7 DEF Answer
      <4>2. QED
        BY <2>1, <2>3, <3>1, <4>1, OwnMisfit
    <3>8. QED
      BY <3>5, <3>6, <3>7
  <2>4. ASSUME phase = "serving", printed # None, EnumsStayHome
        PROVE  printed.types =
                 {[name |-> m, fields |-> [k \in Indices(schema.fields[m]) |-> FieldType(m, k)]] :
                    m \in Elems(messages) \ {Void}}
                 \cup {[name |-> e, fields |-> <<>>] : e \in Elems(enums)}
    <3>1. reply = Description /\ printed = Printout
      BY <2>1, <2>2, <2>4 DEF Answered
    <3>2. QED
      BY <2>1, <2>4, <3>1, OwnPrintout
  <2>5. QED
    BY <2>3, <2>4 DEF DescriptionSurvives, Links
<1>2. Init => Links
  BY DEF Init, Links
<1>3. TypeOK /\ WalkInv /\ ServiceInv /\ Links /\ [Next]_vars => Links'
  BY NextLinks
<1>4. QED
  BY <1>1, <1>2, <1>3, ServiceInvariance, PTL DEF Spec
=============================================================================
