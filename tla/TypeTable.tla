----------------------------- MODULE TypeTable -----------------------------
(***************************************************************************)
(* The description of a service from its .proto file to the command line   *)
(* client.  The generator accepts the types, walks them from the file's    *)
(* messages and from the service's methods, and emits one TypeInfo object  *)
(* per type and one table of pointers per service; the server turns the    *)
(* pointers into ids (dispatch_list_services); `serialrpc list` prints the *)
(* reply and `serialrpc call` builds a message schema from it.             *)
(*                                                                         *)
(* A schema is a set of .proto files with one service:                     *)
(*   order    the enums and messages in the order EchoRoot sees them, the  *)
(*            imported files' first                                        *)
(*   file     the file of each, home the file of the service               *)
(*   top      the messages of each file that are not nested in another     *)
(*   fields   the fields of each message, [type, card]                     *)
(*   methods  the methods of the service, [in, out, streams]               *)
(*   misfits  the types that protobuf accepts in their own file and not in *)
(*            the one `call` builds: an enum with a value named Value or   *)
(*            (of a proto2 file) with a first value that is not 0, and the *)
(*            like                                                         *)
(* A TypeInfo object is <<the file whose generated source defines it, the  *)
(* type>>; two files may each define an object for one enum.               *)
(***************************************************************************)
EXTENDS Naturals, Sequences

CONSTANTS
    Message, Enum, Scalar, \* the types there are; Scalar stands for them all
    Group,        \* a field type the generator has no class for
    Void,         \* the message void of serialrpc.proto
    File,
    Schemas,      \* the schemas that are compiled
    ForeignReplies, \* discovery replies of servers built from other code
    Nobody, Service, \* who the walk under way is for, besides a File
    None

Unknown == "<unknown>"

ASSUME SchemaAssumption ==
    /\ Unknown \notin Message \cup Enum \cup {Scalar}
    /\ Void \in Message /\ Service \notin File /\ Nobody \notin File \cup {Service}
    /\ Message \cap Enum = {} /\ {Scalar, Group} \cap (Message \cup Enum) = {}
    /\ \A s \in Schemas :
         /\ s.order \in Seq((Message \cup Enum) \ {Void})
         /\ s.top \in [File -> Seq(Message)]
         /\ s.file \in [Message \cup Enum -> File] /\ s.home \in File
         /\ s.fields \in [Message -> Seq([type : Message \cup Enum \cup {Scalar, Group},
                                          card : {"one", "optional", "array", "vector"}])]
         /\ s.methods \in Seq([in : Message, out : Message, streams : BOOLEAN])
         /\ s.fields[Void] = <<>>
         /\ s.misfits \subseteq Message \cup Enum

\* The TypeInfo and FieldInfo of a reply; "other" is any kind that the client has
\* no case for; loads tells whether BuildFile takes its names and numbers.
Kinds == {"message", "enum", "scalar", "other"}
TypeInfos ==
    [id : Nat, kind : Kinds, name : Message \cup Enum, loads : BOOLEAN,
     fields : Seq([kind : Kinds, typeId : Nat, repeated : BOOLEAN])]
MethodInfos == [request : Nat, response : Nat, streams : BOOLEAN]

ASSUME ForeignAssumption ==
    ForeignReplies \subseteq [types : Seq(TypeInfos), methods : Seq(MethodInfos)]

VARIABLES
    schema,    \* what was compiled
    phase,     \* "objects", "rejected", "walks", "broken", "serving", "foreign"
    declared,  \* EchoRoot::messages and enums: how many of schema.order
    todo,      \* the files whose code is still to be generated
    walk,      \* the walk under way: of a file, of the Service, or Nobody
    roots,     \* the messages the walk still has to start from
    stack,     \* the calls of CollectMessageTypes: [msg, next], the innermost last
    messages, enums, \* its results, which also stand for addedMessages, addedEnums
    defined,   \* the TypeInfo objects of the generated code
    table,     \* the service's types array, of pointers to TypeInfo objects
    reply,     \* the ServiceInfo the client received, or None
    printed,   \* what `list` printed, or None
    outcome    \* what `call` came to, or None

vars == <<schema, phase, declared, todo, walk, roots, stack, messages, enums,
          defined, table, reply, printed, outcome>>
walkVars == <<todo, walk, roots, stack, messages, enums, defined, table>>
clientVars == <<reply, printed, outcome>>

Elems(s) == {s[i] : i \in DOMAIN s}
\* The first index of x in s, 0 when it has none.
IndexIn(s, x) ==
    IF x \in Elems(s)
    THEN CHOOSE i \in DOMAIN s : s[i] = x /\ \A j \in 1..(i - 1) : s[j] # x
    ELSE 0
Indices(s) == 1..Len(s)

FieldType(m, k) == schema.fields[m][k].type

Init ==
    /\ schema \in Schemas
    /\ phase = "objects" /\ declared = 0
    /\ todo = File /\ walk = Nobody /\ roots = <<>> /\ stack = <<>>
    /\ messages = <<>> /\ enums = <<>>
    /\ defined = {<<schema.file[Void], Void>>} /\ table = <<>>
    /\ reply = None /\ printed = None /\ outcome = None

-----------------------------------------------------------------------------
\* EchoRoot: types are looked up among those that are complete.

Known == {schema.order[i] : i \in 1..declared}

\* GenerateField finds a class for the field and the type it names.
FieldResolves(f) == f.type = Scalar \/ f.type \in Known

\* EchoMethod: void stands for no parameter or no result.
MethodResolves(mt) == {mt.in, mt.out} \ {Void} \subseteq Known

\* AddEnum, AddMessage: a message is added once its fields are resolved.
TypeResolves(t) ==
    t \in Message => \A k \in Indices(schema.fields[t]) : FieldResolves(schema.fields[t][k])

AddType ==
    /\ phase = "objects" /\ declared < Len(schema.order)
    /\ TypeResolves(schema.order[declared + 1])
    /\ declared' = declared + 1
    /\ UNCHANGED <<schema, phase, walkVars, clientVars>>

AddService ==
    /\ phase = "objects" /\ declared = Len(schema.order)
    /\ \A i \in Indices(schema.methods) : MethodResolves(schema.methods[i])
    /\ phase' = "walks"
    /\ UNCHANGED <<schema, declared, walkVars, clientVars>>

\* MessageNotFound, EnumNotFound and UnsupportedFieldType end the generator.
Reject ==
    /\ phase = "objects"
    /\ IF declared < Len(schema.order)
       THEN ~TypeResolves(schema.order[declared + 1])
       ELSE \E i \in Indices(schema.methods) : ~MethodResolves(schema.methods[i])
    /\ phase' = "rejected"
    /\ UNCHANGED <<schema, declared, walkVars, clientVars>>

-----------------------------------------------------------------------------
\* CollectMessageTypes, a call at a time.

\* CollectServiceTypes: the input, then the output of each method.
ServiceMessages ==
    [j \in 1..(2 * Len(schema.methods)) |->
       LET mt == schema.methods[(j + 1) \div 2] IN IF j % 2 = 1 THEN mt.in ELSE mt.out]

WalkRoots == IF walk = Service THEN ServiceMessages ELSE schema.top[walk]

Begin(w, rs) ==
    /\ walk = Nobody
    /\ walk' = w /\ roots' = rs
    /\ messages' = <<>> /\ enums' = <<>>
    /\ UNCHANGED <<schema, phase, declared, todo, stack, defined, table, clientVars>>

GenerateFile(f) == phase = "walks" /\ f \in todo /\ Begin(f, schema.top[f])

GenerateService == phase = "walks" /\ todo = {} /\ Begin(Service, ServiceMessages)

\* Mutant: the message is added again when it is met again.
EnterAgain(m, callers) ==
    /\ messages' = Append(messages, m)
    /\ stack' = IF m \in Elems(messages) THEN callers
                ELSE Append(callers, [msg |-> m, next |-> 1])

\* Mutant: a message is to be added when the loop over its fields has ended.
EnterUnlisted(m, callers) ==
    /\ messages' = messages
    /\ stack' = IF m \in Elems(messages) THEN callers
                ELSE Append(callers, [msg |-> m, next |-> 1])

Enter(m, callers) ==
    IF m \in Elems(messages)
    THEN messages' = messages /\ stack' = callers
    ELSE /\ messages' = Append(messages, m)
         /\ stack' = Append(callers, [msg |-> m, next |-> 1])

NextRoot ==
    /\ walk # Nobody /\ stack = <<>> /\ roots # <<>>
    /\ Enter(Head(roots), <<>>)
    /\ roots' = Tail(roots)
    /\ UNCHANGED <<schema, phase, declared, todo, walk, enums, defined, table, clientVars>>

Top == stack[Len(stack)]
MoreFields == Top.next <= Len(schema.fields[Top.msg])

\* One turn of the loop over the fields of the innermost call's message.
NextField ==
    /\ stack # <<>> /\ MoreFields
    /\ LET t == FieldType(Top.msg, Top.next)
           advanced == [stack EXCEPT ![Len(stack)] = [msg |-> Top.msg, next |-> Top.next + 1]]
       IN  /\ IF t \in Message THEN Enter(t, advanced)
                               ELSE messages' = messages /\ stack' = advanced
           /\ enums' = IF t \in Enum /\ t \notin Elems(enums) THEN Append(enums, t) ELSE enums
    /\ UNCHANGED <<schema, phase, declared, todo, walk, roots, defined, table, clientVars>>

Return ==
    /\ stack # <<>> /\ ~MoreFields
    /\ stack' = SubSeq(stack, 1, Len(stack) - 1)
    /\ UNCHANGED <<schema, phase, declared, todo, walk, roots, messages, enums,
                   defined, table, clientVars>>

WalkDone == walk # Nobody /\ roots = <<>> /\ stack = <<>>

\* GenerateTypeMetadata, definitions: an object for each enum reached from the
\* file's messages and for each of these messages that is the file's own.
FileDone ==
    /\ WalkDone /\ walk # Service
    /\ defined' = defined \cup {<<walk, e>> : e \in Elems(enums)}
         \cup {<<walk, m>> : m \in {x \in Elems(messages) : x # Void /\ schema.file[x] = walk}}
    /\ todo' = todo \ {walk} /\ walk' = Nobody
    /\ UNCHANGED <<schema, phase, declared, roots, stack, messages, enums, table, clientVars>>

\* MessageTypePointer: a message's Info is its file's; TypeSymbol: an enum's is
\* of the file that is being generated.
MessagePointer(m) == <<schema.file[m], m>>
EnumPointer(f, e) == <<f, e>>

TypesArray ==
    [i \in 1..Len(messages) |-> MessagePointer(messages[i])]
      \o [i \in 1..Len(enums) |-> EnumPointer(schema.home, enums[i])]

\* The generated code compiles and links when the array's symbols are defined.
ServiceDone ==
    /\ WalkDone /\ walk = Service
    /\ table' = TypesArray
    /\ walk' = Nobody
    /\ phase' = IF Elems(TypesArray) \subseteq defined THEN "serving" ELSE "broken"
    /\ UNCHANGED <<schema, declared, todo, roots, stack, messages, enums, defined, clientVars>>

-----------------------------------------------------------------------------
\* The server: dispatch_list_services with request.full.

KindOf(t) == CASE t \in Message -> "message" [] t \in Enum -> "enum" [] OTHER -> "scalar"

\* TypePointer, in the code generated for the file of message m.
FieldPointer(m, k) ==
    LET t == FieldType(m, k)
    IN  IF t \in Enum THEN EnumPointer(schema.file[m], t) ELSE MessagePointer(t)

\* Mutant: the position in the array, counted from zero.
TypeIdFromZero(pointer) ==
    IF pointer \in Elems(table) THEN IndexIn(table, pointer) - 1 ELSE 0

\* type_id compares pointers.
TypeId(pointer) == IndexIn(table, pointer)

DescribedField(m, k) ==
    [kind |-> KindOf(FieldType(m, k)),
     typeId |-> IF KindOf(FieldType(m, k)) = "scalar" THEN 0 ELSE TypeId(FieldPointer(m, k)),
     repeated |-> schema.fields[m][k].card \in {"array", "vector"}]

DescribedType(i) ==
    LET t == table[i][2]
    IN  [id |-> i, kind |-> KindOf(t), name |-> t, loads |-> t \notin schema.misfits,
         fields |-> IF t \in Message
                    THEN [k \in Indices(schema.fields[t]) |-> DescribedField(t, k)]
                    ELSE <<>>]

DescribedMethod(mt) ==
    [request |-> TypeId(MessagePointer(mt.in)), response |-> TypeId(MessagePointer(mt.out)),
     streams |-> mt.streams]

ListServices ==
    /\ phase = "serving" /\ reply = None
    /\ reply' = [types |-> [i \in Indices(table) |-> DescribedType(i)],
                 methods |-> [j \in Indices(schema.methods) |-> DescribedMethod(schema.methods[j])]]
    /\ UNCHANGED <<schema, phase, declared, walkVars, printed, outcome>>

\* A server of other code answers: the client connects to any endpoint.
ForeignServer ==
    /\ phase = "objects" /\ declared = 0
    /\ phase' = "foreign"
    /\ reply' \in ForeignReplies
    /\ UNCHANGED <<schema, declared, walkVars, printed, outcome>>

-----------------------------------------------------------------------------
\* serialrpc list

TypesById(id) == {i \in Indices(reply.types) : reply.types[i].id = id}

\* find_type takes the first type with the id.
TypeName(id) ==
    IF TypesById(id) = {} THEN Unknown
    ELSE LET i == CHOOSE i \in TypesById(id) : \A j \in TypesById(id) : i <= j
         IN  reply.types[i].name

FieldTypeName(f) ==
    CASE f.kind \in {"message", "enum"} -> TypeName(f.typeId)
      [] f.kind = "scalar" -> Scalar
      [] OTHER -> Unknown

\* A name is printed the first time it is met; the message void and a type that
\* is neither a message nor an enum are not printed.
PrintedTypes ==
    {i \in Indices(reply.types) :
       /\ reply.types[i].kind \in {"message", "enum"}
       /\ reply.types[i].kind = "message" => reply.types[i].name # Void
       /\ \A j \in 1..(i - 1) : reply.types[j].name # reply.types[i].name}

\* print_type: of an enum it prints the values.
PrintedFields(t) ==
    IF t.kind = "message" THEN [k \in Indices(t.fields) |-> FieldTypeName(t.fields[k])] ELSE <<>>

List ==
    /\ reply # None /\ printed = None
    /\ printed' =
         [methods |-> [j \in Indices(reply.methods) |->
                         <<TypeName(reply.methods[j].request), TypeName(reply.methods[j].response)>>],
          types |-> {[name |-> reply.types[i].name, fields |-> PrintedFields(reply.types[i])] :
                       i \in PrintedTypes}]
    /\ UNCHANGED <<schema, phase, declared, walkVars, reply, outcome>>

-----------------------------------------------------------------------------
\* serialrpc call: build_method_descriptor_impl and what call() does with it.

FullDiscovery(mt) == mt.request # 0 /\ mt.response # 0 /\ reply.types # <<>>

TypesAreUsable ==
    \A i \in Indices(reply.types) :
      /\ reply.types[i].id # 0
      /\ reply.types[i].kind \in {"message", "enum"}
      /\ TypesById(reply.types[i].id) = {i}

\* message_names and enum_names
HasKind(id, kind) == \E i \in TypesById(id) : reply.types[i].kind = kind

\* Mutant: the ids of enum fields are not looked up.
FieldOfMessageIsUsable(f) ==
    /\ f.kind # "other"
    /\ f.kind = "message" => HasKind(f.typeId, f.kind)

FieldIsUsable(f) ==
    /\ f.kind # "other"
    /\ f.kind \in {"message", "enum"} => HasKind(f.typeId, f.kind)

Describable(mt) ==
    /\ FullDiscovery(mt)
    /\ TypesAreUsable
    /\ \A i \in Indices(reply.types) : reply.types[i].kind = "message" =>
         \A k \in Indices(reply.types[i].fields) : FieldIsUsable(reply.types[i].fields[k])
    /\ HasKind(mt.request, "message") /\ HasKind(mt.response, "message")

\* BuildFile: the types go into one proto3 file, each message under a name made of
\* its id and each enum as the enum Value of a message of its own.
FileLoads == \A i \in Indices(reply.types) : reply.types[i].loads

\* The messages of the dynamic file are named by the ids.
DynamicFile ==
    [id \in {reply.types[i].id : i \in Indices(reply.types)} |->
       LET i == CHOOSE i \in TypesById(id) : TRUE
       IN  [kind |-> reply.types[i].kind, fields |-> reply.types[i].fields]]

\* request_is_void and response_is_void: void is known by its name.
Sends(mt) == TypeName(mt.request) # Void
Expects(mt) == TypeName(mt.response) # Void

CallOutcome(result, j) ==
    /\ reply # None /\ outcome = None
    /\ outcome' = [result |-> result, method |-> j]
    /\ UNCHANGED <<schema, phase, declared, walkVars, reply, printed>>

CallRefused(j) == ~Describable(reply.methods[j]) /\ CallOutcome("refused", j)

\* BuildFile returns null: "could not load discovered method schema".
CallUnloadable(j) ==
    /\ Describable(reply.methods[j]) /\ ~FileLoads
    /\ CallOutcome("unloadable", j)

CallStreaming(j) ==
    /\ Describable(reply.methods[j]) /\ FileLoads /\ reply.methods[j].streams
    /\ CallOutcome("streaming", j)

CallMade(j) ==
    LET mt == reply.methods[j]
    IN  /\ Describable(mt) /\ FileLoads /\ ~mt.streams
        /\ reply # None /\ outcome = None
        /\ outcome' = [result |-> "made", method |-> j, file |-> DynamicFile,
                       in |-> mt.request, out |-> mt.response,
                       sends |-> Sends(mt), expects |-> Expects(mt)]
        /\ UNCHANGED <<schema, phase, declared, walkVars, reply, printed>>

Call == reply # None /\ \E j \in Indices(reply.methods) :
                          \/ CallRefused(j) \/ CallUnloadable(j)
                          \/ CallStreaming(j) \/ CallMade(j)

Next ==
    \/ AddType \/ AddService \/ Reject
    \/ (\E f \in File : GenerateFile(f)) \/ GenerateService
    \/ NextRoot \/ NextField \/ Return \/ FileDone \/ ServiceDone
    \/ ListServices \/ ForeignServer \/ List \/ Call

Spec == Init /\ [][Next]_vars

-----------------------------------------------------------------------------
TypeOK ==
    /\ schema \in Schemas
    /\ phase \in {"objects", "rejected", "walks", "broken", "serving", "foreign"}
    /\ declared \in 0..Len(schema.order)
    /\ todo \subseteq File /\ walk \in File \cup {Service, Nobody}
    /\ roots \in Seq(Message) /\ messages \in Seq(Message) /\ enums \in Seq(Enum)
    /\ stack \in Seq([msg : Message, next : Nat])
    /\ \A d \in 1..Len(stack) :
         /\ stack[d].msg \in Elems(messages)
         /\ stack[d].next \in 1..(Len(schema.fields[stack[d].msg]) + 1)
    /\ defined \subseteq File \X (Message \cup Enum)
    /\ table \in Seq(File \X (Message \cup Enum))

TypesUsedBy(S) == UNION {{FieldType(m, k) : k \in Indices(schema.fields[m])} : m \in S}
Closed(S) == TypesUsedBy(S) \cap Message \subseteq S
NoneTwice(s) == \A i, j \in DOMAIN s : s[i] = s[j] => i = j

\* A finished walk has found the messages that can be reached from where it
\* started, no other ones, each once, and exactly the enums they use, whatever
\* the order of the fields and however often a type is met (CollectMessageTypes
\* and its sets; README.md: "without repeating a type used by several methods").
WalkIsClosure ==
    WalkDone =>
      LET found == Elems(messages)
      IN  /\ Elems(WalkRoots) \subseteq found /\ Closed(found)
          /\ \A S \in SUBSET Message : Elems(WalkRoots) \subseteq S /\ Closed(S) => found \subseteq S
          /\ Elems(enums) = TypesUsedBy(found) \cap Enum
          /\ NoneTwice(messages) /\ NoneTwice(enums)

\* The enums are used by messages of the service's own file only.
EnumsStayHome ==
    \A m \in Message : schema.file[m] # schema.home => TypesUsedBy({m}) \cap Enum = {}

\* The messages that can be reached from T.
ReachedFrom(T) ==
    {m \in Message : \A S \in SUBSET Message : T \subseteq S /\ Closed(S) => m \in S}

\* Each message can be reached from a message of its file that is not nested.
NestedAreReached ==
    \A m \in Elems(schema.order) \cap Message : m \in ReachedFrom(Elems(schema.top[schema.file[m]]))

Position(t) ==
    CASE t \in Message -> IndexIn(messages, t)
      [] t \in Enum -> Len(messages) + IndexIn(enums, t)
      [] OTHER -> 0

\* The schema that the client built describes the service's types: through
\* pointers, positions, ids and names, each field has the type it was declared
\* with, and a request or response is left out only for void.
SchemaIsTheService ==
    LET mt == schema.methods[outcome.method]
    IN  /\ outcome.in = Position(mt.in) /\ outcome.out = Position(mt.out)
        /\ outcome.sends = (mt.in # Void) /\ outcome.expects = (mt.out # Void)
        /\ \A m \in Elems(messages) :
             outcome.file[Position(m)] =
               [kind |-> "message",
                fields |-> [k \in Indices(schema.fields[m]) |->
                              [kind |-> KindOf(FieldType(m, k)), typeId |-> Position(FieldType(m, k)),
                               repeated |-> schema.fields[m][k].card \in {"array", "vector"}]]]

\* A client without the .proto files sees the service as it was declared
\* (README.md: "lets host tools inspect and call methods without local .proto
\* files"): list prints its types with no unknown name and call builds the same
\* schema.  Call fails to describe the service only when a message of an imported
\* file has an enum field, and to load the description only when a type of the
\* service is one that protobuf does not take in the file call builds for it
\* (call.cc:310-317, 331-335, 404-408); the generated code fails to link only when
\* an imported message has an enum field, and when no field leads to a nested
\* message (GenerateTypeMetadata starts from the messages of the file, dispatch
\* from the ones the methods name).
DescriptionSurvives ==
    /\ EnumsStayHome /\ NestedAreReached => phase # "broken"
    /\ phase = "serving" /\ outcome # None =>
         /\ EnumsStayHome => outcome.result # "refused"
         /\ outcome.result = "unloadable" =>
              schema.misfits \cap (Elems(messages) \cup Elems(enums)) # {}
         /\ outcome.result = "made" => SchemaIsTheService
    /\ phase = "serving" /\ printed # None /\ EnumsStayHome =>
         printed.types = {[name |-> m, fields |-> [k \in Indices(schema.fields[m]) |-> FieldType(m, k)]] :
                            m \in Elems(messages) \ {Void}}
                         \cup {[name |-> e, fields |-> <<>>] : e \in Elems(enums)}

\* The two commands read the reply independently and agree on it, whatever
\* server sent it: a service of which list cannot name a type is never called.
ListAndCallAgree ==
    printed # None /\ outcome # None /\ outcome.result # "refused" =>
      /\ \A t \in printed.types : Unknown \notin Elems(t.fields)
      /\ Unknown \notin Elems(printed.methods[outcome.method])

\* README.md:148: "lets host tools inspect and call methods without local
\* .proto files".
CallNeedsNoProto == phase = "serving" /\ outcome # None =>
    outcome.result \notin {"refused", "unloadable"}

=============================================================================
