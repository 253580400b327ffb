---------------------------- MODULE MCTypeTable ----------------------------
(***************************************************************************)
(* Schemas for TypeTable: types shared by several messages, a repeated     *)
(* message, void, types used before they are declared, a message that      *)
(* contains itself, nested messages, and messages and enums of an imported *)
(* file.                                                                   *)
(***************************************************************************)
EXTENDS TypeTable, TLC

CONSTANTS A, B, C, D, E, F, Home, Import

One(t) == [type |-> t, card |-> "one"]
Many(t) == [type |-> t, card |-> "vector"]
Method(in, out) == [in |-> in, out |-> out, streams |-> FALSE]
Events(in, out) == [in |-> in, out |-> out, streams |-> TRUE]

AllMessages == {A, B, C, D, Void}
AllEnums == {E, F}

\* imported names the types of the file Import.
Schema(order, imported, a, b, c, d, methods) ==
    [order |-> order, home |-> Home, methods |-> methods, misfits |-> {},
     top |-> [f \in File |-> SelectSeq(order, LAMBDA t : t \in AllMessages
                                                        /\ (t \in imported <=> f = Import))],
     file |-> [t \in AllMessages \cup AllEnums |-> IF t \in imported THEN Import ELSE Home],
     fields |-> (A :> a) @@ (B :> b) @@ (C :> c) @@ (D :> d) @@ (Void :> <<>>)]

\* A diamond over a shared message, with an enum met twice.
Diamond == Schema(<<E, F, D, B, C, A>>, {Void}, <<One(B), Many(C)>>, <<One(D), One(E)>>,
                  <<Many(D), One(E), One(F)>>, <<One(Scalar)>>,
                  <<Method(A, B), Method(C, Void)>>)
Streaming == Schema(<<E, A, B, C, D>>, {Void}, <<One(Scalar)>>, <<One(E), One(A)>>, <<>>, <<>>,
                    <<Method(Void, Void), Events(A, B)>>)
\* D is of no method.
Unused == Schema(<<F, D, C, B, A>>, {Void}, <<Many(C)>>, <<>>, <<One(Scalar)>>, <<One(F)>>,
                 <<Method(A, C)>>)
ImportsMessage == Schema(<<D, E, C, B, A>>, {Void, D}, <<One(D), One(E)>>, <<Many(D)>>, <<>>,
                         <<One(Scalar), Many(Scalar)>>, <<Method(A, B)>>)
\* The field of an imported message has an enum of its own file.
ImportsEnumUser == Schema(<<E, D, C, B, A>>, {Void, D, E}, <<One(D)>>, <<One(E)>>, <<>>,
                          <<One(E)>>, <<Method(A, B)>>)
\* No message of the service's own file reaches the enum.
OnlyImportUsesEnum == Schema(<<E, D, C, B, A>>, {Void, D, E}, <<>>, <<>>, <<>>,
                             <<One(E)>>, <<Method(A, D)>>)
UsedBefore == Schema(<<E, A, B, C, D>>, {Void}, <<One(B)>>, <<>>, <<>>, <<>>, <<Method(A, B)>>)
Recursive == Schema(<<E, A, B, C, D>>, {Void}, <<Many(A)>>, <<>>, <<>>, <<>>, <<Method(A, B)>>)
HasGroup == Schema(<<E, A, B, C, D>>, {Void}, <<One(Group)>>, <<>>, <<>>, <<>>, <<Method(A, B)>>)
HasVoidField == Schema(<<E, A, B, C, D>>, {Void}, <<One(Void)>>, <<>>, <<>>, <<>>, <<Method(A, B)>>)
Undeclared == Schema(<<E, A, B, C>>, {Void}, <<>>, <<>>, <<>>, <<>>, <<Method(A, D)>>)
\* D is nested in A, which has no field of it, and a method returns it.
ReturnsNested ==
    [Schema(<<E, D, A, B, C>>, {Void}, <<One(E)>>, <<One(A)>>, <<>>, <<One(Scalar)>>,
            <<Method(A, D)>>) EXCEPT !.top[Home] = <<A, B, C>>]
\* As before, but A has a field of it.
UsesNested ==
    [Schema(<<E, D, A, B, C>>, {Void}, <<One(E), One(D)>>, <<One(A)>>, <<>>, <<One(E)>>,
            <<Method(A, D)>>) EXCEPT !.top[Home] = <<A, B, C>>]
\* An enum with a value named Value; in the second, of no method.
Misfit == [Streaming EXCEPT !.misfits = {E}]
UnusedMisfit == [Unused EXCEPT !.misfits = {F}]

AllSchemas == {Diamond, Streaming, Unused, ImportsMessage, ImportsEnumUser, OnlyImportUsesEnum,
               UsedBefore, Recursive, HasGroup, HasVoidField, Undeclared, ReturnsNested, UsesNested,
               Misfit, UnusedMisfit}

Entry(id, kind, name, fields) ==
    [id |-> id, kind |-> kind, name |-> name, fields |-> fields, loads |-> TRUE]
Field(kind, typeId) == [kind |-> kind, typeId |-> typeId, repeated |-> FALSE]
Reply(types, request, response) ==
    [types |-> types, methods |-> <<[request |-> request, response |-> response, streams |-> FALSE]>>]
MessageA(fields) == Entry(1, "message", A, fields)
EnumE == Entry(2, "enum", E, <<>>)
EnumNamedVoid == Entry(2, "enum", Void, <<Field("message", 9)>>)

AllForeign == {
    Reply(<<>>, 0, 0),                                        \* not full
    Reply(<<MessageA(<<Field("enum", 2)>>), EnumE>>, 1, 1),   \* as ours
    Reply(<<MessageA(<<Field("enum", 2)>>), [EnumE EXCEPT !.loads = FALSE]>>, 1, 1),
    Reply(<<MessageA(<<Field("enum", 2)>>), EnumNamedVoid>>, 1, 1),
    Reply(<<MessageA(<<>>), Entry(7, "message", B, <<Field("message", 1)>>)>>, 7, 1),
    Reply(<<MessageA(<<Field("enum", 3)>>), EnumE>>, 1, 1),
    Reply(<<MessageA(<<Field("message", 9)>>), EnumE>>, 1, 1),
    Reply(<<MessageA(<<Field("enum", 1)>>), EnumE>>, 1, 1),
    Reply(<<MessageA(<<Field("other", 0)>>), EnumE>>, 1, 1),
    Reply(<<MessageA(<<>>), Entry(1, "message", B, <<>>)>>, 1, 1),
    Reply(<<MessageA(<<>>), Entry(0, "message", B, <<>>)>>, 1, 1),
    Reply(<<MessageA(<<>>), Entry(2, "other", B, <<>>)>>, 1, 1),
    Reply(<<MessageA(<<>>), EnumE>>, 1, 2),
    Reply(<<MessageA(<<>>), EnumE>>, 4, 1)}
=============================================================================
