---------------------------- MODULE MCRelations -----------------------------
(***************************************************************************)
(* Two schemas for Relations.  In the first, table 1 has a message with a  *)
(* message in it and a repeated message, and three keys; table 2 fields of *)
(* all types in a message; and table 3 an unknown scheme.  In the second,  *)
(* one message has a field of number 66.                                   *)
(***************************************************************************)
EXTENDS Schema, PathHash

Typed(name, number, type, default) ==
    [name |-> name, number |-> number, message |-> FALSE, repeated |-> FALSE,
     primary |-> FALSE, type |-> type, required |-> FALSE, default |-> default]

Field(name, number) == Typed(name, number, "int32", Unset)

PrimaryKey(name, number) == [Field(name, number) EXCEPT !.primary = TRUE]

Message(name, number) == [Field(name, number) EXCEPT !.message = TRUE]

Repeated(field) == [field EXCEPT !.repeated = TRUE]

Required(field) == [field EXCEPT !.required = TRUE]

\* The strings are: it's, and a\b.
Spelling0 == [its |-> <<"i", "t", "'", "s">>, slash |-> <<"a", "\\", "b">>]

SixDigits0 == "1234567.5" :> "1.23457e+06"

SixDecimals0 == "1234567.5" :> "1234567.500000"

EnumIndex0 == [second |-> "1", third |-> "2"]

EnumNumber0 == [second |-> "1", third |-> "5"]

NarrowName == <<"nested", "simple", "unknown">>

NarrowFields ==
       <<1>> :> <<PrimaryKey("id", 1), Message("simple", 2),
                  Repeated(Message("tags", 3))>>
    @@ <<1, 2>> :> <<Message("meta", 3), PrimaryKey("id", 1)>>
    @@ <<1, 2, 3>> :> <<Field("id", 1)>>
    @@ <<1, 3>> :> <<PrimaryKey("id", 2)>>
    @@ <<2>> :> <<PrimaryKey("id", 1), Required(Typed("name", 2, "string", "its")),
                  Message("more", 3)>>
    @@ <<2, 3>> :> <<Typed("flag", 1, "bool", "true"), Typed("size", 2, "uint32", "7"),
                     Typed("ratio", 3, "double", "1234567.5"),
                     Typed("text", 4, "string", "slash"),
                     Typed("kind", 5, "enum", "second"), Typed("far", 6, "enum", "third"),
                     Typed("any", 7, "enum", "nobody"), Typed("blob", 8, "bytes", "its")>>
    @@ <<3>> :> <<>>

WideFields ==
       <<1>> :> <<Message("wide", 1), Message("other", 2)>>
    @@ <<1, 1>> :> <<Field("late", 66)>>
    @@ <<1, 2>> :> <<Field("early", 1)>>

WideName == <<"wide">>

WideAsked == {<<1, 1, 66>>}

NarrowAsked == {<<1>>, <<1, 2, 3>>, <<1, 2, 1>>}

Hashes == [p \in Paths \cup Asked \cup {<<>>} |-> GetHash(p)]

Key0 == Hashes

=============================================================================
