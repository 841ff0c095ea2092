------------------------------- MODULE Schema -------------------------------
(***************************************************************************)
(* The definition of tables: what TPrimitiveFieldInfo (lib/relation/field) *)
(* reads of the options of a field, the queries of the organizer that make *)
(* and drop a table, the text TPostgresBuilder writes for them and for the *)
(* operations on columns, and how the server, which is external, reads it. *)
(***************************************************************************)
EXTENDS Relations, SqlText

CONSTANTS
    SixDigits,      \* the numbers that a stream does not write as they are,
                    \* with what it writes
    EnumIndex,      \* the place of each name in its enum
    EnumNumber      \* and its number

Unset == "unset"

ASSUME SchemaAssumption == DOMAIN EnumIndex = DOMAIN EnumNumber

-----------------------------------------------------------------------------
(* TPrimitiveFieldInfo.                                                    *)

ZeroValue ==
    [bool |-> "false", int32 |-> "0", uint32 |-> "0", int64 |-> "0",
     uint64 |-> "0", float |-> "0", double |-> "0", string |-> "", bytes |-> "",
     enum |-> "0"]

\* TypeInfo_: the value of bytes is not kept, that of an enum is the index of
\* its name, 0 if there is no such name.  Nobody sets `increment'.
TypeInfo(f) ==
    [type |-> f.type, increment |-> FALSE,
     value |->
        IF f.default = Unset \/ f.type = "bytes" THEN ZeroValue[f.type]
        ELSE IF f.type # "enum" THEN f.default
        ELSE IF f.default \in DOMAIN EnumIndex THEN EnumIndex[f.default] ELSE "0"]

FieldInfo(f) ==
    [info |-> TypeInfo(f), hasDefault |-> f.default # Unset,
     required |-> f.required, primaryKey |-> f.primary]

-----------------------------------------------------------------------------
(* The text.                                                               *)

GetPostgresType(info) ==
    LET serial == [int32 |-> "SERIAL", uint32 |-> "SERIAL", int64 |-> "BIGSERIAL",
                   uint64 |-> "BIGSERIAL"]
        plain == [bool |-> "BOOLEAN", int32 |-> "INTEGER", uint32 |-> "INTEGER",
                  int64 |-> "BIGINT", uint64 |-> "BIGINT", float |-> "REAL",
                  double |-> "DOUBLE PRECISION", string |-> "TEXT",
                  bytes |-> "BYTEA", enum |-> "INTEGER"]
    IN IF info.increment /\ info.type \in DOMAIN serial THEN serial[info.type]
       ELSE plain[info.type]

Digits(value) == IF value \in DOMAIN SixDigits THEN SixDigits[value] ELSE value

Upper == [true |-> "TRUE", false |-> "FALSE"]

\* The default in the definition of a column.
DefaultText(info) ==
    CASE info.type = "bool" -> <<<<"DEFAULT">>, <<"value", Upper[info.value]>>>>
      [] info.type \in {"float", "double"} ->
            <<<<"DEFAULT">>, <<"value", Digits(info.value)>>>>
      [] info.type = "string" ->
            <<<<"DEFAULT">>, <<"literal", EscapeStringLiteral(Spelled(info.value))>>>>
      [] info.type = "bytes" -> <<>>
      [] OTHER -> IF info.increment THEN <<>>
                  ELSE <<<<"DEFAULT">>, <<"value", info.value>>>>

\* Faulty: a field below a message is named by its number.
ColumnNameFlat(m, p) == <<"f", <<Last(p)>>>>

\* FieldToString with EKeyType::Simple, of GetField(): the path below the table.
ColumnName(m, p) ==
    <<"f", SubSeq(p, Len(GetParentTable(m, p).path) + 1, Len(p))>>

TableToken(path) == <<"t", path>>

ColumnDefinition(m, p) ==
    LET field == FieldInfo(FieldAt(p)) IN
    <<ColumnName(m, p), <<GetPostgresType(field.info)>>>>
        \o (IF field.required THEN <<<<"NOT NULL">>>> ELSE <<>>)
        \o (IF field.hasDefault THEN DefaultText(field.info) ELSE <<>>)
        \o (IF field.primaryKey THEN <<<<"PRIMARY KEY">>>> ELSE <<>>)

InSomeOrder(S) == FoldSet(LAMBDA x, done : Append(done, x), <<>>, S)

Comma == <<",">>

\* What CreateTable and DeleteTable of the organizer hand to the builder: one
\* clause with the table.  A table that is not known is an exception.
CreateTable(m, t) == [type |-> "CreateTable", table |-> GetParentTable(m, <<t>>)]

DeleteTable(m, t) == [type |-> "DropTable", table |-> GetParentTable(m, <<t>>)]

\* The fields come in the order of a hash set, which is any order; what the
\* server makes of them does not depend on it.
BuildCreateTable(m, clause) ==
    LET table == clause.table
        fields == InSomeOrder(table.fields)
        column(k) == IF Find(m.PrimitiveFieldsByPath, k) = Null THEN <<>>
                     ELSE ColumnDefinition(m, Find(m.PrimitiveFieldsByPath, k).path)
    IN <<<<"CREATE TABLE">>, TableToken(table.path), <<"(">>>>
           \o Separated([i \in DOMAIN fields |-> column(fields[i])], Comma) \o <<<<")">>>>

BuildDropTable(clause) == <<<<"DROP TABLE">>, TableToken(clause.table.path)>>

-----------------------------------------------------------------------------
(* Operations on columns.                                                  *)

\* A column of the table of p, to be changed by one of the setters.
Operation(kind, p, info) == [kind |-> kind, path |-> p, info |-> info]

Setters == {"SetType", "SetDefault", "DropDefault", "SetRequired", "DropRequired"}

\* The EAlterType a setter of TAlterColumn leaves.
AlterType(setter) == IF setter = "SetDefault" THEN "DropDefault" ELSE setter

GetPostgresDefault(info) ==
    CASE info.type = "bool" -> <<"value", Upper[info.value]>>
      [] info.type \in {"float", "double"} -> <<"value", Decimal(info.value)>>
      [] info.type = "string" ->
            <<"literal", EscapeStringLiteral(Spelled(info.value))>>
      [] info.type = "bytes" -> <<"cast", "''", "bytes">>
      [] info.type = "enum" \/ ~info.increment -> <<"value", info.value>>
      [] OTHER -> <<"NULL">>

BuildAlterColumn(m, o) ==
    <<<<"ALTER COLUMN">>, ColumnName(m, o.path)>> \o
        CASE AlterType(o.kind) = "SetType" -> <<<<"TYPE">>, <<GetPostgresType(o.info)>>>>
          [] AlterType(o.kind) = "SetDefault" ->
                <<<<"SET DEFAULT">>, GetPostgresDefault(o.info)>>
          [] AlterType(o.kind) = "DropDefault" -> <<<<"DROP NOT NULL">>>>
          [] AlterType(o.kind) = "SetRequired" -> <<<<"SET NOT NULL">>>>
          [] AlterType(o.kind) = "DropRequired" -> <<<<"DROP NOT NULL">>>>

BuildAddColumn(m, o) == <<<<"ADD COLUMN">>>> \o ColumnDefinition(m, o.path)

BuildDropColumn(m, o) == <<<<"DROP COLUMN">>, ColumnName(m, o.path)>>

BuildOperation(m, o) ==
    CASE o.kind = "Add" -> BuildAddColumn(m, o)
      [] o.kind = "Drop" -> BuildDropColumn(m, o)
      [] OTHER -> BuildAlterColumn(m, o)

\* No space separates the table, that of the first operation, from the first
\* word: they are one.
BuildAlterTable(m, operations) ==
    LET table == TableToken(GetParentTable(m, operations[1].path).path)
        built(i) == BuildOperation(m, operations[i])
        text == Separated([i \in DOMAIN operations |-> built(i)], Comma)
    IN <<<<"ALTER TABLE">>, table \o Head(text)>> \o Tail(text)

-----------------------------------------------------------------------------
(* The server.                                                             *)

NoDefault == <<"none">>

ReadDefault(piece) ==
    LET at == {i \in DOMAIN piece : piece[i] = <<"DEFAULT">>} IN
    IF at = {} THEN NoDefault
    ELSE LET token == piece[1 + CHOOSE i \in at : TRUE]
         IN IF token[1] = "literal" THEN <<"string", ReadLiteral(token[2])>> ELSE token

ReadColumn(piece) ==
    [name |-> piece[1][2], type |-> piece[2][1], default |-> ReadDefault(piece),
     required |-> <<"NOT NULL">> \in ToSet(piece),
     key |-> <<"PRIMARY KEY">> \in ToSet(piece)]

Refused == [table |-> <<>>, columns |-> {}]

\* A name, a type and more for each column, names that differ, and one key.
ReadTable(text) ==
    LET pieces == Split(SubSeq(text, 4, Len(text) - 1), Comma)
        columns == {ReadColumn(piece) : piece \in ToSet(pieces)}
    IN IF \/ \E piece \in ToSet(pieces) : Len(piece) < 2
          \/ Cardinality({c.name : c \in columns}) < Len(pieces)
          \/ Cardinality({c \in columns : c.key}) > 1
       THEN Refused ELSE [table |-> text[2][2], columns |-> columns]

ReadOperation(piece) ==
    CASE piece[1] = <<"ADD COLUMN">> -> <<"Add", ReadColumn(Tail(piece))>>
      [] piece[1] = <<"DROP COLUMN">> -> <<"Drop", piece[2][2]>>
      [] piece[1] = <<"ALTER COLUMN">> ->
            <<CASE piece[3] = <<"TYPE">> -> "SetType"
                [] piece[3] = <<"SET DEFAULT">> -> "SetDefault"
                [] piece[3] = <<"DROP DEFAULT">> -> "DropDefault"
                [] piece[3] = <<"SET NOT NULL">> -> "SetRequired"
                [] piece[3] = <<"DROP NOT NULL">> -> "DropRequired",
              piece[2][2]>>

\* The name of a table and a word after it.
ReadsAlterTable(text) ==
    Len(text[2]) = 2 /\ Len(text) > 2 /\ text[3] \in
        {<<"ADD COLUMN">>, <<"DROP COLUMN">>, <<"ALTER COLUMN">>}

-----------------------------------------------------------------------------
(* Properties.                                                             *)

\* The bits of the numbers that a column, or a field, may have.
Bits ==
    [INTEGER |-> 31, BIGINT |-> 63, int32 |-> 31, uint32 |-> 32, int64 |-> 63,
     uint64 |-> 64, enum |-> 31]

\* A value of the field may be put into the column.
Holds(column, f) ==
    CASE f.type \in DOMAIN Bits ->
            column.type \in DOMAIN Bits /\ Bits[column.type] >= Bits[f.type]
      [] f.type = "bool" -> column.type = "BOOLEAN"
      [] f.type = "float" -> column.type \in {"REAL", "DOUBLE PRECISION"}
      [] f.type = "double" -> column.type = "DOUBLE PRECISION"
      [] f.type = "string" -> column.type = "TEXT"
      [] f.type = "bytes" -> column.type = "BYTEA"

\* The default that the declaration means.
Declared(f) ==
    CASE f.default = Unset -> NoDefault
      [] f.type = "string" -> <<"string", Spelled(f.default)>>
      [] f.type = "bool" -> <<"value", Upper[f.default]>>
      [] f.type = "enum" -> <<"value", IF f.default \in DOMAIN EnumNumber
                                       THEN EnumNumber[f.default] ELSE "refused">>
      [] OTHER -> <<"value", f.default>>

\* Bytes, strings with what needs no escape in a literal, numbers of more
\* digits, names unknown to the enum or whose numbers are not their places.
DefaultLost(f) ==
    /\ f.default # Unset
    /\ \/ f.type = "bytes"
       \/ f.type = "string" /\ LiteralLost(f.default)
       \/ f.type \in {"float", "double"} /\ Digits(f.default) # f.default
       \/ f.type = "enum" /\ <<"value", TypeInfo(f).value>> # Declared(f)

Known(t) == Key[<<t>>] \in DOMAIN manager.TableByPath

FieldsOf(t) == {p \in Paths \ Messages : p[1] = t}

TablesReadBack(t) ==
    LET read == ReadTable(BuildCreateTable(manager, CreateTable(manager, t)))
        keys == {p \in FieldsOf(t) : FieldAt(p).primary}
        column(p) == CHOOSE c \in read.columns : c.name = Tail(p)
    IN /\ read = Refused <=> Cardinality(keys) > 1
       /\ BuildDropTable(DeleteTable(manager, t))[2] = TableToken(<<t>>)
       /\ read # Refused =>
             /\ read.table = <<t>>
             /\ {c.name : c \in read.columns} = {Tail(p) : p \in FieldsOf(t)}
             /\ \A p \in FieldsOf(t) :
                   LET f == FieldAt(p) IN
                   /\ column(p).required = f.required /\ column(p).key = f.primary
                   /\ Holds(column(p), f) <=> f.type \notin {"uint32", "uint64"}
                   /\ column(p).default = Declared(f) <=> ~DefaultLost(f)

\* The reading of an operation as it was meant.
Meant(o) ==
    IF o.kind = "Add" THEN <<"Add", ReadColumn(ColumnDefinition(manager, o.path))>>
    ELSE <<o.kind, Tail(o.path)>>

\* All that may be done to a column of the table, in one text.
AltersReadBack(t) ==
    LET p == CHOOSE p \in FieldsOf(t) : TRUE
        operations == InSomeOrder({Operation(kind, p, TypeInfo(FieldAt(p))) :
                                 kind \in Setters \cup {"Add", "Drop"}})
        built(i) == BuildOperation(manager, operations[i])
        text == Separated([i \in DOMAIN operations |-> built(i)], Comma)
        pieces == Split(text, Comma)
    IN /\ \A i \in DOMAIN operations :
             LET o == operations[i] IN
             ReadOperation(pieces[i]) =
                IF o.kind \in {"SetDefault", "DropDefault"}
                THEN Meant([o EXCEPT !.kind = "DropRequired"]) ELSE Meant(o)
       /\ ~ReadsAlterTable(BuildAlterTable(manager, operations))

(***************************************************************************)
(* DefinitionsReadBack: whatever was registered, again, or before the last *)
(* Clear, the CREATE TABLE of a table is refused by the server if there    *)
(* are two keys in it or in the messages below it, and is read else as one *)
(* column for each field, with its key, its NOT NULL, a type that holds    *)
(* its values unless they are unsigned, and its default unless text loses  *)
(* that.  Operations on columns are read as they were meant, those on a    *)
(* default as DROP NOT NULL, and none of them inside an ALTER TABLE        *)
(* (postgres.cpp:612-669, 956-1060; builder_base.h:766-769).               *)
(***************************************************************************)
DefinitionsReadBack ==
    \A t \in Tables : Known(t) /\ FieldsOf(t) # {} =>
        TablesReadBack(t) /\ AltersReadBack(t)

=============================================================================
