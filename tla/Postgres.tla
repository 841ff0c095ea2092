------------------------------ MODULE Postgres ------------------------------
(***************************************************************************)
(* TPostgresBuilder (lib/query_builder/builders): the text of expressions  *)
(* and of the statements on rows.                                          *)
(***************************************************************************)
EXTENDS Organizer, SqlText

One == {"count", "sum", "avg", "min", "max", "upper", "lower", "length", "abs",
        "exists", "trim", "ceil", "floor", "sqrt", "sin", "cos", "tan",
        "array_agg", "json_agg", "not_", "is_null", "is_not_null"}

Infix ==
    [add |-> "+", subtract |-> "-", multiply |-> "*", divide |-> "/", modulo |-> "%",
     equals |-> "=", not_equals |-> "<>", greater_than |-> ">", less_than |-> "<",
     greater_than_or_equals |-> ">=", less_than_or_equals |-> "<=",
     and_ |-> "AND", or_ |-> "OR", like |-> "LIKE", ilike |-> "ILIKE",
     similar_to |-> "SIMILAR TO", regexp_match |-> "~"]

Suffix == [is_null |-> "IS NULL", is_not_null |-> "IS NOT NULL"]

Membership == [in |-> "IN", not_in |-> "NOT IN"]

\* Those written as a name and a list.  A logarithm to a base is written with
\* the base first.
Function ==
    [exponent |-> "POWER", power |-> "POWER", count |-> "COUNT", sum |-> "SUM",
     avg |-> "AVG", min |-> "MIN", max |-> "MAX", concat |-> "CONCAT",
     upper |-> "UPPER", lower |-> "LOWER", length |-> "LENGTH", abs |-> "ABS",
     round |-> "ROUND", coalesce |-> "COALESCE", exists |-> "EXISTS",
     replace |-> "REPLACE", trim |-> "TRIM", left |-> "LEFT", right |-> "RIGHT",
     split_part |-> "SPLIT_PART", ceil |-> "CEIL", floor |-> "FLOOR",
     sqrt |-> "SQRT", random |-> "RANDOM", sin |-> "SIN", cos |-> "COS",
     tan |-> "TAN", array_agg |-> "ARRAY_AGG", string_agg |-> "STRING_AGG",
     json_agg |-> "JSON_AGG", greatest |-> "GREATEST", least |-> "LEAST"]

Two == DOMAIN Infix \cup {"exponent", "power", "left", "right", "position", "string_agg"}

Three == {"between", "replace", "split_part"}

\* The ASSERTs and THROWs on the number of operands.
Accepts(type, n) ==
    \/ type \in One /\ n = 1
    \/ type \in Two /\ n = 2
    \/ type \in Three /\ n = 3
    \/ type \in {"round", "log"} /\ n \in {1, 2}
    \/ type = "substring" /\ n \in {2, 3}
    \/ type \in {"in", "not_in", "concat"} /\ n >= 2
    \/ type \in {"coalesce", "greatest", "least"} /\ n >= 1
    \/ type = "random" /\ n = 0
    \/ type = "case_" /\ n >= 3 /\ n % 2 = 1

RECURSIVE Builds(_)
Builds(b) ==
    /\ b.kind = "Expression" => Accepts(b.type, Len(b.operands))
    /\ \A i \in DOMAIN Children(b) : Builds(Children(b)[i])

-----------------------------------------------------------------------------
Listed(texts) == Separated(texts, <<",">>)

\* Faulty: no braces around and, or.
BareInfix(type, x, y) ==
    LET text == x \o <<<<Infix[type]>>>> \o y
    IN IF type \in {"and_", "or_"} THEN text ELSE Braced(text)

BuildInfix(type, x, y) == Braced(x \o <<<<Infix[type]>>>> \o y)

BuildFunction(name, texts) == <<<<name>>>> \o Braced(Listed(texts))

BuildCase(x) ==
    LET n == Len(x)
        branch(i) == <<<<"WHEN">>>> \o x[2 * i - 1] \o <<<<"THEN">>>> \o x[2 * i]
    IN <<<<"CASE">>>> \o FlattenSeq([i \in 1..(n \div 2) |-> branch(i)])
           \o <<<<"ELSE">>>> \o x[n] \o <<<<"END">>>>

\* The text of an expression from the texts of its operands.
BuildExpression(type, x) ==
    CASE type \in DOMAIN Infix -> BuildInfix(type, x[1], x[2])
      [] type = "not_" -> <<<<"NOT">>>> \o x[1]
      [] type \in DOMAIN Suffix -> x[1] \o <<<<Suffix[type]>>>>
      [] type \in DOMAIN Membership ->
            x[1] \o <<<<Membership[type]>>>> \o Braced(Listed(Tail(x)))
      [] type = "between" ->
            Braced(x[1] \o <<<<"BETWEEN">>>> \o x[2] \o <<<<"AND">>>> \o x[3])
      [] type \in DOMAIN Function -> BuildFunction(Function[type], x)
      [] type = "log" -> IF Len(x) = 1 THEN BuildFunction("LN", x)
                         ELSE BuildFunction("LOG", <<x[2], x[1]>>)
      [] type = "substring" ->
            <<<<"SUBSTRING">>>> \o Braced(x[1] \o <<<<"FROM">>>> \o x[2] \o
                IF Len(x) = 3 THEN <<<<"FOR">>>> \o x[3] ELSE <<>>)
      [] type = "position" ->
            <<<<"POSITION">>>> \o Braced(x[1] \o <<<<"IN">>>> \o x[2])
      [] type = "case_" -> BuildCase(x)

\* Stack_.at(1) is the kind of the clause this one is built for, "" if none.
SelectBraces(enclosing) ==
    enclosing \in {"Expression", "Select", "Update", "Insert", "Delete"}

Keyword == [where |-> "WHERE", group_by |-> "GROUP BY", having |-> "HAVING",
            order_by |-> "ORDER BY", limit |-> "LIMIT"]

BuildTable(path) == <<"table", path>>

JoinWord == [Left |-> "LEFT JOIN", Inner |-> "INNER JOIN",
             ExclusiveLeft |-> "LEFT OUTER JOIN"]

\* A TJoin: `parts' has its condition.  No query is organized into one.
Join(type, table, condition) ==
    [Clause("Join", type, table) EXCEPT !.parts = [on |-> condition]]

\* From here on, the clause b is written from the texts of its operands, rows
\* and parts.
BuildJoin(b, parts) ==
    <<<<JoinWord[b.type]>>, BuildTable(b.value), <<"ON">>>> \o parts["on"]

BuildParts(b, parts) ==
    LET part(p) == <<<<Keyword[p]>>>> \o parts[p]
    IN FlattenSeq([i \in DOMAIN PartsOf(b) |-> part(PartsOf(b)[i])])

\* The joins of a select are its rows.
BuildSelect(b, texts, joins, parts, enclosing) ==
    LET select == <<<<"SELECT">>>>
                  \o (IF texts = <<>> THEN <<<<"*">>>> ELSE Listed(texts))
                  \o <<<<"FROM">>, BuildTable(b.value)>>
                  \o FlattenSeq([i \in DOMAIN joins |-> joins[i][1]])
                  \o BuildParts(b, parts)
    IN IF SelectBraces(enclosing) THEN Braced(select) ELSE select

Assignments(pairs) ==
    Listed([i \in DOMAIN pairs |-> pairs[i][1] \o <<<<"=">>>> \o pairs[i][2]])

BuildValues(rows) ==
    IF rows = <<>> THEN <<>>
    ELSE <<<<"VALUES">>>> \o Listed([i \in DOMAIN rows |-> Braced(Listed(rows[i]))])

\* IsValues_ is set with the rows, as the organizer does: it is also set without
\* only for DEFAULT VALUES, which the organizer never asks for.
BuildInsert(b, texts, rows, parts) ==
    <<<<"INSERT INTO">>, BuildTable(b.value)>>
        \o (IF texts = <<>> THEN <<>> ELSE Braced(Listed(texts))) \o BuildValues(rows)
        \o (IF "do_update" \in DOMAIN parts
            THEN <<<<"ON CONFLICT DO UPDATE SET">>>> \o parts["do_update"] ELSE <<>>)

BuildUpdate(b, rows, parts) ==
    <<<<"UPDATE">>, BuildTable(b.value), <<"SET">>>> \o Assignments(rows)
        \o BuildParts(b, parts)

BuildDelete(b, parts) ==
    <<<<"DELETE FROM">>, BuildTable(b.value)>> \o BuildParts(b, parts)

BuildTruncate(b) == <<<<"TRUNCATE TABLE">>, BuildTable(b.value)>>

\* A transaction that is read only is one of type "read_only".
BuildStartTransaction(b) ==
    IF b.type = "read_only" THEN <<<<"BEGIN">>, <<"READ ONLY">>>> ELSE <<<<"BEGIN">>>>

BuildColumn(b, residue) == <<<<IF b.type = "" THEN residue ELSE b.type, b.value>>>>

\* `residue' is what the uninitialised type of a column happens to be.
RECURSIVE Text(_, _, _)
Text(b, enclosing, residue) ==
    LET text(c) == Text(c, b.kind, residue)
        texts == [i \in DOMAIN b.operands |-> text(b.operands[i])]
        rows == [i \in DOMAIN b.rows |->
                    [j \in DOMAIN b.rows[i] |-> text(b.rows[i][j])]]
        parts == [p \in DOMAIN b.parts |-> text(b.parts[p])]
        half == Len(texts) \div 2
    IN CASE b.kind = "String" -> <<<<"String", EscapeStringLiteral(Spelled(b.value))>>>>
         [] b.kind = "Float" -> <<<<"Float", Decimal(b.value)>>>>
         [] b.kind \in {"Int", "Bool"} -> <<<<b.kind, b.value>>>>
         [] b.kind = "All" -> <<<<"*">>>>
         [] b.kind = "Default" -> <<<<"DEFAULT">>>>
         [] b.kind = "Column" -> BuildColumn(b, residue)
         [] b.kind = "Expression" -> BuildExpression(b.type, texts)
         [] b.kind = "Join" -> BuildJoin(b, parts)
         [] b.kind = "Select" -> BuildSelect(b, texts, rows, parts, enclosing)
         [] b.kind = "DoUpdate" ->
               Assignments([i \in 1..half |-> <<texts[i], texts[half + i]>>])
         [] b.kind = "Insert" -> BuildInsert(b, texts, rows, parts)
         [] b.kind = "Update" -> BuildUpdate(b, rows, parts)
         [] b.kind = "Delete" -> BuildDelete(b, parts)
         [] b.kind = "Truncate" -> BuildTruncate(b)
         [] b.kind = "StartTransaction" -> BuildStartTransaction(b)
         [] b.kind = "CommitTransaction" -> <<<<"COMMIT">>>>
         [] b.kind = "RollbackTransaction" -> <<<<"ROLLBACK">>>>
         [] OTHER -> <<>>

\* No separator before the first of the texts, though that be empty.
JoinQueries(texts) ==
    LET after(i) == IF texts[i] = <<>> THEN <<>>
                    ELSE IF i = 1 THEN texts[i] ELSE <<<<";">>>> \o texts[i]
    IN FlattenSeq([i \in DOMAIN texts |-> after(i)])

=============================================================================
