------------------------------ MODULE ReadBack ------------------------------
(***************************************************************************)
(* How PostgreSQL reads the text that Postgres builds, as far as the text  *)
(* goes: the grammar of the server for operators, functions, CASE, lists   *)
(* and subqueries, with its precedences.  The server is outside this       *)
(* repository; the builder assumes that it understands what was built.     *)
(*                                                                         *)
(* A reading is the clause read from a position on and the position after  *)
(* it, 0 if there is none to read.                                         *)
(***************************************************************************)
EXTENDS Postgres

Fail == [tree |-> Null, next |-> 0]

At(s, i) == IF i \in DOMAIN s THEN s[i] ELSE <<"">>

Is(s, i, word) == At(s, i) = <<word>>

\* After r, the word.
Then(s, r, word) ==
    IF r.next # 0 /\ Is(s, r.next, word) THEN [r EXCEPT !.next = @ + 1] ELSE Fail

ReadLeaf(kind, type, value, i) == [tree |-> Clause(kind, type, value), next |-> i + 1]

Made(type, trees, next) ==
    IF next = 0 THEN Fail
    ELSE [tree |-> [Clause("Expression", type, "") EXCEPT !.operands = trees],
          next |-> next]

\* From the loosest; NOT has 3.
Level(type) ==
    CASE type = "or_" -> 1
      [] type = "and_" -> 2
      [] type \in DOMAIN Suffix -> 4
      [] type \in {"equals", "not_equals", "greater_than", "less_than",
                   "greater_than_or_equals", "less_than_or_equals"} -> 5
      [] type \in {"like", "ilike", "similar_to", "between"} \cup DOMAIN Membership -> 6
      [] type = "regexp_match" -> 7
      [] type \in {"add", "subtract"} -> 8
      [] type \in {"multiply", "divide", "modulo"} -> 9

Between == [between |-> "BETWEEN"]

Operations == Infix @@ Suffix @@ Membership @@ Between

OperationAt(s, i, least) ==
    {type \in DOMAIN Operations : Level(type) >= least /\ Is(s, i, Operations[type])}

\* What the text from i on is, read as the rule says.
RECURSIVE Reading(_, _, _, _)

\* An expression whose operators all have at least the level.
Expr(s, i, least) == Reading("expression", s, i, least)

\* One or more expressions; `tree' is their sequence.
List(s, i) == Reading("list", s, i, 1)

\* WHEN and THEN as often as they come; `tree' is the sequence of their clauses.
Branches(s, i) == Reading("branches", s, i, 1)

\* The parts that follow the table; `tree' is a function of their names.
PartsAfter(s, i) == Reading("parts", s, i, 1)

\* The joins after a table; `tree' has a row for each.
JoinsAfter(s, i) == Reading("joins", s, i, 1)

\* One or more lists in braces; `tree' is the sequence of lists.
RowsAt(s, i) == Reading("rows", s, i, 1)

\* One or more columns, each with its value; `tree' is the sequence of pairs.
AssignmentsAt(s, i) == Reading("assignments", s, i, 1)

\* After SELECT.
Select(s, i) == Reading("select", s, i, 1)

\* Restricted expressions, such as the lower bound of BETWEEN, have no NOT, no
\* IS and no IN outside of braces.
Restricted(s, i) == IF Is(s, i, "NOT") THEN Fail ELSE Expr(s, i, 7)

\* What may follow an expression that is read.
RECURSIVE Continue(_, _, _)
Continue(s, left, least) ==
    IF OperationAt(s, left.next, least) = {} THEN left
    ELSE LET type == CHOOSE t \in OperationAt(s, left.next, least) : TRUE
             i == left.next + 1
             read(r, trees) == IF r.next = 0 THEN Fail
                               ELSE Continue(s, Made(type, trees, r.next), least)
         IN IF type \in DOMAIN Suffix
            THEN Continue(s, Made(type, <<left.tree>>, i), least)
            ELSE IF type \in DOMAIN Membership
            THEN LET list == IF Is(s, i, "(") THEN Then(s, List(s, i + 1), ")") ELSE Fail
                 IN read(list, <<left.tree>> \o list.tree)
            ELSE IF type = "between"
            THEN LET low == Then(s, Restricted(s, i), "AND")
                     high == IF low.next = 0 THEN Fail ELSE Expr(s, low.next, 7)
                 IN read(high, <<left.tree, low.tree, high.tree>>)
            ELSE LET right == Expr(s, i, Level(type) + 1)
                 IN read(right, <<left.tree, right.tree>>)

ReadList(s, i) ==
    LET first == Expr(s, i, 1)
        rest == IF Is(s, first.next, ",") THEN List(s, first.next + 1)
                ELSE [tree |-> <<>>, next |-> first.next]
    IN IF first.next = 0 \/ rest.next = 0 THEN [tree |-> <<>>, next |-> 0]
       ELSE [tree |-> <<first.tree>> \o rest.tree, next |-> rest.next]

ReadBranches(s, i) ==
    IF ~Is(s, i, "WHEN") THEN [tree |-> <<>>, next |-> i]
    ELSE LET when == Then(s, Expr(s, i + 1, 1), "THEN")
             then == IF when.next = 0 THEN Fail ELSE Expr(s, when.next, 1)
             rest == IF then.next = 0 THEN Fail ELSE Branches(s, then.next)
         IN IF rest.next = 0 THEN [tree |-> <<>>, next |-> 0]
            ELSE [tree |-> <<when.tree, then.tree>> \o rest.tree, next |-> rest.next]

ReadCase(s, i) ==
    LET branches == Branches(s, i)
        otherwise == IF branches.next # 0 /\ Is(s, branches.next, "ELSE")
                     THEN Then(s, Expr(s, branches.next + 1, 1), "END") ELSE Fail
    IN Made("case_", Append(branches.tree, otherwise.tree), otherwise.next)

\* After the name of a function and its brace.
ReadCall(s, i, name) ==
    IF Is(s, i, ")")
    THEN Made("random", <<>>, i + 1)
    ELSE LET list == Then(s, List(s, i), ")")
             type == CASE name = "LN" -> "log"
                       [] name = "LOG" -> "log"
                       [] name = "POWER" -> "power"
                       [] OTHER -> CHOOSE t \in DOMAIN Function : Function[t] = name
         IN Made(type, IF name = "LOG" THEN Reverse(list.tree) ELSE list.tree, list.next)

ReadPosition(s, i) ==
    LET what == Then(s, Restricted(s, i), "IN")
        where == IF what.next = 0 THEN Fail ELSE Then(s, Restricted(s, what.next), ")")
    IN Made("position", <<what.tree, where.tree>>, where.next)

ReadSubstring(s, i) ==
    LET of == Then(s, Expr(s, i, 1), "FROM")
        from == IF of.next = 0 THEN Fail ELSE Expr(s, of.next, 1)
        for == IF Is(s, from.next, "FOR") THEN Then(s, Expr(s, from.next + 1, 1), ")")
               ELSE Then(s, from, ")")
    IN Made("substring",
            IF Is(s, from.next, "FOR") THEN <<of.tree, from.tree, for.tree>>
            ELSE <<of.tree, from.tree>>, for.next)

FunctionNames == {Function[t] : t \in DOMAIN Function} \cup {"LN", "LOG"}

\* The string that a literal stands for.
Unspelled(text) ==
    LET chars == ReadLiteral(text) IN
    IF \E v \in DOMAIN Spelling : Spelling[v] = chars
    THEN CHOOSE v \in DOMAIN Spelling : Spelling[v] = chars
    ELSE IF Len(chars) = 1 THEN chars[1] ELSE "another string"

Primary(s, i) ==
    LET token == At(s, i) IN
    IF Len(token) = 2
    THEN IF token[1] = "String" THEN ReadLeaf("String", "", Unspelled(token[2]), i)
         ELSE IF token[1] \in {"Int", "Float", "Bool"}
         THEN ReadLeaf(token[1], "", token[2], i)
         ELSE ReadLeaf("Column", token[1], token[2], i)
    ELSE CASE token[1] = "*" -> ReadLeaf("All", "", "", i)
           [] token[1] = "DEFAULT" -> ReadLeaf("Default", "", "", i)
           [] token[1] = "(" -> IF Is(s, i + 1, "SELECT")
                                THEN Then(s, Select(s, i + 2), ")")
                                ELSE Then(s, Expr(s, i + 1, 1), ")")
           [] token[1] = "CASE" -> ReadCase(s, i + 1)
           [] token[1] = "POSITION" -> ReadPosition(s, i + 2)
           [] token[1] = "SUBSTRING" -> ReadSubstring(s, i + 2)
           [] token[1] \in FunctionNames -> ReadCall(s, i + 2, token[1])
           [] OTHER -> Fail

ReadExpr(s, i, least) ==
    LET first == IF Is(s, i, "NOT") THEN Expr(s, i + 1, 3) ELSE Primary(s, i)
    IN IF first.next = 0 THEN Fail
       ELSE IF Is(s, i, "NOT")
       THEN Continue(s, Made("not_", <<first.tree>>, first.next), least)
       ELSE Continue(s, first, least)

ReadParts(s, i) ==
    LET here == {p \in DOMAIN Keyword : Is(s, i, Keyword[p])} IN
    IF here = {} THEN [tree |-> NoParts, next |-> i]
    ELSE LET p == CHOOSE p \in here : TRUE
             clause == Expr(s, i + 1, 1)
             rest == IF clause.next = 0 THEN Fail ELSE PartsAfter(s, clause.next)
         IN IF rest.next = 0 THEN [tree |-> NoParts, next |-> 0]
            ELSE [tree |-> (p :> clause.tree) @@ rest.tree, next |-> rest.next]

ReadJoins(s, i) ==
    LET here == {t \in DOMAIN JoinWord : Is(s, i, JoinWord[t])}
        on == IF here # {} /\ Is(s, i + 2, "ON") THEN Expr(s, i + 3, 1) ELSE Fail
        rest == IF on.next = 0 THEN Fail ELSE JoinsAfter(s, on.next)
        type == CHOOSE t \in here : TRUE
    IN IF here = {} THEN [tree |-> <<>>, next |-> i]
       ELSE IF rest.next = 0 THEN Fail
       ELSE [tree |-> <<<<Join(type, At(s, i + 1)[2], on.tree)>>>> \o rest.tree,
             next |-> rest.next]

ReadSelect(s, i) ==
    LET list == Then(s, List(s, i), "FROM")
        joins == IF list.next = 0 THEN Fail ELSE JoinsAfter(s, list.next + 1)
        parts == IF joins.next = 0 THEN Fail ELSE PartsAfter(s, joins.next)
    IN IF parts.next = 0 THEN Fail
       ELSE [tree |-> [Clause("Select", "", At(s, list.next)[2]) EXCEPT
                          !.operands = list.tree, !.rows = joins.tree,
                          !.parts = parts.tree],
             next |-> parts.next]

ReadRows(s, i) ==
    LET row == IF Is(s, i, "(") THEN Then(s, List(s, i + 1), ")") ELSE Fail
        rest == IF Is(s, row.next, ",") THEN RowsAt(s, row.next + 1)
                ELSE [tree |-> <<>>, next |-> row.next]
    IN IF row.next = 0 \/ rest.next = 0 THEN [tree |-> <<>>, next |-> 0]
       ELSE [tree |-> <<row.tree>> \o rest.tree, next |-> rest.next]

ReadAssignments(s, i) ==
    LET value == IF Is(s, i + 1, "=") THEN Expr(s, i + 2, 1) ELSE Fail
        rest == IF Is(s, value.next, ",") THEN AssignmentsAt(s, value.next + 1)
                ELSE [tree |-> <<>>, next |-> value.next]
    IN IF value.next = 0 \/ rest.next = 0 THEN [tree |-> <<>>, next |-> 0]
       ELSE [tree |-> <<<<Primary(s, i).tree, value.tree>>>> \o rest.tree,
             next |-> rest.next]

ReadInsert(s) ==
    LET columns == IF Is(s, 3, "(") THEN Then(s, List(s, 4), ")")
                   ELSE [tree |-> <<>>, next |-> 3]
        values == Then(s, columns, "VALUES")
        rows == IF values.next = 0 THEN Fail ELSE RowsAt(s, values.next)
        update == IF Is(s, rows.next, "ON CONFLICT DO UPDATE SET")
                  THEN AssignmentsAt(s, rows.next + 1)
                  ELSE [tree |-> <<>>, next |-> rows.next]
        pair(k) == [i \in DOMAIN update.tree |-> update.tree[i][k]]
    IN IF rows.next = 0 \/ update.next = 0 THEN Fail
       ELSE [tree |-> [Clause("Insert", "", At(s, 2)[2]) EXCEPT
                          !.operands = columns.tree, !.rows = rows.tree,
                          !.parts = IF update.tree = <<>> THEN NoParts
                                    ELSE [do_update |-> DoUpdate(pair(1), pair(2))]],
             next |-> update.next]

\* UPDATE and DELETE, after what is assigned.
ReadWhere(s, kind, assigned) ==
    LET parts == IF assigned.next = 0 THEN Fail ELSE PartsAfter(s, assigned.next) IN
    IF parts.next = 0 THEN Fail
    ELSE [tree |-> [Clause(kind, "", At(s, 2)[2]) EXCEPT !.rows = assigned.tree,
                                                         !.parts = parts.tree],
          next |-> parts.next]

ReadStatement(s) ==
    CASE Is(s, 1, "SELECT") -> Select(s, 2)
      [] Is(s, 1, "INSERT INTO") -> ReadInsert(s)
      [] Is(s, 1, "UPDATE") ->
            ReadWhere(s, "Update", IF Is(s, 3, "SET") THEN AssignmentsAt(s, 4) ELSE Fail)
      [] Is(s, 1, "DELETE FROM") -> ReadWhere(s, "Delete", [tree |-> <<>>, next |-> 3])
      [] Is(s, 1, "TRUNCATE TABLE") -> ReadLeaf("Truncate", "", At(s, 2)[2], 2)
      [] Is(s, 1, "BEGIN") -> IF Is(s, 2, "READ ONLY")
                              THEN ReadLeaf("StartTransaction", "read_only", "", 2)
                              ELSE ReadLeaf("StartTransaction", "", "", 1)
      [] Is(s, 1, "COMMIT") -> ReadLeaf("CommitTransaction", "", "", 1)
      [] Is(s, 1, "ROLLBACK") -> ReadLeaf("RollbackTransaction", "", "", 1)
      [] OTHER -> Expr(s, 1, 1)

Reading(rule, s, i, least) ==
    CASE rule = "expression" -> ReadExpr(s, i, least)
      [] rule = "list" -> ReadList(s, i)
      [] rule = "branches" -> ReadBranches(s, i)
      [] rule = "parts" -> ReadParts(s, i)
      [] rule = "joins" -> ReadJoins(s, i)
      [] rule = "rows" -> ReadRows(s, i)
      [] rule = "assignments" -> ReadAssignments(s, i)
      [] rule = "select" -> ReadSelect(s, i)
      [] rule = "statement" -> ReadStatement(s)

\* Nothing is left over.
Reads(s, tree) ==
    LET r == Reading("statement", s, 1, 1) IN r.next = Len(s) + 1 /\ r.tree = tree

-----------------------------------------------------------------------------
\* What the text stands for.
RECURSIVE Meaning(_, _)
Meaning(b, residue) ==
    LET meaning(c) == Meaning(c, residue) IN
    [b EXCEPT !.operands = IF b.kind = "Select" /\ @ = <<>>
                           THEN <<Clause("All", "", "")>>
                           ELSE [i \in DOMAIN @ |-> meaning(@[i])],
              !.rows = [i \in DOMAIN @ |-> [j \in DOMAIN @[i] |-> meaning(@[i][j])]],
              !.parts = [p \in DOMAIN @ |-> meaning(@[p])],
              !.type = CASE b.kind = "Column" /\ @ = "" -> residue
                         [] b.kind = "Expression" /\ @ = "exponent" -> "power"
                         [] OTHER -> @]

IsA(b, types) == b.kind = "Expression" /\ b.type \in types

Unbraced == {"not_"} \cup DOMAIN Suffix \cup DOMAIN Membership

\* The operations that are written without braces, and where they would need
\* them: NOT as the first operand of what binds tighter, the others as the
\* last one, any of them where the grammar has a restricted expression.  Nor
\* is a select that is the condition of a join in braces.
Ambiguous(b) ==
    LET x == b.operands IN
    CASE IsA(b, DOMAIN Infix) ->
            \/ Level(b.type) > 3 /\ IsA(x[1], {"not_"})
            \/ Level(b.type) > 4 /\ IsA(x[2], DOMAIN Suffix)
            \/ Level(b.type) >= 6 /\ IsA(x[2], DOMAIN Membership)
      [] IsA(b, DOMAIN Suffix \cup DOMAIN Membership) -> IsA(x[1], {"not_"})
      [] IsA(b, {"between"}) ->
            \/ IsA(x[1], {"not_"}) \/ IsA(x[2], Unbraced)
            \/ IsA(x[3], DOMAIN Suffix \cup DOMAIN Membership)
      [] IsA(b, {"position"}) -> \E i \in 1..2 : IsA(x[i], Unbraced)
      [] b.kind = "Join" -> b.parts["on"].kind = "Select"
      [] OTHER -> FALSE

\* A literal that does not keep its string, a number of more than six decimals,
\* and an insert that has neither values nor DEFAULT VALUES.
Garbled(b) ==
    \/ b.kind = "String" /\ LiteralLost(b.value)
    \/ b.kind = "Float" /\ Decimal(b.value) # b.value
    \/ b.kind = "Insert" /\ (b.rows = <<>> \/ b.rows[1] = <<>>)

RECURSIVE Misread(_)
Misread(b) ==
    \/ Ambiguous(b) \/ Garbled(b)
    \/ \E c \in ToSet(Children(b)) \cup UNION {ToSet(row) : row \in ToSet(b.rows)} :
          Misread(c)

\* The builder's clauses for a clause of a query.
Organized(t) ==
    CASE t.kind = "Insert" -> <<OrganizeInsert(t)>>
      [] t.kind = "Update" -> IF UpdateThrows(t) THEN <<>> ELSE OrganizeUpdate(t)
      [] t.kind \in {"Expression", "Select", "Delete"} ->
            IF OrganizeThrows(t) THEN <<>>
            ELSE IF t.kind = "Delete" THEN <<OrganizeDelete(t)>>
            ELSE <<TransformClause(t)>>
      [] t.kind \in {"StartTransaction", "CommitTransaction", "RollbackTransaction"} ->
            <<OrganizeTransaction(t)>>
      [] OTHER -> <<t>>

\* With each kind of join on the condition of a select, if there is one.
WithJoins(b) ==
    {b} \cup IF b.kind # "Select" \/ "where" \notin DOMAIN b.parts THEN {}
             ELSE {[b EXCEPT !.rows = <<<<Join(type, b.value, b.parts.where)>>>>] :
                      type \in DOMAIN JoinWord}

(***************************************************************************)
(* TextReadsBack: the server reads in the text of a clause that builds     *)
(* just what was composed, unless NOT, IS NULL or IN stand without braces  *)
(* where another operation takes a part of them, a select where a join     *)
(* needs its condition, a literal or a number loses its value, or an       *)
(* insert has no rows; the statements of an update, joined, are read one   *)
(* by one.  Whether a column is EXCLUDED or of its table depends on memory *)
(* that nobody initialised: it holds for what may be there                 *)
(* (postgres.cpp:159-180, 197-610, 676-897, 1062-1073).                    *)
(***************************************************************************)
TextReadsBack ==
    \A x \in {y \in Handles :
               Composing /\ heap[y].kind \notin {"Column", "All", "Default"}} :
        LET built == SelectSeq(Organized(Tree(heap, x)), Builds)
        IN \A residue \in {"singular", "excluded"} :
             LET texts == [i \in DOMAIN built |-> Text(built[i], "", residue)]
             IN /\ Split(JoinQueries(texts), <<";">>) = texts
                /\ \A i \in DOMAIN built : \A b \in WithJoins(built[i]) :
                     Reads(Text(b, "", residue), Meaning(b, residue)) <=> ~Misread(b)

=============================================================================
