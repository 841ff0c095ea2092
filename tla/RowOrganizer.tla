---------------------------- MODULE RowOrganizer ----------------------------
(***************************************************************************)
(* TSqlQueryOrganizer (lib/query_builder/organizers): what becomes of the  *)
(* attributes of inserts and updates.  It keeps no state; what it reads of *)
(* the relations is constant here, since they are registered before        *)
(* queries are composed (Relations models the registration).               *)
(*                                                                         *)
(* The builder's clauses are records of the same shape as those of a       *)
(* query.  A builder column has the type "" until SetColumnType is called: *)
(* the constructor leaves it uninitialised.                                *)
(***************************************************************************)
EXTENDS Requests

CONSTANTS
    PrimaryKeys,    \* of each table: the paths of its key
    Int32Of         \* the int32 with the bits of each uint32 value used

ASSUME RowOrganizerAssumption ==
    /\ \A t \in DOMAIN PrimaryKeys : PrimaryKeys[t] \subseteq DOMAIN FieldType
    /\ \A c \in Statements : c.kind = "Update" => c.value \in DOMAIN PrimaryKeys

\* The builder's classes.  TString, TInt, TFloat and TBool are literals.
Literal(kind, value) == Clause(kind, "", value)

DefaultClause == Clause("Default", "", "")

BuilderColumn(path) == Clause("Column", "", path)

BuilderExpression(type, operands) ==
    [Clause("Expression", type, "") EXCEPT !.operands = operands]

\* The pairs of columns and values, columns first.
DoUpdate(columns, values) ==
    [Clause("DoUpdate", "", "") EXCEPT !.operands = columns \o values]

BuilderInsert(table, selectors, values, parts) ==
    [Clause("Insert", "", table) EXCEPT !.operands = selectors, !.rows = values,
                                        !.parts = parts]

BuilderUpdate(table, updates, parts) ==
    [Clause("Update", "", table) EXCEPT !.rows = updates, !.parts = parts]

-----------------------------------------------------------------------------
(* The value of an attribute.  64 bit integers are written as strings.     *)

ValueKind ==
    [bool |-> "Bool", uint32 |-> "Int", int32 |-> "Int", uint64 |-> "String",
     int64 |-> "String", float |-> "Float", double |-> "Float",
     string |-> "String", message |-> "Default"]

ValueOf(a) ==
    Literal(ValueKind[a.type],
            IF a.type = "message" THEN ""
            ELSE IF a.type = "uint32" THEN Int32Of[a.value] ELSE a.value)

-----------------------------------------------------------------------------
(* Insert: the columns are those of the first row, one for each attribute, *)
(* and those the later rows add.  pathToIndex leads from a path to its last *)
(* column.                                                                 *)

Columns(selectors, path) == {j \in DOMAIN selectors : selectors[j].value = path}

Pad(row) == Append(row, DefaultClause)

\* Faulty: the rows before this one are not extended.
PadNone(rows) == rows

PadEarlier(rows) == [i \in DOMAIN rows |-> Pad(rows[i])]

PathToIndex(selectors, path) ==
    CHOOSE j \in Columns(selectors, path) : \A k \in Columns(selectors, path) : k <= j

\* `state' has the selectors, the finished rows and the row at hand.
PutAttribute(state, a) ==
    LET grown == IF Columns(state.selectors, a.path) # {} THEN state
                 ELSE [selectors |-> Append(state.selectors, BuilderColumn(a.path)),
                       values |-> PadEarlier(state.values),
                       row |-> Pad(state.row)]
    IN [grown EXCEPT !.row[PathToIndex(grown.selectors, a.path)] = ValueOf(a)]

FinishRow(state) == [state EXCEPT !.values = Append(@, state.row)]

PutRow(state, row) ==
    LET empty == [i \in DOMAIN state.selectors |-> DefaultClause]
        put[n \in 0..Len(row)] ==
            IF n = 0 THEN [state EXCEPT !.row = empty]
            ELSE PutAttribute(put[n - 1], row[n])
    IN FinishRow(put[Len(row)])

Excluded(column) == [column EXCEPT !.type = "excluded"]

\* The columns and the values of the rows, of which there is one at least.
PutRows(rows) ==
    LET first == [i \in DOMAIN rows[1] |-> BuilderColumn(rows[1][i].path)]
        done[n \in 0..Len(rows)] ==
            IF n = 0 THEN [selectors |-> first, values |-> <<>>, row |-> <<>>]
            ELSE PutRow(done[n - 1], rows[n])
    IN done[Len(rows)]

OrganizeInsert(t) ==
    LET put == PutRows(t.rows)
        columns == put.selectors
        excluded == [i \in DOMAIN columns |-> Excluded(columns[i])]
    IN IF t.rows = <<>> THEN BuilderInsert(t.value, <<>>, <<>>, NoParts)
       ELSE BuilderInsert(t.value, columns, put.values,
                          IF t.type = "" THEN NoParts
                          ELSE [do_update |-> DoUpdate(columns, excluded)])

-----------------------------------------------------------------------------
(* Update: one statement for each set of attributes, or an exception.      *)

MissesKeys(table, set) == ~(PrimaryKeys[table] \subseteq {a.path : a \in ToSet(set)})

UpdateThrows(t) == \E set \in ToSet(t.rows) : set # <<>> /\ MissesKeys(t.value, set)

\* Faulty: each condition replaces the one before.
LastCondition(conditions) == Last(conditions)

Conjunction(conditions) ==
    LET and[n \in 1..Len(conditions)] ==
            IF n = 1 THEN conditions[1]
            ELSE BuilderExpression("and_", <<and[n - 1], conditions[n]>>)
    IN and[Len(conditions)]

\* The attributes of a set that are part of the key, and the others.
KeysOf(table, set) == {a \in ToSet(set) : a.path \in PrimaryKeys[table]}

OthersOf(table, set) == ToSet(set) \ KeysOf(table, set)

Pair(a) == <<BuilderColumn(a.path), ValueOf(a)>>

OrganizeSet(table, set) ==
    LET keys == Those(set, KeysOf(table, set))
        others == Those(set, OthersOf(table, set))
        conditions == [i \in DOMAIN keys |-> BuilderExpression("equals", Pair(keys[i]))]
    IN BuilderUpdate(table, [i \in DOMAIN others |-> Pair(others[i])],
                     IF keys = <<>> THEN NoParts
                     ELSE [where |-> Conjunction(conditions)])

\* No statement is made of a set that assigns nothing.  Table and paths are
\* registered, as the assumption says: GetTable and GetParentTable throw otherwise.
OrganizeUpdate(t) ==
    LET sets == Those(t.rows, {set \in ToSet(t.rows) : OthersOf(t.value, set) # {}})
    IN [i \in DOMAIN sets |-> OrganizeSet(t.value, sets[i])]

-----------------------------------------------------------------------------
\* Neither an insert nor an update has clauses below it.
Organizable(kind) ==
    {heap[x] : x \in {x \in Handles : Composing /\ heap[x].kind = kind}}

LastOf(row, path) ==
    row[CHOOSE i \in DOMAIN row :
            row[i].path = path /\ \A j \in (i + 1)..Len(row) : row[j].path # path]

\* A row of an insert, for one of the paths of its columns.
RowAligned(columns, cells, row, path) ==
    LET held == {j \in Columns(columns, path) : cells[j] # DefaultClause}
        a == LastOf(row, path)
    IN IF \A j \in DOMAIN row : row[j].path # path THEN held = {}
       ELSE a.type # "message" =>
                Cardinality(held) = 1 /\ \A j \in held : cells[j] = ValueOf(a)

InsertAligned(t) ==
    LET insert == OrganizeInsert(t)
        columns == insert.operands
        paths == {c.value : c \in ToSet(columns)}
    IN /\ Len(insert.rows) = Len(t.rows)
       /\ \A i \in DOMAIN t.rows :
             /\ Len(insert.rows[i]) = Len(columns)
             /\ {a.path : a \in ToSet(t.rows[i])} \subseteq paths
             /\ \A path \in paths :
                   RowAligned(columns, insert.rows[i], t.rows[i], path)

(***************************************************************************)
(* RowsAligned: in the insert made of rows of any shape, every row has a   *)
(* value for every column; among the columns of a path, one holds the last *)
(* value the row gave for the path, the others, and all those of paths     *)
(* that the row does not have, DEFAULT.                                    *)
(***************************************************************************)
RowsAligned ==
    \A t \in Organizable("Insert") : t.rows # <<>> => InsertAligned(t)

\* The condition of an update, which joins n comparisons, for a row of the table
\* given by its key.
Selects(condition, n, row) ==
    LET first[k \in 1..n] == IF k = n THEN condition ELSE first[k + 1].operands[1]
        last(k) == IF k = 1 THEN first[1] ELSE first[k].operands[2]
    IN /\ \A k \in 2..n : first[k].type = "and_"
       /\ \A k \in 1..n : /\ last(k).type = "equals"
                          /\ row[last(k).operands[1].value] = last(k).operands[2]

\* Which of the members of a set of numbers i is, in ascending order.
Place(S, i) == Cardinality({j \in S : j <= i})

\* The update made of one set: what it assigns, and the rows it reaches.
SetKeyed(table, set, update) ==
    LET keys == PrimaryKeys[table]
        others == {j \in DOMAIN set : set[j].path \notin keys}
        named == DOMAIN set \ others
        rows == [keys -> {ValueOf(a) : a \in ToSet(set)}]
        reached == {row \in rows :
                       Selects(update.parts.where, Cardinality(named), row)}
    IN /\ Len(update.rows) = Cardinality(others)
       /\ \A j \in others : update.rows[Place(others, j)]
                              = <<BuilderColumn(set[j].path), ValueOf(set[j])>>
       /\ keys = {} <=> update.parts = NoParts
       /\ keys # {} =>
             /\ \A row, other \in reached : row = other
             /\ reached = {row \in rows :
                             \A j \in named : row[set[j].path] = ValueOf(set[j])}

SetsKeyed(t) ==
    LET assigning == {i \in DOMAIN t.rows :
                         \E a \in ToSet(t.rows[i]) : a.path \notin PrimaryKeys[t.value]}
        updates == OrganizeUpdate(t)
    IN /\ Len(updates) = Cardinality(assigning)
       /\ \A i \in assigning :
             SetKeyed(t.value, t.rows[i], updates[Place(assigning, i)])

(***************************************************************************)
(* UpdateKeyed: an update is refused as a whole if one of its sets lacks a *)
(* part of the key of the table.  Else there is a statement for each set   *)
(* that assigns anything, in order.  It assigns the set's attributes that  *)
(* are no part of the key, all and in order, and of a table that has a key *)
(* it reaches at most one row: the one with the key that the set names,    *)
(* none if the set gives a part of the key twice and not the same.         *)
(***************************************************************************)
UpdateKeyed ==
    \A t \in Organizable("Update") :
        /\ UpdateThrows(t) <=>
              \E set \in ToSet(t.rows) :
                 set # <<>> /\ PrimaryKeys[t.value] \ {a.path : a \in ToSet(set)} # {}
        /\ ~UpdateThrows(t) => SetsKeyed(t)

=============================================================================
