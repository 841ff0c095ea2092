----------------------------- MODULE Organizer ------------------------------
(***************************************************************************)
(* TSqlQueryOrganizer (lib/query_builder/organizers): the other clauses of *)
(* a query are turned into the builder's clauses.                          *)
(***************************************************************************)
EXTENDS RowOrganizer

CONSTANTS
    Table,          \* ParentTable_: the table of each registered path
    Fields          \* of each path of a message: the paths of the primitive
                    \* fields below it, by message and number

ASSUME OrganizerAssumption ==
    /\ DOMAIN FieldType \cup DOMAIN Fields \subseteq DOMAIN Table
    /\ \A t \in DOMAIN PrimaryKeys : \A p \in PrimaryKeys[t] : Table[p] = t

Null == Clause("null", "", "")

BuilderSelect(table, selectors, parts) ==
    [Clause("Select", "", table) EXCEPT !.operands = selectors, !.parts = parts]

BuilderDelete(table, parts) == [Clause("Delete", "", table) EXCEPT !.parts = parts]

BuilderTransaction(kind) == Clause(kind, "", "")

\* GetParentTable throws for a path that is not registered, and with it the
\* transformation of everything above.  A column that is selected is not asked
\* for its table.
RECURSIVE OrganizeThrows(_)
OrganizeThrows(t) ==
    \/ t.kind = "Column" /\ t.value \notin DOMAIN Table
    \/ \E i \in DOMAIN Children(t) :
          /\ t.kind = "Select" /\ i \in DOMAIN t.operands => t.operands[i].kind # "Column"
          /\ OrganizeThrows(Children(t)[i])

RECURSIVE TransformClause(_)

\* The path of a message stands for the fields of its subtree.
ExpandSelector(t) ==
    IF t.kind = "Column" /\ t.value \in DOMAIN Fields
    THEN [i \in DOMAIN Fields[t.value] |-> BuilderColumn(Fields[t.value][i])]
    ELSE <<TransformClause(t)>>

OrganizeSelect(t) ==
    BuilderSelect(t.value,
                  FlattenSeq([i \in DOMAIN t.operands |-> ExpandSelector(t.operands[i])]),
                  [p \in DOMAIN t.parts |-> TransformClause(t.parts[p])])

\* The type of a column is not copied: Excluded(path) is lost.
TransformClause(t) ==
    IF t.kind = "Column" THEN BuilderColumn(t.value)
    ELSE IF t.kind = "Expression"
    THEN BuilderExpression(t.type,
                           [i \in DOMAIN t.operands |-> TransformClause(t.operands[i])])
    ELSE IF t.kind = "Select" THEN OrganizeSelect(t)
    ELSE IF t.kind \in {"String", "Int", "Float", "Bool", "All", "Default"} THEN t
    ELSE Null

OrganizeDelete(t) ==
    BuilderDelete(t.value, [p \in DOMAIN t.parts |-> TransformClause(t.parts[p])])

OrganizeTransaction(t) == BuilderTransaction(t.kind)

=============================================================================
