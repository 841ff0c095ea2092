------------------------------ MODULE Requests ------------------------------
(***************************************************************************)
(* The query language (lib/requests/query).  A clause is a handle to an    *)
(* implementation that all its copies share, so that a composed query is   *)
(* a graph in the heap; a query is written to a proto message, clause by   *)
(* clause after those it refers to, and read back from there.              *)
(*                                                                         *)
(* Values, tables and paths of fields are strings that stand for           *)
(* themselves.                                                             *)
(***************************************************************************)
EXTENDS Naturals, FiniteSets, SequencesExt, TLC

CONSTANTS
    FieldType,      \* the registered type of each path of a field
    FloatOf,        \* the float nearest to each double used
    Unparsable,     \* the payloads used that are no serialized message
    Leaves,         \* the values, columns, All(), Default() used: a sequence
    Operators,      \* the types of expressions made of operands at once, with
                    \* the number of operands
    Growing,        \* types of expressions that grow operand by operand
    Parts,          \* the parts that are set: a subset of PartNames
    Statements,     \* the statements as they are begun, with their tables
    Rows,           \* lists of attributes for AddSubrequest and AddUpdate
    MaxSize,        \* bound: clauses, and rows in them
    MaxOperands,    \* bound: operands that are added to expressions
    MaxParts,       \* bound: selectors and parts
    MaxQuery        \* bound: clauses of the query

PartNames == <<"where", "group_by", "having", "order_by", "limit">>

Types == {"bool", "uint32", "int32", "uint64", "int64", "float", "double",
          "string", "message"}

Kinds == {"String", "Int", "Float", "Bool", "Expression", "All", "Column",
          "Default", "Select", "Insert", "Update", "Delete", "Truncate",
          "StartTransaction", "CommitTransaction", "RollbackTransaction"}

NoParts == [p \in {} |-> 0]

\* The fields of the TClauseImpl of each kind: `operands' also holds the
\* selectors of a select, `parts' the clauses that may be absent, `rows' the
\* subrequests of an insert and the sets of an update.
Clause(kind, type, value) ==
    [kind |-> kind, type |-> type, value |-> value,
     operands |-> <<>>, parts |-> NoParts, rows |-> <<>>]

ASSUME RequestsAssumption ==
    /\ MaxSize \in Nat /\ MaxOperands \in Nat /\ MaxParts \in Nat /\ MaxQuery \in Nat
    /\ \A c \in ToSet(Leaves) \cup Statements :
          c = Clause(c.kind, c.type, c.value) /\ c.kind \in Kinds
    /\ \A row \in Rows : row \in Seq(ToSet(row)) /\ \A a \in ToSet(row) :
          /\ a = [path |-> a.path, type |-> a.type, value |-> a.value]
          /\ a.path \in DOMAIN FieldType /\ a.type \in Types
    /\ Parts \subseteq ToSet(PartNames)
    /\ Growing \cap DOMAIN Operators = {}
    /\ \A type \in DOMAIN Operators : Operators[type] \in Nat

VARIABLES
    heap,           \* the implementations, a handle is an index
    query,          \* Clauses_ of the TQuery that is composed: handles
    proto,          \* the NApi::TQuery it was last written to
    received,       \* Clauses_ of the TQuery that reads the proto
    failed          \* the last FromProto threw

queryVars == <<heap, query, proto, received, failed>>

Handles == DOMAIN heap

QueryInit ==
    /\ heap = <<>> /\ query = <<>>
    /\ proto = [clauses |-> <<>>, start_points |-> <<>>]
    /\ received = <<>> /\ failed = FALSE

-----------------------------------------------------------------------------
(* Composing.                                                              *)

\* The elements of a sequence that are in the set, in order.
Those(s, S) ==
    LET those[n \in 0..Len(s)] ==
            IF n = 0 THEN <<>>
            ELSE IF s[n] \in S THEN Append(those[n - 1], s[n]) ELSE those[n - 1]
    IN those[Len(s)]

PartsOf(c) == Those(PartNames, DOMAIN c.parts)

Children(c) == c.operands \o [i \in DOMAIN PartsOf(c) |-> c.parts[PartsOf(c)[i]]]

\* A clause with everything below it.
Tree(h, x) ==
    LET tree[y \in DOMAIN h] ==
            [h[y] EXCEPT !.operands = [i \in DOMAIN @ |-> tree[@[i]]],
                         !.parts = [p \in DOMAIN @ |-> tree[@[p]]]]
    IN tree[x]

Reaches(x, y) ==
    LET reaches[z \in Handles] ==
            z = y \/ \E c \in ToSet(Children(heap[z])) : reaches[c]
    IN reaches[x]

\* What may be an operand, a selector or a part.
Value(x) == heap[x].kind \in {"String", "Int", "Float", "Bool", "Expression",
                              "All", "Column", "Default", "Select"}

\* Objects that do not refer to each other may be made in any order: the leaves
\* are made first and in theirs, the statements that are no values last.
Rank(c) ==
    IF c \in ToSet(Leaves) THEN CHOOSE i \in DOMAIN Leaves : Leaves[i] = c
    ELSE Len(Leaves) + (IF c.kind \in {"Expression", "Select"} THEN 1 ELSE 2)

Size == FoldLeft(LAMBDA n, c : n + 1 + Len(c.rows), 0, heap)

\* The number of clauses that joined a select or a delete, an expression.
Joined(kinds) ==
    FoldLeft(LAMBDA n, c : IF c.kind \notin kinds \/ c.type \in DOMAIN Operators
                           THEN n ELSE n + Len(Children(c)), 0, heap)

\* What is written to the proto no longer changes with the heap, so composing
\* ends there.
Composing == proto.clauses = <<>>

New(c) ==
    /\ Composing /\ Size + Len(query) <= MaxSize /\ Size < MaxSize
    /\ \A x \in Handles : Rank(heap[x]) <= Rank(c)
    /\ heap' = Append(heap, c)
    /\ UNCHANGED <<query, proto, received, failed>>

Change(x, c) ==
    /\ Composing /\ heap' = [heap EXCEPT ![x] = c]
    /\ UNCHANGED <<query, proto, received, failed>>

\* y becomes part of x.
Joins(x, y) ==
    /\ Value(y) /\ ~Reaches(y, x)
    /\ Joined({"Expression"}) < MaxOperands \/ heap[x].kind # "Expression"
    /\ Joined({"Select", "Delete"}) < MaxParts \/ heap[x].kind = "Expression"

\* Val, Col, Excluded, All, Default.
Leaf(c) == c \notin ToSet(heap) /\ New(c)

\* The operators and functions of query.cpp.
Operator(type, operands) ==
    /\ \A x \in ToSet(operands) : Value(x)
    /\ New([Clause("Expression", type, "") EXCEPT !.operands = operands])

\* Case(), and the statements.
Begin(c) == New(c)

\* When, Then and Else add to the expression all of them hold.
AddOperand(x, y) ==
    /\ heap[x].kind = "Expression" /\ heap[x].type \in Growing /\ Joins(x, y)
    /\ Change(x, [heap[x] EXCEPT !.operands = Append(@, y)])

Selectors(x, y) ==
    /\ heap[x].kind = "Select" /\ Joins(x, y)
    /\ Change(x, [heap[x] EXCEPT !.operands = Append(@, y)])

WithPart(parts, part, y) ==
    [p \in DOMAIN parts \cup {part} |-> IF p = part THEN y ELSE parts[p]]

\* Where, GroupBy, Having, OrderBy and Limit.
SetPart(x, part, y) ==
    /\ \/ heap[x].kind = "Select"
       \/ heap[x].kind = "Delete" /\ part = "where"
    /\ Joins(x, y)
    /\ Change(x, [heap[x] EXCEPT !.parts = WithPart(@, part, y)])

\* AddSubrequest and AddUpdate.
AddRow(x, row) ==
    /\ heap[x].kind \in {"Insert", "Update"} /\ Size < MaxSize
    /\ Change(x, [heap[x] EXCEPT !.rows = Append(@, row)])

UpdateIfExists(x) ==
    /\ heap[x].kind = "Insert"
    /\ Change(x, [heap[x] EXCEPT !.type = "update_if_exists"])

AddClause(x) ==
    /\ Composing /\ Len(query) < MaxQuery /\ Size + Len(query) <= MaxSize
    /\ query' = Append(query, x)
    /\ UNCHANGED <<heap, proto, received, failed>>

-----------------------------------------------------------------------------
(* Writing.                                                                *)

\* The proto has table_num for a select, but it is not set; a double is kept
\* as a float.
OnWire(c, operands, parts) ==
    [c EXCEPT !.value = CASE c.kind = "Select" -> ""
                          [] c.kind = "Float" -> FloatOf[@]
                          [] OTHER -> @,
              !.operands = operands, !.parts = parts]

\* A clause whose i-th child is at[i].
WrittenAt(c, at) ==
    LET n == Len(c.operands)
        parts == PartsOf(c)
    IN OnWire(c, [i \in 1..n |-> at[i]],
              [p \in DOMAIN c.parts |-> at[n + CHOOSE i \in DOMAIN parts : parts[i] = p]])

\* What a clause appends to an output of n clauses, given what each of its children
\* does: these, one after the other, and itself.  Indices into the clauses of the
\* message count from 0.
Appends(c, appended) ==
    [n \in Nat |->
        LET until[i \in 0..Len(appended)] ==
                IF i = 0 THEN <<>>
                ELSE until[i - 1] \o appended[i][n + Len(until[i - 1])]
            at == [i \in DOMAIN appended |-> n + Len(until[i]) - 1]
        IN Append(until[Len(appended)], WrittenAt(c, at))]

ToProto(x, output) ==
    LET appends[y \in Handles] ==
            Appends(heap[y], [i \in DOMAIN Children(heap[y]) |->
                                 appends[Children(heap[y])[i]]])
    IN output \o appends[x][Len(output)]

Write(message, x) ==
    LET clauses == ToProto(x, message.clauses)
    IN [clauses |-> clauses,
        start_points |-> Append(message.start_points, Len(clauses) - 1)]

QueryToProto ==
    LET written[n \in 0..Len(query)] ==
            IF n = 0 THEN proto ELSE Write(written[n - 1], query[n])
    IN /\ Composing /\ query # <<>>
       /\ proto' = written[Len(query)]
       /\ UNCHANGED <<heap, query, received, failed>>

-----------------------------------------------------------------------------
(* Reading.                                                                *)

SameBits(s, t) ==
    s = t \/ {s, t} \in {{"int32", "uint32"}, {"int64", "uint64"}}

\* The payload is read as the registered type of the path; for an enum or
\* bytes field no branch applies, and Data stays a bool of value 0.  Every
\* path is registered: that of no field would be dereferenced as one.
AttributeFromProto(a) ==
    LET type == FieldType[a.path] IN
    IF type \in Types
    THEN [a EXCEPT !.type = type,
                   !.value = IF SameBits(a.type, type) THEN @ ELSE "garbled"]
    ELSE [a EXCEPT !.type = "bool", !.value = "0"]

\* A message that does not parse fails the ASSERT of the attribute.
PayloadThrows(a) == FieldType[a.path] = "message" /\ a.value \in Unparsable

\* CreateClauseFromProto knows no TAll and no TDefault.
Throws(c) ==
    \/ c.kind \in {"All", "Default"}
    \/ \E row \in ToSet(c.rows) : \E a \in ToSet(row) : PayloadThrows(a)

Readable(clauses, at) ==
    LET readable[n \in DOMAIN clauses] ==
            /\ ~Throws(clauses[n])
            /\ \A c \in ToSet(Children(clauses[n])) : readable[c + 1]
    IN readable[at + 1]

\* A clause with the operands and parts that were created before.
FromProto(c, operands, parts) ==
    [c EXCEPT !.operands = operands, !.parts = parts,
              !.rows = [r \in DOMAIN c.rows |->
                           [i \in DOMAIN c.rows[r] |-> AttributeFromProto(c.rows[r][i])]]]

CreateClauseFromProto(clauses, at) ==
    LET created[n \in DOMAIN clauses] ==
            LET c == clauses[n] IN
            FromProto(c, [i \in DOMAIN c.operands |-> created[c.operands[i] + 1]],
                      [p \in DOMAIN c.parts |-> created[c.parts[p] + 1]])
    IN created[at + 1]

\* The clauses that are read before the first that cannot be.
Read(message) ==
    LET starts == message.start_points
        good == {n \in 0..Len(starts) :
                    \A i \in 1..n : Readable(message.clauses, starts[i])}
        most == CHOOSE n \in good : \A k \in good : k <= n
    IN [i \in 1..most |-> CreateClauseFromProto(message.clauses, starts[i])]

\* Faulty: the clauses of the query read before are still there.
QueryFromProtoAgain(message) == received \o Read(message)

\* Those read before are gone.
Reread(message) == Read(message)

QueryFromProto ==
    /\ ~Composing
    /\ received' = Reread(proto)
    /\ failed' = (Len(received') < Len(proto.start_points))
    /\ UNCHANGED <<heap, query, proto>>

-----------------------------------------------------------------------------
Compose ==
    \/ \E c \in ToSet(Leaves) : Leaf(c)
    \/ \E type \in DOMAIN Operators :
          \E operands \in [1..Operators[type] -> Handles] : Operator(type, operands)
    \/ \E c \in Statements : Begin(c)
    \/ \E x, y \in Handles :
          \/ AddOperand(x, y)
          \/ Selectors(x, y)
          \/ \E part \in Parts : SetPart(x, part, y)
    \/ \E x \in Handles :
          (\E row \in Rows : AddRow(x, row)) \/ UpdateIfExists(x) \/ AddClause(x)

QueryNext == Compose \/ QueryToProto \/ QueryFromProto

QuerySpec == QueryInit /\ [][QueryNext]_queryVars

-----------------------------------------------------------------------------
QueryTypeOK ==
    /\ \A x \in Handles :
          /\ heap[x].kind \in Kinds
          /\ ToSet(Children(heap[x])) \subseteq Handles
          /\ \A y \in ToSet(Children(heap[x])) : ~Reaches(y, x)
    /\ ToSet(query) \subseteq Handles
    /\ \A i \in DOMAIN proto.clauses :
          ToSet(Children(proto.clauses[i])) \subseteq 0..(i - 2)
    /\ failed \in BOOLEAN

\* The places below a clause: the child to go to, and the place below that one.
Places(x) ==
    LET places[y \in Handles] ==
            {<<>>} \cup
            UNION {{<<i>> \o p : p \in places[Children(heap[y])[i]]} :
                      i \in DOMAIN Children(heap[y])}
    IN places[x]

SentAt(x, place) ==
    LET at[n \in 0..Len(place)] ==
            IF n = 0 THEN x ELSE Children(heap[at[n - 1]])[place[n]]
    IN heap[at[Len(place)]]

ReceivedAt(tree, place) ==
    LET at[n \in 0..Len(place)] ==
            IF n = 0 THEN tree ELSE Children(at[n - 1])[place[n]]
    IN at[Len(place)]

\* What is received for an attribute: the same value if it had the registered
\* type of its path, and its place in the row in any case.
SameAttribute(a, b) == a.path = b.path /\ (a.type = FieldType[a.path] => a = b)

\* Neither the table of a select is asked for, which is not in the message, nor
\* what a float cannot hold of a double.
Same(s, t) ==
    /\ s.kind = t.kind /\ s.type = t.type
    /\ s.kind # "Select" =>
          t.value = IF s.kind = "Float" THEN FloatOf[s.value] ELSE s.value
    /\ DOMAIN s.parts = DOMAIN t.parts /\ Len(s.operands) = Len(t.operands)
    /\ Len(s.rows) = Len(t.rows)
    /\ \A i \in DOMAIN s.rows :
          /\ Len(s.rows[i]) = Len(t.rows[i])
          /\ \A j \in DOMAIN s.rows[i] : SameAttribute(s.rows[i][j], t.rows[i][j])

(***************************************************************************)
(* ArrivesAsSent: whatever clauses share in the sender, the reader of the  *)
(* message holds the same trees, in order.  If one of them holds All(),    *)
(* Default() or a payload that does not parse as the message of its path,  *)
(* reading throws, and exactly the clauses before it are there; this is    *)
(* known from the exception.  A clause is never below itself.              *)
(***************************************************************************)
ArrivesAsSent ==
    /\ QueryTypeOK
    /\ LET bad == {i \in DOMAIN query :
                      \E y \in Handles : Reaches(query[i], y) /\ Throws(heap[y])}
       IN received # <<>> \/ failed =>
             /\ failed = (bad # {})
             /\ Len(received) <= Len(query)
             /\ \A i \in DOMAIN query :
                   i \in DOMAIN received <=> \A k \in bad : i < k
             /\ \A i \in DOMAIN received : \A place \in Places(query[i]) :
                   Same(SentAt(query[i], place), ReceivedAt(received[i], place))

=============================================================================
