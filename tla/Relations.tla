----------------------------- MODULE Relations ------------------------------
(***************************************************************************)
(* TRelationManager (lib/relation): the tables of the configuration, their *)
(* protobuf messages and fields, filed under the hash of their paths, and  *)
(* two caches of answers.  Tables are registered, also again; the tests    *)
(* clear the manager in between; anyone asks at any time.                  *)
(*                                                                         *)
(* A path is the sequence of field numbers below a table's number.  An     *)
(* object is the TRootMessage, TFieldMessage or TPrimitiveFieldInfo made   *)
(* for a path by one call of RegisterRootMessage.                          *)
(***************************************************************************)
EXTENDS Naturals, FiniteSets, SequencesExt

CONSTANTS
    Tables,             \* the Number of each TTableConfig
    TableName,          \* its SnakeCase
    Fields,             \* the fields of the message at a path, in the order of
                        \* its descriptor; none for an unknown scheme
    Key,                \* GetHash of each path
    Asked,              \* paths the callers ask about
    MaxRegistrations    \* bound on the calls of RegisterRootMessage

Messages == DOMAIN Fields

Paths == Messages \cup
    UNION {{Append(p, f.number) : f \in ToSet(Fields[p])} : p \in Messages}

FieldAt(p) ==
    CHOOSE f \in ToSet(Fields[Front(p)]) : f.number = Last(p)

\* A message names its fields by their numbers, and no message is in itself.
ASSUME RelationsAssumption ==
    /\ Tables \subseteq Nat /\ MaxRegistrations \in Nat
    /\ Messages \subseteq Seq(Nat) \ {<<>>}
    /\ \E p \in Messages \cup {<<>>} : \A q \in Messages : Len(q) <= Len(p)
    /\ \A t \in Tables : <<t>> \in Messages
    /\ \A p \in Messages : Len(p) > 1 =>
          /\ Front(p) \in Messages
          /\ \E f \in ToSet(Fields[Front(p)]) : f.number = Last(p) /\ f.message
    /\ \A p \in Messages :
          /\ Fields[p] \in Seq(ToSet(Fields[p]))
          /\ \A f \in ToSet(Fields[p]) :
                /\ f.number \in Nat
                /\ {f.message, f.repeated, f.primary} \subseteq BOOLEAN
                /\ f.message <=> Append(p, f.number) \in Messages
          /\ \A f, g \in ToSet(Fields[p]) : f.number = g.number => f = g
    /\ Paths \cup {<<>>} \cup Asked \subseteq DOMAIN Key

VARIABLES
    manager,        \* the TRelationManager
    made,           \* registrations so far
    current         \* per table, the latest one since the last Clear, or 0

vars == <<manager, made, current>>

Null == [path |-> <<>>, made |-> 0]

Object(p, n) == [path |-> p, made |-> n]

Objects == [path : Paths, made : 1..MaxRegistrations]

Nothing == [x \in {} |-> Null]

Init ==
    /\ manager = [
         TableByPath |-> Nothing, ParentTable |-> Nothing,
         PathToEntryName |-> Nothing, EntryNameToEntry |-> Nothing,
         MessagesByPath |-> Nothing, RootMessagesByPath |-> Nothing,
         FieldsByPath |-> Nothing, PrimitiveFieldsByPath |-> Nothing,
         ObjectType |-> Nothing, ParentMap |-> Nothing,
         SubtreeCache |-> Nothing, AncestorsCache |-> Nothing]
    /\ made = 0
    /\ current = [t \in Tables |-> 0]

-----------------------------------------------------------------------------
(* Lookups.                                                                *)

Find(map, k) == IF k \in DOMAIN map THEN map[k] ELSE Null

\* map[k] = v, and map.emplace(k, v), which leaves a key that is there alone.
Assign(map, k, v) ==
    [x \in DOMAIN map \cup {k} |-> IF x = k THEN v ELSE map[x]]

Emplace(map, k, v) == IF k \in DOMAIN map THEN map ELSE Assign(map, k, v)

\* names[k][name] = number; the first operator[] makes the map it does not find.
Enter(names, k, name, number) ==
    LET below == IF k \in DOMAIN names THEN names[k] ELSE Nothing
    IN Assign(names, k, Assign(below, name, number))

GetMessage(m, p) == Find(m.MessagesByPath, Key[p])

GetField(m, p) == Find(m.FieldsByPath, Key[p])

GetPrimitiveField(m, p) == Find(m.PrimitiveFieldsByPath, Key[p])

GetRootMessage(m, p) == Find(m.RootMessagesByPath, Key[p])

GetObject(m, p) ==
    IF GetMessage(m, p) # Null THEN GetMessage(m, p) ELSE GetField(m, p)

GetParentTable(m, p) == m.TableByPath[m.ParentTable[Key[p]]]

GetParentMessage(m, o) == Find(m.ParentMap, o)

\* The answer GetMessagesFromSubtree computes and keeps.
Subtree(m, p) ==
    IF p = <<>> THEN {}
    ELSE {o \in Range(m.MessagesByPath) : IsPrefix(p, o.path)}

\* The answer GetObjectWithAncestors computes and keeps.
WithAncestors(m, p) ==
    LET up[o \in Objects] ==
            {o} \cup IF GetParentMessage(m, o) = Null THEN {}
                     ELSE up[GetParentMessage(m, o)]
    IN IF GetObject(m, p) = Null THEN {} ELSE up[GetObject(m, p)]

\* TMessagePath::String, and the constructor from names.
Names(m, p) ==
    LET known == {n \in 1..Len(p) : \A i \in 1..n :
                    Key[SubSeq(p, 1, i)] \in DOMAIN m.PathToEntryName}
    IN [n \in 1..Cardinality(known) |-> m.PathToEntryName[Key[SubSeq(p, 1, n)]]]

AppendEntry(m, p, name) == Append(p, m.EntryNameToEntry[Key[p]][name])

FromNames(m, names) ==
    LET path[i \in 0..Len(names)] ==
            IF i = 0 THEN <<>> ELSE AppendEntry(m, path[i - 1], names[i])
    IN path[Len(names)]

-----------------------------------------------------------------------------
(* Registration.                                                           *)

\* A key in a repeated field or a map does not count.
FindPrimaryFields(p) ==
    LET primary[q \in Messages] ==
            UNION {LET r == Append(q, f.number) IN
                     (IF f.primary THEN {Key[r]} ELSE {})
                       \cup (IF f.message THEN primary[r] ELSE {}) :
                   f \in {g \in ToSet(Fields[q]) : ~g.repeated}}
    IN primary[p]

\* Faulty: answers outlive the parents they were made from.
SetParentOnly(m, o, parent) == [m EXCEPT !.ParentMap = Assign(@, o, parent)]

SetParentMessage(m, o, parent) ==
    [m EXCEPT !.ParentMap = Assign(@, o, parent), !.AncestorsCache = Nothing]

\* Faulty: a field that is known already keeps its old object.
RegisterFieldOnce(m, o, field) ==
    LET k == Key[o.path]
        parent == Key[Front(o.path)]
        tables == Emplace(m.ParentTable, k, m.ParentTable[parent])
        table == m.TableByPath[tables[k]]
    IN [m EXCEPT
        !.PathToEntryName = Assign(@, k, field.name),
        !.EntryNameToEntry = Enter(@, parent, field.name, field.number),
        !.ParentTable = tables,
        !.TableByPath = Assign(@, tables[k],
            IF field.message THEN [table EXCEPT !.messages = @ \cup {k}]
                             ELSE [table EXCEPT !.fields = @ \cup {k}]),
        !.FieldsByPath = Emplace(@, k, o),
        !.MessagesByPath = IF field.message THEN Emplace(@, k, o) ELSE @,
        !.PrimitiveFieldsByPath = IF field.message THEN @ ELSE Emplace(@, k, o),
        !.ObjectType =
            Assign(@, k, IF field.message THEN "FieldMessage"
                                          ELSE "PrimitiveField")]

\* Faulty: names are filed under the table, not under the message.
RegisterFieldFlat(m, o, field) ==
    LET k == Key[o.path]
        parent == Key[Front(o.path)]
        tables == Emplace(m.ParentTable, k, m.ParentTable[parent])
        table == m.TableByPath[tables[k]]
    IN [m EXCEPT
        !.PathToEntryName = Assign(@, k, field.name),
        !.EntryNameToEntry = Enter(@, tables[k], field.name, field.number),
        !.ParentTable = tables,
        !.TableByPath = Assign(@, tables[k],
            IF field.message THEN [table EXCEPT !.messages = @ \cup {k}]
                             ELSE [table EXCEPT !.fields = @ \cup {k}]),
        !.FieldsByPath = Assign(@, k, o),
        !.MessagesByPath = IF field.message THEN Assign(@, k, o) ELSE @,
        !.PrimitiveFieldsByPath = IF field.message THEN @ ELSE Assign(@, k, o),
        !.ObjectType =
            Assign(@, k, IF field.message THEN "FieldMessage"
                                          ELSE "PrimitiveField")]

\* RegisterField without the Process() of a message field.
RegisterField(m, o, field) ==
    LET k == Key[o.path]
        parent == Key[Front(o.path)]
        tables == Emplace(m.ParentTable, k, m.ParentTable[parent])
        table == m.TableByPath[tables[k]]
    IN [m EXCEPT
        !.PathToEntryName = Assign(@, k, field.name),
        !.EntryNameToEntry = Enter(@, parent, field.name, field.number),
        !.ParentTable = tables,
        !.TableByPath = Assign(@, tables[k],
            IF field.message THEN [table EXCEPT !.messages = @ \cup {k}]
                             ELSE [table EXCEPT !.fields = @ \cup {k}]),
        !.FieldsByPath = Assign(@, k, o),
        !.MessagesByPath = IF field.message THEN Assign(@, k, o) ELSE @,
        !.PrimitiveFieldsByPath = IF field.message THEN @ ELSE Assign(@, k, o),
        !.ObjectType =
            Assign(@, k, IF field.message THEN "FieldMessage"
                                          ELSE "PrimitiveField")]

\* The calls that Process() of a message makes, in their order: a field is
\* registered when it is entered, a message field adopted when it is left.
Walk[p \in Messages] ==
    LET visit(f) ==
            LET q == Append(p, f.number) IN
            <<[path |-> q, field |-> f, leave |-> FALSE]>> \o
                IF f.message
                THEN Walk[q] \o <<[path |-> q, field |-> f, leave |-> TRUE]>>
                ELSE <<>>
    IN FlattenSeq([i \in 1..Len(Fields[p]) |-> visit(Fields[p][i])])

\* `parents' holds the local parentMessage of each RegisterMessageField on the
\* call stack, which is looked up before the field is registered.
Visit(state, call, n) ==
    LET o == Object(call.path, n)
        m == state.manager
        parents == state.parents
    IN IF ~call.leave
       THEN [manager |-> RegisterField(m, o, call.field),
             parents |-> IF call.field.message
                         THEN Append(parents, GetMessage(m, Front(call.path)))
                         ELSE parents]
       ELSE [manager |-> IF Last(parents) = Null THEN m
                         ELSE SetParentMessage(m, o, Last(parents)),
             parents |-> Front(parents)]

Process(m, p, n) ==
    LET calls == Walk[p]
        after[i \in 0..Len(calls)] ==
            IF i = 0 THEN [manager |-> m, parents |-> <<>>]
            ELSE Visit(after[i - 1], calls[i], n)
    IN after[Len(calls)].manager

\* The loop at the end of RegisterRoot.
AdoptFields(m, root) ==
    LET fields == Fields[root.path]
        after[i \in 0..Len(fields)] ==
            IF i = 0 THEN m
            ELSE SetParentMessage(
                     after[i - 1],
                     Object(Append(root.path, fields[i].number), root.made), root)
    IN after[Len(fields)]

RegisterRoot(m, root, name) ==
    LET k == Key[root.path]
        top == Key[<<>>]
        table == [path |-> root.path, messages |-> {k}, fields |-> {},
                  primary |-> FindPrimaryFields(root.path)]
        begun == [m EXCEPT
            !.TableByPath = Assign(@, k, table),
            !.ParentTable = Emplace(@, k, k),
            !.PathToEntryName = Assign(@, k, name),
            !.EntryNameToEntry = Enter(@, top, name, Head(root.path))]
        filed == [Process(begun, root.path, root.made) EXCEPT
            !.MessagesByPath = Assign(@, k, root),
            !.RootMessagesByPath = Assign(@, k, root),
            !.ObjectType = Assign(@, k, "RootMessage")]
    IN AdoptFields(filed, root)

-----------------------------------------------------------------------------
RegisterRootMessage(t) ==
    /\ made < MaxRegistrations
    /\ made' = made + 1
    /\ current' = [current EXCEPT ![t] = made']
    /\ manager' = RegisterRoot(manager, Object(<<t>>, made'), TableName[t])

\* An answer that is in the cache changes nothing.
GetMessagesFromSubtree(p) ==
    /\ p \notin DOMAIN manager.SubtreeCache
    /\ manager' = [manager EXCEPT !.SubtreeCache =
                     Assign(@, p, Subtree(manager, p))]
    /\ UNCHANGED <<made, current>>

GetObjectWithAncestors(p) ==
    /\ p \notin DOMAIN manager.AncestorsCache
    /\ manager' = [manager EXCEPT !.AncestorsCache =
                     Assign(@, p, WithAncestors(manager, p))]
    /\ UNCHANGED <<made, current>>

Clear ==
    /\ manager' = [manager EXCEPT !.MessagesByPath = Nothing,
                                  !.FieldsByPath = Nothing,
                                  !.ParentMap = Nothing]
    /\ current' = [t \in Tables |-> 0]
    /\ UNCHANGED made

Next ==
    \/ \E t \in Tables : RegisterRootMessage(t)
    \/ \E p \in Asked : GetMessagesFromSubtree(p) \/ GetObjectWithAncestors(p)
    \/ Clear

Spec == Init /\ [][Next]_vars

-----------------------------------------------------------------------------
(* Properties.                                                             *)

\* The paths of a registered table.
Registered(t) == {p \in Paths : p[1] = t /\ current[t] # 0}

\* The path goes through a repeated field.
InRepeated(p) == \E n \in 2..Len(p) : FieldAt(SubSeq(p, 1, n)).repeated

MapNames ==
    {"TableByPath", "ParentTable", "PathToEntryName", "EntryNameToEntry",
     "MessagesByPath", "RootMessagesByPath", "FieldsByPath", "PrimitiveFieldsByPath",
     "ObjectType", "ParentMap", "SubtreeCache", "AncestorsCache"}

TypeOK ==
    /\ manager = [x \in MapNames |-> manager[x]]
    /\ made \in Nat /\ current \in [Tables -> 0..made]

TableExact(t) ==
    LET known == Registered(t)
        table == GetParentTable(manager, <<t>>)
    IN /\ Key[<<t>>] \in DOMAIN manager.TableByPath
       /\ GetRootMessage(manager, <<t>>) = Object(<<t>>, current[t])
       /\ table.path = <<t>>
       /\ table.messages = {Key[q] : q \in known \cap Messages}
       /\ table.fields = {Key[q] : q \in known \ Messages}
       /\ table.primary =
            {Key[q] : q \in {r \in known \ {<<t>>} :
                                FieldAt(r).primary /\ ~InRepeated(r)}}

PathExact(t, p) ==
    LET o == Object(p, current[t])
    IN /\ GetObject(manager, p) = o
       /\ p \in Messages => GetMessage(manager, p) = o
       /\ Len(p) > 1 => GetField(manager, p) = o
       /\ p \notin Messages => GetPrimitiveField(manager, p) = o
       /\ Key[p] \in DOMAIN manager.ObjectType \cap DOMAIN manager.ParentTable
       /\ manager.ObjectType[Key[p]] =
              IF Len(p) = 1 THEN "RootMessage"
              ELSE IF p \in Messages THEN "FieldMessage" ELSE "PrimitiveField"
       /\ manager.ParentTable[Key[p]] = Key[<<t>>]

\* What earlier registrations left behind, Clear or not, misleads no later one.
LeftoversHarmless ==
    \A p \in Paths :
        /\ Key[p] \in DOMAIN manager.ParentTable =>
               manager.ParentTable[Key[p]] = Key[<<p[1]>>]
        /\ p \notin Messages => Key[p] \notin DOMAIN manager.MessagesByPath

\* A path leads to the object of its latest registration, of its own kind, in
\* its own table, and the table knows its messages, fields and keys: no other
\* path has taken its place in any of the maps (relation_manager.cpp:70-117).
\* Inductive as long as no two paths have one key.
LookupExact ==
    /\ TypeOK /\ LeftoversHarmless
    /\ \A t \in Tables : current[t] # 0 =>
           TableExact(t) /\ \A p \in Registered(t) : PathExact(t, p)

Ancestors(p) == {SubSeq(p, 1, n) : n \in 1..Len(p)}

AncestorsExact ==
    \A t \in Tables : Fields[<<t>>] # <<>> =>
        \A p \in Registered(t) \cap DOMAIN manager.AncestorsCache :
            manager.AncestorsCache[p] =
                {Object(q, current[t]) :
                    q \in IF p \in Messages \/ Len(p) = 2
                          THEN Ancestors(p) ELSE {p}}

\* The messages of t at or below p, as registration n made them.
Below(t, p, n) ==
    {Object(q, n) : q \in {r \in Messages : r[1] = t /\ IsPrefix(p, r)}}

SubtreesWhole ==
    \A p \in DOMAIN manager.SubtreeCache \ {<<>>}, t \in Tables :
        LET kept == {o \in manager.SubtreeCache[p] : o.path[1] = t}
        IN kept = {} \/ \E n \in 1..made : kept = Below(t, p, n)

\* What is cached of ancestors is the object and, for messages and the fields of
\* the table itself, its ancestors, all of the latest registration, whenever the
\* question was first asked.  What is cached of a subtree may be of the past, but
\* it holds all messages of a table or none, and all of one registration
\* (relation_manager.cpp:86-88, 119-142, 229-277).
CachesExact == AncestorsExact /\ SubtreesWhole

\* A path printed by its names is read back as the same path (path.cpp:82-87,
\* 113-123).
NamesRoundTrip ==
    \A t \in Tables : \A p \in Registered(t) :
        FromNames(manager, Names(manager, p)) = p

=============================================================================
