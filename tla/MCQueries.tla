----------------------------- MODULE MCQueries ------------------------------
(***************************************************************************)
(* Instances of the query pipeline.  Table 1 has one key, table 2 two, and *)
(* table 3 none; the path "1" is that of the message of table 1.           *)
(***************************************************************************)
EXTENDS ReadBack

MCFieldType ==
    ("1/1" :> "int32") @@ ("1/2" :> "string") @@ ("1/3" :> "enum") @@
    ("1/4" :> "message") @@ ("2/1" :> "int32") @@ ("2/2" :> "uint32")

MCTable ==
    ("1" :> "1") @@ ("1/1" :> "1") @@ ("1/2" :> "1") @@ ("1/3" :> "1") @@
    ("1/4" :> "1") @@ ("2/1" :> "2") @@ ("2/2" :> "2")

MCFields == ("1" :> <<"1/1", "1/2", "1/3">>)

MCPrimaryKeys == ("1" :> {"1/1"}) @@ ("2" :> {"2/1", "2/2"}) @@ ("3" :> {})

MCFloatOf == ("1e-07" :> "1.00000001e-07")

\* The strings are: it's, and a\b.
MCSpelling == [its |-> <<"i", "t", "'", "s">>, slash |-> <<"a", "\\", "b">>]

MCSixDecimals == ("1e-07" :> "0")

MCInt32Of == ("4294967295" :> "-1")

\* A column, the columns of a table, a value, and what no reader accepts.
MCLeaves ==
    <<Clause("Column", "excluded", "1/1"), Clause("Column", "singular", "1"),
      Clause("Float", "", "1e-07"), Clause("All", "", "")>>

\* One operation of each precedence and of each way of writing.
MCOperators ==
    [and_ |-> 2, not_ |-> 1, is_null |-> 1, in |-> 2,
     between |-> 3, add |-> 2, position |-> 2, log |-> 2]

MCGrowing == {"case_"}

MCParts == {"where", "group_by"}

MCStatements ==
    {Clause("Expression", "case_", ""), Clause("Select", "", "1"),
     Clause("Insert", "", "1"), Clause("Update", "", "1"), Clause("Update", "", "2"),
     Clause("Update", "", "3"), Clause("Delete", "", "1"),
     Clause("Truncate", "", "1"), Clause("StartTransaction", "", ""),
     Clause("CommitTransaction", "", "")}

Attribute(path, type, value) == [path |-> path, type |-> type, value |-> value]

MCUnparsable == {"junk"}

\* Rows that share paths in other orders, that name one twice, that lack a key,
\* of types that are not the registered ones, and with a payload that is not the
\* message of its path.
MCRows ==
    {<<>>,
     <<Attribute("1/1", "int32", "1"), Attribute("2/2", "uint32", "4294967295")>>,
     <<Attribute("1/2", "string", "its"), Attribute("1/3", "int32", "4"),
       Attribute("1/4", "message", "m")>>,
     <<Attribute("2/1", "int32", "1"), Attribute("1/2", "bool", "1"),
       Attribute("2/2", "int32", "2"), Attribute("1/2", "string", "slash")>>,
     <<Attribute("1/1", "int32", "1"), Attribute("1/4", "string", "junk")>>}

=============================================================================
