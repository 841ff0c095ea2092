CONSTANTS
 FieldType <- MCFieldType
 FloatOf <- MCFloatOf
 Unparsable <- MCUnparsable
 Spelling <- MCSpelling
 SixDecimals <- MCSixDecimals
 Leaves <- MCLeaves
 Operators <- MCOperators
 Growing <- MCGrowing
 Parts <- MCParts
 Statements <- MCStatements
 Rows <- MCRows
 Table <- MCTable
 Fields <- MCFields
 PrimaryKeys <- MCPrimaryKeys
 Int32Of <- MCInt32Of
 MaxSize = 3
 MaxOperands = 3
 MaxParts = 2
 MaxQuery = 2
SPECIFICATION QuerySpec
INVARIANTS ArrivesAsSent RowsAligned UpdateKeyed TextReadsBack
CHECK_DEADLOCK FALSE
