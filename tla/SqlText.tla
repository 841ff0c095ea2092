------------------------------ MODULE SqlText -------------------------------
(***************************************************************************)
(* What all texts of TPostgresBuilder are made of.  A text is a sequence   *)
(* of tokens: <<word>> for the words and signs of SQL, <<class, text>> for *)
(* names and values.  The characters of a string matter only in literals.  *)
(***************************************************************************)
EXTENDS Naturals, SequencesExt

CONSTANTS
    Spelling,       \* the characters of strings that have more than one
    SixDecimals     \* the numbers that std::to_string does not write as they
                    \* are, with what it writes

Spelled(value) == IF value \in DOMAIN Spelling THEN Spelling[value] ELSE <<value>>

Decimal(value) == IF value \in DOMAIN SixDecimals THEN SixDecimals[value] ELSE value

\* Between the texts, not before the first.
Separated(texts, sign) ==
    FlattenSeq([i \in DOMAIN texts |-> IF i = 1 THEN texts[1] ELSE <<sign>> \o texts[i]])

Braced(text) == <<<<"(">>>> \o text \o <<<<")">>>>

Escape(c) ==
    CASE c = "'" -> <<"'", "'">>
      [] c = "\\" -> <<"\\", "\\">>
      [] c = "newline" -> <<"\\", "n">>
      [] c = "return" -> <<"\\", "r">>
      [] c = "tab" -> <<"\\", "t">>
      [] OTHER -> <<c>>

EscapeStringLiteral(chars) ==
    <<"'">> \o FlattenSeq([i \in DOMAIN chars |-> Escape(chars[i])]) \o <<"'">>

-----------------------------------------------------------------------------
(* The server.                                                             *)

\* What lies between the signs.
Split(text, sign) ==
    LET put(pieces, token) ==
            IF token = sign THEN Append(pieces, <<>>)
            ELSE [pieces EXCEPT ![Len(pieces)] = Append(@, token)]
    IN IF text = <<>> THEN <<>> ELSE FoldLeft(put, <<<<>>>>, text)

\* A literal ends at the first quote that is not doubled; a backslash in it
\* is a character like any other (standard_conforming_strings).
ReadLiteral(text) ==
    LET n == Len(text)
        rest[i \in 2..(n + 2)] ==
            IF i > n THEN <<"open">>
            ELSE IF text[i] # "'" THEN <<text[i]>> \o rest[i + 1]
            ELSE IF i = n THEN <<>>
            ELSE IF text[i + 1] = "'" THEN <<"'">> \o rest[i + 2]
            ELSE <<"open">>
    IN rest[2]

\* A string that a literal does not keep.
LiteralLost(value) ==
    ToSet(Spelled(value)) \cap {"\\", "newline", "return", "tab"} # {}

=============================================================================
