----------------------------- MODULE MCRotation -----------------------------
(***************************************************************************)
(* Messages that are written to files as Format composes them: the n-th    *)
(* message of a behaviour is the n-th call of TLogManager::Log.  The       *)
(* format strings have up to two placeholders; the arguments of all calls  *)
(* are the string "{}" and two numbers.                                    *)
(***************************************************************************)
EXTENDS LogRotation

CONSTANT
    Logged          \* the calls whose messages Format composes otherwise than meant,
                    \* and whether it does what is meant elsewhere

Texts0 == {<<>>, <<"$">>, <<"a", "1">>, <<"\\">>, <<"}", "$", "1">>, <<"a", "'", "{">>}

Words0 ==
    {<<>>, <<"a">>, <<",">>, <<"'">>, <<"{">>, <<"}", "\\">>, <<"true">>, <<" ", "=">>,
     <<"newline">>}

Flat0 == <<<<<<"suffix">>, [word |-> <<"}", "'">>]>>>>

Nested0 == <<<<<<"element">>, [options |-> <<<<<<"width">>, [word |-> <<"2">>]>>>>]>>>>

Arguments0 ==
    <<[chars |-> <<"{", "}">>], [items |-> <<[number |-> 7], [number |-> 12]>>]>>

Pieces0 == {<<>>, <<"a">>, <<"\\", "n">>, <<"newline">>}

Written == INSTANCE Format WITH
    Texts <- Texts0, Words <- Words0, Modes <- {<<>>, Flat0, Nested0},
    Keys <- {<<"left">>, <<"fill">>, <<"true">>},
    Arguments <- Arguments0,
    Elements <- UNION {[1..n -> Pieces0] : n \in 0..3}

\* What the calls mean: texts and, between them, placeholders.
Holder(number, options) == [index |-> number, options |-> options]

Calls ==
    <<[texts |-> <<<<"a", " ">>, <<" ">>, <<>>>>,
       holders |-> <<Holder(0, <<>>), Holder(0, Nested0)>>],
      [texts |-> <<<<"{">>, <<"}", "'">>>>, holders |-> <<Holder(2, Nested0)>>],
      [texts |-> <<<<"'">>, <<"\\">>, <<"'">>>>,
       holders |-> <<Holder(2, Flat0), Holder(0, <<>>)>>],
      [texts |-> <<<<>>, <<>>>>, holders |-> <<Holder(2, <<>>)>>],
      [texts |-> <<<<"$", "b">>, <<",">>, <<>>>>,
       holders |-> <<Holder(0, Flat0), Holder(0, Flat0)>>]>>

Misread ==
    LET format(call) == Written!Composed(call.texts, call.holders)
        meant(call) == Written!MeantBy(call.texts, call.holders)
    IN {id \in DOMAIN Calls :
           Written!FormatText(format(Calls[id]), Arguments0) # meant(Calls[id])}

Logged0 ==
    LET exact == Written!FormatExact
    IN [misread |-> Misread, exact |-> exact]

\* What is in the files reads as the callers of Log meant it: Format puts the
\* arguments where they belong in every message, and in every string within the
\* bounds of Format.tla (format.cpp:36-365, logging.h:101).
FormatExact ==
    /\ Logged.exact
    /\ \A s \in DOMAIN disk : \A m \in ToSet(disk[s]) : m.id \notin Logged.misread

=============================================================================
