------------------------------ MODULE GetOpts -------------------------------
(***************************************************************************)
(* lib/common/getopts: the options of a command line.  A parser has the    *)
(* options that were added to it and what Parse has found so far, in all   *)
(* of its calls; an exception leaves what was found before it.             *)
(*                                                                         *)
(* An argument is a sequence of signs; a long name is one sign.            *)
(***************************************************************************)
EXTENDS Integers, SequencesExt

CONSTANTS
    Added,          \* the options, in the order of AddOption
    Words,          \* values, and arguments that are no option
    NoName          \* the short name 0, the long name ""

Option(short, long, argument) ==
    [shortName |-> short, longName |-> long, requiresArgument |-> argument]

Absent == [present |-> FALSE, value |-> <<>>]

ShortIndex(options, c) == SelectInSeq(options, LAMBDA o : o.shortName = c)

LongIndex(options, name) == SelectInSeq(options, LAMBDA o : o.longName = name)

ValidateOption(options, o) ==
    /\ o.shortName # NoName \/ o.longName # NoName
    /\ o.shortName # NoName => ShortIndex(options, o.shortName) = 0
    /\ o.longName # NoName => LongIndex(options, o.longName) = 0

NewParser == [options |-> <<>>, values |-> <<>>, positional |-> <<>>, throws |-> FALSE]

\* One that is not valid throws, and is not registered.
AddOption(parser, o) ==
    IF ~ValidateOption(parser.options, o) THEN [parser EXCEPT !.throws = TRUE]
    ELSE [parser EXCEPT !.options = Append(@, o), !.values = Append(@, Absent)]

-----------------------------------------------------------------------------
(* Parse.  While it runs the parser also has: whether "--" was read, the   *)
(* option that takes the next argument, or 0, and whether the value of an  *)
(* option was the rest of the argument.                                    *)

Thrown(parser) == [parser EXCEPT !.throws = TRUE]

Found(parser, k) == [parser EXCEPT !.values[k].present = TRUE]

Given(parser, k, value) ==
    [parser EXCEPT !.values[k] = [present |-> TRUE, value |-> value]]

\* An option letter: a flag, or one whose value is the rest of the argument or,
\* at its end, the next argument.
ShortAt(parser, arg, pos, k) ==
    IF k = 0 THEN Thrown(parser)
    ELSE IF ~parser.options[k].requiresArgument THEN Found(parser, k)
    ELSE IF pos = Len(arg) THEN [Found(parser, k) EXCEPT !.awaits = k]
    ELSE [Given(parser, k, SubSeq(arg, pos + 1, Len(arg))) EXCEPT !.rest = TRUE]

ProcessShortOption(parser, arg) ==
    FoldLeft(LAMBDA p, pos :
                 IF p.throws \/ p.rest THEN p
                 ELSE ShortAt(p, arg, pos, ShortIndex(p.options, arg[pos])),
             parser, [i \in 1..(Len(arg) - 1) |-> i + 1])

\* Faulty: the name ends at the last equals sign.
LastEquals(arg) == SelectLastInSeq(arg, LAMBDA c : c = "=")

FirstEquals(arg) == SelectInSeq(arg, LAMBDA c : c = "=")

\* The name of a long option is what stands before the first equals sign.
LongAt(parser, arg, equals, k) ==
    IF k = 0 THEN Thrown(parser)
    ELSE IF (equals # 0) # parser.options[k].requiresArgument
    THEN Thrown(Found(parser, k))
    ELSE IF equals = 0 THEN Found(parser, k)
    ELSE Given(parser, k, SubSeq(arg, equals + 1, Len(arg)))

LongName(name) == IF Len(name) = 1 THEN Head(name) ELSE "several signs"

ProcessLongOption(parser, arg) ==
    LET equals == FirstEquals(arg)
        name == SubSeq(arg, 1, IF equals = 0 THEN Len(arg) ELSE equals - 1)
    IN LongAt(parser, arg, equals, LongIndex(parser.options, LongName(name)))

ProcessPositional(parser, arg) == [parser EXCEPT !.positional = Append(@, arg)]

ProcessArgument(parser, arg) ==
    IF parser.throws THEN parser
    ELSE IF parser.awaits # 0
    THEN [Given(parser, parser.awaits, arg) EXCEPT !.awaits = 0]
    ELSE IF parser.ended \/ Len(arg) < 2 \/ arg[1] # "-"
    THEN ProcessPositional(parser, arg)
    ELSE IF arg = <<"-", "-">> THEN [parser EXCEPT !.ended = TRUE]
    ELSE IF arg[2] = "-" THEN ProcessLongOption(parser, SubSeq(arg, 3, Len(arg)))
    ELSE ProcessShortOption([parser EXCEPT !.rest = FALSE], arg)

\* After the arguments: one is missing, an option has an empty one, or one that
\* takes an argument has no short name for at() to find.
EndOfArguments(parser) ==
    \/ parser.awaits # 0
    \/ \E k \in DOMAIN parser.options :
           /\ parser.options[k].requiresArgument
           /\ \/ parser.options[k].shortName = NoName
              \/ parser.values[k] = [present |-> TRUE, value |-> <<>>]

Parse(parser, argv) ==
    LET begun == [awaits |-> 0, ended |-> FALSE, rest |-> FALSE] @@ parser
        read == FoldLeft(ProcessArgument, [begun EXCEPT !.throws = FALSE], argv)
    IN [options |-> parser.options, values |-> read.values,
        positional |-> read.positional, throws |-> read.throws \/ EndOfArguments(read)]

-----------------------------------------------------------------------------
(* What is meant by a command line: a list of items, each an option with   *)
(* its value or a word, and words behind "--"; and how it can be written.  *)

Parser == FoldLeft(AddOption, NewParser, Added)

Named(k, style) ==
    IF style = "long" THEN Added[k].longName # NoName ELSE Added[k].shortName # NoName

Flags ==
    {[option |-> k, style |-> style, value |-> <<>>] :
        k \in {j \in DOMAIN Added : ~Added[j].requiresArgument},
        style \in {"short", "long"}}

Values ==
    {[option |-> k, style |-> style, value |-> w] :
        k \in {j \in DOMAIN Added : Added[j].requiresArgument},
        style \in {"short", "next", "long"}, w \in Words}

IsPlain(word) == Len(word) < 2 \/ word[1] # "-"

Plain ==
    {[option |-> 0, style |-> "word", value |-> w] : w \in {w \in Words : IsPlain(w)}}

\* An empty rest of an argument would be no rest.
Items ==
    {i \in Flags \union Values \union Plain :
        /\ i.option # 0 => Named(i.option, i.style)
        /\ i.option # 0 /\ Added[i.option].requiresArgument /\ i.style = "short" =>
               i.value # <<>>}

\* The letter of an option, without its dash, and the argument behind it.
Letters(item) ==
    <<<<Added[item.option].shortName>>
          \o (IF item.style = "short" THEN item.value ELSE <<>>)>>
        \o (IF item.style = "next" THEN <<item.value>> ELSE <<>>)

WrittenItem(item) ==
    CASE item.style = "word" -> <<item.value>>
      [] item.style = "long" ->
           <<<<"-", "-", Added[item.option].longName>>
                 \o (IF item \in Values THEN <<"=">> \o item.value ELSE <<>>)>>
      [] OTHER -> <<<<"-">> \o Head(Letters(item))>> \o Tail(Letters(item))

Cluster(flag, item) ==
    <<<<"-", Added[flag.option].shortName>> \o Head(Letters(item))>>
        \o Tail(Letters(item))

\* All ways to write one or two items.
Writings(items) ==
    {FlattenSeq([i \in DOMAIN items |-> WrittenItem(items[i])])}
        \union IF /\ Len(items) = 2 /\ items[1].option # 0 /\ items[2].option # 0
                  /\ items[1] \in Flags /\ items[1].style = "short"
                  /\ items[2].style \in {"short", "next"}
               THEN {Cluster(items[1], items[2])} ELSE {}

\* The last value of an option counts, in all calls of Parse together; it must not
\* be empty, and every option that takes a value must have a letter.
Meaning(parser, items, words) ==
    LET uses(k) == SelectSeq(items, LAMBDA i : i.option = k)
        found == [k \in DOMAIN Added |->
                     IF uses(k) = <<>> THEN parser.values[k]
                     ELSE [present |-> TRUE, value |-> Last(uses(k)).value]]
        plain == SelectSeq(items, LAMBDA i : i.option = 0)
    IN [options |-> Added, values |-> found,
        positional |->
            parser.positional \o [i \in DOMAIN plain |-> plain[i].value] \o words,
        throws |->
            \E k \in DOMAIN Added :
                /\ Added[k].requiresArgument
                /\ \/ Added[k].shortName = NoName
                   \/ found[k] = [present |-> TRUE, value |-> <<>>]]

Lists == {<<>>} \union {<<i>> : i \in Items} \union {<<i, j>> : i, j \in Items}

Ends == {<<>>} \union {<<w>> : w \in Words}

WithEnd(args, words) == IF words = <<>> THEN args ELSE args \o <<<<"-", "-">>>> \o words

-----------------------------------------------------------------------------
(* Properties.                                                             *)

\* Both names of an option lead to it, and neither can be given to another.
NamesExact ==
    /\ ~Parser.throws /\ Parser.options = Added
    /\ \A k \in DOMAIN Added :
          /\ Added[k].shortName # NoName =>
                /\ ShortIndex(Added, Added[k].shortName) = k
                /\ AddOption(Parser, Option(Added[k].shortName, NoName, TRUE)).throws
          /\ Added[k].longName # NoName =>
                /\ LongIndex(Added, Added[k].longName) = k
                /\ AddOption(Parser, Option(NoName, Added[k].longName, TRUE)).throws

\* A command line is read as it was meant, in whatever way it is written: a value
\* may look like an option and contain equals signs.
ReadAsMeant ==
    \A items \in Lists, words \in Ends : \A args \in Writings(items) :
        Parse(Parser, WithEnd(args, words)) = Meaning(Parser, items, words)

\* A second call goes on where the first one ended, also if that one threw.
ReadOn ==
    \A items \in Lists, item \in Items :
        LET first == Meaning(Parser, items, <<>>)
        IN Parse(first, WrittenItem(item)) = Meaning(first, <<item>>, <<>>)

\* What is no command line is refused: a letter or a name nobody added, a value
\* for a flag, none for another option.
Refused ==
    \A items \in Lists, k \in {j \in DOMAIN Added : Added[j].longName # NoName} :
        LET long == <<"-", "-", Added[k].longName>>
            odd == IF Added[k].requiresArgument THEN long ELSE Append(long, "=")
        IN \A args \in Writings(items),
              bad \in {<<"-", "?">>, <<"-", "-", "?">>, <<"-", "-", "=">>, odd} :
               Parse(Parser, Append(args, bad)).throws

OptionsExact == NamesExact /\ ReadAsMeant /\ ReadOn /\ Refused

=============================================================================
