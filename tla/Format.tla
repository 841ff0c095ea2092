------------------------------- MODULE Format -------------------------------
(***************************************************************************)
(* lib/common/format: Format, which puts its arguments in the place of the *)
(* braces of a format string, the options between the braces, and how the  *)
(* arguments are written with them.                                        *)
(*                                                                         *)
(* A string is a sequence of signs; a word that is the name of an option   *)
(* is one sign.  Format and FormatOptions are pure: what they compute is   *)
(* compared with what was meant by the string, over the inputs of the      *)
(* constants.                                                              *)
(***************************************************************************)
EXTENDS Integers, SequencesExt

CONSTANTS
    Texts,          \* pieces of text between two placeholders
    Modes,          \* options of a placeholder
    Words,          \* strings that are values of options
    Keys,           \* names of options
    Arguments,      \* what Format is called with
    Elements        \* sequences of strings: joined with a delimiter and split

Space == {" ", "newline", "return"}
Special == {"{", "}", "'", "\\"}
DigitSigns ==
    <<"0", "1", "2", "3", "4", "5", "6", "7", "8", "9", "a", "b", "c", "d", "e", "f">>
Digit == ToSet(SubSeq(DigitSigns, 1, 10))

Least(S) == IF S = {} THEN 0 ELSE CHOOSE i \in S : \A j \in S : i <= j

\* find: where sub begins in s, from pos on; 0 is npos.
FindText(s, sub, pos) ==
    Least({i \in pos..(Len(s) - Len(sub) + 1) : SubSeq(s, i, i + Len(sub) - 1) = sub})

Find(s, c, pos) == FindText(s, <<c>>, pos)

\* Up to a delimiter that was found, or to the end.
Before(s, pos, found) == SubSeq(s, pos, IF found = 0 THEN Len(s) ELSE found - 1)

After(s, found) == IF found = 0 THEN Len(s) + 1 ELSE found + 1

Trim(s) ==
    LET solid == {i \in DOMAIN s : s[i] \notin Space}
    IN IF solid = {} THEN <<>>
       ELSE SubSeq(s, Least(solid), CHOOSE i \in solid : \A j \in solid : j <= i)

EscapeSymbols(str) ==
    LET escaped(c) ==
            CASE c = "\\" -> <<"\\", "\\">>
              [] c = "newline" -> <<"\\", "n">>
              [] c = "return" -> <<"\\", "r">>
              [] OTHER -> <<c>>
    IN FlattenSeq([i \in DOMAIN str |-> escaped(str[i])])

\* Nothing is returned for the empty end of a string.
Split(s, delimiter) ==
    LET from[pos \in 1..(Len(s) + Len(delimiter) + 1)] ==
            IF pos > Len(s) THEN <<>>
            ELSE LET found == FindText(s, delimiter, pos)
                 IN IF found = 0 THEN <<Before(s, pos, 0)>>
                    ELSE <<Before(s, pos, found)>> \o from[found + Len(delimiter)]
    IN from[1]

\* A backslash takes the sign after it away; at the end it is a sign.
UnescapeSymbols(str) ==
    LET meaning(c) == IF c = "n" THEN "newline" ELSE IF c = "r" THEN "return" ELSE c
        from[i \in 1..(Len(str) + 2)] ==
            IF i > Len(str) THEN <<>>
            ELSE IF str[i] = "\\" /\ i < Len(str)
                 THEN <<meaning(str[i + 1])>> \o from[i + 2]
                 ELSE <<str[i]>> \o from[i + 1]
    IN from[1]

\* The positions from pos on that are neither a backslash nor escaped by one.
Bare(str, pos) ==
    LET from[i \in 1..(Len(str) + 2)] ==
            IF i > Len(str) THEN {}
            ELSE IF str[i] = "\\" /\ i < Len(str) THEN from[i + 2]
                 ELSE {i} \union from[i + 1]
    IN from[pos]

-----------------------------------------------------------------------------
(* FormatOptions: a function from names to values.                         *)

Flag(b) == [flag |-> b]
Word(s) == [word |-> s]
Options(o) == [options |-> o]

IsKind(o, key, kind) == key \in DOMAIN o /\ DOMAIN o[key] = {kind}

GetString(o, key, default) == IF IsKind(o, key, "word") THEN o[key].word ELSE default

GetBool(o, key) == IsKind(o, key, "flag") /\ o[key].flag

\* stoi: the digits at the start; no option here has a sign or more digits than fit.
Leading(s) ==
    LET digits == SelectInSeq(s, LAMBDA c : c \notin Digit)
    IN IF digits = 0 THEN s ELSE SubSeq(s, 1, digits - 1)

ValueOf(digits) ==
    FoldLeft(LAMBDA n, c : 10 * n + SelectInSeq(DigitSigns, LAMBDA d : d = c) - 1,
             0, digits)

GetInt(o, key, default) ==
    IF Leading(GetString(o, key, <<>>)) # <<>>
    THEN ValueOf(Leading(o[key].word)) ELSE default

\* The options whose names begin with prefix and a dot, else those called prefix.
GetSubOptions(o, prefix) ==
    LET dotted == prefix \o <<".">>
        starts == {key \in DOMAIN o : IsPrefix(dotted, key)}
        under == [key \in {SubSeq(k, 3, Len(k)) : k \in starts} |-> o[dotted \o key]]
    IN IF starts # {} THEN under
       ELSE IF IsKind(o, prefix, "options") THEN o[prefix].options ELSE <<>>

\* The brace that closes the one at pos, whatever is quoted between them.
BraceEnd(str, pos) ==
    LET depth(i) == Cardinality({j \in pos..i : str[j] = "{"})
                        - Cardinality({j \in pos..i : str[j] = "}"})
    IN Least({i \in pos..Len(str) : depth(i) = 0})

\* After a value, and the comma that follows it at once.
SkipComma(str, pos) == IF pos <= Len(str) /\ str[pos] = "," THEN pos + 1 ELSE pos

\* What NextOption returns: an option, or none, and where the next one begins.
Next(option, pos) == [option |-> option, pos |-> pos]

\* A flag without a name is none.
FlagOption(str, key, comma) ==
    Next(IF key = <<>> THEN <<>> ELSE key :> Flag(TRUE), After(str, comma))

\* A quoted value, from behind its first quote; the last one may be missing.
QuotedOption(str, key, pos, close) ==
    Next(key :> Word(UnescapeSymbols(Before(str, pos, close))),
         SkipComma(str, After(str, close)))

\* A value that is no quoted string and no options.
Unquoted(key, word) ==
    IF word \in {<<"true">>, <<"false">>} /\ key \notin {<<"true">>, <<"false">>}
    THEN Flag(word = <<"true">>) ELSE Word(word)

\* Up to the comma.  What begins with a brace that is never closed is no flag.
PlainOption(str, key, pos, comma) ==
    Next(key :> Unquoted(key, Trim(Before(str, pos, comma))), After(str, comma))

RECURSIVE ParseFromString(_)

NestedOption(str, key, pos, close) ==
    Next(key :> Options(ParseFromString(SubSeq(str, pos + 1, close - 1))),
         SkipComma(str, close + 1))

\* The option called key whose value begins at pos.
ValueOption(str, key, pos) ==
    LET opens == pos <= Len(str) /\ str[pos] = "{"
        close == IF opens THEN BraceEnd(str, pos) ELSE 0
    IN IF close # 0 THEN NestedOption(str, key, pos, close)
       ELSE IF pos <= Len(str) /\ str[pos] = "'"
       THEN QuotedOption(str, key, pos + 1,
                         Least({i \in Bare(str, pos + 1) : str[i] = "'"}))
       ELSE PlainOption(str, key, pos, Find(str, ",", pos))

\* From pos on, the first that is no space, or the end.
SkipSpace(str, pos) ==
    LET solid == {i \in pos..Len(str) : str[i] \notin Space}
    IN IF solid = {} THEN Len(str) + 1 ELSE Least(solid)

\* The option at pos, given the next comma and equals sign.
NextOption(str, pos, comma, equals) ==
    IF equals = 0 \/ (comma # 0 /\ comma < equals)
    THEN FlagOption(str, Trim(Before(str, pos, comma)), comma)
    ELSE ValueOption(str, Trim(SubSeq(str, pos, equals - 1)), SkipSpace(str, equals + 1))

\* The last value of a name counts.
ParseFromString(str) ==
    LET from[i \in 1..(Len(str) + 2)] ==
            LET and(o) == from[o.pos] @@ o.option
                at(pos) ==
                    IF pos > Len(str) THEN <<>>
                    ELSE and(NextOption(str, pos, Find(str, ",", pos),
                                        Find(str, "=", pos)))
            IN at(SkipSpace(str, i))
    IN from[1]

-----------------------------------------------------------------------------
(* FormatHandler, of each kind of argument.                                *)

Chars(s) == [chars |-> s]           \* strings, characters, exceptions
Truth(b) == [truth |-> b]           \* bool
Number(n) == [number |-> n]         \* integers
Items(q) == [items |-> q]           \* vectors, lists, sets, arrays
Pairs(q) == [pairs |-> q]           \* maps: pairs of key and value
Two(a, b) == [two |-> <<a, b>>]     \* std::pair

Upper == [c \in {"a", "b"} |-> IF c = "a" THEN "A" ELSE "B"]
ToUpper(c) == IF c \in DOMAIN Upper THEN Upper[c] ELSE c
ToLower(c) == IF \E d \in DOMAIN Upper : Upper[d] = c
              THEN CHOOSE d \in DOMAIN Upper : Upper[d] = c ELSE c

Times(c, n) == [i \in 1..n |-> c]

\* The first sign of the option; an empty one gives a zero byte.
Fill(o) ==
    LET fill == GetString(o, <<"fill">>, <<" ">>)
    IN IF fill = <<>> THEN "zero byte" ELSE Head(fill)

Padding(o, length) ==
    LET width == GetInt(o, <<"width">>, 0)
    IN IF width > length THEN Times(Fill(o), width - length) ELSE <<>>

FormatString(value, o) ==
    LET most == GetInt(o, <<"maxlength">>, -1)
        cut == IF most >= 0 /\ most < Len(value) THEN SubSeq(value, 1, most) ELSE value
        cased == [i \in DOMAIN cut |->
                     IF GetBool(o, <<"upper">>) THEN ToUpper(cut[i])
                     ELSE IF GetBool(o, <<"lower">>) THEN ToLower(cut[i]) ELSE cut[i]]
        padding == Padding(o, Len(cut))
    IN IF GetBool(o, <<"left">>) THEN cased \o padding ELSE padding \o cased

Digits(n, base) ==
    LET from[k \in 0..n] ==
            (IF k < base THEN <<>> ELSE from[k \div base])
                \o <<DigitSigns[(k % base) + 1]>>
    IN from[n]

\* Of an integer that is not negative.  Zeros go between the base and the digits.
FormatInteger(value, o) ==
    LET base == GetInt(o, <<"base">>, 10)
        used == IF base \in {8, 16} THEN base ELSE 10
        shown == GetBool(o, <<"showbase">>) /\ value # 0
        before == IF ~shown \/ used = 10 THEN <<>>
                  ELSE IF used = 16 THEN <<"0", "x">> ELSE <<"0">>
        digits == Digits(value, used)
        padding == Padding(o, Len(before \o digits))
    IN IF GetBool(o, <<"left">>) THEN before \o digits \o padding
       ELSE IF Fill(o) = "0" THEN before \o padding \o digits
       ELSE padding \o before \o digits

\* A delimiter between all of the texts.
Between(texts, delimiter) ==
    FlattenSeq([i \in DOMAIN texts |-> IF i = 1 THEN texts[i] ELSE delimiter \o texts[i]])

\* The texts of the elements of a container, cut at the limit.
FormatContainer(texts, o, opening, closing) ==
    LET delimiter == GetString(o, <<"delimiter">>, <<",", " ">>)
        only == GetBool(o, <<"onlydelim">>)
        limit == GetInt(o, <<"limit">>, -1)
        over == limit >= 0 /\ limit < Len(texts)
        overflow == delimiter \o GetString(o, <<"overflow">>, <<".", ".", ".">>)
    IN (IF only THEN <<>> ELSE GetString(o, <<"prefix">>, opening))
           \o Between(IF over THEN SubSeq(texts, 1, limit) ELSE texts, delimiter)
           \o (IF over THEN overflow ELSE <<>>)
           \o (IF only THEN <<>> ELSE GetString(o, <<"suffix">>, closing))

\* What is between the two elements of a pair and around them.
FormatPair(texts, o) ==
    GetString(o, <<"prefix">>, <<"(">>)
        \o Between(texts, GetString(o, <<"delimiter">>, <<",", " ">>))
        \o GetString(o, <<"suffix">>, <<")">>)

\* The values within a value, each with the name of its options.
Parts(value) ==
    CASE DOMAIN value = {"items"} ->
           [i \in DOMAIN value.items |-> <<value.items[i], "element">>]
      [] DOMAIN value = {"two"} ->
           <<<<value.two[1], "first">>, <<value.two[2], "second">>>>
      [] DOMAIN value = {"pairs"} ->
           FlattenSeq([i \in DOMAIN value.pairs |->
               <<<<value.pairs[i][1], "key">>, <<value.pairs[i][2], "value">>>>])
      [] OTHER -> <<>>

\* A value, given the texts of the values within it.
FormatOver(value, o, texts) ==
    LET colon == GetString(o, <<"kv_separator">>, <<":", " ">>)
        entry(i) == texts[2 * i - 1] \o colon \o texts[2 * i]
        kind == CHOOSE k \in DOMAIN value : TRUE
    IN CASE kind = "chars" -> FormatString(value.chars, o)
         [] kind = "truth" ->
              IF value.truth THEN GetString(o, <<"true">>, <<"true">>)
              ELSE GetString(o, <<"false">>, <<"false">>)
         [] kind = "number" -> FormatInteger(value.number, o)
         [] kind = "items" -> FormatContainer(texts, o, <<"[">>, <<"]">>)
         [] kind = "pairs" ->
              FormatContainer([i \in DOMAIN value.pairs |-> entry(i)], o,
                              <<"{">>, <<"}">>)
         [] kind = "two" -> FormatPair(texts, o)

RECURSIVE FormatHandler(_, _)
FormatHandler(value, o) ==
    LET over(parts) ==
            FormatOver(value, o, [i \in DOMAIN parts |->
                FormatHandler(parts[i][1], GetSubOptions(o, <<parts[i][2]>>))])
    IN over(Parts(value))

-----------------------------------------------------------------------------
(* Placeholders.                                                           *)

\* The next c that is neither escaped nor between quotes that open after pos.
FindNext(str, c, pos) ==
    LET bare == Bare(str, pos)
        quotes(i) == {j \in bare : j < i /\ str[j] = "'"}
    IN Least({i \in bare : str[i] = c /\ Cardinality(quotes(i)) % 2 = 0})

\* Faulty: the first closing brace is taken.
FindFlat(str, begin) == FindNext(str, "}", begin)

\* The closing brace that belongs to the opening one at begin.
FindClosing(str, begin) ==
    LET from[cur \in 1..Len(str), end \in 0..Len(str)] ==
            LET inner == FindNext(str, "{", cur + 1)
            IN IF end = 0 \/ inner = 0 \/ inner > end THEN end
               ELSE from[inner, FindNext(str, "}", end + 1)]
    IN from[begin, FindNext(str, "}", begin)]

\* The last sign before pos that is no digit, or 0.
BeforeNumber(str, pos) ==
    LET others == {i \in 1..(pos - 1) : str[i] \notin Digit}
    IN IF others = {} THEN 0 ELSE CHOOSE i \in others : \A j \in others : j <= i

DollarAt(str, i) == IF i # 0 /\ str[i] = "$" THEN i ELSE 0

\* The braces, and the dollar whose number stands before them; 0 is npos.
FindPlaceHolder(str, pos) ==
    LET closed(begin) ==
            [begin |-> begin, end |-> FindClosing(str, begin),
             dollar |-> DollarAt(str, BeforeNumber(str, begin))]
        from(begin) == IF begin = 0 THEN [end |-> 0] ELSE closed(begin)
    IN from(FindNext(str, "{", pos))

\* The placeholders of a string, from the left.
PlaceHolders(str) ==
    LET from[pos \in 1..(Len(str) + 1)] ==
            LET and(p) == IF p.end = 0 THEN <<>> ELSE <<p>> \o from[p.end + 1]
            IN IF pos > Len(str) THEN <<>> ELSE and(FindPlaceHolder(str, pos))
    IN from[1]

HasIndexedPlaceholders(holders) == \E k \in DOMAIN holders : holders[k].dollar # 0

Modifiers(str, p) == SubSeq(str, p.begin + 1, p.end - 1)

Result(throws, text) == [throws |-> throws, text |-> IF throws THEN <<>> ELSE text]

\* The text between the placeholders, and fills in the place of each.
Filled(str, holders, fills) ==
    LET starts(k) == IF holders[k].dollar # 0 THEN holders[k].dollar ELSE holders[k].begin
        text(k) == SubSeq(str, IF k = 1 THEN 1 ELSE holders[k - 1].end + 1,
                          IF k > Len(holders) THEN Len(str) ELSE starts(k) - 1)
    IN FlattenSeq([k \in 1..(Len(holders) + 1) |->
                      UnescapeSymbols(text(k))
                          \o IF k \in DOMAIN fills THEN fills[k] ELSE <<>>])

\* The k-th placeholder is the k-th argument's; without one it stays.
SequentialIndex(holders) == [k \in DOMAIN holders |-> k]

\* The number of a placeholder is the index of its argument; those without take
\* the arguments from the first on.  No number after a dollar is an exception.
NumberOf(str, p) == SubSeq(str, p.dollar + 1, p.begin - 1)

IndexOf(str, holders) ==
    [k \in DOMAIN holders |->
        IF holders[k].dollar = 0 THEN Cardinality({j \in 1..k : holders[j].dollar = 0})
        ELSE ValueOf(NumberOf(str, holders[k]))]

NoNumber(str, holders) ==
    \E k \in DOMAIN holders : holders[k].dollar # 0 /\ NumberOf(str, holders[k]) = <<>>

\* FormatWithTupleSequential and FormatWithTuple: what has no argument stays in
\* the first, and vanishes in the second.
FormatHolders(str, holders, indexed, places, args) ==
    LET fill(modifiers, i) ==
            IF i \in DOMAIN args THEN FormatHandler(args[i], ParseFromString(modifiers))
            ELSE IF indexed THEN <<>> ELSE <<"{">> \o modifiers \o <<"}">>
    IN Result(NoNumber(str, holders),
              Filled(str, holders, [k \in DOMAIN holders |->
                                       fill(Modifiers(str, holders[k]), places[k])]))

FormatWith(str, holders, args) ==
    IF HasIndexedPlaceholders(holders)
    THEN FormatHolders(str, holders, TRUE, IndexOf(str, holders), args)
    ELSE FormatHolders(str, holders, FALSE, SequentialIndex(holders), args)

FormatText(str, args) == FormatWith(str, PlaceHolders(str), args)

-----------------------------------------------------------------------------
(* What a caller means: options as a list of names and values, a format    *)
(* string as its texts and placeholders; and how it is written.            *)

Escaped(s, signs) ==
    FlattenSeq([i \in DOMAIN s |-> IF s[i] \in signs THEN <<"\\", s[i]>> ELSE <<s[i]>>])

Truths == {<<"true">>, <<"false">>}

IsPlain(key, word) ==
    /\ ToSet(word) \intersect (Special \union Space \union {","}) = {}
    /\ word \in Truths => key \in Truths

WrittenWord(key, word) ==
    IF IsPlain(key, word) THEN word
    ELSE <<"'">> \o Escaped(word, {"'", "\\"}) \o <<"'">>

RECURSIVE Written(_)
Written(list) ==
    LET option(key, value) ==
            key \o CASE DOMAIN value = {"flag"} -> <<>>
                     [] DOMAIN value = {"word"} -> <<"=">> \o WrittenWord(key, value.word)
                     [] OTHER -> <<"=", "{">> \o Written(value.options) \o <<"}">>
    IN Between([i \in DOMAIN list |-> option(list[i][1], list[i][2])], <<",">>)

RECURSIVE Meaning(_)
Meaning(list) ==
    LET value(v) == IF DOMAIN v = {"options"} THEN Options(Meaning(v.options)) ELSE v
    IN [key \in {list[i][1] : i \in DOMAIN list} |->
           value(list[CHOOSE i \in DOMAIN list : list[i][1] = key][2])]

Singles(values) == {<<>>} \union {<<<<key, v>>>> : key \in Keys, v \in values}

FlatValues == {Flag(TRUE)} \union {Word(w) : w \in Words}

Values == FlatValues \union {Options(list) : list \in Singles(FlatValues)}

Lists ==
    LET pairs == {a \o b : a \in Singles(Values), b \in Singles(Values)}
    IN Singles(Values) \union {l \in pairs : Len(l) = 2 /\ l[1][1] # l[2][1]}

\* A brace in an option of an option counts as one of its braces, quoted or not.
InnerBrace(list) ==
    \E i \in DOMAIN list :
        /\ DOMAIN list[i][2] = {"options"}
        /\ \E j \in DOMAIN list[i][2].options :
               LET v == list[i][2].options[j][2]
               IN DOMAIN v = {"word"} /\ ToSet(v.word) \intersect {"{", "}"} # {}

Holders == [index : 0..(Len(Arguments) + 1), options : Modes]

WrittenHolder(holder) ==
    (IF holder.index = 0 THEN <<>> ELSE <<"$", DigitSigns[holder.index + 1]>>)
        \o <<"{">> \o Written(holder.options) \o <<"}">>

\* The format string of texts, one more than there are holders.
Composed(texts, holders) ==
    FlattenSeq([k \in DOMAIN holders |->
        Escaped(texts[k], Special) \o WrittenHolder(holders[k])])
        \o Escaped(Last(texts), Special)

\* A text that ends with a dollar and digits numbers the placeholder after it.
Meant(text, holder) ==
    LET numbered(last) ==
            IF DollarAt(text, last) = 0
            THEN [text |-> text, numbered |-> FALSE, number |-> <<>>]
            ELSE [text |-> SubSeq(text, 1, last - 1), numbered |-> TRUE,
                  number |-> SubSeq(text, last + 1, Len(text))]
    IN IF holder.index = 0 THEN numbered(BeforeNumber(text, Len(text) + 1))
       ELSE [text |-> text, numbered |-> TRUE,
             number |-> <<DigitSigns[holder.index + 1]>>]

FilledAsMeant(meant, holders, end) ==
    LET turn(k) == Cardinality({j \in 1..k : ~meant[j].numbered})
        place(k) == IF meant[k].numbered THEN ValueOf(meant[k].number) ELSE turn(k)
        fill(options, i) ==
            IF i \in DOMAIN Arguments THEN FormatHandler(Arguments[i], Meaning(options))
            ELSE IF \E k \in DOMAIN meant : meant[k].numbered THEN <<>>
            ELSE <<"{">> \o Written(options) \o <<"}">>
    IN Result(\E k \in DOMAIN meant : meant[k].numbered /\ meant[k].number = <<>>,
              FlattenSeq([k \in DOMAIN meant |->
                             meant[k].text \o fill(holders[k].options, place(k))]) \o end)

MeantBy(texts, holders) ==
    FilledAsMeant([k \in DOMAIN holders |-> Meant(texts[k], holders[k])],
                  holders, Last(texts))

-----------------------------------------------------------------------------
(* Properties.                                                             *)

\* Whatever a caller writes between the braces of a placeholder, quoted as it has
\* to be, FormatOptions reads as it was meant; but a brace in an option of an
\* option, quoted or not, ends it.
OptionsReadBack ==
    \A list \in Lists :
        ~InnerBrace(list) => ParseFromString(Written(list)) = Meaning(list)

\* Format puts each argument in the place that was meant, once per placeholder,
\* and reads none of what it has put in; braces, quotes and backslashes of the text
\* count for nothing if they are escaped.  It throws for a dollar without a number,
\* and for nothing else.
PlaceholdersFilled ==
    \A first, second \in Texts, one, other \in Holders :
        LET texts == <<first, second, first>>
            holders == <<one, other>>
        IN FormatText(Composed(texts, holders), Arguments) = MeantBy(texts, holders)

\* Names that Format joins with a delimiter are those Split finds, but for an empty
\* one at the end; and what EscapeSymbols writes on one line is read back whole.
PiecesReadBack ==
    /\ \A q \in Elements :
           LET joined == FormatHandler(Items([i \in DOMAIN q |-> Chars(q[i])]),
                                (<<"onlydelim">> :> Flag(TRUE))
                                @@ (<<"delimiter">> :> Word(<<"_">>)))
           IN Split(joined, <<"_">>) =
                  IF q # <<>> /\ Last(q) = <<>> THEN Front(q) ELSE q
    /\ \A q \in Elements : \A s \in ToSet(q) : UnescapeSymbols(EscapeSymbols(s)) = s

FormatExact == OptionsReadBack /\ PlaceholdersFilled /\ PiecesReadBack

=============================================================================
