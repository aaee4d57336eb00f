---------------------------- MODULE MCNameSearch ----------------------------
(* NameSearch over short names of letters in either case, an accented letter,
   a combining accent, a byte that is not UTF-8 and two separators, of which
   "_" is also a character of words. *)
EXTENDS NameSearch

MCLowerOf == [c \in {"A"} |-> "a"]
MCSeparators == {"_", "-"}
MCWordChars == {"a", "A", "b", "_"}
MCBadBytes == {"?"}
\* "E" stands for an accented a, "'" for a combining accent.
MCStrippedOf == [c \in {"a", "A", "b", "_", "-", "/", "E", "'"} |->
                   IF c = "E" THEN <<"a">> ELSE IF c = "'" THEN <<>> ELSE <<c>>]

MCPaths == {
    <<"/", "a", "a", "b", "a", "b">>,
    <<"/", "b", "a", "_", "a", "A", "b">>,
    <<"/", "b", "-", "A", "-", "b">>,
    <<"/", "a", "b", "/", "b", "a">>,
    <<"/", "a", "'", "b", "E">>,
    <<"/", "a", "?", "E">>,
    <<"/", "_", "a", "-">> }

MCFillers == {<<"/", "b", "-", "A", "-", "b">>, <<"/", "a", "b", "/", "b", "a">>}

MCSearchTexts == {
    <<"a", "b">>, <<"b", "a">>, <<"A", "b">>, <<"a", "-", "b">>, <<"b", "_", "a", "b">>,
    <<"_", "-">>, <<"E">>, <<"a", "?">> }

\* The options, but for diacritics under a regular expression, which ignores them.
MCOptionSets ==
    {o \in [useRegex : BOOLEAN, caseSensitive : BOOLEAN, wholeWord : BOOLEAN,
            matchPath : BOOLEAN, ignoreDiacritics : BOOLEAN] :
        o.useRegex => ~o.ignoreDiacritics}
=============================================================================
