----------------------------- MODULE NameSearch -----------------------------
(***************************************************************************)
(* SearchEngine::Search over the pool: substring, words and regular        *)
(* expressions, with the five options, the cap and the cancel token.       *)
(*                                                                         *)
(* One action is one turn of the loop over the entries; the store's shared *)
(* lock keeps the pool as it is meanwhile. utf8proc and RE2 are external:  *)
(* StrippedOf is what a character decomposes to, and a regular expression  *)
(* is a text that stands for itself, refused when it is not UTF-8. The     *)
(* chunks of the SIMD searches are shorter than 16 and 32 bytes, so that   *)
(* short names have chunks and a tail.                                     *)
(***************************************************************************)
EXTENDS EntryPool

CONSTANTS
    SearchTexts,   \* bound: the queries
    OptionSets,    \* bound: the options they are searched under
    StrippedOf,    \* what each character decomposes to, without its marks
    WordChars,     \* the characters \b tells from others
    BadBytes,      \* bytes that are not UTF-8
    Tiers,         \* chunk widths the processor may offer, 0 for scalar search
    kMaxSearchResults

ASSUME TiersAssumption == Tiers \subseteq Nat
ASSUME CapAssumption == kMaxSearchResults \in Nat \ {0}

VARIABLES
    kTier,     \* the width FindSubstring settled on when it was first called
    search     \* the call under way: what was asked, the next entry, the results

vars == <<pool, added, kTier, search>>

npos == -1

-----------------------------------------------------------------------------
(* FindSubstring.                                                          *)

\* memcmp at a position, for as long as the needle fits.
Verifies(haystack, needle, p) ==
    p + Len(needle) <= Len(haystack) /\ Sub(haystack, p, Len(needle)) = needle

\* The positions of a chunk or of the tail that hold the needle's first byte.
Candidates(haystack, needle, from, to) ==
    {p \in from..to : haystack[p + 1] = needle[1]}

\* Mutant of FindSubstring: the tail starts one byte late.
FindSubstringLateTail(haystack, needle) ==
    LET Chunk(c) == {p \in Candidates(haystack, needle, c * kTier, (c + 1) * kTier - 1) :
                       Verifies(haystack, needle, p)}
        chunks == IF kTier = 0 THEN 0 ELSE Len(haystack) \div kTier
        hits   == {c \in 0..(chunks - 1) : Chunk(c) # {}}
        tail   == {p \in Candidates(haystack, needle, chunks * kTier + 1,
                                    Len(haystack) - Len(needle)) : Verifies(haystack, needle, p)}
    IN CASE needle = <<>> -> 0
         [] needle # <<>> /\ Len(needle) > Len(haystack) -> npos
         [] OTHER -> IF hits # {} THEN Min(Chunk(Min(hits)))
                     ELSE IF tail # {} THEN Min(tail) ELSE npos

\* FindSubstringAvx2 and FindSubstringSse42: chunk by chunk, the lowest bit of
\* the mask first, then the bytes that fill no chunk. Tier 0 is string::find.
FindSubstring(haystack, needle) ==
    LET Chunk(c) == {p \in Candidates(haystack, needle, c * kTier, (c + 1) * kTier - 1) :
                       Verifies(haystack, needle, p)}
        chunks == IF kTier = 0 THEN 0 ELSE Len(haystack) \div kTier
        hits   == {c \in 0..(chunks - 1) : Chunk(c) # {}}
        tail   == {p \in Candidates(haystack, needle, chunks * kTier,
                                    Len(haystack) - Len(needle)) : Verifies(haystack, needle, p)}
    IN CASE needle = <<>> -> 0
         [] needle # <<>> /\ Len(needle) > Len(haystack) -> npos
         [] OTHER -> IF hits # {} THEN Min(Chunk(Min(hits)))
                     ELSE IF tail # {} THEN Min(tail) ELSE npos

-----------------------------------------------------------------------------
(* What is searched for, and in what.                                      *)

IsValid(text) == \A i \in DOMAIN text : text[i] \notin BadBytes

\* utf8proc fails on a text that is not UTF-8, which is then searched as it is.
FoldDiacritics(text, caseSensitive) ==
    LET stripped == IF IsValid(text) THEN FlattenSeq([i \in DOMAIN text |-> StrippedOf[text[i]]])
                    ELSE text
    IN IF caseSensitive THEN stripped ELSE CaseFoldAscii(stripped)

GetSearchTarget(entry, options) ==
    LET text == IF options.matchPath THEN entry.path ELSE entry.name
    IN CASE options.ignoreDiacritics -> FoldDiacritics(text, options.caseSensitive)
         [] ~options.ignoreDiacritics /\ options.caseSensitive -> text
         [] OTHER -> IF options.matchPath THEN CaseFoldAscii(text) ELSE entry.nameLower

GetQueryText(query, options) ==
    CASE options.ignoreDiacritics -> FoldDiacritics(query, options.caseSensitive)
      [] ~options.ignoreDiacritics /\ options.caseSensitive -> query
      [] OTHER -> CaseFoldAscii(query)

ContainsSeparator(text) == \E i \in DOMAIN text : text[i] \in Separators

MatchesWholeWord(subject, matchStart, matchLen) ==
    /\ matchStart = 0 \/ subject[matchStart] \in Separators
    /\ \/ matchStart + matchLen = Len(subject)
       \/ subject[matchStart + matchLen + 1] \in Separators

Tokenize(text) == ApplyTokenSpans(text, TokenizeToSpans(text))

MatchesAllTokens(queryTokens, nameTokens) ==
    \A q \in ToSet(queryTokens) : \E t \in ToSet(nameTokens) :
        \E p \in 0..Len(t) : Verifies(t, q, p)

\* RE2 on a literal: the leftmost match, between word boundaries when the
\* pattern was wrapped in \b(?:...)\b.
RegexOk(pattern) == IsValid(pattern)

AtBoundary(text, p) ==
    (p > 0 /\ text[p] \in WordChars) # (p < Len(text) /\ text[p + 1] \in WordChars)

PartialMatch(subject, pattern, options) ==
    LET Fold(t) == IF options.caseSensitive THEN t ELSE CaseFoldAscii(t)
        found == {p \in 0..Len(subject) :
                    /\ Verifies(Fold(subject), Fold(pattern), p)
                    /\ options.wholeWord => /\ AtBoundary(subject, p)
                                            /\ AtBoundary(subject, p + Len(pattern))}
    IN IF found = {} THEN npos ELSE Min(found)

-----------------------------------------------------------------------------
(* The result of one turn: none, or one match.                             *)

Match(i, start, length) == <<[entryIndex |-> i, matchStart |-> start, matchLen |-> length]>>

RegexTurn(i, entry, query, options) ==
    LET pos == PartialMatch(IF options.matchPath THEN entry.path ELSE entry.name, query, options)
    IN IF pos = npos THEN <<>> ELSE Match(i, pos, Len(query))

\* Mutant of TokenTurn: the words of the name serve a search of the path too.
TokenTurnCached(i, entry, query, options) ==
    LET subject     == GetSearchTarget(entry, options)
        name        == GetSearchTarget(entry, [options EXCEPT !.matchPath = FALSE,
                                                              !.ignoreDiacritics = FALSE])
        queryTokens == Tokenize(GetQueryText(query, options))
        nameTokens  == ApplyTokenSpans(name, entry.nameTokenSpans)
        pos == IF queryTokens = <<>> THEN npos ELSE FindSubstring(subject, queryTokens[1])
    IN IF ~MatchesAllTokens(queryTokens, nameTokens) THEN <<>>
       ELSE IF pos = npos THEN Match(i, 0, 0) ELSE Match(i, pos, Len(queryTokens[1]))

\* The cached spans serve a name that is searched as it is or case-folded.
TokenTurn(i, entry, query, options) ==
    LET subject     == GetSearchTarget(entry, options)
        queryTokens == Tokenize(GetQueryText(query, options))
        nameTokens  == IF ~options.matchPath /\ ~options.ignoreDiacritics
                       THEN ApplyTokenSpans(subject, entry.nameTokenSpans)
                       ELSE Tokenize(subject)
        pos == IF queryTokens = <<>> THEN npos ELSE FindSubstring(subject, queryTokens[1])
    IN IF ~MatchesAllTokens(queryTokens, nameTokens) THEN <<>>
       ELSE IF pos = npos THEN Match(i, 0, 0) ELSE Match(i, pos, Len(queryTokens[1]))

SubstringTurn(i, entry, query, options) ==
    LET subject   == GetSearchTarget(entry, options)
        queryText == GetQueryText(query, options)
        pos       == FindSubstring(subject, queryText)
    IN IF pos # npos /\ (options.wholeWord => MatchesWholeWord(subject, pos, Len(queryText)))
       THEN Match(i, pos, Len(queryText)) ELSE <<>>

Turn(i, query, options) ==
    LET entry == GetEntry(Pool, i)
    IN CASE IsDeleted(Pool, i) -> <<>>
         [] ~IsDeleted(Pool, i) /\ options.useRegex -> RegexTurn(i, entry, query, options)
         [] OTHER -> IF ContainsSeparator(query) THEN TokenTurn(i, entry, query, options)
                     ELSE SubstringTurn(i, entry, query, options)

-----------------------------------------------------------------------------
NoSearch == [running |-> FALSE, query |-> <<>>, next |-> 0, cancelled |-> FALSE, results |-> <<>>]

Init ==
    /\ InitPool
    /\ kTier \in Tiers
    /\ search = NoSearch

\* The pool changes between searches only.
ChangePool ==
    /\ search = NoSearch
    /\ \/ \E path \in Paths \cup Fillers : AddEntry(path)
       \/ \E path \in Paths \cup Fillers : MarkDeleted(path)
       \/ SaveAndLoad
    /\ UNCHANGED <<kTier, search>>

\* A pattern RE2 refuses ends the search before it looks at an entry.
StartSearch(query, options) ==
    /\ search = NoSearch
    /\ search' = [running |-> ~(options.useRegex /\ ~RegexOk(query)), query |-> query,
                  options |-> options, next |-> 1, cancelled |-> FALSE, results |-> <<>>]
    /\ UNCHANGED <<pool, added, kTier>>

Cancel ==
    /\ search.running /\ ~search.cancelled
    /\ search' = [search EXCEPT !.cancelled = TRUE]
    /\ UNCHANGED <<pool, added, kTier>>

SearchEntry ==
    /\ search.running /\ ~search.cancelled /\ search.next <= Len(meta)
    /\ LET found == search.results \o Turn(search.next, search.query, search.options)
       IN search' = [search EXCEPT !.results = found,
                                   !.next = @ + 1,
                                   !.running = Len(found) < kMaxSearchResults]
    /\ UNCHANGED <<pool, added, kTier>>

LeaveLoop ==
    /\ search.running
    /\ search.cancelled \/ search.next > Len(meta)
    /\ search' = [search EXCEPT !.running = FALSE]
    /\ UNCHANGED <<pool, added, kTier>>

Return ==
    /\ search # NoSearch /\ ~search.running
    /\ search' = NoSearch
    /\ UNCHANGED <<pool, added, kTier>>

Next ==
    \/ ChangePool
    \/ \E query \in SearchTexts, options \in OptionSets : StartSearch(query, options)
    \/ Cancel
    \/ SearchEntry
    \/ LeaveLoop
    \/ Return

Spec == Init /\ [][Next]_vars

-----------------------------------------------------------------------------
(* What a search should find, from what was indexed and what was asked.    *)

\* The text as the options want it compared.
Compared(text, options) ==
    LET Fold(t) == IF options.caseSensitive THEN t ELSE CaseFoldAscii(t)
    IN IF options.ignoreDiacritics /\ ~options.useRegex
       THEN FoldDiacritics(text, options.caseSensitive) ELSE Fold(text)

\* The text of an entry that is searched: its path, or what follows the last slash.
Searched(path, options) ==
    IF options.matchPath THEN path
    ELSE CHOOSE name \in Suffixes(path) :
           /\ <<"/">> \o name \in Suffixes(path)
           /\ \A i \in DOMAIN name : name[i] # "/"

Occurrences(piece, text) ==
    {p \in 0..(Len(text) - Len(piece)) : SubSeq(text, p + 1, p + Len(piece)) = piece}

Words(text) ==
    {Sub(text, s[1], s[2]) : s \in {s \in (0..Len(text)) \X (0..Len(text)) :
                                      s[1] + s[2] <= Len(text) /\ IsWord(text, s[1], s[2])}}

\* Is the entry a match? Every word of the query occurs in it, in any order;
\* without separators, the query does, and first between separators if whole
\* words are asked for.
IsMatch(path, query, options) ==
    LET raw     == Searched(path, options)
        text    == Compared(raw, options)
        asked   == Compared(query, options)
        between == {p \in Occurrences(asked, text) :
                      AtBoundary(raw, p) /\ AtBoundary(raw, p + Len(asked))}
        first   == CHOOSE p \in Occurrences(asked, text) :
                     \A q \in Occurrences(asked, text) : p <= q
    IN IF options.useRegex
       THEN RegexOk(query) /\ (IF options.wholeWord THEN between ELSE Occurrences(asked, text)) # {}
       ELSE IF ContainsSeparator(query)
       THEN \A word \in Words(asked) : Occurrences(word, text) # {}
       ELSE /\ Occurrences(asked, text) # {}
            /\ options.wholeWord => /\ first = 0 \/ text[first] \in Separators
                                    /\ \/ first + Len(asked) = Len(text)
                                       \/ text[first + Len(asked) + 1] \in Separators

\* When Search returns, the results are the matches among the live entries, in
\* the order of the index and none twice: all of them, or the first
\* kMaxSearchResults, or, if it was cancelled, those of the entries it got to.
\* It does not matter whether the words of a name came from the cached spans
\* or from the text, nor whether the pool was built or loaded
\* (SearchEngine::Search).
ResultsAreTheMatches ==
    search # NoSearch =>
        LET found   == {r.entryIndex : r \in ToSet(search.results)}
            matches == {i \in 1..(search.next - 1) :
                          ~added[i].deleted /\ IsMatch(added[i].path, search.query, search.options)}
        IN /\ found = matches
           /\ \A k, l \in DOMAIN search.results :
                k < l => search.results[k].entryIndex < search.results[l].entryIndex
           /\ Len(search.results) <= kMaxSearchResults
           /\ (~search.running /\ ~search.cancelled /\ Len(search.results) < kMaxSearchResults
                /\ (search.options.useRegex => RegexOk(search.query)))
                => search.next > Len(added)

\* A text that loses marks is compared, and its places are counted, without them.
LosesMarks(text, options) ==
    options.ignoreDiacritics /\ ~options.useRegex /\ FoldDiacritics(text, TRUE) # text

\* The span of a result is, in the text that was searched, the first place where
\* the query, or its first word, occurs as the options have it compared; that
\* of a regular expression is such a place (FindSubstring, SearchEngine::Search).
\* Where ignoring diacritics takes marks from the text, the code counts in what
\* is left of it, and ISearchEngine.h, which says that a SearchResult is in
\* bytes of the searched text, does not hold.
HighlightIsFirst ==
    search # NoSearch =>
        \A r \in ToSet(search.results) :
            LET raw     == Searched(added[r.entryIndex].path, search.options)
                text    == IF LosesMarks(raw, search.options) THEN FoldDiacritics(raw, TRUE) ELSE raw
                Fold(t) == IF search.options.caseSensitive THEN t ELSE CaseFoldAscii(t)
                span    == Fold(Sub(text, r.matchStart, r.matchLen))
                asked   == Compared(search.query, search.options)
                before  == {p \in Occurrences(span, Fold(text)) : p < r.matchStart}
            IN /\ r.matchStart + r.matchLen <= Len(text)
               /\ IF ContainsSeparator(search.query) /\ ~search.options.useRegex
                  THEN span \in Words(asked) \cup {<<>>} /\ (span = <<>> => Words(asked) = {})
                  ELSE span = asked
               /\ search.options.useRegex \/ before = {}
=============================================================================
