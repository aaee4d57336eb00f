----------------------------- MODULE EntryPool -----------------------------
(***************************************************************************)
(* IndexPool, the flat layout of the index in memory, and what of it       *)
(* IndexSerializer writes and reads back.                                  *)
(*                                                                         *)
(* Texts are sequences of characters from a small alphabet; offsets count  *)
(* from 0, as in the code. Sizes, times and attributes are left out, and   *)
(* so are the widths of the offsets: a path the scanner can open is        *)
(* shorter than 2^16. The file holds what Serialize wrote, whole: how it   *)
(* is replaced, and what a crash leaves of it, is in IndexFile.            *)
(***************************************************************************)
EXTENDS Integers, Sequences, SequencesExt

CONSTANTS
    Paths,       \* bound: the paths that may be indexed first
    Fillers,     \* bound: the paths that may be indexed after others
    Separators,  \* characters that separate words: ' ', '_', '-', '.'
    LowerOf,     \* the lower case of each upper case ASCII letter
    MaxEntries   \* bound: entries of the pool

ASSUME PathsAssumption == \A p \in Paths \cup Fillers : p # <<>> /\ p[1] = "/"
ASSUME EntriesAssumption == MaxEntries \in Nat
\* Folding never touches a separator, nor makes one.
ASSUME LowerAssumption ==
    \A c \in DOMAIN LowerOf : {c, LowerOf[c]} \cap (Separators \cup {"/"}) = {}

VARIABLES
    meta, pathPool, nameLowerPool, nameTokenSpans, nameTokenStart, nameTokenCount,
    added        \* read by the properties only: what was indexed, in order

pool == <<meta, pathPool, nameLowerPool, nameTokenSpans, nameTokenStart, nameTokenCount>>

\* string_view::substr(offset, length).
Sub(text, offset, length) == SubSeq(text, offset + 1, offset + length)

CaseFoldAscii(text) ==
    [i \in DOMAIN text |-> IF text[i] \in DOMAIN LowerOf THEN LowerOf[text[i]] ELSE text[i]]

-----------------------------------------------------------------------------
(* Words.                                                                  *)

\* The pieces between separators, none empty. start is tokenStart, or -1
\* outside a word (inToken is false).
TokenizeToSpans(text) ==
    LET Step(s, i) ==
            IF text[i] \in Separators
            THEN [spans |-> IF s.start = -1 THEN s.spans
                            ELSE Append(s.spans, [offset |-> s.start,
                                                  length |-> i - 1 - s.start]),
                  start |-> -1]
            ELSE [s EXCEPT !.start = IF @ = -1 THEN i - 1 ELSE @]
        end == FoldLeftDomain(Step, [spans |-> <<>>, start |-> -1], text)
    IN IF end.start = -1 THEN end.spans
       ELSE Append(end.spans, [offset |-> end.start, length |-> Len(text) - end.start])

ApplyTokenSpans(text, spans) ==
    [i \in DOMAIN spans |-> Sub(text, spans[i].offset, spans[i].length)]

-----------------------------------------------------------------------------
(* The pool as a value: what AddEntry, LoadFromPathPool and Serialize      *)
(* work on.                                                                *)

Pool == [meta |-> meta, pathPool |-> pathPool, nameLowerPool |-> nameLowerPool,
         nameTokenSpans |-> nameTokenSpans, nameTokenStart |-> nameTokenStart,
         nameTokenCount |-> nameTokenCount]

Become(p) ==
    /\ meta' = p.meta
    /\ pathPool' = p.pathPool
    /\ nameLowerPool' = p.nameLowerPool
    /\ nameTokenSpans' = p.nameTokenSpans
    /\ nameTokenStart' = p.nameTokenStart
    /\ nameTokenCount' = p.nameTokenCount

EmptyPool == [meta |-> <<>>, pathPool |-> <<>>, nameLowerPool |-> <<>>,
              nameTokenSpans |-> <<>>, nameTokenStart |-> <<>>, nameTokenCount |-> <<>>]

\* The offset of the file name in a path.
NameStart(path) == CHOOSE i \in 1..Len(path) :
    path[i] = "/" /\ \A j \in (i + 1)..Len(path) : path[j] # "/"

\* What both AddEntry and LoadFromPathPool do for an entry: fold its name,
\* tokenize it, and append both to the shared pools.
WithName(p, m, name) ==
    LET nameLower == CaseFoldAscii(name)
        spans     == TokenizeToSpans(nameLower)
    IN [p EXCEPT !.meta = Append(@, [m EXCEPT !.nameLowerOffset = Len(p.nameLowerPool),
                                              !.nameLowerLen = Len(nameLower)]),
                 !.nameLowerPool = @ \o nameLower,
                 !.nameTokenStart = Append(@, Len(p.nameTokenSpans)),
                 !.nameTokenCount = Append(@, Len(spans)),
                 !.nameTokenSpans = @ \o spans]

AddedTo(p, path) ==
    LET start == NameStart(path)
        m     == [pathOffset |-> Len(p.pathPool), pathLen |-> Len(path), nameStart |-> start,
                  nameLowerOffset |-> 0, nameLowerLen |-> 0, deleted |-> FALSE]
    IN WithName([p EXCEPT !.pathPool = @ \o path], m, Sub(path, start, Len(path) - start))

GetEntry(p, i) ==
    LET m    == p.meta[i]
        path == Sub(p.pathPool, m.pathOffset, m.pathLen)
    IN [path |-> path,
        name |-> Sub(path, m.nameStart, m.pathLen - m.nameStart),
        nameLower |-> Sub(p.nameLowerPool, m.nameLowerOffset, m.nameLowerLen),
        nameTokenSpans |-> Sub(p.nameTokenSpans, p.nameTokenStart[i], p.nameTokenCount[i])]

IsDeleted(p, i) == p.meta[i].deleted

\* The first live entry of a path, 0 if there is none.
FindByPath(p, path) ==
    SelectInSeq([i \in DOMAIN p.meta |-> [live |-> ~IsDeleted(p, i), path |-> GetEntry(p, i).path]],
                LAMBDA e : e.live /\ e.path = path)

-----------------------------------------------------------------------------
(* The index file.                                                         *)

Live(m) == ~m.deleted

\* Mutant of Serialize: records keep the offsets they have in the pool.
SerializeInPlace(p) ==
    LET live == SelectSeq(p.meta, Live)
    IN [entryCount |-> Len(live),
        pathPool   |-> FlattenSeq([i \in DOMAIN live |->
                                   Sub(p.pathPool, live[i].pathOffset, live[i].pathLen)]),
        records    |-> [i \in DOMAIN live |-> [pathOffset |-> live[i].pathOffset,
                                               pathLen |-> live[i].pathLen,
                                               nameStart |-> live[i].nameStart]]]

\* Entries marked deleted are dropped, and their paths compacted away.
Serialize(p) ==
    LET live == SelectSeq(p.meta, Live)
        Offset(i) == FoldLeft(LAMBDA n, m : n + m.pathLen, 0, SubSeq(live, 1, i - 1))
    IN [entryCount |-> Len(live),
        pathPool   |-> FlattenSeq([i \in DOMAIN live |->
                                   Sub(p.pathPool, live[i].pathOffset, live[i].pathLen)]),
        records    |-> [i \in DOMAIN live |-> [pathOffset |-> Offset(i),
                                               pathLen |-> live[i].pathLen,
                                               nameStart |-> live[i].nameStart]]]

\* What Load checks of a file beyond its checksum.
Loads(file) ==
    /\ Len(file.records) = file.entryCount
    /\ \A i \in DOMAIN file.records :
         LET r == file.records[i]
         IN /\ r.pathOffset + r.pathLen <= Len(file.pathPool)
            /\ r.nameStart <= r.pathLen

LoadFromPathPool(file) ==
    LET Step(p, r) ==
            WithName(p,
                     [pathOffset |-> r.pathOffset, pathLen |-> r.pathLen, nameStart |-> r.nameStart,
                      nameLowerOffset |-> 0, nameLowerLen |-> 0, deleted |-> FALSE],
                     Sub(file.pathPool, r.pathOffset + r.nameStart, r.pathLen - r.nameStart))
    IN FoldLeft(Step, [EmptyPool EXCEPT !.pathPool = file.pathPool], file.records)

-----------------------------------------------------------------------------
InitPool == meta = <<>> /\ pathPool = <<>> /\ nameLowerPool = <<>> /\ nameTokenSpans = <<>>
            /\ nameTokenStart = <<>> /\ nameTokenCount = <<>> /\ added = <<>>

AddEntry(path) ==
    /\ Len(meta) < MaxEntries
    /\ path \in (IF meta = <<>> THEN Paths ELSE Fillers)
    /\ Become(AddedTo(Pool, path))
    /\ added' = Append(added, [path |-> path, deleted |-> FALSE])

\* IndexStore::ApplyRemove.
MarkDeleted(path) ==
    LET i == FindByPath(Pool, path)
    IN /\ i # 0
       /\ meta' = [meta EXCEPT ![i].deleted = TRUE]
       /\ added' = [added EXCEPT ![i].deleted = TRUE]
       /\ UNCHANGED <<pathPool, nameLowerPool, nameTokenSpans, nameTokenStart, nameTokenCount>>

\* The index is saved, and loaded by another process or after a restart. A
\* file that does not load leaves an empty index.
SaveAndLoad ==
    LET file == Serialize(Pool)
    IN /\ Become(IF Loads(file) THEN LoadFromPathPool(file) ELSE EmptyPool)
       /\ added' = SelectSeq(added, Live)

-----------------------------------------------------------------------------
\* A piece of a text with no separator in it and none to add at its ends.
IsWord(text, offset, length) ==
    /\ length > 0
    /\ \A i \in (offset + 1)..(offset + length) : text[i] \notin Separators
    /\ offset = 0 \/ text[offset] \in Separators
    /\ offset + length = Len(text) \/ text[offset + length + 1] \in Separators

\* Whatever was added, removed, saved and loaded, each entry of the pool is
\* the one that was indexed: GetEntry's offsets into the shared pools give
\* its path, its name, the folded name and exactly the words of the name
\* (AddEntry, MarkDeleted, Serialize, LoadFromPathPool).
EntriesAreWhatWasAdded ==
    /\ Len(meta) = Len(added)
    /\ \A i \in DOMAIN meta :
         LET e     == GetEntry(Pool, i)
             spans == {e.nameTokenSpans[k] : k \in DOMAIN e.nameTokenSpans}
             n     == Len(e.name)
         IN /\ e.path = added[i].path
            /\ IsDeleted(Pool, i) = added[i].deleted
            /\ <<"/">> \o e.name = Sub(e.path, Len(e.path) - n - 1, n + 1)
            /\ \A k \in DOMAIN e.name : e.name[k] # "/"
            /\ e.nameLower = CaseFoldAscii(e.name)
            /\ spans = {s \in [offset : 0..n, length : 0..n] :
                          s.offset + s.length <= n /\ IsWord(e.name, s.offset, s.length)}
            /\ \A k, l \in DOMAIN e.nameTokenSpans :
                 k < l => e.nameTokenSpans[k].offset < e.nameTokenSpans[l].offset
=============================================================================
