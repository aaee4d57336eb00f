----------------------------- MODULE StatusFile -----------------------------
(***************************************************************************)
(* The text of indexed.status, by which the helper tells the window what   *)
(* it is doing. A text is its lines and whether more follows the last      *)
(* newline; a line is a key and a value, whose escaping and digits are     *)
(* left out. Message, age and skipped paths hold nothing of interest.      *)
(***************************************************************************)
EXTENDS Integers, Sequences

States == {"Idle", "Scanning", "LoadingIndex", "WatchingForChanges", "Error"}

Line(key, value) == [key |-> key, value |-> value]

SerializeStatus(s) ==
    [lines |-> << Line("State", s.state), Line("Message", ""),
                  Line("FilesIndexed", s.filesIndexed), Line("IndexAgeSeconds", 0),
                  Line("LocationsCount", Len(s.locations)) >>
               \o [i \in DOMAIN s.locations |-> Line("Location", s.locations[i])]
               \o << Line("SkippedCount", 0) >>,
     cut   |-> FALSE]

\* Mutant of ParseStatus: the lines that are there are good enough.
ParseStatusLenient(text) ==
    IF Len(text.lines) < 5 THEN {}
    ELSE {[state |-> text.lines[1].value, filesIndexed |-> text.lines[3].value,
           locations |-> LET places == SelectSeq(text.lines, LAMBDA l : l.key = "Location")
                         IN [i \in DOMAIN places |-> places[i].value]]}

\* One status, or none when anything is missing or out of its place.
ParseStatus(text) ==
    LET Has(i, key) == i <= Len(text.lines) /\ text.lines[i].key = key
        Count(i)    == text.lines[i].value
        whole == /\ ~text.cut
                 /\ Has(1, "State") /\ text.lines[1].value \in States
                 /\ Has(2, "Message") /\ Has(3, "FilesIndexed") /\ Has(4, "IndexAgeSeconds")
                 /\ Has(5, "LocationsCount")
                 /\ \A i \in 1..Count(5) : Has(5 + i, "Location")
                 /\ Has(6 + Count(5), "SkippedCount")
                 /\ \A i \in 1..Count(6 + Count(5)) : Has(6 + Count(5) + i, "Skipped")
    IN IF ~whole THEN {}
       ELSE {[state |-> text.lines[1].value, filesIndexed |-> text.lines[3].value,
              locations |-> [i \in 1..Count(5) |-> text.lines[5 + i].value]]}
=============================================================================
