---------------------------- MODULE SessionProofs ----------------------------
(***************************************************************************)
(* Session for every bound and every history of settings: no request is    *)
(* lost between the window, pkexec and the helper, the window ends up with *)
(* an index of its settings, and shows only statuses that were reported.   *)
(***************************************************************************)
EXTENDS Session, TLAPS, SequenceTheorems

-----------------------------------------------------------------------------
(* The invariant.                                                          *)

Versions == 1..LastVersion \cup {Torn}
Flags    == {"reload", "reindex", "stop"}
Indexes  == SUBSET AllRoots
Jobs     == {NoJob} \cup [kind : {"index", "settings"}, force : BOOLEAN,
                         old : 0..LastVersion, ver : 0..LastVersion]
Written  == OldStatus \cup {SerializeStatus(s) : s \in Statuses}

FlagType ==
    /\ open \in BOOLEAN /\ elevated \in BOOLEAN /\ missed \in BOOLEAN /\ saving \in BOOLEAN
    /\ reload \in BOOLEAN /\ changed \in BOOLEAN /\ dirChanged \in BOOLEAN
    /\ maySignal \in BOOLEAN /\ dropped \in BOOLEAN /\ needsFullRebuild \in BOOLEAN

ChildType ==
    /\ proc \in {"none", "starting", "running", "closing"}
    /\ child \in Alive \cup {"none", "failed", "dead"}
    /\ g_flags \subseteq Flags
    /\ owed \in {"no", "asked", "begun"}

VersionType ==
    /\ mem \in 1..LastVersion /\ old \in 0..LastVersion
    /\ file \in Versions /\ hset \in Versions
    /\ job \in Jobs
    /\ view \in Indexes /\ hidx \in Indexes /\ idx \in Indexes \cup {None}

TypeOK == FlagType /\ ChildType /\ VersionType

\* The window is only told of an index file that is there.
IndexInv == changed \/ reload => idx # None

\* The file and the helper are behind the window, and the helper read the file.
VersionInv == /\ file <= mem /\ hset <= mem
              /\ hset = mem => file = mem
              /\ saving => file = Torn

\* The process, as the window knows it. A signal that could be delivered has
\* ended a process without handlers.
ProcessInv == open =>
    /\ elevated <=> proc = "running"
    /\ proc = "none" => child = "none"
    /\ proc = "starting" => child \in Alive \cup {"dead", "failed"}
    /\ proc = "running" => child \in Alive \cup {"dead"}
    /\ proc # "closing"
    /\ "stop" \notin g_flags
    /\ proc \in {"starting", "running"} => g_flags = {} \/ missed
    /\ elevated => job = NoJob
    /\ ~elevated => ~missed
    /\ missed /\ maySignal => child \in Indexing \cup {"dead"}

\* Where a request is that was signalled and has not been carried out.
OwedInv == open /\ owed # "no" =>
    \/ /\ ~elevated
       /\ \/ job.kind = "index" /\ job.force
          \/ job.kind = "settings" /\ needsFullRebuild
    \/ /\ elevated /\ missed
       /\ \/ child = "dead"
          \/ ~maySignal
          \/ owed = "asked" /\ child \in Indexing /\ g_flags # {}
          \/ owed = "begun" /\ child \in {"reload", "scan", "save"}

\* The window indexes by itself: its index is that of its settings, or a
\* command will make it so. One that only diffs them starts from those it
\* diffs with.
LocalInv == open /\ ~elevated /\ ~dropped /\ (proc = "none" \/ child = "failed") =>
    /\ job # NoJob => job.ver = Held
    /\ job = NoJob => view = Roots(Held)
    /\ job.kind = "settings" /\ ~needsFullRebuild =>
           view = Roots(job.old) /\ idx \in {None, Roots(job.old)}
    /\ idx \in {None, Roots(Held)} \/ job.force \/ job.kind = "settings"

\* The helper indexes: it has the window's settings or will load them, and
\* what it has indexed, saved and told the window is of them or will be.
Busy == {"reload", "scan", "save", "dead"}

HelperInv == open /\ elevated /\ ~saving /\ ~dropped /\ ~KeptForLater =>
    /\ file = mem
    /\ child \in Indexing \cup {"handlers"} =>
           hset = mem \/ "reload" \in g_flags \/ child = "reload"
    /\ child \in {"monitor", "loop"} => hidx = Roots(mem) \/ "reload" \in g_flags
    /\ \/ idx \in {None, Roots(mem)}
       \/ missed /\ ("reload" \in g_flags \/ child \in Busy)
    /\ view = Roots(mem) \/ changed \/ reload \/ "reload" \in g_flags \/ child \in Busy

StatusInv == status \in Written /\ ShownWasReported

IInv == TypeOK /\ IndexInv /\ VersionInv /\ ProcessInv /\ OwedInv /\ LocalInv /\ HelperInv
        /\ StatusInv

-----------------------------------------------------------------------------
(* The text of a status.                                                   *)

LEMMA FiveLines ==
    ASSUME NEW L, NEW a \in L, NEW b \in L, NEW c \in L, NEW d \in L, NEW e \in L
    PROVE  LET five == <<a, b, c, d, e>>
           IN  /\ five \in Seq(L) /\ Len(five) = 5
               /\ five[1] = a /\ five[2] = b /\ five[3] = c /\ five[4] = d /\ five[5] = e
  OBVIOUS

LEMMA OneLine ==
    ASSUME NEW L, NEW a \in L
    PROVE  <<a>> \in Seq(L) /\ Len(<<a>>) = 1 /\ <<a>>[1] = a
  OBVIOUS

Joined(a, b, c) == a \o b \o c

\* Five lines, any number of lines, and one line.
IsJoined(t, a, b, c) ==
    /\ Len(t) = 6 + Len(b)
    /\ t[1] = a[1] /\ t[2] = a[2] /\ t[3] = a[3] /\ t[4] = a[4] /\ t[5] = a[5]
    /\ \A i \in 1..Len(b) : t[5 + i] = b[i]
    /\ t[6 + Len(b)] = c[1]

LEMMA ThreeParts ==
    ASSUME NEW L, NEW a \in Seq(L), NEW b \in Seq(L), NEW c \in Seq(L), Len(a) = 5, Len(c) = 1
    PROVE  IsJoined(Joined(a, b, c), a, b, c)
<1> DEFINE k  == Len(b)
           ab == a \o b
           t  == ab \o c
<1>1. k \in Nat
  BY LenProperties
<1>2. /\ ab \in Seq(L) /\ Len(ab) = 5 + k
      /\ \A i \in 1..(5 + k) : ab[i] = IF i <= 5 THEN a[i] ELSE b[i - 5]
  <2>1. /\ ab \in Seq(L) /\ Len(ab) = Len(a) + k
        /\ \A i \in 1..(Len(a) + k) : ab[i] = IF i <= Len(a) THEN a[i] ELSE b[i - Len(a)]
    BY ConcatProperties
  <2> HIDE DEF ab, k
  <2> QED
    BY <2>1
<1> HIDE DEF ab
<1>3. /\ Len(t) = 6 + k
      /\ \A i \in 1..(6 + k) : t[i] = IF i <= 5 + k THEN ab[i] ELSE c[i - (5 + k)]
  <2>1. /\ Len(t) = Len(ab) + Len(c)
        /\ \A i \in 1..(Len(ab) + Len(c)) : t[i] = IF i <= Len(ab) THEN ab[i] ELSE c[i - Len(ab)]
    BY <1>2, ConcatProperties
  <2> HIDE DEF t, k
  <2>2. Len(ab) + Len(c) = 6 + k /\ Len(ab) = 5 + k
    BY <1>1, <1>2
  <2> QED
    BY <2>1, <2>2
<1> HIDE DEF t, k
<1>4. \A i \in 1..5 : t[i] = a[i]
  BY <1>1, <1>2, <1>3
<1>5. \A i \in 1..k : t[5 + i] = b[i]
  BY <1>1, <1>2, <1>3
<1>6. t[6 + k] = c[1]
  BY <1>1, <1>2, <1>3
<1>7. t[1] = a[1] /\ t[2] = a[2] /\ t[3] = a[3] /\ t[4] = a[4] /\ t[5] = a[5]
  BY <1>4
<1>8. Joined(a, b, c) = t
  BY DEF t, ab, Joined
<1> QED
  BY <1>3, <1>5, <1>6, <1>7, <1>8 DEF IsJoined, k

LEMMA LineKey == ASSUME NEW key, NEW value PROVE Line(key, value).key = key
  BY DEF Line

\* What stands where in the text of a status.
IsTextOf(text, s) ==
    LET k == Len(s.locations)
    IN  /\ k \in Nat /\ Len(text.lines) = 6 + k
        /\ text.lines[1] = Line("State", s.state) /\ text.lines[2] = Line("Message", "")
        /\ text.lines[3] = Line("FilesIndexed", s.filesIndexed)
        /\ text.lines[4] = Line("IndexAgeSeconds", 0)
        /\ text.lines[5] = Line("LocationsCount", k)
        /\ \A i \in 1..k : text.lines[5 + i] = Line("Location", s.locations[i])
        /\ text.lines[6 + k] = Line("SkippedCount", 0)
        /\ ~text.cut

LEMMA Layout ==
    ASSUME NEW X, NEW s, s.locations \in Seq(X)
    PROVE  IsTextOf(SerializeStatus(s), s)
<1> DEFINE k == Len(s.locations)
           L == {Line("State", s.state), Line("Message", ""), Line("FilesIndexed", s.filesIndexed),
                 Line("IndexAgeSeconds", 0), Line("LocationsCount", k), Line("SkippedCount", 0)}
                \cup {Line("Location", s.locations[i]) : i \in 1..k}
           five   == <<Line("State", s.state), Line("Message", ""),
                       Line("FilesIndexed", s.filesIndexed), Line("IndexAgeSeconds", 0),
                       Line("LocationsCount", k)>>
           places == [i \in DOMAIN s.locations |-> Line("Location", s.locations[i])]
           last   == <<Line("SkippedCount", 0)>>
<1>1. k \in Nat /\ DOMAIN s.locations = 1..k
  BY LenProperties
<1>2. /\ five \in Seq(L) /\ Len(five) = 5
      /\ five[1] = Line("State", s.state) /\ five[2] = Line("Message", "")
      /\ five[3] = Line("FilesIndexed", s.filesIndexed)
      /\ five[4] = Line("IndexAgeSeconds", 0)
      /\ five[5] = Line("LocationsCount", k)
  BY FiveLines
<1>3. /\ places \in Seq(L) /\ Len(places) = k
      /\ \A i \in 1..k : places[i] = Line("Location", s.locations[i])
  <2>1. \A i \in 1..k : Line("Location", s.locations[i]) \in L
    OBVIOUS
  <2> HIDE DEF L, k
  <2>2. places \in Seq(L)
    BY <1>1, <2>1, IsASeq
  <2> QED
    BY <1>1, <2>2, LenProperties
<1>4. last \in Seq(L) /\ Len(last) = 1 /\ last[1] = Line("SkippedCount", 0)
  BY OneLine
<1>5. SerializeStatus(s).lines = Joined(five, places, last) /\ ~SerializeStatus(s).cut
  BY DEF SerializeStatus, Joined
<1> HIDE DEF L, k, five, places, last
<1>6. IsJoined(Joined(five, places, last), five, places, last)
  BY <1>2, <1>3, <1>4, ThreeParts
<1>7. /\ Len(SerializeStatus(s).lines) = 6 + k
      /\ SerializeStatus(s).lines[1] = five[1] /\ SerializeStatus(s).lines[2] = five[2]
      /\ SerializeStatus(s).lines[3] = five[3] /\ SerializeStatus(s).lines[4] = five[4]
      /\ SerializeStatus(s).lines[5] = five[5]
      /\ \A i \in 1..k : SerializeStatus(s).lines[5 + i] = places[i]
      /\ SerializeStatus(s).lines[6 + k] = last[1]
  BY <1>3, <1>5, <1>6 DEF IsJoined
<1> QED
  BY <1>1, <1>2, <1>3, <1>4, <1>5, <1>7 DEF IsTextOf, k

LEMMA StatusType ==
    ASSUME NEW s \in Statuses
    PROVE  /\ s.state \in States /\ \E X : s.locations \in Seq(X)
           /\ s = [state |-> s.state, filesIndexed |-> s.filesIndexed, locations |-> s.locations]
<1> PICK v \in DOMAIN RootsOf : s.locations = RootsOf[v]
  BY DEF Statuses
<1>1. RootsOf[v] \in Seq(Roots(v))
  BY RootsAssumption
<1> QED
  BY <1>1 DEF Statuses, States

\* The window reads what the helper has written.
LEMMA WholeIsRead ==
    ASSUME NEW s \in Statuses
    PROVE  ParseStatus(SerializeStatus(s)) = {s}
<1> PICK X : s.locations \in Seq(X)
  BY StatusType
<1> DEFINE text == SerializeStatus(s)
           k    == Len(s.locations)
<1>1. IsTextOf(text, s)
  BY Layout
<1>2. s.locations = [i \in 1..k |-> s.locations[i]]
  BY LenProperties
<1> HIDE DEF text
<1>3. k \in Nat /\ Len(text.lines) = 6 + k /\ ~text.cut
  BY <1>1 DEF IsTextOf
<1>4. /\ text.lines[1] = Line("State", s.state) /\ text.lines[2] = Line("Message", "")
      /\ text.lines[3] = Line("FilesIndexed", s.filesIndexed)
      /\ text.lines[4] = Line("IndexAgeSeconds", 0)
      /\ text.lines[5] = Line("LocationsCount", k)
      /\ text.lines[6 + k] = Line("SkippedCount", 0)
  BY <1>1 DEF IsTextOf
<1>5. \A i \in 1..k : text.lines[5 + i] = Line("Location", s.locations[i])
  BY <1>1 DEF IsTextOf
<1> HIDE DEF k
<1>6. \A i \in 1..k : /\ text.lines[5 + i].key = "Location"
                      /\ text.lines[5 + i].value = s.locations[i]
  <2>1. ASSUME NEW i \in 1..k
        PROVE  text.lines[5 + i].key = "Location" /\ text.lines[5 + i].value = s.locations[i]
    <3>1. text.lines[5 + i] = Line("Location", s.locations[i])
      BY <1>5
    <3> QED
      BY <3>1 DEF Line
  <2> QED
    BY <2>1
<1>7. /\ text.lines[1].value = s.state /\ text.lines[3].value = s.filesIndexed
      /\ text.lines[5].value = k /\ text.lines[6 + k].value = 0
      /\ text.lines[1].key = "State" /\ text.lines[2].key = "Message"
      /\ text.lines[3].key = "FilesIndexed" /\ text.lines[4].key = "IndexAgeSeconds"
      /\ text.lines[5].key = "LocationsCount" /\ text.lines[6 + k].key = "SkippedCount"
  <2>1. text.lines[1].key = "State" /\ text.lines[1].value = s.state
    <3>1. text.lines[1] = Line("State", s.state)
      BY <1>4
    <3> QED
      BY <3>1 DEF Line
  <2>2. text.lines[2].key = "Message"
    <3>1. text.lines[2] = Line("Message", "")
      BY <1>4
    <3> QED
      BY <3>1, LineKey
  <2>3. text.lines[3].key = "FilesIndexed" /\ text.lines[3].value = s.filesIndexed
    <3>1. text.lines[3] = Line("FilesIndexed", s.filesIndexed)
      BY <1>4
    <3> QED
      BY <3>1 DEF Line
  <2>4. text.lines[4].key = "IndexAgeSeconds" /\ text.lines[4].value = 0
    <3>1. text.lines[4] = Line("IndexAgeSeconds", 0)
      BY <1>4
    <3> QED
      BY <3>1 DEF Line
  <2>5. text.lines[5].key = "LocationsCount" /\ text.lines[5].value = k
    <3>1. text.lines[5] = Line("LocationsCount", k)
      BY <1>4
    <3> QED
      BY <3>1 DEF Line
  <2>6. text.lines[6 + k].key = "SkippedCount" /\ text.lines[6 + k].value = 0
    <3>1. text.lines[6 + k] = Line("SkippedCount", 0)
      BY <1>4
    <3> QED
      BY <3>1 DEF Line
  <2> QED
    BY <2>1, <2>2, <2>3, <2>4, <2>5, <2>6
<1>8. /\ \A i \in 1..k : 5 + i <= Len(text.lines)
      /\ 1 <= Len(text.lines) /\ 2 <= Len(text.lines) /\ 3 <= Len(text.lines)
      /\ 4 <= Len(text.lines) /\ 5 <= Len(text.lines) /\ 6 + k <= Len(text.lines)
  BY <1>3
<1>9. 1..0 = {}
  OBVIOUS
<1>10. ParseStatus(text) = {[state |-> s.state, filesIndexed |-> s.filesIndexed,
                             locations |-> [i \in 1..k |-> text.lines[5 + i].value]]}
  BY <1>3, <1>6, <1>7, <1>8, <1>9, StatusType DEF ParseStatus
<1>11. [i \in 1..k |-> text.lines[5 + i].value] = s.locations
  BY <1>2, <1>6
<1> QED
  BY <1>10, <1>11, StatusType DEF text

\* It reads nothing in what a power failure has left of a status.
LEMMA CutIsNotRead ==
    ASSUME NEW s \in Statuses, NEW n \in 0..(Len(SerializeStatus(s).lines) - 1),
           NEW text, text.lines = SubSeq(SerializeStatus(s).lines, 1, n)
    PROVE  ParseStatus(text) = {}
<1> PICK X : s.locations \in Seq(X)
  BY StatusType
<1> DEFINE lines == SerializeStatus(s).lines
           k     == Len(s.locations)
<1>1. /\ k \in Nat /\ Len(lines) = 6 + k /\ lines[5] = Line("LocationsCount", k)
  BY Layout DEF IsTextOf
<1> HIDE DEF lines, k
<1>2. n \in 0..(5 + k) /\ text.lines = SubSeq(lines, 1, n)
  BY <1>1 DEF lines
<1>3. Len(text.lines) = n /\ \A i \in 1..n : text.lines[i] = lines[i]
  <2>1. /\ Len(SubSeq(lines, 1, n)) = IF 1 <= n THEN n - 1 + 1 ELSE 0
        /\ \A i \in 1..(n - 1 + 1) : SubSeq(lines, 1, n)[i] = lines[1 + i - 1]
    BY <1>2, SubSeqProperties
  <2> QED
    BY <1>1, <1>2, <2>1
<1>4. CASE n < 5
  <2>1. ~(5 <= Len(text.lines))
    BY <1>1, <1>2, <1>3, <1>4
  <2> QED
    BY <2>1 DEF ParseStatus
<1>5. CASE 5 <= n
  <2>1. text.lines[5].value = k
    BY <1>1, <1>2, <1>3, <1>5 DEF Line
  <2>2. ~(6 + k <= Len(text.lines))
    BY <1>1, <1>2, <1>3
  <2> QED
    BY <2>1, <2>2 DEF ParseStatus
<1> QED
  BY <1>1, <1>2, <1>4, <1>5

\* The window shows a reported status or keeps what it shows.
LEMMA WhatIsRead == \A text \in Written : ParseStatus(text) \subseteq Statuses
<1> SUFFICES ASSUME NEW text \in Written PROVE ParseStatus(text) \subseteq Statuses
  OBVIOUS
<1>1. ASSUME NEW s \in Statuses, text = SerializeStatus(s)
      PROVE  ParseStatus(text) \subseteq Statuses
  BY <1>1, WholeIsRead
<1>2. ASSUME NEW s \in Statuses, NEW n \in 0..(Len(SerializeStatus(s).lines) - 1),
             text.lines = SubSeq(SerializeStatus(s).lines, 1, n)
      PROVE  ParseStatus(text) \subseteq Statuses
  BY <1>2, CutIsNotRead
<1> QED
  BY <1>1, <1>2, OldStatusAssumption DEF Written

-----------------------------------------------------------------------------
(* Types.                                                                  *)

USE DEF window, config, service, helper, notices, display, bounds, ghosts, notHelper

LEMMA VersionsHaveRoots == Versions \cup 0..LastVersion \subseteq DOMAIN RootsOf
  BY BoundsAssumption, RootsAssumption DEF Versions

LEMMA RootsInAll == \A v \in Versions \cup 0..LastVersion : Roots(v) \in Indexes
<1> SUFFICES ASSUME NEW v \in Versions \cup 0..LastVersion PROVE Roots(v) \in Indexes
  OBVIOUS
<1>1. v \in DOMAIN RootsOf
  BY VersionsHaveRoots
<1> HIDE DEF Roots
<1> QED
  BY <1>1 DEF Indexes, AllRoots

LEMMA MemIsVersion == VersionType => mem \in Versions
  BY DEF VersionType, Versions

LEMMA JobType ==
    FlagType /\ VersionType => {IndexJob(TRUE), IndexJob(missed), SettingsJob, NoJob} \subseteq Jobs
  BY BoundsAssumption DEF FlagType, VersionType, Jobs, IndexJob, SettingsJob, NoJob

\* A command is none, or one to do.
LEMMA JobKinds == VersionType => \/ job = NoJob
                                 \/ job # NoJob /\ job.kind \in {"index", "settings"}
  BY DEF VersionType, Jobs, NoJob

\* A window that has just been opened.
LEMMA Initially == Init => IInv
<1> SUFFICES ASSUME Init PROVE IInv
  OBVIOUS
<1> 1 \in 1..LastVersion /\ 0 \in 0..LastVersion /\ 1 \in 0..LastVersion
  BY BoundsAssumption
<1>1. FlagType /\ ChildType
  BY DEF Init, FlagType, ChildType, Flags
<1>2. VersionType
  <2>1. Roots(1) \in Indexes /\ {} \in Indexes
    BY RootsInAll DEF Indexes
  <2>2. job \in Jobs
    BY DEF Init, Jobs, IndexJob
  <2> QED
    BY <2>1, <2>2 DEF Init, VersionType, Versions
<1>3. IndexInv /\ VersionInv /\ ProcessInv
  <2>1. IndexInv
    BY DEF Init, IndexInv
  <2>2. VersionInv
    BY DEF Init, VersionInv
  <2>3. ProcessInv
    BY DEF Init, ProcessInv
  <2> QED
    BY <2>1, <2>2, <2>3
<1>4. OwedInv /\ HelperInv
  BY DEF Init, OwedInv, HelperInv
<1>5. LocalInv
  BY DEF Init, LocalInv, Held, IndexJob, NoJob
<1>6. StatusInv
  BY DEF Init, StatusInv, Written, ShownWasReported
<1> QED
  BY <1>1, <1>2, <1>3, <1>4, <1>5, <1>6 DEF IInv, TypeOK

\* The variables of both processes keep their types.
LEMMA FlagStep == FlagType /\ [Next]_vars => FlagType'
<1> SUFFICES ASSUME FlagType, [Next]_vars PROVE FlagType'
  OBVIOUS
<1>0. CASE UNCHANGED vars
  BY <1>0 DEF vars, FlagType
<1>1. CASE ChangeSettings \/ SaveFails \/ ElevateForFullAccess
  <2>1. ASSUME NEW new, SaveBegins(new) PROVE FlagType'
    BY <2>1 DEF SaveBegins, FlagType
  <2>2. ASSUME NEW new, SaveRefused(new) PROVE FlagType'
    BY <2>2 DEF SaveRefused, FlagType
  <2>3. SaveFails => FlagType'
    BY DEF SaveFails, FlagType
  <2>4. ElevateForFullAccess => FlagType'
    BY DEF ElevateForFullAccess, FlagType
  <2> QED
    BY <1>1, <2>1, <2>2, <2>3, <2>4 DEF ChangeSettings
<1>2. CASE RebuildIndex
  BY <1>2 DEF RebuildIndex, SendSignalToHelper, Post, FlagType
<1>3. CASE Close
  BY <1>3 DEF Close, Post, FlagType
<1>4. CASE Authorize \/ Decline
  BY <1>4 DEF Authorize, Decline, FlagType
<1>5. CASE Dies
  BY <1>5 DEF Dies, FlagType
<1>6. CASE TemporaryFile
  BY <1>6 DEF TemporaryFile, FlagType
<1>7. CASE SaveLiveChanges
  BY <1>7 DEF SaveLiveChanges, FlagType
<1>8. CASE ApplySettings
  BY <1>8 DEF ApplySettings, SendSignalToHelper, Post, FlagType
<1>9. CASE StartFails \/ DestroyProcess
  BY <1>9 DEF StartFails, DestroyProcess, FlagType
<1>10. CASE OnHelperStarted
  BY <1>10 DEF OnHelperStarted, Post, FlagType
<1>11. CASE OnHelperFinished
  BY <1>11 DEF OnHelperFinished, Post, FlagType
<1>12. CASE OnIndexFileChanged
  BY <1>12 DEF OnIndexFileChanged, FlagType
<1>13. CASE OnHelperDirectoryChanged
  BY <1>13 DEF OnHelperDirectoryChanged, FlagType
<1>14. CASE RunScan
  BY <1>14 DEF RunScan, Finish, FlagType
<1>15. CASE RunDiff
  BY <1>15 DEF RunDiff, Finish, FlagType
<1>16. CASE RunLoad \/ RunReload
  BY <1>16 DEF RunLoad, RunReload, Finish, FlagType
<1>17. CASE LoadSettings \/ InstallSignalHandlers
  BY <1>17 DEF LoadSettings, InstallSignalHandlers, FlagType
<1>18. CASE LoadIndex
  BY <1>18 DEF LoadIndex, WriteStatus, FlagType
<1>19. CASE Scan
  BY <1>19 DEF Scan, WriteStatus, FlagType
<1>20. CASE StartMonitoring
  BY <1>20 DEF StartMonitoring, WriteStatus, FlagType
<1>21. CASE SaveIndex
  BY <1>21 DEF SaveIndex, Saved, WriteStatus, FlagType
<1>22. CASE TakeReload \/ TakeReindex \/ Stop
  BY <1>22 DEF TakeReload, TakeReindex, Stop, FlagType
<1> QED
  BY <1>0, <1>1, <1>2, <1>3, <1>4, <1>5, <1>6, <1>7, <1>8, <1>9, <1>10, <1>11, <1>12, <1>13,
     <1>14, <1>15, <1>16, <1>17, <1>18, <1>19, <1>20, <1>21, <1>22
  DEF Next, Handlers, Service, Helper

LEMMA ChildStep == ChildType /\ [Next]_vars => ChildType'
<1> SUFFICES ASSUME ChildType, [Next]_vars PROVE ChildType'
  OBVIOUS
<1>0. CASE UNCHANGED vars
  BY <1>0 DEF vars, ChildType
<1>1. CASE ChangeSettings \/ RebuildIndex \/ ElevateForFullAccess \/ Close
  BY <1>1 DEF ChangeSettings, SaveBegins, SaveRefused, RebuildIndex, ElevateForFullAccess, Close,
              SendSignalToHelper, Kill, ChildType, Flags, Alive, Waiting
<1>2. CASE Authorize \/ Decline \/ Dies \/ TemporaryFile \/ SaveLiveChanges
  BY <1>2 DEF Authorize, Decline, Dies, TemporaryFile, SaveLiveChanges, ChildType, Alive,
              Unhandled
<1>3. CASE Handlers
  BY <1>3 DEF Handlers, ApplySettings, SaveFails, StartFails, OnHelperStarted, OnHelperFinished,
              OnIndexFileChanged, OnHelperDirectoryChanged, DestroyProcess, SendSignalToHelper,
              Kill, ChildType, Flags
<1>4. CASE Service
  BY <1>4 DEF Service, RunScan, RunDiff, RunLoad, RunReload, ChildType
<1>5. CASE LoadSettings \/ InstallSignalHandlers \/ LoadIndex \/ Scan \/ StartMonitoring
  BY <1>5 DEF LoadSettings, InstallSignalHandlers, LoadIndex, Scan, StartMonitoring, ChildType,
              Alive, Unhandled, Indexing
<1>6. CASE SaveIndex
  BY <1>6 DEF SaveIndex, Saved, ChildType, Alive, Indexing
<1>7. CASE TakeReload \/ TakeReindex \/ Stop
  BY <1>7 DEF TakeReload, TakeReindex, Stop, ChildType, Alive, Indexing
<1> QED
  BY <1>0, <1>1, <1>2, <1>3, <1>4, <1>5, <1>6, <1>7 DEF Next, Helper

\* What a command leaves is an index of roots of some version.
LEMMA VersionStep == FlagType /\ VersionType /\ IndexInv /\ [Next]_vars => VersionType'
<1> SUFFICES ASSUME FlagType, VersionType, IndexInv, [Next]_vars PROVE VersionType'
  OBVIOUS
<1> mem \in Versions /\ mem \in 0..LastVersion /\ 0 \in 0..LastVersion
  BY MemIsVersion, BoundsAssumption DEF VersionType
<1>0. CASE UNCHANGED vars
  BY <1>0 DEF vars, VersionType
<1>1. CASE ElevateForFullAccess \/ Authorize \/ Decline \/ Dies \/ TemporaryFile
  BY <1>1 DEF ElevateForFullAccess, Authorize, Decline, Dies, TemporaryFile, VersionType
<1>2. CASE \/ SaveLiveChanges \/ StartFails \/ OnIndexFileChanged
           \/ OnHelperDirectoryChanged \/ DestroyProcess
  BY <1>2 DEF SaveLiveChanges, StartFails, OnIndexFileChanged, OnHelperDirectoryChanged,
              DestroyProcess, VersionType
<1>3. CASE RunReload \/ LoadSettings \/ InstallSignalHandlers \/ LoadIndex \/ Scan
  BY <1>3 DEF RunReload, LoadSettings, InstallSignalHandlers, LoadIndex, Scan, VersionType
<1>4. CASE StartMonitoring \/ TakeReload \/ TakeReindex \/ Stop
  BY <1>4 DEF StartMonitoring, TakeReload, TakeReindex, Stop, VersionType
<1>5. CASE ChangeSettings
  <2> PICK new \in (mem + 1)..LastVersion : SaveBegins(new) \/ SaveRefused(new)
    BY <1>5 DEF ChangeSettings
  <2>1. new \in 1..LastVersion
    BY BoundsAssumption DEF VersionType
  <2>2. CASE SaveBegins(new)
    BY <2>1, <2>2 DEF SaveBegins, VersionType, Versions
  <2>3. CASE SaveRefused(new)
    BY <2>1, <2>3 DEF SaveRefused, VersionType
  <2> QED
    BY <2>2, <2>3
<1>6. CASE RebuildIndex
  <2>1. job' \in {job, IndexJob(TRUE)}
    BY <1>6 DEF RebuildIndex, Post
  <2> QED
    BY <1>6, <2>1, JobType DEF RebuildIndex, VersionType
<1>7. CASE Close
  BY <1>7, JobType DEF Close, Post, VersionType
<1>8. CASE ApplySettings
  <2>1. job' \in {job, SettingsJob} /\ file' \in Versions /\ old' = 0
    BY <1>8 DEF ApplySettings, Post, Versions
  <2> QED
    BY <1>8, <2>1, JobType DEF ApplySettings, VersionType
<1>9. CASE OnHelperStarted
  BY <1>9, JobType DEF OnHelperStarted, Post, VersionType
<1>10. CASE OnHelperFinished
  <2>1. job' \in {job, IndexJob(missed)}
    BY <1>10 DEF OnHelperFinished, Post
  <2> QED
    BY <1>10, <2>1, JobType DEF OnHelperFinished, VersionType
<1>11. CASE RunScan
  <2>1. Roots(job.ver) \in Indexes
    BY <1>11, RootsInAll DEF RunScan, VersionType, Jobs
  <2> QED
    BY <1>11, <2>1, JobType DEF RunScan, Finish, VersionType
<1>12. CASE RunDiff
  <2>1. Roots(job.ver) \in Indexes /\ job' = NoJob
    BY <1>12, RootsInAll DEF RunDiff, Finish, VersionType, Jobs
  <2>2. (view \ RemovedRoots) \cup AddedRoots \in Indexes
    BY <2>1 DEF VersionType, AddedRoots, Indexes
  <2>3. view' \in Indexes /\ idx' \in {idx, view'}
    BY <1>12, <2>2 DEF RunDiff
  <2> QED
    BY <1>12, <2>1, <2>3, JobType DEF RunDiff, VersionType
<1>13. CASE RunLoad
  BY <1>13, JobType DEF RunLoad, Finish, VersionType
<1>14. CASE SaveIndex
  <2>1. Roots(hset) \in Indexes
    BY RootsInAll DEF VersionType
  <2> QED
    BY <1>14, <2>1 DEF SaveIndex, Saved, VersionType
<1>15. CASE SaveFails
  BY <1>15 DEF SaveFails, VersionType
<1> QED
  BY <1>0, <1>1, <1>2, <1>3, <1>4, <1>5, <1>6, <1>7, <1>8, <1>9, <1>10, <1>11, <1>12, <1>13,
     <1>14, <1>15
  DEF Next, Handlers, Service, Helper

-----------------------------------------------------------------------------
(* The files, the process, and the requests.                               *)

\* Who tells of a file has just written it.
LEMMA IndexStep == VersionType /\ IndexInv /\ [Next]_vars => IndexInv'
<1> SUFFICES ASSUME VersionType, IndexInv, [Next]_vars PROVE IndexInv'
  OBVIOUS
<1> \A roots \in Indexes : roots # None
  BY NoneAssumption DEF Indexes
<1>0. CASE UNCHANGED vars
  BY <1>0 DEF vars, IndexInv
<1>1. CASE ChangeSettings \/ SaveFails \/ ElevateForFullAccess \/ Authorize \/ Decline \/ Dies
  BY <1>1 DEF ChangeSettings, SaveBegins, SaveRefused, SaveFails, ElevateForFullAccess, Authorize,
              Decline, Dies, IndexInv
<1>2. CASE \/ TemporaryFile \/ StartFails \/ OnIndexFileChanged \/ OnHelperDirectoryChanged
  BY <1>2 DEF TemporaryFile, StartFails, OnIndexFileChanged, OnHelperDirectoryChanged, IndexInv
<1>3. CASE DestroyProcess \/ RunReload \/ LoadSettings \/ InstallSignalHandlers \/ LoadIndex
  BY <1>3 DEF DestroyProcess, RunReload, LoadSettings, InstallSignalHandlers, LoadIndex,
              IndexInv
<1>4. CASE Scan \/ StartMonitoring \/ TakeReload \/ TakeReindex \/ Stop
  BY <1>4 DEF Scan, StartMonitoring, TakeReload, TakeReindex, Stop, IndexInv
<1>5. CASE RebuildIndex \/ ApplySettings
  BY <1>5 DEF RebuildIndex, ApplySettings, IndexInv
<1>6. CASE Close
  BY <1>6 DEF Close, IndexInv
<1>7. CASE OnHelperStarted \/ OnHelperFinished \/ RunLoad
  BY <1>7 DEF OnHelperStarted, OnHelperFinished, RunLoad, IndexInv
<1>8. CASE RunScan
  <2>1. Roots(job.ver) # None
    BY <1>8, RootsInAll DEF RunScan, VersionType, Jobs
  <2> QED
    BY <1>8, <2>1 DEF RunScan, IndexInv
<1>9. CASE RunDiff
  <2>1. Roots(job.ver) \in Indexes
    BY <1>9, RootsInAll DEF RunDiff, VersionType, Jobs
  <2>2. view' \in Indexes
    BY <1>9, <2>1 DEF RunDiff, VersionType, AddedRoots, Indexes
  <2>3. CASE UNCHANGED <<idx, notices>>
    BY <1>9, <2>3 DEF RunDiff, IndexInv
  <2>4. CASE idx' = view'
    BY <2>2, <2>4 DEF IndexInv
  <2> QED
    BY <1>9, <2>3, <2>4 DEF RunDiff
<1>10. CASE SaveIndex
  <2>1. Roots(hset) # None
    BY RootsInAll DEF VersionType
  <2> QED
    BY <1>10, <2>1 DEF SaveIndex, Saved, IndexInv
<1>11. CASE SaveLiveChanges
  BY <1>11 DEF SaveLiveChanges, VersionType, IndexInv
<1> QED
  BY <1>0, <1>1, <1>2, <1>3, <1>4, <1>5, <1>6, <1>7, <1>8, <1>9, <1>10, <1>11
  DEF Next, Handlers, Service, Helper

\* Only the window makes new settings, and only it writes them.
LEMMA SettingsStep == VersionType /\ VersionInv /\ [Next]_vars => VersionInv'
<1> SUFFICES ASSUME VersionType, VersionInv, [Next]_vars PROVE VersionInv'
  OBVIOUS
<1> mem \in Int /\ file \in Int /\ hset \in Int /\ Torn \in Int /\ Torn < 0 /\ 0 < mem
  BY DEF VersionType, Versions, Torn
<1>1. CASE ChangeSettings
  <2> PICK new \in (mem + 1)..LastVersion : SaveBegins(new) \/ SaveRefused(new)
    BY <1>1 DEF ChangeSettings
  <2>1. new \in Int /\ mem < new
    BY BoundsAssumption
  <2>2. CASE SaveBegins(new)
    <3>1. file' = Torn /\ mem' = new /\ hset' = hset
      BY <2>2 DEF SaveBegins
    <3>2. hset < new /\ Torn < new
      BY <2>1 DEF VersionInv
    <3> QED
      BY <2>1, <3>1, <3>2 DEF VersionInv
  <2>3. CASE SaveRefused(new)
    BY <2>1, <2>3 DEF SaveRefused, Ui, VersionInv
  <2> QED
    BY <2>2, <2>3
<1>2. CASE ApplySettings
  <2>1. file' \in {mem, Torn} /\ hset # mem /\ ~saving' /\ UNCHANGED <<mem, hset>>
    BY <1>2 DEF ApplySettings, VersionInv
  <2> QED
    BY <2>1 DEF VersionInv
<1>3. CASE LoadSettings
  BY <1>3 DEF LoadSettings, VersionInv
<1>4. CASE UNCHANGED <<mem, file, hset>> /\ (saving' => saving)
  BY <1>4 DEF VersionInv
<1>5. CASE UNCHANGED vars
  BY <1>4, <1>5 DEF vars
<1>6. CASE Decline \/ Dies \/ TemporaryFile \/ SaveLiveChanges \/ StartFails \/ OnHelperStarted
  BY <1>4, <1>6 DEF Decline, Dies, TemporaryFile, SaveLiveChanges, StartFails, OnHelperStarted
<1>7. CASE \/ OnHelperFinished \/ OnIndexFileChanged \/ OnHelperDirectoryChanged
           \/ DestroyProcess \/ Service
  BY <1>4, <1>7 DEF OnHelperFinished, OnIndexFileChanged, OnHelperDirectoryChanged,
                    DestroyProcess, Service, RunScan, RunDiff, RunLoad, RunReload
<1>8. CASE \/ InstallSignalHandlers \/ LoadIndex \/ Scan \/ SaveIndex \/ StartMonitoring
           \/ TakeReload \/ TakeReindex \/ Stop
  BY <1>4, <1>8 DEF InstallSignalHandlers, LoadIndex, Scan, SaveIndex, Saved, StartMonitoring,
                    TakeReload, TakeReindex, Stop
<1>9. CASE SaveFails
  BY <1>4, <1>9 DEF SaveFails
<1>10. CASE RebuildIndex \/ ElevateForFullAccess \/ Close \/ Authorize
  BY <1>4, <1>10 DEF RebuildIndex, ElevateForFullAccess, Close, Authorize
<1> QED
  BY <1>1, <1>2, <1>3, <1>5, <1>6, <1>7, <1>8, <1>9, <1>10 DEF Next, Handlers, Helper

\* A helper that can be signalled is one with handlers, or one the signal ends.
LEMMA ProcessStep == ChildType /\ ProcessInv /\ [Next]_vars => ProcessInv'
<1> SUFFICES ASSUME ChildType, ProcessInv, [Next]_vars PROVE ProcessInv'
  OBVIOUS
<1>0. CASE UNCHANGED vars
  BY <1>0 DEF vars, ProcessInv
<1>1. CASE ChangeSettings \/ SaveFails
  BY <1>1 DEF ChangeSettings, SaveBegins, SaveRefused, SaveFails, ProcessInv
<1>2. CASE Close
  BY <1>2 DEF Close, ProcessInv
<1>3. CASE Decline
  BY <1>3 DEF Decline, ProcessInv
<1>4. CASE TemporaryFile
  BY <1>4 DEF TemporaryFile, ProcessInv
<1>5. CASE SaveLiveChanges
  BY <1>5 DEF SaveLiveChanges, ProcessInv
<1>6. CASE StartFails
  BY <1>6 DEF StartFails, ProcessInv
<1>7. CASE OnHelperStarted
  BY <1>7 DEF OnHelperStarted, Post, ProcessInv
<1>8. CASE OnHelperFinished
  BY <1>8 DEF OnHelperFinished, ProcessInv
<1>9. CASE OnIndexFileChanged
  BY <1>9 DEF OnIndexFileChanged, ProcessInv
<1>10. CASE OnHelperDirectoryChanged
  BY <1>10 DEF OnHelperDirectoryChanged, ProcessInv
<1>11. CASE DestroyProcess
  BY <1>11 DEF DestroyProcess, ProcessInv
<1>12. CASE RunScan \/ RunDiff
  BY <1>12 DEF RunScan, RunDiff, Finish, ProcessInv
<1>13. CASE RunLoad
  BY <1>13 DEF RunLoad, Finish, ProcessInv
<1>14. CASE RunReload
  BY <1>14 DEF RunReload, ProcessInv
<1>15. CASE Stop
  BY <1>15 DEF Stop, ProcessInv
<1>16. CASE RebuildIndex
  BY <1>16 DEF RebuildIndex, SendSignalToHelper, Kill, ChildType, ProcessInv, Flags, Alive
<1>17. CASE ElevateForFullAccess
  BY <1>17 DEF ElevateForFullAccess, ProcessInv, Alive, Waiting
<1>18. CASE Authorize
  BY <1>18 DEF Authorize, ProcessInv, Alive, Unhandled, Indexing
<1>19. CASE Dies
  BY <1>19 DEF Dies, ProcessInv, Unhandled, Indexing
<1>20. CASE ApplySettings
  BY <1>20 DEF ApplySettings, SendSignalToHelper, Kill, ChildType, ProcessInv, Flags, Alive
<1>21. CASE LoadSettings
  BY <1>21 DEF LoadSettings, ProcessInv, Alive, Unhandled, Indexing
<1>22. CASE InstallSignalHandlers
  BY <1>22 DEF InstallSignalHandlers, ProcessInv, Alive, Indexing
<1>23. CASE LoadIndex
  BY <1>23 DEF LoadIndex, ProcessInv, Alive, Indexing
<1>24. CASE Scan
  BY <1>24 DEF Scan, ProcessInv, Alive, Indexing
<1>25. CASE SaveIndex
  BY <1>25 DEF SaveIndex, Saved, ProcessInv, Alive, Indexing
<1>26. CASE StartMonitoring
  BY <1>26 DEF StartMonitoring, ProcessInv, Alive, Indexing
<1>27. CASE TakeReload
  BY <1>27 DEF TakeReload, ProcessInv, Alive, Indexing
<1>28. CASE TakeReindex
  BY <1>28 DEF TakeReindex, ProcessInv, Alive, Indexing
<1> QED
  BY <1>0, <1>1, <1>2, <1>3, <1>4, <1>5, <1>6, <1>7, <1>8, <1>9, <1>10, <1>11, <1>12, <1>13,
     <1>14, <1>15, <1>16, <1>17, <1>18, <1>19, <1>20, <1>21, <1>22, <1>23, <1>24, <1>25, <1>26, <1>27,
     <1>28
  DEF Next, Handlers, Service, Helper

\* A flag is kept until the loop takes it; a death leaves missed behind, and a
\* command that is cancelled a rebuild.
LEMMA OwedStep == VersionType /\ ProcessInv /\ OwedInv /\ [Next]_vars => OwedInv'
<1> SUFFICES ASSUME VersionType, ProcessInv, OwedInv, [Next]_vars PROVE OwedInv'
  OBVIOUS
<1>0. CASE UNCHANGED vars
  BY <1>0 DEF vars, OwedInv
<1>1. CASE ElevateForFullAccess \/ Close \/ Decline \/ Dies \/ TemporaryFile
  BY <1>1 DEF ElevateForFullAccess, Close, Decline, Dies, TemporaryFile, OwedInv
<1>2. CASE \/ SaveLiveChanges \/ OnHelperStarted \/ OnIndexFileChanged
           \/ OnHelperDirectoryChanged \/ DestroyProcess \/ RunScan
  BY <1>2 DEF SaveLiveChanges, OnHelperStarted, OnIndexFileChanged, OnHelperDirectoryChanged,
              DestroyProcess, RunScan, OwedInv
<1>3. CASE RunDiff \/ RunLoad
  BY <1>3 DEF RunDiff, RunLoad, FullScan, ProcessInv, OwedInv, NoJob
<1>4. CASE RunReload \/ TakeReload \/ TakeReindex \/ Stop
  BY <1>4 DEF RunReload, TakeReload, TakeReindex, Stop, OwedInv
<1>5. CASE RebuildIndex
  BY <1>5 DEF RebuildIndex, SendSignalToHelper, Kill, Post, IndexJob, ProcessInv, OwedInv, Alive
<1>6. CASE Authorize
  BY <1>6 DEF Authorize, OwedInv, Indexing
<1>7. CASE ApplySettings
  <2>1. CASE elevated
    BY <1>7, <2>1 DEF ApplySettings, SendSignalToHelper, Kill, ProcessInv, OwedInv, Alive
  <2>2. CASE ~elevated
    <3>1. /\ UNCHANGED <<open, elevated, owed>> /\ job' = SettingsJob
          /\ needsFullRebuild' = (needsFullRebuild \/ job # NoJob)
      BY <1>7, <2>2 DEF ApplySettings, Post
    <3>2. SettingsJob.kind = "settings" /\ NoJob.kind = "none"
      BY DEF SettingsJob, NoJob
    <3> HIDE DEF SettingsJob, NoJob
    <3> QED
      BY <2>2, <3>1, <3>2 DEF OwedInv
  <2> QED
    BY <2>1, <2>2
<1>8. CASE StartFails
  BY <1>8 DEF StartFails, ProcessInv, OwedInv
<1>9. CASE OnHelperFinished
  BY <1>9 DEF OnHelperFinished, Post, IndexJob, ProcessInv, OwedInv
<1>10. CASE LoadSettings
  BY <1>10 DEF LoadSettings, OwedInv, Indexing
<1>11. CASE InstallSignalHandlers
  BY <1>11 DEF InstallSignalHandlers, OwedInv, Indexing
<1>12. CASE LoadIndex
  BY <1>12 DEF LoadIndex, OwedInv, Indexing
<1>13. CASE Scan
  BY <1>13 DEF Scan, OwedInv, Indexing
<1>14. CASE SaveIndex
  BY <1>14 DEF SaveIndex, Saved, OwedInv, Indexing
<1>15. CASE StartMonitoring
  BY <1>15 DEF StartMonitoring, OwedInv, Indexing
<1>16. CASE ChangeSettings \/ SaveFails
  BY <1>16 DEF ChangeSettings, SaveBegins, SaveRefused, SaveFails, OwedInv
<1> QED
  BY <1>0, <1>1, <1>2, <1>3, <1>4, <1>5, <1>6, <1>7, <1>8, <1>9, <1>10, <1>11, <1>12, <1>13,
     <1>14, <1>15, <1>16
  DEF Next, Handlers, Service, Helper

\* Coming back from the helper, the window loads what is of its settings, or
\* scans. A change is diffed with the settings its index is of.
LEMMA LocalStep == VersionType /\ ProcessInv /\ LocalInv /\ HelperInv /\ [Next]_vars => LocalInv'
<1> SUFFICES ASSUME VersionType, ProcessInv, LocalInv, HelperInv, [Next]_vars PROVE LocalInv'
  OBVIOUS
<1> DEFINE Local == proc = "none" \/ child = "failed"
<1>0. ASSUME UNCHANGED <<open, elevated, config, service, view, idx, dropped>>, Local' => Local
      PROVE  LocalInv'
  <2>1. Held' = Held
    BY <1>0 DEF Held
  <2> HIDE DEF Held
  <2> QED
    BY <1>0, <2>1 DEF LocalInv
<1>1. CASE ChangeSettings
  <2> PICK new : SaveBegins(new) \/ SaveRefused(new)
    BY <1>1 DEF ChangeSettings
  <2>1. CASE SaveBegins(new)
    <3>1. /\ Held' = Held /\ UNCHANGED <<open, elevated, service, view, idx, dropped>>
          /\ Local' => Local
      BY <2>1 DEF SaveBegins, Ui, Held
    <3> HIDE DEF Held
    <3> QED
      BY <3>1 DEF LocalInv
  <2>2. CASE SaveRefused(new)
    BY <2>2 DEF SaveRefused, LocalInv
  <2> QED
    BY <2>1, <2>2
<1>2. CASE SaveFails \/ Close
  BY <1>2 DEF SaveFails, Close, LocalInv
<1>3. CASE UNCHANGED vars \/ ElevateForFullAccess \/ Authorize \/ Decline \/ Dies \/ TemporaryFile
  BY <1>0, <1>3 DEF vars, ElevateForFullAccess, Authorize, Decline, Dies, TemporaryFile
<1>4. CASE \/ StartFails \/ OnHelperDirectoryChanged \/ LoadSettings \/ InstallSignalHandlers
           \/ LoadIndex \/ Scan
  BY <1>0, <1>4 DEF StartFails, OnHelperDirectoryChanged, LoadSettings, InstallSignalHandlers,
                    LoadIndex, Scan
<1>5. CASE StartMonitoring \/ TakeReload \/ TakeReindex \/ Stop
  BY <1>0, <1>5 DEF StartMonitoring, TakeReload, TakeReindex, Stop
<1>6. CASE OnHelperStarted
  BY <1>6 DEF OnHelperStarted, LocalInv
<1>7. CASE RunReload
  BY <1>7, JobKinds DEF RunReload, LocalInv, Held, NoJob
<1>8. CASE RebuildIndex
  <2>1. IndexJob(TRUE) # NoJob /\ IndexJob(TRUE).ver = mem /\ IndexJob(TRUE).force
        /\ IndexJob(TRUE).kind = "index"
    BY DEF IndexJob, NoJob
  <2>2. CASE elevated
    BY <1>8, <2>2 DEF RebuildIndex, LocalInv
  <2>3. CASE ~elevated
    <3>1. job' = IndexJob(TRUE) /\ ~saving' /\ mem' = mem
      BY <1>8, <2>3 DEF RebuildIndex, Post, Ui
    <3> HIDE DEF IndexJob, NoJob
    <3> QED
      BY <2>1, <3>1 DEF LocalInv, Held
  <2> QED
    BY <2>2, <2>3
<1>9. CASE SaveLiveChanges
  BY <1>9 DEF SaveLiveChanges, ProcessInv, LocalInv
<1>10. CASE ApplySettings
  <2>1. /\ SettingsJob # NoJob /\ SettingsJob.ver = mem /\ SettingsJob.old = old
        /\ SettingsJob.kind = "settings" /\ NoJob.kind = "none" /\ NoJob.force = FALSE
    BY DEF SettingsJob, NoJob
  <2>2. CASE elevated
    BY <1>10, <2>2 DEF ApplySettings, LocalInv
  <2>3. CASE ~elevated
    <3>1. /\ job' = SettingsJob /\ needsFullRebuild' = (needsFullRebuild \/ job # NoJob)
          /\ saving /\ ~saving' /\ UNCHANGED <<mem, view, idx, proc, child, open, elevated>>
          /\ dropped => dropped'
      BY <1>10, <2>3 DEF ApplySettings, Post
    <3>2. Held = old /\ Held' = mem
      BY <3>1 DEF Held
    <3> HIDE DEF SettingsJob, NoJob, Held
    <3> QED
      BY <2>1, <3>1, <3>2 DEF LocalInv
  <2> QED
    BY <2>2, <2>3
<1>11. CASE OnHelperFinished
  <2>1. /\ IndexJob(missed) # NoJob /\ IndexJob(missed).ver = mem
        /\ IndexJob(missed).force = missed /\ IndexJob(missed).kind = "index"
    BY DEF IndexJob, NoJob
  <2>2. /\ job' = IndexJob(missed) /\ ~saving /\ open /\ proc = "running"
        /\ UNCHANGED <<saving, mem, idx, open, dropped>>
    BY <1>11 DEF OnHelperFinished, Post, Ui
  <2>3. Held' = mem
    BY <2>2 DEF Held
  <2>4. ~dropped => missed \/ idx \in {None, Roots(mem)}
    BY <2>2 DEF ProcessInv, HelperInv, KeptForLater
  <2> HIDE DEF IndexJob, NoJob, Held
  <2> QED
    BY <2>1, <2>2, <2>3, <2>4 DEF LocalInv
<1>12. CASE DestroyProcess
  BY <1>12 DEF DestroyProcess, ProcessInv, LocalInv
<1>13. CASE RunScan
  <2>1. /\ job' = NoJob /\ view' = Roots(job.ver) /\ idx' = Roots(job.ver)
        /\ dropped' = (dropped /\ job.ver # Held) /\ UNCHANGED <<open, elevated, proc, child>>
        /\ Held' = Held /\ job # NoJob
    BY <1>13 DEF RunScan, Finish, Held
  <2>2. NoJob.kind = "none"
    BY DEF NoJob
  <2> HIDE DEF NoJob, Held
  <2> QED
    BY <2>1, <2>2 DEF LocalInv
<1>14. CASE RunDiff
  <2>1. /\ job' = NoJob /\ view' = (view \ RemovedRoots) \cup AddedRoots
        /\ UNCHANGED <<open, elevated, proc, child, dropped>>
        /\ Held' = Held /\ job # NoJob /\ ~FullScan
        /\ idx' = IF AddedRoots \cup RemovedRoots = {} THEN idx ELSE view'
    BY <1>14 DEF RunDiff, Finish, Held
  <2>2. NoJob.kind = "none"
    BY DEF NoJob
  <2>3. job.kind = "settings" /\ ~needsFullRebuild
    BY <2>1, JobKinds DEF FullScan
  <2>4. SUFFICES ASSUME open, ~elevated, ~dropped, proc = "none" \/ child = "failed"
                 PROVE  view' = Roots(Held) /\ idx' \in {None, Roots(Held)}
    BY <2>1, <2>2 DEF LocalInv
  <2>5. job.ver = Held /\ view = Roots(job.old) /\ idx \in {None, Roots(job.old)}
    BY <2>1, <2>3, <2>4 DEF LocalInv
  <2>6. view' = Roots(Held)
    BY <2>1, <2>5 DEF AddedRoots, RemovedRoots
  <2>7. AddedRoots \cup RemovedRoots = {} => Roots(job.old) = Roots(job.ver)
    BY DEF AddedRoots, RemovedRoots
  <2> QED
    BY <2>1, <2>5, <2>6, <2>7
<1>15. CASE RunLoad
  <2>1. /\ job' = NoJob /\ view' = idx /\ UNCHANGED <<open, elevated, proc, child, dropped, idx>>
        /\ Held' = Held /\ job.kind = "index" /\ ~job.force /\ idx # None
    BY <1>15 DEF RunLoad, Finish, Held
  <2>2. NoJob.kind = "none"
    BY DEF NoJob
  <2> HIDE DEF NoJob, Held
  <2> QED
    BY <2>1, <2>2 DEF LocalInv
<1>16. CASE SaveIndex
  BY <1>16 DEF SaveIndex, Saved, ProcessInv, LocalInv
<1>17. CASE OnIndexFileChanged
  <2>1. /\ Held' = Held /\ Local' = Local
        /\ UNCHANGED <<open, elevated, job, needsFullRebuild, view, idx, dropped>>
    BY <1>17 DEF OnIndexFileChanged, Held
  <2> HIDE DEF Held, Local
  <2> QED
    BY <2>1 DEF LocalInv, Local
<1> QED
  BY <1>0, <1>1, <1>2, <1>3, <1>4, <1>5, <1>6, <1>7, <1>8, <1>9, <1>10, <1>11, <1>12, <1>13,
     <1>14, <1>15, <1>16, <1>17
  DEF Next, Handlers, Service, Helper

\* The helper takes over an index of the window's settings, and every change
\* after that reaches it or its end.
LEMMA HelperStep ==
    IndexInv /\ VersionInv /\ ProcessInv /\ HelperInv /\ [Next]_vars => HelperInv'
<1> SUFFICES ASSUME IndexInv, VersionInv, ProcessInv, HelperInv, [Next]_vars PROVE HelperInv'
  OBVIOUS
<1>0. CASE UNCHANGED vars
  BY <1>0 DEF vars, HelperInv, KeptForLater
<1>1. CASE ElevateForFullAccess \/ Close \/ OnHelperFinished
  BY <1>1 DEF ElevateForFullAccess, Close, OnHelperFinished, HelperInv
<1>2. CASE RebuildIndex
  BY <1>2 DEF RebuildIndex, SendSignalToHelper, Kill, HelperInv, KeptForLater, Busy, Indexing
<1>3. CASE Authorize
  BY <1>3 DEF Authorize, HelperInv, KeptForLater, Busy, Indexing
<1>4. CASE Decline
  BY <1>4 DEF Decline, HelperInv, KeptForLater, Busy, Indexing
<1>5. CASE Dies
  BY <1>5 DEF Dies, HelperInv, KeptForLater, Busy, Indexing
<1>6. CASE TemporaryFile
  BY <1>6 DEF TemporaryFile, HelperInv, KeptForLater
<1>7. CASE SaveLiveChanges
  BY <1>7 DEF SaveLiveChanges, ProcessInv, HelperInv, KeptForLater
<1>8. CASE ApplySettings
  BY <1>8 DEF ApplySettings, SendSignalToHelper, Kill, ProcessInv, HelperInv, KeptForLater,
              Busy, Alive, Indexing
<1>9. CASE StartFails
  BY <1>9 DEF StartFails, ProcessInv, HelperInv
<1>10. CASE OnHelperStarted
  BY <1>10 DEF OnHelperStarted, HelperInv, Indexing
<1>11. CASE OnIndexFileChanged
  BY <1>11 DEF OnIndexFileChanged, HelperInv, KeptForLater
<1>12. CASE OnHelperDirectoryChanged
  BY <1>12 DEF OnHelperDirectoryChanged, HelperInv, KeptForLater
<1>13. CASE DestroyProcess
  BY <1>13 DEF DestroyProcess, ProcessInv, HelperInv
<1>14. CASE RunScan \/ RunDiff
  BY <1>14 DEF RunScan, RunDiff, ProcessInv, HelperInv
<1>15. CASE RunLoad
  BY <1>15 DEF RunLoad, NoJob, ProcessInv, HelperInv
<1>16. CASE RunReload
  BY <1>16 DEF RunReload, IndexInv, HelperInv, KeptForLater
<1>17. CASE LoadSettings
  BY <1>17 DEF LoadSettings, ProcessInv, HelperInv, KeptForLater, Busy
<1>18. CASE InstallSignalHandlers
  BY <1>18 DEF InstallSignalHandlers, HelperInv, KeptForLater, Busy
<1>19. CASE LoadIndex
  BY <1>19 DEF LoadIndex, HelperInv, KeptForLater, Busy, Indexing
<1>20. CASE Scan
  BY <1>20 DEF Scan, HelperInv, KeptForLater, Busy, Indexing
<1>21. CASE SaveIndex
  BY <1>21 DEF SaveIndex, Saved, VersionInv, ProcessInv, HelperInv, KeptForLater, Indexing
<1>22. CASE StartMonitoring
  BY <1>22 DEF StartMonitoring, HelperInv, KeptForLater, Busy, Indexing
<1>23. CASE TakeReload
  BY <1>23 DEF TakeReload, HelperInv, KeptForLater, Busy
<1>24. CASE TakeReindex
  BY <1>24 DEF TakeReindex, ProcessInv, HelperInv, KeptForLater, Busy
<1>25. CASE Stop
  BY <1>25 DEF Stop, ProcessInv, HelperInv
<1>26. CASE ChangeSettings \/ SaveFails
  BY <1>26 DEF ChangeSettings, SaveBegins, SaveRefused, SaveFails, HelperInv
<1> QED
  BY <1>0, <1>1, <1>2, <1>3, <1>4, <1>5, <1>6, <1>7, <1>8, <1>9, <1>10, <1>11, <1>12, <1>13,
     <1>14, <1>15, <1>16, <1>17, <1>18, <1>19, <1>20, <1>21, <1>22, <1>23, <1>24, <1>25, <1>26
  DEF Next, Handlers, Service, Helper

-----------------------------------------------------------------------------
(* The status.                                                             *)

\* Every status that is written is one of the helper's.
LEMMA StatusWritten ==
    ASSUME VersionType, NEW state, NEW files, WriteStatus(state, files),
           \/ state = "Idle" /\ files \in Indexes
           \/ state \in {"Scanning", "WatchingForChanges"} /\ files = {}
    PROVE  status' \in Written
<1>1. hset \in DOMAIN RootsOf
  BY VersionsHaveRoots DEF VersionType
<1>2. [state |-> state, filesIndexed |-> files, locations |-> RootsOf[hset]] \in Statuses
  BY <1>1 DEF Statuses, Indexes
<1> QED
  BY <1>2 DEF WriteStatus, Written

LEMMA StatusStep == VersionType /\ StatusInv /\ [Next]_vars => StatusInv'
<1> SUFFICES ASSUME VersionType, StatusInv, [Next]_vars PROVE StatusInv'
  OBVIOUS
<1>1. CASE LoadIndex
  <2>1. status' \in Written
    BY <1>1, StatusWritten DEF LoadIndex, VersionType
  <2> QED
    BY <1>1, <2>1 DEF LoadIndex, StatusInv, ShownWasReported
<1>2. CASE Scan
  <2>1. status' \in Written
    BY <1>2, StatusWritten DEF Scan, StatusInv
  <2> QED
    BY <1>2, <2>1 DEF Scan, StatusInv, ShownWasReported
<1>3. CASE SaveIndex
  <2>1. status' \in Written
    BY <1>3, StatusWritten, RootsInAll DEF SaveIndex, Saved, VersionType
  <2> QED
    BY <1>3, <2>1 DEF SaveIndex, Saved, StatusInv, ShownWasReported
<1>4. CASE StartMonitoring
  <2>1. status' \in Written
    BY <1>4, StatusWritten DEF StartMonitoring
  <2> QED
    BY <1>4, <2>1 DEF StartMonitoring, StatusInv, ShownWasReported
<1>5. CASE OnHelperDirectoryChanged
  BY <1>5, WhatIsRead DEF OnHelperDirectoryChanged, StatusInv, ShownWasReported
<1>6. CASE UNCHANGED display
  BY <1>6 DEF StatusInv, ShownWasReported
<1>7. CASE ChangeSettings \/ SaveFails \/ RebuildIndex \/ ElevateForFullAccess \/ Close
  BY <1>6, <1>7 DEF ChangeSettings, SaveBegins, SaveRefused, SaveFails, RebuildIndex,
                    ElevateForFullAccess, Close
<1>8. CASE Authorize \/ Decline \/ Dies \/ TemporaryFile \/ SaveLiveChanges
  BY <1>6, <1>8 DEF Authorize, Decline, Dies, TemporaryFile, SaveLiveChanges
<1>9. CASE ApplySettings \/ StartFails \/ OnHelperStarted \/ OnHelperFinished
           \/ OnIndexFileChanged \/ DestroyProcess
  BY <1>6, <1>9 DEF ApplySettings, StartFails, OnHelperStarted, OnHelperFinished,
                    OnIndexFileChanged, DestroyProcess
<1>10. CASE Service
  BY <1>6, <1>10 DEF Service, RunScan, RunDiff, RunLoad, RunReload
<1>11. CASE LoadSettings \/ InstallSignalHandlers \/ TakeReload \/ TakeReindex \/ Stop
  BY <1>6, <1>11 DEF LoadSettings, InstallSignalHandlers, TakeReload, TakeReindex, Stop
<1>12. CASE UNCHANGED vars
  BY <1>6, <1>12 DEF vars
<1> QED
  BY <1>1, <1>2, <1>3, <1>4, <1>5, <1>6, <1>7, <1>8, <1>9, <1>10, <1>11, <1>12 DEF Next,
     Handlers, Helper

-----------------------------------------------------------------------------
(* The theorems.                                                           *)

LEMMA Inductively == IInv /\ [Next]_vars => IInv'
<1> SUFFICES ASSUME IInv, [Next]_vars PROVE IInv'
  OBVIOUS
<1>1. /\ FlagType /\ ChildType /\ VersionType /\ TypeOK
      /\ IndexInv /\ VersionInv /\ ProcessInv /\ OwedInv /\ LocalInv /\ HelperInv /\ StatusInv
  BY DEF IInv, TypeOK
<1>2. FlagType' /\ ChildType' /\ VersionType'
  BY <1>1, FlagStep, ChildStep, VersionStep
<1>3. /\ IndexInv' /\ VersionInv' /\ ProcessInv' /\ OwedInv' /\ LocalInv' /\ HelperInv'
      /\ StatusInv'
  BY <1>1, IndexStep, SettingsStep, ProcessStep, OwedStep, LocalStep, HelperStep, StatusStep
<1> QED
  BY <1>2, <1>3 DEF IInv, TypeOK

\* Whatever the user, pkexec, root's helper and its end do in whatever order,
\* the invariant holds.
THEOREM Invariance == Spec => []IInv
  BY Initially, Inductively, PTL DEF Spec

\* A request that was signalled to the helper is carried out, by it or by the
\* window, before everything has come to rest (SendSignalToHelper,
\* OnHelperFinished, the flags of main_helper.cpp).
THEOREM RequestsAreServedHolds == Spec => []RequestsAreServed
<1>1. IInv => RequestsAreServed
  BY DEF IInv, ProcessInv, OwedInv, RequestsAreServed, KeptForLater, Rest, Ui, NoJob, Indexing
<1> QED
  BY <1>1, Invariance, PTL

\* When everything has come to rest the window searches an index of the roots it
\* has in its settings, whether they were added, removed, diffed or scanned, by
\* the window or the helper, but for the changes whose Save has failed and those
\* an elevation has cancelled (ApplySettings, RunSettingsChange,
\* OnIndexFileChanged, OnHelperFinished).
THEOREM ViewFollowsSettingsHolds == Spec => []ViewFollowsSettings
<1>1. IInv => ViewFollowsSettings
  BY DEF IInv, TypeOK, FlagType, ProcessInv, LocalInv, HelperInv, ViewFollowsSettings, Rest, Ui,
         Held, Busy
<1> QED
  BY <1>1, Invariance, PTL

\* The window shows only what the helper has written as one status, whatever a
\* power failure has cut off (ParseStatus, UpdateStatusFromHelperFile).
THEOREM ShownWasReportedHolds == Spec => []ShownWasReported
<1>1. IInv => ShownWasReported
  BY DEF IInv, StatusInv
<1> QED
  BY <1>1, Invariance, PTL
=============================================================================
