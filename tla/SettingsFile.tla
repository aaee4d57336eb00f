---------------------------- MODULE SettingsFile ----------------------------
(***************************************************************************)
(* Settings and the INI file they are kept in, from the first-run dialog   *)
(* and the Settings dialog to the bytes on disk and back at the next start.*)
(*                                                                         *)
(* The file is a function from keys to what stands after their "=": the    *)
(* order of the lines is that of a hash table, so that what is left of a   *)
(* file whose writing was cut off is any of its lines and a beginning of   *)
(* another. Comments and lines without "=" load as nothing and are left    *)
(* out, as are the search options and the log level, kept like the other   *)
(* keys. RealPath is realpath(3), external.                                *)
(***************************************************************************)
EXTENDS Mounts, FiniteSets

CONSTANTS
    Folders,        \* bound: the folders the user may pick
    Intervals,      \* bound: the intervals the user may type, in hours or days
    RealPath,       \* links and the paths they resolve to
    HomeDir,
    Defaults,       \* the exclusions of a fresh install, "~" standing for HomeDir
    MountTables,    \* bound: the mount tables of the first start
    FirstFiles,     \* bound: the files of the first start
    CharOrder,      \* the characters in the order of their codes
    MaxEdits,       \* bound: changes the user makes
    MaxFaults       \* bound: crashes, power failures and failed writes

Keys == {"SelectedRoots", "ExcludedPaths", "ReindexIntervalHours", "FirstRunComplete"}

ASSUME BoundsAssumption == MaxEdits \in Nat /\ MaxFaults \in Nat
ASSUME HomeAssumption == HomeDir # <<>> /\ HomeDir[1] = "/"

VARIABLES
    file,       \* the INI file: keys to escaped values
    phase,      \* "down", "first_run", "up", "saving"
    mem,        \* the Settings object of the window
    mounts,     \* /proc/self/mountinfo as the first-run dialog found it
    stream,     \* what Save has put in the stream that writes the file
    edits, faults,
    saved,      \* read by the properties only: the settings the file holds, a set
    first       \*   that is empty once a write was cut off, and the first file

process == <<phase, mem, mounts, stream>>
bounds  == <<edits, faults>>
history == <<saved, first>>
vars    == <<file, process, bounds, history>>

NL == "newline"
Blanks == {" ", NL}

-----------------------------------------------------------------------------
(* IniFile.                                                                *)

\* Mutant of EscapeValue: backslashes are written as they are.
EscapeNewlines(value) ==
    FlattenSeq([i \in DOMAIN value |-> IF value[i] = NL THEN <<"\\", "n">> ELSE <<value[i]>>])

EscapeValue(value) ==
    FlattenSeq([i \in DOMAIN value |-> CASE value[i] = "\\" -> <<"\\", "\\">>
                                         [] value[i] = NL   -> <<"\\", "n">>
                                         [] OTHER           -> <<value[i]>>])

\* A backslash at the end stands for itself.
UnescapeValue(escaped) ==
    LET Step(s, c) ==
            IF s.after THEN [out |-> Append(s.out, IF c = "n" THEN NL ELSE c), after |-> FALSE]
            ELSE IF c = "\\" THEN [s EXCEPT !.after = TRUE]
            ELSE [s EXCEPT !.out = Append(@, c)]
        end == FoldLeft(Step, [out |-> <<>>, after |-> FALSE], escaped)
    IN IF end.after THEN Append(end.out, "\\") ELSE end.out

\* What Trim leaves of a line's value: the line is trimmed, not the value.
TrimEnd(text) ==
    SubSeq(text, 1, SelectLastInSeq(text, LAMBDA c : c \notin Blanks))

\* IniFile::Load.
ReadKeys(f) == [k \in DOMAIN f |-> UnescapeValue(TrimEnd(f[k]))]

GetString(values, key, default) == IF key \in DOMAIN values THEN values[key] ELSE default

\* std::stoi: the digits a value begins with.
DigitsOf == [c \in {"0", "1", "2", "3", "4", "5", "6", "7", "8", "9"} |->
               CHOOSE n \in 0..9 : ToString(n) = c]
GetInt(values, key, default) ==
    LET text == GetString(values, key, <<>>)
        stop == SelectInSeq(text, LAMBDA c : c \notin DOMAIN DigitsOf)
        head == IF stop = 0 THEN text ELSE SubSeq(text, 1, stop - 1)
    IN IF head = <<>> THEN default
       ELSE FoldLeft(LAMBDA n, c : 10 * n + DigitsOf[c], 0, head)

SetInt(n) == LET width == CHOOSE w \in 1..9 : n < 10^w /\ (w = 1 \/ 10^(w - 1) <= n)
             IN [i \in 1..width |-> ToString((n \div 10^(width - i)) % 10)]

GetBool(values, key, default) ==
    CASE GetString(values, key, <<>>) = <<"1">> -> TRUE
      [] GetString(values, key, <<>>) = <<"0">> -> FALSE
      [] OTHER -> default

SetBool(b) == IF b THEN <<"1">> ELSE <<"0">>

-----------------------------------------------------------------------------
(* PathUtils and the lists of Settings.                                    *)

SplitLines(joined) ==
    LET Step(lines, c) ==
            IF c = NL THEN Append(lines, <<>>)
            ELSE [lines EXCEPT ![Len(lines)] = Append(@, c)]
    IN IF joined = <<>> THEN <<>> ELSE FoldLeft(Step, <<<<>>>>, joined)

JoinLines(lines) ==
    FlattenSeq([i \in DOMAIN lines |-> IF i = 1 THEN lines[i] ELSE <<NL>> \o lines[i]])

AnyContainsNewline(paths) == \E i \in DOMAIN paths : Contains(paths[i], NL)

ExpandHome(path) ==
    IF path = <<"~">> \/ IsPrefix(<<"~", "/">>, path) THEN HomeDir \o Tail(path) ELSE path

DefaultExcludedPaths == [i \in DOMAIN Defaults |-> ExpandHome(Defaults[i])]

\* "/" is the one path that keeps its slash.
StripTrailingSlash(path) ==
    LET last == SelectLastInSeq(path, LAMBDA c : c # "/")
    IN IF path = <<>> THEN path ELSE IF last = 0 THEN <<"/">> ELSE SubSeq(path, 1, last)

CanonicalizeBestEffort(path) ==
    LET stripped == StripTrailingSlash(path)
    IN IF stripped \in DOMAIN RealPath THEN RealPath[stripped] ELSE stripped

\* Mutant of IsUnderOrEqual: names are not compared as a whole.
IsUnderByText(path, ancestor) == IsPrefix(ancestor, path)

IsUnderOrEqual(path, ancestor) ==
    \/ path = ancestor
    \/ ancestor = <<"/">> /\ Len(path) > 1 /\ path[1] = "/"
    \/ IsPrefix(ancestor \o <<"/">>, path)

\* std::string's order.
Code(c) == CHOOSE i \in DOMAIN CharOrder : CharOrder[i] = c
Less(p, q) ==
    \/ IsStrictPrefix(p, q)
    \/ \E i \in DOMAIN p \cap DOMAIN q :
         SubSeq(p, 1, i - 1) = SubSeq(q, 1, i - 1) /\ Code(p[i]) < Code(q[i])

CollapseRedundantRoots(roots) ==
    LET canonical == SetToSortSeq({CanonicalizeBestEffort(roots[i]) : i \in DOMAIN roots}, Less)
        Step(minimal, candidate) ==
            IF \E i \in DOMAIN minimal : IsUnderOrEqual(candidate, minimal[i]) THEN minimal
            ELSE Append(minimal, candidate)
    IN FoldLeft(Step, <<>>, canonical)

-----------------------------------------------------------------------------
(* Settings.                                                               *)

\* Settings::Load.
Loaded(f) ==
    LET values == ReadKeys(f)
    IN [roots    |-> CollapseRedundantRoots(SplitLines(GetString(values, "SelectedRoots", <<>>))),
        excluded |-> IF "ExcludedPaths" \in DOMAIN values
                     THEN SplitLines(values["ExcludedPaths"]) ELSE DefaultExcludedPaths,
        interval |-> GetInt(values, "ReindexIntervalHours", 48),
        firstRun |-> GetBool(values, "FirstRunComplete", FALSE)]

\* Mutant of Written: the file is not loaded before it is overwritten.
WrittenAnew(f, s) ==
    [k \in Keys |->
        EscapeValue(CASE k = "SelectedRoots"        -> JoinLines(s.roots)
                      [] k = "ExcludedPaths"        -> JoinLines(s.excluded)
                      [] k = "ReindexIntervalHours" -> SetInt(s.interval)
                      [] k = "FirstRunComplete"     -> SetBool(s.firstRun)
                      [] OTHER                      -> ReadKeys(f)[k])]

\* The lines Save puts in the stream. Keys it does not manage are kept.
Written(f, s) ==
    [k \in Keys \cup DOMAIN f |->
        EscapeValue(CASE k = "SelectedRoots"        -> JoinLines(s.roots)
                      [] k = "ExcludedPaths"        -> JoinLines(s.excluded)
                      [] k = "ReindexIntervalHours" -> SetInt(s.interval)
                      [] k = "FirstRunComplete"     -> SetBool(s.firstRun)
                      [] OTHER                      -> ReadKeys(f)[k])]

Nothing == [k \in {} |-> <<>>]

\* What may be on disk of lines that were being written.
CutOff(lines) ==
    UNION {{[j \in whole |-> lines[j]]} \cup
             {[j \in whole \cup {k} |-> IF j = k THEN SubSeq(lines[k], 1, n) ELSE lines[j]] :
                k \in {l \in DOMAIN lines \ whole : lines[l] # <<>>}, n \in 0..1} :
             whole \in SUBSET DOMAIN lines}

-----------------------------------------------------------------------------
(* The dialogs.                                                            *)

\* SettingsDialog::BuildUi: how an interval is shown, and accept: how it is read.
Shown(hours) ==
    CASE hours = 0 -> [manual |-> TRUE, value |-> 48, days |-> FALSE]
      [] hours # 0 /\ hours % 24 = 0 -> [manual |-> FALSE, value |-> hours \div 24, days |-> TRUE]
      [] OTHER -> [manual |-> FALSE, value |-> hours, days |-> FALSE]

\* Mutant of Accepted: the unit is not looked at.
AcceptedHours(field) ==
    IF field.manual THEN 0 ELSE IF field.value <= 0 THEN 48 ELSE field.value

Accepted(field) ==
    LET value == IF field.value <= 0 THEN 48 ELSE field.value
    IN IF field.manual THEN 0 ELSE IF field.days THEN 24 * value ELSE value

\* Mutant of Preselected: every mount the home directory is under.
PreselectedAll(listed) ==
    {p \in {listed[i].mountPoint : i \in DOMAIN listed} : IsUnderOrEqual(HomeDir, p)}

\* The mount points that are checked when the first-run dialog opens.
Preselected(listed) ==
    LET points == {listed[i].mountPoint : i \in DOMAIN listed}
        above  == {p \in points : IsUnderOrEqual(HomeDir, p)}
    IN {p \in above : \A q \in above : Len(q) <= Len(p)}

PopulateMountList(listed) == [i \in DOMAIN listed |-> listed[i].mountPoint]

\* FirstRunDialog::Result, with the interval and the exclusions it opens with.
FirstRunResult(points, checked) ==
    [roots    |-> CollapseRedundantRoots(SelectSeq(points, LAMBDA p : p \in checked)),
     excluded |-> DefaultExcludedPaths,
     interval |-> 48,
     firstRun |-> TRUE]

\* OnAddPath and OnRemovePath: what the list of roots becomes by one of them.
PathLists(roots) ==
    {IF Contains(roots, folder) THEN roots ELSE Append(roots, folder) : folder \in Folders}
      \cup {RemoveAt(roots, i) : i \in DOMAIN roots}

\* OnAddExcluded and OnRemoveExcluded.
ExcludedLists(excluded) ==
    {Append(excluded, folder) : folder \in Folders}
      \cup {RemoveAt(excluded, i) : i \in DOMAIN excluded}

\* accept: every field of the dialog is read, whether it was touched or not.
Result(roots, excluded, field) ==
    [mem EXCEPT !.roots = CollapseRedundantRoots(roots), !.excluded = excluded,
                !.interval = Accepted(field)]

-----------------------------------------------------------------------------
Init ==
    /\ file \in FirstFiles
    /\ phase = "down" /\ mem = Loaded(Nothing) /\ mounts = <<>> /\ stream = Nothing
    /\ edits = 0 /\ faults = 0
    /\ saved = {Loaded(file)} /\ first = file

\* main: the settings are loaded, and the first-run dialog opens unless it was
\* completed.
Start ==
    /\ phase = "down"
    /\ mem' = Loaded(file)
    /\ IF mem'.firstRun THEN phase' = "up" /\ UNCHANGED mounts
       ELSE phase' = "first_run" /\ mounts' \in MountTables
    /\ UNCHANGED <<file, stream, bounds, history>>

\* The dialog is left: cancelled, or accepted with one box toggled or none.
FirstRun ==
    /\ phase = "first_run"
    /\ LET listed == ParseMountInfo(mounts)
           points == PopulateMountList(listed)
       IN \/ phase' = "down" /\ UNCHANGED mem
          \/ /\ phase' = "to_save"
             /\ \E toggled \in {{}} \cup {{p} : p \in ToSet(points)} :
                  mem' = FirstRunResult(points, SymDiff(Preselected(listed), toggled))
    /\ mounts' = <<>>
    /\ UNCHANGED <<file, stream, bounds, history>>

\* ApplySettings with what the Settings dialog was left with: one change.
EditSettings ==
    /\ phase = "up" /\ edits < MaxEdits
    /\ \/ \E roots \in PathLists(mem.roots) :
            mem' = Result(roots, mem.excluded, Shown(mem.interval))
       \/ \E excluded \in ExcludedLists(mem.excluded) :
            mem' = Result(mem.roots, excluded, Shown(mem.interval))
       \/ \E field \in [manual : BOOLEAN, value : Intervals, days : BOOLEAN] :
            mem' = Result(mem.roots, mem.excluded, field)
    /\ phase' = "to_save"
    /\ edits' = edits + 1
    /\ UNCHANGED <<file, mounts, stream, faults, history>>

\* Settings::Save refuses a path with a newline, and fails when the file
\* cannot be opened: the file is untouched, the settings in memory are changed.
SaveRefused ==
    /\ phase = "to_save"
    /\ \/ /\ AnyContainsNewline(mem.roots) \/ AnyContainsNewline(mem.excluded)
          /\ UNCHANGED faults
       \/ /\ faults < MaxFaults
          /\ faults' = faults + 1
    /\ phase' = "up"
    /\ UNCHANGED <<file, mem, mounts, stream, edits, history>>

\* The file is loaded, then truncated; the lines stay in the stream's buffer.
SaveOpens ==
    /\ phase = "to_save"
    /\ ~AnyContainsNewline(mem.roots) /\ ~AnyContainsNewline(mem.excluded)
    /\ stream' = Written(file, mem)
    /\ file' = Nothing
    /\ saved' = {}
    /\ phase' = "saving"
    /\ UNCHANGED <<mem, mounts, bounds, first>>

\* The stream is closed. Save has returned good() by then.
SaveWrites ==
    /\ phase = "saving"
    /\ file' = stream
    /\ saved' = {mem}
    /\ stream' = Nothing
    /\ phase' = "up"
    /\ UNCHANGED <<mem, mounts, bounds, first>>

\* The disk is full when the stream is closed: Save reports success.
SaveCutOff ==
    /\ phase = "saving" /\ faults < MaxFaults
    /\ file' \in CutOff(stream)
    /\ stream' = Nothing
    /\ phase' = "up"
    /\ faults' = faults + 1
    /\ UNCHANGED <<mem, mounts, edits, history>>

\* The window is closed.
Quit ==
    /\ phase = "up"
    /\ phase' = "down"
    /\ mem' = Loaded(Nothing)
    /\ UNCHANGED <<file, mounts, stream, bounds, history>>

\* The program or the machine stops while it saves.
Crash ==
    /\ phase = "saving" /\ faults < MaxFaults
    /\ file' \in CutOff(stream)
    /\ phase' = "down"
    /\ mem' = Loaded(Nothing)
    /\ stream' = Nothing
    /\ faults' = faults + 1
    /\ UNCHANGED <<mounts, edits, history>>

Next == Start \/ FirstRun \/ EditSettings \/ SaveRefused \/ SaveOpens \/ SaveWrites
        \/ SaveCutOff \/ Quit \/ Crash

Spec == Init /\ [][Next]_vars
-----------------------------------------------------------------------------
\* A blank at the end of the last path of a list is lost, with Trim.
TrimLast(lines) ==
    IF lines = <<>> THEN lines ELSE [lines EXCEPT ![Len(lines)] = TrimEnd(@)]

\* Whatever the names of folders hold, and whatever had happened to the file
\* before, the settings that were saved last are those the next start loads,
\* but for blanks at the end of the last path of a list; and until a write is
\* cut off, the keys of other programs are kept (IniFile, Settings::Load and
\* Settings::Save).
SavedIsLoaded ==
    \A s \in saved :
        /\ Loaded(file) = [s EXCEPT !.roots = CollapseRedundantRoots(TrimLast(@)),
                                    !.excluded = TrimLast(@)]
        /\ faults = 0 => \A k \in DOMAIN first \ Keys :
                           k \in DOMAIN file /\ ReadKeys(file)[k] = ReadKeys(first)[k]

\* Opening the Settings dialog and accepting it as it is changes nothing, and
\* the window would not reindex for it (SettingsDialog::BuildUi and accept).
OpeningChangesNothing ==
    phase = "up" => /\ Accepted(Shown(mem.interval)) = mem.interval
                    /\ CollapseRedundantRoots(mem.roots) = mem.roots

\* The names a path leads through.
Names(path) ==
    SelectSeq(SplitLines([i \in DOMAIN path |-> IF path[i] = "/" THEN NL ELSE path[i]]),
              LAMBDA name : name # <<>>)

\* Adding a folder keeps every selected one, and the new one, under a root,
\* and leaves no root under another (CollapseRedundantRoots).
RootsCoverWhatIsChosen ==
    phase = "up" =>
        \A folder \in {f \in Folders : ~Contains(f, NL)} :
            LET new == ToSet(CollapseRedundantRoots(Append(mem.roots, folder)))
                Under(p, r) == IsPrefix(Names(r), Names(p))
            IN /\ \A r \in ToSet(mem.roots) \cup {CanonicalizeBestEffort(folder)} :
                    ~Contains(r, NL) => \E n \in new : Under(r, n)
               /\ \A m, n \in {r \in new : ~Contains(r, NL)} : Under(m, n) => m = n

\* proc(5): blanks and backslashes of a mount point are written in octal.
Encoded(path) ==
    FlattenSeq([i \in DOMAIN path |-> CASE path[i] = " "  -> <<"\\", "0", "4", "0">>
                                         [] path[i] = "\\" -> <<"\\", "1", "3", "4">>
                                         [] OTHER          -> <<path[i]>>])

\* The first-run dialog checks the one mount point whose file system holds the
\* home directory: the innermost real one above it, under the name it has
\* (MountEnumerator::ParseMountInfo, FirstRunDialog::PreselectMounts).
HomeIsPreselected ==
    phase = "first_run" =>
        LET real  == {i \in DOMAIN mounts : /\ Len(mounts[i]) >= 9
                                            /\ ToSet(mounts[i]) \cap {<<t>> : t \in PseudoFsTypes} = {}}
            above == {p \in Prefixes(HomeDir) \cup {<<"/">>} :
                        /\ p = HomeDir \/ p = <<"/">> \/ HomeDir[Len(p) + 1] = "/"
                        /\ \E i \in real : mounts[i][5] = Encoded(p)}
        IN Preselected(ParseMountInfo(mounts)) =
               {p \in above : \A q \in above : IsPrefix(q, p)}
=============================================================================
