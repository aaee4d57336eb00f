----------------------------- MODULE ResultRows -----------------------------
(***************************************************************************)
(* The list of results and what is done with it: ResultModel's rows,       *)
(* ResultView's selection, sort and commands, and MainWindow's background  *)
(* Trash and Delete batches and existence checks.                          *)
(*                                                                         *)
(* A row is an entry: the path of a file and its sort key in each column.  *)
(* The rows of a search come from a small set, in any order of arrivals;   *)
(* the index may list a file twice. Qt shows a path as text: one that is   *)
(* not valid UTF-8 becomes Garbled, which names no file. Row 0 is none.    *)
(***************************************************************************)
EXTENDS Naturals, Sequences, FiniteSets, Functions, SequencesExt

CONSTANTS
    Paths,          \* what may be listed
    Undecodable,    \* those that are not valid UTF-8
    Garbled,        \* the text of each of these
    Columns, kSize, \* the columns, and the one that is sorted descending first
    Lists,          \* the results a search may have
    None,
    MaxInputs       \* bound: what the user does, but for closing the window

Entries == [path : Paths, key : [Columns -> Nat]]

ASSUME PathsAssumption == Undecodable \subseteq Paths /\ Garbled \notin Paths /\ None \notin Paths
ASSUME ColumnsAssumption == kSize \in Columns /\ None \notin Columns
ASSUME ListsAssumption == Lists \subseteq Seq(Entries)
ASSUME BoundAssumption == MaxInputs \in Nat

VARIABLES
    entries, pendingPaths,                  \* ResultModel
    section, order, lastSortedColumn,       \* the header's indicator; ResultView
    selected, currentRow,                   \* the selection model
    menuPath, confirming,                   \* the context menu and the delete box that are open
    verbs,                                  \* pendingOperationVerbs_
    jobs,                                   \* IndexService: the batches to perform
    disk,                                   \* the files there are
    reports,                                \* posted by the service, not handled yet
    checks, lockedBy, alive,                \* OpenPath's threads and liveness_
    window,                                 \* "open", "closing" or "destroyed"
    inputs,                                 \* what MaxInputs bounds
    \* Read by the properties only.
    chosen, chosenCurrent,                  \* the texts the user selected, and made current
    twice                                   \* texts in two batches at a time

model     == <<entries, pendingPaths>>
header    == <<section, order, lastSortedColumn>>
selection == <<selected, currentRow, chosen, chosenCurrent>>
boxes     == <<menuPath, confirming>>
batches   == <<verbs, jobs, twice>>
opening   == <<checks, lockedBy, alive>>

vars == <<model, header, selection, boxes, batches, reports, disk, opening, window, inputs>>

Rows == DOMAIN entries

\* FullPathForRow: by way of a QString; empty for a row there is not.
AsText(path) == IF path \in Undecodable THEN Garbled ELSE path

FullPathForRow(row) == IF row \in Rows THEN AsText(entries[row].path) ELSE None

SelectedFullPaths == {FullPathForRow(row) : row \in selected}

CurrentPath == FullPathForRow(currentRow)

SelectedFullPathsOrCurrent ==
    IF selected # {} THEN SelectedFullPaths ELSE {CurrentPath} \ {None}

\* ResultModel::IsPending compares the bytes of the path.
IsPending(row) == entries[row].path \in pendingPaths

-----------------------------------------------------------------------------
(* ResultModel and ResultView.                                             *)

\* std::sort: what is equal comes in any order. Names and paths are keys
\* without their case.
Before(e, f, column, direction) ==
    IF direction = "ascending" THEN e.key[column] < f.key[column] ELSE f.key[column] < e.key[column]

InOrder(rows, column, direction) ==
    \A i, j \in DOMAIN rows : i < j => ~Before(rows[j], rows[i], column, direction)

Sorted(rows, column, direction) ==
    {s \in {[i \in DOMAIN rows |-> rows[f[i]]] : f \in Bijection(DOMAIN rows, DOMAIN rows)} :
        InOrder(s, column, direction)}

\* The model's reset, on SetEntries and sort, clears the selection.
Deselected == selected' = {} /\ currentRow' = 0

Chosen(texts, current) == chosen' = texts /\ chosenCurrent' = current

\* The rows of texts; of two rows with one text, the later.
RowsFor(rows, texts) ==
    {row \in DOMAIN rows : /\ AsText(rows[row].path) \in texts
                           /\ \A i \in DOMAIN rows :
                                  AsText(rows[i].path) = AsText(rows[row].path) => i <= row}

\* Mutant of RestoreSelection: the rows that were selected are selected.
RestoreRows(rows) ==
    /\ selected' = selected \cap DOMAIN rows
    /\ currentRow' = IF currentRow \in DOMAIN rows THEN currentRow ELSE 0

\* SnapshotSelection before the rows are replaced, and RestoreSelection after.
RestoreSelection(rows) ==
    /\ selected' = RowsFor(rows, SelectedFullPaths)
    /\ currentRow' \in IF RowsFor(rows, {CurrentPath}) = {} THEN {0} ELSE RowsFor(rows, {CurrentPath})

Texts(rows) == {AsText(rows[row].path) : row \in DOMAIN rows}

\* The rows of a result list: sorted again by what the header shows, if it
\* shows anything.
Displayed(list) == IF section = None THEN {list} ELSE Sorted(list, section, order)

\* ResultsReady; preserve, if the index has changed and not the query.
ResultsReady(list, preserve) ==
    /\ window = "open"
    /\ entries' \in Displayed(list)
    /\ IF preserve
       THEN /\ RestoreSelection(entries')
            /\ Chosen(chosen \cap Texts(entries'),
                      IF chosenCurrent \in Texts(entries') THEN chosenCurrent ELSE None)
       ELSE Deselected /\ Chosen({}, None)
    /\ UNCHANGED <<pendingPaths, header, boxes, batches, reports, disk, opening, window, inputs>>

SearchCleared ==
    /\ window = "open"
    /\ entries' = <<>>
    /\ Deselected /\ Chosen({}, None)
    /\ UNCHANGED <<pendingPaths, header, boxes, batches, reports, disk, opening, window, inputs>>

-----------------------------------------------------------------------------
(* The user. The delete box is modal, and an open menu grabs the input.    *)

Input ==
    /\ window = "open" /\ inputs < MaxInputs
    /\ inputs' = inputs + 1
    /\ UNCHANGED <<disk, reports, window, lockedBy, alive>>

OnRows == Input /\ menuPath = None /\ confirming = {}

noRequest == <<pendingPaths, batches, checks>>

Click(row) ==
    /\ OnRows /\ row \in Rows
    /\ selected' = {row} /\ currentRow' = row
    /\ Chosen({FullPathForRow(row)}, FullPathForRow(row))
    /\ UNCHANGED <<entries, header, boxes, noRequest>>

CtrlClick(row) ==
    /\ OnRows /\ row \in Rows
    /\ selected' = (selected \cup {row}) \ (selected \cap {row}) /\ currentRow' = row
    /\ Chosen({FullPathForRow(r) : r \in selected'}, FullPathForRow(row))
    /\ UNCHANGED <<entries, header, boxes, noRequest>>

\* The arrow keys in the search box: the first row, if there is no current one.
NavigateResults ==
    /\ OnRows /\ Rows # {} /\ currentRow = 0
    /\ selected' = {1} /\ currentRow' = 1
    /\ Chosen({FullPathForRow(1)}, FullPathForRow(1))
    /\ UNCHANGED <<entries, header, boxes, noRequest>>

\* A click in the header flips the indicator or begins ascending; then
\* OnHeaderClicked turns it round on the size column, if that is new.
HeaderClick(column) ==
    /\ OnRows
    /\ section' = column
    /\ LET first   == column = kSize /\ lastSortedColumn # kSize
           flipped == column = section /\ order = "ascending"
       IN  order' = IF first \/ flipped THEN "descending" ELSE "ascending"
    /\ lastSortedColumn' = column
    /\ entries' \in Sorted(entries, column, order')
    /\ Deselected /\ Chosen({}, None)
    /\ UNCHANGED <<boxes, noRequest>>

\* OpenPath: a thread of its own looks for the file.
OpenPath(path) ==
    /\ checks' = checks \cup {[thread |-> inputs, path |-> path, stage |-> "stat"]}
    /\ UNCHANGED <<pendingPaths, batches>>

\* Enter opens one selected row, or the current one when none is.
EnterKey ==
    /\ OnRows /\ Cardinality(selected) <= 1
    /\ \E path \in SelectedFullPathsOrCurrent : OpenPath(path)
    /\ UNCHANGED <<entries, header, selection, boxes>>

\* BuildContextMenu: Open is about the path that is selected or current now.
ContextMenu ==
    /\ OnRows /\ Rows # {}
    /\ IF selected = {} THEN menuPath' = CurrentPath /\ CurrentPath # None
                        ELSE menuPath' \in SelectedFullPaths
    /\ UNCHANGED <<entries, header, selection, confirming, noRequest>>

MenuOpen ==
    /\ Input /\ menuPath # None
    /\ menuPath' = None
    /\ OpenPath(menuPath)
    /\ UNCHANGED <<entries, header, selection, confirming>>

-----------------------------------------------------------------------------
(* MainWindow: Trash and Delete.                                           *)

\* The batches that are not reported yet, in the order they will be: first
\* those that are performed, and whose report is posted.
Outstanding == reports \o jobs

OutstandingPaths == UNION {batch.paths : batch \in Range(Outstanding)}

RunFileOperations(type, paths) ==
    /\ pendingPaths' = pendingPaths \cup paths
    /\ verbs' = Append(verbs, type)
    /\ jobs' = Append(jobs, [type |-> type, paths |-> paths])
    /\ twice' = twice \cup (paths \cap OutstandingPaths)
    /\ UNCHANGED checks

TrashKey ==
    /\ OnRows /\ SelectedFullPathsOrCurrent # {}
    /\ RunFileOperations("trash", SelectedFullPathsOrCurrent)
    /\ UNCHANGED <<entries, header, selection, boxes>>

\* Shift+Delete asks first, about the paths of the moment ...
DeleteKey ==
    /\ OnRows /\ SelectedFullPathsOrCurrent # {}
    /\ confirming' = SelectedFullPathsOrCurrent
    /\ UNCHANGED <<entries, header, selection, menuPath, noRequest>>

\* ... and deletes those, whatever is listed by then.
Answer(yes) ==
    /\ Input /\ confirming # {}
    /\ confirming' = {}
    /\ IF yes THEN RunFileOperations("delete", confirming) ELSE UNCHANGED noRequest
    /\ UNCHANGED <<entries, header, selection, menuPath>>

\* IndexService's file operations thread: some of the paths are not there, or
\* cannot be removed.
Perform ==
    /\ jobs # <<>>
    /\ \E succeeded \in SUBSET (Head(jobs).paths \cap disk) :
           /\ disk' = disk \ succeeded
           /\ reports' = Append(reports, [type |-> Head(jobs).type, paths |-> Head(jobs).paths,
                                          succeeded |-> succeeded])
    /\ jobs' = Tail(jobs)
    /\ UNCHANGED <<model, header, selection, boxes, verbs, twice, opening, window, inputs>>

\* Mutant of OnFileOperationsFinished: what failed stays grey.
FinishedForgetsFailed(report) ==
    /\ pendingPaths' = pendingPaths \ report.succeeded
    /\ verbs' = Tail(verbs)

\* Mutant of OnFileOperationsFinished: the verb of the last batch is taken.
FinishedLastVerb(report) ==
    /\ pendingPaths' = pendingPaths \ report.paths
    /\ verbs' = Front(verbs)

\* Succeeded or failed, a path is not pending any more. Failures are shown
\* with the verb at the head of the queue.
OnFileOperationsFinished(report) ==
    /\ pendingPaths' = pendingPaths \ report.paths
    /\ verbs' = Tail(verbs)

\* The GUI thread takes the next report.
HandleReport ==
    /\ window = "open" /\ reports # <<>>
    /\ reports' = Tail(reports)
    /\ OnFileOperationsFinished(Head(reports))
    /\ UNCHANGED <<entries, header, selection, boxes, jobs, twice, disk, opening, window, inputs>>

-----------------------------------------------------------------------------
(* OpenPath's threads, which nobody waits for, and the end of the window.  *)
(* The call they post, OnOpenPathChecked, opens the file or offers to      *)
(* rebuild the index: it changes nothing here, and only its posting is     *)
(* modelled.                                                               *)

notThread == <<model, header, selection, boxes, batches, reports, disk, alive, window, inputs>>

Become(c, d) == checks' = (checks \ {c}) \cup {d}

Stat(c) ==
    /\ c.stage = "stat"
    /\ Become(c, [c EXCEPT !.stage = "checking"])
    /\ UNCHANGED <<notThread, lockedBy>>

\* Mutant of CheckAlive: without the mutex.
CheckAliveUnlocked(c) ==
    /\ c.stage = "checking"
    /\ IF alive THEN Become(c, [c EXCEPT !.stage = "posting"]) ELSE checks' = checks \ {c}
    /\ UNCHANGED <<notThread, lockedBy>>

CheckAlive(c) ==
    /\ c.stage = "checking" /\ lockedBy = {}
    /\ IF alive
       THEN Become(c, [c EXCEPT !.stage = "posting"]) /\ lockedBy' = {c.thread}
       ELSE checks' = checks \ {c} /\ UNCHANGED lockedBy
    /\ UNCHANGED notThread

PostChecked(c) ==
    /\ c.stage = "posting"
    /\ checks' = checks \ {c} /\ lockedBy' = {}
    /\ UNCHANGED notThread

notClosing == <<model, header, selection, boxes, batches, disk, checks, lockedBy, inputs>>

Close ==
    /\ window = "open" /\ confirming = {} /\ menuPath = None
    /\ window' = "closing"
    /\ UNCHANGED <<notClosing, alive, reports>>

\* ~MainWindow: the service has performed every batch; under the mutex.
ClearAlive ==
    /\ window = "closing" /\ alive /\ jobs = <<>> /\ lockedBy = {}
    /\ alive' = FALSE
    /\ UNCHANGED <<notClosing, reports, window>>

\* ~QObject takes back the calls that are posted to the window.
Destroy ==
    /\ window = "closing" /\ ~alive
    /\ window' = "destroyed" /\ reports' = <<>>
    /\ UNCHANGED <<notClosing, alive>>

-----------------------------------------------------------------------------
\* SetResultModel clears the indicator: rows are in the order of the engine.
Init ==
    /\ entries = <<>> /\ pendingPaths = {}
    /\ section = None /\ order = "ascending" /\ lastSortedColumn = None
    /\ selected = {} /\ currentRow = 0 /\ chosen = {} /\ chosenCurrent = None
    /\ menuPath = None /\ confirming = {}
    /\ verbs = <<>> /\ jobs = <<>> /\ twice = {}
    /\ disk \in SUBSET Paths
    /\ checks = {} /\ lockedBy = {} /\ alive = TRUE
    /\ reports = <<>> /\ window = "open" /\ inputs = 0

User ==
    \/ \E row \in Rows : Click(row) \/ CtrlClick(row)
    \/ \E column \in Columns : HeaderClick(column)
    \/ NavigateResults \/ EnterKey \/ ContextMenu \/ MenuOpen
    \/ TrashKey \/ DeleteKey \/ \E yes \in BOOLEAN : Answer(yes)
    \/ Close

Search == SearchCleared \/ \E list \in Lists, preserve \in BOOLEAN : ResultsReady(list, preserve)

Thread(c) == Stat(c) \/ CheckAlive(c) \/ PostChecked(c)

Gone == window = "destroyed" /\ checks = {} /\ UNCHANGED vars

Next ==
    \/ Gone
    \/ User \/ Search \/ Perform \/ HandleReport \/ ClearAlive \/ Destroy
    \/ \E c \in checks : Thread(c)

Spec == Init /\ [][Next]_vars

-----------------------------------------------------------------------------
(* Properties.                                                             *)

\* The selection is of files, although Qt keeps it by row: however often the
\* rows are replaced, sorted again or listed twice, what is selected and
\* current, and so what a key would move to Trash, is what the user selected
\* and is still listed.
SelectionFollowsFiles ==
    SelectedFullPaths = chosen /\ CurrentPath = chosenCurrent

\* A row is grey exactly while its file waits to be moved or deleted, through
\* every refresh. The first of two batches with a path takes the grey away,
\* and the row of a path that is not valid UTF-8 is never grey.
GreyWhileOutstanding ==
    window = "open" =>
        \A row \in Rows : entries[row].path \notin twice \cup Undecodable =>
            (IsPending(row) <=> entries[row].path \in OutstandingPaths)

\* "Batches finish in the order they were requested" (MainWindow.cpp), so that
\* the report of a failed batch has the verb of that batch and not of another.
VerbsMatchBatches ==
    window = "open" => verbs = [i \in DOMAIN Outstanding |-> Outstanding[i].type]

\* No thread that looks for a file calls into a window that is gone.
NoCallAfterDestroy == \A c \in checks : c.stage = "posting" => window # "destroyed"
=============================================================================
