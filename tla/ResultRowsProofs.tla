------------------------- MODULE ResultRowsProofs -------------------------
(***************************************************************************)
(* For any paths, result lists and number of inputs: the selection follows *)
(* its files, the verbs their batches, a row is grey while its file is in  *)
(* a batch, and no thread calls into a window that is gone.                *)
(***************************************************************************)
EXTENDS ResultRows, SequenceTheorems, WellFoundedInduction, TLAPS

-----------------------------------------------------------------------------
(* The invariant.                                                          *)

AllTexts == Paths \cup {Garbled}

Verbs == {"trash", "delete"}

TypeOK ==
    /\ entries \in Seq(Entries) /\ pendingPaths \subseteq AllTexts
    /\ selected \subseteq Rows /\ currentRow \in Rows \cup {0}
    /\ menuPath \in AllTexts \cup {None} /\ confirming \subseteq AllTexts
    /\ jobs \in Seq([type : Verbs, paths : SUBSET AllTexts])
    /\ reports \in Seq([type : Verbs, paths : SUBSET AllTexts, succeeded : SUBSET AllTexts])
    /\ twice \subseteq AllTexts
    /\ disk \subseteq Paths
    /\ checks \subseteq [thread : Nat, path : AllTexts, stage : {"stat", "checking", "posting"}]
    /\ lockedBy \subseteq Nat /\ alive \in BOOLEAN /\ inputs \in Nat
    /\ window \in {"open", "closing", "destroyed"}

\* Who is about to call has seen the window alive and holds the mutex, alone.
LockInv ==
    /\ \A c, d \in checks : c.thread = d.thread => c = d
    /\ \A c \in checks : c.thread < inputs
    /\ \A c \in checks : c.stage = "posting" => alive /\ lockedBy = {c.thread}
    /\ window = "destroyed" => ~alive

\* A path is in one batch unless it has been in two.
BatchInv ==
    \A i, j \in DOMAIN Outstanding :
        i # j => Outstanding[i].paths \cap Outstanding[j].paths \subseteq twice

PendingInv ==
    window = "open" =>
        \A text \in AllTexts \ twice : text \in pendingPaths <=> text \in OutstandingPaths

IInv == TypeOK /\ LockInv /\ BatchInv /\ PendingInv /\ VerbsMatchBatches /\ SelectionFollowsFiles

-----------------------------------------------------------------------------
(* Sequences.                                                              *)

\* What sorting or replacing the rows displays is a list of entries again.
LEMMA SortedIsSeq ==
    ASSUME NEW rows \in Seq(Entries), NEW column, NEW direction,
           NEW s \in Sorted(rows, column, direction)
    PROVE  s \in Seq(Entries)
<1>1. PICK f \in Bijection(DOMAIN rows, DOMAIN rows) : s = [i \in DOMAIN rows |-> rows[f[i]]]
  BY DEF Sorted
<1>2. f \in [DOMAIN rows -> DOMAIN rows]
  BY DEF Bijection, Injection
<1>3. DOMAIN rows = 1..Len(rows) /\ Len(rows) \in Nat /\ \A i \in DOMAIN rows : rows[i] \in Entries
  OBVIOUS
<1>4. s \in [1..Len(rows) -> Entries]
  BY <1>1, <1>2, <1>3
<1> QED
  BY <1>3, <1>4, SeqDef

\* A list over some set is one over a larger set, and is determined by its
\* length and elements.
LEMMA LargerSeq ==
    ASSUME NEW S, NEW T, S \subseteq T, NEW s \in Seq(S)
    PROVE  s \in Seq(T)
<1>1. Len(s) \in Nat /\ s \in [1..Len(s) -> S]
  BY LenProperties
<1>2. s \in [1..Len(s) -> T]
  BY <1>1
<1> QED
  BY <1>1, <1>2, SeqDef

LEMMA AppendTo ==
    ASSUME NEW S, NEW s \in Seq(S), NEW x \in S
    PROVE  Append(s, x) = [i \in 1..(Len(s) + 1) |-> IF i = Len(s) + 1 THEN x ELSE s[i]]
<1>1. Len(s) \in Nat /\ Append(s, x) \in Seq(S) /\ Len(Append(s, x)) = Len(s) + 1
  BY LenProperties, AppendProperties
<1>2. Append(s, x) \in [1..(Len(s) + 1) -> S]
  BY <1>1, LenProperties
<1>3. \A i \in 1..(Len(s) + 1) : Append(s, x)[i] = IF i = Len(s) + 1 THEN x ELSE s[i]
  BY <1>1, AppendProperties
<1> QED
  BY <1>2, <1>3

LEMMA TailFrom ==
    ASSUME NEW S, NEW s \in Seq(S), s # <<>>
    PROVE  Tail(s) = [i \in 1..(Len(s) - 1) |-> s[i + 1]]
<1>1. Tail(s) \in [1..(Len(s) - 1) -> S]
  BY HeadTailProperties, LenProperties
<1>2. \A i \in 1..(Len(s) - 1) : Tail(s)[i] = s[i + 1]
  BY HeadTailProperties
<1> QED
  BY <1>1, <1>2

\* A list of batches after one is queued.
LEMMA QueuedBatch ==
    ASSUME NEW S, NEW r \in Seq(S), NEW q \in Seq(S), NEW b \in S
    PROVE  /\ r \o Append(q, b) \in Seq(S)
           /\ Len(r \o Append(q, b)) = Len(r \o q) + 1
           /\ \A i \in DOMAIN (r \o q) : (r \o Append(q, b))[i] = (r \o q)[i]
           /\ (r \o Append(q, b))[Len(r \o q) + 1] = b
  OBVIOUS

\* A list of batches after the first is handled.
LEMMA HandledBatch ==
    ASSUME NEW S, NEW r \in Seq(S), r # <<>>, NEW q \in Seq(S)
    PROVE  Tail(r) \o q = Tail(r \o q)
  OBVIOUS

\* Of a set of rows that is not empty, one is the last.
LEMMA LastRow ==
    ASSUME NEW n \in Nat, NEW S \in SUBSET (1..n), S # {}
    PROVE  \E row \in S : \A i \in S : i <= row
<1> DEFINE T == {n - row : row \in S}
<1>1. T \subseteq Nat /\ T # {}
  <2>1. \A row \in S : n - row \in Nat
    OBVIOUS
  <2>2. PICK row \in S : TRUE
    OBVIOUS
  <2>3. n - row \in T
    OBVIOUS
  <2> QED
    BY <2>1, <2>3
<1>2. PICK x \in T : \A y \in T : ~ (<<y, x>> \in OpToRel(<, Nat))
  BY <1>1, NatLessThanWellFounded, WFMin
<1>3. PICK row \in S : x = n - row
  OBVIOUS
<1>4. ASSUME NEW i \in S
      PROVE  i <= row
  <2>1. n - i \in T /\ n - i \in Nat /\ x \in Nat
    BY <1>1
  <2>2. ~ (n - i < x)
    BY <1>2, <2>1 DEF OpToRel
  <2> QED
    BY <1>3, <2>2
<1> QED
  BY <1>4

-----------------------------------------------------------------------------
(* The selection.                                                          *)

\* RowsFor gives one row for each text that is listed, and no other.
LEMMA RowsForTexts ==
    ASSUME NEW rows \in Seq(Entries), NEW texts
    PROVE  /\ RowsFor(rows, texts) \subseteq DOMAIN rows
           /\ {AsText(rows[row].path) : row \in RowsFor(rows, texts)} = texts \cap Texts(rows)
<1>1. RowsFor(rows, texts) \subseteq DOMAIN rows
  BY DEF RowsFor
<1>2. ASSUME NEW row \in RowsFor(rows, texts)
      PROVE  AsText(rows[row].path) \in texts \cap Texts(rows)
  BY <1>2 DEF RowsFor, Texts
<1>3. ASSUME NEW text \in texts \cap Texts(rows)
      PROVE  \E row \in RowsFor(rows, texts) : text = AsText(rows[row].path)
  <2> DEFINE S == {i \in DOMAIN rows : AsText(rows[i].path) = text}
  <2>1. S # {} /\ S \subseteq 1..Len(rows) /\ Len(rows) \in Nat
    BY DEF Texts
  <2>2. PICK row \in S : \A i \in S : i <= row
    BY <2>1, LastRow
  <2>3. row \in RowsFor(rows, texts)
    BY <2>2 DEF RowsFor
  <2> QED
    BY <2>2, <2>3
<1> QED
  BY <1>1, <1>2, <1>3

\* What is selected now, in the rows that are listed next.
LEMMA SelectionNow ==
    ASSUME TypeOK
    PROVE  /\ SelectedFullPaths = {AsText(entries[row].path) : row \in selected}
           /\ CurrentPath = IF currentRow = 0 THEN None ELSE AsText(entries[currentRow].path)
           /\ SelectedFullPaths \subseteq AllTexts
           /\ SelectedFullPathsOrCurrent \subseteq AllTexts
           /\ CurrentPath \in AllTexts \cup {None}
<1>1. \A row \in Rows : /\ FullPathForRow(row) = AsText(entries[row].path)
                        /\ FullPathForRow(row) \in AllTexts
  <2>1. \A row \in Rows : entries[row] \in Entries
    BY DEF TypeOK, Rows
  <2> QED
    BY <2>1 DEF FullPathForRow, AsText, AllTexts, Entries
<1>2. selected \subseteq Rows /\ currentRow \in Rows \cup {0} /\ 0 \notin Rows
  BY DEF TypeOK, Rows
<1>3. FullPathForRow(0) = None
  BY <1>2 DEF FullPathForRow
<1> QED
  BY <1>1, <1>2, <1>3 DEF SelectedFullPaths, CurrentPath, SelectedFullPathsOrCurrent

LEMMA SelectionThen ==
    ASSUME TypeOK'
    PROVE  /\ SelectedFullPaths' = {AsText(entries'[row].path) : row \in selected'}
           /\ CurrentPath' = IF currentRow' = 0 THEN None ELSE AsText(entries'[currentRow'].path)
<1>1. \A row \in Rows' : FullPathForRow(row)' = AsText(entries'[row].path)
  BY DEF FullPathForRow, Rows
<1>2. selected' \subseteq Rows' /\ currentRow' \in Rows' \cup {0} /\ 0 \notin Rows'
  BY DEF TypeOK, Rows
<1>3. FullPathForRow(0)' = None
  BY <1>2 DEF FullPathForRow, Rows
<1> QED
  BY <1>1, <1>2, <1>3 DEF SelectedFullPaths, CurrentPath

-----------------------------------------------------------------------------
(* Types.                                                                  *)

LEMMA TypeInit == Init => TypeOK
  BY PathsAssumption DEF Init, TypeOK, Rows

LEMMA TypeStep == TypeOK /\ [Next]_vars => TypeOK'
<1> SUFFICES ASSUME TypeOK, [Next]_vars
             PROVE  TypeOK'
  OBVIOUS
<1> USE DEF TypeOK, Rows, model, header, selection, boxes, batches, opening
<1>1. CASE UNCHANGED vars \/ Gone
  BY <1>1 DEF vars, Gone
<1>2. ASSUME NEW row \in Rows, Click(row) \/ CtrlClick(row)
      PROVE  TypeOK'
  BY <1>2 DEF Click, CtrlClick, OnRows, Input, noRequest
<1>3. ASSUME NEW column \in Columns, HeaderClick(column)
      PROVE  TypeOK'
  <2>1. entries' \in Seq(Entries)
    BY <1>3, SortedIsSeq DEF HeaderClick
  <2> QED
    BY <1>3, <2>1 DEF HeaderClick, OnRows, Input, noRequest, Deselected
<1>4. CASE NavigateResults
  <2>1. 1 \in DOMAIN entries
    BY <1>4 DEF NavigateResults
  <2> QED
    BY <1>4, <2>1 DEF NavigateResults, OnRows, Input, noRequest
<1>5. CASE EnterKey
  <2>1. PICK path \in AllTexts : OpenPath(path)
    BY <1>5, SelectionNow DEF EnterKey
  <2>2. checks' \subseteq [thread : Nat, path : AllTexts, stage : {"stat", "checking", "posting"}]
    BY <2>1 DEF OpenPath
  <2> QED
    BY <1>5, <2>1, <2>2 DEF EnterKey, OpenPath, OnRows, Input
<1>6. CASE ContextMenu
  <2>1. menuPath' \in AllTexts \cup {None}
    BY <1>6, SelectionNow DEF ContextMenu
  <2> QED
    BY <1>6, <2>1 DEF ContextMenu, OnRows, Input, noRequest
<1>7. CASE MenuOpen
  <2>1. checks' \subseteq [thread : Nat, path : AllTexts, stage : {"stat", "checking", "posting"}]
    BY <1>7 DEF MenuOpen, OpenPath
  <2> QED
    BY <1>7, <2>1 DEF MenuOpen, OpenPath, Input
<1>8. ASSUME NEW type \in Verbs, NEW paths \in SUBSET AllTexts, RunFileOperations(type, paths)
      PROVE  /\ jobs' \in Seq([type : Verbs, paths : SUBSET AllTexts])
             /\ pendingPaths' \subseteq AllTexts /\ twice' \subseteq AllTexts /\ checks' = checks
  BY <1>8 DEF RunFileOperations
<1>9. CASE TrashKey
  <2>1. RunFileOperations("trash", SelectedFullPathsOrCurrent) /\ "trash" \in Verbs
    BY <1>9 DEF TrashKey, Verbs
  <2>2. /\ jobs' \in Seq([type : Verbs, paths : SUBSET AllTexts])
        /\ pendingPaths' \subseteq AllTexts /\ twice' \subseteq AllTexts /\ checks' = checks
    BY <1>8, <2>1, SelectionNow
  <2> QED
    BY <1>9, <2>2 DEF TrashKey, OnRows, Input
<1>10. CASE DeleteKey
  <2>1. confirming' \subseteq AllTexts
    BY <1>10, SelectionNow DEF DeleteKey
  <2> QED
    BY <1>10, <2>1 DEF DeleteKey, OnRows, Input, noRequest
<1>11. ASSUME NEW yes \in BOOLEAN, Answer(yes)
       PROVE  TypeOK'
  <2>1. CASE yes
    <3>1. RunFileOperations("delete", confirming) /\ "delete" \in Verbs
      BY <1>11, <2>1 DEF Answer, Verbs
    <3>2. /\ jobs' \in Seq([type : Verbs, paths : SUBSET AllTexts])
          /\ pendingPaths' \subseteq AllTexts /\ twice' \subseteq AllTexts /\ checks' = checks
      BY <1>8, <3>1
    <3> QED
      BY <1>11, <3>2 DEF Answer, Input
  <2>2. CASE ~yes
    BY <1>11, <2>2 DEF Answer, Input, noRequest
  <2> QED
    BY <2>1, <2>2
<1>12. CASE SearchCleared
  BY <1>12 DEF SearchCleared, Deselected
<1>13. ASSUME NEW list \in Lists, NEW preserve \in BOOLEAN, ResultsReady(list, preserve)
       PROVE  TypeOK'
  <2>1. entries' \in Seq(Entries)
    BY <1>13, SortedIsSeq, ListsAssumption DEF ResultsReady, Displayed
  <2>2. selected' \subseteq Rows' /\ currentRow' \in Rows' \cup {0}
    BY <1>13, <2>1, RowsForTexts DEF ResultsReady, RestoreSelection, Deselected
  <2> QED
    BY <1>13, <2>1, <2>2 DEF ResultsReady
<1>14. CASE Perform
  <2>1. PICK succeeded \in SUBSET (Head(jobs).paths \cap disk) :
          /\ disk' = disk \ succeeded
          /\ reports' = Append(reports, [type |-> Head(jobs).type, paths |-> Head(jobs).paths,
                                         succeeded |-> succeeded])
    BY <1>14 DEF Perform
  <2>2. Head(jobs) \in [type : Verbs, paths : SUBSET AllTexts]
    <3>1. jobs # <<>> /\ jobs \in Seq([type : Verbs, paths : SUBSET AllTexts])
      BY <1>14 DEF Perform
    <3> HIDE DEF TypeOK
    <3> QED
      BY <3>1, HeadTailProperties
  <2>5. succeeded \subseteq AllTexts
    BY DEF AllTexts
  <2>3. reports' \in Seq([type : Verbs, paths : SUBSET AllTexts, succeeded : SUBSET AllTexts])
    BY <2>1, <2>2, <2>5
  <2>4. jobs' \in Seq([type : Verbs, paths : SUBSET AllTexts])
    BY <1>14 DEF Perform
  <2> QED
    BY <1>14, <2>1, <2>3, <2>4 DEF Perform
<1>15. CASE HandleReport
  <2>1. reports' \in Seq([type : Verbs, paths : SUBSET AllTexts, succeeded : SUBSET AllTexts])
    BY <1>15 DEF HandleReport
  <2> QED
    BY <1>15, <2>1 DEF HandleReport, OnFileOperationsFinished
<1>16. CASE Close \/ ClearAlive \/ Destroy
  <2>1. CASE Close
    BY <2>1 DEF Close, notClosing
  <2>2. CASE ClearAlive
    BY <2>2 DEF ClearAlive, notClosing
  <2>3. CASE Destroy
    BY <2>3 DEF Destroy, notClosing
  <2> QED
    BY <1>16, <2>1, <2>2, <2>3
<1>17. ASSUME NEW c \in checks, Thread(c)
       PROVE  TypeOK'
  <2> DEFINE Checks == [thread : Nat, path : AllTexts, stage : {"stat", "checking", "posting"}]
  <2>1. c \in Checks /\ checks \subseteq Checks
    OBVIOUS
  <2>2. \A stage \in {"stat", "checking", "posting"} : [c EXCEPT !.stage = stage] \in Checks
    BY <2>1
  <2>3. checks' \subseteq checks \cup {[c EXCEPT !.stage = "checking"], [c EXCEPT !.stage = "posting"]}
    BY <1>17 DEF Thread, Stat, CheckAlive, PostChecked, Become
  <2>4. checks' \subseteq Checks
    BY <2>1, <2>2, <2>3
  <2>5. lockedBy' \subseteq Nat
    BY <1>17 DEF Thread, Stat, CheckAlive, PostChecked
  <2> QED
    BY <1>17, <2>4, <2>5 DEF Thread, Stat, CheckAlive, PostChecked, notThread
<1> QED
  BY <1>1, <1>2, <1>3, <1>4, <1>5, <1>6, <1>7, <1>9, <1>10, <1>11, <1>12, <1>13, <1>14, <1>15,
     <1>16, <1>17 DEF Next, User, Search, Rows

-----------------------------------------------------------------------------
(* The mutex of OpenPath's threads.                                        *)

LEMMA LockStep == TypeOK /\ LockInv /\ [Next]_vars => LockInv'
<1> SUFFICES ASSUME TypeOK, LockInv, [Next]_vars
             PROVE  LockInv'
  OBVIOUS
<1> USE DEF LockInv, model, header, selection, boxes, batches, opening
<1>1. CASE UNCHANGED <<checks, lockedBy, alive, window, inputs>>
  BY <1>1
<1>2. CASE User
  <2>1. CASE Close
    BY <2>1 DEF Close, notClosing
  <2>2. ASSUME NEW path, OpenPath(path), Input
        PROVE  LockInv'
    <3>1. checks' = checks \cup {[thread |-> inputs, path |-> path, stage |-> "stat"]}
      BY <2>2 DEF OpenPath
    <3>2. inputs' = inputs + 1 /\ UNCHANGED <<lockedBy, alive, window>>
      BY <2>2 DEF Input
    <3>3. \A c \in checks : c.thread \in Nat /\ inputs \in Nat
      BY DEF TypeOK
    <3> QED
      BY <3>1, <3>2, <3>3 DEF TypeOK
  <2>3. CASE EnterKey \/ MenuOpen
    BY <2>2, <2>3 DEF EnterKey, MenuOpen, OnRows
  <2>4. ASSUME Input, checks' = checks
        PROVE  LockInv'
    <3>1. inputs' = inputs + 1 /\ UNCHANGED <<lockedBy, alive, window>>
      BY <2>4 DEF Input
    <3>2. \A c \in checks : c.thread \in Nat /\ inputs \in Nat
      BY DEF TypeOK
    <3> QED
      BY <2>4, <3>1, <3>2
  <2>5. CASE TrashKey
    BY <2>4, <2>5 DEF TrashKey, OnRows, RunFileOperations
  <2>6. ASSUME NEW yes \in BOOLEAN, Answer(yes)
        PROVE  LockInv'
    BY <2>4, <2>6 DEF Answer, RunFileOperations, noRequest
  <2>7. CASE \/ \E row \in Rows : Click(row) \/ CtrlClick(row)
             \/ \E column \in Columns : HeaderClick(column)
             \/ NavigateResults \/ ContextMenu \/ DeleteKey
    BY <2>4, <2>7 DEF Click, CtrlClick, HeaderClick, NavigateResults, ContextMenu, DeleteKey,
                      OnRows, noRequest
  <2> QED
    BY <1>2, <2>1, <2>3, <2>5, <2>6, <2>7 DEF User
<1>3. CASE Search \/ Perform \/ HandleReport \/ Gone
  BY <1>1, <1>3 DEF Search, SearchCleared, ResultsReady, Perform, HandleReport, Gone, vars
<1>4. CASE ClearAlive
  BY <1>4 DEF ClearAlive, notClosing
<1>5. CASE Destroy
  BY <1>5 DEF Destroy, notClosing
<1>6. ASSUME NEW c \in checks, Thread(c)
      PROVE  LockInv'
  <2> c \in [thread : Nat, path : AllTexts, stage : {"stat", "checking", "posting"}]
    BY DEF TypeOK
  <2>1. ASSUME NEW d, Become(c, d), d.thread = c.thread, UNCHANGED inputs
        PROVE  /\ \A e, f \in checks' : e.thread = f.thread => e = f
               /\ \A e \in checks' : e.thread < inputs'
    BY <2>1 DEF Become
  <2>2. CASE Stat(c)
    <3>1. [c EXCEPT !.stage = "checking"].thread = c.thread
      OBVIOUS
    <3>2. [c EXCEPT !.stage = "checking"].stage # "posting"
      OBVIOUS
    <3> QED
      BY <2>1, <2>2, <3>1, <3>2 DEF Stat, Become, notThread
  <2>3. CASE CheckAlive(c)
    <3>1. \A d \in checks : d.stage # "posting"
      BY <2>3 DEF CheckAlive
    <3>2. CASE alive
      <4>1. [c EXCEPT !.stage = "posting"].thread = c.thread
        OBVIOUS
      <4> QED
        BY <2>1, <2>3, <3>1, <3>2, <4>1 DEF CheckAlive, Become, notThread
    <3>3. CASE ~alive
      BY <2>3, <3>1, <3>3 DEF CheckAlive, notThread
    <3> QED
      BY <3>2, <3>3
  <2>4. CASE PostChecked(c)
    <3>1. \A d \in checks : d.stage = "posting" => d = c
      BY <2>4 DEF PostChecked
    <3> QED
      BY <2>4, <3>1 DEF PostChecked, notThread
  <2> QED
    BY <1>6, <2>2, <2>3, <2>4 DEF Thread
<1>7. CASE UNCHANGED vars
  BY <1>1, <1>7 DEF vars
<1> QED
  BY <1>2, <1>3, <1>4, <1>5, <1>6, <1>7 DEF Next

-----------------------------------------------------------------------------
(* The selection.                                                          *)

LEMMA SelectionStep ==
    TypeOK /\ TypeOK' /\ SelectionFollowsFiles /\ [Next]_vars => SelectionFollowsFiles'
<1> SUFFICES ASSUME TypeOK, TypeOK', SelectionFollowsFiles, [Next]_vars
             PROVE  SelectionFollowsFiles'
  OBVIOUS
<1> USE DEF SelectionFollowsFiles, model, selection, boxes, batches, opening
<1>1. CASE UNCHANGED <<entries, selection>>
  BY <1>1, SelectionNow, SelectionThen
<1>2. CASE Deselected /\ Chosen({}, None)
  BY <1>2, SelectionThen DEF Deselected, Chosen
<1>3. ASSUME NEW row \in Rows, Click(row) \/ CtrlClick(row)
      PROVE  SelectionFollowsFiles'
  <2>1. entries' = entries /\ row # 0 /\ \A r \in Rows : FullPathForRow(r) = AsText(entries[r].path)
    BY <1>3 DEF Click, CtrlClick, FullPathForRow, Rows, TypeOK
  <2>2. selected' \subseteq Rows
    BY <2>1 DEF TypeOK, Rows
  <2> QED
    BY <1>3, <2>1, <2>2, SelectionThen DEF Click, CtrlClick, Chosen
<1>4. CASE NavigateResults
  <2>1. entries' = entries /\ 1 \in Rows /\ FullPathForRow(1) = AsText(entries[1].path)
    BY <1>4 DEF NavigateResults, FullPathForRow, Rows, TypeOK
  <2> QED
    BY <1>4, <2>1, SelectionThen DEF NavigateResults, Chosen
<1>5. ASSUME NEW list \in Lists, NEW preserve \in BOOLEAN, ResultsReady(list, preserve)
      PROVE  SelectionFollowsFiles'
  <2>1. CASE ~preserve
    BY <1>2, <1>5, <2>1 DEF ResultsReady
  <2>2. CASE preserve
    <3>1. entries' \in Seq(Entries)
      BY DEF TypeOK
    <3>2. SelectedFullPaths' = chosen \cap Texts(entries')
      BY <1>5, <2>2, <3>1, RowsForTexts, SelectionThen DEF ResultsReady, RestoreSelection
    <3>3. chosen' = chosen \cap Texts(entries')
      BY <1>5, <2>2 DEF ResultsReady, Chosen
    <3>4. CASE chosenCurrent \in Texts(entries')
      <4>1. RowsFor(entries', {CurrentPath}) # {}
        BY <3>1, <3>4, RowsForTexts
      <4>2. currentRow' \in RowsFor(entries', {CurrentPath}) /\ currentRow' # 0
        BY <1>5, <2>2, <3>1, <4>1, RowsForTexts DEF ResultsReady, RestoreSelection
      <4>3. AsText(entries'[currentRow'].path) = CurrentPath
        BY <4>2 DEF RowsFor
      <4> QED
        BY <1>5, <2>2, <3>2, <3>3, <3>4, <4>2, <4>3, SelectionThen DEF ResultsReady, Chosen
    <3>5. CASE chosenCurrent \notin Texts(entries')
      <4>1. RowsFor(entries', {CurrentPath}) = {}
        BY <3>5 DEF RowsFor, Texts
      <4> QED
        BY <1>5, <2>2, <3>2, <3>3, <3>5, <4>1, SelectionThen
           DEF ResultsReady, RestoreSelection, Chosen
    <3> QED
      BY <3>4, <3>5
  <2> QED
    BY <2>1, <2>2
<1>6. CASE SearchCleared
  BY <1>2, <1>6 DEF SearchCleared
<1>7. ASSUME NEW column \in Columns, HeaderClick(column)
      PROVE  SelectionFollowsFiles'
  BY <1>2, <1>7 DEF HeaderClick
<1>8. CASE \/ EnterKey \/ ContextMenu \/ MenuOpen \/ TrashKey \/ DeleteKey
           \/ \E yes \in BOOLEAN : Answer(yes)
  BY <1>1, <1>8 DEF EnterKey, ContextMenu, MenuOpen, TrashKey, DeleteKey, Answer
<1>9. CASE Perform \/ HandleReport \/ Close \/ ClearAlive \/ Destroy
  BY <1>1, <1>9 DEF Perform, HandleReport, Close, ClearAlive, Destroy, notClosing
<1>10. ASSUME NEW c \in checks, Thread(c)
       PROVE  SelectionFollowsFiles'
  BY <1>1, <1>10 DEF Thread, Stat, CheckAlive, PostChecked, notThread
<1>11. CASE UNCHANGED vars \/ Gone
  BY <1>1, <1>11 DEF vars, Gone
<1> QED
  BY <1>3, <1>4, <1>5, <1>6, <1>7, <1>8, <1>9, <1>10, <1>11 DEF Next, User, Search

-----------------------------------------------------------------------------
(* The batches.                                                            *)

Batches == [type : Verbs, paths : SUBSET AllTexts]
               \cup [type : Verbs, paths : SUBSET AllTexts, succeeded : SUBSET AllTexts]

BatchesOK == BatchInv /\ PendingInv /\ VerbsMatchBatches

\* A list of batches after the first of q is performed, and reported at the
\* end of r: the same, but for that one.
LEMMA PerformedBatch ==
    ASSUME NEW S, NEW r \in Seq(S), NEW q \in Seq(S), q # <<>>, NEW b \in S
    PROVE  /\ Len(Append(r, b) \o Tail(q)) = Len(r \o q)
           /\ Len(r) + 1 \in 1..Len(r \o q) /\ (r \o q)[Len(r) + 1] = Head(q)
           /\ \A i \in 1..Len(r \o q) :
                  (Append(r, b) \o Tail(q))[i] = IF i = Len(r) + 1 THEN b ELSE (r \o q)[i]
  OBVIOUS

LEMMA OutstandingOK ==
    ASSUME TypeOK
    PROVE  /\ reports \in Seq(Batches) /\ jobs \in Seq(Batches) /\ Outstanding \in Seq(Batches)
           /\ DOMAIN Outstanding = 1..Len(Outstanding) /\ Len(Outstanding) \in Nat
           /\ \A text : text \in OutstandingPaths
                            <=> \E i \in 1..Len(Outstanding) : text \in Outstanding[i].paths
<1>1. reports \in Seq(Batches) /\ jobs \in Seq(Batches)
  <2>1. /\ reports \in Seq([type : Verbs, paths : SUBSET AllTexts, succeeded : SUBSET AllTexts])
        /\ jobs \in Seq([type : Verbs, paths : SUBSET AllTexts])
    BY DEF TypeOK
  <2> QED
    BY <2>1, LargerSeq DEF Batches
<1>2. Outstanding \in Seq(Batches)
  BY <1>1 DEF Outstanding
<1>3. DOMAIN Outstanding = 1..Len(Outstanding) /\ Len(Outstanding) \in Nat
  BY <1>2
<1> QED
  BY <1>1, <1>2, <1>3 DEF OutstandingPaths, Range

LEMMA OutstandingThen ==
    ASSUME TypeOK'
    PROVE  /\ Outstanding' \in Seq(Batches)
           /\ DOMAIN Outstanding' = 1..Len(Outstanding') /\ Len(Outstanding') \in Nat
           /\ \A text : text \in OutstandingPaths'
                            <=> \E i \in 1..Len(Outstanding') : text \in Outstanding'[i].paths
<1>1. reports' \in Seq(Batches) /\ jobs' \in Seq(Batches)
  <2>1. /\ reports' \in Seq([type : Verbs, paths : SUBSET AllTexts, succeeded : SUBSET AllTexts])
        /\ jobs' \in Seq([type : Verbs, paths : SUBSET AllTexts])
    BY DEF TypeOK
  <2> QED
    BY <2>1, LargerSeq DEF Batches
<1>2. Outstanding' \in Seq(Batches)
  BY <1>1 DEF Outstanding
<1>3. DOMAIN Outstanding' = 1..Len(Outstanding') /\ Len(Outstanding') \in Nat
  BY <1>2
<1> QED
  BY <1>1, <1>2, <1>3 DEF OutstandingPaths, Range

\* A batch is requested.
LEMMA BatchRequested ==
    ASSUME TypeOK, TypeOK', BatchesOK, NEW type \in Verbs, NEW paths \in SUBSET AllTexts,
           RunFileOperations(type, paths), UNCHANGED <<reports, window>>
    PROVE  BatchesOK'
<1> DEFINE n == Len(Outstanding)
           b == [type |-> type, paths |-> paths]
<1>1. b \in Batches
  BY DEF Batches
<1>2. Outstanding' = reports \o Append(jobs, b)
  BY DEF RunFileOperations, Outstanding
<1>3. /\ n \in Nat /\ Len(Outstanding') = n + 1
      /\ \A i \in 1..n : Outstanding'[i] = Outstanding[i]
      /\ Outstanding'[n + 1] = b
  BY <1>1, <1>2, OutstandingOK, QueuedBatch DEF Outstanding
<1>4. twice' = twice \cup (paths \cap OutstandingPaths) /\ b.paths = paths /\ b.type = type
  BY DEF RunFileOperations
<1> HIDE DEF n, b
<1>5. BatchInv'
  <2> SUFFICES ASSUME NEW i \in 1..(n + 1), NEW j \in 1..(n + 1), i # j
               PROVE  Outstanding'[i].paths \cap Outstanding'[j].paths \subseteq twice'
    BY <1>3, OutstandingThen DEF BatchInv
  <2>1. CASE i \in 1..n /\ j \in 1..n
    BY <1>3, <1>4, <2>1, OutstandingOK DEF BatchInv, BatchesOK, n
  <2>2. \A k \in 1..n : Outstanding[k].paths \subseteq OutstandingPaths
    BY OutstandingOK DEF n
  <2>3. CASE i = n + 1
    <3>1. j \in 1..n
      BY <1>3, <2>3
    <3> QED
      BY <1>3, <1>4, <2>2, <2>3, <3>1
  <2>4. CASE j = n + 1
    <3>1. i \in 1..n
      BY <1>3, <2>4
    <3> QED
      BY <1>3, <1>4, <2>2, <2>4, <3>1
  <2> QED
    BY <1>3, <2>1, <2>3, <2>4
<1>6. PendingInv'
  <2>1. ASSUME NEW text
        PROVE  text \in OutstandingPaths' <=> text \in OutstandingPaths \cup paths
    <3>1. text \in OutstandingPaths' <=> \E i \in 1..(n + 1) : text \in Outstanding'[i].paths
      BY <1>3, OutstandingThen
    <3>2. text \in OutstandingPaths <=> \E i \in 1..n : text \in Outstanding[i].paths
      BY OutstandingOK DEF n
    <3>3. \A i \in 1..(n + 1) : i \in 1..n \/ i = n + 1
      BY <1>3
    <3>4. n + 1 \in 1..(n + 1) /\ \A i \in 1..n : i \in 1..(n + 1)
      BY <1>3
    <3> QED
      BY <1>3, <1>4, <3>1, <3>2, <3>3, <3>4
  <2> QED
    BY <1>4, <2>1 DEF PendingInv, BatchesOK, RunFileOperations
<1>7. VerbsMatchBatches'
  <2> SUFFICES ASSUME window = "open"
               PROVE  verbs' = [i \in 1..(n + 1) |-> Outstanding'[i].type]
    BY <1>3, OutstandingThen DEF VerbsMatchBatches
  <2>1. verbs = [i \in 1..n |-> Outstanding[i].type]
    BY OutstandingOK DEF VerbsMatchBatches, BatchesOK, n
  <2>2. \A i \in 1..n : Outstanding[i].type \in Verbs
    BY OutstandingOK DEF Batches, n
  <2>3. verbs \in Seq(Verbs) /\ Len(verbs) = n
    BY <1>3, <2>1, <2>2
  <2>4. verbs' = Append(verbs, type)
    BY DEF RunFileOperations
  <2>5. verbs' = [i \in 1..(n + 1) |-> IF i = n + 1 THEN type ELSE verbs[i]]
    BY <2>3, <2>4, AppendTo
  <2>6. \A i \in 1..(n + 1) :
          (IF i = n + 1 THEN type ELSE verbs[i]) = Outstanding'[i].type
    BY <1>3, <1>4, <2>1
  <2> QED
    BY <2>5, <2>6
<1> QED
  BY <1>5, <1>6, <1>7 DEF BatchesOK

\* A batch is performed: its report is as it was.
LEMMA BatchPerformed ==
    ASSUME TypeOK, TypeOK', BatchesOK, Perform
    PROVE  BatchesOK'
<1>1. PICK succeeded \in SUBSET (Head(jobs).paths \cap disk) :
        reports' = Append(reports, [type |-> Head(jobs).type, paths |-> Head(jobs).paths,
                                    succeeded |-> succeeded])
  BY DEF Perform
<1> DEFINE r == [type |-> Head(jobs).type, paths |-> Head(jobs).paths, succeeded |-> succeeded]
<1>2. jobs # <<>> /\ jobs' = Tail(jobs)
  BY DEF Perform
<1>3. Head(jobs) \in [type : Verbs, paths : SUBSET AllTexts]
  <2>1. jobs \in Seq([type : Verbs, paths : SUBSET AllTexts])
    BY DEF TypeOK
  <2> QED
    BY <1>2, <2>1, HeadTailProperties
<1>4. r \in Batches
  BY <1>3 DEF Batches, TypeOK, AllTexts
<1>5. r.type = Head(jobs).type /\ r.paths = Head(jobs).paths
  OBVIOUS
<1>6. Outstanding' = Append(reports, r) \o Tail(jobs)
  BY <1>1, <1>2 DEF Outstanding
<1> HIDE DEF r
<1>7. /\ Len(Outstanding') = Len(Outstanding)
      /\ \A i \in 1..Len(Outstanding) : /\ Outstanding'[i].type = Outstanding[i].type
                                        /\ Outstanding'[i].paths = Outstanding[i].paths
  <2>1. /\ Len(Outstanding') = Len(Outstanding)
        /\ Outstanding[Len(reports) + 1] = Head(jobs)
        /\ \A i \in 1..Len(Outstanding) :
               Outstanding'[i] = IF i = Len(reports) + 1 THEN r ELSE Outstanding[i]
    BY <1>2, <1>4, <1>6, OutstandingOK, PerformedBatch DEF Outstanding
  <2> QED
    BY <1>5, <2>1
<1>8. UNCHANGED <<pendingPaths, verbs, twice, window>>
  BY DEF Perform, model
<1>9. \A text : text \in OutstandingPaths' <=> text \in OutstandingPaths
  BY <1>7, OutstandingOK, OutstandingThen
<1>10. BatchInv' /\ PendingInv'
  BY <1>7, <1>8, <1>9, OutstandingOK, OutstandingThen DEF BatchesOK, BatchInv, PendingInv
<1>11. VerbsMatchBatches'
  BY <1>7, <1>8, OutstandingOK, OutstandingThen DEF BatchesOK, VerbsMatchBatches
<1> QED
  BY <1>10, <1>11 DEF BatchesOK

\* The first batch is reported.
LEMMA BatchReported ==
    ASSUME TypeOK, TypeOK', BatchesOK, HandleReport
    PROVE  BatchesOK'
<1> DEFINE n == Len(Outstanding)
<1>1. window = "open" /\ window' = "open" /\ twice' = twice /\ reports # <<>>
  BY DEF HandleReport
<1>2. Outstanding' = Tail(Outstanding)
  BY <1>1, OutstandingOK, HandledBatch DEF HandleReport, Outstanding
<1>3. Outstanding # <<>> /\ Head(reports) = Outstanding[1]
  BY <1>1, OutstandingOK DEF Outstanding
<1>4. n \in Nat /\ n >= 1 /\ Len(Outstanding') = n - 1
  BY <1>2, <1>3, OutstandingOK
<1>5. \A i \in 1..(n - 1) : Outstanding'[i] = Outstanding[i + 1]
  BY <1>2, <1>3, OutstandingOK
<1>6. pendingPaths' = pendingPaths \ Outstanding[1].paths /\ verbs' = Tail(verbs)
  BY <1>3 DEF HandleReport, OnFileOperationsFinished
<1>7. \A i \in 1..n : \A j \in 1..n :
        i # j => Outstanding[i].paths \cap Outstanding[j].paths \subseteq twice
  BY OutstandingOK DEF BatchesOK, BatchInv
<1>8. verbs = [i \in 1..n |-> Outstanding[i].type]
  BY <1>1, OutstandingOK DEF BatchesOK, VerbsMatchBatches
<1>9. \A i \in 1..n : Outstanding[i].type \in Verbs
  BY OutstandingOK DEF Batches
<1>10. ASSUME NEW text \in AllTexts \ twice
       PROVE  text \in pendingPaths <=> \E i \in 1..n : text \in Outstanding[i].paths
  BY <1>1, OutstandingOK DEF BatchesOK, PendingInv
<1>11. ASSUME NEW text
       PROVE  text \in OutstandingPaths' <=> \E i \in 1..(n - 1) : text \in Outstanding[i + 1].paths
  BY <1>4, <1>5, OutstandingThen
<1> HIDE DEF n
<1>12. BatchInv'
  <2> SUFFICES ASSUME NEW i \in 1..(n - 1), NEW j \in 1..(n - 1), i # j
               PROVE  Outstanding'[i].paths \cap Outstanding'[j].paths \subseteq twice'
    BY <1>4, OutstandingThen DEF BatchInv
  <2>1. i + 1 \in 1..n /\ j + 1 \in 1..n /\ i + 1 # j + 1
    BY <1>4
  <2> QED
    BY <1>1, <1>5, <1>7, <2>1
<1>13. PendingInv'
  <2> SUFFICES ASSUME NEW text \in AllTexts \ twice
               PROVE  text \in pendingPaths' <=> text \in OutstandingPaths'
    BY <1>1 DEF PendingInv
  <2>1. ASSUME NEW i \in 1..n, text \in Outstanding[i].paths, text \notin Outstanding[1].paths
        PROVE  text \in OutstandingPaths'
    <3>1. i # 1
      BY <2>1
    <3>2. i - 1 \in 1..(n - 1) /\ (i - 1) + 1 = i
      BY <1>4, <3>1
    <3> QED
      BY <1>11, <2>1, <3>2
  <2>2. ASSUME NEW i \in 1..(n - 1), text \in Outstanding[i + 1].paths
        PROVE  text \in pendingPaths /\ text \notin Outstanding[1].paths
    <3>1. i + 1 \in 1..n /\ 1 \in 1..n /\ i + 1 # 1
      BY <1>4
    <3> QED
      BY <1>7, <1>10, <2>2, <3>1
  <2> QED
    BY <1>6, <1>10, <1>11, <2>1, <2>2
<1>14. VerbsMatchBatches'
  <2>1. verbs \in Seq(Verbs) /\ Len(verbs) = n /\ verbs # <<>>
    BY <1>4, <1>8, <1>9
  <2>2. Tail(verbs) = [i \in 1..(n - 1) |-> verbs[i + 1]]
    BY <2>1, TailFrom
  <2>3. \A i \in 1..(n - 1) : verbs[i + 1] = Outstanding'[i].type
    BY <1>4, <1>5, <1>8
  <2>4. verbs' = [i \in 1..(n - 1) |-> Outstanding'[i].type]
    BY <1>6, <2>2, <2>3
  <2> QED
    BY <1>4, <2>4, OutstandingThen DEF VerbsMatchBatches
<1> QED
  BY <1>12, <1>13, <1>14 DEF BatchesOK

\* The window is destroyed, and the reports with it.
LEMMA BatchDropped ==
    ASSUME TypeOK, TypeOK', BatchesOK, Destroy
    PROVE  BatchesOK'
<1> DEFINE k == Len(reports)
<1>1. Outstanding' = jobs /\ twice' = twice /\ window' = "destroyed"
  BY OutstandingOK DEF Destroy, notClosing, batches, Outstanding
<1>2. /\ k \in Nat /\ Len(jobs) \in Nat
      /\ \A i \in 1..Len(jobs) : k + i \in 1..Len(Outstanding) /\ jobs[i] = Outstanding[k + i]
  BY OutstandingOK DEF Outstanding
<1>3. BatchInv'
  <2> SUFFICES ASSUME NEW i \in 1..Len(jobs), NEW j \in 1..Len(jobs), i # j
               PROVE  jobs[i].paths \cap jobs[j].paths \subseteq twice
    BY <1>1, OutstandingThen DEF BatchInv
  <2>1. k + i # k + j
    BY <1>2
  <2> QED
    BY <1>2, <2>1, OutstandingOK DEF BatchesOK, BatchInv
<1> QED
  BY <1>1, <1>3 DEF BatchesOK, PendingInv, VerbsMatchBatches

LEMMA BatchStep == TypeOK /\ TypeOK' /\ BatchesOK /\ [Next]_vars => BatchesOK'
<1> SUFFICES ASSUME TypeOK, TypeOK', BatchesOK, [Next]_vars
             PROVE  BatchesOK'
  OBVIOUS
<1> USE DEF model, batches
<1>1. ASSUME UNCHANGED <<pendingPaths, batches, reports>>, window' = "open" => window = "open"
      PROVE  BatchesOK'
  BY <1>1 DEF BatchesOK, BatchInv, PendingInv, VerbsMatchBatches, Outstanding, OutstandingPaths
<1>2. CASE TrashKey
  <2>1. RunFileOperations("trash", SelectedFullPathsOrCurrent) /\ "trash" \in Verbs
    BY <1>2 DEF TrashKey, Verbs
  <2>2. UNCHANGED <<reports, window>>
    BY <1>2 DEF TrashKey, OnRows, Input
  <2> QED
    BY <2>1, <2>2, BatchRequested, SelectionNow
<1>3. ASSUME NEW yes \in BOOLEAN, Answer(yes)
      PROVE  BatchesOK'
  <2>1. UNCHANGED <<reports, window>> /\ confirming \in SUBSET AllTexts
    BY <1>3 DEF Answer, Input, TypeOK
  <2>2. CASE yes
    BY <1>3, <2>1, <2>2, BatchRequested DEF Answer, Verbs
  <2>3. CASE ~yes
    BY <1>1, <1>3, <2>1, <2>3 DEF Answer, noRequest
  <2> QED
    BY <2>2, <2>3
<1>4. ASSUME Input, UNCHANGED <<pendingPaths, batches>>
      PROVE  BatchesOK'
  BY <1>1, <1>4 DEF Input
<1>5. CASE EnterKey \/ MenuOpen
  BY <1>4, <1>5 DEF EnterKey, MenuOpen, OpenPath, OnRows
<1>6. CASE \/ \E row \in Rows : Click(row) \/ CtrlClick(row)
           \/ \E column \in Columns : HeaderClick(column)
           \/ NavigateResults \/ ContextMenu \/ DeleteKey
  BY <1>4, <1>6 DEF Click, CtrlClick, HeaderClick, NavigateResults, ContextMenu, DeleteKey,
                    OnRows, noRequest
<1>7. CASE Search
  BY <1>1, <1>7 DEF Search, SearchCleared, ResultsReady
<1>8. CASE Close \/ ClearAlive \/ Gone \/ UNCHANGED vars
  BY <1>1, <1>8 DEF Close, ClearAlive, Gone, notClosing, vars
<1>9. ASSUME NEW c \in checks, Thread(c)
      PROVE  BatchesOK'
  BY <1>1, <1>9 DEF Thread, Stat, CheckAlive, PostChecked, notThread
<1> QED
  BY <1>2, <1>3, <1>5, <1>6, <1>7, <1>8, <1>9, BatchPerformed, BatchReported, BatchDropped
     DEF Next, User

-----------------------------------------------------------------------------
(* The theorems.                                                           *)

LEMMA Start == Init => IInv
<1> SUFFICES ASSUME Init
             PROVE  IInv
  OBVIOUS
<1>1. TypeOK
  BY TypeInit
<1>2. Outstanding = <<>> /\ OutstandingPaths = {}
  BY DEF Init, Outstanding, OutstandingPaths, Range
<1>3. BatchInv /\ PendingInv /\ VerbsMatchBatches
  BY <1>2 DEF Init, BatchInv, PendingInv, VerbsMatchBatches
<1>4. LockInv
  BY DEF Init, LockInv
<1>5. SelectionFollowsFiles
  BY <1>1, SelectionNow DEF Init, SelectionFollowsFiles
<1> QED
  BY <1>1, <1>3, <1>4, <1>5 DEF IInv

\* The invariant holds of every specification of this module, whatever the
\* constants are.
THEOREM Invariant == Spec => []IInv
<1>1. IInv /\ [Next]_vars => IInv'
  <2> SUFFICES ASSUME IInv, [Next]_vars
               PROVE  IInv'
    OBVIOUS
  <2>1. TypeOK'
    BY TypeStep DEF IInv
  <2>2. BatchesOK'
    BY <2>1, BatchStep DEF IInv, BatchesOK
  <2> QED
    BY <2>1, <2>2, LockStep, SelectionStep DEF IInv, BatchesOK
<1> QED
  BY Start, <1>1, PTL DEF Spec

\* What is selected and current are the files the user chose that are still
\* listed, through every ResultsReady and every sort (RestoreSelection).
THEOREM SelectionTheorem == Spec => []SelectionFollowsFiles
  BY Invariant, PTL DEF IInv

\* The verb OnFileOperationsFinished takes is that of the batch reported.
THEOREM VerbsTheorem == Spec => []VerbsMatchBatches
  BY Invariant, PTL DEF IInv

\* A row of a decodable path is grey while the path is in one batch that is
\* not reported, and no longer (MarkPathsPending, ClearPathsPending).
THEOREM GreyTheorem == Spec => []GreyWhileOutstanding
<1>1. IInv => GreyWhileOutstanding
  <2> SUFFICES ASSUME IInv, window = "open", NEW row \in Rows,
                      entries[row].path \notin twice \cup Undecodable
               PROVE  IsPending(row) <=> entries[row].path \in OutstandingPaths
    BY DEF GreyWhileOutstanding
  <2>1. entries[row].path \in AllTexts
    <3>1. entries[row] \in Entries
      BY DEF IInv, TypeOK, Rows
    <3> QED
      BY <3>1 DEF Entries, AllTexts
  <2> QED
    BY <2>1 DEF IInv, PendingInv, IsPending
<1> QED
  BY Invariant, <1>1, PTL

\* OpenPath's threads post nothing to a window that is destroyed: liveness_.
THEOREM LivenessTheorem == Spec => []NoCallAfterDestroy
<1>1. IInv => NoCallAfterDestroy
  BY DEF IInv, LockInv, NoCallAfterDestroy
<1> QED
  BY Invariant, <1>1, PTL
=============================================================================
