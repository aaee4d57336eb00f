------------------------------- MODULE Search -------------------------------
(***************************************************************************)
(* Search as you type: SearchLineEdit's debounce, SearchCoordinator with   *)
(* its search threads, and the part of MainWindow that shows results and   *)
(* re-runs the query when the index changes.                               *)
(*                                                                         *)
(* Abstractions: None is every text of fewer than two characters. The      *)
(* index is a version number, and so are the search options; the results   *)
(* of a search are what it was asked and the version it read. The selected *)
(* row is in every result list. A timer that is running may fire at any    *)
(* time.                                                                   *)
(***************************************************************************)
EXTENDS Integers, Sequences

CONSTANTS
    Queries,     \* searchable texts
    None,
    MaxInputs,   \* bound: what the user does, but for closing the window
    MaxChanges   \* bound: changes of the index

ASSUME NoneAssumption == None \notin Queries
ASSUME BoundsAssumption == MaxInputs \in Nat /\ MaxChanges \in Nat

VARIABLES
    text, editTimer,        \* SearchLineEdit: its text and its debounce timer
    pendingQuery, options, debounceTimer, searching_,   \* SearchCoordinator
    current,                \* the search cancelToken_ is of, 0 if it is cancelled
    workers,                \* workers_
    version, unreported,    \* IndexStore, and who changed it and is to report it
    events,                 \* the GUI thread's queue of posted calls
    liveRefreshTimer, preserve, shown, selected,    \* MainWindow
    window,                 \* "open", "closing" or "closed"
    inputs, changes,        \* what the bounds count
    started,                \* searches started so far, to name them
    byUser                  \* read by the properties only: the user asked for pendingQuery

edit        == <<text, editTimer>>
coordinator == <<pendingQuery, options, debounceTimer, searching_, current, workers>>
store       == <<version, unreported>>
results     == <<shown, selected>>
counters    == <<inputs, changes, started>>

vars == <<edit, coordinator, store, events, liveRefreshTimer, preserve, results, window,
          counters, byUser>>

\* What a search was asked and what it read. NoResults is an empty list.
NoResults == [id |-> 0, query |-> None, options |-> 0, version |-> 0, byUser |-> TRUE]

Open == window = "open"

-----------------------------------------------------------------------------
(* The GUI thread: the user.                                               *)

notUser == <<searching_, current, workers, store, events, liveRefreshTimer, preserve, window,
             changes, started>>

\* SearchCoordinator::SetQuery.
SetQuery(query, user) ==
    /\ pendingQuery' = query
    /\ debounceTimer' = TRUE
    /\ byUser' = (byUser \/ user)

KeepQuery == UNCHANGED <<pendingQuery, debounceTimer, byUser>>

\* OnTextChanged: the debounce timer is restarted, or, when the text becomes
\* too short to search for, SearchCleared drops the query and the results.
TextChanged(new) ==
    /\ Open /\ inputs < MaxInputs
    /\ new # text
    /\ text' = new
    /\ editTimer' = (new # None)
    /\ IF new = None
       THEN SetQuery(None, TRUE) /\ shown' = NoResults /\ selected' = FALSE
       ELSE KeepQuery /\ UNCHANGED results
    /\ inputs' = inputs + 1
    /\ UNCHANGED <<notUser, options>>

\* OnDebounceTimeout: SearchRequested.
EditTimeout ==
    /\ Open /\ editTimer
    /\ editTimer' = FALSE
    /\ SetQuery(text, TRUE)
    /\ UNCHANGED <<notUser, text, options, results, inputs>>

\* A search option is toggled: the query on screen is run again under it.
ToggleOption ==
    /\ Open /\ inputs < MaxInputs
    /\ options' = options + 1
    /\ IF text # None THEN SetQuery(text, TRUE) ELSE KeepQuery
    /\ inputs' = inputs + 1
    /\ UNCHANGED <<notUser, edit, results>>

SelectRow ==
    /\ Open /\ inputs < MaxInputs
    /\ shown # NoResults
    /\ selected' = TRUE
    /\ inputs' = inputs + 1
    /\ KeepQuery
    /\ UNCHANGED <<notUser, edit, options, shown>>

-----------------------------------------------------------------------------
(* The GUI thread: SearchCoordinator and MainWindow.                       *)

notCoordinator == <<edit, pendingQuery, options, store, events, liveRefreshTimer, preserve,
                    results, window, inputs, changes>>

NewSearch ==
    [search |-> [id |-> started + 1, query |-> pendingQuery, options |-> options,
                 version |-> 0, byUser |-> byUser],
     stage  |-> "waiting"]

\* ReapFinishedWorkers.
Unfinished == {w \in workers : w.stage # "done"}

\* Mutant of StartSearch: the timer is not a single-shot one.
StartSearchAgain ==
    /\ Open /\ debounceTimer
    /\ byUser' = FALSE
    /\ IF pendingQuery = None
       THEN /\ current' = 0 /\ searching_' = FALSE
            /\ workers' = Unfinished
            /\ UNCHANGED <<started, debounceTimer>>
       ELSE /\ current' = started + 1 /\ searching_' = TRUE
            /\ workers' = Unfinished \cup {NewSearch}
            /\ started' = started + 1
            /\ UNCHANGED debounceTimer
    /\ UNCHANGED notCoordinator

\* The debounce timer fires. The running search is cancelled without waiting
\* for it, finished ones are reaped, and a new thread searches.
StartSearch ==
    /\ Open /\ debounceTimer
    /\ debounceTimer' = FALSE
    /\ byUser' = FALSE
    /\ IF pendingQuery = None
       THEN /\ current' = 0 /\ searching_' = FALSE
            /\ workers' = Unfinished
            /\ UNCHANGED started
       ELSE /\ current' = started + 1 /\ searching_' = TRUE
            /\ workers' = Unfinished \cup {NewSearch}
            /\ started' = started + 1
    /\ UNCHANGED notCoordinator

\* Mutant of Deliver: the token is not checked again.
DeliverUnchecked(search) ==
    /\ searching_' = FALSE
    /\ preserve' = FALSE
    /\ IF text = None
       THEN UNCHANGED results
       ELSE shown' = search /\ selected' = (selected /\ preserve)

\* The call a search posted: the token is checked again, ResultsReady.
Deliver(search) ==
    IF search.id # current
    THEN UNCHANGED <<searching_, preserve, results>>
    ELSE /\ searching_' = FALSE
         /\ preserve' = FALSE
         /\ IF text = None
            THEN UNCHANGED results
            ELSE shown' = search /\ selected' = (selected /\ preserve)

\* Mutant of RefreshVisibleResults: not while a search is running anyway.
RefreshUnlessSearching ==
    IF text # None /\ ~searching_
    THEN preserve' = TRUE /\ SetQuery(text, FALSE)
    ELSE KeepQuery /\ UNCHANGED preserve

RefreshVisibleResults ==
    IF text # None
    THEN preserve' = TRUE /\ SetQuery(text, FALSE)
    ELSE KeepQuery /\ UNCHANGED preserve

notEvents == <<edit, options, current, workers, store, window, counters>>

\* The GUI thread takes the next posted call: results, OnIndexChanged, or a
\* live change, which restarts a timer that coalesces a burst of them.
HandleEvent ==
    /\ Open /\ events # <<>>
    /\ events' = Tail(events)
    /\ LET event == Head(events)
       IN  CASE event.kind = "results" ->
                    Deliver(event.search) /\ KeepQuery /\ UNCHANGED liveRefreshTimer
             [] event.kind = "changed" ->
                    RefreshVisibleResults /\ UNCHANGED <<searching_, results, liveRefreshTimer>>
             [] event.kind = "live" ->
                    liveRefreshTimer' = TRUE
                    /\ KeepQuery /\ UNCHANGED <<searching_, preserve, results>>
    /\ UNCHANGED notEvents

LiveRefreshTimeout ==
    /\ Open /\ liveRefreshTimer
    /\ liveRefreshTimer' = FALSE
    /\ RefreshVisibleResults
    /\ UNCHANGED <<notEvents, searching_, events, results>>

\* ~MainWindow has shut the index service down. ~SearchCoordinator: the running
\* search is cancelled ...
Close ==
    /\ Open /\ unreported = {}
    /\ window' = "closing"
    /\ current' = 0 /\ searching_' = FALSE
    /\ UNCHANGED <<edit, pendingQuery, options, debounceTimer, workers, store, events,
                   liveRefreshTimer, preserve, results, counters, byUser>>

\* ... and every thread joined.
JoinWorkers ==
    /\ window = "closing" /\ Unfinished = {}
    /\ window' = "closed" /\ workers' = {}
    /\ UNCHANGED <<edit, pendingQuery, options, debounceTimer, searching_, current, store,
                   events, liveRefreshTimer, preserve, results, counters, byUser>>

-----------------------------------------------------------------------------
(* The search threads.                                                     *)

notWorkers == <<edit, pendingQuery, options, debounceTimer, searching_, current, store,
                liveRefreshTimer, preserve, results, window, counters, byUser>>

Become(w, v) == workers' = (workers \ {w}) \cup {v}

\* Under the shared lock the engine searches the pool and the entries to
\* display are built; a change of the index takes the exclusive lock.
ReadPool(w) ==
    /\ w.stage = "waiting"
    /\ Become(w, [w EXCEPT !.stage = "checking", !.search.version = version])
    /\ UNCHANGED <<notWorkers, events>>

\* Mutant of CheckToken: a cancelled search does not say that it is done.
CheckTokenOnly(w) ==
    /\ w.stage = "checking" /\ w.search.id = current
    /\ Become(w, [w EXCEPT !.stage = "posting"])
    /\ UNCHANGED <<notWorkers, events>>

CheckToken(w) ==
    /\ w.stage = "checking"
    /\ Become(w, [w EXCEPT !.stage = IF w.search.id = current THEN "posting" ELSE "done"])
    /\ UNCHANGED <<notWorkers, events>>

\* invokeMethod; the token may have been set since it was checked.
PostResults(w) ==
    /\ w.stage = "posting"
    /\ events' = Append(events, [kind |-> "results", search |-> w.search])
    /\ Become(w, [w EXCEPT !.stage = "done"])
    /\ UNCHANGED notWorkers

-----------------------------------------------------------------------------
(* The index: a pool is swapped in and reported through onIndexChanged, or *)
(* a live change is applied and reported through onLiveChange.             *)

notStore == <<edit, coordinator, liveRefreshTimer, preserve, results, window, inputs, started,
              byUser>>

\* Under the exclusive lock.
ChangeIndex(kind) ==
    /\ Open /\ changes < MaxChanges
    /\ kind \notin unreported
    /\ version' = version + 1
    /\ unreported' = unreported \cup {kind}
    /\ changes' = changes + 1
    /\ UNCHANGED <<notStore, events>>

ReportChange(kind) ==
    /\ kind \in unreported
    /\ unreported' = unreported \ {kind}
    /\ events' = Append(events, [kind |-> kind, search |-> NoResults])
    /\ UNCHANGED <<notStore, version, changes>>

-----------------------------------------------------------------------------
Init ==
    /\ text = None /\ editTimer = FALSE
    /\ pendingQuery = None /\ options = 0 /\ debounceTimer = FALSE
    /\ searching_ = FALSE /\ current = 0 /\ workers = {}
    /\ version = 0 /\ unreported = {} /\ events = <<>>
    /\ liveRefreshTimer = FALSE /\ preserve = FALSE
    /\ shown = NoResults /\ selected = FALSE
    /\ window = "open"
    /\ inputs = 0 /\ changes = 0 /\ started = 0 /\ byUser = FALSE

Changes == {"changed", "live"}

User == ToggleOption \/ SelectRow \/ Close \/ \E new \in Queries \cup {None} : TextChanged(new)

Gui == EditTimeout \/ StartSearch \/ HandleEvent \/ LiveRefreshTimeout \/ JoinWorkers

Worker(w) == ReadPool(w) \/ CheckToken(w) \/ PostResults(w)

Closed == window = "closed" /\ UNCHANGED vars

Next ==
    \/ User \/ Gui \/ Closed
    \/ \E w \in workers : Worker(w)
    \/ \E kind \in Changes : ChangeIndex(kind) \/ ReportChange(kind)

Spec == Init /\ [][Next]_vars

\* The event loop and the threads are scheduled, and timers fire; the user and
\* the index may do nothing more.
Fairness ==
    /\ WF_vars(EditTimeout) /\ WF_vars(StartSearch) /\ WF_vars(HandleEvent)
    /\ WF_vars(LiveRefreshTimeout) /\ WF_vars(JoinWorkers)
    /\ WF_vars(\E w \in workers : Worker(w))
    /\ \A kind \in Changes : WF_vars(ReportChange(kind))

FairSpec == Spec /\ Fairness

-----------------------------------------------------------------------------
(* Properties.                                                             *)

\* No timer is running, no call is on its way to the GUI thread, and the
\* search that would post one is over.
Settled ==
    /\ ~editTimer /\ ~debounceTimer /\ ~liveRefreshTimer
    /\ events = <<>> /\ unreported = {}
    /\ \A w \in workers : w.search.id = current => w.stage = "done"

\* When everything has come to rest the rows on screen are those of the text
\* in the box, under the options of the menu, over the index as it is: no
\* order of typing, toggles, index changes and late results leaves others.
SettledIsCurrent ==
    Open /\ Settled =>
        IF text = None
        THEN shown = NoResults
        ELSE shown.query = text /\ shown.options = options /\ shown.version = version

\* Search threads are not joined, so old ones run on beside new ones; still "a
\* search superseded while its results were in flight never replaces the newer
\* one's" (SearchCoordinator.cpp).
NeverBackToOlder == [][shown'.id >= shown.id \/ shown' = NoResults]_vars

\* Whatever the window is doing, it comes to rest.
SettlesDown == <>[](Settled \/ ~Open)

\* Closing the window waits for the search threads, which all end.
CloseEnds == window = "closing" ~> window = "closed"
=============================================================================
