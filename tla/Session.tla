------------------------------ MODULE Session -------------------------------
(***************************************************************************)
(* A session of the window with its elevated helper: pkexec and its        *)
(* prompt, the signals that carry requests to the helper, the Settings and *)
(* index files they share, and what becomes of a request when the helper   *)
(* is not there yet, is busy, or is gone.                                  *)
(*                                                                         *)
(* Settings are versions, each with its roots, and an index is the set of  *)
(* the roots it was built from: what the exclusions of a version keep out  *)
(* is not modelled. IndexService is a job, a pending reload and a flag     *)
(* here, the helper's loop is LiveSave's in fewer steps, and a save of the *)
(* index succeeds: both modules have the details.                          *)
(* QProcess, pkexec and kill(2) are external: QProcess reports started     *)
(* before finished, pkexec becomes the helper once the user agrees, and a  *)
(* process that has no handler for a signal is ended by it.                *)
(***************************************************************************)
EXTENDS StatusFile

CONSTANTS
    LastVersion,     \* bound: versions of the settings, 1 being those at the start
    RootsOf,         \* the roots of each version, and of 0, the last session's
    None,            \* no index file
    OldStatus,       \* bound: texts of the status file of the last session
    MaxAsks,         \* bound: Settings changes and Rebuild Index Now
    MaxElevations,   \* bound: Elevate for Full-System Access
    MaxExtras        \* bound: helpers that end by themselves, and live saves, under
                     \*   an open window

ASSUME BoundsAssumption ==
    /\ LastVersion \in Nat \ {0} /\ MaxAsks \in Nat
    /\ MaxElevations \in Nat /\ MaxExtras \in Nat

Torn == -1      \* settings read while, or after, they were written in part only

Roots(v) == {RootsOf[v][i] : i \in DOMAIN RootsOf[v]}

ASSUME RootsAssumption ==
    /\ DOMAIN RootsOf = 0..LastVersion \cup {Torn}
    /\ \A v \in DOMAIN RootsOf : RootsOf[v] \in Seq(Roots(v))

AllRoots == UNION {Roots(v) : v \in DOMAIN RootsOf}

ASSUME NoneAssumption == \A roots \in SUBSET AllRoots : None # roots

\* The statuses the helper has to report. The number of files indexed is the
\* roots they are of; it is 0 while it scans, and when it says it monitors.
Statuses ==
    {s \in [state : {"Idle", "Scanning", "WatchingForChanges"}, filesIndexed : SUBSET AllRoots,
            locations : {RootsOf[v] : v \in DOMAIN RootsOf}] :
        s.state # "Idle" => s.filesIndexed = {}}

\* A status is left whole, or cut off by a power failure.
ASSUME OldStatusAssumption ==
    \A text \in OldStatus : \E s \in Statuses :
        LET whole == SerializeStatus(s)
        IN  \/ text = whole
            \/ \E n \in 0..(Len(whole.lines) - 1) : text.lines = SubSeq(whole.lines, 1, n)

VARIABLES
    open, elevated,
    proc,         \* helperProcess_: "none", "starting", "running", "closing"
    missed,       \* helperMayHaveMissedRequest_
    mem, file,    \* the settings of the window and in their file
    saving,       \* Settings::Save is at work on the UI thread
    old,          \* oldRoots of ApplySettings: the settings before them
    job, reload,  \* IndexService: the newest scan command, a pending reload, and
    needsFullRebuild,   \*   whether a command was cancelled since one was finished
    view, idx,    \* the window's index, and the index file
    child,        \* what the child process is doing
    g_flags,      \* the helper's flags that are set
    hset, hidx,   \* the helper's settings and its index
    changed,      \* notifications of the index file and of its directory that
    dirChanged,   \*   the window has yet to handle
    status, shown,   \* the status file, and the status the window shows
    maySignal,    \* whether the kernel lets the window signal a process of root
    asks, elevations, extras,   \* what the bounds count
    \* Read by the properties only.
    owed,         \* a signalled request: "no", "asked", "begun"
    dropped       \* a change of the settings that was not posted or signalled, as
                  \*   its Save failed, that is not in the file the helper reads, or
                  \*   that an elevation cancelled or raced with

window  == <<open, elevated, proc, missed>>
config  == <<mem, file, saving, old>>
service == <<job, reload, needsFullRebuild>>
helper  == <<child, g_flags, hset, hidx>>
notices == <<changed, dirChanged>>
display == <<status, shown>>
bounds  == <<asks, elevations, extras>>
ghosts  == <<owed, dropped>>
vars    == <<window, config, service, view, idx, helper, notices, display, maySignal,
             bounds, ghosts>>

NoJob           == [kind |-> "none", force |-> FALSE, old |-> 0, ver |-> 0]
IndexJob(force) == [kind |-> "index", force |-> force, old |-> 0, ver |-> mem]
SettingsJob     == [kind |-> "settings", force |-> FALSE, old |-> old, ver |-> mem]

Waiting   == {"prompt"}                \* pkexec, still a process of the user
Unhandled == {"load", "handlers"}      \* the helper before InstallSignalHandlers
Indexing  == {"index", "scan", "save", "monitor", "loop", "reload", "reindex"}
Alive     == Waiting \cup Unhandled \cup Indexing

-----------------------------------------------------------------------------
(* Signals.                                                                *)

\* kill(2): a signal ends a process that has no handler for it, and sets the
\* flag of HandleSignal in one that has. What is sent to the window's own
\* processes arrives; root's may be out of its reach, and kill's result is not
\* looked at.
Kill(flag) ==
    CASE child \in Waiting \/ (child \in Unhandled /\ maySignal) ->
             child' = "dead" /\ UNCHANGED g_flags
      [] child \in Indexing /\ maySignal ->
             g_flags' = g_flags \cup {flag} /\ UNCHANGED child
      [] OTHER -> UNCHANGED <<child, g_flags>>

\* SendSignalToHelper with SIGHUP or SIGUSR1. An elevated window's process is
\* running, or has ended and not been reported yet.
SendSignalToHelper(flag) ==
    /\ missed' = TRUE
    /\ Kill(flag)
    /\ owed' = "asked"

-----------------------------------------------------------------------------
(* The UI thread's handlers.                                               *)

Ui == open /\ ~saving

\* A command that is queued cancels the one before it, if that is not done.
Post(j) ==
    /\ job' = j
    /\ needsFullRebuild' = (needsFullRebuild \/ job # NoJob)

\* MainWindow::ApplySettings sets settings_, then Settings.Save opens its file,
\* which is empty until the lines are written.
SaveBegins(new) ==
    /\ Ui /\ asks < MaxAsks
    /\ asks' = asks + 1
    /\ old' = mem /\ mem' = new
    /\ file' = Torn
    /\ saving' = TRUE
    /\ UNCHANGED <<window, service, view, idx, helper, notices, display, maySignal,
                   elevations, extras, ghosts>>

\* Save refuses (a path with a newline, a directory it cannot make, a file it
\* cannot open), and the file stays: settings_ is changed, and nobody is told.
SaveRefused(new) ==
    /\ Ui /\ asks < MaxAsks
    /\ asks' = asks + 1
    /\ mem' = new
    /\ dropped' = TRUE
    /\ UNCHANGED <<window, file, saving, old, service, view, idx, helper, notices, display,
                   maySignal, elevations, extras, owed>>

\* The stream fails while the lines are inserted: the file is cut off as well.
SaveFails ==
    /\ open /\ saving
    /\ saving' = FALSE /\ old' = 0
    /\ dropped' = TRUE
    /\ UNCHANGED <<window, mem, file, service, view, idx, helper, notices, display, maySignal,
                   bounds, owed>>

\* The rest of ApplySettings, once Save has returned true. The last lines are
\* written when the stream is closed, and whether they were is not looked at.
ApplySettings ==
    /\ open /\ saving
    /\ file' \in {mem, Torn}
    /\ dropped' = (dropped \/ (elevated /\ file' # mem))
    /\ saving' = FALSE /\ old' = 0
    /\ IF elevated THEN SendSignalToHelper("reload") /\ UNCHANGED <<job, needsFullRebuild>>
       ELSE Post(SettingsJob) /\ UNCHANGED <<missed, child, g_flags, owed>>
    /\ UNCHANGED <<open, elevated, proc, mem, reload, view, idx, hset, hidx, notices, display,
                   maySignal, bounds>>

RebuildIndex ==
    /\ Ui /\ asks < MaxAsks
    /\ asks' = asks + 1
    /\ IF elevated THEN SendSignalToHelper("reindex") /\ UNCHANGED <<job, needsFullRebuild>>
       ELSE Post(IndexJob(TRUE)) /\ UNCHANGED <<missed, child, g_flags, owed>>
    /\ UNCHANGED <<open, elevated, proc, config, reload, view, idx, hset, hidx, notices, display,
                   maySignal, elevations, extras, dropped>>

ElevateForFullAccess ==
    /\ Ui /\ ~elevated /\ proc = "none" /\ elevations < MaxElevations
    /\ elevations' = elevations + 1
    /\ proc' = "starting"
    /\ child' \in {"failed", "prompt"}
    /\ g_flags' = {}
    /\ UNCHANGED <<open, elevated, missed, config, service, view, idx, hset, hidx, notices,
                   display, maySignal, asks, extras, ghosts>>

\* errorOccurred(FailedToStart): pkexec is not installed.
StartFails ==
    /\ Ui /\ proc = "starting" /\ child = "failed"
    /\ proc' = "none"
    /\ child' = "none"
    /\ UNCHANGED <<open, elevated, missed, config, service, view, idx, g_flags, hset, hidx,
                   notices, display, maySignal, bounds, ghosts>>

\* Local indexing is stopped, and the files the helper writes are watched. By
\* now the helper may have started from settings of before a change.
OnHelperStarted ==
    /\ Ui /\ proc = "starting" /\ child # "failed"
    /\ proc' = "running"
    /\ elevated' = TRUE
    /\ Post(NoJob)
    /\ dropped' = \/ dropped
                  \/ job # NoJob \/ view # Roots(mem) \/ idx \notin {None, Roots(mem)}
                  \/ file # mem
                  \/ child \in Indexing \cup {"handlers"} /\ hset # mem
                  \/ child \in Indexing \ {"index"} /\ hidx # Roots(mem)
    /\ owed' = "no"     \* a rebuild of the window's own is not asked for again
    /\ UNCHANGED <<open, missed, config, reload, view, idx, helper, notices, display, maySignal,
                   bounds>>

\* The prompt was declined, or the helper has ended: the window indexes by
\* itself again, and rebuilds when a request was signalled.
OnHelperFinished ==
    /\ Ui /\ proc = "running" /\ child = "dead"
    /\ proc' = "none"
    /\ child' = "none"
    /\ elevated' = FALSE
    /\ changed' = FALSE /\ dirChanged' = FALSE
    /\ Post(IndexJob(missed))
    /\ missed' = FALSE
    /\ UNCHANGED <<open, config, reload, view, idx, g_flags, hset, hidx, display, maySignal,
                   bounds, ghosts>>

\* IndexFileWatcher::Changed.
OnIndexFileChanged ==
    /\ Ui /\ changed
    /\ changed' = FALSE
    /\ reload' = TRUE
    /\ UNCHANGED <<window, config, job, needsFullRebuild, view, idx, helper, dirChanged, display,
                   maySignal, bounds, ghosts>>

\* UpdateStatusFromHelperFile: what cannot be parsed is not shown.
OnHelperDirectoryChanged ==
    /\ Ui /\ dirChanged
    /\ dirChanged' = FALSE
    /\ shown' = IF ParseStatus(status) = {} THEN shown ELSE ParseStatus(status)
    /\ UNCHANGED <<window, config, service, view, idx, helper, changed, status, maySignal, bounds,
                   ghosts>>

\* ~MainWindow: the service is shut down, SIGTERM is sent ...
Close ==
    /\ Ui
    /\ open' = FALSE
    /\ Post(NoJob) /\ reload' = FALSE /\ changed' = FALSE /\ dirChanged' = FALSE
    /\ IF elevated THEN Kill("stop") ELSE UNCHANGED <<child, g_flags>>
    /\ proc' = IF proc = "none" THEN "none" ELSE "closing"
    /\ UNCHANGED <<elevated, missed, config, view, idx, hset, hidx, display, maySignal, bounds,
                   ghosts>>

\* ... and after 3 s ~QProcess kills a process that is still there.
DestroyProcess ==
    /\ proc = "closing"
    /\ proc' = "none"
    /\ child' = IF child \in Waiting \/ (child \in Alive /\ maySignal) THEN "dead" ELSE child
    /\ UNCHANGED <<open, elevated, missed, config, service, view, idx, g_flags, hset, hidx,
                   notices, display, maySignal, bounds, ghosts>>

-----------------------------------------------------------------------------
(* IndexService.                                                           *)

\* RunSettingsChange: the two versions are diffed, and their roots alone.
AddedRoots   == Roots(job.ver) \ Roots(job.old)
RemovedRoots == Roots(job.old) \ Roots(job.ver)

\* Mutant of FullScan: that a command was cancelled before this one is forgotten.
FullScanForgets == \/ job.kind = "index"
                   \/ AddedRoots # {} /\ RemovedRoots # {}

FullScan == \/ job.kind = "index" \/ needsFullRebuild
            \/ AddedRoots # {} /\ RemovedRoots # {}

\* The command is done, and none before it is missing from the index.
Finish ==
    /\ job' = NoJob
    /\ needsFullRebuild' = FALSE

\* The settings that the next change will be diffed against.
Held == IF saving THEN old ELSE mem

\* A scan of the settings the command was queued with, and its save, which is
\* noticed by whoever watches.
RunScan ==
    /\ job # NoJob /\ FullScan
    /\ view' = Roots(job.ver) /\ idx' = Roots(job.ver)
    /\ changed' = (proc = "running") /\ dirChanged' = (proc = "running")
    /\ owed' = "no"
    /\ dropped' = (dropped /\ job.ver # Held)
    /\ Finish
    /\ UNCHANGED <<window, config, reload, helper, display, maySignal, bounds>>

\* The added roots alone are scanned, or the entries of the removed ones dropped,
\* and the index is saved; nothing at all is done if the roots are the same ones.
RunDiff ==
    /\ job # NoJob /\ ~FullScan
    /\ view' = (view \ RemovedRoots) \cup AddedRoots
    /\ IF AddedRoots \cup RemovedRoots = {}
       THEN UNCHANGED <<idx, notices>>
       ELSE /\ idx' = view'
            /\ changed' = (proc = "running") /\ dirChanged' = (proc = "running")
    /\ Finish
    /\ UNCHANGED <<window, config, reload, helper, display, maySignal, bounds, ghosts>>

\* Load-if-fresh: the file is not too old.
RunLoad ==
    /\ job.kind = "index" /\ ~job.force /\ idx # None
    /\ view' = idx
    /\ Finish
    /\ UNCHANGED <<window, config, reload, idx, helper, notices, display, maySignal, bounds,
                   ghosts>>

RunReload ==
    /\ reload
    /\ view' = IF idx = None THEN view ELSE idx
    /\ reload' = FALSE
    /\ UNCHANGED <<window, config, job, needsFullRebuild, idx, helper, notices, display, maySignal,
                   bounds, ghosts>>

-----------------------------------------------------------------------------
(* pkexec and the helper.                                                  *)

notHelper == <<window, config, service, view, maySignal>>

\* The user agrees, or declines.
Authorize ==
    /\ child = "prompt"
    /\ child' = "load"
    /\ UNCHANGED <<notHelper, idx, g_flags, hset, hidx, notices, display, bounds, ghosts>>

Decline ==
    /\ child = "prompt"
    /\ child' = "dead"
    /\ UNCHANGED <<notHelper, idx, g_flags, hset, hidx, notices, display, bounds, ghosts>>

\* A start-up check fails, the helper crashes or is killed.
Dies ==
    /\ open /\ child \in Unhandled \cup Indexing /\ extras < MaxExtras
    /\ extras' = extras + 1
    /\ child' = "dead"
    /\ UNCHANGED <<notHelper, idx, g_flags, hset, hidx, notices, display, asks, elevations, ghosts>>

\* LoadSettingsForRoot, at the start and after SIGHUP.
LoadSettings ==
    /\ child \in {"load", "reload"}
    /\ hset' = file
    /\ child' = IF child = "load" THEN "handlers" ELSE "scan"
    /\ UNCHANGED <<notHelper, idx, g_flags, hidx, notices, display, bounds, ghosts>>

InstallSignalHandlers ==
    /\ child = "handlers"
    /\ child' = "index"
    /\ UNCHANGED <<notHelper, idx, g_flags, hset, hidx, notices, display, bounds, ghosts>>

\* writeStatus: the file is replaced, and its directory's watcher told.
WriteStatus(state, files) ==
    /\ status' = SerializeStatus([state |-> state, filesIndexed |-> files,
                                  locations |-> RootsOf[hset]])
    /\ dirChanged' = (proc = "running")

\* Every replacement starts with a temporary file in the same directory, so that
\* the window is also told of it before the file is the new one.
TemporaryFile ==
    /\ child \in {"index", "save"} /\ proc = "running" /\ ~dirChanged
    /\ dirChanged' = TRUE
    /\ UNCHANGED <<notHelper, idx, helper, changed, display, bounds, ghosts>>

\* StartIndexing(force = false) finds a fresh index ...
LoadIndex ==
    /\ child = "index" /\ idx # None
    /\ hidx' = idx
    /\ WriteStatus("Idle", idx)
    /\ child' = "monitor"
    /\ UNCHANGED <<notHelper, idx, g_flags, hset, changed, shown, bounds, ghosts>>

\* ... or scans, as it does after a signal. Progress is written at most every
\* 100 ms.
Scan ==
    /\ child \in {"index", "scan"}
    /\ WriteStatus("Scanning", {}) \/ UNCHANGED <<status, dirChanged>>
    /\ child' = "save"
    /\ UNCHANGED <<notHelper, idx, g_flags, hset, hidx, changed, shown, bounds, ghosts>>

Saved ==
    /\ idx' = Roots(hset) /\ hidx' = Roots(hset)
    /\ changed' = (proc = "running")
    /\ WriteStatus("Idle", Roots(hset))
    /\ owed' = IF owed = "begun" THEN "no" ELSE owed
    /\ dropped' = (dropped /\ hset # mem)
    /\ child' = "monitor"
    /\ UNCHANGED <<notHelper, hset, shown, bounds>>

\* Mutant of SaveIndex: the flags are cleared when the request is done.
SaveIndexForgets == child = "save" /\ Saved /\ g_flags' = g_flags \ {"reload", "reindex"}

SaveIndex == child = "save" /\ Saved /\ UNCHANGED g_flags

\* The monitors are started (again). Their status says no number of files.
StartMonitoring ==
    /\ child = "monitor"
    /\ WriteStatus("WatchingForChanges", {})
    /\ child' = "loop"
    /\ UNCHANGED <<notHelper, idx, g_flags, hset, hidx, changed, shown, bounds, ghosts>>

\* Mutant of TakeReload: the flag is read, and not exchanged.
TakeReloadKeeps ==
    /\ child = "loop" /\ "stop" \notin g_flags /\ "reload" \in g_flags
    /\ child' = "reload"
    /\ owed' = IF owed = "asked" THEN "begun" ELSE owed
    /\ UNCHANGED <<notHelper, idx, g_flags, hset, hidx, notices, display, bounds, dropped>>

\* g_reloadSettings.exchange(false).
TakeReload ==
    /\ child = "loop" /\ "stop" \notin g_flags /\ "reload" \in g_flags
    /\ g_flags' = g_flags \ {"reload"}
    /\ child' = "reload"
    /\ owed' = IF owed = "asked" THEN "begun" ELSE owed
    /\ UNCHANGED <<notHelper, idx, hset, hidx, notices, display, bounds, dropped>>

\* g_reindexNow.exchange(false), looked at after the reload, which may have
\* been asked for since.
TakeReindex ==
    /\ child = "loop" /\ "stop" \notin g_flags /\ "reindex" \in g_flags
    /\ g_flags' = g_flags \ {"reindex"}
    /\ child' = "scan"
    /\ owed' = IF owed = "asked" THEN "begun" ELSE owed
    /\ UNCHANGED <<notHelper, idx, hset, hidx, notices, display, bounds, dropped>>

\* PersistLiveChanges.
SaveLiveChanges ==
    /\ open /\ child = "loop" /\ extras < MaxExtras
    /\ extras' = extras + 1
    /\ idx' = hidx
    /\ changed' = (proc = "running") /\ dirChanged' = (proc = "running")
    /\ UNCHANGED <<notHelper, helper, display, asks, elevations, ghosts>>

Stop ==
    /\ child = "loop" /\ "stop" \in g_flags
    /\ child' = "dead"
    /\ UNCHANGED <<notHelper, idx, g_flags, hset, hidx, notices, display, bounds, ghosts>>

-----------------------------------------------------------------------------
\* The window has just been opened, by a user whose last session left an index
\* of these settings or none, and perhaps half a status file.
Init ==
    /\ open = TRUE /\ elevated = FALSE /\ proc = "none" /\ missed = FALSE
    /\ mem = 1 /\ file = 1 /\ saving = FALSE /\ old = 0
    /\ job = IndexJob(FALSE) /\ reload = FALSE /\ needsFullRebuild = FALSE
    /\ view = {} /\ idx \in {None, Roots(1)}
    /\ child = "none" /\ g_flags = {} /\ hset = 1 /\ hidx = {}
    /\ changed = FALSE /\ dirChanged = FALSE
    /\ status \in OldStatus
    /\ shown = {}
    /\ maySignal \in BOOLEAN
    /\ asks = 0 /\ elevations = 0 /\ extras = 0
    /\ owed = "no" /\ dropped = FALSE

Handlers == ApplySettings \/ SaveFails \/ StartFails \/ OnHelperStarted \/ OnHelperFinished
            \/ OnIndexFileChanged \/ OnHelperDirectoryChanged \/ DestroyProcess
Service  == RunScan \/ RunDiff \/ RunLoad \/ RunReload
Helper   == LoadSettings \/ InstallSignalHandlers \/ LoadIndex \/ Scan \/ SaveIndex
            \/ StartMonitoring \/ TakeReload \/ TakeReindex \/ Stop

\* The versions are numbered in the order they come in.
ChangeSettings == \E new \in (mem + 1)..LastVersion : SaveBegins(new) \/ SaveRefused(new)

Next == \/ ChangeSettings \/ RebuildIndex \/ ElevateForFullAccess \/ Close \/ Authorize
        \/ Decline \/ Dies \/ TemporaryFile \/ SaveLiveChanges \/ Handlers \/ Service \/ Helper

\* The event loop, the service's worker and the helper run on; the user, the
\* prompt, deaths and live changes need not come.
Spec == Init /\ [][Next]_vars /\ WF_vars(Handlers) /\ WF_vars(Service) /\ WF_vars(Helper)

-----------------------------------------------------------------------------
\* Nothing is under way in the window, and its helper is gone or in its loop.
Rest ==
    /\ Ui /\ job = NoJob /\ ~reload /\ ~changed /\ ~dirChanged
    /\ proc = "none" \/ (proc = "running" /\ child = "loop" /\ g_flags = {})

\* A request root's helper could not be sent waits for the helper to leave.
KeptForLater == elevated /\ missed /\ ~maySignal

\* A Settings change or a rebuild that was signalled to the helper has been
\* carried out once everything has come to rest, by the helper or, when it was
\* not there to take it, by a rebuild of the window's own (unless the next
\* elevation cancels that); or it is kept for when the helper leaves
\* (SendSignalToHelper, OnHelperFinished, the flags of main_helper.cpp).
RequestsAreServed == Rest => owed = "no" \/ KeptForLater

\* At rest the window searches an index of the roots it has in its settings,
\* whatever was added, removed, cancelled or signalled on the way. The exceptions,
\* each until something is scanned in full, are a change nobody was told of as its
\* Save failed (ApplySettings), after which the next one is diffed against roots
\* never indexed; a save that was cut off without Save noticing, if the helper is
\* to read it; and a request lost to an elevation (OnHelperStarted).
ViewFollowsSettings == Rest => view = Roots(mem) \/ dropped \/ KeptForLater

\* The window shows no part of a status, nor a mixture of two (ParseStatus).
ShownWasReported == shown \subseteq Statuses

\* Whatever is asked for, signalled and lost, everything comes to rest: no
\* request is repeated for ever, none waits for a helper that is gone.
SessionSettles == []<>(Rest \/ child = "prompt" \/ ~open)
=============================================================================
