# Verification of indexed

`indexed` is a desktop file-name search for Linux: a scanner fills an in-memory
index of every path below the selected roots, a window searches it as the user
types, inotify or fanotify keep it up to date, and an optional root helper does
the indexing when the user's own rights are not enough. The models below are
translated from the C++ sources under `src/src/`; the definitions say which
lines they stand for in `PROJECT.json` (`map`).

## The system

| Component | State it keeps | Operations | Talks to |
|---|---|---|---|
| `IndexService` (`core/indexer`) | command queue, tokens of scan commands, busy count, recorded removals, needsFullRebuild | RequestIndexing, RequestSettingsChange, RequestReload, RequestFileOperations, RequestStopLocalIndexing, Shutdown | worker thread and file-operations thread; `Indexer`, `IndexStore`; callbacks posted to the window |
| `Indexer` | none but its references | StartIndexing (load-if-fresh or rebuild), IndexPaths, RemovePaths, PersistIndex, StartLiveMonitoring, ApplyChangeEvent | scanner, store, serializer, monitors |
| `WalkScanner` | a queue of directories per scan | Scan | a pool of threads calls back for every entry |
| `IndexStore`, `IndexPool` | staged and live pool, build time | BeginWrite/AddEntry/EndWrite/AbortWrite, ApplyAdd/Remove/Rename, RemoveEntriesUnderPath, LoadPool | read by searches under a shared lock |
| `InotifyWatcher`, `FanotifyMonitor` | watch table, moves waiting for their pair | StartMonitoring | one thread per root, calls ApplyChangeEvent |
| `IndexSerializer`, `Elevation` | the index file and its temporary files | Save, Load, WriteFileAtomically, ReplaceFileForRootWrite | GUI and helper write the same file |
| helper (`helper/main_helper.cpp`), `SaveThrottle` | three signal flags, the dirty flag, the interval | signals, rebuild, live save, flush | owns an Indexer; seen by the GUI through the index file and the status file |
| `SearchLineEdit`, `SearchCoordinator` | text, timers, current token, threads | TextChanged, SetQuery, StartSearch | one thread per search, results posted to the window |
| `SearchEngine`, `TokenMatcher`, `SimdSearch` | the instructions the processor has | Search, FindSubstring | read the store under its shared lock |
| `MainWindow` | elevation, batches under way, status shown | everything the user can do | all of the above |
| `ResultModel`, `ResultView` | rows, pending paths, selection, sort | SetEntries, sort, keys, context menu | signals to `MainWindow` |
| `Settings`, `IniFile`, `PathUtils` | the settings and their file | Load, Save, CollapseRedundantRoots | window writes, helper reads |
| `StatusFile` | the status file | SerializeStatus, ParseStatus | helper writes, window reads |
| `SettingsDialog`, `FirstRunDialog`, `MountEnumerator` | lists and fields | accept, Result, PreselectMounts | settings, `/proc/self/mountinfo` |
| `RootsDiff` | | DiffRoots | `IndexService` |

What makes them correct, and where it is hard:

* **IndexService.** The index follows the latest request although commands are
  cancelled at any point; a file deleted through the window never comes back
  because of a scan that had already seen it; busy is reported exactly while
  there is work; a reload that is dropped loses nothing; shutdown ends both
  threads and loses no file operation. Three threads, two locks, tokens read
  without a lock.
* **Helper.** A live change reaches the file, the only way it reaches the
  window, across failing writes, signals, restarts of the monitors and exit;
  saves keep an idle gap. Monitor threads set a flag the main thread clears.
* **Search.** Late results never replace newer ones; at rest the rows are those
  of the text, options and index of the moment. Threads are not joined, results
  travel through an event queue, four timers.
* **Live monitoring.** The index ends up agreeing with the file system. Events
  describe a file system that has moved on; the contents of a new directory are
  walked while events for them are being queued.
* **Rows.** The selection is of files although Qt keeps it by row; a row is grey
  exactly while its file is in a batch; a failed batch is reported with its own
  verb; a thread that looks for a file does not outlive the window it calls.
* **Elevation.** A request that is signalled to the helper is carried out, by it
  or after it: pkexec may be prompting, the helper may have no handlers yet, be
  busy, die, or be out of the reach of `kill`. No torn status is shown.
* **Settings.** What was saved is what is loaded, whatever folders are called and
  whenever the program stops; roots can be collapsed without losing one.
* **Names.** A search finds the matches and only those, from pools of bytes
  addressed by offsets, in chunks of the processor's width, before and after the
  index has been saved and loaded.
* **Files.** A crash or a second writer leaves a file that loads.
* **Scanner.** Every directory is read once and the threads all end.

The hazards are listed line by line in `PROJECT.json`.

## Modules

| Module | What it is |
|---|---|
| `IndexService.tla` | UI thread (requests, elevation, reload, close), worker thread, file-operations thread, live pool, index file, file system |
| `IndexServiceProofs.tla` | type correctness and the seven safety properties of `IndexService`, for any roots, paths and number of requests |
| `LiveSave.tla` | helper main loop, signals, monitor threads, `SaveThrottle`, a clock |
| `LiveSaveProofs.tla` | type correctness, ChangesStayPending, IdleGap |
| `Search.tla` | `SearchLineEdit`, `SearchCoordinator` and its threads, result handling of `MainWindow` |
| `SearchProofs.tla` | SettledIsCurrent and NeverBackToOlder, for any texts, inputs and changes |
| `Scan.tla` | what a scan promises, whoever does it: the abstract specification |
| `DirectoryScan.tla` | `WalkScanner`: `DirectoryQueue` and the threads that share it; implements `Scan` |
| `DirectoryScanProofs.tla` | type correctness, NobodyLeavesEarly, one reader for each directory and the refinement of `Scan` |
| `LiveMonitor.tla` | `InotifyWatcher` and `FanotifyMonitor`, `Indexer::ApplyChangeEvent`, entries of the store, with a file system and a kernel queue |
| `LiveMonitorProofs.tla` | NothingMissing, IndexIsExact and DirectoriesWatched, for any tree and any number of changes |
| `ReplacedFile.tla` | what the index file promises to those who save and load it: the abstract specification |
| `IndexFile.tla` | `WriteFileAtomically`, `ReplaceFileForRootWrite`, `Load`, `IndexFileWatcher`, with a directory, inodes and crashes; implements `ReplacedFile` |
| `IndexFileProofs.tla` | the refinement of `ReplacedFile` and QuietIsCurrent, for any number of saves and crashes |
| `EntryPool.tla` | `IndexPool` and what of it is saved and loaded |
| `NameSearch.tla` | `SearchEngine`, `TokenMatcher`, `SimdSearch`, over `EntryPool` |
| `Mounts.tla` | the parser of `/proc/self/mountinfo` |
| `SettingsFile.tla` | `Settings`, `IniFile`, `PathUtils`, both dialogs, restarts |
| `StatusFile.tla` | the helper's status as text, and its parser |
| `Session.tla` | the window and its elevated helper: pkexec, signals, the files they share |
| `SessionProofs.tla` | the three safety properties of `Session`, for any history of settings and any old status file |
| `ResultRows.tla` | rows, selection, sort, commands, batches and `OpenPath`'s threads |
| `ResultRowsProofs.tla` | the four properties of `ResultRows`, for any paths, results and inputs |
| `MC*.tla` | the small instances |

### IndexService

One action is one critical section of `mutex_`, of `queueMutex_` or of the
store, one callback of the scanner, or one file-system call. The UI thread's
requests take two steps, as in the code: the tokens are set under `mutex_`
(`Supersede`), then the command is queued (`Enqueue`). The worker's program
counter `wpc` names the call it is in: a scan looks at a path (`Look`) and emits
it later (`Emit`), which is when a removal can slip between; the staged pool is
swapped in (`ScanCompletes`), serialised, written, and `FinishScan` re-applies
the recorded removals. A pool maps a path to its number of live entries, since
`ApplyAdd` appends without a lookup. `RootsDiff` and `needsFullRebuild_` are
operators (`Mode`, `ModeOfDiff`). The age of the file is left out: load-if-fresh
may find any file fresh or stale. While the helper owns the indexing it may
replace the file (`HelperSave`), which makes the window ask for a reload.
`ApplySettings` puts the new roots into `settings_` before it saves them: when
`Save` fails, nothing is posted (`ChangeUnposted`), and the next change is diffed
against roots nobody has indexed.

`gone`, `unseen`, `staleLoad`, `asked` and `missed` are history variables, read by
properties only. `asked` is the roots of the newest request that was posted;
`missed` the roots by which the base of a diff differed from them, until a full
scan is swapped in.

### LiveSave

Contents are version numbers: every change is a new version of `index`, a save
copies it to `buf` and then to `file`. Time passes in ticks while the program
does anything; `Unsigned` wraps a negative difference as `uint64_t` does. The
interval is computed from the last duration as in `RecordSaveDuration`.

### Search

A search is a record of what it was asked and of the version of the index it
read. Its thread reads under the shared lock, checks its token, posts; the
window checks the token again when it handles the event. Timers may fire at any
time once they run. The selected row is assumed to be in every list, so that a
selection can only be lost by what the code does (no property is stated of it).

### Scan and DirectoryScan

`Scan` reports entries one at a time, none twice, none out of scope, and returns
once it was cancelled or nothing in scope that still exists is left. It says
nothing of directories, threads or a queue. `DirectoryScan` is the code: the
roots are collapsed and queued (`Seed`), each thread takes a directory under the
queue's lock (`Pop`), opens it, reads it a buffer at a time (`Read`), and reports
and queues what it read entry by entry (`Handle`), a `statx` and a callback each;
`Done` lowers the count that ends the other threads. Its order of readings is
free, and files may vanish at any point. The refinement maps `finished` to `Scan`
having returned and the scope to `ScopeOf`, a definition over the whole tree that
does not mention how it is walked.

### LiveMonitor

`backend` is the monitor `ChooseMonitor` made: the helper has fanotify if the
root can be marked with it, the window always inotify. Other programs create, write, remove and rename files and directories; the
kernel queues an event if the directory it happens in is watched (`Event`), and a
watch belongs to an inode, so that it survives renames. The thread handles an
event at a time; a walk of a new subtree (`WatchNext`, then `ReadSubtree` and
`EmitNext`) is one step per directory, so that anything may happen in between. A
batch ends when the queue is empty, and moves without a pair are then removals
(`Leave`). The two halves of a rename are queued one by one, so a batch may end
between them. `gaps` notes an unpaired move and a walk cut short by a directory
that vanished, after which the code promises nothing; `doubtful` notes the files
the code may list twice or under an old path: overwritten by a rename, in a
renamed directory, or reported by a walk. Both are read by properties only.

With fanotify there are no watches, walks or batches. An event names its
directory by a handle, which is resolved when the event is read
(`ResolveDirPath`): to the present path, or to none if the directory is gone,
and then the event is dropped. The kernel may merge an event into an unread one
about the same entry (`Merges`), and `ClassifyMask` takes the first bit of its
fixed order. The two halves of a rename are a removal and an addition.
`misreported` notes the files that may be unlisted for one of these reasons. With
inotify it notes those whose row went to an event of another file: the table
gives an event the path it has for the watch (`Astray`), and a directory may
have left that path, and another come to it, before the walk that follows the
rename has told the table.

### ReplacedFile and IndexFile

`ReplacedFile` knows a version in the file and the versions of which a power
failure may leave one; a save replaces the file in one step, and returns true
only when nothing older can come back. `IndexFile` is the code: names, inodes,
their contents (`some` or `whole`), what has been synced, and the directories a
power failure may leave (`dirs`, which an fsync of the directory collapses). One
action is one system call or handler. The window truncates a leftover temporary
file, the helper removes it and insists on a new one. `news` is the queue of
notifications as inotify merges them; an inode that a load still has open is
gone only when it is closed, and that is when its watch ends. A power failure
keeps a beginning of the renames and any part of what was not synced. `replaced`
is read by the property only: before the watcher exists nobody need notice.

### EntryPool and NameSearch

`EntryPool` has the arrays of the code, one variable each, with offsets from
zero: `AddedTo` and `LoadFromPathPool` compute them in two ways, and `Serialize`
drops deleted entries and compacts the paths. Names are sequences over a few
characters. `NameSearch` takes one entry per step (`SearchEntry`), so that a
cancellation may come between any two. The chunks of `FindSubstring` are two or
three bytes wide, so that names of six have chunks and a tail. What utf8proc does
to a character is a table; a regular expression is a literal, since RE2 is
trusted. The properties compare with definitions that have no offsets, chunks,
spans or cached words: `IsWord`, `Occurrences`, `IsMatch`.

### Mounts and SettingsFile

The file is a function from keys to escaped values; its order is that of a hash
table, so that a cut-off file is any of its lines and part of another (`CutOff`).
`SaveOpens` truncates it and `SaveWrites` fills it when the stream is closed,
after `Save` has returned; a save may be refused, cut off by a full disk, or
killed. One edit of the Settings dialog changes one thing, and accepting it reads
every field again. The folders have the names that the code could stumble over:
a newline (refused), backslashes, a blank at the end, a dash (which sorts before
the slash), a link, a slash at the end. `saved` is what the last complete save was
told to write.

### StatusFile and Session

`Session` composes what the other models take for granted about the elevation.
Settings are versions, each with its roots (`RootsOf`), and an index is the set of
the roots it was built from; what the exclusions of a version keep out is not
modelled. `ApplySettings` is taken apart: `settings_` is set first; then the save is
refused (`SaveRefused`), fails half-way (`SaveFails`), or returns, and the file may
be cut off all the same. A change made without the helper is diffed
(`AddedRoots`, `RemovedRoots`) and scanned as `RunSettingsChange` does it: in full
(`RunScan`), the added roots alone or no more than a removal (`RunDiff`), and not at
all when only exclusions have changed. `proc` is
`QProcess`'s state and `child` what the process is really doing: pkexec's prompt,
the helper before its handlers, or one of the steps of its loop. `Kill` is
kill(2): it ends a process without a handler, sets a flag in one with it, and is
refused when the kernel does not let the user signal root's process
(`maySignal`, chosen once). The helper reads a settings file that may be half
written (`Torn`). `owed` follows a signalled request until it is carried out;
`dropped` notes a change that was lost: its Save failed and nobody was told, the
file the helper is to read was cut off, or `OnHelperStarted` cancelled or raced with
a local request. It lasts until the window's settings are scanned in full. Both are
read by properties only.

### ResultRows

A row is a path with its sort keys. `Sorted` is every order `std::sort` may
produce, `Deselected` what a model reset does to Qt's selection, and
`RestoreSelection` the way by texts that puts it back. `chosen` follows the user's
choice by name, for the property. A batch fails for any subset of its paths. A
thread of `OpenPath` takes the mutex in `CheckAlive` and leaves it in
`PostChecked`; `ClearAlive` in the destructor needs it free. What it posts
(`OnOpenPathChecked`) opens the file or offers a rebuild, changes nothing here
and is left out. A path that is not valid UTF-8 becomes `Garbled` on its way
through a `QString`.

## Runs

| Run | Instance | Shows |
|---|---|---|
| `requests` | 2 roots, 2 paths, 4 of: requests, a change whose Save fails, an elevation; 2 reloads and a helper save | LatestRequestWins, ListedOnce, MonitorFollowsRequests, BusyMatchesWork, CoalescedReloadIsPending |
| `close` | 2 requests, a batch of one or two files and the window closed at any time, with fairness | RemovedStaysRemoved, ViewIsCurrent, ShutdownEnds, OperationsFinish |
| `livesave` | 2 monitors, 2 changes, 1 signal, 1 setting back of the clock, writes may fail | ChangesStayPending, IdleGap, ChangesReachFile, StopEnds |
| `search` | 2 texts, 3 inputs, 1 index change, with fairness | SettledIsCurrent, NeverBackToOlder, SettlesDown, CloseEnds |
| `directory_scan` | 2 threads, a tree of 11 paths with a mount, a link, an exclusion and nested roots, 2 removals, cancellation | ScanPromise (the refinement), ScanReturns (with fairness), NobodyLeavesEarly |
| `selected_mount` | violated | a selected mount below another root is not scanned |
| `livemonitor` | 5 changes of a tree with 3 directories and 3 places for files, with inotify and with fanotify | NothingMissing, DirectoriesWatched, IndexIsExact |
| `index_file` | 3 saves by two processes, one process killed or one power failure | SavePromise (the refinement), QuietIsCurrent |
| `name_search` | 7 names, pools of up to 3 entries, 8 queries under 24 sets of options, chunks of 0, 2 and 3 bytes, at most 2 results | EntriesAreWhatWasAdded, ResultsAreTheMatches, HighlightIsFirst |
| `settings` | 7 folders, 2 edits, 1 fault, 3 mount tables | SavedIsLoaded, OpeningChangesNothing, RootsCoverWhatIsChosen, HomeIsPreselected |
| `session` | 3 versions of the settings (a root added, removed, exclusions only), 2 requests, 2 elevations, 1 death or live save of the helper, saves that fail, a cut-off status file, with fairness | RequestsAreServed, ViewFollowsSettings, ShownWasReported, SessionSettles |
| `rows` | 2 files and one of no valid UTF-8, 4 result lists, 5 inputs | SelectionFollowsFiles, GreyWhileOutstanding, VerbsMatchBatches, NoCallAfterDestroy |

Bounds. Two roots give a diff with an added and a removed root, two paths a
scan that has emitted one and not the other, or a batch of which one operation
fails. Four requests reach the longest chain in the code's logic: a finished
index, a Settings change cancelled half-way, another that must not trust its
base, and one more to supersede it; a change whose Save fails, or an elevation,
takes the place of one of them (`FourInAll`). Two are enough where a batch races
with them. Longer chains are left to the proofs, which have no bound. One elevation with its exit covers both ways back. In `livesave` two
threads reach the race between setting and clearing the dirty flag with another
change under way; a tick is the minimum interval, so the longest idle gap is a
handful of ticks and time stops being counted beyond it (`Forever`). In `search`
two texts and three inputs reach a superseded search in flight, a cleared box
and a return to the first text; more inputs repeat the same shapes. In
`directory_scan` each shape of entry the code tells apart is there once; two
threads reach every race of the queue, whose count does not tell threads apart,
and the safety properties are proved for any tree and any number of threads. In `livemonitor` five changes make, fill, rename and remove two directories in any
order, one of them below or in the place of another; the sixth that a stale path
needs to do harm is left to the proofs, which have no bound.
In `index_file` two saves of one writer and one of
the other make a leftover to clean and a rename between every two steps of a
load; with one crash each of them can be the one cut short. In `name_search` the
second and third entry are there to shift the offsets of the first, so that two
names are enough for them; two results reach the cap with an entry left. In
`settings` two edits make and then change a list, between any two starts. In
`session` the second request finds the first in any of its stages, the second
elevation finds what the first has left; the versions are chosen so that
`RunSettingsChange` adds, removes or does nothing, from a base that was indexed and
from one that was not (that both change is in `requests`). In `rows` five inputs select, sort,
delete and confirm twice; results need no bound, since they replace one another.
Symmetry (swapping the roots together with their paths, or the texts) is used
only where no liveness property is checked.

Fairness. Threads are scheduled (weak fairness on each), started timers fire and
posted events are handled; in `session` the window's handlers, the service and
the helper go on. The user, the prompt, the helper's saves and its death, live
changes and signals have none: they may stop for ever. `LiveSave` needs strong
fairness of a succeeding write: a disk that refuses every write is not a fault
the code promises to survive. Ticks are weakly fair.

## Proofs

`RemovedPathsStayRemoved` (`IndexServiceProofs`) shows, for any roots, paths and
bounds, that once the scans a removal raced with are over no path removed by a
file operation is live. RemovedStaysRemoved is not inductive: it says nothing
of a scan in progress. The invariant `RemovalInv` counts instead: every live
entry of a removed path, and every one a scanner thread is about to add to the
live pool, is matched by a removal still to come, FinishScan's (the path is in
`removedDuringScan` or in the worker's copy of it) or the file-operations
thread's own; and no staged or loaded entry of it can be swapped in before its
removal has been recorded. `WorkerInStep` says when the worker has anything
staged, in flight or to re-apply. The proof has one step per action of the three
threads; `TypeCorrect` is proved first. The counts cannot be reached from the
code's comment alone: it holds because a path goes at most once through a scan.

The rest of the module proves the other safety properties of `IndexService`.
LatestRequestWins speaks of the moment when everything is handled and says
nothing of a request under way, so it is far from inductive. The invariant
follows the newest request instead (`RequestInv`), which is at one of four
places: being posted (`IsPosted`), queued, being run, or done. At each of them
it says what makes the index come out right. A full scan needs nothing: it
stages a pool of its own. A Settings change was diffed against the roots in
`settings_`, which are those of the request before it but for the ones in `missed`
(`Agree`), and an incremental pass is only right over an index of those roots:
either it is one, or
`needsFullRebuild` is set, or a command before it in the queue, cancelled or not,
will set it. While a scan runs, `DataInv` counts: what it has found and what it
has still to find are, together, the paths below its roots, each once.
`OthersCancelled` and `NewestLast` make "the newest" mean one command: no other
scan is to be carried out, and none once the helper has taken over. `ListedOnce` is
inductive beside it: a path is added only while `DataInv` counts it as still to be
found. `BusyInv` says
that the busy count is a sum over the three places a command can be in; `RunInv`
that a scan which stops half-way was cancelled, and that one which was not has
done all it had to; `ViewInv` that a change nobody has been told of belongs to the
batch under way or to a command not done; `HelperInv` that once the helper has
taken over, monitoring has been stopped or a stop command with nothing but reloads
behind it is on its way. `QueueInv` is the rest: which command the worker can have
at which step, and that identifiers come from those used. `RemovalInv` is a conjunct too: without it a file removed during the scan
could come back and be counted twice.

`LiveChangesStayPending` rests on what a save holds (`PendingInv`): while bytes
are being written they are the live index, or the flag is set or about to be.
`IdleGapIsKept` is about a clock that has not been set back (`back = 0` in IdleGap);
it needs a relation between the interval, the last duration and the time
that has passed. Only arithmetic facts of the ticks are used, no bound.

`ScanKeepsItsPromise` (`DirectoryScanProofs`) shows that the scan implements
`Scan`, for any tree, roots, exclusions and number of threads. It takes three
arguments. The queue: `CountInv` ties inFlight to the threads that hold a
directory, so that a thread that sees no directory and a count of zero is right
that nobody will push another (`ThreadsLeaveTogether`). Nothing twice (`Once`):
a directory has one place, in the queue or with one thread (`PlacesInv`), whose
directories all lie below one root on its device (`RegionInv`), what a thread
has read and not handled is unreported (`ReadInv`), and so is everything in a
directory that nobody has opened (`FreshInv`); that redundant roots are dropped
is what keeps a root from being found from above. Nothing missing
(`CompleteInv`): what is in scope, exists and is unreported lies at or below
something a thread has read, is to open or finds queued, or a root not looked at
yet; it needs that only empty directories are removed (`FilesInv`). When all
threads have left, nothing is pending. The lemmas on paths (a path above another is a beginning of
it; two paths above one are above each other) replace an induction on depth.

`SettledIsCurrentHolds` (`SearchProofs`) needs to know of the newest search, while it
is under way, what the property says of its results on the screen. `AskedInv`
says it for as long as a text has been asked for: the newest search is with a
thread, posted, or shown (`UnderWay`), it is of the text and options
there are (`AllFit`), and what it read is current or a refresh is still to come
(`AllFresh`). `IdInv` orders the searches, so that no other one can replace its
results; `NeverBackToOlderHolds` follows from it, because `Deliver` looks at the token
again on the GUI thread.

`LiveMonitorProofs` proves all three properties of `LiveMonitor`, for any tree of
paths and any number of changes, where no walk was cut short and no move lost its
pair. With inotify a directory is where the table has it (`Known`), or a walk of
something above it has still to watch it, or an event that has not been handled says,
in the name of a directory that is known, that something above it has arrived
(`TableInv`); the kernel never gives a watched directory a second descriptor, and
`IgnInv` says that an event of one that has gone has no directory behind it. A file is listed, or
below what the second walk has still to visit, or an arrival of it or of something
above it is queued under the descriptor of its directory, whatever the table calls it
(`FileInv`). That an event does not take a row it should not rests on three more:
a removal in the queue is followed by an arrival if there is something under that
name again (`RemInv`), the events of a rename are neighbours with a cookie of their own (`PairInv`), and a
movedFrom that waits has its movedTo at the head of the queue (`PendInv`). With
fanotify there is nothing to watch and to walk; `FanFile` says of the entries of each
directory, by its handle, what FileInv says of paths, and that a removal in the queue
has an arrival behind it, which a rename of the directory leaves as it is.

IndexIsExact needs to know of the events in the queue what the counts of rows come
to when they are handled one by one (`Row` and `OkRows`). As long as every movedFrom
that waits has its movedTo to come (`Live`), a file that is
not in doubt has at most one row; between two of its arrivals in the queue there is a
removal (`Spaced`, `Apart`); an arrival is preceded by a removal if there is a row
(`Vacant`, `Free`); and a row is that of a file that is there, or its removal is queued
(`Stands`, `Backed`). An event is about a file if it will be handled under its path,
which is not the directory it was sent from unless the table is right: `Home` says
that it is, for the files no rename of a directory above them has put in doubt. That
what arrived and is gone has its removal queued is `ArrInv`, that nothing follows the
last event of a watch `LastInv`. With inotify a file that is there without a row may
have lost it to a movedFrom: its own arrival must then come after the event that
takes the row (`Due`). With fanotify an event may be merged with an unread one about
the same entry: what is then in the queue says nothing of the order of the changes
(`BlurredIn`), and the entry is in doubt as soon as it is read.

The attempt to prove NothingMissing showed that it was false, with six changes, when
`misreported` was about fanotify only: a directory is renamed and another one made
and renamed to its place, and what the table still calls by the old path takes
the row of a file with the same name in the new one.

`SaveKeepsItsPromise` (`IndexFileProofs`) shows that `IndexFile` implements
`ReplacedFile`, one system call at a time, for any number of versions, failures
and crashes. `StorageInv` says what inode stands behind each name in every
directory a power failure may leave: the index file's is whole and synced there, and
no temporary name leads to it. A writer's file keeps its temporary name until it has
been written and synced (`WriterInv`), and the inode of a save that has not created
its file yet is nobody's (`FreshInv`).
A save maps to one step, the rename, or for the promise of durability the fsync
of the directory; every other system call stutters. `QuietIsCurrentHolds` adds
the watcher. After a replacement, either the window has loaded what the file now
holds, or a reload is due or under way, or something queued will ask for one
(`LoadInv`). And a watch on an inode that is no longer the index file's is not
waited on in vain: that the inode has gone is queued, or will be when the reload
that holds it open closes it (`WatchInv`).

`SessionProofs` needs some questions answered in every state.
Where is a request that was signalled and not carried out (`OwedInv`)? In a flag of a
helper that has handlers, in its hands, or, when the signal ended the process or
met a dead one, in `helperMayHaveMissedRequest_`, which becomes a
forced scan in OnHelperFinished. What has the window's own indexing to do
(`LocalInv`), what has the helper's (`HelperInv`): an index of other roots than
the window's is always accompanied by a command, a flag, a scan or a death that
will put it right, and a Settings change that is only diffed starts from an index of
the roots it is diffed with, or `needsFullRebuild_` is set. The file and the helper
are never ahead of the window, nor the helper of the file (`VersionInv`). And what
does the window know of the process (`ProcessInv`)?
That a signal that can be delivered leaves no process without handlers alive is
the fact all the others need. For ShownWasReported two lemmas read the text of a
status line by line (`WholeIsRead`, `CutIsNotRead`): a whole one is read as what
it is, and a proper beginning of one never, because the count of locations says
where the last line must be.

`ResultRowsProofs` proves all four properties of `ResultRows`, for any paths, result
lists, columns and bound. For the batches the invariant adds `BatchInv`, that two
outstanding batches share only paths counted in `twice`, and `PendingInv`, the
pending set itself instead of the rows that happen to be listed: without the
first, a report could take the grey from a path that is in a later batch. For the
selection one lemma carries the argument (`RowsForTexts`): the rows
`RestoreSelection` finds have, as texts, exactly the chosen ones that are still
listed, although a text may be listed twice; that there is a last such row is
the only use of well-foundedness. For the threads, `LockInv` says that who is about
to post holds the mutex alone and saw the window alive under it.

Assumptions: the named ASSUMEs of the modules (types of the bounds, `RootOf` a
function, `Wrap` larger than any time reached, the tree closed under taking the
directory of an entry, what is there at the start having its directories there, a
`None` that is neither a path nor a kind of event, at least one thread, roots for every version of the
settings, a missing index file that is no set of roots, an old status file that is whole or the beginning of a whole one), all
evaluated by TLC. From the library come facts on finite sets, sequences and
functions. No induction over data and no recursive definition is used. Each
inductive invariant was checked by TLC on the run's instance before it was proved.
Type correctness and `DirectoriesHaveOneReader` are proved and not among the runs'
properties.

Model-checked only: liveness, which is out of the prover's reach; and EntryPool,
NameSearch and SettingsFile.
What these compute by folds over texts holds by induction over data, which cannot
be proved here; TLC compares it with definitions of another shape.

## Disagreements found

The run `selected_mount` is violated by the code: a sentence of the documentation
says that a selected mount is scanned, and a mount below another root is not.
`PROJECT.json` quotes it (`findings`).

Six more were met, with the sentence they contradict; the models have the
behaviour, and the properties are stated around it:

* `MainWindow::ApplySettings` changes `settings_` before `Save`, and returns with
  nothing requested when it fails (MainWindow.cpp:525-532). The next change is
  diffed against roots that were never indexed: after {A}, a refused {A, B} and
  then {A, B, C} only C is scanned, and B stays out until a rebuild, although "the
  index always ends up reflecting the latest request" (IndexService.h:69-70).
  IndexService has it as `missed`, Session as `dropped`; the monitored roots are
  those of the newest request posted, not those of `settings_`.
* With ignored diacritics the span of a result is in the folded text
  (SearchEngine.cpp:53-65 and 194-200), although matchStart and matchLen are "byte
  offsets into whichever text was searched (path if matchPath, else name)"
  (ISearchEngine.h:20-22): in a name that folding makes shorter, or longer, they
  point elsewhere. HighlightIsFirst is about the searched text itself but for this
  case (`LosesMarks`). Nothing in the window reads the span yet.
* A Settings change that `ElevateForFullAccess` cancels is never run. When the
  helper then leaves without having missed a request, load-if-fresh takes an
  index of the old roots (MainWindow.cpp:595, against IndexService.h:68). Session
  has it as `dropped`.
* The helper calls MarkSaved after every rebuild, whether its save succeeded or
  not, so that a live change may be forgotten (main_helper.cpp:321, against
  SaveThrottle.h:32).
* ApplyAdd is not idempotent: a file of a new directory, reported by the rescan of
  the directory and by its walk, has two rows (InotifyWatcher.cpp:146).
* The watch table leaves the old path of a renamed directory in one of its maps: a
  directory moved into a new one may lose its watch at the end of the batch
  (InotifyWatcher.cpp:41, against InotifyWatcher.cpp:108). LiveMonitor has it as an
  unpaired move.

Seen while modelling, and not settled by any sentence of the documentation:

* Index. A removal made through the window is not saved, so a restart brings the
  path back. Two windows of one user save through the same temporary file, and
  one can put the other's half-written one in place (the documentation asks for
  it of the helper only, Elevation.h:118). A status of monitoring says zero files
  (Indexer.cpp:139).
* Helper. `NowNs` reads a clock that can be set back, and a save during which
  that happens ends live saving. `kill` may be refused for root's process, and
  its result is not looked at: the request waits, and at the end of the session
  the helper goes on. A helper that loads a fresh file writes none, so that a
  window whose first load was cancelled by the elevation stays empty until a live
  save. A status that was written before OnHelperStarted is not shown before the
  next change of its directory.
* Search. Whole words are looked for at the first occurrence only, and not at all
  in a query with separators; a query of separators only matches everything.
* Rows. The flag that preserves the selection is taken by whichever results
  arrive first. A name that is not valid UTF-8 can neither be opened nor deleted
  nor greyed. Of two batches with the same path the first report takes the grey
  away.
* Live monitoring. A rename over an existing file lists it twice, and a renamed
  directory leaves its contents listed under the old paths. Excluded paths are
  ignored. A walk ends at the first directory that has vanished. Between the rename
  of a directory and the walk that follows it, an event in it is handled under the old
  path (InotifyWatcher.cpp:230), and may remove the row of a file that another
  directory has brought there; the file stays unlisted until its next event. With fanotify,
  `rm -r` leaves the rows whose events are read after their directory is gone; a
  file moved away and back before the events are read is removed from the index,
  and one deleted and made again listed twice; a directory moved with its contents
  adds one of them; the whole file system is marked, so that with two roots on one
  every event counts twice, and files outside the roots are added.
* Settings. `Save` returns `good()` before the stream is closed, so that a full
  disk is not reported; the file is truncated first. A change of the exclusions
  alone is not applied to the index before the next rebuild, unless a cancelled
  command or the helper makes it a full scan (IndexService.cpp:283-298).

## Not modelled

UiStallDetector, Logger and Version: they change no state that another part
reads. Formatting, labels, layout, clipboard and drag; the tables of utf8proc and
the engine of RE2; the bytes of the index file's header and its checksum; parsing of
raw kernel records; removable devices and hotplug, which read the mount table
again and add a root by way of ApplySettings. `Flush` is a wait used by tests.
Overflow of the kernel's queues and the limit on watches are left out of
LiveMonitor: after either the code promises nothing before the next rebuild. Two
roots at a time are not in LiveMonitor.

## Plan

1. Done: IndexService and LiveSave with their proofs; Search; DirectoryScan, which
   implements Scan, with its proof; LiveMonitor for inotify and fanotify; IndexFile,
   which implements ReplacedFile; EntryPool and NameSearch; SettingsFile with
   Mounts; Session with StatusFile; ResultRows with its proof.
2. Done: proofs of the safety properties of IndexService, Search, IndexFile with its
   refinement, and Session.
3. Done: proofs of LiveMonitor's NothingMissing, IndexIsExact and DirectoriesWatched.
4. LiveMonitor with two roots on one file system, and with a queue that overflows
   and a rebuild that follows.
