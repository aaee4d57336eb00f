---------------------------- MODULE IndexService ----------------------------
(***************************************************************************)
(* The GUI's index worker (src/core/indexer/IndexService.cpp) with the     *)
(* Indexer calls it makes, its file-operations thread, and the UI thread   *)
(* that posts the requests (src/ui/MainWindow.cpp).                        *)
(*                                                                         *)
(* One step is one critical section, one callback of the scanner or one    *)
(* file-system call, so that the worker, the file-operations thread and    *)
(* the UI thread interleave where the code lets them.                      *)
(*                                                                         *)
(* Abstractions: a path is a model value that lies under one root; a pool  *)
(* is the number of live entries it holds for each path; the age of the    *)
(* index file is not modelled, so that load-if-fresh may find any file     *)
(* fresh or stale; live monitoring is the set of roots being watched.      *)
(***************************************************************************)
EXTENDS Integers, Sequences, FiniteSets

CONSTANTS
    Roots,    \* directories a user can select
    Paths,    \* the files below them
    RootOf,   \* the root each path lies under
    NoFile,   \* no index file; no file operation under way
    Limit     \* bound: how often the environment does each of Uses, saves and
              \* reloads in each elevation

Uses == {"request", "refuse", "batch", "save", "reload", "elevate", "close"}

ASSUME RootOfAssumption == RootOf \in [Paths -> Roots]
ASSUME LimitAssumption  == Limit \in [Uses -> Nat]

VARIABLES
    \* The UI thread.
    ui,                 \* "up", then where Shutdown has got to
    settings,           \* settings_.SelectedRoots()
    elevated,           \* the privileged helper owns indexing
    used,               \* what Limit bounds
    posting,            \* a command between the two critical sections of its request
    \* Under IndexService::mutex_ (the tokens themselves are atomics).
    commands, cancelled, scanCancels, pendingBusy, reloadQueued, scanRunning,
    removedDuringScan, shuttingDown,
    \* The worker thread.
    wpc, cmd,           \* where it is, and the command it runs
    mode,               \* how that command changes the index
    todo, inflight,     \* paths not looked at yet; looked at and not yet emitted
    staged,             \* stagingPool_
    buf,                \* the index file read, or the bytes to be written
    completed,
    again,              \* FinishScan's local copy of removedDuringScan
    needsFullRebuild, busyReported,
    monitored,          \* the roots the monitor thread watches
    \* The file-operations thread.
    fpc, jobs, batch, op, succeeded, fileOpsStopping,
    \* The live pool, the index file, the file system.
    pool, disk, fs,
    \* Read by the properties only.
    gone,               \* paths whose removal must last
    unseen,             \* the pool has changed since the last onIndexChanged
    staleLoad,          \* the pool was loaded from a file that covers other roots
    asked,              \* the roots of the newest request posted
    missed              \* roots left out of the diff that should have named them

uiVars    == <<ui, settings, elevated>>
queueVars == <<posting, commands, reloadQueued, cancelled, scanCancels, shuttingDown>>
scanVars  == <<scanRunning, removedDuringScan>>
workVars  == <<cmd, mode, todo, inflight, staged, buf, completed, again>>
flagVars  == <<needsFullRebuild, busyReported, monitored>>
fopVars   == <<fpc, jobs, batch, op, succeeded, fileOpsStopping>>
requestGhosts == <<asked, missed>>
ghostVars == <<gone, unseen, staleLoad, requestGhosts>>

vars == <<uiVars, used, queueVars, pendingBusy, scanVars, wpc, workVars, flagVars,
          fopVars, pool, disk, fs, ghostVars>>

-----------------------------------------------------------------------------
(* Pools and commands.                                                     *)

Pool == [Paths -> Nat]

PoolOf(S) == [p \in Paths |-> IF p \in S THEN 1 ELSE 0]

Under(roots) == {p \in Paths : RootOf[p] \in roots}

\* AddEntry and ApplyAdd append: nothing looks for an entry already there.
Added(pl, p) == [pl EXCEPT ![p] = @ + 1]

\* ApplyRemove tombstones the first live entry of the path, if there is one.
Removed(pl, p) == [pl EXCEPT ![p] = IF @ > 0 THEN @ - 1 ELSE 0]

\* RemoveEntriesUnderPath for every root removed: all their entries go.
RemovedUnder(pl, roots) == [p \in Paths |-> IF RootOf[p] \in roots THEN 0 ELSE pl[p]]

Kinds == {"index", "settings", "reload", "stop"}

Command == [kind : Kinds, force : BOOLEAN, old : SUBSET Roots,
            roots : SUBSET Roots, id : Nat]

NewCommand(kind, force, old, roots) ==
    [kind |-> kind, force |-> force, old |-> old, roots |-> roots,
     id |-> used["request"] + 1]

Plain(kind) == [kind |-> kind, force |-> FALSE, old |-> {}, roots |-> {}, id |-> 0]

\* What RunIndexing and RunSettingsChange are about to do: the roots are
\* diffed, and a full rebuild taken when both sides changed or when the live
\* index cannot be trusted to match the old roots.
AddedRoots(c)   == c.roots \ c.old
RemovedRoots(c) == c.old \ c.roots

ModeOfDiff(c) ==
    CASE AddedRoots(c) # {} /\ RemovedRoots(c) # {} -> "full"
      [] AddedRoots(c) # {} /\ RemovedRoots(c) = {} -> "add"
      [] AddedRoots(c) = {} /\ RemovedRoots(c) # {} -> "prune"
      [] AddedRoots(c) = {} /\ RemovedRoots(c) = {} -> "none"

\* Mutant of Mode: a Settings change trusts its diff.
ModeTrusting(c) ==
    IF c.kind = "index" THEN IF c.force THEN "full" ELSE "load" ELSE ModeOfDiff(c)

Mode(c) ==
    IF c.kind = "index" THEN IF c.force THEN "full" ELSE "load"
                        ELSE IF needsFullRebuild THEN "full" ELSE ModeOfDiff(c)

IsCancelled(c) == c.id \in cancelled

-----------------------------------------------------------------------------
(* The UI thread.                                                          *)

CanPost == ui = "up" /\ posting = <<>>

Spend(use) == /\ used[use] < Limit[use]
              /\ used' = [used EXCEPT ![use] = @ + 1]

storeGhosts == <<gone, unseen, staleLoad>>

notUI == <<scanVars, wpc, workVars, flagVars, fopVars, pool, disk, fs, storeGhosts>>

\* RequestIndexing and RequestSettingsChange up to Enqueue: the tokens of the
\* earlier commands are set, and scanCancels_ holds the new one alone.
Supersede(c) ==
    /\ cancelled' = cancelled \cup scanCancels
    /\ scanCancels' = {c.id}
    /\ pendingBusy' = pendingBusy + 1
    /\ posting' = <<c>>
    /\ asked' = c.roots
    /\ UNCHANGED <<ui, commands, reloadQueued, shuttingDown, notUI>>

\* MainWindow indexes by itself: StartIndexing(false) first, then Rebuild.
RequestIndexing ==
    /\ CanPost /\ ~elevated /\ Spend("request")
    /\ Supersede(NewCommand("index", used["request"] > 0, {}, settings))
    /\ UNCHANGED <<settings, elevated, missed>>

Differ(S, T) == (S \ T) \cup (T \ S)

\* MainWindow::ApplySettings; the new roots may equal the old ones. Its diff
\* is against the roots in settings_, which a refused Save may have changed.
RequestSettingsChange(new) ==
    /\ CanPost /\ ~elevated /\ used["request"] > 0 /\ Spend("request")
    /\ settings' = new
    /\ missed' = missed \cup Differ(settings, asked)
    /\ Supersede(NewCommand("settings", FALSE, settings, new))
    /\ UNCHANGED elevated

\* ApplySettings sets settings_ before it saves: if Save is refused, or cut off
\* half-way, it returns with the new roots in settings_ and nothing posted.
\* While the helper owns indexing it sends SIGHUP instead of posting.
ChangeUnposted(new) ==
    /\ CanPost /\ used["request"] > 0 /\ new # settings /\ Spend("refuse")
    /\ settings' = new
    /\ UNCHANGED <<ui, elevated, queueVars, pendingBusy, requestGhosts, notUI>>

\* OnHelperStarted: RequestStopLocalIndexing sets the tokens, then queues.
Elevate ==
    /\ CanPost /\ ~elevated /\ used["request"] > 0 /\ Spend("elevate")
    /\ elevated' = TRUE
    /\ cancelled' = cancelled \cup scanCancels
    /\ scanCancels' = {}
    /\ posting' = <<Plain("stop")>>
    /\ UNCHANGED <<ui, settings, commands, reloadQueued, shuttingDown, pendingBusy, requestGhosts,
                   notUI>>

\* OnHelperFinished: the prompt was declined or the helper has exited. The
\* index is rebuilt if a request had been signalled to the helper, and loaded
\* from the file otherwise.
HelperFinished(missedRequest) ==
    /\ CanPost /\ elevated /\ used["request"] < Limit["request"]
    /\ used' = [used EXCEPT !["request"] = @ + 1, !["save"] = 0, !["reload"] = 0]
    /\ elevated' = FALSE
    /\ Supersede(NewCommand("index", missedRequest, {}, settings))
    /\ UNCHANGED <<settings, missed>>

\* IndexFileWatcher::Changed: dropped if a reload is queued already.
RequestReload ==
    /\ CanPost /\ elevated /\ Spend("reload")
    /\ reloadQueued' = TRUE
    /\ posting' = IF reloadQueued THEN <<>> ELSE <<Plain("reload")>>
    /\ UNCHANGED <<uiVars, commands, cancelled, scanCancels, shuttingDown, pendingBusy,
                   requestGhosts, notUI>>

\* Enqueue: the second critical section of every request.
Enqueue ==
    /\ ui = "up" /\ posting # <<>>
    /\ commands' = Append(commands, Head(posting))
    /\ posting' = <<>>
    /\ UNCHANGED <<uiVars, used, reloadQueued, cancelled, scanCancels, shuttingDown,
                   pendingBusy, requestGhosts, notUI>>

\* The user deletes rows of the result list: paths the index lists.
RequestFileOperations(S) ==
    /\ CanPost /\ (\A p \in S : pool[p] > 0) /\ Spend("batch")
    /\ jobs' = Append(jobs, S)
    /\ UNCHANGED <<uiVars, queueVars, pendingBusy, scanVars, wpc, workVars, flagVars,
                   fpc, batch, op, succeeded, fileOpsStopping, pool, disk, fs, ghostVars>>

\* Shutdown up to the worker's join: every token set, the queue dropped.
Shutdown ==
    /\ CanPost /\ Spend("close")
    /\ ui' = "joinWorker"
    /\ shuttingDown' = TRUE
    /\ cancelled' = cancelled \cup scanCancels
    /\ scanCancels' = {}
    /\ commands' = <<>>
    /\ UNCHANGED <<settings, elevated, posting, reloadQueued, pendingBusy, requestGhosts, notUI>>

\* Mutant of JoinWorker: the file-operations thread is not told to stop.
JoinWorkerOnly ==
    /\ ui = "joinWorker" /\ wpc = "exited"
    /\ ui' = "joinFileOps"
    /\ monitored' = {}
    /\ UNCHANGED <<settings, elevated, used, queueVars, pendingBusy, scanVars, wpc, workVars,
                   needsFullRebuild, busyReported, fopVars, pool, disk, fs, ghostVars>>

\* The worker is joined: monitoring stops, the file operations may drain.
JoinWorker ==
    /\ ui = "joinWorker" /\ wpc = "exited"
    /\ ui' = "joinFileOps"
    /\ monitored' = {}
    /\ fileOpsStopping' = TRUE
    /\ UNCHANGED <<settings, elevated, used, queueVars, pendingBusy, scanVars, wpc, workVars,
                   needsFullRebuild, busyReported, fpc, jobs, batch, op, succeeded,
                   pool, disk, fs, ghostVars>>

JoinFileOps ==
    /\ ui = "joinFileOps" /\ fpc = "exited"
    /\ ui' = "down"
    /\ UNCHANGED <<settings, elevated, used, queueVars, pendingBusy, requestGhosts, notUI>>

\* The elevated helper replaces the index file by one of the roots in the
\* settings file, those of settings_ unless a Save has failed or the helper is
\* behind; it may not have heard of every deletion yet.
HelperSave(roots) ==
    /\ ui = "up" /\ elevated /\ Spend("save")
    /\ roots = settings \/ used["refuse"] > 0
    /\ \E late \in SUBSET (Under(roots) \ fs) :
           disk' = PoolOf((Under(roots) \cap fs) \cup late)
    /\ UNCHANGED <<uiVars, queueVars, pendingBusy, scanVars, wpc, workVars, flagVars,
                   fopVars, pool, fs, ghostVars>>

UI == \/ RequestIndexing \/ Elevate \/ RequestReload \/ Enqueue
      \/ Shutdown \/ JoinWorker \/ JoinFileOps
      \/ \E missedRequest \in BOOLEAN : HelperFinished(missedRequest)
      \/ \E new \in SUBSET Roots :
             RequestSettingsChange(new) \/ ChangeUnposted(new) \/ HelperSave(new)
      \/ \E S \in SUBSET Paths \ {{}} : RequestFileOperations(S)

-----------------------------------------------------------------------------
(* The worker thread.                                                      *)

notWorker == <<uiVars, used, posting, cancelled, scanCancels, shuttingDown, fopVars, fs>>
notQueue  == <<commands, reloadQueued, pendingBusy>>

\* WorkerLoop: the next command, or the end of the thread.
Take ==
    /\ wpc = "idle" /\ ~shuttingDown /\ commands # <<>>
    /\ cmd' = Head(commands)
    /\ commands' = Tail(commands)
    /\ wpc' = "start"
    /\ UNCHANGED <<notWorker, reloadQueued, pendingBusy, scanVars, mode, todo, inflight, staged,
                   buf, completed, again, flagVars, pool, disk, ghostVars>>

WorkerExits ==
    /\ wpc = "idle" /\ shuttingDown
    /\ wpc' = "exited"
    /\ UNCHANGED <<notWorker, notQueue, scanVars, workVars, flagVars, pool, disk, ghostVars>>

IsScan == cmd.kind \in {"index", "settings"}

\* Mutant of SkipCommand: the early return comes before EndBusy.
SkipCommandUncounted ==
    /\ wpc = "start" /\ IsScan /\ IsCancelled(cmd)
    /\ needsFullRebuild' = TRUE
    /\ wpc' = "idle"
    /\ UNCHANGED <<notWorker, notQueue, scanVars, workVars, busyReported, monitored,
                   pool, disk, ghostVars>>

\* RunIndexing and RunSettingsChange of a command that was superseded while
\* it waited in the queue.
SkipCommand ==
    /\ wpc = "start" /\ IsScan /\ IsCancelled(cmd)
    /\ needsFullRebuild' = TRUE
    /\ wpc' = "endBusy"
    /\ UNCHANGED <<notWorker, notQueue, scanVars, workVars, busyReported, monitored,
                   pool, disk, ghostVars>>

\* BeginBusy, and StopMonitoring, which joins the monitor thread.
BeginCommand ==
    /\ wpc = "start" /\ IsScan /\ ~IsCancelled(cmd)
    /\ busyReported' = TRUE
    /\ monitored' = {}
    /\ wpc' = "mark"
    /\ UNCHANGED <<notWorker, notQueue, scanVars, workVars, needsFullRebuild, pool, disk,
                   ghostVars>>

\* scanRunning_ = true; then the command is told apart. A full scan begins
\* with an empty staging pool and looks at every selected root, an
\* incremental add at the new roots only.
MarkScan ==
    /\ wpc = "mark"
    /\ scanRunning' = TRUE
    /\ mode' = Mode(cmd)
    /\ completed' = TRUE
    /\ todo' = CASE Mode(cmd) = "full" -> Under(cmd.roots)
                 [] Mode(cmd) = "add"  -> Under(AddedRoots(cmd))
                 [] OTHER              -> {}
    /\ staged' = PoolOf({})
    /\ wpc' = CASE Mode(cmd) \in {"full", "add"} -> "scan"
                [] Mode(cmd) = "load"            -> "load"
                [] Mode(cmd) = "prune"           -> "prune"
                [] OTHER                         -> "finish"
    /\ UNCHANGED <<notWorker, notQueue, removedDuringScan, cmd, inflight, buf, again, flagVars,
                   pool, disk, ghostVars>>

\* Every existing path has the entries a scan of these roots would give it.
Covers(pl, roots) == \A p \in fs : pl[p] = PoolOf(Under(roots))[p]

\* StartIndexing(force = false) reads a file that is present and fresh. The
\* removals recorded before this read are not owed by it: the file may still
\* list those paths, and nothing compares it with the live index.
ReadFreshFile ==
    /\ wpc = "load" /\ disk # NoFile
    /\ buf' = disk
    /\ gone' = {p \in gone : disk[p] = 0 \/ p \in removedDuringScan}
    /\ wpc' = "swap"
    /\ UNCHANGED <<notWorker, notQueue, scanVars, cmd, mode, todo, inflight, staged, completed,
                   again, flagVars, pool, disk, unseen, staleLoad, requestGhosts>>

\* The file is missing, invalid or too old: a full scan instead.
RejectFile ==
    /\ wpc = "load"
    /\ mode' = "full"
    /\ todo' = Under(cmd.roots)
    /\ wpc' = "scan"
    /\ UNCHANGED <<notWorker, notQueue, scanVars, cmd, inflight, staged, buf, completed, again,
                   flagVars, pool, disk, ghostVars>>

\* LoadPool of the file just read.
SwapFile ==
    /\ wpc = "swap"
    /\ pool' = buf
    /\ unseen' = TRUE
    /\ staleLoad' = ~Covers(buf, cmd.roots)
    /\ gone' = {p \in gone : buf[p] <= 1}
    /\ buf' = PoolOf({})
    /\ wpc' = "finish"
    /\ UNCHANGED <<notWorker, notQueue, scanVars, cmd, mode, todo, inflight, staged, completed,
                   again, flagVars, disk, requestGhosts>>

\* A scanner thread looks at a path (getdents64 and statx) ...
Look(p) ==
    /\ wpc = "scan" /\ p \in todo
    /\ todo' = todo \ {p}
    /\ inflight' = IF p \in fs THEN inflight \cup {p} ELSE inflight
    /\ UNCHANGED <<notWorker, notQueue, scanVars, wpc, cmd, mode, staged, buf, completed, again,
                   flagVars, pool, disk, ghostVars>>

\* ... and later hands it to onEntry: into the staging pool for a full scan,
\* straight into the live pool for an incremental add.
Emit(p) ==
    /\ wpc = "scan" /\ p \in inflight
    /\ inflight' = inflight \ {p}
    /\ IF mode = "full"
       THEN /\ staged' = Added(staged, p)
            /\ UNCHANGED <<pool, unseen>>
       ELSE /\ pool' = Added(pool, p)
            /\ unseen' = TRUE
            /\ UNCHANGED staged
    /\ UNCHANGED <<notWorker, notQueue, scanVars, wpc, cmd, mode, todo, buf, completed, again,
                   flagVars, disk, gone, staleLoad, requestGhosts>>

\* The scan is over and its token is not set: EndWrite swaps a full scan in.
ScanCompletes ==
    /\ wpc = "scan" /\ inflight = {} /\ todo = {} /\ ~IsCancelled(cmd)
    /\ IF mode = "full"
       THEN /\ pool' = staged
            /\ staged' = PoolOf({})
            /\ unseen' = TRUE
            /\ staleLoad' = FALSE
            /\ missed' = {}
       ELSE UNCHANGED <<pool, staged, unseen, staleLoad, missed>>
    /\ wpc' = "serialize"
    /\ UNCHANGED <<notWorker, notQueue, scanVars, cmd, mode, todo, inflight, buf, completed,
                   again, flagVars, disk, gone, asked>>

\* The scanner threads stop early once the token is set. AbortWrite drops the
\* staging pool; an incremental add leaves what it has added.
ScanCancelled ==
    /\ wpc = "scan" /\ inflight = {} /\ IsCancelled(cmd)
    /\ todo' = {}
    /\ staged' = PoolOf({})
    /\ completed' = FALSE
    /\ wpc' = "finish"
    /\ UNCHANGED <<notWorker, notQueue, scanVars, cmd, mode, inflight, buf, again, flagVars,
                   pool, disk, ghostVars>>

\* RemovePaths of the roots that are no longer selected.
PruneRoots ==
    /\ wpc = "prune"
    /\ pool' = RemovedUnder(pool, RemovedRoots(cmd))
    /\ unseen' = TRUE
    /\ wpc' = "serialize"
    /\ UNCHANGED <<notWorker, notQueue, scanVars, workVars, flagVars, disk, gone, staleLoad,
                   requestGhosts>>

\* SaveIndex serializes under the shared lock ...
Serialize ==
    /\ wpc = "serialize"
    /\ buf' = pool
    /\ wpc' = "write"
    /\ UNCHANGED <<notWorker, notQueue, scanVars, cmd, mode, todo, inflight, staged, completed,
                   again, flagVars, pool, disk, ghostVars>>

\* ... and writes after releasing it. A failed write is not reported. The
\* first save of a command precedes FinishScan, PersistLiveChanges follows it.
WriteFile ==
    /\ wpc = "write"
    /\ disk' \in {buf, disk}
    /\ buf' = PoolOf({})
    /\ wpc' = IF scanRunning THEN "finish" ELSE "complete"
    /\ UNCHANGED <<notWorker, notQueue, scanVars, cmd, mode, todo, inflight, staged, completed,
                   again, flagVars, pool, ghostVars>>

\* Mutant of FinishScan: the removals are dropped along with the flag.
FinishScanForgets ==
    /\ wpc = "finish"
    /\ scanRunning' = FALSE
    /\ removedDuringScan' = {}
    /\ wpc' = "complete"
    /\ UNCHANGED <<notWorker, notQueue, workVars, flagVars, pool, disk, ghostVars>>

\* FinishScan, under mutex_ ...
FinishScan ==
    /\ wpc = "finish"
    /\ scanRunning' = FALSE
    /\ again' = removedDuringScan
    /\ removedDuringScan' = {}
    /\ wpc' = IF removedDuringScan = {} THEN "complete" ELSE "reapply"
    /\ UNCHANGED <<notWorker, notQueue, cmd, mode, todo, inflight, staged, buf, completed,
                   flagVars, pool, disk, ghostVars>>

\* ... then ApplyRemove of each path, and PersistLiveChanges if any.
Reapply(p) ==
    /\ wpc = "reapply" /\ p \in again
    /\ pool' = Removed(pool, p)
    /\ unseen' = TRUE
    /\ again' = again \ {p}
    /\ wpc' = CASE again # {p} -> "reapply"
                [] again = {p} -> IF completed THEN "serialize" ELSE "complete"
    /\ UNCHANGED <<notWorker, notQueue, scanVars, cmd, mode, todo, inflight, staged, buf,
                   completed, flagVars, disk, gone, staleLoad, requestGhosts>>

\* Mutant of Complete: monitoring is stopped for the scan and left stopped.
CompleteUnmonitored ==
    /\ wpc = "complete"
    /\ needsFullRebuild' = ~completed
    /\ unseen' = (unseen /\ ~completed)
    /\ completed' = FALSE
    /\ mode' = "none"
    /\ wpc' = "endBusy"
    /\ UNCHANGED <<notWorker, notQueue, scanVars, cmd, todo, inflight, staged, buf, again,
                   busyReported, monitored, pool, disk, gone, staleLoad, requestGhosts>>

\* Mutant of Complete: a command that was cut short is taken for a finished one.
CompleteForgets ==
    /\ wpc = "complete"
    /\ needsFullRebuild' = FALSE
    /\ unseen' = (unseen /\ ~completed)
    /\ monitored' = IF completed THEN cmd.roots ELSE monitored
    /\ completed' = FALSE
    /\ mode' = "none"
    /\ wpc' = "endBusy"
    /\ UNCHANGED <<notWorker, notQueue, scanVars, cmd, todo, inflight, staged, buf, again,
                   busyReported, pool, disk, gone, staleLoad, requestGhosts>>

\* The end of RunIndexing and RunSettingsChange: report, monitor the roots.
Complete ==
    /\ wpc = "complete"
    /\ needsFullRebuild' = ~completed
    /\ unseen' = (unseen /\ ~completed)
    /\ monitored' = IF completed THEN cmd.roots ELSE monitored
    /\ completed' = FALSE
    /\ mode' = "none"
    /\ wpc' = "endBusy"
    /\ UNCHANGED <<notWorker, notQueue, scanVars, cmd, todo, inflight, staged, buf, again,
                   busyReported, pool, disk, gone, staleLoad, requestGhosts>>

\* EndBusy counts under mutex_ and reports after releasing it.
EndBusy ==
    /\ wpc = "endBusy"
    /\ pendingBusy' = pendingBusy - 1
    /\ wpc' = IF pendingBusy = 1 /\ busyReported THEN "reportIdle" ELSE "idle"
    /\ cmd' = Plain("stop")
    /\ UNCHANGED <<notWorker, commands, reloadQueued, scanVars, mode, todo, inflight, staged,
                   buf, completed, again, flagVars, pool, disk, ghostVars>>

ReportIdle ==
    /\ wpc = "reportIdle"
    /\ busyReported' = FALSE
    /\ wpc' = "idle"
    /\ UNCHANGED <<notWorker, notQueue, scanVars, workVars, needsFullRebuild, monitored,
                   pool, disk, ghostVars>>

\* Mutant of BeginReload: the flag stays set while the file is read.
BeginReloadFlagged ==
    /\ wpc = "start" /\ cmd.kind = "reload"
    /\ wpc' = "reload"
    /\ UNCHANGED <<notWorker, notQueue, scanVars, workVars, flagVars, pool, disk, ghostVars>>

\* RunReload: the flag first, so that a save from here on queues another.
BeginReload ==
    /\ wpc = "start" /\ cmd.kind = "reload"
    /\ reloadQueued' = FALSE
    /\ wpc' = "reload"
    /\ UNCHANGED <<notWorker, commands, pendingBusy, scanVars, workVars, flagVars, pool, disk,
                   ghostVars>>

ReloadReads ==
    /\ wpc = "reload"
    /\ IF disk = NoFile
       THEN wpc' = "idle" /\ UNCHANGED buf
       ELSE wpc' = "reloadSwap" /\ buf' = disk
    /\ UNCHANGED <<notWorker, notQueue, scanVars, cmd, mode, todo, inflight, staged, completed,
                   again, flagVars, pool, disk, ghostVars>>

\* LoadPool and the report. A reload is not marked as a scan: it owes nothing
\* to removals, even to those made since it read the file.
ReloadSwaps ==
    /\ wpc = "reloadSwap"
    /\ pool' = buf
    /\ unseen' = FALSE
    /\ gone' = {p \in gone : buf[p] = 0}
    /\ staleLoad' = ~Covers(buf, settings)
    /\ buf' = PoolOf({})
    /\ wpc' = "idle"
    /\ UNCHANGED <<notWorker, notQueue, scanVars, cmd, mode, todo, inflight, staged, completed,
                   again, flagVars, disk, requestGhosts>>

\* The queued half of RequestStopLocalIndexing.
StopMonitoring ==
    /\ wpc = "start" /\ cmd.kind = "stop"
    /\ monitored' = {}
    /\ wpc' = "idle"
    /\ UNCHANGED <<notWorker, notQueue, scanVars, workVars, needsFullRebuild, busyReported,
                   pool, disk, ghostVars>>

Worker == \/ Take \/ WorkerExits \/ SkipCommand \/ BeginCommand \/ MarkScan
          \/ ReadFreshFile \/ RejectFile \/ SwapFile
          \/ ScanCompletes \/ ScanCancelled \/ PruneRoots \/ Serialize \/ WriteFile
          \/ FinishScan \/ Complete \/ EndBusy \/ ReportIdle
          \/ BeginReload \/ ReloadReads \/ ReloadSwaps \/ StopMonitoring
          \/ \E p \in Paths : Look(p) \/ Emit(p) \/ Reapply(p)

-----------------------------------------------------------------------------
(* The file-operations thread.                                             *)

notFileOps == <<uiVars, used, queueVars, pendingBusy, wpc, workVars, flagVars, disk>>

TakeBatch ==
    /\ fpc = "wait" /\ jobs # <<>>
    /\ batch' = Head(jobs)
    /\ jobs' = Tail(jobs)
    /\ succeeded' = FALSE
    /\ fpc' = "run"
    /\ UNCHANGED <<notFileOps, scanVars, op, fileOpsStopping, pool, fs, ghostVars>>

\* Mutant of FileOpsExit: the thread ends with jobs in its queue.
FileOpsExitEarly ==
    /\ fpc = "wait" /\ fileOpsStopping
    /\ fpc' = "exited"
    /\ UNCHANGED <<notFileOps, scanVars, jobs, batch, op, succeeded, fileOpsStopping, pool, fs,
                   ghostVars>>

\* The queue is drained before the thread ends.
FileOpsExit ==
    /\ fpc = "wait" /\ jobs = <<>> /\ fileOpsStopping
    /\ fpc' = "exited"
    /\ UNCHANGED <<notFileOps, scanVars, jobs, batch, op, succeeded, fileOpsStopping, pool, fs,
                   ghostVars>>

\* fileOperationRunner_ moves the path to the trash or deletes it, or fails.
Operate(p) ==
    /\ fpc = "run" /\ p \in batch
    /\ batch' = batch \ {p}
    /\ \/ /\ p \in fs
          /\ fs' = fs \ {p}
          /\ op' = p
          /\ fpc' = "record"
       \/ UNCHANGED <<fs, op, fpc>>
    /\ UNCHANGED <<notFileOps, scanVars, jobs, succeeded, fileOpsStopping, pool, ghostVars>>

\* Under mutex_: a running scan may have seen the path already. The removal
\* is owed from here on, if the index holds a single entry to remove.
Record ==
    /\ fpc = "record"
    /\ removedDuringScan' = IF scanRunning THEN removedDuringScan \cup {op} ELSE removedDuringScan
    /\ gone' = IF pool[op] <= 1 THEN gone \cup {op} ELSE gone
    /\ fpc' = "apply"
    /\ UNCHANGED <<notFileOps, scanRunning, jobs, batch, op, succeeded, fileOpsStopping, pool, fs,
                   unseen, staleLoad, requestGhosts>>

\* store_.ApplyRemove, under the store's own lock.
Apply ==
    /\ fpc = "apply"
    /\ pool' = Removed(pool, op)
    /\ unseen' = TRUE
    /\ succeeded' = TRUE
    /\ op' = NoFile
    /\ fpc' = "run"
    /\ UNCHANGED <<notFileOps, scanVars, jobs, batch, fileOpsStopping, fs, gone, staleLoad,
                   requestGhosts>>

\* Mutant of ReportBatch: the batch is reported, the index change is not.
ReportBatchOnly ==
    /\ fpc = "run" /\ batch = {}
    /\ succeeded' = FALSE
    /\ fpc' = "wait"
    /\ UNCHANGED <<notFileOps, scanVars, jobs, batch, op, fileOpsStopping, pool, fs, ghostVars>>

\* onFileOperationsFinished, and onIndexChanged if any operation succeeded.
ReportBatch ==
    /\ fpc = "run" /\ batch = {}
    /\ unseen' = (unseen /\ ~succeeded)
    /\ succeeded' = FALSE
    /\ fpc' = "wait"
    /\ UNCHANGED <<notFileOps, scanVars, jobs, batch, op, fileOpsStopping, pool, fs,
                   gone, staleLoad, requestGhosts>>

FileOps == \/ TakeBatch \/ FileOpsExit \/ Record \/ Apply \/ ReportBatch
           \/ \E p \in Paths : Operate(p)

-----------------------------------------------------------------------------
Init ==
    /\ ui = "up" /\ settings \in SUBSET Roots /\ elevated = FALSE
    /\ used = [use \in Uses |-> 0]
    /\ posting = <<>> /\ commands = <<>> /\ reloadQueued = FALSE
    /\ cancelled = {} /\ scanCancels = {} /\ shuttingDown = FALSE
    /\ pendingBusy = 0 /\ scanRunning = FALSE /\ removedDuringScan = {}
    /\ wpc = "idle" /\ cmd = Plain("stop") /\ mode = "none"
    /\ todo = {} /\ inflight = {} /\ staged = PoolOf({}) /\ buf = PoolOf({})
    /\ completed = FALSE /\ again = {}
    /\ needsFullRebuild = FALSE /\ busyReported = FALSE /\ monitored = {}
    /\ fpc = "wait" /\ jobs = <<>> /\ batch = {} /\ op = NoFile
    /\ succeeded = FALSE /\ fileOpsStopping = FALSE
    /\ pool = PoolOf({}) /\ fs = Paths
    /\ disk \in {NoFile} \cup {PoolOf(Under(roots)) : roots \in SUBSET Roots}
    /\ gone = {} /\ unseen = FALSE /\ staleLoad = FALSE
    /\ asked = settings /\ missed = {}

\* Nothing is running, queued or being queued.
Quiescent ==
    /\ ui = "up" /\ posting = <<>> /\ commands = <<>> /\ wpc = "idle"
    /\ jobs = <<>> /\ fpc = "wait"

\* The program waits for the user, or has ended: anything else that stops is
\* a deadlock.
Rest == (Quiescent \/ ui = "down") /\ UNCHANGED vars

Next == UI \/ Worker \/ FileOps \/ Rest

Spec == Init /\ [][Next]_vars

\* The threads are scheduled; the user and the helper may stop at any time.
Fairness ==
    /\ WF_vars(Worker)
    /\ WF_vars(FileOps)
    /\ WF_vars(Enqueue \/ JoinWorker \/ JoinFileOps)

FairSpec == Spec /\ Fairness

-----------------------------------------------------------------------------
(* Properties.                                                             *)

UIStates     == {"up", "joinWorker", "joinFileOps", "down"}
WorkerStates == {"idle", "exited", "start", "mark", "load", "swap", "scan", "prune", "serialize",
                 "write", "finish", "reapply", "complete", "endBusy", "reportIdle",
                 "reload", "reloadSwap"}
FileOpStates == {"wait", "exited", "run", "record", "apply"}
Modes        == {"none", "load", "full", "add", "prune"}

\* Every variable has its type.
QueueTypeOK ==
    /\ ui \in UIStates /\ settings \in SUBSET Roots /\ elevated \in BOOLEAN
    /\ used \in [Uses -> Nat]
    /\ posting \in Seq(Command) /\ commands \in Seq(Command)
    /\ cancelled \in SUBSET Nat /\ scanCancels \in SUBSET Nat
    /\ pendingBusy \in Int /\ reloadQueued \in BOOLEAN /\ shuttingDown \in BOOLEAN

WorkerTypeOK ==
    /\ wpc \in WorkerStates /\ cmd \in Command /\ mode \in Modes
    /\ todo \in SUBSET Paths /\ inflight \in SUBSET Paths /\ again \in SUBSET Paths
    /\ staged \in Pool /\ buf \in Pool /\ completed \in BOOLEAN
    /\ needsFullRebuild \in BOOLEAN /\ busyReported \in BOOLEAN /\ monitored \in SUBSET Roots
    /\ scanRunning \in BOOLEAN /\ removedDuringScan \in SUBSET Paths

StoreTypeOK ==
    /\ fpc \in FileOpStates /\ jobs \in Seq(SUBSET Paths) /\ batch \in SUBSET Paths
    /\ op \in IF fpc \in {"record", "apply"} THEN Paths ELSE {NoFile}
    /\ succeeded \in BOOLEAN /\ fileOpsStopping \in BOOLEAN
    /\ pool \in Pool /\ disk \in {NoFile} \cup Pool /\ fs \in SUBSET Paths
    /\ gone \in SUBSET Paths /\ unseen \in BOOLEAN /\ staleLoad \in BOOLEAN
    /\ asked \in SUBSET Roots /\ missed \in SUBSET Roots

TypeOK == QueueTypeOK /\ WorkerTypeOK /\ StoreTypeOK

\* "Recorded before the removal, so a scan that is swapped in after this
\* point can never bring the path back" (RequestFileOperations): once no scan
\* is running and FinishScan has re-applied its removals, no path removed by
\* a file operation is live, however the scan's look and emit, the record,
\* the removal and the swap interleaved.
RemovedStaysRemoved ==
    (~scanRunning /\ again = {}) =>
        \A p \in gone : pool[p] = 0 \/ (fpc = "apply" /\ op = p)

\* Why: each live entry of such a path, and each one a scanner thread is about
\* to add, is matched by a removal still to come, FinishScan's or the
\* file-operations thread's own.
Owed(p) == (IF p \in removedDuringScan \cup again THEN 1 ELSE 0)
           + (IF fpc = "apply" /\ op = p THEN 1 ELSE 0)

Coming(p) == IF mode = "add" /\ p \in inflight THEN 1 ELSE 0

RemovalsMatchEntries ==
    \A p \in gone :
        /\ p \notin fs
        /\ pool[p] + Coming(p) <= Owed(p)
        /\ p \in inflight => p \in removedDuringScan
        /\ wpc = "scan" /\ mode = "full" /\ staged[p] > 0 => p \in removedDuringScan
        /\ wpc = "swap" /\ buf[p] > 0 => p \in removedDuringScan

\* Where the worker is when it has something left to look at, to emit, to
\* re-apply; a scan emits a path once.
MarkedStates == {"load", "swap", "scan", "prune", "finish"}
SavingStates == {"serialize", "write"}

WorkerInStep ==
    /\ wpc \in MarkedStates => scanRunning
    /\ scanRunning => wpc \in MarkedStates \cup SavingStates
    /\ ~scanRunning => removedDuringScan = {}
    /\ again # {} => wpc = "reapply"
    /\ inflight # {} => wpc = "scan"
    /\ wpc = "scan" => mode \in {"full", "add"}
    /\ wpc = "load" => staged = PoolOf({})
    /\ wpc = "scan" => \A p \in Paths :
           staged[p] + (IF p \in todo \cup inflight THEN 1 ELSE 0) <= 1
    /\ todo \cap inflight = {}
    /\ fpc \in {"record", "apply"} => op \notin fs

\* The inductive invariant behind RemovedStaysRemoved.
RemovalInv == TypeOK /\ WorkerInStep /\ RemovalsMatchEntries

\* "The index always ends up reflecting the latest request" (IndexService.h):
\* once the requests are handled, the index holds exactly one entry for each
\* existing file below the roots of the newest one, whichever commands were
\* cancelled half-way or skipped before. Two exceptions: an index loaded from a
\* file of other roots, which nothing compares with settings_, and the roots in
\* "missed", which a Save that failed put into settings_ or took out of it with
\* no request, so that the next change was diffed against roots never indexed.
LatestRequestWins ==
    Quiescent /\ ~elevated /\ used["request"] > 0 /\ ~staleLoad =>
        \A p \in fs : RootOf[p] \notin missed => pool[p] = PoolOf(Under(asked))[p]

\* No existing file is listed twice, at any time: AddEntry appends without
\* looking, so an incremental add is right only if the live index holds what
\* the diff says it does, after any command that was cancelled half-way
\* (needsFullRebuild_). The exceptions are those of LatestRequestWins.
ListedOnce == ~staleLoad => \A p \in fs : RootOf[p] \notin missed => pool[p] <= 1

\* Once the requests are handled, exactly the roots of the newest one are
\* monitored, and none once the helper has taken over. They are not those of
\* settings_ if a Save failed since.
MonitorFollowsRequests ==
    Quiescent /\ used["request"] > 0 => monitored = IF elevated THEN {} ELSE asked

\* No change of the index is left without an onIndexChanged after it: the
\* window's count and results are never stale once the work is done.
ViewIsCurrent == Quiescent /\ ~elevated => ~unseen

\* Busy is reported exactly while there is work for it to cover: the search
\* box cannot stay disabled with nothing left to do, and pendingBusy_ counts
\* the scan commands that are not finished.
ScansIn(s) == Cardinality({i \in DOMAIN s : s[i].kind \in {"index", "settings"}})

BusyMatchesWork ==
    ~shuttingDown =>
        /\ pendingBusy = ScansIn(commands) + ScansIn(posting)
                         + (IF IsScan /\ wpc \notin {"idle", "reportIdle"} THEN 1 ELSE 0)
        /\ wpc = "idle" /\ busyReported => pendingBusy > 0

\* A reload request that is dropped because one is queued loses nothing: that
\* one has not read the file yet.
CoalescedReloadIsPending ==
    reloadQueued /\ ~shuttingDown =>
        \/ \E i \in DOMAIN commands : commands[i].kind = "reload"
        \/ \E i \in DOMAIN posting : posting[i].kind = "reload"
        \/ wpc = "start" /\ cmd.kind = "reload"

\* Closing the window ends both threads, whatever they were doing.
ShutdownEnds == shuttingDown ~> ui = "down"

\* "A file operation the user asked for always runs to completion, shutdown
\* or not" (FileOperationsLoop).
OperationsFinish == jobs # <<>> ~> (jobs = <<>> /\ fpc \in {"wait", "exited"})
=============================================================================
