----------------------------- MODULE LiveMonitor -----------------------------
(***************************************************************************)
(* Live monitoring of one root: a file system other programs change, the   *)
(* kernel's queue of inotify or fanotify events, the thread of             *)
(* InotifyWatcher or FanotifyMonitor that turns events into changes, and   *)
(* Indexer::ApplyChangeEvent with the IndexStore that applies them.        *)
(*                                                                         *)
(* A path is the sequence of its components below the root. The index is   *)
(* the number of live entries of each path: ApplyAdd appends, and a        *)
(* removal marks the first one deleted. The root is watched and indexed    *)
(* when the model starts; overflow of the queue, the limit on watches and  *)
(* moves across the border of the root are left out, but a move from or to *)
(* a directory that is not watched yet looks the same to the watcher.      *)
(* fanotify needs no watches: it reports the whole file system, of which   *)
(* the model has the root.                                                 *)
(***************************************************************************)
EXTENDS Naturals, Sequences, FiniteSets, Functions, SequencesExt

CONSTANTS
    FilePaths,   \* where there may be files
    DirPaths,    \* where there may be directories
    Start,       \* paths there are at the start
    None,
    MaxChanges   \* bound: changes by other programs

Root  == <<>>
Paths == FilePaths \cup DirPaths

ASSUME PathsAssumption ==
    /\ IsFiniteSet(Paths) /\ FilePaths \cap DirPaths = {}
    /\ None \notin Seq(STRING) /\ None \notin {"Added", "Removed", "Modified"}
    /\ \A p \in Paths : p \in Seq(STRING) /\ p # Root
    /\ \A p \in Paths : \A n \in 1..(Len(p) - 1) : SubSeq(p, 1, n) \in DirPaths
\* What is there has its directories there.
ASSUME StartAssumption ==
    /\ Start \subseteq Paths
    /\ \A p \in Start : \A n \in 1..(Len(p) - 1) : SubSeq(p, 1, n) \in Start
ASSUME BoundAssumption == MaxChanges \in Nat

VARIABLES
    files,          \* the files there are
    dirs,           \* the directories there are: inode |-> path
    watches,        \* inode |-> watch descriptor
    backend,        \* the monitor ChooseMonitor made: "fanotify" or "inotify"
    queue,          \* the events not read yet
    movedTo,        \* the second event of a rename, about to be queued
    wdToPath, pathToWd,             \* WatchTable
    batch, pendingMovedFrom,        \* StartMonitoring
    toWatch, walkRoot, toEmit,      \* WatchAndEmitNewSubtree
    index,                          \* IndexStore
    inodes, descriptors, changes,   \* given out so far; what MaxChanges bounds
    \* Read by the properties only.
    gaps,           \* "unpaired", "aborted": what went wrong with an event or a walk
    doubtful,       \* paths the code may have added twice, or not removed
    misreported     \* paths it may have removed, or not added, in error

disk   == <<files, dirs, inodes, changes>>
kernel == <<watches, queue, movedTo, descriptors, backend>>
table  == <<wdToPath, pathToWd>>
walk   == <<toWatch, walkRoot, toEmit>>
ghosts == <<gaps, doubtful, misreported>>

vars == <<disk, kernel, table, batch, pendingMovedFrom, walk, index, ghosts>>

-----------------------------------------------------------------------------
(* The file system, inotify and fanotify.                                  *)

Put(f, x, y) == [z \in DOMAIN f \cup {x} |-> IF z = x THEN y ELSE f[z]]

Without(f, x) == Restrict(f, DOMAIN f \ {x})

DirsNow == Range(dirs)

Inode(path) == CHOOSE i \in DOMAIN dirs : dirs[i] = path

Below(path) == {p \in files \cup DirsNow : IsStrictPrefix(path, p)}

Children(path) == {p \in Below(path) : Len(p) = Len(path) + 1}

\* The events of a change of the entry path. inotify has one if its directory
\* is watched, fanotify always: it names the directory by a handle.
Event(kind, path, cookie) ==
    LET i == Inode(Front(path))
    IN  IF backend = "fanotify"
        THEN <<[kinds |-> {kind}, dir |-> i, name |-> Last(path),
                isDir |-> path \in DirPaths, merged |-> FALSE]>>
        ELSE
        IF i \in DOMAIN watches
        THEN <<[kind |-> kind, wd |-> watches[i], name |-> Last(path),
                isDir |-> path \in DirPaths, cookie |-> cookie]>>
        ELSE <<>>

Ignored(wd) == <<[kind |-> "ignored", wd |-> wd, name |-> "", isDir |-> FALSE, cookie |-> 0]>>

\* fanotify merges an event into one about the same entry that is not read
\* yet, if the same process caused both.
Merges(events) ==
    {j \in 1..Len(queue) :
        /\ backend = "fanotify" /\ events # <<>>
        /\ \A field \in {"dir", "name", "isDir"} : queue[j][field] = Head(events)[field]}

Queue(events) ==
    \/ queue' = queue \o events
    \/ \E j \in Merges(events) :
           queue' = [queue EXCEPT ![j].kinds = @ \cup Head(events).kinds, ![j].merged = TRUE]

\* The paths of the events that are still about the directory with inode i.
Unread(i) ==
    IF backend = "fanotify"
    THEN {Append(dirs[i], event.name) : event \in {e \in Range(queue) : e.dir = i}}
    ELSE {}

Change(path) ==
    /\ changes < MaxChanges /\ movedTo = <<>>
    /\ Front(path) \in DirsNow
    /\ changes' = changes + 1
    /\ UNCHANGED <<table, batch, pendingMovedFrom, walk, index, descriptors, backend>>

Create(p) ==
    /\ p \in FilePaths \ files /\ Change(p)
    /\ files' = files \cup {p}
    /\ Queue(Event("create", p, 0))
    /\ UNCHANGED <<dirs, inodes, watches, movedTo, ghosts>>

Modify(p) ==
    /\ p \in files /\ Change(p)
    /\ Queue(Event("modify", p, 0))
    /\ UNCHANGED <<files, dirs, inodes, watches, movedTo, ghosts>>

Delete(p) ==
    /\ p \in files /\ Change(p)
    /\ files' = files \ {p}
    /\ Queue(Event("delete", p, 0))
    /\ UNCHANGED <<dirs, inodes, watches, movedTo, ghosts>>

MakeDir(p) ==
    /\ p \in DirPaths \ DirsNow /\ Change(p)
    /\ inodes' = inodes + 1
    /\ dirs' = Put(dirs, inodes + 1, p)
    /\ Queue(Event("create", p, 0))
    /\ UNCHANGED <<files, watches, movedTo, ghosts>>

\* The watch goes with its directory.
RemoveDir(p) ==
    /\ p \in DirsNow /\ Children(p) = {} /\ Change(p)
    /\ LET i == Inode(p)
       IN  /\ dirs' = Without(dirs, i)
           /\ watches' = IF i \in DOMAIN watches THEN Without(watches, i) ELSE watches
           /\ Queue(Event("delete", p, 0)
                    \o (IF i \in DOMAIN watches THEN Ignored(watches[i]) ELSE <<>>))
           /\ doubtful' = doubtful \cup Unread(i)
    /\ UNCHANGED <<files, inodes, movedTo, gaps, misreported>>

\* A rename, over a file that may exist, queues its two events one by one.
\* The watch on a directory that is renamed stays with it.
Renamed(p, q, r) == IF r = p \/ IsStrictPrefix(p, r)
                    THEN q \o SubSeq(r, Len(p) + 1, Len(r)) ELSE r

Rename(p, q) ==
    /\ p # q /\ Change(p) /\ Front(q) \in DirsNow
    /\ \/ p \in files /\ q \in FilePaths
       \/ p \in DirsNow /\ q \in DirPaths \ DirsNow /\ ~IsStrictPrefix(p, q)
    /\ \A r \in Below(p) : Renamed(p, q, r) \in IF r \in files THEN FilePaths ELSE DirPaths
    /\ files' = {Renamed(p, q, r) : r \in files}
    /\ dirs' = [i \in DOMAIN dirs |-> Renamed(p, q, dirs[i])]
    /\ Queue(Event("movedFrom", p, changes'))
    /\ movedTo' = Event("movedTo", q, changes')
    /\ doubtful' = doubtful \cup (files \cap {q}) \cup
                   {r \in FilePaths : p \in DirsNow /\ (IsStrictPrefix(p, r) \/ IsStrictPrefix(q, r))}
    /\ misreported' = misreported \cup
                      {r \in files' : backend = "fanotify" /\ IsStrictPrefix(q, r)}
    /\ UNCHANGED <<inodes, watches, gaps>>

QueueMovedTo ==
    /\ movedTo # <<>>
    /\ Queue(movedTo)
    /\ movedTo' = <<>>
    /\ UNCHANGED <<disk, watches, descriptors, backend, table, batch, pendingMovedFrom, walk, index, ghosts>>

-----------------------------------------------------------------------------
(* Indexer::ApplyChangeEvent.                                              *)

\* ApplyAdd appends: nothing looks for an entry already there.
Added(ix, p) == [ix EXCEPT ![p] = @ + 1]

\* ApplyRemove: FindByPath's first live entry.
Removed(ix, p) == [ix EXCEPT ![p] = IF @ > 0 THEN @ - 1 ELSE 0]

\* The path is scanned again. A file is added. The scan of a directory reports
\* what is below it and not the directory: entry is assigned by each callback,
\* on whichever thread, and the one left in it is added.
Rescanned(ix, p) ==
    IF p \in files THEN {Added(ix, p)}
    ELSE IF p \in DirsNow /\ Below(p) # {} THEN {Added(ix, r) : r \in Below(p)}
    ELSE {ix}

DoubtBelow(p) == doubtful' = doubtful \cup (IF p \in DirPaths THEN Below(p) ELSE {})

ApplyAdded(p) == index' \in Rescanned(index, p) /\ DoubtBelow(p)

ApplyModified(p) == index' \in Rescanned(Removed(index, p), p) /\ DoubtBelow(p)

ApplyRemoved(p) == index' = Removed(index, p) /\ UNCHANGED doubtful

\* Mutant of ApplyRenamed: the old path keeps its entry.
ApplyRenamedAdds(p, q) == index' = Added(index, q) /\ UNCHANGED doubtful

ApplyRenamed(p, q) == index' = Added(Removed(index, p), q) /\ UNCHANGED doubtful

-----------------------------------------------------------------------------
(* The watcher's thread: events.                                           *)

Idle == toWatch = <<>> /\ walkRoot = None /\ toEmit = <<>>

\* WatchTable::RemoveByWd.
RemoveByWd(wd) ==
    IF wd \in DOMAIN wdToPath
    THEN /\ pathToWd' = Without(pathToWd, wdToPath[wd])
         /\ wdToPath' = Without(wdToPath, wd)
    ELSE UNCHANGED table

\* AddWatchesRecursive starts with the directory itself.
WalkSubtree(isDir, path) ==
    IF isDir
    THEN toWatch' = <<path>> /\ walkRoot' = path /\ UNCHANGED toEmit
    ELSE UNCHANGED walk

NoMove == UNCHANGED pendingMovedFrom

\* An event: those of a watch that is gone are passed over.
Tracked(event) == event.wd \in DOMAIN wdToPath

\* The table has a watch for the directory of the path that is on another
\* directory, or on none any more.
Astray(path) ==
    \E wd \in DOMAIN wdToPath :
        /\ wdToPath[wd] = Front(path)
        /\ ~\E i \in DOMAIN watches : watches[i] = wd /\ dirs[i] = Front(path)

\* The files whose row an event has taken that may have been about another
\* one, until they get a row again.
Misled ==
    {p \in files : IF index'[p] = index[p] THEN p \in misreported
                   ELSE index'[p] < index[p] /\ Astray(p)}

PathOf(event) == Append(wdToPath[event.wd], event.name)

HandleIgnored(event) ==
    /\ event.kind = "ignored"
    /\ RemoveByWd(event.wd)
    /\ NoMove /\ UNCHANGED <<walk, index, doubtful>>

HandleUntracked(event) ==
    /\ event.kind # "ignored" /\ ~Tracked(event)
    /\ NoMove /\ UNCHANGED <<table, walk, index, doubtful>>

HandleCreate(event, path) ==
    /\ event.kind = "create"
    /\ ApplyAdded(path)
    /\ WalkSubtree(event.isDir, path)
    /\ NoMove /\ UNCHANGED table

HandleDelete(event, path) ==
    /\ event.kind = "delete"
    /\ ApplyRemoved(path)
    /\ NoMove /\ UNCHANGED <<table, walk>>

HandleModify(event, path) ==
    /\ event.kind = "modify"
    /\ ApplyModified(path)
    /\ NoMove /\ UNCHANGED <<table, walk>>

HandleMovedFrom(event, path) ==
    /\ event.kind = "movedFrom"
    /\ pendingMovedFrom' = Put(pendingMovedFrom, event.cookie, path)
    /\ UNCHANGED <<table, walk, index, doubtful>>

\* Mutant of HandleMovedTo: a directory is renamed, and not walked.
HandleMovedToOnly(event, path) ==
    /\ event.kind = "movedTo"
    /\ IF event.cookie \in DOMAIN pendingMovedFrom
       THEN /\ ApplyRenamed(pendingMovedFrom[event.cookie], path)
            /\ pendingMovedFrom' = Without(pendingMovedFrom, event.cookie)
       ELSE ApplyAdded(path) /\ NoMove
    /\ UNCHANGED <<table, walk>>

\* Paired by its cookie with a movedFrom of the same batch, or moved in.
HandleMovedTo(event, path) ==
    /\ event.kind = "movedTo"
    /\ IF event.cookie \in DOMAIN pendingMovedFrom
       THEN /\ ApplyRenamed(pendingMovedFrom[event.cookie], path)
            /\ pendingMovedFrom' = Without(pendingMovedFrom, event.cookie)
       ELSE ApplyAdded(path) /\ NoMove
    /\ WalkSubtree(event.isDir, path)
    /\ UNCHANGED table

Handle(event) ==
    \/ HandleIgnored(event)
    \/ HandleUntracked(event)
    \/ /\ event.kind # "ignored" /\ Tracked(event)
       /\ LET path == PathOf(event)
          IN  \/ HandleCreate(event, path) \/ HandleDelete(event, path)
              \/ HandleModify(event, path)
              \/ HandleMovedFrom(event, path) \/ HandleMovedTo(event, path)

\* A batch is all that can be read before the queue is empty.
HandleEvent ==
    /\ backend = "inotify" /\ Idle /\ batch /\ queue # <<>>
    /\ Handle(Head(queue))
    /\ queue' = Tail(queue)
    /\ misreported' = Misled
    /\ UNCHANGED <<disk, watches, movedTo, descriptors, backend, batch, gaps>>

\* Nothing is left to read ...
EndBatch ==
    /\ Idle /\ batch /\ queue = <<>> /\ pendingMovedFrom # <<>>
    /\ batch' = FALSE
    /\ UNCHANGED <<disk, kernel, table, pendingMovedFrom, walk, index, ghosts>>

\* ... so each movedFrom that is still waiting has left the root: it is
\* removed, and a directory no longer watched.
Leave(cookie) ==
    /\ ~batch
    /\ LET path == pendingMovedFrom[cookie]
           wd   == pathToWd[path]
       IN  /\ ApplyRemoved(path)
           /\ IF path \in DOMAIN pathToWd
              THEN /\ RemoveByWd(wd)
                   /\ watches' = Restrict(watches, {i \in DOMAIN watches : watches[i] # wd})
                   /\ queue' = IF wd \in Range(watches) THEN queue \o Ignored(wd) ELSE queue
              ELSE UNCHANGED <<table, watches, queue>>
    /\ pendingMovedFrom' = Without(pendingMovedFrom, cookie)
    /\ batch' = (DOMAIN pendingMovedFrom = {cookie})
    /\ gaps' = gaps \cup {"unpaired"}
    /\ UNCHANGED <<disk, movedTo, descriptors, backend, walk, misreported>>

-----------------------------------------------------------------------------
(* The watcher's thread: WatchAndEmitNewSubtree.                           *)

\* AddWatch: inotify_add_watch gives an inode that is watched its descriptor
\* again, and the table its new path.
AddWatch(path) ==
    LET i     == Inode(path)
        fresh == i \notin DOMAIN watches
        wd    == IF fresh THEN descriptors + 1 ELSE watches[i]
    IN  /\ watches' = Put(watches, i, wd)
        /\ descriptors' = IF fresh THEN wd ELSE descriptors
        /\ wdToPath' = Put(wdToPath, wd, path)
        /\ pathToWd' = Put(pathToWd, path, wd)

notWalk == <<disk, queue, movedTo, backend, batch, pendingMovedFrom>>

\* Mutant of WatchNext: the directories below are not watched.
WatchNextOnly ==
    /\ toWatch # <<>>
    /\ toWatch' = Tail(toWatch)
    /\ IF Head(toWatch) \in DirsNow THEN AddWatch(Head(toWatch))
                                    ELSE UNCHANGED <<watches, descriptors, table>>
    /\ UNCHANGED <<notWalk, walkRoot, toEmit, index, ghosts>>

\* Depth first: a directory is watched, then read, in whatever order the file
\* system lists it. One that cannot be opened any more ends the whole walk.
WatchNext ==
    /\ toWatch # <<>>
    /\ LET path == Head(toWatch)
       IN  IF path \in DirsNow
           THEN /\ AddWatch(path)
                /\ \E subdirs \in SetToSeqs(Children(path) \cap DirPaths) :
                       toWatch' = subdirs \o Tail(toWatch)
                /\ UNCHANGED gaps
           ELSE /\ toWatch' = <<>>
                /\ gaps' = gaps \cup (IF Tail(toWatch) = <<>> THEN {} ELSE {"aborted"})
                /\ UNCHANGED <<watches, descriptors, table>>
    /\ UNCHANGED <<notWalk, walkRoot, toEmit, index, doubtful, misreported>>

\* The second walk begins.
ReadSubtree ==
    /\ toWatch = <<>> /\ walkRoot # None
    /\ walkRoot' = None
    /\ IF walkRoot \in DirsNow
       THEN \E entries \in SetToSeqs(Children(walkRoot)) : toEmit' = entries
       ELSE UNCHANGED toEmit
    /\ UNCHANGED <<notWalk, watches, descriptors, table, toWatch, index, ghosts>>

\* An entry is emitted as Added, and a directory entered.
EmitNext ==
    /\ toEmit # <<>>
    /\ LET path == Head(toEmit)
       IN  /\ index' \in Rescanned(index, path)
           /\ doubtful' = doubtful \cup {path} \cup Below(path)
           /\ misreported' = Misled
           /\ IF path \in DirPaths \ DirsNow
              THEN /\ toEmit' = <<>>
                   /\ gaps' = gaps \cup (IF Tail(toEmit) = <<>> THEN {} ELSE {"aborted"})
              ELSE /\ \E entries \in SetToSeqs(Children(path)) :
                          toEmit' = entries \o Tail(toEmit)
                   /\ UNCHANGED gaps
    /\ UNCHANGED <<notWalk, watches, descriptors, table, toWatch, walkRoot>>

-----------------------------------------------------------------------------
(* FanotifyMonitor's thread.                                               *)

\* Mutant of ClassifyMask: what is moved in is not a change.
ClassifyMaskUnmoved(kinds) ==
    IF "create" \in kinds THEN "Added"
    ELSE IF "delete" \in kinds \/ "movedFrom" \in kinds THEN "Removed"
    ELSE IF "modify" \in kinds THEN "Modified"
    ELSE None

\* The bits of a mask in a fixed order; the two events of a rename are not
\* paired.
ClassifyMask(kinds) ==
    IF "create" \in kinds THEN "Added"
    ELSE IF "delete" \in kinds \/ "movedFrom" \in kinds THEN "Removed"
    ELSE IF "movedTo" \in kinds THEN "Added"
    ELSE IF "modify" \in kinds THEN "Modified"
    ELSE None

\* The handle of a directory gives its present path, and none if it is gone.
ResolveDirPath(dir) == IF dir \in DOMAIN dirs THEN {dirs[dir]} ELSE {}

JoinPath(dirPath, name) == Append(dirPath, name)

\* ParseFanotifyEvent, then the callback.
Report(event) ==
    LET type == ClassifyMask(event.kinds)
    IN  IF type = None \/ ResolveDirPath(event.dir) = {}
        THEN UNCHANGED <<index, doubtful, misreported>>
        ELSE \E dirPath \in ResolveDirPath(event.dir) :
                 LET path   == JoinPath(dirPath, event.name)
                     merged == IF event.merged THEN {path} ELSE {}
                 IN  /\ index' \in CASE type = "Added"    -> Rescanned(index, path)
                                      [] type = "Removed"  -> {Removed(index, path)}
                                      [] type = "Modified" -> Rescanned(Removed(index, path), path)
                     /\ doubtful' = doubtful \cup merged
                                     \cup (IF path \in DirPaths THEN Below(path) ELSE {})
                     /\ misreported' = misreported \cup merged

\* No walk and no batch: an event is reported by itself.
ReadFanotify ==
    /\ backend = "fanotify" /\ queue # <<>>
    /\ Report(Head(queue))
    /\ queue' = Tail(queue)
    /\ UNCHANGED <<disk, watches, movedTo, descriptors, backend, table, batch,
                   pendingMovedFrom, walk, gaps>>

-----------------------------------------------------------------------------
\* The helper takes fanotify if root may be marked with it, else inotify; the
\* window has inotify.
ChooseMonitor(markable) == IF markable THEN "fanotify" ELSE "inotify"

StartDirs == {Root} \cup (Start \cap DirPaths)

Init ==
    /\ files = Start \cap FilePaths
    /\ backend \in {ChooseMonitor(markable) : markable \in BOOLEAN}
    /\ \E order \in SetToSeqs(StartDirs) :
           LET watched == IF backend = "inotify" THEN DOMAIN order ELSE {}
           IN  /\ dirs = order
               /\ watches = [i \in watched |-> i]
               /\ wdToPath = [i \in watched |-> order[i]]
               /\ pathToWd = [p \in {order[i] : i \in watched} |->
                                  CHOOSE i \in watched : order[i] = p]
               /\ descriptors = Cardinality(watched)
    /\ inodes = Cardinality(StartDirs)
    /\ queue = <<>> /\ movedTo = <<>>
    /\ batch = TRUE /\ pendingMovedFrom = <<>>
    /\ toWatch = <<>> /\ walkRoot = None /\ toEmit = <<>>
    /\ index = [p \in Paths |-> IF p \in Start THEN 1 ELSE 0]
    /\ changes = 0 /\ gaps = {} /\ doubtful = {} /\ misreported = {}

Others ==
    \/ \E p \in FilePaths : Create(p) \/ Modify(p) \/ Delete(p)
    \/ \E p \in DirPaths : MakeDir(p) \/ RemoveDir(p)
    \/ \E p, q \in Paths : Rename(p, q)

Watcher ==
    \/ ReadFanotify
    \/ HandleEvent \/ EndBatch \/ WatchNext \/ ReadSubtree \/ EmitNext
    \/ \E cookie \in DOMAIN pendingMovedFrom : Leave(cookie)

\* Every event is handled: the index is what it is until the next change.
Settled == queue = <<>> /\ movedTo = <<>> /\ Idle /\ batch /\ pendingMovedFrom = <<>>

Rest == Settled /\ UNCHANGED vars

Next == Others \/ QueueMovedTo \/ Watcher \/ Rest

Spec == Init /\ [][Next]_vars

-----------------------------------------------------------------------------
(* Properties.                                                             *)

\* Once the events are handled every file is listed, whenever directories came,
\* went and were renamed around it. With inotify, what happened before a watch
\* was set is found by the walk that follows, and what happens after has its
\* event; but an event is handled under the path the table has for its
\* directory, which may have left it, and takes the row of the file that is
\* there now. With fanotify, a file has its event wherever its directory is by
\* the time it is read, unless it came with a renamed directory or its events
\* were merged.
NothingMissing ==
    Settled /\ gaps = {} => \A p \in files \ misreported : index[p] > 0

\* With inotify every directory is watched, and the table knows it by its
\* present name: a watch survives the rename of its directory, and the walk
\* corrects its path.
DirectoriesWatched ==
    Settled /\ gaps = {} /\ backend = "inotify" =>
        \A i \in DOMAIN dirs : i \in DOMAIN watches /\ wdToPath[watches[i]] = dirs[i]

\* The index is exact for every file that no walk has reported, no rename has
\* overwritten, no renamed directory contained and, with fanotify, no merged
\* event and none of a removed directory was about: an event may be handled
\* long after the file it is about has changed again.
IndexIsExact ==
    Settled /\ gaps = {} =>
        \A p \in FilePaths \ doubtful : index[p] = (IF p \in files THEN 1 ELSE 0)
=============================================================================
