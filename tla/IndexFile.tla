------------------------------ MODULE IndexFile ------------------------------
(***************************************************************************)
(* The index file: saved by the window's worker through a temporary file   *)
(* (IndexSerializer::WriteFileAtomically) and by the root helper through   *)
(* another one (ReplaceFileForRootWrite), loaded by the window whenever    *)
(* IndexFileWatcher says that it has changed.                              *)
(*                                                                         *)
(* A directory maps names to inodes. The contents of an inode are the save *)
(* they were written by and how much of them there is; the file format and *)
(* its checksum only tell a whole version from a part of one. Processes    *)
(* are killed and the power fails at any point.                            *)
(***************************************************************************)
EXTENDS Naturals, Sequences, FiniteSets, SequencesExt

CONSTANTS
    Window, Helper,   \* the two processes that save
    MaxSaves,         \* bound: saves begun
    MaxCrashes        \* bound: processes killed and power failures

ASSUME WritersAssumption == Window # Helper
ASSUME BoundsAssumption == MaxSaves \in Nat /\ MaxCrashes \in Nat

Writers == {Window, Helper}
Inodes  == 0..MaxSaves
NoInode == MaxSaves + 1

idx   == "indexed.idx"
Names == {idx, "indexed.idx.tmp", "indexed.idx.root.tmp"}

\* Mutant of TempPath: one temporary file for everybody.
OneTempPath(w) == "indexed.idx.tmp"

\* tempPath, tempName.
TempPath(w) == IF w = Helper THEN "indexed.idx.root.tmp" ELSE "indexed.idx.tmp"

VARIABLES
    dir,        \* name -> inode, as programs see it
    dirs,       \* the directories of which a power failure may leave one
    content,    \* of each inode: which save writes it, and "some" of it or the "whole"
    synced,     \* inodes whose content survives a power failure
    pc,         \* each writer: "idle" or what it does next
    fd,         \* the inode it writes to
    save,       \* its save
    ok,         \* what its last save returned, FALSE if it was cut short
    begun,      \* saves begun
    crashes,
    watching,   \* the window has an IndexFileWatcher
    watched,    \* the inode watcher_.files() stands for
    news,       \* what the kernel has to tell the watcher
    reload,     \* reloadQueued_
    reader,     \* RunReload: "idle", "open" or "read"
    held,       \* the inode it has open
    loaded,     \* the save whose version was loaded last
    replaced    \* the file has been replaced since the watcher was made

storage == <<dir, dirs, content, synced>>
writer  == <<pc, fd, save, ok>>
watch   == <<watching, watched, replaced>>
loader  == <<reader, held, loaded>>

vars == <<storage, writer, begun, crashes, watch, news, reload, loader>>

-----------------------------------------------------------------------------
(* The file system and its notifications, which are external. An inotify   *)
(* queue merges a notification with an equal one at its end. A watched     *)
(* inode is gone when neither a name nor an open file refers to it.        *)

Tell(queue, what) ==
    IF ~watching \/ (queue # <<>> /\ Last(queue) = what) THEN queue ELSE Append(queue, what)

DirChanged == [kind |-> "dir", inode |-> NoInode]

SetDir(newDir) ==
    /\ dir' = newDir
    /\ dirs' = dirs \cup {newDir}

\* A rename over the watched inode changes its links, and ends it unless it
\* is being read.
Unlinked(queue, i) ==
    IF i = NoInode \/ i # watched THEN queue
    ELSE LET linkCount == Tell(queue, [kind |-> "changed", inode |-> i])
         IN  IF held = i THEN linkCount ELSE Tell(linkCount, [kind |-> "gone", inode |-> i])

-----------------------------------------------------------------------------
(* Saving.                                                                 *)

notSaving == <<begun, crashes, watch, reload, loader>>

Goto(w, where) == pc' = [pc EXCEPT ![w] = where]

Return(w, result) ==
    /\ Goto(w, "idle")
    /\ fd' = [fd EXCEPT ![w] = NoInode] /\ save' = [save EXCEPT ![w] = 0]
    /\ ok' = [ok EXCEPT ![w] = result]

Begin(w) ==
    /\ pc[w] = "idle" /\ begun < MaxSaves
    /\ begun' = begun + 1
    /\ save' = [save EXCEPT ![w] = begun + 1]
    /\ Goto(w, IF w = Helper THEN "unlink" ELSE "create")
    /\ UNCHANGED <<storage, fd, ok, crashes, watch, news, reload, loader>>

\* The helper removes a temporary file left by a crash.
Unlink(w) ==
    /\ pc[w] = "unlink"
    /\ IF dir[TempPath(w)] = NoInode
       THEN UNCHANGED <<dir, dirs, news>>
       ELSE SetDir([dir EXCEPT ![TempPath(w)] = NoInode]) /\ news' = Tell(news, DirChanged)
    /\ Goto(w, "create")
    /\ UNCHANGED <<notSaving, content, synced, fd, save, ok>>

\* The window truncates a temporary file that is there, the helper insists on
\* a new one.
Create(w) ==
    /\ pc[w] = "create"
    /\ w = Helper => dir[TempPath(w)] = NoInode
    /\ LET left == dir[TempPath(w)]
           i == IF left = NoInode THEN save[w] ELSE left
       IN  /\ content' = [content EXCEPT ![i] = [of |-> save[w], part |-> "some"]]
           /\ synced' = synced \ {i}
           /\ fd' = [fd EXCEPT ![w] = i]
           /\ IF left = NoInode
              THEN SetDir([dir EXCEPT ![TempPath(w)] = i]) /\ news' = Tell(news, DirChanged)
              ELSE UNCHANGED <<dir, dirs, news>>
    /\ Goto(w, "write")
    /\ UNCHANGED <<notSaving, save, ok>>

CreateFails(w) ==
    /\ pc[w] = "create"
    /\ Return(w, FALSE)
    /\ UNCHANGED <<notSaving, storage, news>>

\* The last of the writes by which the bytes arrive.
Write(w) ==
    /\ pc[w] = "write"
    /\ content' = [content EXCEPT ![fd[w]] = [of |-> save[w], part |-> "whole"]]
    /\ synced' = synced \ {fd[w]}
    /\ Goto(w, "sync")
    /\ UNCHANGED <<notSaving, dir, dirs, news, fd, save, ok>>

\* fsync, of what the window finds under the name when it opens it again.
Sync(w) ==
    /\ pc[w] = "sync"
    /\ LET i == IF w = Helper THEN fd[w] ELSE dir[TempPath(w)]
       IN  i # NoInode /\ synced' = synced \cup {i}
    /\ Goto(w, "rename")
    /\ UNCHANGED <<notSaving, dir, dirs, content, news, fd, save, ok>>

Rename(w) ==
    /\ pc[w] = "rename" /\ dir[TempPath(w)] # NoInode
    /\ SetDir([dir EXCEPT ![idx] = dir[TempPath(w)], ![TempPath(w)] = NoInode])
    /\ news' = Unlinked(Tell(news, DirChanged), dir[idx])
    /\ replaced' = watching
    /\ Goto(w, "syncdir")
    /\ UNCHANGED <<content, synced, fd, save, ok, begun, crashes, watching, watched, reload, loader>>

\* A write, an fsync or the rename fails: the temporary file is removed.
Fail(w) ==
    /\ pc[w] \in {"write", "sync", "rename"}
    /\ IF dir[TempPath(w)] = NoInode
       THEN UNCHANGED <<dir, dirs, news>>
       ELSE SetDir([dir EXCEPT ![TempPath(w)] = NoInode]) /\ news' = Tell(news, DirChanged)
    /\ Return(w, FALSE)
    /\ UNCHANGED <<notSaving, content, synced>>

\* Mutant of SyncDir: the rename is taken for durable.
SyncNoDir(w) ==
    /\ pc[w] = "syncdir"
    /\ Return(w, TRUE)
    /\ UNCHANGED <<notSaving, storage, news>>

\* The rename is made durable, or not and the save counts as failed.
SyncDir(w) ==
    /\ pc[w] = "syncdir"
    /\ \/ dirs' = {dir} /\ Return(w, TRUE)
       \/ UNCHANGED dirs /\ Return(w, FALSE)
    /\ UNCHANGED <<notSaving, dir, content, synced, news>>

Saving(w) ==
    \/ Unlink(w) \/ Create(w) \/ CreateFails(w) \/ Write(w) \/ Sync(w) \/ Rename(w)
    \/ Fail(w) \/ SyncDir(w)

-----------------------------------------------------------------------------
(* IndexFileWatcher.                                                       *)

notWatching == <<storage, writer, begun, crashes, watching, replaced, loader>>

StartWatching ==
    /\ ~watching
    /\ watching' = TRUE /\ watched' = dir[idx] /\ replaced' = FALSE
    /\ UNCHANGED <<storage, writer, begun, crashes, news, reload, loader>>

\* Rearm, with what watcher_.files() holds; it says whether it did.
Rearms(files) == files = NoInode /\ dir[idx] # NoInode

Rearm(files) == watched' = IF Rearms(files) THEN dir[idx] ELSE files

\* A watcher that has been told that an inode is gone no longer lists the
\* file; of an inode it does not watch any more it hears nothing.
OnFileChanged ==
    /\ Head(news).kind # "dir"
    /\ IF Head(news).inode = watched
       THEN /\ Rearm(IF Head(news).kind = "gone" THEN NoInode ELSE watched)
            /\ reload' = TRUE
       ELSE UNCHANGED <<watched, reload>>

\* Mutant of OnDirectoryChanged: a file that appears is watched, not reported.
OnDirectoryChangedQuietly ==
    /\ Head(news).kind = "dir"
    /\ Rearm(watched)
    /\ UNCHANGED reload

\* Only a file that was not watched is news.
OnDirectoryChanged ==
    /\ Head(news).kind = "dir"
    /\ Rearm(watched)
    /\ reload' = (reload \/ Rearms(watched))

Watcher ==
    /\ news # <<>> /\ news' = Tail(news)
    /\ OnFileChanged \/ OnDirectoryChanged
    /\ UNCHANGED notWatching

-----------------------------------------------------------------------------
(* RunReload and IndexSerializer::Load, on the worker of IndexService.     *)

notLoading == <<storage, writer, begun, crashes, watch>>

BeginReload ==
    /\ reader = "idle" /\ reload
    /\ reload' = FALSE /\ reader' = "open"
    /\ UNCHANGED <<notLoading, news, held, loaded>>

OpenIndex ==
    /\ reader = "open"
    /\ held' = dir[idx]
    /\ reader' = IF dir[idx] = NoInode THEN "idle" ELSE "read"
    /\ UNCHANGED <<notLoading, news, reload, loaded>>

\* A version whose checksum does not fit is not taken. The inode that is read
\* may have been replaced meanwhile, and is then gone.
ReadIndex ==
    /\ reader = "read"
    /\ loaded' = IF content[held].part = "whole" THEN content[held].of ELSE loaded
    /\ held' = NoInode /\ reader' = "idle"
    /\ news' = IF held = watched /\ held # dir[idx]
               THEN Tell(news, [kind |-> "gone", inode |-> held]) ELSE news
    /\ UNCHANGED <<notLoading, reload>>

Reader == BeginReload \/ OpenIndex \/ ReadIndex

-----------------------------------------------------------------------------
(* Crashes. A window that is started again loads what it finds.            *)

NewWindow(d) ==
    /\ watching' = FALSE /\ watched' = NoInode /\ replaced' = FALSE
    /\ news' = <<>> /\ reload' = FALSE
    /\ reader' = "idle" /\ held' = NoInode
    /\ loaded' = IF d[idx] # NoInode THEN content[d[idx]].of ELSE NoInode

Kill(w) ==
    /\ crashes < MaxCrashes
    /\ crashes' = crashes + 1
    /\ Return(w, ok[w] /\ pc[w] = "idle")
    /\ IF w = Window THEN NewWindow(dir) ELSE UNCHANGED <<watch, news, reload, loader>>
    /\ UNCHANGED <<storage, begun>>

\* What was not synced may have been written in part.
PowerFailure ==
    /\ crashes < MaxCrashes
    /\ crashes' = crashes + 1
    /\ \E d \in dirs : dir' = d /\ dirs' = {d} /\ NewWindow(d)
    /\ \E torn \in SUBSET {i \in Inodes \ synced : content[i].part = "whole"} :
           content' = [i \in Inodes |-> IF i \in torn THEN [content[i] EXCEPT !.part = "some"]
                                                      ELSE content[i]]
    /\ synced' = Inodes
    /\ pc' = [w \in Writers |-> "idle"] /\ ok' = [w \in Writers |-> FALSE]
    /\ fd' = [w \in Writers |-> NoInode] /\ save' = [w \in Writers |-> 0]
    /\ UNCHANGED begun

-----------------------------------------------------------------------------
\* There is a file, inode 0, or none.
Init ==
    /\ \E i \in {0, NoInode} : dir = [n \in Names |-> IF n = idx THEN i ELSE NoInode]
    /\ dirs = {dir}
    /\ content = [i \in Inodes |-> [of |-> i, part |-> IF i = 0 THEN "whole" ELSE "some"]]
    /\ synced = {0}
    /\ pc = [w \in Writers |-> "idle"] /\ ok = [w \in Writers |-> FALSE]
    /\ fd = [w \in Writers |-> NoInode] /\ save = [w \in Writers |-> 0]
    /\ begun = 0 /\ crashes = 0
    /\ watching = FALSE /\ watched = NoInode /\ replaced = FALSE
    /\ news = <<>> /\ reload = FALSE
    /\ reader = "idle" /\ held = NoInode
    /\ loaded = dir[idx]

Next ==
    \/ StartWatching \/ Watcher \/ Reader \/ PowerFailure
    \/ \E w \in Writers : Begin(w) \/ Saving(w) \/ Kill(w)

Spec == Init /\ [][Next]_vars

-----------------------------------------------------------------------------
(* Properties.                                                             *)

\* The version an inode holds, and what a power failure makes of it.
Broken == NoInode + 1

VersionIn(i) ==
    IF i = NoInode THEN NoInode ELSE IF content[i].part = "whole" THEN content[i].of ELSE Broken

Survivor(i) == IF i = NoInode \/ i \in synced THEN VersionIn(i) ELSE Broken

\* Two writers that know nothing of one another, each in some ten steps, any
\* of which may fail or be the last, replace the file in one step and whole.
Promise == INSTANCE ReplacedFile WITH
    Versions <- Inodes, NoVersion <- NoInode,
    file <- VersionIn(dir[idx]),
    survivors <- {Survivor(d[idx]) : d \in dirs},
    phase <- [w \in Writers |-> IF pc[w] = "idle" THEN "idle"
                                ELSE IF pc[w] = "syncdir" THEN "replaced" ELSE "saving"]

SavePromise == Promise!Spec

\* When the watcher has nothing to be told and no reload is under way, the
\* index is that of the file, however its notifications, its replacements
\* and the loads followed one another: no replacement goes unseen.
QuietIsCurrent ==
    replaced /\ news = <<>> /\ ~reload /\ reader = "idle" => loaded = VersionIn(dir[idx])
=============================================================================
